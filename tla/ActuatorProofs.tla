----------------------------- MODULE ActuatorProofs -----------------------------
(***************************************************************************)
(* Proofs about Actuator, for every service, and any number of streams.     *)
(***************************************************************************)
EXTENDS Actuator, SequenceTheorems, TLAPS

\* All the steps of A that occur in p come before all those of B.
Before(A, B, p) == \A i, j \in DOMAIN p : p[i] \in A /\ p[j] \in B => i < j

Setup   == {"connect", "zero", "set"}
Closers == {"zero", "disconnect"}

Silent  == \A c \in Channels : thread[c] = "none"
AllGone == \A c \in Channels : Gone(c)

-----------------------------------------------------------------------------
(* The invariants.                                                          *)

\* No frame is None once a thread has it, and only a frame is fresh.
TypeInv ==
  /\ TypeOK
  /\ got \in [Channels -> [Channels -> Values]]
  /\ \A c \in Channels : fresh[c] => latest[c] # None

\* What the main thread has still to do is the rest of a program, in its order.
ProgramInv ==
  /\ main = "opening" => /\ ToSet(todo) \subseteq ToSet(Opening[kind])
                         /\ Before(Setup, {"start"}, todo) /\ IsInjective(todo)
  /\ main = "starting" => ToSet(todo) \subseteq ToSet(Running[kind].first) /\ IsInjective(todo)
  /\ main = "ending" => ToSet(todo) \subseteq ToSet(Running[kind].last)
  /\ main = "closing" => /\ ToSet(todo) \subseteq ToSet(Closing[kind])
                         /\ Before({"join"}, {"disconnect"}, todo)
                         /\ kind \notin Lasers => Before({"join"}, Closers, todo)
  /\ main \notin {"opening", "starting", "ending", "closing"} => todo = <<>>
  /\ failed = "open" => main = "closed"
  /\ failed = "close" => main \in {"closing", "closed"}

\* The threads are started once, when all is set up.
StartInv ==
  /\ main = "opening" /\ ToSet(todo) \cap Setup # {} => Silent
  /\ main = "opening" /\ "start" \in ToSet(todo) \cup ToSet(Running[kind].first) => Silent
  /\ main = "starting" /\ "start" \in ToSet(todo) => Silent
  /\ InMain => \A c \in Channels \ {Source} : thread[c] = "none"

\* The services whose threads end before close is called.
EndsInMain == InMain \/ kind \in {"bmc_dm", "bmc_dm_sim"}

JoinInv ==
  /\ main = "ending" /\ EndsInMain => AllGone \/ "join" \in ToSet(todo)
  /\ main \in {"ended", "closing"} /\ EndsInMain => AllGone
  /\ main = "closing" /\ failed # "close" /\ "disconnect" \in ToSet(todo)
       => AllGone \/ "join" \in ToSet(todo)
  /\ main = "closing" /\ failed # "close" /\ "zero" \in ToSet(todo) /\ kind \notin Lasers
       => AllGone \/ "join" \in ToSet(todo)

\* The device is connected from the step that does so to the one that undoes it, which
\* comes after the end of the threads.
ConnectedInv ==
  /\ main = "opening" => connected \/ ("connect" \in ToSet(todo) /\ Silent)
  /\ main \notin {"opening", "closing", "closed"} => connected
  /\ main \in {"closing", "closed"} /\ failed # "close" => connected \/ AllGone

\* It is zeroed after the end of the threads, and nobody else sends anything.
OffInv ==
  /\ kind \notin Lasers /\ "zero" \in ToSet(Closing[kind]) /\ failed \notin {"open", "close"} =>
       /\ main = "closing" => (device = Off /\ AllGone) \/ "zero" \in ToSet(todo)
       /\ main = "closed" => device = Off /\ AllGone
  /\ kind = "plp_sim" => device = Off

\* The service runs, or is about to, and nobody has asked it to stop.
Live == ~stopping /\ main \in {"opening", "starting", "running"}

\* Where the threads are depends on what they do with a frame.
Updating == {"read", "set", "compute", "store", "load"}
Looking  == {"look", "report", "retry", "again"}
Looks    == Monitor[kind].first = "look"

ThreadInv ==
  /\ \A c \in Channels : ~Combines => thread[c] \notin Updating
  /\ \A c \in Channels : ~Looks => thread[c] \notin Looking
  /\ Silent => \A c \in Channels : fresh[c] \/ latest[c] = None
  /\ Combines => main \notin {"starting", "running"} \/ \A c \in Channels : latest[c] # None
  /\ Combines /\ main = "opening" /\ "submit" \notin ToSet(todo)
       => \A c \in Channels : latest[c] # None

Unseen(c) == fresh[c] \/ latest[c] = None

\* A thread whose stream has nothing new has what is latest, and the device has it when it
\* waits for a frame.
Right(c) ==
  /\ thread[c] \in {"check", "get"} => Unseen(c) \/ c \in lost \/ Settled(c)
  /\ thread[c] \in Looking \cup {"send"} => fresh[c] \/ got[c][c] = latest[c]

StreamInv == ~Combines /\ Live => \A c \in Streams : Right(c)

\* Where the position is looked at, the reported one is that of the device.
ReportInv ==
  Looks => /\ thread[Source] = "send" => Accepts(got[Source][Source])
           /\ thread[Source] = "send" /\ kind = "mff101" => reported = None
           /\ thread[Source] = "report" => device[Source] = got[Source][Source]
           /\ thread[Source] \notin {"report", "dead"} =>
                reported \in {None, Unset} \/ device[Source] = reported

\* No update overlapped another one since the last one began, and no thread died.
Alone == ~overlapped /\ \A c \in Channels : thread[c] # "dead"

\* What an update knows: all the frames but those it is yet to read.
Knows(c) == \A d \in Channels : Unseen(d) \/ d \in unread[c] \/ got[c][d] = latest[d]

Updated ==
  /\ \A c, d \in Channels : Busy(c) /\ Busy(d) => c = d
  /\ (\A c \in Channels : ~Busy(c)) => \A d \in Channels : Unseen(d) \/ device[d] = latest[d]
  /\ \A c \in Channels : Busy(c) => Knows(c)
  /\ \A c \in Channels : thread[c] = "compute" => surface = got[c] /\ voltages = NotComputed
  /\ \A c \in Channels : thread[c] = "load" => voltages = got[c]

UpdateInv == Combines /\ Live /\ Alone => Updated

-----------------------------------------------------------------------------
(* The programs.                                                            *)

LEMMA TailOf ==
  ASSUME NEW S, NEW p \in Seq(S), p # <<>>
  PROVE  /\ Tail(p) \in Seq(S) /\ Len(Tail(p)) = Len(p) - 1 /\ Len(p) \in Nat \ {0}
         /\ DOMAIN p = 1 .. Len(p) /\ DOMAIN Tail(p) = 1 .. Len(p) - 1
         /\ Head(p) = p[1] /\ Head(p) \in S
         /\ \A i \in 1 .. Len(p) - 1 : Tail(p)[i] = p[i + 1]
  <1>1. Len(p) \in Nat \ {0}
    BY EmptySeq, SMT
  <1> QED
    BY <1>1, SMT

LEMMA TailSet ==
  ASSUME NEW S, NEW p \in Seq(S), p # <<>>
  PROVE  \A s : s \in ToSet(p) <=> s = Head(p) \/ s \in ToSet(Tail(p))
  <1> TAKE s
  <1>1. ASSUME s \in ToSet(p) PROVE s = Head(p) \/ s \in ToSet(Tail(p))
    <2>1. PICK i \in 1 .. Len(p) : p[i] = s
      BY <1>1, TailOf DEF ToSet
    <2>2. i # 1 => i - 1 \in 1 .. Len(p) - 1 /\ Tail(p)[i - 1] = s
      BY <2>1, TailOf
    <2> QED
      BY <2>1, <2>2, TailOf DEF ToSet
  <1>2. ASSUME s \in ToSet(Tail(p)) PROVE s \in ToSet(p)
    <2>1. PICK i \in 1 .. Len(p) - 1 : Tail(p)[i] = s
      BY <1>2, TailOf DEF ToSet
    <2>2. i + 1 \in 1 .. Len(p) /\ p[i + 1] = s
      BY <2>1, TailOf
    <2> QED
      BY <2>2, TailOf DEF ToSet
  <1>3. Head(p) \in ToSet(p)
    <2>1. 1 \in DOMAIN p
      BY TailOf
    <2> QED
      BY <2>1, TailOf DEF ToSet
  <1> QED
    BY <1>1, <1>2, <1>3

LEMMA TailOnce ==
  ASSUME NEW S, NEW p \in Seq(S), p # <<>>, IsInjective(p)
  PROVE  IsInjective(Tail(p)) /\ Head(p) \notin ToSet(Tail(p))
  <1>1. IsInjective(Tail(p))
    BY TailOf, SMT DEF IsInjective
  <1>2. ASSUME NEW i \in 1 .. Len(p) - 1, Tail(p)[i] = Head(p) PROVE FALSE
    BY <1>2, TailOf, SMT DEF IsInjective
  <1> QED
    BY <1>1, <1>2, TailOf DEF ToSet

\* What is left of a program keeps its order; and nothing of A follows a step of B.
LEMMA TailBefore ==
  ASSUME NEW S, NEW p \in Seq(S), p # <<>>, NEW A, NEW B, Before(A, B, p)
  PROVE  /\ Before(A, B, Tail(p))
         /\ Head(p) \in B => A \cap ToSet(p) = {}
  <1>1. Before(A, B, Tail(p))
    <2> SUFFICES ASSUME NEW i \in DOMAIN Tail(p), NEW j \in DOMAIN Tail(p),
                        Tail(p)[i] \in A, Tail(p)[j] \in B
                 PROVE  i < j
      BY DEF Before
    <2>1. i + 1 \in DOMAIN p /\ j + 1 \in DOMAIN p /\ i \in Nat /\ j \in Nat
      BY TailOf
    <2>2. p[i + 1] \in A /\ p[j + 1] \in B
      BY TailOf
    <2>3. i + 1 < j + 1
      BY <2>1, <2>2 DEF Before
    <2> QED
      BY <2>1, <2>3
  <1>2. ASSUME Head(p) \in B, NEW i \in DOMAIN p, p[i] \in A PROVE FALSE
    <2>1. 1 \in DOMAIN p /\ p[1] \in B /\ i \in Nat \ {0}
      BY <1>2, TailOf
    <2>2. i < 1
      BY <1>2, <2>1 DEF Before
    <2> QED
      BY <2>1, <2>2
  <1> QED
    BY <1>1, <1>2 DEF ToSet

LEMMA NoSteps ==
  /\ ToSet(<<>>) = {} /\ IsInjective(<<>>)
  /\ \A A, B : Before(A, B, <<>>)
  BY DEF ToSet, IsInjective, Before

LEMMA OneStep ==
  ASSUME NEW a
  PROVE  /\ ToSet(<<a>>) = {a} /\ IsInjective(<<a>>)
         /\ \A A, B : A \cap B = {} => Before(A, B, <<a>>)
  <1> DEFINE p == <<a>>
  <1>1. DOMAIN p = {1} /\ p[1] = a
    BY SMT
  <1> HIDE DEF p
  <1>2. ToSet(p) = {a} /\ IsInjective(p)
    BY <1>1 DEF ToSet, IsInjective
  <1>3. \A A, B : A \cap B = {} => Before(A, B, p)
    BY <1>1 DEF Before
  <1> QED
    BY <1>2, <1>3 DEF p

LEMMA TwoSteps ==
  ASSUME NEW a, NEW b, a # b
  PROVE  /\ ToSet(<<a, b>>) = {a, b} /\ IsInjective(<<a, b>>)
         /\ \A A, B : A \cap B = {} /\ ~(a \in B /\ b \in A) => Before(A, B, <<a, b>>)
  <1> DEFINE p == <<a, b>>
  <1>1. DOMAIN p = 1 .. 2 /\ p[1] = a /\ p[2] = b
    BY SMT
  <1> HIDE DEF p
  <1>2. ToSet(p) = {a, b}
    BY <1>1 DEF ToSet
  <1>3. IsInjective(p)
    BY <1>1 DEF IsInjective
  <1>4. ASSUME NEW A, NEW B, A \cap B = {}, ~(a \in B /\ b \in A) PROVE Before(A, B, p)
    BY <1>1, <1>4 DEF Before
  <1> QED
    BY <1>2, <1>3, <1>4 DEF p

LEMMA ThreeSteps ==
  ASSUME NEW a, NEW b, NEW c, a # b, a # c, b # c
  PROVE  /\ ToSet(<<a, b, c>>) = {a, b, c} /\ IsInjective(<<a, b, c>>)
         /\ \A A, B : /\ A \cap B = {} /\ ~(a \in B /\ b \in A) /\ ~(a \in B /\ c \in A)
                     /\ ~(b \in B /\ c \in A)
                     => Before(A, B, <<a, b, c>>)
  <1> DEFINE p == <<a, b, c>>
  <1>1. DOMAIN p = 1 .. 3 /\ p[1] = a /\ p[2] = b /\ p[3] = c
    BY SMT
  <1> HIDE DEF p
  <1>2. ToSet(p) = {a, b, c}
    BY <1>1 DEF ToSet
  <1>3. IsInjective(p)
    BY <1>1 DEF IsInjective
  <1>4. ASSUME NEW A, NEW B, A \cap B = {}, ~(a \in B /\ b \in A), ~(a \in B /\ c \in A),
               ~(b \in B /\ c \in A)
        PROVE  Before(A, B, p)
    <2> SUFFICES ASSUME NEW i \in 1 .. 3, NEW j \in 1 .. 3, p[i] \in A, p[j] \in B
                 PROVE  i < j
      BY <1>1 DEF Before
    <2> QED
      BY <1>1, <1>4
  <1> QED
    BY <1>2, <1>3, <1>4 DEF p

\* In every open, what is to be done before the threads start precedes their start.
WellOpened(p) == IsInjective(p) /\ Before(Setup, {"start"}, p)

LEMMA Openings ==
  ASSUME NEW k \in AllKinds
  PROVE  /\ WellOpened(Opening[k])
         /\ ToSet(Opening[k]) \subseteq {"connect", "zero", "submit", "start", "set"}
         /\ Opening[k] \in Seq({"connect", "zero", "submit", "start", "set"})
         /\ "start" \in ToSet(Opening[k]) => k \notin {"bmc_dm", "bmc_dm_sim", "plp", "plp_sim",
                                         "cld101x", "cld101x_sim", "mff101", "fw102c"}
         /\ k \in {"mff101", "fw102c"} => "zero" \notin ToSet(Opening[k])
         /\ "set" \in ToSet(Opening[k]) => k = "mff101"
         /\ k \in {"ni_daq", "ni_daq_sim", "superk_sim", "mcls1_sim"} => "submit" \in ToSet(Opening[k])
  <1> USE DEF WellOpened, Setup
  <1>1. CASE k \in {"bmc_dm", "cld101x"}
    <2>1. Opening[k] = <<"connect", "zero">>
      BY <1>1 DEF Opening, BmcDmOpen, CldOpen
    <2> QED
      BY <1>1, <2>1, TwoSteps
  <1>2. CASE k = "bmc_dm_sim"
    <2>1. Opening[k] = <<"zero">>
      BY <1>2 DEF Opening, BmcDmSimOpen
    <2> QED
      BY <1>2, <2>1, OneStep
  <1>3. CASE k = "bmc_hardware"
    <2>1. Opening[k] = <<"connect", "zero", "start">>
      BY <1>3 DEF Opening, HardwareOpen
    <2> QED
      BY <1>3, <2>1, ThreeSteps
  <1>4. CASE k = "bmc_sim"
    <2>1. Opening[k] = <<"zero", "start">>
      BY <1>4 DEF Opening, MirrorOpen
    <2> QED
      BY <1>4, <2>1, TwoSteps
  <1>5. CASE k = "ni_daq"
    <2>1. Opening[k] = <<"connect", "submit", "start">>
      BY <1>5 DEF Opening, NiDaqOpen
    <2> QED
      BY <1>5, <2>1, ThreeSteps
  <1>6. CASE k \in {"ni_daq_sim", "superk_sim"}
    <2>1. Opening[k] = <<"submit", "start">>
      BY <1>6 DEF Opening, NiDaqSimOpen, SuperkSimOpen
    <2> QED
      BY <1>6, <2>1, TwoSteps
  <1>7. CASE k = "superk"
    <2>1. Opening[k] = <<"submit", "connect", "start">>
      BY <1>7 DEF Opening, SuperkOpen
    <2> QED
      BY <1>7, <2>1, ThreeSteps
  <1>8. CASE k = "mcls1"
    <2>1. Opening[k] = <<"connect", "start", "submit">>
      BY <1>8 DEF Opening, MclsOpen
    <2> QED
      BY <1>8, <2>1, ThreeSteps
  <1>9. CASE k = "mcls1_sim"
    <2>1. Opening[k] = <<"start", "submit">>
      BY <1>9 DEF Opening, MclsSimOpen
    <2> QED
      BY <1>9, <2>1, TwoSteps
  <1>10. CASE k \in {"plp", "fw102c"}
    <2>1. Opening[k] = <<"connect">>
      BY <1>10 DEF Opening, PlpOpen, FilterOpen
    <2> QED
      BY <1>10, <2>1, OneStep
  <1>11. CASE k \in {"plp_sim", "cld101x_sim"}
    <2>1. Opening[k] = <<>>
      BY <1>11 DEF Opening, PlpSimOpen, CldSimOpen
    <2> QED
      BY <1>11, <2>1, NoSteps
  <1>12. CASE k \in {"switch", "switch_sim", "xps_sim", "picomotor_sim", "kinesis_sim"}
    <2>1. Opening[k] = <<"start">>
      BY <1>12 DEF Opening, SwitchOpen, SwitchSimOpen, XpsSimOpen,
                             PicomotorSimOpen, KinesisSimOpen
    <2> QED
      BY <1>12, <2>1, OneStep
  <1>13. CASE k \in {"xps", "picomotor", "kinesis"}
    <2>1. Opening[k] = <<"connect", "start">>
      BY <1>13 DEF Opening, XpsOpen, PicomotorOpen, KinesisOpen
    <2> QED
      BY <1>13, <2>1, TwoSteps
  <1>14. CASE k = "mff101"
    <2>1. Opening[k] = <<"connect", "set">>
      BY <1>14 DEF Opening, FlipOpen
    <2> QED
      BY <1>14, <2>1, TwoSteps
  <1> QED
    BY <1>1, <1>2, <1>3, <1>4, <1>5, <1>6, <1>7, <1>8, <1>9, <1>10, <1>11, <1>12, <1>13, <1>14 DEF AllKinds, Opening

\* A close joins the threads before it closes the connection, and, but for the lasers,
\* before it turns the device off; unless main has joined them.
LEMMA Closings ==
  ASSUME NEW k \in AllKinds
  PROVE  /\ Before({"join"}, {"disconnect"}, Closing[k])
         /\ k \notin Lasers => Before({"join"}, Closers, Closing[k])
         /\ ToSet(Closing[k]) \subseteq {"join", "zero", "disconnect"}
         /\ Closing[k] \in Seq({"join", "zero", "disconnect"})
         /\ "join" \notin ToSet(Closing[k]) =>
              k \in {"bmc_dm", "bmc_dm_sim", "cld101x", "cld101x_sim", "mff101", "fw102c"}
         /\ k \in {"mff101", "fw102c"} => "zero" \notin ToSet(Closing[k])
         /\ k \in {"bmc_dm", "bmc_hardware"} => "disconnect" \in ToSet(Closing[k])
  <1> USE DEF Closers, Lasers
  <1>1. CASE k \in {"bmc_dm", "cld101x"}
    <2>1. Closing[k] = <<"zero", "disconnect">>
      BY <1>1 DEF Closing, BmcDmClose, CldClose
    <2> QED
      BY <1>1, <2>1, TwoSteps
  <1>2. CASE k \in {"bmc_dm_sim", "cld101x_sim"}
    <2>1. Closing[k] = <<>>
      BY <1>2 DEF Closing
    <2> QED
      BY <1>2, <2>1, NoSteps
  <1>3. CASE k \in {"bmc_hardware", "plp"}
    <2>1. Closing[k] = <<"join", "zero", "disconnect">>
      BY <1>3 DEF Closing, HardwareClose, PlpClose
    <2> QED
      BY <1>3, <2>1, ThreeSteps
  <1>4. CASE k \in {"bmc_sim", "plp_sim", "picomotor"}
    <2>1. Closing[k] = <<"join", "zero">>
      BY <1>4 DEF Closing, MirrorClose, PlpSimClose, PicomotorClose
    <2> QED
      BY <1>4, <2>1, TwoSteps
  <1>5. CASE k \in {"ni_daq", "xps", "kinesis"}
    <2>1. Closing[k] = <<"join", "disconnect">>
      BY <1>5 DEF Closing, NiDaqClose, XpsClose, KinesisClose
    <2> QED
      BY <1>5, <2>1, TwoSteps
  <1>6. CASE k \in {"ni_daq_sim", "switch", "switch_sim", "xps_sim", "picomotor_sim", "kinesis_sim"}
    <2>1. Closing[k] = <<"join">>
      BY <1>6 DEF Closing, NiDaqSimClose, SwitchClose, SwitchSimClose, XpsSimClose,
                             PicomotorSimClose, KinesisSimClose
    <2> QED
      BY <1>6, <2>1, OneStep
  <1>7. CASE k \in {"superk", "mcls1"}
    <2>1. Closing[k] = <<"zero", "join", "disconnect">>
      BY <1>7 DEF Closing, SuperkClose, MclsClose
    <2> QED
      BY <1>7, <2>1, ThreeSteps
  <1>8. CASE k \in {"superk_sim", "mcls1_sim"}
    <2>1. Closing[k] = <<"zero", "join">>
      BY <1>8 DEF Closing, SuperkSimClose, MclsSimClose
    <2> QED
      BY <1>8, <2>1, TwoSteps
  <1>9. CASE k \in {"mff101", "fw102c"}
    <2>1. Closing[k] = <<"disconnect">>
      BY <1>9 DEF Closing, FlipClose, FilterClose
    <2> QED
      BY <1>9, <2>1, OneStep
  <1> QED
    BY <1>1, <1>2, <1>3, <1>4, <1>5, <1>6, <1>7, <1>8, <1>9 DEF AllKinds, Opening

\* The only steps of main are to start the threads and to join them.
LEMMA Mains ==
  ASSUME NEW k \in AllKinds
  PROVE  /\ Running[k].first \in Seq({"start"}) /\ Running[k].last \in Seq({"join"})
         /\ ToSet(Running[k].first) \subseteq {"start"} /\ IsInjective(Running[k].first)
         /\ ToSet(Running[k].last) \subseteq {"join"}
         /\ k \in {"bmc_dm", "bmc_dm_sim"} => "join" \in ToSet(Running[k].last)
         /\ "start" \in ToSet(Running[k].first) =>
              k \in {"bmc_dm", "bmc_dm_sim", "plp", "plp_sim", "cld101x", "cld101x_sim", "mff101",
                    "fw102c"}
  <1>1. CASE k \in {"bmc_dm", "bmc_dm_sim"}
    <2>1. Running[k] = [first |-> <<"start">>, last |-> <<"join">>]
      BY <1>1 DEF Running, BmcDmMain, BmcDmSimMain
    <2> QED
      BY <1>1, <2>1, OneStep
  <1>2. CASE k \in {"plp", "plp_sim", "cld101x", "cld101x_sim", "mff101", "fw102c"}
    <2>1. Running[k] = [first |-> <<"start">>, last |-> <<>>]
      BY <1>2 DEF Running, PlpMain, PlpSimMain, CldMain, CldSimMain, FlipMain, FilterMain
    <2> QED
      BY <1>2, <2>1, OneStep, NoSteps
  <1>3. CASE k \notin {"bmc_dm", "bmc_dm_sim", "plp", "plp_sim", "cld101x", "cld101x_sim", "mff101",
                      "fw102c"}
    <2>1. Running[k] = [first |-> <<>>, last |-> <<>>]
      BY <1>3 DEF Running
    <2> QED
      BY <1>3, <2>1, NoSteps
  <1> QED
    BY <1>1, <1>2, <1>3

\* What a thread does with a frame, and when sending raises.
LEMMA Monitors ==
  ASSUME NEW k \in AllKinds
  PROVE  /\ Monitor[k].first \in {"read", "send", "look"}
         /\ Monitor[k].raises \in {"dead", "check", "resubmit", "retry"}
         /\ Monitor[k].first = "read" =>
              /\ Monitor[k].raises = "dead"
              /\ k \in {"bmc_dm", "bmc_dm_sim", "bmc_hardware", "bmc_sim", "ni_daq", "ni_daq_sim",
                       "superk_sim", "mcls1_sim"}
         /\ Monitor[k].first = "look" <=> k \in {"mff101", "fw102c"}
         /\ k = "mff101" => Monitor[k].raises = "dead"
         /\ Monitor[k].raises = "retry" => k = "fw102c"
         /\ Monitor[k].raises = "resubmit" => k = "xps"
  BY DEF AllKinds, Opening, Monitor, BmcDmMonitor, BmcDmSimMonitor, MirrorMonitor, NiDaqMonitor,
         NiDaqSimMonitor, SuperkMonitor, SuperkSimMonitor, MclsMonitor, MclsSimMonitor,
         PlpMonitor, PlpSimMonitor, CldMonitor, CldSimMonitor, SwitchMonitor, SwitchSimMonitor,
         XpsMonitor, XpsSimMonitor, PicomotorMonitor, PicomotorSimMonitor, KinesisMonitor,
         KinesisSimMonitor, FlipMonitor, FilterMonitor

-----------------------------------------------------------------------------
(* Type correctness.                                                       *)

Todos == {"connect", "zero", "submit", "start", "join", "disconnect", "set"}

MainTyped ==
  /\ kind \in Kinds
  /\ main \in {"opening", "starting", "running", "ending", "ended", "closing", "closed"}
  /\ todo \in Seq(Todos)
  /\ failed \in {"no", "open", "main", "close"}
  /\ stopping \in BOOLEAN /\ connected \in BOOLEAN

DeviceTyped ==
  /\ device \in [Channels -> Values]
  /\ surface \in [Channels -> Values]
  /\ voltages = NotComputed \/ voltages \in [Channels -> Values]
  /\ reported \in Values \cup {None, Unset} /\ tries \in 0 .. 3

StreamTyped ==
  /\ latest \in [Channels -> Values \cup {None}] /\ fresh \in [Channels -> BOOLEAN]
  /\ \A c \in Channels : fresh[c] => latest[c] # None

ThreadTyped ==
  /\ thread \in [Channels -> States]
  /\ got \in [Channels -> [Channels -> Values]]
  /\ unread \in [Channels -> SUBSET Channels]
  /\ \A c \in Channels : unread[c] # {} => thread[c] \in {"read", "dead"}

BoundTyped ==
  /\ commands \in 0 .. MaxCommands[kind] /\ failures \in 0 .. MaxFailures
  /\ overlapped \in BOOLEAN /\ lost \subseteq Channels

LEMMA TypeParts ==
  TypeInv <=> MainTyped /\ DeviceTyped /\ StreamTyped /\ ThreadTyped /\ BoundTyped
  <1>1. got \in [Channels -> [Channels -> Values]]
          => got \in [Channels -> [Channels -> Values \cup {None}]]
    OBVIOUS
  <1> QED
    BY <1>1 DEF TypeInv, TypeOK, MainTyped, DeviceTyped, StreamTyped, ThreadTyped, BoundTyped, Todos

LEMMA Constants ==
  /\ {0, 1, Refused} \subseteq Values /\ Values \subseteq Nat /\ Source \in Channels
  /\ None \notin Values /\ Unset \notin Values /\ None # Unset
  /\ Off \in [Channels -> Values] /\ MaxFailures \in Nat
  /\ Kinds \subseteq AllKinds /\ \A k \in Kinds : MaxCommands[k] \in Nat
  BY ActuatorAssumption, KindsAssumption DEF None, Unset, Off

LEMMA WholeTyped ==
  ASSUME TypeInv, NEW c \in Channels
  PROVE  Written(c) \in [Channels -> Values]
  BY DEF TypeInv, TypeOK, Written, Whole

LEMMA TypeInit == Init => TypeInv
  <1> SUFFICES ASSUME Init PROVE TypeInv
    OBVIOUS
  <1> USE Constants DEF Init
  <1>1. MainTyped
    <2>1. todo \in Seq(Todos)
      <3>1. todo \in Seq({"connect", "zero", "submit", "start", "set"})
        BY Openings
      <3> QED
        BY <3>1 DEF Todos
    <2> QED
      BY <2>1 DEF MainTyped
  <1>2. DeviceTyped
    BY DEF DeviceTyped
  <1>3. StreamTyped
    <2>1. SubmitsInInit \in BOOLEAN
      BY DEF SubmitsInInit
    <2>2. CASE SubmitsInInit
      BY <2>2 DEF StreamTyped
    <2>3. CASE ~SubmitsInInit
      BY <2>1, <2>3 DEF StreamTyped
    <2> QED
      BY <2>2, <2>3
  <1>4. ThreadTyped
    BY DEF ThreadTyped, States
  <1>5. BoundTyped
    <2>1. MaxCommands[kind] \in Nat
      OBVIOUS
    <2>2. commands \in 0 .. MaxCommands[kind] /\ failures \in 0 .. MaxFailures
      BY <2>1
    <2> QED
      BY <2>2 DEF BoundTyped
  <1> QED
    BY <1>1, <1>2, <1>3, <1>4, <1>5, TypeParts

LEMMA MainTypes ==
  ASSUME TypeInv, [Next]_vars
  PROVE  MainTyped'
  <1>a. MainTyped /\ kind \in AllKinds
    BY TypeParts, Constants DEF MainTyped
  <1>1. CASE DoStep
    <2>1. todo' \in Seq(Todos)
      BY <1>a, <1>1, TailOf DEF DoStep, MainTyped
    <2>2. connected' \in BOOLEAN
      BY <1>1 DEF DoStep, Operating
    <2> QED
      BY <1>a, <1>1, <2>1, <2>2 DEF DoStep, MainTyped
  <1>2. CASE SubmitConfigured
    <2>1. todo' \in Seq(Todos)
      BY <1>a, <1>2, TailOf DEF SubmitConfigured, MainTyped
    <2> QED
      BY <1>a, <1>2, <2>1 DEF SubmitConfigured, MainTyped
  <1>3. CASE EndProgram
    <2>1. todo' \in Seq(Todos)
      <3>1. Running[kind].first \in Seq({"start"})
        BY <1>a, Mains
      <3>2. Running[kind].first \in Seq(Todos)
        BY <3>1 DEF Todos
      <3> QED
        BY <1>3, <3>2 DEF EndProgram
    <2> QED
      BY <1>a, <1>3, <2>1 DEF EndProgram, MainTyped, AfterProgram
  <1>4. CASE LeaveMain
    <2>1. Running[kind].last \in Seq(Todos)
      <3>1. Running[kind].last \in Seq({"join"})
        BY <1>a, Mains
      <3> QED
        BY <3>1 DEF Todos
    <2> QED
      BY <1>a, <1>4, <2>1 DEF LeaveMain, MainTyped
  <1>5. CASE BeginClose
    <2>1. Closing[kind] \in Seq(Todos)
      <3>1. Closing[kind] \in Seq({"join", "zero", "disconnect"})
        BY <1>a, Closings
      <3> QED
        BY <3>1 DEF Todos
    <2> QED
      BY <1>a, <1>5, <2>1 DEF BeginClose, MainTyped
  <1>6. CASE StepFails
    <2>1. <<"disconnect">> \in Seq(Todos) /\ <<>> \in Seq(Todos)
      BY DEF Todos
    <2>2. todo' \in Seq(Todos)
      BY <1>a, <1>6, <2>1, TailOf DEF StepFails, MainTyped
    <2> QED
      BY <1>a, <1>6, <2>2 DEF StepFails, MainTyped
  <1>7. CASE ShutDown
    BY <1>a, <1>7 DEF ShutDown, MainTyped
  <1>8. CASE Ended \/ UNCHANGED vars
    BY <1>a, <1>8 DEF Ended, vars, program, MainTyped
  <1>9. CASE \E c \in Channels : Thread(c) \/ SendFails(c)
    <2>1. UNCHANGED <<kind, program>>
      BY <1>9 DEF Thread, SendFails, Check, Take, Read, SetSurface, ComputeVoltages,
                  StoreVoltages, LoadVoltages, Look, Send, Report, SendUnconnected, Retry,
                  TryAgain, rest
    <2> QED
      BY <1>a, <2>1 DEF MainTyped, program
  <1>10. CASE \E c \in Streams, v \in Values : Command(c, v)
    BY <1>a, <1>10 DEF Command, MainTyped, program
  <1> QED
    BY <1>1, <1>2, <1>3, <1>4, <1>5, <1>6, <1>7, <1>8, <1>9, <1>10 DEF Next

\* What the threads do is done by one of them, which was started and has not ended.
LEMMA OneThread ==
  ASSUME TypeInv, NEW c \in Channels, Thread(c) \/ SendFails(c)
  PROVE  /\ UNCHANGED <<kind, program, commands>>
         /\ ~Gone(c) /\ thread'[c] # "none" /\ thread' \in [Channels -> States]
         /\ \A d \in Channels \ {c} : thread'[d] = thread[d]
         /\ thread[c] # "send" => UNCHANGED device
         /\ ~connected => UNCHANGED device
  <1>a. thread \in [Channels -> States] /\ Monitor[kind].first \in {"read", "send", "look"}
        /\ Monitor[kind].raises \in {"dead", "check", "resubmit", "retry"}
    <2>1. kind \in AllKinds
      BY Constants DEF TypeInv, TypeOK
    <2> QED
      BY <2>1, Monitors DEF TypeInv, TypeOK
  <1> USE DEF Goes, rest, Gone, States
  <1>1. CASE Check(c) \/ Take(c)
    BY <1>a, <1>1 DEF Check, Take
  <1>2. CASE Read(c)
    BY <1>a, <1>2 DEF Read
  <1>3. CASE SetSurface(c) \/ ComputeVoltages(c) \/ StoreVoltages(c)
    BY <1>a, <1>3 DEF SetSurface, ComputeVoltages, StoreVoltages
  <1>4. CASE LoadVoltages(c)
    BY <1>a, <1>4 DEF LoadVoltages
  <1>5. CASE Look(c) \/ Send(c) \/ Report(c)
    BY <1>a, <1>5 DEF Look, Send, Report, program
  <1>6. CASE SendUnconnected(c) \/ TryAgain(c)
    BY <1>a, <1>6 DEF SendUnconnected, TryAgain
  <1>7. CASE Retry(c)
    BY <1>a, <1>7 DEF Retry, Failing
  <1>8. CASE SendFails(c)
    BY <1>a, <1>8 DEF SendFails, Failing, program
  <1> QED
    BY <1>1, <1>2, <1>3, <1>4, <1>5, <1>6, <1>7, <1>8 DEF Thread

LEMMA DeviceTypes ==
  ASSUME TypeInv, [Next]_vars
  PROVE  DeviceTyped'
  <1>a. DeviceTyped /\ got \in [Channels -> [Channels -> Values]] /\ latest \in [Channels -> Values \cup {None}]
    BY TypeParts DEF TypeInv, TypeOK
  <1> USE Constants
  <1>1. CASE DoStep
    <2>1. device' \in [Channels -> Values] /\ reported' \in Values \cup {None, Unset}
      BY <1>a, <1>1 DEF DoStep, Operating, Zeroed, DeviceTyped
    <2> QED
      BY <1>a, <1>1, <2>1 DEF DoStep, DeviceTyped, cached
  <1>2. CASE SubmitConfigured \/ EndProgram \/ LeaveMain \/ BeginClose
    BY <1>a, <1>2
    DEF SubmitConfigured, EndProgram, LeaveMain, BeginClose, DeviceTyped, cached, position
  <1>3. CASE StepFails \/ ShutDown \/ Ended \/ UNCHANGED vars
    BY <1>a, <1>3 DEF StepFails, ShutDown, Ended, DeviceTyped, cached, position, vars
  <1>4. CASE \E c \in Streams, v \in Values : Command(c, v)
    BY <1>a, <1>4 DEF Command, DeviceTyped, cached, position
  <1>5. ASSUME NEW c \in Channels, Thread(c) \/ SendFails(c) PROVE DeviceTyped'
    <2>a. Written(c) \in [Channels -> Values] /\ got[c] \in [Channels -> Values]
          /\ got[c][c] \in Values
      BY <1>a, WholeTyped
    <2>1. CASE Check(c) \/ Read(c) \/ LoadVoltages(c) \/ SendUnconnected(c) \/ TryAgain(c)
      BY <1>a, <2>1
      DEF Check, Read, LoadVoltages, SendUnconnected, TryAgain, DeviceTyped, cached, position
    <2>2. CASE Take(c)
      BY <1>a, <2>2 DEF Take, DeviceTyped, cached
    <2>3. CASE SetSurface(c) \/ ComputeVoltages(c) \/ StoreVoltages(c)
      BY <1>a, <2>a, <2>3
      DEF SetSurface, ComputeVoltages, StoreVoltages, DeviceTyped, cached, position
    <2>4. CASE Look(c) \/ Send(c) \/ Report(c)
      BY <1>a, <2>a, <2>4 DEF Look, Send, Report, DeviceTyped, cached, position
    <2>5. CASE Retry(c)
      BY <1>a, <2>5 DEF Retry, DeviceTyped, cached
    <2>6. CASE SendFails(c)
      <3>1. device' \in [Channels -> Values] /\ reported' \in Values \cup {None, Unset}
        BY <1>a, <2>a, <2>6 DEF SendFails, DeviceTyped
      <3> QED
        BY <1>a, <2>6, <3>1 DEF SendFails, DeviceTyped, cached
    <2> QED
      BY <1>5, <2>1, <2>2, <2>3, <2>4, <2>5, <2>6 DEF Thread
  <1> QED
    BY <1>1, <1>2, <1>3, <1>4, <1>5 DEF Next

LEMMA StreamTypes ==
  ASSUME TypeInv, [Next]_vars
  PROVE  StreamTyped'
  <1>a. StreamTyped /\ device \in [Channels -> Values]
    BY TypeParts DEF TypeInv, TypeOK
  <1> USE Constants
  <1>s. ASSUME NEW c \in Channels, NEW v \in Values, Submit(c, v) PROVE StreamTyped'
    BY <1>a, <1>s DEF Submit, StreamTyped
  <1>1. CASE UNCHANGED streams
    BY <1>a, <1>1 DEF StreamTyped, streams
  <1>2. CASE SubmitConfigured
    BY <1>2, <1>s DEF SubmitConfigured
  <1>3. CASE \E c \in Streams, v \in Values : Command(c, v)
    BY <1>3, <1>s DEF Command, Streams
  <1>4. ASSUME NEW c \in Channels, Take(c) PROVE StreamTyped'
    BY <1>a, <1>4 DEF Take, StreamTyped
  <1>5. ASSUME NEW c \in Channels, SendFails(c) PROVE StreamTyped'
    <2>1. Written(c) \in [Channels -> Values]
      BY WholeTyped
    <2>2. device'[c] \in Values
      BY <1>5, <1>a, <2>1 DEF SendFails
    <2> QED
      BY <1>1, <1>5, <1>s, <2>2 DEF SendFails
  <1>6. ASSUME NEW c \in Channels, Thread(c), ~Take(c) PROVE UNCHANGED streams
    BY <1>6 DEF Thread, Check, Read, SetSurface, ComputeVoltages, StoreVoltages, LoadVoltages,
                Look, Send, Report, SendUnconnected, Retry, TryAgain
  <1>7. CASE DoStep \/ EndProgram \/ LeaveMain \/ BeginClose \/ StepFails
    BY <1>1, <1>7 DEF DoStep, EndProgram, LeaveMain, BeginClose, StepFails
  <1>8. CASE ShutDown \/ Ended \/ UNCHANGED vars
    BY <1>1, <1>8 DEF ShutDown, Ended, vars
  <1> QED
    BY <1>1, <1>2, <1>3, <1>4, <1>5, <1>6, <1>7, <1>8 DEF Next

\* The rest of a program, and what is done next.
LEMMA NextStep ==
  ASSUME TypeInv, todo # <<>>
  PROVE  /\ Head(todo) \in ToSet(todo) /\ Tail(todo) \in Seq(Todos)
         /\ \A s : s \in ToSet(todo) <=> s = Head(todo) \/ s \in ToSet(Tail(todo))
  <1>1. todo \in Seq(Todos)
    BY TypeParts DEF MainTyped
  <1> QED
    BY <1>1, TailOf, TailSet

\* Which steps are still to do, and where.
LEMMA ProgramSteps ==
  ASSUME TypeInv, ProgramInv
  PROVE  /\ todo # <<>> => main \in {"opening", "starting", "ending", "closing"}
         /\ main = "opening" => ToSet(todo) \subseteq {"connect", "zero", "submit", "start", "set"}
         /\ main = "starting" => ToSet(todo) \subseteq {"start"}
         /\ main = "ending" => ToSet(todo) \subseteq {"join"}
         /\ main = "closing" => ToSet(todo) \subseteq {"join", "zero", "disconnect"}
  <1>1. kind \in AllKinds
    BY Constants DEF TypeInv, TypeOK
  <1>2. ToSet(Opening[kind]) \subseteq {"connect", "zero", "submit", "start", "set"}
    BY <1>1, Openings
  <1>3. ToSet(Running[kind].first) \subseteq {"start"} /\ ToSet(Running[kind].last) \subseteq {"join"}
    BY <1>1, Mains
  <1>4. ToSet(Closing[kind]) \subseteq {"join", "zero", "disconnect"}
    BY <1>1, Closings
  <1> QED
    BY <1>2, <1>3, <1>4 DEF ProgramInv

\* A program that starts the threads finds none of them, and is the one of open or main.
LEMMA StartSilent ==
  ASSUME TypeInv, ProgramInv, StartInv, todo # <<>>, Head(todo) = "start"
  PROVE  Silent /\ main \in {"opening", "starting"}
  <1>1. "start" \in ToSet(todo) /\ kind \in AllKinds
    BY NextStep, Constants DEF TypeInv, TypeOK
  <1>2. main \in {"opening", "starting"}
    BY <1>1, ProgramSteps
  <1> QED
    BY <1>1, <1>2 DEF StartInv

LEMMA ThreadTypes ==
  ASSUME TypeInv, ProgramInv, StartInv, [Next]_vars
  PROVE  ThreadTyped'
  <1>a. ThreadTyped /\ StreamTyped /\ DeviceTyped
    BY TypeParts
  <1> USE Constants
  <1>1. CASE UNCHANGED <<thread, got, unread>>
    BY <1>a, <1>1 DEF ThreadTyped
  <1>2. CASE DoStep
    <2>1. thread' \in [Channels -> States] /\ UNCHANGED <<got, unread>>
      BY <1>a, <1>2 DEF DoStep, Operating, ThreadTyped, States
    <2>2. ASSUME NEW c \in Channels, unread[c] # {} PROVE thread'[c] \in {"read", "dead"}
      <3>1. thread[c] \in {"read", "dead"}
        BY <1>a, <2>2 DEF ThreadTyped
      <3>2. Head(todo) # "start"
        BY <1>2, <3>1, StartSilent DEF Silent, DoStep
      <3> QED
        BY <1>2, <3>1, <3>2 DEF DoStep, Operating
    <2> QED
      BY <1>a, <2>1, <2>2 DEF ThreadTyped
  <1>3. ASSUME NEW c \in Channels, Thread(c) \/ SendFails(c) PROVE ThreadTyped'
    <2>a. thread' \in [Channels -> States] /\ \A d \in Channels \ {c} : thread'[d] = thread[d]
      BY <1>3, OneThread
    <2>b. ASSUME got' \in [Channels -> [Channels -> Values]], UNCHANGED unread,
                 thread[c] \notin {"read", "dead"}
          PROVE  ThreadTyped'
      BY <1>a, <2>a, <2>b DEF ThreadTyped
    <2> USE DEF Goes, Holds
    <2>1. CASE Check(c) \/ TryAgain(c) \/ Report(c) \/ Look(c) \/ Retry(c) \/ SendFails(c)
      BY <1>a, <2>b, <2>1 DEF Check, TryAgain, Report, Look, Retry, SendFails, ThreadTyped
    <2>2. CASE SendUnconnected(c) \/ SetSurface(c) \/ StoreVoltages(c)
      BY <1>a, <2>b, <2>2 DEF SendUnconnected, SetSurface, StoreVoltages, ThreadTyped
    <2>3. CASE ComputeVoltages(c)
      BY <1>a, <2>b, <2>3 DEF ComputeVoltages, ThreadTyped, DeviceTyped
    <2>4. CASE LoadVoltages(c)
      BY <1>a, <2>b, <2>4 DEF LoadVoltages, ThreadTyped, DeviceTyped
    <2>5. CASE Send(c)
      BY <1>a, <2>b, <2>5 DEF Send, ThreadTyped
    <2>6. CASE Take(c)
      <3>1. /\ fresh[c] /\ thread[c] = "get" /\ thread'[c] = Monitor[kind].first
            /\ got' = [got EXCEPT ![c] = [Off EXCEPT ![c] = latest[c]]]
            /\ unread' = [unread EXCEPT ![c] = IF CoAdds THEN Channels
                                               ELSE IF Combines THEN Channels \ {c} ELSE {}]
        BY <1>a, <2>6 DEF Take, ThreadTyped
      <3>2. latest[c] \in Values
        BY <1>a, <3>1 DEF StreamTyped
      <3>3. [Off EXCEPT ![c] = latest[c]] \in [Channels -> Values]
        BY <3>2
      <3>4. got' \in [Channels -> [Channels -> Values]]
        BY <1>a, <3>1, <3>3 DEF ThreadTyped
      <3>5. unread'[c] # {} => thread'[c] = "read"
        BY <1>a, <3>1 DEF CoAdds, Combines, ThreadTyped
      <3> QED
        BY <1>a, <2>a, <3>1, <3>4, <3>5 DEF ThreadTyped
    <2>7. CASE Read(c)
      <3>1. PICK d \in unread[c] :
              /\ thread[c] = "read"
              /\ IF latest[d] = None
                 THEN thread'[c] = "dead" /\ UNCHANGED <<got, unread>>
                 ELSE /\ got' = [got EXCEPT ![c] = [got[c] EXCEPT ![d] = latest[d]]]
                      /\ unread' = [unread EXCEPT ![c] = @ \ {d}]
                      /\ unread'[c] # {} => thread'[c] = "read"
        BY <1>a, <2>7 DEF Read, ThreadTyped
      <3>2. CASE latest[d] = None
        BY <1>a, <2>a, <3>1, <3>2 DEF ThreadTyped
      <3>3. CASE latest[d] # None
        <4>1. d \in Channels /\ latest[d] \in Values
          BY <1>a, <3>3 DEF ThreadTyped, StreamTyped
        <4>2. [got[c] EXCEPT ![d] = latest[d]] \in [Channels -> Values]
          BY <1>a, <4>1 DEF ThreadTyped
        <4>3. got' \in [Channels -> [Channels -> Values]]
          BY <1>a, <3>1, <3>3, <4>2 DEF ThreadTyped
        <4>4. unread' \in [Channels -> SUBSET Channels]
              /\ \A e \in Channels \ {c} : unread'[e] = unread[e]
          BY <1>a, <3>1, <3>3 DEF ThreadTyped
        <4> QED
          BY <1>a, <2>a, <3>1, <3>3, <4>3, <4>4 DEF ThreadTyped
      <3> QED
        BY <3>2, <3>3
    <2> QED
      BY <1>3, <2>1, <2>2, <2>3, <2>4, <2>5, <2>6, <2>7 DEF Thread
  <1>4. CASE SubmitConfigured \/ EndProgram \/ LeaveMain \/ BeginClose \/ StepFails
    BY <1>1, <1>4 DEF SubmitConfigured, EndProgram, LeaveMain, BeginClose, StepFails
  <1>5. CASE ShutDown \/ Ended \/ UNCHANGED vars
    BY <1>1, <1>5 DEF ShutDown, Ended, vars
  <1>6. CASE \E c \in Streams, v \in Values : Command(c, v)
    BY <1>1, <1>6 DEF Command
  <1> QED
    BY <1>2, <1>3, <1>4, <1>5, <1>6 DEF Next

LEMMA BoundTypes ==
  ASSUME TypeInv, [Next]_vars
  PROVE  BoundTyped'
  <1>a. BoundTyped /\ kind \in AllKinds /\ kind' = kind /\ MaxCommands[kind] \in Nat
        /\ MaxFailures \in Nat
    <2>1. kind' = kind
      BY OneThread
      DEF Next, DoStep, SubmitConfigured, EndProgram, LeaveMain, BeginClose, StepFails, ShutDown,
          Ended, Command, vars
    <2> QED
      BY <2>1, TypeParts, Constants DEF MainTyped
  <1>1. commands' \in 0 .. MaxCommands[kind]
    <2>1. CASE \E c \in Streams, v \in Values : Command(c, v)
      BY <1>a, <2>1 DEF Command, BoundTyped
    <2>2. CASE UNCHANGED commands
      BY <1>a, <2>2 DEF BoundTyped
    <2> QED
      BY <2>1, <2>2, OneThread
      DEF Next, DoStep, SubmitConfigured, EndProgram, LeaveMain, BeginClose, StepFails, ShutDown,
          Ended, vars
  <1>2. failures' \in 0 .. MaxFailures
    <2>1. CASE Failing
      BY <1>a, <2>1 DEF Failing, BoundTyped
    <2>2. CASE UNCHANGED failures
      BY <1>a, <2>2 DEF BoundTyped
    <2> QED
      BY <2>1, <2>2
      DEF Next, DoStep, SubmitConfigured, EndProgram, LeaveMain, BeginClose, StepFails, ShutDown,
          Ended, vars, Command, Thread, SendFails, Check, Take, Read, SetSurface,
          ComputeVoltages, StoreVoltages, LoadVoltages, Look, Send, Report, SendUnconnected,
          Retry, TryAgain
  <1>3. overlapped' \in BOOLEAN /\ lost' \subseteq Channels
    <2>1. CASE UNCHANGED <<overlapped, lost>>
      BY <1>a, <2>1 DEF BoundTyped
    <2>2. ASSUME NEW c \in Channels, Take(c)
          PROVE  overlapped' \in BOOLEAN /\ lost' \subseteq Channels
      BY <1>a, <2>2 DEF Take, BoundTyped
    <2>3. ASSUME NEW c \in Channels, Send(c) \/ SendFails(c)
          PROVE  overlapped' \in BOOLEAN /\ lost' \subseteq Channels
      BY <1>a, <2>3 DEF Send, SendFails, BoundTyped
    <2>4. ASSUME NEW c \in Channels, Thread(c), ~Take(c), ~Send(c) PROVE UNCHANGED <<overlapped, lost>>
      BY <2>4
      DEF Thread, Check, Read, SetSurface, ComputeVoltages, StoreVoltages, LoadVoltages, Look,
          Report, SendUnconnected, Retry, TryAgain, history
    <2> QED
      BY <2>1, <2>2, <2>3, <2>4
      DEF Next, DoStep, SubmitConfigured, EndProgram, LeaveMain, BeginClose, StepFails, ShutDown,
          Ended, vars, Command, history
  <1> QED
    BY <1>a, <1>1, <1>2, <1>3 DEF BoundTyped

LEMMA TypeStep ==
  ASSUME TypeInv, ProgramInv, StartInv, [Next]_vars
  PROVE  TypeInv'
  <1>1. MainTyped' /\ DeviceTyped' /\ StreamTyped' /\ ThreadTyped' /\ BoundTyped'
    BY MainTypes, DeviceTypes, StreamTypes, ThreadTypes, BoundTypes
  <1>2. got' \in [Channels -> [Channels -> Values \cup {None}]]
    BY <1>1 DEF ThreadTyped
  <1> QED
    BY <1>1, <1>2
    DEF TypeInv, TypeOK, MainTyped, DeviceTyped, StreamTyped, ThreadTyped, BoundTyped, Todos

-----------------------------------------------------------------------------
(* The main thread's programs, and the start of the threads.               *)

\* What the threads and the clients do leaves the program of the main thread alone.
Elsewhere ==
  \/ ShutDown \/ Ended \/ UNCHANGED vars
  \/ \E c \in Channels : Thread(c) \/ SendFails(c)
  \/ \E c \in Streams, v \in Values : Command(c, v)

LEMMA Threads ==
  ASSUME TypeInv, Elsewhere
  PROVE  /\ UNCHANGED <<kind, main, todo, failed, connected>>
         /\ stopping => stopping'
         /\ \A c \in Channels : Gone(c) => Gone(c)' /\ (thread[c] = "none" <=> thread'[c] = "none")
         /\ \A c \in Channels : thread[c] = "none" => thread'[c] = "none"
         /\ AllGone => AllGone' /\ UNCHANGED device
         /\ Silent => Silent'
  <1>1. CASE ShutDown \/ Ended \/ UNCHANGED vars
    BY <1>1 DEF ShutDown, Ended, vars, program, Gone, Silent, AllGone
  <1>2. ASSUME NEW c \in Channels, Thread(c) \/ SendFails(c)
        PROVE  /\ UNCHANGED <<kind, program, commands>>
               /\ ~Gone(c) /\ thread'[c] # "none"
               /\ \A d \in Channels \ {c} : thread'[d] = thread[d]
    BY <1>2, OneThread
  <1>3. CASE \E c \in Channels : Thread(c) \/ SendFails(c)
    BY <1>2, <1>3 DEF program, Gone, Silent, AllGone
  <1>4. CASE \E c \in Streams, v \in Values : Command(c, v)
    BY <1>4 DEF Command, program, Gone, Silent, AllGone
  <1> QED
    BY <1>1, <1>3, <1>4 DEF Elsewhere

\* The steps of the main thread, but for those that start the threads, leave them alone.
LEMMA MainThreads ==
  ASSUME TypeInv, \/ (DoStep /\ Head(todo) # "start")
                  \/ SubmitConfigured \/ EndProgram \/ LeaveMain \/ BeginClose \/ StepFails
  PROVE  thread' = thread /\ (Silent => Silent') /\ (AllGone => AllGone')
  <1>1. thread' = thread
    BY DEF DoStep, Operating, TypeInv, TypeOK, SubmitConfigured, EndProgram, LeaveMain,
           BeginClose, StepFails
  <1> QED
    BY <1>1 DEF Silent, AllGone, Gone

\* Nothing is left of an empty program.
LEMMA Done == todo = <<>> => ToSet(todo) = {} /\ IsInjective(todo)
                             /\ \A A, B : Before(A, B, todo)
  BY NoSteps

LEMMA ProgramInit == Init => ProgramInv /\ StartInv
  <1> SUFFICES ASSUME Init PROVE ProgramInv /\ StartInv
    OBVIOUS
  <1>1. kind \in AllKinds /\ main = "opening" /\ todo = Opening[kind] /\ failed = "no"
    BY Constants DEF Init
  <1>2. WellOpened(Opening[kind])
    BY <1>1, Openings
  <1>3. Silent
    BY DEF Init, Silent
  <1> QED
    BY <1>1, <1>2, <1>3 DEF ProgramInv, StartInv, WellOpened, Silent

LEMMA ProgramStep ==
  ASSUME TypeInv, ProgramInv, [Next]_vars
  PROVE  ProgramInv'
  <1>a. kind \in AllKinds
    BY Constants DEF TypeInv, TypeOK
  <1>1. CASE Elsewhere
    BY <1>1, Threads DEF ProgramInv, Lasers
  <1>2. CASE DoStep \/ (SubmitConfigured /\ todo' = Tail(todo))
    <2>1. UNCHANGED <<kind, main, failed>> /\ todo # <<>> /\ todo' = Tail(todo)
      BY <1>2 DEF DoStep, SubmitConfigured
    <2>2. todo \in Seq(Todos)
      BY TypeParts DEF MainTyped
    <2>3. ToSet(todo') \subseteq ToSet(todo)
      BY <2>1, NextStep
    <2>4. \A A, B : Before(A, B, todo) => Before(A, B, todo')
      BY <2>1, <2>2, TailBefore
    <2>5. IsInjective(todo) => IsInjective(todo')
      BY <2>1, <2>2, TailOnce
    <2> QED
      BY <2>1, <2>3, <2>4, <2>5 DEF ProgramInv, Lasers
  <1>3. CASE SubmitConfigured /\ todo' = todo
    BY <1>3 DEF SubmitConfigured, ProgramInv, Lasers
  <1>4. CASE EndProgram
    <2>1. CASE main = "opening"
      BY <1>a, <1>4, <2>1, Mains DEF EndProgram, AfterProgram, ProgramInv
    <2>2. CASE main # "opening"
      BY <1>4, <2>2, NoSteps DEF EndProgram, AfterProgram, ProgramInv
    <2> QED
      BY <2>1, <2>2
  <1>5. CASE LeaveMain
    BY <1>a, <1>5 DEF LeaveMain, ProgramInv, Failing
  <1>6. CASE BeginClose
    BY <1>a, <1>6, Closings DEF BeginClose, ProgramInv, Lasers
  <1>7. CASE StepFails
    <2>1. CASE kind = "xps"
      <3>1. UNCHANGED <<kind, main, failed>> /\ todo # <<>> /\ todo' = Tail(todo)
        BY <1>7, <2>1 DEF StepFails
      <3>2. todo \in Seq(Todos)
        BY TypeParts DEF MainTyped
      <3>3. ToSet(todo') \subseteq ToSet(todo)
        BY <3>1, NextStep
      <3>4. \A A, B : Before(A, B, todo) => Before(A, B, todo')
        BY <3>1, <3>2, TailBefore
      <3>5. IsInjective(todo) => IsInjective(todo')
        BY <3>1, <3>2, TailOnce
      <3> QED
        BY <3>1, <3>3, <3>4, <3>5 DEF ProgramInv, Lasers
    <2>2. CASE main = "closing" /\ kind \in {"bmc_dm", "bmc_hardware"}
      <3>1. todo' = <<"disconnect">> /\ main' = "closing" /\ kind' = kind /\ failed' = "close"
        BY <1>7, <2>2 DEF StepFails
      <3>2. ToSet(todo') = {"disconnect"} /\ Before({"join"}, {"disconnect"}, todo')
            /\ Before({"join"}, Closers, todo')
        BY <3>1, OneStep DEF Closers
      <3> QED
        BY <1>a, <2>2, <3>1, <3>2, Closings DEF ProgramInv
    <2>3. CASE kind # "xps" /\ ~(main = "closing" /\ kind \in {"bmc_dm", "bmc_hardware"})
      BY <1>7, <2>3 DEF StepFails, ProgramInv
    <2> QED
      BY <2>1, <2>2, <2>3
  <1> QED
    BY <1>1, <1>2, <1>3, <1>4, <1>5, <1>6, <1>7 DEF Next, Elsewhere, SubmitConfigured

LEMMA StartStep ==
  ASSUME TypeInv, ProgramInv, StartInv, [Next]_vars
  PROVE  StartInv'
  <1>a. kind \in AllKinds
    BY Constants DEF TypeInv, TypeOK
  <1>b. kind' = kind /\ (InMain' <=> InMain)
    BY Threads
    DEF Next, Elsewhere, DoStep, SubmitConfigured, EndProgram, LeaveMain, BeginClose, StepFails,
        InMain
  <1>1. CASE Elsewhere
    BY <1>b, <1>1, Threads DEF StartInv
  <1>2. CASE DoStep /\ Head(todo) = "start"
    <2>1. UNCHANGED main /\ todo' = Tail(todo) /\ todo # <<>> /\ Silent
          /\ main \in {"opening", "starting"}
      BY <1>2, StartSilent DEF DoStep
    <2>2. todo \in Seq(Todos)
      BY TypeParts DEF MainTyped
    <2>3. "start" \notin ToSet(todo')
      BY <1>2, <2>1, <2>2, TailOnce DEF ProgramInv
    <2>4. main = "opening" => Setup \cap ToSet(todo) = {} /\ ToSet(todo') \subseteq ToSet(todo)
      BY <1>2, <2>1, <2>2, TailBefore, NextStep DEF ProgramInv
    <2>5. main = "opening" => "start" \notin ToSet(Running[kind].first)
      BY <1>a, <1>2, <2>1, NextStep, Openings, Mains DEF ProgramInv
    <2>6. InMain => \A c \in Channels \ {Source} : thread'[c] = "none"
      BY <1>2, <2>1 DEF DoStep, Operating, Streams, Silent
    <2> QED
      BY <1>b, <2>1, <2>3, <2>4, <2>5, <2>6 DEF StartInv
  <1>3. CASE \/ (DoStep /\ Head(todo) # "start")
             \/ SubmitConfigured \/ StepFails
    <2>1. thread' = thread /\ (Silent => Silent')
      BY <1>3, MainThreads
    <2>2. \/ main' = main /\ ToSet(todo') \subseteq ToSet(todo)
          \/ main' \in {"closing", "closed"}
      BY <1>3, NextStep DEF DoStep, SubmitConfigured, StepFails
    <2> QED
      BY <1>b, <2>1, <2>2 DEF StartInv
  <1>4. CASE EndProgram
    <2>1. thread' = thread /\ (Silent => Silent')
      BY <1>4, MainThreads
    <2>2. main' # "opening" /\ (main' = "starting" => main = "opening"
                                                  /\ todo' = Running[kind].first)
      BY <1>4 DEF EndProgram, AfterProgram
    <2> QED
      BY <1>b, <2>1, <2>2 DEF StartInv
  <1>5. CASE LeaveMain \/ BeginClose
    <2>1. thread' = thread /\ main' \notin {"opening", "starting"}
      BY <1>5, MainThreads DEF LeaveMain, BeginClose
    <2> QED
      BY <1>b, <2>1 DEF StartInv
  <1> QED
    BY <1>1, <1>2, <1>3, <1>4, <1>5 DEF Next, Elsewhere

-----------------------------------------------------------------------------
(* The device is connected, and off, when it must be.                      *)

LEMMA JoinStep ==
  ASSUME TypeInv, ProgramInv, StartInv, JoinInv, [Next]_vars
  PROVE  JoinInv'
  <1>a. kind \in AllKinds
    BY Constants DEF TypeInv, TypeOK
  <1>b. kind' = kind /\ (EndsInMain' <=> EndsInMain)
    BY Threads
    DEF Next, Elsewhere, DoStep, SubmitConfigured, EndProgram, LeaveMain, BeginClose, StepFails,
        InMain, EndsInMain
  <1>1. CASE Elsewhere
    BY <1>b, <1>1, Threads DEF JoinInv, Lasers
  <1>2. CASE DoStep /\ Head(todo) = "start"
    <2>1. main' \in {"opening", "starting"}
      BY <1>2, StartSilent DEF DoStep
    <2> QED
      BY <2>1 DEF JoinInv
  <1>3. CASE DoStep /\ Head(todo) # "start"
    <2>1. UNCHANGED <<main, failed>> /\ todo # <<>> /\ (Head(todo) = "join" => AllGone)
      BY <1>3 DEF DoStep, AllGone
    <2>2. AllGone => AllGone'
      BY <1>3, MainThreads
    <2>3. \A s : s \in ToSet(todo) <=> s = Head(todo) \/ s \in ToSet(todo')
      BY <1>3, NextStep DEF DoStep
    <2> QED
      BY <1>b, <2>1, <2>2, <2>3 DEF JoinInv, Lasers
  <1>4. CASE SubmitConfigured
    <2>1. UNCHANGED main /\ todo # <<>> /\ "submit" \in ToSet(todo)
      BY <1>4, NextStep DEF SubmitConfigured
    <2>2. main = "opening"
      BY <2>1, ProgramSteps
    <2> QED
      BY <2>1, <2>2 DEF JoinInv
  <1>5. CASE EndProgram
    <2>1. ToSet(todo) = {} /\ main' \in {"starting", "running", "ended", "closed"}
          /\ (main' = "ended" => main = "ending") /\ (AllGone => AllGone')
      BY <1>5, NoSteps, MainThreads DEF EndProgram, AfterProgram
    <2> QED
      BY <1>b, <2>1 DEF JoinInv
  <1>6. CASE LeaveMain
    <2>1. main' = "ending" /\ todo' = Running[kind].last /\ (AllGone => AllGone')
      BY <1>6, MainThreads DEF LeaveMain
    <2>2. InMain => AllGone
      <3>1. ASSUME InMain PROVE Gone(Source)
        BY <1>6, <3>1 DEF LeaveMain, InMain
      <3> QED
        BY <3>1 DEF StartInv, AllGone, Gone
    <2>3. kind \in {"bmc_dm", "bmc_dm_sim"} => "join" \in ToSet(todo')
      BY <1>a, <2>1, Mains
    <2> QED
      BY <1>b, <2>1, <2>2, <2>3 DEF JoinInv, EndsInMain
  <1>7. CASE BeginClose
    <2>1. main = "ended" /\ main' = "closing" /\ todo' = Closing[kind] /\ (AllGone => AllGone')
      BY <1>7, MainThreads DEF BeginClose
    <2>2. EndsInMain \/ "join" \in ToSet(todo')
      BY <1>a, <2>1, Closings DEF EndsInMain, InMain
    <2> QED
      BY <1>b, <2>1, <2>2 DEF JoinInv
  <1>8. CASE StepFails
    <2>1. AllGone => AllGone'
      BY <1>8, MainThreads
    <2>2. CASE kind = "xps"
      <3>1. UNCHANGED <<main, failed>> /\ todo # <<>> /\ Head(todo) # "join"
        BY <1>8, <2>2 DEF StepFails
      <3>2. \A s : s \in ToSet(todo) <=> s = Head(todo) \/ s \in ToSet(todo')
        BY <1>8, <2>2, NextStep DEF StepFails
      <3> QED
        BY <1>b, <2>1, <3>1, <3>2 DEF JoinInv, Lasers
    <2>3. CASE kind # "xps"
      <3>1. main' = "closed" \/ (main' = "closing" /\ main = "closing" /\ failed' = "close")
        BY <1>8, <2>3 DEF StepFails
      <3> QED
        BY <1>b, <2>1, <3>1 DEF JoinInv
    <2> QED
      BY <2>2, <2>3
  <1> QED
    BY <1>1, <1>2, <1>3, <1>4, <1>5, <1>6, <1>7, <1>8 DEF Next, Elsewhere

LEMMA ConnectedInit == Init => JoinInv /\ (kind # "xps" => ConnectedInv) /\ OffInv
  BY DEF Init, JoinInv, ConnectedInv, OffInv, HasDevice, Silent, EndsInMain

LEMMA ConnectedStep ==
  ASSUME TypeInv, ProgramInv, StartInv, JoinInv, ConnectedInv, kind # "xps", [Next]_vars
  PROVE  ConnectedInv'
  <1>a. kind \in AllKinds
    BY Constants DEF TypeInv, TypeOK
  <1>1. CASE Elsewhere
    BY <1>1, Threads DEF ConnectedInv
  <1>2. CASE DoStep /\ Head(todo) = "start"
    <2>1. UNCHANGED main /\ main \in {"opening", "starting"} /\ connected' = connected
      BY <1>2, StartSilent DEF DoStep, Operating, TypeInv, TypeOK
    <2>2. main = "opening" => "connect" \notin ToSet(todo)
      <3>1. todo \in Seq(Todos) /\ todo # <<>>
        BY <1>2, TypeParts DEF MainTyped, DoStep
      <3>2. main = "opening" => Setup \cap ToSet(todo) = {}
        BY <1>2, <3>1, TailBefore DEF ProgramInv
      <3> QED
        BY <3>2 DEF Setup
    <2> QED
      BY <2>1, <2>2 DEF ConnectedInv
  <1>3. CASE DoStep /\ Head(todo) # "start"
    <2>1. /\ UNCHANGED <<main, failed>> /\ todo # <<>> /\ (Head(todo) = "join" => AllGone)
          /\ Head(todo) = "connect" => connected'
          /\ Head(todo) # "disconnect" => (connected => connected')
      BY <1>3 DEF DoStep, AllGone, Operating
    <2>2. (AllGone => AllGone') /\ (Silent => Silent')
      BY <1>3, MainThreads
    <2>3. \A s : s \in ToSet(todo) <=> s = Head(todo) \/ s \in ToSet(todo')
      BY <1>3, NextStep DEF DoStep
    <2>4. ASSUME Head(todo) = "disconnect" PROVE main = "closing" /\ (failed # "close" => AllGone)
      <3>1. main = "closing"
        <4>1. "disconnect" \in ToSet(todo)
          BY <2>3, <2>4
        <4> QED
          BY <2>1, <4>1, ProgramSteps
      <3>2. todo \in Seq(Todos)
        BY TypeParts DEF MainTyped
      <3>3. {"join"} \cap ToSet(todo) = {}
        BY <2>1, <2>4, <3>1, <3>2, TailBefore DEF ProgramInv
      <3>4. "disconnect" \in ToSet(todo)
        BY <2>3, <2>4
      <3> QED
        BY <3>1, <3>3, <3>4 DEF JoinInv
    <2> QED
      BY <2>1, <2>2, <2>3, <2>4 DEF ConnectedInv
  <1>4. CASE SubmitConfigured
    <2>1. UNCHANGED <<main, failed, connected>> /\ todo # <<>> /\ Head(todo) = "submit"
          /\ (todo' = todo \/ todo' = Tail(todo))
      BY <1>4 DEF SubmitConfigured
    <2>2. "connect" \in ToSet(todo) => "connect" \in ToSet(todo')
      BY <2>1, NextStep
    <2>3. (AllGone => AllGone') /\ (Silent => Silent')
      BY <1>4, MainThreads
    <2> QED
      BY <2>1, <2>2, <2>3 DEF ConnectedInv
  <1>5. CASE EndProgram
    <2>1. /\ ToSet(todo) = {} /\ UNCHANGED <<failed, connected>> /\ (AllGone => AllGone')
          /\ main' \in {"starting", "running", "ended", "closed"}
          /\ main' = "closed" => main = "closing"
          /\ main # "closed" /\ (main = "closing" => main' = "closed")
      BY <1>5, NoSteps, MainThreads DEF EndProgram, AfterProgram
    <2> QED
      BY <2>1 DEF ConnectedInv
  <1>6. CASE LeaveMain \/ BeginClose
    <2>1. main \in {"running", "ended"} /\ main' \in {"ending", "closing"} /\ connected' = connected
      BY <1>6 DEF LeaveMain, BeginClose
    <2> QED
      BY <2>1 DEF ConnectedInv
  <1>7. CASE StepFails
    <2>1. /\ UNCHANGED connected /\ main \in {"opening", "closing"} /\ main' \in {"closing", "closed"}
          /\ failed' = (IF main = "opening" THEN "open" ELSE "close")
          /\ todo # <<>> /\ Head(todo) \in Setup
      BY <1>7 DEF StepFails, Setup
    <2>2. main = "opening" => AllGone'
      <3>1. main = "opening" => Silent
        BY <2>1, NextStep DEF StartInv
      <3> QED
        BY <1>7, <3>1, MainThreads DEF Silent, AllGone, Gone
    <2> QED
      BY <2>1, <2>2 DEF ConnectedInv
  <1> QED
    BY <1>1, <1>2, <1>3, <1>4, <1>5, <1>6, <1>7 DEF Next, Elsewhere

LEMMA OffStep ==
  ASSUME TypeInv, ProgramInv, StartInv, JoinInv, OffInv, [Next]_vars
  PROVE  OffInv'
  <1>a. kind \in AllKinds /\ kind' = kind
    BY Threads, Constants
    DEF TypeInv, TypeOK, Next, Elsewhere, DoStep, SubmitConfigured, EndProgram, LeaveMain,
        BeginClose, StepFails
  <1>b. Closing' = Closing /\ (kind' \notin Lasers' <=> kind \notin Lasers)
    BY <1>a DEF Lasers
  <1>p. ASSUME kind = "plp_sim" PROVE device' = Off
    <2>1. device = Off
      BY <1>p DEF OffInv
    <2>2. ASSUME NEW c \in Channels, Thread(c) \/ SendFails(c) PROVE UNCHANGED device
      <3>1. Monitor[kind].first = "send"
        BY <1>p DEF Monitor, PlpSimMonitor
      <3>2. Written(c) = device
        BY <1>p DEF Written
      <3> QED
        BY <2>2, <3>2
        DEF Thread, SendFails, Check, Take, Read, SetSurface, ComputeVoltages, StoreVoltages,
            LoadVoltages, Look, Send, Report, SendUnconnected, Retry, TryAgain
    <2>3. CASE DoStep
      <3>1. Head(todo) # "set"
        <4>1. Head(todo) \in ToSet(todo)
          BY <2>3, NextStep DEF DoStep
        <4>2. "set" \notin ToSet(Opening[kind])
          BY <1>a, <1>p, Openings
        <4> QED
          BY <2>3, <4>1, <4>2, ProgramSteps DEF ProgramInv, DoStep
      <3> QED
        BY <1>p, <2>1, <2>3, <3>1 DEF DoStep, Operating
    <2> QED
      BY <2>1, <2>2, <2>3
      DEF Next, SubmitConfigured, EndProgram, LeaveMain, BeginClose, StepFails, ShutDown, Ended,
          vars, Command
  <1> SUFFICES ASSUME kind \notin Lasers, "zero" \in ToSet(Closing[kind]),
                      failed' \notin {"open", "close"}
               PROVE  /\ main' = "closing" => (device' = Off /\ AllGone') \/ "zero" \in ToSet(todo')
                      /\ main' = "closed" => device' = Off /\ AllGone'
    BY <1>a, <1>b, <1>p DEF OffInv
  <1>1. CASE Elsewhere
    BY <1>1, Threads DEF OffInv
  <1>2. CASE DoStep /\ main = "closing"
    <2>1. /\ UNCHANGED <<main, failed>> /\ todo # <<>> /\ (Head(todo) = "join" => AllGone)
      BY <1>2 DEF DoStep, AllGone
    <2>2. Head(todo) \in {"join", "zero", "disconnect"}
      BY <1>2, <2>1, NextStep, ProgramSteps
    <2>3. AllGone => AllGone'
      BY <1>2, <2>2, MainThreads
    <2>4. \A s : s \in ToSet(todo) <=> s = Head(todo) \/ s \in ToSet(todo')
      BY <1>2, NextStep DEF DoStep
    <2>5. Head(todo) = "zero" => AllGone
      <3>1. todo \in Seq(Todos)
        BY TypeParts DEF MainTyped
      <3>2. Head(todo) = "zero" => {"join"} \cap ToSet(todo) = {}
        BY <1>2, <2>1, <3>1, TailBefore DEF ProgramInv, Closers
      <3> QED
        BY <1>2, <2>1, <2>4, <3>2 DEF JoinInv
    <2>6. device' = IF Head(todo) = "zero" THEN Off ELSE device
      BY <1>2, <2>2, <1>p DEF DoStep, Operating, Zeroed, OffInv
    <2> QED
      BY <1>2, <2>1, <2>3, <2>4, <2>5, <2>6 DEF OffInv
  <1>3. CASE (DoStep \/ SubmitConfigured) /\ main # "closing"
    <2>1. UNCHANGED main /\ todo # <<>>
      BY <1>3 DEF DoStep, SubmitConfigured
    <2> QED
      BY <1>3, <2>1, ProgramSteps
  <1>4. CASE SubmitConfigured /\ main = "closing"
    BY <1>4, NextStep, ProgramSteps DEF SubmitConfigured
  <1>5. CASE EndProgram
    <2>1. ToSet(todo) = {} /\ UNCHANGED <<failed, device>> /\ (AllGone => AllGone')
          /\ main' # "closing" /\ (main' = "closed" => main = "closing")
      BY <1>5, NoSteps, MainThreads DEF EndProgram, AfterProgram
    <2> QED
      BY <2>1 DEF OffInv
  <1>6. CASE LeaveMain \/ BeginClose
    BY <1>6 DEF LeaveMain, BeginClose
  <1>7. CASE StepFails
    <2>1. kind = "xps"
      BY <1>7 DEF StepFails
    <2>2. "zero" \notin ToSet(Closing[kind])
      <3>1. Closing[kind] = <<"join", "disconnect">>
        BY <2>1 DEF Closing, XpsClose
      <3> QED
        BY <3>1, TwoSteps
    <2> QED
      BY <2>2
  <1> QED
    BY <1>1, <1>2, <1>3, <1>4, <1>5, <1>6, <1>7 DEF Next, Elsewhere

ActuatorInv ==
  /\ TypeInv /\ ProgramInv /\ StartInv /\ JoinInv /\ OffInv
  /\ kind # "xps" => ConnectedInv

LEMMA ActuatorCorrect == Spec => []ActuatorInv
  <1>1. Init => ActuatorInv
    BY TypeInit, ProgramInit, ConnectedInit DEF ActuatorInv
  <1>2. ActuatorInv /\ [Next]_vars => ActuatorInv'
    <2> SUFFICES ASSUME ActuatorInv, [Next]_vars PROVE ActuatorInv'
      OBVIOUS
    <2>1. kind' = kind
      BY Threads
      DEF ActuatorInv, Next, Elsewhere, DoStep, SubmitConfigured, EndProgram, LeaveMain,
          BeginClose, StepFails
    <2> QED
      BY <2>1, TypeStep, ProgramStep, StartStep, JoinStep, OffStep, ConnectedStep
      DEF ActuatorInv
  <1> QED
    BY <1>1, <1>2, PTL DEF Spec

\* Every variable keeps its type.
THEOREM TypeCorrect == Spec => []TypeOK
  <1>1. ActuatorInv => TypeOK
    BY DEF ActuatorInv, TypeInv
  <1> QED
    BY <1>1, ActuatorCorrect, PTL

\* No thread of a service sends to a connection that is not open yet, or not any more, with
\* any number of streams, whatever fails: close waits for the threads before it closes the
\* connection, or main has waited for them.
THEOREM Connected == Spec => []SentWhileOpen
  <1>1. ActuatorInv => SentWhileOpen
    <2> SUFFICES ASSUME ActuatorInv, NEW c \in Channels, thread[c] = "send", kind # "xps",
                        failed # "close"
                 PROVE  connected
      BY DEF SentWhileOpen
    <2>1. ~AllGone /\ ~Silent
      BY DEF AllGone, Gone, Silent
    <2> QED
      BY <2>1 DEF ActuatorInv, ConnectedInv
  <1> QED
    BY <1>1, ActuatorCorrect, PTL

\* A mirror that was closed is flat and a source is off, whatever was commanded in the last
\* moment: the last thing that the device is told is 0, after the end of the threads.
THEOREM OffAtEnd == Spec => []OffWhenClosed
  <1>1. ActuatorInv => OffWhenClosed
    BY DEF ActuatorInv, OffInv, OffWhenClosed
  <1> QED
    BY <1>1, ActuatorCorrect, PTL

-----------------------------------------------------------------------------
(* What the device is told.                                                *)

\* Services that read all their streams have a frame in each from the start.
LEMMA Submits ==
  ASSUME TypeInv, Combines
  PROVE  SubmitsInInit \/ "submit" \in ToSet(Opening[kind])
  <1>1. kind \in AllKinds
    BY Constants DEF TypeInv, TypeOK
  <1> QED
    BY <1>1, Monitors, Openings DEF Combines, SubmitsInInit

LEMMA ThreadInit == Init => ThreadInv
  <1> SUFFICES ASSUME Init PROVE ThreadInv
    OBVIOUS
  <1>1. /\ \A c \in Channels : thread[c] = "none"
        /\ main = "opening" /\ todo = Opening[kind]
        /\ \A c \in Channels : fresh[c] \/ latest[c] = None
        /\ SubmitsInInit => \A c \in Channels : latest[c] # None
    <2>1. CASE SubmitsInInit
      BY <2>1 DEF Init, None
    <2>2. CASE ~SubmitsInInit
      BY <2>2 DEF Init
    <2> QED
      BY <2>1, <2>2
  <1>2. Combines => SubmitsInInit \/ "submit" \in ToSet(todo)
    BY <1>1, TypeInit, Submits
  <1> QED
    BY <1>1, <1>2 DEF ThreadInv, Updating, Looking

\* The next frame of a stream is fresh, and no frame is taken back; only the thread of a
\* stream takes its frame.
LEMMA Frames ==
  ASSUME TypeInv, [Next]_vars
  PROVE  /\ kind' = kind
         /\ \A c \in Channels :
              \/ latest'[c] = latest[c] /\ (fresh'[c] <=> fresh[c])
              \/ fresh'[c] /\ latest'[c] # None
              \/ Take(c) /\ latest'[c] = latest[c] /\ latest[c] # None
  <1>a. latest \in [Channels -> Values \cup {None}] /\ fresh \in [Channels -> BOOLEAN]
        /\ device \in [Channels -> Values] /\ \A c \in Channels : fresh[c] => latest[c] # None
    BY DEF TypeInv, TypeOK
  <1> DEFINE Same(d)  == latest'[d] = latest[d] /\ (fresh'[d] <=> fresh[d])
             New(d)   == fresh'[d] /\ latest'[d] # None
             Taken(d) == Take(d) /\ latest'[d] = latest[d] /\ latest[d] # None
             Goal     == \A d \in Channels : Same(d) \/ New(d) \/ Taken(d)
  <1>s. ASSUME NEW c \in Channels, NEW v \in Values, Submit(c, v) PROVE Goal
    BY <1>a, <1>s, Constants DEF Submit
  <1>1. CASE UNCHANGED <<kind, streams>>
    BY <1>1 DEF streams
  <1>2. CASE SubmitConfigured
    BY <1>2, <1>s, Constants DEF SubmitConfigured
  <1>3. CASE \E c \in Streams, v \in Values : Command(c, v)
    BY <1>3, <1>s, Constants DEF Command, Streams
  <1>4. ASSUME NEW c \in Channels, Take(c) PROVE kind' = kind /\ Goal
    BY <1>a, <1>4 DEF Take, rest
  <1>5. ASSUME NEW c \in Channels, SendFails(c) PROVE kind' = kind /\ Goal
    <2>1. Written(c) \in [Channels -> Values]
      BY WholeTyped
    <2>2. device'[c] \in Values
      BY <1>5, <1>a, <2>1 DEF SendFails
    <2> QED
      BY <1>1, <1>5, <1>s, <2>2 DEF SendFails, rest
  <1>6. ASSUME NEW c \in Channels, Thread(c), ~Take(c) PROVE UNCHANGED <<kind, streams>>
    BY <1>6 DEF Thread, Check, Read, SetSurface, ComputeVoltages, StoreVoltages, LoadVoltages,
                Look, Send, Report, SendUnconnected, Retry, TryAgain, rest
  <1>7. CASE DoStep \/ EndProgram \/ LeaveMain \/ BeginClose \/ StepFails
    BY <1>1, <1>7 DEF DoStep, EndProgram, LeaveMain, BeginClose, StepFails
  <1>8. CASE ShutDown \/ Ended \/ UNCHANGED vars
    BY <1>1, <1>8 DEF ShutDown, Ended, vars
  <1> QED
    BY <1>1, <1>2, <1>3, <1>4, <1>5, <1>6, <1>7, <1>8 DEF Next

\* Where a thread goes.
LEMMA Goings ==
  ASSUME TypeInv, ThreadInv, NEW c \in Channels, Thread(c) \/ SendFails(c)
  PROVE  (~Combines => thread'[c] \notin Updating) /\ (~Looks => thread'[c] \notin Looking)
  <1>a. /\ Monitor[kind].first \in {"read", "send", "look"}
        /\ Monitor[kind].raises \in {"dead", "check", "resubmit", "retry"}
        /\ Monitor[kind].raises = "retry" => Looks
        /\ thread \in [Channels -> States]
        /\ (~Combines => thread[c] \notin Updating) /\ (~Looks => thread[c] \notin Looking)
    <2>1. kind \in AllKinds
      BY Constants DEF TypeInv, TypeOK
    <2> QED
      BY <2>1, Monitors DEF TypeInv, TypeOK, ThreadInv, Looks
  <1> USE DEF Goes, Updating, Looking, Combines, Looks
  <1>1. CASE Check(c) \/ Take(c) \/ Read(c)
    BY <1>a, <1>1 DEF Check, Take, Read
  <1>2. CASE SetSurface(c) \/ ComputeVoltages(c) \/ StoreVoltages(c) \/ LoadVoltages(c)
    BY <1>a, <1>2 DEF SetSurface, ComputeVoltages, StoreVoltages, LoadVoltages
  <1>3. CASE Look(c) \/ Send(c) \/ Report(c)
    BY <1>a, <1>3 DEF Look, Send, Report
  <1>4. CASE SendUnconnected(c) \/ TryAgain(c) \/ Retry(c) \/ SendFails(c)
    BY <1>a, <1>4 DEF SendUnconnected, TryAgain, Retry, SendFails
  <1> QED
    BY <1>1, <1>2, <1>3, <1>4 DEF Thread

LEMMA ThreadStep ==
  ASSUME TypeInv, ProgramInv, StartInv, ThreadInv, [Next]_vars
  PROVE  ThreadInv'
  <1>a. kind' = kind /\ (Combines' <=> Combines) /\ (Looks' <=> Looks)
    BY Frames DEF Combines, Looks
  <1>b. \A c \in Channels : latest[c] # None => latest'[c] # None
    BY Frames
  <1>1. \A c \in Channels : (~Combines => thread'[c] \notin Updating)
                            /\ (~Looks => thread'[c] \notin Looking)
    <2>1. ASSUME NEW c \in Channels, Thread(c) \/ SendFails(c)
          PROVE  \A d \in Channels : (~Combines => thread'[d] \notin Updating)
                                     /\ (~Looks => thread'[d] \notin Looking)
      BY <2>1, Goings, OneThread DEF ThreadInv
    <2>2. CASE thread' = thread
      BY <2>2 DEF ThreadInv
    <2>3. CASE DoStep
      BY <2>3 DEF DoStep, Operating, ThreadInv, Updating, Looking
    <2> QED
      BY <2>1, <2>2, <2>3
      DEF Next, SubmitConfigured, EndProgram, LeaveMain, BeginClose, StepFails, ShutDown, Ended,
          vars, Command
  <1>2. Silent' => \A c \in Channels : fresh'[c] \/ latest'[c] = None
    <2>1. Silent' => \A c \in Channels : ~Take(c)
      BY OneThread DEF Silent, Thread
    <2>2. Silent' => Silent
      <3>1. ASSUME NEW c \in Channels, Thread(c) \/ SendFails(c) PROVE ~Silent'
        BY <3>1, OneThread DEF Silent
      <3>2. CASE DoStep
        BY <3>2 DEF DoStep, Operating, Silent
      <3> QED
        BY <3>1, <3>2
        DEF Next, SubmitConfigured, EndProgram, LeaveMain, BeginClose, StepFails, ShutDown, Ended,
            vars, Command, Silent
    <2> QED
      BY <2>1, <2>2, Frames DEF ThreadInv
  <1>3. ASSUME Combines,
               \/ main' = "opening" /\ "submit" \notin ToSet(todo')
               \/ main' \in {"starting", "running"}
        PROVE  \A c \in Channels : latest'[c] # None
    <2>1. CASE SubmitConfigured /\ todo' # todo
      BY <2>1, Constants DEF SubmitConfigured, Submit, TypeInv, TypeOK
    <2>2. CASE ~(SubmitConfigured /\ todo' # todo)
      <3>1. \/ main = "opening" /\ "submit" \notin ToSet(todo)
            \/ main \in {"starting", "running"}
        <4>1. CASE DoStep
          BY <1>3, <4>1, NextStep DEF DoStep
        <4>2. CASE SubmitConfigured
          BY <1>3, <2>2, <4>2 DEF SubmitConfigured
        <4>3. CASE EndProgram
          <5>1. ToSet(todo) = {} /\ main \in {"opening", "starting"}
            BY <1>3, <4>3, NoSteps DEF EndProgram, AfterProgram
          <5> QED
            BY <5>1
        <4>4. CASE LeaveMain \/ BeginClose
          BY <1>3, <4>4 DEF LeaveMain, BeginClose
        <4>5. CASE StepFails
          BY <1>3, <4>5, NextStep DEF StepFails
        <4>6. CASE Elsewhere
          BY <1>3, <4>6, Threads
        <4> QED
          BY <4>1, <4>2, <4>3, <4>4, <4>5, <4>6 DEF Next, Elsewhere
      <3> QED
        BY <1>b, <1>3, <3>1 DEF ThreadInv
    <2> QED
      BY <2>1, <2>2
  <1> QED
    BY <1>a, <1>1, <1>2, <1>3 DEF ThreadInv

\* Once it is live no more, a service is not again.
LEMMA LiveBefore ==
  ASSUME TypeInv, [Next]_vars, Live'
  PROVE  Live
  <1>1. CASE Elsewhere
    BY <1>1, Threads DEF Live
  <1>2. CASE DoStep \/ SubmitConfigured \/ EndProgram \/ LeaveMain \/ BeginClose \/ StepFails
    BY <1>2 DEF DoStep, SubmitConfigured, EndProgram, AfterProgram, LeaveMain, BeginClose,
                StepFails, Live
  <1> QED
    BY <1>1, <1>2 DEF Next, Elsewhere

\* While a service is live, its main thread touches the device only before the threads
\* start.
LEMMA LiveMain ==
  ASSUME TypeInv, ProgramInv, StartInv, Live',
         DoStep \/ SubmitConfigured \/ EndProgram \/ LeaveMain \/ BeginClose \/ StepFails
  PROVE  /\ UNCHANGED <<kind, got, unread, cached, history>>
         /\ \/ UNCHANGED <<thread, device, reported>>
            \/ Silent /\ UNCHANGED thread
            \/ Silent /\ Head(todo) = "start" /\ DoStep /\ UNCHANGED <<device, reported>>
  <1>1. CASE DoStep
    <2>1. Head(todo) \in {"zero", "set"} => Silent
      <3>1. Head(todo) \in ToSet(todo) /\ main' = main /\ todo # <<>>
        BY <1>1, NextStep DEF DoStep
      <3>2. Head(todo) \in {"zero", "set"} => main = "opening"
        BY <3>1, ProgramSteps DEF Live
      <3> QED
        BY <3>1, <3>2 DEF StartInv, Setup
    <2>2. Head(todo) = "start" => Silent
      BY <1>1, StartSilent DEF DoStep
    <2>3. Head(todo) # "start" => thread' = thread
      BY <1>1, MainThreads
    <2>4. Head(todo) \notin {"zero", "set"} => UNCHANGED <<device, reported>>
      BY <1>1 DEF DoStep, Operating
    <2> QED
      BY <1>1, <2>1, <2>2, <2>3, <2>4 DEF DoStep
  <1>2. CASE SubmitConfigured \/ EndProgram \/ LeaveMain \/ BeginClose \/ StepFails
    BY <1>2 DEF SubmitConfigured, EndProgram, LeaveMain, BeginClose, StepFails, position
  <1> QED
    BY <1>1, <1>2

\* A thread that does not combine the streams touches only its channel.
LEMMA OneChannel ==
  ASSUME TypeInv, ThreadInv, ~Combines, NEW c \in Channels, Thread(c) \/ SendFails(c)
  PROVE  \A d \in Channels \ {c} :
           got'[d] = got[d] /\ device'[d] = device[d] /\ (d \in lost' <=> d \in lost)
  <1>a. thread[c] \notin {"read", "set", "compute", "store", "load"} /\ kind' = kind
    BY OneThread DEF ThreadInv, Updating
  <1>b. \A d \in Channels \ {c} : Written(c)[d] = device[d]
    BY DEF Written, Whole, TypeInv, TypeOK
  <1>c. got \in [Channels -> [Channels -> Values]]
    BY DEF TypeInv
  <1> USE DEF Goes, Holds
  <1>1. CASE Check(c) \/ Take(c) \/ Look(c)
    BY <1>1, <1>c DEF Check, Take, Look, history
  <1>2. CASE Read(c) \/ SetSurface(c) \/ ComputeVoltages(c) \/ StoreVoltages(c) \/ LoadVoltages(c)
    BY <1>a, <1>2 DEF Read, SetSurface, ComputeVoltages, StoreVoltages, LoadVoltages
  <1>3. CASE Send(c) \/ SendFails(c)
    BY <1>b, <1>c, <1>3 DEF Send, SendFails
  <1>4. CASE Report(c) \/ SendUnconnected(c) \/ Retry(c) \/ TryAgain(c)
    BY <1>4 DEF Report, SendUnconnected, Retry, TryAgain, history
  <1> QED
    BY <1>1, <1>2, <1>3, <1>4 DEF Thread

\* What a thread that does not combine the streams leaves behind.
LEMMA OwnChannel ==
  ASSUME TypeInv, ThreadInv, ReportInv, ~Combines, ~stopping, NEW c \in Streams, Right(c),
         Thread(c) \/ SendFails(c), Looks => c = Source
  PROVE  Right(c)'
  <1>a. /\ c \in Channels /\ thread \in [Channels -> States] /\ device \in [Channels -> Values]
        /\ got \in [Channels -> [Channels -> Values]] /\ got[c][c] \in Values
        /\ thread[c] \notin Updating /\ (~Looks => thread[c] \notin Looking)
        /\ kind' = kind /\ (Looks' <=> Looks) /\ stopping' = stopping
        /\ fresh \in [Channels -> BOOLEAN] /\ latest \in [Channels -> Values \cup {None}]
        /\ lost \subseteq Channels
    <2>1. c \in Channels
      BY Constants DEF Streams
    <2> QED
      BY <2>1, OneThread DEF TypeInv, TypeOK, ThreadInv, Looks, program
  <1>b. fresh'[c] => Right(c)'
    BY DEF Right, Unseen
  <1>c. \A v : Accepts(v)' <=> Accepts(v)
    BY <1>a DEF Accepts
  <1> USE DEF Goes, Holds, Right, Unseen, Updating, Looking
  <1>1. CASE Check(c)
    BY <1>a, <1>c, <1>1 DEF Check, streams, history, rest, Settled
  <1>2. CASE Take(c)
    <2>1. latest'[c] = latest[c] /\ got'[c][c] = latest[c]
      <3>1. latest' = latest /\ got' = [got EXCEPT ![c] = [Off EXCEPT ![c] = latest[c]]]
        BY <1>2 DEF Take
      <3> QED
        BY <1>a, <3>1, Constants
    <2>2. thread'[c] \in {"send", "look"}
      <3>1. kind \in AllKinds
        BY Constants DEF TypeInv, TypeOK
      <3> QED
        BY <1>a, <1>2, <3>1, Monitors DEF Take, Combines
    <2> QED
      BY <2>1, <2>2
  <1>3. CASE Look(c)
    <2>1. latest'[c] = latest[c] /\ (fresh'[c] <=> fresh[c]) /\ got' = got /\ device' = device
          /\ thread[c] = "look"
      BY <1>3 DEF Look, streams
    <2>2. fresh[c] \/ got[c][c] = latest[c]
      BY <2>1
    <2>3. thread'[c] = "send" \/ thread'[c] = "check"
      BY <1>a, <1>3 DEF Look
    <2>4. thread'[c] = "check" => reported = got[c][c] \/ ~Accepts(got[c][c])
      BY <1>a, <1>3 DEF Look
    <2>5. reported = got[c][c] => device[c] = got[c][c]
      <3>1. reported \in {None, Unset} \/ device[c] = reported
        BY <1>a, <2>1 DEF ReportInv
      <3> QED
        BY <1>a, <3>1, Constants
    <2> QED
      BY <1>b, <1>c, <2>1, <2>2, <2>3, <2>4, <2>5 DEF Settled
  <1>4. CASE Send(c)
    <2>1. latest' = latest /\ fresh' = fresh /\ device' = Written(c) /\ thread[c] = "send"
      BY <1>4 DEF Send, streams
    <2>2. thread'[c] = IF Looks THEN "report" ELSE "check"
      BY <1>a, <1>4 DEF Send, Looks
    <2>3. fresh[c] \/ got[c][c] = latest[c]
      BY <2>1
    <2>4. CASE Looks
      <3>1. got' = got
        BY <1>4, <2>4 DEF Send, Looks
      <3> QED
        BY <2>1, <2>2, <2>3, <2>4, <3>1
    <2>5. CASE ~Looks
      <3>1. kind = "plp_sim" => c \in lost'
        BY <1>4 DEF Send
      <3>2. Accepts(got[c][c]) /\ kind # "plp_sim" => device'[c] = got[c][c]
        BY <1>a, <2>1 DEF Written, Whole
      <3> QED
        BY <1>c, <2>1, <2>2, <2>3, <2>5, <3>1, <3>2 DEF Settled
    <2> QED
      BY <2>4, <2>5
  <1>5. CASE Report(c)
    <2>1. latest'[c] = latest[c] /\ (fresh'[c] <=> fresh[c]) /\ got' = got /\ device' = device
          /\ thread[c] = "report" /\ thread'[c] \in {"retry", "check"}
      BY <1>a, <1>5 DEF Report, streams
    <2>2. device[c] = got[c][c]
      BY <1>a, <2>1 DEF ReportInv
    <2> QED
      BY <1>b, <2>1, <2>2 DEF Settled
  <1>6. CASE SendFails(c)
    <2>1. fresh'[c] \/ (latest'[c] = latest[c] /\ (fresh'[c] <=> fresh[c]))
      BY <1>a, <1>6 DEF SendFails, Submit, streams
    <2>2. \/ thread'[c] = "dead" \/ thread'[c] = "retry"
          \/ thread'[c] = "check" /\ (fresh'[c] \/ c \in lost')
      <3>1. Monitor[kind].raises \in {"dead", "check", "resubmit", "retry"}
        BY Constants, Monitors DEF TypeInv, TypeOK
      <3>2. CASE Monitor[kind].raises = "resubmit"
        BY <1>a, <1>6, <3>2 DEF SendFails, Submit
      <3>3. CASE Monitor[kind].raises # "resubmit"
        BY <1>a, <1>6, <3>1, <3>3 DEF SendFails
      <3> QED
        BY <3>2, <3>3
    <2>3. got' = got /\ (fresh[c] \/ got[c][c] = latest[c])
      BY <1>6 DEF SendFails
    <2> QED
      BY <1>b, <2>1, <2>2, <2>3
  <1>7. CASE SendUnconnected(c) \/ Retry(c) \/ TryAgain(c)
    <2>1. latest'[c] = latest[c] /\ (fresh'[c] <=> fresh[c]) /\ got' = got
          /\ (fresh[c] \/ got[c][c] = latest[c])
          /\ thread'[c] \in {"dead", "again", "look"}
      BY <1>a, <1>7 DEF SendUnconnected, Retry, TryAgain, streams
    <2> QED
      BY <2>1
  <1>8. CASE Read(c) \/ SetSurface(c) \/ ComputeVoltages(c) \/ StoreVoltages(c) \/ LoadVoltages(c)
    BY <1>a, <1>8 DEF Read, SetSurface, ComputeVoltages, StoreVoltages, LoadVoltages
  <1> QED
    BY <1>1, <1>2, <1>3, <1>4, <1>5, <1>6, <1>7, <1>8 DEF Thread

\* The thread that takes a frame leaves the call that waits for one.
LEMMA TakeMoves ==
  ASSUME TypeInv, NEW c \in Channels, Take(c)
  PROVE  thread[c] = "get" /\ thread'[c] # "get" /\ thread'[c] = Monitor[kind].first
  <1>1. kind \in AllKinds /\ thread \in [Channels -> States]
    BY Constants DEF TypeInv, TypeOK
  <1>2. Monitor[kind].first # "get"
    BY <1>1, Monitors
  <1>3. thread[c] = "get" /\ thread' = [thread EXCEPT ![c] = Monitor[kind].first]
    BY DEF Take, Goes
  <1> QED
    BY <1>1, <1>2, <1>3

LEMMA StreamStep ==
  ASSUME TypeInv, ProgramInv, StartInv, ThreadInv, StreamInv, ReportInv, [Next]_vars
  PROVE  StreamInv'
  <1>a. kind' = kind /\ (Combines' <=> Combines) /\ (Looks' <=> Looks) /\ Streams' = Streams
    BY Frames DEF Combines, Looks, Streams, InMain
  <1> SUFFICES ASSUME ~Combines, Live', NEW c \in Streams PROVE Right(c)'
    BY <1>a DEF StreamInv
  <1>b. /\ Live /\ ~stopping /\ Right(c) /\ c \in Channels /\ fresh \in [Channels -> BOOLEAN]
        /\ thread \in [Channels -> States]
    BY <1>a, LiveBefore, Constants DEF StreamInv, Live, Streams, TypeInv, TypeOK
  <1>c. fresh'[c] => Right(c)'
    BY DEF Right, Unseen
  <1>d. \A v : Accepts(v)' <=> Accepts(v)
    BY <1>a DEF Accepts
  <1>e. ASSUME thread'[c] = thread[c], device'[c] = device[c], got'[c] = got[c],
               c \in lost' <=> c \in lost, ~Take(c)
        PROVE  Right(c)'
    <2>1. fresh'[c] \/ (latest'[c] = latest[c] /\ (fresh'[c] <=> fresh[c]))
      BY <1>b, <1>e, Frames
    <2> QED
      BY <1>b, <1>c, <1>d, <1>e, <2>1 DEF Right, Unseen, Settled
  <1>1. CASE Thread(c) \/ SendFails(c)
    <2>1. Looks => c = Source
      <3>1. Looks => InMain
        BY Constants, Monitors DEF TypeInv, TypeOK, Looks, InMain
      <3> QED
        BY <3>1 DEF Streams
    <2> QED
      BY <1>1, <1>b, <2>1, OwnChannel
  <1>2. ASSUME NEW d \in Channels \ {c}, Thread(d) \/ SendFails(d) PROVE Right(c)'
    <2>1. ~Take(c)
      <3>1. thread'[c] = thread[c]
        BY <1>2, <1>b, OneThread
      <3> QED
        BY <1>b, <3>1, TakeMoves
    <2> QED
      BY <1>2, <1>b, <1>e, <2>1, OneChannel, OneThread
  <1>3. CASE DoStep \/ SubmitConfigured \/ EndProgram \/ LeaveMain \/ BeginClose \/ StepFails
    <2>a. ~Take(c)
      <3>1. thread'[c] = thread[c] \/ thread[c] = "none"
        BY <1>3, LiveMain, <1>b DEF Silent
      <3> QED
        BY <1>b, <3>1, TakeMoves
    <2>1. CASE UNCHANGED <<thread, device>>
      BY <1>3, <1>e, <2>1, <2>a, LiveMain DEF history
    <2>2. CASE Silent
      <3>1. fresh[c] \/ latest[c] = None
        BY <1>b, <2>2 DEF ThreadInv
      <3>2. fresh'[c] \/ latest'[c] = None
        BY <1>b, <2>a, <3>1, Frames
      <3>3. thread'[c] \in {"none", "check"}
        BY <1>3, <1>b, <2>2, LiveMain DEF DoStep, Operating, Silent
      <3> QED
        BY <3>2, <3>3 DEF Right, Unseen, Looking
    <2> QED
      BY <1>3, <2>1, <2>2, LiveMain
  <1>4. CASE ShutDown \/ Ended \/ UNCHANGED vars \/ \E d \in Streams, v \in Values : Command(d, v)
    <2>1. UNCHANGED <<thread, device, got, lost>>
      BY <1>4 DEF ShutDown, Ended, vars, Command, history
    <2>2. ~Take(c)
      BY <1>b, <2>1, TakeMoves
    <2> QED
      BY <1>e, <2>1, <2>2
  <1> QED
    BY <1>1, <1>2, <1>3, <1>4 DEF Next

LEMMA ReportInit == Init => ReportInv
  BY Constants DEF Init, ReportInv

\* The thread that looks where the device is.
LEMMA ReportOwn ==
  ASSUME TypeInv, ThreadInv, ReportInv, Looks, Thread(Source) \/ SendFails(Source)
  PROVE  ReportInv'
  <1>a. /\ Source \in Channels /\ thread \in [Channels -> States]
        /\ device \in [Channels -> Values] /\ got \in [Channels -> [Channels -> Values]]
        /\ got[Source][Source] \in Values /\ thread[Source] \notin Updating
        /\ kind' = kind /\ (Looks' <=> Looks) /\ ~Combines
        /\ kind \in {"mff101", "fw102c"}
    <2>1. kind \in AllKinds /\ Source \in Channels
      BY Constants DEF TypeInv, TypeOK
    <2>2. ~Combines /\ kind \in {"mff101", "fw102c"}
      BY <2>1, Monitors DEF Looks, Combines
    <2> QED
      BY <2>1, <2>2, OneThread DEF TypeInv, TypeOK, ThreadInv, Looks
  <1>b. \A v : Accepts(v)' <=> Accepts(v)
    BY <1>a DEF Accepts
  <1> USE DEF Goes, Holds, ReportInv, Updating
  <1>1. CASE Check(Source) \/ Take(Source)
    <2>1. device' = device /\ reported' = reported
      BY <1>1 DEF Check, Take, position
    <2>2. thread[Source] \in {"check", "get"}
          /\ thread'[Source] \in {"check", "get", "ended", "look"}
      BY <1>1, <1>a DEF Check, Take, Looks
    <2> QED
      BY <1>a, <2>1, <2>2
  <1>2. CASE Look(Source)
    <2>1. device' = device /\ got' = got /\ thread[Source] = "look"
      BY <1>2 DEF Look
    <2>2. \/ thread'[Source] = "check"
          \/ thread'[Source] = "send" /\ Accepts(got[Source][Source])
             /\ (kind = "mff101" => reported' = None)
      BY <1>2, <1>a DEF Look
    <2>3. reported' \in {None, reported}
      BY <1>2 DEF Look
    <2> QED
      BY <1>a, <1>b, <2>1, <2>2, <2>3
  <1>3. CASE Send(Source)
    <2>1. device' = Written(Source) /\ got' = got /\ thread'[Source] = "report"
          /\ thread[Source] = "send"
      BY <1>3, <1>a DEF Send, Looks
    <2>2. Written(Source)[Source] = got[Source][Source]
      BY <1>a, <2>1 DEF Written, Whole
    <2> QED
      BY <2>1, <2>2
  <1>4. CASE Report(Source)
    <2>1. device' = device /\ got' = got /\ thread[Source] = "report"
      BY <1>4 DEF Report
    <2>2. \/ thread'[Source] = "retry" /\ reported' = Unset
          \/ thread'[Source] = "check" /\ reported' = got[Source][Source]
      BY <1>4, <1>a DEF Report
    <2> QED
      BY <1>a, <2>1, <2>2
  <1>5. CASE SendFails(Source)
    <2>1. \/ thread'[Source] = "dead"
          \/ thread'[Source] = "retry" /\ reported' = Unset
      <3>1. kind = "mff101" => Monitor[kind].raises = "dead"
        BY <1>a, Monitors DEF AllKinds, Opening
      <3>2. kind = "fw102c" => Monitor[kind].raises = "retry"
        BY DEF AllKinds, Opening, Monitor, FilterMonitor
      <3> QED
        BY <1>5, <1>a, <3>1, <3>2 DEF SendFails
    <2> QED
      BY <2>1
  <1>6. CASE SendUnconnected(Source) \/ Retry(Source) \/ TryAgain(Source)
    <2>1. device' = device /\ reported' = reported /\ got' = got
          /\ thread'[Source] \in {"dead", "again", "check", "look"}
          /\ thread[Source] \in {"send", "retry", "again"}
      BY <1>6, <1>a DEF SendUnconnected, Retry, TryAgain, position
    <2> QED
      BY <1>a, <2>1
  <1>7. CASE \/ Read(Source) \/ SetSurface(Source) \/ ComputeVoltages(Source)
             \/ StoreVoltages(Source) \/ LoadVoltages(Source)
    BY <1>a, <1>7 DEF Read, SetSurface, ComputeVoltages, StoreVoltages, LoadVoltages
  <1> QED
    BY <1>1, <1>2, <1>3, <1>4, <1>5, <1>6, <1>7 DEF Thread

LEMMA ReportStep ==
  ASSUME TypeInv, ProgramInv, StartInv, ThreadInv, ReportInv, [Next]_vars
  PROVE  ReportInv'
  <1>a. kind' = kind /\ (Looks' <=> Looks) /\ (\A v : Accepts(v)' <=> Accepts(v))
    BY Frames DEF Looks, Accepts
  <1> SUFFICES ASSUME Looks PROVE ReportInv'
    BY <1>a DEF ReportInv
  <1>b. kind \in {"mff101", "fw102c"} /\ kind \in AllKinds
    BY Constants, Monitors DEF TypeInv, TypeOK, Looks
  <1>c. ASSUME UNCHANGED <<thread, device, got, reported>> PROVE ReportInv'
    BY <1>a, <1>c DEF ReportInv
  <1>1. ASSUME NEW c \in Channels, Thread(c) \/ SendFails(c) PROVE ReportInv'
    <2>1. c = Source
      BY <1>1, <1>b, OneThread DEF StartInv, InMain, Gone
    <2> QED
      BY <1>1, <2>1, ReportOwn
  <1>2. CASE DoStep
    <2>1. todo # <<>> /\ Head(todo) \in ToSet(todo) /\ device \in [Channels -> Values]
          /\ Source \in Channels
      BY <1>2, NextStep, Constants DEF DoStep, TypeInv, TypeOK
    <2>2. Head(todo) # "zero"
      BY <1>b, <2>1, Openings, Closings, ProgramSteps DEF ProgramInv
    <2>3. CASE Head(todo) = "set"
      <3>1. main = "opening"
        BY <2>1, <2>3, ProgramSteps
      <3>2. Silent
        BY <2>1, <2>3, <3>1 DEF StartInv, Setup
      <3>3. thread' = thread
        BY <1>2, <2>3, MainThreads
      <3>4. device'[Source] = 1 /\ reported' = 1
        BY <1>2, <2>1, <2>3 DEF DoStep, Operating
      <3> QED
        BY <2>1, <3>2, <3>3, <3>4 DEF ReportInv, Silent
    <2>4. CASE Head(todo) = "start"
      <3>1. Silent
        BY <1>2, <2>4, StartSilent DEF DoStep
      <3>2. thread'[Source] \in {"none", "check"} /\ UNCHANGED <<device, reported, got>>
        BY <1>2, <2>1, <2>4, <3>1 DEF DoStep, Operating, Silent
      <3> QED
        BY <2>1, <3>1, <3>2 DEF ReportInv, Silent
    <2>5. CASE Head(todo) \notin {"set", "start"}
      <3>1. UNCHANGED <<device, reported, got>>
        BY <1>2, <2>2, <2>5 DEF DoStep, Operating
      <3> QED
        BY <1>2, <1>c, <2>5, <3>1, MainThreads
    <2> QED
      BY <2>3, <2>4, <2>5
  <1>3. CASE SubmitConfigured \/ EndProgram \/ LeaveMain \/ BeginClose \/ StepFails
    BY <1>3, <1>c DEF SubmitConfigured, EndProgram, LeaveMain, BeginClose, StepFails, position
  <1>4. CASE ShutDown \/ Ended \/ UNCHANGED vars \/ \E d \in Streams, v \in Values : Command(d, v)
    BY <1>4, <1>c DEF ShutDown, Ended, vars, Command, position
  <1> QED
    BY <1>1, <1>2, <1>3, <1>4 DEF Next

LEMMA UpdateInit == Init => UpdateInv
  <1> SUFFICES ASSUME Init PROVE Updated
    BY DEF UpdateInv
  <1>1. \A c \in Channels : thread[c] = "none" /\ Unseen(c)
    <2>1. CASE SubmitsInInit
      BY <2>1 DEF Init, Unseen
    <2>2. CASE ~SubmitsInInit
      BY <2>2 DEF Init, Unseen
    <2> QED
      BY <2>1, <2>2
  <1> QED
    BY <1>1 DEF Updated, Busy

\* One step of an update that is alone.
LEMMA UpdateOwn ==
  ASSUME TypeInv, ThreadInv, Combines, Alone', Updated, NEW c \in Channels,
         Thread(c) \/ SendFails(c), ~Take(c)
  PROVE  Updated'
  <1>a. /\ thread \in [Channels -> States] /\ unread \in [Channels -> SUBSET Channels]
        /\ got \in [Channels -> [Channels -> Values]]
        /\ \A d \in Channels : unread[d] # {} => thread[d] \in {"read", "dead"}
        /\ kind \in AllKinds
    BY Constants DEF TypeInv, TypeOK
  <1>b. /\ Monitor[kind].raises = "dead" /\ Monitor[kind].first = "read" /\ ~Looks
        /\ \A v : Accepts(v) /\ kind # "plp_sim" /\ thread[c] \notin Looking
    BY <1>a, Monitors DEF Combines, Accepts, Looks, ThreadInv
  <1>c. thread'[c] # "dead" /\ \A d \in Channels \ {c} : thread'[d] = thread[d]
    BY OneThread DEF Alone
  <1>d. Busy(c) => \A d \in Channels \ {c} : ~Busy(d)
    BY DEF Updated
  <1> DEFINE Others == \A d \in Channels \ {c} : ~Busy(d)'
             Same   == UNCHANGED <<latest, fresh>>
  <1> USE DEF Goes, Holds
  <1>e. ASSUME ~Busy(c), ~Busy(c)', Same, UNCHANGED <<device, got, unread, surface, voltages>>
        PROVE  Updated'
    BY <1>c, <1>e DEF Updated, Busy, Knows, Unseen
  <1>f. ASSUME Busy(c), Busy(c)', Same, Knows(c)',
               thread'[c] = "compute" => surface' = got'[c] /\ voltages' = NotComputed,
               thread'[c] = "load" => voltages' = got'[c]
        PROVE  Updated'
    <2>1. Others
      BY <1>c, <1>d, <1>f DEF Busy
    <2> QED
      BY <1>f, <2>1 DEF Updated, Busy
  <1>1. CASE Check(c)
    <2>1. thread[c] \in {"check", "get"} /\ thread'[c] \in {"check", "get", "ended"}
      BY <1>1, <1>a DEF Check
    <2> QED
      BY <1>1, <1>e, <2>1 DEF Check, Busy, streams, cached
  <1>2. CASE Read(c)
    <2>1. PICK d \in unread[c] : /\ got' = [got EXCEPT ![c] = [got[c] EXCEPT ![d] = latest[d]]]
                                 /\ unread' = [unread EXCEPT ![c] = unread[c] \ {d}]
                                 /\ thread'[c] \in {"read", "set", "send"}
                                 /\ thread[c] = "read" /\ Same
      BY <1>2, <1>a, <1>c DEF Read, streams
    <2>2. Knows(c)'
      BY <1>a, <2>1 DEF Updated, Busy, Knows, Unseen
    <2> QED
      BY <1>f, <2>1, <2>2 DEF Busy
  <1>3. CASE SetSurface(c)
    <2>1. thread[c] = "set" /\ thread'[c] = "compute" /\ surface' = got[c] /\ got' = got
          /\ voltages' = NotComputed /\ Same /\ unread' = unread
      BY <1>3, <1>a DEF SetSurface, streams
    <2>2. Knows(c)'
      BY <2>1 DEF Updated, Busy, Knows, Unseen
    <2> QED
      BY <1>f, <2>1, <2>2 DEF Busy
  <1>4. CASE ComputeVoltages(c)
    <2>1. thread[c] = "compute" /\ surface = got[c] /\ voltages = NotComputed
      BY <1>4 DEF ComputeVoltages, Updated
    <2>2. thread'[c] = "store" /\ got' = [got EXCEPT ![c] = got[c]] /\ Same /\ unread' = unread
      BY <1>4, <1>a, <2>1 DEF ComputeVoltages, streams
    <2>3. Knows(c)'
      BY <1>a, <2>1, <2>2 DEF Updated, Busy, Knows, Unseen
    <2> QED
      BY <1>f, <2>1, <2>2, <2>3 DEF Busy
  <1>5. CASE StoreVoltages(c)
    <2>1. thread[c] = "store" /\ thread'[c] = "load" /\ voltages' = got[c] /\ got' = got
          /\ Same /\ unread' = unread
      BY <1>5, <1>a DEF StoreVoltages, streams
    <2>2. Knows(c)'
      BY <2>1 DEF Updated, Busy, Knows, Unseen
    <2> QED
      BY <1>f, <2>1, <2>2 DEF Busy
  <1>6. CASE LoadVoltages(c)
    <2>1. thread[c] = "load" /\ voltages = got[c]
      BY <1>6 DEF LoadVoltages, Updated
    <2>2. thread'[c] = "send" /\ got' = [got EXCEPT ![c] = got[c]] /\ Same /\ unread' = unread
      BY <1>6, <1>a, <1>c, <2>1 DEF LoadVoltages, streams
    <2>3. Knows(c)'
      BY <1>a, <2>1, <2>2 DEF Updated, Busy, Knows, Unseen
    <2> QED
      BY <1>f, <2>1, <2>2, <2>3 DEF Busy
  <1>7. CASE Send(c)
    <2>1. thread[c] = "send" /\ thread'[c] = "check" /\ device' = got[c] /\ Same
      BY <1>7, <1>a, <1>b DEF Send, Written, Whole, streams
    <2>2. \A d \in Channels : Unseen(d)' \/ device'[d] = latest'[d]
      BY <1>a, <2>1 DEF Updated, Busy, Knows, Unseen
    <2>3. \A d \in Channels : ~Busy(d)'
      BY <1>c, <1>d, <2>1 DEF Busy
    <2> QED
      BY <2>2, <2>3 DEF Updated, Busy
  <1>8. CASE SendFails(c) \/ SendUnconnected(c)
    BY <1>8, <1>a, <1>b, <1>c DEF SendFails, SendUnconnected
  <1>9. CASE Look(c) \/ Report(c) \/ Retry(c) \/ TryAgain(c)
    BY <1>9, <1>b DEF Look, Report, Retry, TryAgain, Looking
  <1> QED
    BY <1>1, <1>2, <1>3, <1>4, <1>5, <1>6, <1>7, <1>8, <1>9 DEF Thread

\* An update begins: it is the only one, or overlaps another one.
LEMMA UpdateBegins ==
  ASSUME TypeInv, Combines, Alone', NEW c \in Channels, Take(c)
  PROVE  Updated'
  <1>a. /\ thread \in [Channels -> States] /\ unread \in [Channels -> SUBSET Channels]
        /\ got \in [Channels -> [Channels -> Values]]
    BY Constants DEF TypeInv, TypeOK
  <1>1. thread'[c] = "read" /\ \A d \in Channels \ {c} : thread'[d] = thread[d] /\ ~Busy(d)
    <2>1. thread'[c] = "read" /\ thread' = [thread EXCEPT ![c] = "read"]
      BY <1>a DEF Take, Goes, Combines
    <2>2. \A d \in Channels \ {c} : ~Busy(d)
      BY DEF Take, Alone
    <2> QED
      BY <1>a, <2>1, <2>2
  <1>2. \A d \in Channels \ {c} : d \in unread'[c]
    BY <1>a DEF Take
  <1>3. got'[c][c] = latest'[c]
    BY <1>a, Constants DEF Take, Holds
  <1> QED
    BY <1>1, <1>2, <1>3 DEF Updated, Busy, Knows

LEMMA UpdateStep ==
  ASSUME TypeInv, ProgramInv, StartInv, ThreadInv, UpdateInv, [Next]_vars
  PROVE  UpdateInv'
  <1>a. kind' = kind /\ (Combines' <=> Combines)
    BY Frames DEF Combines
  <1> SUFFICES ASSUME Combines, Live', Alone' PROVE Updated'
    BY <1>a DEF UpdateInv
  <1>b. Live
    BY LiveBefore
  <1>1. ASSUME NEW c \in Channels, Take(c) PROVE Updated'
    BY <1>1, UpdateBegins
  <1>2. ASSUME NEW c \in Channels, Thread(c) \/ SendFails(c), ~Take(c) PROVE Updated'
    <2>1. Alone
      <3>1. overlapped' = overlapped
        BY <1>2 DEF Thread, Check, Read, SetSurface, ComputeVoltages, StoreVoltages, LoadVoltages,
                    Look, Send, Report, SendFails, SendUnconnected, Retry, TryAgain, history
      <3>2. \A d \in Channels : thread[d] = "dead" => thread'[d] = "dead"
        BY <1>2, OneThread DEF Gone
      <3> QED
        BY <3>1, <3>2 DEF Alone
    <2> QED
      BY <1>2, <1>b, <2>1, UpdateOwn DEF UpdateInv
  <1>c. ASSUME \A c \in Channels : ~Take(c) PROVE \A c \in Channels : Unseen(c) => Unseen(c)'
    BY <1>c, Frames DEF Unseen
  <1>d. ASSUME UNCHANGED <<thread, device, got, unread, cached, history>>,
               \A c \in Channels : ~Take(c)
        PROVE  Updated'
    <2>1. Alone /\ Updated
      BY <1>b, <1>d DEF Alone, UpdateInv, history
    <2>2. \A c \in Channels : Unseen(c)' \/ latest'[c] = latest[c]
      BY <1>d, Frames DEF Unseen
    <2>3. \A c \in Channels : Unseen(c) => Unseen(c)'
      BY <1>c, <1>d
    <2>4. UNCHANGED <<thread, device, got, unread, surface, voltages>>
      BY <1>d DEF cached
    <2> QED
      BY <2>1, <2>2, <2>3, <2>4 DEF Updated, Busy, Knows
  <1>3. CASE DoStep \/ SubmitConfigured \/ EndProgram \/ LeaveMain \/ BeginClose \/ StepFails
    <2>1. \A c \in Channels : ~Take(c)
      <3>1. \A c \in Channels : thread'[c] = thread[c] \/ thread[c] = "none"
        BY <1>3, LiveMain DEF Silent
      <3> QED
        BY <3>1, TakeMoves
    <2>2. CASE UNCHANGED <<thread, device>>
      BY <1>3, <1>d, <2>1, <2>2, LiveMain
    <2>3. CASE Silent
      <3>1. \A c \in Channels : Unseen(c)'
        BY <1>c, <2>1, <2>3 DEF ThreadInv, Unseen
      <3>2. \A c \in Channels : thread'[c] \in {"none", "check"}
        BY <1>3, <2>3, LiveMain DEF DoStep, Operating, Silent
      <3> QED
        BY <3>1, <3>2 DEF Updated, Busy
    <2> QED
      BY <1>3, <2>2, <2>3, LiveMain
  <1>4. CASE ShutDown \/ Ended \/ UNCHANGED vars \/ \E d \in Streams, v \in Values : Command(d, v)
    <2>1. UNCHANGED <<thread, device, got, unread, cached, history>>
      BY <1>4 DEF ShutDown, Ended, vars, Command, cached
    <2>2. \A c \in Channels : ~Take(c)
      BY <2>1, TakeMoves
    <2> QED
      BY <1>d, <2>1, <2>2
  <1> QED
    BY <1>1, <1>2, <1>3, <1>4 DEF Next, Thread

SettlingInv == ActuatorInv /\ ThreadInv /\ StreamInv /\ ReportInv /\ UpdateInv

\* When a thread has nothing left to do, the device is where its stream says it is, unless
\* the command was given up because the device failed.  A mirror is when all its threads
\* wait, if the last update did not begin during another one: an update then knows the
\* latest frame of every stream that has nothing new.
THEOREM Settling == Spec => []SettlesOnLatest
  <1>1. Init => ThreadInv /\ StreamInv /\ ReportInv /\ UpdateInv
    <2>1. Init => StreamInv
      <3> SUFFICES ASSUME Init, NEW c \in Streams PROVE Right(c)
        BY DEF StreamInv
      <3>1. thread[c] = "none"
        BY Constants DEF Init, Streams
      <3> QED
        BY <3>1 DEF Right, Looking
    <2> QED
      BY <2>1, ThreadInit, ReportInit, UpdateInit
  <1>2. ActuatorInv /\ ThreadInv /\ StreamInv /\ ReportInv /\ UpdateInv /\ [Next]_vars
          => (ThreadInv /\ StreamInv /\ ReportInv /\ UpdateInv)'
    BY ThreadStep, StreamStep, ReportStep, UpdateStep DEF ActuatorInv
  <1>3. Spec => []SettlingInv
    BY <1>1, <1>2, ActuatorCorrect, PTL DEF Spec, SettlingInv
  <1>4. SettlingInv => SettlesOnLatest
    <2> SUFFICES ASSUME SettlingInv, main = "running", ~stopping
                 PROVE  IF Combines
                        THEN (\A c \in Channels : Waits(c)) /\ ~overlapped
                               => \A c \in Channels : Settled(c)
                        ELSE \A c \in Streams : Waits(c) /\ latest[c] # None /\ c \notin lost
                                                  => Settled(c)
      BY DEF SettlesOnLatest
    <2> USE DEF SettlingInv, Live, Waits, Settled
    <2>1. ASSUME Combines, \A c \in Channels : Waits(c), ~overlapped, NEW c \in Channels
          PROVE  Settled(c)
      <3>1. Updated /\ \A d \in Channels : ~Busy(d) /\ ~fresh[d] /\ latest[d] # None
        BY <2>1 DEF UpdateInv, Alone, Busy, ThreadInv
      <3> QED
        BY <3>1 DEF Updated, Unseen
    <2>2. ASSUME ~Combines, NEW c \in Streams, Waits(c), latest[c] # None, c \notin lost
          PROVE  Settled(c)
      BY <2>2 DEF StreamInv, Right, Unseen
    <2> QED
      BY <2>1, <2>2
  <1> QED
    BY <1>3, <1>4, PTL
===============================================================================
