----------------------------- MODULE CameraProofs -----------------------------
(***************************************************************************)
(* Proofs about Camera and CameraProxy, for every kind of camera.           *)
(***************************************************************************)
EXTENDS CameraProxy, SequenceTheorems, WellFoundedInduction, TLAPS

\* s occurs in p at its end only.
AtEnd(s, p) == \A i \in DOMAIN p : p[i] = s => i = Len(p)

\* p ends with s, once it has anything.
EndsWith(s, p) == p # <<>> => p[Len(p)] = s

LEMMA TailOf ==
  ASSUME NEW S, NEW p \in Seq(S), p # <<>>
  PROVE  /\ Tail(p) \in Seq(S) /\ Len(Tail(p)) = Len(p) - 1 /\ Len(p) \in Nat \ {0}
         /\ DOMAIN p = 1 .. Len(p) /\ DOMAIN Tail(p) = 1 .. Len(p) - 1
         /\ Head(p) = p[1]
         /\ \A i \in 1 .. Len(p) - 1 : Tail(p)[i] = p[i + 1]
  <1>1. Len(p) \in Nat \ {0}
    BY EmptySeq, SMT
  <1> QED
    BY <1>1, SMT

LEMMA TailSet ==
  ASSUME NEW S, NEW p \in Seq(S), p # <<>>
  PROVE  \A s : s \in ToSet(p) <=> s = Head(p) \/ s \in ToSet(Tail(p))
  <1> TAKE s
  <1>1. ASSUME s \in ToSet(p) PROVE s = Head(p) \/ s \in ToSet(Tail(p))
    <2>1. PICK i \in 1 .. Len(p) : p[i] = s
      BY <1>1, TailOf DEF ToSet
    <2>2. i # 1 => i - 1 \in 1 .. Len(p) - 1 /\ Tail(p)[i - 1] = s
      BY <2>1, TailOf
    <2> QED
      BY <2>1, <2>2, TailOf DEF ToSet
  <1>2. ASSUME s \in ToSet(Tail(p)) PROVE s \in ToSet(p)
    <2>1. PICK i \in 1 .. Len(p) - 1 : Tail(p)[i] = s
      BY <1>2, TailOf DEF ToSet
    <2>2. i + 1 \in 1 .. Len(p) /\ p[i + 1] = s
      BY <2>1, TailOf
    <2> QED
      BY <2>2, TailOf DEF ToSet
  <1>3. Head(p) \in ToSet(p)
    <2>1. 1 \in DOMAIN p
      BY TailOf
    <2> QED
      BY <2>1, TailOf DEF ToSet
  <1> QED
    BY <1>1, <1>2, <1>3

LEMMA TailEnd ==
  ASSUME NEW S, NEW p \in Seq(S), p # <<>>, NEW s
  PROVE  /\ AtEnd(s, p) => AtEnd(s, Tail(p)) /\ (Head(p) = s => Tail(p) = <<>>)
         /\ EndsWith(s, p) => EndsWith(s, Tail(p)) /\ (Tail(p) = <<>> => Head(p) = s)
  <1>1. AtEnd(s, p) => AtEnd(s, Tail(p))
    BY TailOf, SMT DEF AtEnd
  <1>2. Head(p) = s /\ AtEnd(s, p) => Tail(p) = <<>>
    <2> SUFFICES ASSUME Head(p) = s, AtEnd(s, p) PROVE Tail(p) = <<>>
      OBVIOUS
    <2>1. 1 \in DOMAIN p /\ p[1] = s
      BY TailOf
    <2>2. Len(p) = 1
      BY <2>1 DEF AtEnd
    <2>3. Tail(p) \in Seq(S) /\ Len(Tail(p)) = 0
      BY <2>2, TailOf
    <2> QED
      BY <2>3, EmptySeq
  <1>3. EndsWith(s, p) /\ Tail(p) # <<>> => Tail(p)[Len(Tail(p))] = s
    <2>1. Tail(p) # <<>> => Len(p) - 1 \in 1 .. Len(p) - 1
      BY TailOf, EmptySeq, SMT
    <2> QED
      BY <2>1, TailOf, SMT DEF EndsWith
  <1>4. EndsWith(s, p) /\ Tail(p) = <<>> => Head(p) = s
    <2>1. Tail(p) = <<>> => Len(p) - 1 = 0
      BY TailOf, EmptySeq
    <2> QED
      BY <2>1, TailOf DEF EndsWith
  <1> QED
    BY <1>1, <1>2, <1>3, <1>4 DEF EndsWith

LEMMA TailOnce ==
  ASSUME NEW S, NEW p \in Seq(S), p # <<>>, IsInjective(p)
  PROVE  IsInjective(Tail(p)) /\ Head(p) \notin ToSet(Tail(p))
  <1>1. IsInjective(Tail(p))
    BY TailOf, SMT DEF IsInjective
  <1>2. ASSUME NEW i \in 1 .. Len(p) - 1, Tail(p)[i] = Head(p) PROVE FALSE
    BY <1>2, TailOf, SMT DEF IsInjective
  <1> QED
    BY <1>1, <1>2, TailOf DEF ToSet

LEMMA Absent ==
  ASSUME NEW p, NEW s, s \notin ToSet(p)
  PROVE  AtEnd(s, p)
  BY DEF AtEnd, ToSet

LEMMA OneStep ==
  ASSUME NEW a PROVE /\ ToSet(<<a>>) = {a} /\ <<a>> # <<>> 
         /\ AtEnd(a, <<a>>) /\ EndsWith(a, <<a>>) /\ IsInjective(<<a>>)
  <1>1. DOMAIN <<a>> = {1} /\ Len(<<a>>) = 1 /\ <<a>>[1] = a
    BY SMT
  <1> HIDE DEF AtEnd
  <1> DEFINE p == <<a>>
  <1> HIDE DEF p
  <1>2. DOMAIN p = {1} /\ Len(p) = 1 /\ p[1] = a
    BY <1>1 DEF p
  <1>3. ToSet(p) = {a} /\ AtEnd(a, p) /\ EndsWith(a, p) /\ IsInjective(p)
    BY <1>2 DEF ToSet, AtEnd, EndsWith, IsInjective
  <1>4. p # <<>> BY <1>2
  <1> QED BY <1>3, <1>4 DEF p

LEMMA TwoSteps ==
  ASSUME NEW a, NEW b, a # b PROVE /\ ToSet(<<a, b>>) = {a, b} /\ <<a, b>> # <<>> 
         /\ AtEnd(b, <<a, b>>) /\ EndsWith(b, <<a, b>>) /\ IsInjective(<<a, b>>)
  <1>1. DOMAIN <<a, b>> = 1 .. 2 /\ Len(<<a, b>>) = 2 /\ <<a, b>>[1] = a /\ <<a, b>>[2] = b
    BY SMT
  <1> DEFINE p == <<a, b>>
  <1> HIDE DEF p
  <1>2. DOMAIN p = 1 .. 2 /\ Len(p) = 2 /\ p[1] = a /\ p[2] = b
    BY <1>1 DEF p
  <1>3. ToSet(p) = {a, b}
    BY <1>2 DEF ToSet
  <1>4. AtEnd(b, p)
    BY <1>2 DEF AtEnd
  <1>5. EndsWith(b, p)
    BY <1>2 DEF EndsWith
  <1>6. IsInjective(p)
    BY <1>2 DEF IsInjective
  <1>7. p # <<>> BY <1>2
  <1> QED BY <1>3, <1>4, <1>5, <1>6, <1>7 DEF p

LEMMA ThreeSteps ==
  ASSUME NEW a, NEW b, NEW c, a # b, b # c, a # c
  PROVE  /\ ToSet(<<a, b, c>>) = {a, b, c} /\ <<a, b, c>> # <<>>
         /\ AtEnd(c, <<a, b, c>>) /\ EndsWith(c, <<a, b, c>>) /\ IsInjective(<<a, b, c>>)
  <1>1. /\ DOMAIN <<a, b, c>> = 1 .. 3 /\ Len(<<a, b, c>>) = 3
        /\ <<a, b, c>>[1] = a /\ <<a, b, c>>[2] = b /\ <<a, b, c>>[3] = c
    BY SMT
  <1> DEFINE p == <<a, b, c>>
  <1> HIDE DEF p
  <1>2. DOMAIN p = 1 .. 3 /\ Len(p) = 3 /\ p[1] = a /\ p[2] = b /\ p[3] = c
    BY <1>1 DEF p
  <1>3. ToSet(p) = {a, b, c}
    BY <1>2 DEF ToSet
  <1>4. AtEnd(c, p)
    BY <1>2 DEF AtEnd
  <1>5. EndsWith(c, p)
    BY <1>2 DEF EndsWith
  <1>6. IsInjective(p)
    BY <1>2 DEF IsInjective
  <1>7. p # <<>> BY <1>2
  <1> QED BY <1>3, <1>4, <1>5, <1>6, <1>7 DEF p

LEMMA FourSteps ==
  ASSUME NEW a, NEW b, NEW c, NEW d, a # d, b # d, c # d
  PROVE  /\ ToSet(<<a, b, c, d>>) = {a, b, c, d} /\ <<a, b, c, d>> # <<>>
         /\ AtEnd(d, <<a, b, c, d>>)
  <1>1. /\ DOMAIN <<a, b, c, d>> = 1 .. 4 /\ Len(<<a, b, c, d>>) = 4
        /\ <<a, b, c, d>>[1] = a /\ <<a, b, c, d>>[2] = b
        /\ <<a, b, c, d>>[3] = c /\ <<a, b, c, d>>[4] = d
    BY SMT
  <1> DEFINE p == <<a, b, c, d>>
  <1> HIDE DEF p
  <1>2. DOMAIN p = 1 .. 4 /\ Len(p) = 4 /\ p[1] = a /\ p[2] = b /\ p[3] = c /\ p[4] = d
    BY <1>1 DEF p
  <1>3. ToSet(p) = {a, b, c, d}
    BY <1>2 DEF ToSet
  <1>4. AtEnd(d, p)
    BY <1>2 DEF AtEnd
  <1>7. p # <<>> BY <1>2
  <1> QED BY <1>3, <1>4, <1>7 DEF p

Streams == {"hamamatsu", "allied_vision", "zwo", "flir", "camera_sim"}

LEMMA Openings ==
  ASSUME NEW k \in AllKinds
  PROVE  /\ Opening[k] \in Seq({"open", "configure", "retract", "monitor"})
         /\ AtEnd("monitor", Opening[k])
  <1>1. CASE k \in {"hamamatsu", "zwo"}
    <2>1. Opening[k] = <<"open", "configure", "retract", "monitor">>
      BY <1>1 DEF Opening, HamamatsuOpen, ZwoOpen
    <2>2. /\ ToSet(<<"open", "configure", "retract", "monitor">>) = {"open", "configure", "retract", "monitor"}
          /\ <<"open", "configure", "retract", "monitor">> # <<>>
          /\ AtEnd("monitor", <<"open", "configure", "retract", "monitor">>)
      BY FourSteps
    <2> QED
      BY <1>1, <2>1, <2>2 DEF Streams
  <1>2. CASE k \in {"allied_vision", "flir"}
    <2>1. Opening[k] = <<"open", "retract", "configure", "monitor">>
      BY <1>2 DEF Opening, AlliedVisionOpen, FlirOpen
    <2>2. /\ ToSet(<<"open", "retract", "configure", "monitor">>) = {"open", "retract", "configure", "monitor"}
          /\ <<"open", "retract", "configure", "monitor">> # <<>>
          /\ AtEnd("monitor", <<"open", "retract", "configure", "monitor">>)
      BY FourSteps
    <2> QED
      BY <1>2, <2>1, <2>2 DEF Streams
  <1>3. CASE k = "dummy"
    <2>1. Opening[k] = <<"retract", "monitor">>
      BY <1>3 DEF Opening, DummyOpen
    <2>2. /\ ToSet(<<"retract", "monitor">>) = {"retract", "monitor"}
          /\ <<"retract", "monitor">> # <<>>
          /\ AtEnd("monitor", <<"retract", "monitor">>)
          /\ EndsWith("monitor", <<"retract", "monitor">>) /\ IsInjective(<<"retract", "monitor">>)
      BY TwoSteps
    <2> QED
      BY <1>3, <2>1, <2>2 DEF Streams
  <1>4. CASE k = "camera_sim"
    <2>1. Opening[k] = <<"retract", "configure">>
      BY <1>4 DEF Opening, CameraSimOpen
    <2>2. /\ ToSet(<<"retract", "configure">>) = {"retract", "configure"}
          /\ <<"retract", "configure">> # <<>>
          /\ AtEnd("configure", <<"retract", "configure">>)
          /\ EndsWith("configure", <<"retract", "configure">>)
          /\ IsInjective(<<"retract", "configure">>)
      BY TwoSteps
    <2> QED
      BY <1>4, <2>1, <2>2, Absent DEF Streams
  <1>5. CASE k = "accufiz"
    <2>1. Opening[k] = <<"open", "retract">>
      BY <1>5 DEF Opening, AccufizOpen
    <2>2. /\ ToSet(<<"open", "retract">>) = {"open", "retract"}
          /\ <<"open", "retract">> # <<>>
          /\ AtEnd("retract", <<"open", "retract">>)
          /\ EndsWith("retract", <<"open", "retract">>) /\ IsInjective(<<"open", "retract">>)
      BY TwoSteps
    <2> QED
      BY <1>5, <2>1, <2>2, Absent DEF Streams
  <1>6. CASE k = "accufiz_sim"
    <2>1. Opening[k] = <<"retract">>
      BY <1>6 DEF Opening, AccufizSimOpen
    <2>2. /\ ToSet(<<"retract">>) = {"retract"}
          /\ <<"retract">> # <<>>
          /\ AtEnd("retract", <<"retract">>)
          /\ EndsWith("retract", <<"retract">>) /\ IsInjective(<<"retract">>)
      BY OneStep
    <2> QED
      BY <1>6, <2>1, <2>2, Absent DEF Streams
  <1> QED
    BY <1>1, <1>2, <1>3, <1>4, <1>5, <1>6 DEF AllKinds

LEMMA WaysIn ==
  ASSUME NEW k \in AllKinds
  PROVE  /\ Acquiring[k].into \in Seq({"fit", "stream", "announce"})
         /\ Acquiring[k].into # <<>> /\ IsInjective(Acquiring[k].into)
         /\ "stream" \in ToSet(Acquiring[k].into) => k \in Streams
         /\ k # "allied_vision" => /\ AtEnd("announce", Acquiring[k].into)
                                  /\ EndsWith("announce", Acquiring[k].into)
  <1>1. CASE k \in {"hamamatsu", "zwo", "flir"}
    <2>1. Acquiring[k].into = <<"fit", "stream", "announce">>
      BY <1>1 DEF Acquiring, HamamatsuLoop, ZwoLoop, FlirLoop
    <2>2. /\ ToSet(<<"fit", "stream", "announce">>) = {"fit", "stream", "announce"}
          /\ <<"fit", "stream", "announce">> # <<>>
          /\ AtEnd("announce", <<"fit", "stream", "announce">>)
          /\ EndsWith("announce", <<"fit", "stream", "announce">>)
          /\ IsInjective(<<"fit", "stream", "announce">>)
      BY ThreeSteps
    <2> QED
      BY <1>1, <2>1, <2>2 DEF Streams
  <1>2. CASE k = "allied_vision"
    <2>1. Acquiring[k].into = <<"announce", "fit", "stream">>
      BY <1>2 DEF Acquiring, AlliedVisionLoop
    <2>2. /\ ToSet(<<"announce", "fit", "stream">>) = {"announce", "fit", "stream"}
          /\ <<"announce", "fit", "stream">> # <<>>
          /\ AtEnd("stream", <<"announce", "fit", "stream">>)
          /\ EndsWith("stream", <<"announce", "fit", "stream">>)
          /\ IsInjective(<<"announce", "fit", "stream">>)
      BY ThreeSteps
    <2> QED
      BY <1>2, <2>1, <2>2 DEF Streams
  <1>3. CASE k = "camera_sim"
    <2>1. Acquiring[k].into = <<"stream", "announce">>
      BY <1>3 DEF Acquiring, CameraSimLoop
    <2>2. /\ ToSet(<<"stream", "announce">>) = {"stream", "announce"}
          /\ <<"stream", "announce">> # <<>>
          /\ AtEnd("announce", <<"stream", "announce">>)
          /\ EndsWith("announce", <<"stream", "announce">>) /\ IsInjective(<<"stream", "announce">>)
      BY TwoSteps
    <2> QED
      BY <1>3, <2>1, <2>2 DEF Streams
  <1>4. CASE k \in {"dummy", "accufiz", "accufiz_sim"}
    <2>1. Acquiring[k].into = <<"announce">>
      BY <1>4 DEF Acquiring, DummyLoop, AccufizLoop, AccufizSimLoop
    <2>2. /\ ToSet(<<"announce">>) = {"announce"}
          /\ <<"announce">> # <<>>
          /\ AtEnd("announce", <<"announce">>)
          /\ EndsWith("announce", <<"announce">>) /\ IsInjective(<<"announce">>)
      BY OneStep
    <2> QED
      BY <1>4, <2>1, <2>2 DEF Streams
  <1> QED
    BY <1>1, <1>2, <1>3, <1>4 DEF AllKinds

LEMMA WaysOut ==
  ASSUME NEW k \in AllKinds
  PROVE  /\ Acquiring[k].out \in Seq({"halt", "retract"})
         /\ "retract" \in ToSet(Acquiring[k].out)
         /\ k \in Streams => "halt" \in ToSet(Acquiring[k].out)
         /\ k # "allied_vision" => AtEnd("retract", Acquiring[k].out)
  <1>1. CASE k \in {"hamamatsu", "zwo", "flir", "camera_sim"}
    <2>1. Acquiring[k].out = <<"halt", "retract">>
      BY <1>1 DEF Acquiring, HamamatsuLoop, ZwoLoop, FlirLoop, CameraSimLoop
    <2>2. /\ ToSet(<<"halt", "retract">>) = {"halt", "retract"}
          /\ <<"halt", "retract">> # <<>>
          /\ AtEnd("retract", <<"halt", "retract">>)
          /\ EndsWith("retract", <<"halt", "retract">>) /\ IsInjective(<<"halt", "retract">>)
      BY TwoSteps
    <2> QED
      BY <1>1, <2>1, <2>2 DEF Streams
  <1>2. CASE k = "allied_vision"
    <2>1. Acquiring[k].out = <<"retract", "halt">>
      BY <1>2 DEF Acquiring, AlliedVisionLoop
    <2>2. /\ ToSet(<<"retract", "halt">>) = {"retract", "halt"}
          /\ <<"retract", "halt">> # <<>>
          /\ AtEnd("halt", <<"retract", "halt">>)
          /\ EndsWith("halt", <<"retract", "halt">>) /\ IsInjective(<<"retract", "halt">>)
      BY TwoSteps
    <2> QED
      BY <1>2, <2>1, <2>2 DEF Streams
  <1>3. CASE k \in {"dummy", "accufiz", "accufiz_sim"}
    <2>1. Acquiring[k].out = <<"retract">>
      BY <1>3 DEF Acquiring, DummyLoop, AccufizLoop, AccufizSimLoop
    <2>2. /\ ToSet(<<"retract">>) = {"retract"}
          /\ <<"retract">> # <<>>
          /\ AtEnd("retract", <<"retract">>)
          /\ EndsWith("retract", <<"retract">>) /\ IsInjective(<<"retract">>)
      BY OneStep
    <2> QED
      BY <1>3, <2>1, <2>2 DEF Streams
  <1> QED
    BY <1>1, <1>2, <1>3 DEF AllKinds

LEMMA Closings ==
  ASSUME NEW k \in AllKinds
  PROVE  /\ Closing[k] \in Seq({"join", "release"})
         /\ k # "hamamatsu" => AtEnd("release", Closing[k])
         /\ k # "hamamatsu" /\ "release" \in ToSet(Closing[k]) => "join" \in ToSet(Closing[k])
  <1>1. CASE k = "hamamatsu"
    <2>1. Closing[k] = <<"release">>
      BY <1>1 DEF Closing, HamamatsuClose
    <2>2. /\ ToSet(<<"release">>) = {"release"}
          /\ <<"release">> # <<>>
          /\ AtEnd("release", <<"release">>)
          /\ EndsWith("release", <<"release">>) /\ IsInjective(<<"release">>)
      BY OneStep
    <2> QED
      BY <1>1, <2>1, <2>2 DEF Streams
  <1>2. CASE k \in {"allied_vision", "zwo", "flir"}
    <2>1. Closing[k] = <<"join", "release">>
      BY <1>2 DEF Closing, AlliedVisionClose, ZwoClose, FlirClose
    <2>2. /\ ToSet(<<"join", "release">>) = {"join", "release"}
          /\ <<"join", "release">> # <<>>
          /\ AtEnd("release", <<"join", "release">>)
          /\ EndsWith("release", <<"join", "release">>) /\ IsInjective(<<"join", "release">>)
      BY TwoSteps
    <2> QED
      BY <1>2, <2>1, <2>2 DEF Streams
  <1>3. CASE k \in {"dummy", "camera_sim", "accufiz", "accufiz_sim"}
    <2>1. Closing[k] = <<>>
      BY <1>3 DEF Closing
    <2> QED
      BY <1>3, <2>1 DEF ToSet, AtEnd
  <1> QED
    BY <1>1, <1>2, <1>3 DEF AllKinds

-----------------------------------------------------------------------------
(* The inductive invariants.                                               *)

Looping == {"loop", "capture", "save", "submit"}

\* What is left of a program, by where the main thread is.
ProgramInv ==
  /\ main = "opening"  => /\ todo \in Seq({"open", "configure", "retract", "monitor"})
                          /\ AtEnd("monitor", todo)
  /\ main = "entering" => /\ todo \in Seq({"fit", "stream", "announce"}) /\ IsInjective(todo)
                          /\ kind # "allied_vision" =>
                               AtEnd("announce", todo) /\ EndsWith("announce", todo)
  /\ main = "leaving"  => /\ todo \in Seq({"halt", "retract"})
                          /\ kind # "allied_vision" => AtEnd("retract", todo)
  /\ main = "closing"  => /\ todo \in Seq({"join", "release"})
                          /\ kind # "hamamatsu" => AtEnd("release", todo)
  /\ main \notin {"opening", "entering", "leaving", "closing"} => todo = <<>>

\* The camera streams and says so only on the way into the loop, in it and out of it; on
\* the way out, what is left to do stops it and takes it back.
AcquisitionInv ==
  /\ device.streaming => /\ kind \in Streams
                         /\ main \in Looping \cup {"entering", "leaving"}
                         /\ main = "leaving" => "halt" \in ToSet(todo)
  /\ announced = "yes" => /\ main \in Looping \cup {"entering", "leaving"}
                          /\ main = "leaving" => "retract" \in ToSet(todo)
  /\ main = "entering" /\ "stream" \in ToSet(todo) => kind \in Streams /\ ~device.streaming
  /\ kind # "allied_vision" => /\ main = "entering" => (announced = "yes" <=> todo = <<>>)
                               /\ main \in Looping => announced = "yes"

\* The camera is open from the step that opens it to the one that closes it, which comes
\* after the end of the temperature thread.
OpenInv ==
  /\ main = "opening" => device.open \/ ("open" \in ToSet(todo) /\ monitor = "none")
  /\ main = "opening" /\ "open" \in ToSet(todo) => monitor = "none"
  /\ main \notin {"opening", "closing", "closed"} => device.open
  /\ main \in {"opening", "closing", "closed"} => server = "idle"
  /\ kind # "hamamatsu" /\ main = "closing" /\ "release" \in ToSet(todo)
       => "join" \in ToSet(todo) \/ monitor = "ended"
  /\ kind # "hamamatsu" /\ main \in {"closing", "closed"}
       => device.open \/ monitor \in {"none", "ended"}

\* A setter that found an acquisition has ended it, and no other begins before it restarts
\* it: nobody but the server thread, which is busy with the setter, sets wanted.
SetterInv ==
  /\ saw \/ server \notin {"idle", "measure"} => kind \in DOMAIN FirstOfSetter
  /\ server = "look" => ~saw
  /\ server = "write" /\ kind = "camera_sim" => ~saw
  /\ server = "measure" => kind = "accufiz"
  /\ server = "awaitStart" => wanted
  /\ server \in {"await", "write"} /\ saw /\ kind # "allied_vision" =>
       /\ ~wanted
       /\ main = "entering" => todo = <<>>
       /\ announced = "yes" \/ ~device.streaming
       /\ server = "write" => ~device.streaming

InHandInv == main = "submit" => inHand # 0

CameraInv ==
  TypeOK /\ InHandInv /\ ProgramInv /\ AcquisitionInv /\ OpenInv /\ SetterInv

-----------------------------------------------------------------------------
(* Type correctness.                                                       *)

\* A nonempty set of naturals has a least element.
LEMMA LeastNatural ==
  ASSUME NEW S, S \subseteq Nat, S # {} PROVE \E n \in S : \A m \in S : n <= m
  <1> DEFINE R == OpToRel(<, Nat)
  <1>1. IsWellFoundedOn(R, Nat)
    BY NatLessThanWellFounded
  <1>2. ASSUME NEW x \in Nat, NEW y \in Nat, x < y PROVE <<x, y>> \in R
    BY <1>2 DEF OpToRel
  <1> HIDE DEF R
  <1>3. \E x \in S : \A y \in S : ~(<<y, x>> \in R)
    BY <1>1, WFMin, Zenon
  <1>4. PICK n \in S : \A y \in S : ~(<<y, n>> \in R)
    BY <1>3
  <1>5. ASSUME NEW m \in S PROVE n <= m
    <2>1. m \in Nat /\ n \in Nat OBVIOUS
    <2>2. ~(m < n)
      BY <1>2, <1>4, <2>1
    <2> QED BY <2>1, <2>2
  <1> QED
    BY <1>5

LEMMA SizesExist == Configured \in Sizes
  <1>1. \E s \in Sizes : \A t \in Sizes : s <= t
    <2>1. Sizes \subseteq Nat /\ Sizes # {}
      BY CameraAssumption
    <2> QED
      BY <2>1, LeastNatural
  <1> QED
    BY <1>1 DEF Configured

\* The programs are made of steps.
LEMMA ProgramsTyped ==
  ASSUME NEW k \in AllKinds
  PROVE  /\ Opening[k] \in Seq(Steps) /\ Closing[k] \in Seq(Steps)
         /\ Acquiring[k].into \in Seq(Steps) /\ Acquiring[k].out \in Seq(Steps)
  <1>1. \A S, T : S \subseteq T => Seq(S) \subseteq Seq(T)
    BY SMT
  <1>2. /\ Seq({"open", "configure", "retract", "monitor"}) \subseteq Seq(Steps)
        /\ Seq({"fit", "stream", "announce"}) \subseteq Seq(Steps)
        /\ Seq({"halt", "retract"}) \subseteq Seq(Steps)
        /\ Seq({"join", "release"}) \subseteq Seq(Steps)
    BY <1>1 DEF Steps
  <1> QED
    BY <1>2, Openings, WaysIn, WaysOut, Closings

\* The type invariant, by the part of the state.
FlagsTyped ==
  /\ kind \in Kinds /\ stopping \in BOOLEAN /\ wanted \in BOOLEAN
  /\ announced \in {"never", "no", "yes"} /\ monitor \in {"none", "check", "read", "ended"}

DeviceTyped ==
  device \in [open : BOOLEAN, streaming : BOOLEAN, size : Sizes] /\ shape \in Sizes

ProgramTyped ==
  /\ failed \in BOOLEAN /\ warm \in BOOLEAN /\ todo \in Seq(Steps)
  /\ main \in {"opening", "main", "wait", "entering", "loop", "capture", "save", "submit",
               "leaving", "ended", "stopServer", "closing", "closed"}

ServerTyped ==
  /\ server \in {"idle", "look", "await", "write", "restart", "awaitStart", "measure"}
  /\ newSize \in Sizes /\ saw \in BOOLEAN /\ refused \in BOOLEAN
  /\ requests \in 0 .. MaxRequests

FramesTyped ==
  /\ exposures \in 0 .. MaxExposures
  /\ exposing \in 0 .. exposures /\ inHand \in 0 .. exposures
  /\ images \in Seq(1 .. MaxExposures) /\ firstId \in 0 .. Len(images)
  /\ inHand # 0 <=> main = "submit"

LEMMA Typed ==
  TypeOK /\ InHandInv
    <=> FlagsTyped /\ DeviceTyped /\ ProgramTyped /\ ServerTyped /\ FramesTyped
  BY DEF TypeOK, InHandInv, FlagsTyped, DeviceTyped, ProgramTyped, ServerTyped, FramesTyped

LEMMA TypedNext ==
  FlagsTyped' /\ DeviceTyped' /\ ProgramTyped' /\ ServerTyped' /\ FramesTyped'
    => TypeOK' /\ InHandInv'
  BY DEF TypeOK, InHandInv, FlagsTyped, DeviceTyped, ProgramTyped, ServerTyped, FramesTyped

LEMMA TypeInit == Init => TypeOK /\ InHandInv
  <1> SUFFICES ASSUME Init PROVE TypeOK /\ InHandInv
    OBVIOUS
  <1>1. todo \in Seq(Steps) /\ device.open \in BOOLEAN
    BY CameraAssumption, ProgramsTyped DEF Init
  <1>2. images \in Seq(1 .. MaxExposures) /\ Len(images) = 0
    BY DEF Init
  <1>3. wanted \in BOOLEAN
    BY DEF Init
  <1>7. FlagsTyped
    BY <1>3 DEF Init, FlagsTyped
  <1>8. ServerTyped
    <2>1. server = "idle" /\ newSize = Configured /\ saw = FALSE /\ refused = FALSE /\ requests = 0
      BY DEF Init
    <2>2. newSize \in Sizes
      BY <2>1, SizesExist
    <2>3. requests \in 0 .. MaxRequests
      BY <2>1, CameraAssumption
    <2> QED
      BY <2>1, <2>2, <2>3 DEF ServerTyped
  <1>4. DeviceTyped
    BY SizesExist DEF Init, DeviceTyped
  <1>5. ProgramTyped
    BY <1>1 DEF Init, ProgramTyped
  <1>6. FramesTyped
    BY <1>2, CameraAssumption DEF Init, FramesTyped
  <1> QED
    BY <1>4, <1>5, <1>6, <1>7, <1>8, Typed

LEMMA TypeMain ==
  ASSUME TypeOK, InHandInv, Main \/ StepFails \/ CaptureFails \/ ShutDown
  PROVE  TypeOK' /\ InHandInv'
  <1>a. kind \in AllKinds
    BY CameraAssumption DEF TypeOK
  <1>b. FlagsTyped /\ DeviceTyped /\ ProgramTyped /\ ServerTyped /\ FramesTyped
    BY Typed
  <1> SUFFICES FlagsTyped' /\ DeviceTyped' /\ ProgramTyped' /\ ServerTyped' /\ FramesTyped'
    BY TypedNext
  <1> USE DEF flags, program, serving, frames, stream, MainMoves
  <1>1. CASE DoStep
    <2>1. FlagsTyped'
      BY <1>b, <1>1, TailOf, SizesExist DEF FlagsTyped, DoStep, Operating, Announcing, Fitting
    <2>2. DeviceTyped'
      BY <1>b, <1>1, TailOf, SizesExist DEF DeviceTyped, DoStep, Operating, Announcing, Fitting
    <2>3. ProgramTyped'
      BY <1>b, <1>1, TailOf, SizesExist DEF ProgramTyped, DoStep, Operating, Announcing, Fitting
    <2>4. ServerTyped' /\ FramesTyped'
      BY <1>b, <1>1, TailOf, SizesExist, CameraAssumption
      DEF ServerTyped, FramesTyped, DoStep, Operating, Announcing, Fitting
    <2> QED
      BY <2>1, <2>2, <2>3, <2>4
  <1>2. CASE EndProgram
    BY <1>b, <1>2, CameraAssumption
    DEF FlagsTyped, DeviceTyped, ProgramTyped, ServerTyped, FramesTyped, EndProgram,
       AfterProgram, Goto
  <1>3. CASE CheckShutDown
    BY <1>b, <1>3, CameraAssumption
    DEF FlagsTyped, DeviceTyped, ProgramTyped, ServerTyped, FramesTyped, CheckShutDown, Goto
  <1>4. CASE WaitTimesOut
    BY <1>b, <1>4, CameraAssumption
    DEF FlagsTyped, DeviceTyped, ProgramTyped, ServerTyped, FramesTyped, WaitTimesOut, Goto
  <1>5. CASE EnterLoop
    BY <1>b, <1>5, ProgramsTyped, <1>a, CameraAssumption
    DEF FlagsTyped, DeviceTyped, ProgramTyped, ServerTyped, FramesTyped, EnterLoop, Goto
  <1>6. CASE LoopTest
    BY <1>b, <1>6, ProgramsTyped, <1>a, CameraAssumption
    DEF FlagsTyped, DeviceTyped, ProgramTyped, ServerTyped, FramesTyped, LoopTest, Goto
  <1>7. CASE StopServer
    BY <1>b, <1>7, CameraAssumption
    DEF FlagsTyped, DeviceTyped, ProgramTyped, ServerTyped, FramesTyped, StopServer, Goto
  <1>8. CASE BeginClose
    BY <1>b, <1>8, ProgramsTyped, <1>a, CameraAssumption
    DEF FlagsTyped, DeviceTyped, ProgramTyped, ServerTyped, FramesTyped, BeginClose, Goto
  <1>9. CASE StepFails
    BY <1>b, <1>9, ProgramsTyped, <1>a, CameraAssumption
    DEF FlagsTyped, DeviceTyped, ProgramTyped, ServerTyped, FramesTyped, StepFails
  <1>10. CASE CaptureFails
    BY <1>b, <1>10, ProgramsTyped, <1>a, CameraAssumption
    DEF FlagsTyped, DeviceTyped, ProgramTyped, ServerTyped, FramesTyped, CaptureFails, Fails
  <1>11. CASE ShutDown
    BY <1>b, <1>11, CameraAssumption
    DEF FlagsTyped, DeviceTyped, ProgramTyped, ServerTyped, FramesTyped, ShutDown
  <1> QED
    BY <1>1, <1>2, <1>3, <1>4, <1>5, <1>6, <1>7, <1>8, <1>9, <1>10, <1>11
    DEF Main, Command, SetProperty

LEMMA TypeTakes ==
  ASSUME TypeOK, InHandInv, Takes
  PROVE  TypeOK' /\ InHandInv'
  <1>a. kind \in AllKinds
    BY CameraAssumption DEF TypeOK
  <1>b. FlagsTyped /\ DeviceTyped /\ ProgramTyped /\ ServerTyped /\ FramesTyped
    BY Typed
  <1> SUFFICES FlagsTyped' /\ DeviceTyped' /\ ProgramTyped' /\ ServerTyped' /\ FramesTyped'
    BY TypedNext
  <1> USE DEF flags, program, serving, frames, stream, camera, MainMoves
  <1>1. CASE BeginExposure
    BY <1>b, <1>1, CameraAssumption
    DEF FlagsTyped, DeviceTyped, ProgramTyped, ServerTyped, FramesTyped, BeginExposure
  <1>2. CASE Capture
    <2>1. FlagsTyped' /\ DeviceTyped'
      BY <1>b, <1>2, ProgramsTyped, <1>a DEF FlagsTyped, DeviceTyped, Capture, Fails, HandOver
    <2>2. ProgramTyped'
      BY <1>b, <1>2, ProgramsTyped, <1>a DEF ProgramTyped, Capture, Fails, HandOver
    <2>3. ServerTyped'
      BY <1>b, <1>2, ProgramsTyped, <1>a, CameraAssumption DEF ServerTyped, Capture, Fails, HandOver
    <2>4. FramesTyped'
      BY <1>b, <1>2, ProgramsTyped, <1>a, CameraAssumption DEF FramesTyped, Capture, Fails, HandOver
    <2> QED
      BY <2>1, <2>2, <2>3, <2>4
  <1>3. CASE Submit
    <2>1. FlagsTyped' /\ DeviceTyped'
      BY <1>b, <1>3 DEF FlagsTyped, DeviceTyped, Submit
    <2>2. ProgramTyped'
      BY <1>b, <1>3 DEF ProgramTyped, Submit
    <2>3. ServerTyped'
      BY <1>b, <1>3, CameraAssumption DEF ServerTyped, Submit
    <2>4. FramesTyped'
      BY <1>b, <1>3, CameraAssumption DEF FramesTyped, Submit
    <2> QED
      BY <2>1, <2>2, <2>3, <2>4
  <1>4. CASE Drop
    BY <1>b, <1>4, CameraAssumption
    DEF FlagsTyped, DeviceTyped, ProgramTyped, ServerTyped, FramesTyped, Drop
  <1>5. CASE TakeUnnumbered
    BY <1>b, <1>5, CameraAssumption
    DEF FlagsTyped, DeviceTyped, ProgramTyped, ServerTyped, FramesTyped, TakeUnnumbered
  <1>6. CASE CaptureTimesOut
    BY <1>b, <1>6, CameraAssumption
    DEF FlagsTyped, DeviceTyped, ProgramTyped, ServerTyped, FramesTyped, CaptureTimesOut
  <1>7. CASE HandleFrame
    <2>1. FramesTyped'
      <3>1. exposing \in 1 .. MaxExposures
        BY <1>b, <1>7, CameraAssumption DEF FramesTyped, HandleFrame
      <3>2. images' = images \/ images' = Append(images, exposing)
        BY <1>7 DEF HandleFrame
      <3>a. images \in Seq(1 .. MaxExposures)
        BY <1>b DEF FramesTyped
      <3>b. /\ Append(images, exposing) \in Seq(1 .. MaxExposures)
            /\ Len(Append(images, exposing)) = Len(images) + 1
        BY <3>1, <3>a
      <3>3. images' \in Seq(1 .. MaxExposures) /\ Len(images') \in {Len(images), Len(images) + 1}
        BY <3>a, <3>b, <3>2
      <3> QED
        BY <1>b, <1>7, <3>3 DEF FramesTyped, HandleFrame
    <2>2. FlagsTyped' /\ DeviceTyped' /\ ProgramTyped' /\ ServerTyped'
      BY <1>b, <1>7, CameraAssumption DEF FlagsTyped, DeviceTyped, ProgramTyped,
         ServerTyped, HandleFrame
    <2> QED
      BY <2>1, <2>2
  <1>8. CASE HandlerEndsLoop
    BY <1>b, <1>8, ProgramsTyped, <1>a, CameraAssumption
    DEF FlagsTyped, DeviceTyped, ProgramTyped, ServerTyped, FramesTyped, HandlerEndsLoop
  <1> QED
    BY <1>1, <1>2, <1>3, <1>4, <1>5, <1>6, <1>7, <1>8 DEF Takes, Command, SetProperty

LEMMA TypeServer ==
  ASSUME TypeOK, InHandInv, Server \/ Command \/ SetProperty \/ MonitorTemperature
  PROVE  TypeOK' /\ InHandInv'
  <1>a. kind \in AllKinds
    BY CameraAssumption DEF TypeOK
  <1>b. FlagsTyped /\ DeviceTyped /\ ProgramTyped /\ ServerTyped /\ FramesTyped
    BY Typed
  <1> SUFFICES FlagsTyped' /\ DeviceTyped' /\ ProgramTyped' /\ ServerTyped' /\ FramesTyped'
    BY TypedNext
  <1> USE DEF flags, program, serving, frames, stream, acquisition, ServerMoves, BeginRequest
  <1>1. CASE Look
    BY <1>b, <1>1, CameraAssumption
    DEF FlagsTyped, DeviceTyped, ProgramTyped, ServerTyped, FramesTyped, Look
  <1>2. CASE Await
    BY <1>b, <1>2, CameraAssumption
    DEF FlagsTyped, DeviceTyped, ProgramTyped, ServerTyped, FramesTyped, Await
  <1>3. CASE Write
    <2>1. DeviceTyped'
      <3>1. CASE refused'
        BY <1>b, <1>3, <3>1 DEF DeviceTyped, Write
      <3>2. CASE ~refused'
        BY <1>b, <1>3, <3>2 DEF DeviceTyped, ServerTyped, Write
      <3> QED
        BY <3>1, <3>2
    <2>2. FlagsTyped' /\ ProgramTyped'
      BY <1>b, <1>3 DEF FlagsTyped, ProgramTyped, Write, AfterWrite
    <2>3. ServerTyped'
      BY <1>b, <1>3, CameraAssumption DEF ServerTyped, Write, AfterWrite
    <2>4. FramesTyped'
      BY <1>b, <1>3, CameraAssumption DEF FramesTyped, Write, AfterWrite
    <2> QED
      BY <2>1, <2>2, <2>3, <2>4
  <1>4. CASE Restart
    BY <1>b, <1>4, CameraAssumption
    DEF FlagsTyped, DeviceTyped, ProgramTyped, ServerTyped, FramesTyped, Restart
  <1>5. CASE AwaitStart
    BY <1>b, <1>5, CameraAssumption
    DEF FlagsTyped, DeviceTyped, ProgramTyped, ServerTyped, FramesTyped, AwaitStart
  <1>6. CASE EndMeasurement
    BY <1>b, <1>6, CameraAssumption
    DEF FlagsTyped, DeviceTyped, ProgramTyped, ServerTyped, FramesTyped, EndMeasurement
  <1>7. CASE StartAcquisition
    <2>1. FlagsTyped' /\ DeviceTyped' /\ ProgramTyped'
      BY <1>b, <1>7 DEF FlagsTyped, DeviceTyped, ProgramTyped, StartAcquisition
    <2>2. ServerTyped'
      BY <1>b, <1>7, CameraAssumption DEF ServerTyped, StartAcquisition
    <2>3. FramesTyped'
      BY <1>b, <1>7, CameraAssumption DEF FramesTyped, StartAcquisition
    <2> QED
      BY <2>1, <2>2, <2>3
  <1>8. CASE EndAcquisition
    <2>1. FlagsTyped' /\ DeviceTyped' /\ ProgramTyped'
      BY <1>b, <1>8 DEF FlagsTyped, DeviceTyped, ProgramTyped, EndAcquisition
    <2>2. ServerTyped'
      BY <1>b, <1>8, CameraAssumption DEF ServerTyped, EndAcquisition
    <2>3. FramesTyped'
      BY <1>b, <1>8, CameraAssumption DEF FramesTyped, EndAcquisition
    <2> QED
      BY <2>1, <2>2, <2>3
  <1>9. CASE BeginMeasurement
    BY <1>b, <1>9, CameraAssumption
    DEF FlagsTyped, DeviceTyped, ProgramTyped, ServerTyped, FramesTyped, BeginMeasurement
  <1>10. ASSUME NEW size \in Sizes, Set(size)
        PROVE  FlagsTyped' /\ DeviceTyped' /\ ProgramTyped' /\ ServerTyped' /\ FramesTyped'
    <2>1. ServerTyped'
      <3>1. FirstOfSetter[kind] \in {"look", "write"}
        BY <1>10 DEF Set, FirstOfSetter, HamamatsuSets, DummySets, ZwoSets, FlirSets,
                    AlliedVisionSets, CameraSimSets
      <3>2. requests' \in 0 .. MaxRequests
        BY <1>b, <1>10, CameraAssumption DEF ServerTyped, Set
      <3>3. server' \in {"look", "write"} /\ newSize' \in Sizes /\ saw' = FALSE /\ refused' = FALSE
        BY <1>10, <3>1 DEF Set
      <3> QED
        BY <3>2, <3>3 DEF ServerTyped
    <2>2. FlagsTyped' /\ DeviceTyped' /\ ProgramTyped' /\ FramesTyped'
      BY <1>b, <1>10, CameraAssumption DEF FlagsTyped, DeviceTyped, ProgramTyped, FramesTyped, Set
    <2> QED
      BY <2>1, <2>2
  <1>11. CASE MonitorTemperature
    BY <1>b, <1>11, CameraAssumption
    DEF FlagsTyped, DeviceTyped, ProgramTyped, ServerTyped, FramesTyped, MonitorTemperature
  <1> QED
    BY <1>1, <1>2, <1>3, <1>4, <1>5, <1>6, <1>7, <1>8, <1>9, <1>10, <1>11
    DEF Server, Command, SetProperty

-----------------------------------------------------------------------------
(* The programs.                                                           *)

Quiet ==
  \/ ShutDown \/ Server \/ Command \/ SetProperty \/ MonitorTemperature \/ Ended

\* Neither the server nor the temperature thread moves the main thread.
LEMMA QuietMain ==
  ASSUME Quiet \/ HandleFrame
  PROVE  UNCHANGED <<kind, program>>
  BY DEF Quiet, ShutDown, Server, Command, SetProperty, MonitorTemperature, Ended, Look, Await,
         Write, Restart, AwaitStart, EndMeasurement, StartAcquisition, EndAcquisition,
         BeginMeasurement, Set, BeginRequest, ServerMoves, acquisition, flags, cameraVars,
         HandleFrame

LEMMA CameraSteps ==
  CameraNext <=>
    \/ Quiet
    \/ DoStep \/ EndProgram \/ CheckShutDown \/ WaitTimesOut \/ EnterLoop \/ LoopTest
    \/ StopServer \/ BeginClose \/ StepFails \/ CaptureFails
    \/ BeginExposure \/ Capture \/ Submit \/ Drop \/ TakeUnnumbered \/ CaptureTimesOut
    \/ HandleFrame \/ HandlerEndsLoop
  BY DEF CameraNext, Main, Takes, Quiet

LEMMA ProgramInit == Init => ProgramInv
  BY CameraAssumption, Openings DEF Init, ProgramInv

LEMMA ProgramStep ==
  ASSUME TypeOK, ProgramInv, CameraNext
  PROVE  ProgramInv'
  <1>a. kind \in AllKinds
    BY CameraAssumption DEF TypeOK
  <1> USE DEF ProgramInv, MainMoves, Goto, flags, program, camera
  <1>1. CASE DoStep
    <2>1. todo # <<>> /\ todo' = Tail(todo) /\ UNCHANGED <<kind, main>>
      BY <1>1 DEF DoStep
    <2>2. CASE main = "opening"
      <3>1. todo \in Seq({"open", "configure", "retract", "monitor"}) /\ AtEnd("monitor", todo)
        BY <2>2
      <3> QED
        BY <2>1, <2>2, <3>1, TailOf, TailEnd
    <2>3. CASE main = "entering"
      <3>1. todo \in Seq({"fit", "stream", "announce"}) /\ IsInjective(todo)
        BY <2>3
      <3>2. Tail(todo) \in Seq({"fit", "stream", "announce"}) /\ IsInjective(Tail(todo))
        BY <2>1, <3>1, TailOf, TailOnce
      <3>3. AtEnd("announce", todo) /\ EndsWith("announce", todo)
              => AtEnd("announce", Tail(todo)) /\ EndsWith("announce", Tail(todo))
        BY <2>1, <3>1, TailEnd
      <3> QED
        BY <2>1, <2>3, <3>2, <3>3
    <2>4. CASE main = "leaving"
      <3>1. todo \in Seq({"halt", "retract"})
        BY <2>4
      <3> QED
        BY <2>1, <2>4, <3>1, TailOf, TailEnd
    <2>5. CASE main = "closing"
      <3>1. todo \in Seq({"join", "release"})
        BY <2>5
      <3> QED
        BY <2>1, <2>5, <3>1, TailOf, TailEnd
    <2> QED
      BY <2>1, <2>2, <2>3, <2>4, <2>5
  <1>2. CASE EndProgram
    BY <1>2 DEF EndProgram, AfterProgram
  <1>3. CASE CheckShutDown \/ WaitTimesOut \/ StopServer
    BY <1>3 DEF CheckShutDown, WaitTimesOut, StopServer
  <1>4. CASE EnterLoop
    BY <1>4, <1>a, WaysIn DEF EnterLoop
  <1>5. CASE LoopTest
    BY <1>5, <1>a, WaysOut DEF LoopTest
  <1>6. CASE BeginClose
    BY <1>6, <1>a, Closings DEF BeginClose
  <1>7. CASE StepFails
    BY <1>7, <1>a, WaysOut DEF StepFails
  <1>8. CASE CaptureFails
    BY <1>8, <1>a, WaysOut DEF CaptureFails, Fails
  <1>9. CASE BeginExposure
    BY <1>9 DEF BeginExposure
  <1>10. CASE Capture
    BY <1>10, <1>a, WaysOut DEF Capture, Fails, TakesImages
  <1>11. CASE Submit \/ Drop \/ TakeUnnumbered \/ CaptureTimesOut
    BY <1>11 DEF Submit, Drop, TakeUnnumbered, CaptureTimesOut
  <1>12. CASE HandlerEndsLoop
    BY <1>12, <1>a, WaysOut DEF HandlerEndsLoop
  <1>13. CASE Quiet \/ HandleFrame
    BY <1>13, QuietMain
  <1> QED
    BY <1>1, <1>2, <1>3, <1>4, <1>5, <1>6, <1>7, <1>8, <1>9, <1>10, <1>11, <1>12, <1>13,
       CameraSteps

-----------------------------------------------------------------------------
(* The acquisition.                                                        *)

\* Neither the server nor the temperature thread stops or starts the camera.
LEMMA QuietDevice ==
  ASSUME Quiet \/ HandleFrame, TypeOK
  PROVE  UNCHANGED announced /\ device'.streaming = device.streaming /\ device'.open = device.open
  <1>1. CASE Write
    BY <1>1 DEF Write, TypeOK
  <1>2. CASE ~Write
    BY <1>2 DEF Quiet, ShutDown, Server, Command, SetProperty, MonitorTemperature, Ended, Look,
         Await, Restart, AwaitStart, EndMeasurement, StartAcquisition, EndAcquisition,
         BeginMeasurement, Set, BeginRequest, ServerMoves, acquisition, flags, cameraVars,
         HandleFrame
  <1> QED
    BY <1>1, <1>2

\* What one step of a program leaves to do.
LEMMA StepLeaves ==
  ASSUME TypeOK, DoStep
  PROVE  /\ todo # <<>> /\ UNCHANGED <<kind, main>>
         /\ \A s : s \in ToSet(todo) <=> s = Head(todo) \/ s \in ToSet(todo')
  <1>1. todo # <<>> /\ todo' = Tail(todo) /\ UNCHANGED <<kind, main>>
    BY DEF DoStep, flags
  <1> QED
    BY <1>1, TailSet DEF TypeOK

\* What one step does to the camera.
LEMMA StepDoes ==
  ASSUME TypeOK, DoStep
  PROVE  /\ announced' = IF Head(todo) = "announce" THEN "yes"
                         ELSE IF Head(todo) = "retract" THEN "no" ELSE announced
         /\ device'.streaming = IF Head(todo) = "stream" THEN TRUE
                                ELSE IF Head(todo) = "halt" THEN FALSE ELSE device.streaming
         /\ device'.open = IF Head(todo) = "open" THEN TRUE
                           ELSE IF Head(todo) = "release" THEN FALSE ELSE device.open
  BY DEF DoStep, Announcing, Operating, TypeOK

LEMMA AcquisitionInit == Init => AcquisitionInv
  <1> SUFFICES ASSUME Init PROVE AcquisitionInv
    OBVIOUS
  <1>1. main = "opening" /\ announced = "never" /\ ~device.streaming
    BY DEF Init
  <1> QED
    BY <1>1 DEF AcquisitionInv, Looping

LEMMA AcquisitionDoStep ==
  ASSUME TypeOK, ProgramInv, AcquisitionInv, DoStep
  PROVE  AcquisitionInv'
  <1>1. /\ todo # <<>> /\ UNCHANGED <<kind, main>> /\ todo' = Tail(todo)
        /\ \A s : s \in ToSet(todo) <=> s = Head(todo) \/ s \in ToSet(todo')
    BY StepLeaves DEF DoStep
  <1>2. main \in {"opening", "entering", "leaving", "closing"}
    BY <1>1 DEF ProgramInv
  <1>3. CASE main \in {"opening", "closing"}
    <2>1. Head(todo) \notin {"announce", "stream"}
      BY <1>1, <1>3, TailOf DEF ProgramInv
    <2> QED
      BY <1>1, <1>3, <2>1, StepDoes DEF AcquisitionInv, Looping, TypeOK
  <1>4. CASE main = "entering"
    <2>1. Head(todo) \in {"fit", "stream", "announce"} /\ Head(todo) \notin ToSet(todo')
      BY <1>1, <1>4, TailOf, TailOnce DEF ProgramInv
    <2>2. kind # "allied_vision" => (Head(todo) = "announce" <=> todo' = <<>>)
      BY <1>1, <1>4, TailEnd DEF ProgramInv
    <2> QED
      BY <1>1, <1>4, <2>1, <2>2, StepDoes DEF AcquisitionInv, Looping, TypeOK
  <1>5. CASE main = "leaving"
    <2>1. Head(todo) \in {"halt", "retract"}
      BY <1>1, <1>5, TailOf DEF ProgramInv
    <2> QED
      BY <1>1, <1>5, <2>1, StepDoes DEF AcquisitionInv, Looping, TypeOK
  <1> QED
    BY <1>2, <1>3, <1>4, <1>5

\* On the way out, what stops the camera and takes the announcement back is still to do.
LEMMA Leaves ==
  ASSUME TypeOK, AcquisitionInv, UNCHANGED <<kind, announced, device>>,
         main' = "leaving", todo' = Acquiring[kind].out
  PROVE  AcquisitionInv'
  <1>1. kind \in AllKinds
    BY CameraAssumption DEF TypeOK
  <1>2. "retract" \in ToSet(todo') /\ (kind \in Streams => "halt" \in ToSet(todo'))
    BY <1>1, WaysOut
  <1> QED
    BY <1>2 DEF AcquisitionInv, Looping

LEMMA AcquisitionStep ==
  ASSUME TypeOK, ProgramInv, AcquisitionInv, CameraNext
  PROVE  AcquisitionInv'
  <1>a. kind \in AllKinds
    BY CameraAssumption DEF TypeOK
  <1> USE DEF MainMoves, Goto, flags, program, camera
  <1>1. CASE DoStep
    BY <1>1, AcquisitionDoStep
  <1>2. CASE EndProgram
    BY <1>2 DEF EndProgram, AfterProgram, AcquisitionInv, Looping, ToSet
  <1>3. CASE CheckShutDown \/ WaitTimesOut \/ StopServer
    BY <1>3 DEF CheckShutDown, WaitTimesOut, StopServer, AcquisitionInv, Looping
  <1>4. CASE EnterLoop
    BY <1>4, <1>a, WaysIn DEF EnterLoop, AcquisitionInv, Looping
  <1>5. CASE LoopTest
    <2>1. CASE main' = "leaving"
      BY <1>5, <2>1, Leaves DEF LoopTest
    <2>2. CASE main' # "leaving"
      BY <1>5, <2>2 DEF LoopTest, AcquisitionInv, Looping
    <2> QED
      BY <2>1, <2>2
  <1>6. CASE BeginClose
    BY <1>6 DEF BeginClose, AcquisitionInv, Looping
  <1>7. CASE StepFails
    <2>1. CASE main' = "leaving"
      BY <1>7, <2>1, Leaves DEF StepFails
    <2>2. CASE main' # "leaving" /\ main = "entering"
      <3>1. Head(todo) \in ToSet(todo) /\ Head(todo) \in {"fit", "stream", "announce"}
        BY <1>7, <2>2, TailSet, TailOf DEF StepFails, ProgramInv, TypeOK
      <3>2. ~device.streaming /\ announced # "yes"
        BY <1>7, <2>2, <3>1 DEF StepFails, AcquisitionInv
      <3> QED
        BY <1>7, <2>2, <3>2 DEF StepFails, AcquisitionInv, Looping
    <2>3. CASE main = "opening"
      BY <1>7, <2>3 DEF StepFails, AcquisitionInv, Looping
    <2> QED
      BY <1>7, <2>1, <2>2, <2>3 DEF StepFails
  <1>8. CASE CaptureFails
    BY <1>8, Leaves DEF CaptureFails, Fails
  <1>9. CASE BeginExposure
    BY <1>9 DEF BeginExposure, AcquisitionInv, Looping
  <1>10. CASE Capture
    <2>1. CASE main' = "leaving"
      BY <1>10, <2>1, Leaves DEF Capture, Fails
    <2>2. CASE main' # "leaving"
      BY <1>10, <2>2 DEF Capture, Fails, AcquisitionInv, Looping
    <2> QED
      BY <2>1, <2>2
  <1>11. CASE Submit \/ Drop \/ TakeUnnumbered \/ CaptureTimesOut
    BY <1>11 DEF Submit, Drop, TakeUnnumbered, CaptureTimesOut, AcquisitionInv, Looping
  <1>12. CASE HandlerEndsLoop
    <2>1. CASE main' = "leaving" /\ todo' = Acquiring[kind].out
      BY <1>12, <2>1, Leaves DEF HandlerEndsLoop
    <2>2. CASE UNCHANGED <<main, todo>>
      BY <1>12, <2>2 DEF HandlerEndsLoop, AcquisitionInv, Looping
    <2> QED
      BY <1>12, <2>1, <2>2 DEF HandlerEndsLoop
  <1>13. CASE Quiet \/ HandleFrame
    BY <1>13, QuietMain, QuietDevice DEF AcquisitionInv
  <1> QED
    BY <1>1, <1>2, <1>3, <1>4, <1>5, <1>6, <1>7, <1>8, <1>9, <1>10, <1>11, <1>12, <1>13,
       CameraSteps

-----------------------------------------------------------------------------
(* The camera is open.                                                     *)

LEMMA OpenInit == Init => OpenInv
  <1> SUFFICES ASSUME Init PROVE OpenInv
    OBVIOUS
  <1>1. main = "opening" /\ monitor = "none" /\ server = "idle"
    BY DEF Init
  <1>2. device.open = ("open" \notin ToSet(todo))
    BY DEF Init
  <1>3. device.open \/ "open" \in ToSet(todo)
    BY <1>2
  <1> QED
    BY <1>1, <1>3 DEF OpenInv

LEMMA OpenDoStep ==
  ASSUME TypeOK, ProgramInv, OpenInv, DoStep
  PROVE  OpenInv'
  <1>1. /\ todo # <<>> /\ UNCHANGED <<kind, main, server>> /\ todo' = Tail(todo)
        /\ monitor' = IF Head(todo) = "monitor" THEN "check" ELSE monitor
        /\ Head(todo) = "join" => monitor = "ended"
        /\ \A s : s \in ToSet(todo) <=> s = Head(todo) \/ s \in ToSet(todo')
    BY StepLeaves DEF DoStep, serving
  <1>2. main \in {"opening", "entering", "leaving", "closing"}
    BY <1>1 DEF ProgramInv
  <1>3. CASE main = "opening"
    <2>1. Head(todo) \in {"open", "configure", "retract", "monitor"}
      BY <1>1, <1>3, TailOf DEF ProgramInv
    <2>2. Head(todo) = "monitor" => todo' = <<>>
      BY <1>1, <1>3, TailEnd DEF ProgramInv
    <2>3. todo' = <<>> => "open" \notin ToSet(todo')
      BY DEF ToSet
    <2> QED
      BY <1>1, <1>3, <2>1, <2>2, <2>3, StepDoes DEF OpenInv
  <1>4. CASE main \in {"entering", "leaving"}
    <2>1. Head(todo) \in {"fit", "stream", "announce", "halt", "retract"}
      BY <1>1, <1>4, TailOf DEF ProgramInv
    <2> QED
      BY <1>1, <1>4, <2>1, StepDoes DEF OpenInv
  <1>5. CASE main = "closing"
    <2>1. Head(todo) \in {"join", "release"}
      BY <1>1, <1>5, TailOf DEF ProgramInv
    <2>2. kind # "hamamatsu" /\ Head(todo) = "release" => todo' = <<>>
      BY <1>1, <1>5, TailEnd DEF ProgramInv
    <2>3. todo' = <<>> => "join" \notin ToSet(todo') /\ "release" \notin ToSet(todo')
      BY DEF ToSet
    <2> QED
      BY <1>1, <1>5, <2>1, <2>2, <2>3, StepDoes DEF OpenInv
  <1> QED
    BY <1>2, <1>3, <1>4, <1>5

\* The server thread begins requests while the service runs only.
LEMMA QuietOpen ==
  ASSUME TypeOK, Quiet \/ HandleFrame, OpenInv
  PROVE  /\ server' # "idle" => main \notin {"opening", "closing", "closed"}
         /\ monitor = "none" <=> monitor' = "none"
         /\ monitor = "ended" => monitor' = "ended"
  <1> USE DEF OpenInv, acquisition, flags, serving, ServerMoves, BeginRequest, Serving
  <1>1. CASE ShutDown \/ MonitorTemperature \/ Ended \/ HandleFrame
    BY <1>1 DEF ShutDown, MonitorTemperature, Ended, HandleFrame, cameraVars
  <1>2. CASE Server
    BY <1>2 DEF Server, Look, Await, Write, Restart, AwaitStart, EndMeasurement
  <1>3. CASE Command \/ SetProperty
    BY <1>3 DEF Command, SetProperty, StartAcquisition, EndAcquisition, BeginMeasurement, Set
  <1> QED
    BY <1>1, <1>2, <1>3 DEF Quiet

LEMMA OpenStep ==
  ASSUME TypeOK, ProgramInv, OpenInv, CameraNext
  PROVE  OpenInv'
  <1>a. kind \in AllKinds
    BY CameraAssumption DEF TypeOK
  <1> USE DEF MainMoves, Goto, flags, program, camera, serving
  <1>1. CASE DoStep
    BY <1>1, OpenDoStep
  <1>2. CASE EndProgram
    <2>1. \A s : s \notin ToSet(todo)
      BY <1>2 DEF EndProgram, ToSet
    <2> QED
      BY <1>2, <2>1 DEF EndProgram, AfterProgram, OpenInv
  <1>3. CASE CheckShutDown \/ WaitTimesOut \/ StopServer
    BY <1>3 DEF CheckShutDown, WaitTimesOut, StopServer, OpenInv
  <1>4. CASE EnterLoop
    BY <1>4 DEF EnterLoop, OpenInv
  <1>5. CASE LoopTest
    BY <1>5 DEF LoopTest, OpenInv
  <1>6. CASE BeginClose
    BY <1>6, <1>a, Closings DEF BeginClose, OpenInv
  <1>7. CASE StepFails
    <2>1. CASE main = "opening"
      <3>1. main' = "closed" /\ UNCHANGED <<kind, device, monitor, server>>
        BY <1>7, <2>1 DEF StepFails
      <3> QED
        BY <2>1, <3>1 DEF OpenInv
    <2>2. CASE main = "entering"
      <3>1. main' \in {"leaving", "ended"} /\ UNCHANGED <<device, server>>
        BY <1>7, <2>2 DEF StepFails
      <3> QED
        BY <2>2, <3>1 DEF OpenInv
    <2> QED
      BY <1>7, <2>1, <2>2 DEF StepFails
  <1>8. CASE CaptureFails
    BY <1>8 DEF CaptureFails, Fails, OpenInv
  <1>9. CASE BeginExposure
    BY <1>9 DEF BeginExposure, OpenInv
  <1>10. CASE Capture
    BY <1>10 DEF Capture, Fails, OpenInv, TakesImages
  <1>11. CASE Submit \/ Drop \/ TakeUnnumbered \/ CaptureTimesOut
    BY <1>11 DEF Submit, Drop, TakeUnnumbered, CaptureTimesOut, OpenInv
  <1>12. CASE HandlerEndsLoop
    BY <1>12 DEF HandlerEndsLoop, OpenInv
  <1>13. CASE Quiet \/ HandleFrame
    BY <1>13, QuietMain, QuietDevice, QuietOpen DEF OpenInv
  <1> QED
    BY <1>1, <1>2, <1>3, <1>4, <1>5, <1>6, <1>7, <1>8, <1>9, <1>10, <1>11, <1>12, <1>13,
       CameraSteps

-----------------------------------------------------------------------------
(* A setter, and the acquisition that it ends.                             *)

LEMMA SetterInit == Init => SetterInv
  BY DEF Init, SetterInv

\* The server thread is alone in what it does; the others leave it and wanted alone.
LEMMA OthersServe ==
  ASSUME CameraNext, ~Server, ~Command, ~SetProperty
  PROVE  UNCHANGED <<kind, server, saw, wanted>>
  BY DEF CameraNext, Main, Takes, DoStep, EndProgram, CheckShutDown, WaitTimesOut, EnterLoop,
         LoopTest, StopServer, BeginClose, StepFails, CaptureFails, Fails, ShutDown,
         BeginExposure, Capture, Submit, Drop, TakeUnnumbered, CaptureTimesOut, HandleFrame,
         HandlerEndsLoop, MonitorTemperature, Ended, Goto, flags, camera, serving, cameraVars

\* Without wanted, no program of the way into the loop begins.
LEMMA NoNewLoop ==
  ASSUME TypeOK, ProgramInv, CameraNext, ~wanted, main = "entering" => todo = <<>>
  PROVE  main' = "entering" => todo' = <<>>
  <1> USE DEF MainMoves, Goto, flags, program, camera
  <1>1. CASE DoStep
    BY <1>1, StepLeaves
  <1>2. CASE EndProgram
    BY <1>2 DEF EndProgram, AfterProgram
  <1>3. CASE CheckShutDown \/ WaitTimesOut \/ StopServer \/ EnterLoop \/ LoopTest \/ BeginClose
    BY <1>3 DEF CheckShutDown, WaitTimesOut, StopServer, EnterLoop, LoopTest, BeginClose
  <1>4. CASE StepFails \/ CaptureFails \/ Capture \/ HandlerEndsLoop
    BY <1>4 DEF StepFails, CaptureFails, Capture, HandlerEndsLoop, Fails
  <1>5. CASE BeginExposure \/ Submit \/ Drop \/ TakeUnnumbered \/ CaptureTimesOut
    BY <1>5 DEF BeginExposure, Submit, Drop, TakeUnnumbered, CaptureTimesOut
  <1>6. CASE Quiet \/ HandleFrame
    BY <1>6, QuietMain
  <1> QED
    BY <1>1, <1>2, <1>3, <1>4, <1>5, <1>6, CameraSteps

\* A camera does not start but by a step of that program.
LEMMA NoNewStream ==
  ASSUME TypeOK, ProgramInv, CameraNext, main = "entering" => todo = <<>>
  PROVE  /\ device'.streaming => device.streaming
         /\ announced' # announced => DoStep /\ main \in {"opening", "leaving", "closing"}
  <1>1. CASE DoStep
    <2>1. todo # <<>> /\ main \in {"opening", "leaving", "closing"}
      BY <1>1, StepLeaves DEF ProgramInv
    <2>2. Head(todo) # "stream"
      BY <2>1, TailOf DEF ProgramInv
    <2> QED
      BY <1>1, <2>1, <2>2, StepDoes
  <1>2. CASE Quiet \/ HandleFrame
    BY <1>2, QuietDevice
  <1>3. CASE ~DoStep /\ ~Quiet /\ ~HandleFrame
    <2>1. UNCHANGED <<device, announced>>
      BY <1>3, CameraSteps
      DEF EndProgram, CheckShutDown, WaitTimesOut, EnterLoop, LoopTest, StopServer, BeginClose,
          StepFails, CaptureFails, BeginExposure, Capture, Submit, Drop, TakeUnnumbered,
          CaptureTimesOut, HandlerEndsLoop, Goto, camera
    <2> QED
      BY <2>1
  <1> QED
    BY <1>1, <1>2, <1>3

\* Only when it has stopped does the camera say that it has.
LEMMA StoppedFirst ==
  ASSUME TypeOK, ProgramInv, AcquisitionInv', DoStep, main = "leaving",
         kind # "allied_vision", announced' # announced
  PROVE  ~device'.streaming
  <1>1. todo # <<>> /\ todo' = Tail(todo) /\ UNCHANGED <<kind, main>>
    BY StepLeaves DEF DoStep
  <1>2. Head(todo) = "retract"
    BY <1>1, TailOf, StepDoes DEF ProgramInv
  <1>3. todo' = <<>>
    BY <1>1, <1>2, TailEnd DEF ProgramInv
  <1>4. "halt" \notin ToSet(todo')
    BY <1>3 DEF ToSet
  <1> QED
    BY <1>1, <1>4 DEF AcquisitionInv

LEMMA SetterStep ==
  ASSUME TypeOK, ProgramInv, AcquisitionInv, OpenInv, SetterInv, CameraNext
  PROVE  SetterInv'
  <1>a. AcquisitionInv'
    BY AcquisitionStep
  <1>1. CASE ~Server /\ ~Command /\ ~SetProperty
    <2>1. UNCHANGED <<kind, server, saw, wanted>>
      BY <1>1, OthersServe
    <2>2. ASSUME server \in {"await", "write"}, saw, kind # "allied_vision"
          PROVE  /\ main' = "entering" => todo' = <<>>
                 /\ announced' = "yes" \/ ~device'.streaming
                 /\ server = "write" => ~device'.streaming
      <3>1. ~wanted /\ (main = "entering" => todo = <<>>)
        BY <2>2 DEF SetterInv
      <3>2. main \notin {"opening", "closing"}
        BY <2>2 DEF OpenInv
      <3>3. /\ main' = "entering" => todo' = <<>>
            /\ device'.streaming => device.streaming
            /\ announced' # announced => DoStep /\ main = "leaving"
        BY <3>1, <3>2, NoNewLoop, NoNewStream
      <3>4. announced' # announced => ~device'.streaming
        BY <1>a, <2>2, <3>3, StoppedFirst
      <3> QED
        BY <2>2, <3>3, <3>4 DEF SetterInv
    <2> QED
      BY <2>1, <2>2 DEF SetterInv
  <1>2. CASE Server \/ Command \/ SetProperty
    <2>1. Quiet
      BY <1>2 DEF Quiet
    <2>2. UNCHANGED <<kind, program, announced>> /\ device'.streaming = device.streaming
      BY <2>1, QuietMain, QuietDevice
    <2> USE DEF acquisition, flags, program, ServerMoves, BeginRequest, SetterInv
    <2>3. CASE Look
      <3>1. announced = "yes" /\ kind # "allied_vision" /\ main = "entering" => todo = <<>>
        BY DEF AcquisitionInv
      <3> QED
        BY <2>2, <2>3, <3>1 DEF Look, TypeOK
    <2>4. CASE Await
      BY <2>2, <2>4 DEF Await, TypeOK
    <2>5. CASE Write
      BY <2>2, <2>5 DEF Write, AfterWrite, TypeOK
    <2>6. CASE Restart \/ AwaitStart \/ EndMeasurement
      BY <2>2, <2>6 DEF Restart, AwaitStart, EndMeasurement
    <2>7. CASE Command
      BY <2>2, <2>7 DEF Command, StartAcquisition, EndAcquisition, BeginMeasurement
    <2>8. CASE SetProperty
      <3>1. PICK size \in Sizes : Set(size)
        BY <2>8 DEF SetProperty
      <3>2. kind \in DOMAIN FirstOfSetter /\ FirstOfSetter[kind] \in {"look", "write"}
        BY <3>1 DEF Set, FirstOfSetter, HamamatsuSets, DummySets, ZwoSets, FlirSets,
                    AlliedVisionSets, CameraSimSets
      <3>3. server' \in {"look", "write"} /\ saw' = FALSE
        BY <3>1, <3>2 DEF Set
      <3> QED
        BY <2>2, <3>2, <3>3
    <2> QED
      BY <1>2, <2>3, <2>4, <2>5, <2>6, <2>7, <2>8 DEF Server
  <1> QED
    BY <1>1, <1>2

-----------------------------------------------------------------------------
(* The theorems about the camera.                                          *)

LEMMA CameraStep == CameraInv /\ [CameraNext]_cameraVars => CameraInv'
  <1> SUFFICES ASSUME CameraInv, [CameraNext]_cameraVars PROVE CameraInv'
    OBVIOUS
  <1>1. CASE UNCHANGED cameraVars
    BY <1>1 DEF CameraInv, TypeOK, InHandInv, ProgramInv, AcquisitionInv, OpenInv, SetterInv,
                cameraVars, flags, program, serving, frames, stream
  <1>2. CASE CameraNext
    <2>1. TypeOK' /\ InHandInv'
      <3>1. CASE Ended
        BY <3>1 DEF Ended, CameraInv, TypeOK, InHandInv, cameraVars, flags, program, serving,
                    frames, stream
      <3> QED
        BY <1>2, <3>1, TypeMain, TypeTakes, TypeServer DEF CameraNext, CameraInv
    <2> QED
      BY <1>2, <2>1, ProgramStep, AcquisitionStep, OpenStep, SetterStep DEF CameraInv
  <1> QED
    BY <1>1, <1>2

LEMMA CameraCorrect == CameraSpec => []CameraInv
  <1>1. Init => CameraInv
    BY TypeInit, ProgramInit, AcquisitionInit, OpenInit, SetterInit DEF CameraInv
  <1> QED
    BY <1>1, CameraStep, PTL DEF CameraSpec

\* What a client does to the camera are requests to its server thread.
LEMMA ClientRequests == ProxyNext => [CameraNext]_cameraVars
  BY DEF ProxyNext, Client, LookAcquiring, RequestStart, ReadNewest, Get, Skip, RequestEnd,
         CameraNext, Command

LEMMA ProxyCamera == ProxySpec => CameraSpec
  <1>1. ProxyInit => Init
    BY DEF ProxyInit
  <1>2. [ProxyNext]_proxyVars => [CameraNext]_cameraVars
    BY ClientRequests DEF proxyVars, cameraVars
  <1> QED
    BY <1>1, <1>2, PTL DEF ProxySpec, CameraSpec

\* Every variable of the camera keeps its type.
THEOREM TypeCorrect == ProxySpec => []TypeOK
  <1>1. CameraInv => TypeOK
    BY DEF CameraInv
  <1> QED
    BY <1>1, CameraCorrect, ProxyCamera, PTL

\* However the acquisition ended (should_be_acquiring cleared, a shutdown, an exception of
\* the camera's library on the way into the loop or in it), the camera has stopped and
\* is_acquiring does not say 1 when the main thread is out of the loop.
THEOREM Stopped == ProxySpec => []StoppedAndSaysSo
  <1>1. CameraInv => StoppedAndSaysSo
    BY DEF CameraInv, AcquisitionInv, StoppedAndSaysSo, Looping
  <1> QED
    BY <1>1, CameraCorrect, ProxyCamera, PTL

\* The main, the server and the temperature thread use the camera between open and close
\* only, for every kind, whatever fails; but for the temperature thread of the hamamatsu,
\* which its close does not wait for.
THEOREM Open == ProxySpec => []UsedWhileOpen
  <1>1. CameraInv => UsedWhileOpen
    <2> SUFFICES ASSUME CameraInv PROVE UsedWhileOpen
      OBVIOUS
    <2>1. main \notin {"opening", "closing", "closed"} => device.open
      BY DEF CameraInv, OpenInv
    <2>2. server \in {"await", "write", "restart"} => device.open
      BY <2>1 DEF CameraInv, OpenInv
    <2>3. monitor = "read" /\ kind # "hamamatsu" => device.open
      BY <2>1 DEF CameraInv, OpenInv
    <2> QED
      BY <2>1, <2>2, <2>3 DEF UsedWhileOpen
  <1> QED
    BY <1>1, CameraCorrect, ProxyCamera, PTL

\* A setter of the size that stopped the acquisition writes to a camera that has stopped:
\* those of zwo and flir wait for is_acquiring to be 0, their loops halt the camera before
\* they say so, and no other acquisition begins before the setter is done.  The loop of
\* allied_vision says so first.
THEOREM Resized == ProxySpec => ResizedWhenStopped
  <1>1. ASSUME CameraInv, [CameraNext]_cameraVars, device.streaming,
               device'.size # device.size, kind # "allied_vision", saw
        PROVE  FALSE
    <2>1. CASE UNCHANGED cameraVars
      BY <1>1, <2>1 DEF cameraVars
    <2>2. CASE DoStep
      <3>1. todo # <<>> /\ main \in {"entering", "leaving"}
        BY <1>1, <2>2, StepLeaves
        DEF CameraInv, ProgramInv, AcquisitionInv, Looping
      <3>2. Head(todo) # "configure"
        BY <1>1, <3>1, TailOf DEF CameraInv, ProgramInv
      <3> QED
        BY <1>1, <2>2, <3>2 DEF DoStep, Operating, CameraInv, TypeOK
    <2>3. CASE Write
      BY <1>1, <2>3 DEF Write, CameraInv, SetterInv
    <2>4. CASE CameraNext /\ ~DoStep /\ ~Write
      <3>1. UNCHANGED device
        BY <2>4
        DEF CameraNext, Main, Takes, EndProgram, CheckShutDown, WaitTimesOut, EnterLoop,
            LoopTest, StopServer, BeginClose, StepFails, CaptureFails, ShutDown, BeginExposure,
            Capture, Submit, Drop, TakeUnnumbered, CaptureTimesOut, HandleFrame,
            HandlerEndsLoop, MonitorTemperature, Ended, Goto, camera, Server, Look, Await,
            Restart, AwaitStart, EndMeasurement, Command, StartAcquisition, EndAcquisition,
            BeginMeasurement, SetProperty, Set, cameraVars
      <3> QED
        BY <1>1, <3>1
    <2> QED
      BY <1>1, <2>1, <2>2, <2>3, <2>4
  <1>2. CameraInv /\ [CameraNext]_cameraVars =>
          (device.streaming /\ device'.size # device.size /\ kind # "allied_vision" => ~saw)
    BY <1>1
  <1> QED
    BY <1>2, CameraCorrect, ProxyCamera, PTL DEF CameraSpec, ResizedWhenStopped

\* A setter that took the acquisition away gives it back when it returns, unless the camera
\* refused the value, and zwo even then: nothing that runs in between clears
\* should_be_acquiring, and the branch of the setter that restarts is the one taken.
THEOREM Restored == ProxySpec => AcquisitionRestored
  <1>1. ASSUME CameraInv, [CameraNext]_cameraVars, server # "idle", server' = "idle", saw,
               refused' => kind = "zwo"
        PROVE  wanted'
    <2>1. CASE UNCHANGED cameraVars
      BY <1>1, <2>1 DEF cameraVars, serving
    <2>2. CASE ~Server /\ ~Command /\ ~SetProperty /\ CameraNext
      BY <1>1, <2>2, OthersServe
    <2>3. CASE Command \/ SetProperty
      BY <1>1, <2>3 DEF Command, SetProperty, StartAcquisition, EndAcquisition,
                        BeginMeasurement, Set, BeginRequest, ServerMoves
    <2> USE DEF ServerMoves, acquisition
    <2>4. CASE Look \/ Await
      BY <1>1, <2>4 DEF Look, Await, CameraInv, SetterInv
    <2>5. CASE Write
      BY <1>1, <2>5 DEF Write, AfterWrite, CameraInv, SetterInv
    <2>6. CASE Restart \/ AwaitStart
      BY <1>1, <2>6 DEF Restart, AwaitStart, CameraInv, SetterInv
    <2>7. CASE EndMeasurement
      <3>1. kind = "accufiz" /\ kind \in DOMAIN FirstOfSetter
        BY <1>1, <2>7 DEF EndMeasurement, CameraInv, SetterInv
      <3> QED
        BY <3>1 DEF FirstOfSetter
    <2> QED
      BY <1>1, <2>1, <2>2, <2>3, <2>4, <2>5, <2>6, <2>7 DEF Server
  <1>2. CameraInv /\ [CameraNext]_cameraVars =>
          (server # "idle" /\ server' = "idle" /\ saw /\ (refused' => kind = "zwo") => wanted')
    BY <1>1
  <1> QED
    BY <1>2, CameraCorrect, ProxyCamera, PTL DEF CameraSpec, AcquisitionRestored

-----------------------------------------------------------------------------
(* The exposures that a client is given.                                   *)

\* Of the exposures that had begun when the client called, those that are still to come:
\* the one that the main thread holds, and the one under way.
OldInHand   == inHand # 0 /\ inHand <= since
OldExposing == exposing # 0 /\ exposing <= since /\ (TakesImages => main = "save")
OldComing   == (IF OldInHand THEN 1 ELSE 0) + (IF OldExposing THEN 1 ELSE 0)

\* The place in images that they reach at most.
OldReach == first + IF was THEN 1 ELSE 2

\* No image of allied_vision goes through the main thread, and an image is taken before the
\* next exposure begins.
HandlerInv ==
  /\ kind = "allied_vision" => main \notin {"capture", "save", "submit"}
  /\ ~TakesImages /\ inHand # 0 /\ exposing # 0 => inHand < exposing

ClientTyped ==
  /\ client \in {"absent", "none", "start", "newest", "get", "done"}
  /\ was \in BOOLEAN /\ since \in Nat /\ first \in Nat /\ tried \in Nat
  /\ got \in Seq(Nat) /\ Len(got) <= tried

ClientInv ==
  /\ client \notin {"get", "done"} => got = <<>>
  /\ since <= exposures
  /\ client \in {"start", "newest"} /\ ~was => ~(OldInHand /\ OldExposing)
  /\ client \in {"get", "done"} =>
       /\ \A i \in DOMAIN images : images[i] <= since => i <= OldReach
       /\ OldComing > 0 => Len(images) + OldComing <= OldReach
  /\ \A k \in DOMAIN got :
       \E i \in DOMAIN images : i >= first + k /\ got[k] = images[i]

\* Of the requests only a measurement begins an exposure.
LEMMA QuietFrames ==
  ASSUME Quiet, ~BeginMeasurement
  PROVE  UNCHANGED frames
  BY DEF Quiet, ShutDown, Server, Command, SetProperty, MonitorTemperature, Ended, Look, Await,
         Write, Restart, AwaitStart, EndMeasurement, StartAcquisition, EndAcquisition, Set,
         acquisition, cameraVars

LEMMA HandlerStep ==
  ASSUME TypeOK, InHandInv, HandlerInv, CameraNext
  PROVE  HandlerInv'
  <1>a. inHand \in Nat /\ exposures \in Nat /\ inHand <= exposures /\ (inHand # 0 <=> main = "submit")
    BY CameraAssumption DEF TypeOK, InHandInv
  <1> USE DEF HandlerInv, MainMoves, Goto, flags, program, camera, frames, TakesImages
  <1>1. CASE DoStep
    BY <1>1 DEF DoStep
  <1>2. CASE EndProgram \/ CheckShutDown \/ WaitTimesOut \/ EnterLoop \/ LoopTest
    BY <1>2 DEF EndProgram, AfterProgram, CheckShutDown, WaitTimesOut, EnterLoop, LoopTest
  <1>3. CASE StopServer \/ BeginClose \/ StepFails \/ CaptureFails
    BY <1>3 DEF StopServer, BeginClose, StepFails, CaptureFails, Fails
  <1>4. CASE BeginExposure
    BY <1>a, <1>4 DEF BeginExposure
  <1>5. CASE Capture
    BY <1>5 DEF Capture, Fails, HandOver
  <1>6. CASE Submit \/ Drop \/ TakeUnnumbered \/ CaptureTimesOut \/ HandlerEndsLoop
    BY <1>6 DEF Submit, Drop, TakeUnnumbered, CaptureTimesOut, HandlerEndsLoop
  <1>7. CASE HandleFrame
    BY <1>7, QuietMain DEF HandleFrame
  <1>8. CASE BeginMeasurement
    BY <1>8 DEF BeginMeasurement, BeginRequest
  <1>9. CASE Quiet /\ ~BeginMeasurement
    <2>1. UNCHANGED <<kind, program>>
      BY <1>9, QuietMain
    <2>2. UNCHANGED frames
      BY <1>9, QuietFrames
    <2> QED
      BY <2>1, <2>2
  <1> QED
    BY <1>1, <1>2, <1>3, <1>4, <1>5, <1>6, <1>7, <1>8, <1>9, CameraSteps

\* What the camera does to the images is to submit one that comes.
Arrives ==
  /\ since <= exposures'
  /\ OldInHand' /\ OldExposing' => OldInHand /\ OldExposing
  /\ \/ images' = images /\ OldComing' <= OldComing
     \/ \E x \in Nat \ {0} :
          /\ images' = Append(images, x) /\ OldComing' <= OldComing
          /\ x <= since => OldComing' + 1 <= OldComing
          /\ x > since => OldComing' = 0

LEMMA Arrivals ==
  ASSUME TypeOK, InHandInv, HandlerInv, CameraNext, since \in Nat, since <= exposures,
         since' = since
  PROVE  Arrives
  <1>a. /\ exposures \in Nat /\ exposing \in Nat /\ inHand \in Nat
        /\ exposing <= exposures /\ inHand <= exposures
        /\ inHand # 0 <=> main = "submit"
    BY CameraAssumption DEF TypeOK, InHandInv
  <1> DEFINE Same == UNCHANGED <<images, inHand, exposures>>
  <1>b. ASSUME UNCHANGED images, exposures' \in Nat, exposures <= exposures',
               OldInHand' => OldInHand, OldExposing' => OldExposing
        PROVE  Arrives
    BY <1>a, <1>b DEF Arrives, OldComing
  <1> USE DEF MainMoves, Goto, flags, program, camera, frames, TakesImages
  <1>1. CASE DoStep
    <2>1. /\ UNCHANGED <<kind, main, images, inHand, exposures>>
          /\ exposing' = exposing \/ exposing' = 0
      BY <1>1 DEF DoStep
    <2> QED
      BY <1>a, <1>b, <2>1 DEF OldInHand, OldExposing
  <1>2. CASE EndProgram \/ CheckShutDown \/ WaitTimesOut \/ EnterLoop \/ LoopTest \/ StopServer
    <2>1. UNCHANGED <<kind, frames>> /\ main' # "save"
      BY <1>2 DEF EndProgram, AfterProgram, CheckShutDown, WaitTimesOut, EnterLoop, LoopTest,
                  StopServer
    <2> QED
      BY <1>a, <1>b, <2>1 DEF OldInHand, OldExposing
  <1>3. CASE BeginClose \/ StepFails \/ CaptureFails \/ TakeUnnumbered \/ CaptureTimesOut
    <2>1. UNCHANGED <<kind, frames>> /\ main' # "save"
      BY <1>3 DEF BeginClose, StepFails, CaptureFails, Fails, TakeUnnumbered, CaptureTimesOut
    <2> QED
      BY <1>a, <1>b, <2>1 DEF OldInHand, OldExposing
  <1>4. CASE BeginExposure
    <2>1. /\ UNCHANGED <<images, inHand>> /\ exposures' = exposures + 1
          /\ exposing' = exposures + 1
      BY <1>4 DEF BeginExposure
    <2> QED
      BY <1>a, <1>b, <2>1 DEF OldInHand, OldExposing
  <1>5. CASE Capture
    BY <1>a, <1>5 DEF Capture, Fails, HandOver, Arrives, OldComing, OldInHand, OldExposing
  <1>6. CASE Submit
    <2>1. /\ images' = Append(images, inHand) /\ inHand # 0 /\ inHand' = 0 /\ main' = "loop"
          /\ UNCHANGED <<kind, exposing, exposures>>
      BY <1>a, <1>6 DEF Submit
    <2>2. OldExposing' => OldExposing
      BY <2>1 DEF OldExposing
    <2>3. ~OldInHand' /\ (inHand <= since => OldInHand)
      BY <2>1 DEF OldInHand
    <2>5. inHand > since => ~OldExposing'
      BY <1>a, <2>1 DEF OldExposing, HandlerInv
    <2>4. /\ OldComing' <= OldComing /\ (inHand <= since => OldComing' + 1 <= OldComing)
          /\ inHand > since => OldComing' = 0
      BY <2>2, <2>3, <2>5 DEF OldComing
    <2> QED
      BY <1>a, <2>1, <2>3, <2>4 DEF Arrives
  <1>7. CASE Drop
    <2>1. UNCHANGED <<kind, images, exposing, exposures>> /\ inHand' = 0 /\ main' = "loop"
      BY <1>7 DEF Drop
    <2> QED
      BY <1>a, <1>b, <2>1 DEF OldInHand, OldExposing
  <1>8. CASE HandleFrame
    <2>1. /\ exposing # 0 /\ exposing' = 0 /\ kind = "allied_vision"
          /\ UNCHANGED <<kind, main, inHand, exposures>>
          /\ images' = images \/ images' = Append(images, exposing)
      BY <1>8 DEF HandleFrame
    <2>2. ~OldInHand' /\ ~OldInHand /\ ~OldExposing' /\ (exposing <= since => OldExposing)
      BY <1>a, <2>1 DEF OldInHand, OldExposing, HandlerInv
    <2>3. /\ OldComing' <= OldComing /\ (exposing <= since => OldComing' + 1 <= OldComing)
          /\ OldComing' = 0
      BY <2>2 DEF OldComing
    <2> QED
      BY <1>a, <2>1, <2>2, <2>3 DEF Arrives
  <1>9. CASE HandlerEndsLoop
    <2>1. UNCHANGED <<kind, images, inHand, exposures>> /\ exposing' = 0
      BY <1>9 DEF HandlerEndsLoop
    <2> QED
      BY <1>a, <1>b, <2>1 DEF OldInHand, OldExposing
  <1>10. CASE BeginMeasurement
    <2>1. /\ UNCHANGED <<images, inHand>> /\ exposures' = exposures + 1
          /\ exposing' = exposures + 1
      BY <1>10 DEF BeginMeasurement
    <2> QED
      BY <1>a, <1>b, <2>1 DEF OldInHand, OldExposing
  <1>11. CASE Quiet /\ ~BeginMeasurement
    <2>1. UNCHANGED <<kind, program>>
      BY <1>11, QuietMain
    <2>2. UNCHANGED frames
      BY <1>11, QuietFrames
    <2> QED
      BY <1>a, <1>b, <2>1, <2>2 DEF OldInHand, OldExposing
  <1> QED
    BY <1>1, <1>2, <1>3, <1>4, <1>5, <1>6, <1>7, <1>8, <1>9, <1>10, <1>11, CameraSteps

\* Images are submitted at the end: those that a client was given stay where they are, and
\* an old one is no further than those to come were allowed to reach.
LEMMA ClientKeeps ==
  ASSUME TypeOK, TypeOK', ClientTyped, ClientInv, Arrives, UNCHANGED clientVars
  PROVE  ClientInv'
  <1>a. /\ images \in Seq(Nat) /\ Len(images) \in Nat /\ DOMAIN images = 1 .. Len(images)
        /\ since \in Nat /\ first \in Nat /\ OldReach \in Nat
    <2>1. images \in Seq(1 .. MaxExposures) /\ 1 .. MaxExposures \subseteq Nat
      BY DEF TypeOK
    <2>2. \A S, T : S \subseteq T => Seq(S) \subseteq Seq(T)
      BY SMT
    <2>3. images \in Seq(Nat)
      BY <2>1, <2>2
    <2> QED
      BY <2>3 DEF ClientTyped, OldReach
  <1>b. OldComing \in 0 .. 2 /\ OldComing' \in 0 .. 2
    BY DEF OldComing
  <1>e. \A m, n \in 0 .. 2 : m + 1 <= n => n > 0
    OBVIOUS
  <1>f. \A m, n \in 0 .. 2, l, r \in Nat : m + 1 <= n /\ l + n <= r => (l + 1) + m <= r
    OBVIOUS
  <1>c. UNCHANGED <<client, was, since, first, tried, got, OldReach>>
    BY DEF clientVars, OldReach
  <1>d. client \in {"get", "done"} => (OldComing > 0 => Len(images) + OldComing <= OldReach)
    BY DEF ClientInv
  <1>1. CASE images' = images /\ OldComing' <= OldComing
    <2>1. client \in {"get", "done"} => (OldComing' > 0 => Len(images) + OldComing' <= OldReach)
      BY <1>a, <1>b, <1>d, <1>1
    <2> QED
      BY <1>c, <1>1, <2>1 DEF ClientInv, Arrives
  <1>2. ASSUME NEW x \in Nat \ {0}, images' = Append(images, x), OldComing' <= OldComing,
               x <= since => OldComing' + 1 <= OldComing, x > since => OldComing' = 0
        PROVE  ClientInv'
    <2>1. /\ DOMAIN images' = 1 .. Len(images) + 1 /\ Len(images') = Len(images) + 1
          /\ images'[Len(images) + 1] = x
          /\ \A i \in 1 .. Len(images) : images'[i] = images[i]
      BY <1>a, <1>2
    <2>2. ASSUME client \in {"get", "done"}, NEW i \in DOMAIN images', images'[i] <= since
          PROVE  i <= OldReach
      <3>1. CASE i \in 1 .. Len(images)
        BY <1>a, <2>1, <2>2, <3>1 DEF ClientInv
      <3>2. CASE i = Len(images) + 1
        <4>1. OldComing' + 1 <= OldComing
          BY <1>2, <2>1, <2>2, <3>2
        <4>2. OldComing > 0
          BY <1>b, <1>e, <4>1
        <4>3. Len(images) + OldComing <= OldReach
          BY <1>d, <2>2, <4>2
        <4> QED
          BY <1>a, <1>b, <3>2, <4>2, <4>3
      <3> QED
        BY <1>a, <2>1, <3>1, <3>2
    <2>3. ASSUME client \in {"get", "done"}, OldComing' > 0
          PROVE  Len(images') + OldComing' <= OldReach
      <3>1. OldComing' + 1 <= OldComing
        <4>1. ~(x > since)
          BY <1>2, <2>3
        <4>2. x <= since
          BY <1>a, <1>2, <4>1
        <4> QED
          BY <1>2, <4>2
      <3>2. OldComing > 0
        BY <1>b, <1>e, <3>1
      <3>3. Len(images) + OldComing <= OldReach
        BY <1>d, <2>3, <3>2
      <3> QED
        BY <1>a, <1>b, <1>f, <2>1, <3>1, <3>3
    <2>4. ASSUME NEW k \in DOMAIN got
          PROVE  \E i \in DOMAIN images' : i >= first + k /\ got[k] = images'[i]
      <3>1. PICK i \in DOMAIN images : i >= first + k /\ got[k] = images[i]
        BY <2>4 DEF ClientInv
      <3> QED
        BY <1>a, <2>1, <3>1
    <2> QED
      BY <1>c, <2>2, <2>3, <2>4 DEF ClientInv, Arrives
  <1> QED
    BY <1>1, <1>2 DEF Arrives

\* What a client finds of the camera when it calls, or when it takes an image, does not
\* change what the others do: here are the steps of the client.
LEMMA ClientSteps ==
  ASSUME TypeOK, InHandInv, AcquisitionInv, HandlerInv, ClientTyped, ClientInv, Client
  PROVE  ClientInv' /\ HandlerInv'
  <1>a. /\ images \in Seq(Nat) /\ Len(images) \in Nat /\ DOMAIN images = 1 .. Len(images)
        /\ (images = <<>> <=> Len(images) = 0)
        /\ exposures \in Nat /\ since \in Nat /\ first \in Nat /\ tried \in Nat
    <2>1. images \in Seq(1 .. MaxExposures) /\ 1 .. MaxExposures \subseteq Nat
      BY DEF TypeOK
    <2>2. \A S, T : S \subseteq T => Seq(S) \subseteq Seq(T)
      BY SMT
    <2>3. images \in Seq(Nat)
      BY <2>1, <2>2
    <2>4. images = <<>> <=> Len(images) = 0
      BY <2>3
    <2> QED
      BY <2>3, <2>4, CameraAssumption DEF ClientTyped, TypeOK
  <1>b. OldComing \in 0 .. 2 /\ OldComing' \in 0 .. 2
    BY DEF OldComing
  <1>c. UNCHANGED <<kind, main, frames>>
    BY DEF Client, LookAcquiring, RequestStart, ReadNewest, Get, Skip, RequestEnd,
           StartAcquisition, EndAcquisition, acquisition, flags, program, cameraVars
  <1>d. HandlerInv'
    BY <1>c DEF HandlerInv, frames, TakesImages
  <1> SUFFICES ClientInv'
    BY <1>d
  <1>e. UNCHANGED since =>
          OldComing' = OldComing /\ (OldInHand' <=> OldInHand) /\ (OldExposing' <=> OldExposing)
    BY <1>c DEF OldInHand, OldExposing, OldComing, frames, TakesImages
  <1> USE DEF ClientMoves
  <1>1. CASE LookAcquiring
    <2>1. client = "none" /\ client' \in {"start", "newest"} /\ since' = exposures
          /\ UNCHANGED got /\ (~was' => announced # "yes")
      BY <1>1 DEF LookAcquiring
    <2>2. OldInHand' => announced = "yes"
      BY <1>c DEF OldInHand, InHandInv, TypeOK, HandlerInv, AcquisitionInv, Looping, frames
    <2> QED
      BY <1>a, <1>c, <2>1, <2>2 DEF ClientInv, frames
  <1>2. CASE RequestStart
    <2>1. client = "start" /\ client' = "newest" /\ UNCHANGED <<was, since, first, got>>
      BY <1>2 DEF RequestStart
    <2> QED
      BY <1>c, <1>e, <2>1 DEF ClientInv, frames
  <1>3. CASE ReadNewest
    <2>1. /\ client = "newest" /\ client' = "get" /\ UNCHANGED <<was, since, got>>
          /\ first' = NewestAvailable + IF was THEN 2 ELSE 0
      BY <1>3 DEF ReadNewest
    <2>2. Len(images) <= NewestAvailable + 1 /\ NewestAvailable \in Nat
      BY <1>a DEF NewestAvailable
    <2>3. OldReach' = NewestAvailable + IF was THEN 3 ELSE 2
      BY <2>1, <2>2 DEF OldReach
    <2>4. ~was => OldComing <= 1
      BY <2>1 DEF ClientInv, OldComing
    <2>5. Len(images) + OldComing <= OldReach'
      BY <1>a, <1>b, <2>2, <2>3, <2>4
    <2>6. \A i \in DOMAIN images : i <= OldReach'
      BY <1>a, <2>2, <2>3
    <2>7. got = <<>> /\ since <= exposures
      BY <2>1 DEF ClientInv
    <2>8. UNCHANGED <<images, exposures>> /\ OldComing' = OldComing
      BY <1>c, <1>e, <2>1 DEF frames
    <2> QED
      BY <2>1, <2>5, <2>6, <2>7, <2>8 DEF ClientInv
  <1>4. CASE Get
    <2>1. /\ client = "get" /\ UNCHANGED <<client, was, since, first, cameraVars>>
          /\ first + tried \in Nat /\ first + tried + 1 <= Len(images)
          /\ got' = Append(got, images[first + tried + 1])
      BY <1>4, <1>a DEF Get, Wanting, TypeOK
    <2>2. /\ DOMAIN got' = 1 .. Len(got) + 1 /\ got'[Len(got) + 1] = images[first + tried + 1]
          /\ \A k \in DOMAIN got : got'[k] = got[k]
          /\ DOMAIN got = 1 .. Len(got) /\ Len(got) \in Nat /\ Len(got) <= tried
      BY <1>a, <2>1 DEF ClientTyped
    <2>3. first + tried + 1 \in DOMAIN images /\ first + tried + 1 >= first + (Len(got) + 1)
      BY <1>a, <2>1, <2>2
    <2>4. ASSUME NEW k \in DOMAIN got'
          PROVE  \E i \in DOMAIN images : i >= first + k /\ got'[k] = images[i]
      <3>1. CASE k \in DOMAIN got
        BY <2>2, <3>1 DEF ClientInv
      <3>2. CASE k = Len(got) + 1
        BY <2>2, <2>3, <3>2
      <3> QED
        BY <2>2, <3>1, <3>2
    <2>5. UNCHANGED <<images, exposures, OldReach>> /\ OldComing' = OldComing
      BY <1>c, <1>e, <2>1 DEF frames, OldReach
    <2> QED
      BY <2>1, <2>4, <2>5 DEF ClientInv
  <1>5. CASE Skip \/ RequestEnd
    <2>1. /\ client = "get" /\ client' \in {"get", "done"}
          /\ UNCHANGED <<was, since, first, got>>
      BY <1>5 DEF Skip, Wanting, RequestEnd
    <2> QED
      BY <1>c, <1>e, <2>1 DEF ClientInv, frames, OldReach
  <1> QED
    BY <1>1, <1>2, <1>3, <1>4, <1>5 DEF Client

\* Images are numbered, and so are the exposures that are taken from them.
LEMMA ClientTypes ==
  ASSUME TypeOK, ClientTyped, [ProxyNext]_proxyVars
  PROVE  ClientTyped'
  <1>1. CASE UNCHANGED clientVars
    BY <1>1 DEF ClientTyped, clientVars
  <1>a. images \in Seq(1 .. MaxExposures) /\ exposures \in Nat
    BY CameraAssumption DEF TypeOK
  <1> USE DEF ClientMoves, ClientTyped
  <1>2. CASE LookAcquiring
    <2>1. was' \in BOOLEAN
      BY <1>2 DEF LookAcquiring
    <2> QED
      BY <1>2, <1>a, <2>1 DEF LookAcquiring
  <1>3. CASE RequestStart \/ RequestEnd
    BY <1>3 DEF RequestStart, RequestEnd
  <1>4. CASE ReadNewest
    <2>1. NewestAvailable \in Nat
      BY <1>a DEF NewestAvailable
    <2> QED
      BY <1>4, <2>1 DEF ReadNewest
  <1>5. CASE Get
    <2>1. /\ first + tried + 1 \in 1 .. Len(images) /\ tried' = tried + 1
          /\ got' = Append(got, images[first + tried + 1])
          /\ UNCHANGED <<client, was, since, first>>
      BY <1>5, <1>a DEF Get, Wanting, TypeOK
    <2>2. images[first + tried + 1] \in Nat
      <3>1. images[first + tried + 1] \in 1 .. MaxExposures
        BY <1>a, <2>1, ElementOfSeq
      <3> QED
        BY <3>1
    <2>3. got' \in Seq(Nat) /\ Len(got') = Len(got) + 1
      BY <2>1, <2>2
    <2> QED
      BY <2>1, <2>3
  <1>6. CASE Skip
    BY <1>6 DEF Skip
  <1> QED
    BY <1>1, <1>2, <1>3, <1>4, <1>5, <1>6 DEF ProxyNext, Client, proxyVars, clientVars

ProxyInv == CameraInv /\ HandlerInv /\ ClientTyped /\ ClientInv

LEMMA ProxyStep ==
  ASSUME ProxyInv, [ProxyNext]_proxyVars
  PROVE  ProxyInv'
  <1>1. CameraInv'
    BY CameraStep, ClientRequests DEF ProxyInv, proxyVars, cameraVars
  <1>2. ClientTyped'
    BY ClientTypes DEF ProxyInv, CameraInv
  <1>3. CASE UNCHANGED proxyVars
    BY <1>1, <1>2, <1>3
    DEF ProxyInv, HandlerInv, ClientInv, OldReach, OldComing, OldInHand, OldExposing,
        TakesImages, proxyVars, clientVars, cameraVars, flags, program, frames
  <1>4. CASE CameraNext /\ UNCHANGED clientVars
    <2>1. HandlerInv'
      BY <1>4, HandlerStep DEF ProxyInv, CameraInv
    <2>2. Arrives
      BY <1>4, Arrivals DEF ProxyInv, CameraInv, ClientTyped, ClientInv, clientVars
    <2>3. ClientInv'
      BY <1>1, <1>4, <2>2, ClientKeeps DEF ProxyInv, CameraInv
    <2> QED
      BY <1>1, <1>2, <2>1, <2>3 DEF ProxyInv
  <1>5. CASE Client
    BY <1>1, <1>2, <1>5, ClientSteps DEF ProxyInv, CameraInv
  <1> QED
    BY <1>3, <1>4, <1>5 DEF ProxyNext

LEMMA ProxyCorrect == ProxySpec => []ProxyInv
  <1>1. ProxyInit => CameraInv
    BY TypeInit, ProgramInit, AcquisitionInit, OpenInit, SetterInit
    DEF CameraInv, ProxyInit
  <1>2. ProxyInit => HandlerInv /\ ClientTyped /\ ClientInv
    <2> SUFFICES ASSUME ProxyInit PROVE HandlerInv /\ ClientTyped /\ ClientInv
      OBVIOUS
    <2>1. main = "opening" /\ inHand = 0 /\ exposures = 0 /\ images = <<>>
      BY DEF ProxyInit, Init
    <2>2. client \in {"absent", "none"} /\ was = FALSE /\ since = 0 /\ first = 0
          /\ tried = 0 /\ got = <<>>
      BY DEF ProxyInit
    <2>3. HandlerInv
      BY <2>1 DEF HandlerInv
    <2>4. ClientTyped
      <3>1. got \in Seq(Nat) /\ Len(got) = 0
        BY <2>2
      <3>2. was \in BOOLEAN /\ client \in {"absent", "none"}
        BY <2>2
      <3>3. since \in Nat /\ first \in Nat /\ tried \in Nat /\ Len(got) <= tried
        BY <2>2, <3>1
      <3> QED
        BY <3>1, <3>2, <3>3 DEF ClientTyped
    <2>5. ClientInv
      BY <2>1, <2>2 DEF ClientInv
    <2> QED
      BY <2>3, <2>4, <2>5
  <1> QED
    BY <1>1, <1>2, ProxyStep, PTL DEF ProxySpec, ProxyInv

\* take_raw_exposures gives its caller at most one exposure that had begun before the call,
\* the first; or the first two, if the camera was not acquiring when it looked: at that
\* moment at most two such exposures are still to be submitted, and the client starts two
\* frames after the newest if it saw an acquisition.
THEOREM OnlyFirst == ProxySpec => []OnlyFirstIsOld
  <1>1. ASSUME ProxyInv, NEW k \in DOMAIN got, got[k] <= since
        PROVE  k = 1 \/ (k = 2 /\ ~was)
    <2>1. k \in Nat \ {0} /\ first \in Nat
      BY <1>1 DEF ProxyInv, ClientTyped
    <2>2. client \in {"get", "done"}
      BY <1>1 DEF ProxyInv, ClientInv
    <2>3. PICK i \in DOMAIN images : i >= first + k /\ got[k] = images[i]
      BY <1>1 DEF ProxyInv, ClientInv
    <2>4. i <= OldReach /\ i \in Nat
      BY <1>1, <2>2, <2>3 DEF ProxyInv, ClientInv, CameraInv, TypeOK
    <2> QED
      BY <2>1, <2>3, <2>4 DEF OldReach
  <1>2. ProxyInv => OnlyFirstIsOld
    BY <1>1 DEF OnlyFirstIsOld
  <1> QED
    BY <1>2, ProxyCorrect, PTL

-----------------------------------------------------------------------------
(* The types of the client.                                                *)

\* The images that are still to come: the one that the main thread holds, and the one under
\* way.  Each exposure is an image once at most.
Coming  == (IF inHand # 0 THEN 1 ELSE 0)
           + (IF exposing # 0 /\ (TakesImages => main = "save") THEN 1 ELSE 0)
Counted == Len(images) + Coming <= exposures

LEMMA CountedStep ==
  ASSUME TypeOK, InHandInv, Counted, CameraNext
  PROVE  Counted'
  <1>a. /\ exposures \in Nat /\ exposing \in Nat /\ inHand \in Nat
        /\ inHand # 0 <=> main = "submit"
        /\ images \in Seq(1 .. MaxExposures) /\ Len(images) \in Nat
    BY CameraAssumption DEF TypeOK, InHandInv
  <1>b. \A x : Len(Append(images, x)) = Len(images) + 1
    BY <1>a
  <1> USE DEF Counted, Coming, MainMoves, Goto, flags, program, camera, frames, TakesImages
  <1>1. CASE DoStep
    <2>1. /\ UNCHANGED <<kind, main, images, inHand, exposures>>
          /\ exposing' = exposing \/ exposing' = 0
      BY <1>1 DEF DoStep
    <2> QED
      BY <1>a, <2>1
  <1>2. CASE \/ EndProgram \/ CheckShutDown \/ WaitTimesOut \/ EnterLoop \/ LoopTest
             \/ StopServer \/ BeginClose \/ StepFails \/ CaptureFails \/ TakeUnnumbered
             \/ CaptureTimesOut
    <2>1. UNCHANGED <<kind, frames>> /\ main' # "save"
      BY <1>2 DEF EndProgram, AfterProgram, CheckShutDown, WaitTimesOut, EnterLoop, LoopTest,
                  StopServer, BeginClose, StepFails, CaptureFails, Fails, TakeUnnumbered,
                  CaptureTimesOut
    <2> QED
      BY <1>a, <2>1
  <1>3. CASE BeginExposure
    BY <1>a, <1>3 DEF BeginExposure
  <1>4. CASE Capture
    BY <1>a, <1>4 DEF Capture, Fails, HandOver
  <1>5. CASE Submit
    <2>1. /\ images' = Append(images, inHand) /\ inHand # 0 /\ inHand' = 0 /\ main' = "loop"
          /\ UNCHANGED <<kind, exposing, exposures>>
      BY <1>a, <1>5 DEF Submit
    <2> QED
      BY <1>a, <1>b, <2>1
  <1>6. CASE Drop
    BY <1>a, <1>6 DEF Drop
  <1>7. CASE HandleFrame
    <2>1. /\ exposing # 0 /\ exposing' = 0 /\ kind = "allied_vision"
          /\ UNCHANGED <<kind, main, inHand, exposures>>
          /\ images' = images \/ images' = Append(images, exposing)
      BY <1>7 DEF HandleFrame
    <2> QED
      BY <1>a, <1>b, <2>1
  <1>8. CASE HandlerEndsLoop
    BY <1>a, <1>8 DEF HandlerEndsLoop
  <1>9. CASE BeginMeasurement
    <2>1. /\ UNCHANGED <<kind, main, images, inHand>>
          /\ exposures' = exposures + 1 /\ exposing' = exposures + 1
      BY <1>9 DEF BeginMeasurement
    <2> QED
      BY <1>a, <2>1
  <1>10. CASE Quiet /\ ~BeginMeasurement
    <2>1. UNCHANGED <<kind, program, frames>>
      BY <1>10, QuietMain, QuietFrames
    <2> QED
      BY <1>a, <2>1
  <1> QED
    BY <1>1, <1>2, <1>3, <1>4, <1>5, <1>6, <1>7, <1>8, <1>9, <1>10, CameraSteps

Within ==
  /\ first <= MaxExposures + 1 /\ tried <= MaxTries /\ Len(got) <= NumExposures
  /\ got \in Seq(1 .. MaxExposures)

LEMMA WithinStep ==
  ASSUME MaxExposures # 0, TypeOK, Counted, ClientTyped, Within, [ProxyNext]_proxyVars
  PROVE  Within'
  <1>a. /\ images \in Seq(1 .. MaxExposures) /\ Len(images) \in Nat /\ MaxExposures \in Nat \ {0}
        /\ Len(images) <= MaxExposures
        /\ (images = <<>> <=> Len(images) = 0)
    <2>1. exposures <= MaxExposures /\ exposures \in Nat /\ MaxExposures \in Nat
          /\ images \in Seq(1 .. MaxExposures)
      BY CameraAssumption DEF TypeOK
    <2>2. Coming \in Nat
      BY DEF Coming
    <2> QED
      BY <2>1, <2>2 DEF Counted
  <1>1. CASE UNCHANGED clientVars
    BY <1>1 DEF Within, clientVars
  <1>2. CASE LookAcquiring \/ RequestStart \/ RequestEnd
    BY <1>2 DEF LookAcquiring, RequestStart, RequestEnd, Within
  <1>3. CASE ReadNewest
    <2>1. NewestAvailable \in 0 .. MaxExposures - 1
      BY <1>a DEF NewestAvailable
    <2> QED
      BY <1>a, <1>3, <2>1 DEF ReadNewest, Within
  <1>4. CASE Get
    <2>1. /\ first + tried + 1 \in 1 .. Len(images) /\ tried' = tried + 1 /\ tried < MaxTries
          /\ got' = Append(got, images[first + tried + 1]) /\ Len(got) < NumExposures
          /\ UNCHANGED first
      BY <1>4, <1>a DEF Get, Wanting, TypeOK, ClientTyped
    <2>2. images[first + tried + 1] \in 1 .. MaxExposures
      BY <1>a, <2>1, ElementOfSeq
    <2>3. got' \in Seq(1 .. MaxExposures) /\ Len(got') = Len(got) + 1 /\ Len(got) \in Nat
      BY <2>1, <2>2 DEF Within
    <2> QED
      BY <2>1, <2>3, ProxyAssumption DEF Within, ClientTyped
  <1>5. CASE Skip
    BY <1>5, ProxyAssumption DEF Skip, Wanting, Within, ClientTyped
  <1> QED
    BY <1>1, <1>2, <1>3, <1>4, <1>5 DEF ProxyNext, Client, proxyVars, clientVars

\* Every variable of the client keeps its type, next to those of the camera: it asks for ids
\* that a frame has or may get, and is given exposures that were made.
THEOREM ClientTypeCorrect ==
  ASSUME MaxExposures # 0
  PROVE  ProxySpec => []ProxyTypeOK
  <1>1. ProxyInit => Counted /\ Within
    <2> SUFFICES ASSUME ProxyInit PROVE Counted /\ Within
      OBVIOUS
    <2>1. images = <<>> /\ inHand = 0 /\ exposing = 0 /\ exposures = 0
      BY DEF ProxyInit, Init
    <2>2. first = 0 /\ tried = 0 /\ got = <<>>
      BY DEF ProxyInit
    <2> QED
      BY <2>1, <2>2, CameraAssumption, ProxyAssumption DEF Counted, Coming, Within
  <1>2. ProxyInv /\ Counted /\ Within /\ [ProxyNext]_proxyVars => Counted' /\ Within'
    <2> SUFFICES ASSUME ProxyInv, Counted, Within, [ProxyNext]_proxyVars
                 PROVE  Counted' /\ Within'
      OBVIOUS
    <2>1. CameraNext => Counted'
      BY CountedStep DEF ProxyInv, CameraInv
    <2>2. UNCHANGED cameraVars => Counted'
      BY DEF Counted, Coming, TakesImages, cameraVars, flags, program, frames
    <2>3. Within'
      BY WithinStep DEF ProxyInv, CameraInv
    <2> QED
      BY <2>1, <2>2, <2>3, ClientRequests DEF proxyVars
  <1>3. ProxyInv /\ Within => ProxyTypeOK
    <2> SUFFICES ASSUME ProxyInv, Within PROVE ProxyTypeOK
      OBVIOUS
    <2>1. TypeOK /\ ClientTyped /\ since <= exposures
      BY DEF ProxyInv, CameraInv, ClientInv
    <2>2. since \in 0 .. MaxExposures
      BY <2>1, CameraAssumption DEF TypeOK, ClientTyped
    <2>3. ToSet(got) \subseteq 1 .. MaxExposures
      <3>1. \A i \in DOMAIN got : got[i] \in 1 .. MaxExposures
        <4>1. got \in Seq(1 .. MaxExposures) /\ DOMAIN got = 1 .. Len(got)
          BY DEF Within
        <4> QED
          BY <4>1, ElementOfSeq
      <3> QED
        BY <3>1 DEF ToSet
    <2>4. first \in 0 .. MaxExposures + 1 /\ tried \in 0 .. MaxTries
      BY <2>1, CameraAssumption, ProxyAssumption DEF Within, ClientTyped
    <2> QED
      BY <2>1, <2>2, <2>3, <2>4 DEF ProxyTypeOK, ClientTyped, Within
  <1> QED
    BY <1>1, <1>2, <1>3, ProxyCorrect, PTL DEF ProxySpec
===============================================================================
