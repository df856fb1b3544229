------------------------------- MODULE RpcProofs -------------------------------
(***************************************************************************)
(* Proofs about Rpc, for any number of threads, clients and requests; and, *)
(* in the last sections, about ServiceProxy, the proxy that makes requests *)
(* of a service, for any number of launches and frames.                    *)
(***************************************************************************)
EXTENDS RpcRefinement, ServiceProxy, SequenceTheorems, TLAPS

-----------------------------------------------------------------------------
(* What becomes of a pool of sockets                                       *)

MaybeSocket == Sockets \cup {NoSocket}

\* The element that is taken is replaced by a null pointer, the others stay.
LEMMA TakenFromPool ==
  ASSUME NEW p \in Seq(MaybeSocket), p # <<>>,
         NEW q, q = [p EXCEPT ![Len(p)] = NoSocket]
  PROVE  /\ q \in Seq(MaybeSocket) /\ Len(q) = Len(p) /\ Len(p) \in 1 .. Len(p)
         /\ Last(p) = p[Len(p)] /\ p[Len(p)] \in MaybeSocket
         /\ \A i \in 1 .. Len(p) : q[i] = IF i = Len(p) THEN NoSocket ELSE p[i]
  <1>1. Len(p) \in Nat \ {0}
    BY EmptySeq
  <1>2. Len(p) \in 1 .. Len(p) /\ NoSocket \in MaybeSocket
    BY <1>1 DEF MaybeSocket
  <1> QED
    BY <1>2, ExceptSeq, ElementOfSeq DEF Last

\* What pop() leaves was there before, in the same place.
LEMMA PoppedPool ==
  ASSUME NEW p \in Seq(MaybeSocket)
  PROVE  /\ Front(p) \in Seq(MaybeSocket) /\ Len(Front(p)) \in Nat
         /\ \A i \in 1 .. Len(Front(p)) : i \in 1 .. Len(p) /\ Front(p)[i] = p[i]
  <1>1. Len(p) \in Nat
    BY LenProperties
  <1>2. \A i \in 1 .. Len(p) - 1 : p[i] \in MaybeSocket
    BY <1>1, ElementOfSeq
  <1> QED
    BY <1>1, <1>2, SubSeqProperties DEF Front

\* What emplace leaves was there before, in the same place, but for the socket it adds.
LEMMA ReleasedPool ==
  ASSUME NEW p \in Seq(MaybeSocket), NEW n \in Nat, NEW s \in MaybeSocket
  PROVE  LET q == Emplaced(p, n, s) IN
         /\ q \in Seq(MaybeSocket) /\ Len(q) = n + 1
         /\ \A i \in 1 .. n + 1 :
              q[i] = NoSocket \/ (i = n + 1 /\ q[i] = s) \/ (i # n + 1 /\ i \in 1 .. Len(p) /\ q[i] = p[i])
  <1> DEFINE q == Emplaced(p, n, s)
  <1>1. Len(p) \in Nat /\ \A i \in 1 .. Len(p) : p[i] \in MaybeSocket
    BY LenProperties, ElementOfSeq
  <1>2. \A i \in 1 .. n + 1 :
          /\ q[i] \in MaybeSocket
          /\ q[i] = NoSocket \/ (i = n + 1 /\ q[i] = s) \/ (i # n + 1 /\ i \in 1 .. Len(p) /\ q[i] = p[i])
    BY <1>1 DEF MaybeSocket, Emplaced
  <1>3. q \in [1 .. n + 1 -> MaybeSocket] /\ n + 1 \in Nat
    BY <1>2 DEF Emplaced
  <1>4. q \in Seq(MaybeSocket)
    BY <1>3, SMT
  <1>5. Len(q) = n + 1
    BY <1>3, <1>4, LenProperties, SMT
  <1> QED
    BY <1>2, <1>4, <1>5

-----------------------------------------------------------------------------
(* Exclusive use                                                           *)

\* What the pool's part of the type invariant says.
PoolType ==
  /\ pool \in [Clients -> Seq(MaybeSocket)]
  /\ hold \in [Threads -> MaybeSocket]
  /\ created \in 0 .. MaxSockets
  /\ size \in [Threads -> Nat]
  /\ pc \in [Threads -> HasSocket \cup {"idle"}]
  /\ \A t \in Threads : pc[t] = "idle" => hold[t] = NoSocket

\* A socket is in one place: with one thread, or once in one pool; those that are not
\* made yet are nowhere.
OnePlace ==
  /\ ExclusiveUse
  /\ \A t \in Threads, c \in Clients : \A i \in 1 .. Len(pool[c]) :
       pool[c][i] # NoSocket => hold[t] # pool[c][i]
  /\ \A c, d \in Clients : \A i \in 1 .. Len(pool[c]), j \in 1 .. Len(pool[d]) :
       pool[c][i] # NoSocket /\ pool[c][i] = pool[d][j] => c = d /\ i = j
  /\ \A t \in Threads : hold[t] <= created
  /\ \A c \in Clients : \A i \in 1 .. Len(pool[c]) : pool[c][i] <= created

PInv == PoolType /\ OnePlace

LEMMA PoolInit == Init => PInv
  <1> SUFFICES ASSUME Init PROVE PInv
    OBVIOUS
  <1>1. \A c \in Clients : pool[c] \in Seq(MaybeSocket) /\ Len(pool[c]) = 0
    BY EmptySeq DEF Init
  <1>2. PoolType
    BY <1>1, RpcAssumption DEF Init, PoolType, MaybeSocket, HasSocket
  <1> QED
    BY <1>1, <1>2, RpcAssumption DEF Init, PInv, OnePlace, ExclusiveUse, NoSocket

\* Where the pools and the sockets that threads have are the same.
LEMMA PoolSame ==
  ASSUME PInv, UNCHANGED <<pool, hold, created, size>>,
         pc' \in [Threads -> HasSocket \cup {"idle"}],
         \A t \in Threads : pc'[t] = "idle" => pc[t] = "idle"
  PROVE  PInv'
  BY DEF PInv, PoolType, OnePlace, ExclusiveUse

LEMMA PoolGetSocket ==
  ASSUME PInv, NEW t \in Threads, GetSocket(t)
  PROVE  PInv'
  <1> DEFINE c == ClientOf[t]
  <1>1. c \in Clients /\ pool[c] \in Seq(MaybeSocket)
    BY RpcAssumption DEF PInv, PoolType
  <1>2. \A d \in Clients : Len(pool[d]) \in Nat
    BY LenProperties DEF PInv, PoolType
  <1>3. CASE pool[c] = <<>> /\ NewSocket(t) /\ UNCHANGED pool
    <2>1. hold' = [hold EXCEPT ![t] = created + 1] /\ created' = created + 1 /\ created < MaxSockets
          /\ pc' = [pc EXCEPT ![t] = "send"] /\ size' = size
      BY <1>3 DEF NewSocket, ThreadMoves, GetSocket
    <2>2. PoolType'
      BY <1>3, <2>1, RpcAssumption DEF PInv, PoolType, MaybeSocket, Sockets, HasSocket, NoSocket
    <2>3. /\ hold'[t] = created + 1 /\ \A u \in Threads : u # t => hold'[u] = hold[u]
          /\ pool' = pool /\ created' = created + 1 /\ created \in Nat
      BY <1>3, <2>1 DEF PInv, PoolType
    <2>4. ExclusiveUse'
      BY <2>3 DEF PInv, PoolType, OnePlace, ExclusiveUse, MaybeSocket, Sockets, NoSocket
    <2>5. \A u \in Threads, d \in Clients : \A i \in 1 .. Len(pool[d]) :
            pool[d][i] # NoSocket => hold'[u] # pool[d][i]
      BY <2>3 DEF PInv, OnePlace
    <2>6. \A d \in Clients : \A i \in 1 .. Len(pool[d]) : pool[d][i] \in MaybeSocket
      BY ElementOfSeq DEF PInv, PoolType
    <2>7. /\ \A u \in Threads : hold'[u] <= created'
          /\ \A d \in Clients : \A i \in 1 .. Len(pool[d]) : pool[d][i] <= created'
      <3>1. \A u \in Threads : hold[u] \in Int /\ hold[u] <= created
        BY DEF PInv, PoolType, OnePlace, MaybeSocket, Sockets, NoSocket
      <3>2. \A d \in Clients : \A i \in 1 .. Len(pool[d]) : pool[d][i] \in Int /\ pool[d][i] <= created
        BY <2>6 DEF PInv, OnePlace, MaybeSocket, Sockets, NoSocket
      <3> QED
        BY <2>3, <3>1, <3>2
    <2>8. OnePlace'
      BY <2>3, <2>4, <2>5, <2>7 DEF PInv, OnePlace
    <2> QED
      BY <2>2, <2>8 DEF PInv
  <1>4. CASE /\ pool[c] # <<>> /\ Last(pool[c]) # NoSocket
             /\ hold' = [hold EXCEPT ![t] = Last(pool[c])]
             /\ pool' = [pool EXCEPT ![c][Len(pool[c])] = NoSocket]
             /\ ThreadMoves(t, "idle", "pop") /\ UNCHANGED created
    <2> DEFINE p == pool[c]
               q == [p EXCEPT ![Len(p)] = NoSocket]
    <2>1. /\ pool' = [pool EXCEPT ![c] = q] /\ created' = created /\ size' = size
          /\ pc' = [pc EXCEPT ![t] = "pop"] /\ hold[t] = NoSocket
      BY <1>4 DEF ThreadMoves, GetSocket, PInv, PoolType
    <2>2. /\ q \in Seq(MaybeSocket) /\ Len(q) = Len(p) /\ Len(p) \in 1 .. Len(p)
          /\ Last(p) = p[Len(p)] /\ p[Len(p)] \in MaybeSocket
          /\ \A i \in 1 .. Len(p) : q[i] = IF i = Len(p) THEN NoSocket ELSE p[i]
      BY <1>1, <1>4, TakenFromPool
    <2> HIDE DEF q
    <2>3. /\ pool'[c] = q /\ \A d \in Clients : d # c => pool'[d] = pool[d]
          /\ hold'[t] = p[Len(p)] /\ \A u \in Threads : u # t => hold'[u] = hold[u]
      BY <1>1, <1>4, <2>1, <2>2 DEF PInv, PoolType
    <2>4. PoolType'
      BY <1>1, <1>4, <2>1, <2>2 DEF PInv, PoolType, HasSocket
    <2>5. ExclusiveUse'
      BY <1>1, <2>2, <2>3 DEF PInv, PoolType, OnePlace, ExclusiveUse
    <2>6. \A u \in Threads, d \in Clients : \A i \in 1 .. Len(pool'[d]) :
            pool'[d][i] # NoSocket => hold'[u] # pool'[d][i]
      BY <1>1, <1>2, <1>4, <2>2, <2>3 DEF PInv, PoolType, OnePlace
    <2>7. \A d, e \in Clients : \A i \in 1 .. Len(pool'[d]), j \in 1 .. Len(pool'[e]) :
            pool'[d][i] # NoSocket /\ pool'[d][i] = pool'[e][j] => d = e /\ i = j
      <3>1. \A d \in Clients : \A i \in 1 .. Len(pool'[d]) :
              i \in 1 .. Len(pool[d]) /\ (pool'[d][i] = NoSocket \/ pool'[d][i] = pool[d][i])
        BY <2>2, <2>3
      <3>2. \A d, e \in Clients : \A i \in 1 .. Len(pool[d]), j \in 1 .. Len(pool[e]) :
              pool[d][i] # NoSocket /\ pool[d][i] = pool[e][j] => d = e /\ i = j
        BY DEF PInv, OnePlace
      <3> HIDE DEF p, c
      <3> SUFFICES ASSUME NEW d \in Clients, NEW e \in Clients,
                          NEW i \in 1 .. Len(pool'[d]), NEW j \in 1 .. Len(pool'[e]),
                          pool'[d][i] # NoSocket, pool'[d][i] = pool'[e][j]
                   PROVE  d = e /\ i = j
        OBVIOUS
      <3>3. i \in 1 .. Len(pool[d]) /\ pool'[d][i] = pool[d][i]
        BY <3>1
      <3>4. j \in 1 .. Len(pool[e]) /\ pool'[e][j] = pool[e][j]
        BY <3>1
      <3>5. pool[d][i] # NoSocket /\ pool[d][i] = pool[e][j]
        BY <3>3, <3>4
      <3> QED
        BY <3>2, <3>3, <3>4, <3>5, Zenon
    <2>8. /\ \A u \in Threads : hold'[u] <= created'
          /\ \A d \in Clients : \A i \in 1 .. Len(pool'[d]) : pool'[d][i] <= created'
      BY <1>1, <1>2, <2>1, <2>2, <2>3 DEF PInv, PoolType, OnePlace, NoSocket
    <2> QED
      BY <2>4, <2>5, <2>6, <2>7, <2>8 DEF PInv, OnePlace
  <1> QED
    BY <1>3, <1>4 DEF GetSocket

LEMMA PoolPop ==
  ASSUME PInv, NEW t \in Threads, Pop(t)
  PROVE  PInv'
  <1> DEFINE c == ClientOf[t]
             q == Front(pool[c])
  <1>1. c \in Clients /\ pool[c] \in Seq(MaybeSocket)
    BY RpcAssumption DEF PInv, PoolType
  <1>2. /\ q \in Seq(MaybeSocket) /\ Len(q) \in Nat
        /\ \A i \in 1 .. Len(q) : i \in 1 .. Len(pool[c]) /\ q[i] = pool[c][i]
    BY <1>1, PoppedPool
  <1>3. /\ pool' = [pool EXCEPT ![c] = q] /\ hold' = hold /\ created' = created /\ size' = size
        /\ pc' = [pc EXCEPT ![t] = "send"]
    BY DEF Pop, ThreadMoves
  <1> HIDE DEF q
  <1>4. pool'[c] = q /\ \A d \in Clients : d # c => pool'[d] = pool[d]
    BY <1>1, <1>3 DEF PInv, PoolType
  <1>5. PoolType'
    BY <1>1, <1>2, <1>3 DEF PInv, PoolType, HasSocket
  <1>6. OnePlace'
    BY <1>1, <1>2, <1>3, <1>4 DEF PInv, OnePlace, ExclusiveUse
  <1> QED
    BY <1>5, <1>6 DEF PInv

LEMMA PoolEndRelease ==
  ASSUME PInv, NEW t \in Threads, EndRelease(t)
  PROVE  PInv'
  <1> DEFINE c == ClientOf[t]
             n == size[t]
             p == pool[c]
             q == Emplaced(p, n, hold[t])
  <1>1. c \in Clients /\ p \in Seq(MaybeSocket) /\ n \in Nat /\ hold[t] \in MaybeSocket
    BY RpcAssumption DEF PInv, PoolType
  <1>2. /\ q \in Seq(MaybeSocket) /\ Len(q) = n + 1
        /\ \A i \in 1 .. n + 1 :
             q[i] = NoSocket \/ (i = n + 1 /\ q[i] = hold[t])
                             \/ (i # n + 1 /\ i \in 1 .. Len(p) /\ q[i] = p[i])
    <2> HIDE DEF p, n
    <2> QED
      BY <1>1, ReleasedPool
  <1>3. /\ pool' = [pool EXCEPT ![c] = q] /\ hold' = [hold EXCEPT ![t] = NoSocket]
        /\ created' = created /\ size' = size /\ pc' = [pc EXCEPT ![t] = "idle"]
    BY DEF EndRelease, ThreadMoves
  <1> HIDE DEF q
  <1>4. /\ pool'[c] = q /\ \A d \in Clients : d # c => pool'[d] = pool[d]
        /\ hold'[t] = NoSocket /\ \A u \in Threads : u # t => hold'[u] = hold[u]
    BY <1>1, <1>3 DEF PInv, PoolType
  <1>5. PoolType'
    BY <1>1, <1>2, <1>3 DEF PInv, PoolType, MaybeSocket
  <1>6. \A d \in Clients : \A i \in 1 .. Len(pool'[d]) :
           \/ pool'[d][i] = NoSocket
           \/ d = c /\ i = n + 1 /\ pool'[d][i] = hold[t]
           \/ ~(d = c /\ i = n + 1) /\ i \in 1 .. Len(pool[d]) /\ pool'[d][i] = pool[d][i]
    BY <1>2, <1>4
  <1>7. ExclusiveUse'
    BY <1>4 DEF PInv, OnePlace, ExclusiveUse
  <1>8. \A u \in Threads, d \in Clients : \A i \in 1 .. Len(pool'[d]) :
          pool'[d][i] # NoSocket => hold'[u] # pool'[d][i]
    BY <1>4, <1>6 DEF PInv, OnePlace, ExclusiveUse
  <1>9. \A d, e \in Clients : \A i \in 1 .. Len(pool'[d]), j \in 1 .. Len(pool'[e]) :
          pool'[d][i] # NoSocket /\ pool'[d][i] = pool'[e][j] => d = e /\ i = j
    <2> SUFFICES ASSUME NEW d \in Clients, NEW e \in Clients,
                        NEW i \in 1 .. Len(pool'[d]), NEW j \in 1 .. Len(pool'[e]),
                        pool'[d][i] # NoSocket, pool'[d][i] = pool'[e][j]
                 PROVE  d = e /\ i = j
      OBVIOUS
    <2>1. /\ \/ d = c /\ i = n + 1 /\ pool'[d][i] = hold[t]
             \/ ~(d = c /\ i = n + 1) /\ i \in 1 .. Len(pool[d]) /\ pool'[d][i] = pool[d][i]
          /\ \/ e = c /\ j = n + 1 /\ pool'[e][j] = hold[t]
             \/ ~(e = c /\ j = n + 1) /\ j \in 1 .. Len(pool[e]) /\ pool'[e][j] = pool[e][j]
      BY <1>6
    <2>2. /\ i \in 1 .. Len(pool[d]) /\ pool[d][i] # NoSocket => hold[t] # pool[d][i]
          /\ j \in 1 .. Len(pool[e]) /\ pool[e][j] # NoSocket => hold[t] # pool[e][j]
      BY DEF PInv, OnePlace
    <2>3. i \in 1 .. Len(pool[d]) /\ j \in 1 .. Len(pool[e]) /\ pool[d][i] # NoSocket
          /\ pool[d][i] = pool[e][j] => d = e /\ i = j
      BY DEF PInv, OnePlace
    <2> QED
      BY <2>1, <2>2, <2>3
  <1>10. /\ \A u \in Threads : hold'[u] <= created'
        /\ \A d \in Clients : \A i \in 1 .. Len(pool'[d]) : pool'[d][i] <= created'
    <2>1. created \in Nat /\ created' = created /\ hold[t] <= created
      BY <1>3 DEF PInv, PoolType, OnePlace
    <2>2. \A u \in Threads : hold'[u] <= created'
      BY <1>4, <2>1 DEF PInv, OnePlace, NoSocket
    <2>3. \A d \in Clients : \A i \in 1 .. Len(pool'[d]) : pool'[d][i] <= created'
      BY <1>6, <2>1 DEF PInv, OnePlace, NoSocket
    <2> QED
      BY <2>2, <2>3
  <1> QED
    BY <1>5, <1>7, <1>8, <1>9, <1>10 DEF PInv, OnePlace

LEMMA PoolOther ==
  ASSUME PInv, NEW t \in Threads, Send(t) \/ Receive(t) \/ TimeOut(t)
  PROVE  PInv'
  <1>1. /\ UNCHANGED <<pool, hold, created, size>>
        /\ pc' = pc \/ pc' = [pc EXCEPT ![t] = "wait"] \/ pc' = [pc EXCEPT ![t] = "release"]
    BY DEF Send, Receive, TimeOut, ThreadMoves
  <1>2. pc' \in [Threads -> HasSocket \cup {"idle"}]
        /\ \A u \in Threads : pc'[u] = "idle" => pc[u] = "idle"
    BY <1>1 DEF PInv, PoolType, HasSocket
  <1> QED
    BY <1>1, <1>2, PoolSame

LEMMA PoolBeginRelease ==
  ASSUME PInv, NEW t \in Threads, BeginRelease(t)
  PROVE  PInv'
  <1>1. Len(pool[ClientOf[t]]) \in Nat
    BY RpcAssumption, LenProperties DEF PInv, PoolType
  <1>2. /\ UNCHANGED <<pool, hold, created>> /\ pc' = [pc EXCEPT ![t] = "emplace"]
        /\ size' = [size EXCEPT ![t] = Len(pool[ClientOf[t]])]
    BY DEF BeginRelease, ThreadMoves
  <1> QED
    BY <1>1, <1>2 DEF PInv, PoolType, OnePlace, ExclusiveUse, HasSocket

LEMMA PoolNext == PInv /\ [Next]_vars => PInv'
  <1> SUFFICES ASSUME PInv, [Next]_vars PROVE PInv'
    OBVIOUS
  <1>1. CASE UNCHANGED <<pool, hold, created, size, pc>>
    BY <1>1, PoolSame DEF PInv, PoolType
  <1>2. ASSUME NEW t \in Threads, GetSocket(t) \/ Returns(t)
        PROVE  PInv'
    BY <1>2, PoolGetSocket, PoolPop, PoolEndRelease, PoolOther, PoolBeginRelease DEF Returns
  <1>3. ServerThread \/ Start \/ Stop \/ Join \/ Kill \/ UNCHANGED vars
          => UNCHANGED <<pool, hold, created, size, pc>>
    BY DEF ServerThread, LoopTop, LoopEnds, ReceiveRequest, ReceiveTimesOut, Handle, SendReply,
           Start, Stop, Join, Kill, vars, threadVars
  <1> QED
    BY <1>1, <1>2, <1>3 DEF Next

\* However the threads of a client take sockets and give them back, and although giving
\* back is not under the mutex, no two have the same socket.
THEOREM Exclusive == Spec => []ExclusiveUse
  <1>1. PInv => ExclusiveUse
    BY DEF PInv, OnePlace
  <1> QED
    BY <1>1, PoolInit, PoolNext, PTL DEF Spec

-----------------------------------------------------------------------------
(* Type correctness                                                        *)

LEMMA SubSeqType ==
  ASSUME NEW S, NEW q \in Seq(S), NEW m \in 1 .. Len(q) + 1, NEW n \in 0 .. Len(q)
  PROVE  SubSeq(q, m, n) \in Seq(S) /\ ToSet(SubSeq(q, m, n)) \subseteq ToSet(q)
  <1>1. Len(q) \in Nat /\ DOMAIN q = 1 .. Len(q)
    BY LenProperties
  <1>2. m \in Int /\ n \in Int /\ \A i \in m .. n : q[i] \in S
    BY <1>1, ElementOfSeq
  <1>3. /\ SubSeq(q, m, n) \in Seq(S)
        /\ Len(SubSeq(q, m, n)) = IF m <= n THEN n - m + 1 ELSE 0
        /\ \A i \in 1 .. n - m + 1 : SubSeq(q, m, n)[i] = q[m + i - 1]
    BY <1>2, SubSeqProperties
  <1>4. DOMAIN SubSeq(q, m, n) = 1 .. Len(SubSeq(q, m, n))
    BY <1>3, LenProperties
  <1>5. \A i \in DOMAIN SubSeq(q, m, n) : i \in 1 .. n - m + 1 /\ m + i - 1 \in DOMAIN q
    BY <1>1, <1>2, <1>3, <1>4
  <1> QED
    BY <1>3, <1>5 DEF ToSet

LEMMA TailType ==
  ASSUME NEW S, NEW q \in Seq(S), q # <<>>
  PROVE  /\ Head(q) \in S /\ Head(q) \in ToSet(q)
         /\ Tail(q) \in Seq(S) /\ ToSet(Tail(q)) \subseteq ToSet(q)
  <1>1. Len(q) \in Nat \ {0} /\ DOMAIN q = 1 .. Len(q)
    BY LenProperties, EmptySeq
  <1>2. Tail(q) = SubSeq(q, 2, Len(q))
    BY TailIsSubSeq
  <1>3. 2 \in 1 .. Len(q) + 1 /\ Len(q) \in 0 .. Len(q) /\ 1 \in DOMAIN q
    BY <1>1
  <1>4. Head(q) = q[1]
    BY <1>1
  <1> QED
    BY <1>2, <1>3, <1>4, SubSeqType, HeadTailProperties DEF ToSet

LEMMA AppendType ==
  ASSUME NEW S, NEW q \in Seq(S), NEW e \in S
  PROVE  Append(q, e) \in Seq(S) /\ ToSet(Append(q, e)) = ToSet(q) \cup {e}
  <1>1. /\ Append(q, e) \in Seq(S) /\ Len(Append(q, e)) = Len(q) + 1 /\ Len(q) \in Nat
        /\ \A i \in 1 .. Len(q) : Append(q, e)[i] = q[i]
        /\ Append(q, e)[Len(q) + 1] = e
    BY AppendProperties, LenProperties
  <1>2. DOMAIN Append(q, e) = 1 .. Len(q) + 1 /\ DOMAIN q = 1 .. Len(q)
    BY <1>1, LenProperties
  <1>3. 1 .. Len(q) + 1 = (1 .. Len(q)) \cup {Len(q) + 1}
    BY <1>1
  <1> QED
    BY <1>1, <1>2, <1>3 DEF ToSet

\* What a server that ends leaves of the messages on their way.
LEMMA DisconnectedType ==
  ASSUME TypeOK, Disconnected
  PROVE  /\ toServer' \in [Sockets -> Seq(Request)] /\ toClient' \in [Sockets -> Seq(Reply)]
         /\ \A s \in Sockets : /\ ToSet(toServer'[s]) \subseteq ToSet(toServer[s])
                               /\ ToSet(toClient'[s]) \subseteq ToSet(toClient[s])
  <1>1. PICK read \in [Sockets -> 0 .. MaxRequests], sent \in [Sockets -> 0 .. MaxRequests] :
          /\ \A s \in Sockets : read[s] <= Len(toServer[s]) /\ sent[s] <= Len(toClient[s])
          /\ toServer' = [s \in Sockets |-> SubSeq(toServer[s], read[s] + 1, Len(toServer[s]))]
          /\ toClient' = [s \in Sockets |-> SubSeq(toClient[s], 1, sent[s])]
    BY DEF Disconnected
  <1>2. ASSUME NEW s \in Sockets
        PROVE  /\ toServer[s] \in Seq(Request) /\ toClient[s] \in Seq(Reply)
               /\ Len(toServer[s]) \in Nat /\ Len(toClient[s]) \in Nat
               /\ read[s] + 1 \in 1 .. Len(toServer[s]) + 1 /\ Len(toServer[s]) \in 0 .. Len(toServer[s])
               /\ 1 \in 1 .. Len(toClient[s]) + 1 /\ sent[s] \in 0 .. Len(toClient[s])
    BY <1>1, LenProperties DEF TypeOK
  <1>3. ASSUME NEW s \in Sockets
        PROVE  /\ toServer'[s] \in Seq(Request) /\ ToSet(toServer'[s]) \subseteq ToSet(toServer[s])
               /\ toClient'[s] \in Seq(Reply) /\ ToSet(toClient'[s]) \subseteq ToSet(toClient[s])
    BY <1>1, <1>2, SubSeqType
  <1>4. toServer' \in [Sockets -> Seq(Request)] /\ toClient' \in [Sockets -> Seq(Reply)]
    BY <1>1, <1>3
  <1> QED
    BY <1>3, <1>4

\* The part of the type invariant that is not about the pools.
MessageType ==
  /\ server \in {"off", "top", "receive", "handle", "reply"}
  /\ owner \in {"idle", "joining"} /\ starts \in 0 .. MaxStarts
  /\ IF server \in {"handle", "reply"} THEN inHand \in Request ELSE inHand = <<>>
  /\ done \in Seq(Request)
  /\ toServer \in [Sockets -> Seq(Request)]
  /\ toClient \in [Sockets -> Seq(Reply)]
  /\ current \in [Sockets -> Numbers \cup {NoNumber}]
  /\ made \in 0 .. MaxRequests
  /\ call \in [Threads -> Numbers \cup {NoNumber}]
  /\ reply \in [Threads -> Reply \cup {TimedOut}]

LEMMA TypeParts == TypeOK <=> PoolType /\ MessageType /\ stopping \in BOOLEAN
  BY DEF TypeOK, PoolType, MessageType, MaybeSocket

\* A number is given to one request, whose thread it stays with.
Known(r)   == r.id <= made /\ \A t \in Threads : call[t] = r.id => r.by = t
Handled(n) == \E d \in ToSet(done) : d.id = n

\* Where requests and replies are, they are what they were when they were made: every
\* reply is that of a request that was handled.
Own ==
  /\ \A t \in Threads : call[t] <= made
  /\ \A t, u \in Threads : t # u /\ call[t] = call[u] => call[t] = NoNumber
  /\ \A s \in Sockets : \A r \in ToSet(toServer[s]) : Known(r)
  /\ server \in {"handle", "reply"} => Known(inHand)
  /\ \A d \in ToSet(done) : Known(d)
  /\ server = "reply" => Handled(inHand.id)
  /\ \A s \in Sockets : \A a \in ToSet(toClient[s]) : a.type = Result(a.id) /\ Handled(a.id)

\* A thread that waits has the latest request of its socket.
Waiting ==
  /\ \A t \in Threads : pc[t] \in HasSocket => hold[t] # NoSocket
  /\ \A t \in Threads : pc[t] = "wait" => current[hold[t]] = call[t]
  /\ \A t \in Threads : Answered(t) =>
       reply[t].id = call[t] /\ reply[t].type = Result(call[t]) /\ Handled(call[t])

RInv == PInv /\ MessageType /\ Own /\ Waiting

LEMMA RInit == Init => MessageType /\ Own /\ Waiting
  <1> SUFFICES ASSUME Init PROVE MessageType /\ Own /\ Waiting
    OBVIOUS
  <1>1. ToSet(<<>>) = {} /\ <<>> \in Seq(Request) /\ <<>> \in Seq(Reply)
    BY DEF ToSet
  <1>2. MessageType
    BY <1>1, RpcAssumption DEF Init, MessageType, NoNumber
  <1>3. Own
    BY <1>1, RpcAssumption DEF Init, Own, NoNumber
  <1>4. Waiting
    BY DEF Init, Waiting, HasSocket, Answered
  <1> QED
    BY <1>2, <1>3, <1>4

-----------------------------------------------------------------------------
(* Replies: the server's steps                                             *)

\* Where the clients are as they were, and no handled request is forgotten.
LEMMA WaitingSame ==
  ASSUME RInv, UNCHANGED threadVars, current' = current, ToSet(done) \subseteq ToSet(done')
  PROVE  Waiting'
  BY DEF RInv, Waiting, Answered, Handled, threadVars

LEMMA ServerQuiet ==
  ASSUME RInv, LoopTop \/ ReceiveTimesOut \/ Start \/ Stop \/ Join
  PROVE  MessageType' /\ Own' /\ Waiting'
  <1>1. /\ UNCHANGED <<done, toServer, toClient, current, made, call, reply, threadVars>>
        /\ server' \in {"off", "top", "receive", "handle", "reply"}
        /\ owner' \in {"idle", "joining"} /\ starts' \in 0 .. MaxStarts
        /\ inHand' = inHand /\ (server' = server \/ {server, server'} \cap {"handle", "reply"} = {})
    BY RpcAssumption DEF RInv, MessageType, LoopTop, ReceiveTimesOut, Start, Stop, Join, ServerMoves,
           netVars, threadVars
  <1>2. MessageType'
    BY <1>1 DEF RInv, MessageType
  <1>3. Own'
    BY <1>1 DEF RInv, Own, Known, Handled
  <1> QED
    BY <1>1, <1>2, <1>3, WaitingSame

LEMMA ServerEnds ==
  ASSUME RInv, stopping \in BOOLEAN, LoopEnds \/ Kill
  PROVE  MessageType' /\ Own' /\ Waiting'
  <1>1. /\ Disconnected /\ UNCHANGED <<done, current, threadVars>>
        /\ server' = "off" /\ inHand' = <<>>
        /\ owner' \in {"idle", "joining"} /\ starts' \in 0 .. MaxStarts
    BY DEF RInv, MessageType, LoopEnds, Kill, ServerMoves
  <1>2. /\ toServer' \in [Sockets -> Seq(Request)] /\ toClient' \in [Sockets -> Seq(Reply)]
        /\ \A s \in Sockets : /\ ToSet(toServer'[s]) \subseteq ToSet(toServer[s])
                              /\ ToSet(toClient'[s]) \subseteq ToSet(toClient[s])
    BY <1>1, TypeParts, DisconnectedType DEF RInv, PInv
  <1>3. MessageType'
    BY <1>1, <1>2 DEF RInv, MessageType, threadVars
  <1>4. Own'
    BY <1>1, <1>2 DEF RInv, Own, Known, Handled, threadVars
  <1> QED
    BY <1>1, <1>3, <1>4, WaitingSame

LEMMA ServerReceives ==
  ASSUME RInv, NEW s \in Sockets, ReceiveRequest(s)
  PROVE  MessageType' /\ Own' /\ Waiting'
  <1> DEFINE q == toServer[s]
  <1>1. /\ q # <<>> /\ server' = "handle" /\ inHand' = Head(q)
        /\ toServer' = [toServer EXCEPT ![s] = Tail(q)]
        /\ UNCHANGED <<owner, starts, done, toClient, current, threadVars>>
    BY DEF ReceiveRequest, ServerMoves
  <1>2. /\ Head(q) \in Request /\ Head(q) \in ToSet(q)
        /\ Tail(q) \in Seq(Request) /\ ToSet(Tail(q)) \subseteq ToSet(q)
    BY <1>1, TailType DEF RInv, MessageType
  <1>3. \A c \in Sockets : ToSet(toServer'[c]) \subseteq ToSet(toServer[c])
    BY <1>1, <1>2 DEF RInv, MessageType
  <1>4. MessageType'
    BY <1>1, <1>2 DEF RInv, MessageType, threadVars
  <1>5. Own'
    BY <1>1, <1>2, <1>3 DEF RInv, Own, Known, Handled, threadVars
  <1> QED
    BY <1>1, <1>4, <1>5, WaitingSame

LEMMA ServerHandles ==
  ASSUME RInv, Handle
  PROVE  MessageType' /\ Own' /\ Waiting'
  <1>1. /\ server = "handle" /\ server' = "reply" /\ done' = Append(done, inHand)
        /\ UNCHANGED <<owner, starts, inHand, netVars, threadVars>>
    BY DEF Handle, ServerMoves
  <1>2. inHand \in Request /\ done \in Seq(Request)
    BY <1>1 DEF RInv, MessageType
  <1>3. done' \in Seq(Request) /\ ToSet(done') = ToSet(done) \cup {inHand}
    BY <1>1, <1>2, AppendType
  <1>4. MessageType'
    BY <1>1, <1>2, <1>3 DEF RInv, MessageType, netVars, threadVars
  <1>5. Own'
    BY <1>1, <1>3 DEF RInv, Own, Known, Handled, netVars, threadVars
  <1> QED
    BY <1>1, <1>3, <1>4, <1>5, WaitingSame DEF netVars

LEMMA ServerReplies ==
  ASSUME RInv, SendReply
  PROVE  MessageType' /\ Own' /\ Waiting'
  <1> DEFINE a == [id |-> inHand.id, type |-> Result(inHand.id)]
             q == toClient[inHand.via]
  <1>1. /\ server = "reply" /\ server' = "top" /\ inHand' = <<>>
        /\ toClient' = [toClient EXCEPT ![inHand.via] = Append(q, a)]
        /\ UNCHANGED <<owner, starts, done, toServer, current, threadVars>>
    BY DEF SendReply, ServerMoves
  <1>2. inHand.via \in Sockets /\ a \in Reply /\ q \in Seq(Reply)
    BY <1>1 DEF RInv, MessageType, Request, Reply, Result
  <1>3. Append(q, a) \in Seq(Reply) /\ ToSet(Append(q, a)) = ToSet(q) \cup {a}
    BY <1>2, AppendType
  <1>4. MessageType'
    BY <1>1, <1>2, <1>3 DEF RInv, MessageType, threadVars
  <1>5. a.type = Result(a.id) /\ Handled(a.id)
    BY <1>1 DEF RInv, Own
  <1> HIDE DEF a
  <1>6. \A s \in Sockets : \A b \in ToSet(toClient'[s]) : b = a \/ b \in ToSet(toClient[s])
    BY <1>1, <1>2, <1>3 DEF RInv, MessageType
  <1>7. Own'
    BY <1>1, <1>5, <1>6 DEF RInv, Own, Known, Handled, threadVars
  <1> QED
    BY <1>1, <1>4, <1>7, WaitingSame

-----------------------------------------------------------------------------
(* Replies: the client's steps                                             *)

\* Taking a socket, and giving it back.
LEMMA ClientQuiet ==
  ASSUME RInv, NEW t \in Threads, GetSocket(t) \/ Pop(t) \/ EndRelease(t)
  PROVE  MessageType' /\ Own' /\ Waiting'
  <1>1. /\ UNCHANGED <<serverVars, netVars, made, call, reply>>
        /\ \A u \in Threads : u # t => pc'[u] = pc[u] /\ hold'[u] = hold[u]
        /\ pc'[t] \in {"idle", "pop", "send"}
        /\ pc'[t] # "idle" => hold'[t] # NoSocket
    BY DEF GetSocket, NewSocket, Pop, EndRelease, ThreadMoves, RInv, PInv, PoolType, Waiting,
           HasSocket, NoSocket
  <1>2. MessageType' /\ Own'
    BY <1>1 DEF RInv, MessageType, Own, Known, Handled, serverVars, netVars
  <1>3. Waiting'
    BY <1>1 DEF RInv, Waiting, Answered, Handled, HasSocket, serverVars, netVars
  <1> QED
    BY <1>2, <1>3

LEMMA ClientGivesUp ==
  ASSUME RInv, NEW t \in Threads, TimeOut(t) \/ BeginRelease(t)
  PROVE  MessageType' /\ Own' /\ Waiting'
  <1>1. /\ UNCHANGED <<serverVars, netVars, made, call, hold>>
        /\ \A u \in Threads : u # t => pc'[u] = pc[u] /\ reply'[u] = reply[u]
        /\ \/ pc'[t] = "release" /\ reply'[t] = TimedOut
           \/ pc'[t] = "emplace" /\ reply'[t] = reply[t]
        /\ pc[t] \in HasSocket /\ (pc'[t] = "emplace" => pc[t] = "release")
        /\ reply' \in [Threads -> Reply \cup {TimedOut}]
    BY DEF TimeOut, BeginRelease, ThreadMoves, RInv, PInv, PoolType, MessageType, HasSocket
  <1>2. MessageType' /\ Own'
    BY <1>1 DEF RInv, MessageType, Own, Known, Handled, serverVars, netVars
  <1>3. Waiting'
    BY <1>1 DEF RInv, Waiting, Answered, Handled, HasSocket, serverVars, netVars
  <1> QED
    BY <1>2, <1>3

LEMMA ClientReceives ==
  ASSUME RInv, NEW t \in Threads, Receive(t)
  PROVE  MessageType' /\ Own' /\ Waiting'
  <1> DEFINE s == hold[t]
             q == toClient[s]
             a == Head(q)
  <1>1. /\ pc[t] = "wait" /\ q # <<>> /\ toClient' = [toClient EXCEPT ![s] = Tail(q)]
        /\ UNCHANGED <<serverVars, toServer, current, made, hold, call>>
    BY DEF Receive
  <1>2. s \in Sockets /\ q \in Seq(Reply)
    BY <1>1 DEF RInv, PInv, PoolType, MessageType, Waiting, MaybeSocket, HasSocket
  <1>3. a \in Reply /\ a \in ToSet(q) /\ Tail(q) \in Seq(Reply) /\ ToSet(Tail(q)) \subseteq ToSet(q)
    BY <1>1, <1>2, TailType
  <1>4. a.type = Result(a.id) /\ Handled(a.id)
    BY <1>2, <1>3 DEF RInv, Own
  <1>5. \/ reply' = reply /\ pc' = pc
        \/ /\ a.id = call[t]
           /\ reply' = [reply EXCEPT ![t] = a] /\ pc' = [pc EXCEPT ![t] = "release"]
    BY <1>1 DEF Receive, ThreadMoves, RInv, Waiting
  <1> HIDE DEF a
  <1>6. reply' \in [Threads -> Reply \cup {TimedOut}]
    BY <1>3, <1>5 DEF RInv, MessageType
  <1>7. \A c \in Sockets : ToSet(toClient'[c]) \subseteq ToSet(toClient[c])
    BY <1>1, <1>2, <1>3 DEF RInv, MessageType
  <1>8. MessageType' /\ Own'
    BY <1>1, <1>2, <1>3, <1>6, <1>7 DEF RInv, MessageType, Own, Known, Handled, serverVars
  <1>9. CASE reply' = reply /\ pc' = pc
    BY <1>1, <1>8, <1>9 DEF RInv, Waiting, Answered, Handled, serverVars
  <1>10. CASE /\ a.id = call[t]
              /\ reply' = [reply EXCEPT ![t] = a] /\ pc' = [pc EXCEPT ![t] = "release"]
    <2>1. /\ pc'[t] = "release" /\ reply'[t] = a
          /\ \A u \in Threads : u # t => pc'[u] = pc[u] /\ reply'[u] = reply[u]
      BY <1>10 DEF RInv, PInv, PoolType, MessageType
    <2>2. Waiting'
      BY <1>1, <1>4, <1>10, <2>1 DEF RInv, Waiting, Answered, Handled, HasSocket, serverVars
    <2> QED
      BY <1>8, <2>2
  <1> QED
    BY <1>5, <1>9, <1>10

LEMMA ClientSends ==
  ASSUME RInv, NEW t \in Threads, Send(t)
  PROVE  MessageType' /\ Own' /\ Waiting'
  <1> DEFINE s == hold[t]
             r == [id |-> made + 1, by |-> t, via |-> s]
  <1>1. /\ made < MaxRequests /\ pc[t] = "send" /\ pc' = [pc EXCEPT ![t] = "wait"]
        /\ made' = made + 1 /\ call' = [call EXCEPT ![t] = made + 1]
        /\ current' = [current EXCEPT ![s] = made + 1]
        /\ toServer' = [toServer EXCEPT ![s] = Append(toServer[s], r)]
        /\ UNCHANGED <<serverVars, hold, reply>>
    BY DEF Send, ThreadMoves
  <1>2. s \in Sockets /\ made + 1 \in Numbers /\ made \in Nat
    BY <1>1, RpcAssumption
    DEF RInv, PInv, PoolType, MessageType, Waiting, MaybeSocket, HasSocket, Numbers
  <1>3. PICK arrived \in 0 .. Len(toClient[s]) :
          toClient' = [toClient EXCEPT ![s] = SubSeq(toClient[s], arrived + 1, Len(toClient[s]))]
    BY DEF Send
  <1>4. /\ SubSeq(toClient[s], arrived + 1, Len(toClient[s])) \in Seq(Reply)
        /\ ToSet(SubSeq(toClient[s], arrived + 1, Len(toClient[s]))) \subseteq ToSet(toClient[s])
    <2>1. toClient[s] \in Seq(Reply) /\ Len(toClient[s]) \in Nat
      BY <1>2, LenProperties DEF RInv, MessageType
    <2>2. arrived + 1 \in 1 .. Len(toClient[s]) + 1 /\ Len(toClient[s]) \in 0 .. Len(toClient[s])
      BY <2>1
    <2> QED
      BY <2>1, <2>2, SubSeqType
  <1>5. r \in Request /\ toServer[s] \in Seq(Request)
    BY <1>2 DEF Request, RInv, MessageType
  <1>6. /\ Append(toServer[s], r) \in Seq(Request)
        /\ ToSet(Append(toServer[s], r)) = ToSet(toServer[s]) \cup {r}
    BY <1>5, AppendType
  <1>7. MessageType'
    BY <1>1, <1>2, <1>3, <1>4, <1>6 DEF RInv, MessageType, Numbers, serverVars
  <1>8. /\ \A c \in Sockets : \A b \in ToSet(toServer'[c]) : b = r \/ b \in ToSet(toServer[c])
        /\ \A c \in Sockets : ToSet(toClient'[c]) \subseteq ToSet(toClient[c])
    BY <1>1, <1>2, <1>3, <1>4, <1>6 DEF RInv, MessageType
  <1>9. /\ call'[t] = made + 1 /\ \A u \in Threads : u # t => call'[u] = call[u]
        /\ \A u \in Threads : call[u] \in Int /\ call[u] <= made
    BY <1>1 DEF RInv, MessageType, Own, Numbers, NoNumber
  <1>10. r.id = made + 1 /\ r.by = t
    OBVIOUS
  <1> HIDE DEF r
  <1>11. ASSUME NEW b \in Request, Known(b) PROVE Known(b)'
    <2>1. b.id \in Int
      BY DEF Request, Numbers
    <2> QED
      BY <1>1, <1>2, <1>9, <1>11, <2>1 DEF Known
  <1>12. ASSUME NEW b, b = r PROVE Known(b)'
    <2>1. b.id = made + 1 /\ b.by = t
      BY <1>10, <1>12
    <2> QED
      BY <1>1, <1>2, <1>9, <2>1 DEF Known
  <1>13. /\ \A c \in Sockets : \A b \in ToSet(toServer[c]) : b \in Request
         /\ \A d \in ToSet(done) : d \in Request
         /\ server \in {"handle", "reply"} => inHand \in Request
    BY LenProperties, ElementOfSeq DEF RInv, MessageType, ToSet
  <1>14. Own'
    <2>1. /\ \A u \in Threads : call'[u] <= made'
          /\ \A u, v \in Threads : u # v /\ call'[u] = call'[v] => call'[u] = NoNumber
      BY <1>1, <1>2, <1>9 DEF RInv, Own
    <2>2. /\ \A c \in Sockets : \A b \in ToSet(toServer'[c]) : Known(b)'
          /\ server' \in {"handle", "reply"} => Known(inHand)'
          /\ \A d \in ToSet(done') : Known(d)'
      BY <1>1, <1>8, <1>11, <1>12, <1>13 DEF RInv, Own, serverVars
    <2>3. /\ server' = "reply" => Handled(inHand.id)'
          /\ \A c \in Sockets : \A a \in ToSet(toClient'[c]) : a.type = Result(a.id) /\ Handled(a.id)'
      BY <1>1, <1>8 DEF RInv, Own, Handled, serverVars
    <2> QED
      BY <2>1, <2>2, <2>3 DEF Own
  <1>15. Waiting'
    <2>1. \A u \in Threads : u # t => pc'[u] = pc[u] /\ hold'[u] = hold[u]
      BY <1>1 DEF RInv, PInv, PoolType
    <2>2. pc'[t] = "wait" /\ current'[s] = made + 1 /\ \A c \in Sockets : c # s => current'[c] = current[c]
      BY <1>1, <1>2 DEF RInv, PInv, PoolType, MessageType
    <2>3. \A u \in Threads : u # t /\ pc[u] = "wait" => hold[u] \in Sockets /\ hold[u] # s
      BY <1>2 DEF RInv, PInv, PoolType, OnePlace, ExclusiveUse, Waiting, HasSocket, MaybeSocket, Sockets, NoSocket
    <2> QED
      BY <1>1, <1>2, <1>9, <2>1, <2>2, <2>3
      DEF RInv, Waiting, Answered, Handled, HasSocket, Sockets, NoSocket, serverVars
  <1> QED
    BY <1>7, <1>14, <1>15

-----------------------------------------------------------------------------

TInv == RInv /\ stopping \in BOOLEAN

LEMMA StoppingType == stopping \in BOOLEAN /\ [Next]_vars => stopping' \in BOOLEAN
  BY Zenon DEF Next, ServerThread, LoopTop, LoopEnds, ReceiveRequest, ReceiveTimesOut, Handle,
     SendReply, Start, Stop, Join, Kill, GetSocket, Returns, Pop, Send, Receive, TimeOut, BeginRelease,
     EndRelease, vars, serverVars

LEMMA RNext == TInv /\ [Next]_vars => TInv'
  <1> SUFFICES ASSUME RInv, stopping \in BOOLEAN, [Next]_vars PROVE RInv'
    BY StoppingType DEF TInv
  <1>1. PInv'
    BY PoolNext DEF RInv
  <1>2. CASE UNCHANGED vars
    BY <1>1, <1>2 DEF RInv, MessageType, Own, Known, Handled, Waiting, Answered, vars, serverVars,
       netVars, threadVars
  <1>3. ASSUME NEW t \in Threads, GetSocket(t) \/ Returns(t)
        PROVE  MessageType' /\ Own' /\ Waiting'
    BY <1>3, ClientQuiet, ClientGivesUp, ClientReceives, ClientSends DEF Returns
  <1>4. CASE ServerThread \/ Start \/ Stop \/ Join \/ Kill
    BY <1>1, <1>4, ServerQuiet, ServerEnds, ServerReceives, ServerHandles, ServerReplies
    DEF RInv, ServerThread
  <1> QED
    BY <1>1, <1>2, <1>3, <1>4 DEF RInv, Next

LEMMA RInvariance == Spec => []TInv
  <1>1. Init => TInv
    BY PoolInit, RInit, Zenon DEF TInv, RInv, Init
  <1> QED
    BY <1>1, RNext, PTL DEF Spec

\* Every variable stays in its type.
THEOREM TypeCorrect == Spec => []TypeOK
  <1>1. TInv => TypeOK
    BY TypeParts DEF TInv, RInv, PInv
  <1> QED
    BY <1>1, RInvariance, PTL

\* Whatever times out, and however often the server is stopped, killed and started again,
\* what MakeRequest returns is the outcome of its own request, which was handled.
THEOREM OwnReply == Spec => []ReplyIsOwn
  <1>1. TInv => ReplyIsOwn
    BY DEF TInv, RInv, Waiting, Own, Handled, Known, ReplyIsOwn
  <1> QED
    BY <1>1, RInvariance, PTL

-----------------------------------------------------------------------------
(* At most once                                                            *)

\* A request is on its way once, however many sockets there are.
OnTheWayOnce ==
  \A s, c \in Sockets : \A i \in 1 .. Len(toServer[s]), j \in 1 .. Len(toServer[c]) :
    toServer[s][i].id = toServer[c][j].id => s = c /\ i = j

\* A request is on its way, in the server's hand, or handled, and in no two of them.
Once ==
  /\ OnTheWayOnce
  /\ \A s \in Sockets : \A r \in ToSet(toServer[s]) :
       ~Handled(r.id) /\ (server \in {"handle", "reply"} => r.id # inHand.id)
  /\ server = "handle" => ~Handled(inHand.id)
  /\ \A t \in Threads : pc[t] = "wait" => call[t] # NoNumber

LEMMA OnceInit == Init => Once
  <1>1. ToSet(<<>>) = {}
    BY DEF ToSet
  <1> QED
    BY <1>1 DEF Init, Once, OnTheWayOnce

LEMMA TheSameRequest ==
  ASSUME OnTheWayOnce, NEW s \in Sockets, NEW c \in Sockets,
         NEW i \in 1 .. Len(toServer[s]), NEW j \in 1 .. Len(toServer[c]),
         toServer[s][i].id = toServer[c][j].id
  PROVE  s = c /\ i = j
  BY Zenon DEF OnTheWayOnce

\* What is left of what was on its way, from some place on.
LEMMA RestOnce ==
  ASSUME OnTheWayOnce, NEW k \in [Sockets -> Nat],
         \A s \in Sockets : Len(toServer[s]) \in Nat /\ Len(toServer'[s]) \in Nat,
         \A s \in Sockets : \A i \in 1 .. Len(toServer'[s]) :
           i + k[s] \in 1 .. Len(toServer[s]) /\ toServer'[s][i] = toServer[s][i + k[s]]
  PROVE  OnTheWayOnce'
  <1> SUFFICES ASSUME NEW s \in Sockets, NEW c \in Sockets,
                      NEW i \in 1 .. Len(toServer'[s]), NEW j \in 1 .. Len(toServer'[c]),
                      toServer'[s][i].id = toServer'[c][j].id
               PROVE  s = c /\ i = j
    BY DEF OnTheWayOnce
  <1> DEFINE m == i + k[s]
             n == j + k[c]
  <1>1. /\ m \in 1 .. Len(toServer[s]) /\ toServer'[s][i] = toServer[s][m]
        /\ n \in 1 .. Len(toServer[c]) /\ toServer'[c][j] = toServer[c][n]
    OBVIOUS
  <1> HIDE DEF m, n
  <1>3. toServer[s][m].id = toServer[c][n].id
    BY <1>1
  <1>2. s = c /\ m = n
    BY <1>1, <1>3, TheSameRequest
  <1> QED
    BY <1>2 DEF m, n

LEMMA RestOfRequests ==
  ASSUME NEW q \in Seq(Request), NEW n \in 0 .. Len(q)
  PROVE  LET u == SubSeq(q, n + 1, Len(q)) IN
         /\ Len(u) \in Nat /\ Len(q) \in Nat
         /\ \A i \in 1 .. Len(u) : i + n \in 1 .. Len(q) /\ u[i] = q[i + n]
  <1>1. Len(q) \in Nat
    BY LenProperties
  <1>2. \A i \in n + 1 .. Len(q) : q[i] \in Request
    BY <1>1, ElementOfSeq
  <1> QED
    BY <1>1, <1>2, SubSeqProperties

\* No request comes up that was not there, and none is handled, or in the server's hand,
\* that was not.
LEMMA OnceSame ==
  ASSUME Once, OnTheWayOnce', done' = done,
         \A s \in Sockets : ToSet(toServer'[s]) \subseteq ToSet(toServer[s]),
         server' \in {"handle", "reply"} => server' = server /\ inHand' = inHand,
         \A t \in Threads : pc'[t] = "wait" => pc[t] = "wait" /\ call'[t] = call[t]
  PROVE  Once'
  BY DEF Once, Handled

LEMMA OnceServer ==
  ASSUME TInv, Once, ServerThread \/ Start \/ Stop \/ Join \/ Kill
  PROVE  Once'
  <1>0. UNCHANGED <<pc, call>>
    BY DEF ServerThread, LoopTop, LoopEnds, ReceiveRequest, ReceiveTimesOut, Handle, SendReply,
           Start, Stop, Join, Kill, threadVars
  <1>1. CASE LoopTop \/ ReceiveTimesOut \/ Start \/ Stop \/ Join \/ SendReply
    <2>1. /\ UNCHANGED <<done, toServer>>
          /\ server' \in {"handle", "reply"} => server' = server /\ inHand' = inHand
      BY <1>1 DEF LoopTop, ReceiveTimesOut, Start, Stop, Join, SendReply, ServerMoves, netVars
    <2> QED
      BY <1>0, <2>1, OnceSame DEF Once, OnTheWayOnce
  <1>2. CASE LoopEnds \/ Kill
    <2>1. Disconnected /\ server' = "off" /\ done' = done
      BY <1>2 DEF LoopEnds, Kill, ServerMoves
    <2>2. PICK read \in [Sockets -> 0 .. MaxRequests] :
            /\ \A s \in Sockets : read[s] <= Len(toServer[s])
            /\ toServer' = [s \in Sockets |-> SubSeq(toServer[s], read[s] + 1, Len(toServer[s]))]
      BY <2>1 DEF Disconnected
    <2>3. read \in [Sockets -> Nat] /\ \A s \in Sockets :
            toServer[s] \in Seq(Request) /\ read[s] \in 0 .. Len(toServer[s])
      BY <2>2, LenProperties, RpcAssumption DEF TInv, RInv, MessageType
    <2>4. \A s \in Sockets : Len(toServer[s]) \in Nat /\ Len(toServer'[s]) \in Nat
      BY <2>2, <2>3, RestOfRequests
    <2>5. \A s \in Sockets : \A i \in 1 .. Len(toServer'[s]) :
            i + read[s] \in 1 .. Len(toServer[s]) /\ toServer'[s][i] = toServer[s][i + read[s]]
      BY <2>2, <2>3, RestOfRequests
    <2>6. OnTheWayOnce'
      BY <2>3, <2>4, <2>5, RestOnce DEF Once
    <2>7. \A s \in Sockets : ToSet(toServer'[s]) \subseteq ToSet(toServer[s])
      BY <2>1, TypeParts, DisconnectedType DEF TInv, RInv, PInv
    <2> QED
      BY <1>0, <2>1, <2>6, <2>7, OnceSame
  <1>3. ASSUME NEW s \in Sockets, ReceiveRequest(s)
        PROVE  Once'
    <2> DEFINE q == toServer[s]
    <2>1. /\ q # <<>> /\ server' = "handle" /\ inHand' = Head(q) /\ done' = done
          /\ toServer' = [toServer EXCEPT ![s] = Tail(q)]
      BY <1>3 DEF ReceiveRequest, ServerMoves
    <2>2. /\ q \in Seq(Request) /\ Head(q) \in ToSet(q)
          /\ Tail(q) \in Seq(Request) /\ ToSet(Tail(q)) \subseteq ToSet(q)
      BY <2>1, TailType DEF TInv, RInv, MessageType
    <2>3. /\ Len(q) \in Nat \ {0} /\ Tail(q) = SubSeq(q, 1 + 1, Len(q)) /\ Head(q) = q[1]
      BY <2>1, <2>2, LenProperties, EmptySeq, TailIsSubSeq
    <2>4. \A c \in Sockets : toServer'[c] = IF c = s THEN Tail(q) ELSE toServer[c]
      BY <2>1 DEF TInv, RInv, MessageType
    <2>5. /\ Len(Tail(q)) \in Nat
          /\ \A i \in 1 .. Len(Tail(q)) : i + 1 \in 1 .. Len(q) /\ Tail(q)[i] = q[i + 1]
      <3>1. 1 \in 0 .. Len(q)
        BY <2>3
      <3> QED
        BY <2>2, <2>3, <3>1, RestOfRequests
    <2> HIDE DEF q
    <2>6. \A c \in Sockets : Len(toServer[c]) \in Nat
      BY LenProperties DEF TInv, RInv, MessageType
    <2>7. OnTheWayOnce'
      <3> DEFINE k == [c \in Sockets |-> IF c = s THEN 1 ELSE 0]
      <3>1. k \in [Sockets -> Nat]
        OBVIOUS
      <3>2. \A c \in Sockets : Len(toServer'[c]) \in Nat
        BY <2>4, <2>5, <2>6
      <3>3. \A c \in Sockets : \A i \in 1 .. Len(toServer'[c]) :
              i + k[c] \in 1 .. Len(toServer[c]) /\ toServer'[c][i] = toServer[c][i + k[c]]
        <4> SUFFICES ASSUME NEW c \in Sockets, NEW i \in 1 .. Len(toServer'[c])
                     PROVE  i + k[c] \in 1 .. Len(toServer[c]) /\ toServer'[c][i] = toServer[c][i + k[c]]
          OBVIOUS
        <4>1. CASE c = s
          BY <2>4, <2>5, <4>1 DEF q
        <4>2. CASE c # s
          <5>1. k[c] = 0 /\ toServer'[c] = toServer[c] /\ i \in Int
            BY <2>4, <4>2
          <5> HIDE DEF k
          <5> QED
            BY <5>1
        <4> QED
          BY <4>1, <4>2
      <3> HIDE DEF k
      <3> QED
        BY <2>6, <3>1, <3>2, <3>3, RestOnce DEF Once
    <2>8. ASSUME NEW c \in Sockets, NEW r \in ToSet(toServer'[c])
          PROVE  ~Handled(r.id) /\ r.id # Head(q).id
      <3>1. toServer'[c] \in Seq(Request) /\ toServer[c] \in Seq(Request)
        BY <2>2, <2>4 DEF TInv, RInv, MessageType
      <3>2. PICK i \in 1 .. Len(toServer'[c]) : r = toServer'[c][i]
        BY <3>1, LenProperties DEF ToSet
      <3>3. r \in ToSet(toServer[c])
        BY <2>2, <2>4 DEF q
      <3>4. CASE c = s
        <4>1. i + 1 \in 1 .. Len(q) /\ r = q[i + 1] /\ 1 \in 1 .. Len(q) /\ i + 1 # 1
          <5>1. toServer'[c] = Tail(q)
            BY <2>4, <3>4
          <5>2. i \in 1 .. Len(Tail(q)) /\ r = Tail(q)[i] /\ i \in Int /\ i >= 1
            BY <3>2, <5>1
          <5>3. i + 1 \in 1 .. Len(q) /\ r = q[i + 1]
            BY <2>5, <5>2
          <5> QED
            BY <2>3, <5>2, <5>3
        <4> QED
          BY <2>3, <3>3, <4>1 DEF Once, OnTheWayOnce, q
      <3>5. CASE c # s
        <4>1. i \in 1 .. Len(toServer[c]) /\ r = toServer[c][i] /\ 1 \in 1 .. Len(q)
          BY <2>3, <2>4, <3>2, <3>5
        <4> QED
          BY <2>3, <3>3, <3>5, <4>1 DEF Once, OnTheWayOnce, q
      <3> QED
        BY <3>4, <3>5
    <2>9. ~Handled(Head(q).id)
      BY <2>2 DEF Once, q
    <2> QED
      BY <1>0, <2>1, <2>7, <2>8, <2>9 DEF Once, Handled
  <1>4. CASE Handle
    <2>1. /\ server = "handle" /\ server' = "reply" /\ done' = Append(done, inHand)
          /\ UNCHANGED <<inHand, toServer>>
      BY <1>4 DEF Handle, ServerMoves, netVars
    <2>2. ToSet(done') = ToSet(done) \cup {inHand}
      BY <2>1, AppendType DEF TInv, RInv, MessageType
    <2> QED
      BY <1>0, <2>1, <2>2 DEF Once, OnTheWayOnce, Handled
  <1> QED
    BY <1>1, <1>2, <1>3, <1>4 DEF ServerThread

LEMMA OnceClient ==
  ASSUME TInv, Once, NEW t \in Threads, GetSocket(t) \/ Returns(t)
  PROVE  Once'
  <1>1. CASE ~Send(t)
    <2>1. UNCHANGED <<serverVars, toServer, call>>
      BY <1>1 DEF GetSocket, Returns, Pop, Receive, TimeOut, BeginRelease, EndRelease, netVars
    <2>2. \A u \in Threads : pc'[u] = "wait" => pc[u] = "wait"
      BY <1>1 DEF GetSocket, NewSocket, Returns, Pop, Receive, TimeOut, BeginRelease, EndRelease,
                  ThreadMoves, TInv, RInv, PInv, PoolType
    <2> QED
      BY <2>1, <2>2, OnceSame DEF Once, OnTheWayOnce, serverVars
  <1>2. CASE Send(t)
    <2> DEFINE s == hold[t]
               r == [id |-> made + 1, by |-> t, via |-> s]
               q == toServer[s]
    <2>1. /\ pc[t] = "send" /\ pc' = [pc EXCEPT ![t] = "wait"]
          /\ call' = [call EXCEPT ![t] = made + 1]
          /\ toServer' = [toServer EXCEPT ![s] = Append(q, r)]
          /\ UNCHANGED serverVars
      BY <1>2 DEF Send, ThreadMoves
    <2>2. s \in Sockets /\ made \in Nat
      BY <2>1, RpcAssumption DEF TInv, RInv, PInv, PoolType, MessageType, Waiting, MaybeSocket, HasSocket
    <2>3. r \in Request /\ q \in Seq(Request)
      <3>1. made + 1 \in Numbers /\ q \in Seq(Request)
        BY <1>2, <2>2, RpcAssumption DEF Send, Numbers, TInv, RInv, MessageType
      <3> QED
        BY <2>2, <3>1 DEF Request
    <2>4. /\ ToSet(Append(q, r)) = ToSet(q) \cup {r}
          /\ Len(Append(q, r)) = Len(q) + 1 /\ Len(q) \in Nat
          /\ \A i \in 1 .. Len(q) : Append(q, r)[i] = q[i]
          /\ Append(q, r)[Len(q) + 1] = r
      BY <2>3, AppendType, AppendProperties, LenProperties
    <2>5. r.id = made + 1
      OBVIOUS
    <2> HIDE DEF r, q
    <2>6. \A c \in Sockets : toServer'[c] = IF c = s THEN Append(q, r) ELSE toServer[c]
      BY <2>1 DEF TInv, RInv, MessageType
    <2>7. /\ \A c \in Sockets : \A b \in ToSet(toServer[c]) : b.id # made + 1
          /\ ~Handled(made + 1)
          /\ server \in {"handle", "reply"} => inHand.id # made + 1
      BY <2>2 DEF TInv, RInv, Own, Known, Handled
    <2>8. \A c \in Sockets : /\ Len(toServer[c]) \in Nat
                             /\ \A i \in 1 .. Len(toServer[c]) : toServer[c][i] \in ToSet(toServer[c])
      BY LenProperties DEF TInv, RInv, MessageType, ToSet
    <2>9. \A c \in Sockets : \A i \in 1 .. Len(toServer'[c]) :
            \/ c = s /\ i = Len(q) + 1 /\ toServer'[c][i].id = made + 1
            \/ /\ i \in 1 .. Len(toServer[c]) /\ toServer'[c][i] = toServer[c][i]
               /\ toServer'[c][i].id # made + 1
      <3> SUFFICES ASSUME NEW c \in Sockets, NEW i \in 1 .. Len(toServer'[c])
                   PROVE  \/ c = s /\ i = Len(q) + 1 /\ toServer'[c][i].id = made + 1
                          \/ /\ i \in 1 .. Len(toServer[c]) /\ toServer'[c][i] = toServer[c][i]
                             /\ toServer'[c][i].id # made + 1
        OBVIOUS
      <3>1. CASE c = s
        <4>0. toServer'[c] = Append(q, r) /\ toServer[c] = q
          BY <2>6, <3>1 DEF q
        <4>1. /\ toServer'[c] = Append(q, r) /\ toServer[c] = q
              /\ i = Len(q) + 1 \/ i \in 1 .. Len(q)
          <5>1. i \in 1 .. Len(q) + 1
            BY <2>4, <4>0
          <5> QED
            BY <2>4, <4>0, <5>1
        <4>2. CASE i = Len(q) + 1
          BY <2>4, <2>5, <3>1, <4>1, <4>2
        <4>3. CASE i \in 1 .. Len(q)
          BY <2>4, <2>7, <2>8, <4>1, <4>3
        <4> QED
          BY <4>1, <4>2, <4>3
      <3>2. CASE c # s
        <4>1. toServer'[c] = toServer[c]
          BY <2>6, <3>2
        <4> QED
          BY <2>7, <2>8, <4>1
      <3> QED
        BY <3>1, <3>2
    <2>10. OnTheWayOnce'
      <3> SUFFICES ASSUME NEW c \in Sockets, NEW d \in Sockets,
                          NEW i \in 1 .. Len(toServer'[c]), NEW j \in 1 .. Len(toServer'[d]),
                          toServer'[c][i].id = toServer'[d][j].id
                   PROVE  c = d /\ i = j
        BY DEF OnTheWayOnce
      <3>1. /\ \/ c = s /\ i = Len(q) + 1 /\ toServer'[c][i].id = made + 1
               \/ /\ i \in 1 .. Len(toServer[c]) /\ toServer'[c][i] = toServer[c][i]
                  /\ toServer'[c][i].id # made + 1
            /\ \/ d = s /\ j = Len(q) + 1 /\ toServer'[d][j].id = made + 1
               \/ /\ j \in 1 .. Len(toServer[d]) /\ toServer'[d][j] = toServer[d][j]
                  /\ toServer'[d][j].id # made + 1
        BY <2>9, Zenon
      <3>2. i \in 1 .. Len(toServer[c]) /\ j \in 1 .. Len(toServer[d])
              /\ toServer[c][i].id = toServer[d][j].id => c = d /\ i = j
        BY TheSameRequest DEF Once
      <3> QED
        BY <3>1, <3>2
    <2>11. \A c \in Sockets : \A b \in ToSet(toServer'[c]) :
             ~Handled(b.id) /\ (server \in {"handle", "reply"} => b.id # inHand.id)
      BY <2>2, <2>4, <2>5, <2>6, <2>7 DEF Once, q
    <2>12. \A u \in Threads : pc'[u] = "wait" => call'[u] # NoNumber
      BY <2>1, <2>2 DEF Once, TInv, RInv, PInv, PoolType, MessageType, NoNumber
    <2> QED
      BY <2>1, <2>10, <2>11, <2>12 DEF Once, Handled, serverVars
  <1> QED
    BY <1>1, <1>2

LEMMA OnceNext == TInv /\ Once /\ [Next]_vars => Once'
  <1> SUFFICES ASSUME TInv, Once, [Next]_vars PROVE Once'
    OBVIOUS
  <1>1. CASE UNCHANGED vars
    BY <1>1 DEF Once, OnTheWayOnce, Handled, vars, serverVars, netVars, threadVars
  <1> QED
    BY <1>1, OnceServer, OnceClient DEF Next

-----------------------------------------------------------------------------
(* Remote calls                                                           *)

\* What was handled is what remote calls call executed.
LEMMA ExecutedIsHandled ==
  ASSUME TInv, NEW n
  PROVE  Remote!Executed(n) <=> Handled(n)
  <1>1. DOMAIN done = DOMAIN Executed /\ \A i \in DOMAIN done : Executed[i] = done[i].id
    BY DEF Executed
  <1> QED
    BY <1>1 DEF Remote!Executed, Handled, ToSet

LEMMA RefinesCallsInit == Init => Remote!Init
  <1> SUFFICES ASSUME Init PROVE Remote!Init
    OBVIOUS
  <1>1. Executed = <<>>
    BY DEF Init, Executed
  <1>2. Calling = [t \in Threads |-> 0]
    BY DEF Init, Calling, NoNumber
  <1> QED
    BY <1>1, <1>2 DEF Init, Remote!Init, Remote!NoAnswer, TimedOut, NoNumber

LEMMA CallsStutter ==
  ASSUME UNCHANGED <<made, done, pc, call, reply>>
  PROVE  UNCHANGED Remote!vars
  BY DEF Remote!vars, Executed, Calling

\* The server executes a call where it handles its request, and nowhere else.
LEMMA RefinesServer ==
  ASSUME TInv, Once, ServerThread \/ Start \/ Stop \/ Join \/ Kill
  PROVE  [Remote!Next]_Remote!vars
  <1>1. CASE ~Handle
    <2>1. UNCHANGED <<made, done, pc, call, reply>>
      BY <1>1 DEF ServerThread, LoopTop, LoopEnds, ReceiveRequest, ReceiveTimesOut, SendReply,
                  Start, Stop, Join, Kill, threadVars
    <2> QED
      BY <2>1, CallsStutter
  <1>2. CASE Handle
    <2> DEFINE n == inHand.id
    <2>1. /\ server = "handle" /\ done' = Append(done, inHand)
          /\ UNCHANGED <<made, pc, call, reply>>
      BY <1>2 DEF Handle, ServerMoves, threadVars
    <2>2. /\ inHand \in Request /\ done \in Seq(Request) /\ n \in 1 .. made
      BY <2>1, RpcAssumption DEF TInv, RInv, MessageType, Own, Known, Request, Numbers
    <2>3. ~Remote!Executed(n)
      BY <2>1, ExecutedIsHandled DEF Once
    <2>4. Executed' = Append(Executed, n)
      <3>1. /\ Len(done) \in Nat /\ DOMAIN done = 1 .. Len(done)
            /\ DOMAIN done' = 1 .. Len(done) + 1
            /\ \A i \in 1 .. Len(done) : done'[i] = done[i]
            /\ done'[Len(done) + 1] = inHand
        BY <2>1, <2>2, AppendProperties, LenProperties
      <3>2. \A i \in 1 .. Len(done) : done[i].id \in Numbers
        <4>1. \A i \in 1 .. Len(done) : done[i] \in Request
          BY <2>2, ElementOfSeq
        <4> QED
          BY <4>1 DEF Request
      <3>3. Executed = [i \in 1 .. Len(done) |-> done[i].id]
        BY <3>1 DEF Executed
      <3>4. Executed \in Seq(Numbers) /\ Len(Executed) = Len(done)
        <4>1. Executed \in [1 .. Len(done) -> Numbers]
          BY <3>2, <3>3
        <4>2. Executed \in Seq(Numbers)
          BY <3>1, <4>1, SMT
        <4> QED
          BY <3>1, <3>3, <4>2, LenProperties, SMT
      <3>5. Executed' = [i \in 1 .. Len(done) + 1 |-> IF i = Len(done) + 1 THEN n ELSE done[i].id]
        BY <3>1 DEF Executed
      <3> QED
        BY <3>1, <3>3, <3>4, <3>5
    <2>5. Calling' = Calling
      BY <2>1 DEF Calling
    <2>6. Remote!Execute(n)
      BY <2>1, <2>3, <2>4, <2>5 DEF Remote!Execute
    <2> QED
      BY <2>2, <2>6 DEF Remote!Next
  <1> QED
    BY <1>1, <1>2

\* A call begins where a request is sent, and ends where its reply or its timeout comes.
LEMMA RefinesClient ==
  ASSUME TInv, Once, NEW t \in Threads, GetSocket(t) \/ Returns(t)
  PROVE  [Remote!Next]_Remote!vars
  <1>0. /\ pc \in [Threads -> HasSocket \cup {"idle"}] /\ call \in [Threads -> Numbers \cup {NoNumber}]
        /\ reply \in [Threads -> Reply \cup {TimedOut}] /\ done' = done
    BY DEF TInv, RInv, PInv, PoolType, MessageType, GetSocket, Returns, Pop, Send, Receive, TimeOut,
           BeginRelease, EndRelease, serverVars
  <1>1. Executed' = Executed
    BY <1>0 DEF Executed
  <1>2. CASE GetSocket(t) \/ Pop(t) \/ BeginRelease(t) \/ EndRelease(t)
    <2>1. UNCHANGED <<made, call, reply>> /\ pc[t] # "wait"
      BY <1>2 DEF GetSocket, NewSocket, Pop, BeginRelease, EndRelease, ThreadMoves
    <2>2. \A u \in Threads : pc'[u] = "wait" <=> pc[u] = "wait"
      BY <1>0, <1>2 DEF GetSocket, NewSocket, Pop, BeginRelease, EndRelease, ThreadMoves
    <2>3. Calling' = Calling
      BY <2>1, <2>2 DEF Calling
    <2> QED
      BY <1>1, <2>1, <2>3 DEF Remote!vars
  <1>3. CASE Send(t)
    <2>1. /\ made' = made + 1 /\ call' = [call EXCEPT ![t] = made + 1] /\ reply' = reply
          /\ pc[t] = "send" /\ pc' = [pc EXCEPT ![t] = "wait"]
      BY <1>3 DEF Send, ThreadMoves
    <2>2. Calling[t] = 0 /\ Calling' = [Calling EXCEPT ![t] = made + 1]
      BY <1>0, <2>1 DEF Calling, NoNumber
    <2>3. Remote!Ask(t)
      BY <1>1, <2>1, <2>2 DEF Remote!Ask
    <2> QED
      BY <2>3 DEF Remote!Next
  <1>4. ASSUME pc[t] = "wait", pc' = [pc EXCEPT ![t] = "release"], UNCHANGED <<made, call>>,
               NEW o, reply' = [reply EXCEPT ![t] = o]
        PROVE  Remote!Comes(t, o)
    <2>1. Calling[t] # 0
      BY <1>4 DEF Calling, Once, NoNumber
    <2>2. Calling' = [Calling EXCEPT ![t] = 0]
      BY <1>0, <1>4 DEF Calling, NoNumber
    <2> QED
      BY <1>1, <1>4, <2>1, <2>2 DEF Remote!Comes
  <1>5. CASE TimeOut(t)
    <2>1. Remote!Comes(t, TimedOut)
      BY <1>4, <1>5 DEF TimeOut, ThreadMoves
    <2>2. Remote!GiveUp(t)
      BY <2>1 DEF Remote!GiveUp, Remote!NoAnswer, TimedOut, NoNumber
    <2> QED
      BY <2>2 DEF Remote!Next
  <1>6. CASE Receive(t)
    <2> DEFINE s == hold[t]
               q == toClient[s]
               a == Head(q)
    <2>1. /\ pc[t] = "wait" /\ q # <<>> /\ UNCHANGED <<made, call>>
          /\ IF a.id = current[s]
             THEN reply' = [reply EXCEPT ![t] = a] /\ pc' = [pc EXCEPT ![t] = "release"]
             ELSE UNCHANGED <<reply, pc>>
      BY <1>6 DEF Receive, ThreadMoves
    <2>2. s \in Sockets /\ q \in Seq(Reply) /\ current[s] = call[t]
      BY <2>1 DEF TInv, RInv, PInv, PoolType, MessageType, Waiting, MaybeSocket, HasSocket
    <2>3. a \in Reply /\ a.type = Result(a.id) /\ Handled(a.id)
      <3>1. a \in Reply /\ a \in ToSet(q)
        BY <2>1, <2>2, TailType
      <3> QED
        BY <2>2, <3>1 DEF TInv, RInv, Own
    <2> HIDE DEF a
    <2>4. CASE a.id # current[s]
      BY <1>0, <2>1, <2>4, CallsStutter
    <2>5. CASE a.id = current[s]
      <3>1. Remote!Comes(t, a)
        BY <1>4, <2>1, <2>5
      <3>2. a.id = call[t] /\ Calling[t] = a.id
        BY <2>1, <2>2, <2>5 DEF Calling
      <3>3. a = [id |-> Calling[t], type |-> IF Calling[t] \in Failing THEN "ERROR" ELSE "OK"]
        BY <2>3, <3>2 DEF Reply, Result
      <3>4. Remote!Executed(Calling[t])
        BY <2>3, <3>2, ExecutedIsHandled
      <3>5. Remote!Answer(t)
        BY <3>1, <3>3, <3>4 DEF Remote!Answer
      <3> QED
        BY <3>5 DEF Remote!Next
    <2> QED
      BY <2>4, <2>5
  <1> QED
    BY <1>2, <1>3, <1>5, <1>6 DEF Returns

\* Whatever times out, is lost or is still on its way when the server is stopped, killed and
\* started again, a request is executed at most once, and its caller gets its outcome or
\* none (MakeRequest, RunInternal, HandleRequest).
THEOREM AtMostOnce == Spec => ImplementsRemoteCalls
  <1>1. Init => Once
    BY OnceInit
  <1>2. TInv /\ Once /\ [Next]_vars => [Remote!Next]_Remote!vars
    <2> SUFFICES ASSUME TInv, Once, [Next]_vars PROVE [Remote!Next]_Remote!vars
      OBVIOUS
    <2>1. CASE UNCHANGED vars
      BY <2>1, CallsStutter DEF vars, serverVars, threadVars
    <2> QED
      BY <2>1, RefinesServer, RefinesClient DEF Next
  <1> QED
    BY <1>1, <1>2, RefinesCallsInit, RInvariance, OnceNext, PTL
    DEF Spec, ImplementsRemoteCalls, Remote!Spec

-----------------------------------------------------------------------------
(* What a proxy knows                                                      *)

\* A service that has not been launched is closed; the end that the caller knew of is not
\* later than the one that can be seen.
Launches ==
  /\ state # "CLOSED" => launched # 0
  /\ since <= LastEnded

\* Where Connect is, and what it has looked at.  A launch adds a frame: as long as the frame
\* is the one that was seen, the process that was asked for is the latest.
Connecting ==
  /\ seen <= stamp /\ connectedAt <= stamp
  /\ stage = "info" => seen > 0 /\ since < launched
  /\ stage = "get_info" => client = target /\ since < target
  /\ stage = "get_info" /\ state = "RUNNING" /\ stamp = seen => target = launched
  /\ stage \in {"info", "get_info"} => names = None /\ cache = None

\* The names that a proxy has when it takes itself to be connected are the latest process's.
Connected ==
  state = "RUNNING" /\ stamp = connectedAt => names = launched

\* What the call goes on with is later than what the caller knew to have ended.
Later ==
  /\ stage = "after" /\ names # None => since < names
  /\ stage = "request" => client # None
  /\ stage = "request" /\ op # "stop" => since < client

Reaching ==
  Launches /\ Connecting /\ Connected /\ OneProcess /\ Later /\ ReachesLatest /\ ClientPresent

ProxyInv == ProxyTypeOK /\ Reaching

-----------------------------------------------------------------------------
(* The types of a proxy                                                    *)

LEMMA ProxyTypeInit == ProxyInit => ProxyTypeOK
  <1> SUFFICES ASSUME ProxyInit PROVE ProxyTypeOK
    OBVIOUS
  <1>1. serving \in BOOLEAN /\ shutDown \in BOOLEAN
    BY Zenon DEF ProxyInit
  <1>2. /\ launched = 0 /\ target = 0 /\ client = 0 /\ names = 0 /\ cache = 0
        /\ from = 0 /\ since = 0 /\ process = None /\ stamp = 1 /\ seen = 0
        /\ connectedAt = 0 /\ round = 0
        /\ state = "CLOSED" /\ stage = "idle" /\ op = "none" /\ result = "none"
    BY DEF ProxyInit, None
  <1> QED
    BY <1>1, <1>2, ProxyAssumption DEF ProxyTypeOK, States, Ended, None

LEMMA ProxyLaunching ==
  ASSUME Launch
  PROVE  /\ launched < MaxLaunches /\ launched' = launched + 1 /\ process' = launched'
         /\ serving' \in BOOLEAN /\ shutDown' \in BOOLEAN
         /\ state' = "INITIALIZING" /\ stamp < MaxFrames /\ stamp' = stamp + 1
  BY Zenon DEF Launch, UpdateState

LEMMA ProxyTypeService ==
  ASSUME ProxyTypeOK, Service
  PROVE  ProxyTypeOK'
  <1> USE ProxyAssumption DEF ProxyTypeOK, UpdateState, proxy, local, outcome, Ended, States,
     None
  <1>1. CASE StartedByOther
    <2>1. Launch
      BY <1>1 DEF StartedByOther
    <2> QED
      BY ProxyLaunching, <1>1, <2>1 DEF StartedByOther
  <1>2. CASE Opening
    BY <1>2 DEF Opening
  <1>3. CASE Runs
    BY <1>3 DEF Runs
  <1>4. CASE DoesNotOpen
    BY <1>4 DEF DoesNotOpen
  <1>5. CASE Busy
    BY <1>5 DEF Busy
  <1>6. CASE StoppedByOther
    BY <1>6 DEF StoppedByOther
  <1>7. CASE ServerStops
    BY <1>7 DEF ServerStops
  <1>8. CASE Closing
    BY <1>8 DEF Closing
  <1>9. CASE Closed
    BY <1>9 DEF Closed
  <1>10. CASE Killed
    BY <1>10 DEF Killed
  <1>11. CASE Monitor
    BY <1>11 DEF Monitor
  <1> QED
    BY <1>1, <1>2, <1>3, <1>4, <1>5, <1>6, <1>7, <1>8, <1>9, <1>10, <1>11 DEF Service

LEMMA ProxyTypeClient ==
  ASSUME ProxyTypeOK, Client
  PROVE  ProxyTypeOK'
  <1> USE ProxyAssumption DEF ProxyTypeOK, UpdateState, Ends, Raises, Goes, After, Answers,
     Opens, Disconnect, service, proxy, local, outcome, Ended, States, None
  <1>1. CASE ReadState
    BY <1>1 DEF ReadState
  <1>2. CASE AskTestbed
    <2>1. CASE state \in Ended
      <3>1. Launch
        BY <1>2, <2>1 DEF AskTestbed
      <3> QED
        BY ProxyLaunching, <1>2, <3>1 DEF AskTestbed
    <2>2. CASE state \notin Ended
      BY <1>2, <2>2 DEF AskTestbed
    <2> QED
      BY <2>1, <2>2
  <1>3. CASE AskFails
    BY <1>3 DEF AskFails
  <1>4. CASE WaitForRunning
    BY <1>4 DEF WaitForRunning
  <1>5. CASE GiveUp
    BY <1>5 DEF GiveUp
  <1>6. CASE Connect
    BY <1>6 DEF Connect
  <1>7. CASE GetServiceInfo
    BY <1>7 DEF GetServiceInfo
  <1>8. CASE GetInfo
    BY <1>8 DEF GetInfo
  <1>9. CASE GetInfoFails
    BY <1>9 DEF GetInfoFails
  <1>10. CASE NotAName
    BY <1>10 DEF NotAName
  <1>11. CASE Linked
    BY <1>11 DEF Linked
  <1>12. CASE OpenStream
    BY <1>12 DEF OpenStream
  <1>13. CASE OpenFails
    BY <1>13 DEF OpenFails
  <1>14. CASE ToRequest
    BY <1>14 DEF ToRequest
  <1>15. CASE IsProperty
    BY <1>15 DEF IsProperty
  <1>16. CASE NextNames
    BY <1>16 DEF NextNames
  <1>17. CASE SetsAttribute
    BY <1>17 DEF SetsAttribute
  <1>18. CASE MakeRequest
    BY <1>18 DEF MakeRequest
  <1>19. CASE RequestFails
    BY <1>19 DEF RequestFails
  <1> QED
    BY <1>1, <1>2, <1>3, <1>4, <1>5, <1>6, <1>7, <1>8, <1>9, <1>10, <1>11, <1>12, <1>13,
       <1>14, <1>15, <1>16, <1>17, <1>18, <1>19 DEF Client

LEMMA ProxyTypeCall ==
  ASSUME ProxyTypeOK, NEW c \in Calls, Call(c)
  PROVE  ProxyTypeOK'
  BY ProxyAssumption DEF ProxyTypeOK, Call, LastEnded, Goes, Ends, service, proxy, outcome, States,
     Ended, None

LEMMA ProxyTypeNext == ProxyTypeOK /\ [ProxyNext]_proxyVars => ProxyTypeOK'
  <1> SUFFICES ASSUME ProxyTypeOK, [ProxyNext]_proxyVars PROVE ProxyTypeOK'
    OBVIOUS
  <1>1. CASE UNCHANGED proxyVars
    BY <1>1 DEF ProxyTypeOK, proxyVars, service, proxy, local, outcome
  <1> QED
    BY <1>1, ProxyTypeService, ProxyTypeClient, ProxyTypeCall DEF ProxyNext

\* Every variable stays in its type.
THEOREM ProxyTypeCorrect == ProxySpec => []ProxyTypeOK
  BY ProxyTypeInit, ProxyTypeNext, PTL DEF ProxySpec

-----------------------------------------------------------------------------
(* What a proxy reaches                                                    *)

LEMMA ProxyInvInit == ProxyInit => ProxyInv
  BY ProxyTypeInit
  DEF ProxyInit, ProxyInv, Reaching, Launches, LastEnded, Connecting, Connected, OneProcess,
      Later, ReachesLatest, ClientPresent, None, Ended

\* The steps of the service and of the testbed.
LEMMA ProxyInvService ==
  ASSUME ProxyInv, Service
  PROVE  Reaching'
  <1> USE DEF ProxyInv, ProxyTypeOK, Reaching, LastEnded, Launches, Connecting, Connected,
     OneProcess, Later, ReachesLatest, ClientPresent, UpdateState, proxy, local, outcome,
     Ended, States, None
  <1>1. CASE StartedByOther
    BY <1>1 DEF StartedByOther, Launch
  <1>2. CASE Opening
    BY <1>2 DEF Opening
  <1>3. CASE Runs
    BY <1>3 DEF Runs
  <1>4. CASE DoesNotOpen
    BY <1>4 DEF DoesNotOpen
  <1>5. CASE Busy
    BY <1>5 DEF Busy
  <1>6. CASE StoppedByOther
    BY <1>6 DEF StoppedByOther
  <1>7. CASE ServerStops
    BY <1>7 DEF ServerStops
  <1>8. CASE Closing
    BY <1>8 DEF Closing
  <1>9. CASE Closed
    BY <1>9 DEF Closed
  <1>10. CASE Killed
    BY <1>10 DEF Killed
  <1>11. CASE Monitor
    BY <1>11 DEF Monitor
  <1> QED
    BY <1>1, <1>2, <1>3, <1>4, <1>5, <1>6, <1>7, <1>8, <1>9, <1>10, <1>11 DEF Service

\* The steps of the client.
LEMMA ProxyInvClient ==
  ASSUME ProxyInv, Client
  PROVE  Reaching'
  <1> USE DEF ProxyInv, ProxyTypeOK, Reaching, LastEnded, Launches, Connecting, Connected,
     OneProcess, Later, ReachesLatest, ClientPresent, UpdateState, Ends, Raises, Goes,
     After, Answers, Opens, Disconnect, service, proxy, local, outcome, Ended, States, None
  <1>1. CASE ReadState
    BY <1>1 DEF ReadState
  <1>2. CASE AskTestbed
    BY <1>2 DEF AskTestbed, Launch
  <1>3. CASE AskFails
    BY <1>3 DEF AskFails
  <1>4. CASE WaitForRunning
    BY <1>4 DEF WaitForRunning
  <1>5. CASE GiveUp
    BY <1>5 DEF GiveUp
  <1>6. CASE Connect
    BY <1>6 DEF Connect
  <1>7. CASE GetServiceInfo
    BY <1>7 DEF GetServiceInfo
  <1>8. CASE GetInfo
    BY <1>8 DEF GetInfo
  <1>9. CASE GetInfoFails
    BY <1>9 DEF GetInfoFails
  <1>10. CASE NotAName
    BY <1>10 DEF NotAName
  <1>11. CASE Linked
    BY <1>11 DEF Linked
  <1>12. CASE OpenStream
    BY <1>12 DEF OpenStream
  <1>13. CASE OpenFails
    BY <1>13 DEF OpenFails
  <1>14. CASE ToRequest
    BY <1>14 DEF ToRequest
  <1>15. CASE IsProperty
    BY <1>15 DEF IsProperty
  <1>16. CASE NextNames
    BY <1>16 DEF NextNames
  <1>17. CASE SetsAttribute
    BY <1>17 DEF SetsAttribute
  <1>18. CASE MakeRequest
    BY <1>18 DEF MakeRequest
  <1>19. CASE RequestFails
    BY <1>19 DEF RequestFails
  <1> QED
    BY <1>1, <1>2, <1>3, <1>4, <1>5, <1>6, <1>7, <1>8, <1>9, <1>10, <1>11, <1>12, <1>13,
       <1>14, <1>15, <1>16, <1>17, <1>18, <1>19 DEF Client

LEMMA ProxyInvCall ==
  ASSUME ProxyInv, NEW c \in Calls, Call(c)
  PROVE  Reaching'
  BY DEF ProxyInv, Reaching, ProxyTypeOK, Call, LastEnded, Launches, Connecting, Connected, OneProcess, Later,
     ReachesLatest, ClientPresent, Goes, Ends, service, proxy, outcome, None, Ended, States

LEMMA ProxyInvNext == ProxyInv /\ [ProxyNext]_proxyVars => ProxyInv'
  <1> SUFFICES ASSUME ProxyInv, [ProxyNext]_proxyVars PROVE ProxyInv'
    OBVIOUS
  <1>1. ProxyTypeOK'
    BY ProxyTypeNext DEF ProxyInv
  <1>2. CASE UNCHANGED proxyVars
    BY <1>2 DEF ProxyInv, Reaching, ProxyTypeOK, Launches, LastEnded, Connecting, Connected, OneProcess, Later,
       ReachesLatest, ClientPresent, proxyVars, service, proxy, local, outcome
  <1> QED
    BY <1>1, <1>2, ProxyInvService, ProxyInvClient, ProxyInvCall DEF ProxyInv, ProxyNext

LEMMA ProxyInvHasNames == ProxyInv => ConnectedHasNames
  BY DEF ProxyInv, Reaching, ProxyTypeOK, Launches, Connected, ConnectedHasNames, None

LEMMA ProxyInvariance == ProxySpec => []ProxyInv
  BY ProxyInvInit, ProxyInvNext, PTL DEF ProxySpec

\* Whatever happens to the service while a proxy connects, its names, its client and its
\* streams are those of one process; it never takes itself to be connected without the
\* service's names; and nothing but Stop uses a client that is not there.
THEOREM ConsistentProxy == ProxySpec => []Consistent
  <1>1. ProxyInv => OneProcess /\ ClientPresent
    BY DEF ProxyInv, Reaching
  <1> QED
    BY <1>1, ProxyInvHasNames, ProxyInvariance, PTL DEF Consistent

\* What a call returns comes from a process that was not known to have ended.
THEOREM LatestReached == ProxySpec => []ReachesLatest
  <1>1. ProxyInv => ReachesLatest
    BY DEF ProxyInv, Reaching
  <1> QED
    BY <1>1, ProxyInvariance, PTL
================================================================================
