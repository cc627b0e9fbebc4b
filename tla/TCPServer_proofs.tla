--------------------------- MODULE TCPServer_proofs ---------------------------
(***************************************************************************)
(* Proofs of the safety properties of module TCPServer, for any set of     *)
(* connections, any buffer sizes and any number of events per call.        *)
(***************************************************************************)
EXTENDS TCPServer, Filters_proofs

(* What may be registered with epoll. *)
Descriptors == Conns \cup {Listener}

(* The lists: every one is without repetitions, the first two hold exactly *)
(* the live sockets, the others only live ones; the ready list holds only  *)
(* what is registered.                                                     *)
ListsInv ==
  /\ Unique(sockets_, Conns) /\ Range(sockets_) = live
  /\ Unique(receive_sockets_, Conns) /\ Range(receive_sockets_) = live
  /\ Unique(send_sockets_, Conns) /\ Range(send_sockets_) \subseteq live
  /\ Unique(disconnected_sockets_, Conns) /\ Range(disconnected_sockets_) \subseteq live
  /\ Unique(ready, Descriptors) /\ Range(ready) \subseteq interest

(* The descriptors: what is open and what is registered.  A connection is  *)
(* unused, waiting, or accepted, and only one of these.                    *)
KernelInv ==
  /\ fd_ \subseteq live
  /\ interest \ {Listener} = fd_
  /\ open = fd_ \cup (IF efd_ THEN {Epoll, Listener} ELSE {})
  /\ Unique(backlog, Conns) /\ Range(backlog) \cap live = {}
  /\ \A c \in live \cup Range(backlog) : peer[c] # "none"

(* The flags: a socket with a flag set is scheduled for deletion, and one  *)
(* that is scheduled has a cause, which stays.                             *)
CauseInv ==
  /\ peer \in [Conns -> {"none", "open", "fin", "rst", "gone"}]
  /\ queued \in [Conns -> Nat] /\ buffered \in [Conns -> 0 .. TCP_BUFFER_SIZE]
  /\ failed \subseteq fd_ \cap Range(disconnected_sockets_)
  /\ \A c \in Range(disconnected_sockets_) : Cause(c)

IInv == ListsInv /\ KernelInv /\ CauseInv
-----------------------------------------------------------------------------
(* Operations on lists without repetitions. *)

LEMMA UniqueWithout ==
  ASSUME NEW T, NEW gone, NEW list, Unique(list, T)
  PROVE  Unique(Without(list, gone), T) /\ Range(Without(list, gone)) = Range(list) \ gone
  <1> DEFINE S == Range(list) \ gone
             kept == Filter(list, S)
  <1>1. Unique(kept, T) /\ Range(kept) = Range(list) \cap S
    BY Zenon, UniqueFilter
  <1> HIDE DEF kept
  <1>2. Without(list, gone) = kept
    BY Zenon DEF Without, kept
  <1>3. QED
    BY ZenonT(30), <1>1, <1>2

LEMMA UniqueAdd ==
  ASSUME NEW T, NEW list, Unique(list, T), NEW e \in T
  PROVE  Unique(addUnique(list, e), T) /\ Range(addUnique(list, e)) = Range(list) \cup {e}
  <1> DEFINE ap == Append(list, e)
  <1>1. CASE e \in Range(list)
    <2>1. addUnique(list, e) = list
      BY Zenon, <1>1 DEF addUnique
    <2>2. QED
      BY ZenonT(30), <1>1, <2>1
  <1>2. CASE e \notin Range(list)
    <2>1. Unique(ap, T) /\ Range(ap) = Range(list) \cup {e}
      BY <1>2, UniqueAppend DEF ap
    <2> HIDE DEF ap
    <2>2. addUnique(list, e) = ap
      BY Zenon, <1>2 DEF addUnique, ap
    <2>3. QED
      BY ZenonT(30), <2>1, <2>2
  <1>3. QED
    BY ZenonT(30), <1>1, <1>2

LEMMA UniqueAddEach ==
  ASSUME NEW T, NEW list, Unique(list, T), NEW more \in Seq(T)
  PROVE  /\ Unique(addEach(list, more), T)
         /\ Range(addEach(list, more)) = Range(list) \cup Range(more)
  <1>1. PICK N \in Nat : N = Len(more)
    OBVIOUS
  <1> DEFINE A == {q \in Seq(T) : IsInjective(q)}
             Add(q, n) == addUnique(q, more[n])
             Rec(f) == f = [n \in 0 .. N |-> IF n = 0 THEN list ELSE Add(f[n - 1], n)]
             added == CHOOSE f : Rec(f)
             Upto(n) == {more[i] : i \in 1 .. n}
  <1>2. addEach(list, more) = added[N]
    BY Zenon, <1>1 DEF addEach
  <1>3. \A q : q \in A <=> Unique(q, T)
    BY Zenon DEF Unique
  <1>4. list \in A
    BY Zenon, <1>3
  <1>5. \A n \in 1 .. N : more[n] \in T
    BY <1>1
  <1>6. Range(more) = Upto(N)
    BY <1>1 DEF Range
  <1>7. /\ Upto(0) = {}
        /\ \A n \in 0 .. N - 1 : Upto(n + 1) = Upto(n) \cup {more[n + 1]}
    OBVIOUS
  <1>8. \A n \in 1 .. N, q \in A : Add(q, n) \in A /\ Range(Add(q, n)) = Range(q) \cup {more[n]}
    <2> HIDE DEF A
    <2>1. QED
      BY <1>3, <1>5, UniqueAdd
  <1> HIDE DEF A, Add, Upto
  <1> DEFINE step == [n \in 1 .. N |-> [q \in A |-> Add(q, n)]]
  <1>9. step \in [1 .. N -> [A -> A]]
    BY Zenon, <1>8
  <1>10. PICK g \in [0 .. N -> A] : Recursion(N, list, step, g)
    <2> HIDE DEF step
    <2>1. QED
      BY ZenonT(30), <1>4, <1>9, RecursionExists
  <1>11. g[0] = list /\ \A n \in 1 .. N : g[n] = Add(g[n - 1], n)
    <2>1. \A n \in 1 .. N : n - 1 \in 0 .. N /\ g[n - 1] \in A
      BY <1>10
    <2>2. \A n \in 1 .. N : step[n][g[n - 1]] = Add(g[n - 1], n)
      BY Zenon, <2>1
    <2> HIDE DEF step
    <2>3. QED
      BY Zenon, <1>10, <2>2 DEF Recursion
  <1>12. Rec(g)
    BY <1>11
  <1>13. Rec(added)
    BY Zenon, <1>12
  <1> HIDE DEF added
  <1>14. added[0] = list /\ \A n \in 1 .. N : added[n] = Add(added[n - 1], n)
    BY <1>13
  <1> DEFINE Right == {n \in 0 .. N : /\ added[n] \in A
                                      /\ Range(added[n]) = Range(list) \cup Upto(n)}
  <1>15. 0 \in Right
    BY <1>4, <1>7, <1>14
  <1>16. ASSUME NEW n \in 0 .. N - 1, n \in Right
         PROVE  n + 1 \in Right
    <2>1. n + 1 \in 1 .. N /\ (n + 1) - 1 = n
      OBVIOUS
    <2>2. added[n + 1] = Add(added[n], n + 1)
      BY Zenon, <1>14, <2>1
    <2>3. QED
      BY <1>7, <1>8, <1>16, <2>1, <2>2
  <1> HIDE DEF Right
  <1>17. N \in Right
    <2>1. 0 .. N \subseteq Right
      BY Zenon, <1>15, <1>16, Induction
    <2>2. QED
      BY <2>1
  <1>18. QED
    BY ZenonT(30), <1>2, <1>3, <1>6, <1>17 DEF Right
-----------------------------------------------------------------------------
(* epoll_wait() stops somewhere in the ready list. *)
LEMMA ScannedInReady ==
  ASSUME Unique(ready, Descriptors)
  PROVE  Scanned \in 0 .. Len(ready)
  <1>1. PICK N \in Nat : N = Len(ready)
    BY DEF Unique
  <1> DEFINE L(n) == Len(Reported(n))
             Stop(n) == L(n) <= MAX_EPOLL_EVENTS /\ (n < N => L(n + 1) > MAX_EPOLL_EVENTS)
  <1>2. ASSUME NEW n \in 0 .. N
        PROVE  Reported(n) \in Seq(Descriptors) /\ Range(Reported(n)) \subseteq Range(SubSeq(ready, 1, n))
    <2>1. PICK q : q = SubSeq(ready, 1, n)
      BY Zenon
    <2>2. Unique(q, Descriptors)
      BY <1>1, <2>1, UniqueSubSeq
    <2>3. PICK R : R = Reporting
      BY Zenon
    <2>4. Unique(Filter(q, R), Descriptors) /\ Range(Filter(q, R)) = Range(q) \cap R
      BY Zenon, <2>2, UniqueFilter
    <2>5. QED
      BY ZenonT(30), <2>1, <2>3, <2>4 DEF Reported, Unique
  <1>3. \A n \in 0 .. N : L(n) \in Nat
    BY <1>2
  <1>4. L(0) = 0
    <2>1. PICK q : q = Reported(0)
      BY Zenon
    <2>2. SubSeq(ready, 1, 0) = <<>>
      BY DEF Unique
    <2>3. q \in Seq(Descriptors) /\ Range(q) = {}
      <3>1. 0 \in 0 .. N
        OBVIOUS
      <3>2. q \in Seq(Descriptors) /\ Range(q) \subseteq Range(<<>>)
        BY Zenon, <1>2, <2>1, <2>2, <3>1
      <3>3. QED
        BY ZenonT(30), <3>2, UniqueEmpty
    <2>4. Len(q) = 0
      <3>1. ASSUME Len(q) # 0
            PROVE  FALSE
        <4>1. 1 \in DOMAIN q
          BY <2>3, <3>1
        <4>2. q[1] \in Range(q)
          BY ZenonT(30), <4>1 DEF Range
        <4>3. QED
          BY ZenonT(30), <2>3, <4>2
      <3>2. QED
        BY ZenonT(30), <3>1
    <2>5. QED
      BY Zenon, <2>1, <2>4
  <1> HIDE DEF L
  <1>5. PICK T : T = {n \in 0 .. N : n = N \/ L(n + 1) > MAX_EPOLL_EVENTS}
    BY Zenon
  <1>6. PICK x \in T : \A y \in T : x <= y
    <2>1. T \in SUBSET Nat /\ T # {}
      BY <1>5
    <2>2. QED
      BY Zenon, <2>1, Smallest
  <1>7. x \in 0 .. N /\ Stop(x)
    <2>1. CASE x = 0
      BY <1>4, <1>5, <2>1, ServerAssumption
    <2>2. CASE x # 0
      <3>1. x - 1 \in 0 .. N /\ x - 1 \notin T /\ (x - 1) + 1 = x
        BY <1>5, <1>6, <2>2
      <3>2. ~(L(x) > MAX_EPOLL_EVENTS)
        BY ZenonT(30), <1>5, <3>1
      <3>3. QED
        BY <1>3, <1>5, <3>2, ServerAssumption
    <2>3. QED
      BY ZenonT(30), <2>1, <2>2
  <1>8. Scanned = CHOOSE n \in 0 .. N : Stop(n)
    BY Zenon, <1>1 DEF Scanned, L
  <1> HIDE DEF Stop
  <1>9. QED
    BY Zenon, <1>1, <1>7, <1>8
(* Only connections are live, waiting or scheduled. *)
LEMMA ListedAreConns ==
  ASSUME IInv
  PROVE  /\ live \subseteq Conns /\ Range(backlog) \subseteq Conns
         /\ Range(disconnected_sockets_) \subseteq live /\ fd_ \subseteq live
         /\ Listener \notin live
  <1>1. \A list, T : Unique(list, T) => Range(list) \subseteq T
    BY DEF Unique, Range
  <1>2. Range(sockets_) \subseteq Conns /\ Range(backlog) \subseteq Conns
    BY Zenon, <1>1 DEF IInv, ListsInv, KernelInv
  <1>3. QED
    BY ZenonT(30), <1>2, ServerAssumption DEF IInv, ListsInv, KernelInv

(* The invariant holds initially. *)
LEMMA InitIInv == Init => IInv
  <1> SUFFICES ASSUME Init PROVE IInv
    BY Zenon
  <1>1. ListsInv
    BY ZenonT(30), UniqueEmpty DEF Init, ListsInv
  <1>2. KernelInv
    BY ZenonT(30), UniqueEmpty DEF Init, KernelInv
  <1>3. CauseInv
    BY UniqueEmpty, ServerAssumption DEF Init, CauseInv
  <1>4. QED
    BY ZenonT(30), <1>1, <1>2, <1>3 DEF IInv

(* listen() and destroy() leave no socket behind. *)
LEMMA DestroyedIInv ==
  ASSUME IInv, NEW listener_open \in BOOLEAN, Destroyed(listener_open)
  PROVE  IInv'
  <1>1. ListsInv'
    BY Zenon, UniqueEmpty DEF IInv, ListsInv, Destroyed
  <1>2. KernelInv'
    <2>1. live' = {} /\ fd_' = {}
      BY Zenon DEF IInv, ListsInv, KernelInv, Destroyed
    <2>2. Range(backlog') = {} /\ Unique(backlog', Conns)
      BY Zenon, UniqueEmpty DEF Destroyed
    <2>3. open' = IF efd_' THEN {Epoll, Listener} ELSE {}
      BY Zenon DEF IInv, ListsInv, KernelInv, Destroyed
    <2>4. interest' \ {Listener} = {}
      BY Zenon DEF Destroyed
    <2>5. QED
      BY ZenonT(30), <2>1, <2>2, <2>3, <2>4 DEF KernelInv
  <1>3. CauseInv'
    <2>1. Range(disconnected_sockets_') = {} /\ failed' = {}
      BY Zenon, UniqueEmpty DEF IInv, ListsInv, KernelInv, CauseInv, Destroyed
    <2>2. /\ peer' \in [Conns -> {"none", "open", "fin", "rst", "gone"}]
          /\ queued' \in [Conns -> Nat]
      BY Zenon DEF IInv, CauseInv, Destroyed, Forget
    <2>3. buffered' \in [Conns -> 0 .. TCP_BUFFER_SIZE]
      BY ServerAssumption DEF Destroyed
    <2>4. QED
      BY ZenonT(30), <2>1, <2>2, <2>3 DEF CauseInv
  <1>4. QED
    BY ZenonT(30), <1>1, <1>2, <1>3 DEF IInv

(* poll() takes the sockets it deletes off every list and out of epoll. *)
LEMMA ReapIInv ==
  ASSUME IInv, poll_Reap
  PROVE  IInv'
  <1> DEFINE gone == Range(disconnected_sockets_)
  <1>1. /\ gone \subseteq live
        /\ live' = live \ gone /\ fd_' = fd_ \ gone /\ failed' = failed \ gone
        /\ Range(disconnected_sockets_') = {}
    BY Zenon, UniqueEmpty DEF IInv, ListsInv, poll_Reap, del
  <1>2. ListsInv'
    <2>1. Unique(sockets_', Conns) /\ Range(sockets_') = live'
      BY <1>1, UniqueWithout DEF IInv, ListsInv, poll_Reap, del
    <2>2. Unique(receive_sockets_', Conns) /\ Range(receive_sockets_') = live'
      BY <1>1, UniqueWithout DEF IInv, ListsInv, poll_Reap, del
    <2>3. Unique(send_sockets_', Conns) /\ Range(send_sockets_') \subseteq live'
      BY <1>1, UniqueWithout DEF IInv, ListsInv, poll_Reap, del
    <2>4. Unique(disconnected_sockets_', Conns)
      BY Zenon, UniqueEmpty DEF poll_Reap
    <2>5. Unique(ready', Descriptors) /\ Range(ready') \subseteq interest'
      BY UniqueWithout DEF IInv, ListsInv, poll_Reap, del, CloseConns
    <2>6. QED
      BY ZenonT(30), <1>1, <2>1, <2>2, <2>3, <2>4, <2>5 DEF ListsInv
  <1>3. KernelInv'
    <2>1. Listener \notin gone /\ Epoll \notin gone
      BY Zenon, ListedAreConns, ServerAssumption
    <2>2. /\ interest' = interest \ gone /\ open' = open \ gone
          /\ backlog' = backlog /\ efd_' = efd_
      BY Zenon DEF poll_Reap, del, CloseConns
    <2>3. \A c \in live' \cup Range(backlog') : peer'[c] # "none"
      <3>1. peer' = [c \in Conns |-> IF c \in gone THEN "gone" ELSE peer[c]]
        BY Zenon DEF poll_Reap, del, CloseConns
      <3>2. QED
        BY ZenonT(30), <1>1, <2>2, <3>1, ListedAreConns DEF IInv, KernelInv
    <2> HIDE DEF gone
    <2>4. QED
      BY ZenonT(30), <1>1, <2>1, <2>2, <2>3 DEF IInv, KernelInv
  <1>4. CauseInv'
    <2>1. /\ peer' \in [Conns -> {"none", "open", "fin", "rst", "gone"}]
          /\ queued' \in [Conns -> Nat]
      BY Zenon DEF IInv, CauseInv, poll_Reap, del, CloseConns, Forget
    <2>2. buffered' \in [Conns -> 0 .. TCP_BUFFER_SIZE]
      BY ServerAssumption DEF IInv, CauseInv, poll_Reap, del, Forget
    <2>3. failed' = {}
      BY Zenon, <1>1 DEF IInv, CauseInv
    <2>4. QED
      BY ZenonT(30), <1>1, <2>1, <2>2, <2>3 DEF CauseInv
  <1>5. QED
    BY Zenon, <1>2, <1>3, <1>4 DEF IInv
(* The steps that only move the server on. *)
LEMMA ControlIInv ==
  ASSUME IInv, UNCHANGED <<lists, objects, efd_, net, open, epollState>>
  PROVE  IInv'
  BY Zenon DEF IInv, ListsInv, KernelInv, CauseInv, Cause, lists, objects, net, epollState

(* epoll_wait() reports registered descriptors only, each at most once. *)
LEMMA BatchIsRegistered ==
  ASSUME IInv
  PROVE  /\ Unique(Reported(Scanned), Descriptors)
         /\ Range(Reported(Scanned)) \subseteq interest
         /\ Unique(SubSeq(ready, Scanned + 1, Len(ready)), Descriptors)
         /\ Range(SubSeq(ready, Scanned + 1, Len(ready))) \subseteq interest
  <1>1. Unique(ready, Descriptors) /\ Range(ready) \subseteq interest
    BY Zenon DEF IInv, ListsInv
  <1>2. PICK N \in Nat : N = Len(ready)
    BY <1>1 DEF Unique
  <1>3. PICK n \in 0 .. N : n = Scanned
    BY Zenon, <1>1, <1>2, ScannedInReady
  <1>4. PICK q, R : q = SubSeq(ready, 1, n) /\ R = Reporting
    BY Zenon
  <1>5. Unique(q, Descriptors) /\ Range(q) \subseteq Range(ready)
    BY <1>1, <1>2, <1>4, UniqueSubSeq
  <1>6. Unique(Filter(q, R), Descriptors) /\ Range(Filter(q, R)) = Range(q) \cap R
    BY Zenon, <1>5, UniqueFilter
  <1>7. Reported(Scanned) = Filter(q, R)
    BY Zenon, <1>3, <1>4 DEF Reported
  <1>8. PICK t : t = SubSeq(ready, n + 1, N)
    BY Zenon
  <1>9. Unique(t, Descriptors) /\ Range(t) \subseteq Range(ready)
    BY <1>1, <1>2, <1>8, UniqueSubSeq
  <1>10. QED
    BY ZenonT(30), <1>1, <1>2, <1>3, <1>5, <1>6, <1>7, <1>8, <1>9

(* poll() schedules a client only if it is registered, and for deletion    *)
(* only if it was reset.                                                   *)
LEMMA WaitIInv ==
  ASSUME IInv, epoll_wait
  PROVE  IInv'
  <1>1. PICK batch : batch = Reported(Scanned)
    BY Zenon
  <1>2. PICK hung_up : hung_up = {c \in Conns : "HUP" \in Events(c)}
    BY Zenon
  <1>3. PICK h, r : h = Filter(batch, hung_up) /\ r = Filter(batch, Conns \ hung_up)
    BY Zenon
  <1>4. /\ disconnected_sockets_' = addEach(disconnected_sockets_, h)
        /\ receive_sockets_' = addEach(receive_sockets_, r)
        /\ ready' = SubSeq(ready, Scanned + 1, Len(ready))
    BY Zenon, <1>1, <1>2, <1>3 DEF epoll_wait
  <1>5. UNCHANGED <<sockets_, send_sockets_, objects, efd_, net, open, backlog, interest>>
    BY Zenon DEF epoll_wait
  <1>6. Unique(batch, Descriptors) /\ Range(batch) \subseteq interest
    BY Zenon, <1>1, BatchIsRegistered
  <1>7. hung_up \subseteq Conns
    BY Zenon, <1>2
  <1>8. h \in Seq(Conns) /\ Range(h) = Range(batch) \cap hung_up
    <2>1. Unique(h, Descriptors) /\ Range(h) = Range(batch) \cap hung_up
      BY ZenonT(30), <1>3, <1>6, UniqueFilter
    <2>2. QED
      BY ZenonT(30), <1>7, <2>1, SeqByRange DEF Unique
  <1>9. r \in Seq(Conns) /\ Range(r) = Range(batch) \cap (Conns \ hung_up)
    <2>1. Unique(r, Descriptors) /\ Range(r) = Range(batch) \cap (Conns \ hung_up)
      BY ZenonT(30), <1>3, <1>6, UniqueFilter
    <2>2. QED
      BY Zenon, <2>1, SeqByRange DEF Unique
  <1>10. /\ Unique(disconnected_sockets_', Conns)
         /\ Range(disconnected_sockets_') = Range(disconnected_sockets_) \cup Range(h)
    BY <1>4, <1>8, UniqueAddEach DEF IInv, ListsInv
  <1>11. /\ Unique(receive_sockets_', Conns)
         /\ Range(receive_sockets_') = Range(receive_sockets_) \cup Range(r)
    BY <1>4, <1>9, UniqueAddEach DEF IInv, ListsInv
  <1>12. Range(batch) \cap Conns \subseteq live
    BY Zenon, <1>6, ServerAssumption DEF IInv, KernelInv
  <1>13. ListsInv'
    <2>1. Range(receive_sockets_') = live' /\ Range(disconnected_sockets_') \subseteq live'
      BY ZenonT(30), <1>5, <1>7, <1>8, <1>9, <1>10, <1>11, <1>12 DEF IInv, ListsInv, objects
    <2>2. Unique(ready', Descriptors) /\ Range(ready') \subseteq interest'
      BY ZenonT(30), <1>4, <1>5, BatchIsRegistered
    <2>3. QED
      BY ZenonT(30), <1>5, <1>10, <1>11, <2>1, <2>2 DEF IInv, ListsInv, objects
  <1>14. KernelInv'
    BY Zenon, <1>5 DEF IInv, KernelInv, objects, net
  <1>15. CauseInv'
    <2>1. \A c \in hung_up : peer[c] = "rst"
      BY Zenon, <1>2, ServerAssumption DEF Events
    <2>2. \A c \in Range(disconnected_sockets_') : Cause(c)
      BY ZenonT(30), <1>8, <1>10, <2>1 DEF IInv, CauseInv, Cause
    <2>3. QED
      BY ZenonT(30), <1>5, <1>10, <2>2 DEF IInv, CauseInv, Cause, objects, net
  <1>16. QED
    BY ZenonT(30), <1>13, <1>14, <1>15 DEF IInv
-----------------------------------------------------------------------------
(* A client that cannot be set up leaves no trace. *)
LEMMA RefusesIInv ==
  ASSUME IInv, accept_Refuses
  PROVE  IInv'
  <1>1. PICK c : c = Head(backlog)
    BY Zenon
  <1>2. /\ c \in Range(backlog) /\ c \in Conns
        /\ Unique(backlog', Conns) /\ Range(backlog') = Range(backlog) \ {c}
    BY Zenon, <1>1, UniqueTail DEF IInv, KernelInv, accept_Refuses
  <1>3. c \notin live
    BY Zenon, <1>2 DEF IInv, KernelInv
  <1>4. /\ UNCHANGED <<lists, objects, efd_, interest, ready>>
        /\ peer' = [peer EXCEPT ![c] = "gone"] /\ queued' = Forget(queued, {c})
        /\ open' = open \ {c}
    BY Zenon, <1>1 DEF accept_Refuses, Refused
  <1>5. ListsInv'
    BY Zenon, <1>4 DEF IInv, ListsInv, lists, objects
  <1>6. KernelInv'
    <2>1. open' = open
      BY ZenonT(30), <1>2, <1>3, <1>4, ServerAssumption DEF IInv, KernelInv
    <2>2. \A d \in live' \cup Range(backlog') : peer'[d] # "none"
      BY ZenonT(30), <1>2, <1>3, <1>4, ListedAreConns DEF IInv, KernelInv, CauseInv, objects
    <2>3. QED
      BY ZenonT(30), <1>2, <1>4, <2>1, <2>2 DEF IInv, KernelInv, objects
  <1>7. CauseInv'
    <2>1. /\ peer' \in [Conns -> {"none", "open", "fin", "rst", "gone"}]
          /\ queued' \in [Conns -> Nat]
      BY Zenon, <1>2, <1>4 DEF IInv, CauseInv, Forget
    <2>2. ASSUME NEW d \in Range(disconnected_sockets_)
          PROVE  Cause(d)'
      <3>1. d # c /\ d \in Conns /\ Cause(d)
        BY Zenon, <1>3, ListedAreConns DEF IInv, CauseInv
      <3>2. peer'[d] = peer[d] /\ queued'[d] = queued[d]
        BY Zenon, <1>4, <3>1 DEF IInv, CauseInv, Forget
      <3>3. QED
        BY ZenonT(30), <1>4, <3>1, <3>2 DEF Cause, objects
    <2>3. QED
      BY Zenon, <1>4, <2>1, <2>2 DEF IInv, CauseInv, lists, objects
  <1>8. QED
    BY ZenonT(30), <1>5, <1>6, <1>7 DEF IInv

(* A new client is registered and put on the two lists. *)
LEMMA AcceptIInv ==
  ASSUME IInv, accept_Client
  PROVE  IInv'
  <1>1. PICK c : c = Head(backlog)
    BY Zenon
  <1>2. /\ c \in Range(backlog) /\ c \in Conns
        /\ Unique(backlog', Conns) /\ Range(backlog') = Range(backlog) \ {c}
    BY Zenon, <1>1, UniqueTail DEF IInv, KernelInv, accept_Client
  <1>3. c \notin live /\ c \notin fd_ /\ c \notin Range(disconnected_sockets_)
    BY Zenon, <1>2, ListedAreConns DEF IInv, KernelInv
  <1>4. /\ live' = live \cup {c} /\ fd_' = fd_ \cup {c} /\ open' = open \cup {c}
        /\ interest' = interest \cup {c}
        /\ ready' = addUnique(ready, c) \/ ready' = ready
        /\ sockets_' = addUnique(sockets_, c)
        /\ receive_sockets_' = addUnique(receive_sockets_, c)
    BY Zenon, <1>1 DEF accept_Client, epollAdd
  <1>5. UNCHANGED <<send_sockets_, disconnected_sockets_, failed, buffered, efd_, net>>
    BY Zenon DEF accept_Client
  <1>6. ListsInv'
    <2>1. /\ Unique(sockets_', Conns) /\ Range(sockets_') = live'
          /\ Unique(receive_sockets_', Conns) /\ Range(receive_sockets_') = live'
      BY <1>2, <1>4, UniqueAdd DEF IInv, ListsInv
    <2>2. Unique(ready', Descriptors) /\ Range(ready') \subseteq interest'
      <3>1. c \in Descriptors
        BY Zenon, <1>2 DEF Descriptors
      <3>2. QED
        BY <1>4, <3>1, UniqueAdd DEF IInv, ListsInv
    <2>3. QED
      BY ZenonT(30), <1>4, <1>5, <2>1, <2>2 DEF IInv, ListsInv
  <1>7. KernelInv'
    BY ZenonT(30), <1>2, <1>3, <1>4, <1>5, ServerAssumption DEF IInv, KernelInv, net
  <1>8. CauseInv'
    BY ZenonT(30), <1>3, <1>4, <1>5 DEF IInv, CauseInv, Cause, net
  <1>9. QED
    BY Zenon, <1>6, <1>7, <1>8 DEF IInv
-----------------------------------------------------------------------------
(* sendAndRecv() goes on to the next socket; this one is scheduled for     *)
(* deletion if one of its flags is set.                                    *)
LEMMA NextSocketSchedules ==
  ASSUME IInv, NEW c \in fd_, NextSocket(c, failed')
  PROVE  /\ Unique(disconnected_sockets_', Conns)
         /\ Range(disconnected_sockets_') = Range(disconnected_sockets_) \cup ({c} \cap failed')
         /\ UNCHANGED <<sockets_, receive_sockets_, send_sockets_, live, efd_, backlog>>
  <1>1. c \in Conns
    BY Zenon, ListedAreConns
  <1>2. CASE c \in failed'
    BY <1>1, <1>2, UniqueAdd DEF NextSocket, IInv, ListsInv
  <1>3. CASE c \notin failed'
    BY Zenon, <1>3 DEF NextSocket, IInv, ListsInv
  <1>4. QED
    BY Zenon, <1>2, <1>3

(* A call of the socket's sendAndRecv() that does not close it: a flag it  *)
(* sets has a cause, and it takes no cause away.                           *)
LEMMA CallIInv ==
  ASSUME IInv, NEW c \in fd_, NextSocket(c, failed'),
         UNCHANGED <<fd_, peer, open, interest, ready>>,
         failed' \subseteq failed \cup {c},
         queued' \in [Conns -> Nat], buffered' \in [Conns -> 0 .. TCP_BUFFER_SIZE],
         \A d \in Conns \ {c} : queued'[d] = queued[d] /\ buffered'[d] = buffered[d],
         c \in failed' \/ Cause(c) => Cause(c)'
  PROVE  IInv'
  <1>0. /\ Unique(disconnected_sockets_', Conns)
        /\ Range(disconnected_sockets_') = Range(disconnected_sockets_) \cup ({c} \cap failed')
        /\ UNCHANGED <<sockets_, receive_sockets_, send_sockets_, live, efd_, backlog>>
        /\ c \in live /\ live \subseteq Conns
    BY Zenon, NextSocketSchedules, ListedAreConns
  <1>1. ListsInv'
    <2>1. ListsInv /\ UNCHANGED <<ready, interest>>
      BY Zenon DEF IInv
    <2>2. Range(disconnected_sockets_') \subseteq live'
      BY ZenonT(30), <1>0, <2>1 DEF ListsInv
    <2>3. QED
      BY Zenon, <1>0, <2>1, <2>2 DEF ListsInv
  <1>2. KernelInv'
    BY Zenon, <1>0 DEF IInv, KernelInv
  <1>3. CauseInv'
    <2>1. failed' \subseteq fd_' \cap Range(disconnected_sockets_')
      BY Zenon, <1>0 DEF IInv, CauseInv
    <2>2. ASSUME NEW d \in Range(disconnected_sockets_')
          PROVE  Cause(d)'
      <3>1. CASE d = c
        <4>1. c \in failed' \/ c \in Range(disconnected_sockets_)
          BY ZenonT(30), <1>0, <3>1, <2>2
        <4>2. QED
          BY ZenonT(30), <3>1, <4>1 DEF IInv, CauseInv
      <3>2. CASE d # c
        <4>1. d \in Range(disconnected_sockets_) /\ d \in Conns
          BY ZenonT(30), <3>2, <2>2, <1>0 DEF IInv, ListsInv
        <4>2. Cause(d) /\ queued'[d] = queued[d] /\ buffered'[d] = buffered[d]
          BY Zenon, <3>2, <4>1 DEF IInv, CauseInv
        <4>3. QED
          BY ZenonT(30), <4>2 DEF Cause
      <3>3. QED
        BY Zenon, <3>1, <3>2
    <2>3. QED
      BY ZenonT(30), <2>1, <2>2 DEF IInv, CauseInv
  <1>4. QED
    BY Zenon, <1>1, <1>2, <1>3 DEF IInv

(* The flush sets a flag only on a connection that was reset. *)
LEMMA FlushFlags ==
  ASSUME NEW c, NEW pending, NEW flagged, Flush(c, pending, flagged)
  PROVE  failed' \subseteq flagged \cup {c} /\ (c \in failed' => c \in flagged \/ peer[c] = "rst")
  BY Zenon DEF Flush

LEMMA NothingIInv ==
  ASSUME IInv, NEW c \in Conns, io_Nothing(c)
  PROVE  IInv'
  <1>1. /\ c \in fd_ /\ NextSocket(c, failed')
        /\ UNCHANGED <<fd_, buffered, peer, queued, open, interest, ready>>
    BY ZenonT(30) DEF io_Nothing, Processing
  <1>2. failed' \subseteq failed \cup {c} /\ (c \in failed' => c \in failed \/ peer[c] = "rst")
    BY Zenon, FlushFlags DEF io_Nothing
  <1>3. c \in failed' \/ Cause(c) => Cause(c)'
    BY ZenonT(30), <1>1, <1>2 DEF Cause, IInv, CauseInv
  <1>4. /\ queued' \in [Conns -> Nat] /\ buffered' \in [Conns -> 0 .. TCP_BUFFER_SIZE]
        /\ \A d \in Conns \ {c} : queued'[d] = queued[d] /\ buffered'[d] = buffered[d]
    BY Zenon, <1>1 DEF IInv, CauseInv
  <1>5. QED
    BY Zenon, <1>1, <1>2, <1>3, <1>4, CallIInv

LEMMA BreaksIInv ==
  ASSUME IInv, NEW c \in Conns, io_Breaks(c)
  PROVE  IInv'
  <1>1. /\ c \in fd_ /\ NextSocket(c, failed') /\ Breaks(c)
        /\ UNCHANGED <<fd_, buffered, peer, queued, open, interest, ready>>
    BY Zenon DEF io_Breaks, Processing
  <1>2. failed' \subseteq failed \cup {c}
    BY Zenon, FlushFlags DEF io_Breaks
  <1>3. Cause(c)'
    BY <1>1, ServerAssumption DEF Breaks, Cause, IInv, CauseInv
  <1>4. /\ queued' \in [Conns -> Nat] /\ buffered' \in [Conns -> 0 .. TCP_BUFFER_SIZE]
        /\ \A d \in Conns \ {c} : queued'[d] = queued[d] /\ buffered'[d] = buffered[d]
    BY Zenon, <1>1 DEF IInv, CauseInv
  <1>5. QED
    BY ZenonT(30), <1>1, <1>2, <1>3, <1>4, CallIInv

(* A call that receives: it could not have, had the socket been scheduled  *)
(* for a full buffer or an orderly close.                                  *)
LEMMA ReceivesIInv ==
  ASSUME IInv, NEW c \in Conns, NEW n \in 1 .. TCP_BUFFER_SIZE, NEW callback \in Callbacks,
         io_Receives(c, n, callback), callback # "destroy"
  PROVE  IInv'
  <1>1. /\ c \in fd_ /\ NextSocket(c, failed')
        /\ n <= queued[c] /\ n <= TCP_BUFFER_SIZE - buffered[c]
        /\ queued' = [queued EXCEPT ![c] = @ - n]
        /\ UNCHANGED <<fd_, peer, open, interest, ready>>
    BY Zenon DEF io_Receives, Processing
  <1>2. queued[c] \in Nat /\ buffered[c] \in 0 .. TCP_BUFFER_SIZE /\ TCP_BUFFER_SIZE \in Nat
    BY Zenon, ServerAssumption DEF IInv, CauseInv
  <1>3. /\ failed' \subseteq failed \cup {c} /\ (c \in failed' => c \in failed \/ peer[c] = "rst")
        /\ \E b \in 0 .. TCP_BUFFER_SIZE : buffered' = [buffered EXCEPT ![c] = b]
    <2>1. CASE callback = "keep"
      <3>1. buffered' = [buffered EXCEPT ![c] = buffered[c] + n] /\ Flush(c, unsent[c], failed)
        BY Zenon, <2>1 DEF io_Receives
      <3>2. buffered[c] + n \in 0 .. TCP_BUFFER_SIZE
        BY <1>1, <1>2
      <3>3. QED
        BY ZenonT(30), <3>1, <3>2, FlushFlags
    <2>2. CASE callback = "reply"
      <3>1. /\ buffered' = [buffered EXCEPT ![c] = 0]
            /\ Flush(c, Reply(c, buffered[c] + n), failed)
        BY Zenon, <2>2 DEF io_Receives
      <3>2. 0 \in 0 .. TCP_BUFFER_SIZE
        BY <1>2
      <3>3. QED
        BY ZenonT(30), <3>1, <3>2, FlushFlags
    <2>3. QED
      BY ZenonT(30), <2>1, <2>2, ServerAssumption
  <1>4. /\ queued' \in [Conns -> Nat] /\ buffered' \in [Conns -> 0 .. TCP_BUFFER_SIZE]
        /\ \A d \in Conns \ {c} : queued'[d] = queued[d] /\ buffered'[d] = buffered[d]
    BY <1>1, <1>2, <1>3 DEF IInv, CauseInv
  <1>5. c \in failed' \/ Cause(c) => Cause(c)'
    <2>1. c \in failed => Cause(c)
      BY ZenonT(30) DEF IInv, CauseInv
    <2>2. Cause(c) => peer[c] = "rst"
      BY <1>1, <1>2 DEF Cause
    <2>3. QED
      BY ZenonT(30), <1>1, <1>3, <2>1, <2>2 DEF Cause
  <1>6. QED
    BY ZenonT(30), <1>1, <1>3, <1>4, <1>5, CallIInv

(* The callback closes the socket: it stays on the lists, out of epoll. *)
LEMMA ClosesIInv ==
  ASSUME IInv, NEW c \in Conns, NEW n \in 1 .. TCP_BUFFER_SIZE,
         io_Receives(c, n, "destroy")
  PROVE  IInv'
  <1>1. /\ c \in fd_ /\ NextSocket(c, failed')
        /\ buffered' = Forget(buffered, {c}) /\ queued' = Forget(queued, {c})
        /\ fd_' = fd_ \ {c} /\ failed' = failed \ {c}
        /\ peer' = [d \in Conns |-> IF d \in {c} THEN "gone" ELSE peer[d]]
        /\ open' = open \ {c} /\ interest' = interest \ {c}
        /\ ready' = Without(ready, {c})
    BY Zenon DEF io_Receives, Processing, CloseConns
  <1>2. /\ UNCHANGED <<sockets_, receive_sockets_, send_sockets_, live, efd_, backlog>>
        /\ Unique(disconnected_sockets_', Conns)
        /\ Range(disconnected_sockets_') = Range(disconnected_sockets_)
    BY Zenon, <1>1, NextSocketSchedules
  <1>3. ListsInv'
    <2>1. Unique(ready', Descriptors) /\ Range(ready') \subseteq interest'
      <3>1. Unique(ready, Descriptors) /\ Range(ready) \subseteq interest
        BY Zenon DEF IInv, ListsInv
      <3>2. Unique(ready', Descriptors) /\ Range(ready') = Range(ready) \ {c}
        BY Zenon, <1>1, <3>1, UniqueWithout
      <3>3. interest' = interest \ {c}
        BY Zenon, <1>1
      <3>4. QED
        BY ZenonT(30), <3>1, <3>2, <3>3
    <2>2. QED
      BY Zenon, <1>2, <2>1 DEF IInv, ListsInv
  <1>4. KernelInv'
    <2>1. \A d \in live' \cup Range(backlog') : peer'[d] # "none"
      BY Zenon, <1>1, <1>2, ListedAreConns DEF IInv, KernelInv
    <2>2. fd_' \subseteq live' /\ interest' \ {Listener} = fd_'
      BY Zenon, <1>1, <1>2 DEF IInv, KernelInv
    <2>3. open' = fd_' \cup (IF efd_' THEN {Epoll, Listener} ELSE {})
      <3>1. c # Epoll /\ c # Listener
        BY Zenon, ServerAssumption
      <3>2. open = fd_ \cup (IF efd_ THEN {Epoll, Listener} ELSE {})
        BY Zenon DEF IInv, KernelInv
      <3>3. open' = open \ {c} /\ fd_' = fd_ \ {c} /\ efd_' = efd_
        BY ZenonT(30), <1>1, <1>2
      <3>4. QED
        BY ZenonT(30), <3>1, <3>2, <3>3
    <2>4. Unique(backlog', Conns) /\ Range(backlog') \cap live' = {}
      BY Zenon, <1>2 DEF IInv, KernelInv
    <2>5. QED
      BY Zenon, <2>1, <2>2, <2>3, <2>4 DEF KernelInv
  <1>5. CauseInv'
    <2>1. /\ peer' \in [Conns -> {"none", "open", "fin", "rst", "gone"}]
          /\ queued' \in [Conns -> Nat] /\ buffered' \in [Conns -> 0 .. TCP_BUFFER_SIZE]
      BY <1>1, ServerAssumption DEF IInv, CauseInv, Forget
    <2>2. ASSUME NEW d \in Range(disconnected_sockets_)
          PROVE  Cause(d)'
      <3>1. CASE d = c
        BY Zenon, <1>1, <3>1 DEF Cause
      <3>2. CASE d # c
        <4>1. d \in Conns /\ Cause(d)
          BY ZenonT(30), ListedAreConns DEF IInv, CauseInv
        <4>2. peer'[d] = peer[d] /\ queued'[d] = queued[d] /\ buffered'[d] = buffered[d]
          BY ZenonT(30), <1>1, <3>2, <4>1 DEF Forget
        <4>3. QED
          BY Zenon, <1>1, <3>2, <4>1, <4>2 DEF Cause
      <3>3. QED
        BY Zenon, <3>1, <3>2
    <2>3. QED
      BY ZenonT(30), <1>1, <1>2, <2>1, <2>2 DEF IInv, CauseInv
  <1>6. QED
    BY ZenonT(30), <1>3, <1>4, <1>5 DEF IInv
-----------------------------------------------------------------------------
(* An edge puts a registered descriptor on the ready list. *)
LEMMA EdgeIsRegistered ==
  ASSUME IInv, NEW d \in Descriptors
  PROVE  Unique(Edge(d), Descriptors) /\ Range(Edge(d)) \subseteq interest
  <1>1. Unique(ready, Descriptors) /\ Range(ready) \subseteq interest
    BY Zenon DEF IInv, ListsInv
  <1>2. /\ Unique(addUnique(ready, d), Descriptors)
        /\ Range(addUnique(ready, d)) = Range(ready) \cup {d}
    BY <1>1, UniqueAdd
  <1>3. QED
    BY Zenon, <1>1, <1>2 DEF Edge

(* A connection that was never used is neither waiting nor accepted. *)
LEMMA ConnectsIInv ==
  ASSUME IInv, NEW c \in Conns, client_Connects(c)
  PROVE  IInv'
  <1>1. /\ peer[c] = "none" /\ peer' = [peer EXCEPT ![c] = "open"]
        /\ backlog' = Append(backlog, c) /\ ready' = Edge(Listener)
        /\ UNCHANGED <<lists, objects, efd_, queued, open, interest>>
    BY Zenon DEF client_Connects, control
  <1>2. c \notin live /\ c \notin Range(backlog)
    BY Zenon, <1>1 DEF IInv, KernelInv
  <1>3. Unique(backlog', Conns) /\ Range(backlog') = Range(backlog) \cup {c}
    BY ZenonT(30), <1>1, <1>2, UniqueAppend DEF IInv, KernelInv
  <1>4. ListsInv'
    <2>1. Listener \in Descriptors
      BY Zenon DEF Descriptors
    <2>2. Unique(ready', Descriptors) /\ Range(ready') \subseteq interest'
      BY Zenon, <1>1, <2>1, EdgeIsRegistered
    <2>3. QED
      BY Zenon, <1>1, <2>2 DEF IInv, ListsInv, lists, objects
  <1>5. KernelInv'
    <2>1. \A d \in live' \cup Range(backlog') : peer'[d] # "none"
      BY SMTT(30), <1>1, <1>3, ListedAreConns DEF IInv, KernelInv, CauseInv, objects
    <2>2. QED
      BY ZenonT(30), <1>1, <1>2, <1>3, <2>1 DEF IInv, KernelInv, objects
  <1>6. CauseInv'
    <2>1. ASSUME NEW d \in Range(disconnected_sockets_)
          PROVE  Cause(d)'
      <3>1. d # c /\ d \in Conns /\ Cause(d)
        BY Zenon, <1>2, ListedAreConns DEF IInv, CauseInv
      <3>2. peer'[d] = peer[d]
        BY Zenon, <1>1, <3>1 DEF IInv, CauseInv
      <3>3. QED
        BY Zenon, <1>1, <3>1, <3>2 DEF Cause, objects
    <2>2. QED
      BY Zenon, <1>1, <2>1 DEF IInv, CauseInv, lists, objects
  <1>7. QED
    BY Zenon, <1>4, <1>5, <1>6 DEF IInv

(* What a client does to its own connection: the data or the end of the    *)
(* stream arrives, and no cause for dropping it goes away.                 *)
LEMMA ArrivalIInv ==
  ASSUME IInv, NEW c \in Conns, ready' = Edge(c),
         UNCHANGED <<lists, objects, efd_, open, backlog, interest>>,
         NEW p \in {"open", "fin", "rst"}, NEW q \in Nat,
         peer' = [peer EXCEPT ![c] = p], queued' = [queued EXCEPT ![c] = q],
         \/ peer[c] = "open"
         \/ peer[c] = "fin" /\ p = "rst"
  PROVE  IInv'
  <1>1. ListsInv'
    <2>1. c \in Descriptors
      BY Zenon DEF Descriptors
    <2>2. Unique(ready', Descriptors) /\ Range(ready') \subseteq interest'
      BY Zenon, <2>1, EdgeIsRegistered
    <2>3. QED
      BY Zenon, <2>2 DEF IInv, ListsInv, lists, objects
  <1>2. KernelInv'
    <2>1. \A d \in live' \cup Range(backlog') : peer'[d] # "none"
      BY Zenon, ListedAreConns DEF IInv, KernelInv, CauseInv, objects
    <2>2. QED
      BY ZenonT(30), <2>1 DEF IInv, KernelInv, objects
  <1>3. CauseInv'
    <2>1. /\ peer' \in [Conns -> {"none", "open", "fin", "rst", "gone"}]
          /\ queued' \in [Conns -> Nat]
      BY Zenon DEF IInv, CauseInv
    <2>2. ASSUME NEW d \in Range(disconnected_sockets_)
          PROVE  Cause(d)'
      <3>1. d \in Conns /\ Cause(d)
        BY Zenon, ListedAreConns DEF IInv, CauseInv
      <3>2. CASE d = c
        <4>1. peer'[d] = p
          BY ZenonT(30), <3>1, <3>2 DEF IInv, CauseInv
        <4>2. QED
          BY ZenonT(30), <3>1, <3>2, <4>1 DEF Cause, objects
      <3>3. CASE d # c
        <4>1. peer'[d] = peer[d] /\ queued'[d] = queued[d]
          BY Zenon, <3>1, <3>3 DEF IInv, CauseInv
        <4>2. QED
          BY Zenon, <3>1, <4>1 DEF Cause, objects
      <3>4. QED
        BY ZenonT(30), <3>2, <3>3
    <2>3. QED
      BY Zenon, <2>1, <2>2 DEF IInv, CauseInv, lists, objects
  <1>4. QED
    BY ZenonT(30), <1>1, <1>2, <1>3 DEF IInv

LEMMA ClientIInv ==
  ASSUME IInv, NEW c \in Conns, Client(c)
  PROVE  IInv'
  <1>1. CASE client_Connects(c)
    BY Zenon, <1>1, ConnectsIInv
  <1>2. CASE client_Sends(c)
    <2>1. PICK n \in 1 .. KernelBuffer[c] : queued' = [queued EXCEPT ![c] = @ + n]
      BY ZenonT(30), <1>2 DEF client_Sends
    <2>2. /\ peer[c] = "open" /\ ready' = Edge(c)
          /\ UNCHANGED <<lists, objects, efd_, peer, open, backlog, interest>>
      BY Zenon, <1>2 DEF client_Sends, control
    <2>3. peer' = [peer EXCEPT ![c] = "open"] /\ queued[c] + n \in Nat
      <3>1. peer \in [Conns -> {"none", "open", "fin", "rst", "gone"}]
        BY Zenon DEF IInv, CauseInv
      <3>2. queued[c] \in Nat
        BY Zenon DEF IInv, CauseInv
      <3>3. peer' = [peer EXCEPT ![c] = "open"]
        BY Zenon, <2>2, <3>1
      <3>4. n \in Nat
        BY ServerAssumption
      <3>5. queued[c] + n \in Nat
        BY <3>2, <3>4
      <3>6. QED
        BY Zenon, <3>3, <3>5
    <2>4. QED
      BY ZenonT(30), <2>1, <2>2, <2>3, ArrivalIInv
  <1>3. CASE client_Reads(c)
    <2>1. UNCHANGED <<lists, objects, efd_, peer, queued, open, epollState>>
      BY Zenon, <1>3 DEF client_Reads, control
    <2>2. QED
      BY Zenon, <2>1 DEF IInv, ListsInv, KernelInv, CauseInv, Cause, lists, objects, epollState
  <1>4. CASE client_Ends(c)
    <2>1. /\ ready' = Edge(c)
          /\ UNCHANGED <<lists, objects, efd_, queued, open, backlog, interest>>
          /\ \E p \in {"fin", "rst"} : /\ peer' = [peer EXCEPT ![c] = p]
                                       /\ peer[c] = "open" \/ (peer[c] = "fin" /\ p = "rst")
      BY Zenon, <1>4 DEF client_Ends, control
    <2>2. queued' = [queued EXCEPT ![c] = queued[c]] /\ queued[c] \in Nat
      BY Zenon, <2>1 DEF IInv, CauseInv
    <2>3. QED
      BY ZenonT(30), <2>1, <2>2, ArrivalIInv
  <1>5. QED
    BY ZenonT(30), <1>1, <1>2, <1>3, <1>4 DEF Client
-----------------------------------------------------------------------------
(* sendAndRecv() preserves the invariant. *)
LEMMA SendAndRecvIInv ==
  ASSUME IInv, sendAndRecv
  PROVE  IInv'
  <1>1. CASE EndIO
    <2>1. UNCHANGED <<lists, objects, efd_, net, open, epollState>>
      BY Zenon, <1>1 DEF EndIO
    <2>2. QED
      BY Zenon, <2>1, ControlIInv
  <1>2. CASE io_Closed
    <2>1. Worklist[work] \notin failed
      BY Zenon, <1>2 DEF io_Closed, IInv, CauseInv
    <2>2. UNCHANGED <<lists, objects, efd_, net, open, epollState>>
      BY Zenon, <1>2, <2>1 DEF io_Closed, NextSocket, lists, objects, epollState
    <2>3. QED
      BY Zenon, <2>2, ControlIInv
  <1>3. ASSUME NEW c \in Conns, io_Call(c)
        PROVE  IInv'
    <2>1. CASE io_Nothing(c)
      BY Zenon, <2>1, NothingIInv
    <2>2. CASE io_Breaks(c)
      BY Zenon, <2>2, BreaksIInv
    <2>3. ASSUME NEW n \in 1 .. TCP_BUFFER_SIZE, NEW callback \in Callbacks,
                 io_Receives(c, n, callback)
          PROVE  IInv'
      <3>1. CASE callback = "destroy"
        BY Zenon, <2>3, <3>1, ClosesIInv
      <3>2. CASE callback # "destroy"
        BY Zenon, <2>3, <3>2, ReceivesIInv
      <3>3. QED
        BY Zenon, <3>1, <3>2
    <2>4. QED
      BY Zenon, <1>3, <2>1, <2>2, <2>3 DEF io_Call
  <1>4. QED
    BY Zenon, <1>1, <1>2, <1>3 DEF sendAndRecv

(* Every step preserves the invariant. *)
LEMMA NextIInv ==
  ASSUME IInv, [Next]_serverVars
  PROVE  IInv'
  <1>1. CASE listen \/ destroy
    <2>1. PICK listener_open \in BOOLEAN : Destroyed(listener_open)
      BY Zenon, <1>1 DEF listen, destroy
    <2>2. QED
      BY Zenon, <2>1, DestroyedIInv
  <1>2. CASE poll_Reap
    BY Zenon, <1>2, ReapIInv
  <1>3. CASE epoll_wait
    BY Zenon, <1>3, WaitIInv
  <1>4. CASE accept_Refuses
    BY Zenon, <1>4, RefusesIInv
  <1>5. CASE accept_Client
    BY Zenon, <1>5, AcceptIInv
  <1>6. CASE epoll_wait_Fails \/ accept_Empty \/ accept_Error \/ BeginIO
    <2>1. UNCHANGED <<lists, objects, efd_, net, open, epollState>>
      BY Zenon, <1>6 DEF epoll_wait_Fails, accept_Empty, accept_Error, BeginIO
    <2>2. QED
      BY ZenonT(30), <2>1, ControlIInv
  <1>7. CASE sendAndRecv
    BY Zenon, <1>7, SendAndRecvIInv
  <1>8. ASSUME NEW c \in Conns, Client(c)
        PROVE  IInv'
    BY Zenon, <1>8, ClientIInv
  <1>9. CASE UNCHANGED serverVars
    <2>1. UNCHANGED <<lists, objects, efd_, net, open, epollState>>
      BY Zenon, <1>9 DEF serverVars, control
    <2>2. QED
      BY Zenon, <2>1, ControlIInv
  <1>10. QED
    BY ZenonT(30), <1>1, <1>2, <1>3, <1>4, <1>5, <1>6, <1>7, <1>8, <1>9 DEF Next, accept

(* The invariant holds of every behaviour. *)
LEMMA ServerInvariant == SafeSpec => []IInv
  BY InitIInv, NextIInv, PTL DEF SafeSpec
-----------------------------------------------------------------------------
(* No list of the server and no epoll registration ever points to a        *)
(* deleted TCPSocket, and none holds a socket twice.                       *)
THEOREM ServerHasNoDanglingPointers == SafeSpec => []NoDanglingPointers
  <1>1. ASSUME IInv
        PROVE  NoDanglingPointers
    <2> DEFINE registered == Without(ready, {Listener})
    <2>1. /\ Unique(registered, Descriptors) /\ Range(registered) \subseteq live
      <3>1. Unique(ready, Descriptors) /\ Range(ready) \ {Listener} \subseteq live
        BY Zenon, <1>1 DEF IInv, ListsInv, KernelInv
      <3>2. QED
        BY ZenonT(30), <3>1, UniqueWithout
    <2> HIDE DEF registered
    <2>2. Range(lists) = {sockets_, receive_sockets_, send_sockets_, disconnected_sockets_}
      BY DEF lists, Range
    <2>3. \A list \in Range(lists) \cup {registered} : Range(list) \subseteq live /\ IsInjective(list)
      BY ZenonT(30), <1>1, <2>1, <2>2 DEF IInv, ListsInv, Unique
    <2>4. QED
      BY Zenon, <2>3 DEF NoDanglingPointers, registered
  <1>2. QED
    BY <1>1, ServerInvariant, PTL

(* Between calls the server owns every socket it created, receives from    *)
(* every one, and has exactly the open ones registered with epoll.         *)
THEOREM ServerServesEverySocket == SafeSpec => []EverySocketIsServed
  <1>1. IInv => EverySocketIsServed
    BY DEF IInv, ListsInv, KernelInv, EverySocketIsServed
  <1>2. QED
    BY <1>1, ServerInvariant, PTL

(* Whatever listen(), poll(), sendAndRecv(), destroy() and the callbacks   *)
(* do, the process holds exactly the server's descriptors.                 *)
THEOREM ServerLeaksNoDescriptor == SafeSpec => []NoDescriptorLeak
  <1>1. IInv => NoDescriptorLeak
    BY DEF IInv, KernelInv, NoDescriptorLeak
  <1>2. QED
    BY <1>1, ServerInvariant, PTL

(* Between calls, every socket with a disconnected flag is on the list of  *)
(* sockets that the next poll() deletes.                                   *)
THEOREM ServerSchedulesFailedSockets == SafeSpec => []FailedSocketsScheduled
  <1>1. IInv => FailedSocketsScheduled
    BY DEF IInv, CauseInv, FailedSocketsScheduled
  <1>2. QED
    BY <1>1, ServerInvariant, PTL

(* poll() never deletes a healthy connection, and never one that was       *)
(* closed in an orderly way while data of it is unread.                    *)
THEOREM ServerDropsForCause == SafeSpec => DroppedForCause
  <1> DEFINE Dropped == pc = "idle" /\ pc' = "wait" => \A c \in live \ live' : Cause(c)
  <1>1. ASSUME IInv, [Next]_serverVars
        PROVE  [Dropped]_serverVars
    <2> SUFFICES ASSUME Next, pc = "idle", pc' = "wait"
                 PROVE  \A c \in live \ live' : Cause(c)
      BY Zenon, <1>1
    <2>1. CASE poll_Reap
      <3>1. live \ live' \subseteq Range(disconnected_sockets_)
        BY Zenon, <2>1 DEF poll_Reap, del
      <3>2. QED
        BY Zenon, <1>1, <3>1 DEF IInv, CauseInv
    <2>2. CASE listen \/ destroy
      BY ZenonT(30), <2>2 DEF listen, destroy, Destroyed
    <2>3. CASE epoll_wait \/ epoll_wait_Fails \/ accept \/ accept_Error \/ BeginIO
      BY Zenon, <2>3 DEF epoll_wait, epoll_wait_Fails, accept, accept_Empty, accept_Refuses,
                  accept_Client, accept_Error, BeginIO
    <2>4. CASE sendAndRecv
      BY ZenonT(30), <2>4 DEF sendAndRecv, EndIO, io_Closed, io_Call, io_Nothing, io_Breaks, io_Receives,
                  Processing
    <2>5. ASSUME NEW c \in Conns, Client(c)
          PROVE  FALSE
      BY Zenon, <2>5 DEF Client, client_Connects, client_Sends, client_Reads, client_Ends, control
    <2>6. QED
      BY Zenon, <2>1, <2>2, <2>3, <2>4, <2>5 DEF Next
  <1>2. QED
    BY <1>1, ServerInvariant, PTL DEF SafeSpec, DroppedForCause
=============================================================================
