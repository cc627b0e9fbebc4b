--------------------------- MODULE Utilities_proofs ---------------------------
(***************************************************************************)
(* Proofs about two operations that one thread runs from start to end:     *)
(* createSocket(), for every number of addresses and every set of          *)
(* descriptors, and the formatting of Logger::log(), for messages of every *)
(* length, all characters and all arguments.                               *)
(***************************************************************************)
EXTENDS SocketUtils, LogFormat, Filters_proofs, FiniteSetTheorems

(* createSocket() closes what it opened on every path that does not return *)
(* it.                                                                     *)
THEOREM SocketNeverLeaks == Spec => []NoDescriptorLeak
  <1>1. Init => NoDescriptorLeak
    BY DEF Init, NoDescriptorLeak
  <1>2. NoDescriptorLeak /\ [Next]_socketVars => NoDescriptorLeak'
    <2> SUFFICES ASSUME NoDescriptorLeak, [Next]_socketVars
                 PROVE  NoDescriptorLeak'
      OBVIOUS
    <2>1. CASE socket_Opens
      BY <2>1, SocketAssumption DEF socket_Opens, NoDescriptorLeak
    <2>2. CASE Call_Fails
      BY <2>2 DEF Call_Fails, NoDescriptorLeak
    <2>3. CASE UNCHANGED <<fd, open>>
      BY <2>3 DEF NoDescriptorLeak
    <2>4. QED
      BY <2>1, <2>2, <2>3
      DEF Next, NoAddress, getIfaceIP, getaddrinfo, socket_Fails, Call_Succeeds, LoopEnds,
          socketVars
  <1>3. QED
    BY <1>1, <1>2, PTL DEF Spec
-----------------------------------------------------------------------------
(* The calls made for a candidate are needed, and made in order: none      *)
(* before an earlier one that is needed.  createSocket() returns a socket  *)
(* only when none is missing.                                              *)
CallsInv ==
  /\ applied \subseteq {Calls[i] : i \in {j \in DOMAIN Calls : Needed(Calls[j], request)}}
  /\ \A i, j \in DOMAIN Calls :
       i < j /\ Calls[j] \in applied /\ Needed(Calls[i], request) => Calls[i] \in applied
  /\ pc = "returned" /\ fd # -1 => Missing = {}
  /\ pc \in {"ip", "getaddrinfo"} => fd = -1
  /\ NoDescriptorLeak

(* The next call is the first one missing. *)
LEMMA NextCallIsFirst ==
  ASSUME Missing # {}
  PROVE  \E k \in Missing : NextCall = Calls[k] /\ \A i \in Missing : k <= i
  <1>1. PICK M : M = Missing
    OBVIOUS
  <1>2. M \in SUBSET Nat /\ M # {}
    BY <1>1 DEF Missing, Calls
  <1>3. \E k \in M : \A i \in M : k <= i
    BY <1>2, Smallest
  <1>4. QED
    BY Zenon, <1>1, <1>3 DEF NextCall, Min

(* No call is made twice or in two places. *)
LEMMA CallsDiffer ==
  ASSUME NEW i \in DOMAIN Calls, NEW j \in DOMAIN Calls, Calls[i] = Calls[j]
  PROVE  i = j
  BY DEF Calls

LEMMA CallsInvariant == Spec => []CallsInv
  <1>1. Init => CallsInv
    BY DEF Init, CallsInv, NoDescriptorLeak
  <1>2. CallsInv /\ [Next]_socketVars => CallsInv'
    <2> SUFFICES ASSUME CallsInv, [Next]_socketVars
                 PROVE  CallsInv'
      OBVIOUS
    <2>0. DOMAIN Calls \subseteq Nat
      BY DEF Calls
    <2>1. CASE socket_Opens
      BY <2>1, SocketAssumption DEF socket_Opens, CallsInv, NoDescriptorLeak
    <2>2. CASE Call_Fails
      BY <2>2 DEF Call_Fails, CallsInv, NoDescriptorLeak
    <2>3. CASE Call_Succeeds
      <3>1. PICK k \in Missing : NextCall = Calls[k] /\ \A i \in Missing : k <= i
        BY <2>3, NextCallIsFirst DEF Call_Succeeds, BodyDone
      <3>2. /\ applied' = applied \cup {Calls[k]} /\ k \in DOMAIN Calls
            /\ Needed(Calls[k], request)
            /\ UNCHANGED <<request, pc, fd, open>> /\ pc = "try"
        BY <2>3, <3>1 DEF Call_Succeeds, Missing
      <3>3. ASSUME NEW i \in DOMAIN Calls, NEW j \in DOMAIN Calls, i < j,
                   Calls[j] \in applied', Needed(Calls[i], request)
            PROVE  Calls[i] \in applied'
        <4>1. CASE Calls[j] \in applied
          BY <3>2, <3>3, <4>1 DEF CallsInv
        <4>2. CASE Calls[j] = Calls[k]
          <5>1. j = k
            BY <3>2, <4>2, CallsDiffer
          <5>2. i \notin Missing
            BY <2>0, <3>1, <3>2, <3>3, <5>1
          <5>3. QED
            BY <3>2, <3>3, <5>2 DEF Missing
        <4>3. QED
          BY <3>2, <3>3, <4>1, <4>2
      <3>4. QED
        BY <3>2, <3>3 DEF CallsInv, NoDescriptorLeak
    <2>4. CASE LoopEnds
      BY <2>4 DEF LoopEnds, BodyDone, Return, CallsInv, NoDescriptorLeak, Missing
    <2>5. CASE NoAddress \/ getIfaceIP \/ getaddrinfo \/ socket_Fails \/ UNCHANGED socketVars
      BY <2>5 DEF NoAddress, getIfaceIP, getaddrinfo, socket_Fails, Return, socketVars,
                  CallsInv, NoDescriptorLeak, Missing
    <2>6. QED
      BY <2>1, <2>2, <2>3, <2>4, <2>5 DEF Next
  <1>3. QED
    BY <1>1, <1>2, PTL DEF Spec

(* createSocket() returns only a socket on which every step of its kind    *)
(* succeeded for one address, in an order that gives each its meaning.     *)
THEOREM SocketIsComplete == Spec => []ReturnedSocketIsComplete
  <1>1. ASSUME CallsInv
        PROVE  ReturnedSocketIsComplete
    <2>1. /\ Calls[1] = "setNonBlocking" /\ Calls[2] = "setNoDelay" /\ Calls[3] = "connect"
          /\ Calls[4] = "SO_REUSEADDR" /\ Calls[5] = "bind" /\ Calls[6] = "listen"
          /\ Calls[7] = "setSOTimestamp" /\ DOMAIN Calls = 1 .. 7
      BY DEF Calls
    <2>2. \A c \in applied : Needed(c, request)
      BY <1>1 DEF CallsInv
    <2>3. "connect" \in applied => "setNonBlocking" \in applied \/ request.is_blocking
      <3>1. Calls[3] \in applied /\ Needed(Calls[1], request) => Calls[1] \in applied
        BY <1>1, <2>1 DEF CallsInv
      <3>2. ~request.is_blocking => Needed("setNonBlocking", request)
        BY DEF Needed
      <3>3. QED
        BY <2>1, <3>1, <3>2
    <2>4. "listen" \in applied => "bind" \in applied
      <3>1. Calls[6] \in applied /\ Needed(Calls[5], request) => Calls[5] \in applied
        BY <1>1, <2>1 DEF CallsInv
      <3>2. "listen" \in applied => Needed("bind", request)
        BY <2>2 DEF Needed
      <3>3. QED
        BY <2>1, <3>1, <3>2
    <2>5. ASSUME pc = "returned", fd # -1
          PROVE  \A c \in {"setNonBlocking", "setNoDelay", "connect", "SO_REUSEADDR", "bind",
                           "listen", "setSOTimestamp"} : Needed(c, request) => c \in applied
      <3>1. \A i \in 1 .. 7 : Needed(Calls[i], request) => Calls[i] \in applied
        BY <1>1, <2>1, <2>5 DEF CallsInv, Missing
      <3>2. QED
        BY <2>1, <3>1
    <2>6. ASSUME pc = "returned", fd # -1
          PROVE  /\ fd \in open
                 /\ request.is_listening =>
                      /\ {"SO_REUSEADDR", "bind"} \subseteq applied
                      /\ "connect" \notin applied
                      /\ "listen" \in applied <=> ~request.is_udp
                 /\ ~request.is_listening => "connect" \in applied /\ "bind" \notin applied
                 /\ ~request.is_blocking => "setNonBlocking" \in applied
                 /\ ~request.is_udp => "setNoDelay" \in applied
                 /\ request.needs_so_timestamp => "setSOTimestamp" \in applied
      <3>1. fd \in open
        BY <1>1, <2>6 DEF CallsInv, NoDescriptorLeak
      <3>2. QED
        BY <2>2, <2>5, <2>6, <3>1 DEF Needed
    <2>7. QED
      BY <2>3, <2>4, <2>6 DEF ReturnedSocketIsComplete
  <1>2. QED
    BY <1>1, CallsInvariant, PTL
-----------------------------------------------------------------------------
(* Logger::log(). *)

(* What an argument is pushed as is a sequence of elements. *)
LEMMA ArgumentPushed ==
  ASSUME NEW value \in Seq(Elements)
  PROVE  pushArgument(value) \in Seq(Elements)
  <1>1. CASE NUL \notin Range(value)
    BY <1>1 DEF pushArgument
  <1>2. CASE NUL \in Range(value)
    <2> DEFINE First(n) == value[n] = NUL /\ \A m \in 1 .. n - 1 : value[m] # NUL
               T == {n \in DOMAIN value : value[n] = NUL}
    <2>1. T \in SUBSET Nat /\ T # {}
      BY <1>2 DEF Range
    <2>2. PICK x \in T : \A y \in T : x <= y
      <3> HIDE DEF T
      <3>1. QED
        BY <2>1, Smallest
    <2>3. x \in DOMAIN value /\ First(x)
      <3>1. x \in DOMAIN value /\ value[x] = NUL /\ x \in Nat
        BY <2>2
      <3>2. ASSUME NEW m \in 1 .. x - 1, value[m] = NUL
            PROVE  FALSE
        <4>1. m \in T /\ m < x
          BY <3>1, <3>2
        <4>2. QED
          BY <2>2, <3>1, <4>1
      <3>3. QED
        BY <3>1, <3>2
    <2>4. PICK k : k = CHOOSE n \in DOMAIN value : First(n)
      OBVIOUS
    <2>5. k \in DOMAIN value
      <3> HIDE DEF First
      <3>1. QED
        BY <2>3, <2>4
    <2>6. pushArgument(value) = SubSeq(value, 1, k - 1)
      BY Zenon, <1>2, <2>4 DEF pushArgument
    <2>7. SubSeq(value, 1, k - 1) \in Seq(Elements)
      <3>1. k - 1 \in Nat /\ k - 1 <= Len(value)
        BY <2>5
      <3>2. \A n \in 1 .. k - 1 : value[n] \in Elements
        BY <3>1
      <3>3. QED
        BY <3>1, <3>2
    <2>8. QED
      BY <2>6, <2>7
  <1>3. QED
    BY <1>1, <1>2
-----------------------------------------------------------------------------
(* Counting. *)

(* The run of percent signs that ends at the next position. *)
LEMMA RunSteps ==
  ASSUME NEW m, NEW n \in Nat
  PROVE  /\ RunEndingAt(m, 0) = 0 /\ RunEndingAt(m, n) \in Nat
         /\ m[n + 1] = Percent => RunEndingAt(m, n + 1) = RunEndingAt(m, n) + 1
         /\ m[n + 1] # Percent => RunEndingAt(m, n + 1) = 0
  <1> DEFINE Run(i) == {j \in 1 .. i : \A k \in j .. i : m[k] = Percent}
  <1>1. \A i \in Nat : IsFiniteSet(Run(i)) /\ RunEndingAt(m, i) = Cardinality(Run(i))
    <2> SUFFICES ASSUME NEW i \in Nat PROVE IsFiniteSet(Run(i))
      BY Zenon DEF RunEndingAt
    <2>1. IsFiniteSet(1 .. i)
      BY FS_Interval
    <2>2. Run(i) \subseteq 1 .. i
      OBVIOUS
    <2> HIDE DEF Run
    <2>3. QED
      BY <2>1, <2>2, FS_Subset
  <1>2. Run(0) = {}
    OBVIOUS
  <1>3. m[n + 1] # Percent => Run(n + 1) = {}
    OBVIOUS
  <1>4. m[n + 1] = Percent => Run(n + 1) = Run(n) \cup {n + 1}
    <2> SUFFICES ASSUME m[n + 1] = Percent PROVE Run(n + 1) = Run(n) \cup {n + 1}
      OBVIOUS
    <2>1. ASSUME NEW j \in Run(n + 1), j # n + 1
          PROVE  j \in Run(n)
      BY <2>1
    <2>2. ASSUME NEW j \in Run(n)
          PROVE  j \in Run(n + 1)
      <3>1. ASSUME NEW k \in j .. n + 1 PROVE m[k] = Percent
        <4>1. k \in j .. n \/ k = n + 1
          OBVIOUS
        <4>2. QED
          BY <4>1
      <3>2. QED
        BY <3>1
    <2>3. n + 1 \in Run(n + 1)
      OBVIOUS
    <2>4. QED
      BY Zenon, <2>1, <2>2, <2>3
  <1>5. n + 1 \notin Run(n)
    OBVIOUS
  <1> HIDE DEF Run
  <1>6. Cardinality(Run(n)) \in Nat /\ Cardinality({}) = 0
    BY <1>1, FS_CardinalityType, FS_EmptySet
  <1>7. m[n + 1] = Percent => Cardinality(Run(n + 1)) = Cardinality(Run(n)) + 1
    BY <1>1, <1>4, <1>5, FS_AddElement
  <1>8. QED
    BY <1>1, <1>2, <1>3, <1>6, <1>7

(* The placeholders up to the next position. *)
LEMMA PlaceholderSteps ==
  ASSUME NEW m, NEW n \in Nat
  PROVE  /\ Placeholders(m, 0) = 0 /\ Placeholders(m, n) \in Nat
         /\ Placeholders(m, n + 1) = IF Placeholder(m, n + 1) THEN Placeholders(m, n) + 1
                                     ELSE Placeholders(m, n)
  <1> DEFINE P(i) == {j \in 1 .. i : Placeholder(m, j)}
  <1>1. \A i \in Nat : IsFiniteSet(P(i)) /\ Placeholders(m, i) = Cardinality(P(i))
    <2> SUFFICES ASSUME NEW i \in Nat PROVE IsFiniteSet(P(i))
      BY Zenon DEF Placeholders
    <2>1. IsFiniteSet(1 .. i)
      BY FS_Interval
    <2>2. P(i) \subseteq 1 .. i
      OBVIOUS
    <2> HIDE DEF P
    <2>3. QED
      BY <2>1, <2>2, FS_Subset
  <1>2. P(0) = {} /\ n + 1 \notin P(n)
    OBVIOUS
  <1>3. P(n + 1) = IF Placeholder(m, n + 1) THEN P(n) \cup {n + 1} ELSE P(n)
    <2>1. \A j : j \in 1 .. n + 1 <=> j \in 1 .. n \/ j = n + 1
      OBVIOUS
    <2>2. QED
      BY Zenon, <2>1
  <1> HIDE DEF P
  <1>4. Cardinality(P(n)) \in Nat /\ Cardinality({}) = 0
    BY <1>1, FS_CardinalityType, FS_EmptySet
  <1>5. Cardinality(P(n) \cup {n + 1}) = Cardinality(P(n)) + 1
    BY Zenon, <1>1, <1>2, FS_AddElement
  <1>6. QED
    BY <1>1, <1>2, <1>3, <1>4, <1>5
-----------------------------------------------------------------------------
(* The definition that does not scan, one position after the other. *)

LEMMA ContributionPushed ==
  ASSUME NEW m \in Seq(Chars \cup {Percent}), NEW values \in Seq(Arguments), NEW n \in 1 .. Len(m)
  PROVE  Contribution(m, n, values) \in Seq(Elements)
  <1>1. m[n] \in Elements /\ Percent \in Elements
    BY FormatAssumption
  <1>2. <<m[n]>> \in Seq(Elements) /\ <<Percent>> \in Seq(Elements) /\ <<>> \in Seq(Elements)
    BY <1>1
  <1>3. ASSUME Placeholder(m, n), Placeholders(m, n) <= Len(values)
        PROVE  pushArgument(values[Placeholders(m, n)]) \in Seq(Elements)
    <2>1. PICK k \in Nat : k + 1 = n
      <3>1. n - 1 \in Nat /\ (n - 1) + 1 = n
        OBVIOUS
      <3>2. QED
        BY <3>1
    <2>2. Placeholders(m, n) \in Nat \ {0}
      <3>1. Placeholders(m, k) \in Nat /\ Placeholders(m, k + 1) = Placeholders(m, k) + 1
        BY Zenon, <1>3, <2>1, PlaceholderSteps
      <3>2. QED
        BY <2>1, <3>1
    <2>3. values[Placeholders(m, n)] \in Arguments
      BY <1>3, <2>2
    <2>4. QED
      BY <2>3, ArgumentPushed, FormatAssumption
  <1>4. QED
    BY <1>2, <1>3 DEF Contribution

(* g[n] is what the first n characters contribute. *)
Contributes(m, values, N, g) ==
  /\ g[0] = <<>>
  /\ \A n \in 1 .. N : g[n] = g[n - 1] \o Contribution(m, n, values)
  /\ Formatted(m, values) = g[N]

LEMMA FormattedSteps ==
  ASSUME NEW m \in Seq(Chars \cup {Percent}), NEW values \in Seq(Arguments),
         NEW N \in Nat, N = Len(m)
  PROVE  \E g \in [0 .. N -> Seq(Elements)] : Contributes(m, values, N, g)
  <1> DEFINE A == Seq(Elements)
             Add(q, n) == q \o Contribution(m, n, values)
             empty == <<>>
             Rec(f) == f = [n \in 0 .. N |-> IF n = 0 THEN empty ELSE Add(f[n - 1], n)]
             upTo == CHOOSE f : Rec(f)
  <1>1. Formatted(m, values) = upTo[N]
    BY Zenon DEF Formatted
  <1>2. empty \in A /\ \A n \in 1 .. N, q \in A : Add(q, n) \in A
    <2>1. \A n \in 1 .. N : Contribution(m, n, values) \in A
      BY ContributionPushed
    <2>2. QED
      BY <2>1
  <1> SUFFICES \E g \in [0 .. N -> A] : /\ g[0] = empty
                                        /\ \A n \in 1 .. N : g[n] = Add(g[n - 1], n)
                                        /\ Formatted(m, values) = g[N]
    BY Zenon DEF Contributes
  <1> HIDE DEF A, Add, empty
  <1> DEFINE step == [n \in 1 .. N |-> [q \in A |-> Add(q, n)]]
  <1>3. step \in [1 .. N -> [A -> A]]
    BY <1>2
  <1>4. PICK g \in [0 .. N -> A] : Recursion(N, empty, step, g)
    <2> HIDE DEF step
    <2>1. QED
      BY Zenon, <1>2, <1>3, RecursionExists
  <1>5. g[0] = empty /\ \A n \in 1 .. N : g[n] = Add(g[n - 1], n)
    <2>1. g[0] = empty /\ \A n \in 1 .. N : g[n] = step[n][g[n - 1]]
      BY Zenon, <1>4 DEF Recursion
    <2>2. ASSUME NEW n \in 1 .. N
          PROVE  g[n] = Add(g[n - 1], n)
      <3>1. n - 1 \in 0 .. N
        OBVIOUS
      <3>0. g[n - 1] \in A
        BY Zenon, <1>4, <3>1
      <3>2. step[n][g[n - 1]] = Add(g[n - 1], n)
        BY Zenon, <3>0
      <3>3. QED
        BY Zenon, <2>1, <3>2
    <2>3. QED
      BY <2>1, <2>2
  <1>6. Rec(g)
    BY <1>4, <1>5
  <1>7. Rec(upTo)
    BY Zenon, <1>6
  <1> HIDE DEF upTo
  <1>8. upTo[0] = empty /\ \A n \in 1 .. N : upTo[n] = Add(upTo[n - 1], n)
    <2>1. 0 \in 0 .. N /\ \A n \in 1 .. N : n \in 0 .. N /\ n # 0
      OBVIOUS
    <2>2. \A n \in 0 .. N : upTo[n] = IF n = 0 THEN empty ELSE Add(upTo[n - 1], n)
      BY Zenon, <1>7
    <2>3. QED
      BY Zenon, <2>1, <2>2
  <1> DEFINE Same == {n \in 0 .. N : upTo[n] = g[n]}
  <1>9. 0 \in Same /\ \A n \in 0 .. N - 1 : n \in Same => n + 1 \in Same
    <2>1. 0 \in Same
      BY <1>5, <1>8
    <2>2. ASSUME NEW n \in 0 .. N - 1, upTo[n] = g[n]
          PROVE  upTo[n + 1] = g[n + 1] /\ n + 1 \in 0 .. N
      <3>1. n + 1 \in 1 .. N /\ n + 1 \in 0 .. N /\ (n + 1) - 1 = n
        OBVIOUS
      <3>2. upTo[n + 1] = Add(upTo[n], n + 1) /\ g[n + 1] = Add(g[n], n + 1)
        BY <3>1, <1>5, <1>8
      <3>3. QED
        BY Zenon, <2>2, <3>1, <3>2
    <2>3. QED
      BY <2>1, <2>2
  <1> HIDE DEF Same
  <1>10. N \in Same
    <2>1. 0 .. N \subseteq Same
      BY Zenon, <1>9, Induction
    <2>2. QED
      BY <2>1
  <1>11. QED
    BY Zenon, <1>1, <1>4, <1>5, <1>10 DEF Same
-----------------------------------------------------------------------------
(* The scan has pushed what the characters before s contribute and used an *)
(* argument for each placeholder among them, and s is not in the middle of *)
(* a pair: an even number of percent signs comes before it, or it is not   *)
(* one itself.                                                             *)
ScanInv ==
  /\ message \in Seq(Chars \cup {Percent}) /\ args \in Seq(Arguments)
  /\ s \in 1 .. Len(message) + 1 /\ used \in 0 .. Len(args)
  /\ \E g \in [0 .. Len(message) -> Seq(Elements)] :
       Contributes(message, args, Len(message), g) /\ pushed = g[s - 1]
  /\ used = IF Placeholders(message, s - 1) <= Len(args)
            THEN Placeholders(message, s - 1) ELSE Len(args)
  /\ RunEndingAt(message, s - 1) % 2 = 0 \/ (s <= Len(message) => message[s] # Percent)

LEMMA InitScanInv ==
  ASSUME FormatInit
  PROVE  ScanInv
  <1>1. message \in Seq(Chars \cup {Percent}) /\ args \in Seq(Arguments)
    BY DEF FormatInit
  <1>2. PICK N \in Nat : N = Len(message)
    BY <1>1
  <1>3. PICK g \in [0 .. N -> Seq(Elements)] : Contributes(message, args, N, g)
    BY <1>1, <1>2, FormattedSteps
  <1>4. s = 1 /\ used = 0 /\ pushed = g[0]
    BY <1>3 DEF FormatInit, Contributes
  <1>5. Placeholders(message, 0) = 0 /\ RunEndingAt(message, 0) = 0
    BY Zenon, PlaceholderSteps, RunSteps
  <1>6. QED
    BY <1>1, <1>2, <1>3, <1>4, <1>5 DEF ScanInv

(* What the character at s contributes, and what follows for the position  *)
(* after it.                                                               *)
LEMMA AtPosition ==
  ASSUME ScanInv, s <= Len(message), NEW k \in Nat, s = k + 1
  PROVE  LET run == RunEndingAt(message, k)
             seen == Placeholders(message, k)
         IN  /\ run \in Nat /\ seen \in Nat
             /\ message[s] = Percent => run % 2 = 0
             /\ message[s] # Percent =>
                  /\ Contribution(message, s, args) = <<message[s]>>
                  /\ RunEndingAt(message, s) = 0 /\ Placeholders(message, s) = seen
             /\ IsPair(message, s) =>
                  /\ Contribution(message, s, args) = <<>>
                  /\ RunEndingAt(message, s) = run + 1 /\ Placeholders(message, s) = seen
             /\ message[s] = Percent /\ ~IsPair(message, s) =>
                  /\ Contribution(message, s, args) =
                       IF seen + 1 <= Len(args) THEN pushArgument(args[seen + 1]) ELSE <<Percent>>
                  /\ Placeholders(message, s) = seen + 1
  <1>1. PICK m, run, seen, N : /\ m = message /\ N = Len(m)
                              /\ run = RunEndingAt(m, k) /\ seen = Placeholders(m, k)
    OBVIOUS
  <1>2. N \in Nat /\ k + 1 \in 1 .. N
    BY <1>1 DEF ScanInv
  <1>3. /\ run \in Nat
        /\ m[k + 1] = Percent => RunEndingAt(m, k + 1) = run + 1
        /\ m[k + 1] # Percent => RunEndingAt(m, k + 1) = 0
    BY <1>1, RunSteps
  <1>4. /\ seen \in Nat
        /\ Placeholders(m, k + 1) = IF Placeholder(m, k + 1) THEN seen + 1 ELSE seen
    BY Zenon, <1>1, PlaceholderSteps
  <1>5. m[k + 1] = Percent => run % 2 = 0
    BY <1>1, <1>2 DEF ScanInv
  <1>6. m[k + 1] # Percent => ~Placeholder(m, k + 1) /\ ~PairEnd(m, k + 1)
    BY <1>3 DEF Placeholder, PairEnd
  <1>7. m[k + 1] = Percent => (run + 1) % 2 = 1
    BY <1>3, <1>5
  <1>8. IsPair(m, k + 1) => ~Placeholder(m, k + 1) /\ ~PairEnd(m, k + 1)
    <2> SUFFICES ASSUME IsPair(m, k + 1)
                 PROVE  ~Placeholder(m, k + 1) /\ ~PairEnd(m, k + 1)
      OBVIOUS
    <2>1. m[k + 1] = Percent /\ k + 1 < N /\ m[(k + 1) + 1] = Percent
      BY Zenon, <1>1 DEF IsPair
    <2>2. k + 1 # N /\ 1 # 0
      BY <1>2, <2>1
    <2>3. RunEndingAt(m, k + 1) % 2 = 1
      BY Zenon, <1>3, <1>7, <2>1
    <2>4. QED
      BY Zenon, <1>1, <2>1, <2>2, <2>3 DEF Placeholder, PairEnd
  <1>9. m[k + 1] = Percent /\ ~IsPair(m, k + 1) => Placeholder(m, k + 1)
    <2> SUFFICES ASSUME m[k + 1] = Percent, ~IsPair(m, k + 1)
                 PROVE  Placeholder(m, k + 1)
      OBVIOUS
    <2>1. k + 1 < N \/ k + 1 = N
      BY <1>2
    <2>2. RunEndingAt(m, k + 1) % 2 = 1
      BY Zenon, <1>3, <1>7
    <2>3. QED
      BY Zenon, <1>1, <2>1, <2>2 DEF Placeholder, IsPair
  <1>10. IsPair(m, k + 1) => m[k + 1] = Percent
    BY DEF IsPair
  <1>11. /\ m[k + 1] # Percent => Contribution(m, k + 1, args) = <<m[k + 1]>>
         /\ IsPair(m, k + 1) => Contribution(m, k + 1, args) = <<>>
    BY Zenon, <1>6, <1>8, <1>10 DEF Contribution
  <1>12. m[k + 1] = Percent /\ ~IsPair(m, k + 1) =>
           Contribution(m, k + 1, args) =
             IF seen + 1 <= Len(args) THEN pushArgument(args[seen + 1]) ELSE <<Percent>>
    BY Zenon, <1>4, <1>9 DEF Contribution
  <1>13. QED
    BY ZenonT(30), <1>1, <1>3, <1>4, <1>5, <1>6, <1>8, <1>9, <1>10, <1>11, <1>12

LEMMA PairScanInv ==
  ASSUME ScanInv, log_Pair
  PROVE  ScanInv'
  <1>1. PICK k \in Nat : s = k + 1
    <2>1. s - 1 \in Nat /\ s = (s - 1) + 1
      BY DEF ScanInv
    <2>2. QED
      BY <2>1
  <1>2. PICK N \in Nat : N = Len(message)
    BY DEF ScanInv
  <1>3. PICK g \in [0 .. N -> Seq(Elements)] :
          Contributes(message, args, N, g) /\ pushed = g[k]
    <2>1. s - 1 = k
      BY <1>1
    <2>2. QED
      BY Zenon, <1>2, <2>1 DEF ScanInv
  <1>4. PICK run, seen : run = RunEndingAt(message, k) /\ seen = Placeholders(message, k)
    OBVIOUS
  <1>5. /\ IsPair(message, k + 1) /\ message[k + 1] = Percent /\ message[k + 2] = Percent
        /\ k + 2 \in 1 .. N
        /\ s' = k + 3 /\ pushed' = pushed \o <<Percent>> /\ UNCHANGED <<message, args, used>>
    BY <1>1, <1>2 DEF log_Pair, IsPair
  <1>6. /\ run \in Nat /\ seen \in Nat /\ run % 2 = 0
        /\ Contribution(message, k + 1, args) = <<>>
        /\ RunEndingAt(message, k + 1) = run + 1 /\ Placeholders(message, k + 1) = seen
    BY <1>1, <1>2, <1>4, <1>5, AtPosition
  <1>7. RunEndingAt(message, k + 2) = run + 2 /\ (run + 2) % 2 = 0
    <2>1. k + 1 \in Nat /\ (k + 1) + 1 = k + 2
      OBVIOUS
    <2>2. message[k + 2] = Percent => RunEndingAt(message, k + 2) = RunEndingAt(message, k + 1) + 1
      BY <2>1, RunSteps
    <2>3. QED
      BY <1>5, <1>6, <2>2
  <1>8. ~Placeholder(message, k + 2) /\ PairEnd(message, k + 2)
    BY <1>5, <1>7 DEF Placeholder, PairEnd
  <1>9. Contribution(message, k + 2, args) = <<Percent>>
    BY Zenon, <1>8 DEF Contribution
  <1>10. Placeholders(message, k + 2) = seen
    <2>1. k + 1 \in Nat /\ (k + 1) + 1 = k + 2
      OBVIOUS
    <2>2. QED
      BY <1>6, <1>8, <2>1, PlaceholderSteps
  <1>11. pushed' = g[k + 2]
    <2>1. k \in 0 .. N /\ k + 1 \in 1 .. N /\ (k + 1) - 1 = k /\ (k + 2) - 1 = k + 1
      BY <1>5
    <2>2. g[k + 1] = g[k] \o <<>>
      BY Zenon, <1>3, <1>6, <2>1 DEF Contributes
    <2>3. g[k + 2] = g[k + 1] \o <<Percent>>
      BY Zenon, <1>3, <1>5, <1>9, <2>1 DEF Contributes
    <2>4. g[k] \in Seq(Elements)
      BY Zenon, <1>3, <2>1
    <2>5. g[k] \o <<>> = g[k]
      BY <2>4
    <2>6. QED
      BY ZenonT(30), <1>3, <1>5, <2>2, <2>3, <2>5
  <1>12. s' \in 1 .. N + 1 /\ s' - 1 = k + 2
    BY <1>5
  <1>13. PICK A \in Nat : A = Len(args)
    BY DEF ScanInv
  <1>14. used' \in 0 .. A /\ used' = IF seen <= A THEN seen ELSE A
    BY <1>1, <1>4, <1>5, <1>13 DEF ScanInv
  <1>15. RunEndingAt(message, k + 2) % 2 = 0
    BY <1>7
  <1>16. message \in Seq(Chars \cup {Percent}) /\ args \in Seq(Arguments)
    BY DEF ScanInv
  <1>17. QED
    BY ZenonT(30), <1>2, <1>3, <1>5, <1>10, <1>11, <1>12, <1>13, <1>14, <1>15, <1>16 DEF ScanInv

(* A step over one character. *)
LEMMA StepScanInv ==
  ASSUME ScanInv, log_Value \/ log_Char
  PROVE  ScanInv'
  <1>1. PICK k \in Nat : s = k + 1
    <2>1. s - 1 \in Nat /\ s = (s - 1) + 1
      BY DEF ScanInv
    <2>2. QED
      BY <2>1
  <1>2. PICK N \in Nat, A \in Nat : N = Len(message) /\ A = Len(args)
    BY DEF ScanInv
  <1>3. PICK g \in [0 .. N -> Seq(Elements)] :
          Contributes(message, args, N, g) /\ pushed = g[k]
    <2>1. s - 1 = k
      BY <1>1
    <2>2. QED
      BY Zenon, <1>2, <2>1 DEF ScanInv
  <1>4. PICK run, seen : run = RunEndingAt(message, k) /\ seen = Placeholders(message, k)
    OBVIOUS
  <1>5. /\ k + 1 \in 1 .. N /\ ~IsPair(message, k + 1)
        /\ s' = k + 2 /\ UNCHANGED <<message, args>>
    BY <1>1, <1>2 DEF log_Value, log_Char, ScanInv
  <1>6. /\ run \in Nat /\ seen \in Nat
        /\ message[k + 1] = Percent => run % 2 = 0
        /\ message[k + 1] # Percent =>
             /\ Contribution(message, k + 1, args) = <<message[k + 1]>>
             /\ RunEndingAt(message, k + 1) = 0 /\ Placeholders(message, k + 1) = seen
        /\ message[k + 1] = Percent =>
             /\ Contribution(message, k + 1, args) =
                  IF seen + 1 <= A THEN pushArgument(args[seen + 1]) ELSE <<Percent>>
             /\ Placeholders(message, k + 1) = seen + 1
    BY <1>1, <1>2, <1>4, <1>5, AtPosition
  <1>7. used \in 0 .. A /\ used = IF seen <= A THEN seen ELSE A
    BY <1>1, <1>2, <1>4 DEF ScanInv
  <1>8. /\ pushed' = pushed \o Contribution(message, k + 1, args)
        /\ used' \in 0 .. A
        /\ used' = IF Placeholders(message, k + 1) <= A THEN Placeholders(message, k + 1) ELSE A
    <2>1. CASE log_Value
      <3>1. /\ message[k + 1] = Percent /\ used < A
            /\ pushed' = pushed \o pushArgument(args[used + 1]) /\ used' = used + 1
        BY <1>1, <1>2, <2>1 DEF log_Value
      <3>2. used = seen /\ seen + 1 <= A
        BY <1>6, <1>7, <3>1
      <3>3. Contribution(message, k + 1, args) = pushArgument(args[seen + 1])
        BY <1>6, <3>1, <3>2
      <3>4. Placeholders(message, k + 1) = seen + 1 /\ used' = seen + 1 /\ seen + 1 \in 0 .. A
        BY <1>6, <3>1, <3>2
      <3>5. QED
        BY ZenonT(30), <3>1, <3>2, <3>3, <3>4
    <2>2. CASE log_Char /\ message[k + 1] = Percent
      <3>1. used = A /\ pushed' = pushed \o <<Percent>> /\ used' = used
        BY <1>1, <1>2, <2>2 DEF log_Char
      <3>2. ~(seen + 1 <= A)
        BY <1>6, <1>7, <3>1
      <3>3. Contribution(message, k + 1, args) = <<Percent>>
        BY <1>6, <2>2, <3>2
      <3>4. ~(Placeholders(message, k + 1) <= A)
        BY <1>6, <2>2, <3>2
      <3>5. used' = A /\ A \in 0 .. A
        BY <1>7, <3>1
      <3>6. QED
        BY ZenonT(30), <3>1, <3>3, <3>4, <3>5
    <2>3. CASE log_Char /\ message[k + 1] # Percent
      BY ZenonT(30), <1>1, <1>2, <1>6, <1>7, <2>3 DEF log_Char
    <2>4. QED
      BY <2>1, <2>2, <2>3
  <1>9. pushed' = g[k + 1]
    <2>1. (k + 1) - 1 = k
      OBVIOUS
    <2>2. g[k + 1] = g[k] \o Contribution(message, k + 1, args)
      BY Zenon, <1>3, <1>5, <2>1 DEF Contributes
    <2>3. QED
      BY <1>3, <1>8, <2>2
  <1>10. RunEndingAt(message, k + 1) % 2 = 0 \/ (k + 2 <= N => message[k + 2] # Percent)
    <2>1. CASE message[k + 1] # Percent
      BY <1>6, <2>1
    <2>2. CASE message[k + 1] = Percent
      BY <1>2, <1>5, <2>2 DEF IsPair
    <2>3. QED
      BY <2>1, <2>2
  <1>11. s' \in 1 .. N + 1 /\ s' - 1 = k + 1
    BY <1>5
  <1>12. QED
    BY ZenonT(30), <1>2, <1>3, <1>5, <1>8, <1>9, <1>10, <1>11 DEF ScanInv

(* log() pushes what the message stands for, for messages of any length,   *)
(* any characters and any arguments: Logger::log() and the definition by   *)
(* runs of percent signs agree.                                            *)
THEOREM FormatCorrect == FormatSpec => []LogFormatsMessage
  <1>1. ScanInv /\ [log]_formatVars => ScanInv'
    <2> SUFFICES ASSUME ScanInv, [log]_formatVars PROVE ScanInv'
      OBVIOUS
    <2>1. CASE log_Pair
      BY <2>1, PairScanInv
    <2>2. CASE log_Value \/ log_Char
      BY <2>2, StepScanInv
    <2>3. CASE UNCHANGED formatVars
      BY Zenon, <2>3 DEF formatVars, ScanInv
    <2>4. QED
      BY <2>1, <2>2, <2>3 DEF log
  <1>2. ScanInv => LogFormatsMessage
    <2> SUFFICES ASSUME ScanInv, s > Len(message) PROVE pushed = Formatted(message, args)
      BY DEF LogFormatsMessage
    <2>1. PICK N \in Nat : N = Len(message)
      BY DEF ScanInv
    <2>2. PICK g \in [0 .. N -> Seq(Elements)] :
            Contributes(message, args, N, g) /\ pushed = g[s - 1]
      BY <2>1 DEF ScanInv
    <2>3. s - 1 = N
      BY <2>1 DEF ScanInv
    <2>4. QED
      BY Zenon, <2>2, <2>3 DEF Contributes
  <1>3. QED
    BY <1>1, <1>2, InitScanInv, PTL DEF FormatSpec
=============================================================================
