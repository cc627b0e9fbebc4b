---------------------------- MODULE Filters_proofs ----------------------------
(***************************************************************************)
(* Induction over the natural numbers for sets instead of predicates,      *)
(* recursive functions over an interval, what Filter returns, and lists    *)
(* without repetitions.                                                    *)
(***************************************************************************)
EXTENDS Filters, Functions, WellFoundedInduction, TLAPS

(* A nonempty set of naturals has a smallest element. *)
LEMMA Smallest ==
  ASSUME NEW T \in SUBSET Nat, T # {}
  PROVE  \E x \in T : \A y \in T : x <= y
  <1> DEFINE R == OpToRel(<, Nat)
  <1>1. IsWellFoundedOn(R, Nat)
    BY NatLessThanWellFounded, Zenon
  <1>2. \A y, x \in Nat : <<y, x>> \in R <=> y < x
    BY DEF OpToRel
  <1> HIDE DEF R
  <1>3. PICK x \in T : \A y \in T : ~(<<y, x>> \in R)
    BY Zenon, <1>1, WFMin
  <1>4. ASSUME NEW y \in T
        PROVE  x <= y
    <2>1. x \in Nat /\ y \in Nat /\ ~(y < x)
      BY Zenon, <1>2, <1>3
    <2>2. QED
      BY <2>1
  <1>5. QED
    BY <1>4

(* A set that contains 0, and n + 1 with every n < N, contains 0 .. N. *)
LEMMA Induction ==
  ASSUME NEW N \in Nat, NEW S, 0 \in S, \A n \in 0 .. N - 1 : n \in S => n + 1 \in S
  PROVE  0 .. N \subseteq S
  <1> DEFINE T == (0 .. N) \ S
  <1> SUFFICES ASSUME T # {} PROVE FALSE
    OBVIOUS
  <1>1. PICK x \in T : \A y \in T : x <= y
    <2>1. T \in SUBSET Nat /\ T # {}
      OBVIOUS
    <2> HIDE DEF T
    <2>2. QED
      BY <2>1, Smallest
  <1>2. x \in 1 .. N /\ x - 1 \in 0 .. N - 1
    BY <1>1
  <1>3. x - 1 \in S
    BY <1>1, <1>2
  <1>4. QED
    BY <1>2, <1>3

(* g is defined over 0 .. n by recursion, from a and the step functions. *)
Recursion(n, a, step, g) == g[0] = a /\ \A i \in 1 .. n : g[i] = step[i][g[i - 1]]

(* A function defined by recursion over 0 .. N exists. *)
LEMMA RecursionExists ==
  ASSUME NEW N \in Nat, NEW A, NEW a \in A, NEW step \in [1 .. N -> [A -> A]]
  PROVE  \E g \in [0 .. N -> A] : Recursion(N, a, step, g)
  <1> DEFINE P(n, g) == Recursion(n, a, step, g)
             S == {n \in 0 .. N : \E g \in [0 .. n -> A] : P(n, g)}
  <1>1. 0 \in S
    <2> DEFINE g == [i \in 0 .. 0 |-> a]
    <2>1. g \in [0 .. 0 -> A] /\ P(0, g)
      BY DEF Recursion
    <2> HIDE DEF g, P
    <2>2. QED
      BY <2>1
  <1>2. ASSUME NEW n \in 0 .. N - 1, n \in S
        PROVE  n + 1 \in S
    <2>1. PICK g \in [0 .. n -> A] : P(n, g)
      BY <1>2
    <2> DEFINE h == [i \in 0 .. n + 1 |-> IF i <= n THEN g[i] ELSE step[n + 1][g[n]]]
    <2>0. g[0] = a /\ \A i \in 1 .. n : g[i] = step[i][g[i - 1]]
      BY <2>1 DEF Recursion
    <2>2. g[n] \in A /\ step[n + 1][g[n]] \in A
      BY <2>1
    <2>3. h \in [0 .. n + 1 -> A]
      BY <2>1, <2>2
    <2>4. h[0] = a
      BY <2>0
    <2>5. ASSUME NEW i \in 1 .. n + 1
          PROVE  h[i] = step[i][h[i - 1]]
      <3>1. CASE i <= n
        BY <2>0, <3>1
      <3>2. CASE i = n + 1
        BY <3>2
      <3>3. QED
        BY <3>1, <3>2
    <2>6. P(n + 1, h)
      BY Zenon, <2>4, <2>5 DEF Recursion
    <2> HIDE DEF h, P
    <2>7. QED
      BY <2>3, <2>6
  <1> HIDE DEF S
  <1>3. 0 .. N \subseteq S
    BY Zenon, <1>1, <1>2, Induction
  <1>4. QED
    BY <1>3 DEF S
-----------------------------------------------------------------------------
(* g[n] is what Filter has kept of the first n elements. *)
Keeps(s, S, N, g) ==
  /\ g[0] = <<>>
  /\ \A n \in 1 .. N :
       g[n] = IF s[n] \in S THEN Append(g[n - 1], s[n]) ELSE g[n - 1]
  /\ Filter(s, S) = g[N]

(* Filter goes through the sequence from left to right. *)
LEMMA FilterSteps ==
  ASSUME NEW T, NEW s \in Seq(T), NEW S, NEW N \in Nat, N = Len(s)
  PROVE  \E g \in [0 .. N -> Seq(T)] : Keeps(s, S, N, g)
  <1> DEFINE A == Seq(T)
             Add(q, n) == IF s[n] \in S THEN Append(q, s[n]) ELSE q
             empty == <<>>
             Rec(f) == f = [n \in 0 .. N |->
                              IF n = 0 THEN empty ELSE Add(f[n - 1], n)]
             kept == CHOOSE f : Rec(f)
  <1>1. Filter(s, S) = kept[N]
    BY Zenon DEF Filter
  <1>2. empty \in A /\ \A n \in 1 .. N, q \in A : Add(q, n) \in A
    <2>1. \A n \in 1 .. N : s[n] \in T
      OBVIOUS
    <2>2. QED
      BY <2>1
  <1> SUFFICES \E g \in [0 .. N -> A] : /\ g[0] = empty
                                        /\ \A n \in 1 .. N : g[n] = Add(g[n - 1], n)
                                        /\ Filter(s, S) = g[N]
    BY Zenon DEF Keeps
  <1> HIDE DEF A, Add, empty
  <1> DEFINE step == [n \in 1 .. N |-> [q \in A |-> Add(q, n)]]
  <1>3. step \in [1 .. N -> [A -> A]]
    BY <1>2
  <1>4. PICK g \in [0 .. N -> A] : Recursion(N, empty, step, g)
    <2> HIDE DEF step
    <2>1. QED
      BY Zenon, <1>2, <1>3, RecursionExists
  <1>5. g[0] = empty /\ \A n \in 1 .. N : g[n] = Add(g[n - 1], n)
    <2>1. g[0] = empty /\ \A n \in 1 .. N : g[n] = step[n][g[n - 1]]
      BY Zenon, <1>4 DEF Recursion
    <2>2. ASSUME NEW n \in 1 .. N
          PROVE  g[n] = Add(g[n - 1], n)
      <3>0. n - 1 \in 0 .. N
        OBVIOUS
      <3>1. g[n - 1] \in A
        BY Zenon, <1>4, <3>0
      <3>2. step[n][g[n - 1]] = Add(g[n - 1], n)
        BY Zenon, <3>1
      <3>3. QED
        BY <2>1, <3>2
    <2>3. QED
      BY <2>1, <2>2
  <1>6. Rec(g)
    BY <1>4, <1>5
  <1>7. Rec(kept)
    BY Zenon, <1>6
  <1> HIDE DEF kept
  <1>8. /\ kept[0] = empty
        /\ \A n \in 1 .. N : kept[n] = Add(kept[n - 1], n)
    <2>1. 0 \in 0 .. N /\ \A n \in 1 .. N : n \in 0 .. N /\ n # 0
      OBVIOUS
    <2>2. \A n \in 0 .. N : kept[n] = IF n = 0 THEN empty ELSE Add(kept[n - 1], n)
      BY Zenon, <1>7
    <2>3. QED
      BY Zenon, <2>1, <2>2
  <1> DEFINE Same == {n \in 0 .. N : kept[n] = g[n]}
  <1>9. 0 \in Same /\ \A n \in 0 .. N - 1 : n \in Same => n + 1 \in Same
    <2>1. 0 \in Same
      BY <1>5, <1>8
    <2>2. ASSUME NEW n \in 0 .. N - 1, kept[n] = g[n]
          PROVE  kept[n + 1] = g[n + 1] /\ n + 1 \in 0 .. N
      <3>1. n + 1 \in 1 .. N /\ n + 1 \in 0 .. N /\ (n + 1) - 1 = n
        OBVIOUS
      <3>2. kept[n + 1] = Add(kept[n], n + 1) /\ g[n + 1] = Add(g[n], n + 1)
        BY <3>1, <1>5, <1>8
      <3>3. QED
        BY Zenon, <2>2, <3>1, <3>2
    <2>3. QED
      BY <2>1, <2>2
  <1> HIDE DEF Same
  <1>10. N \in Same
    <2>1. 0 .. N \subseteq Same
      BY Zenon, <1>9, Induction
    <2>2. QED
      BY <2>1
  <1>11. QED
    BY <1>1, <1>4, <1>5, <1>10 DEF Same

(* Appending adds one element to the range, and keeps a sequence without    *)
(* repetitions so unless the element was there.                             *)
LEMMA AppendAdds ==
  ASSUME NEW T, NEW q \in Seq(T), NEW e \in T
  PROVE  /\ Append(q, e) \in Seq(T)
         /\ Range(Append(q, e)) = Range(q) \cup {e}
         /\ IsInjective(q) /\ e \notin Range(q) => IsInjective(Append(q, e))
  <1>1. PICK n \in Nat : n = Len(q)
    OBVIOUS
  <1> DEFINE ap == Append(q, e)
  <1>2. /\ DOMAIN q = 1 .. n /\ DOMAIN ap = 1 .. n + 1
        /\ ap[n + 1] = e /\ \A i \in 1 .. n : ap[i] = q[i]
        /\ ap \in Seq(T)
    BY <1>1
  <1> HIDE DEF ap
  <1>3. Range(ap) = Range(q) \cup {e}
    <2>1. ASSUME NEW i \in DOMAIN ap
          PROVE  ap[i] \in Range(q) \cup {e}
      <3>1. i \in 1 .. n \/ i = n + 1
        BY <1>2
      <3>2. QED
        BY <1>2, <3>1 DEF Range
    <2>2. ASSUME NEW i \in DOMAIN q
          PROVE  i \in DOMAIN ap /\ ap[i] = q[i]
      BY <1>2
    <2>3. n + 1 \in DOMAIN ap /\ ap[n + 1] = e
      BY <1>2
    <2>4. QED
      BY <2>1, <2>2, <2>3 DEF Range
  <1>4. IsInjective(q) /\ e \notin Range(q) => IsInjective(ap)
    BY <1>2 DEF IsInjective, Range
  <1>5. QED
    BY Zenon, <1>2, <1>3, <1>4 DEF ap

(* Filter keeps exactly the elements in the set, and repeats none. *)
LEMMA FilterProperties ==
  ASSUME NEW T, NEW s \in Seq(T), NEW S
  PROVE  /\ Filter(s, S) \in Seq(T)
         /\ Range(Filter(s, S)) = Range(s) \cap S
         /\ IsInjective(s) => IsInjective(Filter(s, S))
  <1>0. PICK N \in Nat : N = Len(s)
    OBVIOUS
  <1>1. PICK g \in [0 .. N -> Seq(T)] : Keeps(s, S, N, g)
    BY Zenon, <1>0, FilterSteps
  <1> DEFINE Upto(n) == {s[i] : i \in 1 .. n}
             Good(q, n) == /\ Range(q) = Upto(n) \cap S
                           /\ IsInjective(s) => IsInjective(q)
             Right == {n \in 0 .. N : Good(g[n], n)}
  <1>2. 0 \in Right
    BY <1>0, <1>1 DEF Keeps, Range, IsInjective
  <1>3. ASSUME NEW n \in 0 .. N - 1, n \in Right
        PROVE  n + 1 \in Right
    <2>1. PICK q, r, e : q = g[n] /\ r = g[n + 1] /\ e = s[n + 1]
      OBVIOUS
    <2>2. q \in Seq(T) /\ e \in T /\ Good(q, n)
      <3>1. q \in Seq(T)
        BY <2>1
      <3>2. e \in T
        BY <1>0, <2>1
      <3>3. QED
        BY <1>3, <2>1, <3>1, <3>2
    <2>3. r = IF e \in S THEN Append(q, e) ELSE q
      <3>1. n + 1 \in 1 .. N /\ (n + 1) - 1 = n
        OBVIOUS
      <3>2. QED
        BY Zenon, <1>1, <2>1, <3>1 DEF Keeps
    <2>4. Upto(n + 1) = Upto(n) \cup {e}
      BY <1>0, <2>1
    <2>5. IsInjective(s) => e \notin Upto(n)
      <3> SUFFICES ASSUME IsInjective(s), NEW i \in 1 .. n, e = s[i]
                   PROVE  FALSE
        OBVIOUS
      <3>1. DOMAIN s = 1 .. N /\ i \in 1 .. N /\ n + 1 \in 1 .. N /\ i # n + 1
        BY <1>0
      <3>2. QED
        BY Zenon, <2>1, <3>1 DEF IsInjective
    <2> HIDE DEF Upto
    <2>6. Good(r, n + 1)
      <3>1. CASE e \in S
        <4> DEFINE ap == Append(q, e)
        <4>1. /\ Range(ap) = Range(q) \cup {e}
              /\ IsInjective(q) /\ e \notin Range(q) => IsInjective(ap)
          BY <2>2, AppendAdds DEF ap
        <4> HIDE DEF ap
        <4>2. r = ap
          BY <2>3, <3>1 DEF ap
        <4>3. QED
          BY <2>2, <2>4, <2>5, <3>1, <4>1, <4>2
      <3>2. CASE e \notin S
        BY <2>2, <2>3, <2>4, <3>2
      <3>3. QED
        BY <3>1, <3>2
    <2> HIDE DEF Good
    <2>7. QED
      BY <2>1, <2>6
  <1>4. N \in Right
    <2> HIDE DEF Right
    <2>1. 0 .. N \subseteq Right
      BY Zenon, <1>2, <1>3, Induction
    <2>2. QED
      BY <2>1
  <1>5. Upto(N) = Range(s)
    BY <1>0 DEF Range
  <1> HIDE DEF Upto
  <1>6. g[N] \in Seq(T) /\ Good(g[N], N)
    BY <1>4
  <1>7. QED
    BY Zenon, <1>1, <1>5, <1>6 DEF Keeps
-----------------------------------------------------------------------------
(* Lists without repetitions. *)

(* A list of elements of T, none of them twice. *)
Unique(list, T) == list \in Seq(T) /\ IsInjective(list)

LEMMA UniqueEmpty ==
  ASSUME NEW T
  PROVE  Unique(<<>>, T) /\ Range(<<>>) = {}
  BY DEF Unique, Range, IsInjective

LEMMA UniqueFilter ==
  ASSUME NEW T, NEW S, NEW list, Unique(list, T)
  PROVE  Unique(Filter(list, S), T) /\ Range(Filter(list, S)) = Range(list) \cap S
  BY FilterProperties DEF Unique

LEMMA UniqueAppend ==
  ASSUME NEW T, NEW list, Unique(list, T), NEW e \in T, e \notin Range(list)
  PROVE  Unique(Append(list, e), T) /\ Range(Append(list, e)) = Range(list) \cup {e}
  <1> DEFINE ap == Append(list, e)
  <1>1. list \in Seq(T) /\ IsInjective(list)
    BY DEF Unique
  <1>2. ap \in Seq(T) /\ Range(ap) = Range(list) \cup {e} /\ IsInjective(ap)
    BY <1>1, AppendAdds DEF ap
  <1> HIDE DEF ap
  <1>3. Unique(ap, T) /\ Range(ap) = Range(list) \cup {e}
    BY <1>2 DEF Unique
  <1>4. QED
    BY Zenon, <1>3 DEF ap

LEMMA UniqueTail ==
  ASSUME NEW T, NEW list, Unique(list, T), list # <<>>
  PROVE  /\ Unique(Tail(list), T) /\ Range(Tail(list)) = Range(list) \ {Head(list)}
         /\ Head(list) \in Range(list) /\ Head(list) \in T
  <1>1. list \in Seq(T) /\ IsInjective(list)
    BY DEF Unique
  <1>2. PICK n \in Nat : n = Len(list) /\ n # 0
    BY <1>1
  <1> DEFINE t == Tail(list)
             h == Head(list)
  <1>3. /\ DOMAIN list = 1 .. n /\ DOMAIN t = 1 .. n - 1 /\ h = list[1] /\ h \in T
        /\ t \in Seq(T) /\ \A i \in 1 .. n - 1 : t[i] = list[i + 1]
    BY <1>1, <1>2
  <1> HIDE DEF t, h
  <1>4. IsInjective(t)
    <2> SUFFICES ASSUME NEW i \in 1 .. n - 1, NEW j \in 1 .. n - 1, t[i] = t[j]
                 PROVE  i = j
      BY <1>3 DEF IsInjective
    <2>1. i + 1 \in DOMAIN list /\ j + 1 \in DOMAIN list /\ list[i + 1] = list[j + 1]
      BY <1>3
    <2>2. i + 1 = j + 1
      BY <1>1, <2>1 DEF IsInjective
    <2>3. QED
      BY <2>2
  <1>5. h \in Range(list)
    BY <1>2, <1>3 DEF Range
  <1>6. Range(t) = Range(list) \ {h}
    <2>1. ASSUME NEW i \in 1 .. n - 1
          PROVE  t[i] \in Range(list) \ {h}
      <3>1. i + 1 \in DOMAIN list /\ 1 \in DOMAIN list /\ i + 1 # 1
        BY <1>2, <1>3
      <3>2. list[i + 1] # list[1] /\ list[i + 1] \in Range(list)
        BY <1>1, <3>1 DEF Range, IsInjective
      <3>3. QED
        BY <1>3, <3>2
    <2>2. ASSUME NEW i \in DOMAIN list, list[i] # h
          PROVE  list[i] \in Range(t)
      <3>1. i - 1 \in 1 .. n - 1 /\ (i - 1) + 1 = i
        BY <1>2, <1>3, <2>2
      <3>2. QED
        BY <1>3, <3>1 DEF Range
    <2>3. Range(t) \subseteq Range(list) \ {h}
      BY <1>3, <2>1 DEF Range
    <2>4. Range(list) \ {h} \subseteq Range(t)
      BY <2>2 DEF Range
    <2>5. QED
      BY <2>3, <2>4
  <1>7. QED
    BY Zenon, <1>3, <1>4, <1>5, <1>6 DEF Unique, t, h

LEMMA UniqueSubSeq ==
  ASSUME NEW T, NEW list, Unique(list, T), NEW m \in Nat \ {0}, NEW n \in Nat, n <= Len(list)
  PROVE  Unique(SubSeq(list, m, n), T) /\ Range(SubSeq(list, m, n)) \subseteq Range(list)
  <1>1. list \in Seq(T) /\ IsInjective(list)
    BY DEF Unique
  <1>2. PICK k, t : k = Len(t) /\ t = SubSeq(list, m, n)
    BY Zenon
  <1>3. t \in Seq(T)
    <2>1. \A i \in m .. n : list[i] \in T
      BY <1>1
    <2>2. QED
      BY <1>1, <1>2, <2>1
  <1>4. /\ k \in Nat /\ DOMAIN list = 1 .. Len(list) /\ DOMAIN t = 1 .. k
        /\ \A i \in 1 .. k : i + m - 1 \in DOMAIN list /\ t[i] = list[i + m - 1]
    BY <1>1, <1>2, <1>3
  <1>5. IsInjective(t)
    <2> SUFFICES ASSUME NEW i \in 1 .. k, NEW j \in 1 .. k, t[i] = t[j]
                 PROVE  i = j
      BY <1>4 DEF IsInjective
    <2>1. list[i + m - 1] = list[j + m - 1]
      BY <1>4
    <2>2. i + m - 1 = j + m - 1
      BY Zenon, <1>1, <1>4, <2>1 DEF IsInjective
    <2>3. QED
      BY <1>4, <2>2
  <1>6. Range(t) \subseteq Range(list)
    <2>1. \A i \in DOMAIN t : t[i] \in Range(list)
      BY Zenon, <1>4 DEF Range
    <2>2. QED
      BY Zenon, <2>1 DEF Range
  <1>7. QED
    BY <1>2, <1>3, <1>5, <1>6 DEF Unique

(* A sequence whose elements are in T is a sequence over T. *)
LEMMA SeqByRange ==
  ASSUME NEW D, NEW T, NEW list \in Seq(D), Range(list) \subseteq T
  PROVE  list \in Seq(T)
  <1>1. PICK n \in Nat : n = Len(list)
    OBVIOUS
  <1>2. DOMAIN list = 1 .. n /\ list = [i \in 1 .. n |-> list[i]]
    BY <1>1
  <1>3. list \in [1 .. n -> T]
    BY <1>2 DEF Range
  <1>4. QED
    BY <1>3
=============================================================================
