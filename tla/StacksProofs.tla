------------------------------ MODULE StacksProofs ------------------------------
(* What holds of any stacks, texts and containers, however many requests on them
   overlap and stop half-way, with the Docker page beside them. *)
EXTENDS DockerPage, FiniteSetTheorems, WellFoundedInduction, TLAPS

(***************************************************************************)
(* TopoSort, for every graph.                                              *)
(***************************************************************************)
(* Some of the numbers is the least. *)
LEMMA Least ==
  ASSUME NEW P \in SUBSET Nat, P # {}
  PROVE  \E i \in P : \A j \in P : i <= j
<1>1. IsWellFoundedOn(OpToRel(<, Nat), Nat)
  BY NatLessThanWellFounded
<1>2. PICK i \in P : \A j \in P : <<j, i>> \notin OpToRel(<, Nat)
  BY <1>1, WFMin
<1>3. \A j \in P : ~(j < i)
  BY <1>2 DEF OpToRel
<1> QED
  BY <1>3

(* The elements, in their order. *)
Increasing(order) == \A i, j \in DOMAIN order : i < j => order[i] < order[j]

(* Numbers can be put in their order: the least comes first. *)
LEMMA OrderExists ==
  ASSUME NEW S \in SUBSET Nat, IsFiniteSet(S)
  PROVE  \E order \in [1..Cardinality(S) -> S] : Increasing(order)
<1> DEFINE Ordered(T) == \E order \in [1..Cardinality(T) -> T] : Increasing(order)
           Bad == {n \in Nat : \E T \in SUBSET Nat : IsFiniteSet(T) /\ Cardinality(T) = n /\ ~Ordered(T)}
<1> SUFFICES ASSUME ~Ordered(S) PROVE FALSE
  OBVIOUS
<1>1. Cardinality(S) \in Bad
  BY FS_CardinalityType
<1>2. PICK n \in Bad : \A m \in Bad : n <= m
  BY <1>1, Least
<1>3. PICK T \in SUBSET Nat : IsFiniteSet(T) /\ Cardinality(T) = n /\ ~Ordered(T)
  OBVIOUS
<1>4. T # {}
  <2> SUFFICES ASSUME T = {} PROVE Ordered(T)
    BY <1>3
  <2>1. Cardinality(T) = 0
    BY FS_EmptySet
  <2>2. [i \in 1..0 |-> 0] \in [1..Cardinality(T) -> T] /\ Increasing([i \in 1..0 |-> 0])
    BY <2>1 DEF Increasing
  <2> QED
    BY <2>2
<1>5. PICK x \in T : \A y \in T : x <= y
  BY <1>4, Least
<1> DEFINE rest == T \ {x}
<1>6. rest \in SUBSET Nat /\ IsFiniteSet(rest) /\ Cardinality(rest) = n - 1 /\ n - 1 \in Nat
  <2>1. IsFiniteSet(rest) /\ Cardinality(rest) = n - 1
    BY <1>3, FS_RemoveElement
  <2>2. Cardinality(rest) \in Nat
    BY <2>1, FS_CardinalityType
  <2> QED
    BY <2>1, <2>2
<1>7. Ordered(rest)
  <2>1. n - 1 \notin Bad
    BY <1>2, <1>6
  <2> QED
    BY <1>6, <2>1
<1>8. PICK order \in [1..n - 1 -> rest] : Increasing(order)
  BY <1>6, <1>7
<1> DEFINE whole == [i \in 1..n |-> IF i = 1 THEN x ELSE order[i - 1]]
<1>9. whole \in [1..n -> T]
  BY <1>6, <1>8
<1>10. Increasing(whole)
  <2> SUFFICES ASSUME NEW i \in 1..n, NEW j \in 1..n, i < j PROVE whole[i] < whole[j]
    BY DEF Increasing
  <2>1. j - 1 \in 1..n - 1 /\ order[j - 1] \in rest /\ whole[j] = order[j - 1]
    BY <1>6, <1>8
  <2>2. CASE i = 1
    <3>1. whole[i] = x /\ x <= whole[j] /\ x # whole[j] /\ x \in Nat /\ whole[j] \in Nat
      BY <1>5, <2>1, <2>2
    <3> QED
      BY <3>1
  <2>3. CASE i # 1
    <3>1. i - 1 \in 1..n - 1 /\ i - 1 < j - 1 /\ whole[i] = order[i - 1]
      BY <1>6, <2>3
    <3> QED
      BY <1>8, <2>1, <3>1 DEF Increasing
  <2> QED
    BY <2>2, <2>3
<1> QED
  BY <1>3, <1>9, <1>10

Distinct(order) == \A i, j \in DOMAIN order : order[i] = order[j] => i = j

(* The services in the order of their names are those services, each once. *)
LEMMA AlphabeticalIs ==
  ASSUME NEW S \in SUBSET Nat, IsFiniteSet(S)
  PROVE  /\ Alphabetical(S) \in Seq(S)
         /\ Distinct(Alphabetical(S)) /\ Range(Alphabetical(S)) = S
<1> DEFINE order == Alphabetical(S)
           n == Cardinality(S)
<1>1. n \in Nat
  BY FS_CardinalityType
<1>2. order \in [1..n -> S] /\ Increasing(order)
  BY OrderExists DEF Alphabetical, Increasing
<1> HIDE DEF order
<1>3. Distinct(order)
  <2> SUFFICES ASSUME NEW i \in DOMAIN order, NEW j \in DOMAIN order, order[i] = order[j]
               PROVE  i = j
    BY DEF Distinct
  <2>1. i \in Nat /\ j \in Nat
    BY <1>1, <1>2
  <2>2. order[i] \in S /\ order[j] \in S
    BY <1>2
  <2>3. order[i] \in Nat /\ order[j] \in Nat
    BY <2>2
  <2>4. ~(i < j) /\ ~(j < i)
    BY <1>2, <2>3 DEF Increasing
  <2> QED
    BY <2>1, <2>4
<1>4. \A x \in S : \E i \in 1..n : order[i] = x
  <2>1. order \in Injection(1..n, S)
    BY <1>2, <1>3 DEF Injection, IsInjective, Distinct
  <2>2. Cardinality(1..n) = n /\ IsFiniteSet(1..n)
    BY <1>1, FS_Interval
  <2>3. order \in Surjection(1..n, S)
    BY <2>1, <2>2, FS_Injection
  <2> QED
    BY <2>3 DEF Surjection
<1>5. order \in Seq(S)
  BY <1>1, <1>2
<1>6. Range(order) = S
  BY <1>2, <1>4 DEF Range
<1> QED
  BY <1>3, <1>5, <1>6 DEF order

(* The state after some services popped: the recursive function is one. *)
Popped(deps, after, m) ==
  after = [k \in 0..m |-> IF k = 0 THEN Start(deps)
                          ELSE IF after[k - 1].queue = <<>> THEN after[k - 1]
                          ELSE Pop(deps, after[k - 1])]

(* The services can be popped one after the other. *)
LEMMA RunExists ==
  ASSUME NEW deps, NEW N \in Nat
  PROVE  \E after : Popped(deps, after, N)
<1> DEFINE Bad == {m \in Nat : ~\E after : Popped(deps, after, m)}
<1> SUFFICES ASSUME N \in Bad PROVE FALSE
  OBVIOUS
<1>1. PICK m \in Bad : \A k \in Bad : m <= k
  BY Least
<1>2. m # 0
  <2>1. Popped(deps, [k \in 0..0 |-> Start(deps)], 0)
    BY DEF Popped
  <2> QED
    BY <2>1
<1>3. m - 1 \in Nat /\ m - 1 \notin Bad
  BY <1>1, <1>2
<1>4. PICK before : Popped(deps, before, m - 1)
  BY <1>3
<1> DEFINE last == IF before[m - 1].queue = <<>> THEN before[m - 1] ELSE Pop(deps, before[m - 1])
           after == [k \in 0..m |-> IF k = m THEN last ELSE before[k]]
<1>5. \A k \in 0..m - 1 : after[k] = before[k]
  BY <1>3
<1> HIDE DEF last
<1>6. \A k \in 0..m : after[k] = IF k = 0 THEN Start(deps)
                                 ELSE IF after[k - 1].queue = <<>> THEN after[k - 1]
                                 ELSE Pop(deps, after[k - 1])
  <2> SUFFICES ASSUME NEW k \in 0..m
               PROVE  after[k] = IF k = 0 THEN Start(deps)
                                 ELSE IF after[k - 1].queue = <<>> THEN after[k - 1]
                                 ELSE Pop(deps, after[k - 1])
    OBVIOUS
  <2>1. CASE k = m
    <3>1. after[k] = last /\ after[k - 1] = before[k - 1] /\ k # 0
      BY <1>2, <1>3, <1>5, <2>1
    <3> QED
      BY <2>1, <3>1 DEF last
  <2>2. CASE k # m
    <3>1. k \in 0..m - 1 /\ after[k] = before[k]
      BY <1>3, <1>5, <2>2
    <3>2. k # 0 => after[k - 1] = before[k - 1]
      BY <1>3, <1>5, <3>1
    <3> QED
      BY <1>4, <3>1, <3>2 DEF Popped
  <2> QED
    BY <2>1, <2>2
<1>7. Popped(deps, after, m)
  BY <1>6 DEF Popped
<1> QED
  BY <1>7

(* The services are sorted by such a function. *)
LEMMA SortedIs ==
  ASSUME NEW deps, NEW N \in Nat, N = Cardinality(DOMAIN deps)
  PROVE  \E after : Popped(deps, after, N) /\ Sorted(deps) = after[N].out
<1> DEFINE after[k \in 0..Cardinality(DOMAIN deps)] ==
             IF k = 0 THEN Start(deps)
             ELSE IF after[k - 1].queue = <<>> THEN after[k - 1]
             ELSE Pop(deps, after[k - 1])
<1>1. Sorted(deps) = after[Cardinality(DOMAIN deps)].out
  BY DEF Sorted
<1>2. Popped(deps, after, N)
  BY RunExists DEF Popped
<1> QED
  BY <1>1, <1>2

(* While services are popped: the ordered and the queued ones are those whose
   dependencies are all ordered, the others wait for as many as indeg says, and no
   service was ordered before one it depends on. *)
Waits(deps, s) ==
  /\ s.indeg \in [DOMAIN deps -> Nat]
  /\ s.queue \in Seq(DOMAIN deps) /\ s.out \in Seq(DOMAIN deps)
  /\ Distinct(s.queue) /\ Distinct(s.out) /\ Range(s.queue) \cap Range(s.out) = {}
  /\ \A n \in DOMAIN deps : s.indeg[n] = Cardinality(Known(deps, n) \ Range(s.out))
  /\ \A n \in DOMAIN deps :
       n \in Range(s.out) \cup Range(s.queue) <=> Known(deps, n) \subseteq Range(s.out)
  /\ \A i \in DOMAIN s.out :
       \A d \in Known(deps, s.out[i]) : \E j \in DOMAIN s.out : j < i /\ s.out[j] = d

(* What a service waits for can be counted. *)
LEMMA KnownFinite ==
  ASSUME NEW deps, Graph(deps), NEW n \in DOMAIN deps, NEW T
  PROVE  /\ IsFiniteSet(Known(deps, n) \ T) /\ Cardinality(Known(deps, n) \ T) \in Nat
         /\ Cardinality(Known(deps, n) \ T) = 0 <=> Known(deps, n) \subseteq T
<1>1. Known(deps, n) \ T \in SUBSET DOMAIN deps
  BY DEF Known
<1>2. IsFiniteSet(Known(deps, n) \ T)
  BY <1>1, FS_Subset DEF Graph
<1> QED
  BY <1>2, FS_CardinalityType, FS_EmptySet

(* Of two sequences without a service in common, one after the other. *)
LEMMA Behind ==
  ASSUME NEW S, NEW s \in Seq(S), NEW t \in Seq(S),
         Distinct(s), Distinct(t), Range(s) \cap Range(t) = {}
  PROVE  s \o t \in Seq(S) /\ Distinct(s \o t) /\ Range(s \o t) = Range(s) \cup Range(t)
<1> DEFINE st == s \o t
<1>1. /\ st \in Seq(S) /\ Len(st) = Len(s) + Len(t) /\ Len(s) \in Nat /\ Len(t) \in Nat
      /\ \A i \in 1..Len(st) : st[i] = IF i <= Len(s) THEN s[i] ELSE t[i - Len(s)]
      /\ DOMAIN s = 1..Len(s) /\ DOMAIN t = 1..Len(t) /\ DOMAIN st = 1..Len(st)
  OBVIOUS
<1> HIDE DEF st
<1>2. ASSUME NEW i \in DOMAIN st
      PROVE  \/ i \in DOMAIN s /\ st[i] = s[i] /\ st[i] \in Range(s)
             \/ i - Len(s) \in DOMAIN t /\ st[i] = t[i - Len(s)] /\ st[i] \in Range(t)
  BY <1>1 DEF Range
<1>3. \A i \in DOMAIN s : i \in DOMAIN st /\ st[i] = s[i]
  BY <1>1
<1>4. \A i \in DOMAIN t : i + Len(s) \in DOMAIN st /\ st[i + Len(s)] = t[i]
  BY <1>1
<1>5. Range(st) = Range(s) \cup Range(t)
  <2>1. Range(st) \subseteq Range(s) \cup Range(t)
    BY <1>2 DEF Range
  <2>2. \A x \in Range(s) : x \in Range(st)
    BY <1>3 DEF Range
  <2>3. \A x \in Range(t) : x \in Range(st)
    BY <1>4 DEF Range
  <2> QED
    BY <2>1, <2>2, <2>3
<1>6. Distinct(st)
  <2> SUFFICES ASSUME NEW i \in DOMAIN st, NEW j \in DOMAIN st, st[i] = st[j] PROVE i = j
    BY DEF Distinct
  <2>1. CASE i \in DOMAIN s /\ st[i] = s[i] /\ st[i] \in Range(s)
    BY <1>2, <2>1 DEF Distinct
  <2>2. CASE i - Len(s) \in DOMAIN t /\ st[i] = t[i - Len(s)] /\ st[i] \in Range(t)
    <3>1. j - Len(s) \in DOMAIN t /\ st[j] = t[j - Len(s)]
      BY <1>2, <2>2
    <3>2. i - Len(s) = j - Len(s)
      BY <2>2, <3>1 DEF Distinct
    <3> QED
      BY <1>1, <3>2
  <2> QED
    BY <1>2, <2>1, <2>2
<1> QED
  BY <1>1, <1>5, <1>6 DEF st

(* Before the first service is popped. *)
LEMMA StartWaits ==
  ASSUME NEW deps, Graph(deps)
  PROVE  Waits(deps, Start(deps)) /\ Start(deps).out = <<>>
<1> DEFINE s == Start(deps)
           D == DOMAIN deps
           free == {n \in D : Known(deps, n) = {}}
<1>1. free \in SUBSET Nat /\ IsFiniteSet(free) /\ free \in SUBSET D
  BY FS_Subset DEF Graph
<1>2. /\ s.indeg = [n \in D |-> Cardinality(Known(deps, n))]
      /\ s.queue = Alphabetical(free) /\ s.out = <<>>
  BY DEF Start
<1> HIDE DEF s
<1>3. s.queue \in Seq(free) /\ Distinct(s.queue) /\ Range(s.queue) = free
  BY <1>1, <1>2, AlphabeticalIs
<1>4. s.out \in Seq(D) /\ Distinct(s.out) /\ Range(s.out) = {} /\ DOMAIN s.out = {}
  BY <1>2 DEF Distinct, Range
<1>5. \A n \in D : Known(deps, n) \ Range(s.out) = Known(deps, n)
  BY <1>4
<1>6. \A n \in D : s.indeg[n] \in Nat /\ s.indeg[n] = Cardinality(Known(deps, n) \ Range(s.out))
  <2> SUFFICES ASSUME NEW n \in D
               PROVE  s.indeg[n] \in Nat /\ s.indeg[n] = Cardinality(Known(deps, n) \ Range(s.out))
    OBVIOUS
  <2>1. Cardinality(Known(deps, n) \ Range(s.out)) \in Nat
    BY KnownFinite
  <2>2. s.indeg[n] = Cardinality(Known(deps, n))
    BY <1>2
  <2> QED
    BY <1>5, <2>1, <2>2
<1>7. s.indeg \in [D -> Nat]
  BY <1>2, <1>6
<1>8. s.queue \in Seq(D)
  BY <1>1, <1>3
<1>9. \A n \in D : n \in Range(s.out) \cup Range(s.queue) <=> Known(deps, n) \subseteq Range(s.out)
  BY <1>3, <1>4
<1> QED
  BY <1>2, <1>3, <1>4, <1>6, <1>7, <1>8, <1>9 DEF Waits, s

(* A sequence is its head, and then its tail. *)
LEMMA HeadAndTail ==
  ASSUME NEW S, NEW q \in Seq(S), q # <<>>
  PROVE  /\ Len(q) \in Nat \ {0} /\ DOMAIN q = 1..Len(q) /\ Head(q) = q[1]
         /\ Tail(q) \in Seq(S) /\ DOMAIN Tail(q) = 1..Len(q) - 1
         /\ \A i \in DOMAIN Tail(q) : Tail(q)[i] = q[i + 1]
<1>1. Len(q) \in Nat \ {0} /\ DOMAIN q = 1..Len(q) /\ Head(q) = q[1]
  OBVIOUS
<1>2. Tail(q) \in Seq(S) /\ DOMAIN Tail(q) = 1..Len(q) - 1
  OBVIOUS
<1>3. \A i \in DOMAIN Tail(q) : Tail(q)[i] = q[i + 1]
  OBVIOUS
<1> QED
  BY <1>1, <1>2, <1>3

(* One more service is popped. *)
LEMMA PopWaits ==
  ASSUME NEW deps, Graph(deps), NEW s, Waits(deps, s), s.queue # <<>>
  PROVE  Waits(deps, Pop(deps, s)) /\ Len(Pop(deps, s).out) = Len(s.out) + 1
<1> DEFINE D == DOMAIN deps
           n == Head(s.queue)
           t == Pop(deps, s)
           dependents == {d \in D : n \in deps[d]}
           indeg == [d \in D |-> IF d \in dependents THEN s.indeg[d] - 1 ELSE s.indeg[d]]
           free == {d \in dependents : indeg[d] = 0}
           rest == Tail(s.queue)
           Left(d, o) == Known(deps, d) \ Range(o)
<1>1. t.indeg = indeg /\ t.queue = rest \o Alphabetical(free) /\ t.out = Append(s.out, n)
  BY DEF Pop
<1> HIDE DEF t
<1>2. /\ s.indeg \in [D -> Nat] /\ s.queue \in Seq(D) /\ s.out \in Seq(D)
      /\ Distinct(s.queue) /\ Distinct(s.out) /\ Range(s.queue) \cap Range(s.out) = {}
      /\ \A d \in D : s.indeg[d] = Cardinality(Left(d, s.out))
      /\ \A d \in D : d \in Range(s.out) \cup Range(s.queue) <=> Known(deps, d) \subseteq Range(s.out)
      /\ \A i \in DOMAIN s.out :
           \A d \in Known(deps, s.out[i]) : \E j \in DOMAIN s.out : j < i /\ s.out[j] = d
  BY DEF Waits
<1>3. /\ n \in D /\ rest \in Seq(D) /\ Distinct(rest)
      /\ n \notin Range(rest) /\ Range(s.queue) = Range(rest) \cup {n}
  <2>1. /\ Len(s.queue) \in Nat \ {0} /\ DOMAIN s.queue = 1..Len(s.queue) /\ n = s.queue[1]
        /\ rest \in Seq(D) /\ DOMAIN rest = 1..Len(s.queue) - 1
        /\ \A i \in DOMAIN rest : rest[i] = s.queue[i + 1]
    BY <1>2, HeadAndTail
  <2> HIDE DEF rest, n
  <2>2. n \in D
    BY <1>2, <2>1
  <2>3. Distinct(rest)
    <3> SUFFICES ASSUME NEW i \in DOMAIN rest, NEW j \in DOMAIN rest, rest[i] = rest[j] PROVE i = j
      BY DEF Distinct
    <3>1. i + 1 \in DOMAIN s.queue /\ j + 1 \in DOMAIN s.queue /\ s.queue[i + 1] = s.queue[j + 1]
      BY <2>1
    <3>2. i + 1 = j + 1
      BY <1>2, <3>1 DEF Distinct
    <3> QED
      BY <2>1, <3>2
  <2>4. n \notin Range(rest)
    <3> SUFFICES ASSUME NEW i \in DOMAIN rest, rest[i] = n PROVE FALSE
      BY DEF Range
    <3>1. i + 1 \in DOMAIN s.queue /\ 1 \in DOMAIN s.queue /\ s.queue[i + 1] = s.queue[1]
      BY <2>1
    <3>2. i + 1 = 1
      BY <1>2, <3>1 DEF Distinct
    <3> QED
      BY <2>1, <3>2
  <2>5. \A i \in DOMAIN s.queue : i = 1 \/ (i - 1 \in DOMAIN rest /\ s.queue[i] = rest[i - 1])
    BY <2>1
  <2>6. Range(s.queue) \subseteq Range(rest) \cup {n}
    BY <2>1, <2>5 DEF Range
  <2>7. \A i \in DOMAIN rest : i + 1 \in DOMAIN s.queue
    BY <2>1
  <2>8. Range(rest) \cup {n} \subseteq Range(s.queue)
    BY <2>1, <2>7 DEF Range
  <2> QED
    BY <2>1, <2>2, <2>3, <2>4, <2>6, <2>8
<1>4. /\ t.out \in Seq(D) /\ Len(t.out) = Len(s.out) + 1 /\ Len(s.out) \in Nat
      /\ DOMAIN s.out = 1..Len(s.out) /\ DOMAIN t.out = 1..Len(s.out) + 1
      /\ \A i \in DOMAIN s.out : t.out[i] = s.out[i]
      /\ t.out[Len(s.out) + 1] = n
  BY <1>1, <1>2, <1>3
<1>5. n \notin Range(s.out) /\ Known(deps, n) \subseteq Range(s.out)
  BY <1>2, <1>3
<1> HIDE DEF n, rest
<1>6. Range(t.out) = Range(s.out) \cup {n}
  <2>1. \A i \in DOMAIN t.out : i \in DOMAIN s.out \/ i = Len(s.out) + 1
    BY <1>4
  <2>2. Range(t.out) \subseteq Range(s.out) \cup {n}
    BY <1>4, <2>1 DEF Range
  <2>3. \A i \in DOMAIN s.out : i \in DOMAIN t.out
    BY <1>4
  <2>4. Len(s.out) + 1 \in DOMAIN t.out
    BY <1>4
  <2> QED
    BY <1>4, <2>2, <2>3, <2>4 DEF Range
<1>7. Distinct(t.out)
  <2> SUFFICES ASSUME NEW i \in DOMAIN t.out, NEW j \in DOMAIN t.out, t.out[i] = t.out[j] PROVE i = j
    BY DEF Distinct
  <2>1. \A k \in DOMAIN s.out : s.out[k] # n
    BY <1>5 DEF Range
  <2>2. \A k \in DOMAIN t.out : k \in DOMAIN s.out \/ k = Len(s.out) + 1
    BY <1>4
  <2> QED
    BY <1>2, <1>4, <2>1, <2>2 DEF Distinct
<1>8. ASSUME NEW d \in dependents
      PROVE  /\ d \in D /\ d \notin Range(s.out) \cup Range(s.queue)
             /\ indeg[d] \in Nat /\ indeg[d] = Cardinality(Left(d, t.out))
  <2>1. d \in D /\ n \in Known(deps, d) /\ n \in Left(d, s.out)
    BY <1>3, <1>5 DEF Known
  <2>2. d \notin Range(s.out) \cup Range(s.queue)
    BY <1>2, <2>1
  <2>3. Left(d, t.out) = Left(d, s.out) \ {n}
    BY <1>6
  <2>4. IsFiniteSet(Left(d, s.out)) /\ Cardinality(Left(d, t.out)) \in Nat
    BY <2>1, KnownFinite
  <2>5. Cardinality(Left(d, t.out)) = Cardinality(Left(d, s.out)) - 1
    <3> HIDE DEF Left
    <3>1. Cardinality(Left(d, s.out) \ {n}) = Cardinality(Left(d, s.out)) - 1
      BY <2>1, <2>4, FS_RemoveElement
    <3> QED
      BY <2>3, <3>1
  <2>6. indeg[d] = s.indeg[d] - 1
    BY <2>1
  <2> QED
    BY <1>2, <2>1, <2>2, <2>4, <2>5, <2>6
<1>9. ASSUME NEW d \in D, d \notin dependents
      PROVE  /\ Left(d, t.out) = Left(d, s.out) /\ indeg[d] = s.indeg[d]
             /\ Known(deps, d) \subseteq Range(t.out) <=> Known(deps, d) \subseteq Range(s.out)
  BY <1>6, <1>9 DEF Known
<1>10. \A d \in D : indeg[d] \in Nat /\ indeg[d] = Cardinality(Left(d, t.out))
  BY <1>2, <1>8, <1>9
<1>11. /\ free \in SUBSET Nat /\ IsFiniteSet(free) /\ free \subseteq D
       /\ free \cap (Range(s.out) \cup Range(s.queue)) = {}
  <2>1. free \in SUBSET D /\ free \cap (Range(s.out) \cup Range(s.queue)) = {}
    BY <1>8
  <2> QED
    BY <2>1, FS_Subset DEF Graph
<1>12. \A d \in D : indeg[d] = 0 <=> Known(deps, d) \subseteq Range(t.out)
  BY <1>10, KnownFinite
<1>13. indeg \in [D -> Nat]
  BY <1>10
<1>14. \A d \in D : d \in free <=> d \in dependents /\ indeg[d] = 0
  OBVIOUS
<1> HIDE DEF free, indeg, dependents
<1>15. /\ Alphabetical(free) \in Seq(free) /\ Distinct(Alphabetical(free))
       /\ Range(Alphabetical(free)) = free
  BY <1>11, AlphabeticalIs
<1>16. Alphabetical(free) \in Seq(D)
  BY <1>11, <1>15
<1>17. t.queue \in Seq(D) /\ Distinct(t.queue) /\ Range(t.queue) = Range(rest) \cup free
  BY <1>1, <1>3, <1>11, <1>15, <1>16, Behind
<1>18. Range(t.queue) \cap Range(t.out) = {}
  BY <1>2, <1>3, <1>6, <1>11, <1>17
<1>19. ASSUME NEW d \in D
       PROVE  d \in Range(t.out) \cup Range(t.queue) <=> Known(deps, d) \subseteq Range(t.out)
  <2>1. Range(t.out) \cup Range(t.queue) = Range(s.out) \cup Range(s.queue) \cup free
    BY <1>3, <1>6, <1>17
  <2>2. CASE d \in dependents
    BY <1>8, <1>12, <1>14, <2>1, <2>2
  <2>3. CASE d \notin dependents
    BY <1>2, <1>9, <1>14, <2>1, <2>3
  <2> QED
    BY <2>2, <2>3
<1>20. ASSUME NEW i \in DOMAIN t.out, NEW d \in Known(deps, t.out[i])
       PROVE  \E j \in DOMAIN t.out : j < i /\ t.out[j] = d
  <2>1. CASE i \in DOMAIN s.out
    <3>1. PICK j \in DOMAIN s.out : j < i /\ s.out[j] = d
      BY <1>2, <1>4, <1>20, <2>1
    <3> QED
      BY <1>4, <3>1
  <2>2. CASE i = Len(s.out) + 1
    <3>1. PICK j \in DOMAIN s.out : s.out[j] = d
      BY <1>4, <1>5, <1>20, <2>2 DEF Range
    <3> QED
      BY <1>4, <2>2, <3>1
  <2> QED
    BY <1>4, <2>1, <2>2
<1> QED
  BY <1>1, <1>4, <1>7, <1>10, <1>13, <1>17, <1>18, <1>19, <1>20 DEF Waits, t

(* The services can be counted. *)
LEMMA GraphCardinality ==
  ASSUME NEW deps, Graph(deps)
  PROVE  Cardinality(DOMAIN deps) \in Nat
BY FS_CardinalityType DEF Graph

(* At the end, as many are popped as there are, or no service is free. *)
LEMMA SortedWaits ==
  ASSUME NEW deps, Graph(deps)
  PROVE  \E s : /\ Waits(deps, s) /\ Sorted(deps) = s.out
                /\ Len(s.out) = Cardinality(DOMAIN deps) \/ s.queue = <<>>
<1> DEFINE N == Cardinality(DOMAIN deps)
<1>1. N \in Nat
  BY GraphCardinality
<1>2. PICK after : Popped(deps, after, N) /\ Sorted(deps) = after[N].out
  BY <1>1, SortedIs
<1> HIDE DEF N
<1> DEFINE As(k) == Waits(deps, after[k]) /\ (Len(after[k].out) = k \/ after[k].queue = <<>>)
           Bad == {k \in 0..N : ~As(k)}
<1>3. ASSUME Bad # {} PROVE FALSE
  <2>1. PICK k \in Bad : \A j \in Bad : k <= j
    <3>1. Bad \in SUBSET Nat /\ Bad # {}
      BY <1>1, <1>3
    <3> HIDE DEF Bad
    <3> QED
      BY <3>1, Least
  <2>2. k # 0
    <3>1. after[0] = Start(deps)
      BY <1>1, <1>2 DEF Popped
    <3> QED
      BY <3>1, StartWaits
  <2>3. k - 1 \in 0..N /\ k \in 0..N /\ k - 1 \notin Bad
    BY <1>1, <2>1, <2>2
  <2>4. As(k - 1)
    BY <2>3
  <2>5. after[k] = IF after[k - 1].queue = <<>> THEN after[k - 1] ELSE Pop(deps, after[k - 1])
    BY <1>2, <2>2, <2>3 DEF Popped
  <2>6. CASE after[k - 1].queue = <<>>
    BY <2>3, <2>4, <2>5, <2>6
  <2>7. CASE after[k - 1].queue # <<>>
    <3>1. Waits(deps, after[k]) /\ Len(after[k].out) = (k - 1) + 1
      BY <2>4, <2>5, <2>7, PopWaits
    <3> QED
      BY <2>3, <3>1
  <2> QED
    BY <2>6, <2>7
<1>4. As(N)
  BY <1>1, <1>3
<1> QED
  BY <1>2, <1>4 DEF N

(* The order in which services are created is right for every text: a cycle is found
   exactly where there is one, and without it every service comes once, behind those
   it depends on. *)
THEOREM SortedRight ==
  ASSUME NEW deps, Graph(deps)
  PROVE  Topological(deps)
<1> DEFINE D == DOMAIN deps
           N == Cardinality(D)
<1>1. PICK s : /\ Waits(deps, s) /\ Sorted(deps) = s.out
               /\ Len(s.out) = N \/ s.queue = <<>>
  BY SortedWaits
<1> DEFINE o == s.out
<1>2. /\ s.queue \in Seq(D) /\ o \in Seq(D) /\ Distinct(o)
      /\ \A n \in D : n \in Range(o) \cup Range(s.queue) <=> Known(deps, n) \subseteq Range(o)
      /\ \A i \in DOMAIN o : \A d \in Known(deps, o[i]) : \E j \in DOMAIN o : j < i /\ o[j] = d
  BY <1>1 DEF Waits
<1>3. N \in Nat /\ IsFiniteSet(D) /\ D \in SUBSET Nat
  BY GraphCardinality DEF Graph
<1> HIDE DEF o, N
<1>4. Len(o) \in Nat /\ DOMAIN o = 1..Len(o) /\ o \in [1..Len(o) -> D]
  BY <1>2
<1>5. o \in Injection(1..Len(o), D)
  BY <1>2, <1>4 DEF Injection, IsInjective, Distinct
<1>6. Cardinality(1..Len(o)) = Len(o) /\ IsFiniteSet(1..Len(o))
  BY <1>4, FS_Interval
<1>7. Len(o) = N <=> o \in Surjection(1..Len(o), D)
  BY <1>3, <1>5, <1>6, FS_Injection DEF N
<1>8. Len(o) = N <=> Range(o) = D
  <2>1. o \in Surjection(1..Len(o), D) <=> \A n \in D : \E i \in 1..Len(o) : o[i] = n
    BY <1>4 DEF Surjection
  <2>2. Range(o) \subseteq D
    BY <1>4 DEF Range
  <2>3. D \subseteq Range(o) <=> \A n \in D : \E i \in 1..Len(o) : o[i] = n
    BY <1>4 DEF Range
  <2> QED
    BY <1>7, <2>1, <2>2, <2>3
<1>9. CycleDetected(deps) <=> Len(o) # N
  BY <1>1 DEF CycleDetected, o, N
<1>10. DependenciesEarlier(deps, o)
  <2> SUFFICES ASSUME NEW i \in DOMAIN o, NEW j \in DOMAIN o
               PROVE  /\ o[i] = o[j] => i = j
                      /\ o[j] \in Known(deps, o[i]) => j < i
    BY DEF DependenciesEarlier
  <2>1. o[i] = o[j] => i = j
    BY <1>2 DEF Distinct
  <2>2. ASSUME o[j] \in Known(deps, o[i]) PROVE j < i
    <3>1. PICK k \in DOMAIN o : k < i /\ o[k] = o[j]
      BY <1>2, <2>2
    <3> QED
      BY <1>2, <3>1 DEF Distinct
  <2> QED
    BY <2>1, <2>2
<1>11. ASSUME Range(o) = D PROVE Acyclic(deps)
  <2> SUFFICES ASSUME NEW services \in (SUBSET D) \ {{}}
               PROVE  \E n \in services : deps[n] \cap services = {}
    BY DEF Acyclic
  <2> DEFINE P == {i \in DOMAIN o : o[i] \in services}
  <2>1. P \in SUBSET Nat /\ P # {}
    BY <1>4, <1>11 DEF Range
  <2>2. PICK i \in P : \A j \in P : i <= j
    BY <2>1, Least
  <2>3. ASSUME NEW d \in deps[o[i]] \cap services PROVE FALSE
    <3>1. d \in Known(deps, o[i])
      BY <2>3 DEF Known
    <3>2. PICK j \in DOMAIN o : j < i /\ o[j] = d
      BY <1>2, <2>2, <3>1
    <3>3. j \in P /\ i \in Nat /\ j \in Nat
      BY <2>1, <2>2, <2>3, <3>2
    <3> QED
      BY <2>2, <3>2, <3>3
  <2> QED
    BY <2>2, <2>3
<1>12. ASSUME Acyclic(deps) PROVE Len(o) = N
  <2> SUFFICES ASSUME s.queue = <<>>, Range(o) # D PROVE FALSE
    BY <1>1, <1>8 DEF o
  <2>1. D \ Range(o) \in (SUBSET D) \ {{}}
    BY <1>4 DEF Range
  <2>2. PICK n \in D \ Range(o) : deps[n] \cap (D \ Range(o)) = {}
    BY <1>12, <2>1 DEF Acyclic
  <2>3. Known(deps, n) \subseteq Range(o)
    BY <2>2 DEF Known
  <2>4. Range(s.queue) = {}
    BY DEF Range
  <2> QED
    BY <1>2, <2>2, <2>3, <2>4
<1> QED
  BY <1>1, <1>2, <1>8, <1>9, <1>10, <1>11, <1>12 DEF o, Topological

(***************************************************************************)
(* The requests.                                                           *)
(***************************************************************************)
Services(cs) == {containers[c].service : c \in cs}

(* The containers are those of these services, made from this text, and up. *)
Runs(cs, file, services) ==
  /\ Services(cs) = services
  /\ \A c \in cs : containers[c].from = file /\ containers[c].state = "running"

Deploys(h) == req[h].kind \in {"create", "update"}

(* What is still to be made, without duplicates and dependencies first. *)
Plan(deps, rest) == rest \in Seq(DOMAIN deps) /\ DependenciesEarlier(deps, rest)

(* What a request knows at each step. *)
KnowsItsStep(h) ==
  /\ pc[h] \in {"objects", "make", "start", "store"} => Deploys(h)
  /\ pc[h] \in {"drop", "forget"} => req[h].kind = "delete"
  /\ pc[h] # "idle" => req[h].kind \in Kind
  /\ pc[h] = "remove" => Deploys(h) \/ req[h].kind = "delete"
  /\ pc[h] = "act" => req[h].kind \in {"start", "stop"}
  /\ Deploys(h) \/ req[h].kind = "delete" => req[h].file \in Files
  /\ Deploys(h) /\ pc[h] \in {"list", "remove", "make", "start", "store"}
       => ~CycleDetected(req[h].file.deps)
  /\ pc[h] \in {"make", "start", "store"} => Plan(req[h].file.deps, req[h].rest)
  /\ pc[h] = "store" => req[h].rest = <<>>

(* Ids are not used again, neither of rows nor, while a request knows them, of
   containers. *)
KnowsItsOwn(h) ==
  /\ req[h].id <= lastStack
  /\ req[h].id \in DOMAIN stacks => stacks[req[h].id].name = req[h].name
  /\ \A c \in req[h].doomed \cup req[h].made :
       c \in DOMAIN containers => containers[c].stack = req[h].name

(* Two requests on one stack are known to be. *)
Alone ==
  \A g, h \in Handlers :
    g # h /\ pc[g] # "idle" /\ req[g].name = req[h].name => req[h].name \in contested

(* The container just made is to start, and all before it have. *)
Starting(h) ==
  LET n == req[h].name
      f == req[h].file
  IN \E c \in Of(n) :
       /\ req[h].made = {c} /\ containers[c].service = Head(req[h].rest)
       /\ containers[c].from = f /\ containers[c].state = "stopped"
       /\ Runs(Of(n) \ {c}, f, DOMAIN f.deps \ Range(req[h].rest))

(* Where a start or a stop takes containers. *)
Goal(kind) == IF kind = "start" THEN "running" ELSE "stopped"

(* They are there, but for those still to act on and those the engine was
   restarting. *)
Acted(h) ==
  \A c \in Of(req[h].name) \ req[h].flapping :
    /\ containers[c].state # "restarting"
    /\ c \notin req[h].doomed => containers[c].state = Goal(req[h].kind)

(* What has been achieved by a request that is alone. *)
Good(h) ==
  LET n == req[h].name
      f == req[h].file
      unmade == DOMAIN f.deps \ Range(req[h].rest)
  IN pc[h] # "idle" /\ n \notin contested =>
       /\ req[h].kind = "create" => Row(n) = {}
       /\ req[h].kind \in {"update", "delete"} => Row(n) = {req[h].id}
       /\ Deploys(h) /\ pc[h] # "objects" => \A o \in f.objects : <<n, o>> \in objects
       /\ pc[h] = "remove" => req[h].doomed = Of(n)
       /\ pc[h] \in {"make", "store"} => Runs(Of(n), f, unmade)
       /\ pc[h] = "start" => Starting(h)
       /\ pc[h] \in {"drop", "forget"} => Of(n) = {}
       /\ pc[h] = "act" => Acted(h)

(* Alone or not, what a request has seen is so as long as no container of its
   stack changes. *)
Seen(h) ==
  LET n == req[h].name
  IN pc[h] # "idle" /\ n \notin dirty =>
       /\ pc[h] = "remove" => req[h].doomed = Of(n)
       /\ pc[h] \in {"drop", "forget"} => Of(n) = {}
       /\ pc[h] \notin {"start", "store"}
       /\ req[h].kind = "delete" => Row(n) \subseteq {req[h].id}

Stored(n) ==
  IF Row(n) = {} THEN Of(n) = {} ELSE \A i \in Row(n) : Exactly(n, stacks[i].compose)

IInv ==
  /\ TypeOK /\ Alone
  /\ \A h \in Handlers : KnowsItsStep(h) /\ KnowsItsOwn(h) /\ Good(h) /\ Seen(h)
  /\ \A n \in Names \ dirty : Stored(n)

-------------------------------------------------------------------------------
(* The rest of a plan is a plan: its head is not in it, and what the head depends
   on has been made. *)
LEMMA PlanTail ==
  ASSUME NEW deps, NEW rest, Plan(deps, rest), rest # <<>>
  PROVE  /\ Plan(deps, Tail(rest))
         /\ Head(rest) \in DOMAIN deps /\ Head(rest) \notin Range(Tail(rest))
         /\ Range(rest) = Range(Tail(rest)) \cup {Head(rest)}
         /\ Known(deps, Head(rest)) \cap Range(rest) = {}
<1>1. rest \in Seq(DOMAIN deps) /\ Len(rest) \in Nat /\ Len(rest) > 0 /\ DOMAIN rest = 1..Len(rest)
  BY DEF Plan
<1>2. /\ Tail(rest) \in Seq(DOMAIN deps) /\ DOMAIN Tail(rest) = 1..(Len(rest) - 1)
      /\ \A i \in 1..(Len(rest) - 1) : Tail(rest)[i] = rest[i + 1]
  BY <1>1
<1>3. Head(rest) = rest[1] /\ rest[1] \in DOMAIN deps
  BY <1>1
<1>4. DependenciesEarlier(deps, Tail(rest))
  BY <1>1, <1>2 DEF Plan, DependenciesEarlier
<1>5. \A i \in 1..Len(rest) : i = 1 \/ (i - 1 \in 1..(Len(rest) - 1) /\ rest[i] = Tail(rest)[i - 1])
  BY <1>1, <1>2
<1>6. Range(rest) = Range(Tail(rest)) \cup {rest[1]}
  <2>1. ASSUME NEW x \in Range(rest) PROVE x \in Range(Tail(rest)) \cup {rest[1]}
    <3>1. PICK i \in 1..Len(rest) : x = rest[i]
      BY <1>1 DEF Range
    <3> QED
      BY <1>2, <1>5, <3>1 DEF Range
  <2>2. ASSUME NEW x \in Range(Tail(rest)) PROVE x \in Range(rest)
    <3>1. PICK i \in 1..(Len(rest) - 1) : x = rest[i + 1]
      BY <1>2 DEF Range
    <3>2. i + 1 \in DOMAIN rest
      BY <1>1
    <3> QED
      BY <3>1, <3>2 DEF Range
  <2>3. rest[1] \in Range(rest)
    BY <1>1 DEF Range
  <2> QED
    BY <2>1, <2>2, <2>3
<1>7. rest[1] \notin Range(Tail(rest))
  BY <1>1, <1>2 DEF Range, Plan, DependenciesEarlier
<1>8. Known(deps, rest[1]) \cap Range(rest) = {}
  BY <1>1 DEF Range, Plan, DependenciesEarlier
<1> QED
  BY <1>2, <1>3, <1>4, <1>6, <1>7, <1>8 DEF Plan

(* Nothing is there and nothing is asked for. *)
LEMMA InitInv == Init => IInv
<1> SUFFICES ASSUME Init PROVE IInv
  OBVIOUS
<1>1. NoRequest \in Request
  BY DEF NoRequest, NoFile, Asked, Request
<1>2. TypeOK
  BY <1>1, BoundsAssumption DEF Init, TypeOK, TablesOK, RequestsOK
<1>3. Alone /\ \A h \in Handlers : KnowsItsStep(h) /\ KnowsItsOwn(h) /\ Good(h) /\ Seen(h)
  BY DEF Init, KnowsItsStep, KnowsItsOwn, Alone, Good, Seen, Deploys, NoRequest, Asked
<1>4. \A n \in Names \ dirty : Stored(n)
  BY DEF Init, Stored, Row, Of
<1> QED
  BY <1>2, <1>3, <1>4 DEF IInv

-------------------------------------------------------------------------------
(* What a step on one stack leaves alone. *)

Others(n0) ==
  \A n \in Names \ {n0} :
    /\ Of(n)' = Of(n) /\ \A c \in Of(n) : containers'[c] = containers[c]
    /\ Row(n)' = Row(n) /\ \A i \in Row(n) : stacks'[i] = stacks[i]
    /\ \A f \in Files : \A o \in f.objects : <<n, o>> \in objects => <<n, o>> \in objects'
    /\ n \in dirty' <=> n \in dirty
    /\ n \in contested' <=> n \in contested

Kept(h) == \A g \in Handlers \ {h} : req'[g] = req[g] /\ pc'[g] = pc[g]

(* Requests on other stacks are none the wiser. *)
LEMMA OtherRequests ==
  ASSUME IInv, NEW n0, Others(n0), NEW g \in Handlers, req[g].name # n0,
         req'[g] = req[g], pc'[g] = pc[g]
  PROVE  Good(g)' /\ Seen(g)'
<1> DEFINE n == req[g].name
<1>1. CASE pc[g] = "idle"
  BY <1>1 DEF Good, Seen
<1>2. CASE pc[g] # "idle"
  <2>1. n \in Names \ {n0} /\ req[g] \in Request
    BY <1>2 DEF IInv, TypeOK, RequestsOK, Request
  <2>2. /\ Of(n)' = Of(n) /\ \A c \in Of(n) : containers'[c] = containers[c]
        /\ Row(n)' = Row(n)
        /\ n \in dirty' <=> n \in dirty
        /\ n \in contested' <=> n \in contested
        /\ \A f \in Files : \A o \in f.objects : <<n, o>> \in objects => <<n, o>> \in objects'
    BY <2>1 DEF Others
  <2>3. Seen(g)'
    BY <2>2 DEF IInv, Seen
  <2>4. ASSUME n \notin contested PROVE Good(g)'
    <3>1. Good(g) /\ n' = n
      BY DEF IInv
    <3>2. Deploys(g) => req[g].file \in Files
      BY DEF IInv, KnowsItsStep
    <3>3. \A cs, file, services : cs \subseteq Of(n) /\ Runs(cs, file, services) =>
                                   Runs(cs, file, services)'
      BY <2>2 DEF Runs, Services
    <3>4. Starting(g) => Starting(g)'
      BY <2>2, <3>3 DEF Starting, Of
    <3>5. Acted(g) => Acted(g)'
      BY <2>2 DEF Acted
    <3> HIDE DEF n
    <3> QED
      BY <1>2, <2>2, <2>4, <3>1, <3>2, <3>3, <3>4, <3>5 DEF Good, Deploys, n
  <2> QED
    BY <2>2, <2>3, <2>4 DEF Good
<1> QED
  BY <1>1, <1>2

(* Other stacks run what is stored as before. *)
LEMMA OtherStacks ==
  ASSUME IInv, NEW n0, Others(n0), NEW n \in Names \ {n0}, n \notin dirty'
  PROVE  Stored(n)'
BY DEF IInv, Others, Stored, Exactly, Row

(* Of a step within a request, what is left to show. *)
LEMMA Within ==
  ASSUME IInv, NEW h \in Handlers, pc[h] # "idle", Kept(h),
         NEW n0 \in Names, n0 = req[h].name, Others(n0),
         contested' = contested, TypeOK',
         pc'[h] = "idle" \/ req'[h].name = n0,
         KnowsItsStep(h)', Good(h)', Seen(h)',
         \A g \in Handlers : KnowsItsOwn(g)',
         \A g \in Handlers \ {h} : req[g].name = n0 => Seen(g)',
         n0 \notin dirty' => Stored(n0)'
  PROVE  IInv'
<1>1. Alone'
  <2> SUFFICES ASSUME NEW f \in Handlers, NEW g \in Handlers, f # g, pc'[f] # "idle",
                      req'[f].name = req'[g].name
               PROVE  req'[g].name \in contested'
    BY DEF Alone
  <2>1. pc'[g] # "idle"
    BY DEF TypeOK, RequestsOK, NoRequest, Asked
  <2>2. req'[f].name = req[f].name /\ req'[g].name = req[g].name /\ pc[f] # "idle"
    BY <2>1 DEF Kept
  <2> QED
    BY <2>2 DEF IInv, Alone
<1>2. \A g \in Handlers : KnowsItsStep(g)'
  BY DEF IInv, KnowsItsStep, Kept, Deploys
<1>3. \A g \in Handlers \ {h} : req[g].name = n0 => Good(g)'
  BY DEF IInv, Alone, Kept, Good
<1>4. \A g \in Handlers \ {h} : Good(g)' /\ Seen(g)'
  BY <1>3, OtherRequests DEF Kept
<1>5. \A n \in Names : n \notin dirty' => Stored(n)'
  <2> SUFFICES ASSUME NEW n \in Names, n \notin dirty' PROVE Stored(n)'
    OBVIOUS
  <2>1. CASE n = n0
    BY <2>1
  <2>2. CASE n # n0
    BY <2>2, OtherStacks
  <2> QED
    BY <2>1, <2>2
<1> QED
  BY <1>1, <1>2, <1>4, <1>5 DEF IInv

(* The same of a step that changes neither containers nor rows. *)
LEMMA Quiet ==
  ASSUME IInv, NEW h \in Handlers, pc[h] # "idle", Kept(h),
         UNCHANGED <<store, containers, history>>,
         \A n \in Names \ {req[h].name} : \A f \in Files : \A o \in f.objects :
           <<n, o>> \in objects => <<n, o>> \in objects',
         RequestsOK', pc'[h] = "idle" \/ req'[h].name = req[h].name,
         KnowsItsStep(h)', KnowsItsOwn(h)', Good(h)', Seen(h)'
  PROVE  IInv'
<1> USE DEF store, history
<1>1. PICK n0 \in Names : n0 = req[h].name
  BY DEF IInv, TypeOK, RequestsOK, Request
<1>2. Others(n0)
  BY <1>1 DEF Others, Of, Row
<1>3. TypeOK'
  BY DEF IInv, TypeOK, TablesOK
<1>4. \A g \in Handlers : KnowsItsOwn(g)'
  BY DEF IInv, KnowsItsOwn, Kept
<1>5. \A g \in Handlers \ {h} : Seen(g)'
  BY DEF IInv, Seen, Kept, Of, Row
<1>6. n0 \notin dirty' => Stored(n0)'
  BY DEF IInv, Stored, Exactly, Of, Row
<1> QED
  BY <1>1, <1>2, <1>3, <1>4, <1>5, <1>6, Within

(* A request goes on. *)
LEMMA GoesOn ==
  ASSUME RequestsOK, NEW h \in Handlers, NEW r \in Request, r.name # "none",
         NEW step \in {"objects", "list", "remove", "make", "start", "store", "drop", "forget", "act"},
         Become(h, step, r),
         step = "start" => \E c \in ContainerIds : r.made = {c},
         step \in {"make", "start"} => r.rest # <<>>
  PROVE  RequestsOK' /\ Kept(h) /\ pc'[h] = step /\ req'[h] = r
BY DEF RequestsOK, Become, Kept

(* A request ends, wherever it is, and knows nothing any more. *)
LEMMA Replies ==
  ASSUME IInv, NEW h \in Handlers, Reply(h), lastStack' \in Nat, 0 \notin DOMAIN stacks'
  PROVE  /\ RequestsOK' /\ Kept(h) /\ pc'[h] = "idle"
         /\ KnowsItsStep(h)' /\ KnowsItsOwn(h)' /\ Good(h)' /\ Seen(h)'
<1>1. NoRequest \in Request
  BY DEF NoRequest, NoFile, Asked, Request
<1>2. RequestsOK' /\ Kept(h) /\ pc'[h] = "idle" /\ req'[h] = NoRequest
  BY <1>1 DEF IInv, TypeOK, RequestsOK, Reply, Become, Kept
<1> QED
  BY <1>2 DEF KnowsItsStep, KnowsItsOwn, Good, Seen, NoRequest, Asked, Deploys

(* A request that ends without changing containers or rows. *)
LEMMA Ends ==
  ASSUME IInv, NEW h \in Handlers, pc[h] # "idle", Reply(h),
         UNCHANGED <<store, containers, history>>,
         \A n \in Names \ {req[h].name} : \A f \in Files : \A o \in f.objects :
           <<n, o>> \in objects => <<n, o>> \in objects'
  PROVE  IInv'
<1>1. lastStack' \in Nat /\ 0 \notin DOMAIN stacks'
  BY BoundsAssumption DEF IInv, TypeOK, TablesOK, store
<1> QED
  BY <1>1, Quiet, Replies

(* One container's state. *)
LEMMA OneState ==
  ASSUME TablesOK, NEW c \in DOMAIN containers, NEW s \in State, UNCHANGED store,
         containers' = [containers EXCEPT ![c].state = s]
  PROVE  /\ TablesOK' /\ DOMAIN containers' = DOMAIN containers
         /\ \A n : Of(n)' = Of(n) /\ Services(Of(n))' = Services(Of(n))
         /\ \A d \in DOMAIN containers :
              /\ containers'[d].stack = containers[d].stack
              /\ containers'[d].service = containers[d].service
              /\ containers'[d].from = containers[d].from
              /\ IF d = c THEN containers'[d].state = s ELSE containers'[d] = containers[d]
<1>1. \A d \in DOMAIN containers : containers[d] \in Container
  BY DEF TablesOK
<1>2. [containers[c] EXCEPT !.state = s] \in Container
  BY <1>1 DEF Container
<1>3. containers' = [containers EXCEPT ![c] = [containers[c] EXCEPT !.state = s]]
  OBVIOUS
<1>4. DOMAIN containers' = DOMAIN containers /\ containers' \in [DOMAIN containers' -> Container]
  BY <1>2, <1>3 DEF TablesOK
<1>5. \A d \in DOMAIN containers :
        /\ containers'[d].stack = containers[d].stack
        /\ containers'[d].service = containers[d].service
        /\ containers'[d].from = containers[d].from
        /\ IF d = c THEN containers'[d].state = s ELSE containers'[d] = containers[d]
  BY <1>1, <1>3 DEF Container
<1>6. TablesOK'
  BY <1>4, <1>5 DEF TablesOK, store
<1>7. \A n : Of(n)' = Of(n) /\ Services(Of(n))' = Services(Of(n))
  BY <1>4, <1>5 DEF Of, Services
<1> QED
  BY <1>4, <1>5, <1>6, <1>7

-------------------------------------------------------------------------------
(* How requests begin. *)

(* A request begins with nothing made and nothing doomed, beside whichever others. *)
LEMMA BeginInv ==
  ASSUME IInv, NEW h \in Handlers, NEW step \in {"objects", "list"}, NEW r \in Request,
         Begins(h, step, r), r.name \in Names, r.doomed = {}, r.made = {},
         r.kind \in Kind, step = "objects" <=> r.kind \in {"create", "update"},
         r.kind \in {"create", "update", "delete"} => r.file \in Files,
         IF r.kind = "create" THEN r.id = 0 /\ Row(r.name) = {}
         ELSE r.id \in DOMAIN stacks /\ stacks[r.id].name = r.name
  PROVE  IInv'
<1> DEFINE n0 == r.name
<1>1. /\ pc[h] = "idle" /\ Become(h, step, r) /\ req[h] = NoRequest
      /\ contested' = IF \E g \in Handlers : req[g].name = n0 THEN contested \cup {n0}
                      ELSE contested \ {n0}
      /\ UNCHANGED <<dirty, stacks, lastStack, containers, objects>>
  BY DEF Begins, store, engine, IInv, TypeOK, RequestsOK
<1>2. RequestsOK' /\ Kept(h) /\ pc'[h] = step /\ req'[h] = r
  BY <1>1, GoesOn, FilesAssumption DEF IInv, TypeOK
<1>3. TypeOK'
  BY <1>1, <1>2 DEF IInv, TypeOK, TablesOK
<1>4. Alone'
  <2> SUFFICES ASSUME NEW f \in Handlers, NEW g \in Handlers, f # g, pc'[f] # "idle",
                      req'[f].name = req'[g].name
               PROVE  req'[g].name \in contested'
    BY DEF Alone
  <2>1. CASE f = h \/ g = h
    BY <1>1, <1>2, <2>1 DEF Kept
  <2>2. CASE f # h /\ g # h
    BY <1>1, <1>2, <2>2 DEF Kept, Alone, IInv
  <2> QED
    BY <2>1, <2>2
<1>5. \A g \in Handlers : KnowsItsStep(g)' /\ KnowsItsOwn(g)'
  <2>1. KnowsItsStep(h)'
    BY <1>2 DEF KnowsItsStep, Deploys
  <2>2. KnowsItsOwn(h)'
    BY <1>1, <1>2, BoundsAssumption DEF KnowsItsOwn, IInv, TypeOK, TablesOK
  <2> QED
    BY <1>1, <1>2, <2>1, <2>2 DEF IInv, Kept, KnowsItsStep, KnowsItsOwn, Deploys
<1>6. Row(n0)' = Row(n0) /\ (r.kind # "create" => Row(n0) = {r.id})
  BY <1>1 DEF Row, IInv, TypeOK, TablesOK
<1>7. Good(h)' /\ Seen(h)'
  BY <1>2, <1>6 DEF Good, Seen, Deploys
<1>8. Others(n0)
  BY <1>1 DEF Others, Of, Row
<1>9. ASSUME NEW g \in Handlers \ {h} PROVE Good(g)' /\ Seen(g)'
  <2>1. CASE req[g].name = n0
    <3>1. Good(g)'
      BY <1>1, <1>2, <2>1 DEF Good, Kept
    <3>2. Seen(g)'
      BY <1>1, <1>2 DEF IInv, Seen, Kept, Of, Row
    <3> QED
      BY <3>1, <3>2
  <2>2. CASE req[g].name # n0
    BY <1>2, <1>8, <2>2, OtherRequests DEF Kept
  <2> QED
    BY <2>1, <2>2
<1>10. \A n \in Names \ dirty' : Stored(n)'
  BY <1>1 DEF IInv, Stored, Exactly, Of, Row
<1> QED
  BY <1>3, <1>4, <1>5, <1>7, <1>9, <1>10 DEF IInv

(* handleStackCreate, handleStackUpdate, handleStackDelete and the two others: a
   request knows at first what it was given and what is stored. *)
LEMMA BeginsInv ==
  ASSUME IInv, NEW h \in Handlers,
         BeginCreate(h) \/ BeginUpdate(h) \/ BeginDelete(h) \/ BeginAct(h)
  PROVE  IInv'
<1>1. \A i \in DOMAIN stacks : /\ i \in Nat /\ stacks[i].name \in Names
                             /\ stacks[i].compose \in Files
  BY DEF IInv, TypeOK, TablesOK
<1>2. PICK step \in {"objects", "list"}, kind \in Kind, name \in Names, id \in Nat,
           file \in Files \cup {NoFile} :
        /\ Begins(h, step, Asked(kind, name, id, file))
        /\ step = "objects" <=> kind \in {"create", "update"}
        /\ kind \in {"create", "update", "delete"} => file \in Files
        /\ IF kind = "create" THEN id = 0 /\ Row(name) = {}
           ELSE id \in DOMAIN stacks /\ stacks[id].name = name
  <2> USE DEF Kind
  <2>1. CASE BeginCreate(h)
    BY <2>1 DEF BeginCreate
  <2>2. CASE BeginUpdate(h)
    BY <1>1, <2>2 DEF BeginUpdate
  <2>3. CASE BeginDelete(h)
    BY <1>1, <2>3 DEF BeginDelete
  <2>4. CASE BeginAct(h)
    BY <1>1, <2>4 DEF BeginAct
  <2> QED
    BY <2>1, <2>2, <2>3, <2>4
<1> DEFINE r == Asked(kind, name, id, file)
<1>3. /\ r \in Request /\ r.kind = kind /\ r.name = name /\ r.id = id /\ r.file = file
      /\ r.doomed = {} /\ r.made = {}
  BY DEF Asked, Request
<1> HIDE DEF r
<1>4. Begins(h, step, r)
  BY <1>2 DEF r
<1> QED
  BY <1>2, <1>3, <1>4, BeginInv

-------------------------------------------------------------------------------
(* Steps that change neither containers nor rows. *)

(* The step a request is at has its name, its kind and its plan. *)
LEMMA AtStep ==
  ASSUME IInv, NEW h \in Handlers, pc[h] # "idle"
  PROVE  req[h] \in Request /\ req[h].name \in Names /\ req[h].name # "none"
BY DEF IInv, TypeOK, RequestsOK, Request

(* It sees the same containers and rows when they are not touched. *)
LEMMA SameView ==
  ASSUME UNCHANGED <<store, containers>>, NEW h \in Handlers, req'[h].name = req[h].name
  PROVE  /\ Row(req[h].name)' = Row(req[h].name)
         /\ Of(req[h].name)' = Of(req[h].name)
BY DEF store, Row, Of

(* Manager.Deploy creates what its own stack declares. *)
LEMMA CreateObjectsInv == ASSUME IInv, NEW h \in Handlers, CreateObjects(h) PROVE IInv'
<1> DEFINE declared == {<<req[h].name, o>> : o \in req[h].file.objects}
<1>1. /\ pc[h] = "objects" /\ UNCHANGED <<store, containers, history>>
      /\ \E made \in SUBSET declared :
            /\ objects' = objects \cup made
            /\ IF made = declared /\ ~CycleDetected(req[h].file.deps)
               THEN Become(h, "list", req[h]) ELSE Reply(h)
  BY DEF CreateObjects
<1> PICK made \in SUBSET declared :
      /\ objects' = objects \cup made
      /\ IF made = declared /\ ~CycleDetected(req[h].file.deps)
         THEN Become(h, "list", req[h]) ELSE Reply(h)
  BY <1>1
<1>2. CASE made = declared /\ ~CycleDetected(req[h].file.deps)
  <2>1. RequestsOK' /\ Kept(h) /\ pc'[h] = "list" /\ req'[h] = req[h]
    BY <1>1, <1>2, AtStep, GoesOn DEF IInv, TypeOK
  <2>2. KnowsItsStep(h)' /\ KnowsItsOwn(h)'
    BY <1>1, <1>2, <2>1 DEF IInv, KnowsItsStep, KnowsItsOwn, Deploys, store
  <2>3. \A o \in req[h].file.objects : <<req[h].name, o>> \in objects'
    BY <1>2
  <2>4. Good(h)' /\ Seen(h)'
    BY <1>1, <2>1, <2>3, SameView DEF IInv, Good, Seen, Deploys, history
  <2> QED
    BY <1>1, <2>1, <2>2, <2>4, Quiet
<1>3. CASE ~(made = declared /\ ~CycleDetected(req[h].file.deps))
  BY <1>1, <1>3, Ends
<1> QED
  BY <1>2, <1>3

(* Containers are listed as they are, those that a start or a stop leaves out being
   where they should be. *)
LEMMA ListInv == ASSUME IInv, NEW h \in Handlers, List(h) PROVE IInv'
<1> DEFINE acts == req[h].kind \in {"start", "stop"}
           step == IF acts THEN "act" ELSE "remove"
           flapping == IF acts THEN InState(req[h].name, {"restarting"}) ELSE req[h].flapping
           r == [req[h] EXCEPT !.doomed = Listed(h), !.flapping = flapping]
<1>1. /\ pc[h] = "list" /\ Become(h, step, r)
      /\ UNCHANGED <<store, engine, history>>
  <2>1. req[h] \in Request
    BY DEF IInv, TypeOK, RequestsOK
  <2>2. ~acts => [req[h] EXCEPT !.doomed = Listed(h)] = r
    BY <2>1 DEF Request
  <2> QED
    BY <2>2 DEF List
<1>2. /\ Listed(h) \subseteq Of(req[h].name) /\ Of(req[h].name) \subseteq ContainerIds
      /\ InState(req[h].name, {"restarting"}) \subseteq ContainerIds
      /\ req[h].kind \notin {"start", "stop"} => Listed(h) = Of(req[h].name)
  BY DEF Listed, InState, Of, IInv, TypeOK, TablesOK
<1>3. /\ r \in Request /\ r.doomed = Listed(h) /\ r.name = req[h].name /\ r.kind = req[h].kind
      /\ r.id = req[h].id /\ r.file = req[h].file /\ r.rest = req[h].rest /\ r.made = req[h].made
      /\ acts => r.flapping = InState(req[h].name, {"restarting"})
  BY <1>1, <1>2, AtStep DEF Request
<1>4. RequestsOK' /\ Kept(h) /\ pc'[h] = step /\ req'[h] = r
  <2> HIDE DEF r
  <2> QED
    BY <1>1, <1>3, AtStep, GoesOn DEF IInv, TypeOK
<1> HIDE DEF r
<1>5. KnowsItsStep(h)'
  BY <1>1, <1>3, <1>4, AtStep DEF IInv, KnowsItsStep, Deploys, Request, Kind
<1>6. KnowsItsOwn(h)'
  BY <1>1, <1>2, <1>3, <1>4 DEF IInv, KnowsItsOwn, store, engine, Of
<1>7. Good(h)'
  <2>1. \A c \in Of(req[h].name) \ InState(req[h].name, {"restarting"}) :
          /\ containers[c].state # "restarting"
          /\ c \notin Listed(h) /\ req[h].kind = "start" => containers[c].state = "running"
          /\ c \notin Listed(h) /\ req[h].kind = "stop" => containers[c].state = "stopped"
    BY DEF IInv, TypeOK, TablesOK, Container, State, Listed, InState, Of
  <2>2. /\ Row(req[h].name)' = Row(req[h].name) /\ Of(req[h].name)' = Of(req[h].name)
        /\ containers' = containers
    BY <1>1, <1>3, <1>4, SameView DEF engine
  <2>3. acts => Acted(h)'
    BY <1>3, <1>4, <2>1, <2>2 DEF Acted, Goal
  <2> QED
    BY <1>1, <1>2, <1>3, <1>4, <2>2, <2>3 DEF IInv, Good, Deploys, engine, history
<1>8. Seen(h)'
  BY <1>1, <1>2, <1>3, <1>4 DEF IInv, Seen, Row, Of, store, engine, history
<1> QED
  BY <1>1, <1>3, <1>4, <1>5, <1>6, <1>7, <1>8, Quiet DEF engine

(* All have been removed: a deployment has the whole order before it. *)
LEMMA RemovedInv == ASSUME IInv, NEW h \in Handlers, Removed(h) PROVE IInv'
<1>1. pc[h] = "remove" /\ req[h].doomed = {} /\ UNCHANGED <<store, containers, objects, history>>
  BY DEF Removed, engine
<1>2. CASE req[h].kind = "delete"
  <2>1. RequestsOK' /\ Kept(h) /\ pc'[h] = "drop" /\ req'[h] = req[h]
    BY <1>1, <1>2, AtStep, GoesOn DEF IInv, TypeOK, Removed
  <2>2. KnowsItsStep(h)' /\ KnowsItsOwn(h)'
    BY <1>1, <1>2, <2>1 DEF IInv, KnowsItsStep, KnowsItsOwn, Deploys, store
  <2>3. Good(h)' /\ Seen(h)'
    BY <1>1, <1>2, <2>1, SameView DEF IInv, Good, Seen, Deploys, history
  <2> QED
    BY <1>1, <2>1, <2>2, <2>3, Quiet
<1>3. CASE req[h].kind # "delete"
  <2> DEFINE f == req[h].file
             r == [req[h] EXCEPT !.rest = Order(f.deps)]
  <2>1. /\ Deploys(h) /\ f \in Files /\ ~CycleDetected(f.deps)
        /\ DOMAIN f.deps \subseteq Nat /\ DOMAIN f.deps # {}
    BY <1>1, <1>3, FilesAssumption DEF IInv, KnowsItsStep, Graph
  <2>2. /\ Order(f.deps) \in Seq(DOMAIN f.deps) /\ Range(Order(f.deps)) = DOMAIN f.deps
        /\ Plan(f.deps, Order(f.deps))
    BY <2>1, FilesAssumption, SortedRight DEF Order, Plan, Topological
  <2>3. Order(f.deps) \in Seq(Nat) /\ Order(f.deps) # <<>>
    BY <2>1, <2>2 DEF Range
  <2>4. /\ r \in Request /\ r.rest = Order(f.deps) /\ r.name = req[h].name /\ r.kind = req[h].kind
        /\ r.id = req[h].id /\ r.file = f /\ r.doomed = {} /\ r.made = req[h].made
    BY <1>1, <2>3, AtStep DEF Request
  <2>5. Become(h, "make", r)
    BY <1>3 DEF Removed
  <2> HIDE DEF r
  <2>6. RequestsOK' /\ Kept(h) /\ pc'[h] = "make" /\ req'[h] = r
    BY <1>1, <2>3, <2>4, <2>5, AtStep, GoesOn DEF IInv, TypeOK
  <2>7. KnowsItsStep(h)'
    BY <1>1, <2>1, <2>2, <2>4, <2>6 DEF IInv, KnowsItsStep, Deploys
  <2>8. KnowsItsOwn(h)'
    BY <1>1, <2>4, <2>6 DEF IInv, KnowsItsOwn, store
  <2>9. Good(h)'
    <3>1. Of(req[h].name) = {} => Runs(Of(req[h].name), f, DOMAIN f.deps \ Range(Order(f.deps)))
      BY <2>2 DEF Runs, Services
    <3>2. Of(req[h].name)' = Of(req[h].name) /\ Row(req[h].name)' = Row(req[h].name)
      BY <1>1, <2>4, <2>6 DEF Of, Row, store
    <3> QED
      BY <1>1, <2>1, <2>2, <2>4, <2>6, <3>1 DEF IInv, Good, Deploys, Row, Of, Runs, Services, store, history
  <2>10. Seen(h)'
    BY <1>1, <2>4, <2>6 DEF IInv, Seen, Row, store, history, Deploys, KnowsItsStep
  <2> QED
    BY <1>1, <2>4, <2>6, <2>7, <2>8, <2>9, <2>10, Quiet
<1> QED
  BY <1>2, <1>3

(* RemoveNetwork and RemoveVolume take what is the stack's own. *)
LEMMA DropInv == ASSUME IInv, NEW h \in Handlers, Drop(h) PROVE IInv'
<1>1. /\ pc[h] = "drop" /\ Become(h, "forget", req[h])
      /\ UNCHANGED <<store, containers, history>>
      /\ \E gone \in SUBSET {<<req[h].name, o>> : o \in req[h].file.objects} :
           objects' = objects \ gone
  BY DEF Drop
<1>2. RequestsOK' /\ Kept(h) /\ pc'[h] = "forget" /\ req'[h] = req[h]
  BY <1>1, AtStep, GoesOn DEF IInv, TypeOK
<1>3. KnowsItsStep(h)' /\ KnowsItsOwn(h)'
  BY <1>1, <1>2 DEF IInv, KnowsItsStep, KnowsItsOwn, Deploys, store
<1>4. ~Deploys(h)
  BY <1>1 DEF IInv, KnowsItsStep, Deploys
<1>5. Good(h)' /\ Seen(h)'
  BY <1>1, <1>2, <1>4, SameView DEF IInv, Good, Seen, Deploys, history
<1>6. \A n \in Names \ {req[h].name} : \A f \in Files : \A o \in f.objects :
        <<n, o>> \in objects => <<n, o>> \in objects'
  BY <1>1
<1> QED
  BY <1>1, <1>2, <1>3, <1>5, <1>6, Quiet

(* A request is cut short, and what it has done stays. *)
LEMMA StopsInv == ASSUME IInv, NEW h \in Handlers, Stops(h) PROVE IInv'
BY Ends DEF Stops, engine

-------------------------------------------------------------------------------
(* Steps that change containers. *)

(* The same of a step that changes the containers of its own stack. *)
LEMMA Visible ==
  ASSUME IInv, NEW h \in Handlers, pc[h] # "idle", Kept(h),
         UNCHANGED <<store, objects, contested>>,
         NEW n0 \in Names, n0 = req[h].name, dirty' = dirty \cup {n0},
         \A n \in Names \ {n0} : Of(n)' = Of(n) /\ \A c \in Of(n) : containers'[c] = containers[c],
         TypeOK', pc'[h] = "idle" \/ req'[h].name = n0,
         KnowsItsStep(h)', Good(h)', \A g \in Handlers : KnowsItsOwn(g)'
  PROVE  IInv'
<1>1. Others(n0)
  BY DEF Others, Row, store
<1>2. Seen(h)'
  BY DEF Seen
<1>3. \A g \in Handlers \ {h} : req[g].name = n0 => Seen(g)'
  BY DEF Seen, Kept
<1> QED
  BY <1>1, <1>2, <1>3, Within

(* The engine's list loses one container, which was the stack's. *)
LEMMA RemoveContainerInv == ASSUME IInv, NEW h \in Handlers, RemoveContainer(h) PROVE IInv'
<1>1. pc[h] = "remove" /\ UNCHANGED <<store, objects, contested>>
  BY DEF RemoveContainer
<1> PICK c \in req[h].doomed :
      IF c \in DOMAIN containers
      THEN /\ containers' = Restrict(containers, DOMAIN containers \ {c})
           /\ dirty' = dirty \cup {req[h].name}
           /\ Become(h, "remove", [req[h] EXCEPT !.doomed = @ \ {c}])
      ELSE Reply(h) /\ UNCHANGED <<containers, dirty>>
  BY DEF RemoveContainer
<1>2. CASE c \notin DOMAIN containers
  BY <1>1, <1>2, Ends DEF history
<1>3. CASE c \in DOMAIN containers
  <2> DEFINE r == [req[h] EXCEPT !.doomed = @ \ {c}]
  <2>1. /\ containers' = Restrict(containers, DOMAIN containers \ {c})
        /\ dirty' = dirty \cup {req[h].name} /\ Become(h, "remove", r)
    BY <1>3
  <2>2. PICK n0 \in Names : n0 = req[h].name
    BY <1>1, AtStep
  <2>3. /\ r \in Request /\ r.doomed = req[h].doomed \ {c} /\ r.name = n0 /\ r.kind = req[h].kind
        /\ r.id = req[h].id /\ r.file = req[h].file /\ r.rest = req[h].rest /\ r.made = req[h].made
    BY <1>1, <2>2, AtStep DEF Request
  <2> HIDE DEF r
  <2>4. RequestsOK' /\ Kept(h) /\ pc'[h] = "remove" /\ req'[h] = r
    BY <1>1, <2>1, <2>2, <2>3, AtStep, GoesOn DEF IInv, TypeOK
  <2>5. /\ DOMAIN containers' = DOMAIN containers \ {c}
        /\ \A d \in DOMAIN containers \ {c} : containers'[d] = containers[d]
    BY <2>1 DEF Restrict
  <2>6. containers[c].stack = n0
    BY <1>3, <2>2 DEF IInv, KnowsItsOwn
  <2>7. TypeOK'
    <3>1. containers' \in [DOMAIN containers' -> Container]
      BY <2>1, <2>5 DEF Restrict, IInv, TypeOK, TablesOK
    <3>2. UNCHANGED <<stacks, lastStack>>
      BY <1>1 DEF store
    <3> QED
      BY <2>4, <2>5, <3>1, <3>2 DEF IInv, TypeOK, TablesOK
  <2>8. /\ Of(n0)' = Of(n0) \ {c} /\ Row(n0)' = Row(n0)
        /\ \A n \in Names \ {n0} : Of(n)' = Of(n) /\ \A d \in Of(n) : containers'[d] = containers[d]
    BY <1>1, <2>5, <2>6 DEF Of, Row, store
  <2>9. KnowsItsStep(h)'
    BY <1>1, <2>3, <2>4 DEF IInv, KnowsItsStep, Deploys
  <2>10. \A g \in Handlers : KnowsItsOwn(g)'
    BY <1>1, <2>2, <2>3, <2>4, <2>5 DEF IInv, KnowsItsOwn, Kept, store
  <2>11. Good(h)'
    <3>1. req'[h].name = n0
      BY <2>3, <2>4
    <3>2. Of(req[h].name)' = Of(n0)' /\ Row(req[h].name)' = Row(n0)'
      BY <3>1 DEF Of, Row
    <3>3. SUFFICES ASSUME n0 \notin contested PROVE Good(h)'
      BY <1>1, <3>1 DEF Good
    <3>4. req[h].doomed = Of(n0)
      BY <1>1, <2>2, <3>3 DEF IInv, Good
    <3>5. req'[h].doomed = Of(req[h].name)'
      BY <2>3, <2>4, <2>8, <3>2, <3>4
    <3> QED
      BY <1>1, <2>2, <2>3, <2>4, <2>8, <3>1, <3>2, <3>3, <3>5 DEF IInv, Good, Deploys
  <2> QED
    BY <1>1, <2>1, <2>2, <2>3, <2>4, <2>7, <2>8, <2>9, <2>10, <2>11, Visible
<1> QED
  BY <1>2, <1>3

(* The engine makes a container for the next service of the plan. *)
LEMMA CreateContainerInv == ASSUME IInv, NEW h \in Handlers, CreateContainer(h) PROVE IInv'
<1> DEFINE service == Head(req[h].rest)
           fresh == ContainerIds \ (DOMAIN containers \cup Remembered)
           file == req[h].file
<1>1. pc[h] = "make" /\ UNCHANGED <<store, objects, contested>>
  BY DEF CreateContainer
<1>2. CASE NameTaken(req[h].name, service)
  BY <1>1, <1>2, Ends DEF CreateContainer, history
<1>3. CASE ~NameTaken(req[h].name, service)
  <2>1. PICK c \in fresh :
          /\ containers' = [d \in DOMAIN containers \cup {c} |->
                             IF d = c THEN [stack |-> req[h].name, service |-> service,
                                            from |-> file, state |-> "stopped"]
                             ELSE containers[d]]
          /\ Become(h, "start", [req[h] EXCEPT !.made = {c}])
          /\ dirty' = dirty \cup {req[h].name}
    BY <1>3 DEF CreateContainer, ToSpec
  <2>2. PICK n0 \in Names : n0 = req[h].name
    BY <1>1, AtStep
  <2> DEFINE r == [req[h] EXCEPT !.made = {c}]
             new == [stack |-> n0, service |-> service, from |-> file, state |-> "stopped"]
  <2>3. /\ r \in Request /\ r.doomed = req[h].doomed /\ r.name = n0 /\ r.kind = req[h].kind
        /\ r.id = req[h].id /\ r.file = file /\ r.rest = req[h].rest /\ r.made = {c}
    BY <1>1, <2>2, AtStep DEF Request
  <2>4. Become(h, "start", r)
    BY <2>1
  <2>5. /\ file \in Files /\ Deploys(h) /\ Plan(file.deps, req[h].rest) /\ req[h].rest # <<>>
    BY <1>1 DEF IInv, KnowsItsStep, TypeOK, RequestsOK
  <2>6. service \in DOMAIN file.deps /\ service \in Nat
    BY <2>5, PlanTail, FilesAssumption DEF Graph
  <2>7. new \in Container
    BY <2>2, <2>5, <2>6 DEF Container, State
  <2>8. /\ c \in ContainerIds /\ c \notin DOMAIN containers
        /\ \A g \in Handlers : c \notin req[g].doomed \cup req[g].made
    BY DEF Remembered
  <2>9. /\ DOMAIN containers' = DOMAIN containers \cup {c} /\ containers'[c] = new
        /\ \A d \in DOMAIN containers : containers'[d] = containers[d]
    BY <2>1, <2>2, <2>8
  <2>10. new.stack = n0 /\ new.service = service /\ new.from = file /\ new.state = "stopped"
    OBVIOUS
  <2> HIDE DEF r, new
  <2>11. RequestsOK' /\ Kept(h) /\ pc'[h] = "start" /\ req'[h] = r
    <3>1. r.name # "none" /\ r.rest # <<>> /\ \E d \in ContainerIds : r.made = {d}
      BY <2>3, <2>5, <2>8, FilesAssumption
    <3> QED
      BY <2>3, <2>4, <3>1, GoesOn DEF IInv, TypeOK
  <2>12. TypeOK'
    <3>1. containers' \in [DOMAIN containers' -> Container]
      <4>1. containers' = [d \in DOMAIN containers' |-> containers'[d]]
        BY <2>1
      <4>2. \A d \in DOMAIN containers' : containers'[d] \in Container
        BY <2>7, <2>9 DEF IInv, TypeOK, TablesOK
      <4> QED
        BY <4>1, <4>2
    <3>2. UNCHANGED <<stacks, lastStack>>
      BY <1>1 DEF store
    <3>3. \A d \in DOMAIN containers : containers[d].stack = n0 => containers[d].service # service
      BY <1>3, <2>2 DEF NameTaken, Of
    <3>4. \A a, b \in DOMAIN containers' :
            containers'[a].stack = containers'[b].stack
              /\ containers'[a].service = containers'[b].service => a = b
      BY <2>9, <2>10, <3>3 DEF IInv, TypeOK, TablesOK
    <3> QED
      BY <2>8, <2>9, <2>11, <3>1, <3>2, <3>4 DEF IInv, TypeOK, TablesOK
  <2>13. /\ Of(n0)' = Of(n0) \cup {c} /\ c \notin Of(n0) /\ Row(n0)' = Row(n0)
         /\ \A n \in Names \ {n0} : Of(n)' = Of(n) /\ \A d \in Of(n) : containers'[d] = containers[d]
    BY <1>1, <2>8, <2>9, <2>10 DEF Of, Row, store
  <2>14. KnowsItsStep(h)'
    BY <1>1, <2>3, <2>11 DEF IInv, KnowsItsStep, Deploys
  <2>15. \A g \in Handlers : KnowsItsOwn(g)'
    BY <1>1, <2>2, <2>3, <2>8, <2>9, <2>10, <2>11 DEF IInv, KnowsItsOwn, Kept, store
  <2>16. Good(h)'
    <3>1. req'[h].name = n0 /\ req'[h].file = file /\ req'[h].rest = req[h].rest
      BY <2>3, <2>11
    <3>2. Of(req[h].name)' = Of(n0) \cup {c} /\ Row(req[h].name)' = Row(n0)
      BY <2>13, <3>1 DEF Of, Row
    <3>3. \A cs, f, services : cs \subseteq Of(n0) /\ Runs(cs, f, services) => Runs(cs, f, services)'
      BY <2>9 DEF Runs, Services, Of
    <3>4. Of(req[h].name)' \ {c} = Of(n0)
      BY <2>13, <3>2
    <3>5. SUFFICES ASSUME n0 \notin contested PROVE Good(h)'
      BY <1>1, <3>1 DEF Good
    <3>6. Runs(Of(n0), file, DOMAIN file.deps \ Range(req[h].rest))
      BY <1>1, <2>2, <3>5 DEF IInv, Good
    <3>7. Runs(Of(req[h].name) \ {c}, req[h].file, DOMAIN req[h].file.deps \ Range(req[h].rest))'
      BY <2>9, <3>1, <3>4, <3>6 DEF Runs, Services, Of
    <3>8. /\ containers'[c].service = Head(req'[h].rest) /\ containers'[c].from = req'[h].file
          /\ c \in Of(req[h].name)' /\ req'[h].made = {c} /\ containers'[c].state = "stopped"
      BY <2>3, <2>9, <2>10, <2>11, <3>1, <3>2
    <3>9. Starting(h)'
      BY <3>7, <3>8 DEF Starting
    <3> QED
      BY <1>1, <2>2, <2>3, <2>11, <3>1, <3>2, <3>5, <3>9 DEF IInv, Good, Deploys
  <2> QED
    BY <1>1, <2>1, <2>2, <2>3, <2>11, <2>12, <2>13, <2>14, <2>15, <2>16, Visible
<1> QED
  BY <1>2, <1>3

(* A service starts: one less is to be made. *)
LEMMA StartContainerInv == ASSUME IInv, NEW h \in Handlers, StartContainer(h) PROVE IInv'
<1> DEFINE rest == Tail(req[h].rest)
           file == req[h].file
<1>1. pc[h] = "start" /\ UNCHANGED <<store, objects, dirty, contested>>
  BY DEF StartContainer, history
<1> PICK c \in req[h].made :
      IF Startable(c)
      THEN /\ containers' = [containers EXCEPT ![c].state = Started(@)]
           /\ Become(h, IF rest = <<>> THEN "store" ELSE "make",
                     [req[h] EXCEPT !.rest = rest, !.made = {}])
      ELSE Reply(h) /\ UNCHANGED containers
  BY DEF StartContainer
<1>2. CASE ~Startable(c)
  BY <1>1, <1>2, Ends DEF history
<1>3. CASE Startable(c)
  <2>1. PICK n0 \in Names : n0 = req[h].name
    BY <1>1, AtStep
  <2> DEFINE r == [req[h] EXCEPT !.rest = rest, !.made = {}]
             step == IF rest = <<>> THEN "store" ELSE "make"
             s == Started(containers[c].state)
  <2>2. Become(h, step, r)
    BY <1>3
  <2>3. /\ file \in Files /\ Deploys(h) /\ ~CycleDetected(file.deps)
        /\ Plan(file.deps, req[h].rest) /\ req[h].rest # <<>>
    BY <1>1 DEF IInv, KnowsItsStep, TypeOK, RequestsOK
  <2>4. /\ Plan(file.deps, rest) /\ Head(req[h].rest) \in DOMAIN file.deps
        /\ Head(req[h].rest) \notin Range(rest)
        /\ Range(req[h].rest) = Range(rest) \cup {Head(req[h].rest)}
    BY <2>3, PlanTail
  <2>5. rest \in Seq(Nat)
    BY <1>1, <2>3, AtStep DEF Request
  <2> HIDE DEF rest
  <2>6. /\ r \in Request /\ r.doomed = req[h].doomed /\ r.name = n0 /\ r.kind = req[h].kind
        /\ r.id = req[h].id /\ r.file = file /\ r.rest = rest /\ r.made = {}
    BY <1>1, <2>1, <2>5, AtStep DEF Request
  <2> HIDE DEF r
  <2>7. RequestsOK' /\ Kept(h) /\ pc'[h] = step /\ req'[h] = r
    <3>1. r.name # "none" /\ (step = "make" => r.rest # <<>>)
      BY <2>6, FilesAssumption
    <3> QED
      BY <2>2, <2>6, <3>1, GoesOn DEF IInv, TypeOK
  <2>8. c \in DOMAIN containers /\ containers[c].stack = n0 /\ n0 \in dirty
    BY <1>1, <1>3, <2>1 DEF Startable, IInv, KnowsItsOwn, Seen
  <2>9. /\ TablesOK' /\ DOMAIN containers' = DOMAIN containers
        /\ \A n : Of(n)' = Of(n)
        /\ \A d \in DOMAIN containers :
             /\ containers'[d].stack = containers[d].stack
             /\ containers'[d].service = containers[d].service
             /\ containers'[d].from = containers[d].from
             /\ IF d = c THEN containers'[d].state = s ELSE containers'[d] = containers[d]
    <3>1. s \in State /\ containers' = [containers EXCEPT ![c].state = s]
      BY <1>3, <2>8 DEF State, Started
    <3> HIDE DEF s
    <3> QED
      BY <1>1, <2>8, <3>1, OneState DEF IInv, TypeOK
  <2>10. \A n \in Names \ {n0} : Of(n)' = Of(n) /\ \A d \in Of(n) : containers'[d] = containers[d]
    BY <2>8, <2>9 DEF Of
  <2>11. KnowsItsStep(h)'
    BY <1>1, <2>3, <2>4, <2>6, <2>7 DEF IInv, KnowsItsStep, Deploys
  <2>12. \A g \in Handlers : KnowsItsOwn(g)'
    BY <1>1, <2>1, <2>6, <2>7, <2>9 DEF IInv, KnowsItsOwn, Kept, store
  <2>13. Good(h)'
    <3>1. req'[h].name = n0 /\ req'[h].file = file /\ req'[h].rest = rest
      BY <2>6, <2>7
    <3>2. Of(req[h].name)' = Of(n0) /\ Row(req[h].name)' = Row(n0)
      BY <1>1, <2>9, <3>1 DEF Of, Row, store
    <3>3. SUFFICES ASSUME n0 \notin contested PROVE Good(h)'
      BY <1>1, <3>1 DEF Good
    <3>4. /\ c \in Of(n0) /\ containers[c].service = Head(req[h].rest) /\ containers[c].from = file
          /\ Runs(Of(n0) \ {c}, file, DOMAIN file.deps \ Range(req[h].rest))
          /\ s = "running"
      BY <1>1, <2>1, <3>3 DEF IInv, Good, Starting, Started
    <3>5. \A d \in Of(n0) : containers'[d].from = file /\ containers'[d].state = "running"
      BY <2>9, <3>4 DEF Runs, Of
    <3>6. {containers'[d].service : d \in Of(n0)} = DOMAIN file.deps \ Range(rest)
      <4>1. {containers'[d].service : d \in Of(n0)} =
              {containers[d].service : d \in Of(n0) \ {c}} \cup {Head(req[h].rest)}
        BY <2>9, <3>4 DEF Of
      <4> QED
        BY <2>4, <3>4, <4>1 DEF Runs, Services
    <3>7. Runs(Of(req[h].name), req[h].file, DOMAIN req[h].file.deps \ Range(req[h].rest))'
      BY <3>1, <3>2, <3>5, <3>6 DEF Runs, Services
    <3> QED
      BY <1>1, <2>1, <2>3, <2>6, <2>7, <3>1, <3>2, <3>3, <3>7 DEF IInv, Good, Deploys
  <2>14. dirty' = dirty \cup {n0} /\ UNCHANGED <<store, objects, contested>>
    BY <1>1, <2>8
  <2> QED
    BY <1>1, <2>1, <2>6, <2>7, <2>9, <2>10, <2>11, <2>12, <2>13, <2>14, Visible DEF TypeOK
<1> QED
  BY <1>2, <1>3

(* Start and stop change one container of the stack after the other, and no more
   than its state. *)
LEMMA ActInv == ASSUME IInv, NEW h \in Handlers, Act(h) PROVE IInv'
<1> DEFINE to == Goal(req[h].kind)
           After(c) == IF req[h].kind = "start" THEN Started(containers[c].state) ELSE "stopped"
<1>1. pc[h] = "act" /\ UNCHANGED <<store, objects, dirty, contested>>
  BY DEF Act, history
<1>2. CASE Reply(h) /\ UNCHANGED containers
  BY <1>1, <1>2, Ends DEF history
<1>3. ASSUME NEW c \in req[h].doomed, c \in DOMAIN containers,
             containers' = [containers EXCEPT ![c].state = After(c)],
             Become(h, "act", [req[h] EXCEPT !.doomed = @ \ {c}])
      PROVE  IInv'
  <2>1. PICK n0 \in Names : n0 = req[h].name
    BY <1>1, AtStep
  <2> DEFINE r == [req[h] EXCEPT !.doomed = @ \ {c}]
  <2>2. Become(h, "act", r)
    BY <1>3
  <2>3. /\ r \in Request /\ r.doomed = req[h].doomed \ {c} /\ r.name = n0 /\ r.kind = req[h].kind
        /\ r.id = req[h].id /\ r.file = req[h].file /\ r.rest = req[h].rest /\ r.made = req[h].made
        /\ r.flapping = req[h].flapping
    BY <1>1, <2>1, AtStep DEF Request
  <2> HIDE DEF r
  <2>4. RequestsOK' /\ Kept(h) /\ pc'[h] = "act" /\ req'[h] = r
    BY <1>1, <2>1, <2>2, <2>3, AtStep, GoesOn DEF IInv, TypeOK
  <2> DEFINE s == After(c)
  <2>5. /\ containers[c].stack = n0 /\ s \in State
        /\ containers[c].state # "restarting" => s = to
    BY <1>3, <2>1 DEF IInv, KnowsItsOwn, State, Started, Goal
  <2>15. containers' = [containers EXCEPT ![c].state = s]
    BY <1>3
  <2> HIDE DEF s
  <2>6. /\ TablesOK' /\ DOMAIN containers' = DOMAIN containers
        /\ \A n : Of(n)' = Of(n)
        /\ \A d \in DOMAIN containers :
             /\ containers'[d].stack = containers[d].stack
             /\ containers'[d].service = containers[d].service
             /\ containers'[d].from = containers[d].from
             /\ IF d = c THEN containers'[d].state = s ELSE containers'[d] = containers[d]
    BY <1>1, <1>3, <2>5, <2>15, OneState DEF IInv, TypeOK
  <2>7. Others(n0)
    BY <1>1, <2>5, <2>6 DEF Others, Of, Row, store
  <2>8. KnowsItsStep(h)'
    BY <1>1, <2>3, <2>4 DEF IInv, KnowsItsStep, Deploys
  <2>9. \A g \in Handlers : KnowsItsOwn(g)'
    BY <1>1, <2>1, <2>3, <2>4, <2>6 DEF IInv, KnowsItsOwn, Kept, store
  <2>10. ASSUME NEW g \in Handlers, req[g].name = n0, req'[g].name = n0
         PROVE  Of(req[g].name)' = Of(n0) /\ Row(req[g].name)' = Row(n0)
    BY <1>1, <2>6, <2>10 DEF Of, Row, store
  <2>11. ASSUME NEW g \in Handlers \ {h}, req[g].name = n0 PROVE Seen(g)'
    BY <1>1, <2>4, <2>10, <2>11 DEF IInv, Seen, Kept
  <2>12. Seen(h)'
    BY <1>1, <2>1, <2>3, <2>4, <2>10 DEF IInv, Seen
  <2>13. Good(h)'
    <3>1. SUFFICES ASSUME n0 \notin contested PROVE Good(h)'
      BY <1>1, <2>3, <2>4 DEF Good
    <3>2. \A d \in Of(n0) \ req[h].flapping :
            /\ containers[d].state # "restarting"
            /\ d \notin req[h].doomed => containers[d].state = to
      BY <1>1, <2>1, <3>1 DEF IInv, Good, Acted
    <3> HIDE DEF to
    <3>3. \A d \in Of(n0) \ req[h].flapping :
            d \notin req[h].doomed \ {c} => containers'[d].state = to
      BY <2>5, <2>6, <3>2 DEF Of
    <3>6. to # "restarting" /\ \A d \in Of(n0) \ req[h].flapping : containers'[d].state # "restarting"
      BY <2>5, <2>6, <3>2 DEF Of, to, Goal
    <3>4. ~Deploys(h) /\ req[h].kind \in {"start", "stop"}
      BY <1>1 DEF IInv, KnowsItsStep, Deploys
    <3>5. \A d \in Of(req[h].name)' \ req'[h].flapping :
            /\ containers'[d].state # "restarting"
            /\ d \notin req'[h].doomed => containers'[d].state = to
      BY <2>1, <2>3, <2>4, <2>10, <3>3, <3>6
    <3> QED
      BY <2>3, <2>4, <3>4, <3>5 DEF Good, Acted, Deploys, to
  <2>14. n0 \notin dirty' => Stored(n0)'
    BY <1>1, <2>6 DEF IInv, Stored, Exactly, Row, Of, store
  <2> QED
    BY <1>1, <2>1, <2>3, <2>4, <2>6, <2>7, <2>8, <2>9, <2>11, <2>12, <2>13, <2>14, Within DEF TypeOK
<1>4. CASE req[h].doomed = {}
  BY <1>2, <1>4 DEF Act
<1>5. CASE req[h].doomed # {}
  <2> PICK c \in req[h].doomed :
         IF IF req[h].kind = "start" THEN Startable(c) ELSE c \in DOMAIN containers
         THEN /\ containers' = [containers EXCEPT ![c].state =
                                   IF req[h].kind = "start" THEN Started(@) ELSE "stopped"]
              /\ Become(h, "act", [req[h] EXCEPT !.doomed = @ \ {c}])
         ELSE Reply(h) /\ UNCHANGED containers
    BY <1>5 DEF Act
  <2> QED
    BY <1>2, <1>3 DEF Startable
<1> QED
  BY <1>4, <1>5

-------------------------------------------------------------------------------
(* Steps that change the stacks table, which are the last of their requests. *)

(* A request ends with the rows of other stacks as they were. *)
LEMMA Finishes ==
  ASSUME IInv, NEW h \in Handlers, pc[h] # "idle", Reply(h), UNCHANGED <<engine, contested>>,
         dirty' = Settled(h), TablesOK', NEW n0 \in Names, n0 = req[h].name,
         \A n \in Names \ {n0} : Row(n)' = Row(n) /\ \A i \in Row(n) : stacks'[i] = stacks[i],
         \A g \in Handlers \ {h} : KnowsItsOwn(g)' /\ (req[g].name = n0 => Seen(g)'),
         n0 \notin dirty' => Stored(n0)'
  PROVE  IInv'
<1>1. lastStack' \in Nat /\ 0 \notin DOMAIN stacks'
  BY BoundsAssumption DEF TablesOK
<1>2. /\ RequestsOK' /\ Kept(h) /\ pc'[h] = "idle"
      /\ KnowsItsStep(h)' /\ KnowsItsOwn(h)' /\ Good(h)' /\ Seen(h)'
  BY <1>1, Replies
<1>3. Others(n0)
  BY DEF Others, Of, Settled, engine
<1> QED
  BY <1>2, <1>3, Within DEF TypeOK

(* CreateStack or UpdateStackCompose: the row that is alone has what was deployed. *)
LEMMA StoreInv == ASSUME IInv, NEW h \in Handlers, Store(h) PROVE IInv'
<1> DEFINE file == req[h].file
           id == req[h].id
<1>1. pc[h] = "store" /\ Reply(h) /\ UNCHANGED <<engine, contested>>
  BY DEF Store
<1>2. PICK n0 \in Names : n0 = req[h].name
  BY <1>1, AtStep
<1>3. file \in Files /\ n0 \in dirty
  BY <1>1, <1>2 DEF IInv, KnowsItsStep, Seen
<1>4. ASSUME NEW n \in Names PROVE Of(n)' = Of(n) /\ \A f : Exactly(n, f)' <=> Exactly(n, f)
  BY <1>1 DEF engine, Of, Exactly
<1>5. n0 \notin contested => Exactly(n0, file)
  <2> SUFFICES ASSUME n0 \notin contested PROVE Exactly(n0, file)
    OBVIOUS
  <2>1. Runs(Of(n0), file, DOMAIN file.deps \ Range(req[h].rest)) /\ req[h].rest = <<>>
    BY <1>1, <1>2 DEF IInv, Good, KnowsItsStep
  <2>2. Range(req[h].rest) = {}
    BY <2>1 DEF Range
  <2> QED
    BY <2>1, <2>2 DEF Runs, Services, Exactly
<1>6. ASSUME dirty' = Settled(h)
      PROVE  /\ n0 \notin dirty' => n0 \notin contested
             /\ \A g \in Handlers \ {h} : req[g].name = n0 => Seen(g)'
  <2>1. n0 \notin dirty' => n0 \notin contested
    BY <1>2, <1>3, <1>6 DEF Settled
  <2>2. ASSUME NEW g \in Handlers \ {h}, req[g].name = n0 PROVE Seen(g)'
    <3>1. n0 \in contested /\ req'[g] = req[g]
      BY <1>1, <1>2, <2>2 DEF IInv, Alone, Reply, Become, TypeOK, RequestsOK
    <3> QED
      BY <2>1, <2>2, <3>1 DEF Seen
  <2> QED
    BY <2>1, <2>2
<1>7. CASE req[h].kind = "create" /\ Row(req[h].name) # {} /\ UNCHANGED <<store, dirty>>
  BY <1>1, <1>7, Ends DEF history, engine
<1>8. CASE /\ Row(req[h].name) = {} /\ lastStack < MaxStacks /\ lastStack' = lastStack + 1
           /\ stacks' = [i \in DOMAIN stacks \cup {lastStack'} |->
                           IF i = lastStack' THEN [name |-> req[h].name, compose |-> file]
                           ELSE stacks[i]]
           /\ dirty' = Settled(h)
  <2>1. lastStack \in Nat /\ lastStack' \notin DOMAIN stacks
    BY <1>8, BoundsAssumption DEF IInv, TypeOK, TablesOK
  <2>2. /\ DOMAIN stacks' = DOMAIN stacks \cup {lastStack'}
        /\ stacks'[lastStack'] = [name |-> n0, compose |-> file]
        /\ \A i \in DOMAIN stacks : stacks'[i] = stacks[i]
    BY <1>2, <1>8, <2>1
  <2>3. TablesOK'
    <3>1. stacks' \in [DOMAIN stacks' -> [name : Names, compose : Files]]
      BY <1>2, <1>3, <1>8 DEF IInv, TypeOK, TablesOK
    <3>2. lastStack' \in 0..MaxStacks /\ DOMAIN stacks' \subseteq 1..lastStack'
      BY <1>8, <2>1, <2>2, BoundsAssumption DEF IInv, TypeOK, TablesOK
    <3>3. \A i, j \in DOMAIN stacks' : stacks'[i].name = stacks'[j].name => i = j
      BY <1>2, <1>8, <2>2 DEF IInv, TypeOK, TablesOK, Row
    <3> QED
      BY <1>1, <3>1, <3>2, <3>3 DEF IInv, TypeOK, TablesOK, engine
  <2>4. /\ Row(n0)' = {lastStack'}
        /\ \A n \in Names \ {n0} : Row(n)' = Row(n) /\ \A i \in Row(n) : stacks'[i] = stacks[i]
    BY <1>2, <1>8, <2>1, <2>2 DEF Row
  <2>5. ASSUME NEW g \in Handlers \ {h} PROVE KnowsItsOwn(g)'
    <3>1. req'[g] = req[g] /\ req[g].id <= lastStack /\ KnowsItsOwn(g) /\ req[g].id \in Nat
      BY <1>1 DEF IInv, KnowsItsOwn, Reply, Become, TypeOK, RequestsOK, Request
    <3>2. req[g].id <= lastStack' /\ req[g].id # lastStack'
      BY <1>8, <2>1, <3>1
    <3> QED
      BY <1>1, <2>2, <3>1, <3>2 DEF KnowsItsOwn, engine
  <2>6. n0 \notin dirty' => Stored(n0)'
    BY <1>4, <1>5, <1>6, <1>8, <2>2, <2>4 DEF Stored
  <2> QED
    BY <1>1, <1>2, <1>6, <1>8, <2>3, <2>4, <2>5, <2>6, Finishes
<1>9. CASE /\ req[h].kind = "update" /\ UNCHANGED lastStack /\ dirty' = Settled(h)
           /\ stacks' = [i \in DOMAIN stacks |->
                           IF i = id THEN [stacks[i] EXCEPT !.compose = file] ELSE stacks[i]]
  <2>1. /\ DOMAIN stacks' = DOMAIN stacks
        /\ \A i \in DOMAIN stacks :
             /\ stacks'[i].name = stacks[i].name
             /\ IF i = id THEN stacks'[i].compose = file ELSE stacks'[i] = stacks[i]
    BY <1>9 DEF IInv, TypeOK, TablesOK
  <2>2. TablesOK'
    <3>1. stacks' \in [DOMAIN stacks' -> [name : Names, compose : Files]]
      BY <1>3, <1>9 DEF IInv, TypeOK, TablesOK
    <3> QED
      BY <1>1, <1>9, <2>1, <3>1 DEF IInv, TypeOK, TablesOK, engine
  <2>3. \A n : Row(n)' = Row(n)
    BY <2>1 DEF Row
  <2>4. id \in DOMAIN stacks => stacks[id].name = n0
    BY <1>2 DEF IInv, KnowsItsOwn
  <2>5. \A n \in Names \ {n0} : \A i \in Row(n) : stacks'[i] = stacks[i]
    BY <2>1, <2>4 DEF Row
  <2>6. ASSUME NEW g \in Handlers \ {h} PROVE KnowsItsOwn(g)'
    <3>1. req'[g] = req[g]
      BY <1>1 DEF IInv, Reply, Become, TypeOK, RequestsOK
    <3> QED
      BY <1>1, <1>9, <2>1, <3>1 DEF IInv, KnowsItsOwn, engine
  <2>7. n0 \notin dirty' => Stored(n0)'
    <3> SUFFICES ASSUME n0 \notin dirty' PROVE Stored(n0)'
      OBVIOUS
    <3>1. n0 \notin contested /\ Row(n0) = {id}
      BY <1>1, <1>2, <1>6, <1>9 DEF IInv, Good
    <3>2. stacks'[id].compose = file
      BY <2>1, <3>1 DEF Row
    <3> QED
      BY <1>4, <1>5, <2>3, <3>1, <3>2 DEF Stored
  <2> QED
    BY <1>1, <1>2, <1>6, <1>9, <2>2, <2>3, <2>5, <2>6, <2>7, Finishes
<1> QED
  BY <1>7, <1>8, <1>9 DEF Store

(* DeleteStack: the row that goes had no container any more, if it was alone or
   nothing has happened since. *)
LEMMA ForgetInv == ASSUME IInv, NEW h \in Handlers, Forget(h) PROVE IInv'
<1> DEFINE id == req[h].id
<1>1. /\ pc[h] = "forget" /\ Reply(h) /\ UNCHANGED <<lastStack, engine, contested>>
      /\ stacks' = Restrict(stacks, DOMAIN stacks \ {id}) /\ dirty' = Settled(h)
  BY DEF Forget
<1>2. PICK n0 \in Names : n0 = req[h].name
  BY <1>1, AtStep
<1>3. /\ DOMAIN stacks' = DOMAIN stacks \ {id}
      /\ \A i \in DOMAIN stacks \ {id} : stacks'[i] = stacks[i]
  BY <1>1 DEF Restrict
<1>4. TablesOK'
  <2>1. stacks' \in [DOMAIN stacks' -> [name : Names, compose : Files]]
    BY <1>1, <1>3 DEF Restrict, IInv, TypeOK, TablesOK
  <2>2. /\ UNCHANGED <<lastStack, containers>>
        /\ \A i, j \in DOMAIN stacks' : stacks'[i].name = stacks'[j].name => i = j
    <3>1. UNCHANGED lastStack /\ UNCHANGED engine
      BY <1>1
    <3>2. \A i, j \in DOMAIN stacks : stacks[i].name = stacks[j].name => i = j
      BY DEF IInv, TypeOK, TablesOK
    <3> QED
      BY <1>3, <3>1, <3>2 DEF engine
  <2>3. DOMAIN stacks' \subseteq 1..lastStack'
    BY <1>3, <2>2 DEF IInv, TypeOK, TablesOK
  <2> QED
    BY <2>1, <2>2, <2>3 DEF IInv, TypeOK, TablesOK
<1>5. id \in DOMAIN stacks => stacks[id].name = n0
  BY <1>2 DEF IInv, KnowsItsOwn
<1>6. /\ Row(n0)' = Row(n0) \ {id}
      /\ \A n \in Names \ {n0} : Row(n)' = Row(n) /\ \A i \in Row(n) : stacks'[i] = stacks[i]
  BY <1>3, <1>5 DEF Row
<1>7. ASSUME NEW g \in Handlers \ {h} PROVE KnowsItsOwn(g)'
  <2>1. req'[g] = req[g]
    BY <1>1 DEF IInv, Reply, Become, TypeOK, RequestsOK
  <2> QED
    BY <1>1, <1>3, <2>1 DEF IInv, KnowsItsOwn, engine
<1>8. Of(n0)' = Of(n0)
  BY <1>1 DEF engine, Of
<1>9. ASSUME NEW g \in Handlers \ {h}, req[g].name = n0 PROVE Seen(g)'
  <2>1. req'[g] = req[g] /\ pc'[g] = pc[g]
    BY <1>1 DEF IInv, Reply, Become, TypeOK, RequestsOK
  <2>2. n0 \notin dirty' => n0 \notin dirty
    BY <1>1, <1>2, <1>9 DEF IInv, Alone, Settled
  <2>3. Of(req[g].name)' = Of(n0) /\ Row(req[g].name)' = Row(n0) \ {id}
    BY <1>6, <1>8, <1>9, <2>1 DEF Of, Row
  <2> QED
    BY <1>9, <2>1, <2>2, <2>3 DEF IInv, Seen
<1>10. n0 \notin dirty' => Stored(n0)'
  <2>1. req[h].kind = "delete"
    BY <1>1 DEF IInv, KnowsItsStep
  <2>2. n0 \notin dirty \/ n0 \notin contested => Of(n0) = {} /\ Row(n0) \subseteq {id}
    BY <1>1, <1>2, <2>1 DEF IInv, Seen, Good
  <2> QED
    BY <1>1, <1>2, <1>6, <1>8, <2>2 DEF Stored, Settled
<1> QED
  BY <1>1, <1>2, <1>4, <1>6, <1>7, <1>9, <1>10, Finishes

-------------------------------------------------------------------------------
(* The Docker page. *)

(* It touches no request and no row; requests on the stacks it touches know. *)
LEMMA Beside ==
  ASSUME IInv, UNCHANGED <<store, pc, req>>, TablesOK', NEW names,
         Disturbs(names), dirty \subseteq dirty',
         \A n \in Names \ names :
           /\ Of(n)' = Of(n) /\ \A c \in Of(n) : containers'[c] = containers[c]
           /\ \A o : <<n, o>> \in objects => <<n, o>> \in objects',
         \A n \in Names \ dirty' : Of(n)' = Of(n) /\ \A f : Exactly(n, f) => Exactly(n, f)',
         \A h \in Handlers : KnowsItsOwn(h)'
  PROVE  IInv'
<1>1. contested' = contested \cup {n \in names : InProgress(n)}
  BY DEF Disturbs
<1>2. TypeOK' /\ Alone' /\ \A h \in Handlers : KnowsItsStep(h)'
  BY <1>1 DEF IInv, TypeOK, RequestsOK, Alone, KnowsItsStep, Deploys
<1>3. ASSUME NEW h \in Handlers, pc[h] # "idle" PROVE Good(h)' /\ Seen(h)'
  <2>1. PICK n0 \in Names : n0 = req[h].name
    BY <1>3, AtStep
  <2>2. Row(req[h].name)' = Row(n0) /\ Of(req[h].name)' = Of(n0)'
    BY <2>1 DEF Row, Of, store
  <2>3. Seen(h)'
    BY <1>3, <2>1, <2>2 DEF IInv, Seen
  <2>4. ASSUME n0 \notin contested' PROVE Good(h)'
    <3>1. n0 \notin names /\ n0 \notin contested
      BY <1>1, <2>1, <2>4 DEF InProgress
    <3>2. /\ Of(n0)' = Of(n0) /\ \A c \in Of(n0) : containers'[c] = containers[c]
          /\ \A o : <<n0, o>> \in objects => <<n0, o>> \in objects'
      BY <3>1
    <3>3. Good(h)
      BY DEF IInv
    <3>4. Runs(Of(n0), req[h].file, DOMAIN req[h].file.deps \ Range(req[h].rest)) =>
            Runs(Of(req[h].name), req[h].file, DOMAIN req[h].file.deps \ Range(req[h].rest))'
      BY <2>2, <3>2 DEF Runs, Services
    <3>5. Starting(h) => Starting(h)'
      BY <2>1, <2>2, <3>2 DEF Starting, Runs, Services
    <3>6. Acted(h) => Acted(h)'
      BY <2>1, <2>2, <3>2 DEF Acted
    <3> QED
      BY <1>3, <2>1, <2>2, <3>1, <3>2, <3>3, <3>4, <3>5, <3>6 DEF Good, Deploys
  <2>5. n0 \in contested' => Good(h)'
    BY <2>1 DEF Good
  <2> QED
    BY <2>3, <2>4, <2>5
<1>4. \A h \in Handlers : pc[h] = "idle" => Good(h)' /\ Seen(h)'
  BY DEF Good, Seen
<1>5. \A n \in Names \ dirty' : Stored(n)'
  BY DEF IInv, Stored, Row, store
<1> QED
  BY <1>2, <1>3, <1>4, <1>5 DEF IInv

(* DoAction. *)
LEMMA BecomesInv ==
  ASSUME IInv, NEW c \in DOMAIN containers, NEW s \in State, Becomes(c, s)
  PROVE  IInv'
<1>1. /\ containers' = [containers EXCEPT ![c].state = s] /\ Disturbs({containers[c].stack})
      /\ UNCHANGED <<store, pc, req>> /\ UNCHANGED <<objects, dirty>>
  BY DEF Becomes
<1>2. /\ TablesOK' /\ DOMAIN containers' = DOMAIN containers
      /\ \A n : Of(n)' = Of(n)
      /\ \A d \in DOMAIN containers :
           /\ containers'[d].stack = containers[d].stack
           /\ containers'[d].service = containers[d].service
           /\ containers'[d].from = containers[d].from
           /\ IF d = c THEN containers'[d].state = s ELSE containers'[d] = containers[d]
  BY <1>1, OneState DEF IInv, TypeOK
<1>3. \A n \in Names \ {containers[c].stack} :
        Of(n)' = Of(n) /\ \A d \in Of(n) : containers'[d] = containers[d]
  BY <1>2 DEF Of
<1>4. \A n, f : Exactly(n, f) => Exactly(n, f)'
  BY <1>2 DEF Exactly, Of
<1>5. \A h \in Handlers : KnowsItsOwn(h)'
  BY <1>1, <1>2 DEF IInv, KnowsItsOwn, store
<1> QED
  BY <1>1, <1>2, <1>3, <1>4, <1>5, Beside

(* The engine restarts a container, or gives up: no request that is alone relies on
   one that it was restarting. *)
LEMMA RestartsInv == ASSUME IInv, Restarts PROVE IInv'
<1>1. PICK c \in DOMAIN containers, s \in State :
        containers[c].state = "restarting" /\ containers' = [containers EXCEPT ![c].state = s]
  BY DEF Restarts, State
<1>2. UNCHANGED <<store, objects, pc, req, dirty, contested>>
  BY DEF Restarts, history
<1>3. /\ TablesOK' /\ DOMAIN containers' = DOMAIN containers
      /\ \A n : Of(n)' = Of(n) /\ Services(Of(n))' = Services(Of(n))
      /\ \A d \in DOMAIN containers :
           /\ containers'[d].stack = containers[d].stack
           /\ containers'[d].service = containers[d].service
           /\ containers'[d].from = containers[d].from
           /\ IF d = c THEN containers'[d].state = s ELSE containers'[d] = containers[d]
  BY <1>1, <1>2, OneState DEF IInv, TypeOK
<1>4. TypeOK' /\ Alone' /\ \A h \in Handlers : KnowsItsStep(h)' /\ KnowsItsOwn(h)'
  BY <1>2, <1>3 DEF IInv, TypeOK, RequestsOK, Alone, KnowsItsStep, KnowsItsOwn, Deploys, store
<1>6. \A d \in DOMAIN containers :
        containers[d].state # "restarting" => containers'[d] = containers[d]
  BY <1>1, <1>3
<1>7. ASSUME NEW h \in Handlers PROVE Good(h)' /\ Seen(h)'
  <2>1. /\ pc'[h] = pc[h] /\ req'[h] = req[h] /\ Of(req[h].name)' = Of(req[h].name)
        /\ Row(req[h].name)' = Row(req[h].name)
    BY <1>2, <1>3 DEF Row, store, Of
  <2>2. Of(req[h].name) \subseteq DOMAIN containers
    BY DEF Of
  <2>3. Good(h) /\ Seen(h)
    BY DEF IInv
  <2>4. Seen(h)'
    BY <1>2, <2>1, <2>3 DEF Seen
  <2>5. Good(h)'
    <3>1. Runs(Of(req[h].name), req[h].file, DOMAIN req[h].file.deps \ Range(req[h].rest)) =>
            Runs(Of(req[h].name), req[h].file, DOMAIN req[h].file.deps \ Range(req[h].rest))'
      BY <1>1, <1>3, <2>1, <2>2 DEF Runs, Services
    <3>2. Starting(h) => Starting(h)'
      BY <1>1, <1>3, <2>1, <2>2 DEF Starting, Runs, Services
    <3>3. Acted(h) => Acted(h)'
      BY <1>6, <2>1, <2>2 DEF Acted
    <3> QED
      BY <1>2, <2>1, <2>3, <3>1, <3>2, <3>3 DEF Good, Deploys
  <2> QED
    BY <2>4, <2>5
<1>8. \A n \in Names \ dirty' : Stored(n)'
  BY <1>2, <1>3 DEF IInv, Stored, Exactly, Row, Of, store
<1> QED
  BY <1>4, <1>7, <1>8 DEF IInv

(* Removals, one by one or by a prune. *)
LEMMA GoneInv ==
  ASSUME IInv, NEW cs \in SUBSET DOMAIN containers, Gone(cs)
  PROVE  IInv'
<1> DEFINE names == {containers[c].stack : c \in cs}
<1>1. /\ containers' = Restrict(containers, DOMAIN containers \ cs) /\ Disturbs(names)
      /\ dirty' = dirty \cup names /\ UNCHANGED <<store, pc, req>> /\ UNCHANGED objects
  BY DEF Gone
<1>2. /\ DOMAIN containers' = DOMAIN containers \ cs
      /\ \A d \in DOMAIN containers \ cs : containers'[d] = containers[d]
  BY <1>1 DEF Restrict
<1>3. TablesOK'
  <2>1. containers' \in [DOMAIN containers' -> Container] /\ UNCHANGED <<stacks, lastStack>>
    BY <1>1, <1>2 DEF Restrict, IInv, TypeOK, TablesOK, store
  <2> QED
    BY <1>2, <2>1 DEF IInv, TypeOK, TablesOK
<1>4. \A n \in Names \ names : Of(n)' = Of(n) /\ \A d \in Of(n) : containers'[d] = containers[d]
  BY <1>2 DEF Of
<1>5. \A n \in Names \ dirty' : Of(n)' = Of(n) /\ \A f : Exactly(n, f) => Exactly(n, f)'
  <2> TAKE n \in Names \ dirty'
  <2>1. Of(n)' = Of(n) /\ \A d \in Of(n) : containers'[d] = containers[d]
    BY <1>1, <1>4
  <2> QED
    BY <2>1 DEF Exactly
<1>6. \A h \in Handlers : KnowsItsOwn(h)'
  BY <1>1, <1>2 DEF IInv, KnowsItsOwn, store
<1> HIDE DEF names
<1> QED
  BY <1>1, <1>3, <1>4, <1>5, <1>6, Beside

(* Networks and volumes. *)
LEMMA ObjectsInv == ASSUME IInv, NEW new, Objects(new) PROVE IInv'
<1> DEFINE names == {o[1] : o \in (objects \ new) \cup (new \ objects)}
<1>1. /\ objects' = new /\ Disturbs(names) /\ UNCHANGED <<store, pc, req>>
      /\ UNCHANGED <<stacks, lastStack, containers, dirty>>
  BY DEF Objects, store
<1>2. ASSUME NEW n \in Names \ names, NEW o, <<n, o>> \in objects PROVE <<n, o>> \in objects'
  <2>1. <<n, o>>[1] = n
    OBVIOUS
  <2> QED
    BY <1>1, <1>2, <2>1
<1>3. TablesOK' /\ \A h \in Handlers : KnowsItsOwn(h)'
  BY <1>1 DEF IInv, TypeOK, TablesOK, KnowsItsOwn
<1>4. \A n : Of(n)' = Of(n) /\ \A f : Exactly(n, f) => Exactly(n, f)'
  BY <1>1 DEF Of, Exactly
<1> HIDE DEF names
<1> QED
  BY <1>1, <1>2, <1>3, <1>4, Beside

(* What the Docker page does to containers, beside any requests. *)
LEMMA PageInv == IInv /\ Page => IInv'
<1> SUFFICES ASSUME IInv, Page PROVE IInv'
  OBVIOUS
<1>1. CASE PageStart \/ PagePause \/ PageStop \/ Crashes
  BY <1>1, BecomesInv DEF PageStart, PagePause, PageStop, Crashes, State
<1>5. CASE Restarts
  BY <1>5, RestartsInv
<1>2. CASE PageRemove
  BY <1>2, GoneInv DEF PageRemove
<1>3. CASE PruneContainers
  BY <1>3, GoneInv DEF PruneContainers
<1>4. CASE CreateObject \/ RemoveObject \/ PruneNetworks
  BY <1>4, ObjectsInv DEF CreateObject, RemoveObject, PruneNetworks
<1> QED
  BY <1>1, <1>2, <1>3, <1>4, <1>5 DEF Page

-------------------------------------------------------------------------------
(* IInv is an invariant: one step per action. *)
THEOREM Invariance == PageSpec => []IInv
<1>1. IInv /\ [Next \/ Page]_vars => IInv'
  <2> SUFFICES ASSUME IInv, [Next \/ Page]_vars PROVE IInv'
    OBVIOUS
  <2>1. CASE UNCHANGED vars
    <3>1. UNCHANGED <<stacks, lastStack, containers, objects, pc, req, dirty, contested>>
      BY <2>1 DEF vars
    <3>2. TablesOK' /\ \A h \in Handlers : KnowsItsOwn(h)'
      BY <3>1 DEF IInv, TypeOK, TablesOK, KnowsItsOwn
    <3>3. \A n : Of(n)' = Of(n) /\ \A f : Exactly(n, f) => Exactly(n, f)'
      BY <3>1 DEF Of, Exactly
    <3>4. Disturbs({}) /\ UNCHANGED <<store, pc, req>>
      BY <3>1 DEF Disturbs, store
    <3> QED
      BY <3>1, <3>2, <3>3, <3>4, Beside
  <2>2. ASSUME NEW h \in Handlers, Step(h) PROVE IInv'
    BY <2>2, BeginsInv, CreateObjectsInv, ListInv, RemoveContainerInv, RemovedInv,
       CreateContainerInv, StartContainerInv, DropInv, ActInv, StoreInv, ForgetInv, StopsInv
       DEF Step
  <2> QED
    BY <2>1, <2>2, PageInv DEF Next
<1> QED
  BY <1>1, InitInv, PTL DEF PageSpec

(* Tables and requests stay well formed: rows and containers never share a name. *)
THEOREM TypeCorrect == PageSpec => []TypeOK
BY Invariance, PTL DEF IInv

(* The engine has the containers of the stored texts, whatever else is in progress,
   from the end of a request that was alone until a container of the stack goes or
   comes again. *)
THEOREM StoredIsRun == PageSpec => []RunsWhatIsStored
<1>1. IInv => RunsWhatIsStored
  BY DEF IInv, Stored, RunsWhatIsStored
<1> QED
  BY <1>1, Invariance, PTL

(* A deployment that was alone has made what its text says, from any beginning. *)
THEOREM DeploymentsConverge == PageSpec => []DeployConverges
<1>1. IInv => DeployConverges
  <2> SUFFICES ASSUME IInv, NEW h \in Handlers, pc[h] = "store", req[h].name \notin contested
               PROVE  /\ Exactly(req[h].name, req[h].file)
                      /\ \A c \in Of(req[h].name) : containers[c].state = "running"
                      /\ {req[h].name} \X req[h].file.objects \subseteq objects
    BY DEF DeployConverges
  <2>1. Deploys(h) /\ req[h].rest = <<>>
    BY DEF IInv, KnowsItsStep
  <2>2. /\ Runs(Of(req[h].name), req[h].file, DOMAIN req[h].file.deps \ Range(req[h].rest))
        /\ \A o \in req[h].file.objects : <<req[h].name, o>> \in objects
    BY <2>1 DEF IInv, Good
  <2>3. Range(req[h].rest) = {}
    BY <2>1 DEF Range
  <2> QED
    BY <2>2, <2>3 DEF Runs, Services, Exactly
<1> QED
  BY <1>1, Invariance, PTL

(* A start or a stop that was alone has brought every container of the stack up or
   down, but for those that the engine was restarting when it listed them. *)
THEOREM ActsConverge == PageSpec => []ActConverges
<1>1. IInv => ActConverges
  BY DEF IInv, Good, Acted, Goal, ActConverges
<1> QED
  BY <1>1, Invariance, PTL

(* A service is started only when the services it depends on are up, and no cycle
   gets that far. *)
THEOREM DependenciesStartFirst == PageSpec => []DependenciesFirst
<1>1. IInv => DependenciesFirst
  <2> SUFFICES ASSUME IInv, NEW h \in Handlers
               PROVE  LET deps == req[h].file.deps
                          up == {containers[c].service : c \in InState(req[h].name, {"running"})}
                      IN /\ pc[h] = "start" /\ req[h].name \notin contested =>
                              Known(deps, Head(req[h].rest)) \subseteq up
                         /\ pc[h] \in {"make", "start", "store"} => Acyclic(deps)
    BY DEF DependenciesFirst
  <2> DEFINE deps == req[h].file.deps
  <2>1. pc[h] \in {"make", "start", "store"} => Acyclic(deps)
    BY FilesAssumption, SortedRight DEF IInv, KnowsItsStep, Topological
  <2>2. ASSUME pc[h] = "start", req[h].name \notin contested,
               NEW n \in Known(deps, Head(req[h].rest))
        PROVE  \E c \in InState(req[h].name, {"running"}) : n = containers[c].service
    <3>1. Plan(deps, req[h].rest) /\ req[h].rest # <<>>
      BY <2>2 DEF IInv, KnowsItsStep, TypeOK, RequestsOK
    <3>2. n \in DOMAIN deps \ Range(req[h].rest)
      BY <2>2, <3>1, PlanTail DEF Known
    <3>3. PICK c \in Of(req[h].name) :
            Runs(Of(req[h].name) \ {c}, req[h].file, DOMAIN deps \ Range(req[h].rest))
      BY <2>2 DEF IInv, Good, Starting
    <3>4. PICK d \in Of(req[h].name) : containers[d].service = n /\ containers[d].state = "running"
      BY <3>2, <3>3 DEF Runs, Services
    <3> QED
      BY <3>4 DEF InState
  <2> QED
    BY <2>1, <2>2
<1> QED
  BY <1>1, Invariance, PTL
=============================================================================
