------------------------------ MODULE LinesProofs ------------------------------
(***************************************************************************)
(* What is left of a text when only some of its lines are kept: those and  *)
(* no other, in their order.                                               *)
(***************************************************************************)
EXTENDS Lines, FiniteSetTheorems, SequenceTheorems, TLAPS

(* Numbers of lines are finitely many, and so are those up to one of them. *)
LEMMA UpToFinite ==
  ASSUME NEW P, IsFiniteSet(P), NEW k
  PROVE  /\ UpTo(P, k) \subseteq P /\ IsFiniteSet(UpTo(P, k))
         /\ Cardinality(P) \in Nat /\ Cardinality(UpTo(P, k)) \in Nat
         /\ Cardinality(UpTo(P, k)) <= Cardinality(P)
<1>1. UpTo(P, k) \in SUBSET P
  BY DEF UpTo
<1>2. IsFiniteSet(UpTo(P, k)) /\ Cardinality(UpTo(P, k)) <= Cardinality(P)
  BY <1>1, FS_Subset
<1> QED
  BY <1>1, <1>2, FS_CardinalityType

(* More of them come up to a later one. *)
LEMMA UpToGrows ==
  ASSUME NEW P \in SUBSET Nat, IsFiniteSet(P), NEW j \in P, NEW k \in P, j < k
  PROVE  Cardinality(UpTo(P, j)) < Cardinality(UpTo(P, k))
<1>1. UpTo(P, j) \in SUBSET UpTo(P, k) /\ UpTo(P, j) # UpTo(P, k)
  <2>1. k \in UpTo(P, k) /\ k \notin UpTo(P, j)
    BY DEF UpTo
  <2>2. \A i \in UpTo(P, j) : i \in UpTo(P, k)
    BY DEF UpTo
  <2> QED
    BY <2>1, <2>2
<1>2. /\ IsFiniteSet(UpTo(P, k)) /\ Cardinality(UpTo(P, k)) \in Nat
      /\ Cardinality(UpTo(P, j)) \in Nat
  BY UpToFinite
<1>3. /\ Cardinality(UpTo(P, j)) <= Cardinality(UpTo(P, k))
      /\ Cardinality(UpTo(P, k)) = Cardinality(UpTo(P, j)) => UpTo(P, k) = UpTo(P, j)
  BY <1>1, <1>2, FS_Subset
<1> QED
  BY <1>1, <1>2, <1>3

(* Each of them has its own place, and no place is left out. *)
LEMMA NthIsOne ==
  ASSUME NEW P \in SUBSET Nat, IsFiniteSet(P)
  PROVE  /\ Cardinality(P) \in Nat
         /\ \A k \in P : Cardinality(UpTo(P, k)) \in 1..Cardinality(P)
         /\ \A k \in P : Nth(P, Cardinality(UpTo(P, k))) = k
         /\ \A n \in 1..Cardinality(P) :
              Nth(P, n) \in P /\ Cardinality(UpTo(P, Nth(P, n))) = n
<1> DEFINE N == Cardinality(P)
           rank(k) == Cardinality(UpTo(P, k))
           f == [k \in P |-> rank(k)]
<1>1. N \in Nat
  BY FS_CardinalityType
<1>2. ASSUME NEW k \in P PROVE rank(k) \in 1..N
  <2>1. IsFiniteSet(UpTo(P, k)) /\ rank(k) \in Nat /\ rank(k) <= N
    BY UpToFinite
  <2>2. k \in UpTo(P, k)
    BY DEF UpTo
  <2>3. rank(k) # 0
    BY <2>1, <2>2, FS_EmptySet
  <2> HIDE DEF rank
  <2> QED
    BY <1>1, <2>1, <2>3
<1>3. ASSUME NEW j \in P, NEW k \in P, rank(j) = rank(k) PROVE j = k
  <2>1. rank(j) \in Nat /\ rank(k) \in Nat
    BY UpToFinite
  <2>2. (j < k => rank(j) < rank(k)) /\ (k < j => rank(k) < rank(j))
    BY UpToGrows
  <2> HIDE DEF rank
  <2> QED
    BY <1>3, <2>1, <2>2
<1> HIDE DEF rank, N
<1>4. f \in Injection(P, 1..N)
  <2>1. f \in [P -> 1..N]
    BY <1>2
  <2>2. \A j, k \in P : f[j] = f[k] => j = k
    BY <1>3
  <2> QED
    BY <2>1, <2>2 DEF Injection, IsInjective
<1>5. IsFiniteSet(1..N) /\ Cardinality(1..N) = N
  BY <1>1, FS_Interval
<1>6. f \in Surjection(P, 1..N)
  <2> HIDE DEF f
  <2>1. N = Cardinality(1..N) /\ N = Cardinality(P)
    BY <1>5 DEF N
  <2> QED
    BY <1>4, <1>5, <2>1, FS_Injection
<1>7. ASSUME NEW n \in 1..N PROVE \E k \in P : rank(k) = n
  BY <1>6 DEF Surjection
<1>8. ASSUME NEW n \in 1..N PROVE Nth(P, n) \in P /\ rank(Nth(P, n)) = n
  BY <1>7 DEF Nth, rank
<1>9. ASSUME NEW k \in P PROVE Nth(P, rank(k)) = k
  <2>1. rank(k) \in 1..N
    BY <1>2
  <2>2. Nth(P, rank(k)) \in P /\ rank(Nth(P, rank(k))) = rank(k)
    BY <1>8, <2>1
  <2> QED
    BY <1>3, <2>2
<1> QED
  BY <1>1, <1>2, <1>8, <1>9 DEF N, rank

(* The n-th of them is later the larger n is. *)
LEMMA NthInOrder ==
  ASSUME NEW P \in SUBSET Nat, IsFiniteSet(P),
         NEW m \in 1..Cardinality(P), NEW n \in 1..Cardinality(P)
  PROVE  m < n <=> Nth(P, m) < Nth(P, n)
<1> DEFINE j == Nth(P, m)
           k == Nth(P, n)
<1>1. /\ j \in P /\ Cardinality(UpTo(P, j)) = m
      /\ k \in P /\ Cardinality(UpTo(P, k)) = n
      /\ Cardinality(P) \in Nat
  BY NthIsOne
<1> HIDE DEF j, k
<1>2. (j < k => Cardinality(UpTo(P, j)) < Cardinality(UpTo(P, k)))
      /\ (k < j => Cardinality(UpTo(P, k)) < Cardinality(UpTo(P, j)))
  BY <1>1, UpToGrows
<1>3. m < n <=> j < k
  BY <1>1, <1>2
<1> QED
  BY <1>3 DEF j, k

(* What is kept is the lines with the numbers kept, as often as before. *)
LEMMA LinesKept ==
  ASSUME NEW S, NEW text \in Seq(S), NEW P \in SUBSET (DOMAIN text)
  PROVE  /\ IsFiniteSet(P) /\ P \subseteq Nat
         /\ LinesAt(text, P) \in Seq(S) /\ Len(LinesAt(text, P)) = Cardinality(P)
         /\ \A n \in DOMAIN LinesAt(text, P) :
              Nth(P, n) \in P /\ LinesAt(text, P)[n] = text[Nth(P, n)]
         /\ \A m, n \in DOMAIN LinesAt(text, P) : Nth(P, m) = Nth(P, n) => m = n
         /\ \A k \in P : \E n \in DOMAIN LinesAt(text, P) : LinesAt(text, P)[n] = text[k]
<1> DEFINE N == Cardinality(P)
           t == LinesAt(text, P)
<1>1. Len(text) \in Nat /\ DOMAIN text = 1..Len(text)
  BY LenProperties
<1>2. IsFiniteSet(P) /\ P \in SUBSET Nat
  <2>1. IsFiniteSet(1..Len(text))
    BY <1>1, FS_Interval
  <2> QED
    BY <1>1, <2>1, FS_Subset
<1>3. /\ N \in Nat
      /\ \A k \in P : Cardinality(UpTo(P, k)) \in 1..N
      /\ \A k \in P : Nth(P, Cardinality(UpTo(P, k))) = k
      /\ \A n \in 1..N : Nth(P, n) \in P /\ Cardinality(UpTo(P, Nth(P, n))) = n
  BY <1>2, NthIsOne
<1>4. DOMAIN t = 1..N /\ \A n \in 1..N : t[n] = text[Nth(P, n)]
  BY DEF LinesAt
<1>5. t \in [1..N -> S]
  <2>1. \A n \in 1..N : text[Nth(P, n)] \in S
    BY <1>1, <1>3, ElementOfSeq
  <2> QED
    BY <2>1 DEF LinesAt
<1> HIDE DEF t, N
<1>6. t \in Seq(S) /\ Len(t) = N
  BY <1>3, <1>5
<1>7. \A m, n \in 1..N : Nth(P, m) = Nth(P, n) => m = n
  BY <1>3
<1>8. ASSUME NEW k \in P PROVE \E n \in 1..N : t[n] = text[k]
  BY <1>3, <1>4
<1> QED
  BY <1>2, <1>3, <1>4, <1>6, <1>7, <1>8 DEF t, N

(* Numbers that move without passing each other keep their places. *)
LEMMA MovedInOrder ==
  ASSUME NEW P \in SUBSET Nat, IsFiniteSet(P), NEW Q \in SUBSET Nat, IsFiniteSet(Q),
         NEW g \in [P -> Q], \A q \in Q : \E p \in P : g[p] = q,
         \A j, k \in P : j < k => g[j] < g[k]
  PROVE  /\ Cardinality(Q) = Cardinality(P)
         /\ \A n \in 1..Cardinality(P) : Nth(Q, n) = g[Nth(P, n)]
<1>0. \A k \in P : k \in Nat /\ g[k] \in Q /\ g[k] \in Nat
  OBVIOUS
<1>1. ASSUME NEW j \in P, NEW k \in P PROVE (j < k <=> g[j] < g[k]) /\ (g[j] = g[k] => j = k)
  <2>1. j \in Nat /\ k \in Nat /\ g[j] \in Nat /\ g[k] \in Nat
    BY <1>0
  <2>2. (j < k => g[j] < g[k]) /\ (k < j => g[k] < g[j])
    OBVIOUS
  <2> QED
    BY <2>1, <2>2
<1>2. \A j, k \in P : g[j] = g[k] => j = k
  BY <1>1
<1>3. Cardinality(Q) = Cardinality(P)
  <2>1. g \in Bijection(P, Q)
    BY <1>2 DEF Bijection, Injection, Surjection, IsInjective
  <2> QED
    BY <2>1, FS_Bijection DEF ExistsBijection
<1>4. ASSUME NEW k \in P PROVE Cardinality(UpTo(Q, g[k])) = Cardinality(UpTo(P, k))
  <2> DEFINE A == UpTo(P, k)
             B == UpTo(Q, g[k])
             f == [j \in A |-> g[j]]
  <2>1. A \subseteq P /\ IsFiniteSet(A)
    BY UpToFinite
  <2>0. \A j \in P : j <= k <=> g[j] <= g[k]
    BY <1>0, <1>1
  <2>2. \A j \in A : g[j] \in B
    BY <1>0, <2>0 DEF UpTo
  <2>3. \A q \in B : \E j \in A : g[j] = q
    BY <2>0 DEF UpTo
  <2> HIDE DEF A, B
  <2>4. f \in Bijection(A, B)
    <3>1. f \in [A -> B] /\ \A i, j \in A : f[i] = f[j] => i = j
      BY <1>2, <2>1, <2>2
    <3>2. \A q \in B : \E j \in A : f[j] = q
      BY <2>3
    <3> QED
      BY <3>1, <3>2 DEF Bijection, Injection, Surjection, IsInjective
  <2>5. Cardinality(B) = Cardinality(A)
    BY <2>1, <2>4, FS_Bijection DEF ExistsBijection
  <2> QED
    BY <2>5 DEF A, B
<1>5. ASSUME NEW n \in 1..Cardinality(P) PROVE Nth(Q, n) = g[Nth(P, n)]
  <2>1. Nth(P, n) \in P /\ Cardinality(UpTo(P, Nth(P, n))) = n
    BY NthIsOne
  <2>2. g[Nth(P, n)] \in Q /\ Cardinality(UpTo(Q, g[Nth(P, n)])) = n
    BY <1>4, <2>1
  <2>3. Nth(Q, Cardinality(UpTo(Q, g[Nth(P, n)]))) = g[Nth(P, n)]
    BY <2>2, NthIsOne
  <2> QED
    BY <2>2, <2>3
<1> QED
  BY <1>3, <1>5

(* The lines of one text at these numbers are those of another at others, where they
   moved in this way. *)
Moved(s, P, t, Q) ==
  \E g \in [P -> Q] :
    /\ \A q \in Q : \E p \in P : g[p] = q
    /\ \A j, k \in P : j < k => g[j] < g[k]
    /\ \A k \in P : t[g[k]] = s[k]

(* Then they are the same lines, and so they are where they did not move at all. *)
LEMMA SameLines ==
  ASSUME NEW s, NEW t, NEW P \in SUBSET Nat, IsFiniteSet(P), NEW Q \in SUBSET Nat, IsFiniteSet(Q),
         Moved(s, P, t, Q)
  PROVE  LinesAt(t, Q) = LinesAt(s, P)
<1> PICK g \in [P -> Q] :
      /\ \A q \in Q : \E p \in P : g[p] = q
      /\ \A j, k \in P : j < k => g[j] < g[k]
      /\ \A k \in P : t[g[k]] = s[k]
  BY DEF Moved
<1>1. /\ Cardinality(Q) = Cardinality(P)
      /\ \A n \in 1..Cardinality(P) : Nth(Q, n) = g[Nth(P, n)]
  BY MovedInOrder
<1>2. \A n \in 1..Cardinality(P) : Nth(P, n) \in P
  BY NthIsOne
<1>3. \A n \in 1..Cardinality(P) : t[Nth(Q, n)] = s[Nth(P, n)]
  BY <1>1, <1>2
<1> QED
  BY <1>1, <1>3 DEF LinesAt

(* Or where the same numbers have the same lines. *)
LEMMA SameLinesInPlace ==
  ASSUME NEW s, NEW t, NEW P \in SUBSET Nat, IsFiniteSet(P), \A k \in P : t[k] = s[k]
  PROVE  LinesAt(t, P) = LinesAt(s, P)
<1>1. \A n \in 1..Cardinality(P) : t[Nth(P, n)] = s[Nth(P, n)]
  BY NthIsOne
<1> QED
  BY <1>1 DEF LinesAt
================================================================================
