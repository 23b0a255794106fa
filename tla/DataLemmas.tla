----------------------------- MODULE DataLemmas -----------------------------
(***************************************************************************)
(* Facts about data that the proofs of several components use: least and   *)
(* greatest members of sets of naturals, induction, and what the loop of   *)
(* Without leaves of a slice.                                              *)
(***************************************************************************)
EXTENDS Slices, FiniteSets, FiniteSetTheorems, WellFoundedInduction, TLAPS

-----------------------------------------------------------------------------
(* Sets of naturals.                                                       *)

\* A set of naturals that is not empty has a least member.
LEMMA LeastMember ==
    ASSUME NEW S, S \subseteq Nat, S # {}
    PROVE  \E x \in S : \A y \in S : x <= y
<1> DEFINE R == OpToRel(<, Nat)
<1>1. IsWellFoundedOn(R, Nat)
  BY NatLessThanWellFounded, Zenon
<1>2. \A x, y \in Nat : y < x => <<y, x>> \in R
  BY DEF OpToRel
<1> HIDE DEF R
<1>3. PICK x \in S : \A y \in S : ~(<<y, x>> \in R)
  BY <1>1, WFMin
<1>4. \A y \in S : ~(y < x)
  BY <1>2, <1>3
<1>5. \A y \in S : x <= y
  BY <1>4
<1> QED BY <1>5

\* Induction: a set that has 0 and, with each number, the next one up to m.
LEMMA Induction ==
    ASSUME NEW m \in Nat, NEW S, 0 \in S, \A n \in 0..m : n \in S /\ n < m => n + 1 \in S
    PROVE  0..m \subseteq S
<1> SUFFICES ASSUME (0..m) \ S # {} PROVE FALSE
  OBVIOUS
<1>1. PICK x \in (0..m) \ S : \A y \in (0..m) \ S : x <= y
  <2>1. (0..m) \ S \subseteq Nat
    OBVIOUS
  <2> QED BY <2>1, LeastMember
<1>2. x # 0 /\ x - 1 \in 0..m /\ x - 1 < m /\ ~(x <= x - 1)
  BY <1>1
<1>3. x - 1 \in S
  BY <1>1, <1>2
<1>4. (x - 1) + 1 \in S
  BY <1>2, <1>3
<1> QED BY <1>1, <1>4

\* A set of numbers up to n that is not empty has a greatest member.
LEMMA GreatestMember ==
    ASSUME NEW n \in Nat, NEW S, S \subseteq 0..n, S # {}
    PROVE  \E x \in S : \A y \in S : y <= x
<1> DEFINE D == {n - x : x \in S}
<1>0. \A x \in S : x \in Nat /\ x <= n /\ n - x \in Nat
  OBVIOUS
<1>1. D \subseteq Nat /\ D # {}
  BY <1>0
<1>2. PICK d \in D : \A e \in D : d <= e
  BY <1>1, LeastMember
<1>3. PICK x \in S : d = n - x
  OBVIOUS
<1>4. \A y \in S : n - x <= n - y
  BY <1>2, <1>3
<1>5. \A y \in S : y <= x
  BY <1>0, <1>4
<1> QED BY <1>5

\* A set of numbers up to n is finite.
LEMMA BoundedFinite ==
    ASSUME NEW n \in Nat, NEW S, S \subseteq 0..n
    PROVE  IsFiniteSet(S)
<1>1. IsFiniteSet(0..n) /\ S \in SUBSET (0..n)
  BY FS_Interval
<1> QED BY <1>1, FS_Subset

\* The members of a finite set of naturals, by how many are below them.
LEMMA NthMember ==
    ASSUME NEW S, S \subseteq Nat, IsFiniteSet(S), NEW n \in Nat, n < Cardinality(S)
    PROVE  \E i \in S : Cardinality({k \in S : k < i}) = n
<1> DEFINE below(i) == {k \in S : k < i}
           M == {m \in Nat : \E i \in S : Cardinality(below(i)) = m}
<1>1. Cardinality(S) \in Nat
  BY FS_CardinalityType
<1>2. ASSUME NEW i \in S PROVE IsFiniteSet(below(i)) /\ Cardinality(below(i)) \in Nat
  <2>1. below(i) \in SUBSET S
    OBVIOUS
  <2> QED BY <2>1, FS_Subset, FS_CardinalityType
<1>3. 0 \in M
  <2>1. S # {}
    BY <1>1, FS_EmptySet
  <2>2. PICK i \in S : \A y \in S : i <= y
    BY <2>1, LeastMember
  <2>3. below(i) = {}
    <3>1. \A y \in S : ~(y < i)
      BY <2>2
    <3> QED BY <3>1
  <2> QED BY <2>3, FS_EmptySet
<1>4. ASSUME NEW m \in 0..n, m \in M, m < n PROVE m + 1 \in M
  <2>1. PICK i \in S : Cardinality(below(i)) = m
    BY <1>4
  <2> DEFINE B == below(i)
             C == B \cup {i}
             U == S \ C
  <2>2. IsFiniteSet(B) /\ i \notin B
    BY <1>2
  <2>3. IsFiniteSet(C) /\ Cardinality(C) = m + 1
    <3> HIDE DEF B
    <3> QED BY <2>1, <2>2, FS_AddElement DEF B
  <2>4. U # {}
    <3>1. C # S
      BY <1>1, <1>4, <2>3
    <3> QED BY <3>1
  <2>5. PICK j \in U : \A y \in U : j <= y
    <3>1. U \subseteq Nat
      OBVIOUS
    <3> HIDE DEF U
    <3> QED BY <2>4, <3>1, LeastMember
  <2>6. below(j) = C
    <3>1. j \in S /\ j > i
      BY <2>5
    <3>2. \A y \in S : y \in C <=> y <= i
      OBVIOUS
    <3>3. ASSUME NEW y \in S PROVE y < j <=> y \in C
      BY <2>5, <3>1, <3>2
    <3> QED BY <3>3
  <2>7. m + 1 \in Nat
    OBVIOUS
  <2> HIDE DEF C
  <2> QED BY <2>3, <2>5, <2>6, <2>7
<1> HIDE DEF M
<1>5. 0..n \subseteq M
  BY <1>3, <1>4, Induction
<1>6. n \in M
  BY <1>5
<1> QED BY <1>6 DEF M

-----------------------------------------------------------------------------
(* Slices.                                                                 *)

\* The places of a slice.
LEMMA SliceFacts ==
    ASSUME NEW S, NEW s \in Seq(S)
    PROVE  /\ Len(s) \in Nat /\ DOMAIN s = 1..Len(s) /\ s \in [1..Len(s) -> S]
           /\ \A i \in DOMAIN s : i \in Nat \ {0} /\ s[i] \in S
OBVIOUS

\* A slice of members of T.
LEMMA SliceOf ==
    ASSUME NEW S, NEW s \in Seq(S), NEW T, \A i \in DOMAIN s : s[i] \in T
    PROVE  s \in Seq(T)
OBVIOUS

\* A slice after append.
LEMMA AppendFacts ==
    ASSUME NEW S, NEW s \in Seq(S), NEW x \in S
    PROVE  /\ Append(s, x) \in Seq(S) /\ Len(Append(s, x)) = Len(s) + 1 /\ Len(s) \in Nat
           /\ DOMAIN s = 1..Len(s) /\ DOMAIN Append(s, x) = 1..(Len(s) + 1)
           /\ \A i \in 1..Len(s) : Append(s, x)[i] = s[i]
           /\ Append(s, x)[Len(s) + 1] = x
OBVIOUS

\* A function on 1..n is a slice.
LEMMA FunctionSlice ==
    ASSUME NEW S, NEW n \in Nat, NEW f \in [1..n -> S]
    PROVE  f \in Seq(S) /\ Len(f) = n
OBVIOUS

\* The members of a slice after append.
LEMMA ElemsAppend ==
    ASSUME NEW S, NEW s \in Seq(S), NEW x \in S
    PROVE  Elems(Append(s, x)) = Elems(s) \cup {x}
<1> DEFINE t == Append(s, x)
<1>1. /\ DOMAIN s = 1..Len(s) /\ DOMAIN t = 1..(Len(s) + 1) /\ Len(s) \in Nat
      /\ \A i \in 1..Len(s) : t[i] = s[i]
      /\ t[Len(s) + 1] = x
  OBVIOUS
<1>2. ASSUME NEW i \in DOMAIN t PROVE t[i] \in Elems(s) \cup {x}
  BY <1>1 DEF Elems
<1>3. ASSUME NEW i \in DOMAIN s PROVE s[i] \in Elems(t)
  <2>1. i \in DOMAIN t /\ t[i] = s[i]
    BY <1>1
  <2> QED BY <2>1 DEF Elems
<1>4. x \in Elems(t)
  <2>1. Len(s) + 1 \in DOMAIN t
    BY <1>1
  <2> QED BY <1>1, <2>1 DEF Elems
<1>5. Elems(t) \subseteq Elems(s) \cup {x}
  BY <1>2 DEF Elems
<1>6. Elems(s) \subseteq Elems(t)
  BY <1>3 DEF Elems
<1> QED BY <1>4, <1>5, <1>6

\* The members of a slice and of its tail.
LEMMA ElemsHeadTail ==
    ASSUME NEW S, NEW s \in Seq(S), s # <<>>
    PROVE  /\ Head(s) \in S /\ Tail(s) \in Seq(S)
           /\ Elems(s) = Elems(Tail(s)) \cup {Head(s)}
           /\ Len(Tail(s)) = Len(s) - 1 /\ Len(s) \in Nat \ {0}
           /\ \A i \in 1..(Len(s) - 1) : Tail(s)[i] = s[i + 1]
<1> DEFINE t == Tail(s)
<1>1. /\ DOMAIN s = 1..Len(s) /\ Len(s) \in Nat \ {0} /\ DOMAIN t = 1..(Len(s) - 1)
      /\ \A i \in 1..(Len(s) - 1) : t[i] = s[i + 1]
      /\ Head(s) = s[1]
  OBVIOUS
<1>2. ASSUME NEW i \in DOMAIN s PROVE s[i] \in Elems(t) \cup {Head(s)}
  <2>1. CASE i = 1
    BY <1>1, <2>1
  <2>2. CASE i # 1
    <3>1. i - 1 \in DOMAIN t /\ t[i - 1] = s[i]
      BY <1>1, <2>2
    <3> QED BY <3>1 DEF Elems
  <2> QED BY <2>1, <2>2
<1>3. ASSUME NEW i \in DOMAIN t PROVE t[i] \in Elems(s)
  <2>1. i + 1 \in DOMAIN s /\ t[i] = s[i + 1]
    BY <1>1
  <2> QED BY <2>1 DEF Elems
<1>4. Head(s) \in Elems(s)
  <2>1. 1 \in DOMAIN s
    BY <1>1
  <2> QED BY <1>1, <2>1 DEF Elems
<1>5. Elems(s) \subseteq Elems(t) \cup {Head(s)}
  BY <1>2 DEF Elems
<1>6. Elems(t) \subseteq Elems(s)
  BY <1>3 DEF Elems
<1>7. Elems(s) = Elems(Tail(s)) \cup {Head(s)}
  BY <1>4, <1>5, <1>6
<1>8. Head(s) \in S /\ Tail(s) \in Seq(S) /\ Len(Tail(s)) = Len(s) - 1
  OBVIOUS
<1> QED BY <1>1, <1>7, <1>8

\* A slice has no more members than its length.
LEMMA ElemsFinite ==
    ASSUME NEW S, NEW s \in Seq(S)
    PROVE  /\ Elems(s) \subseteq S /\ IsFiniteSet(Elems(s))
           /\ Cardinality(Elems(s)) \in Nat /\ Cardinality(Elems(s)) <= Len(s)
<1>1. Len(s) \in Nat /\ DOMAIN s = 1..Len(s) /\ s \in [1..Len(s) -> S]
  OBVIOUS
<1>2. Elems(s) \subseteq S
  BY <1>1 DEF Elems
<1>3. s \in Surjection(1..Len(s), Elems(s))
  BY <1>1 DEF Surjection, Elems
<1>4. IsFiniteSet(1..Len(s)) /\ Cardinality(1..Len(s)) = Len(s)
  BY <1>1, FS_Interval
<1>5. IsFiniteSet(Elems(s)) /\ Cardinality(Elems(s)) <= Len(s)
  BY <1>3, <1>4, FS_Surjection
<1> QED BY <1>2, <1>5, FS_CardinalityType

\* What Without leaves: a slice of the members that are not in T.
LEMMA WithoutElems ==
    ASSUME NEW S, NEW s \in Seq(S), NEW T
    PROVE  /\ Without(s, T) \in Seq(S \ T)
           /\ Elems(Without(s, T)) = Elems(s) \ T
<1> DEFINE N == Len(s)
           Step(f, n) == IF n = 0 THEN <<>>
                         ELSE IF s[n] \in T THEN f[n - 1] ELSE Append(f[n - 1], s[n])
           Good(m) == {g \in [0..m -> Seq(S \ T)] : \A n \in 0..m : g[n] = Step(g, n)}
           out == CHOOSE f : f = [n \in 0..N |-> Step(f, n)]
<1>1. N \in Nat /\ DOMAIN s = 1..N /\ \A n \in 1..N : s[n] \in S
  OBVIOUS
<1>2. \A m \in 0..N : Good(m) # {}
  <2> DEFINE M == {m \in Nat : Good(m) # {}}
  <2>1. 0 \in M
    <3>1. [n \in 0..0 |-> <<>>] \in Good(0)
      OBVIOUS
    <3> QED BY <3>1
  <2>2. ASSUME NEW m \in 0..N, m \in M, m < N PROVE m + 1 \in M
    <3>1. PICK g \in Good(m) : TRUE
      BY <2>2
    <3>2. /\ g \in [0..m -> Seq(S \ T)] /\ g[m] \in Seq(S \ T)
          /\ \A n \in 0..m : g[n] = Step(g, n)
      BY <1>1, <3>1
    <3> DEFINE v == IF s[m + 1] \in T THEN g[m] ELSE Append(g[m], s[m + 1])
               h == [n \in 0..(m + 1) |-> IF n = m + 1 THEN v ELSE g[n]]
    <3>3. m + 1 \in 1..N /\ m + 1 \in Nat
      BY <1>1, <2>2
    <3>4. v \in Seq(S \ T)
      BY <1>1, <3>2, <3>3
    <3>5. h \in [0..(m + 1) -> Seq(S \ T)]
      BY <3>2, <3>4
    <3>6. ASSUME NEW n \in 0..(m + 1) PROVE h[n] = Step(h, n)
      <4>1. CASE n = m + 1
        BY <3>2, <4>1
      <4>2. CASE n # m + 1 /\ n = 0
        BY <3>2, <4>2
      <4>3. CASE n # m + 1 /\ n # 0
        <5>1. n \in 0..m /\ n - 1 \in 0..(m + 1) /\ n - 1 # m + 1
          BY <1>1, <4>3
        <5>2. h[n] = g[n] /\ h[n - 1] = g[n - 1]
          BY <4>3, <5>1
        <5> QED BY <3>2, <5>1, <5>2
      <4> QED BY <4>1, <4>2, <4>3
    <3>7. h \in Good(m + 1)
      BY <3>5, <3>6
    <3> QED BY <3>3, <3>7
  <2> HIDE DEF M, N
  <2>3. 0..N \subseteq M
    BY <1>1, <2>1, <2>2, Induction
  <2> QED BY <2>3 DEF M
<1>3. PICK g \in Good(N) : TRUE
  <2>1. N \in 0..N
    BY <1>1
  <2> HIDE DEF Good, N
  <2> QED BY <1>2, <2>1
<1>4. g = [n \in 0..N |-> Step(g, n)]
  BY <1>3
<1>5. out = [n \in 0..N |-> Step(out, n)]
  BY <1>4
<1>6. Without(s, T) = out[N]
  BY DEF Without
<1> HIDE DEF out
<1> DEFINE Q == {n \in Nat : /\ out[n] \in Seq(S \ T)
                             /\ Elems(out[n]) = {s[i] : i \in 1..n} \ T}
<1>7. 0 \in Q
  <2>1. out[0] = <<>>
    <3>1. 0 \in 0..N
      BY <1>1
    <3> QED BY <1>5, <3>1
  <2>2. Elems(<<>>) = {} /\ {s[i] : i \in 1..0} = {} /\ <<>> \in Seq(S \ T)
    BY DEF Elems
  <2> QED BY <2>1, <2>2
<1>8. ASSUME NEW n \in 0..N, n \in Q, n < N PROVE n + 1 \in Q
  <2>1. n + 1 \in 0..N /\ n + 1 \in 1..N /\ n + 1 # 0 /\ (n + 1) - 1 = n
    BY <1>1, <1>8
  <2>2. out[n + 1] = IF s[n + 1] \in T THEN out[n] ELSE Append(out[n], s[n + 1])
    BY <1>5, <2>1
  <2>3. {s[i] : i \in 1..(n + 1)} = {s[i] : i \in 1..n} \cup {s[n + 1]}
    BY <1>1, <2>1
  <2>4. CASE s[n + 1] \in T
    <3>1. out[n + 1] = out[n] /\ {s[i] : i \in 1..(n + 1)} \ T = {s[i] : i \in 1..n} \ T
      BY <2>2, <2>3, <2>4
    <3> QED BY <1>8, <2>1, <3>1
  <2>5. CASE s[n + 1] \notin T
    <3>1. out[n] \in Seq(S \ T) /\ s[n + 1] \in S \ T
      BY <1>1, <1>8, <2>1, <2>5
    <3>2. out[n + 1] = Append(out[n], s[n + 1])
      BY <2>2, <2>5
    <3>3. Elems(out[n + 1]) = Elems(out[n]) \cup {s[n + 1]}
      <4> DEFINE U == S \ T
                 o == out[n]
                 x == s[n + 1]
      <4>1. o \in Seq(U) /\ x \in U
        BY <3>1
      <4> HIDE DEF U, o, x
      <4>2. Elems(Append(o, x)) = Elems(o) \cup {x}
        BY <4>1, ElemsAppend
      <4> QED BY <3>2, <4>2 DEF o, x
    <3>4. out[n + 1] \in Seq(S \ T)
      BY <3>1, <3>2
    <3>5. Elems(out[n]) = {s[i] : i \in 1..n} \ T
      BY <1>8
    <3> QED BY <2>1, <2>3, <2>5, <3>3, <3>4, <3>5
  <2> QED BY <2>4, <2>5
<1> HIDE DEF Q, N
<1>9. 0..N \subseteq Q
  BY <1>1, <1>7, <1>8, Induction
<1>10. N \in Q
  BY <1>1, <1>9
<1>11. out[N] \in Seq(S \ T) /\ Elems(out[N]) = {s[i] : i \in 1..N} \ T
  BY <1>10 DEF Q
<1>12. Elems(s) = {s[i] : i \in 1..N}
  BY <1>1 DEF Elems
<1> QED BY <1>6, <1>11, <1>12
=============================================================================
