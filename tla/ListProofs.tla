----------------------------- MODULE ListProofs -----------------------------
(* Lemmas about the lists and queues the models are made of.                 *)
EXTENDS LinkedLists, Integers, FiniteSets, TLAPS

(* Facts about natural numbers for the steps that have no other arithmetic.  *)
LEMMA NatOrder ==
    /\ \A m \in Nat : m <= m /\ m + 1 > m
    /\ \A m, n \in Nat : m < n => m # n
    /\ \A m, n \in Nat : m <= n => ~(m > n)
    /\ \A n \in Nat : n > 0 => 1 \in 1..n
    /\ 1 - 1 = 0 /\ 1..0 = {} /\ 0 <= 0 /\ 0 # 1
OBVIOUS

(* What a sequence is: its places and what they hold, ...                    *)
LEMMA SeqShape ==
    ASSUME NEW B, NEW s \in Seq(B)
    PROVE  /\ Len(s) \in Nat /\ DOMAIN s = 1..Len(s)
           /\ \A j \in 1..Len(s) : s[j] \in B
OBVIOUS

(* ... with one element more, ...                                            *)
LEMMA SeqGrows ==
    ASSUME NEW B, NEW s \in Seq(B), NEW x \in B
    PROVE  Append(s, x) \in Seq(B)
OBVIOUS

(* ... and without the oldest.                                               *)
LEMMA SeqShrinks ==
    ASSUME NEW B, NEW s \in Seq(B), s # <<>>
    PROVE  Tail(s) \in Seq(B) /\ Head(s) \in B /\ Head(s) = s[1] /\ 1 \in 1..Len(s)
OBVIOUS

(* The oldest element, the k-th one, and a new one. *)
LEMMA TailElems ==
    ASSUME NEW B, NEW s \in Seq(B), s # <<>>, Distinct(s)
    PROVE  /\ Tail(s) \in Seq(B) /\ Len(Tail(s)) = Len(s) - 1
           /\ Distinct(Tail(s))
           /\ Head(s) \in Elems(s)
           /\ Elems(Tail(s)) = Elems(s) \ {Head(s)}
<1>1. /\ Tail(s) \in Seq(B) /\ Len(Tail(s)) = Len(s) - 1 /\ Len(s) \in Nat /\ Len(s) > 0
      /\ \A k \in 1..(Len(s) - 1) : Tail(s)[k] = s[k + 1]
      /\ Head(s) = s[1]
  OBVIOUS
<1>2. Distinct(Tail(s))
  BY <1>1 DEF Distinct
<1>3. Head(s) \in Elems(s)
  BY <1>1 DEF Elems
<1>4. ASSUME NEW x \in Elems(Tail(s)) PROVE x \in Elems(s) \ {Head(s)}
  <2>1. PICK k \in 1..(Len(s) - 1) : x = s[k + 1]
    BY <1>1, <1>4 DEF Elems
  <2>2. k + 1 \in 1..Len(s) /\ 1 \in 1..Len(s) /\ k + 1 # 1
    BY <1>1
  <2> QED
    BY <1>1, <2>1, <2>2 DEF Elems, Distinct
<1>5. ASSUME NEW x \in Elems(s) \ {Head(s)} PROVE x \in Elems(Tail(s))
  <2>1. PICK k \in 1..Len(s) : x = s[k]
    BY <1>5 DEF Elems
  <2>2. k - 1 \in 1..(Len(s) - 1) /\ Tail(s)[k - 1] = s[k]
    BY <1>1, <1>5, <2>1
  <2> QED
    BY <1>1, <2>1, <2>2 DEF Elems
<1> QED
  BY <1>1, <1>2, <1>3, <1>4, <1>5

(* remove_free_list: one element out of the middle of a list. *)
LEMMA RemoveElems ==
    ASSUME NEW B, NEW s \in Seq(B), Distinct(s), NEW k \in 1..Len(s)
    PROVE  /\ RemoveNth(s, k) \in Seq(B) /\ Len(RemoveNth(s, k)) = Len(s) - 1
           /\ Distinct(RemoveNth(s, k))
           /\ Elems(RemoveNth(s, k)) = Elems(s) \ {s[k]}
<1> DEFINE r == RemoveNth(s, k)
<1>1. Len(s) \in Nat /\ Len(s) - 1 \in Nat
  OBVIOUS
<1>2. \A i \in 1..(Len(s) - 1) : r[i] = (IF i < k THEN s[i] ELSE s[i + 1]) /\ r[i] \in B
  BY <1>1 DEF RemoveNth
<1>3. r \in Seq(B) /\ Len(r) = Len(s) - 1
  <2>1. r \in [1..(Len(s) - 1) -> B]
    BY <1>1, <1>2 DEF RemoveNth
  <2> QED
    BY <1>1, <2>1
<1> HIDE DEF r
<1>4. Distinct(r)
  <2>1. ASSUME NEW i \in 1..(Len(s) - 1), NEW j \in 1..(Len(s) - 1), r[i] = r[j]
        PROVE  i = j
    <3> DEFINE p(n) == IF n < k THEN n ELSE n + 1
    <3>1. r[i] = s[p(i)] /\ r[j] = s[p(j)]
      BY <1>2
    <3>2. p(i) \in 1..Len(s) /\ p(j) \in 1..Len(s)
      BY <1>1
    <3>3. p(i) = p(j)
      BY <2>1, <3>1, <3>2 DEF Distinct
    <3> QED
      BY <1>1, <3>3
  <2> QED
    BY <1>3, <2>1 DEF Distinct
<1>5. ASSUME NEW x \in Elems(r) PROVE x \in Elems(s) \ {s[k]}
  <2>1. PICK i \in 1..(Len(s) - 1) : x = r[i]
    BY <1>3, <1>5 DEF Elems
  <2>2. CASE i < k
    <3>1. x = s[i] /\ i \in 1..Len(s) /\ i # k
      BY <1>1, <1>2, <2>1, <2>2
    <3> QED
      BY <3>1 DEF Elems, Distinct
  <2>3. CASE ~(i < k)
    <3>1. x = s[i + 1] /\ i + 1 \in 1..Len(s) /\ i + 1 # k
      BY <1>1, <1>2, <2>1, <2>3
    <3> QED
      BY <3>1 DEF Elems, Distinct
  <2> QED
    BY <2>2, <2>3
<1>6. ASSUME NEW x \in Elems(s) \ {s[k]} PROVE x \in Elems(r)
  <2>1. PICK i \in 1..Len(s) : x = s[i] /\ i # k
    BY <1>6 DEF Elems
  <2>2. CASE i < k
    <3>1. i \in 1..(Len(s) - 1) /\ r[i] = s[i]
      BY <1>1, <1>2, <2>1, <2>2
    <3> QED
      BY <1>3, <2>1, <3>1 DEF Elems
  <2>3. CASE i > k
    <3>1. i - 1 \in 1..(Len(s) - 1) /\ r[i - 1] = s[i]
      BY <1>1, <1>2, <2>1, <2>3
    <3> QED
      BY <1>3, <2>1, <3>1 DEF Elems
  <2> QED
    BY <2>1, <2>2, <2>3
<1> QED
  BY <1>3, <1>4, <1>5, <1>6 DEF r

(* insert_free_list: one element more at its end. *)
LEMMA AppendElems ==
    ASSUME NEW B, NEW s \in Seq(B), NEW x \in B, Distinct(s), x \notin Elems(s)
    PROVE  /\ Append(s, x) \in Seq(B) /\ Len(Append(s, x)) = Len(s) + 1
           /\ Distinct(Append(s, x))
           /\ Elems(Append(s, x)) = Elems(s) \cup {x}
<1>1. /\ Append(s, x) \in Seq(B) /\ Len(Append(s, x)) = Len(s) + 1 /\ Len(s) \in Nat
      /\ \A k \in 1..Len(s) : Append(s, x)[k] = s[k]
      /\ Append(s, x)[Len(s) + 1] = x
  OBVIOUS
<1>2. \A k \in 1..Len(s) : s[k] # x
  BY DEF Elems
<1>3. Distinct(Append(s, x))
  BY <1>1, <1>2 DEF Distinct
<1>4. Elems(Append(s, x)) = Elems(s) \cup {x}
  BY <1>1 DEF Elems
<1> QED
  BY <1>1, <1>3, <1>4
-----------------------------------------------------------------------------
(* Counting *)

(* What the proofs use of the theory of finite sets. A module that counts    *)
(* takes it as an assumption of its lemmas, and gets it from                 *)
(* FiniteSetTheorems once, before its theorems: that library makes every     *)
(* obligation after it several times as expensive.                           *)
FiniteSetFacts ==
    /\ IsFiniteSet({}) /\ Cardinality({}) = 0
    /\ \A S : IsFiniteSet(S) => Cardinality(S) \in Nat /\ (Cardinality(S) = 0 => S = {})
    /\ \A S, x : IsFiniteSet(S) =>
          /\ IsFiniteSet(S \cup {x})
          /\ x \notin S => Cardinality(S \cup {x}) = Cardinality(S) + 1
    /\ \A S, x : IsFiniteSet(S) =>
          /\ IsFiniteSet(S \ {x})
          /\ x \in S => Cardinality(S \ {x}) = Cardinality(S) - 1
    /\ \A S, T : IsFiniteSet(S) /\ T \subseteq S =>
          IsFiniteSet(T) /\ Cardinality(T) <= Cardinality(S)
    /\ \A n \in Nat : IsFiniteSet(1..n)
    /\ \A S, T, f :
          /\ IsFiniteSet(S) /\ f \in [S -> T]
          /\ \A a, b \in S : f[a] = f[b] => a = b
          /\ \A t \in T : \E a \in S : f[a] = t
          => Cardinality(T) = Cardinality(S)

(* A finite set has a natural number of elements, ...                        *)
LEMMA Numbered ==
    ASSUME FiniteSetFacts
    PROVE  /\ IsFiniteSet({}) /\ Cardinality({}) = 0
           /\ \A S : IsFiniteSet(S) => Cardinality(S) \in Nat /\ (Cardinality(S) = 0 => S = {})
BY DEF FiniteSetFacts

(* ... its subsets are finite, ...                                           *)
LEMMA FinitePart ==
    ASSUME FiniteSetFacts, NEW S, IsFiniteSet(S), NEW T, T \subseteq S
    PROVE  IsFiniteSet(T) /\ Cardinality(T) \in Nat /\ Cardinality(T) <= Cardinality(S)
BY DEF FiniteSetFacts

(* ... with one element more it has one more ...                             *)
LEMMA OneMore ==
    ASSUME FiniteSetFacts, NEW S, NEW T, NEW x, IsFiniteSet(S), x \notin S, T = S \cup {x}
    PROVE  IsFiniteSet(T) /\ Cardinality(T) = Cardinality(S) + 1
BY DEF FiniteSetFacts

(* ... and without one of them one less.                                     *)
LEMMA OneLess ==
    ASSUME FiniteSetFacts, NEW S, NEW T, NEW x, IsFiniteSet(S), x \in S, T = S \ {x}
    PROVE  IsFiniteSet(T) /\ Cardinality(T) = Cardinality(S) - 1
BY DEF FiniteSetFacts

(* Two sets that correspond one to one have as many elements.                *)
LEMMA OneToOne ==
    ASSUME FiniteSetFacts, NEW S, NEW T, NEW f, IsFiniteSet(S), f \in [S -> T],
           \A a, b \in S : f[a] = f[b] => a = b,
           \A t \in T : \E a \in S : f[a] = t
    PROVE  Cardinality(T) = Cardinality(S)
<1>1. \A A, B, g :
         /\ IsFiniteSet(A) /\ g \in [A -> B]
         /\ \A a, b \in A : g[a] = g[b] => a = b
         /\ \A t \in B : \E a \in A : g[a] = t
         => Cardinality(B) = Cardinality(A)
  BY Zenon DEF FiniteSetFacts
<1>2. /\ IsFiniteSet(S) /\ f \in [S -> T]
      /\ \A a, b \in S : f[a] = f[b] => a = b
      /\ \A t \in T : \E a \in S : f[a] = t
      => Cardinality(T) = Cardinality(S)
  BY <1>1, Zenon
<1> QED
  BY <1>2, Zenon

(* How many elements of a list are in S: a finite number, ...               *)
LEMMA SpotsFinite ==
    ASSUME FiniteSetFacts, NEW B, NEW s \in Seq(B), NEW S
    PROVE  IsFiniteSet(Spots(s, S)) /\ Cardinality(Spots(s, S)) \in Nat
<1>1. IsFiniteSet(1..Len(s))
  BY DEF FiniteSetFacts
<1>2. Spots(s, S) \subseteq 1..Len(s)
  BY DEF Spots
<1> QED
  BY <1>1, <1>2, FinitePart

(* ... one more after x of S is appended, ...                               *)
LEMMA SpotsAppend ==
    ASSUME FiniteSetFacts, NEW B, NEW s \in Seq(B), NEW x \in B, NEW S
    PROVE  Cardinality(Spots(Append(s, x), S))
              = Cardinality(Spots(s, S)) + (IF x \in S THEN 1 ELSE 0)
<1>1. /\ Len(Append(s, x)) = Len(s) + 1 /\ Len(s) \in Nat
      /\ \A k \in 1..Len(s) : Append(s, x)[k] = s[k]
      /\ Append(s, x)[Len(s) + 1] = x
  OBVIOUS
<1>2. IsFiniteSet(Spots(s, S)) /\ Cardinality(Spots(s, S)) \in Nat
  BY SpotsFinite
<1>3. CASE x \in S
  <2>1. Spots(Append(s, x), S) = Spots(s, S) \cup {Len(s) + 1} /\ Len(s) + 1 \notin Spots(s, S)
    BY <1>1, <1>3 DEF Spots
  <2> QED
    BY <1>2, <1>3, <2>1, OneMore
<1>4. CASE x \notin S
  <2>1. Spots(Append(s, x), S) = Spots(s, S)
    BY <1>1, <1>4 DEF Spots
  <2> QED
    BY <1>2, <1>4, <2>1
<1> QED
  BY <1>3, <1>4

(* ... and one less when the first element was in S and is taken away.      *)
LEMMA SpotsTail ==
    ASSUME FiniteSetFacts, NEW B, NEW s \in Seq(B), s # <<>>, NEW S
    PROVE  Cardinality(Spots(Tail(s), S))
              = Cardinality(Spots(s, S)) - (IF Head(s) \in S THEN 1 ELSE 0)
<1>1. /\ Tail(s) \in Seq(B) /\ Len(Tail(s)) = Len(s) - 1 /\ Len(s) \in Nat /\ Len(s) > 0
      /\ \A k \in 1..(Len(s) - 1) : Tail(s)[k] = s[k + 1]
      /\ Head(s) = s[1]
  OBVIOUS
<1> DEFINE T == Spots(Tail(s), S)
           U == Spots(s, S) \ {1}
           f == [j \in T |-> j + 1]
<1>2. IsFiniteSet(T) /\ IsFiniteSet(Spots(s, S)) /\ Cardinality(Spots(s, S)) \in Nat
  BY <1>1, SpotsFinite
<1>3. T \subseteq 1..(Len(s) - 1) /\ \A j \in T : j + 1 \in U
  BY <1>1 DEF Spots
<1>4. \A k \in U : k - 1 \in T
  BY <1>1 DEF Spots
<1>5. f \in [T -> U] /\ \A j \in T : f[j] = j + 1
  BY <1>3
<1>6. Cardinality(U) = Cardinality(T)
  <2>1. \A a, b \in T : f[a] = f[b] => a = b
    BY <1>1, <1>3, <1>5
  <2>2. \A k \in U : \E j \in T : f[j] = k
    <3>1. ASSUME NEW k \in U PROVE f[k - 1] = k
      BY <1>1, <1>4, <1>5 DEF Spots
    <3> QED
      BY <1>4, <3>1
  <2>3. IsFiniteSet(T) /\ f \in [T -> U]
    BY <1>2, <1>5
  <2> HIDE DEF T, U, f
  <2> QED
    BY <2>1, <2>2, <2>3, OneToOne, Zenon
<1>7. CASE Head(s) \in S
  <2>1. 1 \in Spots(s, S)
    BY <1>1, <1>7 DEF Spots
  <2> QED
    BY <1>2, <1>6, <1>7, <2>1, OneLess
<1>8. CASE Head(s) \notin S
  <2>1. U = Spots(s, S)
    BY <1>1, <1>8 DEF Spots
  <2>2. Cardinality(T) = Cardinality(Spots(s, S))
    BY <1>6, <2>1
  <2> QED
    BY <1>2, <1>8, <2>2
<1> QED
  BY <1>7, <1>8
=============================================================================
