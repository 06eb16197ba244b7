---------------------------- MODULE DataTheorems ----------------------------
(***************************************************************************)
(* Facts about the data the modules compute with.                          *)
(*                                                                         *)
(* Induction is stated for a set instead of a predicate: NatSetInduction,  *)
(* FiniteSetInduction and SeqSetInduction say that a set which contains    *)
(* the first element and is closed under the step contains everything, and *)
(* a proof names the set of the elements its claim holds of.  They rest on *)
(* the least element of a non-empty set of naturals.                       *)
(*                                                                         *)
(* The sums of the modules are SumFunctionOnSet(f, S), the sum of f[x] over*)
(* x \in S, which the library defines with a recursive function over the   *)
(* subsets of S.                                                           *)
(***************************************************************************)
EXTENDS Integers, Sequences, FiniteSets, Functions, Selection, FiniteSetTheorems, TLAPS

(* A non-empty set of naturals has a least element. *)
LEMMA NatSetMin ==
    ASSUME NEW T \in SUBSET Nat, T # {}
    PROVE  \E n \in T : \A m \in T : n <= m
<1> DEFINE R == {ss \in Nat \X Nat : ss[1] < ss[2]}
<1>1. OpToRel(<, Nat) = R
  BY Zenon DEF OpToRel
<1>2. PICK n \in T : \A m \in T : ~ (<<m, n>> \in R)
  <2>1. IsWellFoundedOn(R, Nat)
    BY <1>1, NatLessThanWellFounded, Zenon
  <2> HIDE DEF R
  <2> QED BY <2>1, WFMin, Zenon
<1>3. ASSUME NEW m \in T PROVE n <= m
  <2>1. m \in Nat /\ n \in Nat
    OBVIOUS
  <2>2. <<m, n>>[1] = m /\ <<m, n>>[2] = n /\ <<m, n>> \in Nat \X Nat
    BY <2>1
  <2>3. ~ (m < n)
    BY <1>2, <2>2, Zenon
  <2> QED BY <2>1, <2>3
<1> QED BY <1>3

(* A set with 0 that is closed under successor is the set of naturals. *)
LEMMA NatSetInduction ==
    ASSUME NEW T \in SUBSET Nat, 0 \in T, \A n \in T : n + 1 \in T
    PROVE  T = Nat
<1>1. SUFFICES ASSUME Nat \ T # {} PROVE FALSE
  OBVIOUS
<1>2. PICK n \in Nat \ T : \A m \in Nat \ T : n <= m
  BY <1>1, NatSetMin
<1>3. n - 1 \in T
  BY <1>2
<1> QED BY <1>2, <1>3

(* A set of sets that has {} and is closed under adding one element of S has *)
(* the finite set S.                                                         *)
LEMMA FiniteSetInduction ==
    ASSUME NEW S, IsFiniteSet(S), NEW G, {} \in G,
           \A T \in SUBSET S : \A x \in S \ T : T \in G => T \cup {x} \in G
    PROVE  S \in G
<1> DEFINE Good == {n \in Nat : \A T \in SUBSET S : Cardinality(T) = n => T \in G}
<1>1. 0 \in Good
  BY FS_EmptySet, FS_Subset
<1>2. ASSUME NEW n \in Good PROVE n + 1 \in Good
  <2> SUFFICES ASSUME NEW T \in SUBSET S, Cardinality(T) = n + 1 PROVE T \in G
    OBVIOUS
  <2>1. IsFiniteSet(T) /\ n \in Nat
    BY FS_Subset
  <2>2. PICK x \in T : TRUE
    BY <2>1, FS_EmptySet
  <2>3. Cardinality(T \ {x}) = n
    <3>1. Cardinality(T \ {x}) = Cardinality(T) - 1
      BY <2>1, <2>2, FS_RemoveElement
    <3> QED BY <2>1, <3>1
  <2>4. T \ {x} \in G
    BY <2>3, <2>1
  <2>5. (T \ {x}) \cup {x} \in G
    BY <2>4
  <2>6. (T \ {x}) \cup {x} = T
    OBVIOUS
  <2> QED BY <2>5, <2>6
<1>3. Good = Nat
  <2> HIDE DEF Good
  <2>1. Good \in SUBSET Nat
    BY DEF Good
  <2> QED BY <1>1, <1>2, <2>1, NatSetInduction
<1> QED BY <1>3, FS_CardinalityType

(* A finite set of integers has a least and a greatest element. *)
LEMMA IntSetBounds ==
    ASSUME NEW S, IsFiniteSet(S), S \subseteq Int, S # {}
    PROVE  \E low, high \in S : \A x \in S : low <= x /\ x <= high
<1> DEFINE Bounded(T) == T # {} => \E low, high \in T : \A x \in T : low <= x /\ x <= high
           Good == {T \in SUBSET S : Bounded(T)}
<1>1. {} \in Good
  OBVIOUS
<1>2. ASSUME NEW T \in SUBSET S, NEW x \in S \ T, T \in Good PROVE T \cup {x} \in Good
  <2>1. CASE T = {}
    <3>1. Bounded({x})
      <4>1. x \in Int /\ x <= x
        OBVIOUS
      <4> QED BY <4>1
    <3> QED BY <2>1, <3>1
  <2>2. CASE T # {}
    <3>1. PICK low \in T, high \in T : \A y \in T : low <= y /\ y <= high
      BY <1>2, <2>2
    <3>2. low \in Int /\ high \in Int /\ x \in Int
      OBVIOUS
    <3>3. PICK l, h : l = (IF x <= low THEN x ELSE low) /\ h = (IF x >= high THEN x ELSE high)
      OBVIOUS
    <3>4. l \in T \cup {x} /\ h \in T \cup {x}
      BY <3>3
    <3>5. ASSUME NEW y \in T \cup {x} PROVE l <= y /\ y <= h
      <4>1. y \in Int /\ (y = x \/ (low <= y /\ y <= high))
        BY <3>1
      <4> QED BY <3>2, <3>3, <4>1
    <3>6. Bounded(T \cup {x})
      BY <3>4, <3>5
    <3> QED BY <3>6
  <2> QED BY <2>1, <2>2
<1>3. S \in Good
  <2> HIDE DEF Good
  <2> QED BY <1>1, <1>2, FiniteSetInduction
<1> QED BY <1>3

(* The element the library takes first, and its recursive function. *)
Pick(S) == CHOOSE x \in S : TRUE
IsSum(g, f, S) ==
    g = [s \in SUBSET S |-> IF s = {} THEN 0 ELSE f[Pick(s)] + g[s \ {Pick(s)}]]

(* SumFunctionOnSet, with its recursive function spelled out. *)
LEMMA SumIsTheFold ==
    ASSUME NEW f, NEW S
    PROVE  SumFunctionOnSet(f, S) = (CHOOSE g : IsSum(g, f, S))[S]
BY DEF SumFunctionOnSet, FoldFunctionOnSet, MapThenFoldSet, IsSum, Pick

(* On a finite set the recursive function exists: one that is right for the  *)
(* subsets of up to n elements gives one that is right for n + 1.            *)
LEMMA SumExists ==
    ASSUME NEW S, IsFiniteSet(S), NEW f
    PROVE  \E g : IsSum(g, f, S)
<1> DEFINE Correct(h, s) == h[s] = IF s = {} THEN 0 ELSE f[Pick(s)] + h[s \ {Pick(s)}]
           Good == {n \in Nat : \E h : \A s \in SUBSET S : Cardinality(s) <= n => Correct(h, s)}
<1>1. 0 \in Good
  <2> DEFINE h == [s \in SUBSET S |-> 0]
  <2>1. ASSUME NEW s \in SUBSET S, Cardinality(s) <= 0 PROVE s = {}
    <3>1. IsFiniteSet(s) /\ Cardinality(s) \in Nat
      BY FS_Subset, FS_CardinalityType
    <3> QED BY <2>1, <3>1, FS_EmptySet
  <2>2. \A s \in SUBSET S : Cardinality(s) <= 0 => Correct(h, s)
    BY <2>1
  <2> QED BY <2>2
<1>2. ASSUME NEW n \in Good PROVE n + 1 \in Good
  <2>1. PICK h : \A s \in SUBSET S : Cardinality(s) <= n => Correct(h, s)
    OBVIOUS
  <2> DEFINE k == [s \in SUBSET S |-> IF Cardinality(s) <= n THEN h[s]
                                      ELSE f[Pick(s)] + h[s \ {Pick(s)}]]
  <2>2. ASSUME NEW s \in SUBSET S, Cardinality(s) <= n + 1
        PROVE  Correct(k, s)
    <3>1. n \in Nat /\ IsFiniteSet(s) /\ Cardinality(s) \in Nat
      BY FS_Subset, FS_CardinalityType
    <3>2. CASE s = {}
      <4>1. Cardinality(s) <= n
        BY <3>1, <3>2, FS_EmptySet
      <4>2. k[s] = h[s] /\ Correct(h, s)
        BY <4>1, <2>1
      <4> QED BY <4>2, <3>2
    <3>3. CASE s # {}
      <4> DEFINE r == s \ {Pick(s)}
      <4>1. Pick(s) \in s
        BY <3>3 DEF Pick
      <4>2. Cardinality(r) = Cardinality(s) - 1 /\ r \in SUBSET S
        BY <4>1, <3>1, FS_RemoveElement
      <4>3. Cardinality(r) <= n
        BY <4>2, <3>1, <2>2
      <4>4. k[r] = h[r]
        BY <4>2, <4>3
      <4>5. k[s] = f[Pick(s)] + h[r]
        <5>1. CASE Cardinality(s) <= n
          BY <5>1, <2>1, <3>3
        <5>2. CASE ~ (Cardinality(s) <= n)
          BY <5>2
        <5> QED BY <5>1, <5>2
      <4> QED BY <4>4, <4>5, <3>3
    <3> QED BY <3>2, <3>3
  <2>3. n + 1 \in Nat
    OBVIOUS
  <2> HIDE DEF k
  <2> QED BY <2>2, <2>3
<1>3. Good = Nat
  <2> HIDE DEF Good
  <2>1. Good \in SUBSET Nat
    BY DEF Good
  <2> QED BY <1>1, <1>2, <2>1, NatSetInduction
<1>4. Cardinality(S) \in Good
  BY <1>3, FS_CardinalityType
<1>5. PICK h : \A s \in SUBSET S : Cardinality(s) <= Cardinality(S) => Correct(h, s)
  BY <1>4
<1> DEFINE g == [s \in SUBSET S |-> h[s]]
<1>6. ASSUME NEW s \in SUBSET S
      PROVE  h[s] = IF s = {} THEN 0 ELSE f[Pick(s)] + g[s \ {Pick(s)}]
  <2>1. Cardinality(s) <= Cardinality(S)
    BY FS_Subset
  <2>2. Correct(h, s)
    BY <1>5, <2>1
  <2>3. s \ {Pick(s)} \in SUBSET S
    OBVIOUS
  <2> QED BY <2>2, <2>3
<1>7. IsSum(g, f, S)
  BY <1>6 DEF IsSum
<1> QED BY <1>7

(* The recursive functions of a set and of a subset agree on the subset. *)
LEMMA SumUnique ==
    ASSUME NEW S, IsFiniteSet(S), NEW T \in SUBSET S, NEW f, NEW g, NEW h,
           IsSum(g, f, S), IsSum(h, f, T)
    PROVE  g[T] = h[T]
<1> DEFINE Good == {n \in Nat : \A s \in SUBSET T : Cardinality(s) = n => g[s] = h[s]}
<1>0. IsFiniteSet(T)
  BY FS_Subset
<1>1. 0 \in Good
  <2>1. ASSUME NEW s \in SUBSET T, Cardinality(s) = 0 PROVE g[s] = h[s]
    <3>1. s = {}
      BY <2>1, <1>0, FS_Subset, FS_EmptySet
    <3> QED BY <3>1 DEF IsSum
  <2> QED BY <2>1
<1>2. ASSUME NEW n \in Good PROVE n + 1 \in Good
  <2>1. ASSUME NEW s \in SUBSET T, Cardinality(s) = n + 1 PROVE g[s] = h[s]
    <3> DEFINE r == s \ {Pick(s)}
    <3>1. IsFiniteSet(s) /\ n \in Nat
      BY <1>0, FS_Subset
    <3>2. s # {}
      BY <3>1, <2>1, FS_EmptySet
    <3>3. Pick(s) \in s
      BY <3>2 DEF Pick
    <3>4. Cardinality(r) = Cardinality(s) - 1 /\ r \in SUBSET T
      BY <3>1, <3>3, FS_RemoveElement
    <3>5. Cardinality(r) = n
      BY <3>4, <3>1, <2>1
    <3>6. g[r] = h[r]
      BY <3>4, <3>5
    <3>7. g[s] = f[Pick(s)] + g[r]
      BY <3>2 DEF IsSum
    <3>8. h[s] = f[Pick(s)] + h[r]
      BY <3>2 DEF IsSum
    <3> QED BY <3>6, <3>7, <3>8
  <2> QED BY <2>1
<1>3. Good = Nat
  <2> HIDE DEF Good
  <2>1. Good \in SUBSET Nat
    BY DEF Good
  <2> QED BY <1>1, <1>2, <2>1, NatSetInduction
<1> QED BY <1>0, <1>3, FS_CardinalityType

(* The sum satisfies the equation that defines it. *)
LEMMA SumEquation ==
    ASSUME NEW S, IsFiniteSet(S), NEW f
    PROVE  SumFunctionOnSet(f, S) =
             IF S = {} THEN 0
             ELSE f[Pick(S)] + SumFunctionOnSet(f, S \ {Pick(S)})
<1> DEFINE r == S \ {Pick(S)}
<1>1. IsFiniteSet(r) /\ r \in SUBSET S
  BY FS_RemoveElement
<1>2. PICK g : IsSum(g, f, S) /\ SumFunctionOnSet(f, S) = g[S]
  BY SumExists, SumIsTheFold
<1>3. PICK h : IsSum(h, f, r) /\ SumFunctionOnSet(f, r) = h[r]
  BY <1>1, SumExists, SumIsTheFold
<1>4. g[r] = h[r]
  BY <1>1, <1>2, <1>3, SumUnique
<1>5. g[S] = IF S = {} THEN 0 ELSE f[Pick(S)] + g[r]
  BY <1>2 DEF IsSum
<1> QED BY <1>2, <1>3, <1>4, <1>5

(* A sum of integers is an integer. *)
LEMMA SumType ==
    ASSUME NEW S, IsFiniteSet(S), NEW f, \A s \in S : f[s] \in Int
    PROVE  SumFunctionOnSet(f, S) \in Int
<1> DEFINE Good == {n \in Nat : \A T \in SUBSET S :
                       Cardinality(T) = n => SumFunctionOnSet(f, T) \in Int}
<1>1. 0 \in Good
  <2>1. ASSUME NEW T \in SUBSET S, Cardinality(T) = 0 PROVE SumFunctionOnSet(f, T) \in Int
    <3>1. IsFiniteSet(T) /\ T = {}
      BY <2>1, FS_Subset, FS_EmptySet
    <3>2. SumFunctionOnSet(f, T) = 0
      BY <3>1, SumEquation
    <3> QED BY <3>2
  <2> QED BY <2>1
<1>2. ASSUME NEW n \in Good PROVE n + 1 \in Good
  <2>1. ASSUME NEW T \in SUBSET S, Cardinality(T) = n + 1
        PROVE  SumFunctionOnSet(f, T) \in Int
    <3> DEFINE r == T \ {Pick(T)}
    <3>1. IsFiniteSet(T) /\ n \in Nat
      BY FS_Subset
    <3>2. T # {} /\ Pick(T) \in T
      BY <3>1, <2>1, FS_EmptySet DEF Pick
    <3>3. r \in SUBSET S /\ Cardinality(r) = Cardinality(T) - 1
      BY <3>1, <3>2, FS_RemoveElement
    <3>4. SumFunctionOnSet(f, r) \in Int
      BY <3>3, <3>1, <2>1
    <3>5. SumFunctionOnSet(f, T) = f[Pick(T)] + SumFunctionOnSet(f, r)
      BY <3>1, <3>2, SumEquation
    <3>6. f[Pick(T)] \in Int
      BY <3>2
    <3> QED BY <3>4, <3>5, <3>6
  <2> QED BY <2>1
<1>3. Good = Nat
  <2> HIDE DEF Good
  <2>1. Good \in SUBSET Nat
    BY DEF Good
  <2> QED BY <1>1, <1>2, <2>1, NatSetInduction
<1> QED BY <1>3, FS_CardinalityType

(* Nothing sums to 0. *)
LEMMA SumEmpty == \A f : SumFunctionOnSet(f, {}) = 0
BY FS_EmptySet, SumEquation

(* The order of summation does not matter: any element may be taken out. *)
LEMMA SumRemove ==
    ASSUME NEW S, IsFiniteSet(S), NEW f, \A s \in S : f[s] \in Int, NEW x \in S
    PROVE  SumFunctionOnSet(f, S) = f[x] + SumFunctionOnSet(f, S \ {x})
<1> DEFINE Splits(T) == \A y \in T :
              SumFunctionOnSet(f, T) = f[y] + SumFunctionOnSet(f, T \ {y})
           Good == {n \in Nat : \A T \in SUBSET S : Cardinality(T) = n => Splits(T)}
<1>1. 0 \in Good
  <2>1. ASSUME NEW T \in SUBSET S, Cardinality(T) = 0 PROVE T = {}
    BY <2>1, FS_Subset, FS_EmptySet
  <2> QED BY <2>1
<1>2. ASSUME NEW n \in Good PROVE n + 1 \in Good
  <2>1. ASSUME NEW T \in SUBSET S, Cardinality(T) = n + 1, NEW y \in T
        PROVE  SumFunctionOnSet(f, T) = f[y] + SumFunctionOnSet(f, T \ {y})
    <3> DEFINE c == Pick(T)
    <3>1. IsFiniteSet(T) /\ n \in Nat /\ c \in T
      BY FS_Subset DEF Pick
    <3>2. SumFunctionOnSet(f, T) = f[c] + SumFunctionOnSet(f, T \ {c})
      BY <3>1, SumEquation
    <3>3. CASE y = c
      BY <3>2, <3>3
    <3>4. CASE y # c
      <4> HIDE DEF c
      <4>1. T \ {c} \in SUBSET S /\ IsFiniteSet(T \ {c}) /\ Cardinality(T \ {c}) = Cardinality(T) - 1
        BY <3>1, FS_RemoveElement
      <4>2. T \ {y} \in SUBSET S /\ IsFiniteSet(T \ {y}) /\ Cardinality(T \ {y}) = Cardinality(T) - 1
        BY <3>1, FS_RemoveElement
      <4>3. Splits(T \ {c}) /\ Splits(T \ {y})
        BY <4>1, <4>2, <3>1, <2>1
      <4>4. SumFunctionOnSet(f, T \ {c}) = f[y] + SumFunctionOnSet(f, (T \ {c}) \ {y})
        BY <4>3, <3>4
      <4>5. SumFunctionOnSet(f, T \ {y}) = f[c] + SumFunctionOnSet(f, (T \ {y}) \ {c})
        BY <4>3, <3>4, <3>1
      <4>6. (T \ {c}) \ {y} = (T \ {y}) \ {c}
        OBVIOUS
      <4>7. SumFunctionOnSet(f, (T \ {c}) \ {y}) \in Int
        <5>1. IsFiniteSet((T \ {c}) \ {y})
          BY <4>1, FS_RemoveElement
        <5> QED BY <5>1, SumType
      <4>8. PICK q \in Int : q = SumFunctionOnSet(f, (T \ {c}) \ {y})
        BY <4>7
      <4>9. PICK a \in Int, b \in Int : a = f[c] /\ b = f[y]
        BY <3>1
      <4>10. SumFunctionOnSet(f, T) = a + (b + q)
        BY <3>2, <4>4, <4>8, <4>9
      <4>11. SumFunctionOnSet(f, T \ {y}) = a + q
        BY <4>5, <4>6, <4>8, <4>9, Zenon
      <4>12. a + (b + q) = b + (a + q)
        OBVIOUS
      <4> QED BY <4>9, <4>10, <4>11, <4>12, Zenon
    <3> QED BY <3>3, <3>4
  <2> QED BY <2>1
<1>3. Good = Nat
  <2> HIDE DEF Good
  <2>1. Good \in SUBSET Nat
    BY DEF Good
  <2> QED BY <1>1, <1>2, <2>1, NatSetInduction
<1>4. Splits(S)
  BY <1>3, FS_CardinalityType
<1> QED BY <1>4

(* One more element adds its value. *)
LEMMA SumAdd ==
    ASSUME NEW S, IsFiniteSet(S), NEW x, x \notin S, NEW f,
           \A s \in S \cup {x} : f[s] \in Int
    PROVE  SumFunctionOnSet(f, S \cup {x}) = f[x] + SumFunctionOnSet(f, S)
<1>1. IsFiniteSet(S \cup {x}) /\ x \in S \cup {x}
  BY FS_AddElement
<1>2. (S \cup {x}) \ {x} = S
  OBVIOUS
<1>3. SumFunctionOnSet(f, S \cup {x}) = f[x] + SumFunctionOnSet(f, (S \cup {x}) \ {x})
  BY <1>1, SumRemove
<1> QED BY <1>2, <1>3

(* The sum depends on the values on S only. *)
LEMMA SumAgree ==
    ASSUME NEW S, IsFiniteSet(S), NEW f, NEW g,
           \A s \in S : f[s] \in Int /\ g[s] = f[s]
    PROVE  SumFunctionOnSet(g, S) = SumFunctionOnSet(f, S)
<1> DEFINE Good == {T \in SUBSET S : SumFunctionOnSet(g, T) = SumFunctionOnSet(f, T)}
<1>1. {} \in Good
  BY SumEmpty
<1>2. ASSUME NEW T \in SUBSET S, NEW x \in S \ T, T \in Good
      PROVE  T \cup {x} \in Good
  <2>1. IsFiniteSet(T)
    BY FS_Subset
  <2>2. SumFunctionOnSet(g, T \cup {x}) = g[x] + SumFunctionOnSet(g, T)
    BY <2>1, SumAdd
  <2>3. SumFunctionOnSet(f, T \cup {x}) = f[x] + SumFunctionOnSet(f, T)
    BY <2>1, SumAdd
  <2> QED BY <1>2, <2>2, <2>3
<1>3. S \in Good
  <2> HIDE DEF Good
  <2> QED BY <1>1, <1>2, FiniteSetInduction
<1> QED BY <1>3

(* Changing one value changes the sum by the difference. *)
LEMMA SumUpdate ==
    ASSUME NEW S, IsFiniteSet(S), NEW f, NEW g, NEW x \in S,
           \A s \in S : f[s] \in Int /\ g[s] \in Int,
           \A s \in S \ {x} : g[s] = f[s]
    PROVE  SumFunctionOnSet(g, S) = SumFunctionOnSet(f, S) - f[x] + g[x]
<1>1. IsFiniteSet(S \ {x})
  BY FS_RemoveElement
<1>2. SumFunctionOnSet(g, S \ {x}) = SumFunctionOnSet(f, S \ {x})
  BY <1>1, SumAgree
<1>3. SumFunctionOnSet(f, S \ {x}) \in Int
  BY <1>1, SumType
<1>4. SumFunctionOnSet(f, S) = f[x] + SumFunctionOnSet(f, S \ {x})
  BY SumRemove
<1>5. SumFunctionOnSet(g, S) = g[x] + SumFunctionOnSet(g, S \ {x})
  BY SumRemove
<1>6. f[x] \in Int /\ g[x] \in Int
  OBVIOUS
<1> QED BY <1>2, <1>3, <1>4, <1>5, <1>6

(* A sum of naturals is a natural. *)
LEMMA SumNonNegative ==
    ASSUME NEW S, IsFiniteSet(S), NEW f, \A s \in S : f[s] \in Nat
    PROVE  SumFunctionOnSet(f, S) \in Nat
<1> DEFINE Good == {T \in SUBSET S : SumFunctionOnSet(f, T) \in Nat}
<1>1. {} \in Good
  BY SumEmpty
<1>2. ASSUME NEW T \in SUBSET S, NEW x \in S \ T, T \in Good
      PROVE  T \cup {x} \in Good
  <2>1. IsFiniteSet(T) /\ f[x] \in Nat
    BY FS_Subset
  <2>2. SumFunctionOnSet(f, T \cup {x}) = f[x] + SumFunctionOnSet(f, T)
    BY <2>1, SumAdd
  <2> QED BY <1>2, <2>1, <2>2
<1>3. S \in Good
  <2> HIDE DEF Good
  <2> QED BY <1>1, <1>2, FiniteSetInduction
<1> QED BY <1>3


(* A sum of zeros is 0. *)
LEMMA SumZero ==
    ASSUME NEW S, IsFiniteSet(S), NEW f, \A s \in S : f[s] = 0
    PROVE  SumFunctionOnSet(f, S) = 0
<1> DEFINE Good == {T \in SUBSET S : SumFunctionOnSet(f, T) = 0}
<1>1. {} \in Good
  BY SumEmpty
<1>2. ASSUME NEW T \in SUBSET S, NEW x \in S \ T, T \in Good
      PROVE  T \cup {x} \in Good
  <2>1. IsFiniteSet(T)
    BY FS_Subset
  <2>2. x \notin T /\ f[x] = 0 /\ \A s \in T \cup {x} : f[s] \in Int
    OBVIOUS
  <2> HIDE DEF Good
  <2>3. SumFunctionOnSet(f, T \cup {x}) = f[x] + SumFunctionOnSet(f, T)
    BY <2>1, <2>2, SumAdd
  <2>4. SumFunctionOnSet(f, T) = 0
    BY <1>2 DEF Good
  <2>5. SumFunctionOnSet(f, T \cup {x}) = 0
    BY <2>2, <2>3, <2>4
  <2> QED BY <2>5 DEF Good
<1>3. S \in Good
  <2> HIDE DEF Good
  <2> QED BY <1>1, <1>2, FiniteSetInduction
<1> QED BY <1>3

-----------------------------------------------------------------------------
(* The sum over two disjoint sets. *)
LEMMA SumUnion ==
    ASSUME NEW S, IsFiniteSet(S), NEW T, IsFiniteSet(T), S \cap T = {}, NEW f,
           \A s \in S \cup T : f[s] \in Int
    PROVE  SumFunctionOnSet(f, S \cup T) = SumFunctionOnSet(f, S) + SumFunctionOnSet(f, T)
<1> DEFINE Good == {U \in SUBSET T : SumFunctionOnSet(f, S \cup U)
                                       = SumFunctionOnSet(f, S) + SumFunctionOnSet(f, U)}
<1>0. SumFunctionOnSet(f, S) \in Int
  BY SumType
<1>1. {} \in Good
  <2>1. S \cup {} = S
    OBVIOUS
  <2> QED BY <1>0, <2>1, SumEmpty
<1>2. ASSUME NEW U \in SUBSET T, NEW x \in T \ U, U \in Good
      PROVE  U \cup {x} \in Good
  <2>1. IsFiniteSet(U) /\ IsFiniteSet(S \cup U) /\ x \notin S \cup U
    BY FS_Subset, FS_Union
  <2>2. SumFunctionOnSet(f, U \cup {x}) = f[x] + SumFunctionOnSet(f, U)
    BY <2>1, SumAdd
  <2>3. SumFunctionOnSet(f, (S \cup U) \cup {x}) = f[x] + SumFunctionOnSet(f, S \cup U)
    BY <2>1, SumAdd
  <2>4. (S \cup U) \cup {x} = S \cup (U \cup {x})
    OBVIOUS
  <2>5. f[x] \in Int /\ SumFunctionOnSet(f, U) \in Int
    BY <2>1, SumType
  <2>6. SumFunctionOnSet(f, S \cup U) = SumFunctionOnSet(f, S) + SumFunctionOnSet(f, U)
    BY <1>2
  <2>7. PICK a \in Int, b \in Int, c \in Int :
          a = f[x] /\ b = SumFunctionOnSet(f, S) /\ c = SumFunctionOnSet(f, U)
    BY <1>0, <2>5
  <2>8. SumFunctionOnSet(f, S \cup (U \cup {x})) = a + (b + c)
    BY <2>3, <2>4, <2>6, <2>7
  <2>9. a + (b + c) = b + (a + c)
    OBVIOUS
  <2> QED BY <2>2, <2>7, <2>8, <2>9
<1>3. T \in Good
  <2> HIDE DEF Good
  <2> QED BY <1>1, <1>2, FiniteSetInduction
<1> QED BY <1>3

(* A sum may be taken group by group: h names the group of an element and g  *)
(* holds the sum of each group.                                              *)
LEMMA SumByGroups ==
    ASSUME NEW S, IsFiniteSet(S), NEW f, \A s \in S : f[s] \in Int,
           NEW C, IsFiniteSet(C), NEW h, \A s \in S : h[s] \in C,
           NEW g, \A c \in C : g[c] = SumFunctionOnSet(f, {s \in S : h[s] = c})
    PROVE  SumFunctionOnSet(g, C) = SumFunctionOnSet(f, S)
<1> DEFINE Members(D) == {s \in S : h[s] \in D}
           Good == {D \in SUBSET C : SumFunctionOnSet(g, D) = SumFunctionOnSet(f, Members(D))}
<1>0. ASSUME NEW c \in C
      PROVE  IsFiniteSet({s \in S : h[s] = c}) /\ g[c] \in Int
  <2>1. {s \in S : h[s] = c} \in SUBSET S
    OBVIOUS
  <2>2. IsFiniteSet({s \in S : h[s] = c})
    BY <2>1, FS_Subset
  <2>3. SumFunctionOnSet(f, {s \in S : h[s] = c}) \in Int
    BY <2>2, SumType
  <2> QED BY <2>2, <2>3
<1>1. {} \in Good
  <2>1. Members({}) = {}
    OBVIOUS
  <2> QED BY <2>1, SumEmpty
<1>2. ASSUME NEW D \in SUBSET C, NEW c \in C \ D, D \in Good
      PROVE  D \cup {c} \in Good
  <2> DEFINE A == {s \in S : h[s] = c}
  <2>1. IsFiniteSet(D) /\ IsFiniteSet(A) /\ IsFiniteSet(Members(D))
    BY <1>0, FS_Subset
  <2>2. SumFunctionOnSet(g, D \cup {c}) = g[c] + SumFunctionOnSet(g, D)
    BY <1>0, <2>1, SumAdd
  <2>3. Members(D \cup {c}) = Members(D) \cup A /\ Members(D) \cap A = {}
    OBVIOUS
  <2>4. SumFunctionOnSet(f, Members(D) \cup A)
          = SumFunctionOnSet(f, Members(D)) + SumFunctionOnSet(f, A)
    <3>1. \A s \in Members(D) \cup A : f[s] \in Int
      OBVIOUS
    <3> HIDE DEF Members, A
    <3> QED BY <2>1, <2>3, <3>1, SumUnion
  <2>5. SumFunctionOnSet(f, Members(D)) \in Int
    BY <2>1, SumType
  <2>6. g[c] = SumFunctionOnSet(f, A) /\ g[c] \in Int
    BY <1>0
  <2>7. SumFunctionOnSet(g, D) = SumFunctionOnSet(f, Members(D))
    BY <1>2
  <2>8. SumFunctionOnSet(f, Members(D \cup {c})) = SumFunctionOnSet(f, Members(D)) + g[c]
    BY <2>3, <2>4, <2>6
  <2> HIDE DEF Members, A
  <2>9. SumFunctionOnSet(g, D \cup {c}) = SumFunctionOnSet(f, Members(D \cup {c}))
    BY <2>2, <2>5, <2>6, <2>7, <2>8
  <2> QED BY <2>9
<1>3. C \in Good
  <2> HIDE DEF Good
  <2> QED BY <1>1, <1>2, FiniteSetInduction
<1>4. Members(C) = S
  OBVIOUS
<1> QED BY <1>3, <1>4

(* A sum is at most another one when h matches its elements, no two of them  *)
(* with the same, to elements of the other that are at least as large.       *)
LEMMA SumInjects ==
    ASSUME NEW S, IsFiniteSet(S), NEW f, \A s \in S : f[s] \in Nat,
           NEW T, IsFiniteSet(T), NEW g, \A t \in T : g[t] \in Nat,
           NEW h, \A s \in S : h[s] \in T /\ f[s] <= g[h[s]],
           \A s, r \in S : h[s] = h[r] => s = r
    PROVE  SumFunctionOnSet(f, S) <= SumFunctionOnSet(g, T)
<1> DEFINE Img(U) == {h[s] : s \in U}
           Good == {U \in SUBSET S : SumFunctionOnSet(f, U) <= SumFunctionOnSet(g, Img(U))}
<1>1. {} \in Good
  <2>1. Img({}) = {}
    OBVIOUS
  <2> QED BY <2>1, SumEmpty
<1>2. ASSUME NEW U \in SUBSET S, NEW x \in S \ U, U \in Good
      PROVE  U \cup {x} \in Good
  <2>1. IsFiniteSet(U) /\ Img(U) \in SUBSET T
    BY FS_Subset
  <2>2. IsFiniteSet(Img(U)) /\ h[x] \notin Img(U)
    <3>1. IsFiniteSet(Img(U))
      BY <2>1, FS_Subset
    <3> QED BY <3>1
  <2>3. SumFunctionOnSet(f, U \cup {x}) = f[x] + SumFunctionOnSet(f, U)
    <3>1. \A s \in U \cup {x} : f[s] \in Int
      OBVIOUS
    <3>2. x \notin U
      OBVIOUS
    <3> QED BY <2>1, <3>1, <3>2, SumAdd
  <2>4. SumFunctionOnSet(g, Img(U) \cup {h[x]}) = g[h[x]] + SumFunctionOnSet(g, Img(U))
    <3>1. \A t \in Img(U) \cup {h[x]} : g[t] \in Int
      OBVIOUS
    <3> HIDE DEF Img
    <3> QED BY <2>2, <3>1, SumAdd
  <2>5. Img(U \cup {x}) = Img(U) \cup {h[x]}
    OBVIOUS
  <2>6. SumFunctionOnSet(f, U) \in Int /\ SumFunctionOnSet(g, Img(U)) \in Int
    BY <2>1, <2>2, SumType
  <2>7. f[x] \in Nat /\ g[h[x]] \in Nat /\ f[x] <= g[h[x]]
    OBVIOUS
  <2>8. SumFunctionOnSet(f, U) <= SumFunctionOnSet(g, Img(U))
    BY <1>2
  <2> HIDE DEF Img
  <2>9. PICK a \in Int, b \in Int, c \in Nat, d \in Nat :
          /\ a = SumFunctionOnSet(f, U) /\ b = SumFunctionOnSet(g, Img(U))
          /\ c = f[x] /\ d = g[h[x]]
    BY <2>6, <2>7
  <2>10. a <= b /\ c <= d
    BY <2>7, <2>8, <2>9, Zenon
  <2>11. SumFunctionOnSet(f, U \cup {x}) = c + a
    BY <2>3, <2>9
  <2>12. SumFunctionOnSet(g, Img(U \cup {x})) = d + b
    BY <2>4, <2>5, <2>9
  <2>13. c + a <= d + b
    BY <2>10
  <2>14. SumFunctionOnSet(f, U \cup {x}) <= SumFunctionOnSet(g, Img(U \cup {x}))
    BY <2>11, <2>12, <2>13, Zenon
  <2>15. U \cup {x} \in SUBSET S
    OBVIOUS
  <2> QED BY <2>14, <2>15
<1>3. SumFunctionOnSet(f, S) <= SumFunctionOnSet(g, Img(S))
  <2>1. S \in Good
    <3> HIDE DEF Good
    <3> QED BY <1>1, <1>2, FiniteSetInduction
  <2> QED BY <2>1
<1>4. Img(S) \in SUBSET T
  OBVIOUS
<1>5. IsFiniteSet(Img(S)) /\ IsFiniteSet(T \ Img(S)) /\ Img(S) \cup (T \ Img(S)) = T
  <2> HIDE DEF Img
  <2> QED BY <1>4, FS_Subset, FS_Difference
<1>6. SumFunctionOnSet(g, T) = SumFunctionOnSet(g, Img(S)) + SumFunctionOnSet(g, T \ Img(S))
  <2>1. Img(S) \cap (T \ Img(S)) = {} /\ \A t \in Img(S) \cup (T \ Img(S)) : g[t] \in Int
    BY <1>5
  <2> HIDE DEF Img
  <2> QED BY <1>5, <2>1, SumUnion
<1>7. SumFunctionOnSet(g, Img(S)) \in Nat /\ SumFunctionOnSet(g, T \ Img(S)) \in Nat
  BY <1>4, <1>5, SumNonNegative
<1>8. SumFunctionOnSet(f, S) \in Int
  BY SumType
<1> QED BY <1>3, <1>6, <1>7, <1>8

(* A sum of smaller numbers is smaller. *)
LEMMA SumMonotone ==
    ASSUME NEW S, IsFiniteSet(S), NEW f, NEW g,
           \A s \in S : f[s] \in Nat /\ g[s] \in Nat /\ f[s] <= g[s]
    PROVE  SumFunctionOnSet(f, S) <= SumFunctionOnSet(g, S)
<1> DEFINE h == [s \in S |-> s]
<1>1. \A s \in S : h[s] = s
  OBVIOUS
<1> HIDE DEF h
<1> QED BY <1>1, SumInjects

-----------------------------------------------------------------------------
(* Sums are added element by element. *)
LEMMA SumPlus ==
    ASSUME NEW S, IsFiniteSet(S), NEW f, NEW g, NEW h,
           \A s \in S : f[s] \in Int /\ g[s] \in Int /\ h[s] = f[s] + g[s]
    PROVE  SumFunctionOnSet(h, S) = SumFunctionOnSet(f, S) + SumFunctionOnSet(g, S)
<1> DEFINE Good == {T \in SUBSET S : SumFunctionOnSet(h, T)
                                       = SumFunctionOnSet(f, T) + SumFunctionOnSet(g, T)}
<1>1. {} \in Good
  BY SumEmpty
<1>2. ASSUME NEW T \in SUBSET S, NEW x \in S \ T, T \in Good
      PROVE  T \cup {x} \in Good
  <2>1. IsFiniteSet(T) /\ \A s \in T \cup {x} : f[s] \in Int /\ g[s] \in Int /\ h[s] \in Int
    BY FS_Subset
  <2>2. /\ SumFunctionOnSet(f, T \cup {x}) = f[x] + SumFunctionOnSet(f, T)
        /\ SumFunctionOnSet(g, T \cup {x}) = g[x] + SumFunctionOnSet(g, T)
        /\ SumFunctionOnSet(h, T \cup {x}) = h[x] + SumFunctionOnSet(h, T)
    BY <2>1, SumAdd
  <2>3. PICK a \in Int, b \in Int, c \in Int, d \in Int :
          /\ a = f[x] /\ b = g[x]
          /\ c = SumFunctionOnSet(f, T) /\ d = SumFunctionOnSet(g, T)
    BY <2>1, SumType
  <2>4. h[x] = a + b /\ SumFunctionOnSet(h, T) = c + d
    BY <1>2, <2>3
  <2>5. (a + b) + (c + d) = (a + c) + (b + d)
    OBVIOUS
  <2>6. /\ SumFunctionOnSet(f, T \cup {x}) = a + c
        /\ SumFunctionOnSet(g, T \cup {x}) = b + d
        /\ SumFunctionOnSet(h, T \cup {x}) = (a + b) + (c + d)
    BY <2>2, <2>3, <2>4
  <2>7. T \cup {x} \in SUBSET S
    OBVIOUS
  <2> QED BY <2>5, <2>6, <2>7
<1>3. S \in Good
  <2> HIDE DEF Good
  <2> QED BY <1>1, <1>2, FiniteSetInduction
<1> QED BY <1>3

(* Elements with the value 0 may be left out. *)
LEMMA SumSupport ==
    ASSUME NEW S, IsFiniteSet(S), NEW T \in SUBSET S, NEW f,
           \A s \in T : f[s] \in Int, \A s \in S \ T : f[s] = 0
    PROVE  SumFunctionOnSet(f, S) = SumFunctionOnSet(f, T)
<1>1. IsFiniteSet(T) /\ IsFiniteSet(S \ T) /\ T \cap (S \ T) = {} /\ T \cup (S \ T) = S
  BY FS_Subset, FS_Difference
<1>2. \A s \in T \cup (S \ T) : f[s] \in Int
  OBVIOUS
<1>3. SumFunctionOnSet(f, T \cup (S \ T))
        = SumFunctionOnSet(f, T) + SumFunctionOnSet(f, S \ T)
  BY <1>1, <1>2, SumUnion
<1>4. SumFunctionOnSet(f, S \ T) = 0
  BY <1>1, SumZero
<1>5. SumFunctionOnSet(f, T) \in Int
  BY <1>1, SumType
<1> QED BY <1>1, <1>3, <1>4, <1>5

-----------------------------------------------------------------------------
(***************************************************************************)
(* Sequences and selections from them                                      *)
(***************************************************************************)

(* A set that has the empty sequence and is closed under appending one       *)
(* element of T has every sequence over T.                                   *)
LEMMA SeqSetInduction ==
    ASSUME NEW T, NEW G, << >> \in G,
           \A s \in Seq(T) : \A x \in T : s \in G => Append(s, x) \in G
    PROVE  Seq(T) \subseteq G
<1> DEFINE Good == {n \in Nat : \A s \in Seq(T) : Len(s) = n => s \in G}
<1>1. 0 \in Good
  <2>1. ASSUME NEW s \in Seq(T), Len(s) = 0 PROVE s \in G
    <3>1. s = << >>
      BY <2>1
    <3> QED BY <3>1
  <2> QED BY <2>1
<1>2. ASSUME NEW n \in Good PROVE n + 1 \in Good
  <2>1. ASSUME NEW s \in Seq(T), Len(s) = n + 1 PROVE s \in G
    <3> DEFINE r == SubSeq(s, 1, n)
    <3>1. n \in Nat
      OBVIOUS
    <3>2. r \in Seq(T) /\ Len(r) = n /\ s[n + 1] \in T
      BY <2>1, <3>1
    <3>3. s = Append(r, s[n + 1])
      BY <2>1, <3>1
    <3>4. r \in G
      BY <3>2
    <3> QED BY <3>2, <3>3, <3>4
  <2> QED BY <2>1
<1>3. Good = Nat
  <2> HIDE DEF Good
  <2>1. Good \in SUBSET Nat
    BY DEF Good
  <2> QED BY <1>1, <1>2, <2>1, NatSetInduction
<1>4. ASSUME NEW s \in Seq(T) PROVE s \in G
  <2>1. Len(s) \in Good
    BY <1>3
  <2> QED BY <2>1
<1> QED BY <1>4

\* What the recursive function has to be.
IsSelectedUpTo(f, s, S) ==
    f = [n \in 0 .. Len(s) |->
            IF n = 0 THEN << >>
            ELSE IF s[n] \in S THEN Append(f[n - 1], s[n]) ELSE f[n - 1]]

(* The function exists: it is extended element by element. *)
LEMMA SelectedUpToExists ==
    ASSUME NEW T, NEW s \in Seq(T), NEW S
    PROVE  \E f : IsSelectedUpTo(f, s, S)
<1> DEFINE Right(f, n) == f[n] = IF n = 0 THEN << >>
                                 ELSE IF s[n] \in S THEN Append(f[n - 1], s[n]) ELSE f[n - 1]
           Good == {n \in Nat : \E f : \A k \in 0 .. n : Right(f, k)}
<1>1. 0 \in Good
  <2>1. \A k \in 0 .. 0 : Right([n \in {0} |-> << >>], k)
    OBVIOUS
  <2> QED BY <2>1
<1>2. ASSUME NEW n \in Good PROVE n + 1 \in Good
  <2>1. PICK f : \A k \in 0 .. n : Right(f, k)
    OBVIOUS
  <2> DEFINE g == [k \in 0 .. n + 1 |->
                      IF k = n + 1 THEN IF s[k] \in S THEN Append(f[n], s[k]) ELSE f[n]
                      ELSE f[k]]
  <2>2. ASSUME NEW k \in 0 .. n + 1 PROVE Right(g, k)
    <3>1. n \in Nat /\ k \in Nat
      OBVIOUS
    <3>2. CASE k = n + 1
      <4>1. g[k] = IF s[k] \in S THEN Append(f[n], s[k]) ELSE f[n]
        BY <3>1, <3>2
      <4>2. g[k - 1] = f[n] /\ k # 0
        BY <3>1, <3>2
      <4> QED BY <4>1, <4>2
    <3>3. CASE k # n + 1
      <4>1. k \in 0 .. n
        BY <3>1, <3>3
      <4>2. g[k] = f[k] /\ (k # 0 => g[k - 1] = f[k - 1])
        BY <3>1, <4>1
      <4>3. Right(f, k)
        BY <2>1, <4>1
      <4> HIDE DEF g
      <4> QED BY <4>2, <4>3
    <3> QED BY <3>2, <3>3
  <2>3. n + 1 \in Nat
    OBVIOUS
  <2> HIDE DEF g
  <2> QED BY <2>2, <2>3
<1>3. Good = Nat
  <2> HIDE DEF Good
  <2>1. Good \in SUBSET Nat
    BY DEF Good
  <2> QED BY <1>1, <1>2, <2>1, NatSetInduction
<1>4. Len(s) \in Good
  <2>1. Len(s) \in Nat
    OBVIOUS
  <2> HIDE DEF Good
  <2> QED BY <1>3, <2>1
<1>5. PICK f : \A k \in 0 .. Len(s) : Right(f, k)
  BY <1>4
<1> DEFINE h == [n \in 0 .. Len(s) |-> f[n]]
<1>6. ASSUME NEW n \in 0 .. Len(s)
      PROVE  f[n] = IF n = 0 THEN << >>
                    ELSE IF s[n] \in S THEN Append(h[n - 1], s[n]) ELSE h[n - 1]
  <2>1. Right(f, n)
    BY <1>5
  <2>2. n # 0 => h[n - 1] = f[n - 1]
    OBVIOUS
  <2> HIDE DEF h
  <2> QED BY <2>1, <2>2
<1>7. IsSelectedUpTo(h, s, S)
  BY <1>6 DEF IsSelectedUpTo
<1> QED BY <1>7

LEMMA SelectedUpToEquation ==
    ASSUME NEW T, NEW s \in Seq(T), NEW S, NEW n \in 0 .. Len(s)
    PROVE  SelectedUpTo(s, S)[n] =
               IF n = 0 THEN << >>
               ELSE IF s[n] \in S THEN Append(SelectedUpTo(s, S)[n - 1], s[n])
                    ELSE SelectedUpTo(s, S)[n - 1]
<1>1. SelectedUpTo(s, S) = CHOOSE f : IsSelectedUpTo(f, s, S)
  BY DEF SelectedUpTo, IsSelectedUpTo
<1>2. IsSelectedUpTo(SelectedUpTo(s, S), s, S)
  BY <1>1, SelectedUpToExists
<1>3. PICK f : f = SelectedUpTo(s, S)
  OBVIOUS
<1> QED BY <1>2, <1>3 DEF IsSelectedUpTo

LEMMA SelectedEmpty ==
    ASSUME NEW S PROVE Selected(<< >>, S) = << >>
<1>1. << >> \in Seq({})
  OBVIOUS
<1>2. ASSUME NEW s \in Seq({}) PROVE SelectedUpTo(s, S)[0] = << >>
  <2>1. 0 \in 0 .. Len(s)
    OBVIOUS
  <2> QED BY <2>1, SelectedUpToEquation
<1>3. Len(<< >>) = 0
  OBVIOUS
<1>4. Selected(<< >>, S) = SelectedUpTo(<< >>, S)[Len(<< >>)]
  BY DEF Selected
<1> QED BY <1>1, <1>2, <1>3, <1>4

(* Up to the length of s, an appended element makes no difference. *)
LEMMA SelectedUpToAgree ==
    ASSUME NEW T, NEW s \in Seq(T), NEW x \in T, NEW S
    PROVE  \A n \in 0 .. Len(s) : SelectedUpTo(Append(s, x), S)[n] = SelectedUpTo(s, S)[n]
<1> DEFINE t == Append(s, x)
           Good == {n \in Nat : n <= Len(s) => SelectedUpTo(t, S)[n] = SelectedUpTo(s, S)[n]}
<1>0. t \in Seq(T) /\ Len(t) = Len(s) + 1 /\ \A k \in 1 .. Len(s) : t[k] = s[k]
  OBVIOUS
<1> HIDE DEF t
<1>1. 0 \in Good
  <2>1. 0 \in 0 .. Len(s) /\ 0 \in 0 .. Len(t)
    BY <1>0
  <2>2. SelectedUpTo(t, S)[0] = << >> /\ SelectedUpTo(s, S)[0] = << >>
    BY <1>0, <2>1, SelectedUpToEquation
  <2> QED BY <2>2
<1>2. ASSUME NEW n \in Good PROVE n + 1 \in Good
  <2>1. CASE n + 1 <= Len(s)
    <3>1. n + 1 \in 0 .. Len(s) /\ n + 1 \in 0 .. Len(t) /\ n + 1 # 0 /\ (n + 1) - 1 = n
          /\ n \in Nat
      BY <1>0, <2>1
    <3>2. SelectedUpTo(t, S)[n + 1] = IF t[n + 1] \in S
                                   THEN Append(SelectedUpTo(t, S)[n], t[n + 1])
                                   ELSE SelectedUpTo(t, S)[n]
      BY <1>0, <3>1, SelectedUpToEquation
    <3>3. SelectedUpTo(s, S)[n + 1] = IF s[n + 1] \in S
                                   THEN Append(SelectedUpTo(s, S)[n], s[n + 1])
                                   ELSE SelectedUpTo(s, S)[n]
      BY <3>1, SelectedUpToEquation
    <3>4. t[n + 1] = s[n + 1] /\ SelectedUpTo(t, S)[n] = SelectedUpTo(s, S)[n]
      BY <1>0, <2>1, <3>1
    <3> QED BY <3>1, <3>2, <3>3, <3>4
  <2> QED BY <2>1
<1>3. Good = Nat
  <2> HIDE DEF Good
  <2>1. Good \in SUBSET Nat
    BY DEF Good
  <2> QED BY <1>1, <1>2, <2>1, NatSetInduction
<1>4. ASSUME NEW n \in 0 .. Len(s) PROVE SelectedUpTo(t, S)[n] = SelectedUpTo(s, S)[n]
  <2>1. n \in Good /\ n <= Len(s)
    BY <1>3
  <2> QED BY <2>1
<1> QED BY <1>4 DEF t

LEMMA SelectedAppend ==
    ASSUME NEW T, NEW s \in Seq(T), NEW x \in T, NEW S
    PROVE  Selected(Append(s, x), S) =
               IF x \in S THEN Append(Selected(s, S), x) ELSE Selected(s, S)
<1> DEFINE t == Append(s, x)
<1>1. /\ t \in Seq(T) /\ Len(t) = Len(s) + 1 /\ t[Len(t)] = x /\ Len(t) \in 0 .. Len(t)
      /\ Len(t) # 0 /\ Len(t) - 1 = Len(s) /\ Len(s) \in 0 .. Len(s)
  OBVIOUS
<1>2. SelectedUpTo(t, S)[Len(s)] = SelectedUpTo(s, S)[Len(s)]
  BY <1>1, SelectedUpToAgree
<1> HIDE DEF t
<1>3. SelectedUpTo(t, S)[Len(t)] = IF x \in S THEN Append(SelectedUpTo(t, S)[Len(s)], x)
                                ELSE SelectedUpTo(t, S)[Len(s)]
  BY <1>1, SelectedUpToEquation
<1>4. Selected(t, S) = IF x \in S THEN Append(Selected(s, S), x) ELSE Selected(s, S)
  BY <1>2, <1>3 DEF Selected
<1> QED BY <1>4 DEF t

(* A selection is a sequence of the selected elements, no longer than s. *)
LEMMA SelectedType ==
    ASSUME NEW T, NEW S
    PROVE  \A s \in Seq(T) : /\ Selected(s, S) \in Seq(T \cap S)
                             /\ Len(Selected(s, S)) <= Len(s)
<1> DEFINE Good == {s \in Seq(T) : /\ Selected(s, S) \in Seq(T \cap S)
                                   /\ Len(Selected(s, S)) <= Len(s)}
<1>1. << >> \in Good
  <2>1. << >> \in Seq(T) /\ << >> \in Seq(T \cap S) /\ Len(<< >>) <= Len(<< >>)
    OBVIOUS
  <2>2. Selected(<< >>, S) = << >>
    BY SelectedEmpty
  <2> QED BY <2>1, <2>2
<1>2. ASSUME NEW s \in Seq(T), NEW x \in T, s \in Good PROVE Append(s, x) \in Good
  <2>1. PICK r \in Seq(T \cap S) : r = Selected(s, S) /\ Len(r) <= Len(s)
    BY <1>2
  <2>2. Selected(Append(s, x), S) = IF x \in S THEN Append(r, x) ELSE r
    BY <2>1, SelectedAppend
  <2>3. Append(s, x) \in Seq(T) /\ Len(Append(s, x)) = Len(s) + 1 /\ Len(s) \in Nat
    OBVIOUS
  <2>4. x \in S => Append(r, x) \in Seq(T \cap S) /\ Len(Append(r, x)) = Len(r) + 1
    OBVIOUS
  <2>5. Len(r) \in Nat
    OBVIOUS
  <2>6. CASE x \in S
    <3>1. Selected(Append(s, x), S) = Append(r, x) /\ Len(r) + 1 <= Len(s) + 1
      BY <2>1, <2>2, <2>3, <2>5, <2>6
    <3> QED BY <2>3, <2>4, <2>6, <3>1
  <2>7. CASE x \notin S
    <3>1. Selected(Append(s, x), S) = r /\ Len(r) <= Len(s) + 1
      BY <2>1, <2>2, <2>3, <2>5, <2>7
    <3> QED BY <2>3, <3>1
  <2> QED BY <2>6, <2>7
<1>3. Seq(T) \subseteq Good
  <2> HIDE DEF Good
  <2> QED BY <1>1, <1>2, SeqSetInduction
<1> QED BY <1>3

(* What is in a sequence is finitely many. *)
LEMMA ElementsOf ==
    ASSUME NEW T
    PROVE  \A s \in Seq(T) : IsFiniteSet(Range(s)) /\ Range(s) \subseteq T
<1> TAKE s \in Seq(T)
<1>1. IsFiniteSet(1 .. Len(s))
  BY FS_Interval
<1>2. s \in Surjection(1 .. Len(s), Range(s))
  BY DEF Surjection, Range
<1>3. IsFiniteSet(Range(s))
  BY <1>1, <1>2, FS_Surjection
<1> QED BY <1>3 DEF Range

(* What is appended joins the elements. *)
LEMMA AppendRange ==
    ASSUME NEW T, NEW s \in Seq(T), NEW x \in T
    PROVE  Range(Append(s, x)) = Range(s) \cup {x}
<1> DEFINE t == Append(s, x)
<1>1. /\ t \in Seq(T) /\ DOMAIN t = 1 .. Len(s) + 1 /\ DOMAIN s = 1 .. Len(s) /\ Len(s) \in Nat
      /\ t[Len(s) + 1] = x /\ \A k \in 1 .. Len(s) : t[k] = s[k]
  OBVIOUS
<1> HIDE DEF t
<1>2. ASSUME NEW k \in DOMAIN t PROVE t[k] \in {s[j] : j \in DOMAIN s} \cup {x}
  <2>1. k = Len(s) + 1 \/ k \in 1 .. Len(s)
    BY <1>1
  <2> QED BY <1>1, <2>1
<1>3. ASSUME NEW k \in DOMAIN s PROVE s[k] \in {t[j] : j \in DOMAIN t}
  <2>1. k \in 1 .. Len(s) + 1
    BY <1>1
  <2> QED BY <1>1, <2>1
<1>4. x \in {t[j] : j \in DOMAIN t}
  <2>1. Len(s) + 1 \in 1 .. Len(s) + 1
    BY <1>1
  <2> QED BY <1>1, <2>1
<1>5. Range(t) = Range(s) \cup {x}
  BY <1>2, <1>3, <1>4 DEF Range
<1> QED BY <1>5 DEF t

(* Unless every element is selected, the selection is shorter. *)
LEMMA SelectedIsShorter ==
    ASSUME NEW T, NEW S
    PROVE  \A s \in Seq(T) : Len(Selected(s, S)) = Len(s) => Range(s) \subseteq S
<1> DEFINE Good == {s \in Seq(T) : Len(Selected(s, S)) = Len(s) => Range(s) \subseteq S}
<1>1. << >> \in Good
  <2>1. << >> \in Seq(T) /\ Range(<< >>) = {}
    BY DEF Range
  <2> QED BY <2>1
<1>2. ASSUME NEW s \in Seq(T), NEW x \in T, s \in Good PROVE Append(s, x) \in Good
  <2>1. PICK r : r = Selected(s, S)
    OBVIOUS
  <2>2. r \in Seq(T \cap S) /\ Len(r) <= Len(s)
    BY <2>1, SelectedType
  <2>3. Selected(Append(s, x), S) = IF x \in S THEN Append(r, x) ELSE r
    BY <2>1, SelectedAppend
  <2>4. /\ Append(s, x) \in Seq(T) /\ Len(Append(s, x)) = Len(s) + 1
        /\ Len(s) \in Nat /\ Len(r) \in Nat
    BY <2>2
  <2>5. CASE x \in S
    <3>1. Len(Append(r, x)) = Len(r) + 1
      BY <2>2, <2>5
    <3>2. Len(Append(r, x)) = Len(s) + 1 => Range(s) \subseteq S
      BY <1>2, <2>1, <2>4, <3>1
    <3>3. Range(Append(s, x)) = Range(s) \cup {x}
      BY AppendRange
    <3>4. Selected(Append(s, x), S) = Append(r, x)
      BY <2>3, <2>5
    <3> QED BY <2>4, <2>5, <3>2, <3>3, <3>4
  <2>6. CASE x \notin S
    <3>1. Selected(Append(s, x), S) = r /\ Len(r) # Len(s) + 1
      BY <2>2, <2>3, <2>4, <2>6
    <3> QED BY <2>4, <3>1
  <2> QED BY <2>5, <2>6
<1>3. Seq(T) \subseteq Good
  <2> HIDE DEF Good
  <2> QED BY <1>1, <1>2, SeqSetInduction
<1> QED BY <1>3

(* It has every selected element of s and no other. *)
LEMMA SelectedRange ==
    ASSUME NEW T, NEW S
    PROVE  \A s \in Seq(T) : Range(Selected(s, S)) = Range(s) \cap S
<1> DEFINE Good == {s \in Seq(T) : Range(Selected(s, S)) = Range(s) \cap S}
<1>1. << >> \in Good
  <2>1. << >> \in Seq(T) /\ Range(<< >>) = {}
    BY DEF Range
  <2>2. Range(Selected(<< >>, S)) = {}
    BY <2>1, SelectedEmpty
  <2> QED BY <2>1, <2>2
<1>2. ASSUME NEW s \in Seq(T), NEW x \in T, s \in Good PROVE Append(s, x) \in Good
  <2>1. PICK r \in Seq(T \cap S) : r = Selected(s, S)
    BY SelectedType
  <2>2. Selected(Append(s, x), S) = IF x \in S THEN Append(r, x) ELSE r
    BY <2>1, SelectedAppend
  <2>3. Range(r) = Range(s) \cap S /\ Append(s, x) \in Seq(T)
    BY <1>2, <2>1
  <2>4. Range(Append(s, x)) = Range(s) \cup {x}
    BY AppendRange
  <2>5. r \in Seq(T)
    OBVIOUS
  <2>8. Range(Append(r, x)) = Range(r) \cup {x}
    BY <2>5, AppendRange
  <2>6. CASE x \in S
    BY <2>2, <2>3, <2>4, <2>8, <2>6
  <2>7. CASE x \notin S
    BY <2>2, <2>3, <2>4, <2>7
  <2> QED BY <2>6, <2>7
<1>3. Seq(T) \subseteq Good
  <2> HIDE DEF Good
  <2> QED BY <1>1, <1>2, SeqSetInduction
<1> QED BY <1>3

(* An element is appended to a sequence without repetitions.                 *)
LEMMA AppendIsInjective ==
    ASSUME NEW T, NEW s \in Seq(T), NEW x \in T
    PROVE  IsInjective(Append(s, x)) <=> IsInjective(s) /\ x \notin Range(s)
<1> DEFINE q == Append(s, x)
           n == Len(s)
<1>1. /\ n \in Nat /\ DOMAIN s = 1 .. n /\ DOMAIN q = 1 .. n + 1 /\ q[n + 1] = x
      /\ \A i \in 1 .. n : q[i] = s[i]
  OBVIOUS
<1> HIDE DEF q, n
<1>2. ASSUME IsInjective(q) PROVE IsInjective(s) /\ x \notin Range(s)
  <2>1. \A i, j \in 1 .. n + 1 : q[i] = q[j] => i = j
    BY <1>1, <1>2 DEF IsInjective
  <2>2. \A i, j \in 1 .. n : s[i] = s[j] => i = j
    BY <1>1, <2>1
  <2>3. \A i \in 1 .. n : s[i] # x
    <3> SUFFICES ASSUME NEW i \in 1 .. n, s[i] = x PROVE FALSE
      OBVIOUS
    <3>1. i \in 1 .. n + 1 /\ n + 1 \in 1 .. n + 1 /\ q[i] = q[n + 1] /\ i # n + 1
      BY <1>1
    <3> QED BY <2>1, <3>1
  <2> QED BY <1>1, <2>2, <2>3 DEF IsInjective, Range
<1>3. ASSUME IsInjective(s), x \notin Range(s) PROVE IsInjective(q)
  <2>1. \A i, j \in 1 .. n : s[i] = s[j] => i = j
    BY <1>1, <1>3 DEF IsInjective
  <2>2. \A i \in 1 .. n : s[i] # x
    BY <1>1, <1>3 DEF Range
  <2>3. ASSUME NEW i \in 1 .. n + 1, NEW j \in 1 .. n + 1, q[i] = q[j] PROVE i = j
    <3>1. CASE i = n + 1
      <4>1. j \notin 1 .. n
        BY <1>1, <2>2, <2>3, <3>1
      <4> QED BY <1>1, <3>1, <4>1
    <3>2. CASE j = n + 1
      <4>1. i \notin 1 .. n
        BY <1>1, <2>2, <2>3, <3>2
      <4> QED BY <1>1, <3>2, <4>1
    <3>3. CASE i # n + 1 /\ j # n + 1
      <4>1. i \in 1 .. n /\ j \in 1 .. n
        BY <1>1, <3>3
      <4> QED BY <1>1, <2>1, <2>3, <4>1
    <3> QED BY <3>1, <3>2, <3>3
  <2> QED BY <1>1, <2>3 DEF IsInjective
<1> QED BY <1>2, <1>3 DEF q

(* A selection of a sequence without repetitions has none.                   *)
LEMMA SelectedInjective ==
    ASSUME NEW T, NEW S
    PROVE  \A s \in Seq(T) : IsInjective(s) => IsInjective(Selected(s, S))
<1> DEFINE Good == {s \in Seq(T) : IsInjective(s) => IsInjective(Selected(s, S))}
<1>1. << >> \in Good
  <2>1. Selected(<< >>, S) = << >> /\ << >> \in Seq(T)
    BY SelectedEmpty
  <2> QED BY <2>1
<1>2. ASSUME NEW s \in Seq(T), NEW x \in T, s \in Good PROVE Append(s, x) \in Good
  <2>1. PICK r : r = Selected(s, S)
    OBVIOUS
  <2>2. r \in Seq(T \cap S) /\ Range(r) = Range(s) \cap S
    BY <2>1, SelectedType, SelectedRange
  <2>3. Selected(Append(s, x), S) = IF x \in S THEN Append(r, x) ELSE r
    BY <2>1, SelectedAppend
  <2>4. Append(s, x) \in Seq(T)
    OBVIOUS
  <2>5. ASSUME IsInjective(Append(s, x)) PROVE IsInjective(Selected(Append(s, x), S))
    <3>1. IsInjective(s) /\ x \notin Range(s)
      BY <2>5, AppendIsInjective
    <3>2. IsInjective(r) /\ x \notin Range(r)
      BY <1>2, <2>1, <2>2, <3>1
    <3>3. CASE x \in S
      <4>1. r \in Seq(T \cap S) /\ x \in T \cap S
        BY <2>2, <3>3
      <4>2. IsInjective(Append(r, x))
        BY <3>2, <4>1, AppendIsInjective
      <4> QED BY <2>3, <3>3, <4>2
    <3>4. CASE x \notin S
      <4>1. Selected(Append(s, x), S) = r
        BY <2>3, <3>4
      <4> QED BY <3>2, <4>1
    <3> QED BY <3>3, <3>4
  <2> QED BY <2>4, <2>5
<1>3. Seq(T) \subseteq Good
  <2> HIDE DEF Good
  <2> QED BY <1>1, <1>2, SeqSetInduction
<1> QED BY <1>3

(* All of s is selected if all of it is in S. *)
LEMMA SelectedAll ==
    ASSUME NEW T, NEW S
    PROVE  \A s \in Seq(T) : Range(s) \subseteq S => Selected(s, S) = s
<1> DEFINE Good == {s \in Seq(T) : Range(s) \subseteq S => Selected(s, S) = s}
<1>1. << >> \in Good
  BY SelectedEmpty
<1>2. ASSUME NEW s \in Seq(T), NEW x \in T, s \in Good PROVE Append(s, x) \in Good
  <2>1. Range(Append(s, x)) = Range(s) \cup {x} /\ Append(s, x) \in Seq(T)
    BY AppendRange
  <2>2. Range(s) \subseteq S => Selected(s, S) = s
    BY <1>2
  <2> QED BY <2>1, <2>2, SelectedAppend
<1>3. Seq(T) \subseteq Good
  <2> HIDE DEF Good
  <2> QED BY <1>1, <1>2, SeqSetInduction
<1> QED BY <1>3

Ascending(s) == \A j, k \in 1 .. Len(s) : j <= k => s[j] <= s[k]

(* All but the first e elements, and these are not above c. *)
EndAbove(r, s, e, c) ==
    /\ Len(r) = Len(s) - e
    /\ \A k \in 1 .. Len(s) - e : r[k] = s[e + k]
    /\ \A k \in 1 .. e : s[k] <= c

(* What is above a bound is, in an ascending sequence, its end. *)
LEMMA SelectedSuffix ==
    ASSUME NEW c \in Int, NEW T, NEW S, T \subseteq Nat, \A x \in T : x \in S <=> x > c
    PROVE  \A s \in Seq(T) : Ascending(s) =>
               \E e \in 0 .. Len(s) : EndAbove(Selected(s, S), s, e, c)
<1> DEFINE Ascends(s) == \A j, k \in 1 .. Len(s) : j <= k => s[j] <= s[k]
           Cut(s, r, e) == /\ Len(r) = Len(s) - e
                           /\ \A k \in 1 .. Len(s) - e : r[k] = s[e + k]
                           /\ \A k \in 1 .. e : s[k] <= c
           Good == {s \in Seq(T) : Ascends(s) => \E e \in 0 .. Len(s) : Cut(s, Selected(s, S), e)}
<1>0. \A y \in T : y \in Int /\ (y \in S <=> y > c)
  OBVIOUS
<1>1. << >> \in Good
  <2>1. << >> \in Seq(T) /\ Selected(<< >>, S) = << >>
    BY SelectedEmpty
  <2>2. Cut(<< >>, << >>, 0) /\ 0 \in 0 .. Len(<< >>)
    OBVIOUS
  <2> QED BY <2>1, <2>2
<1>2. ASSUME NEW s \in Seq(T), NEW x \in T, s \in Good PROVE Append(s, x) \in Good
  <2> DEFINE t == Append(s, x)
  <2>0. /\ t \in Seq(T) /\ Len(t) = Len(s) + 1 /\ Len(s) \in Nat /\ t[Len(s) + 1] = x
        /\ \A k \in 1 .. Len(s) : t[k] = s[k] /\ s[k] \in T
    OBVIOUS
  <2>5. Selected(t, S) = IF x \in S THEN Append(Selected(s, S), x) ELSE Selected(s, S)
    BY SelectedAppend
  <2> HIDE DEF t
  <2>1. ASSUME Ascends(t) PROVE \E e \in 0 .. Len(t) : Cut(t, Selected(t, S), e)
    <3>1. Ascends(s)
      BY <2>0, <2>1
    <3>2. PICK e \in 0 .. Len(s) : Cut(s, Selected(s, S), e)
      BY <1>2, <3>1
    <3>3. PICK r \in Seq(T \cap S) : r = Selected(s, S)
      BY SelectedType
    <3>4. Selected(t, S) = IF x \in S THEN Append(r, x) ELSE r
      BY <2>5, <3>3
    <3>5. r \in Seq(T) /\ Len(r) = Len(s) - e /\ \A k \in 1 .. Len(s) - e : r[k] = s[e + k]
      BY <3>2, <3>3
    <3>6. CASE x \in S
      <4> DEFINE q == Append(r, x)
      <4>1. /\ Len(q) = Len(r) + 1 /\ q[Len(r) + 1] = x
            /\ \A k \in 1 .. Len(r) : q[k] = r[k]
        BY <3>5
      <4> HIDE DEF q
      <4>2. Len(q) = Len(t) - e
        BY <2>0, <3>5, <4>1
      <4>3. ASSUME NEW k \in 1 .. Len(t) - e PROVE q[k] = t[e + k]
        <5>1. CASE k = Len(r) + 1
          <6>1. e + k = Len(s) + 1
            BY <2>0, <3>5, <5>1
          <6> QED BY <2>0, <4>1, <5>1, <6>1
        <5>2. CASE k # Len(r) + 1
          <6>1. k \in 1 .. Len(s) - e /\ k \in 1 .. Len(r) /\ e + k \in 1 .. Len(s)
            BY <2>0, <3>5, <5>2
          <6> QED BY <2>0, <3>5, <4>1, <6>1
        <5> QED BY <5>1, <5>2
      <4>4. ASSUME NEW k \in 1 .. e PROVE t[k] <= c
        <5>1. k \in 1 .. Len(s) /\ s[k] <= c
          BY <2>0, <3>2
        <5> QED BY <2>0, <5>1
      <4>5. e \in 0 .. Len(t) /\ Selected(t, S) = q
        BY <2>0, <3>4, <3>6 DEF q
      <4> QED BY <4>2, <4>3, <4>4, <4>5
    <3>7. CASE x \notin S
      <4>1. \A k \in 1 .. Len(t) : t[k] <= c
        <5>1. x <= c
          BY <3>7
        <5>2. ASSUME NEW k \in 1 .. Len(t) PROVE t[k] <= c
          <6>1. Len(t) \in 1 .. Len(t) /\ k <= Len(t) /\ t[Len(t)] = x
            BY <2>0
          <6>2. t[k] <= x /\ t[k] \in T
            BY <2>0, <2>1, <6>1
          <6>3. t[k] \in Int /\ x \in Int
            BY <1>0, <6>2
          <6> QED BY <5>1, <6>2, <6>3
        <5> QED BY <5>2
      <4>2. Len(r) = 0
        <5>1. SUFFICES ASSUME Len(r) # 0 PROVE FALSE
          OBVIOUS
        <5>2. 1 \in 1 .. Len(r) /\ r[1] \in T \cap S
          BY <3>3, <5>1
        <5>3. r[1] = s[e + 1] /\ e + 1 \in 1 .. Len(s) /\ e + 1 \in 1 .. Len(t)
          BY <2>0, <3>5, <5>2
        <5>4. s[e + 1] = t[e + 1]
          BY <2>0, <5>3
        <5>5. t[e + 1] <= c /\ t[e + 1] \in T \cap S
          BY <4>1, <5>2, <5>3, <5>4
        <5>6. t[e + 1] \in Int /\ t[e + 1] > c
          BY <1>0, <5>5
        <5> QED BY <5>5, <5>6
      <4>3. Len(t) \in 0 .. Len(t) /\ Selected(t, S) = r
        BY <2>0, <3>4, <3>7
      <4>4. Cut(t, r, Len(t))
        BY <2>0, <4>1, <4>2
      <4> QED BY <4>3, <4>4
    <3> QED BY <3>6, <3>7
  <2> QED BY <2>0, <2>1 DEF t
<1>3. Seq(T) \subseteq Good
  <2> HIDE DEF Good
  <2> QED BY <1>1, <1>2, SeqSetInduction
<1>4. ASSUME NEW s \in Seq(T), Ascending(s)
      PROVE  \E e \in 0 .. Len(s) : EndAbove(Selected(s, S), s, e, c)
  <2>1. Ascends(s) /\ s \in Good
    BY <1>3, <1>4 DEF Ascending
  <2>2. PICK e \in 0 .. Len(s) : Cut(s, Selected(s, S), e)
    BY <2>1
  <2>3. EndAbove(Selected(s, S), s, e, c)
    BY <2>2 DEF EndAbove
  <2> QED BY <2>3
<1> QED BY <1>4
=============================================================================
