------------------------------- MODULE SumProofs -------------------------------
(***************************************************************************)
(* Facts about finite sums: the SumFunctionOnSet of the library, over any  *)
(* finite set.  The library defines it by recursion on the set; the        *)
(* induction theorems that would do are about operators, so the principle  *)
(* used here is stated about sets: what is left of a finite set's subsets  *)
(* when the good ones are taken away has no smallest member.               *)
(***************************************************************************)
EXTENDS Functions, FiniteSetTheorems, TLAPS

-----------------------------------------------------------------------------
\* A set of natural numbers has a least one.
LEMMA LeastNumber ==
  ASSUME NEW T, T \subseteq Nat, T # {}
  PROVE  \E x \in T : \A y \in T : x <= y
<1>1. PICK x \in T : \A y \in T : ~ (<<y, x>> \in OpToRel(<, Nat))
  BY WFMin, NatLessThanWellFounded
<1>2. \A y \in T : ~(y < x)
  BY <1>1 DEF OpToRel
<1>. QED  BY <1>2

(***************************************************************************)
(* Induction on the subsets of a finite set: if a set is good whenever all *)
(* its strict subsets are, all are good.                                   *)
(***************************************************************************)
LEMMA SubsetInduction ==
  ASSUME NEW S, IsFiniteSet(S), NEW G,
         \A T \in SUBSET S : (\A U \in SUBSET T : U # T => U \in G) => T \in G
  PROVE  \A T \in SUBSET S : T \in G
<1>. DEFINE Bad == {T \in SUBSET S : T \notin G}
            Sizes == {Cardinality(T) : T \in Bad}
<1>1. SUFFICES ASSUME Bad # {} PROVE FALSE
  OBVIOUS
<1>2. \A T \in SUBSET S : IsFiniteSet(T) /\ Cardinality(T) \in Nat
  BY FS_Subset, FS_CardinalityType
<1>3. Sizes \subseteq Nat /\ Sizes # {}
  BY <1>1, <1>2
<1>. HIDE DEF Sizes
<1>4. PICK n \in Sizes : \A k \in Sizes : n <= k
  BY <1>3, LeastNumber
<1>5. PICK T \in Bad : n = Cardinality(T)
  BY DEF Sizes
<1>6. \A U \in SUBSET T : U # T => U \in G
  <2>. SUFFICES ASSUME NEW U \in SUBSET T, U # T, U \notin G PROVE FALSE
    OBVIOUS
  <2>1. U \in Bad /\ T \in SUBSET S
    OBVIOUS
  <2>2. Cardinality(U) \in Sizes
    BY <2>1 DEF Sizes
  <2>3. Cardinality(U) <= Cardinality(T) /\ Cardinality(U) # Cardinality(T)
    BY <1>2, <2>1, FS_Subset
  <2>4. Cardinality(T) <= Cardinality(U)
    BY <1>4, <1>5, <2>2
  <2>. QED  BY <1>2, <2>1, <2>3, <2>4
<1>. QED  BY <1>5, <1>6

\* The same for the natural numbers.
LEMMA NumberInduction ==
  ASSUME NEW G, 0 \in G, \A n \in Nat : n \in G => n + 1 \in G
  PROVE  \A n \in Nat : n \in G
<1>. DEFINE Bad == {n \in Nat : n \notin G}
<1>1. SUFFICES ASSUME Bad # {} PROVE FALSE
  OBVIOUS
<1>2. PICK n \in Bad : \A k \in Bad : n <= k
  BY <1>1, LeastNumber
<1>3. n \in Nat /\ n \notin G /\ n # 0
  OBVIOUS
<1>4. n - 1 \in Nat /\ n - 1 \notin Bad
  BY <1>2, <1>3
<1>5. n - 1 \in G
  BY <1>4
<1>6. (n - 1) + 1 \in G
  BY <1>4, <1>5
<1>. QED  BY <1>3, <1>6

-----------------------------------------------------------------------------
\* The element a fold takes first, and the function a fold is defined by.
Any(s) == CHOOSE x \in s : TRUE
Term(h, f, s) == IF s = {} THEN 0 ELSE f[Any(s)] + h[s \ {Any(s)}]
SumsOf(h, f, S) == h = [s \in SUBSET S |-> Term(h, f, s)]

LEMMA SumIs ==
  ASSUME NEW f, NEW S
  PROVE  SumFunctionOnSet(f, S) = (CHOOSE h : SumsOf(h, f, S))[S]
BY DEF SumFunctionOnSet, FoldFunctionOnSet, MapThenFoldSet, SumsOf, Term, Any

LEMMA AnyIn == \A s : s # {} => Any(s) \in s
BY DEF Any

\* That function exists: it is built up by the size of the sets.
LEMMA SumsExist ==
  ASSUME NEW f, NEW S, IsFiniteSet(S)
  PROVE  \E h : SumsOf(h, f, S)
<1>. DEFINE UpTo(n) == \E h : /\ DOMAIN h = SUBSET S
                              /\ \A s \in SUBSET S : Cardinality(s) <= n => h[s] = Term(h, f, s)
            G == {n \in Nat : UpTo(n)}
<1>1. \A s \in SUBSET S : IsFiniteSet(s) /\ Cardinality(s) \in Nat /\ Cardinality(s) <= Cardinality(S)
  BY FS_Subset, FS_CardinalityType
<1>2. \A s \in SUBSET S : s # {} =>
        /\ Any(s) \in s /\ s \ {Any(s)} \in SUBSET S
        /\ Cardinality(s \ {Any(s)}) = Cardinality(s) - 1
  BY <1>1, AnyIn, FS_RemoveElement
<1>3. 0 \in G
  <2>. DEFINE h == [s \in SUBSET S |-> 0]
  <2>1. \A s \in SUBSET S : Cardinality(s) <= 0 => s = {}
    BY <1>1, FS_EmptySet
  <2>2. \A s \in SUBSET S : Cardinality(s) <= 0 => h[s] = Term(h, f, s)
    BY <2>1 DEF Term
  <2>. QED  BY <2>2
<1>4. ASSUME NEW n \in Nat, UpTo(n) PROVE UpTo(n + 1)
  <2>1. PICK h : /\ DOMAIN h = SUBSET S
                 /\ \A s \in SUBSET S : Cardinality(s) <= n => h[s] = Term(h, f, s)
    BY <1>4
  <2>. DEFINE g == [s \in SUBSET S |-> Term(h, f, s)]
  <2>2. ASSUME NEW s \in SUBSET S, Cardinality(s) <= n + 1 PROVE g[s] = Term(g, f, s)
    <3>1. CASE s = {}
      BY <3>1 DEF Term
    <3>2. CASE s # {}
      <4>1. /\ s \ {Any(s)} \in SUBSET S /\ Cardinality(s \ {Any(s)}) <= n
        BY <1>1, <1>2, <2>2, <3>2
      <4>2. h[s \ {Any(s)}] = g[s \ {Any(s)}]
        BY <2>1, <4>1
      <4>. QED  BY <4>2 DEF Term
    <3>. QED  BY <3>1, <3>2
  <2>. HIDE DEF g
  <2>3. DOMAIN g = SUBSET S
    BY DEF g
  <2>. QED  BY <2>2, <2>3
<1>. HIDE DEF UpTo
<1>5. \A n \in Nat : n \in G
  <2>1. \A n \in Nat : n \in G => n + 1 \in G
    BY <1>4
  <2>. HIDE DEF G
  <2>. QED  BY <1>3, <2>1, NumberInduction
<1>6. Cardinality(S) \in Nat /\ UpTo(Cardinality(S))
  BY <1>1, <1>5
<1>7. PICK h : /\ DOMAIN h = SUBSET S
               /\ \A s \in SUBSET S : Cardinality(s) <= Cardinality(S) => h[s] = Term(h, f, s)
  BY <1>6 DEF UpTo
<1>. DEFINE g == [s \in SUBSET S |-> Term(h, f, s)]
<1>8. \A s \in SUBSET S : g[s] = Term(g, f, s)
  <2>. SUFFICES ASSUME NEW s \in SUBSET S PROVE g[s] = Term(g, f, s)
    OBVIOUS
  <2>1. CASE s = {}
    BY <2>1 DEF Term
  <2>2. CASE s # {}
    <3>1. h[s \ {Any(s)}] = g[s \ {Any(s)}]
      BY <1>1, <1>2, <1>7, <2>2
    <3>. QED  BY <3>1 DEF Term
  <2>. QED  BY <2>1, <2>2
<1>9. g = [s \in SUBSET S |-> Term(g, f, s)]
  BY <1>8
<1>. QED  BY <1>9 DEF SumsOf

\* What it gives a set does not depend on the set it was built for.
LEMMA SumsAgree ==
  ASSUME NEW f, NEW S, IsFiniteSet(S), NEW h, SumsOf(h, f, S),
         NEW e, NEW U, NEW g, SumsOf(g, e, U),
         S \subseteq U, \A x \in S : f[x] = e[x]
  PROVE  \A s \in SUBSET S : h[s] = g[s]
<1>. DEFINE G == {s \in SUBSET S : h[s] = g[s]}
<1>1. ASSUME NEW s \in SUBSET S, \A u \in SUBSET s : u # s => u \in G
      PROVE  s \in G
  <2>1. s \in SUBSET U /\ h[s] = Term(h, f, s) /\ g[s] = Term(g, e, s)
    BY DEF SumsOf
  <2>2. CASE s = {}
    BY <2>1, <2>2 DEF Term
  <2>3. CASE s # {}
    <3>1. Any(s) \in s
      BY <2>3, AnyIn
    <3>2. h[s \ {Any(s)}] = g[s \ {Any(s)}] /\ f[Any(s)] = e[Any(s)]
      BY <1>1, <3>1
    <3>. QED  BY <2>1, <2>3, <3>2 DEF Term
  <2>. QED  BY <2>2, <2>3
<1>. HIDE DEF G
<1>2. \A s \in SUBSET S : s \in G
  BY <1>1, SubsetInduction
<1>. QED  BY <1>2 DEF G

-----------------------------------------------------------------------------
(***************************************************************************)
(* The recursion of a sum, and that it depends on the values only.         *)
(***************************************************************************)
LEMMA SumRecursion ==
  ASSUME NEW f, NEW S, IsFiniteSet(S)
  PROVE  /\ SumFunctionOnSet(f, {}) = 0
         /\ S # {} => /\ Any(S) \in S
                      /\ SumFunctionOnSet(f, S)
                           = f[Any(S)] + SumFunctionOnSet(f, S \ {Any(S)})
<1>. DEFINE sums(U) == CHOOSE h : SumsOf(h, f, U)
<1>1. \A U : IsFiniteSet(U) => SumsOf(sums(U), f, U)
  BY SumsExist
<1>2. \A U : SumFunctionOnSet(f, U) = sums(U)[U]
  BY SumIs
<1>. HIDE DEF sums
<1>3. SumFunctionOnSet(f, {}) = 0
  BY <1>1, <1>2, FS_EmptySet DEF SumsOf, Term
<1>4. ASSUME S # {}
      PROVE  SumFunctionOnSet(f, S) = f[Any(S)] + SumFunctionOnSet(f, S \ {Any(S)})
  <2>. DEFINE U == S \ {Any(S)}
  <2>1. IsFiniteSet(U) /\ U \subseteq S
    BY FS_Subset
  <2>2. sums(U)[U] = sums(S)[U]
    BY <1>1, <2>1, SumsAgree
  <2>3. sums(S)[S] = f[Any(S)] + sums(S)[U]
    BY <1>1, <1>4 DEF SumsOf, Term
  <2>. QED  BY <1>2, <2>2, <2>3
<1>. QED  BY <1>3, <1>4, AnyIn

LEMMA SumSame ==
  ASSUME NEW f, NEW e, NEW S, IsFiniteSet(S), \A x \in S : f[x] = e[x]
  PROVE  SumFunctionOnSet(f, S) = SumFunctionOnSet(e, S)
<1>. DEFINE sf == CHOOSE h : SumsOf(h, f, S)
            se == CHOOSE h : SumsOf(h, e, S)
<1>1. SumsOf(sf, f, S) /\ SumsOf(se, e, S)
  BY SumsExist
<1>2. SumFunctionOnSet(f, S) = sf[S] /\ SumFunctionOnSet(e, S) = se[S]
  BY SumIs
<1>. HIDE DEF sf, se
<1>. QED  BY <1>1, <1>2, SumsAgree

\* A sum of integers is an integer.
LEMMA SumInt ==
  ASSUME NEW f, NEW S, IsFiniteSet(S), \A x \in S : f[x] \in Int
  PROVE  SumFunctionOnSet(f, S) \in Int
<1>. DEFINE G == {T \in SUBSET S : SumFunctionOnSet(f, T) \in Int}
<1>1. ASSUME NEW T \in SUBSET S, \A U \in SUBSET T : U # T => U \in G
      PROVE  T \in G
  <2>1. IsFiniteSet(T)
    BY FS_Subset
  <2>2. CASE T = {}
    <3>1. SumFunctionOnSet(f, {}) = 0
      BY <2>1, SumRecursion
    <3>. QED  BY <2>2, <3>1
  <2>3. CASE T # {}
    <3>1. Any(T) \in T /\ SumFunctionOnSet(f, T)
                            = f[Any(T)] + SumFunctionOnSet(f, T \ {Any(T)})
      BY <2>1, <2>3, SumRecursion
    <3>2. SumFunctionOnSet(f, T \ {Any(T)}) \in Int
      BY <1>1, <3>1
    <3>. QED  BY <3>1, <3>2
  <2>. QED  BY <2>2, <2>3
<1>. HIDE DEF G
<1>2. \A T \in SUBSET S : T \in G
  BY <1>1, SubsetInduction
<1>. QED  BY <1>2 DEF G

(***************************************************************************)
(* Any element of the set may be taken first: the order in which a sum     *)
(* takes the elements does not matter.                                     *)
(***************************************************************************)
LEMMA SumTake ==
  ASSUME NEW f, NEW S, IsFiniteSet(S), \A x \in S : f[x] \in Int
  PROVE  \A x \in S : SumFunctionOnSet(f, S) = f[x] + SumFunctionOnSet(f, S \ {x})
<1>. DEFINE Sum(T) == SumFunctionOnSet(f, T)
            G == {T \in SUBSET S : \A x \in T : Sum(T) = f[x] + Sum(T \ {x})}
<1>1. \A T \in SUBSET S : IsFiniteSet(T) /\ Sum(T) \in Int
  BY FS_Subset, SumInt
<1>2. \A T \in SUBSET S :
        T # {} => Any(T) \in T /\ Sum(T) = f[Any(T)] + Sum(T \ {Any(T)})
  BY <1>1, SumRecursion
<1>. HIDE DEF Sum
<1>3. ASSUME NEW T \in SUBSET S, \A U \in SUBSET T : U # T => U \in G
      PROVE  T \in G
  <2>. SUFFICES ASSUME NEW x \in T PROVE Sum(T) = f[x] + Sum(T \ {x})
    OBVIOUS
  <2>. DEFINE c == Any(T)
              R == (T \ {x}) \ {c}
  <2>1. c \in T /\ Sum(T) = f[c] + Sum(T \ {c})
    BY <1>2
  <2>. HIDE DEF c
  <2>2. CASE x = c
    BY <2>1, <2>2
  <2>3. CASE x # c
    <3>1. /\ T \ {c} \in SUBSET T /\ T \ {c} # T /\ x \in T \ {c}
          /\ T \ {x} \in SUBSET T /\ T \ {x} # T /\ c \in T \ {x}
          /\ (T \ {c}) \ {x} = R
      BY <2>1, <2>3
    <3>2. T \ {c} \in G /\ T \ {x} \in G
      BY <1>3, <3>1
    <3>3. Sum(T \ {c}) = f[x] + Sum(R) /\ Sum(T \ {x}) = f[c] + Sum(R)
      BY <3>1, <3>2
    <3>4. Sum(R) \in Int /\ f[x] \in Int /\ f[c] \in Int
      BY <1>1, <2>1
    <3>. QED  BY <2>1, <3>3, <3>4
  <2>. QED  BY <2>2, <2>3
<1>. HIDE DEF G
<1>4. \A T \in SUBSET S : T \in G
  BY <1>3, SubsetInduction
<1>. QED  BY <1>4 DEF G, Sum

\* One more element adds its value.
LEMMA SumAdd ==
  ASSUME NEW f, NEW S, IsFiniteSet(S), NEW x, x \notin S, \A y \in S \cup {x} : f[y] \in Int
  PROVE  SumFunctionOnSet(f, S \cup {x}) = f[x] + SumFunctionOnSet(f, S)
<1>1. IsFiniteSet(S \cup {x}) /\ (S \cup {x}) \ {x} = S
  BY FS_AddElement
<1>2. \A y \in S \cup {x} :
        SumFunctionOnSet(f, S \cup {x}) = f[y] + SumFunctionOnSet(f, (S \cup {x}) \ {y})
  BY <1>1, SumTake
<1>. QED  BY <1>1, <1>2

(***************************************************************************)
(* A sum of natural numbers grows with the set and with the values.        *)
(***************************************************************************)
LEMMA SumGrows ==
  ASSUME NEW f, NEW S, IsFiniteSet(S), \A x \in S : f[x] \in Int,
         NEW e, \A x \in S : e[x] \in Int /\ 0 <= e[x],
         NEW T, T \subseteq S, \A x \in T : f[x] <= e[x]
  PROVE  /\ SumFunctionOnSet(f, T) <= SumFunctionOnSet(e, S)
         /\ SumFunctionOnSet(f, T) \in Int /\ SumFunctionOnSet(e, S) \in Nat
<1>. DEFINE G == {U \in SUBSET S : /\ SumFunctionOnSet(f, U \cap T) <= SumFunctionOnSet(e, U)
                                   /\ 0 <= SumFunctionOnSet(e, U)}
<1>1. \A U \in SUBSET S : /\ IsFiniteSet(U) /\ IsFiniteSet(U \cap T)
                          /\ SumFunctionOnSet(e, U) \in Int
                          /\ SumFunctionOnSet(f, U \cap T) \in Int
  BY FS_Subset, SumInt
<1>2. ASSUME NEW U \in SUBSET S, \A V \in SUBSET U : V # U => V \in G
      PROVE  U \in G
  <2>1. CASE U = {}
    <3>1. U \cap T = {}
      BY <2>1
    <3>2. SumFunctionOnSet(f, {}) = 0 /\ SumFunctionOnSet(e, {}) = 0
      BY FS_EmptySet, SumRecursion
    <3>. QED  BY <2>1, <3>1, <3>2
  <2>2. CASE U # {}
    <3>1. PICK x \in U : TRUE
      BY <2>2
    <3>. DEFINE V == U \ {x}
    <3>2. /\ V \in SUBSET S
          /\ SumFunctionOnSet(f, V \cap T) <= SumFunctionOnSet(e, V)
          /\ 0 <= SumFunctionOnSet(e, V)
      BY <1>2, <3>1
    <3>3. SumFunctionOnSet(e, U) = e[x] + SumFunctionOnSet(e, V)
      <4>1. IsFiniteSet(U) /\ \A y \in U : e[y] \in Int
        BY <1>1
      <4>. QED  BY <3>1, <4>1, SumTake
    <3>4. e[x] \in Int /\ 0 <= e[x]
      BY <3>1
    <3>5. /\ SumFunctionOnSet(e, V) \in Int
          /\ SumFunctionOnSet(f, V \cap T) \in Int
      BY <1>1, <3>2
    <3>6. CASE x \in T
      <4>1. (U \cap T) \ {x} = V \cap T /\ x \in U \cap T
        BY <3>1, <3>6
      <4>2. IsFiniteSet(U \cap T) /\ \A y \in U \cap T : f[y] \in Int
        BY <1>1
      <4>3. SumFunctionOnSet(f, U \cap T) = f[x] + SumFunctionOnSet(f, V \cap T)
        BY <4>1, <4>2, SumTake
      <4>4. f[x] <= e[x] /\ f[x] \in Int
        BY <3>1, <3>6
      <4>. HIDE DEF V
      <4>5. /\ SumFunctionOnSet(f, U \cap T) <= SumFunctionOnSet(e, U)
            /\ 0 <= SumFunctionOnSet(e, U)
        BY <3>2, <3>3, <3>4, <3>5, <4>3, <4>4
      <4>. QED  BY <4>5
    <3>7. CASE x \notin T
      <4>1. SumFunctionOnSet(f, U \cap T) = SumFunctionOnSet(f, V \cap T)
        <5>1. U \cap T = V \cap T
          BY <3>7
        <5>. HIDE DEF V
        <5>. QED  BY <5>1
      <4>. HIDE DEF V
      <4>2. /\ SumFunctionOnSet(f, U \cap T) <= SumFunctionOnSet(e, U)
            /\ 0 <= SumFunctionOnSet(e, U)
        BY <3>2, <3>3, <3>4, <3>5, <4>1
      <4>. QED  BY <4>2
    <3>. QED  BY <3>6, <3>7
  <2>. QED  BY <2>1, <2>2
<1>. HIDE DEF G
<1>3. \A U \in SUBSET S : U \in G
  BY <1>2, SubsetInduction
<1>4. S \in G /\ S \cap T = T
  BY <1>3
<1>. QED  BY <1>1, <1>4 DEF G

\* When one value changes, the sum changes by as much.
LEMMA SumChange ==
  ASSUME NEW f, NEW e, NEW S, IsFiniteSet(S), \A y \in S : f[y] \in Int /\ e[y] \in Int,
         NEW x \in S, \A y \in S \ {x} : e[y] = f[y]
  PROVE  SumFunctionOnSet(e, S) = SumFunctionOnSet(f, S) + (e[x] - f[x])
<1>. DEFINE R == S \ {x}
<1>1. SumFunctionOnSet(f, S) = f[x] + SumFunctionOnSet(f, R)
  BY SumTake
<1>2. SumFunctionOnSet(e, S) = e[x] + SumFunctionOnSet(e, R)
  BY SumTake
<1>3. IsFiniteSet(R)
  BY FS_Subset
<1>4. SumFunctionOnSet(e, R) = SumFunctionOnSet(f, R)
  BY <1>3, SumSame
<1>5. SumFunctionOnSet(f, R) \in Int
  BY <1>3, SumInt
<1>. HIDE DEF R
<1>. QED  BY <1>1, <1>2, <1>4, <1>5

-----------------------------------------------------------------------------
LEMMA SumUnion ==
  ASSUME NEW f, NEW S, IsFiniteSet(S), \A x \in S : f[x] \in Int,
         NEW A \in SUBSET S, NEW B \in SUBSET S, A \cap B = {}
  PROVE  SumFunctionOnSet(f, A \cup B) = SumFunctionOnSet(f, A) + SumFunctionOnSet(f, B)
<1>. DEFINE Sum(T) == SumFunctionOnSet(f, T)
            G == {U \in SUBSET S : U \cap A = {} => Sum(A \cup U) = Sum(A) + Sum(U)}
<1>1. \A T \in SUBSET S : IsFiniteSet(T) /\ Sum(T) \in Int
  BY FS_Subset, SumInt
<1>2. ASSUME NEW T \in SUBSET S, NEW x \in T
      PROVE  Sum(T) = f[x] + Sum(T \ {x})
  <2>1. IsFiniteSet(T) /\ \A y \in T : f[y] \in Int
    BY <1>1
  <2>. QED  BY <2>1, SumTake
<1>3. ASSUME NEW U \in SUBSET S, \A V \in SUBSET U : V # U => V \in G
      PROVE  U \in G
  <2>1. CASE U = {}
    <3>1. Sum(U) = 0
      BY <2>1, SumRecursion
    <3>2. A \cup U = A
      BY <2>1
    <3>3. Sum(A \cup U) = Sum(A)
      BY <3>2
    <3>4. Sum(A) \in Int
      BY <1>1
    <3>. HIDE DEF Sum
    <3>. QED  BY <3>1, <3>3, <3>4
  <2>2. CASE U # {} /\ U \cap A = {}
    <3>1. PICK x \in U : TRUE
      BY <2>2
    <3>2. /\ (A \cup U) \ {x} = A \cup (U \ {x}) /\ A \cup U \in SUBSET S
          /\ U \ {x} \in SUBSET U /\ U \ {x} # U /\ x \in A \cup U
          /\ (U \ {x}) \cap A = {}
      BY <2>2, <3>1
    <3>3. Sum(A \cup (U \ {x})) = Sum(A) + Sum(U \ {x})
      BY <1>3, <3>2
    <3>4. Sum(A \cup U) = f[x] + Sum(A \cup (U \ {x}))
      <4>1. Sum(A \cup U) = f[x] + Sum((A \cup U) \ {x})
        BY <1>2, <3>2
      <4>2. Sum((A \cup U) \ {x}) = Sum(A \cup (U \ {x}))
        BY <3>2
      <4>. QED  BY <4>1, <4>2
    <3>5. Sum(U) = f[x] + Sum(U \ {x})
      BY <1>2, <3>1
    <3>6. f[x] \in Int /\ Sum(A) \in Int /\ Sum(U \ {x}) \in Int
      BY <1>1, <3>1
    <3>7. Sum(A \cup U) = Sum(A) + Sum(U)
      <4>. HIDE DEF Sum
      <4>. QED  BY <3>3, <3>4, <3>5, <3>6
    <3>. QED  BY <3>7
  <2>. QED  BY <2>1, <2>2
<1>4. \A U \in SUBSET S : U \in G
  <2>. HIDE DEF G
  <2>. QED  BY <1>3, SubsetInduction
<1>5. B \in G
  BY <1>4
<1>. QED  BY <1>5

(***************************************************************************)
(* A sum taken in groups is the sum: x stands for the members P that g     *)
(* sends to it, with their sum.                                            *)
(***************************************************************************)
LEMMA SumInGroups ==
  ASSUME NEW f, NEW S, IsFiniteSet(S), \A i \in S : f[i] \in Int,
         NEW X, IsFiniteSet(X), NEW g \in [S -> X], NEW e,
         \A x \in X : \E P \in SUBSET S :
           (\A i \in S : i \in P <=> g[i] = x) /\ e[x] = SumFunctionOnSet(f, P)
  PROVE  SumFunctionOnSet(e, X) = SumFunctionOnSet(f, S)
<1>. DEFINE Of(T) == {i \in S : g[i] \in T}
            G == {T \in SUBSET X : SumFunctionOnSet(e, T) = SumFunctionOnSet(f, Of(T))}
<1>1. \A T \in SUBSET S : SumFunctionOnSet(f, T) \in Int
  BY FS_Subset, SumInt
<1>2. \A x \in X : e[x] \in Int
  BY <1>1
<1>3. ASSUME NEW T \in SUBSET X, \A U \in SUBSET T : U # T => U \in G
      PROVE  T \in G
  <2>1. CASE T = {}
    <3>1. Of(T) = {}
      BY <2>1
    <3>2. SumFunctionOnSet(e, {}) = 0 /\ SumFunctionOnSet(f, {}) = 0
      BY SumRecursion
    <3>3. SumFunctionOnSet(e, T) = SumFunctionOnSet(f, Of(T))
      BY <2>1, <3>1, <3>2
    <3>. QED  BY <3>3
  <2>2. CASE T # {}
    <3>1. PICK x \in T : TRUE
      BY <2>2
    <3>2. T \ {x} \in SUBSET T /\ T \ {x} # T /\ T \ {x} \in SUBSET X
      BY <3>1
    <3>3. T \ {x} \in G
      BY <1>3, <3>2
    <3>4. SumFunctionOnSet(e, T \ {x}) = SumFunctionOnSet(f, Of(T \ {x}))
      BY <3>3
    <3>5. SumFunctionOnSet(e, T) = e[x] + SumFunctionOnSet(e, T \ {x})
      <4>1. IsFiniteSet(T) /\ \A y \in T : e[y] \in Int
        BY <1>2, FS_Subset
      <4>. QED  BY <3>1, <4>1, SumTake
    <3>6. e[x] = SumFunctionOnSet(f, {i \in S : g[i] = x})
      <4>1. PICK P \in SUBSET S :
              (\A i \in S : i \in P <=> g[i] = x) /\ e[x] = SumFunctionOnSet(f, P)
        BY <3>1
      <4>2. P = {i \in S : g[i] = x}
        BY <4>1
      <4>. QED  BY <4>1, <4>2
    <3>7. /\ {i \in S : g[i] = x} \in SUBSET S /\ Of(T \ {x}) \in SUBSET S
          /\ {i \in S : g[i] = x} \cap Of(T \ {x}) = {}
      OBVIOUS
    <3>8. SumFunctionOnSet(f, {i \in S : g[i] = x} \cup Of(T \ {x}))
            = SumFunctionOnSet(f, {i \in S : g[i] = x}) + SumFunctionOnSet(f, Of(T \ {x}))
      <4>1. PICK A \in SUBSET S, B \in SUBSET S :
              A = {i \in S : g[i] = x} /\ B = Of(T \ {x}) /\ A \cap B = {}
        BY <3>7
      <4>2. SumFunctionOnSet(f, A \cup B) = SumFunctionOnSet(f, A) + SumFunctionOnSet(f, B)
        BY <4>1, SumUnion
      <4>. HIDE DEF Of
      <4>. QED  BY <4>1, <4>2
    <3>9. Of(T) = {i \in S : g[i] = x} \cup Of(T \ {x})
      BY <3>1
    <3>10. SumFunctionOnSet(e, T) = SumFunctionOnSet(f, Of(T))
      <4>. HIDE DEF Of
      <4>. QED  BY <3>4, <3>5, <3>6, <3>8, <3>9
    <3>. QED  BY <3>10
  <2>. QED  BY <2>1, <2>2
<1>4. \A T \in SUBSET X : T \in G
  <2>. HIDE DEF G
  <2>. QED  BY <1>3, SubsetInduction
<1>5. SumFunctionOnSet(e, X) = SumFunctionOnSet(f, Of(X))
  BY <1>4
<1>6. Of(X) = S
  OBVIOUS
<1>. QED  BY <1>5, <1>6

-----------------------------------------------------------------------------
LEMMA SumZero ==
  ASSUME NEW f, NEW S, IsFiniteSet(S), \A x \in S : f[x] = 0
  PROVE  SumFunctionOnSet(f, S) = 0
<1>. DEFINE G == {T \in SUBSET S : SumFunctionOnSet(f, T) = 0}
<1>1. ASSUME NEW T \in SUBSET S, \A U \in SUBSET T : U # T => U \in G
      PROVE  T \in G
  <2>1. CASE T = {}
    BY <2>1, SumRecursion, FS_EmptySet
  <2>2. CASE T # {}
    <3>1. PICK x \in T : TRUE
      BY <2>2
    <3>2. T \ {x} \in SUBSET T /\ T \ {x} # T
      BY <3>1
    <3>3. SumFunctionOnSet(f, T \ {x}) = 0
      BY <1>1, <3>2
    <3>4. IsFiniteSet(T) /\ \A y \in T : f[y] \in Int
      BY FS_Subset
    <3>5. SumFunctionOnSet(f, T) = f[x] + SumFunctionOnSet(f, T \ {x})
      BY <3>1, <3>4, SumTake
    <3>6. f[x] = 0
      BY <3>1
    <3>7. SumFunctionOnSet(f, T) = 0
      BY <3>3, <3>5, <3>6
    <3>. QED  BY <3>7
  <2>. QED  BY <2>1, <2>2
<1>2. \A T \in SUBSET S : T \in G
  <2>. HIDE DEF G
  <2>. QED  BY <1>1, SubsetInduction
<1>3. S \in G
  BY <1>2
<1>. QED  BY <1>3

(***************************************************************************)
(* What the sum of a function to the natural numbers is good for: it is at *)
(* least that of a smaller function on part of the set, and if it is       *)
(* positive so is one of the values.                                       *)
(***************************************************************************)
LEMMA SumOfNats ==
  ASSUME NEW S, IsFiniteSet(S), NEW f, DOMAIN f = S, \A x \in S : f[x] \in Nat
  PROVE  /\ SumFunction(f) \in Nat
         /\ SumFunction(f) > 0 => \E x \in S : f[x] > 0
         /\ \A x \in S : f[x] <= SumFunction(f)
<1>1. SumFunction(f) = SumFunctionOnSet(f, S)
  BY DEF SumFunction
<1>2. SumFunctionOnSet(f, S) \in Nat
  BY SumGrows
<1>3. (\A x \in S : f[x] = 0) => SumFunctionOnSet(f, S) = 0
  BY SumZero
<1>4. ASSUME NEW x \in S
      PROVE  f[x] <= SumFunctionOnSet(f, S)
  <2>1. SumFunctionOnSet(f, S) = f[x] + SumFunctionOnSet(f, S \ {x})
    BY SumTake
  <2>2. IsFiniteSet(S \ {x}) /\ \A y \in S \ {x} : f[y] \in Int /\ 0 <= f[y]
    BY FS_Subset
  <2>3. PICK R : R = S \ {x}
    OBVIOUS
  <2>4. SumFunctionOnSet(f, R) \in Nat
    BY <2>2, <2>3, SumGrows
  <2>5. f[x] \in Nat
    OBVIOUS
  <2>. QED  BY <2>1, <2>3, <2>4, <2>5
<1>. QED  BY <1>1, <1>2, <1>3, <1>4

LEMMA SumOfPart ==
  ASSUME NEW S, IsFiniteSet(S), NEW f, DOMAIN f = S, \A x \in S : f[x] \in Nat,
         NEW T \in SUBSET S, NEW e, DOMAIN e = T, \A x \in T : e[x] = f[x]
  PROVE  SumFunction(e) <= SumFunction(f)
<1>1. SumFunction(f) = SumFunctionOnSet(f, S) /\ SumFunction(e) = SumFunctionOnSet(e, T)
  BY DEF SumFunction
<1>2. IsFiniteSet(T)
  BY FS_Subset
<1>3. SumFunctionOnSet(e, T) = SumFunctionOnSet(f, T)
  BY <1>2, SumSame
<1>4. SumFunctionOnSet(f, T) <= SumFunctionOnSet(f, S)
  BY SumGrows
<1>. QED  BY <1>1, <1>3, <1>4
=============================================================================
