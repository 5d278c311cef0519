------------------------------ MODULE SumLemmas ------------------------------
(* What the sum of a function over a finite set (SumFunctionOnSet) is, for the *)
(* proofs about the ledgers, the capacity and the counts of the components;    *)
(* and the extremes, the places and the prefix sums these proofs share.        *)
EXTENDS Integers, FiniteSets, FiniteSetsExt, Functions, FiniteSetTheorems,
        WellFoundedInduction, TLAPS

\* The element that a fold over a set takes first, and what it is to add the figures
\* of f up over every subset of T.
SomeOf(s) == CHOOSE x \in s : TRUE
Adds(f, g, T) ==
  g = [s \in SUBSET T |-> IF s = {} THEN 0 ELSE f[SomeOf(s)] + g[s \ {SomeOf(s)}]]

\* A set of naturals has a least element.
LEMMA NatMin ==
  ASSUME NEW T \in SUBSET Nat, T # {}
  PROVE  \E x \in T : \A y \in T : x <= y
  <1> DEFINE LT == {ss \in Nat \X Nat : ss[1] < ss[2]}
  <1>1. IsWellFoundedOn(LT, Nat)
    BY NatLessThanWellFounded DEF OpToRel
  <1>2. PICK x \in T : \A y \in T : ~ (<<y, x>> \in LT)
    BY <1>1, WFMin
  <1>3. \A y \in T : ~(y < x)
    BY <1>2
  <1> QED BY <1>3

\* Among subsets of a finite set there is one that no other is a part of: an
\* induction over the size of a set, by its smallest counterexample.
LEMMA SmallestSet ==
  ASSUME NEW S, IsFiniteSet(S), NEW T \in SUBSET (SUBSET S), T # {}
  PROVE  \E x \in T : \A y \in T : ~(y \subseteq x /\ y # x)
  <1>1. FiniteSubsetsOf(S) = SUBSET S
    BY FS_FiniteSubsetsOfFinite
  <1>2. PICK x \in T : \A y \in T : ~ (<<y, x>> \in StrictSubsetOrdering(S))
    BY <1>1, WFMin, FS_StrictSubsetOrderingWellFounded
  <1> QED BY <1>2 DEF StrictSubsetOrdering

\* A sum is what some function that adds the figures up says of the set.
LEMMA Unfold == \A f, S : SumFunctionOnSet(f, S) = (CHOOSE g : Adds(f, g, S))[S]
  BY DEF SumFunctionOnSet, FoldFunctionOnSet, MapThenFoldSet, Adds, SomeOf

\* The element taken first is an element.
LEMMA SomeIn == \A s : s # {} => SomeOf(s) \in s
  BY DEF SomeOf

\* Two functions that add up the same figures agree where both are defined.
LEMMA AddsAgree ==
  ASSUME NEW f, NEW T, NEW U, IsFiniteSet(T), NEW g, NEW h, Adds(f, g, T), Adds(f, h, U)
  PROVE  \A s \in (SUBSET T) \cap (SUBSET U) : g[s] = h[s]
  <1> DEFINE Bad == {s \in (SUBSET T) \cap (SUBSET U) : g[s] # h[s]}
  <1> SUFFICES ASSUME Bad # {} PROVE FALSE
    OBVIOUS
  <1>1. PICK s \in Bad : \A y \in Bad : ~(y \subseteq s /\ y # s)
    <2>1. Bad \in SUBSET (SUBSET T)
      OBVIOUS
    <2> HIDE DEF Bad
    <2> QED BY <2>1, SmallestSet
  <1>2. CASE s = {}
    BY <1>2, <1>1 DEF Adds
  <1>3. CASE s # {}
    <2> DEFINE r == s \ {SomeOf(s)}
    <2>1. SomeOf(s) \in s
      BY <1>3, SomeIn
    <2>2. r \subseteq s /\ r # s /\ r \in (SUBSET T) \cap (SUBSET U)
      BY <2>1
    <2>3. g[r] = h[r]
      BY <1>1, <2>2
    <2>4. g[s] = f[SomeOf(s)] + g[r] /\ h[s] = f[SomeOf(s)] + h[r]
      BY <1>1, <1>3 DEF Adds
    <2> QED BY <2>3, <2>4, <1>1
  <1> QED BY <1>2, <1>3

\* There is a function that adds the figures up, of every finite set.
LEMMA AddsExists ==
  ASSUME NEW f, NEW S, IsFiniteSet(S)
  PROVE  \E g : Adds(f, g, S)
  <1> DEFINE Bad == {T \in SUBSET S : ~\E g : Adds(f, g, T)}
  <1> SUFFICES ASSUME Bad # {} PROVE FALSE
    OBVIOUS
  <1>1. PICK T \in Bad : \A y \in Bad : ~(y \subseteq T /\ y # T)
    <2>1. Bad \in SUBSET (SUBSET S)
      OBVIOUS
    <2> HIDE DEF Bad
    <2> QED BY <2>1, SmallestSet
  <1> DEFINE Of(U) == CHOOSE g : Adds(f, g, U)
             val(s) == Of(s)[s]
             top == IF T = {} THEN 0 ELSE f[SomeOf(T)] + val(T \ {SomeOf(T)})
             h == [s \in SUBSET T |-> IF s = T THEN top ELSE val(s)]
  <1>2. \A U \in SUBSET T : U # T => Adds(f, Of(U), U)
    BY <1>1
  <1>3. \A U \in SUBSET T : IsFiniteSet(U)
    BY FS_Subset
  <1>4. ASSUME NEW s \in SUBSET T, s # T
        PROVE  h[s] = IF s = {} THEN 0 ELSE f[SomeOf(s)] + h[s \ {SomeOf(s)}]
    <2>1. Adds(f, Of(s), s)
      BY <1>2, <1>4
    <2>2. CASE s = {}
      BY <2>1, <2>2, <1>4 DEF Adds
    <2>3. CASE s # {}
      <3> DEFINE r == s \ {SomeOf(s)}
      <3>1. r \subseteq s /\ r \subseteq T /\ r # T
        BY <1>4
      <3>2. Adds(f, Of(r), r)
        BY <1>2, <3>1
      <3>3. Of(s)[r] = Of(r)[r]
        <4>1. r \in (SUBSET s) \cap (SUBSET r) /\ IsFiniteSet(s)
          BY <1>3
        <4> HIDE DEF Of, r
        <4> QED BY <2>1, <3>2, <4>1, AddsAgree
      <3>4. Of(s)[s] = f[SomeOf(s)] + Of(s)[r]
        <4> HIDE DEF Of
        <4> QED BY <2>1, <2>3 DEF Adds
      <3> HIDE DEF Of
      <3> QED BY <3>1, <3>3, <3>4, <2>3, <1>4
    <2> QED BY <2>2, <2>3
  <1>5. h[T] = IF T = {} THEN 0 ELSE f[SomeOf(T)] + h[T \ {SomeOf(T)}]
    <2> HIDE DEF Of
    <2>1. T # {} => T \ {SomeOf(T)} \in SUBSET T /\ T \ {SomeOf(T)} # T
      BY SomeIn
    <2> QED BY <2>1
  <1>6. Adds(f, h, T)
    <2> DEFINE body(s) == IF s = {} THEN 0 ELSE f[SomeOf(s)] + h[s \ {SomeOf(s)}]
    <2>1. \A s \in SUBSET T : h[s] = body(s)
      <3> HIDE DEF h, top, Of
      <3> QED BY <1>4, <1>5
    <2>2. h = [s \in SUBSET T |-> h[s]]
      OBVIOUS
    <2> HIDE DEF h
    <2>3. h = [s \in SUBSET T |-> body(s)]
      BY <2>1, <2>2
    <2> QED BY <2>3 DEF Adds
  <1> QED BY <1>6, <1>1

\* The sum of nothing is zero.
LEMMA SumEmpty == \A f : SumFunctionOnSet(f, {}) = 0
  <1> TAKE f
  <1>1. \E g : Adds(f, g, {})
    BY AddsExists, FS_EmptySet
  <1>2. Adds(f, CHOOSE g : Adds(f, g, {}), {})
    BY <1>1
  <1> QED BY <1>2, Unfold DEF Adds

\* A sum is its first figure and the sum of the others.
LEMMA SumStep ==
  ASSUME NEW f, NEW S, IsFiniteSet(S), S # {}
  PROVE  SumFunctionOnSet(f, S)
           = f[SomeOf(S)] + SumFunctionOnSet(f, S \ {SomeOf(S)})
  <1> DEFINE r == S \ {SomeOf(S)}
             Of(U) == CHOOSE g : Adds(f, g, U)
  <1>1. IsFiniteSet(r)
    BY FS_Subset
  <1>2. Adds(f, Of(S), S) /\ Adds(f, Of(r), r)
    BY <1>1, AddsExists
  <1>3. SumFunctionOnSet(f, S) = Of(S)[S] /\ SumFunctionOnSet(f, r) = Of(r)[r]
    BY Unfold
  <1> HIDE DEF Of
  <1>4. Of(S)[S] = f[SomeOf(S)] + Of(S)[r]
    BY <1>2 DEF Adds
  <1>5. Of(S)[r] = Of(r)[r]
    <2>1. r \in (SUBSET S) \cap (SUBSET r)
      OBVIOUS
    <2> HIDE DEF r
    <2> QED BY <1>2, <2>1, AddsAgree
  <1> QED BY <1>3, <1>4, <1>5

-----------------------------------------------------------------------------
\* A sum of integers is one, of naturals too.
LEMMA SumType ==
  ASSUME NEW f, NEW S, IsFiniteSet(S), NEW N \in {Nat, Int}, \A x \in S : f[x] \in N
  PROVE  SumFunctionOnSet(f, S) \in N
  <1> DEFINE Bad == {T \in SUBSET S : SumFunctionOnSet(f, T) \notin N}
  <1> SUFFICES ASSUME Bad # {} PROVE FALSE
    OBVIOUS
  <1>1. PICK T \in Bad : \A y \in Bad : ~(y \subseteq T /\ y # T)
    <2>1. Bad \in SUBSET (SUBSET S)
      OBVIOUS
    <2> HIDE DEF Bad
    <2> QED BY <2>1, SmallestSet
  <1>2. T # {}
    BY SumEmpty
  <1> DEFINE r == T \ {SomeOf(T)}
  <1>3. r \subseteq T /\ r # T /\ r \subseteq S /\ SomeOf(T) \in S
    BY <1>2, SomeIn
  <1>4. SumFunctionOnSet(f, r) \in N
    BY <1>1, <1>3
  <1>5. SumFunctionOnSet(f, T) = f[SomeOf(T)] + SumFunctionOnSet(f, r)
    BY <1>2, SumStep, FS_Subset
  <1>6. f[SomeOf(T)] + SumFunctionOnSet(f, r) \in N
    <2> HIDE DEF r
    <2> QED BY <1>3, <1>4
  <1> QED BY <1>5, <1>6

\* Any element may be taken out of a sum, whichever the fold takes first.
LEMMA SumSplit ==
  ASSUME NEW f, NEW S, IsFiniteSet(S), \A x \in S : f[x] \in Int
  PROVE  \A x \in S : SumFunctionOnSet(f, S) = f[x] + SumFunctionOnSet(f, S \ {x})
  <1> DEFINE Splits(T) == \A x \in T : SumFunctionOnSet(f, T)
                                        = f[x] + SumFunctionOnSet(f, T \ {x})
             Bad == {T \in SUBSET S : ~Splits(T)}
  <1> SUFFICES ASSUME Bad # {} PROVE FALSE
    OBVIOUS
  <1>1. PICK T \in Bad : \A y \in Bad : ~(y \subseteq T /\ y # T)
    <2>1. Bad \in SUBSET (SUBSET S)
      OBVIOUS
    <2> HIDE DEF Bad
    <2> QED BY <2>1, SmallestSet
  <1>2. ASSUME NEW x \in T
        PROVE  SumFunctionOnSet(f, T) = f[x] + SumFunctionOnSet(f, T \ {x})
    <2> DEFINE c == SomeOf(T)
    <2>1. c \in T /\ IsFiniteSet(T)
      BY SomeIn, FS_Subset
    <2>2. SumFunctionOnSet(f, T) = f[c] + SumFunctionOnSet(f, T \ {c})
      BY <2>1, SumStep
    <2>3. CASE x = c
      BY <2>2, <2>3
    <2>4. CASE x # c
      <3> DEFINE rest == (T \ {c}) \ {x}
      <3>1. Splits(T \ {c}) /\ Splits(T \ {x})
        <4>1. /\ T \ {c} \in SUBSET S /\ T \ {c} \subseteq T /\ T \ {c} # T
              /\ T \ {x} \in SUBSET S /\ T \ {x} \subseteq T /\ T \ {x} # T
          BY <2>1
        <4> HIDE DEF Splits, c
        <4> QED BY <4>1, <1>1
      <3>2. SumFunctionOnSet(f, T \ {c}) = f[x] + SumFunctionOnSet(f, rest)
        <4>1. x \in T \ {c}
          BY <2>4
        <4> HIDE DEF c
        <4> QED BY <4>1, <3>1
      <3>3. SumFunctionOnSet(f, T \ {x}) = f[c] + SumFunctionOnSet(f, rest)
        <4>1. c \in T \ {x} /\ (T \ {x}) \ {c} = rest
          BY <2>4, <2>1
        <4> HIDE DEF c, rest
        <4> QED BY <4>1, <3>1
      <3>4. f[x] \in Int /\ f[c] \in Int /\ SumFunctionOnSet(f, rest) \in Int
        <4>1. rest \subseteq S /\ IsFiniteSet(rest)
          BY <2>1, FS_Subset
        <4>2. SumFunctionOnSet(f, rest) \in Int
          <5> HIDE DEF rest
          <5> QED BY <4>1, SumType
        <4> QED BY <4>2, <2>1
      <3> HIDE DEF c, rest, Splits
      <3> QED BY <2>2, <3>2, <3>3, <3>4
    <2> QED BY <2>3, <2>4
  <1> QED BY <1>1, <1>2

\* One more element adds its figure.
LEMMA SumAdd ==
  ASSUME NEW f, NEW S, IsFiniteSet(S), NEW x, x \notin S, \A y \in S \cup {x} : f[y] \in Int
  PROVE  SumFunctionOnSet(f, S \cup {x}) = SumFunctionOnSet(f, S) + f[x]
  <1>1. IsFiniteSet(S \cup {x}) /\ (S \cup {x}) \ {x} = S
    BY FS_AddElement
  <1>2. SumFunctionOnSet(f, S \cup {x}) = f[x] + SumFunctionOnSet(f, (S \cup {x}) \ {x})
    BY <1>1, SumSplit
  <1>3. SumFunctionOnSet(f, S) \in Int /\ f[x] \in Int
    BY SumType
  <1>4. SumFunctionOnSet(f, S \cup {x}) = f[x] + SumFunctionOnSet(f, S)
    BY <1>1, <1>2
  <1> QED BY <1>3, <1>4

\* Figures equal one by one have one sum.
LEMMA SumSame ==
  ASSUME NEW f, NEW g, NEW S, IsFiniteSet(S), \A x \in S : f[x] = g[x]
  PROVE  SumFunctionOnSet(f, S) = SumFunctionOnSet(g, S)
  <1> DEFINE Bad == {T \in SUBSET S : SumFunctionOnSet(f, T) # SumFunctionOnSet(g, T)}
  <1> SUFFICES ASSUME Bad # {} PROVE FALSE
    OBVIOUS
  <1>1. PICK T \in Bad : \A y \in Bad : ~(y \subseteq T /\ y # T)
    <2>1. Bad \in SUBSET (SUBSET S)
      OBVIOUS
    <2> HIDE DEF Bad
    <2> QED BY <2>1, SmallestSet
  <1>2. T # {}
    BY SumEmpty
  <1> DEFINE r == T \ {SomeOf(T)}
  <1>3. r \subseteq T /\ r # T /\ r \subseteq S /\ SomeOf(T) \in S /\ IsFiniteSet(T)
    BY <1>2, SomeIn, FS_Subset
  <1>4. SumFunctionOnSet(f, r) = SumFunctionOnSet(g, r)
    BY <1>1, <1>3
  <1>5. /\ SumFunctionOnSet(f, T) = f[SomeOf(T)] + SumFunctionOnSet(f, r)
        /\ SumFunctionOnSet(g, T) = g[SomeOf(T)] + SumFunctionOnSet(g, r)
    BY <1>2, <1>3, SumStep
  <1> HIDE DEF r
  <1> QED BY <1>1, <1>3, <1>4, <1>5

\* Figures that are all zero add up to zero.
LEMMA SumZero ==
  ASSUME NEW f, NEW S, IsFiniteSet(S), \A x \in S : f[x] = 0
  PROVE  SumFunctionOnSet(f, S) = 0
  <1> DEFINE Bad == {T \in SUBSET S : SumFunctionOnSet(f, T) # 0}
  <1> SUFFICES ASSUME Bad # {} PROVE FALSE
    OBVIOUS
  <1>1. PICK T \in Bad : \A y \in Bad : ~(y \subseteq T /\ y # T)
    <2>1. Bad \in SUBSET (SUBSET S)
      OBVIOUS
    <2> HIDE DEF Bad
    <2> QED BY <2>1, SmallestSet
  <1>2. T # {}
    BY SumEmpty
  <1> DEFINE r == T \ {SomeOf(T)}
  <1>3. r \subseteq T /\ r # T /\ r \subseteq S /\ SomeOf(T) \in S /\ IsFiniteSet(T)
    BY <1>2, SomeIn, FS_Subset
  <1>4. SumFunctionOnSet(f, r) = 0
    BY <1>1, <1>3
  <1>5. SumFunctionOnSet(f, T) = f[SomeOf(T)] + SumFunctionOnSet(f, r)
    BY <1>2, <1>3, SumStep
  <1> HIDE DEF r
  <1> QED BY <1>1, <1>3, <1>4, <1>5

\* Figures each at most another have a sum at most the other.
LEMMA SumAtMost ==
  ASSUME NEW f, NEW g, NEW S, IsFiniteSet(S),
         \A x \in S : f[x] \in Int /\ g[x] \in Int /\ f[x] <= g[x]
  PROVE  SumFunctionOnSet(f, S) <= SumFunctionOnSet(g, S)
  <1> DEFINE Bad == {T \in SUBSET S : ~(SumFunctionOnSet(f, T) <= SumFunctionOnSet(g, T))}
  <1> SUFFICES ASSUME Bad # {} PROVE FALSE
    OBVIOUS
  <1>1. PICK T \in Bad : \A y \in Bad : ~(y \subseteq T /\ y # T)
    <2>1. Bad \in SUBSET (SUBSET S)
      OBVIOUS
    <2> HIDE DEF Bad
    <2> QED BY <2>1, SmallestSet
  <1>2. T # {}
    BY SumEmpty
  <1> DEFINE r == T \ {SomeOf(T)}
  <1>3. /\ r \subseteq T /\ r # T /\ r \subseteq S /\ SomeOf(T) \in S
        /\ IsFiniteSet(T) /\ IsFiniteSet(r)
    BY <1>2, SomeIn, FS_Subset
  <1>4. SumFunctionOnSet(f, r) <= SumFunctionOnSet(g, r)
    BY <1>1, <1>3
  <1>5. /\ SumFunctionOnSet(f, T) = f[SomeOf(T)] + SumFunctionOnSet(f, r)
        /\ SumFunctionOnSet(g, T) = g[SomeOf(T)] + SumFunctionOnSet(g, r)
    BY <1>2, <1>3, SumStep
  <1> HIDE DEF r
  <1>6. SumFunctionOnSet(f, r) \in Int /\ SumFunctionOnSet(g, r) \in Int
    BY <1>3, SumType
  <1>7. f[SomeOf(T)] \in Int /\ g[SomeOf(T)] \in Int /\ f[SomeOf(T)] <= g[SomeOf(T)]
    BY <1>3
  <1>8. SumFunctionOnSet(f, T) <= SumFunctionOnSet(g, T)
    BY <1>4, <1>5, <1>6, <1>7
  <1> QED BY <1>1, <1>8

\* Figures added one by one add up to the two sums.
LEMMA SumPlus ==
  ASSUME NEW f, NEW g, NEW h, NEW S, IsFiniteSet(S),
         \A x \in S : f[x] \in Int /\ g[x] \in Int /\ h[x] = f[x] + g[x]
  PROVE  SumFunctionOnSet(h, S) = SumFunctionOnSet(f, S) + SumFunctionOnSet(g, S)
  <1> DEFINE Bad == {T \in SUBSET S : SumFunctionOnSet(h, T)
                                        # SumFunctionOnSet(f, T) + SumFunctionOnSet(g, T)}
  <1> SUFFICES ASSUME Bad # {} PROVE FALSE
    OBVIOUS
  <1>1. PICK T \in Bad : \A y \in Bad : ~(y \subseteq T /\ y # T)
    <2>1. Bad \in SUBSET (SUBSET S)
      OBVIOUS
    <2> HIDE DEF Bad
    <2> QED BY <2>1, SmallestSet
  <1>2. T # {}
    <2>1. /\ SumFunctionOnSet(h, {}) = 0 /\ SumFunctionOnSet(f, {}) = 0
          /\ SumFunctionOnSet(g, {}) = 0
      BY SumEmpty
    <2>2. SumFunctionOnSet(h, T) # SumFunctionOnSet(f, T) + SumFunctionOnSet(g, T)
      BY <1>1
    <2>3. T = {} => 0 # 0 + 0
      BY <2>1, <2>2
    <2> QED BY <2>3
  <1> DEFINE r == T \ {SomeOf(T)}
  <1>3. r \subseteq T /\ r # T /\ r \subseteq S /\ SomeOf(T) \in S /\ IsFiniteSet(T) /\ IsFiniteSet(r)
    BY <1>2, SomeIn, FS_Subset
  <1>4. SumFunctionOnSet(h, r) = SumFunctionOnSet(f, r) + SumFunctionOnSet(g, r)
    BY <1>1, <1>3
  <1>5. /\ SumFunctionOnSet(f, T) = f[SomeOf(T)] + SumFunctionOnSet(f, r)
        /\ SumFunctionOnSet(g, T) = g[SomeOf(T)] + SumFunctionOnSet(g, r)
        /\ SumFunctionOnSet(h, T) = h[SomeOf(T)] + SumFunctionOnSet(h, r)
    BY <1>2, <1>3, SumStep
  <1>6. SumFunctionOnSet(f, r) \in Int /\ SumFunctionOnSet(g, r) \in Int
    <2>1. \A x \in r : f[x] \in Int /\ g[x] \in Int
      BY <1>3
    <2> HIDE DEF r
    <2> QED BY <2>1, <1>3, SumType
  <1>7. /\ f[SomeOf(T)] \in Int /\ g[SomeOf(T)] \in Int
        /\ h[SomeOf(T)] = f[SomeOf(T)] + g[SomeOf(T)]
    BY <1>3
  <1> HIDE DEF r
  <1> QED BY <1>1, <1>4, <1>5, <1>6, <1>7

\* One figure of a sum changes.
LEMMA SumChange ==
  ASSUME NEW f, NEW g, NEW S, IsFiniteSet(S), NEW x \in S,
         \A y \in S : f[y] \in Int, g[x] \in Int, \A y \in S \ {x} : g[y] = f[y]
  PROVE  SumFunctionOnSet(g, S) = SumFunctionOnSet(f, S) + g[x] - f[x]
  <1>1. IsFiniteSet(S \ {x})
    BY FS_RemoveElement
  <1>2. SumFunctionOnSet(f, S \ {x}) = SumFunctionOnSet(g, S \ {x})
    BY <1>1, SumSame
  <1>3. /\ SumFunctionOnSet(f, S) = f[x] + SumFunctionOnSet(f, S \ {x})
        /\ SumFunctionOnSet(g, S) = g[x] + SumFunctionOnSet(g, S \ {x})
    BY SumSplit
  <1>4. SumFunctionOnSet(f, S \ {x}) \in Int
    BY <1>1, SumType
  <1> QED BY <1>2, <1>3, <1>4

\* Figures in a proportion below a given one have sums in a proportion below it.
LEMMA SumBelow ==
  ASSUME NEW f, NEW g, NEW S, IsFiniteSet(S), S # {}, NEW a \in Int, NEW b \in Int,
         \A x \in S : f[x] \in Int /\ g[x] \in Int /\ b * g[x] < a * f[x]
  PROVE  b * SumFunctionOnSet(g, S) < a * SumFunctionOnSet(f, S)
  <1> DEFINE Bad == {T \in SUBSET S :
                       T # {} /\ ~(b * SumFunctionOnSet(g, T) < a * SumFunctionOnSet(f, T))}
  <1> SUFFICES ASSUME Bad # {} PROVE FALSE
    OBVIOUS
  <1>1. PICK T \in Bad : \A y \in Bad : ~(y \subseteq T /\ y # T)
    <2>1. Bad \in SUBSET (SUBSET S)
      OBVIOUS
    <2> HIDE DEF Bad
    <2> QED BY <2>1, SmallestSet
  <1> DEFINE r == T \ {SomeOf(T)}
             F == SumFunctionOnSet(f, r)
             G == SumFunctionOnSet(g, r)
             p == f[SomeOf(T)]
             q == g[SomeOf(T)]
  <1>2. /\ r \subseteq T /\ r # T /\ r \subseteq S /\ SomeOf(T) \in S
        /\ IsFiniteSet(T) /\ IsFiniteSet(r)
    BY <1>1, SomeIn, FS_Subset
  <1>3. SumFunctionOnSet(f, T) = p + F /\ SumFunctionOnSet(g, T) = q + G
    BY <1>1, <1>2, SumStep
  <1>4. F \in Int /\ G \in Int /\ p \in Int /\ q \in Int /\ b * q < a * p
    BY <1>2, SumType
  <1>5. b * G <= a * F
    <2>1. CASE r = {}
      <3>1. F = 0 /\ G = 0
        BY <2>1, SumEmpty
      <3> HIDE DEF F, G
      <3> QED BY <3>1
    <2>2. CASE r # {}
      <3>1. b * G < a * F
        BY <1>1, <1>2, <2>2
      <3> HIDE DEF F, G
      <3> QED BY <1>4, <3>1
    <2> QED BY <2>1, <2>2
  <1> HIDE DEF F, G, p, q
  <1>6. b * (q + G) < a * (p + F)
    <2>1. b * (q + G) = b * q + b * G /\ a * (p + F) = a * p + a * F
      BY <1>4
    <2>2. b * q \in Int /\ b * G \in Int /\ a * p \in Int /\ a * F \in Int
      BY <1>4
    <2> QED BY <2>1, <2>2, <1>4, <1>5
  <1> QED BY <1>1, <1>3, <1>6

\* The proportion of two sums is not beyond all of the proportions summed.
LEMMA Mediant ==
  ASSUME NEW f, NEW g, NEW S, IsFiniteSet(S), S # {}, \A x \in S : f[x] \in Int /\ g[x] \in Int
  PROVE  LET F == SumFunctionOnSet(f, S)
             G == SumFunctionOnSet(g, S)
         IN  /\ \E x \in S : f[x] * G <= F * g[x]
             /\ \E x \in S : f[x] * G >= F * g[x]
  <1> DEFINE F == SumFunctionOnSet(f, S)
             G == SumFunctionOnSet(g, S)
  <1>1. F \in Int /\ G \in Int
    BY SumType
  <1>2. ASSUME \A x \in S : F * g[x] < f[x] * G PROVE FALSE
    <2>1. \A x \in S : F * g[x] < G * f[x]
      <3> HIDE DEF F, G
      <3> QED BY <1>1, <1>2
    <2>2. F * G < G * F
      <3>1. \A x \in S : f[x] \in Int /\ g[x] \in Int /\ F * g[x] < G * f[x]
        BY <2>1
      <3> QED BY <1>1, <3>1, SumBelow
    <2> HIDE DEF F, G
    <2> QED BY <1>1, <2>2
  <1>3. ASSUME \A x \in S : f[x] * G < F * g[x] PROVE FALSE
    <2>1. \A x \in S : G * f[x] < F * g[x]
      <3> HIDE DEF F, G
      <3> QED BY <1>1, <1>3
    <2>2. G * F < F * G
      <3>1. \A x \in S : f[x] \in Int /\ g[x] \in Int /\ G * f[x] < F * g[x]
        BY <2>1
      <3> QED BY <1>1, <3>1, SumBelow
    <2> HIDE DEF F, G
    <2> QED BY <1>1, <2>2
  <1>4. \E x \in S : f[x] * G <= F * g[x]
    <2> HIDE DEF F, G
    <2>1. \A x \in S : f[x] * G \in Int /\ F * g[x] \in Int
      BY <1>1
    <2> QED BY <1>2, <2>1
  <1>5. \E x \in S : f[x] * G >= F * g[x]
    <2> HIDE DEF F, G
    <2>1. \A x \in S : f[x] * G \in Int /\ F * g[x] \in Int
      BY <1>1
    <2> QED BY <1>3, <2>1
  <1> QED BY <1>4, <1>5

-----------------------------------------------------------------------------
(* Extremes, and induction.                                                   *)

\* The least and the greatest of some numbers, where there is one.
LEMMA MinIs ==
  ASSUME NEW S \in SUBSET Int, \E x \in S : \A y \in S : x <= y
  PROVE  Min(S) \in S /\ \A y \in S : Min(S) <= y
  BY DEF Min

LEMMA MaxIs ==
  ASSUME NEW S \in SUBSET Int, \E x \in S : \A y \in S : y <= x
  PROVE  Max(S) \in S /\ \A y \in S : y <= Max(S)
  BY DEF Max

\* The least of two numbers, and the greatest of two or three.
LEMMA MinOfTwo ==
  ASSUME NEW a \in Int, NEW b \in Int
  PROVE  Min({a, b}) = IF a <= b THEN a ELSE b
  <1>1. \E x \in {a, b} : \A y \in {a, b} : x <= y
    OBVIOUS
  <1> QED BY <1>1, MinIs

LEMMA MaxOfTwo ==
  ASSUME NEW a \in Int, NEW b \in Int
  PROVE  Max({a, b}) = IF a >= b THEN a ELSE b
  <1>1. \E x \in {a, b} : \A y \in {a, b} : y <= x
    OBVIOUS
  <1> QED BY <1>1, MaxIs

LEMMA MaxOfNat ==
  ASSUME NEW a \in Nat, NEW b \in Nat, NEW c \in Nat
  PROVE  Max({a, b}) \in Nat /\ Max({a, b, c}) \in Nat
  <1>1. \E x \in {a, b} : \A y \in {a, b} : y <= x
    OBVIOUS
  <1>2. \E x \in {a, b, c} : \A y \in {a, b, c} : y <= x
    <2>1. CASE b <= a /\ c <= a
      BY <2>1
    <2>2. CASE a <= b /\ c <= b
      BY <2>2
    <2>3. CASE a <= c /\ b <= c
      BY <2>3
    <2> QED BY <2>1, <2>2, <2>3
  <1> QED BY <1>1, <1>2, MaxIs

\* Induction, on the numbers that are in a set.
LEMMA Induct ==
  ASSUME NEW S, 0 \in S, \A n \in Nat : n \in S => n + 1 \in S
  PROVE  Nat \subseteq S
  <1> DEFINE Bad == {n \in Nat : n \notin S}
  <1> SUFFICES ASSUME Bad # {} PROVE FALSE
    OBVIOUS
  <1>1. PICK m \in Bad : \A k \in Bad : m <= k
    <2>1. Bad \in SUBSET Nat
      OBVIOUS
    <2> HIDE DEF Bad
    <2> QED BY <2>1, NatMin
  <1>2. m \in Nat /\ m # 0 /\ m - 1 \in Nat /\ m - 1 + 1 = m
    BY <1>1
  <1>3. m - 1 \notin Bad
    <2> HIDE DEF Bad
    <2> QED BY <1>1, <1>2
  <1> QED BY <1>1, <1>2, <1>3

-----------------------------------------------------------------------------
(* The places of a set of numbers, in their order.                            *)

\* How many of P there are up to i: each place of P is the one more, in order.
Upto(P, i) == Cardinality(P \cap (1..i))

\* It is a natural number, at most how many there are.
LEMMA UptoType ==
  ASSUME NEW P, IsFiniteSet(P)
  PROVE  /\ Cardinality(P) \in Nat
         /\ \A i : IsFiniteSet(P \cap (1..i)) /\ Upto(P, i) \in Nat /\ Upto(P, i) <= Cardinality(P)
  <1>1. \A i : P \cap (1..i) \subseteq P
    OBVIOUS
  <1> QED BY <1>1, FS_Subset, FS_CardinalityType DEF Upto

\* It rises from one place of P to the next.
LEMMA UptoRises ==
  ASSUME NEW P, IsFiniteSet(P), P \subseteq Nat \ {0}, NEW i \in P, NEW j \in P, i < j
  PROVE  Upto(P, i) < Upto(P, j)
  <1>1. i \in Int /\ j \in Int
    OBVIOUS
  <1>2. IsFiniteSet(P \cap (1..i)) /\ IsFiniteSet(P \cap (1..j)) /\ Upto(P, i) \in Nat /\ Upto(P, j) \in Nat
    BY UptoType
  <1>3. (P \cap (1..i)) \cup {j} \subseteq P \cap (1..j) /\ j \notin P \cap (1..i)
    BY <1>1
  <1>4. Cardinality((P \cap (1..i)) \cup {j}) = Upto(P, i) + 1
    BY <1>2, <1>3, FS_AddElement DEF Upto
  <1>5. Cardinality((P \cap (1..i)) \cup {j}) <= Upto(P, j)
    BY <1>2, <1>3, FS_Subset DEF Upto
  <1> QED BY <1>2, <1>4, <1>5

\* For every number up to how many there are, there is the place that is that many.
LEMMA Nth ==
  ASSUME NEW n \in Nat, NEW P, P \subseteq 1..n, IsFiniteSet(P), NEW k \in 1..Cardinality(P)
  PROVE  \E i \in P : Upto(P, i) = k
  <1> DEFINE T == {i \in 0..n : Upto(P, i) >= k}
  <1>0. Cardinality(P) \in Nat /\ k \in Nat /\ k >= 1 /\ k <= Cardinality(P)
    <2>1. Cardinality(P) \in Nat
      BY UptoType
    <2> QED BY <2>1
  <1>1. T \in SUBSET Nat /\ T # {}
    <2>1. P \cap (1..n) = P
      OBVIOUS
    <2>2. n \in 0..n /\ Upto(P, n) = Cardinality(P)
      BY <2>1 DEF Upto
    <2>3. n \in T
      BY <1>0, <2>2
    <2> QED BY <2>3
  <1>2. PICK m \in T : \A y \in T : m <= y
    <2> HIDE DEF T
    <2> QED BY <1>1, NatMin
  <1>3. m \in 0..n /\ m \in Int /\ Upto(P, m) >= k
    BY <1>2
  <1>03. \A i : Upto(P, i) \in Nat /\ IsFiniteSet(P \cap (1..i))
    BY UptoType
  <1>4. m # 0
    <2>1. P \cap (1..0) = {}
      OBVIOUS
    <2>2. Upto(P, 0) = 0
      BY <2>1, FS_EmptySet DEF Upto
    <2> QED BY <1>0, <1>3, <2>2
  <1>5. m - 1 \in Int /\ Upto(P, m - 1) \in Nat /\ Upto(P, m - 1) < k
    <2>1. m - 1 \in 0..n
      BY <1>3, <1>4
    <2>2. Upto(P, m - 1) \in Nat
      BY <1>03
    <2>3. m - 1 \notin T
      <3> HIDE DEF T
      <3> QED BY <1>2, <1>3, <2>1
    <2>4. ~(Upto(P, m - 1) >= k)
      BY <2>1, <2>3
    <2> QED BY <1>0, <2>1, <2>2, <2>4
  <1>6. m \in P
    <2> SUFFICES ASSUME m \notin P PROVE FALSE
      OBVIOUS
    <2>1. P \cap (1..m) = P \cap (1..m - 1)
      BY <1>3
    <2> QED BY <1>0, <1>3, <1>5, <2>1 DEF Upto
  <1>7. Upto(P, m) = Upto(P, m - 1) + 1
    <2>1. P \cap (1..m) = (P \cap (1..m - 1)) \cup {m} /\ m \notin P \cap (1..m - 1)
      BY <1>3, <1>4, <1>6
    <2>2. IsFiniteSet(P \cap (1..m - 1))
      BY <1>03
    <2> QED BY <2>1, <2>2, FS_AddElement DEF Upto
  <1> QED BY <1>0, <1>3, <1>03, <1>5, <1>6, <1>7

-----------------------------------------------------------------------------
(* A prefix sum grows by the figure after it.                                 *)
Prefix(f, k) == SumFunctionOnSet(f, 1..k)

\* The first of them is zero, and the next adds one figure.
LEMMA PrefixStep ==
  ASSUME NEW f, NEW k \in Nat, \A i \in 1..(k + 1) : f[i] \in Nat
  PROVE  /\ Prefix(f, 0) = 0 /\ Prefix(f, k) \in Nat
         /\ Prefix(f, k + 1) = Prefix(f, k) + f[k + 1]
  <1>1. 1..0 = {} /\ 1..(k + 1) = (1..k) \cup {k + 1} /\ k + 1 \notin 1..k
    OBVIOUS
  <1>2. IsFiniteSet(1..k)
    BY FS_Interval
  <1>3. Prefix(f, 0) = 0
    BY <1>1, SumEmpty DEF Prefix
  <1>4. Prefix(f, k) \in Nat
    <2>1. \A i \in 1..k : f[i] \in Nat
      OBVIOUS
    <2> QED BY <1>2, <2>1, SumType DEF Prefix
  <1>5. Prefix(f, k + 1) = Prefix(f, k) + f[k + 1]
    <2>1. \A i \in (1..k) \cup {k + 1} : f[i] \in Int
      BY <1>1
    <2>2. SumFunctionOnSet(f, (1..k) \cup {k + 1}) = SumFunctionOnSet(f, 1..k) + f[k + 1]
      BY <1>1, <1>2, <2>1, SumAdd
    <2> QED BY <1>1, <2>2 DEF Prefix
  <1> QED BY <1>3, <1>4, <1>5

\* It never falls.
LEMMA PrefixRises ==
  ASSUME NEW f, NEW m \in Nat, \A i \in 1..m : f[i] \in Nat, NEW j \in 0..m, NEW k \in j..m
  PROVE  Prefix(f, j) <= Prefix(f, k) /\ Prefix(f, j) \in Nat /\ Prefix(f, k) \in Nat
  <1> DEFINE S == {n \in Nat : n <= m => Prefix(f, n) \in Nat /\ (j <= n => Prefix(f, j) <= Prefix(f, n))}
  <1>0. Prefix(f, 0) = 0
    <2>1. 1..0 = {}
      OBVIOUS
    <2> QED BY <2>1, SumEmpty DEF Prefix
  <1>1. 0 \in S
    BY <1>0
  <1>2. ASSUME NEW n \in Nat, n \in S PROVE n + 1 \in S
    <2>0. n + 1 \in Nat /\ (n + 1 <= m => n <= m) /\ n \in Nat
      OBVIOUS
    <2>1. SUFFICES ASSUME n + 1 <= m
                   PROVE  Prefix(f, n + 1) \in Nat /\ (j <= n + 1 => Prefix(f, j) <= Prefix(f, n + 1))
      BY <2>0
    <2>2. f[n + 1] \in Nat /\ Prefix(f, n + 1) = Prefix(f, n) + f[n + 1] /\ Prefix(f, n) \in Nat
      <3>1. \A i \in 1..(n + 1) : f[i] \in Nat
        BY <2>1
      <3> QED BY <3>1, PrefixStep
    <2>3. CASE j <= n
      <3>1. Prefix(f, n) \in Nat /\ Prefix(f, j) <= Prefix(f, n)
        BY <2>0, <2>1, <2>3, <1>2
      <3>2. Prefix(f, j) \in Nat
        <4>1. \A i \in 1..(j + 1) : j + 1 <= m => f[i] \in Nat
          OBVIOUS
        <4>2. CASE j + 1 <= m
          BY <4>1, <4>2, PrefixStep
        <4> QED BY <4>2, <2>1, <2>3
      <3> QED BY <2>2, <3>1, <3>2
    <2>4. CASE j > n
      <3>1. j <= n + 1 => j = n + 1
        BY <2>4
      <3> QED BY <2>2, <3>1
    <2> QED BY <2>3, <2>4
  <1> HIDE DEF S
  <1>3. Nat \subseteq S
    BY <1>1, <1>2, Induct
  <1>4. k \in S /\ j \in S
    BY <1>3
  <1> QED BY <1>4 DEF S

\* It stays where there is nothing to add.
LEMMA PrefixStays ==
  ASSUME NEW f, NEW m \in Nat, \A i \in 1..m : f[i] \in Nat, NEW j \in 0..m, NEW k \in j..m,
         \A i \in (j + 1)..m : f[i] = 0
  PROVE  Prefix(f, j) = Prefix(f, k)
  <1> DEFINE S == {n \in Nat : n <= m /\ j <= n => Prefix(f, j) = Prefix(f, n)}
  <1>1. 0 \in S
    BY DEF Prefix
  <1>2. ASSUME NEW n \in Nat, n \in S PROVE n + 1 \in S
    <2>1. SUFFICES ASSUME n + 1 <= m, j <= n + 1 PROVE Prefix(f, j) = Prefix(f, n + 1)
      OBVIOUS
    <2>2. Prefix(f, n + 1) = Prefix(f, n) + f[n + 1] /\ Prefix(f, n) \in Nat
      <3>1. \A i \in 1..(n + 1) : f[i] \in Nat
        BY <2>1
      <3> QED BY <3>1, PrefixStep
    <2>3. CASE j <= n
      BY <2>1, <2>2, <2>3, <1>2
    <2>4. CASE j = n + 1
      BY <2>4
    <2> QED BY <2>1, <2>3, <2>4
  <1> HIDE DEF S
  <1>3. Nat \subseteq S
    BY <1>1, <1>2, Induct
  <1>4. k \in S
    BY <1>3
  <1> QED BY <1>4 DEF S

\* Where it rises there is something to add.
LEMMA PrefixPasses ==
  ASSUME NEW f, NEW m \in Nat, \A i \in 1..m : f[i] \in Nat, NEW j \in 0..m, NEW k \in j..m,
         NEW i \in (j + 1)..k, f[i] > 0
  PROVE  Prefix(f, j) < Prefix(f, k)
  <1>1. i - 1 \in j..m /\ i \in 0..m /\ k \in i..m /\ i - 1 \in 0..m /\ i - 1 \in Nat /\ i - 1 + 1 = i
    OBVIOUS
  <1>2. Prefix(f, j) <= Prefix(f, i - 1) /\ Prefix(f, j) \in Nat /\ Prefix(f, i - 1) \in Nat
    BY <1>1, PrefixRises
  <1>3. Prefix(f, i) <= Prefix(f, k) /\ Prefix(f, i) \in Nat /\ Prefix(f, k) \in Nat
    BY <1>1, PrefixRises
  <1>4. Prefix(f, i) = Prefix(f, i - 1) + f[i]
    <2>1. \A h \in 1..(i - 1 + 1) : f[h] \in Nat
      BY <1>1
    <2>2. Prefix(f, i - 1 + 1) = Prefix(f, i - 1) + f[i - 1 + 1]
      BY <1>1, <2>1, PrefixStep
    <2> QED BY <1>1, <2>2
  <1> QED BY <1>2, <1>3, <1>4
==============================================================================
