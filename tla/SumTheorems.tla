----------------------------- MODULE SumTheorems -----------------------------
(***************************************************************************)
(* Lemmas about SumFunctionOnSet of the community module Functions, Min    *)
(* and Max, for whatever is summed: what the proofs of the analytics rest  *)
(* on.                                                                     *)
(*                                                                         *)
(* The provers cannot instantiate an induction theorem whose parameter is  *)
(* an operator.  Here an induction is the search for a smallest            *)
(* counterexample (WFMin over the subsets of a finite set), which is first *)
(* order, and a sum is the recursive function that Functions chooses.      *)
(***************************************************************************)
EXTENDS Integers, FiniteSets, Functions, FiniteSetsExt, FiniteSetTheorems,
        WellFoundedInduction, TLAPS

-----------------------------------------------------------------------------
(* Least and greatest elements.                                            *)

\* A set of naturals that is not empty has a least element, and Min is it.
LEMMA LeastNatural ==
    ASSUME NEW S \in SUBSET Nat, S # {}
    PROVE  Min(S) \in S /\ \A x \in S : Min(S) <= x
<1>1. IsWellFoundedOn(OpToRel(<, Nat), Nat)
    BY NatLessThanWellFounded
<1>2. PICK x \in S : \A y \in S : ~ (<<y, x>> \in OpToRel(<, Nat))
    BY <1>1, WFMin
<1>3. \A y \in S : <<y, x>> \in OpToRel(<, Nat) <=> y < x
    BY DEF OpToRel
<1>4. \A y \in S : ~ (y < x)
    BY <1>2, <1>3, Zenon
<1>5. \A y \in S : x <= y
    BY <1>4
<1>6. QED
    BY <1>5 DEF Min

\* A set of integers with an upper bound has a greatest element, and Max is it.
LEMMA GreatestInteger ==
    ASSUME NEW S \in SUBSET Int, S # {}, NEW b \in Int, \A x \in S : x <= b
    PROVE  Max(S) \in S /\ \A x \in S : x <= Max(S)
<1> DEFINE gaps == {b - x : x \in S}
<1>1. gaps \in SUBSET Nat /\ gaps # {}
    <2>1. \A x \in S : b - x \in Nat
        OBVIOUS
    <2>2. QED
        BY <2>1
<1>2. PICK g \in gaps : \A h \in gaps : g <= h
    BY <1>1, LeastNatural
<1>3. PICK x \in S : g = b - x
    OBVIOUS
<1>4. \A y \in S : b - x <= b - y
    BY <1>2, <1>3
<1>5. \A y \in S : x >= y
    BY <1>4
<1>6. QED
    BY <1>5 DEF Max

-----------------------------------------------------------------------------
(* Induction over a finite set.                                            *)

\* A family of subsets of a finite set that is not empty has a smallest member.
LEMMA SmallestSet ==
    ASSUME NEW S, IsFiniteSet(S), NEW B \in SUBSET SUBSET S, B # {}
    PROVE  \E T \in B : \A U \in B : U \subseteq T => U = T
<1>1. IsWellFoundedOn(StrictSubsetOrdering(S), SUBSET S)
    BY FS_StrictSubsetOrderingWellFounded, FS_FiniteSubsetsOfFinite
<1>2. PICK T \in B : \A U \in B : ~ (<<U, T>> \in StrictSubsetOrdering(S))
    BY <1>1, WFMin, Zenon
<1>3. ASSUME NEW U \in B, U \subseteq T, U # T PROVE FALSE
    <2>1. <<U, T>> \in StrictSubsetOrdering(S)
        BY <1>2, <1>3 DEF StrictSubsetOrdering
    <2>2. QED
        BY <1>2, <2>1
<1>4. QED
    BY <1>2, <1>3

\* Induction over a finite set: what holds of the empty set and of a set with
\* one element more holds of the whole.
LEMMA SetInduction ==
    ASSUME NEW S, IsFiniteSet(S), NEW G, {} \in G,
           \A T \in SUBSET S : \A x \in S \ T : T \in G => T \cup {x} \in G
    PROVE  S \in G
<1> DEFINE bad == (SUBSET S) \ G
<1> SUFFICES ASSUME S \notin G PROVE FALSE
    OBVIOUS
<1>1. PICK T \in bad : \A U \in bad : U \subseteq T => U = T
    <2>1. bad \in SUBSET SUBSET S /\ S \in bad
        BY Zenon
    <2> HIDE DEF bad
    <2>2. QED
        BY <2>1, SmallestSet
<1>2. PICK x : x \in T
    OBVIOUS
<1>3. /\ T \ {x} \in SUBSET S /\ x \in S \ (T \ {x})
      /\ (T \ {x}) \cup {x} = T /\ T \ {x} # T
    BY <1>1, <1>2
<1>4. T \ {x} \in bad
    BY <1>1, <1>3, Zenon
<1>5. QED
    BY <1>1, <1>3, <1>4

\* A finite set of integers has a greatest element.
LEMMA FiniteMax ==
    ASSUME NEW S \in SUBSET Int, IsFiniteSet(S), S # {}
    PROVE  Max(S) \in S /\ \A x \in S : x <= Max(S)
<1> DEFINE G == {T \in SUBSET S : \E b \in Int : \A x \in T : x <= b}
<1>1. {} \in G
    OBVIOUS
<1>2. ASSUME NEW T \in SUBSET S, NEW y \in S \ T, T \in G PROVE T \cup {y} \in G
    <2>1. PICK b \in Int : \A x \in T : x <= b
        BY <1>2
    <2>2. PICK c \in Int : b <= c /\ y <= c
        <3>1. b <= y \/ y <= b
            OBVIOUS
        <3>2. QED
            BY <3>1
    <2>3. \A x \in T \cup {y} : x <= c
        BY <2>1, <2>2
    <2>4. QED
        BY <2>3
<1>3. S \in G
    <2> HIDE DEF G
    <2>1. QED
        BY <1>1, <1>2, SetInduction
<1>4. PICK b \in Int : \A x \in S : x <= b
    BY <1>3
<1>5. QED
    BY <1>4, GreatestInteger

\* A power of two is a positive natural number: the number of subsets of a set.
LEMMA PowerOfTwo == ASSUME NEW n \in Nat PROVE 2 ^ n \in Nat \ {0}
<1> DEFINE S == 1 .. n
<1>1. IsFiniteSet(S) /\ Cardinality(S) = n
    BY FS_Interval
<1> HIDE DEF S
<1>2. IsFiniteSet(SUBSET S) /\ Cardinality(SUBSET S) = 2 ^ n
    BY <1>1, FS_SUBSET
<1>3. SUBSET S # {}
    OBVIOUS
<1>4. Cardinality(SUBSET S) \in Nat /\ Cardinality(SUBSET S) # 0
    BY <1>2, <1>3, FS_CardinalityType, FS_EmptySet
<1>5. QED
    BY <1>2, <1>4

\* Twice a smaller power of two is at most the larger: the subsets of a set
\* without and with one more element.
LEMMA Doubling == ASSUME NEW n \in Nat, NEW k \in 0 .. n - 1 PROVE 2 * 2 ^ k <= 2 ^ n
<1> DEFINE S == 1 .. k
           T == 1 .. n
           P == SUBSET S
           Q == {A \cup {n} : A \in P}
<1>1. /\ IsFiniteSet(S) /\ Cardinality(S) = k
      /\ IsFiniteSet(T) /\ Cardinality(T) = n
    BY FS_Interval
<1>2. S \subseteq T /\ n \in T /\ n \notin S
    OBVIOUS
<1> HIDE DEF S, T
<1>3. /\ IsFiniteSet(P) /\ Cardinality(P) = 2 ^ k
      /\ IsFiniteSet(SUBSET T) /\ Cardinality(SUBSET T) = 2 ^ n
    BY <1>1, FS_SUBSET
<1>4. P \subseteq SUBSET T /\ Q \subseteq SUBSET T /\ P \cap Q = {}
    BY <1>2
<1>5. ExistsBijection(P, Q)
    <2> DEFINE f == [A \in P |-> A \cup {n}]
    <2>1. f \in [P -> Q]
        OBVIOUS
    <2>2. \A A, B \in P : f[A] = f[B] => A = B
        <3> SUFFICES ASSUME NEW A \in P, NEW B \in P, f[A] = f[B] PROVE A = B
            OBVIOUS
        <3>1. A \cup {n} = B \cup {n} /\ n \notin A /\ n \notin B
            BY <1>2
        <3>2. QED
            BY <3>1
    <2>3. \A C \in Q : \E A \in P : f[A] = C
        OBVIOUS
    <2> HIDE DEF f, P, Q
    <2>4. f \in Bijection(P, Q)
        BY <2>1, <2>2, <2>3, Zenon DEF Bijection, Injection, Surjection, IsInjective
    <2>5. QED
        BY <2>4 DEF ExistsBijection
<1> HIDE DEF P, Q
<1>6. IsFiniteSet(Q) /\ Cardinality(Q) = Cardinality(P)
    BY <1>3, <1>5, FS_Bijection
<1>7. /\ IsFiniteSet(P \cup Q)
      /\ Cardinality(P \cup Q) = Cardinality(P) + Cardinality(Q) - Cardinality(P \cap Q)
    BY <1>3, <1>6, FS_Union
<1>8. Cardinality(P \cap Q) = 0
    BY <1>4, FS_EmptySet
<1>9. P \cup Q \in SUBSET SUBSET T
    BY <1>4
<1>10. Cardinality(P \cup Q) <= Cardinality(SUBSET T)
    BY <1>3, <1>9, FS_Subset
<1>11. Cardinality(P) \in Nat /\ Cardinality(SUBSET T) \in Nat
    BY <1>3, FS_CardinalityType
<1>12. QED
    BY <1>3, <1>6, <1>7, <1>8, <1>10, <1>11

-----------------------------------------------------------------------------
(* Sums.                                                                   *)

\* The recursive function behind SumFunctionOnSet.
Element(s) == CHOOSE x \in s : TRUE
Partial(f, S, g) ==
    g = [s \in SUBSET S |-> IF s = {} THEN 0 ELSE f[Element(s)] + g[s \ {Element(s)}]]
TheSum(f, S) == (CHOOSE g : Partial(f, S, g))[S]

\* Functions' sum is the value of that function at the whole set.
LEMMA SumIsFold == ASSUME NEW f, NEW S PROVE SumFunctionOnSet(f, S) = TheSum(f, S)
BY DEF SumFunctionOnSet, FoldFunctionOnSet, MapThenFoldSet, TheSum, Partial, Element

\* Its defining equation at one subset.
LEMMA PartialAt ==
    ASSUME NEW f, NEW S, NEW g, Partial(f, S, g), NEW s \in SUBSET S
    PROVE  g[s] = IF s = {} THEN 0 ELSE f[Element(s)] + g[s \ {Element(s)}]
<1> DEFINE e(h, t) == IF t = {} THEN 0 ELSE f[Element(t)] + h[t \ {Element(t)}]
<1>1. g = [t \in SUBSET S |-> e(g, t)]
    BY DEF Partial
<1> HIDE DEF e
<1>2. g[s] = e(g, s)
    BY <1>1
<1> QED
    BY <1>2 DEF e

\* Two of them agree where both are defined.
LEMMA PartialsAgree ==
    ASSUME NEW f, NEW S, NEW T, NEW g, NEW h, Partial(f, S, g), Partial(f, T, h),
           NEW u \in SUBSET (S \cap T), IsFiniteSet(u)
    PROVE  g[u] = h[u]
<1> SUFFICES ASSUME g[u] # h[u] PROVE FALSE
    OBVIOUS
<1> DEFINE bad == {s \in SUBSET u : g[s] # h[s]}
<1>1. PICK s \in bad : \A t \in bad : t \subseteq s => t = s
    <2>1. bad \in SUBSET SUBSET u /\ u \in bad
        BY Zenon
    <2> HIDE DEF bad
    <2>2. QED
        BY <2>1, SmallestSet
<1>2. s # {}
    BY <1>1, PartialAt
<1>3. Element(s) \in s
    BY <1>2 DEF Element
<1>4. s \ {Element(s)} \notin bad
    BY <1>1, <1>3
<1>5. g[s \ {Element(s)}] = h[s \ {Element(s)}]
    BY <1>4
<1>6. /\ g[s] = f[Element(s)] + g[s \ {Element(s)}]
      /\ h[s] = f[Element(s)] + h[s \ {Element(s)}]
    BY <1>2, PartialAt
<1>7. QED
    BY <1>1, <1>5, <1>6

\* For a finite set there is one.
LEMMA PartialExists ==
    ASSUME NEW f, NEW S, IsFiniteSet(S)
    PROVE  \E g : Partial(f, S, g)
<1> SUFFICES ASSUME ~ \E g : Partial(f, S, g) PROVE FALSE
    OBVIOUS
<1> DEFINE bad == {s \in SUBSET S : ~ \E g : Partial(f, s, g)}
<1>1. PICK T \in bad : \A t \in bad : t \subseteq T => t = T
    <2>1. bad \in SUBSET SUBSET S /\ S \in bad
        BY Zenon
    <2> HIDE DEF bad
    <2>2. QED
        BY <2>1, SmallestSet
<1> DEFINE P(s) == CHOOSE g : Partial(f, s, g)
           H(s) == P(s)[s]
           G == [s \in SUBSET T |-> IF s = {} THEN 0 ELSE f[Element(s)] + H(s \ {Element(s)})]
<1>2. ASSUME NEW s \in SUBSET T, s # T PROVE Partial(f, s, P(s))
    BY <1>1, <1>2
<1>3. ASSUME NEW s \in SUBSET T, s # T PROVE H(s) = G[s]
    <2>1. H(s) = IF s = {} THEN 0 ELSE f[Element(s)] + P(s)[s \ {Element(s)}]
        BY <1>2, <1>3, PartialAt
    <2>2. CASE s = {}
        BY <2>1, <2>2
    <2>3. CASE s # {}
        <3> DEFINE t == s \ {Element(s)}
        <3>1. Element(s) \in s
            BY <2>3 DEF Element
        <3>2. t \in SUBSET T /\ t # T /\ t \in SUBSET (s \cap t)
            BY <3>1
        <3>3. IsFiniteSet(t)
            BY <1>1, <3>2, FS_Subset
        <3>4. Partial(f, s, P(s)) /\ Partial(f, t, P(t))
            BY <1>2, <1>3, <3>2
        <3> HIDE DEF P, t
        <3>5. P(s)[t] = P(t)[t]
            BY <3>2, <3>3, <3>4, PartialsAgree
        <3>6. G[s] = f[Element(s)] + H(t)
            BY <2>3 DEF t
        <3>7. QED
            BY <2>1, <2>3, <3>5, <3>6 DEF t
    <2>4. QED
        BY <2>2, <2>3
<1>4. ASSUME NEW s \in SUBSET T
      PROVE  G[s] = IF s = {} THEN 0 ELSE f[Element(s)] + G[s \ {Element(s)}]
    <2>1. CASE s = {}
        BY <2>1
    <2>2. CASE s # {}
        <3>1. Element(s) \in s
            BY <2>2 DEF Element
        <3>2. s \ {Element(s)} \in SUBSET T /\ s \ {Element(s)} # T
            BY <3>1
        <3> HIDE DEF H
        <3>3. G[s] = f[Element(s)] + H(s \ {Element(s)})
            BY <2>2
        <3> HIDE DEF G
        <3>4. QED
            BY <1>3, <2>2, <3>2, <3>3
    <2>3. QED
        BY <2>1, <2>2
<1>5. Partial(f, T, G)
    <2>1. G = [s \in SUBSET T |-> G[s]]
        OBVIOUS
    <2> HIDE DEF G
    <2>2. G = [s \in SUBSET T |-> IF s = {} THEN 0 ELSE f[Element(s)] + G[s \ {Element(s)}]]
        BY <1>4, <2>1
    <2>3. QED
        BY <2>2 DEF Partial
<1>6. QED
    BY <1>1, <1>5

\* The equation SumFunctionOnSet was meant to satisfy.
LEMMA SumStep ==
    ASSUME NEW f, NEW S, IsFiniteSet(S)
    PROVE  /\ S = {} => SumFunctionOnSet(f, S) = 0
           /\ S # {} => /\ Element(S) \in S
                        /\ SumFunctionOnSet(f, S)
                             = f[Element(S)] + SumFunctionOnSet(f, S \ {Element(S)})
<1> DEFINE P(s) == CHOOSE g : Partial(f, s, g)
           T == S \ {Element(S)}
<1>1. IsFiniteSet(T)
    BY FS_Subset
<1>2. Partial(f, S, P(S)) /\ Partial(f, T, P(T))
    BY <1>1, PartialExists
<1>3. S # {} => Element(S) \in S
    BY DEF Element
<1>4. SumFunctionOnSet(f, S) = P(S)[S] /\ SumFunctionOnSet(f, T) = P(T)[T]
    BY SumIsFold DEF TheSum
<1> HIDE DEF P
<1>5. P(S)[T] = P(T)[T]
    BY <1>1, <1>2, PartialsAgree
<1>6. P(S)[S] = IF S = {} THEN 0 ELSE f[Element(S)] + P(S)[T]
    BY <1>2, PartialAt
<1> QED
    BY <1>3, <1>4, <1>5, <1>6

\* The sum of integers is an integer, in whatever order it is taken.
LEMMA SumOrder ==
    ASSUME NEW f, NEW S, IsFiniteSet(S), \A x \in S : f[x] \in Int
    PROVE  /\ SumFunctionOnSet(f, S) \in Int
           /\ \A x \in S : SumFunctionOnSet(f, S) = f[x] + SumFunctionOnSet(f, S \ {x})
<1> DEFINE Sum(T) == SumFunctionOnSet(f, T)
           Good(T) == Sum(T) \in Int /\ \A x \in T : Sum(T) = f[x] + Sum(T \ {x})
           bad == {T \in SUBSET S : ~Good(T)}
<1> SUFFICES ASSUME ~Good(S) PROVE FALSE
    OBVIOUS
<1>1. PICK T \in bad : \A t \in bad : t \subseteq T => t = T
    <2>1. bad \in SUBSET SUBSET S /\ S \in bad
        BY Zenon
    <2> HIDE DEF bad
    <2>2. QED
        BY <2>1, SmallestSet
<1>2. IsFiniteSet(T) /\ T \in SUBSET S
    BY <1>1, FS_Subset
<1>3. \A U \in SUBSET T : U # T => Good(U)
    BY <1>1
<1> DEFINE c == Element(T)
<1>4. T # {} => c \in T /\ Sum(T) = f[c] + Sum(T \ {c})
    BY <1>2, SumStep
<1>5. T = {} => Sum(T) = 0
    BY <1>2, SumStep
<1> HIDE DEF Sum, c
<1>6. T # {}
    BY <1>1, <1>5
<1>7. \A x \in T : Sum(T \ {x}) \in Int
    BY <1>3
<1>8. Sum(T) \in Int
    BY <1>2, <1>4, <1>6, <1>7
<1>9. ASSUME NEW x \in T PROVE Sum(T) = f[x] + Sum(T \ {x})
    <2>1. CASE x = c
        BY <1>4, <1>6, <2>1
    <2>2. CASE x # c
        <3>1. Sum(T \ {c}) = f[x] + Sum((T \ {c}) \ {x})
            BY <1>3, <1>4, <1>6, <2>2
        <3>2. Sum(T \ {x}) = f[c] + Sum((T \ {x}) \ {c})
            BY <1>3, <1>4, <1>6, <2>2
        <3>3. (T \ {c}) \ {x} = (T \ {x}) \ {c}
            OBVIOUS
        <3>4. Sum((T \ {c}) \ {x}) \in Int
            <4>1. (T \ {c}) \ {x} \in SUBSET T /\ (T \ {c}) \ {x} # T
                BY <1>4, <1>6
            <4>2. QED
                BY <1>3, <4>1
        <3>5. f[x] \in Int /\ f[c] \in Int
            BY <1>2, <1>4, <1>6
        <3>6. Sum(T) = f[c] + Sum(T \ {c})
            BY <1>4, <1>6
        <3> DEFINE rest == Sum((T \ {c}) \ {x})
        <3>7. /\ rest \in Int
              /\ Sum(T \ {c}) = f[x] + rest
              /\ Sum(T \ {x}) = f[c] + rest
            BY <3>1, <3>2, <3>3, <3>4
        <3> HIDE DEF rest
        <3>8. QED
            BY <3>5, <3>6, <3>7
    <2>3. QED
        BY <2>1, <2>2
<1>10. QED
    BY <1>1, <1>8, <1>9

\* The sum over no element.
LEMMA SumEmpty == ASSUME NEW f PROVE SumFunctionOnSet(f, {}) = 0
BY FS_EmptySet, SumStep

\* The sum over one element more.
LEMMA SumAdd ==
    ASSUME NEW f, NEW S, IsFiniteSet(S), NEW x, x \notin S,
           \A y \in S \cup {x} : f[y] \in Int
    PROVE  /\ SumFunctionOnSet(f, S) \in Int
           /\ SumFunctionOnSet(f, S \cup {x}) = SumFunctionOnSet(f, S) + f[x]
<1> DEFINE W == S \cup {x}
<1>1. IsFiniteSet(W)
    BY FS_AddElement
<1>2. W \ {x} = S /\ x \in W
    OBVIOUS
<1>3. \A y \in W : f[y] \in Int
    OBVIOUS
<1>4. \A y \in S : f[y] \in Int
    BY <1>3
<1>5. SumFunctionOnSet(f, S) \in Int
    BY <1>4, SumOrder
<1> HIDE DEF W
<1>6. SumFunctionOnSet(f, W) = f[x] + SumFunctionOnSet(f, W \ {x})
    BY <1>1, <1>2, <1>3, SumOrder
<1>7. SumFunctionOnSet(f, W) = f[x] + SumFunctionOnSet(f, S)
    BY <1>2, <1>6, Zenon
<1>8. f[x] \in Int
    BY <1>2, <1>3
<1>9. SumFunctionOnSet(f, W) = SumFunctionOnSet(f, S) + f[x]
    BY <1>5, <1>7, <1>8
<1>10. QED
    BY <1>5, <1>9 DEF W

\* Functions with the same values have the same sum.
LEMMA SumSame ==
    ASSUME NEW f, NEW g, NEW S, IsFiniteSet(S), \A x \in S : f[x] = g[x]
    PROVE  SumFunctionOnSet(f, S) = SumFunctionOnSet(g, S)
<1> DEFINE Good(T) == SumFunctionOnSet(f, T) = SumFunctionOnSet(g, T)
           bad == {T \in SUBSET S : ~Good(T)}
<1> SUFFICES ASSUME ~Good(S) PROVE FALSE
    OBVIOUS
<1>1. PICK T \in bad : \A t \in bad : t \subseteq T => t = T
    <2>1. bad \in SUBSET SUBSET S /\ S \in bad
        BY Zenon
    <2> HIDE DEF bad
    <2>2. QED
        BY <2>1, SmallestSet
<1>2. IsFiniteSet(T) /\ T \in SUBSET S
    BY <1>1, FS_Subset
<1>3. T # {}
    BY <1>1, SumEmpty
<1>4. /\ Element(T) \in T
      /\ SumFunctionOnSet(f, T) = f[Element(T)] + SumFunctionOnSet(f, T \ {Element(T)})
      /\ SumFunctionOnSet(g, T) = g[Element(T)] + SumFunctionOnSet(g, T \ {Element(T)})
    BY <1>2, <1>3, SumStep
<1>5. Good(T \ {Element(T)})
    BY <1>1, <1>4
<1>6. f[Element(T)] = g[Element(T)]
    BY <1>2, <1>4
<1>7. QED
    BY <1>1, <1>4, <1>5, <1>6

\* The sum over two sets that share nothing.
LEMMA SumUnion ==
    ASSUME NEW f, NEW S, NEW T, IsFiniteSet(S), IsFiniteSet(T), S \cap T = {},
           \A x \in S \cup T : f[x] \in Int
    PROVE  /\ SumFunctionOnSet(f, S) \in Int /\ SumFunctionOnSet(f, T) \in Int
           /\ SumFunctionOnSet(f, S \cup T) = SumFunctionOnSet(f, S) + SumFunctionOnSet(f, T)
<1> DEFINE Sum(U) == SumFunctionOnSet(f, U)
           G == {U \in SUBSET S : Sum(U \cup T) = Sum(U) + Sum(T)}
<1>1. Sum(S) \in Int /\ Sum(T) \in Int
    BY SumOrder
<1>2. {} \in G
    <2>1. {} \cup T = T
        OBVIOUS
    <2>2. QED
        BY <1>1, <2>1, SumEmpty
<1>3. ASSUME NEW U \in SUBSET S, NEW x \in S \ U, U \in G PROVE U \cup {x} \in G
    <2>0. IsFiniteSet(U)
        BY FS_Subset, Zenon
    <2>1. IsFiniteSet(U) /\ IsFiniteSet(U \cup T)
        BY <2>0, FS_Union, Zenon
    <2>2. Sum(U) \in Int /\ Sum(U \cup {x}) = Sum(U) + f[x] /\ f[x] \in Int
        BY <2>1, SumAdd
    <2>3. x \notin U \cup T
        OBVIOUS
    <2>4. \A y \in (U \cup T) \cup {x} : f[y] \in Int
        OBVIOUS
    <2>5. Sum((U \cup T) \cup {x}) = Sum(U \cup T) + f[x]
        BY <2>1, <2>3, <2>4, SumAdd
    <2>6. (U \cup T) \cup {x} = (U \cup {x}) \cup T
        OBVIOUS
    <2>7. U \cup {x} \in SUBSET S
        OBVIOUS
    <2>8. Sum(U \cup T) = Sum(U) + Sum(T)
        BY <1>3
    <2> HIDE DEF Sum
    <2>9. Sum((U \cup {x}) \cup T) = Sum(U \cup {x}) + Sum(T)
        <3> DEFINE a == Sum(U \cup {x})
                   b == Sum((U \cup {x}) \cup T)
        <3>1. a = Sum(U) + f[x] /\ b = Sum(U) + Sum(T) + f[x]
            BY <2>2, <2>5, <2>6, <2>8, Zenon
        <3> HIDE DEF a, b
        <3>2. b = a + Sum(T)
            BY <1>1, <2>2, <3>1
        <3>3. QED
            BY <3>2 DEF a, b
    <2>10. QED
        BY <2>7, <2>9, Zenon
<1>4. S \in G
    <2> HIDE DEF G
    <2>1. QED
        BY <1>2, <1>3, SetInduction
<1>5. QED
    BY <1>1, <1>4

\* The sum over one element.
LEMMA SumOne == ASSUME NEW f, NEW x, f[x] \in Int PROVE SumFunctionOnSet(f, {x}) = f[x]
<1> DEFINE e == {}
<1>1. IsFiniteSet(e) /\ x \notin e /\ \A y \in e \cup {x} : f[y] \in Int
    BY FS_EmptySet
<1>2. SumFunctionOnSet(f, e) = 0 /\ e \cup {x} = {x}
    BY SumEmpty
<1> HIDE DEF e
<1>3. SumFunctionOnSet(f, e \cup {x}) = SumFunctionOnSet(f, e) + f[x]
    BY <1>1, SumAdd
<1>4. SumFunctionOnSet(f, {x}) = 0 + f[x]
    BY <1>2, <1>3, Zenon
<1>5. QED
    BY <1>4

\* The part of S with key i.
Fiber(k, S, i) == {x \in S : k[x] = i}

\* Sums of a set by the parts a key divides it into.
LEMMA SumPartition ==
    ASSUME NEW f, NEW S, IsFiniteSet(S), \A x \in S : f[x] \in Int,
           NEW I, IsFiniteSet(I), NEW k, \A x \in S : k[x] \in I,
           NEW g, \A i \in I : g[i] = SumFunctionOnSet(f, Fiber(k, S, i))
    PROVE  SumFunctionOnSet(f, S) = SumFunctionOnSet(g, I)
<1> DEFINE Part(J) == {x \in S : k[x] \in J}
           Sum(U) == SumFunctionOnSet(f, U)
           Parts(J) == SumFunctionOnSet(g, J)
           G == {J \in SUBSET I : Sum(Part(J)) = Parts(J)}
<1>1. \A J : IsFiniteSet(Part(J)) /\ \A x \in Part(J) : f[x] \in Int
    <2> SUFFICES ASSUME NEW J PROVE IsFiniteSet(Part(J)) /\ \A x \in Part(J) : f[x] \in Int
        OBVIOUS
    <2>1. Part(J) \in SUBSET S
        OBVIOUS
    <2> HIDE DEF Part
    <2>2. QED
        BY <2>1, FS_Subset
<1>2. \A i \in I : Part({i}) = Fiber(k, S, i)
    BY DEF Fiber
<1>3. \A i \in I : g[i] = Sum(Part({i}))
    BY <1>2, Zenon
<1> HIDE DEF Part
<1>4. \A i \in I : g[i] \in Int
    <2> SUFFICES ASSUME NEW i \in I PROVE g[i] \in Int
        OBVIOUS
    <2> DEFINE P == Part({i})
    <2>1. IsFiniteSet(P) /\ (\A x \in P : f[x] \in Int) /\ g[i] = Sum(P)
        BY <1>1, <1>3, Zenon
    <2> HIDE DEF P
    <2>2. Sum(P) \in Int
        BY <2>1, SumOrder
    <2>3. QED
        BY <2>1, <2>2
<1>5. {} \in G
    <2>1. Part({}) = {}
        BY DEF Part
    <2>2. Sum({}) = 0 /\ Parts({}) = 0
        BY SumEmpty
    <2>3. QED
        BY <2>1, <2>2, Zenon
<1>6. ASSUME NEW J \in SUBSET I, NEW i \in I \ J, J \in G PROVE J \cup {i} \in G
    <2>1. IsFiniteSet(J)
        BY FS_Subset
    <2>2. i \notin J /\ \A j \in J \cup {i} : g[j] \in Int
        BY <1>4
    <2>3. Parts(J) \in Int /\ Parts(J \cup {i}) = Parts(J) + g[i]
        BY <2>1, <2>2, SumAdd
    <2>4. Part(J) \cap Part({i}) = {} /\ Part(J) \cup Part({i}) = Part(J \cup {i})
        BY DEF Part
    <2>5. \A x \in Part(J) \cup Part({i}) : f[x] \in Int
        BY <1>1
    <2>6. IsFiniteSet(Part(J)) /\ IsFiniteSet(Part({i}))
        BY <1>1
    <2>7. Sum(Part(J) \cup Part({i})) = Sum(Part(J)) + Sum(Part({i}))
        BY <2>4, <2>5, <2>6, SumUnion
    <2>8. Sum(Part(J)) = Parts(J) /\ g[i] = Sum(Part({i}))
        BY <1>3, <1>6
    <2>9. Sum(Part(J \cup {i})) = Parts(J) + g[i]
        BY <2>4, <2>7, <2>8, Zenon
    <2>10. J \cup {i} \in SUBSET I
        OBVIOUS
    <2>11. QED
        BY <2>3, <2>9, <2>10, Zenon
<1>7. I \in G
    <2> HIDE DEF G
    <2>1. QED
        BY <1>5, <1>6, SetInduction
<1>8. Part(I) = S
    BY DEF Part
<1>9. Sum(Part(I)) = Parts(I)
    BY <1>7
<1>10. QED
    BY <1>8, <1>9, Zenon

\* Termwise bounds carry over to the sums.
LEMMA SumMono ==
    ASSUME NEW f, NEW g, NEW S, IsFiniteSet(S),
           \A x \in S : f[x] \in Int /\ g[x] \in Int /\ f[x] <= g[x]
    PROVE  SumFunctionOnSet(f, S) <= SumFunctionOnSet(g, S)
<1> DEFINE F(T) == SumFunctionOnSet(f, T)
           H(T) == SumFunctionOnSet(g, T)
           G == {T \in SUBSET S : F(T) <= H(T)}
<1>1. {} \in G
    <2>1. F({}) = 0 /\ H({}) = 0
        BY SumEmpty
    <2>2. QED
        BY <2>1
<1>2. ASSUME NEW T \in SUBSET S, NEW x \in S \ T, T \in G PROVE T \cup {x} \in G
    <2>1. IsFiniteSet(T)
        BY FS_Subset
    <2>2. \A y \in T \cup {x} : f[y] \in Int /\ g[y] \in Int
        OBVIOUS
    <2>3. F(T) \in Int /\ F(T \cup {x}) = F(T) + f[x]
        BY <2>1, <2>2, SumAdd
    <2>4. H(T) \in Int /\ H(T \cup {x}) = H(T) + g[x]
        BY <2>1, <2>2, SumAdd
    <2>5. F(T) <= H(T)
        BY <1>2
    <2> HIDE DEF F, H
    <2>6. F(T \cup {x}) <= H(T \cup {x})
        BY <2>2, <2>3, <2>4, <2>5
    <2>7. QED
        BY <2>6
<1>3. S \in G
    <2> HIDE DEF G
    <2>1. QED
        BY <1>1, <1>2, SetInduction
<1>4. QED
    BY <1>3

\* The sum of a constant.
LEMMA SumConst ==
    ASSUME NEW f, NEW S, IsFiniteSet(S), NEW c \in Int, \A x \in S : f[x] = c
    PROVE  SumFunctionOnSet(f, S) = c * Cardinality(S)
<1> DEFINE F(T) == SumFunctionOnSet(f, T)
           G == {T \in SUBSET S : F(T) = c * Cardinality(T)}
<1>1. {} \in G
    <2>1. F({}) = 0 /\ Cardinality({}) = 0
        BY SumEmpty, FS_EmptySet
    <2>2. QED
        BY <2>1
<1>2. ASSUME NEW T \in SUBSET S, NEW x \in S \ T, T \in G PROVE T \cup {x} \in G
    <2>1. IsFiniteSet(T)
        BY FS_Subset
    <2>2. \A y \in T \cup {x} : f[y] \in Int
        OBVIOUS
    <2>3. F(T) \in Int /\ F(T \cup {x}) = F(T) + f[x]
        BY <2>1, <2>2, SumAdd
    <2>4. Cardinality(T \cup {x}) = Cardinality(T) + 1 /\ Cardinality(T) \in Nat
        BY <2>1, FS_AddElement, FS_CardinalityType
    <2>5. F(T) = c * Cardinality(T) /\ f[x] = c
        BY <1>2
    <2> HIDE DEF F
    <2>6. F(T \cup {x}) = c * Cardinality(T \cup {x})
        <3> DEFINE n == Cardinality(T)
        <3>1. F(T \cup {x}) = c * n + c /\ n \in Nat /\ Cardinality(T \cup {x}) = n + 1
            BY <2>3, <2>4, <2>5
        <3> HIDE DEF n
        <3>2. c * (n + 1) = c * n + c
            BY <3>1
        <3>3. QED
            BY <3>1, <3>2
    <2>7. QED
        BY <2>6
<1>3. S \in G
    <2> HIDE DEF G
    <2>1. QED
        BY <1>1, <1>2, SetInduction
<1>4. QED
    BY <1>3

\* The sum of two functions.
LEMMA SumPlus ==
    ASSUME NEW f, NEW g, NEW h, NEW S, IsFiniteSet(S),
           \A x \in S : f[x] \in Int /\ g[x] \in Int /\ h[x] = f[x] + g[x]
    PROVE  SumFunctionOnSet(h, S) = SumFunctionOnSet(f, S) + SumFunctionOnSet(g, S)
<1> DEFINE F(T) == SumFunctionOnSet(f, T)
           E(T) == SumFunctionOnSet(g, T)
           H(T) == SumFunctionOnSet(h, T)
           G == {T \in SUBSET S : H(T) = F(T) + E(T)}
<1>1. {} \in G
    <2>1. F({}) = 0 /\ H({}) = 0 /\ E({}) = 0
        BY SumEmpty
    <2>2. QED
        BY <2>1
<1>2. ASSUME NEW T \in SUBSET S, NEW x \in S \ T, T \in G PROVE T \cup {x} \in G
    <2>1. IsFiniteSet(T)
        BY FS_Subset
    <2>2. \A y \in T \cup {x} : f[y] \in Int /\ g[y] \in Int /\ h[y] \in Int
        OBVIOUS
    <2>3. F(T) \in Int /\ F(T \cup {x}) = F(T) + f[x]
        BY <2>1, <2>2, SumAdd
    <2>4. H(T) \in Int /\ H(T \cup {x}) = H(T) + h[x]
        BY <2>1, <2>2, SumAdd
    <2>5. E(T) \in Int /\ E(T \cup {x}) = E(T) + g[x]
        BY <2>1, <2>2, SumAdd
    <2>6. H(T) = F(T) + E(T) /\ h[x] = f[x] + g[x]
        BY <1>2
    <2> HIDE DEF F, E, H
    <2>7. H(T \cup {x}) = F(T \cup {x}) + E(T \cup {x})
        BY <2>2, <2>3, <2>4, <2>5, <2>6
    <2>8. QED
        BY <2>7
<1>3. S \in G
    <2> HIDE DEF G
    <2>1. QED
        BY <1>1, <1>2, SetInduction
<1>4. QED
    BY <1>3

\* A factor comes out of the sum.
LEMMA SumScale ==
    ASSUME NEW f, NEW h, NEW S, IsFiniteSet(S), NEW c \in Int,
           \A x \in S : f[x] \in Int /\ h[x] = c * f[x]
    PROVE  SumFunctionOnSet(h, S) = c * SumFunctionOnSet(f, S)
<1> DEFINE F(T) == SumFunctionOnSet(f, T)
           H(T) == SumFunctionOnSet(h, T)
           G == {T \in SUBSET S : H(T) = c * F(T)}
<1>1. {} \in G
    <2>1. F({}) = 0 /\ H({}) = 0
        BY SumEmpty
    <2>2. QED
        BY <2>1
<1>2. ASSUME NEW T \in SUBSET S, NEW x \in S \ T, T \in G PROVE T \cup {x} \in G
    <2>1. IsFiniteSet(T)
        BY FS_Subset
    <2>2. \A y \in T \cup {x} : f[y] \in Int /\ h[y] \in Int
        OBVIOUS
    <2>3. F(T) \in Int /\ F(T \cup {x}) = F(T) + f[x]
        BY <2>1, <2>2, SumAdd
    <2>4. H(T) \in Int /\ H(T \cup {x}) = H(T) + h[x]
        BY <2>1, <2>2, SumAdd
    <2>5. H(T) = c * F(T) /\ h[x] = c * f[x] /\ f[x] \in Int
        BY <1>2
    <2> HIDE DEF F, H
    <2>6. c * (F(T) + f[x]) = c * F(T) + c * f[x]
        BY <2>3, <2>5
    <2>7. H(T \cup {x}) = c * F(T \cup {x})
        BY <2>3, <2>4, <2>5, <2>6
    <2>8. QED
        BY <2>7
<1>3. S \in G
    <2> HIDE DEF G
    <2>1. QED
        BY <1>1, <1>2, SetInduction
<1>4. QED
    BY <1>3

\* The sum of naturals is one.
LEMMA SumNat ==
    ASSUME NEW f, NEW S, IsFiniteSet(S), \A x \in S : f[x] \in Nat
    PROVE  SumFunctionOnSet(f, S) \in Nat
<1> DEFINE z == [x \in S |-> 0]
<1>1. \A x \in S : z[x] = 0 /\ z[x] \in Int /\ f[x] \in Int /\ z[x] <= f[x]
    OBVIOUS
<1> HIDE DEF z
<1>2. SumFunctionOnSet(z, S) = 0 * Cardinality(S)
    BY <1>1, SumConst
<1>3. SumFunctionOnSet(z, S) <= SumFunctionOnSet(f, S)
    BY <1>1, SumMono
<1>4. SumFunctionOnSet(f, S) \in Int
    BY <1>1, SumOrder
<1>5. Cardinality(S) \in Nat
    BY FS_CardinalityType
<1>6. QED
    BY <1>2, <1>3, <1>4, <1>5

\* It grows with the set.
LEMMA SumSubset ==
    ASSUME NEW f, NEW S, IsFiniteSet(S), \A x \in S : f[x] \in Nat, NEW T \in SUBSET S
    PROVE  SumFunctionOnSet(f, T) <= SumFunctionOnSet(f, S)
<1> DEFINE R == S \ T
<1>1. R \in SUBSET S /\ T \cap R = {} /\ T \cup R = S
    OBVIOUS
<1>2. IsFiniteSet(T) /\ IsFiniteSet(R)
    BY <1>1, FS_Subset
<1>3. \A x \in T \cup R : f[x] \in Int /\ f[x] \in Nat
    OBVIOUS
<1> HIDE DEF R
<1>4. SumFunctionOnSet(f, T \cup R) = SumFunctionOnSet(f, T) + SumFunctionOnSet(f, R)
    BY <1>1, <1>2, <1>3, SumUnion
<1>5. SumFunctionOnSet(f, T) \in Nat /\ SumFunctionOnSet(f, R) \in Nat
    BY <1>2, <1>3, SumNat
<1>6. SumFunctionOnSet(f, S) = SumFunctionOnSet(f, T) + SumFunctionOnSet(f, R)
    BY <1>1, <1>4, Zenon
<1>7. QED
    BY <1>5, <1>6

\* Terms that differ by at most c make sums that differ by at most c each.
LEMMA SumClose ==
    ASSUME NEW f, NEW g, NEW S, IsFiniteSet(S), NEW c \in Int,
           \A x \in S : f[x] \in Int /\ g[x] \in Int /\ f[x] <= g[x] + c
    PROVE  SumFunctionOnSet(f, S) <= SumFunctionOnSet(g, S) + c * Cardinality(S)
<1> DEFINE k == [x \in S |-> c]
           h == [x \in S |-> g[x] + c]
<1>1. \A x \in S : k[x] = c /\ k[x] \in Int /\ h[x] = g[x] + k[x] /\ h[x] \in Int /\ f[x] <= h[x]
    OBVIOUS
<1> HIDE DEF k, h
<1>2. SumFunctionOnSet(k, S) = c * Cardinality(S)
    BY <1>1, SumConst
<1>3. SumFunctionOnSet(h, S) = SumFunctionOnSet(g, S) + SumFunctionOnSet(k, S)
    BY <1>1, SumPlus
<1>4. SumFunctionOnSet(f, S) <= SumFunctionOnSet(h, S)
    BY <1>1, SumMono
<1>5. QED
    BY <1>2, <1>3, <1>4

\* The element of D before d.
Prev(D, d) == Max({e \in D : e < d})

\* Points at increasing places divide the way from the first to the last: the
\* sums of the stretches between neighbours add up to the sum of the whole.
LEMMA Telescope ==
    ASSUME NEW D \in SUBSET Nat, IsFiniteSet(D), D # {},
           NEW pos, \A d \in D : pos[d] \in Nat,
           \A d, e \in D : d < e => pos[d] < pos[e],
           NEW u, \A x \in pos[Min(D)] + 1 .. pos[Max(D)] : u[x] \in Int,
           NEW g, \A d \in D \ {Min(D)} : g[d] = SumFunctionOnSet(u, pos[Prev(D, d)] + 1 .. pos[d])
    PROVE  SumFunctionOnSet(g, D \ {Min(D)})
             = SumFunctionOnSet(u, pos[Min(D)] + 1 .. pos[Max(D)])
<1> DEFINE a == Min(D)
           z == Max(D)
           S == pos[a] + 1 .. pos[z]
           After(x) == {d \in D : x <= pos[d]}
           k == [x \in S |-> Min(After(x))]
           I == D \ {a}
<1>1. a \in D /\ \A d \in D : a <= d
    BY LeastNatural
<1>2. z \in D /\ \A d \in D : d <= z
    <2>1. D \in SUBSET Int
        OBVIOUS
    <2>2. QED
        BY <2>1, FiniteMax
<1>3. IsFiniteSet(S) /\ IsFiniteSet(I)
    <2> HIDE DEF a, z
    <2>1. pos[a] + 1 \in Int /\ pos[z] \in Int
        <3>1. pos[a] \in Nat /\ pos[z] \in Nat
            BY <1>1, <1>2
        <3>2. QED
            BY <3>1
    <2>2. IsFiniteSet(S)
        BY <2>1, FS_Interval
    <2>3. QED
        BY <2>2, FS_RemoveElement
<1>4. ASSUME NEW d \in I
      PROVE  /\ Prev(D, d) \in D /\ Prev(D, d) < d
             /\ \A e \in D : e < d => e <= Prev(D, d)
    <2> DEFINE E == {e \in D : e < d}
    <2>1. d \in Nat /\ a \in E
        <3>1. d \in D /\ d # a
            OBVIOUS
        <3> HIDE DEF a
        <3>2. d \in Nat /\ a \in Nat /\ a <= d
            BY <1>1, <3>1
        <3>3. QED
            BY <1>1, <3>1, <3>2
    <2>2. E \in SUBSET Int /\ \A e \in E : e <= d
        <3> HIDE DEF I, a
        <3>1. ASSUME NEW e \in E PROVE e \in Int /\ e <= d
            <4>1. e \in D /\ e < d
                OBVIOUS
            <4> HIDE DEF E
            <4>2. e \in Nat
                BY <4>1
            <4>3. QED
                BY <2>1, <4>1, <4>2
        <3> HIDE DEF E
        <3>2. QED
            BY <3>1
    <2>3. E # {} /\ d \in Int
        BY <2>1
    <2> HIDE DEF E
    <2>4. Max(E) \in E /\ \A e \in E : e <= Max(E)
        BY <2>2, <2>3, GreatestInteger
    <2>5. QED
        BY <2>4 DEF E, Prev
<1> HIDE DEF a, z
<1>5. ASSUME NEW x \in S
      PROVE  k[x] \in I /\ x <= pos[k[x]] /\ \A d \in D : x <= pos[d] => k[x] <= d
    <2>0. pos[a] \in Nat /\ pos[z] \in Nat
        BY <1>1, <1>2
    <2>1. z \in After(x) /\ After(x) \in SUBSET Nat /\ x \in Int /\ ~(x <= pos[a])
        <3>1. x \in Int /\ x <= pos[z] /\ ~(x <= pos[a])
            BY <2>0
        <3> HIDE DEF S
        <3>2. After(x) \in SUBSET Nat
            OBVIOUS
        <3>3. z \in After(x)
            BY <1>2, <3>1
        <3>4. QED
            BY <3>1, <3>2, <3>3
    <2>2. Min(After(x)) \in After(x) /\ \A d \in After(x) : Min(After(x)) <= d
        <3> DEFINE A == After(x)
        <3>1. A \in SUBSET Nat /\ A # {}
            BY <2>1
        <3> HIDE DEF A
        <3>2. Min(A) \in A /\ \A d \in A : Min(A) <= d
            BY <3>1, LeastNatural
        <3>3. QED
            BY <3>2 DEF A
    <2>3. k[x] = Min(After(x))
        OBVIOUS
    <2> HIDE DEF k
    <2>4. QED
        BY <2>1, <2>2, <2>3
<1> HIDE DEF k
<1>6. ASSUME NEW d \in I PROVE Fiber(k, S, d) = pos[Prev(D, d)] + 1 .. pos[d]
    <2> DEFINE p == Prev(D, d)
    <2>1. p \in D /\ p < d /\ \A e \in D : e < d => e <= p
        BY <1>4
    <2> HIDE DEF p
    <2>2. d \in D /\ a <= p /\ d <= z /\ p \in Nat /\ d \in Nat /\ a \in Nat /\ z \in Nat
        BY <1>1, <1>2, <2>1
    <2>3. pos[a] <= pos[p] /\ pos[d] <= pos[z] /\ pos[p] \in Nat /\ pos[d] \in Nat
        <3>1. a = p \/ a < p
            BY <2>2
        <3>2. d = z \/ d < z
            BY <2>2
        <3>3. QED
            BY <1>1, <1>2, <2>1, <2>2, <3>1, <3>2
    <2>4. pos[a] \in Nat /\ pos[z] \in Nat
        BY <1>1, <1>2
    <2>5. ASSUME NEW x \in S, k[x] = d PROVE x \in pos[p] + 1 .. pos[d]
        <3>1. x <= pos[d] /\ x \in Int /\ (x <= pos[p] => d <= p)
            BY <1>5, <2>1, <2>4, <2>5
        <3>2. QED
            BY <2>1, <2>2, <2>3, <3>1
    <2>6. ASSUME NEW x \in pos[p] + 1 .. pos[d] PROVE x \in S /\ k[x] = d
        <3>1. x \in S /\ x \in Int
            BY <2>3, <2>4
        <3>2. k[x] <= d /\ k[x] \in D /\ x <= pos[k[x]]
            BY <1>5, <2>2, <2>3, <3>1
        <3>3. CASE k[x] < d
            <4>1. k[x] <= p /\ k[x] \in Nat
                BY <2>1, <3>2, <3>3
            <4>2. pos[k[x]] <= pos[p] /\ pos[k[x]] \in Nat
                <5>1. k[x] = p \/ k[x] < p
                    BY <2>2, <4>1
                <5>2. pos[k[x]] \in Nat /\ (k[x] < p => pos[k[x]] < pos[p])
                    BY <2>1, <3>2
                <5>3. QED
                    BY <2>3, <5>1, <5>2
            <4>3. QED
                BY <2>3, <3>1, <3>2, <4>2
        <3>4. k[x] \in Nat
            BY <3>2
        <3>5. QED
            BY <2>2, <3>1, <3>2, <3>3, <3>4
    <2> HIDE DEF S
    <2>7. QED
        BY <2>5, <2>6 DEF Fiber, p
<1>7. \A d \in I : g[d] = SumFunctionOnSet(u, Fiber(k, S, d))
    <2>1. \A d \in I : g[d] = SumFunctionOnSet(u, pos[Prev(D, d)] + 1 .. pos[d])
        BY DEF a
    <2> HIDE DEF I, S
    <2>2. QED
        BY <1>6, <2>1
<1>8. \A x \in S : u[x] \in Int /\ k[x] \in I
    <2>1. \A x \in S : u[x] \in Int
        BY DEF a, z
    <2>2. QED
        BY <1>5, <2>1
<1>9. SumFunctionOnSet(u, S) = SumFunctionOnSet(g, I)
    <2> HIDE DEF I, S
    <2>1. QED
        BY <1>3, <1>7, <1>8, SumPartition
<1>10. QED
    BY <1>9 DEF a, z
=============================================================================
