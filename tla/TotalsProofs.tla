---------------------------- MODULE TotalsProofs ----------------------------
(***************************************************************************)
(* What the provers need to know of sums over finite sets: SumFunctionOnSet *)
(* of the community modules is defined, takes any summand out, adds up     *)
(* columns, and changes by what one summand changes.  The library's        *)
(* induction theorems take a predicate as a parameter, which the installed *)
(* provers cannot instantiate, so every induction here is an argument      *)
(* about a least number or a minimal set that is a counterexample.         *)
(***************************************************************************)
EXTENDS Integers, FiniteSetsExt, FiniteSetTheorems, WellFoundedInduction, TLAPS

\* A set of naturals has a least element.
LEMMA LeastNatural ==
  ASSUME NEW T \in SUBSET Nat, T # {}
  PROVE  \E m \in T : \A k \in T : m <= k
<1> DEFINE R == OpToRel(<, Nat)
<1>1. IsWellFoundedOn(R, Nat)
  BY NatLessThanWellFounded
<1>2. \A j, k \in Nat : <<j, k>> \in R <=> j < k
  BY DEF OpToRel
<1> HIDE DEF R
<1>3. PICK m \in T : \A k \in T : ~ (<<k, m>> \in R)
  BY <1>1, WFMin
<1>4. ASSUME NEW k \in T PROVE m <= k
  <2>1. k \in Nat /\ m \in Nat
    OBVIOUS
  <2>2. ~ (k < m)
    BY <1>2, <1>3, <2>1
  <2> QED BY <2>1, <2>2
<1> QED BY <1>4

\* A nonempty family of subsets of a finite set has a minimal one.
LEMMA MinimalSubset ==
  ASSUME NEW S, IsFiniteSet(S), NEW B \in SUBSET SUBSET S, B # {}
  PROVE  \E m \in B : \A k \in SUBSET m : k # m => k \notin B
<1>1. \A k \in SUBSET S : IsFiniteSet(k)
  BY FS_Subset
<1>2. B \in SUBSET FiniteSubsetsOf(S)
  BY <1>1 DEF FiniteSubsetsOf
<1> DEFINE R == StrictSubsetOrdering(S)
<1>3. IsWellFoundedOn(R, FiniteSubsetsOf(S))
  BY FS_StrictSubsetOrderingWellFounded
<1>4. \A k, m \in SUBSET S : k \subseteq m /\ k # m => <<k, m>> \in R
  BY DEF StrictSubsetOrdering
<1> HIDE DEF R
<1>5. PICK m \in B : \A k \in B : ~ (<<k, m>> \in R)
  BY <1>2, <1>3, WFMin
<1> QED BY <1>4, <1>5

-----------------------------------------------------------------------------
(***************************************************************************)
(* The defining equation of the sum.                                       *)
(***************************************************************************)
AnyOf(t) == CHOOSE x \in t : TRUE

\* g holds the sum of f over every subset of S.
SumsUpTo(g, f, S) ==
  g = [t \in SUBSET S |-> IF t = {} THEN 0 ELSE f[AnyOf(t)] + g[t \ {AnyOf(t)}]]

LEMMA SumIsLast ==
  ASSUME NEW S, NEW f
  PROVE  SumFunctionOnSet(f, S) = (CHOOSE g : SumsUpTo(g, f, S))[S]
BY DEF SumFunctionOnSet, FoldFunctionOnSet, MapThenFoldSet, SumsUpTo, AnyOf

LEMMA AnyIsIn == \A t : t # {} => AnyOf(t) \in t
BY DEF AnyOf

\* Two tables of sums agree where both are defined.
LEMMA SumsAgree ==
  ASSUME NEW f, NEW S, NEW T, NEW g, NEW h, SumsUpTo(g, f, S), SumsUpTo(h, f, T),
         NEW U \in SUBSET (S \cap T), IsFiniteSet(U)
  PROVE  g[U] = h[U]
<1> DEFINE B == {t \in SUBSET U : g[t] # h[t]}
<1> SUFFICES ASSUME B # {} PROVE FALSE
  OBVIOUS
<1>1. PICK t \in B : \A k \in SUBSET t : k # t => k \notin B
  <2>1. B \in SUBSET SUBSET U
    OBVIOUS
  <2> HIDE DEF B
  <2> QED BY <2>1, MinimalSubset
<1>2. t \in SUBSET S /\ t \in SUBSET T
  OBVIOUS
<1>3. /\ g[t] = IF t = {} THEN 0 ELSE f[AnyOf(t)] + g[t \ {AnyOf(t)}]
      /\ h[t] = IF t = {} THEN 0 ELSE f[AnyOf(t)] + h[t \ {AnyOf(t)}]
  BY <1>2 DEF SumsUpTo
<1>4. CASE t = {}
  BY <1>3, <1>4
<1>5. CASE t # {}
  <2>1. t \ {AnyOf(t)} \in SUBSET t /\ t \ {AnyOf(t)} # t
    BY <1>5, AnyIsIn
  <2>2. g[t \ {AnyOf(t)}] = h[t \ {AnyOf(t)}]
    BY <1>1, <2>1
  <2> QED BY <1>3, <1>5, <2>2
<1> QED BY <1>4, <1>5

LEMMA SumsExist ==
  ASSUME NEW f, NEW S, IsFiniteSet(S)
  PROVE  \E g : SumsUpTo(g, f, S)
<1> DEFINE B == {t \in SUBSET S : ~ \E g : SumsUpTo(g, f, t)}
<1> SUFFICES ASSUME B # {} PROVE FALSE
  OBVIOUS
<1>1. PICK t \in B : \A k \in SUBSET t : k # t => k \notin B
  <2>1. B \in SUBSET SUBSET S
    OBVIOUS
  <2> HIDE DEF B
  <2> QED BY <2>1, MinimalSubset
<1> DEFINE Table(k) == CHOOSE g : SumsUpTo(g, f, k)
           sum == [k \in SUBSET t |-> IF k # t THEN Table(k)[k]
                     ELSE IF t = {} THEN 0 ELSE f[AnyOf(t)] + Table(t \ {AnyOf(t)})[t \ {AnyOf(t)}]]
<1>2. \A k \in SUBSET t : k # t => SumsUpTo(Table(k), f, k)
  BY <1>1
<1>3. ASSUME NEW k \in SUBSET t, k # {}
      PROVE  sum[k] = f[AnyOf(k)] + sum[k \ {AnyOf(k)}]
  <2> DEFINE l == k \ {AnyOf(k)}
  <2>1. l \in SUBSET k /\ l # k /\ l # t /\ l \in SUBSET t
    BY <1>3, AnyIsIn
  <2>2. sum[l] = Table(l)[l]
    BY <2>1
  <2>3. CASE k = t
    BY <1>3, <2>2, <2>3
  <2>4. CASE k # t
    <3>1. SumsUpTo(Table(k), f, k) /\ SumsUpTo(Table(l), f, l)
      BY <1>2, <2>1, <2>4
    <3>2. Table(k)[k] = f[AnyOf(k)] + Table(k)[l]
      BY <1>3, <3>1 DEF SumsUpTo
    <3>3. IsFiniteSet(l)
      BY <2>1, FS_Subset
    <3>4. Table(k)[l] = Table(l)[l]
      BY <2>1, <3>1, <3>3, SumsAgree
    <3> QED BY <2>2, <2>4, <3>2, <3>4
  <2> QED BY <2>3, <2>4
<1>4. ASSUME {} \in SUBSET t PROVE sum[{}] = 0
  <2>1. CASE t # {}
    <3>1. SumsUpTo(Table({}), f, {})
      BY <1>2, <2>1
    <3>2. Table({})[{}] = 0
      BY <3>1 DEF SumsUpTo
    <3> QED BY <2>1, <3>2
  <2> QED BY <2>1
<1>5. SumsUpTo(sum, f, t)
  <2>1. sum = [k \in SUBSET t |-> sum[k]]
    OBVIOUS
  <2> HIDE DEF sum
  <2>2. \A k \in SUBSET t :
          sum[k] = IF k = {} THEN 0 ELSE f[AnyOf(k)] + sum[k \ {AnyOf(k)}]
    BY <1>3, <1>4
  <2> QED BY <2>1, <2>2 DEF SumsUpTo
<1> QED BY <1>5

LEMMA SumEquation ==
  ASSUME NEW f, NEW S, IsFiniteSet(S)
  PROVE  SumFunctionOnSet(f, S) =
           IF S = {} THEN 0 ELSE f[AnyOf(S)] + SumFunctionOnSet(f, S \ {AnyOf(S)})
<1> DEFINE g == CHOOSE g : SumsUpTo(g, f, S)
           T == S \ {AnyOf(S)}
           h == CHOOSE h : SumsUpTo(h, f, T)
<1>1. T \in SUBSET S /\ IsFiniteSet(T)
  BY FS_Subset
<1>2. SumsUpTo(g, f, S)
  BY SumsExist
<1>3. SumsUpTo(h, f, T)
  BY <1>1, SumsExist
<1>4. SumFunctionOnSet(f, S) = g[S] /\ SumFunctionOnSet(f, T) = h[T]
  BY SumIsLast
<1> HIDE DEF g, h
<1>5. g[S] = IF S = {} THEN 0 ELSE f[AnyOf(S)] + g[T]
  BY <1>2 DEF SumsUpTo
<1>6. g[T] = h[T]
  BY <1>1, <1>2, <1>3, SumsAgree
<1> QED BY <1>4, <1>5, <1>6

-----------------------------------------------------------------------------
(***************************************************************************)
(* The facts the proofs of the components use.                             *)
(***************************************************************************)
LEMMA SumEmpty == ASSUME NEW f PROVE SumFunctionOnSet(f, {}) = 0
BY SumEquation, FS_EmptySet

\* A sum of integers is an integer.
LEMMA SumType ==
  ASSUME NEW S, IsFiniteSet(S), NEW f, \A x \in S : f[x] \in Int
  PROVE  SumFunctionOnSet(f, S) \in Int
<1> DEFINE B == {t \in SUBSET S : SumFunctionOnSet(f, t) \notin Int}
<1> SUFFICES ASSUME B # {} PROVE FALSE
  OBVIOUS
<1>1. PICK t \in B : \A k \in SUBSET t : k # t => k \notin B
  <2>1. B \in SUBSET SUBSET S
    OBVIOUS
  <2> HIDE DEF B
  <2> QED BY <2>1, MinimalSubset
<1>2. t # {}
  BY SumEmpty
<1> DEFINE l == t \ {AnyOf(t)}
<1>3. AnyOf(t) \in S /\ l \in SUBSET t /\ l # t
  BY <1>2, AnyIsIn
<1>4. SumFunctionOnSet(f, l) \in Int
  BY <1>1, <1>3
<1>5. SumFunctionOnSet(f, t) = f[AnyOf(t)] + SumFunctionOnSet(f, l)
  <2>1. IsFiniteSet(t)
    BY FS_Subset
  <2> QED BY <1>2, <2>1, SumEquation
<1> QED BY <1>3, <1>4, <1>5

\* Any summand can be taken out.
LEMMA SumTakeOut ==
  ASSUME NEW S, IsFiniteSet(S), NEW f, \A x \in S : f[x] \in Int, NEW y \in S
  PROVE  SumFunctionOnSet(f, S) = f[y] + SumFunctionOnSet(f, S \ {y})
<1> DEFINE B == {t \in SUBSET S :
                   \E x \in t : SumFunctionOnSet(f, t) # f[x] + SumFunctionOnSet(f, t \ {x})}
<1> SUFFICES ASSUME B # {} PROVE FALSE
  OBVIOUS
<1>1. PICK t \in B : \A k \in SUBSET t : k # t => k \notin B
  <2>1. B \in SUBSET SUBSET S
    OBVIOUS
  <2> HIDE DEF B
  <2> QED BY <2>1, MinimalSubset
<1>2. PICK x \in t : SumFunctionOnSet(f, t) # f[x] + SumFunctionOnSet(f, t \ {x})
  OBVIOUS
<1> DEFINE c == AnyOf(t)
<1>3. c \in t /\ c \in S /\ x \in S /\ t # {} /\ t \in SUBSET S
  BY AnyIsIn
<1>4. SumFunctionOnSet(f, t) = f[c] + SumFunctionOnSet(f, t \ {c})
  <2>1. IsFiniteSet(t)
    BY FS_Subset
  <2> QED BY <1>3, <2>1, SumEquation
<1>5. c # x
  BY <1>2, <1>4
<1>6. SumFunctionOnSet(f, t \ {c}) = f[x] + SumFunctionOnSet(f, (t \ {c}) \ {x})
  <2>1. t \ {c} \in SUBSET t /\ t \ {c} # t /\ x \in t \ {c}
    BY <1>3, <1>5
  <2> QED BY <1>1, <2>1
<1>7. SumFunctionOnSet(f, t \ {x}) = f[c] + SumFunctionOnSet(f, (t \ {x}) \ {c})
  <2>1. t \ {x} \in SUBSET t /\ t \ {x} # t /\ c \in t \ {x}
    BY <1>3, <1>5
  <2> QED BY <1>1, <2>1
<1>8. (t \ {x}) \ {c} = (t \ {c}) \ {x}
  OBVIOUS
<1>9. SumFunctionOnSet(f, (t \ {c}) \ {x}) \in Int
  <2> DEFINE u == (t \ {c}) \ {x}
  <2>1. u \in SUBSET S
    BY <1>3
  <2>2. IsFiniteSet(u) /\ \A z \in u : f[z] \in Int
    BY <2>1, FS_Subset
  <2>3. SumFunctionOnSet(f, u) \in Int
    <3> HIDE DEF u
    <3> QED BY <2>2, SumType
  <2> QED BY <2>3
<1>10. f[c] \in Int /\ f[x] \in Int
  BY <1>3
<1>11. \A a, b, d \in Int : a + (b + d) = b + (a + d)
  OBVIOUS
<1>12. SumFunctionOnSet(f, t) = f[c] + (f[x] + SumFunctionOnSet(f, (t \ {c}) \ {x}))
  BY <1>4, <1>6
<1>13. f[x] + SumFunctionOnSet(f, t \ {x})
         = f[x] + (f[c] + SumFunctionOnSet(f, (t \ {c}) \ {x}))
  BY <1>7, <1>8
<1>14. SumFunctionOnSet(f, t) = f[x] + SumFunctionOnSet(f, t \ {x})
  BY <1>9, <1>10, <1>11, <1>12, <1>13
<1> QED BY <1>2, <1>14

\* Equal summands have equal sums.
LEMMA SumSame ==
  ASSUME NEW S, IsFiniteSet(S), NEW f, NEW g, \A x \in S : f[x] = g[x]
  PROVE  SumFunctionOnSet(f, S) = SumFunctionOnSet(g, S)
<1> DEFINE B == {t \in SUBSET S : SumFunctionOnSet(f, t) # SumFunctionOnSet(g, t)}
<1> SUFFICES ASSUME B # {} PROVE FALSE
  OBVIOUS
<1>1. PICK t \in B : \A k \in SUBSET t : k # t => k \notin B
  <2>1. B \in SUBSET SUBSET S
    OBVIOUS
  <2> HIDE DEF B
  <2> QED BY <2>1, MinimalSubset
<1>2. t # {}
  BY SumEmpty
<1> DEFINE l == t \ {AnyOf(t)}
<1>3. AnyOf(t) \in S /\ l \in SUBSET t /\ l # t
  BY <1>2, AnyIsIn
<1>4. SumFunctionOnSet(f, l) = SumFunctionOnSet(g, l)
  BY <1>1, <1>3
<1>5. /\ SumFunctionOnSet(f, t) = f[AnyOf(t)] + SumFunctionOnSet(f, l)
      /\ SumFunctionOnSet(g, t) = g[AnyOf(t)] + SumFunctionOnSet(g, l)
  <2>1. IsFiniteSet(t)
    BY FS_Subset
  <2> QED BY <1>2, <2>1, SumEquation
<1> QED BY <1>3, <1>4, <1>5

\* The sums of two columns add up to the sum of both.
LEMMA SumAdd ==
  ASSUME NEW S, IsFiniteSet(S), NEW f, NEW g, NEW h,
         \A x \in S : f[x] \in Int /\ g[x] \in Int /\ h[x] = f[x] + g[x]
  PROVE  SumFunctionOnSet(h, S) = SumFunctionOnSet(f, S) + SumFunctionOnSet(g, S)
<1> DEFINE B == {t \in SUBSET S :
             SumFunctionOnSet(h, t) # SumFunctionOnSet(f, t) + SumFunctionOnSet(g, t)}
<1> SUFFICES ASSUME B # {} PROVE FALSE
  OBVIOUS
<1>1. PICK t \in B : \A k \in SUBSET t : k # t => k \notin B
  <2>1. B \in SUBSET SUBSET S
    OBVIOUS
  <2> HIDE DEF B
  <2> QED BY <2>1, MinimalSubset
<1>2. t # {}
  <2>1. /\ SumFunctionOnSet(h, {}) = 0 /\ SumFunctionOnSet(f, {}) = 0
        /\ SumFunctionOnSet(g, {}) = 0 /\ 0 + 0 = 0
    BY SumEmpty
  <2> QED BY <2>1
<1> DEFINE l == t \ {AnyOf(t)}
<1>3. AnyOf(t) \in S /\ l \in SUBSET t /\ l # t /\ l \in SUBSET S
  BY <1>2, AnyIsIn
<1>4. SumFunctionOnSet(h, l) = SumFunctionOnSet(f, l) + SumFunctionOnSet(g, l)
  BY <1>1, <1>3
<1>5. /\ SumFunctionOnSet(f, t) = f[AnyOf(t)] + SumFunctionOnSet(f, l)
      /\ SumFunctionOnSet(g, t) = g[AnyOf(t)] + SumFunctionOnSet(g, l)
      /\ SumFunctionOnSet(h, t) = h[AnyOf(t)] + SumFunctionOnSet(h, l)
  <2>1. IsFiniteSet(t)
    BY FS_Subset
  <2> QED BY <1>2, <2>1, SumEquation
<1>6. SumFunctionOnSet(f, l) \in Int /\ SumFunctionOnSet(g, l) \in Int
  <2>1. IsFiniteSet(l)
    BY <1>3, FS_Subset
  <2>2. \A x \in l : f[x] \in Int /\ g[x] \in Int
    BY <1>3
  <2> HIDE DEF l
  <2> QED BY <2>1, <2>2, SumType
<1> HIDE DEF l
<1> QED BY <1>3, <1>4, <1>5, <1>6

\* Summands that are all 0 have the sum 0.
LEMMA SumZero ==
  ASSUME NEW S, IsFiniteSet(S), NEW f, \A x \in S : f[x] = 0
  PROVE  SumFunctionOnSet(f, S) = 0
<1>1. SumFunctionOnSet(f, S) = SumFunctionOnSet(f, S) + SumFunctionOnSet(f, S)
  BY SumAdd
<1>2. SumFunctionOnSet(f, S) \in Int
  BY SumType
<1>3. \A a \in Int : a = a + a => a = 0
  OBVIOUS
<1> QED BY <1>1, <1>2, <1>3

\* Changing the summand y changes the sum by the difference.
DiffersAt(y, f, g, S) == \A x \in S : /\ f[x] \in Int /\ g[x] \in Int
                                      /\ x # y => g[x] = f[x]

LEMMA SumChange ==
  ASSUME NEW S, IsFiniteSet(S), NEW f, NEW g, NEW y \in S, DiffersAt(y, f, g, S)
  PROVE  SumFunctionOnSet(g, S) = SumFunctionOnSet(f, S) + g[y] - f[y]
<1> DEFINE T == S \ {y}
<1>0. \A x \in S : f[x] \in Int /\ g[x] \in Int /\ (x # y => g[x] = f[x])
  BY DEF DiffersAt
<1>1. IsFiniteSet(T) /\ \A x \in T : f[x] \in Int /\ g[x] = f[x]
  BY <1>0, FS_Subset
<1>2. /\ SumFunctionOnSet(f, S) = f[y] + SumFunctionOnSet(f, T)
      /\ SumFunctionOnSet(g, S) = g[y] + SumFunctionOnSet(g, T)
  BY <1>0, SumTakeOut
<1> HIDE DEF T
<1>3. SumFunctionOnSet(f, T) = SumFunctionOnSet(g, T) /\ SumFunctionOnSet(f, T) \in Int
  BY <1>1, SumSame, SumType
<1>4. f[y] \in Int /\ g[y] \in Int
  BY <1>0
<1> QED BY <1>2, <1>3, <1>4

\* Summands that are not negative have a sum that is not.
LEMMA SumNatural ==
  ASSUME NEW S, IsFiniteSet(S), NEW f, \A x \in S : f[x] \in Nat
  PROVE  SumFunctionOnSet(f, S) \in Nat
<1> DEFINE B == {t \in SUBSET S : SumFunctionOnSet(f, t) \notin Nat}
<1> SUFFICES ASSUME B # {} PROVE FALSE
  OBVIOUS
<1>1. PICK t \in B : \A k \in SUBSET t : k # t => k \notin B
  <2>1. B \in SUBSET SUBSET S
    OBVIOUS
  <2> HIDE DEF B
  <2> QED BY <2>1, MinimalSubset
<1>2. t # {}
  BY SumEmpty
<1> DEFINE l == t \ {AnyOf(t)}
<1>3. AnyOf(t) \in S /\ l \in SUBSET t /\ l # t
  BY <1>2, AnyIsIn
<1>4. SumFunctionOnSet(f, l) \in Nat
  BY <1>1, <1>3
<1>5. SumFunctionOnSet(f, t) = f[AnyOf(t)] + SumFunctionOnSet(f, l)
  <2>1. IsFiniteSet(t)
    BY FS_Subset
  <2> QED BY <1>2, <2>1, SumEquation
<1> QED BY <1>3, <1>4, <1>5

\* The sum over a part is the sum over the whole of what is in the part.
LEMMA SumPart ==
  ASSUME NEW S, IsFiniteSet(S), NEW T \in SUBSET S, NEW f, NEW g,
         \A x \in S : f[x] \in Int, \A x \in S : g[x] = IF x \in T THEN f[x] ELSE 0
  PROVE  SumFunctionOnSet(f, T) = SumFunctionOnSet(g, S)
<1> DEFINE B == {t \in SUBSET S : SumFunctionOnSet(f, t \cap T) # SumFunctionOnSet(g, t)}
<1>0. S \cap T = T
  OBVIOUS
<1> SUFFICES ASSUME B # {} PROVE FALSE
  BY <1>0
<1>1. PICK t \in B : \A k \in SUBSET t : k # t => k \notin B
  <2>1. B \in SUBSET SUBSET S
    OBVIOUS
  <2> HIDE DEF B
  <2> QED BY <2>1, MinimalSubset
<1>2. t # {}
  <2>1. {} \cap T = {}
    OBVIOUS
  <2> QED BY <2>1, SumEmpty
<1> DEFINE y == AnyOf(t)  l == t \ {y}
<1>3. y \in S /\ l \in SUBSET t /\ l # t /\ l \in SUBSET S /\ y \in t
  BY <1>2, AnyIsIn
<1>4. SumFunctionOnSet(f, l \cap T) = SumFunctionOnSet(g, l)
  BY <1>1, <1>3
<1>5. SumFunctionOnSet(g, t) = g[y] + SumFunctionOnSet(g, l)
  <2>1. IsFiniteSet(t)
    BY FS_Subset
  <2> QED BY <1>2, <2>1, SumEquation
<1>6. SumFunctionOnSet(f, l \cap T) \in Int
  <2>1. IsFiniteSet(l \cap T) /\ \A x \in l \cap T : f[x] \in Int
    BY <1>3, FS_Subset
  <2> QED BY <2>1, SumType
<1>7. CASE y \in T
  <2>1. IsFiniteSet(t \cap T) /\ (\A x \in t \cap T : f[x] \in Int) /\ y \in t \cap T
    BY <1>3, <1>7, FS_Subset
  <2>2. (t \cap T) \ {y} = l \cap T
    OBVIOUS
  <2>3. SumFunctionOnSet(f, t \cap T) = f[y] + SumFunctionOnSet(f, l \cap T)
    BY <2>1, <2>2, SumTakeOut
  <2>4. g[y] = f[y]
    BY <1>3, <1>7
  <2> QED BY <1>4, <1>5, <2>3, <2>4
<1>8. CASE y \notin T
  <2>1. t \cap T = l \cap T /\ g[y] = 0
    BY <1>3, <1>8
  <2>2. \A a \in Int : 0 + a = a
    OBVIOUS
  <2>3. SumFunctionOnSet(g, t) = SumFunctionOnSet(g, l)
    BY <1>4, <1>5, <1>6, <2>1, <2>2
  <2> QED BY <1>4, <2>1, <2>3
<1> QED BY <1>7, <1>8

\* Summands that are not positive make a sum of more of them no greater.
LEMMA SumOfMore ==
  ASSUME NEW S, IsFiniteSet(S), NEW T \in SUBSET S, NEW f,
         \A x \in S : f[x] \in Int /\ f[x] <= 0
  PROVE  /\ SumFunctionOnSet(f, S) \in Int /\ SumFunctionOnSet(f, T) \in Int
         /\ SumFunctionOnSet(f, S) <= SumFunctionOnSet(f, T)
<1> DEFINE g == [x \in S |-> IF x \in T THEN f[x] ELSE 0]
           h == [x \in S |-> IF x \in T THEN 0 ELSE -f[x]]
<1>1. /\ \A x \in S : g[x] = IF x \in T THEN f[x] ELSE 0
      /\ \A x \in S : h[x] \in Nat
      /\ \A x \in S : f[x] \in Int /\ h[x] \in Int /\ g[x] = f[x] + h[x]
  OBVIOUS
<1> HIDE DEF g, h
<1>2. SumFunctionOnSet(f, T) = SumFunctionOnSet(g, S)
  BY <1>1, SumPart
<1>3. SumFunctionOnSet(g, S) = SumFunctionOnSet(f, S) + SumFunctionOnSet(h, S)
  BY <1>1, SumAdd
<1>4. SumFunctionOnSet(h, S) \in Nat
  BY <1>1, SumNatural
<1>5. SumFunctionOnSet(f, S) \in Int
  BY <1>1, SumType
<1> QED BY <1>2, <1>3, <1>4, <1>5

\* Multiplying every summand multiplies the sum.
LEMMA SumTimes ==
  ASSUME NEW S, IsFiniteSet(S), NEW n \in Int, NEW f, NEW g,
         \A x \in S : f[x] \in Int /\ g[x] = n * f[x]
  PROVE  SumFunctionOnSet(g, S) = n * SumFunctionOnSet(f, S)
<1> DEFINE B == {t \in SUBSET S : SumFunctionOnSet(g, t) # n * SumFunctionOnSet(f, t)}
<1> SUFFICES ASSUME B # {} PROVE FALSE
  OBVIOUS
<1>1. PICK t \in B : \A k \in SUBSET t : k # t => k \notin B
  <2>1. B \in SUBSET SUBSET S
    OBVIOUS
  <2> HIDE DEF B
  <2> QED BY <2>1, MinimalSubset
<1>2. t # {}
  <2>1. SumFunctionOnSet(g, {}) = 0 /\ SumFunctionOnSet(f, {}) = 0 /\ n * 0 = 0
    BY SumEmpty
  <2> QED BY <2>1
<1> DEFINE y == AnyOf(t)  l == t \ {y}
<1>3. y \in S /\ l \in SUBSET t /\ l # t /\ l \in SUBSET S
  BY <1>2, AnyIsIn
<1>4. SumFunctionOnSet(g, l) = n * SumFunctionOnSet(f, l)
  BY <1>1, <1>3
<1>5. /\ SumFunctionOnSet(f, t) = f[y] + SumFunctionOnSet(f, l)
      /\ SumFunctionOnSet(g, t) = g[y] + SumFunctionOnSet(g, l)
  <2>1. IsFiniteSet(t)
    BY FS_Subset
  <2> QED BY <1>2, <2>1, SumEquation
<1>6. SumFunctionOnSet(f, l) \in Int
  <2>1. IsFiniteSet(l) /\ \A x \in l : f[x] \in Int
    BY <1>3, FS_Subset
  <2> HIDE DEF l
  <2> QED BY <2>1, SumType
<1>7. f[y] \in Int /\ g[y] = n * f[y]
  BY <1>3
<1>8. SumFunctionOnSet(g, t) # n * SumFunctionOnSet(f, t)
  OBVIOUS
<1> HIDE DEF B, y, l
<1> QED BY <1>4, <1>5, <1>6, <1>7, <1>8

\* The sum of the first n numbers of a list is the last of its running totals.
LEMMA SumRunning ==
  ASSUME NEW n \in Nat, NEW c, NEW t, \A i \in 1..n : c[i] \in Int,
         t[0] = 0, \A i \in 1..n : t[i] = t[i - 1] + c[i]
  PROVE  SumFunctionOnSet(c, 1..n) = t[n]
<1> DEFINE T == {m \in 0..n : SumFunctionOnSet(c, 1..m) # t[m]}
<1> SUFFICES ASSUME T # {} PROVE FALSE
  OBVIOUS
<1>0. T \in SUBSET Nat
  OBVIOUS
<1>1. PICK m \in T : \A k \in T : m <= k
  <2> HIDE DEF T
  <2> QED BY <1>0, LeastNatural
<1>2. m # 0
  <2>1. 1..0 = {}
    OBVIOUS
  <2> QED BY <1>1, <2>1, SumEmpty
<1>3. m - 1 \in 0..n /\ m - 1 \notin T
  BY <1>1, <1>2
<1>4. SumFunctionOnSet(c, 1..m) = c[m] + SumFunctionOnSet(c, 1..(m - 1))
  <2> DEFINE U == 1..m
  <2>1. m \in U /\ U \ {m} = 1..(m - 1) /\ \A i \in U : c[i] \in Int
    BY <1>2
  <2>2. IsFiniteSet(U)
    BY FS_Interval
  <2>3. SumFunctionOnSet(c, U) = c[m] + SumFunctionOnSet(c, U \ {m})
    <3> HIDE DEF U
    <3> QED BY <2>1, <2>2, SumTakeOut
  <2> QED BY <2>1, <2>3
<1>5. SumFunctionOnSet(c, 1..(m - 1)) \in Int
  <2>1. IsFiniteSet(1..(m - 1)) /\ \A i \in 1..(m - 1) : c[i] \in Int
    BY <1>2, FS_Interval
  <2> QED BY <2>1, SumType
<1> QED BY <1>2, <1>3, <1>4, <1>5

\* The same for a list that begins with number 0.
TotalsOf(t, c, n) == t[0] = 0 /\ \A i \in 0..(n - 1) : c[i] \in Int /\ t[i + 1] = t[i] + c[i]

LEMMA SumUpTo ==
  ASSUME NEW n \in Nat, NEW c, NEW t, TotalsOf(t, c, n)
  PROVE  SumFunctionOnSet(c, 0..(n - 1)) = t[n]
<1> USE DEF TotalsOf
<1> DEFINE T == {m \in 0..n : SumFunctionOnSet(c, 0..(m - 1)) # t[m]}
<1> SUFFICES ASSUME T # {} PROVE FALSE
  OBVIOUS
<1>0. T \in SUBSET Nat
  OBVIOUS
<1>1. PICK m \in T : \A k \in T : m <= k
  <2> HIDE DEF T
  <2> QED BY <1>0, LeastNatural
<1>2. m # 0
  <2>1. 0..(0 - 1) = {}
    OBVIOUS
  <2> QED BY <1>1, <2>1, SumEmpty
<1>3. m - 1 \in 0..n /\ m - 1 \notin T /\ (m - 1) + 1 = m /\ m - 1 \in 0..(n - 1)
  BY <1>1, <1>2
<1>4. SumFunctionOnSet(c, 0..(m - 1)) = c[m - 1] + SumFunctionOnSet(c, 0..((m - 1) - 1))
  <2> DEFINE U == 0..(m - 1)
  <2>1. m - 1 \in U /\ U \ {m - 1} = 0..((m - 1) - 1) /\ \A i \in U : c[i] \in Int
    BY <1>2
  <2>2. IsFiniteSet(U)
    BY FS_Interval
  <2>3. SumFunctionOnSet(c, U) = c[m - 1] + SumFunctionOnSet(c, U \ {m - 1})
    <3> HIDE DEF U
    <3> QED BY <2>1, <2>2, SumTakeOut
  <2> QED BY <2>1, <2>3
<1>5. SumFunctionOnSet(c, 0..((m - 1) - 1)) \in Int
  <2>1. (m - 1) - 1 \in Int /\ \A i \in 0..((m - 1) - 1) : i \in 0..(n - 1)
    BY <1>2
  <2>2. IsFiniteSet(0..((m - 1) - 1))
    BY <2>1, FS_Interval
  <2>3. \A i \in 0..((m - 1) - 1) : c[i] \in Int
    BY <2>1
  <2> QED BY <2>2, <2>3, SumType
<1>6. t[m] = t[m - 1] + c[m - 1] /\ c[m - 1] \in Int
  BY <1>3
<1>7. SumFunctionOnSet(c, 0..((m - 1) - 1)) = t[m - 1]
  BY <1>3
<1>8. \A a, b \in Int : a + b = b + a
  OBVIOUS
<1>9. SumFunctionOnSet(c, 0..(m - 1)) = t[m]
  BY <1>4, <1>5, <1>6, <1>7, <1>8
<1> QED BY <1>1, <1>9

\* A sum of summands that are 0 outside T and at most n in size on T is at most n
\* for each of T.
WithinOn(T, f, S, n) == \A x \in S : /\ f[x] \in Int /\ -n <= f[x] /\ f[x] <= n
                                     /\ x \notin T => f[x] = 0

LEMMA SumWithin ==
  ASSUME NEW S, IsFiniteSet(S), NEW T \in SUBSET S, NEW f, NEW n \in Nat, WithinOn(T, f, S, n)
  PROVE  /\ -(n * Cardinality(T)) <= SumFunctionOnSet(f, S)
         /\ SumFunctionOnSet(f, S) <= n * Cardinality(T)
<1>1. \A x \in S : /\ f[x] \in Int /\ -n <= f[x] /\ f[x] <= n
                   /\ x \notin T => f[x] = 0
  BY DEF WithinOn
<1> DEFINE Ok(t) == /\ -(n * Cardinality(t \cap T)) <= SumFunctionOnSet(f, t)
                    /\ SumFunctionOnSet(f, t) <= n * Cardinality(t \cap T)
           B == {t \in SUBSET S : ~ Ok(t)}
<1>0. S \cap T = T
  OBVIOUS
<1> SUFFICES ASSUME B # {} PROVE FALSE
  BY <1>0
<1>2. PICK t \in B : \A k \in SUBSET t : k # t => k \notin B
  <2>1. B \in SUBSET SUBSET S
    OBVIOUS
  <2> HIDE DEF B
  <2> QED BY <2>1, MinimalSubset
<1>3. t # {}
  <2>1. {} \cap T = {} /\ Cardinality({}) = 0 /\ SumFunctionOnSet(f, {}) = 0
    BY SumEmpty, FS_EmptySet
  <2>2. Ok({})
    BY <2>1
  <2> QED BY <2>2
<1> DEFINE y == AnyOf(t)  l == t \ {y}
<1>4. y \in S /\ l \in SUBSET t /\ l # t /\ l \in SUBSET S /\ y \in t
  BY <1>3, AnyIsIn
<1>5. Ok(l)
  BY <1>2, <1>4
<1>6. SumFunctionOnSet(f, t) = f[y] + SumFunctionOnSet(f, l)
  <2>1. IsFiniteSet(t)
    BY FS_Subset
  <2> QED BY <1>3, <2>1, SumEquation
<1>7. SumFunctionOnSet(f, l) \in Int
  <2>1. IsFiniteSet(l) /\ \A x \in l : f[x] \in Int
    BY <1>1, <1>4, FS_Subset
  <2> HIDE DEF l
  <2> QED BY <2>1, SumType
<1>8. IsFiniteSet(l \cap T) /\ Cardinality(l \cap T) \in Nat
  BY <1>4, FS_Subset, FS_CardinalityType
<1>9. Cardinality(t \cap T) = Cardinality(l \cap T) + (IF y \in T THEN 1 ELSE 0)
  <2>1. CASE y \in T
    <3>1. t \cap T = (l \cap T) \cup {y} /\ y \notin l \cap T
      BY <1>4, <2>1
    <3>2. Cardinality((l \cap T) \cup {y}) = Cardinality(l \cap T) + 1
      BY <1>8, <3>1, FS_AddElement
    <3> QED BY <2>1, <3>1, <3>2
  <2>2. CASE y \notin T
    <3>1. t \cap T = l \cap T
      BY <2>2
    <3>2. Cardinality(t \cap T) = Cardinality(l \cap T)
      BY <3>1
    <3> HIDE DEF l, y
    <3>3. Cardinality(l \cap T) + 0 = Cardinality(l \cap T)
      BY <1>8
    <3> QED BY <2>2, <3>2, <3>3
  <2> QED BY <2>1, <2>2
<1> DEFINE c == Cardinality(l \cap T)  s == SumFunctionOnSet(f, l)  v == f[y]
<1>10. c \in Nat /\ s \in Int /\ v \in Int /\ -n <= v /\ v <= n /\ (y \notin T => v = 0)
  BY <1>1, <1>4, <1>7, <1>8
<1>11. -(n * c) <= s /\ s <= n * c
  BY <1>5
<1>12. Cardinality(t \cap T) = c + (IF y \in T THEN 1 ELSE 0) /\ SumFunctionOnSet(f, t) = v + s
  BY <1>6, <1>9
<1> HIDE DEF c, s, v
<1>13. n * (c + 1) = n * c + n /\ n * c \in Int /\ c + 0 = c
  BY <1>10
<1> HIDE DEF y
<1>14. Ok(t)
  <2>1. CASE y \in T
    BY <1>10, <1>11, <1>12, <1>13, <2>1
  <2>2. CASE y \notin T
    BY <1>10, <1>11, <1>12, <1>13, <2>2
  <2> QED BY <2>1, <2>2
<1> QED BY <1>14

\* The sum over a part and the sum over the rest.
LEMMA SumSplit ==
  ASSUME NEW S, IsFiniteSet(S), NEW T \in SUBSET S, NEW f, \A x \in S : f[x] \in Int
  PROVE  SumFunctionOnSet(f, S) = SumFunctionOnSet(f, T) + SumFunctionOnSet(f, S \ T)
<1> DEFINE g == [x \in S |-> IF x \in T THEN f[x] ELSE 0]
           h == [x \in S |-> IF x \in S \ T THEN f[x] ELSE 0]
<1>1. \A x \in S : g[x] \in Int /\ h[x] \in Int /\ f[x] = g[x] + h[x]
  OBVIOUS
<1>2. \A x \in S : g[x] = IF x \in T THEN f[x] ELSE 0
  OBVIOUS
<1>3. \A x \in S : h[x] = IF x \in S \ T THEN f[x] ELSE 0
  OBVIOUS
<1> HIDE DEF g, h
<1>4. SumFunctionOnSet(f, T) = SumFunctionOnSet(g, S)
  BY <1>2, SumPart
<1>5. SumFunctionOnSet(f, S \ T) = SumFunctionOnSet(h, S)
  <2>1. S \ T \in SUBSET S
    OBVIOUS
  <2> QED BY <1>3, <2>1, SumPart
<1>6. SumFunctionOnSet(f, S) = SumFunctionOnSet(g, S) + SumFunctionOnSet(h, S)
  BY <1>1, SumAdd
<1> QED BY <1>4, <1>5, <1>6

\* The sums over the fibres of a function add up to the sum over its domain.
Fibre(key, T, c) == {x \in T : key[x] = c}
FibreSums(f, key, T, K) == [c \in K |-> SumFunctionOnSet(f, Fibre(key, T, c))]

LEMMA SumFibres ==
  ASSUME NEW S, IsFiniteSet(S), NEW K, IsFiniteSet(K), NEW f, NEW key,
         \A x \in S : f[x] \in Int /\ key[x] \in K
  PROVE  SumFunctionOnSet(FibreSums(f, key, S, K), K) = SumFunctionOnSet(f, S)
<1> DEFINE B == {t \in SUBSET S :
                   SumFunctionOnSet(FibreSums(f, key, t, K), K) # SumFunctionOnSet(f, t)}
<1> SUFFICES ASSUME B # {} PROVE FALSE
  OBVIOUS
<1>1. PICK t \in B : \A k \in SUBSET t : k # t => k \notin B
  <2>1. B \in SUBSET SUBSET S
    OBVIOUS
  <2> HIDE DEF B
  <2> QED BY <2>1, MinimalSubset
<1>2. t # {}
  <2> SUFFICES ASSUME t = {} PROVE FALSE
    OBVIOUS
  <2>1. \A c \in K : FibreSums(f, key, {}, K)[c] = 0
    <3>1. ASSUME NEW c \in K PROVE FibreSums(f, key, {}, K)[c] = 0
      <4>1. Fibre(key, {}, c) = {}
        BY DEF Fibre
      <4>2. FibreSums(f, key, {}, K)[c] = SumFunctionOnSet(f, Fibre(key, {}, c))
        BY DEF FibreSums
      <4> QED BY <4>1, <4>2, SumEmpty
    <3> QED BY <3>1
  <2>2. SumFunctionOnSet(FibreSums(f, key, {}, K), K) = 0
    BY <2>1, SumZero
  <2> QED BY <2>2, SumEmpty
<1> DEFINE y == AnyOf(t)  l == t \ {y}
           new == FibreSums(f, key, t, K)  old == FibreSums(f, key, l, K)
<1>3. y \in t /\ y \in S /\ l \in SUBSET t /\ l # t /\ l \in SUBSET S /\ f[y] \in Int /\ key[y] \in K
  BY <1>2, AnyIsIn
<1>4. SumFunctionOnSet(old, K) = SumFunctionOnSet(f, l)
  BY <1>1, <1>3
<1>5. IsFiniteSet(t) /\ IsFiniteSet(l) /\ \A c : IsFiniteSet(Fibre(key, t, c)) /\ IsFiniteSet(Fibre(key, l, c))
  BY <1>3, FS_Subset DEF Fibre
<1>6. \A x \in t : f[x] \in Int
  BY <1>3
<1>7. SumFunctionOnSet(f, t) = f[y] + SumFunctionOnSet(f, l)
  BY <1>3, <1>5, <1>6, SumTakeOut
<1>8. \A c \in K : new[c] = SumFunctionOnSet(f, Fibre(key, t, c)) /\ old[c] = SumFunctionOnSet(f, Fibre(key, l, c))
  BY DEF FibreSums
<1>9. \A c \in K : new[c] \in Int /\ old[c] \in Int
  <2>1. ASSUME NEW c \in K PROVE new[c] \in Int /\ old[c] \in Int
    <3>1. /\ \A x \in Fibre(key, t, c) : f[x] \in Int
          /\ \A x \in Fibre(key, l, c) : f[x] \in Int
      BY <1>3, <1>6 DEF Fibre
    <3> HIDE DEF y, l, new, old
    <3>2. /\ SumFunctionOnSet(f, Fibre(key, t, c)) \in Int
          /\ SumFunctionOnSet(f, Fibre(key, l, c)) \in Int
      BY <1>5, <3>1, SumType
    <3> QED BY <1>8, <3>2
  <2> QED BY <2>1
<1>10. \A c \in K : c # key[y] => new[c] = old[c]
  <2>1. \A c : c # key[y] => Fibre(key, t, c) = Fibre(key, l, c)
    BY DEF Fibre
  <2> HIDE DEF y, l, new, old
  <2> QED BY <1>8, <2>1
<1>11. new[key[y]] = f[y] + old[key[y]]
  <2> DEFINE F == Fibre(key, t, key[y])
  <2>1. F \ {y} = Fibre(key, l, key[y]) /\ y \in F /\ \A x \in F : f[x] \in Int
    BY <1>3, <1>6 DEF Fibre
  <2>2. IsFiniteSet(F)
    BY <1>5
  <2>3. new[key[y]] = SumFunctionOnSet(f, F) /\ old[key[y]] = SumFunctionOnSet(f, F \ {y})
    BY <1>3, <1>8, <2>1
  <2> HIDE DEF F, new, old, y
  <2> QED BY <2>1, <2>2, <2>3, SumTakeOut
<1> HIDE DEF y, l, new, old
<1>12. DiffersAt(key[y], old, new, K)
  BY <1>9, <1>10 DEF DiffersAt
<1>13. SumFunctionOnSet(new, K) = SumFunctionOnSet(old, K) + new[key[y]] - old[key[y]]
  BY <1>3, <1>12, SumChange
<1>14. SumFunctionOnSet(f, l) \in Int
  BY <1>3, <1>5, SumType
<1>15. SumFunctionOnSet(new, K) = SumFunctionOnSet(f, t)
  BY <1>3, <1>4, <1>7, <1>9, <1>11, <1>13, <1>14
<1>16. SumFunctionOnSet(new, K) # SumFunctionOnSet(f, t)
  BY <1>1 DEF new
<1> QED BY <1>15, <1>16
=============================================================================
