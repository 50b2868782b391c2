----------------------------- MODULE DataLemmas -----------------------------
(***************************************************************************)
(* Facts about sets, numbers and sums that the proofs of several modules   *)
(* need: induction over the subsets of a finite set, least and greatest    *)
(* members, what SumFunctionOnSet of the community modules amounts to and  *)
(* how sums split, what the first members of a finite set in some order    *)
(* are, and quotients.  The functions that are summed and the orders are   *)
(* parameters that are functions, so that the lemmas can be cited for any  *)
(* of them.                                                                *)
(***************************************************************************)
EXTENDS Integers, Functions, FiniteSetsExt, FiniteSetTheorems, TLAPS

(* Induction over the subsets of a finite set: a family of them in which   *)
(* every member contains a smaller one is empty.                           *)
LEMMA SubsetInduction ==
    ASSUME NEW S, IsFiniteSet(S), NEW Bad \in SUBSET SUBSET S,
           \A T \in Bad : \E U \in Bad : U \subseteq T /\ U # T
    PROVE  Bad = {}
<1> SUFFICES ASSUME Bad # {} PROVE FALSE
  OBVIOUS
<1>1. FiniteSubsetsOf(S) = SUBSET S
  BY FS_FiniteSubsetsOfFinite
<1>2. IsWellFoundedOn(StrictSubsetOrdering(S), FiniteSubsetsOf(S))
  BY FS_StrictSubsetOrderingWellFounded
<1>3. PICK T \in Bad : \A U \in Bad : ~(<<U, T>> \in StrictSubsetOrdering(S))
  <2> DEFINE R == StrictSubsetOrdering(S)
             F == FiniteSubsetsOf(S)
  <2>1. Bad \subseteq F /\ IsWellFoundedOn(R, F)
    BY <1>1, <1>2
  <2> HIDE DEF R, F
  <2>2. \E T \in Bad : \A U \in Bad : ~(<<U, T>> \in R)
    BY <2>1, WFMin
  <2> QED
    BY <2>2 DEF R
<1>4. PICK U \in Bad : U \subseteq T /\ U # T
  OBVIOUS
<1>5. <<U, T>> \in StrictSubsetOrdering(S)
  BY <1>4 DEF StrictSubsetOrdering
<1> QED
  BY <1>3, <1>5

(* What a function makes of a finite set is finite.                        *)
LEMMA ImageIsFinite ==
    ASSUME NEW f, NEW S, IsFiniteSet(S)
    PROVE  IsFiniteSet({f[x] : x \in S})
<1>1. PICK g : g = [x \in S |-> f[x]]
  OBVIOUS
<1>2. g \in Surjection(S, {f[x] : x \in S})
  BY <1>1 DEF Surjection
<1>3. QED
  BY <1>2, FS_Surjection

(* Every set of natural numbers has a least member.                        *)
LEMMA LeastNumber ==
    ASSUME NEW N \in SUBSET Nat, N # {}
    PROVE  \E n \in N : \A m \in N : n <= m
<1> SUFFICES ASSUME \A n \in N : \E m \in N : m < n PROVE FALSE
  OBVIOUS
<1>1. PICK k \in N : TRUE
  OBVIOUS
<1> DEFINE Bad == {T \in SUBSET (0 .. k) : \E n \in N : T = 0 .. n}
<1>2. IsFiniteSet(0 .. k)
  BY <1>1, FS_Interval
<1>3. 0 .. k \in Bad
  BY <1>1
<1>4. ASSUME NEW T \in Bad PROVE \E U \in Bad : U \subseteq T /\ U # T
  <2>1. PICK n \in N : T = 0 .. n
    OBVIOUS
  <2>2. PICK m \in N : m < n
    OBVIOUS
  <2>3. 0 .. m \subseteq T /\ 0 .. m # T
    BY <2>1, <2>2
  <2>4. 0 .. m \in Bad
    BY <2>3
  <2> QED
    BY <2>3, <2>4
<1>5. Bad \in SUBSET SUBSET (0 .. k)
  OBVIOUS
<1> HIDE DEF Bad
<1> QED
  BY <1>2, <1>3, <1>4, <1>5, SubsetInduction

(* Every bounded one has a greatest.                                       *)
LEMMA GreatestNumber ==
    ASSUME NEW N \in SUBSET Nat, N # {}, NEW b \in Nat, \A n \in N : n <= b
    PROVE  \E n \in N : \A m \in N : m <= n
<1>1. PICK M : M = {b - n : n \in N}
  OBVIOUS
<1>2. M \in SUBSET Nat /\ M # {}
  <2>1. \A n \in N : b - n \in Nat
    OBVIOUS
  <2>2. QED
    BY <1>1, <2>1
<1>3. PICK k \in M : \A m \in M : k <= m
  BY <1>2, LeastNumber
<1>4. PICK n \in N : k = b - n
  BY <1>1, <1>3
<1>5. ASSUME NEW m \in N PROVE m <= n
  <2>1. b - m \in M
    BY <1>1
  <2>2. QED
    BY <1>3, <1>4, <2>1
<1>6. QED
  BY <1>5
-----------------------------------------------------------------------------
(* The member that MapThenFoldSet takes next.                              *)
Pick(s) == CHOOSE x \in s : TRUE

(* A set that is not empty has such a member.                              *)
LEMMA PickFacts == ASSUME NEW s, s # {} PROVE Pick(s) \in s
  BY DEF Pick

(* g sums up f over the subsets of T.                                      *)
Sums(g, f, T) ==
    \A s \in SUBSET T : g[s] = IF s = {} THEN 0 ELSE f[Pick(s)] + g[s \ {Pick(s)}]

(* Sums over a set are sums over its subsets.                              *)
LEMMA SumsRestrict ==
    ASSUME NEW f, NEW g, NEW T, NEW U \in SUBSET T, Sums(g, f, T)
    PROVE  Sums(g, f, U)
  BY DEF Sums

(* The sums over a finite set are determined.                              *)
LEMMA SumsUnique ==
    ASSUME NEW f, NEW g, NEW h, NEW S, IsFiniteSet(S), Sums(g, f, S), Sums(h, f, S),
           NEW T \in SUBSET S
    PROVE  g[T] = h[T]
<1> DEFINE Bad == {U \in SUBSET S : g[U] # h[U]}
<1>1. ASSUME NEW U \in Bad PROVE \E V \in Bad : V \subseteq U /\ V # U
  <2>1. U # {}
    BY DEF Sums
  <2>2. Pick(U) \in U
    BY <2>1, PickFacts
  <2>3. /\ g[U] = f[Pick(U)] + g[U \ {Pick(U)}]
        /\ h[U] = f[Pick(U)] + h[U \ {Pick(U)}]
    BY <2>1 DEF Sums
  <2>4. U \ {Pick(U)} \in Bad
    BY <2>3
  <2> QED
    BY <2>2, <2>4
<1>2. Bad \in SUBSET SUBSET S
  OBVIOUS
<1>3. Bad = {}
  <2> HIDE DEF Bad
  <2> QED
    BY <1>1, <1>2, SubsetInduction
<1> QED
  BY <1>3

SumTo(f, T) == CHOOSE v : \E g : Sums(g, f, T) /\ v = g[T]

(* SumTo is what every g that sums up f gives.                             *)
LEMMA SumToFacts ==
    ASSUME NEW f, NEW g, NEW T, IsFiniteSet(T), Sums(g, f, T)
    PROVE  SumTo(f, T) = g[T]
<1>1. \E v : \E h : Sums(h, f, T) /\ v = h[T]
  OBVIOUS
<1>2. PICK h : Sums(h, f, T) /\ SumTo(f, T) = h[T]
  BY <1>1 DEF SumTo
<1> QED
  BY <1>2, SumsUnique

(* The recursive function of MapThenFoldSet exists.                        *)
IsIter(g, f, S) ==
    g = [s \in SUBSET S |-> IF s = {} THEN 0 ELSE f[Pick(s)] + g[s \ {Pick(s)}]]

(* There are such sums, as the definition of the community modules         *)
(* presumes.                                                               *)
LEMMA SumsExists == ASSUME NEW f, NEW S, IsFiniteSet(S) PROVE \E g : IsIter(g, f, S)
<1> DEFINE Fun(T) == [s \in SUBSET T |-> IF s = {} THEN 0
                         ELSE f[Pick(s)] + SumTo(f, s \ {Pick(s)})]
           Bad == {T \in SUBSET S : ~Sums(Fun(T), f, T)}
<1>1. ASSUME NEW T \in Bad PROVE \E U \in Bad : U \subseteq T /\ U # T
  <2>1. PICK s \in SUBSET T :
            Fun(T)[s] # IF s = {} THEN 0 ELSE f[Pick(s)] + Fun(T)[s \ {Pick(s)}]
    BY DEF Sums
  <2>2. s # {} /\ Pick(s) \in s
    BY <2>1, PickFacts
  <2> DEFINE U == s \ {Pick(s)}
  <2>3. Fun(T)[s] = f[Pick(s)] + SumTo(f, U)
    BY <2>2
  <2>4. SumTo(f, U) # Fun(T)[U]
    BY <2>1, <2>2, <2>3
  <2>5. Fun(T)[U] = Fun(U)[U]
    BY <2>2
  <2>6. U \in SUBSET S /\ U \subseteq T /\ U # T
    BY <2>2
  <2>7. IsFiniteSet(U)
    BY <2>6, FS_Subset
  <2>8. ~Sums(Fun(U), f, U)
    <3> HIDE DEF Fun
    <3> QED
      BY <2>4, <2>5, <2>7, SumToFacts
  <2> QED
    BY <2>6, <2>8
<1>2. Bad \in SUBSET SUBSET S
  OBVIOUS
<1>3. Bad = {}
  <2> HIDE DEF Bad
  <2> QED
    BY <1>1, <1>2, SubsetInduction
<1>4. Sums(Fun(S), f, S)
  BY <1>3
<1> DEFINE G == Fun(S)
<1>5. G = [s \in SUBSET S |-> G[s]]
  OBVIOUS
<1>6. G = [s \in SUBSET S |-> IF s = {} THEN 0 ELSE f[Pick(s)] + G[s \ {Pick(s)}]]
  <2> HIDE DEF G
  <2>1. Sums(G, f, S)
    BY <1>4 DEF G
  <2> QED
    BY <1>5, <2>1 DEF Sums
<1> QED
  BY <1>6 DEF IsIter
-----------------------------------------------------------------------------
(* SumFunctionOnSet sums up its function by one member after the other.    *)
LEMMA SumIsSums ==
    ASSUME NEW f, NEW S, IsFiniteSet(S)
    PROVE  \E g : Sums(g, f, S) /\ \A T \in SUBSET S : SumFunctionOnSet(f, T) = g[T]
<1> DEFINE Iter(T) == CHOOSE g : IsIter(g, f, T)
<1>1. ASSUME NEW T \in SUBSET S PROVE Sums(Iter(T), f, T)
  <2>1. IsFiniteSet(T)
    BY FS_Subset
  <2>2. IsIter(Iter(T), f, T)
    BY <2>1, SumsExists
  <2> HIDE DEF Iter
  <2> QED
    BY <2>2 DEF Sums, IsIter
<1>2. ASSUME NEW T \in SUBSET S PROVE SumFunctionOnSet(f, T) = Iter(T)[T]
  BY DEF SumFunctionOnSet, FoldFunctionOnSet, MapThenFoldSet, IsIter, Pick
<1> HIDE DEF Iter
<1>3. ASSUME NEW T \in SUBSET S PROVE Iter(T)[T] = Iter(S)[T]
  <2>1. Sums(Iter(S), f, T)
    BY <1>1, SumsRestrict
  <2> QED
    BY <1>1, <2>1, FS_Subset, SumsUnique
<1> QED
  BY <1>1, <1>2, <1>3

(* Nothing sums up to 0.                                                   *)
LEMMA SumEmpty == ASSUME NEW f PROVE SumFunctionOnSet(f, {}) = 0
  BY FS_EmptySet, SumIsSums DEF Sums

(* What SumFunctionOnSet does first.                                       *)
LEMMA SumPick ==
    ASSUME NEW f, NEW S, IsFiniteSet(S), S # {}
    PROVE  SumFunctionOnSet(f, S) = f[Pick(S)] + SumFunctionOnSet(f, S \ {Pick(S)})
<1>1. PICK g : Sums(g, f, S) /\ \A T \in SUBSET S : SumFunctionOnSet(f, T) = g[T]
  BY SumIsSums
<1> QED
  BY <1>1 DEF Sums

(* A sum of integers is one.                                               *)
LEMMA SumIsInt ==
    ASSUME NEW f, NEW S, IsFiniteSet(S), \A x \in S : f[x] \in Int
    PROVE  SumFunctionOnSet(f, S) \in Int
<1> DEFINE Bad == {T \in SUBSET S : SumFunctionOnSet(f, T) \notin Int}
<1>1. ASSUME NEW T \in Bad PROVE \E U \in Bad : U \subseteq T /\ U # T
  <2>1. T # {} /\ IsFiniteSet(T)
    <3>1. ASSUME T = {} PROVE FALSE
      BY <3>1, SumEmpty
    <3> QED
      BY <3>1, FS_Subset
  <2>2. Pick(T) \in T /\ f[Pick(T)] \in Int
    BY <2>1, PickFacts
  <2>3. T \ {Pick(T)} \in Bad
    BY <2>1, <2>2, SumPick
  <2> QED
    BY <2>2, <2>3
<1>2. Bad = {}
  <2>1. Bad \in SUBSET SUBSET S
    OBVIOUS
  <2> HIDE DEF Bad
  <2> QED
    BY <1>1, <2>1, SubsetInduction
<1> QED
  BY <1>2

(* A sum of natural numbers is one.                                        *)
LEMMA SumIsNat ==
    ASSUME NEW f, NEW S, IsFiniteSet(S), \A x \in S : f[x] \in Nat
    PROVE  SumFunctionOnSet(f, S) \in Nat
<1> DEFINE Bad == {T \in SUBSET S : SumFunctionOnSet(f, T) \notin Nat}
<1>1. ASSUME NEW T \in Bad PROVE \E U \in Bad : U \subseteq T /\ U # T
  <2>1. T # {} /\ IsFiniteSet(T)
    <3>1. ASSUME T = {} PROVE FALSE
      BY <3>1, SumEmpty
    <3> QED
      BY <3>1, FS_Subset
  <2>2. Pick(T) \in T /\ f[Pick(T)] \in Nat
    BY <2>1, PickFacts
  <2>3. T \ {Pick(T)} \in Bad
    BY <2>1, <2>2, SumPick
  <2> QED
    BY <2>2, <2>3
<1>2. Bad = {}
  <2>1. Bad \in SUBSET SUBSET S
    OBVIOUS
  <2> HIDE DEF Bad
  <2> QED
    BY <1>1, <2>1, SubsetInduction
<1> QED
  BY <1>2

(* The order of summation does not matter: any member can be taken first.  *)
LEMMA SumRemove ==
    ASSUME NEW f, NEW S, IsFiniteSet(S), \A x \in S : f[x] \in Int, NEW x \in S
    PROVE  SumFunctionOnSet(f, S) = f[x] + SumFunctionOnSet(f, S \ {x})
<1> DEFINE Differs(T, y) == SumFunctionOnSet(f, T) # f[y] + SumFunctionOnSet(f, T \ {y})
           Bad == {T \in SUBSET S : \E y \in T : Differs(T, y)}
<1>1. ASSUME NEW T \in Bad PROVE \E U \in Bad : U \subseteq T /\ U # T
  <2>1. PICK y \in T : Differs(T, y)
    OBVIOUS
  <2>2. PICK p : p = Pick(T)
    OBVIOUS
  <2>3. p \in T /\ IsFiniteSet(T) /\ SumFunctionOnSet(f, T) = f[p] + SumFunctionOnSet(f, T \ {p})
    BY <2>1, <2>2, PickFacts, FS_Subset, SumPick
  <2>4. y # p
    BY <2>1, <2>3
  <2>5. CASE T \ {p} \in Bad
    BY <2>3, <2>5
  <2>6. CASE T \ {y} \in Bad
    BY <2>1, <2>6
  <2>7. CASE T \ {p} \notin Bad /\ T \ {y} \notin Bad
    <3>1. SumFunctionOnSet(f, T \ {p}) = f[y] + SumFunctionOnSet(f, (T \ {p}) \ {y})
      BY <2>1, <2>4, <2>7
    <3>2. SumFunctionOnSet(f, T \ {y}) = f[p] + SumFunctionOnSet(f, (T \ {y}) \ {p})
      BY <2>3, <2>4, <2>7
    <3>3. PICK V : V = (T \ {p}) \ {y} /\ V = (T \ {y}) \ {p}
      OBVIOUS
    <3>4. V \in SUBSET S /\ IsFiniteSet(V)
      BY <3>3, FS_Subset
    <3>5. f[p] \in Int /\ f[y] \in Int /\ SumFunctionOnSet(f, V) \in Int
      BY <2>1, <2>3, <3>4, SumIsInt
    <3>6. SumFunctionOnSet(f, T) = f[y] + SumFunctionOnSet(f, T \ {y})
      <4> DEFINE v == SumFunctionOnSet(f, V)
      <4>1. /\ SumFunctionOnSet(f, T) = f[p] + (f[y] + v)
            /\ SumFunctionOnSet(f, T \ {y}) = f[p] + v
        BY <2>3, <3>1, <3>2, <3>3
      <4>2. f[p] \in Int /\ f[y] \in Int /\ v \in Int
        BY <3>5
      <4> HIDE DEF v
      <4> QED
        BY <4>1, <4>2
    <3> QED
      BY <2>1, <3>6
  <2> QED
    BY <2>5, <2>6, <2>7
<1>2. Bad = {}
  <2>1. Bad \in SUBSET SUBSET S
    OBVIOUS
  <2> HIDE DEF Bad
  <2> QED
    BY <1>1, <2>1, SubsetInduction
<1> QED
  BY <1>2

(* The sum over a set with one more member.                                *)
LEMMA SumAdd ==
    ASSUME NEW f, NEW S, IsFiniteSet(S), NEW x, x \notin S,
           \A y \in S \cup {x} : f[y] \in Int
    PROVE  SumFunctionOnSet(f, S \cup {x}) = f[x] + SumFunctionOnSet(f, S)
<1>1. IsFiniteSet(S \cup {x}) /\ (S \cup {x}) \ {x} = S
  BY FS_AddElement
<1>2. QED
  BY <1>1, SumRemove

(* Only what f says of the members counts.                                 *)
LEMMA SumSame ==
    ASSUME NEW f, NEW g, NEW S, IsFiniteSet(S), \A x \in S : f[x] = g[x]
    PROVE  SumFunctionOnSet(f, S) = SumFunctionOnSet(g, S)
<1> DEFINE Bad == {T \in SUBSET S : SumFunctionOnSet(f, T) # SumFunctionOnSet(g, T)}
<1>1. ASSUME NEW T \in Bad PROVE \E U \in Bad : U \subseteq T /\ U # T
  <2>1. T # {} /\ IsFiniteSet(T)
    <3>1. ASSUME T = {} PROVE FALSE
      BY <3>1, SumEmpty
    <3>2. QED
      BY <3>1, FS_Subset
  <2>2. Pick(T) \in T
    BY <2>1, PickFacts
  <2>3. /\ SumFunctionOnSet(f, T) = f[Pick(T)] + SumFunctionOnSet(f, T \ {Pick(T)})
        /\ SumFunctionOnSet(g, T) = g[Pick(T)] + SumFunctionOnSet(g, T \ {Pick(T)})
    BY <2>1, SumPick
  <2>4. T \ {Pick(T)} \in Bad
    BY <2>2, <2>3
  <2>5. QED
    BY <2>2, <2>4
<1>2. Bad \in SUBSET SUBSET S
  OBVIOUS
<1>3. Bad = {}
  <2> HIDE DEF Bad
  <2>1. QED
    BY <1>1, <1>2, SubsetInduction
<1>4. QED
  BY <1>3

(* The sum over two sets that have no member in common.                    *)
LEMMA SumUnion ==
    ASSUME NEW f, NEW S, NEW R, IsFiniteSet(S), IsFiniteSet(R), S \cap R = {},
           \A x \in S \cup R : f[x] \in Int
    PROVE  SumFunctionOnSet(f, S \cup R) = SumFunctionOnSet(f, S) + SumFunctionOnSet(f, R)
<1> DEFINE Differs(T) == SumFunctionOnSet(f, T \cup R) # SumFunctionOnSet(f, T) + SumFunctionOnSet(f, R)
           Bad == {T \in SUBSET S : Differs(T)}
<1>0. SumFunctionOnSet(f, R) \in Int
  BY SumIsInt
<1>1. ASSUME NEW T \in Bad PROVE \E U \in Bad : U \subseteq T /\ U # T
  <2>1. T # {} /\ IsFiniteSet(T)
    <3>1. ASSUME T = {} PROVE FALSE
      <4>1. T \cup R = R /\ SumFunctionOnSet(f, T) = 0
        BY <3>1, SumEmpty
      <4>2. PICK v : v = SumFunctionOnSet(f, R) /\ 0 + v = v
        BY <1>0
      <4>3. Differs(T)
        OBVIOUS
      <4>4. QED
        BY <4>1, <4>2, <4>3
    <3>2. QED
      BY <3>1, FS_Subset
  <2>2. PICK p \in T : p = Pick(T)
    BY <2>1, PickFacts
  <2>3. PICK U : U = T \ {p}
    OBVIOUS
  <2>4. IsFiniteSet(U) /\ T \in SUBSET S /\ U \in SUBSET S
    BY <2>1, <2>3, FS_Subset
  <2>5. SumFunctionOnSet(f, T) = f[p] + SumFunctionOnSet(f, U)
    BY <2>1, <2>2, <2>3, <2>4, SumRemove
  <2>6. SumFunctionOnSet(f, T \cup R) = f[p] + SumFunctionOnSet(f, U \cup R)
    <3>1. IsFiniteSet(T \cup R) /\ (T \cup R) \ {p} = U \cup R
      BY <2>1, <2>2, <2>3, <2>4, FS_Union
    <3>2. QED
      BY <2>2, <2>4, <3>1, SumRemove
  <2>7. f[p] \in Int /\ SumFunctionOnSet(f, U) \in Int /\ SumFunctionOnSet(f, U \cup R) \in Int
    <3>1. IsFiniteSet(U \cup R) /\ \A x \in U \cup R : f[x] \in Int
      BY <2>4, FS_Union
    <3>2. QED
      BY <2>2, <2>4, <3>1, SumIsInt
  <2>8. Differs(U)
    <3>1. Differs(T)
      OBVIOUS
    <3>2. QED
      BY <1>0, <2>5, <2>6, <2>7, <3>1
  <2> HIDE DEF Differs
  <2>9. QED
    BY <2>2, <2>3, <2>4, <2>8
<1>2. Bad = {}
  <2>1. Bad \in SUBSET SUBSET S
    OBVIOUS
  <2> HIDE DEF Bad
  <2>2. QED
    BY <1>1, <2>1, SubsetInduction
<1>3. S \notin Bad
  BY <1>2
<1>4. QED
  BY <1>3

(* Of numbers that are not negative, a part sums up to no more than the    *)
(* whole.                                                                  *)
LEMMA SumMonotone ==
    ASSUME NEW f, NEW S, IsFiniteSet(S), \A x \in S : f[x] \in Nat, NEW T \in SUBSET S
    PROVE  SumFunctionOnSet(f, T) <= SumFunctionOnSet(f, S)
<1>1. PICK R : R = S \ T
  OBVIOUS
<1>2. IsFiniteSet(T) /\ IsFiniteSet(R) /\ T \cap R = {} /\ S = T \cup R
  BY <1>1, FS_Subset
<1>3. SumFunctionOnSet(f, S) = SumFunctionOnSet(f, T) + SumFunctionOnSet(f, R)
  BY <1>2, SumUnion
<1>4. SumFunctionOnSet(f, T) \in Nat /\ SumFunctionOnSet(f, R) \in Nat
  BY <1>2, SumIsNat
<1>5. QED
  BY <1>3, <1>4

(* The sum over a sequence that has got one more member.                   *)
LEMMA SumAppend ==
    ASSUME NEW n \in Nat, NEW f, NEW g, DOMAIN f = 1 .. n, DOMAIN g = 1 .. (n + 1),
           \A i \in 1 .. n : f[i] \in Int /\ g[i] = f[i], g[n + 1] \in Int
    PROVE  SumFunction(f) \in Int /\ SumFunction(g) = SumFunction(f) + g[n + 1]
<1>1. IsFiniteSet(1 .. n) /\ 1 .. (n + 1) = (1 .. n) \cup {n + 1} /\ n + 1 \notin 1 .. n
  <2>1. IsFiniteSet(1 .. n)
    BY FS_Interval
  <2>2. QED
    BY <2>1
<1>2. SumFunctionOnSet(f, 1 .. n) \in Int
  BY <1>1, SumIsInt
<1>3. SumFunctionOnSet(g, 1 .. n) = SumFunctionOnSet(f, 1 .. n)
  BY <1>1, SumSame
<1>4. \A i \in (1 .. n) \cup {n + 1} : g[i] \in Int
  OBVIOUS
<1>5. PICK s : s = 1 .. n
  OBVIOUS
<1>6. SumFunctionOnSet(g, s \cup {n + 1}) = g[n + 1] + SumFunctionOnSet(g, s)
  BY <1>1, <1>4, <1>5, SumAdd
<1>7. PICK v \in Int : v = SumFunctionOnSet(f, 1 .. n)
  BY <1>2
<1>8. SumFunctionOnSet(g, 1 .. (n + 1)) = v + g[n + 1]
  <2>1. SumFunctionOnSet(g, 1 .. (n + 1)) = g[n + 1] + v
    BY <1>1, <1>3, <1>5, <1>6, <1>7
  <2>2. g[n + 1] + v = v + g[n + 1]
    OBVIOUS
  <2>3. QED
    BY <2>1, <2>2
<1>9. QED
  BY <1>7, <1>8 DEF SumFunction

(* FiniteSetsExt's way of writing a sum.                                   *)
LEMMA SumOfMap ==
    ASSUME NEW f, NEW S
    PROVE  MapThenSumSet(LAMBDA x : f[x], S) = SumFunctionOnSet(f, S)
  BY DEF MapThenSumSet, SumFunctionOnSet, FoldFunctionOnSet, MapThenFoldSet

(* The sum of the sums over the classes into which cls divides S.          *)
LEMMA SumPartition ==
    ASSUME NEW f, NEW S, IsFiniteSet(S), \A x \in S : f[x] \in Int,
           NEW cls, NEW P, IsFiniteSet(P), \A x \in S : cls[x] \in P
    PROVE  SumFunctionOnSet(f, S)
             = SumFunctionOnSet([p \in P |-> SumFunctionOnSet(f, {x \in S : cls[x] = p})], P)
<1> DEFINE parts == [p \in P |-> SumFunctionOnSet(f, {x \in S : cls[x] = p})]
           In(Q) == {x \in S : cls[x] \in Q}
           Differs(Q) == SumFunctionOnSet(f, In(Q)) # SumFunctionOnSet(parts, Q)
           Bad == {Q \in SUBSET P : Differs(Q)}
<1>1. ASSUME NEW Q \in SUBSET P PROVE IsFiniteSet(Q) /\ IsFiniteSet(In(Q))
  BY FS_Subset
<1>2. ASSUME NEW p \in P PROVE parts[p] = SumFunctionOnSet(f, In({p})) /\ parts[p] \in Int
  <2>1. In({p}) = {x \in S : cls[x] = p}
    OBVIOUS
  <2>2. IsFiniteSet(In({p})) /\ \A x \in In({p}) : f[x] \in Int
    BY <1>1
  <2>3. SumFunctionOnSet(f, In({p})) \in Int
    <3> HIDE DEF In
    <3>1. QED
      BY <2>2, SumIsInt
  <2>4. parts[p] = SumFunctionOnSet(f, {x \in S : cls[x] = p})
    OBVIOUS
  <2>5. QED
    BY <2>1, <2>3, <2>4
<1>3. ASSUME NEW Q \in Bad PROVE \E U \in Bad : U \subseteq Q /\ U # Q
  <2>1. Q # {}
    <3>1. ASSUME Q = {} PROVE FALSE
      <4>1. In(Q) = {}
        BY <3>1
      <4>2. SumFunctionOnSet(f, In(Q)) = 0 /\ SumFunctionOnSet(parts, Q) = 0
        <5> HIDE DEF parts, In
        <5>1. QED
          BY <3>1, <4>1, SumEmpty
      <4>3. QED
        BY <4>2
    <3>2. QED
      BY <3>1
  <2>2. PICK p \in Q : TRUE
    BY <2>1
  <2>3. PICK U : U = Q \ {p}
    OBVIOUS
  <2>4. U \in SUBSET P /\ p \in P /\ U \subseteq Q /\ U # Q
    BY <2>2, <2>3
  <2>5. In(Q) = In(U) \cup In({p}) /\ In(U) \cap In({p}) = {}
    BY <2>2, <2>3
  <2>6. /\ IsFiniteSet(In(U)) /\ IsFiniteSet(In({p})) /\ IsFiniteSet(Q)
        /\ \A x \in In(U) \cup In({p}) : f[x] \in Int
    BY <1>1, <2>4
  <2>7. ASSUME NEW A, A = In(U), NEW B, B = In({p})
        PROVE  SumFunctionOnSet(f, A \cup B)
                 = SumFunctionOnSet(f, A) + SumFunctionOnSet(f, B)
    <3> HIDE DEF In
    <3>1. QED
      BY <2>5, <2>6, <2>7, SumUnion
  <2>8. SumFunctionOnSet(f, In(Q))
          = SumFunctionOnSet(f, In(U)) + SumFunctionOnSet(f, In({p}))
    <3> HIDE DEF In
    <3>1. QED
      BY <2>5, <2>7
  <2>9. \A q \in Q : parts[q] \in Int
    BY <1>2
  <2>10. SumFunctionOnSet(parts, Q) = parts[p] + SumFunctionOnSet(parts, U)
    <3> HIDE DEF parts
    <3>1. QED
      BY <2>2, <2>3, <2>6, <2>9, SumRemove
  <2>11. parts[p] = SumFunctionOnSet(f, In({p})) /\ parts[p] \in Int
    BY <1>2, <2>4
  <2>12. SumFunctionOnSet(f, In(U)) \in Int
    <3> HIDE DEF In
    <3>1. QED
      BY <2>6, SumIsInt
  <2>13. Differs(U)
    <3> SUFFICES ASSUME ~Differs(U) PROVE FALSE
      OBVIOUS
    <3>1. PICK a \in Int : a = SumFunctionOnSet(f, In(U))
      BY <2>12
    <3>2. PICK b \in Int : b = parts[p]
      BY <2>11
    <3>3. SumFunctionOnSet(parts, U) = a
      BY <3>1
    <3> HIDE DEF parts, In
    <3>4. SumFunctionOnSet(f, In(Q)) = a + b
      BY <2>8, <2>11, <3>1, <3>2
    <3>5. SumFunctionOnSet(parts, Q) = b + a
      BY <2>10, <3>2, <3>3
    <3>6. a + b = b + a
      OBVIOUS
    <3>7. QED
      BY <3>4, <3>5, <3>6
  <2>14. QED
    BY <2>4, <2>13
<1>4. Bad = {}
  <2>1. Bad \in SUBSET SUBSET P
    OBVIOUS
  <2> HIDE DEF Bad
  <2>2. QED
    BY <1>3, <2>1, SubsetInduction
<1>5. In(P) = S
  OBVIOUS
<1>6. QED
  BY <1>4, <1>5
-----------------------------------------------------------------------------
(* The first members of a finite set in some order; pred[x] is what comes  *)
(* before x.                                                               *)
Orders(pred, S) ==
    \A x \in S : /\ pred[x] \subseteq S
                 /\ x \notin pred[x]
                 /\ \A y \in pred[x] : pred[y] \subseteq pred[x]
                 /\ \A y \in S : y = x \/ y \in pred[x] \/ x \in pred[y]

(* Whoever comes before has fewer before it.                               *)
LEMMA PlaceGrows ==
    ASSUME NEW S, IsFiniteSet(S), NEW pred, Orders(pred, S), NEW x \in S, NEW y \in pred[x]
    PROVE  /\ Cardinality(pred[x]) \in Nat /\ Cardinality(pred[y]) \in Nat
           /\ Cardinality(pred[y]) < Cardinality(pred[x])
<1>1. /\ pred[x] \subseteq S /\ y \in S
      /\ pred[y] \in SUBSET pred[x] /\ y \notin pred[y]
  BY DEF Orders
<1>2. IsFiniteSet(pred[x])
  BY <1>1, FS_Subset
<1>3. PICK p : p = pred[x]
  OBVIOUS
<1>4. PICK q : q = pred[y]
  OBVIOUS
<1>5. q \in SUBSET p /\ IsFiniteSet(p) /\ q # p
  BY <1>1, <1>2, <1>3, <1>4
<1>6. /\ IsFiniteSet(q) /\ Cardinality(q) <= Cardinality(p)
      /\ Cardinality(p) # Cardinality(q)
  BY <1>5, FS_Subset
<1>7. Cardinality(p) \in Nat /\ Cardinality(q) \in Nat
  BY <1>5, <1>6, FS_CardinalityType
<1>8. Cardinality(q) < Cardinality(p)
  BY <1>6, <1>7
<1>9. QED
  BY <1>3, <1>4, <1>7, <1>8

(* Everybody has a number of members before it.                            *)
LEMMA PlaceIsNat ==
    ASSUME NEW S, IsFiniteSet(S), NEW pred, Orders(pred, S), NEW x \in S
    PROVE  IsFiniteSet(pred[x]) /\ Cardinality(pred[x]) \in Nat
<1>1. pred[x] \in SUBSET S
  BY DEF Orders
<1>2. QED
  BY <1>1, FS_Subset, FS_CardinalityType

(* A list that is shorter than it may be shows everything: whoever is      *)
(* first of those that are missing has only members of the list before it, *)
(* and as many as the list may have.                                       *)
LEMMA ShortListIsAll ==
    ASSUME NEW S, IsFiniteSet(S), NEW pred, Orders(pred, S), NEW n \in Nat,
           NEW top, top = {x \in S : Cardinality(pred[x]) < n}, Cardinality(top) < n
    PROVE  top = S
<1> DEFINE N == {Cardinality(pred[x]) : x \in S \ top}
<1>1. ASSUME N # {} PROVE FALSE
  <2>1. N \in SUBSET Nat
    BY PlaceIsNat
  <2>2. PICK m \in N : \A k \in N : m <= k
    <3> HIDE DEF N
    <3>1. QED
      BY <1>1, <2>1, LeastNumber
  <2>3. PICK x \in S \ top : m = Cardinality(pred[x])
    OBVIOUS
  <2>4. ASSUME NEW y \in pred[x] PROVE y \in top
    <3> SUFFICES ASSUME y \notin top PROVE FALSE
      OBVIOUS
    <3>1. y \in S \ top
      BY <2>3 DEF Orders
    <3>2. m <= Cardinality(pred[y])
      BY <2>2, <3>1
    <3>3. Cardinality(pred[y]) < m /\ Cardinality(pred[y]) \in Nat /\ m \in Nat
      BY <2>3, PlaceGrows
    <3>4. QED
      BY <3>2, <3>3
  <2>5. IsFiniteSet(top) /\ pred[x] \in SUBSET top
    BY <2>4, FS_Subset
  <2>6. PICK p : p = pred[x]
    OBVIOUS
  <2>7. Cardinality(p) <= Cardinality(top) /\ Cardinality(top) \in Nat
    BY <2>5, <2>6, FS_Subset, FS_CardinalityType
  <2>8. Cardinality(p) \in Nat /\ ~(Cardinality(p) < n)
    BY <2>3, <2>6, PlaceIsNat
  <2>9. QED
    BY <2>7, <2>8
<1>2. \A x \in S : x \in top
  BY <1>1
<1>3. QED
  BY <1>2

(* A list never shows more than it may: of its last member and those       *)
(* before it there are no more.                                            *)
LEMMA ListIsShort ==
    ASSUME NEW S, IsFiniteSet(S), NEW pred, Orders(pred, S), NEW n \in Nat,
           NEW top, top = {x \in S : Cardinality(pred[x]) < n}
    PROVE  IsFiniteSet(top) /\ Cardinality(top) \in Nat /\ Cardinality(top) <= n
<1>1. IsFiniteSet(top) /\ Cardinality(top) \in Nat
  BY FS_Subset, FS_CardinalityType
<1>2. CASE top = {}
  BY <1>1, <1>2, FS_EmptySet
<1>3. CASE top # {}
  <2> DEFINE N == {Cardinality(pred[x]) : x \in top}
  <2>1. N \in SUBSET Nat /\ N # {} /\ \A m \in N : m <= n
    <3>1. ASSUME NEW x \in top PROVE Cardinality(pred[x]) \in Nat /\ Cardinality(pred[x]) < n
      BY PlaceIsNat
    <3>2. QED
      BY <1>3, <3>1
  <2>2. PICK m \in N : \A k \in N : k <= m
    <3> HIDE DEF N
    <3>1. QED
      BY <2>1, GreatestNumber
  <2>3. PICK x \in top : m = Cardinality(pred[x])
    OBVIOUS
  <2>4. top \subseteq pred[x] \cup {x}
    <3> SUFFICES ASSUME NEW y \in top, y # x, y \notin pred[x] PROVE FALSE
      OBVIOUS
    <3>1. x \in pred[y]
      BY DEF Orders
    <3>2. Cardinality(pred[y]) <= m
      BY <2>2
    <3>3. m < Cardinality(pred[y]) /\ m \in Nat /\ Cardinality(pred[y]) \in Nat
      BY <2>3, <3>1, PlaceGrows
    <3>4. QED
      BY <3>2, <3>3
  <2>5. PICK p : p = pred[x] /\ IsFiniteSet(p) /\ Cardinality(p) \in Nat
    BY PlaceIsNat
  <2>6. Cardinality(p) < n /\ x \notin p
    BY <2>5 DEF Orders
  <2>7. IsFiniteSet(p \cup {x}) /\ Cardinality(p \cup {x}) = Cardinality(p) + 1
    BY <2>5, <2>6, FS_AddElement
  <2>8. PICK q : q = p \cup {x}
    OBVIOUS
  <2>9. top \in SUBSET q /\ IsFiniteSet(q)
    BY <2>4, <2>5, <2>7, <2>8
  <2>10. Cardinality(top) <= Cardinality(q)
    BY <2>9, FS_Subset
  <2>11. QED
    BY <1>1, <2>5, <2>6, <2>7, <2>8, <2>10
<1>4. QED
  BY <1>2, <1>3

(* Whoever is missing from a list is behind all that are on it, and the    *)
(* list is full.                                                           *)
LEMMA MissingIsBehind ==
    ASSUME NEW S, IsFiniteSet(S), NEW pred, Orders(pred, S), NEW n \in Nat,
           NEW top, top = {x \in S : Cardinality(pred[x]) < n}, NEW z \in S \ top
    PROVE  Cardinality(top) = n /\ top \subseteq pred[z]
<1>1. Cardinality(top) \in Nat /\ Cardinality(top) <= n /\ ~(Cardinality(top) < n)
  BY ListIsShort, ShortListIsAll
<1>2. ASSUME NEW y \in top PROVE y \in pred[z]
  <2> SUFFICES ASSUME y \notin pred[z] PROVE FALSE
    OBVIOUS
  <2>1. z \in pred[y] /\ y \in S
    BY DEF Orders
  <2>2. /\ Cardinality(pred[z]) < Cardinality(pred[y]) /\ Cardinality(pred[y]) < n
        /\ Cardinality(pred[z]) \in Nat /\ Cardinality(pred[y]) \in Nat
    BY <2>1, PlaceGrows
  <2>3. ~(Cardinality(pred[z]) < n)
    OBVIOUS
  <2>4. QED
    BY <2>2, <2>3
<1>3. QED
  BY <1>1, <1>2

(* Members listed by a number that each has, the greatest first, and those *)
(* with the same one by their own.                                         *)
LEMMA OrderedByNumber ==
    ASSUME NEW S \in SUBSET Nat, NEW v, \A x \in S : v[x] \in Int
    PROVE  /\ Orders([x \in S |-> {y \in S : v[y] > v[x] \/ (v[y] = v[x] /\ y > x)}], S)
           /\ Orders([x \in S |-> {y \in S : v[y] > v[x] \/ (v[y] = v[x] /\ y < x)}], S)
           /\ Orders([x \in S |-> {y \in S : y > x}], S)
<1>1. ASSUME NEW pred, pred = [x \in S |-> {y \in S : v[y] > v[x] \/ (v[y] = v[x] /\ y > x)}]
      PROVE  Orders(pred, S)
  <2> SUFFICES ASSUME NEW x \in S
               PROVE  /\ pred[x] \subseteq S
                      /\ x \notin pred[x]
                      /\ \A y \in pred[x] : pred[y] \subseteq pred[x]
                      /\ \A y \in S : y = x \/ y \in pred[x] \/ x \in pred[y]
    BY DEF Orders
  <2>1. pred[x] \subseteq S /\ x \notin pred[x]
    BY <1>1
  <2>2. ASSUME NEW y \in pred[x], NEW z \in pred[y] PROVE z \in pred[x]
    BY <1>1
  <2>3. \A y \in S : y = x \/ y \in pred[x] \/ x \in pred[y]
    BY <1>1
  <2>4. QED
    BY <2>1, <2>2, <2>3
<1>2. ASSUME NEW pred, pred = [x \in S |-> {y \in S : v[y] > v[x] \/ (v[y] = v[x] /\ y < x)}]
      PROVE  Orders(pred, S)
  <2> SUFFICES ASSUME NEW x \in S
               PROVE  /\ pred[x] \subseteq S
                      /\ x \notin pred[x]
                      /\ \A y \in pred[x] : pred[y] \subseteq pred[x]
                      /\ \A y \in S : y = x \/ y \in pred[x] \/ x \in pred[y]
    BY DEF Orders
  <2>1. pred[x] \subseteq S /\ x \notin pred[x]
    BY <1>2
  <2>2. ASSUME NEW y \in pred[x], NEW z \in pred[y] PROVE z \in pred[x]
    BY <1>2
  <2>3. \A y \in S : y = x \/ y \in pred[x] \/ x \in pred[y]
    BY <1>2
  <2>4. QED
    BY <2>1, <2>2, <2>3
<1>3. ASSUME NEW pred, pred = [x \in S |-> {y \in S : y > x}]
      PROVE  Orders(pred, S)
  <2> SUFFICES ASSUME NEW x \in S
               PROVE  /\ pred[x] \subseteq S
                      /\ x \notin pred[x]
                      /\ \A y \in pred[x] : pred[y] \subseteq pred[x]
                      /\ \A y \in S : y = x \/ y \in pred[x] \/ x \in pred[y]
    BY DEF Orders
  <2>1. pred[x] \subseteq S /\ x \notin pred[x]
    BY <1>3
  <2>2. ASSUME NEW y \in pred[x], NEW z \in pred[y] PROVE z \in pred[x]
    BY <1>3
  <2>3. \A y \in S : y = x \/ y \in pred[x] \/ x \in pred[y]
    BY <1>3
  <2>4. QED
    BY <2>1, <2>2, <2>3
<1>4. QED
  BY <1>1, <1>2, <1>3
-----------------------------------------------------------------------------
(* What a quotient of natural numbers is.                                  *)
LEMMA Quotient ==
    ASSUME NEW a \in Nat, NEW d \in Nat \ {0}
    PROVE  /\ a \div d \in Nat
           /\ (a \div d) * d <= a /\ a < (a \div d) * d + d
  OBVIOUS

(* A multiple of d that is above another is above it by d at least.        *)
LEMMA NextMultiple ==
    ASSUME NEW a \in Nat, NEW b \in Nat, NEW d \in Nat \ {0}, a < b
    PROVE  a * d + d <= b * d
<1>1. PICK c \in Nat : b = a + 1 + c
  <2>1. b - a - 1 \in Nat /\ b = a + 1 + (b - a - 1)
    OBVIOUS
  <2>2. QED
    BY <2>1
<1>2. b * d = a * d + d + c * d /\ c * d \in Nat /\ a * d \in Nat
  BY <1>1
<1>3. QED
  BY <1>2

(* How a number compares with a quotient, by its multiple of the divisor.  *)
LEMMA QuotientIs ==
    ASSUME NEW a \in Nat, NEW d \in Nat \ {0}, NEW q \in Nat
    PROVE  /\ q * d <= a /\ a < q * d + d => a \div d = q
           /\ q * d <= a => q <= a \div d
           /\ (q * d) \div d = q
<1>1. PICK p \in Nat : p = a \div d /\ p * d <= a /\ a < p * d + d
  BY Quotient
<1>2. q * d \in Nat /\ p * d \in Nat
  OBVIOUS
<1>3. q * d <= a => q <= p
  <2> SUFFICES ASSUME q * d <= a, p < q PROVE FALSE
    BY <1>1
  <2>1. p * d + d <= q * d
    BY NextMultiple
  <2>2. QED
    BY <1>1, <1>2, <2>1
<1>4. a < q * d + d => p <= q
  <2> SUFFICES ASSUME a < q * d + d, q < p PROVE FALSE
    BY <1>1
  <2>1. q * d + d <= p * d
    BY NextMultiple
  <2>2. QED
    BY <1>1, <1>2, <2>1
<1>5. (q * d) \div d = q
  OBVIOUS
<1>6. QED
  BY <1>1, <1>3, <1>4, <1>5
=============================================================================
