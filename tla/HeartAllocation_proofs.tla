------------------------ MODULE HeartAllocation_proofs ------------------------
(***************************************************************************)
(* Theorems about HeartAllocation, for every number of lives, of colours,  *)
(* of hearts and of needs.  The first half is about sums over finite sets, *)
(* which are defined by recursion: each fact is an induction over the      *)
(* number of elements.                                                     *)
(***************************************************************************)
EXTENDS HeartAllocation, FiniteSetTheorems, TLAPS

-----------------------------------------------------------------------------
(***************************************************************************)
(* Induction and recursion.                                                *)
(***************************************************************************)

\* Induction over the numbers, for a set of them.
LEMMA NatSetInduction ==
  ASSUME NEW T \in SUBSET Nat, 0 \in T, \A n \in T : n + 1 \in T
  PROVE  T = Nat
<1>1. SUFFICES ASSUME Nat \ T # {} PROVE FALSE
  OBVIOUS
<1> DEFINE R == OpToRel(<, Nat)
<1>2. IsWellFoundedOn(R, Nat)
  BY NatLessThanWellFounded
<1>3. PICK x \in Nat \ T : \A y \in Nat \ T : ~(<<y, x>> \in R)
  <2>1. Nat \ T \subseteq Nat
    OBVIOUS
  <2> HIDE DEF R
  <2> QED
    BY <1>1, <1>2, <2>1, WFMin
<1>4. \A y \in Nat \ T : ~ (y < x)
  BY <1>3 DEF OpToRel
<1>5. x # 0 /\ x - 1 \in Nat /\ x - 1 < x /\ (x - 1) + 1 = x
  OBVIOUS
<1>6. x - 1 \in T
  BY <1>4, <1>5
<1> QED
  BY <1>5, <1>6

Pick(s) == CHOOSE x \in s : TRUE

LEMMA PickIn == ASSUME NEW s, s # {} PROVE Pick(s) \in s
  BY DEF Pick

\* A subset of a finite set has a size, smaller without one of its elements.
LEMMA Sizes ==
  ASSUME NEW S, IsFiniteSet(S), NEW s \in SUBSET S
  PROVE  /\ IsFiniteSet(s) /\ Cardinality(s) \in Nat
         /\ Cardinality(s) <= Cardinality(S)
         /\ Cardinality(s) = 0 <=> s = {}
         /\ \A x \in s : /\ s \ {x} \in SUBSET S
                         /\ Cardinality(s \ {x}) = Cardinality(s) - 1
<1>1. IsFiniteSet(s) /\ Cardinality(s) <= Cardinality(S)
  BY FS_Subset
<1> QED
  BY <1>1, FS_CardinalityType, FS_EmptySet, FS_RemoveElement

\* The value of g at s is the one that the recursion with base and F gives it.
Follows(g, s, base, F) ==
    g[s] = IF s = {} THEN base ELSE F[Pick(s)][g[s \ {Pick(s)}]]

\* A function defined by recursion over the subsets of a finite set exists.
LEMMA SetRecursion ==
  ASSUME NEW S, IsFiniteSet(S), NEW V, NEW base \in V, NEW F \in [S -> [V -> V]]
  PROVE  \E g \in [SUBSET S -> V] : \A s \in SUBSET S :
            Follows(g, s, base, F)
<1> DEFINE T == {n \in Nat : \E g \in [SUBSET S -> V] :
                    \A s \in SUBSET S : Cardinality(s) <= n => Follows(g, s, base, F)}
<1>1. 0 \in T
  <2> DEFINE g == [s \in SUBSET S |-> base]
  <2>1. g \in [SUBSET S -> V]
    OBVIOUS
  <2>2. ASSUME NEW s \in SUBSET S, Cardinality(s) <= 0
        PROVE  Follows(g, s, base, F)
    <3>1. s = {}
      BY <2>2, Sizes
    <3> QED
      BY <3>1 DEF Follows
  <2> QED
    BY <2>1, <2>2
<1>2. ASSUME NEW n \in Nat, n \in T
      PROVE  n + 1 \in T
  <2>1. PICK g \in [SUBSET S -> V] :
             \A s \in SUBSET S : Cardinality(s) <= n => Follows(g, s, base, F)
    BY <1>2
  <2> DEFINE h == [s \in SUBSET S |-> IF Cardinality(s) <= n THEN g[s]
                                      ELSE F[Pick(s)][g[s \ {Pick(s)}]]]
  <2>2. ASSUME NEW s \in SUBSET S, s # {}
        PROVE  /\ Pick(s) \in S /\ s \ {Pick(s)} \in SUBSET S
               /\ Cardinality(s) \in Nat
               /\ Cardinality(s \ {Pick(s)}) = Cardinality(s) - 1
               /\ F[Pick(s)][g[s \ {Pick(s)}]] \in V
    BY <2>2, PickIn, Sizes
  <2>3. Cardinality({}) = 0 /\ {} \in SUBSET S
    BY FS_EmptySet
  <2>4. h \in [SUBSET S -> V]
    <3>1. ASSUME NEW s \in SUBSET S
          PROVE  (IF Cardinality(s) <= n THEN g[s]
                  ELSE F[Pick(s)][g[s \ {Pick(s)}]]) \in V
      <4>1. CASE s = {}
        BY <2>1, <2>3, <4>1
      <4>2. CASE s # {}
        BY <2>1, <2>2, <4>2
      <4> QED
        BY <4>1, <4>2
    <3> QED
      BY <3>1
  <2>5. ASSUME NEW s \in SUBSET S, Cardinality(s) <= n + 1
        PROVE  Follows(h, s, base, F)
    <3>1. CASE s = {}
      <4>1. Cardinality(s) <= n
        BY <2>3, <3>1
      <4>2. h[s] = g[s]
        BY <4>1
      <4> QED
        BY <2>1, <3>1, <4>1, <4>2 DEF Follows
    <3>2. CASE s # {}
      <4>1. /\ Cardinality(s) \in Nat
            /\ Cardinality(s \ {Pick(s)}) = Cardinality(s) - 1
        BY <2>2, <3>2
      <4>5. Cardinality(s \ {Pick(s)}) <= n
        BY <4>1, <2>5
      <4>2. h[s \ {Pick(s)}] = g[s \ {Pick(s)}]
        BY <4>5, <2>2, <3>2
      <4>3. h[s] = F[Pick(s)][g[s \ {Pick(s)}]]
        BY <2>1, <3>2 DEF Follows
      <4> QED
        BY <4>2, <4>3, <3>2 DEF Follows
    <3> QED
      BY <3>1, <3>2
  <2> HIDE DEF h
  <2> QED
    BY <2>4, <2>5
<1>3. T = Nat
  <2> HIDE DEF T
  <2>1. T \in SUBSET Nat
    BY DEF T
  <2> QED
    BY <1>1, <1>2, <2>1, NatSetInduction
<1>4. Cardinality(S) \in T
  BY <1>3, FS_CardinalityType
<1>5. PICK g \in [SUBSET S -> V] :
           \A s \in SUBSET S : Cardinality(s) <= Cardinality(S) => Follows(g, s, base, F)
  BY <1>4
<1>6. \A s \in SUBSET S : Cardinality(s) <= Cardinality(S)
  BY Sizes
<1> QED
  BY <1>5, <1>6

-----------------------------------------------------------------------------
(***************************************************************************)
(* Sums.                                                                   *)
(***************************************************************************)

\* g is the table of the sums of f over the subsets of S.
IsSum(g, f, S) ==
    g = [s \in SUBSET S |-> IF s = {} THEN 0 ELSE f[Pick(s)] + g[s \ {Pick(s)}]]

LEMMA SumTable ==
  ASSUME NEW S, IsFiniteSet(S), NEW f, \A x \in S : f[x] \in Nat
  PROVE  \E g : IsSum(g, f, S) /\ SumFunctionOnSet(f, S) = g[S]
<1> DEFINE F == [x \in S |-> [v \in Nat |-> f[x] + v]]
<1>1. F \in [S -> [Nat -> Nat]]
  OBVIOUS
<1>2. PICK g \in [SUBSET S -> Nat] : \A s \in SUBSET S : Follows(g, s, 0, F)
  <2> HIDE DEF F
  <2>1. 0 \in Nat
    OBVIOUS
  <2> QED
    BY <1>1, <2>1, SetRecursion
<1>3. ASSUME NEW s \in SUBSET S, s # {}
      PROVE  g[s] = f[Pick(s)] + g[s \ {Pick(s)}]
  <2>1. Pick(s) \in S /\ s \ {Pick(s)} \in SUBSET S
    BY <1>3, PickIn
  <2>2. g[s] = F[Pick(s)][g[s \ {Pick(s)}]]
    BY <1>2, <1>3 DEF Follows
  <2> QED
    BY <2>1, <2>2
<1>4. g[{}] = 0
  BY <1>2 DEF Follows
<1>5. IsSum(g, f, S)
  BY <1>3, <1>4 DEF IsSum
<1> QED
  BY <1>5, ZenonT(60) DEF IsSum, Pick, SumFunctionOnSet, FoldFunctionOnSet, MapThenFoldSet

\* A table is determined by the function, and agrees with a larger one.
LEMMA TablesAgree ==
  ASSUME NEW S, IsFiniteSet(S), NEW f, \A x \in S : f[x] \in Nat, NEW T \in SUBSET S,
         NEW g, IsSum(g, f, S), NEW h, IsSum(h, f, T)
  PROVE  \A s \in SUBSET T : g[s] = h[s] /\ g[s] \in Nat
<1> DEFINE N == {n \in Nat : \A s \in SUBSET T :
                    Cardinality(s) = n => g[s] = h[s] /\ g[s] \in Nat}
<1>1. 0 \in N
  <2>1. ASSUME NEW s \in SUBSET T, Cardinality(s) = 0
        PROVE  g[s] = h[s] /\ g[s] \in Nat
    <3>1. s = {}
      BY <2>1, Sizes
    <3> QED
      BY <3>1 DEF IsSum
  <2> QED
    BY <2>1
<1>2. ASSUME NEW n \in Nat, n \in N
      PROVE  n + 1 \in N
  <2>1. ASSUME NEW s \in SUBSET T, Cardinality(s) = n + 1
        PROVE  g[s] = h[s] /\ g[s] \in Nat
    <3>1. s # {} /\ s \in SUBSET S
      BY <2>1, Sizes
    <3>2. Pick(s) \in S /\ s \ {Pick(s)} \in SUBSET T /\ Cardinality(s \ {Pick(s)}) = n
      BY <2>1, <3>1, PickIn, Sizes
    <3>3. /\ g[s \ {Pick(s)}] = h[s \ {Pick(s)}]
          /\ g[s \ {Pick(s)}] \in Nat
      BY <1>2, <3>2
    <3>4. /\ g[s] = f[Pick(s)] + g[s \ {Pick(s)}]
          /\ h[s] = f[Pick(s)] + h[s \ {Pick(s)}]
      BY <3>1 DEF IsSum
    <3>5. f[Pick(s)] \in Nat
      BY <3>2
    <3> QED
      BY <3>3, <3>4, <3>5
  <2> QED
    BY <2>1
<1>3. N = Nat
  <2> HIDE DEF N
  <2>1. N \in SUBSET Nat
    BY DEF N
  <2> QED
    BY <1>1, <1>2, <2>1, NatSetInduction
<1>4. ASSUME NEW s \in SUBSET T
      PROVE  Cardinality(s) \in Nat
  BY Sizes
<1> QED
  BY <1>3, <1>4

LEMMA SumEmpty == ASSUME NEW f PROVE SumFunctionOnSet(f, {}) = 0
<1>1. IsFiniteSet({})
  BY FS_EmptySet
<1>2. PICK g : IsSum(g, f, {}) /\ SumFunctionOnSet(f, {}) = g[{}]
  BY <1>1, SumTable
<1> QED
  BY <1>2 DEF IsSum

LEMMA SumPick ==
  ASSUME NEW S, IsFiniteSet(S), NEW f, \A x \in S : f[x] \in Nat
  PROVE  /\ SumFunctionOnSet(f, S) \in Nat
         /\ S # {} => SumFunctionOnSet(f, S) =
                         f[Pick(S)] + SumFunctionOnSet(f, S \ {Pick(S)})
<1>1. PICK g : IsSum(g, f, S) /\ SumFunctionOnSet(f, S) = g[S]
  BY SumTable
<1>2. SumFunctionOnSet(f, S) \in Nat
  BY <1>1, TablesAgree
<1>3. ASSUME S # {}
      PROVE  g[S \ {Pick(S)}] = SumFunctionOnSet(f, S \ {Pick(S)})
  <2>1. IsFiniteSet(S \ {Pick(S)}) /\ S \ {Pick(S)} \in SUBSET S
    BY FS_Subset
  <2>2. PICK h : /\ IsSum(h, f, S \ {Pick(S)})
                 /\ SumFunctionOnSet(f, S \ {Pick(S)}) = h[S \ {Pick(S)}]
    BY <2>1, SumTable
  <2> QED
    BY <1>1, <2>1, <2>2, TablesAgree
<1>4. S # {} => g[S] = f[Pick(S)] + g[S \ {Pick(S)}]
  BY <1>1 DEF IsSum
<1> QED
  BY <1>1, <1>2, <1>3, <1>4

\* Any element may be taken first.
LEMMA SumElement ==
  ASSUME NEW S, IsFiniteSet(S), NEW f, \A x \in S : f[x] \in Nat, NEW e \in S
  PROVE  SumFunctionOnSet(f, S) = f[e] + SumFunctionOnSet(f, S \ {e})
<1> DEFINE N == {n \in Nat : \A s \in SUBSET S : Cardinality(s) = n =>
                    \A x \in s : SumFunctionOnSet(f, s) = f[x] + SumFunctionOnSet(f, s \ {x})}
<1>0. \A s \in SUBSET S : SumFunctionOnSet(f, s) \in Nat
  BY FS_Subset, SumPick
<1>1. 0 \in N
  BY Sizes
<1>2. ASSUME NEW n \in Nat, n \in N
      PROVE  n + 1 \in N
  <2>1. ASSUME NEW s \in SUBSET S, Cardinality(s) = n + 1, NEW x \in s
        PROVE  SumFunctionOnSet(f, s) = f[x] + SumFunctionOnSet(f, s \ {x})
    <3> DEFINE c == Pick(s)
    <3>1. c \in s
      BY PickIn
    <3>2. SumFunctionOnSet(f, s) = f[c] + SumFunctionOnSet(f, s \ {c})
      BY SumPick, FS_Subset
    <3> HIDE DEF c
    <3>3. CASE c = x
      BY <3>2, <3>3
    <3>4. CASE c # x
      <4>1. /\ Cardinality(s \ {c}) = n /\ s \ {c} \in SUBSET S
            /\ Cardinality(s \ {x}) = n /\ s \ {x} \in SUBSET S
        BY <2>1, <3>1, Sizes
      <4>2. /\ SumFunctionOnSet(f, s \ {c}) = f[x] + SumFunctionOnSet(f, (s \ {c}) \ {x})
            /\ SumFunctionOnSet(f, s \ {x}) = f[c] + SumFunctionOnSet(f, (s \ {x}) \ {c})
        BY <1>2, <3>1, <3>4, <4>1
      <4>3. (s \ {c}) \ {x} = (s \ {x}) \ {c}
        OBVIOUS
      <4>4. /\ f[x] \in Nat /\ f[c] \in Nat
            /\ SumFunctionOnSet(f, (s \ {x}) \ {c}) \in Nat
        BY <1>0, <3>1
      <4> QED
        BY <3>2, <4>2, <4>3, <4>4
    <3> QED
      BY <3>3, <3>4
  <2> QED
    BY <2>1
<1>3. N = Nat
  <2> HIDE DEF N
  <2>1. N \in SUBSET Nat
    BY DEF N
  <2> QED
    BY <1>1, <1>2, <2>1, NatSetInduction
<1>4. Cardinality(S) \in Nat /\ S \in SUBSET S
  BY FS_CardinalityType
<1> QED
  BY <1>3, <1>4

LEMMA SumAdd ==
  ASSUME NEW S, IsFiniteSet(S), NEW f, \A x \in S : f[x] \in Nat,
         NEW s \in SUBSET S, NEW e \in S \ s
  PROVE  SumFunctionOnSet(f, s \cup {e}) = f[e] + SumFunctionOnSet(f, s)
<1>1. IsFiniteSet(s \cup {e}) /\ (s \cup {e}) \ {e} = s
  BY FS_Subset
<1> QED
  BY <1>1, SumElement

LEMMA SumNat ==
  ASSUME NEW S, IsFiniteSet(S), NEW f, \A x \in S : f[x] \in Nat, NEW s \in SUBSET S
  PROVE  SumFunctionOnSet(f, s) \in Nat
  BY FS_Subset, SumPick

\* Induction over the subsets of a finite set, for a set of them.
LEMMA SubsetInduction ==
  ASSUME NEW S, IsFiniteSet(S), NEW G \in SUBSET SUBSET S, {} \in G,
         \A s \in G : \A x \in S \ s : s \cup {x} \in G
  PROVE  \A s \in SUBSET S : s \in G
<1> DEFINE N == {n \in Nat : \A s \in SUBSET S : Cardinality(s) = n => s \in G}
<1>1. 0 \in N
  BY Sizes
<1>2. ASSUME NEW n \in Nat, n \in N
      PROVE  n + 1 \in N
  <2>1. ASSUME NEW s \in SUBSET S, Cardinality(s) = n + 1
        PROVE  s \in G
    <3>1. PICK x \in s : TRUE
      BY <2>1, Sizes
    <3>2. Cardinality(s \ {x}) = n /\ s \ {x} \in SUBSET S
      BY <2>1, Sizes
    <3>3. s \ {x} \in G /\ x \in S \ (s \ {x})
      BY <1>2, <3>2
    <3>4. (s \ {x}) \cup {x} = s
      OBVIOUS
    <3> QED
      BY <3>3, <3>4
  <2> QED
    BY <2>1
<1>3. N = Nat
  <2> HIDE DEF N
  <2>1. N \in SUBSET Nat
    BY DEF N
  <2> QED
    BY <1>1, <1>2, <2>1, NatSetInduction
<1> QED
  BY <1>3, Sizes

\* Sums of functions that agree, that are ordered, or that are added.
LEMMA SumPointwise ==
  ASSUME NEW S, IsFiniteSet(S), NEW f, NEW g, NEW h,
         \A x \in S : f[x] \in Nat /\ g[x] \in Nat /\ h[x] \in Nat
  PROVE  /\ (\A x \in S : f[x] = g[x]) => SumFunctionOnSet(f, S) = SumFunctionOnSet(g, S)
         /\ (\A x \in S : f[x] <= g[x]) => SumFunctionOnSet(f, S) <= SumFunctionOnSet(g, S)
         /\ (\A x \in S : f[x] + g[x] = h[x]) =>
               SumFunctionOnSet(f, S) + SumFunctionOnSet(g, S) = SumFunctionOnSet(h, S)
         /\ (\A x \in S : f[x] = 0) => SumFunctionOnSet(f, S) = 0
<1> DEFINE Ok(s) ==
      /\ (\A x \in S : f[x] = g[x]) => SumFunctionOnSet(f, s) = SumFunctionOnSet(g, s)
      /\ (\A x \in S : f[x] <= g[x]) => SumFunctionOnSet(f, s) <= SumFunctionOnSet(g, s)
      /\ (\A x \in S : f[x] + g[x] = h[x]) =>
            SumFunctionOnSet(f, s) + SumFunctionOnSet(g, s) = SumFunctionOnSet(h, s)
      /\ (\A x \in S : f[x] = 0) => SumFunctionOnSet(f, s) = 0
    G == {s \in SUBSET S : Ok(s)}
<1>1. {} \in G
  BY SumEmpty
<1>2. ASSUME NEW s \in SUBSET S, Ok(s), NEW e \in S \ s
      PROVE  Ok(s \cup {e})
  <2>1. /\ SumFunctionOnSet(f, s \cup {e}) = f[e] + SumFunctionOnSet(f, s)
        /\ SumFunctionOnSet(g, s \cup {e}) = g[e] + SumFunctionOnSet(g, s)
        /\ SumFunctionOnSet(h, s \cup {e}) = h[e] + SumFunctionOnSet(h, s)
    BY SumAdd
  <2>2. /\ f[e] \in Nat /\ g[e] \in Nat /\ h[e] \in Nat
        /\ SumFunctionOnSet(f, s) \in Nat
        /\ SumFunctionOnSet(g, s) \in Nat
        /\ SumFunctionOnSet(h, s) \in Nat
    BY SumNat
  <2> QED
    BY <1>2, <2>1, <2>2
<1>3. ASSUME NEW s \in G, NEW x \in S \ s
      PROVE  s \cup {x} \in G
  BY <1>2
<1>4. \A s \in SUBSET S : s \in G
  <2> HIDE DEF G
  <2>1. G \in SUBSET SUBSET S
    BY DEF G
  <2> QED
    BY <1>1, <1>3, <2>1, SubsetInduction
<1> QED
  BY <1>4

LEMMA SumNull ==
  ASSUME NEW S, IsFiniteSet(S), NEW f, \A x \in S : f[x] = 0
  PROVE  SumFunctionOnSet(f, S) = 0
<1>1. \A x \in S : f[x] \in Nat /\ f[x] \in Nat /\ f[x] \in Nat
  OBVIOUS
<1> QED
  BY <1>1, SumPointwise

LEMMA SumSame ==
  ASSUME NEW S, IsFiniteSet(S), NEW f, NEW g, \A x \in S : f[x] \in Nat /\ f[x] = g[x]
  PROVE  SumFunctionOnSet(f, S) = SumFunctionOnSet(g, S)
<1>1. \A x \in S : f[x] \in Nat /\ g[x] \in Nat /\ f[x] \in Nat
  OBVIOUS
<1>2. \A x \in S : f[x] = g[x]
  OBVIOUS
<1> QED
  BY <1>1, <1>2, SumPointwise

LEMMA SumOrder ==
  ASSUME NEW S, IsFiniteSet(S), NEW f, NEW g,
         \A x \in S : f[x] \in Nat /\ g[x] \in Nat /\ f[x] <= g[x]
  PROVE  SumFunctionOnSet(f, S) <= SumFunctionOnSet(g, S)
<1>1. \A x \in S : f[x] \in Nat /\ g[x] \in Nat /\ f[x] \in Nat
  OBVIOUS
<1>2. \A x \in S : f[x] <= g[x]
  OBVIOUS
<1> QED
  BY <1>1, <1>2, SumPointwise

LEMMA SumPlus ==
  ASSUME NEW S, IsFiniteSet(S), NEW f, NEW g, NEW h,
         \A x \in S : f[x] \in Nat /\ g[x] \in Nat /\ h[x] = f[x] + g[x]
  PROVE  SumFunctionOnSet(f, S) + SumFunctionOnSet(g, S) = SumFunctionOnSet(h, S)
<1>1. \A x \in S : f[x] \in Nat /\ g[x] \in Nat /\ h[x] \in Nat
  OBVIOUS
<1>2. \A x \in S : f[x] + g[x] = h[x]
  OBVIOUS
<1> QED
  BY <1>1, <1>2, SumPointwise

-----------------------------------------------------------------------------
(***************************************************************************)
(* Hearts: what one live takes, and what that leaves for the others.       *)
(***************************************************************************)

Hearts == [HeartSlot -> Nat]

\* The test of _apply_live_requirements: the hearts p and w wild ones cover the
\* needs m.
Fits(p, w, m) == Lacking(p, m) <= w /\ Total(m) <= Total(p) + w

\* What the coloured needs n take of the hearts p.
OwnColour(p, n) == [h \in HeartSlot |-> IF h = 0 THEN 0 ELSE Lesser(p[h], n[h])]

\* The hearts that neither they nor the needs m of their colour take.
Spare(p, n, m) ==
    [h \in HeartSlot |-> Short(IF h = 0 THEN 0 ELSE m[h], p[h] - OwnColour(p, n)[h])]

\* k hearts taken from u, slot by slot.
Greedy(u, k) ==
    [h \in HeartSlot |-> Lesser(u[h], Short(SumFunctionOnSet(u, 0 .. h - 1), k))]

LEMMA Slots ==
  /\ IsFiniteSet(HeartSlot) /\ IsFiniteSet(Color)
  /\ 0 \in HeartSlot /\ Color = HeartSlot \ {0} /\ Color \subseteq HeartSlot
  /\ \A h \in HeartSlot : h \in Nat
<1>1. Colors \in Nat
  BY HeartAssumption
<1>2. IsFiniteSet(0 .. Colors) /\ IsFiniteSet(1 .. Colors)
  BY <1>1, FS_Interval
<1> QED
  BY <1>1, <1>2 DEF HeartSlot, Color

LEMMA TotalSplit ==
  ASSUME NEW f, \A h \in HeartSlot : f[h] \in Nat
  PROVE  /\ Total(f) = f[0] + SumFunctionOnSet(f, Color)
         /\ SumFunctionOnSet(f, Color) \in Nat /\ f[0] \in Nat /\ Total(f) \in Nat
<1>1. SumFunctionOnSet(f, HeartSlot) = f[0] + SumFunctionOnSet(f, HeartSlot \ {0})
  BY Slots, SumElement
<1>2. SumFunctionOnSet(f, Color) \in Nat /\ SumFunctionOnSet(f, HeartSlot) \in Nat
  BY Slots, SumNat
<1> QED
  BY <1>1, <1>2, Slots DEF Total

LEMMA ShortNat ==
  ASSUME NEW m \in Nat, NEW n \in Nat
  PROVE  /\ Short(m, n) \in Nat /\ Lesser(m, n) \in Nat
         /\ Lesser(m, n) + Short(m, n) = n
         /\ Lesser(m, n) <= m /\ Lesser(m, n) <= n
         /\ Short(m, n) <= n
  BY DEF Short, Lesser

LEMMA LackingNat ==
  ASSUME NEW p \in Hearts, NEW n \in Hearts
  PROVE  Lacking(p, n) \in Nat
<1>1. \A x \in Color : [c \in Color |-> Short(p[c], n[c])][x] \in Nat
  BY Slots, ShortNat DEF Hearts
<1> QED
  BY <1>1, Slots, SumNat DEF Lacking

\* Taking slot by slot takes what is asked for, or all there is.
LEMMA GreedyTotal ==
  ASSUME NEW u \in Hearts, NEW k \in Nat
  PROVE  /\ Greedy(u, k) \in Hearts
         /\ \A h \in HeartSlot : Greedy(u, k)[h] <= u[h]
         /\ Total(Greedy(u, k)) = Lesser(Total(u), k)
<1> DEFINE b == Greedy(u, k)
           P(n) == SumFunctionOnSet(b, 0 .. n - 1) = Lesser(SumFunctionOnSet(u, 0 .. n - 1), k)
           N == {n \in Nat : n <= Colors + 1 => P(n)}
<1>0. Colors \in Nat
  BY HeartAssumption
<1>1. \A n \in Nat : n <= Colors + 1 => 0 .. n - 1 \in SUBSET HeartSlot
  BY <1>0 DEF HeartSlot
<1>2. \A n \in Nat : n <= Colors + 1 => SumFunctionOnSet(u, 0 .. n - 1) \in Nat
  BY <1>1, Slots, SumNat DEF Hearts
<1>3. ASSUME NEW h \in HeartSlot
      PROVE  /\ SumFunctionOnSet(u, 0 .. h - 1) \in Nat
             /\ b[h] = Lesser(u[h], Short(SumFunctionOnSet(u, 0 .. h - 1), k))
             /\ b[h] \in Nat /\ b[h] <= u[h]
  <2>1. h \in Nat /\ h <= Colors + 1
    BY <1>0 DEF HeartSlot
  <2>2. SumFunctionOnSet(u, 0 .. h - 1) \in Nat
    BY <1>2, <2>1
  <2>3. Short(SumFunctionOnSet(u, 0 .. h - 1), k) \in Nat /\ u[h] \in Nat
    BY <2>2, ShortNat DEF Hearts
  <2> QED
    BY <2>2, <2>3, ShortNat DEF Greedy
<1>4. b \in Hearts
  BY <1>3 DEF Hearts, Greedy
<1> HIDE DEF b
<1>10. \A D \in SUBSET HeartSlot : \A h \in HeartSlot \ D :
          /\ SumFunctionOnSet(b, D \cup {h}) = b[h] + SumFunctionOnSet(b, D)
          /\ SumFunctionOnSet(u, D \cup {h}) = u[h] + SumFunctionOnSet(u, D)
  <2>1. IsFiniteSet(HeartSlot)
    BY Slots
  <2>2. \A h \in HeartSlot : b[h] \in Nat
    BY <1>4 DEF Hearts
  <2>3. \A h \in HeartSlot : u[h] \in Nat
    BY DEF Hearts
  <2>4. ASSUME NEW D \in SUBSET HeartSlot, NEW h \in HeartSlot \ D
        PROVE  SumFunctionOnSet(b, D \cup {h}) = b[h] + SumFunctionOnSet(b, D)
    BY <2>1, <2>2, SumAdd
  <2>5. ASSUME NEW D \in SUBSET HeartSlot, NEW h \in HeartSlot \ D
        PROVE  SumFunctionOnSet(u, D \cup {h}) = u[h] + SumFunctionOnSet(u, D)
    BY <2>1, <2>3, SumAdd
  <2> QED
    BY <2>4, <2>5
<1>5. 0 \in N
  <2>1. 0 .. 0 - 1 = {}
    OBVIOUS
  <2>2. SumFunctionOnSet(b, {}) = 0 /\ SumFunctionOnSet(u, {}) = 0
    BY SumEmpty
  <2> QED
    BY <2>1, <2>2 DEF Lesser
<1>6. ASSUME NEW n \in Nat, n \in N
      PROVE  n + 1 \in N
  <2>1. SUFFICES ASSUME n + 1 <= Colors + 1 PROVE P(n + 1)
    OBVIOUS
  <2> DEFINE D == 0 .. n - 1
  <2>2. n \in HeartSlot /\ D \in SUBSET HeartSlot /\ n \in HeartSlot \ D
    BY <1>0, <2>1 DEF HeartSlot
  <2>3. 0 .. (n + 1) - 1 = D \cup {n}
    OBVIOUS
  <2>4. P(n)
    BY <1>6, <2>1, <1>0
  <2>5. /\ SumFunctionOnSet(b, D \cup {n}) = b[n] + SumFunctionOnSet(b, D)
        /\ SumFunctionOnSet(u, D \cup {n}) = u[n] + SumFunctionOnSet(u, D)
    BY <1>10, <2>2
  <2>6. /\ SumFunctionOnSet(u, D) \in Nat /\ u[n] \in Nat
        /\ b[n] = Lesser(u[n], Short(SumFunctionOnSet(u, D), k))
    BY <1>3, <2>2 DEF Hearts
  <2>7. SumFunctionOnSet(b, D) = Lesser(SumFunctionOnSet(u, D), k)
    BY <2>4
  <2> HIDE DEF D
  <2>8. SumFunctionOnSet(b, D \cup {n}) = Lesser(SumFunctionOnSet(u, D \cup {n}), k)
    BY <2>5, <2>6, <2>7 DEF Lesser, Short
  <2> QED
    BY <2>3, <2>8
<1>7. N = Nat
  <2> HIDE DEF N
  <2>1. N \in SUBSET Nat
    BY DEF N
  <2> QED
    BY <1>5, <1>6, <2>1, NatSetInduction
<1>8. P(Colors + 1)
  <2>1. Colors + 1 \in N
    <3> HIDE DEF N
    <3> QED
      BY <1>7, <1>0
  <2> QED
    BY <2>1, <1>0
<1>9. 0 .. (Colors + 1) - 1 = HeartSlot
  BY <1>0 DEF HeartSlot
<1> QED
  BY <1>3, <1>4, <1>8, <1>9 DEF b, Total

Gap(p, n) == [c \in Color |-> Short(p[c], n[c])]

LEMMA GapSum ==
  ASSUME NEW p \in Hearts, NEW n \in Hearts
  PROVE  /\ Lacking(p, n) = SumFunctionOnSet(Gap(p, n), Color)
         /\ \A c \in Color : /\ Gap(p, n)[c] = Short(p[c], n[c])
                             /\ Gap(p, n)[c] \in Nat /\ p[c] \in Nat /\ n[c] \in Nat
  BY Slots, ShortNat DEF Lacking, Gap, Hearts

LEMMA OwnColourNat ==
  ASSUME NEW p \in Hearts, NEW n \in Hearts
  PROVE  /\ OwnColour(p, n) \in Hearts
         /\ \A h \in HeartSlot : OwnColour(p, n)[h] <= p[h]
  BY ShortNat DEF OwnColour, Hearts

LEMMA SpareNat ==
  ASSUME NEW p \in Hearts, NEW n \in Hearts, NEW m \in Hearts
  PROVE  /\ Spare(p, n, m) \in Hearts
         /\ \A h \in HeartSlot : /\ Spare(p, n, m)[h] \in Nat
                                 /\ p[h] - OwnColour(p, n)[h] \in Nat
                                 /\ Spare(p, n, m)[h] <= p[h] - OwnColour(p, n)[h]
<1>1. ASSUME NEW h \in HeartSlot
      PROVE  /\ Spare(p, n, m)[h] \in Nat
             /\ p[h] - OwnColour(p, n)[h] \in Nat
             /\ Spare(p, n, m)[h] <= p[h] - OwnColour(p, n)[h]
  <2>1. p[h] - OwnColour(p, n)[h] \in Nat /\ m[h] \in Nat
    BY OwnColourNat DEF Hearts
  <2>2. Spare(p, n, m)[h] = Short(IF h = 0 THEN 0 ELSE m[h], p[h] - OwnColour(p, n)[h])
    BY DEF Spare
  <2>3. PICK x \in Nat : x = IF h = 0 THEN 0 ELSE m[h]
    BY <2>1
  <2>4. PICK y \in Nat : y = p[h] - OwnColour(p, n)[h]
    BY <2>1
  <2>5. Spare(p, n, m)[h] = Short(x, y)
    BY <2>2, <2>3, <2>4
  <2>6. Short(x, y) \in Nat /\ Short(x, y) <= y
    BY ShortNat
  <2> QED
    BY <2>4, <2>5, <2>6
<1>2. Spare(p, n, m) \in Hearts
  <2>1. \A h \in HeartSlot : Spare(p, n, m)[h] \in Nat
    BY <1>1
  <2> QED
    BY <2>1 DEF Hearts, Spare
<1> QED
  BY <1>1, <1>2

\* The hearts b that the colourless need takes beside the coloured ones, and
\* the wild hearts filled in, make up the needs of the live.
LEMMA GreedyPays ==
  ASSUME NEW p \in Hearts, NEW n \in Hearts, NEW b \in Hearts,
         \A h \in HeartSlot : b[h] <= p[h] - OwnColour(p, n)[h],
         Total(b) <= n[0],
         NEW s, s = [h \in HeartSlot |-> OwnColour(p, n)[h] + b[h]],
         NEW W, W = Lacking(p, n) + Short(Total(b), n[0])
  PROVE  /\ s \in Hearts /\ W \in Nat
         /\ \A h \in HeartSlot : s[h] <= p[h]
         /\ Total(s) + W = Total(n)
         /\ Lacking(s, n) <= W
<1> DEFINE a == OwnColour(p, n)
<1>1. /\ a \in Hearts
      /\ \A h \in HeartSlot : a[h] \in Nat /\ b[h] \in Nat /\ p[h] \in Nat /\ n[h] \in Nat
      /\ \A c \in Color : a[c] = Lesser(p[c], n[c])
      /\ a[0] = 0
  BY OwnColourNat, Slots DEF Hearts, OwnColour
<1>2. /\ s \in Hearts
      /\ \A h \in HeartSlot : s[h] = a[h] + b[h] /\ s[h] <= p[h] /\ s[h] \in Nat
  BY <1>1 DEF Hearts
<1> HIDE DEF a
<1>3. SumFunctionOnSet(a, Color) + Lacking(p, n) = SumFunctionOnSet(n, Color)
  <2>1. ASSUME NEW c \in Color
        PROVE  a[c] \in Nat /\ Gap(p, n)[c] \in Nat /\ n[c] = a[c] + Gap(p, n)[c]
    <3>1. /\ a[c] = Lesser(p[c], n[c]) /\ Gap(p, n)[c] = Short(p[c], n[c])
          /\ p[c] \in Nat /\ n[c] \in Nat
      BY <1>1, GapSum
    <3> QED
      BY <3>1, ShortNat
  <2>2. IsFiniteSet(Color)
    BY Slots
  <2>3. SumFunctionOnSet(a, Color) + SumFunctionOnSet(Gap(p, n), Color)
           = SumFunctionOnSet(n, Color)
    BY <2>1, <2>2, SumPlus
  <2> QED
    BY <2>3, GapSum
<1>4. Total(a) + Total(b) = Total(s)
  <2>1. \A h \in HeartSlot : a[h] \in Nat /\ b[h] \in Nat /\ s[h] = a[h] + b[h]
    BY <1>1, <1>2
  <2>2. IsFiniteSet(HeartSlot)
    BY Slots
  <2> QED
    BY <2>1, <2>2, SumPlus DEF Total
<1>5. Lacking(s, n) <= Lacking(p, n)
  <2>1. \A c \in Color : Gap(s, n)[c] <= Gap(p, n)[c]
    <3> SUFFICES ASSUME NEW c \in Color PROVE Gap(s, n)[c] <= Gap(p, n)[c]
      OBVIOUS
    <3>1. /\ Gap(s, n)[c] = Short(s[c], n[c]) /\ Gap(p, n)[c] = Short(p[c], n[c])
          /\ s[c] = a[c] + b[c] /\ a[c] = Lesser(p[c], n[c])
          /\ p[c] \in Nat /\ n[c] \in Nat /\ a[c] \in Nat /\ b[c] \in Nat
      BY <1>1, <1>2, GapSum, Slots
    <3> QED
      BY <3>1 DEF Short, Lesser
  <2>2. \A c \in Color : Gap(s, n)[c] \in Nat /\ Gap(p, n)[c] \in Nat
    BY <1>2, GapSum
  <2>3. SumFunctionOnSet(Gap(s, n), Color) <= SumFunctionOnSet(Gap(p, n), Color)
    BY <2>1, <2>2, Slots, SumOrder
  <2> QED
    BY <1>2, <2>3, GapSum
<1>6. /\ Total(a) = SumFunctionOnSet(a, Color)
      /\ Total(n) = n[0] + SumFunctionOnSet(n, Color)
      /\ SumFunctionOnSet(a, Color) \in Nat /\ SumFunctionOnSet(n, Color) \in Nat
      /\ n[0] \in Nat /\ Total(b) \in Nat /\ Total(s) \in Nat
      /\ Lacking(p, n) \in Nat /\ Lacking(s, n) \in Nat
  <2>1. Total(a) = a[0] + SumFunctionOnSet(a, Color) /\ SumFunctionOnSet(a, Color) \in Nat
    BY <1>1, TotalSplit
  <2>2. /\ Total(n) = n[0] + SumFunctionOnSet(n, Color) /\ SumFunctionOnSet(n, Color) \in Nat
        /\ n[0] \in Nat
    BY <1>1, TotalSplit
  <2>3. Total(b) \in Nat /\ Total(s) \in Nat
    BY <1>1, <1>2, TotalSplit
  <2> QED
    BY <1>1, <1>2, <2>1, <2>2, <2>3, LackingNat
<1>7. Short(Total(b), n[0]) = n[0] - Total(b) /\ Short(Total(b), n[0]) \in Nat
  BY <1>6 DEF Short
<1>8. W \in Nat /\ Total(s) + W = Total(n) /\ Lacking(s, n) <= W
  BY <1>3, <1>4, <1>5, <1>6, <1>7
<1> QED
  BY <1>2, <1>8

\* The arithmetic of one colour: x hearts, the needs y of a live and z of the
\* others, b hearts taken from what is spare.
LEMMA SlotArithmetic ==
  ASSUME NEW x \in Nat, NEW y \in Nat, NEW z \in Nat, NEW b \in Nat,
         b <= Short(z, x - Lesser(x, y))
  PROVE  /\ Short(x, y + z) = Short(x, y) + Short(x - (Lesser(x, y) + b), z)
         /\ x + Short(x, y + z) = y + z + Short(z, x - Lesser(x, y))
         /\ Short(x, y + z) \in Nat /\ Short(x, y) \in Nat
         /\ Short(x - (Lesser(x, y) + b), z) \in Nat
         /\ Short(z, x - Lesser(x, y)) \in Nat
<1>1. CASE x < y
  BY <1>1 DEF Short, Lesser
<1>2. CASE ~(x < y)
  <2>1. Lesser(x, y) = y /\ Short(x, y) = 0
    BY <1>2 DEF Short, Lesser
  <2>2. b <= IF z < x - y THEN x - y - z ELSE 0
    BY <2>1 DEF Short
  <2>3. CASE z < x - y
    BY <1>2, <2>1, <2>2, <2>3 DEF Short
  <2>4. CASE ~(z < x - y)
    BY <1>2, <2>1, <2>2, <2>4 DEF Short
  <2> QED
    BY <2>3, <2>4
<1> QED
  BY <1>1, <1>2

\* When only spare hearts go to the colourless need, and as many as there are,
\* then hearts that covered the needs k of all lives still cover the needs m of
\* the others.
LEMMA GreedyFits ==
  ASSUME NEW p \in Hearts, NEW n \in Hearts, NEW m \in Hearts, NEW w \in Nat,
         NEW k \in Hearts, \A h \in HeartSlot : k[h] = n[h] + m[h],
         NEW u, u = Spare(p, n, m), NEW b \in Hearts,
         \A h \in HeartSlot : b[h] <= u[h], Total(b) = Lesser(Total(u), n[0]),
         NEW s, s = [h \in HeartSlot |-> OwnColour(p, n)[h] + b[h]],
         NEW W, W = Lacking(p, n) + Short(Total(b), n[0]),
         NEW q, q = [h \in HeartSlot |-> p[h] - s[h]],
         Fits(p, w, k)
  PROVE  W <= w /\ Fits(q, w - W, m)
<1> DEFINE a == OwnColour(p, n)
<1>1. /\ \A h \in HeartSlot : /\ a[h] \in Nat /\ b[h] \in Nat /\ p[h] \in Nat
                              /\ n[h] \in Nat /\ m[h] \in Nat /\ a[h] <= p[h]
      /\ \A c \in Color : a[c] = Lesser(p[c], n[c]) /\ c # 0
      /\ a[0] = 0
  BY OwnColourNat, Slots DEF Hearts, OwnColour
<1>2. /\ u \in Hearts
      /\ \A c \in Color : u[c] = Short(m[c], p[c] - a[c]) /\ u[c] \in Nat
      /\ u[0] = p[0]
      /\ \A h \in HeartSlot : u[h] <= p[h] - a[h]
  <2>1. /\ Spare(p, n, m) \in Hearts
        /\ \A h \in HeartSlot : Spare(p, n, m)[h] \in Nat /\ Spare(p, n, m)[h] <= p[h] - a[h]
    BY SpareNat
  <2>2. \A c \in Color : Spare(p, n, m)[c] = Short(m[c], p[c] - a[c])
    BY <1>1, Slots DEF Spare
  <2>3. Spare(p, n, m)[0] = p[0]
    BY <1>1, Slots DEF Spare, Short
  <2> QED
    BY <2>1, <2>2, <2>3, Slots
<1>3. Total(u) \in Nat /\ n[0] \in Nat /\ 0 \in HeartSlot
  BY <1>1, <1>2, Slots, TotalSplit DEF Hearts
<1>4. Total(b) <= n[0] /\ \A h \in HeartSlot : b[h] <= p[h] - a[h]
  <2>1. Total(b) <= n[0]
    BY <1>3, ShortNat
  <2>2. ASSUME NEW h \in HeartSlot
        PROVE  b[h] <= p[h] - a[h]
    <3>1. /\ b[h] <= u[h] /\ u[h] <= p[h] - a[h] /\ u[h] \in Nat /\ b[h] \in Nat
          /\ p[h] - a[h] \in Nat
      BY <1>1, <1>2 DEF Hearts
    <3> HIDE DEF a
    <3> QED
      BY <3>1
  <2> QED
    BY <2>1, <2>2
<1>5. /\ s \in Hearts /\ W \in Nat
      /\ \A h \in HeartSlot : s[h] <= p[h]
      /\ Total(s) + W = Total(n)
  BY <1>4, GreedyPays
<1> HIDE DEF a
<1>6. \A h \in HeartSlot : s[h] = a[h] + b[h]
  BY DEF a
<1>7. q \in Hearts /\ \A h \in HeartSlot : q[h] = p[h] - s[h] /\ q[h] \in Nat /\ s[h] \in Nat
  BY <1>1, <1>5 DEF Hearts
<1>8. ASSUME NEW c \in Color
      PROVE  /\ Gap(p, n)[c] \in Nat /\ Gap(q, m)[c] \in Nat /\ Gap(p, k)[c] \in Nat
             /\ p[c] \in Nat /\ k[c] \in Nat /\ u[c] \in Nat
             /\ Gap(p, k)[c] = Gap(p, n)[c] + Gap(q, m)[c]
             /\ p[c] + Gap(p, k)[c] = k[c] + u[c]
  <2>1. /\ Gap(p, n)[c] = Short(p[c], n[c]) /\ Gap(q, m)[c] = Short(q[c], m[c])
        /\ Gap(p, k)[c] = Short(p[c], k[c]) /\ k[c] \in Nat
    BY <1>7, GapSum
  <2>2. /\ k[c] = n[c] + m[c] /\ q[c] = p[c] - s[c] /\ s[c] = a[c] + b[c]
        /\ a[c] = Lesser(p[c], n[c]) /\ u[c] = Short(m[c], p[c] - a[c]) /\ b[c] <= u[c]
        /\ p[c] \in Nat /\ n[c] \in Nat /\ m[c] \in Nat /\ b[c] \in Nat
    BY <1>1, <1>2, <1>6, <1>7, Slots
  <2>3. b[c] <= Short(m[c], p[c] - Lesser(p[c], n[c]))
    BY <2>2
  <2>4. /\ Short(p[c], n[c] + m[c])
              = Short(p[c], n[c]) + Short(p[c] - (Lesser(p[c], n[c]) + b[c]), m[c])
        /\ p[c] + Short(p[c], n[c] + m[c])
              = n[c] + m[c] + Short(m[c], p[c] - Lesser(p[c], n[c]))
        /\ Short(p[c], n[c] + m[c]) \in Nat /\ Short(p[c], n[c]) \in Nat
        /\ Short(p[c] - (Lesser(p[c], n[c]) + b[c]), m[c]) \in Nat
        /\ Short(m[c], p[c] - Lesser(p[c], n[c])) \in Nat
    BY <2>2, <2>3, SlotArithmetic
  <2> QED
    BY <2>1, <2>2, <2>4
<1>9. Lacking(p, n) + Lacking(q, m) = Lacking(p, k)
  <2>1. IsFiniteSet(Color)
    BY Slots
  <2>2. SumFunctionOnSet(Gap(p, n), Color) + SumFunctionOnSet(Gap(q, m), Color)
           = SumFunctionOnSet(Gap(p, k), Color)
    BY <1>8, <2>1, SumPlus
  <2> QED
    BY <1>7, <2>2, GapSum
<1>10. SumFunctionOnSet(p, Color) + Lacking(p, k)
          = SumFunctionOnSet(k, Color) + SumFunctionOnSet(u, Color)
  <2> DEFINE t == [c \in Color |-> k[c] + u[c]]
  <2>1. IsFiniteSet(Color)
    BY Slots
  <2>2. \A c \in Color : t[c] = k[c] + u[c] /\ t[c] = p[c] + Gap(p, k)[c]
    BY <1>8
  <2> HIDE DEF t
  <2>5. \A c \in Color : p[c] \in Nat /\ Gap(p, k)[c] \in Nat /\ t[c] = p[c] + Gap(p, k)[c]
    BY <1>8, <2>2
  <2>6. \A c \in Color : k[c] \in Nat /\ u[c] \in Nat /\ t[c] = k[c] + u[c]
    BY <1>8, <2>2
  <2>3. SumFunctionOnSet(p, Color) + SumFunctionOnSet(Gap(p, k), Color) = SumFunctionOnSet(t, Color)
    BY <2>1, <2>5, SumPlus
  <2>4. SumFunctionOnSet(k, Color) + SumFunctionOnSet(u, Color) = SumFunctionOnSet(t, Color)
    BY <2>1, <2>6, SumPlus
  <2> QED
    BY <2>3, <2>4, GapSum
<1>11. Total(n) + Total(m) = Total(k) /\ Total(q) + Total(s) = Total(p)
  <2>1. IsFiniteSet(HeartSlot)
    BY Slots
  <2>2. \A h \in HeartSlot : n[h] \in Nat /\ m[h] \in Nat /\ k[h] = n[h] + m[h]
    BY <1>1
  <2>3. \A h \in HeartSlot : q[h] \in Nat /\ s[h] \in Nat /\ p[h] = q[h] + s[h]
    BY <1>1, <1>7
  <2>4. Total(n) + Total(m) = Total(k)
    BY <2>1, <2>2, SumPlus DEF Total
  <2>5. Total(q) + Total(s) = Total(p)
    BY <2>1, <2>3, SumPlus DEF Total
  <2> QED
    BY <2>4, <2>5
<1>12. /\ Total(p) = p[0] + SumFunctionOnSet(p, Color) /\ SumFunctionOnSet(p, Color) \in Nat
       /\ Total(k) = k[0] + SumFunctionOnSet(k, Color) /\ SumFunctionOnSet(k, Color) \in Nat
       /\ Total(u) = p[0] + SumFunctionOnSet(u, Color) /\ SumFunctionOnSet(u, Color) \in Nat
       /\ k[0] = n[0] + m[0] /\ m[0] \in Nat /\ p[0] \in Nat
       /\ Total(n) \in Nat /\ Total(m) \in Nat /\ Total(q) \in Nat /\ Total(s) \in Nat
  <2>1. /\ \A h \in HeartSlot : k[h] \in Nat
        /\ \A h \in HeartSlot : u[h] \in Nat
    BY <1>2 DEF Hearts
  <2>2. /\ Total(p) = p[0] + SumFunctionOnSet(p, Color) /\ SumFunctionOnSet(p, Color) \in Nat
        /\ p[0] \in Nat
    BY <1>1, TotalSplit
  <2>3. Total(k) = k[0] + SumFunctionOnSet(k, Color) /\ SumFunctionOnSet(k, Color) \in Nat
    BY <2>1, TotalSplit
  <2>4. Total(u) = u[0] + SumFunctionOnSet(u, Color) /\ SumFunctionOnSet(u, Color) \in Nat
    BY <2>1, TotalSplit
  <2>5. Total(n) \in Nat
    BY <1>1, TotalSplit
  <2>6. Total(m) \in Nat /\ m[0] \in Nat
    BY <1>1, TotalSplit
  <2>7. Total(q) \in Nat
    BY <1>7, TotalSplit
  <2>8. Total(s) \in Nat
    BY <1>7, TotalSplit
  <2> QED
    BY <1>2, <1>3, <2>2, <2>3, <2>4, <2>5, <2>6, <2>7, <2>8
<1>13. /\ Lacking(p, n) \in Nat /\ Lacking(q, m) \in Nat /\ Lacking(p, k) \in Nat
  BY <1>7, LackingNat
<1>14. /\ Short(Total(b), n[0]) = IF Total(u) < n[0] THEN n[0] - Total(u) ELSE 0
  BY <1>3 DEF Short, Lesser
<1>15. Lacking(p, k) <= w /\ Total(k) <= Total(p) + w
  BY DEF Fits
<1>16. Lacking(p, k) + Short(Total(b), n[0]) <= w
  BY <1>3, <1>10, <1>12, <1>13, <1>14, <1>15
<1>17. W <= w
  BY <1>3, <1>9, <1>13, <1>14, <1>16
<1>18. Lacking(q, m) <= w - W
  BY <1>3, <1>9, <1>13, <1>14, <1>16
<1>19. Total(m) <= Total(q) + (w - W)
  BY <1>5, <1>11, <1>12, <1>15, <1>17
<1> QED
  BY <1>17, <1>18, <1>19 DEF Fits

\* Hearts that pay for one live, and leave enough for the others, were enough
\* for all.
LEMMA PaysBack ==
  ASSUME NEW p \in Hearts, NEW n \in Hearts, NEW m \in Hearts, NEW w \in Nat,
         NEW k \in Hearts, \A h \in HeartSlot : k[h] = n[h] + m[h],
         NEW s \in Hearts, \A h \in HeartSlot : s[h] <= p[h],
         NEW v \in Nat, v <= w, Total(s) + v = Total(n), Lacking(s, n) <= v,
         NEW q, q = [h \in HeartSlot |-> p[h] - s[h]],
         Fits(q, w - v, m)
  PROVE  Fits(p, w, k)
<1>1. \A h \in HeartSlot : /\ p[h] \in Nat /\ n[h] \in Nat /\ m[h] \in Nat /\ s[h] \in Nat
                           /\ k[h] \in Nat /\ q[h] = p[h] - s[h] /\ q[h] \in Nat
  BY DEF Hearts
<1>2. q \in Hearts
  BY <1>1 DEF Hearts
<1> DEFINE j == [c \in Color |-> Gap(s, n)[c] + Gap(q, m)[c]]
<1>3. /\ \A c \in Color : /\ Gap(s, n)[c] \in Nat /\ Gap(q, m)[c] \in Nat
                          /\ j[c] = Gap(s, n)[c] + Gap(q, m)[c]
      /\ \A c \in Color : Gap(p, k)[c] \in Nat /\ j[c] \in Nat /\ Gap(p, k)[c] <= j[c]
  <2>1. ASSUME NEW c \in Color
        PROVE  /\ Gap(s, n)[c] \in Nat /\ Gap(q, m)[c] \in Nat /\ Gap(p, k)[c] \in Nat
               /\ Gap(p, k)[c] <= Gap(s, n)[c] + Gap(q, m)[c]
    <3>1. /\ Gap(s, n)[c] = Short(s[c], n[c]) /\ Gap(q, m)[c] = Short(q[c], m[c])
          /\ Gap(p, k)[c] = Short(p[c], k[c]) /\ k[c] = n[c] + m[c] /\ q[c] = p[c] - s[c]
          /\ p[c] \in Nat /\ n[c] \in Nat /\ m[c] \in Nat /\ s[c] \in Nat /\ s[c] <= p[c]
      BY <1>1, <1>2, GapSum, Slots
    <3> QED
      BY <3>1 DEF Short
  <2> QED
    BY <2>1
<1> HIDE DEF j
<1>4. Lacking(p, k) <= Lacking(s, n) + Lacking(q, m)
  <2>1. IsFiniteSet(Color)
    BY Slots
  <2>2. SumFunctionOnSet(Gap(s, n), Color) + SumFunctionOnSet(Gap(q, m), Color)
           = SumFunctionOnSet(j, Color)
    <3>1. PICK g1, g2 : g1 = Gap(s, n) /\ g2 = Gap(q, m)
      OBVIOUS
    <3>2. \A c \in Color : g1[c] \in Nat /\ g2[c] \in Nat /\ j[c] = g1[c] + g2[c]
      BY <1>3, <3>1
    <3>3. SumFunctionOnSet(g1, Color) + SumFunctionOnSet(g2, Color) = SumFunctionOnSet(j, Color)
      BY <2>1, <3>2, SumPlus
    <3> QED
      BY <3>1, <3>3
  <2>3. SumFunctionOnSet(Gap(p, k), Color) <= SumFunctionOnSet(j, Color)
    <3>1. \A c \in Color : Gap(p, k)[c] \in Nat /\ j[c] \in Nat /\ Gap(p, k)[c] <= j[c]
      BY <1>3
    <3> QED
      BY <2>1, <3>1, SumOrder
  <2> QED
    BY <1>2, <2>2, <2>3, GapSum
<1>5. Total(n) + Total(m) = Total(k) /\ Total(q) + Total(s) = Total(p)
  <2>1. IsFiniteSet(HeartSlot)
    BY Slots
  <2>2. \A h \in HeartSlot : n[h] \in Nat /\ m[h] \in Nat /\ k[h] = n[h] + m[h]
    BY <1>1
  <2>3. \A h \in HeartSlot : q[h] \in Nat /\ s[h] \in Nat /\ p[h] = q[h] + s[h]
    BY <1>1
  <2>4. Total(n) + Total(m) = Total(k)
    BY <2>1, <2>2, SumPlus DEF Total
  <2>5. Total(q) + Total(s) = Total(p)
    BY <2>1, <2>3, SumPlus DEF Total
  <2> QED
    BY <2>4, <2>5
<1>6. /\ Lacking(p, k) \in Nat /\ Lacking(s, n) \in Nat /\ Lacking(q, m) \in Nat
      /\ Total(n) \in Nat /\ Total(m) \in Nat /\ Total(q) \in Nat /\ Total(s) \in Nat
  BY <1>2, LackingNat, TotalSplit DEF Hearts
<1>7. Lacking(q, m) <= w - v /\ Total(m) <= Total(q) + (w - v)
  BY DEF Fits
<1> QED
  BY <1>4, <1>5, <1>6, <1>7 DEF Fits

-----------------------------------------------------------------------------
(***************************************************************************)
(* Payable is what the test of the code tests.                             *)
(***************************************************************************)

NeedType == need \in [Live -> [HeartSlot -> 0 .. MaxNeed]]

LEMMA NeedsSplit ==
  ASSUME NeedType, NEW K \in SUBSET Live
  PROVE  /\ Needs(K) \in Hearts
         /\ \A l \in Live : need[l] \in Hearts
         /\ \A l \in K, h \in HeartSlot : Needs(K)[h] = need[l][h] + Needs(K \ {l})[h]
<1>1. \A l \in Live, h \in HeartSlot : need[l][h] \in Nat
  BY HeartAssumption DEF NeedType
<1>2. ASSUME NEW h \in HeartSlot
      PROVE  /\ Needs(K)[h] \in Nat
             /\ \A l \in K : Needs(K)[h] = need[l][h] + Needs(K \ {l})[h]
  <2> DEFINE f == [l \in Live |-> need[l][h]]
  <2>1. IsFiniteSet(K) /\ \A l \in K : f[l] \in Nat /\ f[l] = need[l][h]
    BY <1>1, HeartAssumption, FS_Subset
  <2>2. /\ Needs(K)[h] = SumFunctionOnSet(f, K)
        /\ \A l \in K : Needs(K \ {l})[h] = SumFunctionOnSet(f, K \ {l})
    BY DEF Needs
  <2> HIDE DEF f
  <2>3. SumFunctionOnSet(f, K) \in Nat
    BY <2>1, SumPick
  <2>4. \A l \in K : SumFunctionOnSet(f, K) = f[l] + SumFunctionOnSet(f, K \ {l})
    BY <2>1, SumElement
  <2> QED
    BY <2>1, <2>2, <2>3, <2>4
<1>3. Needs(K) \in Hearts
  <2>1. \A h \in HeartSlot : Needs(K)[h] \in Nat
    BY <1>2
  <2> QED
    BY <2>1 DEF Hearts, Needs
<1>4. \A l \in Live : need[l] \in Hearts
  BY <1>1 DEF NeedType, Hearts
<1> QED
  BY <1>2, <1>3, <1>4

LEMMA StockNat ==
  ASSUME NEW x \in Stock
  PROVE  x.hearts \in Hearts /\ x.wild \in Nat
  BY HeartAssumption DEF Stock, Hearts

\* What is left of a stock is a stock.
LEMMA RestIsStock ==
  ASSUME NEW x \in Stock, NEW y \in Stock, NEW l, Payment(l, x, y)
  PROVE  RestOf(x, y) \in Stock
<1>1. x.wild - y.wild \in 0 .. MaxWild
  BY HeartAssumption DEF Stock, Payment
<1>2. \A h \in HeartSlot : x.hearts[h] - y.hearts[h] \in 0 .. MaxPool
  BY HeartAssumption DEF Stock, Payment
<1> QED
  BY <1>1, <1>2 DEF RestOf, Stock

\* A stock passes the test for K exactly when it can pay for any one live of K
\* and what is left passes the test for the others.
LEMMA TestByStep ==
  ASSUME NeedType, NEW K \in SUBSET Live, NEW l \in K, NEW x \in Stock
  PROVE  Fits(x.hearts, x.wild, Needs(K)) <=>
            \E y \in Stock :
               /\ Payment(l, x, y)
               /\ Fits(RestOf(x, y).hearts, RestOf(x, y).wild, Needs(K \ {l}))
<1> DEFINE n == need[l]
           m == Needs(K \ {l})
           k == Needs(K)
<1>1. /\ n \in Hearts /\ m \in Hearts /\ k \in Hearts
      /\ \A h \in HeartSlot : k[h] = n[h] + m[h]
  BY NeedsSplit
<1>2. x.hearts \in Hearts /\ x.wild \in Nat
  BY StockNat
<1> HIDE DEF m, k
<1>3. ASSUME NEW y \in Stock, Payment(l, x, y),
             Fits(RestOf(x, y).hearts, RestOf(x, y).wild, m)
      PROVE  Fits(x.hearts, x.wild, k)
  <2>1. y.hearts \in Hearts /\ y.wild \in Nat
    BY StockNat
  <2>2. /\ \A h \in HeartSlot : y.hearts[h] <= x.hearts[h]
        /\ y.wild <= x.wild
        /\ Total(y.hearts) + y.wild = Total(n) /\ Lacking(y.hearts, n) <= y.wild
    BY <1>3 DEF Payment, Pays
  <2>3. /\ RestOf(x, y).hearts = [h \in HeartSlot |-> x.hearts[h] - y.hearts[h]]
        /\ RestOf(x, y).wild = x.wild - y.wild
    BY DEF RestOf
  <2>4. Fits([h \in HeartSlot |-> x.hearts[h] - y.hearts[h]], x.wild - y.wild, m)
    BY <1>3, <2>3
  <2>5. PICK p \in Hearts, s \in Hearts, w \in Nat, v \in Nat :
             p = x.hearts /\ s = y.hearts /\ w = x.wild /\ v = y.wild
    BY <1>2, <2>1
  <2>6. PICK q : q = [h \in HeartSlot |-> p[h] - s[h]]
    OBVIOUS
  <2>7. PICK n1 \in Hearts, m1 \in Hearts, k1 \in Hearts : n1 = n /\ m1 = m /\ k1 = k
    BY <1>1
  <2>8. \A h \in HeartSlot : k1[h] = n1[h] + m1[h] /\ s[h] <= p[h]
    BY <1>1, <2>2, <2>5, <2>7
  <2>9. /\ v <= w /\ Total(s) + v = Total(n1) /\ Lacking(s, n1) <= v
        /\ Fits(q, w - v, m1)
    BY <2>2, <2>4, <2>5, <2>6, <2>7
  <2>10. Fits(p, w, k1)
    BY <2>6, <2>8, <2>9, PaysBack
  <2> QED
    BY <2>5, <2>7, <2>10
<1>4. ASSUME Fits(x.hearts, x.wild, k)
      PROVE  \E y \in Stock : /\ Payment(l, x, y)
                              /\ Fits(RestOf(x, y).hearts, RestOf(x, y).wild, m)
  <2>0. PICK p \in Hearts, w \in Nat, n1 \in Hearts, m1 \in Hearts, k1 \in Hearts :
             p = x.hearts /\ w = x.wild /\ n1 = n /\ m1 = m /\ k1 = k
    BY <1>1, <1>2
  <2>1. PICK u \in Hearts : u = Spare(p, n1, m1)
    BY SpareNat
  <2>2. PICK b \in Hearts : /\ b = Greedy(u, n1[0]) /\ Total(b) = Lesser(Total(u), n1[0])
                            /\ \A h \in HeartSlot : b[h] <= u[h]
    BY GreedyTotal, Slots DEF Hearts
  <2>3. Total(b) <= n1[0] /\ \A h \in HeartSlot : b[h] <= p[h] - OwnColour(p, n1)[h]
    <3>1. Total(u) \in Nat /\ n1[0] \in Nat
      BY TotalSplit, Slots DEF Hearts
    <3>2. \A h \in HeartSlot : /\ u[h] <= p[h] - OwnColour(p, n1)[h]
                               /\ u[h] \in Nat
                               /\ p[h] - OwnColour(p, n1)[h] \in Nat
      BY <2>1, SpareNat
    <3>3. \A h \in HeartSlot : b[h] \in Nat
      BY DEF Hearts
    <3>4. Total(b) <= n1[0]
      BY <2>2, <3>1, ShortNat
    <3> QED
      BY <2>2, <3>2, <3>3, <3>4
  <2> DEFINE s == [h \in HeartSlot |-> OwnColour(p, n1)[h] + b[h]]
             W == Lacking(p, n1) + Short(Total(b), n1[0])
             q == [h \in HeartSlot |-> p[h] - s[h]]
             y == [hearts |-> s, wild |-> W]
  <2>4. /\ s \in Hearts /\ W \in Nat
        /\ \A h \in HeartSlot : s[h] <= p[h]
        /\ Total(s) + W = Total(n1) /\ Lacking(s, n1) <= W
    BY <2>3, GreedyPays
  <2>5. W <= w /\ Fits(q, w - W, m1)
    <3>1. Fits(p, w, k1) /\ \A h \in HeartSlot : k1[h] = n1[h] + m1[h]
      BY <1>1, <1>4, <2>0
    <3>2. PICK s1, W1, q1 : s1 = s /\ W1 = W /\ q1 = q
      OBVIOUS
    <3>3. /\ s1 = [h \in HeartSlot |-> OwnColour(p, n1)[h] + b[h]]
          /\ W1 = Lacking(p, n1) + Short(Total(b), n1[0])
          /\ q1 = [h \in HeartSlot |-> p[h] - s1[h]]
      BY <3>2
    <3>4. /\ \A h \in HeartSlot : k1[h] = n1[h] + m1[h]
          /\ \A h \in HeartSlot : b[h] <= u[h]
          /\ Total(b) = Lesser(Total(u), n1[0])
      BY <2>2, <3>1
    <3> HIDE DEF s, W, q
    <3>5. W1 <= w /\ Fits(q1, w - W1, m1)
      BY <2>1, <3>1, <3>3, <3>4, GreedyFits, SMTT(120)
    <3> QED
      BY <3>2, <3>5
  <2> HIDE DEF s, W
  <2>6. y \in Stock
    <3>1. W \in 0 .. MaxWild
      BY <2>0, <2>4, <2>5, HeartAssumption DEF Stock
    <3>2. \A h \in HeartSlot : s[h] \in 0 .. MaxPool
      BY <2>0, <2>4, HeartAssumption DEF Stock, Hearts
    <3>3. s \in [HeartSlot -> 0 .. MaxPool]
      BY <2>4, <3>2 DEF Hearts
    <3> QED
      BY <3>1, <3>3 DEF Stock
  <2>7. Payment(l, x, y)
    BY <2>0, <2>4, <2>5 DEF Payment, Pays
  <2>8. RestOf(x, y).hearts = q /\ RestOf(x, y).wild = w - W
    BY <2>0 DEF RestOf
  <2>9. Fits(RestOf(x, y).hearts, RestOf(x, y).wild, m)
    BY <2>0, <2>5, <2>8
  <2> HIDE DEF y
  <2> QED
    BY <2>6, <2>7, <2>9
<1> QED
  BY <1>3, <1>4 DEF m, k

\* StocksFor is well defined: the recursion over the lives has a solution.
LEMMA StockTable ==
  ASSUME NEW K \in SUBSET Live
  PROVE  \E f : /\ \A J \in SUBSET Live :
                      f[J] = IF J = {} THEN Stock ELSE Before(Pick(J), f[J \ {Pick(J)}])
                /\ StocksFor(K) = f[K]
<1> DEFINE F == [l \in Live |-> [Y \in SUBSET Stock |-> Before(l, Y)]]
<1>1. F \in [Live -> [SUBSET Stock -> SUBSET Stock]] /\ Stock \in SUBSET Stock
  BY DEF Before
<1>2. PICK g \in [SUBSET Live -> SUBSET Stock] :
           \A J \in SUBSET Live : Follows(g, J, Stock, F)
  <2> HIDE DEF F
  <2> QED
    BY <1>1, HeartAssumption, SetRecursion
<1>3. ASSUME NEW J \in SUBSET Live, J # {}
      PROVE  g[J] = Before(Pick(J), g[J \ {Pick(J)}])
  <2>1. Pick(J) \in Live /\ g[J \ {Pick(J)}] \in SUBSET Stock
    BY <1>3, PickIn
  <2>2. g[J] = F[Pick(J)][g[J \ {Pick(J)}]]
    BY <1>2, <1>3 DEF Follows
  <2> QED
    BY <2>1, <2>2
<1>4. g[{}] = Stock
  BY <1>2 DEF Follows
<1> DEFINE IsTable(f) ==
      f = [J \in SUBSET Live |-> IF J = {} THEN Stock
                                 ELSE Before(Pick(J), f[J \ {Pick(J)}])]
<1>5. IsTable(g)
  BY <1>3, <1>4
<1>6. \E f : IsTable(f) /\ StocksFor(K) = f[K]
  BY <1>5, ZenonT(60) DEF StocksFor, Pick
<1> QED
  BY <1>6

\* With nothing to pay for the test always succeeds.
LEMMA NoNeeds ==
  ASSUME NEW p \in Hearts, NEW w \in Nat
  PROVE  Fits(p, w, Needs({}))
<1>1. \A h \in HeartSlot : Needs({})[h] = 0
  BY SumEmpty DEF Needs
<1>2. Needs({}) \in Hearts
  BY <1>1 DEF Hearts, Needs
<1> DEFINE m == Needs({})
<1> HIDE DEF m
<1>3. m \in Hearts /\ \A h \in HeartSlot : m[h] = 0
  BY <1>1, <1>2 DEF m
<1>4. \A c \in Color : Gap(p, m)[c] = 0
  BY <1>3, GapSum, Slots DEF Short
<1>5. Lacking(p, m) = 0
  <2>1. \A c \in Color : Gap(p, m)[c] \in Nat
    BY <1>4
  <2>2. SumFunctionOnSet(Gap(p, m), Color) = 0
    BY <1>4, <2>1, Slots, SumPointwise
  <2> QED
    BY <1>3, <2>2, GapSum
<1>6. Total(m) = 0
  <2>1. \A h \in HeartSlot : m[h] \in Nat
    BY <1>3
  <2> QED
    BY <1>3, <2>1, Slots, SumPointwise DEF Total
<1>7. Total(p) \in Nat
  BY TotalSplit DEF Hearts
<1> QED
  BY <1>5, <1>6, <1>7 DEF Fits, m

\* Some division of a stock pays for all lives of K exactly when the stock
\* passes the test of the code: the test made before the first live is exact.
LEMMA PayableIsTest ==
  ASSUME NeedType, NEW K \in SUBSET Live, NEW z \in Stock
  PROVE  z \in StocksFor(K) <=> Fits(z.hearts, z.wild, Needs(K))
<1>1. PICK f : /\ \A J \in SUBSET Live :
                     f[J] = IF J = {} THEN Stock ELSE Before(Pick(J), f[J \ {Pick(J)}])
               /\ StocksFor(K) = f[K]
  BY StockTable
<1> DEFINE Ok(J) == \A x \in Stock : x \in f[J] <=> Fits(x.hearts, x.wild, Needs(J))
           N == {n \in Nat : \A J \in SUBSET Live : Cardinality(J) = n => Ok(J)}
<1>2. IsFiniteSet(Live)
  BY HeartAssumption
<1>3. 0 \in N
  <2>1. ASSUME NEW J \in SUBSET Live, Cardinality(J) = 0
        PROVE  Ok(J)
    <3>1. J = {}
      BY <1>2, <2>1, Sizes
    <3>2. f[J] = Stock
      BY <1>1, <3>1
    <3>3. \A x \in Stock : Fits(x.hearts, x.wild, Needs({}))
      BY StockNat, NoNeeds
    <3> QED
      BY <3>1, <3>2, <3>3
  <2> QED
    BY <2>1
<1>4. ASSUME NEW n \in Nat, n \in N
      PROVE  n + 1 \in N
  <2>1. ASSUME NEW J \in SUBSET Live, Cardinality(J) = n + 1
        PROVE  Ok(J)
    <3>1. PICK l \in J : l = Pick(J) /\ J # {}
      <4>1. J # {}
        BY <1>2, <2>1, Sizes
      <4> QED
        BY <4>1, PickIn
    <3>2. J \ {l} \in SUBSET Live /\ Cardinality(J \ {l}) = n
      BY <1>2, <2>1, Sizes
    <3>3. Ok(J \ {l})
      BY <1>4, <3>2
    <3>4. f[J] = Before(l, f[J \ {l}])
      BY <1>1, <3>1
    <3>5. ASSUME NEW x \in Stock
          PROVE  x \in f[J] <=> Fits(x.hearts, x.wild, Needs(J))
      <4>1. x \in f[J] <=> \E y \in Stock : Payment(l, x, y) /\ RestOf(x, y) \in f[J \ {l}]
        BY <3>4 DEF Before
      <4>2. \A y \in Stock : Payment(l, x, y) =>
               (RestOf(x, y) \in f[J \ {l}] <=>
                   Fits(RestOf(x, y).hearts, RestOf(x, y).wild, Needs(J \ {l})))
        BY <3>3, RestIsStock
      <4>3. Fits(x.hearts, x.wild, Needs(J)) <=>
               \E y \in Stock :
                  /\ Payment(l, x, y)
                  /\ Fits(RestOf(x, y).hearts, RestOf(x, y).wild, Needs(J \ {l}))
        BY TestByStep
      <4> QED
        BY <4>1, <4>2, <4>3
    <3> QED
      BY <3>5
  <2> QED
    BY <2>1
<1>5. N = Nat
  <2> HIDE DEF N
  <2>1. N \in SUBSET Nat
    BY DEF N
  <2> QED
    BY <1>3, <1>4, <2>1, NatSetInduction
<1>6. Cardinality(K) \in Nat
  BY <1>2, Sizes
<1>7. Ok(K)
  BY <1>5, <1>6
<1> QED
  BY <1>1, <1>7

-----------------------------------------------------------------------------
(***************************************************************************)
(* The payment of the lives.                                               *)
(***************************************************************************)

TypeOK ==
    /\ NeedType
    /\ pool \in [HeartSlot -> 0 .. MaxPool] /\ wild \in 0 .. MaxWild
    /\ left \in SUBSET Live /\ failed \in BOOLEAN /\ preserve \in BOOLEAN
    /\ paid \in [Live -> [hearts : Hearts, wild : Nat]]
    /\ given \in Stock

Spent(l) == [h \in HeartSlot |-> Coloured(l)[h] + Colourless(l)[h]]

\* What the code takes for live l pays for it, with and without the reserve
\* for later lives; with it, hearts that were enough for all stay enough.
LEMMA PaymentOfCode ==
  ASSUME TypeOK, NEW l \in left
  PROVE  /\ Spent(l) \in Hearts /\ WildUsed(l) \in Nat
         /\ \A h \in HeartSlot : Spent(l)[h] <= pool[h]
         /\ Pays(l, Spent(l), WildUsed(l))
         /\ preserve /\ Fits(pool, wild, Needs(left)) =>
               /\ WildUsed(l) <= wild
               /\ Fits([h \in HeartSlot |-> pool[h] - Spent(l)[h]], wild - WildUsed(l),
                       Needs(left \ {l}))
<1>1. PICK p \in Hearts, w \in Nat, n \in Hearts, m \in Hearts, k \in Hearts :
        /\ p = pool /\ w = wild /\ n = need[l]
        /\ m = Needs(left \ {l}) /\ k = Needs(left)
        /\ \A h \in HeartSlot : k[h] = n[h] + m[h]
  <2>1. /\ need[l] \in Hearts /\ Needs(left) \in Hearts /\ Needs(left \ {l}) \in Hearts
        /\ \A h \in HeartSlot : Needs(left)[h] = need[l][h] + Needs(left \ {l})[h]
    BY NeedsSplit DEF TypeOK
  <2>2. pool \in Hearts /\ wild \in Nat
    BY HeartAssumption DEF TypeOK, Hearts
  <2> QED
    BY <2>1, <2>2
<1>2. Coloured(l) = OwnColour(p, n)
  BY <1>1 DEF Coloured, OwnColour
<1>3. \A h \in HeartSlot : /\ p[h] - OwnColour(p, n)[h] \in Nat
                           /\ p[h] \in Nat /\ m[h] \in Nat /\ n[h] \in Nat
  BY SpareNat DEF Hearts
<1> DEFINE u0 == [h \in HeartSlot |-> Usable(l, h)]
<1>4. /\ u0 \in Hearts
      /\ \A h \in HeartSlot : u0[h] <= p[h] - OwnColour(p, n)[h]
      /\ preserve => u0 = Spare(p, n, m)
  <2>1. CASE preserve
    <3>1. \A h \in HeartSlot : Usable(l, h) = Spare(p, n, m)[h]
      BY <1>1, <1>2, <2>1 DEF Usable, Spare
    <3>2. u0 = Spare(p, n, m)
      BY <3>1 DEF Spare
    <3> QED
      BY <3>2, SpareNat
  <2>2. CASE ~preserve
    <3>1. \A h \in HeartSlot : Usable(l, h) = p[h] - OwnColour(p, n)[h]
      BY <1>1, <1>2, <2>2 DEF Usable
    <3> QED
      BY <1>3, <2>2, <3>1 DEF Hearts
  <2> QED
    BY <2>1, <2>2
<1>5. PICK u \in Hearts : u = u0
  BY <1>4
<1>6. Colourless(l) = Greedy(u, n[0])
  BY <1>1, <1>5 DEF Colourless, Greedy
<1> HIDE DEF u0
<1>7. n[0] \in Nat /\ Total(u) \in Nat
  BY <1>3, Slots, TotalSplit DEF Hearts
<1>8. PICK b \in Hearts : /\ b = Colourless(l) /\ Total(b) = Lesser(Total(u), n[0])
                          /\ \A h \in HeartSlot : b[h] <= u[h]
  BY <1>6, <1>7, GreedyTotal
<1>9. Total(b) <= n[0] /\ \A h \in HeartSlot : b[h] <= p[h] - OwnColour(p, n)[h]
  <2>1. Total(b) <= n[0]
    BY <1>7, <1>8, ShortNat
  <2>2. \A h \in HeartSlot : b[h] \in Nat /\ u[h] \in Nat /\ u[h] <= p[h] - OwnColour(p, n)[h]
    BY <1>4, <1>5 DEF Hearts
  <2> QED
    BY <1>3, <1>8, <2>1, <2>2
<1>10. PICK s : s = Spent(l)
  OBVIOUS
<1>11. s = [h \in HeartSlot |-> OwnColour(p, n)[h] + b[h]]
  BY <1>2, <1>8, <1>10 DEF Spent
<1>12. PICK W : W = WildUsed(l)
  OBVIOUS
<1>13. W = Lacking(p, n) + Short(Total(b), n[0])
  BY <1>1, <1>8, <1>12 DEF WildUsed, WildForColors, WildForColourless
<1>14. /\ s \in Hearts /\ W \in Nat
       /\ \A h \in HeartSlot : s[h] <= p[h]
       /\ Total(s) + W = Total(n) /\ Lacking(s, n) <= W
  BY <1>9, <1>11, <1>13, GreedyPays
<1>15. PICK q : q = [h \in HeartSlot |-> p[h] - s[h]]
  OBVIOUS
<1>16. ASSUME preserve, Fits(p, w, k)
       PROVE  W <= w /\ Fits(q, w - W, m)
  <2>1. u = Spare(p, n, m)
    BY <1>4, <1>5, <1>16
  <2>2. /\ \A h \in HeartSlot : k[h] = n[h] + m[h]
        /\ \A h \in HeartSlot : b[h] <= u[h]
        /\ Total(b) = Lesser(Total(u), n[0])
    BY <1>1, <1>8
  <2> QED
    BY <1>11, <1>13, <1>15, <1>16, <2>1, <2>2, GreedyFits, SMTT(120)
<1>17. Pays(l, s, W)
  BY <1>1, <1>14 DEF Pays
<1> QED
  BY <1>1, <1>10, <1>12, <1>14, <1>15, <1>16, <1>17

\* The policy chosen at the start is right, and stays right: hearts that are
\* enough remain enough, and hearts that are not never become so.
Decided ==
    /\ preserve <=> Fits(given.hearts, given.wild, Needs(Live))
    /\ preserve => ~failed
    /\ preserve <=> Fits(pool, wild, Needs(left))

\* What was spent is what is missing, and lives not paid for took nothing.
Balanced == LedgerBalances /\ \A l \in left : paid[l] = Nothing

IInv == TypeOK /\ Decided /\ Balanced

LEMMA LedgerSums ==
  ASSUME TypeOK
  PROVE  /\ \A h \in HeartSlot : SumFunction([l \in Live |-> paid[l].hearts[h]])
                                    = SumFunctionOnSet([l \in Live |-> paid[l].hearts[h]], Live)
         /\ SumFunction([l \in Live |-> paid[l].wild])
               = SumFunctionOnSet([l \in Live |-> paid[l].wild], Live)
  BY DEF SumFunction

LEMMA InitInv == Init => IInv
<1> SUFFICES ASSUME Init PROVE IInv
  OBVIOUS
<1>1. TypeOK
  <2>1. NeedType /\ pool \in [HeartSlot -> 0 .. MaxPool] /\ wild \in 0 .. MaxWild
    BY DEF Init, NeedType
  <2>2. left \in SUBSET Live /\ failed \in BOOLEAN /\ preserve \in BOOLEAN
    BY DEF Init, Feasible
  <2>3. paid \in [Live -> [hearts : Hearts, wild : Nat]]
    BY DEF Init, Nothing, Hearts
  <2>4. given \in Stock
    BY <2>1 DEF Init, Stock
  <2> QED
    BY <2>1, <2>2, <2>3, <2>4 DEF TypeOK
<1>2. Decided
  BY DEF Init, Decided, Feasible, Fits
<1>3. Balanced
  <2>1. \A l \in Live : paid[l] = Nothing
    BY DEF Init
  <2>2. ASSUME NEW h \in HeartSlot
        PROVE  SumFunctionOnSet([l \in Live |-> paid[l].hearts[h]], Live) = 0
    <3> DEFINE f == [l \in Live |-> paid[l].hearts[h]]
    <3>1. \A l \in Live : f[l] = 0 /\ f[l] \in Nat
      BY <2>1 DEF Nothing
    <3> HIDE DEF f
    <3>2. SumFunctionOnSet(f, Live) = 0
      BY <3>1, HeartAssumption, SumNull
    <3> QED
      BY <3>2 DEF f
  <2>3. SumFunctionOnSet([l \in Live |-> paid[l].wild], Live) = 0
    <3> DEFINE f == [l \in Live |-> paid[l].wild]
    <3>1. \A l \in Live : f[l] = 0 /\ f[l] \in Nat
      BY <2>1 DEF Nothing
    <3> HIDE DEF f
    <3>2. SumFunctionOnSet(f, Live) = 0
      BY <3>1, HeartAssumption, SumNull
    <3> QED
      BY <3>2 DEF f
  <2>4. /\ \A h \in HeartSlot : pool[h] \in Nat /\ given.hearts[h] = pool[h]
        /\ wild \in Nat /\ given.wild = wild /\ left = Live
    BY HeartAssumption DEF Init
  <2>5. \A h \in HeartSlot :
           pool[h] + SumFunction([l \in Live |-> paid[l].hearts[h]]) = given.hearts[h]
    BY <1>1, <2>2, <2>4, LedgerSums
  <2>6. wild + SumFunction([l \in Live |-> paid[l].wild]) = given.wild
    BY <1>1, <2>3, <2>4, LedgerSums
  <2> QED
    BY <2>1, <2>4, <2>5, <2>6 DEF Balanced, LedgerBalances
<1> QED
  BY <1>1, <1>2, <1>3 DEF IInv

\* One entry of a sum is changed from nothing to v.
LEMMA SumChange ==
  ASSUME NEW S, IsFiniteSet(S), NEW f, NEW g, NEW e \in S, NEW v \in Nat,
         \A x \in S : f[x] \in Nat, f[e] = 0, g[e] = v,
         \A x \in S \ {e} : g[x] = f[x]
  PROVE  SumFunctionOnSet(g, S) = SumFunctionOnSet(f, S) + v /\ SumFunctionOnSet(f, S) \in Nat
<1>1. \A x \in S : g[x] \in Nat
  OBVIOUS
<1>2. /\ SumFunctionOnSet(f, S) = f[e] + SumFunctionOnSet(f, S \ {e})
      /\ SumFunctionOnSet(g, S) = g[e] + SumFunctionOnSet(g, S \ {e})
  <2>1. SumFunctionOnSet(f, S) = f[e] + SumFunctionOnSet(f, S \ {e})
    BY SumElement
  <2>2. SumFunctionOnSet(g, S) = g[e] + SumFunctionOnSet(g, S \ {e})
    BY <1>1, SumElement
  <2> QED
    BY <2>1, <2>2
<1>3. SumFunctionOnSet(f, S \ {e}) = SumFunctionOnSet(g, S \ {e})
  <2>1. IsFiniteSet(S \ {e})
    BY FS_Subset
  <2>2. \A x \in S \ {e} : f[x] \in Nat /\ f[x] = g[x]
    OBVIOUS
  <2> QED
    BY <2>1, <2>2, SumSame
<1>4. SumFunctionOnSet(f, S \ {e}) \in Nat
  BY SumNat
<1> QED
  BY <1>2, <1>3, <1>4

LEMMA NeedsKept ==
  ASSUME need' = need
  PROVE  /\ \A K : Needs(K)' = Needs(K)
  BY DEF Needs

LEMMA PayInv ==
  ASSUME IInv, NEW l \in Live, PayLive(l)
  PROVE  IInv'
<1>1. /\ TypeOK /\ Decided /\ Balanced
      /\ l \in left /\ WildUsed(l) <= wild /\ failed = FALSE
      /\ pool' = [h \in HeartSlot |-> pool[h] - Spent(l)[h]]
      /\ paid' = [paid EXCEPT ![l] = [hearts |-> Spent(l), wild |-> WildUsed(l)]]
      /\ wild' = wild - WildUsed(l) /\ left' = left \ {l}
      /\ need' = need /\ failed' = failed /\ preserve' = preserve /\ given' = given
  BY DEF IInv, PayLive, Spent, TypeOK
<1>2. /\ Spent(l) \in Hearts /\ WildUsed(l) \in Nat
      /\ \A h \in HeartSlot : Spent(l)[h] <= pool[h]
      /\ Pays(l, Spent(l), WildUsed(l))
      /\ preserve /\ Fits(pool, wild, Needs(left)) =>
            Fits([h \in HeartSlot |-> pool[h] - Spent(l)[h]], wild - WildUsed(l),
                 Needs(left \ {l}))
  BY <1>1, PaymentOfCode
<1> DEFINE s == Spent(l)
           W == WildUsed(l)
<1> HIDE DEF s, W
<1>3. TypeOK'
  <2>1. \A h \in HeartSlot : pool[h] - s[h] \in 0 .. MaxPool
    BY <1>1, <1>2, HeartAssumption DEF TypeOK, Hearts, s
  <2>2. pool' \in [HeartSlot -> 0 .. MaxPool]
    BY <1>1, <2>1 DEF s
  <2>3. wild' \in 0 .. MaxWild
    BY <1>1, <1>2, HeartAssumption DEF TypeOK
  <2>4. paid' \in [Live -> [hearts : Hearts, wild : Nat]]
    BY <1>1, <1>2 DEF TypeOK
  <2>5. left' \in SUBSET Live
    BY <1>1 DEF TypeOK
  <2> QED
    BY <1>1, <2>2, <2>3, <2>4, <2>5 DEF TypeOK, NeedType
<1>4. Decided'
  <2>1. Needs(Live)' = Needs(Live) /\ Needs(left)' = Needs(left \ {l})
    BY <1>1 DEF Needs
  <2>2. preserve => Fits(pool', wild', Needs(left \ {l}))
    BY <1>1, <1>2 DEF Decided
  <2>3. Fits(pool', wild', Needs(left \ {l})) => preserve
    <3>1. PICK p \in Hearts, w \in Nat, n \in Hearts, m \in Hearts, k \in Hearts :
            /\ p = pool /\ w = wild /\ n = need[l]
            /\ m = Needs(left \ {l}) /\ k = Needs(left)
            /\ \A h \in HeartSlot : k[h] = n[h] + m[h]
      <4>1. /\ need[l] \in Hearts /\ Needs(left) \in Hearts /\ Needs(left \ {l}) \in Hearts
            /\ \A h \in HeartSlot : Needs(left)[h] = need[l][h] + Needs(left \ {l})[h]
        BY <1>1, NeedsSplit DEF TypeOK
      <4>2. pool \in Hearts /\ wild \in Nat
        BY <1>1, HeartAssumption DEF TypeOK, Hearts
      <4> QED
        BY <4>1, <4>2
    <3>2. PICK t \in Hearts, v \in Nat, q \in {pool'} : t = Spent(l) /\ v = WildUsed(l)
      BY <1>2
    <3>3. /\ \A h \in HeartSlot : t[h] <= p[h]
          /\ v <= w /\ Total(t) + v = Total(n) /\ Lacking(t, n) <= v
          /\ q = [h \in HeartSlot |-> p[h] - t[h]]
      BY <1>1, <1>2, <3>1, <3>2 DEF Pays
    <3>4. ASSUME Fits(q, w - v, m)
          PROVE  Fits(p, w, k)
      <4>1. /\ \A h \in HeartSlot : k[h] = n[h] + m[h]
            /\ \A h \in HeartSlot : t[h] <= p[h]
        BY <3>1, <3>3
      <4>2. /\ v <= w /\ Total(t) + v = Total(n) /\ Lacking(t, n) <= v
            /\ q = [h \in HeartSlot |-> p[h] - t[h]]
        BY <3>3
      <4> QED
        BY <3>4, <4>1, <4>2, PaysBack
    <3> QED
      BY <1>1, <3>1, <3>2, <3>4 DEF Decided
  <2>4. (Fits(given.hearts, given.wild, Needs(Live)))' <=> Fits(given.hearts, given.wild, Needs(Live))
    BY <1>1, <2>1 DEF Fits, Lacking, Total
  <2>5. (Fits(pool, wild, Needs(left)))' <=> Fits(pool', wild', Needs(left \ {l}))
    BY <2>1 DEF Fits, Lacking, Total
  <2> QED
    BY <1>1, <2>2, <2>3, <2>4, <2>5 DEF Decided
<1>5. Balanced'
  <2>1. /\ paid[l] = Nothing /\ IsFiniteSet(Live)
        /\ \A k \in Live \ {l} : paid'[k] = paid[k]
        /\ paid'[l].hearts = s /\ paid'[l].wild = W
        /\ \A k \in Live : /\ paid[k].wild \in Nat
                           /\ \A h \in HeartSlot : paid[k].hearts[h] \in Nat
    BY <1>1, HeartAssumption DEF Balanced, TypeOK, Hearts, s, W
  <2>2. W \in Nat /\ (\A h \in HeartSlot : s[h] \in Nat)
    BY <1>2 DEF Hearts, s, W
  <2>3. ASSUME NEW h \in HeartSlot
        PROVE  pool'[h] + SumFunctionOnSet([k \in Live |-> paid'[k].hearts[h]], Live)
                  = given.hearts[h]
    <3> DEFINE f == [k \in Live |-> paid[k].hearts[h]]
               g == [k \in Live |-> paid'[k].hearts[h]]
    <3>1. /\ \A k \in Live : f[k] \in Nat
          /\ f[l] = 0 /\ g[l] = s[h] /\ \A k \in Live \ {l} : g[k] = f[k]
      BY <2>1 DEF Nothing
    <3>2. pool[h] + SumFunctionOnSet(f, Live) = given.hearts[h]
      BY <1>1, LedgerSums DEF Balanced, LedgerBalances
    <3> HIDE DEF f, g
    <3>3. /\ SumFunctionOnSet(g, Live) = SumFunctionOnSet(f, Live) + s[h]
          /\ SumFunctionOnSet(f, Live) \in Nat
      BY <2>1, <2>2, <3>1, SumChange
    <3>4. pool'[h] = pool[h] - s[h] /\ pool[h] \in Nat
      BY <1>1, HeartAssumption DEF TypeOK, s
    <3>5. pool'[h] + SumFunctionOnSet(g, Live) = given.hearts[h]
      BY <2>2, <3>2, <3>3, <3>4
    <3> QED
      BY <3>5 DEF g
  <2>4. wild' + SumFunctionOnSet([k \in Live |-> paid'[k].wild], Live) = given.wild
    <3> DEFINE f == [k \in Live |-> paid[k].wild]
               g == [k \in Live |-> paid'[k].wild]
    <3>1. /\ \A k \in Live : f[k] \in Nat
          /\ f[l] = 0 /\ g[l] = W /\ \A k \in Live \ {l} : g[k] = f[k]
      BY <2>1 DEF Nothing
    <3>2. wild + SumFunctionOnSet(f, Live) = given.wild
      BY <1>1, LedgerSums DEF Balanced, LedgerBalances
    <3> HIDE DEF f, g
    <3>3. /\ SumFunctionOnSet(g, Live) = SumFunctionOnSet(f, Live) + W
          /\ SumFunctionOnSet(f, Live) \in Nat
      <4>1. PICK v \in Nat : v = W
        BY <2>2
      <4>2. IsFiniteSet(Live) /\ f[l] = 0 /\ g[l] = v
        BY <2>1, <3>1, <4>1
      <4>3. (\A k \in Live : f[k] \in Nat) /\ (\A k \in Live \ {l} : g[k] = f[k])
        BY <3>1
      <4>4. /\ SumFunctionOnSet(g, Live) = SumFunctionOnSet(f, Live) + v
            /\ SumFunctionOnSet(f, Live) \in Nat
        BY <4>2, <4>3, SumChange
      <4> QED
        BY <4>1, <4>4
    <3>4. wild' = wild - W /\ wild \in Nat
      BY <1>1, HeartAssumption DEF TypeOK, W
    <3>5. wild' + SumFunctionOnSet(g, Live) = given.wild
      BY <2>2, <3>2, <3>3, <3>4
    <3> QED
      BY <3>5 DEF g
  <2>5. ASSUME NEW k \in Live \ left'
        PROVE  Pays(k, paid[k].hearts, paid[k].wild)'
    <3>1. Pays(k, paid[k].hearts, paid[k].wild)' <=> Pays(k, paid'[k].hearts, paid'[k].wild)
      BY <1>1 DEF Pays, Total, Lacking
    <3>2. CASE k = l
      BY <1>2, <2>1, <3>1, <3>2 DEF s, W
    <3>3. CASE k # l
      <4>1. k \in Live \ left /\ paid'[k] = paid[k]
        BY <1>1, <2>1, <3>3
      <4>2. Pays(k, paid[k].hearts, paid[k].wild)
        BY <1>1, <4>1 DEF Balanced, LedgerBalances
      <4> QED
        BY <3>1, <4>1, <4>2
    <3> QED
      BY <3>2, <3>3
  <2>6. \A k \in left' : paid'[k] = Nothing
    BY <1>1, <2>1 DEF Balanced, TypeOK
  <2>7. /\ \A h \in HeartSlot :
              pool'[h] + SumFunction([k \in Live |-> paid'[k].hearts[h]]) = given'.hearts[h]
        /\ wild' + SumFunction([k \in Live |-> paid'[k].wild]) = given'.wild
    BY <1>1, <2>3, <2>4 DEF SumFunction
  <2>8. LedgerBalances'
    BY <2>5, <2>7 DEF LedgerBalances
  <2>9. (\A k \in left : paid[k] = Nothing)'
    BY <2>6 DEF Nothing
  <2> QED
    BY <2>8, <2>9 DEF Balanced
<1> QED
  BY <1>3, <1>4, <1>5 DEF IInv

LEMMA MissInv ==
  ASSUME IInv, NEW l \in Live, MissHearts(l)
  PROVE  IInv'
<1>1. /\ TypeOK /\ Decided /\ Balanced
      /\ l \in left /\ WildUsed(l) > wild /\ failed' = TRUE
      /\ UNCHANGED <<need, pool, wild, left, preserve, paid, given>>
  BY DEF IInv, MissHearts
<1>2. preserve = FALSE
  <2>1. WildUsed(l) \in Nat
    BY <1>1, PaymentOfCode
  <2>3. wild \in Nat
    BY <1>1, HeartAssumption DEF TypeOK
  <2>2. preserve => WildUsed(l) <= wild
    BY <1>1, PaymentOfCode DEF Decided
  <2> QED
    BY <1>1, <2>1, <2>2, <2>3 DEF TypeOK
<1>3. TypeOK'
  BY <1>1 DEF TypeOK, NeedType
<1>4. Decided'
  BY <1>1, <1>2 DEF Decided, Fits, Lacking, Total, Needs
<1>5. Balanced'
  BY <1>1 DEF Balanced, LedgerBalances, Pays, Lacking, Total, Nothing
<1> QED
  BY <1>3, <1>4, <1>5 DEF IInv

LEMMA StutterInv ==
  ASSUME IInv, UNCHANGED vars
  PROVE  IInv'
<1>1. UNCHANGED <<need, pool, wild, left, failed, preserve, paid, given>>
  BY DEF vars
<1>2. TypeOK'
  BY <1>1 DEF IInv, TypeOK, NeedType
<1>3. Decided'
  BY <1>1 DEF IInv, Decided, Fits, Lacking, Total, Needs
<1>4. Balanced'
  BY <1>1 DEF IInv, Balanced, LedgerBalances, Pays, Lacking, Total, Nothing
<1> QED
  BY <1>2, <1>3, <1>4 DEF IInv

LEMMA Inductive == Spec => []IInv
<1>1. IInv /\ [Next]_vars => IInv'
  BY PayInv, MissInv, StutterInv DEF Next
<1> QED
  BY InitInv, <1>1, PTL DEF Spec

\* The lives of a performance succeed exactly when some division of the hearts
\* pays for all of them, in whatever order the player had them paid for, for
\* every number of lives, colours and hearts: the test made before the first
\* live is exact, and neither the reserve nor the spending without it turns
\* enough into too little or too little into enough.
THEOREM OutcomeIsExact == Spec => []OutcomeExact
<1>1. IInv => OutcomeExact
  <2> SUFFICES ASSUME IInv PROVE OutcomeExact
    OBVIOUS
  <2>1. /\ NeedType /\ left \in SUBSET Live /\ given \in Stock
        /\ pool \in [HeartSlot -> 0 .. MaxPool] /\ wild \in 0 .. MaxWild
    BY DEF IInv, TypeOK
  <2>2. PICK z \in Stock : z = [hearts |-> pool, wild |-> wild]
    BY <2>1 DEF Stock
  <2>3. Payable(pool, wild, left) <=> Fits(pool, wild, Needs(left))
    <3>1. z \in StocksFor(left) <=> Fits(z.hearts, z.wild, Needs(left))
      BY <2>1, PayableIsTest
    <3> QED
      BY <2>2, <3>1 DEF Payable
  <2>4. Payable(given.hearts, given.wild, Live) <=> Fits(given.hearts, given.wild, Needs(Live))
    <3>1. given \in StocksFor(Live) <=> Fits(given.hearts, given.wild, Needs(Live))
      BY <2>1, PayableIsTest
    <3>2. given = [hearts |-> given.hearts, wild |-> given.wild]
      BY <2>1 DEF Stock
    <3> QED
      BY <3>1, <3>2 DEF Payable
  <2> QED
    BY <2>3, <2>4 DEF IInv, Decided, OutcomeExact
<1> QED
  BY <1>1, Inductive, PTL

\* Every heart is spent once at most, and what was spent on a live pays for all
\* it needs and for no more, for every number of lives, colours and hearts.
THEOREM LedgerHolds == Spec => []LedgerBalances
<1>1. IInv => LedgerBalances
  BY DEF IInv, Balanced
<1> QED
  BY <1>1, Inductive, PTL
=============================================================================
