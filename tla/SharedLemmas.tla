---------------------------- MODULE SharedLemmas ----------------------------
(***************************************************************************)
(* What the proofs of several components need: the least element of a set  *)
(* of natural numbers, the enumeration of such a set, sums and products    *)
(* over finite sets, sums along a list, and the existence of a recursive   *)
(* function.  Arguments by induction are put as arguments about a smallest *)
(* counterexample.                                                         *)
(***************************************************************************)
EXTENDS NaturalOrder, Sequences, Functions, FiniteSetTheorems, WellFoundedInduction, TLAPS

\* A non-empty set of natural numbers has a smallest one.
LEMMA MinExists ==
  ASSUME NEW S, S \subseteq Nat, S # {}
  PROVE  \E x \in S : \A y \in S : x =< y
<1>1. PICK x \in S : \A y \in S : ~ (<<y, x>> \in OpToRel(<, Nat))
  BY NatLessThanWellFounded, WFMin, Zenon
<1>2. \A y \in S : ~(y < x)
  BY <1>1 DEF OpToRel
<1>3. QED
  BY <1>2

\* For every rank below the cardinality there is an element of that rank.
LEMMA RankExists ==
  ASSUME NEW S \in SUBSET Nat, IsFiniteSet(S), NEW k \in Nat, k < Cardinality(S)
  PROVE  \E x \in S : Cardinality(Below(S, x)) = k
<1> DEFINE Ranked(n) == \E x \in S : Cardinality(Below(S, x)) = n
           bad == {n \in Nat : n < Cardinality(S) /\ ~Ranked(n)}
<1>0. Cardinality(S) \in Nat
  BY FS_CardinalityType
<1>1. SUFFICES ASSUME bad # {} PROVE FALSE
  OBVIOUS
<1>2. PICK n \in bad : \A m \in bad : n =< m
  <2>1. bad \subseteq Nat
    OBVIOUS
  <2> HIDE DEF bad
  <2>2. QED
    BY <1>1, <2>1, MinExists
<1>3. CASE n = 0
  <2>1. S # {}
    BY <1>2, <1>3, <1>0, FS_EmptySet
  <2>2. PICK x \in S : \A y \in S : x =< y
    BY <2>1, MinExists
  <2>3. Below(S, x) = {}
    <3>1. x \in Nat /\ \A y \in S : y \in Nat
      OBVIOUS
    <3>2. \A y \in S : ~(y < x)
      BY <3>1, <2>2
    <3>3. QED
      BY <3>2, Zenon DEF Below
  <2>4. Cardinality(Below(S, x)) = 0
    BY <2>3, FS_EmptySet
  <2>5. QED
    BY <2>4, <1>2, <1>3
<1>4. CASE n # 0
  <2>1. PICK x \in S : Cardinality(Below(S, x)) = n - 1
    BY <1>2, <1>4, <1>0
  <2> DEFINE upto == Below(S, x) \cup {x}
  <2>2. IsFiniteSet(upto) /\ Cardinality(upto) = n /\ upto \subseteq S
    <3>1. Below(S, x) \in SUBSET S /\ x \notin Below(S, x)
      BY DEF Below
    <3>2. IsFiniteSet(Below(S, x))
      BY <3>1, FS_Subset
    <3>3. IsFiniteSet(upto) /\ Cardinality(upto) = Cardinality(Below(S, x)) + 1
      BY <3>1, <3>2, FS_AddElement
    <3>4. QED
      BY <3>1, <3>3, <2>1, <1>2
  <2>3. S \ upto # {}
    <3>1. upto # S
      BY <2>2, <1>2
    <3>2. QED
      BY <3>1, <2>2
  <2>4. PICK z \in S \ upto : \A y \in S \ upto : z =< y
    BY <2>3, MinExists
  <2>5. Below(S, z) = upto
    <3>1. z > x
      BY <2>4 DEF Below
    <3>2. \A y \in S : y < z => y \in upto
      BY <2>4
    <3>3. \A y \in upto : y \in S /\ y < z
      BY <3>1 DEF Below
    <3>4. QED
      BY <3>2, <3>3 DEF Below
  <2>6. QED
    BY <2>2, <2>4, <2>5, <1>2
<1>5. QED
  BY <1>3, <1>4

\* Ascending enumerates elements of the set.
LEMMA AscendingMembers ==
  ASSUME NEW S \in SUBSET Nat, IsFiniteSet(S), NEW i \in 1..Cardinality(S)
  PROVE  /\ Ascending(S)[i] \in S
         /\ Cardinality(Below(S, Ascending(S)[i])) = i - 1
<1>1. Cardinality(S) \in Nat
  BY FS_CardinalityType
<1>2. \E x \in S : Cardinality(Below(S, x)) = i - 1
  BY <1>1, RankExists
<1>3. QED
  BY <1>2 DEF Ascending

\* Ascending lists every element of a set, once.
LEMMA AscendingLists ==
  ASSUME NEW S \in SUBSET Nat, IsFiniteSet(S)
  PROVE  /\ Cardinality(S) \in Nat
         /\ Ascending(S) \in Seq(S) /\ Len(Ascending(S)) = Cardinality(S)
         /\ \A x \in S : \E i \in 1..Cardinality(S) : Ascending(S)[i] = x
<1>1. Cardinality(S) \in Nat
  BY FS_CardinalityType
<1>2. Ascending(S) \in [1..Cardinality(S) -> S]
  BY AscendingMembers DEF Ascending
<1>3. Ascending(S) \in Seq(S) /\ Len(Ascending(S)) = Cardinality(S)
  BY <1>1, <1>2
<1>4. ASSUME NEW x \in S
      PROVE  \E i \in 1..Cardinality(S) : Ascending(S)[i] = x
  <2>1. \A y \in S : IsFiniteSet(Below(S, y)) /\ Cardinality(Below(S, y)) \in Nat
    <3> TAKE y \in S
    <3>1. Below(S, y) \in SUBSET S
      BY DEF Below
    <3>2. QED
      BY <3>1, FS_Subset, FS_CardinalityType
  <2>2. ASSUME NEW y \in S, NEW z \in S, y < z
        PROVE  Cardinality(Below(S, y)) < Cardinality(Below(S, z))
    <3>0. \A w \in S : w < y => w < z
      BY <2>2
    <3>1. Below(S, y) \cup {y} \in SUBSET Below(S, z) /\ y \notin Below(S, y)
      <4>1. \A w \in Below(S, y) \cup {y} : w \in S /\ w < z
        BY <2>2, <3>0 DEF Below
      <4>2. \A w \in Below(S, y) \cup {y} : w \in Below(S, z)
        BY <4>1, Zenon DEF Below
      <4>3. y \notin Below(S, y)
        BY DEF Below
      <4>4. QED
        BY <4>2, <4>3, Zenon
    <3>2. /\ IsFiniteSet(Below(S, y) \cup {y})
          /\ Cardinality(Below(S, y) \cup {y}) = Cardinality(Below(S, y)) + 1
      BY <2>1, <3>1, FS_AddElement
    <3>3. Cardinality(Below(S, y) \cup {y}) =< Cardinality(Below(S, z))
      BY <2>1, <3>1, FS_Subset
    <3>4. QED
      BY <2>1, <3>2, <3>3
  <2>3. Below(S, x) \in SUBSET S /\ Below(S, x) # S
    BY DEF Below
  <2>4. Cardinality(Below(S, x)) < Cardinality(S)
    <3>1. x \notin Below(S, x) /\ Below(S, x) \cup {x} \in SUBSET S
      BY DEF Below
    <3>2. Cardinality(Below(S, x) \cup {x}) = Cardinality(Below(S, x)) + 1
      BY <2>1, <3>1, FS_AddElement
    <3>3. Cardinality(Below(S, x) \cup {x}) =< Cardinality(S)
      BY <3>1, FS_Subset
    <3>4. QED
      BY <1>1, <2>1, <3>2, <3>3
  <2>5. PICK i \in 1..Cardinality(S) : i = Cardinality(Below(S, x)) + 1
    BY <1>1, <2>1, <2>4
  <2>6. Ascending(S)[i] \in S /\ Cardinality(Below(S, Ascending(S)[i])) = i - 1
    BY AscendingMembers
  <2>7. Ascending(S)[i] = x
    <3> DEFINE z == Ascending(S)[i]
    <3>1. z \in S /\ Cardinality(Below(S, z)) = Cardinality(Below(S, x))
      BY <2>1, <2>5, <2>6
    <3> HIDE DEF z
    <3>2. ~(z < x) /\ ~(x < z)
      BY <2>1, <2>2, <3>1
    <3>3. z = x
      BY <3>1, <3>2
    <3>4. QED
      BY <3>3 DEF z
  <2>8. QED
    BY <2>7
<1>5. QED
  BY <1>1, <1>3, <1>4

\* The enumeration ascends.
LEMMA AscendingOrder ==
  ASSUME NEW S \in SUBSET Nat, IsFiniteSet(S),
         NEW i \in 1..Cardinality(S), NEW j \in 1..Cardinality(S), i < j
  PROVE  Ascending(S)[i] < Ascending(S)[j]
<1>1. PICK x \in S, y \in S :
        /\ x = Ascending(S)[i] /\ Cardinality(Below(S, x)) = i - 1
        /\ y = Ascending(S)[j] /\ Cardinality(Below(S, y)) = j - 1
  BY AscendingMembers
<1>2. ASSUME ~(x < y) PROVE FALSE
  <2>1. x \in Nat /\ y \in Nat /\ y =< x
    BY <1>2
  <2>2. Below(S, y) \subseteq Below(S, x)
    <3>1. \A w \in S : w < y => w < x
      BY <2>1
    <3>2. QED
      BY <3>1, Zenon DEF Below
  <2>3. IsFiniteSet(Below(S, x))
    <3>1. Below(S, x) \subseteq S
      BY DEF Below
    <3>2. QED
      BY <3>1, FS_Subset
  <2>4. Cardinality(Below(S, y)) =< Cardinality(Below(S, x))
    BY <2>2, <2>3, FS_Subset
  <2>5. QED
    BY <1>1, <2>4, FS_CardinalityType
<1>3. QED
  BY <1>1, <1>2

-----------------------------------------------------------------------------
(* Folds of integers over finite sets: whatever element is chosen next, a    *)
(* fold with an associative and commutative operation takes them one by one. *)

Chosen(s) == CHOOSE x \in s : TRUE
Plus == [p \in Int \X Int |-> p[1] + p[2]]
Times == [p \in Int \X Int |-> p[1] * p[2]]

IsFold(g, op, base, f, S) ==
  /\ g[{}] = base
  /\ \A s \in SUBSET S : s # {} /\ g[s \ {Chosen(s)}] \in Int
       => g[s] = op[<<f[Chosen(s)], g[s \ {Chosen(s)}]>>]

Commutes(op) == \A x, y, z \in Int : op[<<x, op[<<y, z>>]>>] = op[<<y, op[<<x, z>>]>>]

LEMMA ChosenIn == \A s : s # {} => Chosen(s) \in s
  BY DEF Chosen

\* Of a finite set's subsets with some property there is one without another below.
LEMMA SmallestSubset ==
  ASSUME NEW S, IsFiniteSet(S), NEW bad \in SUBSET (SUBSET S), bad # {}
  PROVE  \E s \in bad : \A t \in SUBSET s : t # s => t \notin bad
<1> DEFINE sizes == {Cardinality(s) : s \in bad}
<1>1. \A s \in SUBSET S : IsFiniteSet(s) /\ Cardinality(s) \in Nat
  BY FS_Subset, FS_CardinalityType
<1>2. sizes \subseteq Nat /\ sizes # {}
  BY <1>1
<1>3. PICK n \in sizes : \A m \in sizes : n =< m
  <2> HIDE DEF sizes
  <2>1. QED
    BY <1>2, MinExists
<1>4. PICK s \in bad : Cardinality(s) = n
  BY <1>3
<1>5. ASSUME NEW t \in SUBSET s, t # s PROVE t \notin bad
  <2>1. Cardinality(t) < Cardinality(s)
    BY <1>1, <1>5, FS_Subset
  <2>2. Cardinality(t) \in Nat /\ n \in Nat
    BY <1>1, <1>2, <1>5
  <2>3. QED
    BY <1>3, <1>4, <2>1, <2>2
<1>6. QED
  BY <1>4, <1>5

LEMMA FoldType ==
  ASSUME NEW S, IsFiniteSet(S), NEW op \in [Int \X Int -> Int], NEW base \in Int,
         NEW f, \A x \in S : f[x] \in Int, NEW g, IsFold(g, op, base, f, S)
  PROVE  \A s \in SUBSET S : g[s] \in Int
<1> DEFINE bad == {s \in SUBSET S : g[s] \notin Int}
<1> SUFFICES ASSUME bad # {} PROVE FALSE
  OBVIOUS
<1>1. PICK s \in bad : \A t \in SUBSET s : t # s => t \notin bad
  <2> HIDE DEF bad
  <2>1. bad \in SUBSET (SUBSET S)
    BY DEF bad
  <2>2. QED
    BY <2>1, SmallestSubset
<1>2. s # {} /\ s \in SUBSET S
  BY <1>1 DEF IsFold
<1>3. Chosen(s) \in s
  BY <1>2, ChosenIn
<1>4. g[s \ {Chosen(s)}] \in Int
  BY <1>1, <1>3
<1>5. g[s] = op[<<f[Chosen(s)], g[s \ {Chosen(s)}]>>]
  BY <1>2, <1>4 DEF IsFold
<1>6. QED
  BY <1>1, <1>3, <1>4, <1>5

\* Two folds of the same values agree, over whatever sets they are taken.
LEMMA FoldAgree ==
  ASSUME NEW S, IsFiniteSet(S), NEW T, IsFiniteSet(T),
         NEW op \in [Int \X Int -> Int], NEW base \in Int,
         NEW f, NEW e, \A x \in S : f[x] \in Int, \A x \in T : e[x] \in Int,
         \A x \in S \cap T : f[x] = e[x],
         NEW g, IsFold(g, op, base, f, S), NEW h, IsFold(h, op, base, e, T)
  PROVE  \A s \in SUBSET (S \cap T) : g[s] = h[s]
<1> DEFINE bad == {s \in SUBSET (S \cap T) : g[s] # h[s]}
<1> SUFFICES ASSUME bad # {} PROVE FALSE
  OBVIOUS
<1>1. PICK s \in bad : \A t \in SUBSET s : t # s => t \notin bad
  <2> HIDE DEF bad
  <2>1. bad \in SUBSET (SUBSET S)
    BY DEF bad
  <2>2. QED
    BY <2>1, SmallestSubset
<1>2. s # {} /\ s \in SUBSET S /\ s \in SUBSET T
  BY <1>1 DEF IsFold
<1>3. Chosen(s) \in s
  BY <1>2, ChosenIn
<1> DEFINE r == s \ {Chosen(s)}
<1>4. g[r] = h[r] /\ r \in SUBSET S /\ r \in SUBSET T
  BY <1>1, <1>2, <1>3
<1>5. g[r] \in Int /\ h[r] \in Int
  BY <1>4, FoldType
<1>6. g[s] = op[<<f[Chosen(s)], g[r]>>] /\ h[s] = op[<<e[Chosen(s)], h[r]>>]
  BY <1>2, <1>5 DEF IsFold
<1>7. QED
  BY <1>1, <1>2, <1>3, <1>4, <1>6

LEMMA FoldExists ==
  ASSUME NEW S, IsFiniteSet(S), NEW op \in [Int \X Int -> Int], NEW base \in Int,
         NEW f, \A x \in S : f[x] \in Int
  PROVE  \E g \in [SUBSET S -> Int] : IsFold(g, op, base, f, S)
<1> DEFINE Has(g, s) == g \in [SUBSET s -> Int] /\ IsFold(g, op, base, f, s)
           value(s) == (CHOOSE g : Has(g, s))[s]
           bad == {s \in SUBSET S : ~ \E g : Has(g, s)}
<1> SUFFICES ASSUME bad # {} PROVE FALSE
  OBVIOUS
<1>1. PICK T \in bad : \A t \in SUBSET T : t # T => t \notin bad
  <2> HIDE DEF bad
  <2>1. bad \in SUBSET (SUBSET S)
    BY DEF bad
  <2>2. QED
    BY <2>1, SmallestSubset
<1>2. T \in SUBSET S /\ IsFiniteSet(T) /\ \A t \in SUBSET T : IsFiniteSet(t)
  BY <1>1, FS_Subset
<1>3. ASSUME NEW t \in SUBSET T, t # T
      PROVE  Has(CHOOSE g : Has(g, t), t)
  <2>1. \E g : Has(g, t)
    BY <1>1, <1>2, <1>3
  <2> HIDE DEF Has
  <2>2. QED
    BY <2>1
<1>4. ASSUME NEW t \in SUBSET T, t # T PROVE value(t) \in Int
  <2>1. (CHOOSE g : Has(g, t)) \in [SUBSET t -> Int]
    BY <1>3, <1>4
  <2>2. QED
    BY <2>1
<1>5. value({}) = base \/ T = {}
  BY <1>3 DEF IsFold
<1>6. ASSUME NEW t \in SUBSET T, t # T, t # {}
      PROVE  value(t) = op[<<f[Chosen(t)], value(t \ {Chosen(t)})>>]
  <2> DEFINE r == t \ {Chosen(t)}
             gt == CHOOSE g : Has(g, t)
             gr == CHOOSE g : Has(g, r)
  <2>1. Chosen(t) \in t /\ r \in SUBSET T /\ r # T /\ r \in SUBSET t
    BY <1>6, ChosenIn
  <2>2. Has(gt, t) /\ Has(gr, r)
    BY <1>3, <1>6, <2>1
  <2>3. IsFold(gt, op, base, f, t) /\ IsFold(gr, op, base, f, r) /\ gt[r] \in Int
    BY <2>1, <2>2
  <2> HIDE DEF gt, gr, r
  <2>4. r \in SUBSET (t \cap r) /\ (\A x \in t : f[x] \in Int) /\ (\A x \in r : f[x] \in Int)
    BY <1>2, <2>1
  <2>5. gt[r] = gr[r]
    <3>1. IsFiniteSet(t) /\ IsFiniteSet(r)
      BY <1>2, <2>1
    <3>2. \A s \in SUBSET (t \cap r) : gt[s] = gr[s]
      BY <2>3, <2>4, <3>1, FoldAgree
    <3>3. QED
      BY <2>4, <3>2
  <2>6. gt[t] = op[<<f[Chosen(t)], gt[r]>>]
    BY <1>6, <2>3 DEF IsFold, r
  <2>7. QED
    BY <2>5, <2>6 DEF gt, gr, r
<1> DEFINE new(s) == IF s # T THEN value(s) ELSE IF T = {} THEN base
                     ELSE op[<<f[Chosen(T)], value(T \ {Chosen(T)})>>]
           g == [s \in SUBSET T |-> new(s)]
<1> HIDE DEF value, Has, bad
<1>7. \A s \in SUBSET T : new(s) \in Int
  <2>1. CASE T = {}
    BY <1>4, <2>1
  <2>2. CASE T # {}
    <3>1. Chosen(T) \in T /\ T \ {Chosen(T)} # T
      BY <2>2, ChosenIn
    <3>2. f[Chosen(T)] \in Int /\ value(T \ {Chosen(T)}) \in Int
      BY <1>2, <1>4, <3>1
    <3>3. QED
      BY <1>4, <2>2, <3>2
  <2>3. QED
    BY <2>1, <2>2
<1>8. g[{}] = base
  BY <1>5
<1>9. ASSUME NEW s \in SUBSET T, s # {}
      PROVE  g[s] = op[<<f[Chosen(s)], g[s \ {Chosen(s)}]>>]
  <2>1. Chosen(s) \in s /\ s \ {Chosen(s)} # T /\ s \ {Chosen(s)} \in SUBSET T
    BY <1>9, ChosenIn
  <2>2. g[s] = new(s) /\ g[s \ {Chosen(s)}] = value(s \ {Chosen(s)})
    BY <2>1
  <2>3. CASE s = T
    BY <1>9, <2>2, <2>3
  <2>4. CASE s # T
    BY <1>6, <1>9, <2>2, <2>4
  <2>5. QED
    BY <2>3, <2>4
<1>10. g \in [SUBSET T -> Int]
  BY <1>7
<1>11. Has(g, T)
  <2> HIDE DEF g
  <2>1. QED
    BY <1>8, <1>9, <1>10 DEF Has, IsFold
<1>12. QED
  BY <1>1, <1>11 DEF bad

\* The order in which a fold takes the elements does not matter.
LEMMA FoldOrder ==
  ASSUME NEW S, IsFiniteSet(S), NEW op \in [Int \X Int -> Int], NEW base \in Int,
         Commutes(op),
         NEW f, \A x \in S : f[x] \in Int, NEW g, IsFold(g, op, base, f, S)
  PROVE  \A x \in S : g[S] = op[<<f[x], g[S \ {x}]>>]
<1> DEFINE bad == {s \in SUBSET S : ~ \A x \in s : g[s] = op[<<f[x], g[s \ {x}]>>]}
<1> SUFFICES ASSUME bad # {} PROVE FALSE
  OBVIOUS
<1>1. PICK s \in bad : \A t \in SUBSET s : t # s => t \notin bad
  <2> HIDE DEF bad
  <2>1. bad \in SUBSET (SUBSET S)
    BY DEF bad
  <2>2. QED
    BY <2>1, SmallestSubset
<1>2. PICK x \in s : g[s] # op[<<f[x], g[s \ {x}]>>]
  BY <1>1
<1> DEFINE c == Chosen(s)
           sc == s \ {c}
           sx == s \ {x}
<1>3. s \in SUBSET S /\ c \in s
  BY <1>1, <1>2, ChosenIn
<1>4. \A t \in SUBSET S : g[t] \in Int
  BY FoldType
<1> HIDE DEF c
<1>5. g[s] = op[<<f[c], g[sc]>>]
  BY <1>2, <1>3, <1>4 DEF IsFold, c
<1>6. c # x
  BY <1>2, <1>5
<1>7. sc \notin bad /\ sx \notin bad /\ sc \in SUBSET S /\ sx \in SUBSET S
  BY <1>1, <1>2, <1>3
<1>8. g[sc] = op[<<f[x], g[sc \ {x}]>>]
  BY <1>2, <1>6, <1>7
<1>9. g[sx] = op[<<f[c], g[sx \ {c}]>>]
  BY <1>3, <1>6, <1>7
<1>10. sc \ {x} = sx \ {c} /\ sc \ {x} \in SUBSET S
  BY <1>7
<1>11. f[x] \in Int /\ f[c] \in Int /\ g[sc \ {x}] \in Int
  BY <1>2, <1>3, <1>4, <1>10
<1> HIDE DEF bad, sc, sx
<1>12. g[s] = op[<<f[x], g[sx]>>]
  <2> DEFINE rest == g[sc \ {x}]
  <2>1. g[s] = op[<<f[c], op[<<f[x], rest>>]>>] /\ g[sx] = op[<<f[c], rest>>]
    BY <1>5, <1>8, <1>9, <1>10
  <2>2. rest \in Int
    BY <1>11
  <2> HIDE DEF rest
  <2>3. op[<<f[c], op[<<f[x], rest>>]>>] = op[<<f[x], op[<<f[c], rest>>]>>]
    BY <1>11, <2>2 DEF Commutes
  <2>4. QED
    BY <2>1, <2>3
<1>13. QED
  BY <1>2, <1>12 DEF sx

LEMMA PlusOrder ==
  ASSUME NEW S, IsFiniteSet(S), NEW f, \A x \in S : f[x] \in Int, NEW g, IsFold(g, Plus, 0, f, S)
  PROVE  \A x \in S : g[S] = Plus[<<f[x], g[S \ {x}]>>]
<1>1. Plus \in [Int \X Int -> Int] /\ 0 \in Int
  BY DEF Plus
<1>2. Commutes(Plus)
  BY DEF Plus, Commutes
<1>3. QED
  BY <1>1, <1>2, FoldOrder

LEMMA SumIsFold ==
  ASSUME NEW S, IsFiniteSet(S), NEW f, \A x \in S : f[x] \in Int
  PROVE  \E g : IsFold(g, Plus, 0, f, S) /\ SumFunctionOnSet(f, S) = g[S]
<1> DEFINE Fold(g) == g = [s \in SUBSET S |->
                            IF s = {} THEN 0 ELSE f[Chosen(s)] + g[s \ {Chosen(s)}]]
<1>1. Plus \in [Int \X Int -> Int] /\ \A a, b \in Int : Plus[<<a, b>>] = a + b
  BY DEF Plus
<1>2. PICK g \in [SUBSET S -> Int] : IsFold(g, Plus, 0, f, S)
  <2>1. Plus \in [Int \X Int -> Int] /\ 0 \in Int
    BY <1>1
  <2>2. QED
    BY <2>1, FoldExists
<1>3. ASSUME NEW s \in SUBSET S
      PROVE  g[s] = IF s = {} THEN 0 ELSE f[Chosen(s)] + g[s \ {Chosen(s)}]
  BY <1>1, <1>2, ChosenIn DEF IsFold
<1>4. Fold(g)
  BY <1>2, <1>3
<1> DEFINE G == CHOOSE h : Fold(h)
<1>5. Fold(G)
  <2> HIDE DEF Fold
  <2>1. QED
    BY <1>4
<1> HIDE DEF G
<1>6. IsFold(G, Plus, 0, f, S)
  <2>1. G[{}] = 0
    BY <1>5
  <2>2. ASSUME NEW s \in SUBSET S, s # {}, G[s \ {Chosen(s)}] \in Int
        PROVE  G[s] = Plus[<<f[Chosen(s)], G[s \ {Chosen(s)}]>>]
    <3>1. f[Chosen(s)] \in Int
      BY <2>2, ChosenIn
    <3>2. G[s] = f[Chosen(s)] + G[s \ {Chosen(s)}]
      BY <1>5, <2>2
    <3>3. QED
      BY <1>1, <2>2, <3>1, <3>2
  <2>3. QED
    BY <2>1, <2>2 DEF IsFold
<1>7. SumFunctionOnSet(f, S) = G[S]
  BY DEF SumFunctionOnSet, FoldFunctionOnSet, MapThenFoldSet, Chosen, G, Fold
<1>8. QED
  BY <1>6, <1>7

\* One more element; only the values of the elements matter.
LEMMA SumStep ==
  ASSUME NEW S, IsFiniteSet(S), NEW x, x \notin S, NEW f, NEW e,
         \A y \in S \cup {x} : f[y] \in Int, \A y \in S : e[y] = f[y]
  PROVE  SumFunctionOnSet(f, S \cup {x}) = f[x] + SumFunctionOnSet(e, S)
<1> DEFINE T == S \cup {x}
<1>1. Plus \in [Int \X Int -> Int] /\ \A a, b \in Int : Plus[<<a, b>>] = a + b
  BY DEF Plus
<1>2. IsFiniteSet(T) /\ \A y \in S : e[y] \in Int
  BY FS_AddElement
<1>3. PICK g : IsFold(g, Plus, 0, f, T) /\ SumFunctionOnSet(f, T) = g[T]
  BY <1>2, SumIsFold
<1>4. PICK h : IsFold(h, Plus, 0, e, S) /\ SumFunctionOnSet(e, S) = h[S]
  BY <1>2, SumIsFold
<1> HIDE DEF T
<1>5. T \ {x} = S /\ x \in T /\ S \in SUBSET (T \cap S) /\ S \in SUBSET T
      /\ (\A y \in T : f[y] \in Int) /\ \A y \in T \cap S : f[y] = e[y]
  BY DEF T
<1>6. g[S] = h[S]
  <2>1. \A s \in SUBSET (T \cap S) : g[s] = h[s]
    BY <1>1, <1>2, <1>3, <1>4, <1>5, FoldAgree
  <2>2. QED
    BY <1>5, <2>1
<1>7. g[S] \in Int
  BY <1>1, <1>2, <1>3, <1>5, FoldType
<1>9. g[T] = Plus[<<f[x], g[S]>>]
  <2>1. \A y \in T : g[T] = Plus[<<f[y], g[T \ {y}]>>]
    BY <1>2, <1>3, <1>5, PlusOrder
  <2>2. QED
    BY <1>5, <2>1
<1>10. g[T] = f[x] + g[S]
  BY <1>1, <1>5, <1>7, <1>9
<1>11. QED
  BY <1>3, <1>4, <1>6, <1>10 DEF T

LEMMA SumSame ==
  ASSUME NEW S, IsFiniteSet(S), NEW f, \A x \in S : f[x] \in Int, NEW e, \A x \in S : e[x] = f[x]
  PROVE  SumFunctionOnSet(e, S) = SumFunctionOnSet(f, S)
<1>1. Plus \in [Int \X Int -> Int] /\ 0 \in Int
  BY DEF Plus
<1>2. PICK g : IsFold(g, Plus, 0, f, S) /\ SumFunctionOnSet(f, S) = g[S]
  BY SumIsFold
<1>3. \A x \in S : e[x] \in Int
  OBVIOUS
<1>4. PICK k : IsFold(k, Plus, 0, e, S) /\ SumFunctionOnSet(e, S) = k[S]
  BY <1>3, SumIsFold
<1>5. S \in SUBSET (S \cap S) /\ \A x \in S \cap S : f[x] = e[x]
  OBVIOUS
<1>6. \A s \in SUBSET (S \cap S) : g[s] = k[s]
  BY <1>1, <1>2, <1>3, <1>4, <1>5, FoldAgree
<1>7. QED
  BY <1>2, <1>4, <1>5, <1>6

LEMMA SumType ==
  ASSUME NEW S, IsFiniteSet(S), NEW f, \A x \in S : f[x] \in Int
  PROVE  SumFunctionOnSet(f, S) \in Int /\ SumFunctionOnSet(f, {}) = 0
<1>1. Plus \in [Int \X Int -> Int]
  BY DEF Plus
<1>2. PICK g : IsFold(g, Plus, 0, f, S) /\ SumFunctionOnSet(f, S) = g[S]
  BY SumIsFold
<1>3. g[S] \in Int
  BY <1>1, <1>2, FoldType
<1>4. IsFiniteSet({}) /\ \A x \in {} : f[x] \in Int
  BY FS_EmptySet
<1>5. \E h : IsFold(h, Plus, 0, f, {}) /\ SumFunctionOnSet(f, {}) = h[{}]
  BY <1>4, SumIsFold
<1>6. SumFunctionOnSet(f, {}) = 0
  BY <1>5 DEF IsFold
<1>7. QED
  BY <1>2, <1>3, <1>6

ProductOver(f, D) == FoldFunctionOnSet(LAMBDA x, y : x * y, 1, f, D)

LEMMA TimesOrder ==
  ASSUME NEW S, IsFiniteSet(S), NEW f, \A x \in S : f[x] \in Int, NEW g, IsFold(g, Times, 1, f, S)
  PROVE  \A x \in S : g[S] = Times[<<f[x], g[S \ {x}]>>]
<1>1. Times \in [Int \X Int -> Int] /\ 1 \in Int
  BY DEF Times
<1>2. Commutes(Times)
  BY DEF Times, Commutes
<1>3. PICK op, e : op = Times /\ e = 1
  OBVIOUS
<1>4. op \in [Int \X Int -> Int] /\ e \in Int /\ Commutes(op) /\ IsFold(g, op, e, f, S)
  BY <1>1, <1>2, <1>3
<1>5. \A x \in S : g[S] = op[<<f[x], g[S \ {x}]>>]
  BY <1>4, FoldOrder
<1>6. QED
  BY <1>3, <1>5

LEMMA ProductIsFold ==
  ASSUME NEW S, IsFiniteSet(S), NEW f, \A x \in S : f[x] \in Int
  PROVE  \E g : IsFold(g, Times, 1, f, S) /\ ProductOver(f, S) = g[S]
<1> DEFINE Fold(g) == g = [s \in SUBSET S |->
                            IF s = {} THEN 1 ELSE f[Chosen(s)] * g[s \ {Chosen(s)}]]
<1>1. Times \in [Int \X Int -> Int] /\ \A a, b \in Int : Times[<<a, b>>] = a * b
  BY DEF Times
<1>2. PICK g \in [SUBSET S -> Int] : IsFold(g, Times, 1, f, S)
  <2>1. Times \in [Int \X Int -> Int] /\ 1 \in Int
    BY <1>1
  <2>2. QED
    BY <2>1, FoldExists
<1>3. ASSUME NEW s \in SUBSET S
      PROVE  g[s] = IF s = {} THEN 1 ELSE f[Chosen(s)] * g[s \ {Chosen(s)}]
  BY <1>1, <1>2, ChosenIn DEF IsFold
<1>4. Fold(g)
  BY <1>2, <1>3
<1> DEFINE G == CHOOSE h : Fold(h)
<1>5. Fold(G)
  <2> HIDE DEF Fold
  <2>1. QED
    BY <1>4
<1> HIDE DEF G
<1>6. IsFold(G, Times, 1, f, S)
  <2>1. G[{}] = 1
    BY <1>5
  <2>2. ASSUME NEW s \in SUBSET S, s # {}, G[s \ {Chosen(s)}] \in Int
        PROVE  G[s] = Times[<<f[Chosen(s)], G[s \ {Chosen(s)}]>>]
    <3>1. f[Chosen(s)] \in Int
      BY <2>2, ChosenIn
    <3>2. G[s] = f[Chosen(s)] * G[s \ {Chosen(s)}]
      BY <1>5, <2>2
    <3>3. QED
      BY <1>1, <2>2, <3>1, <3>2
  <2>3. QED
    BY <2>1, <2>2 DEF IsFold
<1>7. ProductOver(f, S) = G[S]
  BY DEF ProductOver, FoldFunctionOnSet, MapThenFoldSet, Chosen, G, Fold
<1>8. QED
  BY <1>6, <1>7

\* One more element; only the values of the elements matter.
LEMMA ProductStep ==
  ASSUME NEW S, IsFiniteSet(S), NEW x, x \notin S, NEW f, NEW e,
         \A y \in S \cup {x} : f[y] \in Int, \A y \in S : e[y] = f[y]
  PROVE  ProductOver(f, S \cup {x}) = f[x] * ProductOver(e, S)
<1> DEFINE T == S \cup {x}
<1>1. Times \in [Int \X Int -> Int] /\ \A a, b \in Int : Times[<<a, b>>] = a * b
  BY DEF Times
<1>2. IsFiniteSet(T) /\ \A y \in S : e[y] \in Int
  BY FS_AddElement
<1>3. PICK g : IsFold(g, Times, 1, f, T) /\ ProductOver(f, T) = g[T]
  BY <1>2, ProductIsFold
<1>4. PICK h : IsFold(h, Times, 1, e, S) /\ ProductOver(e, S) = h[S]
  BY <1>2, ProductIsFold
<1> HIDE DEF T
<1>5. T \ {x} = S /\ x \in T /\ S \in SUBSET (T \cap S) /\ S \in SUBSET T
      /\ (\A y \in T : f[y] \in Int) /\ \A y \in T \cap S : f[y] = e[y]
  BY DEF T
<1>6. g[S] = h[S]
  <2>1. \A s \in SUBSET (T \cap S) : g[s] = h[s]
    BY <1>1, <1>2, <1>3, <1>4, <1>5, FoldAgree
  <2>2. QED
    BY <1>5, <2>1
<1>7. g[S] \in Int
  BY <1>1, <1>2, <1>3, <1>5, FoldType
<1>9. g[T] = Times[<<f[x], g[S]>>]
  <2>1. \A y \in T : g[T] = Times[<<f[y], g[T \ {y}]>>]
    BY <1>2, <1>3, <1>5, TimesOrder
  <2>2. QED
    BY <1>5, <2>1
<1>10. g[T] = f[x] * g[S]
  BY <1>1, <1>5, <1>7, <1>9
<1>11. QED
  BY <1>3, <1>4, <1>6, <1>10 DEF T

LEMMA ProductSame ==
  ASSUME NEW S, IsFiniteSet(S), NEW f, \A x \in S : f[x] \in Int, NEW e, \A x \in S : e[x] = f[x]
  PROVE  ProductOver(e, S) = ProductOver(f, S)
<1>1. Times \in [Int \X Int -> Int] /\ 1 \in Int
  BY DEF Times
<1>2. PICK g : IsFold(g, Times, 1, f, S) /\ ProductOver(f, S) = g[S]
  BY ProductIsFold
<1>3. \A x \in S : e[x] \in Int
  OBVIOUS
<1>4. PICK k : IsFold(k, Times, 1, e, S) /\ ProductOver(e, S) = k[S]
  BY <1>3, ProductIsFold
<1>5. S \in SUBSET (S \cap S) /\ \A x \in S \cap S : f[x] = e[x]
  OBVIOUS
<1>6. \A s \in SUBSET (S \cap S) : g[s] = k[s]
  BY <1>1, <1>2, <1>3, <1>4, <1>5, FoldAgree
<1>7. QED
  BY <1>2, <1>4, <1>5, <1>6

LEMMA ProductType ==
  ASSUME NEW S, IsFiniteSet(S), NEW f, \A x \in S : f[x] \in Int
  PROVE  ProductOver(f, S) \in Int /\ ProductOver(f, {}) = 1
<1>1. Times \in [Int \X Int -> Int]
  BY DEF Times
<1>2. PICK g : IsFold(g, Times, 1, f, S) /\ ProductOver(f, S) = g[S]
  BY ProductIsFold
<1>3. g[S] \in Int
  BY <1>1, <1>2, FoldType
<1>4. IsFiniteSet({}) /\ \A x \in {} : f[x] \in Int
  BY FS_EmptySet
<1>5. \E h : IsFold(h, Times, 1, f, {}) /\ ProductOver(f, {}) = h[{}]
  BY <1>4, ProductIsFold
<1>6. ProductOver(f, {}) = 1
  BY <1>5 DEF IsFold
<1>7. QED
  BY <1>2, <1>3, <1>6

\* The product over two sets without a common element.
LEMMA ProductUnion ==
  ASSUME NEW A, IsFiniteSet(A), NEW B, IsFiniteSet(B), A \cap B = {},
         NEW f, \A x \in A \cup B : f[x] \in Int
  PROVE  ProductOver(f, A \cup B) = ProductOver(f, A) * ProductOver(f, B)
<1> DEFINE bad == {b \in SUBSET B : ProductOver(f, A \cup b) # ProductOver(f, A) * ProductOver(f, b)}
<1>1. \A b \in SUBSET B : IsFiniteSet(b) /\ IsFiniteSet(A \cup b) /\ ProductOver(f, b) \in Int
  <2> SUFFICES ASSUME NEW b \in SUBSET B
               PROVE  IsFiniteSet(b) /\ IsFiniteSet(A \cup b) /\ ProductOver(f, b) \in Int
    OBVIOUS
  <2>1. IsFiniteSet(b)
    BY FS_Subset
  <2>2. QED
    BY <2>1, FS_Union, ProductType
<1>2. ProductOver(f, A) \in Int /\ ProductOver(f, {}) = 1
  BY ProductType
<1> SUFFICES ASSUME bad # {} PROVE FALSE
  OBVIOUS
<1>3. PICK b \in bad : \A t \in SUBSET b : t # b => t \notin bad
  <2> HIDE DEF bad
  <2>1. bad \in SUBSET (SUBSET B)
    BY DEF bad
  <2>2. QED
    BY <2>1, SmallestSubset
<1>4. CASE b = {}
  <2>1. A \cup b = A
    BY <1>4
  <2>2. ProductOver(f, A) * 1 = ProductOver(f, A)
    BY <1>2
  <2>3. QED
    BY <1>2, <1>3, <1>4, <2>1, <2>2
<1>5. CASE b # {}
  <2>1. PICK x \in b : TRUE
    BY <1>5
  <2> DEFINE r == b \ {x}
  <2>2. ProductOver(f, A \cup r) = ProductOver(f, A) * ProductOver(f, r) /\ r \in SUBSET B
    BY <1>3, <2>1
  <2>3. f[x] \in Int /\ x \in B /\ b = r \cup {x} /\ A \cup b = (A \cup r) \cup {x}
        /\ x \notin r /\ x \notin A \cup r
    BY <1>3, <2>1
  <2>4. (\A y \in r \cup {x} : f[y] \in Int) /\ \A y \in (A \cup r) \cup {x} : f[y] \in Int
    BY <1>3, <2>1
  <2>5. IsFiniteSet(r) /\ IsFiniteSet(A \cup r) /\ ProductOver(f, r) \in Int
    BY <1>1, <2>2
  <2> HIDE DEF r, bad
  <2>6. ProductOver(f, b) = f[x] * ProductOver(f, r)
    BY <2>3, <2>4, <2>5, ProductStep
  <2>7. ProductOver(f, A \cup b) = f[x] * ProductOver(f, A \cup r)
    <3> DEFINE T == A \cup r
    <3>1. IsFiniteSet(T) /\ x \notin T /\ (\A y \in T \cup {x} : f[y] \in Int) /\ A \cup b = T \cup {x}
      BY <2>3, <2>4, <2>5
    <3> HIDE DEF T
    <3>2. ProductOver(f, T \cup {x}) = f[x] * ProductOver(f, T)
      BY <3>1, ProductStep, ZenonT(60)
    <3>3. QED
      BY <3>1, <3>2 DEF T
  <2>8. \A i, j, k \in Int : i * (j * k) = j * (i * k)
    OBVIOUS
  <2>9. f[x] * (ProductOver(f, A) * ProductOver(f, r)) = ProductOver(f, A) * (f[x] * ProductOver(f, r))
    BY <1>2, <2>3, <2>5, <2>8
  <2>10. QED
    BY <1>3, <2>2, <2>6, <2>7, <2>9 DEF bad
<1>6. QED
  BY <1>4, <1>5

LEMMA ProductOfOnes ==
  ASSUME NEW S, IsFiniteSet(S), NEW f, \A x \in S : f[x] = 1
  PROVE  ProductOver(f, S) = 1
<1> DEFINE bad == {s \in SUBSET S : ProductOver(f, s) # 1}
<1> SUFFICES ASSUME bad # {} PROVE FALSE
  OBVIOUS
<1>1. PICK s \in bad : \A t \in SUBSET s : t # s => t \notin bad
  <2> HIDE DEF bad
  <2>1. bad \in SUBSET (SUBSET S)
    BY DEF bad
  <2>2. QED
    BY <2>1, SmallestSubset
<1>2. s # {}
  <2>1. ProductOver(f, {}) = 1
    <3>1. \A x \in S : f[x] \in Int
      OBVIOUS
    <3>2. QED
      BY <3>1, ProductType
  <2>2. QED
    BY <1>1, <2>1
<1>3. PICK x \in s : TRUE
  BY <1>2
<1> DEFINE r == s \ {x}
<1>4. ProductOver(f, r) = 1 /\ r \in SUBSET S /\ s = r \cup {x} /\ x \notin r /\ f[x] = 1
      /\ \A y \in r \cup {x} : f[y] \in Int
  BY <1>1, <1>3
<1>5. IsFiniteSet(r)
  BY <1>4, FS_Subset
<1> HIDE DEF r
<1>6. ProductOver(f, s) = f[x] * ProductOver(f, r)
  BY <1>4, <1>5, ProductStep, ZenonT(60)
<1>7. QED
  BY <1>1, <1>4, <1>6

-----------------------------------------------------------------------------
(* Sums along a list.                                                        *)

SumTo(f, n) == SumFunctionOnSet(f, 1..n)

LEMMA SumToStep ==
  ASSUME NEW n \in Nat, NEW f, \A i \in 1..(n + 1) : f[i] \in Int
  PROVE  SumTo(f, n + 1) = f[n + 1] + SumTo(f, n)
<1>1. IsFiniteSet(1..n) /\ n + 1 \notin 1..n /\ 1..(n + 1) = (1..n) \cup {n + 1}
  BY FS_Interval
<1>2. SumFunctionOnSet(f, (1..n) \cup {n + 1}) = f[n + 1] + SumFunctionOnSet(f, 1..n)
  <2>1. PICK S, x : S = 1..n /\ x = n + 1
    OBVIOUS
  <2>2. IsFiniteSet(S) /\ x \notin S /\ \A y \in S \cup {x} : f[y] \in Int
    BY <1>1, <2>1
  <2>3. SumFunctionOnSet(f, S \cup {x}) = f[x] + SumFunctionOnSet(f, S)
    BY <2>2, SumStep
  <2>4. QED
    BY <2>1, <2>3
<1>3. QED
  BY <1>1, <1>2 DEF SumTo

LEMMA SumToType ==
  ASSUME NEW n \in Nat, NEW f, \A i \in 1..n : f[i] \in Int
  PROVE  SumTo(f, n) \in Int
<1>1. IsFiniteSet(1..n)
  BY FS_Interval
<1>2. QED
  BY <1>1, SumType DEF SumTo

LEMMA SumToNone ==
  ASSUME NEW f
  PROVE  SumTo(f, 0) = 0
<1>1. 1..0 = {} /\ IsFiniteSet({})
  BY FS_EmptySet
<1>2. SumFunctionOnSet(f, {}) = 0
  BY <1>1, SumType
<1>3. QED
  BY <1>1, <1>2 DEF SumTo

LEMMA SumToSame ==
  ASSUME NEW n \in Nat, NEW f, \A i \in 1..n : f[i] \in Int, NEW e, \A i \in 1..n : e[i] = f[i]
  PROVE  SumTo(e, n) = SumTo(f, n)
<1>1. IsFiniteSet(1..n)
  BY FS_Interval
<1>2. QED
  BY <1>1, SumSame DEF SumTo

\* The sum along two lists, one behind the other.
Joins(f, e, m, h, n) ==
  /\ m \in Nat /\ n \in Nat /\ \A i \in 1..(m + n) : f[i] \in Int
  /\ \A i \in 1..m : e[i] = f[i]
  /\ \A i \in 1..n : h[i] = f[m + i]

LEMMA SumConcat ==
  ASSUME NEW m, NEW n, NEW f, NEW e, NEW h, Joins(f, e, m, h, n)
  PROVE  SumTo(f, m + n) = SumTo(e, m) + SumTo(h, n)
<1> DEFINE bad == {k \in 0..n : SumTo(f, m + k) # SumTo(e, m) + SumTo(h, k)}
<1>0. /\ m \in Nat /\ n \in Nat /\ \A i \in 1..(m + n) : f[i] \in Int
      /\ \A i \in 1..m : e[i] = f[i]
      /\ \A i \in 1..n : h[i] = f[m + i]
  BY DEF Joins
<1> SUFFICES ASSUME bad # {} PROVE FALSE
  <2>1. n \in 0..n
    BY <1>0
  <2>2. QED
    BY <2>1
<1>1. bad \subseteq Nat
  OBVIOUS
<1>2. PICK k \in bad : \A j \in bad : k =< j
  BY <1>1, MinExists
<1>3. k \in Nat /\ k =< n
  BY <1>0
<1>4. \A i \in 1..m : f[i] \in Int /\ e[i] \in Int
  BY <1>0
<1>5. \A i \in 1..n : h[i] \in Int
  BY <1>0
<1>6. SumTo(e, m) = SumTo(f, m) /\ SumTo(f, m) \in Int
  BY <1>0, <1>4, SumToSame, SumToType
<1>7. CASE k = 0
  <2>1. SumTo(h, 0) = 0
    BY SumToNone
  <2>2. SumTo(f, m + 0) = SumTo(e, m) + SumTo(h, 0)
    BY <1>0, <1>6, <2>1
  <2>3. QED
    BY <1>7, <2>2
<1>8. CASE k # 0
  <2>1. PICK j : j = k - 1
    OBVIOUS
  <2>2. j \in Nat /\ j + 1 = k /\ j \in 0..n /\ m + j \in Nat
    BY <1>0, <1>3, <1>8, <2>1
  <2>3. j \notin bad
    BY <1>2, <1>3, <2>2
  <2>4. SumTo(f, m + j) = SumTo(e, m) + SumTo(h, j)
    BY <2>2, <2>3
  <2>5. SumTo(h, j + 1) = h[j + 1] + SumTo(h, j)
    <3>1. \A i \in 1..(j + 1) : h[i] \in Int
      BY <1>0, <1>3, <1>5, <2>2
    <3>2. QED
      BY <2>2, <3>1, SumToStep
  <2>6. SumTo(f, (m + j) + 1) = f[(m + j) + 1] + SumTo(f, m + j)
    <3>1. \A i \in 1..((m + j) + 1) : f[i] \in Int
      BY <1>0, <1>3, <2>2
    <3>2. QED
      BY <2>2, <3>1, SumToStep
  <2>7. h[k] = f[m + k] /\ h[k] \in Int
    BY <1>0, <1>3, <1>5, <1>8
  <2>8. SumTo(h, j) \in Int
    <3>1. \A i \in 1..j : h[i] \in Int
      BY <1>0, <1>3, <1>5, <2>2
    <3>2. QED
      BY <2>2, <3>1, SumToType
  <2>9. (m + j) + 1 = m + k
    BY <1>0, <1>3, <2>2
  <2> DEFINE a == SumTo(f, m + k)
             b == SumTo(h, k)
             c == SumTo(e, m)
  <2>10. a = f[m + k] + (c + SumTo(h, j)) /\ b = h[k] + SumTo(h, j)
    BY <2>2, <2>4, <2>5, <2>6, <2>9
  <2>11. c \in Int /\ a # c + b
    BY <1>6
  <2> HIDE DEF a, b, c, bad
  <2>12. QED
    BY <2>7, <2>8, <2>10, <2>11
<1>9. QED
  BY <1>7, <1>8

\* What is zero may be left out of a sum.
LEMMA SumOfSome ==
  ASSUME NEW S, IsFiniteSet(S), NEW T \in SUBSET S, NEW f, \A x \in S : f[x] \in Int,
         \A x \in S \ T : f[x] = 0
  PROVE  SumFunctionOnSet(f, S) = SumFunctionOnSet(f, T)
<1> DEFINE bad == {s \in SUBSET (S \ T) : SumFunctionOnSet(f, T \cup s) # SumFunctionOnSet(f, T)}
<1>0. IsFiniteSet(S \ T) /\ \A s \in SUBSET (S \ T) : IsFiniteSet(T \cup s)
  BY FS_Subset
<1> SUFFICES ASSUME bad # {} PROVE FALSE
  <2>1. S \ T \in SUBSET (S \ T) /\ T \cup (S \ T) = S
    OBVIOUS
  <2>2. ASSUME SumFunctionOnSet(f, T \cup (S \ T)) # SumFunctionOnSet(f, T) PROVE bad # {}
    BY <2>1, <2>2
  <2>3. QED
    BY <2>1, <2>2
<1>1. bad \in SUBSET (SUBSET (S \ T))
  OBVIOUS
<1>2. PICK s \in bad : \A t \in SUBSET s : t # s => t \notin bad
  <2> HIDE DEF bad
  <2>1. QED
    BY <1>0, <1>1, SmallestSubset
<1>3. s # {}
  <2>1. T \cup {} = T
    OBVIOUS
  <2>2. QED
    BY <2>1
<1>4. PICK x \in s : TRUE
  BY <1>3
<1> DEFINE t == s \ {x}
<1>5. t \in SUBSET s /\ t # s /\ t \in SUBSET (S \ T) /\ x \notin T \cup t
      /\ (T \cup t) \cup {x} = T \cup s
  OBVIOUS
<1>6. SumFunctionOnSet(f, T \cup t) = SumFunctionOnSet(f, T)
  BY <1>2, <1>5
<1>7. SumFunctionOnSet(f, (T \cup t) \cup {x}) = f[x] + SumFunctionOnSet(f, T \cup t)
  <2>1. IsFiniteSet(T \cup t) /\ \A y \in (T \cup t) \cup {x} : f[y] \in Int
    BY <1>0, <1>5
  <2>2. PICK Z : Z = T \cup t
    OBVIOUS
  <2>3. IsFiniteSet(Z) /\ x \notin Z /\ \A y \in Z \cup {x} : f[y] \in Int
    BY <1>5, <2>1, <2>2
  <2>4. SumFunctionOnSet(f, Z \cup {x}) = f[x] + SumFunctionOnSet(f, Z)
    BY <2>3, SumStep
  <2>5. QED
    BY <2>2, <2>4
<1>8. f[x] = 0
  OBVIOUS
<1>9. SumFunctionOnSet(f, T) \in Int
  <2>1. IsFiniteSet(T) /\ \A y \in T : f[y] \in Int
    BY FS_Subset
  <2>2. QED
    BY <2>1, SumType
<1>10. SumFunctionOnSet(f, T \cup s) # SumFunctionOnSet(f, T)
  OBVIOUS
<1> HIDE DEF bad, t
<1>11. SumFunctionOnSet(f, T \cup s) = 0 + SumFunctionOnSet(f, T)
  BY <1>5, <1>6, <1>7, <1>8
<1>12. QED
  BY <1>9, <1>10, <1>11

-----------------------------------------------------------------------------
(* Recursion.  A function on elements whose value at an element depends on   *)
(* the values at those near it only exists, if a rank falls to what is near. *)

Recursive(I, V, Near, r, n, F) ==
  /\ V # {} /\ Near \in [I -> SUBSET I] /\ r \in [I -> Nat] /\ n \in Nat
  /\ \A i \in I : r[i] < n /\ \A j \in Near[i] : r[j] < r[i]
  /\ F \in [I -> [[I -> V] -> V]]
  /\ \A i \in I : \A g, h \in [I -> V] : (\A j \in Near[i] : g[j] = h[j]) => F[i][g] = F[i][h]

LEMMA RecursionExists ==
  ASSUME NEW I, NEW V, NEW Near, NEW r, NEW n, NEW F, Recursive(I, V, Near, r, n, F)
  PROVE  \E g \in [I -> V] : \A i \in I : g[i] = F[i][g]
<1> DEFINE Good(k, g) == \A i \in I : r[i] < k => g[i] = F[i][g]
           bad == {k \in Nat : ~ \E g \in [I -> V] : Good(k, g)}
<1>0. /\ V # {} /\ Near \in [I -> SUBSET I] /\ r \in [I -> Nat] /\ n \in Nat
      /\ \A i \in I : r[i] < n /\ \A j \in Near[i] : r[j] < r[i]
      /\ F \in [I -> [[I -> V] -> V]]
      /\ \A i \in I : \A g, h \in [I -> V] : (\A j \in Near[i] : g[j] = h[j]) => F[i][g] = F[i][h]
  BY DEF Recursive
<1>1. SUFFICES ASSUME bad # {} PROVE FALSE
  <2>1. n \notin bad
    BY <1>1
  <2>2. PICK g \in [I -> V] : Good(n, g)
    BY <1>0, <2>1
  <2>3. QED
    BY <1>0, <2>2
<1>2. PICK k \in bad : \A j \in bad : k =< j
  <2>1. bad \subseteq Nat
    OBVIOUS
  <2> HIDE DEF bad
  <2>2. QED
    BY <1>1, <2>1, MinExists
<1>3. CASE k = 0
  <2>1. PICK v \in V : TRUE
    BY <1>0
  <2>2. [i \in I |-> v] \in [I -> V] /\ Good(0, [i \in I |-> v])
    BY <1>0, <2>1
  <2>3. QED
    BY <1>2, <1>3, <2>2
<1>4. CASE k # 0
  <2>1. PICK m : m = k - 1
    OBVIOUS
  <2>2. m \in Nat /\ k = m + 1 /\ m < k
    BY <1>4, <2>1
  <2>3. ASSUME m \in bad PROVE FALSE
    <3>1. k =< m /\ k \in Nat
      BY <1>2, <2>3
    <3>2. QED
      BY <2>2, <3>1
  <2>4. PICK g \in [I -> V] : Good(m, g)
    BY <2>2, <2>3
  <2> DEFINE h == [i \in I |-> F[i][g]]
  <2>5. h \in [I -> V] /\ \A i \in I : h[i] = F[i][g]
    BY <1>0
  <2> HIDE DEF h
  <2>6. ASSUME NEW i \in I, r[i] < k PROVE h[i] = F[i][h]
    <3>1. ASSUME NEW j \in Near[i] PROVE h[j] = g[j]
      <4>1. j \in I /\ r[j] < r[i] /\ r[j] \in Nat /\ r[i] \in Nat
        BY <1>0
      <4>2. r[j] < m
        BY <2>2, <2>6, <4>1
      <4>3. g[j] = F[j][g]
        BY <2>4, <4>1, <4>2
      <4>4. QED
        BY <2>5, <4>1, <4>3
    <3>2. F[i][h] = F[i][g]
      BY <1>0, <2>5, <3>1
    <3>3. QED
      BY <2>5, <3>2
  <2>7. Good(k, h)
    BY <2>6
  <2>8. QED
    BY <1>2, <2>5, <2>7
<1>5. QED
  BY <1>3, <1>4

-----------------------------------------------------------------------------
(* Lists put together, as FlattenSeq of the community modules does it.       *)

IsFlatten(g, s) == g = [i \in 1..Len(s) |-> IF i = 1 THEN s[i] ELSE g[i - 1] \o s[i]]

Flattened(s) == (CHOOSE g : IsFlatten(g, s))[Len(s)]

LEMMA FlattenUnrolled ==
  ASSUME NEW s, NEW g, IsFlatten(g, s)
  PROVE  /\ \A i \in 1..Len(s) : g[i] = IF i = 1 THEN s[i] ELSE g[i - 1] \o s[i]
         /\ \E e : g = [i \in 1..Len(s) |-> e[i]]
<1> DEFINE e == [i \in 1..Len(s) |-> IF i = 1 THEN s[i] ELSE g[i - 1] \o s[i]]
<1>1. g = e
  BY DEF IsFlatten
<1>2. \A i \in 1..Len(s) : e[i] = IF i = 1 THEN s[i] ELSE g[i - 1] \o s[i]
  OBVIOUS
<1>3. e = [i \in 1..Len(s) |-> e[i]]
  OBVIOUS
<1> HIDE DEF e
<1>4. \A i \in 1..Len(s) : g[i] = e[i]
  BY <1>1
<1>5. QED
  BY <1>1, <1>2, <1>3, <1>4, Zenon

\* What is put together, piece by piece.
LEMMA FlattenedSteps ==
  ASSUME NEW S, NEW s \in Seq(Seq(S)), s # << >>
  PROVE  \E g \in [1..Len(s) -> Seq(S)] :
           /\ g[1] = s[1] /\ \A i \in 1..Len(s) : i # 1 => g[i] = g[i - 1] \o s[i]
           /\ Flattened(s) = g[Len(s)]
<1> DEFINE n == Len(s)
           V == Seq(S)
           Body(g, i) == IF i = 1 THEN s[i] ELSE g[i - 1] \o s[i]
           Near == [i \in 1..n |-> IF i = 1 THEN {} ELSE {i - 1}]
           F == [i \in 1..n |-> [g \in [1..n -> V] |-> Body(g, i)]]
           r == [i \in 1..n |-> i]
           Fix(g) == g = [i \in 1..n |-> Body(g, i)]
           H == CHOOSE g : Fix(g)
<1>1. n \in Nat \ {0} /\ \A i \in 1..n : s[i] \in V
  OBVIOUS
<1>2. V # {}
  BY <1>1
<1>3. Near \in [1..n -> SUBSET (1..n)]
  BY <1>1
<1>4. r \in [1..n -> Nat] /\ n + 1 \in Nat /\ \A i \in 1..n : r[i] < n + 1
  BY <1>1
<1>5. \A i \in 1..n : \A j \in Near[i] : r[j] < r[i]
  BY <1>1
<1>6. \A g \in [1..n -> V] : \A i \in 1..n : Body(g, i) \in V
  <2> TAKE g \in [1..n -> V]
  <2> TAKE i \in 1..n
  <2>1. i # 1 => i - 1 \in 1..n
    BY <1>1
  <2>2. i # 1 => g[i - 1] \in Seq(S)
    BY <2>1
  <2>3. s[i] \in Seq(S)
    BY <1>1
  <2>4. \A a, b \in Seq(S) : a \o b \in Seq(S)
    OBVIOUS
  <2>5. QED
    BY <2>2, <2>3, <2>4
<1>7. F \in [1..n -> [[1..n -> V] -> V]]
  BY <1>6
<1>8. \A i \in 1..n : \A g, h \in [1..n -> V] : (\A j \in Near[i] : g[j] = h[j]) => F[i][g] = F[i][h]
  OBVIOUS
<1>9. Flattened(s) = H[n]
  BY DEF Flattened, IsFlatten
<1>10. \A g \in [1..n -> V] : \A i \in 1..n : F[i][g] = Body(g, i)
  OBVIOUS
<1> HIDE DEF F, Near, r, V, H
<1>11. PICK g \in [1..n -> V] : \A i \in 1..n : g[i] = F[i][g]
  <2>1. Recursive(1..n, V, Near, r, n + 1, F)
    BY <1>2, <1>3, <1>4, <1>5, <1>7, <1>8 DEF Recursive
  <2>2. PICK I, W, near, rank, b, G :
          I = 1..n /\ W = V /\ near = Near /\ rank = r /\ b = n + 1 /\ G = F
    OBVIOUS
  <2>3. Recursive(I, W, near, rank, b, G)
    BY <2>1, <2>2
  <2>4. \E g \in [I -> W] : \A i \in I : g[i] = G[i][g]
    BY <2>3, RecursionExists
  <2>5. QED
    BY <2>2, <2>4
<1>12. Fix(g)
  <2>1. \A i \in 1..n : g[i] = Body(g, i)
    BY <1>10, <1>11
  <2>2. QED
    BY <2>1
<1>13. IsFlatten(H, s)
  <2>1. Fix(H)
    BY <1>12 DEF H
  <2>2. QED
    BY <2>1 DEF IsFlatten
<1> HIDE DEF Fix, Body
<1>14. /\ \A i \in 1..n : H[i] = IF i = 1 THEN s[i] ELSE H[i - 1] \o s[i]
       /\ \E e : H = [i \in 1..n |-> e[i]]
  BY <1>13, FlattenUnrolled
<1> DEFINE odd == {i \in 1..n : H[i] \notin V}
<1>15. odd = {}
  <2> SUFFICES ASSUME odd # {} PROVE FALSE
    OBVIOUS
  <2>1. PICK i \in odd : \A j \in odd : i =< j
    <3>1. odd \subseteq Nat
      OBVIOUS
    <3> HIDE DEF odd
    <3>2. QED
      BY <3>1, MinExists
  <2>2. i # 1
    BY <1>1, <1>14
  <2>3. i - 1 \in 1..n /\ ~(i =< i - 1)
    BY <1>1, <2>2
  <2>4. H[i - 1] \in V
    BY <2>1, <2>3
  <2>5. H[i] = H[i - 1] \o s[i] /\ s[i] \in V
    BY <1>1, <1>14, <2>2
  <2>6. \A a, b \in V : a \o b \in V
    BY DEF V
  <2>7. QED
    BY <2>4, <2>5, <2>6
<1>16. H \in [1..n -> Seq(S)]
  <2>1. \A i \in 1..n : H[i] \in Seq(S)
    BY <1>15 DEF V
  <2>2. QED
    BY <1>14, <2>1
<1>17. H[1] = s[1] /\ \A i \in 1..n : i # 1 => H[i] = H[i - 1] \o s[i]
  <2>1. 1 \in 1..n
    BY <1>1
  <2> HIDE DEF n
  <2>2. QED
    BY <1>14, <2>1, Zenon
<1> HIDE DEF odd
<1>18. QED
  BY <1>9, <1>16, <1>17

=============================================================================
