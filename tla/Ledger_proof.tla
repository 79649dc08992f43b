------------------------------ MODULE Ledger_proof ------------------------------
(***************************************************************************)
(* Sums, as Ledger forms them from the fold of the community modules: what   *)
(* they are over any finite set, how they change with one value, and what    *)
(* the entries of a transaction come to.  The induction over finite sets is  *)
(* by a least counterexample.                                                *)
(***************************************************************************)
EXTENDS Ledger, FiniteSetTheorems, TLAPS, WellFoundedInduction

-----------------------------------------------------------------------------
(* Least counterexamples *)

\* Among finite sets there is one that contains no other of them.
LEMMA LeastSet ==
  ASSUME NEW Bad, Bad # {}, \A s \in Bad : IsFiniteSet(s)
  PROVE  \E s \in Bad : \A t \in Bad : t \subseteq s => t = s
<1> DEFINE sizes == {Cardinality(s) : s \in Bad}
<1>1. sizes \subseteq Nat /\ sizes # {}
  BY FS_CardinalityType
<1>2. PICK n \in sizes : \A m \in sizes : ~(<<m, n>> \in OpToRel(<, Nat))
  BY <1>1, NatLessThanWellFounded, WFMin
<1>3. \A m \in sizes : m \in Nat /\ n \in Nat /\ ~(m < n)
  BY <1>1, <1>2 DEF OpToRel
<1>4. PICK s \in Bad : Cardinality(s) = n
  OBVIOUS
<1>5. ASSUME NEW t \in Bad, t \subseteq s
      PROVE  t = s
  <2>1. Cardinality(t) \in sizes
    OBVIOUS
  <2> HIDE DEF sizes
  <2> QED
    BY <1>3, <1>4, <1>5, <2>1, FS_Subset
<1> QED
  BY <1>5

\* A set of numbers has a least one.
LEMMA LeastNumber ==
  ASSUME NEW S \in SUBSET Nat, S # {}
  PROVE  \E n \in S : \A m \in S : n <= m
<1>1. PICK n \in S : \A m \in S : ~(<<m, n>> \in OpToRel(<, Nat))
  BY NatLessThanWellFounded, WFMin
<1>2. \A m \in S : m \in Nat /\ n \in Nat /\ ~(m < n)
  BY <1>1 DEF OpToRel
<1> QED
  BY <1>2

-----------------------------------------------------------------------------
(* The fold *)

Pick(s) == CHOOSE x \in s : TRUE

\* What the fold computes over the subsets of D.
Sums(f, D, h) ==
  h = [s \in SUBSET D |-> IF s = {} THEN 0 ELSE f[Pick(s)] + h[s \ {Pick(s)}]]

Fold(f, D) == CHOOSE h : Sums(f, D, h)

Part(f, D) == Fold(f, D)[D]

LEMMA SumOverPart == \A f : SumOver(f) = Part(f, DOMAIN f)
  BY Zenon DEF SumOver, MapThenSumSet, MapThenFoldSet, Part, Fold, Sums, Pick

LEMMA PickType == \A s : s # {} => Pick(s) \in s
  BY DEF Pick

LEMMA SumsValue ==
  ASSUME NEW f, NEW D, NEW h, Sums(f, D, h), NEW s \in SUBSET D
  PROVE  h[s] = IF s = {} THEN 0 ELSE f[Pick(s)] + h[s \ {Pick(s)}]
  BY DEF Sums

\* Two of them agree where both are defined.
LEMMA SumsAgree ==
  ASSUME NEW f, NEW D, NEW E, NEW h, NEW g, Sums(f, D, h), Sums(f, E, g),
         NEW s, s \subseteq D, s \subseteq E, IsFiniteSet(s)
  PROVE  h[s] = g[s]
<1> DEFINE Bad == {t \in SUBSET s : h[t] # g[t]}
<1> SUFFICES ASSUME Bad # {}
             PROVE  FALSE
  OBVIOUS
<1>1. PICK t \in Bad : \A u \in Bad : u \subseteq t => u = t
  <2>1. \A u \in Bad : IsFiniteSet(u)
    BY FS_Subset
  <2> HIDE DEF Bad
  <2> QED
    BY <2>1, LeastSet
<1>i. t \in SUBSET s /\ h[t] # g[t]
  BY <1>1
<1>2. t # {} /\ t \in SUBSET D /\ t \in SUBSET E
  <2>1. t \in SUBSET D /\ t \in SUBSET E
    BY <1>i
  <2>2. h[t] = IF t = {} THEN 0 ELSE f[Pick(t)] + h[t \ {Pick(t)}]
    BY <2>1, SumsValue
  <2>3. g[t] = IF t = {} THEN 0 ELSE f[Pick(t)] + g[t \ {Pick(t)}]
    BY <2>1, SumsValue
  <2> QED
    BY <1>i, <2>1, <2>2, <2>3
<1>3. Pick(t) \in t
  BY <1>2, PickType
<1>4. h[t \ {Pick(t)}] = g[t \ {Pick(t)}]
  BY <1>1, <1>3
<1>5. h[t] = g[t]
  BY <1>2, <1>4, SumsValue
<1> QED
  BY <1>1, <1>5

LEMMA FoldExists ==
  ASSUME NEW f, NEW D, IsFiniteSet(D)
  PROVE  Sums(f, D, Fold(f, D))
<1> DEFINE Bad == {s \in SUBSET D : ~\E h : Sums(f, s, h)}
<1>1. ASSUME Bad # {}
      PROVE  FALSE
  <2>1. PICK s \in Bad : \A t \in Bad : t \subseteq s => t = s
    <3>1. \A s \in Bad : IsFiniteSet(s)
      BY FS_Subset
    <3> HIDE DEF Bad
    <3> QED
      BY <1>1, <3>1, LeastSet
  <2>2. ASSUME NEW t \in SUBSET s, t # s
        PROVE  Sums(f, t, Fold(f, t))
    BY <2>1, <2>2 DEF Fold
  <2> DEFINE h == [t \in SUBSET s |->
                     IF t = {} THEN 0 ELSE f[Pick(t)] + Part(f, t \ {Pick(t)})]
  <2>3. ASSUME NEW t \in SUBSET s, t # s
        PROVE  h[t] = Part(f, t)
    <3>1. Sums(f, t, Fold(f, t)) /\ IsFiniteSet(t)
      BY <2>2, <2>3, FS_Subset
    <3>2. CASE t = {}
      BY <3>1, <3>2, SumsValue DEF Part
    <3>3. CASE t # {}
      <4> DEFINE u == t \ {Pick(t)}
      <4>1. Pick(t) \in t /\ u \in SUBSET s /\ u # s /\ u \subseteq t /\ IsFiniteSet(u)
        BY <3>1, <3>3, PickType, FS_Subset
      <4>2. Sums(f, u, Fold(f, u))
        BY <2>2, <4>1
      <4> HIDE DEF u
      <4>3. Fold(f, t)[u] = Fold(f, u)[u]
        BY <3>1, <4>1, <4>2, SumsAgree
      <4>4. Fold(f, t)[t] = f[Pick(t)] + Fold(f, t)[u]
        BY <3>1, <3>3, SumsValue DEF u
      <4> QED
        BY <3>3, <4>3, <4>4 DEF Part, u
    <3> QED
      BY <3>2, <3>3
  <2>4. \A t \in SUBSET s : t # {} => h[t \ {Pick(t)}] = Part(f, t \ {Pick(t)})
    BY <2>3, PickType
  <2>5. Sums(f, s, h)
    BY <2>4 DEF Sums
  <2> QED
    BY <2>1, <2>5
<1>2. \E h : Sums(f, D, h)
  BY <1>1
<1> QED
  BY <1>2 DEF Fold

LEMMA PartValue ==
  ASSUME NEW f, NEW S, IsFiniteSet(S)
  PROVE  /\ S = {} => Part(f, S) = 0
         /\ S # {} => Part(f, S) = f[Pick(S)] + Part(f, S \ {Pick(S)})
<1>1. Sums(f, S, Fold(f, S))
  BY FoldExists
<1>2. CASE S = {}
  BY <1>1, <1>2, SumsValue DEF Part
<1>3. CASE S # {}
  <2> DEFINE u == S \ {Pick(S)}
  <2>1. Pick(S) \in S /\ u \subseteq S /\ IsFiniteSet(u)
    BY <1>3, PickType, FS_Subset
  <2>2. Sums(f, u, Fold(f, u))
    BY <2>1, FoldExists
  <2> HIDE DEF u
  <2>3. Fold(f, S)[u] = Fold(f, u)[u]
    BY <1>1, <2>1, <2>2, SumsAgree
  <2>4. Fold(f, S)[S] = f[Pick(S)] + Fold(f, S)[u]
    BY <1>1, <1>3, SumsValue DEF u
  <2> QED
    BY <1>3, <2>3, <2>4 DEF Part, u
<1> QED
  BY <1>2, <1>3

LEMMA PartEmpty == \A f : Part(f, {}) = 0
<1> SUFFICES ASSUME NEW f
             PROVE  Part(f, {}) = 0
  OBVIOUS
<1>1. PICK none : none = {}
  OBVIOUS
<1>2. IsFiniteSet(none)
  BY <1>1, FS_EmptySet
<1> QED
  BY <1>1, <1>2, PartValue

LEMMA PartType ==
  ASSUME NEW f, NEW S, IsFiniteSet(S), \A x \in S : f[x] \in Int
  PROVE  Part(f, S) \in Int
<1> DEFINE Bad == {s \in SUBSET S : Part(f, s) \notin Int}
<1> SUFFICES ASSUME Bad # {}
             PROVE  FALSE
  OBVIOUS
<1>1. PICK s \in Bad : \A t \in Bad : t \subseteq s => t = s
  <2>1. \A s \in Bad : IsFiniteSet(s)
    BY FS_Subset
  <2> HIDE DEF Bad
  <2> QED
    BY <2>1, LeastSet
<1>2. s \in SUBSET S /\ Part(f, s) \notin Int /\ IsFiniteSet(s)
  BY <1>1, FS_Subset
<1>3. s # {}
  BY <1>2, PartEmpty
<1>4. Pick(s) \in s /\ Part(f, s \ {Pick(s)}) \in Int
  BY <1>1, <1>2, <1>3, PickType
<1> QED
  BY <1>2, <1>3, <1>4, PartValue

\* The order in which the fold picks does not matter.
LEMMA PartRemove ==
  ASSUME NEW f, NEW S, IsFiniteSet(S), \A x \in S : f[x] \in Int, NEW x \in S
  PROVE  Part(f, S) = f[x] + Part(f, S \ {x})
<1> DEFINE Bad == {s \in SUBSET S : \E y \in s : Part(f, s) # f[y] + Part(f, s \ {y})}
<1> SUFFICES ASSUME Bad # {}
             PROVE  FALSE
  OBVIOUS
<1>1. PICK s \in Bad : \A t \in Bad : t \subseteq s => t = s
  <2>1. \A s \in Bad : IsFiniteSet(s)
    BY FS_Subset
  <2> HIDE DEF Bad
  <2> QED
    BY <2>1, LeastSet
<1>2. PICK y \in s : Part(f, s) # f[y] + Part(f, s \ {y})
  BY <1>1
<1>3. s \in SUBSET S /\ IsFiniteSet(s) /\ \A t \in SUBSET s : IsFiniteSet(t)
  BY <1>1, FS_Subset
<1> DEFINE z == Pick(s)
<1>4. z \in s /\ Part(f, s) = f[z] + Part(f, s \ {z})
  BY <1>2, <1>3, PickType, PartValue
<1> HIDE DEF z
<1>5. y # z
  BY <1>2, <1>4
<1>6. \A t \in SUBSET s : t # s => \A w \in t : Part(f, t) = f[w] + Part(f, t \ {w})
  BY <1>1, <1>3
<1>7. Part(f, s \ {z}) = f[y] + Part(f, (s \ {z}) \ {y})
  BY <1>4, <1>5, <1>6
<1>8. Part(f, s \ {y}) = f[z] + Part(f, (s \ {y}) \ {z})
  BY <1>2, <1>4, <1>5, <1>6
<1>9. PICK rest : rest = (s \ {y}) \ {z} /\ rest = (s \ {z}) \ {y}
  OBVIOUS
<1>10. Part(f, rest) \in Int /\ f[y] \in Int /\ f[z] \in Int
  <2>1. IsFiniteSet(rest) /\ \A w \in rest : f[w] \in Int
    BY <1>3, <1>9
  <2> QED
    BY <1>3, <1>4, <2>1, PartType
<1>11. Part(f, s) = f[z] + (f[y] + Part(f, rest)) /\ Part(f, s \ {y}) = f[z] + Part(f, rest)
  BY <1>4, <1>7, <1>8, <1>9
<1> QED
  BY <1>2, <1>10, <1>11

\* A sum is that of the values alone, and grows with them.
LEMMA PartGrows ==
  ASSUME NEW f, NEW g, NEW S, IsFiniteSet(S),
         \A x \in S : f[x] \in Int /\ g[x] \in Int /\ f[x] <= g[x]
  PROVE  Part(f, S) <= Part(g, S)
<1> DEFINE Bad == {s \in SUBSET S : ~(Part(f, s) <= Part(g, s))}
<1> SUFFICES ASSUME Bad # {}
             PROVE  FALSE
  OBVIOUS
<1>1. PICK s \in Bad : \A t \in Bad : t \subseteq s => t = s
  <2>1. \A s \in Bad : IsFiniteSet(s)
    BY FS_Subset
  <2> HIDE DEF Bad
  <2> QED
    BY <2>1, LeastSet
<1>2. s \in SUBSET S /\ ~(Part(f, s) <= Part(g, s)) /\ IsFiniteSet(s)
  BY <1>1, FS_Subset
<1>3. s # {}
  BY <1>2, PartEmpty
<1> DEFINE x == Pick(s)
           r == s \ {Pick(s)}
<1>4. x \in S /\ r \in SUBSET S /\ IsFiniteSet(r) /\ Part(f, r) <= Part(g, r)
  BY <1>1, <1>2, <1>3, PickType, FS_Subset
<1>5. Part(f, s) = f[x] + Part(f, r) /\ Part(g, s) = g[x] + Part(g, r)
  BY <1>2, <1>3, PartValue
<1> HIDE DEF x, r
<1>6. Part(f, r) \in Int /\ Part(g, r) \in Int
  <2>1. \A y \in r : f[y] \in Int /\ g[y] \in Int
    BY <1>4
  <2> QED
    BY <1>4, <2>1, PartType
<1>7. f[x] \in Int /\ g[x] \in Int /\ f[x] <= g[x]
  BY <1>4
<1>8. Part(f, s) <= Part(g, s)
  BY <1>4, <1>5, <1>6, <1>7
<1> QED
  BY <1>2, <1>8

LEMMA PartSame ==
  ASSUME NEW f, NEW g, NEW S, IsFiniteSet(S), \A x \in S : f[x] \in Int /\ g[x] = f[x]
  PROVE  Part(g, S) = Part(f, S)
<1>1. Part(f, S) <= Part(g, S) /\ Part(g, S) <= Part(f, S)
  BY PartGrows
<1>2. Part(f, S) \in Int /\ Part(g, S) \in Int
  BY PartType
<1> QED
  BY <1>1, <1>2

LEMMA PartAdds ==
  ASSUME NEW f, NEW g, NEW h, NEW S, IsFiniteSet(S),
         \A x \in S : f[x] \in Int /\ g[x] \in Int /\ h[x] = f[x] + g[x]
  PROVE  Part(h, S) = Part(f, S) + Part(g, S)
<1> DEFINE Bad == {s \in SUBSET S : Part(h, s) # Part(f, s) + Part(g, s)}
<1> SUFFICES ASSUME Bad # {}
             PROVE  FALSE
  OBVIOUS
<1>1. PICK s \in Bad : \A t \in Bad : t \subseteq s => t = s
  <2>1. \A s \in Bad : IsFiniteSet(s)
    BY FS_Subset
  <2> HIDE DEF Bad
  <2> QED
    BY <2>1, LeastSet
<1>2. s \in SUBSET S /\ Part(h, s) # Part(f, s) + Part(g, s) /\ IsFiniteSet(s)
  BY <1>1, FS_Subset
<1>3. s # {}
  <2>1. Part(h, {}) = 0 /\ Part(f, {}) = 0 /\ Part(g, {}) = 0
    BY PartEmpty
  <2>2. ASSUME s = {}
        PROVE  FALSE
    <3>1. Part(h, s) = 0 /\ Part(f, s) = 0 /\ Part(g, s) = 0
      BY <2>1, <2>2
    <3> QED
      BY <1>2, <3>1
  <2> QED
    BY <2>2
<1> DEFINE x == Pick(s)
           r == s \ {Pick(s)}
<1>4. x \in S /\ r \in SUBSET S /\ IsFiniteSet(r) /\ Part(h, r) = Part(f, r) + Part(g, r)
  BY <1>1, <1>2, <1>3, PickType, FS_Subset
<1>5. /\ Part(f, s) = f[x] + Part(f, r) /\ Part(g, s) = g[x] + Part(g, r)
      /\ Part(h, s) = h[x] + Part(h, r)
  BY <1>2, <1>3, PartValue
<1> HIDE DEF x, r
<1>6. Part(f, r) \in Int /\ Part(g, r) \in Int
  <2>1. \A y \in r : f[y] \in Int /\ g[y] \in Int
    BY <1>4
  <2> QED
    BY <1>4, <2>1, PartType
<1>7. f[x] \in Int /\ g[x] \in Int /\ h[x] = f[x] + g[x]
  BY <1>4
<1>8. Part(h, s) = Part(f, s) + Part(g, s)
  BY <1>4, <1>5, <1>6, <1>7
<1> QED
  BY <1>2, <1>8

\* A sum of what is not negative grows with the set it is over.
LEMMA PartWider ==
  ASSUME NEW f, NEW T, IsFiniteSet(T), \A x \in T : f[x] \in Nat, NEW S \in SUBSET T
  PROVE  Part(f, S) <= Part(f, T)
<1> DEFINE Bad == {t \in SUBSET T : S \subseteq t /\ ~(Part(f, S) <= Part(f, t))}
<1> SUFFICES ASSUME Bad # {}
             PROVE  FALSE
  OBVIOUS
<1>1. PICK t \in Bad : \A u \in Bad : u \subseteq t => u = t
  <2>1. \A u \in Bad : IsFiniteSet(u)
    BY FS_Subset
  <2> HIDE DEF Bad
  <2> QED
    BY <2>1, LeastSet
<1>2. t \in SUBSET T /\ S \subseteq t /\ ~(Part(f, S) <= Part(f, t)) /\ IsFiniteSet(t) /\ IsFiniteSet(S)
  BY <1>1, FS_Subset
<1>3. Part(f, S) \in Int
  <2>1. \A x \in S : f[x] \in Int
    OBVIOUS
  <2> QED BY <1>2, <2>1, PartType
<1>4. PICK y \in t : y \notin S
  <2>1. t # S
    BY <1>2, <1>3
  <2> QED BY <1>2, <2>1
<1> DEFINE r == t \ {y}
<1>5. r \in SUBSET T /\ S \subseteq r /\ r \subseteq t /\ r # t
  BY <1>2, <1>4
<1>6. Part(f, S) <= Part(f, r)
  BY <1>1, <1>5
<1>7. Part(f, t) = f[y] + Part(f, r)
  <2>1. \A x \in t : f[x] \in Int
    BY <1>2
  <2> QED BY <1>2, <1>4, <2>1, PartRemove
<1>8. Part(f, r) \in Int /\ f[y] \in Nat
  <2>1. IsFiniteSet(r) /\ \A x \in r : f[x] \in Int
    BY <1>2, <1>5, FS_Subset
  <2> QED BY <1>2, <2>1, PartType
<1> HIDE DEF r
<1> QED
  BY <1>2, <1>3, <1>6, <1>7, <1>8

\* Each member under another name m[x], with the value it had: the sum is the same.
LEMMA PartRenamed ==
  ASSUME NEW f, NEW g, NEW S, IsFiniteSet(S), NEW m,
         \A x \in S : f[x] \in Int /\ g[m[x]] = f[x],
         \A x, y \in S : m[x] = m[y] => x = y,
         NEW T, \A x \in S : m[x] \in T, \A y \in T : \E x \in S : y = m[x]
  PROVE  IsFiniteSet(T) /\ Part(g, T) = Part(f, S)
<1> DEFINE Named(s) == {m[x] : x \in s}
           Bad == {s \in SUBSET S : ~(IsFiniteSet(Named(s)) /\ Part(g, Named(s)) = Part(f, s))}
<1> SUFFICES ASSUME Bad # {}
             PROVE  FALSE
  <2>1. T = Named(S)
    OBVIOUS
  <2>2. S \notin Bad => IsFiniteSet(Named(S)) /\ Part(g, Named(S)) = Part(f, S)
    OBVIOUS
  <2> QED BY <2>1, <2>2
<1>1. PICK s \in Bad : \A t \in Bad : t \subseteq s => t = s
  <2>1. \A s \in Bad : IsFiniteSet(s)
    BY FS_Subset
  <2> HIDE DEF Bad
  <2> QED
    BY <2>1, LeastSet
<1>2. s \in SUBSET S /\ ~(IsFiniteSet(Named(s)) /\ Part(g, Named(s)) = Part(f, s)) /\ IsFiniteSet(s)
  BY <1>1, FS_Subset
<1>3. s # {}
  <2>1. ASSUME s = {}
        PROVE  FALSE
    <3>1. Named(s) = {} /\ Part(f, {}) = 0 /\ Part(g, {}) = 0
      BY <2>1, PartEmpty
    <3>2. IsFiniteSet({})
      BY FS_EmptySet
    <3> QED BY <1>2, <2>1, <3>1, <3>2
  <2> QED BY <2>1
<1>4. PICK y \in s : TRUE
  BY <1>3
<1> DEFINE r == s \ {y}
<1>5. r \in SUBSET S /\ r \notin Bad
  BY <1>1, <1>2, <1>4
<1>6. IsFiniteSet(Named(r)) /\ Part(g, Named(r)) = Part(f, r)
  BY <1>5
<1>7. Named(s) = Named(r) \cup {m[y]} /\ m[y] \notin Named(r)
  BY <1>2, <1>4
<1>8. PICK a, b, z : a = Named(r) /\ b = Named(s) /\ z = m[y]
  OBVIOUS
<1>9. IsFiniteSet(b) /\ b \ {z} = a /\ z \in b
  <2>1. IsFiniteSet(a) /\ b = a \cup {z} /\ z \notin a
    BY <1>6, <1>7, <1>8
  <2>2. IsFiniteSet(a \cup {z})
    BY <2>1, FS_AddElement
  <2> QED BY <2>1, <2>2
<1>10. Part(f, s) = f[y] + Part(f, r) /\ Part(g, b) = g[z] + Part(g, a)
  <2>1. \A x \in s : f[x] \in Int
    BY <1>2
  <2>2. \A x \in b : g[x] \in Int
    BY <1>2, <1>8
  <2>3. Part(f, s) = f[y] + Part(f, r)
    BY <1>2, <1>4, <2>1, PartRemove
  <2>4. Part(g, b) = g[z] + Part(g, b \ {z})
    BY <1>9, <2>2, PartRemove
  <2> QED BY <1>9, <2>3, <2>4
<1>11. g[z] = f[y] /\ Part(g, a) = Part(f, r)
  BY <1>2, <1>4, <1>6, <1>8
<1>12. IsFiniteSet(b) /\ Part(g, b) = Part(f, s)
  BY <1>9, <1>10, <1>11
<1> QED
  BY <1>2, <1>8, <1>12

\* The same value for each.
LEMMA PartConstant ==
  ASSUME NEW f, NEW S, IsFiniteSet(S), NEW k \in Int, \A x \in S : f[x] = k
  PROVE  Part(f, S) = k * Cardinality(S)
<1> DEFINE Bad == {s \in SUBSET S : Part(f, s) # k * Cardinality(s)}
<1> SUFFICES ASSUME Bad # {}
             PROVE  FALSE
  OBVIOUS
<1>1. PICK s \in Bad : \A t \in Bad : t \subseteq s => t = s
  <2>1. \A s \in Bad : IsFiniteSet(s)
    BY FS_Subset
  <2> HIDE DEF Bad
  <2> QED
    BY <2>1, LeastSet
<1>2. s \in SUBSET S /\ Part(f, s) # k * Cardinality(s) /\ IsFiniteSet(s)
  BY <1>1, FS_Subset
<1>3. s # {}
  <2>1. ASSUME s = {}
        PROVE  FALSE
    <3>1. Part(f, s) = 0
      BY <2>1, PartEmpty
    <3>2. Cardinality(s) = 0
      BY <2>1, FS_EmptySet
    <3> QED BY <1>2, <3>1, <3>2
  <2> QED BY <2>1
<1>4. PICK y \in s : TRUE
  BY <1>3
<1> DEFINE r == s \ {y}
<1>5. r \in SUBSET S /\ IsFiniteSet(r) /\ Part(f, r) = k * Cardinality(r)
  BY <1>1, <1>2, <1>4, FS_Subset
<1>6. Part(f, s) = k + Part(f, r)
  <2>1. (\A x \in s : f[x] \in Int) /\ f[y] = k
    BY <1>2, <1>4
  <2> QED BY <1>2, <1>4, <2>1, PartRemove
<1>7. Cardinality(r) = Cardinality(s) - 1 /\ Cardinality(s) \in Nat
  BY <1>2, <1>4, FS_RemoveElement, FS_CardinalityType
<1> HIDE DEF r
<1>8. k + k * (Cardinality(s) - 1) = k * Cardinality(s)
  BY <1>7
<1> QED
  BY <1>2, <1>5, <1>6, <1>7, <1>8

-----------------------------------------------------------------------------
(* Sums of functions *)

\* A function that may be summed.
Summable(f) == IsFiniteSet(DOMAIN f) /\ \A x \in DOMAIN f : f[x] \in Int

LEMMA SumType ==
  ASSUME NEW f, Summable(f)
  PROVE  SumOver(f) \in Int
  BY SumOverPart, PartType DEF Summable

\* One value changes: the sum changes by as much.
LEMMA SumChange ==
  ASSUME NEW f, Summable(f), NEW g, Summable(g), DOMAIN g = DOMAIN f,
         NEW x \in DOMAIN f, \A y \in DOMAIN f \ {x} : g[y] = f[y]
  PROVE  SumOver(g) = SumOver(f) + (g[x] - f[x])
<1> DEFINE S == DOMAIN f
           rest == S \ {x}
<1>1. Part(f, S) = f[x] + Part(f, rest) /\ Part(g, S) = g[x] + Part(g, rest)
  BY PartRemove DEF Summable
<1>2. IsFiniteSet(rest) /\ \A y \in rest : f[y] \in Int /\ g[y] = f[y]
  BY FS_Subset DEF Summable
<1>3. SumOver(f) = Part(f, S) /\ SumOver(g) = Part(g, S)
  BY SumOverPart
<1>4. f[x] \in Int /\ g[x] \in Int
  BY DEF Summable
<1> HIDE DEF S, rest
<1>5. Part(f, rest) \in Int /\ Part(g, rest) = Part(f, rest)
  BY <1>2, PartType, PartSame
<1> QED
  BY <1>1, <1>3, <1>4, <1>5

LEMMA SumSame ==
  ASSUME NEW f, Summable(f), NEW g, DOMAIN g = DOMAIN f, \A x \in DOMAIN f : g[x] = f[x]
  PROVE  SumOver(g) = SumOver(f)
  BY SumOverPart, PartSame DEF Summable

LEMMA SumGrows ==
  ASSUME NEW f, Summable(f), NEW g, Summable(g), DOMAIN g = DOMAIN f,
         \A x \in DOMAIN f : f[x] <= g[x]
  PROVE  SumOver(f) <= SumOver(g)
  BY SumOverPart, PartGrows DEF Summable

\* Sums of nothing, and of zeros.
LEMMA SumZero ==
  ASSUME NEW f, IsFiniteSet(DOMAIN f), \A x \in DOMAIN f : f[x] = 0
  PROVE  SumOver(f) = 0
<1> DEFINE S == DOMAIN f
<1>1. Part(f, S) = Part(f, S) + Part(f, S)
  BY PartAdds
<1>2. Part(f, S) \in Int
  BY PartType
<1>3. SumOver(f) = Part(f, S)
  BY SumOverPart
<1>4. PICK total \in Int : total = Part(f, S)
  BY <1>2
<1>5. total = total + total
  BY <1>1, <1>4
<1>6. total = 0
  BY <1>5
<1> QED
  BY <1>3, <1>4, <1>6

LEMMA SumAdds ==
  ASSUME NEW f, Summable(f), NEW g, Summable(g), NEW h,
         DOMAIN g = DOMAIN f, DOMAIN h = DOMAIN f,
         \A x \in DOMAIN f : h[x] = f[x] + g[x]
  PROVE  SumOver(h) = SumOver(f) + SumOver(g)
  BY SumOverPart, PartAdds DEF Summable

-----------------------------------------------------------------------------
(* The entries of a transaction *)

LEMMA SumOfTwo ==
  ASSUME NEW f, DOMAIN f = 1..2, f[1] \in Int, f[2] \in Int
  PROVE  SumOver(f) = f[1] + f[2]
<1>1. 1..2 = {1, 2} /\ {1, 2} \ {1} = {2} /\ {2} \ {2} = {}
  OBVIOUS
<1>2. IsFiniteSet({1, 2}) /\ IsFiniteSet({2})
  <2>1. IsFiniteSet(1..2)
    <3>1. 1 \in Int /\ 2 \in Int
      OBVIOUS
    <3> QED
      BY <3>1, FS_Interval
  <2> QED
    BY <1>1, <2>1, FS_Singleton
<1>3. Part(f, {1, 2}) = f[1] + Part(f, {2})
  BY <1>1, <1>2, PartRemove
<1>4. Part(f, {2}) = f[2] + Part(f, {})
  BY <1>1, <1>2, PartRemove
<1> QED
  BY <1>1, <1>3, <1>4, PartEmpty, SumOverPart

LEMMA SumOfThree ==
  ASSUME NEW f, DOMAIN f = 1..3, \A i \in 1..3 : f[i] \in Int
  PROVE  SumOver(f) = f[1] + f[2] + f[3]
<1>1. /\ 1..3 = {1, 2, 3} /\ {1, 2, 3} \ {1} = {2, 3}
      /\ {2, 3} \ {2} = {3} /\ {3} \ {3} = {}
  OBVIOUS
<1>2. IsFiniteSet({1, 2, 3}) /\ IsFiniteSet({2, 3}) /\ IsFiniteSet({3})
  <2>1. IsFiniteSet(1..3)
    <3>1. 1 \in Int /\ 3 \in Int
      OBVIOUS
    <3> QED
      BY <3>1, FS_Interval
  <2>2. {2, 3} \subseteq 1..3 /\ {3} \subseteq 1..3
    OBVIOUS
  <2> QED
    BY <1>1, <2>1, <2>2, FS_Subset
<1>3. Part(f, {1, 2, 3}) = f[1] + Part(f, {2, 3})
  BY <1>1, <1>2, PartRemove
<1>4. Part(f, {2, 3}) = f[2] + Part(f, {3})
  BY <1>1, <1>2, PartRemove
<1>5. Part(f, {3}) = f[3] + Part(f, {})
  BY <1>1, <1>2, PartRemove
<1>6. f[1] \in Int /\ f[2] \in Int /\ f[3] \in Int
  OBVIOUS
<1> QED
  BY <1>1, <1>3, <1>4, <1>5, <1>6, PartEmpty, SumOverPart

LEMMA SumOfFour ==
  ASSUME NEW f, DOMAIN f = 1..4, \A i \in 1..4 : f[i] \in Int
  PROVE  SumOver(f) = f[1] + f[2] + f[3] + f[4]
<1>1. /\ 1..4 = {1, 2, 3, 4} /\ {1, 2, 3, 4} \ {1} = {2, 3, 4}
      /\ {2, 3, 4} \ {2} = {3, 4} /\ {3, 4} \ {3} = {4} /\ {4} \ {4} = {}
  OBVIOUS
<1>2. IsFiniteSet({1, 2, 3, 4}) /\ IsFiniteSet({2, 3, 4}) /\ IsFiniteSet({3, 4}) /\ IsFiniteSet({4})
  <2>1. IsFiniteSet(1..4)
    <3>1. 1 \in Int /\ 4 \in Int
      OBVIOUS
    <3> QED
      BY <3>1, FS_Interval
  <2>2. {2, 3, 4} \subseteq 1..4 /\ {3, 4} \subseteq 1..4 /\ {4} \subseteq 1..4
    OBVIOUS
  <2> QED
    BY <1>1, <2>1, <2>2, FS_Subset
<1>3. Part(f, {1, 2, 3, 4}) = f[1] + Part(f, {2, 3, 4})
  BY <1>1, <1>2, PartRemove
<1>4. Part(f, {2, 3, 4}) = f[2] + Part(f, {3, 4})
  BY <1>1, <1>2, PartRemove
<1>5. Part(f, {3, 4}) = f[3] + Part(f, {4})
  BY <1>1, <1>2, PartRemove
<1>6. Part(f, {4}) = f[4] + Part(f, {})
  BY <1>1, <1>2, PartRemove
<1>7. f[1] \in Int /\ f[2] \in Int /\ f[3] \in Int /\ f[4] \in Int
  OBVIOUS
<1> QED
  BY <1>1, <1>3, <1>4, <1>5, <1>6, <1>7, PartEmpty, SumOverPart

\* An entry as its account sees it.
Value(e, account) ==
  IF e.account # account THEN 0 ELSE IF e.direction = "CREDIT" THEN e.amount ELSE -e.amount

LEMMA NetOfNone == \A account : NetOf(<<>>, account) = 0
<1> SUFFICES ASSUME NEW account
             PROVE  NetOf(<<>>, account) = 0
  OBVIOUS
<1> DEFINE f == [i \in DOMAIN <<>> |-> Value(<<>>[i], account)]
<1>1. DOMAIN f = {}
  OBVIOUS
<1>2. SumOver(f) = 0
  BY <1>1, SumOverPart, PartEmpty
<1> QED
  BY <1>2 DEF NetOf, Value

LEMMA NetOfTwo ==
  ASSUME NEW a, NEW b, NEW account, a.amount \in Int, b.amount \in Int
  PROVE  NetOf(<<a, b>>, account) = Value(a, account) + Value(b, account)
<1> DEFINE f == [i \in DOMAIN <<a, b>> |-> Value(<<a, b>>[i], account)]
<1>1. DOMAIN f = 1..2 /\ f[1] = Value(a, account) /\ f[2] = Value(b, account)
  OBVIOUS
<1>2. f[1] \in Int /\ f[2] \in Int
  BY <1>1 DEF Value
<1> HIDE DEF f
<1>3. SumOver(f) = f[1] + f[2]
  BY <1>1, <1>2, SumOfTwo
<1>4. NetOf(<<a, b>>, account) = SumOver(f)
  BY DEF NetOf, Value, f
<1> QED
  BY <1>1, <1>3, <1>4

LEMMA NetOfThree ==
  ASSUME NEW a, NEW b, NEW c, NEW account,
         a.amount \in Int, b.amount \in Int, c.amount \in Int
  PROVE  NetOf(<<a, b, c>>, account)
           = Value(a, account) + Value(b, account) + Value(c, account)
<1> DEFINE s == <<a, b, c>>
           f == [i \in DOMAIN s |-> Value(s[i], account)]
<1>1. /\ DOMAIN f = 1..3 /\ f[1] = Value(a, account) /\ f[2] = Value(b, account)
      /\ f[3] = Value(c, account)
  OBVIOUS
<1>2. \A i \in 1..3 : f[i] \in Int
  <2>1. Value(a, account) \in Int /\ Value(b, account) \in Int /\ Value(c, account) \in Int
    BY DEF Value
  <2> HIDE DEF f
  <2> QED
    BY <1>1, <2>1
<1> HIDE DEF f
<1>3. SumOver(f) = f[1] + f[2] + f[3]
  BY <1>1, <1>2, SumOfThree
<1>4. NetOf(s, account) = SumOver(f)
  BY DEF NetOf, Value, f
<1> QED
  BY <1>1, <1>3, <1>4

LEMMA NetOfFour ==
  ASSUME NEW a, NEW b, NEW c, NEW d, NEW account,
         a.amount \in Int, b.amount \in Int, c.amount \in Int, d.amount \in Int
  PROVE  NetOf(<<a, b, c, d>>, account)
           = Value(a, account) + Value(b, account) + Value(c, account) + Value(d, account)
<1> DEFINE s == <<a, b, c, d>>
           f == [i \in DOMAIN s |-> Value(s[i], account)]
<1>1. /\ DOMAIN f = 1..4 /\ f[1] = Value(a, account) /\ f[2] = Value(b, account)
      /\ f[3] = Value(c, account) /\ f[4] = Value(d, account)
  OBVIOUS
<1>2. \A i \in 1..4 : f[i] \in Int
  <2>1. /\ Value(a, account) \in Int /\ Value(b, account) \in Int
        /\ Value(c, account) \in Int /\ Value(d, account) \in Int
    BY DEF Value
  <2> HIDE DEF f
  <2> QED
    BY <1>1, <2>1
<1> HIDE DEF f
<1>3. SumOver(f) = f[1] + f[2] + f[3] + f[4]
  BY <1>1, <1>2, SumOfFour
<1>4. NetOf(s, account) = SumOver(f)
  BY DEF NetOf, Value, f
<1> QED
  BY <1>1, <1>3, <1>4

\* An entry that is there only if there is something to post.
LEMMA OptionalEntry ==
  ASSUME NEW a, NEW b, NEW c
  PROVE  <<a, b>> \o <<c>> = <<a, b, c>> /\ <<a, b>> \o <<>> = <<a, b>>
<1> DEFINE E == {a, b, c}
           s == <<a, b>> \o <<c>>
           t == <<a, b>> \o <<>>
<1>1. <<a, b>> \in Seq(E) /\ <<c>> \in Seq(E) /\ <<>> \in Seq(E)
  OBVIOUS
<1>2. s \in Seq(E) /\ t \in Seq(E)
  BY <1>1
<1>3. Len(s) = 3 /\ s[1] = a /\ s[2] = b /\ s[3] = c
  BY <1>1
<1>4. Len(t) = 2 /\ t[1] = a /\ t[2] = b
  BY <1>1
<1> HIDE DEF s, t
<1>5. s = <<a, b, c>>
  BY <1>2, <1>3
<1>6. t = <<a, b>>
  BY <1>2, <1>4
<1> QED
  BY <1>5, <1>6 DEF s, t

\* What account gets when x does.
Weight(account, x, amount) == IF account = x THEN amount ELSE 0

\* The sum of what everybody gets when x gets amount is amount.
LEMMA SumOfWeights ==
  ASSUME NEW S, IsFiniteSet(S), NEW x \in S, NEW n \in Int
  PROVE  SumOver([a \in S |-> Weight(a, x, n)]) = n
<1> DEFINE f == [a \in S |-> 0]
           g == [a \in S |-> Weight(a, x, n)]
<1>1. /\ DOMAIN f = S /\ DOMAIN g = S /\ f[x] = 0 /\ g[x] = n
      /\ \A a \in S : f[a] = 0
      /\ \A a \in S \ {x} : g[a] = 0
  BY DEF Weight
<1>2. Summable(f) /\ Summable(g)
  BY DEF Summable, Weight
<1> HIDE DEF f, g
<1>3. SumOver(f) = 0
  BY <1>1, SumZero
<1>4. SumOver(g) = SumOver(f) + (g[x] - f[x])
  BY <1>1, <1>2, SumChange
<1>5. SumOver(g) = n
  BY <1>1, <1>3, <1>4
<1> QED
  BY <1>5 DEF g

LEMMA NetOfMove ==
  ASSUME NEW x, NEW y, NEW n \in Int, NEW account
  PROVE  NetOf(<<Debit(x, n), Credit(y, n)>>, account) = Weight(account, y, n) - Weight(account, x, n)
<1>1. Debit(x, n).amount \in Int /\ Credit(y, n).amount \in Int
  BY DEF Debit, Credit
<1>2. NetOf(<<Debit(x, n), Credit(y, n)>>, account)
        = Value(Debit(x, n), account) + Value(Credit(y, n), account)
  BY <1>1, NetOfTwo
<1>3. /\ Value(Debit(x, n), account) = -Weight(account, x, n)
      /\ Value(Credit(y, n), account) = Weight(account, y, n)
  BY DEF Value, Weight, Debit, Credit
<1>4. Weight(account, x, n) \in Int /\ Weight(account, y, n) \in Int
  BY DEF Weight
<1> QED
  BY <1>2, <1>3, <1>4

LEMMA NetOfExchange ==
  ASSUME NEW x, NEW y, NEW n \in Int, NEW v, NEW w, NEW m \in Int, NEW account
  PROVE  NetOf(<<Debit(x, n), Credit(y, n), Debit(v, m), Credit(w, m)>>, account)
           = Weight(account, y, n) - Weight(account, x, n)
               + Weight(account, w, m) - Weight(account, v, m)
<1>1. /\ Debit(x, n).amount \in Int /\ Credit(y, n).amount \in Int
      /\ Debit(v, m).amount \in Int /\ Credit(w, m).amount \in Int
  BY DEF Debit, Credit
<1>2. NetOf(<<Debit(x, n), Credit(y, n), Debit(v, m), Credit(w, m)>>, account)
        = Value(Debit(x, n), account) + Value(Credit(y, n), account)
            + Value(Debit(v, m), account) + Value(Credit(w, m), account)
  BY <1>1, NetOfFour
<1>3. /\ Value(Debit(x, n), account) = -Weight(account, x, n)
      /\ Value(Credit(y, n), account) = Weight(account, y, n)
      /\ Value(Debit(v, m), account) = -Weight(account, v, m)
      /\ Value(Credit(w, m), account) = Weight(account, w, m)
  BY DEF Value, Weight, Debit, Credit
<1>4. /\ Weight(account, x, n) \in Int /\ Weight(account, y, n) \in Int
      /\ Weight(account, v, m) \in Int /\ Weight(account, w, m) \in Int
  BY DEF Weight
<1> QED
  BY <1>2, <1>3, <1>4

LEMMA NetType ==
  ASSUME NEW entries, NEW n \in Nat, DOMAIN entries = 1..n,
         \A i \in DOMAIN entries : entries[i].amount \in Int, NEW account
  PROVE  NetOf(entries, account) \in Int
<1> DEFINE f == [i \in DOMAIN entries |-> Value(entries[i], account)]
<1>1. IsFiniteSet(DOMAIN entries)
  <2>1. 1 \in Int /\ n \in Int
    OBVIOUS
  <2> QED
    BY <2>1, FS_Interval
<1>2. Summable(f)
  BY <1>1 DEF Summable, Value
<1> HIDE DEF f
<1>3. SumOver(f) \in Int
  BY <1>2, SumType
<1> QED
  BY <1>3 DEF NetOf, Value, f

-----------------------------------------------------------------------------
(* Journals *)

\* A journal of entries that can be summed up for an account.
Countable(j, account) ==
  IsFiniteSet(DOMAIN j) /\ \A k \in DOMAIN j : NetOf(j[k], account) \in Int

LEMMA HoldingNone ==
  ASSUME NEW j, IsFiniteSet(DOMAIN j), \A k \in DOMAIN j : j[k] = <<>>, NEW account
  PROVE  Holding(j, account) = 0
<1> DEFINE f == [k \in DOMAIN j |-> NetOf(j[k], account)]
<1>1. DOMAIN f = DOMAIN j /\ \A k \in DOMAIN f : f[k] = 0
  BY NetOfNone
<1> HIDE DEF f
<1>2. SumOver(f) = 0
  BY <1>1, SumZero
<1> QED
  BY <1>2 DEF Holding, f

LEMMA HoldingType ==
  ASSUME NEW j, NEW account, Countable(j, account)
  PROVE  Holding(j, account) \in Int
<1> DEFINE f == [k \in DOMAIN j |-> NetOf(j[k], account)]
<1>1. Summable(f)
  BY DEF Summable, Countable
<1> HIDE DEF f
<1>2. SumOver(f) \in Int
  BY <1>1, SumType
<1> QED
  BY <1>2 DEF Holding, f

\* postTransaction adds what its entries come to, or nothing.
LEMMA HoldingRecord ==
  ASSUME NEW j, NEW account, Countable(j, account), NEW key \in DOMAIN j,
         NEW entries, NetOf(entries, account) \in Int
  PROVE  /\ Countable(Record(j, key, entries), account)
         /\ Holding(Record(j, key, entries), account)
              = Holding(j, account) + (IF j[key] = <<>> THEN NetOf(entries, account) ELSE 0)
<1>1. CASE j[key] # <<>>
  <2>1. Record(j, key, entries) = j
    BY <1>1 DEF Record
  <2> QED
    BY <1>1, <2>1, HoldingType
<1>2. CASE j[key] = <<>>
  <2>1. PICK r : r = Record(j, key, entries)
    OBVIOUS
  <2>2. DOMAIN r = DOMAIN j /\ r[key] = entries /\ \A k \in DOMAIN j \ {key} : r[k] = j[k]
    BY <1>2, <2>1 DEF Record
  <2> DEFINE f == [k \in DOMAIN j |-> NetOf(j[k], account)]
             g == [k \in DOMAIN r |-> NetOf(r[k], account)]
  <2>3. Summable(f) /\ f[key] = 0
    BY <1>2, NetOfNone DEF Summable, Countable
  <2>4. Countable(r, account)
    BY <2>2 DEF Countable
  <2>5. /\ Summable(g) /\ DOMAIN g = DOMAIN f /\ key \in DOMAIN f
        /\ \A k \in DOMAIN f \ {key} : g[k] = f[k]
    BY <2>2, <2>4 DEF Summable, Countable
  <2>6. g[key] = NetOf(entries, account)
    BY <2>2
  <2>7. Holding(j, account) = SumOver(f) /\ Holding(r, account) = SumOver(g)
    BY DEF Holding
  <2> HIDE DEF f, g
  <2>8. SumOver(g) = SumOver(f) + (g[key] - f[key])
    BY <2>3, <2>5, SumChange
  <2>9. SumOver(f) \in Int
    BY <2>3, SumType
  <2> QED
    BY <1>2, <2>1, <2>3, <2>4, <2>6, <2>7, <2>8, <2>9
<1> QED
  BY <1>1, <1>2

\* The same for a journal that counts.
Counts(j, entriesOf, account) ==
  /\ IsFiniteSet(DOMAIN j) /\ \A k \in DOMAIN j : j[k] \in Nat
  /\ \A k \in DOMAIN j : NetOf(entriesOf[k], account) \in Int

LEMMA BalanceType ==
  ASSUME NEW j, NEW entriesOf, NEW account, Counts(j, entriesOf, account)
  PROVE  Balance(j, entriesOf, account) \in Int
<1> DEFINE f == [k \in DOMAIN j |->
                    IF j[k] = 0 THEN 0 ELSE j[k] * NetOf(entriesOf[k], account)]
<1>1. Summable(f)
  BY DEF Summable, Counts
<1> HIDE DEF f
<1>2. SumOver(f) \in Int
  BY <1>1, SumType
<1> QED
  BY <1>2 DEF Balance, f

LEMMA BalanceNone ==
  ASSUME NEW j, NEW entriesOf, NEW account, Counts(j, entriesOf, account),
         \A k \in DOMAIN j : j[k] = 0
  PROVE  Balance(j, entriesOf, account) = 0
<1> DEFINE f == [k \in DOMAIN j |->
                    IF j[k] = 0 THEN 0 ELSE j[k] * NetOf(entriesOf[k], account)]
<1>1. IsFiniteSet(DOMAIN f) /\ \A k \in DOMAIN f : f[k] = 0
  BY DEF Counts
<1> HIDE DEF f
<1>2. SumOver(f) = 0
  BY <1>1, SumZero
<1> QED
  BY <1>2 DEF Balance, f

LEMMA BalancePost ==
  ASSUME NEW j, NEW entriesOf, NEW account, Counts(j, entriesOf, account), NEW key \in DOMAIN j
  PROVE  /\ Counts(Post(j, key), entriesOf, account)
         /\ Balance(Post(j, key), entriesOf, account)
              = Balance(j, entriesOf, account)
                  + (IF j[key] > 0 THEN 0 ELSE NetOf(entriesOf[key], account))
<1>1. CASE j[key] > 0
  <2>1. Post(j, key) = j
    BY <1>1 DEF Post
  <2> QED
    BY <1>1, <2>1, BalanceType
<1>2. CASE ~(j[key] > 0)
  <2>1. PICK r : r = Post(j, key)
    OBVIOUS
  <2>2. j[key] = 0
    BY <1>2 DEF Counts
  <2>3. DOMAIN r = DOMAIN j /\ r[key] = 1 /\ \A k \in DOMAIN j \ {key} : r[k] = j[k]
    BY <1>2, <2>1, <2>2 DEF Post
  <2> DEFINE f == [k \in DOMAIN j |->
                    IF j[k] = 0 THEN 0 ELSE j[k] * NetOf(entriesOf[k], account)]
             g == [k \in DOMAIN r |->
                    IF r[k] = 0 THEN 0 ELSE r[k] * NetOf(entriesOf[k], account)]
  <2>4. Counts(r, entriesOf, account)
    BY <2>3 DEF Counts
  <2>5. Summable(f) /\ f[key] = 0
    BY <2>2 DEF Summable, Counts
  <2>6. /\ Summable(g) /\ DOMAIN g = DOMAIN f /\ key \in DOMAIN f
        /\ \A k \in DOMAIN f \ {key} : g[k] = f[k]
    BY <2>3, <2>4 DEF Summable, Counts
  <2>7. g[key] = NetOf(entriesOf[key], account)
    BY <2>3, <2>4 DEF Counts
  <2>8. /\ Balance(j, entriesOf, account) = SumOver(f)
        /\ Balance(r, entriesOf, account) = SumOver(g)
    BY DEF Balance
  <2> HIDE DEF f, g
  <2>9. SumOver(g) = SumOver(f) + (g[key] - f[key]) /\ SumOver(f) \in Int
    BY <2>5, <2>6, SumChange, SumType
  <2>10. NetOf(entriesOf[key], account) \in Int
    BY DEF Counts
  <2> QED
    BY <1>2, <2>1, <2>4, <2>5, <2>7, <2>8, <2>9, <2>10
<1> QED
  BY <1>1, <1>2
================================================================================
