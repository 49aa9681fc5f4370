------------------------- MODULE ConfigurationProofs -------------------------
(***************************************************************************)
(* Proofs about a configuration, for any keys, definitions and editors:    *)
(* that the search for cycles and the filter of field types decide what    *)
(* they are meant to, that concurrent edits keep a sound schema, and that  *)
(* an idempotency key imports once and answers only its own request        *)
(* (SnapshotImport).                                                       *)
(***************************************************************************)
EXTENDS ConfigSchema, SnapshotImport, FiniteSetTheorems, SequenceTheorems, WellFoundedInduction, TLAPS

-----------------------------------------------------------------------------
(* Numbers and finite sets *)

\* A set of natural numbers that is not empty has a least element.
LEMMA LeastNumber ==
    ASSUME NEW S, S \subseteq Nat, S # {}
    PROVE  \E n \in S : \A m \in S : n <= m
<1>1. PICK n \in S : \A m \in S : ~(<<m, n>> \in OpToRel(<, Nat))
  BY NatLessThanWellFounded, WFMin, Zenon
<1>2. \A m \in S : m < n => <<m, n>> \in OpToRel(<, Nat)
  BY DEF OpToRel
<1>3. \A m \in S : ~(m < n)
  BY <1>1, <1>2, Zenon
<1> QED BY <1>3

\* What holds of 0 and passes from a number to the next holds of all.
LEMMA Induction ==
    ASSUME NEW S, S \subseteq Nat, 0 \in S, \A n \in S : n + 1 \in S
    PROVE  S = Nat
<1> SUFFICES ASSUME Nat \ S # {} PROVE FALSE
  OBVIOUS
<1>1. PICK n \in Nat \ S : \A m \in Nat \ S : n <= m
  BY LeastNumber
<1>2. n # 0 /\ n - 1 \in Nat /\ n - 1 \notin Nat \ S
  BY <1>1
<1> QED BY <1>1, <1>2

\* The number of structures of a set.
LEMMA SizeType ==
    ASSUME NEW S \in SUBSET StructureKeys
    PROVE  IsFiniteSet(S) /\ Cardinality(S) \in Nat /\ Cardinality(S) <= Cardinality(StructureKeys)
BY SchemaNames, FS_Subset, FS_CardinalityType

LEMMA SmallerSize ==
    ASSUME NEW S \in SUBSET StructureKeys, NEW T \in SUBSET S, S # T
    PROVE  Cardinality(T) < Cardinality(S)
<1>1. IsFiniteSet(S) /\ Cardinality(S) \in Nat /\ Cardinality(T) \in Nat
  BY SizeType
<1>2. Cardinality(T) <= Cardinality(S) /\ Cardinality(T) # Cardinality(S)
  BY <1>1, FS_Subset
<1> QED BY <1>1, <1>2

-----------------------------------------------------------------------------
(* The search for cycles *)

Outcomes == [ok : BOOLEAN, visited : SUBSET StructureKeys]

\* A walk goes deeper at most as often as there are structures, and each time
\* meets at most all of them.
Size == Cardinality(StructureKeys)

Rank(w) == Cardinality(StructureKeys \ w.visiting) * (Size + 1) + Cardinality(w.todo)

\* The walks a walk goes on with.
KeyOf(w) == CHOOSE k \in w.todo : TRUE

Rest(w) == [w EXCEPT !.todo = @ \ {KeyOf(w)}]

Below(defs, w) == [w EXCEPT !.todo = Dependencies(defs, KeyOf(w)), !.visiting = @ \cup {KeyOf(w)}]

After(w, visited) == [Rest(w) EXCEPT !.visited = visited \cup {KeyOf(w)}]

\* One step of the search, case by case.
LEMMA WalkStepCases ==
    ASSUME NEW defs, NEW f, NEW w
    PROVE  WalkStep(defs, f, w) =
             IF w.todo = {} THEN [ok |-> TRUE, visited |-> w.visited]
             ELSE IF KeyOf(w) \in w.visiting THEN [ok |-> FALSE, visited |-> w.visited]
             ELSE IF KeyOf(w) \in w.visited THEN f[Rest(w)]
             ELSE IF ~f[Below(defs, w)].ok THEN f[Below(defs, w)]
             ELSE f[After(w, f[Below(defs, w)].visited)]
BY DEF WalkStep, KeyOf, Rest, Below, After

\* A number of rounds is worth more than any one round.
LEMMA RoundsCount ==
    ASSUME NEW a \in Nat, NEW b \in Nat, NEW s \in Nat, NEW t \in Nat, NEW u \in Nat,
           b + 1 <= a, t <= s
    PROVE  b * (s + 1) + t < a * (s + 1) + u
<1>1. (b + 1) * (s + 1) <= a * (s + 1)
  OBVIOUS
<1>2. (b + 1) * (s + 1) = b * (s + 1) + s + 1
  OBVIOUS
<1>3. b * (s + 1) \in Nat /\ a * (s + 1) \in Nat
  OBVIOUS
<1> QED BY <1>1, <1>2, <1>3

LEMMA WalkParts ==
    ASSUME NEW w \in Walks
    PROVE  /\ w.todo \in SUBSET StructureKeys /\ w.visiting \in SUBSET StructureKeys
           /\ w.visited \in SUBSET StructureKeys
           /\ Cardinality(w.todo) \in Nat /\ Cardinality(w.todo) <= Size
           /\ Cardinality(StructureKeys \ w.visiting) \in Nat
           /\ Rank(w) \in Nat /\ Size \in Nat
<1>1. /\ w.todo \in SUBSET StructureKeys /\ w.visiting \in SUBSET StructureKeys
      /\ w.visited \in SUBSET StructureKeys /\ StructureKeys \ w.visiting \in SUBSET StructureKeys
      /\ StructureKeys \in SUBSET StructureKeys
  BY DEF Walks
<1>2. /\ Cardinality(w.todo) \in Nat /\ Cardinality(w.todo) <= Size
      /\ Cardinality(StructureKeys \ w.visiting) \in Nat /\ Size \in Nat
  BY <1>1, SizeType DEF Size
<1>3. Rank(w) \in Nat
  BY <1>2 DEF Rank
<1> QED BY <1>1, <1>2, <1>3

\* The walks a walk goes on with are walks, and of lower rank.
LEMMA RankFalls ==
    ASSUME NEW defs, NEW w \in Walks, w.todo # {}, NEW visited \in SUBSET StructureKeys
    PROVE  /\ KeyOf(w) \in w.todo /\ KeyOf(w) \in StructureKeys
           /\ Rest(w) \in Walks /\ Rank(Rest(w)) < Rank(w)
           /\ After(w, visited) \in Walks /\ Rank(After(w, visited)) < Rank(w)
           /\ KeyOf(w) \notin w.visiting =>
                 Below(defs, w) \in Walks /\ Rank(Below(defs, w)) < Rank(w)
<1> DEFINE k == KeyOf(w)
           old == Cardinality(StructureKeys \ w.visiting)
<1>1. k \in w.todo /\ k \in StructureKeys
  BY WalkParts DEF KeyOf
<1> HIDE DEF k
<1>2. Cardinality(w.todo \ {k}) \in Nat /\ Cardinality(w.todo \ {k}) < Cardinality(w.todo)
  <2>1. w.todo \ {k} \in SUBSET w.todo /\ w.todo \ {k} \in SUBSET StructureKeys /\ w.todo # w.todo \ {k}
    BY <1>1, WalkParts
  <2> QED BY <2>1, WalkParts, SmallerSize, SizeType
<1>3. /\ Rest(w) \in Walks /\ Rest(w).visiting = w.visiting /\ Rest(w).todo = w.todo \ {k}
      /\ After(w, visited) \in Walks /\ After(w, visited).visiting = w.visiting
      /\ After(w, visited).todo = w.todo \ {k}
  BY <1>1, WalkParts DEF Walks, Rest, After, k
<1>4. Rank(Rest(w)) < Rank(w) /\ Rank(After(w, visited)) < Rank(w)
  <2>1. old * (Size + 1) \in Nat
    BY WalkParts
  <2>2. /\ Rank(Rest(w)) = old * (Size + 1) + Cardinality(w.todo \ {k})
        /\ Rank(After(w, visited)) = old * (Size + 1) + Cardinality(w.todo \ {k})
        /\ Rank(w) = old * (Size + 1) + Cardinality(w.todo)
    BY <1>3 DEF Rank
  <2>3. Cardinality(w.todo) \in Nat
    BY WalkParts
  <2> HIDE DEF old
  <2> QED BY <1>2, <2>1, <2>2, <2>3
<1>5. ASSUME k \notin w.visiting
      PROVE  Below(defs, w) \in Walks /\ Rank(Below(defs, w)) < Rank(w)
  <2> DEFINE below == Below(defs, w)
             new == Cardinality(StructureKeys \ below.visiting)
  <2>1. below \in Walks /\ below.visiting = w.visiting \cup {k}
    BY <1>1, WalkParts DEF Walks, Below, Dependencies, k
  <2>2. new \in Nat /\ Cardinality(below.todo) \in Nat /\ Cardinality(below.todo) <= Size
    BY <2>1, WalkParts
  <2>3. new < old
    <3>1. StructureKeys \ below.visiting \in SUBSET (StructureKeys \ w.visiting)
      BY <2>1
    <3>2. StructureKeys \ w.visiting # StructureKeys \ below.visiting
      BY <1>1, <1>5, <2>1
    <3>3. StructureKeys \ w.visiting \in SUBSET StructureKeys
      OBVIOUS
    <3> QED BY <3>1, <3>2, <3>3, SmallerSize
  <2>4. Rank(below) = new * (Size + 1) + Cardinality(below.todo)
    BY DEF Rank
  <2>5. Rank(w) = old * (Size + 1) + Cardinality(w.todo)
    BY DEF Rank
  <2>6. old \in Nat /\ Size \in Nat /\ Cardinality(w.todo) \in Nat
    BY WalkParts
  <2> HIDE DEF below, new, old
  <2>7. Rank(below) < Rank(w)
    BY <2>2, <2>3, <2>4, <2>5, <2>6, RoundsCount
  <2> QED BY <2>1, <2>7 DEF below
<1> QED BY <1>1, <1>3, <1>4, <1>5 DEF k

\* A set of walks has one of least rank: the induction the search goes by.
LEMMA LeastWalk ==
    ASSUME NEW S \in SUBSET Walks, S # {}
    PROVE  \E w \in S : \A v \in Walks : Rank(v) < Rank(w) => v \notin S
<1> DEFINE Ranks == {Rank(w) : w \in S}
<1>1. Ranks \subseteq Nat /\ Ranks # {}
  BY WalkParts
<1>2. PICK n \in Ranks : \A m \in Ranks : n <= m
  <2> HIDE DEF Ranks
  <2> QED BY <1>1, LeastNumber
<1>3. PICK w \in S : n = Rank(w)
  BY <1>2
<1>4. \A v \in S : Rank(w) <= Rank(v) /\ Rank(v) \in Nat /\ Rank(w) \in Nat
  BY <1>1, <1>2, <1>3
<1> QED BY <1>4

\* A step yields an outcome, and depends on walks of lower rank only.
LEMMA StepOutcome ==
    ASSUME NEW defs, NEW f \in [Walks -> Outcomes], NEW w \in Walks
    PROVE  WalkStep(defs, f, w) \in Outcomes
<1>1. CASE w.todo = {}
  BY <1>1, WalkStepCases, WalkParts DEF Outcomes
<1>2. CASE w.todo # {} /\ KeyOf(w) \in w.visiting
  BY <1>2, WalkStepCases, WalkParts DEF Outcomes
<1>3. CASE w.todo # {} /\ KeyOf(w) \notin w.visiting
  <2>1. Rest(w) \in Walks /\ Below(defs, w) \in Walks
    BY <1>3, RankFalls
  <2>2. f[Rest(w)] \in Outcomes /\ f[Below(defs, w)] \in Outcomes
    BY <2>1
  <2>3. f[Below(defs, w)].visited \in SUBSET StructureKeys
    BY <2>2 DEF Outcomes
  <2>4. After(w, f[Below(defs, w)].visited) \in Walks
    BY <1>3, <2>3, RankFalls
  <2>5. f[After(w, f[Below(defs, w)].visited)] \in Outcomes
    BY <2>4
  <2> QED BY <1>3, <2>2, <2>5, WalkStepCases
<1> QED BY <1>1, <1>2, <1>3

LEMMA StepDepends ==
    ASSUME NEW defs, NEW f, NEW g \in [Walks -> Outcomes], NEW w \in Walks,
           \A v \in Walks : Rank(v) < Rank(w) => f[v] = g[v]
    PROVE  WalkStep(defs, f, w) = WalkStep(defs, g, w)
<1>1. CASE w.todo = {} \/ KeyOf(w) \in w.visiting
  BY <1>1, WalkStepCases
<1>2. CASE w.todo # {} /\ KeyOf(w) \notin w.visiting
  <2>1. /\ Rest(w) \in Walks /\ Rank(Rest(w)) < Rank(w)
        /\ Below(defs, w) \in Walks /\ Rank(Below(defs, w)) < Rank(w)
    BY <1>2, RankFalls
  <2>2. f[Rest(w)] = g[Rest(w)] /\ f[Below(defs, w)] = g[Below(defs, w)]
    BY <2>1
  <2> DEFINE u == After(w, f[Below(defs, w)].visited)
  <2>3. f[Below(defs, w)].visited \in SUBSET StructureKeys
    <3>1. g[Below(defs, w)] \in Outcomes
      BY <2>1
    <3> QED BY <2>2, <3>1 DEF Outcomes
  <2>4. u \in Walks /\ Rank(u) < Rank(w)
    BY <1>2, <2>3, RankFalls
  <2>5. f[u] = g[u]
    BY <2>4
  <2> QED BY <1>2, <2>2, <2>5, WalkStepCases
<1> QED BY <1>1, <1>2

\* The search is defined: its equation has a solution, found rank by rank.
LEMMA WalkDefined ==
    ASSUME NEW defs
    PROVE  /\ Walk(defs) \in [Walks -> Outcomes]
           /\ \A w \in Walks : Walk(defs)[w] = WalkStep(defs, Walk(defs), w)
<1> DEFINE Upto(n) == \E g \in [Walks -> Outcomes] :
                         \A w \in Walks : Rank(w) < n => g[w] = WalkStep(defs, g, w)
           Reached == {n \in Nat : Upto(n)}
<1>1. 0 \in Reached
  <2>1. [w \in Walks |-> [ok |-> TRUE, visited |-> {}]] \in [Walks -> Outcomes]
    BY DEF Outcomes
  <2>2. \A w \in Walks : ~(Rank(w) < 0)
    <3>1. \A w \in Walks : Rank(w) \in Nat
      BY WalkParts
    <3> QED BY <3>1
  <2> QED BY <2>1, <2>2
<1>2. ASSUME NEW n \in Reached PROVE n + 1 \in Reached
  <2>1. n \in Nat
    OBVIOUS
  <2>2. PICK g \in [Walks -> Outcomes] :
           \A w \in Walks : Rank(w) < n => g[w] = WalkStep(defs, g, w)
    OBVIOUS
  <2> DEFINE h == [w \in Walks |-> WalkStep(defs, g, w)]
  <2>3. h \in [Walks -> Outcomes]
    BY StepOutcome
  <2>4. \A w \in Walks : h[w] = WalkStep(defs, g, w)
    OBVIOUS
  <2> HIDE DEF h
  <2>5. ASSUME NEW w \in Walks, Rank(w) < n + 1 PROVE h[w] = WalkStep(defs, h, w)
    <3>1. \A v \in Walks : Rank(v) < Rank(w) => g[v] = h[v]
      <4> SUFFICES ASSUME NEW v \in Walks, Rank(v) < Rank(w) PROVE g[v] = h[v]
        OBVIOUS
      <4>1. Rank(v) < n
        <5>1. Rank(v) \in Nat /\ Rank(w) \in Nat
          BY WalkParts
        <5> QED BY <2>1, <2>5, <5>1
      <4> QED BY <2>2, <2>4, <4>1
    <3>2. WalkStep(defs, g, w) = WalkStep(defs, h, w)
      BY <2>3, <3>1, StepDepends
    <3> QED BY <2>4, <3>2
  <2>6. Upto(n + 1)
    BY <2>3, <2>5
  <2> QED BY <2>1, <2>6
<1>3. Reached = Nat
  <2> HIDE DEF Upto
  <2>1. Reached \subseteq Nat
    OBVIOUS
  <2> HIDE DEF Reached
  <2> QED BY <1>1, <1>2, <2>1, Induction
<1> DEFINE most == Size * (Size + 1) + Size + 1
<1>4. Size \in Nat /\ most \in Nat
  <2>1. Size \in Nat
    BY SizeType DEF Size
  <2> QED BY <2>1
<1>5. \A w \in Walks : Rank(w) < most
  <2> SUFFICES ASSUME NEW w \in Walks PROVE Rank(w) < most
    OBVIOUS
  <2> DEFINE old == Cardinality(StructureKeys \ w.visiting)
  <2>1. old \in Nat /\ old <= Size
    BY WalkParts, SizeType DEF Size
  <2>2. Rank(w) = old * (Size + 1) + Cardinality(w.todo)
    BY DEF Rank
  <2>3. Cardinality(w.todo) \in Nat /\ Cardinality(w.todo) <= Size
    BY WalkParts
  <2> HIDE DEF old
  <2>4. old * (Size + 1) <= Size * (Size + 1)
    BY <1>4, <2>1
  <2>5. old * (Size + 1) \in Nat /\ Size * (Size + 1) \in Nat
    BY <1>4, <2>1
  <2> QED BY <1>4, <2>2, <2>3, <2>4, <2>5
<1>6. PICK g \in [Walks -> Outcomes] : \A w \in Walks : g[w] = WalkStep(defs, g, w)
  <2>1. Upto(most)
    BY <1>3, <1>4
  <2> QED BY <1>5, <2>1
<1> DEFINE Solves(f) == f = [w \in Walks |-> WalkStep(defs, f, w)]
<1>7. Walk(defs) = CHOOSE f : Solves(f)
  BY DEF Walk
<1>8. Solves(g)
  BY <1>6
<1> HIDE DEF Solves
<1>9. Solves(Walk(defs))
  BY <1>7, <1>8
<1>10. \A w \in Walks : Walk(defs)[w] = WalkStep(defs, Walk(defs), w)
  BY <1>9 DEF Solves
<1>11. \A w \in Walks : Walk(defs)[w] = g[w]
  <2> DEFINE Differ == {v \in Walks : Walk(defs)[v] # g[v]}
  <2> SUFFICES ASSUME Differ # {} PROVE FALSE
    OBVIOUS
  <2>3. PICK w \in Differ : \A v \in Walks : Rank(v) < Rank(w) => v \notin Differ
    BY LeastWalk
  <2>4. \A v \in Walks : Rank(v) < Rank(w) => Walk(defs)[v] = g[v]
    BY <2>3
  <2>5. WalkStep(defs, Walk(defs), w) = WalkStep(defs, g, w)
    BY <2>4, StepDepends
  <2> QED BY <1>6, <1>10, <2>3, <2>5
<1>12. Walk(defs) \in [Walks -> Outcomes]
  <2>1. Walk(defs) = [w \in Walks |-> WalkStep(defs, Walk(defs), w)]
    BY <1>9 DEF Solves
  <2>2. \A w \in Walks : WalkStep(defs, Walk(defs), w) \in Outcomes
    BY <1>10, <1>11
  <2> QED BY <2>1, <2>2
<1> QED BY <1>10, <1>12

\* A set of structures the search may leave behind: what they refer to is in
\* it, and no part of it goes round.
Grounded(defs, keys) ==
    /\ \A k \in keys : Dependencies(defs, k) \subseteq keys
    /\ \A part \in SUBSET keys :
          part # {} => \E k \in part : Dependencies(defs, k) \cap part = {}

\* A structure can be added once all it refers to is there.
LEMMA GroundedGrows ==
    ASSUME NEW defs, NEW keys, Grounded(defs, keys), NEW k, Dependencies(defs, k) \subseteq keys
    PROVE  Grounded(defs, keys \cup {k})
<1>1. \A j \in keys \cup {k} : Dependencies(defs, j) \subseteq keys
  BY DEF Grounded
<1>2. ASSUME NEW part \in SUBSET (keys \cup {k}), part # {}
      PROVE  \E j \in part : Dependencies(defs, j) \cap part = {}
  <2>1. CASE part \cap keys # {}
    <3>1. PICK j \in part \cap keys : Dependencies(defs, j) \cap (part \cap keys) = {}
      BY <2>1 DEF Grounded
    <3> QED BY <1>1, <3>1
  <2>2. CASE part \cap keys = {}
    BY <1>1, <1>2, <2>2
  <2> QED BY <2>1, <2>2
<1> QED BY <1>1, <1>2 DEF Grounded

\* A search that finds no cycle from grounded keys leaves grounded keys, those
\* it was to walk among them.
LEMMA WalkGrounds ==
    ASSUME NEW defs, NEW w \in Walks, Grounded(defs, w.visited), Walk(defs)[w].ok
    PROVE  /\ Grounded(defs, Walk(defs)[w].visited)
           /\ w.todo \cup w.visited \subseteq Walk(defs)[w].visited
<1> DEFINE f == Walk(defs)
           Fine(v) == Grounded(defs, v.visited) /\ f[v].ok
                      => Grounded(defs, f[v].visited) /\ v.todo \cup v.visited \subseteq f[v].visited
           Wrong == {v \in Walks : ~Fine(v)}
<1>1. f \in [Walks -> Outcomes] /\ \A v \in Walks : f[v] = WalkStep(defs, f, v)
  BY WalkDefined
<1> HIDE DEF f
<1>2. Wrong = {}
  <2> SUFFICES ASSUME Wrong # {} PROVE FALSE
    OBVIOUS
  <2>1. PICK v \in Wrong : \A u \in Walks : Rank(u) < Rank(v) => u \notin Wrong
    <3> HIDE DEF Fine
    <3>1. Wrong \in SUBSET Walks
      OBVIOUS
    <3> HIDE DEF Wrong
    <3> QED BY <3>1, LeastWalk
  <2> SUFFICES ASSUME Grounded(defs, v.visited), f[v].ok PROVE Fine(v)
    OBVIOUS
  <2>2. \A u \in Walks : Rank(u) < Rank(v) => Fine(u)
    BY <2>1
  <2>3. v \in Walks /\ f[v] = WalkStep(defs, f, v)
    BY <1>1
  <2>4. CASE v.todo = {}
    <3>1. f[v] = [ok |-> TRUE, visited |-> v.visited]
      BY <2>3, <2>4, WalkStepCases
    <3> QED BY <2>4, <3>1
  <2>5. CASE v.todo # {} /\ KeyOf(v) \in v.visiting
    <3>1. f[v] = [ok |-> FALSE, visited |-> v.visited]
      BY <2>3, <2>5, WalkStepCases
    <3> QED BY <3>1
  <2>6. CASE v.todo # {} /\ KeyOf(v) \notin v.visiting /\ KeyOf(v) \in v.visited
    <3>1. f[v] = f[Rest(v)]
      BY <2>3, <2>6, WalkStepCases
    <3>2. Rest(v) \in Walks /\ Rank(Rest(v)) < Rank(v)
      BY <2>3, <2>6, RankFalls
    <3>3. Rest(v).visited = v.visited /\ Rest(v).todo = v.todo \ {KeyOf(v)}
      BY <2>3 DEF Rest, Walks
    <3>4. Fine(Rest(v))
      BY <2>2, <3>2
    <3> QED BY <2>6, <3>1, <3>3, <3>4
  <2>7. CASE v.todo # {} /\ KeyOf(v) \notin v.visiting /\ KeyOf(v) \notin v.visited
    <3> DEFINE k == KeyOf(v)
               below == Below(defs, v)
               after == After(v, f[below].visited)
    <3>1. below \in Walks /\ Rank(below) < Rank(v)
      BY <2>3, <2>7, RankFalls
    <3>2. below.visited = v.visited /\ below.todo = Dependencies(defs, k)
      BY <2>3 DEF Below, Walks
    <3>3. f[v] = IF ~f[below].ok THEN f[below] ELSE f[after]
      BY <2>3, <2>7, WalkStepCases
    <3>4. f[below].ok /\ f[v] = f[after]
      BY <3>3
    <3>5. f[below] \in Outcomes /\ f[below].visited \in SUBSET StructureKeys
      BY <1>1, <3>1 DEF Outcomes
    <3>6. /\ Grounded(defs, f[below].visited)
          /\ Dependencies(defs, k) \cup v.visited \subseteq f[below].visited
      BY <2>2, <3>1, <3>2, <3>4
    <3>7. after \in Walks /\ Rank(after) < Rank(v)
      BY <2>3, <2>7, <3>5, RankFalls
    <3>8. after.visited = f[below].visited \cup {k} /\ after.todo = v.todo \ {k}
      BY <2>3 DEF After, Rest, Walks
    <3>9. Grounded(defs, after.visited)
      BY <3>6, <3>8, GroundedGrows
    <3>10. Fine(after)
      BY <2>2, <3>7
    <3> HIDE DEF k, below, after
    <3> QED BY <3>4, <3>6, <3>8, <3>9, <3>10
  <2> QED BY <2>4, <2>5, <2>6, <2>7
<1> QED BY <1>2 DEF f

\* One structure contains another, directly or through others: it is in every
\* set with what the first refers to that is closed under reference.
Contains(defs, j, k) ==
    \A keys \in SUBSET StructureKeys :
        Dependencies(defs, j) \subseteq keys /\ (\A i \in keys : Dependencies(defs, i) \subseteq keys)
        => k \in keys

StructuresOf(defs) == Defined(defs) \cap StructureKeys

\* The structures refer to structures of the schema only.
References(defs) == \A k \in StructuresOf(defs) : Dependencies(defs, k) \subseteq StructuresOf(defs)

\* What a contained structure refers to is contained too.
LEMMA ContainsOn ==
    ASSUME NEW defs, NEW j, NEW k, NEW i \in Dependencies(defs, k), Contains(defs, j, k)
    PROVE  Contains(defs, j, i)
BY DEF Contains

LEMMA ContainsDirectly ==
    ASSUME NEW defs, NEW j, NEW k \in Dependencies(defs, j)
    PROVE  Contains(defs, j, k)
BY DEF Contains

\* In a schema without cycles no structure contains itself.
LEMMA NoneContainsItself ==
    ASSUME NEW defs, References(defs), Acyclic(defs), NEW k \in StructuresOf(defs)
    PROVE  ~Contains(defs, k, k)
<1> SUFFICES ASSUME Contains(defs, k, k) PROVE FALSE
  OBVIOUS
<1> DEFINE On == {j \in StructuresOf(defs) : Contains(defs, j, k)}
           Off == StructuresOf(defs) \ On
<1>1. On # {} /\ On \in SUBSET StructuresOf(defs)
  OBVIOUS
<1>2. PICK j \in On : Dependencies(defs, j) \cap On = {}
  BY <1>1 DEF Acyclic, StructuresOf
<1>3. Dependencies(defs, j) \subseteq Off
  BY <1>2 DEF References
<1>4. \A i \in Off : Dependencies(defs, i) \subseteq Off
  <2> SUFFICES ASSUME NEW i \in Off, NEW x \in Dependencies(defs, i), x \notin Off PROVE FALSE
    OBVIOUS
  <2>1. x \in StructuresOf(defs) /\ Contains(defs, x, k)
    BY DEF References
  <2>2. Contains(defs, i, k)
    BY <2>1 DEF Contains
  <2> QED BY <2>2
<1>5. Off \in SUBSET StructureKeys /\ k \notin Off
  BY DEF StructuresOf
<1>6. Contains(defs, j, k)
  BY <1>2
<1> HIDE DEF On, Off
<1> QED BY <1>3, <1>4, <1>5, <1>6 DEF Contains

\* A search whose path contains what is still to be walked meets no key of the
\* path again: it ends without a cycle.
LEMMA WalkAccepts ==
    ASSUME NEW defs, References(defs), Acyclic(defs), NEW w \in Walks,
           w.todo \subseteq StructuresOf(defs),
           \A j \in w.visiting, k \in w.todo : Contains(defs, j, k)
    PROVE  Walk(defs)[w].ok
<1> DEFINE f == Walk(defs)
           Fit(v) == /\ v.todo \subseteq StructuresOf(defs)
                     /\ \A j \in v.visiting, k \in v.todo : Contains(defs, j, k)
           Wrong == {v \in Walks : Fit(v) /\ ~f[v].ok}
<1>1. f \in [Walks -> Outcomes] /\ \A v \in Walks : f[v] = WalkStep(defs, f, v)
  BY WalkDefined
<1> HIDE DEF f
<1>2. Wrong = {}
  <2> SUFFICES ASSUME Wrong # {} PROVE FALSE
    OBVIOUS
  <2>1. PICK v \in Wrong : \A u \in Walks : Rank(u) < Rank(v) => u \notin Wrong
    <3> HIDE DEF Fit
    <3>1. Wrong \in SUBSET Walks
      OBVIOUS
    <3> HIDE DEF Wrong
    <3> QED BY <3>1, LeastWalk
  <2>2. \A u \in Walks : Rank(u) < Rank(v) /\ Fit(u) => f[u].ok
    BY <2>1
  <2>3. v \in Walks /\ Fit(v) /\ ~f[v].ok /\ f[v] = WalkStep(defs, f, v)
    BY <1>1
  <2>4. CASE v.todo = {}
    BY <2>3, <2>4, WalkStepCases
  <2> DEFINE k == KeyOf(v)
  <2>5. ASSUME v.todo # {} PROVE k \in v.todo /\ k \in StructuresOf(defs)
    BY <2>3, <2>5, RankFalls
  <2>6. CASE v.todo # {} /\ k \in v.visiting
    <3>1. Contains(defs, k, k)
      BY <2>3, <2>5, <2>6
    <3> QED BY <2>5, <2>6, <3>1, NoneContainsItself
  <2>7. CASE v.todo # {} /\ k \notin v.visiting /\ k \in v.visited
    <3>1. f[v] = f[Rest(v)]
      BY <2>3, <2>7, WalkStepCases
    <3>2. Rest(v) \in Walks /\ Rank(Rest(v)) < Rank(v)
      BY <2>3, <2>7, RankFalls
    <3>3. Rest(v).visiting = v.visiting /\ Rest(v).todo = v.todo \ {k}
      BY <2>3 DEF Rest, Walks
    <3>4. Fit(Rest(v))
      BY <2>3, <3>3
    <3> QED BY <2>2, <2>3, <3>1, <3>2, <3>4
  <2>8. CASE v.todo # {} /\ k \notin v.visiting /\ k \notin v.visited
    <3> DEFINE below == Below(defs, v)
               after == After(v, f[below].visited)
    <3>1. below \in Walks /\ Rank(below) < Rank(v)
      BY <2>3, <2>8, RankFalls
    <3>2. below.visiting = v.visiting \cup {k} /\ below.todo = Dependencies(defs, k)
      BY <2>3 DEF Below, Walks
    <3>3. f[v] = IF ~f[below].ok THEN f[below] ELSE f[after]
      BY <2>3, <2>8, WalkStepCases
    <3>4. Fit(below)
      <4>1. below.todo \subseteq StructuresOf(defs)
        BY <2>5, <2>8, <3>2 DEF References
      <4>2. ASSUME NEW j \in below.visiting, NEW i \in below.todo PROVE Contains(defs, j, i)
        <5>1. i \in Dependencies(defs, k)
          BY <3>2
        <5>2. CASE j = k
          BY <5>1, <5>2, ContainsDirectly
        <5>3. CASE j \in v.visiting
          <6>1. Contains(defs, j, k)
            BY <2>3, <2>5, <2>8, <5>3
          <6> QED BY <5>1, <6>1, ContainsOn
        <5> QED BY <3>2, <5>2, <5>3
      <4> QED BY <4>1, <4>2
    <3>5. f[below].ok
      BY <2>2, <3>1, <3>4
    <3>6. f[below].visited \in SUBSET StructureKeys
      BY <1>1, <3>1 DEF Outcomes
    <3>7. after \in Walks /\ Rank(after) < Rank(v)
      BY <2>3, <2>8, <3>6, RankFalls
    <3>8. after.visiting = v.visiting /\ after.todo = v.todo \ {k}
      BY <2>3 DEF After, Rest, Walks
    <3>9. Fit(after)
      BY <2>3, <3>8
    <3> QED BY <2>2, <2>3, <3>3, <3>5, <3>7, <3>9
  <2> QED BY <2>4, <2>6, <2>7, <2>8
<1> QED BY <1>2 DEF f

\* validateCycles accepts a schema exactly when none of its structures contains
\* itself, in whatever order it walks the structures and their fields.
THEOREM CyclesFound ==
    ASSUME NEW defs
    PROVE  /\ validateCycles(defs) => Acyclic(defs)
           /\ References(defs) /\ Acyclic(defs) => validateCycles(defs)
<1> DEFINE all == [todo |-> StructuresOf(defs), visiting |-> {}, visited |-> {}]
<1>1. all \in Walks
  BY DEF Walks, StructuresOf
<1>2. validateCycles(defs) <=> Walk(defs)[all].ok
  BY DEF validateCycles, StructuresOf
<1>3. ASSUME Walk(defs)[all].ok PROVE Acyclic(defs)
  <2>1. Grounded(defs, all.visited)
    BY DEF Grounded
  <2>2. /\ Grounded(defs, Walk(defs)[all].visited)
        /\ StructuresOf(defs) \subseteq Walk(defs)[all].visited
    BY <1>1, <1>3, <2>1, WalkGrounds
  <2> QED BY <2>2 DEF Grounded, Acyclic, StructuresOf
<1>4. ASSUME References(defs), Acyclic(defs) PROVE Walk(defs)[all].ok
  BY <1>1, <1>4, WalkAccepts
<1> QED BY <1>2, <1>3, <1>4

-----------------------------------------------------------------------------
(* Schemas *)

\* What every definition in the tables has: the fields of a structure have
\* types, an enum has options and no fields.
WellFormed(defs) ==
    \A d \in defs :
        /\ d.key \in Keys
        /\ d.fields \subseteq Types
        /\ d.key \in EnumKeys => d.fields = {} /\ d.options \in Seq(Options) /\ d.options # <<>>

LEMMA DefinitionFound ==
    ASSUME NEW defs, UniqueKeys(defs), NEW d \in defs
    PROVE  /\ DefinitionOf(defs, d.key) = d
           /\ Dependencies(defs, d.key) = d.fields \cap StructureKeys
BY DEF UniqueKeys, DefinitionOf, Dependencies, FieldsOf

LEMMA ResolvedReferences ==
    ASSUME NEW defs, UniqueKeys(defs), Resolved(defs)
    PROVE  References(defs)
<1> SUFFICES ASSUME NEW d \in defs, d.key \in StructureKeys, NEW k \in Dependencies(defs, d.key)
             PROVE  k \in StructuresOf(defs)
  BY DEF References, StructuresOf, Defined
<1>1. k \in d.fields /\ k \in StructureKeys
  BY DefinitionFound
<1>2. k \notin BaseTypes
  BY <1>1, SchemaNames
<1> QED BY <1>1, <1>2 DEF Resolved, StructuresOf

\* NewSchema accepts exactly the definitions whose keys are unique, whose
\* fields refer to one of them and none of which contains itself.
THEOREM SchemasAccepted ==
    ASSUME NEW defs, WellFormed(defs)
    PROVE  NewSchema(defs) <=> UniqueKeys(defs) /\ Resolved(defs) /\ Acyclic(defs)
<1>1. \A d \in defs : d.key \notin StructureKeys => d.fields = {} /\ d.options # <<>>
  BY DEF WellFormed, Keys
<1>2. (\A d \in defs : validateStructureFields(defs, d)) <=> Resolved(defs)
  BY <1>1 DEF validateStructureFields, validateType, Resolved
<1>3. UniqueKeys(defs) /\ Resolved(defs) => References(defs)
  BY ResolvedReferences
<1> QED BY <1>2, <1>3, CyclesFound DEF NewSchema

\* Two lists of the same keys and fields, whatever their row ids.
Covers(c, d) == \A x \in d : \E y \in c : y.key = x.key /\ y.fields = x.fields

LEMMA SameDefinitions ==
    ASSUME NEW c, NEW d, UniqueKeys(c), UniqueKeys(d), Covers(c, d), Covers(d, c),
           Resolved(c), Acyclic(c)
    PROVE  Resolved(d) /\ Acyclic(d) /\ Defined(d) = Defined(c)
<1>1. Defined(d) = Defined(c)
  BY DEF Covers, Defined
<1>2. Resolved(d)
  BY <1>1 DEF Covers, Resolved
<1>3. \A k \in Defined(c) : Dependencies(c, k) = Dependencies(d, k)
  <2> SUFFICES ASSUME NEW x \in c PROVE Dependencies(c, x.key) = Dependencies(d, x.key)
    BY DEF Defined
  <2>1. PICK y \in d : y.key = x.key /\ y.fields = x.fields
    BY DEF Covers
  <2>2. Dependencies(c, x.key) = x.fields \cap StructureKeys
    BY DefinitionFound
  <2>3. Dependencies(d, y.key) = y.fields \cap StructureKeys
    BY DefinitionFound
  <2> QED BY <2>1, <2>2, <2>3
<1>4. Acyclic(d)
  BY <1>1, <1>3 DEF Acyclic
<1> QED BY <1>1, <1>2, <1>4

-----------------------------------------------------------------------------
(* The types offered for a field *)

RejectStep(defs, f, keys) ==
    IF rejectDependentStructures(defs, keys) = keys THEN keys
    ELSE f[rejectDependentStructures(defs, keys)]

\* What refers to a structure is a structure, and a pass only adds.
LEMMA RejectGrows ==
    ASSUME NEW defs, WellFormed(defs), NEW keys \in SUBSET StructureKeys
    PROVE  /\ rejectDependentStructures(defs, keys) \in SUBSET StructureKeys
           /\ keys \subseteq rejectDependentStructures(defs, keys)
BY DEF WellFormed, Keys, rejectDependentStructures

\* The keys not rejected yet become fewer with every pass.
Left(keys) == Cardinality(StructureKeys \ keys)

LEMMA LeftType ==
    ASSUME NEW keys \in SUBSET StructureKeys
    PROVE  Left(keys) \in Nat /\ Left(keys) <= Size /\ Size \in Nat
BY SizeType DEF Left, Size

LEMMA LeftFalls ==
    ASSUME NEW defs, WellFormed(defs), NEW keys \in SUBSET StructureKeys,
           rejectDependentStructures(defs, keys) # keys
    PROVE  Left(rejectDependentStructures(defs, keys)) < Left(keys)
<1> DEFINE more == rejectDependentStructures(defs, keys)
<1>1. more \in SUBSET StructureKeys /\ keys \subseteq more
  BY RejectGrows
<1> HIDE DEF more
<1>2. /\ StructureKeys \ keys \in SUBSET StructureKeys
      /\ StructureKeys \ more \in SUBSET (StructureKeys \ keys)
  BY <1>1
<1>3. StructureKeys \ more # StructureKeys \ keys
  BY <1>1 DEF more
<1>4. Cardinality(StructureKeys \ more) < Cardinality(StructureKeys \ keys)
  BY <1>2, <1>3, SmallerSize
<1> QED BY <1>4 DEF Left, more

\* The passes end.
LEMMA RejectedDefined ==
    ASSUME NEW defs, WellFormed(defs)
    PROVE  \A keys \in SUBSET StructureKeys :
              Rejected(defs)[keys] = RejectStep(defs, Rejected(defs), keys)
<1> DEFINE All == SUBSET StructureKeys
           Upto(n) == \E g \in [All -> All] :
                         \A keys \in All : Left(keys) < n => g[keys] = RejectStep(defs, g, keys)
           Reached == {n \in Nat : Upto(n)}
<1>1. 0 \in Reached
  <2>1. [keys \in All |-> {}] \in [All -> All]
    OBVIOUS
  <2>2. \A keys \in All : ~(Left(keys) < 0)
    <3>1. \A keys \in All : Left(keys) \in Nat
      BY LeftType
    <3> QED BY <3>1
  <2> QED BY <2>1, <2>2
<1>2. ASSUME NEW n \in Reached PROVE n + 1 \in Reached
  <2>1. n \in Nat
    OBVIOUS
  <2>2. PICK g \in [All -> All] :
           \A keys \in All : Left(keys) < n => g[keys] = RejectStep(defs, g, keys)
    OBVIOUS
  <2> DEFINE h == [keys \in All |-> RejectStep(defs, g, keys)]
  <2>3. h \in [All -> All]
    BY RejectGrows DEF RejectStep
  <2>4. \A keys \in All : h[keys] = RejectStep(defs, g, keys)
    OBVIOUS
  <2> HIDE DEF h
  <2>5. ASSUME NEW keys \in All, Left(keys) < n + 1 PROVE h[keys] = RejectStep(defs, h, keys)
    <3> DEFINE more == rejectDependentStructures(defs, keys)
    <3>1. CASE more = keys
      BY <2>4, <3>1 DEF RejectStep
    <3>2. CASE more # keys
      <4>1. more \in All /\ Left(more) < Left(keys)
        BY <3>2, RejectGrows, LeftFalls
      <4>2. Left(more) \in Nat /\ Left(keys) \in Nat
        BY <4>1, LeftType
      <4>3. Left(more) < n
        BY <2>1, <2>5, <4>1, <4>2
      <4>4. g[more] = h[more]
        BY <2>2, <2>4, <4>1, <4>3
      <4> QED BY <2>4, <3>2, <4>4 DEF RejectStep
    <3> QED BY <3>1, <3>2
  <2>6. Upto(n + 1)
    BY <2>3, <2>5
  <2> QED BY <2>1, <2>6
<1>3. Reached = Nat
  <2> HIDE DEF Upto
  <2>1. Reached \subseteq Nat
    OBVIOUS
  <2> HIDE DEF Reached
  <2> QED BY <1>1, <1>2, <2>1, Induction
<1>4. PICK g \in [All -> All] : \A keys \in All : g[keys] = RejectStep(defs, g, keys)
  <2>1. Size + 1 \in Nat /\ \A keys \in All : Left(keys) < Size + 1
    <3>1. \A keys \in All : Left(keys) \in Nat /\ Left(keys) <= Size /\ Size \in Nat
      BY LeftType
    <3>2. {} \in All
      OBVIOUS
    <3> QED BY <3>1, <3>2
  <2>2. Upto(Size + 1)
    BY <1>3, <2>1
  <2> QED BY <2>1, <2>2
<1> DEFINE Solves(f) == f = [keys \in All |-> RejectStep(defs, f, keys)]
<1>5. Rejected(defs) = CHOOSE f : Solves(f)
  BY DEF Rejected, RejectStep
<1>6. Solves(g)
  BY <1>4
<1> HIDE DEF Solves
<1>7. Solves(Rejected(defs))
  BY <1>5, <1>6
<1> QED BY <1>7 DEF Solves

\* Every rejected key but the first was rejected for one it refers to.
Supported(defs, first, keys) ==
    /\ first \in keys
    /\ \A k \in keys \ {first} : \E d \in defs : d.key = k /\ d.fields \cap keys # {}

\* The passes end in a set that no structure outside refers to.
LEMMA RejectedExact ==
    ASSUME NEW defs, WellFormed(defs), NEW first \in StructureKeys
    PROVE  LET rejected == Rejected(defs)[{first}]
           IN /\ rejected \in SUBSET StructureKeys
              /\ rejectDependentStructures(defs, rejected) = rejected
              /\ Supported(defs, first, rejected)
<1> DEFINE f == Rejected(defs)
           Fine(keys) == Supported(defs, first, keys) =>
                            /\ f[keys] \in SUBSET StructureKeys
                            /\ rejectDependentStructures(defs, f[keys]) = f[keys]
                            /\ Supported(defs, first, f[keys])
           Wrong == {n \in Nat : \E keys \in SUBSET StructureKeys : n = Left(keys) /\ ~Fine(keys)}
<1>1. \A keys \in SUBSET StructureKeys : f[keys] = RejectStep(defs, f, keys)
  BY RejectedDefined
<1> HIDE DEF f
<1>2. Wrong = {}
  <2> SUFFICES ASSUME Wrong # {} PROVE FALSE
    OBVIOUS
  <2>1. PICK n \in Wrong : \A m \in Wrong : n <= m
    <3>1. Wrong \subseteq Nat
      OBVIOUS
    <3> HIDE DEF Wrong
    <3> QED BY <3>1, LeastNumber
  <2>2. PICK keys \in SUBSET StructureKeys : n = Left(keys) /\ ~Fine(keys)
    OBVIOUS
  <2> DEFINE more == rejectDependentStructures(defs, keys)
  <2>3. CASE more = keys
    BY <1>1, <2>2, <2>3 DEF RejectStep
  <2>4. CASE more # keys
    <3>1. more \in SUBSET StructureKeys /\ keys \subseteq more /\ Left(more) < Left(keys)
      BY <2>4, RejectGrows, LeftFalls
    <3>2. Left(more) \in Nat /\ Left(keys) \in Nat
      BY <3>1, LeftType
    <3>3. ~(n <= Left(more))
      BY <2>2, <3>1, <3>2
    <3>4. Fine(more)
      BY <2>1, <3>1, <3>2, <3>3
    <3>5. f[keys] = f[more]
      BY <1>1, <2>4 DEF RejectStep
    <3>6. Supported(defs, first, keys) => Supported(defs, first, more)
      BY DEF Supported, rejectDependentStructures
    <3> QED BY <2>2, <3>4, <3>5, <3>6
  <2> QED BY <2>3, <2>4
<1>3. Supported(defs, first, {first}) /\ {first} \in SUBSET StructureKeys /\ Left({first}) \in Nat
  BY LeftType DEF Supported
<1>4. Fine({first})
  BY <1>2, <1>3
<1> QED BY <1>3, <1>4 DEF f

\* The structures offered for a field of a structure are exactly those that the
\* save would accept there, for every accepted schema (FilterStructureChoices).
LEMMA ChoicesAccepted ==
    ASSUME NEW defs, WellFormed(defs), UniqueKeys(defs), Resolved(defs), Acyclic(defs),
           NEW d \in defs, d.key \in StructureKeys, \A c \in defs : c.id = d.id => c = d,
           NEW k \in StructuresOf(defs), NEW e, e.key = d.key, e.fields = d.fields \cup {k}
    PROVE  k \in FilterStructureChoices(defs, d.id) <=> NewSchema((defs \ {d}) \cup {e})
<1> DEFINE first == d.key
           rejected == Rejected(defs)[{first}]
           new == (defs \ {d}) \cup {e}
<1>1. k \in FilterStructureChoices(defs, d.id) <=> k \notin rejected
  BY DEF FilterStructureChoices, StructuresOf
<1>2. /\ rejected \in SUBSET StructureKeys
      /\ rejectDependentStructures(defs, rejected) = rejected
      /\ Supported(defs, first, rejected)
  BY RejectedExact
<1>3. k \in Types /\ first \notin EnumKeys
  BY SchemaNames DEF StructuresOf, Keys, Types
<1>4. WellFormed(new)
  BY <1>3 DEF WellFormed
<1>5. UniqueKeys(new)
  BY DEF UniqueKeys
<1>6. Defined(new) = Defined(defs)
  BY DEF Defined
<1>7. Resolved(new)
  BY <1>6 DEF Resolved, StructuresOf
<1>8. NewSchema(new) <=> Acyclic(new)
  BY <1>4, <1>5, <1>7, SchemasAccepted
<1> HIDE DEF rejected
<1>9. Dependencies(new, first) = Dependencies(defs, first) \cup {k}
  <2>1. Dependencies(new, e.key) = e.fields \cap StructureKeys
    BY <1>5, DefinitionFound
  <2>2. Dependencies(defs, d.key) = d.fields \cap StructureKeys
    BY DefinitionFound
  <2> QED BY <2>1, <2>2 DEF StructuresOf
<1>10. \A c \in defs : c.key # first => Dependencies(new, c.key) = Dependencies(defs, c.key)
  <2> SUFFICES ASSUME NEW c \in defs, c.key # first
               PROVE  Dependencies(new, c.key) = Dependencies(defs, c.key)
    OBVIOUS
  <2>1. c \in new
    OBVIOUS
  <2>2. Dependencies(new, c.key) = c.fields \cap StructureKeys
    BY <1>5, <2>1, DefinitionFound
  <2>3. Dependencies(defs, c.key) = c.fields \cap StructureKeys
    BY DefinitionFound
  <2> QED BY <2>2, <2>3
<1> HIDE DEF new
<1>11. ASSUME k \in rejected PROVE ~Acyclic(new)
  <2>1. \A j \in rejected : Dependencies(new, j) \cap rejected # {}
    <3> SUFFICES ASSUME NEW j \in rejected PROVE Dependencies(new, j) \cap rejected # {}
      OBVIOUS
    <3>1. CASE j = first
      BY <1>9, <1>11, <3>1
    <3>2. CASE j # first
      <4>1. PICK c \in defs : c.key = j /\ c.fields \cap rejected # {}
        BY <1>2, <3>2 DEF Supported
      <4>2. Dependencies(new, j) = c.fields \cap StructureKeys
        BY <1>10, <3>2, <4>1, DefinitionFound
      <4> QED BY <1>2, <4>1, <4>2
    <3> QED BY <3>1, <3>2
  <2>2. rejected \subseteq Defined(new)
    BY <1>2, <1>6 DEF Supported, Defined
  <2>3. rejected # {}
    BY <1>2 DEF Supported
  <2> QED BY <1>2, <2>1, <2>2, <2>3 DEF Acyclic
<1>12. ASSUME k \notin rejected, ~Acyclic(new) PROVE FALSE
  <2>1. PICK keys \in (SUBSET StructuresOf(defs)) \ {{}} :
           \A j \in keys : Dependencies(new, j) \cap keys # {}
    BY <1>6, <1>12 DEF Acyclic, StructuresOf
  <2>2. \A j \in StructuresOf(defs) \ rejected : Dependencies(defs, j) \cap rejected = {}
    <3> SUFFICES ASSUME NEW c \in defs, c.key \notin rejected
                 PROVE  Dependencies(defs, c.key) \cap rejected = {}
      BY DEF StructuresOf, Defined
    <3>1. c.fields \cap rejected = {}
      BY <1>2 DEF rejectDependentStructures
    <3> QED BY <3>1, DefinitionFound
  <2>3. \A j \in StructuresOf(defs) : j # first => Dependencies(new, j) = Dependencies(defs, j)
    BY <1>10 DEF StructuresOf, Defined
  <2>4. first \in rejected
    BY <1>2 DEF Supported
  <2>5. CASE keys \ rejected # {}
    <3> DEFINE outside == keys \ rejected
    <3>1. \A j \in outside : Dependencies(defs, j) \cap outside # {}
      BY <2>1, <2>2, <2>3, <2>4
    <3> QED BY <2>5, <3>1 DEF Acyclic, StructuresOf
  <2>6. CASE keys \subseteq rejected
    <3>1. \A j \in keys : Dependencies(defs, j) \cap keys # {}
      BY <1>9, <1>12, <2>1, <2>3, <2>6
    <3> QED BY <3>1 DEF Acyclic, StructuresOf
  <2> QED BY <2>5, <2>6
<1> QED BY <1>1, <1>8, <1>11, <1>12 DEF new, rejected

-----------------------------------------------------------------------------
(* Values *)

\* What holds of no structure, and passes to each structure whose references
\* are done, comes to hold of all of them.
LEMMA InOrder ==
    ASSUME NEW defs, References(defs), Acyclic(defs), NEW Good \in SUBSET SUBSET StructuresOf(defs),
           {} \in Good,
           \A done \in Good : \A k \in StructuresOf(defs) \ done :
               Dependencies(defs, k) \subseteq done => done \cup {k} \in Good
    PROVE  StructuresOf(defs) \in Good
<1> DEFINE Sizes == {n \in Nat : \E done \in Good : n = Left(done)}
<1>1. \A done \in Good : Left(done) \in Nat /\ done \in SUBSET StructureKeys
  BY LeftType DEF StructuresOf
<1>2. PICK n \in Sizes : \A m \in Sizes : n <= m
  <2>1. Sizes \subseteq Nat /\ Sizes # {}
    BY <1>1
  <2> HIDE DEF Sizes
  <2> QED BY <2>1, LeastNumber
<1>3. PICK done \in Good : n = Left(done)
  BY <1>2
<1>4. CASE done = StructuresOf(defs)
  BY <1>4
<1>5. CASE done # StructuresOf(defs)
  <2> DEFINE others == StructuresOf(defs) \ done
  <2>1. PICK k \in others : Dependencies(defs, k) \cap others = {}
    BY <1>5 DEF Acyclic, StructuresOf
  <2>2. Dependencies(defs, k) \subseteq done
    BY <2>1 DEF References
  <2>3. done \cup {k} \in Good
    BY <2>2
  <2>4. Left(done \cup {k}) < Left(done)
    <3>1. /\ StructureKeys \ done \in SUBSET StructureKeys
          /\ StructureKeys \ (done \cup {k}) \in SUBSET (StructureKeys \ done)
          /\ StructureKeys \ (done \cup {k}) # StructureKeys \ done
      BY DEF StructuresOf
    <3> QED BY <3>1, SmallerSize DEF Left
  <2>5. Left(done \cup {k}) \in Nat /\ Left(done \cup {k}) \in Sizes
    BY <1>1, <2>3
  <2>6. Left(done) <= Left(done \cup {k})
    BY <1>2, <1>3, <2>5
  <2> QED BY <1>1, <2>4, <2>5, <2>6
<1> QED BY <1>4, <1>5

\* A structure of a schema, with what its fields refer to.
LEMMA FieldsResolve ==
    ASSUME NEW defs, WellFormed(defs), UniqueKeys(defs), Resolved(defs),
           NEW t \in TypesOf(defs), t \notin BaseTypes
    PROVE  /\ t \in Keys /\ DefinitionOf(defs, t) \in defs /\ DefinitionOf(defs, t).key = t
           /\ FieldsOf(defs, t) \subseteq TypesOf(defs)
           /\ t \notin EnumKeys => t \in StructuresOf(defs)
           /\ FieldsOf(defs, t) \cap StructureKeys = Dependencies(defs, t)
           /\ t \in EnumKeys => /\ DefinitionOf(defs, t).options \in Seq(Options)
                                /\ DefinitionOf(defs, t).options # <<>>
<1>1. PICK d \in defs : d.key = t
  BY DEF TypesOf, Defined
<1>2. DefinitionOf(defs, t) = d
  BY <1>1, DefinitionFound
<1>3. FieldsOf(defs, t) \subseteq TypesOf(defs)
  BY <1>2 DEF FieldsOf, Resolved, TypesOf
<1> QED BY <1>1, <1>2, <1>3 DEF WellFormed, Keys, StructuresOf, TypesOf, Dependencies

ComposeStep(defs, scalars, f, t) ==
    IF t \in BaseTypes THEN {<<scalars[t]>>}
    ELSE IF t \in EnumKeys THEN {<<Head(DefinitionOf(defs, t).options)>>}
    ELSE {<<>>} \cup UNION {Under(field, f[field]) : field \in FieldsOf(defs, t)}

\* The default of a type is that of its fields.
LEMMA ComposeDepends ==
    ASSUME NEW defs, NEW scalars, NEW f, NEW g, NEW t,
           t \notin BaseTypes /\ t \notin EnumKeys => \A field \in FieldsOf(defs, t) : f[field] = g[field]
    PROVE  ComposeStep(defs, scalars, f, t) = ComposeStep(defs, scalars, g, t)
<1>1. CASE t \in BaseTypes \/ t \in EnumKeys
  BY <1>1 DEF ComposeStep
<1>2. CASE t \notin BaseTypes /\ t \notin EnumKeys
  <2>1. {Under(field, f[field]) : field \in FieldsOf(defs, t)}
           = {Under(field, g[field]) : field \in FieldsOf(defs, t)}
    BY <1>2
  <2> QED BY <1>2, <2>1 DEF ComposeStep
<1> QED BY <1>1, <1>2

\* In an accepted schema the recursion of Composed ends.
LEMMA ComposedDefined ==
    ASSUME NEW defs, NEW scalars, WellFormed(defs), UniqueKeys(defs), Resolved(defs), Acyclic(defs),
           NEW type \in TypesOf(defs)
    PROVE  Composed(defs, scalars, type) =
             IF type \in BaseTypes THEN {<<scalars[type]>>}
             ELSE IF type \in EnumKeys THEN {<<Head(DefinitionOf(defs, type).options)>>}
             ELSE {<<>>} \cup UNION {Under(field, Composed(defs, scalars, field)) :
                                        field \in FieldsOf(defs, type)}
<1> DEFINE T == TypesOf(defs)
           Solved(g, done) == /\ g = [t \in T |-> g[t]]
                              /\ \A t \in T : t \notin StructureKeys \/ t \in done =>
                                    g[t] = ComposeStep(defs, scalars, g, t)
           Good == {done \in SUBSET StructuresOf(defs) :
                       /\ \A k \in done : Dependencies(defs, k) \subseteq done
                       /\ \E g : Solved(g, done)}
<1>1. {} \in Good
  <2> DEFINE g == [t \in T |-> ComposeStep(defs, scalars, <<>>, t)]
  <2>1. g = [t \in T |-> g[t]] /\ \A t \in T : g[t] = ComposeStep(defs, scalars, <<>>, t)
    OBVIOUS
  <2> HIDE DEF g
  <2>2. ASSUME NEW t \in T, t \notin StructureKeys PROVE g[t] = ComposeStep(defs, scalars, g, t)
    <3>1. t \in BaseTypes \/ t \in EnumKeys
      BY <2>2, FieldsResolve DEF Keys
    <3> QED BY <2>1, <3>1, ComposeDepends
  <2>3. Solved(g, {})
    BY <2>1, <2>2
  <2> QED BY <2>3
<1>2. ASSUME NEW done \in Good, NEW k \in StructuresOf(defs) \ done, Dependencies(defs, k) \subseteq done
      PROVE  done \cup {k} \in Good
  <2>1. PICK g : Solved(g, done)
    OBVIOUS
  <2> DEFINE h == [t \in T |-> IF t = k THEN ComposeStep(defs, scalars, g, k) ELSE g[t]]
  <2>2. /\ h = [t \in T |-> h[t]] /\ k \in T
        /\ \A t \in T : h[t] = IF t = k THEN ComposeStep(defs, scalars, g, k) ELSE g[t]
    BY DEF StructuresOf, TypesOf
  <2> HIDE DEF h
  <2>3. ASSUME NEW t \in T, t \notin StructureKeys \/ t \in done \cup {k}
        PROVE  h[t] = ComposeStep(defs, scalars, h, t)
    <3>1. ComposeStep(defs, scalars, g, t) = ComposeStep(defs, scalars, h, t)
      <4>1. ASSUME t \notin BaseTypes, t \notin EnumKeys, NEW field \in FieldsOf(defs, t)
            PROVE  g[field] = h[field]
        <5>1. t \in StructureKeys /\ t \in done \cup {k}
          BY <2>3, <4>1, FieldsResolve DEF Keys
        <5>2. field \in T /\ (field \in StructureKeys => field \in Dependencies(defs, t))
          BY <4>1, FieldsResolve
        <5>3. Dependencies(defs, t) \subseteq done
          BY <1>2, <5>1
        <5>4. field # k
          BY <5>2, <5>3 DEF StructuresOf
        <5> QED BY <2>2, <5>2, <5>4
      <4> QED BY <4>1, ComposeDepends
    <3>2. h[t] = ComposeStep(defs, scalars, g, t)
      BY <2>1, <2>2, <2>3
    <3> QED BY <3>1, <3>2
  <2>4. Solved(h, done \cup {k})
    BY <2>2, <2>3
  <2> HIDE DEF Solved
  <2> QED BY <1>2, <2>4
<1>3. PICK g : Solved(g, StructuresOf(defs))
  <2>1. References(defs)
    BY ResolvedReferences
  <2>2. Good \in SUBSET SUBSET StructuresOf(defs)
    OBVIOUS
  <2>3. StructuresOf(defs) \in Good
    <3> HIDE DEF Good
    <3> QED BY <1>1, <1>2, <2>1, <2>2, InOrder
  <2> QED BY <2>3
<1> DEFINE Solves(f) == f = [t \in T |-> ComposeStep(defs, scalars, f, t)]
<1>4. Solves(g)
  <2>1. \A t \in T : t \in StructureKeys => t \in StructuresOf(defs)
    BY SchemaNames DEF StructuresOf, TypesOf
  <2>2. \A t \in T : g[t] = ComposeStep(defs, scalars, g, t)
    BY <1>3, <2>1
  <2> QED BY <1>3, <2>2
<1> DEFINE value == CHOOSE f : Solves(f)
<1>5. \A t : Composed(defs, scalars, t) = value[t]
  BY DEF Composed, ComposeStep
<1> HIDE DEF Solves
<1>6. Solves(value)
  BY <1>4
<1> HIDE DEF value
<1>7. value[type] = ComposeStep(defs, scalars, value, type)
  BY <1>6 DEF Solves
<1>8. {Under(field, Composed(defs, scalars, field)) : field \in FieldsOf(defs, type)}
         = {Under(field, value[field]) : field \in FieldsOf(defs, type)}
  BY <1>5
<1> QED BY <1>5, <1>7, <1>8 DEF ComposeStep

Symbols == Types \cup Options \cup Scalars

LEMMA PathParts ==
    ASSUME NEW S, NEW x \in S, NEW path \in Seq(S)
    PROVE  /\ <<x>> \o path \in Seq(S) /\ <<x>> \o path # <<>>
           /\ Head(<<x>> \o path) = x /\ Tail(<<x>> \o path) = path
<1> DEFINE s == <<x>> \o path
<1>1. <<x>> \in Seq(S) /\ Len(<<x>>) = 1 /\ Len(path) \in Nat
  BY LenProperties
<1>2. /\ s \in Seq(S) /\ Len(s) = 1 + Len(path)
      /\ \A i \in 1..(1 + Len(path)) : s[i] = IF i <= 1 THEN x ELSE path[i - 1]
  BY <1>1, ConcatProperties
<1> HIDE DEF s
<1>3. s # <<>> /\ Head(s) = x
  BY <1>1, <1>2
<1>4. Tail(s) \in Seq(S) /\ Len(Tail(s)) = Len(path) /\ \A i \in 1..Len(path) : Tail(s)[i] = s[i + 1]
  BY <1>1, <1>2, <1>3, HeadTailProperties
<1>5. \A i \in 1..Len(path) : Tail(s)[i] = path[i]
  BY <1>1, <1>2, <1>4
<1>6. Tail(s) = path
  BY <1>4, <1>5, SeqEqual
<1> QED BY <1>2, <1>3, <1>6 DEF s

LEMMA MemberDocument ==
    ASSUME NEW doc \in Documents, NEW field
    PROVE  Member(doc, field) \in Documents
<1>1. \A path \in doc : path \in Seq(Symbols)
  BY DEF Documents, Symbols
<1>2. \A path \in doc : path # <<>> => Tail(path) \in Seq(Symbols)
  BY <1>1, HeadTailProperties
<1> QED BY <1>2 DEF Member, Documents, Symbols

ValueStep(defs, f, v) ==
    LET t == v[1]
        doc == v[2]
    IN IF t \in BaseTypes THEN validateBaseValue(t, doc)
       ELSE IF t \in EnumKeys
       THEN \E i \in DOMAIN DefinitionOf(defs, t).options : doc = {<<DefinitionOf(defs, t).options[i]>>}
       ELSE /\ <<>> \in doc
            /\ Members(doc) = FieldsOf(defs, t)
            /\ \A field \in FieldsOf(defs, t) : f[<<field, Member(doc, field)>>]

LEMMA ValueDepends ==
    ASSUME NEW defs, NEW f, NEW g, NEW v,
           v[1] \notin BaseTypes /\ v[1] \notin EnumKeys =>
               \A field \in FieldsOf(defs, v[1]) :
                   f[<<field, Member(v[2], field)>>] = g[<<field, Member(v[2], field)>>]
    PROVE  ValueStep(defs, f, v) = ValueStep(defs, g, v)
<1>1. CASE v[1] \in BaseTypes \/ v[1] \in EnumKeys
  BY <1>1 DEF ValueStep
<1>2. CASE v[1] \notin BaseTypes /\ v[1] \notin EnumKeys
  BY <1>2, Zenon DEF ValueStep
<1> QED BY <1>1, <1>2

\* In an accepted schema the recursion of validateValue ends.
LEMMA ValueDefined ==
    ASSUME NEW defs, WellFormed(defs), UniqueKeys(defs), Resolved(defs), Acyclic(defs)
    PROVE  \E valid :
             /\ \A t \in TypesOf(defs), doc \in Documents :
                   valid[<<t, doc>>] = ValueStep(defs, valid, <<t, doc>>)
             /\ \A t, doc : validateValue(defs, t, doc) = valid[<<t, doc>>]
<1> DEFINE T == TypesOf(defs)
           D == T \X Documents
           Solved(g, done) == /\ g = [v \in D |-> g[v]]
                              /\ \A v \in D : v[1] \notin StructureKeys \/ v[1] \in done =>
                                    g[v] = ValueStep(defs, g, v)
           Good == {done \in SUBSET StructuresOf(defs) :
                       /\ \A k \in done : Dependencies(defs, k) \subseteq done
                       /\ \E g : Solved(g, done)}
<1>1. {} \in Good
  <2> DEFINE g == [v \in D |-> ValueStep(defs, <<>>, v)]
  <2>1. g = [v \in D |-> g[v]] /\ \A v \in D : g[v] = ValueStep(defs, <<>>, v)
    OBVIOUS
  <2> HIDE DEF g
  <2>2. ASSUME NEW v \in D, v[1] \notin StructureKeys PROVE g[v] = ValueStep(defs, g, v)
    <3>1. v[1] \in BaseTypes \/ v[1] \in EnumKeys
      BY <2>2, FieldsResolve DEF Keys
    <3>2. ValueStep(defs, <<>>, v) = ValueStep(defs, g, v)
      BY <3>1, ValueDepends
    <3> QED BY <2>1, <3>2
  <2>3. Solved(g, {})
    BY <2>1, <2>2
  <2> QED BY <2>3
<1>2. ASSUME NEW done \in Good, NEW k \in StructuresOf(defs) \ done, Dependencies(defs, k) \subseteq done
      PROVE  done \cup {k} \in Good
  <2>1. PICK g : Solved(g, done)
    OBVIOUS
  <2> DEFINE h == [v \in D |-> IF v[1] = k THEN ValueStep(defs, g, v) ELSE g[v]]
  <2>2. /\ h = [v \in D |-> h[v]]
        /\ \A v \in D : h[v] = IF v[1] = k THEN ValueStep(defs, g, v) ELSE g[v]
    OBVIOUS
  <2> HIDE DEF h
  <2>3. ASSUME NEW v \in D, v[1] \notin StructureKeys \/ v[1] \in done \cup {k}
        PROVE  h[v] = ValueStep(defs, h, v)
    <3>1. ValueStep(defs, g, v) = ValueStep(defs, h, v)
      <4>1. ASSUME v[1] \notin BaseTypes, v[1] \notin EnumKeys, NEW field \in FieldsOf(defs, v[1])
            PROVE  g[<<field, Member(v[2], field)>>] = h[<<field, Member(v[2], field)>>]
        <5>1. v[1] \in T /\ v[2] \in Documents
          OBVIOUS
        <5>2. v[1] \in StructureKeys /\ v[1] \in done \cup {k}
          BY <2>3, <4>1, <5>1, FieldsResolve DEF Keys
        <5>3. field \in T /\ (field \in StructureKeys => field \in Dependencies(defs, v[1]))
          BY <4>1, <5>1, FieldsResolve
        <5>4. Dependencies(defs, v[1]) \subseteq done
          BY <1>2, <5>2
        <5>5. field # k
          BY <5>3, <5>4 DEF StructuresOf
        <5>6. Member(v[2], field) \in Documents
          BY <5>1, MemberDocument
        <5>7. <<field, Member(v[2], field)>> \in D
          BY <5>3, <5>6
        <5> QED BY <2>2, <5>5, <5>7
      <4> QED BY <4>1, ValueDepends
    <3>2. h[v] = ValueStep(defs, g, v)
      BY <2>1, <2>2, <2>3
    <3> QED BY <3>1, <3>2
  <2>4. Solved(h, done \cup {k})
    BY <2>2, <2>3
  <2> HIDE DEF Solved
  <2> QED BY <1>2, <2>4
<1>3. PICK g : Solved(g, StructuresOf(defs))
  <2>1. References(defs)
    BY ResolvedReferences
  <2>2. Good \in SUBSET SUBSET StructuresOf(defs)
    OBVIOUS
  <2>3. StructuresOf(defs) \in Good
    <3> HIDE DEF Good
    <3> QED BY <1>1, <1>2, <2>1, <2>2, InOrder
  <2> QED BY <2>3
<1> DEFINE Solves(f) == f = [v \in D |-> ValueStep(defs, f, v)]
<1>4. Solves(g)
  <2>1. \A v \in D : v[1] \in StructureKeys => v[1] \in StructuresOf(defs)
    BY SchemaNames DEF StructuresOf, TypesOf
  <2>2. \A v \in D : g[v] = ValueStep(defs, g, v)
    BY <1>3, <2>1
  <2> QED BY <1>3, <2>2
<1> DEFINE valid == CHOOSE f : Solves(f)
<1>5. \A t, doc : validateValue(defs, t, doc) = valid[<<t, doc>>]
  BY Zenon DEF validateValue, ValueStep
<1> HIDE DEF Solves
<1>6. Solves(valid)
  BY <1>4
<1> HIDE DEF valid
<1>7. \A v \in D : valid[v] = ValueStep(defs, valid, v)
  BY <1>6 DEF Solves
<1> QED BY <1>5, <1>7

\* The members of a default value are the defaults of the fields.
Assembled(fields, value) == {<<>>} \cup UNION {Under(field, value[field]) : field \in fields}

LEMMA DefaultMembers ==
    ASSUME NEW fields \in SUBSET Symbols, NEW value,
           \A field \in fields : value[field] \in Documents /\ value[field] # {}
    PROVE  /\ Assembled(fields, value) \in Documents /\ <<>> \in Assembled(fields, value)
           /\ Members(Assembled(fields, value)) = fields
           /\ \A field \in fields : Member(Assembled(fields, value), field) = value[field]
<1> DEFINE doc == Assembled(fields, value)
<1>1. \A field \in fields : \A path \in value[field] : path \in Seq(Symbols)
  BY DEF Documents, Symbols
<1>2. \A field \in fields : \A path \in value[field] :
         /\ <<field>> \o path \in Seq(Symbols) /\ <<field>> \o path # <<>>
         /\ Head(<<field>> \o path) = field /\ Tail(<<field>> \o path) = path
  BY <1>1, PathParts
<1>3. \A p \in doc : p # <<>> => \E field \in fields : \E path \in value[field] : p = <<field>> \o path
  BY DEF Under, Assembled
<1>4. \A field \in fields : \A path \in value[field] : <<field>> \o path \in doc
  BY DEF Under, Assembled
<1>5. <<>> \in doc /\ <<>> \in Seq(Symbols)
  BY EmptySeq DEF Assembled
<1> HIDE DEF doc
<1>6. doc \in Documents
  <2>1. ASSUME NEW p \in doc PROVE p \in Seq(Symbols)
    <3>1. CASE p = <<>>
      BY <1>5, <3>1
    <3>2. CASE p # <<>>
      <4>1. PICK field \in fields : \E path \in value[field] : p = <<field>> \o path
        BY <1>3, <3>2
      <4>2. PICK path \in value[field] : p = <<field>> \o path
        BY <4>1
      <4> QED BY <1>2, <4>2
    <3> QED BY <3>1, <3>2
  <2> QED BY <2>1 DEF Documents, Symbols
<1>7. Members(doc) = fields
  <2>1. ASSUME NEW p \in doc \ {<<>>} PROVE Head(p) \in fields
    <3>1. PICK field \in fields : \E path \in value[field] : p = <<field>> \o path
      BY <1>3
    <3>2. PICK path \in value[field] : p = <<field>> \o path
      BY <3>1
    <3> QED BY <1>2, <3>2
  <2>2. ASSUME NEW field \in fields PROVE \E p \in doc \ {<<>>} : Head(p) = field
    <3>1. PICK path \in value[field] : TRUE
      OBVIOUS
    <3> QED BY <1>2, <1>4, <3>1
  <2> QED BY <2>1, <2>2 DEF Members
<1>8. ASSUME NEW field \in fields PROVE Member(doc, field) = value[field]
  <2>1. ASSUME NEW p \in doc, p # <<>>, Head(p) = field PROVE Tail(p) \in value[field]
    <3>1. PICK other \in fields : \E path \in value[other] : p = <<other>> \o path
      BY <1>3, <2>1
    <3>2. PICK path \in value[other] : p = <<other>> \o path
      BY <3>1
    <3>3. other = field /\ Tail(p) = path
      BY <1>2, <2>1, <3>2
    <3> QED BY <3>2, <3>3
  <2>2. ASSUME NEW path \in value[field]
        PROVE  \E p \in doc : p # <<>> /\ Head(p) = field /\ Tail(p) = path
    BY <1>2, <1>4
  <2> QED BY <2>1, <2>2 DEF Member
<1> QED BY <1>5, <1>6, <1>7, <1>8 DEF doc

\* A set of types that, with a structure, has the types of its fields.
Closed(defs, types) == \A t \in types \cap StructureKeys : FieldsOf(defs, t) \subseteq types

\* A document made by the schema is accepted by ValidateConfig exactly if the
\* scalars of all base types it uses are, at any depth: for every schema that
\* NewSchema accepts and every type.
THEOREM ComposedAccepted ==
    ASSUME NEW defs, NEW scalars \in [BaseTypes -> Scalars],
           WellFormed(defs), NewSchema(defs), NEW type, validateType(defs, type)
    PROVE  /\ Composed(defs, scalars, type) \in Documents
           /\ ValidateConfig(defs, type, Composed(defs, scalars, type))
                <=> \E types \in SUBSET TypesOf(defs) :
                      /\ type \in types
                      /\ Closed(defs, types)
                      /\ \A t \in types \cap BaseTypes : scalars[t] \in BaseValues[t]
<1> DEFINE T == TypesOf(defs)
           value == [t \in T |-> Composed(defs, scalars, t)]
<1>1. UniqueKeys(defs) /\ Resolved(defs) /\ Acyclic(defs) /\ References(defs)
  BY SchemasAccepted, ResolvedReferences
<1>2. PICK valid :
         /\ \A t \in T, doc \in Documents : valid[<<t, doc>>] = ValueStep(defs, valid, <<t, doc>>)
         /\ \A t, doc : validateValue(defs, t, doc) = valid[<<t, doc>>]
  BY <1>1, ValueDefined
<1>3. \A t \in T : value[t] = ComposeStep(defs, scalars, value, t)
  <2> SUFFICES ASSUME NEW t \in T PROVE value[t] = ComposeStep(defs, scalars, value, t)
    OBVIOUS
  <2>1. CASE t \in BaseTypes \/ t \in EnumKeys
    BY <1>1, <2>1, ComposedDefined DEF ComposeStep
  <2>2. CASE t \notin BaseTypes /\ t \notin EnumKeys
    <3>1. FieldsOf(defs, t) \subseteq T
      BY <1>1, <2>2, FieldsResolve
    <3>2. {Under(field, Composed(defs, scalars, field)) : field \in FieldsOf(defs, t)}
             = {Under(field, value[field]) : field \in FieldsOf(defs, t)}
      BY <3>1
    <3>3. Composed(defs, scalars, t)
             = {<<>>} \cup UNION {Under(field, Composed(defs, scalars, field)) : field \in FieldsOf(defs, t)}
      BY <1>1, <2>2, ComposedDefined
    <3>4. value[t] = {<<>>} \cup UNION {Under(field, value[field]) : field \in FieldsOf(defs, t)}
      BY <3>2, <3>3
    <3> HIDE DEF value
    <3> QED BY <2>2, <3>4 DEF ComposeStep
  <2> QED BY <2>1, <2>2
<1>4. \A t : t \in T => value[t] = Composed(defs, scalars, t)
  OBVIOUS
<1> HIDE DEF value
<1> DEFINE Shaped(t) == value[t] \in Documents /\ value[t] # {}
           Good == {k \in StructuresOf(defs) : Shaped(k)}
           Ok(t) == valid[<<t, value[t]>>]
<1>5. \A t \in BaseTypes : Shaped(t) /\ (Ok(t) <=> scalars[t] \in BaseValues[t])
  <2> SUFFICES ASSUME NEW t \in BaseTypes PROVE Shaped(t) /\ (Ok(t) <=> scalars[t] \in BaseValues[t])
    OBVIOUS
  <2>1. t \in T /\ value[t] = {<<scalars[t]>>} /\ scalars[t] \in Scalars
    BY <1>3 DEF TypesOf, ComposeStep
  <2>2. value[t] \in Documents
    BY <2>1 DEF Documents
  <2>3. valid[<<t, value[t]>>] = ValueStep(defs, valid, <<t, value[t]>>)
    BY <1>2, <2>1, <2>2
  <2>4. ValueStep(defs, valid, <<t, value[t]>>) <=> validateBaseValue(t, value[t])
    BY DEF ValueStep
  <2>5. validateBaseValue(t, value[t]) <=> scalars[t] \in BaseValues[t]
    <3>1. ASSUME NEW x, {<<scalars[t]>>} = {<<x>>}
          PROVE  scalars[t] = x
      <4>1. <<scalars[t]>> = <<x>>
        BY ONLY <3>1
      <4> QED BY ONLY <4>1
    <3> QED BY <2>1, <3>1 DEF validateBaseValue
  <2> QED BY <2>1, <2>2, <2>3, <2>4, <2>5
<1>6. \A t \in T : t \in EnumKeys => Shaped(t) /\ Ok(t)
  <2> SUFFICES ASSUME NEW t \in T, t \in EnumKeys PROVE Shaped(t) /\ Ok(t)
    OBVIOUS
  <2> DEFINE options == DefinitionOf(defs, t).options
  <2>1. t \notin BaseTypes
    BY SchemaNames
  <2>2. options \in Seq(Options) /\ options # <<>>
    BY <1>1, <2>1, FieldsResolve
  <2>3. value[t] = {<<Head(options)>>}
    BY <1>3, <2>1 DEF ComposeStep
  <2>4. Head(options) = options[1] /\ 1 \in DOMAIN options /\ options[1] \in Options
    <3>1. Len(options) \in Nat \ {0} /\ DOMAIN options = 1..Len(options)
      BY <2>2, EmptySeq, LenProperties
    <3> QED BY <2>2, <3>1, ElementOfSeq, HeadTailProperties
  <2> HIDE DEF options
  <2>5. value[t] \in Documents
    BY <2>3, <2>4 DEF Documents
  <2>6. valid[<<t, value[t]>>] = ValueStep(defs, valid, <<t, value[t]>>)
    BY <1>2, <2>5
  <2>7. \E i \in DOMAIN DefinitionOf(defs, t).options :
           value[t] = {<<DefinitionOf(defs, t).options[i]>>}
    BY <2>3, <2>4 DEF options
  <2>8. ValueStep(defs, valid, <<t, value[t]>>) = TRUE
    BY <2>1, <2>7 DEF ValueStep
  <2> QED BY <2>3, <2>5, <2>6, <2>8
<1>7. \A k \in StructuresOf(defs) :
         /\ k \in T /\ FieldsOf(defs, k) \subseteq T
         /\ Dependencies(defs, k) \subseteq Good =>
               Shaped(k) /\ (Ok(k) <=> \A field \in FieldsOf(defs, k) : Ok(field))
  <2> SUFFICES ASSUME NEW k \in StructuresOf(defs)
               PROVE  /\ k \in T /\ FieldsOf(defs, k) \subseteq T
                      /\ Dependencies(defs, k) \subseteq Good =>
                            Shaped(k) /\ (Ok(k) <=> \A field \in FieldsOf(defs, k) : Ok(field))
    OBVIOUS
  <2> DEFINE fields == FieldsOf(defs, k)
  <2>1. k \in T /\ k \notin BaseTypes /\ k \notin EnumKeys
    BY SchemaNames DEF StructuresOf, TypesOf
  <2>2. fields \subseteq T /\ fields \cap StructureKeys = Dependencies(defs, k)
    BY <1>1, <2>1, FieldsResolve
  <2> SUFFICES ASSUME Dependencies(defs, k) \subseteq Good
               PROVE  Shaped(k) /\ (Ok(k) <=> \A field \in fields : Ok(field))
    BY <2>1, <2>2
  <2>3. \A field \in fields : Shaped(field)
    <3> SUFFICES ASSUME NEW field \in fields PROVE Shaped(field)
      OBVIOUS
    <3>1. CASE field \in BaseTypes
      BY <1>5, <3>1
    <3>2. CASE field \in EnumKeys
      BY <1>6, <2>2, <3>2
    <3>3. CASE field \in StructureKeys
      BY <2>2, <3>3
    <3>4. field \in BaseTypes \/ field \in EnumKeys \/ field \in StructureKeys
      BY <1>1, <2>2, FieldsResolve DEF Keys
    <3> QED BY <3>1, <3>2, <3>3, <3>4
  <2>4. fields \in SUBSET Symbols
    <3>1. T \subseteq Types
      BY <1>1, FieldsResolve DEF TypesOf, Types
    <3> QED BY <2>2, <3>1 DEF Symbols
  <2>5. value[k] = {<<>>} \cup UNION {Under(field, value[field]) : field \in fields}
    BY <1>3, <2>1 DEF ComposeStep
  <2> HIDE DEF fields
  <2>6. /\ value[k] \in Documents /\ <<>> \in value[k] /\ Members(value[k]) = fields
        /\ \A field \in fields : Member(value[k], field) = value[field]
    <3>1. \A field \in fields : value[field] \in Documents /\ value[field] # {}
      BY <2>3
    <3>2. value[k] = Assembled(fields, value)
      BY <2>5 DEF Assembled
    <3>3. /\ Assembled(fields, value) \in Documents /\ <<>> \in Assembled(fields, value)
          /\ Members(Assembled(fields, value)) = fields
          /\ \A field \in fields : Member(Assembled(fields, value), field) = value[field]
      BY ONLY <2>4, <3>1, DefaultMembers
    <3> QED BY <3>2, <3>3
  <2>7. valid[<<k, value[k]>>] = ValueStep(defs, valid, <<k, value[k]>>)
    BY <1>2, <2>1, <2>6
  <2>8. ValueStep(defs, valid, <<k, value[k]>>)
           <=> \A field \in fields : valid[<<field, Member(value[k], field)>>]
    BY <2>1, <2>6 DEF ValueStep, fields
  <2>9. (\A field \in fields : valid[<<field, Member(value[k], field)>>])
           <=> \A field \in fields : valid[<<field, value[field]>>]
    BY <2>6
  <2> QED BY <2>6, <2>7, <2>8, <2>9
<1>8. Good = StructuresOf(defs)
  <2> DEFINE others == StructuresOf(defs) \ Good
  <2> SUFFICES ASSUME others # {} PROVE FALSE
    BY DEF Good
  <2>1. others \in SUBSET StructuresOf(defs)
    OBVIOUS
  <2> HIDE DEF Good
  <2>2. PICK k \in others : Dependencies(defs, k) \cap others = {}
    BY <1>1, <2>1 DEF Acyclic, StructuresOf
  <2>3. Dependencies(defs, k) \subseteq Good
    BY <1>1, <2>2 DEF References
  <2> QED BY <1>7, <2>3 DEF Good
<1>9. /\ type \in T
      /\ \A t \in T : t \in BaseTypes \/ t \in EnumKeys \/ t \in StructuresOf(defs)
  <2>1. type \in T
    BY DEF validateType, TypesOf
  <2> QED BY <1>1, <2>1, FieldsResolve
<1>10. \A k \in StructuresOf(defs) :
          /\ FieldsOf(defs, k) \subseteq T
          /\ Ok(k) <=> \A field \in FieldsOf(defs, k) : Ok(field)
  <2>1. \A k \in StructuresOf(defs) : Dependencies(defs, k) \subseteq Good
    BY <1>1, <1>8 DEF References
  <2> HIDE DEF Good
  <2> QED BY <1>7, <2>1
<1>11. Composed(defs, scalars, type) \in Documents
  BY <1>4, <1>5, <1>6, <1>8, <1>9
<1>12. ValidateConfig(defs, type, Composed(defs, scalars, type)) <=> Ok(type)
  BY <1>2, <1>4, <1>9 DEF ValidateConfig
<1>13. ASSUME NEW types \in SUBSET T, Closed(defs, types),
              \A t \in types \cap BaseTypes : scalars[t] \in BaseValues[t]
       PROVE  \A t \in types : Ok(t)
  <2> DEFINE others == {k \in StructuresOf(defs) : k \in types /\ ~Ok(k)}
  <2> HIDE DEF Ok
  <2>1. others = {}
    <3> SUFFICES ASSUME others # {} PROVE FALSE
      OBVIOUS
    <3>1. others \in SUBSET StructuresOf(defs)
      OBVIOUS
    <3>2. PICK k \in others : Dependencies(defs, k) \cap others = {}
      <4> HIDE DEF others
      <4> QED BY <1>1, <3>1 DEF Acyclic, StructuresOf
    <3>3. FieldsOf(defs, k) \subseteq types
      BY <1>13 DEF Closed, StructuresOf
    <3>4. \A field \in FieldsOf(defs, k) : Ok(field)
      <4> SUFFICES ASSUME NEW field \in FieldsOf(defs, k) PROVE Ok(field)
        OBVIOUS
      <4>1. field \in T /\ field \in types
        BY <1>13, <3>3
      <4>2. CASE field \in BaseTypes
        BY <1>5, <1>13, <4>1, <4>2
      <4>3. CASE field \in EnumKeys
        BY <1>6, <4>1, <4>3
      <4>4. CASE field \in StructuresOf(defs)
        <5>1. field \in Dependencies(defs, k)
          BY <4>4 DEF Dependencies, StructuresOf
        <5> QED BY <3>2, <4>1, <4>4, <5>1
      <4> QED BY <1>9, <4>1, <4>2, <4>3, <4>4
    <3> QED BY <1>10, <3>4
  <2> QED BY <1>5, <1>6, <1>9, <1>13, <2>1
<1>14. ASSUME Ok(type)
       PROVE  \E types \in SUBSET T :
                 /\ type \in types
                 /\ Closed(defs, types)
                 /\ \A t \in types \cap BaseTypes : scalars[t] \in BaseValues[t]
  <2> DEFINE types == {t \in T : Ok(t)}
  <2>1. types \in SUBSET T /\ type \in types
    BY <1>9, <1>14
  <2>2. \A t \in types \cap BaseTypes : scalars[t] \in BaseValues[t]
    BY <1>5
  <2>3. ASSUME NEW k \in types \cap StructureKeys, NEW field \in FieldsOf(defs, k)
        PROVE  field \in types
    <3>1. k \in StructuresOf(defs)
      BY SchemaNames DEF StructuresOf, TypesOf
    <3> QED BY <1>10, <2>3, <3>1
  <2>4. Closed(defs, types)
    BY <2>3 DEF Closed
  <2> HIDE DEF types
  <2> QED BY <2>1, <2>2, <2>4
<1> QED BY <1>11, <1>12, <1>13, <1>14

\* DefaultValue makes a document that ValidateConfig accepts exactly for the types
\* that use no date, time or range, at any depth: the default of those is empty,
\* which validTime and validRange refuse, so that such a value has to be filled in
\* before it can be saved.
THEOREM DefaultsAccepted ==
    ASSUME NEW defs, WellFormed(defs), NewSchema(defs), NEW type, validateType(defs, type)
    PROVE  /\ DefaultValue(defs, type) \in Documents
           /\ ValidateConfig(defs, type, DefaultValue(defs, type))
                <=> \E types \in SUBSET TypesOf(defs) :
                      /\ type \in types
                      /\ Closed(defs, types)
                      /\ types \cap BaseTypes \cap {"DATE", "DATE_RANGE"} = {}
<1>1. BaseDefault \in [BaseTypes -> Scalars]
  BY DEF BaseDefault, Scalars
<1>2. ASSUME NEW t \in BaseTypes
      PROVE  BaseDefault[t] \in BaseValues[t] <=> t \notin {"DATE", "DATE_RANGE"}
  <2>1. t \in {"STRING", "INT", "BOOLEAN", "DATE", "DATE_RANGE"}
    BY BaseTypesAssumption
  <2> QED BY <2>1 DEF BaseDefault, BaseValues
<1>3. ASSUME NEW types \in SUBSET TypesOf(defs)
      PROVE  (\A t \in types \cap BaseTypes : BaseDefault[t] \in BaseValues[t])
                <=> types \cap BaseTypes \cap {"DATE", "DATE_RANGE"} = {}
  BY <1>2
<1>4. /\ Composed(defs, BaseDefault, type) \in Documents
      /\ ValidateConfig(defs, type, Composed(defs, BaseDefault, type))
           <=> \E types \in SUBSET TypesOf(defs) :
                 /\ type \in types
                 /\ Closed(defs, types)
                 /\ \A t \in types \cap BaseTypes : BaseDefault[t] \in BaseValues[t]
  BY <1>1, ComposedAccepted
<1> QED BY <1>3, <1>4 DEF DefaultValue

-----------------------------------------------------------------------------
(* The tables under concurrent edits *)

RowShape == [state : {"absent", "live", "deleted"}, key : Keys, content : Contents, version : Nat]

\* Rows fit their keys, keys are unique with the deleted ones, and a row that
\* was never inserted has no version.
TableKept(table) ==
    /\ table \in [Ids -> RowShape]
    /\ \A i \in Ids : table[i].content \in ContentsFor(table[i].key)
    /\ \A i \in Ids : table[i].state = "absent" => table[i].version = 0
    /\ \A i, j \in Ids :
          table[i].state # "absent" /\ table[j].state # "absent" /\ table[i].key = table[j].key => i = j

Sound(defs, type) ==
    /\ UniqueKeys(defs)
    /\ Resolved(defs)
    /\ Acyclic(defs)
    /\ validateType(defs, type)

SchemaKept ==
    /\ config = [type |-> config.type, value |-> config.value, version |-> config.version]
    /\ config.version \in Nat
    /\ Sound(ListForConfig(rows), config.type)

\* The definitions of the snapshot, as NewSchema would read them.
SavedDefinitions ==
    {[id |-> 0, key |-> d.key, fields |-> d.content.fields, options |-> d.content.options] :
        d \in saved.definitions}

SavedKept ==
    /\ \A d \in saved.definitions :
          /\ d.key \in Keys
          /\ d.content \in ContentsFor(d.key)
          /\ d = [key |-> d.key, content |-> d.content]
    /\ \A c, d \in saved.definitions : c.key = d.key => c = d
    /\ Sound(SavedDefinitions, saved.type)

\* The arguments of a call; a row that still has the version an update was
\* shown is the row it was shown.
CallsKept ==
    /\ step \in [Editors -> {"idle", "begun", "locked"}]
    /\ call = [e \in Editors |-> call[e]]
    /\ \A e \in Editors :
          /\ call[e].id \in Ids /\ call[e].key \in Keys /\ call[e].version \in Nat
          /\ call[e].content \in ContentsFor(call[e].key)
          /\ call[e].op = "update" =>
                /\ call[e].version <= rows[call[e].id].version
                /\ call[e].version = rows[call[e].id].version => rows[call[e].id] = call[e].base

\* Who holds the configuration row has read what is in the tables.
LockKept ==
    /\ view = [e \in Editors |-> view[e]]
    /\ \A e \in Editors :
          step[e] = "locked" => holder = e /\ view[e] = [rows |-> rows, config |-> config]

\* The inductive invariant.
Kept == TableKept(rows) /\ SchemaKept /\ SavedKept /\ CallsKept /\ LockKept

\* Every write of a row raises its version.
Rises(old, new) == \A i \in Ids : new[i] = old[i] \/ old[i].version < new[i].version

\* A key says which content it has.
FitsKey(key, content) ==
    /\ content.fields \subseteq Types
    /\ key \in EnumKeys =>
          content.fields = {} /\ content.options \in Seq(Options) /\ content.options # <<>>

LEMMA ContentFits ==
    ASSUME NEW key \in Keys, NEW content \in ContentsFor(key)
    PROVE  content \in Contents /\ FitsKey(key, content)
<1>1. content \in Contents /\ (key \in EnumKeys => content.options # <<>>)
  BY SchemaNames DEF ContentsFor, Keys
<1>2. CASE \E f \in SUBSET Types : content = [fields |-> f, options |-> <<>>]
  BY <1>1, <1>2 DEF FitsKey
<1>3. CASE \E o \in OptionLists : content = [fields |-> {}, options |-> o]
  BY <1>1, <1>3, EditBounds DEF FitsKey
<1> QED BY <1>1, <1>2, <1>3 DEF Contents

LEMMA SomeKeyFits ==
    /\ SomeKey \in StructureKeys /\ SomeKey \in Keys
    /\ NoContent \in Contents /\ NoContent \in ContentsFor(SomeKey)
<1>1. SomeKey \in StructureKeys /\ SomeKey \in Keys
  BY SchemaNames DEF SomeKey, Keys
<1>2. NoContent \in Contents /\ NoContent.options = <<>>
  BY DEF NoContent, Contents
<1> QED BY <1>1, <1>2 DEF ContentsFor

\* What is read from a kept table is well formed, with unique keys and ids.
LEMMA ListKept ==
    ASSUME NEW table, TableKept(table)
    PROVE  /\ WellFormed(ListForConfig(table)) /\ UniqueKeys(ListForConfig(table))
           /\ \A c, d \in ListForConfig(table) : c.id = d.id => c = d
<1>1. \A i \in Ids : table[i].key \in Keys /\ FitsKey(table[i].key, table[i].content)
  <2> SUFFICES ASSUME NEW i \in Ids
               PROVE  table[i].key \in Keys /\ FitsKey(table[i].key, table[i].content)
    OBVIOUS
  <2>1. table[i].key \in Keys /\ table[i].content \in ContentsFor(table[i].key)
    BY DEF TableKept, RowShape
  <2> QED BY <2>1, ContentFits
<1>2. WellFormed(ListForConfig(table))
  BY <1>1 DEF FitsKey, WellFormed, ListForConfig, Live
<1>3. UniqueKeys(ListForConfig(table))
  BY DEF TableKept, UniqueKeys, ListForConfig, Live
<1>4. \A c, d \in ListForConfig(table) : c.id = d.id => c = d
  BY DEF ListForConfig
<1> QED BY <1>2, <1>3, <1>4

\* A schema accepted by NewSchema stays sound when its rows get their ids.
LEMMA AcceptedSound ==
    ASSUME NEW defs, WellFormed(defs), NewSchema(defs), NEW table, TableKept(table),
           Covers(defs, ListForConfig(table)), Covers(ListForConfig(table), defs),
           NEW type, type \in BaseTypes \cup Defined(defs)
    PROVE  Sound(ListForConfig(table), type)
<1>1. UniqueKeys(defs) /\ Resolved(defs) /\ Acyclic(defs)
  BY SchemasAccepted
<1>2. UniqueKeys(ListForConfig(table))
  BY ListKept
<1>3. /\ Resolved(ListForConfig(table)) /\ Acyclic(ListForConfig(table))
      /\ Defined(ListForConfig(table)) = Defined(defs)
  BY <1>1, <1>2, SameDefinitions
<1> QED BY <1>2, <1>3 DEF Sound, validateType

\* The snapshot of a table has its keys and fields.
LEMMA SavedCovers ==
    ASSUME NEW table, saved.definitions = ContentOf(table)
    PROVE  /\ Covers(SavedDefinitions, ListForConfig(table))
           /\ Covers(ListForConfig(table), SavedDefinitions)
<1>1. ASSUME NEW x \in ListForConfig(table)
      PROVE  \E y \in SavedDefinitions : y.key = x.key /\ y.fields = x.fields
  <2>1. PICK i \in Live(table) : x.key = table[i].key /\ x.fields = table[i].content.fields
    BY DEF ListForConfig
  <2> DEFINE d == [key |-> table[i].key, content |-> table[i].content]
             y == [id |-> 0, key |-> d.key, fields |-> d.content.fields,
                   options |-> d.content.options]
  <2>2. d \in saved.definitions
    BY DEF ContentOf
  <2>3. y \in SavedDefinitions
    <3> HIDE DEF d
    <3> QED BY <2>2 DEF SavedDefinitions
  <2> QED BY <2>1, <2>3
<1>2. ASSUME NEW x \in SavedDefinitions
      PROVE  \E y \in ListForConfig(table) : y.key = x.key /\ y.fields = x.fields
  <2>1. PICK d \in ContentOf(table) : x.key = d.key /\ x.fields = d.content.fields
    BY DEF SavedDefinitions
  <2>2. PICK i \in Live(table) : d = [key |-> table[i].key, content |-> table[i].content]
    BY DEF ContentOf
  <2> DEFINE y == [id |-> i, key |-> table[i].key, fields |-> table[i].content.fields,
                   options |-> table[i].content.options]
  <2>3. y \in ListForConfig(table)
    BY DEF ListForConfig
  <2> QED BY <2>1, <2>2, <2>3
<1> QED BY <1>1, <1>2 DEF Covers

-----------------------------------------------------------------------------
LEMMA InitKept == Init => Kept
<1> SUFFICES ASSUME Init PROVE Kept
  OBVIOUS
<1>1. PICK seed \in Seeds :
         rows = [i \in Ids |-> IF i \in DOMAIN seed THEN RestoredRow(NoRow, seed[i].key, seed[i].content)
                                                   ELSE NoRow]
  BY DEF Init
<1>2. /\ \A i \in DOMAIN seed : /\ seed[i].key \in Keys /\ seed[i].content \in Contents
                                /\ seed[i].content \in ContentsFor(seed[i].key)
      /\ \A i, j \in DOMAIN seed : seed[i].key = seed[j].key => i = j
  <2>1. seed \in Seq([key : Keys, content : Contents])
    BY SeedsAssumption
  <2>2. \A i \in DOMAIN seed : seed[i] \in [key : Keys, content : Contents]
    <3>1. DOMAIN seed = 1..Len(seed)
      BY <2>1, LenProperties
    <3> QED BY <2>1, <3>1, ElementOfSeq
  <2> QED BY <2>2, SeedsAssumption
<1>3. TableKept(rows)
  <2>1. \A i \in Ids : rows[i] \in RowShape
    BY <1>1, <1>2, SomeKeyFits DEF RestoredRow, NoRow, RowShape
  <2>2. \A i \in Ids : /\ rows[i].content \in ContentsFor(rows[i].key)
                       /\ rows[i].state = "absent" => rows[i].version = 0
    BY <1>1, <1>2, SomeKeyFits DEF RestoredRow, NoRow
  <2>3. \A i \in Ids : rows[i].state # "absent" => i \in DOMAIN seed /\ rows[i].key = seed[i].key
    BY <1>1 DEF RestoredRow, NoRow
  <2>4. rows \in [Ids -> RowShape]
    BY <1>1, <2>1
  <2> QED BY <1>2, <2>2, <2>3, <2>4 DEF TableKept
<1>4. PICK type \in Types :
         /\ validateType(ListForConfig(rows), type)
         /\ config = [type |-> type, value |-> Composed(ListForConfig(rows), FilledIn, type), version |-> 1]
         /\ saved = [type |-> type, value |-> config.value, definitions |-> ContentOf(rows)]
  BY DEF Init
<1>5. Sound(ListForConfig(rows), type)
  BY <1>3, <1>4, ListKept, SchemasAccepted DEF Init, Sound
<1>6. SchemaKept
  BY <1>4, <1>5 DEF SchemaKept
<1>7. SavedKept
  <2>1. saved.definitions = ContentOf(rows) /\ saved.type = type
    BY <1>4
  <2>2. \A d \in saved.definitions : /\ d.key \in Keys /\ d.content \in ContentsFor(d.key)
                                     /\ d = [key |-> d.key, content |-> d.content]
    BY <1>3, <2>1 DEF ContentOf, Live, TableKept, RowShape
  <2>3. \A c, d \in saved.definitions : c.key = d.key => c = d
    BY <1>3, <2>1 DEF ContentOf, Live, TableKept
  <2>4. UniqueKeys(SavedDefinitions)
    BY <2>3 DEF UniqueKeys, SavedDefinitions
  <2>5. Covers(SavedDefinitions, ListForConfig(rows)) /\ Covers(ListForConfig(rows), SavedDefinitions)
    BY <2>1, SavedCovers
  <2>6. Sound(SavedDefinitions, saved.type)
    BY <1>5, <2>1, <2>4, <2>5, SameDefinitions DEF Sound, validateType
  <2> QED BY <2>2, <2>3, <2>6 DEF SavedKept
<1>8. CallsKept
  BY SomeKeyFits, EditBounds DEF Init, CallsKept, NoCall
<1>9. LockKept
  BY DEF Init, LockKept
<1> QED BY <1>3, <1>6, <1>7, <1>8, <1>9 DEF Kept

\* The calls in progress while one ends: the others hold no lock, and the rows
\* they were shown are older or the same.
LEMMA EndKeeps ==
    ASSUME Kept, NEW e \in Editors, End(e), TableKept(rows'), Rises(rows, rows')
    PROVE  SavedKept' /\ CallsKept' /\ LockKept'
<1>1. SavedKept'
  BY DEF Kept, End, SavedKept, SavedDefinitions
<1>2. \A i \in Ids : rows[i].version \in Nat /\ rows'[i].version \in Nat
  BY DEF Kept, TableKept, RowShape
<1>3. \A f \in Editors : call'[f] = IF f = e THEN NoCall ELSE call[f]
  BY DEF Kept, CallsKept, End
<1>4. CallsKept'
  <2>1. step' \in [Editors -> {"idle", "begun", "locked"}] /\ call' = [f \in Editors |-> call'[f]]
    BY DEF Kept, CallsKept, End
  <2>2. ASSUME NEW f \in Editors
        PROVE  /\ call'[f].id \in Ids /\ call'[f].key \in Keys /\ call'[f].version \in Nat
               /\ call'[f].content \in ContentsFor(call'[f].key)
               /\ call'[f].op = "update" =>
                     /\ call'[f].version <= rows'[call'[f].id].version
                     /\ call'[f].version = rows'[call'[f].id].version =>
                           rows'[call'[f].id] = call'[f].base
    <3>1. CASE f = e
      <4>1. call'[f] = NoCall
        BY <1>3, <3>1
      <4>2. /\ NoCall.id \in Ids /\ NoCall.key \in Keys /\ NoCall.version \in Nat
            /\ NoCall.content \in ContentsFor(NoCall.key) /\ NoCall.op # "update"
        BY SomeKeyFits, EditBounds DEF NoCall
      <4> QED BY <4>1, <4>2
    <3>2. CASE f # e
      <4>1. call'[f] = call[f] /\ call[f].id \in Ids /\ call[f].version \in Nat
        BY <1>3, <3>2 DEF Kept, CallsKept
      <4>2. \/ rows'[call[f].id] = rows[call[f].id]
            \/ rows[call[f].id].version < rows'[call[f].id].version
        BY <4>1 DEF Rises
      <4>3. call[f].op = "update" =>
               /\ call[f].version <= rows[call[f].id].version
               /\ call[f].version = rows[call[f].id].version => rows[call[f].id] = call[f].base
        BY DEF Kept, CallsKept
      <4>4. call[f].op = "update" =>
               /\ call[f].version <= rows'[call[f].id].version
               /\ call[f].version = rows'[call[f].id].version => rows'[call[f].id] = call[f].base
        BY <1>2, <4>1, <4>2, <4>3
      <4> QED BY <4>1, <4>4 DEF Kept, CallsKept
    <3> QED BY <3>1, <3>2
  <2> QED BY <2>1, <2>2 DEF CallsKept
<1>5. LockKept'
  BY DEF Kept, LockKept, CallsKept, End
<1> QED BY <1>1, <1>4, <1>5

\* What the transaction read is what there is.
LEMMA SeenIsNow ==
    ASSUME Kept, NEW e \in Editors, step[e] = "locked"
    PROVE  /\ view[e].rows = rows /\ view[e].config = config
           /\ Seen(e) = ListForConfig(rows) /\ SeenType(e) = config.type
BY DEF Kept, LockKept, Seen, SeenType

\* One row written: the table is kept when the key was free for it.
LEMMA RowWritten ==
    ASSUME Kept, NEW i \in Ids, NEW row \in RowShape, row.state # "absent",
           row.content \in ContentsFor(row.key), rows[i].version < row.version,
           \A j \in Ids \ {i} : rows[j].state # "absent" => rows[j].key # row.key,
           rows' = [rows EXCEPT ![i] = row]
    PROVE  TableKept(rows') /\ Rises(rows, rows')
<1>1. rows \in [Ids -> RowShape]
  BY DEF Kept, TableKept
<1>2. rows' \in [Ids -> RowShape] /\ rows'[i] = row /\ \A j \in Ids \ {i} : rows'[j] = rows[j]
  BY <1>1
<1>3. TableKept(rows')
  BY <1>2 DEF Kept, TableKept
<1> QED BY <1>2, <1>3 DEF Rises

LEMMA CreateKeeps ==
    ASSUME Kept, NEW e \in Editors, Create(e)
    PROVE  Kept'
<1> DEFINE new == [id |-> 0, key |-> call[e].key, fields |-> call[e].content.fields,
                   options |-> call[e].content.options]
           defs == ListForConfig(rows) \cup {new}
           row(i) == RestoredRow(rows[i], call[e].key, call[e].content)
<1>1. NewSchema(defs) /\ End(e) /\ config' = config /\ step[e] = "locked"
  BY SeenIsNow DEF Create, End
<1>2. PICK i \in Ids : RowFor(i, call[e].key) /\ rows' = [rows EXCEPT ![i] = row(i)]
  BY DEF Create
<1>3. /\ call[e].key \in Keys /\ call[e].content \in ContentsFor(call[e].key)
      /\ call[e].content \in Contents
  BY ContentFits DEF Kept, CallsKept
<1>4. /\ rows \in [Ids -> RowShape] /\ rows[i].version \in Nat
      /\ rows[i].state # "live"
      /\ \A j \in Ids \ {i} : rows[j].state # "absent" => rows[j].key # call[e].key
  BY <1>2 DEF Kept, TableKept, RowShape, RowFor, KeyTaken
<1>5. /\ row(i) \in RowShape /\ row(i).state = "live" /\ row(i).key = call[e].key
      /\ row(i).content = call[e].content /\ rows[i].version < row(i).version
  BY <1>3, <1>4 DEF RestoredRow, RowShape
<1> HIDE DEF row
<1>6. TableKept(rows') /\ Rises(rows, rows')
  BY <1>2, <1>3, <1>4, <1>5, RowWritten
<1>7. WellFormed(defs)
  <2>1. FitsKey(call[e].key, call[e].content)
    BY <1>3, ContentFits
  <2>2. WellFormed(ListForConfig(rows))
    BY ListKept DEF Kept
  <2> QED BY <1>3, <2>1, <2>2 DEF WellFormed, FitsKey
<1>8. Covers(defs, ListForConfig(rows')) /\ Covers(ListForConfig(rows'), defs)
  <2>1. /\ rows'[i] = row(i) /\ \A j \in Ids \ {i} : rows'[j] = rows[j]
        /\ Live(rows') = Live(rows) \cup {i} /\ i \notin Live(rows)
    BY <1>2, <1>4, <1>5 DEF Live
  <2>2. ASSUME NEW x \in ListForConfig(rows')
        PROVE  \E y \in defs : y.key = x.key /\ y.fields = x.fields
    <3>1. PICK j \in Live(rows') :
             x = [id |-> j, key |-> rows'[j].key, fields |-> rows'[j].content.fields,
                  options |-> rows'[j].content.options]
      BY DEF ListForConfig
    <3>2. CASE j = i
      <4>1. new \in defs /\ new.key = x.key /\ new.fields = x.fields
        BY <1>5, <2>1, <3>1, <3>2
      <4> QED BY <4>1
    <3>3. CASE j # i
      <4>1. x \in ListForConfig(rows)
        BY <2>1, <3>1, <3>3 DEF ListForConfig, Live
      <4> QED BY <4>1
    <3> QED BY <3>2, <3>3
  <2>3. ASSUME NEW x \in defs
        PROVE  \E y \in ListForConfig(rows') : y.key = x.key /\ y.fields = x.fields
    <3>1. CASE x = new
      <4> DEFINE y == [id |-> i, key |-> rows'[i].key, fields |-> rows'[i].content.fields,
                       options |-> rows'[i].content.options]
      <4>1. y \in ListForConfig(rows')
        BY <2>1 DEF ListForConfig
      <4>2. y.key = x.key /\ y.fields = x.fields
        BY <1>5, <2>1, <3>1
      <4> QED BY <4>1, <4>2
    <3>2. CASE x \in ListForConfig(rows)
      <4>1. PICK j \in Live(rows) :
               x = [id |-> j, key |-> rows[j].key, fields |-> rows[j].content.fields,
                    options |-> rows[j].content.options]
        BY <3>2 DEF ListForConfig
      <4>2. j \in Live(rows') /\ rows'[j] = rows[j]
        BY <2>1 DEF Live
      <4>3. x \in ListForConfig(rows')
        BY <4>1, <4>2 DEF ListForConfig
      <4> QED BY <4>3
    <3> QED BY <3>1, <3>2
  <2> HIDE DEF defs
  <2> QED BY <2>2, <2>3 DEF Covers
<1>9. config.type \in BaseTypes \cup Defined(defs)
  BY DEF Kept, SchemaKept, Sound, validateType, Defined
<1> HIDE DEF defs
<1>10. Sound(ListForConfig(rows'), config'.type)
  BY <1>1, <1>6, <1>7, <1>8, <1>9, AcceptedSound
<1>11. SchemaKept'
  BY <1>1, <1>10 DEF Kept, SchemaKept
<1>12. SavedKept' /\ CallsKept' /\ LockKept'
  BY <1>1, <1>6, EndKeeps
<1> QED BY <1>6, <1>11, <1>12 DEF Kept

\* A list of definitions covers itself.
LEMMA CoversItself ==
    ASSUME NEW defs
    PROVE  Covers(defs, defs)
BY DEF Covers

LEMMA UpdateKeeps ==
    ASSUME Kept, NEW e \in Editors, Update(e)
    PROVE  Kept'
<1> DEFINE i == call[e].id
           new == [id |-> i, key |-> call[e].key, fields |-> call[e].content.fields,
                   options |-> call[e].content.options]
           defs == {d \in ListForConfig(rows) : d.id # i} \cup {new}
           row == [state |-> "live", key |-> call[e].key, content |-> call[e].content,
                   version |-> call[e].version + 1]
<1>1. NewSchema(defs) /\ End(e) /\ config' = config /\ step[e] = "locked"
  BY SeenIsNow DEF Update, Updated, End, Replaced
<1>2. /\ i \in Live(rows) /\ rows' = [rows EXCEPT ![i] = row] /\ ~KeyTaken(i, call[e].key)
      /\ rows[i].version = call[e].version
      /\ rows[i].key = call[e].key \/ ~Referenced(e, i)
  BY <1>1, SeenIsNow DEF Update, Updated, UpdateAllowed
<1>3. /\ call[e].key \in Keys /\ call[e].content \in ContentsFor(call[e].key)
      /\ call[e].content \in Contents /\ i \in Ids
  BY ContentFits DEF Kept, CallsKept
<1>4. /\ rows \in [Ids -> RowShape] /\ rows[i].version \in Nat
      /\ \A j \in Ids \ {i} : rows[j].state # "absent" => rows[j].key # call[e].key
  BY <1>2, <1>3 DEF Kept, TableKept, RowShape, KeyTaken
<1>5. /\ row \in RowShape /\ row.state = "live" /\ row.key = call[e].key
      /\ row.content = call[e].content /\ rows[i].version < row.version
  BY <1>2, <1>3, <1>4 DEF RowShape
<1> HIDE DEF row
<1>6. TableKept(rows') /\ Rises(rows, rows')
  BY <1>2, <1>3, <1>4, <1>5, RowWritten
<1>7. ListForConfig(rows') = defs
  <2>1. /\ rows'[i] = row /\ \A j \in Ids \ {i} : rows'[j] = rows[j]
        /\ Live(rows') = Live(rows)
    BY <1>2, <1>3, <1>4, <1>5 DEF Live
  <2>2. ASSUME NEW x \in ListForConfig(rows') PROVE x \in defs
    <3>1. PICK j \in Live(rows') :
             x = [id |-> j, key |-> rows'[j].key, fields |-> rows'[j].content.fields,
                  options |-> rows'[j].content.options]
      BY DEF ListForConfig
    <3>2. CASE j = i
      BY <1>5, <2>1, <3>1, <3>2
    <3>3. CASE j # i
      BY <2>1, <3>1, <3>3 DEF ListForConfig, Live
    <3> QED BY <3>2, <3>3
  <2>3. ASSUME NEW x \in ListForConfig(rows), x.id # i PROVE x \in ListForConfig(rows')
    <3>1. PICK j \in Live(rows) :
             x = [id |-> j, key |-> rows[j].key, fields |-> rows[j].content.fields,
                  options |-> rows[j].content.options]
      BY DEF ListForConfig
    <3>2. j # i
      BY <2>3, <3>1
    <3> QED BY <2>1, <3>1, <3>2 DEF ListForConfig, Live
  <2>4. new \in ListForConfig(rows')
    BY <1>2, <1>5, <2>1 DEF ListForConfig
  <2> QED BY <2>2, <2>3, <2>4
<1>8. config.type \in BaseTypes \cup Defined(defs)
  <2> SUFFICES ASSUME config.type \notin BaseTypes PROVE config.type \in Defined(defs)
    OBVIOUS
  <2>1. PICK d \in ListForConfig(rows) : d.key = config.type
    BY DEF Kept, SchemaKept, Sound, validateType, Defined
  <2>2. CASE d.id # i
    BY <2>1, <2>2 DEF Defined
  <2>3. CASE d.id = i
    <3>1. d.key = rows[i].key
      BY <2>3 DEF ListForConfig
    <3>2. rows[i].key = call[e].key
      BY <1>1, <1>2, <2>1, <3>1, SeenIsNow DEF Referenced
    <3>3. new \in defs /\ new.key = config.type
      BY <2>1, <3>1, <3>2
    <3> HIDE DEF new, defs
    <3> QED BY <3>3 DEF Defined
  <2> QED BY <2>2, <2>3
<1> HIDE DEF defs
<1>9. Sound(ListForConfig(rows'), config'.type)
  <2>1. WellFormed(defs)
    BY <1>6, <1>7, ListKept
  <2> QED BY <1>1, <1>6, <1>7, <1>8, <2>1, CoversItself, AcceptedSound
<1>10. SchemaKept'
  BY <1>1, <1>9 DEF Kept, SchemaKept
<1>11. SavedKept' /\ CallsKept' /\ LockKept'
  BY <1>1, <1>6, EndKeeps
<1> QED BY <1>6, <1>10, <1>11 DEF Kept

LEMMA DeletedRow ==
    ASSUME NEW old \in RowShape
    PROVE  /\ Deleted(old) \in RowShape /\ Deleted(old).state = "deleted"
           /\ Deleted(old).key = old.key /\ Deleted(old).content = old.content
           /\ old.version < Deleted(old).version
<1>1. old.key \in Keys /\ old.content \in Contents /\ old.version \in Nat
  BY DEF RowShape
<1>2. Deleted(old) = [state |-> "deleted", key |-> old.key, content |-> old.content,
                      version |-> old.version + 1]
  BY DEF Deleted
<1>3. old.version + 1 \in Nat /\ old.version < old.version + 1
  BY <1>1
<1>4. Deleted(old) \in RowShape
  BY <1>1, <1>2, <1>3 DEF RowShape
<1> QED BY <1>2, <1>3, <1>4

LEMMA DeleteKeeps ==
    ASSUME Kept, NEW e \in Editors, Delete(e)
    PROVE  Kept'
<1> DEFINE i == call[e].id
           defs == {d \in ListForConfig(rows) : d.id # i}
           row == Deleted(rows[i])
<1>1. NewSchema(defs) /\ End(e) /\ config' = config /\ step[e] = "locked"
  BY SeenIsNow DEF Delete, End
<1>2. i \in Live(rows) /\ rows' = [rows EXCEPT ![i] = row] /\ ~Referenced(e, i)
  BY <1>1, SeenIsNow DEF Delete
<1>3. /\ i \in Ids /\ rows \in [Ids -> RowShape] /\ rows[i] \in RowShape /\ rows[i].version \in Nat
      /\ rows[i].content \in ContentsFor(rows[i].key) /\ rows[i].state = "live"
      /\ \A j \in Ids \ {i} : rows[j].state # "absent" => rows[j].key # rows[i].key
  BY <1>2 DEF Kept, TableKept, RowShape, Live
<1>4. /\ row \in RowShape /\ row.state = "deleted" /\ row.key = rows[i].key
      /\ row.content = rows[i].content /\ rows[i].version < row.version
  BY <1>3, DeletedRow
<1> HIDE DEF row
<1>5. TableKept(rows') /\ Rises(rows, rows')
  BY <1>2, <1>3, <1>4, RowWritten
<1>6. ListForConfig(rows') = defs
  <2>1. /\ \A j \in Ids \ {i} : rows'[j] = rows[j]
        /\ Live(rows') = Live(rows) \ {i}
    BY <1>2, <1>3, <1>4 DEF Live
  <2> QED BY <2>1 DEF ListForConfig, Live
<1>7. config.type \in BaseTypes \cup Defined(defs)
  <2> SUFFICES ASSUME config.type \notin BaseTypes PROVE config.type \in Defined(defs)
    OBVIOUS
  <2>1. PICK d \in ListForConfig(rows) : d.key = config.type
    BY DEF Kept, SchemaKept, Sound, validateType, Defined
  <2>2. d.id = i => d.key = rows[i].key
    BY DEF ListForConfig
  <2>3. config.type # rows[i].key
    BY <1>1, <1>2, SeenIsNow DEF Referenced
  <2> QED BY <2>1, <2>2, <2>3 DEF Defined
<1> HIDE DEF defs
<1>8. Sound(ListForConfig(rows'), config'.type)
  <2>1. WellFormed(defs)
    BY <1>5, <1>6, ListKept
  <2> QED BY <1>1, <1>5, <1>6, <1>7, <2>1, CoversItself, AcceptedSound
<1>9. SchemaKept'
  BY <1>1, <1>8 DEF Kept, SchemaKept
<1>10. SavedKept' /\ CallsKept' /\ LockKept'
  BY <1>1, <1>5, EndKeeps
<1> QED BY <1>5, <1>9, <1>10 DEF Kept

\* The configuration's type and value, with the definitions left as they are.
LEMMA ConfigKeeps ==
    ASSUME Kept, NEW e \in Editors, End(e), rows' = rows,
           config' = [type |-> config'.type, value |-> config'.value, version |-> config'.version],
           config'.version \in Nat, validateType(ListForConfig(rows), config'.type)
    PROVE  Kept'
<1>1. TableKept(rows') /\ Rises(rows, rows')
  BY DEF Kept, Rises
<1>2. SchemaKept'
  BY DEF Kept, SchemaKept, Sound
<1>3. SavedKept' /\ CallsKept' /\ LockKept'
  BY <1>1, EndKeeps
<1> QED BY <1>1, <1>2, <1>3 DEF Kept

LEMMA ConfigUpdateKeeps ==
    ASSUME Kept, NEW e \in Editors, ConfigUpdate(e)
    PROVE  Kept'
<1>1. End(e) /\ rows' = rows /\ step[e] = "locked" /\ validateType(Seen(e), call[e].type)
  BY DEF ConfigUpdate, End
<1>2. /\ config = [type |-> config.type, value |-> config.value, version |-> config.version]
      /\ config.version \in Nat
  BY DEF Kept, SchemaKept
<1>3. config' = [type |-> call[e].type, value |-> config.value, version |-> config.version + 1]
  BY <1>2 DEF ConfigUpdate
<1>4. validateType(ListForConfig(rows), config'.type) /\ config'.version \in Nat
  BY <1>1, <1>2, <1>3, SeenIsNow
<1> QED BY <1>1, <1>3, <1>4, ConfigKeeps

LEMMA UpdateValueKeeps ==
    ASSUME Kept, NEW e \in Editors, UpdateValue(e)
    PROVE  Kept'
<1>1. End(e) /\ rows' = rows
  BY DEF UpdateValue
<1>2. /\ config = [type |-> config.type, value |-> config.value, version |-> config.version]
      /\ config.version \in Nat
  BY DEF Kept, SchemaKept
<1>3. config' = [type |-> config.type, value |-> call[e].value, version |-> config.version + 1]
  BY <1>2 DEF UpdateValue
<1>4. validateType(ListForConfig(rows), config'.type) /\ config'.version \in Nat
  BY <1>2, <1>3 DEF Kept, SchemaKept, Sound
<1> QED BY <1>1, <1>3, <1>4, ConfigKeeps

LEMMA RollBackKeeps ==
    ASSUME Kept, NEW e \in Editors, RollBack(e)
    PROVE  Kept'
<1>1. End(e) /\ rows' = rows /\ config' = config
  BY DEF RollBack
<1>2. /\ config = [type |-> config.type, value |-> config.value, version |-> config.version]
      /\ config.version \in Nat
  BY DEF Kept, SchemaKept
<1>3. validateType(ListForConfig(rows), config'.type)
  BY <1>1 DEF Kept, SchemaKept, Sound
<1> QED BY <1>1, <1>2, <1>3, ConfigKeeps

-----------------------------------------------------------------------------
(* Loading a snapshot *)

\* The snapshot's definition of a key.
LEMMA DesiredFits ==
    ASSUME SavedKept, NEW key \in Desired
    PROVE  /\ [key |-> key, content |-> DesiredContent(key)] \in saved.definitions
           /\ key \in Keys /\ DesiredContent(key) \in ContentsFor(key)
           /\ DesiredContent(key) \in Contents
<1>1. PICK d \in saved.definitions : d.key = key
  BY DEF Desired
<1>2. DesiredContent(key) = d.content
  BY <1>1 DEF DesiredContent, SavedKept
<1>3. key \in Keys /\ d.content \in ContentsFor(key) /\ d = [key |-> key, content |-> d.content]
  BY <1>1 DEF SavedKept
<1> QED BY <1>2, <1>3, ContentFits

\* Row by row: an old row is rewritten, deleted or left, a new row takes the
\* place of no old one, and each key without a row gets one.
LEMMA LoadRows ==
    ASSUME Kept, NEW ids \in Placements(rows), rows' = Inserted(Reconciled(rows), ids)
    PROVE  /\ rows' = [i \in Ids |-> rows'[i]]
           /\ \A k \in Missing(rows) :
                 /\ ids[k] \in Ids /\ rows[ids[k]].state = "absent"
                 /\ rows'[ids[k]] = RestoredRow(NoRow, k, DesiredContent(k))
           /\ \A i \in Ids :
                 \/ \E k \in Missing(rows) : i = ids[k]
                 \/ /\ rows[i].state # "absent" /\ rows[i].key \in Desired
                    /\ rows'[i] = RestoredRow(rows[i], rows[i].key, DesiredContent(rows[i].key))
                 \/ /\ rows[i].state = "live" /\ rows[i].key \notin Desired
                    /\ rows'[i] = Deleted(rows[i])
                 \/ /\ rows[i].state = "deleted" /\ rows[i].key \notin Desired
                    /\ rows'[i] = rows[i]
                 \/ rows[i].state = "absent" /\ rows'[i] = rows[i]
<1>1. /\ ids \in [Missing(rows) -> Absent(rows)] /\ DOMAIN ids = Missing(rows)
      /\ \A j, k \in Missing(rows) : ids[j] = ids[k] => j = k
  BY DEF Placements, Injection, IsInjective
<1>2. ASSUME NEW k \in Missing(rows)
      PROVE  /\ ids[k] \in Ids /\ rows[ids[k]].state = "absent"
             /\ rows'[ids[k]] = RestoredRow(NoRow, k, DesiredContent(k))
  <2>1. ids[k] \in Ids /\ rows[ids[k]].state = "absent" /\ ids[k] \in Range(ids)
    BY <1>1 DEF Absent, Range
  <2>2. (CHOOSE j \in DOMAIN ids : ids[j] = ids[k]) = k
    BY <1>1
  <2> QED BY <2>1, <2>2 DEF Inserted
<1>3. ASSUME NEW i \in Ids, \A k \in Missing(rows) : i # ids[k]
      PROVE  rows'[i] = Reconciled(rows)[i]
  <2>1. i \notin Range(ids)
    BY <1>1, <1>3 DEF Range
  <2> QED BY <2>1 DEF Inserted
<1>4. \A i \in Ids : rows[i].state \in {"absent", "live", "deleted"}
  BY DEF Kept, TableKept, RowShape
<1>5. rows' = [i \in Ids |-> rows'[i]]
  BY DEF Inserted
<1>6. ASSUME NEW i \in Ids
      PROVE  \/ \E k \in Missing(rows) : i = ids[k]
             \/ /\ rows[i].state # "absent" /\ rows[i].key \in Desired
                /\ rows'[i] = RestoredRow(rows[i], rows[i].key, DesiredContent(rows[i].key))
             \/ /\ rows[i].state = "live" /\ rows[i].key \notin Desired
                /\ rows'[i] = Deleted(rows[i])
             \/ /\ rows[i].state = "deleted" /\ rows[i].key \notin Desired
                /\ rows'[i] = rows[i]
             \/ rows[i].state = "absent" /\ rows'[i] = rows[i]
  <2> SUFFICES ASSUME \A k \in Missing(rows) : i # ids[k]
               PROVE  \/ /\ rows[i].state # "absent" /\ rows[i].key \in Desired
                         /\ rows'[i] = RestoredRow(rows[i], rows[i].key, DesiredContent(rows[i].key))
                      \/ /\ rows[i].state = "live" /\ rows[i].key \notin Desired
                         /\ rows'[i] = Deleted(rows[i])
                      \/ /\ rows[i].state = "deleted" /\ rows[i].key \notin Desired
                         /\ rows'[i] = rows[i]
                      \/ rows[i].state = "absent" /\ rows'[i] = rows[i]
    OBVIOUS
  <2>1. rows'[i] = Reconciled(rows)[i]
    BY <1>3
  <2> QED BY <1>4, <2>1 DEF Reconciled
<1> QED BY <1>2, <1>5, <1>6

\* A restored row.
LEMMA RestoredFits ==
    ASSUME NEW old, old.version \in Nat, NEW k \in Keys, NEW content \in Contents
    PROVE  /\ RestoredRow(old, k, content) \in RowShape
           /\ RestoredRow(old, k, content).state = "live"
           /\ RestoredRow(old, k, content).key = k
           /\ RestoredRow(old, k, content).content = content
           /\ old.version < RestoredRow(old, k, content).version
BY DEF RestoredRow, RowShape

\* What a load leaves: a table with a row for each key of the snapshot, and
\* live rows for no other.
LEMMA LoadTable ==
    ASSUME Kept, NEW ids \in Placements(rows), rows' = Inserted(Reconciled(rows), ids)
    PROVE  TableKept(rows') /\ Rises(rows, rows') /\ ContentOf(rows') = saved.definitions
<1> DEFINE New(i) == \E k \in Missing(rows) : i = ids[k]
<1>1. SavedKept /\ rows \in [Ids -> RowShape] /\ \A i \in Ids : rows[i].version \in Nat
  BY DEF Kept, TableKept, RowShape
<1>2. ASSUME NEW k \in Missing(rows)
      PROVE  /\ ids[k] \in Ids /\ k \in Desired /\ rows[ids[k]].version = 0
             /\ rows[ids[k]].state = "absent"
             /\ rows'[ids[k]] \in RowShape /\ rows'[ids[k]].state = "live"
             /\ rows'[ids[k]].key = k /\ rows'[ids[k]].content = DesiredContent(k)
             /\ rows[ids[k]].version < rows'[ids[k]].version
  <2>1. /\ ids[k] \in Ids /\ rows[ids[k]].state = "absent"
        /\ rows'[ids[k]] = RestoredRow(NoRow, k, DesiredContent(k)) /\ k \in Desired
    BY LoadRows DEF Missing
  <2>2. rows[ids[k]].version = 0
    BY <2>1 DEF Kept, TableKept
  <2>3. k \in Keys /\ DesiredContent(k) \in Contents
    BY <1>1, <2>1, DesiredFits
  <2>4. NoRow.version = 0
    BY DEF NoRow
  <2> QED BY <2>1, <2>2, <2>3, <2>4, RestoredFits
<1>3. ASSUME NEW i \in Ids, ~New(i)
      PROVE  /\ rows'[i] \in RowShape /\ rows'[i].key = rows[i].key
             /\ rows'[i].state = "absent" <=> rows[i].state = "absent"
             /\ rows'[i].state = "live" =>
                   rows[i].key \in Desired /\ rows'[i].content = DesiredContent(rows[i].key)
             /\ rows'[i].content \in ContentsFor(rows'[i].key)
             /\ rows'[i] = rows[i] \/ rows[i].version < rows'[i].version
             /\ rows[i].state # "absent" /\ rows[i].key \in Desired => rows'[i].state = "live"
  <2>1. rows[i] \in RowShape /\ rows[i].content \in ContentsFor(rows[i].key) /\ rows[i].version \in Nat
    BY <1>1 DEF Kept, TableKept
  <2>2. CASE /\ rows[i].state # "absent" /\ rows[i].key \in Desired
             /\ rows'[i] = RestoredRow(rows[i], rows[i].key, DesiredContent(rows[i].key))
    <3>1. /\ rows[i].key \in Keys /\ DesiredContent(rows[i].key) \in Contents
          /\ DesiredContent(rows[i].key) \in ContentsFor(rows[i].key)
      BY <1>1, <2>2, DesiredFits
    <3> QED BY <2>1, <2>2, <3>1, RestoredFits
  <2>3. CASE /\ rows[i].state = "live" /\ rows[i].key \notin Desired
             /\ rows'[i] = Deleted(rows[i])
    BY <2>1, <2>3, DeletedRow
  <2>4. CASE /\ rows[i].state = "deleted" /\ rows[i].key \notin Desired
             /\ rows'[i] = rows[i]
    BY <2>1, <2>4
  <2>5. CASE rows[i].state = "absent" /\ rows'[i] = rows[i]
    BY <2>1, <2>5
  <2> QED BY <1>3, <2>2, <2>3, <2>4, <2>5, LoadRows
<1>4. Rises(rows, rows')
  BY <1>2, <1>3 DEF Rises
<1>5. ASSUME NEW i \in Ids, NEW j \in Ids, rows'[i].state # "absent", rows'[j].state # "absent",
             rows'[i].key = rows'[j].key
      PROVE  i = j
  <2>1. CASE ~New(i) /\ ~New(j)
    BY <1>3, <1>5, <2>1 DEF Kept, TableKept
  <2>2. CASE New(i) /\ New(j)
    BY <1>2, <1>5, <2>2
  <2>3. CASE New(i) /\ ~New(j)
    BY <1>2, <1>3, <1>5, <2>3 DEF Missing
  <2>4. CASE ~New(i) /\ New(j)
    BY <1>2, <1>3, <1>5, <2>4 DEF Missing
  <2> QED BY <2>1, <2>2, <2>3, <2>4
<1>6. ASSUME NEW i \in Ids
      PROVE  /\ rows'[i] \in RowShape /\ rows'[i].content \in ContentsFor(rows'[i].key)
             /\ rows'[i].state = "absent" => rows'[i].version = 0
  <2>1. CASE New(i)
    <3>1. PICK k \in Missing(rows) : i = ids[k]
      BY <2>1
    <3>2. /\ k \in Desired /\ rows'[i] \in RowShape /\ rows'[i].state = "live"
          /\ rows'[i].key = k /\ rows'[i].content = DesiredContent(k)
      BY <1>2, <3>1
    <3>3. DesiredContent(k) \in ContentsFor(k)
      BY <1>1, <3>2, DesiredFits
    <3> QED BY <3>2, <3>3
  <2>2. CASE ~New(i)
    <3>1. rows[i].state = "absent" => rows[i].version = 0 /\ rows'[i] = rows[i]
      BY <2>2, LoadRows DEF Kept, TableKept
    <3> QED BY <1>3, <2>2, <3>1
  <2> QED BY <2>1, <2>2
<1>7. TableKept(rows')
  <2>1. rows' \in [Ids -> RowShape]
    BY <1>6, LoadRows
  <2> QED BY <1>5, <1>6, <2>1 DEF TableKept
<1>8. ASSUME NEW d \in ContentOf(rows') PROVE d \in saved.definitions
  <2>1. PICK i \in Live(rows') : d = [key |-> rows'[i].key, content |-> rows'[i].content]
    BY DEF ContentOf
  <2>2. /\ i \in Ids /\ rows'[i].state = "live"
    BY DEF Live
  <2>3. rows'[i].key \in Desired /\ rows'[i].content = DesiredContent(rows'[i].key)
    BY <1>2, <1>3, <2>2
  <2> QED BY <1>1, <2>1, <2>3, DesiredFits
<1>9. ASSUME NEW d \in saved.definitions PROVE d \in ContentOf(rows')
  <2>1. d.key \in Desired
    BY DEF Desired
  <2>2. d = [key |-> d.key, content |-> DesiredContent(d.key)]
    BY <1>1 DEF SavedKept, DesiredContent
  <2>3. \E i \in Ids : rows'[i].state = "live" /\ rows'[i].key = d.key
                       /\ rows'[i].content = DesiredContent(d.key)
    <3>1. CASE d.key \in Missing(rows)
      BY <1>2, <3>1
    <3>2. CASE d.key \notin Missing(rows)
      <4>1. PICK i \in Ids : rows[i].state # "absent" /\ rows[i].key = d.key
        BY <2>1, <3>2 DEF Missing
      <4>2. ~New(i)
        BY <1>2, <4>1
      <4> QED BY <1>3, <2>1, <4>1, <4>2
    <3> QED BY <3>1, <3>2
  <2>4. PICK i \in Live(rows') : rows'[i].key = d.key /\ rows'[i].content = DesiredContent(d.key)
    BY <2>3 DEF Live
  <2> QED BY <2>2, <2>4 DEF ContentOf
<1> QED BY <1>4, <1>7, <1>8, <1>9

LEMMA LoadKeeps ==
    ASSUME Kept, NEW e \in Editors, Load(e)
    PROVE  Kept' /\ ContentOf(rows') = saved.definitions
<1>1. PICK ids \in Placements(rows) : rows' = Inserted(Reconciled(rows), ids)
  BY DEF Load
<1>2. TableKept(rows') /\ Rises(rows, rows') /\ ContentOf(rows') = saved.definitions
  BY <1>1, LoadTable
<1>3. End(e) /\ config' = [type |-> saved.type, value |-> saved.value, version |-> config.version + 2]
  BY DEF Load
<1>4. Sound(ListForConfig(rows'), saved.type)
  <2>1. Covers(SavedDefinitions, ListForConfig(rows')) /\ Covers(ListForConfig(rows'), SavedDefinitions)
    BY <1>2, SavedCovers
  <2>2. UniqueKeys(ListForConfig(rows'))
    BY <1>2, ListKept
  <2>3. Sound(SavedDefinitions, saved.type)
    BY DEF Kept, SavedKept
  <2> QED BY <2>1, <2>2, <2>3, SameDefinitions DEF Sound, validateType
<1>5. SchemaKept'
  BY <1>3, <1>4 DEF Kept, SchemaKept
<1>6. SavedKept' /\ CallsKept' /\ LockKept'
  BY <1>2, <1>3, EndKeeps
<1> QED BY <1>2, <1>5, <1>6 DEF Kept

-----------------------------------------------------------------------------
(* The steps before the transaction *)

\* What a call must be given.
CallFits(c) ==
    /\ c.id \in Ids /\ c.key \in Keys /\ c.version \in Nat
    /\ c.content \in ContentsFor(c.key)
    /\ c.op = "update" =>
          /\ c.version <= rows[c.id].version
          /\ c.version = rows[c.id].version => rows[c.id] = c.base

LEMMA BeginKeeps ==
    ASSUME Kept, NEW e \in Editors, NEW c, Begin(e, c), CallFits(c)
    PROVE  Kept'
<1>1. /\ rows' = rows /\ config' = config /\ saved' = saved /\ holder' = holder /\ view' = view
      /\ call' = [call EXCEPT ![e] = c] /\ step' = [step EXCEPT ![e] = "begun"]
  BY DEF Begin
<1>2. TableKept(rows') /\ SchemaKept' /\ SavedKept'
  BY <1>1 DEF Kept, SchemaKept, SavedKept, SavedDefinitions
<1>3. /\ call' = [f \in Editors |-> call'[f]] /\ call'[e] = c
      /\ \A f \in Editors \ {e} : call'[f] = call[f]
  BY <1>1 DEF Kept, CallsKept
<1>4. CallsKept'
  <2>1. step' \in [Editors -> {"idle", "begun", "locked"}]
    BY <1>1 DEF Kept, CallsKept
  <2>2. \A f \in Editors : CallFits(call[f])
    BY DEF Kept, CallsKept, CallFits
  <2>3. \A f \in Editors : CallFits(call'[f])
    BY <1>3, <2>2
  <2> QED BY <1>1, <1>3, <2>1, <2>3 DEF CallsKept, CallFits
<1>5. LockKept'
  BY <1>1 DEF Kept, CallsKept, LockKept
<1> QED BY <1>2, <1>4, <1>5 DEF Kept

LEMMA BeginsKeep ==
    ASSUME Kept, NEW e \in Editors,
           \/ BeginCreate(e) \/ BeginUpdate(e) \/ BeginDelete(e)
           \/ BeginConfigUpdate(e) \/ BeginUpdateValue(e) \/ BeginLoad(e)
    PROVE  Kept'
<1>1. /\ NoCall.id \in Ids /\ NoCall.key \in Keys /\ NoCall.version \in Nat
      /\ NoCall.content \in ContentsFor(NoCall.key)
      /\ DOMAIN NoCall = {"op", "id", "key", "content", "type", "value", "version", "base"}
  BY SomeKeyFits, EditBounds DEF NoCall
<1>2. CASE BeginCreate(e)
  <2>1. PICK k \in Keys : \E c \in ContentsFor(k) :
           Begin(e, [NoCall EXCEPT !.op = "create", !.key = k, !.content = c])
    BY <1>2 DEF BeginCreate
  <2>2. PICK c \in ContentsFor(k) :
           Begin(e, [NoCall EXCEPT !.op = "create", !.key = k, !.content = c])
    BY <2>1
  <2>3. CallFits([NoCall EXCEPT !.op = "create", !.key = k, !.content = c])
    BY <1>1 DEF CallFits
  <2> QED BY <2>2, <2>3, BeginKeeps
<1>3. CASE BeginUpdate(e)
  <2>1. PICK i \in Live(rows), k \in Keys : \E c \in ContentsFor(k) :
           Begin(e, [NoCall EXCEPT !.op = "update", !.id = i, !.key = k, !.content = c,
                                   !.version = rows[i].version, !.base = rows[i]])
    BY <1>3 DEF BeginUpdate
  <2>2. PICK c \in ContentsFor(k) :
           Begin(e, [NoCall EXCEPT !.op = "update", !.id = i, !.key = k, !.content = c,
                                   !.version = rows[i].version, !.base = rows[i]])
    BY <2>1
  <2>3. i \in Ids /\ rows[i].version \in Nat
    BY DEF Live, Kept, TableKept, RowShape
  <2>4. CallFits([NoCall EXCEPT !.op = "update", !.id = i, !.key = k, !.content = c,
                                !.version = rows[i].version, !.base = rows[i]])
    BY <1>1, <2>3 DEF CallFits
  <2> QED BY <2>2, <2>4, BeginKeeps
<1>4. CASE BeginDelete(e)
  <2>1. PICK i \in Live(rows) : Begin(e, [NoCall EXCEPT !.op = "delete", !.id = i])
    BY <1>4 DEF BeginDelete
  <2>2. CallFits([NoCall EXCEPT !.op = "delete", !.id = i])
    BY <1>1 DEF CallFits, Live
  <2> QED BY <2>1, <2>2, BeginKeeps
<1>5. CASE BeginConfigUpdate(e)
  <2>1. PICK t \in Types :
           Begin(e, [NoCall EXCEPT !.op = "type", !.type = t, !.version = config.version])
    BY <1>5 DEF BeginConfigUpdate
  <2>2. CallFits([NoCall EXCEPT !.op = "type", !.type = t, !.version = config.version])
    BY <1>1 DEF CallFits, Kept, SchemaKept
  <2> QED BY <2>1, <2>2, BeginKeeps
<1>6. CASE BeginUpdateValue(e)
  <2>0. PICK scalars \in {BaseDefault, FilledIn} :
           Begin(e, [NoCall EXCEPT !.op = "value", !.version = config.version,
                                   !.value = Composed(ListForConfig(rows), scalars, config.type)])
    BY <1>6 DEF BeginUpdateValue
  <2> DEFINE v == Composed(ListForConfig(rows), scalars, config.type)
  <2>1. Begin(e, [NoCall EXCEPT !.op = "value", !.version = config.version, !.value = v])
    BY <2>0
  <2> HIDE DEF v
  <2>2. CallFits([NoCall EXCEPT !.op = "value", !.version = config.version, !.value = v])
    BY <1>1 DEF CallFits, Kept, SchemaKept
  <2> QED BY <2>1, <2>2, BeginKeeps
<1>7. CASE BeginLoad(e)
  <2>1. Begin(e, [NoCall EXCEPT !.op = "load"])
    BY <1>7 DEF BeginLoad
  <2>2. CallFits([NoCall EXCEPT !.op = "load"])
    BY <1>1 DEF CallFits
  <2> QED BY <2>1, <2>2, BeginKeeps
<1> QED BY <1>2, <1>3, <1>4, <1>5, <1>6, <1>7

LEMMA LockKeeps ==
    ASSUME Kept, NEW e \in Editors, Lock(e)
    PROVE  Kept'
<1>1. /\ rows' = rows /\ config' = config /\ saved' = saved /\ call' = call
      /\ holder = Nobody /\ holder' = e /\ step' = [step EXCEPT ![e] = "locked"]
      /\ view' = [view EXCEPT ![e] = [rows |-> rows, config |-> config]]
  BY DEF Lock
<1>2. TableKept(rows') /\ SchemaKept' /\ SavedKept' /\ CallsKept'
  BY <1>1 DEF Kept, SchemaKept, SavedKept, SavedDefinitions, CallsKept
<1>3. \A f \in Editors : step[f] # "locked"
  BY <1>1, EditorsAssumption DEF Kept, LockKept
<1>4. LockKept'
  BY <1>1, <1>3 DEF Kept, CallsKept, LockKept
<1> QED BY <1>2, <1>4 DEF Kept

LEMMA NextKeeps == Kept /\ [Next]_vars => Kept'
<1> SUFFICES ASSUME Kept, [Next]_vars PROVE Kept'
  OBVIOUS
<1>1. CASE UNCHANGED vars
  BY <1>1 DEF vars, Kept, SchemaKept, SavedKept, SavedDefinitions, CallsKept, LockKept
<1>2. ASSUME NEW e \in Editors,
             \/ BeginCreate(e) \/ BeginUpdate(e) \/ BeginDelete(e)
             \/ BeginConfigUpdate(e) \/ BeginUpdateValue(e) \/ BeginLoad(e)
             \/ Lock(e) \/ RollBack(e)
             \/ Create(e) \/ Update(e) \/ Delete(e)
             \/ ConfigUpdate(e) \/ UpdateValue(e) \/ Load(e)
      PROVE  Kept'
  BY <1>2, BeginsKeep, LockKeeps, RollBackKeeps, CreateKeeps, UpdateKeeps, DeleteKeeps,
     ConfigUpdateKeeps, UpdateValueKeeps, LoadKeeps
<1> QED BY <1>1, <1>2 DEF Next

LEMMA AlwaysKept == Spec => []Kept
BY InitKept, NextKeeps, PTL DEF Spec

-----------------------------------------------------------------------------
(* Types *)

LEMMA BoundedRow ==
    ASSUME NEW row \in RowShape, row.version <= MaxVersion
    PROVE  row \in Rows
<1>1. row.version \in 0..MaxVersion
  BY EditBounds DEF RowShape
<1> QED BY <1>1 DEF RowShape, Rows

LEMMA BoundedTable ==
    ASSUME NEW table, TableKept(table), \A i \in Ids : table[i].version <= MaxVersion
    PROVE  table \in [Ids -> Rows]
BY BoundedRow DEF TableKept

LEMMA NothingTyped ==
    /\ NoRow \in Rows /\ NoCall \in Calls
    /\ NoView \in [rows : [Ids -> Rows], config : Configs]
<1>1. NoRow \in Rows
  BY SomeKeyFits, EditBounds DEF NoRow, Rows
<1>2. 0 \in 0..MaxVersion /\ SomeBase \in Types /\ {} \in Documents
  BY BaseTypesAssumption, EditBounds DEF SomeBase, Types, Documents
<1>3. NoCall \in Calls
  BY <1>1, <1>2, SomeKeyFits, EditBounds DEF NoCall, Calls, Operations
<1>4. NoView \in [rows : [Ids -> Rows], config : Configs]
  BY <1>1, <1>2 DEF NoView, NoRows, Configs
<1> QED BY <1>1, <1>3, <1>4

\* What an editor saves and what it starts from.
LEMMA ScalarsTyped == FilledIn \in [BaseTypes -> Scalars] /\ BaseDefault \in [BaseTypes -> Scalars]
<1>1. BaseDefault \in [BaseTypes -> Scalars]
  BY DEF BaseDefault, Scalars
<1>2. \A t \in BaseTypes : FilledIn[t] \in {"date", "range"} \/ FilledIn[t] = BaseDefault[t]
  BY DEF FilledIn
<1>3. \A t \in BaseTypes : FilledIn[t] \in Scalars
  BY <1>1, <1>2 DEF Scalars
<1>4. FilledIn = [t \in BaseTypes |-> FilledIn[t]]
  BY DEF FilledIn
<1> QED BY <1>1, <1>3, <1>4

\* The current definitions make a document of the configuration's type.
LEMMA CurrentDocument ==
    ASSUME Kept, NEW scalars \in {BaseDefault, FilledIn}
    PROVE  Composed(ListForConfig(rows), scalars, config.type) \in Documents
<1>1. WellFormed(ListForConfig(rows))
  BY ListKept DEF Kept
<1>2. NewSchema(ListForConfig(rows)) /\ validateType(ListForConfig(rows), config.type)
  BY <1>1, SchemasAccepted DEF Kept, SchemaKept, Sound
<1> QED BY <1>1, <1>2, ScalarsTyped, ComposedAccepted

LEMMA InitTyped == Init => TypeOK
<1> SUFFICES ASSUME Init PROVE TypeOK
  OBVIOUS
<1>1. Kept
  BY InitKept
<1>2. PICK type \in Types :
         /\ config = [type |-> type, value |-> Composed(ListForConfig(rows), FilledIn, type), version |-> 1]
         /\ saved = [type |-> type, value |-> config.value, definitions |-> ContentOf(rows)]
  BY DEF Init
<1>3. 1 \in 0..MaxVersion /\ 0 \in 0..MaxEdits
  BY EditBounds
<1>4. config \in Configs /\ config.value \in Documents
  BY <1>1, <1>2, <1>3, CurrentDocument DEF Configs
<1>5. rows \in [Ids -> Rows]
  <2>1. \A i \in Ids : rows[i].version \in {0, 1}
    BY DEF Init, RestoredRow, NoRow
  <2>2. \A i \in Ids : rows[i].version <= MaxVersion
    BY <1>3, <2>1, EditBounds
  <2> QED BY <1>1, <2>2, BoundedTable DEF Kept
<1>6. saved \in [type : Types, value : Documents, definitions : SUBSET [key : Keys, content : Contents]]
  <2>1. ContentOf(rows) \subseteq [key : Keys, content : Contents]
    BY <1>5 DEF ContentOf, Live, Rows
  <2> QED BY <1>2, <1>4, <2>1
<1>7. /\ holder \in Editors \cup {Nobody}
      /\ step \in [Editors -> {"idle", "begun", "locked"}]
      /\ call \in [Editors -> Calls]
      /\ view \in [Editors -> [rows : [Ids -> Rows], config : Configs]]
      /\ edits \in 0..MaxEdits
  BY <1>3, NothingTyped DEF Init
<1> QED BY <1>1, <1>4, <1>5, <1>6, <1>7 DEF TypeOK, Kept, TableKept

\* A transaction ends with rows and a configuration within their bounds.
LEMMA EndTyped ==
    ASSUME TypeOK, NEW e \in Editors, End(e), TableKept(rows'),
           \A i \in Ids : rows'[i].version <= MaxVersion, config' \in Configs
    PROVE  TypeOK'
<1>1. rows' \in [Ids -> Rows]
  BY BoundedTable
<1>2. /\ call' \in [Editors -> Calls]
      /\ view' \in [Editors -> [rows : [Ids -> Rows], config : Configs]]
  BY NothingTyped DEF TypeOK, End
<1>3. /\ holder' \in Editors \cup {Nobody}
      /\ step' \in [Editors -> {"idle", "begun", "locked"}]
      /\ saved' \in [type : Types, value : Documents, definitions : SUBSET [key : Keys, content : Contents]]
      /\ edits' \in 0..MaxEdits
  BY DEF TypeOK, End
<1> QED BY <1>1, <1>2, <1>3 DEF TypeOK, TableKept

LEMMA BeginTyped ==
    ASSUME TypeOK, NEW e \in Editors, NEW c \in Calls, Begin(e, c)
    PROVE  TypeOK'
<1>1. edits' \in 0..MaxEdits
  BY EditBounds DEF TypeOK, Begin
<1>2. call' \in [Editors -> Calls] /\ step' \in [Editors -> {"idle", "begun", "locked"}]
  BY DEF TypeOK, Begin
<1> QED BY <1>1, <1>2 DEF TypeOK, Begin

LEMMA BeginsTyped ==
    ASSUME Kept, TypeOK, NEW e \in Editors,
           \/ BeginCreate(e) \/ BeginUpdate(e) \/ BeginDelete(e)
           \/ BeginConfigUpdate(e) \/ BeginUpdateValue(e) \/ BeginLoad(e)
    PROVE  TypeOK'
<1>1. NoCall \in Calls
  BY NothingTyped
<1>2. CASE BeginCreate(e)
  <2>1. PICK k \in Keys : \E c \in ContentsFor(k) :
           Begin(e, [NoCall EXCEPT !.op = "create", !.key = k, !.content = c])
    BY <1>2 DEF BeginCreate
  <2>2. PICK c \in ContentsFor(k) :
           Begin(e, [NoCall EXCEPT !.op = "create", !.key = k, !.content = c])
    BY <2>1
  <2>3. c \in Contents
    BY ContentFits
  <2>4. [NoCall EXCEPT !.op = "create", !.key = k, !.content = c] \in Calls
    BY <1>1, <2>3 DEF Calls, Operations
  <2> QED BY <2>2, <2>4, BeginTyped
<1>3. CASE BeginUpdate(e)
  <2>1. PICK i \in Live(rows), k \in Keys : \E c \in ContentsFor(k) :
           Begin(e, [NoCall EXCEPT !.op = "update", !.id = i, !.key = k, !.content = c,
                                   !.version = rows[i].version, !.base = rows[i]])
    BY <1>3 DEF BeginUpdate
  <2>2. PICK c \in ContentsFor(k) :
           Begin(e, [NoCall EXCEPT !.op = "update", !.id = i, !.key = k, !.content = c,
                                   !.version = rows[i].version, !.base = rows[i]])
    BY <2>1
  <2>3. c \in Contents /\ i \in Ids /\ rows[i] \in Rows /\ rows[i].version \in 0..MaxVersion
    BY ContentFits DEF Live, TypeOK, Rows
  <2>4. [NoCall EXCEPT !.op = "update", !.id = i, !.key = k, !.content = c,
                       !.version = rows[i].version, !.base = rows[i]] \in Calls
    BY <1>1, <2>3 DEF Calls, Operations
  <2> QED BY <2>2, <2>4, BeginTyped
<1>4. CASE BeginDelete(e)
  <2>1. PICK i \in Live(rows) : Begin(e, [NoCall EXCEPT !.op = "delete", !.id = i])
    BY <1>4 DEF BeginDelete
  <2>2. [NoCall EXCEPT !.op = "delete", !.id = i] \in Calls
    BY <1>1 DEF Calls, Operations, Live
  <2> QED BY <2>1, <2>2, BeginTyped
<1>5. CASE BeginConfigUpdate(e)
  <2>1. PICK t \in Types :
           Begin(e, [NoCall EXCEPT !.op = "type", !.type = t, !.version = config.version])
    BY <1>5 DEF BeginConfigUpdate
  <2>2. config.version \in 0..MaxVersion
    BY DEF TypeOK, Configs
  <2>3. [NoCall EXCEPT !.op = "type", !.type = t, !.version = config.version] \in Calls
    BY <1>1, <2>2 DEF Calls, Operations
  <2> QED BY <2>1, <2>3, BeginTyped
<1>6. CASE BeginUpdateValue(e)
  <2>0. PICK scalars \in {BaseDefault, FilledIn} :
           Begin(e, [NoCall EXCEPT !.op = "value", !.version = config.version,
                                   !.value = Composed(ListForConfig(rows), scalars, config.type)])
    BY <1>6 DEF BeginUpdateValue
  <2> DEFINE v == Composed(ListForConfig(rows), scalars, config.type)
  <2>1. Begin(e, [NoCall EXCEPT !.op = "value", !.version = config.version, !.value = v])
    BY <2>0
  <2>2. v \in Documents /\ config.version \in 0..MaxVersion
    BY CurrentDocument DEF TypeOK, Configs
  <2> HIDE DEF v
  <2>3. [NoCall EXCEPT !.op = "value", !.version = config.version, !.value = v] \in Calls
    BY <1>1, <2>2 DEF Calls, Operations
  <2> QED BY <2>1, <2>3, BeginTyped
<1>7. CASE BeginLoad(e)
  <2>1. Begin(e, [NoCall EXCEPT !.op = "load"])
    BY <1>7 DEF BeginLoad
  <2>2. [NoCall EXCEPT !.op = "load"] \in Calls
    BY <1>1 DEF Calls, Operations
  <2> QED BY <2>1, <2>2, BeginTyped
<1> QED BY <1>2, <1>3, <1>4, <1>5, <1>6, <1>7

\* A version is raised once, from below its bound.
LEMMA VersionsBounded ==
    ASSUME TypeOK, Kept, NEW e \in Editors,
           Create(e) \/ Update(e) \/ Delete(e) \/ Load(e)
    PROVE  \A i \in Ids : rows'[i].version <= MaxVersion
<1>1. \A i \in Ids : rows[i].version \in Nat /\ rows[i].version <= MaxVersion
  BY EditBounds DEF TypeOK, Rows
<1>0. \A n \in Nat : n < MaxVersion => n + 1 <= MaxVersion
  <2>1. MaxVersion \in Nat
    BY EditBounds
  <2> QED BY ONLY <2>1
<1>2. rows \in [Ids -> Rows] /\ \A i \in Ids : call[e].id = i => call[e].version \in Nat
  BY DEF TypeOK, Kept, CallsKept
<1>3. CASE Create(e)
  <2>1. PICK i \in Ids : /\ rows[i].version < MaxVersion
                         /\ rows' = [rows EXCEPT ![i] = RestoredRow(rows[i], call[e].key, call[e].content)]
    BY <1>3 DEF Create
  <2>2. RestoredRow(rows[i], call[e].key, call[e].content).version = rows[i].version + 1
    BY DEF RestoredRow
  <2>3. \A j \in Ids : rows'[j].version = IF j = i THEN rows[i].version + 1 ELSE rows[j].version
    BY <1>2, <2>1, <2>2
  <2>4. rows[i].version + 1 <= MaxVersion
    BY <1>0, <1>1, <2>1
  <2> QED BY <1>1, <2>3, <2>4
<1>4. CASE Update(e)
  <2> DEFINE i == call[e].id
  <2>1. /\ rows[i].version = call[e].version /\ rows[i].version < MaxVersion
        /\ rows' = [rows EXCEPT ![i] = [state |-> "live", key |-> call[e].key,
                                        content |-> call[e].content, version |-> call[e].version + 1]]
    BY <1>4 DEF Update, Updated
  <2>2. i \in Ids
    BY DEF Kept, CallsKept
  <2>3. \A j \in Ids : rows'[j].version = IF j = i THEN call[e].version + 1 ELSE rows[j].version
    BY <1>2, <2>1, <2>2
  <2>4. call[e].version \in Nat /\ call[e].version < MaxVersion
    BY <2>1, <2>2 DEF Kept, CallsKept
  <2>5. call[e].version + 1 <= MaxVersion
    BY <1>0, <2>4
  <2> QED BY <1>1, <2>3, <2>5
<1>5. CASE Delete(e)
  <2> DEFINE i == call[e].id
  <2>1. rows[i].version < MaxVersion /\ rows' = [rows EXCEPT ![i] = Deleted(rows[i])]
    BY <1>5 DEF Delete
  <2>2. i \in Ids /\ Deleted(rows[i]).version = rows[i].version + 1
    BY DEF Kept, CallsKept, Deleted
  <2>3. \A j \in Ids : rows'[j].version = IF j = i THEN rows[i].version + 1 ELSE rows[j].version
    BY <1>2, <2>1, <2>2
  <2>4. rows[i].version + 1 <= MaxVersion
    BY <1>0, <1>1, <2>1, <2>2
  <2> QED BY <1>1, <2>3, <2>4
<1>6. CASE Load(e)
  <2>1. PICK ids \in Placements(rows) : rows' = Inserted(Reconciled(rows), ids)
    BY <1>6 DEF Load
  <2>2. \A i \in Ids : rows[i].version < MaxVersion
    BY <1>6 DEF Load
  <2>3. ASSUME NEW i \in Ids PROVE rows'[i].version \in {1, rows[i].version, rows[i].version + 1}
    <3>1. CASE \E k \in Missing(rows) : i = ids[k]
      <4>1. PICK k \in Missing(rows) : i = ids[k]
        BY <3>1
      <4>2. rows'[i] = RestoredRow(NoRow, k, DesiredContent(k))
        BY <2>1, <4>1, LoadRows
      <4>3. RestoredRow(NoRow, k, DesiredContent(k)).version = 1
        BY DEF RestoredRow, NoRow
      <4> QED BY <4>2, <4>3
    <3>2. CASE rows'[i] = RestoredRow(rows[i], rows[i].key, DesiredContent(rows[i].key))
      <4>1. RestoredRow(rows[i], rows[i].key, DesiredContent(rows[i].key)).version = rows[i].version + 1
        BY DEF RestoredRow
      <4> QED BY <3>2, <4>1
    <3>3. CASE rows'[i] = Deleted(rows[i])
      <4>1. Deleted(rows[i]).version = rows[i].version + 1
        BY DEF Deleted
      <4> QED BY <3>3, <4>1
    <3>4. CASE rows'[i] = rows[i]
      BY <3>4
    <3> QED BY <2>1, <3>1, <3>2, <3>3, <3>4, LoadRows
  <2>4. 1 <= MaxVersion /\ MaxVersion \in Nat
    BY EditBounds
  <2>5. ASSUME NEW i \in Ids PROVE rows[i].version + 1 <= MaxVersion
    <3>1. rows[i].version \in Nat /\ rows[i].version < MaxVersion
      BY <1>1, <2>2
    <3> QED BY <2>4, <3>1
  <2> QED BY <1>1, <2>3, <2>4, <2>5
<1> QED BY <1>3, <1>4, <1>5, <1>6

LEMMA NextTyped == Kept /\ TypeOK /\ [Next]_vars => TypeOK'
<1> SUFFICES ASSUME Kept, TypeOK, [Next]_vars PROVE TypeOK'
  OBVIOUS
<1>1. TableKept(rows')
  BY NextKeeps DEF Kept
<1>2. CASE UNCHANGED vars
  BY <1>2 DEF vars, TypeOK
<1>3. ASSUME NEW e \in Editors, Lock(e) PROVE TypeOK'
  <2>1. [rows |-> rows, config |-> config] \in [rows : [Ids -> Rows], config : Configs]
    BY DEF TypeOK
  <2> QED BY <1>3, <2>1 DEF TypeOK, Lock
<1>4. ASSUME NEW e \in Editors, Create(e) \/ Update(e) \/ Delete(e) PROVE TypeOK'
  <2>1. End(e) /\ config' = config
    BY <1>4 DEF Create, Update, Updated, Delete
  <2>2. config' \in Configs
    BY <2>1 DEF TypeOK
  <2>3. \A i \in Ids : rows'[i].version <= MaxVersion
    BY <1>4, VersionsBounded
  <2> QED BY <1>1, <2>1, <2>2, <2>3, EndTyped
<1>5. ASSUME NEW e \in Editors, Load(e) PROVE TypeOK'
  <2>1. config' = [type |-> saved.type, value |-> saved.value, version |-> config.version + 2]
    BY <1>5 DEF Load
  <2>2. config.version + 2 \in 0..MaxVersion
    BY <1>5, EditBounds DEF Load, TypeOK, Configs
  <2>3. config' \in Configs
    BY <2>1, <2>2 DEF TypeOK, Configs
  <2>4. \A i \in Ids : rows'[i].version <= MaxVersion
    BY <1>5, VersionsBounded
  <2>5. End(e)
    BY <1>5 DEF Load
  <2> QED BY <1>1, <2>3, <2>4, <2>5, EndTyped
<1>6. ASSUME NEW e \in Editors, RollBack(e) \/ ConfigUpdate(e) \/ UpdateValue(e) PROVE TypeOK'
  <2>1. End(e) /\ rows' = rows
    BY <1>6 DEF RollBack, ConfigUpdate, UpdateValue
  <2>2. \A i \in Ids : rows'[i].version <= MaxVersion
    BY <2>1, EditBounds DEF TypeOK, Rows
  <2>3. config' \in Configs
    <3>1. CASE RollBack(e)
      BY <3>1 DEF RollBack, TypeOK
    <3>2. CASE ConfigUpdate(e)
      <4>1. SeenType(e) = config.type /\ Seen(e) = ListForConfig(rows)
        BY <2>1, SeenIsNow DEF End
      <4>2. call[e].type \in Types /\ config.version + 1 \in 0..MaxVersion
        BY <3>2, EditBounds DEF ConfigUpdate, TypeOK, Configs, Calls
      <4> QED BY <3>2, <4>2 DEF ConfigUpdate, TypeOK, Configs
    <3>3. CASE UpdateValue(e)
      <4>1. call[e].value \in Documents /\ config.version + 1 \in 0..MaxVersion
        BY <3>3, EditBounds DEF UpdateValue, TypeOK, Configs, Calls
      <4> QED BY <3>3, <4>1 DEF UpdateValue, TypeOK, Configs
    <3> QED BY <1>6, <3>1, <3>2, <3>3
  <2> QED BY <1>1, <2>1, <2>2, <2>3, EndTyped
<1> QED BY <1>2, <1>3, <1>4, <1>5, <1>6, BeginsTyped DEF Next

-----------------------------------------------------------------------------
(* Results *)

\* Type correctness; the default documents of an accepted schema are documents.
THEOREM SchemaTypeCorrect == Spec => []TypeOK
BY InitTyped, NextTyped, AlwaysKept, PTL DEF Spec

\* Whatever editors do at the same time, the definitions stay a schema: keys
\* defined once, references resolved, no structure in itself, and the type of
\* the configuration defined.
THEOREM SchemaAlwaysSound == Spec => []SchemaSound
<1>1. Kept => SchemaSound
  <2> SUFFICES ASSUME Kept PROVE SchemaSound
    OBVIOUS
  <2>1. Sound(ListForConfig(rows), config.type)
    BY DEF Kept, SchemaKept
  <2> QED BY <2>1 DEF Sound, SchemaSound, UniqueKeys, validateType
<1> QED BY <1>1, AlwaysKept, PTL

\* FilterStructureChoices offers exactly the structures the save accepts, in
\* every state concurrent edits reach.
THEOREM ChoicesAlwaysExact == Spec => []ChoicesExact
<1>1. Kept => ChoicesExact
  <2> SUFFICES ASSUME Kept PROVE ChoicesExact
    OBVIOUS
  <2> DEFINE defs == ListForConfig(rows)
  <2>1. /\ WellFormed(defs) /\ UniqueKeys(defs) /\ Resolved(defs) /\ Acyclic(defs)
        /\ \A c, d \in defs : c.id = d.id => c = d
    BY ListKept DEF Kept, SchemaKept, Sound
  <2>2. \A d \in defs : d = [id |-> d.id, key |-> d.key, fields |-> d.fields, options |-> d.options]
    BY DEF ListForConfig
  <2> HIDE DEF defs
  <2>3. ASSUME NEW d \in defs, d.key \in StructureKeys
        PROVE  FilterStructureChoices(defs, d.id) =
                 {k \in Defined(defs) \cap StructureKeys :
                    NewSchema((defs \ {d}) \cup {[d EXCEPT !.fields = @ \cup {k}]})}
    <3>1. FilterStructureChoices(defs, d.id) \subseteq StructuresOf(defs)
      BY DEF FilterStructureChoices, StructuresOf
    <3>2. ASSUME NEW k \in StructuresOf(defs)
          PROVE  k \in FilterStructureChoices(defs, d.id) <=>
                    NewSchema((defs \ {d}) \cup {[d EXCEPT !.fields = @ \cup {k}]})
      <4> DEFINE e == [d EXCEPT !.fields = @ \cup {k}]
      <4>1. e.key = d.key /\ e.fields = d.fields \cup {k}
        BY <2>2
      <4> HIDE DEF e
      <4>2. k \in FilterStructureChoices(defs, d.id) <=> NewSchema((defs \ {d}) \cup {e})
        BY <2>1, <2>3, <4>1, ChoicesAccepted
      <4> QED BY <4>2 DEF e
    <3> QED BY <3>1, <3>2 DEF StructuresOf
  <2> QED BY <2>3 DEF ChoicesExact, defs
<1> QED BY <1>1, AlwaysKept, PTL

\* An update that passes the version check writes over the row its author was
\* shown, whatever was deleted, created again or loaded in between.
THEOREM NoEditLost == Spec => NoLostEdit
<1>1. Kept => \A e \in Editors : Update(e) => rows[call[e].id] = call[e].base
  BY DEF Kept, CallsKept, Update
<1>2. Kept /\ [Next]_vars => [\A e \in Editors : Update(e) => rows[call[e].id] = call[e].base]_vars
  BY <1>1
<1> QED BY <1>2, AlwaysKept, PTL DEF NoLostEdit, Spec

\* After a load the definitions are those of the snapshot.
THEOREM LoadAlwaysRestores == Spec => LoadRestores
<1>1. Kept /\ [Next]_vars =>
         [\A e \in Editors : Load(e) => ContentOf(rows') = saved.definitions]_vars
  BY LoadKeeps
<1> QED BY <1>1, AlwaysKept, PTL DEF LoadRestores, Spec

-----------------------------------------------------------------------------
(* Importing a snapshot.  A claim is free, held by one open transaction, or *)
(* recorded with the one snapshot it made; ClaimsExact says so, and every   *)
(* step keeps it.                                                           *)

USE ImportAssumption

\* An open transaction holds its claim and the claim has no record; what a
\* claim recorded is the snapshot that names it as its origin, and conversely.
ClaimsExact ==
    /\ \A r \in Requests :
          pc[r] \in InTransaction =>
              claimHolder[Claim(r)] = r /\ record[Claim(r)] = None
    /\ \A ck \in Claims :
          record[ck] # None =>
              origin[record[ck].snap] = [claim |-> ck, payload |-> record[ck].payload]
    /\ \A s \in SnapIds :
          origin[s] # None =>
              record[origin[s].claim] = [payload |-> origin[s].payload, snap |-> s]

\* The inductive invariant.
Exact == ImportTypeOK /\ ClaimsExact /\ AnswersAreOwn

\* A claim is a row of the unique key.
LEMMA ClaimType ==
    ASSUME ImportTypeOK, NEW r \in Requests
    PROVE  Claim(r) \in Claims
BY DEF ImportTypeOK, Claim, Claims

\* An origin and a record are never mistaken for no row.
LEMMA RowsAreRows ==
    ASSUME NEW ck \in Claims, NEW pl \in Payloads, NEW s \in SnapIds
    PROVE  /\ [claim |-> ck, payload |-> pl] # None
           /\ [payload |-> pl, snap |-> s] # None
BY DEF Claims

-----------------------------------------------------------------------------
LEMMA InitExact == ImportInit => Exact
<1> SUFFICES ASSUME ImportInit PROVE Exact
  OBVIOUS
<1>1. ImportTypeOK
  BY DEF ImportInit, ImportTypeOK, Labels, Ended
<1>2. ClaimsExact /\ AnswersAreOwn
  BY DEF ImportInit, ClaimsExact, AnswersAreOwn, InTransaction
<1> QED BY <1>1, <1>2 DEF Exact

\* The commit writes the record and the origin together.
LEMMA CommitExact ==
    ASSUME Exact, NEW r \in Requests, NEW s \in SnapIds, Commit(r, s)
    PROVE  Exact'
<1> USE DEF Exact
<1> DEFINE ck == Claim(r)
           pl == payload[r]
<1>1. ck \in Claims /\ pl \in Payloads
  BY ClaimType DEF ImportTypeOK
<1>2. ImportTypeOK'
  <2>1. origin' \in [SnapIds -> [claim : Claims, payload : Payloads] \cup {None}]
    BY <1>1 DEF Commit, ImportOf, ImportTypeOK
  <2>2. record' \in [Claims -> [payload : Payloads, snap : SnapIds] \cup {None}]
    BY <1>1 DEF Commit, ImportTypeOK
  <2>3. /\ exists' \subseteq Projects /\ live' \subseteq SnapIds /\ current' \subseteq live'
        /\ answer' \in [Requests -> SnapIds \cup {None}]
        /\ pc' \in [Requests -> Labels]
    BY DEF Commit, ImportTypeOK, Goto, Labels
  <2>4. /\ claimHolder' \in [Claims -> Requests \cup {None}]
        /\ owner' \in [Projects -> Requests \cup {None}]
    BY DEF Commit, Release, ImportTypeOK
  <2> QED BY <2>1, <2>2, <2>3, <2>4 DEF Commit, ImportTypeOK
<1>3. /\ origin' = [origin EXCEPT ![s] = [claim |-> ck, payload |-> pl]]
      /\ record' = [record EXCEPT ![ck] = [payload |-> pl, snap |-> s]]
      /\ origin[s] = None /\ record[ck] = None /\ claimHolder[ck] = r
      /\ pc[r] = "write" /\ pc'[r] = "find" /\ answer'[r] = s
      /\ \A q \in Requests \ {r} : pc'[q] = pc[q] /\ answer'[q] = answer[q]
      /\ \A q \in Requests :
            Claim(q)' = Claim(q) /\ ImportOf(q)' = ImportOf(q)
      /\ \A c \in Claims : claimHolder[c] # r => claimHolder'[c] = claimHolder[c]
  BY <1>1 DEF Commit, Release, ImportOf, FreeIds, ClaimsExact,
        InTransaction, Goto, ImportTypeOK, Claim
<1> HIDE DEF ck, pl
<1>4. \A q \in Requests \ {r} : pc[q] \in InTransaction => Claim(q) # ck
  BY <1>3 DEF ClaimsExact
<1>5. ClaimsExact'
  <2>1. \A q \in Requests :
            pc'[q] \in InTransaction =>
                claimHolder'[Claim(q)] = q /\ record'[Claim(q)] = None
    BY <1>1, <1>3, <1>4, ClaimType DEF ClaimsExact, InTransaction, ImportTypeOK
  <2>2. \A c \in Claims :
            record'[c] # None =>
                origin'[record'[c].snap] = [claim |-> c, payload |-> record'[c].payload]
    <3> SUFFICES ASSUME NEW c \in Claims, record'[c] # None
                 PROVE  origin'[record'[c].snap] = [claim |-> c, payload |-> record'[c].payload]
      OBVIOUS
    <3>1. CASE c = ck
      <4>1. record'[c] = [payload |-> pl, snap |-> s]
        BY <1>1, <1>3, <3>1 DEF ImportTypeOK
      <4>2. origin'[s] = [claim |-> ck, payload |-> pl]
        BY <1>3 DEF ImportTypeOK
      <4> QED BY <3>1, <4>1, <4>2
    <3>2. CASE c # ck
      <4>1. record'[c] = record[c]
        BY <1>1, <1>3, <3>2 DEF ImportTypeOK
      <4>2. origin[record[c].snap] = [claim |-> c, payload |-> record[c].payload]
        BY <4>1 DEF ClaimsExact
      <4>3. record[c].snap \in SnapIds /\ record[c].snap # s
        <5>1. record[c].snap \in SnapIds /\ record[c].payload \in Payloads
          BY <4>1 DEF ImportTypeOK
        <5>2. origin[record[c].snap] # None
          BY <4>2, <5>1, RowsAreRows
        <5> QED BY <1>3, <5>1, <5>2
      <4> QED BY <1>3, <4>1, <4>2, <4>3 DEF ImportTypeOK
    <3> QED BY <3>1, <3>2
  <2>3. \A t \in SnapIds :
            origin'[t] # None =>
                record'[origin'[t].claim] = [payload |-> origin'[t].payload, snap |-> t]
    <3> SUFFICES ASSUME NEW t \in SnapIds, origin'[t] # None
                 PROVE  record'[origin'[t].claim] = [payload |-> origin'[t].payload, snap |-> t]
      OBVIOUS
    <3>1. CASE t = s
      <4>1. origin'[t] = [claim |-> ck, payload |-> pl]
        BY <1>3, <3>1 DEF ImportTypeOK
      <4>2. record'[ck] = [payload |-> pl, snap |-> s]
        BY <1>1, <1>3 DEF ImportTypeOK
      <4> QED BY <3>1, <4>1, <4>2
    <3>2. CASE t # s
      <4>1. origin'[t] = origin[t]
        BY <1>3, <3>2 DEF ImportTypeOK
      <4>2. record[origin[t].claim] = [payload |-> origin[t].payload, snap |-> t]
        BY <4>1 DEF ClaimsExact
      <4>3. origin[t].claim \in Claims
        BY <4>1 DEF ImportTypeOK
      <4>4. origin[t].claim # ck
        <5>1. origin[t].payload \in Payloads
          BY <4>1 DEF ImportTypeOK
        <5>2. record[origin[t].claim] # None
          BY <4>2, <4>3, <5>1, RowsAreRows
        <5> QED BY <1>3, <5>2
      <4> QED BY <1>3, <4>1, <4>2, <4>3, <4>4 DEF ImportTypeOK
    <3> QED BY <3>1, <3>2
  <2> QED BY <1>3, <2>1, <2>2, <2>3 DEF ClaimsExact
<1>6. AnswersAreOwn'
  <2> SUFFICES ASSUME NEW q \in Requests, pc'[q] \in {"find", "served"}
               PROVE  answer'[q] # None /\ origin'[answer'[q]] = ImportOf(q)
    BY <1>3 DEF AnswersAreOwn
  <2>1. CASE q = r
    BY <1>3, <2>1 DEF ImportTypeOK, ImportOf, ck, pl
  <2>2. CASE q # r
    <3>1. answer'[q] = answer[q] /\ answer[q] # None /\ origin[answer[q]] = ImportOf(q)
      BY <1>3, <2>2 DEF AnswersAreOwn
    <3>2. ImportOf(q) # None
      BY ClaimType, RowsAreRows DEF ImportOf, ImportTypeOK
    <3>3. answer[q] \in SnapIds /\ answer[q] # s
      BY <1>3, <3>1, <3>2 DEF ImportTypeOK
    <3> QED BY <1>3, <3>1, <3>3 DEF ImportTypeOK
  <2> QED BY <2>1, <2>2
<1> QED BY <1>2, <1>5, <1>6

\* Every other step of a request leaves records and origins alone.
LEMMA RequestExact ==
    ASSUME Exact, NEW r \in Requests,
           \/ \E pl \in Payloads, k \in ImportKeys : Import(r, pl, k)
           \/ InsertClaim(r)
           \/ LockExistingClaim(r)
           \/ LockSource(r)
           \/ LockTarget(r)
           \/ Rollback(r)
           \/ FindSnapshot(r)
           \/ Lose(r)
    PROVE  Exact'
<1> USE DEF Exact, importRows, locks, Goto, Labels, Ended,
      InTransaction
<1>0. \A q \in Requests : Claim(q) \in Claims
  BY ClaimType
<1>1. ASSUME NEW pl \in Payloads, NEW k \in ImportKeys, Import(r, pl, k) PROVE Exact'
  <2>1. ImportTypeOK'
    BY <1>1 DEF Import, ImportTypeOK
  <2>2. /\ \A q \in Requests \ {r} : /\ pc'[q] = pc[q] /\ answer'[q] = answer[q]
                                     /\ Claim(q)' = Claim(q)
                                     /\ ImportOf(q)' = ImportOf(q)
        /\ pc'[r] = "claim"
    BY <1>1 DEF Import, ImportTypeOK, Claim, ImportOf
  <2>3. UNCHANGED <<origin, record, claimHolder>>
    BY <1>1 DEF Import
  <2> QED BY <2>1, <2>2, <2>3 DEF ClaimsExact, AnswersAreOwn
<1> DEFINE Same == \A q \in Requests :
                      Claim(q)' = Claim(q) /\ ImportOf(q)' = ImportOf(q)
<1>2. ASSUME UNCHANGED <<payload, importKey>> PROVE Same
  BY <1>2 DEF Claim, ImportOf
<1>3. CASE InsertClaim(r)
  <2>1. ImportTypeOK'
    BY <1>0, <1>3 DEF InsertClaim, ImportTypeOK
  <2>2. ClaimsExact'
    BY <1>0, <1>2, <1>3 DEF InsertClaim, ClaimTaken, ClaimsExact, ImportTypeOK
  <2>3. AnswersAreOwn'
    BY <1>2, <1>3 DEF InsertClaim, AnswersAreOwn, ImportTypeOK
  <2> QED BY <2>1, <2>2, <2>3
<1>4. CASE LockExistingClaim(r)
  <2>1. ImportTypeOK'
    BY <1>0, <1>4 DEF LockExistingClaim, ClaimTaken, ImportTypeOK
  <2>2. ClaimsExact'
    BY <1>0, <1>2, <1>4 DEF LockExistingClaim, ClaimsExact, ImportTypeOK
  <2>3. AnswersAreOwn'
    <3>1. \A q \in Requests \ {r} : pc'[q] = pc[q] /\ answer'[q] = answer[q]
      BY <1>4 DEF LockExistingClaim, ImportTypeOK
    <3>2. pc'[r] # "conflict" =>
              /\ record[Claim(r)] # None
              /\ record[Claim(r)].payload = payload[r]
              /\ answer'[r] = record[Claim(r)].snap
      BY <1>4 DEF LockExistingClaim, ClaimTaken, SameRequest, ImportTypeOK
    <3>3. pc'[r] # "conflict" => answer'[r] # None /\ origin[answer'[r]] = ImportOf(r)
      BY <1>0, <3>2 DEF ClaimsExact, ImportOf, ImportTypeOK
    <3>4. UNCHANGED origin /\ Same
      BY <1>2, <1>4 DEF LockExistingClaim
    <3> QED BY <3>1, <3>3, <3>4 DEF AnswersAreOwn
  <2> QED BY <2>1, <2>2, <2>3
<1>5. CASE LockSource(r) \/ LockTarget(r)
  <2>1. ImportTypeOK'
    <3>1. payload[r].src \in Projects /\ payload[r].dst \in Projects
      BY DEF ImportTypeOK
    <3>2. owner' \in [Projects -> Requests \cup {None}]
      <4>1. \E p \in Projects : owner' = [owner EXCEPT ![p] = r]
        BY <1>5, <3>1 DEF LockSource, LockTarget
      <4>2. owner \in [Projects -> Requests \cup {None}]
        BY DEF ImportTypeOK
      <4> QED BY <4>1, <4>2
    <3>3. pc' \in [Requests -> Labels]
      BY <1>5 DEF LockSource, LockTarget, ImportTypeOK
    <3>4. UNCHANGED <<importRows, claimHolder, payload, importKey, answer>>
      BY <1>5 DEF LockSource, LockTarget
    <3> QED BY <3>2, <3>3, <3>4 DEF importRows, ImportTypeOK
  <2>2. ClaimsExact'
    BY <1>2, <1>5 DEF LockSource, LockTarget, ClaimsExact, ImportTypeOK
  <2>3. AnswersAreOwn'
    BY <1>2, <1>5 DEF LockSource, LockTarget, AnswersAreOwn, ImportTypeOK
  <2> QED BY <2>1, <2>2, <2>3
<1>6. CASE Rollback(r)
  <2>1. ImportTypeOK'
    <3>1. /\ claimHolder' \in [Claims -> Requests \cup {None}]
          /\ owner' \in [Projects -> Requests \cup {None}]
      BY <1>6 DEF Rollback, Release, ImportTypeOK
    <3> QED BY <1>6, <3>1 DEF Rollback, ImportTypeOK
  <2>2. ClaimsExact'
    BY <1>0, <1>2, <1>6 DEF Rollback, Release, ClaimsExact, ImportTypeOK
  <2>3. AnswersAreOwn'
    BY <1>2, <1>6 DEF Rollback, AnswersAreOwn, ImportTypeOK
  <2> QED BY <2>1, <2>2, <2>3
<1>7. CASE FindSnapshot(r) \/ Lose(r)
  <2>1. ImportTypeOK'
    BY <1>7 DEF FindSnapshot, Lose, ImportTypeOK
  <2>2. ClaimsExact'
    BY <1>2, <1>7 DEF FindSnapshot, Lose, ClaimsExact, ImportTypeOK
  <2>3. AnswersAreOwn'
    BY <1>2, <1>7 DEF FindSnapshot, Lose, AnswersAreOwn, ImportTypeOK
  <2> QED BY <2>1, <2>2, <2>3
<1> QED BY <1>1, <1>3, <1>4, <1>5, <1>6, <1>7

\* The invariant is inductive.
LEMMA ExactStep ==
    ASSUME Exact, [ImportNext]_importVars
    PROVE  Exact'
<1>1. ASSUME NEW s \in SnapIds, SnapshotDelete(s) PROVE Exact'
  BY <1>1 DEF SnapshotDelete, Deletable, Exact, ImportTypeOK, ClaimsExact,
        AnswersAreOwn, Claim, ImportOf, locks, requests
<1>2. CASE UNCHANGED importVars
  BY <1>2 DEF importVars, importRows, locks, requests, Exact, ImportTypeOK,
        ClaimsExact, AnswersAreOwn, Claim, ImportOf
<1> QED BY <1>1, <1>2, CommitExact, RequestExact DEF ImportNext

-----------------------------------------------------------------------------
\* The inductive invariant holds in every reachable state.
THEOREM AlwaysExact == ImportSpec => []Exact
BY InitExact, ExactStep, PTL DEF ImportSpec

\* Type correctness; a current snapshot is live.
THEOREM ImportTypeCorrect == ImportSpec => []ImportTypeOK
<1>1. Exact => ImportTypeOK
  BY DEF Exact
<1> QED BY <1>1, AlwaysExact, PTL

\* An idempotency key imports at most once, however often its request is
\* repeated, raced, rolled back or left without an answer.
THEOREM KeyImportsOnce == ImportSpec => []ImportedOnce
<1>1. Exact => ImportedOnce
  <2> SUFFICES ASSUME Exact, NEW s \in SnapIds, NEW t \in SnapIds,
                      origin[s] # None, origin[t] # None, origin[s].claim = origin[t].claim
               PROVE  s = t
    BY DEF ImportedOnce
  <2>1. /\ record[origin[s].claim] = [payload |-> origin[s].payload, snap |-> s]
        /\ record[origin[t].claim] = [payload |-> origin[t].payload, snap |-> t]
    BY DEF Exact, ClaimsExact
  <2> QED BY <2>1
<1> QED BY <1>1, AlwaysExact, PTL

\* A request is never answered with another request's snapshot.
THEOREM AnswersAlwaysOwn == ImportSpec => []AnswersAreOwn
<1>1. Exact => AnswersAreOwn
  BY DEF Exact
<1> QED BY <1>1, AlwaysExact, PTL
=============================================================================
