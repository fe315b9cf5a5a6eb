---------------------------- MODULE ResolverProofs ----------------------------
(***************************************************************************)
(* Lemmas about finite sets of events and the operators of AllocEvents and *)
(* ConflictResolver, for any sets of events.                               *)
(***************************************************************************)
EXTENDS ConflictResolver, FiniteSetTheorems, WellFoundedInduction, TLAPS

-----------------------------------------------------------------------------
(* Finite sets                                                             *)

\* Induction over a finite set without an operator parameter: a collection of
\* subsets of S that has {} and is closed under adding an element has S.
LEMMA FiniteInduction ==
  ASSUME NEW S, IsFiniteSet(S), NEW C,
         {} \in C,
         \A T \in SUBSET S, x \in S : T \in C => T \cup {x} \in C
  PROVE  S \in C
<1> DEFINE Bad == (SUBSET S) \ C
<1>1. SUFFICES ASSUME S \notin C PROVE FALSE
  OBVIOUS
<1>2. IsWellFoundedOn(StrictSubsetOrdering(S), SUBSET S)
  BY FS_StrictSubsetOrderingWellFounded, FS_FiniteSubsetsOfFinite
<1>3. PICK T \in Bad : \A U \in Bad : <<U, T>> \notin StrictSubsetOrdering(S)
  <2>1. Bad # {} /\ Bad \subseteq SUBSET S
    BY <1>1
  <2> HIDE DEF Bad
  <2>2. QED
    BY <1>2, <2>1, WFMin
<1>4. PICK x \in T : TRUE
  BY <1>3
<1>5. T \ {x} \in C
  <2>1. <<T \ {x}, T>> \in StrictSubsetOrdering(S)
    BY <1>4 DEF StrictSubsetOrdering
  <2>2. T \ {x} \notin Bad
    BY <1>3, <2>1
  <2>3. QED
    BY <2>2
<1>6. (T \ {x}) \cup {x} = T
  BY <1>4
<1>7. x \in S /\ T \ {x} \in SUBSET S
  BY <1>4
<1>8. T \in C
  BY <1>5, <1>6, <1>7
<1>9. QED
  BY <1>3, <1>8

LEMMA UnionOfFiniteIsFinite ==
  ASSUME NEW S, IsFiniteSet(S), NEW f, \A x \in S : IsFiniteSet(f[x])
  PROVE  IsFiniteSet(UNION {f[x] : x \in S})
<1> DEFINE C == {T \in SUBSET S : IsFiniteSet(UNION {f[x] : x \in T})}
<1>1. {} \in C
  <2>1. UNION {f[x] : x \in {}} = {}
    OBVIOUS
  <2>2. QED
    BY <2>1, FS_EmptySet
<1>2. ASSUME NEW T \in SUBSET S, NEW x \in S, T \in C
      PROVE  T \cup {x} \in C
  <2>1. UNION {f[y] : y \in T \cup {x}} = (UNION {f[y] : y \in T}) \cup f[x]
    OBVIOUS
  <2>2. IsFiniteSet(UNION {f[y] : y \in T}) /\ IsFiniteSet(f[x])
    BY <1>2
  <2>3. IsFiniteSet((UNION {f[y] : y \in T}) \cup f[x])
    BY <2>2, FS_Union
  <2>4. QED
    BY <2>1, <2>3
<1>3. S \in C
  <2> HIDE DEF C
  <2>1. QED
    BY <1>1, <1>2, FiniteInduction
<1>4. QED
  BY <1>3

-----------------------------------------------------------------------------
(* Sums over events                                                        *)

LEMMA RowOfUnitsFinite ==
  ASSUME NEW e, NEW n \in Nat
  PROVE  /\ IsFiniteSet({e} \X (1 .. n))
         /\ Cardinality({e} \X (1 .. n)) = n
<1> DEFINE f == [k \in 1 .. n |-> <<e, k>>]
<1>1. f \in Bijection(1 .. n, {e} \X (1 .. n))
  <2>1. f \in [1 .. n -> {e} \X (1 .. n)]
    OBVIOUS
  <2>2. \A j, k \in 1 .. n : f[j] = f[k] => j = k
    OBVIOUS
  <2>3. ASSUME NEW t \in {e} \X (1 .. n) PROVE \E k \in 1 .. n : f[k] = t
    <3>1. PICK k \in 1 .. n : t = <<e, k>>
      OBVIOUS
    <3>2. QED
      BY <3>1
  <2> HIDE DEF f
  <2>4. QED
    BY <2>1, <2>2, <2>3 DEF Bijection, Injection, Surjection, IsInjective
<1>2. IsFiniteSet(1 .. n) /\ Cardinality(1 .. n) = n
  BY FS_Interval
<1>3. QED
  BY <1>1, <1>2, FS_Bijection DEF ExistsBijection

\* A finite set of events has a finite number of units.
LEMMA TotalType ==
  ASSUME NEW S \in SUBSET Event, IsFiniteSet(S)
  PROVE  IsFiniteSet(Units(S)) /\ Total(S) \in Nat
<1> DEFINE f == [e \in S |-> {e} \X (1 .. e.amount)]
<1>1. \A e \in S : IsFiniteSet(f[e])
  BY RowOfUnitsFinite, EventAssumption DEF EventPayload
<1>2. Units(S) = UNION {f[e] : e \in S}
  BY DEF Units
<1>3. IsFiniteSet(Units(S))
  <2> HIDE DEF f
  <2>1. QED
    BY <1>1, <1>2, UnionOfFiniteIsFinite
<1>4. QED
  BY <1>3, FS_CardinalityType DEF Total

LEMMA TotalCarbonType ==
  ASSUME NEW S \in SUBSET Event, IsFiniteSet(S)
  PROVE  TotalCarbon(S) \in Nat
<1> DEFINE f == [e \in S |-> {e} \X (1 .. e.amount * e.carbon)]
<1>1. ASSUME NEW e \in S PROVE IsFiniteSet(f[e])
  <2>1. e.amount * e.carbon \in Nat
    BY EventAssumption DEF EventPayload
  <2>2. QED
    BY <2>1, RowOfUnitsFinite
<1>2. CarbonUnits(S) = UNION {f[e] : e \in S}
  BY DEF CarbonUnits
<1>3. IsFiniteSet(CarbonUnits(S))
  <2> HIDE DEF f
  <2>1. QED
    BY <1>1, <1>2, UnionOfFiniteIsFinite
<1>4. QED
  BY <1>3, FS_CardinalityType DEF TotalCarbon

LEMMA TotalEmpty == Total({}) = 0
  BY FS_EmptySet DEF Total, Units

\* The sum of a set with one more event.
LEMMA TotalAdd ==
  ASSUME NEW S \in SUBSET Event, IsFiniteSet(S), NEW e \in Event, e \notin S
  PROVE  Total(S \cup {e}) = Total(S) + e.amount
<1> DEFINE U == {e} \X (1 .. e.amount)
<1>1. Units(S \cup {e}) = Units(S) \cup U
  BY DEF Units
<1>2. Units(S) \cap U = {}
  BY DEF Units
<1>3. IsFiniteSet(Units(S)) /\ Total(S) \in Nat
  BY TotalType
<1>4. e.amount \in Nat
  BY EventAssumption DEF EventPayload
<1>5. IsFiniteSet(U) /\ Cardinality(U) = e.amount
  BY <1>4, RowOfUnitsFinite
<1>6. Cardinality(Units(S) \cup U)
        = Cardinality(Units(S)) + Cardinality(U) - Cardinality(Units(S) \cap U)
  <2> HIDE DEF U
  <2>1. QED
    BY <1>3, <1>5, FS_Union
<1>7. Cardinality(Units(S) \cap U) = 0
  BY <1>2, FS_EmptySet
<1>8. Total(S \cup {e}) = Cardinality(Units(S) \cup U)
  BY <1>1 DEF Total
<1>9. Cardinality(Units(S)) = Total(S)
  BY DEF Total
<1> HIDE DEF U
<1>10. QED
  BY <1>3, <1>4, <1>5, <1>6, <1>7, <1>8, <1>9

-----------------------------------------------------------------------------
(* What the operators of ConflictResolver return                           *)

LEMMA AcceptedType ==
  ASSUME NEW R
  PROVE  Accepted(R) \subseteq R
  BY DEF Accepted

LEMMA EntryType ==
  ASSUME NEW x \in Event, NEW R \in SUBSET Event
  PROVE  EntryFor(x, R) \in AuditEntry
<1>1. Accepted(R) \subseteq Event /\ GroupOf(x, R) \subseteq Event
  BY AcceptedType DEF GroupOf
<1>2. ConflictEntry(GroupOf(x, R), Accepted(R)) \in AuditEntry
  BY <1>1 DEF ConflictEntry, AuditEntry
<1>3. OrphanEntry(x) \in AuditEntry
  BY DEF OrphanEntry, AuditEntry
<1>4. QED
  BY <1>2, <1>3 DEF EntryFor

LEMMA NoRowType == NoRow \in Row
  BY DEF NoRow, Row

LEMMA FoldRowType ==
  ASSUME NEW reqs \in SUBSET Event, IsFiniteSet(reqs),
         NEW rels \in SUBSET Event, IsFiniteSet(rels),
         NEW all \in SUBSET Event, IsFiniteSet(all)
  PROVE  FoldRow(reqs, rels, all) \in Row
<1> DEFINE A == Accepted(reqs)
           kept == rels \ Orphans(rels, A)
<1>1. A \in SUBSET Event /\ IsFiniteSet(A)
  BY AcceptedType, FS_Subset
<1>2. kept \in SUBSET Event /\ IsFiniteSet(kept)
  BY FS_Subset
<1>3. Total(A) \in Nat /\ Total(kept) \in Nat /\ TotalCarbon(A) \in Nat
  <2> HIDE DEF A, kept
  <2>1. QED
    BY <1>1, <1>2, TotalType, TotalCarbonType
<1>4. NonNegative(Total(A) - Total(kept)) \in Nat
  <2> HIDE DEF A, kept
  <2>1. QED
    BY <1>3 DEF NonNegative
<1>5. Cardinality(all) \in Nat
  BY FS_CardinalityType
<1>6. Latest(all) \in SUBSET Event
  BY DEF Latest
<1>7. QED
  BY <1>3, <1>4, <1>5, <1>6 DEF FoldRow, Row

LEMMA EventsOfType ==
  ASSUME NEW log \in SUBSET Event, IsFiniteSet(log), NEW b
  PROVE  /\ EventsOf(log, b) \in SUBSET Event
         /\ RequestsOf(log, b) \in SUBSET Event
         /\ ReleasesOf(log, b) \in SUBSET Event
         /\ IsFiniteSet(EventsOf(log, b))
         /\ IsFiniteSet(RequestsOf(log, b))
         /\ IsFiniteSet(ReleasesOf(log, b))
<1>1. /\ EventsOf(log, b) \in SUBSET log
      /\ RequestsOf(log, b) \in SUBSET log
      /\ ReleasesOf(log, b) \in SUBSET log
  BY DEF EventsOf, RequestsOf, ReleasesOf
<1>2. QED
  BY <1>1, FS_Subset

\* A non-empty set of buckets has a first one in ORDER BY order.
LEMMA FirstBucket ==
  ASSUME NEW K \in SUBSET Bucket, K # {}
  PROVE  \E b \in K : \A c \in K : b <= c
<1> DEFINE segment == [b \in K |-> 0 .. b]
           Segments == {segment[b] : b \in K}
<1>1. K \subseteq Nat
  BY BucketAssumption
<1>2. Segments # {} /\ Segments \subseteq FiniteSubsetsOf(Nat)
  <2>1. ASSUME NEW b \in K PROVE 0 .. b \in FiniteSubsetsOf(Nat)
    <3>1. 0 \in Int /\ b \in Int
      BY <1>1
    <3>2. IsFiniteSet(0 .. b)
      BY <3>1, FS_Interval
    <3>3. QED
      BY <3>2 DEF FiniteSubsetsOf
  <2>2. QED
    BY <2>1
<1>3. PICK s \in Segments :
        \A t \in Segments : <<t, s>> \notin StrictSubsetOrdering(Nat)
  <2> HIDE DEF Segments
  <2>1. QED
    BY <1>2, FS_StrictSubsetOrderingWellFounded, WFMin
<1>4. PICK b \in K : s = 0 .. b
  BY <1>3
<1>5. ASSUME NEW c \in K, c < b PROVE FALSE
  <2>1. 0 .. c \in Segments
    OBVIOUS
  <2>2. <<0 .. c, 0 .. b>> \in StrictSubsetOrdering(Nat)
    BY <1>1, <1>5 DEF StrictSubsetOrdering
  <2>3. QED
    BY <1>3, <1>4, <2>1, <2>2
<1>6. QED
  BY <1>1, <1>5

-----------------------------------------------------------------------------
(* The orders of the sweep, of the ranking and of the decisions are strict *)
(* and total on requests with different ids.                               *)

Distinct(R) == \A e, f \in R : e.id = f.id => e = f

LEMMA PayloadFields ==
  ASSUME NEW e \in Event
  PROVE  /\ e.id \in Nat /\ e.priority \in Int /\ e.carbon \in Int
         /\ e.amount \in Nat /\ e.bucket \in Bucket
         /\ WindowStart(e) \in Int /\ WindowEnd(e) \in Int
<1>1. e \in EventPayload
  BY EventAssumption
<1>2. /\ e.id \in Nat /\ e.carbon \in Nat /\ e.priority \in 1 .. 10 /\ e.clock \in Nat
      /\ e.amount \in Nat /\ e.bucket \in Bucket /\ e.duration \in Nat
  BY <1>1 DEF EventPayload
<1>3. e.aware \in BOOLEAN /\ e.offset \in -23 .. 23
  BY <1>1 DEF EventPayload, UtcOffset
<1>4. Offset(e) \in Int
  BY <1>3 DEF Offset
<1>5. WindowStart(e) \in Int
  BY <1>2, <1>4 DEF WindowStart
<1>6. QED
  BY <1>2, <1>5 DEF WindowEnd

LEMMA StartsBeforeOrder ==
  ASSUME NEW R \in SUBSET Event, Distinct(R)
  PROVE  /\ \A e \in R : ~StartsBefore(e, e)
         /\ \A e, f \in R : e = f \/ StartsBefore(e, f) \/ StartsBefore(f, e)
         /\ \A e, f, g \in R :
              StartsBefore(e, f) /\ StartsBefore(f, g) => StartsBefore(e, g)
<1>1. \A e \in R : e.id \in Nat /\ WindowStart(e) \in Int
  BY PayloadFields
<1>2. \A e \in R : ~StartsBefore(e, e)
  BY <1>1 DEF StartsBefore
<1>3. \A e, f \in R : e = f \/ StartsBefore(e, f) \/ StartsBefore(f, e)
  BY <1>1 DEF StartsBefore, Distinct
<1>4. \A e, f, g \in R :
        StartsBefore(e, f) /\ StartsBefore(f, g) => StartsBefore(e, g)
  BY <1>1 DEF StartsBefore
<1>5. QED
  BY <1>2, <1>3, <1>4

LEMMA ResolverOrder ==
  ASSUME NEW R \in SUBSET Event, Distinct(R)
  PROVE  /\ \A e \in R : ~ResolverBefore(e, e)
         /\ \A e, f \in R : e = f \/ ResolverBefore(e, f) \/ ResolverBefore(f, e)
         /\ \A e, f, g \in R :
              ResolverBefore(e, f) /\ ResolverBefore(f, g) => ResolverBefore(e, g)
<1>1. \A e \in R : e.priority \in Int /\ e.carbon \in Int
  BY PayloadFields
<1>2. \A e \in R : ~ResolverBefore(e, e)
  BY <1>1, StartsBeforeOrder DEF ResolverBefore
<1>3. \A e, f \in R : e = f \/ ResolverBefore(e, f) \/ ResolverBefore(f, e)
  BY <1>1, StartsBeforeOrder DEF ResolverBefore
<1>4. ASSUME NEW e \in R, NEW f \in R, NEW g \in R,
             ResolverBefore(e, f), ResolverBefore(f, g)
      PROVE  ResolverBefore(e, g)
  <2>1. StartsBefore(e, f) /\ StartsBefore(f, g) => StartsBefore(e, g)
    BY StartsBeforeOrder
  <2>2. QED
    BY <1>1, <1>4, <2>1 DEF ResolverBefore
<1>5. QED
  BY <1>2, <1>3, <1>4

\* The flushes that an event comes after grow with the order of the sweep.
LEMMA LeadersGrow ==
  ASSUME NEW R \in SUBSET Event, Distinct(R), NEW e \in R, NEW f \in R,
         StartsBefore(e, f)
  PROVE  Leaders(e, R) \subseteq Leaders(f, R)
  BY StartsBeforeOrder DEF Leaders

\* The order in which the fold decides.
LEMMA DecisionOrder ==
  ASSUME NEW R \in SUBSET Event, Distinct(R)
  PROVE  /\ \A e \in R : ~DecidedBefore(e, e, R)
         /\ \A e, f \in R : e = f \/ DecidedBefore(e, f, R) \/ DecidedBefore(f, e, R)
         /\ \A e, f, g \in R :
              DecidedBefore(e, f, R) /\ DecidedBefore(f, g, R) => DecidedBefore(e, g, R)
<1>1. \A e \in R : ~DecidedBefore(e, e, R)
  BY ResolverOrder DEF DecidedBefore, SameGroup
<1>2. \A e, f \in R : e = f \/ DecidedBefore(e, f, R) \/ DecidedBefore(f, e, R)
  BY ResolverOrder, StartsBeforeOrder DEF DecidedBefore, SameGroup
<1>3. ASSUME NEW e \in R, NEW f \in R, NEW g \in R,
             DecidedBefore(e, f, R), DecidedBefore(f, g, R)
      PROVE  DecidedBefore(e, g, R)
  <2> DEFINE L(x) == Leaders(x, R)
  <2>1. \A x, y \in R : StartsBefore(x, y) => L(x) \subseteq L(y)
    BY LeadersGrow
  <2>2. \A x, y \in R : L(x) # L(y) /\ L(x) \subseteq L(y) => StartsBefore(x, y)
    BY <2>1, StartsBeforeOrder
  <2>3. \A x, y \in R : DecidedBefore(x, y, R) <=>
          IF L(x) = L(y) THEN ResolverBefore(x, y) ELSE StartsBefore(x, y)
    BY DEF DecidedBefore, SameGroup
  <2> HIDE DEF L
  <2>4. CASE L(e) = L(f) /\ L(f) = L(g)
    BY <1>3, <2>3, <2>4, ResolverOrder
  <2>5. CASE L(e) # L(f) \/ L(f) # L(g)
    <3>1. L(e) \subseteq L(f) /\ L(f) \subseteq L(g)
      BY <1>3, <2>1, <2>3
    <3>2. L(e) # L(g)
      BY <2>5, <3>1
    <3>3. StartsBefore(e, g)
      BY <2>2, <3>1, <3>2
    <3>4. QED
      BY <2>3, <3>2, <3>3
  <2>6. QED
    BY <2>4, <2>5
<1>4. QED
  BY <1>1, <1>2, <1>3

\* A finite set has a first element in a strict order, and a last one.
LEMMA FiniteSetHasFirst ==
  ASSUME NEW S, IsFiniteSet(S), S # {}, NEW O,
         \A x \in S : <<x, x>> \notin O,
         \A x, y, z \in S : <<x, y>> \in O /\ <<y, z>> \in O => <<x, z>> \in O
  PROVE  \E x \in S : \A y \in S : <<y, x>> \notin O
<1> DEFINE C == {T \in SUBSET S : T = {} \/ \E x \in T : \A y \in T : <<y, x>> \notin O}
<1>1. {} \in C
  OBVIOUS
<1>2. ASSUME NEW T \in SUBSET S, NEW x \in S, T \in C
      PROVE  T \cup {x} \in C
  <2>1. CASE T = {}
    BY <2>1
  <2>2. CASE T # {}
    <3>1. PICK m \in T : \A y \in T : <<y, m>> \notin O
      BY <1>2, <2>2
    <3>2. CASE <<x, m>> \in O
      <4>1. \A y \in T \cup {x} : <<y, x>> \notin O
        BY <3>1, <3>2
      <4>2. QED
        BY <4>1
    <3>3. CASE <<x, m>> \notin O
      BY <3>1, <3>3
    <3>4. QED
      BY <3>2, <3>3
  <2>3. QED
    BY <2>1, <2>2
<1>3. S \in C
  <2> HIDE DEF C
  <2>1. QED
    BY <1>1, <1>2, FiniteInduction
<1>4. QED
  BY <1>3

-----------------------------------------------------------------------------
(* Accepted is a recursive function, that is, some function that satisfies *)
(* the equation, if there is one.  There is: the largest set of requests   *)
(* that are decided one after the other, and for which the equation has a  *)
(* solution, leaves none out.                                              *)

\* A accepts those requests of T that fit, and T lacks no request that is
\* decided before one of its own.
Resolves(A, T, R) ==
  /\ A \subseteq T
  /\ \A e \in T, f \in R : DecidedBefore(f, e, R) => f \in T
  /\ \A e \in T : e \in A <=> Fits(e, {f \in A : DecidedBefore(f, e, R)})

LEMMA ResolvesOneMore ==
  ASSUME NEW R \in SUBSET Event, Distinct(R), NEW T \in SUBSET R, NEW A, Resolves(A, T, R),
         NEW m \in R \ T, \A f \in R \ T : ~DecidedBefore(f, m, R)
  PROVE  Resolves(IF Fits(m, {f \in A : DecidedBefore(f, m, R)}) THEN A \cup {m} ELSE A,
                  T \cup {m}, R)
<1> DEFINE before(e) == {f \in A : DecidedBefore(f, e, R)}
           B == IF Fits(m, before(m)) THEN A \cup {m} ELSE A
<1>1. A \subseteq T /\ B \subseteq T \cup {m} /\ m \notin A
  BY DEF Resolves
<1>2. \A e \in T \cup {m}, f \in R : DecidedBefore(f, e, R) => f \in T \cup {m}
  BY DEF Resolves
<1>3. \A e \in T \cup {m} : ~DecidedBefore(m, e, R)
  BY DecisionOrder DEF Resolves
<1>4. \A e \in T \cup {m} : {f \in B : DecidedBefore(f, e, R)} = before(e)
  BY <1>3
<1>5. \A e \in T : e \in B <=> Fits(e, before(e))
  BY <1>1 DEF Resolves
<1>6. m \in B <=> Fits(m, before(m))
  BY <1>1
<1>7. Resolves(B, T \cup {m}, R)
  <2>1. \A e \in T \cup {m} : e \in B <=> Fits(e, {f \in B : DecidedBefore(f, e, R)})
    BY <1>4, <1>5, <1>6
  <2> HIDE DEF B
  <2>2. QED
    BY <1>1, <1>2, <2>1 DEF Resolves
<1>8. QED
  BY <1>7

LEMMA ResolvesAll ==
  ASSUME NEW R \in SUBSET Event, IsFiniteSet(R), Distinct(R)
  PROVE  \E A : Resolves(A, R, R)
<1> DEFINE Left == {U \in SUBSET R : \E A : Resolves(A, R \ U, R)}
<1>1. R \in Left
  <2>1. Resolves({}, R \ R, R)
    BY DEF Resolves
  <2>2. QED
    BY <2>1
<1>2. PICK U \in Left : \A V \in Left : <<V, U>> \notin StrictSubsetOrdering(R)
  <2>1. IsWellFoundedOn(StrictSubsetOrdering(R), SUBSET R)
    BY FS_StrictSubsetOrderingWellFounded, FS_FiniteSubsetsOfFinite
  <2>2. Left # {} /\ Left \subseteq SUBSET R
    BY <1>1
  <2> HIDE DEF Left
  <2>3. QED
    BY <2>1, <2>2, WFMin
<1>3. PICK A : Resolves(A, R \ U, R)
  BY <1>2
<1>4. U = {}
  <2> SUFFICES ASSUME U # {} PROVE FALSE
    OBVIOUS
  <2> DEFINE O == {p \in R \X R : DecidedBefore(p[1], p[2], R)}
  <2>1. /\ \A x \in U : <<x, x>> \notin O
        /\ \A x, y, z \in U : <<x, y>> \in O /\ <<y, z>> \in O => <<x, z>> \in O
    BY DecisionOrder
  <2>2. IsFiniteSet(U)
    BY FS_Subset
  <2>3. PICK m \in U : \A f \in U : <<f, m>> \notin O
    <3> HIDE DEF O
    <3>1. QED
      BY <2>1, <2>2, FiniteSetHasFirst
  <2>4. m \in R \ (R \ U) /\ \A f \in R \ (R \ U) : ~DecidedBefore(f, m, R)
    BY <2>3
  <2>5. \E B : Resolves(B, (R \ U) \cup {m}, R)
    BY <1>3, <2>4, ResolvesOneMore
  <2>6. (R \ U) \cup {m} = R \ (U \ {m})
    BY <2>3
  <2>7. U \ {m} \in Left
    BY <2>5, <2>6
  <2>8. <<U \ {m}, U>> \in StrictSubsetOrdering(R)
    BY <2>3 DEF StrictSubsetOrdering
  <2>9. QED
    BY <1>2, <2>7, <2>8
<1>5. R \ U = R
  BY <1>4
<1>6. QED
  BY <1>3, <1>5

\* The requests that resolve_conflicts accepts, over all groups: a request is
\* among them exactly if it fits on top of those accepted before it.
THEOREM AcceptedResolves ==
  ASSUME NEW R \in SUBSET Event, IsFiniteSet(R), Distinct(R)
  PROVE  Resolves(Accepted(R), R, R)
<1> DEFINE step(f) == [e \in R |-> Fits(e, {g \in R : DecidedBefore(g, e, R) /\ f[g]})]
           accepts == CHOOSE f : f = step(f)
<1>1. Accepted(R) = {e \in R : accepts[e]}
  BY DEF Accepted
<1>2. PICK A : Resolves(A, R, R)
  BY ResolvesAll
<1>3. \E f : f = step(f)
  <2> DEFINE f == [e \in R |-> e \in A]
  <2>1. \A e \in R : {g \in R : DecidedBefore(g, e, R) /\ f[g]}
                       = {g \in A : DecidedBefore(g, e, R)}
    BY <1>2 DEF Resolves
  <2>2. \A e \in R : (e \in A) = Fits(e, {g \in A : DecidedBefore(g, e, R)})
    BY <1>2 DEF Resolves, Fits
  <2>3. f = step(f)
    BY <2>1, <2>2
  <2>4. QED
    BY <2>3
<1>4. accepts = step(accepts)
  BY <1>3
<1>5. \A e \in R : accepts[e] <=> Fits(e, {g \in R : DecidedBefore(g, e, R) /\ accepts[g]})
  BY <1>4
<1>6. \A e \in R : {g \in R : DecidedBefore(g, e, R) /\ accepts[g]}
                     = {g \in Accepted(R) : DecidedBefore(g, e, R)}
  BY <1>1
<1>7. QED
  <2> HIDE DEF accepts
  <2>1. \A e \in R : e \in Accepted(R)
          <=> Fits(e, {g \in Accepted(R) : DecidedBefore(g, e, R)})
    BY <1>1, <1>5, <1>6
  <2>2. QED
    BY <2>1, AcceptedType DEF Resolves

\* The equation has one solution.
LEMMA ResolvesUnique ==
  ASSUME NEW R \in SUBSET Event, IsFiniteSet(R), Distinct(R),
         NEW A, Resolves(A, R, R)
  PROVE  A = Accepted(R)
<1> DEFINE B == Accepted(R)
           D == {e \in R : ~(e \in A <=> e \in B)}
           O == {p \in R \X R : DecidedBefore(p[1], p[2], R)}
<1>1. Resolves(B, R, R)
  BY AcceptedResolves
<1> HIDE DEF B
<1>2. SUFFICES ASSUME D # {} PROVE FALSE
  BY <1>1 DEF Resolves, B
<1>3. PICK e \in D : \A f \in D : <<f, e>> \notin O
  <2>1. /\ \A x \in D : <<x, x>> \notin O
        /\ \A x, y, z \in D : <<x, y>> \in O /\ <<y, z>> \in O => <<x, z>> \in O
    BY DecisionOrder
  <2>2. IsFiniteSet(D)
    BY FS_Subset
  <2> HIDE DEF D, O
  <2>3. QED
    BY <1>2, <2>1, <2>2, FiniteSetHasFirst
<1>4. {f \in A : DecidedBefore(f, e, R)} = {f \in B : DecidedBefore(f, e, R)}
  BY <1>1, <1>3 DEF Resolves
<1>5. QED
  BY <1>1, <1>3, <1>4 DEF Resolves

\* Rule 4 over all groups: what is accepted of a bucket is within its capacity,
\* for every finite set of requests with different ids.
THEOREM AcceptedWithinCapacity ==
  ASSUME NEW R \in SUBSET Event, IsFiniteSet(R), Distinct(R),
         NEW b \in Bucket, \A e \in R : e.bucket = b
  PROVE  Total(Accepted(R)) <= Capacity[b]
<1> DEFINE A == Accepted(R)
           O == {p \in R \X R : DecidedBefore(p[2], p[1], R)}
<1>1. A \in SUBSET R /\ Resolves(A, R, R)
  BY AcceptedResolves, AcceptedType
<1>2. IsFiniteSet(A)
  BY <1>1, FS_Subset
<1> HIDE DEF A
<1>3. CASE A = {}
  BY <1>3, TotalEmpty, CapacityAssumption DEF A
<1>4. CASE A # {}
  <2>1. /\ \A x \in A : <<x, x>> \notin O
        /\ \A x, y, z \in A : <<x, y>> \in O /\ <<y, z>> \in O => <<x, z>> \in O
    BY <1>1, DecisionOrder
  <2>2. PICK e \in A : \A f \in A : <<f, e>> \notin O
    <3> HIDE DEF O
    <3>1. QED
      BY <1>2, <1>4, <2>1, FiniteSetHasFirst
  <2>3. \A f \in A \ {e} : DecidedBefore(f, e, R)
    BY <1>1, <2>2, DecisionOrder
  <2>4. {f \in A : DecidedBefore(f, e, R)} = A \ {e}
    BY <1>1, <2>3, DecisionOrder
  <2>5. Fits(e, A \ {e})
    BY <1>1, <2>2, <2>4 DEF Resolves
  <2>6. Total((A \ {e}) \cup {e}) = Total(A \ {e}) + e.amount
    <3>1. IsFiniteSet(A \ {e}) /\ e \in Event /\ A \ {e} \in SUBSET Event
      BY <1>1, <1>2, FS_Subset
    <3>2. QED
      BY <3>1, TotalAdd
  <2>7. (A \ {e}) \cup {e} = A
    OBVIOUS
  <2>8. e.bucket = b
    BY <1>1
  <2>9. QED
    BY <2>5, <2>6, <2>7, <2>8 DEF Fits, A
<1>5. QED
  BY <1>3, <1>4

\* So is the row, whatever the other two queries of the fold saw.
LEMMA RowWithinCapacity ==
  ASSUME NEW reqs \in SUBSET Event, IsFiniteSet(reqs), Distinct(reqs),
         NEW b \in Bucket, \A e \in reqs : e.bucket = b,
         NEW rels \in SUBSET Event, IsFiniteSet(rels), NEW all
  PROVE  FoldRow(reqs, rels, all).allocated <= Capacity[b]
<1> DEFINE A == Accepted(reqs)
           kept == rels \ Orphans(rels, A)
<1>1. Total(A) <= Capacity[b]
  BY AcceptedWithinCapacity
<1>2. Total(A) \in Nat /\ Total(kept) \in Nat
  <2>1. A \in SUBSET Event /\ IsFiniteSet(A) /\ kept \in SUBSET Event /\ IsFiniteSet(kept)
    BY AcceptedType, FS_Subset
  <2> HIDE DEF A, kept
  <2>2. QED
    BY <2>1, TotalType
<1>3. FoldRow(reqs, rels, all).allocated = NonNegative(Total(A) - Total(kept))
  BY DEF FoldRow
<1>4. Capacity[b] \in Nat
  BY CapacityAssumption
<1> HIDE DEF A, kept
<1>5. QED
  BY <1>1, <1>2, <1>3, <1>4 DEF NonNegative

=============================================================================
