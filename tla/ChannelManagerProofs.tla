------------------------ MODULE ChannelManagerProofs ------------------------
(***************************************************************************)
(* ChannelManager for every MAX_CHANNEL: type correctness, the exactness   *)
(* of _count, and that the ids behave like a pool.                         *)
(***************************************************************************)
EXTENDS ChannelManager, FiniteSetTheorems, WellFoundedInduction, TLAPS

\* The inductive invariant.  CountExact is what makes the reset path of add()
\* safe (count = 0 must mean that no id is in use) and FastPathFree the fast one.
IInv == TypeOK /\ CountExact /\ FastPathFree

\* The lowest element exists: the slow path of add() finds an id if one is free.
LEMMA LowestExists ==
    ASSUME NEW S \in SUBSET Nat, S # {}
    PROVE  Lowest(S) \in S
<1>1. PICK x \in S : \A y \in S : ~ (<<y, x>> \in OpToRel(<, Nat))
  BY NatLessThanWellFounded, WFMin
<1>2. ASSUME NEW y \in S
      PROVE  x <= y
  <2>1. <<y, x>> \notin OpToRel(<, Nat)
    BY <1>1
  <2>2. x \in Nat /\ y \in Nat
    OBVIOUS
  <2>3. ~(y < x)
    BY <2>1, <2>2, Zenon DEF OpToRel
  <2>4. QED
    BY <2>2, <2>3
<1>3. QED
  BY <1>1, <1>2 DEF Lowest

\* The set of ids in use is finite.
LEMMA LiveFinite ==
    ASSUME TypeOK
    PROVE  IsFiniteSet(Live(table))
<1>1. IsFiniteSet(0..MaxChannel)
  BY FS_Interval, MaxChannelAssumption
<1>2. QED
  BY <1>1, FS_Subset DEF TypeOK, Ids

\* An id that add() returns is a 32-bit number that was not in use: on the
\* fast path because of FastPathFree, on the reset path because of CountExact.
LEMMA NextIdFresh ==
    ASSUME IInv, NextId(table) # -1
    PROVE  NextId(table) \in Ids \ Live(table)
<1>. USE MaxChannelAssumption DEF IInv, TypeOK, Ids
<1>1. CASE table.cur < MaxChannel
  BY <1>1 DEF NextId, FastPathFree
<1>2. CASE ~(table.cur < MaxChannel) /\ table.count = 0
  <2>1. Live(table) = {}
    BY <1>2, LiveFinite, FS_EmptySet DEF CountExact
  <2>2. QED
    BY <1>2, <2>1 DEF NextId
<1>3. CASE ~(table.cur < MaxChannel) /\ table.count # 0
  <2>1. FreeIds(table) \in SUBSET Nat /\ FreeIds(table) # {}
    BY <1>3 DEF NextId, FreeIds
  <2>2. Lowest(FreeIds(table)) \in FreeIds(table)
    BY <2>1, LowestExists
  <2>3. QED
    BY <1>3, <2>1, <2>2 DEF NextId, FreeIds
<1>4. QED
  BY <1>1, <1>2, <1>3

\* add() keeps the invariant.
LEMMA AddStep ==
    ASSUME IInv, NEW val \in Values, Add(val)
    PROVE  IInv'
<1>. DEFINE id == NextId(table)
<1>1. CASE id = -1
  BY <1>1 DEF Add, IInv, TypeOK, CountExact, FastPathFree, Live
<1>2. CASE id # -1
  <2>1. id \in Ids \ Live(table)
    BY <1>2, NextIdFresh
  <2>2. table' = Added(table, val)
    BY <1>2 DEF Add
  <2>3. Live(table') = Live(table) \cup {id}
    BY <2>2 DEF Added, Live
  <2>4. TypeOK'
    <3>1. table'.channels \in [Live(table') -> Values]
      BY <2>2, <2>3 DEF Added, Live, IInv, TypeOK
    <3>2. table'.cur \in -1..MaxChannel
      BY <2>2, MaxChannelAssumption DEF Added, NextCur, IInv, TypeOK
    <3>3. table'.count \in Nat
      BY <2>2 DEF Added, IInv, TypeOK
    <3>4. QED
      BY <2>1, <2>2, <2>3, <3>1, <3>2, <3>3 DEF Added, IInv, TypeOK
  <2>5. CountExact'
    <3>1. Cardinality(Live(table) \cup {id}) = Cardinality(Live(table)) + 1
      BY <2>1, LiveFinite, FS_AddElement DEF IInv
    <3>2. QED
      BY <2>2, <2>3, <3>1 DEF CountExact, IInv, Added
  <2>6. FastPathFree'
    <3>1. CASE table.cur < MaxChannel
      BY <3>1, <2>1, <2>2, <2>3, MaxChannelAssumption
         DEF FastPathFree, IInv, TypeOK, Ids, NextId, NextCur, Added
    <3>2. CASE ~(table.cur < MaxChannel) /\ table.count = 0
      <4>1. Live(table) = {}
        BY <3>2, LiveFinite, FS_EmptySet DEF CountExact, IInv
      <4>2. QED
        BY <3>2, <4>1, <2>2, <2>3 DEF FastPathFree, NextId, NextCur, Added
    <3>3. CASE ~(table.cur < MaxChannel) /\ table.count # 0
      BY <3>3, <2>2 DEF FastPathFree, NextCur, Added
    <3>4. QED
      BY <3>1, <3>2, <3>3
  <2>7. QED
    BY <2>4, <2>5, <2>6 DEF IInv
<1>3. QED
  BY <1>1, <1>2

\* remove() keeps the invariant.
LEMMA RemoveStep ==
    ASSUME IInv, NEW id \in Ids, Remove(id)
    PROVE  IInv'
<1>1. CASE ~ValidId(id) \/ id \notin Live(table)
  BY <1>1 DEF Remove, Removed, IInv, TypeOK, CountExact, FastPathFree, Live
<1>2. CASE ValidId(id) /\ id \in Live(table)
  <2>1. table' = Removed(table, id)
    BY <1>2 DEF Remove
  <2>2. Live(table') = Live(table) \ {id}
    BY <1>2, <2>1 DEF Removed, Live, Restrict, IInv, TypeOK
  <2>3. /\ Cardinality(Live(table) \ {id}) = Cardinality(Live(table)) - 1
        /\ Cardinality(Live(table)) \in Nat
        /\ Cardinality(Live(table)) # 0
    BY <1>2, LiveFinite, FS_RemoveElement, FS_CardinalityType, FS_EmptySet DEF IInv
  <2>4. table' = [channels |-> table'.channels, cur |-> table.cur, count |-> table.count - 1]
    BY <1>2, <2>1, <2>3 DEF Removed, IInv, TypeOK, CountExact
  <2>5. table'.channels \in [Live(table') -> Values]
    BY <1>2, <2>1, <2>2 DEF Removed, Restrict, IInv, TypeOK, Live
  <2>6. TypeOK'
    BY <2>2, <2>3, <2>4, <2>5 DEF IInv, TypeOK, CountExact
  <2>7. CountExact'
    BY <2>2, <2>3, <2>4 DEF IInv, CountExact
  <2>8. FastPathFree'
    BY <2>2, <2>4 DEF IInv, FastPathFree
  <2>9. QED
    BY <2>6, <2>7, <2>8 DEF IInv
<1>3. QED
  BY <1>1, <1>2

\* update() replaces an entry and no more.
LEMMA UpdateStep ==
    ASSUME IInv, NEW id \in Ids, NEW val \in Values, Update(id, val)
    PROVE  IInv' /\ Live(table') = Live(table)
<1>1. CASE ~ValidId(id) \/ id \notin Live(table)
  BY <1>1 DEF Update, Updated, IInv, TypeOK, CountExact, FastPathFree, Live
<1>2. CASE ValidId(id) /\ id \in Live(table)
  <2>1. table' = [channels |-> [table.channels EXCEPT ![id] = val],
                  cur |-> table.cur, count |-> table.count]
    BY <1>2 DEF Update, Updated, IInv, TypeOK
  <2>2. Live(table') = Live(table)
    BY <2>1 DEF Live, IInv, TypeOK
  <2>3. table'.channels \in [Live(table') -> Values]
    BY <2>1, <2>2, <1>2 DEF IInv, TypeOK
  <2>4. QED
    BY <2>1, <2>2, <2>3 DEF IInv, TypeOK, CountExact, FastPathFree
<1>3. QED
  BY <1>1, <1>2

\* The empty table satisfies the invariant: initially and after cleanup().
LEMMA EmptyTableOK ==
    ASSUME table = EmptyTable
    PROVE  IInv
<1>1. Live(table) = {}
  BY DEF EmptyTable, Live
<1>2. Cardinality({}) = 0
  BY FS_EmptySet
<1>3. QED
  BY <1>1, <1>2, MaxChannelAssumption DEF EmptyTable, IInv, TypeOK, CountExact, FastPathFree, Live

LEMMA CleanupStep ==
    ASSUME IInv, Cleanup
    PROVE  IInv'
<1>1. Live(table') = {}
  BY DEF Cleanup, EmptyTable, Live
<1>2. Cardinality({}) = 0
  BY FS_EmptySet
<1>3. QED
  BY <1>1, <1>2, MaxChannelAssumption
     DEF Cleanup, EmptyTable, IInv, TypeOK, CountExact, FastPathFree, Live

\* Every step keeps the invariant.
LEMMA Inductive == IInv /\ [Next]_vars => IInv'
<1>. SUFFICES ASSUME IInv, [Next]_vars
              PROVE  IInv'
  OBVIOUS
<1>1. ASSUME NEW val \in Values, Add(val)
      PROVE  IInv'
  BY <1>1, AddStep
<1>2. ASSUME NEW id \in Ids, NEW val \in Values, Update(id, val)
      PROVE  IInv'
  BY <1>2, UpdateStep
<1>3. ASSUME NEW id \in Ids, Get(id)
      PROVE  IInv'
  BY <1>3 DEF Get, IInv, TypeOK, CountExact, FastPathFree, Live
<1>4. ASSUME NEW id \in Ids, Remove(id)
      PROVE  IInv'
  BY <1>4, RemoveStep
<1>5. CASE Cleanup
  BY <1>5, CleanupStep
<1>6. CASE UNCHANGED vars
  BY <1>6 DEF vars, IInv, TypeOK, CountExact, FastPathFree, Live
<1>7. QED
  BY <1>1, <1>2, <1>3, <1>4, <1>5, <1>6 DEF Next

LEMMA Invariance == Spec => []IInv
<1>1. Init => IInv
  BY EmptyTableOK DEF Init
<1>2. QED
  BY <1>1, Inductive, PTL DEF Spec

\* Type correctness of the table: ids, _cur and _count keep their ranges.
THEOREM TypeCorrect == Spec => []TypeOK
<1>1. IInv => TypeOK
  BY DEF IInv
<1>2. QED
  BY <1>1, Invariance, PTL

\* _count is exact whatever ids are removed and however often.
THEOREM CountIsExact == Spec => []CountExact
<1>1. IInv => CountExact
  BY DEF IInv
<1>2. QED
  BY <1>1, Invariance, PTL

\* The fast path of add() never meets an id in use.
THEOREM FastPathIsFree == Spec => []FastPathFree
<1>1. IInv => FastPathFree
  BY DEF IInv
<1>. QED
  BY <1>1, Invariance, PTL

\* add() gives up on the slow path alone, and there it has looked at every id
\* below MAX_CHANNEL.
LEMMA GivesUpWhenFull ==
    ASSUME IInv, NextId(table) = -1
    PROVE  0..(MaxChannel - 1) \subseteq Live(table)
<1>. USE MaxChannelAssumption DEF IInv, TypeOK
<1>1. ~(table.cur < MaxChannel) /\ table.count # 0
  BY DEF NextId
<1>2. FreeIds(table) = {}
  <2>1. SUFFICES ASSUME FreeIds(table) # {}
                 PROVE  FALSE
    OBVIOUS
  <2>2. FreeIds(table) \in SUBSET Nat
    BY DEF FreeIds
  <2>3. Lowest(FreeIds(table)) \in Nat
    BY <2>1, <2>2, LowestExists
  <2>4. QED
    BY <1>1, <2>1, <2>3 DEF NextId
<1>3. QED
  BY <1>2 DEF FreeIds

\* "No free channels available" is the truth: add() returns -1 only when each
\* of the ids 0 .. MAX_CHANNEL - 1 is in use.
THEOREM GivesUpOnlyWhenFull == Spec => []FailsOnlyWhenFull
<1>1. Init => FailsOnlyWhenFull
  BY DEF Init, FailsOnlyWhenFull, Idle, Did
<1>2. IInv /\ FailsOnlyWhenFull /\ [Next]_vars => FailsOnlyWhenFull'
  <2>. SUFFICES ASSUME IInv, FailsOnlyWhenFull, [Next]_vars, ret' = Did("add", -1)
                PROVE  0..(MaxChannel - 1) \subseteq Live(table')
    BY DEF FailsOnlyWhenFull
  <2>1. ASSUME NEW val \in Values, Add(val)
        PROVE  0..(MaxChannel - 1) \subseteq Live(table')
    BY <2>1, GivesUpWhenFull DEF Add, Did
  <2>2. CASE UNCHANGED vars
    BY <2>2 DEF vars, FailsOnlyWhenFull, Live
  <2>3. CASE ~(\E val \in Values : Add(val)) /\ Next
    BY <2>3 DEF Next, Update, Get, Remove, Cleanup, Did, Threw
  <2>4. QED
    BY <2>1, <2>2, <2>3
<1>3. QED
  BY <1>1, <1>2, Invariance, PTL DEF Spec

\* add() never hands out an id in use: ChannelManager implements the pool.
THEOREM ImplementsPool == Spec => PoolSpec
<1>1. Init => Ids_are_pooled!Init
  BY DEF Init, Ids_are_pooled!Init, EmptyTable, Live, HandedOut, Idle, Did
<1>2. ASSUME IInv, [Next]_vars
      PROVE  [Ids_are_pooled!Next]_<<Live(table), HandedOut>>
  <2>. USE <1>2
  <2>. USE DEF Ids_are_pooled!Next, Ids_are_pooled!Reserve, Ids_are_pooled!Release,
               Ids_are_pooled!ReleaseAll, Ids_are_pooled!Other
  <2>1. ASSUME NEW val \in Values, Add(val)
        PROVE  Ids_are_pooled!Next
    <3>1. HandedOut' = NextId(table)
      BY <2>1 DEF Add, HandedOut, Did
    <3>2. CASE NextId(table) = -1
      BY <2>1, <3>1, <3>2 DEF Add, Live
    <3>3. CASE NextId(table) # -1
      <4>1. Live(table)' = Live(table) \cup {NextId(table)}
        BY <2>1, <3>3 DEF Add, Added, Live
      <4>2. QED
        BY <4>1, <3>1, <3>3, NextIdFresh
    <3>4. QED
      BY <3>2, <3>3
  <2>2. ASSUME NEW id \in Ids, NEW val \in Values, Update(id, val)
        PROVE  Ids_are_pooled!Next
    <3>1. HandedOut' = -1
      BY <2>2 DEF Update, HandedOut, Did, Threw
    <3>2. QED
      BY <2>2, <3>1, UpdateStep
  <2>3. ASSUME NEW id \in Ids, Get(id)
        PROVE  Ids_are_pooled!Next
    <3>1. HandedOut' = -1
      BY <2>3 DEF Get, HandedOut, Did, Threw
    <3>2. QED
      BY <2>3, <3>1 DEF Get, Live
  <2>4. ASSUME NEW id \in Ids, Remove(id)
        PROVE  Ids_are_pooled!Next
    <3>1. HandedOut' = -1
      BY <2>4 DEF Remove, HandedOut, Did, Threw
    <3>2. CASE ValidId(id) /\ id \in Live(table)
      <4>1. Live(table)' = Live(table) \ {id}
        BY <2>4, <3>2 DEF Remove, Removed, Live, Restrict, IInv, TypeOK
      <4>2. QED
        BY <4>1, <3>1, <3>2
    <3>3. CASE ~(ValidId(id) /\ id \in Live(table))
      BY <2>4, <3>1, <3>3 DEF Remove, Removed, Live
    <3>4. QED
      BY <3>2, <3>3
  <2>5. CASE Cleanup
    <3>1. HandedOut' = -1
      BY <2>5 DEF Cleanup, HandedOut, Did
    <3>2. QED
      BY <2>5, <3>1 DEF Cleanup, EmptyTable, Live
  <2>6. CASE UNCHANGED vars
    BY <2>6 DEF vars, Live, HandedOut
  <2>7. QED
    BY <2>1, <2>2, <2>3, <2>4, <2>5, <2>6 DEF Next
<1>3. QED
  BY <1>1, <1>2, Invariance, PTL DEF Spec, PoolSpec, Ids_are_pooled!Spec
=============================================================================
