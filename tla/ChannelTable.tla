---------------------------- MODULE ChannelTable ----------------------------
(***************************************************************************)
(* The data structure of class ChannelManager (lib/utils.js): the table of *)
(* a connection's channels and the three paths by which add() picks an id. *)
(* A table is a record [channels, cur, count] for this._channels (a        *)
(* function whose domain is the set of ids in use), this._cur and          *)
(* this._count.                                                            *)
(***************************************************************************)
EXTENDS Integers, FiniteSets, Functions

CONSTANT MaxChannel        \* MAX_CHANNEL: 2^32 - 1, the largest 32-bit id

ASSUME MaxChannelAssumption == MaxChannel \in Nat \ {0}

\* Every id a message can carry: 0 .. 2^32 - 1.
Ids == 0..MaxChannel

EmptyTable == [channels |-> <<>>, cur |-> -1, count |-> 0]

\* The test at the head of update(), get() and remove(), which throw
\* `Invalid channel id` when it fails.
ValidId(id) == 0 <= id /\ id < MaxChannel

Live(t) == DOMAIN t.channels

\* The ids the slow path of add() looks at, in ascending order.
FreeIds(t) == {i \in 0..(MaxChannel - 1) : i \notin Live(t)}

Lowest(S) == CHOOSE i \in S : \A j \in S : i <= j

\* --- add(): the id it returns, -1 when there is none -----------------------
\* Mutated forms of NextId, NextCur and Removed, for the sensitivity of the checks.
NextIdReuse(t) ==
    IF t.cur < MaxChannel THEN t.count
    ELSE IF t.count = 0 THEN 0
    ELSE IF FreeIds(t) = {} THEN -1 ELSE Lowest(FreeIds(t))

NextIdGivesUp(t) ==
    IF t.cur < MaxChannel THEN t.cur + 1
    ELSE IF t.count = 0 THEN 0
    ELSE LET free == {i \in FreeIds(t) : i > 0}
         IN  IF free = {} THEN -1 ELSE Lowest(free)

NextId(t) ==
    IF t.cur < MaxChannel THEN t.cur + 1
    ELSE IF t.count = 0 THEN 0
    ELSE IF FreeIds(t) = {} THEN -1 ELSE Lowest(FreeIds(t))

NextCur(t) ==
    IF t.cur < MaxChannel THEN t.cur + 1
    ELSE IF t.count = 0 THEN 0 ELSE t.cur

\* The table after add(val) returned an id.
Added(t, val) ==
    LET id == NextId(t)
    IN  [channels |-> [i \in Live(t) \cup {id} |-> IF i = id THEN val ELSE t.channels[i]],
         cur      |-> NextCur(t),
         count    |-> t.count + 1]

\* --- update(id, val): nothing happens to an id that is not in use -----------
Updated(t, id, val) ==
    IF id \in Live(t)
    THEN [t EXCEPT !.channels = [t.channels EXCEPT ![id] = val]]
    ELSE t

\* --- remove(id) --------------------------------------------------------------
Removed(t, id) ==
    IF id \in Live(t)
    THEN [channels |-> Restrict(t.channels, Live(t) \ {id}),
          cur      |-> t.cur,
          count    |-> IF t.count # 0 THEN t.count - 1 ELSE 0]
    ELSE t
=============================================================================
