--------------------------- MODULE ChannelManager ---------------------------
(***************************************************************************)
(* Class ChannelManager (lib/utils.js) as the connection drives it: ids    *)
(* reserved for outgoing and incoming channel opens, the entry replaced    *)
(* when the open is confirmed, looked up and removed for ids that come off *)
(* the wire (any 32-bit number), the whole table dropped by cleanup() when *)
(* the socket closes.                                                      *)
(***************************************************************************)
EXTENDS ChannelTable

CONSTANT Values            \* what the connection stores under an id

VARIABLES table,           \* this._channels, this._cur, this._count
          ret              \* how the last call ended

vars == <<table, ret>>

Did(call, id)   == [call |-> call, id |-> id, throws |-> FALSE]
Threw(call, id) == [call |-> call, id |-> id, throws |-> TRUE]
Idle            == Did("none", -1)

Init == table = EmptyTable /\ ret = Idle

Add(val) ==
    /\ ret' = Did("add", NextId(table))
    /\ table' = IF NextId(table) = -1 THEN table ELSE Added(table, val)

Update(id, val) ==
    IF ValidId(id)
    THEN ret' = Did("update", id) /\ table' = Updated(table, id, val)
    ELSE ret' = Threw("update", id) /\ UNCHANGED table

Get(id) ==
    /\ ret' = IF ValidId(id) THEN Did("get", id) ELSE Threw("get", id)
    /\ UNCHANGED table

Remove(id) ==
    IF ValidId(id)
    THEN ret' = Did("remove", id) /\ table' = Removed(table, id)
    ELSE ret' = Threw("remove", id) /\ UNCHANGED table

\* cleanup(): the table is emptied before the channels of the old one are
\* told; the remove() each of them then makes finds nothing.
Cleanup == table' = EmptyTable /\ ret' = Did("cleanup", -1)

Next ==
    \/ \E val \in Values : Add(val)
    \/ \E id \in Ids, val \in Values : Update(id, val)
    \/ \E id \in Ids : Get(id)
    \/ \E id \in Ids : Remove(id)
    \/ Cleanup

Spec == Init /\ [][Next]_vars

-----------------------------------------------------------------------------
\* The fields keep their ranges: the ids in use are 32-bit numbers, _cur
\* never passes MAX_CHANNEL, _count never goes below zero.
TypeOK ==
    /\ table = [channels |-> table.channels, cur |-> table.cur, count |-> table.count]
    /\ Live(table) \subseteq Ids
    /\ table.channels \in [Live(table) -> Values]
    /\ table.cur \in -1..MaxChannel
    /\ table.count \in Nat

\* _count is the number of channels in use, through every mix of removals of
\* unknown ids and cleanups; the reset to the fast path depends on it.
CountExact == table.count = Cardinality(Live(table))

\* While the fast path of add() is taken every id in use is at most _cur, so
\* that ++_cur is free; together with CountExact this is inductive.
FastPathFree == table.cur < MaxChannel => \A id \in Live(table) : id <= table.cur

\* add() hands out ids like a pool: never one that is in use.
HandedOut == IF ret.call = "add" THEN ret.id ELSE -1

Ids_are_pooled == INSTANCE IdPool WITH Pool <- Ids, used <- Live(table), got <- HandedOut
PoolSpec == Ids_are_pooled!Spec

\* add() returns -1 ("No free channels available" in openChannel, a resource
\* shortage to the peer) only when each of the ids 0 .. MAX_CHANNEL - 1 is in use.
FailsOnlyWhenFull ==
    ret = Did("add", -1) => 0..(MaxChannel - 1) \subseteq Live(table)
=============================================================================
