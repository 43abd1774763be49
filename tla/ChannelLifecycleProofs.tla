----------------------- MODULE ChannelLifecycleProofs -----------------------
(***************************************************************************)
(* Proofs about ChannelLifecycle, for any MAX_CHANNEL and any number of    *)
(* opens within it.                                                        *)
(*                                                                         *)
(* Of an id that a side opened the other side holds at most one of three   *)
(* things: the CHANNEL_OPEN on its way, the question to the application,   *)
(* or its own end of the channel.  Only the holder sends to the id, and    *)
(* nothing after an OPEN_FAILURE or a CLOSE.  Of a session at most one     *)
(* request is under way: as a message, a question or an answer.            *)
(*                                                                         *)
(* The invariant is written for any tables T, ends C, offers O, questions  *)
(* A, wires W and sockets U, so that a handler can be taken apart: a       *)
(* message is dropped, an end changes, an id is freed, messages are sent.  *)
(***************************************************************************)
EXTENDS ChannelLifecycle, FiniteSetTheorems, SequenceTheorems, TLAPS

-----------------------------------------------------------------------------
(* The values.                                                             *)

\* What a side opens itself.
Own(x) == IF x = "client" THEN "session" ELSE "forward"

Kinds == {"none", "session", "forward"}
Ends == [kind : Kinds, peer : Ids \cup {-1}, in : States, out : States, chan : BOOLEAN,
         ending : BOOLEAN, pty : BOOLEAN, waiting : Requests \cup {"none"}, closes : Nat]
Entries == {"opener", "reserved", "session", "channel"}
Types == {"open", "openfail", "confirm", "request", "success", "failure", "eof", "close"}
Messages == [type : Types, to : Ids \cup {-1}, arg : Ids \cup {-1} \cup Requests]

\* What a table holds for an id.
At(t, i) == IF i \in Live(t) THEN t.channels[i] ELSE "none"

TableFine(t) ==
    /\ t = [channels |-> t.channels, cur |-> t.cur, count |-> t.count]
    /\ t.cur \in -1..MaxChannel /\ t.count = Cardinality(Live(t))
    /\ Live(t) \subseteq 0..t.cur /\ t.channels \in [Live(t) -> Entries]

Typed(T, C, O, A, W, U) ==
    /\ DOMAIN T = Sides /\ \A x \in Sides : TableFine(T[x])
    /\ C \in [Sides -> [Ids -> Ends]]
    /\ O \in [Sides -> SUBSET [id : Ids, peer : Ids]]
    /\ A \subseteq [id : Ids, what : Requests]
    /\ W \in [Sides -> Seq(Messages)]
    /\ U \in [Sides -> BOOLEAN]

-----------------------------------------------------------------------------
(* The wires.                                                              *)

Last(m) == m.type \in {"openfail", "close"}
First(m) == m.type \in {"openfail", "confirm"}
Token(m) == m.type \in {"request", "success", "failure"}

\* An earlier and a later message to one side.
Follows(m, n) ==
    /\ m.type = "open" /\ n.type = "open" => m.arg # n.arg
    /\ m.type # "open" /\ n.type # "open" /\ m.to = n.to
          => ~Last(m) /\ ~First(n) /\ ~(Token(m) /\ Token(n))

Ordered(q) == \A k, l \in 1..Len(q) : k < l => Follows(q[k], q[l])

Answering(m) == m.type \in {"success", "failure"}

\* Requests go to the server, their answers to the client.
Directed(x, m) == (m.type = "request" => x = "server") /\ (Answering(m) => x = "client")

WireFine(W, U) ==
    \A x \in Sides :
        Ordered(W[x]) /\ (~U[x] => W[x] = <<>>) /\ \A m \in Range(W[x]) : Directed(x, m)

-----------------------------------------------------------------------------
(* The ids.                                                                *)

\* The ids that CHANNEL_OPENs on a wire come with, and the ids a side opened.
Opening(q) == {m.arg : m \in {n \in Range(q) : n.type = "open"}}
Mine(C, x) == {i \in Ids : C[x][i].kind = Own(x)}
Opened(C) == Cardinality(Mine(C, "client")) + Cardinality(Mine(C, "server"))

\* Every id in use was opened by a side, and ids do not run out.
IdsFine(T, C, W, U) ==
    /\ Opened(C) <= MaxOpens
    /\ \A x \in Sides : U[x] =>
          /\ T[x].cur + 1 + Cardinality(Opening(W[x])) <= Opened(C)
          /\ \A i \in Ids : i > T[x].cur => C[x][i] = Blank

-----------------------------------------------------------------------------
(* The ends.                                                               *)

\* x has opened i and knows nothing of it yet.
Unanswered(T, C, U, x, i) ==
    /\ i \in Ids /\ C[x][i].peer = -1 /\ C[x][i].kind = Own(x)
    /\ U[x] => At(T[x], i) = "opener"

\* Nothing came or is on its way from the other side for i.
Unknown(C, W, x, i) ==
    /\ \A m \in Range(W[x]) : m.type # "open" => m.to # i
    /\ \A j \in Ids : C[Other(x)][j].peer # i

OpensFine(T, C, O, W, U) ==
    \A x \in Sides : \A m \in Range(W[Other(x)]) : m.type = "open" =>
        /\ Unanswered(T, C, U, x, m.arg) /\ Unknown(C, W, x, m.arg)
        /\ \A o \in O[Other(x)] : o.peer # m.arg

OffersFine(T, C, O, W, U) ==
    \A x \in Sides : \A o \in O[Other(x)] :
        /\ Unanswered(T, C, U, x, o.peer) /\ Unknown(C, W, x, o.peer)
        /\ \A p \in O[Other(x)] : p # o => p.peer # o.peer /\ p.id # o.id
        /\ C[Other(x)][o.id] = Blank /\ (U[Other(x)] => At(T[Other(x)], o.id) = "reserved")
        /\ \A i \in Ids : C[x][i].peer # o.id

\* The end j of y without a peer, and with the peer i at x.
Loose(e) == e.out = "none" /\ ~e.chan /\ e.waiting = "none"

Tied(T, C, W, U, x, y, j, i) ==
    /\ \A k \in Ids : C[y][k].peer = i => k = j
    /\ U[x] => i <= T[x].cur
    /\ C[x][i].kind = C[y][j].kind
    /\ C[x][i].peer \in {j, -1}
    /\ C[y][j].out \in Unclosed =>
          /\ U[x] => At(T[x], i) # "none"
          /\ \A m \in Range(W[x]) : m.type # "open" /\ m.to = i => ~Last(m)

EndsFine(T, C, W, U) ==
    \A y \in Sides, j \in Ids :
        /\ C[y][j].peer = -1 => Loose(C[y][j])
        /\ C[y][j].peer # -1 => Tied(T, C, W, U, Other(y), y, j, C[y][j].peer)

\* A message on the way to x is for an id in use, and comes from its end.
MessageFine(T, C, U, x, m) ==
    /\ m.to \in Ids /\ At(T[x], m.to) # "none"
    /\ m.type # "openfail" => \E j \in Ids : C[Other(x)][j].peer = m.to
    /\ m.type = "openfail" => /\ Unanswered(T, C, U, x, m.to)
                              /\ \A j \in Ids : C[Other(x)][j].peer # m.to
    /\ m.type = "close" =>
          \A j \in Ids : C[Other(x)][j].peer = m.to => C[Other(x)][j].out \notin Unclosed
    /\ m.type = "confirm" =>
          /\ m.arg \in Ids /\ C[Other(x)][m.arg].peer = m.to /\ Unanswered(T, C, U, x, m.to)
          /\ U[Other(x)] => At(T[Other(x)], m.arg) # "none"

MessagesFine(T, C, W, U) ==
    \A x \in Sides : \A m \in Range(W[x]) : m.type # "open" => MessageFine(T, C, U, x, m)

-----------------------------------------------------------------------------
(* The requests.                                                           *)

\* The session that i and j are the ends of.
Session(C, i, j) ==
    /\ i \in Ids /\ j \in Ids /\ C["client"][i].peer = j /\ C["server"][j].peer = i
    /\ C["server"][j].kind = "session"

NoAnswer(W, i) == \A n \in Range(W["client"]) : Answering(n) => n.to # i

RequestsFine(C, A, W) ==
    /\ \A m \in Range(W["server"]) : m.type = "request" =>
          LET i == C["server"][m.to].peer IN
          /\ Session(C, i, m.to) /\ m.arg \in Requests
          /\ C["client"][i].waiting \in {"none", m.arg}
          /\ \A a \in A : a.id # m.to
          /\ NoAnswer(W, i)
    /\ \A a \in A :
          LET i == C["server"][a.id].peer IN
          /\ Session(C, i, a.id) /\ C["client"][i].waiting \in {"none", a.what}
          /\ \A b \in A : b.id = a.id => b = a
          /\ NoAnswer(W, i)
    /\ \A n \in Range(W["client"]) : Answering(n) =>
          LET j == C["client"][n.to].peer IN
          /\ Session(C, n.to, j)
          /\ n.type = "success" /\ C["client"][n.to].waiting = "exec" => C["server"][j].chan

SessionsFine(C) ==
    /\ \A j \in Ids : /\ C["server"][j].waiting = "none"
                      /\ C["server"][j].kind = "session" /\ ~C["server"][j].chan
                            => C["server"][j].out = "open"
    /\ \A i \in Ids : C["client"][i].waiting # "none" => C["client"][i].kind = "session"

Fine(T, C, O, A, W, U) ==
    /\ Typed(T, C, O, A, W, U) /\ WireFine(W, U) /\ IdsFine(T, C, W, U)
    /\ OpensFine(T, C, O, W, U) /\ OffersFine(T, C, O, W, U)
    /\ EndsFine(T, C, W, U) /\ MessagesFine(T, C, W, U)
    /\ RequestsFine(C, A, W) /\ SessionsFine(C)

-----------------------------------------------------------------------------
(* The callbacks.                                                          *)

\* An exec() that succeeded.
ExecFine(C, R) ==
    \A i \in Ids : R["client"][i] = <<"ok">> =>
        /\ C["client"][i].peer \in Ids
        /\ C["server"][C["client"][i].peer].chan
        /\ C["server"][C["client"][i].peer].kind = "session"

\* The callback of an id: not called twice, nor before the outcome is known.
CallbackFine(e, c, r, u, fresh) ==
    /\ r \in Seq({"ok", "err"}) /\ Len(r) <= 1 /\ c.closes <= 1
    /\ u => /\ e \in {"opener", "reserved"} \/ fresh \/ c.waiting # "none" => r = <<>>
            /\ c.closes = 1 => c.out = "closed" /\ e = "none"
            /\ e = "opener" => c.waiting = "none"
            /\ e \in {"session", "channel"} => c.peer # -1

CallbacksFine(T, C, R, U) ==
    /\ R \in [Sides -> [Ids -> Seq({"ok", "err"})]]
    /\ \A x \in Sides, i \in Ids : CallbackFine(At(T[x], i), C[x][i], R[x][i], U[x], i > T[x].cur)

IInv ==
    /\ Fine(tab, ch, offers, asks, wire, up)
    /\ CallbacksFine(tab, ch, answers, up) /\ ExecFine(ch, answers)

-----------------------------------------------------------------------------
(* What a step makes of the tables, the ends, the offers and the callbacks. *)

WithNew(T, x, v) == [T EXCEPT ![x] = Added(@, v)]
WithEntry(T, x, i, v) == [T EXCEPT ![x] = Updated(@, i, v)]
Without(T, x, i) == [T EXCEPT ![x] = Removed(@, i)]
WithEnd(C, x, i, d) == [C EXCEPT ![x][i] = d]
WithOffer(O, x, o) == [O EXCEPT ![x] = @ \cup {o}]
Called(R, x, i, r) == [R EXCEPT ![x][i] = Append(@, r)]

-----------------------------------------------------------------------------
(* Sides, tables and wires.                                                *)

\* There are two sides, and they open channels of different kinds.
LEMMA TwoSides ==
    ASSUME NEW x \in Sides
    PROVE  /\ Other(x) \in Sides /\ Other(x) # x /\ Other(Other(x)) = x
           /\ \A z \in Sides : z = x \/ z = Other(x)
           /\ Own(x) \in {"session", "forward"} /\ Own(Other(x)) # Own(x)
BY DEF Sides, Other, Own

\* The ids of a table are finitely many and below its cursor.
LEMMA TableFacts ==
    ASSUME NEW t, TableFine(t)
    PROVE  /\ t.cur \in Int /\ -1 <= t.cur /\ t.cur <= MaxChannel
           /\ \A i : /\ At(t, i) # "none" <=> i \in Live(t)
                     /\ At(t, i) # "none" => At(t, i) \in Entries /\ i \in Ids /\ i <= t.cur
           /\ Live(t) \subseteq Ids
           /\ IsFiniteSet(Live(t)) /\ t.count = Cardinality(Live(t))
<1>1. MaxChannel \in Nat
  BY MaxChannelAssumption
<1>2. t.cur \in -1..MaxChannel /\ Live(t) \subseteq 0..t.cur /\ t.count = Cardinality(Live(t))
  BY DEF TableFine
<1>3. t.cur \in Int /\ -1 <= t.cur /\ t.cur <= MaxChannel /\ Live(t) \subseteq Ids
  BY <1>1, <1>2 DEF Ids
<1>4. IsFiniteSet(Live(t))
  <2>1. IsFiniteSet(0..t.cur)
    BY <1>3, FS_Interval
  <2>. QED
    BY <2>1, <1>2, FS_Subset
<1>5. \A i \in Live(t) : t.channels[i] \in Entries /\ t.channels[i] # "none" /\ i <= t.cur
  <2>1. \A i \in Live(t) : t.channels[i] \in Entries
    BY DEF TableFine
  <2>2. QED
    BY <2>1, <1>2, <1>3 DEF Entries
<1>6. \A i : /\ At(t, i) # "none" <=> i \in Live(t)
             /\ At(t, i) # "none" => At(t, i) \in Entries /\ i \in Ids /\ i <= t.cur
  BY <1>5, <1>3 DEF At
<1>. QED
  BY <1>2, <1>3, <1>4, <1>6

\* The size of a set with one more element.
LEMMA OneMore ==
    ASSUME NEW S, NEW e, IsFiniteSet(S)
    PROVE  /\ Cardinality(S) \in Nat /\ Cardinality(S \cup {e}) \in Nat
           /\ Cardinality(S \cup {e}) <= Cardinality(S) + 1
           /\ e \notin S => Cardinality(S \cup {e}) = Cardinality(S) + 1
<1>1. Cardinality(S) \in Nat
  BY FS_CardinalityType
<1>2. CASE e \in S
  <2>1. S \cup {e} = S
    BY <1>2
  <2>. QED
    BY <2>1, <1>1, <1>2
<1>3. CASE e \notin S
  <2>1. Cardinality(S \cup {e}) = Cardinality(S) + 1
    BY <1>3, FS_AddElement
  <2>. QED
    BY <2>1, <1>1
<1>. QED
  BY <1>2, <1>3

\* EmptyTable: nothing is in it.
LEMMA EmptyTableFine == TableFine(EmptyTable) /\ \A i : At(EmptyTable, i) = "none"
<1>. DEFINE t == EmptyTable
<1>1. /\ Live(t) = {} /\ t.count = 0 /\ t.cur = -1 /\ t.channels \in [{} -> Entries]
      /\ t = [channels |-> t.channels, cur |-> t.cur, count |-> t.count]
  BY DEF EmptyTable, Live
<1>2. Cardinality({}) = 0 /\ -1 \in -1..MaxChannel
  BY FS_EmptySet, MaxChannelAssumption
<1>. HIDE DEF t
<1>3. TableFine(t) /\ \A i : At(t, i) = "none"
  BY <1>1, <1>2 DEF TableFine, At
<1>. QED
  BY <1>3 DEF t

\* add(), while ids are left: the id is the next one, and new.
LEMMA AddedFacts ==
    ASSUME NEW t, NEW v \in Entries, TableFine(t), t.cur < MaxChannel
    PROVE  /\ NextId(t) = t.cur + 1 /\ t.cur + 1 \in Ids
           /\ TableFine(Added(t, v)) /\ Added(t, v).cur = t.cur + 1
           /\ \A j : At(Added(t, v), j) = IF j = t.cur + 1 THEN v ELSE At(t, j)
<1>. DEFINE i == t.cur + 1
            a == Added(t, v)
<1>1. MaxChannel \in Nat /\ t.cur \in Int /\ -1 <= t.cur
  BY MaxChannelAssumption, TableFacts
<1>2. NextId(t) = i /\ NextCur(t) = i /\ i \in Ids
  BY <1>1 DEF NextId, NextCur, Ids
<1>3. /\ a = [channels |-> [k \in Live(t) \cup {i} |-> IF k = i THEN v ELSE t.channels[k]],
              cur |-> i, count |-> t.count + 1]
  BY <1>2 DEF Added
<1>4. /\ a.channels = [k \in Live(t) \cup {i} |-> IF k = i THEN v ELSE t.channels[k]]
      /\ a.cur = i /\ a.count = t.count + 1 /\ Live(a) = Live(t) \cup {i}
  BY <1>3 DEF Live
<1>5. Live(t) \subseteq 0..t.cur /\ i \notin Live(t) /\ Live(a) \subseteq 0..i
  BY <1>1, <1>4, TableFacts DEF TableFine
<1>6. a.count = Cardinality(Live(a))
  <2>1. Cardinality(Live(t) \cup {i}) = Cardinality(Live(t)) + 1
    BY <1>5, TableFacts, FS_AddElement
  <2>. QED
    BY <2>1, <1>4, TableFacts
<1>7. a.channels \in [Live(a) -> Entries]
  <2>1. \A k \in Live(t) : t.channels[k] \in Entries
    BY DEF TableFine
  <2>2. \A k \in Live(t) \cup {i} : (IF k = i THEN v ELSE t.channels[k]) \in Entries
    BY <2>1
  <2>. HIDE DEF a
  <2>. QED
    BY <2>2, <1>4
<1>8. TableFine(a)
  <2>1. a = [channels |-> a.channels, cur |-> a.cur, count |-> a.count]
    BY <1>3, <1>4
  <2>2. a.cur \in -1..MaxChannel
    BY <1>4, <1>1
  <2>. HIDE DEF a
  <2>. QED
    BY <2>1, <2>2, <1>4, <1>5, <1>6, <1>7 DEF TableFine
<1>9. ASSUME NEW j
      PROVE  At(a, j) = IF j = i THEN v ELSE At(t, j)
  <2>. HIDE DEF a, i
  <2>. QED
    BY <1>4, <1>5 DEF At
<1>. QED
  BY <1>2, <1>4, <1>8, <1>9

\* update() of an id in the table changes its entry.
LEMMA UpdatedFacts ==
    ASSUME NEW t, NEW v \in Entries, NEW i, TableFine(t), At(t, i) # "none"
    PROVE  /\ TableFine(Updated(t, i, v)) /\ Updated(t, i, v).cur = t.cur
           /\ \A j : At(Updated(t, i, v), j) = IF j = i THEN v ELSE At(t, j)
<1>. DEFINE a == Updated(t, i, v)
<1>1. i \in Live(t)
  BY TableFacts
<1>2. t = [channels |-> t.channels, cur |-> t.cur, count |-> t.count]
  BY DEF TableFine
<1>3. a = [t EXCEPT !.channels = [t.channels EXCEPT ![i] = v]]
  BY <1>1 DEF Updated
<1>4. a = [channels |-> [t.channels EXCEPT ![i] = v], cur |-> t.cur, count |-> t.count]
  BY <1>2, <1>3
<1>5. a.channels = [t.channels EXCEPT ![i] = v] /\ a.cur = t.cur /\ a.count = t.count
  BY <1>4
<1>6. Live(a) = Live(t)
  BY <1>5 DEF Live
<1>7. a.channels \in [Live(a) -> Entries]
  <2>1. t.channels \in [Live(t) -> Entries]
    BY DEF TableFine
  <2>. HIDE DEF a
  <2>. QED
    BY <2>1, <1>5, <1>6
<1>. HIDE DEF a
<1>8. TableFine(a)
  BY <1>2, <1>4, <1>5, <1>6, <1>7 DEF TableFine
<1>9. ASSUME NEW j
      PROVE  At(a, j) = IF j = i THEN v ELSE At(t, j)
  BY <1>1, <1>5, <1>6 DEF At, Live
<1>. QED
  BY <1>5, <1>8, <1>9 DEF a

\* remove() of an id in the table takes it out and leaves the cursor.
LEMMA RemovedFacts ==
    ASSUME NEW t, NEW i, TableFine(t), At(t, i) # "none"
    PROVE  /\ TableFine(Removed(t, i)) /\ Removed(t, i).cur = t.cur
           /\ \A j : At(Removed(t, i), j) = IF j = i THEN "none" ELSE At(t, j)
<1>. DEFINE a == Removed(t, i)
<1>1. i \in Live(t)
  BY TableFacts
<1>2. a = [channels |-> Restrict(t.channels, Live(t) \ {i}), cur |-> t.cur,
           count |-> IF t.count # 0 THEN t.count - 1 ELSE 0]
  BY <1>1 DEF Removed
<1>3. /\ a.channels = [k \in Live(t) \ {i} |-> t.channels[k]] /\ a.cur = t.cur
      /\ a.count = IF t.count # 0 THEN t.count - 1 ELSE 0
      /\ Live(a) = Live(t) \ {i}
  BY <1>2 DEF Restrict, Live
<1>4. a.count = Cardinality(Live(a))
  <2>1. /\ Cardinality(Live(t)) \in Nat /\ Cardinality(Live(t) \ {i}) \in Nat
        /\ Cardinality(Live(t) \ {i}) = Cardinality(Live(t)) - 1
    BY <1>1, TableFacts, FS_RemoveElement, FS_CardinalityType
  <2>2. t.count = Cardinality(Live(t))
    BY TableFacts
  <2>. HIDE DEF a
  <2>. QED
    BY <2>1, <2>2, <1>3
<1>5. a.channels \in [Live(a) -> Entries]
  <2>1. \A k \in Live(t) : t.channels[k] \in Entries
    BY DEF TableFine
  <2>. HIDE DEF a
  <2>. QED
    BY <2>1, <1>3
<1>6. a = [channels |-> a.channels, cur |-> a.cur, count |-> a.count]
  BY <1>2
<1>. HIDE DEF a
<1>7. TableFine(a)
  BY <1>3, <1>4, <1>5, <1>6 DEF TableFine
<1>8. ASSUME NEW j
      PROVE  At(a, j) = IF j = i THEN "none" ELSE At(t, j)
  BY <1>3 DEF At
<1>. QED
  BY <1>3, <1>7, <1>8 DEF a

\* Reading the first message.
LEMMA TailFacts ==
    ASSUME NEW q \in Seq(Messages), q # <<>>, Ordered(q)
    PROVE  /\ Head(q) \in Range(q) /\ Head(q) \in Messages
           /\ Tail(q) \in Seq(Messages) /\ Ordered(Tail(q))
           /\ Range(Tail(q)) \subseteq Range(q)
           /\ \A e \in Range(Tail(q)) : Follows(Head(q), e)
           /\ \A e \in Range(q) : e = Head(q) \/ e \in Range(Tail(q))
<1>1. /\ Tail(q) \in Seq(Messages) /\ Len(q) \in Nat /\ Len(q) > 0 /\ Len(Tail(q)) = Len(q) - 1
      /\ \A k \in 1..Len(Tail(q)) : Tail(q)[k] = q[k + 1] /\ k + 1 \in 1..Len(q) /\ 1 < k + 1
      /\ Head(q) = q[1] /\ 1 \in 1..Len(q) /\ q[1] \in Messages
  OBVIOUS
<1>2. DOMAIN q = 1..Len(q) /\ DOMAIN Tail(q) = 1..Len(Tail(q))
  BY <1>1
<1>3. Head(q) \in Range(q) /\ Head(q) \in Messages
  BY <1>1, <1>2 DEF Range
<1>4. Ordered(Tail(q))
  <2>1. \A k, l \in 1..Len(Tail(q)) : k < l => k + 1 < l + 1
    BY <1>1
  <2>. QED
    BY <1>1, <2>1 DEF Ordered
<1>5. Range(Tail(q)) \subseteq Range(q)
  BY <1>1, <1>2 DEF Range
<1>6. \A e \in Range(Tail(q)) : Follows(Head(q), e)
  BY <1>1, <1>2 DEF Range, Ordered
<1>7. ASSUME NEW e \in Range(q), e # Head(q)
      PROVE  e \in Range(Tail(q))
  <2>1. PICK k \in 1..Len(q) : e = q[k]
    BY <1>2 DEF Range
  <2>2. k # 1
    BY <2>1, <1>1, <1>7
  <2>3. k - 1 \in 1..Len(Tail(q)) /\ (k - 1) + 1 = k
    BY <2>2, <1>1
  <2>4. Tail(q)[k - 1] = e
    BY <2>1, <2>3, <1>1
  <2>. QED
    BY <2>3, <2>4, <1>2 DEF Range
<1>. QED
  BY <1>1, <1>3, <1>4, <1>5, <1>6, <1>7

\* Sending one.
LEMMA AppendFacts ==
    ASSUME NEW q \in Seq(Messages), NEW m \in Messages, Ordered(q),
           \A e \in Range(q) : Follows(e, m)
    PROVE  /\ Append(q, m) \in Seq(Messages) /\ Ordered(Append(q, m))
           /\ Range(Append(q, m)) = Range(q) \cup {m}
<1>. DEFINE a == Append(q, m)
<1>1. /\ a \in Seq(Messages) /\ Len(q) \in Nat /\ Len(a) = Len(q) + 1
      /\ \A k \in 1..Len(q) : a[k] = q[k] /\ k \in 1..Len(a)
      /\ a[Len(q) + 1] = m /\ Len(q) + 1 \in 1..Len(a)
      /\ \A k \in 1..Len(a) : k \in 1..Len(q) \/ k = Len(q) + 1
  OBVIOUS
<1>2. DOMAIN q = 1..Len(q) /\ DOMAIN a = 1..Len(a)
  BY <1>1
<1>. HIDE DEF a
<1>3. Range(a) = Range(q) \cup {m}
  <2>1. \A e \in Range(a) : e \in Range(q) \cup {m}
    BY <1>1, <1>2 DEF Range
  <2>2. \A e \in Range(q) \cup {m} : e \in Range(a)
    BY <1>1, <1>2 DEF Range
  <2>. QED
    BY <2>1, <2>2
<1>4. Ordered(a)
  <2>. SUFFICES ASSUME NEW k \in 1..Len(a), NEW l \in 1..Len(a), k < l
                PROVE  Follows(a[k], a[l])
    BY DEF Ordered
  <2>1. k \in 1..Len(q)
    BY <1>1
  <2>2. CASE l \in 1..Len(q)
    BY <2>1, <2>2, <1>1 DEF Ordered
  <2>3. CASE l = Len(q) + 1
    <3>1. q[k] \in Range(q)
      BY <2>1, <1>2 DEF Range
    <3>. QED
      BY <2>1, <2>3, <3>1, <1>1
  <2>. QED
    BY <2>2, <2>3, <1>1
<1>. QED
  BY <1>1, <1>3, <1>4 DEF a

\* Sending one or two messages at once is sending one after the other.
LEMMA ConcatFacts ==
    ASSUME NEW q \in Seq(Messages), NEW a \in Messages, NEW b \in Messages
    PROVE  /\ q \o <<>> = q /\ q \o <<a>> = Append(q, a)
           /\ q \o (<<a>> \o <<b>>) = Append(Append(q, a), b)
           /\ q \o (<<a>> \o <<>>) = Append(q, a)
<1>1. \A s \in Seq(Messages), c \in Messages : s \o <<>> = s /\ s \o <<c>> = Append(s, c)
  OBVIOUS
<1>2. <<a>> \in Seq(Messages) /\ <<b>> \in Seq(Messages) /\ Append(q, a) \in Seq(Messages)
  OBVIOUS
<1>3. q \o (<<a>> \o <<b>>) = (q \o <<a>>) \o <<b>>
  BY <1>2, ConcatAssociative
<1>. QED
  BY <1>1, <1>2, <1>3

\* An empty wire.
LEMMA EmptyFacts == Ordered(<<>>) /\ Range(<<>>) = {} /\ <<>> \in Seq(Messages)
BY DEF Ordered, Range

-----------------------------------------------------------------------------
(* The pieces of a step.                                                   *)

\* Finitely many CHANNEL_OPENs are on a wire.
LEMMA OpeningFinite ==
    ASSUME NEW T, NEW C, NEW O, NEW W, NEW U, NEW x \in Sides, OpensFine(T, C, O, W, U)
    PROVE  /\ Opening(W[x]) \subseteq Ids /\ IsFiniteSet(Opening(W[x]))
           /\ Cardinality(Opening(W[x])) \in Nat
<1>1. Opening(W[x]) \subseteq Ids
  <2>1. x = Other(Other(x)) /\ Other(x) \in Sides
    BY TwoSides
  <2>2. \A m \in Range(W[x]) : m.type = "open" => m.arg \in Ids
    BY <2>1 DEF OpensFine, Unanswered
  <2>. QED
    BY <2>2 DEF Opening
<1>2. IsFiniteSet(Ids)
  BY FS_Interval, MaxChannelAssumption DEF Ids
<1>3. IsFiniteSet(Opening(W[x]))
  BY <1>1, <1>2, FS_Subset
<1>. QED
  BY <1>1, <1>3, FS_CardinalityType

\* The ids a side opened are finitely many.
LEMMA MineFinite ==
    ASSUME NEW C
    PROVE  /\ \A x \in Sides : /\ Mine(C, x) \subseteq Ids /\ IsFiniteSet(Mine(C, x))
                               /\ Cardinality(Mine(C, x)) \in Nat
           /\ Opened(C) \in Nat
<1>1. IsFiniteSet(Ids)
  BY FS_Interval, MaxChannelAssumption DEF Ids
<1>2. ASSUME NEW x \in Sides
      PROVE  /\ Mine(C, x) \subseteq Ids /\ IsFiniteSet(Mine(C, x))
             /\ Cardinality(Mine(C, x)) \in Nat
  <2>1. Mine(C, x) \subseteq Ids
    BY DEF Mine
  <2>. QED
    BY <2>1, <1>1, FS_Subset, FS_CardinalityType
<1>. QED
  BY <1>2 DEF Opened, Sides

\* Messages that are gone disturb nothing.
LEMMA Fewer ==
    ASSUME NEW T, NEW C, NEW O, NEW A, NEW W, NEW U, Fine(T, C, O, A, W, U),
           NEW V \in [Sides -> Seq(Messages)],
           \A x \in Sides : /\ Range(V[x]) \subseteq Range(W[x]) /\ Ordered(V[x])
                            /\ ~U[x] => V[x] = <<>>
    PROVE  Fine(T, C, O, A, V, U)
<1>1. Typed(T, C, O, A, V, U)
  BY DEF Fine, Typed
<1>2. WireFine(V, U)
  BY DEF Fine, WireFine
<1>3. IdsFine(T, C, V, U)
  <2>. SUFFICES ASSUME NEW x \in Sides, U[x]
                PROVE  T[x].cur + 1 + Cardinality(Opening(V[x])) <= Opened(C)
    BY DEF Fine, IdsFine
  <2>1. Opening(V[x]) \subseteq Opening(W[x])
    BY DEF Opening
  <2>2. IsFiniteSet(Opening(W[x])) /\ Cardinality(Opening(W[x])) \in Nat
    BY OpeningFinite DEF Fine
  <2>3. /\ Cardinality(Opening(V[x])) \in Nat
        /\ Cardinality(Opening(V[x])) <= Cardinality(Opening(W[x]))
    BY <2>1, <2>2, FS_Subset, FS_CardinalityType
  <2>4. T[x].cur + 1 + Cardinality(Opening(W[x])) <= Opened(C) /\ Opened(C) \in Nat
    BY MineFinite DEF Fine, IdsFine
  <2>5. T[x].cur \in Int
    BY TableFacts DEF Fine, Typed
  <2>. QED
    BY <2>2, <2>3, <2>4, <2>5
<1>4. \A x \in Sides : \A i : Unknown(C, W, x, i) => Unknown(C, V, x, i)
  BY DEF Unknown
<1>5. \A x \in Sides : Range(V[Other(x)]) \subseteq Range(W[Other(x)])
  BY TwoSides
<1>6. OpensFine(T, C, O, V, U)
  BY <1>4, <1>5 DEF Fine, OpensFine
<1>7. OffersFine(T, C, O, V, U)
  BY <1>4 DEF Fine, OffersFine
<1>8. EndsFine(T, C, V, U)
  <2>1. \A y \in Sides : \A j, i : Tied(T, C, W, U, Other(y), y, j, i) =>
                                          Tied(T, C, V, U, Other(y), y, j, i)
    <3>. SUFFICES ASSUME NEW y \in Sides, NEW j, NEW i, Tied(T, C, W, U, Other(y), y, j, i)
                  PROVE  Tied(T, C, V, U, Other(y), y, j, i)
      OBVIOUS
    <3>1. Range(V[Other(y)]) \subseteq Range(W[Other(y)])
      BY <1>5
    <3>2. ASSUME C[y][j].out \in Unclosed, NEW m \in Range(V[Other(y)]), m.type # "open", m.to = i
          PROVE  ~Last(m)
      BY <3>1, <3>2 DEF Tied
    <3>. QED
      BY <3>2 DEF Tied
  <2>. QED
    BY <2>1 DEF Fine, EndsFine
<1>9. MessagesFine(T, C, V, U)
  BY DEF Fine, MessagesFine
<1>10. RequestsFine(C, A, V)
  <2>1. \A i : NoAnswer(W, i) => NoAnswer(V, i)
    BY DEF NoAnswer, Sides
  <2>2. Range(V["client"]) \subseteq Range(W["client"]) /\ Range(V["server"]) \subseteq Range(W["server"])
    BY DEF Sides
  <2>. QED
    BY <2>1, <2>2 DEF Fine, RequestsFine
<1>. QED
  BY <1>1, <1>2, <1>3, <1>6, <1>7, <1>8, <1>9, <1>10 DEF Fine

\* Nor does a question that is answered, or an offer.
LEMMA Decided ==
    ASSUME NEW T, NEW C, NEW O, NEW A, NEW W, NEW U, Fine(T, C, O, A, W, U),
           NEW P \in [Sides -> SUBSET [id : Ids, peer : Ids]], \A x \in Sides : P[x] \subseteq O[x],
           NEW B \in SUBSET A
    PROVE  Fine(T, C, P, B, W, U)
<1>1. Typed(T, C, P, B, W, U)
  BY DEF Fine, Typed
<1>2. \A x \in Sides : P[Other(x)] \subseteq O[Other(x)]
  BY TwoSides
<1>3. OpensFine(T, C, P, W, U)
  BY <1>2 DEF Fine, OpensFine
<1>4. OffersFine(T, C, P, W, U)
  BY <1>2 DEF Fine, OffersFine
<1>5. RequestsFine(C, B, W)
  BY DEF Fine, RequestsFine
<1>. QED
  BY <1>1, <1>3, <1>4, <1>5 DEF Fine

\* A side whose socket closes: nothing is on the way to it any more.
LEMMA Gone ==
    ASSUME NEW T, NEW C, NEW O, NEW A, NEW W, NEW U, Fine(T, C, O, A, W, U),
           NEW x \in Sides, W[x] = <<>>
    PROVE  Fine([T EXCEPT ![x] = EmptyTable], C, O, A, W, [U EXCEPT ![x] = FALSE])
<1>. DEFINE S == [T EXCEPT ![x] = EmptyTable]
            V == [U EXCEPT ![x] = FALSE]
            y == Other(x)
<1>1. /\ DOMAIN S = Sides /\ S[x] = EmptyTable /\ S[y] = T[y]
      /\ V \in [Sides -> BOOLEAN] /\ ~V[x] /\ (V[y] <=> U[y])
      /\ y \in Sides /\ y # x /\ \A z \in Sides : z = x \/ z = y
      /\ Other(y) = x
  BY TwoSides DEF Fine, Typed
<1>2. TableFine(EmptyTable)
  BY EmptyTableFine
<1>3. Range(W[x]) = {}
  BY EmptyFacts
<1>. HIDE DEF S, V, y
<1>4. Typed(S, C, O, A, W, V)
  BY <1>1, <1>2 DEF Fine, Typed
<1>5. WireFine(W, V)
  BY <1>1 DEF Fine, WireFine
<1>6. IdsFine(S, C, W, V)
  BY <1>1 DEF Fine, IdsFine
<1>7. \A z \in Sides : \A i : Unanswered(T, C, U, z, i) => Unanswered(S, C, V, z, i)
  BY <1>1 DEF Unanswered
<1>8. OpensFine(S, C, O, W, V)
  BY <1>7 DEF Fine, OpensFine
<1>9. OffersFine(S, C, O, W, V)
  <2>1. \A z \in Sides : \A i : (U[z] => At(T[z], i) = "reserved") => (V[z] => At(S[z], i) = "reserved")
    BY <1>1
  <2>2. \A z \in Sides : Other(z) \in Sides
    BY TwoSides
  <2>. QED
    BY <1>7, <2>1, <2>2 DEF Fine, OffersFine
<1>10. EndsFine(S, C, W, V)
  <2>1. ASSUME NEW z \in Sides, NEW j, NEW i, Tied(T, C, W, U, Other(z), z, j, i)
        PROVE  Tied(S, C, W, V, Other(z), z, j, i)
    <3>1. CASE Other(z) = x
      BY <2>1, <3>1, <1>1 DEF Tied
    <3>2. CASE Other(z) = y
      BY <2>1, <3>2, <1>1 DEF Tied
    <3>. QED
      BY <3>1, <3>2, <1>1, TwoSides
  <2>. QED
    BY <2>1 DEF Fine, EndsFine
<1>11. MessagesFine(S, C, W, V)
  <2>. SUFFICES ASSUME NEW m \in Range(W[y]), m.type # "open"
                PROVE  MessageFine(S, C, V, y, m)
    BY <1>1, <1>3 DEF MessagesFine
  <2>1. MessageFine(T, C, U, y, m)
    BY <1>1 DEF Fine, MessagesFine
  <2>. QED
    BY <2>1, <1>1, <1>7 DEF MessageFine
<1>. QED
  BY <1>4, <1>5, <1>6, <1>8, <1>9, <1>10, <1>11 DEF Fine, S, V

\* No request of the session of i at the client is under way.
Tokenless(C, A, W, i) ==
    /\ \A m \in Range(W["server"]) : m.type = "request" => C["server"][m.to].peer # i
    /\ \A a \in A : C["server"][a.id].peer # i
    /\ NoAnswer(W, i)

\* An end that changes and keeps its kind and its peer.
Kept(C, A, W, x, i, c, d) ==
    /\ d.kind = c.kind /\ d.peer = c.peer
    /\ d.out \in Unclosed => c.out \in Unclosed
    /\ c.chan => d.chan
    /\ d.waiting \in {c.waiting, "none"} \/ (x = "client" /\ Tokenless(C, A, W, i) /\ c.waiting # "none")
    /\ d.peer = -1 => Loose(d)
    /\ x = "server" /\ ~d.chan => d.out = c.out

\* A message stays fine while its end keeps its peer and is not reopened.
LEMMA MessageKept ==
    ASSUME NEW T, NEW C, NEW S, NEW D, NEW U, NEW x, NEW m, MessageFine(T, C, U, x, m),
           At(T[x], m.to) # "none" => At(S[x], m.to) # "none",
           \A k : At(T[Other(x)], k) # "none" => At(S[Other(x)], k) # "none",
           \A j \in Ids : /\ D[Other(x)][j].peer = C[Other(x)][j].peer
                          /\ D[Other(x)][j].out \in Unclosed => C[Other(x)][j].out \in Unclosed,
           Unanswered(T, C, U, x, m.to) => Unanswered(S, D, U, x, m.to)
    PROVE  MessageFine(S, D, U, x, m)
<1>1. m.to \in Ids /\ At(S[x], m.to) # "none"
  BY DEF MessageFine
<1>2. ASSUME m.type # "openfail"
      PROVE  \E j \in Ids : D[Other(x)][j].peer = m.to
  BY <1>2 DEF MessageFine
<1>3. ASSUME m.type = "openfail"
      PROVE  /\ Unanswered(S, D, U, x, m.to)
             /\ \A j \in Ids : D[Other(x)][j].peer # m.to
  BY <1>3 DEF MessageFine
<1>4. ASSUME m.type = "close", NEW j \in Ids, D[Other(x)][j].peer = m.to
      PROVE  D[Other(x)][j].out \notin Unclosed
  BY <1>4 DEF MessageFine
<1>5. ASSUME m.type = "confirm"
      PROVE  /\ m.arg \in Ids /\ D[Other(x)][m.arg].peer = m.to /\ Unanswered(S, D, U, x, m.to)
             /\ U[Other(x)] => At(S[Other(x)], m.arg) # "none"
  BY <1>5 DEF MessageFine
<1>. QED
  BY <1>1, <1>2, <1>3, <1>4, <1>5 DEF MessageFine

\* Ends that change in this way keep everything else fine.
LEMMA Gentle ==
    ASSUME NEW T, NEW C, NEW O, NEW A, NEW W, NEW U, Fine(T, C, O, A, W, U),
           NEW D \in [Sides -> [Ids -> Ends]],
           \A x \in Sides, i \in Ids : D[x][i] = C[x][i] \/ (C[x][i] # Blank /\ Kept(C, A, W, x, i, C[x][i], D[x][i]))
    PROVE  Fine(T, D, O, A, W, U)
<1>. USE TwoSides
<1>1. Typed(T, D, O, A, W, U)
  BY DEF Fine, Typed
<1>2. \A x \in Sides, i \in Ids :
         /\ D[x][i].kind = C[x][i].kind /\ D[x][i].peer = C[x][i].peer
         /\ D[x][i].out \in Unclosed => C[x][i].out \in Unclosed
         /\ C[x][i].chan => D[x][i].chan
  BY DEF Kept
<1>3. \A x \in Sides : Mine(D, x) = Mine(C, x)
  BY <1>2 DEF Mine
<1>4. Opened(D) = Opened(C)
  BY <1>3 DEF Opened, Sides
<1>5. IdsFine(T, D, W, U)
  BY <1>4 DEF Fine, IdsFine
<1>6. \A x \in Sides : \A i :
         /\ Unanswered(T, C, U, x, i) => Unanswered(T, D, U, x, i)
         /\ Unknown(C, W, x, i) => Unknown(D, W, x, i)
  BY <1>2 DEF Unanswered, Unknown
<1>7. OpensFine(T, D, O, W, U)
  BY <1>6 DEF Fine, OpensFine
<1>8. OffersFine(T, D, O, W, U)
  <2>1. \A x \in Sides : \A o \in O[Other(x)] : o.id \in Ids
    BY DEF Fine, Typed
  <2>. QED
    BY <1>2, <1>6, <2>1 DEF Fine, OffersFine
<1>9. EndsFine(T, D, W, U)
  <2>. SUFFICES ASSUME NEW y \in Sides, NEW j \in Ids
                PROVE  /\ D[y][j].peer = -1 => Loose(D[y][j])
                       /\ D[y][j].peer # -1 => Tied(T, D, W, U, Other(y), y, j, D[y][j].peer)
    BY DEF EndsFine
  <2>1. D[y][j].peer = -1 => Loose(D[y][j])
    BY <1>2 DEF Fine, EndsFine, Kept
  <2>2. ASSUME C[y][j].peer # -1
        PROVE  Tied(T, D, W, U, Other(y), y, j, C[y][j].peer)
    <3>1. Tied(T, C, W, U, Other(y), y, j, C[y][j].peer)
      BY <2>2 DEF Fine, EndsFine
    <3>2. C[y][j].peer \in Ids
      BY <2>2 DEF Fine, Typed, Ends
    <3>. QED
      BY <3>1, <3>2, <1>2 DEF Tied
  <2>. QED
    BY <2>1, <2>2, <1>2
<1>10. MessagesFine(T, D, W, U)
  <2>. SUFFICES ASSUME NEW x \in Sides, NEW m \in Range(W[x]), m.type # "open"
                PROVE  MessageFine(T, D, U, x, m)
    BY DEF MessagesFine
  <2>1. MessageFine(T, C, U, x, m)
    BY DEF Fine, MessagesFine
  <2>2. \A j \in Ids : /\ D[Other(x)][j].peer = C[Other(x)][j].peer
                       /\ D[Other(x)][j].out \in Unclosed => C[Other(x)][j].out \in Unclosed
    BY <1>2
  <2>3. Unanswered(T, C, U, x, m.to) => Unanswered(T, D, U, x, m.to)
    BY <1>6
  <2>. QED
    BY <2>1, <2>2, <2>3, MessageKept
<1>11. RequestsFine(D, A, W)
  <2>1. /\ "client" \in Sides /\ "server" \in Sides
    BY DEF Sides
  <2>2. \A i, j : Session(C, i, j) => Session(D, i, j)
    BY <1>2, <2>1 DEF Session
  <2>3. \A i \in Ids : \/ D["client"][i].waiting \in {C["client"][i].waiting, "none"}
                       \/ Tokenless(C, A, W, i)
    BY <2>1 DEF Kept
  <2>4. ASSUME NEW m \in Range(W["server"]), m.type = "request"
        PROVE  LET i == D["server"][m.to].peer IN
               /\ Session(D, i, m.to) /\ m.arg \in Requests
               /\ D["client"][i].waiting \in {"none", m.arg}
               /\ \A a \in A : a.id # m.to
               /\ NoAnswer(W, i)
    <3>. DEFINE i == C["server"][m.to].peer
    <3>1. /\ Session(C, i, m.to) /\ m.arg \in Requests
          /\ C["client"][i].waiting \in {"none", m.arg}
          /\ \A a \in A : a.id # m.to
          /\ NoAnswer(W, i)
      BY <2>4 DEF Fine, RequestsFine
    <3>2. i \in Ids /\ m.to \in Ids
      BY <3>1 DEF Session
    <3>3. D["server"][m.to].peer = i
      BY <3>2, <1>2, <2>1
    <3>4. ~Tokenless(C, A, W, i)
      BY <2>4 DEF Tokenless
    <3>. QED
      BY <3>1, <3>2, <3>3, <3>4, <2>2, <2>3
  <2>5. ASSUME NEW a \in A
        PROVE  LET i == D["server"][a.id].peer IN
               /\ Session(D, i, a.id) /\ D["client"][i].waiting \in {"none", a.what}
               /\ \A b \in A : b.id = a.id => b = a
               /\ NoAnswer(W, i)
    <3>. DEFINE i == C["server"][a.id].peer
    <3>1. /\ Session(C, i, a.id) /\ C["client"][i].waiting \in {"none", a.what}
          /\ \A b \in A : b.id = a.id => b = a
          /\ NoAnswer(W, i)
      BY <2>5 DEF Fine, RequestsFine
    <3>2. i \in Ids /\ a.id \in Ids
      BY <3>1 DEF Session
    <3>3. D["server"][a.id].peer = i
      BY <3>2, <1>2, <2>1
    <3>4. ~Tokenless(C, A, W, i)
      BY <2>5 DEF Tokenless
    <3>. QED
      BY <3>1, <3>2, <3>3, <3>4, <2>2, <2>3
  <2>6. ASSUME NEW n \in Range(W["client"]), Answering(n)
        PROVE  LET j == D["client"][n.to].peer IN
               /\ Session(D, n.to, j)
               /\ n.type = "success" /\ D["client"][n.to].waiting = "exec" => D["server"][j].chan
    <3>. DEFINE j == C["client"][n.to].peer
    <3>1. /\ Session(C, n.to, j)
          /\ n.type = "success" /\ C["client"][n.to].waiting = "exec" => C["server"][j].chan
      BY <2>6 DEF Fine, RequestsFine
    <3>2. n.to \in Ids /\ j \in Ids
      BY <3>1 DEF Session
    <3>3. D["client"][n.to].peer = j
      BY <3>2, <1>2, <2>1
    <3>4. ~Tokenless(C, A, W, n.to)
      BY <2>6 DEF Tokenless, NoAnswer
    <3>. QED
      BY <3>1, <3>2, <3>3, <3>4, <2>1, <2>2, <2>3, <1>2
  <2>. QED
    BY <2>4, <2>5, <2>6 DEF RequestsFine
<1>12. SessionsFine(D)
  <2>1. /\ "client" \in Sides /\ "server" \in Sides
    BY DEF Sides
  <2>2. SessionsFine(C)
    BY DEF Fine
  <2>3. ASSUME NEW j \in Ids
        PROVE  /\ D["server"][j].waiting = "none"
               /\ D["server"][j].kind = "session" /\ ~D["server"][j].chan => D["server"][j].out = "open"
    BY <2>1, <2>2, <1>2 DEF SessionsFine, Kept
  <2>4. ASSUME NEW i \in Ids, D["client"][i].waiting # "none"
        PROVE  D["client"][i].kind = "session"
    BY <2>1, <2>2, <2>4, <1>2 DEF SessionsFine, Kept
  <2>. QED
    BY <2>3, <2>4 DEF SessionsFine
<1>. QED
  BY <1>1, <1>5, <1>7, <1>8, <1>9, <1>10, <1>11, <1>12 DEF Fine

\* A message m that can be sent to x: it follows what is on the way, and nothing
\* else is on the way or in hand that it would contradict.
SendsOpen(T, C, O, W, U, x, m) ==
    /\ Unanswered(T, C, U, Other(x), m.arg) /\ Unknown(C, W, Other(x), m.arg)
    /\ \A o \in O[x] : o.peer # m.arg
    /\ T[x].cur + 2 + Cardinality(Opening(W[x])) <= Opened(C)

SendsToId(T, C, O, W, U, x, m) ==
    /\ MessageFine(T, C, U, x, m)
    /\ \A n \in Range(W[Other(x)]) : n.type = "open" => n.arg # m.to
    /\ \A o \in O[Other(x)] : o.peer # m.to

SendsRequest(C, A, W, m) ==
    LET i == C["server"][m.to].peer IN
    /\ Session(C, i, m.to) /\ m.arg \in Requests /\ C["client"][i].waiting \in {"none", m.arg}
    /\ \A a \in A : a.id # m.to
    /\ NoAnswer(W, i)

SendsAnswer(C, A, W, n) ==
    LET j == C["client"][n.to].peer IN
    /\ Session(C, n.to, j)
    /\ n.type = "success" /\ C["client"][n.to].waiting = "exec" => C["server"][j].chan
    /\ \A m \in Range(W["server"]) : m.type = "request" => C["server"][m.to].peer # n.to
    /\ \A a \in A : C["server"][a.id].peer # n.to

\* A message that may be sent keeps everything fine.
LEMMA Sent ==
    ASSUME NEW T, NEW C, NEW O, NEW A, NEW W, NEW U, Fine(T, C, O, A, W, U),
           NEW x \in Sides, U[x], NEW m \in Messages, \A e \in Range(W[x]) : Follows(e, m),
           m.type = "open" => SendsOpen(T, C, O, W, U, x, m),
           m.type # "open" => SendsToId(T, C, O, W, U, x, m),
           Directed(x, m),
           x = "server" /\ m.type = "request" => SendsRequest(C, A, W, m),
           x = "client" /\ Answering(m) => SendsAnswer(C, A, W, m)
    PROVE  Fine(T, C, O, A, [W EXCEPT ![x] = Append(@, m)], U)
<1>. DEFINE V == [W EXCEPT ![x] = Append(@, m)]
            y == Other(x)
<1>1. W \in [Sides -> Seq(Messages)] /\ Ordered(W[x])
  BY DEF Fine, Typed, WireFine
<1>2. /\ Append(W[x], m) \in Seq(Messages) /\ Ordered(Append(W[x], m))
      /\ Range(Append(W[x], m)) = Range(W[x]) \cup {m}
  BY <1>1, AppendFacts
<1>3. /\ V \in [Sides -> Seq(Messages)] /\ V[x] = Append(W[x], m)
      /\ \A z \in Sides : z # x => V[z] = W[z]
  BY <1>1, <1>2
<1>4. /\ y \in Sides /\ y # x /\ Other(y) = x /\ \A z \in Sides : z = x \/ z = y
  BY TwoSides
<1>5. /\ Range(V[x]) = Range(W[x]) \cup {m} /\ V[y] = W[y] /\ Ordered(V[x])
  BY <1>2, <1>3, <1>4
<1>. HIDE DEF V, y
<1>6. Typed(T, C, O, A, V, U)
  BY <1>3 DEF Fine, Typed
<1>7. WireFine(V, U)
  BY <1>4, <1>5 DEF Fine, WireFine
<1>8. IdsFine(T, C, V, U)
  <2>1. IdsFine(T, C, W, U)
    BY DEF Fine
  <2>2. T[x].cur + 1 + Cardinality(Opening(V[x])) <= Opened(C)
    <3>1. CASE m.type = "open"
      <4>1. Opening(V[x]) = Opening(W[x]) \cup {m.arg}
        BY <3>1, <1>5 DEF Opening
      <4>2. IsFiniteSet(Opening(W[x])) /\ Cardinality(Opening(W[x])) \in Nat
        BY OpeningFinite DEF Fine
      <4>3. /\ Cardinality(Opening(V[x])) \in Nat
            /\ Cardinality(Opening(V[x])) <= Cardinality(Opening(W[x])) + 1
        BY <4>1, <4>2, OneMore
      <4>4. T[x].cur \in Int /\ Opened(C) \in Nat
        BY TableFacts, MineFinite DEF Fine, Typed
      <4>5. T[x].cur + 2 + Cardinality(Opening(W[x])) <= Opened(C)
        BY <3>1 DEF SendsOpen
      <4>. QED
        BY <4>2, <4>3, <4>4, <4>5
    <3>2. CASE m.type # "open"
      <4>1. Opening(V[x]) = Opening(W[x])
        BY <3>2, <1>5 DEF Opening
      <4>. QED
        BY <4>1, <2>1 DEF IdsFine
    <3>. QED
      BY <3>1, <3>2
  <2>. QED
    BY <2>1, <2>2, <1>4, <1>5 DEF IdsFine
<1>9. ASSUME NEW i, m.type # "open" => m.to # i, Unknown(C, W, x, i)
      PROVE  Unknown(C, V, x, i)
  BY <1>5, <1>9 DEF Unknown
<1>10. \A i : Unknown(C, W, y, i) => Unknown(C, V, y, i)
  BY <1>5 DEF Unknown
<1>11. OpensFine(T, C, O, V, U)
  <2>1. ASSUME NEW n \in Range(V[y]), n.type = "open"
        PROVE  /\ Unanswered(T, C, U, x, n.arg) /\ Unknown(C, V, x, n.arg)
               /\ \A o \in O[y] : o.peer # n.arg
    <3>1. n \in Range(W[y])
      BY <1>5
    <3>2. /\ Unanswered(T, C, U, x, n.arg) /\ Unknown(C, W, x, n.arg)
          /\ \A o \in O[y] : o.peer # n.arg
      BY <2>1, <3>1 DEF Fine, OpensFine, y
    <3>3. m.type # "open" => m.to # n.arg
      BY <2>1, <3>1 DEF SendsToId, y
    <3>. QED
      BY <3>2, <3>3, <1>9
  <2>2. ASSUME NEW n \in Range(V[x]), n.type = "open"
        PROVE  /\ Unanswered(T, C, U, y, n.arg) /\ Unknown(C, V, y, n.arg)
               /\ \A o \in O[x] : o.peer # n.arg
    <3>1. CASE n = m
      BY <2>2, <3>1, <1>10 DEF SendsOpen, y
    <3>2. CASE n \in Range(W[x])
      BY <2>2, <3>2, <1>4, <1>10 DEF Fine, OpensFine
    <3>. QED
      BY <3>1, <3>2, <1>5
  <2>. QED
    BY <2>1, <2>2, <1>4 DEF OpensFine, y
<1>12. OffersFine(T, C, O, V, U)
  <2>1. ASSUME NEW z \in Sides, NEW o \in O[Other(z)]
        PROVE  Unknown(C, V, z, o.peer)
    <3>1. Unknown(C, W, z, o.peer)
      BY <2>1 DEF Fine, OffersFine
    <3>2. CASE z = x
      BY <2>1, <3>1, <3>2, <1>9 DEF SendsToId
    <3>3. CASE z = y
      BY <3>1, <3>3, <1>10
    <3>. QED
      BY <3>2, <3>3, <1>4
  <2>. QED
    BY <2>1 DEF Fine, OffersFine
<1>13. EndsFine(T, C, V, U)
  <2>1. ASSUME NEW z \in Sides, NEW j \in Ids, NEW i,
               C[z][j].peer = i, Tied(T, C, W, U, Other(z), z, j, i)
        PROVE  Tied(T, C, V, U, Other(z), z, j, i)
    <3>1. CASE Other(z) = y
      BY <2>1, <3>1, <1>5 DEF Tied
    <3>2. CASE z = y /\ Other(z) = x
      <4>1. ASSUME C[y][j].out \in Unclosed, m.type # "open", m.to = i
            PROVE  ~Last(m)
        <5>1. MessageFine(T, C, U, x, m)
          BY <4>1 DEF SendsToId
        <5>. QED
          BY <5>1, <4>1, <2>1, <3>2 DEF MessageFine, Last, y
      <4>. QED
        BY <2>1, <3>2, <4>1, <1>5 DEF Tied
    <3>. QED
      BY <3>1, <3>2, <1>4 DEF y
  <2>. QED
    BY <2>1 DEF Fine, EndsFine
<1>14. MessagesFine(T, C, V, U)
  BY <1>4, <1>5 DEF Fine, MessagesFine, SendsToId
<1>15. RequestsFine(C, A, V)
  <2>1. CASE x = "client" /\ y = "server"
    <3>1. \A i : NoAnswer(W, i) /\ (Answering(m) => m.to # i) => NoAnswer(V, i)
      BY <2>1, <1>5 DEF NoAnswer
    <3>2. ASSUME NEW r \in Range(V["server"]), r.type = "request"
          PROVE  LET i == C["server"][r.to].peer IN
                 /\ Session(C, i, r.to) /\ r.arg \in Requests
                 /\ C["client"][i].waiting \in {"none", r.arg}
                 /\ \A a \in A : a.id # r.to
                 /\ NoAnswer(V, i)
      <4>1. r \in Range(W["server"])
        BY <2>1, <1>5
      <4>2. Answering(m) => m.to # C["server"][r.to].peer
        BY <2>1, <3>2, <4>1 DEF SendsAnswer
      <4>. QED
        BY <3>1, <3>2, <4>1, <4>2 DEF Fine, RequestsFine
    <3>3. ASSUME NEW a \in A
          PROVE  NoAnswer(V, C["server"][a.id].peer)
      <4>1. Answering(m) => m.to # C["server"][a.id].peer
        BY <2>1 DEF SendsAnswer
      <4>. QED
        BY <3>1, <4>1 DEF Fine, RequestsFine
    <3>4. ASSUME NEW n \in Range(V["client"]), Answering(n)
          PROVE  LET j == C["client"][n.to].peer IN
                 /\ Session(C, n.to, j)
                 /\ n.type = "success" /\ C["client"][n.to].waiting = "exec" => C["server"][j].chan
      <4>1. CASE n = m
        BY <2>1, <3>4, <4>1 DEF SendsAnswer
      <4>2. CASE n \in Range(W["client"])
        BY <3>4, <4>2 DEF Fine, RequestsFine
      <4>. QED
        BY <4>1, <4>2, <2>1, <1>5
    <3>. QED
      BY <3>2, <3>3, <3>4 DEF Fine, RequestsFine
  <2>2. CASE x = "server" /\ y = "client"
    <3>1. \A i : NoAnswer(W, i) => NoAnswer(V, i)
      BY <2>2, <1>5 DEF NoAnswer
    <3>2. ASSUME NEW r \in Range(V["server"]), r.type = "request"
          PROVE  LET i == C["server"][r.to].peer IN
                 /\ Session(C, i, r.to) /\ r.arg \in Requests
                 /\ C["client"][i].waiting \in {"none", r.arg}
                 /\ \A a \in A : a.id # r.to
                 /\ NoAnswer(V, i)
      <4>1. CASE r = m
        BY <2>2, <3>1, <3>2, <4>1 DEF SendsRequest
      <4>2. CASE r \in Range(W["server"])
        BY <3>1, <3>2, <4>2 DEF Fine, RequestsFine
      <4>. QED
        BY <4>1, <4>2, <2>2, <1>5
    <3>3. V["client"] = W["client"]
      BY <2>2, <1>5
    <3>. QED
      BY <3>1, <3>2, <3>3 DEF Fine, RequestsFine
  <2>. QED
    BY <2>1, <2>2 DEF Sides, Other, y
<1>16. SessionsFine(C)
  BY DEF Fine
<1>. QED
  BY <1>6, <1>7, <1>8, <1>11, <1>12, <1>13, <1>14, <1>15, <1>16 DEF Fine, V

\* Taking an id out of the table: nothing is on its way to it and its peer has
\* sent its last message.
Freeable(T, C, O, W, x, i) ==
    /\ At(T[x], i) \notin {"none", "reserved"}
    /\ \A m \in Range(W[x]) : m.type # "open" => m.to # i
    /\ \A j \in Ids : C[Other(x)][j].peer = i => C[Other(x)][j].out \notin Unclosed
    /\ \A m \in Range(W[Other(x)]) : m.type \in {"open", "confirm"} => m.arg # i
    /\ \A o \in O[Other(x)] : o.peer # i

\* Taking such an id out of the table keeps everything fine.
LEMMA Freed ==
    ASSUME NEW T, NEW C, NEW O, NEW A, NEW W, NEW U, Fine(T, C, O, A, W, U),
           NEW x \in Sides, NEW i, Freeable(T, C, O, W, x, i)
    PROVE  Fine(Without(T, x, i), C, O, A, W, U)
<1>. DEFINE S == [T EXCEPT ![x] = Removed(@, i)]
            y == Other(x)
<1>1. /\ TableFine(T[x]) /\ At(T[x], i) # "none"
  BY DEF Fine, Typed, Freeable
<1>2. /\ DOMAIN S = Sides /\ S[y] = T[y] /\ S[x] = Removed(T[x], i)
      /\ y \in Sides /\ y # x /\ \A z \in Sides : z = x \/ z = y
      /\ Other(y) = x
  BY TwoSides DEF Fine, Typed
<1>3. /\ TableFine(S[x]) /\ S[x].cur = T[x].cur
      /\ \A j : At(S[x], j) = IF j = i THEN "none" ELSE At(T[x], j)
  BY <1>1, <1>2, RemovedFacts
<1>4. \A z \in Sides : S[z].cur = T[z].cur
  BY <1>2, <1>3
<1>. HIDE DEF S, y
<1>5. Typed(S, C, O, A, W, U)
  BY <1>2, <1>3 DEF Fine, Typed
<1>6. IdsFine(S, C, W, U)
  BY <1>4 DEF Fine, IdsFine
<1>7. \A k : k # i => (Unanswered(T, C, U, x, k) => Unanswered(S, C, U, x, k))
  BY <1>3 DEF Unanswered
<1>8. \A k : Unanswered(T, C, U, y, k) => Unanswered(S, C, U, y, k)
  BY <1>2 DEF Unanswered
<1>9. OpensFine(S, C, O, W, U)
  <2>1. \A m \in Range(W[y]) : m.type = "open" => m.arg # i
    BY DEF Freeable, y
  <2>2. OpensFine(T, C, O, W, U)
    BY DEF Fine
  <2>. QED
    BY <1>2, <1>7, <1>8, <2>1, <2>2 DEF OpensFine, y
<1>10. OffersFine(S, C, O, W, U)
  <2>1. \A o \in O[y] : o.peer # i
    BY DEF Freeable, y
  <2>2. OffersFine(T, C, O, W, U)
    BY DEF Fine
  <2>3. ASSUME NEW o \in O[x], U[x]
        PROVE  At(S[x], o.id) = "reserved"
    <3>1. At(T[x], o.id) = "reserved"
      BY <2>2, <2>3, <1>2 DEF OffersFine
    <3>2. o.id # i
      BY <3>1 DEF Freeable
    <3>. QED
      BY <3>1, <3>2, <1>3
  <2>4. ASSUME NEW o \in O[y]
        PROVE  /\ Unanswered(S, C, U, x, o.peer) /\ Unknown(C, W, x, o.peer)
               /\ \A p \in O[y] : p # o => p.peer # o.peer /\ p.id # o.id
               /\ C[y][o.id] = Blank /\ (U[y] => At(S[y], o.id) = "reserved")
               /\ \A k \in Ids : C[x][k].peer # o.id
    BY <1>2, <1>7, <2>1, <2>2 DEF OffersFine, y
  <2>5. ASSUME NEW o \in O[x]
        PROVE  /\ Unanswered(S, C, U, y, o.peer) /\ Unknown(C, W, y, o.peer)
               /\ \A p \in O[x] : p # o => p.peer # o.peer /\ p.id # o.id
               /\ C[x][o.id] = Blank
               /\ \A k \in Ids : C[y][k].peer # o.id
    BY <1>2, <1>8, <2>2 DEF OffersFine, y
  <2>. QED
    BY <1>2, <2>3, <2>4, <2>5 DEF OffersFine, y
<1>11. EndsFine(S, C, W, U)
  <2>1. ASSUME NEW z \in Sides, NEW j \in Ids, NEW k,
               C[z][j].peer = k, Tied(T, C, W, U, Other(z), z, j, k)
        PROVE  Tied(S, C, W, U, Other(z), z, j, k)
    <3>1. CASE Other(z) = y
      BY <2>1, <3>1, <1>2 DEF Tied
    <3>2. CASE z = y /\ Other(z) = x
      <4>1. C[y][j].out \in Unclosed => k # i
        BY <2>1, <3>2 DEF Freeable, y
      <4>. QED
        BY <2>1, <3>2, <4>1, <1>3 DEF Tied
    <3>. QED
      BY <3>1, <3>2, <1>2 DEF y
  <2>. QED
    BY <2>1 DEF Fine, EndsFine
<1>12. MessagesFine(S, C, W, U)
  <2>. SUFFICES ASSUME NEW z \in Sides, NEW m \in Range(W[z]), m.type # "open"
                PROVE  MessageFine(S, C, U, z, m)
    BY DEF MessagesFine
  <2>1. MessageFine(T, C, U, z, m)
    BY DEF Fine, MessagesFine
  <2>2. CASE z = x
    <3>1. m.to # i
      BY <2>2 DEF Freeable
    <3>. QED
      BY <2>1, <2>2, <3>1, <1>2, <1>3, <1>7 DEF MessageFine, y
  <2>3. CASE z = y
    <3>1. m.type = "confirm" => m.arg # i
      BY <2>3 DEF Freeable, y
    <3>. QED
      BY <2>1, <2>3, <3>1, <1>2, <1>3, <1>8 DEF MessageFine
  <2>. QED
    BY <2>2, <2>3, <1>2
<1>13. Fine(S, C, O, A, W, U)
  BY <1>5, <1>6, <1>9, <1>10, <1>11, <1>12 DEF Fine
<1>. QED
  BY <1>13 DEF S, Without

\* A request that reaches the application.
LEMMA Asked ==
    ASSUME NEW T, NEW C, NEW O, NEW A, NEW W, NEW U, Fine(T, C, O, A, W, U),
           NEW a \in [id : Ids, what : Requests],
           Session(C, C["server"][a.id].peer, a.id),
           C["client"][C["server"][a.id].peer].waiting \in {"none", a.what},
           \A b \in A : b.id # a.id,
           NoAnswer(W, C["server"][a.id].peer),
           \A m \in Range(W["server"]) : m.type = "request" => m.to # a.id
    PROVE  Fine(T, C, O, A \cup {a}, W, U)
<1>1. Typed(T, C, O, A \cup {a}, W, U)
  BY DEF Fine, Typed
<1>2. RequestsFine(C, A \cup {a}, W)
  <2>1. RequestsFine(C, A, W)
    BY DEF Fine
  <2>2. \A b \in A \cup {a} : \A c \in A \cup {a} : b.id = c.id => b = c
    BY <2>1 DEF RequestsFine
  <2>. QED
    BY <2>1, <2>2 DEF RequestsFine
<1>. QED
  BY <1>1, <1>2 DEF Fine

\* A CHANNEL_OPEN with the id p is answered with a reserved id.
LEMMA Reserved ==
    ASSUME NEW T, NEW C, NEW O, NEW A, NEW W, NEW U, Fine(T, C, O, A, W, U),
           NEW x \in Sides, U[x], NEW p,
           Unanswered(T, C, U, Other(x), p), Unknown(C, W, Other(x), p),
           \A o \in O[x] : o.peer # p,
           \A m \in Range(W[x]) : m.type = "open" => m.arg # p,
           T[x].cur + 2 + Cardinality(Opening(W[x])) <= Opened(C)
    PROVE  /\ NextId(T[x]) = T[x].cur + 1 /\ T[x].cur + 1 \in Ids /\ At(T[x], T[x].cur + 1) = "none"
           /\ Fine(WithNew(T, x, "reserved"), C,
                   WithOffer(O, x, [id |-> T[x].cur + 1, peer |-> p]), A, W, U)
<1>. DEFINE i == T[x].cur + 1
            o == [id |-> i, peer |-> p]
            S == [T EXCEPT ![x] = Added(@, "reserved")]
            P == [O EXCEPT ![x] = @ \cup {o}]
            y == Other(x)
<1>1. /\ TableFine(T[x]) /\ T[x].cur \in Int /\ Opened(C) \in Nat /\ Opened(C) <= MaxOpens
      /\ MaxOpens \in Nat /\ MaxOpens <= MaxChannel /\ MaxChannel \in Nat
      /\ Cardinality(Opening(W[x])) \in Nat
  BY TableFacts, MineFinite, OpeningFinite, LifecycleAssumption, MaxChannelAssumption
     DEF Fine, Typed, IdsFine
<1>2. T[x].cur < MaxChannel
  BY <1>1
<1>3. /\ NextId(T[x]) = i /\ i \in Ids /\ TableFine(Added(T[x], "reserved"))
      /\ Added(T[x], "reserved").cur = i
      /\ \A j : At(Added(T[x], "reserved"), j) = IF j = i THEN "reserved" ELSE At(T[x], j)
  BY <1>1, <1>2, AddedFacts DEF Entries
<1>4. /\ DOMAIN S = Sides /\ S[y] = T[y] /\ S[x] = Added(T[x], "reserved")
      /\ y \in Sides /\ y # x /\ (\A z \in Sides : z = x \/ z = y) /\ Other(y) = x
      /\ p \in Ids /\ o.id = i /\ o.peer = p /\ o \in [id : Ids, peer : Ids]
      /\ P[x] = O[x] \cup {o} /\ P[y] = O[y] /\ P \in [Sides -> SUBSET [id : Ids, peer : Ids]]
  BY <1>3, TwoSides DEF Fine, Typed, Unanswered
<1>5. At(T[x], i) = "none"
  BY <1>1, TableFacts
<1>. HIDE DEF S, P, o, y
<1>6. \A j : At(S[x], j) = IF j = i THEN "reserved" ELSE At(T[x], j)
  BY <1>3, <1>4
<1>. HIDE DEF i
<1>7. Typed(S, C, P, A, W, U)
  BY <1>3, <1>4 DEF Fine, Typed
<1>8. IdsFine(S, C, W, U)
  <2>1. S[x].cur = T[x].cur + 1
    BY <1>3, <1>4 DEF i
  <2>2. S[x].cur + 1 + Cardinality(Opening(W[x])) <= Opened(C)
    BY <2>1, <1>1
  <2>3. \A k \in Ids : k > S[x].cur => k > T[x].cur
    BY <2>1, <1>1 DEF Ids
  <2>. QED
    BY <2>2, <2>3, <1>4 DEF Fine, IdsFine
<1>9. \A z \in Sides : \A k : Unanswered(T, C, U, z, k) => Unanswered(S, C, U, z, k)
  BY <1>4, <1>5, <1>6 DEF Unanswered
<1>10. OpensFine(S, C, P, W, U)
  <2>1. OpensFine(T, C, O, W, U)
    BY DEF Fine
  <2>2. ASSUME NEW z \in Sides, NEW m \in Range(W[Other(z)]), m.type = "open"
        PROVE  \A q \in P[Other(z)] : q.peer # m.arg
    <3>1. CASE Other(z) = x
      BY <2>1, <2>2, <3>1, <1>4 DEF OpensFine
    <3>2. CASE Other(z) = y
      BY <2>1, <2>2, <3>2, <1>4 DEF OpensFine
    <3>. QED
      BY <3>1, <3>2, <1>4, TwoSides
  <2>. QED
    BY <2>1, <2>2, <1>9 DEF OpensFine
<1>11. OffersFine(S, C, P, W, U)
  <2>1. OffersFine(T, C, O, W, U)
    BY DEF Fine
  <2>2. ASSUME NEW q \in O[y]
        PROVE  /\ Unanswered(S, C, U, x, q.peer) /\ Unknown(C, W, x, q.peer)
               /\ \A r \in O[y] : r # q => r.peer # q.peer /\ r.id # q.id
               /\ C[y][q.id] = Blank /\ (U[y] => At(S[y], q.id) = "reserved")
               /\ \A k \in Ids : C[x][k].peer # q.id
    BY <2>1, <1>4, <1>9 DEF OffersFine, y
  <2>3. ASSUME NEW q \in O[x]
        PROVE  /\ Unanswered(S, C, U, y, q.peer) /\ Unknown(C, W, y, q.peer)
               /\ \A r \in O[x] : r # q => r.peer # q.peer /\ r.id # q.id
               /\ C[x][q.id] = Blank /\ At(T[x], q.id) = "reserved"
               /\ \A k \in Ids : C[y][k].peer # q.id
    BY <2>1, <1>4, <1>9 DEF OffersFine
  <2>4. \A q \in O[x] : q.id # i /\ At(S[x], q.id) = "reserved" /\ q.peer # p
    BY <2>3, <1>5, <1>6
  <2>5. C[x][i] = Blank
    <3>1. i > T[x].cur
      BY <1>1 DEF i
    <3>. QED
      BY <3>1, <1>3 DEF Fine, IdsFine
  <2>6. \A k \in Ids : C[y][k].peer # i
    <3>1. \A k \in Ids : C[y][k].peer = -1 \/ C[y][k].peer <= T[x].cur
      BY <1>4 DEF Fine, EndsFine, Tied
    <3>2. i # -1 /\ ~(i <= T[x].cur)
      BY <1>1, <1>3 DEF i, Ids
    <3>. QED
      BY <3>1, <3>2
  <2>7. /\ Unanswered(S, C, U, y, p) /\ Unknown(C, W, y, p)
    BY <1>4, <1>9 DEF y
  <2>8. ASSUME NEW q \in P[x]
        PROVE  /\ Unanswered(S, C, U, y, q.peer) /\ Unknown(C, W, y, q.peer)
               /\ \A r \in P[x] : r # q => r.peer # q.peer /\ r.id # q.id
               /\ C[x][q.id] = Blank /\ At(S[x], q.id) = "reserved"
               /\ \A k \in Ids : C[y][k].peer # q.id
    BY <2>3, <2>4, <2>5, <2>6, <2>7, <1>4, <1>6
  <2>. QED
    BY <2>2, <2>8, <1>4 DEF OffersFine, y
<1>12. EndsFine(S, C, W, U)
  <2>1. \A z \in Sides : /\ \A k : At(T[z], k) # "none" => At(S[z], k) # "none"
                         /\ \A k \in Ids : k <= T[z].cur => k <= S[z].cur
    BY <1>1, <1>3, <1>4, <1>6 DEF i, Ids
  <2>2. ASSUME NEW z \in Sides, NEW j \in Ids, C[z][j].peer # -1
        PROVE  Tied(S, C, W, U, Other(z), z, j, C[z][j].peer)
    <3>1. Tied(T, C, W, U, Other(z), z, j, C[z][j].peer)
      BY <2>2 DEF Fine, EndsFine
    <3>2. C[z][j].peer \in Ids /\ Other(z) \in Sides
      BY <2>2, TwoSides DEF Fine, Typed, Ends
    <3>. QED
      BY <2>1, <3>1, <3>2 DEF Tied
  <2>. QED
    BY <2>2 DEF Fine, EndsFine
<1>13. MessagesFine(S, C, W, U)
  <2>1. \A z \in Sides : \A k : At(T[z], k) # "none" => At(S[z], k) # "none"
    BY <1>4, <1>6
  <2>. SUFFICES ASSUME NEW z \in Sides, NEW m \in Range(W[z]), m.type # "open"
                PROVE  MessageFine(S, C, U, z, m)
    BY DEF MessagesFine
  <2>2. MessageFine(T, C, U, z, m)
    BY DEF Fine, MessagesFine
  <2>. QED
    BY <2>1, <2>2, <1>9, TwoSides DEF MessageFine
<1>14. Fine(S, C, P, A, W, U)
  BY <1>7, <1>8, <1>10, <1>11, <1>12, <1>13 DEF Fine
<1>. QED
  BY <1>3, <1>5, <1>14 DEF S, P, o, i, WithNew, WithOffer

\* Sessions do not notice a change of an end without a peer.
LEMMA SessionsKept ==
    ASSUME NEW C, NEW D, NEW A, NEW W, RequestsFine(C, A, W),
           \A z \in Sides, k \in Ids : C[z][k].peer # -1 => D[z][k] = C[z][k]
    PROVE  RequestsFine(D, A, W)
<1>1. /\ "client" \in Sides /\ "server" \in Sides
  BY DEF Sides
<1>2. \A k, j : Session(C, k, j) => /\ Session(D, k, j)
                                    /\ D["client"][k] = C["client"][k]
                                    /\ D["server"][j] = C["server"][j]
  <2>1. \A k \in Ids : k # -1
    BY DEF Ids
  <2>. QED
    BY <1>1, <2>1 DEF Session
<1>3. ASSUME NEW m \in Range(W["server"]), m.type = "request"
      PROVE  LET i == D["server"][m.to].peer IN
             /\ Session(D, i, m.to) /\ m.arg \in Requests
             /\ D["client"][i].waiting \in {"none", m.arg}
             /\ \A a \in A : a.id # m.to
             /\ NoAnswer(W, i)
  <2>1. LET i == C["server"][m.to].peer IN
        /\ Session(C, i, m.to) /\ m.arg \in Requests
        /\ C["client"][i].waiting \in {"none", m.arg}
        /\ \A a \in A : a.id # m.to
        /\ NoAnswer(W, i)
    BY <1>3 DEF RequestsFine
  <2>. QED
    BY <2>1, <1>2
<1>4. ASSUME NEW a \in A
      PROVE  LET i == D["server"][a.id].peer IN
             /\ Session(D, i, a.id) /\ D["client"][i].waiting \in {"none", a.what}
             /\ \A b \in A : b.id = a.id => b = a
             /\ NoAnswer(W, i)
  <2>1. LET i == C["server"][a.id].peer IN
        /\ Session(C, i, a.id) /\ C["client"][i].waiting \in {"none", a.what}
        /\ \A b \in A : b.id = a.id => b = a
        /\ NoAnswer(W, i)
    BY DEF RequestsFine
  <2>. QED
    BY <2>1, <1>2
<1>5. ASSUME NEW n \in Range(W["client"]), Answering(n)
      PROVE  LET j == D["client"][n.to].peer IN
             /\ Session(D, n.to, j)
             /\ n.type = "success" /\ D["client"][n.to].waiting = "exec" => D["server"][j].chan
  <2>1. LET j == C["client"][n.to].peer IN
        /\ Session(C, n.to, j)
        /\ n.type = "success" /\ C["client"][n.to].waiting = "exec" => C["server"][j].chan
    BY <1>5 DEF RequestsFine
  <2>. QED
    BY <2>1, <1>2
<1>. QED
  BY <1>3, <1>4, <1>5 DEF RequestsFine

\* A side opens a channel: it has a new id.
LEMMA NewEnd ==
    ASSUME NEW T, NEW C, NEW O, NEW A, NEW W, NEW U, Fine(T, C, O, A, W, U),
           NEW x \in Sides, U[x], Opened(C) < MaxOpens,
           NEW d \in Ends, Loose(d), d.kind = Own(x), d.peer = -1
    PROVE  LET i == T[x].cur + 1
               S == WithNew(T, x, "opener")
               D == WithEnd(C, x, i, d)
           IN  /\ NextId(T[x]) = i /\ i \in Ids /\ At(T[x], i) = "none" /\ C[x][i] = Blank
               /\ Fine(S, D, O, A, W, U)
               /\ Unanswered(S, D, U, x, i) /\ Unknown(D, W, x, i)
               /\ \A o \in O[Other(x)] : o.peer # i
               /\ \A m \in Range(W[Other(x)]) : m.type = "open" => m.arg # i
               /\ Opened(D) = Opened(C) + 1
               /\ S[Other(x)] = T[Other(x)]
<1>. DEFINE i == T[x].cur + 1
            S == [T EXCEPT ![x] = Added(@, "opener")]
            D == [C EXCEPT ![x][i] = d]
            y == Other(x)
<1>1. /\ TableFine(T[x]) /\ T[x].cur \in Int /\ -1 <= T[x].cur /\ Opened(C) \in Nat
      /\ MaxOpens \in Nat /\ MaxOpens <= MaxChannel /\ MaxChannel \in Nat
      /\ Cardinality(Opening(W[x])) \in Nat
      /\ T[x].cur + 1 + Cardinality(Opening(W[x])) <= Opened(C)
  BY TableFacts, MineFinite, OpeningFinite, LifecycleAssumption, MaxChannelAssumption
     DEF Fine, Typed, IdsFine
<1>2. T[x].cur < MaxChannel
  BY <1>1
<1>3. /\ NextId(T[x]) = i /\ i \in Ids /\ TableFine(Added(T[x], "opener"))
      /\ Added(T[x], "opener").cur = i
      /\ \A j : At(Added(T[x], "opener"), j) = IF j = i THEN "opener" ELSE At(T[x], j)
  BY <1>1, <1>2, AddedFacts DEF Entries
<1>4. /\ DOMAIN S = Sides /\ S[y] = T[y] /\ S[x] = Added(T[x], "opener")
      /\ y \in Sides /\ y # x /\ (\A z \in Sides : z = x \/ z = y) /\ Other(y) = x
      /\ Own(y) # Own(x)
  BY TwoSides DEF Fine, Typed
<1>5. C \in [Sides -> [Ids -> Ends]]
  BY DEF Fine, Typed
<1>6. /\ D \in [Sides -> [Ids -> Ends]] /\ D[y] = C[y] /\ D[x][i] = d
      /\ \A k \in Ids : k # i => D[x][k] = C[x][k]
  BY <1>3, <1>4, <1>5
<1>7. At(T[x], i) = "none"
  BY <1>1, TableFacts
<1>8. C[x][i] = Blank
  <2>1. i > T[x].cur
    BY <1>1
  <2>. QED
    BY <2>1, <1>3 DEF Fine, IdsFine
<1>. HIDE DEF S, D, y
<1>9. \A j : At(S[x], j) = IF j = i THEN "opener" ELSE At(T[x], j)
  BY <1>3, <1>4
<1>10. \A z \in Sides, k \in Ids :
          /\ D[z][k].peer = C[z][k].peer /\ D[z][k].out = C[z][k].out
          /\ (D[z][k].chan <=> C[z][k].chan) /\ D[z][k].waiting = C[z][k].waiting
          /\ C[z][k].peer # -1 => D[z][k] = C[z][k]
  <2>1. /\ Blank.peer = -1 /\ Blank.out = "none" /\ ~Blank.chan /\ Blank.waiting = "none"
    BY DEF Blank
  <2>2. d.out = "none" /\ ~d.chan /\ d.waiting = "none"
    BY DEF Loose
  <2>3. \A z \in Sides, k \in Ids : (z = x /\ k = i) \/ D[z][k] = C[z][k]
    BY <1>4, <1>6
  <2>. QED
    BY <2>1, <2>2, <2>3, <1>6, <1>8
<1>11. /\ \A k \in Ids : C[y][k].peer # i
       /\ \A m \in Range(W[x]) : m.type # "open" => m.to # i
       /\ \A k : Unanswered(T, C, U, x, k) => k # i
  <2>1. \A k \in Ids : C[y][k].peer = -1 \/ C[y][k].peer <= T[x].cur
    BY <1>4 DEF Fine, EndsFine, Tied
  <2>2. i # -1 /\ ~(i <= T[x].cur)
    BY <1>1, <1>3 DEF Ids
  <2>3. \A m \in Range(W[x]) : m.type # "open" => m.to # i
    BY <1>7 DEF Fine, MessagesFine, MessageFine
  <2>4. \A k : Unanswered(T, C, U, x, k) => k # i
    BY <1>7 DEF Unanswered
  <2>. QED
    BY <2>1, <2>2, <2>3, <2>4
<1>12. /\ S[x].cur = T[x].cur + 1
       /\ \A k \in Ids : /\ k > S[x].cur => k > T[x].cur /\ k # i
                         /\ k <= T[x].cur => k <= S[x].cur
  BY <1>1, <1>3, <1>4 DEF Ids
<1>. HIDE DEF i
<1>13. Typed(S, D, O, A, W, U)
  BY <1>3, <1>4, <1>6 DEF Fine, Typed
<1>14. Opened(D) = Opened(C) + 1
  <2>1. Mine(D, y) = Mine(C, y)
    BY <1>6 DEF Mine
  <2>2. Mine(D, x) = Mine(C, x) \cup {i} /\ i \notin Mine(C, x)
    <3>1. C[x][i].kind # Own(x)
      BY <1>8, TwoSides DEF Blank
    <3>. QED
      BY <3>1, <1>3, <1>6 DEF Mine
  <2>3. /\ Cardinality(Mine(D, x)) = Cardinality(Mine(C, x)) + 1
        /\ Cardinality(Mine(C, x)) \in Nat /\ Cardinality(Mine(C, y)) \in Nat
    BY <2>2, <1>4, MineFinite, OneMore
  <2>4. \/ x = "client" /\ y = "server"
        \/ x = "server" /\ y = "client"
    BY DEF Sides, Other, y
  <2>. QED
    BY <2>1, <2>3, <2>4 DEF Opened
<1>15. IdsFine(S, D, W, U)
  <2>1. IdsFine(T, C, W, U)
    BY DEF Fine
  <2>2. Opened(D) <= MaxOpens
    BY <1>14, <1>1
  <2>3. S[x].cur + 1 + Cardinality(Opening(W[x])) <= Opened(D)
    BY <1>12, <1>14, <1>1
  <2>4. U[y] => S[y].cur + 1 + Cardinality(Opening(W[y])) <= Opened(D)
    <3>1. T[y].cur \in Int /\ Cardinality(Opening(W[y])) \in Nat
      BY <1>4, TableFacts, OpeningFinite DEF Fine, Typed
    <3>. QED
      BY <3>1, <2>1, <1>1, <1>4, <1>14 DEF IdsFine
  <2>5. \A k \in Ids : k > S[x].cur => D[x][k] = Blank
    BY <2>1, <1>6, <1>12 DEF IdsFine
  <2>6. U[y] => \A k \in Ids : k > S[y].cur => D[y][k] = Blank
    BY <2>1, <1>4, <1>6 DEF IdsFine
  <2>. QED
    BY <2>2, <2>3, <2>4, <2>5, <2>6, <1>4 DEF IdsFine
<1>16. \A z \in Sides : \A k : Unanswered(T, C, U, z, k) => Unanswered(S, D, U, z, k)
  <2>1. \A k : Unanswered(T, C, U, x, k) => Unanswered(S, D, U, x, k)
    BY <1>6, <1>9, <1>11 DEF Unanswered
  <2>2. \A k : Unanswered(T, C, U, y, k) => Unanswered(S, D, U, y, k)
    BY <1>4, <1>6 DEF Unanswered
  <2>. QED
    BY <2>1, <2>2, <1>4
<1>17. \A z \in Sides : \A k : Unknown(C, W, z, k) => Unknown(D, W, z, k)
  BY <1>10, TwoSides DEF Unknown
<1>18. OpensFine(S, D, O, W, U)
  BY <1>16, <1>17 DEF Fine, OpensFine
<1>19. OffersFine(S, D, O, W, U)
  <2>1. OffersFine(T, C, O, W, U)
    BY DEF Fine
  <2>2. \A o \in O[y] : D[y][o.id] = Blank /\ (U[y] => At(S[y], o.id) = "reserved")
    BY <2>1, <1>4, <1>6 DEF OffersFine, y
  <2>3. ASSUME NEW o \in O[x]
        PROVE  D[x][o.id] = Blank /\ At(S[x], o.id) = "reserved"
    <3>1. /\ C[x][o.id] = Blank /\ At(T[x], o.id) = "reserved" /\ o.id \in Ids
      BY <2>1, <2>3, <1>4 DEF OffersFine, Fine, Typed
    <3>2. o.id # i
      BY <3>1, <1>7
    <3>. QED
      BY <3>1, <3>2, <1>6, <1>9
  <2>4. \A z \in Sides : \A o \in O[Other(z)] :
           D[Other(z)][o.id] = Blank /\ (U[Other(z)] => At(S[Other(z)], o.id) = "reserved")
    BY <2>2, <2>3, <1>4 DEF y
  <2>. QED
    BY <2>1, <2>4, <1>10, <1>16, <1>17 DEF OffersFine
<1>20. EndsFine(S, D, W, U)
  <2>1. \A z \in Sides : /\ \A k : At(T[z], k) # "none" => At(S[z], k) # "none"
                         /\ \A k \in Ids : k <= T[z].cur => k <= S[z].cur
    BY <1>4, <1>9, <1>12
  <2>2. ASSUME NEW z \in Sides, NEW j \in Ids, C[z][j].peer # -1
        PROVE  Tied(S, D, W, U, Other(z), z, j, C[z][j].peer)
    <3>. DEFINE k == C[z][j].peer
    <3>1. Tied(T, C, W, U, Other(z), z, j, k)
      BY <2>2 DEF Fine, EndsFine
    <3>2. k \in Ids /\ Other(z) \in Sides
      BY <2>2, TwoSides DEF Fine, Typed, Ends
    <3>3. D[Other(z)][k].kind = C[Other(z)][k].kind
      <4>1. CASE z = x
        BY <4>1, <3>2, <1>6 DEF y
      <4>2. CASE z = y
        BY <4>2, <3>2, <1>4, <1>6, <1>11
      <4>. QED
        BY <4>1, <4>2, <1>4
    <3>4. D[z][j] = C[z][j]
      BY <2>2, <1>10
    <3>. HIDE DEF k
    <3>5. Tied(S, D, W, U, Other(z), z, j, k)
      <4>1. \A l \in Ids : D[z][l].peer = k => l = j
        BY <3>1, <1>10 DEF Tied
      <4>2. U[Other(z)] => k <= S[Other(z)].cur
        BY <2>1, <3>1, <3>2 DEF Tied
      <4>3. D[Other(z)][k].kind = D[z][j].kind /\ D[Other(z)][k].peer \in {j, -1}
        BY <3>1, <3>2, <3>3, <3>4, <1>10 DEF Tied
      <4>4. ASSUME D[z][j].out \in Unclosed
            PROVE  /\ U[Other(z)] => At(S[Other(z)], k) # "none"
                   /\ \A m \in Range(W[Other(z)]) : m.type # "open" /\ m.to = k => ~Last(m)
        BY <4>4, <2>1, <3>1, <3>2, <3>4 DEF Tied
      <4>. QED
        BY <4>1, <4>2, <4>3, <4>4 DEF Tied
    <3>. QED
      BY <3>5 DEF k
  <2>3. \A z \in Sides, j \in Ids : D[z][j].peer = -1 => Loose(D[z][j])
    BY <1>10 DEF Fine, EndsFine, Loose
  <2>. QED
    BY <2>2, <2>3, <1>10 DEF EndsFine
<1>21. MessagesFine(S, D, W, U)
  <2>1. \A z \in Sides : \A k : At(T[z], k) # "none" => At(S[z], k) # "none"
    BY <1>4, <1>9
  <2>. SUFFICES ASSUME NEW z \in Sides, NEW m \in Range(W[z]), m.type # "open"
                PROVE  MessageFine(S, D, U, z, m)
    BY DEF MessagesFine
  <2>2. MessageFine(T, C, U, z, m)
    BY DEF Fine, MessagesFine
  <2>3. Other(z) \in Sides
    BY TwoSides
  <2>4. \A j \in Ids : /\ D[Other(z)][j].peer = C[Other(z)][j].peer
                       /\ D[Other(z)][j].out \in Unclosed => C[Other(z)][j].out \in Unclosed
    BY <2>3, <1>10
  <2>5. /\ At(T[z], m.to) # "none" => At(S[z], m.to) # "none"
        /\ \A k : At(T[Other(z)], k) # "none" => At(S[Other(z)], k) # "none"
        /\ Unanswered(T, C, U, z, m.to) => Unanswered(S, D, U, z, m.to)
    BY <2>1, <2>3, <1>16
  <2>. QED
    BY <2>2, <2>4, <2>5, MessageKept
<1>22. RequestsFine(D, A, W)
  BY <1>10, SessionsKept DEF Fine
<1>23. SessionsFine(D)
  <2>1. SessionsFine(C) /\ "client" \in Sides /\ "server" \in Sides
    BY DEF Fine, Sides
  <2>2. \A j \in Ids : D["server"][j].waiting = "none"
    BY <2>1, <1>10 DEF SessionsFine
  <2>3. ASSUME NEW j \in Ids, D["server"][j].kind = "session", ~D["server"][j].chan
        PROVE  D["server"][j].out = "open"
    <3>1. D["server"][j] = C["server"][j]
      <4>1. CASE x = "server"
        <5>1. j # i
          BY <2>3, <4>1, <1>6 DEF Own
        <5>. QED
          BY <4>1, <5>1, <1>6
      <4>2. CASE y = "server"
        BY <4>2, <1>6
      <4>. QED
        BY <4>1, <4>2, <2>1, <1>4
    <3>. QED
      BY <2>1, <2>3, <3>1 DEF SessionsFine
  <2>4. ASSUME NEW k \in Ids, D["client"][k].waiting # "none"
        PROVE  D["client"][k].kind = "session"
    <3>1. C["client"][k].waiting # "none" /\ C["client"][k].kind = "session"
      BY <2>1, <2>4, <1>10 DEF SessionsFine
    <3>2. C["client"][k] # Blank
      BY <3>1 DEF Blank
    <3>3. D["client"][k] = C["client"][k]
      BY <3>2, <2>1, <1>4, <1>6, <1>8
    <3>. QED
      BY <3>1, <3>3
  <2>. QED
    BY <2>2, <2>3, <2>4 DEF SessionsFine
<1>24. Fine(S, D, O, A, W, U)
  BY <1>13, <1>15, <1>18, <1>19, <1>20, <1>21, <1>22, <1>23 DEF Fine
<1>25. Unanswered(S, D, U, x, i)
  BY <1>3, <1>6, <1>9 DEF Unanswered
<1>26. Unknown(D, W, x, i)
  BY <1>6, <1>11 DEF Unknown, y
<1>27. /\ \A o \in O[y] : o.peer # i
       /\ \A m \in Range(W[y]) : m.type = "open" => m.arg # i
  <2>1. \A o \in O[y] : Unanswered(T, C, U, x, o.peer)
    BY DEF Fine, OffersFine, y
  <2>2. \A m \in Range(W[y]) : m.type = "open" => Unanswered(T, C, U, x, m.arg)
    BY DEF Fine, OpensFine, y
  <2>. QED
    BY <2>1, <2>2, <1>11
<1>. QED
  BY <1>3, <1>4, <1>7, <1>8, <1>14, <1>24, <1>25, <1>26, <1>27 DEF S, D, i, y, WithNew, WithEnd

\* accept(): the reserved id becomes the end of the id p.
Acceptable(T, C, O, W, U, x, i, p) ==
    /\ Unanswered(T, C, U, Other(x), p) /\ Unknown(C, W, Other(x), p)
    /\ \A o \in O[x] : o.peer # p /\ o.id # i
    /\ \A m \in Range(W[x]) : m.type = "open" => m.arg # p
    /\ C[x][i] = Blank /\ At(T[x], i) = "reserved"
    /\ \A k \in Ids : C[Other(x)][k].peer # i

AcceptedEnd(x, p, d) ==
    d.kind = Own(Other(x)) /\ d.peer = p /\ d.out = "open" /\ d.waiting = "none"

\* An accepted CHANNEL_OPEN: the reserved id becomes an end.
LEMMA Accepted ==
    ASSUME NEW T, NEW C, NEW O, NEW A, NEW W, NEW U, Fine(T, C, O, A, W, U),
           NEW x \in Sides, U[x], NEW i \in Ids, NEW p, Acceptable(T, C, O, W, U, x, i, p),
           NEW v \in Entries, v \in {"session", "channel"},
           NEW d \in Ends, AcceptedEnd(x, p, d)
    PROVE  /\ Fine(WithEntry(T, x, i, v), WithEnd(C, x, i, d), O, A, W, U)
           /\ Unanswered(WithEntry(T, x, i, v), WithEnd(C, x, i, d), U, Other(x), p)
<1>. USE DEF Acceptable, AcceptedEnd
<1>. DEFINE S == [T EXCEPT ![x] = Updated(@, i, v)]
            D == [C EXCEPT ![x][i] = d]
            y == Other(x)
<1>1. TableFine(T[x]) /\ At(T[x], i) # "none"
  BY DEF Fine, Typed
<1>2. /\ DOMAIN S = Sides /\ S[y] = T[y] /\ S[x] = Updated(T[x], i, v)
      /\ y \in Sides /\ y # x /\ (\A z \in Sides : z = x \/ z = y) /\ Other(y) = x
      /\ Own(y) # Own(x) /\ Own(x) # "none" /\ Own(y) # "none" /\ p \in Ids /\ p # -1
  <2>1. p \in Ids /\ p # -1
    BY DEF Unanswered, Ids
  <2>2. /\ y \in Sides /\ y # x /\ (\A z \in Sides : z = x \/ z = y) /\ Other(y) = x
        /\ Own(y) # Own(x) /\ Own(x) # "none" /\ Own(y) # "none"
    BY TwoSides
  <2>3. DOMAIN T = Sides
    BY DEF Fine, Typed
  <2>. QED
    BY <2>1, <2>2, <2>3
<1>3. /\ TableFine(S[x]) /\ S[x].cur = T[x].cur
      /\ \A j : At(S[x], j) = IF j = i THEN v ELSE At(T[x], j)
  BY <1>1, <1>2, UpdatedFacts
<1>4. C \in [Sides -> [Ids -> Ends]]
  BY DEF Fine, Typed
<1>5. /\ D \in [Sides -> [Ids -> Ends]] /\ D[y] = C[y] /\ D[x][i] = d
      /\ \A k \in Ids : k # i => D[x][k] = C[x][k]
  BY <1>2, <1>4
<1>6. /\ Blank.peer = -1 /\ Blank.kind = "none"
  BY DEF Blank
<1>. HIDE DEF S, D, y
<1>7. \A z \in Sides, k \in Ids : C[z][k].peer # -1 => D[z][k] = C[z][k]
  BY <1>2, <1>5, <1>6
<1>8. \A z \in Sides : /\ S[z].cur = T[z].cur
                       /\ \A k : At(T[z], k) # "none" => At(S[z], k) # "none"
  BY <1>2, <1>3
<1>9. Typed(S, D, O, A, W, U)
  BY <1>2, <1>3, <1>5 DEF Fine, Typed
<1>10. IdsFine(S, D, W, U)
  <2>1. Mine(D, x) = Mine(C, x) /\ Mine(D, y) = Mine(C, y)
    BY <1>2, <1>5, <1>6 DEF Mine, y
  <2>2. Opened(D) = Opened(C)
    BY <2>1, <1>2 DEF Opened, Sides
  <2>3. i <= T[x].cur
    BY <1>1, TableFacts
  <2>4. \A z \in Sides, k \in Ids : k > T[z].cur /\ C[z][k] = Blank /\ U[z] => D[z][k] = Blank
    <3>1. \A k \in Ids : k > T[x].cur => k # i
      BY <2>3, <1>1, TableFacts DEF Ids
    <3>. QED
      BY <3>1, <1>2, <1>5
  <2>. QED
    BY <2>2, <2>4, <1>8 DEF Fine, IdsFine
<1>11. \A z \in Sides : \A k : Unanswered(T, C, U, z, k) => Unanswered(S, D, U, z, k)
  <2>1. \A k : Unanswered(T, C, U, x, k) => Unanswered(S, D, U, x, k)
    BY <1>3, <1>5 DEF Unanswered
  <2>2. \A k : Unanswered(T, C, U, y, k) => Unanswered(S, D, U, y, k)
    BY <1>2, <1>5 DEF Unanswered
  <2>. QED
    BY <2>1, <2>2, <1>2
<1>12. /\ \A k : Unknown(C, W, x, k) => Unknown(D, W, x, k)
       /\ \A k : Unknown(C, W, y, k) /\ k # p => Unknown(D, W, y, k)
  BY <1>2, <1>5 DEF Unknown, y
<1>13. OpensFine(S, D, O, W, U)
  <2>1. OpensFine(T, C, O, W, U)
    BY DEF Fine
  <2>. QED
    BY <2>1, <1>2, <1>11, <1>12 DEF OpensFine, y
<1>14. OffersFine(S, D, O, W, U)
  <2>1. OffersFine(T, C, O, W, U)
    BY DEF Fine
  <2>2. ASSUME NEW o \in O[y]
        PROVE  /\ Unanswered(S, D, U, x, o.peer) /\ Unknown(D, W, x, o.peer)
               /\ \A q \in O[y] : q # o => q.peer # o.peer /\ q.id # o.id
               /\ D[y][o.id] = Blank /\ (U[y] => At(S[y], o.id) = "reserved")
               /\ \A k \in Ids : D[x][k].peer # o.id
    <3>1. /\ Unanswered(T, C, U, x, o.peer) /\ Unknown(C, W, x, o.peer)
          /\ \A q \in O[y] : q # o => q.peer # o.peer /\ q.id # o.id
          /\ C[y][o.id] = Blank /\ (U[y] => At(T[y], o.id) = "reserved")
          /\ \A k \in Ids : C[x][k].peer # o.id
      BY <2>1, <2>2 DEF OffersFine, y
    <3>2. o.id # p
      BY <3>1, <1>2, <1>6 DEF Unanswered, y
    <3>. QED
      BY <3>1, <3>2, <1>2, <1>5, <1>11, <1>12
  <2>3. ASSUME NEW o \in O[x]
        PROVE  /\ Unanswered(S, D, U, y, o.peer) /\ Unknown(D, W, y, o.peer)
               /\ \A q \in O[x] : q # o => q.peer # o.peer /\ q.id # o.id
               /\ D[x][o.id] = Blank /\ (U[x] => At(S[x], o.id) = "reserved")
               /\ \A k \in Ids : D[y][k].peer # o.id
    <3>1. /\ Unanswered(T, C, U, y, o.peer) /\ Unknown(C, W, y, o.peer)
          /\ \A q \in O[x] : q # o => q.peer # o.peer /\ q.id # o.id
          /\ C[x][o.id] = Blank /\ (U[x] => At(T[x], o.id) = "reserved")
          /\ \A k \in Ids : C[y][k].peer # o.id
      BY <2>1, <2>3, <1>2 DEF OffersFine
    <3>2. o.id # i /\ o.peer # p /\ o.id \in Ids
      BY DEF Fine, Typed
    <3>. QED
      BY <3>1, <3>2, <1>2, <1>3, <1>5, <1>11, <1>12
  <2>. QED
    BY <2>2, <2>3, <1>2 DEF OffersFine, y
<1>15. EndsFine(S, D, W, U)
  <2>1. EndsFine(T, C, W, U)
    BY DEF Fine
  <2>2. Tied(S, D, W, U, y, x, i, p)
    <3>1. \A k \in Ids : D[x][k].peer = p => k = i
      BY <1>2, <1>5 DEF Unknown, y
    <3>2. U[y] => At(T[y], p) = "opener" /\ p <= T[y].cur
      BY <1>2, TableFacts DEF Unanswered, y, Fine, Typed
    <3>3. D[y][p].kind = D[x][i].kind /\ D[y][p].peer = -1
      BY <1>5 DEF Unanswered, y
    <3>4. \A m \in Range(W[y]) : m.type # "open" => m.to # p
      BY DEF Unknown, y
    <3>. QED
      BY <3>1, <3>2, <3>3, <3>4, <1>2 DEF Tied
  <2>3. ASSUME NEW j \in Ids, j # i, C[x][j].peer # -1
        PROVE  Tied(S, D, W, U, y, x, j, C[x][j].peer)
    <3>. DEFINE k == C[x][j].peer
    <3>1. Tied(T, C, W, U, y, x, j, k)
      BY <2>1, <2>3 DEF EndsFine, y
    <3>2. k # p /\ D[x][j] = C[x][j]
      BY <2>3, <1>2, <1>5 DEF Unknown, y
    <3>. HIDE DEF k
    <3>3. Tied(S, D, W, U, y, x, j, k)
      BY <3>1, <3>2, <1>2, <1>5 DEF Tied
    <3>. QED
      BY <3>3 DEF k
  <2>4. ASSUME NEW j \in Ids, C[y][j].peer # -1
        PROVE  Tied(S, D, W, U, x, y, j, C[y][j].peer)
    <3>. DEFINE k == C[y][j].peer
    <3>1. Tied(T, C, W, U, x, y, j, k)
      BY <2>1, <2>4, <1>2 DEF EndsFine
    <3>2. k # i /\ k \in Ids
      BY <2>4, <1>2, <1>4 DEF Ends, y
    <3>. HIDE DEF k
    <3>3. Tied(S, D, W, U, x, y, j, k)
      BY <3>1, <3>2, <1>3, <1>5 DEF Tied
    <3>. QED
      BY <3>3 DEF k
  <2>5. \A j \in Ids : /\ D[x][j].peer = -1 => Loose(D[x][j])
                       /\ D[x][j].peer # -1 => Tied(S, D, W, U, Other(x), x, j, D[x][j].peer)
    BY <2>1, <2>2, <2>3, <1>2, <1>5 DEF EndsFine, y
  <2>6. \A j \in Ids : /\ D[y][j].peer = -1 => Loose(D[y][j])
                       /\ D[y][j].peer # -1 => Tied(S, D, W, U, Other(y), y, j, D[y][j].peer)
    BY <2>1, <2>4, <1>2, <1>5 DEF EndsFine
  <2>. QED
    BY <2>5, <2>6, <1>2 DEF EndsFine
<1>16. MessagesFine(S, D, W, U)
  <2>1. ASSUME NEW m \in Range(W[x]), m.type # "open"
        PROVE  MessageFine(S, D, U, x, m)
    <3>1. MessageFine(T, C, U, x, m)
      BY <2>1 DEF Fine, MessagesFine
    <3>. QED
      BY <3>1, <1>2, <1>5, <1>8, <1>11 DEF MessageFine, y
  <2>2. ASSUME NEW m \in Range(W[y]), m.type # "open"
        PROVE  MessageFine(S, D, U, y, m)
    <3>1. MessageFine(T, C, U, y, m)
      BY <2>2, <1>2 DEF Fine, MessagesFine
    <3>2. m.to # p /\ m.to \in Ids /\ m.to # -1
      BY <2>2, <3>1 DEF Unknown, MessageFine, y, Ids
    <3>3. \A j \in Ids : D[x][j].peer = m.to <=> C[x][j].peer = m.to
      BY <3>2, <1>5, <1>6
    <3>4. \A j \in Ids : C[x][j].peer = m.to => D[x][j] = C[x][j]
      BY <3>2, <1>5, <1>6
    <3>. QED
      BY <3>1, <3>3, <3>4, <1>2, <1>8, <1>11 DEF MessageFine
  <2>. QED
    BY <2>1, <2>2, <1>2 DEF MessagesFine
<1>17. RequestsFine(D, A, W)
  BY <1>7, SessionsKept DEF Fine
<1>18. SessionsFine(D)
  <2>1. SessionsFine(C)
    BY DEF Fine
  <2>2. \A z \in Sides, k \in Ids : D[z][k] = C[z][k] \/ D[z][k] = d
    BY <1>2, <1>5
  <2>3. "client" \in Sides /\ "server" \in Sides
    BY DEF Sides
  <2>. QED
    BY <2>1, <2>2, <2>3 DEF SessionsFine
<1>19. Fine(S, D, O, A, W, U)
  BY <1>9, <1>10, <1>13, <1>14, <1>15, <1>16, <1>17, <1>18 DEF Fine
<1>20. Unanswered(S, D, U, y, p)
  BY <1>2, <1>11 DEF y
<1>. QED
  BY <1>20, <1>19 DEF S, D, y, WithEntry, WithEnd

\* CHANNEL_OPEN_CONFIRMATION: the opener i learns its peer j, which nothing has
\* been sent to.
Confirmable(T, C, W, U, x, i, j) ==
    /\ Unanswered(T, C, U, x, i) /\ C[Other(x)][j].peer = i
    /\ U[Other(x)] => At(T[Other(x)], j) # "none"
    /\ \A m \in Range(W[x]) : m.type # "open" /\ m.to = i => ~First(m)

ConfirmedEnd(x, c, j, d) ==
    d.kind = c.kind /\ d.peer = j /\ d.out = "open" /\ (x = "server" => d.waiting = "none")

Untouched(O, A, W, x, i, j) ==
    /\ \A m \in Range(W[Other(x)]) : m.type # "open" => m.to # j
    /\ \A m \in Range(W[x]) : m.type = "open" => m.arg # j
    /\ \A o \in O[x] : o.peer # j
    /\ x = "client" => NoAnswer(W, i) /\ \A a \in A : a.id # j

\* A confirmed open: the opener's end learns of its peer.
LEMMA Confirmed ==
    ASSUME NEW T, NEW C, NEW O, NEW A, NEW W, NEW U, Fine(T, C, O, A, W, U),
           NEW x \in Sides, U[x], NEW i \in Ids, NEW j \in Ids,
           Confirmable(T, C, W, U, x, i, j), NEW d \in Ends, ConfirmedEnd(x, C[x][i], j, d)
    PROVE  /\ Fine(WithEntry(T, x, i, "channel"), WithEnd(C, x, i, d), O, A, W, U)
           /\ C[Other(x)][j].kind = Own(x)
           /\ Untouched(O, A, W, x, i, j)
<1>. USE DEF Confirmable, ConfirmedEnd
<1>. DEFINE S == [T EXCEPT ![x] = Updated(@, i, "channel")]
            D == [C EXCEPT ![x][i] = d]
            y == Other(x)
<1>1. TableFine(T[x]) /\ At(T[x], i) = "opener" /\ At(T[x], i) # "none"
  BY DEF Fine, Typed, Unanswered
<1>2. /\ S[y] = T[y] /\ S[x] = Updated(T[x], i, "channel") /\ DOMAIN S = Sides
      /\ y \in Sides /\ y # x /\ (\A z \in Sides : z = x \/ z = y) /\ Other(y) = x
      /\ Own(y) # Own(x) /\ Own(x) # "none" /\ Own(y) # "none"
  <2>1. /\ y \in Sides /\ y # x /\ (\A z \in Sides : z = x \/ z = y) /\ Other(y) = x
        /\ Own(y) # Own(x) /\ Own(x) # "none" /\ Own(y) # "none"
    BY TwoSides
  <2>2. DOMAIN T = Sides
    BY DEF Fine, Typed
  <2>. QED
    BY <2>1, <2>2
<1>3. /\ TableFine(S[x]) /\ S[x].cur = T[x].cur
      /\ \A k : At(S[x], k) = IF k = i THEN "channel" ELSE At(T[x], k)
  BY <1>1, <1>2, UpdatedFacts DEF Entries
<1>4. C \in [Sides -> [Ids -> Ends]] /\ C[x][i].peer = -1 /\ C[x][i].kind = Own(x) /\ -1 \notin Ids
  BY DEF Fine, Typed, Unanswered, Ids
<1>5. /\ D \in [Sides -> [Ids -> Ends]] /\ D[y] = C[y] /\ D[x][i] = d
      /\ \A k \in Ids : k # i => D[x][k] = C[x][k]
  BY <1>2, <1>4
<1>. HIDE DEF S, D
<1>6. EndsFine(T, C, W, U) /\ C[y][j].peer = i /\ i # -1 /\ j # -1
  BY <1>4 DEF Fine
<1>7. /\ Tied(T, C, W, U, x, y, j, i) /\ C[y][j].kind = Own(x)
      /\ \A k \in Ids : C[y][k].peer = i => k = j
  BY <1>2, <1>4, <1>6 DEF EndsFine, Tied
<1>8. \A k \in Ids : C[x][k].peer # j
  <2>. SUFFICES ASSUME NEW k \in Ids, C[x][k].peer = j
                PROVE  FALSE
    OBVIOUS
  <2>1. Tied(T, C, W, U, y, x, k, j)
    BY <1>6 DEF EndsFine
  <2>2. k = i
    BY <2>1, <1>6, <1>4 DEF Tied
  <2>. QED
    BY <2>2, <1>4, <1>6
<1>9. \A k : Unanswered(T, C, U, y, k) => k # j
  BY <1>6 DEF Unanswered
<1>10. ASSUME NEW m \in Range(W[y]), m.type # "open"
       PROVE  m.to # j
  <2>1. MessageFine(T, C, U, y, m)
    BY <1>2, <1>10 DEF Fine, MessagesFine
  <2>2. m.type = "openfail" => m.to # j
    BY <2>1, <1>9 DEF MessageFine
  <2>3. m.type # "openfail" => m.to # j
    BY <2>1, <1>2, <1>8 DEF MessageFine
  <2>. QED
    BY <2>2, <2>3
<1>11. ASSUME NEW m \in Range(W[x]), m.type = "open"
       PROVE  Unanswered(T, C, U, y, m.arg) /\ Unknown(C, W, y, m.arg) /\ m.arg # j
  BY <1>11, <1>2, <1>9 DEF Fine, OpensFine
<1>12. ASSUME NEW o \in O[x]
       PROVE  /\ Unanswered(T, C, U, y, o.peer) /\ Unknown(C, W, y, o.peer) /\ o.peer # j
              /\ At(T[x], o.id) = "reserved" /\ o.id # i /\ o.id \in Ids
  <2>1. Unanswered(T, C, U, y, o.peer) /\ Unknown(C, W, y, o.peer) /\ At(T[x], o.id) = "reserved"
    BY <1>2 DEF Fine, OffersFine
  <2>. QED
    BY <2>1, <1>1, <1>9 DEF Fine, Typed
<1>13. \A k : Unknown(C, W, x, k) => k # i
  BY <1>6 DEF Unknown, y
<1>. HIDE DEF y
<1>14. \A z \in Sides, k \in Ids : C[z][k].peer # -1 => D[z][k] = C[z][k]
  BY <1>2, <1>4, <1>5
<1>15. \A z \in Sides : /\ S[z].cur = T[z].cur
                        /\ \A k : At(T[z], k) # "none" => At(S[z], k) # "none"
  BY <1>2, <1>3
<1>16. Typed(S, D, O, A, W, U)
  BY <1>2, <1>3, <1>5 DEF Fine, Typed
<1>17. IdsFine(S, D, W, U)
  <2>1. \A z \in Sides, k \in Ids : D[z][k].kind = C[z][k].kind
    BY <1>2, <1>5
  <2>2. \A z \in Sides : Mine(D, z) = Mine(C, z)
    BY <2>1 DEF Mine
  <2>3. Opened(D) = Opened(C)
    BY <2>2 DEF Opened, Sides
  <2>4. \A z \in Sides, k \in Ids : C[z][k] = Blank => D[z][k] = Blank
    <3>1. C[x][i] # Blank
      BY <1>2, <1>4 DEF Blank
    <3>. QED
      BY <3>1, <1>2, <1>5
  <2>. QED
    BY <2>3, <2>4, <1>15 DEF Fine, IdsFine
<1>18. /\ \A k : k # i /\ Unanswered(T, C, U, x, k) => Unanswered(S, D, U, x, k)
       /\ \A k : Unanswered(T, C, U, y, k) => Unanswered(S, D, U, y, k)
  BY <1>2, <1>3, <1>5 DEF Unanswered
<1>19. /\ \A k : Unknown(C, W, x, k) => Unknown(D, W, x, k)
       /\ \A k : Unknown(C, W, y, k) /\ k # j => Unknown(D, W, y, k)
  BY <1>2, <1>5 DEF Unknown, y
<1>20. OpensFine(S, D, O, W, U)
  <2>1. OpensFine(T, C, O, W, U)
    BY DEF Fine
  <2>2. ASSUME NEW m \in Range(W[y]), m.type = "open"
        PROVE  /\ Unanswered(S, D, U, x, m.arg) /\ Unknown(D, W, x, m.arg)
               /\ \A o \in O[y] : o.peer # m.arg
    <3>1. /\ Unanswered(T, C, U, x, m.arg) /\ Unknown(C, W, x, m.arg)
          /\ \A o \in O[y] : o.peer # m.arg
      BY <2>1, <2>2 DEF OpensFine, y
    <3>. QED
      BY <3>1, <1>13, <1>18, <1>19
  <2>3. ASSUME NEW m \in Range(W[x]), m.type = "open"
        PROVE  /\ Unanswered(S, D, U, y, m.arg) /\ Unknown(D, W, y, m.arg)
               /\ \A o \in O[x] : o.peer # m.arg
    <3>1. \A o \in O[x] : o.peer # m.arg
      BY <2>1, <2>3, <1>2 DEF OpensFine
    <3>. QED
      BY <3>1, <2>3, <1>11, <1>18, <1>19
  <2>. QED
    BY <2>2, <2>3, <1>2 DEF OpensFine, y
<1>21. OffersFine(S, D, O, W, U)
  <2>1. OffersFine(T, C, O, W, U)
    BY DEF Fine
  <2>2. ASSUME NEW o \in O[y]
        PROVE  /\ Unanswered(S, D, U, x, o.peer) /\ Unknown(D, W, x, o.peer)
               /\ \A q \in O[y] : q # o => q.peer # o.peer /\ q.id # o.id
               /\ D[y][o.id] = Blank /\ (U[y] => At(S[y], o.id) = "reserved")
               /\ \A k \in Ids : D[x][k].peer # o.id
    <3>1. /\ Unanswered(T, C, U, x, o.peer) /\ Unknown(C, W, x, o.peer)
          /\ \A q \in O[y] : q # o => q.peer # o.peer /\ q.id # o.id
          /\ C[y][o.id] = Blank /\ (U[y] => At(T[y], o.id) = "reserved")
          /\ \A k \in Ids : C[x][k].peer # o.id
      BY <2>1, <2>2 DEF OffersFine, y
    <3>2. o.id # j
      BY <3>1, <1>6 DEF Blank
    <3>. QED
      BY <3>1, <3>2, <1>2, <1>5, <1>13, <1>18, <1>19
  <2>3. ASSUME NEW o \in O[x]
        PROVE  /\ Unanswered(S, D, U, y, o.peer) /\ Unknown(D, W, y, o.peer)
               /\ \A q \in O[x] : q # o => q.peer # o.peer /\ q.id # o.id
               /\ D[x][o.id] = Blank /\ (U[x] => At(S[x], o.id) = "reserved")
               /\ \A k \in Ids : D[y][k].peer # o.id
    <3>1. /\ \A q \in O[x] : q # o => q.peer # o.peer /\ q.id # o.id
          /\ C[x][o.id] = Blank
          /\ \A k \in Ids : C[y][k].peer # o.id
      BY <2>1, <2>3, <1>2 DEF OffersFine
    <3>. QED
      BY <3>1, <1>2, <1>3, <1>5, <1>12, <1>18, <1>19
  <2>. QED
    BY <2>2, <2>3, <1>2 DEF OffersFine, y
<1>22. EndsFine(S, D, W, U)
  <2>2. Tied(S, D, W, U, y, x, i, j)
    <3>1. \A k \in Ids : D[x][k].peer = j => k = i
      BY <1>5, <1>8
    <3>2. U[y] => At(T[y], j) # "none" /\ j <= T[y].cur
      BY <1>2, TableFacts DEF y, Fine, Typed
    <3>3. D[y][j].kind = D[x][i].kind /\ D[y][j].peer = i
      BY <1>4, <1>5, <1>6, <1>7
    <3>. QED
      BY <3>1, <3>2, <3>3, <1>2, <1>10 DEF Tied
  <2>3. ASSUME NEW l \in Ids, l # i, C[x][l].peer # -1
        PROVE  Tied(S, D, W, U, y, x, l, C[x][l].peer)
    <3>. DEFINE k == C[x][l].peer
    <3>1. Tied(T, C, W, U, y, x, l, k)
      BY <1>6, <2>3 DEF EndsFine, y
    <3>2. k # j /\ D[x][l] = C[x][l]
      BY <2>3, <1>5, <1>8
    <3>. HIDE DEF k
    <3>3. Tied(S, D, W, U, y, x, l, k)
      BY <3>1, <3>2, <1>2, <1>5 DEF Tied
    <3>. QED
      BY <3>3 DEF k
  <2>4. ASSUME NEW l \in Ids, C[y][l].peer # -1
        PROVE  Tied(S, D, W, U, x, y, l, C[y][l].peer)
    <3>. DEFINE k == C[y][l].peer
    <3>1. Tied(T, C, W, U, x, y, l, k)
      BY <1>6, <2>4, <1>2 DEF EndsFine
    <3>2. k \in Ids /\ (k = i => l = j)
      BY <2>4, <1>2, <1>4, <1>7 DEF Ends
    <3>3. D[x][k].kind = C[x][k].kind /\ D[x][k].peer \in {l, -1}
      BY <3>1, <3>2, <1>5 DEF Tied
    <3>4. At(T[x], k) # "none" => At(S[x], k) # "none"
      BY <1>15
    <3>. HIDE DEF k
    <3>5. Tied(S, D, W, U, x, y, l, k)
      BY <3>1, <3>3, <3>4, <1>3, <1>5 DEF Tied
    <3>. QED
      BY <3>5 DEF k
  <2>5. \A l \in Ids : /\ D[x][l].peer = -1 => Loose(D[x][l])
                       /\ D[x][l].peer # -1 => Tied(S, D, W, U, Other(x), x, l, D[x][l].peer)
    BY <1>6, <2>2, <2>3, <1>2, <1>5 DEF EndsFine, y
  <2>6. \A l \in Ids : /\ D[y][l].peer = -1 => Loose(D[y][l])
                       /\ D[y][l].peer # -1 => Tied(S, D, W, U, Other(y), y, l, D[y][l].peer)
    BY <1>6, <2>4, <1>2, <1>5 DEF EndsFine
  <2>. QED
    BY <2>5, <2>6, <1>2 DEF EndsFine
<1>23. MessagesFine(S, D, W, U)
  <2>1. ASSUME NEW m \in Range(W[x]), m.type # "open"
        PROVE  MessageFine(S, D, U, x, m)
    <3>1. MessageFine(T, C, U, x, m)
      BY <2>1 DEF Fine, MessagesFine
    <3>2. m.type \in {"openfail", "confirm"} => m.to # i
      BY <2>1 DEF First
    <3>3. At(S[x], m.to) # "none"
      BY <3>1, <1>15 DEF MessageFine
    <3>. QED
      BY <3>1, <3>2, <3>3, <1>2, <1>5, <1>18 DEF MessageFine, y
  <2>2. ASSUME NEW m \in Range(W[y]), m.type # "open"
        PROVE  MessageFine(S, D, U, y, m)
    <3>1. MessageFine(T, C, U, y, m)
      BY <2>2, <1>2 DEF Fine, MessagesFine
    <3>2. m.to # j /\ m.to \in Ids /\ m.to # -1
      BY <2>2, <3>1, <1>10 DEF MessageFine, Ids
    <3>3. \A k \in Ids : D[x][k].peer = m.to <=> C[x][k].peer = m.to
      BY <3>2, <1>4, <1>5
    <3>4. \A k \in Ids : C[x][k].peer = m.to => D[x][k] = C[x][k]
      BY <3>2, <1>4, <1>5
    <3>. QED
      BY <3>1, <3>3, <3>4, <1>2, <1>15, <1>18 DEF MessageFine
  <2>. QED
    BY <2>1, <2>2, <1>2 DEF MessagesFine
<1>24. RequestsFine(D, A, W)
  BY <1>14, SessionsKept DEF Fine
<1>25. SessionsFine(D)
  <2>1. SessionsFine(C) /\ "client" \in Sides /\ "server" \in Sides
    BY DEF Fine, Sides
  <2>2. CASE x = "client"
    <3>1. D["server"] = C["server"] /\ d.kind = "session"
      BY <2>1, <2>2, <1>2, <1>4, <1>5 DEF Own
    <3>2. \A k \in Ids : D["client"][k] = C["client"][k] \/ D["client"][k] = d
      BY <2>2, <1>5
    <3>. QED
      BY <2>1, <3>1, <3>2 DEF SessionsFine
  <2>3. CASE x = "server"
    <3>1. D["client"] = C["client"] /\ d.kind = "forward" /\ d.waiting = "none"
      BY <2>1, <2>3, <1>2, <1>4, <1>5 DEF Own
    <3>2. \A k \in Ids : D["server"][k] = C["server"][k] \/ D["server"][k] = d
      BY <2>3, <1>5
    <3>. QED
      BY <2>1, <3>1, <3>2 DEF SessionsFine
  <2>. QED
    BY <2>2, <2>3 DEF Sides
<1>26. Fine(S, D, O, A, W, U)
  BY <1>16, <1>17, <1>20, <1>21, <1>22, <1>23, <1>24, <1>25 DEF Fine
<1>27. ASSUME x = "client"
       PROVE  NoAnswer(W, i) /\ \A a \in A : a.id # j
  <2>1. RequestsFine(C, A, W)
    BY DEF Fine
  <2>2. y = "server"
    BY <1>27 DEF y, Other
  <2>3. \A k : ~Session(C, i, k)
    BY <1>27, <1>4 DEF Session
  <2>4. NoAnswer(W, i)
    BY <2>1, <2>3 DEF RequestsFine, NoAnswer
  <2>5. \A a \in A : a.id # j
    BY <2>1, <2>2, <2>3, <1>6 DEF RequestsFine
  <2>. QED
    BY <2>4, <2>5
<1>. QED
  BY <1>7, <1>10, <1>11, <1>12, <1>26, <1>27 DEF S, D, y, WithEntry, WithEnd, Untouched

-----------------------------------------------------------------------------
(* Reading and sending.                                                    *)

Read(W, x) == [W EXCEPT ![x] = Tail(@)]
Put(W, U, x, m) == IF U[x] THEN [W EXCEPT ![x] = Append(@, m)] ELSE W

\* The first message on the way to x, and what is left behind it.
LEMMA Reads ==
    ASSUME NEW T, NEW C, NEW O, NEW A, NEW W, NEW U, Fine(T, C, O, A, W, U),
           NEW x \in Sides, W[x] # <<>>
    PROVE  LET m == Head(W[x])
               V == Read(W, x)
           IN  /\ m \in Messages /\ m \in Range(W[x])
               /\ Fine(T, C, O, A, V, U)
               /\ \A e \in Range(V[x]) : Follows(m, e)
               /\ V[x] = Tail(W[x]) /\ V[Other(x)] = W[Other(x)]
               /\ m.type # "open" => MessageFine(T, C, U, x, m)
               /\ V \in [Sides -> Seq(Messages)]
<1>. DEFINE m == Head(W[x])
            V == Read(W, x)
            y == Other(x)
<1>1. /\ W \in [Sides -> Seq(Messages)] /\ Ordered(W[x]) /\ Ordered(W[y])
      /\ (~U[y] => W[y] = <<>>) /\ U[x] /\ y \in Sides /\ y # x
      /\ \A z \in Sides : z = x \/ z = y
  BY TwoSides DEF Fine, Typed, WireFine
<1>2. /\ m \in Range(W[x]) /\ m \in Messages /\ Tail(W[x]) \in Seq(Messages)
      /\ Ordered(Tail(W[x])) /\ Range(Tail(W[x])) \subseteq Range(W[x])
      /\ \A e \in Range(Tail(W[x])) : Follows(m, e)
  BY <1>1, TailFacts
<1>3. V \in [Sides -> Seq(Messages)] /\ V[x] = Tail(W[x]) /\ V[y] = W[y]
  BY <1>1, <1>2 DEF Read
<1>. HIDE DEF V
<1>4. \A z \in Sides : /\ Range(V[z]) \subseteq Range(W[z]) /\ Ordered(V[z])
                       /\ ~U[z] => V[z] = <<>>
  BY <1>1, <1>2, <1>3
<1>5. Fine(T, C, O, A, V, U)
  BY <1>3, <1>4, Fewer
<1>6. m.type # "open" => MessageFine(T, C, U, x, m)
  BY <1>2 DEF Fine, MessagesFine
<1>. QED
  BY <1>2, <1>3, <1>5, <1>6 DEF V

Sendable(T, C, O, A, W, U, x, m) ==
    /\ m \in Messages /\ \A e \in Range(W[x]) : Follows(e, m)
    /\ m.type = "open" => SendsOpen(T, C, O, W, U, x, m)
    /\ m.type # "open" => SendsToId(T, C, O, W, U, x, m)
    /\ Directed(x, m)
    /\ x = "server" /\ m.type = "request" => SendsRequest(C, A, W, m)
    /\ x = "client" /\ Answering(m) => SendsAnswer(C, A, W, m)

\* A message to a side whose socket is closed is dropped, another is sent.
LEMMA Puts ==
    ASSUME NEW T, NEW C, NEW O, NEW A, NEW W, NEW U, Fine(T, C, O, A, W, U),
           NEW x \in Sides, NEW m, U[x] => Sendable(T, C, O, A, W, U, x, m)
    PROVE  Fine(T, C, O, A, Put(W, U, x, m), U)
<1>1. CASE U[x]
  <2>1. Sendable(T, C, O, A, W, U, x, m)
    BY <1>1
  <2>2. Fine(T, C, O, A, [W EXCEPT ![x] = Append(@, m)], U)
    BY <1>1, <2>1, Sent DEF Sendable
  <2>. QED
    BY <2>2, <1>1 DEF Put
<1>2. CASE ~U[x]
  BY <1>2 DEF Put
<1>. QED
  BY <1>1, <1>2

\* A message of the end j of y to its peer i.
LEMMA EndSends ==
    ASSUME NEW T, NEW C, NEW O, NEW A, NEW W, NEW U, Fine(T, C, O, A, W, U),
           NEW x \in Sides, U[x], NEW j \in Ids, NEW m \in Messages,
           C[Other(x)][j].peer = m.to, m.to # -1, At(T[x], m.to) # "none",
           m.type \notin {"open", "openfail", "confirm"},
           m.type = "close" => C[Other(x)][j].out \notin Unclosed,
           \A e \in Range(W[x]) : e.type # "open" /\ e.to = m.to => ~Last(e) /\ ~(Token(e) /\ Token(m)),
           Directed(x, m),
           x = "server" /\ m.type = "request" => SendsRequest(C, A, W, m),
           x = "client" /\ Answering(m) => SendsAnswer(C, A, W, m)
    PROVE  Sendable(T, C, O, A, W, U, x, m)
<1>. DEFINE y == Other(x)
<1>1. y \in Sides /\ Other(y) = x
  BY TwoSides
<1>2. m.to \in Ids
  BY <1>1 DEF Fine, Typed, Ends
<1>3. \A k \in Ids : C[y][k].peer = m.to => k = j
  BY <1>1 DEF Fine, EndsFine, Tied
<1>4. MessageFine(T, C, U, x, m)
  BY <1>2, <1>3 DEF MessageFine
<1>5. \A n \in Range(W[y]) : n.type = "open" => n.arg # m.to
  BY DEF Fine, OpensFine, Unknown
<1>6. \A o \in O[y] : o.peer # m.to
  BY DEF Fine, OffersFine, Unknown
<1>7. \A e \in Range(W[x]) : Follows(e, m)
  BY DEF Follows, First
<1>. QED
  BY <1>4, <1>5, <1>6, <1>7 DEF Sendable, SendsToId

\* The definitions of the model, in these terms.
LEMMA Sending ==
    ASSUME wire \in [Sides -> Seq(Messages)], NEW x \in Sides
    PROVE  /\ \A m \in Messages : Send(x, <<m>>) => wire' = Put(wire, up, Other(x), m)
           /\ \A m, n \in Messages : Send(x, <<m>> \o <<n>>) =>
                 wire' = Put(Put(wire, up, Other(x), m), up, Other(x), n)
           /\ \A m \in Messages : Send(x, <<m>> \o <<>>) => wire' = Put(wire, up, Other(x), m)
<1>. DEFINE y == Other(x)
<1>1. y \in Sides /\ wire[y] \in Seq(Messages)
  BY TwoSides
<1>2. \A m, n \in Messages : /\ wire[y] \o <<m>> = Append(wire[y], m)
                             /\ wire[y] \o (<<m>> \o <<>>) = Append(wire[y], m)
                             /\ wire[y] \o (<<m>> \o <<n>>) = Append(Append(wire[y], m), n)
  BY <1>1, ConcatFacts
<1>3. ASSUME NEW s, Send(x, s)
      PROVE  wire' = IF up[y] THEN [wire EXCEPT ![y] = wire[y] \o s] ELSE wire
  <2>1. wire' = [wire EXCEPT ![y] = IF up[y] THEN wire[y] \o s ELSE wire[y]]
    BY <1>3 DEF Send
  <2>. QED
    BY <2>1, <1>1
<1>4. \A a, b : [[wire EXCEPT ![y] = a] EXCEPT ![y] = b] = [wire EXCEPT ![y] = b]
  OBVIOUS
<1>5. \A a : [wire EXCEPT ![y] = a][y] = a
  BY <1>1
<1>6. ASSUME NEW m \in Messages, NEW n \in Messages
      PROVE  /\ Send(x, <<m>>) => wire' = Put(wire, up, y, m)
             /\ Send(x, <<m>> \o <<>>) => wire' = Put(wire, up, y, m)
             /\ Send(x, <<m>> \o <<n>>) => wire' = Put(Put(wire, up, y, m), up, y, n)
  <2>1. Put(wire, up, y, m) = IF up[y] THEN [wire EXCEPT ![y] = Append(wire[y], m)] ELSE wire
    BY DEF Put
  <2>2. Put(Put(wire, up, y, m), up, y, n) =
          IF up[y] THEN [wire EXCEPT ![y] = Append(Append(wire[y], m), n)] ELSE wire
    BY <2>1, <1>4, <1>5 DEF Put
  <2>3. ASSUME Send(x, <<m>>)
        PROVE  wire' = Put(wire, up, y, m)
    <3>1. wire' = IF up[y] THEN [wire EXCEPT ![y] = wire[y] \o <<m>>] ELSE wire
      BY <1>3, <2>3
    <3>. QED
      BY <3>1, <2>1, <1>2
  <2>4. ASSUME Send(x, <<m>> \o <<>>)
        PROVE  wire' = Put(wire, up, y, m)
    <3>1. wire' = IF up[y] THEN [wire EXCEPT ![y] = wire[y] \o (<<m>> \o <<>>)] ELSE wire
      BY <1>3, <2>4
    <3>. QED
      BY <3>1, <2>1, <1>2
  <2>5. ASSUME Send(x, <<m>> \o <<n>>)
        PROVE  wire' = Put(Put(wire, up, y, m), up, y, n)
    <3>1. wire' = IF up[y] THEN [wire EXCEPT ![y] = wire[y] \o (<<m>> \o <<n>>)] ELSE wire
      BY <1>3, <2>5
    <3>. QED
      BY <3>1, <2>2, <1>2
  <2>. QED
    BY <2>3, <2>4, <2>5
<1>. QED
  BY <1>6

\* The same for what a message handler sends.
LEMMA Replying ==
    ASSUME wire \in [Sides -> Seq(Messages)], NEW x \in Sides, wire[x] # <<>>
    PROVE  /\ Reply(x, <<>>) => wire' = Read(wire, x)
           /\ \A m \in Messages : Reply(x, <<m>>) => wire' = Put(Read(wire, x), up, Other(x), m)
<1>. DEFINE y == Other(x)
<1>1. y \in Sides /\ y # x /\ wire[y] \in Seq(Messages)
  BY TwoSides
<1>2. wire[y] \o <<>> = wire[y] /\ \A m \in Messages : wire[y] \o <<m>> = Append(wire[y], m)
  BY <1>1, ConcatFacts
<1>3. ASSUME NEW s, Reply(x, s)
      PROVE  wire' = [Read(wire, x) EXCEPT ![y] = IF up[y] THEN wire[y] \o s ELSE wire[y]]
  BY <1>1, <1>3 DEF Reply, Read
<1>4. Read(wire, x)[y] = wire[y] /\ [Read(wire, x) EXCEPT ![y] = wire[y]] = Read(wire, x)
  BY <1>1 DEF Read
<1>5. Reply(x, <<>>) => wire' = Read(wire, x)
  BY <1>2, <1>3, <1>4
<1>6. ASSUME NEW m \in Messages, Reply(x, <<m>>)
      PROVE  wire' = Put(Read(wire, x), up, y, m)
  <2>1. wire' = [Read(wire, x) EXCEPT ![y] = IF up[y] THEN wire[y] \o <<m>> ELSE wire[y]]
    BY <1>3, <1>6
  <2>2. Put(Read(wire, x), up, y, m) =
          IF up[y] THEN [Read(wire, x) EXCEPT ![y] = Append(wire[y], m)] ELSE Read(wire, x)
    BY <1>4 DEF Put
  <2>. QED
    BY <2>1, <2>2, <1>2, <1>4, <1>6
<1>. QED
  BY <1>5, <1>6

-----------------------------------------------------------------------------
(* The callbacks when one id of one side changes.                          *)

OnlyAt(T, C, R, S, D, Q, x, i) ==
    \A z \in Sides, k \in Ids :
        \/ z = x /\ k = i
        \/ /\ At(S[z], k) = At(T[z], k) /\ D[z][k] = C[z][k] /\ Q[z][k] = R[z][k]
           /\ k > S[z].cur => k > T[z].cur

\* The callbacks of all ids, when those of one id are fine.
LEMMA CallbacksKept ==
    ASSUME NEW T, NEW C, NEW R, NEW U, CallbacksFine(T, C, R, U),
           NEW S, NEW D, NEW Q \in [Sides -> [Ids -> Seq({"ok", "err"})]],
           NEW x \in Sides, NEW i \in Ids, OnlyAt(T, C, R, S, D, Q, x, i),
           CallbackFine(At(S[x], i), D[x][i], Q[x][i], U[x], i > S[x].cur)
    PROVE  CallbacksFine(S, D, Q, U)
<1>. SUFFICES ASSUME NEW z \in Sides, NEW k \in Ids, ~(z = x /\ k = i)
              PROVE  CallbackFine(At(S[z], k), D[z][k], Q[z][k], U[z], k > S[z].cur)
  BY DEF CallbacksFine
<1>1. CallbackFine(At(T[z], k), C[z][k], R[z][k], U[z], k > T[z].cur)
  BY DEF CallbacksFine
<1>2. /\ At(S[z], k) = At(T[z], k) /\ D[z][k] = C[z][k] /\ Q[z][k] = R[z][k]
      /\ k > S[z].cur => k > T[z].cur
  BY DEF OnlyAt
<1>. QED
  BY <1>1, <1>2 DEF CallbackFine

\* What the changes of a step leave alone.
OneEnd(C, D, x, i, d) ==
    /\ D \in [Sides -> [Ids -> Ends]] /\ D[x][i] = d
    /\ \A z \in Sides, k \in Ids : (z = x /\ k = i) \/ D[z][k] = C[z][k]
    /\ \A z \in Sides : z # x => D[z] = C[z]

OneEntry(T, S, x, i, v) ==
    \A z \in Sides : /\ S[z].cur = T[z].cur
                     /\ \A k : At(S[z], k) = IF z = x /\ k = i THEN v ELSE At(T[z], k)

\* WithEnd() changes one end.
LEMMA EndFacts ==
    ASSUME NEW C \in [Sides -> [Ids -> Ends]], NEW x \in Sides, NEW i \in Ids, NEW d \in Ends
    PROVE  OneEnd(C, WithEnd(C, x, i, d), x, i, d)
BY DEF WithEnd, OneEnd

\* Without() and WithEntry() change one entry.
LEMMA EntryFacts ==
    ASSUME NEW T, DOMAIN T = Sides, NEW x \in Sides, TableFine(T[x]),
           NEW i, At(T[x], i) # "none", NEW v \in Entries
    PROVE  /\ OneEntry(T, Without(T, x, i), x, i, "none")
           /\ OneEntry(T, WithEntry(T, x, i, v), x, i, v)
<1>. DEFINE S == Without(T, x, i)
            V == WithEntry(T, x, i, v)
<1>1. /\ \A z \in Sides : z # x => S[z] = T[z] /\ V[z] = T[z]
      /\ S[x] = Removed(T[x], i) /\ V[x] = Updated(T[x], i, v)
  BY DEF Without, WithEntry
<1>2. /\ S[x].cur = T[x].cur /\ \A k : At(S[x], k) = IF k = i THEN "none" ELSE At(T[x], k)
      /\ V[x].cur = T[x].cur /\ \A k : At(V[x], k) = IF k = i THEN v ELSE At(T[x], k)
  BY <1>1, RemovedFacts, UpdatedFacts
<1>. HIDE DEF S, V
<1>3. OneEntry(T, S, x, i, "none") /\ OneEntry(T, V, x, i, v)
  BY <1>1, <1>2 DEF OneEntry
<1>. QED
  BY <1>3 DEF S, V

\* WithNew() adds an entry, and leaves no smaller id to be new.
LEMMA NewFacts ==
    ASSUME NEW T, DOMAIN T = Sides, NEW x \in Sides, TableFine(T[x]), T[x].cur + 1 \in Ids,
           NEW v \in Entries
    PROVE  /\ \A z \in Sides, k \in Ids :
                (z = x /\ k = T[x].cur + 1) \/ At(WithNew(T, x, v)[z], k) = At(T[z], k)
           /\ \A z \in Sides, k \in Ids : k > WithNew(T, x, v)[z].cur => k > T[z].cur
           /\ At(WithNew(T, x, v)[x], T[x].cur + 1) = v /\ T[x].cur + 1 > T[x].cur
<1>. DEFINE S == WithNew(T, x, v)
            i == T[x].cur + 1
<1>1. T[x].cur \in Int /\ T[x].cur < MaxChannel
  BY TableFacts, MaxChannelAssumption DEF Ids
<1>2. /\ Added(T[x], v).cur = i
      /\ \A k : At(Added(T[x], v), k) = IF k = i THEN v ELSE At(T[x], k)
  BY <1>1, AddedFacts
<1>3. S[x] = Added(T[x], v) /\ \A z \in Sides : z # x => S[z] = T[z]
  BY DEF WithNew
<1>4. i > T[x].cur /\ \A k \in Ids : k > i => k > T[x].cur
  BY <1>1 DEF Ids
<1>. HIDE DEF S
<1>5. \A z \in Sides, k \in Ids : (z = x /\ k = i) \/ At(S[z], k) = At(T[z], k)
  BY <1>2, <1>3
<1>6. \A z \in Sides, k \in Ids : k > S[z].cur => k > T[z].cur
  BY <1>2, <1>3, <1>4
<1>. QED
  BY <1>2, <1>3, <1>4, <1>5, <1>6 DEF S

\* One more call of a callback that was not called yet.
OneCall(R, Q, x, i, r) ==
    /\ Q \in [Sides -> [Ids -> Seq({"ok", "err"})]]
    /\ Q[x][i] = <<r>> /\ Q[x][i] \in Seq({"ok", "err"}) /\ Len(Q[x][i]) = 1
    /\ r = "err" => Q[x][i] # <<"ok">>
    /\ \A z \in Sides, k \in Ids : (z = x /\ k = i) \/ Q[z][k] = R[z][k]

\* Called() calls one callback.
LEMMA CalledFacts ==
    ASSUME NEW R \in [Sides -> [Ids -> Seq({"ok", "err"})]], NEW x \in Sides, NEW i \in Ids,
           R[x][i] = <<>>, NEW r \in {"ok", "err"}
    PROVE  OneCall(R, Called(R, x, i, r), x, i, r)
<1>. DEFINE q == Append(R[x][i], r)
            Q == [R EXCEPT ![x][i] = q]
<1>1. R[x][i] \in Seq({"ok", "err"})
  OBVIOUS
<1>2. q \in Seq({"ok", "err"}) /\ q = <<r>> /\ Len(q) = 1 /\ (r = "err" => q # <<"ok">>)
  BY <1>1
<1>. HIDE DEF q
<1>3. /\ Q \in [Sides -> [Ids -> Seq({"ok", "err"})]] /\ Q[x][i] = q
      /\ \A z \in Sides, k \in Ids : (z = x /\ k = i) \/ Q[z][k] = R[z][k]
  BY <1>2
<1>4. Called(R, x, i, r) = Q
  BY DEF Called, q
<1>. HIDE DEF Q
<1>. QED
  BY <1>2, <1>3, <1>4 DEF OneCall

\* One end changes.
LEMMA Gentler ==
    ASSUME NEW T, NEW C, NEW O, NEW A, NEW W, NEW U, Fine(T, C, O, A, W, U),
           NEW x \in Sides, NEW i \in Ids, NEW d \in Ends, C[x][i] # Blank,
           Kept(C, A, W, x, i, C[x][i], d)
    PROVE  Fine(T, WithEnd(C, x, i, d), O, A, W, U)
<1>. DEFINE D == WithEnd(C, x, i, d)
<1>1. C \in [Sides -> [Ids -> Ends]]
  BY DEF Fine, Typed
<1>2. /\ D \in [Sides -> [Ids -> Ends]] /\ D[x][i] = d
      /\ \A z \in Sides, k \in Ids : (z = x /\ k = i) \/ D[z][k] = C[z][k]
  BY <1>1, EndFacts DEF OneEnd
<1>. HIDE DEF D
<1>3. \A z \in Sides, k \in Ids :
        D[z][k] = C[z][k] \/ (C[z][k] # Blank /\ Kept(C, A, W, z, k, C[z][k], D[z][k]))
  BY <1>2
<1>4. Fine(T, D, O, A, W, U)
  BY <1>2, <1>3, Gentle
<1>. QED
  BY <1>4 DEF D

\* The callbacks when one id of one side changes.
LEMMA Settled ==
    ASSUME NEW T, NEW C, NEW R, NEW U, CallbacksFine(T, C, R, U), ExecFine(C, R),
           NEW S, NEW D, NEW Q \in [Sides -> [Ids -> Seq({"ok", "err"})]],
           NEW x \in Sides, NEW i \in Ids, OnlyAt(T, C, R, S, D, Q, x, i),
           CallbackFine(At(S[x], i), D[x][i], Q[x][i], U[x], i > S[x].cur),
           x = "client" /\ Q[x][i] = <<"ok">> =>
               \/ R[x][i] = <<"ok">> /\ D[x][i].peer = C[x][i].peer
               \/ /\ D[x][i].peer \in Ids /\ D["server"][D[x][i].peer].chan
                  /\ D["server"][D[x][i].peer].kind = "session",
           x = "server" /\ C[x][i].chan /\ C[x][i].kind = "session" =>
               D[x][i].chan /\ D[x][i].kind = "session"
    PROVE  CallbacksFine(S, D, Q, U) /\ ExecFine(D, Q)
<1>1. CallbacksFine(S, D, Q, U)
  BY CallbacksKept
<1>2. "client" \in Sides /\ "server" \in Sides
  BY DEF Sides
<1>3. ASSUME NEW j \in Ids, C["server"][j].chan, C["server"][j].kind = "session"
      PROVE  D["server"][j].chan /\ D["server"][j].kind = "session"
  <2>1. (x = "server" /\ j = i) \/ D["server"][j] = C["server"][j]
    BY <1>2 DEF OnlyAt
  <2>. QED
    BY <1>3, <2>1
<1>4. ASSUME NEW k \in Ids, Q["client"][k] = <<"ok">>
      PROVE  /\ D["client"][k].peer \in Ids
             /\ D["server"][D["client"][k].peer].chan
             /\ D["server"][D["client"][k].peer].kind = "session"
  <2>1. CASE R["client"][k] = <<"ok">> /\ D["client"][k].peer = C["client"][k].peer
    <3>1. /\ C["client"][k].peer \in Ids
          /\ C["server"][C["client"][k].peer].chan
          /\ C["server"][C["client"][k].peer].kind = "session"
      BY <2>1 DEF ExecFine
    <3>. QED
      BY <3>1, <2>1, <1>3
  <2>2. CASE ~(R["client"][k] = <<"ok">> /\ D["client"][k].peer = C["client"][k].peer)
    <3>1. x = "client" /\ k = i
      BY <2>2, <1>2, <1>4 DEF OnlyAt
    <3>. QED
      BY <3>1, <2>2, <1>4
  <2>. QED
    BY <2>1, <2>2
<1>5. ExecFine(D, Q)
  BY <1>4 DEF ExecFine
<1>. QED
  BY <1>1, <1>5

-----------------------------------------------------------------------------
(* The steps.                                                              *)

\* exec() of a client, forwardOut() and the like of a server
LEMMA OpenChannelStep ==
    ASSUME IInv, NEW x \in Sides, NEW pty \in BOOLEAN, up[x], Opens < MaxOpens,
           OpenChannel(x, Own(x), pty)
    PROVE  IInv'
<1>. DEFINE i == tab[x].cur + 1
            d == [Blank EXCEPT !.kind = Own(x), !.pty = pty]
            m == Msg("open", -1, i)
            S == WithNew(tab, x, "opener")
            D == WithEnd(ch, x, i, d)
            y == Other(x)
<1>1. /\ Fine(tab, ch, offers, asks, wire, up) /\ CallbacksFine(tab, ch, answers, up)
      /\ ExecFine(ch, answers)
  BY DEF IInv
<1>2. /\ wire \in [Sides -> Seq(Messages)] /\ ch \in [Sides -> [Ids -> Ends]]
      /\ TableFine(tab[x]) /\ DOMAIN tab = Sides /\ tab[x].cur \in Int
      /\ answers \in [Sides -> [Ids -> Seq({"ok", "err"})]]
  BY <1>1, TableFacts DEF Fine, Typed, CallbacksFine
<1>3. Opened(ch) < MaxOpens
  BY DEF Opens, Opened, Mine, Own
<1>4. /\ d \in Ends /\ Loose(d) /\ d.kind = Own(x) /\ d.peer = -1
      /\ d.waiting = "none" /\ d.closes = 0 /\ ~d.chan
  BY TwoSides DEF Ends, Blank, Loose, Kinds, States, Requests
<1>5. y \in Sides /\ Other(y) = x /\ y # x /\ \A z \in Sides : z = x \/ z = y
  BY TwoSides
<1>. HIDE DEF d
<1>6. /\ NextId(tab[x]) = i /\ i \in Ids /\ At(tab[x], i) = "none" /\ ch[x][i] = Blank
      /\ Fine(S, D, offers, asks, wire, up)
      /\ Unanswered(S, D, up, x, i) /\ Unknown(D, wire, x, i)
      /\ \A o \in offers[y] : o.peer # i
      /\ \A n \in Range(wire[y]) : n.type = "open" => n.arg # i
      /\ Opened(D) = Opened(ch) + 1
      /\ S[y] = tab[y]
  BY <1>1, <1>3, <1>4, NewEnd
<1>7. tab' = S /\ ch' = D /\ Send(x, <<m>>) /\ UNCHANGED <<offers, asks, up, answers>>
  BY <1>6 DEF OpenChannel, d, WithNew, WithEnd
<1>8. m \in Messages /\ m.type = "open" /\ m.arg = i
  BY <1>6 DEF Messages, Types, Msg
<1>9. wire' = Put(wire, up, y, m)
  BY <1>2, <1>7, <1>8, Sending
<1>10. ASSUME up[y]
       PROVE  Sendable(S, D, offers, asks, wire, up, y, m)
  <2>1. tab[y].cur + 1 + Cardinality(Opening(wire[y])) <= Opened(ch)
    BY <1>1, <1>5, <1>10 DEF Fine, IdsFine
  <2>2. tab[y].cur \in Int /\ Cardinality(Opening(wire[y])) \in Nat /\ Opened(ch) \in Nat
    BY <1>1, <1>5, TableFacts, OpeningFinite, MineFinite DEF Fine, Typed
  <2>3. S[y].cur + 2 + Cardinality(Opening(wire[y])) <= Opened(D)
    BY <2>1, <2>2, <1>6
  <2>4. SendsOpen(S, D, offers, wire, up, y, m)
    BY <2>3, <1>5, <1>6, <1>8 DEF SendsOpen
  <2>5. \A e \in Range(wire[y]) : Follows(e, m)
    BY <1>6, <1>8 DEF Follows
  <2>. QED
    BY <2>4, <2>5, <1>8 DEF Sendable, Directed, Answering
<1>11. Fine(S, D, offers, asks, Put(wire, up, y, m), up)
  BY <1>5, <1>6, <1>10, Puts
<1>12. /\ \A z \in Sides, k \in Ids : (z = x /\ k = i) \/ D[z][k] = ch[z][k]
       /\ D[x][i] = d
  <2>1. ch \in [Sides -> [Ids -> Ends]] /\ i \in Ids /\ d \in Ends
    BY <1>2, <1>4, <1>6
  <2>. HIDE DEF i
  <2>. QED
    BY <2>1, EndFacts DEF OneEnd
<1>13. /\ \A z \in Sides, k \in Ids : (z = x /\ k = i) \/ At(S[z], k) = At(tab[z], k)
       /\ \A z \in Sides, k \in Ids : k > S[z].cur => k > tab[z].cur
       /\ At(S[x], i) = "opener" /\ i > tab[x].cur
  BY <1>2, <1>6, NewFacts DEF Entries
<1>. HIDE DEF S, D
<1>14. answers[x][i] = <<>> /\ answers[x][i] # <<"ok">>
  <2>1. CallbackFine(At(tab[x], i), ch[x][i], answers[x][i], up[x], i > tab[x].cur)
    BY <1>1, <1>6 DEF CallbacksFine
  <2>2. answers[x][i] = <<>>
    BY <2>1, <1>13 DEF CallbackFine
  <2>. QED
    BY <2>2
<1>15. OnlyAt(tab, ch, answers, S, D, answers, x, i)
  BY <1>5, <1>6, <1>12, <1>13 DEF OnlyAt
<1>16. CallbackFine(At(S[x], i), D[x][i], answers[x][i], up[x], i > S[x].cur)
  BY <1>14, <1>4, <1>12, <1>13, <1>2 DEF CallbackFine
<1>17. ~ch[x][i].chan
  BY <1>6 DEF Blank
<1>18. CallbacksFine(S, D, answers, up) /\ ExecFine(D, answers)
  BY <1>1, <1>2, <1>6, <1>14, <1>15, <1>16, <1>17, Settled
<1>. QED
  BY <1>7, <1>9, <1>11, <1>18 DEF IInv

\* A message is read.
Taken(x, m, type) ==
    /\ m \in Messages /\ m \in Range(wire[x]) /\ m.type = type
    /\ Fine(tab, ch, offers, asks, Read(wire, x), up)
    /\ \A e \in Range(Read(wire, x)[x]) : Follows(m, e)
    /\ Read(wire, x)[x] = Tail(wire[x]) /\ Read(wire, x)[Other(x)] = wire[Other(x)]
    /\ type # "open" => MessageFine(tab, ch, up, x, m)
    /\ wire \in [Sides -> Seq(Messages)] /\ wire[x] # <<>> /\ up[x]

\* What the invariant says of a message that arrives.
LEMMA Arriving ==
    ASSUME IInv, NEW x \in Sides, NEW type, Arrives(x, type)
    PROVE  Taken(x, Head(wire[x]), type)
<1>1. /\ Fine(tab, ch, offers, asks, wire, up) /\ wire[x] # <<>> /\ up[x]
      /\ Head(wire[x]).type = type /\ wire \in [Sides -> Seq(Messages)]
  BY DEF IInv, Arrives, Fine, Typed
<1>2. Head(wire[x]) \in Messages /\ Head(wire[x]) \in Range(wire[x])
  BY <1>1, Reads
<1>3. Fine(tab, ch, offers, asks, Read(wire, x), up)
  BY <1>1, Reads
<1>4. \A e \in Range(Read(wire, x)[x]) : Follows(Head(wire[x]), e)
  BY <1>1, Reads
<1>5. Read(wire, x)[x] = Tail(wire[x]) /\ Read(wire, x)[Other(x)] = wire[Other(x)]
  BY <1>1, TwoSides DEF Read
<1>6. type # "open" => MessageFine(tab, ch, up, x, Head(wire[x]))
  BY <1>1, Reads
<1>. QED
  BY <1>1, <1>2, <1>3, <1>4, <1>5, <1>6 DEF Taken

\* A CHANNEL_OPEN at the head of the queue is gone once it is read.
LEMMA OpenRead ==
    ASSUME IInv, NEW x \in Sides, Arrives(x, "open")
    PROVE  /\ Fine(tab, ch, offers, asks, Read(wire, x), up)
           /\ Unanswered(tab, ch, up, Other(x), Head(wire[x]).arg)
           /\ Unknown(ch, Read(wire, x), Other(x), Head(wire[x]).arg)
           /\ \A o \in offers[x] : o.peer # Head(wire[x]).arg
           /\ \A n \in Range(Read(wire, x)[x]) : n.type = "open" => n.arg # Head(wire[x]).arg
           /\ tab[x].cur + 2 + Cardinality(Opening(Read(wire, x)[x])) <= Opened(ch)
           /\ wire \in [Sides -> Seq(Messages)] /\ wire[x] # <<>> /\ up[x]
<1>. DEFINE m == Head(wire[x])
            V == Read(wire, x)
            y == Other(x)
            p == m.arg
<1>1. /\ Fine(tab, ch, offers, asks, wire, up) /\ wire[x] # <<>> /\ m.type = "open" /\ up[x]
      /\ y \in Sides /\ Other(y) = x
  BY TwoSides DEF IInv, Arrives
<1>2. /\ m \in Messages /\ m \in Range(wire[x]) /\ Fine(tab, ch, offers, asks, V, up)
      /\ \A e \in Range(V[x]) : Follows(m, e)
      /\ V[x] = Tail(wire[x]) /\ V[y] = wire[y]
  BY Arriving DEF Taken
<1>3. /\ Unanswered(tab, ch, up, y, p) /\ Unknown(ch, wire, y, p)
      /\ \A o \in offers[x] : o.peer # p
  BY <1>1, <1>2 DEF Fine, OpensFine
<1>4. wire \in [Sides -> Seq(Messages)] /\ TableFine(tab[x])
  BY <1>1 DEF Fine, Typed
<1>5. \A e \in Range(wire[x]) : e = m \/ e \in Range(V[x])
  <2>1. Ordered(wire[x]) /\ wire[x] \in Seq(Messages)
    BY <1>1, <1>4 DEF Fine, WireFine
  <2>. QED
    BY <2>1, <1>1, <1>2, TailFacts
<1>. HIDE DEF m, V
<1>6. \A n \in Range(V[x]) : n.type = "open" => n.arg # p
  BY <1>1, <1>2 DEF Follows
<1>7. Unknown(ch, V, y, p)
  BY <1>2, <1>3 DEF Unknown
<1>8. tab[x].cur + 2 + Cardinality(Opening(V[x])) <= Opened(ch)
  <2>1. Opening(V[x]) \cup {p} \subseteq Opening(wire[x]) /\ p \notin Opening(V[x])
    <3>1. Range(V[x]) \subseteq Range(wire[x])
      <4>1. Ordered(wire[x]) /\ wire[x] \in Seq(Messages)
        BY <1>1, <1>4 DEF Fine, WireFine
      <4>. QED
        BY <4>1, <1>1, <1>2, TailFacts
    <3>. QED
      BY <3>1, <1>1, <1>2, <1>6 DEF Opening
  <2>2. /\ IsFiniteSet(Opening(wire[x])) /\ Cardinality(Opening(wire[x])) \in Nat
        /\ IsFiniteSet(Opening(V[x])) /\ Cardinality(Opening(V[x])) \in Nat
    BY <1>1, <1>2, OpeningFinite DEF Fine
  <2>3. Cardinality(Opening(V[x]) \cup {p}) = Cardinality(Opening(V[x])) + 1
    BY <2>1, <2>2, OneMore
  <2>4. Cardinality(Opening(V[x]) \cup {p}) <= Cardinality(Opening(wire[x]))
    BY <2>1, <2>2, FS_Subset
  <2>5. tab[x].cur + 1 + Cardinality(Opening(wire[x])) <= Opened(ch)
    BY <1>1 DEF Fine, IdsFine
  <2>6. tab[x].cur \in Int /\ Opened(ch) \in Nat
    BY <1>4, TableFacts, MineFinite
  <2>. QED
    BY <2>2, <2>3, <2>4, <2>5, <2>6
<1>. QED
  BY <1>1, <1>2, <1>3, <1>4, <1>6, <1>7, <1>8 DEF m, V

\* CHANNEL_OPEN when somebody listens
LEMMA RcvOpenStep ==
    ASSUME IInv, NEW x \in Sides, RcvOpen(x)
    PROVE  IInv'
<1>. DEFINE i == tab[x].cur + 1
            p == Head(wire[x]).arg
            S == WithNew(tab, x, "reserved")
            P == WithOffer(offers, x, [id |-> i, peer |-> p])
            V == Read(wire, x)
<1>1. /\ Fine(tab, ch, offers, asks, wire, up) /\ CallbacksFine(tab, ch, answers, up)
      /\ ExecFine(ch, answers)
  BY DEF IInv
<1>2. /\ ch \in [Sides -> [Ids -> Ends]] /\ DOMAIN tab = Sides /\ TableFine(tab[x])
      /\ answers \in [Sides -> [Ids -> Seq({"ok", "err"})]] /\ Arrives(x, "open")
  BY <1>1 DEF Fine, Typed, CallbacksFine, RcvOpen
<1>3. /\ Fine(tab, ch, offers, asks, V, up)
      /\ Unanswered(tab, ch, up, Other(x), p) /\ Unknown(ch, V, Other(x), p)
      /\ \A o \in offers[x] : o.peer # p
      /\ \A n \in Range(V[x]) : n.type = "open" => n.arg # p
      /\ tab[x].cur + 2 + Cardinality(Opening(V[x])) <= Opened(ch)
      /\ wire \in [Sides -> Seq(Messages)] /\ wire[x] # <<>> /\ up[x]
  BY <1>2, OpenRead
<1>. HIDE DEF p, V
<1>4. /\ NextId(tab[x]) = i /\ i \in Ids /\ At(tab[x], i) = "none"
      /\ Fine(S, ch, P, asks, V, up)
  BY <1>3, Reserved
<1>5. /\ tab' = S /\ offers' = P /\ wire' = V /\ UNCHANGED <<ch, asks, up, answers>>
  <2>1. wire' = V
    BY <1>3, Replying DEF RcvOpen, V
  <2>. QED
    BY <2>1, <1>4 DEF RcvOpen, p, WithNew, WithOffer
<1>6. /\ \A z \in Sides, k \in Ids : (z = x /\ k = i) \/ At(S[z], k) = At(tab[z], k)
      /\ \A z \in Sides, k \in Ids : k > S[z].cur => k > tab[z].cur
      /\ At(S[x], i) = "reserved" /\ i > tab[x].cur
  BY <1>2, <1>4, NewFacts DEF Entries
<1>. HIDE DEF S, P
<1>7. ch[x][i] = Blank /\ ~ch[x][i].chan /\ ch[x][i].closes = 0 /\ ch[x][i].waiting = "none"
  <2>1. ch[x][i] = Blank
    BY <1>1, <1>3, <1>4, <1>6 DEF Fine, IdsFine
  <2>. QED
    BY <2>1 DEF Blank
<1>8. answers[x][i] = <<>> /\ answers[x][i] # <<"ok">>
  <2>1. CallbackFine(At(tab[x], i), ch[x][i], answers[x][i], up[x], i > tab[x].cur)
    BY <1>1, <1>4 DEF CallbacksFine
  <2>2. answers[x][i] = <<>>
    BY <2>1, <1>3, <1>6 DEF CallbackFine
  <2>. QED
    BY <2>2
<1>9. OnlyAt(tab, ch, answers, S, ch, answers, x, i)
  BY <1>6 DEF OnlyAt
<1>10. CallbackFine(At(S[x], i), ch[x][i], answers[x][i], up[x], i > S[x].cur)
  BY <1>2, <1>6, <1>7, <1>8 DEF CallbackFine
<1>11. CallbacksFine(S, ch, answers, up) /\ ExecFine(ch, answers)
  BY <1>1, <1>2, <1>4, <1>7, <1>8, <1>9, <1>10, Settled
<1>. QED
  BY <1>4, <1>5, <1>11 DEF IInv

\* CHANNEL_OPEN_FAILURE for an open that nothing came back for yet.
LEMMA FailSends ==
    ASSUME NEW T, NEW C, NEW O, NEW A, NEW W, NEW U, NEW y \in Sides, U[y], NEW p,
           Unanswered(T, C, U, y, p), Unknown(C, W, y, p),
           \A n \in Range(W[Other(y)]) : n.type = "open" => n.arg # p,
           \A o \in O[Other(y)] : o.peer # p
    PROVE  Sendable(T, C, O, A, W, U, y, Msg("openfail", p, -1))
<1>. DEFINE m == Msg("openfail", p, -1)
<1>1. m \in Messages /\ m.type = "openfail" /\ m.to = p /\ p \in Ids
  BY DEF Unanswered, Messages, Types, Msg
<1>. HIDE DEF m
<1>2. \A e \in Range(W[y]) : Follows(e, m)
  BY <1>1 DEF Unknown, Follows
<1>3. MessageFine(T, C, U, y, m)
  BY <1>1 DEF MessageFine, Unanswered, Unknown
<1>4. Sendable(T, C, O, A, W, U, y, m)
  BY <1>1, <1>2, <1>3 DEF Sendable, SendsToId, Directed, Answering
<1>. QED
  BY <1>4 DEF m

\* CHANNEL_OPEN refused at once
LEMMA RcvOpenRefusedStep ==
    ASSUME IInv, NEW x \in Sides, RcvOpenRefused(x)
    PROVE  IInv'
<1>. DEFINE p == Head(wire[x]).arg
            m == Msg("openfail", p, -1)
            V == Read(wire, x)
            y == Other(x)
<1>1. /\ CallbacksFine(tab, ch, answers, up) /\ ExecFine(ch, answers) /\ Arrives(x, "open")
      /\ y \in Sides /\ Other(y) = x
  BY TwoSides DEF IInv, RcvOpenRefused
<1>2. /\ Fine(tab, ch, offers, asks, V, up)
      /\ Unanswered(tab, ch, up, y, p) /\ Unknown(ch, V, y, p)
      /\ \A o \in offers[x] : o.peer # p
      /\ \A n \in Range(V[x]) : n.type = "open" => n.arg # p
      /\ wire \in [Sides -> Seq(Messages)] /\ wire[x] # <<>>
  BY <1>1, OpenRead
<1>3. wire' = Put(V, up, y, m) /\ UNCHANGED <<tab, ch, offers, asks, up, answers>>
  <2>1. m \in Messages
    BY <1>2 DEF Unanswered, Messages, Types, Msg
  <2>. HIDE DEF m
  <2>2. Reply(x, <<m>>) => wire' = Put(V, up, y, m)
    BY <2>1, <1>2, Replying
  <2>. QED
    BY <2>2 DEF RcvOpenRefused, m
<1>. HIDE DEF p, V, y
<1>4. up[y] => Sendable(tab, ch, offers, asks, V, up, y, m)
  BY <1>1, <1>2, FailSends
<1>5. Fine(tab, ch, offers, asks, Put(V, up, y, m), up)
  BY <1>1, <1>2, <1>4, Puts
<1>. QED
  BY <1>1, <1>3, <1>5 DEF IInv

\* What is known of an open that the application is asked about.
LEMMA OfferTaken ==
    ASSUME IInv, NEW x \in Sides, up[x], NEW o \in offers[x]
    PROVE  /\ Fine(tab, ch, [offers EXCEPT ![x] = @ \ {o}], asks, wire, up)
           /\ Unanswered(tab, ch, up, Other(x), o.peer) /\ Unknown(ch, wire, Other(x), o.peer)
           /\ \A q \in [offers EXCEPT ![x] = @ \ {o}][x] : q.peer # o.peer /\ q.id # o.id
           /\ \A m \in Range(wire[x]) : m.type = "open" => m.arg # o.peer
           /\ ch[x][o.id] = Blank /\ At(tab[x], o.id) = "reserved"
           /\ \A k \in Ids : ch[Other(x)][k].peer # o.id
           /\ o.id \in Ids /\ o.peer \in Ids
<1>. DEFINE P == [offers EXCEPT ![x] = @ \ {o}]
            y == Other(x)
<1>1. Fine(tab, ch, offers, asks, wire, up) /\ y \in Sides /\ Other(y) = x
  BY TwoSides DEF IInv
<1>2. offers \in [Sides -> SUBSET [id : Ids, peer : Ids]]
  BY <1>1 DEF Fine, Typed
<1>3. /\ P \in [Sides -> SUBSET [id : Ids, peer : Ids]] /\ P[x] = offers[x] \ {o}
      /\ \A z \in Sides : P[z] \subseteq offers[z]
  BY <1>2
<1>4. o.id \in Ids /\ o.peer \in Ids
  BY <1>2
<1>. HIDE DEF P
<1>5. Fine(tab, ch, P, asks, wire, up)
  BY <1>1, <1>3, Decided
<1>6. /\ Unanswered(tab, ch, up, y, o.peer) /\ Unknown(ch, wire, y, o.peer)
      /\ \A q \in offers[x] : q # o => q.peer # o.peer /\ q.id # o.id
      /\ ch[x][o.id] = Blank /\ At(tab[x], o.id) = "reserved"
      /\ \A k \in Ids : ch[y][k].peer # o.id
  BY <1>1 DEF Fine, OffersFine
<1>7. \A m \in Range(wire[x]) : m.type = "open" => m.arg # o.peer
  BY <1>1 DEF Fine, OpensFine
<1>. QED
  BY <1>3, <1>4, <1>5, <1>6, <1>7 DEF P

\* reject() of a CHANNEL_OPEN
LEMMA RejectOpenStep ==
    ASSUME IInv, NEW x \in Sides, up[x], NEW o \in offers[x], RejectOpen(x, o)
    PROVE  IInv'
<1>. DEFINE P == [offers EXCEPT ![x] = @ \ {o}]
            m == Msg("openfail", o.peer, -1)
            y == Other(x)
<1>1. /\ CallbacksFine(tab, ch, answers, up) /\ ExecFine(ch, answers)
      /\ wire \in [Sides -> Seq(Messages)] /\ y \in Sides /\ Other(y) = x
  BY TwoSides DEF IInv, Fine, Typed
<1>2. /\ Fine(tab, ch, P, asks, wire, up)
      /\ Unanswered(tab, ch, up, y, o.peer) /\ Unknown(ch, wire, y, o.peer)
      /\ \A q \in P[x] : q.peer # o.peer
      /\ \A n \in Range(wire[x]) : n.type = "open" => n.arg # o.peer
      /\ o.peer \in Ids
  BY OfferTaken
<1>3. wire' = Put(wire, up, y, m) /\ offers' = P /\ UNCHANGED <<tab, ch, asks, up, answers>>
  <2>1. m \in Messages
    BY <1>2 DEF Messages, Types, Msg
  <2>. HIDE DEF m
  <2>2. Send(x, <<m>>) => wire' = Put(wire, up, y, m)
    BY <2>1, <1>1, Sending
  <2>. QED
    BY <2>2 DEF RejectOpen, m
<1>. HIDE DEF P, y
<1>4. up[y] => Sendable(tab, ch, P, asks, wire, up, y, m)
  BY <1>1, <1>2, FailSends
<1>5. Fine(tab, ch, P, asks, Put(wire, up, y, m), up)
  BY <1>1, <1>2, <1>4, Puts
<1>. QED
  BY <1>1, <1>3, <1>5 DEF IInv

\* accept() of a CHANNEL_OPEN
LEMMA AcceptOpenStep ==
    ASSUME IInv, NEW x \in Sides, up[x], NEW o \in offers[x], AcceptOpen(x, o)
    PROVE  IInv'
<1>. DEFINE P == [offers EXCEPT ![x] = @ \ {o}]
            i == o.id
            p == o.peer
            v == IF x = "server" THEN "session" ELSE "channel"
            d == [Blank EXCEPT !.kind = IF x = "server" THEN "session" ELSE "forward",
                               !.peer = p, !.in = "open", !.out = "open", !.chan = ~(x = "server")]
            m == Msg("confirm", p, i)
            S == WithEntry(tab, x, i, v)
            D == WithEnd(ch, x, i, d)
            y == Other(x)
<1>1. /\ CallbacksFine(tab, ch, answers, up) /\ ExecFine(ch, answers)
      /\ wire \in [Sides -> Seq(Messages)] /\ y \in Sides /\ Other(y) = x /\ y # x
      /\ ch \in [Sides -> [Ids -> Ends]] /\ DOMAIN tab = Sides /\ TableFine(tab[x])
      /\ answers \in [Sides -> [Ids -> Seq({"ok", "err"})]]
  BY TwoSides DEF IInv, Fine, Typed, CallbacksFine
<1>2. /\ Fine(tab, ch, P, asks, wire, up)
      /\ Unanswered(tab, ch, up, y, p) /\ Unknown(ch, wire, y, p)
      /\ \A q \in P[x] : q.peer # p /\ q.id # i
      /\ \A n \in Range(wire[x]) : n.type = "open" => n.arg # p
      /\ ch[x][i] = Blank /\ At(tab[x], i) = "reserved"
      /\ \A k \in Ids : ch[y][k].peer # i
      /\ i \in Ids /\ p \in Ids
  BY OfferTaken
<1>3. /\ v \in Entries /\ v \in {"session", "channel"} /\ v # "none"
      /\ v \notin {"opener", "reserved"}
  BY DEF Entries
<1>4. /\ d \in Ends /\ d.kind = Own(y) /\ d.peer = p /\ d.out = "open" /\ d.waiting = "none"
      /\ d.closes = 0
  <2>1. x \in {"client", "server"} /\ Own(y) = IF x = "server" THEN "session" ELSE "forward"
    BY DEF Sides, Own, Other
  <2>2. p \in Ids \cup {-1}
    BY <1>2
  <2>. HIDE DEF p
  <2>. QED
    BY <2>1, <2>2 DEF Ends, Blank, Kinds, States, Requests
<1>5. /\ tab' = S /\ ch' = D /\ offers' = P /\ wire' = Put(wire, up, y, m)
      /\ UNCHANGED <<asks, up, answers>>
  <2>1. m \in Messages
    BY <1>2 DEF Messages, Types, Msg
  <2>2. Send(x, <<m>>)
    BY DEF AcceptOpen
  <2>. HIDE DEF m
  <2>3. wire' = Put(wire, up, y, m)
    BY <2>1, <2>2, <1>1, Sending
  <2>4. tab' = S /\ ch' = D /\ offers' = P /\ UNCHANGED <<asks, up, answers>>
    BY DEF AcceptOpen, WithEntry, WithEnd
  <2>. QED
    BY <2>3, <2>4
<1>. HIDE DEF P, i, p, v, d, y
<1>6. Fine(S, D, P, asks, wire, up) /\ Unanswered(S, D, up, y, p)
  <2>1. Acceptable(tab, ch, P, wire, up, x, i, p) /\ AcceptedEnd(x, p, d)
    BY <1>2, <1>4 DEF Acceptable, AcceptedEnd, y
  <2>2. Fine(S, D, P, asks, wire, up) /\ Unanswered(S, D, up, Other(x), p)
    BY <2>1, <1>2, <1>3, <1>4, Accepted
  <2>. QED
    BY <2>2 DEF y
<1>7. OneEntry(tab, S, x, i, v) /\ OneEnd(ch, D, x, i, d)
  <2>1. OneEntry(tab, S, x, i, v)
    BY <1>1, <1>2, <1>3, EntryFacts
  <2>2. OneEnd(ch, D, x, i, d)
    BY <1>1, <1>2, <1>4, EndFacts
  <2>. QED
    BY <2>1, <2>2
<1>. HIDE DEF S, D
<1>8. D[x][i] = d /\ At(S[x], i) = v
  BY <1>7 DEF OneEntry, OneEnd
<1>9. ASSUME up[y]
      PROVE  Sendable(S, D, P, asks, wire, up, y, m)
  <2>1. m \in Messages /\ m.type = "confirm" /\ m.to = p /\ m.arg = i
    BY <1>2 DEF Messages, Types, Msg
  <2>. HIDE DEF m
  <2>2. \A e \in Range(wire[y]) : Follows(e, m)
    BY <2>1, <1>2 DEF Unknown, Follows
  <2>3. MessageFine(S, D, up, y, m)
    <3>1. At(S[y], p) # "none"
      BY <1>6, <1>9 DEF Unanswered
    <3>2. D[x][i].peer = p
      BY <1>4, <1>8
    <3>. QED
      BY <2>1, <3>1, <3>2, <1>1, <1>2, <1>3, <1>6, <1>8 DEF MessageFine
  <2>4. SendsToId(S, D, P, wire, up, y, m)
    BY <2>1, <2>3, <1>1, <1>2 DEF SendsToId
  <2>. QED
    BY <2>1, <2>2, <2>4 DEF Sendable, Directed, Answering
<1>10. Fine(S, D, P, asks, Put(wire, up, y, m), up)
  BY <1>1, <1>6, <1>9, Puts
<1>11. OnlyAt(tab, ch, answers, S, D, answers, x, i)
  BY <1>7 DEF OnlyAt, OneEntry, OneEnd
<1>12. answers[x][i] = <<>> /\ answers[x][i] # <<"ok">>
  <2>1. CallbackFine(At(tab[x], i), ch[x][i], answers[x][i], up[x], i > tab[x].cur)
    BY <1>1, <1>2 DEF CallbacksFine
  <2>2. answers[x][i] = <<>>
    BY <2>1, <1>2 DEF CallbackFine
  <2>. QED
    BY <2>2
<1>13. CallbackFine(At(S[x], i), D[x][i], answers[x][i], up[x], i > S[x].cur)
  <2>1. p # -1
    BY <1>2 DEF Ids
  <2>. QED
    BY <2>1, <1>1, <1>2, <1>3, <1>4, <1>8, <1>12 DEF CallbackFine
<1>14. ~ch[x][i].chan
  BY <1>2 DEF Blank
<1>15. CallbacksFine(S, D, answers, up) /\ ExecFine(D, answers)
  BY <1>1, <1>2, <1>11, <1>12, <1>13, <1>14, Settled
<1>. QED
  BY <1>5, <1>10, <1>15 DEF IInv

\* What the invariant says of an id in the table of a side whose socket is open.
LEMMA InUse ==
    ASSUME IInv, NEW x \in Sides, up[x], NEW i, At(tab[x], i) # "none"
    PROVE  /\ i \in Ids /\ ~(i > tab[x].cur) /\ ch[x][i] \in Ends /\ ch[x][i].closes = 0
           /\ answers[x][i] \in Seq({"ok", "err"}) /\ Len(answers[x][i]) <= 1
           /\ At(tab[x], i) = "opener" => ch[x][i].waiting = "none"
           /\ At(tab[x], i) \in {"session", "channel"} => ch[x][i].peer # -1 /\ ch[x][i] # Blank
           /\ At(tab[x], i) = "opener" \/ ch[x][i].waiting # "none"
                 => answers[x][i] = <<>> /\ answers[x][i] # <<"ok">>
<1>1. TableFine(tab[x]) /\ ch \in [Sides -> [Ids -> Ends]]
  BY DEF IInv, Fine, Typed
<1>2. i \in Ids /\ ch[x][i] \in Ends /\ ch[x][i].closes \in Nat
  BY <1>1, TableFacts DEF Ends
<1>3. ~(i > tab[x].cur)
  <2>1. i <= tab[x].cur /\ tab[x].cur \in Int /\ i \in Int
    BY <1>1, <1>2, TableFacts DEF Ids
  <2>. QED
    BY <2>1
<1>4. CallbackFine(At(tab[x], i), ch[x][i], answers[x][i], up[x], i > tab[x].cur)
  BY <1>2 DEF IInv, CallbacksFine
<1>5. answers[x][i] \in Seq({"ok", "err"}) /\ Len(answers[x][i]) <= 1 /\ ch[x][i].closes = 0
  BY <1>2, <1>4 DEF CallbackFine
<1>6. /\ At(tab[x], i) = "opener" \/ ch[x][i].waiting # "none" => answers[x][i] = <<>>
      /\ At(tab[x], i) = "opener" => ch[x][i].waiting = "none"
  BY <1>4 DEF CallbackFine
<1>7. answers[x][i] = <<>> => answers[x][i] # <<"ok">>
  OBVIOUS
<1>8. At(tab[x], i) \in {"session", "channel"} => ch[x][i].peer # -1 /\ ch[x][i] # Blank
  BY <1>4 DEF CallbackFine, Blank
<1>. QED
  BY <1>2, <1>3, <1>5, <1>6, <1>7, <1>8

\* CHANNEL_OPEN_CONFIRMATION
LEMMA RcvConfirmStep ==
    ASSUME IInv, NEW x \in Sides, RcvConfirm(x)
    PROVE  IInv'
<1>. DEFINE m == Head(wire[x])
            i == m.to
            j == m.arg
            c == ch[x][i]
            first == IF c.pty THEN "pty" ELSE "exec"
            d == [c EXCEPT !.peer = j, !.in = "open", !.out = "open", !.chan = TRUE,
                           !.waiting = IF x = "client" THEN first ELSE "none"]
            n == Msg("request", j, first)
            S == WithEntry(tab, x, i, "channel")
            D == WithEnd(ch, x, i, d)
            V == Read(wire, x)
            y == Other(x)
<1>1. /\ CallbacksFine(tab, ch, answers, up) /\ ExecFine(ch, answers) /\ Arrives(x, "confirm")
      /\ y \in Sides /\ Other(y) = x /\ y # x
      /\ ch \in [Sides -> [Ids -> Ends]] /\ DOMAIN tab = Sides /\ TableFine(tab[x])
      /\ answers \in [Sides -> [Ids -> Seq({"ok", "err"})]]
  BY TwoSides DEF IInv, Fine, Typed, CallbacksFine, RcvConfirm
<1>2. /\ Fine(tab, ch, offers, asks, V, up) /\ m.type = "confirm" /\ MessageFine(tab, ch, up, x, m)
      /\ \A e \in Range(V[x]) : Follows(m, e)
      /\ wire \in [Sides -> Seq(Messages)] /\ wire[x] # <<>> /\ up[x]
  <2>1. Taken(x, m, "confirm")
    BY <1>1, Arriving
  <2>. QED
    BY <2>1 DEF Taken
<1>3. /\ i \in Ids /\ j \in Ids /\ ch[y][j].peer = i /\ Unanswered(tab, ch, up, x, i)
      /\ At(tab[x], i) = "opener" /\ (up[y] => At(tab[y], j) # "none")
  BY <1>2 DEF MessageFine, Unanswered
<1>4. Entry(x, i) = "opener"
  BY <1>3 DEF Entry, At
<1>5. /\ c \in Ends /\ first \in Requests /\ d \in Ends /\ d.kind = c.kind /\ d.peer = j
      /\ d.out = "open" /\ d.closes = c.closes /\ d.chan
      /\ d.waiting = IF x = "client" THEN first ELSE "none"
  <2>1. c \in Ends /\ first \in Requests /\ j \in Ids \cup {-1}
    BY <1>1, <1>3 DEF Requests
  <2>. HIDE DEF c, first, j
  <2>2. (IF x = "client" THEN first ELSE "none") \in Requests \cup {"none"}
    BY <2>1
  <2>. QED
    BY <2>1, <2>2 DEF Ends, States
<1>6. /\ tab' = S /\ ch' = D /\ UNCHANGED <<offers, asks, up>>
      /\ answers' = IF x = "client" THEN answers ELSE Called(answers, x, i, "ok")
      /\ Reply(x, IF x = "client" THEN <<n>> ELSE <<>>)
  BY <1>4 DEF RcvConfirm, WithEntry, WithEnd, Called
<1>7. wire' = IF x = "client" THEN Put(V, up, y, n) ELSE V
  <2>1. n \in Messages
    BY <1>3, <1>5 DEF Messages, Types, Msg
  <2>. HIDE DEF n
  <2>2. /\ Reply(x, <<n>>) => wire' = Put(V, up, y, n)
        /\ Reply(x, <<>>) => wire' = V
    BY <2>1, <1>2, Replying
  <2>. QED
    BY <2>2, <1>6
<1>8. Confirmable(tab, ch, V, up, x, i, j) /\ ConfirmedEnd(x, c, j, d)
  <2>1. \A e \in Range(V[x]) : e.type # "open" /\ e.to = i => ~First(e)
    BY <1>2 DEF Follows
  <2>2. ConfirmedEnd(x, c, j, d)
    BY <1>5 DEF ConfirmedEnd
  <2>. HIDE DEF m, i, j, V
  <2>. QED
    BY <2>1, <2>2, <1>3 DEF Confirmable
<1>. HIDE DEF m, i, j, c, first, d, V
<1>9. Fine(S, D, offers, asks, V, up) /\ ch[y][j].kind = Own(x) /\ Untouched(offers, asks, V, x, i, j)
  <2>1. ConfirmedEnd(x, ch[x][i], j, d)
    BY <1>8 DEF c
  <2>. QED
    BY <2>1, <1>2, <1>3, <1>5, <1>8, Confirmed
<1>10. OneEntry(tab, S, x, i, "channel") /\ OneEnd(ch, D, x, i, d)
  <2>1. OneEntry(tab, S, x, i, "channel")
    BY <1>1, <1>3, EntryFacts DEF Entries
  <2>2. OneEnd(ch, D, x, i, d)
    BY <1>1, <1>3, <1>5, EndFacts
  <2>. QED
    BY <2>1, <2>2
<1>. HIDE DEF S, D, y
<1>11. D[x][i] = d /\ At(S[x], i) = "channel" /\ D[y] = ch[y] /\ S[x].cur = tab[x].cur
       /\ At(S[y], j) = At(tab[y], j)
  BY <1>1, <1>10 DEF OneEntry, OneEnd
<1>12. ASSUME x = "client", up[y]
       PROVE  Sendable(S, D, offers, asks, V, up, y, n)
  <2>1. n \in Messages /\ n.type = "request" /\ n.to = j /\ n.arg = first
    BY <1>3, <1>5 DEF Messages, Types, Msg
  <2>. HIDE DEF n
  <2>2. y = "server" /\ Own(x) = "session"
    BY <1>12 DEF y, Other, Own
  <2>3. D["client"][i].peer = j /\ D["server"][j].peer = i /\ D["server"][j].kind = "session"
        /\ D["client"][i].waiting = first
    BY <2>2, <1>12, <1>3, <1>5, <1>9, <1>11
  <2>4. SendsRequest(D, asks, V, n)
    BY <2>1, <2>3, <1>3, <1>5, <1>9, <1>12 DEF SendsRequest, Session, Untouched
  <2>5. \A e \in Range(V[y]) : e.type # "open" => e.to # j
    BY <1>9 DEF Untouched, y
  <2>6. D[Other(y)][i].peer = n.to /\ n.to # -1 /\ At(S[y], n.to) # "none"
    BY <2>1, <1>1, <1>3, <1>5, <1>11, <1>12 DEF Ids
  <2>. QED
    BY <2>1, <2>2, <2>4, <2>5, <2>6, <1>1, <1>3, <1>9, <1>12, EndSends DEF Directed, Answering
<1>13. Fine(S, D, offers, asks, wire', up)
  <2>1. CASE x = "client"
    BY <2>1, <1>1, <1>7, <1>9, <1>12, Puts
  <2>2. CASE x # "client"
    BY <2>2, <1>7, <1>9
  <2>. QED
    BY <2>1, <2>2
<1>14. /\ ~(i > tab[x].cur) /\ c.closes = 0
       /\ answers[x][i] = <<>> /\ answers[x][i] # <<"ok">>
  BY <1>2, <1>3, InUse DEF c
<1>15. CallbacksFine(S, D, answers', up) /\ ExecFine(D, answers')
  <2>. j # -1
    BY <1>3 DEF Ids
  <2>1. CASE x = "client"
    <3>1. OnlyAt(tab, ch, answers, S, D, answers, x, i)
      BY <1>10 DEF OnlyAt, OneEntry, OneEnd
    <3>2. CallbackFine(At(S[x], i), D[x][i], answers[x][i], up[x], i > S[x].cur)
      BY <1>1, <1>3, <1>5, <1>11, <1>14 DEF CallbackFine
    <3>3. CallbacksFine(S, D, answers, up) /\ ExecFine(D, answers)
      BY <2>1, <3>1, <3>2, <1>1, <1>3, <1>14, Settled
    <3>. QED
      BY <2>1, <3>3, <1>6
  <2>2. CASE x # "client"
    <3>. DEFINE Q == Called(answers, x, i, "ok")
    <3>1. OneCall(answers, Q, x, i, "ok")
      BY <1>1, <1>3, <1>14, CalledFacts
    <3>. HIDE DEF Q
    <3>2. OnlyAt(tab, ch, answers, S, D, Q, x, i)
      BY <3>1, <1>10 DEF OnlyAt, OneEntry, OneEnd, OneCall
    <3>3. CallbackFine(At(S[x], i), D[x][i], Q[x][i], up[x], i > S[x].cur)
      BY <2>2, <3>1, <1>5, <1>11, <1>14 DEF CallbackFine, OneCall
    <3>4. D[x][i].chan /\ D[x][i].kind = ch[x][i].kind
      BY <1>5, <1>11 DEF c
    <3>5. /\ Q \in [Sides -> [Ids -> Seq({"ok", "err"})]] /\ i \in Ids
          /\ CallbacksFine(tab, ch, answers, up) /\ ExecFine(ch, answers)
      BY <3>1, <1>1, <1>3 DEF OneCall
    <3>6. CallbacksFine(S, D, Q, up) /\ ExecFine(D, Q)
      BY <2>2, <3>2, <3>3, <3>4, <3>5, Settled
    <3>. QED
      BY <2>2, <3>6, <1>6 DEF Q
  <2>. QED
    BY <2>1, <2>2
<1>. QED
  BY <1>6, <1>13, <1>15 DEF IInv

\* The id a message is for is known to the sender: no open, confirmation or offer
\* of it is under way.
LEMMA Spoken ==
    ASSUME NEW T, NEW C, NEW O, NEW A, NEW W, NEW U, Fine(T, C, O, A, W, U),
           NEW x \in Sides, NEW m \in Range(W[x]), m.type # "open"
    PROVE  /\ \A e \in Range(W[Other(x)]) : e.type \in {"open", "confirm"} => e.arg # m.to
           /\ \A o \in O[Other(x)] : o.peer # m.to
<1>. DEFINE y == Other(x)
            i == m.to
<1>1. y \in Sides /\ Other(y) = x
  BY TwoSides
<1>2. MessageFine(T, C, U, x, m) /\ i \in Ids /\ EndsFine(T, C, W, U) /\ -1 \notin Ids
  BY DEF Fine, MessagesFine, MessageFine, Ids
<1>3. ~Unknown(C, W, x, i)
  BY DEF Unknown
<1>4. \A o \in O[y] : o.peer # i
  BY <1>3 DEF Fine, OffersFine
<1>5. \A e \in Range(W[y]) : e.type = "open" => e.arg # i
  BY <1>3 DEF Fine, OpensFine
<1>6. ASSUME NEW e \in Range(W[y]), e.type = "confirm", e.arg = i
      PROVE  FALSE
  <2>1. MessageFine(T, C, U, y, e)
    BY <1>1, <1>6 DEF Fine, MessagesFine
  <2>2. C[x][i].peer = e.to /\ e.to \in Ids /\ C[y][e.to].peer = -1
    BY <2>1, <1>1, <1>6 DEF MessageFine, Unanswered
  <2>3. m.type = "openfail" => C[x][i].peer = -1
    BY <1>2 DEF MessageFine, Unanswered
  <2>4. PICK j \in Ids : C[y][j].peer = i
    BY <1>2, <2>2, <2>3 DEF MessageFine
  <2>5. Tied(T, C, W, U, x, y, j, i)
    BY <2>4, <1>1, <1>2 DEF EndsFine
  <2>6. e.to = j
    BY <2>2, <2>5, <1>2 DEF Tied
  <2>. QED
    BY <2>2, <2>4, <2>6, <1>2
<1>. QED
  BY <1>4, <1>5, <1>6

\* The id is freed by the last message for it.
LEMMA LastFrees ==
    ASSUME IInv, NEW x \in Sides, NEW m, NEW type, Taken(x, m, type),
           type \in {"openfail", "close"}, At(tab[x], m.to) # "reserved"
    PROVE  Freeable(tab, ch, offers, Read(wire, x), x, m.to)
<1>. DEFINE V == Read(wire, x)
            y == Other(x)
<1>1. /\ m \in Range(wire[x]) /\ m.type = type /\ m.type # "open" /\ MessageFine(tab, ch, up, x, m)
      /\ V[y] = wire[y] /\ \A e \in Range(V[x]) : Follows(m, e)
  BY DEF Taken
<1>. HIDE DEF V
<1>2. \A e \in Range(V[x]) : e.type # "open" => e.to # m.to
  BY <1>1 DEF Follows, Last
<1>3. /\ \A e \in Range(V[y]) : e.type \in {"open", "confirm"} => e.arg # m.to
      /\ \A o \in offers[y] : o.peer # m.to
  BY <1>1, Spoken DEF IInv
<1>4. \A j \in Ids : ch[y][j].peer = m.to => ch[y][j].out \notin Unclosed
  BY <1>1 DEF MessageFine
<1>5. At(tab[x], m.to) # "none"
  BY <1>1 DEF MessageFine
<1>6. Freeable(tab, ch, offers, V, x, m.to)
  BY <1>2, <1>3, <1>4, <1>5 DEF Freeable
<1>. QED
  BY <1>6 DEF V

\* CHANNEL_OPEN_FAILURE, or a CHANNEL_CLOSE instead: the open failed.
LEMMA OpenFails ==
    ASSUME IInv, NEW x \in Sides, NEW m, NEW type, Taken(x, m, type),
           type \in {"openfail", "close"}, At(tab[x], m.to) = "opener",
           tab' = Without(tab, x, m.to), answers' = Called(answers, x, m.to, "err"),
           wire' = Read(wire, x), UNCHANGED <<ch, offers, asks, up>>
    PROVE  IInv'
<1>. DEFINE i == m.to
            S == Without(tab, x, i)
            Q == Called(answers, x, i, "err")
            V == Read(wire, x)
<1>1. /\ CallbacksFine(tab, ch, answers, up) /\ ExecFine(ch, answers)
      /\ DOMAIN tab = Sides /\ TableFine(tab[x])
      /\ answers \in [Sides -> [Ids -> Seq({"ok", "err"})]]
      /\ Fine(tab, ch, offers, asks, V, up) /\ up[x]
  BY DEF IInv, Fine, Typed, CallbacksFine, Taken
<1>2. /\ i \in Ids /\ ~(i > tab[x].cur) /\ ch[x][i].closes = 0 /\ ch[x][i].waiting = "none"
      /\ answers[x][i] = <<>>
  BY <1>1, InUse
<1>. HIDE DEF V
<1>3. Freeable(tab, ch, offers, V, x, i)
  BY LastFrees DEF V
<1>. HIDE DEF i
<1>4. Fine(S, ch, offers, asks, V, up)
  BY <1>1, <1>3, Freed
<1>5. OneEntry(tab, S, x, i, "none")
  <2>1. At(tab[x], i) # "none"
    BY <1>3 DEF Freeable
  <2>2. "opener" \in Entries
    BY DEF Entries
  <2>. QED
    BY <2>1, <2>2, <1>1, EntryFacts
<1>6. OneCall(answers, Q, x, i, "err")
  BY <1>1, <1>2, CalledFacts
<1>. HIDE DEF S, Q
<1>7. OnlyAt(tab, ch, answers, S, ch, Q, x, i)
  BY <1>5, <1>6 DEF OnlyAt, OneEntry, OneCall
<1>8. CallbackFine(At(S[x], i), ch[x][i], Q[x][i], up[x], i > S[x].cur)
  <2>1. At(S[x], i) = "none" /\ ~(i > S[x].cur)
    BY <1>2, <1>5 DEF OneEntry
  <2>2. Q[x][i] \in Seq({"ok", "err"}) /\ Len(Q[x][i]) = 1
    BY <1>6 DEF OneCall
  <2>. QED
    BY <2>1, <2>2, <1>2 DEF CallbackFine
<1>9. CallbacksFine(S, ch, Q, up) /\ ExecFine(ch, Q)
  BY <1>1, <1>2, <1>6, <1>7, <1>8, Settled DEF OneCall
<1>. QED
  BY <1>4, <1>9 DEF IInv, S, Q, V, i

\* CHANNEL_OPEN_FAILURE
LEMMA RcvOpenFailStep ==
    ASSUME IInv, NEW x \in Sides, RcvOpenFail(x)
    PROVE  IInv'
<1>. DEFINE m == Head(wire[x])
<1>1. Taken(x, m, "openfail")
  BY Arriving DEF RcvOpenFail
<1>2. /\ MessageFine(tab, ch, up, x, m) /\ m.type = "openfail" /\ up[x]
      /\ wire \in [Sides -> Seq(Messages)] /\ wire[x] # <<>>
  BY <1>1 DEF Taken
<1>3. At(tab[x], m.to) = "opener"
  BY <1>2 DEF MessageFine, Unanswered
<1>4. Entry(x, m.to) = "opener"
  BY <1>3 DEF Entry, At
<1>5. wire' = Read(wire, x)
  BY <1>2, Replying DEF RcvOpenFail
<1>6. /\ tab' = Without(tab, x, m.to) /\ answers' = Called(answers, x, m.to, "err")
      /\ UNCHANGED <<ch, offers, asks, up>>
  BY <1>4 DEF RcvOpenFail, OpenFailure, Without, Called
<1>. HIDE DEF m
<1>. QED
  BY <1>1, <1>3, <1>5, <1>6, OpenFails

\* CHANNEL_REQUEST at the server
LEMMA RcvRequestStep ==
    ASSUME IInv, RcvRequest
    PROVE  IInv'
<1>. DEFINE m == Head(wire["server"])
            V == Read(wire, "server")
            i == ch["server"][m.to].peer
            a == [id |-> m.to, what |-> m.arg]
<1>1. "server" \in Sides /\ "client" \in Sides /\ Other("server") = "client"
  BY DEF Sides, Other
<1>2. Taken("server", m, "request")
  BY <1>1, Arriving DEF RcvRequest
<1>3. /\ m \in Range(wire["server"]) /\ m.type = "request" /\ Fine(tab, ch, offers, asks, V, up)
      /\ V["client"] = wire["client"] /\ m.to \in Ids
      /\ wire \in [Sides -> Seq(Messages)] /\ wire["server"] # <<>>
      /\ \A e \in Range(V["server"]) : Follows(m, e)
  BY <1>1, <1>2 DEF Taken, MessageFine
<1>4. wire' = V /\ UNCHANGED <<tab, ch, offers, up, answers>> /\ asks' \in {asks, asks \cup {a}}
  BY <1>1, <1>3, Replying DEF RcvRequest
<1>. HIDE DEF m, V
<1>5. /\ Session(ch, i, m.to) /\ m.arg \in Requests /\ ch["client"][i].waiting \in {"none", m.arg}
      /\ (\A b \in asks : b.id # m.to) /\ NoAnswer(wire, i)
  BY <1>3 DEF IInv, Fine, RequestsFine
<1>6. NoAnswer(V, i)
  BY <1>3, <1>5 DEF NoAnswer
<1>7. \A e \in Range(V["server"]) : e.type = "request" => e.to # m.to
  BY <1>3 DEF Follows, Token
<1>8. a \in [id : Ids, what : Requests] /\ a.id = m.to /\ a.what = m.arg
  BY <1>3, <1>5
<1>. HIDE DEF a
<1>9. Fine(tab, ch, offers, asks \cup {a}, V, up)
  <2>1. /\ Session(ch, ch["server"][a.id].peer, a.id)
        /\ ch["client"][ch["server"][a.id].peer].waiting \in {"none", a.what}
        /\ \A b \in asks : b.id # a.id
        /\ NoAnswer(V, ch["server"][a.id].peer)
        /\ \A e \in Range(V["server"]) : e.type = "request" => e.to # a.id
    BY <1>5, <1>6, <1>7, <1>8
  <2>. QED
    BY <2>1, <1>3, <1>8, Asked
<1>10. Fine(tab, ch, offers, asks', V, up)
  BY <1>3, <1>4, <1>9
<1>. QED
  BY <1>4, <1>10 DEF IInv

\* A request the application was asked about, and its answer.
LEMMA AskTaken ==
    ASSUME IInv, up["server"], NEW a \in asks
    PROVE  /\ Fine(tab, ch, offers, asks \ {a}, wire, up)
           /\ a.id \in Ids /\ a.what \in Requests /\ ch["server"][a.id].peer \in Ids
           /\ Session(ch, ch["server"][a.id].peer, a.id)
           /\ ch["client"][ch["server"][a.id].peer].waiting \in {"none", a.what}
           /\ NoAnswer(wire, ch["server"][a.id].peer)
           /\ \A b \in asks \ {a} : b.id # a.id
           /\ \A m \in Range(wire["server"]) : m.type = "request" => m.to # a.id
           /\ ch["server"][a.id] # Blank
<1>1. Fine(tab, ch, offers, asks, wire, up)
  BY DEF IInv
<1>2. /\ offers \in [Sides -> SUBSET [id : Ids, peer : Ids]] /\ asks \subseteq [id : Ids, what : Requests]
      /\ RequestsFine(ch, asks, wire)
  BY <1>1 DEF Fine, Typed
<1>3. a.id \in Ids /\ a.what \in Requests
  BY <1>2
<1>4. Fine(tab, ch, offers, asks \ {a}, wire, up)
  BY <1>1, <1>2, Decided
<1>5. /\ Session(ch, ch["server"][a.id].peer, a.id)
      /\ ch["client"][ch["server"][a.id].peer].waiting \in {"none", a.what}
      /\ NoAnswer(wire, ch["server"][a.id].peer)
      /\ \A b \in asks : b.id = a.id => b = a
  BY <1>2 DEF RequestsFine
<1>6. \A m \in Range(wire["server"]) : m.type = "request" => m.to # a.id
  BY <1>2 DEF RequestsFine
<1>7. ch["server"][a.id].peer \in Ids
  BY <1>5 DEF Session
<1>8. ch["server"][a.id] # Blank
  BY <1>7 DEF Blank, Ids
<1>. QED
  BY <1>3, <1>4, <1>5, <1>6, <1>7, <1>8

\* The answer of the server to a request of the session i, j
LEMMA AnswerSends ==
    ASSUME NEW T, NEW C, NEW O, NEW A, NEW W, NEW U, Fine(T, C, O, A, W, U), U["client"],
           NEW i \in Ids, NEW j \in Ids, Session(C, i, j), NoAnswer(W, i),
           C["server"][j].out \in Unclosed,
           \A b \in A : b.id # j, \A e \in Range(W["server"]) : e.type = "request" => e.to # j,
           NEW type \in {"success", "failure"},
           type = "success" /\ C["client"][i].waiting = "exec" => C["server"][j].chan
    PROVE  Sendable(T, C, O, A, W, U, "client", Msg(type, i, -1))
<1>. DEFINE m == Msg(type, i, -1)
<1>1. m \in Messages /\ m.type = type /\ m.to = i
  BY DEF Messages, Types, Msg
<1>. HIDE DEF m
<1>2. /\ "client" \in Sides /\ "server" \in Sides /\ Other("client") = "server"
      /\ Other("server") = "client" /\ -1 \notin Ids
  BY DEF Sides, Other, Ids
<1>3. C["client"][i].peer = j /\ C["server"][j].peer = i
  BY DEF Session
<1>4. Tied(T, C, W, U, "client", "server", j, i)
  BY <1>2, <1>3 DEF Fine, EndsFine
<1>5. At(T["client"], i) # "none"
  BY <1>4 DEF Tied
<1>6. ASSUME NEW e \in Range(W["client"]), e.type # "open", e.to = i
      PROVE  ~Last(e) /\ ~(Token(e) /\ Token(m))
  <2>1. ~Last(e)
    BY <1>4, <1>6 DEF Tied
  <2>2. e.type # "request"
    BY <1>2 DEF Fine, WireFine, Directed
  <2>3. ~Answering(e)
    BY <1>6 DEF NoAnswer
  <2>. QED
    BY <2>1, <2>2, <2>3 DEF Token, Answering
<1>7. \A k \in Ids : C["server"][k].peer = i => k = j
  BY <1>4 DEF Tied
<1>8. SendsAnswer(C, A, W, m)
  <2>1. ASSUME NEW e \in Range(W["server"]), e.type = "request"
        PROVE  C["server"][e.to].peer # i
    <3>1. e.to \in Ids
      BY <1>2, <2>1 DEF Fine, MessagesFine, MessageFine
    <3>. QED
      BY <3>1, <2>1, <1>7
  <2>2. ASSUME NEW b \in A
        PROVE  C["server"][b.id].peer # i
    <3>1. b.id \in Ids
      BY DEF Fine, Typed
    <3>. QED
      BY <3>1, <1>7
  <2>. QED
    BY <2>1, <2>2, <1>1, <1>3 DEF SendsAnswer
<1>9. m.type \notin {"open", "openfail", "confirm", "close", "request"} /\ Answering(m) /\ Directed("client", m)
  BY <1>1 DEF Answering, Directed
<1>10. Sendable(T, C, O, A, W, U, "client", m)
  <2>1. C[Other("client")][j].peer = m.to /\ m.to # -1 /\ At(T["client"], m.to) # "none"
    BY <1>1, <1>2, <1>3, <1>5
  <2>2. \A e \in Range(W["client"]) : e.type # "open" /\ e.to = m.to => ~Last(e) /\ ~(Token(e) /\ Token(m))
    BY <1>1, <1>6
  <2>. QED
    BY <2>1, <2>2, <1>1, <1>2, <1>8, <1>9, EndSends
<1>. QED
  BY <1>10 DEF m

\* accept() of a request
LEMMA AcceptRequestStep ==
    ASSUME IInv, up["server"], NEW a \in asks, AcceptRequest(a)
    PROVE  IInv'
<1>. DEFINE j == a.id
            c == ch["server"][j]
            i == c.peer
            d == [c EXCEPT !.chan = IF a.what = "exec" THEN TRUE ELSE @]
            D == WithEnd(ch, "server", j, d)
            B == asks \ {a}
            m == Msg("success", i, -1)
<1>1. /\ "server" \in Sides /\ "client" \in Sides /\ Other("server") = "client"
      /\ CallbacksFine(tab, ch, answers, up) /\ ExecFine(ch, answers)
      /\ ch \in [Sides -> [Ids -> Ends]] /\ wire \in [Sides -> Seq(Messages)]
      /\ answers \in [Sides -> [Ids -> Seq({"ok", "err"})]]
  BY DEF IInv, Fine, Typed, CallbacksFine, Sides, Other
<1>2. /\ Fine(tab, ch, offers, B, wire, up)
      /\ j \in Ids /\ a.what \in Requests /\ i \in Ids /\ Session(ch, i, j)
      /\ ch["client"][i].waiting \in {"none", a.what} /\ NoAnswer(wire, i)
      /\ \A b \in B : b.id # j
      /\ \A e \in Range(wire["server"]) : e.type = "request" => e.to # j
      /\ c # Blank
  BY AskTaken
<1>3. CASE ~Answerable(a)
  <2>1. wire' = wire /\ ch' = ch /\ asks' = B /\ UNCHANGED <<tab, offers, up, answers>>
    BY <1>3 DEF AcceptRequest
  <2>. QED
    BY <2>1, <1>1, <1>2 DEF IInv
<1>4. CASE Answerable(a)
  <2>1. c \in Ends /\ ~c.chan /\ c.kind = "session" /\ c.out = "open"
    <3>1. c \in Ends /\ c.kind = "session" /\ ~c.chan
      BY <1>1, <1>2, <1>4 DEF Session, Answerable
    <3>. QED
      BY <3>1, <1>2 DEF Fine, SessionsFine
  <2>. HIDE DEF c
  <2>2. /\ d \in Ends /\ d.kind = c.kind /\ d.peer = c.peer /\ d.out = c.out /\ d.in = c.in
        /\ d.waiting = c.waiting /\ d.closes = c.closes
        /\ a.what = "exec" => d.chan
        /\ a.what # "exec" => d = c
    BY <2>1 DEF Ends
  <2>3. /\ ch' = D /\ asks' = B /\ UNCHANGED <<tab, offers, up, answers>> /\ Send("server", <<m>>)
    <3>1. CASE a.what = "exec"
      BY <3>1, <1>4 DEF AcceptRequest, WithEnd, c
    <3>2. CASE a.what # "exec"
      <4>1. D = ch
        BY <3>2, <2>2, <1>1, <1>2 DEF WithEnd, c
      <4>2. ch' = ch
        BY <3>2, <1>4 DEF AcceptRequest
      <4>. QED
        BY <4>1, <4>2, <1>4 DEF AcceptRequest, c
    <3>. QED
      BY <3>1, <3>2
  <2>4. wire' = Put(wire, up, "client", m)
    <3>1. m \in Messages
      BY <1>2 DEF Messages, Types, Msg
    <3>. HIDE DEF m
    <3>. QED
      BY <3>1, <2>3, <1>1, Sending
  <2>. HIDE DEF d, B
  <2>5. Kept(ch, B, wire, "server", j, c, d)
    <3>1. c.peer # -1
      BY <1>2 DEF Ids
    <3>. QED
      BY <2>1, <2>2, <3>1 DEF Kept
  <2>6. Fine(tab, D, offers, B, wire, up)
    BY <2>2, <2>5, <1>1, <1>2, Gentler DEF c
  <2>7. OneEnd(ch, D, "server", j, d)
    BY <2>2, <1>1, <1>2, EndFacts
  <2>. HIDE DEF D
  <2>8. /\ D["server"][j] = d /\ D["client"] = ch["client"]
        /\ Session(D, i, j) /\ D["server"][j].out \in Unclosed
    <3>1. D["server"][j] = d /\ D["client"] = ch["client"]
      BY <2>7, <1>1 DEF OneEnd
    <3>. QED
      BY <3>1, <2>1, <2>2, <1>2 DEF Session, c, Unclosed
  <2>9. D["client"][i].waiting = "exec" => D["server"][j].chan
    BY <2>2, <2>8, <1>2
  <2>10. up["client"] => Sendable(tab, D, offers, B, wire, up, "client", m)
    <3>. HIDE DEF j, i
    <3>. QED
      BY <2>6, <2>8, <2>9, <1>2, AnswerSends
  <2>11. Fine(tab, D, offers, B, Put(wire, up, "client", m), up)
    BY <2>6, <2>10, <1>1, Puts
  <2>12. OnlyAt(tab, ch, answers, tab, D, answers, "server", j)
    BY <2>7 DEF OnlyAt, OneEnd
  <2>13. CallbackFine(At(tab["server"], j), D["server"][j], answers["server"][j], up["server"],
                      j > tab["server"].cur)
    <3>1. CallbackFine(At(tab["server"], j), c, answers["server"][j], up["server"],
                       j > tab["server"].cur)
      BY <1>1, <1>2 DEF CallbacksFine, c
    <3>. QED
      BY <3>1, <2>2, <2>8 DEF CallbackFine
  <2>14. CallbacksFine(tab, D, answers, up) /\ ExecFine(D, answers)
    <3>1. ~ch["server"][j].chan
      BY <2>1 DEF c
    <3>. QED
      BY <3>1, <2>12, <2>13, <1>1, <1>2, Settled
  <2>. QED
    BY <2>3, <2>4, <2>11, <2>14 DEF IInv
<1>. QED
  BY <1>3, <1>4

\* reject() of a request
LEMMA RejectRequestStep ==
    ASSUME IInv, up["server"], NEW a \in asks, RejectRequest(a)
    PROVE  IInv'
<1>. DEFINE j == a.id
            i == ch["server"][j].peer
            B == asks \ {a}
            m == Msg("failure", i, -1)
<1>1. /\ "server" \in Sides /\ "client" \in Sides /\ Other("server") = "client"
      /\ CallbacksFine(tab, ch, answers, up) /\ ExecFine(ch, answers)
      /\ wire \in [Sides -> Seq(Messages)]
  BY DEF IInv, Fine, Typed, CallbacksFine, Sides, Other
<1>2. /\ Fine(tab, ch, offers, B, wire, up)
      /\ j \in Ids /\ i \in Ids /\ Session(ch, i, j) /\ NoAnswer(wire, i)
      /\ \A b \in B : b.id # j
      /\ \A e \in Range(wire["server"]) : e.type = "request" => e.to # j
  BY AskTaken
<1>3. asks' = B /\ UNCHANGED <<tab, ch, offers, up, answers>>
  BY DEF RejectRequest
<1>4. CASE ~Answerable(a)
  <2>1. wire' = wire
    BY <1>4 DEF RejectRequest
  <2>. QED
    BY <2>1, <1>1, <1>2, <1>3 DEF IInv
<1>5. CASE Answerable(a)
  <2>1. ch["server"][j].out \in Unclosed
    <3>1. ch["server"][j].kind = "session" /\ ~ch["server"][j].chan
      BY <1>2, <1>5 DEF Session, Answerable
    <3>. QED
      BY <3>1, <1>2 DEF Fine, SessionsFine, Unclosed
  <2>2. wire' = Put(wire, up, "client", m)
    <3>1. m \in Messages
      BY <1>2 DEF Messages, Types, Msg
    <3>2. Send("server", <<m>>)
      BY <1>5 DEF RejectRequest
    <3>. HIDE DEF m
    <3>. QED
      BY <3>1, <3>2, <1>1, Sending
  <2>3. up["client"] => Sendable(tab, ch, offers, B, wire, up, "client", m)
    <3>. HIDE DEF j, i, B
    <3>. QED
      BY <2>1, <1>2, AnswerSends
  <2>4. Fine(tab, ch, offers, B, Put(wire, up, "client", m), up)
    BY <2>3, <1>1, <1>2, Puts
  <2>. QED
    BY <2>2, <2>4, <1>1, <1>3 DEF IInv
<1>. QED
  BY <1>4, <1>5

\* EOF or CLOSE of an end that could still send.
LEMMA EndingSends ==
    ASSUME NEW T, NEW C, NEW D, NEW O, NEW A, NEW W, NEW U,
           Fine(T, C, O, A, W, U), Fine(T, D, O, A, W, U),
           NEW x \in Sides, U[Other(x)], NEW i \in Ids, NEW p, p # -1,
           C[x][i].peer = p, D[x][i].peer = p, C[x][i].out \in Unclosed,
           NEW type \in {"eof", "close"}, type = "close" => D[x][i].out \notin Unclosed
    PROVE  Sendable(T, D, O, A, W, U, Other(x), Msg(type, p, -1))
<1>. DEFINE m == Msg(type, p, -1)
            y == Other(x)
<1>1. y \in Sides /\ Other(y) = x
  BY TwoSides
<1>2. p \in Ids
  <2>1. C[x][i] \in Ends
    BY DEF Fine, Typed
  <2>. QED
    BY <2>1 DEF Ends
<1>3. m \in Messages /\ m.type = type /\ m.to = p
  BY <1>2 DEF Messages, Types, Msg
<1>. HIDE DEF m, y
<1>4. Tied(T, C, W, U, y, x, i, p)
  BY DEF Fine, EndsFine, y
<1>5. At(T[y], p) # "none" /\ \A e \in Range(W[y]) : e.type # "open" /\ e.to = p => ~Last(e)
  BY <1>4 DEF Tied, y
<1>6. ~Token(m) /\ ~Answering(m) /\ Directed(y, m) /\ m.type \notin {"open", "openfail", "confirm", "request"}
  BY <1>3 DEF Token, Answering, Directed
<1>7. Sendable(T, D, O, A, W, U, y, m)
  <2>1. /\ D[Other(y)][i].peer = m.to /\ m.to # -1 /\ At(T[y], m.to) # "none"
        /\ m.type = "close" => D[Other(y)][i].out \notin Unclosed
        /\ U[y]
    BY <1>1, <1>3, <1>5 DEF y
  <2>2. \A e \in Range(W[y]) : e.type # "open" /\ e.to = m.to => ~Last(e) /\ ~(Token(e) /\ Token(m))
    BY <1>3, <1>5, <1>6
  <2>. QED
    BY <2>1, <2>2, <1>1, <1>3, <1>6, EndSends
<1>. QED
  BY <1>7 DEF m, y

\* A request of a session that has none under way.
LEMMA RequestSends ==
    ASSUME NEW T, NEW C, NEW O, NEW A, NEW W, NEW U, Fine(T, C, O, A, W, U), U["server"],
           NEW i \in Ids, NEW j \in Ids, Session(C, i, j), Tokenless(C, A, W, i),
           C["client"][i].out \in Unclosed,
           NEW what \in Requests, C["client"][i].waiting = what
    PROVE  Sendable(T, C, O, A, W, U, "server", Msg("request", j, what))
<1>. DEFINE m == Msg("request", j, what)
<1>1. m \in Messages /\ m.type = "request" /\ m.to = j /\ m.arg = what
  BY DEF Messages, Types, Msg
<1>. HIDE DEF m
<1>2. /\ "client" \in Sides /\ "server" \in Sides /\ Other("client") = "server"
      /\ Other("server") = "client" /\ -1 \notin Ids
  BY DEF Sides, Other, Ids
<1>3. C["client"][i].peer = j /\ C["server"][j].peer = i
  BY DEF Session
<1>4. Tied(T, C, W, U, "server", "client", i, j)
  BY <1>2, <1>3 DEF Fine, EndsFine
<1>5. At(T["server"], j) # "none"
  BY <1>4 DEF Tied
<1>6. ASSUME NEW e \in Range(W["server"]), e.type # "open", e.to = j
      PROVE  ~Last(e) /\ ~(Token(e) /\ Token(m))
  <2>1. ~Last(e)
    BY <1>4, <1>6 DEF Tied
  <2>2. ~Answering(e)
    BY <1>2 DEF Fine, WireFine, Directed
  <2>3. e.type # "request"
    BY <1>3, <1>6 DEF Tokenless
  <2>. QED
    BY <2>1, <2>2, <2>3 DEF Token, Answering
<1>7. SendsRequest(C, A, W, m)
  BY <1>1, <1>3 DEF SendsRequest, Tokenless
<1>8. m.type \notin {"open", "openfail", "confirm", "close"} /\ ~Answering(m) /\ Directed("server", m)
  BY <1>1 DEF Answering, Directed
<1>9. Sendable(T, C, O, A, W, U, "server", m)
  <2>1. C[Other("server")][i].peer = m.to /\ m.to # -1 /\ At(T["server"], m.to) # "none"
    BY <1>1, <1>2, <1>3, <1>5
  <2>2. \A e \in Range(W["server"]) : e.type # "open" /\ e.to = m.to => ~Last(e) /\ ~(Token(e) /\ Token(m))
    BY <1>1, <1>6
  <2>. QED
    BY <2>1, <2>2, <1>1, <1>2, <1>7, <1>8, EndSends
<1>. QED
  BY <1>9 DEF m

\* The answer to a request is read: the session has no other request under way.
LEMMA AnswerTaken ==
    ASSUME IInv, NEW m, NEW type \in {"success", "failure"}, Taken("client", m, type)
    PROVE  /\ m.to \in Ids /\ At(tab["client"], m.to) # "none"
           /\ Session(ch, m.to, ch["client"][m.to].peer) /\ ch["client"][m.to].peer \in Ids
           /\ type = "success" /\ ch["client"][m.to].waiting = "exec"
                 => ch["server"][ch["client"][m.to].peer].chan
           /\ Tokenless(ch, asks, Read(wire, "client"), m.to)
           /\ ch["client"][m.to] \in Ends /\ ch["client"][m.to] # Blank
<1>. DEFINE V == Read(wire, "client")
            i == m.to
<1>1. "client" \in Sides /\ Other("client") = "server"
  BY DEF Sides, Other
<1>2. /\ m \in Range(wire["client"]) /\ m.type = type /\ MessageFine(tab, ch, up, "client", m)
      /\ V["server"] = wire["server"] /\ \A e \in Range(V["client"]) : Follows(m, e)
  BY <1>1 DEF Taken
<1>. HIDE DEF V
<1>3. i \in Ids /\ At(tab["client"], i) # "none" /\ Answering(m) /\ m.type # "open" /\ Token(m)
  BY <1>2 DEF MessageFine, Answering, Token
<1>4. RequestsFine(ch, asks, wire) /\ ch \in [Sides -> [Ids -> Ends]]
  BY DEF IInv, Fine, Typed
<1>5. /\ Session(ch, i, ch["client"][i].peer) /\ ch["client"][i].peer \in Ids
      /\ type = "success" /\ ch["client"][i].waiting = "exec"
            => ch["server"][ch["client"][i].peer].chan
  BY <1>2, <1>3, <1>4 DEF RequestsFine, Session
<1>6. \A k : NoAnswer(wire, k) => k # i
  BY <1>2, <1>3 DEF NoAnswer
<1>7. \A e \in Range(V["server"]) : e.type = "request" => ch["server"][e.to].peer # i
  BY <1>2, <1>4, <1>6 DEF RequestsFine
<1>8. \A a \in asks : ch["server"][a.id].peer # i
  BY <1>4, <1>6 DEF RequestsFine
<1>9. NoAnswer(V, i)
  BY <1>2, <1>3 DEF NoAnswer, Answering, Follows, Token
<1>10. ch["client"][i] \in Ends /\ ch["client"][i] # Blank
  <2>1. Blank.peer = -1 /\ -1 \notin Ids
    BY DEF Blank, Ids
  <2>. QED
    BY <2>1, <1>1, <1>3, <1>4, <1>5
<1>. QED
  BY <1>3, <1>5, <1>7, <1>8, <1>9, <1>10 DEF Tokenless, V

\* CHANNEL_SUCCESS at the client
LEMMA RcvSuccessStep ==
    ASSUME IInv, RcvSuccess
    PROVE  IInv'
<1>. DEFINE x == "client"
            m == Head(wire[x])
            i == m.to
            c == ch[x][i]
            j == c.peer
            V == Read(wire, x)
            goes == Entry(x, i) = "channel" /\ c.waiting = "pty" /\ c.out = "open"
            ends == ~goes /\ Entry(x, i) = "channel" /\ c.waiting # "none"
<1>1. /\ x \in Sides /\ "server" \in Sides /\ Other(x) = "server"
      /\ CallbacksFine(tab, ch, answers, up) /\ ExecFine(ch, answers)
      /\ ch \in [Sides -> [Ids -> Ends]]
      /\ answers \in [Sides -> [Ids -> Seq({"ok", "err"})]]
  BY DEF IInv, Fine, Typed, CallbacksFine, Sides, Other
<1>2. Taken(x, m, "success")
  BY <1>1, Arriving DEF RcvSuccess
<1>3. /\ Fine(tab, ch, offers, asks, V, up) /\ wire \in [Sides -> Seq(Messages)] /\ wire[x] # <<>>
      /\ up[x]
  BY <1>2 DEF Taken
<1>. HIDE DEF V
<1>4. /\ i \in Ids /\ At(tab[x], i) # "none" /\ Session(ch, i, j) /\ j \in Ids /\ j # -1
      /\ c.waiting = "exec" => ch["server"][j].chan
      /\ Tokenless(ch, asks, V, i) /\ c \in Ends /\ c # Blank
  <2>1. m.to \in Ids /\ At(tab["client"], m.to) # "none" /\ Session(ch, m.to, ch["client"][m.to].peer)
        /\ ch["client"][m.to].peer \in Ids
        /\ (ch["client"][m.to].waiting = "exec" => ch["server"][ch["client"][m.to].peer].chan)
        /\ Tokenless(ch, asks, Read(wire, "client"), m.to)
        /\ ch["client"][m.to] \in Ends /\ ch["client"][m.to] # Blank
    <3>. HIDE DEF m
    <3>. QED
      BY <1>2, AnswerTaken
  <2>2. -1 \notin Ids
    BY DEF Ids
  <2>. QED
    BY <2>1, <2>2 DEF V
<1>5. UNCHANGED <<tab, offers, asks, up>>
  BY DEF RcvSuccess
<1>6. /\ ~(i > tab[x].cur) /\ c.closes = 0
      /\ c.waiting # "none" => answers[x][i] = <<>> /\ answers[x][i] # <<"ok">>
  <2>. HIDE DEF i
  <2>. QED
    BY <1>1, <1>3, <1>4, InUse
<1>7. CASE ~goes /\ ~ends
  <2>1. Reply(x, <<>>) /\ UNCHANGED <<ch, answers>>
    BY <1>7 DEF RcvSuccess
  <2>2. wire' = V
    BY <2>1, <1>1, <1>3, Replying DEF V
  <2>. QED
    BY <2>1, <2>2, <1>1, <1>3, <1>5 DEF IInv
<1>8. CASE goes
  <2>. DEFINE d == [c EXCEPT !.waiting = "exec"]
              D == WithEnd(ch, x, i, d)
              n == Msg("request", j, "exec")
  <2>1. ch' = D /\ answers' = answers /\ Reply(x, <<n>>)
    BY <1>8 DEF RcvSuccess, WithEnd
  <2>2. wire' = Put(V, up, "server", n)
    <3>1. n \in Messages
      BY <1>4 DEF Messages, Types, Msg, Requests
    <3>. HIDE DEF n
    <3>. QED
      BY <3>1, <2>1, <1>1, <1>3, Replying DEF V
  <2>3. /\ c.waiting = "pty" /\ c.out = "open" /\ At(tab[x], i) = "channel"
    BY <1>8 DEF Entry, At
  <2>. HIDE DEF c
  <2>4. /\ d \in Ends /\ d.kind = c.kind /\ d.peer = c.peer /\ d.out = c.out /\ d.chan = c.chan
        /\ d.waiting = "exec" /\ d.closes = c.closes
    BY <1>4 DEF Ends, Requests
  <2>. HIDE DEF d, i
  <2>5. Kept(ch, asks, V, x, i, c, d)
    <3>1. c.waiting # "none" /\ d.peer # -1
      BY <2>3, <2>4, <1>4
    <3>. QED
      BY <2>4, <3>1, <1>4 DEF Kept
  <2>6. Fine(tab, D, offers, asks, V, up)
    BY <2>4, <2>5, <1>1, <1>3, <1>4, Gentler DEF c
  <2>7. OneEnd(ch, D, x, i, d)
    BY <2>4, <1>1, <1>4, EndFacts
  <2>. HIDE DEF D
  <2>8. D[x][i] = d /\ D["server"] = ch["server"]
    BY <2>7, <1>1 DEF OneEnd
  <2>9. Session(D, i, j) /\ Tokenless(D, asks, V, i) /\ D[x][i].out \in Unclosed
        /\ D[x][i].waiting = "exec"
    BY <2>3, <2>4, <2>8, <1>4 DEF Session, Tokenless, Unclosed, c
  <2>10. up["server"] => Sendable(tab, D, offers, asks, V, up, "server", n)
    <3>1. "exec" \in Requests
      BY DEF Requests
    <3>. HIDE DEF j
    <3>. QED
      BY <3>1, <2>6, <2>9, <1>4, RequestSends
  <2>11. Fine(tab, D, offers, asks, Put(V, up, "server", n), up)
    BY <2>6, <2>10, <1>1, Puts
  <2>12. OnlyAt(tab, ch, answers, tab, D, answers, x, i)
    BY <2>7 DEF OnlyAt, OneEnd
  <2>13. CallbackFine(At(tab[x], i), D[x][i], answers[x][i], up[x], i > tab[x].cur)
    <3>1. CallbackFine(At(tab[x], i), c, answers[x][i], up[x], i > tab[x].cur)
      BY <1>1, <1>4 DEF CallbacksFine, c
    <3>. QED
      BY <3>1, <2>3, <2>4, <2>8 DEF CallbackFine
  <2>14. CallbacksFine(tab, D, answers, up) /\ ExecFine(D, answers)
    <3>1. answers[x][i] # <<"ok">>
      BY <2>3, <1>6
    <3>. QED
      BY <3>1, <2>12, <2>13, <1>1, <1>4, Settled
  <2>. QED
    BY <2>1, <2>2, <2>11, <2>14, <1>5 DEF IInv
<1>9. CASE ends
  <2>. DEFINE d == [c EXCEPT !.waiting = "none"]
              D == WithEnd(ch, x, i, d)
              r == IF c.waiting = "exec" THEN "ok" ELSE "err"
              Q == Called(answers, x, i, r)
  <2>1. ch' = D /\ answers' = Q /\ Reply(x, <<>>)
    BY <1>9 DEF RcvSuccess, WithEnd, Called
  <2>2. wire' = V
    BY <2>1, <1>1, <1>3, Replying DEF V
  <2>3. c.waiting # "none" /\ At(tab[x], i) = "channel" /\ r \in {"ok", "err"}
    BY <1>9 DEF Entry, At
  <2>. HIDE DEF c
  <2>4. /\ d \in Ends /\ d.kind = c.kind /\ d.peer = c.peer /\ d.out = c.out /\ d.chan = c.chan
        /\ d.waiting = "none" /\ d.closes = c.closes
    BY <1>4 DEF Ends
  <2>. HIDE DEF d, i
  <2>5. Kept(ch, asks, V, x, i, c, d)
    BY <2>4, <1>4 DEF Kept
  <2>6. Fine(tab, D, offers, asks, V, up)
    BY <2>4, <2>5, <1>1, <1>3, <1>4, Gentler DEF c
  <2>7. OneEnd(ch, D, x, i, d)
    BY <2>4, <1>1, <1>4, EndFacts
  <2>8. OneCall(answers, Q, x, i, r)
    <3>. HIDE DEF r
    <3>. QED
      BY <2>3, <1>1, <1>4, <1>6, CalledFacts
  <2>. HIDE DEF D, Q
  <2>9. D[x][i] = d /\ D["server"] = ch["server"]
    BY <2>7, <1>1 DEF OneEnd
  <2>10. OnlyAt(tab, ch, answers, tab, D, Q, x, i)
    BY <2>7, <2>8 DEF OnlyAt, OneEnd, OneCall
  <2>11. CallbackFine(At(tab[x], i), D[x][i], Q[x][i], up[x], i > tab[x].cur)
    <3>1. Q[x][i] \in Seq({"ok", "err"}) /\ Len(Q[x][i]) = 1
      BY <2>8 DEF OneCall
    <3>. QED
      BY <3>1, <2>3, <2>4, <2>9, <1>4, <1>6 DEF CallbackFine
  <2>12. Q[x][i] = <<"ok">> =>
           /\ D[x][i].peer \in Ids /\ D["server"][D[x][i].peer].chan
           /\ D["server"][D[x][i].peer].kind = "session"
    <3>1. Q[x][i] = <<"ok">> => c.waiting = "exec"
      BY <2>8 DEF OneCall
    <3>. QED
      BY <3>1, <2>4, <2>9, <1>4 DEF Session
  <2>13. CallbacksFine(tab, D, Q, up) /\ ExecFine(D, Q)
    <3>1. Q \in [Sides -> [Ids -> Seq({"ok", "err"})]]
      BY <2>8 DEF OneCall
    <3>. QED
      BY <3>1, <2>10, <2>11, <2>12, <1>1, <1>4, Settled
  <2>. QED
    BY <2>1, <2>2, <2>6, <2>13, <1>5 DEF IInv
<1>. QED
  BY <1>7, <1>8, <1>9

\* CHANNEL_FAILURE at the client
LEMMA RcvFailureStep ==
    ASSUME IInv, RcvFailure
    PROVE  IInv'
<1>. DEFINE x == "client"
            m == Head(wire[x])
            i == m.to
            c == ch[x][i]
            j == c.peer
            V == Read(wire, x)
            close == c.waiting = "pty" /\ c.out \in Unclosed
            d == [c EXCEPT !.waiting = "none", !.out = IF close THEN "closing" ELSE c.out]
            D == WithEnd(ch, x, i, d)
            n == Msg("close", j, -1)
            Q == Called(answers, x, i, "err")
<1>1. /\ x \in Sides /\ "server" \in Sides /\ Other(x) = "server"
      /\ CallbacksFine(tab, ch, answers, up) /\ ExecFine(ch, answers)
      /\ ch \in [Sides -> [Ids -> Ends]]
      /\ answers \in [Sides -> [Ids -> Seq({"ok", "err"})]]
  BY DEF IInv, Fine, Typed, CallbacksFine, Sides, Other
<1>2. Taken(x, m, "failure")
  BY <1>1, Arriving DEF RcvFailure
<1>3. /\ Fine(tab, ch, offers, asks, V, up) /\ wire \in [Sides -> Seq(Messages)] /\ wire[x] # <<>>
      /\ up[x]
  BY <1>2 DEF Taken
<1>. HIDE DEF V
<1>4. i \in Ids /\ At(tab[x], i) # "none" /\ j \in Ids /\ j # -1 /\ c \in Ends /\ c # Blank
  <2>1. m.to \in Ids /\ At(tab["client"], m.to) # "none" /\ ch["client"][m.to].peer \in Ids
        /\ ch["client"][m.to] \in Ends /\ ch["client"][m.to] # Blank
    <3>. HIDE DEF m
    <3>. QED
      BY <1>2, AnswerTaken
  <2>2. -1 \notin Ids
    BY DEF Ids
  <2>. QED
    BY <2>1, <2>2
<1>5. UNCHANGED <<tab, offers, asks, up>>
  BY DEF RcvFailure
<1>6. /\ ~(i > tab[x].cur) /\ c.closes = 0
      /\ c.waiting # "none" => answers[x][i] = <<>>
  <2>. HIDE DEF i
  <2>. QED
    BY <1>1, <1>3, <1>4, InUse
<1>7. CASE ~(Entry(x, i) = "channel" /\ c.waiting # "none")
  <2>1. Reply(x, <<>>) /\ UNCHANGED <<ch, answers>>
    BY <1>7 DEF RcvFailure
  <2>2. wire' = V
    BY <2>1, <1>1, <1>3, Replying DEF V
  <2>. QED
    BY <2>1, <2>2, <1>1, <1>3, <1>5 DEF IInv
<1>8. CASE Entry(x, i) = "channel" /\ c.waiting # "none"
  <2>1. ch' = D /\ answers' = Q /\ Reply(x, IF close THEN <<n>> ELSE <<>>)
    <3>1. ch' = D
      BY <1>8 DEF RcvFailure, WithEnd
    <3>2. answers' = Q
      BY <1>8 DEF RcvFailure, Called
    <3>3. Reply(x, IF close THEN <<n>> ELSE <<>>)
      BY <1>8, Zenon DEF RcvFailure
    <3>. QED
      BY <3>1, <3>2, <3>3
  <2>2. wire' = IF close THEN Put(V, up, "server", n) ELSE V
    <3>1. n \in Messages
      BY <1>4 DEF Messages, Types, Msg
    <3>. HIDE DEF n
    <3>2. /\ Reply(x, <<n>>) => wire' = Put(V, up, "server", n)
          /\ Reply(x, <<>>) => wire' = V
      BY <3>1, <1>1, <1>3, Replying DEF V
    <3>. QED
      BY <3>2, <2>1
  <2>3. At(tab[x], i) = "channel"
    BY <1>8 DEF Entry, At
  <2>. HIDE DEF c
  <2>4. /\ d \in Ends /\ d.kind = c.kind /\ d.peer = c.peer /\ d.chan = c.chan
        /\ d.waiting = "none" /\ d.closes = c.closes
        /\ d.out = IF close THEN "closing" ELSE c.out
    <3>1. (IF close THEN "closing" ELSE c.out) \in States
      BY <1>4 DEF Ends, States
    <3>. HIDE DEF close
    <3>. QED
      BY <3>1, <1>4 DEF Ends
  <2>. HIDE DEF d, i
  <2>5. Kept(ch, asks, V, x, i, c, d)
    BY <2>4, <1>4 DEF Kept, Unclosed
  <2>6. Fine(tab, D, offers, asks, V, up)
    BY <2>4, <2>5, <1>1, <1>3, <1>4, Gentler DEF c
  <2>7. OneEnd(ch, D, x, i, d)
    BY <2>4, <1>1, <1>4, EndFacts
  <2>8. OneCall(answers, Q, x, i, "err")
    BY <1>8, <1>1, <1>4, <1>6, CalledFacts
  <2>. HIDE DEF D, Q
  <2>9. D[x][i] = d
    BY <2>7, <1>1 DEF OneEnd
  <2>10. Fine(tab, D, offers, asks, wire', up)
    <3>1. CASE ~close
      BY <3>1, <2>2, <2>6
    <3>2. CASE close
      <4>1. /\ ch[x][i].peer = j /\ D[x][i].peer = j /\ ch[x][i].out \in Unclosed
            /\ D[x][i].out \notin Unclosed
        BY <3>2, <2>4, <2>9 DEF c, Unclosed
      <4>2. up["server"] => Sendable(tab, D, offers, asks, V, up, "server", n)
        <5>. HIDE DEF j, x
        <5>1. up[Other(x)] => Sendable(tab, D, offers, asks, V, up, Other(x), n)
          BY <4>1, <2>6, <1>1, <1>3, <1>4, EndingSends
        <5>. QED
          BY <5>1, <1>1
      <4>3. Fine(tab, D, offers, asks, Put(V, up, "server", n), up)
        BY <4>2, <2>6, <1>1, Puts
      <4>. QED
        BY <4>3, <3>2, <2>2
    <3>. QED
      BY <3>1, <3>2
  <2>11. OnlyAt(tab, ch, answers, tab, D, Q, x, i)
    BY <2>7, <2>8 DEF OnlyAt, OneEnd, OneCall
  <2>12. /\ Q \in [Sides -> [Ids -> Seq({"ok", "err"})]] /\ Q[x][i] # <<"ok">>
         /\ Q[x][i] \in Seq({"ok", "err"}) /\ Len(Q[x][i]) = 1
    BY <2>8 DEF OneCall
  <2>13. CallbackFine(At(tab[x], i), D[x][i], Q[x][i], up[x], i > tab[x].cur)
    BY <2>3, <2>4, <2>9, <2>12, <1>4, <1>6 DEF CallbackFine
  <2>14. CallbacksFine(tab, D, Q, up) /\ ExecFine(D, Q)
    BY <2>11, <2>12, <2>13, <1>1, <1>4, Settled
  <2>. QED
    BY <2>1, <2>10, <2>14, <1>5 DEF IInv
<1>. QED
  BY <1>7, <1>8

\* The callbacks when an end changes that has no callback to call.
LEMMA QuietChange ==
    ASSUME IInv, NEW x \in Sides, NEW i \in Ids, NEW D, NEW d, OneEnd(ch, D, x, i, d),
           d.kind = ch[x][i].kind, d.peer = ch[x][i].peer, d.chan = ch[x][i].chan,
           d.waiting = ch[x][i].waiting, d.closes = ch[x][i].closes,
           up[x] /\ d.closes = 1 => d.out = ch[x][i].out
    PROVE  CallbacksFine(tab, D, answers, up) /\ ExecFine(D, answers)
<1>1. /\ CallbacksFine(tab, ch, answers, up) /\ ExecFine(ch, answers)
      /\ answers \in [Sides -> [Ids -> Seq({"ok", "err"})]]
  BY DEF IInv, CallbacksFine
<1>2. D[x][i] = d /\ OnlyAt(tab, ch, answers, tab, D, answers, x, i)
  BY DEF OneEnd, OnlyAt
<1>3. CallbackFine(At(tab[x], i), D[x][i], answers[x][i], up[x], i > tab[x].cur)
  <2>1. CallbackFine(At(tab[x], i), ch[x][i], answers[x][i], up[x], i > tab[x].cur)
    BY <1>1 DEF CallbacksFine
  <2>. QED
    BY <2>1, <1>2 DEF CallbackFine
<1>. QED
  BY <1>1, <1>2, <1>3, Settled

\* A channel that the application holds.
LEMMA HeldEnd ==
    ASSUME IInv, NEW x \in Sides, up[x], NEW i \in Held(x)
    PROVE  /\ i \in Ids /\ ch[x][i] \in Ends /\ ch[x][i] # Blank /\ ch[x][i].chan
           /\ ch[x][i].peer \in Ids /\ ch[x][i].peer # -1
           /\ ch[x][i].out \in Unclosed => ch[x][i].closes # 1
<1>1. i \in Ids /\ ch[x][i].chan /\ ch[x][i] \in Ends
  BY DEF Held, IInv, Fine, Typed
<1>2. ch[x][i].peer # -1
  BY <1>1 DEF IInv, Fine, EndsFine, Loose
<1>3. ch[x][i].peer \in Ids
  BY <1>1, <1>2 DEF Ends
<1>4. ch[x][i] # Blank
  BY <1>2 DEF Blank
<1>5. CallbackFine(At(tab[x], i), ch[x][i], answers[x][i], up[x], i > tab[x].cur)
  BY <1>1 DEF IInv, CallbacksFine
<1>6. ch[x][i].out \in Unclosed => ch[x][i].closes # 1
  BY <1>5 DEF CallbackFine, Unclosed
<1>. QED
  BY <1>1, <1>2, <1>3, <1>4, <1>6

\* close()
LEMMA CloseStep ==
    ASSUME IInv, NEW x \in Sides, up[x], NEW i \in Held(x), Close(x, i)
    PROVE  IInv'
<1>. DEFINE c == ch[x][i]
            d == [c EXCEPT !.out = "closing"]
            D == WithEnd(ch, x, i, d)
            p == c.peer
            m == Msg("close", p, -1)
            y == Other(x)
<1>1. /\ y \in Sides /\ Fine(tab, ch, offers, asks, wire, up)
      /\ ch \in [Sides -> [Ids -> Ends]] /\ wire \in [Sides -> Seq(Messages)]
  BY TwoSides DEF IInv, Fine, Typed
<1>2. /\ i \in Ids /\ c \in Ends /\ c # Blank /\ c.chan /\ p \in Ids /\ p # -1
      /\ c.out \in Unclosed /\ c.closes # 1
  BY HeldEnd DEF Close
<1>3. ch' = D /\ UNCHANGED <<tab, offers, asks, up, answers>> /\ Send(x, <<m>>)
  BY DEF Close, WithEnd
<1>4. wire' = Put(wire, up, y, m)
  <2>1. m \in Messages
    BY <1>2 DEF Messages, Types, Msg
  <2>. HIDE DEF m
  <2>. QED
    BY <2>1, <1>1, <1>3, Sending
<1>. HIDE DEF c
<1>5. /\ d \in Ends /\ d.kind = c.kind /\ d.peer = c.peer /\ d.chan = c.chan
      /\ d.waiting = c.waiting /\ d.closes = c.closes /\ d.out = "closing"
  BY <1>2 DEF Ends, States
<1>. HIDE DEF d
<1>6. Kept(ch, asks, wire, x, i, c, d)
  BY <1>2, <1>5 DEF Kept, Unclosed
<1>7. Fine(tab, D, offers, asks, wire, up)
  BY <1>1, <1>2, <1>5, <1>6, Gentler DEF c
<1>8. OneEnd(ch, D, x, i, d)
  BY <1>1, <1>2, <1>5, EndFacts
<1>. HIDE DEF D, y
<1>9. up[y] => Sendable(tab, D, offers, asks, wire, up, y, m)
  <2>1. ch[x][i].peer = p /\ D[x][i].peer = p /\ ch[x][i].out \in Unclosed /\ D[x][i].out \notin Unclosed
    BY <1>2, <1>5, <1>8 DEF OneEnd, c, Unclosed
  <2>. HIDE DEF p
  <2>2. up[Other(x)] => Sendable(tab, D, offers, asks, wire, up, Other(x), m)
    BY <2>1, <1>1, <1>2, <1>7, EndingSends
  <2>. QED
    BY <2>2 DEF y
<1>10. Fine(tab, D, offers, asks, Put(wire, up, y, m), up)
  BY <1>1, <1>7, <1>9, Puts
<1>11. CallbacksFine(tab, D, answers, up) /\ ExecFine(D, answers)
  BY <1>2, <1>5, <1>8, QuietChange DEF c
<1>. QED
  BY <1>3, <1>4, <1>10, <1>11 DEF IInv

\* end(), at a client: EOF
LEMMA ClientEndStep ==
    ASSUME IInv, NEW x \in Sides, x # "server", up[x], NEW i \in Held(x), End(x, i)
    PROVE  IInv'
<1>. DEFINE c == ch[x][i]
            d == [c EXCEPT !.out = "eof"]
            D == WithEnd(ch, x, i, d)
            p == c.peer
            m == Msg("eof", p, -1)
            y == Other(x)
<1>1. /\ y \in Sides /\ Fine(tab, ch, offers, asks, wire, up)
      /\ ch \in [Sides -> [Ids -> Ends]] /\ wire \in [Sides -> Seq(Messages)]
  BY TwoSides DEF IInv, Fine, Typed
<1>2. /\ i \in Ids /\ c \in Ends /\ c # Blank /\ c.chan /\ p \in Ids /\ p # -1
      /\ c.out \in Unclosed /\ c.closes # 1
  BY HeldEnd DEF End, Unclosed
<1>3. ch' = D /\ UNCHANGED <<tab, offers, asks, up, answers>> /\ Send(x, <<m>> \o <<>>)
  BY DEF End, WithEnd
<1>4. wire' = Put(wire, up, y, m)
  <2>1. m \in Messages
    BY <1>2 DEF Messages, Types, Msg
  <2>. HIDE DEF m
  <2>. QED
    BY <2>1, <1>1, <1>3, Sending
<1>. HIDE DEF c
<1>5. /\ d \in Ends /\ d.kind = c.kind /\ d.peer = c.peer /\ d.chan = c.chan
      /\ d.waiting = c.waiting /\ d.closes = c.closes /\ d.out = "eof"
  BY <1>2 DEF Ends, States
<1>. HIDE DEF d
<1>6. Kept(ch, asks, wire, x, i, c, d)
  BY <1>2, <1>5 DEF Kept, Unclosed
<1>7. Fine(tab, D, offers, asks, wire, up)
  BY <1>1, <1>2, <1>5, <1>6, Gentler DEF c
<1>8. OneEnd(ch, D, x, i, d)
  BY <1>1, <1>2, <1>5, EndFacts
<1>. HIDE DEF D, y
<1>9. up[y] => Sendable(tab, D, offers, asks, wire, up, y, m)
  <2>1. ch[x][i].peer = p /\ D[x][i].peer = p /\ ch[x][i].out \in Unclosed
    BY <1>2, <1>5, <1>8 DEF OneEnd, c
  <2>. HIDE DEF p
  <2>2. up[Other(x)] => Sendable(tab, D, offers, asks, wire, up, Other(x), m)
    BY <2>1, <1>1, <1>2, <1>7, EndingSends
  <2>. QED
    BY <2>2 DEF y
<1>10. Fine(tab, D, offers, asks, Put(wire, up, y, m), up)
  BY <1>1, <1>7, <1>9, Puts
<1>11. CallbacksFine(tab, D, answers, up) /\ ExecFine(D, answers)
  BY <1>2, <1>5, <1>8, QuietChange DEF c
<1>. QED
  BY <1>3, <1>4, <1>10, <1>11 DEF IInv

\* end(), at a server: EOF and CLOSE
LEMMA ServerEndStep ==
    ASSUME IInv, NEW x \in Sides, x = "server", up[x], NEW i \in Held(x), End(x, i)
    PROVE  IInv'
<1>. DEFINE c == ch[x][i]
            d == [c EXCEPT !.out = "closing"]
            D == WithEnd(ch, x, i, d)
            p == c.peer
            m == Msg("eof", p, -1)
            n == Msg("close", p, -1)
            y == Other(x)
            W == Put(wire, up, y, m)
<1>1. /\ y \in Sides /\ Fine(tab, ch, offers, asks, wire, up)
      /\ ch \in [Sides -> [Ids -> Ends]] /\ wire \in [Sides -> Seq(Messages)]
  BY TwoSides DEF IInv, Fine, Typed
<1>2. /\ i \in Ids /\ c \in Ends /\ c # Blank /\ c.chan /\ p \in Ids /\ p # -1
      /\ c.out \in Unclosed /\ c.closes # 1
  BY HeldEnd DEF End, Unclosed
<1>3. ch' = D /\ UNCHANGED <<tab, offers, asks, up, answers>> /\ Send(x, <<m>> \o <<n>>)
  BY DEF End, WithEnd
<1>4. wire' = Put(W, up, y, n)
  <2>1. m \in Messages /\ n \in Messages
    BY <1>2 DEF Messages, Types, Msg
  <2>. HIDE DEF m, n
  <2>. QED
    BY <2>1, <1>1, <1>3, Sending
<1>. HIDE DEF c
<1>5. /\ d \in Ends /\ d.kind = c.kind /\ d.peer = c.peer /\ d.chan = c.chan
      /\ d.waiting = c.waiting /\ d.closes = c.closes /\ d.out = "closing"
  BY <1>2 DEF Ends, States
<1>. HIDE DEF d, y
<1>6. up[y] => Sendable(tab, ch, offers, asks, wire, up, y, m)
  <2>1. ch[x][i].peer = p /\ ch[x][i].out \in Unclosed
    BY <1>2 DEF c
  <2>. HIDE DEF p
  <2>2. up[Other(x)] => Sendable(tab, ch, offers, asks, wire, up, Other(x), m)
    BY <2>1, <1>1, <1>2, EndingSends
  <2>. QED
    BY <2>2 DEF y
<1>7. Fine(tab, ch, offers, asks, W, up)
  BY <1>1, <1>6, Puts
<1>. HIDE DEF W
<1>8. Kept(ch, asks, W, x, i, c, d)
  BY <1>2, <1>5 DEF Kept, Unclosed
<1>9. Fine(tab, D, offers, asks, W, up)
  BY <1>1, <1>2, <1>5, <1>7, <1>8, Gentler DEF c
<1>10. OneEnd(ch, D, x, i, d)
  BY <1>1, <1>2, <1>5, EndFacts
<1>. HIDE DEF D
<1>11. up[y] => Sendable(tab, D, offers, asks, W, up, y, n)
  <2>1. ch[x][i].peer = p /\ D[x][i].peer = p /\ ch[x][i].out \in Unclosed /\ D[x][i].out \notin Unclosed
    BY <1>2, <1>5, <1>10 DEF OneEnd, c, Unclosed
  <2>. HIDE DEF p
  <2>2. up[Other(x)] => Sendable(tab, D, offers, asks, W, up, Other(x), n)
    BY <2>1, <1>2, <1>7, <1>9, EndingSends
  <2>. QED
    BY <2>2 DEF y
<1>12. Fine(tab, D, offers, asks, Put(W, up, y, n), up)
  BY <1>1, <1>9, <1>11, Puts
<1>13. CallbacksFine(tab, D, answers, up) /\ ExecFine(D, answers)
  BY <1>2, <1>5, <1>10, QuietChange DEF c
<1>. QED
  BY <1>3, <1>4, <1>12, <1>13 DEF IInv

\* A message that only marks an end of a session or a channel.
LEMMA Marked ==
    ASSUME IInv, NEW x \in Sides, NEW m, NEW type, Taken(x, m, type), NEW i, i = m.to,
           At(tab[x], i) \in {"session", "channel"}, NEW d \in Ends,
           d.kind = ch[x][i].kind, d.peer = ch[x][i].peer, d.chan = ch[x][i].chan,
           d.waiting = ch[x][i].waiting, d.closes = ch[x][i].closes, d.out = ch[x][i].out,
           ch' = WithEnd(ch, x, i, d), wire' = Read(wire, x),
           UNCHANGED <<tab, offers, asks, up, answers>>
    PROVE  IInv'
<1>. DEFINE D == WithEnd(ch, x, i, d)
            V == Read(wire, x)
<1>1. /\ Fine(tab, ch, offers, asks, V, up) /\ up[x] /\ ch \in [Sides -> [Ids -> Ends]]
  BY DEF Taken, IInv, Fine, Typed
<1>2. i \in Ids /\ ch[x][i].peer # -1 /\ ch[x][i] # Blank
  BY <1>1, InUse
<1>. HIDE DEF V
<1>3. Kept(ch, asks, V, x, i, ch[x][i], d)
  BY <1>2 DEF Kept
<1>4. Fine(tab, D, offers, asks, V, up)
  BY <1>1, <1>2, <1>3, Gentler
<1>5. OneEnd(ch, D, x, i, d)
  BY <1>1, <1>2, EndFacts
<1>6. CallbacksFine(tab, D, answers, up) /\ ExecFine(D, answers)
  BY <1>2, <1>5, QuietChange
<1>. QED
  BY <1>4, <1>6 DEF IInv, V

\* CHANNEL_EOF
LEMMA RcvEofStep ==
    ASSUME IInv, NEW x \in Sides, RcvEof(x)
    PROVE  IInv'
<1>. DEFINE m == Head(wire[x])
            i == m.to
            c == ch[x][i]
            d == [c EXCEPT !.ending = (c.ending \/ Entry(x, i) = "session"),
                           !.in = IF c.chan /\ c.in = "open" THEN "eof" ELSE c.in]
<1>1. Taken(x, m, "eof")
  BY Arriving DEF RcvEof
<1>2. /\ Fine(tab, ch, offers, asks, Read(wire, x), up)
      /\ wire \in [Sides -> Seq(Messages)] /\ wire[x] # <<>> /\ MessageFine(tab, ch, up, x, m)
  BY <1>1 DEF Taken
<1>3. UNCHANGED <<tab, offers, asks, up, answers>> /\ wire' = Read(wire, x)
  BY <1>2, Replying DEF RcvEof
<1>4. CASE Entry(x, i) \notin {"session", "channel"}
  <2>1. ch' = ch
    BY <1>4 DEF RcvEof
  <2>. QED
    BY <2>1, <1>2, <1>3 DEF IInv
<1>5. CASE Entry(x, i) \in {"session", "channel"}
  <2>1. ch' = WithEnd(ch, x, i, d)
    BY <1>5 DEF RcvEof, WithEnd
  <2>2. At(tab[x], i) \in {"session", "channel"}
    BY <1>5 DEF Entry, At
  <2>3. c \in Ends
    <3>1. i \in Ids
      BY <1>2 DEF MessageFine
    <3>. HIDE DEF i
    <3>. QED
      BY <3>1 DEF IInv, Fine, Typed
  <2>. DEFINE ending == c.ending \/ Entry(x, i) = "session"
              in == IF c.chan /\ c.in = "open" THEN "eof" ELSE c.in
  <2>4. ending \in BOOLEAN /\ in \in States
    BY <2>3 DEF Ends, States
  <2>5. d = [c EXCEPT !.ending = ending, !.in = in]
    OBVIOUS
  <2>. HIDE DEF ending, in, c, d
  <2>6. /\ d \in Ends /\ d.kind = c.kind /\ d.peer = c.peer /\ d.chan = c.chan
        /\ d.waiting = c.waiting /\ d.closes = c.closes /\ d.out = c.out
    BY <2>3, <2>4, <2>5 DEF Ends
  <2>7. /\ d.kind = ch[x][i].kind /\ d.peer = ch[x][i].peer /\ d.chan = ch[x][i].chan
        /\ d.waiting = ch[x][i].waiting /\ d.closes = ch[x][i].closes /\ d.out = ch[x][i].out
    BY <2>6 DEF c
  <2>8. i = m.to
    OBVIOUS
  <2>. HIDE DEF i, m
  <2>. QED
    BY <2>1, <2>2, <2>6, <2>7, <2>8, <1>1, <1>3, Marked
<1>. QED
  BY <1>4, <1>5

\* CHANNEL_CLOSE for a channel: it is answered if the end could still send, and
\* the id is freed.
LEMMA ChannelCloses ==
    ASSUME IInv, NEW x \in Sides, NEW m, Taken(x, m, "close"), NEW i, i = m.to,
           At(tab[x], i) \in {"session", "channel"}, ch[x][i].chan, NEW d \in Ends,
           d.kind = ch[x][i].kind, d.peer = ch[x][i].peer, d.chan,
           d.waiting = "none", d.closes = 1, d.out = "closed",
           ch' = WithEnd(ch, x, i, d), tab' = Without(tab, x, i),
           answers' = IF ch[x][i].waiting # "none" THEN Called(answers, x, i, "err") ELSE answers,
           wire' = IF ch[x][i].out \in Unclosed
                   THEN Put(Read(wire, x), up, Other(x), Msg("close", ch[x][i].peer, -1))
                   ELSE Read(wire, x),
           UNCHANGED <<offers, asks, up>>
    PROVE  IInv'
<1>. DEFINE c == ch[x][i]
            p == c.peer
            D == WithEnd(ch, x, i, d)
            S == Without(tab, x, i)
            V == Read(wire, x)
            n == Msg("close", p, -1)
            Q == answers'
<1>1. /\ Fine(tab, ch, offers, asks, V, up) /\ up[x] /\ ch \in [Sides -> [Ids -> Ends]]
      /\ CallbacksFine(tab, ch, answers, up) /\ ExecFine(ch, answers)
      /\ DOMAIN tab = Sides /\ TableFine(tab[x])
      /\ answers \in [Sides -> [Ids -> Seq({"ok", "err"})]]
      /\ Other(x) \in Sides
  BY TwoSides DEF Taken, IInv, Fine, Typed, CallbacksFine
<1>2. /\ i \in Ids /\ p # -1 /\ c # Blank /\ ~(i > tab[x].cur)
      /\ answers[x][i] \in Seq({"ok", "err"}) /\ Len(answers[x][i]) <= 1
      /\ c.waiting # "none" => answers[x][i] = <<>>
  BY <1>1, InUse
<1>3. Freeable(tab, ch, offers, V, x, i)
  BY LastFrees
<1>. HIDE DEF V
<1>4. Fine(S, ch, offers, asks, V, up)
  BY <1>1, <1>3, Freed
<1>5. Kept(ch, asks, V, x, i, ch[x][i], d)
  BY <1>2 DEF Kept, Unclosed
<1>6. OneEnd(ch, D, x, i, d)
  BY <1>1, <1>2, EndFacts
<1>7. OneEntry(tab, S, x, i, "none")
  <2>1. At(tab[x], i) # "none"
    OBVIOUS
  <2>2. "opener" \in Entries
    BY DEF Entries
  <2>. QED
    BY <2>1, <2>2, <1>1, EntryFacts
<1>. HIDE DEF S
<1>8. Fine(S, D, offers, asks, V, up)
  BY <1>2, <1>4, <1>5, Gentler
<1>. HIDE DEF D
<1>9. Fine(S, D, offers, asks, wire', up)
  <2>1. CASE c.out \notin Unclosed
    BY <2>1, <1>8 DEF V
  <2>2. CASE c.out \in Unclosed
    <3>1. /\ ch[x][i].peer = p /\ D[x][i].peer = p /\ ch[x][i].out \in Unclosed
          /\ D[x][i].out \notin Unclosed
      BY <2>2, <1>6 DEF OneEnd, Unclosed
    <3>2. wire' = Put(V, up, Other(x), n)
      BY <2>2 DEF V
    <3>. HIDE DEF p
    <3>3. up[Other(x)] => Sendable(S, D, offers, asks, V, up, Other(x), n)
      BY <3>1, <1>2, <1>4, <1>8, EndingSends
    <3>4. Fine(S, D, offers, asks, Put(V, up, Other(x), n), up)
      BY <3>3, <1>1, <1>8, Puts
    <3>. QED
      BY <3>2, <3>4
  <2>. QED
    BY <2>1, <2>2
<1>10. /\ Q \in [Sides -> [Ids -> Seq({"ok", "err"})]]
       /\ Q[x][i] \in Seq({"ok", "err"}) /\ Len(Q[x][i]) <= 1
       /\ Q[x][i] = <<"ok">> => answers[x][i] = <<"ok">>
       /\ \A z \in Sides, k \in Ids : (z = x /\ k = i) \/ Q[z][k] = answers[z][k]
  <2>1. CASE c.waiting = "none"
    BY <2>1, <1>1, <1>2
  <2>2. CASE c.waiting # "none"
    <3>1. OneCall(answers, Called(answers, x, i, "err"), x, i, "err")
      BY <2>2, <1>1, <1>2, CalledFacts
    <3>2. Q = Called(answers, x, i, "err")
      BY <2>2
    <3>. HIDE DEF Q
    <3>3. OneCall(answers, Q, x, i, "err")
      BY <3>1, <3>2
    <3>4. /\ Q \in [Sides -> [Ids -> Seq({"ok", "err"})]] /\ Len(Q[x][i]) = 1
          /\ Q[x][i] \in Seq({"ok", "err"}) /\ Q[x][i] # <<"ok">>
      BY <3>3 DEF OneCall
    <3>5. \A z \in Sides, k \in Ids : (z = x /\ k = i) \/ Q[z][k] = answers[z][k]
      BY <3>3 DEF OneCall
    <3>. QED
      BY <3>4, <3>5
  <2>. QED
    BY <2>1, <2>2
<1>. HIDE DEF Q
<1>11. D[x][i] = d /\ OnlyAt(tab, ch, answers, S, D, Q, x, i)
  BY <1>6, <1>7, <1>10 DEF OnlyAt, OneEnd, OneEntry
<1>12. CallbackFine(At(S[x], i), D[x][i], Q[x][i], up[x], i > S[x].cur)
  <2>1. At(S[x], i) = "none" /\ ~(i > S[x].cur)
    BY <1>2, <1>7 DEF OneEntry
  <2>. QED
    BY <2>1, <1>10, <1>11 DEF CallbackFine
<1>13. CallbacksFine(S, D, Q, up) /\ ExecFine(D, Q)
  <2>1. /\ D[x][i].peer = ch[x][i].peer /\ D[x][i].kind = ch[x][i].kind /\ D[x][i].chan
        /\ Q \in [Sides -> [Ids -> Seq({"ok", "err"})]] /\ i \in Ids
    BY <1>2, <1>10, <1>11
  <2>2. x = "client" /\ Q[x][i] = <<"ok">> =>
           \/ answers[x][i] = <<"ok">> /\ D[x][i].peer = ch[x][i].peer
           \/ /\ D[x][i].peer \in Ids /\ D["server"][D[x][i].peer].chan
              /\ D["server"][D[x][i].peer].kind = "session"
    BY <2>1, <1>10
  <2>3. x = "server" /\ ch[x][i].chan /\ ch[x][i].kind = "session" =>
           D[x][i].chan /\ D[x][i].kind = "session"
    BY <2>1
  <2>4. /\ CallbacksFine(tab, ch, answers, up) /\ ExecFine(ch, answers)
        /\ OnlyAt(tab, ch, answers, S, D, Q, x, i)
        /\ CallbackFine(At(S[x], i), D[x][i], Q[x][i], up[x], i > S[x].cur)
    BY <1>1, <1>11, <1>12
  <2>. HIDE DEF c, p
  <2>. QED
    BY <2>1, <2>2, <2>3, <2>4, Settled
<1>. QED
  BY <1>9, <1>13 DEF IInv, S, D, Q

\* What is left of an end that is closed.
ClosedTo(c, d) ==
    /\ d \in Ends /\ d.kind = c.kind /\ d.peer = c.peer /\ d.chan = c.chan
    /\ d.waiting = "none" /\ d.closes = c.closes + 1
    /\ d.out \in Unclosed => c.out \in Unclosed

\* onCHANNEL_CLOSE() and the cleanup close an end.
LEMMA ClosedFacts ==
    ASSUME NEW c \in Ends
    PROVE  /\ ClosedTo(c, ClosedChannel(c, FALSE)) /\ ClosedChannel(c, FALSE).out = "closed"
           /\ ClosedTo(c, ClosedChannel(c, TRUE))
<1>. DEFINE out == IF c.out = "closing" THEN "closed"
                   ELSE IF c.waiting = "pty" /\ c.out \in Unclosed THEN "closing" ELSE c.out
<1>1. ASSUME NEW o \in States, o \in Unclosed => c.out \in Unclosed
      PROVE  LET d == [c EXCEPT !.in = "closed", !.waiting = "none", !.closes = c.closes + 1, !.out = o]
             IN  ClosedTo(c, d) /\ d.out = o
  <2>. DEFINE d == [c EXCEPT !.in = "closed", !.waiting = "none", !.closes = c.closes + 1, !.out = o]
  <2>1. /\ d \in Ends /\ d.kind = c.kind /\ d.peer = c.peer /\ d.chan = c.chan
        /\ d.waiting = "none" /\ d.closes = c.closes + 1 /\ d.out = o
    <3>1. c.closes + 1 \in Nat /\ "closed" \in States
      BY DEF Ends, States
    <3>. DEFINE k == c.closes + 1
    <3>2. k \in Nat
      BY <3>1
    <3>. HIDE DEF k
    <3>3. LET f == [c EXCEPT !.in = "closed", !.waiting = "none", !.closes = k, !.out = o]
          IN  /\ f \in Ends /\ f.kind = c.kind /\ f.peer = c.peer /\ f.chan = c.chan
              /\ f.waiting = "none" /\ f.closes = k /\ f.out = o
      BY <3>1, <3>2 DEF Ends
    <3>. QED
      BY <3>3 DEF k
  <2>. HIDE DEF d
  <2>. QED
    BY <2>1, <1>1 DEF ClosedTo, d
<1>2. "closed" \in States /\ "closed" \notin Unclosed /\ out \in States
  BY DEF Ends, States, Unclosed
<1>3. out \in Unclosed => c.out \in Unclosed
  BY DEF Unclosed
<1>4. ClosedChannel(c, FALSE) =
        [c EXCEPT !.in = "closed", !.waiting = "none", !.closes = c.closes + 1, !.out = "closed"]
  BY DEF ClosedChannel
<1>5. ClosedChannel(c, TRUE) =
        [c EXCEPT !.in = "closed", !.waiting = "none", !.closes = c.closes + 1, !.out = out]
  BY DEF ClosedChannel
<1>. HIDE DEF out
<1>6. ClosedTo(c, ClosedChannel(c, FALSE)) /\ ClosedChannel(c, FALSE).out = "closed"
  BY <1>1, <1>2, <1>4
<1>7. ClosedTo(c, ClosedChannel(c, TRUE))
  BY <1>1, <1>2, <1>3, <1>5
<1>. QED
  BY <1>6, <1>7

\* CHANNEL_CLOSE
LEMMA RcvCloseStep ==
    ASSUME IInv, NEW x \in Sides, RcvClose(x)
    PROVE  IInv'
<1>. DEFINE m == Head(wire[x])
            i == m.to
            c == ch[x][i]
<1>1. Taken(x, m, "close")
  BY Arriving DEF RcvClose
<1>2. /\ Fine(tab, ch, offers, asks, Read(wire, x), up) /\ up[x]
      /\ wire \in [Sides -> Seq(Messages)] /\ wire[x] # <<>> /\ MessageFine(tab, ch, up, x, m)
  BY <1>1 DEF Taken
<1>3. /\ Reply(x, <<>>) => wire' = Read(wire, x)
      /\ \A n \in Messages : Reply(x, <<n>>) => wire' = Put(Read(wire, x), up, Other(x), n)
  BY <1>2, Replying
<1>4. UNCHANGED <<offers, asks, up>>
  BY DEF RcvClose
<1>5. i \in Ids /\ c \in Ends
  <2>1. i \in Ids
    BY <1>2 DEF MessageFine
  <2>. HIDE DEF i
  <2>. QED
    BY <2>1 DEF IInv, Fine, Typed
<1>6. i = m.to
  OBVIOUS
<1>7. Entry(x, i) = At(tab[x], i)
  BY DEF Entry, At
<1>8. CASE Entry(x, i) \in {"session", "channel"} /\ c.chan
  <2>. DEFINE e == ClosedChannel(c, FALSE)
              ending == c.ending \/ Entry(x, i) = "session"
              d == [e EXCEPT !.ending = ending]
              n == Msg("close", c.peer, -1)
  <2>1. ch' = WithEnd(ch, x, i, d)
    BY <1>8 DEF RcvClose, WithEnd
  <2>2. tab' = Without(tab, x, i)
    BY <1>8 DEF RcvClose, Without
  <2>3. answers' = IF c.waiting # "none" THEN Called(answers, x, i, "err") ELSE answers
    BY <1>8 DEF RcvClose, Called
  <2>4. wire' = IF c.out \in Unclosed THEN Put(Read(wire, x), up, Other(x), n) ELSE Read(wire, x)
    <3>1. n \in Messages
      BY <1>5 DEF Ends, Messages, Types, Msg
    <3>2. Reply(x, CloseReply(c))
      BY <1>8 DEF RcvClose
    <3>3. CloseReply(c) = IF c.out \in Unclosed THEN <<n>> ELSE <<>>
      BY DEF CloseReply
    <3>. HIDE DEF n, c
    <3>. QED
      BY <3>1, <3>2, <3>3, <1>3
  <2>5. ending \in BOOLEAN
    BY <1>5 DEF Ends
  <2>6. c.closes = 0
    <3>1. At(tab[x], i) # "none"
      BY <1>7, <1>8
    <3>. HIDE DEF i
    <3>. QED
      BY <3>1, <1>2, InUse
  <2>. HIDE DEF c, ending
  <2>7. /\ e \in Ends /\ e.kind = c.kind /\ e.peer = c.peer /\ e.chan = c.chan
        /\ e.waiting = "none" /\ e.closes = 1 /\ e.out = "closed"
    <3>1. ClosedTo(c, e) /\ e.out = "closed"
      BY <1>5, ClosedFacts
    <3>. HIDE DEF e
    <3>. QED
      BY <3>1, <2>6 DEF ClosedTo
  <2>. HIDE DEF e
  <2>8. /\ d \in Ends /\ d.kind = c.kind /\ d.peer = c.peer /\ d.chan = c.chan
        /\ d.waiting = "none" /\ d.closes = 1 /\ d.out = "closed"
    BY <2>5, <2>7 DEF Ends
  <2>. HIDE DEF d
  <2>9. /\ d.kind = ch[x][i].kind /\ d.peer = ch[x][i].peer /\ d.chan /\ ch[x][i].chan
        /\ answers' = IF ch[x][i].waiting # "none" THEN Called(answers, x, i, "err") ELSE answers
        /\ wire' = IF ch[x][i].out \in Unclosed
                   THEN Put(Read(wire, x), up, Other(x), Msg("close", ch[x][i].peer, -1))
                   ELSE Read(wire, x)
    BY <2>3, <2>4, <2>8, <1>8 DEF c
  <2>10. At(tab[x], i) \in {"session", "channel"}
    BY <1>7, <1>8
  <2>. HIDE DEF m, i
  <2>. QED
    BY <2>1, <2>2, <2>8, <2>9, <2>10, <1>1, <1>4, <1>6, ChannelCloses
<1>9. CASE ~(Entry(x, i) \in {"session", "channel"} /\ c.chan)
  <2>1. wire' = Read(wire, x)
    BY <1>3, <1>9 DEF RcvClose
  <2>2. CASE Entry(x, i) = "session"
    <3>. DEFINE d == [c EXCEPT !.ending = TRUE]
    <3>1. ch' = WithEnd(ch, x, i, d) /\ UNCHANGED <<tab, answers>>
      BY <1>9, <2>2 DEF RcvClose, WithEnd
    <3>. HIDE DEF c
    <3>2. /\ d \in Ends /\ d.kind = c.kind /\ d.peer = c.peer /\ d.chan = c.chan
          /\ d.waiting = c.waiting /\ d.closes = c.closes /\ d.out = c.out
      BY <1>5 DEF Ends
    <3>. HIDE DEF d
    <3>3. /\ d.kind = ch[x][i].kind /\ d.peer = ch[x][i].peer /\ d.chan = ch[x][i].chan
          /\ d.waiting = ch[x][i].waiting /\ d.closes = ch[x][i].closes /\ d.out = ch[x][i].out
      BY <3>2 DEF c
    <3>4. At(tab[x], i) \in {"session", "channel"}
      BY <1>7, <2>2
    <3>. HIDE DEF i, m
    <3>. QED
      BY <3>1, <3>2, <3>3, <3>4, <2>1, <1>1, <1>4, <1>6, Marked
  <2>3. CASE Entry(x, i) = "opener" /\ x = "client"
    <3>1. /\ tab' = Without(tab, x, m.to) /\ answers' = Called(answers, x, m.to, "err")
          /\ ch' = ch
      BY <1>9, <2>3 DEF RcvClose, OpenFailure, Without, Called
    <3>2. At(tab[x], m.to) = "opener"
      BY <1>7, <2>3
    <3>. HIDE DEF m
    <3>. QED
      BY <3>1, <3>2, <2>1, <1>1, <1>4, OpenFails
  <2>4. CASE Entry(x, i) # "session" /\ ~(Entry(x, i) = "opener" /\ x = "client")
    <3>1. UNCHANGED <<tab, ch, answers>>
      BY <1>9, <2>4 DEF RcvClose
    <3>. QED
      BY <3>1, <2>1, <1>2, <1>4 DEF IInv
  <2>. QED
    BY <2>2, <2>3, <2>4
<1>. QED
  BY <1>8, <1>9

\* The socket closes: ChannelManager.cleanup()
LEMMA SockCloseStep ==
    ASSUME IInv, NEW x \in Sides, SockClose(x)
    PROVE  IInv'
<1>. DEFINE y == Other(x)
            V == [wire EXCEPT ![x] = <<>>]
            S == [tab EXCEPT ![x] = EmptyTable]
            U == [up EXCEPT ![x] = FALSE]
            visited == Visited(x)
            failing == {i \in visited : tab[x].channels[i] = "opener" \/ ch[x][i].waiting # "none"}
            D == ch'
            Q == answers'
<1>1. /\ y \in Sides /\ y # x /\ \A z \in Sides : z = x \/ z = y
      /\ Fine(tab, ch, offers, asks, wire, up) /\ ch \in [Sides -> [Ids -> Ends]]
      /\ CallbacksFine(tab, ch, answers, up) /\ ExecFine(ch, answers)
      /\ wire \in [Sides -> Seq(Messages)] /\ up \in [Sides -> BOOLEAN] /\ up[x]
      /\ answers \in [Sides -> [Ids -> Seq({"ok", "err"})]] /\ DOMAIN tab = Sides
      /\ TableFine(tab[x])
  BY TwoSides DEF IInv, Fine, Typed, CallbacksFine, SockClose
<1>2. tab' = S /\ up' = U /\ wire' = V /\ UNCHANGED <<offers, asks>>
  BY DEF SockClose
<1>3. /\ D = [ch EXCEPT ![x] = [i \in Ids |-> IF i \in visited /\ ch[x][i].chan
                                               THEN ClosedChannel(ch[x][i], TRUE) ELSE ch[x][i]]]
      /\ Q = [answers EXCEPT ![x] = [i \in Ids |-> IF i \in failing
                                                   THEN Append(answers[x][i], "err") ELSE answers[x][i]]]
  BY <1>1 DEF SockClose
<1>4. \A i \in visited : At(tab[x], i) # "none" /\ At(tab[x], i) = tab[x].channels[i]
  <2>1. \A i \in visited : i \in Live(tab[x])
    BY DEF Visited
  <2>. QED
    BY <2>1, <1>1, TableFacts DEF At
<1>5. \A i \in visited : ch[x][i].closes = 0 /\ (i \in failing => answers[x][i] = <<>>)
  BY <1>1, <1>4, InUse
<1>. HIDE DEF visited, failing, D, Q, V, S, U
<1>6. \A i \in Ids : ch[x][i] \in Ends
  BY <1>1
<1>7. ASSUME NEW i \in Ids
      PROVE  \/ D[x][i] = ch[x][i]
             \/ i \in visited /\ ch[x][i].chan /\ ClosedTo(ch[x][i], D[x][i])
  <2>1. D[x] = [k \in Ids |-> IF k \in visited /\ ch[x][k].chan
                              THEN ClosedChannel(ch[x][k], TRUE) ELSE ch[x][k]]
    BY <1>1, <1>3
  <2>2. D[x][i] = IF i \in visited /\ ch[x][i].chan THEN ClosedChannel(ch[x][i], TRUE) ELSE ch[x][i]
    BY <2>1
  <2>3. ClosedTo(ch[x][i], ClosedChannel(ch[x][i], TRUE))
    BY <1>6, ClosedFacts
  <2>. QED
    BY <2>2, <2>3
<1>8. D \in [Sides -> [Ids -> Ends]] /\ D[y] = ch[y]
  <2>1. \A i \in Ids : (IF i \in visited /\ ch[x][i].chan THEN ClosedChannel(ch[x][i], TRUE) ELSE ch[x][i]) \in Ends
    BY <1>6, ClosedFacts DEF ClosedTo
  <2>. QED
    BY <2>1, <1>1, <1>3
<1>9. Fine(tab, ch, offers, asks, V, up)
  <2>1. V \in [Sides -> Seq(Messages)] /\ V[x] = <<>> /\ V[y] = wire[y]
    BY <1>1, EmptyFacts DEF V
  <2>2. Ordered(<<>>) /\ Range(<<>>) = {}
    BY EmptyFacts
  <2>3. \A z \in Sides : /\ Range(V[z]) \subseteq Range(wire[z]) /\ Ordered(V[z])
                         /\ ~up[z] => V[z] = <<>>
    BY <2>1, <2>2, <1>1 DEF Fine, WireFine
  <2>. QED
    BY <2>1, <2>3, <1>1, Fewer
<1>10. Fine(tab, D, offers, asks, V, up)
  <2>1. ASSUME NEW i \in Ids, D[x][i] # ch[x][i]
        PROVE  ch[x][i] # Blank /\ Kept(ch, asks, V, x, i, ch[x][i], D[x][i])
    <3>1. ch[x][i].chan /\ ClosedTo(ch[x][i], D[x][i])
      BY <2>1, <1>7
    <3>2. ch[x][i].peer # -1
      BY <3>1, <1>1 DEF Fine, EndsFine, Loose
    <3>. QED
      BY <3>1, <3>2 DEF ClosedTo, Kept, Blank
  <2>2. \A z \in Sides, i \in Ids :
          D[z][i] = ch[z][i] \/ (ch[z][i] # Blank /\ Kept(ch, asks, V, z, i, ch[z][i], D[z][i]))
    BY <2>1, <1>1, <1>8
  <2>. QED
    BY <2>2, <1>8, <1>9, Gentle
<1>11. Fine(S, D, offers, asks, V, U)
  <2>1. V[x] = <<>>
    BY <1>1 DEF V
  <2>. QED
    BY <2>1, <1>10, Gone DEF S, U
<1>12. ASSUME NEW i \in Ids
       PROVE  /\ Q[x][i] \in Seq({"ok", "err"}) /\ Len(Q[x][i]) <= 1
              /\ Q[x][i] = <<"ok">> => answers[x][i] = <<"ok">>
  <2>1. Q[x][i] = IF i \in failing THEN Append(answers[x][i], "err") ELSE answers[x][i]
    BY <1>1, <1>3
  <2>2. answers[x][i] \in Seq({"ok", "err"}) /\ Len(answers[x][i]) <= 1
    BY <1>1 DEF CallbacksFine, CallbackFine
  <2>3. CASE i \notin failing
    BY <2>1, <2>2, <2>3
  <2>4. CASE i \in failing
    <3>1. i \in visited
      BY <2>4 DEF failing
    <3>2. answers[x][i] = <<>>
      BY <2>4, <3>1, <1>5
    <3>3. Append(<<>>, "err") = <<"err">> /\ <<"err">> \in Seq({"ok", "err"}) /\ Len(<<"err">>) = 1
          /\ <<"err">> # <<"ok">>
      OBVIOUS
    <3>4. Q[x][i] = <<"err">>
      BY <2>1, <2>4, <3>2, <3>3
    <3>. QED
      BY <3>3, <3>4
  <2>. QED
    BY <2>3, <2>4
<1>13. Q \in [Sides -> [Ids -> Seq({"ok", "err"})]] /\ Q[y] = answers[y]
  <2>. DEFINE q == [i \in Ids |-> IF i \in failing THEN Append(answers[x][i], "err") ELSE answers[x][i]]
  <2>1. Q[x] = q /\ DOMAIN Q = Sides /\ Q[y] = answers[y] /\ DOMAIN q = Ids
    BY <1>1, <1>3
  <2>2. Q = [z \in Sides |-> IF z = x THEN q ELSE answers[z]]
    BY <1>1, <1>3
  <2>3. q = [i \in Ids |-> Q[x][i]]
    BY <2>1
  <2>. HIDE DEF q
  <2>4. q \in [Ids -> Seq({"ok", "err"})]
    BY <2>3, <1>12
  <2>. QED
    BY <2>1, <2>2, <2>4, <1>1
<1>14. CallbacksFine(S, D, Q, U)
  <2>1. /\ S[y] = tab[y] /\ (U[y] <=> up[y]) /\ U[x] = FALSE
    BY <1>1 DEF S, U
  <2>2. ASSUME NEW i \in Ids
        PROVE  CallbackFine(At(S[y], i), D[y][i], Q[y][i], U[y], i > S[y].cur)
    <3>1. CallbackFine(At(tab[y], i), ch[y][i], answers[y][i], up[y], i > tab[y].cur)
      BY <1>1 DEF CallbacksFine
    <3>. QED
      BY <3>1, <2>1, <1>8, <1>13 DEF CallbackFine
  <2>3. ASSUME NEW i \in Ids
        PROVE  CallbackFine(At(S[x], i), D[x][i], Q[x][i], U[x], i > S[x].cur)
    <3>1. D[x][i].closes <= 1
      <4>1. ch[x][i].closes <= 1
        BY <1>1 DEF CallbacksFine, CallbackFine
      <4>2. i \in visited /\ ClosedTo(ch[x][i], D[x][i]) => D[x][i].closes = 1
        BY <1>5 DEF ClosedTo
      <4>. QED
        BY <4>1, <4>2, <1>7
    <3>. QED
      BY <3>1, <2>1, <1>12 DEF CallbackFine
  <2>. QED
    BY <2>2, <2>3, <1>1, <1>13 DEF CallbacksFine
<1>15. ExecFine(D, Q)
  <2>1. \A z \in Sides, k \in Ids :
           /\ D[z][k].peer = ch[z][k].peer /\ D[z][k].kind = ch[z][k].kind
           /\ D[z][k].chan = ch[z][k].chan
           /\ Q[z][k] = <<"ok">> => answers[z][k] = <<"ok">>
    <3>1. \A k \in Ids : /\ D[x][k].peer = ch[x][k].peer /\ D[x][k].kind = ch[x][k].kind
                        /\ D[x][k].chan = ch[x][k].chan
      BY <1>7 DEF ClosedTo
    <3>. QED
      BY <3>1, <1>1, <1>8, <1>12, <1>13
  <2>2. "client" \in Sides /\ "server" \in Sides
    BY DEF Sides
  <2>3. \A k \in Ids : Q["client"][k] = <<"ok">> =>
             answers["client"][k] = <<"ok">> /\ D["client"][k].peer = ch["client"][k].peer
    BY <2>1, <2>2
  <2>4. \A j \in Ids : ch["server"][j].chan /\ ch["server"][j].kind = "session" =>
             D["server"][j].chan /\ D["server"][j].kind = "session"
    BY <2>1, <2>2
  <2>. QED
    BY <2>3, <2>4, <1>1 DEF ExecFine
<1>. QED
  BY <1>2, <1>11, <1>14, <1>15 DEF IInv, D, Q

-----------------------------------------------------------------------------
(* The invariant holds in every state.                                     *)

\* A new connection.
LEMMA Start ==
    ASSUME Init
    PROVE  IInv
<1>1. Blank \in Ends /\ Loose(Blank) /\ Blank.peer = -1 /\ Blank.kind = "none" /\ ~Blank.chan
      /\ Blank.waiting = "none" /\ Blank.closes = 0
  BY DEF Blank, Ends, Kinds, States, Requests, Loose
<1>2. /\ DOMAIN tab = Sides /\ up \in [Sides -> BOOLEAN] /\ ch \in [Sides -> [Ids -> Ends]]
      /\ offers \in [Sides -> SUBSET [id : Ids, peer : Ids]] /\ asks = {}
      /\ \A x \in Sides : /\ tab[x] = EmptyTable /\ offers[x] = {} /\ wire[x] = <<>> /\ up[x]
                          /\ \A i \in Ids : ch[x][i] = Blank
      /\ "client" \in Sides /\ "server" \in Sides
      /\ \A x \in Sides : Other(x) \in Sides
  BY <1>1, TwoSides DEF Init, Sides
<1>3. TableFine(EmptyTable) /\ EmptyTable.cur = -1 /\ \A i : At(EmptyTable, i) = "none"
  BY EmptyTableFine DEF EmptyTable
<1>4. wire \in [Sides -> Seq(Messages)] /\ \A x \in Sides : Range(wire[x]) = {} /\ Ordered(wire[x])
  BY <1>2, EmptyFacts DEF Init
<1>5. Typed(tab, ch, offers, asks, wire, up)
  BY <1>2, <1>3, <1>4 DEF Typed
<1>6. WireFine(wire, up)
  BY <1>2, <1>4 DEF WireFine
<1>7. IdsFine(tab, ch, wire, up)
  <2>1. \A x \in Sides : Mine(ch, x) = {} /\ Opening(wire[x]) = {}
    BY <1>1, <1>2, <1>4 DEF Mine, Opening, Own
  <2>2. Cardinality({}) = 0
    BY FS_EmptySet
  <2>3. /\ Cardinality(Mine(ch, "client")) = 0 /\ Cardinality(Mine(ch, "server")) = 0
        /\ \A x \in Sides : Cardinality(Opening(wire[x])) = 0 /\ tab[x].cur = -1
    BY <2>1, <2>2, <1>2, <1>3
  <2>4. Opened(ch) = 0
    BY <2>3 DEF Opened
  <2>5. 0 <= MaxOpens
    BY LifecycleAssumption
  <2>6. \A x \in Sides : tab[x].cur + 1 + Cardinality(Opening(wire[x])) <= Opened(ch)
    BY <2>3, <2>4
  <2>. QED
    BY <2>4, <2>5, <2>6, <1>2 DEF IdsFine
<1>8. OpensFine(tab, ch, offers, wire, up) /\ OffersFine(tab, ch, offers, wire, up)
  BY <1>2, <1>4 DEF OpensFine, OffersFine
<1>9. EndsFine(tab, ch, wire, up)
  BY <1>1, <1>2 DEF EndsFine
<1>10. MessagesFine(tab, ch, wire, up) /\ RequestsFine(ch, asks, wire)
  BY <1>2, <1>4 DEF MessagesFine, RequestsFine
<1>11. SessionsFine(ch)
  BY <1>1, <1>2 DEF SessionsFine
<1>12. answers \in [Sides -> [Ids -> Seq({"ok", "err"})]] /\ \A x \in Sides, i \in Ids : answers[x][i] = <<>>
  BY DEF Init
<1>13. CallbacksFine(tab, ch, answers, up)
  <2>1. ASSUME NEW x \in Sides, NEW i \in Ids
        PROVE  CallbackFine(At(tab[x], i), ch[x][i], answers[x][i], up[x], i > tab[x].cur)
    <3>1. At(tab[x], i) = "none" /\ ch[x][i] = Blank /\ answers[x][i] = <<>>
      BY <1>2, <1>3, <1>12
    <3>2. <<>> \in Seq({"ok", "err"}) /\ Len(<<>>) = 0
      OBVIOUS
    <3>. QED
      BY <3>1, <3>2, <1>1 DEF CallbackFine
  <2>. QED
    BY <2>1, <1>12 DEF CallbacksFine
<1>14. ExecFine(ch, answers)
  <2>1. <<>> # <<"ok">>
    OBVIOUS
  <2>. QED
    BY <2>1, <1>2, <1>12 DEF ExecFine
<1>. QED
  BY <1>5, <1>6, <1>7, <1>8, <1>9, <1>10, <1>11, <1>13, <1>14 DEF IInv, Fine

\* A message is delivered.
LEMMA DeliverStep ==
    ASSUME IInv, NEW x \in Sides, Deliver(x)
    PROVE  IInv'
<1>1. CASE RcvOpen(x)
  BY <1>1, RcvOpenStep
<1>2. CASE RcvOpenRefused(x)
  BY <1>2, RcvOpenRefusedStep
<1>3. CASE RcvConfirm(x)
  BY <1>3, RcvConfirmStep
<1>4. CASE RcvOpenFail(x)
  BY <1>4, RcvOpenFailStep
<1>5. CASE RcvEof(x)
  BY <1>5, RcvEofStep
<1>6. CASE RcvClose(x)
  BY <1>6, RcvCloseStep
<1>7. CASE RcvRequest
  BY <1>7, RcvRequestStep
<1>8. CASE RcvSuccess
  BY <1>8, RcvSuccessStep
<1>9. CASE RcvFailure
  BY <1>9, RcvFailureStep
<1>. QED
  BY <1>1, <1>2, <1>3, <1>4, <1>5, <1>6, <1>7, <1>8, <1>9 DEF Deliver

\* Every step keeps the invariant.
LEMMA Inductive ==
    ASSUME IInv, [Next]_vars
    PROVE  IInv'
<1>1. ASSUME NEW pty \in BOOLEAN, Exec(pty)
      PROVE  IInv'
  <2>1. /\ "client" \in Sides /\ up["client"] /\ Opens < MaxOpens
        /\ OpenChannel("client", Own("client"), pty)
    BY <1>1 DEF Exec, Own, Sides
  <2>. QED
    BY <2>1, OpenChannelStep
<1>2. CASE Forward
  <2>1. /\ "server" \in Sides /\ up["server"] /\ Opens < MaxOpens
        /\ OpenChannel("server", Own("server"), FALSE)
    BY <1>2 DEF Forward, Own, Sides
  <2>. QED
    BY <2>1, OpenChannelStep
<1>3. ASSUME NEW x \in Sides, Deliver(x)
      PROVE  IInv'
  BY <1>3, DeliverStep
<1>4. ASSUME NEW x \in Sides, DecideOpen(x)
      PROVE  IInv'
  <2>1. PICK o \in offers[x] : AcceptOpen(x, o) \/ RejectOpen(x, o)
    BY <1>4 DEF DecideOpen
  <2>2. up[x]
    BY <1>4 DEF DecideOpen
  <2>3. CASE AcceptOpen(x, o)
    BY <2>2, <2>3, AcceptOpenStep
  <2>4. CASE RejectOpen(x, o)
    BY <2>2, <2>4, RejectOpenStep
  <2>. QED
    BY <2>1, <2>3, <2>4
<1>5. ASSUME NEW x \in Sides, SockClose(x)
      PROVE  IInv'
  BY <1>5, SockCloseStep
<1>6. CASE DecideRequest
  <2>1. PICK a \in asks : AcceptRequest(a) \/ RejectRequest(a)
    BY <1>6 DEF DecideRequest
  <2>2. up["server"]
    BY <1>6 DEF DecideRequest
  <2>3. CASE AcceptRequest(a)
    BY <2>2, <2>3, AcceptRequestStep
  <2>4. CASE RejectRequest(a)
    BY <2>2, <2>4, RejectRequestStep
  <2>. QED
    BY <2>1, <2>3, <2>4
<1>7. ASSUME NEW x \in Sides, up[x], NEW i \in Held(x), End(x, i)
      PROVE  IInv'
  <2>1. CASE x = "server"
    BY <1>7, <2>1, ServerEndStep
  <2>2. CASE x # "server"
    BY <1>7, <2>2, ClientEndStep
  <2>. QED
    BY <2>1, <2>2
<1>8. ASSUME NEW x \in Sides, up[x], NEW i \in Held(x), Close(x, i)
      PROVE  IInv'
  BY <1>8, CloseStep
<1>9. CASE UNCHANGED vars
  BY <1>9 DEF vars, IInv
<1>. QED
  BY <1>1, <1>2, <1>3, <1>4, <1>5, <1>6, <1>7, <1>8, <1>9 DEF Next

\* The invariant holds in every reachable state of the two sides, of the messages
\* between them and of the callbacks.
THEOREM Invariance == Spec => []IInv
<1>1. Init => IInv
  BY Start
<1>2. IInv /\ [Next]_vars => IInv'
  BY Inductive
<1>. QED
  BY <1>1, <1>2, PTL DEF Spec

-----------------------------------------------------------------------------
(* What follows from it.                                                   *)

\* openChannel(), exec() and onCHANNEL_CLOSE(): no callback is called twice or
\* before the outcome is known, and 'close' is emitted once, for an id that is free.
THEOREM CallbacksOnce == Spec => []AnsweredOnce
<1>1. IInv => AnsweredOnce
  <2>. SUFFICES ASSUME IInv, NEW x \in Sides, NEW i \in Ids
                PROVE  /\ Len(answers[x][i]) <= 1
                       /\ up[x] /\ (Entry(x, i) = "opener" \/ ch[x][i].waiting # "none")
                             => answers[x][i] = <<>>
                       /\ ch[x][i].closes <= 1
                       /\ up[x] /\ ch[x][i].closes = 1
                             => ch[x][i].out = "closed" /\ i \notin Live(tab[x])
    BY DEF AnsweredOnce
  <2>1. CallbackFine(At(tab[x], i), ch[x][i], answers[x][i], up[x], i > tab[x].cur)
    BY DEF IInv, CallbacksFine
  <2>2. Entry(x, i) = At(tab[x], i)
    BY DEF Entry, At
  <2>3. At(tab[x], i) = "none" => i \notin Live(tab[x])
    <3>1. TableFine(tab[x])
      BY DEF IInv, Fine, Typed
    <3>. QED
      BY <3>1, TableFacts
  <2>. QED
    BY <2>1, <2>2, <2>3 DEF CallbackFine
<1>. QED
  BY <1>1, Invariance, PTL

\* The variables keep their ranges, the two ends of a channel know each other,
\* and an exec() that called back without an error runs at the server.
THEOREM EndsAgree == Spec => []PeersAgree
<1>1. IInv => TypeOK
  <2>. SUFFICES ASSUME IInv PROVE TypeOK
    OBVIOUS
  <2>1. Typed(tab, ch, offers, asks, wire, up) /\ answers \in [Sides -> [Ids -> Seq({"ok", "err"})]]
    BY DEF IInv, Fine, CallbacksFine
  <2>2. ASSUME NEW x \in Sides
        PROVE  /\ Live(tab[x]) \subseteq Ids
               /\ \A i \in Live(tab[x]) :
                     tab[x].channels[i] \in {"opener", "reserved", "session", "channel"}
               /\ tab[x].count = Cardinality(Live(tab[x]))
               /\ offers[x] \subseteq [id : Ids, peer : Ids]
    <3>1. TableFine(tab[x]) /\ offers[x] \subseteq [id : Ids, peer : Ids]
      BY <2>1 DEF Typed
    <3>2. Live(tab[x]) \subseteq Ids /\ tab[x].count = Cardinality(Live(tab[x]))
      BY <3>1, TableFacts
    <3>3. \A i \in Live(tab[x]) : tab[x].channels[i] \in Entries
      BY <3>1 DEF TableFine
    <3>. QED
      BY <3>1, <3>2, <3>3 DEF Entries
  <2>3. ch \in [Sides -> [Ids -> Ends]] /\ asks \subseteq [id : Ids, what : Requests]
        /\ up \in [Sides -> BOOLEAN]
    BY <2>1 DEF Typed
  <2>. QED
    BY <2>1, <2>2, <2>3 DEF TypeOK, Ends, Kinds
<1>2. ASSUME IInv, NEW i \in Ids, ch["client"][i].chan
      PROVE  LET c == ch["client"][i]
                 s == ch["server"][c.peer]
             IN  /\ s.chan => s.peer = i /\ s.kind = c.kind
                 /\ answers["client"][i] = <<"ok">> => s.chan /\ s.kind = "session"
  <2>. DEFINE p == ch["client"][i].peer
  <2>1. /\ "client" \in Sides /\ "server" \in Sides /\ Other("client") = "server"
        /\ EndsFine(tab, ch, wire, up) /\ ch["client"][i] \in Ends
    BY <1>2 DEF IInv, Fine, Typed, Sides, Other
  <2>2. p # -1
    BY <2>1, <1>2 DEF EndsFine, Loose
  <2>3. p \in Ids
    BY <2>1, <2>2 DEF Ends
  <2>4. Tied(tab, ch, wire, up, "server", "client", i, p)
    <3>1. Tied(tab, ch, wire, up, Other("client"), "client", i, p)
      BY <2>1, <2>2 DEF EndsFine
    <3>. QED
      BY <3>1, <2>1
  <2>5. ch["server"][p].chan => ch["server"][p].peer # -1
    BY <2>1, <2>3 DEF EndsFine, Loose
  <2>6. ch["server"][p].chan => ch["server"][p].peer = i /\ ch["server"][p].kind = ch["client"][i].kind
    BY <2>4, <2>5 DEF Tied
  <2>7. answers["client"][i] = <<"ok">> => ch["server"][p].chan /\ ch["server"][p].kind = "session"
    BY <1>2 DEF IInv, ExecFine
  <2>. QED
    BY <2>6, <2>7
<1>3. IInv => PeersAgree
  BY <1>1, <1>2 DEF PeersAgree
<1>. QED
  BY <1>3, Invariance, PTL

\* Whatever the order in which the two sides close: every message that a side
\* reads is for an id in its table.
THEOREM FreedQuiet == Spec => []QuietAfterFree
<1>1. IInv => QuietAfterFree
  <2>. SUFFICES ASSUME IInv, NEW x \in Sides, up[x], NEW k \in 1..Len(wire[x]),
                       wire[x][k].type # "open"
                PROVE  wire[x][k].to \in Live(tab[x])
    BY DEF QuietAfterFree
  <2>. DEFINE m == wire[x][k]
  <2>1. m \in Range(wire[x])
    <3>1. wire[x] \in Seq(Messages)
      BY DEF IInv, Fine, Typed
    <3>. QED
      BY <3>1 DEF Range
  <2>. HIDE DEF m
  <2>2. m.type # "open"
    BY DEF m
  <2>3. MessageFine(tab, ch, up, x, m)
    BY <2>1, <2>2 DEF IInv, Fine, MessagesFine
  <2>4. TableFine(tab[x])
    BY DEF IInv, Fine, Typed
  <2>5. m.to \in Live(tab[x])
    BY <2>3, <2>4, TableFacts DEF MessageFine
  <2>. QED
    BY <2>5 DEF m
<1>. QED
  BY <1>1, Invariance, PTL

=============================================================================
