------------------------- MODULE SftpRequestsProofs -------------------------
(***************************************************************************)
(* SftpRequests for every width of the ids, every number of requests and   *)
(* every bound on the ones the server has not answered: a callback gets    *)
(* the answer to its own request, and is called once.                      *)
(***************************************************************************)
EXTENDS SftpRequests, FiniteSetTheorems, TLAPS

-----------------------------------------------------------------------------
(* The ids: 2^Width unsigned numbers on the wire, half of them negative    *)
(* where they are kept.                                                    *)

\* There are twice as many subsets of 1..n as of 1..(n - 1): each of those,
\* with n and without it.
LEMMA Doubling ==
    ASSUME NEW n \in Nat \ {0}
    PROVE  /\ 2^n \in Nat /\ 2^(n - 1) \in Nat
           /\ 2^n = 2 * 2^(n - 1)
<1>. DEFINE S == 1..(n - 1)
            A == SUBSET S
            B == {T \cup {n} : T \in A}
<1>1. /\ IsFiniteSet(S) /\ Cardinality(S) = n - 1
      /\ IsFiniteSet(1..n) /\ Cardinality(1..n) = n
  BY FS_Interval
<1>2. /\ IsFiniteSet(A) /\ Cardinality(A) = 2^(n - 1)
      /\ IsFiniteSet(SUBSET (1..n)) /\ Cardinality(SUBSET (1..n)) = 2^n
  BY <1>1, FS_SUBSET
<1>3. SUBSET (1..n) = A \cup B
  <2>1. ASSUME NEW T \in SUBSET (1..n)
        PROVE  T \in A \cup B
    <3>1. CASE n \in T
      <4>1. T \ {n} \in A
        OBVIOUS
      <4>2. T = (T \ {n}) \cup {n}
        BY <3>1
      <4>3. QED
        BY <4>1, <4>2
    <3>2. CASE n \notin T
      <4>1. T \in A
        BY <3>2
      <4>2. QED
        BY <4>1
    <3>3. QED
      BY <3>1, <3>2
  <2>2. ASSUME NEW T \in A
        PROVE  T \in SUBSET (1..n) /\ T \cup {n} \in SUBSET (1..n)
    OBVIOUS
  <2>3. A \cup B \subseteq SUBSET (1..n)
    <3>1. ASSUME NEW b \in B
          PROVE  b \in SUBSET (1..n)
      <4>1. PICK T \in A : b = T \cup {n}
        OBVIOUS
      <4>2. QED
        BY <4>1, <2>2, Zenon
    <3>2. \A a \in A : a \in SUBSET (1..n)
      BY <2>2
    <3>. HIDE DEF A, B
    <3>3. QED
      BY <3>1, <3>2
  <2>4. SUBSET (1..n) \subseteq A \cup B
    BY <2>1
  <2>5. QED
    BY <2>3, <2>4
<1>4. A \cap B = {}
  OBVIOUS
<1>5. IsFiniteSet(B) /\ Cardinality(B) = Cardinality(A)
  <2>. DEFINE f == [T \in A |-> T \cup {n}]
  <2>1. f \in Bijection(A, B)
    <3>1. f \in [A -> B]
      OBVIOUS
    <3>2. ASSUME NEW T \in A, NEW U \in A, f[T] = f[U]
          PROVE  T = U
      <4>1. T = (T \cup {n}) \ {n} /\ U = (U \cup {n}) \ {n}
        OBVIOUS
      <4>2. QED
        BY <3>2, <4>1
    <3>3. \A b \in B : \E T \in A : f[T] = b
      OBVIOUS
    <3>4. QED
      BY <3>1, <3>2, <3>3 DEF Bijection, Injection, Surjection, IsInjective
  <2>2. QED
    BY <1>2, <2>1, FS_Bijection DEF ExistsBijection
<1>6. Cardinality(A \cup B) = Cardinality(A) + Cardinality(B) - Cardinality(A \cap B)
  BY <1>2, <1>5, FS_Union
<1>7. Cardinality(A \cap B) = 0
  BY <1>4, FS_EmptySet
<1>8. Cardinality(A) \in Nat /\ Cardinality(SUBSET (1..n)) \in Nat
  BY <1>2, FS_CardinalityType
<1>9. Cardinality(SUBSET (1..n)) = 2 * Cardinality(A)
  <2>. DEFINE a == Cardinality(A)
              b == Cardinality(SUBSET (1..n))
  <2>1. b = a + a - 0
    BY <1>3, <1>5, <1>6, <1>7, Zenon
  <2>2. a \in Nat /\ b \in Nat
    BY <1>8
  <2>. HIDE DEF a, b
  <2>3. b = 2 * a
    BY <2>1, <2>2
  <2>4. QED
    BY <2>3 DEF a, b
<1>10. QED
  BY <1>2, <1>8, <1>9, Zenon

\* The numbers 2^Width and 2^(Width - 1) as the proofs use them.
LEMMA Powers ==
    /\ 2^Width \in Nat /\ 2^(Width - 1) \in Nat
    /\ 2^Width = 2 * 2^(Width - 1) /\ 2^(Width - 1) > 0
<1>1. Width \in Nat \ {0} /\ 2^Width > 1
  BY SftpAssumption
<1>2. QED
  BY <1>1, Doubling

\* The id that follows an id is one.
LEMMA NextReqidType ==
    ASSUME NEW n \in Ids
    PROVE  NextReqid(n) \in Ids
<1>. DEFINE H == 2^(Width - 1)
<1>1. H \in Nat /\ H > 0
  BY Powers
<1>2. n \in -H..(H - 1)
  BY DEF Ids
<1>. HIDE DEF H
<1>3. (IF n + 1 = H THEN -H ELSE n + 1) \in -H..(H - 1)
  BY <1>1, <1>2
<1>4. QED
  BY <1>3 DEF H, NextReqid, Ids

\* On the wire an id is unsigned.  The one that is kept is found again there
\* exactly if it is not negative: a negative id is no id that is kept.
LEMMA WireIdType ==
    ASSUME NEW n \in Ids
    PROVE  /\ WireId(n) \in 0..(2^Width - 1)
           /\ WireId(n) \in Ids => WireId(n) = n
           /\ n >= 0 => WireId(n) = n
           /\ n < 0 => WireId(n) \notin Ids
<1>. DEFINE H == 2^(Width - 1)
            W == 2^Width
<1>1. H \in Nat /\ H > 0 /\ W \in Nat /\ W = 2 * H
  BY Powers
<1>2. n \in -H..(H - 1)
  BY DEF Ids
<1>. HIDE DEF H, W
<1>3. /\ n % W \in 0..(W - 1)
      /\ n >= 0 => n % W = n
      /\ n < 0 => n % W = n + W
  BY <1>1, <1>2
<1>4. n < 0 => ~(n + W \in -H..(H - 1))
  BY <1>1, <1>2
<1>5. /\ n % W \in 0..(W - 1)
      /\ n % W \in -H..(H - 1) => n % W = n
      /\ n >= 0 => n % W = n
      /\ n < 0 => n % W \notin -H..(H - 1)
  BY <1>2, <1>3, <1>4
<1>6. QED
  BY <1>5 DEF H, W, WireId, Ids

-----------------------------------------------------------------------------
(* The inductive invariant.                                                *)

Types == Wants \cup {"MALFORMED", "INIT", "VERSION", "CLOSE", "EOF"}

Packets == [type : Types, id : 0..(2^Width - 1), call : 0..MaxCalls]

\* The packets, with the call each belongs to.
PacketsOK ==
    /\ up \in Seq(Packets) /\ down \in Seq(Packets)
    /\ asked \subseteq Packets /\ \A m \in asked : m.type \in Wants

\* _requests is a table of callbacks that have not been called, each of its own
\* request; requests not yet made have none.
Kept ==
    /\ requests \in [DOMAIN requests -> Calls] /\ DOMAIN requests \subseteq Ids
    /\ \A id \in DOMAIN requests : requests[id] <= calls /\ times[requests[id]] = 0
    /\ \A i, j \in DOMAIN requests : requests[i] = requests[j] => i = j
    /\ \A c \in Calls : c > calls => times[c] = 0

\* A request or an answer that is under way has the id of its own call, if a
\* call is kept under that id at all.
Matches(m) == m.type \in Wants /\ m.id \in DOMAIN requests => requests[m.id] = m.call

AllMatch == \A m \in UnderWay : Matches(m)

\* A callback that has not been called and was not forgotten is in the table;
\* when the channel is no longer readable only late ones are left there.
Accounted ==
    /\ \A c \in Calls : times[c] <= 1
    /\ \A c \in 1..calls :
           times[c] = 1 \/ c \in spoiled \/ \E id \in DOMAIN requests : requests[id] = c
    /\ ~readable => \A id \in DOMAIN requests : requests[id] \in late

\* The callbacks' own record: each got its own answer or none.
Answers ==
    /\ times \in [Calls -> Nat] /\ answer \in [Calls -> 0..MaxCalls]
    /\ \A c \in Calls : answer[c] \in {0, c}

IInv == TypeOK /\ PacketsOK /\ Kept /\ AllMatch /\ Accounted /\ Answers

-----------------------------------------------------------------------------
(* Packets under way.                                                      *)

\* A packet that is sent is appended or lost with the channel.
LEMMA SendType ==
    ASSUME NEW q \in Seq(Packets), NEW m \in Packets, NEW st
    PROVE  /\ Send(q, st, m) \in Seq(Packets)
           /\ \A i \in DOMAIN Send(q, st, m) :
                  Send(q, st, m)[i] = m \/ \E j \in DOMAIN q : Send(q, st, m)[i] = q[j]
<1>1. CASE Send(q, st, m) = q
  BY <1>1
<1>2. CASE Send(q, st, m) = Append(q, m)
  <2>1. /\ Append(q, m) \in Seq(Packets)
        /\ \A i \in DOMAIN Append(q, m) :
               Append(q, m)[i] = m \/ \E j \in DOMAIN q : Append(q, m)[i] = q[j]
    OBVIOUS
  <2>2. QED
    BY <1>2, <2>1
<1>3. QED
  BY <1>1, <1>2 DEF Send

\* A packet that is received was under way.
LEMMA HeadTail ==
    ASSUME NEW q \in Seq(Packets), q # <<>>
    PROVE  /\ Tail(q) \in Seq(Packets) /\ Head(q) \in Packets
           /\ \A i \in DOMAIN Tail(q) : \E j \in DOMAIN q : Tail(q)[i] = q[j]
           /\ \E j \in DOMAIN q : Head(q) = q[j]
OBVIOUS

\* What is under way is a packet.
LEMMA UnderWayType ==
    ASSUME PacketsOK
    PROVE  UnderWay \subseteq Packets
BY DEF PacketsOK, UnderWay

\* When no request is added to the table and no packet is made up, every packet
\* still matches.
LEMMA StillMatch ==
    ASSUME AllMatch,
           DOMAIN requests' \subseteq DOMAIN requests,
           \A id \in DOMAIN requests' : requests'[id] = requests[id],
           \A m \in UnderWay' : m.type \in Wants =>
                \E n \in UnderWay : n.type \in Wants /\ n.id = m.id /\ n.call = m.call
    PROVE  AllMatch'
<1>1. SUFFICES ASSUME NEW m \in UnderWay', m.type \in Wants, m.id \in DOMAIN requests'
               PROVE  requests'[m.id] = m.call
  BY DEF AllMatch, Matches
<1>2. PICK n \in UnderWay : n.type \in Wants /\ n.id = m.id /\ n.call = m.call
  BY <1>1
<1>3. requests[n.id] = n.call
  BY <1>1, <1>2 DEF AllMatch, Matches
<1>4. QED
  BY <1>1, <1>2, <1>3

-----------------------------------------------------------------------------
(* The table of callbacks.                                                 *)

\* A response takes at most its own entry out of the table.
LEMMA CallBackStep ==
    ASSUME IInv, NEW m \in UnderWay, m.type \in Wants, CallBack(m),
           UNCHANGED <<calls, late, spoiled, readable>>
    PROVE  /\ Kept' /\ Accounted' /\ Answers'
           /\ DOMAIN requests' \subseteq DOMAIN requests
           /\ \A id \in DOMAIN requests' : requests'[id] = requests[id]
<1>1. CASE m.id \notin DOMAIN requests
  BY <1>1 DEF CallBack, IInv, Kept, Accounted, Answers
<1>2. CASE m.id \in DOMAIN requests
  <2>. DEFINE c == requests[m.id]
  <2>1. /\ DOMAIN requests' = DOMAIN requests \ {m.id}
        /\ \A id \in DOMAIN requests' : requests'[id] = requests[id]
        /\ requests' = [id \in DOMAIN requests' |-> requests'[id]]
    BY <1>2 DEF CallBack, Keep
  <2>2. c \in Calls /\ m.call = c /\ c <= calls /\ times[c] = 0
    BY <1>2 DEF IInv, AllMatch, Matches, Kept
  <2>3. /\ times' \in [Calls -> Nat] /\ times'[c] = 1
        /\ \A d \in Calls : d # c => times'[d] = times[d]
    BY <1>2, <2>2 DEF CallBack, IInv, Answers
  <2>4. Answers'
    <3>1. c \in 0..MaxCalls
      BY <2>2, SftpAssumption DEF Calls
    <3>2. answer' = [answer EXCEPT ![c] = c]
      BY <1>2, <2>2 DEF CallBack
    <3>3. QED
      BY <2>2, <2>3, <3>1, <3>2 DEF IInv, Answers
  <2>5. \A id \in DOMAIN requests' : requests'[id] # c
    BY <1>2, <2>1 DEF IInv, Kept
  <2>6. Kept'
    <3>1. /\ requests' \in [DOMAIN requests' -> Calls] /\ DOMAIN requests' \subseteq Ids
          /\ \A i, j \in DOMAIN requests' : requests'[i] = requests'[j] => i = j
      BY <2>1 DEF IInv, Kept
    <3>2. \A id \in DOMAIN requests' : requests'[id] <= calls' /\ times'[requests'[id]] = 0
      BY <2>1, <2>3, <2>5 DEF IInv, Kept
    <3>3. \A d \in Calls : d > calls' => times'[d] = 0
      <4>1. calls \in Int /\ c \in Int
        BY <2>2 DEF IInv, TypeOK, Calls
      <4>2. QED
        BY <2>2, <2>3, <4>1 DEF IInv, Kept, Calls
    <3>4. QED
      BY <3>1, <3>2, <3>3 DEF Kept
  <2>7. Accounted'
    <3>1. \A d \in Calls : times'[d] <= 1
      BY <2>3 DEF IInv, Accounted
    <3>2. ASSUME NEW d \in 1..calls'
          PROVE  times'[d] = 1 \/ d \in spoiled' \/ \E id \in DOMAIN requests' : requests'[id] = d
      <4>1. d \in Calls /\ d \in 1..calls
        BY SftpAssumption DEF IInv, TypeOK, Calls
      <4>2. QED
        BY <2>1, <2>3, <4>1 DEF IInv, Accounted
    <3>3. ~readable' => \A id \in DOMAIN requests' : requests'[id] \in late'
      BY <2>1 DEF IInv, Accounted
    <3>4. QED
      BY <3>1, <3>2, <3>3 DEF Accounted
  <2>8. QED
    BY <2>1, <2>4, <2>6, <2>7
<1>3. QED
  BY <1>1, <1>2

\* cleanupRequests() empties the table; what is not called back is forgotten.
LEMMA CleanupStep ==
    ASSUME IInv, NEW ids \in SUBSET DOMAIN requests, CleanupRequests(ids),
           UNCHANGED <<calls, late>>, spoiled \subseteq spoiled',
           \A id \in DOMAIN requests : id \notin ids => requests[id] \in spoiled'
    PROVE  /\ Kept' /\ Accounted' /\ Answers'
           /\ DOMAIN requests' \subseteq DOMAIN requests
           /\ \A id \in DOMAIN requests' : requests'[id] = requests[id]
<1>. DEFINE cs == {requests[id] : id \in ids}
<1>1. requests' = <<>> /\ DOMAIN requests' = {}
  BY DEF CleanupRequests, NoResponse
<1>2. /\ times' = [c \in Calls |-> times[c] + IF c \in cs THEN 1 ELSE 0]
      /\ answer' = answer
  BY DEF CleanupRequests, NoResponse
<1>3. \A c \in cs : c \in Calls /\ c <= calls /\ times[c] = 0
  BY DEF IInv, Kept
<1>4. times \in [Calls -> Nat]
  BY DEF IInv, Answers
<1>. HIDE DEF cs
<1>5. /\ times' \in [Calls -> Nat]
      /\ \A c \in Calls : c \in cs => times'[c] = 1
      /\ \A c \in Calls : c \notin cs => times'[c] = times[c]
  BY <1>2, <1>3, <1>4
<1>6. Answers'
  BY <1>2, <1>5 DEF IInv, Answers
<1>7. Kept'
  <2>1. \A c \in Calls : c > calls' => times'[c] = 0
    <3>1. calls \in Int
      BY DEF IInv, TypeOK
    <3>2. \A c \in Calls : c > calls => c \notin cs
      BY <1>3, <3>1 DEF Calls
    <3>3. QED
      BY <1>5, <3>2 DEF IInv, Kept
  <2>2. QED
    BY <1>1, <2>1 DEF Kept
<1>8. Accounted'
  <2>1. \A c \in Calls : times'[c] <= 1
    BY <1>5 DEF IInv, Accounted
  <2>2. ASSUME NEW c \in 1..calls'
        PROVE  times'[c] = 1 \/ c \in spoiled'
    <3>1. c \in Calls /\ c \in 1..calls
      BY SftpAssumption DEF IInv, TypeOK, Calls
    <3>2. times[c] = 1 \/ c \in spoiled \/ \E id \in DOMAIN requests : requests[id] = c
      BY <3>1 DEF IInv, Accounted
    <3>3. CASE times[c] = 1
      BY <3>3, <3>1, <1>3, <1>5
    <3>4. CASE \E id \in DOMAIN requests : requests[id] = c
      BY <3>4, <3>1, <1>5 DEF cs
    <3>5. QED
      BY <3>2, <3>3, <3>4
  <2>3. QED
    BY <1>1, <2>1, <2>2 DEF Accounted
<1>9. QED
  BY <1>1, <1>6, <1>7, <1>8

\* push(null): every request made before it is called back.
LEMMA PushNullStep ==
    ASSUME IInv, PushNull, UNCHANGED <<calls, late, spoiled>>
    PROVE  /\ Kept' /\ Accounted' /\ Answers'
           /\ DOMAIN requests' \subseteq DOMAIN requests
           /\ \A id \in DOMAIN requests' : requests'[id] = requests[id]
           /\ readable' \in BOOLEAN
<1>1. CASE readable
  BY <1>1, CleanupStep DEF PushNull
<1>2. CASE ~readable
  BY <1>2 DEF PushNull, IInv, TypeOK, Kept, Accounted, Answers
<1>3. QED
  BY <1>1, <1>2

-----------------------------------------------------------------------------
(* The steps.                                                              *)

\* The flags, states and counters of TypeOK.
Fields ==
    /\ version \in BOOLEAN /\ sVersion \in BOOLEAN /\ readable \in BOOLEAN /\ sock \in BOOLEAN
    /\ writeReqid \in Ids
    /\ {cIn, cOut, sIn, sOut} \subseteq States
    /\ calls \in 0..MaxCalls /\ late \cup spoiled \cup negative \subseteq Calls

LEMMA FieldsOK ==
    ASSUME IInv
    PROVE  Fields
BY DEF IInv, TypeOK, Fields

LEMMA Combine ==
    ASSUME Fields', PacketsOK', Kept', AllMatch', Accounted', Answers'
    PROVE  IInv'
<1>1. /\ \A m \in asked' : m.id \in 0..(2^Width - 1) /\ m.type \in Wants
      /\ \A i \in DOMAIN up' : up'[i].id \in 0..(2^Width - 1)
      /\ \A i \in DOMAIN down' : down'[i].id \in 0..(2^Width - 1)
  <2>1. \A m \in Packets : m.id \in 0..(2^Width - 1)
    BY DEF Packets
  <2>2. QED
    BY <2>1 DEF PacketsOK
<1>2. TypeOK'
  BY <1>1 DEF TypeOK, Fields, Kept, Answers
<1>3. QED
  BY <1>2 DEF IInv

\* A method call: its id is free in the table and under way.
LEMMA RequestStep ==
    ASSUME IInv, NEW want \in Wants, Request(want)
    PROVE  IInv'
<1>. DEFINE id == NextReqid(writeReqid)
            c  == calls + 1
            p  == Packet(want, WireId(id), c)
<1>1. id \in Ids
  BY NextReqidType DEF IInv, TypeOK
<1>2. /\ c \in Calls /\ c \in 0..MaxCalls /\ calls \in Nat /\ calls' = c /\ c > calls
      /\ calls \in 0..MaxCalls
  BY SftpAssumption DEF IInv, TypeOK, Request, Bounded, Calls
<1>3. p \in Packets
  BY <1>1, <1>2, WireIdType DEF Packets, Packet, Types
<1>4. id \notin DOMAIN requests /\ \A m \in UnderWay : m.type \in Wants => m.id # WireId(id)
  BY DEF Request, Bounded
<1>5. /\ DOMAIN requests' = DOMAIN requests \cup {id}
      /\ requests'[id] = c
      /\ \A i \in DOMAIN requests : requests'[i] = requests[i]
      /\ requests' = [i \in DOMAIN requests' |-> requests'[i]]
  BY <1>4 DEF Request
<1>. HIDE DEF c, id
<1>6. Fields'
  BY <1>1, <1>2, FieldsOK DEF Fields, Request, server, c, id
<1>7. PacketsOK'
  BY <1>3, SendType DEF IInv, PacketsOK, Request, server, c, id
<1>8. Kept'
  <2>1. requests' \in [DOMAIN requests' -> Calls] /\ DOMAIN requests' \subseteq Ids
    BY <1>1, <1>2, <1>5 DEF IInv, Kept
  <2>2. \A i \in DOMAIN requests : requests[i] \in Int /\ requests[i] <= calls /\ requests[i] # c
    BY <1>2 DEF IInv, Kept, Calls
  <2>3. times' = times /\ times[c] = 0
    BY <1>2 DEF IInv, Kept, Request
  <2>4. \A i \in DOMAIN requests' : requests'[i] <= calls' /\ times'[requests'[i]] = 0
    BY <1>2, <1>5, <2>2, <2>3 DEF IInv, Kept
  <2>5. \A i, j \in DOMAIN requests' : requests'[i] = requests'[j] => i = j
    BY <1>5, <2>2 DEF IInv, Kept
  <2>6. \A d \in Calls : d > calls' => times'[d] = 0
    BY <1>2, <2>3 DEF IInv, Kept, Calls
  <2>7. QED
    BY <2>1, <2>4, <2>5, <2>6 DEF Kept
<1>9. AllMatch'
  <2>1. SUFFICES ASSUME NEW m \in UnderWay', m.type \in Wants, m.id \in DOMAIN requests'
                 PROVE  requests'[m.id] = m.call
    BY DEF AllMatch, Matches
  <2>2. m \in UnderWay \/ m = p
    <3>1. asked' = asked /\ down' = down /\ up' = Send(up, cOut, p)
      BY DEF Request, server, id, c
    <3>2. \A i \in DOMAIN up' : up'[i] = p \/ \E j \in DOMAIN up : up'[i] = up[j]
      BY <3>1, <1>3, SendType DEF IInv, PacketsOK
    <3>. HIDE DEF p
    <3>3. QED
      BY <3>1, <3>2 DEF UnderWay
  <2>3. CASE m = p
    <3>1. m.id = WireId(id) /\ m.call = c
      BY <2>3 DEF Packet
    <3>2. m.id \in Ids
      BY <2>1, <1>5, <1>1 DEF IInv, Kept
    <3>3. QED
      BY <3>1, <3>2, <1>1, <1>5, WireIdType
  <2>4. CASE m \in UnderWay
    <3>1. m.id # WireId(id)
      BY <2>1, <2>4, <1>4
    <3>2. m.id \in 0..(2^Width - 1)
      BY <2>4, UnderWayType DEF IInv, Packets
    <3>3. m.id # id
      BY <3>1, <3>2, <1>1, WireIdType
    <3>4. QED
      BY <2>1, <2>4, <3>3, <1>5 DEF IInv, AllMatch, Matches
  <2>5. QED
    BY <2>2, <2>3, <2>4
<1>10. Accounted'
  <2>1. /\ times' = times /\ spoiled' = spoiled /\ readable' = readable
        /\ late' = IF readable THEN late ELSE late \cup {c}
    BY DEF Request, c
  <2>2. ASSUME NEW d \in 1..calls'
        PROVE  times'[d] = 1 \/ d \in spoiled' \/ \E i \in DOMAIN requests' : requests'[i] = d
    <3>1. d = calls + 1 \/ d \in 1..calls
      BY <1>2 DEF c
    <3>2. QED
      BY <3>1, <1>5, <2>1 DEF IInv, Accounted, c
  <2>3. ~readable' => \A i \in DOMAIN requests' : requests'[i] \in late'
    BY <1>5, <2>1 DEF IInv, Accounted
  <2>4. QED
    BY <2>1, <2>2, <2>3 DEF IInv, Accounted
<1>11. Answers'
  BY DEF Request, IInv, Answers
<1>12. QED
  BY <1>6, <1>7, <1>8, <1>9, <1>10, <1>11, Combine

\* The packet the client is handed was under way, and the rest still is.
LEMMA IncomingStep ==
    ASSUME IInv, NEW type, Incoming(type)
    PROVE  /\ down' \in Seq(Packets) /\ Head(down) \in Packets /\ Head(down).type = type
           /\ Head(down) \in UnderWay
           /\ \A i \in DOMAIN down' : down'[i] \in UnderWay
<1>1. down \in Seq(Packets) /\ down # <<>> /\ down' = Tail(down) /\ Head(down).type = type
  BY DEF IInv, PacketsOK, Incoming
<1>2. /\ Tail(down) \in Seq(Packets) /\ Head(down) \in Packets
      /\ \A i \in DOMAIN Tail(down) : \E j \in DOMAIN down : Tail(down)[i] = down[j]
      /\ \E j \in DOMAIN down : Head(down) = down[j]
  BY <1>1, HeadTail
<1>3. \A j \in DOMAIN down : down[j] \in UnderWay
  BY DEF UnderWay
<1>4. QED
  BY <1>1, <1>2, <1>3

\* The same of the packet the server is handed.
LEMMA ArrivesStep ==
    ASSUME IInv, NEW type, Arrives(type)
    PROVE  /\ up' \in Seq(Packets) /\ Head(up) \in Packets /\ Head(up).type = type
           /\ Head(up) \in UnderWay
           /\ \A i \in DOMAIN up' : up'[i] \in UnderWay
<1>1. up \in Seq(Packets) /\ up # <<>> /\ up' = Tail(up) /\ Head(up).type = type
  BY DEF IInv, PacketsOK, Arrives
<1>2. /\ Tail(up) \in Seq(Packets) /\ Head(up) \in Packets
      /\ \A i \in DOMAIN Tail(up) : \E j \in DOMAIN up : Tail(up)[i] = up[j]
      /\ \E j \in DOMAIN up : Head(up) = up[j]
  BY <1>1, HeadTail
<1>3. \A j \in DOMAIN up : up[j] \in UnderWay
  BY DEF UnderWay
<1>4. QED
  BY <1>1, <1>2, <1>3

\* A packet that is put on its way joins the others.
LEMMA SendUnderWay ==
    ASSUME NEW q \in Seq(Packets), NEW m \in Packets, NEW st, NEW S,
           \A i \in DOMAIN q : q[i] \in S
    PROVE  /\ Send(q, st, m) \in Seq(Packets)
           /\ \A i \in DOMAIN Send(q, st, m) : Send(q, st, m)[i] \in S \cup {m}
BY SendType

LEMMA ResponseStep ==
    ASSUME IInv, NEW type \in Wants, Response(type)
    PROVE  IInv'
<1>. DEFINE m == Head(down)
<1>1. /\ down' \in Seq(Packets) /\ m \in UnderWay /\ m.type \in Wants
      /\ \A i \in DOMAIN down' : down'[i] \in UnderWay
  BY IncomingStep DEF Response
<1>2. CallBack(m) /\ UNCHANGED <<calls, late, spoiled, readable>>
  BY DEF Response
<1>. HIDE DEF m
<1>3. /\ Kept' /\ Accounted' /\ Answers'
      /\ DOMAIN requests' \subseteq DOMAIN requests
      /\ \A id \in DOMAIN requests' : requests'[id] = requests[id]
  BY <1>1, <1>2, CallBackStep
<1>4. Fields' /\ PacketsOK'
  BY <1>1, FieldsOK DEF Response, Fields, IInv, PacketsOK, server
<1>5. UnderWay' \subseteq UnderWay
  BY <1>1 DEF Response, server, UnderWay
<1>6. AllMatch'
  BY <1>3, <1>5, StillMatch DEF IInv
<1>7. QED
  BY <1>3, <1>4, <1>6, Combine

LEMMA MalformedStep ==
    ASSUME IInv, MALFORMED
    PROVE  IInv'
<1>. DEFINE m == Head(down)
            ids == DOMAIN requests \ {m.id}
<1>1. /\ down' \in Seq(Packets) /\ m \in UnderWay
      /\ \A i \in DOMAIN down' : down'[i] \in UnderWay
  BY IncomingStep DEF MALFORMED
<1>2. /\ CleanupRequests(ids) /\ UNCHANGED <<calls, late>>
      /\ spoiled' = IF m.id \in DOMAIN requests THEN spoiled \cup {requests[m.id]} ELSE spoiled
  BY DEF MALFORMED
<1>. HIDE DEF m
<1>3. /\ Kept' /\ Accounted' /\ Answers'
      /\ DOMAIN requests' \subseteq DOMAIN requests
      /\ \A id \in DOMAIN requests' : requests'[id] = requests[id]
  BY <1>2, CleanupStep
<1>4. CLOSE \in Packets /\ CLOSE.type \notin Wants
  BY SftpAssumption, Powers DEF CLOSE, Packet, Packets, Types, Wants
<1>5. /\ up' \in Seq(Packets)
      /\ \A i \in DOMAIN up' : up'[i] \in UnderWay \cup {CLOSE}
  <2>1. up \in Seq(Packets) /\ \A i \in DOMAIN up : up[i] \in UnderWay
    BY DEF IInv, PacketsOK, UnderWay
  <2>2. up' = Send(up, cOut, CLOSE)
    BY DEF MALFORMED
  <2>3. QED
    BY <2>1, <2>2, <1>4, SendUnderWay
<1>6. Fields' /\ PacketsOK'
  <2>1. spoiled' \subseteq Calls
    BY <1>2, FieldsOK DEF Fields, IInv, Kept
  <2>2. QED
    BY <1>1, <1>5, <2>1, FieldsOK DEF MALFORMED, Fields, IInv, PacketsOK, server, States
<1>7. UnderWay' \subseteq UnderWay \cup {CLOSE}
  BY <1>1, <1>5 DEF MALFORMED, server, UnderWay
<1>8. AllMatch'
  BY <1>3, <1>4, <1>7, StillMatch DEF IInv
<1>9. QED
  BY <1>3, <1>6, <1>8, Combine

LEMMA RcvEofStep ==
    ASSUME IInv, RcvEof
    PROVE  IInv'
<1>1. /\ down' \in Seq(Packets)
      /\ \A i \in DOMAIN down' : down'[i] \in UnderWay
  BY IncomingStep DEF RcvEof
<1>2. /\ Kept' /\ Accounted' /\ Answers'
      /\ DOMAIN requests' \subseteq DOMAIN requests
      /\ \A id \in DOMAIN requests' : requests'[id] = requests[id]
      /\ readable' \in BOOLEAN
  BY PushNullStep DEF RcvEof
<1>3. Fields' /\ PacketsOK'
  BY <1>1, <1>2, FieldsOK DEF RcvEof, Fields, IInv, PacketsOK, server, States
<1>4. UnderWay' \subseteq UnderWay
  BY <1>1 DEF RcvEof, server, UnderWay
<1>5. AllMatch'
  BY <1>2, <1>4, StillMatch DEF IInv
<1>6. QED
  BY <1>2, <1>3, <1>5, Combine

LEMMA RcvCloseStep ==
    ASSUME IInv, RcvClose
    PROVE  IInv'
<1>1. /\ down' \in Seq(Packets)
      /\ \A i \in DOMAIN down' : down'[i] \in UnderWay
  BY IncomingStep DEF RcvClose
<1>2. /\ Kept' /\ Accounted' /\ Answers'
      /\ DOMAIN requests' \subseteq DOMAIN requests
      /\ \A id \in DOMAIN requests' : requests'[id] = requests[id]
      /\ readable' \in BOOLEAN
  BY PushNullStep DEF RcvClose, OnClose
<1>3. Fields' /\ PacketsOK'
  BY <1>1, <1>2, FieldsOK DEF RcvClose, OnClose, Fields, IInv, PacketsOK, server, States
<1>4. UnderWay' \subseteq UnderWay
  BY <1>1 DEF RcvClose, server, UnderWay
<1>5. AllMatch'
  BY <1>2, <1>4, StillMatch DEF IInv
<1>6. QED
  BY <1>2, <1>3, <1>5, Combine

LEMMA SocketCloseStep ==
    ASSUME IInv, SocketClose
    PROVE  IInv'
<1>1. /\ Kept' /\ Accounted' /\ Answers'
      /\ DOMAIN requests' \subseteq DOMAIN requests
      /\ \A id \in DOMAIN requests' : requests'[id] = requests[id]
      /\ readable' \in BOOLEAN
  <2>1. CASE cIn # "closed"
    BY <2>1, PushNullStep DEF SocketClose, OnClose
  <2>2. CASE cIn = "closed"
    BY <2>2 DEF SocketClose, IInv, TypeOK, Kept, Accounted, Answers
  <2>3. QED
    BY <2>1, <2>2
<1>2. Fields'
  BY <1>1, FieldsOK DEF SocketClose, OnClose, Fields, States
<1>3. PacketsOK' /\ UnderWay' = {}
  BY DEF SocketClose, PacketsOK, UnderWay
<1>4. QED
  BY <1>1, <1>2, <1>3, Combine DEF AllMatch

\* A step that leaves the table and the callbacks alone and answers, if it answers
\* anything, under the id of a request that is under way.
LEMMA Untouched ==
    ASSUME IInv, UNCHANGED <<requests, readable, calls, times, answer, late, spoiled>>,
           Fields', PacketsOK',
           \A m \in UnderWay' : m.type \in Wants =>
                \E n \in UnderWay : n.type \in Wants /\ n.id = m.id /\ n.call = m.call
    PROVE  IInv'
<1>1. Kept' /\ Accounted' /\ Answers'
  BY DEF IInv, Kept, Accounted, Answers
<1>2. AllMatch'
  BY StillMatch DEF IInv
<1>3. QED
  BY <1>1, <1>2, Combine

\* Packets that are neither requests nor answers to one.
LEMMA Signals ==
    ASSUME NEW type \in {"INIT", "VERSION", "CLOSE", "EOF"}
    PROVE  Packet(type, 0, 0) \in Packets /\ Packet(type, 0, 0).type \notin Wants
BY SftpAssumption, Powers DEF Packet, Packets, Types, Wants

LEMMA VersionStep ==
    ASSUME IInv, VERSION
    PROVE  IInv'
<1>1. /\ down' \in Seq(Packets)
      /\ \A i \in DOMAIN down' : down'[i] \in UnderWay
  BY IncomingStep DEF VERSION
<1>2. Fields' /\ PacketsOK'
  BY <1>1, FieldsOK DEF VERSION, Fields, IInv, PacketsOK, server, history
<1>3. UnderWay' \subseteq UnderWay
  BY <1>1 DEF VERSION, server, UnderWay
<1>4. QED
  BY <1>2, <1>3, Untouched DEF VERSION, history

LEMMA EndStep ==
    ASSUME IInv, End
    PROVE  IInv'
<1>1. CLOSE \in Packets /\ CLOSE.type \notin Wants
  BY Signals DEF CLOSE
<1>2. up \in Seq(Packets) /\ (\A i \in DOMAIN up : up[i] \in UnderWay) /\ up' = Send(up, cOut, CLOSE)
  BY DEF IInv, PacketsOK, UnderWay, End
<1>3. up' \in Seq(Packets) /\ \A i \in DOMAIN up' : up'[i] \in UnderWay \cup {CLOSE}
  BY <1>1, <1>2, SendUnderWay
<1>4. Fields' /\ PacketsOK'
  BY <1>3, FieldsOK DEF End, Fields, IInv, PacketsOK, server, history, States
<1>5. UnderWay' \subseteq UnderWay \cup {CLOSE}
  BY <1>3 DEF End, server, UnderWay
<1>6. QED
  BY <1>1, <1>4, <1>5, Untouched DEF End, history

LEMMA InitStep ==
    ASSUME IInv, INIT
    PROVE  IInv'
<1>. DEFINE v == Packet("VERSION", 0, 0)
<1>1. v \in Packets /\ v.type \notin Wants
  BY Signals
<1>2. up' \in Seq(Packets) /\ \A i \in DOMAIN up' : up'[i] \in UnderWay
  BY ArrivesStep DEF INIT
<1>3. /\ down \in Seq(Packets) /\ (\A i \in DOMAIN down : down[i] \in UnderWay)
      /\ down' = Send(down, sOut, v)
  BY DEF IInv, PacketsOK, UnderWay, INIT
<1>. HIDE DEF v
<1>4. down' \in Seq(Packets) /\ \A i \in DOMAIN down' : down'[i] \in UnderWay \cup {v}
  BY <1>1, <1>3, SendUnderWay
<1>5. Fields' /\ PacketsOK'
  BY <1>2, <1>4, FieldsOK DEF INIT, Fields, IInv, PacketsOK, client, history, States
<1>6. UnderWay' \subseteq UnderWay \cup {v}
  BY <1>2, <1>4 DEF INIT, UnderWay
<1>7. QED
  BY <1>1, <1>5, <1>6, Untouched DEF INIT, client, history

LEMMA ReceivedStep ==
    ASSUME IInv, NEW want \in Wants, NEW l \in BOOLEAN, Received(want, l)
    PROVE  IInv'
<1>. DEFINE m == Head(up)
            p == Packet("STATUS", m.id, m.call)
<1>1. /\ up' \in Seq(Packets) /\ m \in Packets /\ m.type = want /\ m \in UnderWay
      /\ \A i \in DOMAIN up' : up'[i] \in UnderWay
  BY ArrivesStep DEF Received
<1>. HIDE DEF m
<1>2. p \in Packets /\ p.type \in Wants /\ p.id = m.id /\ p.call = m.call
  BY <1>1 DEF Packets, Packet, Types, Wants
<1>3. /\ down \in Seq(Packets) /\ (\A i \in DOMAIN down : down[i] \in UnderWay)
      /\ down' = IF l THEN down ELSE Send(down, sOut, p)
      /\ asked' = IF l THEN asked \cup {m} ELSE asked
  BY DEF IInv, PacketsOK, UnderWay, Received, m
<1>. HIDE DEF p
<1>4. down' \in Seq(Packets) /\ \A i \in DOMAIN down' : down'[i] \in UnderWay \cup {p}
  BY <1>2, <1>3, SendUnderWay
<1>5. Fields'
  BY FieldsOK DEF Received, Fields, client, history
<1>6. PacketsOK'
  BY <1>1, <1>3, <1>4 DEF IInv, PacketsOK
<1>7. UnderWay' \subseteq UnderWay \cup {p}
  BY <1>1, <1>3, <1>4 DEF UnderWay
<1>8. QED
  BY <1>1, <1>2, <1>5, <1>6, <1>7, Untouched DEF Received, client, history

LEMMA RespondStep ==
    ASSUME IInv, NEW a \in asked, NEW type \in Wants \cup {"MALFORMED"}, Respond(a, type)
    PROVE  IInv'
<1>. DEFINE p == Packet(type, a.id, a.call)
<1>1. a \in Packets /\ a.type \in Wants /\ a \in UnderWay
  BY DEF IInv, PacketsOK, UnderWay
<1>2. p \in Packets /\ p.id = a.id /\ p.call = a.call
  BY <1>1 DEF Packets, Packet, Types
<1>3. /\ down \in Seq(Packets) /\ (\A i \in DOMAIN down : down[i] \in UnderWay)
      /\ down' = Send(down, sOut, p)
      /\ asked' = asked \ {a}
  BY DEF IInv, PacketsOK, UnderWay, Respond
<1>. HIDE DEF p
<1>4. down' \in Seq(Packets) /\ \A i \in DOMAIN down' : down'[i] \in UnderWay \cup {p}
  BY <1>2, <1>3, SendUnderWay
<1>5. Fields' /\ PacketsOK'
  BY <1>3, <1>4, FieldsOK DEF Respond, Fields, IInv, PacketsOK, client, history
<1>6. UnderWay' \subseteq UnderWay \cup {p}
  BY <1>3, <1>4 DEF UnderWay, Respond
<1>7. QED
  BY <1>1, <1>2, <1>5, <1>6, Untouched DEF Respond, client, history

\* The server's EOF and CLOSE.
LEMMA ServerStops ==
    ASSUME IInv, ServerEof \/ ServerEnd
    PROVE  IInv'
<1>1. PICK p \in {EOF, CLOSE} : down' = Append(down, p)
  BY DEF ServerEof, ServerEnd
<1>2. p \in Packets /\ p.type \notin Wants
  BY Signals DEF EOF, CLOSE
<1>3. down \in Seq(Packets) /\ \A i \in DOMAIN down : down[i] \in UnderWay
  BY DEF IInv, PacketsOK, UnderWay
<1>4. down' \in Seq(Packets) /\ \A i \in DOMAIN down' : down'[i] \in UnderWay \cup {p}
  BY <1>1, <1>2, <1>3
<1>5. /\ up' = up /\ asked' = asked
      /\ UNCHANGED <<requests, readable, calls, times, answer, late, spoiled>>
  BY DEF ServerEof, ServerEnd, client, server, history
<1>6. Fields'
  BY FieldsOK DEF ServerEof, ServerEnd, Fields, client, server, history, States
<1>7. PacketsOK'
  BY <1>4, <1>5 DEF IInv, PacketsOK
<1>8. UnderWay' \subseteq UnderWay \cup {p}
  BY <1>4, <1>5 DEF UnderWay
<1>9. QED
  BY <1>2, <1>5, <1>6, <1>7, <1>8, Untouched

LEMMA ServerRcvCloseStep ==
    ASSUME IInv, ServerRcvClose
    PROVE  IInv'
<1>1. up' \in Seq(Packets) /\ \A i \in DOMAIN up' : up'[i] \in UnderWay
  BY ArrivesStep DEF ServerRcvClose
<1>2. Fields' /\ PacketsOK'
  BY <1>1, FieldsOK DEF ServerRcvClose, Fields, IInv, PacketsOK, client, history, States
<1>3. UnderWay' \subseteq UnderWay
  BY <1>1 DEF ServerRcvClose, UnderWay
<1>4. QED
  BY <1>2, <1>3, Untouched DEF ServerRcvClose, client, history

-----------------------------------------------------------------------------
(* The theorems.                                                           *)

\* A new session and one that has been used satisfy the invariant.
LEMMA Initially == Init => IInv
<1>. SUFFICES ASSUME Init
              PROVE  IInv
  OBVIOUS
<1>. DEFINE p == Packet("INIT", 0, 0)
<1>1. p \in Packets
  BY Signals
<1>2. up \in Seq(Packets) /\ \A i \in DOMAIN up : up[i] \in Packets
  <2>1. up = <<p>> \/ up = <<>>
    BY DEF Init, Fresh, Used
  <2>. HIDE DEF p
  <2>2. <<p>> \in Seq(Packets) /\ \A i \in DOMAIN <<p>> : <<p>>[i] \in Packets
    BY <1>1
  <2>3. <<>> \in Seq(Packets) /\ \A i \in DOMAIN <<>> : <<>>[i] \in Packets
    OBVIOUS
  <2>4. QED
    BY <2>1, <2>2, <2>3
<1>3. down = <<>> /\ asked = {} /\ requests = <<>>
  BY DEF Init
<1>4. PacketsOK
  BY <1>2, <1>3 DEF PacketsOK
<1>5. writeReqid \in Ids
  <2>. DEFINE H == 2^(Width - 1)
  <2>1. H \in Nat /\ H > 0
    BY Powers
  <2>. HIDE DEF H
  <2>2. -1 \in -H..(H - 1)
    BY <2>1
  <2>3. QED
    BY <2>2 DEF Init, Fresh, Used, Ids, H
<1>6. Fields
  <2>1. version \in BOOLEAN /\ sVersion \in BOOLEAN
    BY Zenon DEF Init, Fresh, Used
  <2>2. QED
    BY <1>5, <2>1, SftpAssumption DEF Init, Fields, States
<1>7. Kept /\ Accounted /\ Answers
  BY <1>3, SftpAssumption DEF Init, Kept, Accounted, Answers
<1>8. AllMatch
  <2>1. DOMAIN requests = {}
    BY <1>3
  <2>2. QED
    BY <2>1 DEF AllMatch, Matches
<1>9. TypeOK
  <2>1. \A i \in DOMAIN up : up[i].id \in 0..(2^Width - 1)
    <3>1. \A m \in Packets : m.id \in 0..(2^Width - 1)
      BY DEF Packets
    <3>2. QED
      BY <1>2, <3>1
  <2>2. QED
    BY <1>3, <1>6, <1>7, <2>1 DEF TypeOK, Fields, Kept, Answers
<1>10. QED
  BY <1>4, <1>7, <1>8, <1>9 DEF IInv

\* Each of the 23 methods is a request, each handler of the server receives one,
\* each answer of the application is a response.
LEMMA Kinds ==
    /\ Methods => \E want \in Wants : Request(want)
    /\ ServerHandlers => \E l \in BOOLEAN, want \in Wants : Received(want, l)
    /\ Answer => \E a \in asked, type \in Wants \cup {"MALFORMED"} : Respond(a, type)
<1>1. Methods => \E want \in Wants : Request(want)
  BY DEF Methods, Wants, open, close, read, write, unlink, rename, mkdir, rmdir, readdir,
         fstat, stat, lstat, opendir, setstat, fsetstat, readlink, symlink, realpath,
         ext_openssh_rename, ext_openssh_statvfs, ext_openssh_fstatvfs,
         ext_openssh_hardlink, ext_openssh_fsync
<1>2. ServerHandlers => \E l \in BOOLEAN, want \in Wants : Received(want, l)
  BY DEF ServerHandlers, Wants, OPEN, CLOSE_, READ, WRITE, LSTAT, FSTAT, SETSTAT, FSETSTAT,
         OPENDIR, READDIR, REMOVE, MKDIR, RMDIR, REALPATH, STAT, RENAME, READLINK,
         SYMLINK, EXTENDED_
<1>3. Answer => \E a \in asked, type \in Wants \cup {"MALFORMED"} : Respond(a, type)
  BY DEF Answer, Wants, handle, status, data, name, attrs, OtherServer
<1>4. QED
  BY <1>1, <1>2, <1>3

\* Every step keeps the invariant.
LEMMA Inductive == IInv /\ [Next]_vars => IInv'
<1>. SUFFICES ASSUME IInv, [Next]_vars
              PROVE  IInv'
  OBVIOUS
<1>1. CASE Methods
  BY <1>1, Kinds, RequestStep
<1>2. CASE ServerHandlers
  BY <1>2, Kinds, ReceivedStep
<1>3. CASE Answer
  BY <1>3, Kinds, RespondStep
<1>4. CASE STATUS \/ HANDLE \/ DATA \/ NAME \/ ATTRS \/ EXTENDED
  BY <1>4, ResponseStep DEF Wants, STATUS, HANDLE, DATA, NAME, ATTRS, EXTENDED
<1>5. CASE VERSION
  BY <1>5, VersionStep
<1>6. CASE MALFORMED
  BY <1>6, MalformedStep
<1>7. CASE RcvEof
  BY <1>7, RcvEofStep
<1>8. CASE RcvClose
  BY <1>8, RcvCloseStep
<1>9. CASE INIT
  BY <1>9, InitStep
<1>10. CASE ServerRcvClose
  BY <1>10, ServerRcvCloseStep
<1>11. CASE End
  BY <1>11, EndStep
<1>12. CASE ServerEof \/ ServerEnd
  BY <1>12, ServerStops
<1>13. CASE SocketClose
  BY <1>13, SocketCloseStep
<1>14. CASE UNCHANGED vars
  <2>1. UNCHANGED <<version, writeReqid, requests, readable, cIn, cOut, sVersion, asked, sIn, sOut,
                    up, down, sock, calls, times, answer, late, spoiled, negative>>
    BY <1>14 DEF vars, client, server, history
  <2>2. Fields' /\ PacketsOK' /\ UnderWay' = UnderWay
    BY <2>1, FieldsOK DEF Fields, IInv, PacketsOK, UnderWay
  <2>3. QED
    BY <2>1, <2>2, Untouched
<1>15. QED
  BY <1>1, <1>2, <1>3, <1>4, <1>5, <1>6, <1>7, <1>8, <1>9, <1>10, <1>11, <1>12, <1>13, <1>14
     DEF Next, Deliver

LEMMA Invariance == Spec => []IInv
BY Initially, Inductive, PTL DEF Spec

\* No callback is given the answer to another request, whatever the order of the
\* answers, the requests in progress and the number of times the ids have wrapped.
THEOREM EachItsOwnAnswer == Spec => []OwnAnswer
<1>1. IInv => OwnAnswer
  BY DEF IInv, OwnAnswer, Answers
<1>2. QED
  BY <1>1, Invariance, PTL

\* No callback is called twice, and a channel that has ended, however it ended,
\* owes no callback but the one of a malformed response.
THEOREM EachCalledOnce == Spec => []CalledOnce
<1>1. IInv => CalledOnce
  <2>. SUFFICES ASSUME IInv
                PROVE  CalledOnce
    OBVIOUS
  <2>1. ASSUME ~readable, NEW c \in 1..calls
        PROVE  times[c] = 1 \/ c \in late \cup spoiled
    BY <2>1 DEF IInv, Accounted
  <2>2. QED
    BY <2>1 DEF IInv, Accounted, CalledOnce
<1>2. QED
  BY <1>1, Invariance, PTL
=============================================================================
