------------------------- MODULE SftpStreamsProofs --------------------------
(***************************************************************************)
(* Proofs about SftpStreams, for any streams, options, file size, pools,   *)
(* alignment and number of writes.                                         *)
(*                                                                         *)
(* Memory: the pieces reserved, free, given back and given to the          *)
(* application lie apart, below what is allocated.  A piece that a step    *)
(* makes comes out of one that it takes away, or out of new memory.        *)
(* Writes: what was sent and is neither under way nor failed is in the     *)
(* file, and writesLeft counts those that are one or the other.            *)
(***************************************************************************)
EXTENDS SftpStreams, FiniteSetTheorems, TLAPS

-----------------------------------------------------------------------------
(* The invariant.                                                          *)

Pools == [base : Nat, length : Nat, used : Nat]
Reservations ==
    [base : Nat, length : Nat, start : Nat, toRead : Nat, nb : Nat, dead : BOOLEAN]
Slices == [stream : Streams, addr : Nat, pos : Nat, length : Nat]
Writes == [pos : Nat, data : Nat, len : Nat, dead : BOOLEAN]
Steps == {"open", "fchmod", "chmod", "fstat", "stat", "opened", "failed"}

\* Up to where memory is allocated.
Lim == allocated * MaxHwm

Config ==
    /\ writer \in [Streams -> BOOLEAN] /\ append \in [Streams -> BOOLEAN]
    /\ hwm \in [Streams -> Nat] /\ end \in [Streams -> Nat]
    /\ \A s \in Streams : hwm[s] <= MaxHwm /\ (append[s] => writer[s])

\* The handle of a stream: it comes with the answer to OPEN, and a stream that
\* closes it keeps it only if it waited for 'open'.
StatesFine ==
    /\ opening \in [Streams -> BOOLEAN]
    /\ handle \in [Streams -> BOOLEAN] /\ destroyed \in [Streams -> BOOLEAN]
    /\ onOpen \in [Streams -> BOOLEAN]
    /\ closing \in [Streams -> {"no", "sent", "dead", "answered"}]
    /\ \A s \in Streams : onOpen[s] \/ closing[s] # "no" => destroyed[s]

HandleFine(s) ==
    /\ step[s] = "open" => opening[s] /\ ~handle[s] /\ closing[s] = "no"
    /\ closing[s] # "no" /\ handle[s] => step[s] = "opened"
    /\ sent[s] > 0 => handle[s] \/ destroyed[s]

LifeFine ==
    /\ StatesFine
    /\ step \in [Streams -> Steps] /\ pos \in [Streams -> Nat]
    /\ waiting \in [Streams -> Nat] /\ ended \in BOOLEAN
    /\ \A s \in Streams :
          /\ HandleFine(s)
          /\ step[s] \in {"fstat", "stat"} => append[s]
          /\ waiting[s] > 0 => writer[s] /\ sent[s] = 0 /\ waiting[s] <= MaxWrites

\* Two pieces of memory.
Apart(a, la, b, lb) == la <= 0 \/ lb <= 0 \/ a + la <= b \/ b + lb <= a

At(s) == read[s].base + read[s].start
FreeAt == pool.base + pool.used
FreeLength == pool.length - pool.used

Within ==
    /\ pool \in Pools /\ poolFragments \in Seq(Pools) /\ allocated \in 0..MaxPools
    /\ read \in [Streams -> Reservations] /\ delivered \subseteq Slices
    /\ DOMAIN mem = 0..(MaxPools * MaxHwm - 1)
    /\ pool.base + pool.length <= Lim
    /\ \A s \in Streams : /\ read[s].start + read[s].toRead <= read[s].length
                          /\ At(s) + read[s].toRead <= Lim
    /\ \A i \in 1..Len(poolFragments) :
          /\ poolFragments[i].used = 0 /\ poolFragments[i].length >= kMinPoolSpace
          /\ poolFragments[i].length % Align = 0
          /\ poolFragments[i].base + poolFragments[i].length <= Lim
    /\ \A d \in delivered : d.length > 0 /\ d.addr + d.length <= Lim

\* The kinds of pieces, two by two.
ReservedApart ==
    \A s \in Streams :
        /\ \A t \in Streams : s # t => Apart(At(s), read[s].toRead, At(t), read[t].toRead)
        /\ Apart(At(s), read[s].toRead, FreeAt, FreeLength)
        /\ \A i \in 1..Len(poolFragments) :
              Apart(At(s), read[s].toRead, poolFragments[i].base, poolFragments[i].length)
        /\ \A d \in delivered : Apart(At(s), read[s].toRead, d.addr, d.length)

FreeApart ==
    /\ \A i \in 1..Len(poolFragments) :
          Apart(FreeAt, FreeLength, poolFragments[i].base, poolFragments[i].length)
    /\ \A d \in delivered : Apart(FreeAt, FreeLength, d.addr, d.length)

OthersApart ==
    /\ \A i, j \in 1..Len(poolFragments) :
          i # j => Apart(poolFragments[i].base, poolFragments[i].length,
                         poolFragments[j].base, poolFragments[j].length)
    /\ \A i \in 1..Len(poolFragments), d \in delivered :
          Apart(poolFragments[i].base, poolFragments[i].length, d.addr, d.length)
    /\ \A d, e \in delivered : d # e => Apart(d.addr, d.length, e.addr, e.length)

\* What was handed out, and how far a stream has come.
Intact(d) == \A i \in 0..(d.length - 1) : mem[d.addr + i] = <<d.stream, d.pos + i>>

Covered(s) ==
    /\ \A d \in delivered : d.stream = s => d.pos + d.length <= pos[s]
    /\ \A p \in 0..(pos[s] - 1) :
          \E d \in delivered : d.stream = s /\ d.pos <= p /\ p < d.pos + d.length
    /\ pos[s] + read[s].toRead <= end[s] + 1

Data ==
    /\ \A d \in delivered : Intact(d) /\ ~writer[d.stream]
    /\ \A s \in Streams : IF writer[s] THEN read[s] = NoRead ELSE Covered(s)
    /\ \A d, e \in delivered :
          d # e /\ d.stream = e.stream => d.pos + d.length <= e.pos \/ e.pos + e.length <= d.pos

Memory == Within /\ ReservedApart /\ FreeApart /\ OthersApart /\ Data

\* What a read under way has got so far lies in its reservation.
Got(s) == \A i \in 0..(read[s].nb - 1) : mem[At(s) + i] = <<s, pos[s] + i>>

Partial ==
    \A s \in Streams : read[s].nb <= read[s].toRead /\ (~writer[s] => Got(s))

WriteTypes ==
    /\ pending \in [Streams -> SUBSET Writes] /\ writesLeft \in [Streams -> Nat]
    /\ batch \in [Streams -> Nat] /\ sent \in [Streams -> Nat]
    /\ doneCbs \in [Streams -> Nat] /\ failCbs \in [Streams -> Nat]
    /\ early \in [Streams -> Nat] /\ first \in [Streams -> Nat]
    /\ DOMAIN file = Streams

\* The places of the file that are written, or not yet.
Places == 0..(FileSize + MaxBytes - 1)
Untouched(s, n) == \A p \in Places : p < n => file[s][p] = -1

\* Where byte i goes: what was sent early goes where the stream then thought it was.
Place(s, i) == IF i < early[s] THEN i ELSE first[s] + (i - early[s])

Stored(s, i) ==
    \/ file[s][first[s] + (i - early[s])] = i
    \/ failCbs[s] > 0
    \/ \E w \in pending[s] : w.data <= i /\ i < w.data + w.len

\* Where the bytes go that are not early.
FirstFine(s) ==
    /\ first[s] <= FileSize + early[s]
    /\ step[s] # "opened" \/ ~append[s] => early[s] = 0 /\ first[s] = 0
    /\ early[s] = 0 => first[s] \in {0, FileSize} /\ Untouched(s, first[s])
    /\ step[s] = "opened" /\ append[s] /\ early[s] = 0 => first[s] = FileSize

PositionFine(s) ==
    /\ FirstFine(s) /\ early[s] <= sent[s]
    /\ writer[s] => pos[s] = first[s] + (sent[s] - early[s])
    /\ ~writer[s] => sent[s] = 0
    /\ sent[s] = 0 => Untouched(s, FileSize + MaxBytes)

WritesFine(s) ==
    /\ DOMAIN file[s] = Places
    /\ sent[s] <= MaxBytes /\ batch[s] <= sent[s] /\ writesLeft[s] <= batch[s]
    /\ IsFiniteSet(pending[s]) /\ writesLeft[s] = Cardinality(pending[s]) + failCbs[s]
    /\ \A w \in pending[s] :
          /\ w.len > 0 /\ w.data + w.len <= sent[s] /\ w.pos = Place(s, w.data)
          /\ w.data < early[s] => sent[s] = early[s]
    /\ \A v, w \in pending[s] :
          v # w => v.data + v.len <= w.data \/ w.data + w.len <= v.data
    /\ \A i \in early[s]..(sent[s] - 1) : Stored(s, i)
    /\ batch[s] = 0 => sent[s] = 0
    /\ doneCbs[s] = IF batch[s] > 0 /\ writesLeft[s] = 0 THEN 1 ELSE 0

WritesAll == WriteTypes /\ \A s \in Streams : PositionFine(s) /\ WritesFine(s)

IInv == Config /\ LifeFine /\ Memory /\ Partial /\ WritesAll

-----------------------------------------------------------------------------
(* Arithmetic of the pool.                                                 *)

\* The largest highWaterMark is one of them.
LEMMA Marks ==
    /\ MaxHwm \in Nat \ {0}
    /\ \A g \in HighWaterMarks : g \in Nat /\ g <= MaxHwm
<1>1. \E h \in HighWaterMarks : \A g \in HighWaterMarks : g <= h
  BY StreamsAssumption
<1>2. MaxHwm \in HighWaterMarks /\ \A g \in HighWaterMarks : g <= MaxHwm
  BY <1>1, Zenon DEF MaxHwm
<1> QED BY <1>2, StreamsAssumption

\* Quotients and products, as the rounding uses them.
LEMMA Quotient ==
    \A n \in Nat, m \in Nat \ {0} :
        /\ n \div m \in Nat /\ (n \div m) * m \in Nat
        /\ (n \div m) * m <= n /\ n < (n \div m) * m + m
  OBVIOUS

LEMMA Multiple ==
    \A k \in Int, m \in Nat \ {0} : (k * m) % m = 0
<1> TAKE k \in Int, m \in Nat \ {0}
<1> DEFINE q == (k * m) \div m
           r == (k * m) % m
<1>1. q \in Int /\ r \in Int /\ k * m \in Int /\ k * m = m * q + r /\ 0 <= r /\ r < m
  OBVIOUS
<1> HIDE DEF q, r
<1>2. r = (k - q) * m /\ k - q \in Int
  BY <1>1
<1>3. CASE k - q >= 1
  <2>1. (k - q) * m >= m
    BY <1>1, <1>3
  <2> QED BY <2>1, <1>1, <1>2
<1>4. CASE k - q <= -1
  <2>1. (k - q) * m <= -m
    BY <1>1, <1>4
  <2> QED BY <2>1, <1>1, <1>2
<1>5. CASE k - q = 0
  BY <1>5, <1>1, <1>2 DEF r
<1> QED BY <1>1, <1>3, <1>4, <1>5

LEMMA Rounding ==
    \A n \in Nat :
        /\ roundUpToMultipleOf8(n) \in Nat /\ roundUpToMultipleOf8(n) >= n
        /\ RoundDown(n) \in Nat /\ RoundDown(n) <= n
<1> TAKE n \in Nat
<1>1. Align \in Nat \ {0} /\ n + Align - 1 \in Nat
  BY StreamsAssumption
<1>2. roundUpToMultipleOf8(n) \in Nat /\ n + Align - 1 < roundUpToMultipleOf8(n) + Align
  BY <1>1, Quotient DEF roundUpToMultipleOf8
<1>3. RoundDown(n) \in Nat /\ RoundDown(n) <= n
  BY <1>1, Quotient DEF RoundDown
<1> QED BY <1>1, <1>2, <1>3

\* A fragment is made of whole multiples.
LEMMA WholeMultiples ==
    \A n, k \in Nat : (RoundDown(n) - roundUpToMultipleOf8(k)) % Align = 0
<1> TAKE n, k \in Nat
<1> DEFINE x == n \div Align
           y == (k + Align - 1) \div Align
<1>1. Align \in Nat \ {0} /\ x \in Nat /\ y \in Nat
  BY StreamsAssumption, Quotient
<1>2. RoundDown(n) - roundUpToMultipleOf8(k) = x * Align - y * Align
  BY DEF RoundDown, roundUpToMultipleOf8
<1> HIDE DEF x, y
<1>3. x * Align - y * Align = (x - y) * Align /\ x - y \in Int
  BY <1>1
<1>4. ((x - y) * Align) % Align = 0
  BY <1>1, <1>3, Multiple
<1> QED BY <1>2, <1>3, <1>4

\* What is allocated lies in memory, and one more pool adds MaxHwm bytes.
LEMMA Limits ==
    \A a, m \in Nat :
        /\ a * MaxHwm \in Nat /\ (a + 1) * MaxHwm = a * MaxHwm + MaxHwm
        /\ a <= m => a * MaxHwm <= m * MaxHwm
<1> TAKE a, m \in Nat
<1> DEFINE h == MaxHwm
<1>1. h \in Nat
  BY Marks
<1> HIDE DEF h
<1>2. a * h \in Nat /\ (a + 1) * h = a * h + h
  BY <1>1
<1>3. ASSUME a <= m PROVE a * h <= m * h
  <2>1. PICK k \in Nat : m = a + k
    <3>1. m - a \in Nat /\ m = a + (m - a)
      BY <1>3
    <3> QED BY <3>1
  <2>2. m * h = a * h + k * h /\ k * h \in Nat /\ a * h \in Nat
    BY <2>1, <1>1
  <2> QED BY <2>2
<1> QED BY <1>2, <1>3 DEF h

\* Two pieces that lie apart: their bytes, parts of them, their sum.
LEMMA ApartSpans ==
    \A a, la, b, lb \in Int : Apart(a, la, b, lb) => Span(a, la) \cap Span(b, lb) = {}
  BY DEF Apart, Span

LEMMA ApartSym ==
    \A a, la, b, lb \in Int : Apart(a, la, b, lb) => Apart(b, lb, a, la)
  BY DEF Apart

LEMMA ApartPart ==
    \A a, la, b, lb, c, lc \in Int :
        Apart(a, la, b, lb) /\ a <= c /\ c + lc <= a + la => Apart(c, lc, b, lb)
  BY DEF Apart

LEMMA ApartSum ==
    \A a, la, lc, b, lb \in Int :
        0 <= la /\ 0 <= lc /\ Apart(a, la, b, lb) /\ Apart(a + la, lc, b, lb)
          => Apart(a, la + lc, b, lb)
  BY DEF Apart

-----------------------------------------------------------------------------
(* Memory.                                                                 *)

\* A step that does not touch the pool, the reads and the memory.
LEMMA MemoryFrame ==
    ASSUME Memory, UNCHANGED <<writer, end, pool, poolFragments, allocated, read, mem, delivered>>,
           \A s \in Streams : ~writer[s] => pos'[s] = pos[s]
    PROVE  Memory'
<1>1. Within'
  BY DEF Memory, Within, Lim, At
<1>2. ReservedApart' /\ FreeApart' /\ OthersApart'
  BY DEF Memory, ReservedApart, FreeApart, OthersApart, At, FreeAt, FreeLength
<1>3. \A s \in Streams : ~writer[s] /\ Covered(s) => Covered(s)'
  BY DEF Covered
<1>4. \A d \in delivered : Intact(d) => Intact(d)'
  BY DEF Intact
<1>5. Data'
  BY <1>3, <1>4 DEF Memory, Data
<1> QED BY <1>1, <1>2, <1>5 DEF Memory

LEMMA PartialFrame ==
    ASSUME Partial, UNCHANGED <<writer, read, mem>>, \A s \in Streams : ~writer[s] => pos'[s] = pos[s]
    PROVE  Partial'
<1>1. \A s \in Streams : ~writer[s] /\ Got(s) => Got(s)'
  BY DEF Got, At
<1> QED BY <1>1 DEF Partial

\* The types of what the pieces are made of.
LEMMA PieceTypes ==
    ASSUME Within
    PROVE  /\ Lim \in Nat /\ Lim <= MaxPools * MaxHwm /\ MaxPools * MaxHwm \in Nat
           /\ FreeAt \in Nat /\ FreeLength \in Int
           /\ pool.base \in Nat /\ pool.length \in Nat /\ pool.used \in Nat
           /\ \A s \in Streams :
                 /\ At(s) \in Nat /\ read[s].toRead \in Nat /\ read[s].start \in Nat
                 /\ read[s].base \in Nat /\ read[s].length \in Nat
           /\ \A i \in 1..Len(poolFragments) :
                 /\ poolFragments[i] \in Pools
                 /\ poolFragments[i].base \in Nat /\ poolFragments[i].length \in Nat
           /\ \A d \in delivered : /\ d.stream \in Streams /\ d.addr \in Nat /\ d.pos \in Nat
                                   /\ d.length \in Nat
<1>1. Lim \in Nat /\ Lim <= MaxPools * MaxHwm /\ MaxPools * MaxHwm \in Nat
  <2>1. allocated \in Nat /\ MaxPools \in Nat /\ allocated <= MaxPools
    BY StreamsAssumption DEF Within
  <2> QED BY <2>1, Limits DEF Lim
<1>2. /\ FreeAt \in Nat /\ FreeLength \in Int
      /\ pool.base \in Nat /\ pool.length \in Nat /\ pool.used \in Nat
  BY DEF Within, Pools, FreeAt, FreeLength
<1>3. \A s \in Streams :
         /\ At(s) \in Nat /\ read[s].toRead \in Nat /\ read[s].start \in Nat
         /\ read[s].base \in Nat /\ read[s].length \in Nat
  BY DEF Within, Reservations, At
<1>4. \A i \in 1..Len(poolFragments) :
         /\ poolFragments[i] \in Pools
         /\ poolFragments[i].base \in Nat /\ poolFragments[i].length \in Nat
  <2>1. poolFragments \in Seq(Pools)
    BY DEF Within
  <2>2. \A i \in 1..Len(poolFragments) : poolFragments[i] \in Pools
    BY <2>1
  <2> QED BY <2>2 DEF Pools
<1>5. \A d \in delivered : /\ d.stream \in Streams /\ d.addr \in Nat /\ d.pos \in Nat
                           /\ d.length \in Nat
  BY DEF Within, Slices
<1> QED BY <1>1, <1>2, <1>3, <1>4, <1>5

LEMMA NoReadFacts ==
    /\ NoRead \in Reservations /\ NoRead.toRead = 0 /\ NoRead.start = 0 /\ NoRead.length = 0
    /\ NoRead.base = 0 /\ NoRead.nb = 0
  BY DEF NoRead, Reservations

\* A reservation that is dropped.
LEMMA DropsReservation ==
    ASSUME Memory, pos \in [Streams -> Nat], end \in [Streams -> Nat],
           NEW s \in Streams, read' = [read EXCEPT ![s] = NoRead],
           UNCHANGED <<writer, end, pool, poolFragments, allocated, mem, delivered, pos>>
    PROVE  Memory'
<1> USE NoReadFacts
<1>1. Within
  BY DEF Memory
<1>2. read'[s] = NoRead /\ \A t \in Streams \ {s} : read'[t] = read[t]
  BY <1>1 DEF Within
<1>3. \A t \in Streams \ {s} : At(t)' = At(t)
  BY <1>2 DEF At
<1>s. At(s)' = 0
  BY <1>2 DEF At
<1>4. Within'
  <2>1. read' \in [Streams -> Reservations]
    BY <1>1 DEF Within
  <2>2. \A t \in Streams : /\ read'[t].start + read'[t].toRead <= read'[t].length
                           /\ At(t)' + read'[t].toRead <= Lim
    <3>1. Lim \in Nat
      BY <1>1, PieceTypes
    <3>2. /\ read'[s].start + read'[s].toRead <= read'[s].length
          /\ At(s)' + read'[s].toRead <= Lim
      BY <1>2, <1>s, <3>1
    <3> QED BY <1>1, <1>2, <1>3, <3>2 DEF Within
  <2> QED BY <2>1, <2>2, <1>1 DEF Within, Lim
<1>5. ReservedApart'
  <2>1. \A t \in Streams, b, lb \in Int :
           Apart(At(t), read[t].toRead, b, lb) => Apart(At(t)', read'[t].toRead, b, lb)
    BY <1>2, <1>3 DEF Apart
  <2>2. \A t \in Streams, u \in Streams : t # u =>
           Apart(At(t)', read'[t].toRead, At(u)', read'[u].toRead)
    BY <1>2, <1>3 DEF Apart, ReservedApart, Memory
  <2>3. \A t \in Streams : Apart(At(t)', read'[t].toRead, FreeAt, FreeLength)
    BY <2>1, <1>1, PieceTypes DEF ReservedApart, Memory
  <2>4. \A t \in Streams : \A i \in 1..Len(poolFragments) :
           Apart(At(t)', read'[t].toRead, poolFragments[i].base, poolFragments[i].length)
    <3> TAKE t \in Streams
    <3> TAKE i \in 1..Len(poolFragments)
    <3>1. poolFragments[i].base \in Int /\ poolFragments[i].length \in Int
      BY <1>1, PieceTypes
    <3>2. Apart(At(t), read[t].toRead, poolFragments[i].base, poolFragments[i].length)
      BY DEF ReservedApart, Memory
    <3> QED BY <2>1, <3>1, <3>2
  <2>5. \A t \in Streams : \A d \in delivered : Apart(At(t)', read'[t].toRead, d.addr, d.length)
    <3> TAKE t \in Streams
    <3> TAKE d \in delivered
    <3>1. d.addr \in Int /\ d.length \in Int
      BY <1>1, PieceTypes
    <3>2. Apart(At(t), read[t].toRead, d.addr, d.length)
      BY DEF ReservedApart, Memory
    <3> QED BY <2>1, <3>1, <3>2
  <2> QED BY <2>2, <2>3, <2>4, <2>5 DEF ReservedApart, FreeAt, FreeLength
<1>6. FreeApart' /\ OthersApart'
  BY DEF Memory, FreeApart, OthersApart, FreeAt, FreeLength
<1>7. Data'
  <2>1. \A d \in delivered : Intact(d) => Intact(d)'
    BY DEF Intact
  <2>2. \A t \in Streams : ~writer[t] => Covered(t)'
    <3> TAKE t \in Streams
    <3>1. read'[t].toRead <= read[t].toRead /\ read'[t].toRead \in Nat /\ read[t].toRead \in Nat
      <4>1. read[t].toRead \in Nat
        BY <1>1, PieceTypes
      <4> QED BY <4>1, <1>2
    <3>2. ASSUME ~writer[t] PROVE pos[t] + read'[t].toRead <= end[t] + 1
      <4>1. pos[t] + read[t].toRead <= end[t] + 1
        BY <3>2 DEF Memory, Data, Covered
      <4> QED BY <4>1, <3>1
    <3> QED BY <3>2 DEF Memory, Data, Covered
  <2> QED BY <2>1, <2>2, <1>2 DEF Memory, Data
<1> QED BY <1>4, <1>5, <1>6, <1>7 DEF Memory

\* What a piece of memory must be to become the pool, and what the fragments must
\* be, when they are fr and memory is allocated up to lim.
Fits(p, fr, lim) ==
    /\ p \in Pools /\ p.base + p.length <= lim
    /\ \A s \in Streams : Apart(At(s), read[s].toRead, p.base + p.used, p.length - p.used)
    /\ \A i \in 1..Len(fr) :
          Apart(p.base + p.used, p.length - p.used, fr[i].base, fr[i].length)
    /\ \A d \in delivered : Apart(p.base + p.used, p.length - p.used, d.addr, d.length)

FragmentsFine(fr, lim) ==
    /\ fr \in Seq(Pools)
    /\ \A i \in 1..Len(fr) : /\ fr[i].used = 0 /\ fr[i].length >= kMinPoolSpace
                             /\ fr[i].length % Align = 0 /\ fr[i].base + fr[i].length <= lim
    /\ \A s \in Streams : \A i \in 1..Len(fr) :
          Apart(At(s), read[s].toRead, fr[i].base, fr[i].length)
    /\ \A i, j \in 1..Len(fr) : i # j => Apart(fr[i].base, fr[i].length, fr[j].base, fr[j].length)
    /\ \A i \in 1..Len(fr), d \in delivered : Apart(fr[i].base, fr[i].length, d.addr, d.length)

LEMMA MemoryFits ==
    ASSUME Memory
    PROVE  Fits(pool, poolFragments, Lim) /\ FragmentsFine(poolFragments, Lim)
<1>1. Fits(pool, poolFragments, Lim)
  BY DEF Fits, Memory, Within, ReservedApart, FreeApart, FreeAt, FreeLength
<1>2. FragmentsFine(poolFragments, Lim)
  BY DEF FragmentsFine, Memory, Within, ReservedApart, OthersApart
<1> QED BY <1>1, <1>2

\* What lies in front of the limit is apart from what lies behind it.
LEMMA BehindLimit ==
    \A a, la, b, lb, lim \in Int : a + la <= lim /\ lim <= b => Apart(a, la, b, lb)
  BY DEF Apart

\* All but the last element of a sequence.
LEMMA FrontFacts ==
    ASSUME NEW S, NEW q \in Seq(S), Len(q) \in Nat \ {0}
    PROVE  /\ Front(q) \in Seq(S) /\ Len(Front(q)) = Len(q) - 1
           /\ \A i \in 1..(Len(q) - 1) : Front(q)[i] = q[i]
<1> DEFINE n == Len(q) - 1
<1>1. n \in Nat /\ \A i \in 1..n : i \in 1..Len(q)
  OBVIOUS
<1>2. \A i \in 1..n : q[i] \in S
  BY <1>1
<1>3. Front(q) = SubSeq(q, 1, n)
  BY DEF Front
<1> HIDE DEF n
<1>4. /\ SubSeq(q, 1, n) \in Seq(S) /\ Len(SubSeq(q, 1, n)) = n
      /\ \A i \in 1..n : SubSeq(q, 1, n)[i] = q[i]
  BY <1>1, <1>2
<1> QED BY <1>3, <1>4 DEF n

\* Taking the last fragment.
LEMMA TakesFragment ==
    ASSUME Memory, poolFragments # <<>>
    PROVE  /\ Fits(Last(poolFragments), Front(poolFragments), Lim)
           /\ FragmentsFine(Front(poolFragments), Lim)
<1> DEFINE fr == poolFragments
           n == Len(fr)
<1>1. FragmentsFine(fr, Lim) /\ Within
  BY MemoryFits DEF Memory
<1>2. fr \in Seq(Pools) /\ n \in Nat \ {0}
  BY <1>1 DEF FragmentsFine
<1>3. Last(fr) = fr[n]
  BY DEF Last
<1>4. /\ Front(fr) \in Seq(Pools) /\ Len(Front(fr)) = n - 1
      /\ \A i \in 1..(n - 1) : Front(fr)[i] = fr[i]
  BY <1>2, FrontFacts
<1>5. n \in 1..n /\ \A i \in 1..(n - 1) : i \in 1..n /\ i # n
  BY <1>2
<1> HIDE DEF n
<1>6. FragmentsFine(Front(fr), Lim)
  <2>1. \A i \in 1..(n - 1) : /\ fr[i].used = 0 /\ fr[i].length >= kMinPoolSpace
                              /\ fr[i].length % Align = 0 /\ fr[i].base + fr[i].length <= Lim
    BY <1>1, <1>5 DEF FragmentsFine, n
  <2>2. \A s \in Streams : \A i \in 1..(n - 1) :
           Apart(At(s), read[s].toRead, fr[i].base, fr[i].length)
    BY <1>1, <1>5 DEF FragmentsFine, n
  <2>3. \A i, j \in 1..(n - 1) :
           i # j => Apart(fr[i].base, fr[i].length, fr[j].base, fr[j].length)
    BY <1>1, <1>5 DEF FragmentsFine, n
  <2>4. \A i \in 1..(n - 1), d \in delivered : Apart(fr[i].base, fr[i].length, d.addr, d.length)
    BY <1>1, <1>5 DEF FragmentsFine, n
  <2> QED BY <2>1, <2>2, <2>3, <2>4, <1>4 DEF FragmentsFine
<1>7. Fits(Last(fr), Front(fr), Lim)
  <2> DEFINE p == fr[n]
  <2>1. /\ p \in Pools /\ p.used = 0 /\ p.base + p.length <= Lim
        /\ p.base \in Nat /\ p.length \in Nat
    BY <1>1, <1>5, PieceTypes DEF FragmentsFine, n
  <2>2. p.base + p.used = p.base /\ p.length - p.used = p.length
    BY <2>1
  <2>3. \A s \in Streams : Apart(At(s), read[s].toRead, p.base, p.length)
    BY <1>1, <1>5 DEF FragmentsFine, n
  <2>4. \A i \in 1..(n - 1) : Apart(p.base, p.length, fr[i].base, fr[i].length)
    BY <1>1, <1>5 DEF FragmentsFine, n
  <2>5. \A d \in delivered : Apart(p.base, p.length, d.addr, d.length)
    BY <1>1, <1>5 DEF FragmentsFine, n
  <2> HIDE DEF p
  <2>6. Fits(p, Front(fr), Lim)
    BY <2>1, <2>2, <2>3, <2>4, <2>5, <1>4 DEF Fits
  <2> QED BY <2>6, <1>3 DEF p
<1> QED BY <1>6, <1>7

\* New memory lies behind everything.
LEMMA TakesMemory ==
    ASSUME Memory, NEW s \in Streams, hwm \in [Streams -> Nat], hwm[s] <= MaxHwm,
           poolFragments = <<>>
    PROVE  /\ Fits([base |-> allocated * MaxHwm, length |-> hwm[s], used |-> 0],
                   poolFragments, (allocated + 1) * MaxHwm)
           /\ FragmentsFine(poolFragments, (allocated + 1) * MaxHwm)
           /\ Lim <= (allocated + 1) * MaxHwm
<1> DEFINE p == [base |-> allocated * MaxHwm, length |-> hwm[s], used |-> 0]
           lim == (allocated + 1) * MaxHwm
<1>1. Within /\ FragmentsFine(poolFragments, Lim)
  BY MemoryFits DEF Memory
<1>2. allocated \in Nat /\ Lim \in Nat /\ lim = Lim + MaxHwm /\ MaxHwm \in Nat
  BY <1>1, PieceTypes, Limits, Marks DEF Within, Lim
<1>3. p.base = Lim /\ p.length = hwm[s] /\ p.used = 0 /\ p \in Pools
  BY <1>2 DEF Lim, Pools
<1>4. Len(poolFragments) = 0
  OBVIOUS
<1> HIDE DEF p, lim
<1>5. p.base + p.used = Lim /\ p.length - p.used = hwm[s] /\ p.base + p.length <= lim /\ hwm[s] \in Nat
  BY <1>2, <1>3
<1>6. FragmentsFine(poolFragments, lim)
  BY <1>1, <1>4 DEF FragmentsFine
<1>7. \A t \in Streams : Apart(At(t), read[t].toRead, Lim, hwm[s])
  <2> TAKE t \in Streams
  <2>1. At(t) \in Int /\ read[t].toRead \in Int /\ At(t) + read[t].toRead <= Lim
    BY <1>1, PieceTypes DEF Within
  <2> QED BY <2>1, <1>2, <1>5 DEF Apart
<1>8. \A d \in delivered : Apart(Lim, hwm[s], d.addr, d.length)
  <2> TAKE d \in delivered
  <2>1. d.addr \in Int /\ d.length \in Int /\ d.addr + d.length <= Lim
    BY <1>1, PieceTypes DEF Within
  <2> QED BY <2>1, <1>2, <1>5 DEF Apart
<1>9. Fits(p, poolFragments, lim)
  BY <1>3, <1>4, <1>5, <1>7, <1>8 DEF Fits
<1> QED BY <1>2, <1>6, <1>9 DEF p, lim

LEMMA LeastOfThree ==
    ASSUME NEW a \in Int, NEW b \in Int, NEW c \in Int
    PROVE  LET m == Min({a, b, c}) IN m \in Int /\ m <= a /\ m <= b /\ m <= c
<1> DEFINE S == {a, b, c}
<1>1. \E x \in S : \A y \in S : x <= y
  <2>1. CASE a <= b /\ a <= c
    BY <2>1
  <2>2. CASE b <= a /\ b <= c
    BY <2>2
  <2>3. CASE c <= a /\ c <= b
    BY <2>3
  <2> QED BY <2>1, <2>2, <2>3
<1>2. Min(S) \in S /\ \A y \in S : Min(S) <= y
  <2> HIDE DEF S
  <2> QED BY <1>1, Zenon DEF Min
<1>3. Min(S) \in Int
  BY <1>2
<1>4. Min(S) <= a /\ Min(S) <= b /\ Min(S) <= c
  BY <1>2
<1> QED BY <1>3, <1>4

\* Reserving n bytes cuts the free piece of p in two.
LEMMA Carve ==
    ASSUME NEW p \in Pools, NEW n \in Nat, n > 0, n <= p.length - p.used,
           NEW u \in Nat, u >= p.used + n
    PROVE  /\ \A b, lb \in Int :
                 Apart(p.base + p.used, p.length - p.used, b, lb)
                   => Apart(p.base + p.used, n, b, lb) /\ Apart(p.base + u, p.length - u, b, lb)
           /\ Apart(p.base + p.used, n, p.base + u, p.length - u)
<1>1. p.base \in Nat /\ p.length \in Nat /\ p.used \in Nat
  BY DEF Pools
<1> QED BY <1>1 DEF Apart

\* _read() with the pool p finds nothing to read.
LEMMA KeepsPool ==
    ASSUME Memory, Within,
           NEW p, NEW fr, NEW lim \in Nat, Fits(p, fr, lim), FragmentsFine(fr, lim), Lim <= lim,
           pool' = p, poolFragments' = fr, Lim' = lim, allocated' \in 0..MaxPools,
           UNCHANGED <<read, delivered, mem, pos, end, writer>>
    PROVE  Memory'
<1>1. Within'
  <2>1. \A s \in Streams : At(s)' = At(s) /\ At(s)' + read'[s].toRead <= lim
    BY PieceTypes DEF Within, At
  <2>2. \A d \in delivered : d.addr + d.length <= lim
    BY PieceTypes DEF Within
  <2> QED BY <2>1, <2>2 DEF Within, Fits, FragmentsFine
<1>2. ReservedApart' /\ FreeApart' /\ OthersApart'
  BY DEF Memory, ReservedApart, FreeApart, OthersApart, Fits, FragmentsFine, At, FreeAt, FreeLength
<1>3. \A s \in Streams : Covered(s) => Covered(s)'
  BY DEF Covered
<1>4. \A d \in delivered : Intact(d) => Intact(d)'
  BY DEF Intact
<1>5. Data'
  BY <1>3, <1>4 DEF Memory, Data
<1> QED BY <1>1, <1>2, <1>5 DEF Memory

\* _read() reserves n bytes of the pool p.
LEMMA Reserves ==
    ASSUME Memory, Within, NEW s \in Streams, ~writer[s],
           pos \in [Streams -> Nat], end \in [Streams -> Nat], ended \in BOOLEAN,
           NEW p, NEW fr, NEW lim \in Nat, Fits(p, fr, lim), FragmentsFine(fr, lim), Lim <= lim,
           NEW n \in Nat, n > 0, n <= p.length - p.used, n <= end[s] - pos[s] + 1,
           NEW u \in Nat, u >= p.used + n,
           pool' = [p EXCEPT !.used = u],
           read' = [read EXCEPT ![s] = [base |-> p.base, length |-> p.length, start |-> p.used,
                                        toRead |-> n, nb |-> 0, dead |-> ended]],
           poolFragments' = fr, Lim' = lim, allocated' \in 0..MaxPools,
           UNCHANGED <<delivered, mem, pos, end, writer>>
    PROVE  Memory'
<1> DEFINE r == [base |-> p.base, length |-> p.length, start |-> p.used,
                 toRead |-> n, nb |-> 0, dead |-> ended]
           c == p.base + p.used
           e == p.base + u
           le == p.length - u
<1>1. p \in Pools /\ p.base \in Nat /\ p.length \in Nat /\ p.used \in Nat /\ p.base + p.length <= lim
  BY DEF Fits, Pools
<1>2. c \in Int /\ e \in Int /\ le \in Int /\ c + n <= lim /\ p.used + n <= p.length
  BY <1>1
<1>3. pool' \in Pools /\ pool'.base = p.base /\ pool'.length = p.length /\ pool'.used = u
  BY <1>1 DEF Pools
<1>4. FreeAt' = e /\ FreeLength' = le
  BY <1>3 DEF FreeAt, FreeLength
<1>5. r \in Reservations /\ r.toRead = n /\ r.start = p.used /\ r.length = p.length
      /\ r.base + r.start = c
  BY <1>1 DEF Reservations
<1>6. /\ read' \in [Streams -> Reservations] /\ read'[s] = r
      /\ \A t \in Streams \ {s} : read'[t] = read[t]
  <2> HIDE DEF r
  <2>1. read' = [read EXCEPT ![s] = r]
    BY DEF r
  <2> QED BY <2>1, <1>5 DEF Within
<1>7. At(s)' = c /\ read'[s].toRead = n /\ \A t \in Streams \ {s} : At(t)' = At(t)
  BY <1>5, <1>6 DEF At
<1>8. \A b, lb \in Int : Apart(c, p.length - p.used, b, lb)
         => Apart(c, n, b, lb) /\ Apart(e, le, b, lb)
  BY <1>1, Carve
<1>9. Apart(c, n, e, le)
  BY <1>1, Carve
<1> HIDE DEF r, c, e, le
<1>10. \A i \in 1..Len(fr) : fr[i].base \in Int /\ fr[i].length \in Int
  <2>1. \A i \in 1..Len(fr) : fr[i] \in Pools
    BY DEF FragmentsFine
  <2> QED BY <2>1 DEF Pools
<1>11. Within'
  <2>1. \A t \in Streams : read'[t].start + read'[t].toRead <= read'[t].length
    <3>1. read'[s].start + read'[s].toRead <= read'[s].length
      BY <1>5, <1>6, <1>2
    <3> QED BY <3>1, <1>6 DEF Within
  <2>2. \A t \in Streams : At(t)' + read'[t].toRead <= lim
    <3>1. At(s)' + read'[s].toRead <= lim
      BY <1>2, <1>7
    <3>2. \A t \in Streams : At(t) + read[t].toRead <= lim
      <4>1. Lim \in Nat /\ \A t \in Streams : At(t) \in Nat /\ read[t].toRead \in Nat
        BY PieceTypes
      <4>2. \A t \in Streams : At(t) + read[t].toRead <= Lim
        BY DEF Within
      <4> QED BY <4>1, <4>2
    <3> QED BY <3>1, <3>2, <1>6, <1>7
  <2>3. \A d \in delivered : d.addr + d.length <= lim
    <3>1. Lim \in Nat /\ \A d \in delivered : d.addr \in Nat /\ d.length \in Nat
      BY PieceTypes
    <3>2. \A d \in delivered : d.addr + d.length <= Lim
      BY DEF Within
    <3> QED BY <3>1, <3>2
  <2>4. pool'.base + pool'.length <= lim
    BY <1>1, <1>3
  <2> QED BY <2>1, <2>2, <2>3, <2>4, <1>3, <1>6 DEF Within, FragmentsFine
<1>12. ReservedApart'
  <2>1. \A t \in Streams \ {s} : /\ Apart(At(t), read[t].toRead, c, n) /\ Apart(c, n, At(t), read[t].toRead)
                                 /\ Apart(At(t), read[t].toRead, e, le)
    <3> TAKE t \in Streams \ {s}
    <3>1. At(t) \in Int /\ read[t].toRead \in Int /\ c \in Int /\ p.length - p.used \in Int /\ n \in Int
      <4>1. At(t) \in Nat /\ read[t].toRead \in Nat
        BY PieceTypes
      <4> QED BY <4>1, <1>1, <1>2
    <3>2. Apart(At(t), read[t].toRead, c, p.length - p.used)
      BY DEF Fits, c
    <3>3. Apart(c, n, At(t), read[t].toRead) /\ Apart(e, le, At(t), read[t].toRead)
      BY <3>1, <3>2, <1>8, ApartSym
    <3> QED BY <3>1, <3>3, <1>2, ApartSym
  <2>2. \A t, v \in Streams : t # v => Apart(At(t)', read'[t].toRead, At(v)', read'[v].toRead)
    <3> TAKE t, v \in Streams
    <3>1. CASE t = s /\ v # s
      BY <3>1, <2>1, <1>6, <1>7
    <3>2. CASE t # s /\ v = s
      BY <3>2, <2>1, <1>6, <1>7
    <3>3. CASE t # s /\ v # s
      BY <3>3, <1>6, <1>7 DEF Memory, ReservedApart
    <3> QED BY <3>1, <3>2, <3>3
  <2>3. \A t \in Streams : Apart(At(t)', read'[t].toRead, e, le)
    BY <2>1, <1>9, <1>6, <1>7
  <2>4. \A t \in Streams : \A i \in 1..Len(fr) :
           Apart(At(t)', read'[t].toRead, fr[i].base, fr[i].length)
    <3>1. \A i \in 1..Len(fr) : Apart(c, n, fr[i].base, fr[i].length)
      BY <1>8, <1>10 DEF Fits, c
    <3> QED BY <3>1, <1>6, <1>7 DEF FragmentsFine
  <2>5. \A t \in Streams : \A d \in delivered : Apart(At(t)', read'[t].toRead, d.addr, d.length)
    <3>1. \A d \in delivered : Apart(c, n, d.addr, d.length)
      <4> TAKE d \in delivered
      <4>1. d.addr \in Int /\ d.length \in Int
        BY PieceTypes
      <4>2. Apart(c, p.length - p.used, d.addr, d.length)
        BY DEF Fits, c
      <4> QED BY <4>1, <4>2, <1>8
    <3> QED BY <3>1, <1>6, <1>7 DEF Memory, ReservedApart
  <2> QED BY <2>2, <2>3, <2>4, <2>5, <1>4 DEF ReservedApart
<1>13. FreeApart'
  <2>1. \A i \in 1..Len(fr) : Apart(e, le, fr[i].base, fr[i].length)
    BY <1>8, <1>10 DEF Fits, c
  <2>2. \A d \in delivered : Apart(e, le, d.addr, d.length)
    <3> TAKE d \in delivered
    <3>1. d.addr \in Int /\ d.length \in Int
      BY PieceTypes
    <3>2. Apart(c, p.length - p.used, d.addr, d.length)
      BY DEF Fits, c
    <3> QED BY <3>1, <3>2, <1>8
  <2> QED BY <2>1, <2>2, <1>4 DEF FreeApart
<1>14. OthersApart'
  BY DEF Memory, OthersApart, FragmentsFine
<1>15. Data'
  <2>1. \A d \in delivered : Intact(d) => Intact(d)'
    BY DEF Intact
  <2>2. \A t \in Streams \ {s} : Covered(t) => Covered(t)'
    BY <1>6 DEF Covered
  <2>3. Covered(s)'
    <3>1. pos[s] + n <= end[s] + 1
      OBVIOUS
    <3> QED BY <3>1, <1>7 DEF Covered, Memory, Data
  <2> QED BY <2>1, <2>2, <2>3, <1>6 DEF Memory, Data
<1> QED BY <1>11, <1>12, <1>13, <1>14, <1>15 DEF Memory

LEMMA ReadKeepsMemory ==
    ASSUME Config, LifeFine, Memory, NEW s \in Streams, Read(s)
    PROVE  Memory'
<1>1. Within /\ Lim \in Nat /\ allocated \in Nat /\ MaxPools \in Nat
  <2>1. MaxPools \in Nat
    BY StreamsAssumption
  <2>2. Within
    BY DEF Memory
  <2>3. allocated \in Nat
    BY <2>1, <2>2 DEF Within
  <2> QED BY <2>1, <2>2, <2>3, PieceTypes
<1>2. PICK p, fr, lim :
         /\ Fits(p, fr, lim) /\ FragmentsFine(fr, lim) /\ Lim <= lim /\ lim \in Nat
         /\ ReadsWith(s, p) /\ poolFragments' = fr /\ Lim' = lim /\ allocated' \in 0..MaxPools
  <2>1. CASE pool.length - pool.used >= kMinPoolSpace
    <3>1. ReadsWith(s, pool) /\ poolFragments' = poolFragments /\ allocated' = allocated
      BY <2>1, <1>1, StreamsAssumption DEF Read, Within, Pools
    <3>2. Lim' = Lim /\ allocated' \in 0..MaxPools
      BY <3>1, <1>1 DEF Lim, Within
    <3> QED BY <3>1, <3>2, <1>1, MemoryFits
  <2>2. CASE pool.length - pool.used < kMinPoolSpace
    <3>1. allocNewPool(s) /\ ReadsWith(s, NewPool(s))
      BY <2>2 DEF Read
    <3>2. CASE poolFragments # <<>>
      <4>1. /\ poolFragments' = Front(poolFragments) /\ allocated' = allocated
            /\ ReadsWith(s, Last(poolFragments))
        BY <3>1, <3>2, Zenon DEF allocNewPool, NewPool
      <4>2. Lim' = Lim /\ allocated' \in 0..MaxPools
        BY <4>1, <1>1 DEF Lim, Within
      <4> QED BY <4>1, <4>2, <3>2, <1>1, TakesFragment
    <3>3. CASE poolFragments = <<>>
      <4> DEFINE p == [base |-> allocated * MaxHwm, length |-> hwm[s], used |-> 0]
                 lim == (allocated + 1) * MaxHwm
      <4>1. /\ poolFragments' = poolFragments /\ allocated' = allocated + 1
            /\ allocated < MaxPools /\ ReadsWith(s, p)
        BY <3>1, <3>3, Zenon DEF allocNewPool, NewPool
      <4>2. Lim' = lim /\ allocated' \in 0..MaxPools /\ lim \in Nat
        <5>1. allocated + 1 \in Nat
          BY <1>1
        <5>2. lim \in Nat
          BY <5>1, Limits
        <5>3. Lim' = lim
          BY <4>1 DEF Lim
        <5> QED BY <5>2, <5>3, <4>1, <1>1
      <4>3. Fits(p, poolFragments, lim) /\ FragmentsFine(poolFragments, lim) /\ Lim <= lim
        BY <3>3, TakesMemory DEF Config
      <4> HIDE DEF p, lim
      <4> QED BY <4>1, <4>2, <4>3
    <3> QED BY <3>2, <3>3
  <2>3. pool.length - pool.used \in Int /\ kMinPoolSpace \in Int
    BY <1>1, PieceTypes, StreamsAssumption
  <2> QED BY <2>1, <2>2, <2>3
<1>3. UNCHANGED <<delivered, mem, pos, end, writer>> /\ ~writer[s] /\ Within
  BY <1>1 DEF Read, config
<1> DEFINE n == Min({end[s] - pos[s] + 1, p.length - p.used, hwm[s]})
<1>4. p \in Pools /\ p.length \in Nat /\ p.used \in Nat
  BY <1>2 DEF Fits, Pools
<1>5. n \in Int /\ n <= end[s] - pos[s] + 1 /\ n <= p.length - p.used
  <2>1. end[s] - pos[s] + 1 \in Int /\ p.length - p.used \in Int /\ hwm[s] \in Int
    BY <1>4 DEF Config, LifeFine
  <2> QED BY <2>1, LeastOfThree
<1>6. CASE n <= 0
  <2>1. pool' = p /\ read' = read
    BY <1>2, <1>6, Zenon DEF ReadsWith
  <2> QED BY <2>1, <1>2, <1>3, KeepsPool
<1>7. CASE n > 0
  <2> DEFINE u == roundUpToMultipleOf8(p.used + n)
  <2>1. ~(n <= 0)
    BY <1>7, <1>5
  <2>2. /\ read' = [read EXCEPT ![s] = [base |-> p.base, length |-> p.length, start |-> p.used,
                                        toRead |-> n, nb |-> 0, dead |-> ended]]
        /\ pool' = [p EXCEPT !.used = u]
    BY <1>2, <2>1 DEF ReadsWith
  <2>3. n \in Nat /\ u \in Nat /\ u >= p.used + n
    <3>1. n \in Nat /\ p.used + n \in Nat
      BY <1>4, <1>5, <1>7
    <3> QED BY <3>1, Rounding
  <2>4. pos \in [Streams -> Nat] /\ end \in [Streams -> Nat] /\ ended \in BOOLEAN
    BY DEF Config, LifeFine
  <2> HIDE DEF n, u
  <2> QED BY <2>2, <2>3, <2>4, <1>2, <1>3, <1>5, <1>7, Reserves
<1> QED BY <1>5, <1>6, <1>7

\* What must hold of the pool p and the fragments fr that are left when the read of
\* s ends with n bytes, which the application gets.
Leaves(s, n, p, fr) ==
    /\ p \in Pools /\ p.base + p.length <= Lim /\ fr \in Seq(Pools)
    /\ \A i \in 1..Len(fr) : /\ fr[i].used = 0 /\ fr[i].length >= kMinPoolSpace
                             /\ fr[i].length % Align = 0 /\ fr[i].base + fr[i].length <= Lim
    /\ \A t \in Streams \ {s} :
          /\ Apart(At(t), read[t].toRead, p.base + p.used, p.length - p.used)
          /\ \A i \in 1..Len(fr) : Apart(At(t), read[t].toRead, fr[i].base, fr[i].length)
    /\ \A d \in delivered :
          /\ Apart(p.base + p.used, p.length - p.used, d.addr, d.length)
          /\ \A i \in 1..Len(fr) : Apart(fr[i].base, fr[i].length, d.addr, d.length)
    /\ \A i \in 1..Len(fr) :
          /\ Apart(p.base + p.used, p.length - p.used, fr[i].base, fr[i].length)
          /\ Apart(fr[i].base, fr[i].length, At(s), n)
    /\ \A i, j \in 1..Len(fr) : i # j => Apart(fr[i].base, fr[i].length, fr[j].base, fr[j].length)
    /\ Apart(p.base + p.used, p.length - p.used, At(s), n)

\* The part of the reservation of s that the answer fills is as far from everything
\* as the reservation was.
LEMMA FilledApart ==
    ASSUME Memory, Within, NEW s \in Streams, NEW n \in Nat, n <= read[s].toRead
    PROVE  /\ At(s) \in Nat /\ At(s) + n <= Lim
           /\ \A t \in Streams \ {s} : Apart(At(t), read[t].toRead, At(s), n)
           /\ \A i \in 1..Len(poolFragments) :
                 Apart(poolFragments[i].base, poolFragments[i].length, At(s), n)
           /\ \A d \in delivered : Apart(At(s), n, d.addr, d.length) /\ Apart(d.addr, d.length, At(s), n)
           /\ Apart(FreeAt, FreeLength, At(s), n)
<1>1. At(s) \in Nat /\ read[s].toRead \in Nat /\ Lim \in Nat /\ At(s) + read[s].toRead <= Lim
  BY PieceTypes DEF Within
<1>2. At(s) + n <= Lim /\ At(s) \in Int /\ read[s].toRead \in Int /\ n \in Int
  BY <1>1
<1>3. \A b, lb \in Int : Apart(At(s), read[s].toRead, b, lb) => Apart(At(s), n, b, lb) /\ Apart(b, lb, At(s), n)
  BY <1>1, <1>2, ApartPart, ApartSym
<1>4. \A t \in Streams \ {s} : Apart(At(t), read[t].toRead, At(s), n)
  <2> TAKE t \in Streams \ {s}
  <2>1. At(t) \in Nat /\ read[t].toRead \in Nat
    BY PieceTypes
  <2>2. Apart(At(s), read[s].toRead, At(t), read[t].toRead)
    BY DEF Memory, ReservedApart
  <2> QED BY <2>1, <2>2, <1>3
<1>5. \A i \in 1..Len(poolFragments) :
         Apart(poolFragments[i].base, poolFragments[i].length, At(s), n)
  <2> TAKE i \in 1..Len(poolFragments)
  <2>1. poolFragments[i].base \in Nat /\ poolFragments[i].length \in Nat
    BY PieceTypes
  <2>2. Apart(At(s), read[s].toRead, poolFragments[i].base, poolFragments[i].length)
    BY DEF Memory, ReservedApart
  <2> QED BY <2>1, <2>2, <1>3
<1>6. \A d \in delivered : Apart(At(s), n, d.addr, d.length) /\ Apart(d.addr, d.length, At(s), n)
  <2> TAKE d \in delivered
  <2>1. d.addr \in Nat /\ d.length \in Nat
    BY PieceTypes
  <2>2. Apart(At(s), read[s].toRead, d.addr, d.length)
    BY DEF Memory, ReservedApart
  <2> QED BY <2>1, <2>2, <1>3
<1>7. Apart(FreeAt, FreeLength, At(s), n)
  <2>1. FreeAt \in Int /\ FreeLength \in Int
    BY PieceTypes
  <2>2. Apart(At(s), read[s].toRead, FreeAt, FreeLength)
    BY DEF Memory, ReservedApart
  <2> QED BY <2>1, <2>2, <1>3
<1> QED BY <1>1, <1>2, <1>4, <1>5, <1>6, <1>7

\* Nothing is given back.
LEMMA LeavesAsIs ==
    ASSUME Memory, Within, NEW s \in Streams, NEW n \in Nat, n <= read[s].toRead
    PROVE  Leaves(s, n, pool, poolFragments)
<1>1. Fits(pool, poolFragments, Lim) /\ FragmentsFine(poolFragments, Lim)
  BY MemoryFits
<1>2. Apart(pool.base + pool.used, pool.length - pool.used, At(s), n)
  BY FilledApart DEF FreeAt, FreeLength
<1> QED BY <1>1, <1>2, FilledApart DEF Fits, FragmentsFine, Leaves

\* The pool is rewound: what it gets back is the rest of the reservation.
LEMMA LeavesRewound ==
    ASSUME Memory, Within, NEW s \in Streams, NEW n \in Nat, n <= read[s].toRead,
           read[s].start + read[s].toRead = pool.used, read[s].base = pool.base,
           read[s].length = pool.length,
           NEW u \in Nat, u >= read[s].start + n
    PROVE  Leaves(s, n, [pool EXCEPT !.used = u], poolFragments)
<1> DEFINE p == [pool EXCEPT !.used = u]
           c == pool.base + u
           l == pool.length - u
<1>1. p \in Pools /\ p.base = pool.base /\ p.length = pool.length /\ p.used = u
  BY DEF Within, Pools
<1>2. /\ pool.base \in Nat /\ pool.length \in Nat /\ pool.used \in Nat
      /\ read[s].start \in Nat /\ read[s].toRead \in Nat /\ At(s) \in Nat
      /\ FreeAt \in Nat /\ FreeLength \in Int
  BY PieceTypes
<1>3. /\ At(s) = pool.base + read[s].start /\ FreeAt = At(s) + read[s].toRead
      /\ FreeLength = pool.length - pool.used /\ pool.used <= pool.length
  <2>1. read[s].start + read[s].toRead <= read[s].length
    BY DEF Within
  <2>2. At(s) = pool.base + read[s].start /\ FreeAt = pool.base + pool.used
        /\ FreeLength = pool.length - pool.used
    BY DEF At, FreeAt, FreeLength
  <2> QED BY <2>1, <2>2, <1>2
<1>4. c \in Int /\ l \in Int /\ c >= At(s) + n /\ c + l = At(s) + read[s].toRead + FreeLength
      /\ At(s) <= c
  BY <1>2, <1>3
<1> HIDE DEF c, l
<1>5. \A b, lb \in Int :
         Apart(At(s), read[s].toRead, b, lb) /\ Apart(FreeAt, FreeLength, b, lb) => Apart(c, l, b, lb)
  <2> TAKE b, lb \in Int
  <2> HAVE Apart(At(s), read[s].toRead, b, lb) /\ Apart(FreeAt, FreeLength, b, lb)
  <2>1. Apart(At(s), read[s].toRead + FreeLength, b, lb)
    BY <1>2, <1>3, ApartSum
  <2>2. read[s].toRead + FreeLength \in Int /\ At(s) \in Int
        /\ c + l <= At(s) + (read[s].toRead + FreeLength)
    BY <1>2, <1>4
  <2> QED BY <2>1, <2>2, <1>4, ApartPart, Zenon
<1>6. \A t \in Streams \ {s} : Apart(At(t), read[t].toRead, c, l)
  <2> TAKE t \in Streams \ {s}
  <2>1. At(t) \in Nat /\ read[t].toRead \in Nat
    BY PieceTypes
  <2>2. Apart(At(s), read[s].toRead, At(t), read[t].toRead)
    BY DEF Memory, ReservedApart
  <2>3. Apart(FreeAt, FreeLength, At(t), read[t].toRead)
    <3>1. Apart(At(t), read[t].toRead, FreeAt, FreeLength)
      BY DEF Memory, ReservedApart
    <3> QED BY <3>1, <2>1, <1>2, ApartSym
  <2>4. Apart(c, l, At(t), read[t].toRead)
    BY <2>1, <2>2, <2>3, <1>5
  <2> QED BY <2>1, <2>4, <1>4, ApartSym
<1>7. \A i \in 1..Len(poolFragments) : Apart(c, l, poolFragments[i].base, poolFragments[i].length)
  <2> TAKE i \in 1..Len(poolFragments)
  <2>1. poolFragments[i].base \in Nat /\ poolFragments[i].length \in Nat
    BY PieceTypes
  <2>2. /\ Apart(At(s), read[s].toRead, poolFragments[i].base, poolFragments[i].length)
        /\ Apart(FreeAt, FreeLength, poolFragments[i].base, poolFragments[i].length)
    BY DEF Memory, ReservedApart, FreeApart
  <2> QED BY <2>1, <2>2, <1>5
<1>8. \A d \in delivered : Apart(c, l, d.addr, d.length)
  <2> TAKE d \in delivered
  <2>1. d.addr \in Nat /\ d.length \in Nat
    BY PieceTypes
  <2>2. Apart(At(s), read[s].toRead, d.addr, d.length) /\ Apart(FreeAt, FreeLength, d.addr, d.length)
    BY DEF Memory, ReservedApart, FreeApart
  <2> QED BY <2>1, <2>2, <1>5
<1>9. Apart(c, l, At(s), n)
  BY <1>4, <1>2 DEF Apart
<1>10. p.base + p.used = c /\ p.length - p.used = l /\ p.base + p.length <= Lim
  BY <1>1 DEF c, l, Within
<1>11. FragmentsFine(poolFragments, Lim)
  BY MemoryFits
<1> HIDE DEF p
<1>12. Leaves(s, n, p, poolFragments)
  BY <1>1, <1>6, <1>7, <1>8, <1>9, <1>10, <1>11, FilledApart DEF Leaves, FragmentsFine
<1> QED BY <1>12 DEF p

\* A fragment is kept, a part of what the answer left of the reservation.
LEMMA LeavesFragment ==
    ASSUME Memory, Within, NEW s \in Streams, NEW n \in Nat, n <= read[s].toRead,
           NEW f \in Pools, f.used = 0, f.length >= kMinPoolSpace, f.length % Align = 0,
           At(s) + n <= f.base, f.base + f.length <= At(s) + read[s].toRead
    PROVE  Leaves(s, n, pool, Append(poolFragments, f))
<1> DEFINE fr == poolFragments
           k == Len(fr)
           q == Append(fr, f)
<1>1. fr \in Seq(Pools) /\ k \in Nat
  BY DEF Within
<1>2. /\ q \in Seq(Pools) /\ Len(q) = k + 1 /\ q[k + 1] = f
      /\ \A i \in 1..k : q[i] = fr[i]
      /\ \A i \in 1..(k + 1) : i \in 1..k \/ i = k + 1
  BY <1>1
<1> HIDE DEF q, k
<1>3. /\ f.base \in Nat /\ f.length \in Nat /\ At(s) \in Nat /\ read[s].toRead \in Nat /\ Lim \in Nat
      /\ At(s) + read[s].toRead <= Lim
  BY PieceTypes DEF Pools, Within
<1>4. \A b, lb \in Int : Apart(At(s), read[s].toRead, b, lb)
         => Apart(f.base, f.length, b, lb) /\ Apart(b, lb, f.base, f.length)
  <2> TAKE b, lb \in Int
  <2> HAVE Apart(At(s), read[s].toRead, b, lb)
  <2>1. /\ At(s) \in Int /\ read[s].toRead \in Int /\ f.base \in Int /\ f.length \in Int
        /\ At(s) <= f.base
    BY <1>3
  <2>2. Apart(f.base, f.length, b, lb)
    BY <2>1, ApartPart, Zenon
  <2> QED BY <2>1, <2>2, ApartSym
<1>5. Leaves(s, n, pool, fr)
  BY LeavesAsIs
<1>6. \A t \in Streams \ {s} : Apart(At(t), read[t].toRead, f.base, f.length)
  <2> TAKE t \in Streams \ {s}
  <2>1. At(t) \in Nat /\ read[t].toRead \in Nat
    BY PieceTypes
  <2>2. Apart(At(s), read[s].toRead, At(t), read[t].toRead)
    BY DEF Memory, ReservedApart
  <2> QED BY <2>1, <2>2, <1>4
<1>7. \A i \in 1..k : /\ Apart(f.base, f.length, fr[i].base, fr[i].length)
                      /\ Apart(fr[i].base, fr[i].length, f.base, f.length)
  <2> TAKE i \in 1..k
  <2>1. fr[i].base \in Nat /\ fr[i].length \in Nat
    BY PieceTypes DEF k
  <2>2. Apart(At(s), read[s].toRead, fr[i].base, fr[i].length)
    BY DEF Memory, ReservedApart, k
  <2> QED BY <2>1, <2>2, <1>4
<1>8. \A d \in delivered : Apart(f.base, f.length, d.addr, d.length)
  <2> TAKE d \in delivered
  <2>1. d.addr \in Nat /\ d.length \in Nat
    BY PieceTypes
  <2>2. Apart(At(s), read[s].toRead, d.addr, d.length)
    BY DEF Memory, ReservedApart
  <2> QED BY <2>1, <2>2, <1>4
<1>9. Apart(FreeAt, FreeLength, f.base, f.length)
  <2>1. FreeAt \in Int /\ FreeLength \in Int
    BY PieceTypes
  <2>2. Apart(At(s), read[s].toRead, FreeAt, FreeLength)
    BY DEF Memory, ReservedApart
  <2> QED BY <2>1, <2>2, <1>4
<1>10. Apart(f.base, f.length, At(s), n) /\ f.base + f.length <= Lim
  BY <1>3 DEF Apart
<1>11. \A i \in 1..(k + 1) : /\ q[i].used = 0 /\ q[i].length >= kMinPoolSpace
                             /\ q[i].length % Align = 0 /\ q[i].base + q[i].length <= Lim
                             /\ Apart(FreeAt, FreeLength, q[i].base, q[i].length)
                             /\ Apart(q[i].base, q[i].length, At(s), n)
  <2>1. \A i \in 1..k : /\ fr[i].used = 0 /\ fr[i].length >= kMinPoolSpace
                        /\ fr[i].length % Align = 0 /\ fr[i].base + fr[i].length <= Lim
                        /\ Apart(FreeAt, FreeLength, fr[i].base, fr[i].length)
                        /\ Apart(fr[i].base, fr[i].length, At(s), n)
    BY <1>5 DEF Leaves, k, FreeAt, FreeLength
  <2> QED BY <2>1, <1>2, <1>9, <1>10
<1>12. \A t \in Streams \ {s} : \A i \in 1..(k + 1) :
          Apart(At(t), read[t].toRead, q[i].base, q[i].length)
  <2>1. \A t \in Streams \ {s} : \A i \in 1..k :
           Apart(At(t), read[t].toRead, fr[i].base, fr[i].length)
    BY <1>5 DEF Leaves, k
  <2> QED BY <2>1, <1>2, <1>6
<1>13. \A d \in delivered : \A i \in 1..(k + 1) : Apart(q[i].base, q[i].length, d.addr, d.length)
  <2>1. \A d \in delivered : \A i \in 1..k : Apart(fr[i].base, fr[i].length, d.addr, d.length)
    BY <1>5 DEF Leaves, k
  <2> QED BY <2>1, <1>2, <1>8
<1>14. \A i, j \in 1..(k + 1) : i # j => Apart(q[i].base, q[i].length, q[j].base, q[j].length)
  <2>1. \A i, j \in 1..k : i # j => Apart(fr[i].base, fr[i].length, fr[j].base, fr[j].length)
    BY <1>5 DEF Leaves, k
  <2> QED BY <2>1, <1>2, <1>7
<1>15. Leaves(s, n, pool, q)
  BY <1>2, <1>5, <1>11, <1>12, <1>13, <1>14 DEF Leaves, FreeAt, FreeLength
<1> QED BY <1>15 DEF q

LEMMA GivesBackLeaves ==
    ASSUME Memory, Within, NEW s \in Streams, NEW n \in Nat, n <= read[s].toRead,
           GivesBack(read[s], n)
    PROVE  \E p, fr : Leaves(s, n, p, fr) /\ pool' = p /\ poolFragments' = fr
<1> DEFINE r == read[s]
           rewinds == r.start + r.toRead = pool.used /\ r.base = pool.base /\ r.length = pool.length
<1>1. /\ r.start \in Nat /\ r.toRead \in Nat /\ r.base \in Nat /\ At(s) \in Nat /\ pool.used \in Nat
      /\ At(s) = r.base + r.start
  BY PieceTypes DEF At
<1>2. CASE rewinds
  <2> DEFINE u == roundUpToMultipleOf8(pool.used + n - r.toRead)
  <2>1. pool' = [pool EXCEPT !.used = u] /\ poolFragments' = poolFragments
    BY <1>2 DEF GivesBack
  <2>2. u \in Nat /\ u >= r.start + n
    <3>1. pool.used + n - r.toRead = r.start + n /\ r.start + n \in Nat
      BY <1>1, <1>2
    <3> QED BY <3>1, Rounding
  <2> HIDE DEF u
  <2>3. Leaves(s, n, [pool EXCEPT !.used = u], poolFragments)
    BY <1>2, <2>2, LeavesRewound
  <2> QED BY <2>1, <2>3
<1>3. CASE ~rewinds
  <2> DEFINE alignedEnd == RoundDown(r.start + r.toRead)
             alignedStart == roundUpToMultipleOf8(r.start + n)
             f == [base |-> r.base + alignedStart, length |-> alignedEnd - alignedStart, used |-> 0]
  <2>1. /\ pool' = pool
        /\ poolFragments' = IF alignedEnd - alignedStart >= kMinPoolSpace
                            THEN Append(poolFragments, f) ELSE poolFragments
    BY <1>3 DEF GivesBack
  <2>2. /\ alignedEnd \in Nat /\ alignedEnd <= r.start + r.toRead
        /\ alignedStart \in Nat /\ alignedStart >= r.start + n
        /\ (alignedEnd - alignedStart) % Align = 0
    <3>1. r.start + r.toRead \in Nat /\ r.start + n \in Nat
      BY <1>1
    <3> QED BY <3>1, Rounding, WholeMultiples
  <2> HIDE DEF alignedEnd, alignedStart
  <2>3. CASE alignedEnd - alignedStart >= kMinPoolSpace
    <3>1. /\ f \in Pools /\ f.used = 0 /\ f.length = alignedEnd - alignedStart
          /\ f.base = r.base + alignedStart
      BY <2>2, <2>3, <1>1, StreamsAssumption DEF Pools
    <3> HIDE DEF f
    <3>2. /\ f.length >= kMinPoolSpace /\ f.length % Align = 0
          /\ At(s) + n <= f.base /\ f.base + f.length <= At(s) + r.toRead
      BY <3>1, <2>2, <2>3, <1>1
    <3>3. Leaves(s, n, pool, Append(poolFragments, f))
      BY <3>1, <3>2, LeavesFragment
    <3> QED BY <3>3, <2>1, <2>3
  <2>4. CASE ~(alignedEnd - alignedStart >= kMinPoolSpace)
    <3>1. poolFragments' = poolFragments
      BY <2>1, <2>4
    <3> QED BY <3>1, <2>1, LeavesAsIs
  <2> QED BY <2>3, <2>4
<1> QED BY <1>2, <1>3

\* The slice that the application gets.
Slice(s, n) == [stream |-> s, addr |-> At(s), pos |-> pos[s], length |-> n]

LEMMA SliceFacts ==
    ASSUME Within, NEW s \in Streams, NEW n \in Nat, pos \in [Streams -> Nat]
    PROVE  /\ Slice(s, n) \in Slices /\ Slice(s, n).stream = s /\ Slice(s, n).addr = At(s)
           /\ Slice(s, n).pos = pos[s] /\ Slice(s, n).length = n
<1>1. At(s) \in Nat /\ pos[s] \in Nat
  BY PieceTypes
<1> QED BY <1>1 DEF Slice, Slices

\* What an answer with n bytes writes: the next part of the reservation, and nothing
\* of the slices handed out or of what other reads have got.
Answer(s, n) ==
    LET from == pos[s] + read[s].nb
        at   == read[s].base + read[s].start + read[s].nb
    IN  mem' = [a \in DOMAIN mem |->
                   IF a - at \in 0..(n - 1) THEN <<s, from + a - at>> ELSE mem[a]]

LEMMA MemoryWritten ==
    ASSUME Memory, Partial, Within, NEW s \in Streams, ~writer[s],
           NEW n \in Nat, read[s].nb + n <= read[s].toRead,
           pos \in [Streams -> Nat], Answer(s, n)
    PROVE  /\ DOMAIN mem' = 0..(MaxPools * MaxHwm - 1)
           /\ \A i \in 0..((read[s].nb + n) - 1) : mem'[At(s) + i] = <<s, pos[s] + i>>
           /\ \A d \in delivered : Intact(d)'
           /\ \A t \in Streams \ {s} : ~writer[t] =>
                 \A i \in 0..(read[t].nb - 1) : mem'[At(t) + i] = <<t, pos[t] + i>>
<1> DEFINE b == read[s].nb
           m == b + n
           at == At(s) + b
           from == pos[s] + b
           top == MaxPools * MaxHwm
<1>1. b \in Nat /\ m \in Nat /\ m <= read[s].toRead /\ pos[s] \in Nat /\ from \in Nat
  BY DEF Within, Reservations
<1>2. /\ Lim \in Nat /\ Lim <= top /\ top \in Nat
      /\ At(s) \in Nat /\ read[s].start \in Nat /\ read[s].base \in Nat
      /\ At(s) + m <= Lim /\ at = read[s].base + read[s].start + read[s].nb
  <2> HIDE DEF m
  <2>1. At(s) + m <= Lim
    BY <1>1, FilledApart
  <2> QED BY <2>1, PieceTypes DEF At
<1>3. DOMAIN mem = 0..(top - 1)
  BY DEF Within
<1>4. \A a \in DOMAIN mem : mem'[a] = IF a - at \in 0..(n - 1) THEN <<s, from + a - at>> ELSE mem[a]
  BY <1>2 DEF Answer
<1>5. \A i \in 0..(m - 1) : mem'[At(s) + i] = <<s, pos[s] + i>>
  <2> TAKE i \in 0..(m - 1)
  <2> DEFINE a == At(s) + i
  <2>1. a \in DOMAIN mem
    <3> HIDE DEF m, b, at, from, top
    <3>1. a \in Nat /\ a <= top - 1
      BY <1>1, <1>2
    <3> QED BY <3>1, <1>2, <1>3
  <2>2. CASE i < b
    <3>1. a - at \notin 0..(n - 1) /\ i \in 0..(b - 1)
      BY <2>2, <1>1, <1>2
    <3>2. mem'[a] = mem[a]
      BY <3>1, <2>1, <1>4
    <3>3. mem[At(s) + i] = <<s, pos[s] + i>>
      BY <3>1 DEF Partial, Got
    <3> QED BY <3>2, <3>3
  <2>3. CASE i >= b
    <3>1. a - at \in 0..(n - 1) /\ from + a - at = pos[s] + i
      BY <2>3, <1>1, <1>2
    <3> HIDE DEF a, at, from
    <3>2. mem'[a] = <<s, from + a - at>>
      BY <3>1, <2>1, <1>4
    <3> QED BY <3>1, <3>2 DEF a
  <2> QED BY <2>2, <2>3, <1>1
\* A piece apart from the reservation keeps what it has.
<1>6. ASSUME NEW c \in Nat, NEW l \in Nat, c + l <= Lim, Apart(At(s), m, c, l)
      PROVE  \A i \in 0..(l - 1) : mem'[c + i] = mem[c + i]
  <2> TAKE i \in 0..(l - 1)
  <2> DEFINE a == c + i
  <2>1. a \in Int /\ a \in 0..(top - 1) /\ a - at \notin 0..(n - 1)
    BY <1>6, <1>1, <1>2 DEF Apart
  <2> HIDE DEF a, at, from
  <2>2. mem'[a] = mem[a]
    BY <2>1, <1>3, <1>4
  <2> QED BY <2>2 DEF a
<1>10. \A i \in 0..((read[s].nb + n) - 1) : mem'[At(s) + i] = <<s, pos[s] + i>>
  BY <1>5
<1> HIDE DEF m, b
<1>7. \A d \in delivered : Intact(d)'
  <2> TAKE d \in delivered
  <2>1. /\ d.addr \in Nat /\ d.length \in Nat /\ d.addr + d.length <= Lim
        /\ Apart(At(s), m, d.addr, d.length)
    BY <1>1, PieceTypes, FilledApart DEF Within
  <2>2. Intact(d) /\ \A i \in 0..(d.length - 1) : mem'[d.addr + i] = mem[d.addr + i]
    BY <2>1, <1>6 DEF Memory, Data
  <2> QED BY <2>2 DEF Intact
<1>8. ASSUME NEW u \in Streams \ {s}, ~writer[u]
      PROVE  \A i \in 0..(read[u].nb - 1) : mem'[At(u) + i] = <<u, pos[u] + i>>
  <2> DEFINE l == read[u].nb
  <2>1. /\ l \in Nat /\ l <= read[u].toRead /\ At(u) \in Nat /\ read[u].toRead \in Nat
        /\ At(u) + read[u].toRead <= Lim
    BY PieceTypes DEF Within, Reservations, Partial
  <2>2. Apart(At(u), read[u].toRead, At(s), m)
    BY <1>1, FilledApart
  <2>3. Apart(At(s), m, At(u), l) /\ At(u) + l <= Lim
    BY <2>1, <2>2, <1>1, <1>2 DEF Apart
  <2>4. \A i \in 0..(l - 1) : mem'[At(u) + i] = mem[At(u) + i]
    BY <2>1, <2>3, <1>6
  <2>5. \A i \in 0..(l - 1) : mem[At(u) + i] = <<u, pos[u] + i>>
    BY <1>8 DEF Partial, Got
  <2> QED BY <2>4, <2>5
<1>9. DOMAIN mem' = 0..(top - 1)
  BY <1>3 DEF Answer
<1> QED BY <1>7, <1>8, <1>9, <1>10

\* The read ends with n bytes.
LEMMA FinishedKeepsMemory ==
    ASSUME Config, LifeFine, Memory, NEW s \in Streams, NEW n \in Nat, n <= read[s].toRead,
           read[s] # NoRead, Finished(s, n), UNCHANGED <<config, allocated>>,
           DOMAIN mem' = 0..(MaxPools * MaxHwm - 1),
           \A i \in 0..(n - 1) : mem'[At(s) + i] = <<s, pos[s] + i>>,
           \A d \in delivered : Intact(d)'
    PROVE  Memory'
<1> USE NoReadFacts
<1> DEFINE g == Slice(s, n)
           given == IF n = 0 THEN {} ELSE {g}
<1>1. /\ Within /\ n \in Nat /\ n <= read[s].toRead /\ read[s] # NoRead
      /\ pos \in [Streams -> Nat] /\ end \in [Streams -> Nat]
  BY DEF Memory, LifeFine, Config
<1>2. ~writer[s] /\ Covered(s)
  BY <1>1 DEF Memory, Data
<1>3. /\ read' = [read EXCEPT ![s] = NoRead] /\ pos' = [pos EXCEPT ![s] = @ + n]
      /\ UNCHANGED <<allocated, writer, end>> /\ Lim' = Lim
  BY DEF Finished, config, Lim
<1>4. delivered' = delivered \cup given
  BY DEF Finished, Slice, At
<1>5. PICK p, fr : Leaves(s, n, p, fr) /\ pool' = p /\ poolFragments' = fr
  BY <1>1, GivesBackLeaves DEF Finished
<1>6. /\ DOMAIN mem' = 0..(MaxPools * MaxHwm - 1)
      /\ \A i \in 0..(n - 1) : mem'[At(s) + i] = <<s, pos[s] + i>>
      /\ \A d \in delivered : Intact(d)'
  OBVIOUS
<1>7. read'[s] = NoRead /\ \A t \in Streams \ {s} : read'[t] = read[t]
  BY <1>1, <1>3 DEF Within
<1>8. At(s)' = 0 /\ \A t \in Streams \ {s} : At(t)' = At(t)
  BY <1>7 DEF At
<1>9. pos'[s] = pos[s] + n /\ \A t \in Streams \ {s} : pos'[t] = pos[t]
  BY <1>1, <1>3
<1>10. g \in Slices /\ g.stream = s /\ g.addr = At(s) /\ g.pos = pos[s] /\ g.length = n
  BY <1>1, SliceFacts
<1> HIDE DEF g
<1>11. \A d \in given : d = g /\ n > 0
  BY <1>1
<1>12. \A d \in delivered' : d \in delivered \/ (d = g /\ n > 0)
  BY <1>4, <1>11
<1> HIDE DEF given
<1>13. FreeAt' = p.base + p.used /\ FreeLength' = p.length - p.used
  BY <1>5 DEF FreeAt, FreeLength
<1>14. /\ At(s) \in Nat /\ At(s) + n <= Lim
       /\ \A t \in Streams \ {s} : Apart(At(t), read[t].toRead, At(s), n)
       /\ \A d \in delivered : Apart(At(s), n, d.addr, d.length) /\ Apart(d.addr, d.length, At(s), n)
  BY <1>1, FilledApart
<1>15. Within'
  <2>1. read' \in [Streams -> Reservations]
    BY <1>1, <1>3 DEF Within
  <2>2. \A t \in Streams : read'[t].start + read'[t].toRead <= read'[t].length
    <3>1. read'[s].start + read'[s].toRead <= read'[s].length
      BY <1>7
    <3> QED BY <3>1, <1>1, <1>7 DEF Within
  <2>3. \A t \in Streams : At(t)' + read'[t].toRead <= Lim
    <3>1. Lim \in Nat
      BY <1>1, PieceTypes
    <3>2. At(s)' + read'[s].toRead <= Lim
      BY <3>1, <1>7, <1>8
    <3> QED BY <3>2, <1>1, <1>7, <1>8 DEF Within
  <2>4. delivered' \subseteq Slices
    BY <1>1, <1>10, <1>12 DEF Within
  <2>5. \A d \in delivered' : d.length > 0 /\ d.addr + d.length <= Lim
    BY <1>1, <1>10, <1>12, <1>14 DEF Within
  <2>6. allocated' \in 0..MaxPools
    BY <1>1, <1>3 DEF Within
  <2>7. /\ pool' \in Pools /\ pool'.base + pool'.length <= Lim /\ poolFragments' \in Seq(Pools)
        /\ \A i \in 1..Len(poolFragments') :
              /\ poolFragments'[i].used = 0 /\ poolFragments'[i].length >= kMinPoolSpace
              /\ poolFragments'[i].length % Align = 0
              /\ poolFragments'[i].base + poolFragments'[i].length <= Lim
    BY <1>5 DEF Leaves
  <2> QED BY <2>1, <2>2, <2>3, <2>4, <2>5, <2>6, <2>7, <1>3, <1>6 DEF Within
<1>16. ReservedApart'
  <2>1. \A b, lb : Apart(At(s)', read'[s].toRead, b, lb)
    BY <1>7 DEF Apart
  <2>2. \A t, v \in Streams : t # v => Apart(At(t)', read'[t].toRead, At(v)', read'[v].toRead)
    <3> TAKE t, v \in Streams
    <3>1. CASE t # s /\ v = s
      BY <3>1, <1>7 DEF Apart
    <3>2. CASE t # s /\ v # s
      BY <3>2, <1>7, <1>8 DEF Memory, ReservedApart
    <3> QED BY <3>1, <3>2, <2>1
  <2>3. \A t \in Streams : Apart(At(t)', read'[t].toRead, p.base + p.used, p.length - p.used)
    BY <2>1, <1>5, <1>7, <1>8 DEF Leaves
  <2>4. \A t \in Streams : \A i \in 1..Len(fr) :
           Apart(At(t)', read'[t].toRead, fr[i].base, fr[i].length)
    BY <2>1, <1>5, <1>7, <1>8 DEF Leaves
  <2>5. \A t \in Streams : \A d \in delivered' : Apart(At(t)', read'[t].toRead, d.addr, d.length)
    <3> TAKE t \in Streams
    <3> TAKE d \in delivered'
    <3>1. CASE t = s
      BY <3>1, <2>1
    <3>2. CASE t # s /\ d \in delivered
      BY <3>2, <1>7, <1>8 DEF Memory, ReservedApart
    <3>3. CASE t # s /\ d = g
      BY <3>3, <1>7, <1>8, <1>10, <1>14
    <3> QED BY <3>1, <3>2, <3>3, <1>12
  <2> QED BY <2>2, <2>3, <2>4, <2>5, <1>5, <1>13 DEF ReservedApart
<1>17. FreeApart'
  <2>1. \A i \in 1..Len(fr) : Apart(p.base + p.used, p.length - p.used, fr[i].base, fr[i].length)
    BY <1>5 DEF Leaves
  <2>2. \A d \in delivered' : Apart(p.base + p.used, p.length - p.used, d.addr, d.length)
    BY <1>5, <1>10, <1>12 DEF Leaves
  <2> QED BY <2>1, <2>2, <1>5, <1>13 DEF FreeApart
<1>18. OthersApart'
  <2>1. \A i, j \in 1..Len(fr) : i # j => Apart(fr[i].base, fr[i].length, fr[j].base, fr[j].length)
    BY <1>5 DEF Leaves
  <2>2. \A i \in 1..Len(fr), d \in delivered' : Apart(fr[i].base, fr[i].length, d.addr, d.length)
    BY <1>5, <1>10, <1>12 DEF Leaves
  <2>3. \A d, e \in delivered' : d # e => Apart(d.addr, d.length, e.addr, e.length)
    <3> TAKE d, e \in delivered'
    <3>1. CASE d \in delivered /\ e \in delivered
      BY <3>1 DEF Memory, OthersApart
    <3>2. CASE d = g /\ e \in delivered
      BY <3>2, <1>10, <1>14
    <3>3. CASE d \in delivered /\ e = g
      BY <3>3, <1>10, <1>14
    <3> QED BY <3>1, <3>2, <3>3, <1>12
  <2> QED BY <2>1, <2>2, <2>3, <1>5 DEF OthersApart
<1>19. Data'
  <2>1. \A d \in delivered' : Intact(d)' /\ ~writer'[d.stream]
    <3> TAKE d \in delivered'
    <3>1. CASE d \in delivered
      BY <3>1, <1>6, <1>3 DEF Memory, Data
    <3>2. CASE d = g
      BY <3>2, <1>2, <1>3, <1>6, <1>10 DEF Intact
    <3> QED BY <3>1, <3>2, <1>12
  <2>2. \A d \in delivered : d.stream = s => d.pos + d.length <= pos[s]
    BY <1>2 DEF Covered
  <2>3. Covered(s)'
    <3>1. \A d \in delivered' : d.stream = s => d.pos + d.length <= pos[s] + n
      <4> TAKE d \in delivered'
      <4>1. CASE d \in delivered
        <5>1. d.pos \in Nat /\ d.length \in Nat
          BY <4>1, <1>1, PieceTypes
        <5> QED BY <5>1, <4>1, <2>2, <1>1
      <4>2. CASE d = g
        BY <4>2, <1>1, <1>10
      <4> QED BY <4>1, <4>2, <1>12
    <3>2. \A q \in 0..((pos[s] + n) - 1) :
             \E d \in delivered' : d.stream = s /\ d.pos <= q /\ q < d.pos + d.length
      <4> TAKE q \in 0..((pos[s] + n) - 1)
      <4>1. CASE q \in 0..(pos[s] - 1)
        <5>1. \E d \in delivered : d.stream = s /\ d.pos <= q /\ q < d.pos + d.length
          BY <4>1, <1>2 DEF Covered
        <5> QED BY <5>1, <1>4
      <4>2. CASE q \notin 0..(pos[s] - 1)
        <5>1. pos[s] <= q /\ q < pos[s] + n /\ n # 0
          BY <4>2, <1>1
        <5>2. g \in delivered'
          BY <5>1, <1>4 DEF given
        <5> QED BY <5>1, <5>2, <1>10
      <4> QED BY <4>1, <4>2
    <3>3. pos[s] + n + read'[s].toRead <= end[s] + 1
      <4>1. pos[s] + read[s].toRead <= end[s] + 1 /\ read[s].toRead \in Nat
        BY <1>1, <1>2, PieceTypes DEF Covered
      <4>2. read'[s].toRead = 0
        BY <1>7
      <4> QED BY <4>1, <4>2, <1>1
    <3> DEFINE m == pos[s] + n
    <3>4. \A d \in delivered' : d.stream = s => d.pos + d.length <= m
      BY <3>1
    <3>5. \A q \in 0..(m - 1) :
             \E d \in delivered' : d.stream = s /\ d.pos <= q /\ q < d.pos + d.length
      BY <3>2
    <3>6. m + read'[s].toRead <= end[s] + 1
      BY <3>3
    <3>7. pos'[s] = m /\ end' = end
      BY <1>3, <1>9
    <3> HIDE DEF m
    <3> QED BY <3>4, <3>5, <3>6, <3>7 DEF Covered
  <2>4. ASSUME NEW t \in Streams \ {s}, Covered(t) PROVE Covered(t)'
    <3>1. \A d \in delivered' : d.stream = t => d \in delivered
      BY <1>10, <1>12
    <3>2. \A d \in delivered : d \in delivered'
      BY <1>4
    <3> QED BY <3>1, <3>2, <2>4, <1>3, <1>7, <1>9 DEF Covered
  <2>5. \A d, e \in delivered' :
           d # e /\ d.stream = e.stream => d.pos + d.length <= e.pos \/ e.pos + e.length <= d.pos
    <3> TAKE d, e \in delivered'
    <3>1. CASE d \in delivered /\ e \in delivered
      BY <3>1 DEF Memory, Data
    <3>2. CASE d = g /\ e \in delivered
      BY <3>2, <1>10, <2>2
    <3>3. CASE d \in delivered /\ e = g
      BY <3>3, <1>10, <2>2
    <3> QED BY <3>1, <3>2, <3>3, <1>12
  <2>6. \A t \in Streams : IF writer'[t] THEN read'[t] = NoRead ELSE Covered(t)'
    <3> TAKE t \in Streams
    <3>1. CASE t = s
      BY <3>1, <2>3, <1>2, <1>3
    <3>2. CASE t # s
      BY <3>2, <2>4, <1>3, <1>7 DEF Memory, Data
    <3> QED BY <3>1, <3>2
  <2> QED BY <2>1, <2>5, <2>6 DEF Data
<1> QED BY <1>15, <1>16, <1>17, <1>18, <1>19 DEF Memory

\* The read goes on after n more bytes: its reservation stays.
LEMMA GoesOnKeepsMemory ==
    ASSUME Config, LifeFine, Memory, NEW s \in Streams, NEW n \in Nat, read[s] # NoRead,
           GoesOn(s, n), UNCHANGED <<config, allocated>>,
           DOMAIN mem' = 0..(MaxPools * MaxHwm - 1),
           \A d \in delivered : Intact(d)'
    PROVE  Memory'
<1>1. /\ Within /\ ended \in BOOLEAN
      /\ UNCHANGED <<writer, end, pool, poolFragments, allocated, delivered, pos>>
  BY DEF Memory, LifeFine, GoesOn, config
<1>2. /\ read' \in [Streams -> Reservations]
      /\ \A t \in Streams : /\ read'[t].base = read[t].base /\ read'[t].length = read[t].length
                             /\ read'[t].start = read[t].start /\ read'[t].toRead = read[t].toRead
      /\ \A t \in Streams \ {s} : read'[t] = read[t]
  <2> DEFINE g == [read EXCEPT ![s].nb = @ + n]
  <2>1. read \in [Streams -> Reservations]
    BY <1>1 DEF Within
  <2>2. g \in [Streams -> Reservations]
    <3> DEFINE old == read[s]
               q == [old EXCEPT !.nb = old.nb + n]
    <3>1. old \in Reservations
      BY <2>1
    <3> HIDE DEF old
    <3>2. q \in Reservations
      BY <3>1 DEF Reservations
    <3>3. g = [read EXCEPT ![s] = q]
      BY DEF old
    <3> HIDE DEF g, q
    <3> QED BY <2>1, <3>2, <3>3
  <2>3. read' = [g EXCEPT ![s].dead = ended]
    BY DEF GoesOn
  <2>4. \A t \in Streams : /\ g[t].base = read[t].base /\ g[t].length = read[t].length
                            /\ g[t].start = read[t].start /\ g[t].toRead = read[t].toRead
    BY <2>1 DEF Reservations
  <2>5. \A t \in Streams \ {s} : g[t] = read[t]
    BY <2>1
  <2> HIDE DEF g
  <2>6. read' \in [Streams -> Reservations]
    <3> DEFINE old == g[s]
               q == [old EXCEPT !.dead = ended]
    <3>1. old \in Reservations
      BY <2>2
    <3> HIDE DEF old
    <3>2. q \in Reservations
      BY <3>1, <1>1 DEF Reservations
    <3>3. read' = [g EXCEPT ![s] = q]
      BY <2>3 DEF old
    <3> HIDE DEF q
    <3> QED BY <2>2, <3>2, <3>3
  <2>7. \A t \in Streams : /\ read'[t].base = g[t].base /\ read'[t].length = g[t].length
                            /\ read'[t].start = g[t].start /\ read'[t].toRead = g[t].toRead
    BY <2>2, <2>3 DEF Reservations
  <2>8. \A t \in Streams \ {s} : read'[t] = g[t]
    BY <2>2, <2>3
  <2> QED BY <2>4, <2>5, <2>6, <2>7, <2>8
<1>3. \A t \in Streams : At(t)' = At(t)
  BY <1>2 DEF At
<1>4. Within'
  BY <1>1, <1>2, <1>3 DEF Within, Lim
<1>5. ReservedApart' /\ FreeApart' /\ OthersApart'
  BY <1>1, <1>2, <1>3 DEF Memory, ReservedApart, FreeApart, OthersApart, FreeAt, FreeLength
<1>6. Data'
  <2>1. ~writer[s]
    BY DEF Memory, Data
  <2>2. \A t \in Streams : Covered(t) => Covered(t)'
    BY <1>1, <1>2 DEF Covered
  <2> QED BY <2>1, <2>2, <1>1, <1>2 DEF Memory, Data
<1> QED BY <1>4, <1>5, <1>6 DEF Memory

LEMMA ReadAnsweredKeepsMemory ==
    ASSUME Config, LifeFine, Memory, Partial, NEW s \in Streams, NEW n \in 0..MaxHwm,
           ReadAnswered(s, n)
    PROVE  Memory' /\ Partial'
<1> DEFINE m == read[s].nb + n
           goesOn == n = RequestLength(read[s].toRead - read[s].nb) /\ m < read[s].toRead
<1>1. /\ Within /\ n \in Nat /\ read[s] # NoRead /\ pos \in [Streams -> Nat]
      /\ UNCHANGED <<config, allocated>>
  BY Marks DEF Memory, ReadAnswered, LifeFine
<1>2. ~writer[s] /\ UNCHANGED writer /\ read[s].nb \in Nat /\ read[s].toRead \in Nat
  BY <1>1 DEF Memory, Data, config, Within, Reservations
<1>3. m \in Nat /\ m <= read[s].toRead
  <2>1. read[s].nb <= read[s].toRead /\ n <= RequestLength(read[s].toRead - read[s].nb)
    BY DEF Partial, ReadAnswered
  <2> QED BY <2>1, <1>1, <1>2, StreamsAssumption DEF RequestLength
<1>4. /\ DOMAIN mem' = 0..(MaxPools * MaxHwm - 1)
      /\ \A i \in 0..(m - 1) : mem'[At(s) + i] = <<s, pos[s] + i>>
      /\ \A d \in delivered : Intact(d)'
      /\ \A t \in Streams \ {s} : ~writer[t] =>
            \A i \in 0..(read[t].nb - 1) : mem'[At(t) + i] = <<t, pos[t] + i>>
  <2>1. Answer(s, n)
    BY DEF ReadAnswered, Answer
  <2>2. read[s].nb + n <= read[s].toRead
    BY <1>3
  <2> HIDE DEF goesOn
  <2>3. /\ DOMAIN mem' = 0..(MaxPools * MaxHwm - 1)
        /\ \A i \in 0..((read[s].nb + n) - 1) : mem'[At(s) + i] = <<s, pos[s] + i>>
        /\ \A d \in delivered : Intact(d)'
        /\ \A t \in Streams \ {s} : ~writer[t] =>
              \A i \in 0..(read[t].nb - 1) : mem'[At(t) + i] = <<t, pos[t] + i>>
    BY <2>1, <2>2, <1>1, <1>2, MemoryWritten
  <2> QED BY <2>3, Zenon
<1>5. IF goesOn THEN GoesOn(s, n) ELSE Finished(s, m)
  BY DEF ReadAnswered
<1> HIDE DEF m
<1>6. CASE goesOn
  <2>1. GoesOn(s, n) /\ m < read[s].toRead
    BY <1>5, <1>6
  <2>2. Memory'
    BY <2>1, <1>1, <1>4, GoesOnKeepsMemory
  <2>3. /\ UNCHANGED pos /\ read'[s].nb = m /\ read'[s].toRead = read[s].toRead
        /\ \A t \in Streams \ {s} : read'[t] = read[t]
        /\ \A t \in Streams : At(t)' = At(t)
    BY <2>1, <1>1 DEF GoesOn, Within, Reservations, At, m
  <2>4. Got(s)' /\ \A t \in Streams \ {s} : ~writer[t] => Got(t)'
    BY <2>3, <1>4 DEF Got
  <2>5. \A t \in Streams : read'[t].nb <= read'[t].toRead
    BY <2>1, <2>3, <1>2, <1>3 DEF Partial
  <2> QED BY <2>2, <2>4, <2>5, <1>2 DEF Partial
<1>7. CASE ~goesOn
  <2>1. Finished(s, m)
    BY <1>5, <1>7
  <2>2. Memory'
    BY <2>1, <1>1, <1>3, <1>4, FinishedKeepsMemory
  <2>3. /\ read'[s] = NoRead /\ \A t \in Streams \ {s} : read'[t] = read[t] /\ pos'[t] = pos[t]
        /\ \A t \in Streams \ {s} : At(t)' = At(t)
    BY <2>1, <1>1 DEF Finished, Within, At
  <2>4. Got(s)' /\ \A t \in Streams \ {s} : ~writer[t] => Got(t)'
    BY <2>3, <1>4, NoReadFacts DEF Got
  <2>5. \A t \in Streams : read'[t].nb <= read'[t].toRead
    BY <2>3, NoReadFacts DEF Partial
  <2> QED BY <2>2, <2>4, <2>5, <1>2 DEF Partial
<1> QED BY <1>6, <1>7

-----------------------------------------------------------------------------
(* Writes.                                                                 *)

\* A stream whose writes a step does not touch.
LEMMA WritesFrame ==
    ASSUME NEW t \in Streams, PositionFine(t), WritesFine(t), step'[t] = "opened" <=> step[t] = "opened",
           writer'[t] = writer[t], append'[t] = append[t], writer[t] => pos'[t] = pos[t],
           file'[t] = file[t], pending'[t] = pending[t], writesLeft'[t] = writesLeft[t],
           batch'[t] = batch[t], sent'[t] = sent[t], doneCbs'[t] = doneCbs[t],
           failCbs'[t] = failCbs[t], early'[t] = early[t], first'[t] = first[t]
    PROVE  PositionFine(t)' /\ WritesFine(t)'
<1>1. \A i : (Stored(t, i)' <=> Stored(t, i)) /\ (Untouched(t, i)' <=> Untouched(t, i))
             /\ Place(t, i)' = Place(t, i)
  BY DEF Stored, Untouched, Place
<1>2. PositionFine(t)'
  BY <1>1 DEF PositionFine, FirstFine
<1>3. WritesFine(t)'
  BY <1>1 DEF WritesFine
<1> QED BY <1>2, <1>3

\* The bytes of k chunks of length c, one after the other.
LEMMA Chunks ==
    ASSUME NEW c \in Nat \ {0}, NEW k \in Nat
    PROVE  /\ k * c \in Nat /\ k <= k * c
           /\ \A m \in Nat : k <= m => m * c \in Nat /\ k * c <= m * c
           /\ \A i \in 0..(k - 1) : i * c \in Nat /\ i * c + c <= k * c
           /\ \A i, j \in 0..(k - 1) : i < j => i * c + c <= j * c
           /\ \A x \in 0..(k * c - 1) : \E i \in 0..(k - 1) : i * c <= x /\ x < i * c + c
<1>1. \A a \in Nat : a * c \in Nat /\ a <= a * c
  <2> TAKE a \in Nat
  <2>1. c = 1 + (c - 1) /\ c - 1 \in Nat
    OBVIOUS
  <2>2. a * c = a + a * (c - 1) /\ a * (c - 1) \in Nat
    BY <2>1
  <2> QED BY <2>2
<1>2. ASSUME NEW a \in Nat, NEW b \in Nat, a < b PROVE a * c + c <= b * c
  <2>1. PICK d \in Nat : b = a + 1 + d
    <3>1. b - a - 1 \in Nat /\ b = a + 1 + (b - a - 1)
      BY <1>2
    <3> QED BY <3>1
  <2>2. b * c = a * c + c + d * c /\ d * c \in Nat /\ a * c \in Nat
    BY <2>1, <1>1
  <2> QED BY <2>2
<1>3. \A m \in Nat : k <= m => m * c \in Nat /\ k * c <= m * c
  <2> TAKE m \in Nat
  <2> HAVE k <= m
  <2>1. m * c \in Nat /\ k * c \in Nat
    BY <1>1
  <2>2. CASE k < m
    <3>1. k * c + c <= m * c
      BY <2>2, <1>2
    <3> QED BY <3>1, <2>1
  <2>3. CASE k = m
    BY <2>1, <2>3
  <2> QED BY <2>2, <2>3
<1>4. \A i \in 0..(k - 1) : i * c \in Nat /\ i * c + c <= k * c
  BY <1>1, <1>2
<1>5. \A i, j \in 0..(k - 1) : i < j => i * c + c <= j * c
  BY <1>2
<1>6. \A x \in 0..(k * c - 1) : \E i \in 0..(k - 1) : i * c <= x /\ x < i * c + c
  <2> TAKE x \in 0..(k * c - 1)
  <2> DEFINE i == x \div c
  <2>1. x \in Nat /\ x < k * c /\ k * c \in Nat
    BY <1>1
  <2>2. i \in Nat /\ i * c \in Nat /\ i * c <= x /\ x < i * c + c
    BY <2>1, Quotient
  <2> HIDE DEF i
  <2>3. i < k
    <3>1. CASE k <= i
      <4>1. k * c <= i * c
        BY <3>1, <2>2, <1>3
      <4> QED BY <4>1, <2>1, <2>2
    <3> QED BY <3>1, <2>2
  <2>4. i \in 0..(k - 1) /\ i * c <= x /\ x < i * c + c
    BY <2>2, <2>3
  <2> QED BY <2>4, Zenon
<1> QED BY <1>1, <1>3, <1>4, <1>5, <1>6

\* The writes of one _writev(): k chunks of length c from position p on, the first of
\* them from the q-th byte on.
Chunk(i, c, p, q, b) == [pos |-> p + i * c, data |-> q + i * c, len |-> c, dead |-> b]
BatchOf(k, c, p, q, b) == {Chunk(i, c, p, q, b) : i \in 0..(k - 1)}

\* They are as many as its chunks, lie apart and cover its bytes.
Covering(W, k, c, p, q) ==
    /\ W \subseteq Writes /\ IsFiniteSet(W) /\ Cardinality(W) = k
    /\ \A w \in W : /\ w.len = c /\ w.data >= q /\ w.data + w.len <= q + k * c
                    /\ w.pos = p + (w.data - q)
    /\ \A v, w \in W : v # w => v.data + v.len <= w.data \/ w.data + w.len <= v.data
    /\ \A x \in q..(q + k * c - 1) : \E w \in W : w.data <= x /\ x < w.data + w.len

LEMMA BatchFacts ==
    ASSUME NEW k \in Nat, NEW c \in Nat \ {0}, NEW p \in Nat, NEW q \in Nat, NEW b \in BOOLEAN
    PROVE  Covering(BatchOf(k, c, p, q, b), k, c, p, q)
<1> DEFINE I == 0..(k - 1)
           ch(i) == Chunk(i, c, p, q, b)
           W == BatchOf(k, c, p, q, b)
           f == [i \in I |-> ch(i)]
<1>1. /\ k * c \in Nat
      /\ \A i \in I : i * c \in Nat /\ i * c + c <= k * c
      /\ \A i, j \in I : i < j => i * c + c <= j * c
      /\ \A x \in 0..(k * c - 1) : \E i \in I : i * c <= x /\ x < i * c + c
  BY Chunks
<1>2. \A i \in I : /\ ch(i) \in Writes /\ ch(i).len = c /\ ch(i).data = q + i * c
                   /\ ch(i).pos = p + i * c
  BY <1>1 DEF Chunk, Writes
<1>3. W = {ch(i) : i \in I}
  BY DEF BatchOf
<1> HIDE DEF ch, W
<1>4. /\ W \subseteq Writes
      /\ \A w \in W : /\ w.len = c /\ w.data >= q /\ w.data + w.len <= q + k * c
                      /\ w.pos = p + (w.data - q)
  <2>1. W \subseteq Writes
    BY <1>2, <1>3
  <2>2. ASSUME NEW w \in W
        PROVE  /\ w.len = c /\ w.data >= q /\ w.data + w.len <= q + k * c
               /\ w.pos = p + (w.data - q)
    <3>1. PICK i \in I : w = ch(i)
      BY <1>3
    <3> DEFINE n == i * c
    <3>2. n \in Nat /\ n + c <= k * c /\ w.len = c /\ w.data = q + n /\ w.pos = p + n
      BY <3>1, <1>1, <1>2
    <3> HIDE DEF n
    <3> QED BY <3>2, <1>1
  <2> QED BY <2>1, <2>2
<1>5. \A i, j \in I : i # j => ch(i).data + c <= ch(j).data \/ ch(j).data + c <= ch(i).data
  <2> TAKE i, j \in I
  <2> DEFINE n == i * c
             l == j * c
  <2>1. n \in Nat /\ l \in Nat /\ (i < j => n + c <= l) /\ (j < i => l + c <= n)
        /\ ch(i).data = q + n /\ ch(j).data = q + l
    BY <1>1, <1>2
  <2> HIDE DEF n, l
  <2> QED BY <2>1
<1>6. \A v, w \in W : v # w => v.data + v.len <= w.data \/ w.data + w.len <= v.data
  <2> TAKE v, w \in W
  <2>1. PICK i \in I, j \in I : v = ch(i) /\ w = ch(j)
    BY <1>3
  <2> QED BY <2>1, <1>2, <1>5
<1>7. \A x \in q..(q + k * c - 1) : \E w \in W : w.data <= x /\ x < w.data + w.len
  <2> TAKE x \in q..(q + k * c - 1)
  <2>1. x - q \in 0..(k * c - 1)
    BY <1>1
  <2>2. PICK i \in I : i * c <= x - q /\ x - q < i * c + c
    BY <2>1, <1>1
  <2> DEFINE n == i * c
  <2>3. n \in Nat /\ ch(i).data = q + n /\ ch(i).len = c /\ ch(i) \in W
    BY <1>1, <1>2, <1>3
  <2>4. n <= x - q /\ x - q < n + c
    BY <2>2
  <2> HIDE DEF n
  <2> QED BY <2>3, <2>4
<1>8. IsFiniteSet(I) /\ Cardinality(I) = k
  BY FS_Interval
<1>9. f \in [I -> W] /\ \A w \in W : \E i \in I : f[i] = w
  BY <1>3
<1>10. \A i, j \in I : f[i] = f[j] => i = j
  <2> TAKE i, j \in I
  <2>1. f[i] = ch(i) /\ f[j] = ch(j) /\ ch(i).data \in Nat
    BY <1>1, <1>2
  <2> QED BY <2>1, <1>5
<1> HIDE DEF I, f
<1>11. ExistsBijection(I, W)
  BY <1>9, <1>10 DEF ExistsBijection, Bijection, Injection, Surjection, IsInjective
<1>12. IsFiniteSet(W) /\ Cardinality(W) = k
  BY <1>8, <1>11, FS_Bijection
<1>13. Covering(W, k, c, p, q)
  BY <1>4, <1>6, <1>7, <1>12 DEF Covering
<1> QED BY <1>13 DEF W

\* When no write is left, none is under way and none has failed, so all that was
\* sent and was not early is in the file.
LEMMA AllStored ==
    ASSUME NEW s \in Streams, WriteTypes, WritesFine(s), writesLeft[s] = 0
    PROVE  /\ pending[s] = {} /\ failCbs[s] = 0
           /\ \A i \in early[s]..(sent[s] - 1) : file[s][first[s] + (i - early[s])] = i
<1>1. /\ IsFiniteSet(pending[s]) /\ Cardinality(pending[s]) \in Nat /\ failCbs[s] \in Nat
      /\ Cardinality(pending[s]) + failCbs[s] = 0
  BY FS_CardinalityType DEF WriteTypes, WritesFine
<1>2. Cardinality(pending[s]) = 0 /\ failCbs[s] = 0
  BY <1>1
<1>3. pending[s] = {}
  BY <1>1, <1>2, FS_EmptySet
<1>4. ~(failCbs[s] > 0)
  BY <1>2
<1>5. \A i \in early[s]..(sent[s] - 1) : Stored(s, i)
  BY DEF WritesFine
<1> QED BY <1>2, <1>3, <1>4, <1>5 DEF Stored

\* _write() or _writev() when no write is left.
LEMMA SendWritesFine ==
    ASSUME WriteTypes, pos \in [Streams -> Nat], ended \in BOOLEAN,
           NEW s \in Streams, WritesFine(s), writesLeft[s] = 0, writer[s],
           NEW k \in Nat \ {0}, sent[s] + k * ChunkLength <= MaxBytes, NEW p,
           early' \in [Streams -> Nat], first' \in [Streams -> Nat],
           early'[s] <= sent[s], p = first'[s] + (sent[s] - early'[s]),
           FirstFine(s)',
           \A i \in early'[s]..(sent[s] - 1) : file[s][first'[s] + (i - early'[s])] = i,
           SendWrites(s, k, p), UNCHANGED <<writer, file>>
    PROVE  WriteTypes' /\ PositionFine(s)' /\ WritesFine(s)' /\ pos' \in [Streams -> Nat]
<1> DEFINE W == BatchOf(k, ChunkLength, p, sent[s], ended)
           n == k * ChunkLength
           e == early'[s]
           f == first'[s]
<1>1. /\ sent[s] \in Nat /\ e \in Nat /\ f \in Nat /\ p \in Nat /\ ChunkLength \in Nat \ {0}
      /\ n \in Nat /\ k <= n /\ e <= sent[s] /\ p = f + (sent[s] - e)
      /\ FileSize \in Nat /\ MaxBytes \in Nat
  <2>1. n \in Nat /\ k <= n /\ MaxBytes \in Nat
    BY StreamsAssumption, Chunks DEF MaxBytes
  <2> HIDE DEF n
  <2> QED BY <2>1, StreamsAssumption DEF WriteTypes
<1>2. /\ W \subseteq Writes /\ IsFiniteSet(W) /\ Cardinality(W) = k
      /\ \A w \in W : /\ w.len = ChunkLength /\ w.data >= sent[s] /\ w.data + w.len <= sent[s] + n
                      /\ w.pos = p + (w.data - sent[s])
      /\ \A v, w \in W : v # w => v.data + v.len <= w.data \/ w.data + w.len <= v.data
      /\ \A x \in sent[s]..(sent[s] + n - 1) : \E w \in W : w.data <= x /\ x < w.data + w.len
  <2>1. k \in Nat /\ ChunkLength \in Nat \ {0} /\ p \in Nat /\ sent[s] \in Nat /\ ended \in BOOLEAN
    BY <1>1
  <2> HIDE DEF e, f
  <2>2. Covering(W, k, ChunkLength, p, sent[s])
    BY <2>1, BatchFacts
  <2> HIDE DEF W
  <2> QED BY <2>2 DEF Covering
<1>3. /\ pending' = [pending EXCEPT ![s] = W]
      /\ writesLeft' = [writesLeft EXCEPT ![s] = k] /\ batch' = [batch EXCEPT ![s] = k]
      /\ sent' = [sent EXCEPT ![s] = sent[s] + n]
      /\ doneCbs' = [doneCbs EXCEPT ![s] = 0] /\ failCbs' = [failCbs EXCEPT ![s] = 0]
      /\ pos' = [pos EXCEPT ![s] = p + n]
  <2>1. pending' = [pending EXCEPT ![s] = W]
    BY Zenon DEF SendWrites, BatchOf, Chunk
  <2> QED BY <2>1 DEF SendWrites
<1>4. sent[s] + n <= MaxBytes
  OBVIOUS
<1> HIDE DEF W, n
<1>5. sent[s] + n \in Nat /\ p + n \in Nat /\ n > 0
  BY <1>1
<1>6. WriteTypes' /\ pos' \in [Streams -> Nat]
  BY <1>1, <1>2, <1>3, <1>5 DEF WriteTypes
<1>7. /\ pending'[s] = W /\ writesLeft'[s] = k /\ batch'[s] = k /\ sent'[s] = sent[s] + n
      /\ doneCbs'[s] = 0 /\ failCbs'[s] = 0 /\ pos'[s] = p + n
  BY <1>3 DEF WriteTypes
<1>8. PositionFine(s)'
  <2>1. FirstFine(s)' /\ early'[s] <= sent'[s]
    BY <1>1, <1>7
  <2>2. pos'[s] = f + (sent'[s] - e) /\ sent'[s] # 0
    BY <1>1, <1>5, <1>7
  <2> QED BY <2>1, <2>2 DEF PositionFine
<1>9. \A w \in W : w.len > 0 /\ w.data + w.len <= sent'[s] /\ w.pos = Place(s, w.data)' /\ ~(w.data < e)
  <2> TAKE w \in W
  <2>1. /\ w.len = ChunkLength /\ w.data >= sent[s] /\ w.data + w.len <= sent[s] + n
        /\ w.pos = p + (w.data - sent[s]) /\ w.data \in Nat
    BY <1>2 DEF Writes
  <2>2. w.len > 0 /\ ~(w.data < e) /\ w.pos = f + (w.data - e)
    BY <2>1, <1>1
  <2> QED BY <2>1, <2>2, <1>7 DEF Place
<1>10. \A i \in e..(sent'[s] - 1) : Stored(s, i)'
  <2> TAKE i \in e..(sent'[s] - 1)
  <2>1. CASE i < sent[s]
    <3>1. i \in e..(sent[s] - 1)
      BY <2>1, <1>1
    <3> QED BY <3>1 DEF Stored
  <2>2. CASE i >= sent[s]
    <3>1. i \in sent[s]..(sent[s] + n - 1)
      BY <2>2, <1>1, <1>7
    <3>2. \E w \in W : w.data <= i /\ i < w.data + w.len
      BY <3>1, <1>2
    <3> QED BY <3>2, <1>7 DEF Stored
  <2> QED BY <2>1, <2>2, <1>1
<1>11. WritesFine(s)'
  <2>1. DOMAIN file'[s] = Places'
    BY DEF WritesFine, Places
  <2>2. /\ sent'[s] <= MaxBytes /\ batch'[s] <= sent'[s] /\ writesLeft'[s] <= batch'[s]
        /\ sent'[s] # 0 /\ batch'[s] # 0 /\ batch'[s] > 0 /\ writesLeft'[s] # 0
        /\ writesLeft'[s] = Cardinality(W) + 0
    BY <1>1, <1>2, <1>4, <1>5, <1>7
  <2> QED BY <2>1, <2>2, <1>2, <1>7, <1>9, <1>10 DEF WritesFine
<1> QED BY <1>6, <1>8, <1>11

\* What is left of a write is apart from the others.
LEMMA RestFacts ==
    ASSUME ended \in BOOLEAN, NEW w \in Writes, w.len > MaxDataLen
    PROVE  /\ Rest(w) \in Writes /\ Rest(w).data = w.data + MaxDataLen
           /\ Rest(w).pos = w.pos + MaxDataLen /\ Rest(w).len = w.len - MaxDataLen
           /\ MaxDataLen \in Nat \ {0}
<1>1. /\ MaxDataLen \in Nat \ {0} /\ w.len \in Nat /\ w.data \in Nat /\ w.pos \in Nat
      /\ w.len - MaxDataLen \in Nat
  BY StreamsAssumption DEF Writes
<1> QED BY <1>1 DEF Rest, Writes

\* The answer to the write w.
LEMMA WriteAnsweredFine ==
    ASSUME WriteTypes, append \in [Streams -> BOOLEAN], pos \in [Streams -> Nat], ended \in BOOLEAN,
           NEW s \in Streams, PositionFine(s), WritesFine(s), NEW w \in pending[s],
           NEW ok \in BOOLEAN, WriteAnswered(s, w, ok)
    PROVE  WriteTypes' /\ PositionFine(s)' /\ WritesFine(s)'
<1> DEFINE m == RequestLength(w.len)
           goesOn == ok /\ w.len > MaxDataLen
           new == IF goesOn THEN {Rest(w)} ELSE {}
           P == (pending[s] \ {w}) \cup new
           e == early[s]
           f == first[s]
<1>1. /\ pending[s] \subseteq Writes /\ w \in Writes /\ w.data \in Nat /\ w.pos \in Nat /\ w.len \in Nat
      /\ writesLeft[s] \in Nat /\ batch[s] \in Nat /\ sent[s] \in Nat /\ doneCbs[s] \in Nat
      /\ failCbs[s] \in Nat /\ e \in Nat /\ f \in Nat
  BY DEF WriteTypes, Writes
<1>2. /\ FileSize \in Nat /\ MaxBytes \in Nat /\ e <= sent[s] /\ f <= FileSize + e
      /\ sent[s] <= MaxBytes /\ MaxDataLen \in Nat \ {0}
  BY StreamsAssumption, Chunks DEF PositionFine, FirstFine, WritesFine, MaxBytes
<1>3. /\ w.len > 0 /\ w.data + w.len <= sent[s] /\ w.pos = Place(s, w.data)
      /\ w.data < e => sent[s] = e
  BY DEF WritesFine
<1>4. m \in Nat /\ m > 0 /\ m <= w.len /\ (~goesOn /\ ok => m = w.len) /\ (goesOn => m = MaxDataLen)
  BY <1>1, <1>2, <1>3 DEF RequestLength
<1>5. /\ pending' = [pending EXCEPT ![s] = P]
      /\ UNCHANGED <<writer, append, step, pos, batch, sent, early, first>>
      /\ file' = IF ~ok THEN file
                 ELSE [file EXCEPT ![s] = [p \in DOMAIN file[s] |->
                          IF p - w.pos \in 0..(m - 1) THEN w.data + (p - w.pos) ELSE file[s][p]]]
  BY DEF WriteAnswered, config, position
<1>6. goesOn => /\ Rest(w) \in Writes /\ Rest(w).data = w.data + m /\ Rest(w).pos = w.pos + m
                /\ Rest(w).len = w.len - m
  BY <1>1, <1>4, RestFacts
<1>7. /\ pending'[s] = P /\ P \subseteq Writes
      /\ DOMAIN file' = Streams
      /\ \A p \in Places : file'[s][p] = IF ok /\ p - w.pos \in 0..(m - 1)
                                         THEN w.data + (p - w.pos) ELSE file[s][p]
      /\ DOMAIN file'[s] = Places
  <2>1. P \subseteq Writes
    BY <1>1, <1>6
  <2> HIDE DEF P, m, goesOn
  <2>2. pending'[s] = P /\ DOMAIN file' = Streams
    BY <1>5 DEF WriteTypes
  <2>3. DOMAIN file[s] = Places
    BY DEF WritesFine
  <2>4. CASE ok
    <3>1. file'[s] = [p \in DOMAIN file[s] |->
                         IF p - w.pos \in 0..(m - 1) THEN w.data + (p - w.pos) ELSE file[s][p]]
      BY <2>4, <1>5 DEF WriteTypes
    <3>2. \A p \in Places : file'[s][p] = IF p - w.pos \in 0..(m - 1)
                                          THEN w.data + (p - w.pos) ELSE file[s][p]
      BY <3>1, <2>3, Zenon
    <3>3. DOMAIN file'[s] = Places
      BY <3>1, <2>3, Zenon
    <3> QED BY <2>1, <2>2, <2>4, <3>2, <3>3
  <2>5. CASE ~ok
    <3>1. file' = file
      BY <2>5, <1>5
    <3> QED BY <2>1, <2>2, <2>3, <2>5, <3>1
  <2> QED BY <2>4, <2>5
<1> HIDE DEF m, goesOn
\* The part that was written, if it is not early, is in its place.
<1>8. \A i \in e..(sent[s] - 1) :
         /\ f + (i - e) \in Places
         /\ file'[s][f + (i - e)] = IF ok /\ w.data <= i /\ i < w.data + m THEN i
                                    ELSE file[s][f + (i - e)]
  <2> TAKE i \in e..(sent[s] - 1)
  <2>1. ~(w.data < e) /\ w.pos = f + (w.data - e)
    BY <1>1, <1>2, <1>3 DEF Place
  <2>2. f + (i - e) \in Places
    BY <1>1, <1>2 DEF Places
  <2>3. /\ (f + (i - e)) - w.pos = i - w.data
        /\ w.data <= i /\ i < w.data + m <=> i - w.data \in 0..(m - 1)
    BY <2>1, <1>1, <1>4
  <2>4. w.data + (i - w.data) = i
    BY <1>1
  <2> HIDE DEF e, f
  <2> QED BY <2>2, <2>3, <2>4, <1>7
<1>9. \A n \in Nat : Untouched(s, n) /\ n <= w.pos => Untouched(s, n)'
  <2> TAKE n \in Nat
  <2> HAVE Untouched(s, n) /\ n <= w.pos
  <2>1. \A p \in Places : p < n => p - w.pos \notin 0..(m - 1)
    BY <1>1, <1>4 DEF Places
  <2> QED BY <2>1, <1>7 DEF Untouched, Places
<1>10. PositionFine(s)'
  <2>1. e = 0 => w.pos >= f
    BY <1>1, <1>3 DEF Place
  <2>2. ASSUME e = 0 PROVE Untouched(s, f)'
    <3>1. PICK n \in Nat : n = f
      BY <1>1
    <3>2. Untouched(s, n)'
      BY <2>1, <2>2, <3>1, <1>9 DEF PositionFine, FirstFine
    <3> QED BY <3>1, <3>2, <1>5
  <2>3. sent[s] # 0
    BY <1>1, <1>3
  <2> QED BY <2>2, <2>3, <1>5 DEF PositionFine, FirstFine
<1>11. \A v \in P : /\ v.len > 0 /\ v.data + v.len <= sent[s] /\ v.pos = Place(s, v.data)
                    /\ v.data < e => sent[s] = e
  <2> TAKE v \in P
  <2>1. CASE v \in pending[s]
    BY <2>1 DEF WritesFine
  <2>2. CASE goesOn /\ v = Rest(w)
    <3>1. v.data = w.data + m /\ v.pos = w.pos + m /\ v.len = w.len - m /\ v.len > 0
      <4>1. goesOn => m < w.len
        BY <1>1, <1>2, <1>4 DEF goesOn
      <4> QED BY <4>1, <2>2, <1>1, <1>4, <1>6
    <3>2. v.data < e <=> w.data < e
      BY <3>1, <1>1, <1>3, <1>4
    <3>3. v.pos = Place(s, v.data)
      BY <3>1, <3>2, <1>1, <1>3, <1>4 DEF Place
    <3> QED BY <3>1, <3>2, <3>3, <1>1, <1>3, <1>4
  <2> QED BY <2>1, <2>2
<1>12. \A v \in pending[s] : v # w => v.data + v.len <= w.data \/ w.data + w.len <= v.data
  BY DEF WritesFine
<1>13. \A u, v \in P : u # v => u.data + u.len <= v.data \/ v.data + v.len <= u.data
  <2> TAKE u, v \in P
  <2> HAVE u # v
  <2>1. \A x \in pending[s] \ {w} : goesOn =>
           x.data + x.len <= Rest(w).data \/ Rest(w).data + Rest(w).len <= x.data
    <3> TAKE x \in pending[s] \ {w}
    <3> HAVE goesOn
    <3>1. x.data \in Nat /\ x.len \in Nat
      BY <1>1 DEF Writes
    <3>2. x.data + x.len <= w.data \/ w.data + w.len <= x.data
      BY <1>12
    <3> QED BY <3>1, <3>2, <1>1, <1>4, <1>6
  <2>2. CASE u \in pending[s] /\ v \in pending[s]
    BY <2>2 DEF WritesFine
  <2>3. CASE u \in pending[s] \ {w} /\ goesOn /\ v = Rest(w)
    BY <2>1, <2>3
  <2>4. CASE v \in pending[s] \ {w} /\ goesOn /\ u = Rest(w)
    BY <2>1, <2>4
  <2> QED BY <2>2, <2>3, <2>4
<1>14. Places' = Places /\ (\A i : Place(s, i)' = Place(s, i))
  BY <1>5 DEF Places, Place
<1>15. /\ IsFiniteSet(pending[s]) /\ Cardinality(pending[s]) \in Nat
       /\ IsFiniteSet(pending[s] \ {w})
       /\ Cardinality(pending[s] \ {w}) = Cardinality(pending[s]) - 1
       /\ Cardinality(pending[s] \ {w}) \in Nat
  BY FS_RemoveElement, FS_CardinalityType DEF WritesFine
<1>16. writesLeft[s] >= 1 /\ batch[s] >= 1 /\ doneCbs[s] = 0 /\ writesLeft[s] <= batch[s]
       /\ writesLeft[s] = Cardinality(pending[s]) + failCbs[s] /\ batch[s] <= sent[s]
  BY <1>1, <1>15 DEF WritesFine
<1>17. /\ \A i \in e..(sent[s] - 1) : Stored(s, i)
       /\ batch[s] # 0
  BY <1>1, <1>16 DEF WritesFine
<1>18. CASE goesOn
  <2>1. UNCHANGED <<writesLeft, doneCbs, failCbs>> /\ ok /\ new = {Rest(w)}
    BY <1>18 DEF WriteAnswered, goesOn
  <2>2. Rest(w) \notin pending[s] \ {w}
    <3> SUFFICES ASSUME Rest(w) \in pending[s] \ {w} PROVE FALSE
      OBVIOUS
    <3>1. Rest(w).data + Rest(w).len <= w.data \/ w.data + w.len <= Rest(w).data
      BY <1>12
    <3>2. m < w.len
      BY <1>1, <1>2, <1>4, <1>18 DEF goesOn
    <3> QED BY <3>1, <3>2, <1>1, <1>4, <1>6, <1>18
  <2>3. IsFiniteSet(P) /\ Cardinality(P) = Cardinality(pending[s])
    <3>1. IsFiniteSet(P) /\ Cardinality(P) = Cardinality(pending[s] \ {w}) + 1
      BY <2>1, <2>2, <1>15, FS_AddElement
    <3> QED BY <3>1, <1>15
  <2>4. \A i \in e..(sent[s] - 1) : Stored(s, i)'
    <3> TAKE i \in e..(sent[s] - 1)
    <3>1. CASE w.data <= i /\ i < w.data + m
      BY <3>1, <2>1, <1>5, <1>8 DEF Stored
    <3>2. CASE ~(w.data <= i /\ i < w.data + m)
      <4>1. file'[s][f + (i - e)] = file[s][f + (i - e)]
        BY <3>2, <1>8
      <4>2. (\E v \in pending[s] : v.data <= i /\ i < v.data + v.len) =>
               \E v \in P : v.data <= i /\ i < v.data + v.len
        <5> SUFFICES ASSUME NEW v \in pending[s], v.data <= i, i < v.data + v.len
                     PROVE  \E x \in P : x.data <= i /\ i < x.data + x.len
          OBVIOUS
        <5>1. CASE v # w
          BY <5>1
        <5>2. CASE v = w
          <6>1. Rest(w) \in P /\ Rest(w).data <= i /\ i < Rest(w).data + Rest(w).len
            BY <5>2, <3>2, <2>1, <1>1, <1>4, <1>6, <1>18
          <6> QED BY <6>1
        <5> QED BY <5>1, <5>2
      <4>3. Stored(s, i)
        BY <1>17
      <4> HIDE DEF P
      <4> QED BY <4>1, <4>2, <4>3, <2>1, <1>5, <1>7 DEF Stored
    <3> QED BY <3>1, <3>2
  <2>5. WriteTypes'
    BY <2>1, <1>5, <1>7 DEF WriteTypes
  <2> HIDE DEF P, e, f
  <2>6. WritesFine(s)'
    BY <2>1, <2>3, <2>4, <1>5, <1>7, <1>11, <1>13, <1>14, <1>16, <1>17 DEF WritesFine, e, f
  <2> QED BY <2>5, <2>6, <1>10
<1>19. CASE ~goesOn
  <2>1. OnWrite(s, ok) /\ P = pending[s] \ {w}
    BY <1>19 DEF WriteAnswered, goesOn
  <2>2. CASE ok
    <3>1. /\ writesLeft' = [writesLeft EXCEPT ![s] = writesLeft[s] - 1]
          /\ doneCbs' = [doneCbs EXCEPT ![s] = IF writesLeft[s] = 1 THEN doneCbs[s] + 1 ELSE doneCbs[s]]
          /\ failCbs' = failCbs
      BY <2>1, <2>2 DEF OnWrite
    <3>2. /\ writesLeft'[s] = writesLeft[s] - 1 /\ failCbs'[s] = failCbs[s]
          /\ doneCbs'[s] = IF writesLeft[s] = 1 THEN 1 ELSE 0
      BY <3>1, <1>16 DEF WriteTypes
    <3>3. WriteTypes'
      <4>1. writesLeft[s] - 1 \in Nat /\ (IF writesLeft[s] = 1 THEN doneCbs[s] + 1 ELSE doneCbs[s]) \in Nat
        BY <1>1, <1>16
      <4> HIDE DEF P
      <4> QED BY <4>1, <3>1, <1>5, <1>7 DEF WriteTypes
    <3>4. \A i \in e..(sent[s] - 1) : Stored(s, i)'
      <4> TAKE i \in e..(sent[s] - 1)
      <4>1. CASE w.data <= i /\ i < w.data + m
        BY <4>1, <2>2, <1>5, <1>8 DEF Stored
      <4>2. CASE ~(w.data <= i /\ i < w.data + m)
        <5>1. file'[s][f + (i - e)] = file[s][f + (i - e)]
          BY <4>2, <1>8
        <5>2. m = w.len
          BY <2>2, <1>4, <1>19
        <5>3. (\E v \in pending[s] : v.data <= i /\ i < v.data + v.len) =>
                 \E v \in P : v.data <= i /\ i < v.data + v.len
          BY <5>2, <4>2, <2>1
        <5>4. Stored(s, i)
          BY <1>17
        <5> HIDE DEF P
        <5> QED BY <5>1, <5>3, <5>4, <3>2, <1>5, <1>7 DEF Stored
      <4> QED BY <4>1, <4>2
    <3>5. /\ writesLeft'[s] <= batch[s] /\ writesLeft'[s] = Cardinality(P) + failCbs[s]
          /\ doneCbs'[s] = IF batch[s] > 0 /\ writesLeft'[s] = 0 THEN 1 ELSE 0
      <4> HIDE DEF P
      <4> QED BY <3>2, <2>1, <1>1, <1>15, <1>16
    <3>6. IsFiniteSet(P)
      BY <2>1, <1>15
    <3> HIDE DEF P, e, f
    <3>7. WritesFine(s)'
      BY <3>2, <3>4, <3>5, <3>6, <1>5, <1>7, <1>11, <1>13, <1>14, <1>16, <1>17 DEF WritesFine, e, f
    <3> QED BY <3>3, <3>7, <1>10
  <2>3. CASE ~ok
    <3>1. /\ writesLeft' = writesLeft /\ doneCbs' = doneCbs
          /\ failCbs' = [failCbs EXCEPT ![s] = failCbs[s] + 1]
      BY <2>1, <2>3 DEF OnWrite
    <3>2. /\ failCbs[s] + 1 \in Nat /\ failCbs'[s] = failCbs[s] + 1 /\ failCbs'[s] > 0
      BY <3>1, <1>1 DEF WriteTypes
    <3>3. WriteTypes'
      <4> HIDE DEF P
      <4> QED BY <3>1, <3>2, <1>5, <1>7 DEF WriteTypes
    <3>4. \A i \in e..(sent[s] - 1) : Stored(s, i)'
      BY <3>2 DEF Stored
    <3>5. writesLeft[s] = Cardinality(P) + failCbs'[s] /\ IsFiniteSet(P)
      <4> HIDE DEF P
      <4> QED BY <3>1, <3>2, <2>1, <1>1, <1>15, <1>16
    <3>6. doneCbs'[s] = IF batch[s] > 0 /\ writesLeft'[s] = 0 THEN 1 ELSE 0
      BY <3>1 DEF WritesFine
    <3> HIDE DEF P, e, f
    <3>7. WritesFine(s)'
      BY <3>1, <3>4, <3>5, <3>6, <1>5, <1>7, <1>11, <1>13, <1>14, <1>16, <1>17 DEF WritesFine, e, f
    <3> QED BY <3>3, <3>7, <1>10
  <2> QED BY <2>2, <2>3
<1> QED BY <1>18, <1>19

-----------------------------------------------------------------------------
(* The life cycle.                                                         *)

Closings == {"no", "sent", "dead", "answered"}

Handles == \A t \in Streams : HandleFine(t)

LEMMA CloseStreamFine ==
    ASSUME closing \in [Streams -> Closings], NEW s \in Streams, NEW h, CloseStream(s, h)
    PROVE  /\ closing' \in [Streams -> Closings]
           /\ \A t \in Streams \ {s} : closing'[t] = closing[t]
  BY DEF CloseStream, Closings

\* destroy() closes the handle and forgets it, unless it waits for 'open'.
LEMMA DestroysFine ==
    ASSUME StatesFine, Handles, step \in [Streams -> Steps], NEW s \in Streams, NEW o \in BOOLEAN,
           Destroys(s, o, handle[s]), UNCHANGED sent,
           \A t \in Streams \ {s} : step'[t] = step[t],
           \/ step'[s] = step[s] /\ o = opening[s]
           \/ step'[s] = "failed" /\ step[s] # "opened"
    PROVE  StatesFine' /\ Handles'
<1> USE DEF Closings
<1>1. /\ opening' \in [Streams -> BOOLEAN] /\ \A t \in Streams \ {s} : opening'[t] = opening[t]
      /\ \A t \in Streams \ {s} : /\ handle'[t] = handle[t] /\ closing'[t] = closing[t]
                                  /\ destroyed'[t] = destroyed[t]
  <2>1. CASE destroyed[s] \/ (o /\ ~handle[s])
    BY <2>1 DEF Destroys, StatesFine
  <2>2. CASE ~destroyed[s] /\ ~(o /\ ~handle[s])
    <3>1. CloseStream(s, handle[s])
      BY <2>2 DEF Destroys
    <3>2. \A t \in Streams \ {s} : closing'[t] = closing[t]
      BY <3>1, CloseStreamFine DEF StatesFine
    <3>3. opening' \in [Streams -> BOOLEAN] /\ \A t \in Streams \ {s} : opening'[t] = opening[t]
      BY <2>2 DEF Destroys, StatesFine
    <3>4. \A t \in Streams \ {s} : handle'[t] = handle[t] /\ destroyed'[t] = destroyed[t]
      BY <2>2 DEF Destroys, StatesFine
    <3> QED BY <3>2, <3>3, <3>4
  <2> QED BY <2>1, <2>2
<1>2. ASSUME NEW t \in Streams \ {s} PROVE HandleFine(t)'
  <2>1. HandleFine(t)
    BY DEF Handles
  <2> QED BY <2>1, <1>1 DEF HandleFine
<1>3. HandleFine(s)
  BY DEF Handles
<1>4. CASE destroyed[s]
  <2>1. /\ opening' = [opening EXCEPT ![s] = o]
        /\ UNCHANGED <<handle, destroyed, onOpen, closing>>
    BY <1>4 DEF Destroys
  <2>2. opening'[s] = o
    BY <2>1 DEF StatesFine
  <2>3. StatesFine'
    BY <2>1, <1>1 DEF StatesFine
  <2>4. HandleFine(s)'
    BY <2>1, <2>2, <1>3 DEF HandleFine
  <2> QED BY <2>3, <2>4, <1>2 DEF Handles
<1>5. CASE ~destroyed[s] /\ o /\ ~handle[s]
  <2>1. /\ destroyed' = [destroyed EXCEPT ![s] = TRUE] /\ onOpen' = [onOpen EXCEPT ![s] = TRUE]
        /\ UNCHANGED <<handle, opening, closing>>
    BY <1>5 DEF Destroys
  <2>2. StatesFine' /\ destroyed'[s]
    BY <2>1 DEF StatesFine
  <2>3. HandleFine(s)'
    BY <2>1, <2>2, <1>3, <1>5 DEF HandleFine
  <2> QED BY <2>2, <2>3, <1>2 DEF Handles
<1>6. CASE ~destroyed[s] /\ ~(o /\ ~handle[s])
  <2>1. /\ destroyed' = [destroyed EXCEPT ![s] = TRUE] /\ CloseStream(s, handle[s])
        /\ handle' = [handle EXCEPT ![s] = FALSE] /\ onOpen' = onOpen
        /\ opening' = [opening EXCEPT ![s] = FALSE]
    BY <1>6 DEF Destroys
  <2>2. closing' \in [Streams -> Closings] /\ \A t \in Streams \ {s} : closing'[t] = closing[t]
    BY <2>1, CloseStreamFine DEF StatesFine
  <2>3. StatesFine' /\ destroyed'[s] /\ ~handle'[s]
    BY <2>1, <2>2, <1>1 DEF StatesFine
  <2>4. step'[s] # "open"
    BY <1>3, <1>6 DEF HandleFine
  <2>5. HandleFine(s)'
    BY <2>3, <2>4 DEF HandleFine
  <2> QED BY <2>3, <2>5, <1>2 DEF Handles
<1> QED BY <1>4, <1>5, <1>6

\* The writes of the other streams do not change.
LEMMA OtherWrites ==
    ASSUME WritesAll, NEW s \in Streams, WriteTypes', PositionFine(s)', WritesFine(s)',
           UNCHANGED <<writer, append>>,
           \A t \in Streams \ {s} :
              /\ step'[t] = step[t] /\ pos'[t] = pos[t] /\ file'[t] = file[t]
              /\ pending'[t] = pending[t] /\ writesLeft'[t] = writesLeft[t]
              /\ batch'[t] = batch[t] /\ sent'[t] = sent[t] /\ doneCbs'[t] = doneCbs[t]
              /\ failCbs'[t] = failCbs[t] /\ early'[t] = early[t] /\ first'[t] = first[t]
    PROVE  WritesAll'
<1>1. ASSUME NEW t \in Streams \ {s} PROVE PositionFine(t)' /\ WritesFine(t)'
  <2>1. PositionFine(t) /\ WritesFine(t)
    BY DEF WritesAll
  <2> QED BY <2>1, WritesFrame
<1> QED BY <1>1 DEF WritesAll

\* A step that leaves the writes alone and does not open a stream.
LEMMA NoWrites ==
    ASSUME WritesAll, UNCHANGED <<writer, append, writing, position>>,
           \A t \in Streams : /\ step'[t] = "opened" <=> step[t] = "opened"
                              /\ writer[t] => pos'[t] = pos[t]
    PROVE  WritesAll'
<1>1. WriteTypes'
  BY DEF WritesAll, WriteTypes, writing, position
<1>2. ASSUME NEW t \in Streams PROVE PositionFine(t)' /\ WritesFine(t)'
  <2>1. PositionFine(t) /\ WritesFine(t)
    BY DEF WritesAll
  <2> QED BY <2>1, WritesFrame DEF writing, position
<1> QED BY <1>1, <1>2 DEF WritesAll

\* A stream that does not append knows from the start where its bytes go.
LEMMA FirstStays ==
    ASSUME NEW s \in Streams, FirstFine(s), append'[s] = append[s], file'[s] = file[s],
           early'[s] = early[s], first'[s] = first[s],
           (step'[s] = "opened" <=> step[s] = "opened") \/ ~append[s]
    PROVE  FirstFine(s)'
<1>1. \A i : Untouched(s, i)' <=> Untouched(s, i)
  BY DEF Untouched
<1> QED BY <1>1 DEF FirstFine

\* As many chunks as the bound allows are not more than its bytes.
LEMMA ChunksFit ==
    ASSUME NEW k \in Nat, k <= MaxWrites
    PROVE  k * ChunkLength \in Nat /\ k * ChunkLength <= MaxBytes
  BY Chunks, StreamsAssumption DEF MaxBytes

\* emit('open') at the position where the next byte goes.  Either all that was sent
\* is early, or nothing is found out about the position.
LEMMA OpenedFine ==
    ASSUME IInv, NEW s \in Streams, step[s] # "opened", NEW p, Opened(s, p),
           handle' \in [Streams -> BOOLEAN], handle[s] => handle'[s],
           early' \in [Streams -> Nat], first' \in [Streams -> Nat], early'[s] <= sent[s],
           \A t \in Streams \ {s} : /\ handle'[t] = handle[t] /\ early'[t] = early[t]
                                    /\ first'[t] = first[t],
           FirstFine(s)',
           p = IF writer[s] THEN first'[s] + (sent[s] - early'[s]) ELSE pos[s],
           \/ early'[s] = sent[s]
           \/ early'[s] = early[s] /\ first'[s] = first[s],
           UNCHANGED <<config, ended, reading>>
    PROVE  LifeFine' /\ Memory' /\ Partial' /\ WritesAll'
<1>1. Config /\ LifeFine /\ Memory /\ Partial /\ WriteTypes /\ PositionFine(s) /\ WritesFine(s)
  BY DEF IInv, WritesAll
<1>2. /\ pos \in [Streams -> Nat] /\ step \in [Streams -> Steps] /\ waiting \in [Streams -> Nat]
      /\ append \in [Streams -> BOOLEAN] /\ ended \in BOOLEAN /\ StatesFine
      /\ \A t \in Streams : HandleFine(t)
  BY <1>1 DEF Config, LifeFine
<1>3. UNCHANGED <<writer, append, hwm, end, ended, destroyed, file>>
  BY DEF Opened, config
<1>4. step' = [step EXCEPT ![s] = "opened"] /\ step'[s] = "opened"
      /\ \A t \in Streams \ {s} : step'[t] = step[t]
  BY <1>2 DEF Opened
<1>5. step' \in [Streams -> Steps]
  BY <1>2, <1>4 DEF Steps
<1>6. /\ sent[s] \in Nat /\ p \in Nat /\ early[s] = 0 /\ first[s] = 0 /\ sent \in [Streams -> Nat]
      /\ early'[s] \in Nat /\ first'[s] \in Nat
  BY <1>1, <1>2 DEF WriteTypes, PositionFine, FirstFine
<1>7. /\ opening' = [opening EXCEPT ![s] = FALSE] /\ onOpen' = [onOpen EXCEPT ![s] = FALSE]
      /\ closing' \in [Streams -> Closings] /\ \A t \in Streams \ {s} : closing'[t] = closing[t]
      /\ closing'[s] # "no" => destroyed[s]
  <2>1. CASE onOpen[s]
    <3>1. CloseStream(s, TRUE) /\ destroyed[s]
      BY <2>1, <1>2 DEF Opened, StatesFine
    <3> QED BY <3>1, <1>2, CloseStreamFine DEF Opened, StatesFine, Closings
  <2>2. CASE ~onOpen[s]
    BY <2>2, <1>2 DEF Opened, StatesFine, Closings
  <2> QED BY <2>1, <2>2
<1>8. StatesFine'
  BY <1>2, <1>3, <1>7 DEF StatesFine, Closings
<1>9. ASSUME NEW t \in Streams \ {s}, sent'[t] = sent[t] PROVE HandleFine(t)'
  BY <1>2, <1>3, <1>4, <1>7, <1>9 DEF HandleFine, StatesFine
<1>10. CASE waiting[s] > 0 /\ handle'[s]
  <2> DEFINE k == waiting[s]
  <2>1. SendWrites(s, k, p) /\ waiting' = [waiting EXCEPT ![s] = 0]
    BY <1>10 DEF Opened
  <2>2. k \in Nat \ {0} /\ k <= MaxWrites /\ writer[s] /\ sent[s] = 0
    BY <1>1, <1>2, <1>10 DEF LifeFine
  <2> HIDE DEF k
  <2>3. writesLeft[s] = 0 /\ early'[s] = 0 /\ sent[s] + k * ChunkLength <= MaxBytes
    <3>1. batch[s] <= sent[s] /\ writesLeft[s] <= batch[s] /\ batch[s] \in Nat /\ writesLeft[s] \in Nat
      BY <1>1 DEF WritesFine, WriteTypes
    <3>2. k * ChunkLength \in Nat /\ k * ChunkLength <= MaxBytes
      BY <2>2, ChunksFit
    <3> QED BY <3>1, <3>2, <2>2, <1>6
  <2>4. p = first'[s] + (sent[s] - early'[s])
    BY <2>2
  <2>5. \A i \in early'[s]..(sent[s] - 1) : file[s][first'[s] + (i - early'[s])] = i
    BY <2>2, <2>3
  <2>6. WriteTypes' /\ PositionFine(s)' /\ WritesFine(s)' /\ pos' \in [Streams -> Nat]
    BY <2>1, <2>2, <2>3, <2>4, <2>5, <1>1, <1>2, <1>3, SendWritesFine
  <2>7. \A t \in Streams \ {s} :
            /\ pos'[t] = pos[t]
            /\ pending'[t] = pending[t] /\ writesLeft'[t] = writesLeft[t]
            /\ batch'[t] = batch[t] /\ sent'[t] = sent[t] /\ doneCbs'[t] = doneCbs[t]
            /\ failCbs'[t] = failCbs[t]
    BY <2>1, <1>1, <1>2 DEF SendWrites, WriteTypes
  <2>8. WritesAll'
    BY <2>6, <2>7, <1>3, <1>4, OtherWrites DEF IInv
  <2>9. Memory' /\ Partial'
    <3>1. \A t \in Streams : ~writer[t] => pos'[t] = pos[t]
      BY <2>2, <2>7
    <3> QED BY <3>1, <1>1, <1>3, MemoryFrame, PartialFrame DEF reading
  <2>10. HandleFine(s)'
    BY <1>4, <1>10 DEF HandleFine
  <2>11. waiting' \in [Streams -> Nat] /\ waiting'[s] = 0
         /\ \A t \in Streams \ {s} : waiting'[t] = waiting[t]
    BY <2>1, <1>2
  <2>12. LifeFine'
    BY <2>6, <2>7, <2>10, <2>11, <1>1, <1>2, <1>3, <1>4, <1>5, <1>8, <1>9 DEF LifeFine
  <2> QED BY <2>8, <2>9, <2>12
<1>11. CASE ~(waiting[s] > 0 /\ handle'[s])
  <2>1. /\ pos' = [pos EXCEPT ![s] = p]
        /\ UNCHANGED <<waiting, pending, writesLeft, batch, sent, doneCbs, failCbs>>
    BY <1>11 DEF Opened
  <2>2. pos' \in [Streams -> Nat] /\ pos'[s] = p /\ \A t \in Streams \ {s} : pos'[t] = pos[t]
    BY <2>1, <1>2, <1>6
  <2>3. WriteTypes'
    BY <2>1, <1>1, <1>3 DEF WriteTypes
  <2>4. PositionFine(s)'
    <3>1. Untouched(s, FileSize + MaxBytes)' <=> Untouched(s, FileSize + MaxBytes)
      BY <1>3 DEF Untouched, Places
    <3> QED BY <3>1, <2>1, <2>2, <1>1, <1>3 DEF PositionFine
  <2>5. \A w \in pending[s] : w.pos = Place(s, w.data)' /\ (w.data < early'[s] => sent[s] = early'[s])
    <3> TAKE w \in pending[s]
    <3>1. w.data \in Nat /\ w.len \in Nat /\ w.len > 0 /\ w.data + w.len <= sent[s]
          /\ w.pos = Place(s, w.data)
      BY <1>1 DEF WritesFine, WriteTypes, Writes
    <3>2. w.data < sent[s] /\ w.pos = w.data
      BY <3>1, <1>6 DEF Place
    <3> QED BY <3>1, <3>2, <1>6 DEF Place
  <2>6. \A i \in early'[s]..(sent[s] - 1) : Stored(s, i)'
    <3>1. CASE early'[s] = sent[s]
      BY <3>1, <1>6
    <3>2. CASE early'[s] = early[s] /\ first'[s] = first[s]
      BY <3>2, <2>1, <1>1, <1>3 DEF WritesFine, Stored
    <3> QED BY <3>1, <3>2
  <2>7. WritesFine(s)'
    BY <2>1, <2>5, <2>6, <1>1, <1>3 DEF WritesFine, Places
  <2>8. WritesAll'
    BY <2>1, <2>2, <2>3, <2>4, <2>7, <1>3, <1>4, OtherWrites DEF IInv
  <2>9. Memory' /\ Partial'
    <3>1. \A t \in Streams : ~writer[t] => pos'[t] = pos[t]
      BY <2>2
    <3> QED BY <3>1, <1>1, <1>3, MemoryFrame, PartialFrame DEF reading
  <2>10. HandleFine(s)'
    BY <2>1, <1>2, <1>3, <1>4 DEF HandleFine
  <2>11. LifeFine'
    BY <2>1, <2>2, <2>10, <1>1, <1>2, <1>3, <1>4, <1>5, <1>8, <1>9 DEF LifeFine
  <2> QED BY <2>8, <2>9, <2>11
<1> QED BY <1>10, <1>11

\* A step of open() that neither opens the stream nor writes.
LEMMA StillOpening ==
    ASSUME IInv, NEW s \in Streams, step[s] # "opened", NEW to \in Steps \ {"opened"},
           to \in {"fstat", "stat"} => append[s], step' = [step EXCEPT ![s] = to],
           StatesFine', Handles', UNCHANGED <<config, ended, reading, position, pos, writing>>
    PROVE  LifeFine' /\ Memory' /\ Partial' /\ WritesAll'
<1>1. step \in [Streams -> Steps] /\ LifeFine /\ Memory /\ Partial /\ WritesAll
  BY DEF IInv, LifeFine
<1>2. /\ step' \in [Streams -> Steps] /\ step'[s] = to /\ to # "opened"
      /\ \A t \in Streams \ {s} : step'[t] = step[t]
  BY <1>1
<1>3. LifeFine'
  BY <1>1, <1>2 DEF LifeFine, Handles, config, writing
<1>4. Memory' /\ Partial'
  BY <1>1, MemoryFrame, PartialFrame DEF config, reading
<1>5. WritesAll'
  BY <1>1, <1>2, NoWrites DEF config
<1> QED BY <1>3, <1>4, <1>5

LEMMA AskFine ==
    ASSUME IInv, NEW s \in Streams, step[s] # "opened", NEW to \in Steps \ {"opened", "open"},
           to \in {"fstat", "stat"} => append[s], Ask(s, to), handle' \in [Streams -> BOOLEAN],
           handle[s] => handle'[s], closing[s] # "no" => ~handle'[s],
           \A t \in Streams \ {s} : handle'[t] = handle[t],
           UNCHANGED <<config, ended, reading, position>>
    PROVE  LifeFine' /\ Memory' /\ Partial' /\ WritesAll'
<1>1. /\ StatesFine /\ step \in [Streams -> Steps] /\ \A t \in Streams : HandleFine(t)
      /\ UNCHANGED <<destroyed, onOpen, closing, pos, writing>>
      /\ step' = [step EXCEPT ![s] = to] /\ opening' = [opening EXCEPT ![s] = FALSE]
  BY DEF IInv, LifeFine, Ask
<1>2. StatesFine'
  BY <1>1 DEF StatesFine
<1>3. step'[s] = to /\ \A t \in Streams \ {s} : step'[t] = step[t] /\ opening'[t] = opening[t]
  BY <1>1 DEF StatesFine
<1>4. Handles'
  <2>1. HandleFine(s)'
    BY <1>1, <1>3 DEF HandleFine, writing
  <2>2. ASSUME NEW t \in Streams \ {s} PROVE HandleFine(t)'
    BY <1>1, <1>3 DEF HandleFine, writing
  <2> QED BY <2>1, <2>2 DEF Handles
<1> QED BY <1>1, <1>2, <1>4, StillOpening

LEMMA NeverOpensFine ==
    ASSUME IInv, NEW s \in Streams, step[s] # "opened", NEW d, NeverOpens(s, d),
           UNCHANGED <<config, ended, reading, position>>
    PROVE  LifeFine' /\ Memory' /\ Partial' /\ WritesAll'
<1>1. StatesFine /\ step \in [Streams -> Steps] /\ Handles /\ \A t \in Streams : HandleFine(t)
  BY DEF IInv, LifeFine, Handles
<1>2. step' = [step EXCEPT ![s] = "failed"] /\ UNCHANGED <<pos, writing, sent>>
  BY DEF NeverOpens, writing
<1>3. step'[s] = "failed" /\ \A t \in Streams \ {s} : step'[t] = step[t]
  BY <1>1, <1>2
<1>4. StatesFine' /\ Handles'
  <2>1. CASE d
    <3>1. Destroys(s, FALSE, handle[s])
      BY <2>1 DEF NeverOpens
    <3> QED BY <3>1, <1>1, <1>2, <1>3, DestroysFine
  <2>2. CASE ~d
    <3>1. /\ opening' = [opening EXCEPT ![s] = FALSE]
          /\ UNCHANGED <<handle, destroyed, onOpen, closing>>
      BY <2>2 DEF NeverOpens
    <3>2. StatesFine' /\ \A t \in Streams \ {s} : opening'[t] = opening[t]
      BY <3>1, <1>1 DEF StatesFine
    <3>3. HandleFine(s)'
      BY <3>1, <1>1, <1>2, <1>3 DEF HandleFine
    <3>4. ASSUME NEW t \in Streams \ {s} PROVE HandleFine(t)'
      BY <3>1, <3>2, <1>1, <1>2, <1>3 DEF HandleFine
    <3> QED BY <3>2, <3>3, <3>4 DEF Handles
  <2> QED BY <2>1, <2>2
<1>5. "failed" \in Steps \ {"opened"} /\ ~("failed" \in {"fstat", "stat"})
  BY DEF Steps
<1> QED BY <1>2, <1>4, <1>5, StillOpening

-----------------------------------------------------------------------------
(* The invariant is inductive.                                             *)

\* A step that changes neither memory nor writes nor the request of open().
LEMMA OnlyStates ==
    ASSUME IInv, StatesFine', Handles', ended' \in BOOLEAN,
           UNCHANGED <<config, step, pos, reading, writing, position>>
    PROVE  IInv'
<1>1. Config' /\ LifeFine'
  BY DEF IInv, Config, LifeFine, Handles, config, writing
<1>2. Memory' /\ Partial'
  BY MemoryFrame, PartialFrame DEF IInv, config, reading
<1>3. WritesAll'
  BY NoWrites DEF IInv, config
<1> QED BY <1>1, <1>2, <1>3 DEF IInv

\* The states of all streams are as before.
LEMMA SameStates ==
    ASSUME StatesFine, Handles, UNCHANGED <<states, step, sent>>
    PROVE  StatesFine' /\ Handles'
<1>1. StatesFine'
  BY DEF StatesFine, states
<1>2. ASSUME NEW t \in Streams PROVE HandleFine(t)'
  BY DEF Handles, HandleFine, states
<1> QED BY <1>1, <1>2 DEF Handles

LEMMA OpenStep ==
    ASSUME IInv, NEW s \in Streams, NEW ok \in BOOLEAN,
           OpenAnswered(s, ok) \/ ModeAnswered(s, ok) \/ StatAnswered(s, ok)
    PROVE  IInv'
<1>1. /\ UNCHANGED <<config, ended, reading>> /\ Config /\ LifeFine
      /\ step[s] # "opened" /\ PositionFine(s) /\ FirstFine(s) /\ WriteTypes
  BY DEF OpenAnswered, ModeAnswered, StatAnswered, IInv, WritesAll, PositionFine
<1>2. /\ handle \in [Streams -> BOOLEAN] /\ append \in [Streams -> BOOLEAN]
      /\ writer \in [Streams -> BOOLEAN] /\ step \in [Streams -> Steps] /\ HandleFine(s)
  BY <1>1 DEF LifeFine, StatesFine, Config
<1>3. Config' /\ UNCHANGED append
  BY <1>1 DEF Config, config
<1>4. {"fchmod", "chmod", "fstat", "stat"} \subseteq Steps \ {"opened", "open"}
  BY DEF Steps
<1>5. /\ early[s] = 0 /\ first[s] = 0 /\ sent[s] \in Nat /\ early \in [Streams -> Nat]
      /\ first \in [Streams -> Nat] /\ (writer[s] => pos[s] = sent[s])
  BY <1>1 DEF PositionFine, FirstFine, WriteTypes
\* 'open' without an answer to fstat().
<1>6. ASSUME Opened(s, pos[s]), UNCHANGED position, ~append[s], handle' \in [Streams -> BOOLEAN],
             handle[s] => handle'[s], \A t \in Streams \ {s} : handle'[t] = handle[t]
      PROVE  LifeFine' /\ Memory' /\ Partial' /\ WritesAll'
  <2>1. UNCHANGED <<file, early, first>>
    BY <1>6 DEF Opened, position
  <2>2. FirstFine(s)'
    BY <2>1, <1>1, <1>3, <1>6, FirstStays
  <2>3. pos[s] = IF writer[s] THEN first'[s] + (sent[s] - early'[s]) ELSE pos[s]
    BY <2>1, <1>5
  <2>4. early'[s] <= sent[s]
    BY <2>1, <1>5
  <2> QED BY <2>1, <2>2, <2>3, <2>4, <1>1, <1>5, <1>6, OpenedFine
<1>7. LifeFine' /\ Memory' /\ Partial' /\ WritesAll'
  <2>1. CASE OpenAnswered(s, ok)
    <3>1. CASE ~ok
      BY <2>1, <3>1, <1>1, NeverOpensFine DEF OpenAnswered
    <3>2. CASE ok
      <4>1. /\ handle' = [handle EXCEPT ![s] = TRUE] /\ handle' \in [Streams -> BOOLEAN]
            /\ handle'[s] /\ \A t \in Streams \ {s} : handle'[t] = handle[t]
            /\ UNCHANGED position
        BY <2>1, <3>2, <1>2 DEF OpenAnswered
      <4>2. CASE writer[s]
        <5>1. Ask(s, "fchmod") /\ "fchmod" \in Steps \ {"opened", "open"} /\ "fchmod" \notin {"fstat", "stat"}
          BY <2>1, <3>2, <4>2, <1>4 DEF OpenAnswered
        <5>2. closing[s] = "no"
          BY <2>1, <1>2 DEF OpenAnswered, HandleFine
        <5> QED BY <5>1, <5>2, <4>1, <1>1, AskFine
      <4>3. CASE ~writer[s]
        <5>1. Opened(s, pos[s]) /\ ~append[s]
          BY <2>1, <3>2, <4>3, <1>1, <1>2 DEF OpenAnswered, Config
        <5> QED BY <5>1, <4>1, <1>6
      <4> QED BY <4>2, <4>3
    <3> QED BY <3>1, <3>2
  <2>2. CASE ModeAnswered(s, ok)
    <3>1. UNCHANGED <<handle, position>> /\ (closing[s] # "no" => ~handle[s])
      BY <2>2, <1>1, <1>2 DEF ModeAnswered, HandleFine
    <3>2. CASE step[s] = "fchmod" /\ ~ok
      <4>1. Ask(s, "chmod") /\ "chmod" \in Steps \ {"opened", "open"} /\ "chmod" \notin {"fstat", "stat"}
        BY <2>2, <3>2, <1>4 DEF ModeAnswered
      <4> QED BY <4>1, <3>1, <1>1, <1>2, AskFine
    <3>3. CASE ~(step[s] = "fchmod" /\ ~ok) /\ append[s]
      <4>1. Ask(s, "fstat") /\ "fstat" \in Steps \ {"opened", "open"}
        BY <2>2, <3>3, <1>4 DEF ModeAnswered
      <4> QED BY <4>1, <3>1, <3>3, <1>1, <1>2, AskFine
    <3>4. CASE ~(step[s] = "fchmod" /\ ~ok) /\ ~append[s]
      <4>1. Opened(s, pos[s])
        BY <2>2, <3>4 DEF ModeAnswered
      <4> QED BY <4>1, <3>1, <3>4, <1>2, <1>6
    <3> QED BY <3>2, <3>3, <3>4
  <2>3. CASE StatAnswered(s, ok)
    <3>1. append[s] /\ writer[s] /\ (closing[s] # "no" => ~handle[s])
      BY <2>3, <1>1, <1>2 DEF StatAnswered, LifeFine, Config, HandleFine
    <3>2. CASE ok
      <4>1. PICK size \in SizesTold(s) :
               /\ Opened(s, size)
               /\ early' = [early EXCEPT ![s] = sent[s]] /\ first' = [first EXCEPT ![s] = size]
        BY <2>3, <3>2 DEF StatAnswered
      <4>2. UNCHANGED <<handle, file>> /\ step'[s] = "opened"
        BY <2>3, <3>2, <4>1, <1>2 DEF StatAnswered, Opened
      <4>3. /\ early' \in [Streams -> Nat] /\ early'[s] = sent[s] /\ FileSize \in Nat /\ MaxBytes \in Nat
            /\ size \in Nat /\ size <= FileSize + sent[s] /\ (sent[s] = 0 => size = FileSize)
        <5>1. FileSize \in Nat /\ MaxBytes \in Nat
          BY StreamsAssumption, Chunks DEF MaxBytes
        <5>2. size = FileSize \/ size \in (FileSize + 1)..pos[s]
          BY DEF SizesTold
        <5>3. early' \in [Streams -> Nat] /\ early'[s] = sent[s]
          BY <4>1, <1>5
        <5> QED BY <5>1, <5>2, <5>3, <3>1, <1>5
      <4>4. /\ first' \in [Streams -> Nat] /\ first'[s] = size
            /\ \A t \in Streams \ {s} : early'[t] = early[t] /\ first'[t] = first[t]
        BY <4>1, <4>3, <1>5
      <4>5. sent[s] = 0 => Untouched(s, size)'
        <5>1. sent[s] = 0 => \A q \in Places : q < FileSize + MaxBytes => file[s][q] = -1
          BY <1>1 DEF PositionFine, Untouched
        <5>2. \A q \in Places : q < FileSize + MaxBytes
          BY <4>3 DEF Places
        <5>3. sent[s] = 0 => \A q \in Places : q < size => file'[s][q] = -1
          BY <5>1, <5>2, <4>2
        <5>4. size' = size
          OBVIOUS
        <5> QED BY <5>3 DEF Untouched, Places
      <4>6. FirstFine(s)'
        BY <4>2, <4>3, <4>4, <4>5, <3>1, <1>3 DEF FirstFine
      <4>7. size = IF writer[s] THEN first'[s] + (sent[s] - early'[s]) ELSE pos[s]
        BY <4>3, <4>4, <3>1, <1>5
      <4>8. early'[s] <= sent[s]
        BY <4>3, <1>5
      <4> QED BY <4>1, <4>2, <4>3, <4>4, <4>6, <4>7, <4>8, <1>1, <1>2, OpenedFine
    <3>3. CASE ~ok /\ step[s] = "fstat"
      <4>1. /\ Ask(s, "stat") /\ UNCHANGED <<handle, position>>
            /\ "stat" \in Steps \ {"opened", "open"}
        BY <2>3, <3>3, <1>4 DEF StatAnswered
      <4> QED BY <4>1, <3>1, <1>1, <1>2, AskFine
    <3>4. CASE ~ok /\ step[s] # "fstat"
      <4>1. NeverOpens(s, TRUE) /\ UNCHANGED position
        BY <2>3, <3>4 DEF StatAnswered
      <4> QED BY <4>1, <1>1, NeverOpensFine
    <3> QED BY <3>2, <3>3, <3>4
  <2> QED BY <2>1, <2>2, <2>3
<1> QED BY <1>3, <1>7 DEF IInv

LEMMA CloseStep ==
    ASSUME IInv, NEW s \in Streams, Destroy(s) \/ CloseAnswered(s)
    PROVE  IInv'
<1>1. StatesFine /\ Handles /\ ended \in BOOLEAN /\ step \in [Streams -> Steps]
  BY DEF IInv, LifeFine, Handles
<1>2. CASE Destroy(s)
  <2>1. Destroys(s, opening[s], handle[s]) /\ UNCHANGED <<step, sent>> /\ opening[s] \in BOOLEAN
    BY <1>1, <1>2 DEF Destroy, writing, StatesFine
  <2>2. StatesFine' /\ Handles'
    BY <2>1, <1>1, DestroysFine
  <2> QED BY <2>2, <1>1, <1>2, OnlyStates DEF Destroy
<1>3. CASE CloseAnswered(s)
  <2>1. /\ closing[s] = "sent" /\ closing' = [closing EXCEPT ![s] = "answered"]
        /\ UNCHANGED <<opening, handle, destroyed, onOpen, step, sent>>
    BY <1>3 DEF CloseAnswered, writing
  <2>2. destroyed[s] /\ closing'[s] = "answered" /\ \A t \in Streams \ {s} : closing'[t] = closing[t]
    BY <2>1, <1>1 DEF StatesFine
  <2>3. StatesFine'
    BY <2>1, <2>2, <1>1 DEF StatesFine
  <2>4. ASSUME NEW t \in Streams PROVE HandleFine(t)'
    BY <2>1, <2>2, <1>1 DEF HandleFine, Handles
  <2>5. Handles'
    BY <2>4 DEF Handles
  <2> QED BY <2>3, <2>5, <1>1, <1>3, OnlyStates DEF CloseAnswered
<1> QED BY <1>2, <1>3

LEMMA ReadStep ==
    ASSUME IInv, NEW s \in Streams,
           \/ Read(s) \/ ReadFails(s)
           \/ \E n \in 0..MaxHwm : ReadAnswered(s, n)
    PROVE  IInv'
<1>1. /\ Config /\ LifeFine /\ Memory /\ Partial /\ WritesAll /\ StatesFine /\ Handles
      /\ step \in [Streams -> Steps] /\ read \in [Streams -> Reservations]
      /\ \A t \in Streams : HandleFine(t)
  BY DEF IInv, LifeFine, Handles, Memory, Within
\* A read that begins, or ends without an answer, has got nothing.
<1>2. ASSUME UNCHANGED <<writer, mem, pos>>, Memory',
             \A t \in Streams : read'[t] = read[t] \/ read'[t].nb = 0
      PROVE  Partial'
  <2>1. ASSUME NEW t \in Streams, read'[t] = read[t]
        PROVE  read'[t].nb <= read'[t].toRead /\ (~writer'[t] => Got(t)')
    BY <2>1, <1>1, <1>2 DEF Partial, Got, At
  <2>2. ASSUME NEW t \in Streams, read'[t].nb = 0
        PROVE  read'[t].nb <= read'[t].toRead /\ (~writer'[t] => Got(t)')
    <3>1. read'[t].toRead \in Nat
      BY <1>2 DEF Memory, Within, Reservations
    <3> QED BY <3>1, <2>2 DEF Got
  <2> QED BY <2>1, <2>2, <1>2 DEF Partial
<1>3. CASE Read(s)
  <2>1. UNCHANGED <<config, ended, life, pos, writing, position, mem>>
    BY <1>3 DEF Read
  <2>2. Config' /\ StatesFine' /\ Handles'
    BY <2>1, <1>1, SameStates DEF Config, config, life, writing
  <2>3. LifeFine'
    BY <2>1, <2>2, <1>1 DEF LifeFine, Handles, config, life, writing
  <2>4. WritesAll'
    BY <2>1, <1>1, NoWrites DEF config, life
  <2>5. Memory'
    BY <1>1, <1>3, ReadKeepsMemory
  <2>6. \A t \in Streams : read'[t] = read[t] \/ read'[t].nb = 0
    <3>1. PICK p : ReadsWith(s, p)
      BY <1>3 DEF Read
    <3> QED BY <3>1, <1>1 DEF ReadsWith
  <2>7. Partial'
    BY <2>1, <2>5, <2>6, <1>2 DEF config
  <2> QED BY <2>2, <2>3, <2>4, <2>5, <2>7 DEF IInv
<1>4. CASE ReadFails(s)
  <2>1. /\ UNCHANGED <<config, ended, step, pos, writing, position, pool, poolFragments, allocated,
                       mem, delivered, sent>>
        /\ read' = [read EXCEPT ![s] = NoRead]
    BY <1>4 DEF ReadFails, writing
  <2>2. StatesFine' /\ Handles'
    <3>1. CASE autoClose
      <4>1. Destroys(s, opening[s], handle[s]) /\ opening[s] \in BOOLEAN
        BY <3>1, <1>1, <1>4 DEF ReadFails, StatesFine
      <4> QED BY <4>1, <2>1, <1>1, DestroysFine
    <3>2. CASE ~autoClose
      BY <3>2, <2>1, <1>1, <1>4, SameStates DEF ReadFails
    <3> QED BY <3>1, <3>2
  <2>3. Config' /\ LifeFine'
    BY <2>1, <2>2, <1>1 DEF Config, LifeFine, Handles, config, writing
  <2>4. Memory'
    BY <2>1, <1>1, DropsReservation DEF Config, LifeFine, config
  <2>5. WritesAll'
    BY <2>1, <1>1, NoWrites DEF config
  <2>6. \A t \in Streams : read'[t] = read[t] \/ read'[t].nb = 0
    BY <2>1, <1>1, NoReadFacts
  <2>7. Partial'
    BY <2>1, <2>4, <2>6, <1>2 DEF config
  <2> QED BY <2>3, <2>4, <2>5, <2>7 DEF IInv
<1>5. CASE \E n \in 0..MaxHwm : ReadAnswered(s, n)
  <2>1. PICK n \in 0..MaxHwm : ReadAnswered(s, n)
    BY <1>5
  <2>2. UNCHANGED <<config, ended, life, writing, position, step>> /\ read[s] # NoRead
    BY <2>1 DEF ReadAnswered, life
  <2>3. ~writer[s] /\ pos \in [Streams -> Nat] /\ n \in Nat /\ read[s].nb \in Nat
    BY <2>2, <1>1, Marks DEF Memory, Data, LifeFine, Reservations
  <2>4. pos' \in [Streams -> Nat] /\ \A t \in Streams : writer[t] => pos'[t] = pos[t]
    <3>1. CASE GoesOn(s, n)
      BY <3>1, <2>3 DEF GoesOn
    <3>2. CASE Finished(s, read[s].nb + n)
      BY <3>2, <2>3 DEF Finished
    <3> QED BY <3>1, <3>2, <2>1 DEF ReadAnswered
  <2>5. StatesFine' /\ Handles'
    BY <2>2, <1>1, SameStates DEF life, writing
  <2>6. Config' /\ LifeFine'
    BY <2>2, <2>4, <2>5, <1>1 DEF Config, LifeFine, Handles, config, writing
  <2>7. WritesAll'
    BY <2>2, <2>4, <1>1, NoWrites DEF config
  <2>8. Memory' /\ Partial'
    BY <2>1, <1>1, ReadAnsweredKeepsMemory
  <2> QED BY <2>6, <2>7, <2>8 DEF IInv
<1> QED BY <1>3, <1>4, <1>5

LEMMA WriteStep ==
    ASSUME IInv, NEW s \in Streams, NEW k \in 1..MaxWrites, Write(s, k)
    PROVE  IInv'
<1>1. /\ Config /\ LifeFine /\ Memory /\ Partial /\ WritesAll /\ StatesFine /\ Handles
      /\ WriteTypes /\ PositionFine(s) /\ FirstFine(s) /\ WritesFine(s)
      /\ \A t \in Streams : HandleFine(t)
  BY DEF IInv, LifeFine, Handles, WritesAll, PositionFine
<1>2. /\ UNCHANGED <<config, ended, life, reading, file, position>> /\ writer[s] /\ ~destroyed[s]
      /\ waiting[s] = 0 /\ sent[s] + k * ChunkLength <= MaxBytes /\ k \in Nat \ {0} /\ k <= MaxWrites
      /\ (doneCbs[s] = 1 \/ batch[s] = 0) /\ failCbs[s] = 0
  BY StreamsAssumption DEF Write
<1>3. Config'
  BY <1>1, <1>2 DEF Config, config
<1>4. /\ pos \in [Streams -> Nat] /\ ended \in BOOLEAN /\ append \in [Streams -> BOOLEAN]
      /\ waiting \in [Streams -> Nat] /\ sent \in [Streams -> Nat]
      /\ UNCHANGED <<writer, append, step, ended, states, handle, destroyed, opening, closing, early, first>>
      /\ StatesFine'
  BY <1>1, <1>2 DEF Config, LifeFine, WriteTypes, config, life, states, position, StatesFine
<1>5. CASE handle[s]
  <2>1. SendWrites(s, k, pos[s]) /\ waiting' = waiting
    BY <1>5 DEF Write
  <2>2. writesLeft[s] = 0
    <3>1. writesLeft[s] \in Nat /\ batch[s] \in Nat /\ writesLeft[s] <= batch[s]
      BY <1>1 DEF WriteTypes, WritesFine
    <3>2. doneCbs[s] = 1 => writesLeft[s] = 0
      BY <1>1 DEF WritesFine
    <3> QED BY <3>1, <3>2, <1>2
  <2>3. /\ FirstFine(s)' /\ early' \in [Streams -> Nat] /\ first' \in [Streams -> Nat]
        /\ early'[s] <= sent[s] /\ pos[s] = first'[s] + (sent[s] - early'[s])
        /\ \A i \in early'[s]..(sent[s] - 1) : file[s][first'[s] + (i - early'[s])] = i
    <3>1. FirstFine(s)'
      BY <1>1, <1>2, <1>4, FirstStays
    <3>2. \A i \in early[s]..(sent[s] - 1) : file[s][first[s] + (i - early[s])] = i
      BY <2>2, <1>1, AllStored
    <3> QED BY <3>1, <3>2, <1>1, <1>2, <1>4 DEF WriteTypes, PositionFine
  <2>4. WriteTypes' /\ PositionFine(s)' /\ WritesFine(s)' /\ pos' \in [Streams -> Nat]
    BY <2>1, <2>2, <2>3, <1>1, <1>2, <1>4, SendWritesFine
  <2>5. \A t \in Streams \ {s} :
            /\ pos'[t] = pos[t]
            /\ pending'[t] = pending[t] /\ writesLeft'[t] = writesLeft[t]
            /\ batch'[t] = batch[t] /\ sent'[t] = sent[t] /\ doneCbs'[t] = doneCbs[t]
            /\ failCbs'[t] = failCbs[t]
    BY <2>1, <1>1, <1>4 DEF SendWrites, WriteTypes
  <2>6. WritesAll'
    BY <2>4, <2>5, <1>1, <1>2, <1>4, OtherWrites
  <2>7. Memory' /\ Partial'
    <3>1. \A t \in Streams : ~writer[t] => pos'[t] = pos[t]
      BY <2>5, <1>2
    <3> QED BY <3>1, <1>1, <1>2, MemoryFrame, PartialFrame DEF config, reading
  <2>8. ASSUME NEW t \in Streams PROVE HandleFine(t)'
    <3>1. CASE t = s
      BY <3>1, <1>1, <1>4, <1>5 DEF HandleFine
    <3>2. CASE t # s
      BY <3>2, <2>5, <1>1, <1>4 DEF HandleFine
    <3> QED BY <3>1, <3>2
  <2>9. LifeFine'
    <3>1. \A t \in Streams : waiting'[t] > 0 => writer'[t] /\ sent'[t] = 0 /\ waiting'[t] <= MaxWrites
      BY <2>1, <2>5, <1>1, <1>2, <1>4 DEF LifeFine
    <3> QED BY <3>1, <2>1, <2>4, <2>8, <1>1, <1>4 DEF LifeFine
  <2> QED BY <2>6, <2>7, <2>9, <1>3 DEF IInv
<1>6. CASE ~handle[s]
  <2>1. /\ waiting' = [waiting EXCEPT ![s] = k]
        /\ UNCHANGED <<pos, pending, writesLeft, batch, sent, doneCbs, failCbs>>
    BY <1>6 DEF Write
  <2>2. sent[s] = 0
    BY <1>1, <1>2, <1>4, <1>6 DEF HandleFine
  <2>3. Handles'
    BY <2>1, <1>1, <1>4, SameStates
  <2>4. LifeFine'
    <3>1. waiting' \in [Streams -> Nat] /\ waiting'[s] = k
          /\ \A t \in Streams \ {s} : waiting'[t] = waiting[t]
      BY <2>1, <1>2, <1>4
    <3>2. \A t \in Streams : waiting'[t] > 0 => writer'[t] /\ sent'[t] = 0 /\ waiting'[t] <= MaxWrites
      BY <3>1, <2>1, <2>2, <1>1, <1>2, <1>4 DEF LifeFine
    <3> QED BY <3>1, <3>2, <2>1, <2>3, <1>1, <1>4 DEF LifeFine, Handles
  <2>5. Memory' /\ Partial'
    BY <2>1, <1>1, <1>2, MemoryFrame, PartialFrame DEF config, reading
  <2>6. WritesAll'
    <3>1. WriteTypes'
      BY <2>1, <1>1, <1>2, <1>4 DEF WriteTypes
    <3>2. ASSUME NEW t \in Streams PROVE PositionFine(t)' /\ WritesFine(t)'
      <4>1. PositionFine(t) /\ WritesFine(t)
        BY <1>1 DEF WritesAll
      <4> QED BY <4>1, <2>1, <1>2, <1>4, WritesFrame
    <3> QED BY <3>1, <3>2 DEF WritesAll
  <2> QED BY <2>4, <2>5, <2>6, <1>3 DEF IInv
<1> QED BY <1>5, <1>6

LEMMA WriteAnsweredStep ==
    ASSUME IInv, NEW s \in Streams, NEW w \in pending[s], NEW ok \in BOOLEAN, WriteAnswered(s, w, ok)
    PROVE  IInv'
<1>1. /\ Config /\ LifeFine /\ Memory /\ Partial /\ WritesAll /\ StatesFine /\ Handles
      /\ WriteTypes /\ PositionFine(s) /\ WritesFine(s) /\ step \in [Streams -> Steps]
  BY DEF IInv, LifeFine, Handles, WritesAll
<1>2. UNCHANGED <<config, ended, step, pos, reading, waiting, batch, sent, early, first>>
  BY DEF WriteAnswered, position
<1>3. WriteTypes' /\ PositionFine(s)' /\ WritesFine(s)'
  BY <1>1, WriteAnsweredFine DEF Config, LifeFine
<1>4. /\ \A t \in Streams \ {s} :
            /\ file'[t] = file[t] /\ pending'[t] = pending[t] /\ writesLeft'[t] = writesLeft[t]
            /\ doneCbs'[t] = doneCbs[t] /\ failCbs'[t] = failCbs[t]
      /\ UNCHANGED states \/ Destroys(s, opening[s], handle[s])
  <2>1. CASE ok /\ w.len > MaxDataLen
    BY <2>1, <1>1 DEF WriteAnswered, WriteTypes
  <2>2. CASE ~(ok /\ w.len > MaxDataLen)
    BY <2>2, <1>1 DEF WriteAnswered, OnWrite, WriteTypes
  <2> QED BY <2>1, <2>2
<1>5. WritesAll'
  BY <1>1, <1>2, <1>3, <1>4, OtherWrites DEF config
<1>6. StatesFine' /\ Handles'
  <2>1. CASE UNCHANGED states
    BY <2>1, <1>1, <1>2, SameStates
  <2>2. CASE Destroys(s, opening[s], handle[s])
    <3>1. opening[s] \in BOOLEAN
      BY <1>1 DEF StatesFine
    <3> QED BY <3>1, <2>2, <1>1, <1>2, DestroysFine
  <2> QED BY <2>1, <2>2, <1>4
<1>7. Config' /\ LifeFine'
  BY <1>1, <1>2, <1>6 DEF Config, LifeFine, Handles, config
<1>8. Memory' /\ Partial'
  BY <1>1, <1>2, MemoryFrame, PartialFrame DEF config, reading
<1> QED BY <1>5, <1>7, <1>8 DEF IInv

LEMMA InitMemory ==
    ASSUME Config, pool = NoPool, poolFragments = <<>>, allocated = 0, read = Each(NoRead),
           mem = [a \in 0..(MaxPools * MaxHwm - 1) |-> Blank], delivered = {}, pos = Each(0)
    PROVE  Memory
<1> USE NoReadFacts
<1>1. Lim = 0 /\ Len(poolFragments) = 0
  BY Marks DEF Lim
<1>2. pool \in Pools /\ pool.base = 0 /\ pool.length = 0 /\ pool.used = 0
  BY DEF NoPool, Pools
<1>3. \A s \in Streams : read[s] = NoRead /\ At(s) = 0 /\ pos[s] = 0
  BY DEF At, Each
<1>4. Within
  <2>1. poolFragments \in Seq(Pools) /\ allocated \in 0..MaxPools
    BY StreamsAssumption
  <2>2. read \in [Streams -> Reservations]
    BY DEF Each
  <2>3. \A s \in Streams : /\ read[s].start + read[s].toRead <= read[s].length
                           /\ At(s) + read[s].toRead <= Lim
    BY <1>1, <1>3
  <2>4. DOMAIN mem = 0..(MaxPools * MaxHwm - 1)
    OBVIOUS
  <2> QED BY <2>1, <2>2, <2>3, <2>4, <1>1, <1>2 DEF Within
<1>5. ReservedApart
  BY <1>1, <1>3 DEF ReservedApart, Apart
<1>6. FreeApart /\ OthersApart
  BY <1>1 DEF FreeApart, OthersApart
<1>7. Data
  <2>1. \A s \in Streams : Covered(s)
    BY <1>3 DEF Covered, Config
  <2> QED BY <2>1, <1>3 DEF Data
<1> QED BY <1>4, <1>5, <1>6, <1>7 DEF Memory

LEMMA InitInvariant == Init => IInv
<1> SUFFICES ASSUME Init PROVE IInv
  OBVIOUS
<1>1. PICK w \in BOOLEAN :
         /\ writer = Each(w)
         /\ \A s \in Streams : /\ step[s] \in {"open", "failed"} /\ destroyed[s] \in BOOLEAN
                               /\ opening[s] \in BOOLEAN /\ (step[s] = "open" => opening[s])
         /\ DOMAIN step = Streams /\ DOMAIN destroyed = Streams /\ DOMAIN opening = Streams
         /\ step = [s \in Streams |-> step[s]] /\ destroyed = [s \in Streams |-> destroyed[s]]
         /\ opening = [s \in Streams |-> opening[s]]
         /\ append \in IF w THEN {Each(FALSE), Each(TRUE)} ELSE {Each(FALSE)}
         /\ hwm \in IF w THEN {Each(MaxHwm)} ELSE [Streams -> HighWaterMarks]
         /\ end \in IF w THEN {Each(0)} ELSE [Streams -> Ends]
  BY DEF Init
<1>2. Config
  <2>1. writer \in [Streams -> BOOLEAN] /\ append \in [Streams -> BOOLEAN]
        /\ \A s \in Streams : append[s] => writer[s]
    BY <1>1 DEF Each
  <2>2. hwm \in [Streams -> Nat] /\ \A s \in Streams : hwm[s] <= MaxHwm
    BY <1>1, Marks DEF Each
  <2>3. end \in [Streams -> Nat]
    BY <1>1, StreamsAssumption DEF Each
  <2> QED BY <2>1, <2>2, <2>3 DEF Config
<1>3. /\ handle = Each(FALSE) /\ onOpen = Each(FALSE) /\ closing = Each("no") /\ pos = Each(0)
      /\ waiting = Each(0) /\ ended = FALSE /\ early = Each(0) /\ first = Each(0)
      /\ pending = Each({}) /\ writesLeft = Each(0) /\ batch = Each(0) /\ sent = Each(0)
      /\ file = Each([p \in Places |-> -1]) /\ read = Each(NoRead)
      /\ doneCbs = Each(0) /\ failCbs = Each(0)
  BY DEF Init, Places
<1>4. LifeFine
  <2>1. /\ step \in [Streams -> Steps] /\ destroyed \in [Streams -> BOOLEAN]
        /\ opening \in [Streams -> BOOLEAN]
    <3>1. \A s \in Streams : step[s] \in Steps
      BY <1>1 DEF Steps
    <3> QED BY <3>1, <1>1
  <2>2. \A s \in Streams : HandleFine(s)
    BY <1>1, <1>3 DEF HandleFine, Each
  <2>3. StatesFine
    <3>1. /\ handle \in [Streams -> BOOLEAN] /\ onOpen \in [Streams -> BOOLEAN]
          /\ closing \in [Streams -> {"no", "sent", "dead", "answered"}]
          /\ \A s \in Streams : ~onOpen[s] /\ closing[s] = "no"
      BY <1>3 DEF Each
    <3> QED BY <3>1, <2>1 DEF StatesFine
  <2>4. /\ pos \in [Streams -> Nat] /\ waiting \in [Streams -> Nat] /\ ended \in BOOLEAN
        /\ \A s \in Streams : waiting[s] = 0
    BY <1>3 DEF Each
  <2>5. \A s \in Streams : ~(step[s] \in {"fstat", "stat"})
    BY <1>1
  <2> QED BY <2>1, <2>2, <2>3, <2>4, <2>5 DEF LifeFine
<1>5. Memory
  BY <1>2, InitMemory DEF Init
<1>6. Partial
  BY <1>3, NoReadFacts DEF Partial, Got, Each
<1>7. WriteTypes
  BY <1>3 DEF WriteTypes, Each
<1>8. ASSUME NEW s \in Streams PROVE PositionFine(s) /\ WritesFine(s)
  <2>1. step[s] # "opened"
    BY <1>1
  <2>2. /\ pos[s] = 0 /\ pending[s] = {} /\ writesLeft[s] = 0 /\ batch[s] = 0 /\ sent[s] = 0
        /\ doneCbs[s] = 0 /\ failCbs[s] = 0 /\ DOMAIN file[s] = Places
        /\ early[s] = 0 /\ first[s] = 0
    BY <1>3 DEF Each
  <2>3. FileSize \in Nat /\ MaxBytes \in Nat
    BY StreamsAssumption, Chunks DEF MaxBytes
  <2>4. \A n : Untouched(s, n)
    BY <1>3 DEF Untouched, Each
  <2>5. PositionFine(s)
    BY <2>1, <2>2, <2>3, <2>4 DEF PositionFine, FirstFine
  <2>6. WritesFine(s)
    BY <2>2, <2>3, FS_EmptySet DEF WritesFine
  <2> QED BY <2>5, <2>6
<1> QED BY <1>2, <1>4, <1>5, <1>6, <1>7, <1>8 DEF IInv, WritesAll

LEMMA NextInvariant == IInv /\ [Next]_vars => IInv'
<1> SUFFICES ASSUME IInv, [Next]_vars PROVE IInv'
  OBVIOUS
<1>1. StatesFine /\ Handles /\ ended \in BOOLEAN
  BY DEF IInv, LifeFine, Handles
<1>2. CASE UNCHANGED vars
  <2>1. StatesFine' /\ Handles' /\ ended' \in BOOLEAN
    BY <1>1, <1>2, SameStates DEF vars, life, writing
  <2> QED BY <2>1, <1>2, OnlyStates DEF vars, life
<1>3. CASE SessionEnd
  <2>1. StatesFine' /\ Handles' /\ ended' \in BOOLEAN
    BY <1>1, <1>3, SameStates DEF SessionEnd, life, writing
  <2> QED BY <2>1, <1>3, OnlyStates DEF SessionEnd, life
<1>4. ASSUME NEW s \in Streams, Answers(s) \/ Destroy(s) \/ Read(s) PROVE IInv'
  BY <1>4, OpenStep, CloseStep, ReadStep, WriteAnsweredStep DEF Answers
<1>5. ASSUME NEW s \in Streams, NEW k \in 1..MaxWrites, Write(s, k) PROVE IInv'
  BY <1>5, WriteStep
<1> QED BY <1>2, <1>3, <1>4, <1>5 DEF Next

\* What the properties follow from, in every reachable state.
LEMMA Invariant == Spec => []IInv
  BY InitInvariant, NextInvariant, PTL DEF Spec

-----------------------------------------------------------------------------
(* What follows from it.                                                   *)

LEMMA InvariantTypes == IInv => TypeOK
<1> SUFFICES ASSUME IInv PROVE TypeOK
  OBVIOUS
<1>1. Within /\ LifeFine /\ WritesAll /\ Partial
  BY DEF IInv, Memory
<1>2. ASSUME NEW s \in Streams
      PROVE  writesLeft[s] \in 0..batch[s] /\ waiting[s] \in 0..MaxWrites /\ early[s] <= sent[s]
  <2>1. writesLeft[s] \in 0..batch[s] /\ early[s] <= sent[s]
    BY <1>1 DEF WritesAll, WriteTypes, WritesFine, PositionFine
  <2>2. waiting[s] \in 0..MaxWrites
    BY <1>1, StreamsAssumption DEF LifeFine
  <2> QED BY <2>1, <2>2
<1>3. \A s \in Streams : step[s] \in Steps /\ closing[s] \in {"no", "sent", "dead", "answered"}
  BY <1>1 DEF LifeFine, StatesFine
<1>4. pool.used >= 0
  BY <1>1, PieceTypes
<1>5. DOMAIN poolFragments = 1..Len(poolFragments)
  BY <1>1 DEF Within
<1>6. \A s \in Streams : /\ read[s].start + read[s].toRead <= read[s].length
                         /\ read[s].nb <= read[s].toRead
  BY <1>1 DEF Within, Partial
<1>7. \A i \in DOMAIN poolFragments : /\ poolFragments[i].length >= kMinPoolSpace
                                       /\ poolFragments[i].length % Align = 0
  BY <1>1, <1>5 DEF Within
<1> QED BY <1>2, <1>3, <1>4, <1>6, <1>7 DEF TypeOK, Steps

LEMMA InvariantRegions == IInv => RegionsDisjoint
<1> SUFFICES ASSUME IInv PROVE RegionsDisjoint
  OBVIOUS
<1> DEFINE Res == {<<"reserved", s, Span(read[s].base + read[s].start, read[s].toRead)>> : s \in Streams}
           Fre == {<<"free", pool.base, Span(pool.base + pool.used, pool.length - pool.used)>>}
           Fra == {<<"fragment", i, Span(poolFragments[i].base, poolFragments[i].length)>> :
                      i \in DOMAIN poolFragments}
           Giv == {<<"given", d, Span(d.addr, d.length)>> : d \in delivered}
<1>1. Memory /\ Within /\ TypeOK
  BY InvariantTypes DEF IInv, Memory
<1>2. DOMAIN poolFragments = 1..Len(poolFragments)
  BY <1>1 DEF Within
<1>3. /\ FreeAt \in Int /\ FreeLength \in Int
      /\ \A s \in Streams : At(s) \in Int /\ read[s].toRead \in Int
      /\ \A i \in DOMAIN poolFragments : poolFragments[i].base \in Int /\ poolFragments[i].length \in Int
      /\ \A d \in delivered : d.addr \in Int /\ d.length \in Int
  BY <1>1, <1>2, PieceTypes
<1>4. \A b \in Res : \E s \in Streams : b[2] = s /\ b[3] = Span(At(s), read[s].toRead)
                                        /\ b = <<"reserved", s, b[3]>>
  BY DEF At
<1>5. \A b \in Fre : b[3] = Span(FreeAt, FreeLength) /\ b = <<"free", pool.base, b[3]>>
  BY DEF FreeAt, FreeLength
<1>6. \A b \in Fra : \E i \in DOMAIN poolFragments :
         b[2] = i /\ b[3] = Span(poolFragments[i].base, poolFragments[i].length)
         /\ b = <<"fragment", i, b[3]>>
  OBVIOUS
<1>7. \A b \in Giv : \E d \in delivered : b[2] = d /\ b[3] = Span(d.addr, d.length)
                                          /\ b = <<"given", d, b[3]>>
  OBVIOUS
<1> HIDE DEF Res, Fre, Fra, Giv
<1>8. \A b, c \in Res : b # c => b[3] \cap c[3] = {}
  <2> TAKE b, c \in Res
  <2> HAVE b # c
  <2>1. PICK s \in Streams : b[3] = Span(At(s), read[s].toRead) /\ b = <<"reserved", s, b[3]>>
    BY <1>4
  <2>2. PICK t \in Streams : c[3] = Span(At(t), read[t].toRead) /\ c = <<"reserved", t, c[3]>>
    BY <1>4
  <2>3. s # t
    BY <2>1, <2>2
  <2>4. Apart(At(s), read[s].toRead, At(t), read[t].toRead)
    BY <2>3, <1>1 DEF Memory, ReservedApart
  <2> QED BY <2>1, <2>2, <2>4, <1>3, ApartSpans
<1>9. \A b \in Res, c \in Fre : b[3] \cap c[3] = {}
  <2> TAKE b \in Res, c \in Fre
  <2>1. PICK s \in Streams : b[3] = Span(At(s), read[s].toRead)
    BY <1>4
  <2>2. Apart(At(s), read[s].toRead, FreeAt, FreeLength)
    BY <1>1 DEF Memory, ReservedApart
  <2> QED BY <2>1, <2>2, <1>3, <1>5, ApartSpans
<1>10. \A b \in Res, c \in Fra : b[3] \cap c[3] = {}
  <2> TAKE b \in Res, c \in Fra
  <2>1. PICK s \in Streams : b[3] = Span(At(s), read[s].toRead)
    BY <1>4
  <2>2. PICK i \in DOMAIN poolFragments : c[3] = Span(poolFragments[i].base, poolFragments[i].length)
    BY <1>6
  <2>3. Apart(At(s), read[s].toRead, poolFragments[i].base, poolFragments[i].length)
    BY <1>1, <1>2 DEF Memory, ReservedApart
  <2> QED BY <2>1, <2>2, <2>3, <1>3, ApartSpans
<1>11. \A b \in Res, c \in Giv : b[3] \cap c[3] = {}
  <2> TAKE b \in Res, c \in Giv
  <2>1. PICK s \in Streams : b[3] = Span(At(s), read[s].toRead)
    BY <1>4
  <2>2. PICK d \in delivered : c[3] = Span(d.addr, d.length)
    BY <1>7
  <2>3. Apart(At(s), read[s].toRead, d.addr, d.length)
    BY <1>1 DEF Memory, ReservedApart
  <2> QED BY <2>1, <2>2, <2>3, <1>3, ApartSpans
<1>12. \A b \in Fre, c \in Fra : b[3] \cap c[3] = {}
  <2> TAKE b \in Fre, c \in Fra
  <2>1. PICK i \in DOMAIN poolFragments : c[3] = Span(poolFragments[i].base, poolFragments[i].length)
    BY <1>6
  <2>2. Apart(FreeAt, FreeLength, poolFragments[i].base, poolFragments[i].length)
    BY <1>1, <1>2 DEF Memory, FreeApart
  <2> QED BY <2>1, <2>2, <1>3, <1>5, ApartSpans
<1>13. \A b \in Fre, c \in Giv : b[3] \cap c[3] = {}
  <2> TAKE b \in Fre, c \in Giv
  <2>1. PICK d \in delivered : c[3] = Span(d.addr, d.length)
    BY <1>7
  <2>2. Apart(FreeAt, FreeLength, d.addr, d.length)
    BY <1>1 DEF Memory, FreeApart
  <2> QED BY <2>1, <2>2, <1>3, <1>5, ApartSpans
<1>14. \A b, c \in Fra : b # c => b[3] \cap c[3] = {}
  <2> TAKE b, c \in Fra
  <2> HAVE b # c
  <2>1. PICK i \in DOMAIN poolFragments :
           b[3] = Span(poolFragments[i].base, poolFragments[i].length) /\ b = <<"fragment", i, b[3]>>
    BY <1>6
  <2>2. PICK j \in DOMAIN poolFragments :
           c[3] = Span(poolFragments[j].base, poolFragments[j].length) /\ c = <<"fragment", j, c[3]>>
    BY <1>6
  <2>3. i # j
    BY <2>1, <2>2
  <2>4. Apart(poolFragments[i].base, poolFragments[i].length,
              poolFragments[j].base, poolFragments[j].length)
    BY <2>3, <1>1, <1>2 DEF Memory, OthersApart
  <2> QED BY <2>1, <2>2, <2>4, <1>3, ApartSpans
<1>15. \A b \in Fra, c \in Giv : b[3] \cap c[3] = {}
  <2> TAKE b \in Fra, c \in Giv
  <2>1. PICK i \in DOMAIN poolFragments : b[3] = Span(poolFragments[i].base, poolFragments[i].length)
    BY <1>6
  <2>2. PICK d \in delivered : c[3] = Span(d.addr, d.length)
    BY <1>7
  <2>3. Apart(poolFragments[i].base, poolFragments[i].length, d.addr, d.length)
    BY <1>1, <1>2 DEF Memory, OthersApart
  <2> QED BY <2>1, <2>2, <2>3, <1>3, ApartSpans
<1>16. \A b, c \in Giv : b # c => b[3] \cap c[3] = {}
  <2> TAKE b, c \in Giv
  <2> HAVE b # c
  <2>1. PICK d \in delivered : b[3] = Span(d.addr, d.length) /\ b = <<"given", d, b[3]>>
    BY <1>7
  <2>2. PICK e \in delivered : c[3] = Span(e.addr, e.length) /\ c = <<"given", e, c[3]>>
    BY <1>7
  <2>3. d # e
    BY <2>1, <2>2
  <2>4. Apart(d.addr, d.length, e.addr, e.length)
    BY <2>3, <1>1 DEF Memory, OthersApart
  <2> QED BY <2>1, <2>2, <2>4, <1>3, ApartSpans
<1>17. \A b, c \in Fre : b # c => b[3] \cap c[3] = {}
  BY DEF Fre
<1>18. \A b, c \in Res \cup Fre \cup Fra \cup Giv : b # c => b[3] \cap c[3] = {}
  <2> TAKE b, c \in Res \cup Fre \cup Fra \cup Giv
  <2> HAVE b # c
  <2>1. b[3] \cap c[3] = c[3] \cap b[3]
    OBVIOUS
  <2>2. CASE b \in Res
    BY <2>1, <2>2, <1>8, <1>9, <1>10, <1>11
  <2>3. CASE b \in Fre
    BY <2>1, <2>3, <1>9, <1>12, <1>13, <1>17
  <2>4. CASE b \in Fra
    BY <2>1, <2>4, <1>10, <1>12, <1>14, <1>15
  <2>5. CASE b \in Giv
    BY <2>1, <2>5, <1>11, <1>13, <1>15, <1>16
  <2> QED BY <2>2, <2>3, <2>4, <2>5
<1> QED BY <1>1, <1>18 DEF RegionsDisjoint, Res, Fre, Fra, Giv

LEMMA InvariantDelivered == IInv => DeliveredIntact
<1> SUFFICES ASSUME IInv PROVE DeliveredIntact
  OBVIOUS
<1>1. Within /\ Data /\ pos \in [Streams -> Nat] /\ writer \in [Streams -> BOOLEAN]
      /\ end \in [Streams -> Nat]
  BY DEF IInv, Memory, LifeFine, Config
<1>2. \A d \in delivered : \A i \in 0..(d.length - 1) : mem[d.addr + i] = <<d.stream, d.pos + i>>
  BY <1>1 DEF Data, Intact
<1>3. \A d \in delivered : d.pos \in Nat /\ d.length \in Nat
  BY <1>1, PieceTypes
<1>4. ASSUME NEW s \in Streams
      PROVE  LET mine == {d \in delivered : d.stream = s}
             IN  /\ UNION {Span(d.pos, d.length) : d \in mine} =
                       IF writer[s] THEN {} ELSE 0..(pos[s] - 1)
                 /\ \A d, e \in mine : d # e => Span(d.pos, d.length) \cap Span(e.pos, e.length) = {}
                 /\ ~writer[s] => pos[s] <= end[s] + 1
  <2> DEFINE mine == {d \in delivered : d.stream = s}
             all == UNION {Span(d.pos, d.length) : d \in mine}
  <2>1. CASE writer[s]
    <3>1. mine = {}
      BY <2>1, <1>1 DEF Data
    <3> QED BY <3>1, <2>1
  <2>2. CASE ~writer[s]
    <3>1. Covered(s)
      BY <2>2, <1>1 DEF Data
    <3>2. all \subseteq 0..(pos[s] - 1)
      <4>1. ASSUME NEW d \in mine PROVE Span(d.pos, d.length) \subseteq 0..(pos[s] - 1)
        <5>1. d.pos \in Nat /\ d.length \in Nat /\ d.pos + d.length <= pos[s] /\ pos[s] \in Nat
          BY <1>1, <1>3, <3>1 DEF Covered
        <5> QED BY <5>1 DEF Span
      <4> QED BY <4>1
    <3>3. 0..(pos[s] - 1) \subseteq all
      <4> SUFFICES ASSUME NEW p \in 0..(pos[s] - 1) PROVE p \in all
        OBVIOUS
      <4>1. PICK d \in delivered : d.stream = s /\ d.pos <= p /\ p < d.pos + d.length
        BY <3>1 DEF Covered
      <4>2. d \in mine /\ p \in Span(d.pos, d.length)
        BY <4>1, <1>1, <1>3 DEF Span
      <4> QED BY <4>2
    <3>4. \A d, e \in mine : d # e => Span(d.pos, d.length) \cap Span(e.pos, e.length) = {}
      <4> TAKE d, e \in mine
      <4> HAVE d # e
      <4>1. d.pos + d.length <= e.pos \/ e.pos + e.length <= d.pos
        BY <1>1 DEF Data
      <4>2. d.pos \in Nat /\ d.length \in Nat /\ e.pos \in Nat /\ e.length \in Nat
        BY <1>3
      <4> QED BY <4>1, <4>2 DEF Span
    <3>5. pos[s] <= end[s] + 1
      <4>1. pos[s] + read[s].toRead <= end[s] + 1 /\ read[s].toRead \in Nat
        BY <3>1, <1>1, PieceTypes DEF Covered
      <4> QED BY <4>1, <1>1
    <3>6. all = 0..(pos[s] - 1)
      BY <3>2, <3>3
    <3> QED BY <2>2, <3>4, <3>5, <3>6
  <2> QED BY <2>1, <2>2
<1> QED BY <1>2, <1>4 DEF DeliveredIntact

LEMMA InvariantWritten == IInv => WrittenInOrder
<1> SUFFICES ASSUME IInv, NEW s \in Streams
             PROVE  /\ doneCbs[s] > 0 =>
                          /\ doneCbs[s] = 1 /\ failCbs[s] = 0
                          /\ \A i \in early[s]..(sent[s] - 1) :
                                file[s][first[s] + (i - early[s])] = i
                    /\ early[s] = 0 =>
                          /\ first[s] \in {0, FileSize}
                          /\ step[s] = "opened" /\ append[s] => first[s] = FileSize
                          /\ \A p \in 0..(first[s] - 1) : file[s][p] = -1
  BY DEF WrittenInOrder
<1>1. WriteTypes /\ WritesFine(s) /\ FirstFine(s)
  BY DEF IInv, WritesAll, PositionFine
<1>2. ASSUME doneCbs[s] > 0
      PROVE  /\ doneCbs[s] = 1 /\ failCbs[s] = 0
             /\ \A i \in early[s]..(sent[s] - 1) : file[s][first[s] + (i - early[s])] = i
  <2>1. doneCbs[s] = 1 /\ writesLeft[s] = 0
    BY <1>1, <1>2 DEF WritesFine
  <2> QED BY <2>1, <1>1, AllStored
<1>3. ASSUME early[s] = 0 PROVE \A p \in 0..(first[s] - 1) : file[s][p] = -1
  <2> TAKE p \in 0..(first[s] - 1)
  <2>1. FileSize \in Nat /\ MaxBytes \in Nat /\ first[s] \in Nat /\ first[s] <= FileSize
    BY <1>1, <1>3, StreamsAssumption, Chunks DEF MaxBytes, FirstFine, WriteTypes
  <2>2. p \in Places /\ p < first[s]
    BY <2>1 DEF Places
  <2> QED BY <2>2, <1>1, <1>3 DEF FirstFine, Untouched
<1> QED BY <1>1, <1>2, <1>3 DEF FirstFine

\* What a step does to a stream whose handle is being closed.
LEMMA StepGoesOn ==
    ASSUME IInv, Next, NEW s \in Streams, closing[s] # "no"
    PROVE  OnlyGoesOn(s)
<1>1. /\ LifeFine /\ StatesFine /\ WriteTypes /\ read \in [Streams -> Reservations]
      /\ destroyed[s] /\ HandleFine(s)
  BY DEF IInv, LifeFine, StatesFine, WritesAll, Memory, Within
<1>2. ASSUME read'[s] = read[s], pending'[s] = pending[s], sent'[s] = sent[s] PROVE OnlyGoesOn(s)
  BY <1>2 DEF OnlyGoesOn
<1>3. ASSUME NEW t \in Streams, NEW ok \in BOOLEAN,
             OpenAnswered(t, ok) \/ ModeAnswered(t, ok) \/ StatAnswered(t, ok)
      PROVE  OnlyGoesOn(s)
  <2>1. UNCHANGED reading /\ step[t] # "opened"
    BY <1>3 DEF OpenAnswered, ModeAnswered, StatAnswered
  <2>2. CASE UNCHANGED writing
    BY <2>1, <2>2, <1>2 DEF reading, writing
  <2>3. CASE \E p : Opened(t, p)
    <3>1. PICK p : Opened(t, p)
      BY <2>3
    <3>2. CASE waiting[t] > 0 /\ handle'[t]
      <4>1. t # s
        <5>1. t = s => ~handle[s] /\ step[s] # "open"
          BY <2>1, <1>1 DEF HandleFine
        <5>2. step[t] # "open" /\ handle'[t] => handle[t]
          <6>1. step[t] # "open" => UNCHANGED handle \/ Destroys(t, FALSE, handle[t])
            BY <1>3 DEF OpenAnswered, ModeAnswered, StatAnswered, NeverOpens
          <6>2. Destroys(t, FALSE, handle[t]) /\ handle'[t] => handle[t]
            BY <1>1 DEF Destroys, StatesFine
          <6> QED BY <6>1, <6>2
        <5> QED BY <5>1, <5>2, <3>2
      <4>2. SendWrites(t, waiting[t], p)
        BY <3>1, <3>2 DEF Opened
      <4>3. pending'[s] = pending[s] /\ sent'[s] = sent[s]
        BY <4>1, <4>2, <1>1 DEF SendWrites, WriteTypes
      <4> QED BY <4>3, <2>1, <1>2 DEF reading
    <3>3. CASE ~(waiting[t] > 0 /\ handle'[t])
      BY <3>1, <3>3, <2>1, <1>2 DEF Opened, reading
    <3> QED BY <3>2, <3>3
  <2>4. UNCHANGED writing \/ \E p : Opened(t, p)
    BY <1>3 DEF OpenAnswered, ModeAnswered, StatAnswered, Ask, NeverOpens
  <2> QED BY <2>2, <2>3, <2>4
<1>4. ASSUME NEW t \in Streams, CloseAnswered(t) \/ Destroy(t) PROVE OnlyGoesOn(s)
  BY <1>4, <1>2 DEF CloseAnswered, Destroy, reading, writing
<1>5. ASSUME NEW t \in Streams, NEW n \in 0..MaxHwm, ReadAnswered(t, n) PROVE OnlyGoesOn(s)
  <2>1. /\ UNCHANGED writing /\ read[t] # NoRead
        /\ GoesOn(t, n) \/ Finished(t, read[t].nb + n)
    BY <1>5 DEF ReadAnswered
  <2>2. t # s => read'[s] = read[s]
    BY <2>1, <1>1 DEF GoesOn, Finished
  <2>3. read[s] = NoRead => read'[s] = NoRead
    BY <2>1, <2>2
  <2> QED BY <2>1, <2>3 DEF OnlyGoesOn, writing
<1>6. ASSUME NEW t \in Streams, ReadFails(t) PROVE OnlyGoesOn(s)
  <2>1. read' = [read EXCEPT ![t] = NoRead] /\ UNCHANGED writing
    BY <1>6 DEF ReadFails
  <2>2. read[s] = NoRead => read'[s] = NoRead
    BY <2>1, <1>1
  <2> QED BY <2>1, <2>2 DEF OnlyGoesOn, writing
<1>7. ASSUME NEW t \in Streams, NEW w \in pending[t], NEW ok \in BOOLEAN, WriteAnswered(t, w, ok)
      PROVE  OnlyGoesOn(s)
  <2>1. /\ UNCHANGED <<reading, sent>>
        /\ \/ pending' = [pending EXCEPT ![t] = (@ \ {w}) \cup {Rest(w)}]
           \/ pending' = [pending EXCEPT ![t] = @ \ {w}]
    BY <1>7 DEF WriteAnswered
  <2>2. \A v \in pending'[s] : \E u \in pending[s] : v = u \/ v = Rest(u)
    <3>1. CASE t # s
      BY <3>1, <2>1, <1>1 DEF WriteTypes
    <3>2. CASE t = s
      <4>1. pending'[s] \subseteq pending[s] \cup {Rest(w)} /\ w \in pending[s]
        BY <3>2, <2>1, <1>1 DEF WriteTypes
      <4> QED BY <4>1
    <3> QED BY <3>1, <3>2
  <2> QED BY <2>1, <2>2 DEF OnlyGoesOn, reading
<1>8. ASSUME NEW t \in Streams, Read(t) PROVE OnlyGoesOn(s)
  <2>1. UNCHANGED writing /\ t # s
    BY <1>8, <1>1 DEF Read
  <2>2. PICK p : ReadsWith(t, p)
    BY <1>8 DEF Read
  <2>3. read'[s] = read[s]
    BY <2>1, <2>2, <1>1 DEF ReadsWith
  <2> QED BY <2>1, <2>3, <1>2 DEF writing
<1>9. ASSUME NEW t \in Streams, NEW k \in 1..MaxWrites, Write(t, k) PROVE OnlyGoesOn(s)
  <2>1. UNCHANGED reading /\ t # s
    BY <1>9, <1>1 DEF Write
  <2>2. pending'[s] = pending[s] /\ sent'[s] = sent[s]
    BY <2>1, <1>9, <1>1 DEF Write, SendWrites, WriteTypes
  <2> QED BY <2>1, <2>2, <1>2 DEF reading
<1>10. CASE SessionEnd
  BY <1>10, <1>2 DEF SessionEnd, reading, writing
<1>11. CASE \E t \in Streams : Answers(t)
  BY <1>11, <1>3, <1>4, <1>5, <1>6, <1>7 DEF Answers
<1>12. CASE \E t \in Streams : Destroy(t) \/ Read(t) \/ \E k \in 1..MaxWrites : Write(t, k)
  BY <1>12, <1>4, <1>8, <1>9
<1> QED BY <1>10, <1>11, <1>12 DEF Next

\* Read streams: the pieces of the shared pool that are reserved, free, given back
\* or in the hands of the application never overlap, whichever reads of which
\* streams are answered in which order and however short (_read(), allocNewPool()).
THEOREM PoolIsShared == Spec => []RegionsDisjoint
  BY Invariant, InvariantRegions, PTL

\* Read streams: each hands out its file's bytes in order, once each and not beyond
\* `end`, and no later read of any stream overwrites them (the READ callback).
THEOREM ReadsIntact == Spec => []DeliveredIntact
  BY Invariant, InvariantDelivered, PTL

\* Write streams: when the callback of _write() or _writev() reports success, once,
\* every byte sent since the position was known is in the file, in order from there
\* on, however the answers come and the chunks are cut (onwrite(), write()); for an
\* appending stream that did not write early this is after what was there.
THEOREM WritesInOrder == Spec => []WrittenInOrder
  BY Invariant, InvariantWritten, PTL

\* Neither _read() nor _write() begins anything with a handle that closeStream() has
\* asked to close; what read_() and write() still request goes on with a read or a
\* write that was under way.
THEOREM NoneBeginsAfterClose == Spec => NoneBegunAfterClose
<1>1. IInv /\ [Next]_vars => [\A s \in Streams : closing[s] # "no" => OnlyGoesOn(s)]_vars
  <2> SUFFICES ASSUME IInv, [Next]_vars
               PROVE  [\A s \in Streams : closing[s] # "no" => OnlyGoesOn(s)]_vars
    OBVIOUS
  <2>1. CASE Next
    BY <2>1, StepGoesOn
  <2>2. CASE UNCHANGED vars
    BY <2>2
  <2> QED BY <2>1, <2>2
<1> QED BY <1>1, Invariant, PTL DEF Spec, NoneBegunAfterClose
=============================================================================
