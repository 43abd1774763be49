------------------------- MODULE SftpTransferProofs -------------------------
(***************************************************************************)
(* Proofs about SftpTransfer, for every size of the file, chunk size,      *)
(* concurrency and largest request.                                        *)
(*                                                                         *)
(* Every chunk under way has a slot of the buffer and a range of the file  *)
(* of its own; the buffer, and then the file, hold the source's bytes as   *)
(* far as the chunk has come.  The bytes counted in total are in the file, *)
(* in no chunk's range, so that once total is the size of the file all of  *)
(* it is copied and no chunk is left.  A chunk that failed leaves a byte   *)
(* that is neither counted nor under way, so that total never gets there   *)
(* after an error.                                                         *)
(***************************************************************************)
EXTENDS SftpTransfer, FiniteSetTheorems, TLAPS

-----------------------------------------------------------------------------
(* The invariant.                                                          *)

Chunks == [kind : {"read", "write"}, psrc : Nat, pos : Nat, len : Nat, chunk : Nat, nb : Nat,
           dead : BOOLEAN]

Steps == {"openSrc", "fstat", "stat", "openDst", "fchmod", "chmod", "io", "closeDst", "closeSrc",
          "stopped"}
Before == {"openSrc", "fstat", "stat", "openDst", "fchmod", "chmod"}

Local == IF get THEN "dst" ELSE "src"
LocalHandle == IF get THEN dstHandle ELSE srcHandle

Flags ==
    /\ get \in BOOLEAN /\ hasMode \in BOOLEAN /\ shrunk \in BOOLEAN /\ ended \in BOOLEAN
    /\ deadStep \in BOOLEAN /\ srcHandle \in BOOLEAN /\ dstHandle \in BOOLEAN
    /\ hadError \in BOOLEAN /\ abused \in BOOLEAN /\ silent \in BOOLEAN /\ success \in BOOLEAN

Typed ==
    /\ fsize \in Nat /\ maxDataLen \in Nat \ {0} /\ pdst \in 0..fsize /\ total \in Nat
    /\ bufsize \in Nat /\ cbs \in Nat
    /\ step \in Steps /\ closing \subseteq {Local} /\ closed \subseteq {"src", "dst"}
    /\ DOMAIN file = 0..(fsize - 1)
    /\ step \in {"fchmod", "chmod", "io"} => DOMAIN readbuf = 0..(bufsize - 1)
    /\ ops \subseteq Chunks

\* A chunk: within its slot, and its range of the file among the bytes asked for.
Fit(op) ==
    /\ op.chunk > 0 /\ op.chunk <= Least(ChunkSize, fsize)
    /\ op.nb <= op.len /\ op.len <= op.chunk /\ (op.kind = "read" => op.len = op.chunk)
    /\ op.psrc + Least(ChunkSize, fsize) <= bufsize
    /\ op.pos + op.chunk <= pdst

\* Two chunks: slots and ranges of their own.
Apart(a, b) ==
    /\ a.psrc + ChunkSize <= b.psrc \/ b.psrc + ChunkSize <= a.psrc
    /\ a.pos + a.chunk <= b.pos \/ b.pos + b.chunk <= a.pos

\* The bytes that are in the buffer, and in the file.
Buffered(op) ==
    \A j \in 0..(IF op.kind = "read" THEN op.nb ELSE op.len) - 1 :
        readbuf[op.psrc + j] = op.pos + j
Stored(op) ==
    op.kind = "write" => \A j \in 0..(op.nb - 1) : file[op.pos + j] = op.pos + j

ChunksFine ==
    /\ \A op \in ops : Fit(op) /\ Buffered(op) /\ Stored(op)
    /\ \A a, b \in ops : a # b => Apart(a, b)

\* No chunk's byte.
Spare(p) == \A op \in ops : ~(op.pos <= p /\ p < op.pos + op.chunk)

\* The bytes counted are copied, and no chunk's; after an error one is missing.
Counted(D) ==
    /\ D \subseteq 0..(pdst - 1) /\ Cardinality(D) = total
    /\ \A p \in D : file[p] = p
    /\ \A op \in ops : \A p \in D : ~(op.pos <= p /\ p < op.pos + op.chunk)
    /\ hadError /\ step = "io" => \E p \in (0..(pdst - 1)) \ D : Spare(p)

Progress == \E D \in SUBSET (0..(fsize - 1)) : Counted(D)

Stage ==
    /\ step \in Before => /\ ops = {} /\ pdst = 0 /\ total = 0 /\ closing = {} /\ closed = {}
                          /\ cbs = 0 /\ ~hadError /\ ~abused /\ ~success
    /\ step = "openSrc" => ~srcHandle
    /\ step \in {"openSrc", "fstat", "stat", "openDst"} => ~dstHandle
    /\ step \in {"fchmod", "chmod"} => /\ fsize > 0 /\ bufsize = BufferFor(fsize).bufsize
                                       /\ concurrency = BufferFor(fsize).concurrency
    /\ ops # {} => step = "io"
    /\ step \in {"closeDst", "closeSrc"} => total = fsize /\ ~hadError
    /\ step = "closeSrc" => ~dstHandle /\ "dst" \in closed
    /\ success => /\ total = fsize /\ step = "stopped" /\ ~failed
                  /\ fsize > 0 => closed = {"src", "dst"} /\ ~hadError

\* onerror() has no error to hand on only for an empty file, which has no chunks.
Outcome ==
    /\ failed \in BOOLEAN /\ (failed => hadError)
    /\ hadError /\ ~failed => fsize = 0 /\ step = "stopped"
    /\ step \in {"io", "closeDst", "closeSrc"} \/ abused => fsize > 0

Handles ==
    /\ cbs > 0 /\ LocalHandle => Local \in closed
    /\ closing # {} => hadError
    /\ closed # {} => hadError \/ step \in {"closeSrc", "stopped"}
    /\ abused => hadError
    /\ cbs = 0 \/ (cbs = 1 /\ closing = {} /\ (hadError \/ step = "stopped"))

IInv == Flags /\ Typed /\ ChunksFine /\ Progress /\ Stage /\ Outcome /\ Handles

-----------------------------------------------------------------------------
(* Slots, buffers and counting.                                            *)

LEMMA RemoteSides ==
    ASSUME get \in BOOLEAN
    PROVE  (Remote("src") <=> get) /\ (Remote("dst") <=> ~get)
<1>1. ("src" = "src") = TRUE /\ ("dst" = "src") = FALSE
  OBVIOUS
<1>2. Remote("src") = (TRUE = get) /\ Remote("dst") = (FALSE = get)
  BY <1>1, Zenon DEF Remote
<1>3. CASE get = TRUE
  BY <1>2, <1>3, Zenon
<1>4. CASE get = FALSE
  BY <1>2, <1>4, Zenon
<1> QED
  BY <1>3, <1>4

\* A request asks for no more than what is left of the chunk.
LEMMA RequestBound ==
    ASSUME NEW op \in Chunks, op.nb <= op.len, maxDataLen \in Nat \ {0}
    PROVE  Request(op) \in 0..(op.len - op.nb)
<1>1. op.len - op.nb \in Nat
  BY DEF Chunks
<1> QED
  BY <1>1 DEF Request, Least

\* Slots i and j of ChunkSize bytes do not meet.
LEMMA Slots ==
    ASSUME NEW i \in Nat, NEW j \in Nat, i < j
    PROVE  i * ChunkSize + ChunkSize <= j * ChunkSize /\ i * ChunkSize \in Nat
<1>1. ChunkSize \in Nat
  BY TransferAssumption
<1>2. j - i - 1 \in Nat
  OBVIOUS
<1>3. (j - i - 1) * ChunkSize \in Nat /\ i * ChunkSize \in Nat
  BY <1>1, <1>2
<1>4. j * ChunkSize = i * ChunkSize + ChunkSize + (j - i - 1) * ChunkSize
  BY <1>1
<1> QED
  BY <1>1, <1>3, <1>4

\* The buffer holds whole slots, or the whole of a file that is smaller than one.
LEMMA BufferShape ==
    ASSUME NEW size \in Nat, size > 0
    PROVE  LET b == BufferFor(size)
           IN  /\ b.concurrency \in Nat /\ b.concurrency > 0 /\ b.bufsize \in Nat
               /\ \/ size < ChunkSize /\ b.concurrency = 1 /\ b.bufsize = size
                  \/ /\ size >= ChunkSize /\ b.bufsize = b.concurrency * ChunkSize
                     /\ b.bufsize <= size
<1> DEFINE fits == {c \in 1..Concurrency : c * ChunkSize <= size}
<1>1. ChunkSize \in Nat /\ ChunkSize > 0 /\ Concurrency \in Nat /\ Concurrency > 0
  BY TransferAssumption
<1>2. CASE fits = {}
  <2>1. 1 \notin fits /\ 1 \in 1..Concurrency
    BY <1>1, <1>2
  <2>2. size < ChunkSize
    BY <1>1, <2>1
  <2> QED
    BY <1>1, <1>2, <2>2 DEF BufferFor, Least
<1>3. CASE fits # {}
  <2> DEFINE m == IF Concurrency * ChunkSize <= size THEN Concurrency ELSE size \div ChunkSize
  <2>1. m \in fits /\ \A c \in fits : m >= c
    <3>1. CASE Concurrency * ChunkSize <= size
      BY <1>1, <3>1
    <3>2. CASE ~(Concurrency * ChunkSize <= size)
      <4> DEFINE q == size \div ChunkSize
      <4>1. q \in Nat /\ q * ChunkSize <= size /\ size < q * ChunkSize + ChunkSize
        BY <1>1
      <4> HIDE DEF q
      <4>2. \A c \in Nat : c > q => c * ChunkSize > size
        BY <1>1, <4>1, Slots
      <4>3. \A c \in fits : c <= q
        BY <1>1, <4>1, <4>2
      <4>4. q >= 1
        BY <1>3, <4>1, <4>3
      <4>5. q < Concurrency
        <5>1. SUFFICES ASSUME q >= Concurrency PROVE FALSE
          BY <1>1, <4>1
        <5>2. q = Concurrency \/ Concurrency < q
          BY <1>1, <4>1, <5>1
        <5>3. Concurrency * ChunkSize <= q * ChunkSize
          <6>1. CASE Concurrency = q
            BY <1>1, <4>1, <6>1
          <6>2. CASE Concurrency < q
            <7>1. Concurrency * ChunkSize + ChunkSize <= q * ChunkSize
              BY <1>1, <4>1, <6>2, Slots
            <7> QED
              BY <1>1, <4>1, <7>1
          <6> QED
            BY <5>2, <6>1, <6>2
        <5> QED
          BY <1>1, <3>2, <4>1, <5>3
      <4> QED
        BY <1>1, <3>2, <4>1, <4>3, <4>4, <4>5 DEF q
    <3> QED
      BY <3>1, <3>2
  <2>2. Max(fits) \in fits
    <3> HIDE DEF m, fits
    <3> QED
      BY <2>1 DEF Max
  <2>3. Max(fits) \in Nat /\ Max(fits) >= 1 /\ Max(fits) * ChunkSize <= size
    BY <1>1, <2>2
  <2>4. BufferFor(size) = [concurrency |-> Max(fits), bufsize |-> Max(fits) * ChunkSize]
    BY <1>3 DEF BufferFor
  <2> HIDE DEF fits
  <2>5. Max(fits) * ChunkSize \in Nat /\ Max(fits) * ChunkSize >= ChunkSize
    <3>1. CASE Max(fits) = 1
      BY <1>1, <3>1
    <3>2. CASE Max(fits) > 1
      <4>1. 1 * ChunkSize + ChunkSize <= Max(fits) * ChunkSize
        BY <1>1, <2>3, <3>2, Slots
      <4> QED
        BY <1>1, <2>3, <4>1
    <3> QED
      BY <2>3, <3>1, <3>2
  <2> QED
    BY <1>1, <2>3, <2>4, <2>5
<1> QED
  BY <1>2, <1>3

\* The next chunk is of at least one byte, fits a slot and ends with the file.
LEMMA ChunkShape ==
    ASSUME fsize \in Nat, NEW p \in Nat, p < fsize
    PROVE  /\ ChunkAt(p) \in Nat /\ ChunkAt(p) > 0 /\ ChunkAt(p) <= Least(ChunkSize, fsize)
           /\ p + ChunkAt(p) <= fsize
           /\ ChunkAt(p) < ChunkSize => p + ChunkAt(p) = fsize
BY TransferAssumption DEF ChunkAt, Least

LEMMA Intervals ==
    ASSUME NEW m \in Nat, NEW n \in Nat, m <= n
    PROVE  0..(m - 1) \subseteq 0..(n - 1)
OBVIOUS

Bytes(a, l) == a..(a + l - 1)
Clear(D, a, l) == \A p \in D : ~(a <= p /\ p < a + l)

\* Bytes counted one range after the other.
LEMMA Adds ==
    \A m \in Nat : \A D \in SUBSET (0..(m - 1)) : \A a, l \in Nat :
        a + l <= m /\ Clear(D, a, l)
           => /\ D \cup Bytes(a, l) \in SUBSET (0..(m - 1))
              /\ Cardinality(D \cup Bytes(a, l)) = Cardinality(D) + l
<1> TAKE m \in Nat
<1> TAKE D \in SUBSET (0..(m - 1))
<1> TAKE a \in Nat, l \in Nat
<1>0. HAVE a + l <= m /\ Clear(D, a, l)
<1>1. IsFiniteSet(0..(m - 1))
  BY FS_Interval
<1>2. IsFiniteSet(D) /\ Cardinality(D) \in Nat
  BY <1>1, FS_Subset, FS_CardinalityType
<1>3. IsFiniteSet(a..(a + l - 1)) /\ Cardinality(a..(a + l - 1)) = l
  <2>1. a \in Int /\ a + l - 1 \in Int
    OBVIOUS
  <2> QED
    BY <2>1, FS_Interval
<1>4. D \cap a..(a + l - 1) = {}
  <2>1. \A p \in a..(a + l - 1) : a <= p /\ p < a + l
    OBVIOUS
  <2> QED
    BY <1>0, <2>1 DEF Clear
<1>5. Cardinality({}) = 0
  BY FS_EmptySet
<1>6. Cardinality(D \cup a..(a + l - 1)) = Cardinality(D) + l
  <2> DEFINE T == a..(a + l - 1)
  <2>1. IsFiniteSet(T) /\ Cardinality(T) = l /\ D \cap T = {}
    BY <1>3, <1>4
  <2> HIDE DEF T
  <2>2. Cardinality(D \cup T) = Cardinality(D) + Cardinality(T) - Cardinality(D \cap T)
    BY <1>2, <2>1, FS_Union
  <2>3. Cardinality(D \cup T) = Cardinality(D) + l - 0
    BY <1>5, <2>1, <2>2, Zenon
  <2>4. Cardinality(D \cup T) = Cardinality(D) + l
    BY <1>2, <2>3
  <2> QED
    BY <2>4 DEF T
<1>7. D \cup a..(a + l - 1) \in SUBSET (0..(m - 1))
  BY <1>0
<1> QED
  BY <1>2, <1>6, <1>7 DEF Bytes

\* When as many bytes are counted as there are, all are.
LEMMA Fills ==
    ASSUME NEW m \in Nat, NEW D \in SUBSET (0..(m - 1))
    PROVE  /\ Cardinality(D) \in Nat /\ Cardinality(D) <= m
           /\ Cardinality(D) = m => D = 0..(m - 1)
<1>1. IsFiniteSet(0..(m - 1)) /\ Cardinality(0..(m - 1)) = m
  BY FS_Interval
<1> QED
  BY <1>1, FS_Subset, FS_CardinalityType

-----------------------------------------------------------------------------
(* The chunks that are not the one a step is about.                        *)

\* A step that changes the buffer and the file only where the chunk op has its slot
\* and its range.
Leaves(op) ==
    /\ pdst' \in Nat /\ pdst' >= pdst /\ fsize' = fsize /\ bufsize' = bufsize
    /\ \A q \in 0..(bufsize - 1) : q < op.psrc \/ q >= op.psrc + ChunkSize => readbuf'[q] = readbuf[q]
    /\ \A p \in 0..(fsize - 1) : p < op.pos \/ p >= op.pos + op.chunk => file'[p] = file[p]

LEMMA Others ==
    ASSUME IInv, NEW op \in ops, Leaves(op), NEW b \in ops, b # op
    PROVE  Fit(b)' /\ Buffered(b)' /\ Stored(b)'
<1>1. /\ op \in Chunks /\ b \in Chunks /\ Fit(b) /\ Buffered(b) /\ Stored(b) /\ Apart(op, b)
      /\ fsize \in Nat /\ bufsize \in Nat /\ pdst \in 0..fsize
      /\ ChunkSize \in Nat
  BY TransferAssumption DEF IInv, Typed, ChunksFine
<1>2. /\ b.psrc \in Nat /\ b.pos \in Nat /\ b.chunk \in Nat /\ b.len \in Nat /\ b.nb \in Nat
      /\ op.psrc \in Nat /\ op.pos \in Nat /\ op.chunk \in Nat
      /\ b.kind \in {"read", "write"}
  BY <1>1 DEF Chunks
<1>3. Fit(b)'
  BY <1>1, <1>2 DEF Leaves, Fit, Least
<1>4. /\ b.nb <= b.len /\ b.len <= b.chunk /\ b.chunk <= ChunkSize /\ b.chunk <= fsize
      /\ b.psrc + b.chunk <= bufsize /\ b.pos + b.chunk <= fsize
  BY <1>1, <1>2 DEF Fit, Least
<1>5. Buffered(b)'
  <2>1. SUFFICES ASSUME NEW j \in 0..(IF b.kind = "read" THEN b.nb ELSE b.len) - 1
                 PROVE  readbuf'[b.psrc + j] = b.pos + j
    BY DEF Buffered
  <2>2. readbuf[b.psrc + j] = b.pos + j
    BY <1>1, <2>1 DEF Buffered
  <2>3. /\ b.psrc + j \in 0..(bufsize - 1)
        /\ b.psrc + j < op.psrc \/ b.psrc + j >= op.psrc + ChunkSize
    BY <1>1, <1>2, <1>4, <2>1 DEF Apart
  <2> QED
    BY <2>2, <2>3 DEF Leaves
<1>6. Stored(b)'
  <2>1. SUFFICES ASSUME b.kind = "write", NEW j \in 0..(b.nb - 1)
                 PROVE  file'[b.pos + j] = b.pos + j
    BY DEF Stored
  <2>2. file[b.pos + j] = b.pos + j
    BY <1>1, <2>1 DEF Stored
  <2>3. /\ b.pos + j \in 0..(fsize - 1)
        /\ b.pos + j < op.pos \/ b.pos + j >= op.pos + op.chunk
    BY <1>1, <1>2, <1>4, <2>1 DEF Apart
  <2> QED
    BY <2>2, <2>3 DEF Leaves
<1> QED
  BY <1>3, <1>5, <1>6

\* A chunk that ends leaves the others as they are.
LEMMA Dropped ==
    ASSUME IInv, NEW op \in ops, Leaves(op), ops' = ops \ {op}
    PROVE  ChunksFine' /\ ops' \subseteq Chunks
<1>1. ops' \subseteq Chunks
  BY DEF IInv, Typed
<1>2. \A b \in ops' : Fit(b)' /\ Buffered(b)' /\ Stored(b)'
  BY Others
<1>3. \A a, b \in ops' : a # b => Apart(a, b)
  BY DEF IInv, ChunksFine
<1> QED
  BY <1>1, <1>2, <1>3 DEF ChunksFine, Apart

\* A chunk that goes on has the same slot, and a range that was its own or that
\* nobody had.
LEMMA Swapped ==
    ASSUME IInv, NEW op \in ops, Leaves(op), NEW new \in Chunks, ops' = (ops \ {op}) \cup {new},
           new.psrc = op.psrc,
           \/ op.pos <= new.pos /\ new.pos + new.chunk <= op.pos + op.chunk
           \/ pdst <= new.pos,
           Fit(new)', Buffered(new)', Stored(new)'
    PROVE  ChunksFine' /\ ops' \subseteq Chunks
<1>1. ops' \subseteq Chunks
  BY DEF IInv, Typed
<1>2. \A b \in ops' : Fit(b)' /\ Buffered(b)' /\ Stored(b)'
  BY Others
<1>3. ASSUME NEW b \in ops, b # op PROVE Apart(new, b) /\ Apart(b, new)
  <2>1. Apart(op, b) /\ Fit(b) /\ b \in Chunks /\ op \in Chunks /\ pdst \in Nat
    BY <1>3 DEF IInv, Typed, ChunksFine
  <2>2. /\ b.psrc \in Nat /\ b.pos \in Nat /\ b.chunk \in Nat
        /\ op.psrc \in Nat /\ op.pos \in Nat /\ op.chunk \in Nat
        /\ new.psrc \in Nat /\ new.pos \in Nat /\ new.chunk \in Nat
    BY <2>1 DEF Chunks
  <2>3. b.pos + b.chunk <= pdst
    BY <2>1 DEF Fit
  <2> QED
    BY <2>1, <2>2, <2>3 DEF Apart
<1>4. \A a, b \in ops : a # b => Apart(a, b)
  BY DEF IInv, ChunksFine
<1>5. \A a, b \in ops' : a # b => Apart(a, b)
  BY <1>3, <1>4
<1> QED
  BY <1>1, <1>2, <1>5 DEF ChunksFine, Apart

LEMMA InStep ==
    ASSUME IInv, NEW op \in ops
    PROVE  step = "io"
BY DEF IInv, Stage

\* The bytes counted stay copied.
LEMMA StaysCounted ==
    ASSUME IInv, NEW op \in ops, Leaves(op), total' = total,
           \A b \in ops' : \/ b \in ops
                           \/ op.pos <= b.pos /\ b.pos + b.chunk <= op.pos + op.chunk,
           ops' \subseteq Chunks,
           hadError' = hadError \/ ops' = ops \ {op}
    PROVE  Progress'
<1>1. PICK D \in SUBSET (0..(fsize - 1)) : Counted(D)
  BY DEF IInv, Progress
<1>2. op \in Chunks /\ fsize \in Nat /\ pdst \in Nat /\ op.pos \in Nat /\ op.chunk \in Nat
  BY DEF IInv, Typed, Chunks
<1>3. D \subseteq 0..(pdst' - 1) /\ Cardinality(D) = total' /\ D \in SUBSET (0..(fsize' - 1))
  <2>1. D \subseteq 0..(pdst - 1) /\ Cardinality(D) = total
    BY <1>1 DEF Counted
  <2>2. 0..(pdst - 1) \subseteq 0..(pdst' - 1) /\ fsize' = fsize
    <3>1. pdst' \in Nat /\ pdst' >= pdst /\ fsize' = fsize
      BY DEF Leaves
    <3>2. pdst \in Nat /\ pdst <= pdst'
      BY <1>2, <3>1
    <3> QED
      BY <3>1, <3>2, Intervals
  <2> QED
    BY <1>1, <2>1, <2>2
<1>4. ASSUME NEW p \in D PROVE file'[p] = p
  <2>1. p \in 0..(fsize - 1) /\ file[p] = p /\ ~(op.pos <= p /\ p < op.pos + op.chunk)
    BY <1>1, <1>4 DEF Counted
  <2> QED
    BY <1>2, <2>1 DEF Leaves
<1>5. ASSUME NEW b \in ops', NEW p \in D PROVE ~(b.pos <= p /\ p < b.pos + b.chunk)
  <2>1. b.pos \in Nat /\ b.chunk \in Nat /\ p \in Nat
    BY <1>1, <1>5 DEF Chunks
  <2> QED
    BY <1>1, <1>2, <1>5, <2>1 DEF Counted
<1>6. hadError' => \E p \in (0..(pdst' - 1)) \ D : Spare(p)'
  <2>1. op.pos + op.chunk <= pdst /\ op.chunk > 0 /\ pdst' \in Nat /\ pdst <= pdst'
    BY <1>2 DEF IInv, ChunksFine, Fit, Leaves
  <2>2. CASE hadError
    <3>1. PICK p \in (0..(pdst - 1)) \ D : Spare(p)
      BY <1>1, <2>2, InStep DEF Counted
    <3>2. \A b \in ops' : ~(b.pos <= p /\ p < b.pos + b.chunk)
      <4>1. SUFFICES ASSUME NEW b \in ops' PROVE ~(b.pos <= p /\ p < b.pos + b.chunk)
        OBVIOUS
      <4>2. b.pos \in Nat /\ b.chunk \in Nat /\ p \in Int
        BY <4>1 DEF Chunks
      <4>3. ~(op.pos <= p /\ p < op.pos + op.chunk)
        BY <3>1 DEF Spare
      <4> QED
        BY <1>2, <3>1, <4>1, <4>2, <4>3 DEF Spare
    <3>3. p \in (0..(pdst' - 1)) \ D
      <4>1. 0..(pdst - 1) \subseteq 0..(pdst' - 1)
        BY <1>2, <2>1, Intervals
      <4> QED
        BY <4>1, Zenon
    <3> QED
      BY <3>2, <3>3 DEF Spare
  <2>3. CASE ~hadError /\ ops' = ops \ {op}
    <3>1. op.pos \in (0..(pdst' - 1)) \ D
      BY <1>1, <1>2, <2>1 DEF Counted
    <3>2. \A b \in ops' : ~(b.pos <= op.pos /\ op.pos < b.pos + b.chunk)
      <4>1. SUFFICES ASSUME NEW b \in ops' PROVE ~(b.pos <= op.pos /\ op.pos < b.pos + b.chunk)
        OBVIOUS
      <4>2. b \in Chunks /\ Apart(op, b)
        BY <2>3, <4>1 DEF IInv, Typed, ChunksFine
      <4>3. b.pos \in Nat /\ b.chunk \in Nat
        BY <4>2 DEF Chunks
      <4> QED
        BY <1>2, <2>1, <4>2, <4>3 DEF Apart
    <3> QED
      BY <3>1, <3>2 DEF Spare
  <2> QED
    BY <2>2, <2>3
<1>7. Counted(D)'
  BY <1>3, <1>4, <1>5, <1>6 DEF Counted
<1> QED
  BY <1>1, <1>3, <1>7 DEF Progress

\* The bytes of a chunk that is written are counted.
LEMMA Counts ==
    ASSUME IInv, NEW op \in ops, Leaves(op), total' = total + op.len,
           \A j \in 0..(op.len - 1) : file'[op.pos + j] = op.pos + j,
           \A b \in ops' : \/ b \in ops /\ b # op
                           \/ op.pos + op.len <= b.pos /\ b.pos + b.chunk <= op.pos + op.chunk
                           \/ pdst <= b.pos,
           ops' \subseteq Chunks, hadError' = hadError
    PROVE  Progress' /\ (hadError => total' # fsize)
<1>1. PICK D \in SUBSET (0..(fsize - 1)) : Counted(D)
  BY DEF IInv, Progress
<1>2. /\ op \in Chunks /\ fsize \in Nat /\ pdst \in 0..fsize /\ op.pos \in Nat /\ op.chunk \in Nat
      /\ op.len \in Nat /\ op.len <= op.chunk /\ op.pos + op.chunk <= pdst
  BY DEF IInv, Typed, Chunks, ChunksFine, Fit
<1> DEFINE E == D \cup op.pos..(op.pos + op.len - 1)
<1>3. D \in SUBSET (0..(pdst - 1)) /\ Cardinality(D) = total
      /\ \A p \in D : ~(op.pos <= p /\ p < op.pos + op.len)
  <2>1. \A p \in D : ~(op.pos <= p /\ p < op.pos + op.chunk) /\ p \in Nat
    BY <1>1 DEF Counted
  <2> QED
    BY <1>1, <1>2, <2>1 DEF Counted
<1>4. E \in SUBSET (0..(pdst - 1)) /\ Cardinality(E) = total + op.len
  <2>1. pdst \in Nat /\ op.pos + op.len <= pdst
    BY <1>2
  <2>2. op.pos \in Nat /\ op.len \in Nat
    BY <1>2
  <2>3. Clear(D, op.pos, op.len)
    BY <1>3 DEF Clear
  <2>4. /\ D \cup Bytes(op.pos, op.len) \in SUBSET (0..(pdst - 1))
        /\ Cardinality(D \cup Bytes(op.pos, op.len)) = Cardinality(D) + op.len
    <3>1. D \in SUBSET (0..(pdst - 1))
      BY <1>3
    <3>2. \A a, l \in Nat : a + l <= pdst /\ Clear(D, a, l)
                 => /\ D \cup Bytes(a, l) \in SUBSET (0..(pdst - 1))
                    /\ Cardinality(D \cup Bytes(a, l)) = Cardinality(D) + l
      BY <2>1, <3>1, Adds, Zenon
    <3> QED
      BY <2>1, <2>2, <2>3, <3>2, Zenon
  <2>5. E = D \cup Bytes(op.pos, op.len)
    BY DEF Bytes
  <2> HIDE DEF E
  <2> QED
    BY <1>3, <2>4, <2>5
<1>5. E \subseteq 0..(pdst' - 1) /\ Cardinality(E) = total' /\ E \in SUBSET (0..(fsize' - 1))
  <2>1. 0..(pdst - 1) \subseteq 0..(pdst' - 1) /\ fsize' = fsize
    <3>1. pdst' \in Nat /\ pdst' >= pdst /\ fsize' = fsize
      BY DEF Leaves
    <3>2. pdst \in Nat /\ pdst <= pdst'
      BY <1>2, <3>1
    <3> QED
      BY <3>1, <3>2, Intervals
  <2>2. 0..(pdst - 1) \subseteq 0..(fsize - 1)
    <3>1. pdst \in Nat /\ pdst <= fsize
      BY <1>2
    <3> QED
      BY <1>2, <3>1, Intervals
  <2> HIDE DEF E
  <2> QED
    BY <1>4, <2>1, <2>2
<1>6. ASSUME NEW p \in E PROVE file'[p] = p
  <2>1. CASE p \in D
    <3>1. p \in 0..(fsize - 1) /\ file[p] = p /\ ~(op.pos <= p /\ p < op.pos + op.chunk)
      BY <1>1, <2>1 DEF Counted
    <3> QED
      BY <1>2, <3>1 DEF Leaves
  <2>2. CASE p \in op.pos..(op.pos + op.len - 1)
    <3>1. p - op.pos \in 0..(op.len - 1) /\ op.pos + (p - op.pos) = p
      BY <1>2, <2>2
    <3> QED
      BY <3>1
  <2> QED
    BY <1>6, <2>1, <2>2
<1>7. ASSUME NEW b \in ops', NEW p \in E PROVE ~(b.pos <= p /\ p < b.pos + b.chunk)
  <2>1. b.pos \in Nat /\ b.chunk \in Nat /\ p \in 0..(pdst - 1)
    BY <1>4, <1>7 DEF Chunks
  <2>2. CASE pdst <= b.pos
    BY <1>2, <2>1, <2>2
  <2>3. CASE op.pos + op.len <= b.pos /\ b.pos + b.chunk <= op.pos + op.chunk
    <3>1. CASE p \in D
      <4>1. ~(op.pos <= p /\ p < op.pos + op.chunk)
        BY <1>1, <3>1 DEF Counted
      <4> QED
        BY <1>2, <2>1, <2>3, <4>1
    <3>2. CASE p \in op.pos..(op.pos + op.len - 1)
      BY <1>2, <2>1, <2>3, <3>2
    <3> QED
      BY <1>7, <3>1, <3>2
  <2>4. CASE b \in ops /\ b # op
    <3>1. CASE p \in D
      BY <1>1, <2>4, <3>1 DEF Counted
    <3>2. CASE p \in op.pos..(op.pos + op.len - 1)
      <4>1. Apart(op, b)
        BY <2>4 DEF IInv, ChunksFine
      <4> QED
        BY <1>2, <2>1, <3>2, <4>1 DEF Apart
    <3> QED
      BY <1>7, <3>1, <3>2
  <2> QED
    BY <1>7, <2>2, <2>3, <2>4
<1>8. ASSUME hadError
      PROVE  (\E p \in (0..(pdst' - 1)) \ E : Spare(p)') /\ total' # fsize
  <2>1. PICK p \in (0..(pdst - 1)) \ D : Spare(p)
    BY <1>1, <1>8, InStep DEF Counted
  <2>2. ~(op.pos <= p /\ p < op.pos + op.chunk) /\ p \in Int
    BY <2>1 DEF Spare
  <2>3. p \notin E
    BY <1>2, <2>1, <2>2
  <2>4. p \in 0..(pdst' - 1) /\ p \in 0..(fsize - 1)
    <3>1. pdst \in Nat /\ pdst <= fsize
      BY <1>2
    <3>2. pdst' \in Nat /\ pdst <= pdst'
      BY <3>1 DEF Leaves
    <3>3. 0..(pdst - 1) \subseteq 0..(pdst' - 1) /\ 0..(pdst - 1) \subseteq 0..(fsize - 1)
      BY <1>2, <3>1, <3>2, Intervals
    <3> QED
      BY <3>3, Zenon
  <2>5. \A b \in ops' : ~(b.pos <= p /\ p < b.pos + b.chunk)
    <3>1. SUFFICES ASSUME NEW b \in ops' PROVE ~(b.pos <= p /\ p < b.pos + b.chunk)
      OBVIOUS
    <3>2. b.pos \in Nat /\ b.chunk \in Nat
      BY <3>1 DEF Chunks
    <3> QED
      BY <1>2, <2>1, <2>2, <3>1, <3>2 DEF Spare
  <2>6. total' # fsize
    <3>1. E \in SUBSET (0..(fsize - 1)) /\ Cardinality(E) = total'
      BY <1>5 DEF Leaves
    <3> HIDE DEF E
    <3> QED
      BY <1>2, <2>3, <2>4, <3>1, Fills
  <2> HIDE DEF E
  <2> QED
    BY <2>3, <2>4, <2>5, <2>6 DEF Spare
<1>9. Counted(E)'
  <2> HIDE DEF E
  <2> QED
    BY <1>5, <1>6, <1>7, <1>8 DEF Counted
<1> QED
  BY <1>5, <1>8, <1>9 DEF Progress

\* Once all bytes are counted, all are copied and no chunk is left.
LEMMA AllCounted ==
    Typed /\ ChunksFine /\ Progress
        => /\ total <= fsize
           /\ total = fsize => ops = {} /\ \A p \in 0..(fsize - 1) : file[p] = p
<1>1. SUFFICES ASSUME Typed, ChunksFine, Progress
               PROVE  /\ total <= fsize
                      /\ total = fsize => ops = {} /\ \A p \in 0..(fsize - 1) : file[p] = p
  OBVIOUS
<1>2. PICK D \in SUBSET (0..(fsize - 1)) : Counted(D)
  BY <1>1 DEF Progress
<1>3. fsize \in Nat /\ pdst \in 0..fsize /\ Cardinality(D) = total
  BY <1>1, <1>2 DEF Typed, Counted
<1>4. total <= fsize /\ (total = fsize => D = 0..(fsize - 1))
  BY <1>2, <1>3, Fills
<1>5. ASSUME total = fsize PROVE ops = {}
  <2>1. SUFFICES ASSUME NEW op \in ops PROVE FALSE
    OBVIOUS
  <2>2. op.pos \in Nat /\ op.chunk \in Nat /\ op.chunk > 0 /\ op.pos + op.chunk <= pdst
    BY <1>1, <2>1 DEF Typed, ChunksFine, Fit, Chunks
  <2>3. op.pos \in 0..(fsize - 1)
    BY <1>3, <2>2
  <2>4. op.pos \in D
    BY <1>4, <1>5, <2>3
  <2> QED
    BY <1>2, <2>1, <2>2, <2>4 DEF Counted
<1> QED
  BY <1>2, <1>4, <1>5 DEF Counted

-----------------------------------------------------------------------------
(* Reads and writes.                                                       *)

\* What every step on a chunk leaves alone, and what it begins with.
IOFrame ==
    UNCHANGED <<get, fsize, maxDataLen, hasMode, shrunk, ended, srcHandle, dstHandle, bufsize, closed>>

LEMMA InIO ==
    ASSUME IInv, NEW op \in ops
    PROVE  /\ step = "io" /\ ~success /\ (closed # {} => hadError)
           /\ op \in Chunks /\ Fit(op) /\ Buffered(op) /\ Stored(op)
           /\ fsize \in Nat /\ bufsize \in Nat /\ pdst \in 0..fsize /\ total \in Nat
           /\ maxDataLen \in Nat \ {0} /\ ChunkSize \in Nat
           /\ DOMAIN file = 0..(fsize - 1) /\ DOMAIN readbuf = 0..(bufsize - 1)
<1>1. step = "io"
  BY DEF IInv, Stage
<1>2. ~success /\ (closed # {} => hadError)
  BY <1>1 DEF IInv, Stage, Handles
<1> QED
  BY <1>1, <1>2, TransferAssumption DEF IInv, Typed, ChunksFine

LEMMA ChunkFields ==
    ASSUME NEW op \in Chunks, Fit(op), fsize \in Nat, bufsize \in Nat, pdst \in 0..fsize,
           ChunkSize \in Nat
    PROVE  /\ op.psrc \in Nat /\ op.pos \in Nat /\ op.chunk \in Nat /\ op.len \in Nat
           /\ op.nb \in Nat /\ op.kind \in {"read", "write"} /\ op.dead \in BOOLEAN
           /\ op.chunk > 0 /\ op.nb <= op.len /\ op.len <= op.chunk /\ op.chunk <= ChunkSize
           /\ op.chunk <= fsize /\ op.psrc + op.chunk <= bufsize /\ op.pos + op.chunk <= pdst
           /\ op.pos + op.chunk <= fsize
<1>1. /\ op.psrc \in Nat /\ op.pos \in Nat /\ op.chunk \in Nat /\ op.len \in Nat
      /\ op.nb \in Nat /\ op.kind \in {"read", "write"} /\ op.dead \in BOOLEAN
  BY DEF Chunks
<1> QED
  BY <1>1 DEF Fit, Least

\* The invariant after a step on a chunk, once its chunks and its count are settled.
LEMMA IOSettled ==
    ASSUME IInv, NEW op \in ops, IOFrame, ChunksFine', Progress', ops' \subseteq Chunks,
           pdst' \in 0..fsize, total' \in Nat, DOMAIN file' = DOMAIN file, DOMAIN readbuf' = DOMAIN readbuf,
           \/ step' = step
           \/ step' = "closeDst" /\ total' = fsize /\ ops' = {} /\ ~hadError',
           deadStep' \in BOOLEAN, abused' \in BOOLEAN, hadError' \in BOOLEAN, silent' \in BOOLEAN,
           cbs' \in Nat, success' = success, closing' \subseteq {Local},
           hadError => hadError', abused' => hadError', closing' # {} => hadError',
           \/ cbs' = cbs /\ (hadError => closing' = closing)
           \/ cbs' = cbs + 1 /\ ~hadError /\ hadError' /\ closing' = {} /\ ~LocalHandle,
           UNCHANGED <<hadError, failed>> \/ (hadError' = TRUE /\ failed' = TRUE)
    PROVE  IInv'
<1>1. step = "io" /\ ~success /\ (closed # {} => hadError)
  BY InIO
<1>2. Local' = Local /\ LocalHandle' = LocalHandle
  BY DEF IOFrame, Local, LocalHandle
<1>3. Flags'
  BY DEF IInv, Flags, IOFrame
<1>4. Typed'
  BY <1>1, <1>2 DEF IInv, Typed, IOFrame, Steps
<1>5. Stage'
  BY <1>1 DEF IInv, Stage, IOFrame, Before
<1>6. Handles'
  BY <1>1, <1>2 DEF IInv, Handles, IOFrame
<1>7. Outcome'
  <2>1. fsize \in Nat /\ fsize > 0 /\ fsize' = fsize
    BY <1>1 DEF IInv, Typed, Outcome, IOFrame
  <2>2. failed \in BOOLEAN /\ (failed => hadError) /\ (hadError => failed)
    BY <1>1, <2>1 DEF IInv, Outcome
  <2>3. failed' \in BOOLEAN /\ (failed' => hadError') /\ (hadError' => failed')
    <3>1. CASE UNCHANGED <<hadError, failed>>
      BY <2>2, <3>1
    <3>2. CASE hadError' = TRUE /\ failed' = TRUE
      BY <3>2
    <3> QED
      BY <3>1, <3>2
  <2> QED
    BY <2>1, <2>3 DEF Outcome
<1> QED
  BY <1>3, <1>4, <1>5, <1>6, <1>7 DEF IInv

\* Beginning an operation: the local handle is closed by now only after an error.
LEMMA Begins ==
    ASSUME IInv, step = "io", NEW side, Begin(side)
    PROVE  abused' \in BOOLEAN /\ (abused' => hadError)
<1>1. closed # {} => hadError
  BY DEF IInv, Handles
<1>2. abused' = (abused \/ (side \in closed /\ ~Remote(side)))
  BY DEF Begin
<1>3. abused' \in BOOLEAN
  BY <1>2, Zenon
<1>4. abused' => hadError
  BY <1>1, <1>2 DEF IInv, Handles
<1> QED
  BY <1>3, <1>4

LEMMA ReadStep ==
    ASSUME IInv, NEW op \in ops, NEW n \in 0..ChunkSize, ReadSome(op, n), NoError, UNCHANGED unchangedByIO
    PROVE  IInv'
<1>1. /\ step = "io" /\ ~success /\ (closed # {} => hadError)
      /\ op \in Chunks /\ Fit(op) /\ Buffered(op) /\ Stored(op)
      /\ fsize \in Nat /\ bufsize \in Nat /\ pdst \in 0..fsize /\ total \in Nat
      /\ maxDataLen \in Nat \ {0} /\ ChunkSize \in Nat
      /\ DOMAIN file = 0..(fsize - 1) /\ DOMAIN readbuf = 0..(bufsize - 1)
  BY InIO
<1>2. /\ op.psrc \in Nat /\ op.pos \in Nat /\ op.chunk \in Nat /\ op.len \in Nat
      /\ op.nb \in Nat /\ op.dead \in BOOLEAN
      /\ op.chunk > 0 /\ op.nb <= op.len /\ op.len <= op.chunk /\ op.chunk <= ChunkSize
      /\ op.psrc + op.chunk <= bufsize /\ op.pos + op.chunk <= pdst
  BY <1>1, ChunkFields
<1>3. /\ op.kind = "read" /\ n \in 0..Request(op)
      /\ readbuf' = [q \in DOMAIN readbuf |->
                        IF q - op.psrc - op.nb \in 0..(n - 1) THEN op.pos + q - op.psrc
                        ELSE readbuf[q]]
      /\ \/ ops' = (ops \ {op}) \cup {Continue(op, n)} /\ UNCHANGED abused
         \/ ops' = (ops \ {op}) \cup {StartWrite(op, op.nb + n)} /\ Begin("dst")
      /\ UNCHANGED <<file, total, pdst, step, deadStep>>
  BY DEF ReadSome
<1>4. /\ IOFrame /\ UNCHANGED <<hadError, failed, closing, silent, cbs, success>>
  BY DEF IOFrame, unchangedByIO, config, NoError, NoCallback
<1>5. op.len = op.chunk /\ n \in Nat /\ op.nb + n <= op.len
  <2>1. op.len = op.chunk
    BY <1>1, <1>3 DEF Fit
  <2>2. Request(op) \in 0..(op.len - op.nb)
    BY <1>1, <1>2, RequestBound
  <2> QED
    BY <1>2, <1>3, <2>1, <2>2
<1>6. DOMAIN readbuf' = DOMAIN readbuf
  BY <1>3
<1>6a. /\ op.psrc \in Nat /\ op.nb \in Nat /\ n \in Nat /\ ChunkSize \in Nat /\ bufsize \in Nat
      /\ op.nb + n <= ChunkSize /\ op.psrc + (op.nb + n) <= bufsize
  BY <1>1, <1>2, <1>5
<1>7. Leaves(op)
  <2>1. ASSUME NEW q \in 0..(bufsize - 1), q < op.psrc \/ q >= op.psrc + ChunkSize
        PROVE  readbuf'[q] = readbuf[q]
    <3>1. ~(q - op.psrc - op.nb \in 0..(n - 1))
      BY <1>6a, <2>1
    <3> QED
      BY <1>1, <1>3, <3>1
  <2> QED
    BY <1>1, <1>3, <1>4, <2>1 DEF Leaves, IOFrame
<1>8. ASSUME NEW j \in 0..(op.nb + n - 1) PROVE readbuf'[op.psrc + j] = op.pos + j
  <2> DEFINE q == op.psrc + j
  <2>1. q \in DOMAIN readbuf
    BY <1>1, <1>6a, <1>8
  <2>2. q - op.psrc - op.nb = j - op.nb /\ op.pos + q - op.psrc = op.pos + j
    BY <1>2
  <2>3. j < op.nb => readbuf[q] = op.pos + j
    <3>1. j < op.nb => j \in 0..(op.nb - 1)
      BY <1>2
    <3>2. \A i \in 0..(op.nb - 1) : readbuf[op.psrc + i] = op.pos + i
      BY <1>1, <1>3 DEF Buffered
    <3> QED
      BY <3>1, <3>2
  <2> HIDE DEF q
  <2>4. readbuf'[q] = IF q - op.psrc - op.nb \in 0..(n - 1) THEN op.pos + q - op.psrc
                      ELSE readbuf[q]
    BY <1>3, <2>1
  <2>5. j - op.nb \in 0..(n - 1) <=> j >= op.nb
    BY <1>6a, <1>8
  <2>6. readbuf'[q] = op.pos + j
    BY <1>6a, <2>2, <2>3, <2>4, <2>5
  <2> QED
    BY <2>6 DEF q
<1>9. \E new \in Chunks :
         /\ ops' = (ops \ {op}) \cup {new}
         /\ new.psrc = op.psrc /\ new.pos = op.pos /\ new.chunk = op.chunk
         /\ \/ new.kind = "read" /\ new.len = op.len /\ new.nb = op.nb + n
            \/ new.kind = "write" /\ new.len = op.nb + n /\ new.nb = 0
  <2>1. CASE ops' = (ops \ {op}) \cup {Continue(op, n)}
    <3> DEFINE dead == Remote(Side(op)) /\ ended
               k == op.nb + n
    <3>1. dead \in BOOLEAN
      OBVIOUS
    <3>2. k \in Nat
      BY <1>2, <1>5
    <3>3. \A m \in Nat, d \in BOOLEAN : LET o == [op EXCEPT !.nb = m, !.dead = d]
                                        IN  /\ o \in Chunks /\ o.psrc = op.psrc /\ o.pos = op.pos
                                            /\ o.chunk = op.chunk /\ o.kind = op.kind
                                            /\ o.len = op.len /\ o.nb = m
      BY <1>1 DEF Chunks
    <3> DEFINE new == Continue(op, n)
    <3>4. new = [op EXCEPT !.nb = k, !.dead = dead]
      BY DEF Continue
    <3> HIDE DEF new
    <3>5. /\ new \in Chunks /\ new.psrc = op.psrc /\ new.pos = op.pos
          /\ new.chunk = op.chunk /\ new.kind = op.kind /\ new.len = op.len /\ new.nb = op.nb + n
      <4> HIDE DEF dead, k
      <4>1. /\ new \in Chunks /\ new.psrc = op.psrc /\ new.pos = op.pos
            /\ new.chunk = op.chunk /\ new.kind = op.kind /\ new.len = op.len /\ new.nb = k
        BY <3>1, <3>2, <3>3, <3>4, Zenon
      <4> QED
        BY <4>1 DEF k
    <3>6. ops' = (ops \ {op}) \cup {new}
      BY <2>1 DEF new
    <3> QED
      BY <1>3, <3>5, <3>6
  <2>2. CASE ops' = (ops \ {op}) \cup {StartWrite(op, op.nb + n)}
    <3>1. (Remote("dst") /\ ended) \in BOOLEAN
      OBVIOUS
    <3>2. op.nb + n \in Nat
      BY <1>2, <1>5
    <3> DEFINE new == StartWrite(op, op.nb + n)
    <3>3. /\ new \in Chunks /\ new.psrc = op.psrc /\ new.pos = op.pos
          /\ new.chunk = op.chunk /\ new.kind = "write" /\ new.len = op.nb + n /\ new.nb = 0
      BY <1>2, <3>1, <3>2 DEF StartWrite, Op, Chunks
    <3> HIDE DEF new
    <3>4. ops' = (ops \ {op}) \cup {new}
      BY <2>2 DEF new
    <3> QED
      BY <3>3, <3>4
  <2> QED
    BY <1>3, <2>1, <2>2
<1>10. PICK new \in Chunks :
         /\ ops' = (ops \ {op}) \cup {new}
         /\ new.psrc = op.psrc /\ new.pos = op.pos /\ new.chunk = op.chunk
         /\ \/ new.kind = "read" /\ new.len = op.len /\ new.nb = op.nb + n
            \/ new.kind = "write" /\ new.len = op.nb + n /\ new.nb = 0
  BY <1>9
<1>11. Fit(new)'
  <2>1. Fit(new)
    BY <1>1, <1>2, <1>5, <1>10 DEF Fit
  <2> QED
    BY <1>3, <1>4, <2>1 DEF Fit, IOFrame, Least
<1>12. Buffered(new)'
  <2> DEFINE m == IF new.kind = "read" THEN new.nb ELSE new.len
  <2>1. m = op.nb + n /\ new.psrc = op.psrc /\ new.pos = op.pos
    BY <1>10
  <2>2. Buffered(new)' = \A j \in 0..m - 1 : readbuf'[new.psrc + j] = new.pos + j
    BY DEF Buffered
  <2> HIDE DEF m
  <2>3. \A j \in 0..m - 1 : readbuf'[new.psrc + j] = new.pos + j
    <3>1. SUFFICES ASSUME NEW j \in 0..m - 1 PROVE readbuf'[new.psrc + j] = new.pos + j
      OBVIOUS
    <3>2. j \in 0..(op.nb + n - 1)
      BY <1>6a, <2>1, <3>1
    <3>3. readbuf'[op.psrc + j] = op.pos + j
      BY <1>8, <3>2, Zenon
    <3> QED
      BY <2>1, <3>3
  <2> QED
    BY <2>2, <2>3
<1>13. Stored(new)'
  BY <1>10 DEF Stored
<1>14. ChunksFine' /\ ops' \subseteq Chunks
  <2>1. op.pos <= new.pos /\ new.pos + new.chunk <= op.pos + op.chunk
    BY <1>2, <1>10
  <2> QED
    BY <1>7, <1>10, <1>11, <1>12, <1>13, <2>1, Swapped
<1>15. Progress'
  <2>1. \A b \in ops' : b \in ops \/ (op.pos <= b.pos /\ b.pos + b.chunk <= op.pos + op.chunk)
    BY <1>2, <1>10
  <2> QED
    BY <1>3, <1>4, <1>7, <1>14, <2>1, StaysCounted
<1>16. abused' \in BOOLEAN /\ (abused' => hadError)
  BY <1>1, <1>3, Begins DEF IInv, Flags, Handles
<1>17. /\ deadStep' \in BOOLEAN /\ hadError' \in BOOLEAN /\ silent' \in BOOLEAN /\ cbs' \in Nat
       /\ closing' \subseteq {Local} /\ (closing' # {} => hadError')
  BY <1>3, <1>4 DEF IInv, Flags, Typed, Handles
<1>18. pdst' \in 0..fsize /\ total' \in Nat /\ DOMAIN file' = DOMAIN file /\ step' = step
  BY <1>1, <1>3
<1> QED
  BY <1>4, <1>6, <1>14, <1>15, <1>16, <1>17, <1>18, IOSettled

\* The bytes of a request are in the file, and nothing else has changed there.
LEMMA WriteLands ==
    ASSUME IInv, NEW op \in ops, op.kind = "write", NEW n \in Nat, op.nb + n <= op.len,
           file' = [p \in DOMAIN file |->
                      IF p - op.pos - op.nb \in 0..(n - 1) THEN readbuf[op.psrc + p - op.pos]
                      ELSE file[p]],
           readbuf' = readbuf, pdst' \in Nat, pdst' >= pdst, fsize' = fsize, bufsize' = bufsize
    PROVE  /\ Leaves(op) /\ DOMAIN file' = DOMAIN file
           /\ \A j \in 0..(op.nb + n - 1) : file'[op.pos + j] = op.pos + j
<1>1. /\ op \in Chunks /\ Fit(op) /\ Buffered(op) /\ Stored(op)
      /\ fsize \in Nat /\ bufsize \in Nat /\ pdst \in 0..fsize /\ ChunkSize \in Nat
      /\ DOMAIN file = 0..(fsize - 1)
  BY InIO
<1>2. /\ op.psrc \in Nat /\ op.pos \in Nat /\ op.chunk \in Nat /\ op.len \in Nat /\ op.nb \in Nat
      /\ op.len <= op.chunk /\ op.pos + op.chunk <= fsize
  BY <1>1, ChunkFields
<1>3. DOMAIN file' = DOMAIN file
  OBVIOUS
<1>4. ASSUME NEW p \in 0..(fsize - 1), p < op.pos \/ p >= op.pos + op.chunk
      PROVE  file'[p] = file[p]
  <2>1. ~(p - op.pos - op.nb \in 0..(n - 1))
    BY <1>2, <1>4
  <2> QED
    BY <1>1, <2>1
<1>5. Leaves(op)
  BY <1>4 DEF Leaves
<1>6. ASSUME NEW j \in 0..(op.nb + n - 1) PROVE file'[op.pos + j] = op.pos + j
  <2> DEFINE p == op.pos + j
  <2>1. p \in DOMAIN file
    <3>1. j \in Nat /\ j < op.nb + n
      BY <1>2, <1>6
    <3>2. j < op.chunk
      BY <1>2, <3>1
    <3>3. op.pos + j \in 0..(fsize - 1)
      BY <1>1, <1>2, <3>1, <3>2
    <3> QED
      BY <1>1, <3>3
  <2>2. p - op.pos - op.nb = j - op.nb /\ op.psrc + p - op.pos = op.psrc + j
    BY <1>2
  <2>3. j < op.nb => file[p] = op.pos + j
    <3>1. j < op.nb => j \in 0..(op.nb - 1)
      BY <1>2
    <3>2. \A i \in 0..(op.nb - 1) : file[op.pos + i] = op.pos + i
      BY <1>1 DEF Stored
    <3> QED
      BY <3>1, <3>2
  <2>4. readbuf[op.psrc + j] = op.pos + j
    <3>1. j \in 0..(op.len - 1)
      BY <1>2, <1>6
    <3>2. \A i \in 0..(op.len - 1) : readbuf[op.psrc + i] = op.pos + i
      BY <1>1 DEF Buffered
    <3> QED
      BY <3>1, <3>2
  <2> HIDE DEF p
  <2>5. file'[p] = IF p - op.pos - op.nb \in 0..(n - 1) THEN readbuf[op.psrc + p - op.pos] ELSE file[p]
    BY <2>1
  <2>6. j - op.nb \in 0..(n - 1) <=> j >= op.nb
    BY <1>2, <1>6
  <2>7. file'[p] = op.pos + j
    BY <1>2, <2>2, <2>3, <2>4, <2>5, <2>6
  <2> QED
    BY <2>7 DEF p
<1> QED
  BY <1>3, <1>5, <1>6

\* A read that begins, of a chunk at pos into the slot at psrc.
LEMMA NewRead ==
    ASSUME NEW psrc \in Nat, NEW pos \in Nat, NEW chunk \in Nat
    PROVE  \E new \in Chunks : /\ new = SingleRead(psrc, pos, chunk)
                               /\ new.kind = "read" /\ new.psrc = psrc /\ new.pos = pos
                               /\ new.len = chunk /\ new.chunk = chunk /\ new.nb = 0
<1>1. (Remote("src") /\ ended) \in BOOLEAN
  OBVIOUS
<1> DEFINE new == SingleRead(psrc, pos, chunk)
<1>2. /\ new \in Chunks
      /\ new.kind = "read" /\ new.psrc = psrc /\ new.pos = pos
      /\ new.len = chunk /\ new.chunk = chunk /\ new.nb = 0
  BY <1>1 DEF SingleRead, Op, Chunks
<1> QED
  BY <1>2

\* Nothing of a read that begins is in the buffer.
LEMMA FreshRead ==
    ASSUME NEW new \in Chunks, new.kind = "read", new.nb = 0
    PROVE  Buffered(new)' /\ Stored(new)'
BY DEF Buffered, Stored

\* A read or a write that goes on is the same chunk, further on.
LEMMA Continues ==
    ASSUME NEW op \in Chunks, NEW n \in Nat
    PROVE  \E new \in Chunks : /\ new = Continue(op, n)
                               /\ new.psrc = op.psrc /\ new.pos = op.pos /\ new.chunk = op.chunk
                               /\ new.kind = op.kind /\ new.len = op.len /\ new.nb = op.nb + n
<1>1. (Remote(Side(op)) /\ ended) \in BOOLEAN
  OBVIOUS
<1>2. op.nb + n \in Nat
  BY DEF Chunks
<1>3. \A m \in Nat, d \in BOOLEAN : LET o == [op EXCEPT !.nb = m, !.dead = d]
                                    IN  /\ o \in Chunks /\ o.psrc = op.psrc /\ o.pos = op.pos
                                        /\ o.chunk = op.chunk /\ o.kind = op.kind
                                        /\ o.len = op.len /\ o.nb = m
  BY DEF Chunks
<1>4. Continue(op, n) = [op EXCEPT !.nb = op.nb + n, !.dead = Remote(Side(op)) /\ ended]
  BY DEF Continue
<1> QED
  BY <1>1, <1>2, <1>3, <1>4

\* A write that is cut goes on.
LEMMA WriteGoesOn ==
    ASSUME IInv, NEW op \in ops, op.kind = "write", NEW n \in Nat, op.nb + n < op.len,
           file' = [p \in DOMAIN file |->
                      IF p - op.pos - op.nb \in 0..(n - 1) THEN readbuf[op.psrc + p - op.pos]
                      ELSE file[p]],
           ops' = (ops \ {op}) \cup {Continue(op, n)},
           UNCHANGED <<total, pdst, step, deadStep, abused, readbuf>>,
           IOFrame, UNCHANGED <<hadError, failed, closing, silent, cbs, success>>
    PROVE  IInv'
<1>1. /\ step = "io" /\ op \in Chunks /\ Fit(op) /\ Buffered(op)
      /\ fsize \in Nat /\ bufsize \in Nat /\ pdst \in 0..fsize /\ total \in Nat
      /\ ChunkSize \in Nat
  BY InIO
<1>2. /\ op.psrc \in Nat /\ op.pos \in Nat /\ op.chunk \in Nat /\ op.len \in Nat /\ op.nb \in Nat
  BY <1>1, ChunkFields
<1>3. Leaves(op) /\ DOMAIN file' = DOMAIN file
      /\ \A j \in 0..(op.nb + n - 1) : file'[op.pos + j] = op.pos + j
  <2>1. op.nb + n <= op.len /\ pdst' \in Nat /\ pdst' >= pdst
    BY <1>1, <1>2
  <2>2. fsize' = fsize /\ bufsize' = bufsize /\ readbuf' = readbuf
    BY DEF IOFrame
  <2> QED
    BY <2>1, <2>2, WriteLands
<1>4. PICK new \in Chunks :
         /\ ops' = (ops \ {op}) \cup {new}
         /\ new.psrc = op.psrc /\ new.pos = op.pos /\ new.chunk = op.chunk
         /\ new.kind = "write" /\ new.len = op.len /\ new.nb = op.nb + n
  <2>1. PICK new \in Chunks : /\ new = Continue(op, n)
                              /\ new.psrc = op.psrc /\ new.pos = op.pos /\ new.chunk = op.chunk
                              /\ new.kind = op.kind /\ new.len = op.len /\ new.nb = op.nb + n
    BY <1>1, Continues, Zenon
  <2>2. ops' = (ops \ {op}) \cup {new} /\ new.kind = "write"
    BY <2>1
  <2> QED
    BY <2>1, <2>2, Zenon
<1>5. Fit(new)'
  <2>1. Fit(new)
    BY <1>1, <1>2, <1>4 DEF Fit
  <2> QED
    BY <2>1 DEF Fit, IOFrame, Least
<1>6. Buffered(new)'
  <2>1. Buffered(new)
    BY <1>1, <1>4 DEF Buffered
  <2> QED
    BY <2>1 DEF Buffered
<1>7. Stored(new)'
  <2>1. ASSUME NEW j \in 0..(new.nb - 1) PROVE file'[new.pos + j] = new.pos + j
    <3>1. j \in 0..(op.nb + n - 1)
      BY <1>2, <1>4
    <3>2. file'[op.pos + j] = op.pos + j
      BY <1>3, <3>1, Zenon
    <3> QED
      BY <1>4, <3>2, Zenon
  <2> QED
    BY <2>1, Zenon DEF Stored
<1>8. ChunksFine' /\ ops' \subseteq Chunks
  <2>1. op.pos <= new.pos /\ new.pos + new.chunk <= op.pos + op.chunk
    BY <1>2, <1>4
  <2> QED
    BY <1>3, <1>4, <1>5, <1>6, <1>7, <2>1, Swapped
<1>9. Progress'
  <2>1. \A b \in ops' : b \in ops \/ (op.pos <= b.pos /\ b.pos + b.chunk <= op.pos + op.chunk)
    BY <1>2, <1>4
  <2> QED
    BY <1>3, <1>8, <2>1, StaysCounted
<1>10. /\ deadStep' \in BOOLEAN /\ hadError' \in BOOLEAN /\ silent' \in BOOLEAN /\ cbs' \in Nat
       /\ closing' \subseteq {Local} /\ (closing' # {} => hadError')
       /\ abused' \in BOOLEAN /\ (abused' => hadError')
  BY DEF IInv, Flags, Typed, Handles
<1>11. pdst' \in 0..fsize /\ total' \in Nat /\ DOMAIN readbuf' = DOMAIN readbuf
  BY <1>1
<1> QED
  BY <1>3, <1>8, <1>9, <1>10, <1>11, IOSettled

\* A chunk is written and another read begins in its slot.
LEMMA WriteReadsOn ==
    ASSUME IInv, NEW op \in ops, op.kind = "write", Leaves(op), DOMAIN file' = DOMAIN file,
           \A j \in 0..(op.len - 1) : file'[op.pos + j] = op.pos + j,
           NEW pos \in Nat, NEW chunk \in Nat, chunk > 0, chunk <= Least(ChunkSize, fsize),
           ops' = (ops \ {op}) \cup {SingleRead(op.psrc, pos, chunk)},
           \/ pos = op.pos + op.len /\ chunk = op.chunk - op.len
           \/ pos = pdst,
           total' = total + op.len, pdst' \in 0..fsize, pos + chunk <= pdst',
           UNCHANGED <<step, deadStep, readbuf>>, Begin("src"),
           IOFrame, UNCHANGED <<hadError, failed, closing, silent, cbs, success>>
    PROVE  IInv'
<1>1. /\ step = "io" /\ op \in Chunks /\ Fit(op)
      /\ fsize \in Nat /\ bufsize \in Nat /\ pdst \in 0..fsize /\ total \in Nat
      /\ ChunkSize \in Nat
  BY InIO
<1>2. /\ op.psrc \in Nat /\ op.pos \in Nat /\ op.chunk \in Nat /\ op.len \in Nat /\ op.nb \in Nat
      /\ op.len <= op.chunk
  BY <1>1, ChunkFields
<1>3. PICK new \in Chunks : /\ new = SingleRead(op.psrc, pos, chunk)
                            /\ new.kind = "read" /\ new.psrc = op.psrc /\ new.pos = pos
                            /\ new.len = chunk /\ new.chunk = chunk /\ new.nb = 0
  <2>1. \A s \in Nat :
           \E new \in Chunks : /\ new = SingleRead(s, pos, chunk)
                               /\ new.kind = "read" /\ new.psrc = s /\ new.pos = pos
                               /\ new.len = chunk /\ new.chunk = chunk /\ new.nb = 0
    BY NewRead
  <2>2. op.psrc \in Nat
    BY <1>2
  <2> QED
    BY <2>1, <2>2, Zenon
<1>4. Fit(new)'
  <2>1. op.psrc + Least(ChunkSize, fsize) <= bufsize
    BY <1>1 DEF Fit
  <2>2. fsize' = fsize /\ bufsize' = bufsize
    BY DEF IOFrame
  <2> QED
    BY <1>3, <2>1, <2>2 DEF Fit, Least
<1>5. Buffered(new)' /\ Stored(new)'
  BY <1>3, FreshRead
<1>6. ChunksFine' /\ ops' \subseteq Chunks
  <2>1. \/ op.pos <= new.pos /\ new.pos + new.chunk <= op.pos + op.chunk
        \/ pdst <= new.pos
    BY <1>1, <1>2, <1>3
  <2>2. ops' = (ops \ {op}) \cup {new}
    BY <1>3
  <2> QED
    BY <1>3, <1>4, <1>5, <2>1, <2>2, Swapped
<1>7. Progress'
  <2>1. \A b \in ops' : \/ b \in ops /\ b # op
                        \/ op.pos + op.len <= b.pos /\ b.pos + b.chunk <= op.pos + op.chunk
                        \/ pdst <= b.pos
    BY <1>1, <1>2, <1>3
  <2> QED
    BY <1>6, <2>1, Counts
<1>8. /\ deadStep' \in BOOLEAN /\ hadError' \in BOOLEAN /\ silent' \in BOOLEAN /\ cbs' \in Nat
      /\ closing' \subseteq {Local} /\ (closing' # {} => hadError')
  BY DEF IInv, Flags, Typed, Handles
<1>9. abused' \in BOOLEAN /\ (abused' => hadError')
  BY <1>1, Begins
<1>10. total' \in Nat /\ DOMAIN readbuf' = DOMAIN readbuf
  BY <1>1, <1>2
<1> QED
  BY <1>6, <1>7, <1>8, <1>9, <1>10, IOSettled

\* A chunk is written and its slot is left: all is copied, or others are still under way.
LEMMA WriteEnds ==
    ASSUME IInv, NEW op \in ops, op.kind = "write", Leaves(op), DOMAIN file' = DOMAIN file,
           \A j \in 0..(op.len - 1) : file'[op.pos + j] = op.pos + j,
           ops' = ops \ {op},
           \/ total + op.len = fsize /\ Await("closeDst", "dst")
           \/ UNCHANGED <<step, deadStep>>,
           total' = total + op.len, UNCHANGED <<pdst, readbuf>>, Begin("src"),
           IOFrame, UNCHANGED <<hadError, failed, closing, silent, cbs, success>>
    PROVE  IInv'
<1>1. /\ step = "io" /\ op \in Chunks /\ Fit(op)
      /\ fsize \in Nat /\ bufsize \in Nat /\ pdst \in 0..fsize /\ total \in Nat
      /\ ChunkSize \in Nat
  BY InIO
<1>2. op.len \in Nat
  BY <1>1, ChunkFields
<1>3. ChunksFine' /\ ops' \subseteq Chunks
  BY Dropped
<1>4. Progress' /\ (hadError => total' # fsize)
  BY <1>3, Counts
<1>5. /\ hadError' \in BOOLEAN /\ silent' \in BOOLEAN /\ cbs' \in Nat
      /\ closing' \subseteq {Local} /\ (closing' # {} => hadError')
  BY DEF IInv, Flags, Typed, Handles
<1>6. abused' \in BOOLEAN /\ (abused' => hadError')
  BY <1>1, Begins
<1>7. total' \in Nat /\ DOMAIN readbuf' = DOMAIN readbuf /\ pdst' \in 0..fsize
  BY <1>1, <1>2
<1>8. deadStep' \in BOOLEAN
  <2>1. (Remote("dst") /\ ended) \in BOOLEAN
    OBVIOUS
  <2> QED
    BY <2>1 DEF Await, IInv, Flags
<1>9. step' = step \/ (step' = "closeDst" /\ total' = fsize)
  BY DEF Await
<1>10. ASSUME step' = "closeDst", total' = fsize PROVE ops' = {} /\ ~hadError'
  <2>1. Local' = Local
    BY DEF Local, IOFrame
  <2>2. Typed'
    BY <1>3, <1>5, <1>7, <1>10, <2>1 DEF IInv, Typed, IOFrame, Steps
  <2>3. (total = fsize => ops = {})'
    BY <1>3, <1>4, <2>2, AllCounted, PTL
  <2> QED
    BY <1>4, <1>10, <2>3 DEF IOFrame
<1>11. step' = step \/ (step' = "closeDst" /\ total' = fsize /\ ops' = {} /\ ~hadError')
  BY <1>9, <1>10
<1> QED
  BY <1>3, <1>4, <1>5, <1>6, <1>7, <1>8, <1>11, IOSettled

LEMMA WriteStep ==
    ASSUME IInv, NEW op \in ops, WriteSome(op), NoError, UNCHANGED unchangedByIO
    PROVE  IInv'
<1>1. /\ step = "io" /\ op \in Chunks /\ Fit(op)
      /\ fsize \in Nat /\ bufsize \in Nat /\ pdst \in 0..fsize /\ total \in Nat
      /\ maxDataLen \in Nat \ {0} /\ ChunkSize \in Nat
  BY InIO
<1>2. /\ op.psrc \in Nat /\ op.pos \in Nat /\ op.chunk \in Nat /\ op.len \in Nat /\ op.nb \in Nat
      /\ op.nb <= op.len /\ op.len <= op.chunk /\ op.chunk <= ChunkSize /\ op.chunk <= fsize
      /\ op.pos + op.chunk <= pdst /\ op.chunk > 0
  BY <1>1, ChunkFields
<1>3. PICK n \in 0..(op.len - op.nb) : n = Request(op)
  BY <1>1, <1>2, RequestBound
<1>4. /\ op.kind = "write"
      /\ file' = [p \in DOMAIN file |->
                     IF p - op.pos - op.nb \in 0..(n - 1) THEN readbuf[op.psrc + p - op.pos]
                     ELSE file[p]]
      /\ UNCHANGED readbuf
      /\ IF op.nb + n < op.len
         THEN /\ ops' = (ops \ {op}) \cup {Continue(op, n)}
              /\ UNCHANGED <<total, pdst, step, deadStep, abused>>
         ELSE Written(op) /\ Begin("src")
  BY <1>3 DEF WriteSome
<1>5. IOFrame /\ UNCHANGED <<hadError, failed, closing, silent, cbs, success>>
  BY DEF IOFrame, unchangedByIO, config, NoError, NoCallback
<1>6. n \in Nat
  BY <1>2, <1>3
<1>7. CASE op.nb + n < op.len
  BY <1>4, <1>5, <1>6, <1>7, WriteGoesOn
<1>8. CASE ~(op.nb + n < op.len)
  <2>1. op.nb + n = op.len
    BY <1>2, <1>3, <1>8
  <2>2. Written(op) /\ Begin("src")
    BY <1>4, <1>8
  <2>3. ASSUME pdst' \in Nat, pdst' >= pdst
        PROVE  /\ Leaves(op) /\ DOMAIN file' = DOMAIN file
               /\ \A j \in 0..(op.len - 1) : file'[op.pos + j] = op.pos + j
    <3>1. op.nb + n <= op.len
      BY <1>2, <2>1
    <3>2. fsize' = fsize /\ bufsize' = bufsize /\ readbuf' = readbuf
      BY <1>4, <1>5 DEF IOFrame
    <3>3. /\ Leaves(op) /\ DOMAIN file' = DOMAIN file
          /\ \A j \in 0..(op.nb + n - 1) : file'[op.pos + j] = op.pos + j
      BY <1>4, <1>6, <2>3, <3>1, <3>2, WriteLands, Zenon
    <3>4. ASSUME NEW j \in 0..(op.len - 1) PROVE file'[op.pos + j] = op.pos + j
      <4>1. j \in 0..(op.nb + n - 1)
        BY <1>2, <2>1
      <4> QED
        BY <3>3, <4>1, Zenon
    <3> QED
      BY <3>3, <3>4, Zenon
  <2>4. total' = total + op.len
    BY <2>2 DEF Written
  <2>5. CASE op.len < op.chunk
    <3>1. /\ ops' = (ops \ {op}) \cup {SingleRead(op.psrc, op.pos + op.len, op.chunk - op.len)}
          /\ UNCHANGED <<pdst, step, deadStep>>
      BY <2>2, <2>5 DEF Written
    <3>2. PICK pos \in Nat, chunk \in Nat : pos = op.pos + op.len /\ chunk = op.chunk - op.len
      BY <1>2, <2>5
    <3>3. /\ chunk > 0 /\ chunk <= Least(ChunkSize, fsize) /\ pos + chunk <= pdst'
          /\ pdst' \in 0..fsize /\ pdst' \in Nat /\ pdst' >= pdst
      BY <1>1, <1>2, <2>5, <3>1, <3>2 DEF Least
    <3>4. ops' = (ops \ {op}) \cup {SingleRead(op.psrc, pos, chunk)}
      BY <3>1, <3>2
    <3> QED
      BY <1>4, <1>5, <2>2, <2>3, <2>4, <3>1, <3>2, <3>3, <3>4, WriteReadsOn
  <2>6. CASE ~(op.len < op.chunk) /\ (total + op.len = fsize \/ pdst >= fsize)
    <3>1. /\ ops' = ops \ {op} /\ UNCHANGED pdst
          /\ \/ total + op.len = fsize /\ Await("closeDst", "dst")
             \/ UNCHANGED <<step, deadStep>>
      BY <2>2, <2>6 DEF Written
    <3>2. pdst' \in Nat /\ pdst' >= pdst
      BY <1>1, <3>1
    <3> QED
      BY <1>4, <1>5, <2>2, <2>3, <2>4, <3>1, <3>2, WriteEnds
  <2>7. CASE ~(op.len < op.chunk) /\ total + op.len # fsize /\ ~(pdst >= fsize)
    <3>1. /\ ops' = (ops \ {op}) \cup {SingleRead(op.psrc, pdst, ChunkAt(pdst))}
          /\ pdst' = pdst + ChunkAt(pdst)
          /\ UNCHANGED <<step, deadStep>>
      BY <2>2, <2>7 DEF Written
    <3>2. PICK pos \in Nat, chunk \in Nat : pos = pdst /\ chunk = ChunkAt(pdst)
      <4>1. pdst \in Nat /\ pdst < fsize
        BY <1>1, <2>7
      <4>2. ChunkAt(pdst) \in Nat
        BY <1>1, <4>1, ChunkShape, Zenon
      <4> QED
        BY <4>1, <4>2, Zenon
    <3>3. chunk > 0 /\ chunk <= Least(ChunkSize, fsize) /\ pos + chunk <= fsize
      BY <1>1, <2>7, <3>2, ChunkShape
    <3>4. pos + chunk <= pdst' /\ pdst' \in 0..fsize /\ pdst' \in Nat /\ pdst' >= pdst
      BY <1>1, <3>1, <3>2, <3>3
    <3>5. ops' = (ops \ {op}) \cup {SingleRead(op.psrc, pos, chunk)}
      BY <3>1, <3>2
    <3> QED
      BY <1>4, <1>5, <2>2, <2>3, <2>4, <3>1, <3>2, <3>3, <3>4, <3>5, WriteReadsOn
  <2> QED
    BY <2>5, <2>6, <2>7
<1> QED
  BY <1>7, <1>8

\* onerror(): the callback is called at once only if no handle is open.
LEMMA Errors ==
    ASSUME IInv, NEW err \in BOOLEAN, NEW src \in BOOLEAN, NEW dst \in BOOLEAN, OnError(err, src, dst),
           err \/ src
    PROVE  /\ hadError' \in BOOLEAN /\ hadError' /\ closing' \subseteq {Local} /\ silent' \in BOOLEAN
           /\ cbs' \in Nat /\ success' = success
           /\ \/ cbs' = cbs /\ (hadError => closing' = closing)
              \/ cbs' = cbs + 1 /\ ~hadError /\ closing' = {} /\ ~src /\ ~dst
           /\ \/ hadError /\ UNCHANGED <<hadError, failed>>
              \/ ~hadError /\ hadError' = TRUE /\ failed' = err
<1> DEFINE open == {s \in {"src", "dst"} : IF s = "src" THEN src ELSE dst}
<1>1. /\ hadError \in BOOLEAN /\ closing \subseteq {Local} /\ silent \in BOOLEAN /\ cbs \in Nat
      /\ success \in BOOLEAN /\ get \in BOOLEAN
  BY DEF IInv, Flags, Typed
<1>2. CASE hadError
  BY <1>1, <1>2 DEF OnError
<1>3. CASE ~hadError
  <2>1. /\ hadError' = TRUE /\ failed' = err /\ closing' = {s \in open : ~Remote(s)}
        /\ IF open = {} THEN Callback(~err) ELSE NoCallback
        /\ silent' = (silent \/ (open # {} /\ closing' = {}))
    BY <1>3 DEF OnError
  <2>2. closing' \subseteq {Local}
    BY <1>1, <2>1, RemoteSides DEF Local
  <2>3. silent' \in BOOLEAN
    <3> HIDE DEF open
    <3> QED
      BY <2>1, Zenon
  <2>4. open = {} => ~src /\ ~dst
    <3>1. (src => "src" \in open) /\ (dst => "dst" \in open)
      OBVIOUS
    <3> HIDE DEF open
    <3> QED
      BY <3>1
  <2>5. success' = success /\ cbs' \in Nat /\ (cbs' = cbs \/ (cbs' = cbs + 1 /\ open = {}))
    <3> HIDE DEF open
    <3>1. CASE open = {}
      <4>1. err = TRUE
        BY <2>4, <3>1
      <4>2. Callback(FALSE)
        BY <2>1, <3>1, <4>1
      <4>3. (success \/ FALSE) = success
        BY <1>1
      <4> QED
        BY <1>1, <3>1, <4>2, <4>3 DEF Callback
    <3>2. CASE open # {}
      BY <1>1, <2>1, <3>2 DEF NoCallback
    <3> QED
      BY <3>1, <3>2
  <2> QED
    BY <1>3, <2>1, <2>2, <2>3, <2>4, <2>5
<1> QED
  BY <1>2, <1>3

\* A request that fails takes its chunk with it and leaves the others.
LEMMA IOErrorStep ==
    ASSUME IInv, NEW op \in ops, IOError(op)
    PROVE  IInv'
<1>1. /\ ops' = ops \ {op} /\ OnError(TRUE, srcHandle, dstHandle)
      /\ UNCHANGED <<step, deadStep, pdst, total, readbuf, file, abused>> /\ IOFrame
  BY DEF IOError, unchangedByIO, config, IOFrame
<1>2. Leaves(op)
  <2>1. pdst' \in Nat /\ pdst' >= pdst
    BY <1>1 DEF IInv, Typed
  <2> QED
    BY <1>1, <2>1 DEF Leaves, IOFrame
<1>3. ChunksFine' /\ ops' \subseteq Chunks
  BY <1>1, <1>2, Dropped
<1>4. Progress'
  <2>1. \A b \in ops' : b \in ops \/ (op.pos <= b.pos /\ b.pos + b.chunk <= op.pos + op.chunk)
    BY <1>1
  <2> QED
    BY <1>1, <1>2, <1>3, <2>1, StaysCounted
<1>5. /\ hadError' \in BOOLEAN /\ hadError' /\ closing' \subseteq {Local} /\ silent' \in BOOLEAN
      /\ cbs' \in Nat /\ success' = success
      /\ \/ cbs' = cbs /\ (hadError => closing' = closing)
         \/ cbs' = cbs + 1 /\ ~hadError /\ closing' = {} /\ ~srcHandle /\ ~dstHandle
      /\ UNCHANGED <<hadError, failed>> \/ (hadError' = TRUE /\ failed' = TRUE)
  <2>1. srcHandle \in BOOLEAN /\ dstHandle \in BOOLEAN /\ TRUE \in BOOLEAN
    BY DEF IInv, Flags
  <2> QED
    BY <1>1, <2>1, Errors
<1>6. \/ cbs' = cbs /\ (hadError => closing' = closing)
      \/ cbs' = cbs + 1 /\ ~hadError /\ hadError' /\ closing' = {} /\ ~LocalHandle
  BY <1>5 DEF LocalHandle
<1>7. /\ pdst' \in 0..fsize /\ total' \in Nat /\ DOMAIN file' = DOMAIN file
      /\ DOMAIN readbuf' = DOMAIN readbuf /\ step' = step /\ deadStep' \in BOOLEAN
      /\ abused' \in BOOLEAN
  BY <1>1 DEF IInv, Typed, Flags
<1> QED
  BY <1>1, <1>3, <1>4, <1>5, <1>6, <1>7, IOSettled

-----------------------------------------------------------------------------
(* Everything around them.                                                 *)

LEMMA Untouched ==
    ASSUME IInv, UNCHANGED <<fsize, total, file, pdst, bufsize, readbuf, ops, hadError, step>>
    PROVE  ChunksFine' /\ Progress' /\ ops' \subseteq Chunks
<1>1. ChunksFine'
  <2>1. ChunksFine
    BY DEF IInv
  <2> QED
    BY <2>1 DEF ChunksFine, Fit, Buffered, Stored, Apart, Least
<1>2. Progress'
  <2>1. Progress
    BY DEF IInv
  <2> QED
    BY <2>1 DEF Progress, Counted, Spare
<1> QED
  BY <1>1, <1>2 DEF IInv, Typed

\* No chunk is under way before the reads begin: the buffer may be anything.
LEMMA NoChunks ==
    ASSUME IInv, ops = {}, UNCHANGED <<fsize, total, file, pdst, ops>>, step' # "io"
    PROVE  ChunksFine' /\ Progress' /\ ops' \subseteq Chunks
<1>1. ChunksFine' /\ ops' \subseteq Chunks
  BY DEF ChunksFine
<1>2. Progress'
  <2>1. Progress
    BY DEF IInv
  <2> QED
    BY <2>1 DEF Progress, Counted, Spare
<1> QED
  BY <1>1, <1>2

\* The read of slot i: it is of the chunk at the same place of the file.
LEMMA FirstRead ==
    ASSUME fsize \in Nat, fsize > 0, NEW i \in Nat, i < BufferFor(fsize).concurrency
    PROVE  /\ i * ChunkSize \in Nat /\ i * ChunkSize < fsize
           /\ i * ChunkSize + Least(ChunkSize, fsize) <= BufferFor(fsize).bufsize
           /\ ChunkAt(i * ChunkSize) = Least(ChunkSize, fsize)
           /\ i * ChunkSize + ChunkAt(i * ChunkSize)
                 <= Least(BufferFor(fsize).concurrency * ChunkSize, fsize)
<1> DEFINE n == BufferFor(fsize).concurrency
           m == BufferFor(fsize).bufsize
           p == i * ChunkSize
<1>1. /\ n \in Nat /\ n > 0 /\ m \in Nat
      /\ \/ fsize < ChunkSize /\ n = 1 /\ m = fsize
         \/ fsize >= ChunkSize /\ m = n * ChunkSize /\ m <= fsize
  BY BufferShape
<1>2. ChunkSize \in Nat /\ ChunkSize > 0
  BY TransferAssumption
<1>3. CASE fsize < ChunkSize /\ n = 1 /\ m = fsize
  <2>1. i = 0 /\ p = 0 /\ n * ChunkSize = ChunkSize
    <3> HIDE DEF n, m
    <3>1. i = 0
      BY <1>3 DEF n
    <3> QED
      BY <1>2, <1>3, <3>1
  <2>2. ChunkAt(p) = fsize
    BY <1>2, <1>3, <2>1 DEF ChunkAt
  <2> HIDE DEF n, m, p
  <2>3. p \in Nat /\ p < fsize /\ p + Least(ChunkSize, fsize) <= m /\ ChunkAt(p) = Least(ChunkSize, fsize)
        /\ p + ChunkAt(p) <= Least(n * ChunkSize, fsize)
    BY <1>2, <1>3, <2>1, <2>2 DEF Least
  <2> QED
    BY <2>3 DEF n, m, p
<1>4. CASE fsize >= ChunkSize /\ m = n * ChunkSize /\ m <= fsize
  <2>1. i < n
    OBVIOUS
  <2> HIDE DEF n, m
  <2>2. p \in Nat /\ p + ChunkSize <= n * ChunkSize
    BY <1>1, <2>1, Slots
  <2> HIDE DEF p
  <2>3. ChunkAt(p) = ChunkSize
    BY <1>1, <1>2, <1>4, <2>2 DEF ChunkAt
  <2>4. p \in Nat /\ p < fsize /\ p + Least(ChunkSize, fsize) <= m /\ ChunkAt(p) = Least(ChunkSize, fsize)
        /\ p + ChunkAt(p) <= Least(n * ChunkSize, fsize)
    BY <1>1, <1>2, <1>4, <2>2, <2>3 DEF Least
  <2> QED
    BY <2>4 DEF n, m, p
<1> QED
  BY <1>1, <1>3, <1>4

\* startReads(): every slot gets its first chunk.
LEMMA ReadsStart ==
    ASSUME IInv, step \in Before, fsize > 0, bufsize' = BufferFor(fsize).bufsize,
           NEW n, n = BufferFor(fsize).concurrency, StartReads(n),
           UNCHANGED <<fsize, total, file, hadError>>
    PROVE  /\ ChunksFine' /\ Progress' /\ ops' \subseteq Chunks /\ pdst' \in 0..fsize
           /\ abused' = FALSE
<1>1. /\ fsize \in Nat /\ total = 0 /\ closed = {} /\ ~abused /\ abused \in BOOLEAN /\ ~hadError
      /\ ChunkSize \in Nat /\ ChunkSize > 0
  BY TransferAssumption DEF IInv, Flags, Typed, Stage
<1>2. n \in Nat /\ n > 0
  BY <1>1, BufferShape
<1>3. ASSUME NEW i \in 0..(n - 1)
      PROVE  /\ i * ChunkSize \in Nat /\ i * ChunkSize < fsize
             /\ i * ChunkSize + Least(ChunkSize, fsize) <= BufferFor(fsize).bufsize
             /\ ChunkAt(i * ChunkSize) = Least(ChunkSize, fsize)
             /\ i * ChunkSize + ChunkAt(i * ChunkSize) <= Least(n * ChunkSize, fsize)
  <2>1. i \in Nat /\ i < n
    BY <1>2
  <2> QED
    BY <1>1, <2>1, FirstRead
<1>4. {i \in 0..(n - 1) : i * ChunkSize < fsize} = 0..(n - 1)
  BY <1>3
<1>5. Cardinality(0..(n - 1)) = n
  BY <1>2, FS_Interval
<1>6. /\ ops' = {SingleRead(i * ChunkSize, i * ChunkSize, ChunkAt(i * ChunkSize)) : i \in 0..(n - 1)}
      /\ pdst' = Least(n * ChunkSize, fsize) /\ Begin("src")
  BY <1>4, <1>5 DEF StartReads
<1>7. ASSUME NEW op \in ops'
      PROVE  /\ op \in Chunks /\ Fit(op)' /\ Buffered(op)' /\ Stored(op)'
             /\ \E i \in 0..(n - 1) : op.psrc = i * ChunkSize /\ op.pos = i * ChunkSize
                                      /\ op.chunk = Least(ChunkSize, fsize)
                                      /\ op = SingleRead(i * ChunkSize, i * ChunkSize, ChunkAt(i * ChunkSize))
  <2>1. PICK i \in 0..(n - 1) :
           op = SingleRead(i * ChunkSize, i * ChunkSize, ChunkAt(i * ChunkSize))
    BY <1>6, <1>7
  <2>2. PICK p \in Nat, c \in Nat : p = i * ChunkSize /\ c = ChunkAt(i * ChunkSize)
    <3>1. ChunkAt(i * ChunkSize) \in Nat
      BY <1>1, <1>3, ChunkShape
    <3> QED
      BY <1>3, <3>1
  <2>3. /\ op \in Chunks /\ op.kind = "read" /\ op.psrc = p /\ op.pos = p
        /\ op.len = c /\ op.chunk = c /\ op.nb = 0
    <3>1. op = SingleRead(p, p, c)
      BY <2>1, <2>2
    <3> QED
      BY <3>1, NewRead
  <2>4. /\ p + Least(ChunkSize, fsize) <= BufferFor(fsize).bufsize /\ c = Least(ChunkSize, fsize)
        /\ p + c <= Least(n * ChunkSize, fsize) /\ c > 0
    <3>1. Least(ChunkSize, fsize) > 0
      BY <1>1 DEF Least
    <3> QED
      BY <1>3, <2>2, <3>1
  <2>5. Fit(op)'
    BY <1>6, <2>3, <2>4 DEF Fit, Least
  <2>6. Buffered(op)' /\ Stored(op)'
    BY <2>3, FreshRead
  <2> QED
    BY <2>1, <2>2, <2>3, <2>4, <2>5, <2>6
<1>8. ASSUME NEW a \in ops', NEW b \in ops', a # b PROVE Apart(a, b)
  <2>1. PICK i \in 0..(n - 1) : /\ a.psrc = i * ChunkSize /\ a.pos = i * ChunkSize
                                /\ a.chunk = Least(ChunkSize, fsize)
                                /\ a = SingleRead(i * ChunkSize, i * ChunkSize, ChunkAt(i * ChunkSize))
    BY <1>7, <1>8
  <2>2. PICK j \in 0..(n - 1) : /\ b.psrc = j * ChunkSize /\ b.pos = j * ChunkSize
                                /\ b.chunk = Least(ChunkSize, fsize)
                                /\ b = SingleRead(j * ChunkSize, j * ChunkSize, ChunkAt(j * ChunkSize))
    BY <1>7, <1>8
  <2>3. i \in Nat /\ j \in Nat /\ i # j
    BY <1>2, <1>8, <2>1, <2>2
  <2>4. i * ChunkSize + ChunkSize <= j * ChunkSize \/ j * ChunkSize + ChunkSize <= i * ChunkSize
    <3>1. CASE i < j
      BY <2>3, <3>1, Slots
    <3>2. CASE j < i
      BY <2>3, <3>2, Slots
    <3> QED
      BY <2>3, <3>1, <3>2
  <2>5. PICK p \in Nat, q \in Nat : p = i * ChunkSize /\ q = j * ChunkSize
    BY <1>3
  <2>6. p + ChunkSize <= q \/ q + ChunkSize <= p
    BY <2>4, <2>5
  <2>7. PICK c \in Nat : c = Least(ChunkSize, fsize) /\ c <= ChunkSize
    BY <1>1 DEF Least
  <2>8. /\ a.psrc = p /\ a.pos = p /\ a.chunk = c /\ b.psrc = q /\ b.pos = q /\ b.chunk = c
    BY <2>1, <2>2, <2>5, <2>7
  <2> QED
    BY <1>1, <2>6, <2>7, <2>8 DEF Apart
<1>9. ChunksFine' /\ ops' \subseteq Chunks
  BY <1>7, <1>8 DEF ChunksFine, Apart
<1>10. pdst' \in 0..fsize
  <2>1. n * ChunkSize \in Nat
    BY <1>1, <1>2
  <2> QED
    BY <1>1, <1>6, <2>1 DEF Least
<1>11. Progress'
  <2>1. Cardinality({}) = 0
    BY FS_EmptySet
  <2>2. Counted({})'
    BY <1>1, <2>1 DEF Counted
  <2> QED
    BY <2>2 DEF Progress
<1>12. abused' = FALSE
  BY <1>1, <1>6 DEF Begin
<1> QED
  BY <1>9, <1>10, <1>11, <1>12

ControlFrame ==
    UNCHANGED <<get, fsize, maxDataLen, hasMode, shrunk, ended, total, file>>

LEMMA InBefore ==
    ASSUME IInv, step \in Before
    PROVE  /\ ops = {} /\ pdst = 0 /\ total = 0 /\ closing = {} /\ closed = {}
           /\ cbs = 0 /\ ~hadError /\ ~failed /\ ~abused /\ ~success
           /\ fsize \in Nat /\ bufsize \in Nat /\ srcHandle \in BOOLEAN /\ dstHandle \in BOOLEAN
BY DEF IInv, Flags, Typed, Stage, Outcome

LEMMA SameBuffer ==
    ASSUME UNCHANGED fsize
    PROVE  /\ BufferFor(fsize).bufsize' = BufferFor(fsize).bufsize
           /\ BufferFor(fsize).concurrency' = BufferFor(fsize).concurrency
BY DEF BufferFor, Least

\* The transfer ends in onerror() before the first read.
LEMMA StopsEarly ==
    ASSUME IInv, step \in Before, NEW err \in BOOLEAN, NEW src \in BOOLEAN, NEW dst \in BOOLEAN,
           OnError(err, src, dst), Stop, err \/ (src /\ fsize = 0),
           ControlFrame, UNCHANGED <<pdst, ops, abused, closed>>,
           srcHandle' \in BOOLEAN, dstHandle' \in BOOLEAN, bufsize' \in Nat,
           ~src /\ ~dst => ~srcHandle' /\ ~dstHandle'
    PROVE  IInv'
<1>1. /\ ops = {} /\ pdst = 0 /\ total = 0 /\ closing = {} /\ closed = {}
      /\ cbs = 0 /\ ~abused /\ ~success
  BY InBefore
<1>2. /\ hadError' \in BOOLEAN /\ hadError' /\ closing' \subseteq {Local} /\ silent' \in BOOLEAN
      /\ cbs' \in Nat /\ success' = success
      /\ \/ cbs' = cbs
         \/ cbs' = cbs + 1 /\ closing' = {} /\ ~src /\ ~dst
      /\ failed' = err
  BY <1>1, InBefore, Errors
<1>3. ChunksFine' /\ Progress' /\ ops' \subseteq Chunks
  BY <1>1, NoChunks DEF ControlFrame, Stop
<1>4. Local' = Local
  BY DEF Local, ControlFrame
<1>5. Flags'
  BY <1>2 DEF IInv, Flags, ControlFrame, Stop
<1>6. Typed'
  BY <1>2, <1>3, <1>4 DEF IInv, Typed, ControlFrame, Stop, Steps
<1>7. Stage'
  BY <1>1, <1>2 DEF Stage, Stop, Before
<1>8. Handles'
  <2>1. cbs' > 0 => ~LocalHandle'
    BY <1>1, <1>2 DEF LocalHandle
  <2> QED
    BY <1>1, <1>2, <2>1 DEF Handles
<1>9. Outcome'
  BY <1>1, <1>2 DEF Outcome, Stop, ControlFrame
<1> QED
  BY <1>3, <1>5, <1>6, <1>7, <1>8, <1>9 DEF IInv

\* The next request before the first read.
LEMMA GoesOn ==
    ASSUME IInv, step \in Before, NoError, step' \in Before \ {"openSrc"}, deadStep' \in BOOLEAN,
           ControlFrame, UNCHANGED <<pdst, ops, abused, closed>>,
           srcHandle' \in BOOLEAN, dstHandle' \in BOOLEAN, bufsize' \in Nat,
           step' \in {"fstat", "stat", "openDst"} => ~dstHandle',
           step' \in {"fchmod", "chmod"} => /\ fsize > 0 /\ bufsize' = BufferFor(fsize).bufsize
                                            /\ concurrency' = BufferFor(fsize).concurrency
                                            /\ DOMAIN readbuf' = 0..(bufsize' - 1)
    PROVE  IInv'
<1>1. /\ ops = {} /\ pdst = 0 /\ total = 0 /\ closing = {} /\ closed = {}
      /\ cbs = 0 /\ ~hadError /\ ~failed /\ ~abused /\ ~success
  BY InBefore
<1>2. UNCHANGED <<hadError, failed, closing, silent, cbs, success>>
  BY DEF NoError, NoCallback
<1>3. ChunksFine' /\ Progress' /\ ops' \subseteq Chunks
  BY <1>1, NoChunks DEF ControlFrame, Before
<1>4. Local' = Local
  BY DEF Local, ControlFrame
<1>5. Flags'
  BY <1>2 DEF IInv, Flags, ControlFrame
<1>6. Typed'
  BY <1>2, <1>3, <1>4 DEF IInv, Typed, ControlFrame, Steps, Before
<1>7. Stage'
  <2>1. /\ BufferFor(fsize).bufsize' = BufferFor(fsize).bufsize
        /\ BufferFor(fsize).concurrency' = BufferFor(fsize).concurrency
    BY SameBuffer DEF ControlFrame
  <2> QED
    BY <1>1, <1>2, <2>1 DEF Stage, Before, ControlFrame
<1>8. Handles'
  BY <1>1, <1>2 DEF Handles
<1>9. Outcome'
  BY <1>1, <1>2 DEF IInv, Outcome, ControlFrame, Before
<1> QED
  BY <1>3, <1>5, <1>6, <1>7, <1>8, <1>9 DEF IInv

\* The first reads begin.
LEMMA IOBegins ==
    ASSUME IInv, step \in Before, fsize > 0, bufsize' = BufferFor(fsize).bufsize,
           NEW n, n = BufferFor(fsize).concurrency, StartReads(n),
           DOMAIN readbuf' = 0..(bufsize' - 1),
           step' = "io", deadStep' \in BOOLEAN, NoError, ControlFrame, closed' = closed,
           srcHandle' \in BOOLEAN, dstHandle' \in BOOLEAN
    PROVE  IInv'
<1>1. /\ total = 0 /\ closing = {} /\ closed = {} /\ fsize \in Nat
      /\ cbs = 0 /\ ~hadError /\ ~failed /\ ~abused /\ ~success
  BY InBefore
<1>2. UNCHANGED <<hadError, failed, closing, silent, cbs, success>>
  BY DEF NoError, NoCallback
<1>3. ChunksFine' /\ Progress' /\ ops' \subseteq Chunks /\ pdst' \in 0..fsize /\ abused' = FALSE
  <2>1. UNCHANGED <<fsize, total, file, hadError>>
    BY <1>2 DEF ControlFrame
  <2> QED
    BY <2>1, ReadsStart
<1>4. Local' = Local
  BY DEF Local, ControlFrame
<1>5. Flags'
  BY <1>2, <1>3 DEF IInv, Flags, ControlFrame
<1>6. Typed'
  <2>1. bufsize' \in Nat
    BY <1>1, BufferShape
  <2> QED
    BY <1>2, <1>3, <1>4, <2>1 DEF IInv, Typed, ControlFrame, Steps
<1>7. Stage'
  BY <1>1, <1>2 DEF Stage, Before
<1>8. Handles'
  BY <1>1, <1>2, <1>3 DEF Handles
<1>9. Outcome'
  BY <1>1, <1>2, <1>3 DEF IInv, Outcome, ControlFrame
<1> QED
  BY <1>3, <1>5, <1>6, <1>7, <1>8, <1>9 DEF IInv

LEMMA TrueIsBoolean == TRUE \in BOOLEAN
OBVIOUS

LEMMA Awaits ==
    ASSUME NEW request, NEW side, Await(request, side)
    PROVE  step' = request /\ deadStep' \in BOOLEAN
<1>1. (Remote(side) /\ ended) \in BOOLEAN
  OBVIOUS
<1> QED
  BY <1>1 DEF Await

LEMMA OpenSrcStep ==
    ASSUME IInv, OpenSrc
    PROVE  IInv'
<1>1. /\ step = "openSrc" /\ step \in Before /\ ~srcHandle /\ ~dstHandle /\ bufsize \in Nat
      /\ dstHandle \in BOOLEAN /\ srcHandle \in BOOLEAN
  BY DEF IInv, Flags, Typed, Stage, OpenSrc, Before
<1>2. /\ ControlFrame /\ UNCHANGED <<pdst, ops, abused, closed, bufsize, readbuf, dstHandle>>
  BY DEF OpenSrc, unchangedByControl, noIO, config, ControlFrame
<1>3. CASE srcHandle' = TRUE /\ (Await("fstat", "src") \/ Await("openDst", "dst")) /\ NoError
  <2>1. step' \in {"fstat", "openDst"} /\ deadStep' \in BOOLEAN
    BY <1>3, Awaits
  <2> QED
    BY <1>1, <1>2, <1>3, <2>1, GoesOn DEF Before
<1>4. CASE OnError(TRUE, FALSE, FALSE) /\ Stop /\ UNCHANGED srcHandle
  <2>1. FALSE \in BOOLEAN /\ TRUE \in BOOLEAN
    OBVIOUS
  <2>2. ~srcHandle' /\ ~dstHandle' /\ srcHandle' \in BOOLEAN /\ dstHandle' \in BOOLEAN /\ bufsize' \in Nat
    BY <1>1, <1>2, <1>4
  <2>3. OnError(TRUE, FALSE, FALSE) /\ Stop
    BY <1>4
  <2> QED
    BY <1>1, <1>2, <2>1, <2>2, <2>3, StopsEarly
<1> QED
  BY <1>3, <1>4 DEF OpenSrc

LEMMA StatStep ==
    ASSUME IInv, Stat
    PROVE  IInv'
<1>1. /\ step \in Before /\ ~dstHandle /\ bufsize \in Nat
      /\ dstHandle \in BOOLEAN /\ srcHandle \in BOOLEAN
  BY DEF IInv, Flags, Typed, Stage, Stat, Before
<1>2. /\ ControlFrame
      /\ UNCHANGED <<pdst, ops, abused, closed, bufsize, readbuf, srcHandle, dstHandle>>
  BY DEF Stat, unchangedByControl, noIO, config, ControlFrame
<1>3. CASE (Await("stat", "src") \/ Await("openDst", "dst")) /\ NoError
  <2>1. step' \in {"stat", "openDst"} /\ deadStep' \in BOOLEAN
    BY <1>3, Awaits
  <2> QED
    BY <1>1, <1>2, <1>3, <2>1, GoesOn DEF Before
<1>4. CASE OnError(TRUE, srcHandle, dstHandle) /\ Stop
  <2>1. /\ ~srcHandle /\ ~dstHandle => ~srcHandle' /\ ~dstHandle'
        /\ srcHandle' \in BOOLEAN /\ dstHandle' \in BOOLEAN /\ bufsize' \in Nat
    BY <1>1, <1>2
  <2> QED
    BY <1>1, <1>2, <1>4, <2>1, StopsEarly, TrueIsBoolean
<1> QED
  BY <1>3, <1>4 DEF Stat

LEMMA OpenDstStep ==
    ASSUME IInv, OpenDst
    PROVE  IInv'
<1>1. /\ step \in Before /\ ~dstHandle /\ bufsize \in Nat /\ fsize \in Nat
      /\ dstHandle \in BOOLEAN /\ srcHandle \in BOOLEAN
  BY DEF IInv, Flags, Typed, Stage, OpenDst, Before
<1>2. ControlFrame /\ UNCHANGED <<srcHandle, closed>>
  BY DEF OpenDst, unchangedByControl, config, ControlFrame
<1>3. CASE /\ dstHandle' = TRUE /\ fsize > 0
           /\ bufsize' = BufferFor(fsize).bufsize /\ concurrency' = BufferFor(fsize).concurrency
           /\ readbuf' = [q \in 0..(bufsize' - 1) |-> Unknown]
           /\ \/ OnError(TRUE, TRUE, TRUE) /\ Stop /\ UNCHANGED <<pdst, ops, abused>>
              \/ /\ hasMode
                 /\ Await("fchmod", "dst") /\ NoError /\ UNCHANGED <<pdst, ops, abused>>
              \/ /\ ~hasMode
                 /\ StartReads(concurrency') /\ Await("io", "src") /\ NoError
  <2>1. dstHandle' \in BOOLEAN /\ srcHandle' \in BOOLEAN /\ DOMAIN readbuf' = 0..(bufsize' - 1)
    BY <1>1, <1>2, <1>3
  <2>2. bufsize' \in Nat
    BY <1>1, <1>3, BufferShape
  <2>3. CASE OnError(TRUE, TRUE, TRUE) /\ Stop /\ UNCHANGED <<pdst, ops, abused>>
    <3>1. TRUE \in BOOLEAN
      OBVIOUS
    <3>2. ~TRUE /\ ~TRUE => ~srcHandle' /\ ~dstHandle'
      OBVIOUS
    <3> QED
      BY <1>1, <1>2, <2>1, <2>2, <2>3, <3>1, <3>2, StopsEarly
  <2>4. CASE Await("fchmod", "dst") /\ NoError /\ UNCHANGED <<pdst, ops, abused>>
    <3>1. step' = "fchmod" /\ deadStep' \in BOOLEAN
      BY <2>4, Awaits
    <3> QED
      BY <1>1, <1>2, <1>3, <2>1, <2>2, <2>4, <3>1, GoesOn DEF Before
  <2>5. CASE StartReads(concurrency') /\ Await("io", "src") /\ NoError
    <3>1. step' = "io" /\ deadStep' \in BOOLEAN
      BY <2>5, Awaits
    <3>2. PICK n : n = BufferFor(fsize).concurrency
      OBVIOUS
    <3>3. StartReads(n)
      BY <1>3, <2>5, <3>2
    <3> QED
      BY <1>1, <1>2, <1>3, <2>1, <2>5, <3>1, <3>2, <3>3, IOBegins
  <2> QED
    BY <1>3, <2>3, <2>4, <2>5
<1>5. CASE dstHandle' = TRUE /\ fsize = 0 /\ OnError(FALSE, TRUE, TRUE) /\ Stop /\ UNCHANGED noIO
  <2>1. /\ FALSE \in BOOLEAN /\ TRUE \in BOOLEAN /\ (~TRUE /\ ~TRUE => ~srcHandle' /\ ~dstHandle')
        /\ dstHandle' \in BOOLEAN /\ srcHandle' \in BOOLEAN /\ bufsize' \in Nat
        /\ UNCHANGED <<pdst, ops, abused>>
    BY <1>1, <1>2, <1>5 DEF noIO
  <2> QED
    BY <1>1, <1>2, <1>5, <2>1, StopsEarly
<1>4. CASE OnError(TRUE, srcHandle, dstHandle) /\ Stop /\ UNCHANGED <<dstHandle, noIO>>
  <2>1. /\ ~srcHandle /\ ~dstHandle => ~srcHandle' /\ ~dstHandle'
        /\ srcHandle' \in BOOLEAN /\ dstHandle' \in BOOLEAN /\ bufsize' \in Nat
        /\ UNCHANGED <<pdst, ops, abused>>
    BY <1>1, <1>2, <1>4 DEF noIO
  <2> QED
    BY <1>1, <1>2, <1>4, <2>1, StopsEarly, TrueIsBoolean
<1> QED
  BY <1>3, <1>4, <1>5 DEF OpenDst

LEMMA ChmodStep ==
    ASSUME IInv, Chmod
    PROVE  IInv'
<1>1. /\ step \in Before /\ bufsize \in Nat /\ fsize \in Nat /\ fsize > 0
      /\ dstHandle \in BOOLEAN /\ srcHandle \in BOOLEAN
      /\ bufsize = BufferFor(fsize).bufsize /\ concurrency = BufferFor(fsize).concurrency
      /\ DOMAIN readbuf = 0..(bufsize - 1)
  BY DEF IInv, Flags, Typed, Stage, Chmod, Before
<1>2. ControlFrame /\ NoError
      /\ UNCHANGED <<srcHandle, dstHandle, closed, bufsize, concurrency, readbuf>>
  BY DEF Chmod, unchangedByControl, config, ControlFrame
<1>3. CASE Await("chmod", "dst") /\ UNCHANGED <<pdst, ops, abused>>
  <2>1. step' = "chmod" /\ deadStep' \in BOOLEAN
    BY <1>3, Awaits
  <2> QED
    BY <1>1, <1>2, <1>3, <2>1, GoesOn DEF Before
<1>4. CASE StartReads(concurrency) /\ Await("io", "src")
  <2>1. step' = "io" /\ deadStep' \in BOOLEAN
    BY <1>4, Awaits
  <2>2. PICK n : n = BufferFor(fsize).concurrency
    OBVIOUS
  <2>3. StartReads(n)
    BY <1>1, <1>4, <2>2
  <2>4. /\ bufsize' = BufferFor(fsize).bufsize /\ DOMAIN readbuf' = 0..(bufsize' - 1)
        /\ srcHandle' \in BOOLEAN /\ dstHandle' \in BOOLEAN
    BY <1>1, <1>2
  <2> QED
    BY <1>1, <1>2, <2>1, <2>2, <2>3, <2>4, IOBegins
<1> QED
  BY <1>3, <1>4 DEF Chmod

\* The bytes are all copied and nothing is under way when the handles are closed.
LEMMA InClosing ==
    ASSUME IInv, step \in {"closeDst", "closeSrc"}
    PROVE  /\ total = fsize /\ ops = {} /\ ~success /\ ~hadError /\ cbs = 0 /\ closing = {}
           /\ ~failed /\ failed \in BOOLEAN /\ fsize > 0
<1>1. total = fsize /\ ~success /\ ~hadError /\ ~failed /\ failed \in BOOLEAN /\ fsize > 0
  BY DEF IInv, Stage, Outcome
<1>2. cbs = 0 /\ closing = {}
  BY <1>1 DEF IInv, Handles
<1> QED
  BY <1>1, <1>2, AllCounted DEF IInv

LEMMA CloseDstStep ==
    ASSUME IInv, CloseDst
    PROVE  IInv'
<1>1. /\ step = "closeDst" /\ total = fsize /\ ops = {} /\ ~success /\ ~hadError /\ cbs = 0
      /\ closing = {} /\ ~failed /\ failed \in BOOLEAN /\ fsize > 0
  BY InClosing DEF CloseDst
<1>2. ControlFrame /\ UNCHANGED <<pdst, bufsize, concurrency, ops, readbuf, abused, srcHandle>>
      /\ dstHandle' = FALSE /\ closed' = closed \cup {"dst"}
  BY DEF CloseDst, unchangedByControl, noIO, config, ControlFrame
<1>3. ChunksFine' /\ Progress' /\ ops' \subseteq Chunks
  <2>1. step' # "io"
    BY DEF CloseDst, Stop, Await
  <2> QED
    BY <1>1, <1>2, <2>1, NoChunks DEF ControlFrame
<1>4. Local' = Local
  BY <1>2 DEF Local, ControlFrame
<1>5. srcHandle \in BOOLEAN /\ FALSE \in BOOLEAN /\ hadError \in BOOLEAN /\ cbs \in Nat
  BY DEF IInv, Flags, Typed
<1>6. CASE Await("closeSrc", "src") /\ NoError
  <2>1. step' = "closeSrc" /\ deadStep' \in BOOLEAN
    BY <1>6, Awaits
  <2>2. UNCHANGED <<hadError, failed, closing, silent, cbs, success>>
    BY <1>6 DEF NoError, NoCallback
  <2>3. Flags'
    BY <1>2, <2>1, <2>2 DEF IInv, Flags, ControlFrame
  <2>4. Typed'
    BY <1>2, <1>3, <1>4, <2>1, <2>2 DEF IInv, Typed, ControlFrame, Steps
  <2>5. Stage'
    BY <1>1, <1>2, <2>1, <2>2 DEF Stage, Before, ControlFrame
  <2>6. Handles'
    BY <1>1, <1>2, <1>4, <2>1, <2>2 DEF IInv, Handles, ControlFrame, Local, LocalHandle
  <2>7. Outcome'
    BY <1>1, <1>2, <2>1, <2>2 DEF Outcome, ControlFrame
  <2> QED
    BY <1>3, <2>3, <2>4, <2>5, <2>6, <2>7 DEF IInv
<1>7. CASE OnError(TRUE, srcHandle, FALSE) /\ Stop
  <2>1. /\ hadError' \in BOOLEAN /\ hadError' /\ closing' \subseteq {Local} /\ silent' \in BOOLEAN
        /\ cbs' \in Nat /\ success' = success
        /\ cbs' = cbs \/ (cbs' = cbs + 1 /\ closing' = {} /\ ~srcHandle)
        /\ failed' = TRUE
    BY <1>1, <1>5, <1>7, Errors, TrueIsBoolean
  <2>2. Flags'
    BY <1>2, <1>7, <2>1 DEF IInv, Flags, ControlFrame, Stop
  <2>3. Typed'
    BY <1>2, <1>3, <1>4, <1>7, <2>1 DEF IInv, Typed, ControlFrame, Stop, Steps
  <2>4. Stage'
    BY <1>1, <1>2, <1>7, <2>1 DEF Stage, Before, ControlFrame, Stop
  <2>5. Handles'
    BY <1>1, <1>2, <1>4, <1>5, <1>7, <2>1 DEF IInv, Handles, ControlFrame, Local, LocalHandle, Stop
  <2>6. Outcome'
    BY <1>1, <1>2, <1>7, <2>1 DEF Outcome, ControlFrame, Stop
  <2> QED
    BY <1>3, <2>2, <2>3, <2>4, <2>5, <2>6 DEF IInv
<1> QED
  BY <1>6, <1>7 DEF CloseDst

LEMMA CloseSrcStep ==
    ASSUME IInv, CloseSrc
    PROVE  IInv'
<1>1. /\ step = "closeSrc" /\ total = fsize /\ ops = {} /\ ~success /\ ~dstHandle
      /\ cbs = 0 /\ closing = {} /\ ~hadError /\ ~failed /\ failed \in BOOLEAN /\ fsize > 0
      /\ dstHandle \in BOOLEAN /\ FALSE \in BOOLEAN /\ cbs \in Nat
  BY InClosing DEF CloseSrc, IInv, Stage, Flags, Typed
<1>2. ControlFrame /\ UNCHANGED <<pdst, bufsize, concurrency, ops, readbuf, abused, dstHandle>>
      /\ srcHandle' = FALSE /\ closed' = closed \cup {"src"} /\ Stop
  BY DEF CloseSrc, unchangedByControl, noIO, config, ControlFrame
<1>3. ChunksFine' /\ Progress' /\ ops' \subseteq Chunks
  BY <1>1, <1>2, NoChunks DEF ControlFrame, Stop
<1>4. Local' = Local
  BY <1>2 DEF Local, ControlFrame
<1>5. closed' = {"src", "dst"} /\ ~LocalHandle'
  BY <1>1, <1>2 DEF IInv, Stage, Typed, LocalHandle
<1>6. /\ hadError' \in BOOLEAN /\ (hadError => hadError') /\ closing' \subseteq {Local}
      /\ (closing' # {} => hadError') /\ silent' \in BOOLEAN
      /\ cbs' \in Nat /\ success' \in BOOLEAN /\ (success' => ~hadError')
      /\ (cbs' = 0 \/ (cbs' = 1 /\ closing' = {}))
      /\ failed' \in BOOLEAN /\ (hadError' <=> failed')
  <2>1. CASE Callback(TRUE) /\ UNCHANGED <<hadError, failed, closing, silent>>
    <3>1. cbs' = cbs + 1 /\ success' = TRUE
      BY <2>1 DEF Callback
    <3> QED
      BY <1>1, <2>1, <3>1 DEF IInv, Flags, Typed, Handles
  <2>2. CASE OnError(TRUE, FALSE, dstHandle)
    <3>1. /\ hadError' \in BOOLEAN /\ hadError' /\ closing' \subseteq {Local} /\ silent' \in BOOLEAN
          /\ cbs' \in Nat /\ success' = success
          /\ cbs' = cbs \/ (cbs' = cbs + 1 /\ closing' = {})
          /\ failed' = TRUE
      BY <1>1, <2>2, Errors, TrueIsBoolean
    <3> QED
      BY <1>1, <3>1 DEF IInv, Flags
  <2> QED
    BY <2>1, <2>2 DEF CloseSrc
<1>7. Flags'
  BY <1>2, <1>6 DEF IInv, Flags, ControlFrame, Stop
<1>8. Typed'
  BY <1>2, <1>3, <1>4, <1>5, <1>6 DEF IInv, Typed, ControlFrame, Stop, Steps
<1>9. Stage'
  BY <1>1, <1>2, <1>5, <1>6 DEF Stage, Before, ControlFrame, Stop
<1>10. Handles'
  BY <1>2, <1>5, <1>6 DEF IInv, Handles, Stop
<1>11. Outcome'
  BY <1>1, <1>2, <1>6 DEF Outcome, ControlFrame, Stop
<1> QED
  BY <1>3, <1>7, <1>8, <1>9, <1>10, <1>11 DEF IInv

LEMMA ErrorClosedStep ==
    ASSUME IInv, NEW side \in {"src", "dst"}, ErrorClosed(side)
    PROVE  IInv'
<1>1. /\ side \in closing /\ side = Local /\ hadError /\ hadError \in BOOLEAN /\ cbs \in Nat
      /\ success \in BOOLEAN /\ step \notin Before /\ cbs = 0
  BY DEF ErrorClosed, IInv, Flags, Typed, Handles, Stage
<1>2. /\ ControlFrame
      /\ UNCHANGED <<pdst, bufsize, concurrency, ops, readbuf, abused, step, deadStep, srcHandle,
                     dstHandle, hadError, failed, silent>>
      /\ closed' = closed \cup {side} /\ closing' \subseteq closing
  BY DEF ErrorClosed, unchangedByControl, noIO, config, ControlFrame
<1>3. ChunksFine' /\ Progress' /\ ops' \subseteq Chunks
  BY <1>2, Untouched DEF ControlFrame
<1>4. Local' = Local /\ LocalHandle' = LocalHandle
  BY <1>2 DEF Local, LocalHandle, ControlFrame
<1>5. /\ cbs' \in Nat /\ (cbs' = 0 \/ (cbs' = 1 /\ closing' = {}))
      /\ success' \in BOOLEAN /\ (success' => success \/ ~failed)
  <2>1. CASE closing' = {}
    <3>1. cbs' = cbs + 1 /\ success' = (success \/ ~failed)
      BY <2>1 DEF ErrorClosed, Callback
    <3>2. (success \/ ~failed) \in BOOLEAN
      BY <1>1, Zenon
    <3> QED
      BY <1>1, <2>1, <3>1, <3>2
  <2>2. CASE closing' # {}
    BY <1>1, <2>2 DEF ErrorClosed, NoCallback
  <2> QED
    BY <2>1, <2>2
<1>6. Flags'
  BY <1>2, <1>5 DEF IInv, Flags, ControlFrame
<1>7. Typed'
  BY <1>2, <1>3, <1>4, <1>5 DEF IInv, Typed, ControlFrame
<1>8. Stage'
  <2>1. step = "stopped" \/ ~success'
    BY <1>1, <1>5 DEF IInv, Stage, Outcome
  <2>2. ASSUME success', ~success
        PROVE  total = fsize /\ step = "stopped" /\ ~failed /\ ~(fsize > 0)
    <3>1. ~failed /\ fsize = 0 /\ step = "stopped"
      BY <1>1, <1>5, <2>2 DEF IInv, Outcome
    <3>2. total \in Nat /\ total <= fsize
      BY AllCounted DEF IInv, Typed
    <3> QED
      BY <3>1, <3>2
  <2>3. ASSUME success
        PROVE  total = fsize /\ step = "stopped" /\ ~failed /\ ~(fsize > 0)
    BY <1>1, <2>3 DEF IInv, Stage
  <2>4. success' => total' = fsize' /\ step' = "stopped" /\ ~failed' /\ ~(fsize' > 0)
    BY <1>1, <1>2, <2>2, <2>3 DEF ControlFrame
  <2>5. /\ BufferFor(fsize).bufsize' = BufferFor(fsize).bufsize
        /\ BufferFor(fsize).concurrency' = BufferFor(fsize).concurrency
    BY <1>2, SameBuffer DEF ControlFrame
  <2> QED
    BY <1>1, <1>2, <1>5, <2>4, <2>5 DEF IInv, Stage, ControlFrame, Before
<1>9. Handles'
  BY <1>1, <1>2, <1>4, <1>5 DEF IInv, Handles
<1>10. Outcome'
  BY <1>1, <1>2 DEF IInv, Outcome, ControlFrame
<1> QED
  BY <1>3, <1>6, <1>7, <1>8, <1>9, <1>10 DEF IInv

LEMMA Elsewhere ==
    ASSUME IInv, SessionEnd \/ Truncate \/ UNCHANGED vars
    PROVE  IInv'
<1>1. /\ UNCHANGED <<get, fsize, maxDataLen, hasMode, step, deadStep, srcHandle, dstHandle, hadError,
                     failed, closing, pdst, total, bufsize, concurrency, ops, readbuf, file,
                     closed, abused, silent, cbs, success>>
      /\ shrunk' \in BOOLEAN /\ ended' \in BOOLEAN
  BY DEF SessionEnd, Truncate, vars, config, IInv, Flags
<1>2. ChunksFine' /\ Progress' /\ ops' \subseteq Chunks
  BY <1>1, Untouched
<1>3. Local' = Local /\ LocalHandle' = LocalHandle
  BY <1>1 DEF Local, LocalHandle
<1>4. Flags'
  BY <1>1 DEF IInv, Flags
<1>5. Typed'
  BY <1>1, <1>3 DEF IInv, Typed
<1>6. Stage'
  <2>1. /\ BufferFor(fsize).bufsize' = BufferFor(fsize).bufsize
        /\ BufferFor(fsize).concurrency' = BufferFor(fsize).concurrency
    BY <1>1, SameBuffer
  <2> QED
    BY <1>1, <2>1 DEF IInv, Stage
<1>7. Handles'
  BY <1>1, <1>3 DEF IInv, Handles
<1>8. Outcome'
  BY <1>1 DEF IInv, Outcome
<1> QED
  BY <1>2, <1>4, <1>5, <1>6, <1>7, <1>8 DEF IInv

-----------------------------------------------------------------------------
(* The theorems.                                                           *)

LEMMA Initially ==
    ASSUME Init
    PROVE  IInv
<1>1. /\ fsize \in Nat /\ maxDataLen \in Nat \ {0} /\ ChunkSize \in Nat /\ Concurrency \in Nat
  BY TransferAssumption DEF Init
<1>2. Flags
  BY DEF Init, Flags
<1>3. Typed
  <2>1. ChunkSize * Concurrency \in Nat
    BY <1>1
  <2> QED
    BY <1>1, <2>1 DEF Init, Typed, Steps
<1>4. ChunksFine
  BY DEF Init, ChunksFine
<1>5. Progress
  <2>1. Cardinality({}) = 0
    BY FS_EmptySet
  <2>2. Counted({})
    BY <2>1 DEF Init, Counted
  <2> QED
    BY <2>2 DEF Progress
<1>6. Stage
  BY DEF Init, Stage
<1>7. Handles
  BY DEF Init, Handles
<1>8. Outcome
  BY DEF Init, Outcome
<1> QED
  BY <1>2, <1>3, <1>4, <1>5, <1>6, <1>7, <1>8 DEF IInv

LEMMA Inductive ==
    ASSUME IInv, [Next]_vars
    PROVE  IInv'
<1>1. CASE Control
  BY <1>1, OpenSrcStep, StatStep, OpenDstStep, ChmodStep, CloseDstStep, CloseSrcStep, ErrorClosedStep
     DEF Control
<1>2. CASE \E op \in ops : IO(op) \/ IOError(op)
  <2>1. PICK op \in ops : IO(op) \/ IOError(op)
    BY <1>2
  <2>2. CASE IO(op)
    <3>1. NoError /\ UNCHANGED unchangedByIO
      BY <2>2 DEF IO
    <3>2. CASE WriteSome(op)
      BY <3>1, <3>2, WriteStep
    <3>3. CASE \E n \in 0..ChunkSize : ReadSome(op, n)
      BY <3>1, <3>3, ReadStep
    <3> QED
      BY <2>2, <3>2, <3>3 DEF IO
  <2>3. CASE IOError(op)
    BY <2>3, IOErrorStep
  <2> QED
    BY <2>1, <2>2, <2>3
<1>3. CASE SessionEnd \/ Truncate \/ UNCHANGED vars
  BY <1>3, Elsewhere
<1> QED
  BY <1>1, <1>2, <1>3 DEF Next

LEMMA Invariance ==
    Spec => []IInv
<1>1. Init => IInv
  BY Initially
<1>2. IInv /\ [Next]_vars => IInv'
  BY Inductive
<1> QED
  BY <1>1, <1>2, PTL DEF Spec

\* The chunks that fastXfer() has under way never share a byte of its one buffer nor
\* leave it, and no more bytes are counted than the file has, for every file size,
\* chunk size, concurrency and largest request, however short the reads are.
THEOREM BufferIsShared ==
    Spec => []SlotsDisjoint
<1>1. IInv => SlotsDisjoint
  <2>1. SUFFICES ASSUME IInv PROVE SlotsDisjoint
    OBVIOUS
  <2>2. fsize \in Nat /\ bufsize \in Nat /\ pdst \in 0..fsize /\ total \in Nat /\ ChunkSize \in Nat
    BY <2>1, TransferAssumption DEF IInv, Typed
  <2>3. ASSUME NEW op \in ops
        PROVE  /\ op.psrc \in Nat /\ op.chunk \in Nat /\ op.len \in Nat /\ op.nb \in Nat
               /\ op.nb <= op.len /\ op.len <= op.chunk /\ op.chunk <= ChunkSize
               /\ op.psrc + op.chunk <= bufsize
    <3>1. op \in Chunks /\ Fit(op)
      BY <2>1, <2>3 DEF IInv, Typed, ChunksFine
    <3> QED
      BY <2>2, <3>1, ChunkFields
  <2>4. TypeOK
    <3>1. total <= fsize
      BY <2>1, AllCounted DEF IInv
    <3>2. closing \cup closed \subseteq {"src", "dst"} /\ cbs \in Nat /\ step \in Steps
      BY <2>1 DEF IInv, Typed, Local
    <3>3. {get, hasMode, shrunk, ended, deadStep, srcHandle, dstHandle, hadError, failed, abused, silent, success}
             \subseteq BOOLEAN
      BY <2>1, Zenon DEF IInv, Flags, Outcome
    <3>4. \A op \in ops : op.nb \in 0..op.len /\ op.len \in 0..op.chunk
      BY <2>3
    <3>5. total \in 0..fsize
      BY <2>2, <3>1
    <3> QED
      BY <2>2, <3>2, <3>3, <3>4, <3>5 DEF TypeOK, Steps
  <2>5. \A op \in ops : Region(op) \subseteq 0..(bufsize - 1)
    BY <2>2, <2>3 DEF Region
  <2>6. ASSUME NEW a \in ops, NEW b \in ops, a # b PROVE Region(a) \cap Region(b) = {}
    <3>1. Apart(a, b)
      BY <2>1, <2>6 DEF IInv, ChunksFine
    <3> QED
      BY <2>2, <2>3, <3>1 DEF Apart, Region
  <2> QED
    BY <2>4, <2>5, <2>6 DEF SlotsDisjoint
<1> QED
  BY <1>1, Invariance, PTL

\* A fastGet() or fastPut() that calls back without an error has copied every byte of
\* the file to its place: writeCb() counts a byte only when it is there, and once.
THEOREM CopiedExactly ==
    Spec => []CopyExact
<1>1. IInv => CopyExact
  <2>1. SUFFICES ASSUME IInv, success PROVE \A p \in DOMAIN file : file[p] = p
    BY DEF CopyExact
  <2>2. total = fsize /\ DOMAIN file = 0..(fsize - 1)
    BY <2>1 DEF IInv, Stage, Typed
  <2> QED
    BY <2>1, <2>2, AllCounted DEF IInv
<1> QED
  BY <1>1, Invariance, PTL

\* When the callback of fastXfer() has been called the local file is closed, whatever
\* failed and in whatever order (onerror()); without an error nothing is under way and
\* both files are closed, but for the remote handle of an empty file.  The local handle
\* is used after it was closed only when a request failed.
THEOREM NothingLeftOpen ==
    Spec => []LocalFileClosed
<1>1. IInv => LocalFileClosed
  <2>1. SUFFICES ASSUME IInv PROVE LocalFileClosed
    OBVIOUS
  <2>2. success => ops = {} /\ (fsize > 0 => closed = {"src", "dst"})
    <3>1. success => total = fsize /\ (fsize > 0 => closed = {"src", "dst"})
      BY <2>1 DEF IInv, Stage
    <3> QED
      BY <2>1, <3>1, AllCounted DEF IInv
  <2>3. abused => failed
    BY <2>1 DEF IInv, Handles, Outcome, Typed
  <2> QED
    BY <2>1, <2>2, <2>3 DEF LocalFileClosed, IInv, Handles, Local, LocalHandle
<1> QED
  BY <1>1, Invariance, PTL

\* The callback of fastXfer() is called at most once, although every chunk under way
\* can fail (onerror() has `hadError`) and the end of the transfer and an error can both
\* want to call it.  It is called without an error only if nothing failed, through the
\* end of the transfer or, for an empty file, through onerror(): after a failure the
\* bytes counted never reach the size of the file.
THEOREM CallsBackOnce ==
    Spec => [](cbs <= 1 /\ (success => ~failed /\ (hadError => fsize = 0)))
<1>1. IInv => cbs <= 1 /\ (success => ~failed /\ (hadError => fsize = 0))
  BY DEF IInv, Stage, Handles, Typed
<1> QED
  BY <1>1, Invariance, PTL
=============================================================================
