---------------------------- MODULE SftpTransfer ----------------------------
(***************************************************************************)
(* fastGet() and fastPut() (fastXfer() of lib/protocol/SFTP.js): a file is *)
(* copied by several chunks at once through one buffer, each chunk read    *)
(* into its slot, written from there and replaced by the next, with reads  *)
(* that return less than was asked for, reads and writes that are cut into *)
(* several requests (read_() and write()), answers in any order, errors at *)
(* any step and the end of the session in the middle.                      *)
(*                                                                         *)
(* One side is the SFTP session, the other the local file system (external *)
(* here: Node's fs).  The byte at position p of the source is p itself.    *)
(***************************************************************************)
EXTENDS Integers, FiniteSets, FiniteSetsExt

CONSTANTS FileSizes,       \* bound: sizes of the file, as fstat() gives them
          ChunkSize,       \* chunkSize
          Concurrency,     \* concurrency
          DataLengths      \* values of maxDataLen, the largest read or write in one request

ASSUME TransferAssumption ==
    /\ FileSizes \subseteq Nat
    /\ ChunkSize \in Nat \ {0} /\ Concurrency \in Nat \ {0}
    /\ DataLengths \subseteq Nat \ {0}

VARIABLES
    get,                   \* fastGet(): the source is remote, else fastPut()
    fsize, maxDataLen,
    hasMode,               \* opts.mode was given
    shrunk,                \* the file has become one byte shorter than fsize
    ended,                 \* the SFTP session has ended: cleanupRequests() ran
    step,                  \* what the transfer waits for; "io" for its reads and writes
    deadStep,              \* that request was made on an ended session
    srcHandle, dstHandle,  \* the handles are set
    hadError,
    failed,                \* onerror() got an error, which it hands to the callback
    closing,               \* the sides that onerror() is closing
    pdst, total, bufsize,
    concurrency,
    ops,                   \* the reads and writes under way
    readbuf, file,         \* contents of the buffer and of the destination
    \* --- history ---
    closed,                \* sides whose handle is closed
    abused,                \* an operation was begun on a local handle that is closed
    silent,                \* onerror() closed nothing and called nobody
    cbs,                   \* how often the callback was called
    success                \* it was called without an error

config == <<get, fsize, maxDataLen, hasMode>>
vars == <<config, shrunk, ended, step, deadStep, srcHandle, dstHandle, hadError, failed,
          closing, pdst, total, bufsize, concurrency, ops, readbuf, file,
          closed, abused, silent, cbs, success>>

Least(a, b) == IF a <= b THEN a ELSE b

Remote(side) == (side = "src") = get
Unknown == -1

Init ==
    /\ get \in BOOLEAN /\ fsize \in FileSizes /\ maxDataLen \in DataLengths
    /\ hasMode \in BOOLEAN
    /\ shrunk = FALSE /\ ended = FALSE
    /\ step = "openSrc" /\ deadStep = FALSE
    /\ srcHandle = FALSE /\ dstHandle = FALSE /\ hadError = FALSE /\ failed = FALSE
    /\ closing = {}
    /\ pdst = 0 /\ total = 0 /\ bufsize = ChunkSize * Concurrency /\ concurrency = Concurrency
    /\ ops = {} /\ readbuf = <<>> /\ file = [p \in 0..(fsize - 1) |-> Unknown]
    /\ closed = {} /\ abused = FALSE /\ silent = FALSE /\ cbs = 0 /\ success = FALSE

\* How a request to this side may end: one to the session is refused when the
\* session ends and stays unanswered when it was made after that.
Ends(side, dead, ok) == Remote(side) => ~dead /\ (ended => ~ok)

\* The transfer goes on to wait for this request to this side.
Await(request, side) ==
    /\ step' = request
    /\ deadStep' = (Remote(side) /\ ended)

Callback(ok) == cbs' = cbs + 1 /\ success' = (success \/ ok)
NoCallback == UNCHANGED <<cbs, success>>

OnErrorCallsFirst(err, src, dst) ==
    IF hadError THEN UNCHANGED <<hadError, failed, closing, silent, cbs, success>>
    ELSE hadError' = TRUE /\ failed' = err /\ Callback(~err) /\ UNCHANGED <<closing, silent>>

\* onerror(), given an error or not, with the handles in this state.  An SFTP object
\* has no property `writable`, so that only the local handle is ever closed.
OnError(err, src, dst) ==
    LET open == {s \in {"src", "dst"} : IF s = "src" THEN src ELSE dst}
    IN  IF hadError THEN UNCHANGED <<hadError, failed, closing, silent, cbs, success>>
        ELSE /\ hadError' = TRUE /\ failed' = err
             /\ closing' = {s \in open : ~Remote(s)}
             /\ IF open = {} THEN Callback(~err) ELSE NoCallback
             /\ silent' = (silent \/ (open # {} /\ closing' = {}))

NoError == UNCHANGED <<hadError, failed, closing, silent>> /\ NoCallback

Stop == step' = "stopped" /\ deadStep' = FALSE

-----------------------------------------------------------------------------
(* Reads and writes.                                                       *)

\* A chunk: at position pos of the file and psrc of the buffer, len bytes long,
\* nb of them done by earlier requests of the same read() or write(); data are
\* the bytes the request under way carries (SFTP only).
Op(kind, psrc, pos, len, chunk, nb, dead) ==
    [kind |-> kind, psrc |-> psrc, pos |-> pos, len |-> len, chunk |-> chunk,
     nb |-> nb, dead |-> dead]

Side(op) == IF op.kind = "read" THEN "src" ELSE "dst"

\* The bytes the request under way asks for or carries.
Request(op) ==
    IF Remote(Side(op)) THEN Least(op.len - op.nb, maxDataLen) ELSE op.len - op.nb

SingleRead(psrc, pos, chunk) ==
    Op("read", psrc, pos, chunk, chunk, 0, Remote("src") /\ ended)

StartWrite(op, nb) ==
    Op("write", op.psrc, op.pos, nb, op.chunk, 0, Remote("dst") /\ ended)

\* read_() and write() go on with the rest of what did not fit one request.
Continue(op, nb) == [op EXCEPT !.nb = @ + nb, !.dead = Remote(Side(op)) /\ ended]

\* An operation begins on a handle.
Begin(side) == abused' = (abused \/ (side \in closed /\ ~Remote(side)))

\* "Use less memory where possible"
BufferFor(size) ==
    LET fits == {c \in 1..Concurrency : c * ChunkSize <= size}
    IN  IF fits = {} THEN [concurrency |-> 1, bufsize |-> Least(size, ChunkSize)]
        ELSE [concurrency |-> Max(fits), bufsize |-> Max(fits) * ChunkSize]

ChunkAt(p) == IF p + ChunkSize > fsize THEN fsize - p ELSE ChunkSize

\* startReads()
StartReads(n) ==
    LET reads == {i \in 0..(n - 1) : i * ChunkSize < fsize}
    IN  /\ ops' = {SingleRead(i * ChunkSize, i * ChunkSize, ChunkAt(i * ChunkSize)) : i \in reads}
        /\ pdst' = Least(Cardinality(reads) * ChunkSize, fsize)
        /\ Begin("src")

\* The bytes of the source that exist.
Available(p) == IF p < fsize - (IF shrunk THEN 1 ELSE 0) THEN fsize - (IF shrunk THEN 1 ELSE 0) - p ELSE 0

\* A read request returned n bytes, which are now in the buffer (0: the end of
\* the file).  A full request with more to read goes on; otherwise the callback
\* of read() is onread(), which writes.  Writing nothing calls back at once.
ReadSome(op, n) ==
    LET done == op.nb + n
    IN  /\ op.kind = "read" /\ n \in 0..Request(op) /\ n <= Available(op.pos + op.nb)
        /\ n = 0 => Available(op.pos + op.nb) = 0
        /\ readbuf' = [q \in DOMAIN readbuf |->
                          IF q - op.psrc - op.nb \in 0..(n - 1) THEN op.pos + q - op.psrc
                          ELSE readbuf[q]]
        /\ IF n = Request(op) /\ done < op.len /\ Remote("src")
           THEN ops' = (ops \ {op}) \cup {Continue(op, n)} /\ UNCHANGED abused
           ELSE /\ ops' = (ops \ {op}) \cup {StartWrite(op, done)}
                /\ Begin("dst")
        /\ UNCHANGED <<file, total, pdst, step, deadStep>>

\* writeCb(): the rest of a chunk that was not read in full, the end, nothing
\* more to read, or the next chunk into the same slot.
WrittenReadsWrongSlot(op) ==
    /\ total' = total + op.len
    /\ IF op.len < op.chunk
       THEN /\ ops' = (ops \ {op}) \cup {SingleRead(op.psrc, op.pos + op.len, op.chunk - op.len)}
            /\ UNCHANGED <<pdst, step, deadStep>>
       ELSE IF total + op.len = fsize
       THEN ops' = ops \ {op} /\ Await("closeDst", "dst") /\ UNCHANGED pdst
       ELSE IF pdst >= fsize
       THEN ops' = ops \ {op} /\ UNCHANGED <<pdst, step, deadStep>>
       ELSE /\ ops' = (ops \ {op}) \cup {SingleRead(pdst % bufsize, pdst, ChunkAt(pdst))}
            /\ pdst' = pdst + ChunkAt(pdst)
            /\ UNCHANGED <<step, deadStep>>

WrittenSkipsRest(op) ==
    /\ total' = total + op.len
    /\ IF total + op.len = fsize
       THEN ops' = ops \ {op} /\ Await("closeDst", "dst") /\ UNCHANGED pdst
       ELSE IF pdst >= fsize
       THEN ops' = ops \ {op} /\ UNCHANGED <<pdst, step, deadStep>>
       ELSE /\ ops' = (ops \ {op}) \cup {SingleRead(op.psrc, pdst, ChunkAt(pdst))}
            /\ pdst' = pdst + ChunkAt(pdst)
            /\ UNCHANGED <<step, deadStep>>

WrittenCountsChunk(op) ==
    /\ total' = total + op.chunk
    /\ IF op.len < op.chunk
       THEN /\ ops' = (ops \ {op}) \cup {SingleRead(op.psrc, op.pos + op.len, op.chunk - op.len)}
            /\ UNCHANGED <<pdst, step, deadStep>>
       ELSE IF total + op.chunk >= fsize
       THEN ops' = ops \ {op} /\ Await("closeDst", "dst") /\ UNCHANGED pdst
       ELSE IF pdst >= fsize
       THEN ops' = ops \ {op} /\ UNCHANGED <<pdst, step, deadStep>>
       ELSE /\ ops' = (ops \ {op}) \cup {SingleRead(op.psrc, pdst, ChunkAt(pdst))}
            /\ pdst' = pdst + ChunkAt(pdst)
            /\ UNCHANGED <<step, deadStep>>

Written(op) ==
    /\ total' = total + op.len
    /\ IF op.len < op.chunk
       THEN /\ ops' = (ops \ {op}) \cup {SingleRead(op.psrc, op.pos + op.len, op.chunk - op.len)}
            /\ UNCHANGED <<pdst, step, deadStep>>
       ELSE IF total + op.len = fsize
       THEN ops' = ops \ {op} /\ Await("closeDst", "dst") /\ UNCHANGED pdst
       ELSE IF pdst >= fsize
       THEN ops' = ops \ {op} /\ UNCHANGED <<pdst, step, deadStep>>
       ELSE /\ ops' = (ops \ {op}) \cup {SingleRead(op.psrc, pdst, ChunkAt(pdst))}
            /\ pdst' = pdst + ChunkAt(pdst)
            /\ UNCHANGED <<step, deadStep>>

\* A write request is done; its bytes are those of the buffer, which the slot
\* keeps until the whole chunk is written.
WriteSome(op) ==
    LET n == Request(op)
    IN  /\ op.kind = "write"
        /\ file' = [p \in DOMAIN file |->
                       IF p - op.pos - op.nb \in 0..(n - 1) THEN readbuf[op.psrc + p - op.pos]
                       ELSE file[p]]
        /\ IF op.nb + n < op.len
           THEN /\ ops' = (ops \ {op}) \cup {Continue(op, n)}
                /\ UNCHANGED <<total, pdst, step, deadStep, abused>>
           ELSE Written(op) /\ Begin("src")
        /\ UNCHANGED readbuf

unchangedByIO == <<config, shrunk, ended, srcHandle, dstHandle, bufsize, concurrency, closed>>

\* A write of nothing to the session calls back without a request.
NoRequest(op) == op.kind = "write" /\ op.len = 0 /\ Remote("dst")

IO(op) ==
    /\ Ends(Side(op), op.dead, TRUE) \/ NoRequest(op)
    /\ Side(op) \notin closed
    /\ WriteSome(op) \/ \E n \in 0..ChunkSize : ReadSome(op, n)
    /\ NoError
    /\ UNCHANGED unchangedByIO

\* A request fails.  The chunk ends there; the others go on.
IOError(op) ==
    /\ Ends(Side(op), op.dead, FALSE) /\ ~NoRequest(op)
    /\ ops' = ops \ {op}
    /\ OnError(TRUE, srcHandle, dstHandle)
    /\ UNCHANGED <<unchangedByIO, step, deadStep, pdst, total, readbuf, file, abused>>

-----------------------------------------------------------------------------
(* Everything around them.                                                 *)

unchangedByControl == <<config, shrunk, ended, total, file>>
noIO == <<pdst, bufsize, concurrency, ops, readbuf, abused>>

\* The size is the file's or that of opts.fileSize.
OpenSrc ==
    /\ step = "openSrc"
    /\ \/ /\ Ends("src", deadStep, TRUE)
          /\ srcHandle' = TRUE
          /\ Await("fstat", "src") \/ (fsize > 0 /\ Await("openDst", "dst"))
          /\ NoError
       \/ /\ Ends("src", deadStep, FALSE)
          /\ OnError(TRUE, FALSE, FALSE) /\ Stop /\ UNCHANGED srcHandle
    /\ UNCHANGED <<unchangedByControl, noIO, dstHandle, closed>>

\* tryStat(): a server may not support fstat(), a local file system does.
Stat ==
    /\ step \in {"fstat", "stat"}
    /\ \/ /\ Ends("src", deadStep, TRUE)
          /\ Await("openDst", "dst") /\ NoError
       \/ /\ Ends("src", deadStep, FALSE)
          /\ IF step = "fstat" /\ Remote("src")
             THEN Await("stat", "src") /\ NoError
             ELSE OnError(TRUE, srcHandle, dstHandle) /\ Stop
    /\ UNCHANGED <<unchangedByControl, noIO, srcHandle, dstHandle, closed>>

\* The destination is open: an empty file ends the transfer through onerror(),
\* without an error, and so does a buffer that cannot be allocated, with one.
OpenDst ==
    /\ step = "openDst"
    /\ \/ /\ Ends("dst", deadStep, TRUE)
          /\ dstHandle' = TRUE
          /\ \/ /\ fsize = 0
                /\ OnError(FALSE, TRUE, TRUE) /\ Stop /\ UNCHANGED noIO
             \/ /\ fsize > 0
                /\ bufsize' = BufferFor(fsize).bufsize
                /\ concurrency' = BufferFor(fsize).concurrency
                /\ readbuf' = [q \in 0..(bufsize' - 1) |-> Unknown]
                /\ \/ OnError(TRUE, TRUE, TRUE) /\ Stop /\ UNCHANGED <<pdst, ops, abused>>
                   \/ /\ hasMode
                      /\ Await("fchmod", "dst") /\ NoError /\ UNCHANGED <<pdst, ops, abused>>
                   \/ /\ ~hasMode
                      /\ StartReads(concurrency') /\ Await("io", "src") /\ NoError
       \/ /\ Ends("dst", deadStep, FALSE)
          /\ OnError(TRUE, srcHandle, dstHandle) /\ Stop /\ UNCHANGED <<dstHandle, noIO>>
    /\ UNCHANGED <<unchangedByControl, srcHandle, closed>>

\* fchmod(), then chmod() if that fails; its own failure is ignored.
Chmod ==
    /\ step \in {"fchmod", "chmod"}
    /\ \E ok \in BOOLEAN :
          /\ Ends("dst", deadStep, ok)
          /\ IF step = "fchmod" /\ ~ok
             THEN Await("chmod", "dst") /\ UNCHANGED <<pdst, ops, abused>>
             ELSE StartReads(concurrency) /\ Await("io", "src")
    /\ NoError
    /\ UNCHANGED <<unchangedByControl, bufsize, concurrency, readbuf, srcHandle, dstHandle, closed>>

CloseDst ==
    /\ step = "closeDst"
    /\ dstHandle' = FALSE
    /\ closed' = closed \cup {"dst"}
    /\ \/ /\ Ends("dst", deadStep, TRUE)
          /\ Await("closeSrc", "src") /\ NoError
       \/ /\ Ends("dst", deadStep, FALSE)
          /\ OnError(TRUE, srcHandle, FALSE) /\ Stop
    /\ UNCHANGED <<unchangedByControl, noIO, srcHandle>>

CloseSrc ==
    /\ step = "closeSrc"
    /\ srcHandle' = FALSE
    /\ closed' = closed \cup {"src"}
    /\ \/ /\ Ends("src", deadStep, TRUE)
          /\ Callback(TRUE) /\ UNCHANGED <<hadError, failed, closing, silent>>
       \/ /\ Ends("src", deadStep, FALSE)
          /\ OnError(TRUE, FALSE, dstHandle)
    /\ Stop
    /\ UNCHANGED <<unchangedByControl, noIO, dstHandle>>

\* cbfinal(): a handle that onerror() closes is closed, well or not.
ErrorClosed(side) ==
    /\ side \in closing
    /\ closing' = closing \ {side}
    /\ closed' = closed \cup {side}
    /\ IF closing' = {} THEN Callback(~failed) ELSE NoCallback
    /\ UNCHANGED <<unchangedByControl, noIO, step, deadStep, srcHandle, dstHandle, hadError, failed,
                   silent>>

\* The channel of the session ends; and somebody truncates the file.
SessionEnd ==
    /\ ~ended /\ ended' = TRUE
    /\ UNCHANGED <<config, shrunk, step, deadStep, srcHandle, dstHandle, hadError, failed,
                   closing, pdst, total, bufsize, concurrency, ops, readbuf, file,
                   closed, abused, silent, cbs, success>>

Truncate ==
    /\ step = "io" /\ ~shrunk /\ shrunk' = TRUE
    /\ UNCHANGED <<config, ended, step, deadStep, srcHandle, dstHandle, hadError, failed,
                   closing, pdst, total, bufsize, concurrency, ops, readbuf, file,
                   closed, abused, silent, cbs, success>>

Control ==
    \/ OpenSrc \/ Stat \/ OpenDst \/ Chmod \/ CloseDst \/ CloseSrc
    \/ \E side \in {"src", "dst"} : ErrorClosed(side)

Next ==
    \/ Control
    \/ \E op \in ops : IO(op) \/ IOError(op)
    \/ SessionEnd \/ Truncate

Spec == Init /\ [][Next]_vars

\* Requests are answered; which one first is open.
FairSpec ==
    /\ Spec
    /\ WF_vars(Control) /\ WF_vars(\E op \in ops : IO(op) \/ IOError(op))

-----------------------------------------------------------------------------
\* The variables keep their ranges; total never exceeds the size of the file.
TypeOK ==
    /\ step \in {"openSrc", "fstat", "stat", "openDst", "fchmod", "chmod", "io",
                 "closeDst", "closeSrc", "stopped"}
    /\ {get, hasMode, shrunk, ended, deadStep, srcHandle, dstHandle, hadError, failed,
        abused, silent, success} \subseteq BOOLEAN
    /\ closing \cup closed \subseteq {"src", "dst"}
    /\ pdst \in 0..fsize /\ total \in 0..fsize /\ cbs \in Nat
    /\ \A op \in ops : op.nb \in 0..op.len /\ op.len \in 0..op.chunk

Region(op) == op.psrc..(op.psrc + op.chunk - 1)

\* Chunks under way never share a byte of the buffer nor leave it, however the
\* reads return.
SlotsDisjoint ==
    /\ TypeOK
    /\ \A op \in ops : Region(op) \subseteq 0..(bufsize - 1)
    /\ \A a, b \in ops : a # b => Region(a) \cap Region(b) = {}

\* A transfer that calls back without an error has copied every byte to its place.
CopyExact == success => \A p \in DOMAIN file : file[p] = p

\* When the callback has been called the local file is closed if it was ever
\* opened; without an error nothing is under way and the remote file is closed too,
\* but for an empty file, whose remote handle the code leaves open.  The local file
\* is used after it was closed only when a transfer has failed (chunks under way
\* then go on writing).
LocalFileClosed ==
    /\ cbs > 0 => /\ (IF get THEN dstHandle ELSE srcHandle) => (IF get THEN "dst" ELSE "src") \in closed
                  /\ success => ops = {} /\ (fsize > 0 => closed = {"src", "dst"})
    /\ abused => failed

\* The callback is called, provided the session lasts, the file does not shrink
\* and onerror() has something to close, and at most once, although every chunk
\* under way can fail and the end of the transfer and an error can both want to.
CalledBack == [](cbs <= 1) /\ <>(cbs > 0 \/ silent \/ ended \/ shrunk)
=============================================================================
