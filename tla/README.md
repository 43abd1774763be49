# TLA+ models of ssh2

ssh2 is an SSH2 client and server in JavaScript. One thread runs it, but its two ends are
different processes, its applications call it whenever they like and answer its callbacks
whenever they like, and everything a call does to the peer arrives later. That is what these
modules are about: two ends, the messages under way between them, and applications that may do
anything the API allows at any moment.

Paths below are relative to the repository (`lib/...`).

## The system

| Part | State it keeps | Operations | Talks to |
|---|---|---|---|
| Transport and key exchange (`lib/protocol/Protocol.js`, `kex.js`) | `_kexinit`, `_queue`, `_kex` (step, verified, received, session id), `_cipher`, `_decipher`, `_packetRW` | parse ident, send and handle KEXINIT, DH init and reply, host verifier, NEWKEYS, `rekey()`, `disconnect()`, fatal errors | the peer's transport; everything above sends through `sendPacket()` |
| Algorithm negotiation (`kex.js`) | the offer of each side | `handleKexInit()` matches eight lists | transport |
| Packet ciphers and compression (`crypto.js`, `zlib.js`) | keys, sequence number, deflate and inflate streams | encrypt, decrypt, replace | transport |
| User authentication (`client.js`, `server.js`, `handlers.misc.js`) | `_authsQueue`, `authCtx`, `pendingAuths`, the client's method list | request, success, failure, partial success, key probes, prompts | transport, agents |
| Channel manager (`lib/utils.js`) | `_channels`, `_cur`, `_count` | `add`, `update`, `get`, `remove`, `cleanup` | client and server, for every channel message |
| Channel flow control (`lib/Channel.js`) | windows of both directions, blocked chunk and callback, `_waitWindow`, `_waitChanDrain` | `_write`, `_read`, `eof`, `close`, `windowAdjust`, DATA, WINDOW_ADJUST, EOF, CLOSE | peer's channel, Node streams |
| stdout and stderr of a session (`Channel.js`) | the same, shared by two streams | the same, for both | the channel they belong to |
| Channel life cycle (`client.js`, `server.js`, `utils.js`) | per id: opener, reserved, Session or Channel, its states and pending callbacks | open, accept, reject, requests, EOF, CLOSE, cleanup when the socket closes | channel manager, application |
| Global requests and keepalive (`client.js`, `server.js`) | `_callbacks`, `unsentGlobalRequestsReplies`, `kacount`, `kaCurCount`, `_forwarding` | request, reply, ping, forward | transport |
| Connecting (`client.js`) | `_sock`, timers, and which connection `_callbacks` and `_chanMgr` belong to | `connect`, `end`, `destroy`, the socket's `close` | transport, all of the client's parts |
| SFTP requests (`lib/protocol/SFTP.js`) | `_requests`, `_writeReqid`, the server's open questions | about thirty requests and their responses | a channel |
| SFTP on a channel (`SFTP.js`) | `_buffer`, `_waitWindow`, the parser of `push()` | `sendOrBuffer`, `drainBuffer`, `push` | a channel's window |
| SFTP transfers and streams (`SFTP.js`) | a buffer in slots, positions, handles; one pool for all read streams | `fastGet`, `fastPut`, `ReadStream`, `WriteStream` | SFTP requests, the local file system |
| Agents, key parser, HTTP agents | little | framing, parsing | user authentication, applications |

What is hard here, and hard to test:

* Order across the link. The two ends pass through the same protocol states at different times,
  and messages sent in the old state arrive in the new one: window credit, EOF and CLOSE against
  data, CLOSE against requests, NEWKEYS against everything.
* Back-pressure that meets in the middle. A write may block on the window, a read may stop on the
  Node stream, and each is resumed by whoever notices; a missed notice is a channel that hangs.
* One flag for two streams. stdout and stderr share a window, `_waitWindow` and `_waitChanDrain`.
* Answers that come late: `accept`, `reject`, the host verifier, authentication decisions.
* The end of the connection in the middle of any of these.
* Counters at their limits: channel ids, windows, sequence numbers, request ids.
* Replies without a number. Answers to authentication requests and to global requests are matched by
  order alone, while applications decide in any order.
* Shared buffers: chunks of one transfer in one buffer, read streams in one pool.
* Requests that outlive their owner: a stream destroyed while it is being opened, a transfer that has
  failed, a client that connects again.

What makes each part correct:

* Key exchange: every packet meets a reader at the same keys, sequence number and inflate stream;
  nothing is lost or reordered by an exchange; no keys are used before the host is accepted; one
  session identifier; an exchange ends.
* Channel manager: an id in use is never handed out; failure means full.
* Flow control: bytes go once and in order; credit is conserved; unread data are bounded; end
  comes after the last byte; nothing hangs.
* Life cycle: every open and request is answered once; the ends agree on who has which id; nothing
  arrives for a freed id; `close` comes once, on both sides.
* User authentication: an accepted request authenticates, with its signature, unless it was aborted,
  and nothing else does; both sides mean
  the same by message 60; a client ends ready or is told why not.
* Global requests: a reply meets its own callback; a live peer is not given up; the end of a
  connection is told to everybody who waits on it.
* SFTP: an answer meets its own request, once; packets arrive whole; a finished transfer is an exact
  copy; what a stream was handed is not overwritten; what is written goes where the stream is; handles
  are closed, and nothing new is begun with them after.

## Modules

`ChannelTable` defines the channel table as a value and its operations as operators; it has no
variables, so that the manager and the life cycle use the same definitions.

| Module | Models | State and actions |
|---|---|---|
| `ChannelTable` | `ChannelManager` of `lib/utils.js` as operators | a record of `channels`, `cur`, `count`; `NextId`, `NextCur`, `Added`, `Updated`, `Removed` |
| `IdPool` | nothing: the abstract promise of a table | a set of ids in use; acquire, release, clear |
| `ChannelManager` | every sequence of calls on one table | `Add`, `Update`, `Get`, `Remove`, `Cleanup` |
| `ChannelWindow` | sizes and messages of a channel | `Slices` is the loop of `_write()` that cuts a chunk into packets |
| `ChannelFlow` | one direction of a Channel, writer at one end, reader at the other | bytes are numbered, a message is an interval of them; one action per API call and per handler |
| `ChannelStderr` | the writing end with both streams, and the peer that reads them | as above, for two streams on one window |
| `ChannelLifecycle` | all channels of one connection at client and server | the two tables, what each side knows of each id, messages under way, questions to the applications |
| `Negotiation` | the matching in `handleKexInit()` | operators on lists of names |
| `KeyExchange` | the transports of a client and a server | KEXINITs are numbers, keys are pairs of KEXINITs, a packet carries the keys, sequence number and compressor it was written with |
| `MCKeyExchange` | values for `KeyExchange`'s constants | three configurations of the lists |
| `UserAuth` | authentication of one connection, both sides | `authCtx`, `pendingAuths`, both `_authsQueue`s, the callbacks that the client's user, agent and authHandler hold; the applications answer at any time; or an external client that does not wait |
| `GlobalRequests` | global requests, pings and reconnecting | the arrays of callbacks as objects (the closure's and `this._callbacks` may or may not be the same), the server's replies, two sockets |
| `SftpRequests` | requests and responses of one SFTP session | the table of requests by signed id, what the server was asked; one action per method, handler and response |
| `SftpChannel` | SFTP packets on the window of a channel | packets are sequences of a length and a body; `tryWritePayload` cuts them, `push` puts them together |
| `SftpTransfer` | `fastXfer()` | the chunks under way, the buffer and the file byte by byte, the handles |
| `SftpStreams` | `ReadStream` and `WriteStream` | the pool as memory addresses, positions, requests under way, handles |
| `ChannelManagerProofs`, `ChannelFlowProofs`, `ChannelLifecycleProofs`, `KeyExchangeProofs`, `UserAuthProofs`, `SftpRequestsProofs`, `SftpTransferProofs`, `SftpStreamsProofs` | the theorems about the module each is named after | the inductive invariant `IInv`, one lemma per action |

An action is a whole handler: `CompleteHandshake` of `KeyExchange` replaces the ciphers and
compressors, resets `_kexinit` and drains the queue in one step, because the code does so before
anything else can run; `DoWrite` of `ChannelFlow` sends every packet that the window allows. JavaScript
runs a handler to its end, so nothing interleaves with it.

Abstractions. Payloads are numbers that tell them apart. A link delivers in order and loses nothing
(TCP). The key of an exchange is the pair of KEXINITs in its hash: two sides have the same keys if
and only if they hashed the same pair. A packet whose keys, sequence number or inflate stream are
not the reader's ends the connection; that a plain reader may take a compressed packet for an
unknown message and go on is left out. A side that ended its socket takes no further part, in
`KeyExchange`; the rest it may still read is not looked at. A session carries at most one request
before the one that starts it (pty, then exec), which stands for env, pty, x11 and agent requests
with exec, shell or subsystem. `AppEnd` of `ChannelFlow` and its readers are Node's streams, which
are modelled from how `Channel.js` uses them, with the rule that `push()` returns false once the
buffer is full and that `_read()` is called again after a read below the mark.

More abstractions. `UserAuth`: a signature is valid or absent, since checking it is the server
application's part; the application calls `accept()` or `reject()` once per context and prompts only
the context that is being decided. `GlobalRequests`: one address stands for all; a connection is
ready when it is made; `Close` does the whole handler of the socket's `close` event, with the
`connect()` that waits for it inside. `SftpRequests`: a request is the type of answer it wants; ids
have `Width` bits, signed where the code keeps them and unsigned on the wire. `SftpTransfer`: Node's
`fs` writes all it is given (`writeCb` does not look at the count), reads may be short. `SftpStreams`:
`roundUpToMultipleOf8` rounds to `Align`, memory of discarded pools is not reused; an answer may be
shorter than asked; the chunks written to a stream all have `ChunkLength` bytes, and the size that
`fstat()` tells after a stream has written is the file's or any that those writes can have made of
it. `SftpChannel`: a byte of a length is a digit in base `Base`, and the sign is the top bit of
`LenBytes` digits, as it is the top bit of four bytes.

Mutated forms. Some definitions are preceded by a variant with a plausible mistake
(`SendPacketDuringKex`, `NextIdReuse`...). No specification uses them; replacing the definition by
its variant makes TLC violate the property named in `PROJECT.json`, which shows that the property
depends on that line.

## Runs

All runs finish within three minutes with two workers.

| Run | Configuration | Bounds | States |
|---|---|---|---|
| `ids` | `ChannelManager.cfg` | four ids | all |
| `flow` | `ChannelFlow.cfg` | window 4, packets of 2, writes up to 5, 8 bytes | 117 307 |
| `stderr` | `ChannelStderr.cfg` | window 3, packets of 2, writes up to 3, 4 bytes | 108 540 |
| `lifecycle` | `ChannelLifecycle.cfg` | 2 opens in total | 60 240 |
| `kex` | `KeyExchange.cfg` | 9 pairs of configurations, 2 rekeys, 2 packets a side, sequence numbers modulo 8 | 149 290 |
| `auth` | `UserAuth.cfg` | 3 methods tried of 6, 2 keys in the agent, 2 prompts, or 4 requests of a client that does not wait; 2 may pend | 5 402 131 |
| `global` | `GlobalRequests.cfg` | 2 requests, 2 connections, 1 ping may be missing, 2 messages under way | 574 058 |
| `sftp_requests` | `SftpRequests.cfg` | 3 calls, ids of 2 bits (they wrap and turn negative), 2 requests under way | 510 096 |
| `sftp_channel` | `SftpChannel.cfg` | window 5 (4 at first), packets of 3, 5 SFTP packets of 1 and 2 bytes, 3 (too long) and 5 (negative), lengths of 3 digits in base 2 | 25 080 |
| `sftp_transfer` | `SftpTransfer.cfg` | files of 0, 1, 3, 5 and 7 bytes, chunks of 2, 3 at once, requests of 1 or 2 bytes | 512 168 |
| `sftp_streams` | `SftpStreams.cfg` | 2 read streams of files of 4 bytes, up to position 2 or 4, with buffers of 4 or 6 on pools aligned to 2, or 1 write stream with 3 chunks of 3; requests of 2 bytes | 793 116 |
| `reconnect` | `GlobalRequestsReconnect.cfg` | 1 request, 2 connections | ends with a violation |

Why these bounds suffice for the cases of interest. Four ids reach all three branches of `add()`:
the fast path, the search, and the full table, and the reset after the last removal. A window of 4
with packets of 2 and writes of 5 has chunks that fit, that end at a packet boundary, that are cut
by the packet size, by the window and by both; the threshold of half a window is crossed both ways;
8 bytes refill the window once. Two channels in the life cycle may belong to one side or to both,
so that their ids coincide or cross, and either can end while the other is being opened. Two rekeys
are enough for both sides to begin one at once, for one inside the other's, before and after
authentication, and for one after a complete one; sequence numbers wrap several times.

Three methods tried suffice for a method that fails, one that prompts and one that follows a late
answer; four requests fill `authCtx`, both places that pend and exceed them. Two global requests with
pings are enough for every pair of entries in a queue, in both orders of decision. Files of 5 and 7
bytes have more chunks than requests at once, so that slots are reused, and end in a partial chunk; 1
and 3 end in the first round; 0 never begins. With a limit of 1 byte a chunk needs two requests.
Two streams on one pool can each reserve behind the other, give back in either order, and replace the
pool while the other waits. With requests of 2 bytes a read of up to 5 takes three and a chunk of 3
two, and destroy() can come between them; an `end` of 2 stops before the last byte, one of 4 after it. An SFTP
packet of 5 needs the third digit of its length, the top one, and one of 3 is too long without it.

Deadlock is not checked where the system may stop: a channel that both ends closed, a connection
that ended, an application that has sent what the bound allows. The liveness properties say what
must have happened by then.

### What the passing runs show

* `ids`: -1 only when full (`FailsOnlyWhenFull`); the table implements `IdPool`. That `_count` is exact
  and that the fast path never meets an id in use is proved (below).
* `flow`: `CreditConserved` (credit held by the writer, in DATA or WINDOW_ADJUST under way, or spent,
  adds up), `BoundedBuffer`, `NoTruncation`; and under fairness `WritesComplete`: everything written is
  read, every write is called back, an ended stream ends. `InOrder`, `NothingLost` and
  `AdjustsInFlight` are proved only.
* `stderr`: `StreamsExactlyOnce` (stderr goes out once, stdout does as long as stderr did not have to
  wait, nothing is dropped for want of window) and `WritesComplete` with the exception it names.
* `lifecycle`: `AnsweredOnce` (callbacks and `close` come at most once), `PeersAgree` on the ids of a
  channel, `QuietAfterFree` (nothing arrives for a freed id); `CloseCompletes` (a channel that is being
  closed is closed on both sides) and `OpensAnswered` once the application has decided.
* `kex`: `PacketsFit` for packets other than DISCONNECT, `OrderedDelivery`, `HostVerifiedFirst`,
  `ExchangesAgree` (algorithms, hashes, session identifier) and `ExchangeEnds`, with two exceptions that
  the properties name (delayed compression, a right first guess; below).
* `auth`: `Authentic` (the user is authenticated exactly when `accept()` was called on a request that no
  later one had aborted: that request, its user and, by public key, its signature; `authCtx.finalResponse`,
  which `reject()` sets too, plays no part in the property),
  `AnsweredInOrder` and `QueuesInStep` with the exceptions they name (requests that crowd or are
  aborted, a password change, a late answer), and `Settles`.
* `global`: `OwnReply`, `PatientKeepalive`, `ForwardKnown`; `CalledOnce`, also by the close of the
  socket while connections do not overlap; `EventuallyCalled`, with keepalive also when the server is
  gone.
* `sftp_requests`: `OwnAnswer`, `CalledOnce` (at the end of the channel too), `EventuallyCalledBack`.
* `sftp_channel`: `WholePackets` (whole, in order, none dropped; a packet above the maximum is fatal
  before any of its body is taken, and nothing else is; `push()` throws for a negative length only) and
  `AllDelivered`.
* `sftp_transfer`: `SlotsDisjoint`, `CopyExact` (for the empty file too), `LocalFileClosed` (by the time
  of the callback; after one without an error the remote file is closed too, unless the file is empty,
  and one with an error took an error), `CalledBack` (once).
* `sftp_streams`: `RegionsDisjoint` and `DeliveredIntact` for reading. `WrittenInOrder` for writing: once a
  write has reported success, what was written since the position was known is in the file from there
  on; an appending stream to which nothing was written before then keeps what the file held. `HandleClosed`: a destroyed stream
  closes its handle, and, which is its part `NoneBegunAfterClose`, once CLOSE was sent only the rest of a
  read or write under way is requested (for reads this depends on the test marked "XXX: safe to remove
  this?" in `_read()`).

The type invariant `TypeOK` of each module is checked as a part of one of these invariants, or proved
(`ChannelManager`, `ChannelFlow`).

### Where the code and its own words differ

The run `reconnect` ends with a violation, which is the expected result. The handler of the socket's
`close` event emits `'close'` before it tells those who wait. A `connect()` that waits for this event
makes the new connection inside it; what the handler then cleans up is the new connection's
`_chanMgr`, and `this._callbacks` is replaced although the new closure has its own array. A channel
that was being opened on the old connection is never called back.

Seen while modelling, without a run. Channels and transport:

* `_chunk` is never cleared: after one blocked stdout write of a server, the WINDOW_ADJUST that
  resumes a blocked stderr write sends the old stdout bytes again (`server.js:771`).
* The server's `cleanup()` hands a Session without a channel to `onCHANNEL_CLOSE()`, which throws on
  it; ids after it are not visited (`utils.js:37`).
* CLOSE for a session whose first request is undecided is not answered, so that the client never
  emits `close` (`server.js:1033`).
* `reject()` of an incoming channel keeps its id reserved (`client.js:1638`, `server.js:542`).
* A server's DISCONNECT between its NEWKEYS and the client's is encrypted with keys the client no
  longer has (`Protocol.js:292`, `kex.js:965`).
* `authSuccess()` during a key exchange changes the inflate stream before the packets that precede the
  change have arrived (`Protocol.js:1727`).
* `handleKexInit()` compares the chosen method with its own first character (`remote` and `init` are
  one object), so that a right first guess is dropped and the exchange hangs (`kex.js:248`). ssh2's
  own client never guesses; other implementations may.
* The fast path of `add()` can return MAX_CHANNEL itself, which `update()`, `get()` and `remove()`
  reject.
* With stdout blocked first, a blocked stderr write waits for a WINDOW_ADJUST that stdout does not
  use up; reading one of the two Readables reopens the window for the other, whose unread data are
  then not bounded by the window.
* `rekey()` before the peer's ident sends two KEXINITs. `rekey(cb)` during the first handshake never
  calls back. `README.md` documents a `rekey()` and a `'rekey'` event of the client, which has
  neither.
* A KEXINIT without group exchange methods (BAD_DHGEX) is written at offset 0 instead of 17
  (`kex.js:104`).
* `dhEstimate()` reads properties of algorithm names and always asks for 8192 bits.

Authentication:

* A password change leaves an entry `password` in both `_authsQueue`s. A later message 60 is then read
  as another kind (the client waits for `readyTimeout`), or `authPKOK()` throws.
* A user who answers after the server has decided sends a message 61 that is fatal, or one more
  password request. `pendingAuths` is taken from its end, and PK_OK takes nothing from it.
* When signing for `hostbased` fails, `hostbasedCb` uses an undefined `this` (`client.js:793`).

Global requests and reconnecting:

* After a reconnect inside `'close'` the callbacks of `forwardIn()` and its like go into an array that
  the new connection never reads. With `end(); connect()` the late `close` of the old socket also tells
  the new connection's channels of an error and stops its ready timeout.
* The client's GLOBAL_REQUEST handler names its parameters one off (`client.js:448`): it answers every
  request with a failure, wanted or not.
* The reply to a ping waits behind requests that the server's application has not decided, so that
  keepalive may give up a live server; only such replies and those to channel requests reset the
  client's counter. `PatientKeepalive` counts pings that are unanswered, for whichever reason.
* An application that decides an unforward before the forward it follows leaves the two sides
  disagreeing; a forwarded connection may overtake a reply that waits and is refused.

SFTP:

* `(n + 1) & MAX_REQID` is a signed operation: after 2^31 requests ids are negative in `_requests` and
  positive on the wire, and answers are dropped (`SFTP.js:341`).
* A packet length of 2^31 and more is negative after `(this._pktLen << 8) + data[p++]`; it passes both
  checks (`SFTP.js:209-217`), no body is read, and `this._pkt[0]` throws a TypeError (`SFTP.js:247`)
  instead of the fatal error of the session. The handler of the socket's data catches it, emits
  `'error'` and ends the connection (`client.js:633`, `server.js:1194`).
* Requests made after EOF or CLOSE are not called back; neither is the request whose answer was
  malformed.
* An SFTP object has no `writable`, so that `onerror()` of a transfer never closes the remote handle,
  and a `fastGet()` that fails before the local file is open never calls back (`SFTP.js:1901`).
  Chunks under way go on writing to the local file after it was closed. A source that shrinks is read
  for ever.
* The transfer of an empty file calls back without an error from `onerror()`, which leaves the remote
  handle open (`SFTP.js:1947`, `SFTP.js:1899`).
* A read or write that was cut goes on with READs and WRITEs on the handle that `read_()` and `write()`
  captured, after `destroy()` has sent CLOSE for it (`SFTP.js:1813`, `SFTP.js:473`); so does `open()` with
  fstat. A write stream's `destroy()` with a write under way thus leaves part of a chunk in the file.
* "SFTPv3 requires absolute offsets, no matter the open flag used" (`SFTP.js:3470`): an appending stream
  asks for the size before it emits `'open'`. But `_write()` and `_writev()` wait for `'open'` only without
  a handle (3510, 3535), and there is one from 3460 on. A write made while fchmod or fstat is under way
  goes to position 0, and 3487 then makes the size the position, whatever was written. A server that
  honours the append flag itself puts the data at the end all the same. The model has these writes;
  `WrittenInOrder` names them as an exception (`early`).
* A stream that is destroyed while opening, and whose open then fails, never emits `close`; a stream
  that appends leaks its handle if its `stat()` fails then. `_writev()` calls back once per failed write.
* With an initial window of 0 nothing is ever drained, because only a window that becomes 0 sets
  `_chunkcb` (`SFTP.js:2314`).

## Fairness

Weak fairness of reading: what has arrived is parsed, since the socket's data handler runs whenever
there are data. In `ChannelFlow` and `ChannelStderr` also weak fairness of the consumer (the
application keeps reading; without it a blocked writer is right to wait) and of the stream calling
`_final` after `end()`. In `ChannelLifecycle` applications are fair in deciding what they were asked.
In `UserAuth` messages are handled, users, agents and `authHandler` answer, and the server's application
decides; `readyTimeout` may fire at any time and is not assumed to. In
`GlobalRequests` messages are handled, keepalive's timer fires, a socket that ends closes, and the
application decides; a server that is gone does nothing. In the SFTP modules what was asked of a
server or of the file system is answered, well or not, and what was sent arrives. In `SftpRequests` the
server's application also ends an SFTP session that the client has closed: `onCHANNEL_CLOSE()` does not
(`utils.js:52` leaves SFTP channels out), so that a server application that does nothing on `'close'`
keeps the client's session half closed, with its requests unanswered.
In `KeyExchange` the host verifier answers eventually; no other application step is assumed to
happen: nobody is obliged to send, to rekey, to authenticate or to disconnect. Strong fairness is not
used.

## Proofs

Each `...Proofs` module proves its theorems for every value of the constants, with one invariant
`IInv` that the initial states satisfy and every step preserves; TLC has checked each `IInv` on a small
instance before it was proved. Where a theorem names a property, the run shows it
on a small instance and the theorem without the bounds.

| Module | Theorem | Property |
|---|---|---|
| `ChannelManagerProofs` | `TypeCorrect`, `CountIsExact`, `FastPathIsFree` | `TypeOK`, `CountExact`, `FastPathFree` |
| | `ImplementsPool` | `PoolSpec`, the refinement of `IdPool` |
| | `GivesUpOnlyWhenFull` | `FailsOnlyWhenFull` |
| `ChannelFlowProofs` | `TypeCorrect`, `BytesInOrder`, `NoDataLost`, `AdjustsBounded` | `TypeOK`, `InOrder`, `NothingLost`, `AdjustsInFlight` |
| | `CreditIsConserved`, `BufferIsBounded`, `EndAfterEveryByte` | `CreditConserved`, `BoundedBuffer`, `NoTruncation` |
| `ChannelLifecycleProofs` | `CallbacksOnce`, `EndsAgree`, `FreedQuiet` | `AnsweredOnce`, `PeersAgree` (with `TypeOK`), `QuietAfterFree` |
| `KeyExchangeProofs` | `TypeCorrect` | `TypeOK` |
| | `NoUnverifiedKeys`, `OneExchange` | `HostVerifiedFirst`, `ExchangesAgree` |
| | `PacketsAlwaysFit` | `PacketsFit` (with `TypeOK`) |
| `UserAuthProofs` | `TypeCorrect` | `TypeOK` |
| | `OnlyTheAccepted`, `AnswersInOrder` | `Authentic`, `AnsweredInOrder` |
| | `QueuesStayInStep` | `QueuesInStep` (with `TypeOK`, `OneAtATime`) |
| `SftpRequestsProofs` | `EachItsOwnAnswer`, `EachCalledOnce` | `OwnAnswer`, `CalledOnce` |
| `SftpTransferProofs` | `BufferIsShared`, `CopiedExactly`, `NothingLeftOpen` | `SlotsDisjoint`, `CopyExact`, `LocalFileClosed` |
| | `CallsBackOnce` | (stated there) |
| `SftpStreamsProofs` | `PoolIsShared`, `ReadsIntact`, `WritesInOrder` | `RegionsDisjoint`, `DeliveredIntact`, `WrittenInOrder` |
| | `NoneBeginsAfterClose` | `NoneBegunAfterClose`, a part of `HandleClosed` |

### The channel table

The inductive invariant is `TypeOK`, `CountExact` and `FastPathFree` together. `NextId` could not be
shown fresh on the fast path without `FastPathFree`, and that the reset of `_cur` when `_count` is 0
keeps `FastPathFree` needs `CountExact`: a count of 0 must mean an empty table. `FailsOnlyWhenFull`
holds because `add()` returns no id only after looking at every id below MAX_CHANNEL.

### Flow control

`ChannelFlowProofs` proves, for every window, packet size and write size, every invariant of the run
`flow` and four that no run checks: `TypeCorrect`, `BytesInOrder`, `CreditIsConserved`, `NoDataLost`, `BufferIsBounded`,
`EndAfterEveryByte`, `AdjustsBounded`. The properties themselves are not inductive. `IInv` adds

* `LinkShape` and `CloseIsLast`: data on the link are never empty, nothing but EOF and CLOSE follows
  the last byte, and CLOSE comes last;
* `BackShape`: an adjustment on the way back is worth at least half a window;
* `WriterState`: an open writer is either between writes with everything sent, or blocked with
  `_chunk` starting at what was sent;
* `ReaderState`: what arrived is read or buffered, and `push(null)` came after all of it.

`InOrder` itself says that the messages under way are a run of consecutive intervals (`Runs`); the
lemmas `RunsTail`, `RunsConcat` and `RunsAppend` say how receiving and sending change a run, and
`SlicesRun` that the packets `_write()` cuts a chunk into are one.

The argument: `WriteEffect` says what one run of `_write()` does to the window, the link and the
chunk; `AdjustEffect` what a WINDOW_ADJUST does; then there is one lemma per action (`AppWriteStep`,
`RcvDataStep`, ...), and `Inductive` collects them. `AdjustsInFlight` follows because each
WINDOW_ADJUST grants at least half a window and the credit under way is at most one window.
`NoTruncation` follows from `ReaderState`.

### The life cycle of channels

That a freed id gets no more messages is a fact about the other side, about what is under way in both
directions and about what its application still holds. `IInv` follows an id i that a side has opened:
until the opener hears of it, the other side holds one of the CHANNEL_OPEN on the wire, the offer to
its application, or its own end of the channel (`OpensFine`, `OffersFine`, `EndsFine`), and only from there
can a message for i come (`MessagesFine`); nothing follows an OPEN_FAILURE or a CLOSE for i on the wire
(`Follows`), and an end that sent CLOSE sends nothing more (`Tied`). `RequestsFine` says that a session has
one request under way at most: as a message to the server, as a question to its application or as
the answer, which is why a CHANNEL_SUCCESS that calls the callback of `exec()` was sent by a server that had
set its channel. `IdsFine` counts: no more ids are in use, or about to be reserved, than were opened, so
that the ids do not run out.

The invariant is stated for any tables, ends, offers, questions and wires. A handler does several
things in one step, and the lemmas take them one at a time: `Fewer` (a message is read), `Gentle` (an
end changes), `Freed` (an id leaves the table), `Sent` (a message is sent), `Gone` (a socket closes),
`NewEnd`, `Reserved`, `Accepted`, `Confirmed` (an open goes on), `Settled` (a callback is called). Then
there is one lemma per action. TLC has checked the conjuncts of this `IInv` one by one; of `Typed` it
has checked the tables and the messages' fields, since it cannot build a set of numbers and strings.

### Key exchange

`HostVerifiedFirst` and `ExchangesAgree` say nothing about packets on the wire and are far from
inductive. `IInv` is a table of phases: each side is in one of a few phases of the exchange under way
(`Phase`), `Joint` lists the pairs of phases the two sides can be in together with how many KEXINITs
each has sent, and `ToClient` and `ToServer` say of each packet of an exchange in which pairs of phases
it can be on the wire, that there is at most one of it, and what it carries (for the server, behind
the wrongly guessed packet it will skip). `Known` adds what the sides then know of the exchange, and
`Verification` what the host verifier was asked and has said. Lemmas about sequences say how reading
and sending change which packets are on a wire; there is a lemma per step of the exchange.

`PacketsFit` needs a second invariant, inductive together with `IInv`, about every packet on a wire:

* `InSequence`: the sequence numbers follow each other from the reader's to the writer's, modulo
  `SeqMod`; `Flows` says what a step that writes some packets and reads at most one does, and
  `FlowsOn` that it keeps them in sequence;
* `SidesFine`: the keys of a side are the number of exchanges it has completed (`Level`), and what it
  may have queued, know of the user or read at that level;
* `InOrder`: the packets to the client have the client's keys and come at a time when it waits for
  them; those to the server have the server's, or the next ones behind NEWKEYS. What is not expected
  when it is written is always behind the packet that changes what the reader expects;
* `AuthInStep`: while no exchange has begun before the user is authenticated, the request, the pending
  answer and USERAUTH_SUCCESS are in one place, and the client sends nothing in between. This is what
  the server's change of the inflate stream in `authSuccess()` rests on;
* `ZipInStep`: the compressor of a cipher and of a packet on the wire is the one that belongs to its
  keys (`ZipFor`), unless an early exchange and delayed compression meet.

There is again one lemma per action (`Steady...`); `SteadyClientEnds` and `SteadyServerNewKeys`, where
the keys change and the queue is drained, are the ones that need all five. `HeadReadable` and
`HeadExpected` then give the property for the packet that is read next.

### User authentication

`Pending` says that the requests that pend are distinct and not known to the application, `Touched`
which contexts the application can have begun to answer, `Superseded` that there is
one user and one context being decided, and that an interactive context which is neither that one nor
decided was aborted: so an `accept()` without effect is always that of an aborted context, `Believed` that USERAUTH_SUCCESS is only sent
by the step that authenticates. While at most one request has pended at a time and `authPKOK()` has not thrown
(the hypothesis of `AnsweredInOrder` itself), `InTurn` says which requests are unanswered.

`QueuesInStep` needs a second invariant, `Lockstep`, inductive together with `IInv`, about the client
of this library while no answer has come late. There is one turn (`Token`): with the client, in a
callback it waits for; on the wire, in a request or an answer; or with the server, in the one request it
has not answered (`Single`). `Current` says that whatever is under way is of the method the client tries.
The exception that makes it hard is the password change: the server's question leaves the turn where it
is, and the user may answer it while the server decides, so that two requests are under way. `Change`
follows the question, which is on its way, with the user or answered, and the server's `changeCb`
(`Credit`) takes the second request for the answer. `Queues` says that without password changes both
queues hold the method of the unanswered request and nothing else. The lemmas named `...Lock` are one per
action; the ones named `Turn...` are about what the client does when it has the turn.

### SFTP requests

`Kept` says that the calls in the table are different ones that were not called back, `AllMatch` that
a request or response under way whose id is in the table is that call's, `Accounted` that a callback
not called yet is in the table unless a malformed packet made it forgotten. Ids are signed in the table
and unsigned on the wire; that the two agree for every width needs `2^n = 2 * 2^(n - 1)`, which is
proved by counting subsets (`Doubling`). That a new id is not in use is the guard `Bounded`: the
code just takes the next number, so that the theorems hold as long as no request is still open
after 2^32 later ones.

### fastGet and fastPut

Every chunk under way has a slot of the buffer and a range of the file of its own (`Apart`); the buffer,
and then the file, hold the source's bytes as far as the chunk has come (`Buffered`, `Stored`). The
bytes counted in `total` are a set of bytes that are in the file and in no chunk's range (`Counted`):
once `total` is the size of the file, all of it is copied and no chunk is left. A chunk that failed
leaves a byte that is neither counted nor under way, so that `total` never gets there after an error.
That leaves the empty file, for which `onerror()` is called without an error: `failed` records what it
was called with, and `CallsBackOnce` says that a callback without an error that came from `onerror()`
belongs to an empty file.

### SFTP streams

The pieces of memory that are reserved by a read, free in the pool, given back or handed to the
application lie apart, below what is allocated (`Within`, `ReservedApart`, `FreeApart`,
`OthersApart`); a piece that a step makes comes out of one that it takes away or out of new memory.
`Data` says what the pieces hold, and `Partial` what a read that goes on has already put into its piece.
A piece stays reserved until the last of its requests is answered, destroyed or not; this is why a
read that goes on after CLOSE harms nobody. For writers, `WritesAll` says that the writes under way carry
distinct bytes, each to the place that is its own (`Place`), that what was sent since the position is
known is in the file, under way or failed (`Stored`), and that `writesLeft` counts the writes that are
under way or failed. The bytes that an appending stream sent earlier (`early`) lie elsewhere; while one
of them is under way nothing was sent after them, since the next write
waits for their callbacks. `LifeFine` says that a stream whose CLOSE was asked for is destroyed
(`StatesFine`), and when it still has a handle (`HandleFine`); `_read()` and `_write()` of a destroyed
stream are not called or return at once, which gives `NoneBeginsAfterClose`.

### Assumptions

All are ASSUMEs that TLC evaluates on the runs. Sizes, widths, moduli and bounds are natural numbers,
positive where the code needs it (`MaxChannelAssumption`, `WindowAssumption`, `FlowAssumption`,
`LifecycleAssumption`, `KexAssumption`, `AuthAssumption`, `SftpAssumption`, `TransferAssumption`, `StreamsAssumption`).
`LifecycleAssumption` also says that there are ids for all the opens (2^32 in the code; what happens when
they run out is the channel table's part), `KexAssumption` that an offer has a list for each slot, `StreamsAssumption` that there is a
largest `highWaterMark`, from which the addresses of the model's pools are computed.

### Only model-checked

* Every liveness property: they hold under fairness, which is out of the prover's reach.
* `WholePackets` of `SftpChannel`, whose packets are cut and put together by recursive operators.
* `StreamsExactlyOnce` of `ChannelStderr`, `OrderedDelivery` of `KeyExchange`, `OwnReply` and
  `PatientKeepalive` of `GlobalRequests`: they filter sequences (the messages of one stream, the
  payloads among the packets, the replies among the messages), and what a filter does to an appended
  or shortened sequence is an induction over data.
* Not proved yet: `CalledOnce` and `ForwardKnown` of `GlobalRequests`.

## Not modelled

Encoding and parsing of messages field by field, the ciphers, key formats and the native binding:
they compute on bytes and keep no state between calls that the protocol depends on. HTTP agents, the
file-mode tables and the installer. Group exchange, whose server side the code does not have.
`window-change`, `signal`, `exit-status`: one-way messages that only raise an event. `readFile()`,
`writeFile()` and `appendFile()` of SFTP, which make one request after the other and share no state.
The framing of the agent protocol, of which `UserAuth` sees only that answers come late or fail.

## Plan

1. Done: channels, key exchange, user authentication, global requests and reconnecting, SFTP requests,
   packets, transfers and streams; the proofs listed above.
2. Proofs next: `CalledOnce` and `ForwardKnown` of `GlobalRequests`.
3. Not begun: the header phase of the transport; framing of a decipher across chunks, against a
   reference that sees the whole stream; the agents' framing.
