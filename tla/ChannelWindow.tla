--------------------------- MODULE ChannelWindow ----------------------------
(***************************************************************************)
(* What both ends of a channel know of SSH flow control (lib/Channel.js):  *)
(* the window constants, the loop of _write() that cuts a chunk into       *)
(* packets, and the wire.  A byte is known by its position in its stream:  *)
(* a CHANNEL_DATA message is the range [lo, hi) of the positions it        *)
(* carries.  A CHANNEL_WINDOW_ADJUST is the range [lo, hi) of credit it    *)
(* grants; its handler uses only the amount hi - lo.  CHANNEL_EOF and      *)
(* CHANNEL_CLOSE carry nothing: their empty range marks their place.       *)
(***************************************************************************)
EXTENDS Integers, Sequences

CONSTANTS MaxWindow,       \* MAX_WINDOW, also the highWaterMark of the streams
          PacketSize       \* PACKET_SIZE, the peer's outgoing.packetSize

ASSUME WindowAssumption ==
    /\ MaxWindow \in Nat \ {0}
    /\ PacketSize \in Nat \ {0}

Threshold == MaxWindow \div 2        \* WINDOW_THRESHOLD

Least(a, b) == IF a <= b THEN a ELSE b

Message == [type : {"data", "adjust", "eof", "close"}, lo : Nat, hi : Nat]

Data(a, b)   == [type |-> "data", lo |-> a, hi |-> b]
Adjust(a, b) == [type |-> "adjust", lo |-> a, hi |-> b]
EOF(at)      == [type |-> "eof", lo |-> at, hi |-> at]
CLOSE(at)    == [type |-> "close", lo |-> at, hi |-> at]

Amount(m) == m.hi - m.lo

\* The packets of one run of the loop in _write(): the n bytes from lo on in
\* slices of at most packetSize.
Packets(n) == (n + PacketSize - 1) \div PacketSize

Slices(lo, n) ==
    [i \in 1..Packets(n) |->
        Data(lo + (i - 1) * PacketSize, lo + Least(i * PacketSize, n))]
=============================================================================
