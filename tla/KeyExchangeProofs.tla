------------------------- MODULE KeyExchangeProofs --------------------------
(***************************************************************************)
(* Proofs about KeyExchange, for every pair of configured offers, every    *)
(* number of key exchanges and every sequence number modulus.              *)
(*                                                                         *)
(* Each side is in one of a few phases of the exchange under way, and each *)
(* packet of an exchange can be on the wire only while the two sides are   *)
(* in certain phases: the packets drive the two sides through the same     *)
(* exchange, in step.  The inductive invariant is that table, together     *)
(* with what each side then knows of the exchange.  The last theorem adds  *)
(* the keys, the number and the compressor of every packet on the wire,    *)
(* and the place of the request and of its answer.                         *)
(***************************************************************************)
EXTENDS KeyExchange, SequenceTheorems, TLAPS

-----------------------------------------------------------------------------
(* The values.                                                             *)

Hashes == Nat \X Nat
Args == Nat \cup Hashes
Zips == [by : {"none", "auth", "kex"}, keys : Hashes]
Ciphers == [keys : Hashes, seqno : 0..(SeqMod - 1), zip : Zips]
Types == {"kexinit", "dhinit", "reply", "newkeys", "app", "request", "success", "disconnect"}
OnWire == [type : Types, arg : Args, keys : Hashes, seqno : 0..(SeqMod - 1), zip : Zips]
Queued == [type : {"app", "request", "success"}, arg : Args]
Choices == {NoKex.negotiated} \cup {Negotiated(b, o, p) : b \in BOOLEAN, o \in Offers, p \in Offers}
Exchanges == [hash : Hashes, step : 0..3, reply : Args, verified : BOOLEAN, received : BOOLEAN,
              negotiated : Choices]

Typed ==
    /\ offer \in [Sides -> Offers] /\ guess \in BOOLEAN /\ skip \in BOOLEAN
    /\ kexinit \in [Sides -> Nat] /\ cookies \in [Sides -> Nat]
    /\ queue \in [Sides -> Seq(Queued)]
    /\ kex \in [Sides -> Exchanges]
    /\ mode \in [Sides -> {"first", "kex", "normal"}]
    /\ out \in [Sides -> Ciphers] /\ in \in [Sides -> Ciphers]
    /\ session \in [Sides -> Hashes]
    /\ authenticated \in [Sides -> BOOLEAN] /\ auths \in [Sides -> BOOLEAN] /\ asked \in BOOLEAN
    /\ open \in [Sides -> BOOLEAN]
    /\ wire \in [Sides -> Seq(OnWire)]
    /\ submitted \in [Sides -> Nat]
    /\ failed \subseteq Sides

-----------------------------------------------------------------------------
(* The phases.                                                             *)

\* 0 no exchange, 1 our KEXINIT sent, 2 both KEXINITs known, 3 (client) the reply
\* or (server) the client's key received, 4 (client) NEWKEYS received.
Phase(m, k, step) == IF m = "kex" THEN step + 1 ELSE IF k = 0 THEN 0 ELSE 1

C == Phase(mode["client"], kexinit["client"], kex["client"].step)
S == Phase(mode["server"], kexinit["server"], kex["server"].step)

\* The phases the two sides can be in together, and how many KEXINITs each has sent.
Joint(c, s, cc, cs) ==
    \/ c = 0 /\ s \in {0, 3} /\ cc = cs
    \/ c = 0 /\ s = 1 /\ cs = cc + 1
    \/ c = 1 /\ s \in {0, 3} /\ cc = cs + 1
    \/ c = 1 /\ s \in {1, 2} /\ cc = cs
    \/ c = 2 /\ s \in {1, 2, 3} /\ cc = cs
    \/ c \in {3, 4} /\ s = 3 /\ cc = cs

\* A packet of type t is among those of w behind the first d, there is at most
\* one, and all of that type carry a.
Has(w, t, d) == \E k \in 1..Len(w) : k > d /\ w[k].type = t
Once(w, t, d) == \A j, k \in 1..Len(w) : j > d /\ k > d /\ w[j].type = t /\ w[k].type = t => j = k
Carry(w, t, a) == \A k \in 1..Len(w) : w[k].type = t => w[k].arg = a

\* What can be on its way to the client, and when.
ToClient(w, c, s, cs, hash) ==
    /\ Once(w, "kexinit", 0) /\ Once(w, "reply", 0) /\ Once(w, "newkeys", 0)
    /\ Has(w, "kexinit", 0) => c \in {0, 1} /\ s \in {1, 2}
    /\ Has(w, "reply", 0) => c = 2 /\ s = 3
    /\ Has(w, "newkeys", 0) => c \in {2, 3} /\ s = 3
    /\ Carry(w, "kexinit", cs) /\ Carry(w, "reply", hash)

\* What can be on its way to the server, of which it will skip d - 1 after the next.
ToServer(w, c, s, cc, d) ==
    /\ Once(w, "kexinit", 0) /\ Once(w, "dhinit", d) /\ Once(w, "newkeys", 0)
    /\ Has(w, "kexinit", 0) => c \in {1, 2} /\ s \in {0, 1, 3} /\ (c = 2 => s = 1)
    /\ Has(w, "dhinit", d) => c = 2 /\ s \in {1, 2}
    /\ Has(w, "newkeys", 0) => c \in {0, 1} /\ s = 3
    /\ Carry(w, "kexinit", cc)
    /\ d <= Len(w)

\* The guess among the packets to the server: it is the second one or, once the
\* KEXINIT has been read, the first.
Guessed(g, m, sk) == IF g /\ m = "first" THEN 2 ELSE IF sk THEN 1 ELSE 0

Phases ==
    /\ Joint(C, S, cookies["client"], cookies["server"])
    /\ \A x \in Sides : /\ kexinit[x] \in {0, cookies[x]} /\ cookies[x] > 0
                        /\ mode[x] = "kex" => kexinit[x] # 0 /\ kex[x].step > 0
    /\ kex["server"].step < 3 \/ mode["server"] # "kex"
    /\ skip => S = 2
    /\ guess /\ mode["server"] = "first" => ~skip
    /\ open["client"] => ToClient(wire["client"], C, S, cookies["server"], kex["server"].hash)
    /\ open["server"] => ToServer(wire["server"], C, S, cookies["client"],
                                  Guessed(guess, mode["server"], skip))

\* What the sides know of the exchange.
Known ==
    /\ C >= 2 => kex["client"].hash = <<cookies["server"], cookies["server"]>>
    /\ S >= 2 => kex["server"].hash = <<cookies["server"], cookies["server"]>>
    /\ kex["client"].step > 1 => kex["client"].reply = kex["client"].hash
    /\ \A x \in Sides :
          /\ kex[x].negotiated = IF kex[x].hash = NoKeys THEN NoKex.negotiated
                                 ELSE Negotiated(x = "server", offer[x], offer[Other(x)])
          /\ session[x] \in {NoKeys, <<1, 1>>}
          /\ session[x] = NoKeys => kexinit[x] # 0 /\ cookies[x] = 1

\* What the host verifier is asked and has said.
Verification ==
    /\ asked => C \in {3, 4} /\ (kex["client"].received <=> C = 4) /\ ~kex["client"].verified
    /\ kex["client"].verified => kex["client"].hash \in accepted
    /\ kex["client"].step = 1 => ~kex["client"].received
    /\ HostVerifiedFirst

IInv == Typed /\ Phases /\ Known /\ Verification

-----------------------------------------------------------------------------
(* Packets on the wire.                                                    *)

\* What is left of packets on the wire when the first one has been read.
LEMMA Read ==
    ASSUME NEW V, NEW w \in Seq(V), w # <<>>, NEW t, NEW d \in Nat
    PROVE  /\ Tail(w) \in Seq(V) /\ Len(w) > 0 /\ Len(Tail(w)) = Len(w) - 1
           /\ \A k \in 1..Len(Tail(w)) : Tail(w)[k] = w[k + 1]
           /\ Has(Tail(w), t, d) => Has(w, t, d + 1) /\ Has(w, t, d)
           /\ Once(w, t, d + 1) => Once(Tail(w), t, d)
           /\ Once(w, t, d) => Once(Tail(w), t, d)
           /\ Once(w, t, 0) /\ Head(w).type = t => ~Has(Tail(w), t, 0)
           /\ \A a : Carry(w, t, a) => Carry(Tail(w), t, a) /\ (Head(w).type = t => Head(w).arg = a)
           /\ Head(w).type = t => Has(w, t, 0)
<1>1. /\ Tail(w) \in Seq(V) /\ Len(w) > 0 /\ Len(Tail(w)) = Len(w) - 1
      /\ \A k \in 1..Len(Tail(w)) : Tail(w)[k] = w[k + 1]
      /\ Head(w) = w[1]
  OBVIOUS
<1>2. \A k \in 1..Len(Tail(w)) : k + 1 \in 1..Len(w) /\ k + 1 > 1
  BY <1>1
<1>3. 1 \in 1..Len(w)
  BY <1>1
<1>4. Has(Tail(w), t, d) => Has(w, t, d + 1) /\ Has(w, t, d)
  BY <1>1, <1>2 DEF Has
<1>5. Once(w, t, d + 1) => Once(Tail(w), t, d)
  BY <1>1, <1>2 DEF Once
<1>6. Once(w, t, d) => Once(Tail(w), t, d)
  BY <1>1, <1>2 DEF Once
<1>7. Once(w, t, 0) /\ Head(w).type = t => ~Has(Tail(w), t, 0)
  BY <1>1, <1>2, <1>3 DEF Has, Once
<1>8. \A a : Carry(w, t, a) => Carry(Tail(w), t, a) /\ (Head(w).type = t => Head(w).arg = a)
  BY <1>1, <1>2, <1>3 DEF Carry
<1>9. Head(w).type = t => Has(w, t, 0)
  BY <1>1, <1>3 DEF Has
<1> QED
  BY <1>1, <1>4, <1>5, <1>6, <1>7, <1>8, <1>9

\* What is on the wire when packets u have been written behind w.
LEMMA Written ==
    ASSUME NEW V, NEW w \in Seq(V), NEW u \in Seq(V), NEW t, NEW d \in Nat, d <= Len(w)
    PROVE  /\ w \o u \in Seq(V) /\ Len(w \o u) = Len(w) + Len(u)
           /\ Has(w \o u, t, d) => Has(w, t, d) \/ Has(u, t, 0)
           /\ Once(w, t, d) /\ ~Has(u, t, 0) => Once(w \o u, t, d)
           /\ ~Has(w, t, d) /\ Once(u, t, 0) => Once(w \o u, t, d)
           /\ \A a : Carry(w, t, a) /\ Carry(u, t, a) => Carry(w \o u, t, a)
<1>1. /\ w \o u \in Seq(V) /\ Len(w \o u) = Len(w) + Len(u)
      /\ \A k \in 1..Len(w \o u) : (w \o u)[k] = IF k <= Len(w) THEN w[k] ELSE u[k - Len(w)]
  OBVIOUS
<1>2. \A k \in 1..Len(w \o u) : \/ k \in 1..Len(w)
                                \/ k > Len(w) /\ k - Len(w) \in 1..Len(u) /\ k - Len(w) > 0
  BY <1>1
<1>3. Has(w \o u, t, d) => Has(w, t, d) \/ Has(u, t, 0)
  BY <1>1, <1>2 DEF Has
<1>4. Once(w, t, d) /\ ~Has(u, t, 0) => Once(w \o u, t, d)
  BY <1>1, <1>2 DEF Has, Once
<1>5. ~Has(w, t, d) /\ Once(u, t, 0) => Once(w \o u, t, d)
  <2>1. SUFFICES ASSUME ~Has(w, t, d), Once(u, t, 0),
                        NEW j \in 1..Len(w \o u), NEW k \in 1..Len(w \o u), j > d, k > d,
                        (w \o u)[j].type = t, (w \o u)[k].type = t
                 PROVE  j = k
    BY DEF Once
  <2>2. j > Len(w) /\ k > Len(w)
    BY <1>1, <1>2, <2>1 DEF Has
  <2>3. u[j - Len(w)].type = t /\ u[k - Len(w)].type = t
    BY <1>1, <2>1, <2>2
  <2>4. j - Len(w) = k - Len(w)
    BY <1>2, <2>1, <2>2, <2>3 DEF Once
  <2> QED
    BY <2>4
<1>6. \A a : Carry(w, t, a) /\ Carry(u, t, a) => Carry(w \o u, t, a)
  BY <1>1, <1>2 DEF Carry
<1> QED
  BY <1>1, <1>3, <1>4, <1>5, <1>6

\* The remainder by SeqMod is a sequence number.
LEMMA Wraps ==
    ASSUME NEW n \in Nat
    PROVE  n % SeqMod \in 0..(SeqMod - 1)
BY KexAssumption

Letters == [type : Types, arg : Args]

\* Sealed() keeps the messages and adds the state of the cipher; After() counts them.
LEMMA Seals ==
    ASSUME NEW c \in Ciphers, NEW msgs \in Seq(Letters)
    PROVE  /\ Sealed(c, msgs) \in Seq(OnWire) /\ Len(Sealed(c, msgs)) = Len(msgs)
           /\ \A k \in 1..Len(msgs) : /\ Sealed(c, msgs)[k].type = msgs[k].type
                                      /\ Sealed(c, msgs)[k].arg = msgs[k].arg
           /\ \A t : Has(Sealed(c, msgs), t, 0) <=> Has(msgs, t, 0)
           /\ \A t : Once(msgs, t, 0) => Once(Sealed(c, msgs), t, 0)
           /\ \A t, a : Carry(msgs, t, a) => Carry(Sealed(c, msgs), t, a)
<1>1. \A k \in 1..Len(msgs) : msgs[k] \in Letters
  OBVIOUS
<1>2. \A k \in 1..Len(msgs) :
         [type |-> msgs[k].type, arg |-> msgs[k].arg, keys |-> c.keys,
          seqno |-> (c.seqno + k - 1) % SeqMod, zip |-> c.zip] \in OnWire
  <2>1. SUFFICES ASSUME NEW k \in 1..Len(msgs)
                 PROVE  [type |-> msgs[k].type, arg |-> msgs[k].arg, keys |-> c.keys,
                         seqno |-> (c.seqno + k - 1) % SeqMod, zip |-> c.zip] \in OnWire
    OBVIOUS
  <2>2. c.seqno + k - 1 \in Nat /\ c.keys \in Hashes /\ c.zip \in Zips
    BY DEF Ciphers
  <2>3. (c.seqno + k - 1) % SeqMod \in 0..(SeqMod - 1)
    BY <2>2, Wraps
  <2>4. msgs[k].type \in Types /\ msgs[k].arg \in Args
    BY <1>1 DEF Letters
  <2> QED
    BY <2>2, <2>3, <2>4 DEF OnWire
<1>3. Len(msgs) \in Nat
  OBVIOUS
<1>4. Sealed(c, msgs) \in Seq(OnWire) /\ Len(Sealed(c, msgs)) = Len(msgs)
  BY <1>2, <1>3 DEF Sealed
<1>5. \A k \in 1..Len(msgs) : /\ Sealed(c, msgs)[k].type = msgs[k].type
                              /\ Sealed(c, msgs)[k].arg = msgs[k].arg
  BY DEF Sealed
<1> QED
  BY <1>4, <1>5 DEF Has, Once, Carry

LEMMA Counts ==
    ASSUME NEW c \in Ciphers, NEW n \in Nat
    PROVE  After(c, n) \in Ciphers /\ After(c, n).keys = c.keys
<1>1. c.seqno + n \in Nat
  BY DEF Ciphers
<1>2. (c.seqno + n) % SeqMod \in 0..(SeqMod - 1)
  BY <1>1, Wraps
<1> QED
  BY <1>2 DEF After, Ciphers

\* A message of a given type and argument, alone or before another.
LEMMA Single ==
    ASSUME NEW type \in Types, NEW arg \in Args
    PROVE  /\ <<Msg(type, arg)>> \in Seq(Letters) /\ <<>> \in Seq(Letters)
           /\ Len(<<Msg(type, arg)>>) = 1
           /\ \A t : Has(<<Msg(type, arg)>>, t, 0) <=> t = type
           /\ \A t : Once(<<Msg(type, arg)>>, t, 0)
           /\ \A t, a : Carry(<<Msg(type, arg)>>, t, a) <=> (t = type => a = arg)
           /\ \A t : ~Has(<<>>, t, 0) /\ Once(<<>>, t, 0)
           /\ \A t, a : Carry(<<>>, t, a)
<1>1. Msg(type, arg) \in Letters /\ Msg(type, arg).type = type /\ Msg(type, arg).arg = arg
  BY DEF Msg, Letters
<1> HIDE DEF Msg
<1>2. /\ <<Msg(type, arg)>> \in Seq(Letters) /\ Len(<<Msg(type, arg)>>) = 1
      /\ <<Msg(type, arg)>>[1] = Msg(type, arg)
      /\ <<>> \in Seq(Letters) /\ Len(<<>>) = 0
  BY <1>1
<1>3. 1..Len(<<Msg(type, arg)>>) = {1} /\ 1 > 0
  BY <1>2
<1>4. \A t : Has(<<Msg(type, arg)>>, t, 0) <=> t = type
  BY <1>1, <1>2, <1>3 DEF Has
<1>5. \A t : Once(<<Msg(type, arg)>>, t, 0)
  BY <1>1, <1>2, <1>3 DEF Once
<1>6. \A t, a : Carry(<<Msg(type, arg)>>, t, a) <=> (t = type => a = arg)
  BY <1>1, <1>2, <1>3 DEF Carry
<1>7. /\ \A t : ~Has(<<>>, t, 0) /\ Once(<<>>, t, 0)
      /\ \A t, a : Carry(<<>>, t, a)
  BY <1>2 DEF Has, Once, Carry
<1> QED
  BY <1>2, <1>4, <1>5, <1>6, <1>7

\* Packets of no exchange, and the read of one packet, leave the table as it is.
Quiet(u) == \A t \in {"kexinit", "dhinit", "reply", "newkeys"} : ~Has(u, t, 0)

LEMMA ClientTable ==
    ASSUME NEW w \in Seq(OnWire), NEW c, NEW s, NEW cs, NEW hash, ToClient(w, c, s, cs, hash)
    PROVE  /\ w # <<>> => ToClient(Tail(w), c, s, cs, hash)
           /\ \A u \in Seq(OnWire) : Quiet(u) => ToClient(w \o u, c, s, cs, hash)
<1>1. ASSUME w # <<>> PROVE ToClient(Tail(w), c, s, cs, hash)
  <2>1. \A t : /\ Has(Tail(w), t, 0) => Has(w, t, 0)
               /\ Once(w, t, 0) => Once(Tail(w), t, 0)
               /\ \A a : Carry(w, t, a) => Carry(Tail(w), t, a)
    BY <1>1, Read
  <2> QED
    BY <2>1 DEF ToClient
<1>2. ASSUME NEW u \in Seq(OnWire), Quiet(u) PROVE ToClient(w \o u, c, s, cs, hash)
  <2>1. \A t : /\ Has(w \o u, t, 0) => Has(w, t, 0) \/ Has(u, t, 0)
               /\ Once(w, t, 0) /\ ~Has(u, t, 0) => Once(w \o u, t, 0)
               /\ \A a : Carry(w, t, a) /\ Carry(u, t, a) => Carry(w \o u, t, a)
    <3>1. 0 \in Nat /\ 0 <= Len(w)
      OBVIOUS
    <3> QED
      BY <3>1, Written
  <2>2. \A t \in {"kexinit", "dhinit", "reply", "newkeys"} : ~Has(u, t, 0) /\ \A a : Carry(u, t, a)
    BY <1>2 DEF Quiet, Has, Carry
  <2> QED
    BY <2>1, <2>2 DEF ToClient
<1> QED
  BY <1>1, <1>2

LEMMA ServerTable ==
    ASSUME NEW w \in Seq(OnWire), NEW c, NEW s, NEW cc, NEW d \in Nat, ToServer(w, c, s, cc, d)
    PROVE  /\ w # <<>> => \A e \in Nat : e = d - 1 \/ (e = 0 /\ d = 0)
                                            => ToServer(Tail(w), c, s, cc, e)
           /\ \A u \in Seq(OnWire) : Quiet(u) => ToServer(w \o u, c, s, cc, d)
<1>0. d <= Len(w) /\ Len(w) \in Nat
  BY DEF ToServer
<1>1. ASSUME w # <<>>, NEW e \in Nat, e = d - 1 \/ (e = 0 /\ d = 0)
      PROVE  ToServer(Tail(w), c, s, cc, e)
  <2>1. \A t : /\ Has(Tail(w), t, 0) => Has(w, t, 0)
               /\ Once(w, t, 0) => Once(Tail(w), t, 0)
               /\ \A a : Carry(w, t, a) => Carry(Tail(w), t, a)
    BY <1>1, Read
  <2>2. \A t : Has(Tail(w), t, e) => Has(w, t, e) /\ Has(w, t, e + 1)
    BY <1>1, Read
  <2>3. \A t : /\ Once(w, t, e) => Once(Tail(w), t, e)
               /\ Once(w, t, e + 1) => Once(Tail(w), t, e)
    BY <1>1, Read
  <2>4. Len(Tail(w)) = Len(w) - 1 /\ Len(w) > 0
    BY <1>1, Read
  <2>5. e = d \/ e + 1 = d
    BY <1>1
  <2>6. e <= Len(Tail(w))
    BY <1>0, <1>1, <2>4
  <2> QED
    BY <2>1, <2>2, <2>3, <2>5, <2>6 DEF ToServer
<1>2. ASSUME NEW u \in Seq(OnWire), Quiet(u) PROVE ToServer(w \o u, c, s, cc, d)
  <2>1. \A t : /\ Has(w \o u, t, 0) => Has(w, t, 0) \/ Has(u, t, 0)
               /\ Once(w, t, 0) /\ ~Has(u, t, 0) => Once(w \o u, t, 0)
               /\ \A a : Carry(w, t, a) /\ Carry(u, t, a) => Carry(w \o u, t, a)
    <3>1. 0 \in Nat /\ 0 <= Len(w)
      OBVIOUS
    <3> QED
      BY <3>1, Written
  <2>2. \A t : /\ Has(w \o u, t, d) => Has(w, t, d) \/ Has(u, t, 0)
               /\ Once(w, t, d) /\ ~Has(u, t, 0) => Once(w \o u, t, d)
    BY <1>0, Written
  <2>3. \A t \in {"kexinit", "dhinit", "reply", "newkeys"} : ~Has(u, t, 0) /\ \A a : Carry(u, t, a)
    BY <1>2 DEF Quiet, Has, Carry
  <2>4. d <= Len(w \o u)
    BY <1>0
  <2> QED
    BY <2>1, <2>2, <2>3, <2>4 DEF ToServer
<1> QED
  BY <1>1, <1>2

-----------------------------------------------------------------------------
(* What the steps that write and read packets do to the links.             *)

LinksTyped == wire \in [Sides -> Seq(OnWire)] /\ out \in [Sides -> Ciphers] /\ in \in [Sides -> Ciphers]

LEMMA Transmits ==
    ASSUME LinksTyped, NEW x \in Sides, NEW msgs \in Seq(Letters), Transmit(x, msgs)
    PROVE  /\ wire' \in [Sides -> Seq(OnWire)] /\ out' \in [Sides -> Ciphers]
           /\ wire'[x] = wire[x]
           /\ wire'[Other(x)] = wire[Other(x)] \o Sealed(out[x], msgs)
           /\ \A y \in Sides : out'[y].keys = out[y].keys
<1>1. out[x] \in Ciphers /\ Other(x) \in Sides /\ Other(x) # x /\ wire[Other(x)] \in Seq(OnWire)
  BY DEF LinksTyped, Sides, Other
<1>2. Sealed(out[x], msgs) \in Seq(OnWire)
  BY <1>1, Seals
<1>3. After(out[x], Len(msgs)) \in Ciphers /\ After(out[x], Len(msgs)).keys = out[x].keys
  BY <1>1, Counts
<1>4. wire[Other(x)] \o Sealed(out[x], msgs) \in Seq(OnWire)
  BY <1>1, <1>2
<1>5. /\ wire' = [wire EXCEPT ![Other(x)] = @ \o Sealed(out[x], msgs)]
      /\ out' = [out EXCEPT ![x] = After(@, Len(msgs))]
  BY DEF Transmit
<1> QED
  BY <1>1, <1>3, <1>4, <1>5 DEF LinksTyped

LEMMA Answers ==
    ASSUME LinksTyped, NEW x \in Sides, NEW msgs \in Seq(Letters), wire[x] # <<>>, Answer(x, msgs)
    PROVE  /\ LinksTyped'
           /\ wire'[x] = Tail(wire[x])
           /\ wire'[Other(x)] = wire[Other(x)] \o Sealed(out[x], msgs)
           /\ \A y \in Sides : out'[y].keys = out[y].keys /\ in'[y].keys = in[y].keys
<1>1. /\ out[x] \in Ciphers /\ in[x] \in Ciphers /\ Other(x) \in Sides /\ Other(x) # x
      /\ wire[Other(x)] \in Seq(OnWire) /\ wire[x] \in Seq(OnWire)
  BY DEF LinksTyped, Sides, Other
<1>2. Sealed(out[x], msgs) \in Seq(OnWire)
  BY <1>1, Seals
<1>3. /\ After(out[x], Len(msgs)) \in Ciphers /\ After(out[x], Len(msgs)).keys = out[x].keys
      /\ After(in[x], 1) \in Ciphers /\ After(in[x], 1).keys = in[x].keys
  <2>1. Len(msgs) \in Nat /\ 1 \in Nat
    OBVIOUS
  <2>2. After(out[x], Len(msgs)) \in Ciphers /\ After(out[x], Len(msgs)).keys = out[x].keys
    BY <1>1, <2>1, Counts
  <2>3. After(in[x], 1) \in Ciphers /\ After(in[x], 1).keys = in[x].keys
    BY <1>1, <2>1, Counts
  <2> QED
    BY <2>2, <2>3
<1>4. wire[Other(x)] \o Sealed(out[x], msgs) \in Seq(OnWire) /\ Tail(wire[x]) \in Seq(OnWire)
  BY <1>1, <1>2
<1>5. /\ wire' = [wire EXCEPT ![x] = Tail(@), ![Other(x)] = @ \o Sealed(out[x], msgs)]
      /\ out' = [out EXCEPT ![x] = After(@, Len(msgs))]
      /\ in' = [in EXCEPT ![x] = After(@, 1)]
  BY DEF Answer
<1>6. wire' \in [Sides -> Seq(OnWire)] /\ wire'[x] = Tail(wire[x])
      /\ wire'[Other(x)] = wire[Other(x)] \o Sealed(out[x], msgs)
  BY <1>1, <1>4, <1>5 DEF LinksTyped
<1>7. /\ out' \in [Sides -> Ciphers] /\ in' \in [Sides -> Ciphers]
      /\ \A y \in Sides : out'[y].keys = out[y].keys /\ in'[y].keys = in[y].keys
  BY <1>1, <1>3, <1>5 DEF LinksTyped
<1> QED
  BY <1>6, <1>7 DEF LinksTyped

-----------------------------------------------------------------------------
(* The invariant holds at first.                                           *)

LEMMA InitialValues == Fresh \in Ciphers /\ NoKex \in Exchanges /\ NoKeys \in Hashes
<1>1. NoKeys \in Hashes
  BY DEF NoKeys, Hashes
<1>2. Plain \in Zips
  BY <1>1 DEF Plain, Zips
<1>3. 0 \in 0..(SeqMod - 1)
  BY KexAssumption
<1>4. Fresh \in Ciphers
  BY <1>1, <1>2, <1>3 DEF Fresh, Ciphers
<1>5. NoKex.negotiated \in Choices /\ NoKeys \in Args
  BY <1>1 DEF Choices, Args
<1>6. NoKex \in Exchanges
  BY <1>1, <1>5 DEF NoKex, Exchanges
<1> QED
  BY <1>1, <1>4, <1>6

LEMMA Initially == Init => IInv
<1> SUFFICES ASSUME Init PROVE IInv
  OBVIOUS
<1> DEFINE alone == <<Msg("kexinit", 1)>>
<1> DEFINE both == <<Msg("kexinit", 1), Msg("dhinit", 0)>>
<1>1. /\ alone \in Seq(Letters) /\ Len(alone) = 1 /\ alone[1].type = "kexinit" /\ alone[1].arg = 1
      /\ both \in Seq(Letters) /\ Len(both) = 2 /\ both[1].type = "kexinit" /\ both[1].arg = 1
      /\ both[2].type = "dhinit"
  <2>1. /\ Msg("kexinit", 1) \in Letters /\ Msg("dhinit", 0) \in Letters
        /\ Msg("kexinit", 1).type = "kexinit" /\ Msg("kexinit", 1).arg = 1
        /\ Msg("dhinit", 0).type = "dhinit"
    BY DEF Msg, Letters, Types, Args
  <2> HIDE DEF Msg
  <2> QED
    BY <2>1
<1> HIDE DEF alone, both
<1>2. /\ Fresh \in Ciphers /\ NoKex \in Exchanges /\ NoKeys \in Hashes
      /\ After(Fresh, 1) \in Ciphers /\ After(Fresh, 1).keys = Fresh.keys
      /\ After(Fresh, 2) \in Ciphers /\ After(Fresh, 2).keys = Fresh.keys
  BY InitialValues, Counts
<1>3. \A m \in {alone, both} :
         /\ Sealed(Fresh, m) \in Seq(OnWire) /\ Len(Sealed(Fresh, m)) = Len(m)
         /\ \A k \in 1..Len(m) : /\ Sealed(Fresh, m)[k].type = m[k].type
                                 /\ Sealed(Fresh, m)[k].arg = m[k].arg
  BY <1>1, <1>2, Seals
<1>s. /\ Len(Sealed(Fresh, alone)) = 1 /\ Sealed(Fresh, alone)[1].type = "kexinit"
      /\ Sealed(Fresh, alone)[1].arg = 1
      /\ Len(Sealed(Fresh, both)) = 2 /\ Sealed(Fresh, both)[1].type = "kexinit"
      /\ Sealed(Fresh, both)[1].arg = 1 /\ Sealed(Fresh, both)[2].type = "dhinit"
  <2>1. 1 \in 1..1 /\ 1 \in 1..2 /\ 2 \in 1..2
    OBVIOUS
  <2>2. 1..Len(alone) = 1..1 /\ 1..Len(both) = 1..2
    BY <1>1
  <2>. HIDE DEF Sealed
  <2>. QED
    BY <1>1, <1>3, <2>1, <2>2
<1>4. /\ wire["client"] = Sealed(Fresh, alone)
      /\ wire["server"] = IF guess THEN Sealed(Fresh, both) ELSE Sealed(Fresh, alone)
      /\ wire = [x \in Sides |-> wire[x]]
  BY DEF Init, Sides, alone, both
<1>5. /\ out = [x \in Sides |-> out[x]] /\ in = [x \in Sides |-> Fresh]
      /\ \A x \in Sides : out[x] \in Ciphers /\ out[x].keys = Fresh.keys
  BY <1>2 DEF Init, Sides
<1>6. /\ wire \in [Sides -> Seq(OnWire)] /\ out \in [Sides -> Ciphers] /\ in \in [Sides -> Ciphers]
  BY <1>1, <1>2, <1>3, <1>4, <1>5 DEF Sides
<1>7. Typed
  <2>1. /\ authenticated \in [Sides -> BOOLEAN] /\ auths \in [Sides -> BOOLEAN] /\ asked \in BOOLEAN
        /\ open \in [Sides -> BOOLEAN] /\ guess \in BOOLEAN /\ skip \in BOOLEAN
    BY Zenon DEF Init
  <2>2. queue \in [Sides -> Seq(Queued)]
    BY DEF Init
  <2>3. /\ offer \in [Sides -> Offers] /\ kexinit \in [Sides -> Nat] /\ cookies \in [Sides -> Nat]
        /\ mode \in [Sides -> {"first", "kex", "normal"}] /\ submitted \in [Sides -> Nat]
        /\ failed \subseteq Sides
    BY DEF Init
  <2>4. kex \in [Sides -> Exchanges] /\ session \in [Sides -> Hashes]
    BY <1>2 DEF Init
  <2> QED
    BY <1>6, <2>1, <2>2, <2>3, <2>4 DEF Typed
<1>8. /\ C = 1 /\ S = 1 /\ cookies["client"] = 1 /\ cookies["server"] = 1
      /\ mode["server"] = "first" /\ mode["client"] = "first" /\ skip = FALSE
      /\ \A x \in Sides : kexinit[x] = 1 /\ cookies[x] = 1 /\ mode[x] = "first" /\ kex[x] = NoKex
                          /\ session[x] = NoKeys
      /\ kex["client"] = NoKex /\ kex["server"] = NoKex
  BY DEF Init, C, S, Phase, Sides
<1>9. ToClient(wire["client"], C, S, cookies["server"], kex["server"].hash)
  <2>1. Len(wire["client"]) = 1 /\ wire["client"][1].type = "kexinit" /\ wire["client"][1].arg = 1
    BY <1>s, <1>4
  <2> QED
    BY <1>8, <2>1 DEF ToClient, Has, Once, Carry
<1>10. ToServer(wire["server"], C, S, cookies["client"], Guessed(guess, mode["server"], skip))
  <2>1. CASE guess
    <3>1. /\ Len(wire["server"]) = 2 /\ wire["server"][1].type = "kexinit"
          /\ wire["server"][1].arg = 1 /\ wire["server"][2].type = "dhinit"
      BY <1>s, <1>4, <2>1
    <3>2. Guessed(guess, mode["server"], skip) = 2
      BY <1>8, <2>1 DEF Guessed
    <3> QED
      BY <1>8, <3>1, <3>2 DEF ToServer, Has, Once, Carry
  <2>2. CASE ~guess
    <3>1. /\ Len(wire["server"]) = 1 /\ wire["server"][1].type = "kexinit"
          /\ wire["server"][1].arg = 1
      BY <1>s, <1>4, <2>2
    <3>2. Guessed(guess, mode["server"], skip) = 0
      BY <1>8, <2>2 DEF Guessed
    <3> QED
      BY <1>8, <3>1, <3>2 DEF ToServer, Has, Once, Carry
  <2> QED
    BY <2>1, <2>2
<1>11. Phases
  BY <1>8, <1>9, <1>10 DEF Phases, Joint
<1>12. Known
  BY <1>8 DEF Known, NoKex, NoKeys
<1>13. Verification
  <2>1. ~asked
    BY DEF Init
  <2> QED
    BY <1>5, <1>8, <2>1 DEF Verification, HostVerifiedFirst, NoKex, Fresh, Sides
<1> QED
  BY <1>7, <1>11, <1>12, <1>13 DEF IInv

-----------------------------------------------------------------------------
(* Steps outside the exchanges.                                            *)

\* A step that changes nothing of an exchange and puts no packet of one on the wire.
LEMMA Silent ==
    ASSUME IInv, Typed',
           UNCHANGED <<offer, kexinit, cookies, kex, mode, session, guess, skip, accepted>>,
           asked' => asked,
           out'["client"].keys = out["client"].keys, in'["client"].keys = in["client"].keys,
           \A x \in Sides : open'[x] =>
               /\ open[x]
               /\ \/ wire'[x] = wire[x]
                  \/ \E u \in Seq(OnWire) : Quiet(u) /\ wire'[x] = wire[x] \o u
                  \/ /\ wire[x] # <<>> /\ wire'[x] = Tail(wire[x])
                     /\ x = "server" => ~skip /\ mode["server"] # "first"
    PROVE  IInv'
<1>1. C' = C /\ S' = S
  BY DEF C, S
<1>2. /\ cookies'["server"] = cookies["server"] /\ cookies'["client"] = cookies["client"]
      /\ kex'["server"].hash = kex["server"].hash
      /\ Guessed(guess, mode["server"], skip)' = Guessed(guess, mode["server"], skip)
  BY DEF Guessed
<1>3. wire["client"] \in Seq(OnWire) /\ wire["server"] \in Seq(OnWire)
  BY DEF IInv, Typed, Sides
<1>4. ASSUME open'["client"]
      PROVE  ToClient(wire'["client"], C, S, cookies["server"], kex["server"].hash)
  <2>1. ToClient(wire["client"], C, S, cookies["server"], kex["server"].hash)
    BY <1>4 DEF IInv, Phases, Sides
  <2>2. \/ wire'["client"] = wire["client"]
        \/ \E u \in Seq(OnWire) : Quiet(u) /\ wire'["client"] = wire["client"] \o u
        \/ wire["client"] # <<>> /\ wire'["client"] = Tail(wire["client"])
    BY <1>4 DEF Sides
  <2> QED
    BY <1>3, <2>1, <2>2, ClientTable
<1>5. ASSUME open'["server"]
      PROVE  ToServer(wire'["server"], C, S, cookies["client"], Guessed(guess, mode["server"], skip))
  <2> DEFINE d == Guessed(guess, mode["server"], skip)
  <2>1. ToServer(wire["server"], C, S, cookies["client"], d) /\ d \in Nat
    BY <1>5 DEF IInv, Phases, Sides, Guessed
  <2>2. \/ wire'["server"] = wire["server"]
        \/ \E u \in Seq(OnWire) : Quiet(u) /\ wire'["server"] = wire["server"] \o u
        \/ wire["server"] # <<>> /\ wire'["server"] = Tail(wire["server"]) /\ d = 0
    BY <1>5 DEF Sides, Guessed
  <2> HIDE DEF d
  <2>3. wire["server"] # <<>> /\ d = 0 => ToServer(Tail(wire["server"]), C, S, cookies["client"], d)
    BY <1>3, <2>1, ServerTable
  <2>4. \A u \in Seq(OnWire) : Quiet(u) => ToServer(wire["server"] \o u, C, S, cookies["client"], d)
    BY <1>3, <2>1, ServerTable
  <2>5. ToServer(wire'["server"], C, S, cookies["client"], d)
    BY <2>1, <2>2, <2>3, <2>4
  <2> QED
    BY <2>5 DEF d
<1>6. Phases'
  BY <1>1, <1>2, <1>4, <1>5 DEF IInv, Phases
<1>7. Known'
  BY <1>1 DEF IInv, Known
<1>8. Verification'
  BY <1>1 DEF IInv, Verification, HostVerifiedFirst
<1> QED
  BY <1>6, <1>7, <1>8 DEF IInv

\* Packets written behind others, when none of them belongs to an exchange.
LEMMA QuietPackets ==
    ASSUME NEW c \in Ciphers, NEW msgs \in Seq(Letters), Quiet(msgs)
    PROVE  Sealed(c, msgs) \in Seq(OnWire) /\ Quiet(Sealed(c, msgs))
BY Seals DEF Quiet

LEMMA QuietLetters ==
    /\ \A m \in Queued : <<m>> \in Seq(Letters) /\ Quiet(<<m>>)
    /\ <<Msg("disconnect", 0)>> \in Seq(Letters) /\ Quiet(<<Msg("disconnect", 0)>>)
    /\ <<>> \in Seq(Letters) /\ Quiet(<<>>)
<1>1. ASSUME NEW m \in Queued PROVE <<m>> \in Seq(Letters) /\ Quiet(<<m>>)
  <2>1. m \in Letters /\ m.type \in {"app", "request", "success"}
    BY DEF Queued, Letters, Types
  <2> QED
    BY <2>1 DEF Quiet, Has
<1>2. "disconnect" \in Types /\ 0 \in Args
  BY DEF Types, Args
<1>3. /\ <<Msg("disconnect", 0)>> \in Seq(Letters) /\ <<>> \in Seq(Letters)
      /\ \A t : Has(<<Msg("disconnect", 0)>>, t, 0) <=> t = "disconnect"
      /\ \A t : ~Has(<<>>, t, 0)
  BY <1>2, Single
<1> QED
  BY <1>1, <1>3 DEF Quiet

\* A step in which x writes packets of no exchange.
LEMMA QuietTransmit ==
    ASSUME IInv, NEW x \in Sides, NEW msgs \in Seq(Letters), Quiet(msgs), Transmit(x, msgs),
           \A y \in Sides : open'[y] => open[y],
           UNCHANGED <<offer, kexinit, cookies, kex, mode, session, guess, skip, accepted, in>>,
           asked' => asked,
           /\ queue' \in [Sides -> Seq(Queued)] /\ authenticated' \in [Sides -> BOOLEAN]
           /\ auths' \in [Sides -> BOOLEAN] /\ asked' \in BOOLEAN /\ open' \in [Sides -> BOOLEAN]
           /\ submitted' \in [Sides -> Nat] /\ failed' \subseteq Sides
    PROVE  IInv'
<1>1. LinksTyped /\ Typed
  BY DEF IInv, Typed, LinksTyped
<1>2. /\ wire' \in [Sides -> Seq(OnWire)] /\ out' \in [Sides -> Ciphers]
      /\ wire'[x] = wire[x]
      /\ wire'[Other(x)] = wire[Other(x)] \o Sealed(out[x], msgs)
      /\ \A y \in Sides : out'[y].keys = out[y].keys
  BY <1>1, Transmits
<1>3. Typed'
  BY <1>1, <1>2 DEF Typed
<1>4. Sealed(out[x], msgs) \in Seq(OnWire) /\ Quiet(Sealed(out[x], msgs))
  BY <1>1, QuietPackets DEF Typed
<1>5. \A y \in Sides : \/ wire'[y] = wire[y]
                       \/ \E u \in Seq(OnWire) : Quiet(u) /\ wire'[y] = wire[y] \o u
  BY <1>2, <1>4 DEF Sides, Other
<1>6. "client" \in Sides
  BY DEF Sides
<1> QED
  BY <1>2, <1>3, <1>5, <1>6, Silent

\* A step in which x reads a packet and writes some of no exchange.
LEMMA QuietAnswer ==
    ASSUME IInv, NEW x \in Sides, NEW msgs \in Seq(Letters), Quiet(msgs), Answer(x, msgs),
           wire[x] # <<>>,
           x = "server" /\ open'["server"] => ~skip /\ mode["server"] # "first",
           \A y \in Sides : open'[y] => open[y],
           UNCHANGED <<offer, kexinit, cookies, kex, mode, session, guess, skip, accepted>>,
           asked' => asked,
           /\ queue' \in [Sides -> Seq(Queued)] /\ authenticated' \in [Sides -> BOOLEAN]
           /\ auths' \in [Sides -> BOOLEAN] /\ asked' \in BOOLEAN /\ open' \in [Sides -> BOOLEAN]
           /\ submitted' \in [Sides -> Nat] /\ failed' \subseteq Sides
    PROVE  IInv'
<1>1. LinksTyped /\ Typed
  BY DEF IInv, Typed, LinksTyped
<1>2. /\ LinksTyped'
      /\ wire'[x] = Tail(wire[x])
      /\ wire'[Other(x)] = wire[Other(x)] \o Sealed(out[x], msgs)
      /\ \A y \in Sides : out'[y].keys = out[y].keys /\ in'[y].keys = in[y].keys
  BY <1>1, Answers
<1>3. Typed'
  BY <1>1, <1>2 DEF Typed, LinksTyped
<1>4. Sealed(out[x], msgs) \in Seq(OnWire) /\ Quiet(Sealed(out[x], msgs))
  BY <1>1, QuietPackets DEF Typed
<1>5. \A y \in Sides : open'[y] =>
          /\ open[y]
          /\ \/ wire'[y] = wire[y]
             \/ \E u \in Seq(OnWire) : Quiet(u) /\ wire'[y] = wire[y] \o u
             \/ /\ wire[y] # <<>> /\ wire'[y] = Tail(wire[y])
                /\ y = "server" => ~skip /\ mode["server"] # "first"
  BY <1>2, <1>4 DEF Sides, Other
<1>6. "client" \in Sides
  BY DEF Sides
<1> QED
  BY <1>2, <1>3, <1>5, <1>6, Silent

LEMMA SendPacketStep ==
    ASSUME IInv, NEW x \in Sides, NEW msg \in Queued, SendPacket(x, msg),
           UNCHANGED <<kexVars, history, in, open>>,
           authenticated' \in [Sides -> BOOLEAN], auths' \in [Sides -> BOOLEAN],
           submitted' \in [Sides -> Nat]
    PROVE  IInv'
<1>1. Typed
  BY DEF IInv
<1>2. <<msg>> \in Seq(Letters) /\ Quiet(<<msg>>)
  BY QuietLetters
<1>3. CASE kexinit[x] # 0
  <2>1. queue' = [queue EXCEPT ![x] = Append(@, msg)] /\ UNCHANGED <<wire, out>>
    BY <1>3 DEF SendPacket
  <2>2. queue' \in [Sides -> Seq(Queued)]
    BY <1>1, <2>1 DEF Typed
  <2>3. Typed'
    BY <1>1, <2>1, <2>2 DEF Typed, kexVars, history
  <2> QED
    BY <2>1, <2>3, Silent DEF kexVars, history, Typed
<1>4. CASE kexinit[x] = 0
  <2>1. Transmit(x, <<msg>>) /\ UNCHANGED queue
    BY <1>4 DEF SendPacket
  <2> QED
    BY <1>1, <1>2, <2>1, QuietTransmit DEF kexVars, history, Typed
<1> QED
  BY <1>3, <1>4

LEMMA AppSendStep == ASSUME IInv, NEW x \in Sides, AppSend(x) PROVE IInv'
<1>1. Typed
  BY DEF IInv
<1>2. submitted[x] \in Nat /\ submitted' \in [Sides -> Nat]
  BY <1>1 DEF AppSend, Typed
<1>3. Msg("app", submitted[x] + 1) \in Queued
  BY <1>2 DEF Msg, Queued, Args
<1>4. UNCHANGED <<kexVars, history, in, open, authenticated, auths>>
  BY DEF AppSend, authVars
<1>5. SendPacket(x, Msg("app", submitted[x] + 1))
  BY DEF AppSend
<1>6. authenticated' \in [Sides -> BOOLEAN] /\ auths' \in [Sides -> BOOLEAN]
  BY <1>1, <1>4 DEF Typed
<1> QED
  BY <1>2, <1>3, <1>4, <1>5, <1>6, SendPacketStep

LEMMA AuthRequestStep == ASSUME IInv, AuthRequest PROVE IInv'
<1>1. Typed
  BY DEF IInv
<1>2. Msg("request", 0) \in Queued /\ "client" \in Sides
  BY DEF Msg, Queued, Args, Sides
<1>3. /\ UNCHANGED <<kexVars, history, in, open, authenticated, submitted>>
      /\ SendPacket("client", Msg("request", 0))
      /\ auths' = [auths EXCEPT !["client"] = TRUE]
  BY DEF AuthRequest, appVars
<1>4. /\ authenticated' \in [Sides -> BOOLEAN] /\ submitted' \in [Sides -> Nat]
  BY <1>1, <1>3 DEF Typed
<1>5. auths' \in [Sides -> BOOLEAN]
  BY <1>1, <1>3 DEF Typed
<1> QED
  BY <1>2, <1>3, <1>4, <1>5, SendPacketStep

LEMMA DisconnectStep == ASSUME IInv, NEW x \in Sides, Disconnect(x) PROVE IInv'
<1>1. Typed
  BY DEF IInv
<1>2. open' = [open EXCEPT ![x] = FALSE]
  BY DEF Disconnect
<1>3. open' \in [Sides -> BOOLEAN] /\ \A y \in Sides : open'[y] => open[y]
  BY <1>1, <1>2 DEF Typed
<1> QED
  BY <1>1, <1>3, QuietLetters, QuietTransmit
     DEF Disconnect, kexVars, authVars, appVars, history, Typed

LEMMA DeniedStep == ASSUME IInv, Denied PROVE IInv'
<1>1. Typed /\ "client" \in Sides
  BY DEF IInv, Sides
<1>2. open' = [open EXCEPT !["client"] = FALSE] /\ failed' = failed \cup {"client"} /\ asked' = FALSE
  BY DEF Denied
<1>3. /\ open' \in [Sides -> BOOLEAN] /\ \A y \in Sides : open'[y] => open[y]
      /\ failed' \subseteq Sides /\ asked' \in BOOLEAN
  BY <1>1, <1>2 DEF Typed
<1> QED
  BY <1>1, <1>2, <1>3, QuietLetters, QuietTransmit DEF Denied, authVars, appVars, Typed

LEMMA FatalStep ==
    ASSUME IInv, NEW x \in Sides, wire[x] # <<>>, Fatal(x)
    PROVE  IInv'
<1>1. Typed
  BY DEF IInv
<1>2. open' = [open EXCEPT ![x] = FALSE] /\ failed' = failed \cup {x}
  BY DEF Fatal
<1>3. /\ open' \in [Sides -> BOOLEAN] /\ \A y \in Sides : open'[y] => open[y] /\ y # x
      /\ failed' \subseteq Sides
  BY <1>1, <1>2 DEF Typed
<1>4. "server" \in Sides
  BY DEF Sides
<1> QED
  BY <1>1, <1>3, <1>4, QuietLetters, QuietAnswer DEF Fatal, kexVars, authVars, appVars, Typed

LEMMA MisfitStep == ASSUME IInv, NEW x \in Sides, Misfit(x) PROVE IInv'
<1>1. Typed /\ wire[x] # <<>>
  BY DEF IInv, Misfit
<1>2. CASE Readable(in[x], Head(wire[x])) /\ mode[x] = "normal"
  <2>1. /\ Answer(x, <<>>) /\ UNCHANGED <<kexVars, authVars, appVars, history, queue, open>>
        /\ x = "server" => ~skip /\ mode["server"] # "first"
    BY <1>2 DEF Misfit
  <2> QED
    BY <1>1, <2>1, QuietLetters, QuietAnswer DEF kexVars, authVars, appVars, history, Typed
<1>3. CASE ~(Readable(in[x], Head(wire[x])) /\ mode[x] = "normal")
  BY <1>1, <1>3, FatalStep DEF Misfit
<1> QED
  BY <1>2, <1>3

LEMMA RcvAppStep == ASSUME IInv, NEW x \in Sides, RcvApp(x) PROVE IInv'
<1>1. Typed /\ wire[x] # <<>>
  BY DEF IInv, RcvApp, Arrives
<1>2. /\ Answer(x, <<>>) /\ UNCHANGED <<kexVars, authVars, history, queue, open, submitted>>
      /\ x = "server" => ~skip /\ mode["server"] # "first"
  BY DEF RcvApp, Arrives
<1> QED
  BY <1>1, <1>2, QuietLetters, QuietAnswer DEF kexVars, authVars, history, Typed

LEMMA RcvAuthRequestStep == ASSUME IInv, RcvAuthRequest PROVE IInv'
<1>1. Typed /\ wire["server"] # <<>> /\ "server" \in Sides
  BY DEF IInv, RcvAuthRequest, Arrives, Sides
<1>2. /\ Answer("server", <<>>)
      /\ UNCHANGED <<kexVars, appVars, history, queue, open, authenticated>>
      /\ ~skip /\ mode["server"] # "first"
      /\ auths' = [auths EXCEPT !["server"] = TRUE]
  BY DEF RcvAuthRequest, Arrives
<1>3. auths' \in [Sides -> BOOLEAN]
  BY <1>1, <1>2 DEF Typed
<1> QED
  BY <1>1, <1>2, <1>3, QuietLetters, QuietAnswer DEF kexVars, appVars, history, Typed

LEMMA RcvDisconnectStep == ASSUME IInv, NEW x \in Sides, RcvDisconnect(x) PROVE IInv'
<1>1. Typed /\ wire[x] # <<>>
  BY DEF IInv, RcvDisconnect, Arrives
<1>2. /\ Answer(x, <<>>) /\ UNCHANGED <<kexVars, authVars, appVars, history, queue>>
      /\ open' = [open EXCEPT ![x] = FALSE]
  BY DEF RcvDisconnect
<1>3. open' \in [Sides -> BOOLEAN] /\ \A y \in Sides : open'[y] => open[y] /\ y # x
  BY <1>1, <1>2 DEF Typed
<1>4. "server" \in Sides
  BY DEF Sides
<1> QED
  BY <1>1, <1>2, <1>3, <1>4, QuietLetters, QuietAnswer
     DEF kexVars, authVars, appVars, history, Typed

\* The start of delayed compression changes the cipher's stream and nothing else.
LEMMA DelayedType ==
    ASSUME NEW x, NEW slot, NEW c \in Ciphers
    PROVE  /\ [c EXCEPT !.zip = Delayed(x, slot, @)] \in Ciphers
           /\ [c EXCEPT !.zip = Delayed(x, slot, @)].keys = c.keys
<1>1. Delayed(x, slot, c.zip) \in Zips
  BY InitialValues DEF Delayed, Zips, Ciphers
<1> HIDE DEF Delayed
<1> QED
  BY <1>1 DEF Ciphers

LEMMA RcvAuthSuccessStep == ASSUME IInv, RcvAuthSuccess PROVE IInv'
<1>1. Typed /\ wire["client"] # <<>> /\ "client" \in Sides
  BY DEF IInv, RcvAuthSuccess, Arrives, Sides
<1>2. in["client"] \in Ciphers /\ out["client"] \in Ciphers /\ wire["client"] \in Seq(OnWire)
  BY <1>1 DEF Typed
<1> DEFINE new == [After(in["client"], 1) EXCEPT !.zip = Delayed("client", "scCompress", @)]
<1> DEFINE old == [out["client"] EXCEPT !.zip = Delayed("client", "csCompress", @)]
<1>3. /\ authenticated' = [authenticated EXCEPT !["client"] = TRUE]
      /\ auths' = [auths EXCEPT !["client"] = FALSE]
      /\ wire' = [wire EXCEPT !["client"] = Tail(@)]
      /\ in' = [in EXCEPT !["client"] = new]
      /\ out' = [out EXCEPT !["client"] = old]
      /\ UNCHANGED <<kexVars, appVars, history, queue, open>>
  <2>1. in' = [in EXCEPT !["client"] = new]
    BY DEF RcvAuthSuccess
  <2>2. out' = [out EXCEPT !["client"] = old]
    BY DEF RcvAuthSuccess
  <2> QED
    BY <2>1, <2>2 DEF RcvAuthSuccess
<1>4. After(in["client"], 1) \in Ciphers /\ After(in["client"], 1).keys = in["client"].keys
  BY <1>2, Counts
<1>5. new \in Ciphers /\ new.keys = in["client"].keys
  <2>1. new \in Ciphers
    BY <1>4, DelayedType
  <2>2. new.keys = After(in["client"], 1).keys
    BY <1>4 DEF Ciphers
  <2> QED
    BY <1>4, <2>1, <2>2
<1>6. old \in Ciphers /\ old.keys = out["client"].keys
  <2>1. old \in Ciphers
    BY <1>2, DelayedType
  <2>2. old.keys = out["client"].keys
    BY <1>2 DEF Ciphers
  <2> QED
    BY <2>1, <2>2
<1> HIDE DEF new, old
<1>7. in' \in [Sides -> Ciphers] /\ in'["client"] = new
  BY <1>1, <1>3, <1>5 DEF Typed
<1>8. out' \in [Sides -> Ciphers] /\ out'["client"] = old
  BY <1>1, <1>3, <1>6 DEF Typed
<1>9. /\ wire' \in [Sides -> Seq(OnWire)] /\ wire'["client"] = Tail(wire["client"])
      /\ \A x \in Sides : x # "client" => wire'[x] = wire[x]
  BY <1>1, <1>2, <1>3 DEF Typed
<1>10. authenticated' \in [Sides -> BOOLEAN] /\ auths' \in [Sides -> BOOLEAN]
  BY <1>1, <1>3 DEF Typed
<1>11. Typed'
  BY <1>1, <1>3, <1>7, <1>8, <1>9, <1>10 DEF Typed, kexVars, appVars, history
<1>12. UNCHANGED <<offer, kexinit, cookies, kex, mode, session, guess, skip, accepted, asked, open>>
  BY <1>3 DEF kexVars, history
<1>13. \A x \in Sides : \/ wire'[x] = wire[x]
                        \/ wire[x] # <<>> /\ wire'[x] = Tail(wire[x]) /\ x # "server"
  BY <1>1, <1>9
<1> QED
  BY <1>5, <1>6, <1>7, <1>8, <1>11, <1>12, <1>13, Silent

LEMMA AuthSuccessStep == ASSUME IInv, AuthSuccess PROVE IInv'
<1>1. Typed /\ "client" \in Sides /\ "server" \in Sides
  BY DEF IInv, Sides
<1>2. in["server"] \in Ciphers /\ out["server"] \in Ciphers /\ wire["client"] \in Seq(OnWire)
  BY <1>1 DEF Typed
<1>3. Msg("success", 0) \in Queued
  BY DEF Msg, Queued, Args
<1> DEFINE reads == [in["server"] EXCEPT !.zip = Delayed("server", "csCompress", @)]
<1>4. /\ auths' = [auths EXCEPT !["server"] = FALSE]
      /\ authenticated' = [authenticated EXCEPT !["server"] = TRUE]
      /\ in' = [in EXCEPT !["server"] = reads]
      /\ UNCHANGED <<kexVars, appVars, history, open>>
  BY DEF AuthSuccess
<1>5. reads \in Ciphers
  BY <1>2, DelayedType
<1> HIDE DEF reads
<1>6. in' \in [Sides -> Ciphers] /\ in'["client"] = in["client"]
  BY <1>1, <1>4, <1>5 DEF Typed
<1>7. authenticated' \in [Sides -> BOOLEAN] /\ auths' \in [Sides -> BOOLEAN]
  BY <1>1, <1>4 DEF Typed
<1>8. UNCHANGED <<offer, kexinit, cookies, kex, mode, session, guess, skip, accepted, asked, open>>
  BY <1>4 DEF kexVars, history
<1>9. CASE kexinit["server"] # 0
  <2> DEFINE writes == [out["server"] EXCEPT !.zip = Delayed("server", "scCompress", @)]
  <2>1. /\ queue' = [queue EXCEPT !["server"] = Append(@, Msg("success", 0))]
        /\ out' = [out EXCEPT !["server"] = writes]
        /\ UNCHANGED wire
    BY <1>9 DEF AuthSuccess
  <2>2. writes \in Ciphers
    BY <1>2, DelayedType
  <2> HIDE DEF writes
  <2>3. out' \in [Sides -> Ciphers] /\ out'["client"] = out["client"]
    BY <1>1, <2>1, <2>2 DEF Typed
  <2>4. queue' \in [Sides -> Seq(Queued)]
    BY <1>1, <1>3, <2>1 DEF Typed
  <2>5. Typed'
    BY <1>1, <1>4, <1>6, <1>7, <2>1, <2>3, <2>4 DEF Typed, kexVars, appVars, history
  <2> QED
    BY <1>6, <1>8, <2>1, <2>3, <2>5, Silent
<1>10. CASE kexinit["server"] = 0
  <2> DEFINE writes == [After(out["server"], 1) EXCEPT !.zip = Delayed("server", "scCompress", @)]
  <2> DEFINE u == Sealed(out["server"], <<Msg("success", 0)>>)
  <2>1. /\ wire' = [wire EXCEPT !["client"] = @ \o u]
        /\ out' = [out EXCEPT !["server"] = writes]
        /\ UNCHANGED queue
    BY <1>10 DEF AuthSuccess
  <2>2. After(out["server"], 1) \in Ciphers
    BY <1>2, Counts
  <2>3. writes \in Ciphers
    BY <2>2, DelayedType
  <2>4. u \in Seq(OnWire) /\ Quiet(u)
    BY <1>2, <1>3, QuietLetters, QuietPackets
  <2> HIDE DEF writes, u
  <2>5. out' \in [Sides -> Ciphers] /\ out'["client"] = out["client"]
    BY <1>1, <2>1, <2>3 DEF Typed
  <2>6. wire["client"] \o u \in Seq(OnWire)
    BY <1>2, <2>4
  <2>7. /\ wire' \in [Sides -> Seq(OnWire)] /\ wire'["client"] = wire["client"] \o u
        /\ \A x \in Sides : x # "client" => wire'[x] = wire[x]
    BY <1>1, <2>1, <2>6 DEF Typed
  <2>8. Typed'
    BY <1>1, <1>4, <1>6, <1>7, <2>1, <2>5, <2>7 DEF Typed, kexVars, appVars, history
  <2>9. \A x \in Sides : \/ wire'[x] = wire[x]
                         \/ \E v \in Seq(OnWire) : Quiet(v) /\ wire'[x] = wire[x] \o v
    BY <2>4, <2>7
  <2> QED
    BY <1>6, <1>8, <2>5, <2>8, <2>9, Silent
<1> QED
  BY <1>1, <1>9, <1>10 DEF Typed

-----------------------------------------------------------------------------
(* The steps of an exchange.                                               *)

LEMMA ClientRekey == ASSUME IInv, Rekey("client") PROVE IInv'
<1>1. Typed /\ LinksTyped /\ "client" \in Sides /\ "server" \in Sides
  BY DEF IInv, Typed, LinksTyped, Sides
<1> DEFINE n == cookies["client"] + 1
<1> DEFINE msgs == <<Msg("kexinit", n)>>
<1>2. n \in Nat /\ "kexinit" \in Types /\ n \in Args
  BY <1>1 DEF Typed, Types, Args
<1>3. /\ msgs \in Seq(Letters)
      /\ \A t : Has(msgs, t, 0) <=> t = "kexinit"
      /\ \A t : Once(msgs, t, 0)
      /\ \A t, a : Carry(msgs, t, a) <=> (t = "kexinit" => a = n)
  BY <1>2, Single
<1>4. /\ Transmit("client", msgs)
      /\ queue' = [queue EXCEPT !["client"] = <<>>]
      /\ cookies' = [cookies EXCEPT !["client"] = n]
      /\ kexinit' = [kexinit EXCEPT !["client"] = n]
      /\ kexinit["client"] = 0
      /\ UNCHANGED <<offer, kex, mode, session, guess, skip, asked, in, open, authenticated, auths,
                     submitted, accepted, failed>>
  BY DEF Rekey, authVars, appVars
<1> HIDE DEF n, msgs
<1>5. /\ wire' \in [Sides -> Seq(OnWire)] /\ out' \in [Sides -> Ciphers]
      /\ wire'["client"] = wire["client"]
      /\ wire'["server"] = wire["server"] \o Sealed(out["client"], msgs)
      /\ out'["client"].keys = out["client"].keys
  BY <1>1, <1>3, <1>4, Transmits DEF Other
<1>6. Typed'
  <2>1. queue' \in [Sides -> Seq(Queued)]
    BY <1>1, <1>4 DEF Typed
  <2>2. kexinit' \in [Sides -> Nat] /\ cookies' \in [Sides -> Nat]
    BY <1>1, <1>2, <1>4 DEF Typed
  <2> QED
    BY <1>1, <1>4, <1>5, <2>1, <2>2 DEF Typed
<1>7. /\ kexinit'["client"] = n /\ cookies'["client"] = n /\ n # 0
      /\ kexinit'["server"] = kexinit["server"] /\ cookies'["server"] = cookies["server"]
      /\ mode["client"] # "kex" /\ session["client"] # NoKeys
  BY <1>1, <1>2, <1>4 DEF Typed, IInv, Phases, Known, Sides, n
<1>8. C = 0 /\ C' = 1 /\ S' = S
  BY <1>4, <1>7 DEF C, S, Phase
<1>9. Joint(C, S, cookies["client"], cookies["server"])
  BY DEF IInv, Phases
<1>10. Joint(C', S', cookies'["client"], cookies'["server"])
  BY <1>1, <1>7, <1>8, <1>9 DEF Joint, n, Typed
<1> DEFINE u == Sealed(out["client"], msgs)
<1>11. /\ u \in Seq(OnWire)
       /\ \A t : Has(u, t, 0) => t = "kexinit"
       /\ \A t : Once(u, t, 0)
       /\ \A t, a : (t = "kexinit" => a = n) => Carry(u, t, a)
  BY <1>1, <1>3, Seals DEF Typed
<1> HIDE DEF u
<1>12. wire["client"] \in Seq(OnWire) /\ wire["server"] \in Seq(OnWire)
  BY <1>1 DEF Typed
<1>13. ASSUME open["server"]
       PROVE  ToServer(wire["server"] \o u, C', S', n, Guessed(guess, mode["server"], skip))
  <2> DEFINE d == Guessed(guess, mode["server"], skip)
  <2>1. ToServer(wire["server"], C, S, cookies["client"], d) /\ d \in Nat
    BY <1>13 DEF IInv, Phases, Guessed
  <2> HIDE DEF d
  <2>2. \A t : /\ Has(wire["server"] \o u, t, d) => Has(wire["server"], t, d) \/ Has(u, t, 0)
               /\ Once(wire["server"], t, d) /\ ~Has(u, t, 0) => Once(wire["server"] \o u, t, d)
               /\ Len(wire["server"] \o u) >= Len(wire["server"])
    BY <1>11, <1>12, <2>1, Written DEF ToServer
  <2>3. \A t : /\ Has(wire["server"] \o u, t, 0) => Has(wire["server"], t, 0) \/ Has(u, t, 0)
               /\ Once(wire["server"], t, 0) /\ ~Has(u, t, 0) => Once(wire["server"] \o u, t, 0)
               /\ ~Has(wire["server"], t, 0) /\ Once(u, t, 0) => Once(wire["server"] \o u, t, 0)
               /\ \A a : Carry(wire["server"], t, a) /\ Carry(u, t, a) => Carry(wire["server"] \o u, t, a)
    BY <1>11, <1>12, Written
  <2>4. ~Has(wire["server"], "kexinit", 0)
    BY <1>8, <2>1 DEF ToServer
  <2>5. Carry(wire["server"], "kexinit", n)
    BY <2>4 DEF Has, Carry
  <2>6. S \in {0, 1, 3}
    BY <1>8, <1>9 DEF Joint
  <2>7. Len(wire["server"] \o u) \in Nat /\ Len(wire["server"]) \in Nat
    BY <1>11, <1>12
  <2>8. d <= Len(wire["server"] \o u)
    BY <2>1, <2>2, <2>7 DEF ToServer
  <2>9. ToServer(wire["server"] \o u, C', S', n, d)
    BY <1>8, <1>11, <2>1, <2>2, <2>3, <2>4, <2>5, <2>6, <2>8 DEF ToServer
  <2> QED
    BY <2>9 DEF d
<1>14. open["client"] => ToClient(wire["client"], C', S', cookies["server"], kex["server"].hash)
  BY <1>8, <1>9 DEF IInv, Phases, ToClient, Joint
<1>15. Phases'
  <2>1. /\ wire'["client"] = wire["client"]
        /\ wire'["server"] = wire["server"] \o u
        /\ Guessed(guess, mode["server"], skip)' = Guessed(guess, mode["server"], skip)
        /\ kex'["server"].hash = kex["server"].hash /\ open' = open
    BY <1>4, <1>5 DEF u, Guessed
  <2>2. \A x \in Sides : /\ kexinit'[x] \in {0, cookies'[x]} /\ cookies'[x] > 0
                         /\ mode'[x] = "kex" => kexinit'[x] # 0 /\ kex'[x].step > 0
    BY <1>2, <1>4, <1>7 DEF IInv, Phases, Sides
  <2> QED
    BY <1>4, <1>7, <1>8, <1>10, <1>13, <1>14, <2>1, <2>2 DEF IInv, Phases
<1>16. Known'
  BY <1>4, <1>7, <1>8 DEF IInv, Known, Sides
<1>17. Verification'
  BY <1>4, <1>5, <1>8 DEF IInv, Verification, HostVerifiedFirst
<1> QED
  BY <1>6, <1>15, <1>16, <1>17 DEF IInv

LEMMA ServerRekey == ASSUME IInv, Rekey("server") PROVE IInv'
<1>1. Typed /\ LinksTyped /\ "client" \in Sides /\ "server" \in Sides
  BY DEF IInv, Typed, LinksTyped, Sides
<1> DEFINE n == cookies["server"] + 1
<1> DEFINE msgs == <<Msg("kexinit", n)>>
<1>2. n \in Nat /\ "kexinit" \in Types /\ n \in Args
  BY <1>1 DEF Typed, Types, Args
<1>3. /\ msgs \in Seq(Letters)
      /\ \A t : Has(msgs, t, 0) <=> t = "kexinit"
      /\ \A t : Once(msgs, t, 0)
      /\ \A t, a : Carry(msgs, t, a) <=> (t = "kexinit" => a = n)
  BY <1>2, Single
<1>4. /\ Transmit("server", msgs)
      /\ queue' = [queue EXCEPT !["server"] = <<>>]
      /\ cookies' = [cookies EXCEPT !["server"] = n]
      /\ kexinit' = [kexinit EXCEPT !["server"] = n]
      /\ kexinit["server"] = 0
      /\ UNCHANGED <<offer, kex, mode, session, guess, skip, asked, in, open, authenticated, auths,
                     submitted, accepted, failed>>
  BY DEF Rekey, authVars, appVars
<1> HIDE DEF n, msgs
<1>5. /\ wire' \in [Sides -> Seq(OnWire)] /\ out' \in [Sides -> Ciphers]
      /\ wire'["server"] = wire["server"]
      /\ wire'["client"] = wire["client"] \o Sealed(out["server"], msgs)
      /\ out'["client"].keys = out["client"].keys
  BY <1>1, <1>3, <1>4, Transmits DEF Other
<1>6. Typed'
  <2>1. queue' \in [Sides -> Seq(Queued)]
    BY <1>1, <1>4 DEF Typed
  <2>2. kexinit' \in [Sides -> Nat] /\ cookies' \in [Sides -> Nat]
    BY <1>1, <1>2, <1>4 DEF Typed
  <2> QED
    BY <1>1, <1>4, <1>5, <2>1, <2>2 DEF Typed
<1>7. /\ kexinit'["server"] = n /\ cookies'["server"] = n /\ n # 0
      /\ kexinit'["client"] = kexinit["client"] /\ cookies'["client"] = cookies["client"]
      /\ mode["server"] # "kex" /\ session["server"] # NoKeys
  BY <1>1, <1>2, <1>4 DEF Typed, IInv, Phases, Known, Sides, n
<1>8. S = 0 /\ S' = 1 /\ C' = C
  BY <1>4, <1>7 DEF C, S, Phase
<1>9. Joint(C, S, cookies["client"], cookies["server"])
  BY DEF IInv, Phases
<1>10. Joint(C', S', cookies'["client"], cookies'["server"])
  BY <1>1, <1>7, <1>8, <1>9 DEF Joint, n, Typed
<1> DEFINE u == Sealed(out["server"], msgs)
<1>11. /\ u \in Seq(OnWire)
       /\ \A t : Has(u, t, 0) => t = "kexinit"
       /\ \A t : Once(u, t, 0)
       /\ \A t, a : (t = "kexinit" => a = n) => Carry(u, t, a)
  BY <1>1, <1>3, Seals DEF Typed
<1> HIDE DEF u
<1>12. wire["client"] \in Seq(OnWire) /\ wire["server"] \in Seq(OnWire)
  BY <1>1 DEF Typed
<1>13. ASSUME open["client"]
       PROVE  ToClient(wire["client"] \o u, C', S', n, kex["server"].hash)
  <2>1. ToClient(wire["client"], C, S, cookies["server"], kex["server"].hash)
    BY <1>13 DEF IInv, Phases
  <2>2. \A t : /\ Has(wire["client"] \o u, t, 0) => Has(wire["client"], t, 0) \/ Has(u, t, 0)
               /\ Once(wire["client"], t, 0) /\ ~Has(u, t, 0) => Once(wire["client"] \o u, t, 0)
               /\ ~Has(wire["client"], t, 0) /\ Once(u, t, 0) => Once(wire["client"] \o u, t, 0)
               /\ \A a : Carry(wire["client"], t, a) /\ Carry(u, t, a) => Carry(wire["client"] \o u, t, a)
    BY <1>11, <1>12, Written
  <2>3. ~Has(wire["client"], "kexinit", 0)
    BY <1>8, <2>1 DEF ToClient
  <2>4. Carry(wire["client"], "kexinit", n)
    BY <2>3 DEF Has, Carry
  <2>5. C \in {0, 1}
    BY <1>8, <1>9 DEF Joint
  <2> QED
    BY <1>8, <1>11, <2>1, <2>2, <2>3, <2>4, <2>5 DEF ToClient
<1>14. open["server"] => ToServer(wire["server"], C', S', cookies["client"],
                                  Guessed(guess, mode["server"], skip))
  BY <1>8, <1>9 DEF IInv, Phases, ToServer, Joint
<1>15. Phases'
  <2>1. /\ wire'["client"] = wire["client"] \o u
        /\ wire'["server"] = wire["server"]
        /\ Guessed(guess, mode["server"], skip)' = Guessed(guess, mode["server"], skip)
        /\ kex'["server"].hash = kex["server"].hash /\ open' = open
    BY <1>4, <1>5 DEF u, Guessed
  <2>2. \A x \in Sides : /\ kexinit'[x] \in {0, cookies'[x]} /\ cookies'[x] > 0
                         /\ mode'[x] = "kex" => kexinit'[x] # 0 /\ kex'[x].step > 0
    BY <1>2, <1>4, <1>7 DEF IInv, Phases, Sides
  <2> QED
    BY <1>4, <1>7, <1>8, <1>10, <1>13, <1>14, <2>1, <2>2 DEF IInv, Phases
<1>16. Known'
  BY <1>4, <1>7, <1>8, <1>9 DEF IInv, Known, Sides, Joint
<1>17. Verification'
  BY <1>4, <1>5, <1>8 DEF IInv, Verification, HostVerifiedFirst
<1> QED
  BY <1>6, <1>15, <1>16, <1>17 DEF IInv

\* A side that knows both KEXINITs begins its exchange with what they determine.
LEMMA Begins ==
    ASSUME NEW x \in Sides, NEW hash \in Hashes, Typed
    PROVE  LET k == [NoKex EXCEPT !.hash = hash, !.step = 1,
                                  !.negotiated = Negotiated(x = "server", offer[x], offer[Other(x)])]
           IN  /\ k \in Exchanges /\ k.hash = hash /\ k.step = 1 /\ k.verified = FALSE
               /\ k.negotiated = Negotiated(x = "server", offer[x], offer[Other(x)])
               /\ k.received = FALSE
<1>1. offer[x] \in Offers /\ offer[Other(x)] \in Offers /\ (x = "server") \in BOOLEAN
  BY DEF Typed, Sides, Other
<1> DEFINE n == Negotiated(x = "server", offer[x], offer[Other(x)])
<1>2. n \in Choices
  <2>1. \A b \in BOOLEAN : Negotiated(b, offer[x], offer[Other(x)]) \in Choices
    BY <1>1 DEF Choices
  <2>2. n = Negotiated(TRUE, offer[x], offer[Other(x)])
        \/ n = Negotiated(FALSE, offer[x], offer[Other(x)])
    BY Zenon
  <2> HIDE DEF n
  <2> QED
    BY <2>1, <2>2
<1> HIDE DEF n
<1>3. NoKex \in Exchanges /\ NoKex.verified = FALSE /\ NoKex.received = FALSE
  BY InitialValues DEF NoKex
<1> DEFINE k == [NoKex EXCEPT !.hash = hash, !.step = 1, !.negotiated = n]
<1>4. /\ k \in Exchanges /\ k.hash = hash /\ k.step = 1 /\ k.verified = FALSE /\ k.negotiated = n
      /\ k.received = FALSE
  <2>1. k.hash = hash /\ k.step = 1 /\ k.negotiated = n
    BY <1>3 DEF Exchanges
  <2>2. k.verified = FALSE /\ k.received = FALSE
    BY <1>3 DEF Exchanges
  <2>3. [NoKex EXCEPT !.hash = hash, !.step = 1] \in Exchanges
    <3>1. \A e \in Exchanges : [e EXCEPT !.hash = hash] \in Exchanges
      BY DEF Exchanges
    <3>2. \A e \in Exchanges : [e EXCEPT !.step = 1] \in Exchanges
      BY DEF Exchanges
    <3>3. [NoKex EXCEPT !.hash = hash, !.step = 1] = [[NoKex EXCEPT !.hash = hash] EXCEPT !.step = 1]
      OBVIOUS
    <3> QED
      BY <1>3, <3>1, <3>2, <3>3
  <2>4. k \in Exchanges
    <3>1. \A e \in Exchanges : [e EXCEPT !.negotiated = n] \in Exchanges
      BY <1>2 DEF Exchanges
    <3>2. k = [[NoKex EXCEPT !.hash = hash, !.step = 1] EXCEPT !.negotiated = n]
      OBVIOUS
    <3> QED
      BY <2>3, <3>1, <3>2
  <2> QED
    BY <2>1, <2>2, <2>4
<1> QED
  BY <1>4 DEF n

LEMMA ClientKexInit == ASSUME IInv, RcvKexInit("client") PROVE IInv'
<1> DEFINE chosen == Negotiated("client" = "server", offer["client"], offer[Other("client")])
<1> DEFINE mine == IF kexinit["client"] # 0 THEN kexinit["client"] ELSE cookies["client"] + 1
<1> DEFINE own == IF kexinit["client"] = 0 THEN <<Msg("kexinit", mine)>> ELSE <<>>
<1> DEFINE msgs == own \o Start("client")
<1> DEFINE w == wire["client"]
<1> DEFINE k == [NoKex EXCEPT !.hash = <<mine, Head(w).arg>>, !.step = 1, !.negotiated = chosen]
<1>1. Typed /\ LinksTyped /\ "client" \in Sides /\ "server" \in Sides
  BY DEF IInv, Typed, LinksTyped, Sides
<1>2. w # <<>> /\ open["client"] /\ Head(w).type = "kexinit" /\ mode["client"] # "kex"
  BY DEF RcvKexInit, Arrives
<1>3. CASE ~Complete(chosen)
  <2>1. Fatal("client")
    BY <1>3 DEF RcvKexInit
  <2> QED
    BY <1>1, <1>2, <2>1, FatalStep
<1>4. CASE Complete(chosen)
  <2>1. /\ Answer("client", msgs)
        /\ kexinit' = [kexinit EXCEPT !["client"] = mine]
        /\ cookies' = [cookies EXCEPT !["client"] = IF kexinit["client"] = 0 THEN mine
                                                    ELSE cookies["client"]]
        /\ mode' = [mode EXCEPT !["client"] = "kex"]
        /\ kex' = [kex EXCEPT !["client"] = k]
        /\ skip' = skip
        /\ UNCHANGED <<authenticated, auths, submitted, accepted, failed, offer, session, guess,
                       asked, queue, open>>
    <3>1. kex' = [kex EXCEPT !["client"] = k]
      BY <1>4 DEF RcvKexInit, ExchangeHash
    <3>2. skip' = (skip \/ ("client" = "server" /\ mode["client"] = "first" /\ guess))
      BY <1>4 DEF RcvKexInit
    <3>3. skip' = skip
      BY <1>1, <3>2 DEF Typed
    <3>4. /\ Answer("client", msgs)
          /\ kexinit' = [kexinit EXCEPT !["client"] = mine]
          /\ cookies' = [cookies EXCEPT !["client"] = IF kexinit["client"] = 0 THEN mine
                                                      ELSE cookies["client"]]
          /\ mode' = [mode EXCEPT !["client"] = "kex"]
      BY <1>4 DEF RcvKexInit
    <3> QED
      BY <1>4, <3>1, <3>3, <3>4 DEF RcvKexInit, authVars, appVars, history
  <2>2. ToClient(w, C, S, cookies["server"], kex["server"].hash) /\ w \in Seq(OnWire)
    BY <1>1, <1>2 DEF IInv, Phases, Typed
  <2> HIDE DEF w
  <2>3. /\ Has(w, "kexinit", 0) /\ Head(w).arg = cookies["server"]
        /\ ~Has(Tail(w), "kexinit", 0)
        /\ ToClient(Tail(w), C, S, cookies["server"], kex["server"].hash)
    BY <1>2, <2>2, Read, ClientTable DEF ToClient
  <2>4. C \in {0, 1} /\ S \in {1, 2}
    BY <2>2, <2>3 DEF ToClient
  <2>5. Joint(C, S, cookies["client"], cookies["server"])
    BY DEF IInv, Phases
  <2>6. /\ kexinit["client"] = 0 <=> C = 0
        /\ kexinit["client"] # 0 => kexinit["client"] = cookies["client"]
        /\ cookies["client"] \in Nat /\ cookies["server"] \in Nat /\ cookies["server"] > 0
        /\ kexinit["client"] = 0 => session["client"] # NoKeys
    BY <1>1, <1>2 DEF C, Phase, IInv, Phases, Typed, Known
  <2>7. mine = cookies["server"] /\ (C = 0 => S = 1)
    BY <2>4, <2>5, <2>6 DEF Joint
  <2>8. mine \in Args /\ mine \in Nat
    BY <2>6, <2>7 DEF Args
  <2> HIDE DEF mine
  <2>9. /\ own \in Seq(Letters)
        /\ \A t : Has(own, t, 0) => t = "kexinit" /\ kexinit["client"] = 0
        /\ \A t : Once(own, t, 0)
        /\ Carry(own, "kexinit", mine)
    BY <2>8, Single DEF Types
  <2>10. /\ Start("client") \in Seq(Letters)
         /\ \A t : Has(Start("client"), t, 0) => t = "dhinit"
         /\ \A t : Once(Start("client"), t, 0)
         /\ Carry(Start("client"), "kexinit", mine)
    <3>1. 0 \in Args /\ "dhinit" \in Types
      BY DEF Args, Types
    <3>2. Start("client") = <<Msg("dhinit", 0)>> \/ Start("client") = <<>>
      BY DEF Start
    <3>3. /\ <<Msg("dhinit", 0)>> \in Seq(Letters) /\ <<>> \in Seq(Letters)
          /\ \A t : Has(<<Msg("dhinit", 0)>>, t, 0) <=> t = "dhinit"
          /\ \A t : Once(<<Msg("dhinit", 0)>>, t, 0)
          /\ Carry(<<Msg("dhinit", 0)>>, "kexinit", mine)
          /\ \A t : ~Has(<<>>, t, 0) /\ Once(<<>>, t, 0)
          /\ \A t, a : Carry(<<>>, t, a)
      BY <3>1, Single
    <3> QED
      BY <3>2, <3>3
  <2> HIDE DEF own
  <2>11. /\ msgs \in Seq(Letters)
         /\ \A t : Has(msgs, t, 0) => (t = "kexinit" /\ kexinit["client"] = 0) \/ t = "dhinit"
         /\ Once(msgs, "kexinit", 0) /\ Once(msgs, "dhinit", 0)
         /\ Carry(msgs, "kexinit", mine)
    <3>1. Len(own) \in Nat /\ 0 <= Len(own) /\ 0 \in Nat
      BY <2>9
    <3> QED
      BY <2>9, <2>10, <3>1, Written
  <2> HIDE DEF msgs
  <2>12. /\ LinksTyped' /\ wire'["client"] = Tail(w)
         /\ wire'["server"] = wire["server"] \o Sealed(out["client"], msgs)
         /\ out'["client"].keys = out["client"].keys /\ in'["client"].keys = in["client"].keys
    BY <1>1, <1>2, <2>1, <2>11, Answers DEF Other, w
  <2>13. /\ k \in Exchanges /\ k.hash = <<mine, Head(w).arg>> /\ k.step = 1 /\ k.verified = FALSE
         /\ k.negotiated = chosen /\ k.received = FALSE
    <3>1. <<mine, Head(w).arg>> \in Hashes
      BY <2>3, <2>6, <2>8 DEF Hashes
    <3> QED
      BY <1>1, <3>1, Begins
  <2> HIDE DEF k
  <2>14. /\ kexinit'["client"] = mine /\ cookies'["client"] = mine /\ mode'["client"] = "kex"
         /\ kex'["client"] = k /\ kex'["server"] = kex["server"]
         /\ kexinit'["server"] = kexinit["server"] /\ cookies'["server"] = cookies["server"]
         /\ mode'["server"] = mode["server"]
    BY <1>1, <2>1, <2>6 DEF Typed, mine
  <2>15. Typed'
    <3>1. kexinit' \in [Sides -> Nat] /\ cookies' \in [Sides -> Nat]
      BY <1>1, <2>1, <2>6, <2>8 DEF Typed
    <3>2. kex' \in [Sides -> Exchanges] /\ mode' \in [Sides -> {"first", "kex", "normal"}]
      BY <1>1, <2>1, <2>13 DEF Typed
    <3> QED
      BY <1>1, <2>1, <2>12, <3>1, <3>2 DEF Typed, LinksTyped
  <2>16. C' = 2 /\ S' = S
    BY <2>13, <2>14 DEF C, S, Phase
  <2>17. Joint(C', S', cookies'["client"], cookies'["server"])
    BY <2>4, <2>7, <2>14, <2>16 DEF Joint
  <2>18. ToClient(wire'["client"], C', S', cookies'["server"], kex'["server"].hash)
    <3>1. ~Has(Tail(w), "reply", 0) /\ ~Has(Tail(w), "newkeys", 0)
      BY <2>3, <2>4 DEF ToClient
    <3> QED
      BY <2>3, <2>12, <2>14, <2>16, <3>1 DEF ToClient
  <2> DEFINE u == Sealed(out["client"], msgs)
  <2>19. /\ u \in Seq(OnWire)
         /\ \A t : Has(u, t, 0) => (t = "kexinit" /\ kexinit["client"] = 0) \/ t = "dhinit"
         /\ Once(u, "kexinit", 0) /\ Once(u, "dhinit", 0)
         /\ Carry(u, "kexinit", mine)
    BY <1>1, <2>11, Seals DEF Typed
  <2>20. wire'["server"] = wire["server"] \o u /\ wire["server"] \in Seq(OnWire)
    BY <1>1, <2>12 DEF Typed
  <2> HIDE DEF u
  <2> DEFINE d == Guessed(guess, mode["server"], skip)
  <2>21. d \in Nat /\ Guessed(guess, mode["server"], skip)' = d
    BY <2>1, <2>14 DEF Guessed
  <2>22. ASSUME open["server"]
         PROVE  ToServer(wire["server"] \o u, C', S', cookies'["client"], d)
    <3>1. ToServer(wire["server"], C, S, cookies["client"], d)
      BY <2>22 DEF IInv, Phases
    <3> HIDE DEF d
    <3>2. \A t : /\ Has(wire["server"] \o u, t, d) => Has(wire["server"], t, d) \/ Has(u, t, 0)
                 /\ ~Has(wire["server"], t, d) /\ Once(u, t, 0) => Once(wire["server"] \o u, t, d)
                 /\ Len(wire["server"] \o u) = Len(wire["server"]) + Len(u)
      BY <2>19, <2>20, <2>21, <3>1, Written DEF ToServer
    <3>3. \A t : /\ Has(wire["server"] \o u, t, 0) => Has(wire["server"], t, 0) \/ Has(u, t, 0)
                 /\ Once(wire["server"], t, 0) /\ ~Has(u, t, 0) => Once(wire["server"] \o u, t, 0)
                 /\ ~Has(wire["server"], t, 0) /\ Once(u, t, 0) => Once(wire["server"] \o u, t, 0)
                 /\ \A a : Carry(wire["server"], t, a) /\ Carry(u, t, a) => Carry(wire["server"] \o u, t, a)
      <4>1. Len(wire["server"]) \in Nat /\ 0 <= Len(wire["server"]) /\ 0 \in Nat
        BY <2>20
      <4> QED
        BY <2>19, <2>20, <4>1, Written
    <3>4. ~Has(wire["server"], "dhinit", d) /\ ~Has(wire["server"], "newkeys", 0)
      BY <2>4, <3>1 DEF ToServer
    <3>5. C = 0 => ~Has(wire["server"], "kexinit", 0)
      BY <3>1 DEF ToServer
    <3>6. Carry(wire["server"], "kexinit", mine)
      <4>1. C = 0 => Carry(wire["server"], "kexinit", mine)
        BY <3>5 DEF Has, Carry
      <4>2. C = 1 => mine = cookies["client"]
        BY <2>4, <2>5, <2>7 DEF Joint
      <4> QED
        BY <2>4, <3>1, <4>1, <4>2 DEF ToServer
    <3>7. Has(wire["server"] \o u, "kexinit", 0) => S = 1
      BY <2>4, <2>6, <2>7, <2>19, <3>1, <3>3 DEF ToServer
    <3>8. Once(wire["server"] \o u, "kexinit", 0)
      BY <2>4, <2>6, <2>19, <3>1, <3>3, <3>5 DEF ToServer
    <3>9. Once(wire["server"] \o u, "dhinit", d)
      BY <2>19, <3>2, <3>4
    <3>10. ~Has(wire["server"] \o u, "newkeys", 0) /\ Once(wire["server"] \o u, "newkeys", 0)
      BY <2>19, <3>1, <3>3, <3>4 DEF ToServer
    <3>11. Carry(wire["server"] \o u, "kexinit", mine)
      BY <2>19, <3>3, <3>6
    <3>12. d <= Len(wire["server"] \o u)
      BY <2>19, <2>20, <2>21, <3>1, <3>2 DEF ToServer
    <3> QED
      BY <2>4, <2>14, <2>16, <3>7, <3>8, <3>9, <3>10, <3>11, <3>12 DEF ToServer
  <2>23. Phases'
    <3>1. \A x \in Sides : /\ kexinit'[x] \in {0, cookies'[x]} /\ cookies'[x] > 0
                           /\ mode'[x] = "kex" => kexinit'[x] # 0 /\ kex'[x].step > 0
      BY <2>6, <2>7, <2>13, <2>14 DEF IInv, Phases, Sides
    <3>2. (kex'["server"].step < 3 \/ mode'["server"] # "kex")
          /\ (skip' => S' = 2) /\ (guess' /\ mode'["server"] = "first" => ~skip')
      BY <2>1, <2>14, <2>16 DEF IInv, Phases
    <3>3. open'["server"] => ToServer(wire'["server"], C', S', cookies'["client"],
                                      Guessed(guess, mode["server"], skip)')
      BY <2>1, <2>20, <2>21, <2>22
    <3> QED
      BY <2>17, <2>18, <3>1, <3>2, <3>3 DEF Phases
  <2>24. Known'
    <3>1. k.hash # NoKeys
      BY <2>3, <2>6, <2>7, <2>13 DEF NoKeys
    <3>2. k.hash = <<cookies["server"], cookies["server"]>>
      BY <2>3, <2>7, <2>13
    <3>3. /\ kex'["client"].negotiated = chosen /\ kex'["client"].hash # NoKeys
          /\ kex'["client"].step = 1
      BY <2>13, <2>14, <3>1
    <3>4. \A x \in Sides :
             kex'[x].negotiated = IF kex'[x].hash = NoKeys THEN NoKex.negotiated
                                  ELSE Negotiated(x = "server", offer'[x], offer'[Other(x)])
      BY <2>1, <2>14, <3>3 DEF IInv, Known, Sides
    <3>5. \A x \in Sides : /\ session'[x] \in {NoKeys, <<1, 1>>}
                           /\ session'[x] = NoKeys => kexinit'[x] # 0 /\ cookies'[x] = 1
      <4>1. session["client"] = NoKeys => mine # 0 /\ mine = 1
        BY <2>4, <2>5, <2>6, <2>7 DEF IInv, Known, Joint, Sides
      <4> QED
        BY <2>1, <2>14, <4>1 DEF IInv, Known, Sides
    <3> QED
      BY <2>14, <2>16, <3>2, <3>3, <3>4, <3>5 DEF IInv, Known
  <2>25. Verification'
    BY <2>1, <2>4, <2>12, <2>13, <2>14, <2>16 DEF IInv, Verification, HostVerifiedFirst
  <2> QED
    BY <2>15, <2>23, <2>24, <2>25 DEF IInv
<1> QED
  BY <1>3, <1>4

LEMMA ServerKexInit == ASSUME IInv, RcvKexInit("server") PROVE IInv'
<1> DEFINE chosen == Negotiated("server" = "server", offer["server"], offer[Other("server")])
<1> DEFINE mine == IF kexinit["server"] # 0 THEN kexinit["server"] ELSE cookies["server"] + 1
<1> DEFINE own == IF kexinit["server"] = 0 THEN <<Msg("kexinit", mine)>> ELSE <<>>
<1> DEFINE msgs == own \o Start("server")
<1> DEFINE w == wire["server"]
<1> DEFINE k == [NoKex EXCEPT !.hash = <<Head(w).arg, mine>>, !.step = 1, !.negotiated = chosen]
<1>1. Typed /\ LinksTyped /\ "client" \in Sides /\ "server" \in Sides
  BY DEF IInv, Typed, LinksTyped, Sides
<1>2. w # <<>> /\ open["server"] /\ Head(w).type = "kexinit" /\ mode["server"] # "kex" /\ ~skip
  BY DEF RcvKexInit, Arrives
<1>3. CASE ~Complete(chosen)
  <2>1. Fatal("server")
    BY <1>3 DEF RcvKexInit
  <2> QED
    BY <1>1, <1>2, <2>1, FatalStep
<1>4. CASE Complete(chosen)
  <2>1. /\ Answer("server", msgs)
        /\ kexinit' = [kexinit EXCEPT !["server"] = mine]
        /\ cookies' = [cookies EXCEPT !["server"] = IF kexinit["server"] = 0 THEN mine
                                                    ELSE cookies["server"]]
        /\ mode' = [mode EXCEPT !["server"] = "kex"]
        /\ kex' = [kex EXCEPT !["server"] = k]
        /\ skip' = (mode["server"] = "first" /\ guess)
        /\ UNCHANGED <<authenticated, auths, submitted, accepted, failed, offer, session, guess,
                       asked, queue, open>>
    <3>1. kex' = [kex EXCEPT !["server"] = k]
      BY <1>4 DEF RcvKexInit, ExchangeHash
    <3>2. skip' = (skip \/ ("server" = "server" /\ mode["server"] = "first" /\ guess))
      BY <1>4 DEF RcvKexInit
    <3>3. skip' = (mode["server"] = "first" /\ guess)
      BY <1>1, <1>2, <3>2 DEF Typed
    <3>4. /\ Answer("server", msgs)
          /\ kexinit' = [kexinit EXCEPT !["server"] = mine]
          /\ cookies' = [cookies EXCEPT !["server"] = IF kexinit["server"] = 0 THEN mine
                                                      ELSE cookies["server"]]
          /\ mode' = [mode EXCEPT !["server"] = "kex"]
      BY <1>4 DEF RcvKexInit
    <3> QED
      BY <1>4, <3>1, <3>3, <3>4 DEF RcvKexInit, authVars, appVars, history
  <2> DEFINE d == Guessed(guess, mode["server"], skip)
  <2> DEFINE e == IF guess /\ mode["server"] = "first" THEN 1 ELSE 0
  <2>2. /\ ToServer(w, C, S, cookies["client"], d) /\ w \in Seq(OnWire)
        /\ d \in Nat /\ e \in Nat /\ (e = d - 1 \/ (e = 0 /\ d = 0))
    <3>1. ToServer(w, C, S, cookies["client"], d)
      BY <1>2 DEF IInv, Phases
    <3>2. w \in Seq(OnWire)
      BY <1>1 DEF Typed
    <3>3. d \in Nat /\ e \in Nat /\ (e = d - 1 \/ (e = 0 /\ d = 0))
      <4>1. (d = 2 /\ e = 1) \/ (d = 0 /\ e = 0)
        <5>1. CASE guess /\ mode["server"] = "first"
          BY <5>1 DEF Guessed
        <5>2. CASE ~(guess /\ mode["server"] = "first")
          BY <1>2, <5>2 DEF Guessed
        <5> QED
          BY <5>1, <5>2
      <4> HIDE DEF d, e
      <4> QED
        BY <4>1
    <3> QED
      BY <3>1, <3>2, <3>3
  <2>3. Guessed(guess, mode["server"], skip)' = e
    BY <1>1, <2>1 DEF Guessed, Typed
  <2> HIDE DEF w, d, e
  <2>4. /\ Has(w, "kexinit", 0) /\ Head(w).arg = cookies["client"]
        /\ ~Has(Tail(w), "kexinit", 0)
    <3>1. Once(w, "kexinit", 0) /\ Carry(w, "kexinit", cookies["client"])
      BY <2>2 DEF ToServer
    <3>2. 0 \in Nat
      OBVIOUS
    <3> QED
      BY <1>2, <2>2, <3>1, <3>2, Read
  <2>5. ToServer(Tail(w), C, S, cookies["client"], e)
    BY <1>2, <2>2, ServerTable
  <2>6. Joint(C, S, cookies["client"], cookies["server"])
    BY DEF IInv, Phases
  <2>7. C \in {1, 2} /\ S \in {0, 1}
    <3>1. S \in {0, 1}
      BY <1>2 DEF S, Phase
    <3> QED
      BY <2>2, <2>4, <3>1 DEF ToServer
  <2>8. /\ kexinit["server"] = 0 <=> S = 0
        /\ kexinit["server"] # 0 => kexinit["server"] = cookies["server"]
        /\ cookies["client"] \in Nat /\ cookies["server"] \in Nat
        /\ cookies["client"] > 0 /\ cookies["server"] > 0
        /\ kexinit["server"] = 0 => session["server"] # NoKeys
    BY <1>1, <1>2 DEF S, Phase, IInv, Phases, Typed, Known
  <2>9. mine = cookies["client"] /\ (S = 0 => C = 1) /\ (C = 2 => mine = cookies["server"])
    BY <2>6, <2>7, <2>8 DEF Joint
  <2>10. mine \in Args /\ mine \in Nat
    BY <2>8, <2>9 DEF Args
  <2>11. S = 1 => mine = cookies["server"]
    BY <2>8
  <2> HIDE DEF mine
  <2>12. /\ own \in Seq(Letters)
         /\ \A t : Has(own, t, 0) => t = "kexinit" /\ kexinit["server"] = 0
         /\ \A t : Once(own, t, 0)
         /\ Carry(own, "kexinit", mine)
    BY <2>10, Single DEF Types
  <2> HIDE DEF own
  <2>13. msgs = own
    <3>1. Start("server") = <<>>
      BY DEF Start
    <3> QED
      BY <2>12, <3>1
  <2> HIDE DEF msgs
  <2>14. /\ LinksTyped' /\ wire'["server"] = Tail(w)
         /\ wire'["client"] = wire["client"] \o Sealed(out["server"], own)
         /\ out'["client"].keys = out["client"].keys /\ in'["client"].keys = in["client"].keys
    BY <1>1, <1>2, <2>1, <2>12, <2>13, Answers DEF Other, w
  <2>15. /\ k \in Exchanges /\ k.hash = <<Head(w).arg, mine>> /\ k.step = 1
         /\ k.negotiated = chosen
    <3>1. <<Head(w).arg, mine>> \in Hashes
      BY <2>4, <2>8, <2>10 DEF Hashes
    <3> QED
      BY <1>1, <3>1, Begins
  <2> HIDE DEF k
  <2>16. /\ kexinit'["server"] = mine /\ cookies'["server"] = mine /\ mode'["server"] = "kex"
         /\ kex'["server"] = k /\ kex'["client"] = kex["client"]
         /\ kexinit'["client"] = kexinit["client"] /\ cookies'["client"] = cookies["client"]
         /\ mode'["client"] = mode["client"]
    BY <1>1, <2>1, <2>7, <2>8, <2>11 DEF Typed
  <2>17. Typed'
    <3>1. kexinit' \in [Sides -> Nat] /\ cookies' \in [Sides -> Nat]
      BY <1>1, <2>1, <2>8, <2>10 DEF Typed
    <3>2. kex' \in [Sides -> Exchanges] /\ mode' \in [Sides -> {"first", "kex", "normal"}]
      BY <1>1, <2>1, <2>15 DEF Typed
    <3>3. skip' \in BOOLEAN
      BY <2>1
    <3> QED
      BY <1>1, <2>1, <2>14, <3>1, <3>2, <3>3 DEF Typed, LinksTyped
  <2>18. S' = 2 /\ C' = C
    BY <2>15, <2>16 DEF C, S, Phase
  <2>19. Joint(C', S', cookies'["client"], cookies'["server"])
    BY <2>7, <2>9, <2>16, <2>18 DEF Joint
  <2>20. ToServer(wire'["server"], C', S', cookies'["client"], e)
    <3>1. ~Has(Tail(w), "newkeys", 0)
      BY <2>5, <2>7 DEF ToServer
    <3> QED
      BY <2>4, <2>5, <2>14, <2>16, <2>18, <3>1 DEF ToServer
  <2> DEFINE u == Sealed(out["server"], own)
  <2>21. /\ u \in Seq(OnWire)
         /\ \A t : Has(u, t, 0) => t = "kexinit" /\ kexinit["server"] = 0
         /\ Once(u, "kexinit", 0)
         /\ Carry(u, "kexinit", mine)
    BY <1>1, <2>12, Seals DEF Typed
  <2>22. wire'["client"] = wire["client"] \o u /\ wire["client"] \in Seq(OnWire)
    BY <1>1, <2>14 DEF Typed
  <2> HIDE DEF u
  <2>23. ASSUME open["client"]
         PROVE  ToClient(wire["client"] \o u, C', S', cookies'["server"], kex'["server"].hash)
    <3>1. ToClient(wire["client"], C, S, cookies["server"], kex["server"].hash)
      BY <2>23 DEF IInv, Phases
    <3>2. \A t : /\ Has(wire["client"] \o u, t, 0) => Has(wire["client"], t, 0) \/ Has(u, t, 0)
                 /\ Once(wire["client"], t, 0) /\ ~Has(u, t, 0) => Once(wire["client"] \o u, t, 0)
                 /\ ~Has(wire["client"], t, 0) /\ Once(u, t, 0) => Once(wire["client"] \o u, t, 0)
                 /\ \A a : Carry(wire["client"], t, a) /\ Carry(u, t, a) => Carry(wire["client"] \o u, t, a)
      <4>1. Len(wire["client"]) \in Nat /\ 0 <= Len(wire["client"]) /\ 0 \in Nat
        BY <2>22
      <4> QED
        BY <2>21, <2>22, <4>1, Written
    <3>3. ~Has(wire["client"], "reply", 0) /\ ~Has(wire["client"], "newkeys", 0)
      BY <2>7, <3>1 DEF ToClient
    <3>4. S = 0 => ~Has(wire["client"], "kexinit", 0)
      BY <3>1 DEF ToClient
    <3>5. Carry(wire["client"], "kexinit", mine)
      <4>1. S = 0 => Carry(wire["client"], "kexinit", mine)
        BY <3>4 DEF Has, Carry
      <4> QED
        BY <2>7, <2>11, <3>1, <4>1 DEF ToClient
    <3>6. Has(wire["client"] \o u, "kexinit", 0) => C = 1
      BY <2>7, <2>8, <2>9, <2>21, <3>1, <3>2 DEF ToClient
    <3>7. Once(wire["client"] \o u, "kexinit", 0)
      BY <2>7, <2>8, <2>21, <3>1, <3>2, <3>4 DEF ToClient
    <3>8. /\ ~Has(wire["client"] \o u, "reply", 0) /\ ~Has(wire["client"] \o u, "newkeys", 0)
          /\ Once(wire["client"] \o u, "reply", 0) /\ Once(wire["client"] \o u, "newkeys", 0)
      BY <2>21, <3>1, <3>2, <3>3 DEF ToClient
    <3>9. Carry(wire["client"] \o u, "kexinit", mine)
      BY <2>21, <3>2, <3>5
    <3>10. Carry(wire["client"] \o u, "reply", kex'["server"].hash)
      BY <3>8 DEF Has, Carry
    <3> QED
      BY <2>16, <2>18, <3>6, <3>7, <3>8, <3>9, <3>10 DEF ToClient
  <2>24. Phases'
    <3>1. \A x \in Sides : /\ kexinit'[x] \in {0, cookies'[x]} /\ cookies'[x] > 0
                           /\ mode'[x] = "kex" => kexinit'[x] # 0 /\ kex'[x].step > 0
      BY <2>8, <2>9, <2>15, <2>16 DEF IInv, Phases, Sides
    <3>2. (kex'["server"].step < 3 \/ mode'["server"] # "kex")
          /\ (skip' => S' = 2) /\ (guess' /\ mode'["server"] = "first" => ~skip')
      BY <2>15, <2>16, <2>18
    <3>3. open'["server"] => ToServer(wire'["server"], C', S', cookies'["client"],
                                      Guessed(guess, mode["server"], skip)')
      BY <2>3, <2>20
    <3>4. open'["client"] => ToClient(wire'["client"], C', S', cookies'["server"],
                                      kex'["server"].hash)
      BY <2>1, <2>22, <2>23
    <3> QED
      BY <2>19, <3>1, <3>2, <3>3, <3>4 DEF Phases
  <2>25. Known'
    <3>1. k.hash # NoKeys
      BY <2>4, <2>8, <2>9, <2>15 DEF NoKeys
    <3>2. k.hash = <<mine, mine>>
      BY <2>4, <2>9, <2>15
    <3>3. kex'["server"].negotiated = chosen /\ kex'["server"].hash # NoKeys
      BY <2>15, <2>16, <3>1
    <3>4. \A x \in Sides :
             kex'[x].negotiated = IF kex'[x].hash = NoKeys THEN NoKex.negotiated
                                  ELSE Negotiated(x = "server", offer'[x], offer'[Other(x)])
      BY <2>1, <2>16, <3>3 DEF IInv, Known, Sides
    <3>5. \A x \in Sides : /\ session'[x] \in {NoKeys, <<1, 1>>}
                           /\ session'[x] = NoKeys => kexinit'[x] # 0 /\ cookies'[x] = 1
      <4>1. session["server"] = NoKeys => mine # 0 /\ mine = 1
        BY <2>7, <2>8, <2>11 DEF IInv, Known, Sides
      <4> QED
        BY <2>1, <2>16, <4>1 DEF IInv, Known, Sides
    <3>6. C >= 2 => kex["client"].hash = <<mine, mine>>
      BY <2>7, <2>9 DEF IInv, Known
    <3>7. kex["client"].step > 1 => kex["client"].reply = kex["client"].hash
      BY DEF IInv, Known
    <3> QED
      BY <2>16, <2>18, <3>2, <3>4, <3>5, <3>6, <3>7 DEF Known
  <2>26. Verification'
    BY <2>1, <2>14, <2>16, <2>18 DEF IInv, Verification, HostVerifiedFirst
  <2> QED
    BY <2>17, <2>24, <2>25, <2>26 DEF IInv
<1> QED
  BY <1>3, <1>4

LEMMA SkipGuessStep == ASSUME IInv, SkipGuess PROVE IInv'
<1>1. Typed /\ LinksTyped /\ "client" \in Sides /\ "server" \in Sides
  BY DEF IInv, Typed, LinksTyped, Sides
<1>2. /\ open["server"] /\ wire["server"] # <<>> /\ skip /\ skip' = FALSE /\ Answer("server", <<>>)
      /\ UNCHANGED <<authenticated, auths, submitted, accepted, failed, offer, kexinit, cookies, kex,
                     mode, session, guess, asked, queue, open>>
  BY DEF SkipGuess, authVars, appVars, history
<1>3. /\ LinksTyped' /\ wire'["server"] = Tail(wire["server"])
      /\ wire'["client"] = wire["client"] \o Sealed(out["server"], <<>>)
      /\ out'["client"].keys = out["client"].keys /\ in'["client"].keys = in["client"].keys
  BY <1>1, <1>2, QuietLetters, Answers DEF Other
<1>4. Typed'
  BY <1>1, <1>2, <1>3 DEF Typed, LinksTyped
<1>5. C' = C /\ S' = S /\ S = 2
  BY <1>2 DEF C, S, IInv, Phases
<1>6. mode["server"] = "kex"
  BY <1>5 DEF S, Phase
<1>7. Guessed(guess, mode["server"], skip) = 1 /\ Guessed(guess, mode["server"], skip)' = 0
  BY <1>2, <1>6 DEF Guessed
<1>8. ToServer(wire["server"], C, S, cookies["client"], 1) /\ wire["server"] \in Seq(OnWire)
  BY <1>1, <1>2, <1>7 DEF IInv, Phases, Typed
<1>9. ToServer(Tail(wire["server"]), C, S, cookies["client"], 0)
  BY <1>2, <1>8, ServerTable
<1>10. /\ Sealed(out["server"], <<>>) \in Seq(OnWire) /\ Quiet(Sealed(out["server"], <<>>))
       /\ wire["client"] \in Seq(OnWire)
  BY <1>1, QuietLetters, QuietPackets DEF Typed
<1>11. open["client"] => ToClient(wire'["client"], C, S, cookies["server"], kex["server"].hash)
  BY <1>3, <1>10, ClientTable DEF IInv, Phases
<1>12. Phases'
  BY <1>2, <1>3, <1>5, <1>6, <1>7, <1>9, <1>11 DEF IInv, Phases
<1>13. Known'
  BY <1>2, <1>5 DEF IInv, Known
<1>14. Verification'
  BY <1>2, <1>3, <1>5 DEF IInv, Verification, HostVerifiedFirst
<1> QED
  BY <1>4, <1>12, <1>13, <1>14 DEF IInv

LEMMA RcvDhInitStep == ASSUME IInv, RcvDhInit PROVE IInv'
<1> DEFINE w == wire["server"]
<1> DEFINE hash == kex["server"].hash
<1> DEFINE msgs == <<Msg("reply", hash), Msg("newkeys", 0)>>
<1> DEFINE k == [kex["server"] EXCEPT !.step = 2]
<1>1. Typed /\ LinksTyped /\ "client" \in Sides /\ "server" \in Sides
  BY DEF IInv, Typed, LinksTyped, Sides
<1>2. /\ open["server"] /\ w # <<>> /\ Head(w).type = "dhinit" /\ ~skip
      /\ mode["server"] = "kex" /\ kex["server"].step = 1
      /\ Answer("server", msgs)
      /\ kex' = [kex EXCEPT !["server"] = k]
      /\ UNCHANGED <<authenticated, auths, submitted, accepted, failed, offer, kexinit, cookies,
                     mode, session, guess, skip, asked, queue, open>>
  BY DEF RcvDhInit, Arrives, ServerFinish, authVars, appVars, history
<1>3. /\ k \in Exchanges /\ k.step = 2 /\ k.hash = hash
      /\ k.negotiated = kex["server"].negotiated
  <2>1. kex["server"] \in Exchanges
    BY <1>1 DEF Typed
  <2>2. \A e \in Exchanges : LET f == [e EXCEPT !.step = 2]
                             IN  f \in Exchanges /\ f.step = 2 /\ f.hash = e.hash
                                 /\ f.negotiated = e.negotiated
    BY DEF Exchanges
  <2> QED
    BY <2>1, <2>2
<1> HIDE DEF k
<1>4. /\ msgs \in Seq(Letters) /\ Len(msgs) = 2
      /\ msgs[1].type = "reply" /\ msgs[1].arg = hash /\ msgs[2].type = "newkeys"
  <2>1. hash \in Args
    BY <1>1 DEF Typed, Exchanges, Args
  <2>2. /\ Msg("reply", hash) \in Letters /\ Msg("newkeys", 0) \in Letters
        /\ Msg("reply", hash).type = "reply" /\ Msg("reply", hash).arg = hash
        /\ Msg("newkeys", 0).type = "newkeys"
    BY <2>1 DEF Msg, Letters, Types, Args
  <2> HIDE DEF Msg, hash
  <2> QED
    BY <2>2
<1> HIDE DEF hash, msgs
<1>5. /\ \A t : Has(msgs, t, 0) => t \in {"reply", "newkeys"}
      /\ Once(msgs, "reply", 0) /\ Once(msgs, "newkeys", 0) /\ Carry(msgs, "reply", hash)
  BY <1>4 DEF Has, Once, Carry
<1>6. /\ LinksTyped' /\ wire'["server"] = Tail(w)
      /\ wire'["client"] = wire["client"] \o Sealed(out["server"], msgs)
      /\ out'["client"].keys = out["client"].keys /\ in'["client"].keys = in["client"].keys
  BY <1>1, <1>2, <1>4, Answers DEF Other
<1>7. /\ kex' \in [Sides -> Exchanges] /\ kex'["server"] = k /\ kex'["client"] = kex["client"]
  BY <1>1, <1>2, <1>3 DEF Typed
<1>8. Typed'
  BY <1>1, <1>2, <1>6, <1>7 DEF Typed, LinksTyped
<1>9. S = 2 /\ S' = 3 /\ C' = C
  BY <1>2, <1>3, <1>7 DEF S, C, Phase
<1>10. Guessed(guess, mode["server"], skip) = 0 /\ Guessed(guess, mode["server"], skip)' = 0
  BY <1>2 DEF Guessed
<1>11. ToServer(w, C, S, cookies["client"], 0) /\ w \in Seq(OnWire)
  BY <1>1, <1>2, <1>10 DEF IInv, Phases, Typed
<1> HIDE DEF w
<1>12. Has(w, "dhinit", 0) /\ ~Has(Tail(w), "dhinit", 0)
  <2>1. Once(w, "dhinit", 0)
    BY <1>11 DEF ToServer
  <2> QED
    BY <1>2, <1>11, <2>1, Read
<1>13. C = 2
  BY <1>11, <1>12 DEF ToServer
<1>14. ToServer(Tail(w), C, S, cookies["client"], 0)
  BY <1>2, <1>11, ServerTable
<1>15. ToServer(wire'["server"], C', S', cookies["client"], 0)
  BY <1>6, <1>9, <1>12, <1>13, <1>14 DEF ToServer
<1> DEFINE u == Sealed(out["server"], msgs)
<1>16. /\ u \in Seq(OnWire)
       /\ \A t : Has(u, t, 0) => t \in {"reply", "newkeys"}
       /\ Once(u, "reply", 0) /\ Once(u, "newkeys", 0) /\ Carry(u, "reply", hash)
       /\ wire["client"] \in Seq(OnWire)
  BY <1>1, <1>4, <1>5, Seals DEF Typed
<1>17. wire'["client"] = wire["client"] \o u
  BY <1>6
<1> HIDE DEF u
<1>18. ASSUME open["client"]
       PROVE  ToClient(wire["client"] \o u, C', S', cookies["server"], hash)
  <2>1. ToClient(wire["client"], C, S, cookies["server"], hash)
    BY <1>18 DEF IInv, Phases, hash
  <2>2. \A t : /\ Has(wire["client"] \o u, t, 0) => Has(wire["client"], t, 0) \/ Has(u, t, 0)
               /\ Once(wire["client"], t, 0) /\ ~Has(u, t, 0) => Once(wire["client"] \o u, t, 0)
               /\ ~Has(wire["client"], t, 0) /\ Once(u, t, 0) => Once(wire["client"] \o u, t, 0)
               /\ \A a : Carry(wire["client"], t, a) /\ Carry(u, t, a) => Carry(wire["client"] \o u, t, a)
    <3>1. Len(wire["client"]) \in Nat /\ 0 <= Len(wire["client"]) /\ 0 \in Nat
      BY <1>16
    <3> QED
      BY <1>16, <3>1, Written
  <2>3. /\ ~Has(wire["client"], "reply", 0) /\ ~Has(wire["client"], "newkeys", 0)
        /\ ~Has(wire["client"], "kexinit", 0)
    BY <1>9, <1>13, <2>1 DEF ToClient
  <2>4. ~Has(wire["client"] \o u, "kexinit", 0)
    BY <1>16, <2>2, <2>3
  <2>5. Carry(wire["client"] \o u, "kexinit", cookies["server"])
    BY <2>4 DEF Has, Carry
  <2>6. /\ Once(wire["client"] \o u, "kexinit", 0) /\ Once(wire["client"] \o u, "reply", 0)
        /\ Once(wire["client"] \o u, "newkeys", 0) /\ Carry(wire["client"] \o u, "reply", hash)
    BY <1>16, <2>1, <2>2, <2>3 DEF ToClient
  <2> QED
    BY <1>9, <1>13, <2>4, <2>5, <2>6 DEF ToClient
<1>19. Joint(C', S', cookies["client"], cookies["server"])
  BY <1>9, <1>13 DEF IInv, Phases, Joint
<1>20. kex'["server"].hash = hash /\ hash = kex["server"].hash
  BY <1>3, <1>7 DEF hash
<1>21. Phases'
  <2>1. \A x \in Sides : /\ kexinit'[x] \in {0, cookies'[x]} /\ cookies'[x] > 0
                         /\ mode'[x] = "kex" => kexinit'[x] # 0 /\ kex'[x].step > 0
    BY <1>2, <1>3, <1>7 DEF IInv, Phases, Sides
  <2> QED
    BY <1>2, <1>3, <1>7, <1>10, <1>15, <1>17, <1>18, <1>19, <1>20, <2>1 DEF Phases
<1>22. Known'
  <2>1. \A x \in Sides : kex'[x].hash = kex[x].hash /\ kex'[x].negotiated = kex[x].negotiated
    BY <1>3, <1>7, <1>20 DEF Sides
  <2>2. "client" \in Sides /\ "server" \in Sides
    BY DEF Sides
  <2> QED
    BY <1>2, <1>7, <1>9, <1>13, <2>1, <2>2 DEF IInv, Known
<1>23. Verification'
  BY <1>2, <1>6, <1>7, <1>9 DEF IInv, Verification, HostVerifiedFirst
<1> QED
  BY <1>8, <1>21, <1>22, <1>23 DEF IInv

LEMMA RcvReplyStep == ASSUME IInv, RcvReply PROVE IInv'
<1> DEFINE w == wire["client"]
<1>1. Typed /\ LinksTyped /\ "client" \in Sides /\ "server" \in Sides
  BY DEF IInv, Typed, LinksTyped, Sides
<1>2. /\ open["client"] /\ w # <<>> /\ Head(w).type = "reply"
      /\ mode["client"] = "kex" /\ kex["client"].step = 1
  BY DEF RcvReply, Arrives
<1>3. CASE Fatal("client")
  BY <1>1, <1>2, <1>3, FatalStep
<1>4. ASSUME NEW verified \in BOOLEAN,
             Answer("client", <<>>),
             kex' = [kex EXCEPT !["client"].step = 2, !["client"].reply = Head(wire["client"]).arg,
                                !["client"].verified = verified],
             asked' = ~verified,
             accepted' = IF verified THEN accepted \cup {kex["client"].hash} ELSE accepted,
             UNCHANGED <<authVars, appVars, offer, kexinit, cookies, mode, session, guess, skip,
                         queue, open, rekeys, early, failed>>
      PROVE  IInv'
  <2> DEFINE k == [kex["client"] EXCEPT !.step = 2, !.reply = Head(w).arg, !.verified = verified]
  <2>1. kex' = [kex EXCEPT !["client"] = k]
    BY <1>1, <1>4 DEF Typed
  <2>2. ToClient(w, C, S, cookies["server"], kex["server"].hash) /\ w \in Seq(OnWire)
    BY <1>1, <1>2 DEF IInv, Phases, Typed
  <2>3. /\ LinksTyped' /\ wire'["client"] = Tail(w)
        /\ wire'["server"] = wire["server"] \o Sealed(out["client"], <<>>)
        /\ out'["client"].keys = out["client"].keys /\ in'["client"].keys = in["client"].keys
    BY <1>1, <1>2, <1>4, QuietLetters, Answers DEF Other
  <2> HIDE DEF w
  <2>4. Has(w, "reply", 0) /\ ~Has(Tail(w), "reply", 0) /\ Head(w).arg = kex["server"].hash
    <3>1. Once(w, "reply", 0) /\ Carry(w, "reply", kex["server"].hash)
      BY <2>2 DEF ToClient
    <3> QED
      BY <1>2, <2>2, <3>1, Read
  <2>5. C = 2 /\ S = 3
    BY <2>2, <2>4 DEF ToClient
  <2>6. Head(w).arg = kex["client"].hash
    BY <2>4, <2>5 DEF IInv, Known
  <2>7. /\ k \in Exchanges /\ k.step = 2 /\ k.reply = Head(w).arg /\ k.hash = kex["client"].hash
        /\ k.negotiated = kex["client"].negotiated
        /\ k.verified = verified /\ k.received = kex["client"].received
    <3>1. kex["client"] \in Exchanges /\ Head(w).arg \in Args
      BY <1>1, <2>6 DEF Typed, Exchanges, Args
    <3>2. \A e \in Exchanges : [e EXCEPT !.step = 2] \in Exchanges
      BY DEF Exchanges
    <3>3. \A e \in Exchanges : \A a \in Args : [e EXCEPT !.reply = a] \in Exchanges
      BY DEF Exchanges
    <3>4. \A e \in Exchanges : [e EXCEPT !.verified = verified] \in Exchanges
      BY DEF Exchanges
    <3>5. k = [[[kex["client"] EXCEPT !.step = 2] EXCEPT !.reply = Head(w).arg] EXCEPT
                 !.verified = verified]
      OBVIOUS
    <3>6. k \in Exchanges
      BY <3>1, <3>2, <3>3, <3>4, <3>5
    <3>7. k.step = 2 /\ k.reply = Head(w).arg /\ k.hash = kex["client"].hash
          /\ k.negotiated = kex["client"].negotiated
      BY <3>1 DEF Exchanges
    <3>8. k.verified = verified /\ k.received = kex["client"].received
      BY <3>1 DEF Exchanges
    <3> QED
      BY <3>6, <3>7, <3>8
  <2> HIDE DEF k
  <2>8. /\ kex' \in [Sides -> Exchanges] /\ kex'["client"] = k /\ kex'["server"] = kex["server"]
    BY <1>1, <2>1, <2>7 DEF Typed
  <2>9. Typed'
    <3>1. asked' \in BOOLEAN
      BY <1>4
    <3> QED
      BY <1>1, <1>4, <2>3, <2>8, <3>1 DEF Typed, LinksTyped, authVars, appVars
  <2>10. C' = 3 /\ S' = S
    <3>1. mode' = mode /\ kexinit' = kexinit /\ kex'["client"].step = 2
      BY <1>4, <2>7, <2>8
    <3> QED
      BY <1>2, <2>8, <3>1 DEF C, S, Phase
  <2>11. Joint(C', S', cookies["client"], cookies["server"])
    BY <2>5, <2>10 DEF IInv, Phases, Joint
  <2>12. ToClient(Tail(w), C', S', cookies["server"], kex["server"].hash)
    <3>1. ToClient(Tail(w), C, S, cookies["server"], kex["server"].hash)
      BY <1>2, <2>2, ClientTable
    <3>2. ~Has(Tail(w), "kexinit", 0)
      BY <2>5, <3>1 DEF ToClient
    <3> QED
      BY <2>4, <2>5, <2>10, <3>1, <3>2 DEF ToClient
  <2> DEFINE d == Guessed(guess, mode["server"], skip)
  <2>13. Guessed(guess, mode["server"], skip)' = d /\ d \in Nat
    BY <1>4 DEF Guessed
  <2>14. open["server"] => ToServer(wire'["server"], C', S', cookies["client"], d)
    <3>1. SUFFICES ASSUME open["server"]
                   PROVE  ToServer(wire'["server"], C', S', cookies["client"], d)
      OBVIOUS
    <3>2. ToServer(wire["server"], C, S, cookies["client"], d) /\ wire["server"] \in Seq(OnWire)
      BY <1>1, <3>1 DEF IInv, Phases, Typed
    <3>3. Sealed(out["client"], <<>>) \in Seq(OnWire) /\ Quiet(Sealed(out["client"], <<>>))
      BY <1>1, QuietLetters, QuietPackets DEF Typed
    <3> HIDE DEF d
    <3>4. ToServer(wire'["server"], C, S, cookies["client"], d)
      BY <2>3, <2>13, <3>2, <3>3, ServerTable
    <3> QED
      BY <2>5, <2>10, <3>4 DEF ToServer
  <2>15. Phases'
    <3>1. \A x \in Sides : /\ kexinit'[x] \in {0, cookies'[x]} /\ cookies'[x] > 0
                           /\ mode'[x] = "kex" => kexinit'[x] # 0 /\ kex'[x].step > 0
      BY <1>4, <2>7, <2>8 DEF IInv, Phases, Sides
    <3>2. /\ kex'["server"].step < 3 \/ mode'["server"] # "kex"
          /\ skip' => S' = 2 
          /\ guess' /\ mode'["server"] = "first" => ~skip'
      BY <1>4, <2>8, <2>10 DEF IInv, Phases
    <3> QED
      BY <1>4, <2>3, <2>8, <2>11, <2>12, <2>13, <2>14, <3>1, <3>2 DEF Phases
  <2>16. Known'
    <3>1. \A x \in Sides : kex'[x].hash = kex[x].hash /\ kex'[x].negotiated = kex[x].negotiated
      BY <2>7, <2>8 DEF Sides
    <3>2. kex'["client"].reply = kex'["client"].hash
      BY <2>6, <2>7, <2>8
    <3> QED
      BY <1>1, <1>4, <2>5, <2>8, <2>10, <3>1, <3>2 DEF IInv, Known
  <2>17. Verification'
    <3>1. ~kex["client"].received
      BY <1>2 DEF IInv, Verification
    <3>2. asked' => C' \in {3, 4} /\ (kex'["client"].received <=> C' = 4) /\ ~kex'["client"].verified
      <4>1. ~kex'["client"].received /\ C' = 3 /\ C' # 4
        BY <2>7, <2>8, <2>10, <3>1
      <4>2. asked' => ~kex'["client"].verified
        BY <1>4, <2>7, <2>8, Zenon
      <4> QED
        BY <4>1, <4>2
    <3>3. kex'["client"].verified => kex'["client"].hash \in accepted'
      BY <1>4, <2>7, <2>8
    <3>4. accepted \subseteq accepted'
      BY <1>4
    <3>5. kex'["client"].step # 1
      BY <2>7, <2>8
    <3>6. HostVerifiedFirst'
      BY <2>3, <3>4 DEF IInv, Verification, HostVerifiedFirst
    <3> QED
      BY <3>2, <3>3, <3>5, <3>6 DEF Verification
  <2> QED
    BY <2>9, <2>15, <2>16, <2>17 DEF IInv
<1> QED
  BY <1>3, <1>4 DEF RcvReply

-----------------------------------------------------------------------------
(* The end of an exchange.                                                 *)

\* The queue holds nothing of an exchange.
LEMMA QueueQuiet ==
    ASSUME NEW q \in Seq(Queued)
    PROVE  q \in Seq(Letters) /\ Quiet(q)
<1>1. \A m \in Queued : m \in Letters /\ m.type \in {"app", "request", "success"}
  BY DEF Queued, Letters, Types
<1>2. \A k \in 1..Len(q) : q[k] \in Queued
  OBVIOUS
<1>3. q \in Seq(Letters)
  BY <1>1
<1>4. Quiet(q)
  BY <1>1, <1>2 DEF Quiet, Has
<1> QED
  BY <1>3, <1>4

\* completeHandshake(): both directions of x get the keys of its exchange, and what
\* x writes behind its last packet is the queue.
LEMMA Completes ==
    ASSUME Typed, NEW x \in Sides, NEW read \in {0, 1}, read = 1 => wire[x] # <<>>,
           NEW last \in Seq(Letters), CompleteHandshake(x, read, last)
    PROVE  /\ LinksTyped' /\ queue' \in [Sides -> Seq(Queued)]
           /\ wire'[x] = IF read = 1 THEN Tail(wire[x]) ELSE wire[x]
           /\ \E u \in Seq(OnWire) :
                 Quiet(u) /\ wire'[Other(x)] = (wire[Other(x)] \o Sealed(out[x], last)) \o u
           /\ out'[x].keys = kex[x].hash /\ in'[x].keys = kex[x].hash
           /\ out'[Other(x)] = out[Other(x)] /\ in'[Other(x)] = in[Other(x)]
<1> DEFINE new == NewCipher(After(out[x], Len(last)), x, WriteSlot(x))
<1> DEFINE rnew == NewCipher(After(in[x], read), x, ReadSlot(x))
<1>1. /\ out[x] \in Ciphers /\ in[x] \in Ciphers /\ Other(x) \in Sides /\ Other(x) # x
      /\ wire[Other(x)] \in Seq(OnWire) /\ wire[x] \in Seq(OnWire) /\ queue[x] \in Seq(Queued)
      /\ kex[x].hash \in Hashes
  BY DEF Typed, Sides, Other, Exchanges
<1>2. \A slot : StartedZip(x, slot) \in Zips
  <2>1. Plain \in Zips /\ [by |-> "kex", keys |-> kex[x].hash] \in Zips
    BY <1>1, InitialValues DEF Plain, Zips
  <2> QED
    BY <2>1 DEF StartedZip
<1>3. \A c \in Ciphers : \A slot : /\ NewCipher(c, x, slot) \in Ciphers
                                   /\ NewCipher(c, x, slot).keys = kex[x].hash
  BY <1>1, <1>2 DEF NewCipher, Ciphers
<1>4. Len(last) \in Nat /\ read \in Nat /\ Len(queue[x]) \in Nat
  BY <1>1
<1>5. After(out[x], Len(last)) \in Ciphers /\ After(in[x], read) \in Ciphers
  BY <1>1, <1>4, Counts
<1>6. new \in Ciphers /\ new.keys = kex[x].hash /\ rnew \in Ciphers /\ rnew.keys = kex[x].hash
  BY <1>3, <1>5
<1>7. /\ wire' = [wire EXCEPT ![x] = SubSeq(@, read + 1, Len(@)),
                              ![Other(x)] = @ \o Sealed(out[x], last) \o Drained(x, new)]
      /\ out' = [out EXCEPT ![x] = After(new, Len(queue[x]))]
      /\ in' = [in EXCEPT ![x] = rnew]
      /\ queue' = [queue EXCEPT ![x] = <<>>]
  BY DEF CompleteHandshake
<1> HIDE DEF new, rnew
<1>8. After(new, Len(queue[x])) \in Ciphers /\ After(new, Len(queue[x])).keys = kex[x].hash
  BY <1>4, <1>6, Counts
<1> DEFINE u == Drained(x, new)
<1> DEFINE v == Sealed(out[x], last)
<1>9. u \in Seq(OnWire) /\ Quiet(u)
  BY <1>1, <1>6, QueueQuiet, QuietPackets DEF Drained
<1>10. v \in Seq(OnWire)
  BY <1>1, Seals
<1>11. wire' = [wire EXCEPT ![x] = SubSeq(@, read + 1, Len(@)), ![Other(x)] = (@ \o v) \o u]
  BY <1>7
<1> HIDE DEF u, v
<1>12. (wire[Other(x)] \o v) \o u \in Seq(OnWire)
  BY <1>1, <1>9, <1>10
<1> DEFINE w == wire[x]
<1>13. SubSeq(w, read + 1, Len(w)) = (IF read = 1 THEN Tail(w) ELSE w) /\ w \in Seq(OnWire)
  <2>0. w \in Seq(OnWire) /\ (read = 1 => w # <<>>)
    BY <1>1
  <2> HIDE DEF w
  <2>1. CASE read = 1
    BY <2>0, <2>1
  <2>2. CASE read = 0
    BY <2>0, <2>2
  <2> QED
    BY <2>0, <2>1, <2>2
<1>14. SubSeq(wire[x], read + 1, Len(wire[x])) \in Seq(OnWire)
  <2>1. w # <<>> => Tail(w) \in Seq(OnWire)
    BY <1>13
  <2> QED
    BY <1>13, <2>1
<1>15. /\ wire' \in [Sides -> Seq(OnWire)] /\ wire'[x] = SubSeq(wire[x], read + 1, Len(wire[x]))
       /\ wire'[Other(x)] = (wire[Other(x)] \o v) \o u
  BY <1>1, <1>11, <1>12, <1>14 DEF Typed
<1>16. /\ out' \in [Sides -> Ciphers] /\ in' \in [Sides -> Ciphers]
       /\ out'[x].keys = kex[x].hash /\ in'[x].keys = kex[x].hash
       /\ out'[Other(x)] = out[Other(x)] /\ in'[Other(x)] = in[Other(x)]
  BY <1>1, <1>6, <1>7, <1>8 DEF Typed
<1>17. queue' \in [Sides -> Seq(Queued)]
  BY <1>1, <1>7 DEF Typed
<1> QED
  BY <1>9, <1>13, <1>15, <1>16, <1>17 DEF LinksTyped, v

\* What step 3 changes of an exchange.
LEMMA Ends ==
    ASSUME NEW e \in Exchanges
    PROVE  LET f == [e EXCEPT !.step = 3, !.received = TRUE]
           IN  /\ f \in Exchanges /\ f.step = 3 /\ f.hash = e.hash /\ f.negotiated = e.negotiated
               /\ f.reply = e.reply /\ f.verified = e.verified /\ f.received = TRUE
<1> DEFINE f == [e EXCEPT !.step = 3, !.received = TRUE]
<1>1. f = [[e EXCEPT !.step = 3] EXCEPT !.received = TRUE]
  OBVIOUS
<1>2. \A g \in Exchanges : [g EXCEPT !.step = 3] \in Exchanges
  BY DEF Exchanges
<1>3. \A g \in Exchanges : [g EXCEPT !.received = TRUE] \in Exchanges
  BY DEF Exchanges
<1>4. f \in Exchanges
  BY <1>1, <1>2, <1>3
<1>5. f.step = 3 /\ f.hash = e.hash /\ f.negotiated = e.negotiated /\ f.reply = e.reply
  BY DEF Exchanges
<1>6. f.verified = e.verified /\ f.received = TRUE
  BY DEF Exchanges
<1> QED
  BY <1>4, <1>5, <1>6

LEMMA ServerNewKeysStep == ASSUME IInv, ServerNewKeys PROVE IInv'
<1> DEFINE w == wire["server"]
<1> DEFINE k == [kex["server"] EXCEPT !.step = 3, !.received = TRUE]
<1>1. Typed /\ "client" \in Sides /\ "server" \in Sides
  BY DEF IInv, Sides
<1>2. /\ open["server"] /\ w # <<>> /\ Head(w).type = "newkeys" /\ ~skip
      /\ mode["server"] = "kex" /\ kex["server"].step = 2
      /\ CompleteHandshake("server", 1, <<>>)
      /\ kexinit' = [kexinit EXCEPT !["server"] = 0]
      /\ session' = [session EXCEPT !["server"] = SessionId("server")]
      /\ mode' = [mode EXCEPT !["server"] = "normal"]
      /\ UNCHANGED <<authenticated, auths, submitted, accepted, failed, offer, cookies, guess, skip,
                     asked, open>>
  BY DEF ServerNewKeys, Arrives, CompleteHandshake, authVars, appVars
<1>3. kex' = [kex EXCEPT !["server"] = k]
  BY <1>1 DEF ServerNewKeys, Typed
<1>4. /\ k \in Exchanges /\ k.step = 3 /\ k.hash = kex["server"].hash
      /\ k.negotiated = kex["server"].negotiated
  <2>1. kex["server"] \in Exchanges
    BY <1>1 DEF Typed
  <2> QED
    BY <2>1, Ends
<1> HIDE DEF k
<1>5. /\ kex' \in [Sides -> Exchanges] /\ kex'["server"] = k /\ kex'["client"] = kex["client"]
  BY <1>1, <1>3, <1>4 DEF Typed
<1>6. /\ LinksTyped' /\ queue' \in [Sides -> Seq(Queued)] /\ wire'["server"] = Tail(w)
      /\ \E u \in Seq(OnWire) :
            Quiet(u) /\ wire'["client"] = (wire["client"] \o Sealed(out["server"], <<>>)) \o u
      /\ out'["client"] = out["client"] /\ in'["client"] = in["client"]
  BY <1>1, <1>2, QuietLetters, Completes DEF Other
<1>7. /\ kexinit'["server"] = 0 /\ mode'["server"] = "normal" /\ session'["server"] = SessionId("server")
      /\ kexinit'["client"] = kexinit["client"] /\ mode'["client"] = mode["client"]
      /\ session'["client"] = session["client"]
  BY <1>1, <1>2 DEF Typed
<1>8. SessionId("server") \in Hashes
  BY <1>1 DEF SessionId, Typed, Exchanges
<1>9. Typed'
  <2>1. /\ kexinit' \in [Sides -> Nat] /\ session' \in [Sides -> Hashes]
        /\ mode' \in [Sides -> {"first", "kex", "normal"}]
    BY <1>1, <1>2, <1>8 DEF Typed
  <2> QED
    BY <1>1, <1>2, <1>5, <1>6, <2>1 DEF Typed, LinksTyped
<1>10. S = 3 /\ S' = 0 /\ C' = C
  BY <1>2, <1>5, <1>7 DEF S, C, Phase
<1>11. Guessed(guess, mode["server"], skip) = 0 /\ Guessed(guess, mode["server"], skip)' = 0
  BY <1>2, <1>7 DEF Guessed
<1>12. ToServer(w, C, S, cookies["client"], 0) /\ w \in Seq(OnWire)
  BY <1>1, <1>2, <1>11 DEF IInv, Phases, Typed
<1> HIDE DEF w
<1>13. Has(w, "newkeys", 0) /\ ~Has(Tail(w), "newkeys", 0)
  <2>1. Once(w, "newkeys", 0)
    BY <1>12 DEF ToServer
  <2> QED
    BY <1>2, <1>12, <2>1, Read
<1>14. C \in {0, 1}
  BY <1>12, <1>13 DEF ToServer
<1>15. ToServer(Tail(w), C, S, cookies["client"], 0)
  BY <1>2, <1>12, ServerTable
<1>16. ToServer(wire'["server"], C', S', cookies["client"], 0)
  BY <1>6, <1>10, <1>13, <1>14, <1>15 DEF ToServer
<1>17. ASSUME open["client"]
       PROVE  ToClient(wire'["client"], C', S', cookies["server"], kex["server"].hash)
  <2>1. ToClient(wire["client"], C, S, cookies["server"], kex["server"].hash)
        /\ wire["client"] \in Seq(OnWire)
    BY <1>1, <1>17 DEF IInv, Phases, Typed
  <2>2. Sealed(out["server"], <<>>) \in Seq(OnWire) /\ Quiet(Sealed(out["server"], <<>>))
    BY <1>1, QuietLetters, QuietPackets DEF Typed
  <2> DEFINE v == wire["client"] \o Sealed(out["server"], <<>>)
  <2>3. ToClient(v, C, S, cookies["server"], kex["server"].hash) /\ v \in Seq(OnWire)
    BY <2>1, <2>2, ClientTable
  <2> HIDE DEF v
  <2>4. ToClient(wire'["client"], C, S, cookies["server"], kex["server"].hash)
    <3>1. PICK u \in Seq(OnWire) : Quiet(u) /\ wire'["client"] = v \o u
      BY <1>6 DEF v
    <3> QED
      BY <2>3, <3>1, ClientTable
  <2> QED
    BY <1>10, <1>14, <2>4 DEF ToClient
<1>18. Joint(C', S', cookies["client"], cookies["server"])
  BY <1>10, <1>14 DEF IInv, Phases, Joint
<1>19. kex'["server"].hash = kex["server"].hash
  BY <1>4, <1>5
<1>20. Phases'
  <2>1. \A x \in Sides : /\ kexinit'[x] \in {0, cookies'[x]} /\ cookies'[x] > 0
                         /\ mode'[x] = "kex" => kexinit'[x] # 0 /\ kex'[x].step > 0
    BY <1>2, <1>5, <1>7 DEF IInv, Phases, Sides
  <2> QED
    BY <1>2, <1>5, <1>7, <1>11, <1>16, <1>17, <1>18, <1>19, <2>1 DEF Phases
<1>21. Known'
  <2>1. \A x \in Sides : kex'[x].hash = kex[x].hash /\ kex'[x].negotiated = kex[x].negotiated
    BY <1>4, <1>5, <1>19 DEF Sides
  <2>2. SessionId("server") = <<1, 1>>
    <3>1. kex["server"].hash = <<cookies["server"], cookies["server"]>>
      BY <1>10 DEF IInv, Known
    <3>2. /\ session["server"] \in {NoKeys, <<1, 1>>}
          /\ session["server"] = NoKeys => cookies["server"] = 1
      BY <1>1 DEF IInv, Known
    <3> QED
      BY <3>1, <3>2 DEF SessionId
  <2>3. <<1, 1>> # NoKeys
    BY DEF NoKeys
  <2>4. \A x \in Sides : /\ session'[x] \in {NoKeys, <<1, 1>>}
                         /\ session'[x] = NoKeys => kexinit'[x] # 0 /\ cookies'[x] = 1
    BY <1>2, <1>7, <2>2, <2>3 DEF IInv, Known, Sides
  <2>5. \A x \in Sides :
           kex'[x].negotiated = IF kex'[x].hash = NoKeys THEN NoKex.negotiated
                                ELSE Negotiated(x = "server", offer'[x], offer'[Other(x)])
    BY <1>2, <2>1 DEF IInv, Known
  <2> QED
    BY <1>5, <1>10, <1>14, <2>4, <2>5 DEF IInv, Known
<1>22. Verification'
  BY <1>2, <1>5, <1>6, <1>10 DEF IInv, Verification, HostVerifiedFirst
<1> QED
  BY <1>9, <1>20, <1>21, <1>22 DEF IInv

\* The client's side of the end: it has accepted the host key, and its NEWKEYS is
\* the only packet of an exchange on the way to the server.
LEMMA ClientCompletes ==
    ASSUME IInv, NEW read \in {0, 1}, read = 1 => wire["client"] # <<>>, C \in {3, 4},
           CompleteHandshake("client", read, <<Msg("newkeys", 0)>>),
           open["client"] => ToClient(wire'["client"], C, S, cookies["server"], kex["server"].hash),
           ~Has(wire'["client"], "newkeys", 0),
           /\ kex' \in [Sides -> Exchanges] /\ kex'["server"] = kex["server"]
           /\ kex'["client"].hash = kex["client"].hash
           /\ kex'["client"].negotiated = kex["client"].negotiated
           /\ kex'["client"].reply = kex["client"].reply /\ kex'["client"].step = 3,
           asked' = FALSE, accepted \subseteq accepted', kex["client"].hash \in accepted'
    PROVE  IInv'
<1> DEFINE v == wire["server"] \o Sealed(out["client"], <<Msg("newkeys", 0)>>)
<1>1. Typed /\ "client" \in Sides /\ "server" \in Sides
  BY DEF IInv, Sides
<1>2. /\ kexinit' = [kexinit EXCEPT !["client"] = 0]
      /\ session' = [session EXCEPT !["client"] = SessionId("client")]
      /\ mode' = [mode EXCEPT !["client"] = "normal"]
      /\ UNCHANGED <<authenticated, auths, submitted, failed, offer, cookies, guess, skip, open>>
  BY DEF CompleteHandshake, authVars, appVars
<1>3. /\ <<Msg("newkeys", 0)>> \in Seq(Letters)
      /\ \A t : Has(<<Msg("newkeys", 0)>>, t, 0) <=> t = "newkeys"
      /\ \A t : Once(<<Msg("newkeys", 0)>>, t, 0)
      /\ \A a : Carry(<<Msg("newkeys", 0)>>, "kexinit", a)
  <2>1. "newkeys" \in Types /\ 0 \in Args
    BY DEF Types, Args
  <2> QED
    BY <2>1, Single
<1>4. /\ LinksTyped' /\ queue' \in [Sides -> Seq(Queued)]
      /\ \E u \in Seq(OnWire) : Quiet(u) /\ wire'["server"] = v \o u
      /\ out'["client"].keys = kex["client"].hash /\ in'["client"].keys = kex["client"].hash
  BY <1>1, <1>3, Completes DEF Other
<1>5. /\ kexinit'["client"] = 0 /\ mode'["client"] = "normal" /\ session'["client"] = SessionId("client")
      /\ kexinit'["server"] = kexinit["server"] /\ mode'["server"] = mode["server"]
      /\ session'["server"] = session["server"]
  BY <1>1, <1>2 DEF Typed
<1>6. SessionId("client") \in Hashes
  BY <1>1 DEF SessionId, Typed, Exchanges
<1>7. Typed'
  <2>1. /\ kexinit' \in [Sides -> Nat] /\ session' \in [Sides -> Hashes]
        /\ mode' \in [Sides -> {"first", "kex", "normal"}] /\ asked' \in BOOLEAN
    BY <1>1, <1>2, <1>6 DEF Typed
  <2> QED
    BY <1>1, <1>2, <1>4, <2>1 DEF Typed, LinksTyped
<1>8. C' = 0 /\ S' = S /\ S = 3
  <2>1. S = 3
    BY DEF IInv, Phases, Joint
  <2> QED
    BY <1>5, <2>1 DEF S, C, Phase
<1>9. Guessed(guess, mode["server"], skip) = 0 /\ Guessed(guess, mode["server"], skip)' = 0
  <2>1. mode["server"] = "kex" /\ ~skip
    BY <1>8 DEF S, Phase, IInv, Phases
  <2> QED
    BY <1>2, <1>5, <2>1 DEF Guessed
<1>10. Joint(C', S', cookies["client"], cookies["server"])
  BY <1>8 DEF IInv, Phases, Joint
<1>11. open["client"] => ToClient(wire'["client"], C', S', cookies["server"], kex["server"].hash)
  BY <1>8 DEF ToClient
<1>12. ASSUME open["server"]
       PROVE  ToServer(wire'["server"], C', S', cookies["client"], 0)
  <2> DEFINE n == Sealed(out["client"], <<Msg("newkeys", 0)>>)
  <2> DEFINE w == wire["server"]
  <2>1. ToServer(w, C, S, cookies["client"], 0) /\ w \in Seq(OnWire)
    BY <1>1, <1>9, <1>12 DEF IInv, Phases, Typed
  <2>2. /\ n \in Seq(OnWire)
        /\ \A t : Has(n, t, 0) <=> t = "newkeys"
        /\ \A t : Once(n, t, 0)
        /\ Carry(n, "kexinit", cookies["client"])
    BY <1>1, <1>3, Seals DEF Typed
  <2>3. v = w \o n
    OBVIOUS
  <2> HIDE DEF v, w, n
  <2>4. \A t : /\ Has(w \o n, t, 0) => Has(w, t, 0) \/ Has(n, t, 0)
               /\ Once(w, t, 0) /\ ~Has(n, t, 0) => Once(w \o n, t, 0)
               /\ ~Has(w, t, 0) /\ Once(n, t, 0) => Once(w \o n, t, 0)
               /\ \A a : Carry(w, t, a) /\ Carry(n, t, a) => Carry(w \o n, t, a)
               /\ w \o n \in Seq(OnWire)
    <3>1. Len(w) \in Nat /\ 0 <= Len(w) /\ 0 \in Nat
      BY <2>1
    <3> QED
      BY <2>1, <2>2, <3>1, Written
  <2>5. ~Has(w, "kexinit", 0) /\ ~Has(w, "dhinit", 0) /\ ~Has(w, "newkeys", 0)
    BY <2>1 DEF ToServer
  <2>6. /\ Once(v, "kexinit", 0) /\ Once(v, "dhinit", 0) /\ Once(v, "newkeys", 0)
        /\ ~Has(v, "kexinit", 0) /\ ~Has(v, "dhinit", 0)
        /\ Carry(v, "kexinit", cookies["client"])
    BY <2>1, <2>2, <2>3, <2>4, <2>5 DEF ToServer
  <2>7. v \in Seq(OnWire) /\ 0 <= Len(v) /\ 0 \in Nat
    <3>1. v \in Seq(OnWire)
      BY <2>3, <2>4
    <3> QED
      BY <3>1
  <2>8. ToServer(v, C', S', cookies["client"], 0)
    BY <1>8, <2>6, <2>7 DEF ToServer
  <2>9. PICK u \in Seq(OnWire) : Quiet(u) /\ wire'["server"] = v \o u
    BY <1>4
  <2> QED
    BY <2>7, <2>8, <2>9, ServerTable
<1>13. Phases'
  <2>1. \A x \in Sides : /\ kexinit'[x] \in {0, cookies'[x]} /\ cookies'[x] > 0
                         /\ mode'[x] = "kex" => kexinit'[x] # 0 /\ kex'[x].step > 0
    BY <1>2, <1>5 DEF IInv, Phases, Sides
  <2>2. /\ kex'["server"].step < 3 \/ mode'["server"] # "kex"
        /\ skip' => S' = 2
        /\ guess' /\ mode'["server"] = "first" => ~skip'
    BY <1>2, <1>5, <1>8 DEF IInv, Phases
  <2> QED
    BY <1>2, <1>9, <1>10, <1>11, <1>12, <2>1, <2>2 DEF Phases
<1>14. Known'
  <2>1. \A x \in Sides : kex'[x].hash = kex[x].hash /\ kex'[x].negotiated = kex[x].negotiated
    BY DEF Sides
  <2>2. SessionId("client") = <<1, 1>>
    <3>1. kex["client"].hash = <<cookies["client"], cookies["client"]>>
      BY <1>8 DEF IInv, Known, Phases, Joint
    <3>2. /\ session["client"] \in {NoKeys, <<1, 1>>}
          /\ session["client"] = NoKeys => cookies["client"] = 1
      BY <1>1 DEF IInv, Known
    <3> QED
      BY <3>1, <3>2 DEF SessionId
  <2>3. <<1, 1>> # NoKeys
    BY DEF NoKeys
  <2>4. \A x \in Sides : /\ session'[x] \in {NoKeys, <<1, 1>>}
                         /\ session'[x] = NoKeys => kexinit'[x] # 0 /\ cookies'[x] = 1
    BY <1>2, <1>5, <2>2, <2>3 DEF IInv, Known, Sides
  <2>5. \A x \in Sides :
           kex'[x].negotiated = IF kex'[x].hash = NoKeys THEN NoKex.negotiated
                                ELSE Negotiated(x = "server", offer'[x], offer'[Other(x)])
    BY <1>2, <2>1 DEF IInv, Known
  <2>6. kex'["client"].reply = kex'["client"].hash
    <3>1. kex["client"].step > 1
      <4>1. kex["client"].step \in 0..3
        BY <1>1 DEF Typed, Exchanges
      <4>2. mode["client"] = "kex" /\ C = kex["client"].step + 1
        BY DEF C, Phase
      <4> QED
        BY <4>1, <4>2
    <3> QED
      BY <3>1 DEF IInv, Known
  <2>7. kex'["server"].hash = <<cookies'["server"], cookies'["server"]>>
    BY <1>2, <1>8 DEF IInv, Known
  <2>8. ~(C' >= 2)
    BY <1>8
  <2> QED
    BY <2>4, <2>5, <2>6, <2>7, <2>8 DEF Known
<1>15. Verification'
  <2>1. kex'["client"].hash \in accepted'
    OBVIOUS
  <2>2. HostVerifiedFirst'
    BY <1>4 DEF HostVerifiedFirst
  <2>3. kex'["client"].step # 1 /\ ~asked'
    OBVIOUS
  <2> QED
    BY <2>1, <2>2, <2>3 DEF Verification
<1> QED
  BY <1>7, <1>13, <1>14, <1>15 DEF IInv

\* A client that finishes does so with the server's signature of its own hash.
LEMMA Finishes ==
    ASSUME IInv, kex["client"].step > 1, NEW read, ClientFinish(read)
    PROVE  CompleteHandshake("client", read, <<Msg("newkeys", 0)>>)
<1>1. kex["client"].reply = kex["client"].hash
  BY DEF IInv, Known
<1> QED
  BY <1>1 DEF ClientFinish

LEMMA ClientNewKeysStep == ASSUME IInv, ClientNewKeys PROVE IInv'
<1> DEFINE w == wire["client"]
<1> DEFINE k == [kex["client"] EXCEPT !.step = 3, !.received = TRUE]
<1>1. Typed /\ LinksTyped /\ "client" \in Sides /\ "server" \in Sides
  BY DEF IInv, Typed, LinksTyped, Sides
<1>2. /\ open["client"] /\ w # <<>> /\ Head(w).type = "newkeys"
      /\ mode["client"] = "kex" /\ kex["client"].step = 2 /\ asked' = asked /\ accepted' = accepted
  BY DEF ClientNewKeys, Arrives
<1>3. kex' = [kex EXCEPT !["client"] = k]
  BY <1>1 DEF ClientNewKeys, Typed
<1>4. /\ k \in Exchanges /\ k.step = 3 /\ k.hash = kex["client"].hash
      /\ k.negotiated = kex["client"].negotiated /\ k.reply = kex["client"].reply
      /\ k.verified = kex["client"].verified /\ k.received = TRUE
  <2>1. kex["client"] \in Exchanges
    BY <1>1 DEF Typed
  <2> QED
    BY <2>1, Ends
<1> HIDE DEF k
<1>5. /\ kex' \in [Sides -> Exchanges] /\ kex'["client"] = k /\ kex'["server"] = kex["server"]
  BY <1>1, <1>3, <1>4 DEF Typed
<1>6. C = 3
  BY <1>2 DEF C, Phase
<1>7. ToClient(w, C, S, cookies["server"], kex["server"].hash) /\ w \in Seq(OnWire)
  BY <1>1, <1>2 DEF IInv, Phases, Typed
<1>8. /\ ToClient(Tail(w), C, S, cookies["server"], kex["server"].hash)
      /\ Has(w, "newkeys", 0) /\ ~Has(Tail(w), "newkeys", 0)
  <2>1. Once(w, "newkeys", 0)
    BY <1>7 DEF ToClient
  <2> HIDE DEF w
  <2> QED
    BY <1>2, <1>7, <2>1, Read, ClientTable
<1>9. S = 3
  BY <1>7, <1>8 DEF ToClient
<1>10. CASE kex["client"].verified
  <2>1. ClientFinish(1) /\ kex["client"].step > 1
    BY <1>2, <1>10 DEF ClientNewKeys
  <2>2. CompleteHandshake("client", 1, <<Msg("newkeys", 0)>>)
    BY <2>1, Finishes
  <2>3. kex["client"].hash \in accepted /\ asked = FALSE
    BY <1>1, <1>10 DEF IInv, Verification, Typed
  <2>4. wire'["client"] = Tail(w)
    <3>1. <<Msg("newkeys", 0)>> \in Seq(Letters)
      BY Single DEF Types, Args
    <3> QED
      BY <1>1, <1>2, <2>2, <3>1, Completes
  <2>5. /\ kex'["client"].hash = kex["client"].hash
        /\ kex'["client"].negotiated = kex["client"].negotiated
        /\ kex'["client"].reply = kex["client"].reply /\ kex'["client"].step = 3
    BY <1>4, <1>5
  <2>6. asked' = FALSE /\ accepted \subseteq accepted' /\ kex["client"].hash \in accepted'
    BY <1>2, <2>3
  <2>7. C \in {3, 4} /\ wire["client"] # <<>>
    BY <1>2, <1>6
  <2>8. /\ ToClient(wire'["client"], C, S, cookies["server"], kex["server"].hash)
        /\ ~Has(wire'["client"], "newkeys", 0)
    BY <1>8, <2>4
  <2> QED
    BY <1>5, <2>2, <2>5, <2>6, <2>7, <2>8, ClientCompletes
<1>11. CASE ~kex["client"].verified
  <2>1. /\ Answer("client", <<>>)
        /\ UNCHANGED <<authenticated, auths, submitted, failed, offer, kexinit, cookies, mode, session,
                       guess, skip, queue, open>>
    BY <1>11 DEF ClientNewKeys, authVars, appVars
  <2>2. /\ LinksTyped' /\ wire'["client"] = Tail(w)
        /\ wire'["server"] = wire["server"] \o Sealed(out["client"], <<>>)
        /\ out'["client"].keys = out["client"].keys /\ in'["client"].keys = in["client"].keys
    BY <1>1, <1>2, <2>1, QuietLetters, Answers DEF Other
  <2> HIDE DEF w
  <2>3. Typed'
    BY <1>1, <1>2, <1>5, <2>1, <2>2 DEF Typed, LinksTyped
  <2>4. C' = 4 /\ S' = S
    <3>1. mode' = mode /\ kexinit' = kexinit /\ kex'["client"].step = 3
      BY <1>4, <1>5, <2>1
    <3> QED
      BY <1>2, <1>5, <3>1 DEF C, S, Phase
  <2>5. Joint(C', S', cookies["client"], cookies["server"])
    BY <1>6, <1>9, <2>4 DEF IInv, Phases, Joint
  <2>6. ToClient(Tail(w), C', S', cookies["server"], kex["server"].hash)
    BY <1>6, <1>8, <1>9, <2>4 DEF ToClient
  <2> DEFINE d == Guessed(guess, mode["server"], skip)
  <2>7. Guessed(guess, mode["server"], skip)' = d /\ d \in Nat
    BY <2>1 DEF Guessed
  <2>8. ASSUME open["server"] PROVE ToServer(wire'["server"], C', S', cookies["client"], d)
    <3>1. ToServer(wire["server"], C, S, cookies["client"], d) /\ wire["server"] \in Seq(OnWire)
      BY <1>1, <2>8 DEF IInv, Phases, Typed
    <3>2. Sealed(out["client"], <<>>) \in Seq(OnWire) /\ Quiet(Sealed(out["client"], <<>>))
      BY <1>1, QuietLetters, QuietPackets DEF Typed
    <3> HIDE DEF d
    <3>3. ToServer(wire'["server"], C, S, cookies["client"], d)
      BY <2>2, <2>7, <3>1, <3>2, ServerTable
    <3> QED
      BY <1>6, <2>4, <3>3 DEF ToServer
  <2>9. Phases'
    <3>1. \A x \in Sides : /\ kexinit'[x] \in {0, cookies'[x]} /\ cookies'[x] > 0
                           /\ mode'[x] = "kex" => kexinit'[x] # 0 /\ kex'[x].step > 0
      BY <1>4, <1>5, <2>1 DEF IInv, Phases, Sides
    <3>2. /\ kex'["server"].step < 3 \/ mode'["server"] # "kex"
          /\ skip' => S' = 2
          /\ guess' /\ mode'["server"] = "first" => ~skip'
      BY <1>5, <2>1, <2>4 DEF IInv, Phases
    <3> QED
      BY <1>5, <2>1, <2>2, <2>5, <2>6, <2>7, <2>8, <3>1, <3>2 DEF Phases
  <2>10. Known'
    <3>1. \A x \in Sides : kex'[x].hash = kex[x].hash /\ kex'[x].negotiated = kex[x].negotiated
      BY <1>4, <1>5 DEF Sides
    <3>2. kex'["client"].reply = kex'["client"].hash
      BY <1>2, <1>4, <1>5 DEF IInv, Known
    <3> QED
      BY <1>1, <1>5, <1>6, <2>1, <2>4, <3>1, <3>2 DEF IInv, Known
  <2>11. Verification'
    <3>1. kex'["client"].received /\ ~kex'["client"].verified /\ kex'["client"].step # 1
      BY <1>4, <1>5, <1>11
    <3>2. HostVerifiedFirst'
      BY <1>2, <2>2 DEF IInv, Verification, HostVerifiedFirst
    <3> QED
      BY <2>4, <3>1, <3>2 DEF Verification
  <2> QED
    BY <2>3, <2>9, <2>10, <2>11 DEF IInv
<1> QED
  BY <1>10, <1>11

LEMMA VerifiedStep == ASSUME IInv, Verified PROVE IInv'
<1> DEFINE k == [kex["client"] EXCEPT !.verified = TRUE]
<1>1. Typed /\ "client" \in Sides /\ "server" \in Sides
  BY DEF IInv, Sides
<1>2. /\ asked /\ open["client"] /\ asked' = FALSE /\ accepted' = accepted \cup {kex["client"].hash}
      /\ kex' = [kex EXCEPT !["client"] = k]
  BY <1>1 DEF Verified, Typed
<1>3. /\ k \in Exchanges /\ k.step = kex["client"].step /\ k.hash = kex["client"].hash
      /\ k.negotiated = kex["client"].negotiated /\ k.reply = kex["client"].reply
      /\ k.received = kex["client"].received
  <2>1. kex["client"] \in Exchanges
    BY <1>1 DEF Typed
  <2>2. k \in Exchanges
    BY <2>1 DEF Exchanges
  <2>3. /\ k.step = kex["client"].step /\ k.hash = kex["client"].hash
        /\ k.negotiated = kex["client"].negotiated /\ k.reply = kex["client"].reply
        /\ k.received = kex["client"].received
    BY <2>1 DEF Exchanges
  <2> QED
    BY <2>2, <2>3
<1> HIDE DEF k
<1>4. /\ kex' \in [Sides -> Exchanges] /\ kex'["client"] = k /\ kex'["server"] = kex["server"]
  BY <1>1, <1>2, <1>3 DEF Typed
<1>5. C \in {3, 4} /\ (kex["client"].received <=> C = 4)
  BY <1>2 DEF IInv, Verification
<1>6. mode["client"] = "kex" /\ C = kex["client"].step + 1 /\ kex["client"].step \in 0..3
  BY <1>1, <1>5 DEF C, Phase, Typed, Exchanges
<1>7. accepted \subseteq accepted' /\ kex["client"].hash \in accepted'
  BY <1>2
<1>8. CASE kex["client"].received
  <2>1. ClientFinish(0) /\ kex["client"].step = 3 /\ kex["client"].step > 1
    BY <1>5, <1>6, <1>8 DEF Verified
  <2>2. CompleteHandshake("client", 0, <<Msg("newkeys", 0)>>)
    BY <2>1, Finishes
  <2>3. wire'["client"] = wire["client"]
    <3>1. <<Msg("newkeys", 0)>> \in Seq(Letters)
      BY Single DEF Types, Args
    <3>2. 0 \in {0, 1} /\ 0 # 1
      OBVIOUS
    <3> QED
      BY <1>1, <2>2, <3>1, <3>2, Completes
  <2>4. ToClient(wire["client"], C, S, cookies["server"], kex["server"].hash)
    BY <1>2 DEF IInv, Phases
  <2>5. ~Has(wire["client"], "newkeys", 0)
    BY <1>5, <1>8, <2>4 DEF ToClient
  <2>6. /\ kex'["client"].hash = kex["client"].hash
        /\ kex'["client"].negotiated = kex["client"].negotiated
        /\ kex'["client"].reply = kex["client"].reply /\ kex'["client"].step = 3
    BY <1>3, <1>4, <2>1
  <2>7. 0 \in {0, 1} /\ 0 # 1
    OBVIOUS
  <2>8. /\ ToClient(wire'["client"], C, S, cookies["server"], kex["server"].hash)
        /\ ~Has(wire'["client"], "newkeys", 0)
    BY <2>3, <2>4, <2>5
  <2> QED
    BY <1>2, <1>4, <1>5, <1>7, <2>2, <2>6, <2>7, <2>8, ClientCompletes
<1>9. CASE ~kex["client"].received
  <2>1. UNCHANGED <<authenticated, auths, submitted, failed, offer, kexinit, cookies, mode, session,
                    guess, skip, queue, out, in, open, wire>>
    BY <1>9 DEF Verified, authVars, appVars, linkVars
  <2>2. Typed'
    <3>1. asked' \in BOOLEAN
      BY <1>2
    <3> QED
      BY <1>1, <1>4, <2>1, <3>1 DEF Typed
  <2>3. C' = C /\ S' = S
    <3>1. mode' = mode /\ kexinit' = kexinit /\ kex'["client"].step = kex["client"].step
      BY <1>3, <1>4, <2>1
    <3> QED
      BY <1>4, <3>1 DEF C, S
  <2>4. Guessed(guess, mode["server"], skip)' = Guessed(guess, mode["server"], skip)
    BY <2>1 DEF Guessed
  <2>5. Phases'
    <3>1. \A x \in Sides : /\ kexinit'[x] \in {0, cookies'[x]} /\ cookies'[x] > 0
                           /\ mode'[x] = "kex" => kexinit'[x] # 0 /\ kex'[x].step > 0
      BY <1>3, <1>4, <2>1 DEF IInv, Phases, Sides
    <3> QED
      BY <1>4, <2>1, <2>3, <2>4, <3>1 DEF IInv, Phases
  <2>6. Known'
    <3>1. \A x \in Sides : kex'[x].hash = kex[x].hash /\ kex'[x].negotiated = kex[x].negotiated
      BY <1>3, <1>4 DEF Sides
    <3>2. kex'["client"].step = kex["client"].step /\ kex'["client"].reply = kex["client"].reply
      BY <1>3, <1>4
    <3> QED
      BY <1>1, <2>1, <2>3, <3>1, <3>2 DEF IInv, Known
  <2>7. Verification'
    <3>1. kex'["client"].hash \in accepted' /\ kex'["client"].step # 1
      BY <1>3, <1>4, <1>5, <1>6, <1>7
    <3>2. HostVerifiedFirst'
      BY <1>7, <2>1 DEF IInv, Verification, HostVerifiedFirst
    <3> QED
      BY <1>2, <3>1, <3>2 DEF Verification
  <2> QED
    BY <2>2, <2>5, <2>6, <2>7 DEF IInv
<1> QED
  BY <1>8, <1>9

-----------------------------------------------------------------------------
(* The theorems.                                                           *)

LEMMA ReceiveStep == ASSUME IInv, NEW x \in Sides, Receive(x) PROVE IInv'
<1>1. ASSUME RcvKexInit(x) PROVE IInv'
  BY <1>1, ClientKexInit, ServerKexInit DEF Sides
<1>2. ASSUME x = "client", RcvReply \/ ClientNewKeys \/ RcvAuthSuccess PROVE IInv'
  BY <1>2, RcvReplyStep, ClientNewKeysStep, RcvAuthSuccessStep
<1>3. ASSUME x = "server", SkipGuess \/ RcvDhInit \/ ServerNewKeys \/ RcvAuthRequest PROVE IInv'
  BY <1>3, SkipGuessStep, RcvDhInitStep, ServerNewKeysStep, RcvAuthRequestStep
<1> QED
  BY <1>1, <1>2, <1>3, RcvAppStep, RcvDisconnectStep, MisfitStep DEF Receive

LEMMA Inductive == IInv /\ [Next]_vars => IInv'
<1>1. SUFFICES ASSUME IInv, [Next]_vars PROVE IInv'
  OBVIOUS
<1>2. ASSUME NEW x \in Sides, Receive(x) \/ AppSend(x) \/ Rekey(x) \/ Disconnect(x) PROVE IInv'
  <2>1. ASSUME Rekey(x) PROVE IInv'
    BY <1>1, <2>1, ClientRekey, ServerRekey DEF Sides
  <2> QED
    BY <1>1, <1>2, <2>1, ReceiveStep, AppSendStep, DisconnectStep
<1>3. ASSUME AuthRequest \/ AuthSuccess \/ Verified \/ Denied PROVE IInv'
  BY <1>1, <1>3, AuthRequestStep, AuthSuccessStep, VerifiedStep, DeniedStep
<1>4. ASSUME UNCHANGED vars PROVE IInv'
  <2>1. UNCHANGED <<offer, kexinit, cookies, kex, mode, session, guess, skip, asked, queue, out, in,
                    open, wire, authenticated, auths, submitted, accepted, failed>>
    BY <1>4 DEF vars, kexVars, linkVars, authVars, appVars, history
  <2>2. C' = C /\ S' = S
    BY <2>1 DEF C, S
  <2>3. Guessed(guess, mode["server"], skip)' = Guessed(guess, mode["server"], skip)
    BY <2>1 DEF Guessed
  <2>4. Typed'
    BY <1>1, <2>1 DEF IInv, Typed
  <2>5. Phases'
    BY <1>1, <2>1, <2>2, <2>3 DEF IInv, Phases
  <2>6. Known'
    BY <1>1, <2>1, <2>2 DEF IInv, Known
  <2>7. Verification'
    BY <1>1, <2>1, <2>2 DEF IInv, Verification, HostVerifiedFirst
  <2> QED
    BY <2>4, <2>5, <2>6, <2>7 DEF IInv
<1> QED
  BY <1>1, <1>2, <1>3, <1>4 DEF Next

LEMMA Invariance == Spec => []IInv
BY Initially, Inductive, PTL DEF Spec

\* The state of both transports keeps its types: a sequence number stays below the
\* modulus, and an exchange in one of its steps, through every number of exchanges
\* (sendPacket(), handleKexInit(), KeyExchange.parse()).
THEOREM TypeCorrect == Spec => []TypeOK
<1>1. IInv => TypeOK
  <2>1. SUFFICES ASSUME Typed PROVE TypeOK
    BY DEF IInv
  <2>2. \A x \in Sides : \A i \in DOMAIN queue[x] : queue[x][i] \in Packets
    <3>1. \A m \in Queued : m \in Packets
      BY DEF Queued, Packets, Args, Hashes
    <3>2. \A q \in Seq(Queued) : \A i \in DOMAIN q : q[i] \in Queued
      OBVIOUS
    <3> QED
      BY <2>1, <3>1, <3>2 DEF Typed
  <2>3. \A x \in Sides : /\ kex[x].step \in 0..3
                         /\ out[x].seqno \in 0..SeqMod - 1 /\ in[x].seqno \in 0..SeqMod - 1
    BY <2>1 DEF Typed, Exchanges, Ciphers
  <2> QED
    BY <2>1, <2>2, <2>3 DEF Typed, TypeOK
<1> QED
  BY <1>1, Invariance, PTL

\* Whenever the host verifier answers, before or after the server's NEWKEYS, and
\* however many exchanges follow, the client never reads or writes with keys whose
\* host key it has not accepted (the hostVerifier callback of KeyExchange.parse()).
THEOREM NoUnverifiedKeys == Spec => []HostVerifiedFirst
<1>1. IInv => HostVerifiedFirst
  BY DEF IInv, Verification
<1> QED
  BY <1>1, Invariance, PTL

\* The side that is asked first finds what the other one finds.
LEMMA NegotiatedAlike ==
    ASSUME NEW o \in Offers, NEW p \in Offers
    PROVE  Negotiated(FALSE, o, p) = Negotiated(TRUE, p, o)
<1>1. \A s \in Slots : Agreed(FALSE, o[s], p[s]) = Agreed(TRUE, p[s], o[s])
  BY DEF Agreed
<1>2. [s \in Slots |-> Agreed(FALSE, o[s], p[s])] = [s \in Slots |-> Agreed(TRUE, p[s], o[s])]
  BY <1>1
<1> QED
  BY <1>2 DEF Negotiated

\* The server's signature that a client accepts is of the client's own hash, sides
\* with one hash use the same algorithms, and the session identifier is the hash of
\* the first exchange, for all offers and all later exchanges, whoever begins them
\* (handleKexInit(), finish(), completeHandshake()).
THEOREM OneExchange == Spec => []ExchangesAgree
<1>1. IInv => ExchangesAgree
  <2>1. SUFFICES ASSUME Typed, Known PROVE ExchangesAgree
    BY DEF IInv
  <2>2. "client" \in Sides /\ "server" \in Sides /\ Other("client") = "server" /\ Other("server") = "client"
    BY DEF Sides, Other
  <2>3. Negotiated("client" = "server", offer["client"], offer["server"])
          = Negotiated("server" = "server", offer["server"], offer["client"])
    <3>1. offer["client"] \in Offers /\ offer["server"] \in Offers
      BY <2>1, <2>2 DEF Typed
    <3>2. ("client" = "server") = FALSE /\ ("server" = "server") = TRUE
      OBVIOUS
    <3> QED
      BY <3>1, <3>2, NegotiatedAlike
  <2>4. /\ kex["client"].negotiated = IF kex["client"].hash = NoKeys THEN NoKex.negotiated
                                      ELSE Negotiated("client" = "server", offer["client"], offer["server"])
        /\ kex["server"].negotiated = IF kex["server"].hash = NoKeys THEN NoKex.negotiated
                                      ELSE Negotiated("server" = "server", offer["server"], offer["client"])
    BY <2>1, <2>2 DEF Known
  <2>5. kex["client"].hash = kex["server"].hash => kex["client"].negotiated = kex["server"].negotiated
    BY <2>3, <2>4
  <2> QED
    BY <2>1, <2>5 DEF Known, ExchangesAgree
<1> QED
  BY <1>1, Invariance, PTL

-----------------------------------------------------------------------------
(* What the packets on the wire were written with, and when they are read. *)

\* The exchanges that x has completed: the number of its keys.
Level(x) == IF kexinit[x] = 0 THEN cookies[x] ELSE cookies[x] - 1

\* Sequence numbers follow each other from the reader's next to the writer's next.
Numbered(w, first, next) ==
    /\ \A k \in 1..Len(w) : w[k].seqno = (first + (k - 1)) % SeqMod
    /\ next = (first + Len(w)) % SeqMod

InSequence == \A x \in Sides : Numbered(wire[x], in[x].seqno, out[Other(x)].seqno)

\* How far a side is, what it reads and writes with, and what it may have queued.
SideFine(x) ==
    /\ in[x].keys = <<Level(x), Level(x)>> /\ out[x].keys = <<Level(x), Level(x)>>
    /\ mode[x] = "first" => kexinit[x] # 0 /\ cookies[x] = 1
    /\ mode[x] = "normal" \/ session[x] # NoKeys \/ queue[x] # <<>> \/ authenticated[x] \/ auths[x]
       => Level(x) >= 1
    /\ kexinit[x] = 0 => queue[x] = <<>>
    /\ Level(x) >= 1 => kex[x].hash # NoKeys
    /\ \A i \in 1..Len(queue[x]) : queue[x][i].type # IF x = "client" THEN "success" ELSE "request"

SidesFine == SideFine("client") /\ SideFine("server")

\* Packet k of w comes behind one of type t.  DISCONNECT, which is never queued,
\* is the one packet that may come at the wrong time.
Behind(w, t, k) == \E j \in 1..Len(w) : j < k /\ w[j].type = t
Live(p) == p.type # "disconnect"

\* The packets to the client have its keys and are in an order it expects, ...
OrderToClient(w, n, c, s, m) ==
    \A k \in 1..Len(w) : Live(w[k]) =>
        /\ w[k].keys = <<n, n>>
        /\ w[k].type \notin {"dhinit", "request"}
        /\ ~(c \in {0, 1, 4} /\ s = 3)
        /\ w[k].type \in {"app", "success"} => c \in {0, 1} /\ m = "normal" /\ ~Behind(w, "kexinit", k)
        /\ ~Behind(w, "newkeys", k)
        /\ w[k].type = "newkeys" /\ c = 2 => Behind(w, "reply", k)

\* ... and so are those to the server, the keys of which change behind NEWKEYS.
ServerExpects(w, n, new, s, m, d) ==
    \A k \in 1..Len(w) : Live(w[k]) =>
        /\ w[k].keys = IF Behind(w, "newkeys", k) THEN <<new, new>> ELSE <<n, n>>
        /\ w[k].type \notin {"reply", "success"}
        /\ w[k].type \in {"app", "request"} => (s \in {0, 1} /\ m = "normal") \/ Behind(w, "newkeys", k)
        /\ w[k].type = "kexinit" /\ s = 3 => Behind(w, "newkeys", k)
        /\ w[k].type \in {"app", "request", "newkeys"} => ~Behind(w, "kexinit", k)
        /\ w[k].type = "dhinit" /\ k > d /\ s = 1 => Behind(w, "kexinit", k)

OrderToServer(w, n, new, c, s, m, d) ==
    /\ ServerExpects(w, n, new, s, m, d)
    /\ s = 3 /\ c \in {0, 1} => Has(w, "newkeys", 0)
    /\ (c = 1 /\ s # 2) \/ (c = 2 /\ s = 1) => Has(w, "kexinit", 0)
    /\ d = 2 => w[1].type = "kexinit"

InOrder ==
    /\ open["client"] => OrderToClient(wire["client"], Level("client"), C, S, mode["client"])
    /\ open["server"] => OrderToServer(wire["server"], Level("server"), cookies["server"], C, S,
                                       mode["server"], Guessed(guess, mode["server"], skip))

\* If no exchange began before the user was authenticated: the request and its
\* answer are in one place, and the client is silent in between.
NothingTo(w) == \A k \in 1..Len(w) : ~Live(w[k])
AskedOn(w, auth) == \A k \in 1..Len(w) : Live(w[k]) => ~Behind(w, "request", k) \/ auth

AuthFine ==
    /\ ~authenticated["client"] => cookies["client"] = 1 /\ cookies["server"] = 1
    /\ \A x \in Sides : \A i \in 1..Len(queue[x]) : queue[x][i].type = "app"
    /\ authenticated["client"] => authenticated["server"]
    /\ auths["server"] => ~authenticated["server"]
    /\ (auths["server"] \/ authenticated["server"]) /\ ~authenticated["client"] =>
           auths["client"] /\ (open["server"] => NothingTo(wire["server"]))
    /\ open["server"] =>
           /\ Has(wire["server"], "request", 0) =>
                  auths["client"] /\ ~auths["server"] /\ ~authenticated["server"] /\ ~authenticated["client"]
           /\ AskedOn(wire["server"], authenticated["client"])
    /\ open["client"] =>
           /\ Has(wire["client"], "success", 0) => authenticated["server"] /\ ~authenticated["client"]
           /\ Once(wire["client"], "success", 0)
           /\ authenticated["server"] /\ ~authenticated["client"] => Has(wire["client"], "success", 0)

AuthInStep == ~early => AuthFine

\* The compressor under given keys of a direction for which z was negotiated: what
\* is delayed begins, under the first keys, when the user is authenticated.
Algorithms == Negotiated(FALSE, offer["client"], offer["server"])

ZipFor(z, keys, auth) ==
    IF keys = NoKeys \/ z \notin {"zlib", "zlib@openssh.com"} THEN Plain
    ELSE IF z = "zlib" \/ keys # <<1, 1>> THEN [by |-> "kex", keys |-> keys]
    ELSE IF auth THEN [by |-> "auth", keys |-> NoKeys] ELSE Plain

ZipToClient(w, z, auth) ==
    \A k \in 1..Len(w) : Live(w[k]) => w[k].zip = ZipFor(z, w[k].keys, auth \/ Behind(w, "success", k))
ZipToServer(w, z, auth) ==
    \A k \in 1..Len(w) : Live(w[k]) => w[k].zip = ZipFor(z, w[k].keys, auth)

SideZips(x) ==
    /\ in[x].zip = ZipFor(Algorithms[ReadSlot(x)], in[x].keys, authenticated[x])
    /\ out[x].zip = ZipFor(Algorithms[WriteSlot(x)], out[x].keys, authenticated[x])

ZipFine ==
    /\ SideZips("client") /\ SideZips("server")
    /\ open["client"] => ZipToClient(wire["client"], Algorithms["scCompress"], authenticated["client"])
    /\ open["server"] => ZipToServer(wire["server"], Algorithms["csCompress"], authenticated["client"])

ZipInStep == ~(early /\ Delays) => ZipFine

Steady == SidesFine /\ InOrder /\ AuthInStep /\ ZipInStep

-----------------------------------------------------------------------------
(* Reading and writing, packet by packet.                                  *)

LEMMA Reading ==
    ASSUME NEW V, NEW w \in Seq(V), w # <<>>
    PROVE  /\ Tail(w) \in Seq(V) /\ 1 \in 1..Len(w) /\ Head(w) = w[1] /\ Len(w) = Len(Tail(w)) + 1
           /\ \A t : ~Behind(w, t, 1)
           /\ \A k \in 1..Len(Tail(w)) :
                 /\ k + 1 \in 1..Len(w) /\ Tail(w)[k] = w[k + 1]
                 /\ \A t : Behind(w, t, k + 1) <=> Behind(Tail(w), t, k) \/ Head(w).type = t
           /\ \A t : Has(w, t, 0) <=> Has(Tail(w), t, 0) \/ Head(w).type = t
<1>1. /\ Tail(w) \in Seq(V) /\ Len(w) \in Nat /\ Len(w) > 0 /\ Len(Tail(w)) = Len(w) - 1
      /\ \A k \in 1..Len(Tail(w)) : Tail(w)[k] = w[k + 1]
      /\ Head(w) = w[1]
  OBVIOUS
<1>2. 1 \in 1..Len(w) /\ Len(w) = Len(Tail(w)) + 1
  BY <1>1
<1>3. \A k \in 1..Len(Tail(w)) : k + 1 \in 1..Len(w)
  BY <1>1
<1>4. \A j \in 1..Len(w) : j = 1 \/ (j - 1 \in 1..Len(Tail(w)) /\ Tail(w)[j - 1] = w[j])
  <2>1. \A j \in 1..Len(w) : j = 1 \/ (j - 1 \in 1..Len(Tail(w)) /\ (j - 1) + 1 = j)
    BY <1>1
  <2> QED
    BY <1>1, <2>1
<1>5. \A t : ~Behind(w, t, 1)
  BY <1>1 DEF Behind
<1>6. ASSUME NEW k \in 1..Len(Tail(w)), NEW t
      PROVE  Behind(w, t, k + 1) <=> Behind(Tail(w), t, k) \/ Head(w).type = t
  <2>1. ASSUME Behind(w, t, k + 1), Head(w).type # t PROVE Behind(Tail(w), t, k)
    <3>1. PICK j \in 1..Len(w) : j < k + 1 /\ w[j].type = t
      BY <2>1 DEF Behind
    <3>2. j # 1
      BY <1>1, <2>1, <3>1
    <3>3. j - 1 \in 1..Len(Tail(w)) /\ Tail(w)[j - 1].type = t /\ j - 1 < k
      BY <1>4, <3>1, <3>2
    <3> QED
      BY <3>3 DEF Behind
  <2>2. ASSUME Behind(Tail(w), t, k) PROVE Behind(w, t, k + 1)
    <3>1. PICK j \in 1..Len(Tail(w)) : j < k /\ Tail(w)[j].type = t
      BY <2>2 DEF Behind
    <3>2. j + 1 \in 1..Len(w) /\ j + 1 < k + 1 /\ w[j + 1].type = t
      BY <1>1, <1>3, <3>1
    <3> QED
      BY <3>2 DEF Behind
  <2>3. ASSUME Head(w).type = t PROVE Behind(w, t, k + 1)
    <3>1. 1 < k + 1 /\ w[1].type = t
      BY <1>1, <2>3
    <3> QED
      BY <1>2, <3>1 DEF Behind
  <2> QED
    BY <2>1, <2>2, <2>3
<1>7. ASSUME NEW t PROVE Has(w, t, 0) <=> Has(Tail(w), t, 0) \/ Head(w).type = t
  <2>1. ASSUME Has(w, t, 0), Head(w).type # t PROVE Has(Tail(w), t, 0)
    <3>1. PICK j \in 1..Len(w) : w[j].type = t
      BY <2>1 DEF Has
    <3>2. j - 1 \in 1..Len(Tail(w)) /\ Tail(w)[j - 1].type = t /\ j - 1 > 0
      BY <1>1, <1>4, <2>1, <3>1
    <3> QED
      BY <3>2 DEF Has
  <2>2. ASSUME Has(Tail(w), t, 0) PROVE Has(w, t, 0)
    BY <1>1, <1>3, <2>2 DEF Has
  <2>3. ASSUME Head(w).type = t PROVE Has(w, t, 0)
    BY <1>1, <1>2, <2>3 DEF Has
  <2> QED
    BY <2>1, <2>2, <2>3
<1> QED
  BY <1>1, <1>2, <1>3, <1>5, <1>6, <1>7

LEMMA Writing ==
    ASSUME NEW V, NEW w \in Seq(V), NEW u \in Seq(V)
    PROVE  /\ w \o u \in Seq(V) /\ Len(w \o u) = Len(w) + Len(u)
           /\ \A k \in 1..Len(w) : /\ (w \o u)[k] = w[k]
                                   /\ \A t : Behind(w \o u, t, k) <=> Behind(w, t, k)
           /\ \A k \in 1..Len(u) : /\ (w \o u)[Len(w) + k] = u[k]
                                   /\ \A t : Behind(w \o u, t, Len(w) + k) <=> Has(w, t, 0) \/ Behind(u, t, k)
           /\ \A k \in 1..Len(w \o u) : k \in 1..Len(w) \/ \E i \in 1..Len(u) : k = Len(w) + i
           /\ \A t : Has(w \o u, t, 0) <=> Has(w, t, 0) \/ Has(u, t, 0)
<1> DEFINE v == w \o u
<1>1. /\ v \in Seq(V) /\ Len(v) = Len(w) + Len(u) /\ Len(w) \in Nat /\ Len(u) \in Nat
      /\ \A k \in 1..Len(v) : v[k] = IF k <= Len(w) THEN w[k] ELSE u[k - Len(w)]
  OBVIOUS
<1> HIDE DEF v
<1>2. \A k \in 1..Len(w) : k \in 1..Len(v) /\ v[k] = w[k]
  BY <1>1
<1>3. \A k \in 1..Len(u) : Len(w) + k \in 1..Len(v) /\ v[Len(w) + k] = u[k] /\ k > 0
  <2>1. \A k \in 1..Len(u) : Len(w) + k \in 1..Len(v) /\ ~(Len(w) + k <= Len(w)) /\ (Len(w) + k) - Len(w) = k
                             /\ k > 0
    BY <1>1
  <2> QED
    BY <1>1, <2>1
<1>4. \A k \in 1..Len(v) : k \in 1..Len(w) \/ \E i \in 1..Len(u) : k = Len(w) + i
  <2>1. SUFFICES ASSUME NEW k \in 1..Len(v), k \notin 1..Len(w)
                 PROVE  \E i \in 1..Len(u) : k = Len(w) + i
    OBVIOUS
  <2>2. k - Len(w) \in 1..Len(u) /\ k = Len(w) + (k - Len(w))
    BY <1>1, <2>1
  <2> QED
    BY <2>2
<1>5. ASSUME NEW k \in 1..Len(w), NEW t PROVE Behind(v, t, k) <=> Behind(w, t, k)
  <2>1. \A j \in 1..Len(v) : j < k => j \in 1..Len(w)
    BY <1>1
  <2> QED
    BY <1>2, <2>1 DEF Behind
<1>6. ASSUME NEW k \in 1..Len(u), NEW t
      PROVE  Behind(v, t, Len(w) + k) <=> Has(w, t, 0) \/ Behind(u, t, k)
  <2>1. ASSUME Behind(v, t, Len(w) + k) PROVE Has(w, t, 0) \/ Behind(u, t, k)
    <3>1. PICK j \in 1..Len(v) : j < Len(w) + k /\ v[j].type = t
      BY <2>1 DEF Behind
    <3>2. CASE j \in 1..Len(w)
      BY <1>2, <3>1, <3>2 DEF Has
    <3>3. CASE \E i \in 1..Len(u) : j = Len(w) + i
      <4>1. PICK i \in 1..Len(u) : j = Len(w) + i
        BY <3>3
      <4>2. i < k /\ u[i].type = t
        BY <1>1, <1>3, <3>1, <4>1
      <4> QED
        BY <4>2 DEF Behind
    <3> QED
      BY <1>4, <3>2, <3>3
  <2>2. ASSUME Has(w, t, 0) PROVE Behind(v, t, Len(w) + k)
    <3>1. PICK j \in 1..Len(w) : w[j].type = t
      BY <2>2 DEF Has
    <3>2. j \in 1..Len(v) /\ v[j].type = t
      BY <1>2, <3>1
    <3>3. j < Len(w) + k
      BY <1>1
    <3> QED
      BY <3>2, <3>3 DEF Behind
  <2>3. ASSUME Behind(u, t, k) PROVE Behind(v, t, Len(w) + k)
    <3>1. PICK j \in 1..Len(u) : j < k /\ u[j].type = t
      BY <2>3 DEF Behind
    <3>2. Len(w) + j \in 1..Len(v) /\ v[Len(w) + j].type = t
      BY <1>3, <3>1
    <3>3. Len(w) + j < Len(w) + k
      BY <1>1, <3>1
    <3> QED
      BY <3>2, <3>3 DEF Behind
  <2> QED
    BY <2>1, <2>2, <2>3
<1>7. ASSUME NEW t PROVE Has(v, t, 0) <=> Has(w, t, 0) \/ Has(u, t, 0)
  <2>1. Has(v, t, 0) => Has(w, t, 0) \/ Has(u, t, 0)
    <3>1. SUFFICES ASSUME NEW j \in 1..Len(v), v[j].type = t PROVE Has(w, t, 0) \/ Has(u, t, 0)
      BY DEF Has
    <3>2. CASE j \in 1..Len(w)
      BY <1>2, <3>1, <3>2 DEF Has
    <3>3. CASE \E i \in 1..Len(u) : j = Len(w) + i
      BY <1>3, <3>1, <3>3 DEF Has
    <3> QED
      BY <1>4, <3>2, <3>3
  <2>2. Has(w, t, 0) => Has(v, t, 0)
    BY <1>2 DEF Has
  <2>3. Has(u, t, 0) => Has(v, t, 0)
    <3>1. SUFFICES ASSUME NEW i \in 1..Len(u), u[i].type = t PROVE Has(v, t, 0)
      BY DEF Has
    <3>2. Len(w) + i \in 1..Len(v) /\ v[Len(w) + i].type = t /\ Len(w) + i > 0
      BY <1>1, <1>3, <3>1
    <3> QED
      BY <3>2 DEF Has
  <2> QED
    BY <2>1, <2>2, <2>3
<1> QED
  BY <1>1, <1>2, <1>3, <1>4, <1>5, <1>6, <1>7 DEF v

-----------------------------------------------------------------------------
(* Sequence numbers.                                                       *)

LEMMA Divided ==
    ASSUME NEW n \in Nat
    PROVE  /\ n = SeqMod * (n \div SeqMod) + (n % SeqMod)
           /\ n % SeqMod \in 0..(SeqMod - 1) /\ n \div SeqMod \in Nat
BY KexAssumption

LEMMA Remains ==
    ASSUME NEW q \in Int, NEW r \in 0..(SeqMod - 1)
    PROVE  (SeqMod * q + r) % SeqMod = r
BY KexAssumption

\* To count on from a sequence number is to count on and then to wrap.
LEMMA WrapsOn ==
    ASSUME NEW n \in Nat, NEW b \in Nat
    PROVE  ((n % SeqMod) + b) % SeqMod = (n + b) % SeqMod
<1>0. SeqMod \in Nat
  BY KexAssumption
<1>1. PICK q \in Nat, r \in 0..(SeqMod - 1) : n = SeqMod * q + r /\ n % SeqMod = r
  BY Divided
<1>2. PICK p \in Nat, s \in 0..(SeqMod - 1) : r + b = SeqMod * p + s /\ (r + b) % SeqMod = s
  <2>1. r + b \in Nat
    BY <1>0
  <2> QED
    BY <2>1, Divided
<1>3. n + b = SeqMod * (q + p) + s
  <2>1. SeqMod * (q + p) = SeqMod * q + SeqMod * p
    BY <1>0
  <2>2. PICK y \in Nat, z \in Nat : y = SeqMod * q /\ z = SeqMod * p
    BY <1>0
  <2> QED
    BY <1>0, <1>1, <1>2, <2>1, <2>2
<1>4. (n + b) % SeqMod = s
  BY <1>3, Remains
<1> QED
  BY <1>1, <1>2, <1>4

LEMMA InRange ==
    ASSUME NEW r \in 0..(SeqMod - 1)
    PROVE  (r + 0) % SeqMod = r
<1>1. SeqMod * 0 + r = r + 0 /\ 0 \in Int
  BY KexAssumption
<1> QED
  BY <1>1, Remains

\* x writes u and reads r packets.
Flows(x, u, r) ==
    /\ u \in Seq(OnWire) /\ r \in {0, 1}
    /\ wire'[Other(x)] = wire[Other(x)] \o u
    /\ wire'[x] = IF r = 1 THEN Tail(wire[x]) ELSE wire[x]
    /\ r = 1 => wire[x] # <<>>
    /\ \A k \in 1..Len(u) : u[k].seqno = (out[x].seqno + (k - 1)) % SeqMod
    /\ out'[x].seqno = (out[x].seqno + Len(u)) % SeqMod
    /\ in'[x].seqno = (in[x].seqno + r) % SeqMod
    /\ out'[Other(x)].seqno = out[Other(x)].seqno /\ in'[Other(x)].seqno = in[Other(x)].seqno

LEMMA FlowsOn ==
    ASSUME LinksTyped, InSequence, NEW x \in Sides, NEW u, NEW r, Flows(x, u, r)
    PROVE  InSequence'
<1> DEFINE y == Other(x)
<1>1. /\ y \in Sides /\ Other(y) = x /\ Sides = {x, y} /\ x # y
      /\ wire[x] \in Seq(OnWire) /\ wire[y] \in Seq(OnWire) /\ u \in Seq(OnWire) /\ r \in {0, 1}
      /\ in[x].seqno \in Nat /\ in[y].seqno \in Nat /\ out[x].seqno \in Nat /\ out[y].seqno \in Nat
      /\ in[x].seqno \in 0..(SeqMod - 1)
  <2>1. y \in Sides /\ Other(y) = x /\ Sides = {x, y} /\ x # y
    BY DEF Sides, Other
  <2>2. \A c \in Ciphers : c.seqno \in Nat /\ c.seqno \in 0..(SeqMod - 1)
    BY DEF Ciphers
  <2>3. u \in Seq(OnWire) /\ r \in {0, 1}
    BY DEF Flows
  <2> QED
    BY <2>1, <2>2, <2>3 DEF LinksTyped
<1>2. /\ Numbered(wire[x], in[x].seqno, out[y].seqno) /\ Numbered(wire[y], in[y].seqno, out[x].seqno)
  BY <1>1 DEF InSequence
<1>3. Numbered(wire'[y], in'[y].seqno, out'[x].seqno)
  <2> DEFINE w == wire[y]
  <2> DEFINE a == in[y].seqno
  <2>1. /\ wire'[y] = w \o u /\ in'[y].seqno = a /\ out'[x].seqno = (out[x].seqno + Len(u)) % SeqMod
        /\ \A k \in 1..Len(u) : u[k].seqno = (out[x].seqno + (k - 1)) % SeqMod
    BY DEF Flows
  <2>2. /\ \A k \in 1..Len(w) : w[k].seqno = (a + (k - 1)) % SeqMod
        /\ out[x].seqno = (a + Len(w)) % SeqMod
        /\ w \in Seq(OnWire) /\ a \in Nat
    BY <1>1, <1>2 DEF Numbered
  <2> HIDE DEF w, a, y
  <2>3. Len(w) \in Nat /\ Len(u) \in Nat /\ a + Len(w) \in Nat
    BY <1>1, <2>2
  <2>4. \A b \in Nat : (out[x].seqno + b) % SeqMod = ((a + Len(w)) + b) % SeqMod
    BY <2>2, <2>3, WrapsOn
  <2>5. /\ Len(w \o u) = Len(w) + Len(u)
        /\ \A k \in 1..Len(w) : (w \o u)[k] = w[k]
        /\ \A k \in 1..Len(u) : (w \o u)[Len(w) + k] = u[k]
        /\ \A k \in 1..Len(w \o u) : k \in 1..Len(w) \/ \E i \in 1..Len(u) : k = Len(w) + i
    BY <1>1, <2>2, Writing
  <2>6. ASSUME NEW i \in 1..Len(u)
        PROVE  (w \o u)[Len(w) + i].seqno = (a + ((Len(w) + i) - 1)) % SeqMod
    <3>1. i - 1 \in Nat /\ (a + Len(w)) + (i - 1) = a + ((Len(w) + i) - 1)
      BY <2>2, <2>3
    <3>2. u[i].seqno = (out[x].seqno + (i - 1)) % SeqMod
      BY <2>1
    <3> QED
      BY <2>4, <2>5, <3>1, <3>2
  <2>7. \A k \in 1..Len(w \o u) : (w \o u)[k].seqno = (a + (k - 1)) % SeqMod
    BY <2>2, <2>5, <2>6
  <2>8. out'[x].seqno = (a + Len(w \o u)) % SeqMod
    <3>1. (a + Len(w)) + Len(u) = a + Len(w \o u)
      BY <2>2, <2>3, <2>5
    <3> QED
      BY <2>1, <2>3, <2>4, <3>1
  <2> QED
    BY <2>1, <2>7, <2>8 DEF Numbered
<1>4. Numbered(wire'[x], in'[x].seqno, out'[y].seqno)
  <2> DEFINE w == wire[x]
  <2> DEFINE a == in[x].seqno
  <2>1. /\ wire'[x] = IF r = 1 THEN Tail(w) ELSE w
        /\ r = 1 => w # <<>>
        /\ in'[x].seqno = (a + r) % SeqMod /\ out'[y].seqno = out[y].seqno
    BY DEF Flows
  <2>2. /\ \A k \in 1..Len(w) : w[k].seqno = (a + (k - 1)) % SeqMod
        /\ out[y].seqno = (a + Len(w)) % SeqMod
        /\ w \in Seq(OnWire) /\ a \in Nat /\ a \in 0..(SeqMod - 1)
    BY <1>1, <1>2 DEF Numbered
  <2> HIDE DEF w, a, y
  <2>3. CASE r = 0
    <3>1. wire'[x] = w /\ in'[x].seqno = a
      BY <2>1, <2>2, <2>3, InRange
    <3> QED
      BY <2>1, <2>2, <3>1 DEF Numbered
  <2>4. CASE r = 1
    <3>1. wire'[x] = Tail(w) /\ in'[x].seqno = (a + 1) % SeqMod /\ w # <<>>
      BY <2>1, <2>4
    <3>2. /\ Len(w) = Len(Tail(w)) + 1 /\ Len(Tail(w)) \in Nat
          /\ \A k \in 1..Len(Tail(w)) : k + 1 \in 1..Len(w) /\ Tail(w)[k] = w[k + 1]
      BY <2>2, <3>1, Reading
    <3>3. \A b \in Nat : (((a + 1) % SeqMod) + b) % SeqMod = ((a + 1) + b) % SeqMod
      <4>1. a + 1 \in Nat
        BY <2>2
      <4> QED
        BY <4>1, WrapsOn
    <3>4. ASSUME NEW k \in 1..Len(Tail(w))
          PROVE  Tail(w)[k].seqno = (((a + 1) % SeqMod) + (k - 1)) % SeqMod
      <4>0. k \in Nat /\ k > 0 /\ a \in Nat
        BY <2>2, <3>2
      <4>1. k - 1 \in Nat /\ (a + 1) + (k - 1) = a + ((k + 1) - 1)
        BY <4>0
      <4>2. w[k + 1].seqno = (a + ((k + 1) - 1)) % SeqMod
        BY <2>2, <3>2
      <4> QED
        BY <3>2, <3>3, <4>1, <4>2
    <3>5. out[y].seqno = (((a + 1) % SeqMod) + Len(Tail(w))) % SeqMod
      <4>1. PICK b \in Nat : b = Len(Tail(w)) /\ Len(w) = b + 1
        BY <3>2
      <4>2. (a + 1) + b = a + (b + 1)
        BY <2>2
      <4>3. (((a + 1) % SeqMod) + b) % SeqMod = (a + (b + 1)) % SeqMod
        BY <3>3, <4>2
      <4> QED
        BY <2>2, <4>1, <4>3
    <3> QED
      BY <2>1, <3>1, <3>4, <3>5 DEF Numbered
  <2> QED
    BY <1>1, <2>3, <2>4
<1>5. \A z \in Sides : Numbered(wire'[z], in'[z].seqno, out'[Other(z)].seqno)
  BY <1>1, <1>3, <1>4
<1> QED
  BY <1>5 DEF InSequence

-----------------------------------------------------------------------------
(* What a step writes, and what it leaves of the ciphers.                  *)

SealedBy(u, msgs, keys, zip) ==
    /\ u \in Seq(OnWire) /\ Len(u) = Len(msgs)
    /\ \A k \in 1..Len(msgs) : u[k].type = msgs[k].type /\ u[k].keys = keys /\ u[k].zip = zip

KeptCiphers ==
    \A y \in Sides : /\ in'[y].keys = in[y].keys /\ in'[y].zip = in[y].zip
                     /\ out'[y].keys = out[y].keys /\ out'[y].zip = out[y].zip

LEMMA Sealing ==
    ASSUME NEW c \in Ciphers, NEW msgs \in Seq(Letters)
    PROVE  /\ SealedBy(Sealed(c, msgs), msgs, c.keys, c.zip)
           /\ \A k \in 1..Len(msgs) : Sealed(c, msgs)[k].seqno = (c.seqno + (k - 1)) % SeqMod
<1>1. Sealed(c, msgs) \in Seq(OnWire) /\ Len(Sealed(c, msgs)) = Len(msgs)
  BY Seals
<1>2. \A k \in 1..Len(msgs) : /\ Sealed(c, msgs)[k].type = msgs[k].type
                              /\ Sealed(c, msgs)[k].keys = c.keys /\ Sealed(c, msgs)[k].zip = c.zip
                              /\ Sealed(c, msgs)[k].seqno = (c.seqno + k - 1) % SeqMod
  BY DEF Sealed
<1>3. \A k \in 1..Len(msgs) : c.seqno + k - 1 = c.seqno + (k - 1)
  BY DEF Ciphers
<1>4. \A k \in 1..Len(msgs) : Sealed(c, msgs)[k].seqno = (c.seqno + (k - 1)) % SeqMod
  BY <1>2, <1>3
<1> HIDE DEF Sealed
<1> QED
  BY <1>1, <1>2, <1>4 DEF SealedBy

LEMMA Counting ==
    ASSUME NEW c \in Ciphers, NEW n
    PROVE  /\ After(c, n).keys = c.keys /\ After(c, n).zip = c.zip
           /\ After(c, n).seqno = (c.seqno + n) % SeqMod
BY DEF After, Ciphers

LEMMA Transmitting ==
    ASSUME LinksTyped, NEW x \in Sides, NEW msgs \in Seq(Letters), Transmit(x, msgs), in' = in
    PROVE  /\ KeptCiphers
           /\ \E u : Flows(x, u, 0) /\ SealedBy(u, msgs, out[x].keys, out[x].zip)
<1> DEFINE u == Sealed(out[x], msgs)
<1>1. /\ out[x] \in Ciphers /\ in[x] \in Ciphers /\ Other(x) \in Sides /\ Other(x) # x
      /\ in[x].seqno \in 0..(SeqMod - 1)
  BY DEF LinksTyped, Sides, Other, Ciphers
<1>2. /\ SealedBy(u, msgs, out[x].keys, out[x].zip) /\ u \in Seq(OnWire) /\ Len(u) = Len(msgs)
      /\ \A k \in 1..Len(msgs) : u[k].seqno = (out[x].seqno + (k - 1)) % SeqMod
  BY <1>1, Sealing DEF SealedBy
<1>3. /\ wire' = [wire EXCEPT ![Other(x)] = @ \o u] /\ out' = [out EXCEPT ![x] = After(@, Len(msgs))]
  BY DEF Transmit
<1> HIDE DEF u
<1>4. /\ wire'[Other(x)] = wire[Other(x)] \o u /\ wire'[x] = wire[x]
      /\ out'[Other(x)] = out[Other(x)] /\ out'[x] = After(out[x], Len(msgs))
  BY <1>1, <1>3 DEF LinksTyped
<1>5. /\ out'[x].keys = out[x].keys /\ out'[x].zip = out[x].zip
      /\ out'[x].seqno = (out[x].seqno + Len(u)) % SeqMod
  BY <1>1, <1>2, <1>4, Counting
<1>6. in'[x].seqno = (in[x].seqno + 0) % SeqMod
  BY <1>1, InRange
<1>7. Flows(x, u, 0)
  <2>1. 0 \in {0, 1} /\ 0 # 1
    OBVIOUS
  <2> QED
    BY <1>2, <1>4, <1>5, <1>6, <2>1 DEF Flows
<1>8. KeptCiphers
  BY <1>4, <1>5 DEF KeptCiphers, Sides, Other
<1> QED
  BY <1>2, <1>7, <1>8

LEMMA Answering ==
    ASSUME LinksTyped, NEW x \in Sides, NEW msgs \in Seq(Letters), wire[x] # <<>>, Answer(x, msgs)
    PROVE  /\ KeptCiphers
           /\ \E u : Flows(x, u, 1) /\ SealedBy(u, msgs, out[x].keys, out[x].zip)
<1> DEFINE u == Sealed(out[x], msgs)
<1>1. out[x] \in Ciphers /\ in[x] \in Ciphers /\ Other(x) \in Sides /\ Other(x) # x
  BY DEF LinksTyped, Sides, Other
<1>2. /\ SealedBy(u, msgs, out[x].keys, out[x].zip) /\ u \in Seq(OnWire) /\ Len(u) = Len(msgs)
      /\ \A k \in 1..Len(msgs) : u[k].seqno = (out[x].seqno + (k - 1)) % SeqMod
  BY <1>1, Sealing DEF SealedBy
<1>3. /\ wire' = [wire EXCEPT ![x] = Tail(@), ![Other(x)] = @ \o u]
      /\ out' = [out EXCEPT ![x] = After(@, Len(msgs))] /\ in' = [in EXCEPT ![x] = After(@, 1)]
  BY DEF Answer
<1> HIDE DEF u
<1>4. /\ wire'[Other(x)] = wire[Other(x)] \o u /\ wire'[x] = Tail(wire[x])
      /\ out'[Other(x)] = out[Other(x)] /\ out'[x] = After(out[x], Len(msgs))
      /\ in'[Other(x)] = in[Other(x)] /\ in'[x] = After(in[x], 1)
  BY <1>1, <1>3 DEF LinksTyped
<1>5. /\ out'[x].keys = out[x].keys /\ out'[x].zip = out[x].zip
      /\ out'[x].seqno = (out[x].seqno + Len(u)) % SeqMod
  BY <1>1, <1>2, <1>4, Counting
<1>6. /\ in'[x].keys = in[x].keys /\ in'[x].zip = in[x].zip
      /\ in'[x].seqno = (in[x].seqno + 1) % SeqMod
  BY <1>1, <1>4, Counting
<1>7. Flows(x, u, 1)
  BY <1>2, <1>4, <1>5, <1>6 DEF Flows
<1>8. KeptCiphers
  BY <1>4, <1>5, <1>6 DEF KeptCiphers, Sides, Other
<1> QED
  BY <1>2, <1>7, <1>8

\* Two lots of packets, the second numbered on from the first.
LEMMA NumberedOn ==
    ASSUME NEW v \in Seq(OnWire), NEW u \in Seq(OnWire), NEW n \in Nat
    PROVE  /\ \A k \in 1..Len(v) : v[k].seqno = (n + (k - 1)) % SeqMod
           /\ \A k \in 1..Len(u) : u[k].seqno = (((n + Len(v)) % SeqMod) + (k - 1)) % SeqMod
           => \A k \in 1..Len(v \o u) : (v \o u)[k].seqno = (n + (k - 1)) % SeqMod
<1>1. /\ Len(v \o u) = Len(v) + Len(u)
      /\ \A k \in 1..Len(v) : (v \o u)[k] = v[k]
      /\ \A k \in 1..Len(u) : (v \o u)[Len(v) + k] = u[k]
      /\ \A k \in 1..Len(v \o u) : k \in 1..Len(v) \/ \E i \in 1..Len(u) : k = Len(v) + i
  BY Writing
<1>a. SUFFICES ASSUME \A k \in 1..Len(v) : v[k].seqno = (n + (k - 1)) % SeqMod,
                      \A k \in 1..Len(u) : u[k].seqno = (((n + Len(v)) % SeqMod) + (k - 1)) % SeqMod
               PROVE  \A k \in 1..Len(v \o u) : (v \o u)[k].seqno = (n + (k - 1)) % SeqMod
  OBVIOUS
<1>2. PICK a \in Nat, b \in Nat : a = Len(v) /\ b = Len(u)
  OBVIOUS
<1>3. ASSUME NEW i \in 1..Len(u)
      PROVE  (v \o u)[Len(v) + i].seqno = (n + ((Len(v) + i) - 1)) % SeqMod
  <2>1. n + a \in Nat /\ i - 1 \in Nat /\ (n + a) + (i - 1) = n + ((a + i) - 1)
    BY <1>2
  <2>2. (((n + a) % SeqMod) + (i - 1)) % SeqMod = ((n + a) + (i - 1)) % SeqMod
    BY <2>1, WrapsOn
  <2>3. u[i].seqno = (((n + a) % SeqMod) + (i - 1)) % SeqMod
    BY <1>a, <1>2
  <2>4. u[i].seqno = (n + ((a + i) - 1)) % SeqMod
    BY <2>1, <2>2, <2>3
  <2> QED
    BY <1>1, <1>2, <2>4
<1> QED
  BY <1>a, <1>1, <1>3

LEMMA Joined ==
    ASSUME NEW w \in Seq(OnWire), NEW v \in Seq(OnWire), NEW u \in Seq(OnWire)
    PROVE  (w \o v) \o u = w \o (v \o u)
BY ConcatAssociative

LEMMA Completing ==
    ASSUME Typed, NEW x \in Sides, NEW read \in {0, 1}, read = 1 => wire[x] # <<>>,
           NEW last \in Seq(Letters), CompleteHandshake(x, read, last)
    PROVE  /\ \E v, u : /\ Flows(x, v \o u, read)
                        /\ SealedBy(v, last, out[x].keys, out[x].zip)
                        /\ SealedBy(u, queue[x], kex[x].hash, StartedZip(x, WriteSlot(x)))
           /\ out'[x].keys = kex[x].hash /\ out'[x].zip = StartedZip(x, WriteSlot(x))
           /\ in'[x].keys = kex[x].hash /\ in'[x].zip = StartedZip(x, ReadSlot(x))
           /\ out'[Other(x)] = out[Other(x)] /\ in'[Other(x)] = in[Other(x)]
           /\ queue' = [queue EXCEPT ![x] = <<>>]
<1> DEFINE old == After(out[x], Len(last))
<1> DEFINE new == NewCipher(old, x, WriteSlot(x))
<1> DEFINE q == queue[x]
<1> DEFINE v == Sealed(out[x], last)
<1> DEFINE u == Drained(x, new)
<1>1. /\ out[x] \in Ciphers /\ in[x] \in Ciphers /\ Other(x) \in Sides /\ Other(x) # x
      /\ wire[Other(x)] \in Seq(OnWire) /\ wire[x] \in Seq(OnWire) /\ q \in Seq(Queued)
      /\ kex[x].hash \in Hashes /\ out[x].seqno \in Nat /\ read \in Nat
  BY DEF Typed, Sides, Other, Exchanges, Ciphers
<1>2. \A slot : StartedZip(x, slot) \in Zips
  <2>1. Plain \in Zips /\ [by |-> "kex", keys |-> kex[x].hash] \in Zips
    BY <1>1, InitialValues DEF Plain, Zips
  <2> QED
    BY <2>1 DEF StartedZip
<1>3. \A c \in Ciphers : \A slot :
         /\ NewCipher(c, x, slot) \in Ciphers /\ NewCipher(c, x, slot).keys = kex[x].hash
         /\ NewCipher(c, x, slot).zip = StartedZip(x, slot) /\ NewCipher(c, x, slot).seqno = c.seqno
  BY <1>1, <1>2 DEF NewCipher, Ciphers
<1>4. Len(last) \in Nat /\ Len(q) \in Nat /\ q \in Seq(Letters)
  BY <1>1, QueueQuiet
<1>5. /\ old \in Ciphers /\ old.seqno = (out[x].seqno + Len(last)) % SeqMod
      /\ After(in[x], read) \in Ciphers /\ After(in[x], read).seqno = (in[x].seqno + read) % SeqMod
  <2>1. old \in Ciphers /\ After(in[x], read) \in Ciphers
    BY <1>1, <1>4, Counts
  <2>2. /\ old.seqno = (out[x].seqno + Len(last)) % SeqMod
        /\ After(in[x], read).seqno = (in[x].seqno + read) % SeqMod
    BY <1>1, Counting
  <2> QED
    BY <2>1, <2>2
<1>6. /\ wire' = [wire EXCEPT ![x] = SubSeq(@, read + 1, Len(@)), ![Other(x)] = (@ \o v) \o u]
      /\ out' = [out EXCEPT ![x] = After(new, Len(q))]
      /\ in' = [in EXCEPT ![x] = NewCipher(After(@, read), x, ReadSlot(x))]
      /\ queue' = [queue EXCEPT ![x] = <<>>]
  BY DEF CompleteHandshake
<1> HIDE DEF old
<1>7. /\ new \in Ciphers /\ new.keys = kex[x].hash /\ new.zip = StartedZip(x, WriteSlot(x))
      /\ new.seqno = (out[x].seqno + Len(last)) % SeqMod
  BY <1>3, <1>5
<1>8. u = Sealed(new, q)
  BY DEF Drained
<1> HIDE DEF new
<1>9. /\ SealedBy(v, last, out[x].keys, out[x].zip) /\ v \in Seq(OnWire) /\ Len(v) = Len(last)
      /\ \A k \in 1..Len(last) : v[k].seqno = (out[x].seqno + (k - 1)) % SeqMod
  BY <1>1, Sealing DEF SealedBy
<1>10. /\ SealedBy(u, q, kex[x].hash, StartedZip(x, WriteSlot(x))) /\ u \in Seq(OnWire) /\ Len(u) = Len(q)
       /\ \A k \in 1..Len(q) : u[k].seqno = (((out[x].seqno + Len(last)) % SeqMod) + (k - 1)) % SeqMod
  <2>1. /\ SealedBy(u, q, new.keys, new.zip)
        /\ \A k \in 1..Len(q) : u[k].seqno = (new.seqno + (k - 1)) % SeqMod
    BY <1>4, <1>7, <1>8, Sealing
  <2>2. SealedBy(u, q, kex[x].hash, StartedZip(x, WriteSlot(x)))
    BY <1>7, <2>1
  <2> QED
    BY <1>7, <2>1, <2>2 DEF SealedBy
<1> HIDE DEF u, v
<1>11. /\ \A k \in 1..Len(v \o u) : (v \o u)[k].seqno = (out[x].seqno + (k - 1)) % SeqMod
       /\ Len(v \o u) = Len(last) + Len(q) /\ v \o u \in Seq(OnWire)
  <2>1. /\ \A k \in 1..Len(v) : v[k].seqno = (out[x].seqno + (k - 1)) % SeqMod
        /\ \A k \in 1..Len(u) : u[k].seqno = (((out[x].seqno + Len(v)) % SeqMod) + (k - 1)) % SeqMod
    BY <1>9, <1>10
  <2>2. \A k \in 1..Len(v \o u) : (v \o u)[k].seqno = (out[x].seqno + (k - 1)) % SeqMod
    BY <1>1, <1>9, <1>10, <2>1, NumberedOn
  <2>3. Len(v \o u) = Len(v) + Len(u) /\ v \o u \in Seq(OnWire)
    BY <1>9, <1>10, Writing, Zenon
  <2> QED
    BY <1>9, <1>10, <2>2, <2>3
<1>12. /\ wire'[x] = SubSeq(wire[x], read + 1, Len(wire[x])) /\ wire'[Other(x)] = (wire[Other(x)] \o v) \o u
       /\ out'[Other(x)] = out[Other(x)] /\ in'[Other(x)] = in[Other(x)]
       /\ out'[x] = After(new, Len(q)) /\ in'[x] = NewCipher(After(in[x], read), x, ReadSlot(x))
  BY <1>1, <1>6 DEF Typed
<1>13. wire'[x] = IF read = 1 THEN Tail(wire[x]) ELSE wire[x]
  <2> DEFINE w == wire[x]
  <2>1. w \in Seq(OnWire) /\ (read = 1 => w # <<>>)
    BY <1>1
  <2> HIDE DEF w
  <2>2. CASE read = 1
    BY <1>12, <2>1, <2>2 DEF w
  <2>3. CASE read = 0
    <3>1. SubSeq(w, 0 + 1, Len(w)) = w
      BY <2>1
    <3> QED
      BY <1>12, <2>3, <3>1 DEF w
  <2> QED
    BY <2>2, <2>3
<1>14. wire'[Other(x)] = wire[Other(x)] \o (v \o u)
  <2>1. (wire[Other(x)] \o v) \o u = wire[Other(x)] \o (v \o u)
    <3> DEFINE w == wire[Other(x)]
    <3>1. w \in Seq(OnWire) /\ v \in Seq(OnWire) /\ u \in Seq(OnWire)
      BY <1>1, <1>9, <1>10
    <3> HIDE DEF w
    <3>2. (w \o v) \o u = w \o (v \o u)
      BY <3>1, Joined
    <3> QED
      BY <3>2 DEF w
  <2> QED
    BY <1>12, <2>1
<1>15. /\ out'[x].keys = kex[x].hash /\ out'[x].zip = StartedZip(x, WriteSlot(x))
       /\ out'[x].seqno = (out[x].seqno + Len(v \o u)) % SeqMod
  <2>1. /\ out'[x].keys = new.keys /\ out'[x].zip = new.zip
        /\ out'[x].seqno = (new.seqno + Len(q)) % SeqMod
    BY <1>7, <1>12, Counting
  <2>2. PICK a \in Nat, b \in Nat : a = Len(last) /\ b = Len(q)
    BY <1>4
  <2>3. PICK n \in Nat : n = out[x].seqno
    BY <1>1
  <2>4. n + a \in Nat /\ (n + a) + b = n + (a + b)
    OBVIOUS
  <2>5. (((n + a) % SeqMod) + b) % SeqMod = (n + (a + b)) % SeqMod
    BY <2>4, WrapsOn
  <2> QED
    BY <1>7, <1>11, <2>1, <2>2, <2>3, <2>5
<1>16. /\ in'[x].keys = kex[x].hash /\ in'[x].zip = StartedZip(x, ReadSlot(x))
       /\ in'[x].seqno = (in[x].seqno + read) % SeqMod
  BY <1>3, <1>5, <1>12
<1>17. Flows(x, v \o u, read)
  <2>1. /\ out'[Other(x)].seqno = out[Other(x)].seqno /\ in'[Other(x)].seqno = in[Other(x)].seqno
    BY <1>12
  <2> QED
    BY <1>11, <1>13, <1>14, <1>15, <1>16, <2>1 DEF Flows
<1> QED
  BY <1>6, <1>9, <1>10, <1>12, <1>15, <1>16, <1>17

-----------------------------------------------------------------------------
(* The order of the packets, when one is read and when some are written.   *)

LEMMA ClientReads ==
    ASSUME NEW w \in Seq(OnWire), NEW n, NEW c, NEW s, NEW m, OrderToClient(w, n, c, s, m), w # <<>>,
           Head(w).type # "reply" \/ c # 2
    PROVE  OrderToClient(Tail(w), n, c, s, m)
<1>1. \A k \in 1..Len(Tail(w)) :
         /\ k + 1 \in 1..Len(w) /\ Tail(w)[k] = w[k + 1]
         /\ \A t : Behind(w, t, k + 1) <=> Behind(Tail(w), t, k) \/ Head(w).type = t
  BY Reading
<1>2. SUFFICES ASSUME NEW k \in 1..Len(Tail(w)), Live(w[k + 1])
               PROVE  /\ w[k + 1].keys = <<n, n>>
                      /\ w[k + 1].type \notin {"dhinit", "request"}
                      /\ ~(c \in {0, 1, 4} /\ s = 3)
                      /\ w[k + 1].type \in {"app", "success"} =>
                            c \in {0, 1} /\ m = "normal" /\ ~Behind(w, "kexinit", k + 1)
                      /\ ~Behind(w, "newkeys", k + 1)
                      /\ w[k + 1].type = "newkeys" /\ c = 2 => Behind(w, "reply", k + 1)
  BY <1>1 DEF OrderToClient
<1>3. k + 1 \in 1..Len(w)
  BY <1>1
<1> QED
  BY <1>2, <1>3 DEF OrderToClient

\* What may be written behind w to the client.
MayFollow(w, u, n, c, s, m) ==
    \A k \in 1..Len(u) : Live(u[k]) =>
        /\ u[k].keys = <<n, n>>
        /\ u[k].type \notin {"dhinit", "request"}
        /\ ~(c \in {0, 1, 4} /\ s = 3)
        /\ u[k].type \in {"app", "success"} =>
              c \in {0, 1} /\ m = "normal" /\ ~Has(w, "kexinit", 0) /\ ~Behind(u, "kexinit", k)
        /\ ~Has(w, "newkeys", 0) /\ ~Behind(u, "newkeys", k)
        /\ u[k].type = "newkeys" /\ c = 2 => Has(w, "reply", 0) \/ Behind(u, "reply", k)

LEMMA ClientGets ==
    ASSUME NEW w \in Seq(OnWire), NEW u \in Seq(OnWire), NEW n, NEW c, NEW s, NEW m,
           OrderToClient(w, n, c, s, m), MayFollow(w, u, n, c, s, m)
    PROVE  OrderToClient(w \o u, n, c, s, m)
<1> DEFINE v == w \o u
<1>1. /\ \A k \in 1..Len(w) : v[k] = w[k] /\ \A t : Behind(v, t, k) <=> Behind(w, t, k)
      /\ \A k \in 1..Len(u) : /\ v[Len(w) + k] = u[k]
                              /\ \A t : Behind(v, t, Len(w) + k) <=> Has(w, t, 0) \/ Behind(u, t, k)
      /\ \A k \in 1..Len(v) : k \in 1..Len(w) \/ \E i \in 1..Len(u) : k = Len(w) + i
  BY Writing
<1> HIDE DEF v
<1> DEFINE Fine(k) == Live(v[k]) =>
        /\ v[k].keys = <<n, n>>
        /\ v[k].type \notin {"dhinit", "request"}
        /\ ~(c \in {0, 1, 4} /\ s = 3)
        /\ v[k].type \in {"app", "success"} => c \in {0, 1} /\ m = "normal" /\ ~Behind(v, "kexinit", k)
        /\ ~Behind(v, "newkeys", k)
        /\ v[k].type = "newkeys" /\ c = 2 => Behind(v, "reply", k)
<1>2. \A k \in 1..Len(w) : Fine(k)
  BY <1>1 DEF OrderToClient
<1>3. ASSUME NEW i \in 1..Len(u) PROVE Fine(Len(w) + i)
  <2> DEFINE p == Len(w) + i
  <2>1. v[p] = u[i]
    BY <1>1
  <2>2. /\ Behind(v, "newkeys", p) <=> Has(w, "newkeys", 0) \/ Behind(u, "newkeys", i)
        /\ Behind(v, "kexinit", p) <=> Has(w, "kexinit", 0) \/ Behind(u, "kexinit", i)
        /\ Behind(v, "reply", p) <=> Has(w, "reply", 0) \/ Behind(u, "reply", i)
    BY <1>1
  <2> HIDE DEF p
  <2>3. Fine(p)
    BY <2>1, <2>2 DEF MayFollow
  <2> QED
    BY <2>3 DEF p
<1>4. \A k \in 1..Len(v) : Fine(k)
  <2> HIDE DEF Fine
  <2> QED
    BY <1>1, <1>2, <1>3
<1>5. OrderToClient(v, n, c, s, m)
  BY <1>4 DEF OrderToClient
<1> QED
  BY <1>5 DEF v

LEMMA ServerReads ==
    ASSUME NEW w \in Seq(OnWire), NEW n, NEW new, NEW c, NEW s, NEW m, NEW d \in {0, 1}, NEW e \in {0},
           OrderToServer(w, n, new, c, s, m, d), w # <<>>, Head(w).type \notin {"kexinit", "newkeys"}
    PROVE  OrderToServer(Tail(w), n, new, c, s, m, e)
<1>1. /\ \A k \in 1..Len(Tail(w)) :
            /\ k + 1 \in 1..Len(w) /\ Tail(w)[k] = w[k + 1]
            /\ \A t : Behind(w, t, k + 1) <=> Behind(Tail(w), t, k) \/ Head(w).type = t
      /\ \A t : Has(w, t, 0) <=> Has(Tail(w), t, 0) \/ Head(w).type = t
  BY Reading
<1>2. ASSUME NEW k \in 1..Len(Tail(w)), Live(w[k + 1])
      PROVE  /\ w[k + 1].keys = IF Behind(w, "newkeys", k + 1) THEN <<new, new>> ELSE <<n, n>>
             /\ w[k + 1].type \notin {"reply", "success"}
             /\ w[k + 1].type \in {"app", "request"} =>
                   (s \in {0, 1} /\ m = "normal") \/ Behind(w, "newkeys", k + 1)
             /\ w[k + 1].type = "kexinit" /\ s = 3 => Behind(w, "newkeys", k + 1)
             /\ w[k + 1].type \in {"app", "request", "newkeys"} => ~Behind(w, "kexinit", k + 1)
             /\ w[k + 1].type = "dhinit" /\ s = 1 => Behind(w, "kexinit", k + 1)
  <2>1. k + 1 \in 1..Len(w)
    BY <1>1
  <2>2. k + 1 > d
    OBVIOUS
  <2> QED
    BY <1>2, <2>1, <2>2 DEF OrderToServer, ServerExpects
<1>3. ServerExpects(Tail(w), n, new, s, m, e)
  <2>1. SUFFICES ASSUME NEW k \in 1..Len(Tail(w)), Live(Tail(w)[k])
                 PROVE  /\ Tail(w)[k].keys = IF Behind(Tail(w), "newkeys", k) THEN <<new, new>> ELSE <<n, n>>
                        /\ Tail(w)[k].type \notin {"reply", "success"}
                        /\ Tail(w)[k].type \in {"app", "request"} =>
                              (s \in {0, 1} /\ m = "normal") \/ Behind(Tail(w), "newkeys", k)
                        /\ Tail(w)[k].type = "kexinit" /\ s = 3 => Behind(Tail(w), "newkeys", k)
                        /\ Tail(w)[k].type \in {"app", "request", "newkeys"} => ~Behind(Tail(w), "kexinit", k)
                        /\ Tail(w)[k].type = "dhinit" /\ s = 1 => Behind(Tail(w), "kexinit", k)
    BY DEF ServerExpects
  <2>2. /\ Tail(w)[k] = w[k + 1]
        /\ Behind(w, "newkeys", k + 1) <=> Behind(Tail(w), "newkeys", k)
        /\ Behind(w, "kexinit", k + 1) <=> Behind(Tail(w), "kexinit", k)
    BY <1>1
  <2> QED
    BY <1>2, <2>1, <2>2
<1>4. /\ Has(w, "newkeys", 0) => Has(Tail(w), "newkeys", 0)
      /\ Has(w, "kexinit", 0) => Has(Tail(w), "kexinit", 0)
  BY <1>1
<1> QED
  BY <1>3, <1>4 DEF OrderToServer

\* What may be written behind w to the server.
MayFollowToServer(w, u, n, new, s, m) ==
    \A k \in 1..Len(u) : Live(u[k]) =>
        /\ u[k].keys = IF Has(w, "newkeys", 0) \/ Behind(u, "newkeys", k) THEN <<new, new>> ELSE <<n, n>>
        /\ u[k].type \notin {"reply", "success"}
        /\ u[k].type \in {"app", "request"} =>
              (s \in {0, 1} /\ m = "normal") \/ Has(w, "newkeys", 0) \/ Behind(u, "newkeys", k)
        /\ u[k].type = "kexinit" /\ s = 3 => Has(w, "newkeys", 0) \/ Behind(u, "newkeys", k)
        /\ u[k].type \in {"app", "request", "newkeys"} => ~Has(w, "kexinit", 0) /\ ~Behind(u, "kexinit", k)
        /\ u[k].type = "dhinit" /\ s = 1 => Has(w, "kexinit", 0) \/ Behind(u, "kexinit", k)

LEMMA ServerGets ==
    ASSUME NEW w \in Seq(OnWire), NEW u \in Seq(OnWire), NEW n, NEW new, NEW s, NEW m, NEW d \in Nat,
           ServerExpects(w, n, new, s, m, d), MayFollowToServer(w, u, n, new, s, m)
    PROVE  ServerExpects(w \o u, n, new, s, m, d)
<1> DEFINE v == w \o u
<1>1. /\ \A k \in 1..Len(w) : v[k] = w[k] /\ \A t : Behind(v, t, k) <=> Behind(w, t, k)
      /\ \A k \in 1..Len(u) : /\ v[Len(w) + k] = u[k]
                              /\ \A t : Behind(v, t, Len(w) + k) <=> Has(w, t, 0) \/ Behind(u, t, k)
      /\ \A k \in 1..Len(v) : k \in 1..Len(w) \/ \E i \in 1..Len(u) : k = Len(w) + i
  <2>1. \A k \in 1..Len(w) : v[k] = w[k] /\ \A t : Behind(v, t, k) <=> Behind(w, t, k)
    BY Writing
  <2>2. \A k \in 1..Len(u) : v[Len(w) + k] = u[k]
    BY Writing
  <2>3. \A k \in 1..Len(u) : \A t : Behind(v, t, Len(w) + k) <=> Has(w, t, 0) \/ Behind(u, t, k)
    BY Writing
  <2>4. \A k \in 1..Len(v) : k \in 1..Len(w) \/ \E i \in 1..Len(u) : k = Len(w) + i
    <3>1. Len(v) = Len(w) + Len(u) /\ Len(w) \in Nat /\ Len(u) \in Nat
      BY Writing
    <3> HIDE DEF v
    <3>2. SUFFICES ASSUME NEW k \in 1..Len(v), k \notin 1..Len(w)
                   PROVE  k - Len(w) \in 1..Len(u) /\ k = Len(w) + (k - Len(w))
      OBVIOUS
    <3> QED
      BY <3>1, <3>2
  <2> HIDE DEF v
  <2> QED
    BY <2>1, <2>2, <2>3, <2>4
<1> HIDE DEF v
<1> DEFINE Fine(k) == Live(v[k]) =>
        /\ v[k].keys = IF Behind(v, "newkeys", k) THEN <<new, new>> ELSE <<n, n>>
        /\ v[k].type \notin {"reply", "success"}
        /\ v[k].type \in {"app", "request"} => (s \in {0, 1} /\ m = "normal") \/ Behind(v, "newkeys", k)
        /\ v[k].type = "kexinit" /\ s = 3 => Behind(v, "newkeys", k)
        /\ v[k].type \in {"app", "request", "newkeys"} => ~Behind(v, "kexinit", k)
        /\ v[k].type = "dhinit" /\ k > d /\ s = 1 => Behind(v, "kexinit", k)
<1>2. \A k \in 1..Len(w) : Fine(k)
  BY <1>1 DEF ServerExpects
<1>3. ASSUME NEW i \in 1..Len(u) PROVE Fine(Len(w) + i)
  <2>1. v[Len(w) + i] = u[i]
    BY <1>1
  <2>2. /\ Behind(v, "newkeys", Len(w) + i) <=> Has(w, "newkeys", 0) \/ Behind(u, "newkeys", i)
        /\ Behind(v, "kexinit", Len(w) + i) <=> Has(w, "kexinit", 0) \/ Behind(u, "kexinit", i)
    BY <1>1
  <2> QED
    BY <2>1, <2>2 DEF MayFollowToServer
<1>4. \A k \in 1..Len(v) : Fine(k)
  <2> HIDE DEF Fine
  <2> QED
    BY <1>1, <1>2, <1>3
<1>5. ServerExpects(v, n, new, s, m, d)
  BY <1>4 DEF ServerExpects
<1> QED
  BY <1>5 DEF v

LEMMA ZipReads ==
    ASSUME NEW w \in Seq(OnWire), NEW z, NEW auth \in BOOLEAN, w # <<>>
    PROVE  /\ ZipToClient(w, z, auth) => ZipToClient(Tail(w), z, auth \/ Head(w).type = "success")
           /\ ZipToServer(w, z, auth) => ZipToServer(Tail(w), z, auth)
<1>1. \A k \in 1..Len(Tail(w)) :
         /\ k + 1 \in 1..Len(w) /\ Tail(w)[k] = w[k + 1]
         /\ Behind(w, "success", k + 1) <=> Behind(Tail(w), "success", k) \/ Head(w).type = "success"
  BY Reading
<1>2. ASSUME ZipToClient(w, z, auth) PROVE ZipToClient(Tail(w), z, auth \/ Head(w).type = "success")
  <2>1. SUFFICES ASSUME NEW k \in 1..Len(Tail(w)), Live(Tail(w)[k])
                 PROVE  Tail(w)[k].zip = ZipFor(z, Tail(w)[k].keys,
                            (auth \/ Head(w).type = "success") \/ Behind(Tail(w), "success", k))
    BY DEF ZipToClient
  <2>2. w[k + 1].zip = ZipFor(z, w[k + 1].keys, auth \/ Behind(w, "success", k + 1))
    BY <1>1, <1>2, <2>1 DEF ZipToClient
  <2>3. (auth \/ Behind(w, "success", k + 1))
          = ((auth \/ Head(w).type = "success") \/ Behind(Tail(w), "success", k))
    BY <1>1
  <2> QED
    BY <1>1, <2>2, <2>3
<1>3. ASSUME ZipToServer(w, z, auth) PROVE ZipToServer(Tail(w), z, auth)
  BY <1>1, <1>3 DEF ZipToServer
<1> QED
  BY <1>2, <1>3

LEMMA ZipGets ==
    ASSUME NEW w \in Seq(OnWire), NEW u \in Seq(OnWire), NEW z, NEW auth \in BOOLEAN
    PROVE  /\ ZipToClient(w, z, auth)
              /\ (\A k \in 1..Len(u) : Live(u[k]) =>
                     u[k].zip = ZipFor(z, u[k].keys, auth \/ Has(w, "success", 0) \/ Behind(u, "success", k)))
              => ZipToClient(w \o u, z, auth)
           /\ ZipToServer(w, z, auth) /\ (\A k \in 1..Len(u) : Live(u[k]) => u[k].zip = ZipFor(z, u[k].keys, auth))
              => ZipToServer(w \o u, z, auth)
<1> DEFINE v == w \o u
<1>1. /\ \A k \in 1..Len(w) : v[k] = w[k] /\ \A t : Behind(v, t, k) <=> Behind(w, t, k)
      /\ \A k \in 1..Len(u) : /\ v[Len(w) + k] = u[k]
                              /\ \A t : Behind(v, t, Len(w) + k) <=> Has(w, t, 0) \/ Behind(u, t, k)
      /\ \A k \in 1..Len(v) : k \in 1..Len(w) \/ \E i \in 1..Len(u) : k = Len(w) + i
  BY Writing
<1> HIDE DEF v
<1>2. ASSUME ZipToClient(w, z, auth),
             \A k \in 1..Len(u) : Live(u[k]) =>
                 u[k].zip = ZipFor(z, u[k].keys, auth \/ Has(w, "success", 0) \/ Behind(u, "success", k))
      PROVE  ZipToClient(v, z, auth)
  <2> DEFINE Fine(k) == Live(v[k]) => v[k].zip = ZipFor(z, v[k].keys, auth \/ Behind(v, "success", k))
  <2>1. ASSUME NEW k \in 1..Len(w) PROVE Fine(k)
    <3>1. (auth \/ Behind(v, "success", k)) = (auth \/ Behind(w, "success", k))
      BY <1>1
    <3> QED
      BY <1>1, <1>2, <3>1 DEF ZipToClient
  <2>2. ASSUME NEW i \in 1..Len(u) PROVE Fine(Len(w) + i)
    <3>1. (auth \/ Behind(v, "success", Len(w) + i)) = (auth \/ Has(w, "success", 0) \/ Behind(u, "success", i))
      BY <1>1
    <3> QED
      BY <1>1, <1>2, <3>1
  <2>3. \A k \in 1..Len(v) : Fine(k)
    <3> HIDE DEF Fine
    <3> QED
      BY <1>1, <2>1, <2>2
  <2> QED
    BY <2>3 DEF ZipToClient
<1>3. ASSUME ZipToServer(w, z, auth), \A k \in 1..Len(u) : Live(u[k]) => u[k].zip = ZipFor(z, u[k].keys, auth)
      PROVE  ZipToServer(v, z, auth)
  <2> DEFINE Fine(k) == Live(v[k]) => v[k].zip = ZipFor(z, v[k].keys, auth)
  <2>1. \A k \in 1..Len(w) : Fine(k)
    BY <1>1, <1>3 DEF ZipToServer
  <2>2. \A i \in 1..Len(u) : Fine(Len(w) + i)
    BY <1>1, <1>3
  <2>3. \A k \in 1..Len(v) : Fine(k)
    <3> HIDE DEF Fine
    <3> QED
      BY <1>1, <2>1, <2>2
  <2> QED
    BY <2>3 DEF ZipToServer
<1> QED
  BY <1>2, <1>3 DEF v

\* Silence, and the place of the request, likewise.
LEMMA SilenceReads ==
    ASSUME NEW w \in Seq(OnWire), NEW auth, w # <<>>
    PROVE  /\ NothingTo(w) => NothingTo(Tail(w))
           /\ AskedOn(w, auth) => AskedOn(Tail(w), auth)
           /\ AskedOn(w, auth) /\ Head(w).type = "request" /\ ~auth => NothingTo(Tail(w))
<1>1. \A k \in 1..Len(Tail(w)) :
         /\ k + 1 \in 1..Len(w) /\ Tail(w)[k] = w[k + 1]
         /\ \A t : Behind(w, t, k + 1) <=> Behind(Tail(w), t, k) \/ Head(w).type = t
  BY Reading
<1> QED
  BY <1>1 DEF NothingTo, AskedOn

LEMMA SilenceGets ==
    ASSUME NEW w \in Seq(OnWire), NEW u \in Seq(OnWire), NEW auth
    PROVE  /\ NothingTo(w) /\ NothingTo(u) => NothingTo(w \o u)
           /\ AskedOn(w, auth) /\ NothingTo(u) => AskedOn(w \o u, auth)
           /\ AskedOn(w, auth) /\ ~Has(w, "request", 0) /\ AskedOn(u, auth) => AskedOn(w \o u, auth)
<1> DEFINE v == w \o u
<1>1. /\ \A k \in 1..Len(w) : v[k] = w[k] /\ \A t : Behind(v, t, k) <=> Behind(w, t, k)
      /\ \A k \in 1..Len(u) : /\ v[Len(w) + k] = u[k]
                              /\ \A t : Behind(v, t, Len(w) + k) <=> Has(w, t, 0) \/ Behind(u, t, k)
      /\ \A k \in 1..Len(v) : k \in 1..Len(w) \/ \E i \in 1..Len(u) : k = Len(w) + i
  BY Writing
<1> HIDE DEF v
<1>2. NothingTo(w) /\ NothingTo(u) => NothingTo(v)
  BY <1>1 DEF NothingTo
<1> DEFINE Fine(k) == Live(v[k]) => ~Behind(v, "request", k) \/ auth
<1>3. AskedOn(w, auth) => \A k \in 1..Len(w) : Fine(k)
  BY <1>1 DEF AskedOn
<1>4. NothingTo(u) => \A i \in 1..Len(u) : Fine(Len(w) + i)
  BY <1>1 DEF NothingTo
<1>5. ~Has(w, "request", 0) /\ AskedOn(u, auth) => \A i \in 1..Len(u) : Fine(Len(w) + i)
  BY <1>1 DEF AskedOn
<1>6. (\A k \in 1..Len(w) : Fine(k)) /\ (\A i \in 1..Len(u) : Fine(Len(w) + i)) => \A k \in 1..Len(v) : Fine(k)
  <2> HIDE DEF Fine
  <2> QED
    BY <1>1
<1>7. (\A k \in 1..Len(v) : Fine(k)) => AskedOn(v, auth)
  BY DEF AskedOn
<1> HIDE DEF Fine
<1> QED
  BY <1>2, <1>3, <1>4, <1>5, <1>6, <1>7 DEF v

-----------------------------------------------------------------------------
(* What the phases say of the keys and of the modes.                       *)

LEMMA PhaseFacts ==
    ASSUME IInv
    PROVE  /\ Joint(C, S, cookies["client"], cookies["server"])
           /\ cookies["client"] \in Nat \ {0} /\ cookies["server"] \in Nat \ {0}
           /\ kexinit["client"] \in {0, cookies["client"]} /\ kexinit["server"] \in {0, cookies["server"]}
           /\ C \in {0, 1, 2, 3, 4} /\ S \in {0, 1, 2, 3}
           /\ (C = 0 <=> kexinit["client"] = 0) /\ (S = 0 <=> kexinit["server"] = 0)
           /\ (C \in {0, 1} <=> mode["client"] # "kex") /\ (S \in {0, 1} <=> mode["server"] # "kex")
<1>1. /\ Joint(C, S, cookies["client"], cookies["server"])
      /\ cookies["client"] > 0 /\ cookies["server"] > 0
      /\ cookies["client"] \in Nat /\ cookies["server"] \in Nat
      /\ kexinit["client"] \in {0, cookies["client"]} /\ kexinit["server"] \in {0, cookies["server"]}
      /\ mode["client"] = "kex" => kexinit["client"] # 0 /\ kex["client"].step > 0
      /\ mode["server"] = "kex" => kexinit["server"] # 0 /\ kex["server"].step > 0
      /\ kex["client"].step \in 0..3 /\ kex["server"].step \in 0..3
  BY DEF IInv, Phases, Typed, Exchanges, Sides
<1>2. C \in {0, 1, 2, 3, 4} /\ S \in {0, 1, 2, 3}
  BY <1>1 DEF Joint
<1>3. (C = 0 <=> kexinit["client"] = 0) /\ (C \in {0, 1} <=> mode["client"] # "kex")
  BY <1>1 DEF C, Phase
<1>4. (S = 0 <=> kexinit["server"] = 0) /\ (S \in {0, 1} <=> mode["server"] # "kex")
  BY <1>1 DEF S, Phase
<1> QED
  BY <1>1, <1>2, <1>3, <1>4

LEMMA Levels ==
    ASSUME IInv
    PROVE  /\ Level("client") \in Nat /\ Level("server") \in Nat
           /\ S # 3 \/ C \notin {0, 1} => Level("client") = Level("server")
           /\ S = 3 /\ C \in {0, 1} => Level("client") = cookies["server"]
           /\ Level("client") <= cookies["client"] /\ Level("server") <= cookies["server"]
           /\ kexinit["client"] # 0 => Level("client") = cookies["client"] - 1
           /\ kexinit["server"] # 0 => Level("server") = cookies["server"] - 1
<1>1. Level("client") = (IF C = 0 THEN cookies["client"] ELSE cookies["client"] - 1)
      /\ Level("server") = (IF S = 0 THEN cookies["server"] ELSE cookies["server"] - 1)
  BY PhaseFacts DEF Level
<1>2. /\ Joint(C, S, cookies["client"], cookies["server"])
      /\ cookies["client"] \in Nat \ {0} /\ cookies["server"] \in Nat \ {0}
      /\ (C = 0 <=> kexinit["client"] = 0) /\ (S = 0 <=> kexinit["server"] = 0)
  BY PhaseFacts
<1> QED
  BY <1>1, <1>2 DEF Joint

LEMMA Modes ==
    ASSUME IInv, SidesFine
    PROVE  /\ C \in {0, 1} /\ S \in {0, 3} => mode["client"] = "normal"
           /\ C = 0 /\ S \in {0, 1} => mode["server"] = "normal"
<1>1. /\ Joint(C, S, cookies["client"], cookies["server"])
      /\ cookies["client"] \in Nat \ {0} /\ cookies["server"] \in Nat \ {0}
      /\ (C = 0 <=> kexinit["client"] = 0) /\ (S = 0 <=> kexinit["server"] = 0)
      /\ (C \in {0, 1} <=> mode["client"] # "kex") /\ (S \in {0, 1} <=> mode["server"] # "kex")
  BY PhaseFacts
<1>2. /\ mode["client"] = "first" => kexinit["client"] # 0 /\ cookies["client"] = 1
      /\ mode["server"] = "first" => kexinit["server"] # 0 /\ cookies["server"] = 1
      /\ mode["client"] \in {"first", "kex", "normal"} /\ mode["server"] \in {"first", "kex", "normal"}
  BY DEF SidesFine, SideFine, IInv, Typed, Sides
<1> QED
  BY <1>1, <1>2 DEF Joint

\* The tables of both wires.
LEMMA Tables ==
    ASSUME IInv
    PROVE  /\ wire["client"] \in Seq(OnWire) /\ wire["server"] \in Seq(OnWire)
           /\ open["client"] => ToClient(wire["client"], C, S, cookies["server"], kex["server"].hash)
           /\ open["server"] => ToServer(wire["server"], C, S, cookies["client"],
                                         Guessed(guess, mode["server"], skip))
BY DEF IInv, Phases, Typed, Sides

\* What a side that is in no exchange writes is of its application or about the user.
Plainly(x, u) ==
    \A k \in 1..Len(u) : Live(u[k]) =>
        /\ kexinit[x] = 0 /\ u[k].keys = out[x].keys
        /\ u[k].type \in {"app", IF x = "client" THEN "request" ELSE "success"}

LEMMA PlainlyOnly ==
    ASSUME NEW x, NEW u, Plainly(x, u), NEW t \in {"kexinit", "newkeys", "reply", "dhinit"}
    PROVE  ~Has(u, t, 0) /\ \A k : ~Behind(u, t, k)
<1>1. ASSUME NEW k \in 1..Len(u), u[k].type = t PROVE FALSE
  BY <1>1 DEF Plainly, Live
<1> QED
  BY <1>1 DEF Has, Behind

\* Steps that change no phase leave what is under way in order.
LEMMA OrderKept ==
    ASSUME IInv, SidesFine, InOrder, NEW x \in Sides, NEW u, NEW r, Flows(x, u, r), Plainly(x, u),
           UNCHANGED <<kexinit, cookies, mode, guess>>, C' = C, S' = S,
           \A y \in Sides : open'[y] => open[y],
           skip' = skip \/ (x = "server" /\ r = 1),
           r = 1 /\ x = "client" /\ open'[x] => Head(wire[x]).type # "reply" \/ C # 2,
           r = 1 /\ x = "server" /\ open'[x] =>
               /\ Head(wire[x]).type \notin {"kexinit", "newkeys"}
               /\ Guessed(guess, mode["server"], skip) \in {0, 1}
               /\ Guessed(guess, mode["server"], skip)' = 0
    PROVE  InOrder'
<1> DEFINE c == wire["client"]
<1> DEFINE s == wire["server"]
<1> DEFINE d == Guessed(guess, mode["server"], skip)
<1>1. /\ x \in {"client", "server"} /\ Other("client") = "server" /\ Other("server") = "client"
      /\ (open'["client"] => open["client"]) /\ (open'["server"] => open["server"])
      /\ Level("client")' = Level("client") /\ Level("server")' = Level("server")
      /\ u \in Seq(OnWire) /\ c \in Seq(OnWire) /\ s \in Seq(OnWire) /\ r \in {0, 1}
      /\ mode' = mode /\ cookies' = cookies
  BY Tables DEF Sides, Other, Level, Flows
<1>2. /\ x = "client" => wire'["client"] = IF r = 1 THEN Tail(c) ELSE c
      /\ x = "client" => wire'["server"] = s \o u
      /\ x = "server" => wire'["server"] = IF r = 1 THEN Tail(s) ELSE s
      /\ x = "server" => wire'["client"] = c \o u
      /\ x = "client" /\ r = 1 => c # <<>>
      /\ x = "server" /\ r = 1 => s # <<>>
  BY <1>1 DEF Flows
<1>3. \A t \in {"kexinit", "newkeys", "reply", "dhinit"} : ~Has(u, t, 0) /\ \A k : ~Behind(u, t, k)
  BY PlainlyOnly
<1>4. out["client"].keys = <<Level("client"), Level("client")>>
      /\ out["server"].keys = <<Level("server"), Level("server")>>
  BY DEF SidesFine, SideFine
<1>5. ASSUME open'["client"] PROVE OrderToClient(wire'["client"], Level("client"), C, S, mode["client"])
  <2>1. /\ OrderToClient(c, Level("client"), C, S, mode["client"])
        /\ ToClient(c, C, S, cookies["server"], kex["server"].hash)
    BY <1>1, <1>5, Tables DEF InOrder
  <2> HIDE DEF c
  <2>2. CASE x = "client"
    <3>1. r = 1 => OrderToClient(Tail(c), Level("client"), C, S, mode["client"])
      BY <1>1, <1>2, <1>5, <2>1, <2>2, ClientReads DEF c
    <3> QED
      BY <1>2, <2>1, <2>2, <3>1
  <2>3. CASE x = "server"
    <3>1. MayFollow(c, u, Level("client"), C, S, mode["client"])
      <4>1. SUFFICES ASSUME NEW k \in 1..Len(u), Live(u[k])
                     PROVE  /\ u[k].keys = <<Level("client"), Level("client")>>
                            /\ u[k].type \in {"app", "success"} /\ C \in {0, 1} /\ S # 3
                            /\ mode["client"] = "normal" /\ ~Has(c, "kexinit", 0) /\ ~Has(c, "newkeys", 0)
        BY <1>3 DEF MayFollow
      <4>2. kexinit["server"] = 0 /\ u[k].keys = out["server"].keys /\ u[k].type \in {"app", "success"}
        BY <2>3, <4>1 DEF Plainly
      <4>3. S = 0 /\ C \in {0, 1}
        BY <4>2, PhaseFacts DEF Joint
      <4>4. Level("client") = Level("server") /\ mode["client"] = "normal"
        BY <4>3, Levels, Modes
      <4>5. ~Has(c, "kexinit", 0) /\ ~Has(c, "newkeys", 0)
        BY <2>1, <4>3 DEF ToClient
      <4> QED
        BY <1>4, <4>2, <4>3, <4>4, <4>5
    <3> QED
      BY <1>1, <1>2, <2>1, <2>3, <3>1, ClientGets DEF c
  <2> QED
    BY <1>1, <2>2, <2>3
<1>6. ASSUME open'["server"]
      PROVE  OrderToServer(wire'["server"], Level("server"), cookies["server"], C, S, mode["server"], d')
  <2>1. /\ OrderToServer(s, Level("server"), cookies["server"], C, S, mode["server"], d)
        /\ ToServer(s, C, S, cookies["client"], d)
    BY <1>1, <1>6, Tables DEF InOrder
  <2> HIDE DEF s
  <2>2. CASE x = "server" /\ r = 1
    <3>1. d \in {0, 1} /\ d' = 0 /\ Head(s).type \notin {"kexinit", "newkeys"} /\ s # <<>>
      BY <1>2, <1>6, <2>2 DEF s
    <3> HIDE DEF d
    <3>2. OrderToServer(Tail(s), Level("server"), cookies["server"], C, S, mode["server"], 0)
      BY <1>1, <2>1, <3>1, ServerReads DEF s
    <3> QED
      BY <1>2, <2>2, <3>1, <3>2
  <2>3. CASE x = "server" /\ r = 0
    <3>1. d' = d /\ wire'["server"] = s
      BY <1>2, <2>3 DEF Guessed
    <3> QED
      BY <2>1, <3>1
  <2>4. CASE x = "client"
    <3>1. d' = d /\ d \in Nat
      BY <2>4 DEF Guessed
    <3> HIDE DEF d
    <3>2. MayFollowToServer(s, u, Level("server"), cookies["server"], S, mode["server"])
      <4>1. SUFFICES ASSUME NEW k \in 1..Len(u), Live(u[k])
                     PROVE  /\ u[k].keys = IF Has(s, "newkeys", 0) THEN <<cookies["server"], cookies["server"]>>
                                           ELSE <<Level("server"), Level("server")>>
                            /\ u[k].type \in {"app", "request"} /\ ~Has(s, "kexinit", 0)
                            /\ (S \in {0, 1} /\ mode["server"] = "normal") \/ Has(s, "newkeys", 0)
        BY <1>3 DEF MayFollowToServer
      <4>2. kexinit["client"] = 0 /\ u[k].keys = out["client"].keys /\ u[k].type \in {"app", "request"}
        BY <2>4, <4>1 DEF Plainly
      <4>3. C = 0 /\ S \in {0, 1, 3}
        BY <4>2, PhaseFacts DEF Joint
      <4>4. /\ S = 3 => Level("client") = cookies["server"]
            /\ S # 3 => Level("client") = Level("server") /\ mode["server"] = "normal"
        BY <4>3, Levels, Modes
      <4>5. ~Has(s, "kexinit", 0) /\ (S = 3 <=> Has(s, "newkeys", 0))
        BY <2>1, <4>3 DEF ToServer, OrderToServer
      <4> QED
        BY <1>4, <4>2, <4>3, <4>4, <4>5
    <3>3. ServerExpects(s \o u, Level("server"), cookies["server"], S, mode["server"], d)
      BY <1>1, <2>1, <3>1, <3>2, ServerGets DEF OrderToServer, s
    <3>4. /\ \A t : Has(s, t, 0) => Has(s \o u, t, 0)
          /\ d = 2 => (s \o u)[1] = s[1]
      <4>1. \A t : Has(s, t, 0) => Has(s \o u, t, 0)
        BY <1>1, Writing DEF s
      <4>2. d = 2 => 1 \in 1..Len(s)
        <5>1. d <= Len(s) /\ Len(s) \in Nat
          BY <1>1, <2>1 DEF ToServer, s
        <5> QED
          BY <5>1
      <4>3. \A k \in 1..Len(s) : (s \o u)[k] = s[k]
        BY <1>1, Writing DEF s
      <4> QED
        BY <4>1, <4>2, <4>3
    <3> QED
      BY <1>2, <2>1, <2>4, <3>1, <3>3, <3>4 DEF OrderToServer
  <2> QED
    BY <1>1, <2>2, <2>3, <2>4
<1> QED
  BY <1>1, <1>5, <1>6 DEF InOrder

-----------------------------------------------------------------------------
(* What a step leaves as it is.                                            *)

LEMMA SidesKept ==
    ASSUME SidesFine,
           \A y \in Sides :
              /\ Level(y)' = Level(y)
              /\ in'[y].keys = in[y].keys /\ out'[y].keys = out[y].keys
              /\ mode'[y] = mode[y] \/ mode'[y] = "kex"
              /\ mode'[y] = "first" => kexinit'[y] = kexinit[y] /\ cookies'[y] = cookies[y]
              /\ kexinit'[y] = 0 => kexinit[y] = 0
              /\ session'[y] = session[y]
              /\ authenticated'[y] => authenticated[y] \/ Level(y) >= 1
              /\ auths'[y] => auths[y] \/ Level(y) >= 1
              /\ kex'[y].hash = kex[y].hash \/ kex'[y].hash # NoKeys
              /\ \/ queue'[y] = queue[y]
                 \/ queue'[y] = <<>>
                 \/ /\ kexinit'[y] # 0 /\ Level(y) >= 1
                    /\ \A i \in 1..Len(queue'[y]) :
                          queue'[y][i].type # IF y = "client" THEN "success" ELSE "request"
    PROVE  SidesFine'
<1>1. ASSUME NEW y \in Sides, SideFine(y) PROVE SideFine(y)'
  <2>1. /\ in'[y].keys = <<Level(y)', Level(y)'>> /\ out'[y].keys = <<Level(y)', Level(y)'>>
        /\ mode'[y] = "first" => kexinit'[y] # 0 /\ cookies'[y] = 1
        /\ Level(y)' >= 1 => kex'[y].hash # NoKeys
    BY <1>1 DEF SideFine
  <2>2. mode'[y] = "normal" \/ session'[y] # NoKeys \/ queue'[y] # <<>> \/ authenticated'[y] \/ auths'[y]
        => Level(y)' >= 1
    BY <1>1 DEF SideFine
  <2>3. /\ kexinit'[y] = 0 => queue'[y] = <<>>
        /\ \A i \in 1..Len(queue'[y]) : queue'[y][i].type # IF y = "client" THEN "success" ELSE "request"
    <3>1. CASE queue'[y] = queue[y]
      BY <1>1, <3>1 DEF SideFine
    <3>2. CASE queue'[y] = <<>>
      BY <3>2
    <3> QED
      BY <1>1, <3>1, <3>2
  <2> QED
    BY <2>1, <2>2, <2>3 DEF SideFine
<1>2. "client" \in Sides /\ "server" \in Sides
  BY DEF Sides
<1> QED
  BY <1>1, <1>2 DEF SidesFine

\* A step that changes no phase: x writes u and reads r packets.
Calm(x, u, r) ==
    /\ Flows(x, u, r) /\ Plainly(x, u)
    /\ UNCHANGED <<offer, kexinit, cookies, mode, guess, session, early>> /\ C' = C /\ S' = S
    /\ \A y \in Sides : /\ open'[y] => open[y]
                        /\ kex'[y].hash = kex[y].hash
                        /\ in'[y].keys = in[y].keys /\ out'[y].keys = out[y].keys
    /\ skip' = skip \/ (x = "server" /\ r = 1)
    /\ r = 1 /\ x = "client" /\ open'[x] => Head(wire[x]).type # "reply" \/ C # 2
    /\ r = 1 /\ x = "server" /\ open'[x] =>
          /\ Head(wire[x]).type \notin {"kexinit", "newkeys"}
          /\ Guessed(guess, mode["server"], skip) \in {0, 1}
          /\ Guessed(guess, mode["server"], skip)' = 0

LEMMA CalmKeeps ==
    ASSUME IInv, InSequence, SidesFine, InOrder, NEW x \in Sides, NEW u, NEW r, Calm(x, u, r)
    PROVE  /\ InSequence' /\ InOrder'
           /\ \A y \in Sides : /\ Level(y)' = Level(y)
                               /\ in'[y].keys = in[y].keys /\ out'[y].keys = out[y].keys
                               /\ mode'[y] = mode[y] /\ kexinit'[y] = kexinit[y] /\ cookies'[y] = cookies[y]
                               /\ session'[y] = session[y] /\ kex'[y].hash = kex[y].hash
<1>1. InSequence'
  <2>1. LinksTyped
    BY DEF IInv, Typed, LinksTyped
  <2> QED
    BY <2>1, FlowsOn DEF Calm
<1>2. InOrder'
  BY OrderKept DEF Calm
<1> QED
  BY <1>1, <1>2 DEF Calm, Level

\* What is known of the user when x writes u, none of it about the user.
LEMMA AuthKept ==
    ASSUME IInv, AuthFine, NEW x \in Sides, NEW u, NEW r, Flows(x, u, r),
           authenticated' = authenticated, auths' = auths, \A y \in Sides : open'[y] => open[y],
           \A y \in Sides : \A i \in 1..Len(queue'[y]) : queue'[y][i].type = "app",
           \A k \in 1..Len(u) : u[k].type \notin {"request", "success"},
           ~authenticated["client"] => cookies' = cookies,
           x = "client" /\ ~authenticated["client"] => NothingTo(u) \/ ~auths["client"],
           r = 1 /\ open'[x] => Head(wire[x]).type \notin {"request", "success"}
    PROVE  AuthFine'
<1> DEFINE c == wire["client"]
<1> DEFINE s == wire["server"]
<1>1. /\ x \in {"client", "server"} /\ Other("client") = "server" /\ Other("server") = "client"
      /\ (open'["client"] => open["client"]) /\ (open'["server"] => open["server"])
      /\ u \in Seq(OnWire) /\ c \in Seq(OnWire) /\ s \in Seq(OnWire) /\ r \in {0, 1}
  BY Tables DEF Sides, Other, Flows
<1>2. /\ x = "client" => wire'["client"] = IF r = 1 THEN Tail(c) ELSE c
      /\ x = "client" => wire'["server"] = s \o u
      /\ x = "server" => wire'["server"] = IF r = 1 THEN Tail(s) ELSE s
      /\ x = "server" => wire'["client"] = c \o u
      /\ x = "client" /\ r = 1 => c # <<>>
      /\ x = "server" /\ r = 1 => s # <<>>
  BY <1>1 DEF Flows
<1>3. ~Has(u, "request", 0) /\ ~Has(u, "success", 0) /\ AskedOn(u, authenticated["client"])
  BY DEF Has, AskedOn, Behind
<1> HIDE DEF c, s
<1>4. ASSUME open'["server"]
      PROVE  /\ Has(wire'["server"], "request", 0) => Has(s, "request", 0)
             /\ AskedOn(s, authenticated["client"]) => AskedOn(wire'["server"], authenticated["client"])
             /\ NothingTo(s) /\ (x = "client" => NothingTo(u)) => NothingTo(wire'["server"])
  <2>1. CASE x = "server" /\ r = 0
    BY <1>2, <2>1
  <2>2. CASE x = "server" /\ r = 1
    <3>1. wire'["server"] = Tail(s) /\ s # <<>>
      BY <1>2, <2>2
    <3>2. Has(Tail(s), "request", 0) => Has(s, "request", 0)
      BY <1>1, <3>1, Reading
    <3>3. /\ AskedOn(s, authenticated["client"]) => AskedOn(Tail(s), authenticated["client"])
          /\ NothingTo(s) => NothingTo(Tail(s))
      BY <1>1, <3>1, SilenceReads
    <3> QED
      BY <3>1, <3>2, <3>3
  <2>3. CASE x = "client"
    <3>1. Has(s \o u, "request", 0) => Has(s, "request", 0)
      BY <1>1, <1>3, Writing
    <3>2. NothingTo(s) /\ NothingTo(u) => NothingTo(s \o u)
      BY <1>1, SilenceGets
    <3>3. AskedOn(s, authenticated["client"]) => AskedOn(s \o u, authenticated["client"])
      <4>1. CASE authenticated["client"]
        BY <4>1 DEF AskedOn
      <4>2. CASE NothingTo(u)
        BY <1>1, <4>2, SilenceGets
      <4>3. CASE ~authenticated["client"] /\ ~auths["client"]
        <5>1. ~Has(s, "request", 0)
          BY <1>1, <1>4, <4>3 DEF AuthFine, s
        <5> QED
          BY <1>1, <1>3, <5>1, SilenceGets
      <4> QED
        BY <2>3, <4>1, <4>2, <4>3
    <3> QED
      BY <1>2, <2>3, <3>1, <3>2, <3>3
  <2> QED
    BY <1>1, <2>1, <2>2, <2>3
<1>5. ASSUME open'["client"]
      PROVE  /\ Has(wire'["client"], "success", 0) <=> Has(c, "success", 0)
             /\ Once(c, "success", 0) => Once(wire'["client"], "success", 0)
  <2>1. CASE x = "client" /\ r = 0
    BY <1>2, <2>1
  <2>2. CASE x = "client" /\ r = 1
    <3>1. Head(c).type # "success" /\ c # <<>> /\ wire'["client"] = Tail(c)
      BY <1>2, <1>5, <2>2 DEF c
    <3>2. Has(c, "success", 0) <=> Has(Tail(c), "success", 0)
      BY <1>1, <3>1, Reading
    <3>3. Once(c, "success", 0) => Once(Tail(c), "success", 0)
      BY <1>1, <3>1, Read
    <3> QED
      BY <3>1, <3>2, <3>3
  <2>3. CASE x = "server"
    <3>1. Has(c \o u, "success", 0) <=> Has(c, "success", 0)
      BY <1>1, <1>3, Writing
    <3>2. Once(c, "success", 0) => Once(c \o u, "success", 0)
      <4>1. 0 \in Nat /\ 0 <= Len(c)
        BY <1>1
      <4> QED
        BY <1>1, <1>3, <4>1, Written
    <3> QED
      BY <1>2, <2>3, <3>1, <3>2
  <2> QED
    BY <1>1, <2>1, <2>2, <2>3
<1>6. /\ ~authenticated["client"] => cookies'["client"] = 1 /\ cookies'["server"] = 1
      /\ authenticated["client"] => authenticated["server"]
      /\ auths["server"] => ~authenticated["server"]
  BY DEF AuthFine
<1>7. (auths["server"] \/ authenticated["server"]) /\ ~authenticated["client"] =>
           auths["client"] /\ (open'["server"] => NothingTo(wire'["server"]))
  <2>1. SUFFICES ASSUME auths["server"] \/ authenticated["server"], ~authenticated["client"]
                 PROVE  auths["client"] /\ (open'["server"] => NothingTo(wire'["server"]))
    OBVIOUS
  <2>2. auths["client"] /\ (open["server"] => NothingTo(s))
    BY <2>1 DEF AuthFine, s
  <2> QED
    BY <1>1, <1>4, <2>1, <2>2
<1>8. ASSUME open'["server"]
      PROVE  /\ Has(wire'["server"], "request", 0) =>
                   auths["client"] /\ ~auths["server"] /\ ~authenticated["server"] /\ ~authenticated["client"]
             /\ AskedOn(wire'["server"], authenticated["client"])
  <2>1. /\ Has(s, "request", 0) =>
              auths["client"] /\ ~auths["server"] /\ ~authenticated["server"] /\ ~authenticated["client"]
        /\ AskedOn(s, authenticated["client"])
    BY <1>1, <1>8 DEF AuthFine, s
  <2> QED
    BY <1>4, <1>8, <2>1
<1>9. ASSUME open'["client"]
      PROVE  /\ Has(wire'["client"], "success", 0) => authenticated["server"] /\ ~authenticated["client"]
             /\ Once(wire'["client"], "success", 0)
             /\ authenticated["server"] /\ ~authenticated["client"] => Has(wire'["client"], "success", 0)
  <2>1. /\ Has(c, "success", 0) => authenticated["server"] /\ ~authenticated["client"]
        /\ Once(c, "success", 0)
        /\ authenticated["server"] /\ ~authenticated["client"] => Has(c, "success", 0)
    BY <1>1, <1>9 DEF AuthFine, c
  <2> QED
    BY <1>5, <1>9, <2>1
<1> QED
  BY <1>6, <1>7, <1>8, <1>9 DEF AuthFine

\* The algorithms of both sides, once an exchange has begun.
LEMMA SameAlgorithms ==
    ASSUME IInv, NEW x \in Sides, kex[x].hash # NoKeys
    PROVE  kex[x].negotiated = Algorithms
<1>1. /\ "client" \in Sides /\ "server" \in Sides /\ Other("client") = "server" /\ Other("server") = "client"
      /\ x \in {"client", "server"}
  BY DEF Sides, Other
<1>2. offer["client"] \in Offers /\ offer["server"] \in Offers
  BY <1>1 DEF IInv, Typed
<1>3. kex[x].negotiated = Negotiated(x = "server", offer[x], offer[Other(x)])
  BY DEF IInv, Known
<1>4. ("client" = "server") = FALSE /\ ("server" = "server") = TRUE
  OBVIOUS
<1>5. CASE x = "client"
  BY <1>1, <1>3, <1>4, <1>5 DEF Algorithms
<1>6. CASE x = "server"
  BY <1>1, <1>2, <1>3, <1>4, <1>6, NegotiatedAlike DEF Algorithms
<1> QED
  BY <1>1, <1>5, <1>6

\* Whether the user is authenticated matters to the first keys of delayed compression.
LEMMA ZipAnyway ==
    ASSUME NEW z, NEW keys, NEW a, NEW b, z # "zlib@openssh.com" \/ keys # <<1, 1>> \/ a = b
    PROVE  ZipFor(z, keys, a) = ZipFor(z, keys, b)
BY DEF ZipFor

LEMMA NotDelayed ==
    ASSUME ~Delays
    PROVE  Algorithms["csCompress"] # "zlib@openssh.com" /\ Algorithms["scCompress"] # "zlib@openssh.com"
BY DEF Delays, Algorithms

\* What the client will know of the user when it reads what the server writes now.
Seen == authenticated["client"] \/ Has(wire["client"], "success", 0)

LEMMA SeenByClient ==
    ASSUME AuthFine, open["client"], authenticated \in [Sides -> BOOLEAN]
    PROVE  Seen = authenticated["server"]
<1>1. authenticated["client"] \in BOOLEAN /\ authenticated["server"] \in BOOLEAN
  BY DEF Sides
<1>2. /\ authenticated["client"] => authenticated["server"]
      /\ Has(wire["client"], "success", 0) => authenticated["server"]
      /\ authenticated["server"] /\ ~authenticated["client"] => Has(wire["client"], "success", 0)
  BY DEF AuthFine
<1> QED
  BY <1>1, <1>2 DEF Seen

\* The packets on the wires stay in step when x writes with its cipher.
LEMMA ZipWires ==
    ASSUME IInv, ZipFine, Delays => AuthFine, NEW x \in Sides, NEW u, NEW r, Flows(x, u, r),
           \A y \in Sides : open'[y] => open[y],
           \A k \in 1..Len(u) : u[k].keys = out[x].keys /\ u[k].zip = out[x].zip /\ ~Behind(u, "success", k),
           r = 1 /\ open'[x] => Head(wire[x]).type # "success"
    PROVE  /\ open'["client"] => ZipToClient(wire'["client"], Algorithms["scCompress"], authenticated["client"])
           /\ open'["server"] => ZipToServer(wire'["server"], Algorithms["csCompress"], authenticated["client"])
<1> DEFINE c == wire["client"]
<1> DEFINE s == wire["server"]
<1> DEFINE a == authenticated["client"]
<1>1. /\ x \in {"client", "server"} /\ Other("client") = "server" /\ Other("server") = "client"
      /\ (open'["client"] => open["client"]) /\ (open'["server"] => open["server"])
      /\ u \in Seq(OnWire) /\ c \in Seq(OnWire) /\ s \in Seq(OnWire) /\ r \in {0, 1}
  BY Tables DEF Sides, Other, Flows
<1>2. /\ x = "client" => wire'["client"] = IF r = 1 THEN Tail(c) ELSE c
      /\ x = "client" => wire'["server"] = s \o u
      /\ x = "server" => wire'["server"] = IF r = 1 THEN Tail(s) ELSE s
      /\ x = "server" => wire'["client"] = c \o u
      /\ x = "client" /\ r = 1 => c # <<>>
      /\ x = "server" /\ r = 1 => s # <<>>
  BY <1>1 DEF Flows
<1>3. a \in BOOLEAN /\ authenticated \in [Sides -> BOOLEAN]
  BY DEF IInv, Typed, Sides
<1>5. ASSUME open'["client"] PROVE ZipToClient(wire'["client"], Algorithms["scCompress"], a)
  <2>1. ZipToClient(c, Algorithms["scCompress"], a)
    BY <1>1, <1>5 DEF ZipFine
  <2>2. CASE x = "client"
    <3> HIDE DEF c, a
    <3>1. ASSUME r = 1 PROVE ZipToClient(Tail(c), Algorithms["scCompress"], a)
      <4>1. Head(c).type # "success" /\ c # <<>>
        BY <1>2, <1>5, <2>2, <3>1 DEF c
      <4>2. (a \/ Head(c).type = "success") = a
        BY <1>3, <4>1
      <4>3. ZipToClient(Tail(c), Algorithms["scCompress"], a \/ Head(c).type = "success")
        BY <1>1, <1>3, <2>1, <4>1, ZipReads
      <4> QED
        BY <4>2, <4>3
    <3> QED
      BY <1>2, <2>1, <2>2, <3>1
  <2>3. CASE x = "server"
    <3>1. ASSUME NEW k \in 1..Len(u)
          PROVE  u[k].zip = ZipFor(Algorithms["scCompress"], u[k].keys,
                                   a \/ Has(c, "success", 0) \/ Behind(u, "success", k))
      <4>1. u[k].zip = ZipFor(Algorithms["scCompress"], u[k].keys, authenticated["server"])
        BY <2>3, <3>1 DEF ZipFine, SideZips, WriteSlot
      <4>2. ~Behind(u, "success", k)
        BY <3>1
      <4>3. (a \/ Has(c, "success", 0) \/ Behind(u, "success", k)) = Seen
        BY <4>2 DEF Seen
      <4>4. Algorithms["scCompress"] # "zlib@openssh.com" \/ Seen = authenticated["server"]
        BY <1>1, <1>3, <1>5, SeenByClient, NotDelayed
      <4>5. ZipFor(Algorithms["scCompress"], u[k].keys, Seen)
              = ZipFor(Algorithms["scCompress"], u[k].keys, authenticated["server"])
        BY <4>4, ZipAnyway
      <4> QED
        BY <4>1, <4>3, <4>5
    <3> HIDE DEF c, a
    <3> QED
      BY <1>1, <1>2, <1>3, <2>1, <2>3, <3>1, ZipGets
  <2> QED
    BY <1>1, <2>2, <2>3
<1>6. ASSUME open'["server"] PROVE ZipToServer(wire'["server"], Algorithms["csCompress"], a)
  <2>1. ZipToServer(s, Algorithms["csCompress"], a)
    BY <1>1, <1>6 DEF ZipFine
  <2>2. CASE x = "client"
    <3>1. \A k \in 1..Len(u) : u[k].zip = ZipFor(Algorithms["csCompress"], u[k].keys, a)
      BY <2>2 DEF ZipFine, SideZips, WriteSlot
    <3> HIDE DEF s, a
    <3> QED
      BY <1>1, <1>2, <1>3, <2>1, <2>2, <3>1, ZipGets
  <2>3. CASE x = "server"
    <3> HIDE DEF s, a
    <3>1. r = 1 => ZipToServer(Tail(s), Algorithms["csCompress"], a)
      BY <1>1, <1>2, <1>3, <2>1, <2>3, ZipReads
    <3> QED
      BY <1>2, <2>1, <2>3, <3>1
  <2> QED
    BY <1>1, <2>2, <2>3
<1> QED
  BY <1>5, <1>6

\* The streams stay in step when x writes with its cipher, nothing of it about the user.
LEMMA ZipKept ==
    ASSUME IInv, ZipFine, Delays => AuthFine, KeptCiphers, NEW x \in Sides, NEW u, NEW r, Flows(x, u, r),
           authenticated' = authenticated, offer' = offer, \A y \in Sides : open'[y] => open[y],
           \A k \in 1..Len(u) : /\ u[k].keys = out[x].keys /\ u[k].zip = out[x].zip
                                /\ u[k].type # "success",
           r = 1 /\ open'[x] => Head(wire[x]).type # "success"
    PROVE  ZipFine'
<1>1. \A k \in 1..Len(u) : ~Behind(u, "success", k)
  BY DEF Behind
<1>2. /\ open'["client"] => ZipToClient(wire'["client"], Algorithms["scCompress"], authenticated["client"])
      /\ open'["server"] => ZipToServer(wire'["server"], Algorithms["csCompress"], authenticated["client"])
  BY <1>1, ZipWires
<1>3. Algorithms' = Algorithms
  BY DEF Algorithms
<1>4. SideZips("client")' /\ SideZips("server")'
  <2>1. ASSUME NEW y \in Sides, SideZips(y) PROVE SideZips(y)'
    BY <1>3, <2>1 DEF SideZips, KeptCiphers, ReadSlot, WriteSlot
  <2> QED
    BY <2>1 DEF ZipFine, Sides
<1> QED
  BY <1>2, <1>3, <1>4 DEF ZipFine

\* Delayed compression starts under the first keys, in the directions that have it.
LEMMA DelayedFor ==
    ASSUME IInv, NEW x \in Sides, kex[x].hash # NoKeys, NEW slot, NEW keys, NEW a,
           Algorithms[slot] = "zlib@openssh.com" => keys = <<1, 1>>
    PROVE  Delayed(x, slot, ZipFor(Algorithms[slot], keys, a)) = ZipFor(Algorithms[slot], keys, TRUE)
<1>1. kex[x].negotiated = Algorithms
  BY SameAlgorithms
<1>2. CASE Algorithms[slot] = "zlib@openssh.com"
  BY <1>1, <1>2 DEF Delayed, ZipFor, NoKeys
<1>3. CASE Algorithms[slot] # "zlib@openssh.com"
  BY <1>1, <1>3, ZipAnyway DEF Delayed
<1> QED
  BY <1>2, <1>3

-----------------------------------------------------------------------------
(* Steps that say nothing, or DISCONNECT.                                  *)

\* A side, once it has begun early, has; what is kept when it has not is kept.
LEMMA StaysInStep ==
    ASSUME AuthInStep, ZipInStep, offer' = offer, early => early',
           AuthFine /\ ~early' => AuthFine',
           ZipFine /\ (Delays => AuthFine /\ ~early') => ZipFine'
    PROVE  AuthInStep' /\ ZipInStep'
<1>1. AuthInStep'
  BY DEF AuthInStep
<1>2. Delays' <=> Delays
  BY DEF Delays
<1>3. ASSUME ~(early' /\ Delays) PROVE ZipFine'
  <2>1. ZipFine /\ (Delays => AuthFine /\ ~early')
    BY <1>3 DEF AuthInStep, ZipInStep
  <2> QED
    BY <2>1
<1> QED
  BY <1>1, <1>2, <1>3 DEF ZipInStep

Hushed(x, u, r) ==
    /\ Calm(x, u, r) /\ NothingTo(u) /\ KeptCiphers /\ UNCHANGED <<authenticated, auths, queue>>
    /\ \A k \in 1..Len(u) : u[k].keys = out[x].keys /\ u[k].zip = out[x].zip
    /\ r = 1 /\ open'[x] => Head(wire[x]).type \notin {"request", "success"}

LEMMA HushedStep ==
    ASSUME IInv, InSequence, Steady, NEW x \in Sides, NEW u, NEW r, Hushed(x, u, r)
    PROVE  InSequence' /\ Steady'
<1>1. /\ Calm(x, u, r) /\ NothingTo(u) /\ KeptCiphers /\ UNCHANGED <<authenticated, auths, queue>>
      /\ \A k \in 1..Len(u) : u[k].keys = out[x].keys /\ u[k].zip = out[x].zip
      /\ r = 1 /\ open'[x] => Head(wire[x]).type \notin {"request", "success"}
  BY DEF Hushed
<1>2. /\ SidesFine /\ InOrder /\ AuthInStep /\ ZipInStep
  BY DEF Steady
<1>3. /\ InSequence' /\ InOrder'
      /\ \A y \in Sides : /\ Level(y)' = Level(y)
                          /\ in'[y].keys = in[y].keys /\ out'[y].keys = out[y].keys
                          /\ mode'[y] = mode[y] /\ kexinit'[y] = kexinit[y] /\ cookies'[y] = cookies[y]
                          /\ session'[y] = session[y] /\ kex'[y].hash = kex[y].hash
  BY <1>1, <1>2, CalmKeeps
<1>4. SidesFine'
  BY <1>1, <1>2, <1>3, SidesKept
<1>5. /\ Flows(x, u, r) /\ offer' = offer /\ early' = early /\ cookies' = cookies
      /\ \A y \in Sides : open'[y] => open[y]
  BY <1>1 DEF Calm
<1>6. \A k \in 1..Len(u) : u[k].type \notin {"request", "success"}
  BY <1>1 DEF NothingTo, Live
<1>7. ASSUME AuthFine PROVE AuthFine'
  <2>1. \A y \in Sides : \A i \in 1..Len(queue'[y]) : queue'[y][i].type = "app"
    BY <1>1, <1>7 DEF AuthFine
  <2> QED
    BY <1>1, <1>5, <1>6, <1>7, <2>1, AuthKept
<1>8. ASSUME ZipFine, Delays => AuthFine PROVE ZipFine'
  BY <1>1, <1>5, <1>6, <1>8, ZipKept
<1>9. AuthInStep' /\ ZipInStep'
  BY <1>2, <1>5, <1>7, <1>8, StaysInStep
<1> QED
  BY <1>3, <1>4, <1>9 DEF Steady

LEMMA SaysNothing ==
    ASSUME NEW u, NEW keys, NEW zip, NEW msgs \in {<<>>, <<Msg("disconnect", 0)>>}, SealedBy(u, msgs, keys, zip)
    PROVE  NothingTo(u) /\ \A k \in 1..Len(u) : u[k].keys = keys /\ u[k].zip = zip
<1>1. /\ Len(u) = Len(msgs)
      /\ \A k \in 1..Len(msgs) : u[k].type = msgs[k].type /\ u[k].keys = keys /\ u[k].zip = zip
  BY DEF SealedBy
<1>2. \A k \in 1..Len(msgs) : msgs[k].type = "disconnect"
  <2>1. CASE msgs = <<>>
    BY <2>1
  <2>2. CASE msgs = <<Msg("disconnect", 0)>>
    BY <2>2 DEF Msg
  <2> QED
    BY <2>1, <2>2
<1> QED
  BY <1>1, <1>2 DEF NothingTo, Live

\* A step in which x at most says DISCONNECT, and what it may have read.
LEMMA QuietStep ==
    ASSUME IInv, InSequence, Steady, NEW x \in Sides, NEW r, NEW msgs \in {<<>>, <<Msg("disconnect", 0)>>},
           KeptCiphers, \E u : Flows(x, u, r) /\ SealedBy(u, msgs, out[x].keys, out[x].zip),
           UNCHANGED <<offer, kexinit, cookies, mode, guess, session, early, authenticated, auths, queue>>,
           \A y \in Sides : /\ open'[y] => open[y]
                            /\ kex'[y].hash = kex[y].hash /\ kex'[y].step = kex[y].step,
           skip' = skip \/ (x = "server" /\ r = 1),
           r = 1 /\ open'[x] =>
              /\ Head(wire[x]).type \notin {"request", "success"}
              /\ x = "client" => Head(wire[x]).type # "reply" \/ C # 2
              /\ x = "server" => /\ Head(wire[x]).type \notin {"kexinit", "newkeys"}
                                 /\ Guessed(guess, mode["server"], skip) \in {0, 1}
                                 /\ Guessed(guess, mode["server"], skip)' = 0
    PROVE  InSequence' /\ Steady'
<1>1. PICK u : Flows(x, u, r) /\ SealedBy(u, msgs, out[x].keys, out[x].zip)
  OBVIOUS
<1>2. NothingTo(u) /\ \A k \in 1..Len(u) : u[k].keys = out[x].keys /\ u[k].zip = out[x].zip
  BY <1>1, SaysNothing
<1>3. Plainly(x, u)
  BY <1>2 DEF Plainly, NothingTo
<1>4. C' = C /\ S' = S
  <2>1. kex'["client"].step = kex["client"].step /\ kex'["server"].step = kex["server"].step
    BY DEF Sides
  <2> QED
    BY <2>1 DEF C, S
<1>5. Calm(x, u, r)
  BY <1>1, <1>3, <1>4 DEF Calm, KeptCiphers
<1>6. Hushed(x, u, r)
  BY <1>2, <1>5 DEF Hushed
<1> QED
  BY <1>6, HushedStep

LEMMA LinksAre ==
    ASSUME IInv
    PROVE  /\ LinksTyped /\ Typed
           /\ <<>> \in Seq(Letters) /\ <<Msg("disconnect", 0)>> \in Seq(Letters)
           /\ open \in [Sides -> BOOLEAN]
<1>1. "disconnect" \in Types /\ 0 \in Args
  BY DEF Types, Args
<1> QED
  BY <1>1, Single DEF IInv, Typed, LinksTyped

LEMMA SteadyDisconnect ==
    ASSUME IInv, InSequence, Steady, NEW x \in Sides, Disconnect(x) PROVE InSequence' /\ Steady'
<1>1. /\ Transmit(x, <<Msg("disconnect", 0)>>) /\ in' = in /\ open' = [open EXCEPT ![x] = FALSE]
      /\ UNCHANGED <<offer, kexinit, cookies, mode, guess, session, early, authenticated, auths, queue>>
      /\ skip' = skip /\ kex' = kex
  BY DEF Disconnect, kexVars, authVars, history
<1>2. /\ KeptCiphers
      /\ \E u : Flows(x, u, 0) /\ SealedBy(u, <<Msg("disconnect", 0)>>, out[x].keys, out[x].zip)
  BY <1>1, LinksAre, Transmitting
<1>3. \A y \in Sides : open'[y] => open[y]
  BY <1>1, LinksAre
<1> QED
  BY <1>1, <1>2, <1>3, QuietStep

LEMMA SteadyDenied ==
    ASSUME IInv, InSequence, Steady, Denied PROVE InSequence' /\ Steady'
<1>1. /\ Transmit("client", <<Msg("disconnect", 0)>>) /\ in' = in /\ open' = [open EXCEPT !["client"] = FALSE]
      /\ UNCHANGED <<offer, kexinit, cookies, mode, guess, session, early, authenticated, auths, queue>>
      /\ skip' = skip /\ kex' = kex /\ "client" \in Sides
  BY DEF Denied, authVars, Sides
<1>2. /\ KeptCiphers
      /\ \E u : Flows("client", u, 0) /\ SealedBy(u, <<Msg("disconnect", 0)>>, out["client"].keys, out["client"].zip)
  BY <1>1, LinksAre, Transmitting
<1>3. \A y \in Sides : open'[y] => open[y]
  BY <1>1, LinksAre
<1> QED
  BY <1>1, <1>2, <1>3, QuietStep

LEMMA SteadyFatal ==
    ASSUME IInv, InSequence, Steady, NEW x \in Sides, wire[x] # <<>>, Fatal(x), x = "server" => ~skip
    PROVE  InSequence' /\ Steady'
<1>1. /\ Answer(x, <<Msg("disconnect", 0)>>) /\ open' = [open EXCEPT ![x] = FALSE]
      /\ UNCHANGED <<offer, kexinit, cookies, mode, guess, session, early, authenticated, auths, queue>>
      /\ skip' = skip /\ kex' = kex
  BY DEF Fatal, kexVars, authVars
<1>2. /\ KeptCiphers
      /\ \E u : Flows(x, u, 1) /\ SealedBy(u, <<Msg("disconnect", 0)>>, out[x].keys, out[x].zip)
  BY <1>1, LinksAre, Answering
<1>3. (\A y \in Sides : open'[y] => open[y]) /\ ~open'[x]
  BY <1>1, LinksAre
<1> QED
  BY <1>1, <1>2, <1>3, QuietStep

LEMMA SteadyRcvDisconnect ==
    ASSUME IInv, InSequence, Steady, NEW x \in Sides, RcvDisconnect(x) PROVE InSequence' /\ Steady'
<1>1. /\ Answer(x, <<>>) /\ open' = [open EXCEPT ![x] = FALSE] /\ wire[x] # <<>>
      /\ UNCHANGED <<offer, kexinit, cookies, mode, guess, session, early, authenticated, auths, queue>>
      /\ skip' = skip /\ kex' = kex
  BY DEF RcvDisconnect, Arrives, kexVars, authVars, history
<1>2. /\ KeptCiphers
      /\ \E u : Flows(x, u, 1) /\ SealedBy(u, <<>>, out[x].keys, out[x].zip)
  BY <1>1, LinksAre, Answering
<1>3. (\A y \in Sides : open'[y] => open[y]) /\ ~open'[x]
  BY <1>1, LinksAre
<1> QED
  BY <1>1, <1>2, <1>3, QuietStep

LEMMA SteadyRcvApp ==
    ASSUME IInv, InSequence, Steady, NEW x \in Sides, RcvApp(x) PROVE InSequence' /\ Steady'
<1>1. /\ Answer(x, <<>>) /\ open' = open /\ wire[x] # <<>>
      /\ UNCHANGED <<offer, kexinit, cookies, mode, guess, session, early, authenticated, auths, queue>>
      /\ skip' = skip /\ kex' = kex /\ mode[x] = "normal"
      /\ Head(wire[x]).type = "app" /\ ~(x = "server" /\ skip)
  BY DEF RcvApp, Arrives, kexVars, authVars, history
<1>2. /\ KeptCiphers
      /\ \E u : Flows(x, u, 1) /\ SealedBy(u, <<>>, out[x].keys, out[x].zip)
  BY <1>1, LinksAre, Answering
<1>3. x = "server" => /\ Guessed(guess, mode["server"], skip) = 0
                      /\ Guessed(guess, mode["server"], skip)' = 0
  BY <1>1 DEF Guessed
<1> QED
  BY <1>1, <1>2, <1>3, QuietStep

LEMMA SteadySkipGuess ==
    ASSUME IInv, InSequence, Steady, SkipGuess PROVE InSequence' /\ Steady'
<1>1. /\ Answer("server", <<>>) /\ open' = open /\ wire["server"] # <<>> /\ open["server"]
      /\ UNCHANGED <<offer, kexinit, cookies, mode, guess, session, early, authenticated, auths, queue>>
      /\ skip /\ skip' = FALSE /\ kex' = kex /\ "server" \in Sides
  BY DEF SkipGuess, authVars, history, Sides
<1>2. /\ KeptCiphers
      /\ \E u : Flows("server", u, 1) /\ SealedBy(u, <<>>, out["server"].keys, out["server"].zip)
  BY <1>1, LinksAre, Answering
<1>3. S = 2 /\ mode["server"] = "kex"
  <2>1. S = 2
    BY <1>1 DEF IInv, Phases
  <2> QED
    BY <2>1, PhaseFacts
<1>4. /\ Guessed(guess, mode["server"], skip) = 1
      /\ Guessed(guess, mode["server"], skip)' = 0
  BY <1>1, <1>3 DEF Guessed
<1>5. ~Has(wire["server"], "kexinit", 0) /\ ~Has(wire["server"], "newkeys", 0)
  BY <1>1, <1>3, Tables DEF ToServer
<1>6. Head(wire["server"]).type \notin {"kexinit", "newkeys"}
  BY <1>1, <1>5, Tables, Reading
<1>7. /\ OrderToServer(wire["server"], Level("server"), cookies["server"], C, S, mode["server"], 1)
      /\ wire["server"] \in Seq(OnWire)
  BY <1>1, <1>4, Tables DEF Steady, InOrder
<1>8. Head(wire["server"]).type \notin {"request", "success"}
  <2>1. 1 \in 1..Len(wire["server"]) /\ Head(wire["server"]) = wire["server"][1]
        /\ ~Behind(wire["server"], "newkeys", 1)
    BY <1>1, <1>7, Reading
  <2> QED
    BY <1>3, <1>7, <2>1 DEF OrderToServer, ServerExpects, Live
<1> QED
  BY <1>1, <1>2, <1>4, <1>6, <1>8, QuietStep

LEMMA SteadyMisfit ==
    ASSUME IInv, InSequence, Steady, NEW x \in Sides, Misfit(x) PROVE InSequence' /\ Steady'
<1>1. open[x] /\ wire[x] # <<>> /\ ~(x = "server" /\ skip) /\ ~Fits(x)
  BY DEF Misfit
<1>2. CASE Readable(in[x], Head(wire[x])) /\ mode[x] = "normal"
  <2>1. /\ Answer(x, <<>>) /\ open' = open
        /\ UNCHANGED <<offer, kexinit, cookies, mode, guess, session, early, authenticated, auths, queue>>
        /\ skip' = skip /\ kex' = kex
    BY <1>2 DEF Misfit, kexVars, authVars, history
  <2>2. /\ KeptCiphers
        /\ \E u : Flows(x, u, 1) /\ SealedBy(u, <<>>, out[x].keys, out[x].zip)
    BY <1>1, <2>1, LinksAre, Answering
  <2>3. Head(wire[x]).type \notin {"kexinit", "app", "request", "success"}
    BY <1>1, <1>2 DEF Fits, Expected
  <2>4. x = "client" => C # 2
    BY <1>2, PhaseFacts
  <2>5. ASSUME x = "server"
        PROVE  /\ Head(wire[x]).type # "newkeys"
               /\ Guessed(guess, mode["server"], skip) = 0 /\ Guessed(guess, mode["server"], skip)' = 0
    <3>1. S # 3
      BY <1>2, <2>5, PhaseFacts
    <3>2. ~Has(wire["server"], "newkeys", 0)
      BY <1>1, <2>5, <3>1, Tables DEF ToServer
    <3>3. Head(wire["server"]).type # "newkeys"
      BY <1>1, <2>5, <3>2, Tables, Reading
    <3> QED
      BY <1>1, <1>2, <2>1, <2>5, <3>3 DEF Guessed
  <2> QED
    BY <1>1, <2>1, <2>2, <2>3, <2>4, <2>5, QuietStep
<1>3. CASE ~(Readable(in[x], Head(wire[x])) /\ mode[x] = "normal")
  <2>1. Fatal(x)
    BY <1>3 DEF Misfit
  <2> QED
    BY <1>1, <2>1, SteadyFatal
<1> QED
  BY <1>2, <1>3

\* Nothing is read or written.
LEMMA FlowsNothing ==
    ASSUME IInv, NEW x \in Sides, UNCHANGED <<in, out, wire>>
    PROVE  Flows(x, <<>>, 0) /\ KeptCiphers /\ SealedBy(<<>>, <<>>, out[x].keys, out[x].zip)
<1>1. LinksTyped /\ wire \in [Sides -> Seq(OnWire)] /\ Other(x) \in Sides
  BY LinksAre DEF Other, Sides, Typed
<1>2. wire[Other(x)] \in Seq(OnWire)
  BY <1>1
<1>3. <<>> \in Seq(OnWire) /\ wire[Other(x)] \o <<>> = wire[Other(x)] /\ Len(<<>>) = 0
  BY <1>2
<1>4. /\ in[x].seqno \in 0..(SeqMod - 1) /\ out[x].seqno \in 0..(SeqMod - 1)
  BY <1>1 DEF LinksTyped, Ciphers
<1>5. /\ out[x].seqno = (out[x].seqno + 0) % SeqMod
      /\ in[x].seqno = (in[x].seqno + 0) % SeqMod
  BY <1>4, InRange
<1>6. \A k \in 1..Len(<<>>) : FALSE
  BY <1>3
<1>7. Flows(x, <<>>, 0)
  BY <1>3, <1>5, <1>6 DEF Flows
<1>8. SealedBy(<<>>, <<>>, out[x].keys, out[x].zip)
  BY DEF SealedBy
<1> QED
  BY <1>7, <1>8 DEF KeptCiphers

LEMMA SteadyPause ==
    ASSUME IInv, InSequence, Steady,
           UNCHANGED <<offer, kexinit, cookies, mode, guess, session, early, authenticated, auths, queue>>,
           UNCHANGED <<in, out, wire, open, skip>>,
           \A y \in Sides : kex'[y].hash = kex[y].hash /\ kex'[y].step = kex[y].step
    PROVE  InSequence' /\ Steady'
<1>1. "client" \in Sides
  BY DEF Sides
<1>2. KeptCiphers /\ \E u : Flows("client", u, 0) /\ SealedBy(u, <<>>, out["client"].keys, out["client"].zip)
  BY <1>1, FlowsNothing
<1> QED
  BY <1>1, <1>2, QuietStep

-----------------------------------------------------------------------------
(* The application and the user.                                           *)

\* What a side may come to know, and may queue, once it has keys.
Grown(y) ==
    /\ authenticated'[y] => authenticated[y] \/ Level(y) >= 1
    /\ auths'[y] => auths[y] \/ Level(y) >= 1
    /\ \/ queue'[y] = queue[y]
       \/ /\ kexinit[y] # 0 /\ Level(y) >= 1
          /\ \A i \in 1..Len(queue'[y]) :
                queue'[y][i].type # IF y = "client" THEN "success" ELSE "request"

LEMMA CalmSteady ==
    ASSUME IInv, InSequence, Steady, NEW x \in Sides, NEW u, NEW r, Calm(x, u, r),
           \A y \in Sides : Grown(y),
           AuthFine /\ ~early => AuthFine', ZipFine /\ (Delays => AuthFine) => ZipFine'
    PROVE  InSequence' /\ Steady'
<1>1. SidesFine /\ InOrder /\ AuthInStep /\ ZipInStep
  BY DEF Steady
<1>2. /\ InSequence' /\ InOrder'
      /\ \A y \in Sides : /\ Level(y)' = Level(y)
                          /\ in'[y].keys = in[y].keys /\ out'[y].keys = out[y].keys
                          /\ mode'[y] = mode[y] /\ kexinit'[y] = kexinit[y] /\ cookies'[y] = cookies[y]
                          /\ session'[y] = session[y] /\ kex'[y].hash = kex[y].hash
  BY <1>1, CalmKeeps
<1>3. SidesFine'
  BY <1>1, <1>2, SidesKept DEF Grown
<1>4. offer' = offer /\ early' = early
  BY DEF Calm
<1>5. AuthInStep' /\ ZipInStep'
  BY <1>1, <1>4, StaysInStep
<1> QED
  BY <1>2, <1>3, <1>5 DEF Steady

LEMMA Appended ==
    ASSUME NEW V, NEW q \in Seq(V), NEW m
    PROVE  \A i \in 1..Len(Append(q, m)) : \/ i \in 1..Len(q) /\ Append(q, m)[i] = q[i]
                                           \/ Append(q, m)[i] = m
OBVIOUS

\* sendPacket(): the message is queued, or written under the keys of x.
LEMMA Sending ==
    ASSUME IInv, InSequence, Steady, NEW x \in Sides, NEW type \in {"app", "request", "success"}, NEW arg \in Args,
           SendPacket(x, Msg(type, arg)), in' = in, open' = open, skip' = skip, kex' = kex,
           UNCHANGED <<offer, kexinit, cookies, mode, guess, session, early>>,
           Level(x) >= 1, type # IF x = "client" THEN "success" ELSE "request"
    PROVE  /\ KeptCiphers
           /\ \E u : /\ Calm(x, u, 0) /\ Flows(x, u, 0) /\ Len(u) <= 1
                     /\ \A k \in 1..Len(u) :
                           u[k].keys = out[x].keys /\ u[k].zip = out[x].zip /\ u[k].type = type
                     /\ kexinit[x] = 0 => Len(u) = 1
           /\ kexinit[x] = 0 => queue' = queue
           /\ \A y \in Sides : y # x => queue'[y] = queue[y]
           /\ queue'[x] = queue[x] \/ queue'[x] = Append(queue[x], Msg(type, arg))
           /\ queue'[x] = queue[x]
              \/ /\ kexinit[x] # 0 /\ Level(x) >= 1
                 /\ \A i \in 1..Len(queue'[x]) :
                       queue'[x][i].type # IF x = "client" THEN "success" ELSE "request"
<1>1. queue \in [Sides -> Seq(Queued)] /\ LinksTyped
  BY LinksAre DEF Typed
<1>2. C' = C /\ S' = S
  BY DEF C, S
<1>3. CASE kexinit[x] # 0
  <2>1. queue' = [queue EXCEPT ![x] = Append(@, Msg(type, arg))] /\ UNCHANGED <<wire, out>>
    BY <1>3 DEF SendPacket
  <2>2. Flows(x, <<>>, 0) /\ KeptCiphers
    BY <2>1, FlowsNothing
  <2>3. Len(<<>>) = 0 /\ \A k \in 1..Len(<<>>) : FALSE
    OBVIOUS
  <2>4. Plainly(x, <<>>)
    BY <2>3 DEF Plainly
  <2>5. Calm(x, <<>>, 0)
    BY <1>2, <2>2, <2>4 DEF Calm, KeptCiphers
  <2>6. \A y \in Sides : y # x => queue'[y] = queue[y]
    BY <1>1, <2>1
  <2>7. queue'[x] = Append(queue[x], Msg(type, arg)) /\ queue[x] \in Seq(Queued)
    BY <1>1, <2>1
  <2>8. \A i \in 1..Len(queue'[x]) : \/ i \in 1..Len(queue[x]) /\ queue'[x][i] = queue[x][i]
                                     \/ queue'[x][i] = Msg(type, arg)
    BY <2>7, Appended
  <2>9. Msg(type, arg).type = type
    BY DEF Msg
  <2>10. \A i \in 1..Len(queue[x]) : queue[x][i].type # IF x = "client" THEN "success" ELSE "request"
    BY DEF Steady, SidesFine, SideFine, Sides
  <2>11. \A i \in 1..Len(queue'[x]) : queue'[x][i].type # IF x = "client" THEN "success" ELSE "request"
    BY <2>8, <2>9, <2>10
  <2> QED
    BY <1>3, <2>2, <2>3, <2>5, <2>6, <2>7, <2>11
<1>4. CASE kexinit[x] = 0
  <2>1. Transmit(x, <<Msg(type, arg)>>) /\ queue' = queue
    BY <1>4 DEF SendPacket
  <2>2. <<Msg(type, arg)>> \in Seq(Letters)
    <3>1. type \in Types
      BY DEF Types
    <3> QED
      BY <3>1, Single
  <2>3. KeptCiphers
    BY <1>1, <2>1, <2>2, Transmitting
  <2>4. PICK u : Flows(x, u, 0) /\ SealedBy(u, <<Msg(type, arg)>>, out[x].keys, out[x].zip)
    BY <1>1, <2>1, <2>2, Transmitting
  <2>5. Len(u) = 1 /\ \A k \in 1..Len(u) : u[k].keys = out[x].keys /\ u[k].zip = out[x].zip /\ u[k].type = type
    BY <2>4 DEF SealedBy, Msg
  <2>6. Plainly(x, u)
    BY <1>4, <2>5 DEF Plainly, Sides
  <2>7. Calm(x, u, 0)
    BY <1>2, <2>3, <2>4, <2>6 DEF Calm, KeptCiphers
  <2>8. Len(u) <= 1
    BY <2>5
  <2> QED
    BY <1>4, <2>1, <2>3, <2>4, <2>5, <2>7, <2>8
<1> QED
  BY <1>3, <1>4

LEMMA SteadyAppSend ==
    ASSUME IInv, InSequence, Steady, NEW x \in Sides, AppSend(x) PROVE InSequence' /\ Steady'
<1>1. /\ SendPacket(x, Msg("app", submitted[x] + 1)) /\ in' = in /\ open' = open /\ skip' = skip /\ kex' = kex
      /\ UNCHANGED <<offer, kexinit, cookies, mode, guess, session, early>>
      /\ UNCHANGED <<authenticated, auths>> /\ authenticated[x]
  BY DEF AppSend, kexVars, authVars, history
<1>2. submitted[x] + 1 \in Args
  BY LinksAre DEF Typed, Args
<1>3. Level(x) >= 1
  BY <1>1 DEF Steady, SidesFine, SideFine, Sides
<1>4. KeptCiphers /\ \A y \in Sides : y # x => queue'[y] = queue[y]
  BY <1>1, <1>2, <1>3, Sending
<1>5. PICK u : /\ Calm(x, u, 0) /\ Flows(x, u, 0)
               /\ \A k \in 1..Len(u) : u[k].keys = out[x].keys /\ u[k].zip = out[x].zip /\ u[k].type = "app"
  BY <1>1, <1>2, <1>3, Sending
<1>6. /\ queue'[x] = queue[x] \/ queue'[x] = Append(queue[x], Msg("app", submitted[x] + 1))
      /\ queue'[x] = queue[x]
         \/ /\ kexinit[x] # 0 /\ Level(x) >= 1
            /\ \A i \in 1..Len(queue'[x]) : queue'[x][i].type # IF x = "client" THEN "success" ELSE "request"
  BY <1>1, <1>2, <1>3, Sending
<1>7. \A y \in Sides : Grown(y)
  BY <1>1, <1>4, <1>6 DEF Grown
<1>8. \A y \in Sides : open'[y] => open[y]
  BY <1>1
<1>9. ASSUME AuthFine PROVE AuthFine'
  <2>1. \A i \in 1..Len(queue'[x]) : queue'[x][i].type = "app"
    <3>1. queue[x] \in Seq(Queued) /\ \A i \in 1..Len(queue[x]) : queue[x][i].type = "app"
      BY <1>9, LinksAre DEF Typed, AuthFine
    <3>2. Msg("app", submitted[x] + 1).type = "app"
      BY DEF Msg
    <3>3. CASE queue'[x] = queue[x]
      BY <3>1, <3>3
    <3>4. CASE queue'[x] = Append(queue[x], Msg("app", submitted[x] + 1))
      <4>1. \A i \in 1..Len(queue'[x]) : \/ i \in 1..Len(queue[x]) /\ queue'[x][i] = queue[x][i]
                                        \/ queue'[x][i] = Msg("app", submitted[x] + 1)
        BY <3>1, <3>4, Appended
      <4> QED
        BY <3>1, <3>2, <4>1
    <3> QED
      BY <1>6, <3>3, <3>4
  <2>2. \A y \in Sides : \A i \in 1..Len(queue'[y]) : queue'[y][i].type = "app"
    BY <1>4, <1>9, <2>1 DEF AuthFine
  <2>3. \A k \in 1..Len(u) : u[k].type \notin {"request", "success"}
    BY <1>5
  <2>4. (~authenticated["client"] => cookies' = cookies) /\ (x = "client" => authenticated["client"]) /\ 0 # 1
    BY <1>1
  <2> QED
    BY <1>1, <1>5, <1>8, <1>9, <2>2, <2>3, <2>4, AuthKept
<1>10. ASSUME ZipFine, Delays => AuthFine PROVE ZipFine'
  <2>1. \A k \in 1..Len(u) : u[k].keys = out[x].keys /\ u[k].zip = out[x].zip /\ u[k].type # "success"
    BY <1>5
  <2>2. 0 # 1
    OBVIOUS
  <2> QED
    BY <1>1, <1>4, <1>5, <1>8, <1>10, <2>1, <2>2, ZipKept
<1> QED
  BY <1>5, <1>7, <1>9, <1>10, CalmSteady

LEMMA SteadyAuthRequest ==
    ASSUME IInv, InSequence, Steady, AuthRequest PROVE InSequence' /\ Steady'
<1> DEFINE s == wire["server"]
<1>1. /\ SendPacket("client", Msg("request", 0)) /\ in' = in /\ open' = open /\ skip' = skip /\ kex' = kex
      /\ UNCHANGED <<offer, kexinit, cookies, mode, guess, session, early>>
      /\ authenticated' = authenticated /\ auths' = [auths EXCEPT !["client"] = TRUE]
      /\ session["client"] # NoKeys /\ ~auths["client"] /\ ~authenticated["client"]
      /\ "client" \in Sides /\ "server" \in Sides /\ Sides = {"client", "server"} /\ 0 \in Args
  BY DEF AuthRequest, kexVars, history, Sides, Args
<1>2. auths'["client"] = TRUE /\ auths'["server"] = auths["server"]
  BY <1>1, LinksAre DEF Typed
<1>3. Level("client") >= 1
  BY <1>1 DEF Steady, SidesFine, SideFine
<1>4. /\ KeptCiphers
      /\ \A y \in Sides : y # "client" => queue'[y] = queue[y]
      /\ kexinit["client"] = 0 => queue' = queue
      /\ queue'["client"] = queue["client"]
         \/ /\ kexinit["client"] # 0 /\ Level("client") >= 1
            /\ \A i \in 1..Len(queue'["client"]) :
                  queue'["client"][i].type # IF "client" = "client" THEN "success" ELSE "request"
  BY <1>1, <1>3, Sending
<1>5. PICK u : /\ Calm("client", u, 0) /\ Flows("client", u, 0) /\ Len(u) <= 1
               /\ \A k \in 1..Len(u) :
                     u[k].keys = out["client"].keys /\ u[k].zip = out["client"].zip /\ u[k].type = "request"
  BY <1>1, <1>3, Sending
<1>6. \A y \in Sides : Grown(y)
  BY <1>1, <1>2, <1>3, <1>4 DEF Grown
<1>7. \A y \in Sides : open'[y] => open[y]
  BY <1>1
<1>8. u \in Seq(OnWire) /\ s \in Seq(OnWire) /\ wire'["client"] = wire["client"] /\ wire'["server"] = s \o u
  BY <1>5, Tables DEF Flows, Other
<1>9. ASSUME AuthFine PROVE AuthFine'
  <2>1. cookies["client"] = 1 /\ cookies["server"] = 1
    BY <1>1, <1>9 DEF AuthFine
  <2>2. kexinit["client"] = 0
    BY <1>3, <2>1, Levels
  <2>3. queue' = queue
    BY <1>4, <2>2
  <2>4. ~auths["server"] /\ ~authenticated["server"]
    BY <1>1, <1>9 DEF AuthFine
  <2>5. ASSUME open["server"] PROVE AskedOn(s \o u, authenticated["client"])
    <3>1. AskedOn(s, authenticated["client"]) /\ ~Has(s, "request", 0)
      BY <1>1, <1>9, <2>5 DEF AuthFine
    <3>2. \A k \in 1..Len(u) : ~Behind(u, "request", k)
      <4>1. Len(u) \in Nat /\ Len(u) <= 1
        BY <1>5, <1>8
      <4>2. \A j, k \in 1..Len(u) : ~(j < k)
        BY <4>1
      <4> QED
        BY <4>2 DEF Behind
    <3>3. AskedOn(u, authenticated["client"])
      BY <3>2 DEF AskedOn
    <3> HIDE DEF s
    <3> QED
      BY <1>8, <3>1, <3>3, SilenceGets
  <2>6. /\ \A x \in Sides : \A i \in 1..Len(queue[x]) : queue[x][i].type = "app"
        /\ open["client"] =>
           /\ Has(wire["client"], "success", 0) => authenticated["server"] /\ ~authenticated["client"]
           /\ Once(wire["client"], "success", 0)
    BY <1>9 DEF AuthFine
  <2> HIDE DEF s
  <2> QED
    BY <1>1, <1>2, <1>8, <2>1, <2>3, <2>4, <2>5, <2>6 DEF AuthFine
<1>10. ASSUME ZipFine, Delays => AuthFine PROVE ZipFine'
  <2>1. /\ \A k \in 1..Len(u) :
              u[k].keys = out["client"].keys /\ u[k].zip = out["client"].zip /\ u[k].type # "success"
        /\ 0 # 1
    BY <1>5
  <2> QED
    BY <1>1, <1>4, <1>5, <1>7, <1>10, <2>1, ZipKept
<1> QED
  BY <1>1, <1>5, <1>6, <1>9, <1>10, CalmSteady

LEMMA SteadyRcvAuthRequest ==
    ASSUME IInv, InSequence, Steady, RcvAuthRequest PROVE InSequence' /\ Steady'
<1> DEFINE s == wire["server"]
<1>1. /\ Answer("server", <<>>) /\ open' = open /\ s # <<>> /\ open["server"]
      /\ UNCHANGED <<offer, kexinit, cookies, mode, guess, session, early, authenticated, queue>>
      /\ skip' = skip /\ kex' = kex /\ mode["server"] = "normal" /\ ~skip
      /\ auths' = [auths EXCEPT !["server"] = TRUE] /\ Head(s).type = "request"
      /\ "client" \in Sides /\ "server" \in Sides /\ Sides = {"client", "server"}
  BY DEF RcvAuthRequest, Arrives, kexVars, history, Sides
<1>2. auths'["server"] = TRUE /\ auths'["client"] = auths["client"]
  BY <1>1, LinksAre DEF Typed
<1>3. KeptCiphers
  BY <1>1, LinksAre, Answering
<1>4. PICK u : Flows("server", u, 1) /\ SealedBy(u, <<>>, out["server"].keys, out["server"].zip)
  BY <1>1, LinksAre, Answering
<1>5. /\ u = <<>> /\ s \in Seq(OnWire) /\ wire["client"] \in Seq(OnWire)
      /\ wire'["server"] = Tail(s) /\ wire'["client"] = wire["client"]
  <2>1. u \in Seq(OnWire) /\ Len(u) = 0 /\ wire["client"] \in Seq(OnWire) /\ s \in Seq(OnWire)
    BY <1>4, Tables DEF SealedBy
  <2>2. u = <<>>
    BY <2>1
  <2>3. wire'["server"] = Tail(s) /\ wire'["client"] = wire["client"] \o u
    BY <1>4 DEF Flows, Other
  <2> QED
    BY <2>1, <2>2, <2>3
<1>6. \A k \in 1..Len(u) : FALSE
  BY <1>5
<1>7. Calm("server", u, 1)
  <2>1. Plainly("server", u)
    BY <1>6 DEF Plainly
  <2>2. C' = C /\ S' = S
    BY <1>1 DEF C, S
  <2>3. /\ Guessed(guess, mode["server"], skip) = 0
        /\ Guessed(guess, mode["server"], skip)' = 0
    BY <1>1 DEF Guessed
  <2> QED
    BY <1>1, <1>3, <1>4, <2>1, <2>2, <2>3 DEF Calm, KeptCiphers
<1>8. Level("server") >= 1
  BY <1>1 DEF Steady, SidesFine, SideFine
<1>9. \A y \in Sides : Grown(y)
  BY <1>1, <1>2, <1>8 DEF Grown
<1>10. ASSUME AuthFine PROVE AuthFine'
  <2>1. Has(s, "request", 0)
    BY <1>1, <1>5, Reading
  <2>2. /\ auths["client"] /\ ~authenticated["server"] /\ ~authenticated["client"]
        /\ AskedOn(s, authenticated["client"])
    BY <1>1, <1>10, <2>1 DEF AuthFine
  <2>3. NothingTo(Tail(s)) /\ AskedOn(Tail(s), authenticated["client"])
    BY <1>1, <1>5, <2>2, SilenceReads
  <2>4. ~Has(Tail(s), "request", 0)
    BY <2>3 DEF NothingTo, Has, Live
  <2>5. /\ \A x \in Sides : \A i \in 1..Len(queue[x]) : queue[x][i].type = "app"
        /\ open["client"] =>
           /\ Has(wire["client"], "success", 0) => authenticated["server"] /\ ~authenticated["client"]
           /\ Once(wire["client"], "success", 0)
        /\ cookies["client"] = 1 /\ cookies["server"] = 1
    BY <1>10, <2>2 DEF AuthFine
  <2> HIDE DEF s
  <2> QED
    BY <1>1, <1>2, <1>5, <2>2, <2>3, <2>4, <2>5 DEF AuthFine
<1>11. ASSUME ZipFine, Delays => AuthFine PROVE ZipFine'
  <2>1. \A y \in Sides : open'[y] => open[y]
    BY <1>1
  <2> QED
    BY <1>1, <1>3, <1>4, <1>6, <1>11, <2>1, ZipKept
<1> QED
  BY <1>1, <1>7, <1>9, <1>10, <1>11, CalmSteady

\* Delayed compression changes the stream of a cipher, and nothing else.
LEMMA DelayedCipher ==
    ASSUME NEW x, NEW slot, NEW c \in Ciphers
    PROVE  /\ [c EXCEPT !.zip = Delayed(x, slot, @)].keys = c.keys
           /\ [c EXCEPT !.zip = Delayed(x, slot, @)].seqno = c.seqno
           /\ [c EXCEPT !.zip = Delayed(x, slot, @)].zip = Delayed(x, slot, c.zip)
BY DEF Ciphers

\* authSuccess(): the message is written, or queued, and then both streams change.
LEMMA Accepting ==
    ASSUME IInv, AuthSuccess
    PROVE  /\ \E u : /\ Flows("server", u, 0)
                     /\ SealedBy(u, IF kexinit["server"] # 0 THEN <<>> ELSE <<Msg("success", 0)>>,
                                 out["server"].keys, out["server"].zip)
           /\ out'["server"].keys = out["server"].keys /\ in'["server"].keys = in["server"].keys
           /\ out'["server"].zip = Delayed("server", "scCompress", out["server"].zip)
           /\ in'["server"].zip = Delayed("server", "csCompress", in["server"].zip)
           /\ in'["client"] = in["client"] /\ out'["client"] = out["client"]
           /\ queue'["client"] = queue["client"]
           /\ queue'["server"] = IF kexinit["server"] # 0 THEN Append(queue["server"], Msg("success", 0))
                                 ELSE queue["server"]
<1>1. Typed /\ LinksTyped /\ "client" \in Sides /\ "server" \in Sides
  BY LinksAre DEF Sides
<1>2. /\ in["server"] \in Ciphers /\ out["server"] \in Ciphers /\ wire["client"] \in Seq(OnWire)
      /\ Other("server") = "client" /\ in["server"].seqno \in 0..(SeqMod - 1)
      /\ out["server"].seqno \in 0..(SeqMod - 1)
  BY <1>1 DEF Typed, Other, Ciphers
<1> DEFINE reads == [in["server"] EXCEPT !.zip = Delayed("server", "csCompress", @)]
<1>3. in' = [in EXCEPT !["server"] = reads]
  BY DEF AuthSuccess
<1>4. /\ reads.keys = in["server"].keys /\ reads.seqno = in["server"].seqno
      /\ reads.zip = Delayed("server", "csCompress", in["server"].zip)
  BY <1>2, DelayedCipher
<1> HIDE DEF reads
<1>5. in'["server"] = reads /\ in'["client"] = in["client"]
  BY <1>1, <1>3 DEF Typed
<1>6. in'["server"].seqno = (in["server"].seqno + 0) % SeqMod
  BY <1>2, <1>4, <1>5, InRange
<1>7. CASE kexinit["server"] # 0
  <2> DEFINE writes == [out["server"] EXCEPT !.zip = Delayed("server", "scCompress", @)]
  <2>1. /\ queue' = [queue EXCEPT !["server"] = Append(@, Msg("success", 0))]
        /\ out' = [out EXCEPT !["server"] = writes] /\ wire' = wire
    BY <1>7 DEF AuthSuccess
  <2>2. /\ writes.keys = out["server"].keys /\ writes.seqno = out["server"].seqno
        /\ writes.zip = Delayed("server", "scCompress", out["server"].zip)
    BY <1>2, DelayedCipher
  <2> HIDE DEF writes
  <2>3. out'["server"] = writes /\ out'["client"] = out["client"]
    BY <1>1, <2>1 DEF Typed
  <2>4. <<>> \in Seq(OnWire) /\ wire["client"] \o <<>> = wire["client"] /\ Len(<<>>) = 0
        /\ \A k \in 1..Len(<<>>) : FALSE
    BY <1>2
  <2>5. out'["server"].seqno = (out["server"].seqno + 0) % SeqMod
    BY <1>2, <2>2, <2>3, InRange
  <2>6. Flows("server", <<>>, 0)
    BY <1>2, <1>5, <1>6, <2>1, <2>3, <2>4, <2>5 DEF Flows
  <2>7. SealedBy(<<>>, <<>>, out["server"].keys, out["server"].zip)
    BY DEF SealedBy
  <2>8. /\ queue'["client"] = queue["client"]
        /\ queue'["server"] = Append(queue["server"], Msg("success", 0))
    BY <1>1, <2>1 DEF Typed
  <2> QED
    BY <1>4, <1>5, <1>7, <2>2, <2>3, <2>6, <2>7, <2>8
<1>8. CASE kexinit["server"] = 0
  <2> DEFINE writes == [After(out["server"], 1) EXCEPT !.zip = Delayed("server", "scCompress", @)]
  <2> DEFINE u == Sealed(out["server"], <<Msg("success", 0)>>)
  <2>1. /\ wire' = [wire EXCEPT !["client"] = @ \o u] /\ out' = [out EXCEPT !["server"] = writes] /\ queue' = queue
    BY <1>8 DEF AuthSuccess
  <2>2. <<Msg("success", 0)>> \in Seq(Letters) /\ Len(<<Msg("success", 0)>>) = 1
    <3>1. "success" \in Types /\ 0 \in Args
      BY DEF Types, Args
    <3> QED
      BY <3>1, Single
  <2>3. /\ After(out["server"], 1) \in Ciphers /\ After(out["server"], 1).keys = out["server"].keys
        /\ After(out["server"], 1).zip = out["server"].zip
        /\ After(out["server"], 1).seqno = (out["server"].seqno + 1) % SeqMod
    BY <1>2, Counts, Counting
  <2>4. /\ writes.keys = out["server"].keys /\ writes.seqno = (out["server"].seqno + 1) % SeqMod
        /\ writes.zip = Delayed("server", "scCompress", out["server"].zip)
    BY <2>3, DelayedCipher
  <2>5. /\ SealedBy(u, <<Msg("success", 0)>>, out["server"].keys, out["server"].zip)
        /\ u \in Seq(OnWire) /\ Len(u) = 1
        /\ \A k \in 1..Len(u) : u[k].seqno = (out["server"].seqno + (k - 1)) % SeqMod
    BY <1>2, <2>2, Sealing DEF SealedBy
  <2> HIDE DEF writes, u
  <2>6. out'["server"] = writes /\ out'["client"] = out["client"] /\ wire'["client"] = wire["client"] \o u
        /\ wire'["server"] = wire["server"]
    BY <1>1, <2>1 DEF Typed
  <2>7. Flows("server", u, 0)
    BY <1>2, <1>5, <1>6, <2>4, <2>5, <2>6 DEF Flows
  <2> QED
    BY <1>4, <1>5, <1>8, <2>1, <2>4, <2>5, <2>6, <2>7
<1> QED
  BY <1>7, <1>8

LEMMA SteadyAuthSuccess ==
    ASSUME IInv, InSequence, Steady, AuthSuccess PROVE InSequence' /\ Steady'
<1> DEFINE c == wire["client"]
<1> DEFINE msgs == IF kexinit["server"] # 0 THEN <<>> ELSE <<Msg("success", 0)>>
<1>1. /\ open' = open /\ auths["server"] /\ auths' = [auths EXCEPT !["server"] = FALSE]
      /\ authenticated' = [authenticated EXCEPT !["server"] = TRUE]
      /\ UNCHANGED <<offer, kexinit, cookies, mode, guess, session, early>> /\ skip' = skip /\ kex' = kex
      /\ "client" \in Sides /\ "server" \in Sides /\ Sides = {"client", "server"}
  BY DEF AuthSuccess, kexVars, history, Sides
<1>2. /\ auths'["server"] = FALSE /\ auths'["client"] = auths["client"]
      /\ authenticated'["server"] = TRUE /\ authenticated'["client"] = authenticated["client"]
      /\ authenticated \in [Sides -> BOOLEAN]
  BY <1>1, LinksAre DEF Typed
<1>3. PICK u : Flows("server", u, 0) /\ SealedBy(u, msgs, out["server"].keys, out["server"].zip)
  BY Accepting
<1>4. /\ out'["server"].keys = out["server"].keys /\ in'["server"].keys = in["server"].keys
      /\ out'["server"].zip = Delayed("server", "scCompress", out["server"].zip)
      /\ in'["server"].zip = Delayed("server", "csCompress", in["server"].zip)
      /\ in'["client"] = in["client"] /\ out'["client"] = out["client"]
      /\ queue'["client"] = queue["client"]
      /\ queue'["server"] = IF kexinit["server"] # 0 THEN Append(queue["server"], Msg("success", 0))
                            ELSE queue["server"]
  BY Accepting
<1>5. /\ u \in Seq(OnWire) /\ c \in Seq(OnWire) /\ wire'["client"] = c \o u /\ wire'["server"] = wire["server"]
  BY <1>3, Tables DEF Flows, Other
<1>6. /\ kexinit["server"] # 0 => Len(u) = 0
      /\ kexinit["server"] = 0 => Len(u) = 1
      /\ \A k \in 1..Len(u) : /\ u[k].keys = out["server"].keys /\ u[k].zip = out["server"].zip
                              /\ u[k].type = "success" /\ kexinit["server"] = 0
  <2>1. /\ Len(u) = Len(msgs)
        /\ \A k \in 1..Len(msgs) : /\ u[k].type = msgs[k].type
                                   /\ u[k].keys = out["server"].keys /\ u[k].zip = out["server"].zip
    BY <1>3 DEF SealedBy
  <2>2. CASE kexinit["server"] # 0
    BY <2>1, <2>2
  <2>3. CASE kexinit["server"] = 0
    BY <2>1, <2>3 DEF Msg
  <2> QED
    BY <2>2, <2>3
<1> HIDE DEF c, msgs
<1>7. Level("server") >= 1 /\ kex["server"].hash # NoKeys
  <2>1. Level("server") >= 1
    BY <1>1 DEF Steady, SidesFine, SideFine
  <2> QED
    BY <2>1 DEF Steady, SidesFine, SideFine
<1>8. Calm("server", u, 0)
  <2>1. Plainly("server", u)
    BY <1>6 DEF Plainly
  <2>2. C' = C /\ S' = S
    BY <1>1 DEF C, S
  <2>3. \A y \in Sides : in'[y].keys = in[y].keys /\ out'[y].keys = out[y].keys
    BY <1>1, <1>4
  <2>4. 0 # 1
    OBVIOUS
  <2> QED
    BY <1>1, <1>3, <2>1, <2>2, <2>3, <2>4 DEF Calm
<1>9. \A y \in Sides : Grown(y)
  <2>1. Grown("client")
    BY <1>2, <1>4 DEF Grown
  <2>2. Grown("server")
    <3>1. CASE kexinit["server"] = 0
      BY <1>2, <1>4, <1>7, <3>1 DEF Grown
    <3>2. CASE kexinit["server"] # 0
      <4>1. queue["server"] \in Seq(Queued)
        BY <1>1, LinksAre DEF Typed
      <4>2. \A i \in 1..Len(queue["server"]) : queue["server"][i].type # "request"
        BY DEF Steady, SidesFine, SideFine
      <4>3. Msg("success", 0).type = "success"
        BY DEF Msg
      <4>4. queue'["server"] = Append(queue["server"], Msg("success", 0))
        BY <1>4, <3>2
      <4>5. \A i \in 1..Len(queue'["server"]) :
               \/ i \in 1..Len(queue["server"]) /\ queue'["server"][i] = queue["server"][i]
               \/ queue'["server"][i] = Msg("success", 0)
        BY <4>1, <4>4, Appended
      <4>6. \A i \in 1..Len(queue'["server"]) : queue'["server"][i].type # "request"
        BY <4>2, <4>3, <4>5
      <4> QED
        BY <1>2, <1>7, <3>2, <4>6 DEF Grown
    <3> QED
      BY <3>1, <3>2
  <2> QED
    BY <1>1, <2>1, <2>2
<1>10. ASSUME AuthFine
       PROVE  /\ ~authenticated["server"] /\ ~authenticated["client"] /\ auths["client"]
              /\ cookies["client"] = 1 /\ cookies["server"] = 1 /\ kexinit["server"] = 0
              /\ Level("server") = 1
  <2>1. /\ ~authenticated["server"] /\ ~authenticated["client"] /\ auths["client"]
        /\ cookies["client"] = 1 /\ cookies["server"] = 1
    BY <1>1, <1>10 DEF AuthFine
  <2> QED
    BY <1>7, <2>1, Levels DEF Level
<1>11. ASSUME AuthFine PROVE AuthFine'
  <2>1. queue' = queue \/ \A y \in Sides : queue'[y] = queue[y]
    BY <1>1, <1>4, <1>10, <1>11
  <2>2. open["server"] => NothingTo(wire["server"]) /\ ~Has(wire["server"], "request", 0)
                          /\ AskedOn(wire["server"], authenticated["client"])
    BY <1>1, <1>10, <1>11 DEF AuthFine
  <2>3. ASSUME open["client"] PROVE Has(c \o u, "success", 0) /\ Once(c \o u, "success", 0)
    <3>1. ~Has(c, "success", 0)
      BY <1>10, <1>11, <2>3 DEF AuthFine, c
    <3>2. Len(u) = 1 /\ 1 \in 1..Len(u) /\ u[1].type = "success"
      <4>1. Len(u) = 1
        BY <1>6, <1>10, <1>11
      <4>2. 1 \in 1..Len(u)
        BY <4>1
      <4> QED
        BY <1>6, <4>1, <4>2
    <3>3. Has(u, "success", 0) /\ Once(u, "success", 0)
      BY <3>2 DEF Has, Once
    <3>4. 0 \in Nat /\ 0 <= Len(c)
      BY <1>5
    <3>5. Has(c \o u, "success", 0)
      BY <1>5, <3>3, Writing
    <3> QED
      BY <1>5, <3>1, <3>3, <3>4, <3>5, Written
  <2>4. \A x \in Sides : \A i \in 1..Len(queue'[x]) : queue'[x][i].type = "app"
    BY <1>11, <2>1 DEF AuthFine
  <2> QED
    BY <1>1, <1>2, <1>5, <1>10, <1>11, <2>2, <2>3, <2>4 DEF AuthFine
<1>12. ASSUME ZipFine, Delays => AuthFine PROVE ZipFine'
  <2>1. \A y \in Sides : open'[y] => open[y]
    BY <1>1
  <2>2. \A k \in 1..Len(u) : ~Behind(u, "success", k)
    <3>1. Len(u) \in {0, 1}
      BY <1>6
    <3>2. \A j, k \in 1..Len(u) : ~(j < k)
      BY <3>1
    <3> QED
      BY <3>2 DEF Behind
  <2>3. 0 # 1
    OBVIOUS
  <2>4. /\ open'["client"] => ZipToClient(wire'["client"], Algorithms["scCompress"], authenticated["client"])
        /\ open'["server"] => ZipToServer(wire'["server"], Algorithms["csCompress"], authenticated["client"])
    BY <1>1, <1>3, <1>6, <1>12, <2>1, <2>2, <2>3, ZipWires
  <2>5. Algorithms' = Algorithms
    BY <1>1 DEF Algorithms
  <2>6. Delays => in["server"].keys = <<1, 1>> /\ out["server"].keys = <<1, 1>>
    BY <1>10, <1>12 DEF Steady, SidesFine, SideFine
  <2>7. /\ Algorithms["csCompress"] = "zlib@openssh.com" => in["server"].keys = <<1, 1>>
        /\ Algorithms["scCompress"] = "zlib@openssh.com" => out["server"].keys = <<1, 1>>
    BY <2>6, NotDelayed
  <2>8. /\ in["server"].zip = ZipFor(Algorithms["csCompress"], in["server"].keys, authenticated["server"])
        /\ out["server"].zip = ZipFor(Algorithms["scCompress"], out["server"].keys, authenticated["server"])
    BY <1>12 DEF ZipFine, SideZips, ReadSlot, WriteSlot
  <2>9. /\ in'["server"].zip = ZipFor(Algorithms["csCompress"], in["server"].keys, TRUE)
        /\ out'["server"].zip = ZipFor(Algorithms["scCompress"], out["server"].keys, TRUE)
    <3>1. Delayed("server", "csCompress", ZipFor(Algorithms["csCompress"], in["server"].keys, authenticated["server"]))
            = ZipFor(Algorithms["csCompress"], in["server"].keys, TRUE)
      BY <1>1, <1>7, <2>7, DelayedFor
    <3>2. Delayed("server", "scCompress", ZipFor(Algorithms["scCompress"], out["server"].keys, authenticated["server"]))
            = ZipFor(Algorithms["scCompress"], out["server"].keys, TRUE)
      BY <1>1, <1>7, <2>7, DelayedFor
    <3> QED
      BY <1>4, <2>8, <3>1, <3>2
  <2>10. SideZips("server")'
    BY <1>2, <1>4, <2>5, <2>9 DEF SideZips, ReadSlot, WriteSlot
  <2>11. SideZips("client")'
    BY <1>2, <1>4, <1>12, <2>5 DEF ZipFine, SideZips, ReadSlot, WriteSlot
  <2> QED
    BY <1>2, <2>4, <2>5, <2>10, <2>11 DEF ZipFine
<1> QED
  BY <1>1, <1>8, <1>9, <1>11, <1>12, CalmSteady

LEMMA SteadyRcvAuthSuccess ==
    ASSUME IInv, InSequence, Steady, RcvAuthSuccess PROVE InSequence' /\ Steady'
<1> DEFINE c == wire["client"]
<1> DEFINE s == wire["server"]
<1> DEFINE reads == [After(in["client"], 1) EXCEPT !.zip = Delayed("client", "scCompress", @)]
<1> DEFINE writes == [out["client"] EXCEPT !.zip = Delayed("client", "csCompress", @)]
<1>1. /\ open' = open /\ open["client"] /\ auths' = [auths EXCEPT !["client"] = FALSE]
      /\ authenticated' = [authenticated EXCEPT !["client"] = TRUE]
      /\ UNCHANGED <<offer, kexinit, cookies, mode, guess, session, early, queue>> /\ skip' = skip /\ kex' = kex
      /\ c # <<>> /\ Head(c).type = "success" /\ mode["client"] = "normal"
      /\ "client" \in Sides /\ "server" \in Sides /\ Sides = {"client", "server"}
      /\ Other("client") = "server"
  BY DEF RcvAuthSuccess, Arrives, kexVars, history, Sides, Other
<1>2. /\ auths'["client"] = FALSE /\ auths'["server"] = auths["server"]
      /\ authenticated'["client"] = TRUE /\ authenticated'["server"] = authenticated["server"]
      /\ authenticated \in [Sides -> BOOLEAN]
  BY <1>1, LinksAre DEF Typed
<1>3. /\ in["client"] \in Ciphers /\ out["client"] \in Ciphers /\ c \in Seq(OnWire) /\ s \in Seq(OnWire)
      /\ out["client"].seqno \in 0..(SeqMod - 1)
  BY <1>1, LinksAre DEF Typed, Ciphers
<1>4. /\ in' = [in EXCEPT !["client"] = reads] /\ out' = [out EXCEPT !["client"] = writes]
      /\ wire' = [wire EXCEPT !["client"] = Tail(c)]
  <2>1. in' = [in EXCEPT !["client"] = reads]
    BY DEF RcvAuthSuccess
  <2>2. out' = [out EXCEPT !["client"] = writes]
    BY DEF RcvAuthSuccess
  <2> QED
    BY <2>1, <2>2 DEF RcvAuthSuccess
<1>5. /\ After(in["client"], 1) \in Ciphers /\ After(in["client"], 1).keys = in["client"].keys
      /\ After(in["client"], 1).zip = in["client"].zip
      /\ After(in["client"], 1).seqno = (in["client"].seqno + 1) % SeqMod
  BY <1>3, Counts, Counting
<1>6. /\ reads.keys = in["client"].keys /\ reads.seqno = (in["client"].seqno + 1) % SeqMod
      /\ reads.zip = Delayed("client", "scCompress", in["client"].zip)
  BY <1>5, DelayedCipher
<1>7. /\ writes.keys = out["client"].keys /\ writes.seqno = out["client"].seqno
      /\ writes.zip = Delayed("client", "csCompress", out["client"].zip)
  BY <1>3, DelayedCipher
<1> HIDE DEF reads, writes
<1>8. /\ in'["client"] = reads /\ in'["server"] = in["server"]
      /\ out'["client"] = writes /\ out'["server"] = out["server"]
      /\ wire'["client"] = Tail(c) /\ wire'["server"] = s
  BY <1>1, <1>4, LinksAre DEF Typed
<1>9. /\ <<>> \in Seq(OnWire) /\ s \o <<>> = s /\ Len(<<>>) = 0
      /\ \A k \in 1..Len(<<>>) : FALSE
  BY <1>3
<1>10. Flows("client", <<>>, 1)
  <2>1. out'["client"].seqno = (out["client"].seqno + 0) % SeqMod
    BY <1>3, <1>7, <1>8, InRange
  <2> QED
    BY <1>1, <1>6, <1>8, <1>9, <2>1 DEF Flows
<1>11. Level("client") >= 1 /\ kex["client"].hash # NoKeys
  <2>1. Level("client") >= 1
    BY <1>1 DEF Steady, SidesFine, SideFine
  <2> QED
    BY <2>1 DEF Steady, SidesFine, SideFine
<1>12. Calm("client", <<>>, 1)
  <2>1. Plainly("client", <<>>)
    BY <1>9 DEF Plainly
  <2>2. C' = C /\ S' = S
    BY <1>1 DEF C, S
  <2>3. \A y \in Sides : in'[y].keys = in[y].keys /\ out'[y].keys = out[y].keys
    BY <1>1, <1>6, <1>7, <1>8
  <2> QED
    BY <1>1, <1>10, <2>1, <2>2, <2>3 DEF Calm
<1>13. \A y \in Sides : Grown(y)
  BY <1>1, <1>2, <1>11 DEF Grown
<1> HIDE DEF c, s
<1>14. Has(c, "success", 0)
  BY <1>1, <1>3, Reading
<1>15. ASSUME AuthFine
       PROVE  /\ authenticated["server"] /\ ~authenticated["client"] /\ ~auths["server"]
              /\ cookies["client"] = 1 /\ Level("client") = 1
              /\ open["server"] => NothingTo(s) /\ ~Has(s, "request", 0)
  <2>1. authenticated["server"] /\ ~authenticated["client"]
    BY <1>1, <1>14, <1>15 DEF AuthFine, c
  <2>2. /\ ~auths["server"] /\ cookies["client"] = 1
        /\ open["server"] => NothingTo(s) /\ ~Has(s, "request", 0)
    BY <1>15, <2>1 DEF AuthFine, s
  <2> QED
    BY <1>11, <2>1, <2>2, Levels
<1>16. ASSUME AuthFine PROVE AuthFine'
  <2>1. ~Has(Tail(c), "success", 0) /\ Once(Tail(c), "success", 0)
    <3>1. Once(c, "success", 0)
      BY <1>1, <1>16 DEF AuthFine, c
    <3> QED
      BY <1>1, <1>3, <3>1, Read
  <2>2. AskedOn(s, TRUE)
    BY DEF AskedOn
  <2>3. \A x \in Sides : \A i \in 1..Len(queue'[x]) : queue'[x][i].type = "app"
    BY <1>1, <1>16 DEF AuthFine
  <2> QED
    BY <1>1, <1>2, <1>8, <1>15, <1>16, <2>1, <2>2, <2>3 DEF AuthFine
<1>17. ASSUME ZipFine, Delays => AuthFine PROVE ZipFine'
  <2>1. Algorithms' = Algorithms
    BY <1>1 DEF Algorithms
  <2>2. ZipToClient(Tail(c), Algorithms["scCompress"], TRUE)
    <3>1. ZipToClient(c, Algorithms["scCompress"], authenticated["client"])
      BY <1>1, <1>17 DEF ZipFine, c
    <3>2. authenticated["client"] \in BOOLEAN /\ (authenticated["client"] \/ Head(c).type = "success") = TRUE
      BY <1>1, <1>2
    <3>3. ZipToClient(Tail(c), Algorithms["scCompress"], authenticated["client"] \/ Head(c).type = "success")
      BY <1>1, <1>3, <3>1, <3>2, ZipReads
    <3> QED
      BY <3>2, <3>3
  <2>3. ASSUME open["server"] PROVE ZipToServer(s, Algorithms["csCompress"], TRUE)
    <3>1. CASE Delays
      <4>1. NothingTo(s)
        BY <1>15, <1>17, <2>3, <3>1
      <4> QED
        BY <4>1 DEF NothingTo, ZipToServer
    <3>2. CASE ~Delays
      <4>1. Algorithms["csCompress"] # "zlib@openssh.com"
        BY <3>2, NotDelayed
      <4>2. ZipToServer(s, Algorithms["csCompress"], authenticated["client"])
        BY <1>17, <2>3 DEF ZipFine, s
      <4>3. \A keys : ZipFor(Algorithms["csCompress"], keys, authenticated["client"])
                        = ZipFor(Algorithms["csCompress"], keys, TRUE)
        BY <4>1, ZipAnyway
      <4> QED
        BY <4>2, <4>3 DEF ZipToServer
    <3> QED
      BY <3>1, <3>2
  <2>4. Delays => in["client"].keys = <<1, 1>> /\ out["client"].keys = <<1, 1>>
    BY <1>15, <1>17 DEF Steady, SidesFine, SideFine
  <2>5. /\ Algorithms["scCompress"] = "zlib@openssh.com" => in["client"].keys = <<1, 1>>
        /\ Algorithms["csCompress"] = "zlib@openssh.com" => out["client"].keys = <<1, 1>>
    BY <2>4, NotDelayed
  <2>6. /\ in["client"].zip = ZipFor(Algorithms["scCompress"], in["client"].keys, authenticated["client"])
        /\ out["client"].zip = ZipFor(Algorithms["csCompress"], out["client"].keys, authenticated["client"])
    BY <1>17 DEF ZipFine, SideZips, ReadSlot, WriteSlot
  <2>7. Delayed("client", "scCompress", ZipFor(Algorithms["scCompress"], in["client"].keys, authenticated["client"]))
          = ZipFor(Algorithms["scCompress"], in["client"].keys, TRUE)
    BY <1>1, <1>11, <2>5, DelayedFor
  <2>8. Delayed("client", "csCompress", ZipFor(Algorithms["csCompress"], out["client"].keys, authenticated["client"]))
          = ZipFor(Algorithms["csCompress"], out["client"].keys, TRUE)
    BY <1>1, <1>11, <2>5, DelayedFor
  <2>9. SideZips("client")'
    <3>1. /\ in'["client"].keys = in["client"].keys /\ out'["client"].keys = out["client"].keys
          /\ in'["client"].zip = ZipFor(Algorithms["scCompress"], in["client"].keys, TRUE)
          /\ out'["client"].zip = ZipFor(Algorithms["csCompress"], out["client"].keys, TRUE)
      BY <1>6, <1>7, <1>8, <2>6, <2>7, <2>8
    <3> QED
      BY <1>2, <2>1, <3>1 DEF SideZips, ReadSlot, WriteSlot
  <2>10. SideZips("server")'
    BY <1>2, <1>8, <1>17, <2>1 DEF ZipFine, SideZips, ReadSlot, WriteSlot
  <2> QED
    BY <1>1, <1>2, <1>8, <2>1, <2>2, <2>3, <2>9, <2>10 DEF ZipFine
<1> QED
  BY <1>1, <1>12, <1>13, <1>16, <1>17, CalmSteady

-----------------------------------------------------------------------------
(* The steps of an exchange.                                               *)

\* x writes u of the exchange with its cipher and reads r packets: what is left to
\* show is that what is under way is in order.
LEMMA KexSteady ==
    ASSUME IInv, InSequence, Steady, NEW x \in Sides, NEW u, NEW r, Flows(x, u, r), KeptCiphers,
           \A k \in 1..Len(u) : /\ u[k].keys = out[x].keys /\ u[k].zip = out[x].zip
                                /\ u[k].type \notin {"request", "success"},
           UNCHANGED <<authenticated, auths, offer, session, open>>, early => early',
           \A y \in Sides : /\ Level(y)' = Level(y)
                            /\ mode'[y] = mode[y] \/ mode'[y] = "kex"
                            /\ mode'[y] = "first" => kexinit'[y] = kexinit[y] /\ cookies'[y] = cookies[y]
                            /\ kexinit'[y] = 0 => kexinit[y] = 0
                            /\ kex'[y].hash = kex[y].hash \/ kex'[y].hash # NoKeys
                            /\ queue'[y] = queue[y] \/ queue'[y] = <<>>,
           AuthFine /\ ~early' /\ ~authenticated["client"] =>
              cookies' = cookies /\ (x = "client" => NothingTo(u) \/ ~auths["client"]),
           r = 1 => Head(wire[x]).type \notin {"request", "success"},
           InOrder'
    PROVE  InSequence' /\ Steady'
<1>1. SidesFine /\ AuthInStep /\ ZipInStep
  BY DEF Steady
<1>2. InSequence'
  BY LinksAre, FlowsOn
<1>3. SidesFine'
  <2>1. \A y \in Sides : in'[y].keys = in[y].keys /\ out'[y].keys = out[y].keys
    BY DEF KeptCiphers
  <2> QED
    BY <1>1, <2>1, SidesKept
<1>4. \A y \in Sides : open'[y] => open[y]
  OBVIOUS
<1>5. ASSUME AuthFine, ~early' PROVE AuthFine'
  <2>1. \A y \in Sides : \A i \in 1..Len(queue'[y]) : queue'[y][i].type = "app"
    <3>1. SUFFICES ASSUME NEW y \in Sides PROVE \A i \in 1..Len(queue'[y]) : queue'[y][i].type = "app"
      OBVIOUS
    <3>2. CASE queue'[y] = queue[y]
      BY <1>5, <3>2 DEF AuthFine
    <3>3. CASE queue'[y] = <<>>
      BY <3>3
    <3> QED
      BY <3>2, <3>3
  <2>2. ~authenticated["client"] => cookies' = cookies /\ (x = "client" => NothingTo(u) \/ ~auths["client"])
    BY <1>5
  <2> QED
    BY <1>4, <1>5, <2>1, <2>2, AuthKept
<1>6. ASSUME ZipFine, Delays => AuthFine PROVE ZipFine'
  BY <1>4, <1>6, ZipKept
<1>7. AuthInStep' /\ ZipInStep'
  BY <1>1, <1>5, <1>6, StaysInStep
<1> QED
  BY <1>2, <1>3, <1>7 DEF Steady

\* rekey(): what is written and kept.
LEMMA Rekeying ==
    ASSUME IInv, NEW x \in Sides, Rekey(x)
    PROVE  /\ KeptCiphers
           /\ \E u : /\ Flows(x, u, 0) /\ Len(u) = 1 /\ u \in Seq(OnWire)
                     /\ \A k \in 1..Len(u) : /\ u[k].keys = out[x].keys /\ u[k].zip = out[x].zip
                                             /\ u[k].type = "kexinit"
           /\ kexinit[x] = 0 /\ kexinit'[x] = cookies[x] + 1 /\ cookies'[x] = cookies[x] + 1
           /\ \A y \in Sides : y # x => kexinit'[y] = kexinit[y] /\ cookies'[y] = cookies[y]
           /\ \A y \in Sides : queue'[y] = queue[y] \/ queue'[y] = <<>>
           /\ UNCHANGED <<authenticated, auths, offer, kex, mode, session, guess, skip, open>>
           /\ early' = (early \/ ~authenticated["client"])
<1>1. /\ Transmit(x, <<Msg("kexinit", cookies[x] + 1)>>) /\ in' = in /\ kexinit[x] = 0
      /\ UNCHANGED <<authenticated, auths, offer, kex, mode, session, guess, skip, open>>
      /\ early' = (early \/ ~authenticated["client"])
      /\ queue' = [queue EXCEPT ![x] = <<>>] /\ cookies' = [cookies EXCEPT ![x] = @ + 1]
      /\ kexinit' = [kexinit EXCEPT ![x] = cookies[x] + 1]
  BY DEF Rekey, authVars
<1>2. Typed /\ LinksTyped
  BY LinksAre
<1>3. <<Msg("kexinit", cookies[x] + 1)>> \in Seq(Letters)
  <2>1. "kexinit" \in Types /\ cookies[x] + 1 \in Args
    BY <1>2 DEF Types, Args, Typed
  <2> QED
    BY <2>1, Single
<1>4. KeptCiphers /\ \E u : /\ Flows(x, u, 0)
                            /\ SealedBy(u, <<Msg("kexinit", cookies[x] + 1)>>, out[x].keys, out[x].zip)
  BY <1>1, <1>2, <1>3, Transmitting
<1>5. PICK u : Flows(x, u, 0) /\ SealedBy(u, <<Msg("kexinit", cookies[x] + 1)>>, out[x].keys, out[x].zip)
  BY <1>4
<1>6. /\ Len(u) = 1 /\ u \in Seq(OnWire)
      /\ \A k \in 1..Len(u) : u[k].keys = out[x].keys /\ u[k].zip = out[x].zip /\ u[k].type = "kexinit"
  BY <1>5 DEF SealedBy, Msg
<1>7. /\ kexinit'[x] = cookies[x] + 1 /\ cookies'[x] = cookies[x] + 1
      /\ \A y \in Sides : y # x => kexinit'[y] = kexinit[y] /\ cookies'[y] = cookies[y]
      /\ \A y \in Sides : queue'[y] = queue[y] \/ queue'[y] = <<>>
  BY <1>1, <1>2 DEF Typed
<1> QED
  BY <1>1, <1>4, <1>5, <1>6, <1>7

\* A single packet, behind w or alone.
LEMMA Alone ==
    ASSUME NEW u, Len(u) = 1, NEW type, \A k \in 1..Len(u) : u[k].type = type
    PROVE  /\ \A t : Has(u, t, 0) <=> t = type
           /\ \A t, k : k \in 1..Len(u) => ~Behind(u, t, k)
<1>1. 1..Len(u) = {1}
  OBVIOUS
<1> QED
  BY <1>1 DEF Has, Behind

\* rekey() keeps what is under way in order, on either side.
LEMMA RekeySteady ==
    ASSUME IInv, InSequence, Steady, NEW x \in Sides, Rekey(x), InOrder'
    PROVE  InSequence' /\ Steady'
<1>1. /\ KeptCiphers
      /\ kexinit[x] = 0 /\ kexinit'[x] = cookies[x] + 1 /\ cookies'[x] = cookies[x] + 1
      /\ \A y \in Sides : y # x => kexinit'[y] = kexinit[y] /\ cookies'[y] = cookies[y]
      /\ \A y \in Sides : queue'[y] = queue[y] \/ queue'[y] = <<>>
      /\ UNCHANGED <<authenticated, auths, offer, kex, mode, session, guess, skip, open>>
      /\ early' = (early \/ ~authenticated["client"])
  BY Rekeying
<1>2. PICK u : /\ Flows(x, u, 0) /\ Len(u) = 1 /\ u \in Seq(OnWire)
               /\ \A k \in 1..Len(u) : /\ u[k].keys = out[x].keys /\ u[k].zip = out[x].zip
                                       /\ u[k].type = "kexinit"
  BY Rekeying
<1>3. cookies[x] \in Nat
  BY LinksAre DEF Typed
<1>4. \A y \in Sides : Level(y)' = Level(y)
  <2>1. Level(x)' = Level(x)
    BY <1>1, <1>3 DEF Level
  <2>2. \A y \in Sides : y # x => Level(y)' = Level(y)
    BY <1>1 DEF Level
  <2> QED
    BY <2>1, <2>2
<1>5. mode[x] # "first"
  BY <1>1 DEF Steady, SidesFine, SideFine, Sides
<1>6. \A y \in Sides : /\ mode'[y] = mode[y]
                       /\ mode'[y] = "first" => kexinit'[y] = kexinit[y] /\ cookies'[y] = cookies[y]
                       /\ kexinit'[y] = 0 => kexinit[y] = 0
                       /\ kex'[y].hash = kex[y].hash
  <2>1. kexinit'[x] # 0
    BY <1>1, <1>3
  <2> QED
    BY <1>1, <1>5, <2>1
<1>7. /\ (~early' => authenticated["client"]) /\ (early => early') /\ 0 # 1
  <2>1. (~early' => authenticated["client"]) /\ (early => early')
    BY <1>1, Zenon
  <2>2. 0 # 1
    OBVIOUS
  <2> QED
    BY <2>1, <2>2
<1>8. \A k \in 1..Len(u) : /\ u[k].keys = out[x].keys /\ u[k].zip = out[x].zip
                           /\ u[k].type \notin {"request", "success"}
  BY <1>2
<1> QED
  BY <1>1, <1>2, <1>4, <1>6, <1>7, <1>8, KexSteady

\* The first packet to the server stays where it is when others follow.
LEMMA GuessStays ==
    ASSUME NEW s \in Seq(OnWire), NEW u \in Seq(OnWire), NEW d \in Nat, d <= Len(s)
    PROVE  d = 2 => (s \o u)[1] = s[1]
<1>1. \A k \in 1..Len(s) : (s \o u)[k] = s[k]
  BY Writing
<1>2. d = 2 => 1 \in 1..Len(s)
  OBVIOUS
<1> QED
  BY <1>1, <1>2

LEMMA SteadyClientRekey ==
    ASSUME IInv, InSequence, Steady, Rekey("client") PROVE InSequence' /\ Steady'
<1> DEFINE c == wire["client"]
<1> DEFINE s == wire["server"]
<1> DEFINE d == Guessed(guess, mode["server"], skip)
<1>1. "client" \in Sides /\ "server" \in Sides /\ "server" # "client"
  BY DEF Sides
<1>2. /\ kexinit["client"] = 0 /\ kexinit'["client"] = cookies["client"] + 1
      /\ cookies'["client"] = cookies["client"] + 1
      /\ kexinit'["server"] = kexinit["server"] /\ cookies'["server"] = cookies["server"]
      /\ UNCHANGED <<kex, mode, guess, skip, open>>
  BY <1>1, Rekeying
<1>3. PICK u : /\ Flows("client", u, 0) /\ Len(u) = 1 /\ u \in Seq(OnWire)
               /\ \A k \in 1..Len(u) : u[k].keys = out["client"].keys /\ u[k].type = "kexinit"
  BY <1>1, Rekeying
<1>4. /\ c \in Seq(OnWire) /\ s \in Seq(OnWire) /\ wire'["client"] = c /\ wire'["server"] = s \o u
  BY <1>3, Tables DEF Flows, Other
<1>5. C = 0 /\ C' = 1 /\ S' = S
  <2>1. mode["client"] # "kex" /\ C = 0
    BY <1>2, PhaseFacts
  <2>2. kexinit'["client"] # 0
    BY <1>2, PhaseFacts
  <2> QED
    BY <1>2, <2>1, <2>2 DEF C, S, Phase
<1>6. S \in {0, 1, 3}
  BY <1>5, PhaseFacts DEF Joint
<1>7. Level("client")' = Level("client") /\ Level("server")' = Level("server")
  BY <1>2, PhaseFacts DEF Level
<1>8. d' = d /\ d \in Nat
  BY <1>2 DEF Guessed
<1>9. ASSUME open["client"] PROVE OrderToClient(c, Level("client"), 1, S, mode["client"])
  <2>1. OrderToClient(c, Level("client"), 0, S, mode["client"])
    BY <1>5, <1>9 DEF Steady, InOrder
  <2> HIDE DEF c
  <2> QED
    BY <2>1 DEF OrderToClient
<1>10. ASSUME open["server"]
       PROVE  OrderToServer(s \o u, Level("server"), cookies["server"], 1, S, mode["server"], d)
  <2>1. /\ OrderToServer(s, Level("server"), cookies["server"], 0, S, mode["server"], d)
        /\ ToServer(s, 0, S, cookies["client"], d)
    BY <1>5, <1>10, Tables DEF Steady, InOrder
  <2> HIDE DEF s, d
  <2>2. /\ \A t : Has(u, t, 0) <=> t = "kexinit"
        /\ \A t, k : k \in 1..Len(u) => ~Behind(u, t, k)
    BY <1>3, Alone
  <2>3. ~Has(s, "kexinit", 0) /\ (S = 3 <=> Has(s, "newkeys", 0)) /\ d <= Len(s)
    BY <2>1 DEF ToServer, OrderToServer
  <2>4. out["client"].keys = IF S = 3 THEN <<cookies["server"], cookies["server"]>>
                             ELSE <<Level("server"), Level("server")>>
    <3>1. out["client"].keys = <<Level("client"), Level("client")>>
      BY DEF Steady, SidesFine, SideFine
    <3>2. Level("client") = IF S = 3 THEN cookies["server"] ELSE Level("server")
      BY <1>5, Levels
    <3> QED
      BY <3>1, <3>2
  <2>5. MayFollowToServer(s, u, Level("server"), cookies["server"], S, mode["server"])
    BY <1>3, <2>2, <2>3, <2>4 DEF MayFollowToServer
  <2>6. ServerExpects(s \o u, Level("server"), cookies["server"], S, mode["server"], d)
    BY <1>3, <1>4, <1>8, <2>1, <2>5, ServerGets DEF OrderToServer
  <2>7. \A t : Has(s \o u, t, 0) <=> Has(s, t, 0) \/ Has(u, t, 0)
    BY <1>3, <1>4, Writing
  <2>8. d = 2 => (s \o u)[1] = s[1]
    BY <1>3, <1>4, <1>8, <2>3, GuessStays
  <2> QED
    BY <2>1, <2>2, <2>6, <2>7, <2>8 DEF OrderToServer
<1> HIDE DEF c, s, d
<1>11. InOrder'
  BY <1>2, <1>4, <1>5, <1>7, <1>8, <1>9, <1>10 DEF InOrder, d
<1> QED
  BY <1>1, <1>11, RekeySteady

LEMMA SteadyServerRekey ==
    ASSUME IInv, InSequence, Steady, Rekey("server") PROVE InSequence' /\ Steady'
<1> DEFINE c == wire["client"]
<1> DEFINE s == wire["server"]
<1> DEFINE d == Guessed(guess, mode["server"], skip)
<1>1. "client" \in Sides /\ "server" \in Sides /\ "server" # "client"
  BY DEF Sides
<1>2. /\ kexinit["server"] = 0 /\ kexinit'["server"] = cookies["server"] + 1
      /\ cookies'["server"] = cookies["server"] + 1
      /\ kexinit'["client"] = kexinit["client"] /\ cookies'["client"] = cookies["client"]
      /\ UNCHANGED <<kex, mode, guess, skip, open>>
  BY <1>1, Rekeying
<1>3. PICK u : /\ Flows("server", u, 0) /\ Len(u) = 1 /\ u \in Seq(OnWire)
               /\ \A k \in 1..Len(u) : u[k].keys = out["server"].keys /\ u[k].type = "kexinit"
  BY <1>1, Rekeying
<1>4. /\ c \in Seq(OnWire) /\ s \in Seq(OnWire) /\ wire'["client"] = c \o u /\ wire'["server"] = s
  BY <1>3, Tables DEF Flows, Other
<1>5. S = 0 /\ S' = 1 /\ C' = C
  <2>1. mode["server"] # "kex" /\ S = 0
    BY <1>2, PhaseFacts
  <2>2. kexinit'["server"] # 0
    BY <1>2, PhaseFacts
  <2> QED
    BY <1>2, <2>1, <2>2 DEF C, S, Phase
<1>6. C \in {0, 1}
  BY <1>5, PhaseFacts DEF Joint
<1>7. Level("client")' = Level("client") /\ Level("server")' = Level("server")
  BY <1>2, PhaseFacts DEF Level
<1>8. d' = d /\ d \in Nat
  BY <1>2 DEF Guessed
<1>9. ASSUME open["client"] PROVE OrderToClient(c \o u, Level("client"), C, 1, mode["client"])
  <2>1. /\ OrderToClient(c, Level("client"), C, 0, mode["client"])
        /\ ToClient(c, C, 0, cookies["server"], kex["server"].hash)
    BY <1>5, <1>9, Tables DEF Steady, InOrder
  <2> HIDE DEF c
  <2>2. /\ \A t : Has(u, t, 0) <=> t = "kexinit"
        /\ \A t, k : k \in 1..Len(u) => ~Behind(u, t, k)
    BY <1>3, Alone
  <2>3. OrderToClient(c, Level("client"), C, 1, mode["client"])
    BY <2>1 DEF OrderToClient
  <2>4. ~Has(c, "newkeys", 0)
    BY <2>1 DEF ToClient
  <2>5. out["server"].keys = <<Level("client"), Level("client")>>
    <3>1. out["server"].keys = <<Level("server"), Level("server")>>
      BY DEF Steady, SidesFine, SideFine
    <3>2. Level("client") = Level("server")
      BY <1>5, Levels
    <3> QED
      BY <3>1, <3>2
  <2>6. MayFollow(c, u, Level("client"), C, 1, mode["client"])
    BY <1>3, <2>2, <2>4, <2>5 DEF MayFollow
  <2> QED
    BY <1>3, <1>4, <2>3, <2>6, ClientGets
<1>10. ASSUME open["server"]
       PROVE  OrderToServer(s, Level("server"), cookies["server"] + 1, C, 1, mode["server"], d)
  <2>1. /\ OrderToServer(s, Level("server"), cookies["server"], C, 0, mode["server"], d)
        /\ ToServer(s, C, 0, cookies["client"], d)
    BY <1>5, <1>10, Tables DEF Steady, InOrder
  <2> HIDE DEF s, d
  <2>2. ~Has(s, "newkeys", 0) /\ ~Has(s, "dhinit", d)
    BY <1>6, <2>1 DEF ToServer
  <2>3. (\A k : ~Behind(s, "newkeys", k)) /\ (\A k \in 1..Len(s) : ~(s[k].type = "dhinit" /\ k > d))
    <3>1. \A k \in 1..Len(s) : k > 0
      OBVIOUS
    <3> QED
      BY <2>2, <3>1 DEF Has, Behind
  <2>4. ServerExpects(s, Level("server"), cookies["server"] + 1, 1, mode["server"], d)
    BY <2>1, <2>3 DEF OrderToServer, ServerExpects
  <2> QED
    BY <1>6, <2>1, <2>4 DEF OrderToServer
<1> HIDE DEF c, s, d
<1>11. InOrder'
  BY <1>2, <1>4, <1>5, <1>7, <1>8, <1>9, <1>10 DEF InOrder, d
<1> QED
  BY <1>1, <1>11, RekeySteady

\* What a side writes when it has read a KEXINIT: its own, if it has not yet, and
\* the client's first packet of the method.
Opening(x, u) ==
    /\ \A k \in 1..Len(u) :
          /\ u[k].keys = out[x].keys /\ u[k].zip = out[x].zip
          /\ u[k].type \in {"kexinit", "dhinit"} /\ (x = "server" => u[k].type = "kexinit")
          /\ u[k].type = "kexinit" => kexinit[x] = 0
          /\ u[k].type = "dhinit" /\ kexinit[x] = 0 => Behind(u, "kexinit", k)
    /\ kexinit[x] = 0 => Has(u, "kexinit", 0)

LEMMA Short ==
    ASSUME NEW m, NEW e
    PROVE  /\ Len(<<m>>) = 1 /\ <<m>>[1] = m /\ 1..1 = {1}
           /\ Len(<<m, e>>) = 2 /\ <<m, e>>[1] = m /\ <<m, e>>[2] = e /\ 1..2 = {1, 2}
           /\ <<m>> \o <<e>> = <<m, e>> /\ <<m>> \o <<>> = <<m>> /\ <<>> \o <<e>> = <<e>>
<1>1. Len(<<m>>) = 1 /\ <<m>>[1] = m /\ 1..1 = {1}
  OBVIOUS
<1>2. Len(<<m, e>>) = 2 /\ <<m, e>>[1] = m /\ <<m, e>>[2] = e /\ 1..2 = {1, 2}
  OBVIOUS
<1>3. <<m>> \o <<e>> = <<m, e>>
  <2> DEFINE V == {m, e}
  <2> DEFINE p == <<m>>
  <2> DEFINE q == <<e>>
  <2>1. p \in Seq(V) /\ q \in Seq(V) /\ <<m, e>> \in Seq(V)
    OBVIOUS
  <2>2. Len(p) = 1 /\ p[1] = m /\ Len(q) = 1 /\ q[1] = e /\ 1 \in 1..1 /\ 1 + 1 = 2
    OBVIOUS
  <2> HIDE DEF V, p, q
  <2>3. /\ p \o q \in Seq(V) /\ Len(p \o q) = Len(p) + Len(q)
        /\ \A k \in 1..Len(p) : (p \o q)[k] = p[k]
        /\ \A k \in 1..Len(q) : (p \o q)[Len(p) + k] = q[k]
    BY <2>1, Writing
  <2>4. Len(p \o q) = 2 /\ (p \o q)[1] = m /\ (p \o q)[2] = e
    BY <2>2, <2>3
  <2>5. \A i \in 1..2 : (p \o q)[i] = <<m, e>>[i]
    BY <1>2, <2>4
  <2>6. p \o q = <<m, e>>
    <3> DEFINE r == p \o q
    <3> DEFINE z == <<m, e>>
    <3>1. /\ r \in Seq(V) /\ z \in Seq(V) /\ Len(r) = Len(z)
          /\ \A i \in 1..Len(r) : r[i] = z[i]
      BY <1>2, <2>1, <2>3, <2>4, <2>5
    <3> HIDE DEF r, z
    <3>2. r = z
      BY <3>1, SeqEqual, Zenon
    <3> QED
      BY <3>2 DEF r, z
  <2> QED
    BY <2>6 DEF p, q
<1>4. <<m>> \o <<>> = <<m>> /\ <<>> \o <<e>> = <<e>>
  OBVIOUS
<1> QED
  BY <1>1, <1>2, <1>3, <1>4

LEMMA OpensWith ==
    ASSUME NEW x \in Sides, NEW arg, NEW own, NEW msgs, NEW u,
           own = IF kexinit[x] = 0 THEN <<Msg("kexinit", arg)>> ELSE <<>>, msgs = own \o Start(x),
           SealedBy(u, msgs, out[x].keys, out[x].zip)
    PROVE  Opening(x, u)
<1>1. /\ Len(u) = Len(msgs)
      /\ \A k \in 1..Len(msgs) : /\ u[k].type = msgs[k].type
                                 /\ u[k].keys = out[x].keys /\ u[k].zip = out[x].zip
  BY DEF SealedBy
<1>2. Msg("kexinit", arg).type = "kexinit" /\ Msg("dhinit", 0).type = "dhinit"
  BY DEF Msg
<1>3. Start(x) = <<>> \/ (x = "client" /\ Start(x) = <<Msg("dhinit", 0)>>)
  BY DEF Start
<1> DEFINE m == Msg("kexinit", arg)
<1> DEFINE e == Msg("dhinit", 0)
<1> HIDE DEF m, e
<1>4. CASE kexinit[x] = 0 /\ Start(x) = <<>>
  <2>1. msgs = <<m>>
    BY <1>4, Short DEF m
  <2>2. Len(u) = 1 /\ 1..Len(u) = {1} /\ msgs[1] = m
    BY <1>1, <2>1, Short
  <2>3. /\ \A k \in 1..Len(u) : /\ u[k].type = "kexinit" /\ u[k].keys = out[x].keys /\ u[k].zip = out[x].zip
        /\ Has(u, "kexinit", 0)
    BY <1>1, <1>2, <2>2 DEF Has, m
  <2> QED
    BY <1>4, <2>3 DEF Opening
<1>5. CASE kexinit[x] = 0 /\ x = "client" /\ Start(x) = <<Msg("dhinit", 0)>>
  <2>1. msgs = <<m, e>>
    BY <1>5, Short DEF m, e
  <2>2. Len(u) = 2 /\ 1..Len(u) = {1, 2} /\ msgs[1] = m /\ msgs[2] = e
    <3>1. Len(<<m, e>>) = 2 /\ <<m, e>>[1] = m /\ <<m, e>>[2] = e /\ 1..2 = {1, 2}
      BY Short
    <3> QED
      BY <1>1, <2>1, <3>1
  <2>3. /\ u[1].type = "kexinit" /\ u[2].type = "dhinit"
        /\ \A k \in 1..Len(u) : u[k].keys = out[x].keys /\ u[k].zip = out[x].zip
    BY <1>1, <1>2, <2>2 DEF m, e
  <2>4. Has(u, "kexinit", 0) /\ Behind(u, "kexinit", 2)
    BY <2>2, <2>3 DEF Has, Behind
  <2> QED
    BY <1>5, <2>2, <2>3, <2>4 DEF Opening
<1>6. CASE kexinit[x] # 0 /\ Start(x) = <<>>
  <2>1. Len(u) = 0
    BY <1>1, <1>6
  <2> QED
    BY <1>6, <2>1 DEF Opening
<1>7. CASE kexinit[x] # 0 /\ x = "client" /\ Start(x) = <<Msg("dhinit", 0)>>
  <2>1. msgs = <<e>>
    BY <1>7, Short DEF e
  <2>2. Len(u) = 1 /\ 1..Len(u) = {1} /\ msgs[1] = e
    BY <1>1, <2>1, Short
  <2>3. \A k \in 1..Len(u) : u[k].type = "dhinit" /\ u[k].keys = out[x].keys /\ u[k].zip = out[x].zip
    BY <1>1, <1>2, <2>2 DEF e
  <2> QED
    BY <1>7, <2>3 DEF Opening
<1> QED
  BY <1>3, <1>4, <1>5, <1>6, <1>7

\* handleKexInit(): what is read, written and kept.
LEMMA Beginning ==
    ASSUME IInv, NEW x \in Sides, RcvKexInit(x)
    PROVE  /\ wire[x] # <<>> /\ open[x] /\ Head(wire[x]).type = "kexinit" /\ mode[x] # "kex"
           /\ ~(x = "server" /\ skip)
           /\ \/ Fatal(x)
              \/ /\ KeptCiphers
                 /\ \E u : Flows(x, u, 1) /\ Opening(x, u)
                 /\ kexinit'[x] = IF kexinit[x] # 0 THEN kexinit[x] ELSE cookies[x] + 1
                 /\ cookies'[x] = IF kexinit[x] # 0 THEN cookies[x] ELSE cookies[x] + 1
                 /\ \A y \in Sides : y # x => /\ kexinit'[y] = kexinit[y] /\ cookies'[y] = cookies[y]
                                              /\ mode'[y] = mode[y] /\ kex'[y] = kex[y]
                 /\ mode'[x] = "kex" /\ kex'[x].step = 1
                 /\ skip' = (skip \/ (x = "server" /\ mode[x] = "first" /\ guess))
                 /\ UNCHANGED <<authenticated, auths, offer, session, guess, queue, open, early>>
                 /\ kexinit[x] # 0 => cookies' = cookies
<1> DEFINE chosen == Negotiated(x = "server", offer[x], offer[Other(x)])
<1> DEFINE mine == IF kexinit[x] # 0 THEN kexinit[x] ELSE cookies[x] + 1
<1> DEFINE own == IF kexinit[x] = 0 THEN <<Msg("kexinit", mine)>> ELSE <<>>
<1> DEFINE msgs == own \o Start(x)
<1> DEFINE k == [NoKex EXCEPT !.hash = ExchangeHash(x, mine, Head(wire[x]).arg), !.step = 1,
                              !.negotiated = chosen]
<1>1. Typed /\ LinksTyped
  BY LinksAre
<1>2. /\ wire[x] # <<>> /\ open[x] /\ Head(wire[x]).type = "kexinit" /\ mode[x] # "kex"
      /\ ~(x = "server" /\ skip)
  BY DEF RcvKexInit, Arrives
<1>3. CASE ~Complete(chosen)
  <2>1. Fatal(x)
    BY <1>3 DEF RcvKexInit
  <2> QED
    BY <1>2, <2>1
<1>4. CASE Complete(chosen)
  <2>1. /\ Answer(x, msgs)
        /\ kexinit' = [kexinit EXCEPT ![x] = mine]
        /\ cookies' = [cookies EXCEPT ![x] = IF kexinit[x] = 0 THEN mine ELSE cookies[x]]
        /\ mode' = [mode EXCEPT ![x] = "kex"]
        /\ kex' = [kex EXCEPT ![x] = k]
    BY <1>4 DEF RcvKexInit
  <2>2. /\ skip' = (skip \/ (x = "server" /\ mode[x] = "first" /\ guess))
        /\ UNCHANGED <<authenticated, auths, offer, session, guess, queue, open, early>>
    BY <1>4 DEF RcvKexInit, authVars, history
  <2>3. k.step = 1
    BY DEF NoKex
  <2> HIDE DEF k
  <2>4. /\ kexinit'[x] = mine /\ cookies'[x] = IF kexinit[x] = 0 THEN mine ELSE cookies[x]
        /\ mode'[x] = "kex" /\ kex'[x].step = 1
        /\ \A y \in Sides : y # x => /\ kexinit'[y] = kexinit[y] /\ cookies'[y] = cookies[y]
                                     /\ mode'[y] = mode[y] /\ kex'[y] = kex[y]
    BY <1>1, <2>1, <2>3 DEF Typed
  <2>5. kexinit[x] # 0 => cookies' = cookies
    BY <1>1, <2>1 DEF Typed
  <2>6. mine \in Args
    BY <1>1 DEF Typed, Args
  <2>7. msgs \in Seq(Letters)
    <3>1. "kexinit" \in Types /\ "dhinit" \in Types /\ 0 \in Args
      BY DEF Types, Args
    <3>2. own \in Seq(Letters) /\ Start(x) \in Seq(Letters)
      <4> HIDE DEF mine
      <4>1. own = <<Msg("kexinit", mine)>> \/ own = <<>>
        OBVIOUS
      <4>2. Start(x) = <<Msg("dhinit", 0)>> \/ Start(x) = <<>>
        BY DEF Start
      <4>3. <<Msg("kexinit", mine)>> \in Seq(Letters) /\ <<Msg("dhinit", 0)>> \in Seq(Letters)
            /\ <<>> \in Seq(Letters)
        BY <2>6, <3>1, Single
      <4> QED
        BY <4>1, <4>2, <4>3
    <3> HIDE DEF own
    <3> QED
      BY <3>2
  <2> HIDE DEF mine
  <2>8. KeptCiphers /\ \E u : Flows(x, u, 1) /\ SealedBy(u, msgs, out[x].keys, out[x].zip)
    <3> HIDE DEF msgs
    <3> QED
      BY <1>1, <1>2, <2>1, <2>7, Answering
  <2>9. PICK u : Flows(x, u, 1) /\ SealedBy(u, msgs, out[x].keys, out[x].zip)
    BY <2>8
  <2>10. Opening(x, u)
    BY <2>9, OpensWith
  <2> QED
    BY <1>2, <2>2, <2>4, <2>5, <2>8, <2>9, <2>10 DEF mine
<1> QED
  BY <1>3, <1>4

\* The keys of both sides are the same unless the server waits for NEWKEYS.
LEMMA KeysAlike ==
    ASSUME IInv, Steady, S # 3
    PROVE  /\ out["client"].keys = <<Level("server"), Level("server")>>
           /\ out["server"].keys = <<Level("client"), Level("client")>>
<1>1. Level("client") = Level("server")
  BY Levels
<1>2. /\ out["client"].keys = <<Level("client"), Level("client")>>
      /\ out["server"].keys = <<Level("server"), Level("server")>>
  BY DEF Steady, SidesFine, SideFine
<1> QED
  BY <1>1, <1>2

\* handleKexInit() keeps what is under way in order, on either side.
LEMMA BeginSteady ==
    ASSUME IInv, IInv', InSequence, Steady, NEW x \in Sides, RcvKexInit(x), ~Fatal(x), InOrder',
           AuthFine /\ ~authenticated["client"] =>
              kexinit[x] # 0 /\ (x = "client" => ~auths["client"])
    PROVE  InSequence' /\ Steady'
<1>1. /\ KeptCiphers
      /\ kexinit'[x] = IF kexinit[x] # 0 THEN kexinit[x] ELSE cookies[x] + 1
      /\ cookies'[x] = IF kexinit[x] # 0 THEN cookies[x] ELSE cookies[x] + 1
      /\ \A y \in Sides : y # x => /\ kexinit'[y] = kexinit[y] /\ cookies'[y] = cookies[y]
                                   /\ mode'[y] = mode[y] /\ kex'[y] = kex[y]
      /\ mode'[x] = "kex" /\ kex'[x].step = 1
      /\ UNCHANGED <<authenticated, auths, offer, session, guess, queue, open, early>>
      /\ kexinit[x] # 0 => cookies' = cookies
  BY Beginning
<1>2. PICK u : Flows(x, u, 1) /\ Opening(x, u)
  BY Beginning
<1>3. cookies[x] \in Nat /\ kexinit[x] \in Nat
  BY LinksAre DEF Typed
<1>4. \A y \in Sides : Level(y)' = Level(y) /\ (kexinit'[y] = 0 => kexinit[y] = 0)
  <2>1. Level(x)' = Level(x) /\ kexinit'[x] # 0
    BY <1>1, <1>3 DEF Level
  <2>2. \A y \in Sides : y # x => Level(y)' = Level(y)
    BY <1>1 DEF Level
  <2> QED
    BY <1>1, <2>1, <2>2
<1>5. kex'[x].hash # NoKeys
  <2>1. cookies'["server"] \in Nat /\ cookies'["server"] > 0
    BY DEF IInv, Phases, Typed, Sides
  <2>2. kex'[x].hash = <<cookies'["server"], cookies'["server"]>>
    <3>1. CASE x = "client"
      <4>1. C' = 2
        BY <1>1, <3>1 DEF C, Phase
      <4> QED
        BY <3>1, <4>1 DEF IInv, Known
    <3>2. CASE x = "server"
      <4>1. S' = 2
        BY <1>1, <3>2 DEF S, Phase
      <4> QED
        BY <3>2, <4>1 DEF IInv, Known
    <3> QED
      BY <3>1, <3>2 DEF Sides
  <2> QED
    BY <2>1, <2>2 DEF NoKeys
<1>6. \A y \in Sides : /\ mode'[y] = mode[y] \/ mode'[y] = "kex"
                       /\ mode'[y] = "first" => kexinit'[y] = kexinit[y] /\ cookies'[y] = cookies[y]
                       /\ kex'[y].hash = kex[y].hash \/ kex'[y].hash # NoKeys
                       /\ queue'[y] = queue[y]
  BY <1>1, <1>5
<1>7. \A k \in 1..Len(u) : /\ u[k].keys = out[x].keys /\ u[k].zip = out[x].zip
                           /\ u[k].type \notin {"request", "success"}
  BY <1>2 DEF Opening
<1>8. Head(wire[x]).type \notin {"request", "success"}
  BY Beginning
<1> QED
  BY <1>1, <1>2, <1>4, <1>6, <1>7, <1>8, KexSteady

LEMMA SteadyClientKexInit ==
    ASSUME IInv, InSequence, Steady, RcvKexInit("client") PROVE InSequence' /\ Steady'
<1> DEFINE c == wire["client"]
<1> DEFINE s == wire["server"]
<1> DEFINE d == Guessed(guess, mode["server"], skip)
<1>1. "client" \in Sides /\ "server" \in Sides /\ "server" # "client"
  BY DEF Sides
<1>2. /\ c # <<>> /\ open["client"] /\ Head(c).type = "kexinit" /\ mode["client"] # "kex"
      /\ c \in Seq(OnWire) /\ s \in Seq(OnWire)
  BY <1>1, Beginning, Tables
<1>3. CASE Fatal("client")
  BY <1>1, <1>2, <1>3, SteadyFatal
<1>4. CASE ~Fatal("client")
  <2>1. /\ cookies'["server"] = cookies["server"] /\ kexinit'["server"] = kexinit["server"]
        /\ mode'["server"] = mode["server"] /\ kex'["server"] = kex["server"]
        /\ cookies'["client"] = IF kexinit["client"] # 0 THEN cookies["client"] ELSE cookies["client"] + 1
        /\ kexinit'["client"] = IF kexinit["client"] # 0 THEN kexinit["client"] ELSE cookies["client"] + 1
        /\ mode'["client"] = "kex" /\ kex'["client"].step = 1
        /\ skip' = (skip \/ ("client" = "server" /\ mode["client"] = "first" /\ guess))
        /\ UNCHANGED <<guess, open>>
    BY <1>1, <1>4, Beginning
  <2>2. PICK u : Flows("client", u, 1) /\ Opening("client", u)
    BY <1>1, <1>4, Beginning
  <2>3. u \in Seq(OnWire) /\ wire'["client"] = Tail(c) /\ wire'["server"] = s \o u
    BY <2>2 DEF Flows, Other
  <2>4. C' = 2 /\ S' = S
    BY <2>1 DEF C, S, Phase
  <2>5. /\ OrderToClient(c, Level("client"), C, S, mode["client"])
        /\ ToClient(c, C, S, cookies["server"], kex["server"].hash)
    BY <1>2, Tables DEF Steady, InOrder
  <2>6. Has(c, "kexinit", 0)
    BY <1>2, Reading
  <2>7. C \in {0, 1} /\ S \in {1, 2} /\ ~Has(c, "newkeys", 0)
    BY <2>5, <2>6 DEF ToClient
  <2>8. Level("client")' = Level("client") /\ Level("server")' = Level("server")
    <3>1. cookies["client"] \in Nat /\ kexinit["client"] \in {0, cookies["client"]} /\ cookies["client"] > 0
      BY PhaseFacts
    <3>2. Level("client")' = Level("client")
      BY <2>1, <3>1 DEF Level
    <3> QED
      BY <2>1, <3>2 DEF Level
  <2>9. d' = d /\ d \in Nat
    <3>1. skip' = skip
      BY <2>1, LinksAre, Zenon DEF Typed
    <3> QED
      BY <2>1, <3>1 DEF Guessed
  <2>10. OrderToClient(Tail(c), Level("client"), 2, S, "kex")
    <3> HIDE DEF c
    <3>1. ASSUME NEW k \in 1..Len(Tail(c)), Live(Tail(c)[k])
          PROVE  /\ Tail(c)[k].keys = <<Level("client"), Level("client")>>
                 /\ Tail(c)[k].type \notin {"dhinit", "request", "app", "success", "newkeys"}
                 /\ ~Behind(Tail(c), "newkeys", k)
      <4>1. /\ k + 1 \in 1..Len(c) /\ Tail(c)[k] = c[k + 1]
            /\ Behind(c, "kexinit", k + 1)
            /\ Behind(Tail(c), "newkeys", k) => Behind(c, "newkeys", k + 1)
        BY <1>2, Reading
      <4>2. /\ c[k + 1].keys = <<Level("client"), Level("client")>>
            /\ c[k + 1].type \notin {"dhinit", "request", "app", "success"}
            /\ ~Behind(c, "newkeys", k + 1)
        BY <2>5, <3>1, <4>1 DEF OrderToClient
      <4>3. c[k + 1].type # "newkeys"
        <5>1. k + 1 > 0
          OBVIOUS
        <5> QED
          BY <2>7, <4>1, <5>1 DEF Has
      <4> QED
        BY <4>1, <4>2, <4>3
    <3> DEFINE t == Tail(c)
    <3>2. \A k \in 1..Len(t) : Live(t[k]) =>
             /\ t[k].keys = <<Level("client"), Level("client")>>
             /\ t[k].type \notin {"dhinit", "request", "app", "success", "newkeys"}
             /\ ~Behind(t, "newkeys", k)
      BY <3>1
    <3> HIDE DEF t
    <3>3. OrderToClient(t, Level("client"), 2, S, "kex")
      BY <3>2 DEF OrderToClient
    <3> QED
      BY <3>3 DEF t
  <2>11. ASSUME open["server"]
         PROVE  OrderToServer(s \o u, Level("server"), cookies["server"], 2, S, mode["server"], d)
    <3>1. /\ OrderToServer(s, Level("server"), cookies["server"], C, S, mode["server"], d)
          /\ ToServer(s, C, S, cookies["client"], d)
      BY <2>11, Tables DEF Steady, InOrder
    <3> HIDE DEF s, d
    <3>2. ~Has(s, "newkeys", 0) /\ d <= Len(s)
      BY <2>7, <3>1 DEF ToServer
    <3>3. out["client"].keys = <<Level("server"), Level("server")>>
      BY <2>7, KeysAlike
    <3>4. (C = 0 <=> kexinit["client"] = 0) /\ (C = 1 /\ S # 2 => Has(s, "kexinit", 0))
      BY <3>1, PhaseFacts DEF OrderToServer
    <3>5. \A k \in 1..Len(u) :
             /\ u[k].keys = <<Level("server"), Level("server")>>
             /\ u[k].type \in {"kexinit", "dhinit"}
             /\ u[k].type = "dhinit" /\ S = 1 => Has(s, "kexinit", 0) \/ Behind(u, "kexinit", k)
             /\ ~Behind(u, "newkeys", k)
      BY <2>2, <2>7, <3>3, <3>4 DEF Opening, Behind
    <3>6. MayFollowToServer(s, u, Level("server"), cookies["server"], S, mode["server"])
      BY <2>7, <3>2, <3>5 DEF MayFollowToServer
    <3>7. ServerExpects(s \o u, Level("server"), cookies["server"], S, mode["server"], d)
      BY <1>2, <2>3, <2>9, <3>1, <3>6, ServerGets DEF OrderToServer, s
    <3>8. \A t : Has(s \o u, t, 0) <=> Has(s, t, 0) \/ Has(u, t, 0)
      BY <1>2, <2>3, Writing DEF s
    <3>9. d = 2 => (s \o u)[1] = s[1]
      BY <1>2, <2>3, <2>9, <3>2, GuessStays DEF s
    <3>10. S = 1 => Has(s \o u, "kexinit", 0)
      BY <2>2, <2>7, <3>4, <3>8 DEF Opening
    <3>11. d = 2 => (s \o u)[1].type = "kexinit"
      BY <3>1, <3>9 DEF OrderToServer
    <3> DEFINE w == s \o u
    <3>12. /\ ServerExpects(w, Level("server"), cookies["server"], S, mode["server"], d)
           /\ S = 1 => Has(w, "kexinit", 0)
           /\ d = 2 => w[1].type = "kexinit"
      BY <3>7, <3>10, <3>11
    <3> HIDE DEF w
    <3>13. OrderToServer(w, Level("server"), cookies["server"], 2, S, mode["server"], d)
      BY <2>7, <3>12 DEF OrderToServer
    <3> QED
      BY <3>13 DEF w
  <2> HIDE DEF c, s, d
  <2>12. InOrder'
    BY <2>1, <2>3, <2>4, <2>8, <2>9, <2>10, <2>11 DEF InOrder, d
  <2>13. ASSUME AuthFine, ~authenticated["client"] PROVE kexinit["client"] # 0 /\ ~auths["client"]
    <3>1. cookies["client"] = 1 /\ cookies["server"] = 1
      BY <2>13 DEF AuthFine
    <3>2. C = 1
      BY <2>7, <3>1, PhaseFacts DEF Joint
    <3>3. kexinit["client"] # 0 /\ Level("client") = 0
      BY <3>1, <3>2, PhaseFacts DEF Level
    <3> QED
      BY <3>3 DEF Steady, SidesFine, SideFine
  <2>14. IInv'
    BY ClientKexInit
  <2> QED
    BY <1>1, <1>4, <2>12, <2>13, <2>14, BeginSteady
<1> QED
  BY <1>3, <1>4

LEMMA SteadyServerKexInit ==
    ASSUME IInv, InSequence, Steady, RcvKexInit("server") PROVE InSequence' /\ Steady'
<1> DEFINE c == wire["client"]
<1> DEFINE s == wire["server"]
<1> DEFINE d == Guessed(guess, mode["server"], skip)
<1>1. "client" \in Sides /\ "server" \in Sides /\ "server" # "client"
  BY DEF Sides
<1>2. /\ s # <<>> /\ open["server"] /\ Head(s).type = "kexinit" /\ mode["server"] # "kex" /\ ~skip
      /\ c \in Seq(OnWire) /\ s \in Seq(OnWire)
  BY <1>1, Beginning, Tables
<1>3. CASE Fatal("server")
  BY <1>1, <1>2, <1>3, SteadyFatal
<1>4. CASE ~Fatal("server")
  <2>1. /\ cookies'["client"] = cookies["client"] /\ kexinit'["client"] = kexinit["client"]
        /\ mode'["client"] = mode["client"] /\ kex'["client"] = kex["client"]
        /\ cookies'["server"] = IF kexinit["server"] # 0 THEN cookies["server"] ELSE cookies["server"] + 1
        /\ kexinit'["server"] = IF kexinit["server"] # 0 THEN kexinit["server"] ELSE cookies["server"] + 1
        /\ mode'["server"] = "kex" /\ kex'["server"].step = 1
        /\ UNCHANGED <<guess, open>>
    BY <1>1, <1>4, Beginning
  <2>2. PICK u : Flows("server", u, 1) /\ Opening("server", u)
    BY <1>1, <1>4, Beginning
  <2>3. u \in Seq(OnWire) /\ wire'["server"] = Tail(s) /\ wire'["client"] = c \o u
    BY <2>2 DEF Flows, Other
  <2>4. S' = 2 /\ C' = C
    BY <2>1 DEF C, S, Phase
  <2>5. /\ OrderToServer(s, Level("server"), cookies["server"], C, S, mode["server"], d)
        /\ ToServer(s, C, S, cookies["client"], d)
    BY <1>2, Tables DEF Steady, InOrder
  <2>6. Has(s, "kexinit", 0)
    BY <1>2, Reading
  <2>7. C \in {1, 2} /\ S \in {0, 1} /\ ~Has(s, "newkeys", 0)
    <3>1. C \in {1, 2}
      BY <2>5, <2>6 DEF ToServer
    <3>2. S \in {0, 1}
      BY <1>2, PhaseFacts
    <3> QED
      BY <2>5, <3>1, <3>2 DEF ToServer
  <2>8. Level("client")' = Level("client") /\ Level("server")' = Level("server")
    <3>1. cookies["server"] \in Nat /\ kexinit["server"] \in {0, cookies["server"]} /\ cookies["server"] > 0
      BY PhaseFacts
    <3>2. Level("server")' = Level("server")
      BY <2>1, <3>1 DEF Level
    <3> QED
      BY <2>1, <3>2 DEF Level
  <2>9. d' # 2
    BY <2>1 DEF Guessed
  <2>10. ASSUME open["client"] PROVE OrderToClient(c \o u, Level("client"), C, 2, mode["client"])
    <3>1. /\ OrderToClient(c, Level("client"), C, S, mode["client"])
          /\ ToClient(c, C, S, cookies["server"], kex["server"].hash)
      BY <2>10, Tables DEF Steady, InOrder
    <3> HIDE DEF c
    <3>2. OrderToClient(c, Level("client"), C, 2, mode["client"])
      BY <3>1 DEF OrderToClient
    <3>3. ~Has(c, "newkeys", 0)
      BY <2>7, <3>1 DEF ToClient
    <3>4. out["server"].keys = <<Level("client"), Level("client")>>
      BY <2>7, KeysAlike
    <3>5. \A k \in 1..Len(u) : /\ u[k].keys = <<Level("client"), Level("client")>> /\ u[k].type = "kexinit"
                               /\ ~Behind(u, "newkeys", k)
      BY <2>2, <3>4 DEF Opening, Behind
    <3>6. MayFollow(c, u, Level("client"), C, 2, mode["client"])
      BY <3>3, <3>5 DEF MayFollow
    <3> QED
      BY <1>2, <2>3, <3>2, <3>6, ClientGets DEF c
  <2>11. OrderToServer(Tail(s), Level("server"), cookies'["server"], C, 2, "kex", d')
    <3> HIDE DEF s
    <3>1. ASSUME NEW k \in 1..Len(Tail(s)), Live(Tail(s)[k])
          PROVE  /\ Tail(s)[k].keys = <<Level("server"), Level("server")>>
                 /\ Tail(s)[k].type \notin {"reply", "success", "app", "request", "newkeys"}
                 /\ ~Behind(Tail(s), "newkeys", k)
      <4>1. /\ k + 1 \in 1..Len(s) /\ Tail(s)[k] = s[k + 1]
            /\ Behind(s, "kexinit", k + 1)
            /\ Behind(Tail(s), "newkeys", k) => Behind(s, "newkeys", k + 1)
        BY <1>2, Reading
      <4>2. \A j \in 1..Len(s) : j > 0 /\ s[j].type # "newkeys"
        BY <2>7 DEF Has
      <4>3. ~Behind(s, "newkeys", k + 1)
        BY <4>2 DEF Behind
      <4>4. /\ s[k + 1].keys = <<Level("server"), Level("server")>>
            /\ s[k + 1].type \notin {"reply", "success", "app", "request", "newkeys"}
        BY <2>5, <3>1, <4>1, <4>3 DEF OrderToServer, ServerExpects
      <4> QED
        BY <4>1, <4>3, <4>4
    <3> DEFINE t == Tail(s)
    <3>2. \A k \in 1..Len(t) : Live(t[k]) =>
             /\ t[k].keys = <<Level("server"), Level("server")>>
             /\ t[k].type \notin {"reply", "success", "app", "request", "newkeys"}
             /\ ~Behind(t, "newkeys", k)
      BY <3>1
    <3> HIDE DEF t, d
    <3>3. ServerExpects(t, Level("server"), cookies'["server"], 2, "kex", d')
      BY <3>2 DEF ServerExpects
    <3>4. OrderToServer(t, Level("server"), cookies'["server"], C, 2, "kex", d')
      BY <2>9, <3>3 DEF OrderToServer
    <3> QED
      BY <3>4 DEF t
  <2> HIDE DEF c, s
  <2>12. InOrder'
    BY <2>1, <2>3, <2>4, <2>8, <2>10, <2>11 DEF InOrder
  <2>13. ASSUME AuthFine, ~authenticated["client"] PROVE kexinit["server"] # 0
    <3>1. cookies["client"] = 1 /\ cookies["server"] = 1
      BY <2>13 DEF AuthFine
    <3>2. S # 0
      BY <2>7, <3>1, PhaseFacts DEF Joint
    <3> QED
      BY <3>2, PhaseFacts
  <2>14. IInv'
    BY ServerKexInit
  <2> QED
    BY <1>1, <1>4, <2>12, <2>13, <2>14, BeginSteady
<1> QED
  BY <1>3, <1>4

\* A step of KeyExchange.parse() that is not the last.
LEMMA ParseSteady ==
    ASSUME IInv, InSequence, Steady, NEW x \in Sides, NEW u, Flows(x, u, 1), KeptCiphers,
           \A k \in 1..Len(u) : /\ u[k].keys = out[x].keys /\ u[k].zip = out[x].zip
                                /\ u[k].type \notin {"request", "success"},
           x = "client" => NothingTo(u), Head(wire[x]).type \notin {"request", "success"},
           UNCHANGED <<authenticated, auths, offer, session, open, early, kexinit, cookies, mode, queue>>,
           \A y \in Sides : kex'[y].hash = kex[y].hash, InOrder'
    PROVE  InSequence' /\ Steady'
<1>1. \A y \in Sides : /\ Level(y)' = Level(y) /\ mode'[y] = mode[y] /\ kexinit'[y] = kexinit[y]
                       /\ cookies'[y] = cookies[y] /\ queue'[y] = queue[y]
  BY DEF Level
<1> QED
  BY <1>1, KexSteady

LEMMA SteadyRcvDhInit ==
    ASSUME IInv, InSequence, Steady, RcvDhInit PROVE InSequence' /\ Steady'
<1> DEFINE c == wire["client"]
<1> DEFINE s == wire["server"]
<1> DEFINE m == Msg("reply", kex["server"].hash)
<1> DEFINE n == Msg("newkeys", 0)
<1>1. "client" \in Sides /\ "server" \in Sides /\ Typed /\ LinksTyped /\ c \in Seq(OnWire) /\ s \in Seq(OnWire)
  BY LinksAre, Tables DEF Sides
<1>2. /\ open["server"] /\ s # <<>> /\ Head(s).type = "dhinit" /\ ~skip
      /\ mode["server"] = "kex" /\ kex["server"].step = 1
      /\ Answer("server", <<m, n>>)
      /\ kex' = [kex EXCEPT !["server"].step = 2]
      /\ UNCHANGED <<authenticated, auths, offer, session, open, early, kexinit, cookies, mode, queue>>
      /\ guess' = guess /\ skip' = skip
  BY DEF RcvDhInit, Arrives, ServerFinish, authVars, history
<1>3. /\ kex'["client"] = kex["client"] /\ kex'["server"].hash = kex["server"].hash /\ kex'["server"].step = 2
  BY <1>1, <1>2 DEF Typed, Exchanges
<1>4. m \in Letters /\ n \in Letters /\ m.type = "reply" /\ n.type = "newkeys"
  <2>1. kex["server"].hash \in Args
    BY <1>1 DEF Typed, Exchanges, Args
  <2> QED
    BY <2>1 DEF Msg, Letters, Types, Args
<1> HIDE DEF m, n
<1>5. <<m, n>> \in Seq(Letters) /\ Len(<<m, n>>) = 2 /\ <<m, n>>[1] = m /\ <<m, n>>[2] = n /\ 1..2 = {1, 2}
  <2>1. <<m, n>> \in Seq(Letters)
    BY <1>4
  <2> QED
    BY <2>1, Short
<1>6. KeptCiphers
  BY <1>1, <1>2, <1>5, Answering
<1>7. PICK u : Flows("server", u, 1) /\ SealedBy(u, <<m, n>>, out["server"].keys, out["server"].zip)
  BY <1>1, <1>2, <1>5, Answering
<1>8. /\ u \in Seq(OnWire) /\ wire'["server"] = Tail(s) /\ wire'["client"] = c \o u
  BY <1>7 DEF Flows, Other
<1>9. /\ 1..Len(u) = {1, 2} /\ u[1].type = "reply" /\ u[2].type = "newkeys"
      /\ \A k \in 1..Len(u) : u[k].keys = out["server"].keys /\ u[k].zip = out["server"].zip
  <2>1. /\ Len(u) = Len(<<m, n>>)
        /\ \A k \in 1..Len(<<m, n>>) : /\ u[k].type = <<m, n>>[k].type
                                       /\ u[k].keys = out["server"].keys /\ u[k].zip = out["server"].zip
    BY <1>7 DEF SealedBy
  <2>2. 1..Len(u) = {1, 2} /\ 1..Len(<<m, n>>) = {1, 2}
    BY <1>5, <2>1
  <2> QED
    BY <1>4, <1>5, <2>1, <2>2
<1>10. S = 2 /\ S' = 3 /\ C' = C
  BY <1>2, <1>3 DEF S, C, Phase
<1>11. Guessed(guess, mode["server"], skip) = 0 /\ Guessed(guess, mode["server"], skip)' = 0
  BY <1>2 DEF Guessed
<1>12. /\ ToServer(s, C, 2, cookies["client"], 0)
       /\ OrderToServer(s, Level("server"), cookies["server"], C, 2, mode["server"], 0)
  BY <1>2, <1>10, <1>11, Tables DEF Steady, InOrder
<1>13. Level("client")' = Level("client") /\ Level("server")' = Level("server")
  BY <1>2 DEF Level
<1> HIDE DEF c, s
<1>14. Has(s, "dhinit", 0) /\ ~Has(Tail(s), "dhinit", 0) /\ C = 2
  <2>1. Once(s, "dhinit", 0)
    BY <1>12 DEF ToServer
  <2>2. Has(s, "dhinit", 0) /\ ~Has(Tail(s), "dhinit", 0)
    BY <1>1, <1>2, <2>1, Read
  <2> QED
    BY <1>12, <2>2 DEF ToServer
<1>15. NothingTo(Tail(s))
  <2>1. SUFFICES ASSUME NEW k \in 1..Len(Tail(s)), Live(Tail(s)[k]) PROVE FALSE
    BY DEF NothingTo
  <2>2. k + 1 \in 1..Len(s) /\ Tail(s)[k] = s[k + 1]
    BY <1>1, <1>2, Reading
  <2>3. ~Has(s, "kexinit", 0) /\ ~Has(s, "newkeys", 0)
    BY <1>12, <1>14 DEF ToServer
  <2>4. \A j \in 1..Len(s) : j > 0 /\ s[j].type \notin {"kexinit", "newkeys"}
    BY <2>3 DEF Has
  <2>5. s[k + 1].type \notin {"reply", "success", "app", "request"}
    BY <1>12, <2>1, <2>2, <2>4 DEF OrderToServer, ServerExpects, Behind
  <2>6. Tail(s)[k].type # "dhinit"
    <3>1. k > 0
      OBVIOUS
    <3> QED
      BY <1>14, <3>1 DEF Has
  <2>7. s[k + 1].type \in Types
    <3>1. s[k + 1] \in OnWire
      BY <1>1, <2>2
    <3> QED
      BY <3>1 DEF OnWire
  <2>8. /\ s[k + 1].type \notin {"kexinit", "newkeys"} /\ s[k + 1].type # "dhinit"
        /\ s[k + 1].type # "disconnect"
    BY <2>1, <2>2, <2>4, <2>6 DEF Live
  <2> QED
    BY <2>5, <2>7, <2>8 DEF Types
<1>16. OrderToServer(Tail(s), Level("server"), cookies["server"], 2, 3, mode["server"], 0)
  <2> DEFINE t == Tail(s)
  <2>1. NothingTo(t)
    BY <1>15
  <2> HIDE DEF t
  <2>2. OrderToServer(t, Level("server"), cookies["server"], 2, 3, mode["server"], 0)
    BY <2>1 DEF OrderToServer, ServerExpects, NothingTo
  <2> QED
    BY <2>2 DEF t
<1>17. ASSUME open["client"] PROVE OrderToClient(c \o u, Level("client"), 2, 3, mode["client"])
  <2>1. /\ OrderToClient(c, Level("client"), 2, 2, mode["client"])
        /\ ToClient(c, 2, 2, cookies["server"], kex["server"].hash)
    BY <1>10, <1>14, <1>17, Tables DEF Steady, InOrder, c
  <2>2. ~Has(c, "newkeys", 0)
    BY <2>1 DEF ToClient
  <2>3. OrderToClient(c, Level("client"), 2, 3, mode["client"])
    BY <2>1 DEF OrderToClient
  <2>4. \A k \in 1..Len(u) : u[k].keys = <<Level("client"), Level("client")>>
    BY <1>9, <1>10, KeysAlike
  <2>5. ~Behind(u, "newkeys", 1) /\ ~Behind(u, "newkeys", 2) /\ Behind(u, "reply", 2)
    BY <1>9 DEF Behind
  <2>6. MayFollow(c, u, Level("client"), 2, 3, mode["client"])
    BY <1>9, <2>2, <2>4, <2>5 DEF MayFollow
  <2> QED
    BY <1>1, <1>8, <2>3, <2>6, ClientGets
<1>18. InOrder'
  BY <1>2, <1>8, <1>10, <1>11, <1>13, <1>14, <1>16, <1>17 DEF InOrder
<1>19. \A y \in Sides : kex'[y].hash = kex[y].hash
  BY <1>3 DEF Sides
<1>20. \A k \in 1..Len(u) : /\ u[k].keys = out["server"].keys /\ u[k].zip = out["server"].zip
                            /\ u[k].type \notin {"request", "success"}
  BY <1>9
<1>21. Head(wire["server"]).type \notin {"request", "success"}
  BY <1>2 DEF s
<1> QED
  BY <1>1, <1>2, <1>6, <1>7, <1>18, <1>19, <1>20, <1>21, ParseSteady

\* The client, from one phase to the next, reads a packet and writes none.
LEMMA ClientParses ==
    ASSUME IInv, InSequence, Steady, open["client"], wire["client"] # <<>>, Answer("client", <<>>),
           S = 3, C \in {2, 3}, C' = C + 1, S' = S, Head(wire["client"]).type = IF C = 2 THEN "reply" ELSE "newkeys",
           UNCHANGED <<authenticated, auths, offer, session, open, early, kexinit, cookies, mode, queue>>,
           guess' = guess, skip' = skip, \A y \in Sides : kex'[y].hash = kex[y].hash
    PROVE  InSequence' /\ Steady'
<1> DEFINE c == wire["client"]
<1> DEFINE s == wire["server"]
<1> DEFINE d == Guessed(guess, mode["server"], skip)
<1>1. "client" \in Sides /\ "server" \in Sides /\ LinksTyped /\ c \in Seq(OnWire) /\ s \in Seq(OnWire)
  BY LinksAre, Tables DEF Sides
<1>2. KeptCiphers
  BY <1>1, LinksAre, Answering
<1>3. PICK u : Flows("client", u, 1) /\ SealedBy(u, <<>>, out["client"].keys, out["client"].zip)
  BY <1>1, LinksAre, Answering
<1>4. u = <<>> /\ wire'["client"] = Tail(c) /\ wire'["server"] = s
  <2>1. u \in Seq(OnWire) /\ Len(u) = 0
    BY <1>3 DEF SealedBy
  <2>2. u = <<>>
    BY <2>1
  <2>3. wire'["client"] = Tail(c) /\ wire'["server"] = s \o u
    BY <1>3 DEF Flows, Other
  <2> QED
    BY <1>1, <2>2, <2>3
<1>5. Level("client")' = Level("client") /\ Level("server")' = Level("server") /\ d' = d
  BY DEF Level, Guessed
<1>6. OrderToClient(c, Level("client"), C, 3, mode["client"])
  BY DEF Steady, InOrder
<1> HIDE DEF c
<1>7. OrderToClient(Tail(c), Level("client"), C', 3, mode["client"])
  <2> DEFINE t == Tail(c)
  <2>1. \A k \in 1..Len(t) : /\ k + 1 \in 1..Len(c) /\ t[k] = c[k + 1]
                             /\ \A type : Behind(c, type, k + 1) <=> Behind(t, type, k) \/ Head(c).type = type
    BY <1>1, Reading DEF c
  <2> HIDE DEF t
  <2>2. \A k \in 1..Len(t) : Live(t[k]) =>
           /\ t[k].keys = <<Level("client"), Level("client")>>
           /\ t[k].type \notin {"dhinit", "request", "app", "success"}
           /\ ~Behind(t, "newkeys", k) /\ Head(c).type # "newkeys"
    <3>1. SUFFICES ASSUME NEW k \in 1..Len(t), Live(t[k])
                   PROVE  /\ t[k].keys = <<Level("client"), Level("client")>>
                          /\ t[k].type \notin {"dhinit", "request", "app", "success"}
                          /\ ~Behind(t, "newkeys", k) /\ Head(c).type # "newkeys"
      OBVIOUS
    <3>2. k + 1 \in 1..Len(c) /\ t[k] = c[k + 1]
      BY <2>1
    <3>3. Behind(c, "newkeys", k + 1) <=> Behind(t, "newkeys", k) \/ Head(c).type = "newkeys"
      BY <2>1
    <3> DEFINE p == k + 1
    <3>4. p \in 1..Len(c) /\ Live(c[p])
      BY <3>1, <3>2
    <3> HIDE DEF p
    <3>5. C \notin {0, 1}
      OBVIOUS
    <3>6. /\ c[p].keys = <<Level("client"), Level("client")>>
          /\ c[p].type \notin {"dhinit", "request", "app", "success"}
          /\ ~Behind(c, "newkeys", p)
      BY <1>6, <3>4, <3>5 DEF OrderToClient
    <3> QED
      BY <3>2, <3>3, <3>6 DEF p
  <2>3. C = 2 => C' = 3
    OBVIOUS
  <2>4. C = 3 => C' = 4 /\ Head(c).type = "newkeys"
    BY DEF c
  <2>5. OrderToClient(t, Level("client"), C', 3, mode["client"])
    BY <2>2, <2>3, <2>4 DEF OrderToClient
  <2> QED
    BY <2>5 DEF t
<1>8. ASSUME open["server"] PROVE OrderToServer(s, Level("server"), cookies["server"], C', 3, mode["server"], d)
  <2>1. OrderToServer(s, Level("server"), cookies["server"], C, 3, mode["server"], d)
    BY <1>8 DEF Steady, InOrder
  <2>2. C' \in {3, 4}
    OBVIOUS
  <2> HIDE DEF s, d
  <2> QED
    BY <2>1, <2>2 DEF OrderToServer
<1> HIDE DEF s, d
<1>9. InOrder'
  BY <1>4, <1>5, <1>7, <1>8 DEF InOrder, d
<1>10. (\A k \in 1..Len(u) : FALSE) /\ NothingTo(u)
  BY <1>4 DEF NothingTo
<1>11. Head(wire["client"]).type \notin {"request", "success"}
  OBVIOUS
<1> QED
  BY <1>1, <1>2, <1>3, <1>9, <1>10, <1>11, ParseSteady

LEMMA SteadyRcvReply ==
    ASSUME IInv, InSequence, Steady, RcvReply PROVE InSequence' /\ Steady'
<1>1. /\ open["client"] /\ wire["client"] # <<>> /\ Head(wire["client"]).type = "reply"
      /\ mode["client"] = "kex" /\ kex["client"].step = 1
      /\ "client" \in Sides /\ Typed /\ wire["client"] \in Seq(OnWire)
  BY LinksAre, Tables DEF RcvReply, Arrives, Sides
<1>2. CASE Fatal("client")
  BY <1>1, <1>2, SteadyFatal
<1>3. ASSUME NEW verified \in BOOLEAN,
             Answer("client", <<>>),
             kex' = [kex EXCEPT !["client"].step = 2, !["client"].reply = Head(wire["client"]).arg,
                                !["client"].verified = verified],
             UNCHANGED <<authVars, appVars, offer, kexinit, cookies, mode, session, guess, skip,
                         queue, open, rekeys, early, failed>>
      PROVE  InSequence' /\ Steady'
  <2>1. Has(wire["client"], "reply", 0)
    BY <1>1, Reading
  <2>2. C = 2 /\ S = 3
    BY <1>1, <2>1, Tables DEF ToClient
  <2>3. /\ kex'["server"] = kex["server"] /\ kex'["client"].hash = kex["client"].hash /\ kex'["client"].step = 2
    <3> DEFINE k == [kex["client"] EXCEPT !.step = 2, !.reply = Head(wire["client"]).arg, !.verified = verified]
    <3>1. kex' = [kex EXCEPT !["client"] = k]
      BY <1>1, <1>3 DEF Typed
    <3>2. k.hash = kex["client"].hash /\ k.step = 2
      BY <1>1 DEF Typed, Exchanges
    <3> HIDE DEF k
    <3> QED
      BY <1>1, <3>1, <3>2 DEF Typed, Sides
  <2>4. /\ UNCHANGED <<authenticated, auths, offer, session, open, early, kexinit, cookies, mode, queue>>
        /\ guess' = guess /\ skip' = skip
    BY <1>3 DEF authVars
  <2>5. C' = 3 /\ S' = S
    BY <1>1, <2>3, <2>4 DEF C, S, Phase
  <2>6. \A y \in Sides : kex'[y].hash = kex[y].hash
    BY <2>3 DEF Sides
  <2>7. C' = C + 1 /\ C \in {2, 3} /\ Head(wire["client"]).type = IF C = 2 THEN "reply" ELSE "newkeys"
    BY <1>1, <2>2, <2>5
  <2> QED
    BY <1>1, <1>3, <2>2, <2>4, <2>5, <2>6, <2>7, ClientParses
<1> QED
  BY <1>2, <1>3 DEF RcvReply

-----------------------------------------------------------------------------
(* The end of an exchange.                                                 *)

\* The side that ends it has the keys of the exchange, and nothing queued.
LEMMA SideEnds ==
    ASSUME IInv, SidesFine, NEW x \in Sides, NEW read, NEW last, CompleteHandshake(x, read, last),
           out'[x].keys = kex[x].hash, in'[x].keys = kex[x].hash,
           out'[Other(x)] = out[Other(x)], in'[Other(x)] = in[Other(x)],
           kex[x].hash = <<cookies[x], cookies[x]>>, \A y \in Sides : kex'[y].hash = kex[y].hash
    PROVE  /\ SidesFine'
           /\ kexinit'[x] = 0 /\ mode'[x] = "normal" /\ Level(x)' = cookies[x] /\ queue'[x] = <<>>
           /\ \A y \in Sides : y # x => /\ kexinit'[y] = kexinit[y] /\ mode'[y] = mode[y]
                                        /\ Level(y)' = Level(y) /\ queue'[y] = queue[y]
           /\ UNCHANGED <<authenticated, auths, offer, cookies, guess, skip, open, early>>
<1>1. /\ queue' = [queue EXCEPT ![x] = <<>>] /\ kexinit' = [kexinit EXCEPT ![x] = 0]
      /\ session' = [session EXCEPT ![x] = SessionId(x)] /\ mode' = [mode EXCEPT ![x] = "normal"]
      /\ UNCHANGED <<authenticated, auths, offer, cookies, guess, skip, open, early>>
  BY DEF CompleteHandshake, authVars
<1>2. /\ kexinit'[x] = 0 /\ mode'[x] = "normal" /\ queue'[x] = <<>>
      /\ \A y \in Sides : y # x => /\ kexinit'[y] = kexinit[y] /\ mode'[y] = mode[y]
                                   /\ session'[y] = session[y] /\ queue'[y] = queue[y]
  <2>1. /\ queue \in [Sides -> Seq(Queued)] /\ kexinit \in [Sides -> Nat] /\ session \in [Sides -> Hashes]
        /\ mode \in [Sides -> {"first", "kex", "normal"}]
    BY DEF IInv, Typed
  <2> QED
    BY <1>1, <2>1
<1>3. Level(x)' = cookies[x] /\ \A y \in Sides : y # x => Level(y)' = Level(y)
  BY <1>1, <1>2 DEF Level
<1>4. cookies[x] \in Nat /\ cookies[x] >= 1
  <2>1. cookies[x] \in Nat \ {0}
    BY PhaseFacts DEF Sides
  <2> QED
    BY <2>1
<1>5. SideFine(x)'
  <2>1. kex'[x].hash # NoKeys
    BY <1>4 DEF NoKeys
  <2>2. in'[x].keys = <<Level(x)', Level(x)'>> /\ out'[x].keys = <<Level(x)', Level(x)'>>
    BY <1>3
  <2>3. mode'[x] # "first" /\ Level(x)' >= 1
    BY <1>2, <1>3, <1>4
  <2>4. \A i \in 1..Len(queue'[x]) : queue'[x][i].type # IF x = "client" THEN "success" ELSE "request"
    BY <1>2
  <2> QED
    BY <1>2, <2>1, <2>2, <2>3, <2>4 DEF SideFine
<1>6. \A y \in Sides : y # x => SideFine(y)'
  <2>1. SUFFICES ASSUME NEW y \in Sides, y # x PROVE SideFine(y)'
    OBVIOUS
  <2>2. y = Other(x) /\ SideFine(y)
    BY <2>1 DEF Sides, Other, SidesFine
  <2>3. out'[y] = out[y] /\ in'[y] = in[y] /\ kex'[y].hash = kex[y].hash
    BY <2>1, <2>2
  <2>4. /\ kexinit'[y] = kexinit[y] /\ mode'[y] = mode[y] /\ session'[y] = session[y]
        /\ queue'[y] = queue[y] /\ Level(y)' = Level(y)
        /\ authenticated'[y] = authenticated[y] /\ auths'[y] = auths[y] /\ cookies'[y] = cookies[y]
    BY <1>1, <1>2, <1>3, <2>1
  <2> QED
    BY <2>2, <2>3, <2>4 DEF SideFine
<1>7. SidesFine'
  BY <1>5, <1>6 DEF SidesFine, Sides
<1> QED
  BY <1>1, <1>2, <1>3, <1>7

\* completeHandshake() creates the compressors that belong to the new keys.
LEMMA ZipEnds ==
    ASSUME IInv, SidesFine, Delays => AuthFine, NEW x \in Sides, kexinit[x] # 0,
           kex[x].hash = <<cookies[x], cookies[x]>>, NEW slot \in {"csCompress", "scCompress"}
    PROVE  StartedZip(x, slot) = ZipFor(Algorithms[slot], kex[x].hash, authenticated[x])
<1>1. cookies[x] \in Nat /\ cookies[x] >= 1 /\ x \in {"client", "server"}
  <2>1. cookies[x] \in Nat \ {0}
    BY PhaseFacts DEF Sides
  <2> QED
    BY <2>1 DEF Sides
<1>2. kex[x].hash # NoKeys /\ (kex[x].hash = <<1, 1>> <=> cookies[x] = 1)
  BY <1>1 DEF NoKeys
<1>3. kex[x].negotiated = Algorithms
  BY <1>2, SameAlgorithms
<1> DEFINE z == Algorithms[slot]
<1> DEFINE h == kex[x].hash
<1>4. StartedZip(x, slot) = IF z = "zlib" \/ (z = "zlib@openssh.com" /\ authenticated[x])
                            THEN [by |-> "kex", keys |-> h] ELSE Plain
  BY <1>3 DEF StartedZip
<1>5. ASSUME z = "zlib@openssh.com" PROVE authenticated[x] <=> h # <<1, 1>>
  <2>1. AuthFine
    BY <1>5 DEF Delays, Algorithms
  <2>2. CASE cookies[x] = 1
    <3>1. Level(x) = 0
      BY <2>2 DEF Level
    <3>2. ~(Level(x) >= 1)
      BY <3>1
    <3>3. ~authenticated[x]
      BY <1>1, <3>2 DEF SidesFine, SideFine
    <3> QED
      BY <1>2, <2>2, <3>3
  <2>3. CASE cookies[x] # 1
    <3>1. authenticated["client"] /\ authenticated["server"]
      BY <1>1, <2>1, <2>3 DEF AuthFine
    <3> QED
      BY <1>1, <1>2, <2>3, <3>1
  <2> QED
    BY <2>2, <2>3
<1>6. h # NoKeys
  BY <1>2
<1> HIDE DEF z, h
<1>7. StartedZip(x, slot) = ZipFor(z, h, authenticated[x])
  BY <1>4, <1>5, <1>6 DEF ZipFor
<1> QED
  BY <1>7 DEF z, h

\* What is queued has the keys of an exchange, which are not the first.
LEMMA DrainedZip ==
    ASSUME IInv, SidesFine, NEW x \in Sides, kexinit[x] # 0, queue[x] # <<>>, NEW z, NEW a, NEW b
    PROVE  ZipFor(z, <<cookies[x], cookies[x]>>, a) = ZipFor(z, <<cookies[x], cookies[x]>>, b)
<1>1. Level(x) >= 1
  BY DEF SidesFine, SideFine, Sides
<1>2. cookies[x] \in Nat /\ Level(x) = cookies[x] - 1
  <2>1. cookies[x] \in Nat \ {0}
    BY PhaseFacts DEF Sides
  <2> QED
    BY <2>1 DEF Level
<1>3. <<cookies[x], cookies[x]>> # <<1, 1>>
  BY <1>1, <1>2
<1> QED
  BY <1>3, ZipAnyway

\* What a side writes as it ends an exchange: NEWKEYS of a client, then the queue.
LEMMA WrittenAtEnd ==
    ASSUME NEW v \in Seq(OnWire), NEW u \in Seq(OnWire)
    PROVE  LET w == v \o u
           IN  Len(v) = 1 /\ v[1].type = "newkeys" /\ (\A k \in 1..Len(u) : u[k].type \in {"app", "request"}) =>
               /\ w \in Seq(OnWire) /\ 1 \in 1..Len(w) /\ w[1] = v[1] /\ Has(w, "newkeys", 0)
               /\ \A k \in 1..Len(w) : \/ k = 1
                                       \/ /\ Behind(w, "newkeys", k)
                                          /\ \E i \in 1..Len(u) : w[k] = u[i]
               /\ ~Has(w, "kexinit", 0) /\ \A k : ~Behind(w, "kexinit", k)
<1> DEFINE w == v \o u
<1>1. /\ w \in Seq(OnWire) /\ Len(w) = Len(v) + Len(u)
      /\ \A k \in 1..Len(v) : w[k] = v[k]
      /\ \A k \in 1..Len(u) : /\ w[Len(v) + k] = u[k]
                              /\ \A t : Behind(w, t, Len(v) + k) <=> Has(v, t, 0) \/ Behind(u, t, k)
      /\ \A k \in 1..Len(w) : k \in 1..Len(v) \/ \E i \in 1..Len(u) : k = Len(v) + i
      /\ \A t : Has(w, t, 0) <=> Has(v, t, 0) \/ Has(u, t, 0)
  BY Writing
<1>a. SUFFICES ASSUME Len(v) = 1, v[1].type = "newkeys", \A k \in 1..Len(u) : u[k].type \in {"app", "request"}
               PROVE  /\ w \in Seq(OnWire) /\ 1 \in 1..Len(w) /\ w[1] = v[1] /\ Has(w, "newkeys", 0)
                      /\ \A k \in 1..Len(w) : \/ k = 1
                                              \/ /\ Behind(w, "newkeys", k)
                                                 /\ \E i \in 1..Len(u) : w[k] = u[i]
                      /\ ~Has(w, "kexinit", 0) /\ \A k : ~Behind(w, "kexinit", k)
  BY Zenon
<1> HIDE DEF w
<1>2. 1..Len(v) = {1} /\ 1 > 0 /\ Len(u) \in Nat
  BY <1>a
<1>3. Has(v, "newkeys", 0) /\ ~Has(v, "kexinit", 0)
  BY <1>a, <1>2 DEF Has
<1>4. ~Has(u, "kexinit", 0)
  BY <1>a DEF Has
<1>5. 1 \in 1..Len(w) /\ w[1] = v[1]
  BY <1>1, <1>2
<1>6. \A k \in 1..Len(w) : \/ k = 1
                           \/ /\ Behind(w, "newkeys", k)
                              /\ \E i \in 1..Len(u) : w[k] = u[i]
  BY <1>1, <1>2, <1>3
<1>7. ~Has(w, "kexinit", 0) /\ Has(w, "newkeys", 0)
  BY <1>1, <1>3, <1>4
<1>8. \A k : ~Behind(w, "kexinit", k)
  <2>1. \A k \in 1..Len(w) : k > 0
    OBVIOUS
  <2> QED
    BY <1>7, <2>1 DEF Behind, Has
<1> QED
  BY <1>1, <1>5, <1>6, <1>7, <1>8

\* The packets that may wait while the client is silent.
LEMMA SteadyClientEnds ==
    ASSUME IInv, InSequence, Steady, NEW read \in {0, 1}, open["client"], C \in {3, 4},
           read = 1 => wire["client"] # <<>> /\ Head(wire["client"]).type = "newkeys", read = 0 => C = 4,
           CompleteHandshake("client", read, <<Msg("newkeys", 0)>>),
           kex'["server"] = kex["server"], kex'["client"].hash = kex["client"].hash
    PROVE  InSequence' /\ Steady'
<1> DEFINE c == wire["client"]
<1> DEFINE s == wire["server"]
<1> DEFINE h == kex["client"].hash
<1> DEFINE Lc == Level("client")
<1> DEFINE Ls == Level("server")
<1> DEFINE cs == cookies["server"]
<1>1. /\ "client" \in Sides /\ "server" \in Sides /\ Typed /\ LinksTyped
      /\ c \in Seq(OnWire) /\ s \in Seq(OnWire) /\ Other("client") = "server"
      /\ SidesFine /\ InOrder /\ AuthInStep /\ ZipInStep
  BY LinksAre, Tables DEF Sides, Other, Steady
<1>2. <<Msg("newkeys", 0)>> \in Seq(Letters) /\ Len(<<Msg("newkeys", 0)>>) = 1
      /\ <<Msg("newkeys", 0)>>[1].type = "newkeys" /\ 1..1 = {1}
  <2>1. "newkeys" \in Types /\ 0 \in Args
    BY DEF Types, Args
  <2>2. <<Msg("newkeys", 0)>> \in Seq(Letters)
    BY <2>1, Single
  <2> QED
    BY <2>2, Short DEF Msg
<1>3. read = 1 => wire["client"] # <<>>
  OBVIOUS
<1>4. /\ \E v, u : /\ Flows("client", v \o u, read)
                   /\ SealedBy(v, <<Msg("newkeys", 0)>>, out["client"].keys, out["client"].zip)
                   /\ SealedBy(u, queue["client"], h, StartedZip("client", WriteSlot("client")))
      /\ out'["client"].keys = h /\ out'["client"].zip = StartedZip("client", WriteSlot("client"))
      /\ in'["client"].keys = h /\ in'["client"].zip = StartedZip("client", ReadSlot("client"))
      /\ out'["server"] = out["server"] /\ in'["server"] = in["server"]
  BY <1>1, <1>2, <1>3, Completing
<1>5. PICK v, u : /\ Flows("client", v \o u, read)
                  /\ SealedBy(v, <<Msg("newkeys", 0)>>, out["client"].keys, out["client"].zip)
                  /\ SealedBy(u, queue["client"], h, StartedZip("client", WriteSlot("client")))
  BY <1>4
<1>6. /\ S = 3 /\ cookies["client"] = cs /\ h = <<cs, cs>> /\ kexinit["client"] # 0 /\ Lc = Ls
      /\ mode["server"] = "kex"
  <2>1. S = 3 /\ cookies["client"] = cs
    BY PhaseFacts DEF Joint
  <2>2. C >= 2 /\ C \notin {0, 1} /\ C # 0
    OBVIOUS
  <2>3. h = <<cs, cs>>
    BY <2>2 DEF IInv, Known
  <2>4. kexinit["client"] # 0 /\ mode["server"] = "kex"
    BY <2>1, <2>2, PhaseFacts
  <2>5. Lc = Ls
    BY <2>2, Levels
  <2> QED
    BY <2>1, <2>3, <2>4, <2>5
<1>7. /\ SidesFine'
      /\ kexinit'["client"] = 0 /\ mode'["client"] = "normal" /\ Level("client")' = cookies["client"]
      /\ queue'["client"] = <<>>
      /\ kexinit'["server"] = kexinit["server"] /\ mode'["server"] = mode["server"]
      /\ Level("server")' = Ls /\ queue'["server"] = queue["server"]
      /\ UNCHANGED <<authenticated, auths, offer, cookies, guess, skip, open, early>>
  <2>1. \A y \in Sides : kex'[y].hash = kex[y].hash
    BY DEF Sides
  <2>2. h = <<cookies["client"], cookies["client"]>> /\ "server" # "client"
    BY <1>6
  <2>3. out'[Other("client")] = out[Other("client")] /\ in'[Other("client")] = in[Other("client")]
    BY <1>1, <1>4
  <2>4. /\ SidesFine'
        /\ kexinit'["client"] = 0 /\ mode'["client"] = "normal" /\ Level("client")' = cookies["client"]
        /\ queue'["client"] = <<>>
        /\ \A y \in Sides : y # "client" => /\ kexinit'[y] = kexinit[y] /\ mode'[y] = mode[y]
                                            /\ Level(y)' = Level(y) /\ queue'[y] = queue[y]
        /\ UNCHANGED <<authenticated, auths, offer, cookies, guess, skip, open, early>>
    BY <1>1, <1>4, <2>1, <2>2, <2>3, SideEnds
  <2> QED
    BY <1>1, <2>2, <2>4
<1>8. C' = 0 /\ S' = 3
  BY <1>6, <1>7 DEF C, S, Phase
<1>9. InSequence'
  BY <1>1, <1>5, FlowsOn
<1>10. Guessed(guess, mode["server"], skip) = 0 /\ Guessed(guess, mode["server"], skip)' = 0
  <2>1. ~skip
    BY <1>6 DEF IInv, Phases
  <2> QED
    BY <1>6, <1>7, <2>1 DEF Guessed
<1>11. /\ v \in Seq(OnWire) /\ Len(v) = 1 /\ v[1].type = "newkeys"
       /\ v[1].keys = out["client"].keys /\ v[1].zip = out["client"].zip
  BY <1>2, <1>5 DEF SealedBy
<1>12. /\ u \in Seq(OnWire) /\ Len(u) = Len(queue["client"])
       /\ \A k \in 1..Len(u) : /\ u[k].type = queue["client"][k].type
                               /\ u[k].keys = h /\ u[k].zip = StartedZip("client", "csCompress")
  BY <1>5 DEF SealedBy, WriteSlot
<1>13. \A k \in 1..Len(u) : u[k].type \in {"app", "request"}
  <2>1. SUFFICES ASSUME NEW k \in 1..Len(u) PROVE u[k].type \in {"app", "request"}
    OBVIOUS
  <2> DEFINE q == queue["client"]
  <2>2. q \in Seq(Queued) /\ \A i \in 1..Len(q) : q[i].type # "success"
    BY <1>1 DEF Typed, SidesFine, SideFine
  <2>3. k \in 1..Len(q) /\ u[k].type = q[k].type
    BY <1>12
  <2> HIDE DEF q
  <2>4. q[k] \in Queued
    BY <2>2, <2>3
  <2> QED
    BY <2>2, <2>3, <2>4 DEF Queued
<1> DEFINE w == v \o u
<1>14. /\ w \in Seq(OnWire) /\ 1 \in 1..Len(w) /\ w[1] = v[1] /\ Has(w, "newkeys", 0)
       /\ \A k \in 1..Len(w) : \/ k = 1
                               \/ /\ Behind(w, "newkeys", k)
                                  /\ \E i \in 1..Len(u) : w[k] = u[i]
       /\ ~Has(w, "kexinit", 0) /\ \A k : ~Behind(w, "kexinit", k)
  BY <1>11, <1>12, <1>13, WrittenAtEnd
<1>15. /\ wire'["server"] = s \o w /\ wire'["client"] = IF read = 1 THEN Tail(c) ELSE c
       /\ Flows("client", w, read)
  BY <1>1, <1>5 DEF Flows
<1> HIDE DEF w, Lc, Ls, cs, h
<1>16. w[1].type = "newkeys" /\ w[1].keys = <<Ls, Ls>> /\ w[1].zip = out["client"].zip
       /\ out["client"].keys = <<Ls, Ls>>
  BY <1>1, <1>6, <1>11, <1>14 DEF SidesFine, SideFine, Lc
<1>17. \A k \in 1..Len(w) : k = 1 \/ /\ Behind(w, "newkeys", k) /\ w[k].keys = h
                                     /\ w[k].type \in {"app", "request"}
                                     /\ w[k].zip = StartedZip("client", "csCompress")
  BY <1>12, <1>13, <1>14
<1>18. NothingTo(wire'["client"])
  <2>1. OrderToClient(c, Lc, C, 3, mode["client"])
    BY <1>1, <1>6 DEF InOrder, Lc
  <2> HIDE DEF c
  <2>2. CASE read = 1
    <3>1. c # <<>> /\ Head(c).type = "newkeys"
      BY <2>2 DEF c
    <3>2. \A k \in 1..Len(Tail(c)) : /\ k + 1 \in 1..Len(c) /\ Tail(c)[k] = c[k + 1]
                                     /\ Behind(c, "newkeys", k + 1)
      <4>1. c \in Seq(OnWire)
        BY <1>1
      <4>2. \A k \in 1..Len(Tail(c)) :
               /\ k + 1 \in 1..Len(c) /\ Tail(c)[k] = c[k + 1]
               /\ \A t : Behind(c, t, k + 1) <=> Behind(Tail(c), t, k) \/ Head(c).type = t
        BY <3>1, <4>1, Reading
      <4> QED
        BY <3>1, <4>2, Zenon
    <3>3. \A k \in 1..Len(c) : Behind(c, "newkeys", k) => ~Live(c[k])
      BY <2>1 DEF OrderToClient
    <3>4. NothingTo(Tail(c))
      BY <3>2, <3>3 DEF NothingTo
    <3> QED
      BY <1>15, <2>2, <3>4
  <2>3. CASE read = 0
    <3>1. C = 4 /\ wire'["client"] = c
      BY <1>15, <2>3
    <3>2. NothingTo(c)
      BY <2>1, <3>1 DEF OrderToClient, NothingTo
    <3> QED
      BY <3>1, <3>2
  <2> QED
    BY <2>2, <2>3
<1>19. ASSUME open["server"] PROVE OrderToServer(s \o w, Ls, cs, 0, 3, mode["server"], 0)
  <2>1. /\ ServerExpects(s, Ls, cs, 3, mode["server"], 0)
        /\ ToServer(s, C, 3, cookies["client"], 0)
    BY <1>1, <1>6, <1>10, <1>19, Tables DEF InOrder, OrderToServer, Ls, cs
  <2>2. ~Has(s, "kexinit", 0) /\ ~Has(s, "newkeys", 0)
    <3>1. C \notin {0, 1, 2}
      OBVIOUS
    <3> QED
      BY <2>1, <3>1 DEF ToServer
  <2> HIDE DEF s
  <2>3. \A k \in 1..Len(w) : ~Behind(w, "newkeys", 1) /\ ~Behind(w, "kexinit", k)
    <3>1. \A j \in 1..Len(w) : ~(j < 1)
      OBVIOUS
    <3> QED
      BY <1>14, <3>1 DEF Behind
  <2>4. MayFollowToServer(s, w, Ls, cs, 3, mode["server"])
    <3>1. SUFFICES ASSUME NEW k \in 1..Len(w)
                   PROVE  /\ w[k].keys = IF Has(s, "newkeys", 0) \/ Behind(w, "newkeys", k) THEN <<cs, cs>>
                                         ELSE <<Ls, Ls>>
                          /\ w[k].type = "newkeys" \/ (w[k].type \in {"app", "request"} /\ Behind(w, "newkeys", k))
                          /\ ~Has(s, "kexinit", 0) /\ ~Behind(w, "kexinit", k)
      BY DEF MayFollowToServer
    <3>2. CASE k = 1
      BY <1>16, <2>2, <2>3, <3>2
    <3>3. CASE k # 1
      BY <1>6, <1>17, <2>2, <2>3, <3>3
    <3> QED
      BY <3>2, <3>3
  <2>5. ServerExpects(s \o w, Ls, cs, 3, mode["server"], 0)
    <3>1. 0 \in Nat
      OBVIOUS
    <3> QED
      BY <1>1, <1>14, <2>1, <2>4, <3>1, ServerGets
  <2>6. Has(s \o w, "newkeys", 0)
    BY <1>1, <1>14, Writing
  <2> QED
    BY <2>5, <2>6 DEF OrderToServer
<1>20. InOrder'
  <2>1. OrderToClient(wire'["client"], Level("client")', 0, 3, mode'["client"])
    BY <1>18 DEF OrderToClient, NothingTo
  <2> QED
    BY <1>7, <1>8, <1>10, <1>15, <1>19, <2>1 DEF InOrder, cs, s
<1>21. ~authenticated["client"] /\ AuthFine => ~auths["client"]
  <2>1. SUFFICES ASSUME ~authenticated["client"], AuthFine PROVE ~auths["client"]
    OBVIOUS
  <2>2. cookies["client"] = 1
    BY <2>1 DEF AuthFine
  <2>3. ~(Level("client") >= 1)
    BY <1>6, <2>2 DEF Level
  <2> QED
    BY <1>1, <2>3 DEF SidesFine, SideFine
<1>22. read = 1 => Head(c).type \notin {"request", "success"}
  OBVIOUS
<1>23. ASSUME AuthFine PROVE AuthFine'
  <2>1. \A y \in Sides : \A i \in 1..Len(queue'[y]) : queue'[y][i].type = "app"
    <3>1. \A i \in 1..Len(queue["server"]) : queue["server"][i].type = "app"
      BY <1>1, <1>23 DEF AuthFine
    <3>2. \A i \in 1..Len(queue'["client"]) : queue'["client"][i].type = "app"
      BY <1>7
    <3> QED
      BY <1>7, <3>1, <3>2 DEF Sides
  <2>2. \A k \in 1..Len(w) : w[k].type \notin {"request", "success"}
    <3>1. \A i \in 1..Len(queue["client"]) : queue["client"][i].type = "app"
      BY <1>1, <1>23 DEF AuthFine
    <3>2. \A k \in 1..Len(u) : u[k].type = "app"
      BY <1>12, <3>1
    <3>3. \A k \in 1..Len(w) : w[k].type = "newkeys" \/ w[k].type = "app"
      BY <1>14, <1>16, <3>2
    <3> QED
      BY <3>3
  <2>3. /\ \A y \in Sides : open'[y] => open[y]
        /\ authenticated' = authenticated /\ auths' = auths /\ cookies' = cookies
    BY <1>7
  <2> QED
    BY <1>1, <1>15, <1>21, <1>22, <1>23, <2>1, <2>2, <2>3, AuthKept
<1>24. ASSUME ZipFine, Delays => AuthFine PROVE ZipFine'
  <2>1. \A slot \in {"csCompress", "scCompress"} :
           StartedZip("client", slot) = ZipFor(Algorithms[slot], h, authenticated["client"])
    <3>1. h = <<cookies["client"], cookies["client"]>>
      BY <1>6
    <3> QED
      BY <1>1, <1>6, <1>24, <3>1, ZipEnds DEF h
  <2>2. Algorithms' = Algorithms /\ authenticated' = authenticated
    BY <1>7 DEF Algorithms
  <2>3. SideZips("client")'
    <3>1. /\ in'["client"].zip = ZipFor(Algorithms["scCompress"], in'["client"].keys, authenticated["client"])
          /\ out'["client"].zip = ZipFor(Algorithms["csCompress"], out'["client"].keys, authenticated["client"])
      BY <1>4, <2>1 DEF WriteSlot, ReadSlot, h
    <3> QED
      BY <2>2, <3>1 DEF SideZips, WriteSlot, ReadSlot
  <2>4. SideZips("server")'
    BY <1>4, <1>24, <2>2 DEF SideZips, ZipFine
  <2>5. ZipToClient(wire'["client"], Algorithms["scCompress"], authenticated["client"])
    BY <1>18 DEF NothingTo, ZipToClient
  <2>6. ASSUME open["server"] PROVE ZipToServer(s \o w, Algorithms["csCompress"], authenticated["client"])
    <3>1. ZipToServer(s, Algorithms["csCompress"], authenticated["client"])
      BY <1>24, <2>6 DEF ZipFine
    <3>2. out["client"].zip = ZipFor(Algorithms["csCompress"], out["client"].keys, authenticated["client"])
      BY <1>24 DEF ZipFine, SideZips, WriteSlot
    <3>3. \A k \in 1..Len(w) : w[k].zip = ZipFor(Algorithms["csCompress"], w[k].keys, authenticated["client"])
      <4>1. SUFFICES ASSUME NEW k \in 1..Len(w)
                     PROVE  w[k].zip = ZipFor(Algorithms["csCompress"], w[k].keys, authenticated["client"])
        OBVIOUS
      <4>2. CASE k = 1
        BY <1>16, <3>2, <4>2
      <4>3. CASE k # 1
        BY <1>17, <2>1, <4>3
      <4> QED
        BY <4>2, <4>3
    <3>4. authenticated["client"] \in BOOLEAN
      BY <1>1 DEF Typed
    <3> HIDE DEF s
    <3> QED
      BY <1>1, <1>14, <3>1, <3>3, <3>4, ZipGets
  <2> QED
    BY <1>7, <1>15, <2>2, <2>3, <2>4, <2>5, <2>6 DEF ZipFine
<1>25. AuthInStep' /\ ZipInStep'
  BY <1>1, <1>7, <1>23, <1>24, StaysInStep
<1> QED
  BY <1>7, <1>9, <1>20, <1>25 DEF Steady

LEMMA SteadyServerNewKeys ==
    ASSUME IInv, InSequence, Steady, ServerNewKeys PROVE InSequence' /\ Steady'
<1> DEFINE c == wire["client"]
<1> DEFINE s == wire["server"]
<1> DEFINE h == kex["server"].hash
<1> DEFINE Lc == Level("client")
<1> DEFINE Ls == Level("server")
<1> DEFINE cs == cookies["server"]
<1>1. /\ "client" \in Sides /\ "server" \in Sides /\ Typed /\ LinksTyped
      /\ c \in Seq(OnWire) /\ s \in Seq(OnWire) /\ Other("server") = "client"
      /\ SidesFine /\ InOrder /\ AuthInStep /\ ZipInStep /\ <<>> \in Seq(Letters)
  BY LinksAre, Tables DEF Sides, Other, Steady
<1>2. /\ open["server"] /\ s # <<>> /\ Head(s).type = "newkeys" /\ ~skip
      /\ mode["server"] = "kex" /\ kex["server"].step = 2
      /\ CompleteHandshake("server", 1, <<>>)
      /\ kex' = [kex EXCEPT !["server"].step = 3, !["server"].received = TRUE]
  BY DEF ServerNewKeys, Arrives
<1>3. kex'["client"] = kex["client"] /\ kex'["server"].hash = h
  <2> DEFINE k == [kex["server"] EXCEPT !.step = 3, !.received = TRUE]
  <2>1. kex' = [kex EXCEPT !["server"] = k]
    BY <1>1, <1>2 DEF Typed
  <2>2. kex["server"] \in Exchanges
    BY <1>1 DEF Typed
  <2>3. k.hash = h
    BY <2>2, Ends
  <2> HIDE DEF k
  <2> QED
    BY <1>1, <2>1, <2>3 DEF Typed
<1>4. /\ \E v, u : /\ Flows("server", v \o u, 1)
                   /\ SealedBy(v, <<>>, out["server"].keys, out["server"].zip)
                   /\ SealedBy(u, queue["server"], h, StartedZip("server", WriteSlot("server")))
      /\ out'["server"].keys = h /\ out'["server"].zip = StartedZip("server", WriteSlot("server"))
      /\ in'["server"].keys = h /\ in'["server"].zip = StartedZip("server", ReadSlot("server"))
      /\ out'["client"] = out["client"] /\ in'["client"] = in["client"]
  BY <1>1, <1>2, Completing
<1>5. PICK u : /\ Flows("server", u, 1)
               /\ SealedBy(u, queue["server"], h, StartedZip("server", WriteSlot("server")))
  <2>1. PICK v, u : /\ Flows("server", v \o u, 1)
                    /\ SealedBy(v, <<>>, out["server"].keys, out["server"].zip)
                    /\ SealedBy(u, queue["server"], h, StartedZip("server", WriteSlot("server")))
    BY <1>4
  <2>2. v \in Seq(OnWire) /\ Len(v) = 0 /\ u \in Seq(OnWire)
    BY <2>1 DEF SealedBy
  <2>3. v = <<>>
    BY <2>2
  <2>4. v \o u = u
    BY <2>2, <2>3
  <2> QED
    BY <2>1, <2>4
<1>6. S = 3
  BY <1>2 DEF S, Phase
<1>7. Guessed(guess, mode["server"], skip) = 0
  BY <1>2 DEF Guessed
<1>8. /\ ToServer(s, C, 3, cookies["client"], 0)
      /\ OrderToServer(s, Ls, cs, C, 3, mode["server"], 0)
  BY <1>1, <1>2, <1>6, <1>7, Tables DEF InOrder
<1>9. /\ C \in {0, 1} /\ h = <<cs, cs>> /\ kexinit["server"] # 0 /\ Lc = cs /\ mode["client"] = "normal"
  <2>1. C \in {0, 1}
    <3>1. Has(s, "newkeys", 0)
      BY <1>1, <1>2, Reading
    <3> QED
      BY <1>8, <3>1 DEF ToServer
  <2>2. S >= 2 /\ S # 0 /\ S \in {0, 3}
    BY <1>6
  <2>3. h = <<cs, cs>>
    BY <2>2 DEF IInv, Known
  <2>4. kexinit["server"] # 0
    BY <2>2, PhaseFacts
  <2>5. Lc = cs
    BY <1>6, <2>1, Levels
  <2>6. mode["client"] = "normal"
    BY <1>1, <2>1, <2>2, Modes
  <2> QED
    BY <2>1, <2>3, <2>4, <2>5, <2>6
<1>10. /\ SidesFine'
       /\ kexinit'["server"] = 0 /\ mode'["server"] = "normal" /\ Level("server")' = cs
       /\ queue'["server"] = <<>>
       /\ kexinit'["client"] = kexinit["client"] /\ mode'["client"] = mode["client"]
       /\ Level("client")' = Lc /\ queue'["client"] = queue["client"]
       /\ UNCHANGED <<authenticated, auths, offer, cookies, guess, skip, open, early>>
  <2>1. \A y \in Sides : kex'[y].hash = kex[y].hash
    BY <1>3 DEF Sides
  <2>2. h = <<cookies["server"], cookies["server"]>> /\ "server" # "client"
    BY <1>9
  <2>3. out'[Other("server")] = out[Other("server")] /\ in'[Other("server")] = in[Other("server")]
    BY <1>1, <1>4
  <2>4. /\ SidesFine'
        /\ kexinit'["server"] = 0 /\ mode'["server"] = "normal" /\ Level("server")' = cookies["server"]
        /\ queue'["server"] = <<>>
        /\ \A y \in Sides : y # "server" => /\ kexinit'[y] = kexinit[y] /\ mode'[y] = mode[y]
                                            /\ Level(y)' = Level(y) /\ queue'[y] = queue[y]
        /\ UNCHANGED <<authenticated, auths, offer, cookies, guess, skip, open, early>>
    BY <1>1, <1>2, <1>4, <2>1, <2>2, <2>3, SideEnds
  <2> QED
    BY <1>1, <2>2, <2>4
<1>11. C' = C /\ S' = 0
  BY <1>3, <1>10 DEF C, S, Phase
<1>12. InSequence'
  BY <1>1, <1>5, FlowsOn
<1>13. Guessed(guess, mode["server"], skip)' = 0
  BY <1>2, <1>10 DEF Guessed
<1>14. /\ u \in Seq(OnWire) /\ Len(u) = Len(queue["server"])
       /\ \A k \in 1..Len(u) : /\ u[k].type = queue["server"][k].type
                               /\ u[k].keys = h /\ u[k].zip = StartedZip("server", "scCompress")
  BY <1>5 DEF SealedBy, WriteSlot
<1>15. \A k \in 1..Len(u) : u[k].type \in {"app", "success"}
  <2>1. SUFFICES ASSUME NEW k \in 1..Len(u) PROVE u[k].type \in {"app", "success"}
    OBVIOUS
  <2> DEFINE q == queue["server"]
  <2>2. q \in Seq(Queued) /\ \A i \in 1..Len(q) : q[i].type # "request"
    BY <1>1 DEF Typed, SidesFine, SideFine
  <2>3. k \in 1..Len(q) /\ u[k].type = q[k].type
    BY <1>14
  <2> HIDE DEF q
  <2>4. q[k] \in Queued
    BY <2>2, <2>3
  <2> QED
    BY <2>2, <2>3, <2>4 DEF Queued
<1>16. wire'["client"] = c \o u /\ wire'["server"] = Tail(s)
  BY <1>1, <1>5 DEF Flows
<1> HIDE DEF Lc, Ls, cs, h
<1>17. ASSUME open["client"]
       PROVE  NothingTo(c) /\ OrderToClient(c \o u, Lc, C, 0, mode["client"])
  <2>1. /\ OrderToClient(c, Lc, C, 3, mode["client"])
        /\ ToClient(c, C, 3, cookies["server"], kex["server"].hash)
    BY <1>1, <1>6, <1>17, Tables DEF InOrder, Lc
  <2> HIDE DEF c
  <2>2. NothingTo(c)
    BY <1>9, <2>1 DEF OrderToClient, NothingTo
  <2>3. OrderToClient(c, Lc, C, 0, mode["client"])
    BY <2>2 DEF OrderToClient, NothingTo
  <2>4. ~Has(c, "kexinit", 0) /\ ~Has(c, "newkeys", 0)
    BY <1>9, <2>1 DEF ToClient
  <2>5. \A k : ~Behind(u, "kexinit", k) /\ ~Behind(u, "newkeys", k)
    BY <1>15 DEF Behind
  <2>6. MayFollow(c, u, Lc, C, 0, mode["client"])
    <3>1. SUFFICES ASSUME NEW k \in 1..Len(u)
                   PROVE  /\ u[k].keys = <<Lc, Lc>> /\ u[k].type \in {"app", "success"}
                          /\ C \in {0, 1} /\ mode["client"] = "normal"
                          /\ ~Has(c, "kexinit", 0) /\ ~Behind(u, "kexinit", k)
                          /\ ~Has(c, "newkeys", 0) /\ ~Behind(u, "newkeys", k)
      BY DEF MayFollow
    <3> QED
      BY <1>9, <1>14, <1>15, <2>4, <2>5
  <2> QED
    BY <1>1, <1>14, <2>2, <2>3, <2>6, ClientGets
<1>18. OrderToServer(Tail(s), cs, cs, C, 0, "normal", 0)
  <2> DEFINE t == Tail(s)
  <2>1. /\ \A k \in 1..Len(t) : /\ k + 1 \in 1..Len(s) /\ t[k] = s[k + 1]
                                /\ \A ty : Behind(s, ty, k + 1) <=> Behind(t, ty, k) \/ Head(s).type = ty
        /\ \A ty : Has(s, ty, 0) <=> Has(t, ty, 0) \/ Head(s).type = ty
    BY <1>1, <1>2, Reading DEF s
  <2>2. Head(s).type = "newkeys" /\ "newkeys" # "kexinit"
    BY <1>2
  <2> HIDE DEF t, s
  <2>3. \A k \in 1..Len(s) : Live(s[k]) /\ Behind(s, "newkeys", k) =>
           /\ s[k].keys = <<cs, cs>> /\ s[k].type \notin {"reply", "success"}
           /\ s[k].type \in {"app", "request", "newkeys"} => ~Behind(s, "kexinit", k)
    BY <1>8 DEF OrderToServer, ServerExpects
  <2>4. ASSUME NEW k \in 1..Len(t), Live(t[k])
        PROVE  /\ t[k].keys = <<cs, cs>> /\ t[k].type \notin {"reply", "success"}
               /\ t[k].type \in {"app", "request", "newkeys"} => ~Behind(t, "kexinit", k)
    <3> DEFINE p == k + 1
    <3>1. /\ p \in 1..Len(s) /\ t[k] = s[p] /\ Behind(s, "newkeys", p)
          /\ Behind(s, "kexinit", p) <=> Behind(t, "kexinit", k)
      BY <2>1, <2>2
    <3> HIDE DEF p
    <3> QED
      BY <2>3, <2>4, <3>1
  <2>5. ServerExpects(t, cs, cs, 0, "normal", 0)
    BY <2>4 DEF ServerExpects
  <2>6. C = 1 => Has(t, "kexinit", 0)
    <3>1. C = 1 => Has(s, "kexinit", 0)
      BY <1>8 DEF OrderToServer
    <3> QED
      BY <2>1, <2>2, <3>1
  <2>7. OrderToServer(t, cs, cs, C, 0, "normal", 0)
    BY <1>9, <2>5, <2>6 DEF OrderToServer
  <2> QED
    BY <2>7 DEF t
<1>19. InOrder'
  BY <1>10, <1>11, <1>13, <1>16, <1>17, <1>18 DEF InOrder, cs
<1>20. Head(wire["server"]).type \notin {"request", "success"}
  BY <1>2
<1>21. ASSUME AuthFine PROVE AuthFine'
  <2>1. \A y \in Sides : \A i \in 1..Len(queue'[y]) : queue'[y][i].type = "app"
    <3>1. \A i \in 1..Len(queue["client"]) : queue["client"][i].type = "app"
      BY <1>1, <1>21 DEF AuthFine
    <3>2. \A i \in 1..Len(queue'["server"]) : queue'["server"][i].type = "app"
      BY <1>10
    <3> QED
      BY <1>10, <3>1, <3>2 DEF Sides
  <2>2. \A k \in 1..Len(u) : u[k].type \notin {"request", "success"}
    <3>1. \A i \in 1..Len(queue["server"]) : queue["server"][i].type = "app"
      BY <1>1, <1>21 DEF AuthFine
    <3> QED
      BY <1>14, <3>1
  <2>3. /\ \A y \in Sides : open'[y] => open[y]
        /\ authenticated' = authenticated /\ auths' = auths /\ cookies' = cookies /\ "server" # "client"
    BY <1>10
  <2> QED
    BY <1>1, <1>5, <1>20, <1>21, <2>1, <2>2, <2>3, AuthKept
<1>22. ASSUME ZipFine, Delays => AuthFine PROVE ZipFine'
  <2> DEFINE a == authenticated["client"]
  <2>1. \A slot \in {"csCompress", "scCompress"} :
           StartedZip("server", slot) = ZipFor(Algorithms[slot], h, authenticated["server"])
    BY <1>1, <1>9, <1>22, ZipEnds DEF h, cs
  <2>2. Algorithms' = Algorithms /\ authenticated' = authenticated
    BY <1>10 DEF Algorithms
  <2>3. SideZips("server")'
    <3>1. /\ in'["server"].zip = ZipFor(Algorithms["csCompress"], in'["server"].keys, authenticated["server"])
          /\ out'["server"].zip = ZipFor(Algorithms["scCompress"], out'["server"].keys, authenticated["server"])
      BY <1>4, <2>1 DEF WriteSlot, ReadSlot, h
    <3> QED
      BY <2>2, <3>1 DEF SideZips, WriteSlot, ReadSlot
  <2>4. SideZips("client")'
    BY <1>4, <1>22, <2>2 DEF SideZips, ZipFine
  <2>5. a \in BOOLEAN
    BY <1>1 DEF Typed
  <2>6. ZipToServer(Tail(s), Algorithms["csCompress"], a)
    <3>1. ZipToServer(s, Algorithms["csCompress"], a) /\ s # <<>>
      BY <1>2, <1>22 DEF ZipFine
    <3> HIDE DEF s, a
    <3> QED
      BY <1>1, <2>5, <3>1, ZipReads
  <2>7. ASSUME open["client"] PROVE ZipToClient(c \o u, Algorithms["scCompress"], a)
    <3>1. ZipToClient(c, Algorithms["scCompress"], a)
      BY <1>17, <2>7 DEF NothingTo, ZipToClient
    <3>2. ASSUME NEW k \in 1..Len(u)
          PROVE  u[k].zip = ZipFor(Algorithms["scCompress"], u[k].keys,
                                   a \/ Has(c, "success", 0) \/ Behind(u, "success", k))
      <4>1. queue["server"] # <<>>
        BY <1>14
      <4>2. u[k].keys = <<cookies["server"], cookies["server"]>>
            /\ u[k].zip = ZipFor(Algorithms["scCompress"], u[k].keys, authenticated["server"])
        BY <1>9, <1>14, <2>1 DEF cs
      <4> QED
        BY <1>1, <1>9, <4>1, <4>2, DrainedZip
    <3> HIDE DEF c, a
    <3> QED
      BY <1>1, <1>14, <2>5, <3>1, <3>2, ZipGets
  <2> QED
    BY <1>10, <1>16, <2>2, <2>3, <2>4, <2>6, <2>7 DEF ZipFine
<1>23. AuthInStep' /\ ZipInStep'
  BY <1>1, <1>10, <1>21, <1>22, StaysInStep
<1> QED
  BY <1>10, <1>12, <1>19, <1>23 DEF Steady

LEMMA SteadyClientNewKeys ==
    ASSUME IInv, InSequence, Steady, ClientNewKeys PROVE InSequence' /\ Steady'
<1> DEFINE k == [kex["client"] EXCEPT !.step = 3, !.received = TRUE]
<1>1. Typed /\ "client" \in Sides /\ "server" \in Sides /\ wire["client"] \in Seq(OnWire)
  BY LinksAre, Tables DEF Sides
<1>2. /\ open["client"] /\ wire["client"] # <<>> /\ Head(wire["client"]).type = "newkeys"
      /\ mode["client"] = "kex" /\ kex["client"].step = 2
  BY DEF ClientNewKeys, Arrives
<1>3. kex' = [kex EXCEPT !["client"] = k]
  BY <1>1 DEF ClientNewKeys, Typed
<1>4. k.step = 3 /\ k.hash = kex["client"].hash
  <2>1. kex["client"] \in Exchanges
    BY <1>1 DEF Typed
  <2> QED
    BY <2>1, Ends
<1> HIDE DEF k
<1>5. /\ kex'["client"].step = 3 /\ kex'["client"].hash = kex["client"].hash /\ kex'["server"] = kex["server"]
  BY <1>1, <1>3, <1>4 DEF Typed
<1>6. C = 3 /\ S = 3
  <2>1. C = 3
    BY <1>2 DEF C, Phase
  <2> QED
    BY <2>1, PhaseFacts DEF Joint
<1>7. CASE kex["client"].verified
  <2>1. ClientFinish(1) /\ kex["client"].step > 1
    BY <1>2, <1>7 DEF ClientNewKeys
  <2>2. CompleteHandshake("client", 1, <<Msg("newkeys", 0)>>)
    BY <2>1, Finishes
  <2>3. 1 \in {0, 1} /\ C \in {3, 4} /\ 1 # 0
    BY <1>6
  <2> QED
    BY <1>2, <1>5, <2>2, <2>3, SteadyClientEnds
<1>8. CASE ~kex["client"].verified
  <2>1. /\ Answer("client", <<>>)
        /\ UNCHANGED <<authenticated, auths, offer, session, open, early, kexinit, cookies, mode, queue>>
        /\ guess' = guess /\ skip' = skip
    BY <1>8 DEF ClientNewKeys, authVars
  <2>2. C' = 4 /\ S' = S
    BY <1>2, <1>5, <2>1 DEF C, S, Phase
  <2>3. \A y \in Sides : kex'[y].hash = kex[y].hash
    BY <1>5 DEF Sides
  <2>4. C' = C + 1 /\ C \in {2, 3} /\ Head(wire["client"]).type = IF C = 2 THEN "reply" ELSE "newkeys"
    BY <1>2, <1>6, <2>2
  <2> QED
    BY <1>2, <1>6, <2>1, <2>2, <2>3, <2>4, ClientParses
<1> QED
  BY <1>7, <1>8

LEMMA SteadyVerified ==
    ASSUME IInv, InSequence, Steady, Verified PROVE InSequence' /\ Steady'
<1> DEFINE k == [kex["client"] EXCEPT !.verified = TRUE]
<1>1. Typed /\ "client" \in Sides /\ "server" \in Sides
  BY DEF IInv, Sides
<1>2. asked /\ open["client"] /\ kex' = [kex EXCEPT !["client"] = k]
  BY <1>1 DEF Verified, Typed
<1>3. k.step = kex["client"].step /\ k.hash = kex["client"].hash
  BY <1>1 DEF Typed, Exchanges
<1> HIDE DEF k
<1>4. /\ kex'["client"].step = kex["client"].step /\ kex'["client"].hash = kex["client"].hash
      /\ kex'["server"] = kex["server"]
  BY <1>1, <1>2, <1>3 DEF Typed
<1>5. C \in {3, 4} /\ (kex["client"].received <=> C = 4)
  BY <1>2 DEF IInv, Verification
<1>6. CASE kex["client"].received
  <2>1. C = 4
    BY <1>5, <1>6
  <2>2. ClientFinish(0) /\ kex["client"].step > 1
    <3>1. kex["client"].step = 3
      <4>1. kex["client"].step \in 0..3
        BY <1>1 DEF Typed, Exchanges
      <4> QED
        BY <2>1, <4>1 DEF C, Phase
    <3> QED
      BY <1>6, <3>1 DEF Verified
  <2>3. CompleteHandshake("client", 0, <<Msg("newkeys", 0)>>)
    BY <2>2, Finishes
  <2>4. 0 \in {0, 1} /\ 0 # 1
    OBVIOUS
  <2> QED
    BY <1>2, <1>4, <1>5, <2>1, <2>3, <2>4, SteadyClientEnds
<1>7. CASE ~kex["client"].received
  <2>1. /\ UNCHANGED <<offer, kexinit, cookies, mode, guess, session, early, authenticated, auths, queue>>
        /\ UNCHANGED <<in, out, wire, open, skip>>
    BY <1>7 DEF Verified, authVars, linkVars
  <2>2. \A y \in Sides : kex'[y].hash = kex[y].hash /\ kex'[y].step = kex[y].step
    BY <1>4 DEF Sides
  <2> QED
    BY <2>1, <2>2, SteadyPause
<1> QED
  BY <1>6, <1>7

-----------------------------------------------------------------------------
(* Every packet is read at its time.                                       *)

\* What a side has sent when both have parsed the other's ident.
LEMMA FirstPackets ==
    ASSUME Init, NEW x \in Sides
    PROVE  \E n \in {1, 2} :
              /\ n = IF x = "server" /\ guess THEN 2 ELSE 1
              /\ Numbered(wire[x], in[x].seqno, out[Other(x)].seqno)
              /\ Len(wire[x]) = n /\ 1..n = (IF n = 2 THEN {1, 2} ELSE {1})
              /\ wire[x][1].type = "kexinit" /\ (n = 2 => wire[x][2].type = "dhinit")
              /\ \A k \in 1..n : wire[x][k].keys = NoKeys /\ wire[x][k].zip = Plain
<1> DEFINE a == Msg("kexinit", 1)
<1> DEFINE b == Msg("dhinit", 0)
<1> DEFINE n == IF x = "server" /\ guess THEN 2 ELSE 1
<1> DEFINE msgs == IF x = "server" /\ guess THEN <<a, b>> ELSE <<a>>
<1>1. a \in Letters /\ b \in Letters /\ a.type = "kexinit" /\ b.type = "dhinit"
  BY DEF Msg, Letters, Types, Args
<1>2. /\ wire[x] = Sealed(Fresh, msgs) /\ in[x] = Fresh /\ Other(x) \in Sides
      /\ out[Other(x)] = After(Fresh, n)
  <2>1. wire[x] = Sealed(Fresh, msgs) /\ in[x] = Fresh
    BY DEF Init
  <2>2. Other(x) \in Sides /\ (Other(x) = "client" <=> x = "server")
    BY DEF Sides, Other
  <2>3. out[Other(x)] = After(Fresh, IF Other(x) = "client" /\ guess THEN 2 ELSE 1)
    BY <2>2 DEF Init
  <2> QED
    BY <2>1, <2>2, <2>3
<1> HIDE DEF a, b
<1>3. /\ Len(<<a>>) = 1 /\ <<a>>[1] = a /\ 1..1 = {1}
      /\ Len(<<a, b>>) = 2 /\ <<a, b>>[1] = a /\ <<a, b>>[2] = b /\ 1..2 = {1, 2}
  BY Short
<1>4. msgs \in Seq(Letters)
  <2>1. <<a>> \in Seq(Letters) /\ <<a, b>> \in Seq(Letters)
    BY <1>1
  <2> QED
    BY <2>1
<1>5. /\ n \in {1, 2} /\ Len(msgs) = n /\ 1..n = (IF n = 2 THEN {1, 2} ELSE {1})
      /\ msgs[1].type = "kexinit" /\ (n = 2 => msgs[2].type = "dhinit")
  <2>1. CASE x = "server" /\ guess
    BY <1>1, <1>3, <2>1
  <2>2. CASE ~(x = "server" /\ guess)
    BY <1>1, <1>3, <2>2
  <2> QED
    BY <2>1, <2>2
<1>6. n = IF x = "server" /\ guess THEN 2 ELSE 1
  OBVIOUS
<1> HIDE DEF msgs, n
<1>7. /\ SealedBy(Sealed(Fresh, msgs), msgs, Fresh.keys, Fresh.zip)
      /\ \A k \in 1..Len(msgs) : Sealed(Fresh, msgs)[k].seqno = (Fresh.seqno + (k - 1)) % SeqMod
  BY <1>4, InitialValues, Sealing
<1>8. /\ Len(wire[x]) = n
      /\ \A k \in 1..n : /\ wire[x][k].type = msgs[k].type /\ wire[x][k].keys = Fresh.keys
                         /\ wire[x][k].zip = Fresh.zip
                         /\ wire[x][k].seqno = (Fresh.seqno + (k - 1)) % SeqMod
  BY <1>2, <1>5, <1>7 DEF SealedBy
<1>9. Fresh.keys = NoKeys /\ Fresh.zip = Plain /\ Fresh.seqno \in Nat
  BY DEF Fresh
<1>10. out[Other(x)].seqno = (Fresh.seqno + n) % SeqMod
  BY <1>2, InitialValues, Counting
<1>11. Numbered(wire[x], in[x].seqno, out[Other(x)].seqno)
  BY <1>2, <1>8, <1>10 DEF Numbered
<1>12. 1 \in 1..n /\ (n = 2 => 2 \in 1..n)
  BY <1>5
<1>13. wire[x][1].type = "kexinit" /\ (n = 2 => wire[x][2].type = "dhinit")
  BY <1>5, <1>8, <1>12
<1>14. \A k \in 1..n : wire[x][k].keys = NoKeys /\ wire[x][k].zip = Plain
  BY <1>8, <1>9
<1> QED
  BY <1>5, <1>6, <1>8, <1>11, <1>13, <1>14

LEMMA SteadyInitially == Init => InSequence /\ Steady
<1>1. SUFFICES ASSUME Init PROVE InSequence /\ Steady
  OBVIOUS
<1> USE <1>1
<1> DEFINE c == wire["client"]
<1> DEFINE s == wire["server"]
<1> DEFINE d == Guessed(guess, mode["server"], skip)
<1>2. "client" \in Sides /\ "server" \in Sides
  BY DEF Sides
<1>3. InSequence
  BY FirstPackets DEF InSequence
<1>4. Len(c) = 1 /\ 1..Len(c) = {1} /\ c[1].type = "kexinit" /\ c[1].keys = NoKeys /\ c[1].zip = Plain
  <2>1. PICK n \in {1, 2} :
              /\ n = IF "client" = "server" /\ guess THEN 2 ELSE 1
              /\ Len(c) = n /\ 1..n = (IF n = 2 THEN {1, 2} ELSE {1})
              /\ c[1].type = "kexinit" /\ (n = 2 => c[2].type = "dhinit")
              /\ \A k \in 1..n : c[k].keys = NoKeys /\ c[k].zip = Plain
    BY <1>2, FirstPackets
  <2>2. n = 1
    BY <2>1
  <2> QED
    BY <2>1, <2>2
<1>5. PICK n \in {1, 2} :
         /\ n = IF guess THEN 2 ELSE 1
         /\ Len(s) = n /\ 1..n = (IF n = 2 THEN {1, 2} ELSE {1})
         /\ s[1].type = "kexinit" /\ (n = 2 => s[2].type = "dhinit")
         /\ \A k \in 1..n : s[k].keys = NoKeys /\ s[k].zip = Plain
  BY <1>2, FirstPackets
<1>6. /\ C = 1 /\ S = 1
      /\ \A x \in Sides : /\ kexinit[x] = 1 /\ cookies[x] = 1 /\ mode[x] = "first" /\ session[x] = NoKeys
                          /\ queue[x] = <<>> /\ ~authenticated[x] /\ ~auths[x]
      /\ skip = FALSE
  BY <1>2 DEF Init, C, S, Phase
<1>7. \A x \in Sides : Level(x) = 0 /\ ~(0 >= 1)
  BY <1>6 DEF Level
<1>8. \A x \in Sides : in[x].keys = NoKeys /\ out[x].keys = NoKeys /\ in[x].zip = Plain /\ out[x].zip = Plain
  <2>1. SUFFICES ASSUME NEW x \in Sides
                 PROVE  in[x].keys = NoKeys /\ out[x].keys = NoKeys /\ in[x].zip = Plain /\ out[x].zip = Plain
    OBVIOUS
  <2>2. in[x] = Fresh /\ out[x] = After(Fresh, IF x = "client" /\ guess THEN 2 ELSE 1)
    BY DEF Init
  <2>3. Fresh.keys = NoKeys /\ Fresh.zip = Plain
    BY DEF Fresh
  <2> QED
    BY <2>2, <2>3, InitialValues, Counting
<1>9. SidesFine
  <2>1. ASSUME NEW x \in Sides PROVE SideFine(x)
    <3>1. in[x].keys = <<Level(x), Level(x)>> /\ out[x].keys = <<Level(x), Level(x)>>
      BY <1>7, <1>8 DEF NoKeys
    <3>2. kexinit[x] # 0 /\ cookies[x] = 1 /\ mode[x] # "normal"
      BY <1>6
    <3>3. \A i \in 1..Len(queue[x]) : queue[x][i].type # IF x = "client" THEN "success" ELSE "request"
      BY <1>6
    <3>4. ~(Level(x) >= 1)
      BY <1>7
    <3> QED
      BY <1>6, <3>1, <3>2, <3>3, <3>4 DEF SideFine
  <2> QED
    BY <1>2, <2>1 DEF SidesFine
<1> HIDE DEF c, s
<1>10. OrderToClient(c, Level("client"), C, S, mode["client"])
  <2>1. ~Behind(c, "newkeys", 1)
    BY <1>4 DEF Behind
  <2>2. c[1].keys = <<Level("client"), Level("client")>>
    BY <1>2, <1>4, <1>7 DEF NoKeys
  <2> QED
    BY <1>4, <1>6, <2>1, <2>2 DEF OrderToClient
<1>11. d = (IF guess THEN 2 ELSE 0) /\ (guess \/ n = 1)
  BY <1>2, <1>5, <1>6 DEF Guessed
<1>12. OrderToServer(s, Level("server"), cookies["server"], C, S, mode["server"], d)
  <2>1. \A k \in 1..Len(s) : /\ s[k].keys = <<Level("server"), Level("server")>>
                             /\ s[k].type = "kexinit" \/ (s[k].type = "dhinit" /\ ~(k > d))
    <3>1. SUFFICES ASSUME NEW k \in 1..Len(s)
                   PROVE  /\ s[k].keys = <<Level("server"), Level("server")>>
                          /\ s[k].type = "kexinit" \/ (s[k].type = "dhinit" /\ ~(k > d))
      OBVIOUS
    <3>2. s[k].keys = <<Level("server"), Level("server")>>
      BY <1>2, <1>5, <1>7 DEF NoKeys
    <3>3. k = 1 \/ (k = 2 /\ n = 2)
      BY <1>5
    <3>4. n = 2 => d = 2
      BY <1>11
    <3> QED
      BY <1>5, <3>2, <3>3, <3>4
  <2>2. \A k : ~Behind(s, "newkeys", k)
    BY <2>1 DEF Behind
  <2> HIDE DEF d
  <2>3. ServerExpects(s, Level("server"), cookies["server"], 1, mode["server"], d)
    BY <2>1, <2>2 DEF ServerExpects
  <2>4. Has(s, "kexinit", 0)
    <3>1. 1 \in 1..Len(s) /\ 1 > 0
      BY <1>5
    <3> QED
      BY <1>5, <3>1 DEF Has
  <2> QED
    BY <1>5, <1>6, <2>3, <2>4 DEF OrderToServer
<1>13. InOrder
  BY <1>10, <1>12 DEF InOrder, c, s
<1>14. AuthFine
  <2>1. ~Has(c, "success", 0) /\ Once(c, "success", 0)
    BY <1>4 DEF Has, Once
  <2>2. \A k \in 1..Len(s) : s[k].type # "request"
    BY <1>5
  <2>3. ~Has(s, "request", 0) /\ AskedOn(s, authenticated["client"])
    BY <2>2 DEF Has, AskedOn, Behind
  <2>4. \A x \in Sides : \A i \in 1..Len(queue[x]) : queue[x][i].type = "app"
    BY <1>6
  <2> QED
    BY <1>2, <1>6, <2>1, <2>3, <2>4 DEF AuthFine, c, s
<1>15. ZipFine
  <2>1. \A z, a : ZipFor(z, NoKeys, a) = Plain
    BY DEF ZipFor
  <2>2. SideZips("client") /\ SideZips("server")
    BY <1>2, <1>8, <2>1 DEF SideZips
  <2>3. ZipToClient(c, Algorithms["scCompress"], authenticated["client"])
    BY <1>4, <2>1 DEF ZipToClient
  <2>4. ZipToServer(s, Algorithms["csCompress"], authenticated["client"])
    BY <1>5, <2>1 DEF ZipToServer
  <2> QED
    BY <2>2, <2>3, <2>4 DEF ZipFine, c, s
<1> QED
  BY <1>3, <1>9, <1>13, <1>14, <1>15 DEF Steady, AuthInStep, ZipInStep

LEMMA SteadyReceive ==
    ASSUME IInv, InSequence, Steady, NEW x \in Sides, Receive(x) PROVE InSequence' /\ Steady'
<1>1. ASSUME RcvKexInit(x) PROVE InSequence' /\ Steady'
  BY <1>1, SteadyClientKexInit, SteadyServerKexInit DEF Sides
<1>2. ASSUME x = "client", RcvReply \/ ClientNewKeys \/ RcvAuthSuccess PROVE InSequence' /\ Steady'
  BY <1>2, SteadyRcvReply, SteadyClientNewKeys, SteadyRcvAuthSuccess
<1>3. ASSUME x = "server", SkipGuess \/ RcvDhInit \/ ServerNewKeys \/ RcvAuthRequest
      PROVE  InSequence' /\ Steady'
  BY <1>3, SteadySkipGuess, SteadyRcvDhInit, SteadyServerNewKeys, SteadyRcvAuthRequest
<1> QED
  BY <1>1, <1>2, <1>3, SteadyRcvApp, SteadyRcvDisconnect, SteadyMisfit DEF Receive

LEMMA SteadyInductive == IInv /\ InSequence /\ Steady /\ [Next]_vars => InSequence' /\ Steady'
<1>1. SUFFICES ASSUME IInv, InSequence, Steady, [Next]_vars PROVE InSequence' /\ Steady'
  OBVIOUS
<1>2. ASSUME NEW x \in Sides, Receive(x) \/ AppSend(x) \/ Rekey(x) \/ Disconnect(x)
      PROVE  InSequence' /\ Steady'
  <2>1. ASSUME Rekey(x) PROVE InSequence' /\ Steady'
    BY <1>1, <2>1, SteadyClientRekey, SteadyServerRekey DEF Sides
  <2> QED
    BY <1>1, <1>2, <2>1, SteadyReceive, SteadyAppSend, SteadyDisconnect
<1>3. ASSUME AuthRequest \/ AuthSuccess \/ Verified \/ Denied PROVE InSequence' /\ Steady'
  BY <1>1, <1>3, SteadyAuthRequest, SteadyAuthSuccess, SteadyVerified, SteadyDenied
<1>4. ASSUME UNCHANGED vars PROVE InSequence' /\ Steady'
  <2>1. /\ UNCHANGED <<offer, kexinit, cookies, mode, guess, session, early, authenticated, auths, queue>>
        /\ UNCHANGED <<in, out, wire, open, skip>> /\ kex' = kex
    BY <1>4 DEF vars, kexVars, linkVars, authVars, history
  <2> QED
    BY <1>1, <2>1, SteadyPause
<1> QED
  BY <1>1, <1>2, <1>3, <1>4 DEF Next

\* The packet that a side is about to read has its keys, its number and its stream.
LEMMA HeadReadable ==
    ASSUME IInv, InSequence, Steady, NEW x \in Sides, Turn(x), Live(Head(wire[x])), ~(early /\ Delays)
    PROVE  Readable(in[x], Head(wire[x]))
<1> DEFINE w == wire[x]
<1>1. /\ w \in Seq(OnWire) /\ w # <<>> /\ open[x] /\ x \in {"client", "server"}
      /\ in[x].seqno \in 0..(SeqMod - 1)
      /\ SidesFine /\ InOrder /\ ZipFine
  BY Tables DEF Turn, Sides, Steady, ZipInStep, IInv, Typed, Ciphers
<1>2. /\ 1 \in 1..Len(w) /\ Head(w) = w[1] /\ \A t : ~Behind(w, t, 1)
  BY <1>1, Reading
<1>3. Head(w).seqno = in[x].seqno
  <2>1. w[1].seqno = (in[x].seqno + (1 - 1)) % SeqMod
    BY <1>2 DEF InSequence, Numbered
  <2>2. 1 - 1 = 0
    OBVIOUS
  <2>3. (in[x].seqno + 0) % SeqMod = in[x].seqno
    BY <1>1, InRange
  <2> QED
    BY <1>2, <2>1, <2>2, <2>3
<1>4. in[x].keys = <<Level(x), Level(x)>>
  BY <1>1 DEF SidesFine, SideFine
<1>5. Live(w[1])
  BY <1>2
<1>6. w[1].keys = <<Level(x), Level(x)>>
  <2>1. CASE x = "client"
    <3>1. OrderToClient(w, Level("client"), C, S, mode["client"])
      BY <1>1, <2>1 DEF InOrder
    <3> HIDE DEF w
    <3> QED
      BY <1>2, <1>5, <2>1, <3>1 DEF OrderToClient
  <2>2. CASE x = "server"
    <3>1. ServerExpects(w, Level("server"), cookies["server"], S, mode["server"],
                        Guessed(guess, mode["server"], skip))
      BY <1>1, <2>2 DEF InOrder, OrderToServer
    <3> HIDE DEF w
    <3> QED
      BY <1>2, <1>5, <2>2, <3>1 DEF ServerExpects
  <2> QED
    BY <1>1, <2>1, <2>2
<1>7. w[1].zip = in[x].zip
  <2>1. CASE x = "client"
    <3>1. /\ ZipToClient(w, Algorithms["scCompress"], authenticated["client"])
          /\ in["client"].zip = ZipFor(Algorithms["scCompress"], in["client"].keys, authenticated["client"])
      BY <1>1, <2>1 DEF ZipFine, SideZips, ReadSlot
    <3> HIDE DEF w
    <3>2. w[1].zip = ZipFor(Algorithms["scCompress"], w[1].keys,
                            authenticated["client"] \/ Behind(w, "success", 1))
      BY <1>2, <1>5, <3>1 DEF ZipToClient
    <3>3. (authenticated["client"] \/ Behind(w, "success", 1)) = authenticated["client"]
      <4>1. authenticated["client"] \in BOOLEAN
        BY DEF IInv, Typed, Sides
      <4> QED
        BY <1>2, <4>1
    <3> QED
      BY <1>4, <1>6, <2>1, <3>1, <3>2, <3>3
  <2>2. CASE x = "server"
    <3>1. /\ ZipToServer(w, Algorithms["csCompress"], authenticated["client"])
          /\ in["server"].zip = ZipFor(Algorithms["csCompress"], in["server"].keys, authenticated["server"])
      BY <1>1, <2>2 DEF ZipFine, SideZips, ReadSlot
    <3> HIDE DEF w
    <3>2. w[1].zip = ZipFor(Algorithms["csCompress"], in["server"].keys, authenticated["client"])
      BY <1>2, <1>4, <1>5, <1>6, <2>2, <3>1 DEF ZipToServer
    <3>3. Algorithms["csCompress"] # "zlib@openssh.com" \/ authenticated["client"] = authenticated["server"]
      <4>1. CASE ~Delays
        BY <4>1, NotDelayed
      <4>2. CASE Delays
        <5>1. AuthFine
          BY <4>2 DEF Steady, AuthInStep
        <5>2. authenticated["server"] => authenticated["client"]
          <6>1. 1 \in 1..Len(wire["server"]) /\ Live(wire["server"][1]) /\ open["server"]
            BY <1>1, <1>2, <1>5, <2>2 DEF w
          <6>2. ~NothingTo(wire["server"])
            BY <6>1 DEF NothingTo
          <6> QED
            BY <5>1, <6>1, <6>2 DEF AuthFine
        <5>3. authenticated["client"] \in BOOLEAN /\ authenticated["server"] \in BOOLEAN
          BY DEF IInv, Typed, Sides
        <5>4. authenticated["client"] => authenticated["server"]
          BY <5>1 DEF AuthFine
        <5> QED
          BY <5>2, <5>3, <5>4
      <4> QED
        BY <4>1, <4>2
    <3> QED
      BY <2>2, <3>1, <3>2, <3>3, ZipAnyway
  <2> QED
    BY <1>1, <2>1, <2>2
<1> QED
  BY <1>2, <1>3, <1>4, <1>6, <1>7 DEF Readable

\* It is of a type that onKEXPayload(), or onPayload(), waits for.
LEMMA HeadExpected ==
    ASSUME IInv, Steady, NEW x \in Sides, Turn(x), Live(Head(wire[x]))
    PROVE  Expected(x, Head(wire[x]).type)
<1> DEFINE w == wire[x]
<1> DEFINE t == Head(w).type
<1>1. /\ w \in Seq(OnWire) /\ w # <<>> /\ open[x] /\ x \in {"client", "server"} /\ ~(x = "server" /\ skip)
      /\ SidesFine /\ InOrder /\ Typed
  BY Tables, LinksAre DEF Turn, Sides, Steady
<1>2. /\ 1 \in 1..Len(w) /\ Head(w) = w[1] /\ (\A ty : ~Behind(w, ty, 1)) /\ Has(w, t, 0) /\ Live(w[1])
  BY <1>1, Reading
<1>3. t \in Types /\ t # "disconnect"
  <2>1. w[1] \in OnWire
    BY <1>1, <1>2
  <2> QED
    BY <1>2, <2>1 DEF OnWire, Live
<1>4. /\ C \in {0, 1} <=> mode["client"] # "kex"
      /\ S \in {0, 1} <=> mode["server"] # "kex"
      /\ mode["client"] = "kex" => C = kex["client"].step + 1 /\ kex["client"].step \in Nat
      /\ mode["server"] = "kex" => S = kex["server"].step + 1 /\ kex["server"].step \in Nat
      /\ C \in {0, 1, 2, 3, 4} /\ S \in {0, 1, 2, 3}
  <2>1. kex["client"].step \in Nat /\ kex["server"].step \in Nat
    BY <1>1 DEF Typed, Exchanges, Sides
  <2> QED
    BY <2>1, PhaseFacts DEF C, S, Phase
<1>5. CASE x = "client"
  <2>1. /\ OrderToClient(w, Level("client"), C, S, mode["client"])
        /\ ToClient(w, C, S, cookies["server"], kex["server"].hash)
    BY <1>1, <1>5, Tables DEF InOrder
  <2>2. t = w[1].type
    BY <1>2
  <2> HIDE DEF w, t
  <2>3. /\ t \notin {"dhinit", "request"}
        /\ t \in {"app", "success"} => mode["client"] = "normal"
        /\ t # "newkeys" \/ C # 2
    BY <1>2, <2>1, <2>2 DEF OrderToClient
  <2>4. /\ t = "kexinit" => C \in {0, 1}
        /\ t = "reply" => C = 2
        /\ t = "newkeys" => C \in {2, 3}
    BY <1>2, <2>1 DEF ToClient
  <2>5. t = "kexinit" => mode["client"] # "kex"
    BY <1>4, <2>4
  <2>6. t = "reply" => mode["client"] = "kex" /\ kex["client"].step = 1
    BY <1>4, <2>4
  <2>7. t = "newkeys" => mode["client"] = "kex" /\ kex["client"].step = 2
    BY <1>4, <2>3, <2>4
  <2>8. Expected("client", t)
    <3>1. t \in {"kexinit", "app", "success", "reply", "newkeys"}
      BY <1>3, <2>3 DEF Types
    <3>2. 1 # 2
      OBVIOUS
    <3> QED
      BY <2>3, <2>5, <2>6, <2>7, <3>1, <3>2 DEF Expected
  <2> QED
    BY <1>5, <2>8 DEF t, w
<1>6. CASE x = "server"
  <2> DEFINE d == Guessed(guess, mode["server"], skip)
  <2>1. OrderToServer(w, Level("server"), cookies["server"], C, S, mode["server"], d)
        /\ ToServer(w, C, S, cookies["client"], d)
    BY <1>1, <1>6, Tables DEF InOrder
  <2>2. t = w[1].type /\ d \in {0, 2} /\ (d = 2 => mode["server"] = "first")
    BY <1>1, <1>2, <1>6 DEF Guessed
  <2> HIDE DEF w, t, d
  <2>3. /\ t \notin {"reply", "success"}
        /\ t \in {"app", "request"} => mode["server"] = "normal"
        /\ t # "kexinit" \/ S # 3
        /\ t = "dhinit" /\ d = 0 => S # 1
        /\ d = 2 => t = "kexinit"
    <3>1. 1 > 0
      OBVIOUS
    <3> QED
      BY <1>2, <2>1, <2>2, <3>1 DEF OrderToServer, ServerExpects
  <2>4. /\ t = "kexinit" => S \in {0, 1, 3}
        /\ t = "newkeys" => S = 3
        /\ t = "dhinit" /\ d = 0 => S \in {1, 2}
    BY <1>2, <2>1 DEF ToServer
  <2>5. t = "kexinit" => mode["server"] # "kex"
    BY <1>4, <2>3, <2>4
  <2>6. t = "dhinit" => mode["server"] = "kex" /\ kex["server"].step = 1
    <3>1. t = "dhinit" => S = 2
      BY <2>2, <2>3, <2>4
    <3> QED
      BY <1>4, <3>1
  <2>7. t = "newkeys" => mode["server"] = "kex" /\ kex["server"].step = 2
    BY <1>4, <2>4
  <2>8. Expected("server", t)
    <3>1. t \in {"kexinit", "app", "request", "dhinit", "newkeys"}
      BY <1>3, <2>3 DEF Types
    <3>2. 1 # 2
      OBVIOUS
    <3> QED
      BY <2>3, <2>5, <2>6, <2>7, <3>1, <3>2 DEF Expected
  <2> QED
    BY <1>6, <2>8 DEF t, w
<1> QED
  BY <1>1, <1>5, <1>6

\* Whoever begins an exchange when, and whatever is sent meanwhile, every packet but
\* DISCONNECT finds a reader with its keys, its sequence number and its inflate
\* stream that expects its type, for every number of exchanges, of packets and every
\* wrap of the sequence numbers (sendPacket()'s queue, finish(), completeHandshake(),
\* onKEXPayload()); delayed compression is left out when an exchange began before
\* the user was authenticated.
THEOREM PacketsAlwaysFit == Spec => []PacketsFit
<1>1. IInv /\ InSequence /\ Steady /\ TypeOK => PacketsFit
  BY HeadReadable, HeadExpected DEF PacketsFit, Fits, Live
<1>2. Init => InSequence /\ Steady
  BY SteadyInitially
<1>3. IInv /\ InSequence /\ Steady /\ [Next]_vars => (InSequence /\ Steady)'
  BY SteadyInductive
<1>4. Spec => [](InSequence /\ Steady)
  BY <1>2, <1>3, Invariance, PTL DEF Spec
<1> QED
  BY <1>1, <1>4, Invariance, TypeCorrect, PTL
=============================================================================
