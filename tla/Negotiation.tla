---------------------------- MODULE Negotiation -----------------------------
(***************************************************************************)
(* How two KEXINITs become one set of algorithms (handleKexInit() of       *)
(* lib/protocol/kex.js).  Each side matches its own lists with the lists   *)
(* that came from the peer; the client's order decides on both.  The lists *)
(* for languages are not matched.                                          *)
(***************************************************************************)
EXTENDS Integers, Sequences, Functions

CONSTANT Aead              \* ciphers with authLen > 0: no MAC is negotiated

\* The lists of a KEXINIT that are matched: kex, serverHostKey, and cipher, mac
\* and compress of either direction (cs: client to server, sc: server to client).
Slots == {"kex", "serverHostKey", "csCipher", "scCipher", "csMac", "scMac",
          "csCompress", "scCompress"}

None == ""                 \* no algorithm: nothing matched, or an implicit MAC

\* The first name of the client's list that the server's list has.
ServerFirst(client, server) ==
    LET hits == {i \in DOMAIN server : server[i] \in Range(client)}
    IN  IF hits = {} THEN None ELSE server[CHOOSE i \in hits : \A j \in hits : i <= j]

Match(client, server) ==
    LET hits == {i \in DOMAIN client : client[i] \in Range(server)}
    IN  IF hits = {} THEN None ELSE client[CHOOSE i \in hits : \A j \in hits : i <= j]

\* One slot at a side: which list is the client's depends on who we are.
OwnOrder(isServer, local, remote) == Match(local, remote)

Agreed(isServer, local, remote) ==
    IF isServer THEN Match(remote, local) ELSE Match(local, remote)

ImplicitMac(chosen, slot) ==
    \/ slot = "csMac" /\ chosen["csCipher"] \in Aead
    \/ slot = "scMac" /\ chosen["scCipher"] \in Aead

\* handleKexInit(): what a side with the offer local makes of the offer remote.
Negotiated(isServer, local, remote) ==
    LET chosen == [s \in Slots |-> Agreed(isServer, local[s], remote[s])]
    IN  [s \in Slots |-> IF ImplicitMac(chosen, s) THEN None ELSE chosen[s]]

\* Every slot has its algorithm; otherwise doFatalError() ends the connection.
Complete(n) == \A s \in Slots : n[s] # None \/ ImplicitMac(n, s)
=============================================================================
