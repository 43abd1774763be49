--------------------------- MODULE MCKeyExchange ----------------------------
(***************************************************************************)
(* KeyExchange with three configurations of the algorithm lists.  Two of   *)
(* them order the common algorithms differently and meet on no compression *)
(* or, with their like, on delayed compression; the third one insists on   *)
(* immediate compression, which the second one does not offer.             *)
(***************************************************************************)
EXTENDS KeyExchange

OfferOf(kexes, ciphers, compressors) ==
    [s \in Slots |-> CASE s = "kex"                          -> kexes
                       [] s = "serverHostKey"                -> <<"ed25519">>
                       [] s \in {"csCipher", "scCipher"}     -> ciphers
                       [] s \in {"csMac", "scMac"}           -> <<"hmac">>
                       [] s \in {"csCompress", "scCompress"} -> compressors]

MCAead == {"gcm"}

MCOffers == {OfferOf(<<"ecdh", "dh">>, <<"ctr", "gcm">>, <<"none", "zlib">>),
             OfferOf(<<"dh", "ecdh">>, <<"gcm", "ctr">>, <<"zlib@openssh.com", "none">>),
             OfferOf(<<"dh">>, <<"ctr">>, <<"zlib">>)}
=============================================================================
