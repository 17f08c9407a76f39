-------------------------------- MODULE Crypto --------------------------------
(***************************************************************************)
(* Values the SDK computes.  A digest, a derived key, an address and a     *)
(* signature are what they are computed from, tagged; the empty sequence   *)
(* is a buffer of zeros.  Also the responses the device sends: a status    *)
(* word and what comes with it.                                            *)
(***************************************************************************)
EXTENDS Transaction

Zero == <<>>
Keccak256(raw) == <<raw>>
Derive(path) == <<path>>
Sign(path, hash) == [kind |-> "signature", key |-> Derive(path), of |-> hash]
PublicKey(pk) == [kind |-> "public_key", key |-> pk, of |-> Zero]
Body(kind) == [kind |-> kind, key |-> Zero, of |-> Zero]

Status(sw) == [sw |-> sw, body |-> Body("none")]
Ok(body) == [sw |-> "SW_OK", body |-> body]
Lost == Status("lost")          \* the transport failed: the host saw nothing

\* Address lines: the last bytes of a key's digest, or the bytes of `to`.
AddressOf(pk) == <<"key", pk>>
AddressTo(to) == <<"to", to>>
AmountOf(value) == <<value>>
=============================================================================
