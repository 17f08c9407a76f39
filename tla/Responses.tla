------------------------------- MODULE Responses -------------------------------
(***************************************************************************)
(* The two answers with a layout of their own, byte by byte: as            *)
(* helper/send_reponse.c packs them from G_context, and as the client      *)
(* takes them apart (tests/application_client/                             *)
(* boilerplate_response_unpacker.py).  App sends the same answers as       *)
(* values.                                                                 *)
(*                                                                         *)
(* The signature's array keeps, after a signature shorter than the last,   *)
(* the end of the last one; a derivation or a signature that fails may     *)
(* leave anything.  The key and the signature are the SDK's.               *)
(***************************************************************************)
EXTENDS Naturals, Sequences

CONSTANTS
    PUBKEY_LEN,         \* bytes of raw_public_key (65)
    CHAINCODE_LEN,      \* bytes of chain_code (32)
    MAX_DER_SIG_LEN,    \* size of signature (72)
    Bytes               \* bytes a key or a signature is made of

ASSUME ResponsesAssumption ==
    /\ PUBKEY_LEN \in 1 .. 255
    /\ CHAINCODE_LEN \in 1 .. 255
    /\ MAX_DER_SIG_LEN \in 1 .. 255
    /\ Bytes \subseteq 0 .. 255 /\ 0 \in Bytes

VARIABLES
    pk_info,    \* raw_public_key and chain_code
    tx_info,    \* signature, signature_len and v
    resp,       \* the last response, without its status word
    made        \* history: what the SDK made for it

vars == <<pk_info, tx_info, resp, made>>

Array(n) == [1 .. n -> Bytes]
Zeros(n) == [i \in 1 .. n |-> 0]

-----------------------------------------------------------------------------
(***************************************************************************)
(* The device.                                                             *)
(***************************************************************************)
helper_send_response_pubkey(pk) ==
    <<PUBKEY_LEN>> \o pk.raw_public_key \o <<CHAINCODE_LEN>> \o pk.chain_code

\* (variant: the whole array is sent)
helper_send_response_sig_whole(tx) ==
    <<MAX_DER_SIG_LEN>> \o tx.signature \o <<tx.v>>
helper_send_response_sig(tx) ==
    <<tx.signature_len>> \o SubSeq(tx.signature, 1, tx.signature_len) \o <<tx.v>>

\* crypto_sign_message succeeds: der is written over what was there.
Signed(der, v) ==
    [signature |-> der \o SubSeq(tx_info.signature, Len(der) + 1, MAX_DER_SIG_LEN),
     signature_len |-> Len(der),
     v |-> v]

SendKey(pk) ==
    /\ pk_info' = pk
    /\ resp' = helper_send_response_pubkey(pk)
    /\ made' = <<"key", pk>>
    /\ UNCHANGED tx_info

SendSignature(der, v) ==
    /\ tx_info' = Signed(der, v)
    /\ resp' = helper_send_response_sig(tx_info')
    /\ made' = <<"signature", der, v>>
    /\ UNCHANGED pk_info

\* crypto_sign_message fails: the array may be written to, its length is not.
SignFails ==
    /\ \E bytes \in Array(MAX_DER_SIG_LEN) : tx_info' = [tx_info EXCEPT !.signature = bytes]
    /\ UNCHANGED <<pk_info, resp, made>>

\* explicit_bzero(&G_context), at the start of a session.
FreshKey == [raw_public_key |-> Zeros(PUBKEY_LEN), chain_code |-> Zeros(CHAINCODE_LEN)]
FreshTx == [signature |-> Zeros(MAX_DER_SIG_LEN), signature_len |-> 0, v |-> 0]

Reset == pk_info' = FreshKey /\ tx_info' = FreshTx /\ UNCHANGED <<resp, made>>

Init == pk_info = FreshKey /\ tx_info = FreshTx /\ resp = <<>> /\ made = <<"nothing">>

Keys == [raw_public_key : Array(PUBKEY_LEN), chain_code : Array(CHAINCODE_LEN)]
Ders == UNION {Array(n) : n \in 1 .. MAX_DER_SIG_LEN}

Next ==
    \/ \E pk \in Keys : SendKey(pk)
    \/ \E der \in Ders, v \in {0, 1} : SendSignature(der, v)
    \/ SignFails
    \/ Reset

Spec == Init /\ [][Next]_vars

-----------------------------------------------------------------------------
(***************************************************************************)
(* The client.  <<>> stands for an assertion that fails.                   *)
(***************************************************************************)
pop_sized_buf_from_buffer(buffer, size) ==
    [remainder |-> SubSeq(buffer, size + 1, Len(buffer)), data |-> SubSeq(buffer, 1, size)]

pop_size_prefixed_buf_from_buf(buffer) ==
    LET len == buffer[1]
    IN  [remainder |-> SubSeq(buffer, len + 2, Len(buffer)), data |-> SubSeq(buffer, 2, len + 1)]

unpack_get_public_key_response(response) ==
    LET pub_key    == pop_size_prefixed_buf_from_buf(response)
        chain_code == pop_size_prefixed_buf_from_buf(pub_key.remainder)
    IN  IF /\ Len(pub_key.data) = PUBKEY_LEN
           /\ Len(chain_code.data) = CHAINCODE_LEN
           /\ chain_code.remainder = <<>>
        THEN <<"key", [raw_public_key |-> pub_key.data, chain_code |-> chain_code.data]>>
        ELSE <<>>

unpack_sign_tx_response(response) ==
    LET der_sig == pop_size_prefixed_buf_from_buf(response)
        v       == pop_sized_buf_from_buffer(der_sig.remainder, 1)
    IN  IF v.remainder = <<>> THEN <<"signature", der_sig.data, v.data[1]>> ELSE <<>>

-----------------------------------------------------------------------------
\* The client finds in a response exactly the key or the signature the SDK has
\* made for it, whatever keys and signatures, longer or shorter, failed or not,
\* came before (send_reponse.c:29-53 against the unpackers at
\* boilerplate_response_unpacker.py:50-70).
ClientUnpacks ==
    CASE made[1] = "key"       -> unpack_get_public_key_response(resp) = made
      [] made[1] = "signature" -> unpack_sign_tx_response(resp) = made
      [] OTHER                 -> resp = <<>>
=============================================================================
