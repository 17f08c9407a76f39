-------------------------- MODULE MCTransactionReal --------------------------
(***************************************************************************)
(* TransactionStream with the sizes of the source (510-byte buffer, 8-byte *)
(* integers, 20-byte address): sessions whose buffer already holds a       *)
(* header, a memo length and all but a few bytes of the memo, at the       *)
(* boundaries of the varint and of the buffer, then grown byte by byte.    *)
(***************************************************************************)
EXTENDS ClientTransaction

Header == [i \in 1 .. MemoLenAt |-> i]
Text(n) == [i \in 1 .. n |-> 65]

\* Memo lengths around each boundary: empty, the varint prefixes, the named
\* limit, and the last lengths that fit the buffer with a varint of 3, 5 or 9.
MemoLengths == {0, 1, 127, 252, 253, 254, 256, 464, 465, 466, 468, 469, 470, 471, 472, 474}

Encodings(n) == {VarintOf(n, w) : w \in {3, 5, 9}} \union (IF n < 256 THEN {<<n>>} ELSE {})

\* Lengths of 2^32 and more whose low 32 bits are a length that fits.
Oversize == {<<255, n, 0, 0, 0, 1, 0, 0, 0>> : n \in {0, 1, 3}}

Filled ==
    UNION {{Header \o e \o Text(IF n > 2 THEN n - 2 ELSE 0) : e \in Encodings(n)} : n \in MemoLengths}

AtBoundaries ==
    {buf \in Filled : Len(buf) =< MAX_TRANSACTION_LEN}
    \union {Header \o e : e \in Oversize}
    \union {SubSeq(Header, 1, k) : k \in {7, 27, 35}}
=============================================================================
