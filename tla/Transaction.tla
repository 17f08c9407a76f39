----------------------------- MODULE Transaction -----------------------------
(***************************************************************************)
(* The raw transaction: what transaction/deserialize.c accepts,            *)
(* what transaction/serialize.c produces, and what transaction/utils.c     *)
(* checks of the memo.  Every operator is a pure function of a buffer of   *)
(* bytes; App.tla calls Deserialize on the buffer of the signing session.  *)
(*                                                                         *)
(*      nonce (U64_LEN) | to (ADDRESS_LEN) | value (U64_LEN)               *)
(*                      | memo_len (varint) | memo                         *)
(*                                                                         *)
(* The field widths are constants, so that TLC can take the real ones or   *)
(* widths small enough to enumerate every buffer.  No operator here is     *)
(* RECURSIVE: theorems are proved about modules that extend this one.      *)
(***************************************************************************)
EXTENDS Naturals, Sequences

CONSTANTS
    U64_LEN,        \* bytes of the nonce and of the value (8)
    ADDRESS_LEN,    \* bytes of a destination address (20)
    MAX_TX_LEN,     \* longest buffer the parser looks at (510)
    MAX_MEMO_LEN,   \* longest memo, as transaction/types.h names it (465)
    SIZE_T_LEN      \* bytes of a size_t: 4 on the device, 8 on the test host

ASSUME TransactionAssumption ==
    /\ U64_LEN \in Nat \ {0}
    /\ ADDRESS_LEN \in Nat \ {0}
    /\ MAX_TX_LEN \in Nat
    /\ MAX_MEMO_LEN \in Nat
    /\ SIZE_T_LEN \in {4, 8}

Byte == 0 .. 255

(***************************************************************************)
(* Offsets of the fields (bytes consumed before each of them).             *)
(***************************************************************************)
ToAt == U64_LEN
\* (variant: the address is read but not skipped)
ValueAtTo == ToAt
ValueAt == U64_LEN + ADDRESS_LEN
MemoLenAt == U64_LEN + ADDRESS_LEN + U64_LEN

Field(buf, at, len) == SubSeq(buf, at + 1, at + len)

-----------------------------------------------------------------------------
(***************************************************************************)
(* Variable length integers (the SDK's varint, little endian).  Integers   *)
(* saturate at HUGE, a value beyond every buffer, so that eight bytes fit  *)
(* the integers of TLC.                                                    *)
(***************************************************************************)
HUGE == 65536

\* A buffer with a memo length fits (types.h:7), and no length of a buffer that
\* is looked at is saturated.
ASSUME BufferAssumption == MemoLenAt < MAX_TX_LEN /\ MAX_TX_LEN < HUGE

\* Bytes that follow the prefix byte: 0, 2, 4 or 8.
Extra(prefix) ==
    CASE prefix < 253 -> 0
      [] prefix = 253 -> 2
      [] prefix = 254 -> 4
      [] prefix = 255 -> 8

\* The value of a little-endian string of bytes, saturated.
LittleEndian(bytes) ==
    IF \E i \in 3 .. Len(bytes) : bytes[i] # 0
    THEN HUGE
    ELSE bytes[1] + (IF Len(bytes) > 1 THEN 256 * bytes[2] ELSE 0)

\* buffer_read_varint succeeds at offset `at`: prefix and payload are there.
VarintFits(buf, at) ==
    /\ at < Len(buf)
    /\ at + 1 + Extra(buf[at + 1]) =< Len(buf)

\* The bytes that hold the value: the payload, or the prefix itself.
VarintPayload(buf, at) ==
    IF buf[at + 1] < 253
    THEN <<buf[at + 1]>>
    ELSE Field(buf, at + 1, Extra(buf[at + 1]))

\* A uint64_t passed as a size_t keeps its low SIZE_T_LEN bytes.
AsSizeT(payload) ==
    IF Len(payload) =< SIZE_T_LEN THEN payload ELSE SubSeq(payload, 1, SIZE_T_LEN)

\* (variant: the one-byte form used up to 253)
MinimalVarintTo253(n) ==
    IF n =< 253 THEN <<n>> ELSE <<253, n % 256, n \div 256>>

\* varint_size and varint_write of a memo length, which is below 2^16 here.
MinimalVarint(n) ==
    IF n < 253 THEN <<n>> ELSE <<253, n % 256, n \div 256>>

-----------------------------------------------------------------------------
(***************************************************************************)
(* transaction_deserialize.  buffer_read_varint leaves 0 in memo_len when  *)
(* it fails, and deserialize.c:46 rejects a length only when the read      *)
(* failed AND the length is above MAX_MEMO_LEN, two things that exclude    *)
(* each other: a buffer that ends before memo_len has an empty memo.       *)
(***************************************************************************)
MemoLen(buf) ==
    IF VarintFits(buf, MemoLenAt)
    THEN LittleEndian(VarintPayload(buf, MemoLenAt))
    ELSE 0

\* How far buffer_seek_cur moves over the memo.
MemoSeek(buf) ==
    IF VarintFits(buf, MemoLenAt)
    THEN LittleEndian(AsSizeT(VarintPayload(buf, MemoLenAt)))
    ELSE 0

MemoAt(buf) ==
    IF VarintFits(buf, MemoLenAt)
    THEN MemoLenAt + 1 + Extra(buf[MemoLenAt + 1])
    ELSE MemoLenAt

MemoLengthRejected(buf) ==
    ~VarintFits(buf, MemoLenAt) /\ MemoLen(buf) > MAX_MEMO_LEN

\* transaction_utils_check_encoding.  It reads MemoLen bytes, which on the
\* device may be more than the bytes that were skipped (the length is cut to
\* a size_t on the way to buffer_seek_cur); a read of 2^32 bytes or more never
\* ends with every byte found ASCII, so such a length is an encoding error.
\* (variants: 0x80 let through; only the bytes that were skipped looked at)
CheckEncodingTo80(buf) ==
    /\ MemoAt(buf) + MemoLen(buf) =< Len(buf)
    /\ \A i \in 1 .. MemoLen(buf) : buf[MemoAt(buf) + i] =< 128
CheckEncodingOfSeek(buf) ==
    \A i \in 1 .. MemoSeek(buf) : buf[MemoAt(buf) + i] < 128
CheckEncoding(buf) ==
    /\ MemoAt(buf) + MemoLen(buf) =< Len(buf)
    /\ \A i \in 1 .. MemoLen(buf) : buf[MemoAt(buf) + i] < 128

\* (variant: trailing bytes are let through)
ConsumesSome(buf) == MemoAt(buf) + MemoSeek(buf) =< Len(buf)
\* The parser ends where the buffer ends.
ConsumesAll(buf) == MemoAt(buf) + MemoSeek(buf) = Len(buf)

\* parser_status_e, in the order the code returns them.
Deserialize(buf) ==
    IF Len(buf) > MAX_TX_LEN THEN "WRONG_LENGTH_ERROR"
    ELSE IF ToAt > Len(buf) THEN "NONCE_PARSING_ERROR"
    ELSE IF ValueAt > Len(buf) THEN "TO_PARSING_ERROR"
    ELSE IF MemoLenAt > Len(buf) THEN "VALUE_PARSING_ERROR"
    ELSE IF MemoLengthRejected(buf) THEN "MEMO_LENGTH_ERROR"
    ELSE IF MemoAt(buf) + MemoSeek(buf) > Len(buf) THEN "MEMO_PARSING_ERROR"
    ELSE IF ~CheckEncoding(buf) THEN "MEMO_ENCODING_ERROR"
    ELSE IF ~ConsumesAll(buf) THEN "WRONG_LENGTH_ERROR"
    ELSE "PARSING_OK"

ParsedOK(buf) == Deserialize(buf) = "PARSING_OK"

\* transaction_t, as a parsed buffer fills it.
Parsed(buf) ==
    [nonce |-> Field(buf, 0, U64_LEN),
     to    |-> Field(buf, ToAt, ADDRESS_LEN),
     value |-> Field(buf, ValueAt, U64_LEN),
     memo  |-> Field(buf, MemoAt(buf), MemoSeek(buf))]

-----------------------------------------------------------------------------
(***************************************************************************)
(* transaction_serialize into a buffer of out_len bytes; <<>> is its -1.   *)
(***************************************************************************)
Encoded(tx) == tx.nonce \o tx.to \o tx.value \o MinimalVarint(Len(tx.memo)) \o tx.memo

Serialize(tx, out_len) ==
    IF Len(Encoded(tx)) > out_len THEN <<>> ELSE Encoded(tx)

-----------------------------------------------------------------------------
(***************************************************************************)
(* transaction_utils_format_memo: the bytes written to a string of dst_len *)
(* bytes, none when it returns false.                                      *)
(***************************************************************************)
\* (variant: no room asked for the terminator)
FormatMemoTight(memo, dst_len) ==
    IF Len(memo) > MAX_MEMO_LEN \/ dst_len < Len(memo) THEN <<>> ELSE Append(memo, 0)
FormatMemo(memo, dst_len) ==
    IF Len(memo) > MAX_MEMO_LEN \/ dst_len < Len(memo) + 1 THEN <<>> ELSE Append(memo, 0)
=============================================================================
