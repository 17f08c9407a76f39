-------------------------- MODULE ClientTransaction --------------------------
(***************************************************************************)
(* The transaction on the host's side: the Transaction class of the Python *)
(* client (tests/application_client/boilerplate_transaction.py) and the    *)
(* variable-length integers it writes (boilerplate_utils.py), against the  *)
(* device's parser and serializer.  Both sides were written from           *)
(* doc/TRANSACTION.md and neither calls the other; the signature is over   *)
(* the bytes the client makes, and what is shown is what the device reads  *)
(* in them.                                                                *)
(*                                                                         *)
(* The buffers are those of TransactionStream.  The fuzzing harness, which *)
(* prints what the parser accepts, is here too.                            *)
(***************************************************************************)
EXTENDS TransactionStream

-----------------------------------------------------------------------------
(***************************************************************************)
(* serialize and write_varint.  The constructor refuses integers of more   *)
(* than 64 bits, an address of the wrong length and, as it encodes it, a   *)
(* memo that is not ASCII.                                                 *)
(***************************************************************************)
\* (variant: the memo is decoded as Latin-1)
ClientAcceptsLatin1(tx) ==
    Len(tx.nonce) = U64_LEN /\ Len(tx.value) = U64_LEN /\ Len(tx.to) = ADDRESS_LEN
ClientAccepts(tx) ==
    /\ Len(tx.nonce) = U64_LEN
    /\ Len(tx.value) = U64_LEN
    /\ Len(tx.to) = ADDRESS_LEN
    /\ \A i \in 1 .. Len(tx.memo) : tx.memo[i] < 128

\* (variant: big-endian lengths)
write_varint_big(n) == IF n < 252 THEN <<n>> ELSE <<253, n \div 256, n % 256>>
\* The lengths of memos are below 2^16.
write_varint(n) == IF n < 252 THEN <<n>> ELSE <<253, n % 256, n \div 256>>

serialize(tx) ==
    tx.nonce \o tx.to \o tx.value \o write_varint(Len(tx.memo)) \o tx.memo

-----------------------------------------------------------------------------
(***************************************************************************)
(* from_bytes, field after field.  A read that comes short raises, so each *)
(* starts where the ones before it end when they are full.                 *)
(***************************************************************************)
\* BytesIO.read: what is left from a position on, at most size bytes of it.
read(buf, pos, size) ==
    SubSeq(buf, pos + 1, IF pos + size < Len(buf) THEN pos + size ELSE Len(buf))

\* {b"\xfd": 2, b"\xfe": 4, b"\xff": 8}.get(b, 1)
NumberLen(b) ==
    CASE b = 253 -> 2
      [] b = 254 -> 4
      [] b = 255 -> 8
      [] b \notin {253, 254, 255} -> 1

\* (variant: big-endian)
NumberOfBig(b) ==
    IF Len(b) = 1 THEN b[1]
    ELSE IF \E i \in 1 .. Len(b) - 2 : b[i] # 0 THEN HUGE
    ELSE 256 * b[Len(b) - 1] + b[Len(b)]
\* int.from_bytes, little endian.  No buffer holds as much as a number of more
\* than 16 bits.
NumberOf(b) ==
    IF Len(b) = 1 THEN b[1]
    ELSE IF \E i \in 3 .. Len(b) : b[i] # 0 THEN HUGE
    ELSE b[1] + 256 * b[2]

\* The number at a position and where it ends; none when an exception is raised.
read_varint(buf, pos) ==
    LET first == read(buf, pos, 1)
        n     == NumberLen(first[1])
        b     == IF n > 1 THEN read(buf, pos + 1, n) ELSE first
    IN  IF first = <<>> \/ Len(b) # n
        THEN {}
        ELSE {[number |-> NumberOf(b), end |-> IF n > 1 THEN pos + 1 + n ELSE pos + 1]}

\* The transaction and where the stream is left; none when an exception is raised.
from_bytes(buf) ==
    LET Made(m) ==
            [tx  |-> [nonce |-> read(buf, 0, U64_LEN),
                      to    |-> read(buf, U64_LEN, ADDRESS_LEN),
                      value |-> read(buf, U64_LEN + ADDRESS_LEN, U64_LEN),
                      memo  |-> read(buf, m.end, m.number)],
             end |-> m.end + m.number]
    IN  {r \in {Made(m) : m \in read_varint(buf, U64_LEN + ADDRESS_LEN + U64_LEN)} :
             r.end =< Len(buf) /\ ClientAccepts(r.tx)}

-----------------------------------------------------------------------------
(***************************************************************************)
(* fuzzing/fuzz_tx_parser.cc: an accepted buffer's memo is formatted into  *)
(* a string of MAX_MEMO_LEN + 1 bytes that was all zeros.                  *)
(***************************************************************************)
TX_MEMO_SIZE == MAX_MEMO_LEN + 1

\* The bytes of tx_memo the harness writes over, if any.
LLVMFuzzerTestOneInput(buf) ==
    IF ParsedOK(buf) THEN FormatMemo(Parsed(buf).memo, TX_MEMO_SIZE) ELSE <<>>

-----------------------------------------------------------------------------
\* Client and device read the same transactions, each with a reader of its own: of
\* a buffer whose memo ends where it ends, and that raw_tx can hold, either both
\* read the same fields or both refuse it.  Headless buffers apart, what the user approves on the
\* device is what a client would show for the same bytes
\* (deserialize.c:23-62, boilerplate_transaction.py:42-52).
ClientReadsTheSame ==
    /\ ParsedOK(raw_tx) /\ ~Headless(raw_tx) =>
          from_bytes(raw_tx) = {[tx |-> Parsed(raw_tx), end |-> Len(raw_tx)]}
    /\ \A r \in from_bytes(raw_tx) :
          LET seen == SubSeq(raw_tx, 1, r.end)
          IN  Len(seen) =< MAX_TX_LEN => ParsedOK(seen) /\ Parsed(seen) = r.tx

\* What the client makes of a transaction is read by the device as that
\* transaction, if it fits; in the two bytes more that a memo of 252 bytes
\* costs, and in nothing else, it differs from what the device would make
\* (boilerplate_transaction.py:33-40, boilerplate_utils.py:10-23,
\* serialize.c:28-59).
DeviceReadsClient ==
    \A r \in from_bytes(raw_tx) :
        LET made == serialize(r.tx)
        IN  /\ Len(made) =< MAX_TX_LEN => ParsedOK(made) /\ Parsed(made) = r.tx
            /\ Len(r.tx.memo) # 252 => made = Encoded(r.tx)
            /\ Len(r.tx.memo) = 252 => Len(made) = Len(Encoded(r.tx)) + 2

\* A memo is formatted within the string it is given, whole and terminated, and
\* a memo within the documented limit always is when there is room for it
\* (utils.c:34-46, called by fuzz_tx_parser.cc:33 with 466 bytes).
MemoIsFormattedWhole ==
    ParsedOK(raw_tx) =>
        LET memo == Parsed(raw_tx).memo
        IN  /\ \A room \in {0, Len(memo), Len(memo) + 1, MAX_MEMO_LEN, TX_MEMO_SIZE} :
                  LET text == FormatMemo(memo, room)
                  IN  /\ Len(text) =< room
                      /\ text # <<>> <=> (Len(memo) < room /\ Len(memo) =< MAX_MEMO_LEN)
            /\ LLVMFuzzerTestOneInput(raw_tx) # <<>> =>
                  SubSeq(raw_tx, Len(raw_tx) - Len(memo) + 1, Len(raw_tx)) \o <<0>>
                      = LLVMFuzzerTestOneInput(raw_tx)

=============================================================================
