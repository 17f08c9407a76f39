-------------------------- MODULE TransactionStream --------------------------
(***************************************************************************)
(* The buffer of one signing session, seen by the parser.  handler_sign_tx *)
(* appends every chunk to raw_tx and, on the last one, parses the WHOLE    *)
(* buffer; a buffer the parser refuses keeps its bytes, and a buffer that  *)
(* was reviewed keeps them too, so the next chunk extends it.  This module *)
(* grows a buffer byte by byte and records every length at which a last    *)
(* chunk would have been accepted.                                         *)
(***************************************************************************)
EXTENDS Transaction, FiniteSets

CONSTANTS
    Starts,               \* buffers a session may already hold
    Bytes,                \* bytes that are appended
    MAX_TRANSACTION_LEN,  \* size of raw_tx (constants.h:26)
    MaxGrown              \* bound of the model: bytes appended to a start

ASSUME StreamAssumption ==
    /\ \A buf \in Starts : buf \in Seq(Byte) /\ Len(buf) =< MAX_TRANSACTION_LEN
    /\ Bytes \subseteq Byte
    /\ MAX_TRANSACTION_LEN \in Nat
    /\ MaxGrown \in Nat

VARIABLES
    raw_tx,     \* G_context.tx_info.raw_tx, up to raw_tx_len
    accepted,   \* lengths at which transaction_deserialize returned PARSING_OK
    grown       \* bytes appended so far, for the bound

vars == <<raw_tx, accepted, grown>>

AcceptedAt(buf) == IF ParsedOK(buf) THEN {Len(buf)} ELSE {}

Init ==
    /\ raw_tx \in Starts
    /\ accepted = AcceptedAt(raw_tx)
    /\ grown = 0

\* (variant: the size of the chunk is forgotten)
HasRoomBefore(buf) == Len(buf) =< MAX_TRANSACTION_LEN
\* A byte more fits raw_tx.
HasRoom(buf) == Len(buf) + 1 =< MAX_TRANSACTION_LEN

\* sign_tx.c:54-80 for a chunk of one byte; longer chunks are several steps.
Append1(b) ==
    /\ HasRoom(raw_tx)
    /\ grown < MaxGrown
    /\ grown' = grown + 1
    /\ raw_tx' = Append(raw_tx, b)
    /\ accepted' = accepted \union AcceptedAt(raw_tx')

Next == \E b \in Bytes : Append1(b)

Spec == Init /\ [][Next]_vars

-----------------------------------------------------------------------------
\* The buffer holds bytes and fits raw_tx; the lengths recorded are lengths
\* the buffer has had (sign_tx.c:54-62).
TypeOK ==
    /\ raw_tx \in Seq(Byte)
    /\ accepted \subseteq 0 .. Len(raw_tx)
    /\ Len(raw_tx) =< MAX_TRANSACTION_LEN
    /\ grown \in 0 .. MaxGrown

\* The varint of width w bytes that denotes n, as doc/TRANSACTION.md:36-41
\* lays it out (n < 2^16 here, so the upper bytes are zero).
VarintPrefix == [w \in {3, 5, 9} |-> IF w = 3 THEN 253 ELSE IF w = 5 THEN 254 ELSE 255]
VarintOf(n, w) ==
    IF w = 1 THEN <<n>>
    ELSE <<VarintPrefix[w]>> \o [i \in 1 .. w - 1 |-> IF i = 1 THEN n % 256
                                                  ELSE IF i = 2 THEN n \div 256 ELSE 0]

\* A buffer of the documented form: header, a varint for the memo's length,
\* then exactly that many ASCII bytes.
Documented(buf) ==
    /\ Len(buf) =< MAX_TX_LEN
    /\ \E w \in {1, 3, 5, 9} :
          LET n == Len(buf) - MemoLenAt - w
          IN  /\ Len(buf) >= MemoLenAt + w
              /\ w = 1 => n < 253
              /\ Field(buf, MemoLenAt, w) = VarintOf(n, w)
              /\ \A i \in 1 .. n : buf[MemoLenAt + w + i] < 128

\* A buffer that stops where memo_len should begin (deserialize.c:46).
Headless(buf) == Len(buf) = MemoLenAt /\ Len(buf) =< MAX_TX_LEN

\* The parser accepts the documented transactions and nothing else, whatever
\* the width of a size_t, except the buffer that has no memo length at all.
AcceptsOnlyDocumented == ParsedOK(raw_tx) <=> (Documented(raw_tx) \/ Headless(raw_tx))

\* What the parser understood, serialized again (transaction_serialize), is
\* understood the same way, is not longer than what was received unless the
\* memo length was missing, and is byte for byte what was received when that
\* used the shortest form of the memo length.
RoundTrip ==
    ParsedOK(raw_tx) =>
        LET tx    == Parsed(raw_tx)
            again == Serialize(tx, MAX_TX_LEN)
        IN  /\ ParsedOK(again)
            /\ Parsed(again) = tx
            /\ ~Headless(raw_tx) => Len(again) =< Len(raw_tx)
            /\ (Len(raw_tx) = Len(again)) => (again = raw_tx)

\* Extending a buffer that was once accepted never makes another transaction:
\* no accepted buffer is a proper prefix of another, so a chunk sent after a
\* review cannot turn the reviewed bytes into a second transaction, except
\* when the first one had no memo length (sign_tx.c:62, deserialize.c:61).
OneAcceptedLength == Cardinality(accepted \ {MemoLenAt}) =< 1

-----------------------------------------------------------------------------
(***************************************************************************)
(* Statements of the repository that the code does not keep.               *)
(***************************************************************************)
\* doc/TRANSACTION.md:24 gives memo_len 1 to 9 bytes: it is always present.
MemoLenIsPresent == ParsedOK(raw_tx) => Len(raw_tx) > MemoLenAt

\* transaction/types.h:8, MAX_MEMO_LEN is the largest memo: 465 bytes.
MemoWithinLimit == ParsedOK(raw_tx) => Len(Parsed(raw_tx).memo) =< MAX_MEMO_LEN
=============================================================================
