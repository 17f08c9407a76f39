-------------------------- MODULE MCTransactionSmall --------------------------
(***************************************************************************)
(* TransactionStream with fields of one byte and a buffer of 7 bytes:      *)
(* every string over five bytes, from the empty buffer.                    *)
(***************************************************************************)
EXTENDS ClientTransaction

FromEmpty == {<<>>}
=============================================================================
