-------------------------------- MODULE MCApp --------------------------------
(***************************************************************************)
(* App with one-byte fields and a raw_tx of 5 bytes.  The commands reach   *)
(* every exit of every handler: paths that read and paths that do not,     *)
(* chunks that complete a transaction, fall short of it or overflow it,    *)
(* a transaction with no memo length, and parameters that are refused.     *)
(***************************************************************************)
EXTENDS AppRefinement

Apdu(ins, p1, p2, data) ==
    [cla |-> CLA, ins |-> ins, p1 |-> p1, p2 |-> p2, data |-> data]

\* Pieces of transactions (nonce, to, value, memo_len, memo).  <<9, 1, 65>> is
\* a transaction without a memo length, which <<1, 66>> extends to another.
Pieces == {<<7, 1>>, <<1, 66>>, <<9, 1, 65>>}

MCCommands ==
    {Apdu("GET_VERSION", p1, 0, <<>>) : p1 \in {0, 1}}
    \union {Apdu("GET_APP_NAME", 0, p2, <<>>) : p2 \in {0, 1}}
    \union {Apdu("GET_PUBLIC_KEY", p1, 0, <<1, 45>>) : p1 \in {0, 1, 2}}
    \union {Apdu("GET_PUBLIC_KEY", 0, 0, data) : data \in {<<>>, <<3, 44>>}}
    \union {Apdu("SIGN_TX", 0, 128, data) : data \in {<<>>, <<1, 44>>, <<2, 44>>}}
    \union {Apdu("SIGN_TX", 1, p2, data) : p2 \in {0, 128}, data \in Pieces}
    \union {Apdu("SIGN_TX", 0, 0, <<1, 44>>), Apdu("SIGN_TX", 4, 0, <<9, 0>>),
            Apdu("SIGN_TX", 1, 1, <<9, 0>>)}
    \union {Apdu("NO_SUCH_INS", 0, 0, <<>>), [Apdu("GET_VERSION", 0, 0, <<>>) EXCEPT !.cla = 0]}
=============================================================================
