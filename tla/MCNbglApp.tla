------------------------------ MODULE MCNbglApp ------------------------------
(***************************************************************************)
(* NbglApp with both kinds of review: two keys, four transactions, chunks  *)
(* that are refused, and commands that are answered under no review.       *)
(***************************************************************************)
EXTENDS MCApp, NbglApp

ReviewCommands ==
    {Apdu("GET_PUBLIC_KEY", p1, 0, <<1, 45>>) : p1 \in {0, 1}}
    \union {Apdu("GET_PUBLIC_KEY", 1, 0, <<1, 44>>), Apdu("SIGN_TX", 0, 128, <<1, 44>>),
            Apdu("GET_VERSION", 0, 0, <<>>), Apdu("GET_APP_NAME", 0, 0, <<>>)}
    \union {Apdu("SIGN_TX", 1, p2, data) : p2 \in {0, 128}, data \in Pieces}
=============================================================================
