------------------------------ MODULE MCHostView ------------------------------
(***************************************************************************)
(* HostView over the commands that touch a session: two paths, a path that *)
(* does not read, an address request, chunks of two and three bytes.       *)
(***************************************************************************)
EXTENDS MCApp, HostView

SessionCommands ==
    {c \in MCCommands : c.ins = "SIGN_TX" /\ Refusal(c) = "none"}
    \union {Apdu("GET_PUBLIC_KEY", p1, 0, <<1, 45>>) : p1 \in {0, 1}}
    \union {Apdu("SIGN_TX", 0, 128, <<1, 45>>), Apdu("SIGN_TX", 4, 0, <<9, 0>>),
            Apdu("GET_VERSION", 0, 0, <<>>), Apdu("GET_APP_NAME", 0, 0, <<>>),
            Apdu("GET_PUBLIC_KEY", 0, 0, <<3, 44>>)}
=============================================================================
