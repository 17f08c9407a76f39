------------------------------- MODULE MCClient -------------------------------
(***************************************************************************)
(* Client with commands of two bytes and a raw_tx of five: transactions of *)
(* two full pieces, of three pieces that fill raw_tx with the last byte,   *)
(* of three full pieces that do not fit, and one that is cut short.  One   *)
(* path reads, one is too long and leaves its first elements in the        *)
(* session.                                                                *)
(***************************************************************************)
EXTENDS Client

MCPaths == {<<1, 44>>, <<3, 44, 44, 44>>}

Tx(to, memo) == Encoded([nonce |-> <<7>>, to |-> <<to>>, value |-> <<2>>, memo |-> memo])

MCTransactions == {Tx(1, <<>>), Tx(2, <<65>>), Tx(1, <<65, 65>>), <<7, 1>>}

\* The commands the calls are made of.
MCCommands ==
    {CommandOf(s[1], s[2]) : s \in {r \in Requests \X (1 .. 5) : r[2] =< Length(r[1])}}
=============================================================================
