------------------------------- MODULE HostView -------------------------------
(***************************************************************************)
(* App, and what the host can tell from its own side of the cable: the     *)
(* path of the last signing session it opened and the bytes it has sent    *)
(* since, not counting the chunks it was told were refused.  The host      *)
(* never reads the device's memory; it goes by the command it sent and the *)
(* status word it got, if it got one.                                      *)
(*                                                                         *)
(* The two halves can drift apart in principle: a chunk that fails to      *)
(* parse stays in the buffer although it was answered with an error, an    *)
(* answer may be lost after the chunk was stored, and the program may be   *)
(* started again between two chunks.                                       *)
(***************************************************************************)
EXTENDS App

CONSTANT MaxSent    \* bound of the model: bytes the host sends in a session

VARIABLE host       \* [open, path, sent]: what the host knows of its session

hvars == <<vars, host>>

NoHostSession == [open |-> FALSE, path |-> NoPath, sent |-> <<>>]


\* What the host makes of the answer to command c.  While a decision of the
\* user is pending, or when no answer came, it takes the chunk for stored.
AfterCommand(c) ==
    IF Refusal(c) # "none" \/ c.ins \in {"GET_VERSION", "GET_APP_NAME"}
    THEN host
    ELSE IF c.ins = "GET_PUBLIC_KEY" THEN NoHostSession
    ELSE IF c.p1 = P1_START
    THEN [open |-> TRUE, path |-> ReadPath(c.data), sent |-> <<>>]
    ELSE IF ~owed' /\ answer'.sw = "SW_BAD_STATE" THEN NoHostSession
    ELSE IF ~owed' /\ answer'.sw = "SW_WRONG_TX_LENGTH" THEN host
    ELSE [host EXCEPT !.sent = @ \o c.data]

HInit == Init /\ host = NoHostSession

Exchange(c) ==
    /\ Dispatch(c)
    /\ host' = AfterCommand(c)
    /\ Len(host'.sent) =< MaxSent

DeviceAlone == Decide \/ Menu \/ BadLength \/ ReceiveFails \/ Launch

HNext ==
    \/ \E c \in Commands : Exchange(c)
    \/ DeviceAlone /\ UNCHANGED host

HSpec == HInit /\ [][HNext]_hvars

-----------------------------------------------------------------------------
\* The host's account is made of its own commands.
HostTypeOK == host \in [open : BOOLEAN, path : Path, sent : Seq(Byte)]

\* While a signing session is open on the device, its path and its buffer are
\* exactly what the host has sent since it opened that session: no chunk is
\* stored twice, dropped, or left over from another session, whatever answers
\* were errors or were lost (sign_tx.c:35-80, app_main.c:73-76).
BufferIsWhatHostSent ==
    (running /\ InSession(G_context)) =>
        /\ host.open
        /\ G_context.bip32_path = host.path
        /\ G_context.raw_tx = host.sent

\* A signature the device sends is over the bytes the host has sent since it
\* opened its session, with the path it opened it with (sign_tx.c:72-101,
\* validate.c:40-48): no state confusion after wrong sequences of commands
\* (tests/test_error_cmd.py:49-57).
SignatureIsWhatHostSent ==
    [][(Answers /\ answer'.body.kind = "signature") =>
          answer'.body = Sign(host.path, Keccak256(host.sent))]_hvars

\* A chunk is refused for lack of a session only when the host has no claim to
\* one: it opened none since the last address request, or the program was
\* started again since, in which case the context is as Launch left it.
BadStateIsDeserved ==
    [][(answer' # answer /\ answer'.sw = "SW_BAD_STATE") =>
          (~host.open \/ G_context = FreshContext("CONFIRM_ADDRESS"))]_hvars
=============================================================================
