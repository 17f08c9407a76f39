---------------------------- MODULE SigningDevice ----------------------------
(***************************************************************************)
(* What the application promises, with none of its machinery: no request   *)
(* type, no parsing state, no digest kept from one step to the next, no    *)
(* display buffers, no callback pointer.                                   *)
(*                                                                         *)
(* A signing session is a path and the bytes received for it.  A question  *)
(* is what the user is shown and has not answered.  A signature is made in *)
(* one step from the session, and only by the decision on a question that  *)
(* shows the amount and the destination of exactly the session's bytes.    *)
(***************************************************************************)
EXTENDS Crypto

CONSTANTS
    MaxData       \* bytes a session can hold

VARIABLES
    on,           \* the application runs
    session,      \* the signing session
    question,     \* what the user is asked
    answer        \* the last response

vars == <<on, session, question, answer>>

Closed == [open |-> FALSE, path |-> Zero, data |-> <<>>]
NoQuestion == [kind |-> "none", path |-> Zero, amount |-> Zero, address |-> Zero]

AskAddress(path) ==
    [kind    |-> "address",
     path    |-> path,
     amount  |-> Zero,
     address |-> AddressOf(Derive(path))]

AskTransaction(path, data) ==
    [kind    |-> "transaction",
     path    |-> path,
     amount  |-> AmountOf(Parsed(data).value),
     address |-> AddressTo(Parsed(data).to)]

Init ==
    /\ on = TRUE
    /\ session = Closed
    /\ question = NoQuestion
    /\ answer = Lost

-----------------------------------------------------------------------------
\* What one command may do to the session.
Keeps == UNCHANGED session

Closes == session' = Closed

Opens == session' = [open |-> TRUE, path |-> session'.path, data |-> <<>>]

Grows ==
    /\ session.open
    /\ session' = [open |-> TRUE, path |-> session.path, data |-> session'.data]
    /\ Len(session'.data) \in Len(session.data) .. MaxData
    /\ SubSeq(session'.data, 1, Len(session.data)) = session.data

\* A command answered at once, with anything but a signature.
Answered ==
    /\ on /\ question = NoQuestion
    /\ Keeps \/ Closes \/ Opens \/ Grows
    /\ answer'.body.kind # "signature"
    /\ UNCHANGED <<on, question>>

\* The answer could not be sent: the program ends, and the session with it.
AnswerLost ==
    /\ on /\ question = NoQuestion
    /\ on' = FALSE
    /\ Closes
    /\ answer' = Lost
    /\ UNCHANGED question

\* Commands that are answered by a decision of the user.
ShowAddress ==
    /\ on /\ question = NoQuestion
    /\ Closes
    /\ question' = AskAddress(question'.path)
    /\ UNCHANGED <<on, answer>>

ShowTransaction ==
    /\ on /\ question = NoQuestion
    /\ Grows
    /\ ParsedOK(session'.data)
    /\ question' = AskTransaction(session.path, session'.data)
    /\ UNCHANGED <<on, answer>>

\* The user answers the question; the response may be lost on its way.
Decided(a) ==
    /\ on
    /\ question' = NoQuestion
    /\ answer' \in {a, Lost}
    /\ UNCHANGED <<on, session>>

Confirm ==
    /\ question.kind = "address"
    /\ Decided(Ok(PublicKey(Derive(question.path))))

\* The signature is over the session's bytes, with the session's path, and
\* the question the user agreed to was about them.
SignSession ==
    /\ question.kind = "transaction"
    /\ question = AskTransaction(session.path, session.data)
    /\ Decided(Ok(Sign(session.path, Keccak256(session.data))))

Refuse ==
    /\ question # NoQuestion
    /\ \/ Decided(Status("SW_DENY"))
       \/ question.kind = "transaction" /\ Decided(Status("SW_SIGNATURE_FAIL"))

TurnOff ==
    /\ on /\ on' = FALSE
    /\ Closes
    /\ question' = NoQuestion
    /\ UNCHANGED answer

TurnOn ==
    /\ ~on /\ on' = TRUE
    /\ answer' = Lost
    /\ UNCHANGED <<session, question>>

Next ==
    \/ Answered
    \/ AnswerLost
    \/ ShowAddress
    \/ ShowTransaction
    \/ Confirm
    \/ SignSession
    \/ Refuse
    \/ TurnOff
    \/ TurnOn

Spec == Init /\ [][Next]_vars
=============================================================================
