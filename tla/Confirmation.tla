----------------------------- MODULE Confirmation -----------------------------
(***************************************************************************)
(* What the screens promise, whatever their pages: a review is put to the  *)
(* user, its lines are read in some order, and it ends in one decision     *)
(* that answers the command.  It is approved only once no line of it is    *)
(* unread; it can be rejected at any time.  BaglApp and NbglApp, the two   *)
(* families of devices, implement this.                                    *)
(***************************************************************************)
EXTENDS Crypto

VARIABLES
    asked,      \* the review put to the user, or "none"
    unread,     \* the lines of it the user has not had on display
    answer      \* the last response

vars == <<asked, unread, answer>>

\* The lines of each review.
LinesOf(kind) ==
    CASE kind = "address"     -> {"address"}
      [] kind = "transaction" -> {"amount", "address"}
      [] OTHER                -> {}

Init ==
    /\ asked = "none"
    /\ unread = {}
    /\ answer = Lost

\* A command is handled, or the program is left or started, with no review
\* on display: nothing that needs the user's consent to sign is sent.
Elsewhere ==
    /\ asked = "none"
    /\ answer'.body.kind # "signature"
    /\ UNCHANGED <<asked, unread>>

Ask(kind) ==
    /\ asked = "none"
    /\ asked' = kind
    /\ unread' = LinesOf(kind)
    /\ UNCHANGED answer

Read ==
    /\ asked # "none"
    /\ unread' \in (SUBSET unread) \ {unread}
    /\ UNCHANGED <<asked, answer>>

Ended == asked # "none" /\ asked' = "none" /\ unread' = {}

\* Consent is given to what has been read, and answered with what was asked
\* for, unless signing or sending fails.
Approve ==
    /\ Ended
    /\ unread = {}
    /\ \/ answer' \in {Lost, Status("SW_SIGNATURE_FAIL")}
       \/ asked = "address" /\ answer'.body.kind = "public_key"
       \/ asked = "transaction" /\ answer'.body.kind = "signature"

Reject ==
    /\ Ended
    /\ answer' \in {Lost, Status("SW_DENY")}

\* The program ends under a review.
Abandon == Ended /\ UNCHANGED answer

Next ==
    \/ Elsewhere
    \/ \E kind \in {"address", "transaction"} : Ask(kind)
    \/ Read
    \/ Approve
    \/ Reject
    \/ Abandon

Spec == Init /\ [][Next]_vars
=============================================================================
