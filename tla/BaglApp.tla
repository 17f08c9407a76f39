-------------------------------- MODULE BaglApp --------------------------------
(***************************************************************************)
(* App on a device with two buttons: the flows of ui/bagl_display.c and    *)
(* ui/menu_bagl.c step by step.  The right and left buttons move along the *)
(* flow, both together run the callback of the step on display, if it has  *)
(* one.  ux_flow_init starts a flow at its first step.                     *)
(*                                                                         *)
(* A long line takes several pages of a bnnn_paging step; they are one     *)
(* step here, read when it is reached.                                     *)
(***************************************************************************)
EXTENDS App

VARIABLES
    step,    \* the step on display, an index of the flow
    seen     \* history: what this review has had on display so far

bvars == <<vars, step, seen>>

-----------------------------------------------------------------------------
(***************************************************************************)
(* The flows, as the UX_FLOW macros list their steps.                      *)
(***************************************************************************)
ux_menu_main_flow == <<"ready", "version", "about", "quit">>

ux_menu_about_flow == <<"info", "back">>

\* (variant: the key can be approved before its address)
ux_display_pubkey_flow_approve_first == <<"confirm addr", "approve", "address", "reject">>
ux_display_pubkey_flow == <<"confirm addr", "address", "approve", "reject">>

ux_display_transaction_flow == <<"review", "address", "amount", "approve", "reject">>

Flow(name) ==
    CASE name = "menu"        -> ux_menu_main_flow
      [] name = "about"       -> ux_menu_about_flow
      [] name = "address"     -> ux_display_pubkey_flow
      [] name = "transaction" -> ux_display_transaction_flow

\* (variant: every flow wraps around)
LoopsAll == {"menu", "about", "address", "transaction"}
\* FLOW_LOOP: the ends of a menu are joined, those of a review are not.
Loops == {"menu", "about"}

\* The text a step has on display.
Text(name) ==
    CASE name = "address" -> {g_address}
      [] name = "amount"  -> {g_amount}
      [] OTHER            -> {}

On(name) == running /\ Flow(screen)[step] = name

-----------------------------------------------------------------------------
(***************************************************************************)
(* Buttons.                                                                *)
(***************************************************************************)
Shows(i) ==
    /\ step' = i
    /\ seen' = seen \union Text(Flow(screen)[i])
    /\ UNCHANGED vars

Right ==
    /\ running
    /\ \/ step < Len(Flow(screen)) /\ Shows(step + 1)
       \/ step = Len(Flow(screen)) /\ screen \in Loops /\ Shows(1)

Left ==
    /\ running
    /\ \/ step > 1 /\ Shows(step - 1)
       \/ step = 1 /\ screen \in Loops /\ Shows(Len(Flow(screen)))

\* (variant: the new flow is entered at the step of the old one)
FlowInitKeepsStep == UNCHANGED step /\ seen' = {}
\* ux_flow_init: another flow, or the same, from its first step, which in no
\* flow has a text.
FlowInit == step' = 1 /\ seen' = {}

\* (*g_validate_callback)(true) and (false), then the main menu.
PressApprove ==
    /\ On("approve")
    /\ ApproveAddress \/ ApproveTransaction \/ SigningFails
    /\ FlowInit

\* (variant: the reject step does nothing)
PressRejectNothing == On("reject") /\ UNCHANGED bvars
PressReject ==
    /\ On("reject")
    /\ RejectAddress \/ RejectTransaction
    /\ FlowInit

PressMenu ==
    \/ On("about") /\ About /\ FlowInit
    \/ On("back") /\ Back /\ FlowInit
    \/ On("quit") /\ Quit /\ UNCHANGED <<step, seen>>

-----------------------------------------------------------------------------
\* A handler that starts a review calls ux_flow_init; any other leaves the
\* menu where it was.
Handle(c) ==
    /\ Dispatch(c)
    /\ IF owed' THEN FlowInit ELSE UNCHANGED <<step, seen>>

Transport == (BadLength \/ ReceiveFails) /\ UNCHANGED <<step, seen>>

Start == Launch /\ FlowInit

BInit == Init /\ step = 1 /\ seen = {}

BNext ==
    \/ \E c \in Commands : Handle(c)
    \/ Right
    \/ Left
    \/ PressApprove
    \/ PressReject
    \/ PressMenu
    \/ Transport
    \/ Start

BSpec == BInit /\ [][BNext]_bvars

\* A user who comes back to the same step of a review again and again goes on
\* from it in the end, and in the end decides.
User ==
    /\ \A i \in DOMAIN ux_display_transaction_flow :
          SF_bvars(Right /\ screen \in Reviews /\ step = i)
    /\ SF_bvars(PressReject)

FairBSpec == BSpec /\ User

-----------------------------------------------------------------------------
\* The step is one of the flow on display.
BTypeOK == screen \in {"menu", "about"} \union Reviews /\ step \in 1 .. Len(Flow(screen))

\* Nobody signs unseen: the amount and the destination of the signed bytes, and
\* the address of a key sent on approval, have been on display since the
\* review of them began (bagl_display.c:88-93 and 144-149, the order of the
\* steps, with the buffers of bagl_display.c:112-117 and 157-171).
ConsentStep ==
    Answers /\ owed =>
        /\ answer'.body.kind = "signature" =>
              LET tx == Parsed(answer'.body.of[1])
              IN  {AmountOf(tx.value), AddressTo(tx.to)} \subseteq seen
        /\ answer'.body.kind = "public_key" => AddressOf(answer'.body.key) \in seen

ConsentIsInformed == [][ConsentStep]_bvars

\* The lines of the review on display that have not been seen.
Unread ==
    IF running /\ screen \in Reviews
    THEN {line \in (IF screen = "address" THEN {"address"} ELSE {"amount", "address"}) :
             ~(Text(line) \subseteq seen)}
    ELSE {}

\* The flows are a Confirmation.
Promise == INSTANCE Confirmation WITH
    asked  <- IF running /\ screen \in Reviews THEN screen ELSE "none",
    unread <- Unread

ConfirmationSpec == Promise!Spec

\* Every command under review is answered, or the program is left
\* (validate.c:28-76, reached from bagl_display.c:65-80).
EveryReviewEnds == (running /\ owed) ~> ~(running /\ owed)

=============================================================================
