---------------------------- MODULE AppRefinement ----------------------------
(***************************************************************************)
(* App implements SigningDevice.  The session is what G_context holds for  *)
(* a transaction request; the question is what the display strings SAY     *)
(* while a review is on the screen.  The request type, the parsing state,  *)
(* the digest computed before the review and the callback have no          *)
(* counterpart: that they never disagree with the session is what the      *)
(* refinement shows.                                                       *)
(***************************************************************************)
EXTENDS App

Session ==
    [open |-> running /\ InSession(G_context),
     path |-> IF running /\ InSession(G_context) THEN G_context.bip32_path ELSE Zero,
     data |-> IF running THEN G_context.raw_tx ELSE <<>>]

Question ==
    IF ~running \/ screen \notin Reviews
    THEN [kind |-> "none", path |-> Zero, amount |-> Zero, address |-> Zero]
    ELSE [kind    |-> screen,
          path    |-> G_context.bip32_path,
          amount  |-> IF screen = "transaction" THEN g_amount ELSE Zero,
          address |-> g_address]

Device == INSTANCE SigningDevice WITH
    on       <- running,
    session  <- Session,
    question <- Question,
    MaxData  <- MAX_TRANSACTION_LEN

\* Every step of the application is a step of the device it promises to be, or
\* changes nothing the device shows.
DeviceSpec == Device!Spec
=============================================================================
