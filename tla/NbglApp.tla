-------------------------------- MODULE NbglApp --------------------------------
(***************************************************************************)
(* App on a device with a touch screen: the pages of                       *)
(* ui/nbgl_display_transaction.c, ui/nbgl_display_address.c and            *)
(* ui/menu_nbgl.c, which build them from the use cases of the SDK.         *)
(*                                                                         *)
(* Each of the two files has a g_address of its own; the g_address of App  *)
(* is that of the file whose review was prepared last, and                 *)
(* g_validate_callback the file whose callbacks the use case holds.  The   *)
(* status page that ends a review belongs to the menu: no answer is owed   *)
(* any more.                                                               *)
(***************************************************************************)
EXTENDS App

VARIABLES
    page,      \* the page on display
    modal,     \* what covers it: a question, the QR code of the address, or none
    message,   \* what the last status page said
    seen       \* history: what this review has had on display so far

nvars == <<vars, page, modal, message, seen>>

\* The use cases.  The two pairs fit one page, so that the page with the
\* button to hold is the third of a review.
MenuPages == {"home", "about", "status"}
TransactionPages == {"start", "pairs", "hold"}
AddressPages == {"start", "address"}

\* The page p of a review is on display, nothing covers it.
On(kind, p) == running /\ screen = kind /\ page = p /\ modal = "none"

Covered(kind, m) == running /\ screen = kind /\ modal = m

\* Another page of the same review.
Turn(p, texts) ==
    /\ page' = p
    /\ seen' = seen \union texts
    /\ UNCHANGED <<vars, modal, message>>

-----------------------------------------------------------------------------
(***************************************************************************)
(* The review of a transaction.                                            *)
(***************************************************************************)
\* nbgl_useCaseReviewStart takes the place of whatever page there was.
ReviewStart == page' = "start" /\ modal' = "none" /\ seen' = {} /\ UNCHANGED message

StartTransactionReview(c) == ReviewTransaction(c) /\ ReviewStart

\* (variant: the review continues on its last page)
review_continue_to_hold == On("transaction", "start") /\ Turn("hold", {})
review_continue == On("transaction", "start") /\ Turn("pairs", {g_amount, g_address})

NextPage == On("transaction", "pairs") /\ Turn("hold", {})

PreviousPage == On("transaction", "hold") /\ Turn("pairs", {g_amount, g_address})

\* The footer of every page; the review is not over.
ask_transaction_rejection_confirmation ==
    /\ \E p \in TransactionPages : On("transaction", p)
    /\ modal' = "rejection"
    /\ UNCHANGED <<vars, page, message, seen>>

GoBackToTransaction ==
    /\ Covered("transaction", "rejection")
    /\ modal' = "none"
    /\ UNCHANGED <<vars, page, message, seen>>

\* (variant: the question stays in front)
UseCaseStatusBehind(text) ==
    /\ page' = "status"
    /\ message' = text
    /\ UNCHANGED <<modal, seen>>
\* nbgl_useCaseStatus: a page that leads to the menu by itself, or touched.
UseCaseStatus(text) ==
    /\ page' = "status"
    /\ modal' = "none"
    /\ message' = text
    /\ UNCHANGED seen

\* (variants: rejecting only leaves the pages; it approves)
confirm_transaction_rejection_silent ==
    /\ Covered("transaction", "rejection")
    /\ UseCaseStatus("transaction_rejected")
    /\ UNCHANGED vars
confirm_transaction_rejection_approves ==
    /\ Covered("transaction", "rejection")
    /\ ApproveTransaction
    /\ UseCaseStatus("transaction_rejected")
confirm_transaction_rejection ==
    /\ Covered("transaction", "rejection")
    /\ RejectTransaction
    /\ UseCaseStatus("transaction_rejected")

\* review_choice(true).
HoldToSign ==
    /\ On("transaction", "hold")
    /\ ApproveTransaction \/ SigningFails
    /\ UseCaseStatus("transaction_signed")

-----------------------------------------------------------------------------
(***************************************************************************)
(* The review of an address.  It is cancelled without a question.          *)
(***************************************************************************)
StartAddressReview(c) == ReviewAddress(c) /\ ReviewStart

continue_review == On("address", "start") /\ Turn("address", {g_address})

ShowQRCode ==
    /\ On("address", "address")
    /\ modal' = "qr"
    /\ UNCHANGED <<vars, page, message, seen>>

CloseQRCode ==
    /\ Covered("address", "qr")
    /\ modal' = "none"
    /\ UNCHANGED <<vars, page, message, seen>>

confirm_address_rejection ==
    /\ \E p \in AddressPages : On("address", p)
    /\ RejectAddress
    /\ UseCaseStatus("verification_cancelled")

confirm_address_approval ==
    /\ On("address", "address")
    /\ ApproveAddress
    /\ UseCaseStatus("address_verified")

-----------------------------------------------------------------------------
(***************************************************************************)
(* The menu, and everything else that happens to App.                      *)
(***************************************************************************)
\* ui_menu_main, called when a status page ends.
\* (variant: the timer of a status page outlives the page)
EndOfStatusLate ==
    /\ running
    /\ message # "none"
    /\ page' = "home"
    /\ message' = "none"
    /\ UNCHANGED <<vars, modal, seen>>
EndOfStatus ==
    /\ running
    /\ page = "status"
    /\ page' = "home"
    /\ UNCHANGED <<vars, modal, message, seen>>

ui_menu_about ==
    /\ page = "home"
    /\ About
    /\ page' = "about"
    /\ UNCHANGED <<modal, message, seen>>

ui_menu_main ==
    /\ page = "about"
    /\ Back
    /\ page' = "home"
    /\ UNCHANGED <<modal, message, seen>>

app_quit == page = "home" /\ Quit /\ UNCHANGED <<page, modal, message, seen>>

\* A command answered by its handler leaves the page alone.
HandleAtOnce(c) ==
    /\ Dispatch(c)
    /\ ~owed'
    /\ UNCHANGED <<page, modal, message, seen>>

Transport == (BadLength \/ ReceiveFails) /\ UNCHANGED <<page, modal, message, seen>>

Start ==
    /\ Launch
    /\ page' = "home"
    /\ modal' = "none"
    /\ message' = "none"
    /\ seen' = {}

NInit == Init /\ page = "home" /\ modal = "none" /\ message = "none" /\ seen = {}

TransactionScreens ==
    \/ review_continue
    \/ NextPage
    \/ PreviousPage
    \/ ask_transaction_rejection_confirmation
    \/ GoBackToTransaction
    \/ confirm_transaction_rejection
    \/ HoldToSign

AddressScreens ==
    \/ continue_review
    \/ ShowQRCode
    \/ CloseQRCode
    \/ confirm_address_rejection
    \/ confirm_address_approval

MenuScreens == EndOfStatus \/ ui_menu_about \/ ui_menu_main \/ app_quit

NNext ==
    \/ \E c \in Commands :
          HandleAtOnce(c) \/ StartTransactionReview(c) \/ StartAddressReview(c)
    \/ TransactionScreens
    \/ AddressScreens
    \/ MenuScreens
    \/ Transport
    \/ Start

NSpec == NInit /\ [][NNext]_nvars

\* A user who has the way out of a review before them again and again takes it
\* in the end, the question that follows included.
User ==
    /\ SF_nvars(ask_transaction_rejection_confirmation)
    /\ SF_nvars(confirm_transaction_rejection)
    /\ SF_nvars(confirm_address_rejection)
    /\ SF_nvars(CloseQRCode)

FairNSpec == NSpec /\ User

-----------------------------------------------------------------------------
\* The pages are those of the use cases, and only the page that asks for it is
\* covered.
NTypeOK ==
    /\ page \in MenuPages \union TransactionPages \union AddressPages
    /\ modal \in {"none", "rejection", "qr"}
    /\ modal = "rejection" => page \in TransactionPages
    /\ modal = "qr" => page = "address"
    /\ message \in {"none", "transaction_rejected", "transaction_signed",
                    "verification_cancelled", "address_verified"}

\* While an answer is owed, a page of the review it depends on is on display,
\* with the buttons that send it: no status page that ends late, no menu and no
\* question of another review hides it (nbgl_display_transaction.c:54-72 and
\* nbgl_display_address.c:46-53, each of which calls a callback and then asks
\* for ui_menu_main later).
ReviewIsOnDisplay ==
    (running /\ owed) =>
        \/ screen = "transaction" /\ page \in TransactionPages /\ modal \in {"none", "rejection"}
        \/ screen = "address" /\ page \in AddressPages /\ modal \in {"none", "qr"}

\* Nobody signs unseen: the amount and the destination of the signed bytes, and
\* the address of a key sent on approval, have been on display since the
\* review of them began (nbgl_display_transaction.c:78-96, whose pairs point to
\* the buffers filled at 108-119; nbgl_display_address.c:64-66 and 82-87).
ConsentStep ==
    Answers /\ owed =>
        /\ answer'.body.kind = "signature" =>
              LET tx == Parsed(answer'.body.of[1])
              IN  {AmountOf(tx.value), AddressTo(tx.to)} \subseteq seen
        /\ answer'.body.kind = "public_key" => AddressOf(answer'.body.key) \in seen

ConsentIsInformed == [][ConsentStep]_nvars

\* The status page a decision puts up says what the host was told: a rejection
\* was denied, and a verified address was sent, unless the answer was lost
\* (nbgl_display_transaction.c:52-56, nbgl_display_address.c:44-54).
StatusStep ==
    page # "status" /\ page' = "status" =>
        /\ message' \in {"transaction_rejected", "verification_cancelled"} =>
              answer' \in {Lost, Status("SW_DENY")}
        /\ message' = "address_verified" =>
              answer' = Lost \/ answer'.body.kind = "public_key"

StatusIsTrue == [][StatusStep]_nvars

\* The lines of the review on display that have not been seen.
Unread ==
    IF running /\ screen \in Reviews
    THEN {line \in (IF screen = "address" THEN {"address"} ELSE {"amount", "address"}) :
             (IF line = "amount" THEN g_amount ELSE g_address) \notin seen}
    ELSE {}

\* The pages are a Confirmation.
Promise == INSTANCE Confirmation WITH
    asked  <- IF running /\ screen \in Reviews THEN screen ELSE "none",
    unread <- Unread

ConfirmationSpec == Promise!Spec

\* Every command under review is answered, or the program is left, although a
\* rejection can be taken back (nbgl_display_transaction.c:52-65).
EveryReviewEnds == (running /\ owed) ~> ~(running /\ owed)

-----------------------------------------------------------------------------
\* nbgl_display_transaction.c:72 says "TRANSACTION\nSIGNED".
SignedMeansSigned ==
    [][page # "status" /\ page' = "status" /\ message' = "transaction_signed" =>
          answer' = Lost \/ answer'.body.kind = "signature"]_nvars
=============================================================================
