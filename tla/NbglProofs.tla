------------------------------ MODULE NbglProofs ------------------------------
(***************************************************************************)
(* Theorems about the touch screens, for every set of commands and all     *)
(* sizes.  The pages add nothing to what App may do, so that its theorems  *)
(* hold of them; and the pages on which a decision is taken come after the *)
(* pages that show what is decided.                                        *)
(***************************************************************************)
EXTENDS NbglApp, AppProofs

\* Every step of the pages is a step of App, or none.
LEMMA PageStep == [NNext]_nvars => [Next]_vars
<1> SUFFICES ASSUME NNext PROVE [Next]_vars
    BY DEF nvars
<1>1. ASSUME NEW c \in Commands,
             HandleAtOnce(c) \/ StartTransactionReview(c) \/ StartAddressReview(c)
      PROVE  Next
    BY <1>1 DEF HandleAtOnce, StartTransactionReview, StartAddressReview, Next, Dispatch,
                SignTx, GetPublicKey
<1>2. CASE TransactionScreens
    BY <1>2 DEF TransactionScreens, review_continue, NextPage, PreviousPage, Turn,
                ask_transaction_rejection_confirmation, GoBackToTransaction,
                confirm_transaction_rejection, HoldToSign, Next, Decide
<1>3. CASE AddressScreens
    BY <1>3 DEF AddressScreens, continue_review, Turn, ShowQRCode, CloseQRCode,
                confirm_address_rejection, confirm_address_approval, Next, Decide
<1>4. CASE MenuScreens
    BY <1>4 DEF MenuScreens, EndOfStatus, ui_menu_about, ui_menu_main, app_quit, Next, Menu
<1>5. CASE Transport \/ Start
    BY <1>5 DEF Transport, Start, Next
<1>6. QED
    BY <1>1, <1>2, <1>3, <1>4, <1>5 DEF NNext

\* The touch screens are an App (nbgl_display_transaction.c, nbgl_display_address.c,
\* menu_nbgl.c): what is proved of App is true of them.
THEOREM NbglIsAnApp == NSpec => Spec
<1>1. NInit => Init
    BY DEF NInit
<1>2. QED
    BY <1>1, PageStep, PTL DEF NSpec, Spec

-----------------------------------------------------------------------------
(***************************************************************************)
(* The invariant of the pages: a page past the lines of a review is        *)
(* reached with those lines in seen.                                       *)
(***************************************************************************)
LinesAreRead ==
    running =>
        /\ screen = "transaction" /\ page \in {"pairs", "hold"} =>
              {g_amount, g_address} \subseteq seen
        /\ screen = "address" /\ page = "address" => g_address \in seen

NInv == NTypeOK /\ ReviewIsOnDisplay /\ LinesAreRead

\* A handler that starts a review shows its first page; any other leaves the
\* pages of the menu.
LEMMA HandlersKeepPages ==
    ASSUME NInv, IInv, NEW c \in Commands,
           HandleAtOnce(c) \/ StartTransactionReview(c) \/ StartAddressReview(c)
    PROVE  NInv'
<1>1. CASE StartTransactionReview(c) \/ StartAddressReview(c)
    <2>1. \/ running' = running /\ owed' = TRUE /\ screen' = "transaction"
          \/ running' = running /\ owed' = TRUE /\ screen' = "address"
        BY <1>1 DEF StartTransactionReview, StartAddressReview, ReviewTransaction, ReviewAddress
    <2>2. page' = "start" /\ modal' = "none" /\ message' = message
        BY <1>1 DEF StartTransactionReview, StartAddressReview, ReviewStart
    <2>3. QED
        BY <2>1, <2>2 DEF NInv, NTypeOK, ReviewIsOnDisplay, LinesAreRead,
                          TransactionPages, AddressPages, MenuPages
<1>2. CASE HandleAtOnce(c)
    <2>1. owed' = FALSE /\ UNCHANGED <<page, modal, message, seen>> /\ Dispatch(c)
        BY <1>2, DispatchScreen DEF HandleAtOnce, ReviewAddress, ReviewTransaction
    <2>2. screen' \notin Reviews
        BY <2>1, DispatchScreen DEF ReviewAddress, ReviewTransaction
    <2>3. QED
        BY <2>1, <2>2 DEF NInv, NTypeOK, ReviewIsOnDisplay, LinesAreRead, Reviews
<1>3. QED
    BY <1>1, <1>2

\* The pages of the review of a transaction keep the invariant, a page that
\* shows lines adding them to seen.
LEMMA TransactionScreensKeepPages ==
    ASSUME NInv, IInv, TransactionScreens
    PROVE  NInv'
<1>1. CASE review_continue \/ NextPage \/ PreviousPage
    BY <1>1 DEF review_continue, NextPage, PreviousPage, On, Turn, vars, display, NInv, NTypeOK,
                ReviewIsOnDisplay, LinesAreRead, TransactionPages, AddressPages, MenuPages
<1>2. CASE ask_transaction_rejection_confirmation \/ GoBackToTransaction
    BY <1>2 DEF ask_transaction_rejection_confirmation, GoBackToTransaction, On, Covered,
                vars, display, NInv, NTypeOK, ReviewIsOnDisplay, LinesAreRead
<1>3. CASE confirm_transaction_rejection \/ HoldToSign
    <2>1. owed' = FALSE /\ screen' = "menu"
        BY <1>3 DEF confirm_transaction_rejection, HoldToSign, RejectTransaction,
                    ApproveTransaction, SigningFails, Decides, Respond
    <2>2. page' = "status" /\ modal' = "none"
          /\ message' \in {"transaction_rejected", "transaction_signed"}
        BY <1>3 DEF confirm_transaction_rejection, HoldToSign, UseCaseStatus
    <2>3. QED
        BY <2>1, <2>2 DEF NInv, NTypeOK, ReviewIsOnDisplay, LinesAreRead, MenuPages
<1>4. QED
    BY <1>1, <1>2, <1>3 DEF TransactionScreens

\* So do the pages of the review of an address.
LEMMA AddressScreensKeepPages ==
    ASSUME NInv, IInv, AddressScreens
    PROVE  NInv'
<1>1. CASE continue_review
    BY <1>1 DEF continue_review, On, Turn, vars, display, NInv, NTypeOK,
                ReviewIsOnDisplay, LinesAreRead, TransactionPages, AddressPages, MenuPages
<1>2. CASE ShowQRCode
    BY <1>2 DEF ShowQRCode, On, vars, display, NInv, NTypeOK, ReviewIsOnDisplay, LinesAreRead,
                TransactionPages, AddressPages, MenuPages
<1>3. CASE CloseQRCode
    BY <1>3 DEF CloseQRCode, Covered, vars, display, NInv, NTypeOK, ReviewIsOnDisplay,
                LinesAreRead, TransactionPages, AddressPages, MenuPages
<1>4. CASE confirm_address_rejection \/ confirm_address_approval
    <2>1. owed' = FALSE /\ screen' = "menu"
        BY <1>4 DEF confirm_address_rejection, confirm_address_approval, RejectAddress,
                    ApproveAddress, Decides, Respond
    <2>2. page' = "status" /\ modal' = "none"
          /\ message' \in {"verification_cancelled", "address_verified"}
        BY <1>4 DEF confirm_address_rejection, confirm_address_approval, UseCaseStatus
    <2>3. QED
        BY <2>1, <2>2 DEF NInv, NTypeOK, ReviewIsOnDisplay, LinesAreRead, MenuPages
<1>5. QED
    BY <1>1, <1>2, <1>3, <1>4 DEF AddressScreens

\* The menu and the transport are reached with no answer owed, or leave the page.
LEMMA MenuKeepsPages ==
    ASSUME NInv, IInv, MenuScreens \/ Transport \/ Start
    PROVE  NInv'
<1>1. CASE EndOfStatus
    BY <1>1 DEF EndOfStatus, vars, display, NInv, NTypeOK, ReviewIsOnDisplay, LinesAreRead,
                TransactionPages, AddressPages, MenuPages
<1>2. CASE ui_menu_about \/ ui_menu_main
    <2>1. owed' = owed /\ screen \notin Reviews /\ screen' \notin Reviews
        BY <1>2 DEF ui_menu_about, ui_menu_main, About, Back, Reviews
    <2>2. page' \in MenuPages /\ page \in MenuPages /\ UNCHANGED <<modal, message, seen>>
        BY <1>2 DEF ui_menu_about, ui_menu_main, MenuPages
    <2>3. owed' = FALSE
        BY <1>2, <2>1 DEF IInv, TypeOK, AnswerOwedIffReview, ui_menu_about, ui_menu_main, About, Back
    <2>4. QED
        BY <2>1, <2>2, <2>3 DEF NInv, NTypeOK, ReviewIsOnDisplay, LinesAreRead, Reviews,
                                TransactionPages, AddressPages, MenuPages
<1>3. CASE app_quit \/ (Transport /\ ReceiveFails)
    BY <1>3 DEF app_quit, Quit, Transport, ReceiveFails, BadLength,
                NInv, NTypeOK, ReviewIsOnDisplay, LinesAreRead
<1>4. CASE Transport /\ BadLength
    BY <1>4 DEF Transport, BadLength, Respond, display,
                NInv, NTypeOK, ReviewIsOnDisplay, LinesAreRead
<1>5. CASE Start
    BY <1>5 DEF Start, Launch, NInv, NTypeOK, ReviewIsOnDisplay, LinesAreRead,
                TransactionPages, AddressPages, MenuPages
<1>6. QED
    BY <1>1, <1>2, <1>3, <1>4, <1>5 DEF MenuScreens, Transport

\* The page on display is one of the review the owed answer depends on, and
\* what a page comes after has been seen (nbgl_display_transaction.c:78-96,
\* nbgl_display_address.c:64-66, and ui_menu_main at the end of a status page).
THEOREM PagesCoherent == NSpec => []NInv
<1>1. NInit => NInv
    BY DEF NInit, Init, NInv, NTypeOK, ReviewIsOnDisplay, LinesAreRead,
           MenuPages, TransactionPages, AddressPages
<1>2. NInv /\ IInv /\ [NNext]_nvars => NInv'
    <2> SUFFICES ASSUME NInv, IInv, [NNext]_nvars PROVE NInv'
        OBVIOUS
    <2>1. CASE UNCHANGED nvars
        BY <2>1 DEF nvars, vars, display, NInv, NTypeOK, ReviewIsOnDisplay, LinesAreRead
    <2>2. CASE NNext
        BY <2>2, HandlersKeepPages, TransactionScreensKeepPages, AddressScreensKeepPages,
           MenuKeepsPages DEF NNext
    <2>3. QED
        BY <2>1, <2>2
<1>3. QED
    BY <1>1, <1>2, NbglIsAnApp, ReviewsCoherent, PTL DEF NSpec

\* While an answer is owed, the page on display has the buttons that send it.
THEOREM ReviewsStayOnDisplay == NSpec => []ReviewIsOnDisplay
  BY PagesCoherent, PTL DEF NInv

\* The question and the QR code cover only the pages that ask for them
\* (nbgl_display_transaction.c:58-65, the QR code of nbgl_useCaseAddressConfirmation).
THEOREM PagesTyped == NSpec => []NTypeOK
  BY PagesCoherent, PTL DEF NInv

-----------------------------------------------------------------------------
(***************************************************************************)
(* What the user has seen, and what the user is told.                      *)
(***************************************************************************)
\* An answer that carries something is sent from the last page of its review.
LEMMA DecisionPages ==
    ASSUME NInv, IInv, NNext, Answers, owed
    PROVE  /\ answer'.body.kind = "signature" => page = "hold" /\ running
           /\ answer'.body.kind = "public_key" => page = "address" /\ running
<1>1. ASSUME NEW c \in Commands, Dispatch(c) PROVE FALSE
    BY <1>1 DEF Dispatch, Refuse, GetVersion, GetAppName,
           GetPublicKey, BadKeyPath, KeyDerivationFails, SendKey, AddressDisplayFails,
           ReviewAddress, SignTx, StartSigning, NoSession, ChunkTooLong, MoreToCome,
           ParseFails, HashFails, TransactionDisplayFails, ReviewTransaction,
           ParsedChunk, LastChunk, StoresChunk, Chunk, Calls, Receive
<1>2. ASSUME NEW c \in Commands,
             HandleAtOnce(c) \/ StartTransactionReview(c) \/ StartAddressReview(c)
      PROVE  FALSE
    BY <1>1, <1>2 DEF HandleAtOnce, StartTransactionReview, StartAddressReview, Dispatch,
                      SignTx, GetPublicKey
<1>3. CASE HoldToSign
    <2>1. page = "hold" /\ running
        BY <1>3 DEF HoldToSign, On
    <2>2. answer'.body.kind # "public_key"
        BY <1>3, KeylessBodies DEF HoldToSign, ApproveTransaction, SigningFails, Respond
    <2>3. QED
        BY <2>1, <2>2
<1>4. CASE confirm_address_approval
    <2>1. page = "address" /\ running
        BY <1>4 DEF confirm_address_approval, On
    <2>2. answer'.body.kind # "signature"
        BY <1>4, PlainBodies DEF confirm_address_approval, ApproveAddress, Respond
    <2>3. QED
        BY <2>1, <2>2
<1>5. CASE confirm_transaction_rejection \/ confirm_address_rejection
    BY <1>5, PlainBodies, KeylessBodies DEF confirm_transaction_rejection,
       confirm_address_rejection, RejectTransaction, RejectAddress, Respond
<1>6. CASE Start
    BY <1>6, PlainBodies, KeylessBodies DEF Start, Launch
<1>7. CASE Transport
    BY <1>7 DEF Transport, BadLength, ReceiveFails, Answers
<1>8. CASE \/ review_continue \/ NextPage \/ PreviousPage
           \/ ask_transaction_rejection_confirmation \/ GoBackToTransaction
           \/ continue_review \/ ShowQRCode \/ CloseQRCode \/ EndOfStatus
    BY <1>8 DEF review_continue, NextPage, PreviousPage, Turn, continue_review, ShowQRCode,
       ask_transaction_rejection_confirmation, GoBackToTransaction, CloseQRCode, EndOfStatus,
       vars, Answers
<1>9. CASE ui_menu_about \/ ui_menu_main \/ app_quit
    BY <1>9 DEF ui_menu_about, ui_menu_main, app_quit, About, Back, Quit, Answers
<1>10. QED
    BY <1>2, <1>3, <1>4, <1>5, <1>6, <1>7, <1>8, <1>9
       DEF NNext, TransactionScreens, AddressScreens, MenuScreens

\* Nobody signs, or sends a key, unseen: the page whose button approves comes
\* after the page with the amount and the address (nbgl_display_transaction.c:67-96,
\* nbgl_display_address.c:56-66).
THEOREM NbglConsentIsInformed == NSpec => ConsentIsInformed
<1>1. NInv /\ IInv /\ [NNext]_nvars /\ [SignatureStep]_vars /\ [KeyStep]_vars
         => [ConsentStep]_nvars
    <2> SUFFICES ASSUME NInv, IInv, NNext, [SignatureStep]_vars, [KeyStep]_vars, Answers, owed
                 PROVE  ConsentStep
        BY DEF ConsentStep
    <2>1. SignatureStep /\ KeyStep
        BY DEF Answers, vars
    <2>2. ASSUME answer'.body.kind = "signature"
          PROVE  LET tx == Parsed(answer'.body.of[1])
                 IN  {AmountOf(tx.value), AddressTo(tx.to)} \subseteq seen
        BY <2>1, <2>2, DecisionPages DEF SignatureStep, NInv, LinesAreRead
    <2>3. ASSUME answer'.body.kind = "public_key"
          PROVE  AddressOf(answer'.body.key) \in seen
        BY <2>1, <2>3, DecisionPages DEF KeyStep, NInv, LinesAreRead
    <2>4. QED
        BY <2>2, <2>3 DEF ConsentStep
<1>2. QED
    BY <1>1, PagesCoherent, NbglIsAnApp, ReviewsCoherent, SignatureCorrect, KeyCorrect, PTL
       DEF NSpec, ConsentIsInformed, SignatureMatchesReview, KeyMatchesReview

\* What a status page says is what the host was told, unless a signature is
\* announced (nbgl_display_transaction.c:52-56, nbgl_display_address.c:44-54).
THEOREM NbglStatusCorrect == NSpec => StatusIsTrue
<1>1. ASSUME NNext, page # "status", page' = "status" PROVE StatusStep
    <2>1. ASSUME NEW c \in Commands,
                 HandleAtOnce(c) \/ StartTransactionReview(c) \/ StartAddressReview(c)
          PROVE  FALSE
        BY <1>1, <2>1 DEF HandleAtOnce, StartTransactionReview, StartAddressReview, ReviewStart
    <2>2. CASE confirm_transaction_rejection \/ confirm_address_rejection
        BY <2>2 DEF confirm_transaction_rejection, confirm_address_rejection, RejectTransaction,
           RejectAddress, Respond, UseCaseStatus, StatusStep
    <2>3. CASE confirm_address_approval
        <3>1. answer' = Lost \/ answer' = Ok(PublicKey(G_context.raw_public_key))
            BY <2>3 DEF confirm_address_approval, ApproveAddress, Respond
        <3>2. message' = "address_verified"
            BY <2>3 DEF confirm_address_approval, UseCaseStatus
        <3>3. QED
            BY <3>1, <3>2 DEF StatusStep, Ok, PublicKey
    <2>4. CASE HoldToSign
        BY <2>4 DEF HoldToSign, UseCaseStatus, StatusStep
    <2>5. CASE review_continue \/ NextPage \/ PreviousPage \/ continue_review
        BY <1>1, <2>5 DEF review_continue, NextPage, PreviousPage, continue_review, Turn
    <2>6. CASE \/ ask_transaction_rejection_confirmation \/ GoBackToTransaction
               \/ ShowQRCode \/ CloseQRCode \/ Transport
        BY <1>1, <2>6 DEF ask_transaction_rejection_confirmation, GoBackToTransaction,
           ShowQRCode, CloseQRCode, Transport
    <2>7. CASE MenuScreens \/ Start
        BY <1>1, <2>7 DEF MenuScreens, EndOfStatus, ui_menu_about, ui_menu_main, app_quit, Start
    <2>8. QED
        BY <1>1, <2>1, <2>2, <2>3, <2>4, <2>5, <2>6, <2>7
           DEF NNext, TransactionScreens, AddressScreens
<1>2. [NNext]_nvars => [StatusStep]_nvars
    BY <1>1 DEF StatusStep
<1>3. QED
    BY <1>2, PTL DEF NSpec, StatusIsTrue

-----------------------------------------------------------------------------
(***************************************************************************)
(* The pages implement Confirmation, step by step.                         *)
(***************************************************************************)
Asked == IF running /\ screen \in Reviews THEN screen ELSE "none"

\* The answers of App are those of Confirmation.
LEMMA SameAnswers ==
    /\ Promise!Lost = Lost
    /\ \A sw : Promise!Status(sw) = Status(sw)
<1>1. \A kind : Promise!Body(kind) = Body(kind)
    BY DEF Promise!Body, Body, Promise!Zero, Zero
<1>2. QED
    BY <1>1 DEF Promise!Lost, Lost, Promise!Status, Status

\* Outside a review nothing is asked and nothing is unread.
LEMMA NothingAsked == (running /\ screen \in Reviews) \/ (Asked = "none" /\ Unread = {})
  BY DEF Asked, Unread

\* The same, of the next state.
LEMMA NothingAskedNext == ~(running' /\ screen' \in Reviews) => Asked' = "none" /\ Unread' = {}
  BY DEF Asked, Unread

\* A handler is a step outside a review, or the start of one.
LEMMA HandlerConfirms ==
    ASSUME NInv, IInv, NEW c \in Commands,
           HandleAtOnce(c) \/ StartTransactionReview(c) \/ StartAddressReview(c)
    PROVE  [Promise!Next]_(Promise!vars)
<1>1. CASE StartTransactionReview(c) \/ StartAddressReview(c)
    <2>1. /\ owed' = TRUE /\ answer' = answer /\ running' = running /\ seen' = {}
          /\ running /\ ~owed /\ screen \notin Reviews
        BY <1>1 DEF StartTransactionReview, StartAddressReview, ReviewStart, ReviewAddress, ReviewTransaction, Calls, Receive, IInv,
           AnswerOwedIffReview, ParsedChunk, LastChunk, StoresChunk, Chunk
    <2>2. Asked = "none" /\ Unread = {}
        BY <2>1, NothingAsked
    <2>3. CASE StartAddressReview(c)
        <3>1. Asked' = "address" /\ Unread' = {"address"}
            BY <2>1, <2>3 DEF StartAddressReview, ReviewAddress, Asked, Unread, Reviews
        <3>2. Promise!Ask("address")
            BY <2>1, <2>2, <3>1 DEF Promise!Ask, Promise!LinesOf, Asked
        <3>3. QED
            BY <3>2 DEF Promise!Next
    <2>4. CASE StartTransactionReview(c)
        <3>1. Asked' = "transaction" /\ Unread' = {"amount", "address"}
            BY <2>1, <2>4 DEF StartTransactionReview, ReviewTransaction, Asked, Unread, Reviews
        <3>2. Promise!Ask("transaction")
            BY <2>1, <2>2, <3>1 DEF Promise!Ask, Promise!LinesOf, Asked
        <3>3. QED
            BY <3>2 DEF Promise!Next
    <2>5. QED
        BY <1>1, <2>3, <2>4
<1>2. CASE HandleAtOnce(c)
    <2>0. screen \notin Reviews /\ screen' = screen
        BY <1>2, DispatchScreen DEF HandleAtOnce, ReviewAddress, ReviewTransaction
    <2>1. Asked = "none" /\ Unread = {} /\ Asked' = "none" /\ Unread' = {}
        BY <2>0, NothingAsked, NothingAskedNext
    <2>2. CASE answer' = answer
        BY <2>1, <2>2 DEF Promise!vars, Asked
    <2>3. CASE answer' # answer
        <3>1. answer'.body.kind # "signature"
            BY <1>2, <2>3, DispatchSendsNoSignature DEF HandleAtOnce, Answers
        <3>2. Promise!Elsewhere
            BY <2>1, <3>1 DEF Promise!Elsewhere, Asked
        <3>3. QED
            BY <3>2 DEF Promise!Next
    <2>4. QED
        BY <2>2, <2>3
<1>3. QED
    BY <1>1, <1>2

\* A page that only leaves App alone.
Browsing ==
    \/ review_continue
    \/ NextPage
    \/ PreviousPage
    \/ ask_transaction_rejection_confirmation
    \/ GoBackToTransaction
    \/ continue_review
    \/ ShowQRCode
    \/ CloseQRCode
    \/ EndOfStatus

\* Turning the pages reads, or shows again what was read.
LEMMA BrowsingConfirms ==
    ASSUME NInv, Browsing
    PROVE  [Promise!Next]_(Promise!vars)
<1>1. /\ UNCHANGED vars
      /\ seen \subseteq seen'
    BY DEF Browsing, review_continue, NextPage, PreviousPage, Turn,
           ask_transaction_rejection_confirmation, GoBackToTransaction, continue_review,
           ShowQRCode, CloseQRCode, EndOfStatus
<1>2. Asked' = Asked /\ answer' = answer /\ Unread' \subseteq Unread
    BY <1>1 DEF vars, display, Asked, Unread
<1>3. CASE Unread' = Unread
    BY <1>2, <1>3 DEF Promise!vars, Asked
<1>4. CASE Unread' # Unread
    <2>1. Asked # "none"
        BY <1>2, <1>4 DEF Unread, Asked, Reviews
    <2>2. Promise!Read
        BY <1>2, <1>4, <2>1 DEF Promise!Read, Asked
    <2>3. QED
        BY <2>2 DEF Promise!Next
<1>5. QED
    BY <1>3, <1>4

\* The pages that decide.
Approval == HoldToSign \/ confirm_address_approval
Rejection == confirm_transaction_rejection \/ confirm_address_rejection

\* They come after the lines, and end the review.
LEMMA DecisionConfirms ==
    ASSUME NInv, IInv, Approval \/ Rejection
    PROVE  [Promise!Next]_(Promise!vars)
<1>1. running /\ screen \in Reviews /\ screen' = "menu"
    BY DEF Approval, Rejection, HoldToSign, confirm_address_approval,
           confirm_transaction_rejection, confirm_address_rejection, ApproveAddress,
           ApproveTransaction, SigningFails, RejectAddress, RejectTransaction, Decides
<1>2. Asked = screen /\ Asked # "none" /\ Asked' = "none" /\ Unread' = {}
    BY <1>1, NothingAskedNext DEF Asked, Reviews
<1>3. Promise!Ended
    BY <1>2 DEF Promise!Ended, Asked
<1>4. CASE Rejection
    <2>1. answer' \in {Lost, Status("SW_DENY")}
        BY <1>4 DEF Rejection, confirm_transaction_rejection,
           confirm_address_rejection, RejectAddress, RejectTransaction, Respond
    <2>2. QED
        BY <1>3, <2>1, SameAnswers DEF Promise!Reject, Promise!Next
<1>5. CASE Approval
    <2>1. Unread = {}
        BY <1>1, <1>5 DEF Approval, HoldToSign, confirm_address_approval, On, NInv,
           LinesAreRead, Unread
    <2>2. \/ answer' \in {Lost, Status("SW_SIGNATURE_FAIL")}
          \/ screen = "address" /\ answer'.body.kind = "public_key"
          \/ screen = "transaction" /\ answer'.body.kind = "signature"
        <3>1. CASE ApproveAddress
            <4>1. screen = "address"
                BY <1>1, <3>1 DEF ApproveAddress, Decides, IInv, TransactionReviewCoherent, Reviews
            <4>2. answer' = Lost \/ answer' = Ok(PublicKey(G_context.raw_public_key))
                BY <3>1 DEF ApproveAddress, Respond
            <4>3. Ok(PublicKey(G_context.raw_public_key)).body.kind = "public_key"
                BY DEF Ok, PublicKey
            <4>4. QED
                BY <4>1, <4>2, <4>3
        <3>2. CASE ApproveTransaction
            <4>1. screen = "transaction"
                BY <1>1, <3>2 DEF ApproveTransaction, Decides, IInv, AddressReviewCoherent, Reviews
            <4>2. answer' = Lost \/ answer' = Ok(SignatureOf(G_context))
                BY <3>2 DEF ApproveTransaction, Respond
            <4>3. QED
                BY <4>1, <4>2 DEF Ok, SignatureOf, Sign
        <3>3. CASE SigningFails
            BY <3>3 DEF SigningFails, Respond
        <3>4. QED
            BY <1>5, <3>1, <3>2, <3>3 DEF Approval, HoldToSign, confirm_address_approval
    <2>3. Promise!Approve
        BY <1>2, <1>3, <2>1, <2>2, SameAnswers DEF Promise!Approve, Asked
    <2>4. QED
        BY <2>3 DEF Promise!Next
<1>6. QED
    BY <1>4, <1>5

\* The menu, the transport and the restart.
LEMMA OthersConfirm ==
    ASSUME NInv, IInv, ui_menu_about \/ ui_menu_main \/ app_quit \/ Transport \/ Start
    PROVE  [Promise!Next]_(Promise!vars)
<1>1. CASE ui_menu_about \/ ui_menu_main \/ app_quit
    <2>1. screen \notin Reviews /\ screen' \notin Reviews /\ answer' = answer
        BY <1>1 DEF ui_menu_about, ui_menu_main, app_quit, About, Back, Quit, Reviews
    <2>2. Asked = "none" /\ Unread = {} /\ Asked' = "none" /\ Unread' = {}
        BY <2>1, NothingAsked, NothingAskedNext
    <2>3. QED
        BY <2>1, <2>2 DEF Promise!vars, Asked
<1>2. CASE Transport /\ BadLength
    <2>1. screen \notin Reviews /\ screen' = screen /\ answer'.body.kind # "signature"
        BY <1>2, PlainBodies DEF BadLength, Respond, IInv, AnswerOwedIffReview
    <2>2. Asked = "none" /\ Unread = {} /\ Asked' = "none" /\ Unread' = {}
        BY <2>1, NothingAsked, NothingAskedNext
    <2>3. Promise!Elsewhere
        BY <2>1, <2>2 DEF Promise!Elsewhere, Asked
    <2>4. QED
        BY <2>3 DEF Promise!Next
<1>3. CASE Transport /\ ReceiveFails
    <2>1. running' = FALSE /\ answer' = answer
        BY <1>3 DEF ReceiveFails
    <2>2. Asked' = "none" /\ Unread' = {}
        BY <2>1, NothingAskedNext
    <2>3. CASE Asked = "none"
        <3>1. Unread = {}
            BY <2>3, NothingAsked DEF Asked, Reviews
        <3>2. QED
            BY <2>1, <2>2, <2>3, <3>1 DEF Promise!vars, Asked
    <2>4. CASE Asked # "none"
        BY <2>1, <2>2, <2>4 DEF Promise!Abandon, Promise!Ended, Promise!Next, Asked
    <2>5. QED
        BY <2>3, <2>4
<1>4. CASE Start
    <2>1. running = FALSE /\ screen' = "menu" /\ answer' = Lost
        BY <1>4 DEF Start, Launch, IInv, TypeOK
    <2>2. Asked = "none" /\ Unread = {} /\ Asked' = "none" /\ Unread' = {}
        BY <2>1, NothingAsked, NothingAskedNext DEF Reviews
    <2>3. Promise!Elsewhere
        BY <2>1, <2>2, PlainBodies DEF Promise!Elsewhere, Asked
    <2>4. QED
        BY <2>3 DEF Promise!Next
<1>5. QED
    BY <1>1, <1>2, <1>3, <1>4 DEF Transport

\* The touch screens keep the promise of Confirmation: a review is put to
\* the user, read, and ended by one decision that answers the command, and it
\* is approved only once it has been read (nbgl_display_transaction.c:52-129,
\* nbgl_display_address.c:44-96).
THEOREM NbglConfirms == NSpec => ConfirmationSpec
<1>1. NInit => Promise!Init
    <2>1. ASSUME NInit PROVE Asked = "none" /\ Unread = {} /\ answer = Lost
        BY <2>1, NothingAsked DEF NInit, Init, Reviews
    <2>2. QED
        BY <2>1, SameAnswers DEF Promise!Init, Asked
<1>2. NInv /\ IInv /\ [NNext]_nvars => [Promise!Next]_(Promise!vars)
    <2> SUFFICES ASSUME NInv, IInv, [NNext]_nvars PROVE [Promise!Next]_(Promise!vars)
        OBVIOUS
    <2>1. CASE UNCHANGED nvars
        BY <2>1 DEF nvars, vars, display, Promise!vars, Unread
    <2>2. CASE NNext
        BY <2>2, HandlerConfirms, BrowsingConfirms, DecisionConfirms, OthersConfirm
           DEF NNext, TransactionScreens, AddressScreens, MenuScreens, Browsing, Approval, Rejection
    <2>3. QED
        BY <2>1, <2>2
<1>3. QED
    BY <1>1, <1>2, PagesCoherent, NbglIsAnApp, ReviewsCoherent, PTL
       DEF NSpec, ConfirmationSpec, Promise!Spec
=============================================================================
