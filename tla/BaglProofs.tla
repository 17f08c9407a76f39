------------------------------ MODULE BaglProofs ------------------------------
(***************************************************************************)
(* Theorems about the two-button screens, for every set of commands and    *)
(* all sizes.  A flow is walked one step at a time from its first, so that *)
(* whatever precedes the step on display has been seen; the approve step   *)
(* comes after every line of its review.                                   *)
(***************************************************************************)
EXTENDS BaglApp, AppProofs

\* Every button is a step of App, or none.
LEMMA ButtonStep == [BNext]_bvars => [Next]_vars
<1> SUFFICES ASSUME BNext PROVE [Next]_vars
    BY DEF bvars
<1>1. ASSUME NEW c \in Commands, Handle(c) PROVE Next
    BY <1>1 DEF Handle, Next
<1>2. CASE Right \/ Left
    BY <1>2 DEF Right, Left, Shows
<1>3. CASE PressApprove \/ PressReject
    BY <1>3 DEF PressApprove, PressReject, Next, Decide
<1>4. CASE PressMenu \/ Transport \/ Start
    BY <1>4 DEF PressMenu, Transport, Start, Next, Menu
<1>5. QED
    BY <1>1, <1>2, <1>3, <1>4 DEF BNext

\* The two-button screens are an App (bagl_display.c, menu_bagl.c): what is
\* proved of App is true of them.
THEOREM BaglIsAnApp == BSpec => Spec
<1>1. BInit => Init
    BY DEF BInit
<1>2. QED
    BY <1>1, ButtonStep, PTL DEF BSpec, Spec

-----------------------------------------------------------------------------
(***************************************************************************)
(* The invariant of the flows: the lines of a review up to the step on     *)
(* display are in seen.                                                    *)
(***************************************************************************)
LinesAreRead ==
    running =>
        /\ screen = "transaction" =>
              /\ step >= 2 => g_address \in seen
              /\ step >= 3 => g_amount \in seen
        /\ screen = "address" => (step >= 2 => g_address \in seen)

BInv == BTypeOK /\ LinesAreRead

Flows == {"menu", "about"} \union Reviews

\* The flows are as long as their lists of steps.
LEMMA FlowLengths ==
    /\ Len(Flow("menu")) = 4
    /\ Len(Flow("about")) = 2
    /\ Len(Flow("address")) = 4
    /\ Len(Flow("transaction")) = 5
  BY DEF Flow, ux_menu_main_flow, ux_menu_about_flow, ux_display_pubkey_flow,
         ux_display_transaction_flow

\* What the steps of a review have on display, and where its approve step is.
LEMMA FlowTexts ==
    /\ Text(Flow("transaction")[2]) = {g_address}
    /\ Text(Flow("transaction")[3]) = {g_amount}
    /\ Text(Flow("address")[2]) = {g_address}
    /\ \A i \in 1 .. 5 : Flow("transaction")[i] = "approve" => i >= 3
    /\ \A i \in 1 .. 4 : Flow("address")[i] = "approve" => i >= 2
<1>1. /\ Flow("transaction") = ux_display_transaction_flow
      /\ Flow("address") = ux_display_pubkey_flow
    BY DEF Flow
<1>2. /\ Flow("transaction")[2] = "address"
      /\ Flow("transaction")[3] = "amount"
      /\ Flow("address")[2] = "address"
    <2>1. /\ ux_display_transaction_flow[2] = "address"
          /\ ux_display_transaction_flow[3] = "amount"
          /\ ux_display_pubkey_flow[2] = "address"
        BY DEF ux_display_transaction_flow, ux_display_pubkey_flow
    <2>2. QED
        BY <1>1, <2>1, Zenon
<1>3. /\ \A i \in 1 .. 5 : Flow("transaction")[i] = "approve" => i >= 3
      /\ \A i \in 1 .. 4 : Flow("address")[i] = "approve" => i >= 2
    <2>1. /\ ux_display_transaction_flow[1] # "approve"
          /\ ux_display_transaction_flow[2] # "approve"
          /\ ux_display_pubkey_flow[1] # "approve"
        BY DEF ux_display_transaction_flow, ux_display_pubkey_flow
    <2>2. /\ Flow("transaction")[1] # "approve"
          /\ Flow("transaction")[2] # "approve"
          /\ Flow("address")[1] # "approve"
        BY <1>1, <2>1, Zenon
    <2>3. QED
        BY <2>2
<1>4. Text("address") = {g_address} /\ Text("amount") = {g_amount}
    BY DEF Text
<1>5. QED
    BY <1>2, <1>3, <1>4

\* A flow entered at its first step owes nothing to what was seen before.
LEMMA FlowInitKeepsLines ==
    ASSUME FlowInit, screen' \in Flows
    PROVE  BInv'
<1>1. step' = 1
    BY DEF FlowInit
<1>2. Len(Flow(screen')) \in Nat /\ Len(Flow(screen')) >= 1
    BY FlowLengths DEF Flows, Reviews
<1>3. BTypeOK'
    BY <1>1, <1>2 DEF BTypeOK, Flows
<1>4. LinesAreRead'
    BY <1>1 DEF LinesAreRead
<1>5. QED
    BY <1>3, <1>4 DEF BInv

\* Right and left: a step forward in a review adds the line it shows; only a
\* menu wraps around.
LEMMA ButtonsKeepLines ==
    ASSUME BInv, Right \/ Left
    PROVE  BInv'
<1>1. /\ UNCHANGED <<running, screen, g_amount, g_address>>
      /\ seen' = seen \union Text(Flow(screen)[step'])
      /\ running
    BY DEF Right, Left, Shows, vars, display
<1>2. CASE screen \in {"menu", "about"}
    <2>1. step' \in 1 .. Len(Flow(screen))
        BY <1>2, FlowLengths DEF BInv, BTypeOK, Right, Left, Shows
    <2>2. QED
        BY <1>1, <1>2, <2>1 DEF BInv, BTypeOK, LinesAreRead
<1>3. CASE screen \in Reviews
    <2>1. /\ step \in 1 .. Len(Flow(screen))
          /\ step' \in 1 .. Len(Flow(screen))
          /\ step' =< step + 1
        BY <1>3, FlowLengths DEF BInv, BTypeOK, Right, Left, Shows, Loops, Reviews
    <2>2. BTypeOK'
        BY <1>1, <1>3, <2>1 DEF BTypeOK
    <2>3. CASE screen = "transaction"
        <3>1. step' >= 2 => g_address \in seen'
            BY <1>1, <2>1, <2>3, FlowTexts, FlowLengths DEF BInv, LinesAreRead
        <3>2. step' >= 3 => g_amount \in seen'
            BY <1>1, <2>1, <2>3, FlowTexts, FlowLengths DEF BInv, LinesAreRead
        <3>3. QED
            BY <1>1, <2>2, <2>3, <3>1, <3>2 DEF BInv, LinesAreRead
    <2>4. CASE screen = "address"
        <3>1. step' >= 2 => g_address \in seen'
            BY <1>1, <2>1, <2>4, FlowTexts, FlowLengths DEF BInv, LinesAreRead
        <3>2. QED
            BY <1>1, <2>2, <2>4, <3>1 DEF BInv, LinesAreRead
    <2>5. QED
        BY <1>3, <2>3, <2>4 DEF Reviews
<1>4. QED
    BY <1>2, <1>3 DEF BInv, BTypeOK

\* The step on display is one of its flow, and the lines before it in a review
\* have been read (bagl_display.c:89-93 and 144-149).
THEOREM StepsCoherent == BSpec => []BInv
<1>1. BInit => BInv
    BY FlowLengths DEF BInit, Init, BInv, BTypeOK, LinesAreRead
<1>2. BInv /\ IInv /\ [BNext]_bvars => BInv'
    <2> SUFFICES ASSUME BInv, IInv, [BNext]_bvars PROVE BInv'
        OBVIOUS
    <2>1. ASSUME NEW c \in Commands, Handle(c) PROVE BInv'
        <3>1. CASE owed'
            <4>1. screen' \in Reviews
                BY <2>1, <3>1, DispatchScreen DEF Handle, ReviewAddress, ReviewTransaction, Reviews
            <4>2. QED
                BY <2>1, <3>1, <4>1, FlowInitKeepsLines DEF Handle, Flows
        <3>2. CASE ~owed'
            <4>1. /\ UNCHANGED <<step, seen>>
                  /\ screen \notin Reviews
                  /\ screen' = screen
                BY <2>1, <3>2, DispatchScreen DEF Handle, ReviewAddress, ReviewTransaction
            <4>2. QED
                BY <4>1 DEF BInv, BTypeOK, LinesAreRead, Reviews
        <3>3. QED
            BY <3>1, <3>2
    <2>2. CASE Right \/ Left
        BY <2>2, ButtonsKeepLines
    <2>3. CASE PressApprove \/ PressReject
        <3>1. screen' = "menu" /\ FlowInit
            BY <2>3 DEF PressApprove, PressReject, ApproveAddress, ApproveTransaction,
                        SigningFails, RejectAddress, RejectTransaction, Decides
        <3>2. QED
            BY <3>1, FlowInitKeepsLines DEF Flows
    <2>4. CASE PressMenu
        BY <2>4, FlowInitKeepsLines DEF PressMenu, About, Back, Quit, Flows,
           BInv, BTypeOK, LinesAreRead, display
    <2>5. CASE Transport
        BY <2>5 DEF Transport, BadLength, ReceiveFails, display, BInv, BTypeOK, LinesAreRead
    <2>6. CASE Start
        BY <2>6, FlowInitKeepsLines DEF Start, Launch, Flows
    <2>7. CASE UNCHANGED bvars
        BY <2>7 DEF bvars, vars, display, BInv, BTypeOK, LinesAreRead
    <2>8. QED
        BY <2>1, <2>2, <2>3, <2>4, <2>5, <2>6, <2>7 DEF BNext
<1>3. QED
    BY <1>1, <1>2, BaglIsAnApp, ReviewsCoherent, PTL DEF BSpec

\* No button leaves the flow on display (menu_bagl.c:27-62, bagl_display.c:89-149).
THEOREM StepsTyped == BSpec => []BTypeOK
  BY StepsCoherent, PTL DEF BInv

-----------------------------------------------------------------------------
(***************************************************************************)
(* What the user has read.                                                 *)
(***************************************************************************)
\* A review is answered by its buttons only, and with something other than a
\* refusal by the approve step only.
LEMMA DecisionSteps ==
    ASSUME BInv, IInv, BNext, Answers, owed
    PROVE  answer'.body.kind \in {"signature", "public_key"} => On("approve")
<1>1. ASSUME NEW c \in Commands, Handle(c) PROVE FALSE
    BY <1>1 DEF Handle, Dispatch, Refuse, GetVersion, GetAppName,
           GetPublicKey, BadKeyPath, KeyDerivationFails, SendKey, AddressDisplayFails,
           ReviewAddress, SignTx, StartSigning, NoSession, ChunkTooLong, MoreToCome,
           ParseFails, HashFails, TransactionDisplayFails, ReviewTransaction,
           ParsedChunk, LastChunk, StoresChunk, Chunk, Calls, Receive
<1>2. CASE Right \/ Left
    BY <1>2 DEF Right, Left, Shows, vars, Answers
<1>3. CASE PressApprove
    BY <1>3 DEF PressApprove
<1>4. CASE PressReject
    BY <1>4, PlainBodies, KeylessBodies DEF PressReject, RejectAddress, RejectTransaction, Respond
<1>5. CASE PressMenu
    BY <1>5 DEF PressMenu, About, Back, Quit, Answers
<1>6. CASE Transport
    BY <1>6 DEF Transport, BadLength, ReceiveFails, Answers
<1>7. CASE Start
    BY <1>7, PlainBodies, KeylessBodies DEF Start, Launch
<1>8. QED
    BY <1>1, <1>2, <1>3, <1>4, <1>5, <1>6, <1>7 DEF BNext

\* On the approve step of a review every line of it has been read.
LEMMA ApproveComesLast ==
    ASSUME BInv, On("approve")
    PROVE  /\ screen = "transaction" => {g_amount, g_address} \subseteq seen
           /\ screen = "address" => g_address \in seen
<1>1. running /\ Flow(screen)[step] = "approve"
    BY DEF On
<1>2. CASE screen = "transaction"
    <2>1. step \in 1 .. 5
        BY <1>2, FlowLengths DEF BInv, BTypeOK
    <2>2. step >= 3
        BY <1>1, <1>2, <2>1, FlowTexts
    <2>3. QED
        BY <1>1, <1>2, <2>1, <2>2 DEF BInv, LinesAreRead
<1>3. CASE screen = "address"
    <2>1. step \in 1 .. 4
        BY <1>3, FlowLengths DEF BInv, BTypeOK
    <2>2. step >= 2
        BY <1>1, <1>3, <2>1, FlowTexts
    <2>3. QED
        BY <1>1, <1>3, <2>1, <2>2 DEF BInv, LinesAreRead
<1>4. QED
    BY <1>2, <1>3

\* Nobody signs, or sends a key, unseen: no walk along a flow, back and forth,
\* reaches the approve step but through the lines (bagl_display.c:89-93 and
\* 144-149, whose flows do not loop).
THEOREM BaglConsentIsInformed == BSpec => ConsentIsInformed
<1>1. BInv /\ IInv /\ [BNext]_bvars /\ [SignatureStep]_vars /\ [KeyStep]_vars
         => [ConsentStep]_bvars
    <2> SUFFICES ASSUME BInv, IInv, BNext, [SignatureStep]_vars, [KeyStep]_vars, Answers, owed
                 PROVE  ConsentStep
        BY DEF ConsentStep
    <2>1. SignatureStep /\ KeyStep
        BY DEF Answers, vars
    <2>2. ASSUME answer'.body.kind = "signature"
          PROVE  LET tx == Parsed(answer'.body.of[1])
                 IN  {AmountOf(tx.value), AddressTo(tx.to)} \subseteq seen
        BY <2>1, <2>2, DecisionSteps, ApproveComesLast DEF SignatureStep
    <2>3. ASSUME answer'.body.kind = "public_key"
          PROVE  AddressOf(answer'.body.key) \in seen
        BY <2>1, <2>3, DecisionSteps, ApproveComesLast DEF KeyStep
    <2>4. QED
        BY <2>2, <2>3 DEF ConsentStep
<1>2. QED
    BY <1>1, StepsCoherent, BaglIsAnApp, ReviewsCoherent, SignatureCorrect, KeyCorrect, PTL
       DEF BSpec, ConsentIsInformed, SignatureMatchesReview, KeyMatchesReview

-----------------------------------------------------------------------------
(***************************************************************************)
(* The flows implement Confirmation, step by step.                         *)
(***************************************************************************)
Asked == IF running /\ screen \in Reviews THEN screen ELSE "none"

\* The answers of App are those of Confirmation.
LEMMA SameAnswers ==
    /\ Promise!Lost = Lost
    /\ \A sw : Promise!Status(sw) = Status(sw)
<1>1. \A kind : Promise!Body(kind) = Body(kind)
    BY DEF Promise!Body, Body, Promise!Zero, Zero
<1>2. QED
    BY <1>1 DEF Promise!Lost, Lost, Promise!Status, Status

\* Outside a review nothing is asked and nothing is unread.
LEMMA NothingAsked == (running /\ screen \in Reviews) \/ (Asked = "none" /\ Unread = {})
  BY DEF Asked, Unread

\* The same, of the next state.
LEMMA NothingAskedNext == ~(running' /\ screen' \in Reviews) => Asked' = "none" /\ Unread' = {}
  BY DEF Asked, Unread

\* A handler is a step outside a review, or the start of one.
LEMMA HandlerConfirms ==
    ASSUME BInv, IInv, NEW c \in Commands, Handle(c)
    PROVE  [Promise!Next]_(Promise!vars)
<1>1. CASE ReviewAddress(c) \/ ReviewTransaction(c)
    <2>1. /\ owed' = TRUE /\ answer' = answer /\ running' = running /\ seen' = {}
          /\ running /\ ~owed /\ screen \notin Reviews
        BY <1>1 DEF Handle, FlowInit, ReviewAddress, ReviewTransaction, Calls, Receive, IInv,
           AnswerOwedIffReview, ParsedChunk, LastChunk, StoresChunk, Chunk
    <2>2. Asked = "none" /\ Unread = {}
        BY <2>1, NothingAsked
    <2>3. CASE ReviewAddress(c)
        <3>1. Asked' = "address" /\ Unread' = {"address"}
            BY <2>1, <2>3 DEF ReviewAddress, Asked, Unread, Text, Reviews
        <3>2. Promise!Ask("address")
            BY <2>1, <2>2, <3>1 DEF Promise!Ask, Promise!LinesOf, Asked
        <3>3. QED
            BY <3>2 DEF Promise!Next
    <2>4. CASE ReviewTransaction(c)
        <3>1. Asked' = "transaction" /\ Unread' = {"amount", "address"}
            BY <2>1, <2>4 DEF ReviewTransaction, Asked, Unread, Text, Reviews
        <3>2. Promise!Ask("transaction")
            BY <2>1, <2>2, <3>1 DEF Promise!Ask, Promise!LinesOf, Asked
        <3>3. QED
            BY <3>2 DEF Promise!Next
    <2>5. QED
        BY <1>1, <2>3, <2>4
<1>2. CASE screen \notin Reviews /\ screen' = screen /\ owed' = FALSE
    <2>1. Asked = "none" /\ Unread = {} /\ Asked' = "none" /\ Unread' = {}
        BY <1>2, NothingAsked, NothingAskedNext
    <2>2. CASE answer' = answer
        BY <2>1, <2>2 DEF Promise!vars, Asked
    <2>3. CASE answer' # answer
        <3>1. answer'.body.kind # "signature"
            BY <2>3, DispatchSendsNoSignature DEF Handle, Answers
        <3>2. Promise!Elsewhere
            BY <2>1, <3>1 DEF Promise!Elsewhere, Asked
        <3>3. QED
            BY <3>2 DEF Promise!Next
    <2>4. QED
        BY <2>2, <2>3
<1>3. QED
    BY <1>1, <1>2, DispatchScreen DEF Handle

\* Going along a flow reads, or shows again what was read.
LEMMA ButtonsConfirm ==
    ASSUME BInv, Right \/ Left
    PROVE  [Promise!Next]_(Promise!vars)
<1>1. /\ UNCHANGED vars
      /\ seen \subseteq seen'
    BY DEF Right, Left, Shows
<1>2. Asked' = Asked /\ answer' = answer /\ Unread' \subseteq Unread
    BY <1>1 DEF vars, display, Asked, Unread, Text
<1>3. CASE Unread' = Unread
    BY <1>2, <1>3 DEF Promise!vars, Asked
<1>4. CASE Unread' # Unread
    <2>1. Asked # "none"
        BY <1>2, <1>4 DEF Unread, Asked, Reviews
    <2>2. Promise!Read
        BY <1>2, <1>4, <2>1 DEF Promise!Read, Asked
    <2>3. QED
        BY <2>2 DEF Promise!Next
<1>5. QED
    BY <1>3, <1>4

\* The steps that decide come after the lines, and end the review.
LEMMA DecisionConfirms ==
    ASSUME BInv, IInv, PressApprove \/ PressReject
    PROVE  [Promise!Next]_(Promise!vars)
<1>1. running /\ screen \in Reviews /\ screen' = "menu"
    BY DEF PressApprove, PressReject, ApproveAddress, ApproveTransaction,
           SigningFails, RejectAddress, RejectTransaction, Decides
<1>2. Asked = screen /\ Asked # "none" /\ Asked' = "none" /\ Unread' = {}
    BY <1>1, NothingAskedNext DEF Asked, Reviews
<1>3. Promise!Ended
    BY <1>2 DEF Promise!Ended, Asked
<1>4. CASE PressReject
    <2>1. answer' \in {Lost, Status("SW_DENY")}
        BY <1>4 DEF PressReject, RejectAddress, RejectTransaction, Respond
    <2>2. QED
        BY <1>3, <2>1, SameAnswers DEF Promise!Reject, Promise!Next
<1>5. CASE PressApprove
    <2>1. Unread = {}
        BY <1>1, <1>5, ApproveComesLast DEF PressApprove, Unread, Text, Reviews
    <2>2. \/ answer' \in {Lost, Status("SW_SIGNATURE_FAIL")}
          \/ screen = "address" /\ answer'.body.kind = "public_key"
          \/ screen = "transaction" /\ answer'.body.kind = "signature"
        <3>1. CASE ApproveAddress
            <4>1. screen = "address"
                BY <1>1, <3>1 DEF ApproveAddress, Decides, IInv, TransactionReviewCoherent, Reviews
            <4>2. answer' = Lost \/ answer' = Ok(PublicKey(G_context.raw_public_key))
                BY <3>1 DEF ApproveAddress, Respond
            <4>3. Ok(PublicKey(G_context.raw_public_key)).body.kind = "public_key"
                BY DEF Ok, PublicKey
            <4>4. QED
                BY <4>1, <4>2, <4>3
        <3>2. CASE ApproveTransaction
            <4>1. screen = "transaction"
                BY <1>1, <3>2 DEF ApproveTransaction, Decides, IInv, AddressReviewCoherent, Reviews
            <4>2. answer' = Lost \/ answer' = Ok(SignatureOf(G_context))
                BY <3>2 DEF ApproveTransaction, Respond
            <4>3. QED
                BY <4>1, <4>2 DEF Ok, SignatureOf, Sign
        <3>3. CASE SigningFails
            BY <3>3 DEF SigningFails, Respond
        <3>4. QED
            BY <1>5, <3>1, <3>2, <3>3 DEF PressApprove
    <2>3. Promise!Approve
        BY <1>2, <1>3, <2>1, <2>2, SameAnswers DEF Promise!Approve, Asked
    <2>4. QED
        BY <2>3 DEF Promise!Next
<1>6. QED
    BY <1>4, <1>5

\* What happens to the program outside its flows.
LEMMA OthersConfirm ==
    ASSUME BInv, IInv, PressMenu \/ Transport \/ Start
    PROVE  [Promise!Next]_(Promise!vars)
<1>1. CASE PressMenu
    <2>1. screen \notin Reviews /\ screen' \notin Reviews /\ answer' = answer
        BY <1>1 DEF PressMenu, About, Back, Quit, Reviews
    <2>2. Asked = "none" /\ Unread = {} /\ Asked' = "none" /\ Unread' = {}
        BY <2>1, NothingAsked, NothingAskedNext
    <2>3. QED
        BY <2>1, <2>2 DEF Promise!vars, Asked
<1>2. CASE Transport /\ BadLength
    <2>1. screen \notin Reviews /\ screen' = screen /\ answer'.body.kind # "signature"
        BY <1>2, PlainBodies DEF BadLength, Respond, IInv, AnswerOwedIffReview
    <2>2. Asked = "none" /\ Unread = {} /\ Asked' = "none" /\ Unread' = {}
        BY <2>1, NothingAsked, NothingAskedNext
    <2>3. Promise!Elsewhere
        BY <2>1, <2>2 DEF Promise!Elsewhere, Asked
    <2>4. QED
        BY <2>3 DEF Promise!Next
<1>3. CASE Transport /\ ReceiveFails
    <2>1. running' = FALSE /\ answer' = answer
        BY <1>3 DEF ReceiveFails
    <2>2. Asked' = "none" /\ Unread' = {}
        BY <2>1, NothingAskedNext
    <2>3. CASE Asked = "none"
        <3>1. Unread = {}
            BY <2>3, NothingAsked DEF Asked, Reviews
        <3>2. QED
            BY <2>1, <2>2, <2>3, <3>1 DEF Promise!vars, Asked
    <2>4. CASE Asked # "none"
        BY <2>1, <2>2, <2>4 DEF Promise!Abandon, Promise!Ended, Promise!Next, Asked
    <2>5. QED
        BY <2>3, <2>4
<1>4. CASE Start
    <2>1. running = FALSE /\ screen' = "menu" /\ answer' = Lost
        BY <1>4 DEF Start, Launch, IInv, TypeOK
    <2>2. Asked = "none" /\ Unread = {} /\ Asked' = "none" /\ Unread' = {}
        BY <2>1, NothingAsked, NothingAskedNext DEF Reviews
    <2>3. Promise!Elsewhere
        BY <2>1, <2>2, PlainBodies DEF Promise!Elsewhere, Asked
    <2>4. QED
        BY <2>3 DEF Promise!Next
<1>5. QED
    BY <1>1, <1>2, <1>3, <1>4 DEF Transport

\* The two-button screens keep the promise of Confirmation: a review is put to
\* the user, read, and ended by one decision that answers the command, and it
\* is approved only once it has been read (bagl_display.c:46-176).
THEOREM BaglConfirms == BSpec => ConfirmationSpec
<1>1. BInit => Promise!Init
    <2>1. ASSUME BInit PROVE Asked = "none" /\ Unread = {} /\ answer = Lost
        BY <2>1, NothingAsked DEF BInit, Init, Reviews
    <2>2. QED
        BY <2>1, SameAnswers DEF Promise!Init, Asked
<1>2. BInv /\ IInv /\ [BNext]_bvars => [Promise!Next]_(Promise!vars)
    <2> SUFFICES ASSUME BInv, IInv, [BNext]_bvars PROVE [Promise!Next]_(Promise!vars)
        OBVIOUS
    <2>1. CASE UNCHANGED bvars
        BY <2>1 DEF bvars, vars, display, Promise!vars, Unread, Text
    <2>2. CASE BNext
        BY <2>2, HandlerConfirms, ButtonsConfirm, DecisionConfirms, OthersConfirm DEF BNext
    <2>3. QED
        BY <2>1, <2>2
<1>3. QED
    BY <1>1, <1>2, StepsCoherent, BaglIsAnApp, ReviewsCoherent, PTL
       DEF BSpec, ConfirmationSpec, Promise!Spec
=============================================================================
