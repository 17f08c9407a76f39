--------------------------------- MODULE App ---------------------------------
(***************************************************************************)
(* The Boilerplate application: one thread that receives an APDU command,  *)
(* dispatches it to a handler, and either answers it at once or starts a   *)
(* review on the screen whose outcome answers it later, from a callback.   *)
(*                                                                         *)
(* One action per handler exit, user decision and transport event.  The    *)
(* session context G_context survives from one command to the next, as do  *)
(* the two display strings.  The host and the transport are external: the  *)
(* SDK delivers no command while one is still to be answered.              *)
(***************************************************************************)
EXTENDS Crypto

CONSTANTS
    Commands,              \* commands the host may send, [cla, ins, p1, p2, data]
    MAX_TRANSACTION_LEN,   \* size of raw_tx (constants.h:26)
    MAX_BIP32_PATH,        \* elements of bip32_path
    ELEMENT_LEN            \* bytes of a path element (4)

\* apdu_parser leaves data NULL when lc is 0: the empty sequence.
Command == [cla : Byte, ins : STRING, p1 : Byte, p2 : Byte, data : Seq(Byte)]

ASSUME AppAssumption ==
    /\ Commands \subseteq Command
    /\ MAX_TRANSACTION_LEN \in Nat
    /\ MAX_BIP32_PATH \in Nat
    /\ ELEMENT_LEN \in Nat \ {0}

VARIABLES
    running,     \* app_main has not returned
    screen,      \* the flow on display
    owed,        \* a command was received and its answer not yet sent
    answer,      \* the last response handed to the transport
    G_context,   \* globals.h: the context of the session
    g_amount,    \* what the amount line of the review says
    g_address,   \* what the address line of the review says
    g_validate_callback   \* what the approve and reject steps call

display == <<g_amount, g_address, g_validate_callback>>
vars == <<running, screen, owed, answer, G_context, display>>

-----------------------------------------------------------------------------
(***************************************************************************)
(* G_context (types.h:61-70).  pk_info and tx_info share memory; req_type  *)
(* says which of the two is in use, and UnionInUse below is why the model  *)
(* may keep them apart.  `transaction` and `signature` are filled right    *)
(* before each use, so they are Parsed(raw_tx) and the answer, not fields. *)
(***************************************************************************)
NoPath == [len |-> 0, elements |-> <<>>]

\* explicit_bzero(&G_context) and the request type that follows it.
FreshContext(req_type) ==
    [state |-> "STATE_NONE", req_type |-> req_type, bip32_path |-> NoPath,
     raw_public_key |-> Zero, raw_tx |-> <<>>, m_hash |-> Zero]

\* (variant: the element count is read as two bytes)
ReadPathWide(data) ==
    [len |-> 256 * data[1] + data[2], elements |-> SubSeq(data, 3, Len(data))]
\* The length byte, then buffer_read_bip32_path, which keeps the elements it
\* reads before it runs out of bytes.
ReadPath(data) ==
    LET given == (Len(data) - 1) \div ELEMENT_LEN
        read  == IF data[1] > MAX_BIP32_PATH THEN 0
                 ELSE IF given < data[1] THEN given ELSE data[1]
    IN  [len |-> data[1], elements |-> SubSeq(data, 2, 1 + read * ELEMENT_LEN)]

PathReads(data) ==
    /\ data[1] \in 1 .. MAX_BIP32_PATH
    /\ 1 + data[1] * ELEMENT_LEN =< Len(data)

\* (variant: the size of the chunk is forgotten)
FitsRawTxBefore(ctx, data) == Len(ctx.raw_tx) =< MAX_TRANSACTION_LEN
\* The chunk fits raw_tx after the chunks before it (sign_tx.c:54).
FitsRawTx(ctx, data) == Len(ctx.raw_tx) + Len(data) =< MAX_TRANSACTION_LEN

\* buffer_move and the new raw_tx_len: the chunk's index plays no part.
Stored(ctx, data) == [ctx EXCEPT !.raw_tx = @ \o data]

\* (variants: the digest misses the last chunk; a digest once made is kept)
HashedContextEarly(ctx) == [ctx EXCEPT !.m_hash = Keccak256(G_context.raw_tx)]
HashedContextOnce(ctx) ==
    [ctx EXCEPT !.m_hash = IF @ = Zero THEN Keccak256(ctx.raw_tx) ELSE @]
\* State after a whole transaction was parsed, and after its digest.
ParsedContext(ctx) == [ctx EXCEPT !.state = "STATE_PARSED"]
HashedContext(ctx) == [ctx EXCEPT !.m_hash = Keccak256(ctx.raw_tx)]

-----------------------------------------------------------------------------
(***************************************************************************)
(* Commands and answers.  A handler that answers returns what io_send_*    *)
(* returned: when the transport failed, app_main returns too.  A callback, *)
(* and the answer to a malformed APDU, ignore that result.                 *)
(***************************************************************************)
\* io_recv_command returns a well-formed command.
Receive(c) == running /\ ~owed /\ c \in Commands

\* (variant: app_main ignores what the dispatcher returns)
ReplyIgnored(a) ==
    /\ UNCHANGED <<owed, running>>
    /\ answer' \in {a, Lost}
Reply(a) ==
    /\ UNCHANGED owed
    /\ \/ answer' = a /\ UNCHANGED running
       \/ answer' = Lost /\ running' = FALSE

Respond(a) ==
    /\ owed' = FALSE
    /\ answer' \in {a, Lost}
    /\ UNCHANGED running

-----------------------------------------------------------------------------
(***************************************************************************)
(* apdu_dispatcher.                                                        *)
(***************************************************************************)
CLA == 224
P1_START == 0
P1_MAX == 3
P2_LAST == 0
P2_MORE == 128

\* The parameters each instruction refuses.
WrongP1P2(c) ==
    \/ c.ins \in {"GET_VERSION", "GET_APP_NAME"} /\ (c.p1 # 0 \/ c.p2 # 0)
    \/ c.ins = "GET_PUBLIC_KEY" /\ (c.p1 > 1 \/ c.p2 > 0)
    \/ /\ c.ins = "SIGN_TX"
       /\ \/ c.p1 = P1_START /\ c.p2 # P2_MORE
          \/ c.p1 > P1_MAX
          \/ c.p2 \notin {P2_LAST, P2_MORE}

\* The status word of a command no handler is called for, or "none".
Refusal(c) ==
    IF c.cla # CLA THEN "SW_CLA_NOT_SUPPORTED"
    ELSE IF c.ins \notin {"GET_VERSION", "GET_APP_NAME", "GET_PUBLIC_KEY", "SIGN_TX"}
    THEN "SW_INS_NOT_SUPPORTED"
    ELSE IF WrongP1P2(c) THEN "SW_WRONG_P1P2"
    ELSE IF c.ins \in {"GET_PUBLIC_KEY", "SIGN_TX"} /\ c.data = <<>>
    THEN "SW_WRONG_DATA_LENGTH"
    ELSE "none"

Refuse(c) ==
    /\ Receive(c)
    /\ Refusal(c) # "none"
    /\ Reply(Status(Refusal(c)))
    /\ UNCHANGED <<screen, G_context, display>>

\* The dispatcher calls the handler of instruction ins.
Calls(c, ins) == Receive(c) /\ Refusal(c) = "none" /\ c.ins = ins

GetVersion(c) ==
    /\ Calls(c, "GET_VERSION")
    /\ Reply(Ok(Body("version")))
    /\ UNCHANGED <<screen, G_context, display>>

GetAppName(c) ==
    /\ Calls(c, "GET_APP_NAME")
    /\ Reply(Ok(Body("app_name")))
    /\ UNCHANGED <<screen, G_context, display>>

-----------------------------------------------------------------------------
(***************************************************************************)
(* handler_get_public_key and ui_display_address.  Every call discards the *)
(* context of the session before, a signing session included.              *)
(***************************************************************************)
\* (variant: the context is not cleared first)
AddressContextKept(c) ==
    [G_context EXCEPT !.state = "STATE_NONE", !.req_type = "CONFIRM_ADDRESS",
                      !.bip32_path = ReadPath(c.data)]
\* What the handler leaves in G_context once the path has been read.
AddressContext(c) ==
    [FreshContext("CONFIRM_ADDRESS") EXCEPT !.bip32_path = ReadPath(c.data)]

\* (variant: the key is derived from the path of the request before)
KeyContextStale(c) ==
    [AddressContext(c) EXCEPT !.raw_public_key = Derive(G_context.bip32_path)]
KeyContext(c) ==
    LET ctx == AddressContext(c) IN [ctx EXCEPT !.raw_public_key = Derive(ctx.bip32_path)]

BadKeyPath(c) ==
    /\ Calls(c, "GET_PUBLIC_KEY")
    /\ ~PathReads(c.data)
    /\ G_context' = AddressContext(c)
    /\ Reply(Status("SW_WRONG_DATA_LENGTH"))
    /\ UNCHANGED <<screen, display>>

\* The error of the derivation is sent as the status word.
KeyDerivationFails(c) ==
    /\ Calls(c, "GET_PUBLIC_KEY")
    /\ PathReads(c.data)
    /\ G_context' = AddressContext(c)
    /\ Reply(Status("CX_ERROR"))
    /\ UNCHANGED <<screen, display>>

SendKey(c) ==
    /\ Calls(c, "GET_PUBLIC_KEY")
    /\ PathReads(c.data)
    /\ c.p1 = 0
    /\ G_context' = KeyContext(c)
    /\ Reply(Ok(PublicKey(KeyContext(c).raw_public_key)))
    /\ UNCHANGED <<screen, display>>

\* ui_display_address refuses a context that is not an address request.
AddressReady(ctx) == ctx.req_type = "CONFIRM_ADDRESS" /\ ctx.state = "STATE_NONE"

AddressDisplayFailures(ctx) ==
    IF AddressReady(ctx)
    THEN {"SW_DISPLAY_BIP32_PATH_FAIL", "SW_DISPLAY_ADDRESS_FAIL"}
    ELSE {"SW_BAD_STATE"}

\* State is reset on a refusal by the display functions, and only then.
AfterDisplayFailure(ctx, sw) ==
    IF sw = "SW_BAD_STATE" THEN [ctx EXCEPT !.state = "STATE_NONE"] ELSE ctx

AddressDisplayFails(c) ==
    /\ Calls(c, "GET_PUBLIC_KEY")
    /\ PathReads(c.data)
    /\ c.p1 = 1
    /\ \E sw \in AddressDisplayFailures(KeyContext(c)) :
          /\ G_context' = AfterDisplayFailure(KeyContext(c), sw)
          /\ g_address' = IF sw = "SW_DISPLAY_ADDRESS_FAIL" THEN Zero ELSE g_address
          /\ Reply(Status(sw))
    /\ UNCHANGED <<screen, g_amount, g_validate_callback>>

ReviewAddress(c) ==
    /\ Calls(c, "GET_PUBLIC_KEY")
    /\ PathReads(c.data)
    /\ c.p1 = 1
    /\ AddressReady(KeyContext(c))
    /\ G_context' = KeyContext(c)
    /\ g_address' = AddressOf(KeyContext(c).raw_public_key)
    /\ g_validate_callback' = "pubkey"
    /\ screen' = "address"
    /\ owed' = TRUE
    /\ UNCHANGED <<running, answer, g_amount>>

GetPublicKey(c) ==
    \/ BadKeyPath(c)
    \/ KeyDerivationFails(c)
    \/ SendKey(c)
    \/ AddressDisplayFails(c)
    \/ ReviewAddress(c)

-----------------------------------------------------------------------------
(***************************************************************************)
(* handler_sign_tx and ui_display_transaction.                             *)
(***************************************************************************)
\* (variant: the context is not cleared first)
StartContextKept(c) ==
    [G_context EXCEPT !.state = "STATE_NONE", !.req_type = "CONFIRM_TRANSACTION",
                      !.bip32_path = ReadPath(c.data)]
\* The first chunk: the path.  A path that cannot be read is reported, but
\* the session it opened stays.
StartContext(c) ==
    [FreshContext("CONFIRM_TRANSACTION") EXCEPT !.bip32_path = ReadPath(c.data)]

StartSigning(c) ==
    /\ Calls(c, "SIGN_TX")
    /\ c.p1 = P1_START
    /\ G_context' = StartContext(c)
    /\ Reply(Status(IF PathReads(c.data) THEN "SW_OK" ELSE "SW_WRONG_DATA_LENGTH"))
    /\ UNCHANGED <<screen, display>>

\* A piece of the transaction, for whatever session is open.
Chunk(c) == Calls(c, "SIGN_TX") /\ c.p1 # P1_START

InSession(ctx) == ctx.req_type = "CONFIRM_TRANSACTION"

NoSession(c) ==
    /\ Chunk(c)
    /\ ~InSession(G_context)
    /\ Reply(Status("SW_BAD_STATE"))
    /\ UNCHANGED <<screen, G_context, display>>

ChunkTooLong(c) ==
    /\ Chunk(c)
    /\ InSession(G_context)
    /\ ~FitsRawTx(G_context, c.data)
    /\ Reply(Status("SW_WRONG_TX_LENGTH"))
    /\ UNCHANGED <<screen, G_context, display>>

StoresChunk(c) ==
    /\ Chunk(c)
    /\ InSession(G_context)
    /\ FitsRawTx(G_context, c.data)

MoreToCome(c) ==
    /\ StoresChunk(c)
    /\ c.p2 = P2_MORE
    /\ G_context' = Stored(G_context, c.data)
    /\ Reply(Status("SW_OK"))
    /\ UNCHANGED <<screen, display>>

LastChunk(c) == StoresChunk(c) /\ c.p2 = P2_LAST

\* The whole buffer is parsed; one that does not parse keeps its bytes.
ParseFails(c) ==
    /\ LastChunk(c)
    /\ ~ParsedOK(Stored(G_context, c.data).raw_tx)
    /\ G_context' = Stored(G_context, c.data)
    /\ Reply(Status("SW_TX_PARSING_FAIL"))
    /\ UNCHANGED <<screen, display>>

ParsedChunk(c) == LastChunk(c) /\ ParsedOK(Stored(G_context, c.data).raw_tx)

HashFails(c) ==
    /\ ParsedChunk(c)
    /\ G_context' = ParsedContext(Stored(G_context, c.data))
    /\ Reply(Status("SW_TX_HASH_FAIL"))
    /\ UNCHANGED <<screen, display>>

\* What is reviewed: the context with the chunk, the state and the digest.
ReviewContext(c) == HashedContext(ParsedContext(Stored(G_context, c.data)))

\* ui_display_transaction refuses a context that holds no parsed transaction.
TransactionReady(ctx) ==
    ctx.req_type = "CONFIRM_TRANSACTION" /\ ctx.state = "STATE_PARSED"

TransactionDisplayFailures(ctx) ==
    IF TransactionReady(ctx) THEN {"SW_DISPLAY_AMOUNT_FAIL"} ELSE {"SW_BAD_STATE"}

TransactionDisplayFails(c) ==
    /\ ParsedChunk(c)
    /\ \E sw \in TransactionDisplayFailures(ReviewContext(c)) :
          /\ G_context' = AfterDisplayFailure(ReviewContext(c), sw)
          /\ g_amount' = IF sw = "SW_DISPLAY_AMOUNT_FAIL" THEN Zero ELSE g_amount
          /\ Reply(Status(sw))
    /\ UNCHANGED <<screen, g_address, g_validate_callback>>

ReviewTransaction(c) ==
    /\ ParsedChunk(c)
    /\ TransactionReady(ReviewContext(c))
    /\ G_context' = ReviewContext(c)
    /\ g_amount' = AmountOf(Parsed(ReviewContext(c).raw_tx).value)
    /\ g_address' = AddressTo(Parsed(ReviewContext(c).raw_tx).to)
    /\ g_validate_callback' = "transaction"
    /\ screen' = "transaction"
    /\ owed' = TRUE
    /\ UNCHANGED <<running, answer>>

SignTx(c) ==
    \/ StartSigning(c)
    \/ NoSession(c)
    \/ ChunkTooLong(c)
    \/ MoreToCome(c)
    \/ ParseFails(c)
    \/ HashFails(c)
    \/ TransactionDisplayFails(c)
    \/ ReviewTransaction(c)

Dispatch(c) ==
    \/ Refuse(c)
    \/ GetVersion(c)
    \/ GetAppName(c)
    \/ GetPublicKey(c)
    \/ SignTx(c)

-----------------------------------------------------------------------------
(***************************************************************************)
(* The user decides.  Approve and reject are steps of the flow on display; *)
(* they call g_validate_callback, answer, and go back to the main menu.    *)
(***************************************************************************)
Reviews == {"address", "transaction"}

\* (variant: the callback does not go back to the menu)
DecidesAndStays(callback) ==
    /\ running
    /\ screen \in Reviews
    /\ g_validate_callback = callback
    /\ UNCHANGED <<screen, display>>
\* The approve or reject step of a flow is pressed, and the callback set by
\* the last ui_display_* is the one that runs.
Decides(callback) ==
    /\ running
    /\ screen \in Reviews
    /\ g_validate_callback = callback
    /\ screen' = "menu"
    /\ UNCHANGED display

ApproveAddress ==
    /\ Decides("pubkey")
    /\ Respond(Ok(PublicKey(G_context.raw_public_key)))
    /\ UNCHANGED G_context

RejectAddress ==
    /\ Decides("pubkey")
    /\ Respond(Status("SW_DENY"))
    /\ UNCHANGED G_context

\* crypto_sign_message signs the digest kept in the context with the path
\* kept in the context.
SignatureOf(ctx) == Sign(ctx.bip32_path, ctx.m_hash)

ApproveTransaction ==
    /\ Decides("transaction")
    /\ G_context' = [G_context EXCEPT !.state = "STATE_APPROVED"]
    /\ Respond(Ok(SignatureOf(G_context)))

SigningFails ==
    /\ Decides("transaction")
    /\ G_context' = [G_context EXCEPT !.state = "STATE_NONE"]
    /\ Respond(Status("SW_SIGNATURE_FAIL"))

\* (variant: a rejection also ends the session)
RejectAndClose ==
    /\ Decides("transaction")
    /\ G_context' = [G_context EXCEPT !.req_type = "CONFIRM_ADDRESS"]
    /\ Respond(Status("SW_DENY"))
RejectTransaction ==
    /\ Decides("transaction")
    /\ G_context' = [G_context EXCEPT !.state = "STATE_NONE"]
    /\ Respond(Status("SW_DENY"))

Decide ==
    \/ ApproveAddress
    \/ RejectAddress
    \/ ApproveTransaction
    \/ SigningFails
    \/ RejectTransaction

-----------------------------------------------------------------------------
(***************************************************************************)
(* The menu, the main loop and the transport.                              *)
(***************************************************************************)
About ==
    /\ running /\ screen = "menu"
    /\ screen' = "about"
    /\ UNCHANGED <<running, owed, answer, G_context, display>>

Back ==
    /\ running /\ screen = "about"
    /\ screen' = "menu"
    /\ UNCHANGED <<running, owed, answer, G_context, display>>

Quit ==
    /\ running /\ screen = "menu"
    /\ running' = FALSE
    /\ UNCHANGED <<screen, owed, answer, G_context, display>>

\* apdu_parser refuses what was received; the answer's fate is ignored.
BadLength ==
    /\ running /\ ~owed
    /\ Respond(Status("SW_WRONG_DATA_LENGTH"))
    /\ UNCHANGED <<screen, G_context, display>>

\* io_recv_command fails, with a review on display or not: app_main returns.
ReceiveFails ==
    /\ running
    /\ running' = FALSE
    /\ UNCHANGED <<screen, owed, answer, G_context, display>>

\* The application is started again: memory is zero, the main menu is shown
\* and the context is reset.
Launch ==
    /\ ~running
    /\ running' = TRUE
    /\ screen' = "menu"
    /\ owed' = FALSE
    /\ answer' = Lost
    /\ G_context' = FreshContext("CONFIRM_ADDRESS")
    /\ g_amount' = Zero
    /\ g_address' = Zero
    /\ g_validate_callback' = "none"

Init ==
    /\ running = TRUE
    /\ screen = "menu"
    /\ owed = FALSE
    /\ answer = Lost
    /\ G_context = FreshContext("CONFIRM_ADDRESS")
    /\ g_amount = Zero
    /\ g_address = Zero
    /\ g_validate_callback = "none"

Menu == About \/ Back \/ Quit

Next ==
    \/ \E c \in Commands : Dispatch(c)
    \/ Decide
    \/ Menu
    \/ BadLength
    \/ ReceiveFails
    \/ Launch

Spec == Init /\ [][Next]_vars

-----------------------------------------------------------------------------
Path == [len : Byte, elements : Seq(Byte)]
Digest == Seq(Seq(Byte))

Context ==
    [state : {"STATE_NONE", "STATE_PARSED", "STATE_APPROVED"},
     req_type : {"CONFIRM_ADDRESS", "CONFIRM_TRANSACTION"},
     bip32_path : Path,
     raw_public_key : Seq(Path),
     raw_tx : Seq(Byte),
     m_hash : Digest]

\* Every variable holds a value of its C type, and raw_tx stays in its array.
TypeOK ==
    /\ running \in BOOLEAN
    /\ owed \in BOOLEAN
    /\ screen \in {"menu", "about"} \union Reviews
    /\ G_context \in Context
    /\ Len(G_context.raw_tx) =< MAX_TRANSACTION_LEN
    /\ g_validate_callback \in {"none", "pubkey", "transaction"}

\* An answer is owed exactly while a review is on display: no command is left
\* without the answer its sender waits for, and no decision can answer a
\* command twice (app_main.c:49-77 with the callbacks of validate.c).
AnswerOwedIffReview == running => (owed <=> screen \in Reviews)

\* While an address is reviewed, the line on display, the key kept for the
\* answer and the path all belong to the same request, and the buttons
\* answer that request (get_public_key.c:36-58, bagl_display.c:95-119).
AddressReviewCoherent ==
    (running /\ screen = "address") =>
        /\ AddressReady(G_context)
        /\ G_context.raw_public_key = Derive(G_context.bip32_path)
        /\ g_address = AddressOf(G_context.raw_public_key)
        /\ g_validate_callback = "pubkey"

\* While a transaction is reviewed, the buffer parses, the digest that would
\* be signed is the digest of that very buffer, the amount and the address on
\* display are the buffer's, and the buttons decide this transaction: the
\* four copies made by sign_tx.c:76-101 and bagl_display.c:157-171 agree
\* until the user decides.
TransactionReviewCoherent ==
    (running /\ screen = "transaction") =>
        /\ TransactionReady(G_context)
        /\ ParsedOK(G_context.raw_tx)
        /\ G_context.m_hash = Keccak256(G_context.raw_tx)
        /\ g_amount = AmountOf(Parsed(G_context.raw_tx).value)
        /\ g_address = AddressTo(Parsed(G_context.raw_tx).to)
        /\ g_validate_callback = "transaction"

\* The two members of the union in global_ctx_t are never both in use: an
\* address request has no transaction bytes, a transaction request no key
\* (types.h:63-66, sign_tx.c:51).
UnionInUse ==
    /\ InSession(G_context) => G_context.raw_public_key = Zero
    /\ ~InSession(G_context) =>
          /\ G_context.raw_tx = <<>>
          /\ G_context.m_hash = Zero

\* A step that hands a response to the transport.
Answers == answer' # answer \/ (owed /\ ~owed')

SignatureStep ==
    (Answers /\ answer'.body.kind = "signature") =>
        LET raw == answer'.body.of[1]
        IN  /\ screen = "transaction"
            /\ raw = G_context.raw_tx
            /\ ParsedOK(raw)
            /\ g_amount = AmountOf(Parsed(raw).value)
            /\ g_address = AddressTo(Parsed(raw).to)
            /\ answer'.body.key = Derive(G_context.bip32_path)

KeyStep ==
    (Answers /\ answer'.body.kind = "public_key") =>
        IF owed
        THEN screen = "address" /\ g_address = AddressOf(answer'.body.key)
        ELSE answer'.body.key = Derive(G_context'.bip32_path)

\* No signature leaves the device unless, in the step that sends it, a
\* transaction is on display, the signed bytes are all the bytes of the session
\* (the memo, never displayed, included), they parse, and the amount and the
\* address on display are theirs (sign_tx.c:82-101, bagl_display.c:151-171,
\* validate.c:62-70).
SignatureMatchesReview == [][SignatureStep]_vars

\* A public key sent by a decision of the user is the key whose address is on
\* display, and a key sent without a review is the one of the path asked for
\* (get_public_key.c:57-61, validate.c:28-34).
KeyMatchesReview == [][KeyStep]_vars

-----------------------------------------------------------------------------
(***************************************************************************)
(* A statement of the repository that the code does not keep.              *)
(***************************************************************************)
\* handler/sign_tx.h:9-10: a transaction is signed "if successfully parse
\* BIP32 path and transaction".
ReviewHasPath ==
    (running /\ screen = "transaction") =>
        /\ G_context.bip32_path.len \in 1 .. MAX_BIP32_PATH
        /\ Len(G_context.bip32_path.elements) = ELEMENT_LEN * G_context.bip32_path.len
=============================================================================
