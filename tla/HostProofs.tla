------------------------------ MODULE HostProofs ------------------------------
(***************************************************************************)
(* Theorems about HostView: what the host can conclude from its own        *)
(* commands and the answers, for every set of commands, every size and     *)
(* every bound on what it sends.                                           *)
(***************************************************************************)
EXTENDS HostView, AppProofs

\* The host watches the application and does not disturb it.
LEMMA HostWatches == HSpec => Spec
<1>1. HInit => Init
    BY DEF HInit
<1>2. [HNext]_hvars => [Next]_vars
    BY DEF HNext, hvars, Exchange, DeviceAlone, Next
<1>3. QED
    BY <1>1, <1>2, PTL DEF HSpec, Spec

\* Without a session on the device, the host has none either, unless the
\* application was started again.
NoSessionIsFresh ==
    (running /\ host.open /\ ~InSession(G_context)) =>
        G_context = FreshContext("CONFIRM_ADDRESS")

HInv ==
    /\ HostTypeOK
    /\ BufferIsWhatHostSent
    /\ NoSessionIsFresh

-----------------------------------------------------------------------------
(***************************************************************************)
(* What the host makes of an exchange.                                     *)
(***************************************************************************)
\* The account stays well-formed.
LEMMA AccountType ==
    ASSUME HostTypeOK, NEW c \in Commands, Exchange(c)
    PROVE  HostTypeOK'
<1>1. host' \in {host, NoHostSession, [open |-> TRUE, path |-> ReadPath(c.data), sent |-> <<>>],
                 [host EXCEPT !.sent = @ \o c.data]}
    BY DEF Exchange, AfterCommand
<1>2. CASE host' = host
    BY <1>2 DEF HostTypeOK
<1>3. CASE host' = NoHostSession
    BY <1>3 DEF HostTypeOK, NoHostSession, NoPath, Path, Byte
<1>4. CASE host' = [open |-> TRUE, path |-> ReadPath(c.data), sent |-> <<>>] /\ host' # host
    <2>1. Refusal(c) = "none" /\ c.ins \in {"GET_PUBLIC_KEY", "SIGN_TX"}
        BY <1>4 DEF Exchange, AfterCommand, Refusal
    <2>2. ReadPath(c.data) \in Path
        BY <2>1, CommandData, ReadPathType
    <2>3. QED
        BY <1>4, <2>2 DEF HostTypeOK
<1>5. CASE host' = [host EXCEPT !.sent = @ \o c.data]
    <2>1. c.data \in Seq(Byte) /\ host.sent \in Seq(Byte)
        BY AppAssumption DEF Command, HostTypeOK
    <2>2. host.sent \o c.data \in Seq(Byte)
        BY <2>1, ConcatProperties
    <2>3. QED
        BY <1>5, <2>2 DEF HostTypeOK
<1>6. QED
    BY <1>1, <1>2, <1>3, <1>4, <1>5

\* The status words are different values.
LEMMA StatusWords ==
    ASSUME NEW sw
    PROVE  Status(sw).sw = sw
  BY DEF Status

\* A chunk that is stored is counted by the host, unless its answer is lost,
\* and then the device's session is over.
LEMMA StoredIsCounted ==
    ASSUME IInv, NEW c \in Commands, Exchange(c), running',
           MoreToCome(c) \/ ParseFails(c) \/ HashFails(c)
           \/ TransactionDisplayFails(c) \/ ReviewTransaction(c)
    PROVE  host' = [host EXCEPT !.sent = @ \o c.data]
<1>1. StoresChunk(c)
    BY DEF MoreToCome, ParseFails, HashFails, TransactionDisplayFails,
           ReviewTransaction, ParsedChunk, LastChunk
<1>2. Refusal(c) = "none" /\ c.ins = "SIGN_TX" /\ c.p1 # P1_START
    BY <1>1 DEF StoresChunk, Chunk, Calls
<1>3. owed' \/ answer'.sw \notin {"SW_BAD_STATE", "SW_WRONG_TX_LENGTH"}
    <2>1. CASE MoreToCome(c) \/ ParseFails(c) \/ HashFails(c)
        <3>1. \E sw \in {"SW_OK", "SW_TX_PARSING_FAIL", "SW_TX_HASH_FAIL"} : answer' = Status(sw)
            BY <2>1 DEF MoreToCome, ParseFails, HashFails, Reply
        <3>2. QED
            BY <3>1, StatusWords
    <2>2. CASE TransactionDisplayFails(c)
        <3>1. G_context \in Context /\ OneMember(G_context)
            BY DEF IInv, TypeOK, UnionInUse, OneMember
        <3>2. TransactionReady(ReviewContext(c))
            BY <1>1, <3>1, ChunkContextFields
        <3>3. \E sw \in TransactionDisplayFailures(ReviewContext(c)) : Reply(Status(sw))
            BY <2>2 DEF TransactionDisplayFails
        <3>4. answer' = Status("SW_DISPLAY_AMOUNT_FAIL")
            BY <3>2, <3>3 DEF TransactionDisplayFailures, Reply
        <3>5. QED
            BY <3>4, StatusWords
    <2>3. CASE ReviewTransaction(c)
        BY <2>3 DEF ReviewTransaction
    <2>4. QED
        BY <2>1, <2>2, <2>3
<1>4. QED
    BY <1>2, <1>3 DEF Exchange, AfterCommand

\* The two accounts agree after every exchange.
LEMMA ExchangeKeeps ==
    ASSUME IInv, HInv, NEW c \in Commands, Exchange(c)
    PROVE  HInv'
<1>1. HostTypeOK'
    BY AccountType DEF HInv
<1>2. ASSUME running' PROVE BufferIsWhatHostSent' /\ NoSessionIsFresh'
    <2>1. Dispatch(c) /\ host' = AfterCommand(c) /\ running
        BY DispatchReceives DEF Exchange
    <2>2. CASE Refuse(c) \/ GetVersion(c) \/ GetAppName(c)
        <3>1. G_context' = G_context /\ host' = host
            BY <2>1, <2>2 DEF Refuse, GetVersion, GetAppName, Calls, AfterCommand
        <3>2. QED
            BY <2>1, <3>1 DEF HInv, BufferIsWhatHostSent, NoSessionIsFresh
    <2>3. CASE GetPublicKey(c)
        <3>1. ~InSession(G_context')
            BY <2>3, KeyRequestCloses
        <3>2. host' = NoHostSession
            BY <2>1, <2>3 DEF GetPublicKey, BadKeyPath, KeyDerivationFails, SendKey,
               AddressDisplayFails, ReviewAddress, Calls, AfterCommand
        <3>3. QED
            BY <3>1, <3>2 DEF BufferIsWhatHostSent, NoSessionIsFresh, NoHostSession
    <2>4. CASE StartSigning(c)
        <3>1. /\ InSession(G_context') /\ G_context'.raw_tx = <<>>
              /\ G_context'.bip32_path = ReadPath(c.data)
            BY <2>4, StartOpens
        <3>2. host' = [open |-> TRUE, path |-> ReadPath(c.data), sent |-> <<>>]
            BY <2>1, <2>4 DEF StartSigning, Calls, AfterCommand
        <3>3. QED
            BY <3>1, <3>2 DEF BufferIsWhatHostSent, NoSessionIsFresh
    <2>5. CASE NoSession(c)
        <3>1. /\ G_context' = G_context /\ ~InSession(G_context)
              /\ c.ins = "SIGN_TX" /\ c.p1 # P1_START /\ Refusal(c) = "none"
              /\ owed' = owed /\ ~owed
            BY <2>5 DEF NoSession, Chunk, Calls, Receive, Reply
        <3>2. answer'.sw = "SW_BAD_STATE"
            BY <1>2, <2>1, <2>5, StatusWords DEF NoSession, Reply
        <3>3. host' = NoHostSession
            BY <2>1, <3>1, <3>2 DEF AfterCommand
        <3>4. QED
            BY <3>1, <3>3 DEF BufferIsWhatHostSent, NoSessionIsFresh, NoHostSession
    <2>6. CASE ChunkTooLong(c)
        <3>1. /\ G_context' = G_context
              /\ c.ins = "SIGN_TX" /\ c.p1 # P1_START /\ Refusal(c) = "none"
              /\ owed' = owed /\ ~owed
            BY <2>6 DEF ChunkTooLong, Chunk, Calls, Receive, Reply
        <3>2. answer'.sw = "SW_WRONG_TX_LENGTH"
            BY <1>2, <2>1, <2>6, StatusWords DEF ChunkTooLong, Reply
        <3>3. host' = host
            BY <2>1, <3>1, <3>2 DEF AfterCommand
        <3>4. QED
            BY <2>1, <3>1, <3>3 DEF HInv, BufferIsWhatHostSent, NoSessionIsFresh
    <2>7. CASE MoreToCome(c) \/ ParseFails(c) \/ HashFails(c)
               \/ TransactionDisplayFails(c) \/ ReviewTransaction(c)
        <3>1. /\ InSession(G_context) /\ InSession(G_context')
              /\ G_context'.bip32_path = G_context.bip32_path
              /\ G_context'.raw_tx = Stored(G_context, c.data).raw_tx
            BY <2>7, ChunkGrows
        <3>2. host' = [host EXCEPT !.sent = @ \o c.data]
            BY <1>2, <2>7, StoredIsCounted
        <3>3. Stored(G_context, c.data).raw_tx = G_context.raw_tx \o c.data
            BY DEF Stored, IInv, TypeOK, Context
        <3>4. host.open /\ G_context.bip32_path = host.path /\ G_context.raw_tx = host.sent
            BY <2>1, <3>1 DEF HInv, BufferIsWhatHostSent
        <3>5. /\ host'.open = host.open /\ host'.path = host.path
              /\ host'.sent = host.sent \o c.data
            BY <3>2 DEF HInv, HostTypeOK
        <3>6. QED
            BY <3>1, <3>3, <3>4, <3>5 DEF BufferIsWhatHostSent, NoSessionIsFresh
    <2>8. QED
        BY <2>1, <2>2, <2>3, <2>4, <2>5, <2>6, <2>7 DEF Dispatch, SignTx
<1>3. ASSUME ~running' PROVE BufferIsWhatHostSent' /\ NoSessionIsFresh'
    BY <1>3 DEF BufferIsWhatHostSent, NoSessionIsFresh
<1>4. QED
    BY <1>1, <1>2, <1>3 DEF HInv

\* What the device does alone leaves the session it has, or none.
LEMMA AloneKeeps ==
    ASSUME IInv, HInv, DeviceAlone, UNCHANGED host
    PROVE  HInv'
<1>1. CASE Decide
    <2>1. /\ running /\ screen \in Reviews
          /\ \/ G_context' = G_context
             \/ /\ \E st : G_context' = [G_context EXCEPT !.state = st]
                /\ g_validate_callback = "transaction"
        BY <1>1 DEF Decide, ApproveAddress, RejectAddress, ApproveTransaction,
                    SigningFails, RejectTransaction, Decides
    <2>2. CASE G_context' = G_context
        BY <2>1, <2>2 DEF HInv, HostTypeOK, BufferIsWhatHostSent, NoSessionIsFresh
    <2>3. CASE G_context' # G_context
        <3>1. screen = "transaction"
            BY <2>1, <2>3 DEF IInv, AddressReviewCoherent, Reviews
        <3>2. InSession(G_context) /\ G_context \in Context
            BY <2>1, <3>1 DEF IInv, TypeOK, TransactionReviewCoherent, TransactionReady, InSession
        <3>3. /\ InSession(G_context')
              /\ G_context'.bip32_path = G_context.bip32_path
              /\ G_context'.raw_tx = G_context.raw_tx
            BY <2>1, <2>3, <3>2 DEF Context, InSession
        <3>4. QED
            BY <2>1, <3>2, <3>3 DEF HInv, HostTypeOK, BufferIsWhatHostSent, NoSessionIsFresh
    <2>4. QED
        BY <2>2, <2>3
<1>2. CASE Menu \/ BadLength \/ ReceiveFails
    BY <1>2 DEF Menu, About, Back, Quit, BadLength, ReceiveFails, Respond,
       HInv, HostTypeOK, BufferIsWhatHostSent, NoSessionIsFresh
<1>3. CASE Launch
    <2>1. ~InSession(G_context') /\ G_context' = FreshContext("CONFIRM_ADDRESS")
        BY <1>3 DEF Launch, InSession, FreshContext
    <2>2. QED
        BY <2>1 DEF HInv, HostTypeOK, BufferIsWhatHostSent, NoSessionIsFresh
<1>4. QED
    BY <1>1, <1>2, <1>3 DEF DeviceAlone

-----------------------------------------------------------------------------
\* The host's account of its session is right whenever the device has one, and
\* a device without one was started again or was told so: HInv, along every
\* behaviour.
THEOREM AccountsAgree == HSpec => []HInv
<1>1. HInit => HInv
    <2> SUFFICES ASSUME HInit PROVE HInv
        OBVIOUS
    <2>1. ~InSession(G_context) /\ host = NoHostSession
        BY DEF HInit, Init, InSession, FreshContext
    <2>2. QED
        BY <2>1 DEF HInv, HostTypeOK, BufferIsWhatHostSent, NoSessionIsFresh,
                    NoHostSession, NoPath, Path, Byte
<1>2. IInv /\ HInv /\ [HNext]_hvars => HInv'
    <2> SUFFICES ASSUME IInv, HInv, [HNext]_hvars PROVE HInv'
        OBVIOUS
    <2>1. CASE UNCHANGED hvars
        BY <2>1 DEF hvars, vars, HInv, HostTypeOK, BufferIsWhatHostSent, NoSessionIsFresh
    <2>2. QED
        BY <2>1, ExchangeKeeps, AloneKeeps DEF HNext
<1>3. QED
    BY <1>1, <1>2, HostWatches, ReviewsCoherent, PTL DEF HSpec

\* The account is always well-formed.
THEOREM HostTypeCorrect == HSpec => []HostTypeOK
<1>1. HInv => HostTypeOK
    BY DEF HInv
<1>2. QED
    BY <1>1, AccountsAgree, PTL

\* The buffer of an open session is what the host has sent for it.
THEOREM BufferCorrect == HSpec => []BufferIsWhatHostSent
<1>1. HInv => BufferIsWhatHostSent
    BY DEF HInv
<1>2. QED
    BY <1>1, AccountsAgree, PTL

\* The signature is over what the host has sent.
THEOREM HostSignatureCorrect == HSpec => SignatureIsWhatHostSent
<1> DEFINE Step == (Answers /\ answer'.body.kind = "signature") =>
                      answer'.body = Sign(host.path, Keccak256(host.sent))
<1>1. IInv /\ HInv /\ [HNext]_hvars => [Step]_hvars
    <2> SUFFICES ASSUME IInv, HInv, HNext, Answers, answer'.body.kind = "signature"
                 PROVE  answer'.body = Sign(host.path, Keccak256(host.sent))
        OBVIOUS
    <2>1. ~(\E c \in Commands : Dispatch(c))
        BY DispatchSendsNoSignature
    <2>2. CASE ApproveTransaction
        <3>1. /\ running /\ screen \in Reviews /\ g_validate_callback = "transaction"
              /\ answer' \in {Ok(SignatureOf(G_context)), Lost}
            BY <2>2 DEF ApproveTransaction, Decides, Respond
        <3>2. screen = "transaction"
            BY <3>1 DEF IInv, AddressReviewCoherent, Reviews
        <3>3. answer'.body = SignatureOf(G_context)
            BY <3>1 DEF Lost, Status, Body, Ok
        <3>4. InSession(G_context) /\ G_context.m_hash = Keccak256(G_context.raw_tx)
            BY <3>1, <3>2 DEF IInv, TransactionReviewCoherent, TransactionReady, InSession
        <3>5. G_context.bip32_path = host.path /\ G_context.raw_tx = host.sent
            BY <3>1, <3>4 DEF HInv, BufferIsWhatHostSent
        <3>6. QED
            BY <3>3, <3>4, <3>5 DEF SignatureOf
    <2>3. CASE ApproveAddress \/ RejectAddress \/ SigningFails \/ RejectTransaction \/ BadLength
        BY <2>3, PlainBodies DEF ApproveAddress, RejectAddress, SigningFails,
                                 RejectTransaction, BadLength, Respond
    <2>4. CASE Menu \/ ReceiveFails
        BY <2>4 DEF Menu, About, Back, Quit, ReceiveFails, Answers
    <2>5. CASE Launch
        BY <2>5 DEF Launch, Lost, Status, Body
    <2>6. QED
        BY <2>1, <2>2, <2>3, <2>4, <2>5 DEF HNext, Exchange, DeviceAlone, Decide
<1>2. QED
    BY <1>1, HostWatches, ReviewsCoherent, AccountsAgree, PTL DEF HSpec, SignatureIsWhatHostSent

\* The only command refused for lack of a session is a chunk without one.
LEMMA BadStateIsNoSession ==
    ASSUME IInv, NEW c \in Commands, Dispatch(c),
           answer' # answer, answer'.sw = "SW_BAD_STATE"
    PROVE  running /\ ~InSession(G_context)
<1>1. CASE Refuse(c)
    <2>1. answer' \in {Status(Refusal(c)), Lost}
        BY <1>1 DEF Refuse, Reply
    <2>2. Refusal(c) # "SW_BAD_STATE"
        BY DEF Refusal
    <2>3. QED
        BY <2>1, <2>2, StatusWords DEF Lost
<1>2. CASE GetVersion(c) \/ GetAppName(c)
    <2>1. answer' = Lost \/ \E kind : answer' = Ok(Body(kind))
        BY <1>2 DEF GetVersion, GetAppName, Reply
    <2>2. QED
        BY <2>1, StatusWords DEF Lost, Ok
<1>3. CASE GetPublicKey(c)
    <2>1. Refusal(c) = "none" /\ c.ins = "GET_PUBLIC_KEY"
        BY <1>3 DEF GetPublicKey, BadKeyPath, KeyDerivationFails, SendKey,
           AddressDisplayFails, ReviewAddress, Calls
    <2>2. AddressReady(KeyContext(c))
        BY <2>1, PathContextFields
    <2>3. \/ answer' \in {answer, Lost, Ok(PublicKey(KeyContext(c).raw_public_key))}
          \/ \E sw \in {"SW_WRONG_DATA_LENGTH", "CX_ERROR", "SW_DISPLAY_BIP32_PATH_FAIL",
                        "SW_DISPLAY_ADDRESS_FAIL"} : answer' = Status(sw)
        BY <1>3, <2>2 DEF GetPublicKey, BadKeyPath, KeyDerivationFails, SendKey,
           AddressDisplayFails, AddressDisplayFailures, ReviewAddress, Reply
    <2>4. QED
        BY <2>3, StatusWords DEF Lost, Ok
<1>4. CASE NoSession(c)
    BY <1>4 DEF NoSession, Chunk, Calls, Receive
<1>5. CASE StartSigning(c) \/ ChunkTooLong(c) \/ MoreToCome(c) \/ ParseFails(c) \/ HashFails(c)
    <2>1. \/ answer' = Lost
          \/ \E sw \in {"SW_OK", "SW_WRONG_DATA_LENGTH", "SW_WRONG_TX_LENGTH",
                        "SW_TX_PARSING_FAIL", "SW_TX_HASH_FAIL"} : answer' = Status(sw)
        BY <1>5 DEF StartSigning, ChunkTooLong, MoreToCome, ParseFails, HashFails, Reply
    <2>2. QED
        BY <2>1, StatusWords DEF Lost
<1>6. CASE TransactionDisplayFails(c) \/ ReviewTransaction(c)
    <2>1. StoresChunk(c) /\ G_context \in Context /\ OneMember(G_context)
        BY <1>6 DEF TransactionDisplayFails, ReviewTransaction, ParsedChunk, LastChunk,
                    IInv, TypeOK, UnionInUse, OneMember
    <2>2. TransactionReady(ReviewContext(c))
        BY <2>1, ChunkContextFields
    <2>3. answer' \in {answer, Lost, Status("SW_DISPLAY_AMOUNT_FAIL")}
        BY <1>6, <2>2 DEF TransactionDisplayFails, TransactionDisplayFailures,
                          ReviewTransaction, Reply
    <2>4. QED
        BY <2>3, StatusWords DEF Lost
<1>7. QED
    BY <1>1, <1>2, <1>3, <1>4, <1>5, <1>6 DEF Dispatch, SignTx

\* A chunk is refused for lack of a session only when the host has none, or
\* the application was started again.
THEOREM BadStateCorrect == HSpec => BadStateIsDeserved
<1> DEFINE Deserved == ~host.open \/ G_context = FreshContext("CONFIRM_ADDRESS")
           Step == (answer' # answer /\ answer'.sw = "SW_BAD_STATE") => Deserved
<1>1. IInv /\ HInv /\ [HNext]_hvars => [Step]_hvars
    <2> SUFFICES ASSUME IInv, HInv, HNext, answer' # answer, answer'.sw = "SW_BAD_STATE"
                 PROVE  Deserved
        OBVIOUS
    <2>1. ASSUME NEW c \in Commands, Dispatch(c) PROVE Deserved
        <3>1. running /\ ~InSession(G_context)
            BY <2>1, BadStateIsNoSession
        <3>2. QED
            BY <3>1 DEF HInv, NoSessionIsFresh
    <2>2. CASE DeviceAlone
        <3>1. \/ answer' \in {answer, Lost}
              \/ \E body : answer' = Ok(body)
              \/ \E sw \in {"SW_DENY", "SW_SIGNATURE_FAIL", "SW_WRONG_DATA_LENGTH"} :
                    answer' = Status(sw)
            BY <2>2 DEF DeviceAlone, Decide, ApproveAddress, RejectAddress, ApproveTransaction,
               SigningFails, RejectTransaction, Menu, About, Back, Quit, BadLength,
               ReceiveFails, Launch, Respond
        <3>2. QED
            BY <3>1, StatusWords DEF Lost, Ok
    <2>3. QED
        BY <2>1, <2>2 DEF HNext, Exchange
<1>2. QED
    BY <1>1, HostWatches, ReviewsCoherent, AccountsAgree, PTL DEF HSpec, BadStateIsDeserved
=============================================================================
