------------------------------ MODULE AppProofs ------------------------------
(***************************************************************************)
(* Theorems about App, for every set of commands and every size; the last  *)
(* one is that App implements SigningDevice.                               *)
(***************************************************************************)
EXTENDS AppRefinement, SequenceTheorems, TLAPS

-----------------------------------------------------------------------------
(***************************************************************************)
(* What the operators on commands and contexts return.                     *)
(***************************************************************************)
\* A byte is a natural number.
LEMMA ByteIsNatural == \A b \in Byte : b \in Nat
  BY DEF Byte

\* A command a session handler is called for carries at least one byte.
LEMMA CommandData ==
    ASSUME NEW c \in Commands, Refusal(c) = "none",
           c.ins \in {"GET_PUBLIC_KEY", "SIGN_TX"}
    PROVE  c.data \in Seq(Byte) /\ c.data # <<>> /\ c.data[1] \in Byte
<1>1. c.data \in Seq(Byte)
    BY AppAssumption DEF Command
<1>2. c.data # <<>>
    BY DEF Refusal
<1>3. QED
    BY <1>1, <1>2

\* Reading a path keeps the announced length and some of the bytes.
LEMMA ReadPathType ==
    ASSUME NEW data \in Seq(Byte), data # <<>>, data[1] \in Byte
    PROVE  ReadPath(data) \in Path
<1> DEFINE given == (Len(data) - 1) \div ELEMENT_LEN
<1> DEFINE read == IF data[1] > MAX_BIP32_PATH THEN 0
                   ELSE IF given < data[1] THEN given ELSE data[1]
<1>1. Len(data) - 1 \in Nat /\ ELEMENT_LEN \in Nat \ {0} /\ MAX_BIP32_PATH \in Nat
    BY AppAssumption
<1>2. data[1] \in Nat
    BY ByteIsNatural
<1>3. given \in Nat
    BY <1>1
<1>4. given * ELEMENT_LEN =< Len(data) - 1
    BY <1>1
<1> HIDE DEF given
<1>5. read \in Nat /\ read =< given
    BY <1>1, <1>2, <1>3
<1>6. read * ELEMENT_LEN \in Nat /\ read * ELEMENT_LEN =< given * ELEMENT_LEN
    BY <1>1, <1>3, <1>5
<1> HIDE DEF read
<1>7. SubSeq(data, 2, 1 + read * ELEMENT_LEN) \in Seq(Byte)
    BY <1>1, <1>3, <1>4, <1>5, <1>6, SubSeqProperties
<1>8. QED
    BY <1>7 DEF ReadPath, Path, given, read

\* A context just reset is a context with an empty buffer.
LEMMA FreshContextType ==
    ASSUME NEW req_type \in {"CONFIRM_ADDRESS", "CONFIRM_TRANSACTION"}
    PROVE  /\ FreshContext(req_type) \in Context
           /\ FreshContext(req_type).raw_tx = <<>>
  BY DEF FreshContext, Context, NoPath, Path, Zero, Digest, Byte

\* The contexts a command that carries a path leaves are contexts with an
\* empty buffer.
LEMMA PathContextType ==
    ASSUME NEW c \in Commands, Refusal(c) = "none",
           c.ins \in {"GET_PUBLIC_KEY", "SIGN_TX"}
    PROVE  /\ AddressContext(c) \in Context /\ AddressContext(c).raw_tx = <<>>
           /\ KeyContext(c) \in Context /\ KeyContext(c).raw_tx = <<>>
           /\ StartContext(c) \in Context /\ StartContext(c).raw_tx = <<>>
<1>1. ReadPath(c.data) \in Path
    BY CommandData, ReadPathType
<1>2. AddressContext(c) \in Context /\ AddressContext(c).raw_tx = <<>>
    BY <1>1, FreshContextType DEF AddressContext, Context
<1>3. StartContext(c) \in Context /\ StartContext(c).raw_tx = <<>>
    BY <1>1, FreshContextType DEF StartContext, Context
<1>4. Derive(AddressContext(c).bip32_path) \in Seq(Path)
    BY <1>2 DEF Derive, Context
<1>5. KeyContext(c) \in Context /\ KeyContext(c).raw_tx = <<>>
    BY <1>2, <1>4 DEF KeyContext, Context
<1>6. QED
    BY <1>2, <1>3, <1>5

\* A chunk that fits leaves a context whose buffer still fits, whatever the
\* state and the digest become.
LEMMA ChunkContextType ==
    ASSUME NEW c \in Commands, G_context \in Context, StoresChunk(c)
    PROVE  LET stored == Stored(G_context, c.data)
           IN  \A ctx \in {stored, ParsedContext(stored), ReviewContext(c)} :
                  /\ ctx \in Context
                  /\ Len(ctx.raw_tx) =< MAX_TRANSACTION_LEN
<1> DEFINE stored == Stored(G_context, c.data)
<1>1. c.data \in Seq(Byte) /\ G_context.raw_tx \in Seq(Byte)
    BY CommandData DEF StoresChunk, Chunk, Calls, Context
<1>2. /\ G_context.raw_tx \o c.data \in Seq(Byte)
      /\ Len(G_context.raw_tx \o c.data) = Len(G_context.raw_tx) + Len(c.data)
    BY <1>1, ConcatProperties
<1>3. stored \in Context /\ Len(stored.raw_tx) =< MAX_TRANSACTION_LEN
    BY <1>2 DEF Stored, Context, StoresChunk, FitsRawTx
<1> HIDE DEF stored
<1>4. /\ ParsedContext(stored) \in Context
      /\ ParsedContext(stored).raw_tx = stored.raw_tx
    BY <1>3 DEF ParsedContext, Context
<1>5. Keccak256(stored.raw_tx) \in Digest
    BY <1>3 DEF Keccak256, Digest, Context
<1>6. /\ HashedContext(ParsedContext(stored)) \in Context
      /\ HashedContext(ParsedContext(stored)).raw_tx = stored.raw_tx
    BY <1>4, <1>5 DEF HashedContext, Context
<1>7. QED
    BY <1>3, <1>4, <1>6 DEF ReviewContext, stored

\* A failure of the display functions leaves the buffer alone.
LEMMA DisplayFailureType ==
    ASSUME NEW ctx \in Context, NEW sw
    PROVE  /\ AfterDisplayFailure(ctx, sw) \in Context
           /\ AfterDisplayFailure(ctx, sw).raw_tx = ctx.raw_tx
  BY DEF AfterDisplayFailure, Context

-----------------------------------------------------------------------------
(***************************************************************************)
(* Type correctness.                                                       *)
(***************************************************************************)
\* A handler leaves G_context a context whose buffer fits its array.
LEMMA DispatchContext ==
    ASSUME TypeOK, NEW c \in Commands, Dispatch(c)
    PROVE  G_context' \in Context /\ Len(G_context'.raw_tx) =< MAX_TRANSACTION_LEN
<1> DEFINE Fits(ctx) == ctx \in Context /\ Len(ctx.raw_tx) =< MAX_TRANSACTION_LEN
<1>1. \A ctx \in Context : ctx.raw_tx = <<>> => Fits(ctx)
    BY AppAssumption
<1>2. CASE Refuse(c) \/ GetVersion(c) \/ GetAppName(c) \/ NoSession(c) \/ ChunkTooLong(c)
    BY <1>2 DEF TypeOK, Refuse, GetVersion, GetAppName, NoSession, ChunkTooLong
<1>3. CASE GetPublicKey(c)
    <2>1. /\ Refusal(c) = "none" /\ c.ins = "GET_PUBLIC_KEY"
          /\ \/ G_context' \in {AddressContext(c), KeyContext(c)}
             \/ \E sw : G_context' = AfterDisplayFailure(KeyContext(c), sw)
        BY <1>3 DEF GetPublicKey, BadKeyPath, KeyDerivationFails, SendKey,
                    AddressDisplayFails, ReviewAddress, Calls
    <2>2. /\ AddressContext(c) \in Context /\ AddressContext(c).raw_tx = <<>>
          /\ KeyContext(c) \in Context /\ KeyContext(c).raw_tx = <<>>
        BY <2>1, PathContextType
    <2>3. QED
        BY <1>1, <2>1, <2>2, DisplayFailureType
<1>4. CASE StartSigning(c)
    <2>1. StartContext(c) \in Context /\ StartContext(c).raw_tx = <<>>
        BY <1>4, PathContextType DEF StartSigning, Calls
    <2>2. QED
        BY <1>1, <1>4, <2>1 DEF StartSigning
<1>5. CASE MoreToCome(c) \/ ParseFails(c) \/ HashFails(c)
           \/ TransactionDisplayFails(c) \/ ReviewTransaction(c)
    <2> DEFINE stored == Stored(G_context, c.data)
    <2>1. /\ StoresChunk(c)
          /\ \/ G_context' \in {stored, ParsedContext(stored), ReviewContext(c)}
             \/ \E sw : G_context' = AfterDisplayFailure(ReviewContext(c), sw)
        BY <1>5 DEF MoreToCome, ParseFails, HashFails, TransactionDisplayFails,
                    ReviewTransaction, ParsedChunk, LastChunk
    <2>2. \A ctx \in {stored, ParsedContext(stored), ReviewContext(c)} : Fits(ctx)
        BY <2>1, ChunkContextType DEF TypeOK
    <2>3. QED
        BY <2>1, <2>2, DisplayFailureType
<1>6. QED
    BY <1>2, <1>3, <1>4, <1>5 DEF Dispatch, SignTx

\* A decision changes at most the state.
LEMMA DecideContext ==
    ASSUME TypeOK, Decide
    PROVE  /\ G_context' \in Context
           /\ \E st \in {"STATE_NONE", "STATE_APPROVED"} :
                 G_context' \in {G_context, [G_context EXCEPT !.state = st]}
  BY DEF TypeOK, Decide, ApproveAddress, RejectAddress, ApproveTransaction,
         SigningFails, RejectTransaction, Context

\* Every reachable state has well-typed variables, and raw_tx never outgrows
\* its array, for every set of commands and every size (sign_tx.c:54).
THEOREM TypeCorrect == Spec => []TypeOK
<1> DEFINE fresh == FreshContext("CONFIRM_ADDRESS")
<1>0. fresh \in Context /\ Len(fresh.raw_tx) =< MAX_TRANSACTION_LEN
    BY AppAssumption, FreshContextType
<1> HIDE DEF fresh
<1>1. Init => TypeOK
    BY <1>0 DEF Init, TypeOK, Reviews, fresh
<1>2. TypeOK /\ [Next]_vars => TypeOK'
    <2> SUFFICES ASSUME TypeOK, [Next]_vars PROVE TypeOK'
        OBVIOUS
    <2>1. ASSUME NEW c \in Commands, Dispatch(c) PROVE TypeOK'
        <3>1. G_context' \in Context /\ Len(G_context'.raw_tx) =< MAX_TRANSACTION_LEN
            BY <2>1, DispatchContext
        <3>2. /\ running' \in BOOLEAN /\ owed' \in BOOLEAN
              /\ screen' \in {"menu", "about"} \union Reviews
              /\ g_validate_callback' \in {"none", "pubkey", "transaction"}
            BY <2>1 DEF TypeOK, Dispatch, Refuse, GetVersion, GetAppName, GetPublicKey,
                        BadKeyPath, KeyDerivationFails, SendKey, AddressDisplayFails,
                        ReviewAddress, SignTx, StartSigning, NoSession, ChunkTooLong,
                        MoreToCome, ParseFails, HashFails, TransactionDisplayFails,
                        ReviewTransaction, Reply, display, Reviews
        <3>3. QED
            BY <3>1, <3>2 DEF TypeOK
    <2>2. CASE Decide
        <3>1. /\ G_context' \in Context
              /\ Len(G_context'.raw_tx) =< MAX_TRANSACTION_LEN
            BY <2>2, DecideContext DEF TypeOK, Context
        <3>2. QED
            BY <2>2, <3>1 DEF TypeOK, Decide, ApproveAddress, RejectAddress,
               ApproveTransaction, SigningFails, RejectTransaction, Decides, Respond, display
    <2>3. CASE Menu \/ ReceiveFails
        BY <2>3 DEF TypeOK, Menu, About, Back, Quit, ReceiveFails, display
    <2>4. CASE BadLength
        BY <2>4 DEF TypeOK, BadLength, Respond, display
    <2>5. CASE Launch
        BY <2>5, <1>0 DEF TypeOK, Launch, Reviews, fresh
    <2>6. CASE UNCHANGED vars
        BY <2>6 DEF TypeOK, vars, display
    <2>7. QED
        BY <2>1, <2>2, <2>3, <2>4, <2>5, <2>6 DEF Next
<1>3. QED
    BY <1>1, <1>2, PTL DEF Spec

-----------------------------------------------------------------------------
(***************************************************************************)
(* The review invariant.  None of its parts is inductive alone: that an    *)
(* address review shows the right key needs that no command is dispatched  *)
(* while a review is on display, which is AnswerOwedIffReview; and that a  *)
(* fresh session holds no bytes of another needs UnionInUse.               *)
(***************************************************************************)
IInv ==
    /\ TypeOK
    /\ AnswerOwedIffReview
    /\ AddressReviewCoherent
    /\ TransactionReviewCoherent
    /\ UnionInUse

\* UnionInUse, of any context.
OneMember(ctx) ==
    /\ InSession(ctx) => ctx.raw_public_key = Zero
    /\ ~InSession(ctx) => ctx.raw_tx = <<>> /\ ctx.m_hash = Zero

\* What the handlers of commands with a path put in the context.
LEMMA PathContextFields ==
    ASSUME NEW c \in Commands, Refusal(c) = "none",
           c.ins \in {"GET_PUBLIC_KEY", "SIGN_TX"}
    PROVE  /\ OneMember(AddressContext(c)) /\ OneMember(KeyContext(c))
           /\ OneMember(StartContext(c))
           /\ AddressReady(KeyContext(c))
           /\ KeyContext(c).raw_public_key = Derive(KeyContext(c).bip32_path)
<1> DEFINE address == FreshContext("CONFIRM_ADDRESS")
           transaction == FreshContext("CONFIRM_TRANSACTION")
<1>1. /\ address \in Context /\ transaction \in Context
      /\ address.req_type = "CONFIRM_ADDRESS" /\ address.state = "STATE_NONE"
      /\ address.raw_tx = <<>> /\ address.m_hash = Zero
      /\ transaction.req_type = "CONFIRM_TRANSACTION" /\ transaction.raw_public_key = Zero
    BY FreshContextType DEF FreshContext
<1> HIDE DEF address, transaction
<1>2. /\ AddressContext(c) = [address EXCEPT !.bip32_path = ReadPath(c.data)]
      /\ StartContext(c) = [transaction EXCEPT !.bip32_path = ReadPath(c.data)]
    BY DEF AddressContext, StartContext, address, transaction
<1>3. AddressContext(c) \in Context
    BY PathContextType
<1>4. /\ AddressContext(c).req_type = "CONFIRM_ADDRESS" /\ AddressContext(c).state = "STATE_NONE"
      /\ AddressContext(c).raw_tx = <<>> /\ AddressContext(c).m_hash = Zero
      /\ StartContext(c).req_type = "CONFIRM_TRANSACTION"
      /\ StartContext(c).raw_public_key = Zero
    BY <1>1, <1>2 DEF Context
<1>5. /\ KeyContext(c).req_type = "CONFIRM_ADDRESS" /\ KeyContext(c).state = "STATE_NONE"
      /\ KeyContext(c).raw_tx = <<>> /\ KeyContext(c).m_hash = Zero
      /\ KeyContext(c).bip32_path = AddressContext(c).bip32_path
      /\ KeyContext(c).raw_public_key = Derive(AddressContext(c).bip32_path)
    BY <1>3, <1>4 DEF KeyContext, Context
<1>6. QED
    BY <1>4, <1>5 DEF OneMember, InSession, AddressReady

\* What a chunk does to the context of its session: the buffer grows, and
\* a context put up for review is parsed, with the digest of its own buffer.
LEMMA ChunkContextFields ==
    ASSUME NEW c \in Commands, G_context \in Context, OneMember(G_context), StoresChunk(c)
    PROVE  LET stored == Stored(G_context, c.data)
           IN  /\ OneMember(stored)
               /\ OneMember(ParsedContext(stored))
               /\ OneMember(ReviewContext(c))
               /\ TransactionReady(ReviewContext(c))
               /\ ReviewContext(c).raw_tx = stored.raw_tx
               /\ ReviewContext(c).m_hash = Keccak256(stored.raw_tx)
<1> DEFINE stored == Stored(G_context, c.data)
<1>1. stored \in Context /\ ParsedContext(stored) \in Context
    BY ChunkContextType
<1>2. /\ stored.req_type = "CONFIRM_TRANSACTION"
      /\ stored.raw_public_key = Zero
    BY DEF Stored, Context, StoresChunk, InSession, OneMember
<1> HIDE DEF stored
<1>3. /\ ParsedContext(stored).req_type = "CONFIRM_TRANSACTION"
      /\ ParsedContext(stored).state = "STATE_PARSED"
      /\ ParsedContext(stored).raw_public_key = Zero
      /\ ParsedContext(stored).raw_tx = stored.raw_tx
    BY <1>1, <1>2 DEF ParsedContext, Context
<1>4. /\ ReviewContext(c).req_type = "CONFIRM_TRANSACTION"
      /\ ReviewContext(c).state = "STATE_PARSED"
      /\ ReviewContext(c).raw_public_key = Zero
      /\ ReviewContext(c).raw_tx = stored.raw_tx
      /\ ReviewContext(c).m_hash = Keccak256(stored.raw_tx)
    BY <1>1, <1>3 DEF ReviewContext, HashedContext, Context, stored
<1>5. QED
    BY <1>2, <1>3, <1>4 DEF OneMember, InSession, TransactionReady, stored

\* Resetting the state keeps the other fields.
LEMMA StateChange ==
    ASSUME NEW ctx \in Context, OneMember(ctx), NEW st
    PROVE  OneMember([ctx EXCEPT !.state = st])
  BY DEF OneMember, InSession, Context

\* A failure of the display functions keeps one member of the union in use.
LEMMA DisplayFailureFields ==
    ASSUME NEW ctx \in Context, OneMember(ctx), NEW sw
    PROVE  OneMember(AfterDisplayFailure(ctx, sw))
  BY StateChange DEF AfterDisplayFailure

\* A handler leaves one member of the union in use.
LEMMA DispatchUnion ==
    ASSUME TypeOK, UnionInUse, NEW c \in Commands, Dispatch(c)
    PROVE  UnionInUse'
<1>0. G_context \in Context /\ OneMember(G_context)
    BY DEF TypeOK, UnionInUse, OneMember
<1>1. OneMember(G_context')
    <2>1. CASE Refuse(c) \/ GetVersion(c) \/ GetAppName(c) \/ NoSession(c) \/ ChunkTooLong(c)
        BY <1>0, <2>1 DEF Refuse, GetVersion, GetAppName, NoSession, ChunkTooLong
    <2>2. CASE GetPublicKey(c)
        <3>1. /\ Refusal(c) = "none" /\ c.ins = "GET_PUBLIC_KEY"
              /\ \/ G_context' \in {AddressContext(c), KeyContext(c)}
                 \/ \E sw : G_context' = AfterDisplayFailure(KeyContext(c), sw)
            BY <2>2 DEF GetPublicKey, BadKeyPath, KeyDerivationFails, SendKey,
                        AddressDisplayFails, ReviewAddress, Calls
        <3>2. /\ OneMember(AddressContext(c)) /\ OneMember(KeyContext(c))
              /\ KeyContext(c) \in Context
            BY <3>1, PathContextFields, PathContextType
        <3>3. QED
            BY <3>1, <3>2, DisplayFailureFields
    <2>3. CASE StartSigning(c)
        BY <2>3, PathContextFields DEF StartSigning, Calls
    <2>4. CASE MoreToCome(c) \/ ParseFails(c) \/ HashFails(c)
               \/ TransactionDisplayFails(c) \/ ReviewTransaction(c)
        <3> DEFINE stored == Stored(G_context, c.data)
        <3>1. /\ StoresChunk(c)
              /\ \/ G_context' \in {stored, ParsedContext(stored), ReviewContext(c)}
                 \/ \E sw : G_context' = AfterDisplayFailure(ReviewContext(c), sw)
            BY <2>4 DEF MoreToCome, ParseFails, HashFails, TransactionDisplayFails,
                        ReviewTransaction, ParsedChunk, LastChunk
        <3>2. /\ OneMember(stored) /\ OneMember(ParsedContext(stored))
              /\ OneMember(ReviewContext(c)) /\ ReviewContext(c) \in Context
            BY <1>0, <3>1, ChunkContextFields, ChunkContextType
        <3>3. QED
            BY <3>1, <3>2, DisplayFailureFields
    <2>5. QED
        BY <2>1, <2>2, <2>3, <2>4 DEF Dispatch, SignTx
<1>2. QED
    BY <1>1 DEF UnionInUse, OneMember

\* A command that does not start a review leaves the screen as it was and
\* owes nothing.
LEMMA DispatchScreen ==
    ASSUME IInv, NEW c \in Commands, Dispatch(c)
    PROVE  \/ ReviewAddress(c)
           \/ ReviewTransaction(c)
           \/ screen \notin Reviews /\ screen' = screen /\ owed' = FALSE
<1>1. screen \notin Reviews /\ owed = FALSE
    BY DEF IInv, TypeOK, AnswerOwedIffReview, Dispatch, Refuse, GetVersion, GetAppName,
           GetPublicKey, BadKeyPath, KeyDerivationFails, SendKey, AddressDisplayFails,
           ReviewAddress, SignTx, StartSigning, NoSession, ChunkTooLong, MoreToCome,
           ParseFails, HashFails, TransactionDisplayFails, ReviewTransaction,
           ParsedChunk, LastChunk, StoresChunk, Chunk, Calls, Receive
<1>2. ReviewAddress(c) \/ ReviewTransaction(c) \/ (screen' = screen /\ owed' = owed)
    BY DEF Dispatch, Refuse, GetVersion, GetAppName,
           GetPublicKey, BadKeyPath, KeyDerivationFails, SendKey, AddressDisplayFails,
           SignTx, StartSigning, NoSession, ChunkTooLong, MoreToCome,
           ParseFails, HashFails, TransactionDisplayFails, Reply
<1>3. QED
    BY <1>1, <1>2

\* The invariant is kept by every handler.
LEMMA DispatchKeeps ==
    ASSUME IInv, TypeOK', NEW c \in Commands, Dispatch(c)
    PROVE  IInv'
<1>1. UnionInUse'
    BY DispatchUnion DEF IInv
<1>2. AnswerOwedIffReview' /\ AddressReviewCoherent' /\ TransactionReviewCoherent'
    <2>1. CASE ReviewAddress(c)
        <3>1. /\ AddressReady(KeyContext(c))
              /\ KeyContext(c).raw_public_key = Derive(KeyContext(c).bip32_path)
            BY <2>1, PathContextFields DEF ReviewAddress, Calls
        <3>2. AddressReviewCoherent'
            BY <2>1, <3>1 DEF ReviewAddress, AddressReviewCoherent
        <3>3. AnswerOwedIffReview' /\ TransactionReviewCoherent'
            BY <2>1 DEF ReviewAddress, AnswerOwedIffReview, TransactionReviewCoherent, Reviews
        <3>4. QED
            BY <3>2, <3>3
    <2>2. CASE ReviewTransaction(c)
        <3>1. StoresChunk(c) /\ ParsedOK(Stored(G_context, c.data).raw_tx)
            BY <2>2 DEF ReviewTransaction, ParsedChunk, LastChunk
        <3>2. G_context \in Context /\ OneMember(G_context)
            BY DEF IInv, TypeOK, UnionInUse, OneMember
        <3>3. /\ TransactionReady(ReviewContext(c))
              /\ ParsedOK(ReviewContext(c).raw_tx)
              /\ ReviewContext(c).m_hash = Keccak256(ReviewContext(c).raw_tx)
            BY <3>1, <3>2, ChunkContextFields
        <3>4. TransactionReviewCoherent'
            BY <2>2, <3>3 DEF ReviewTransaction, TransactionReviewCoherent
        <3>5. AnswerOwedIffReview' /\ AddressReviewCoherent'
            BY <2>2 DEF ReviewTransaction, AnswerOwedIffReview, AddressReviewCoherent, Reviews
        <3>6. QED
            BY <3>4, <3>5
    <2>3. CASE screen' \notin Reviews /\ owed' = FALSE
        BY <2>3 DEF AnswerOwedIffReview, AddressReviewCoherent,
                    TransactionReviewCoherent, Reviews
    <2>4. QED
        BY <2>1, <2>2, <2>3, DispatchScreen
<1>3. QED
    BY <1>1, <1>2 DEF IInv

\* The invariant is kept by every decision: the screen goes back to the menu
\* and nothing is owed.
LEMMA DecideKeeps ==
    ASSUME IInv, TypeOK', Decide
    PROVE  IInv'
<1>1. screen' = "menu" /\ owed' = FALSE
    BY DEF Decide, ApproveAddress, RejectAddress, ApproveTransaction,
           SigningFails, RejectTransaction, Decides, Respond
<1>2. G_context \in Context /\ OneMember(G_context)
    BY DEF IInv, TypeOK, UnionInUse, OneMember
<1>3. OneMember(G_context')
    BY <1>2, DecideContext, StateChange DEF IInv
<1>4. QED
    BY <1>1, <1>3 DEF IInv, AnswerOwedIffReview, AddressReviewCoherent,
                      TransactionReviewCoherent, UnionInUse, OneMember, Reviews

\* In every reachable state the reviews are coherent: what is on display, what
\* would be signed or sent, and whether an answer is owed, agree.
THEOREM ReviewsCoherent == Spec => []IInv
<1> DEFINE fresh == FreshContext("CONFIRM_ADDRESS")
<1>0. OneMember(fresh)
    BY DEF FreshContext, OneMember, InSession, Zero
<1> HIDE DEF fresh
<1>1. Init /\ TypeOK => IInv
    BY <1>0 DEF Init, IInv, AnswerOwedIffReview, AddressReviewCoherent,
       TransactionReviewCoherent, UnionInUse, OneMember, Reviews, fresh
<1>2. IInv /\ TypeOK' /\ [Next]_vars => IInv'
    <2> SUFFICES ASSUME IInv, TypeOK', [Next]_vars PROVE IInv'
        OBVIOUS
    <2>1. ASSUME NEW c \in Commands, Dispatch(c) PROVE IInv'
        BY <2>1, DispatchKeeps
    <2>2. CASE Decide
        BY <2>2, DecideKeeps
    <2>3. CASE Menu \/ BadLength
        BY <2>3 DEF Menu, About, Back, Quit, BadLength, Respond, display, IInv,
           AnswerOwedIffReview, AddressReviewCoherent, TransactionReviewCoherent,
           UnionInUse, Reviews
    <2>4. CASE ReceiveFails
        BY <2>4 DEF ReceiveFails, display, IInv,
           AnswerOwedIffReview, AddressReviewCoherent, TransactionReviewCoherent, UnionInUse
    <2>5. CASE Launch
        BY <2>5, <1>0 DEF Launch, IInv, AnswerOwedIffReview, AddressReviewCoherent,
           TransactionReviewCoherent, UnionInUse, OneMember, Reviews, fresh
    <2>6. CASE UNCHANGED vars
        BY <2>6 DEF vars, display, IInv,
           AnswerOwedIffReview, AddressReviewCoherent, TransactionReviewCoherent, UnionInUse
    <2>7. QED
        BY <2>1, <2>2, <2>3, <2>4, <2>5, <2>6 DEF Next
<1>3. QED
    BY <1>1, <1>2, TypeCorrect, PTL DEF Spec

\* No command is left without its answer and none can be answered twice.
THEOREM AnswersAreOwed == Spec => []AnswerOwedIffReview
  BY ReviewsCoherent, PTL DEF IInv

\* What the user reads is what the device holds, for both kinds of review.
THEOREM AddressReviewCorrect == Spec => []AddressReviewCoherent
  BY ReviewsCoherent, PTL DEF IInv

\* The same, of the review of a transaction.
THEOREM TransactionReviewCorrect == Spec => []TransactionReviewCoherent
  BY ReviewsCoherent, PTL DEF IInv

\* The union of global_ctx_t never holds both of its members.
THEOREM UnionCorrect == Spec => []UnionInUse
  BY ReviewsCoherent, PTL DEF IInv

-----------------------------------------------------------------------------
(***************************************************************************)
(* What leaves the device.                                                 *)
(***************************************************************************)
\* No response but that of an approved transaction carries a signature.
LEMMA PlainBodies ==
    /\ Lost.body.kind # "signature"
    /\ \A sw : Status(sw).body.kind # "signature"
    /\ \A kind \in {"version", "app_name"} : Ok(Body(kind)).body.kind # "signature"
    /\ \A pk : Ok(PublicKey(pk)).body.kind # "signature"
<1>1. \A kind : Body(kind).kind = kind
    BY DEF Body
<1>2. \A pk : PublicKey(pk).kind = "public_key"
    BY DEF PublicKey
<1>3. \A sw : Status(sw).body = Body("none")
    BY DEF Status
<1>4. \A body : Ok(body).body = body
    BY DEF Ok
<1>5. QED
    BY <1>1, <1>2, <1>3, <1>4 DEF Lost

\* A handler hands over no signature: an answer it sends is none, and one that was
\* sent before stays only while a review begins.
LEMMA DispatchSendsNoSignature ==
    ASSUME IInv, NEW c \in Commands, Dispatch(c), Answers \/ ~owed'
    PROVE  answer'.body.kind # "signature"
<1>1. owed = FALSE
    BY DEF IInv, TypeOK, Dispatch, Refuse, GetVersion, GetAppName,
           GetPublicKey, BadKeyPath, KeyDerivationFails, SendKey, AddressDisplayFails,
           ReviewAddress, SignTx, StartSigning, NoSession, ChunkTooLong, MoreToCome,
           ParseFails, HashFails, TransactionDisplayFails, ReviewTransaction,
           ParsedChunk, LastChunk, StoresChunk, Chunk, Calls, Receive
<1>2. \/ answer' = answer /\ owed'
      \/ answer' = Lost
      \/ \E sw : answer' = Status(sw)
      \/ \E kind \in {"version", "app_name"} : answer' = Ok(Body(kind))
      \/ answer' = Ok(PublicKey(KeyContext(c).raw_public_key))
    BY DEF Dispatch, Refuse, GetVersion, GetAppName,
           GetPublicKey, BadKeyPath, KeyDerivationFails, SendKey, AddressDisplayFails,
           ReviewAddress, SignTx, StartSigning, NoSession, ChunkTooLong, MoreToCome,
           ParseFails, HashFails, TransactionDisplayFails, ReviewTransaction, Reply
<1>3. ~(answer' = answer /\ owed')
    BY <1>1 DEF Answers
<1>4. QED
    BY <1>2, <1>3, PlainBodies

\* Only the approval of a transaction hands over a signature, and the review it
\* ends was about the bytes that are signed.
THEOREM SignatureCorrect == Spec => SignatureMatchesReview
<1>1. IInv /\ [Next]_vars => [SignatureStep]_vars
    <2> SUFFICES ASSUME IInv, Next, Answers, answer'.body.kind = "signature"
                 PROVE  SignatureStep
        BY DEF SignatureStep
    <2>1. ASSUME NEW c \in Commands, Dispatch(c) PROVE FALSE
        BY <2>1, DispatchSendsNoSignature
    <2>2. CASE ApproveTransaction
        <3>1. /\ running /\ screen \in Reviews /\ g_validate_callback = "transaction"
              /\ answer' \in {Ok(SignatureOf(G_context)), Lost}
            BY <2>2 DEF ApproveTransaction, Decides, Respond
        <3>2. screen = "transaction"
            BY <3>1 DEF IInv, AddressReviewCoherent, Reviews
        <3>3. answer'.body = SignatureOf(G_context)
            BY <3>1 DEF Lost, Status, Body, Ok
        <3>4. /\ answer'.body.key = Derive(G_context.bip32_path)
              /\ answer'.body.of[1] = G_context.raw_tx
            BY <3>1, <3>2, <3>3 DEF SignatureOf, Sign, Keccak256, IInv, TransactionReviewCoherent
        <3>5. QED
            BY <3>1, <3>2, <3>4 DEF SignatureStep, IInv, TransactionReviewCoherent
    <2>3. CASE ApproveAddress \/ RejectAddress \/ SigningFails \/ RejectTransaction \/ BadLength
        BY <2>3, PlainBodies DEF ApproveAddress, RejectAddress, SigningFails,
                                 RejectTransaction, BadLength, Respond
    <2>4. CASE Menu \/ ReceiveFails
        BY <2>4 DEF Menu, About, Back, Quit, ReceiveFails, Answers
    <2>5. CASE Launch
        BY <2>5 DEF Launch, Lost, Status, Body
    <2>6. QED
        BY <2>1, <2>2, <2>3, <2>4, <2>5 DEF Next, Decide
<1>2. QED
    BY <1>1, ReviewsCoherent, PTL DEF Spec, SignatureMatchesReview

\* The only responses with a key are those of helper_send_response_pubkey.
LEMMA KeylessBodies ==
    /\ Lost.body.kind # "public_key"
    /\ \A sw : Status(sw).body.kind # "public_key"
    /\ \A kind \in {"version", "app_name"} : Ok(Body(kind)).body.kind # "public_key"
    /\ \A ctx : Ok(SignatureOf(ctx)).body.kind # "public_key"
    /\ \A pk : Ok(PublicKey(pk)).body.key = pk
<1>1. \A kind : Body(kind).kind = kind
    BY DEF Body
<1>2. \A ctx : SignatureOf(ctx).kind = "signature"
    BY DEF SignatureOf, Sign, Derive
<1>3. \A pk : PublicKey(pk).key = pk
    BY DEF PublicKey
<1>4. \A sw : Status(sw).body = Body("none")
    BY DEF Status
<1>5. \A body : Ok(body).body = body
    BY DEF Ok
<1>6. QED
    BY <1>1, <1>2, <1>3, <1>4, <1>5 DEF Lost

\* A key a handler hands over at once is the key of the path in its command.
LEMMA DispatchSendsItsKey ==
    ASSUME IInv, NEW c \in Commands, Dispatch(c), Answers, answer'.body.kind = "public_key"
    PROVE  owed = FALSE /\ answer'.body.key = Derive(G_context'.bip32_path)
<1>1. owed = FALSE
    BY DEF IInv, TypeOK, Dispatch, Refuse, GetVersion, GetAppName,
           GetPublicKey, BadKeyPath, KeyDerivationFails, SendKey, AddressDisplayFails,
           ReviewAddress, SignTx, StartSigning, NoSession, ChunkTooLong, MoreToCome,
           ParseFails, HashFails, TransactionDisplayFails, ReviewTransaction,
           ParsedChunk, LastChunk, StoresChunk, Chunk, Calls, Receive
<1>2. \/ answer' = answer
      \/ answer' = Lost
      \/ \E sw : answer' = Status(sw)
      \/ \E kind \in {"version", "app_name"} : answer' = Ok(Body(kind))
      \/ SendKey(c) /\ answer' = Ok(PublicKey(KeyContext(c).raw_public_key))
    BY DEF Dispatch, Refuse, GetVersion, GetAppName,
           GetPublicKey, BadKeyPath, KeyDerivationFails, SendKey, AddressDisplayFails,
           ReviewAddress, SignTx, StartSigning, NoSession, ChunkTooLong, MoreToCome,
           ParseFails, HashFails, TransactionDisplayFails, ReviewTransaction, Reply
<1>3. answer' # answer
    BY <1>1 DEF Answers
<1>4. SendKey(c) /\ answer' = Ok(PublicKey(KeyContext(c).raw_public_key))
    BY <1>2, <1>3, KeylessBodies
<1>5. /\ G_context' = KeyContext(c)
      /\ KeyContext(c).raw_public_key = Derive(KeyContext(c).bip32_path)
    BY <1>4, PathContextFields DEF SendKey, Calls
<1>6. QED
    BY <1>1, <1>4, <1>5, KeylessBodies

\* A key the user approved is the key on display; any other is the key of the
\* path in the command that asked for it.
THEOREM KeyCorrect == Spec => KeyMatchesReview
<1>1. IInv /\ [Next]_vars => [KeyStep]_vars
    <2> SUFFICES ASSUME IInv, Next, Answers, answer'.body.kind = "public_key"
                 PROVE  KeyStep
        BY DEF KeyStep
    <2>1. ASSUME NEW c \in Commands, Dispatch(c) PROVE KeyStep
        BY <2>1, DispatchSendsItsKey DEF KeyStep
    <2>2. CASE ApproveAddress
        <3>1. /\ running /\ screen \in Reviews /\ g_validate_callback = "pubkey"
              /\ answer' \in {Ok(PublicKey(G_context.raw_public_key)), Lost}
            BY <2>2 DEF ApproveAddress, Decides, Respond
        <3>2. answer'.body.key = G_context.raw_public_key
            BY <3>1, KeylessBodies
        <3>3. owed /\ screen = "address" /\ g_address = AddressOf(G_context.raw_public_key)
            BY <3>1 DEF IInv, AnswerOwedIffReview, AddressReviewCoherent,
                        TransactionReviewCoherent, Reviews
        <3>4. QED
            BY <3>2, <3>3 DEF KeyStep
    <2>3. CASE ApproveTransaction \/ RejectAddress \/ SigningFails \/ RejectTransaction \/ BadLength
        BY <2>3, KeylessBodies DEF ApproveTransaction, RejectAddress, SigningFails,
                                   RejectTransaction, BadLength, Respond
    <2>4. CASE Menu \/ ReceiveFails
        BY <2>4 DEF Menu, About, Back, Quit, ReceiveFails, Answers
    <2>5. CASE Launch
        BY <2>5, KeylessBodies DEF Launch
    <2>6. QED
        BY <2>1, <2>2, <2>3, <2>4, <2>5 DEF Next, Decide
<1>2. QED
    BY <1>1, ReviewsCoherent, PTL DEF Spec, KeyMatchesReview

-----------------------------------------------------------------------------
(***************************************************************************)
(* What commands do to the signing session.                                *)
(***************************************************************************)
\* A command is received by a running application that shows no question.
LEMMA DispatchReceives ==
    ASSUME IInv, NEW c \in Commands, Dispatch(c)
    PROVE  running /\ screen \notin Reviews
<1>1. Receive(c)
    BY DEF Dispatch, Refuse, GetVersion, GetAppName,
           GetPublicKey, BadKeyPath, KeyDerivationFails, SendKey, AddressDisplayFails,
           ReviewAddress, SignTx, StartSigning, NoSession, ChunkTooLong, MoreToCome,
           ParseFails, HashFails, TransactionDisplayFails, ReviewTransaction,
           ParsedChunk, LastChunk, StoresChunk, Chunk, Calls
<1>2. QED
    BY <1>1 DEF Receive, IInv, AnswerOwedIffReview

\* An address request leaves no session.
LEMMA KeyRequestCloses ==
    ASSUME NEW c \in Commands, GetPublicKey(c)
    PROVE  ~InSession(G_context') /\ G_context'.raw_tx = <<>>
<1>1. /\ Refusal(c) = "none" /\ c.ins = "GET_PUBLIC_KEY"
      /\ \/ G_context' \in {AddressContext(c), KeyContext(c)}
         \/ \E sw : G_context' = AfterDisplayFailure(KeyContext(c), sw)
    BY DEF GetPublicKey, BadKeyPath, KeyDerivationFails, SendKey,
           AddressDisplayFails, ReviewAddress, Calls
<1>2. /\ AddressContext(c) \in Context /\ AddressContext(c).raw_tx = <<>>
      /\ KeyContext(c) \in Context /\ KeyContext(c).raw_tx = <<>>
    BY <1>1, PathContextType
<1>3. KeyContext(c).req_type = "CONFIRM_ADDRESS"
    BY <1>1, PathContextFields DEF AddressReady
<1>4. AddressContext(c).req_type = "CONFIRM_ADDRESS"
    BY <1>2, <1>3 DEF KeyContext, Context
<1>5. \A sw : /\ AfterDisplayFailure(KeyContext(c), sw).req_type = "CONFIRM_ADDRESS"
              /\ AfterDisplayFailure(KeyContext(c), sw).raw_tx = <<>>
    BY <1>2, <1>3 DEF AfterDisplayFailure, Context
<1>6. G_context'.req_type = "CONFIRM_ADDRESS" /\ G_context'.raw_tx = <<>>
    BY <1>1, <1>2, <1>3, <1>4, <1>5
<1>7. QED
    BY <1>6 DEF InSession

\* The first chunk opens a session that holds nothing.
LEMMA StartOpens ==
    ASSUME NEW c \in Commands, StartSigning(c)
    PROVE  /\ InSession(G_context')
           /\ G_context'.raw_tx = <<>>
           /\ G_context'.bip32_path = ReadPath(c.data)
<1>1. G_context' = StartContext(c) /\ Refusal(c) = "none" /\ c.ins = "SIGN_TX"
    BY DEF StartSigning, Calls
<1>2. StartContext(c).raw_tx = <<>>
    BY <1>1, PathContextType
<1>3. /\ StartContext(c).req_type = "CONFIRM_TRANSACTION"
      /\ StartContext(c).bip32_path = ReadPath(c.data)
    BY FreshContextType DEF StartContext, FreshContext
<1>4. QED
    BY <1>1, <1>2, <1>3 DEF InSession

\* A sequence is found again at the beginning of its extensions.
LEMMA BeginningOfConcat ==
    ASSUME NEW S, NEW s \in Seq(S), NEW t \in Seq(S)
    PROVE  SubSeq(s \o t, 1, Len(s)) = s
<1> DEFINE u == SubSeq(s \o t, 1, Len(s))
<1>1. /\ Len(s) \in Nat /\ Len(t) \in Nat
      /\ \A i \in 1 .. Len(s) : s[i] \in S
    BY LenProperties, ElementOfSeq
<1>2. \A i \in 1 .. Len(s) : (s \o t)[i] = s[i]
    BY <1>1, ConcatProperties
<1>3. /\ u \in Seq(S) /\ Len(u) = Len(s)
      /\ \A i \in 1 .. Len(s) : u[i] = s[i]
    BY <1>1, <1>2, SubSeqProperties, Z3
<1>4. QED
    BY <1>1, <1>3, SeqEqual

\* A chunk that is stored, whatever comes of it, is what a session grows by.
LEMMA ChunkGrows ==
    ASSUME IInv, NEW c \in Commands,
           MoreToCome(c) \/ ParseFails(c) \/ HashFails(c)
           \/ TransactionDisplayFails(c) \/ ReviewTransaction(c)
    PROVE  /\ InSession(G_context)
           /\ InSession(G_context')
           /\ G_context'.bip32_path = G_context.bip32_path
           /\ G_context'.raw_tx = Stored(G_context, c.data).raw_tx
           /\ Len(G_context'.raw_tx) \in Len(G_context.raw_tx) .. MAX_TRANSACTION_LEN
           /\ SubSeq(G_context'.raw_tx, 1, Len(G_context.raw_tx)) = G_context.raw_tx
<1> DEFINE stored == Stored(G_context, c.data)
           raw == G_context.raw_tx
<1>1. /\ StoresChunk(c)
      /\ \/ G_context' \in {stored, ParsedContext(stored), ReviewContext(c)}
         \/ \E sw : G_context' = AfterDisplayFailure(ReviewContext(c), sw)
    BY DEF MoreToCome, ParseFails, HashFails, TransactionDisplayFails,
           ReviewTransaction, ParsedChunk, LastChunk
<1>2. G_context \in Context /\ InSession(G_context) /\ Len(raw) + Len(c.data) =< MAX_TRANSACTION_LEN
    BY <1>1 DEF IInv, TypeOK, StoresChunk, FitsRawTx
<1>3. raw \in Seq(Byte) /\ c.data \in Seq(Byte)
    BY <1>1, <1>2, CommandData DEF Context, StoresChunk, Chunk, Calls
<1>4. stored \in Context /\ ParsedContext(stored) \in Context /\ ReviewContext(c) \in Context
    BY <1>1, <1>2, ChunkContextType
<1>5. /\ stored.raw_tx = raw \o c.data
      /\ stored.req_type = G_context.req_type
      /\ stored.bip32_path = G_context.bip32_path
    BY <1>2 DEF Stored, Context
<1> HIDE DEF stored
<1>6. \A ctx \in {stored, ParsedContext(stored), ReviewContext(c)} :
         /\ ctx.raw_tx = stored.raw_tx
         /\ ctx.req_type = stored.req_type
         /\ ctx.bip32_path = stored.bip32_path
    BY <1>4 DEF ParsedContext, ReviewContext, HashedContext, Context, stored
<1>7. \A sw : /\ AfterDisplayFailure(ReviewContext(c), sw).raw_tx = stored.raw_tx
              /\ AfterDisplayFailure(ReviewContext(c), sw).req_type = stored.req_type
              /\ AfterDisplayFailure(ReviewContext(c), sw).bip32_path = stored.bip32_path
    BY <1>4, <1>6 DEF AfterDisplayFailure, Context
<1>8. /\ G_context'.raw_tx = stored.raw_tx
      /\ G_context'.req_type = stored.req_type
      /\ G_context'.bip32_path = stored.bip32_path
    BY <1>1, <1>6, <1>7
<1> HIDE DEF raw
<1>9. /\ Len(raw \o c.data) = Len(raw) + Len(c.data)
      /\ Len(raw) \in Nat /\ Len(c.data) \in Nat
    BY <1>3, ConcatProperties, LenProperties
<1>10. SubSeq(raw \o c.data, 1, Len(raw)) = raw
    BY <1>3, BeginningOfConcat
<1>11. Len(raw \o c.data) \in Len(raw) .. MAX_TRANSACTION_LEN
    BY <1>2, <1>9, AppAssumption
<1>12. QED
    BY <1>2, <1>5, <1>8, <1>10, <1>11 DEF InSession, stored, raw

-----------------------------------------------------------------------------
(***************************************************************************)
(* App implements SigningDevice.                                           *)
(***************************************************************************)
\* The two modules parse with the same parser.
LEMMA SameParser ==
    /\ \A buf : Device!ParsedOK(buf) <=> ParsedOK(buf)
    /\ \A buf : Device!Parsed(buf).value = Parsed(buf).value
    /\ \A buf : Device!Parsed(buf).to = Parsed(buf).to
<1>1. \A buf, at, len : Device!Field(buf, at, len) = Field(buf, at, len)
    BY DEF Device!Field, Field
<1>2. QED
    BY DEF Device!ParsedOK, ParsedOK, Device!Parsed, Parsed, Device!Deserialize, Deserialize,
     Device!ToAt, ToAt, Device!ValueAt, ValueAt, Device!MemoLenAt, MemoLenAt, Device!MemoLengthRejected, MemoLengthRejected, Device!MemoAt, MemoAt, Device!MemoSeek, MemoSeek, Device!MemoLen, MemoLen, Device!CheckEncoding, CheckEncoding, Device!ConsumesAll, ConsumesAll, Device!VarintFits, VarintFits, Device!Extra, Extra, Device!LittleEndian, LittleEndian, Device!HUGE, HUGE, Device!VarintPayload, VarintPayload, Device!Field, Field, Device!AsSizeT, AsSizeT

\* The two modules name the same values.
LEMMA SameValues ==
    /\ Device!Zero = Zero
    /\ Device!Lost = Lost
    /\ \A sw : Device!Status(sw) = Status(sw)
    /\ \A body : Device!Ok(body) = Ok(body)
    /\ \A kind : Device!Body(kind) = Body(kind)
    /\ \A path : Device!Derive(path) = Derive(path)
    /\ \A raw : Device!Keccak256(raw) = Keccak256(raw)
    /\ \A pk : Device!PublicKey(pk) = PublicKey(pk)
    /\ \A path, hash : Device!Sign(path, hash) = Sign(path, hash)
    /\ \A pk : Device!AddressOf(pk) = AddressOf(pk)
    /\ \A to : Device!AddressTo(to) = AddressTo(to)
    /\ \A value : Device!AmountOf(value) = AmountOf(value)
  BY DEF Device!Zero, Zero, Device!Lost, Lost, Device!Status, Status, Device!Ok, Ok, Device!Body, Body, Device!Derive, Derive,
     Device!Keccak256, Keccak256, Device!PublicKey, PublicKey, Device!Sign, Sign, Device!AddressOf, AddressOf,
     Device!AddressTo, AddressTo, Device!AmountOf, AmountOf

-----------------------------------------------------------------------------
(***************************************************************************)
(* The session and the question of a state.                                *)
(***************************************************************************)
\* The session a context of the running application holds.
Held(ctx) ==
    [open |-> InSession(ctx),
     path |-> IF InSession(ctx) THEN ctx.bip32_path ELSE Zero,
     data |-> ctx.raw_tx]

\* A context of an address request is no session: it holds no bytes.
LEMMA Views ==
    /\ Device!Closed = [open |-> FALSE, path |-> Zero, data |-> <<>>]
    /\ Session = IF running THEN Held(G_context) ELSE Device!Closed
    /\ ~running \/ screen \notin Reviews => Question = Device!NoQuestion
    /\ \A ctx : ~InSession(ctx) /\ ctx.raw_tx = <<>> => Held(ctx) = Device!Closed
<1>1. running => Session = Held(G_context)
    BY DEF Session, Held, InSession
<1>2. ~running => Session = Device!Closed
    BY SameValues DEF Session, Device!Closed, InSession
<1>3. Device!NoQuestion = [kind |-> "none", path |-> Zero, amount |-> Zero, address |-> Zero]
    BY SameValues DEF Device!NoQuestion
<1>4. ~running \/ screen \notin Reviews => Question = Device!NoQuestion
    BY <1>3 DEF Question
<1>5. Device!Closed = [open |-> FALSE, path |-> Zero, data |-> <<>>]
    BY SameValues DEF Device!Closed
<1>6. \A ctx : ~InSession(ctx) /\ ctx.raw_tx = <<>> => Held(ctx) = Device!Closed
    BY <1>5 DEF Held, InSession
<1>7. QED
    BY <1>1, <1>2, <1>4, <1>5, <1>6

\* Views, of the next state.
LEMMA NextViews ==
    /\ Session' = IF running' THEN Held(G_context') ELSE Device!Closed
    /\ ~running' \/ screen' \notin Reviews => Question' = Device!NoQuestion
<1>1. running' => Session' = Held(G_context')
    BY DEF Session, Held, InSession
<1>2. ~running' => Session' = Device!Closed
    BY SameValues DEF Session, Device!Closed, InSession
<1>3. Device!NoQuestion = [kind |-> "none", path |-> Zero, amount |-> Zero, address |-> Zero]
    BY SameValues DEF Device!NoQuestion
<1>4. ~running' \/ screen' \notin Reviews => Question' = Device!NoQuestion
    BY <1>3 DEF Question
<1>5. QED
    BY <1>1, <1>2, <1>4

-----------------------------------------------------------------------------
(***************************************************************************)
(* Commands.                                                               *)
(***************************************************************************)
\* The session grows with the buffer of its context.
LEMMA HeldGrows ==
    ASSUME Session = Held(G_context), Session' = Held(G_context'),
           InSession(G_context), InSession(G_context'),
           G_context'.bip32_path = G_context.bip32_path,
           Len(G_context'.raw_tx) \in Len(G_context.raw_tx) .. MAX_TRANSACTION_LEN,
           SubSeq(G_context'.raw_tx, 1, Len(G_context.raw_tx)) = G_context.raw_tx
    PROVE  Device!Grows
<1>1. Session = [open |-> TRUE, path |-> G_context.bip32_path, data |-> G_context.raw_tx]
    BY DEF Held
<1>2. Session' = [open |-> TRUE, path |-> G_context.bip32_path, data |-> G_context'.raw_tx]
    BY DEF Held
<1>3. Session.open /\ Session.data = G_context.raw_tx /\ Session'.data = G_context'.raw_tx
    BY <1>1, <1>2
<1>4. Session' = [open |-> TRUE, path |-> Session.path, data |-> Session'.data]
    BY <1>1, <1>2
<1>5. QED
    BY <1>3, <1>4 DEF Device!Grows

\* A handler that starts no review answers with anything but a signature, or
\* the answer is lost and the program ends.
LEMMA PlainReply ==
    ASSUME IInv, NEW c \in Commands, Dispatch(c), screen' = screen
    PROVE  \/ running' = running /\ answer'.body.kind # "signature"
           \/ running' = FALSE /\ answer' = Lost
<1>1. \E a : Reply(a) /\ a.body.kind # "signature"
    <2>1. ~ReviewAddress(c) /\ ~ReviewTransaction(c)
        BY DispatchReceives DEF ReviewAddress, ReviewTransaction, Reviews
    <2>2. \/ \E sw : Reply(Status(sw))
          \/ \E kind \in {"version", "app_name"} : Reply(Ok(Body(kind)))
          \/ Reply(Ok(PublicKey(KeyContext(c).raw_public_key)))
        BY <2>1 DEF Dispatch, Refuse, GetVersion, GetAppName,
           GetPublicKey, BadKeyPath, KeyDerivationFails, SendKey, AddressDisplayFails,
           SignTx, StartSigning, NoSession, ChunkTooLong, MoreToCome,
           ParseFails, HashFails, TransactionDisplayFails
    <2>3. QED
        BY <2>2, PlainBodies
<1>2. QED
    BY <1>1 DEF Reply

\* Every command is one step of the device.
LEMMA DispatchMaps ==
    ASSUME IInv, IInv', NEW c \in Commands, Dispatch(c)
    PROVE  Device!Next
<1>1. running /\ Question = Device!NoQuestion /\ Session = Held(G_context)
    BY DispatchReceives, Views
<1>2. CASE ReviewAddress(c)
    <2>1. /\ running' = TRUE /\ screen' = "address" /\ answer' = answer
          /\ GetPublicKey(c)
        BY <1>1, <1>2 DEF ReviewAddress, GetPublicKey
    <2>2. Session' = Device!Closed
        BY <2>1, NextViews, Views, KeyRequestCloses
    <2>3. g_address' = AddressOf(Derive(G_context'.bip32_path))
        BY <2>1 DEF IInv, AddressReviewCoherent
    <2>4. Question' = [kind |-> "address", path |-> G_context'.bip32_path,
                       amount |-> Zero, address |-> g_address']
        BY <2>1 DEF Question, Reviews
    <2>5. Question' = Device!AskAddress(Question'.path)
        BY <2>3, <2>4, SameValues DEF Device!AskAddress
    <2>6. QED
        BY <1>1, <2>1, <2>2, <2>5 DEF Device!Next, Device!ShowAddress, Device!Closes
<1>3. CASE ReviewTransaction(c)
    <2>1. running' = TRUE /\ screen' = "transaction" /\ answer' = answer
        BY <1>1, <1>3 DEF ReviewTransaction
    <2>2. Device!Grows
        <3>1. Session' = Held(G_context')
            BY <2>1, NextViews
        <3>2. QED
            BY <1>1, <1>3, <3>1, ChunkGrows, HeldGrows
    <2>3. /\ ParsedOK(G_context'.raw_tx)
          /\ g_amount' = AmountOf(Parsed(G_context'.raw_tx).value)
          /\ g_address' = AddressTo(Parsed(G_context'.raw_tx).to)
        BY <2>1 DEF IInv, TransactionReviewCoherent
    <2>4. Session'.data = G_context'.raw_tx /\ Session.path = G_context'.bip32_path
        BY <1>1, <1>3, <2>1, ChunkGrows, NextViews DEF Held
    <2>5. Question' = [kind |-> "transaction", path |-> G_context'.bip32_path,
                       amount |-> g_amount', address |-> g_address']
        BY <2>1 DEF Question, Reviews
    <2>6. Question' = Device!AskTransaction(Session.path, Session'.data)
        BY <2>3, <2>4, <2>5, SameValues, SameParser DEF Device!AskTransaction
    <2>7. Device!ParsedOK(Session'.data)
        BY <2>3, <2>4, SameParser
    <2>8. QED
        BY <1>1, <2>1, <2>2, <2>6, <2>7 DEF Device!Next, Device!ShowTransaction
<1>4. CASE screen \notin Reviews /\ screen' = screen
    <2>1. Question' = Device!NoQuestion
        BY <1>4, NextViews
    <2>2. CASE running' = FALSE /\ answer' = Lost
        <3>1. Session' = Device!Closed
            BY <2>2, NextViews
        <3>2. QED
            BY <1>1, <2>1, <2>2, <3>1, SameValues DEF Device!Next, Device!AnswerLost, Device!Closes
    <2>3. CASE running' = running /\ answer'.body.kind # "signature"
        <3>1. Session' = Held(G_context')
            BY <1>1, <2>3, NextViews
        <3>2. Device!Keeps \/ Device!Closes \/ Device!Opens \/ Device!Grows
            <4>1. CASE Refuse(c) \/ GetVersion(c) \/ GetAppName(c) \/ NoSession(c) \/ ChunkTooLong(c)
                <5>1. G_context' = G_context
                    BY <4>1 DEF Refuse, GetVersion, GetAppName, NoSession, ChunkTooLong
                <5>2. QED
                    BY <1>1, <3>1, <5>1 DEF Device!Keeps, Held
            <4>2. CASE GetPublicKey(c)
                BY <3>1, <4>2, KeyRequestCloses, Views DEF Device!Closes
            <4>3. CASE StartSigning(c)
                BY <3>1, <4>3, StartOpens DEF Device!Opens, Held
            <4>4. CASE MoreToCome(c) \/ ParseFails(c) \/ HashFails(c)
                       \/ TransactionDisplayFails(c) \/ ReviewTransaction(c)
                BY <1>1, <3>1, <4>4, ChunkGrows, HeldGrows
            <4>5. QED
                BY <4>1, <4>2, <4>3, <4>4 DEF Dispatch, SignTx
        <3>3. QED
            BY <1>1, <2>1, <2>3, <3>2 DEF Device!Next, Device!Answered
    <2>4. QED
        BY <1>4, <2>2, <2>3, PlainReply
<1>5. QED
    BY <1>2, <1>3, <1>4, DispatchScreen

-----------------------------------------------------------------------------
(***************************************************************************)
(* Decisions, the menu and the transport.                                  *)
(***************************************************************************)
\* Every decision answers the question on display.
LEMMA DecisionMaps ==
    ASSUME IInv, Decide
    PROVE  Device!Next
<1>1. /\ running /\ screen \in Reviews /\ running' = running
      /\ screen' = "menu"
    BY DEF Decide, ApproveAddress, RejectAddress, ApproveTransaction,
           SigningFails, RejectTransaction, Decides, Respond
<1>2. /\ G_context \in Context
      /\ \/ G_context' = G_context
         \/ \E st : G_context' = [G_context EXCEPT !.state = st]
    BY DEF Decide, ApproveAddress, RejectAddress, ApproveTransaction,
           SigningFails, RejectTransaction, IInv, TypeOK
<1>3. Session' = Session
    BY <1>1, <1>2, Views, NextViews DEF Held, InSession, Context
<1>4. Question' = Device!NoQuestion
    BY <1>1, NextViews DEF Reviews
<1>5. ASSUME NEW a, Respond(a) PROVE Device!Decided(a)
    BY <1>1, <1>3, <1>4, <1>5, SameValues DEF Respond, Device!Decided
<1>6. /\ Question = [kind |-> screen, path |-> G_context.bip32_path,
                     amount |-> IF screen = "transaction" THEN g_amount ELSE Zero,
                     address |-> g_address]
      /\ Question # Device!NoQuestion
    BY <1>1 DEF Question, Device!NoQuestion, Reviews
<1>7. CASE ApproveAddress
    <2>1. screen = "address" /\ G_context.raw_public_key = Derive(G_context.bip32_path)
        BY <1>1, <1>7 DEF ApproveAddress, Decides, IInv, AddressReviewCoherent,
                          TransactionReviewCoherent, Reviews
    <2>2. Device!Decided(Ok(PublicKey(Derive(G_context.bip32_path))))
        BY <1>5, <1>7, <2>1 DEF ApproveAddress
    <2>3. QED
        BY <1>6, <2>1, <2>2, SameValues DEF Device!Next, Device!Confirm
<1>8. CASE ApproveTransaction
    <2>1. /\ screen = "transaction"
          /\ G_context.m_hash = Keccak256(G_context.raw_tx)
          /\ g_amount = AmountOf(Parsed(G_context.raw_tx).value)
          /\ g_address = AddressTo(Parsed(G_context.raw_tx).to)
          /\ InSession(G_context)
        BY <1>1, <1>8 DEF ApproveTransaction, Decides, IInv, AddressReviewCoherent,
                          TransactionReviewCoherent, TransactionReady, InSession, Reviews
    <2>2. Session.path = G_context.bip32_path /\ Session.data = G_context.raw_tx
        BY <1>1, <2>1, Views DEF Held
    <2>3. Question = Device!AskTransaction(Session.path, Session.data)
        BY <1>6, <2>1, <2>2, SameValues, SameParser DEF Device!AskTransaction
    <2>4. Device!Decided(Ok(Sign(Session.path, Keccak256(Session.data))))
        BY <1>5, <1>8, <2>1, <2>2 DEF ApproveTransaction, SignatureOf
    <2>5. QED
        BY <1>6, <2>1, <2>3, <2>4, SameValues DEF Device!Next, Device!SignSession
<1>9. CASE RejectAddress \/ RejectTransaction
    <2>1. Device!Decided(Status("SW_DENY"))
        BY <1>5, <1>9 DEF RejectAddress, RejectTransaction
    <2>2. QED
        BY <1>6, <2>1, SameValues DEF Device!Next, Device!Refuse
<1>10. CASE SigningFails
    <2>1. screen = "transaction"
        BY <1>1, <1>10 DEF SigningFails, Decides, IInv, AddressReviewCoherent, Reviews
    <2>2. Device!Decided(Status("SW_SIGNATURE_FAIL"))
        BY <1>5, <1>10 DEF SigningFails
    <2>3. QED
        BY <1>6, <2>1, <2>2, SameValues DEF Device!Next, Device!Refuse
<1>11. QED
    BY <1>7, <1>8, <1>9, <1>10 DEF Decide

\* The application is the signing device it promises to be: the digest kept
\* since the last chunk, the strings drawn before the review and the callback
\* may stand for the session itself (sign_tx.c:76-101, bagl_display.c:151-171,
\* validate.c:28-76).
THEOREM AppIsADevice == Spec => DeviceSpec
<1>1. Init => Device!Init
    <2> SUFFICES ASSUME Init PROVE Device!Init
        OBVIOUS
    <2>1. /\ running = TRUE /\ screen \notin Reviews /\ answer = Lost
          /\ ~InSession(G_context) /\ G_context.raw_tx = <<>>
        BY DEF Init, Reviews, InSession, FreshContext
    <2>2. QED
        BY <2>1, Views, SameValues DEF Device!Init
<1>2. IInv /\ IInv' /\ [Next]_vars => [Device!Next]_(Device!vars)
    <2> SUFFICES ASSUME IInv, IInv', [Next]_vars
                 PROVE  Device!Next \/ UNCHANGED Device!vars
        OBVIOUS
    <2>1. ASSUME NEW c \in Commands, Dispatch(c) PROVE Device!Next
        BY <2>1, DispatchMaps
    <2>2. CASE Decide
        BY <2>2, DecisionMaps
    <2>3. CASE About \/ Back
        <3>1. /\ running' = running /\ G_context' = G_context /\ answer' = answer
              /\ screen \notin Reviews /\ screen' \notin Reviews
            BY <2>3 DEF About, Back, Reviews
        <3>2. QED
            BY <3>1, Views, NextViews DEF Device!vars
    <2>4. CASE Quit \/ ReceiveFails
        <3>1. running /\ running' = FALSE /\ answer' = answer
            BY <2>4 DEF Quit, ReceiveFails, IInv, TypeOK
        <3>2. QED
            BY <3>1, NextViews DEF Device!Next, Device!TurnOff, Device!Closes
    <2>5. CASE BadLength
        <3>1. /\ running /\ running' = running /\ screen \notin Reviews /\ screen' = screen
              /\ G_context' = G_context
              /\ answer' \in {Status("SW_WRONG_DATA_LENGTH"), Lost}
            BY <2>5 DEF BadLength, Respond, IInv, AnswerOwedIffReview
        <3>2. Session' = Session /\ Question = Device!NoQuestion /\ Question' = Device!NoQuestion
            BY <3>1, Views, NextViews
        <3>3. QED
            BY <3>1, <3>2, PlainBodies DEF Device!Next, Device!Answered, Device!Keeps
    <2>6. CASE Launch
        <3>1. /\ ~running /\ running' = TRUE /\ screen' \notin Reviews /\ answer' = Lost
              /\ ~InSession(G_context') /\ G_context'.raw_tx = <<>>
            BY <2>6 DEF Launch, Reviews, InSession, FreshContext
        <3>2. /\ Session = Device!Closed /\ Session' = Device!Closed
              /\ Question = Device!NoQuestion /\ Question' = Device!NoQuestion
            BY <3>1, Views, NextViews
        <3>3. QED
            BY <3>1, <3>2, SameValues DEF Device!Next, Device!TurnOn
    <2>7. CASE UNCHANGED vars
        BY <2>7 DEF vars, display, Device!vars, Session, Question
    <2>8. QED
        BY <2>1, <2>2, <2>3, <2>4, <2>5, <2>6, <2>7 DEF Next, Menu
<1>3. QED
    BY <1>1, <1>2, ReviewsCoherent, PTL DEF Spec, DeviceSpec, Device!Spec
=============================================================================
