----------------------------- MODULE ClientProofs -----------------------------
(***************************************************************************)
(* Theorems about Client: what the device holds for the client during a    *)
(* call, and what it signs, for all commands, paths, transactions and      *)
(* sizes.                                                                  *)
(***************************************************************************)
EXTENDS Client, AppProofs, TransactionProofs

-----------------------------------------------------------------------------
(***************************************************************************)
(* Pieces.                                                                 *)
(***************************************************************************)
\* The pieces cover the message, and the last of them is not empty.
LEMMA PiecesCover ==
    ASSUME NEW message \in Seq(Byte)
    PROVE  /\ Pieces(message) \in Nat
           /\ Len(message) =< Pieces(message) * MAX_APDU_LEN
           /\ Pieces(message) * MAX_APDU_LEN < Len(message) + MAX_APDU_LEN
<1> DEFINE len == Len(message)
           size == MAX_APDU_LEN
           pieces == (len + size - 1) \div size
<1>1. len \in Nat /\ size \in Nat \ {0}
    BY ClientAssumption
<1> HIDE DEF len, size
<1>2. pieces \in Nat
    BY <1>1
<1>3. pieces * size =< len + size - 1 /\ len + size - 1 < pieces * size + size
    BY <1>1, <1>2
<1>4. Pieces(message) = pieces
    BY DEF Pieces, len, size
<1> HIDE DEF pieces
<1>5. pieces * size \in Nat
    BY <1>1, <1>2
<1>6. len =< pieces * size /\ pieces * size < len + size
    BY <1>1, <1>3, <1>5
<1>7. QED
    BY <1>2, <1>4, <1>6 DEF len, size

\* Piece after piece, the message is given in full.
LEMMA PieceByPiece ==
    ASSUME NEW k, k.tx \in Seq(Byte), NEW i \in 1 .. Pieces(k.tx)
    PROVE  Given(k, i - 1) \o Piece(k.tx, i) = Given(k, i)
<1> DEFINE len == Len(k.tx)
           size == MAX_APDU_LEN
           before == (i - 1) * size
           after == i * size
           end == IF after < len THEN after ELSE len
<1>1. len \in Nat /\ size \in Nat \ {0} /\ Pieces(k.tx) \in Nat
    BY ClientAssumption, PiecesCover
<1>2. i \in Nat /\ i - 1 \in Nat /\ i =< Pieces(k.tx)
    BY <1>1
<1>3. before \in Nat /\ after = before + size
    BY <1>1, <1>2
<1>4. after =< Pieces(k.tx) * size
    BY <1>1, <1>2
<1>5. Pieces(k.tx) * size < len + size /\ Pieces(k.tx) * size \in Nat
    BY <1>1, PiecesCover
<1> HIDE DEF before, after, size, len
<1>6. before < len
    BY <1>1, <1>3, <1>4, <1>5
<1>7. end \in before .. len /\ before \in 0 .. len
    BY <1>1, <1>3, <1>6
<1>8. Given(k, i - 1) = SubSeq(k.tx, 1, before)
    BY <1>6 DEF Given, before, size, len
<1>9. Piece(k.tx, i) = SubSeq(k.tx, before + 1, end) /\ Given(k, i) = SubSeq(k.tx, 1, end)
    BY DEF Piece, Given, before, after, size, len
<1> HIDE DEF end
<1>10. SubSeq(k.tx, 1, before) \o SubSeq(k.tx, before + 1, end) = SubSeq(k.tx, 1, end)
    <2>1. 1 \in 1 .. len + 1 /\ before \in 1 - 1 .. len /\ end \in before .. len
        BY <1>1, <1>7
    <2>2. QED
        BY <2>1, ConcatAdjacentSubSeq DEF len
<1>11. QED
    BY <1>8, <1>9, <1>10

\* Before the first piece nothing is given, after the last everything.
LEMMA GivenEnds ==
    ASSUME NEW k, k.tx \in Seq(Byte)
    PROVE  /\ Given(k, 0) = <<>>
           /\ Given(k, Pieces(k.tx)) = k.tx
<1>1. Len(k.tx) \in Nat /\ MAX_APDU_LEN \in Nat
    BY ClientAssumption
<1>2. Given(k, 0) = SubSeq(k.tx, 1, 0)
    BY <1>1 DEF Given
<1>3. Pieces(k.tx) * MAX_APDU_LEN >= Len(k.tx) /\ Pieces(k.tx) * MAX_APDU_LEN \in Nat
    BY <1>1, PiecesCover
<1>4. Given(k, Pieces(k.tx)) = SubSeq(k.tx, 1, Len(k.tx))
    BY <1>1, <1>3 DEF Given
<1>5. QED
    BY <1>2, <1>4, SubSeqEmpty, SubSeqFull

-----------------------------------------------------------------------------
(***************************************************************************)
(* The commands of a call.                                                 *)
(***************************************************************************)
\* What the client is called with.
LEMMA RequestType ==
    ASSUME NEW k \in Requests
    PROVE  /\ k.method \in {"get_version", "get_app_name", "get_public_key",
                            "get_public_key_with_confirmation", "sign_tx"}
           /\ k.method = "sign_tx" => k.tx \in Seq(Byte) /\ k.tx # <<>>
           /\ Length(k) \in Nat \ {0}
           /\ k.method # "sign_tx" => Length(k) = 1
           /\ k.method = "sign_tx" => Length(k) = 1 + Pieces(k.tx)
<1>1. k.method \in {"get_version", "get_app_name", "get_public_key",
                    "get_public_key_with_confirmation", "sign_tx"}
    BY DEF Requests
<1>2. k.method = "sign_tx" => k.tx \in Seq(Byte) /\ k.tx # <<>>
    BY ClientAssumption DEF Requests
<1>3. k.method = "sign_tx" => Pieces(k.tx) \in Nat
    BY <1>2, PiecesCover
<1>4. QED
    BY <1>1, <1>2, <1>3 DEF Length

\* The i-th command is one the device can get, and chunks come from sign_tx.
LEMMA CommandsOfCall ==
    ASSUME NEW k \in Requests, NEW i \in 1 .. Length(k)
    PROVE  /\ CommandOf(k, i) \in Commands
           /\ CommandOf(k, i).ins = "SIGN_TX" => k.method = "sign_tx"
           /\ k.method = "sign_tx" /\ i = 1 =>
                 /\ CommandOf(k, i).ins = "SIGN_TX"
                 /\ CommandOf(k, i).p1 = P1_START
                 /\ CommandOf(k, i).data = k.path
           /\ k.method = "sign_tx" /\ i # 1 =>
                 /\ CommandOf(k, i).ins = "SIGN_TX"
                 /\ CommandOf(k, i).p1 # P1_START
                 /\ CommandOf(k, i).data = Piece(k.tx, i - 1)
                 /\ CommandOf(k, i).p2 = P2_LAST => i = Length(k)
<1>1. CommandOf(k, i) \in Commands
    BY RequestsAssumption
<1>2. k.method = "sign_tx" => CommandOf(k, i) = sign_tx(k, i)
    BY DEF CommandOf
<1>3. k.method # "sign_tx" => CommandOf(k, i).ins # "SIGN_TX"
    BY RequestType DEF CommandOf, Exchange
<1>4. i = 1 => /\ sign_tx(k, i).ins = "SIGN_TX"
               /\ sign_tx(k, i).p1 = P1_START
               /\ sign_tx(k, i).data = k.path
    BY DEF sign_tx, Exchange
<1>5. i # 1 => /\ sign_tx(k, i).ins = "SIGN_TX"
               /\ sign_tx(k, i).p1 # P1_START
               /\ sign_tx(k, i).data = Piece(k.tx, i - 1)
               /\ sign_tx(k, i).p2 = P2_LAST => i = Length(k)
    BY RequestType DEF sign_tx, Exchange, P1_START, P2_LAST, P2_MORE
<1>6. QED
    BY <1>1, <1>2, <1>3, <1>4, <1>5

\* The call in progress has a next command, and it is one of the device's.
LEMMA NextCommand ==
    ASSUME CTypeOK, Send
    PROVE  /\ call \in Requests /\ idx \in Nat /\ idx + 1 \in 1 .. Length(call)
           /\ progress = "calling"
           /\ CommandOf(call, idx + 1) \in Commands
           /\ Dispatch(CommandOf(call, idx + 1))
           /\ GoesOn
<1>1. progress = "calling" /\ Dispatch(CommandOf(call, idx + 1)) /\ GoesOn
    BY DEF Send
<1>2. call \in Requests /\ idx \in 0 .. Length(call) - 1
    BY <1>1 DEF CTypeOK
<1>3. Length(call) \in Nat \ {0}
    BY <1>2, RequestType
<1>4. idx \in Nat /\ idx + 1 \in 1 .. Length(call)
    BY <1>2, <1>3
<1>5. QED
    BY <1>1, <1>2, <1>4, CommandsOfCall

-----------------------------------------------------------------------------
(***************************************************************************)
(* The client's own state.                                                 *)
(***************************************************************************)
\* The client is idle, or at a command of a call.
THEOREM ClientTypeCorrect == CSpec => []CTypeOK
<1>1. CInit => CTypeOK
    BY DEF CInit, CTypeOK
<1>2. CTypeOK /\ [CNext]_cvars => CTypeOK'
    <2> SUFFICES ASSUME CTypeOK, [CNext]_cvars PROVE CTypeOK'
        OBVIOUS
    <2>1. asked' \in Requests \union {NoCall}
        <3>1. CASE Send
            BY <3>1, NextCommand DEF Send, CTypeOK
        <3>2. CASE ~Send
            BY <3>2 DEF CNext, cvars, Call, Decided, BodyRaises, Raise, DeviceAlone, Forgets,
                        CTypeOK
        <3>3. QED
            BY <3>1, <3>2
    <2>2. ASSUME NEW a, Ends(a) \/ Returns(a) PROVE CTypeOK'
        BY <2>1, <2>2 DEF Ends, Returns, CTypeOK
    <2>3. ASSUME NEW k \in Requests, Call(k) PROVE CTypeOK'
        <3>1. idx' = 0 /\ call' = k /\ progress' = "calling"
            BY <2>3 DEF Call, CTypeOK
        <3>2. Length(k) \in Nat \ {0}
            BY RequestType
        <3>3. QED
            BY <2>1, <3>1, <3>2 DEF CTypeOK
    <2>4. CASE Send
        <3>1. call \in Requests /\ idx \in Nat /\ idx + 1 \in 1 .. Length(call) /\ GoesOn
            BY <2>4, NextCommand
        <3>2. Length(call) \in Nat
            BY <3>1, RequestType
        <3>3. CASE progress' = "waiting" /\ UNCHANGED <<call, idx, result>>
            BY <2>1, <3>1, <3>2, <3>3 DEF CTypeOK
        <3>4. CASE Ends(answer')
            BY <2>2, <3>4
        <3>5. CASE idx' = idx + 1 /\ UNCHANGED <<call, progress, result>> /\ idx + 1 # Length(call)
            BY <2>1, <2>4, <3>1, <3>2, <3>5 DEF CTypeOK, Send
        <3>6. QED
            BY <3>1, <3>3, <3>4, <3>5 DEF GoesOn
    <2>5. CASE Decided
        <3>1. CASE progress = "waiting"
            BY <2>2, <2>5, <3>1 DEF Decided
        <3>2. CASE progress # "waiting"
            BY <2>1, <2>5, <3>2 DEF Decided, CTypeOK
        <3>3. QED
            BY <3>1, <3>2
    <2>6. CASE BodyRaises \/ Raise
        BY <2>2, <2>6 DEF BodyRaises, Raise
    <2>7. CASE DeviceAlone
        BY <2>1, <2>7 DEF DeviceAlone, CTypeOK
    <2>8. CASE UNCHANGED cvars
        BY <2>1, <2>8 DEF cvars, CTypeOK
    <2>9. QED
        BY <2>3, <2>4, <2>5, <2>6, <2>7, <2>8 DEF CNext
<1>3. QED
    BY <1>1, <1>2, PTL DEF CSpec

\* A client's behaviour is one of the device's: its commands are among those the
\* theorems about App are about.
LEMMA ClientDrivesDevice == CSpec => Spec
<1>1. CInit => Init
    BY DEF CInit
<1>2. CTypeOK /\ [CNext]_cvars => [Next]_vars
    <2> SUFFICES ASSUME CTypeOK, [CNext]_cvars PROVE Next \/ UNCHANGED vars
        OBVIOUS
    <2>1. CASE Send
        BY <2>1, NextCommand DEF Next
    <2>2. CASE ~Send
        BY <2>2 DEF CNext, cvars, Call, Decided, BodyRaises, Raise, DeviceAlone, Next
    <2>3. QED
        BY <2>1, <2>2
<1>3. QED
    BY <1>1, <1>2, ClientTypeCorrect, PTL DEF CSpec, Spec

\* The review on display is that of the call that asked for it, over or not: the
\* session has that call's path and its whole transaction, and a call that waits
\* is that call.
ReviewIsOfAsked ==
    (running /\ owed) =>
        /\ asked \in Requests
        /\ asked.method = IF screen = "transaction" THEN "sign_tx"
                          ELSE "get_public_key_with_confirmation"
        /\ G_context.bip32_path = ReadPath(asked.path)
        /\ screen = "transaction" => G_context.raw_tx = asked.tx
        /\ progress = "waiting" => call = asked

CInv ==
    /\ CTypeOK
    /\ DeviceHoldsTheBeginning
    /\ ReviewIsOfAsked

-----------------------------------------------------------------------------
(***************************************************************************)
(* A command of the client.                                                *)
(***************************************************************************)
\* The client goes on after an answer only when it was SW_OK; only the path and
\* a chunk with more to come are answered so in the middle of a call.
LEMMA AcceptedInCall ==
    ASSUME IInv, CTypeOK, Send, ~owed', progress' # "idle"
    PROVE  /\ idx' = idx + 1 /\ call' = call /\ progress' = "calling"
           /\ idx + 1 # Length(call)
           /\ call.method = "sign_tx"
           /\ running' => \/ idx = 0 /\ StartSigning(CommandOf(call, 1))
                          \/ idx # 0 /\ MoreToCome(CommandOf(call, idx + 1))
<1> DEFINE c == CommandOf(call, idx + 1)
<1>1. /\ call \in Requests /\ idx \in Nat /\ idx + 1 \in 1 .. Length(call)
      /\ progress = "calling" /\ c \in Commands /\ Dispatch(c) /\ GoesOn
    BY NextCommand
<1>2. /\ answer'.sw = "SW_OK"
      /\ idx' = idx + 1 /\ call' = call /\ progress' = "calling"
      /\ idx + 1 # Length(call)
    BY <1>1 DEF GoesOn, Ends, Returns, IsError
<1>3. Length(call) # 1
    BY <1>1, <1>2
<1>4. call.method = "sign_tx"
    BY <1>1, <1>3, RequestType
<1>5. /\ c.ins = "SIGN_TX" /\ (idx = 0 <=> c.p1 = P1_START)
      /\ c.p2 = P2_LAST => idx = 0
    BY <1>1, <1>2, <1>4, CommandsOfCall
<1> HIDE DEF c
<1>6. ASSUME NEW sw, Reply(Status(sw)), running' PROVE sw = "SW_OK"
    <2>1. running
        BY <1>1, DispatchReceives
    <2>2. answer' = Status(sw)
        BY <1>6, <2>1 DEF Reply
    <2>3. QED
        BY <1>2, <2>2 DEF Status
<1>7. CASE Refuse(c)
    <2>1. Refusal(c) # "SW_OK"
        BY DEF Refusal
    <2>2. ~running'
        BY <1>6, <1>7, <2>1 DEF Refuse
    <2>3. QED
        BY <1>2, <1>4, <2>2
<1>8. CASE GetVersion(c) \/ GetAppName(c) \/ GetPublicKey(c)
    BY <1>5, <1>8 DEF GetVersion, GetAppName, GetPublicKey, BadKeyPath, KeyDerivationFails,
                      SendKey, AddressDisplayFails, ReviewAddress, Calls
<1>9. CASE StartSigning(c)
    BY <1>1, <1>2, <1>4, <1>5, <1>9 DEF StartSigning, c
<1>10. CASE NoSession(c) \/ ChunkTooLong(c) \/ ParseFails(c) \/ HashFails(c)
    <2>1. ~running'
        BY <1>6, <1>10 DEF NoSession, ChunkTooLong, ParseFails, HashFails
    <2>2. QED
        BY <1>2, <1>4, <2>1
<1>11. CASE TransactionDisplayFails(c) \/ ReviewTransaction(c)
    BY <1>5, <1>11 DEF TransactionDisplayFails, ReviewTransaction, ParsedChunk, LastChunk,
                       StoresChunk, Chunk
<1>12. CASE MoreToCome(c)
    BY <1>1, <1>2, <1>4, <1>5, <1>12 DEF MoreToCome, StoresChunk, Chunk, c
<1>13. QED
    BY <1>1, <1>7, <1>8, <1>9, <1>10, <1>11, <1>12 DEF Dispatch, SignTx

\* A chunk of the call that is stored extends what the device holds to the next
\* piece.
LEMMA ChunkInCall ==
    ASSUME IInv, CInv, NEW i \in Nat \ {0}, call \in Requests, call.method = "sign_tx",
           i + 1 \in 1 .. Length(call), idx = i, progress = "calling",
           LET c == CommandOf(call, i + 1) IN
             MoreToCome(c) \/ ParseFails(c) \/ HashFails(c)
             \/ TransactionDisplayFails(c) \/ ReviewTransaction(c)
    PROVE  /\ G_context'.bip32_path = ReadPath(call.path)
           /\ G_context'.raw_tx = Given(call, i)
<1> DEFINE c == CommandOf(call, i + 1)
<1>1. c \in Commands /\ c.data = Piece(call.tx, i)
    BY CommandsOfCall
<1>2. /\ InSession(G_context)
      /\ G_context'.bip32_path = G_context.bip32_path
      /\ G_context'.raw_tx = Stored(G_context, c.data).raw_tx
    BY <1>1, ChunkGrows
<1>3. Stored(G_context, c.data).raw_tx = G_context.raw_tx \o c.data
    BY DEF Stored, IInv, TypeOK, Context
<1>4. running
    BY DEF MoreToCome, ParseFails, HashFails, TransactionDisplayFails, ReviewTransaction,
           ParsedChunk, LastChunk, StoresChunk, Chunk, Calls, Receive
<1>5. G_context.bip32_path = ReadPath(call.path) /\ G_context.raw_tx = Given(call, i - 1)
    BY <1>2, <1>4 DEF CInv, DeviceHoldsTheBeginning
<1>6. call.tx \in Seq(Byte) /\ i \in 1 .. Pieces(call.tx)
    <2>1. call.tx \in Seq(Byte) /\ Length(call) = 1 + Pieces(call.tx)
        BY RequestType
    <2>2. Pieces(call.tx) \in Nat
        BY <2>1, PiecesCover
    <2>3. QED
        BY <2>1, <2>2
<1>7. Given(call, i - 1) \o Piece(call.tx, i) = Given(call, i)
    BY <1>6, PieceByPiece
<1>8. QED
    BY <1>1, <1>2, <1>3, <1>5, <1>7

\* A command of the client keeps the invariant.
LEMMA SendKeeps ==
    ASSUME IInv, IInv', CInv, CTypeOK', Send
    PROVE  CInv'
<1> DEFINE c == CommandOf(call, idx + 1)
<1>1. /\ call \in Requests /\ idx \in Nat /\ idx + 1 \in 1 .. Length(call)
      /\ progress = "calling" /\ c \in Commands /\ Dispatch(c) /\ GoesOn
    BY NextCommand DEF CInv
<1>2. CASE owed'
    <2>1. progress' = "waiting" /\ call' = call /\ idx' = idx /\ asked' = call
        BY <1>1, <1>2 DEF GoesOn, Send
    <2>2. CASE ReviewAddress(c)
        <3>1. /\ c.ins = "GET_PUBLIC_KEY" /\ c.p1 = 1 /\ screen' = "address"
              /\ G_context' = KeyContext(c)
            BY <2>2 DEF ReviewAddress, Calls
        <3>2. call.method = "get_public_key_with_confirmation" /\ c.data = call.path
            BY <1>1, <3>1, RequestType DEF CommandOf, Exchange, sign_tx
        <3>3. G_context'.bip32_path = ReadPath(call.path)
            BY <3>1, <3>2 DEF KeyContext, AddressContext, FreshContext
        <3>4. QED
            BY <1>1, <2>1, <3>1, <3>2, <3>3
               DEF CInv, DeviceHoldsTheBeginning, ReviewIsOfAsked
    <2>3. CASE ReviewTransaction(c)
        <3>1. c.ins = "SIGN_TX" /\ c.p1 # P1_START /\ c.p2 = P2_LAST /\ screen' = "transaction"
            BY <2>3 DEF ReviewTransaction, ParsedChunk, LastChunk, StoresChunk, Chunk, Calls
        <3>2. call.method = "sign_tx" /\ idx # 0 /\ idx + 1 = Length(call)
            BY <1>1, <3>1, CommandsOfCall
        <3>3. /\ G_context'.bip32_path = ReadPath(call.path)
              /\ G_context'.raw_tx = Given(call, idx)
            BY <1>1, <2>3, <3>2, ChunkInCall
        <3>4. idx = Pieces(call.tx) /\ call.tx \in Seq(Byte)
            <4>1. Length(call) = 1 + Pieces(call.tx) /\ call.tx \in Seq(Byte)
                BY <1>1, <3>2, RequestType
            <4>2. Pieces(call.tx) \in Nat
                BY <4>1, PiecesCover
            <4>3. QED
                BY <1>1, <3>2, <4>1, <4>2
        <3>5. G_context'.raw_tx = call.tx
            BY <3>3, <3>4, GivenEnds
        <3>6. DeviceHoldsTheBeginning'
            BY <2>1, <3>3 DEF DeviceHoldsTheBeginning
        <3>7. ReviewIsOfAsked'
            BY <1>1, <2>1, <3>1, <3>2, <3>3, <3>5 DEF ReviewIsOfAsked
        <3>8. QED
            BY <3>6, <3>7 DEF CInv
    <2>4. QED
        BY <1>1, <1>2, <2>2, <2>3, DispatchScreen
<1>3. CASE ~owed'
    <2>1. ReviewIsOfAsked'
        BY <1>3 DEF ReviewIsOfAsked
    <2>2. CASE progress' = "idle"
        <3>1. call' = NoCall
            BY <1>1, <1>3, <2>2 DEF GoesOn, Ends, Returns
        <3>2. QED
            BY <2>1, <3>1 DEF CInv, DeviceHoldsTheBeginning, NoCall
    <2>3. CASE progress' # "idle"
        <3>1. /\ idx' = idx + 1 /\ call' = call /\ progress' = "calling"
              /\ call.method = "sign_tx"
              /\ running' => \/ idx = 0 /\ StartSigning(CommandOf(call, 1))
                             \/ idx # 0 /\ MoreToCome(CommandOf(call, idx + 1))
            BY <1>3, <2>3, AcceptedInCall DEF CInv
        <3>2. CASE ~running'
            BY <2>1, <3>2 DEF CInv, DeviceHoldsTheBeginning
        <3>3. CASE idx = 0 /\ StartSigning(CommandOf(call, 1))
            <4>1. /\ CommandOf(call, 1) \in Commands
                  /\ CommandOf(call, 1).data = call.path
                BY <1>1, <3>1, <3>3, CommandsOfCall
            <4>2. G_context'.bip32_path = ReadPath(call.path) /\ G_context'.raw_tx = <<>>
                BY <3>3, <4>1, StartOpens
            <4>3. Given(call, 0) = <<>>
                BY <1>1, <3>1, RequestType, GivenEnds
            <4>4. idx' - 1 = 0
                BY <3>1, <3>3
            <4>5. QED
                BY <2>1, <3>1, <4>2, <4>3, <4>4 DEF CInv, DeviceHoldsTheBeginning
        <3>4. CASE idx # 0 /\ MoreToCome(CommandOf(call, idx + 1))
            <4>1. /\ G_context'.bip32_path = ReadPath(call.path)
                  /\ G_context'.raw_tx = Given(call, idx)
                BY <1>1, <3>1, <3>4, ChunkInCall
            <4>2. idx' - 1 = idx
                BY <1>1, <3>1
            <4>3. QED
                BY <2>1, <3>1, <4>1, <4>2 DEF CInv, DeviceHoldsTheBeginning
        <3>5. QED
            BY <3>1, <3>2, <3>3, <3>4
    <2>4. QED
        BY <2>2, <2>3
<1>4. QED
    BY <1>2, <1>3

\* A decision takes the review off the display and leaves the session's path and
\* bytes as they were.
LEMMA DecisionKeepsSession ==
    ASSUME IInv, Decide
    PROVE  /\ running /\ running' /\ owed /\ owed' = FALSE /\ screen \in Reviews
           /\ G_context'.bip32_path = G_context.bip32_path
           /\ G_context'.raw_tx = G_context.raw_tx
           /\ InSession(G_context') <=> InSession(G_context)
           /\ ~InSession(G_context) => G_context' = G_context
<1>1. /\ running /\ running' = running /\ owed' = FALSE /\ screen \in Reviews
      /\ g_validate_callback = "transaction" \/ G_context' = G_context
      /\ \/ G_context' = G_context
         \/ \E state : G_context' = [G_context EXCEPT !.state = state]
    BY DEF Decide, ApproveAddress, RejectAddress, ApproveTransaction, SigningFails,
           RejectTransaction, Decides, Respond
<1>2. owed
    BY <1>1 DEF IInv, AnswerOwedIffReview
<1>3. ASSUME NEW state
      PROVE  LET ctx == [G_context EXCEPT !.state = state]
             IN  /\ ctx.bip32_path = G_context.bip32_path
                 /\ ctx.raw_tx = G_context.raw_tx
                 /\ ctx.req_type = G_context.req_type
    BY DEF IInv, TypeOK, Context
<1>4. ~InSession(G_context) => g_validate_callback # "transaction"
    BY <1>1 DEF IInv, AddressReviewCoherent, TransactionReviewCoherent, TransactionReady,
                InSession, Reviews
<1>5. QED
    BY <1>1, <1>2, <1>3, <1>4 DEF InSession

\* What the device does alone ends a review or leaves it as it is.
LEMMA AloneKeepsReview ==
    ASSUME IInv, DeviceAlone, running', owed'
    PROVE  FALSE
<1>1. CASE Menu
    BY <1>1 DEF Menu, About, Back, Quit, IInv, AnswerOwedIffReview, Reviews
<1>2. CASE ReceiveFails \/ Launch
    BY <1>2 DEF ReceiveFails, Launch
<1>3. QED
    BY <1>1, <1>2 DEF DeviceAlone

\* So does everything else.
LEMMA OthersKeep ==
    ASSUME IInv, CInv, CTypeOK', [CNext]_cvars, ~Send
    PROVE  CInv'
<1>1. ASSUME NEW k \in Requests, Call(k) PROVE CInv'
    <2>1. idx' = 0 /\ progress' = "calling" /\ UNCHANGED <<vars, asked>>
        BY <1>1 DEF Call, CInv, CTypeOK
    <2>2. QED
        BY <2>1 DEF vars, CInv, DeviceHoldsTheBeginning, ReviewIsOfAsked
<1>2. CASE Decided
    <2>1. ReviewIsOfAsked'
        BY <1>2, DecisionKeepsSession DEF Decided, ReviewIsOfAsked
    <2>2. CASE progress = "waiting"
        <3>1. call' = NoCall
            BY <1>2, <2>2 DEF Decided, Ends, Returns
        <3>2. QED
            BY <2>1, <3>1 DEF CInv, DeviceHoldsTheBeginning, NoCall
    <2>3. CASE progress # "waiting"
        <3>1. UNCHANGED <<call, idx, progress>>
            BY <1>2, <2>3 DEF Decided
        <3>2. QED
            BY <1>2, <2>1, <3>1, DecisionKeepsSession
               DEF Decided, CInv, DeviceHoldsTheBeginning
    <2>4. QED
        BY <2>2, <2>3
<1>3. CASE BodyRaises \/ Raise
    <2>1. call' = NoCall /\ progress' = "idle" /\ UNCHANGED <<vars, asked>>
        BY <1>3 DEF BodyRaises, Raise, Returns
    <2>2. QED
        BY <2>1 DEF vars, CInv, DeviceHoldsTheBeginning, ReviewIsOfAsked, NoCall
<1>4. CASE DeviceAlone
    <2>1. ReviewIsOfAsked'
        BY <1>4, AloneKeepsReview DEF ReviewIsOfAsked
    <2>2. UNCHANGED <<call, idx, progress>>
        BY <1>4 DEF DeviceAlone
    <2>3. CASE Menu \/ ReceiveFails
        BY <2>1, <2>2, <2>3 DEF Menu, About, Back, Quit, ReceiveFails,
           CInv, DeviceHoldsTheBeginning
    <2>4. CASE Launch
        <3>1. ~InSession(G_context')
            BY <2>4 DEF Launch, InSession, FreshContext
        <3>2. QED
            BY <2>1, <2>2, <3>1 DEF CInv, DeviceHoldsTheBeginning
    <2>5. QED
        BY <1>4, <2>3, <2>4 DEF DeviceAlone
<1>5. CASE UNCHANGED cvars
    BY <1>5 DEF cvars, vars, CInv, DeviceHoldsTheBeginning, ReviewIsOfAsked
<1>6. QED
    BY <1>1, <1>2, <1>3, <1>4, <1>5 DEF CNext

-----------------------------------------------------------------------------
\* The client and the device agree on the call in progress, and the device and the
\* call that asked for its review on what is reviewed: CInv, along every
\* behaviour, with calls that end under their review among them.
THEOREM CallsCoherent == CSpec => []CInv
<1>1. CInit => CInv
    BY DEF CInit, Init, CInv, CTypeOK, DeviceHoldsTheBeginning, ReviewIsOfAsked, NoCall
<1>2. IInv /\ IInv' /\ CTypeOK' /\ CInv /\ [CNext]_cvars => CInv'
    BY SendKeeps, OthersKeep
<1>3. QED
    BY <1>1, <1>2, ClientDrivesDevice, ClientTypeCorrect, ReviewsCoherent, PTL DEF CSpec

\* In the middle of a call the device holds what the call has given so far,
\* whatever an earlier call left behind.
THEOREM BeginningCorrect == CSpec => []DeviceHoldsTheBeginning
<1>1. CInv => DeviceHoldsTheBeginning
    BY DEF CInv
<1>2. QED
    BY <1>1, CallsCoherent, PTL

\* A decision that hands over a signature hands over the one its review was for.
LEMMA DecisionSigns ==
    ASSUME IInv, CInv, Decide, answer'.body.kind = "signature"
    PROVE  asked.method = "sign_tx" /\ answer'.body = SignatureFor(asked)
<1>1. CASE ApproveTransaction
    <2>1. /\ running /\ screen \in Reviews /\ g_validate_callback = "transaction"
          /\ answer' \in {Ok(SignatureOf(G_context)), Lost}
        BY <1>1 DEF ApproveTransaction, Decides, Respond
    <2>2. screen = "transaction" /\ owed
        BY <2>1 DEF IInv, AddressReviewCoherent, AnswerOwedIffReview, Reviews
    <2>3. answer'.body = SignatureOf(G_context)
        BY <2>1 DEF Lost, Status, Body, Ok
    <2>4. G_context.m_hash = Keccak256(G_context.raw_tx)
        BY <2>1, <2>2 DEF IInv, TransactionReviewCoherent
    <2>5. /\ asked.method = "sign_tx"
          /\ G_context.bip32_path = ReadPath(asked.path)
          /\ G_context.raw_tx = asked.tx
        BY <2>1, <2>2 DEF CInv, ReviewIsOfAsked
    <2>6. QED
        BY <2>3, <2>4, <2>5 DEF SignatureOf, SignatureFor
<1>2. CASE ApproveAddress \/ RejectAddress \/ SigningFails \/ RejectTransaction
    BY <1>2, PlainBodies DEF ApproveAddress, RejectAddress, SigningFails,
                             RejectTransaction, Respond
<1>3. QED
    BY <1>1, <1>2 DEF Decide

\* What the device signs is the transaction of the call that put up the review,
\* whole, with that call's path, whether or not that call still waits; and no call
\* ends with a signature but a sign_tx with its own.
THEOREM SignedCorrect == CSpec => SignedAsIntended
<1> DEFINE Step ==
        /\ Answers /\ answer'.body.kind = "signature" =>
              asked.method = "sign_tx" /\ answer'.body = SignatureFor(asked)
        /\ progress # "idle" /\ progress' = "idle" /\ result'.body.kind = "signature" =>
              call.method = "sign_tx" /\ result'.body = SignatureFor(call)
<1>1. IInv /\ CInv /\ [CNext]_cvars => [Step]_cvars
    <2> SUFFICES ASSUME IInv, CInv, CNext PROVE Step
        OBVIOUS
    <2>1. Answers /\ answer'.body.kind = "signature" =>
             asked.method = "sign_tx" /\ answer'.body = SignatureFor(asked)
        <3> SUFFICES ASSUME Answers, answer'.body.kind = "signature"
                     PROVE  asked.method = "sign_tx" /\ answer'.body = SignatureFor(asked)
            OBVIOUS
        <3>1. ~Send
            BY NextCommand, DispatchSendsNoSignature DEF CInv
        <3>2. CASE Decide
            BY <3>2, DecisionSigns
        <3>3. CASE Menu \/ ReceiveFails \/ UNCHANGED vars
            BY <3>3 DEF Menu, About, Back, Quit, ReceiveFails, Answers, vars
        <3>4. CASE Launch
            BY <3>4 DEF Launch, Lost, Status, Body
        <3>5. QED
            BY <3>1, <3>2, <3>3, <3>4
               DEF CNext, Call, Decided, BodyRaises, Raise, DeviceAlone
    <2>2. progress # "idle" /\ progress' = "idle" /\ result'.body.kind = "signature" =>
             call.method = "sign_tx" /\ result'.body = SignatureFor(call)
        <3> SUFFICES ASSUME progress # "idle", progress' = "idle",
                            result'.body.kind = "signature"
                     PROVE  call.method = "sign_tx" /\ result'.body = SignatureFor(call)
            OBVIOUS
        <3>1. result' # Lost
            BY PlainBodies
        <3>2. CASE Send
            <4>1. ~owed' /\ result' = answer'
                BY <3>1, <3>2, NextCommand DEF GoesOn, Ends, Returns, CInv
            <4>2. QED
                BY <3>2, <4>1, NextCommand, DispatchSendsNoSignature DEF CInv
        <3>3. CASE Decided
            <4>1. Decide /\ progress = "waiting" /\ result' = answer'
                BY <3>1, <3>3 DEF Decided, Ends, Returns
            <4>2. call = asked
                BY <4>1, DecisionKeepsSession DEF CInv, ReviewIsOfAsked
            <4>3. QED
                BY <4>1, <4>2, DecisionSigns
        <3>4. QED
            BY <3>1, <3>2, <3>3 DEF CNext, Call, BodyRaises, Raise, Returns, DeviceAlone
    <2>3. QED
        BY <2>1, <2>2
<1>2. QED
    BY <1>1, ClientDrivesDevice, ReviewsCoherent, CallsCoherent, PTL DEF CSpec, SignedAsIntended

-----------------------------------------------------------------------------
(***************************************************************************)
(* What the device makes of the client's commands.                         *)
(***************************************************************************)
\* How far a call can get: the pieces that were accepted fit raw_tx.
PiecesHaveFit ==
    (call.method = "sign_tx" /\ idx > 1) => (idx - 1) * MAX_APDU_LEN =< MAX_TRANSACTION_LEN

\* A session that is missing in the middle of a call was lost by a restart.
LostByRestart ==
    (running /\ ~InSession(G_context) /\ call.method = "sign_tx" /\ idx > 0) =>
        G_context = FreshContext("CONFIRM_ADDRESS")

EInv == PiecesHaveFit /\ LostByRestart

\* Answers, taken apart.
LEMMA Answered ==
    /\ \A sw : Status(sw).sw = sw
    /\ \A body : Ok(body).sw = "SW_OK" /\ Ok(body).body = body
    /\ Lost.sw = "lost"
    /\ \A a : Reply(a) => answer' = a \/ (answer' = Lost /\ ~running')
    /\ \A a : Respond(a) => answer' = a \/ answer' = Lost
<1>1. \A sw : Status(sw).sw = sw
    BY DEF Status
<1>2. \A body : Ok(body).sw = "SW_OK" /\ Ok(body).body = body
    BY DEF Ok
<1>3. Lost.sw = "lost"
    BY <1>1 DEF Lost
<1>4. ASSUME NEW a, Reply(a) PROVE answer' = a \/ (answer' = Lost /\ ~running')
    BY <1>4 DEF Reply
<1>5. ASSUME NEW a, Respond(a) PROVE answer' = a \/ answer' = Lost
    BY <1>5 DEF Respond
<1>6. QED
    BY <1>1, <1>2, <1>3, <1>4, <1>5

\* A piece that is not the last is full, and no piece is empty.
LEMMA PieceLengths ==
    ASSUME NEW k, k.tx \in Seq(Byte), NEW i \in 1 .. Pieces(k.tx)
    PROVE  /\ Piece(k.tx, i) # <<>>
           /\ i # Pieces(k.tx) => Len(Given(k, i)) = i * MAX_APDU_LEN
<1> DEFINE len == Len(k.tx)
           size == MAX_APDU_LEN
           before == (i - 1) * size
           after == i * size
           end == IF after < len THEN after ELSE len
<1>1. len \in Nat /\ size \in Nat \ {0} /\ Pieces(k.tx) \in Nat
    BY ClientAssumption, PiecesCover
<1>2. i \in Nat /\ i - 1 \in Nat /\ i =< Pieces(k.tx)
    BY <1>1
<1>3. before \in Nat /\ after = before + size
    BY <1>1, <1>2
<1>4. after =< Pieces(k.tx) * size
    BY <1>1, <1>2
<1>5. i # Pieces(k.tx) => after + size =< Pieces(k.tx) * size
    <2> SUFFICES ASSUME i # Pieces(k.tx) PROVE after + size =< Pieces(k.tx) * size
        OBVIOUS
    <2>1. i + 1 =< Pieces(k.tx)
        BY <1>1, <1>2
    <2>2. (i + 1) * size =< Pieces(k.tx) * size
        BY <1>1, <1>2, <2>1
    <2>3. (i + 1) * size = after + size
        BY <1>1, <1>2
    <2>4. QED
        BY <2>2, <2>3
<1>6. Pieces(k.tx) * size < len + size /\ Pieces(k.tx) * size \in Nat
    BY <1>1, PiecesCover
<1>7. Piece(k.tx, i) = SubSeq(k.tx, before + 1, end) /\ Given(k, i) = SubSeq(k.tx, 1, end)
    BY DEF Piece, Given
<1> HIDE DEF before, after, size, len
<1>8. before < len /\ (i # Pieces(k.tx) => after < len)
    BY <1>1, <1>3, <1>4, <1>5, <1>6
<1>9. end \in Nat /\ before + 1 =< end /\ end =< len /\ (after < len => end = after)
    BY <1>1, <1>3, <1>8
<1> HIDE DEF end
<1>10. \A j \in 1 .. end : k.tx[j] \in Byte
    <2>1. \A j \in 1 .. len : k.tx[j] \in Byte
        BY ElementOfSeq DEF len
    <2>2. QED
        BY <1>1, <1>9, <2>1
<1>11. Len(SubSeq(k.tx, 1, end)) = end
    BY <1>3, <1>9, <1>10, SubSeqProperties
<1>12. Piece(k.tx, i) # <<>>
    <2> DEFINE m == before + 1
    <2>1. m \in Int /\ end \in Int /\ m =< end /\ \A j \in m .. end : k.tx[j] \in Byte
        BY <1>3, <1>9, <1>10
    <2> HIDE DEF m
    <2>2. Len(SubSeq(k.tx, m, end)) = end - m + 1
        BY <2>1, SubSeqProperties
    <2> DEFINE piece == SubSeq(k.tx, m, end)
    <2>3. Len(piece) # 0
        BY <2>1, <2>2
    <2>4. Piece(k.tx, i) = piece
        BY <1>7 DEF m
    <2> HIDE DEF piece
    <2>5. QED
        BY <2>3, <2>4
<1>13. i # Pieces(k.tx) => Len(Given(k, i)) = after
    BY <1>7, <1>8, <1>9, <1>11
<1>14. QED
    BY <1>12, <1>13 DEF after, size

\* What is given of a message is no longer than the message.
LEMMA GivenIsShorter ==
    ASSUME NEW k, k.tx \in Seq(Byte), NEW i \in 1 .. Pieces(k.tx)
    PROVE  Len(Given(k, i)) =< Len(k.tx)
<1>1. /\ Len(k.tx) \in Nat /\ MAX_APDU_LEN \in Nat /\ i \in Nat /\ i * MAX_APDU_LEN \in Nat
    BY ClientAssumption, PiecesCover
<1> DEFINE end == IF i * MAX_APDU_LEN < Len(k.tx) THEN i * MAX_APDU_LEN ELSE Len(k.tx)
<1>2. end \in Nat /\ end =< Len(k.tx)
    BY <1>1
<1>3. Given(k, i) = SubSeq(k.tx, 1, end)
    BY DEF Given
<1> HIDE DEF end
<1>4. \A j \in 1 .. end : k.tx[j] \in Byte
    BY <1>1, <1>2, ElementOfSeq
<1> DEFINE m == 1
<1>5. m \in Int /\ end \in Int /\ \A j \in m .. end : k.tx[j] \in Byte
    BY <1>2, <1>4
<1>6. (m <= end => end - m + 1 = end) /\ (~(m <= end) => end = 0)
    BY <1>2
<1> HIDE DEF m
<1>7. Len(SubSeq(k.tx, m, end)) = end
    BY <1>5, <1>6, SubSeqProperties
<1>8. QED
    BY <1>2, <1>3, <1>7 DEF m

\* The dispatcher calls a handler for every command of the client.
LEMMA NotRefused ==
    ASSUME CTypeOK, EInv, Send
    PROVE  Refusal(CommandOf(call, idx + 1)) = "none"
<1> DEFINE c == CommandOf(call, idx + 1)
<1>1. call \in Requests /\ idx \in Nat /\ idx + 1 \in 1 .. Length(call)
    BY NextCommand
<1>2. CASE call.method # "sign_tx"
    <2>1. /\ c.cla = CLA /\ c.p1 \in {0, 1} /\ c.p2 = 0
          /\ c.ins \in {"GET_VERSION", "GET_APP_NAME", "GET_PUBLIC_KEY"}
          /\ c.p1 = 1 => c.ins = "GET_PUBLIC_KEY"
          /\ c.ins = "GET_PUBLIC_KEY" => c.data = call.path
        BY <1>1, <1>2, RequestType DEF CommandOf, Exchange
    <2>2. c.ins = "GET_PUBLIC_KEY" => c.data # <<>>
        <3>1. c.ins = "GET_PUBLIC_KEY" => call.path \in Paths
            BY <1>1 DEF CommandOf, Exchange, Requests
        <3>2. QED
            BY <2>1, <3>1, ClientAssumption
    <2> HIDE DEF c
    <2>3. QED
        BY <2>1, <2>2 DEF Refusal, WrongP1P2, c
<1>3. CASE call.method = "sign_tx"
    <2>1. /\ c = sign_tx(call, idx + 1) /\ call.tx \in Seq(Byte)
          /\ Length(call) = 1 + Pieces(call.tx) /\ Pieces(call.tx) \in Nat
        BY <1>1, <1>3, RequestType, PiecesCover DEF CommandOf
    <2>2. c.cla = CLA /\ c.ins = "SIGN_TX" /\ c.p1 = idx
        <3>1. CASE idx = 0
            BY <2>1, <3>1 DEF sign_tx, Exchange, P1_START
        <3>2. CASE idx # 0
            <4>1. idx + 1 # 1 /\ 0 + (idx + 1) - 1 = idx
                BY <1>1, <3>2
            <4>2. QED
                BY <2>1, <4>1 DEF sign_tx, Exchange, P1_START
        <3>3. QED
            BY <3>1, <3>2
    <2>3. c.p2 \in {P2_LAST, P2_MORE} /\ (idx = 0 => c.p2 = P2_MORE)
        BY <1>1, <2>1 DEF sign_tx, Exchange
    <2>4. idx =< P1_MAX
        <3>1. SUFFICES ASSUME idx > P1_MAX PROVE FALSE
            BY <1>1 DEF P1_MAX
        <3>2. (idx - 1) * MAX_APDU_LEN < P1_MAX * MAX_APDU_LEN
            <4>1. (idx - 1) * MAX_APDU_LEN =< MAX_TRANSACTION_LEN
                BY <1>1, <1>3, <3>1 DEF EInv, PiecesHaveFit, P1_MAX
            <4>2. (idx - 1) * MAX_APDU_LEN \in Nat /\ P1_MAX * MAX_APDU_LEN \in Nat
                BY <1>1, <3>1, ClientAssumption DEF P1_MAX
            <4>3. QED
                BY <4>1, <4>2, PiecesAssumption, AppAssumption
        <3>3. MAX_APDU_LEN \in Nat /\ idx - 1 \in Nat /\ P1_MAX \in Nat /\ idx - 1 >= P1_MAX
            BY <1>1, <3>1, ClientAssumption DEF P1_MAX
        <3>4. (idx - 1) * MAX_APDU_LEN >= P1_MAX * MAX_APDU_LEN
            BY <3>3
        <3>5. QED
            BY <3>2, <3>3, <3>4
    <2>5. c.data # <<>>
        <3>1. CASE idx = 0
            BY <1>1, <1>3, <2>1, <3>1, ClientAssumption DEF sign_tx, Exchange, Requests
        <3>2. CASE idx # 0
            <4>1. c.data = Piece(call.tx, idx) /\ idx \in 1 .. Pieces(call.tx)
                BY <1>1, <2>1, <3>2 DEF sign_tx, Exchange
            <4>2. QED
                BY <2>1, <4>1, PieceLengths
        <3>3. QED
            BY <3>1, <3>2
    <2> HIDE DEF c
    <2>6. QED
        BY <1>1, <2>2, <2>3, <2>4, <2>5
           DEF Refusal, WrongP1P2, c, P1_START, P1_MAX, P2_LAST, P2_MORE
<1>4. QED
    BY <1>2, <1>3

\* What a call may return.
Understood(a) ==
    /\ a.sw \notin {"SW_WRONG_P1P2", "SW_INS_NOT_SUPPORTED", "SW_CLA_NOT_SUPPORTED"}
    /\ a.sw = "SW_TX_PARSING_FAIL" => ~ParsedOK(call.tx)
    /\ a.sw = "SW_OK" =>
          /\ a.body.kind = BodyOf(call)
          /\ Len(call.tx) =< MAX_TRANSACTION_LEN
          /\ call.method = "sign_tx" => ParsedOK(call.tx)
    /\ a.sw = "SW_WRONG_DATA_LENGTH" => call.path # <<>> /\ ~PathReads(call.path)
    /\ a.sw = "SW_WRONG_TX_LENGTH" => Len(call.tx) > MAX_TRANSACTION_LEN
    /\ a.sw = "SW_BAD_STATE" =>
          call.method = "sign_tx" /\ G_context = FreshContext("CONFIRM_ADDRESS")

\* Failures of the device, refusals and lost answers have words of their own.
LEMMA Failures ==
    \A sw \in {"lost", "CX_ERROR", "SW_DISPLAY_BIP32_PATH_FAIL", "SW_DISPLAY_ADDRESS_FAIL",
               "SW_DISPLAY_AMOUNT_FAIL", "SW_TX_HASH_FAIL", "SW_SIGNATURE_FAIL", "SW_DENY"} :
        \A a : a.sw = sw => Understood(a)
  BY DEF Understood

\* So for an answer sent, or lost.
LEMMA UnderstoodOrLost ==
    /\ \A a : Reply(a) /\ Understood(a) => Understood(answer')
    /\ \A a : Respond(a) /\ Understood(a) => Understood(answer')
  BY Answered, Failures

\* The answer to a request for a key.
LEMMA KeyUnderstood ==
    ASSUME CTypeOK, Send, ~owed', GetPublicKey(CommandOf(call, idx + 1))
    PROVE  Understood(answer')
<1> DEFINE c == CommandOf(call, idx + 1)
<1>1. call \in Requests /\ idx + 1 \in 1 .. Length(call) /\ c \in Commands
    BY NextCommand
<1>2. Refusal(c) = "none" /\ c.ins = "GET_PUBLIC_KEY"
    BY DEF GetPublicKey, BadKeyPath, KeyDerivationFails, SendKey, AddressDisplayFails,
           ReviewAddress, Calls
<1>3. call.method \in {"get_public_key", "get_public_key_with_confirmation"}
    BY <1>1, <1>2, RequestType DEF CommandOf, Exchange, sign_tx
<1>4. /\ c.data = call.path /\ call.path # <<>> /\ call.tx = <<>>
      /\ BodyOf(call) = "public_key"
    BY <1>1, <1>3, ClientAssumption DEF CommandOf, Exchange, Requests, BodyOf
<1>5. Len(call.tx) =< MAX_TRANSACTION_LEN
    BY <1>4, AppAssumption
<1> HIDE DEF c
<1>6. CASE BadKeyPath(c)
    <2>1. Reply(Status("SW_WRONG_DATA_LENGTH")) /\ ~PathReads(call.path)
        BY <1>4, <1>6 DEF BadKeyPath
    <2>2. Understood(Status("SW_WRONG_DATA_LENGTH"))
        BY <1>4, <2>1, Answered DEF Understood
    <2>3. QED
        BY <2>1, <2>2, UnderstoodOrLost
<1>7. CASE KeyDerivationFails(c)
    <2>1. Reply(Status("CX_ERROR")) /\ Understood(Status("CX_ERROR"))
        BY <1>7, Answered, Failures DEF KeyDerivationFails
    <2>2. QED
        BY <2>1, UnderstoodOrLost
<1>8. CASE SendKey(c)
    <2> DEFINE key == KeyContext(c).raw_public_key
    <2>1. Reply(Ok(PublicKey(key)))
        BY <1>8 DEF SendKey
    <2>2. PublicKey(key).kind = "public_key"
        BY DEF PublicKey
    <2>3. Understood(Ok(PublicKey(key)))
        BY <1>3, <1>4, <1>5, <2>2, Answered DEF Understood
    <2>4. QED
        BY <2>1, <2>3, UnderstoodOrLost
<1>9. CASE AddressDisplayFails(c)
    <2>1. AddressReady(KeyContext(c))
        BY <1>1, <1>2, PathContextFields
    <2>2. PICK sw \in {"SW_DISPLAY_BIP32_PATH_FAIL", "SW_DISPLAY_ADDRESS_FAIL"} : Reply(Status(sw))
        BY <1>9, <2>1 DEF AddressDisplayFails, AddressDisplayFailures
    <2>3. Understood(Status(sw))
        BY <2>2, Answered, Failures
    <2>4. QED
        BY <2>2, <2>3, UnderstoodOrLost
<1>10. CASE ReviewAddress(c)
    BY <1>10 DEF ReviewAddress
<1>11. QED
    BY <1>6, <1>7, <1>8, <1>9, <1>10 DEF GetPublicKey, c

\* The answer to a command of sign_tx that ends the call.
LEMMA SignTxUnderstood ==
    ASSUME IInv, CInv, EInv, Send, ~owed', progress' = "idle",
           SignTx(CommandOf(call, idx + 1))
    PROVE  Understood(answer')
<1> DEFINE c == CommandOf(call, idx + 1)
<1>1. /\ call \in Requests /\ idx \in Nat /\ idx + 1 \in 1 .. Length(call)
      /\ progress = "calling" /\ c \in Commands /\ Dispatch(c) /\ GoesOn
    BY NextCommand DEF CInv
<1>2. Refusal(c) = "none" /\ c.ins = "SIGN_TX" /\ running
    BY <1>1, DispatchReceives DEF SignTx, StartSigning, NoSession, ChunkTooLong, MoreToCome,
           ParseFails, HashFails, TransactionDisplayFails, ReviewTransaction,
           ParsedChunk, LastChunk, StoresChunk, Chunk, Calls
<1>3. call.method = "sign_tx"
    BY <1>1, <1>2, CommandsOfCall
<1>4. /\ call.tx \in Seq(Byte) /\ call.tx # <<>> /\ Pieces(call.tx) \in Nat
      /\ Length(call) = 1 + Pieces(call.tx)
      /\ call.path \in Paths /\ call.path # <<>> /\ call.tx \in Transactions
    BY <1>1, <1>3, RequestType, PiecesCover, ClientAssumption DEF Requests
<1>5. /\ idx = 0 => c.data = call.path
      /\ idx = 0 <=> c.p1 = P1_START
      /\ idx # 0 => c.data = Piece(call.tx, idx)
      /\ c.p2 = P2_MORE <=> idx + 1 # Length(call)
    <2>1. c = sign_tx(call, idx + 1)
        BY <1>3 DEF CommandOf
    <2>2. idx = 0 => c.p2 = P2_MORE /\ idx + 1 # Length(call)
        <3>1. Pieces(call.tx) # 0
            <4>1. Len(call.tx) # 0 /\ Len(call.tx) \in Nat /\ Len(call.tx) =< Pieces(call.tx) * MAX_APDU_LEN
                BY <1>4, PiecesCover, EmptySeq
            <4>2. 0 * MAX_APDU_LEN = 0
                BY ClientAssumption
            <4>3. QED
                BY <4>1, <4>2
        <3>2. QED
            BY <1>1, <1>4, <2>1, <3>1 DEF sign_tx, Exchange
    <2>3. idx # 0 => (c.p2 = P2_MORE <=> idx + 1 # Length(call))
        BY <1>1, <2>1 DEF sign_tx, Exchange, P2_LAST, P2_MORE
    <2>4. QED
        BY <1>1, <1>3, <2>2, <2>3, CommandsOfCall
<1> HIDE DEF c
<1>6. answer'.sw = "SW_OK" => idx + 1 = Length(call)
    BY <1>1 DEF GoesOn, IsError
<1>7. CASE StartSigning(c)
    <2>1. idx = 0 /\ c.data = call.path /\ idx + 1 # Length(call)
        <3>1. c.p1 = P1_START
            BY <1>7 DEF StartSigning
        <3>2. c.p2 = P2_MORE
            BY <1>2, <3>1 DEF Refusal, WrongP1P2
        <3>3. QED
            BY <1>5, <3>1, <3>2
    <2>2. CASE PathReads(c.data)
        <3>1. answer' = Status("SW_OK") \/ answer' = Lost
            BY <1>7, <2>2, Answered DEF StartSigning
        <3>2. QED
            BY <1>6, <2>1, <3>1, Answered, Failures
    <2>3. CASE ~PathReads(c.data)
        <3>1. Reply(Status("SW_WRONG_DATA_LENGTH"))
            BY <1>7, <2>3 DEF StartSigning
        <3>2. Understood(Status("SW_WRONG_DATA_LENGTH"))
            BY <1>4, <2>1, <2>3, Answered DEF Understood
        <3>3. QED
            BY <3>1, <3>2, UnderstoodOrLost
    <2>4. QED
        BY <2>2, <2>3
<1>8. CASE NoSession(c)
    <2>1. /\ ~InSession(G_context) /\ idx # 0 /\ Reply(Status("SW_BAD_STATE"))
        BY <1>5, <1>8 DEF NoSession, Chunk
    <2>2. G_context = FreshContext("CONFIRM_ADDRESS")
        BY <1>1, <1>2, <1>3, <2>1 DEF EInv, LostByRestart
    <2>3. Understood(Status("SW_BAD_STATE"))
        BY <1>3, <2>2, Answered DEF Understood
    <2>4. QED
        BY <2>1, <2>3, UnderstoodOrLost
<1>9. CASE MoreToCome(c)
    <2>1. c.p2 = P2_MORE /\ Reply(Status("SW_OK"))
        BY <1>9 DEF MoreToCome
    <2>2. answer' = Status("SW_OK") \/ answer' = Lost
        BY <2>1, Answered
    <2>3. QED
        BY <1>5, <1>6, <2>1, <2>2, Answered, Failures
<1>10. CASE HashFails(c)
    <2>1. Reply(Status("SW_TX_HASH_FAIL")) /\ Understood(Status("SW_TX_HASH_FAIL"))
        BY <1>10, Answered, Failures DEF HashFails
    <2>2. QED
        BY <2>1, UnderstoodOrLost
<1>11. CASE TransactionDisplayFails(c)
    <2>1. StoresChunk(c)
        BY <1>11 DEF TransactionDisplayFails, ParsedChunk, LastChunk
    <2>2. TransactionReady(ReviewContext(c))
        BY <1>1, <2>1, ChunkContextFields DEF IInv, TypeOK, UnionInUse, OneMember
    <2>3. Reply(Status("SW_DISPLAY_AMOUNT_FAIL"))
        BY <1>11, <2>2 DEF TransactionDisplayFails, TransactionDisplayFailures
    <2>4. Understood(Status("SW_DISPLAY_AMOUNT_FAIL"))
        BY Answered, Failures
    <2>5. QED
        BY <2>3, <2>4, UnderstoodOrLost
<1>12. CASE ReviewTransaction(c)
    BY <1>12 DEF ReviewTransaction
<1>13. CASE ChunkTooLong(c) \/ ParseFails(c)
    <2>1. InSession(G_context) /\ idx # 0
        BY <1>5, <1>13 DEF ChunkTooLong, ParseFails, LastChunk, StoresChunk, Chunk
    <2>2. idx \in 1 .. Pieces(call.tx) /\ c.data = Piece(call.tx, idx)
        BY <1>1, <1>4, <1>5, <2>1
    <2>3. G_context.raw_tx = Given(call, idx - 1)
        BY <1>1, <1>2, <1>3, <2>1 DEF CInv, DeviceHoldsTheBeginning
    <2>4. G_context.raw_tx \o c.data = Given(call, idx)
        BY <1>4, <2>2, <2>3, PieceByPiece
    <2>5. Len(Given(call, idx)) =< Len(call.tx)
        BY <1>4, <2>2, GivenIsShorter
    <2>6. CASE ChunkTooLong(c)
        <3>1. ~(Len(G_context.raw_tx) + Len(c.data) =< MAX_TRANSACTION_LEN)
            BY <2>6 DEF ChunkTooLong, FitsRawTx
        <3>2. /\ G_context.raw_tx \in Seq(Byte) /\ c.data \in Seq(Byte)
            BY <1>1, <1>2, CommandData DEF IInv, TypeOK, Context
        <3>3. Len(G_context.raw_tx \o c.data) = Len(G_context.raw_tx) + Len(c.data)
            BY <3>2, ConcatProperties
        <3>4. /\ Len(G_context.raw_tx) \in Nat /\ Len(c.data) \in Nat /\ Len(call.tx) \in Nat
            BY <1>4, <3>2, LenProperties
        <3>5. Len(call.tx) > MAX_TRANSACTION_LEN
            <4> DEFINE held == Len(G_context.raw_tx)
                       more == Len(c.data)
                       all == Len(call.tx)
            <4>1. held + more =< all
                BY <2>4, <2>5, <3>3
            <4>2. held \in Nat /\ more \in Nat /\ all \in Nat /\ ~(held + more =< MAX_TRANSACTION_LEN)
                BY <3>1, <3>4
            <4> HIDE DEF held, more, all
            <4>3. all > MAX_TRANSACTION_LEN
                BY <4>1, <4>2, AppAssumption
            <4>4. QED
                BY <4>3 DEF all
        <3>6. Understood(Status("SW_WRONG_TX_LENGTH"))
            BY <3>5, Answered DEF Understood
        <3>7. QED
            BY <2>6, <3>6, UnderstoodOrLost DEF ChunkTooLong
    <2>7. CASE ParseFails(c)
        <3>1. /\ StoresChunk(c) /\ c.p2 = P2_LAST
              /\ ~ParsedOK(Stored(G_context, c.data).raw_tx)
            BY <2>7 DEF ParseFails, LastChunk
        <3>2. idx = Pieces(call.tx)
            BY <1>1, <1>4, <1>5, <3>1 DEF P2_LAST, P2_MORE
        <3>3. Given(call, idx) = call.tx
            BY <1>4, <3>2, GivenEnds
        <3>4. Stored(G_context, c.data).raw_tx = call.tx
            BY <2>4, <3>3 DEF Stored, IInv, TypeOK, Context
        <3>5. Understood(Status("SW_TX_PARSING_FAIL"))
            BY <3>1, <3>4, Answered DEF Understood
        <3>6. QED
            BY <2>7, <3>5, UnderstoodOrLost DEF ParseFails
    <2>8. QED
        BY <1>13, <2>6, <2>7
<1>14. QED
    BY <1>7, <1>8, <1>9, <1>10, <1>11, <1>12, <1>13 DEF SignTx, c

\* A command whose answer did not leave is answered Lost.
LEMMA LostWhenStopped ==
    ASSUME IInv, NEW c \in Commands, Dispatch(c), ~running'
    PROVE  answer' = Lost
<1>1. running
    BY DispatchReceives
<1>2. ASSUME NEW a, Reply(a) PROVE answer' = Lost
    BY <1>1, <1>2 DEF Reply
<1>3. QED
    BY <1>1, <1>2
       DEF Dispatch, Refuse, GetVersion, GetAppName, GetPublicKey, BadKeyPath,
           KeyDerivationFails, SendKey, AddressDisplayFails, ReviewAddress, SignTx, StartSigning,
           NoSession, ChunkTooLong, MoreToCome, ParseFails, HashFails,
           TransactionDisplayFails, ReviewTransaction

\* A command keeps EInv.
LEMMA SendKeepsExtent ==
    ASSUME IInv, IInv', CInv, EInv, Send
    PROVE  EInv'
<1> DEFINE c == CommandOf(call, idx + 1)
<1>1. /\ call \in Requests /\ idx \in Nat /\ idx + 1 \in 1 .. Length(call)
      /\ progress = "calling" /\ c \in Commands /\ Dispatch(c) /\ GoesOn
    BY NextCommand DEF CInv
<1>2. CASE owed'
    <2>1. call' = call /\ idx' = idx
        BY <1>1, <1>2 DEF GoesOn
    <2>2. PiecesHaveFit'
        BY <2>1 DEF EInv, PiecesHaveFit
    <2>3. CASE ReviewAddress(c)
        <3>1. c.ins = "GET_PUBLIC_KEY" /\ c.p1 = 1
            BY <2>3 DEF ReviewAddress, Calls
        <3>2. call.method = "get_public_key_with_confirmation"
            BY <1>1, <3>1, RequestType DEF CommandOf, Exchange, sign_tx
        <3>3. QED
            BY <2>1, <2>2, <3>2 DEF EInv, LostByRestart
    <2>4. CASE ReviewTransaction(c)
        <3>1. InSession(G_context')
            BY <1>1, <2>4, ChunkGrows
        <3>2. QED
            BY <2>2, <3>1 DEF EInv, LostByRestart
    <2>5. QED
        BY <1>1, <1>2, <2>3, <2>4, DispatchScreen
<1>3. CASE ~owed'
    <2>1. CASE progress' = "idle"
        <3>1. call' = NoCall
            BY <1>1, <1>3, <2>1 DEF GoesOn, Ends, Returns
        <3>2. QED
            BY <3>1 DEF EInv, PiecesHaveFit, LostByRestart, NoCall
    <2>2. CASE progress' # "idle"
        <3>1. answer'.sw = "SW_OK"
            BY <1>1, <1>3, <2>2 DEF GoesOn, Ends, Returns, IsError
        <3>2. running'
            BY <1>1, <3>1, LostWhenStopped, Answered
        <3>3. /\ idx' = idx + 1 /\ call' = call /\ idx + 1 # Length(call)
              /\ call.method = "sign_tx"
              /\ \/ idx = 0 /\ StartSigning(CommandOf(call, 1))
                 \/ idx # 0 /\ MoreToCome(CommandOf(call, idx + 1))
            BY <1>3, <2>2, <3>2, AcceptedInCall DEF CInv
        <3>4. CASE idx = 0 /\ StartSigning(CommandOf(call, 1))
            <4>1. CommandOf(call, 1) \in Commands
                BY <1>1, <3>4
            <4>2. InSession(G_context')
                BY <3>4, <4>1, StartOpens
            <4>3. ~(idx' > 1)
                BY <3>3, <3>4
            <4>4. QED
                BY <4>2, <4>3 DEF EInv, PiecesHaveFit, LostByRestart
        <3>5. CASE idx # 0 /\ MoreToCome(CommandOf(call, idx + 1))
            <4>1. /\ InSession(G_context')
                  /\ Len(G_context'.raw_tx) \in Len(G_context.raw_tx) .. MAX_TRANSACTION_LEN
                BY <1>1, <3>5, ChunkGrows
            <4>2. G_context'.raw_tx = Given(call, idx)
                BY <1>1, <3>3, <3>5, ChunkInCall
            <4>3. /\ call.tx \in Seq(Byte) /\ idx \in 1 .. Pieces(call.tx) /\ idx # Pieces(call.tx)
                <5>1. /\ call.tx \in Seq(Byte) /\ Length(call) = 1 + Pieces(call.tx)
                      /\ Pieces(call.tx) \in Nat
                    BY <1>1, <3>3, RequestType, PiecesCover
                <5>2. QED
                    BY <1>1, <3>3, <3>5, <5>1
            <4>4. Len(G_context'.raw_tx) = idx * MAX_APDU_LEN
                BY <4>2, <4>3, PieceLengths
            <4>5. Len(G_context'.raw_tx) =< MAX_TRANSACTION_LEN
                BY <4>1, AppAssumption, LenProperties DEF IInv, TypeOK, Context
            <4>6. idx' - 1 = idx
                BY <1>1, <3>3
            <4>7. PiecesHaveFit'
                BY <4>4, <4>5, <4>6 DEF PiecesHaveFit
            <4>8. QED
                BY <4>1, <4>7 DEF EInv, LostByRestart
        <3>6. QED
            BY <3>3, <3>4, <3>5
    <2>3. QED
        BY <2>1, <2>2
<1>4. QED
    BY <1>2, <1>3

\* So does everything else.
LEMMA OthersKeepExtent ==
    ASSUME IInv, CInv, EInv, [CNext]_cvars, ~Send
    PROVE  EInv'
<1>1. ASSUME call' = NoCall PROVE EInv'
    BY <1>1 DEF EInv, PiecesHaveFit, LostByRestart, NoCall
<1>2. ASSUME NEW k \in Requests, Call(k) PROVE EInv'
    <2>1. idx' = 0
        BY <1>2 DEF Call, CInv, CTypeOK
    <2>2. QED
        BY <2>1 DEF EInv, PiecesHaveFit, LostByRestart
<1>3. CASE Decided
    <2>1. CASE progress = "waiting"
        BY <1>1, <1>3, <2>1 DEF Decided, Ends, Returns
    <2>2. CASE progress # "waiting"
        <3>1. UNCHANGED <<call, idx>> /\ Decide
            BY <1>3, <2>2 DEF Decided
        <3>2. QED
            BY <3>1, DecisionKeepsSession DEF EInv, PiecesHaveFit, LostByRestart
    <2>3. QED
        BY <2>1, <2>2
<1>4. CASE BodyRaises \/ Raise
    BY <1>1, <1>4 DEF BodyRaises, Raise, Returns
<1>5. CASE DeviceAlone
    <2>1. UNCHANGED <<call, idx>>
        BY <1>5 DEF DeviceAlone
    <2>2. CASE Menu \/ ReceiveFails
        BY <2>1, <2>2 DEF Menu, About, Back, Quit, ReceiveFails,
           EInv, PiecesHaveFit, LostByRestart
    <2>3. CASE Launch
        BY <2>1, <2>3 DEF Launch, EInv, PiecesHaveFit, LostByRestart
    <2>4. QED
        BY <1>5, <2>2, <2>3 DEF DeviceAlone
<1>6. CASE UNCHANGED cvars
    BY <1>6 DEF cvars, vars, EInv, PiecesHaveFit, LostByRestart
<1>7. QED
    BY <1>2, <1>3, <1>4, <1>5, <1>6 DEF CNext

\* What the user's decision returns to the call that waits for it.
LEMMA DecisionUnderstood ==
    ASSUME IInv, CInv, Decide, progress = "waiting"
    PROVE  Understood(answer')
<1>1. running /\ owed /\ screen \in Reviews
    BY DecisionKeepsSession
<1>2. /\ call \in Requests
      /\ call.method = IF screen = "transaction" THEN "sign_tx"
                       ELSE "get_public_key_with_confirmation"
      /\ screen = "transaction" => G_context.raw_tx = call.tx
    BY <1>1 DEF CInv, ReviewIsOfAsked
<1>3. CASE ApproveAddress
    <2> DEFINE key == G_context.raw_public_key
    <2>1. g_validate_callback = "pubkey" /\ Respond(Ok(PublicKey(key)))
        BY <1>3 DEF ApproveAddress, Decides
    <2>2. screen = "address"
        BY <1>1, <2>1 DEF IInv, TransactionReviewCoherent, Reviews
    <2>3. call.method = "get_public_key_with_confirmation"
        BY <1>2, <2>2
    <2>4. BodyOf(call) = "public_key" /\ Len(call.tx) =< MAX_TRANSACTION_LEN
        BY <1>2, <2>3, AppAssumption DEF BodyOf, Requests
    <2>5. PublicKey(key).kind = "public_key"
        BY DEF PublicKey
    <2>6. Understood(Ok(PublicKey(key)))
        BY <2>3, <2>4, <2>5, Answered DEF Understood
    <2>7. QED
        BY <2>1, <2>6, UnderstoodOrLost
<1>4. CASE ApproveTransaction
    <2>1. g_validate_callback = "transaction" /\ Respond(Ok(SignatureOf(G_context)))
        BY <1>4 DEF ApproveTransaction, Decides
    <2>2. screen = "transaction"
        BY <1>1, <2>1 DEF IInv, AddressReviewCoherent, Reviews
    <2>3. call.method = "sign_tx" /\ G_context.raw_tx = call.tx /\ InSession(G_context)
        BY <1>1, <1>2, <2>2 DEF IInv, TransactionReviewCoherent, TransactionReady, InSession
    <2>4. /\ BodyOf(call) = "signature" /\ Len(call.tx) =< MAX_TRANSACTION_LEN
          /\ ParsedOK(call.tx)
        BY <1>1, <2>2, <2>3 DEF BodyOf, IInv, TypeOK, TransactionReviewCoherent
    <2>5. SignatureOf(G_context).kind = "signature"
        BY DEF SignatureOf, Sign, Derive
    <2>6. Understood(Ok(SignatureOf(G_context)))
        BY <2>4, <2>5, Answered DEF Understood
    <2>7. QED
        BY <2>1, <2>6, UnderstoodOrLost
<1>5. CASE RejectAddress \/ RejectTransaction
    <2>1. Respond(Status("SW_DENY")) /\ Understood(Status("SW_DENY"))
        BY <1>5, Answered, Failures DEF RejectAddress, RejectTransaction
    <2>2. QED
        BY <2>1, UnderstoodOrLost
<1>6. CASE SigningFails
    <2>1. Respond(Status("SW_SIGNATURE_FAIL")) /\ Understood(Status("SW_SIGNATURE_FAIL"))
        BY <1>6, Answered, Failures DEF SigningFails
    <2>2. QED
        BY <2>1, UnderstoodOrLost
<1>7. QED
    BY <1>3, <1>4, <1>5, <1>6 DEF Decide

\* What a command that ends the call returns.
LEMMA CommandUnderstood ==
    ASSUME IInv, CInv, EInv, Send, ~owed', progress' = "idle"
    PROVE  Understood(answer')
<1> DEFINE c == CommandOf(call, idx + 1)
<1>1. call \in Requests /\ Dispatch(c) /\ Refusal(c) = "none"
    BY NextCommand, NotRefused DEF CInv
<1>2. CASE Refuse(c)
    BY <1>1, <1>2 DEF Refuse
<1>3. CASE GetVersion(c) \/ GetAppName(c)
    <2>1. PICK kind \in {"version", "app_name"} :
             /\ Reply(Ok(Body(kind)))
             /\ c.ins = IF kind = "version" THEN "GET_VERSION" ELSE "GET_APP_NAME"
        BY <1>3 DEF GetVersion, GetAppName, Calls
    <2>2. call.method = IF kind = "version" THEN "get_version" ELSE "get_app_name"
        BY <1>1, <2>1, RequestType DEF CommandOf, Exchange, sign_tx
    <2>3. BodyOf(call) = kind /\ Len(call.tx) =< MAX_TRANSACTION_LEN
        BY <1>1, <2>1, <2>2, AppAssumption DEF BodyOf, Requests
    <2>4. Body(kind).kind = kind
        BY DEF Body
    <2>5. Understood(Ok(Body(kind)))
        BY <2>2, <2>3, <2>4, Answered DEF Understood
    <2>6. QED
        BY <2>1, <2>5, UnderstoodOrLost
<1>4. CASE GetPublicKey(c)
    BY <1>4, KeyUnderstood DEF CInv
<1>5. CASE SignTx(c)
    BY <1>5, SignTxUnderstood
<1>6. QED
    BY <1>1, <1>2, <1>3, <1>4, <1>5 DEF Dispatch

\* A call gets no further than raw_tx holds, and loses its session only to a
\* restart.
LEMMA CallsKeepWithin == CSpec => []EInv
<1>1. CInit => EInv
    BY DEF CInit, EInv, PiecesHaveFit, LostByRestart, NoCall
<1>2. IInv /\ IInv' /\ CInv /\ EInv /\ [CNext]_cvars => EInv'
    BY SendKeepsExtent, OthersKeepExtent
<1>3. QED
    BY <1>1, <1>2, ClientDrivesDevice, ReviewsCoherent, CallsCoherent, PTL DEF CSpec

\* The device understands the client: a call that fails does so for a reason of
\* the caller's, the user's or the hardware's, and one that succeeds returns what
\* was asked, whatever the paths, transactions and sizes.
THEOREM CallsUnderstood == CSpec => CallsAreUnderstood
<1>1. IInv /\ CInv /\ EInv /\ [CNext]_cvars => [ReturnStep]_cvars
    <2> SUFFICES ASSUME IInv, CInv, EInv, CNext, progress # "idle", progress' = "idle"
                 PROVE  ReturnStep
        BY DEF ReturnStep
    <2>1. Understood(result') => ReturnStep
        BY DEF Understood, ReturnStep
    <2>2. CASE result' = Lost
        BY <2>1, <2>2, Answered, Failures
    <2>3. CASE Send
        <3>1. ~owed' /\ result' \in {answer', Lost}
            BY <2>3, NextCommand DEF GoesOn, Ends, Returns, CInv
        <3>2. QED
            BY <2>1, <2>2, <2>3, <3>1, CommandUnderstood
    <2>4. CASE Decided
        <3>1. Decide /\ progress = "waiting" /\ result' \in {answer', Lost}
            BY <2>4 DEF Decided, Ends, Returns
        <3>2. QED
            BY <2>1, <2>2, <3>1, DecisionUnderstood
    <2>5. CASE BodyRaises \/ Raise
        BY <2>2, <2>5 DEF BodyRaises, Raise, Returns
    <2>6. QED
        BY <2>3, <2>4, <2>5 DEF CNext, Call, DeviceAlone
<1>2. QED
    BY <1>1, ClientDrivesDevice, ReviewsCoherent, CallsCoherent, CallsKeepWithin, PTL
       DEF CSpec, CallsAreUnderstood

-----------------------------------------------------------------------------
(***************************************************************************)
(* What the user is shown of a call.                                       *)
(***************************************************************************)
\* A transaction under review is the whole of the one of the call that asked.
LEMMA TransactionAsked ==
    ASSUME IInv, CInv, running, screen = "transaction"
    PROVE  asked.method = "sign_tx" /\ G_context.raw_tx = asked.tx
<1>1. owed
    BY DEF IInv, AnswerOwedIffReview, Reviews
<1>2. QED
    BY <1>1 DEF CInv, ReviewIsOfAsked

\* The transaction on display is the one of the call that put it there, from its
\* first byte to its last, whatever pieces it came in, whatever calls were
\* abandoned before it, and whether or not that call is over; the address on
\* display is that of the key that call asked for; and no call waits for the
\* review of another.
THEOREM ReviewsOfCalls == CSpec => []ReviewShowsTheCall
<1>1. IInv /\ CInv => ReviewShowsTheCall
    <2> SUFFICES ASSUME IInv, CInv, running, owed
                 PROVE  Shows(asked) /\ (progress = "waiting" => call = asked)
        BY DEF ReviewShowsTheCall
    <2>1. screen \in Reviews
        BY DEF IInv, AnswerOwedIffReview
    <2>2. CASE screen = "transaction"
        <3>1. /\ g_amount = AmountOf(Parsed(G_context.raw_tx).value)
              /\ g_address = AddressTo(Parsed(G_context.raw_tx).to)
            BY <2>2 DEF IInv, TransactionReviewCoherent
        <3>2. asked.method = "sign_tx" /\ G_context.raw_tx = asked.tx
            BY <2>2, TransactionAsked
        <3>3. QED
            BY <3>1, <3>2 DEF Shows, CInv, ReviewIsOfAsked
    <2>3. CASE screen = "address"
        <3>1. g_address = AddressOf(Derive(G_context.bip32_path))
            BY <2>3 DEF IInv, AddressReviewCoherent
        <3>2. /\ asked.method = "get_public_key_with_confirmation"
              /\ G_context.bip32_path = ReadPath(asked.path)
            BY <2>3 DEF CInv, ReviewIsOfAsked
        <3>3. QED
            BY <3>1, <3>2 DEF Shows, CInv, ReviewIsOfAsked
    <2>4. QED
        BY <2>1, <2>2, <2>3 DEF Reviews
<1>2. QED
    BY <1>1, ClientDrivesDevice, ReviewsCoherent, CallsCoherent, PTL

\* From one end to the other: when the bytes of the call that put up a review are
\* the fields of a transaction, written as doc/TRANSACTION.md lays them out and
\* with the length of the memo in any of the varint's forms - the client's
\* write_varint and the device's do not choose the same for 252 - the user is
\* shown the value and the recipient of that transaction and of no other, however
\* its bytes are cut into pieces and even when the call is over
\* (boilerplate_transaction.py:33-40, deserialize.c:23-62,
\* nbgl_display_transaction.c and bagl_display.c).
ShownAsWritten ==
    \A tx \in transaction_t, v \in Seq(Byte), w \in {1, 3, 5, 9} :
        /\ running /\ screen = "transaction"
        /\ Len(v) = w /\ IsVarint(v, 0, Len(tx.memo), w)
        /\ asked.tx = Frame(tx, v)
        => g_amount = AmountOf(tx.value) /\ g_address = AddressTo(tx.to)

\* ShownAsWritten always holds: the buffer under review is the whole of asked.tx,
\* and a frame is read as the transaction it was made of.
THEOREM ReviewsAsWritten == CSpec => []ShownAsWritten
<1>1. IInv /\ CInv => ShownAsWritten
    <2> SUFFICES ASSUME IInv, CInv, NEW tx \in transaction_t, NEW v \in Seq(Byte),
                        NEW w \in {1, 3, 5, 9}, running, screen = "transaction",
                        Len(v) = w, IsVarint(v, 0, Len(tx.memo), w), asked.tx = Frame(tx, v)
                 PROVE  g_amount = AmountOf(tx.value) /\ g_address = AddressTo(tx.to)
        BY DEF ShownAsWritten
    <2>1. G_context.raw_tx = Frame(tx, v)
        BY TransactionAsked
    <2>2. /\ ParsedOK(Frame(tx, v))
          /\ g_amount = AmountOf(Parsed(Frame(tx, v)).value)
          /\ g_address = AddressTo(Parsed(Frame(tx, v)).to)
        BY <2>1 DEF IInv, TransactionReviewCoherent
    <2>3. Len(Frame(tx, v)) =< MAX_TX_LEN
        <3>1. Frame(tx, v) \in Seq(Byte)
            BY <2>1 DEF IInv, TypeOK, Context
        <3>2. QED
            BY <2>2, <3>1, ParsedForm
    <2>4. Parsed(Frame(tx, v)) = tx
        BY <2>3, FrameIsParsed
    <2>5. QED
        BY <2>2, <2>4
<1>2. QED
    BY <1>1, ClientDrivesDevice, ReviewsCoherent, CallsCoherent, PTL
=============================================================================
