-------------------------------- MODULE Client --------------------------------
(***************************************************************************)
(* App with the Python client at the other end of the cable                *)
(* (tests/application_client/boilerplate_command_sender.py).  A call of    *)
(* the client is a sequence of commands: get_public_key is one, sign_tx    *)
(* the path and then the transaction in pieces of MAX_APDU_LEN.  The       *)
(* client sends a command only when the one before was answered SW_OK; any *)
(* other answer, or none, raises, and the rest of the call is dropped -    *)
(* but not what the device keeps of it.                                    *)
(*                                                                         *)
(* The last command of sign_tx, and a key with confirmation, are sent by   *)
(* generators that run the caller's code while the answer is awaited.  An  *)
(* exception in that code ends the call, and the device goes on with the   *)
(* review.  External: the transport has one exchange at a time, and hands  *)
(* an answer to the exchange that asked for it or to nobody.               *)
(***************************************************************************)
EXTENDS App

CONSTANTS
    MAX_APDU_LEN,    \* bytes of data in a command (255)
    Paths,           \* derivation paths the client is called with
    Transactions     \* transactions, already serialized by the client

\* pack_derivation_path gives a path that reads, unless it is too long;
\* a transaction has at least its header and the length of its memo.
ASSUME ClientAssumption ==
    /\ MAX_APDU_LEN \in Nat \ {0}
    /\ Paths \subseteq Seq(Byte) \ {<<>>}
    /\ Transactions \subseteq Seq(Byte) \ {<<>>}

VARIABLES
    call,       \* the call in progress: [method, path, tx]
    idx,        \* commands of the call that were answered SW_OK
    progress,   \* "idle", "calling", or "waiting" for the answer to a review
    result,     \* what the last call returned or raised: the answer it ended
                \* with; Lost when it ended, or has got so far, without one
    asked       \* history: the call that put up the review on display

cvars == <<vars, call, idx, progress, result, asked>>

-----------------------------------------------------------------------------
(***************************************************************************)
(* What a call sends.                                                      *)
(***************************************************************************)
\* (variant: a last piece that is not full is left out)
PiecesFloor(message) == Len(message) \div MAX_APDU_LEN
\* split_message: how many pieces, and the i-th.
Pieces(message) == (Len(message) + MAX_APDU_LEN - 1) \div MAX_APDU_LEN
\* (variant: pieces overlap)
PieceOverlapping(message, i) ==
    SubSeq(message, IF i = 1 THEN 1 ELSE (i - 1) * MAX_APDU_LEN,
           IF i * MAX_APDU_LEN < Len(message) THEN i * MAX_APDU_LEN ELSE Len(message))
Piece(message, i) ==
    SubSeq(message, (i - 1) * MAX_APDU_LEN + 1,
           IF i * MAX_APDU_LEN < Len(message) THEN i * MAX_APDU_LEN ELSE Len(message))

Exchange(ins, p1, p2, data) == [cla |-> CLA, ins |-> ins, p1 |-> p1, p2 |-> p2, data |-> data]

\* The number of commands of a call, and the i-th of them.
Length(k) == IF k.method = "sign_tx" THEN 1 + Pieces(k.tx) ELSE 1

sign_tx(k, i) ==
    IF i = 1
    THEN Exchange("SIGN_TX", P1_START, P2_MORE, k.path)
    ELSE Exchange("SIGN_TX", P1_START + i - 1,
                  IF i = Length(k) THEN P2_LAST ELSE P2_MORE, Piece(k.tx, i - 1))

CommandOf(k, i) ==
    CASE k.method = "get_version" -> Exchange("GET_VERSION", 0, 0, <<>>)
      [] k.method = "get_app_name" -> Exchange("GET_APP_NAME", 0, 0, <<>>)
      [] k.method = "get_public_key" -> Exchange("GET_PUBLIC_KEY", 0, 0, k.path)
      [] k.method = "get_public_key_with_confirmation" -> Exchange("GET_PUBLIC_KEY", 1, 0, k.path)
      [] k.method = "sign_tx" -> sign_tx(k, i)

\* The calls a program makes.
Requests ==
    [method : {"get_version", "get_app_name"}, path : {<<>>}, tx : {<<>>}]
    \union [method : {"get_public_key", "get_public_key_with_confirmation"},
            path : Paths, tx : {<<>>}]
    \union [method : {"sign_tx"}, path : Paths, tx : Transactions]

NoCall == [method |-> "none", path |-> <<>>, tx |-> <<>>]

ASSUME RequestsAssumption ==
    \A k \in Requests : \A i \in 1 .. Length(k) : CommandOf(k, i) \in Commands

\* P1 counts more pieces than raw_tx holds (3 of 255 bytes, against 510).
ASSUME PiecesAssumption == MAX_TRANSACTION_LEN < P1_MAX * MAX_APDU_LEN

-----------------------------------------------------------------------------
(***************************************************************************)
(* Steps of the client.  The other end answers in the step that handles    *)
(* the command, or after the user's decision.                              *)
(***************************************************************************)
Call(k) ==
    /\ progress = "idle"
    /\ call' = k
    /\ progress' = "calling"
    /\ result' = Lost
    /\ UNCHANGED <<vars, idx, asked>>

Returns(a) == call' = NoCall /\ idx' = 0 /\ progress' = "idle" /\ result' = a

\* exchange raises unless the status word is SW_OK.
IsError(a) == a.sw # "SW_OK"

\* The i-th command is sent with exchange_async: the caller's code runs at the
\* yield, before the answer is read.
Awaits(k, i) ==
    \/ k.method = "get_public_key_with_confirmation"
    \/ k.method = "sign_tx" /\ i = Length(k)

\* The call ends with the answer, or with an exception of the caller's code.
Ends(a) == Returns(a) \/ (Awaits(call, idx + 1) /\ Returns(Lost))

\* The command was answered at once, or exchange_async leaves that for later.
GoesOn ==
    \/ owed' /\ progress' = "waiting" /\ UNCHANGED <<call, idx, result>>
    \/ /\ ~owed'
       /\ IF IsError(answer') \/ idx + 1 = Length(call)
          THEN Ends(answer')
          ELSE idx' = idx + 1 /\ UNCHANGED <<call, progress, result>>

Send ==
    /\ progress = "calling"
    /\ \E c \in {CommandOf(call, idx + 1)} : Dispatch(c)
    /\ GoesOn
    /\ asked' = IF owed' THEN call ELSE asked

\* A review is of nobody once it is decided, or gone with the device's memory.
Forgets == asked' = IF owed' THEN asked ELSE NoCall

\* (variant: the answer goes to whatever call is in progress)
DecidedForAnyone ==
    /\ Decide
    /\ IF progress # "idle" THEN Returns(answer')
       ELSE UNCHANGED <<call, idx, progress, result>>
    /\ Forgets
\* The user decides, and the call that waits for it, if one still does, ends.
Decided ==
    /\ Decide
    /\ IF progress = "waiting" THEN Ends(answer')
       ELSE UNCHANGED <<call, idx, progress, result>>
    /\ Forgets

\* The caller's code raises before the user decides: the generator is left, and
\* the device keeps the review on display.
BodyRaises ==
    /\ progress = "waiting"
    /\ Returns(Lost)
    /\ UNCHANGED <<vars, asked>>

\* (variant: it never hears of a device that left)
RaiseOnlyBetween ==
    /\ progress = "calling" /\ ~running
    /\ Returns(Lost)
    /\ UNCHANGED <<vars, asked>>
\* The connection is gone, or was, when an answer was awaited.
Raise ==
    /\ \/ progress = "calling" /\ ~running
       \/ progress = "waiting" /\ ~(running /\ owed)
    /\ Returns(Lost)
    /\ UNCHANGED <<vars, asked>>

DeviceAlone ==
    /\ Menu \/ ReceiveFails \/ Launch
    /\ Forgets
    /\ UNCHANGED <<call, idx, progress, result>>

CInit ==
    /\ Init
    /\ call = NoCall
    /\ idx = 0
    /\ progress = "idle"
    /\ result = Lost
    /\ asked = NoCall

CNext ==
    \/ \E k \in Requests : Call(k)
    \/ Send
    \/ Decided
    \/ BodyRaises
    \/ Raise
    \/ DeviceAlone

CSpec == CInit /\ [][CNext]_cvars

\* The client is a program that does not stop between two exchanges, and the user
\* decides.  Nothing makes the caller's code raise.  (A step of Send or Raise
\* always changes progress or idx, and a decision owed.)
FairCSpec == CSpec /\ WF_<<progress, idx>>(Send \/ Raise) /\ WF_owed(Decided)

-----------------------------------------------------------------------------
CTypeOK ==
    /\ asked \in Requests \union {NoCall}
    /\ \/ progress = "idle" /\ call = NoCall /\ idx = 0
       \/ /\ progress \in {"calling", "waiting"}
          /\ call \in Requests
          /\ idx \in 0 .. Length(call) - 1

\* Between two commands of a call, and under its review, the device holds the
\* beginning of the client's transaction, under the client's path: what an
\* earlier call left behind, whatever way it ended and even if its review came
\* to be decided during this call, is gone, and a restart in the middle of the
\* call leaves no session at all
\* (boilerplate_command_sender.py:101-125, sign_tx.c:35-80).
Given(k, i) ==
    SubSeq(k.tx, 1, IF i * MAX_APDU_LEN < Len(k.tx) THEN i * MAX_APDU_LEN ELSE Len(k.tx))

DeviceHoldsTheBeginning ==
    (running /\ InSession(G_context) /\ call.method = "sign_tx" /\ idx > 0) =>
        /\ G_context.bip32_path = ReadPath(call.path)
        /\ G_context.raw_tx = Given(call, IF progress = "waiting" THEN idx ELSE idx - 1)

\* What is on display is what call k asks for: the amount and the recipient of the
\* whole of its transaction, or the address of the key under its path.
Shows(k) ==
    \/ /\ k.method = "sign_tx"
       /\ g_amount = AmountOf(Parsed(k.tx).value)
       /\ g_address = AddressTo(Parsed(k.tx).to)
    \/ /\ k.method = "get_public_key_with_confirmation"
       /\ g_address = AddressOf(Derive(ReadPath(k.path)))

\* The user is asked about what the program asked for: a review on display shows
\* the whole of the transaction of the call that put it up - not of the pieces of
\* an earlier one - or its address, for as long as it is on display, its call
\* over or another one begun; and a call that waits, waits for its own review
\* (boilerplate_command_sender.py:91-127, sign_tx.c:67-104,
\* get_public_key.c:36-68).
ReviewShowsTheCall ==
    (running /\ owed) => Shows(asked) /\ (progress = "waiting" => call = asked)

SignatureFor(k) == Sign(ReadPath(k.path), Keccak256(k.tx))

\* A signature that leaves the device is over the whole transaction of the call
\* that put up the review, with that call's path, even when that call is over and
\* nobody reads the answer; and a call that ends with a signature is a sign_tx,
\* with a signature over its own transaction and none from before
\* (boilerplate_command_sender.py:101-127, validate.c:62-71).
SignedAsIntended ==
    [][/\ Answers /\ answer'.body.kind = "signature" =>
             asked.method = "sign_tx" /\ answer'.body = SignatureFor(asked)
       /\ progress # "idle" /\ progress' = "idle" /\ result'.body.kind = "signature" =>
             call.method = "sign_tx" /\ result'.body = SignatureFor(call)]_cvars

\* What each method gets when all goes well.
BodyOf(k) ==
    CASE k.method = "get_version" -> "version"
      [] k.method = "get_app_name" -> "app_name"
      [] k.method = "sign_tx" -> "signature"
      [] OTHER -> "public_key"

\* The device understands the client.  A call that is not refused by the user
\* and meets no failure of the device returns what its unpacker expects; the
\* device never finds the parameters malformed; the path is refused only if it
\* does not fit, the transaction only if it is longer than raw_tx or, taken as a
\* whole, does not parse, and a session is missing only if the device was started
\* again since it was opened (dispatcher.c:34-86, sign_tx.c:34-106).
ReturnStep ==
    progress # "idle" /\ progress' = "idle" =>
        /\ result'.sw \notin {"SW_WRONG_P1P2", "SW_INS_NOT_SUPPORTED", "SW_CLA_NOT_SUPPORTED"}
        /\ result'.sw = "SW_TX_PARSING_FAIL" => ~ParsedOK(call.tx)
        /\ result'.sw = "SW_OK" =>
              /\ result'.body.kind = BodyOf(call)
              /\ Len(call.tx) =< MAX_TRANSACTION_LEN
              /\ call.method = "sign_tx" => ParsedOK(call.tx)
        /\ result'.sw = "SW_WRONG_DATA_LENGTH" => call.path # <<>> /\ ~PathReads(call.path)
        /\ result'.sw = "SW_WRONG_TX_LENGTH" => Len(call.tx) > MAX_TRANSACTION_LEN
        /\ result'.sw = "SW_BAD_STATE" =>
              call.method = "sign_tx" /\ G_context = FreshContext("CONFIRM_ADDRESS")

CallsAreUnderstood == [][ReturnStep]_cvars

\* Every call returns or raises (boilerplate_command_sender.py:54-127).
EveryCallReturns == progress # "idle" ~> progress = "idle"
=============================================================================
