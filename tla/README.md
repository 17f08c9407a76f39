# TLA+ models of the Boilerplate application

This directory specifies the Ledger "Boilerplate" application found in `src/src`:
an embedded program that derives public keys and signs transactions for a host
after the user has agreed on the device's screen. The models cover its logic,
from the APDU loop to the signature. TLC checks them on small instances; TLAPS
proves the central facts for every instance.

## 1. The system

### Parts and how they interact

| Part | Source | State | Operations |
| --- | --- | --- | --- |
| Main loop | `app_main.c` | the loop itself | receive, refuse malformed APDUs, dispatch, return when an answer cannot be sent, start |
| Dispatcher | `apdu/dispatcher.c` | none | refuse by class, instruction, P1/P2, missing data; call a handler |
| Context | `types.h`, `globals.h` | `G_context`: `state`, `req_type`, path, union of key and transaction info | zeroed at start and by every request that carries a path |
| `GET_PUBLIC_KEY` | `handler/get_public_key.c` | context | read path, derive, answer or start an address review |
| `SIGN_TX` | `handler/sign_tx.c` | context | open a session with a path; store a chunk; on the last one parse, hash, start a review |
| Transaction | `transaction/*.c` | none | parse, serialize, check the memo's encoding |
| Screens, two buttons | `ui/bagl_display.c`, `ui/menu_bagl.c` | display strings, callback pointer, flow and step | guard, fill the strings, step back and forth, approve, reject, menu |
| Screens, touch | `ui/nbgl_display_*.c`, `ui/menu_nbgl.c` | display strings, pages, what covers them | the same, with pages, a question before a rejection, a QR code and a status page that ends by itself |
| Decisions | `ui/action/validate.c` | context | sign or refuse, answer the pending command |
| Responses | `helper/send_reponse.c` | context | lay out a key or a signature |
| Version, name | `handler/get_version.c`, `handler/get_app_name.c` | none | answer |
| SDK | not in the repository | transport, buffers, BIP32, hash, signature, graphics | external |
| Host | `tests/application_client` | the call in progress | cuts a transaction in pieces, sends them one by one, waits for the decision, takes the answers apart |
| Fuzzing harness | `fuzzing/fuzz_tx_parser.cc` | none | parses a buffer and formats what it accepts |

One thread runs everything. `io_recv_command` blocks until a command arrives,
and it is inside that call that the SDK runs the screen callbacks. A handler
either answers its command before it returns, or starts a review and returns;
then a callback answers later. `G_context`, the display strings and the callback
pointer are shared memory between handlers and callbacks, with no lock and no
check of the screen: the code relies on the transport not to deliver a command
while one is still unanswered.

### What is hard about it

* What is shown, what was hashed and what is signed are four copies of the same
  thing made at three moments; a decision comes an unbounded time later.
* A session is spread over commands: chunks of a failed parse stay, a refused
  path leaves a session open, reviewed bytes can be extended.
* Answers can be lost. A handler's loss ends the program; a callback's is ignored.
* The program can be quit and started again between two chunks.
* A review can be walked through in any order, left for the rejection question
  and returned to; a status page ends by itself while the next command arrives.
* A call of the client is several commands and may end after any of them, while
  the device keeps what it has received.
* The caller's code runs while the device waits for its user. An exception there
  ends the call and leaves the review on display, with nobody to read its answer.
* Lengths: 510 bytes, four varint widths, a 64-bit length cut to a `size_t`.

`PROJECT.json` lists these as hazards, each at its line. Two of them are kept away
by the SDK and not by this code: a command delivered while another is unanswered,
and a status page's timer that ends after the page is gone. The models take the
SDK's word for both, and no property covers them. A third, an SDK error cut to 16
bits, has none either: which errors exist is not in the repository.

### What makes each part correct

| Part | Properties |
| --- | --- |
| Transaction | accepts exactly the documented grammar; parse and serialize are inverse; no accepted buffer extends another |
| Main loop, screens | a command is owed an answer exactly while a review is on display, and the user can reach the buttons that send it |
| Pages, flows | nothing is approved before all of it was on display; every review ends; the status page is true |
| Context | the two members of the union are never both in use |
| Reviews | the strings on display, the digest, the path and the callback agree until the decision |
| Decisions | no signature but for the bytes on display; no key but the one on display |
| Sessions | the buffer is what the host sent, whatever failed or was lost |
| Responses | the client finds in them what was put there |
| Client | a review, and the signature it ends with, are of the call that asked for them, even when that call is over; every call returns |

## 2. The modules

| Module | Contents |
| --- | --- |
| `Transaction` | the parser, the serializer, the encoding check and the formatting of the memo as operators on byte sequences, with the field widths as constants |
| `TransactionStream` | the `raw_tx` buffer of one session, grown byte by byte, with the lengths at which a last chunk would have been accepted |
| `ClientTransaction` | the client's `Transaction` class and varints, and the fuzzing harness, over the same buffers |
| `Crypto` | what the SDK computes (digest, key, address, signature) as tagged values, and the shape of a response; external |
| `App` | the application: one action per exit of each handler, user decision, menu step and transport event |
| `BaglApp` | `App` on a two-button device: the flows of `bagl_display.c` and `menu_bagl.c`, step by step |
| `NbglApp` | `App` on a touch screen: the pages of `nbgl_display_*.c` and `menu_nbgl.c` |
| `Client` | `App` with the Python client at the other end of the cable |
| `HostView` | `App` with a history variable: what any host can conclude from its own commands and the answers |
| `Responses` | the bytes of the two answers that have a layout, packed and unpacked |
| `SigningDevice` | abstract specification of the application: a session, a question, an answer |
| `AppRefinement` | the mapping under which `App` implements `SigningDevice` |
| `Confirmation` | abstract specification of the screens: a review, its unread lines, one decision |
| `TransactionProofs`, `AppProofs`, `HostProofs`, `BaglProofs`, `NbglProofs`, `ClientProofs`, `ResponsesProofs` | theorems about the module of that name; `AppProofs` also has the refinement of `AppRefinement` |
| `StreamProofs` | theorems about `TransactionStream` and `ClientTransaction` |
| `MCTransactionSmall`, `MCTransactionReal`, `MCApp`, `MCHostView`, `MCBaglApp`, `MCNbglApp`, `MCClient` | constants for TLC |

`BaglApp`, `NbglApp`, `Client` and `HostView` each extend `App` and compose it
with one neighbour: every one of their actions is an action of `App` together
with what the neighbour does in the same step, or a step of the neighbour alone.

Definitions marked "(variant: ...)" are not used by the specifications: each is
the definition after it with a plausible mistake, and shows that the property it
is paired with in `PROJECT.json` notices it.

### `App` and the code

`G_context` is a record with the fields of `global_ctx_t`. `transaction` and
`signature` are left out because the code fills them immediately before every
use (`Responses` keeps the signature's array). The union is modelled as separate
fields; `UnionInUse`, checked and proved, is what makes that faithful. `running`
says that `app_main` has not returned, `screen` which flow is on display, `owed`
that a received command has not been answered, `answer` the last response given
to the transport. `g_amount`, `g_address` and `g_validate_callback` are the
statics of the display files.

An action of a command is a conjunction of the dispatcher's and the handler's
guards (`Calls`, `PathReads`, `InSession`, `FitsRawTx`, `ParsedOK`), the context
the handler leaves, and either `Reply` or the start of a review. `Reply` has two
outcomes: the answer is sent, or it is not and `app_main` returns. `Respond` is
the same for callbacks and malformed APDUs, where the result is ignored. The
failures of SDK calls (derivation, digest, display, signature) are choices.
`ui_display_*` repeat a guard on the context that their only callers have just
established; `AddressDisplayFailures` and `TransactionDisplayFailures` keep that
`SW_BAD_STATE` exit in the model, and no state takes it.

The context of a request is built by small operators (`AddressContext`,
`KeyContext`, `StartContext`, `Stored`, `ParsedContext`, `HashedContext`) in the
order in which the code assigns.

### The screens and the code

`BaglApp` adds `step`, the position in the flow on display, and `seen`, a history
of the texts the current review has had on display. A flow is the sequence of
steps of its `UX_FLOW`; `Left` and `Right` are the buttons, `Loops` is
`FLOW_LOOP`, and `FlowInit` is `ux_flow_init`, which every flow change calls. A
step with a callback needs both buttons on it: `PressApprove` takes `Decide` of
`App` only on the step "approve".

`NbglApp` adds `page`, `modal` (the question or the QR code that covers it),
`message` (what the last status page said) and `seen`. Every callback of the two
files is an action with the name it has there; what the use cases of the SDK do
between two callbacks (turn a page, open and close a cover, end a status page) is
an action of its own, marked external. The callbacks call `validate_*` first and
put up the status page after it; both happen in one step because the callback
runs to its end before the SDK looks at another event.

### The client and the code

`Client` adds `call`, `idx` (commands of the call answered `SW_OK`), `progress`
and `result`. `sign_tx` is the sequence of its commands: the path, then the
pieces of `split_message`. `Send` is one `exchange`; an answer other than
`SW_OK` raises, and `Returns` drops the rest of the call but nothing of what the
device keeps. `exchange_async` leaves the call "waiting", and `Decided` ends it.

`sign_tx` and `get_public_key_with_confirmation` are generators that run the
caller's code at their `yield`, inside `exchange_async`
(`boilerplate_command_sender.py:91-98`, `101-124`). The model therefore lets a
call end without its answer in two ways besides the loss of the connection
(`Raise`, which is the transport's and external):

* `BodyRaises`: the caller's code raises before the user has decided. The call
  is over; the device still shows the review and owes an answer. A new call may
  begin, and its first command is received after the user has decided the review
  that is left: the transport delivers none while an answer is owed.
* `Ends`: it raises when the answer is already there, at once or after the
  decision (`Awaits` names the commands that are sent this way). The answer is
  dropped.

`asked`, a history variable, is the call that put up the review on display; it is
what the properties compare the review and the signature with, because the call
in progress may be another one. One thing is taken from the transport and is
external: it has one exchange at a time, and hands an answer to the exchange that
asked for it or to nobody. In `Decided` an answer whose call is over is therefore
read by nobody, even if another call has begun. (The variant `DecidedForAnyone`
is a transport without that.)

### The client's reader

`from_bytes` in `ClientTransaction` is written from `boilerplate_transaction.py`
and `boilerplate_utils.py` alone: a stream read from the left with `read` (also for
`read_uint`: both programs read the nonce and the amount big-endian, and the model
keeps their bytes) and `read_varint`. It shares with `Transaction` the widths of the fields and the
saturation of numbers at `HUGE`, and none of the parser's operators, so that
`ClientReadsTheSame` compares two definitions in the nonce, the recipient and the
amount as well as in the memo.

### Abstractions

* A path element has `ELEMENT_LEN` bytes; an unread element is zero in the code
  and absent in the model.
* A digest, a key and an address are what they are computed from. The model thus
  assumes that hashes do not collide. The address line of a key and of a
  destination are told apart although both are 20 bytes in hexadecimal.
* Varint values saturate at `HUGE` = 65536, beyond every buffer.
* On the device, the encoding check of a memo length of 2^32 or more reads
  past the buffer. The outcome is taken to be the encoding error.
* A partly written digest, after an SDK failure, is the old value: it is
  overwritten before it is read. A partly written signature is anything, in
  `Responses`.
* `EndOfStatus` of `NbglApp` has the guard `page = "status"`, which
  `menu_nbgl.c:33-41` has not: it stands for the SDK's timer, which is the status
  page's and goes with it.
* A command is received only when none is unanswered; the guard in `Receive` is
  the transport's, and no line of `app_main.c` repeats it.
* The exit of `sign_tx.c:57-61` for a `buffer_move` that fails is left out: the
  check of the length just before it leaves room for the whole chunk.
* A text is on display as a whole: `BaglApp` does not scroll a long line, and
  `NbglApp` puts the two pairs of a transaction on one page.
* The client's `write_varint` is modelled for lengths below 2^16; a memo that
  fits the device is shorter than 512.

## 3. What is checked

| Run | Question | Bounds |
| --- | --- | --- |
| `transaction_small` | is the parser the documented grammar, do parse and serialize agree, is no accepted buffer a prefix of another, does the client read the same? | one-byte fields, every string of up to 7 bytes over {0, 1, 65, 128, 253}: empty and non-empty memos, non-ASCII, one- and three-byte lengths |
| `transaction_real` | the same at the real sizes, but for the prefixes; does the device read what the client makes, is a memo formatted whole? | headers followed by each varint form of 16 memo lengths around 0, 127, 252-256, 464-474 and by lengths above 2^32, grown by up to 4 bytes |
| `app` | are reviews coherent, does what is sent match what was reviewed, is `App` a `SigningDevice`? | 23 commands reaching every exit, one-byte fields, 5-byte buffer |
| `host_view` | is the session's buffer what the host sent? | session commands, up to 7 bytes sent |
| `bagl` | is consent informed on a two-button device, are the flows a `Confirmation`, does every review end? | 12 commands: two keys to review and one without review, four transactions |
| `nbgl` | the same on a touch screen; does the review stay on display, is the status page true? | as `bagl` |
| `client` | is the user shown what the call behind the review asks for, is a signature over that call's transaction, does the device understand the client, does every call return? | 5 methods, a path that reads and one that does not, transactions of 2, 4, 5 and 6 bytes in pieces of 2; a call may be left at any command |
| `responses` | does the client find in a response what was put there? | keys of 2 and 1 bytes, signatures of 1 to 3 bytes over 2 bytes, in any order, with failures between them |

The bounds of `app` let four transactions be reviewed, of two lengths, with
different amounts and destinations; one of them has no memo length and is
extended to another after its review. Chunks complete, undershoot and overflow
the buffer; a session is left for another, or for an address request, at every
point. Longer buffers repeat these cases. In `client` the four transactions are
two full pieces, three pieces of which the last byte fills the buffer, three
full pieces that do not fit, and one piece cut short that does not parse.
`MaxSent` only stops a host that goes on sending to
a device whose session has ended, which no property is about; `MaxGrown` stops
the growth of buffers that start at a boundary.

Deadlock is checked for the runs of `App`, the screens, the client and
`Responses`: the application can always receive, or be started. A
`TransactionStream` stops when its buffer is full.

What the properties say:

* `AcceptsOnlyDocumented` compares the parser, a left-to-right cursor, with the
  grammar of `doc/TRANSACTION.md` written as an encoder. The one exception is
  `Headless`, a buffer with no memo length (see below).
* `RoundTrip` is the property of the unit tests, for all inputs in range.
* `OneAcceptedLength` is about the session: bytes sent after a review never turn
  the reviewed bytes into another transaction, the same exception apart.
* `ClientReadsTheSame`, `DeviceReadsClient`: two programs in two languages agree
  on every buffer, and on every transaction the client makes. They differ in the
  length of a memo of 252 bytes, which the client writes in three bytes. Each
  side has a reader and a writer of its own.
* `MemoIsFormattedWhole`: the formatter never cuts a memo and never writes past
  its string, in the fuzzing harness as elsewhere.
* `AnswerOwedIffReview`, `AddressReviewCoherent`, `TransactionReviewCoherent`,
  `UnionInUse`: section 1.
* `SignatureMatchesReview` and `KeyMatchesReview` speak of the step that sends:
  what leaves the device against what is on the screen at that moment. The signed
  bytes must also be all those of the session, since the memo is never displayed.
* `DeviceSpec` is a refinement. `SigningDevice` signs the session itself in one
  step; that the digest made at the last chunk may stand for it is what the
  refinement shows.
* `BufferIsWhatHostSent`, `SignatureIsWhatHostSent` need `app_main` to return
  when a handler's answer is lost: a host that never heard that a chunk was
  refused would count it. `BadStateIsDeserved` is the other direction: an open
  session is not forgotten by anything but an address request or a restart.
* `ConsentIsInformed`: whatever buttons are pressed in whatever order, a
  signature or an approved key leaves the device only after the amount and the
  destination of the signed bytes, or the address of the key, were on display
  since this review began. It relates the bytes that are signed to what `seen`
  collected pages before.
* `ConfirmationSpec` is the second refinement: flows and pages are one abstract
  review that is approved only with no line unread.
* `ReviewIsOnDisplay`: no status page, menu or left-over question hides a review
  that is owed an answer. `StatusIsTrue`: a rejection on display was a rejection
  for the host.
* `DeviceHoldsTheBeginning`: what a call leaves behind, whatever way it ended,
  does not show up in the next one, even if its review is decided only then.
  `ReviewShowsTheCall`: what the user is asked about is what the program asked
  for, as long as the review is on display: the call that put it up may be over
  and another begun, and a call that waits, waits for its own review. The strings
  on display are made of what the device put together from pieces; the property
  compares them with that call's transaction and path. `SignedAsIntended`: a
  signature that leaves the device is over the transaction of the call behind the
  review, even if nobody reads it any more, and a call that returns a signature
  returns one over its own transaction.
  `CallsAreUnderstood`: the device finds no fault with the client's commands but
  those that are the caller's, a path or a transaction that is too long, or a
  transaction that as a whole does not parse.
* `ClientUnpacks`: the array of the signature keeps the end of a
  longer signature from before; it never reaches the host.

### Disagreements with the documentation

| Run | What happens |
| --- | --- |
| `find_memo_len` | a transaction without a memo length is accepted (`deserialize.c:46` has `&&` where the two conditions are alternatives; `doc/TRANSACTION.md:24`) |
| `find_memo_limit` | for the same reason, memos of 466 to 471 bytes are accepted (`transaction/types.h:8`) |
| `find_path` | chunks after a refused path are reviewed and signed (`sign_tx.c:40`; `handler/sign_tx.h:9`) |
| `find_signed` | on a touch screen the status page says that the transaction is signed although signing failed (`nbgl_display_transaction.c:72`) |

Met while reading, with no run because they are matters of two constants or of
wording:

* P2 is documented the other way round (`doc/COMMANDS.md:60` against
  `apdu/dispatcher.h:10-14`).
* A failed derivation is answered with an error of the SDK cut to 16 bits, which
  no table lists (`get_public_key.c:54`, `doc/COMMANDS.md:68`).
* A memo of 252 bytes is given a three-byte length by the client
  (`boilerplate_utils.py:11`, `doc/TRANSACTION.md:38`).
* A comment says that the amount is shown before the address; the flow shows the
  address first (`bagl_display.c:138-149`).

### Fairness

Safety properties are checked without any. The liveness properties need
someone to move:

* `EveryReviewEnds` (`bagl`, `nbgl`). A review has no time limit; only the user
  ends it. `User` assumes a user who does not turn back for ever: who is at the
  same step, or has the same button before them, again and again goes on from
  there in the end. That is strong fairness (SF) of going right from each step of
  a flow and of pressing the reject button, and for touch screens of the footer that
  rejects, of its confirmation and of closing the QR code. Nothing is assumed of
  the device, of approval or of arriving commands. Without the reject callback
  answering the host, or with one that does nothing, the property fails: the
  mutants show it.
* `EveryCallReturns` (`client`). The client is a sequential program between
  two exchanges (WF of `Send` or `Raise`), and the user decides (WF of `Decided`),
  also on a review whose call is over. Nothing makes the caller's code raise, and
  nothing is assumed of the device: it may be left at any moment, and the
  transport reports that to the client.

## 4. What is proved

All theorems hold for every set of commands and all sizes (`AppAssumption`,
`TransactionAssumption`, `ClientAssumption`, `ResponsesAssumption`: sizes are
natural numbers, an element and a field have at least one byte, a length fits
its byte; `PiecesAssumption`: `P1` counts more pieces than the buffer holds;
`BufferAssumption`: the buffer has room for the fields before the memo's length
and for one byte more, and is shorter than `HUGE`, 65536 - in the code 36 and
510). The proofs of the application treat the parser as an uninterpreted
operator and hold for any transaction format; what the format adds is in
`TransactionProofs`.

**The application (`AppProofs`).** `TypeCorrect`: the point is the bound on
`raw_tx`. `ReviewsCoherent`: `Spec => []IInv`, where `IInv` is `TypeOK`,
`AnswerOwedIffReview`, the two review invariants and `UnionInUse`. The review
invariants are not inductive alone. A command handled during a review would
replace the context under it: that this cannot happen is `AnswerOwedIffReview`,
because a command is received only when nothing is owed. The lemmas
`PathContextFields` and `ChunkContextFields` state what the handlers put in the
context, `DispatchKeeps` and `DecideKeeps` combine them. `SignatureCorrect`: no
handler hands over a signature (`DispatchSendsNoSignature`); in an approval the
callback says that the transaction was prepared, the invariant excludes that the
screen shows an address then, and gives the digest and the strings.
`KeyCorrect`: along the same argument for an address; a key sent without a
review is the key of the path in the command (`DispatchSendsItsKey`).

**The refinement (`AppProofs`).** `AppIsADevice`: `Spec => DeviceSpec`.
Initial states map to initial states; each exit of each handler maps to
`Answered`, `AnswerLost`, `ShowAddress` or `ShowTransaction`, each decision to
`Confirm`, `SignSession` or `Refuse`, using `IInv`. A section of its own states
what each command does to the session.

**The transaction format (`TransactionProofs`).** `EncodedIsRead`: the parser
reads in what the serializer makes of a transaction that fits just that
transaction, whatever the widths of the fields. `EncodedOnce`: so no two of them
have the same encoding. The argument goes through a description of a buffer that
neither the parser nor the serializer uses:

* `IsVarint(buf, at, n, w)` says which bytes spell n in w bytes. `VarintReads`
  shows that this is what `buffer_read_varint` reads, unless the value
  saturates; `MinimalVarintIs` that it is what the serializer writes. Adding up
  the digits is here (`LittleEndianValue`), and is done form by form: the four
  widths are fixed, so no induction is needed. Values saturate at `HUGE` = 2^16,
  so the third byte and those after it count only as zero or not zero, and
  `AsSizeTValue` shows that the cut to a `size_t` changes nothing that can fit a
  buffer.
* `IsFramed(buf, n, w)` says that a buffer is a header, such a varint and n ASCII
  bytes up to its end. `FramedIsParsed` and `ParsedIsFramed` show that these
  buffers are exactly the accepted ones, headless buffers apart. `ParsedForm`
  puts the nine exits of the parser, whose cursor is cut to a `size_t`, into one
  condition. That the check of the encoding runs over the whole length and the
  cursor over the cut one is harmless because a length that differs does not fit.
* `Frame(tx, v)` is a transaction around a varint. `FrameIsParsed`: it is read as
  tx; `ParsedIsTransaction`, `FramedIsFrame`: every framed buffer is the frame of
  what is read in it.

**The host (`HostProofs`).** The inductive invariant `HInv` is `HostTypeOK`,
`BufferIsWhatHostSent` and a part of its own, `NoSessionIsFresh`: when the host
claims a session the device does not have, the context is as the start left it.
`BufferCorrect`, `HostSignatureCorrect` and `BadStateCorrect` follow.

**The screens (`BaglProofs`, `NbglProofs`).** `BaglIsAnApp` and `NbglIsAnApp`:
the screens only restrict `App`, so every theorem above holds of them. The
inductive invariants `BInv` and `NInv` add that a step or page past the lines of
a review is on display only with those lines in `seen`. With `SignatureCorrect`,
which says that the signed bytes are those of the strings on display, this gives
`BaglConsentIsInformed` and `NbglConsentIsInformed`, and with a case per action
`BaglConfirms` and `NbglConfirms`, the refinement of `Confirmation`.
`NbglStatusCorrect`: a status page other than that of a signature is true.

**The client (`ClientProofs`).** The inductive invariant `CInv` is `CTypeOK`,
`DeviceHoldsTheBeginning` and `ReviewIsOfAsked`: a review on display is the one
`asked` asks for, with that call's path and all of its transaction, whether the
call is still waiting or over, and a call that waits is `asked`. It needs no
assumption on when a call ends: a call that is left changes neither the device
nor `asked`, and the next command is received only when nothing is owed
(`AnswerOwedIffReview`). The arithmetic is in the lemmas on pieces: the first i
pieces put together are the first i * `MAX_APDU_LEN` bytes, the last one ends
the transaction. `SignedCorrect` then follows from `SignatureCorrect`.
`CallsUnderstood` needs `EInv` besides, which says how far a call can get: the
pieces accepted so far fit the buffer, so `P1` still counts the next one
(`PiecesAssumption`: 510 bytes are fewer than 3 pieces of 255), and a session
missing in the middle of a call was lost by a restart.
`ReviewsOfCalls`: what is under review is the whole of the transaction of
`asked` (`TransactionAsked`), so the strings are made of it, or the address is
that of its path. `ReviewsAsWritten` goes on to the transaction behind the bytes,
again whether the call is over or not: if they are a frame, with any of the
varint's forms, the value and the recipient on
display are those of the frame, because `FrameIsParsed` says what the device
reads in it. This joins all parts that lie between a program that fills in a
transaction and the user who reads it on the device: pieces, session, parser
and display.

**The stream and the two codecs (`StreamProofs`).** `DocumentedCorrect`: the
parser accepts the encodings of `doc/TRANSACTION.md`, with any of the forms of a
varint, and headless buffers, and nothing else. `RoundTripCorrect`: what is
accepted is serialized to a buffer that is read as the same transaction, and to
the same bytes if it is as long. `ClientReadsCorrect` and `DeviceReadsCorrect`:
the client and the device agree, in both directions, and the one length at which
they write differently is 252. What the client's own reader finds in a buffer is
first put in the terms the frames are stated in (`ClientReader`).
`MemoFormatCorrect`: the formatter. All five follow from the lemmas on frames, taken at a buffer of the stream.
`OneLengthCorrect`: two accepted buffers of which one begins the other have the
same header and the same memo length, so the same length. `StreamTypeCorrect`:
the buffer never outgrows its array.

**The responses (`ResponsesProofs`).** `CutConcat` and `PopPrefixed` state that
a length byte and what it announces can be taken off a buffer;
`LayoutsCoherent` that the last response is the layout of what was made for it
and that the arrays keep their sizes; `UnpackingCorrect` combines them.

Every invariant and every action property the runs check is thus a theorem, and
so are the three refinements. Only model-checked are the liveness properties
`EveryReviewEnds` and `EveryCallReturns`: fairness and ENABLED are out of the
prover's reach.

## 5. Not modelled

* The SDK: transport, APDU parser, buffers, BIP32, hashing, graphics. It is not
  in the repository; what the code uses of it is in the modules and marked
  external.
* `get_app_and_version` of the client and its unpacker: the operating system
  answers that command, not this program. The unpackers of the version and of the
  name: their answers have no state.
* The unit and functional tests: they are examples of the behaviour the modules
  are checked for.
* Icons, wording, text layout, build files, CI.

## 6. What is left

* A theorem that puts the screens and the client together: that the texts in
  `seen` when a signature leaves the device are those of the client's call.
