----------------------------- MODULE StreamProofs -----------------------------
(***************************************************************************)
(* Theorems about the buffer of a session, for all field widths, all sizes *)
(* and all bytes: what the parser accepts of it, what it and the Python    *)
(* client make of it, and that it is accepted at one length only.          *)
(***************************************************************************)
EXTENDS ClientTransaction, TransactionProofs, FiniteSetTheorems

-----------------------------------------------------------------------------
(***************************************************************************)
(* Prefixes of a buffer.                                                   *)
(***************************************************************************)
\* The prefixes of a buffer stay when it grows.
LEMMA PrefixOfAppend ==
    ASSUME NEW buf \in Seq(Byte), NEW b \in Byte, NEW n \in 0 .. Len(buf)
    PROVE  SubSeq(Append(buf, b), 1, n) = SubSeq(buf, 1, n)
<1>1. /\ Append(buf, b) \in Seq(Byte) /\ Len(Append(buf, b)) = Len(buf) + 1
      /\ \A i \in 1 .. Len(buf) : Append(buf, b)[i] = buf[i]
    OBVIOUS
<1>2. Len(buf) \in Nat /\ n \in 0 .. Len(Append(buf, b))
    BY <1>1, LenProperties
<1>3. /\ SubSeq(Append(buf, b), 1, n) \in Seq(Byte)
      /\ Len(SubSeq(Append(buf, b), 1, n)) = n
      /\ \A i \in 1 .. n : SubSeq(Append(buf, b), 1, n)[i] = buf[i]
    BY <1>1, <1>2, PrefixProperties
<1>4. QED
    BY <1>2, <1>3, PrefixProperties, SeqEqual

\* The varint of a prefix, if it is there, is the varint of the buffer.
LEMMA PrefixVarint ==
    ASSUME NEW buf \in Seq(Byte), NEW n \in 0 .. Len(buf), NEW at \in Nat,
           VarintFits(SubSeq(buf, 1, n), at)
    PROVE  /\ VarintFits(buf, at)
           /\ SubSeq(buf, 1, n)[at + 1] = buf[at + 1]
           /\ VarintPayload(SubSeq(buf, 1, n), at) = VarintPayload(buf, at)
<1> DEFINE pre == SubSeq(buf, 1, n)
           extra == Extra(buf[at + 1])
<1>1. /\ pre \in Seq(Byte) /\ Len(pre) = n
      /\ \A i \in 1 .. n : pre[i] = buf[i]
      /\ Len(buf) \in Nat
    BY PrefixProperties, LenProperties
<1>2. at < n /\ at + 1 + Extra(pre[at + 1]) =< n
    BY <1>1 DEF VarintFits
<1> HIDE DEF pre
<1>3. pre[at + 1] = buf[at + 1] /\ buf[at + 1] \in Byte
    BY <1>1, <1>2, ElementOfSeq
<1>4. extra \in {0, 2, 4, 8} /\ at + 1 + extra =< n
    BY <1>2, <1>3, ExtraBytes
<1>5. buf[at + 1] < 253 \/ extra > 0
    <2>1. buf[at + 1] < 253 \/ extra # 0
        BY <1>3, ExtraBytes
    <2> HIDE DEF extra
    <2>2. QED
        BY <1>4, <2>1
<1> HIDE DEF extra
<1>6. VarintFits(buf, at)
    BY <1>1, <1>2, <1>4 DEF VarintFits, extra
<1>7. VarintPayload(pre, at) = VarintPayload(buf, at)
    <2>1. CASE buf[at + 1] < 253
        BY <1>3, <2>1 DEF VarintPayload
    <2>2. CASE ~(buf[at + 1] < 253)
        <3>1. extra > 0
            BY <1>5, <2>2
        <3>2. SubSeq(pre, at + 1 + 1, at + 1 + extra) = SubSeq(buf, at + 1 + 1, at + 1 + extra)
            <4> DEFINE first == at + 1 + 1
                       last == at + 1 + extra
            <4>1. /\ 1 \in 1 .. Len(buf) /\ n \in 1 .. Len(buf)
                  /\ first \in 1 .. n - 1 + 1 /\ last \in 1 .. n - 1 + 1
                  /\ 1 + first - 1 = first /\ 1 + last - 1 = last
                BY <1>1, <1>2, <1>4, <3>1
            <4> HIDE DEF first, last
            <4>2. SubSeq(SubSeq(buf, 1, n), first, last) = SubSeq(buf, 1 + first - 1, 1 + last - 1)
                BY <4>1, SubSeqOfSubSeq
            <4>3. QED
                BY <4>1, <4>2 DEF first, last, pre
        <3>3. QED
            BY <1>3, <2>2, <3>2 DEF VarintPayload, Field, extra
    <2>3. QED
        BY <2>1, <2>2
<1>8. QED
    BY <1>3, <1>6, <1>7 DEF pre

\* A buffer that is accepted reaches its memo and ends with it.
LEMMA ParsedEndsWithMemo ==
    ASSUME NEW buf \in Seq(Byte), ParsedOK(buf)
    PROVE  Len(buf) = MemoAt(buf) + MemoSeek(buf)
  BY DEF ParsedOK, Deserialize, ConsumesAll

\* Only one prefix of a buffer is accepted, where the buffer's own memo length
\* says, but for the prefix that has no memo length at all.
LEMMA AcceptedPrefix ==
    ASSUME NEW buf \in Seq(Byte), NEW n \in 0 .. Len(buf),
           ParsedOK(SubSeq(buf, 1, n)), n # MemoLenAt
    PROVE  n = MemoAt(buf) + MemoSeek(buf)
<1> DEFINE pre == SubSeq(buf, 1, n)
<1>1. pre \in Seq(Byte) /\ Len(pre) = n
    BY PrefixProperties
<1>2. n = MemoAt(pre) + MemoSeek(pre)
    BY <1>1, ParsedEndsWithMemo
<1>3. MemoLenAt \in Nat
    BY TransactionAssumption DEF MemoLenAt
<1>4. VarintFits(pre, MemoLenAt)
    BY <1>2, <1>3 DEF MemoAt, MemoSeek
<1>5. /\ VarintFits(buf, MemoLenAt)
      /\ pre[MemoLenAt + 1] = buf[MemoLenAt + 1]
      /\ VarintPayload(pre, MemoLenAt) = VarintPayload(buf, MemoLenAt)
    BY <1>3, <1>4, PrefixVarint
<1> HIDE DEF pre
<1>6. MemoAt(pre) = MemoAt(buf) /\ MemoSeek(pre) = MemoSeek(buf)
    BY <1>4, <1>5 DEF MemoAt, MemoSeek
<1>7. QED
    BY <1>2, <1>6

-----------------------------------------------------------------------------
(***************************************************************************)
(* The documented form.                                                    *)
(***************************************************************************)
\* The documented varint of each width is a varint.
LEMMA VarintOfIs ==
    ASSUME NEW n \in Nat, n < HUGE, NEW w \in {1, 3, 5, 9}, w = 1 => n < 253
    PROVE  VarintOf(n, w) \in Seq(Byte) /\ Len(VarintOf(n, w)) = w /\ IsVarint(VarintOf(n, w), 0, n, w)
<1>1. CASE w = 1
    <2>1. <<n>> \in Seq(Byte) /\ Len(<<n>>) = 1 /\ IsVarint(<<n>>, 0, n, 1)
        BY <1>1, VarintForms
    <2>2. VarintOf(n, w) = <<n>>
        BY <1>1 DEF VarintOf
    <2>3. QED
        BY <1>1, <2>1, <2>2
<1>2. CASE w # 1
    <2> DEFINE prefix == VarintPrefix[w]
               low == n % 256
               high == n \div 256
               rest == [i \in 1 .. w - 1 |-> IF i = 1 THEN low ELSE IF i = 2 THEN high ELSE 0]
               v == VarintOf(n, w)
    <2>1. v = <<prefix>> \o rest
        BY <1>2 DEF VarintOf
    <2>2. low \in Byte /\ high \in Byte /\ 0 \in Byte
        BY DEF HUGE, Byte
    <2>3. prefix \in {253, 254, 255} /\ prefix \in Byte /\ Extra(prefix) = w - 1
        <3>1. CASE w = 3
            BY <3>1, ExtraBytes DEF VarintPrefix, Byte
        <3>2. CASE w = 5
            BY <3>2, ExtraBytes DEF VarintPrefix, Byte
        <3>3. CASE w = 9
            BY <3>3, ExtraBytes DEF VarintPrefix, Byte
        <3>4. QED
            BY <1>2, <3>1, <3>2, <3>3
    <2> HIDE DEF low, high, v, prefix
    <2>4. w - 1 \in Nat /\ rest \in [1 .. w - 1 -> Byte]
        BY <2>2
    <2>5. rest \in Seq(Byte) /\ Len(rest) = w - 1
        BY <2>4
    <2>6. rest[1] = low /\ rest[2] = high /\ \A i \in 3 .. w - 1 : rest[i] = 0
        BY <1>2
    <2> HIDE DEF rest
    <2>7. <<prefix>> \in Seq(Byte) /\ Len(<<prefix>>) = 1 /\ <<prefix>>[1] = prefix
        BY <2>3
    <2>8. /\ v \in Seq(Byte) /\ Len(v) = 1 + (w - 1)
          /\ v[1] = prefix
          /\ \A i \in 1 .. w - 1 : v[1 + i] = rest[i]
        <3>1. /\ v \in Seq(Byte) /\ Len(v) = Len(<<prefix>>) + Len(rest)
              /\ \A i \in 1 .. Len(<<prefix>>) : v[i] = <<prefix>>[i]
              /\ \A i \in 1 .. Len(rest) : v[Len(<<prefix>>) + i] = rest[i]
            BY <2>1, <2>5, <2>7, ConcatBytes
        <3>2. 1 \in 1 .. 1
            OBVIOUS
        <3>3. QED
            BY <2>5, <2>7, <3>1, <3>2
    <2>9. v[2] = low /\ v[3] = high
        <3>1. 1 \in 1 .. w - 1 /\ 2 \in 1 .. w - 1
            BY <1>2
        <3>2. QED
            BY <2>6, <2>8, <3>1
    <2>10. ASSUME NEW i \in 4 .. w
           PROVE  v[i] = 0
        <3>1. i - 1 \in 1 .. w - 1 /\ i - 1 \in 3 .. w - 1 /\ 1 + (i - 1) = i
            OBVIOUS
        <3>2. QED
            BY <2>6, <2>8, <3>1
    <2>11. /\ 0 + w =< Len(v) /\ v[0 + 1] = prefix /\ v[0 + 2] = low /\ v[0 + 3] = high
           /\ \A i \in 4 .. w : v[0 + i] = 0
        BY <2>8, <2>9, <2>10
    <2>12. IsVarint(v, 0, n, w)
        BY <1>2, <2>3, <2>11 DEF IsVarint, low, high
    <2>13. Len(v) = w
        BY <2>8
    <2>14. QED
        BY <2>8, <2>12, <2>13 DEF v
<1>3. QED
    BY <1>1, <1>2

\* A buffer has the documented form when it is framed.
LEMMA DocumentedIsFramed ==
    ASSUME NEW buf \in Seq(Byte)
    PROVE  Documented(buf) <=> \E n \in Nat, w \in {1, 3, 5, 9} : IsFramed(buf, n, w)
<1> DEFINE len == Len(buf)
<1>1. /\ len \in Nat /\ MemoLenAt \in Nat /\ MAX_TX_LEN \in Nat
      /\ HUGE \in Nat /\ MAX_TX_LEN < HUGE
    BY MemoFacts, LenProperties, TransactionAssumption, BufferAssumption DEF HUGE
<1> HIDE DEF len
<1>2. ASSUME Documented(buf)
      PROVE  \E n \in Nat, w \in {1, 3, 5, 9} : IsFramed(buf, n, w)
    <2>1. PICK w \in {1, 3, 5, 9} :
             LET n == len - MemoLenAt - w
             IN  /\ len >= MemoLenAt + w
                 /\ w = 1 => n < 253
                 /\ Field(buf, MemoLenAt, w) = VarintOf(n, w)
                 /\ \A i \in 1 .. n : buf[MemoLenAt + w + i] < 128
        BY <1>2 DEF Documented, len
    <2> DEFINE n == len - MemoLenAt - w
               v == Field(buf, MemoLenAt, w)
    <2>2. len =< MAX_TX_LEN
        BY <1>2 DEF Documented, len
    <2>3. n \in Nat /\ n < HUGE /\ MemoLenAt + w + n = len /\ MemoLenAt + w =< len
        BY <1>1, <2>1, <2>2
    <2>4. /\ w = 1 => n < 253
          /\ v = VarintOf(n, w)
          /\ \A i \in 1 .. n : buf[MemoLenAt + w + i] < 128
        BY <2>1
    <2> HIDE DEF n
    <2>5. v \in Seq(Byte) /\ Len(v) = w /\ IsVarint(v, 0, n, w)
        BY <2>3, <2>4, VarintOfIs
    <2>6. \A i \in 1 .. w : buf[MemoLenAt + i] = v[i]
        <3>1. w \in Nat /\ MemoLenAt + w =< Len(buf)
            BY <2>3 DEF len
        <3>2. QED
            BY <1>1, <3>1, FieldProperties
    <2> HIDE DEF v
    <2>7. IsVarint(buf, MemoLenAt, n, w)
        <3>1. w \in Nat \ {0} /\ (w = 1 \/ w > 2) /\ MemoLenAt + w =< Len(buf)
            BY <2>3 DEF len
        <3>2. QED
            BY <1>1, <2>3, <2>5, <2>6, <3>1, VarintMoves
    <2>8. IsFramed(buf, n, w)
        BY <2>2, <2>3, <2>4, <2>7 DEF IsFramed, len
    <2>9. QED
        BY <2>3, <2>8
<1>3. ASSUME NEW n \in Nat, NEW w \in {1, 3, 5, 9}, IsFramed(buf, n, w)
      PROVE  Documented(buf)
    <2> DEFINE v == Field(buf, MemoLenAt, w)
    <2>1. v \in Seq(Byte) /\ Len(v) = w /\ IsVarint(v, 0, n, w)
        BY <1>3, FramedIsFrame
    <2>2. len =< MAX_TX_LEN /\ MemoLenAt + w + n = len /\ \A i \in 1 .. n : buf[MemoLenAt + w + i] < 128
        BY <1>3 DEF IsFramed, len
    <2>3. n < HUGE /\ len - MemoLenAt - w = n /\ len >= MemoLenAt + w
        BY <1>1, <2>2
    <2> HIDE DEF v
    <2>4. w = 1 => n < 253
        <3> SUFFICES ASSUME w = 1 PROVE n < 253
            OBVIOUS
        <3>1. 1 \in 1 .. Len(v)
            BY <2>1
        <3>2. v[1] \in Byte
            BY <2>1, <3>1, ElementOfSeq
        <3>3. v[1] = n /\ Extra(v[1]) = 0
            BY <2>1 DEF IsVarint
        <3>4. QED
            BY <3>2, <3>3, ExtraBytes
    <2>5. VarintOf(n, w) \in Seq(Byte) /\ Len(VarintOf(n, w)) = w /\ IsVarint(VarintOf(n, w), 0, n, w)
        BY <2>3, <2>4, VarintOfIs
    <2>6. v = VarintOf(n, w)
        BY <2>1, <2>5, SameVarint
    <2>7. /\ Len(buf) =< MAX_TX_LEN
          /\ Len(buf) - MemoLenAt - w = n
          /\ Len(buf) >= MemoLenAt + w
          /\ Field(buf, MemoLenAt, w) = VarintOf(n, w)
        BY <2>2, <2>3, <2>6 DEF len, v
    <2>8. QED
        BY <2>2, <2>4, <2>7 DEF Documented
<1>4. QED
    BY <1>2, <1>3

\* A buffer that stops where the memo length should begin is accepted, and has
\* no memo.
LEMMA HeadlessIsParsed ==
    ASSUME NEW buf \in Seq(Byte), Len(buf) = MemoLenAt
    PROVE  ParsedOK(buf) /\ MemoLen(buf) = 0
<1> DEFINE len == Len(buf)
<1>1. len \in Nat /\ len = MemoLenAt /\ MAX_TX_LEN \in Nat /\ MemoLenAt < MAX_TX_LEN
    BY LenProperties, TransactionAssumption, BufferAssumption
<1> HIDE DEF len
<1>2. len =< MAX_TX_LEN /\ ~(MemoLenAt < len) /\ MemoLenAt =< len /\ MemoLenAt + 0 = len
    BY <1>1
<1>3. ~VarintFits(buf, MemoLenAt)
    BY <1>2 DEF VarintFits, len
<1>4. MemoLen(buf) = 0 /\ MemoAt(buf) = MemoLenAt
    BY <1>3 DEF MemoLen, MemoAt
<1>5. \A i \in 1 .. 0 : buf[MemoAt(buf) + i] < 128
    OBVIOUS
<1>6. QED
    BY <1>2, <1>4, <1>5, ParsedForm DEF len

\* What the parser accepts is what is documented, and the headless buffer.
LEMMA ParsedIsDocumented ==
    ASSUME NEW buf \in Seq(Byte)
    PROVE  ParsedOK(buf) <=> (Documented(buf) \/ Headless(buf))
<1>1. ASSUME ParsedOK(buf)
      PROVE  Documented(buf) \/ Headless(buf)
    <2>1. Len(buf) =< MAX_TX_LEN
        BY <1>1, ParsedForm
    <2>2. QED
        BY <1>1, <2>1, ParsedIsFramed, DocumentedIsFramed DEF Headless
<1>2. ASSUME Documented(buf)
      PROVE  ParsedOK(buf)
    BY <1>2, DocumentedIsFramed, FramedIsParsed
<1>3. ASSUME Headless(buf)
      PROVE  ParsedOK(buf)
    BY <1>3, HeadlessIsParsed DEF Headless
<1>4. QED
    BY <1>1, <1>2, <1>3

-----------------------------------------------------------------------------
(***************************************************************************)
(* What is read of a buffer, made again.                                   *)
(***************************************************************************)
\* A transaction that was parsed is serialized as a frame with the shortest
\* varint.
LEMMA EncodedIsFrame ==
    ASSUME NEW tx \in transaction_t, Len(tx.memo) < HUGE
    PROVE  LET v == MinimalVarint(Len(tx.memo))
               w == IF Len(tx.memo) < 253 THEN 1 ELSE 3
           IN  /\ v \in Seq(Byte) /\ Len(v) = w /\ IsVarint(v, 0, Len(tx.memo), w)
               /\ Encoded(tx) = Frame(tx, v)
               /\ Encoded(tx) \in Seq(Byte)
               /\ Len(Encoded(tx)) = MemoLenAt + w + Len(tx.memo)
<1> DEFINE n == Len(tx.memo)
           v == MinimalVarint(n)
           w == IF n < 253 THEN 1 ELSE 3
<1>1. n \in Nat /\ n < HUGE
    BY LenProperties DEF transaction_t
<1>2. v \in Seq(Byte) /\ Len(v) = w /\ IsVarint(v, 0, n, w)
    BY <1>1, MinimalVarintIs
<1>3. Encoded(tx) = Frame(tx, v)
    BY DEF Encoded, Frame
<1> HIDE DEF v
<1>4. Frame(tx, v) \in Seq(Byte) /\ Len(Frame(tx, v)) = MemoLenAt + Len(v) + n
    BY <1>2, FrameBytes
<1> HIDE DEF w
<1>5. Encoded(tx) \in Seq(Byte) /\ Len(Encoded(tx)) = MemoLenAt + w + n
    BY <1>2, <1>3, <1>4
<1>6. QED
    BY <1>2, <1>3, <1>5, Zenon DEF v, w, n

\* A framed buffer is serialized again in as many bytes or fewer, and is what it
\* was when in as many.
LEMMA FramedAgain ==
    ASSUME NEW buf \in Seq(Byte), NEW n \in Nat, NEW w \in {1, 3, 5, 9}, IsFramed(buf, n, w)
    PROVE  /\ Len(Encoded(Parsed(buf))) =< Len(buf)
           /\ Len(buf) = Len(Encoded(Parsed(buf))) => Encoded(Parsed(buf)) = buf
<1> DEFINE tx == Parsed(buf)
           again == Encoded(tx)
           v == Field(buf, MemoLenAt, w)
           u == MinimalVarint(n)
           short == IF n < 253 THEN 1 ELSE 3
           len == Len(buf)
<1>1. ParsedOK(buf) /\ MemoLen(buf) = n
    BY FramedIsParsed
<1>2. tx \in transaction_t /\ Len(tx.memo) = n /\ n < HUGE
    BY <1>1, ParsedIsTransaction
<1>3. v \in Seq(Byte) /\ Len(v) = w /\ IsVarint(v, 0, n, w) /\ buf = Frame(tx, v)
    BY FramedIsFrame
<1> HIDE DEF tx
<1>4. /\ u \in Seq(Byte) /\ Len(u) = short /\ IsVarint(u, 0, n, short)
      /\ again = Frame(tx, u) /\ Len(again) = MemoLenAt + short + n
    BY <1>2, EncodedIsFrame
<1>5. len = MemoLenAt + w + n /\ MemoLenAt \in Nat /\ len \in Nat
    BY MemoFacts, LenProperties DEF IsFramed
<1> HIDE DEF again, v, u, len
<1>6. w = 1 => n < 253
    <2> SUFFICES ASSUME w = 1 PROVE n < 253
        OBVIOUS
    <2>1. 1 \in 1 .. Len(v)
        BY <1>3
    <2>2. v[1] \in Byte
        BY <1>3, <2>1, ElementOfSeq
    <2>3. v[1] = n /\ Extra(v[1]) = 0
        BY <1>3 DEF IsVarint
    <2>4. QED
        BY <2>2, <2>3, ExtraBytes
<1>7. Len(again) =< len
    BY <1>4, <1>5, <1>6
<1>8. ASSUME len = Len(again)
      PROVE  again = buf
    <2>1. short = w
        BY <1>4, <1>5, <1>8
    <2> HIDE DEF short
    <2>2. u = v
        BY <1>3, <1>4, <2>1, SameVarint
    <2>3. QED
        BY <1>3, <1>4, <2>2
<1>9. QED
    BY <1>7, <1>8 DEF again, tx, len

-----------------------------------------------------------------------------
(***************************************************************************)
(* What the Python client reads of a buffer.                               *)
(***************************************************************************)
\* A field of a prefix is that field of the buffer.
LEMMA PrefixField ==
    ASSUME NEW buf \in Seq(Byte), NEW k \in 0 .. Len(buf), NEW at \in Nat, NEW len \in Nat,
           at + len =< k
    PROVE  Field(SubSeq(buf, 1, k), at, len) = Field(buf, at, len)
<1> DEFINE pre == SubSeq(buf, 1, k)
           part == Field(buf, at, len)
<1>1. pre \in Seq(Byte) /\ Len(pre) = k /\ \A i \in 1 .. k : pre[i] = buf[i]
    BY PrefixProperties
<1>2. Len(buf) \in Nat /\ at + len =< Len(buf)
    BY LenProperties
<1>3. part \in Seq(Byte) /\ Len(part) = len /\ \A i \in 1 .. len : part[i] = buf[at + i]
    BY <1>2, FieldProperties
<1> HIDE DEF pre, part
<1>4. \A i \in 1 .. len : at + i \in 1 .. k
    BY <1>2
<1>5. \A i \in 1 .. len : pre[at + i] = part[i]
    BY <1>1, <1>3, <1>4
<1>6. at + len =< Len(pre)
    BY <1>1
<1>7. Field(pre, at, len) = part
    BY <1>1, <1>3, <1>5, <1>6, FieldIs
<1>8. QED
    BY <1>7 DEF pre, part

\* A read that is full is a field, and one that is not comes short.
LEMMA ReadBytes ==
    ASSUME NEW buf \in Seq(Byte), NEW pos \in Nat, NEW size \in Nat
    PROVE  /\ pos + size =< Len(buf) => read(buf, pos, size) = Field(buf, pos, size)
           /\ size # 0 /\ ~(pos + size =< Len(buf)) => Len(read(buf, pos, size)) # size
<1> DEFINE len == Len(buf)
           first == pos + 1
           last == IF pos + size < len THEN pos + size ELSE len
<1>1. len \in Nat
    BY LenProperties
<1>2. pos + size =< len => last = pos + size
    BY <1>1
<1>3. pos + size =< len => read(buf, pos, size) = Field(buf, pos, size)
    BY <1>2 DEF read, Field
<1>4. ASSUME size # 0, ~(pos + size =< len) PROVE Len(read(buf, pos, size)) # size
    <2>1. /\ first \in Int /\ len \in Int /\ first .. len \subseteq 1 .. Len(buf)
          /\ last = len
        BY <1>1, <1>4
    <2>2. \A i \in first .. len : buf[i] \in Byte
        BY <2>1, ElementOfSeq
    <2>3. read(buf, pos, size) = SubSeq(buf, first, len)
        BY <2>1 DEF read
    <2>4. /\ first =< len => len - first + 1 # size
          /\ ~(first =< len) => size # 0
        BY <1>1, <1>4
    <2> HIDE DEF first, last, len
    <2>5. Len(SubSeq(buf, first, len)) = IF first =< len THEN len - first + 1 ELSE 0
        BY <2>1, <2>2, SubSeqProperties
    <2>6. QED
        BY <2>3, <2>4, <2>5
<1>5. QED
    BY <1>3, <1>4

\* The client's number and the device's are the same for the same bytes.
LEMMA SameNumber ==
    ASSUME NEW b \in Seq(Byte), Len(b) \in {1, 2, 4, 8}
    PROVE  NumberOf(b) = LittleEndian(b)
<1>1. CASE Len(b) = 1
    <2>1. LittleEndian(b) = b[1]
        <3>1. \A i \in 3 .. Len(b) : b[i] = 0
            BY <1>1
        <3>2. QED
            BY <1>1, <3>1, LittleEndianValue
    <2>2. NumberOf(b) = b[1]
        BY <1>1 DEF NumberOf
    <2>3. QED
        BY <2>1, <2>2
<1>2. CASE Len(b) # 1
    BY <1>2 DEF NumberOf, LittleEndian
<1>3. QED
    BY <1>1, <1>2

\* read_varint reads a number where the device's does, and the same one.
LEMMA SameNumberRead ==
    ASSUME NEW buf \in Seq(Byte), NEW pos \in Nat
    PROVE  read_varint(buf, pos) =
             IF VarintFits(buf, pos)
             THEN {[number |-> LittleEndian(VarintPayload(buf, pos)),
                    end |-> pos + 1 + Extra(buf[pos + 1])]}
             ELSE {}
<1> DEFINE first == read(buf, pos, 1)
           n == NumberLen(first[1])
           b == IF n > 1 THEN read(buf, pos + 1, n) ELSE first
           prefix == buf[pos + 1]
<1>1. Len(buf) \in Nat
    BY LenProperties
<1>2. read_varint(buf, pos) =
        IF first = <<>> \/ Len(b) # n THEN {}
        ELSE {[number |-> NumberOf(b), end |-> IF n > 1 THEN pos + 1 + n ELSE pos + 1]}
    BY DEF read_varint
<1>3. CASE ~(pos < Len(buf))
    <2>1. first = <<>>
        BY <1>1, <1>3, SubSeqEmpty DEF read
    <2>2. QED
        BY <1>2, <1>3, <2>1 DEF VarintFits
<1>4. CASE pos < Len(buf)
    <2>1. prefix \in Byte
        BY <1>1, <1>4, ElementOfSeq
    <2>2. first = <<prefix>>
        <3>1. 1 \in Nat /\ pos + 1 =< Len(buf)
            BY <1>1, <1>4
        <3>2. first = Field(buf, pos, 1)
            BY <3>1, ReadBytes
        <3>3. <<prefix>> \in Seq(Byte) /\ Len(<<prefix>>) = 1
            BY <2>1
        <3>4. \A i \in 1 .. 1 : buf[pos + i] = <<prefix>>[i]
            OBVIOUS
        <3>5. Field(buf, pos, 1) = <<prefix>>
            BY <3>1, <3>3, <3>4, FieldIs
        <3>6. QED
            BY <3>2, <3>5
    <2>3. n = NumberLen(prefix) /\ first # <<>>
        BY <2>2
    <2> HIDE DEF first
    <2>4. CASE prefix < 253
        <3>1. Extra(prefix) = 0
            BY <2>1, <2>4, ExtraBytes
        <3>2. n = 1
            <4> HIDE DEF prefix, n
            <4>1. QED
                BY <2>1, <2>3, <2>4 DEF NumberLen, Byte
        <3>3. b = <<prefix>> /\ VarintPayload(buf, pos) = <<prefix>>
            BY <2>2, <2>4, <3>2 DEF VarintPayload
        <3>4. Len(b) = 1 /\ b \in Seq(Byte)
            BY <2>1, <3>3
        <3>5. VarintFits(buf, pos)
            BY <1>1, <1>4, <3>1 DEF VarintFits
        <3> HIDE DEF n, b, prefix
        <3>6. NumberOf(b) = LittleEndian(VarintPayload(buf, pos))
            BY <3>3, <3>4, SameNumber
        <3>7. read_varint(buf, pos) = {[number |-> NumberOf(b), end |-> pos + 1]}
            BY <1>2, <2>3, <3>2, <3>4
        <3>8. pos + 1 + Extra(prefix) = pos + 1
            BY <3>1
        <3>9. QED
            BY <3>5, <3>6, <3>7, <3>8 DEF prefix
    <2>5. CASE ~(prefix < 253)
        <3>1. prefix \in {253, 254, 255}
            <4> HIDE DEF prefix
            <4>1. QED
                BY <2>1, <2>5 DEF Byte
        <3>2. n = Extra(prefix) /\ n \in {2, 4, 8}
            <4> HIDE DEF prefix, n
            <4>1. QED
                BY <2>3, <3>1 DEF NumberLen, Extra
        <3>3. b = read(buf, pos + 1, n)
            BY <3>2
        <3> HIDE DEF n, b
        <3>4. n \in Nat /\ n # 0 /\ n > 1 /\ pos + 1 \in Nat
            BY <3>2
        <3>5. VarintFits(buf, pos) <=> pos + 1 + n =< Len(buf)
            BY <1>4, <3>2 DEF VarintFits
        <3>6. CASE pos + 1 + n =< Len(buf)
            <4>1. b = Field(buf, pos + 1, n)
                BY <3>3, <3>4, <3>6, ReadBytes
            <4>2. b \in Seq(Byte) /\ Len(b) = n
                BY <3>4, <3>6, <4>1, FieldProperties
            <4>3. b = VarintPayload(buf, pos)
                BY <2>5, <3>2, <4>1 DEF VarintPayload
            <4>4. NumberOf(b) = LittleEndian(b)
                BY <3>2, <4>2, SameNumber
            <4>5. read_varint(buf, pos) = {[number |-> NumberOf(b), end |-> pos + 1 + n]}
                BY <1>2, <2>3, <3>4, <4>2
            <4>6. QED
                BY <3>2, <3>5, <3>6, <4>3, <4>4, <4>5
        <3>7. CASE ~(pos + 1 + n =< Len(buf))
            <4>1. Len(b) # n
                BY <3>3, <3>4, <3>7, ReadBytes
            <4>2. QED
                BY <1>2, <3>5, <3>7, <4>1
        <3>8. QED
            BY <3>6, <3>7
    <2>6. QED
        BY <2>4, <2>5
<1>5. QED
    BY <1>3, <1>4

\* Where the memo ends, for a buffer whose varint is there; and the fields before it.
MemoEnd(buf) == MemoAt(buf) + MemoLen(buf)

ClientFields(buf) ==
    [nonce |-> Field(buf, 0, U64_LEN), to |-> Field(buf, ToAt, ADDRESS_LEN),
     value |-> Field(buf, ValueAt, U64_LEN), memo |-> SubSeq(buf, MemoAt(buf) + 1, MemoEnd(buf))]

\* What the client reads, in the terms of the device's parser.
LEMMA ClientReader ==
    ASSUME NEW buf \in Seq(Byte)
    PROVE  from_bytes(buf) =
             IF VarintFits(buf, MemoLenAt) /\ MemoEnd(buf) =< Len(buf)
                /\ ClientAccepts(ClientFields(buf))
             THEN {[tx |-> ClientFields(buf), end |-> MemoEnd(buf)]}
             ELSE {}
<1> DEFINE Tx(m) == [nonce |-> read(buf, 0, U64_LEN),
                     to    |-> read(buf, U64_LEN, ADDRESS_LEN),
                     value |-> read(buf, U64_LEN + ADDRESS_LEN, U64_LEN),
                     memo  |-> read(buf, m.end, m.number)]
           Made(m) == [tx |-> Tx(m), end |-> m.end + m.number]
           at == MemoAt(buf)
           n == MemoLen(buf)
           m0 == [number |-> n, end |-> at]
<1>1. from_bytes(buf) = {r \in {Made(m) : m \in read_varint(buf, MemoLenAt)} :
                           r.end =< Len(buf) /\ ClientAccepts(r.tx)}
    BY DEF from_bytes, MemoLenAt
<1>2. /\ Len(buf) \in Nat /\ MemoLenAt \in Nat /\ at \in Nat /\ n \in Nat
      /\ U64_LEN \in Nat /\ ADDRESS_LEN \in Nat /\ 0 \in Nat /\ U64_LEN + ADDRESS_LEN \in Nat
    BY MemoFacts, LenProperties, TransactionAssumption
<1>3. CASE ~VarintFits(buf, MemoLenAt)
    <2>1. read_varint(buf, MemoLenAt) = {}
        BY <1>2, <1>3, SameNumberRead
    <2>2. QED
        BY <1>1, <1>3, <2>1
<1>4. CASE VarintFits(buf, MemoLenAt)
    <2>1. read_varint(buf, MemoLenAt) = {m0}
        BY <1>2, <1>4, SameNumberRead DEF MemoLen, MemoAt
    <2>2. Made(m0).end = MemoEnd(buf) /\ Made(m0).tx = Tx(m0) /\ m0.end = at /\ m0.number = n
        BY DEF MemoEnd
    <2>3. /\ 0 + U64_LEN =< Len(buf)
          /\ U64_LEN + ADDRESS_LEN =< Len(buf)
          /\ U64_LEN + ADDRESS_LEN + U64_LEN =< Len(buf)
        BY <1>2, <1>4 DEF VarintFits, MemoLenAt
    <2>4. /\ read(buf, 0, U64_LEN) = Field(buf, 0, U64_LEN)
          /\ read(buf, U64_LEN, ADDRESS_LEN) = Field(buf, ToAt, ADDRESS_LEN)
          /\ read(buf, U64_LEN + ADDRESS_LEN, U64_LEN) = Field(buf, ValueAt, U64_LEN)
        BY <1>2, <2>3, ReadBytes DEF ToAt, ValueAt
    <2>5. MemoEnd(buf) =< Len(buf) => read(buf, at, n) = SubSeq(buf, at + 1, MemoEnd(buf))
        <3>1. at + n =< Len(buf) => read(buf, at, n) = Field(buf, at, n)
            BY <1>2, ReadBytes
        <3>2. QED
            BY <3>1 DEF MemoEnd, Field
    <2>6. MemoEnd(buf) =< Len(buf) => Tx(m0) = ClientFields(buf)
        BY <2>2, <2>4, <2>5 DEF ClientFields
    <2> HIDE DEF Tx, m0, at, n
    <2>7. MemoEnd(buf) =< Len(buf) => Made(m0) = [tx |-> ClientFields(buf), end |-> MemoEnd(buf)]
        BY <2>2, <2>6
    <2> HIDE DEF Made
    <2>8. from_bytes(buf) = IF Made(m0).end =< Len(buf) /\ ClientAccepts(Made(m0).tx)
                            THEN {Made(m0)} ELSE {}
        BY <1>1, <2>1
    <2>9. QED
        BY <1>4, <2>2, <2>6, <2>7, <2>8
<1>5. QED
    BY <1>3, <1>4

\* What the client reads is a transaction; the parser of the device reads the
\* same one in the bytes that the client consumed, if it looks at that many.
LEMMA ClientRead ==
    ASSUME NEW buf \in Seq(Byte), NEW r \in from_bytes(buf)
    PROVE  /\ r.tx \in transaction_t
           /\ LET seen == SubSeq(buf, 1, r.end)
              IN  Len(seen) =< MAX_TX_LEN => ParsedOK(seen) /\ Parsed(seen) = r.tx
<1> DEFINE len == Len(buf)
           n == MemoLen(buf)
           extra == Extra(buf[MemoLenAt + 1])
           w == extra + 1
           end == MemoEnd(buf)
           seen == SubSeq(buf, 1, end)
           memo == Field(buf, MemoAt(buf), n)
           tx == r.tx
<1>1. /\ VarintFits(buf, MemoLenAt) /\ end =< len /\ ClientAccepts(tx)
      /\ tx = ClientFields(buf) /\ r.end = end
    BY ClientReader
<1>2. /\ len \in Nat /\ MemoLenAt \in Nat /\ MemoAt(buf) \in Nat /\ n \in Nat
      /\ U64_LEN \in Nat /\ ADDRESS_LEN \in Nat /\ ToAt = U64_LEN /\ ValueAt = U64_LEN + ADDRESS_LEN
      /\ MemoLenAt = U64_LEN + ADDRESS_LEN + U64_LEN
      /\ MAX_TX_LEN \in Nat /\ MAX_TX_LEN < HUGE /\ HUGE \in Nat
    BY MemoFacts, LenProperties, TransactionAssumption, BufferAssumption
    DEF ToAt, ValueAt, MemoLenAt, HUGE
<1>3. end = MemoAt(buf) + n /\ MemoAt(buf) = MemoLenAt + 1 + extra /\ n = LittleEndian(VarintPayload(buf, MemoLenAt))
    BY <1>1 DEF MemoEnd, MemoAt, MemoLen
<1>4. extra \in {0, 2, 4, 8}
    BY <1>1, <1>2, PayloadBytes, ExtraBytes
<1>5. memo = SubSeq(buf, MemoAt(buf) + 1, end)
    BY <1>3 DEF Field
<1> HIDE DEF len, n, extra, end
<1>6. w \in {1, 3, 5, 9} /\ extra = w - 1 /\ MemoAt(buf) = MemoLenAt + w
    BY <1>2, <1>3, <1>4
<1> HIDE DEF w
<1>7. /\ 0 \in Nat /\ 0 + U64_LEN =< end /\ ToAt \in Nat /\ ToAt + ADDRESS_LEN =< end
      /\ ValueAt \in Nat /\ ValueAt + U64_LEN =< end /\ MemoAt(buf) + n =< end
      /\ MemoLenAt + w =< end /\ MemoLenAt + w + n = end
      /\ end \in 0 .. len /\ w \in Nat
    <2>1. /\ w \in Nat /\ MemoLenAt + w + n = end /\ MemoAt(buf) + n = end
          /\ end \in Nat /\ end =< len /\ MemoLenAt =< end /\ MemoLenAt + w =< end
        <3> DEFINE at == MemoAt(buf)
        <3>1. /\ end =< len /\ len \in Nat /\ MemoLenAt \in Nat /\ at \in Nat /\ n \in Nat
              /\ end = at + n /\ at = MemoLenAt + w
            BY <1>1, <1>2, <1>3, <1>6
        <3>2. w \in Nat
            BY <1>6
        <3> HIDE DEF at
        <3>3. QED
            BY <3>1, <3>2 DEF at
    <2>2. QED
        BY <1>2, <2>1
<1>8. /\ Field(buf, 0, U64_LEN) \in Seq(Byte)
      /\ Field(buf, ToAt, ADDRESS_LEN) \in Seq(Byte)
      /\ Field(buf, ValueAt, U64_LEN) \in Seq(Byte)
    <2>1. /\ 0 + U64_LEN =< Len(buf) /\ ToAt + ADDRESS_LEN =< Len(buf) /\ ValueAt + U64_LEN =< Len(buf)
          /\ U64_LEN \in Nat /\ ADDRESS_LEN \in Nat
        BY <1>2, <1>7 DEF len
    <2>2. QED
        BY <1>7, <2>1, FieldProperties
<1>9. memo \in Seq(Byte) /\ Len(memo) = n /\ \A i \in 1 .. n : memo[i] = buf[MemoAt(buf) + i]
    <2> DEFINE at == MemoAt(buf)
    <2>1. at \in Nat /\ n \in Nat /\ at + n =< Len(buf)
        BY <1>2, <1>7 DEF len
    <2> HIDE DEF at
    <2>2. QED
        BY <2>1, FieldProperties DEF at
<1> HIDE DEF memo
<1>10. tx = [nonce |-> Field(buf, 0, U64_LEN), to |-> Field(buf, ToAt, ADDRESS_LEN),
             value |-> Field(buf, ValueAt, U64_LEN), memo |-> memo]
    BY <1>1, <1>5 DEF ClientFields, end
<1>11. tx \in transaction_t
    BY <1>1, <1>8, <1>9, <1>10 DEF transaction_t, ClientAccepts
<1>12. ASSUME Len(seen) =< MAX_TX_LEN
       PROVE  ParsedOK(seen) /\ Parsed(seen) = tx
    <2>1. seen \in Seq(Byte) /\ Len(seen) = end /\ \A i \in 1 .. end : seen[i] = buf[i]
        <3>1. end \in 0 .. Len(buf)
            BY <1>7 DEF len
        <3>2. QED
            BY <3>1, PrefixProperties
    <2>2. end =< MAX_TX_LEN
        BY <1>12, <2>1
    <2>3. Field(seen, 0, U64_LEN) = Field(buf, 0, U64_LEN)
        <3>1. end \in 0 .. Len(buf) /\ U64_LEN \in Nat
            BY <1>2, <1>7 DEF len
        <3>2. QED
            BY <1>7, <3>1, PrefixField
    <2>4. Field(seen, ToAt, ADDRESS_LEN) = Field(buf, ToAt, ADDRESS_LEN)
        <3>1. end \in 0 .. Len(buf) /\ ADDRESS_LEN \in Nat
            BY <1>2, <1>7 DEF len
        <3>2. QED
            BY <1>7, <3>1, PrefixField
    <2>5. Field(seen, ValueAt, U64_LEN) = Field(buf, ValueAt, U64_LEN)
        <3>1. end \in 0 .. Len(buf) /\ U64_LEN \in Nat
            BY <1>2, <1>7 DEF len
        <3>2. QED
            BY <1>7, <3>1, PrefixField
    <2>6. Field(seen, MemoAt(buf), n) = memo
        <3>1. end \in 0 .. Len(buf)
            BY <1>7 DEF len
        <3>2. QED
            BY <1>2, <1>7, <3>1, PrefixField DEF memo
    <2> HIDE DEF seen
    <2>7. n < HUGE
        BY <1>2, <1>7, <2>2
    <2>8. IsVarint(buf, MemoLenAt, n, w)
        <3>1. /\ VarintFits(buf, MemoLenAt) /\ Extra(buf[MemoLenAt + 1]) = w - 1
              /\ LittleEndian(VarintPayload(buf, MemoLenAt)) = n
            BY <1>1, <1>2, <1>3, <1>6 DEF extra
        <3>2. MemoLenAt \in Nat /\ w \in {1, 3, 5, 9} /\ n \in Nat
            BY <1>2, <1>6
        <3>3. QED
            BY <2>7, <3>1, <3>2, VarintReads
    <2>9. IsVarint(seen, MemoLenAt, n, w)
        <3> DEFINE v == Field(buf, MemoLenAt, w)
        <3>1. w \in Nat \ {0} /\ (w = 1 \/ w > 2) /\ MemoLenAt + w =< Len(buf) /\ MemoLenAt + w =< Len(seen)
            BY <1>2, <1>6, <1>7, <2>1 DEF len
        <3>2. v \in Seq(Byte) /\ Len(v) = w /\ \A i \in 1 .. w : v[i] = buf[MemoLenAt + i]
            <4>1. w \in Nat /\ MemoLenAt \in Nat /\ MemoLenAt + w =< Len(buf)
                BY <1>2, <3>1
            <4>2. QED
                BY <4>1, FieldProperties
        <3> HIDE DEF v
        <3>3. \A i \in 1 .. w : seen[MemoLenAt + i] = v[i]
            <4>1. \A i \in 1 .. w : MemoLenAt + i \in 1 .. end
                BY <1>2, <1>7
            <4>2. QED
                BY <2>1, <3>2, <4>1
        <3>4. IsVarint(v, 0, n, w)
            BY <1>2, <2>8, <3>1, <3>2, VarintMoves
        <3>5. QED
            BY <1>2, <2>1, <3>1, <3>2, <3>3, <3>4, VarintMoves
    <2>10. \A i \in 1 .. n : seen[MemoLenAt + w + i] < 128
        <3> DEFINE at == MemoLenAt + w
        <3>1. \A i \in 1 .. n : at + i \in 1 .. end
            BY <1>2, <1>7
        <3>2. \A i \in 1 .. n : memo[i] = buf[at + i] /\ memo[i] < 128
            BY <1>1, <1>6, <1>9, <1>10 DEF ClientAccepts
        <3> HIDE DEF at
        <3>3. \A i \in 1 .. n : seen[at + i] < 128
            BY <2>1, <3>1, <3>2
        <3>4. QED
            BY <3>3 DEF at
    <2>11. IsFramed(seen, n, w)
        BY <1>7, <2>1, <2>2, <2>9, <2>10 DEF IsFramed
    <2>12. ParsedOK(seen) /\ MemoAt(seen) = MemoAt(buf) /\ MemoSeek(seen) = n
        BY <1>2, <1>6, <2>1, <2>11, FramedIsParsed
    <2>13. QED
        BY <1>10, <2>3, <2>4, <2>5, <2>6, <2>12 DEF Parsed
<1>13. QED
    BY <1>1, <1>11, <1>12 DEF seen

-----------------------------------------------------------------------------
(***************************************************************************)
(* The session's buffer.                                                   *)
(***************************************************************************)
\* raw_tx stays in its array.
THEOREM StreamTypeCorrect == Spec => []TypeOK
<1>1. \A buf \in Seq(Byte) : Len(buf) \in Nat /\ AcceptedAt(buf) \subseteq 0 .. Len(buf)
    BY LenProperties DEF AcceptedAt
<1>2. Init => TypeOK
    BY <1>1, StreamAssumption DEF Init, TypeOK
<1>3. TypeOK /\ [Next]_vars => TypeOK'
    <2> SUFFICES ASSUME TypeOK, [Next]_vars PROVE TypeOK'
        OBVIOUS
    <2>1. ASSUME NEW b \in Bytes, Append1(b) PROVE TypeOK'
        <3>1. b \in Byte /\ raw_tx \in Seq(Byte) /\ Len(raw_tx) \in Nat
            BY StreamAssumption, LenProperties DEF TypeOK
        <3>2. raw_tx' \in Seq(Byte) /\ Len(raw_tx') = Len(raw_tx) + 1
            BY <2>1, <3>1 DEF Append1
        <3>3. accepted' \subseteq 0 .. Len(raw_tx')
            <4>1. AcceptedAt(raw_tx') \subseteq 0 .. Len(raw_tx')
                BY <1>1, <3>2
            <4>2. accepted \subseteq 0 .. Len(raw_tx')
                BY <3>1, <3>2 DEF TypeOK
            <4>3. QED
                BY <2>1, <4>1, <4>2 DEF Append1
        <3>4. Len(raw_tx') =< MAX_TRANSACTION_LEN
            BY <2>1, <3>2 DEF Append1, HasRoom
        <3>5. grown' \in 0 .. MaxGrown
            BY <2>1, StreamAssumption DEF Append1, TypeOK
        <3>6. QED
            BY <3>2, <3>3, <3>4, <3>5 DEF TypeOK
    <2>2. CASE UNCHANGED vars
        BY <2>2 DEF vars, TypeOK
    <2>3. QED
        BY <2>1, <2>2 DEF Next
<1>4. QED
    BY <1>2, <1>3, PTL DEF Spec

\* What was accepted once is an accepted prefix of what the buffer has become.
AcceptedArePrefixes == \A n \in accepted : ParsedOK(SubSeq(raw_tx, 1, n))

\* AcceptedArePrefixes, along every behaviour.
LEMMA PrefixesStay == Spec => []AcceptedArePrefixes
<1>1. \A buf \in Seq(Byte) : \A n \in AcceptedAt(buf) : ParsedOK(SubSeq(buf, 1, n))
    BY SubSeqFull DEF AcceptedAt
<1>2. Init => AcceptedArePrefixes
    BY <1>1, StreamAssumption DEF Init, AcceptedArePrefixes
<1>3. TypeOK /\ AcceptedArePrefixes /\ [Next]_vars => AcceptedArePrefixes'
    <2> SUFFICES ASSUME TypeOK, AcceptedArePrefixes, [Next]_vars PROVE AcceptedArePrefixes'
        OBVIOUS
    <2>1. ASSUME NEW b \in Bytes, Append1(b) PROVE AcceptedArePrefixes'
        <3>1. /\ b \in Byte /\ raw_tx \in Seq(Byte) /\ accepted \subseteq 0 .. Len(raw_tx)
              /\ raw_tx' = Append(raw_tx, b)
            BY <2>1, StreamAssumption DEF TypeOK, Append1
        <3>2. \A n \in accepted : ParsedOK(SubSeq(raw_tx', 1, n))
            BY <3>1, PrefixOfAppend DEF AcceptedArePrefixes
        <3>3. raw_tx' \in Seq(Byte)
            BY <3>1
        <3>4. \A n \in AcceptedAt(raw_tx') : ParsedOK(SubSeq(raw_tx', 1, n))
            BY <1>1, <3>3
        <3>5. QED
            BY <2>1, <3>2, <3>4 DEF Append1, AcceptedArePrefixes
    <2>2. CASE UNCHANGED vars
        BY <2>2 DEF vars, AcceptedArePrefixes
    <2>3. QED
        BY <2>1, <2>2 DEF Next
<1>4. QED
    BY <1>2, <1>3, StreamTypeCorrect, PTL DEF Spec

\* Bytes sent after a review never turn the reviewed bytes into another
\* transaction, whatever the widths of the fields and the sizes.
THEOREM OneLengthCorrect == Spec => []OneAcceptedLength
<1>1. TypeOK /\ AcceptedArePrefixes => OneAcceptedLength
    <2> SUFFICES ASSUME TypeOK, AcceptedArePrefixes PROVE OneAcceptedLength
        OBVIOUS
    <2> DEFINE end == MemoAt(raw_tx) + MemoSeek(raw_tx)
    <2>1. accepted \ {MemoLenAt} \subseteq {end}
        BY AcceptedPrefix DEF TypeOK, AcceptedArePrefixes
    <2> HIDE DEF end
    <2>2. IsFiniteSet({end}) /\ Cardinality({end}) = 1
        BY FS_Singleton
    <2>3. Cardinality(accepted \ {MemoLenAt}) =< Cardinality({end})
        BY <2>1, <2>2, FS_Subset
    <2>4. QED
        BY <2>2, <2>3 DEF OneAcceptedLength
<1>2. QED
    BY <1>1, StreamTypeCorrect, PrefixesStay, PTL

-----------------------------------------------------------------------------
(***************************************************************************)
(* The buffer, the parser and the client.                                  *)
(***************************************************************************)
\* The parser accepts the documented transactions and the headless buffer, and
\* nothing else.
THEOREM DocumentedCorrect == Spec => []AcceptsOnlyDocumented
<1>1. TypeOK => AcceptsOnlyDocumented
    BY ParsedIsDocumented DEF TypeOK, AcceptsOnlyDocumented
<1>2. QED
    BY <1>1, StreamTypeCorrect, PTL

\* What was parsed, serialized again, is parsed the same way and is no longer;
\* it is what was received when that was as short.
THEOREM RoundTripCorrect == Spec => []RoundTrip
<1>1. ASSUME NEW buf \in Seq(Byte), ParsedOK(buf)
      PROVE  LET tx    == Parsed(buf)
                 again == Serialize(tx, MAX_TX_LEN)
             IN  /\ ParsedOK(again)
                 /\ Parsed(again) = tx
                 /\ ~Headless(buf) => Len(again) =< Len(buf)
                 /\ (Len(buf) = Len(again)) => (again = buf)
    <2> DEFINE tx == Parsed(buf)
               made == Encoded(tx)
               len == Len(buf)
               size == Len(made)
    <2>1. tx \in transaction_t /\ Len(tx.memo) = MemoLen(buf) /\ MemoLen(buf) < HUGE
        BY <1>1, ParsedIsTransaction
    <2>2. len =< MAX_TX_LEN /\ len \in Nat /\ MAX_TX_LEN \in Nat /\ MemoLenAt \in Nat
        BY <1>1, ParsedForm, LenProperties, TransactionAssumption DEF MemoLenAt
    <2> HIDE DEF tx
    <2>3. made \in Seq(Byte) /\ size \in Nat
        BY <2>1, EncodedIsFrame, LenProperties
    <2>4. CASE len = MemoLenAt
        <3>1. MemoLen(buf) = 0
            BY <2>4, HeadlessIsParsed
        <3>2. size = MemoLenAt + 1 + 0
            BY <2>1, <3>1, EncodedIsFrame
        <3> HIDE DEF size, len, made
        <3>3. size =< MAX_TX_LEN /\ len # size /\ ~(size > MAX_TX_LEN)
            BY <2>2, <2>3, <2>4, <3>2, BufferAssumption
        <3>4. ParsedOK(made) /\ Parsed(made) = tx
            BY <2>1, <3>3, EncodedIsRead DEF size, made
        <3>5. Serialize(tx, MAX_TX_LEN) = made
            BY <3>3 DEF Serialize, size, made
        <3>6. Headless(buf)
            BY <2>2, <2>4 DEF Headless, len
        <3>7. QED
            BY <3>3, <3>4, <3>5, <3>6 DEF tx, size, len
    <2>5. CASE len # MemoLenAt
        <3>1. PICK n \in Nat, w \in {1, 3, 5, 9} : IsFramed(buf, n, w)
            BY <1>1, <2>5, ParsedIsFramed
        <3>2. size =< len /\ (len = size => made = buf)
            BY <3>1, FramedAgain DEF tx
        <3> HIDE DEF size, len, made
        <3>3. size =< MAX_TX_LEN /\ ~(size > MAX_TX_LEN)
            BY <2>2, <2>3, <3>2
        <3>4. ParsedOK(made) /\ Parsed(made) = tx
            BY <2>1, <3>3, EncodedIsRead DEF size, made
        <3>5. Serialize(tx, MAX_TX_LEN) = made
            BY <3>3 DEF Serialize, size, made
        <3>6. QED
            BY <3>2, <3>4, <3>5 DEF tx, size, len
    <2>6. QED
        BY <2>4, <2>5
<1>2. TypeOK => RoundTrip
    BY <1>1 DEF TypeOK, RoundTrip
<1>3. QED
    BY <1>2, StreamTypeCorrect, PTL

\* Client and device read the same transaction in the same bytes, or both refuse
\* them.
THEOREM ClientReadsCorrect == Spec => []ClientReadsTheSame
<1>1. ASSUME NEW buf \in Seq(Byte), ParsedOK(buf), ~Headless(buf)
      PROVE  from_bytes(buf) = {[tx |-> Parsed(buf), end |-> Len(buf)]}
    <2> DEFINE tx == Parsed(buf)
    <2>1. /\ Len(buf) =< MAX_TX_LEN
          /\ MemoAt(buf) + MemoLen(buf) = Len(buf)
          /\ MemoSeek(buf) = MemoLen(buf)
        BY <1>1, ParsedForm
    <2>2. VarintFits(buf, MemoLenAt)
        <3>1. Len(buf) # MemoLenAt /\ MemoLenAt \in Nat
            BY <1>1, <2>1, MemoFacts DEF Headless
        <3>2. QED
            BY <2>1, <3>1 DEF MemoAt, MemoLen
    <2>3. tx \in transaction_t /\ tx.memo = Field(buf, MemoAt(buf), MemoLen(buf))
        BY <1>1, ParsedIsTransaction
    <2>4. MemoEnd(buf) = Len(buf) /\ Len(buf) \in Nat
        BY <2>1, LenProperties DEF MemoEnd
    <2>5. SubSeq(buf, MemoAt(buf) + 1, MemoEnd(buf)) = tx.memo
        BY <2>3 DEF Field, MemoEnd
    <2>6. ClientFields(buf) = tx
        BY <2>5 DEF Parsed, ClientFields
    <2>7. ClientAccepts(tx)
        BY <2>3 DEF ClientAccepts, transaction_t
    <2>8. MemoEnd(buf) =< Len(buf)
        BY <2>4
    <2> HIDE DEF tx
    <2>9. QED
        BY <2>2, <2>4, <2>6, <2>7, <2>8, ClientReader DEF tx
<1>2. TypeOK => ClientReadsTheSame
    BY <1>1, ClientRead DEF TypeOK, ClientReadsTheSame
<1>3. QED
    BY <1>2, StreamTypeCorrect, PTL

\* The device reads what the client makes as the transaction it is made of, and
\* would make the same bytes, but for a memo of 252 bytes.
THEOREM DeviceReadsCorrect == Spec => []DeviceReadsClient
<1>1. ASSUME NEW tx \in transaction_t
      PROVE  LET made == serialize(tx)
             IN  /\ Len(made) =< MAX_TX_LEN => ParsedOK(made) /\ Parsed(made) = tx
                 /\ Len(tx.memo) # 252 => made = Encoded(tx)
                 /\ Len(tx.memo) = 252 => Len(made) = Len(Encoded(tx)) + 2
    <2> DEFINE n == Len(tx.memo)
               made == serialize(tx)
               size == Len(made)
    <2>1. n \in Nat
        BY LenProperties DEF transaction_t
    <2>2. made = Frame(tx, write_varint(n)) /\ Encoded(tx) = Frame(tx, MinimalVarint(n))
        BY DEF serialize, Encoded, Frame
    <2> HIDE DEF n, made
    <2>3. n # 252 => write_varint(n) = MinimalVarint(n)
        <3>1. CASE n < 252
            BY <2>1, <3>1 DEF write_varint, MinimalVarint
        <3>2. CASE n > 252
            BY <2>1, <3>2 DEF write_varint, MinimalVarint
        <3>3. QED
            BY <2>1, <3>1, <3>2
    <2>4. CASE n # 252
        <3>1. made = Encoded(tx)
            BY <2>2, <2>3, <2>4
        <3>2. QED
            BY <2>4, <3>1, EncodedIsRead DEF n, made
    <2>5. CASE n = 252
        <3>1. n < HUGE /\ n < 253
            BY <2>5 DEF HUGE
        <3>2. write_varint(n) = <<253, n % 256, n \div 256>>
            BY <2>5 DEF write_varint
        <3> DEFINE v == write_varint(n)
        <3>3. v \in Seq(Byte) /\ Len(v) = 3 /\ IsVarint(v, 0, n, 3)
            <4>1. n \in Nat
                BY <2>1
            <4>2. ThreeBytes(n) \in Seq(Byte) /\ Len(ThreeBytes(n)) = 3 /\ IsVarint(ThreeBytes(n), 0, n, 3)
                BY <3>1, <4>1, VarintForms
            <4>3. v = ThreeBytes(n)
                BY <3>2 DEF ThreeBytes
            <4>4. QED
                BY <4>2, <4>3
        <3> HIDE DEF v
        <3>4. size = MemoLenAt + 3 + n /\ made \in Seq(Byte)
            <4>1. Frame(tx, v) \in Seq(Byte) /\ Len(Frame(tx, v)) = MemoLenAt + Len(v) + Len(tx.memo)
                BY <3>3, FrameBytes
            <4>2. made = Frame(tx, v)
                BY <2>2 DEF v
            <4>3. QED
                BY <3>3, <4>1, <4>2 DEF n
        <3>5. Len(Encoded(tx)) = MemoLenAt + 1 + n
            BY <3>1, EncodedIsFrame DEF n
        <3>6. MemoLenAt \in Nat
            BY TransactionAssumption DEF MemoLenAt
        <3>7. size = Len(Encoded(tx)) + 2
            BY <2>1, <3>4, <3>5, <3>6
        <3>8. size =< MAX_TX_LEN => ParsedOK(made) /\ Parsed(made) = tx
            BY <2>2, <3>3, FrameIsParsed DEF n, v
        <3>9. QED
            BY <2>5, <3>7, <3>8 DEF n, made
    <2>6. QED
        BY <2>4, <2>5
<1>2. TypeOK => DeviceReadsClient
    BY <1>1, ClientRead DEF TypeOK, DeviceReadsClient
<1>3. QED
    BY <1>2, StreamTypeCorrect, PTL

\* A memo that is formatted is whole, terminated and within its string.
THEOREM MemoFormatCorrect == Spec => []MemoIsFormattedWhole
<1>1. ASSUME NEW memo \in Seq(Byte), NEW room \in Nat
      PROVE  LET text == FormatMemo(memo, room)
             IN  /\ Len(text) =< room
                 /\ text # <<>> <=> (Len(memo) < room /\ Len(memo) =< MAX_MEMO_LEN)
    <2> DEFINE n == Len(memo)
    <2>1. n \in Nat /\ MAX_MEMO_LEN \in Nat
        BY LenProperties, TransactionAssumption
    <2>2. Append(memo, 0) # <<>> /\ Len(Append(memo, 0)) = n + 1 /\ Len(<<>>) = 0
        <3>1. 0 \in Byte
            BY DEF Byte
        <3>2. QED
            BY <3>1, AppendProperties
    <2> HIDE DEF n
    <2>3. CASE n > MAX_MEMO_LEN \/ room < n + 1
        <3>1. FormatMemo(memo, room) = <<>>
            BY <2>3 DEF FormatMemo, n
        <3>2. ~(n < room /\ n =< MAX_MEMO_LEN) /\ 0 =< room
            BY <2>1, <2>3
        <3>3. QED
            BY <2>2, <3>1, <3>2 DEF n
    <2>4. CASE ~(n > MAX_MEMO_LEN \/ room < n + 1)
        <3>1. FormatMemo(memo, room) = Append(memo, 0)
            BY <2>4 DEF FormatMemo, n
        <3>2. n < room /\ n =< MAX_MEMO_LEN /\ n + 1 =< room
            BY <2>1, <2>4
        <3>3. QED
            BY <2>2, <3>1, <3>2 DEF n
    <2>5. QED
        BY <2>3, <2>4
<1>2. ASSUME NEW buf \in Seq(Byte), ParsedOK(buf)
      PROVE  LET memo == Parsed(buf).memo
             IN  /\ memo \in Seq(Byte)
                 /\ SubSeq(buf, Len(buf) - Len(memo) + 1, Len(buf)) = memo
    <2> DEFINE memo == Parsed(buf).memo
               n == Len(memo)
               len == Len(buf)
               at == MemoAt(buf)
    <2>1. memo \in Seq(Byte) /\ memo = Field(buf, at, n) /\ n = MemoLen(buf)
        BY <1>2, ParsedIsTransaction DEF transaction_t
    <2>2. at + MemoLen(buf) = len /\ at \in Nat /\ MemoLen(buf) \in Nat
        BY <1>2, ParsedForm, MemoFacts
    <2> HIDE DEF memo, n, len, at
    <2>3. len - n = at /\ at + n = len
        BY <2>1, <2>2
    <2>4. SubSeq(buf, at + 1, at + n) = memo
        BY <2>1 DEF Field
    <2>5. QED
        BY <2>1, <2>3, <2>4 DEF memo, n, len
<1>3. ASSUME TypeOK, ParsedOK(raw_tx)
      PROVE  LET memo == Parsed(raw_tx).memo
             IN  /\ \A room \in {0, Len(memo), Len(memo) + 1, MAX_MEMO_LEN, TX_MEMO_SIZE} :
                       LET text == FormatMemo(memo, room)
                       IN  /\ Len(text) =< room
                           /\ text # <<>> <=> (Len(memo) < room /\ Len(memo) =< MAX_MEMO_LEN)
                 /\ LLVMFuzzerTestOneInput(raw_tx) # <<>> =>
                       SubSeq(raw_tx, Len(raw_tx) - Len(memo) + 1, Len(raw_tx)) \o <<0>>
                           = LLVMFuzzerTestOneInput(raw_tx)
    <2> DEFINE memo == Parsed(raw_tx).memo
    <2>1. memo \in Seq(Byte) /\ SubSeq(raw_tx, Len(raw_tx) - Len(memo) + 1, Len(raw_tx)) = memo
        BY <1>2, <1>3 DEF TypeOK
    <2>2. LLVMFuzzerTestOneInput(raw_tx) = FormatMemo(memo, TX_MEMO_SIZE)
        BY <1>3 DEF LLVMFuzzerTestOneInput
    <2> HIDE DEF memo
    <2>3. \A room \in {0, Len(memo), Len(memo) + 1, MAX_MEMO_LEN, TX_MEMO_SIZE} : room \in Nat
        BY <2>1, LenProperties, TransactionAssumption DEF TX_MEMO_SIZE
    <2>4. FormatMemo(memo, TX_MEMO_SIZE) # <<>> => FormatMemo(memo, TX_MEMO_SIZE) = memo \o <<0>>
        <3>1. Append(memo, 0) = memo \o <<0>>
            <4>1. 0 \in Byte
                BY DEF Byte
            <4>2. QED
                BY <2>1, <4>1, AppendIsConcat
        <3>2. QED
            BY <3>1 DEF FormatMemo
    <2>5. QED
        BY <1>1, <2>1, <2>2, <2>3, <2>4 DEF memo
<1>4. TypeOK => MemoIsFormattedWhole
    BY <1>3 DEF MemoIsFormattedWhole
<1>5. QED
    BY <1>4, StreamTypeCorrect, PTL
=============================================================================
