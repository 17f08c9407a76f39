--------------------------- MODULE TransactionProofs ---------------------------
(***************************************************************************)
(* Facts about the parser and the serializer, for all field widths, all    *)
(* sizes and all bytes: what a field, a varint and an accepted buffer are, *)
(* and that what is serialized is read again as it was.                    *)
(***************************************************************************)
EXTENDS Transaction, SequenceTheorems, TLAPS

-----------------------------------------------------------------------------
(***************************************************************************)
(* Parts of a buffer.                                                      *)
(***************************************************************************)
\* A field has its length and the buffer's bytes.
LEMMA FieldProperties ==
    ASSUME NEW buf \in Seq(Byte), NEW at \in Nat, NEW len \in Nat, at + len =< Len(buf)
    PROVE  /\ Field(buf, at, len) \in Seq(Byte)
           /\ Len(Field(buf, at, len)) = len
           /\ \A i \in 1 .. len : Field(buf, at, len)[i] = buf[at + i]
<1> DEFINE first == at + 1
           last == at + len
<1>1. Len(buf) \in Nat
    BY LenProperties
<1>2. first \in Int /\ last \in Int /\ first .. last \subseteq 1 .. Len(buf)
    BY <1>1
<1>3. \A i \in first .. last : buf[i] \in Byte
    BY <1>2, ElementOfSeq
<1>4. /\ (first =< last => last - first + 1 = len) /\ (~(first =< last) => len = 0)
      /\ last - first + 1 = len
      /\ \A i \in 1 .. len : first + i - 1 = at + i
    OBVIOUS
<1> HIDE DEF first, last
<1>5. /\ SubSeq(buf, first, last) \in Seq(Byte)
      /\ Len(SubSeq(buf, first, last)) = len
      /\ \A i \in 1 .. len : SubSeq(buf, first, last)[i] = buf[first + i - 1]
    BY <1>2, <1>3, <1>4, SubSeqProperties
<1>6. QED
    BY <1>4, <1>5 DEF Field, first, last

\* A field is what is there.
LEMMA FieldIs ==
    ASSUME NEW buf \in Seq(Byte), NEW at \in Nat, NEW len \in Nat, NEW part \in Seq(Byte),
           Len(part) = len, at + len =< Len(buf), \A i \in 1 .. len : buf[at + i] = part[i]
    PROVE  Field(buf, at, len) = part
<1>1. /\ Field(buf, at, len) \in Seq(Byte)
      /\ Len(Field(buf, at, len)) = len
      /\ \A i \in 1 .. len : Field(buf, at, len)[i] = buf[at + i]
    BY FieldProperties
<1>2. QED
    BY <1>1, SeqEqual

\* A prefix has its length and the buffer's bytes.
LEMMA PrefixProperties ==
    ASSUME NEW buf \in Seq(Byte), NEW n \in 0 .. Len(buf)
    PROVE  /\ SubSeq(buf, 1, n) \in Seq(Byte)
           /\ Len(SubSeq(buf, 1, n)) = n
           /\ \A i \in 1 .. n : SubSeq(buf, 1, n)[i] = buf[i]
<1>1. Len(buf) \in Nat /\ \A i \in 1 .. n : buf[i] \in Byte
    BY LenProperties, ElementOfSeq
<1>2. QED
    BY <1>1, SubSeqProperties, Z3

-----------------------------------------------------------------------------
(***************************************************************************)
(* Varints.                                                                *)
(***************************************************************************)
\* The prefix byte tells how many bytes follow.
LEMMA ExtraBytes ==
    ASSUME NEW prefix \in Byte
    PROVE  /\ Extra(prefix) \in {0, 2, 4, 8}
           /\ Extra(prefix) = 0 <=> prefix < 253
           /\ Extra(prefix) = 2 <=> prefix = 253
           /\ Extra(prefix) = 4 <=> prefix = 254
           /\ Extra(prefix) = 8 <=> prefix = 255
<1>1. prefix \in Nat /\ prefix =< 255
    BY DEF Byte
<1>2. CASE prefix < 253
    BY <1>1, <1>2 DEF Extra
<1>3. CASE prefix = 253
    BY <1>3 DEF Extra
<1>4. CASE prefix = 254
    BY <1>4 DEF Extra
<1>5. CASE prefix = 255
    BY <1>5 DEF Extra
<1>6. QED
    BY <1>1, <1>2, <1>3, <1>4, <1>5

\* The payload of a varint is its prefix, or the bytes that follow it.
LEMMA PayloadBytes ==
    ASSUME NEW buf \in Seq(Byte), NEW at \in Nat, VarintFits(buf, at)
    PROVE  LET extra == Extra(buf[at + 1])
               payload == VarintPayload(buf, at)
           IN  /\ buf[at + 1] \in Byte
               /\ payload \in Seq(Byte)
               /\ extra = 0 => payload = <<buf[at + 1]>>
               /\ extra # 0 => /\ Len(payload) = extra
                               /\ \A i \in 1 .. extra : payload[i] = buf[at + 1 + i]
<1> DEFINE extra == Extra(buf[at + 1])
           payload == VarintPayload(buf, at)
<1>1. Len(buf) \in Nat /\ at < Len(buf) /\ at + 1 + extra =< Len(buf)
    BY LenProperties DEF VarintFits
<1>2. buf[at + 1] \in Byte
    BY <1>1, ElementOfSeq
<1>3. extra \in {0, 2, 4, 8} /\ (extra = 0 <=> buf[at + 1] < 253)
    BY <1>2, ExtraBytes
<1>4. CASE extra = 0
    BY <1>2, <1>3, <1>4 DEF VarintPayload
<1>5. CASE extra # 0
    <2>1. payload = Field(buf, at + 1, extra)
        BY <1>3, <1>5 DEF VarintPayload
    <2> HIDE DEF extra, payload
    <2>2. at + 1 \in Nat /\ extra \in Nat
        BY <1>3
    <2>3. /\ payload \in Seq(Byte) /\ Len(payload) = extra
          /\ \A i \in 1 .. extra : payload[i] = buf[at + 1 + i]
        BY <1>1, <2>1, <2>2, FieldProperties
    <2>4. QED
        BY <1>2, <1>5, <2>3 DEF extra, payload
<1>6. QED
    BY <1>4, <1>5

\* A value that is not saturated is that of its two lower bytes, and the others
\* are zero.
LEMMA LittleEndianValue ==
    ASSUME NEW bytes \in Seq(Byte), Len(bytes) \in {1, 2, 4, 8}
    PROVE  /\ LittleEndian(bytes) \in Nat
           /\ LittleEndian(bytes) < HUGE =>
                 /\ \A i \in 3 .. Len(bytes) : bytes[i] = 0
                 /\ Len(bytes) = 1 => LittleEndian(bytes) = bytes[1]
                 /\ Len(bytes) # 1 => LittleEndian(bytes) = bytes[1] + 256 * bytes[2]
           /\ (\A i \in 3 .. Len(bytes) : bytes[i] = 0) =>
                 /\ Len(bytes) = 1 => LittleEndian(bytes) = bytes[1]
                 /\ Len(bytes) # 1 => LittleEndian(bytes) = bytes[1] + 256 * bytes[2]
<1> DEFINE len == Len(bytes)
<1>1. len \in {1, 2, 4, 8} /\ \A i \in 1 .. len : bytes[i] \in Byte
    BY ElementOfSeq
<1>2. \A b \in Byte : b \in Nat
    BY DEF Byte
<1> HIDE DEF len
<1>3. 1 \in 1 .. len /\ (len # 1 => 2 \in 1 .. len)
    BY <1>1
<1>4. bytes[1] \in Nat /\ (len # 1 => bytes[2] \in Nat)
    BY <1>1, <1>2, <1>3
<1>5. QED
    BY <1>4 DEF LittleEndian, HUGE, len

\* Cutting a uint64_t to a size_t changes only values that are saturated.
LEMMA AsSizeTValue ==
    ASSUME NEW bytes \in Seq(Byte), Len(bytes) \in {1, 2, 4, 8}, LittleEndian(bytes) < HUGE
    PROVE  LittleEndian(AsSizeT(bytes)) = LittleEndian(bytes)
<1>1. CASE Len(bytes) =< SIZE_T_LEN
    BY <1>1 DEF AsSizeT
<1>2. CASE ~(Len(bytes) =< SIZE_T_LEN)
    <2> DEFINE low == SubSeq(bytes, 1, SIZE_T_LEN)
    <2>1. SIZE_T_LEN = 4 /\ Len(bytes) = 8
        <3> DEFINE len == Len(bytes)
        <3>1. len \in {1, 2, 4, 8} /\ ~(len =< SIZE_T_LEN)
            BY <1>2
        <3> HIDE DEF len
        <3>2. SIZE_T_LEN = 4 /\ len = 8
            BY <3>1, TransactionAssumption
        <3>3. QED
            BY <3>2 DEF len
    <2>2. low \in Seq(Byte) /\ Len(low) = 4 /\ \A i \in 1 .. 4 : low[i] = bytes[i]
        BY <2>1, PrefixProperties
    <2>3. AsSizeT(bytes) = low
        BY <1>2 DEF AsSizeT
    <2> HIDE DEF low
    <2>4. low[1] = bytes[1] /\ low[2] = bytes[2] /\ low[3] = bytes[3] /\ low[4] = bytes[4]
        BY <2>2
    <2>5. /\ \A i \in 3 .. Len(bytes) : bytes[i] = 0
          /\ Len(bytes) # 1 => LittleEndian(bytes) = bytes[1] + 256 * bytes[2]
        BY LittleEndianValue
    <2>6. Len(low) \in {1, 2, 4, 8} /\ \A i \in 3 .. Len(low) : low[i] = 0
        BY <2>1, <2>2, <2>5
    <2>7. Len(low) # 1 => LittleEndian(low) = low[1] + 256 * low[2]
        BY <2>2, <2>6, LittleEndianValue
    <2>8. QED
        BY <2>1, <2>2, <2>3, <2>4, <2>5, <2>7
<1>3. QED
    BY <1>1, <1>2

-----------------------------------------------------------------------------
(***************************************************************************)
(* The memo of a buffer.                                                   *)
(***************************************************************************)
\* The payload of a varint has 1, 2, 4 or 8 bytes.
LEMMA PayloadLength ==
    ASSUME NEW buf \in Seq(Byte), NEW at \in Nat, VarintFits(buf, at)
    PROVE  /\ VarintPayload(buf, at) \in Seq(Byte)
           /\ Len(VarintPayload(buf, at)) \in {1, 2, 4, 8}
<1>1. buf[at + 1] \in Byte /\ VarintPayload(buf, at) \in Seq(Byte)
    BY PayloadBytes
<1>2. Extra(buf[at + 1]) \in {0, 2, 4, 8}
    BY <1>1, ExtraBytes
<1>3. CASE Extra(buf[at + 1]) = 0
    <2>1. VarintPayload(buf, at) = <<buf[at + 1]>>
        BY <1>3, PayloadBytes
    <2>2. QED
        BY <1>1, <2>1
<1>4. CASE Extra(buf[at + 1]) # 0
    <2>1. Len(VarintPayload(buf, at)) = Extra(buf[at + 1])
        BY <1>4, PayloadBytes
    <2>2. QED
        BY <1>1, <1>2, <1>4, <2>1
<1>5. QED
    BY <1>3, <1>4

\* Where the memo is and how long it says it is; the length cut to a size_t is
\* the same unless it is beyond every buffer.
LEMMA MemoFacts ==
    ASSUME NEW buf \in Seq(Byte)
    PROVE  /\ MemoLenAt \in Nat
           /\ MemoAt(buf) \in Nat
           /\ MemoLen(buf) \in Nat
           /\ MemoLen(buf) < HUGE => MemoSeek(buf) = MemoLen(buf)
           /\ MemoLenAt =< Len(buf) => MemoAt(buf) =< Len(buf)
<1>1. MemoLenAt \in Nat
    BY TransactionAssumption DEF MemoLenAt
<1>2. CASE VarintFits(buf, MemoLenAt)
    <2> DEFINE payload == VarintPayload(buf, MemoLenAt)
               extra == Extra(buf[MemoLenAt + 1])
    <2>1. payload \in Seq(Byte) /\ Len(payload) \in {1, 2, 4, 8}
        BY <1>1, <1>2, PayloadLength
    <2>2. MemoLen(buf) = LittleEndian(payload) /\ MemoSeek(buf) = LittleEndian(AsSizeT(payload))
        BY <1>2 DEF MemoLen, MemoSeek
    <2>3. MemoAt(buf) = MemoLenAt + 1 + extra /\ MemoLenAt + 1 + extra =< Len(buf)
        BY <1>2 DEF MemoAt, VarintFits
    <2>4. extra \in {0, 2, 4, 8}
        BY <1>1, <1>2, PayloadBytes, ExtraBytes
    <2> HIDE DEF payload, extra
    <2>5. LittleEndian(payload) \in Nat
        BY <2>1, LittleEndianValue
    <2>6. LittleEndian(payload) < HUGE => LittleEndian(AsSizeT(payload)) = LittleEndian(payload)
        BY <2>1, AsSizeTValue
    <2>7. MemoAt(buf) \in Nat
        BY <1>1, <2>3, <2>4
    <2>8. QED
        BY <1>1, <2>2, <2>3, <2>5, <2>6, <2>7
<1>3. CASE ~VarintFits(buf, MemoLenAt)
    BY <1>1, <1>3 DEF MemoAt, MemoLen, MemoSeek
<1>4. QED
    BY <1>2, <1>3

\* The parser accepts the buffers whose header is there and that end with an
\* ASCII memo of the length they say.
LEMMA ParsedForm ==
    ASSUME NEW buf \in Seq(Byte)
    PROVE  /\ ParsedOK(buf) <=>
                 /\ Len(buf) =< MAX_TX_LEN
                 /\ MemoLenAt =< Len(buf)
                 /\ MemoAt(buf) + MemoLen(buf) = Len(buf)
                 /\ \A i \in 1 .. MemoLen(buf) : buf[MemoAt(buf) + i] < 128
           /\ ParsedOK(buf) => MemoSeek(buf) = MemoLen(buf)
<1> DEFINE len == Len(buf)
<1>1. /\ len \in Nat /\ MemoLenAt \in Nat /\ MemoAt(buf) \in Nat /\ MemoLen(buf) \in Nat
      /\ MemoLen(buf) < HUGE => MemoSeek(buf) = MemoLen(buf)
    BY MemoFacts, LenProperties
<1>2. ~MemoLengthRejected(buf)
    BY TransactionAssumption DEF MemoLengthRejected, MemoLen
<1>3. /\ ToAt \in Nat /\ ValueAt \in Nat /\ ToAt =< ValueAt /\ ValueAt =< MemoLenAt
      /\ MAX_TX_LEN \in Nat /\ MAX_TX_LEN < HUGE /\ HUGE \in Nat
    BY TransactionAssumption, BufferAssumption DEF ToAt, ValueAt, MemoLenAt, HUGE
<1>4. ParsedOK(buf) <=> /\ ~(len > MAX_TX_LEN)
                        /\ ~(ToAt > len)
                        /\ ~(ValueAt > len)
                        /\ ~(MemoLenAt > len)
                        /\ ~(MemoAt(buf) + MemoSeek(buf) > len)
                        /\ CheckEncoding(buf)
                        /\ ConsumesAll(buf)
    BY <1>2 DEF ParsedOK, Deserialize
<1>5. /\ ConsumesAll(buf) <=> MemoAt(buf) + MemoSeek(buf) = len
      /\ CheckEncoding(buf) <=> /\ MemoAt(buf) + MemoLen(buf) =< len
                                /\ \A i \in 1 .. MemoLen(buf) : buf[MemoAt(buf) + i] < 128
    BY DEF ConsumesAll, CheckEncoding
<1> HIDE DEF len
<1>6. len =< MAX_TX_LEN /\ MemoAt(buf) + MemoLen(buf) =< len => MemoSeek(buf) = MemoLen(buf)
    BY <1>1, <1>3
<1>7. ParsedOK(buf) => MemoSeek(buf) = MemoLen(buf)
    BY <1>1, <1>3, <1>4, <1>5, <1>6
<1>8. ParsedOK(buf) <=> /\ len =< MAX_TX_LEN
                        /\ MemoLenAt =< len
                        /\ MemoAt(buf) + MemoLen(buf) = len
                        /\ \A i \in 1 .. MemoLen(buf) : buf[MemoAt(buf) + i] < 128
    BY <1>1, <1>3, <1>4, <1>5, <1>6, <1>7
<1>9. QED
    BY <1>7, <1>8 DEF len

\* The w bytes after offset `at` are a varint that denotes n, byte by byte.
IsVarint(buf, at, n, w) ==
    /\ at + w =< Len(buf)
    /\ Extra(buf[at + 1]) = w - 1
    /\ w = 1 => buf[at + 1] = n
    /\ w # 1 => /\ buf[at + 2] = n % 256
                /\ buf[at + 3] = n \div 256
                /\ \A i \in 4 .. w : buf[at + i] = 0

\* IsVarint is what buffer_read_varint reads, for values that are not saturated.
LEMMA VarintReads ==
    ASSUME NEW buf \in Seq(Byte), NEW at \in Nat, NEW w \in {1, 3, 5, 9}, NEW n \in Nat, n < HUGE
    PROVE  IsVarint(buf, at, n, w) <=> /\ VarintFits(buf, at)
                                       /\ Extra(buf[at + 1]) = w - 1
                                       /\ LittleEndian(VarintPayload(buf, at)) = n
<1> DEFINE extra == Extra(buf[at + 1])
           payload == VarintPayload(buf, at)
           fits == at + w =< Len(buf) /\ extra = w - 1
<1>1. fits <=> VarintFits(buf, at) /\ extra = w - 1
    BY LenProperties DEF VarintFits
<1>2. \A b \in Byte : b \in Nat /\ b < 256
    BY DEF Byte
<1>3. ASSUME fits, w = 1
      PROVE  LittleEndian(payload) = n <=> buf[at + 1] = n
    <2>1. VarintFits(buf, at) /\ extra = 0
        BY <1>1, <1>3
    <2>2. payload = <<buf[at + 1]>> /\ payload \in Seq(Byte)
        BY <2>1, PayloadBytes
    <2> HIDE DEF payload, extra
    <2>3. Len(payload) = 1 /\ payload[1] = buf[at + 1] /\ \A i \in 3 .. Len(payload) : payload[i] = 0
        BY <2>2
    <2>4. LittleEndian(payload) = payload[1]
        BY <2>2, <2>3, LittleEndianValue
    <2>5. QED
        BY <2>3, <2>4
<1>4. ASSUME fits, w # 1
      PROVE  LittleEndian(payload) = n <=> /\ buf[at + 2] = n % 256
                                           /\ buf[at + 3] = n \div 256
                                           /\ \A i \in 4 .. w : buf[at + i] = 0
    <2>1. VarintFits(buf, at) /\ extra = w - 1 /\ extra \in {2, 4, 8}
        BY <1>1, <1>4
    <2>2. payload \in Seq(Byte) /\ Len(payload) = w - 1 /\ \A i \in 1 .. w - 1 : payload[i] = buf[at + 1 + i]
        BY <2>1, PayloadBytes
    <2> HIDE DEF payload, extra
    <2>3. 1 \in 1 .. w - 1 /\ 2 \in 1 .. w - 1 /\ w - 1 \in {2, 4, 8}
        BY <1>4
    <2>4. payload[1] = buf[at + 2] /\ payload[2] = buf[at + 3]
        BY <2>2, <2>3
    <2>5. payload[1] \in Nat /\ payload[1] < 256 /\ payload[2] \in Nat /\ payload[2] < 256
        BY <1>2, <2>2, <2>3, ElementOfSeq
    <2>6. (\A i \in 3 .. w - 1 : payload[i] = 0) <=> (\A i \in 4 .. w : buf[at + i] = 0)
        <3>1. ASSUME \A i \in 3 .. w - 1 : payload[i] = 0, NEW i \in 4 .. w
              PROVE  buf[at + i] = 0
            <4>1. i - 1 \in 3 .. w - 1 /\ i - 1 \in 1 .. w - 1 /\ at + 1 + (i - 1) = at + i
                BY <2>3
            <4>2. QED
                BY <2>2, <3>1, <4>1
        <3>2. ASSUME \A i \in 4 .. w : buf[at + i] = 0, NEW i \in 3 .. w - 1
              PROVE  payload[i] = 0
            <4>1. i + 1 \in 4 .. w /\ i \in 1 .. w - 1 /\ at + 1 + i = at + (i + 1)
                BY <2>3
            <4>2. QED
                BY <2>2, <3>2, <4>1
        <3>3. QED
            BY <3>1, <3>2
    <2>7. /\ LittleEndian(payload) \in Nat
          /\ LittleEndian(payload) < HUGE => \A i \in 3 .. w - 1 : payload[i] = 0
          /\ (\A i \in 3 .. w - 1 : payload[i] = 0) => LittleEndian(payload) = payload[1] + 256 * payload[2]
        <3> DEFINE len == Len(payload)
        <3>1. len = w - 1 /\ len \in {1, 2, 4, 8} /\ len # 1
            BY <2>2, <2>3
        <3> HIDE DEF len
        <3>2. /\ LittleEndian(payload) \in Nat
              /\ LittleEndian(payload) < HUGE => \A i \in 3 .. len : payload[i] = 0
              /\ (\A i \in 3 .. len : payload[i] = 0) => LittleEndian(payload) = payload[1] + 256 * payload[2]
            BY <2>2, <3>1, LittleEndianValue DEF len
        <3>3. QED
            BY <3>1, <3>2
    <2> DEFINE low == payload[1]
               high == payload[2]
    <2>8. low \in Nat /\ low < 256 /\ high \in Nat /\ high < 256
        BY <2>5
    <2> HIDE DEF low, high
    <2>9. low + 256 * high = n <=> low = n % 256 /\ high = n \div 256
        BY <2>8
    <2> DEFINE zeros == \A i \in 3 .. w - 1 : payload[i] = 0
               value == LittleEndian(payload)
    <2>10. value = n <=> zeros /\ low = n % 256 /\ high = n \div 256
        <3>1. /\ value \in Nat
              /\ value < HUGE => zeros
              /\ zeros => value = low + 256 * high
            BY <2>7 DEF low, high
        <3> HIDE DEF zeros, value
        <3>2. QED
            BY <2>9, <3>1
    <2>11. buf[at + 2] = low /\ buf[at + 3] = high
        BY <2>4 DEF low, high
    <2> HIDE DEF value
    <2>12. value = n <=> /\ buf[at + 2] = n % 256
                         /\ buf[at + 3] = n \div 256
                         /\ \A i \in 4 .. w : buf[at + i] = 0
        BY <2>6, <2>10, <2>11
    <2>13. QED
        BY <2>12 DEF value
<1> HIDE DEF fits, extra, payload
<1>5. IsVarint(buf, at, n, w) <=>
        /\ fits
        /\ w = 1 => buf[at + 1] = n
        /\ w # 1 => /\ buf[at + 2] = n % 256
                    /\ buf[at + 3] = n \div 256
                    /\ \A i \in 4 .. w : buf[at + i] = 0
    BY DEF IsVarint, fits, extra
<1>6. QED
    BY <1>1, <1>3, <1>4, <1>5 DEF extra, payload

-----------------------------------------------------------------------------
(***************************************************************************)
(* What the parser accepts, byte by byte.                                  *)
(***************************************************************************)
\* A buffer with a memo of n bytes behind a varint of w bytes.
IsFramed(buf, n, w) ==
    /\ Len(buf) =< MAX_TX_LEN
    /\ MemoLenAt + w + n = Len(buf)
    /\ IsVarint(buf, MemoLenAt, n, w)
    /\ \A i \in 1 .. n : buf[MemoLenAt + w + i] < 128

\* The parser accepts a framed buffer, and its memo is the one of the frame.
LEMMA FramedIsParsed ==
    ASSUME NEW buf \in Seq(Byte), NEW n \in Nat, NEW w \in {1, 3, 5, 9}, IsFramed(buf, n, w)
    PROVE  ParsedOK(buf) /\ MemoAt(buf) = MemoLenAt + w /\ MemoLen(buf) = n /\ MemoSeek(buf) = n
<1> DEFINE len == Len(buf)
<1>1. /\ len \in Nat /\ MemoLenAt \in Nat /\ MAX_TX_LEN \in Nat
      /\ len =< MAX_TX_LEN /\ MemoLenAt + w + n = len /\ MAX_TX_LEN < HUGE /\ HUGE \in Nat
    BY MemoFacts, LenProperties, TransactionAssumption, BufferAssumption DEF IsFramed, HUGE
<1> HIDE DEF len
<1>2. n < HUGE
    BY <1>1
<1>3. /\ VarintFits(buf, MemoLenAt)
      /\ Extra(buf[MemoLenAt + 1]) = w - 1
      /\ LittleEndian(VarintPayload(buf, MemoLenAt)) = n
    <2>1. IsVarint(buf, MemoLenAt, n, w) /\ MemoLenAt \in Nat
        BY <1>1 DEF IsFramed
    <2>2. QED
        BY <1>2, <2>1, VarintReads
<1>4. MemoLen(buf) = n /\ MemoAt(buf) = MemoLenAt + 1 + (w - 1)
    BY <1>3 DEF MemoLen, MemoAt
<1>5. MemoAt(buf) = MemoLenAt + w /\ MemoAt(buf) + n = len /\ MemoLenAt =< len
    BY <1>1, <1>4
<1>6. ParsedOK(buf)
    BY <1>1, <1>4, <1>5, ParsedForm DEF IsFramed, len
<1>7. QED
    BY <1>4, <1>5, <1>6, ParsedForm

\* The parser accepts framed buffers only, except the one that ends where the
\* memo length should begin.
LEMMA ParsedIsFramed ==
    ASSUME NEW buf \in Seq(Byte), ParsedOK(buf), Len(buf) # MemoLenAt
    PROVE  \E n \in Nat, w \in {1, 3, 5, 9} : IsFramed(buf, n, w)
<1> DEFINE len == Len(buf)
           n == MemoLen(buf)
           extra == Extra(buf[MemoLenAt + 1])
           w == extra + 1
<1>1. /\ len \in Nat /\ MemoLenAt \in Nat /\ MemoAt(buf) \in Nat /\ n \in Nat
      /\ MAX_TX_LEN \in Nat /\ MAX_TX_LEN < HUGE /\ HUGE \in Nat
    BY MemoFacts, LenProperties, TransactionAssumption, BufferAssumption DEF HUGE
<1>2. /\ len =< MAX_TX_LEN /\ MemoAt(buf) + n = len
      /\ \A i \in 1 .. n : buf[MemoAt(buf) + i] < 128
    BY ParsedForm
<1>3. VarintFits(buf, MemoLenAt)
    BY <1>1, <1>2 DEF MemoAt, MemoLen
<1>4. MemoAt(buf) = MemoLenAt + 1 + extra /\ n = LittleEndian(VarintPayload(buf, MemoLenAt))
    BY <1>3 DEF MemoAt, MemoLen
<1>5. extra \in {0, 2, 4, 8}
    BY <1>1, <1>3, PayloadBytes, ExtraBytes
<1> HIDE DEF len, n, extra
<1>6. w \in {1, 3, 5, 9} /\ extra = w - 1 /\ MemoAt(buf) = MemoLenAt + w /\ n < HUGE
    BY <1>1, <1>2, <1>4, <1>5
<1> HIDE DEF w
<1>7. IsVarint(buf, MemoLenAt, n, w)
    BY <1>1, <1>3, <1>4, <1>6, VarintReads DEF extra
<1>8. IsFramed(buf, n, w)
    BY <1>2, <1>6, <1>7 DEF IsFramed, len
<1>9. QED
    BY <1>1, <1>6, <1>8

-----------------------------------------------------------------------------
(***************************************************************************)
(* Serialized transactions.                                                *)
(***************************************************************************)
\* The fields a parser fills, of the right lengths, with an ASCII memo.
transaction_t ==
    {tx \in [nonce : Seq(Byte), to : Seq(Byte), value : Seq(Byte), memo : Seq(Byte)] :
        /\ Len(tx.nonce) = U64_LEN
        /\ Len(tx.to) = ADDRESS_LEN
        /\ Len(tx.value) = U64_LEN
        /\ \A i \in 1 .. Len(tx.memo) : tx.memo[i] < 128}

\* The fields one after the other, the memo behind the varint v.
Frame(tx, v) == tx.nonce \o tx.to \o tx.value \o v \o tx.memo

\* Two strings, one after the other.
LEMMA ConcatBytes ==
    ASSUME NEW s \in Seq(Byte), NEW t \in Seq(Byte)
    PROVE  /\ s \o t \in Seq(Byte)
           /\ Len(s \o t) = Len(s) + Len(t)
           /\ \A i \in 1 .. Len(s) : (s \o t)[i] = s[i]
           /\ \A i \in 1 .. Len(t) : (s \o t)[Len(s) + i] = t[i]
<1> DEFINE m == Len(s)
           n == Len(t)
           u == s \o t
<1>1. /\ u \in Seq(Byte) /\ Len(u) = m + n /\ m \in Nat /\ n \in Nat
      /\ \A i \in 1 .. m + n : u[i] = IF i =< m THEN s[i] ELSE t[i - m]
    BY ConcatProperties, LenProperties
<1> HIDE DEF m, n, u
<1>2. \A i \in 1 .. m : u[i] = s[i]
    BY <1>1
<1>3. \A i \in 1 .. n : m + i \in 1 .. m + n /\ ~(m + i =< m) /\ m + i - m = i
    BY <1>1
<1>4. \A i \in 1 .. n : u[m + i] = t[i]
    BY <1>1, <1>3
<1>5. QED
    BY <1>1, <1>2, <1>4 DEF m, n, u

\* Where the fields of a frame are.
LEMMA FrameBytes ==
    ASSUME NEW tx \in transaction_t, NEW v \in Seq(Byte)
    PROVE  LET buf == Frame(tx, v)
           IN  /\ buf \in Seq(Byte)
               /\ Len(buf) = MemoLenAt + Len(v) + Len(tx.memo)
               /\ \A i \in 1 .. U64_LEN : buf[i] = tx.nonce[i]
               /\ \A i \in 1 .. ADDRESS_LEN : buf[ToAt + i] = tx.to[i]
               /\ \A i \in 1 .. U64_LEN : buf[ValueAt + i] = tx.value[i]
               /\ \A i \in 1 .. Len(v) : buf[MemoLenAt + i] = v[i]
               /\ \A i \in 1 .. Len(tx.memo) : buf[MemoLenAt + Len(v) + i] = tx.memo[i]
<1> DEFINE s1 == tx.nonce \o tx.to
           s2 == s1 \o tx.value
           s3 == s2 \o v
           s4 == s3 \o tx.memo
           lv == Len(v)
           lm == Len(tx.memo)
<1>1. /\ tx.nonce \in Seq(Byte) /\ tx.to \in Seq(Byte) /\ tx.value \in Seq(Byte) /\ tx.memo \in Seq(Byte)
      /\ Len(tx.nonce) = U64_LEN /\ Len(tx.to) = ADDRESS_LEN /\ Len(tx.value) = U64_LEN
    BY DEF transaction_t
<1>2. /\ U64_LEN \in Nat /\ ADDRESS_LEN \in Nat /\ lv \in Nat /\ lm \in Nat
      /\ lv = Len(v) /\ lm = Len(tx.memo)
    BY <1>1, LenProperties, TransactionAssumption
<1> HIDE DEF lv, lm
<1>3. /\ s1 \in Seq(Byte) /\ Len(s1) = U64_LEN + ADDRESS_LEN
      /\ \A i \in 1 .. U64_LEN : s1[i] = tx.nonce[i]
      /\ \A i \in 1 .. ADDRESS_LEN : s1[U64_LEN + i] = tx.to[i]
    <2>1. /\ s1 \in Seq(Byte) /\ Len(s1) = Len(tx.nonce) + Len(tx.to)
          /\ \A i \in 1 .. Len(tx.nonce) : s1[i] = tx.nonce[i]
          /\ \A i \in 1 .. Len(tx.to) : s1[Len(tx.nonce) + i] = tx.to[i]
        BY <1>1, ConcatBytes
    <2> HIDE DEF s1
    <2>2. QED
        BY <1>1, <2>1
<1> HIDE DEF s1
<1>4. /\ s2 \in Seq(Byte) /\ Len(s2) = U64_LEN + ADDRESS_LEN + U64_LEN
      /\ \A i \in 1 .. U64_LEN + ADDRESS_LEN : s2[i] = s1[i]
      /\ \A i \in 1 .. U64_LEN : s2[U64_LEN + ADDRESS_LEN + i] = tx.value[i]
    <2>1. /\ s2 \in Seq(Byte) /\ Len(s2) = Len(s1) + Len(tx.value)
          /\ \A i \in 1 .. Len(s1) : s2[i] = s1[i]
          /\ \A i \in 1 .. Len(tx.value) : s2[Len(s1) + i] = tx.value[i]
        BY <1>1, <1>3, ConcatBytes
    <2> HIDE DEF s2
    <2>2. QED
        BY <1>1, <1>3, <2>1
<1> HIDE DEF s2
<1>5. /\ s3 \in Seq(Byte) /\ Len(s3) = U64_LEN + ADDRESS_LEN + U64_LEN + lv
      /\ \A i \in 1 .. U64_LEN + ADDRESS_LEN + U64_LEN : s3[i] = s2[i]
      /\ \A i \in 1 .. lv : s3[U64_LEN + ADDRESS_LEN + U64_LEN + i] = v[i]
    <2>1. /\ s3 \in Seq(Byte) /\ Len(s3) = Len(s2) + Len(v)
          /\ \A i \in 1 .. Len(s2) : s3[i] = s2[i]
          /\ \A i \in 1 .. Len(v) : s3[Len(s2) + i] = v[i]
        BY <1>1, <1>4, ConcatBytes
    <2> HIDE DEF s3
    <2>2. QED
        BY <1>2, <1>1, <1>4, <2>1
<1> HIDE DEF s3
<1>6. /\ s4 \in Seq(Byte) /\ Len(s4) = U64_LEN + ADDRESS_LEN + U64_LEN + lv + lm
      /\ \A i \in 1 .. U64_LEN + ADDRESS_LEN + U64_LEN + lv : s4[i] = s3[i]
      /\ \A i \in 1 .. lm : s4[U64_LEN + ADDRESS_LEN + U64_LEN + lv + i] = tx.memo[i]
    <2>1. /\ s4 \in Seq(Byte) /\ Len(s4) = Len(s3) + Len(tx.memo)
          /\ \A i \in 1 .. Len(s3) : s4[i] = s3[i]
          /\ \A i \in 1 .. Len(tx.memo) : s4[Len(s3) + i] = tx.memo[i]
        BY <1>1, <1>5, ConcatBytes
    <2> HIDE DEF s4
    <2>2. QED
        BY <1>2, <1>1, <1>5, <2>1
<1> HIDE DEF s4
<1>7. ASSUME NEW i \in 1 .. U64_LEN
      PROVE  s4[i] = tx.nonce[i]
    <2>1. i \in 1 .. U64_LEN + ADDRESS_LEN /\ i \in 1 .. U64_LEN + ADDRESS_LEN + U64_LEN /\ i \in 1 .. U64_LEN + ADDRESS_LEN + U64_LEN + lv
        BY <1>2
    <2>2. QED
        BY <1>3, <1>4, <1>5, <1>6, <2>1
<1>8. ASSUME NEW i \in 1 .. ADDRESS_LEN
      PROVE  s4[U64_LEN + i] = tx.to[i]
    <2>1. U64_LEN + i \in 1 .. U64_LEN + ADDRESS_LEN /\ U64_LEN + i \in 1 .. U64_LEN + ADDRESS_LEN + U64_LEN /\ U64_LEN + i \in 1 .. U64_LEN + ADDRESS_LEN + U64_LEN + lv
        BY <1>2
    <2>2. QED
        BY <1>3, <1>4, <1>5, <1>6, <2>1
<1>9. ASSUME NEW i \in 1 .. U64_LEN
      PROVE  s4[U64_LEN + ADDRESS_LEN + i] = tx.value[i]
    <2>1. U64_LEN + ADDRESS_LEN + i \in 1 .. U64_LEN + ADDRESS_LEN + U64_LEN /\ U64_LEN + ADDRESS_LEN + i \in 1 .. U64_LEN + ADDRESS_LEN + U64_LEN + lv
        BY <1>2
    <2>2. QED
        BY <1>4, <1>5, <1>6, <2>1
<1>10. ASSUME NEW i \in 1 .. lv
      PROVE  s4[U64_LEN + ADDRESS_LEN + U64_LEN + i] = v[i]
    <2>1. U64_LEN + ADDRESS_LEN + U64_LEN + i \in 1 .. U64_LEN + ADDRESS_LEN + U64_LEN + lv
        BY <1>2
    <2>2. QED
        BY <1>5, <1>6, <2>1
<1>11. s4 = Frame(tx, v)
    BY DEF Frame, s1, s2, s3, s4
<1>12. QED
    BY <1>6, <1>7, <1>8, <1>9, <1>10, <1>11 DEF lv, lm, ToAt, ValueAt, MemoLenAt

-----------------------------------------------------------------------------
(***************************************************************************)
(* Parsing what was framed, and framing what was parsed.                   *)
(***************************************************************************)
\* A varint is its bytes, wherever they are.
LEMMA VarintMoves ==
    ASSUME NEW buf \in Seq(Byte), NEW at \in Nat, NEW v \in Seq(Byte), NEW n \in Nat,
           NEW w \in Nat \ {0}, Len(v) = w, w = 1 \/ w > 2, at + w =< Len(buf),
           \A i \in 1 .. w : buf[at + i] = v[i]
    PROVE  IsVarint(v, 0, n, w) <=> IsVarint(buf, at, n, w)
<1>1. 1 \in 1 .. w /\ buf[at + 1] = v[1]
    OBVIOUS
<1>2. w # 1 => buf[at + 2] = v[2] /\ buf[at + 3] = v[3]
    OBVIOUS
<1>3. \A i \in 4 .. w : buf[at + i] = v[i]
    OBVIOUS
<1>4. v[0 + 1] = v[1] /\ v[0 + 2] = v[2] /\ v[0 + 3] = v[3] /\ \A i \in 4 .. w : v[0 + i] = v[i]
    OBVIOUS
<1>5. 0 + w =< Len(v)
    OBVIOUS
<1> DEFINE reads == /\ Extra(v[1]) = w - 1
                    /\ w = 1 => v[1] = n
                    /\ w # 1 => /\ v[2] = n % 256
                                /\ v[3] = n \div 256
                                /\ \A i \in 4 .. w : v[i] = 0
<1>6. IsVarint(v, 0, n, w) <=> reads
    BY <1>4, <1>5 DEF IsVarint
<1>7. IsVarint(buf, at, n, w) <=> reads
    <2>1. CASE w = 1
        <3>1. IsVarint(buf, at, n, w) <=> Extra(buf[at + 1]) = w - 1 /\ buf[at + 1] = n
            BY <2>1 DEF IsVarint
        <3>2. QED
            BY <1>1, <2>1, <3>1
    <2>2. CASE w # 1
        <3>1. IsVarint(buf, at, n, w) <=> /\ Extra(buf[at + 1]) = w - 1
                                         /\ buf[at + 2] = n % 256
                                         /\ buf[at + 3] = n \div 256
                                         /\ \A i \in 4 .. w : buf[at + i] = 0
            BY <2>2 DEF IsVarint
        <3>2. buf[at + 1] = v[1] /\ buf[at + 2] = v[2] /\ buf[at + 3] = v[3]
            BY <1>1, <1>2, <2>2
        <3>3. (\A i \in 4 .. w : buf[at + i] = 0) <=> (\A i \in 4 .. w : v[i] = 0)
            BY <1>3
        <3>4. reads <=> /\ Extra(v[1]) = w - 1
                        /\ v[2] = n % 256
                        /\ v[3] = n \div 256
                        /\ \A i \in 4 .. w : v[i] = 0
            BY <2>2
        <3> HIDE DEF reads
        <3>5. QED
            BY <3>1, <3>2, <3>3, <3>4, Zenon
    <2>3. QED
        BY <2>1, <2>2
<1>8. QED
    BY <1>6, <1>7

\* A value has one varint of each width.
LEMMA SameVarint ==
    ASSUME NEW v \in Seq(Byte), NEW u \in Seq(Byte), NEW n \in Nat, NEW w \in {1, 3, 5, 9},
           Len(v) = w, Len(u) = w, IsVarint(v, 0, n, w), IsVarint(u, 0, n, w)
    PROVE  v = u
<1>1. \A i \in 1 .. w : v[i] \in Byte /\ u[i] \in Byte
    BY ElementOfSeq
<1>2. v[1] \in Byte /\ u[1] \in Byte /\ Extra(v[1]) = w - 1 /\ Extra(u[1]) = w - 1
    BY <1>1 DEF IsVarint
<1>3. w # 1 => v[1] = u[1]
    <2>1. CASE w = 3
        BY <1>2, <2>1, ExtraBytes
    <2>2. CASE w = 5
        BY <1>2, <2>2, ExtraBytes
    <2>3. CASE w = 9
        BY <1>2, <2>3, ExtraBytes
    <2>4. QED
        BY <2>1, <2>2, <2>3
<1>4. w = 1 => v[1] = u[1]
    BY DEF IsVarint
<1>5. w # 1 => v[2] = u[2] /\ v[3] = u[3] /\ \A i \in 4 .. w : v[i] = u[i]
    BY DEF IsVarint
<1>6. \A i \in 1 .. w : v[i] = u[i]
    BY <1>3, <1>4, <1>5
<1>7. QED
    BY <1>6, SeqEqual

\* The parser reads a frame as the transaction it was made of.
LEMMA FrameIsParsed ==
    ASSUME NEW tx \in transaction_t, NEW v \in Seq(Byte), NEW w \in {1, 3, 5, 9}, Len(v) = w,
           IsVarint(v, 0, Len(tx.memo), w), Len(Frame(tx, v)) =< MAX_TX_LEN
    PROVE  /\ ParsedOK(Frame(tx, v))
           /\ Parsed(Frame(tx, v)) = tx
           /\ IsFramed(Frame(tx, v), Len(tx.memo), w)
<1> DEFINE buf == Frame(tx, v)
           n == Len(tx.memo)
<1>1. /\ buf \in Seq(Byte)
      /\ Len(buf) = MemoLenAt + w + n
      /\ \A i \in 1 .. U64_LEN : buf[i] = tx.nonce[i]
      /\ \A i \in 1 .. ADDRESS_LEN : buf[ToAt + i] = tx.to[i]
      /\ \A i \in 1 .. U64_LEN : buf[ValueAt + i] = tx.value[i]
      /\ \A i \in 1 .. w : buf[MemoLenAt + i] = v[i]
      /\ \A i \in 1 .. n : buf[MemoLenAt + w + i] = tx.memo[i]
    <2>1. /\ buf \in Seq(Byte)
          /\ Len(buf) = MemoLenAt + Len(v) + n
          /\ \A i \in 1 .. U64_LEN : buf[i] = tx.nonce[i]
          /\ \A i \in 1 .. ADDRESS_LEN : buf[ToAt + i] = tx.to[i]
          /\ \A i \in 1 .. U64_LEN : buf[ValueAt + i] = tx.value[i]
          /\ \A i \in 1 .. Len(v) : buf[MemoLenAt + i] = v[i]
          /\ \A i \in 1 .. n : buf[MemoLenAt + Len(v) + i] = tx.memo[i]
        BY FrameBytes
    <2> HIDE DEF buf, n
    <2>2. QED
        BY <2>1
<1>2. /\ tx.nonce \in Seq(Byte) /\ tx.to \in Seq(Byte) /\ tx.value \in Seq(Byte) /\ tx.memo \in Seq(Byte)
      /\ Len(tx.nonce) = U64_LEN /\ Len(tx.to) = ADDRESS_LEN /\ Len(tx.value) = U64_LEN
      /\ \A i \in 1 .. n : tx.memo[i] < 128
      /\ tx = [nonce |-> tx.nonce, to |-> tx.to, value |-> tx.value, memo |-> tx.memo]
    BY DEF transaction_t
<1>3. /\ n \in Nat /\ MemoLenAt \in Nat /\ U64_LEN \in Nat /\ ADDRESS_LEN \in Nat
      /\ ToAt = U64_LEN /\ ValueAt = U64_LEN + ADDRESS_LEN /\ MemoLenAt = U64_LEN + ADDRESS_LEN + U64_LEN
    BY <1>2, LenProperties, TransactionAssumption DEF MemoLenAt, ValueAt, ToAt
<1>4. Len(buf) =< MAX_TX_LEN /\ IsVarint(v, 0, n, w)
    OBVIOUS
<1> HIDE DEF buf, n
<1>5. MemoLenAt + w =< Len(buf)
    BY <1>1, <1>3
<1>6. IsVarint(buf, MemoLenAt, n, w)
    <2>1. /\ buf \in Seq(Byte) /\ MemoLenAt \in Nat /\ n \in Nat
          /\ \A i \in 1 .. w : buf[MemoLenAt + i] = v[i]
        BY <1>1, <1>3
    <2>2. IsVarint(v, 0, n, w) <=> IsVarint(buf, MemoLenAt, n, w)
        <3>1. w \in Nat \ {0} /\ (w = 1 \/ w > 2) /\ Len(v) = w /\ v \in Seq(Byte)
            OBVIOUS
        <3>2. QED
            BY <1>5, <2>1, <3>1, VarintMoves
    <2>3. QED
        BY <1>4, <2>2
<1>7. \A i \in 1 .. n : buf[MemoLenAt + w + i] < 128
    BY <1>1, <1>2
<1>8. IsFramed(buf, n, w)
    BY <1>1, <1>4, <1>6, <1>7 DEF IsFramed
<1>9. ParsedOK(buf) /\ MemoAt(buf) = MemoLenAt + w /\ MemoSeek(buf) = n
    BY <1>1, <1>3, <1>8, FramedIsParsed
<1>10. Field(buf, 0, U64_LEN) = tx.nonce
    <2>1. 0 + U64_LEN =< Len(buf) /\ 0 \in Nat /\ \A i \in 1 .. U64_LEN : 0 + i = i
        BY <1>1, <1>3
    <2>2. \A i \in 1 .. U64_LEN : buf[0 + i] = tx.nonce[i]
        BY <1>1, <2>1
    <2>3. buf \in Seq(Byte) /\ U64_LEN \in Nat /\ tx.nonce \in Seq(Byte) /\ Len(tx.nonce) = U64_LEN
        BY <1>1, <1>2, <1>3
    <2>4. QED
        BY <2>1, <2>2, <2>3, FieldIs
<1>11. Field(buf, ToAt, ADDRESS_LEN) = tx.to
    <2>1. ToAt + ADDRESS_LEN =< Len(buf) /\ ToAt \in Nat
        BY <1>1, <1>3
    <2>2. /\ buf \in Seq(Byte) /\ ADDRESS_LEN \in Nat
          /\ \A i \in 1 .. ADDRESS_LEN : buf[ToAt + i] = tx.to[i]
        BY <1>1, <1>3
    <2>3. tx.to \in Seq(Byte) /\ Len(tx.to) = ADDRESS_LEN
        BY <1>2
    <2>4. QED
        BY <2>1, <2>2, <2>3, FieldIs
<1>12. Field(buf, ValueAt, U64_LEN) = tx.value
    <2>1. ValueAt + U64_LEN =< Len(buf) /\ ValueAt \in Nat
        BY <1>1, <1>3
    <2>2. /\ buf \in Seq(Byte) /\ U64_LEN \in Nat
          /\ \A i \in 1 .. U64_LEN : buf[ValueAt + i] = tx.value[i]
        BY <1>1, <1>3
    <2>3. tx.value \in Seq(Byte) /\ Len(tx.value) = U64_LEN
        BY <1>2
    <2>4. QED
        BY <2>1, <2>2, <2>3, FieldIs
<1>13. Field(buf, MemoLenAt + w, n) = tx.memo
    <2>1. MemoLenAt + w + n =< Len(buf) /\ MemoLenAt + w \in Nat /\ n = Len(tx.memo)
        <3>1. Len(buf) = MemoLenAt + w + n /\ MemoLenAt \in Nat /\ n \in Nat /\ w \in Nat
            BY <1>1, <1>3
        <3>2. n = Len(tx.memo)
            BY DEF n
        <3>3. QED
            BY <3>1, <3>2
    <2>2. /\ buf \in Seq(Byte) /\ n \in Nat /\ tx.memo \in Seq(Byte)
          /\ \A i \in 1 .. n : buf[MemoLenAt + w + i] = tx.memo[i]
        BY <1>1, <1>2, <1>3
    <2> DEFINE at == MemoLenAt + w
    <2>3. /\ at + n =< Len(buf) /\ at \in Nat /\ Len(tx.memo) = n
          /\ \A i \in 1 .. n : buf[at + i] = tx.memo[i]
        BY <2>1, <2>2
    <2> HIDE DEF at
    <2>4. Field(buf, at, n) = tx.memo
        BY <2>2, <2>3, FieldIs
    <2>5. QED
        BY <2>4 DEF at
<1>14. Parsed(buf) = tx
    BY <1>2, <1>9, <1>10, <1>11, <1>12, <1>13 DEF Parsed
<1>15. QED
    BY <1>8, <1>9, <1>14 DEF buf, n

\* What the parser fills of an accepted buffer is a transaction.
LEMMA ParsedIsTransaction ==
    ASSUME NEW buf \in Seq(Byte), ParsedOK(buf)
    PROVE  /\ Parsed(buf) \in transaction_t
           /\ Parsed(buf).memo = Field(buf, MemoAt(buf), MemoLen(buf))
           /\ Len(Parsed(buf).memo) = MemoLen(buf)
           /\ MemoLen(buf) < HUGE
<1> DEFINE len == Len(buf)
           at == MemoAt(buf)
           n == MemoLen(buf)
           memo == Field(buf, at, n)
<1>1. /\ len \in Nat /\ MemoLenAt \in Nat /\ at \in Nat /\ n \in Nat /\ U64_LEN \in Nat
      /\ ADDRESS_LEN \in Nat /\ ToAt = U64_LEN /\ ValueAt = U64_LEN + ADDRESS_LEN
      /\ MemoLenAt = U64_LEN + ADDRESS_LEN + U64_LEN
      /\ MAX_TX_LEN \in Nat /\ MAX_TX_LEN < HUGE /\ HUGE \in Nat
    BY MemoFacts, LenProperties, TransactionAssumption, BufferAssumption
    DEF ToAt, ValueAt, MemoLenAt, HUGE
<1>2. /\ len =< MAX_TX_LEN /\ MemoLenAt =< len /\ at + n = len
      /\ \A i \in 1 .. n : buf[at + i] < 128
      /\ MemoSeek(buf) = n
    BY ParsedForm
<1> HIDE DEF len, at, n
<1>3. /\ 0 \in Nat /\ 0 + U64_LEN =< len /\ ToAt \in Nat /\ ToAt + ADDRESS_LEN =< len
      /\ ValueAt \in Nat /\ ValueAt + U64_LEN =< len /\ at + n =< len /\ n < HUGE
    BY <1>1, <1>2
<1>4. Field(buf, 0, U64_LEN) \in Seq(Byte) /\ Len(Field(buf, 0, U64_LEN)) = U64_LEN
    BY <1>1, <1>3, FieldProperties DEF len
<1>5. Field(buf, ToAt, ADDRESS_LEN) \in Seq(Byte) /\ Len(Field(buf, ToAt, ADDRESS_LEN)) = ADDRESS_LEN
    <2>1. ToAt \in Nat /\ ADDRESS_LEN \in Nat /\ ToAt + ADDRESS_LEN =< Len(buf)
        BY <1>1, <1>3 DEF len
    <2>2. QED
        BY <2>1, FieldProperties
<1>6. Field(buf, ValueAt, U64_LEN) \in Seq(Byte) /\ Len(Field(buf, ValueAt, U64_LEN)) = U64_LEN
    <2>1. ValueAt \in Nat /\ U64_LEN \in Nat /\ ValueAt + U64_LEN =< Len(buf)
        BY <1>1, <1>3 DEF len
    <2>2. QED
        BY <2>1, FieldProperties
<1>7. memo \in Seq(Byte) /\ Len(memo) = n /\ \A i \in 1 .. n : memo[i] = buf[at + i]
    <2>1. at \in Nat /\ n \in Nat /\ at + n =< Len(buf)
        BY <1>1, <1>3 DEF len
    <2>2. QED
        BY <2>1, FieldProperties
<1>8. Parsed(buf) = [nonce |-> Field(buf, 0, U64_LEN), to |-> Field(buf, ToAt, ADDRESS_LEN),
                     value |-> Field(buf, ValueAt, U64_LEN), memo |-> memo]
    BY <1>2 DEF Parsed, at
<1> HIDE DEF memo
<1>9. \A i \in 1 .. n : memo[i] < 128
    BY <1>2, <1>7
<1>10. Parsed(buf) \in transaction_t /\ Parsed(buf).memo = memo
    BY <1>4, <1>5, <1>6, <1>7, <1>8, <1>9 DEF transaction_t
<1>11. QED
    BY <1>3, <1>7, <1>10 DEF at, n, memo

\* An accepted buffer is the frame of what the parser filled.
LEMMA FramedIsFrame ==
    ASSUME NEW buf \in Seq(Byte), NEW n \in Nat, NEW w \in {1, 3, 5, 9}, IsFramed(buf, n, w)
    PROVE  LET v == Field(buf, MemoLenAt, w)
           IN  /\ v \in Seq(Byte) /\ Len(v) = w
               /\ IsVarint(v, 0, n, w)
               /\ Len(Parsed(buf).memo) = n
               /\ buf = Frame(Parsed(buf), v)
<1> DEFINE v == Field(buf, MemoLenAt, w)
           tx == Parsed(buf)
           again == Frame(tx, v)
           len == Len(buf)
<1>1. /\ ParsedOK(buf) /\ MemoAt(buf) = MemoLenAt + w /\ MemoLen(buf) = n /\ MemoSeek(buf) = n
    BY FramedIsParsed
<1>2. /\ len \in Nat /\ MemoLenAt \in Nat /\ U64_LEN \in Nat /\ ADDRESS_LEN \in Nat
      /\ ToAt = U64_LEN /\ ValueAt = U64_LEN + ADDRESS_LEN
      /\ MemoLenAt = U64_LEN + ADDRESS_LEN + U64_LEN
      /\ MemoLenAt + w + n = len
    BY MemoFacts, LenProperties, TransactionAssumption DEF ToAt, ValueAt, MemoLenAt, IsFramed
<1> HIDE DEF len
<1>3. tx \in transaction_t /\ Len(tx.memo) = n /\ tx.memo = Field(buf, MemoLenAt + w, n)
    BY <1>1, ParsedIsTransaction
<1>4. /\ 0 \in Nat /\ 0 + U64_LEN =< len /\ ToAt \in Nat /\ ToAt + ADDRESS_LEN =< len
      /\ ValueAt \in Nat /\ ValueAt + U64_LEN =< len /\ MemoLenAt + w =< len
      /\ MemoLenAt + w \in Nat /\ MemoLenAt + w + n =< len /\ w \in Nat
    BY <1>2
<1>5. \A i \in 1 .. U64_LEN : tx.nonce[i] = buf[i]
    <2>1. U64_LEN \in Nat /\ 0 \in Nat /\ 0 + U64_LEN =< Len(buf)
        BY <1>2, <1>4 DEF len
    <2>2. \A i \in 1 .. U64_LEN : Field(buf, 0, U64_LEN)[i] = buf[0 + i]
        BY <2>1, FieldProperties
    <2>3. \A i \in 1 .. U64_LEN : 0 + i = i
        OBVIOUS
    <2>4. QED
        BY <2>2, <2>3 DEF Parsed
<1>6. \A i \in 1 .. ADDRESS_LEN : tx.to[i] = buf[ToAt + i]
    <2>1. ADDRESS_LEN \in Nat /\ ToAt \in Nat /\ ToAt + ADDRESS_LEN =< Len(buf)
        BY <1>2, <1>4 DEF len
    <2>2. \A i \in 1 .. ADDRESS_LEN : Field(buf, ToAt, ADDRESS_LEN)[i] = buf[ToAt + i]
        BY <2>1, FieldProperties
    <2>3. QED
        BY <2>2 DEF Parsed
<1>7. \A i \in 1 .. U64_LEN : tx.value[i] = buf[ValueAt + i]
    <2>1. U64_LEN \in Nat /\ ValueAt \in Nat /\ ValueAt + U64_LEN =< Len(buf)
        BY <1>2, <1>4 DEF len
    <2>2. \A i \in 1 .. U64_LEN : Field(buf, ValueAt, U64_LEN)[i] = buf[ValueAt + i]
        BY <2>1, FieldProperties
    <2>3. QED
        BY <2>2 DEF Parsed
<1>8. v \in Seq(Byte) /\ Len(v) = w /\ \A i \in 1 .. w : v[i] = buf[MemoLenAt + i]
    <2>1. w \in Nat /\ MemoLenAt \in Nat /\ MemoLenAt + w =< Len(buf)
        BY <1>2, <1>4 DEF len
    <2>2. QED
        BY <2>1, FieldProperties
<1>9. \A i \in 1 .. n : tx.memo[i] = buf[MemoLenAt + w + i]
    <2>1. MemoLenAt + w \in Nat /\ MemoLenAt + w + n =< Len(buf)
        BY <1>2, <1>4 DEF len
    <2>2. \A i \in 1 .. n : Field(buf, MemoLenAt + w, n)[i] = buf[MemoLenAt + w + i]
        BY <2>1, FieldProperties
    <2>3. QED
        BY <1>3, <2>2
<1> HIDE DEF v, tx
<1>10. /\ again \in Seq(Byte)
       /\ Len(again) = MemoLenAt + w + n
       /\ \A i \in 1 .. U64_LEN : again[i] = tx.nonce[i]
       /\ \A i \in 1 .. ADDRESS_LEN : again[ToAt + i] = tx.to[i]
       /\ \A i \in 1 .. U64_LEN : again[ValueAt + i] = tx.value[i]
       /\ \A i \in 1 .. w : again[MemoLenAt + i] = v[i]
       /\ \A i \in 1 .. n : again[MemoLenAt + w + i] = tx.memo[i]
    <2>1. tx \in transaction_t /\ v \in Seq(Byte) /\ Len(v) = w /\ Len(tx.memo) = n
        BY <1>3, <1>8
    <2>2. /\ again \in Seq(Byte)
          /\ Len(again) = MemoLenAt + Len(v) + Len(tx.memo)
          /\ \A i \in 1 .. U64_LEN : again[i] = tx.nonce[i]
          /\ \A i \in 1 .. ADDRESS_LEN : again[ToAt + i] = tx.to[i]
          /\ \A i \in 1 .. U64_LEN : again[ValueAt + i] = tx.value[i]
          /\ \A i \in 1 .. Len(v) : again[MemoLenAt + i] = v[i]
          /\ \A i \in 1 .. Len(tx.memo) : again[MemoLenAt + Len(v) + i] = tx.memo[i]
        BY <2>1, FrameBytes
    <2>3. QED
        BY <2>1, <2>2
<1> HIDE DEF again
<1>11. ASSUME NEW i \in 1 .. len
       PROVE  buf[i] = again[i]
    <2>1. CASE i =< U64_LEN
        BY <1>2, <1>5, <1>10, <2>1
    <2>2. CASE i > ToAt /\ i =< ValueAt
        <3>1. i - ToAt \in 1 .. ADDRESS_LEN /\ ToAt + (i - ToAt) = i
            BY <1>2, <2>2
        <3>2. QED
            BY <1>6, <1>10, <3>1
    <2>3. CASE i > ValueAt /\ i =< MemoLenAt
        <3>1. i - ValueAt \in 1 .. U64_LEN /\ ValueAt + (i - ValueAt) = i
            BY <1>2, <2>3
        <3>2. QED
            BY <1>7, <1>10, <3>1
    <2>4. CASE i > MemoLenAt /\ i =< MemoLenAt + w
        <3>1. i - MemoLenAt \in 1 .. w /\ MemoLenAt + (i - MemoLenAt) = i
            BY <1>2, <2>4
        <3>2. \A k \in 1 .. w : buf[MemoLenAt + k] = v[k] /\ again[MemoLenAt + k] = v[k]
            BY <1>8, <1>10
        <3>3. QED
            BY <3>1, <3>2
    <2>5. CASE i > MemoLenAt + w
        <3>1. i - (MemoLenAt + w) \in 1 .. n /\ MemoLenAt + w + (i - (MemoLenAt + w)) = i
            <4> DEFINE at == MemoLenAt + w
            <4>1. at \in Nat
                BY <1>4
            <4>2. at + n = len
                BY <1>2
            <4>3. i > at
                BY <2>5
            <4> HIDE DEF at
            <4>4. i - at \in 1 .. n /\ at + (i - at) = i
                BY <1>2, <4>1, <4>2, <4>3
            <4>5. QED
                BY <4>4 DEF at
        <3>2. QED
            BY <1>9, <1>10, <3>1
    <2>6. \/ i =< U64_LEN
          \/ i > ToAt /\ i =< ValueAt
          \/ i > ValueAt /\ i =< MemoLenAt
          \/ i > MemoLenAt /\ i =< MemoLenAt + w
          \/ i > MemoLenAt + w
        BY <1>2
    <2>7. QED
        BY <2>1, <2>2, <2>3, <2>4, <2>5, <2>6
<1>12. buf = again
    <2>1. Len(again) = Len(buf) /\ \A i \in 1 .. Len(buf) : buf[i] = again[i]
        BY <1>2, <1>10, <1>11 DEF len
    <2>2. QED
        BY <1>10, <2>1, SeqEqual
<1>13. IsVarint(v, 0, n, w)
    <2>1. w \in Nat \ {0} /\ (w = 1 \/ w > 2) /\ MemoLenAt + w =< Len(buf)
        BY <1>4 DEF len
    <2>2. \A i \in 1 .. w : buf[MemoLenAt + i] = v[i]
        BY <1>8
    <2>3. QED
        BY <1>2, <1>8, <2>1, <2>2, VarintMoves DEF IsFramed
<1>14. QED
    BY <1>3, <1>8, <1>12, <1>13 DEF v, tx, again

-----------------------------------------------------------------------------
(***************************************************************************)
(* transaction_serialize.                                                  *)
(***************************************************************************)
\* The form of three bytes.
ThreeBytes(n) == <<253, n % 256, n \div 256>>

\* The forms of one byte and of three bytes are varints.
LEMMA VarintForms ==
    ASSUME NEW n \in Nat, n < HUGE
    PROVE  /\ ThreeBytes(n) \in Seq(Byte) /\ Len(ThreeBytes(n)) = 3
           /\ IsVarint(ThreeBytes(n), 0, n, 3)
           /\ n < 253 => <<n>> \in Seq(Byte) /\ Len(<<n>>) = 1 /\ IsVarint(<<n>>, 0, n, 1)
<1> DEFINE low == n % 256
           high == n \div 256
           v == <<253, low, high>>
<1>1. low \in 0 .. 255 /\ high \in 0 .. 255
    BY DEF HUGE
<1> HIDE DEF low, high
<1>2. v \in Seq(Byte) /\ Len(v) = 3 /\ v[1] = 253 /\ v[2] = low /\ v[3] = high
    BY <1>1 DEF Byte
<1>3. Extra(253) = 2
    BY ExtraBytes DEF Byte
<1> HIDE DEF v
<1>4. /\ 0 + 3 =< Len(v) /\ v[0 + 1] = 253 /\ v[0 + 2] = low /\ v[0 + 3] = high
      /\ 2 = 3 - 1 /\ \A i \in 4 .. 3 : v[0 + i] = 0
    BY <1>2
<1>5. IsVarint(v, 0, n, 3)
    BY <1>3, <1>4 DEF IsVarint, low, high
<1>6. ASSUME n < 253
      PROVE  <<n>> \in Seq(Byte) /\ Len(<<n>>) = 1 /\ IsVarint(<<n>>, 0, n, 1)
    <2>1. n \in Byte /\ Extra(n) = 0
        <3>1. n \in Byte
            BY <1>6 DEF Byte
        <3>2. QED
            BY <1>6, <3>1, ExtraBytes
    <2>2. /\ <<n>> \in Seq(Byte) /\ Len(<<n>>) = 1 /\ <<n>>[0 + 1] = n
          /\ 0 + 1 =< 1 /\ 0 = 1 - 1
        BY <2>1
    <2>3. IsVarint(<<n>>, 0, n, 1)
        BY <2>1, <2>2 DEF IsVarint
    <2>4. QED
        BY <2>2, <2>3
<1>7. v = ThreeBytes(n)
    BY DEF ThreeBytes, v, low, high
<1>8. QED
    BY <1>2, <1>5, <1>6, <1>7

\* varint_write writes the shortest varint.
LEMMA MinimalVarintIs ==
    ASSUME NEW n \in Nat, n < HUGE
    PROVE  LET v == MinimalVarint(n)
               w == IF n < 253 THEN 1 ELSE 3
           IN  v \in Seq(Byte) /\ Len(v) = w /\ IsVarint(v, 0, n, w)
<1>1. CASE n < 253
    <2>1. <<n>> \in Seq(Byte) /\ Len(<<n>>) = 1 /\ IsVarint(<<n>>, 0, n, 1)
        BY <1>1, VarintForms
    <2>2. MinimalVarint(n) = <<n>>
        BY <1>1 DEF MinimalVarint
    <2>3. QED
        BY <1>1, <2>1, <2>2
<1>2. CASE ~(n < 253)
    <2> DEFINE v == ThreeBytes(n)
    <2>1. v \in Seq(Byte) /\ Len(v) = 3 /\ IsVarint(v, 0, n, 3)
        BY VarintForms
    <2>2. MinimalVarint(n) = v
        BY <1>2 DEF MinimalVarint, ThreeBytes
    <2> HIDE DEF v
    <2>3. QED
        BY <1>2, <2>1, <2>2
<1>3. QED
    BY <1>1, <1>2

\* The length of a frame.
LEMMA FrameLength ==
    ASSUME NEW tx \in transaction_t, NEW v \in Seq(Nat)
    PROVE  Len(Frame(tx, v)) = MemoLenAt + Len(v) + Len(tx.memo)
<1>1. \A s \in Seq(Byte) : s \in Seq(Nat)
    <2>1. Byte \subseteq Nat
        BY DEF Byte
    <2> TAKE s \in Seq(Byte)
    <2>2. Len(s) \in Nat /\ s \in [1 .. Len(s) -> Byte]
        BY LenProperties
    <2> DEFINE len == Len(s)
    <2>3. len \in Nat /\ s \in [1 .. len -> Nat]
        BY <2>1, <2>2
    <2> HIDE DEF len
    <2>4. QED
        BY <2>3, SeqDef
<1>2. /\ tx.nonce \in Seq(Nat) /\ tx.to \in Seq(Nat) /\ tx.value \in Seq(Nat) /\ tx.memo \in Seq(Nat)
      /\ Len(tx.nonce) = U64_LEN /\ Len(tx.to) = ADDRESS_LEN /\ Len(tx.value) = U64_LEN
    BY <1>1 DEF transaction_t
<1> DEFINE s1 == tx.nonce \o tx.to
           s2 == s1 \o tx.value
           s3 == s2 \o v
           s4 == s3 \o tx.memo
<1>3. s1 \in Seq(Nat) /\ Len(s1) = U64_LEN + ADDRESS_LEN
    <2>1. s1 \in Seq(Nat) /\ Len(s1) = Len(tx.nonce) + Len(tx.to)
        BY <1>2, ConcatProperties
    <2> HIDE DEF s1
    <2>2. QED
        BY <1>2, <2>1
<1> HIDE DEF s1
<1>4. s2 \in Seq(Nat) /\ Len(s2) = MemoLenAt
    <2>1. s2 \in Seq(Nat) /\ Len(s2) = Len(s1) + Len(tx.value)
        BY <1>2, <1>3, ConcatProperties
    <2> HIDE DEF s2
    <2>2. QED
        BY <1>2, <1>3, <2>1 DEF MemoLenAt
<1> HIDE DEF s2
<1>5. s3 \in Seq(Nat) /\ Len(s3) = MemoLenAt + Len(v)
    <2>1. s3 \in Seq(Nat) /\ Len(s3) = Len(s2) + Len(v)
        BY <1>4, ConcatProperties
    <2> HIDE DEF s3
    <2>2. QED
        BY <1>4, <2>1
<1> HIDE DEF s3
<1>6. s4 \in Seq(Nat) /\ Len(s4) = MemoLenAt + Len(v) + Len(tx.memo)
    <2>1. s4 \in Seq(Nat) /\ Len(s4) = Len(s3) + Len(tx.memo)
        BY <1>2, <1>5, ConcatProperties
    <2> HIDE DEF s4
    <2>2. QED
        BY <1>2, <1>5, <2>1
<1> HIDE DEF s4
<1>7. QED
    BY <1>6 DEF Frame, s1, s2, s3, s4

\* A varint is made of integers, however large the value.
LEMMA VarintOfNaturals ==
    ASSUME NEW n \in Nat
    PROVE  MinimalVarint(n) \in Seq(Nat)
<1> DEFINE low == n % 256
           high == n \div 256
<1>1. low \in Nat /\ high \in Nat
    OBVIOUS
<1> HIDE DEF low, high
<1>2. <<n>> \in Seq(Nat) /\ <<253, low, high>> \in Seq(Nat)
    BY <1>1
<1>3. QED
    BY <1>2 DEF MinimalVarint, low, high

\* The parser reads what the serializer writes, if it fits: no two transactions
\* have the same bytes, and so none the signature of another (serialize.c:28-59,
\* deserialize.c:23-62).
THEOREM EncodedIsRead ==
    \A tx \in transaction_t :
        Len(Encoded(tx)) =< MAX_TX_LEN => ParsedOK(Encoded(tx)) /\ Parsed(Encoded(tx)) = tx
<1> SUFFICES ASSUME NEW tx \in transaction_t, Len(Encoded(tx)) =< MAX_TX_LEN
             PROVE  ParsedOK(Encoded(tx)) /\ Parsed(Encoded(tx)) = tx
    OBVIOUS
<1> DEFINE n == Len(tx.memo)
           v == MinimalVarint(n)
<1>1. Encoded(tx) = Frame(tx, v)
    BY DEF Encoded, Frame
<1>2. n \in Nat
    BY LenProperties DEF transaction_t
<1>3. n < HUGE
    <2>1. v \in Seq(Nat)
        BY <1>2, VarintOfNaturals
    <2>2. Len(Frame(tx, v)) = MemoLenAt + Len(v) + n /\ Len(v) \in Nat
        BY <2>1, FrameLength, LenProperties
    <2>3. MemoLenAt \in Nat /\ MAX_TX_LEN \in Nat /\ HUGE \in Nat /\ MAX_TX_LEN < HUGE
        BY TransactionAssumption, BufferAssumption DEF MemoLenAt, HUGE
    <2> HIDE DEF n, v
    <2>4. QED
        BY <1>1, <1>2, <2>2, <2>3
<1> DEFINE w == IF n < 253 THEN 1 ELSE 3
<1>4. v \in Seq(Byte) /\ Len(v) = w /\ IsVarint(v, 0, n, w)
    BY <1>2, <1>3, MinimalVarintIs
<1>5. w \in {1, 3, 5, 9}
    OBVIOUS
<1> HIDE DEF v, w
<1>6. QED
    BY <1>1, <1>4, <1>5, FrameIsParsed

\* What a signature covers tells which transaction was signed.
COROLLARY EncodedOnce ==
    \A tx, other \in transaction_t :
        Encoded(tx) = Encoded(other) /\ Len(Encoded(tx)) =< MAX_TX_LEN => tx = other
  BY EncodedIsRead
=============================================================================
