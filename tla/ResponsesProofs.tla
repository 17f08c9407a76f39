--------------------------- MODULE ResponsesProofs ---------------------------
(***************************************************************************)
(* Theorems about Responses, for all sizes of keys and signatures below    *)
(* 256 bytes, the largest a length byte can say.                           *)
(***************************************************************************)
EXTENDS Responses, SequenceTheorems, TLAPS

-----------------------------------------------------------------------------
(***************************************************************************)
(* Sequences of bytes.                                                     *)
(***************************************************************************)
Octet == 0 .. 255

\* An array is a sequence of bytes of its length.
LEMMA ArrayIsSequence ==
    ASSUME NEW n \in Nat, NEW a \in Array(n)
    PROVE  a \in Seq(Octet) /\ Len(a) = n
<1>1. a \in [1 .. n -> Octet]
    BY ResponsesAssumption DEF Array, Octet
<1>2. a \in Seq(Octet)
    BY <1>1, SeqDef
<1>3. Len(a) \in Nat /\ DOMAIN a = 1 .. Len(a) /\ DOMAIN a = 1 .. n
    BY <1>1, <1>2, LenProperties
<1>4. Len(a) = n
    <2> DEFINE m == Len(a)
    <2>1. m \in Nat /\ 1 .. m = 1 .. n
        BY <1>3
    <2> HIDE DEF m
    <2>2. m =< n
        <3>1. m = 0 \/ m \in 1 .. n
            BY <2>1
        <3>2. QED
            BY <2>1, <3>1
    <2>3. n =< m
        <3>1. n = 0 \/ n \in 1 .. m
            BY <2>1
        <3>2. QED
            BY <2>1, <3>1
    <2>4. m = n
        BY <2>1, <2>2, <2>3
    <2>5. QED
        BY <2>4 DEF m
<1>5. QED
    BY <1>2, <1>4

\* And a sequence of such bytes is an array.
LEMMA SequenceIsArray ==
    ASSUME NEW a \in Seq(Bytes)
    PROVE  a \in Array(Len(a))
  BY LenProperties DEF Array

\* A concatenation holds its first part, and then its second.
LEMMA ConcatParts ==
    ASSUME NEW S, NEW s \in Seq(S), NEW t \in Seq(S)
    PROVE  /\ s \o t \in Seq(S)
           /\ Len(s \o t) = Len(s) + Len(t)
           /\ \A i \in 1 .. Len(s) : (s \o t)[i] = s[i]
           /\ \A i \in 1 .. Len(t) : (s \o t)[Len(s) + i] = t[i]
<1> DEFINE c == s \o t
           m == Len(s)
           n == Len(t)
<1>1. c \in Seq(S)
    BY ConcatProperties
<1>2. Len(c) = m + n
    BY ConcatProperties
<1>3. \A i \in 1 .. m + n : c[i] = IF i <= m THEN s[i] ELSE t[i - m]
    BY ConcatProperties
<1>4. m \in Nat /\ n \in Nat
    BY LenProperties
<1> HIDE DEF c, m, n
<1>5. \A i \in 1 .. m : c[i] = s[i]
    BY <1>3, <1>4
<1>6. \A i \in 1 .. n : c[m + i] = t[i]
    <2> TAKE i \in 1 .. n
    <2>1. m + i \in 1 .. m + n /\ ~(m + i <= m) /\ (m + i) - m = i
        BY <1>4
    <2>2. QED
        BY <1>3, <2>1
<1>7. QED
    BY <1>1, <1>2, <1>5, <1>6 DEF c, m, n

\* A sequence found inside another can be cut out of it.
LEMMA CutPart ==
    ASSUME NEW S, NEW c, NEW s \in Seq(S), NEW k \in Nat,
           \A i \in 1 .. Len(s) : c[k + i] = s[i]
    PROVE  SubSeq(c, k + 1, k + Len(s)) = s
<1> DEFINE n == Len(s)
           u == SubSeq(c, k + 1, k + n)
<1>1. n \in Nat /\ s \in [1 .. n -> S]
    BY LenProperties
<1>2. \A i \in 1 .. n : c[k + i] = s[i]
    OBVIOUS
<1>3. s \in Seq(S) /\ Len(s) = n
    OBVIOUS
<1> HIDE DEF n
<1>4. \A j \in k + 1 .. k + n : c[j] \in S
    <2> TAKE j \in k + 1 .. k + n
    <2>1. j - k \in 1 .. n /\ k + (j - k) = j
        BY <1>1
    <2>2. c[j] = s[j - k]
        BY <1>2, <2>1
    <2>3. QED
        BY <1>1, <2>1, <2>2
<1>5. /\ u \in Seq(S)
      /\ Len(u) = IF k + 1 <= k + n THEN (k + n) - (k + 1) + 1 ELSE 0
      /\ \A i \in 1 .. (k + n) - (k + 1) + 1 : u[i] = c[(k + 1) + i - 1]
    <2>1. k + 1 \in Int /\ k + n \in Int
        BY <1>1
    <2> HIDE DEF u
    <2> DEFINE a == k + 1
               b == k + n
    <2>2. \A j \in a .. b : c[j] \in S
        BY <1>4
    <2>3. a \in Int /\ b \in Int
        BY <2>1
    <2> HIDE DEF a, b
    <2>4. /\ SubSeq(c, a, b) \in Seq(S)
          /\ Len(SubSeq(c, a, b)) = IF a <= b THEN b - a + 1 ELSE 0
          /\ \A i \in 1 .. b - a + 1 : SubSeq(c, a, b)[i] = c[a + i - 1]
        BY <2>2, <2>3, SubSeqProperties
    <2>5. QED
        BY <2>4 DEF u, a, b
<1> HIDE DEF u
<1>6. Len(u) = n
    BY <1>1, <1>5
<1>7. \A i \in 1 .. n : u[i] = s[i]
    <2> TAKE i \in 1 .. n
    <2>1. i \in 1 .. (k + n) - (k + 1) + 1 /\ (k + 1) + i - 1 = k + i
        BY <1>1
    <2>2. QED
        BY <1>2, <1>5, <2>1
<1>8. u = s
    BY <1>3, <1>5, <1>6, <1>7, SeqEqual
<1>9. QED
    BY <1>8 DEF u, n

\* The two parts of a concatenation can be cut out of it again.
LEMMA CutConcat ==
    ASSUME NEW S, NEW s \in Seq(S), NEW t \in Seq(S)
    PROVE  /\ SubSeq(s \o t, 1, Len(s)) = s
           /\ SubSeq(s \o t, Len(s) + 1, Len(s) + Len(t)) = t
<1> DEFINE c == s \o t
           m == Len(s)
           n == Len(t)
<1>1. /\ \A i \in 1 .. m : c[i] = s[i]
      /\ \A i \in 1 .. n : c[m + i] = t[i]
    BY ConcatParts
<1>2. m \in Nat /\ n \in Nat
    BY LenProperties
<1> HIDE DEF c
<1>3. SubSeq(c, m + 1, m + n) = t
    BY <1>1, <1>2, CutPart
<1>4. \A i \in 1 .. m : c[0 + i] = s[i]
    <2> HIDE DEF m
    <2> QED
        BY <1>1, <1>2
<1>5. SubSeq(c, 0 + 1, 0 + m) = s
    BY <1>4, CutPart
<1>6. SubSeq(c, 1, m) = s
    <2>1. 0 + 1 = 1 /\ 0 + m = m
        BY <1>2
    <2>2. QED
        BY <1>5, <2>1
<1>7. QED
    BY <1>3, <1>6 DEF c

\* A byte in front of a sequence.
LEMMA Prefixed ==
    ASSUME NEW S, NEW x \in S, NEW data \in Seq(S)
    PROVE  /\ <<x>> \o data \in Seq(S)
           /\ Len(<<x>> \o data) = Len(data) + 1
           /\ (<<x>> \o data)[1] = x
           /\ \A i \in 1 .. Len(data) : (<<x>> \o data)[i + 1] = data[i]
<1> DEFINE p == <<x>>
           c == p \o data
           n == Len(data)
<1>1. p \in Seq(S) /\ Len(p) = 1 /\ p[1] = x
    OBVIOUS
<1>2. n \in Nat
    BY LenProperties
<1> HIDE DEF p
<1>3. /\ c \in Seq(S)
      /\ Len(c) = Len(p) + n
      /\ \A i \in 1 .. Len(p) : c[i] = p[i]
      /\ \A i \in 1 .. n : c[Len(p) + i] = data[i]
    <2>1. p \in Seq(S) /\ data \in Seq(S)
        BY <1>1
    <2>2. QED
        BY <2>1, ConcatParts
<1> HIDE DEF c, n
<1>4. Len(c) = n + 1
    BY <1>1, <1>2, <1>3
<1>5. c[1] = x
    BY <1>1, <1>3
<1>6. \A i \in 1 .. n : c[i + 1] = data[i]
    <2> TAKE i \in 1 .. n
    <2>1. Len(p) + i = i + 1
        BY <1>1, <1>2
    <2>2. QED
        BY <1>3, <2>1
<1>7. QED
    BY <1>3, <1>4, <1>5, <1>6 DEF c, n, p

\* pop_size_prefixed_buf_from_buf undoes a length byte and what it announces.
LEMMA PopPrefixed ==
    ASSUME NEW S, NEW data \in Seq(S), NEW size \in S, size = Len(data), NEW rest \in Seq(S)
    PROVE  LET popped == pop_size_prefixed_buf_from_buf((<<size>> \o data) \o rest)
           IN  popped.data = data /\ popped.remainder = rest
<1> DEFINE head == <<size>> \o data
           buffer == head \o rest
           n == Len(data)
<1>1. /\ head \in Seq(S)
      /\ Len(head) = n + 1
      /\ head[1] = size
      /\ \A i \in 1 .. n : head[i + 1] = data[i]
    BY Prefixed
<1>2. n \in Nat /\ Len(rest) \in Nat
    BY LenProperties
<1> HIDE DEF head
<1>3. /\ Len(buffer) = Len(head) + Len(rest)
      /\ \A i \in 1 .. Len(head) : buffer[i] = head[i]
      /\ \A i \in 1 .. Len(rest) : buffer[Len(head) + i] = rest[i]
    <2>1. head \in Seq(S)
        BY <1>1
    <2>2. QED
        BY <2>1, ConcatParts
<1> HIDE DEF buffer
<1>4. SubSeq(buffer, Len(head) + 1, Len(head) + Len(rest)) = rest
    <2>1. Len(head) \in Nat
        BY <1>1, <1>2
    <2>2. QED
        BY <1>3, <2>1, CutPart
<1>5. \A i \in 1 .. n : buffer[1 + i] = data[i]
    <2> HIDE DEF n
    <2> TAKE i \in 1 .. n
    <2>1. 1 + i = i + 1 /\ i + 1 \in 1 .. Len(head)
        BY <1>1, <1>2
    <2>2. QED
        BY <1>1, <1>3, <2>1
<1>6. SubSeq(buffer, 1 + 1, 1 + n) = data
    BY <1>5, CutPart
<1> HIDE DEF n
<1>7. buffer[1] = n
    <2>1. 1 \in 1 .. Len(head)
        BY <1>1, <1>2
    <2>2. size = n
        BY DEF n
    <2>3. QED
        BY <1>1, <1>3, <2>1, <2>2
<1>8. SubSeq(buffer, 2, n + 1) = data
    <2>1. 1 + 1 = 2 /\ 1 + n = n + 1
        BY <1>2
    <2>2. QED
        BY <1>6, <2>1
<1>9. SubSeq(buffer, n + 2, Len(buffer)) = rest
    <2>1. Len(head) + 1 = n + 2 /\ Len(head) + Len(rest) = Len(buffer)
        BY <1>1, <1>2, <1>3
    <2>2. QED
        BY <1>4, <2>1
<1>10. pop_size_prefixed_buf_from_buf(buffer) = [remainder |-> rest, data |-> data]
    BY <1>7, <1>8, <1>9 DEF pop_size_prefixed_buf_from_buf
<1>11. QED
    BY <1>10 DEF buffer, head

-----------------------------------------------------------------------------
(***************************************************************************)
(* The layouts.                                                            *)
(***************************************************************************)
\* What a key's response is made of.
KeyResponse(key, code) == (<<PUBKEY_LEN>> \o key) \o ((<<CHAINCODE_LEN>> \o code) \o <<>>)

\* The four parts of a key's response, in two pairs.
LEMMA KeyLayout ==
    ASSUME NEW pk \in Keys
    PROVE  /\ pk.raw_public_key \in Seq(Octet) /\ Len(pk.raw_public_key) = PUBKEY_LEN
           /\ pk.chain_code \in Seq(Octet) /\ Len(pk.chain_code) = CHAINCODE_LEN
           /\ helper_send_response_pubkey(pk) = KeyResponse(pk.raw_public_key, pk.chain_code)
<1> DEFINE key == pk.raw_public_key
           code == pk.chain_code
           first == <<PUBKEY_LEN>>
           second == <<CHAINCODE_LEN>>
           head == first \o key
           tail == second \o code
<1>1. /\ PUBKEY_LEN \in Octet /\ CHAINCODE_LEN \in Octet
      /\ PUBKEY_LEN \in Nat /\ CHAINCODE_LEN \in Nat
    BY ResponsesAssumption DEF Octet
<1>2. key \in Array(PUBKEY_LEN) /\ code \in Array(CHAINCODE_LEN)
    BY DEF Keys
<1> HIDE DEF key, code
<1>3. key \in Seq(Octet) /\ Len(key) = PUBKEY_LEN
    BY <1>1, <1>2, ArrayIsSequence
<1>4. code \in Seq(Octet) /\ Len(code) = CHAINCODE_LEN
    BY <1>1, <1>2, ArrayIsSequence
<1>5. second \in Seq(Octet)
    BY <1>1
<1>6. head \in Seq(Octet)
    BY <1>1, <1>3, Prefixed
<1>7. tail \in Seq(Octet)
    BY <1>1, <1>4, Prefixed
<1>8. helper_send_response_pubkey(pk) = (head \o second) \o code
    BY DEF helper_send_response_pubkey, key, code
<1> HIDE DEF head, second
<1>9. (head \o second) \o code = head \o tail
    BY <1>4, <1>5, <1>6, ConcatAssociative
<1> HIDE DEF tail
<1>10. tail \o <<>> = tail
    BY <1>7, ConcatEmptySeq
<1>11. KeyResponse(key, code) = head \o (tail \o <<>>)
    BY DEF KeyResponse, head, tail, second
<1>12. helper_send_response_pubkey(pk) = KeyResponse(key, code)
    BY <1>8, <1>9, <1>10, <1>11
<1>13. QED
    BY <1>3, <1>4, <1>12 DEF key, code

\* A key is found in its response.
LEMMA KeyUnpacks ==
    ASSUME NEW pk \in Keys
    PROVE  unpack_get_public_key_response(helper_send_response_pubkey(pk)) = <<"key", pk>>
<1> DEFINE key == pk.raw_public_key
           code == pk.chain_code
           tail == (<<CHAINCODE_LEN>> \o code) \o <<>>
           whole == (<<PUBKEY_LEN>> \o key) \o tail
<1>1. /\ PUBKEY_LEN \in Octet /\ CHAINCODE_LEN \in Octet
      /\ PUBKEY_LEN \in Nat /\ CHAINCODE_LEN \in Nat
    BY ResponsesAssumption DEF Octet
<1>2. /\ key \in Seq(Octet) /\ Len(key) = PUBKEY_LEN
      /\ code \in Seq(Octet) /\ Len(code) = CHAINCODE_LEN
    BY KeyLayout
<1>3. helper_send_response_pubkey(pk) = whole
    BY KeyLayout DEF KeyResponse
<1>4. pk = [raw_public_key |-> key, chain_code |-> code]
    BY DEF Keys
<1> HIDE DEF key, code
<1>5. <<>> \in Seq(Octet)
    OBVIOUS
<1>6. tail \in Seq(Octet)
    <2> DEFINE second == <<CHAINCODE_LEN>> \o code
    <2>1. second \in Seq(Octet)
        BY <1>1, <1>2, Prefixed
    <2> HIDE DEF second
    <2>2. second \o <<>> \in Seq(Octet)
        BY <1>5, <2>1, ConcatParts
    <2>3. QED
        BY <2>2 DEF second
<1>7. /\ pop_size_prefixed_buf_from_buf(tail).data = code
      /\ pop_size_prefixed_buf_from_buf(tail).remainder = <<>>
    BY <1>1, <1>2, <1>5, PopPrefixed
<1> HIDE DEF tail
<1>8. /\ pop_size_prefixed_buf_from_buf(whole).data = key
      /\ pop_size_prefixed_buf_from_buf(whole).remainder = tail
    BY <1>1, <1>2, <1>6, PopPrefixed
<1> HIDE DEF whole
<1>9. unpack_get_public_key_response(whole) = <<"key", pk>>
    BY <1>2, <1>4, <1>7, <1>8 DEF unpack_get_public_key_response
<1>10. QED
    BY <1>3, <1>9

\* What a signature's response is made of.
SignatureResponse(der, v) == (<<Len(der)>> \o der) \o <<v>>

\* A signature is found in its response.
LEMMA SignatureUnpacks ==
    ASSUME NEW der \in Ders, NEW v \in {0, 1}
    PROVE  unpack_sign_tx_response(SignatureResponse(der, v)) = <<"signature", der, v>>
<1>1. PICK n \in 1 .. MAX_DER_SIG_LEN : der \in Array(n)
    BY DEF Ders
<1> DEFINE last == <<v>>
           whole == (<<n>> \o der) \o last
<1>2. n \in Octet /\ n \in Nat /\ n =< MAX_DER_SIG_LEN /\ MAX_DER_SIG_LEN \in Nat
    BY <1>1, ResponsesAssumption DEF Octet
<1>3. der \in Seq(Octet) /\ Len(der) = n
    BY <1>1, <1>2, ArrayIsSequence
<1>4. SignatureResponse(der, v) = whole
    BY <1>3 DEF SignatureResponse
<1>5. last \in Seq(Octet) /\ Len(last) = 1 /\ last[1] = v
    BY DEF Octet
<1>6. SubSeq(last, 2, 1) = <<>> /\ SubSeq(last, 1, 1) = last
    <2> HIDE DEF last
    <2>1. SubSeq(last, 2, 1) = <<>>
        BY <1>5, SubSeqEmpty
    <2>2. SubSeq(last, 1, Len(last)) = last
        BY <1>5, SubSeqFull
    <2>3. QED
        BY <1>5, <2>1, <2>2
<1> HIDE DEF last
<1>7. /\ pop_size_prefixed_buf_from_buf(whole).data = der
      /\ pop_size_prefixed_buf_from_buf(whole).remainder = last
    BY <1>2, <1>3, <1>5, PopPrefixed
<1> HIDE DEF whole
<1>8. pop_sized_buf_from_buffer(last, 1) = [remainder |-> <<>>, data |-> last]
    BY <1>5, <1>6 DEF pop_sized_buf_from_buffer
<1>9. unpack_sign_tx_response(whole) = <<"signature", der, v>>
    BY <1>5, <1>7, <1>8 DEF unpack_sign_tx_response
<1>10. QED
    BY <1>4, <1>9

\* The array holds the new signature, followed by what is left of the last.
LEMMA SignedFits ==
    ASSUME NEW der \in Ders, NEW v \in {0, 1}, tx_info.signature \in Array(MAX_DER_SIG_LEN)
    PROVE  /\ Signed(der, v).signature \in Array(MAX_DER_SIG_LEN)
           /\ Signed(der, v).signature_len \in 0 .. MAX_DER_SIG_LEN
           /\ helper_send_response_sig(Signed(der, v)) = SignatureResponse(der, v)
<1> DEFINE max == MAX_DER_SIG_LEN
<1>1. PICK n \in 1 .. max : der \in Array(n)
    BY DEF Ders
<1>2. n \in Nat /\ max \in Nat /\ 0 < n /\ n =< max
    BY <1>1, ResponsesAssumption
<1>3. der \in Seq(Bytes) /\ Len(der) = n
    <2>1. der \in [1 .. n -> Bytes]
        BY <1>1 DEF Array
    <2>2. der \in Seq(Bytes)
        BY <1>2, <2>1, SeqDef
    <2>3. QED
        BY <1>1, <1>2, <2>2, ArrayIsSequence
<1> DEFINE stored == tx_info.signature
           old == SubSeq(stored, n + 1, max)
           whole == der \o old
<1>4. old \in Seq(Bytes) /\ Len(old) = max - n
    <2>1. \A i \in n + 1 .. max : stored[i] \in Bytes
        BY <1>2 DEF Array
    <2> HIDE DEF stored
    <2> DEFINE m == n + 1
    <2>2. m \in Int /\ max \in Int /\ (m <= max => max - m + 1 = max - n)
          /\ (~(m <= max) => 0 = max - n)
        BY <1>2
    <2>3. \A i \in m .. max : stored[i] \in Bytes
        BY <2>1
    <2> HIDE DEF m, max
    <2>4. /\ SubSeq(stored, m, max) \in Seq(Bytes)
          /\ Len(SubSeq(stored, m, max)) = IF m <= max THEN max - m + 1 ELSE 0
        BY <2>2, <2>3, SubSeqProperties
    <2>5. QED
        BY <2>2, <2>4 DEF m
<1> HIDE DEF old
<1>5. old \in Seq(Bytes)
    BY <1>4
<1>6. whole \in Seq(Bytes) /\ Len(whole) = Len(der) + Len(old)
    BY <1>3, <1>5, ConcatParts
<1>7. SubSeq(whole, 1, n) = der
    BY <1>3, <1>5, CutConcat
<1>8. Signed(der, v) = [signature |-> whole, signature_len |-> n, v |-> v]
    BY <1>3 DEF Signed, old
<1> HIDE DEF whole
<1>9. Len(whole) = max
    BY <1>2, <1>3, <1>4, <1>6
<1>10. whole \in Array(max)
    BY <1>6, <1>9, SequenceIsArray
<1>11. helper_send_response_sig(Signed(der, v)) = SignatureResponse(der, v)
    BY <1>3, <1>7, <1>8 DEF helper_send_response_sig, SignatureResponse
<1>12. QED
    BY <1>2, <1>8, <1>10, <1>11

-----------------------------------------------------------------------------
(***************************************************************************)
(* The invariant: the arrays keep their sizes, and the last response is    *)
(* the layout of what was made for it, whatever the arrays hold by now.    *)
(***************************************************************************)
ArraysKeepSize ==
    /\ pk_info \in Keys
    /\ tx_info \in [signature : Array(MAX_DER_SIG_LEN),
                    signature_len : 0 .. MAX_DER_SIG_LEN, v : {0, 1}]

ResponseIsLayout ==
    \/ made = <<"nothing">> /\ resp = <<>>
    \/ \E pk \in Keys : made = <<"key", pk>> /\ resp = helper_send_response_pubkey(pk)
    \/ \E der \in Ders, v \in {0, 1} :
          made = <<"signature", der, v>> /\ resp = SignatureResponse(der, v)

RInv == ArraysKeepSize /\ ResponseIsLayout

\* RInv, along every behaviour.
THEOREM LayoutsCoherent == Spec => []RInv
<1>1. FreshKey \in Keys
    BY ResponsesAssumption DEF FreshKey, Keys, Array, Zeros
<1>2. FreshTx \in [signature : Array(MAX_DER_SIG_LEN),
                   signature_len : 0 .. MAX_DER_SIG_LEN, v : {0, 1}]
    BY ResponsesAssumption DEF FreshTx, Array, Zeros
<1>3. Init => RInv
    BY <1>1, <1>2 DEF Init, RInv, ArraysKeepSize, ResponseIsLayout
<1>4. RInv /\ [Next]_vars => RInv'
    <2> SUFFICES ASSUME RInv, [Next]_vars PROVE RInv'
        OBVIOUS
    <2>1. ASSUME NEW pk \in Keys, SendKey(pk) PROVE RInv'
        BY <2>1 DEF SendKey, RInv, ArraysKeepSize, ResponseIsLayout
    <2>2. ASSUME NEW der \in Ders, NEW v \in {0, 1}, SendSignature(der, v) PROVE RInv'
        <3>1. tx_info.signature \in Array(MAX_DER_SIG_LEN)
            BY DEF RInv, ArraysKeepSize
        <3>2. /\ tx_info' = Signed(der, v) /\ pk_info' = pk_info
              /\ made' = <<"signature", der, v>>
              /\ resp' = helper_send_response_sig(Signed(der, v))
            BY <2>2 DEF SendSignature
        <3>3. ArraysKeepSize'
            BY <3>1, <3>2, SignedFits DEF RInv, ArraysKeepSize, Signed
        <3>4. ResponseIsLayout'
            BY <3>1, <3>2, SignedFits DEF ResponseIsLayout
        <3>5. QED
            BY <3>3, <3>4 DEF RInv
    <2>3. CASE SignFails
        BY <2>3 DEF SignFails, RInv, ArraysKeepSize, ResponseIsLayout
    <2>4. CASE Reset
        BY <2>4, <1>1, <1>2 DEF Reset, RInv, ArraysKeepSize, ResponseIsLayout
    <2>5. CASE UNCHANGED vars
        BY <2>5 DEF vars, RInv, ArraysKeepSize, ResponseIsLayout
    <2>6. QED
        BY <2>1, <2>2, <2>3, <2>4, <2>5 DEF Next
<1>5. QED
    BY <1>3, <1>4, PTL DEF Spec

\* The client finds in every response what was made for it.
THEOREM UnpackingCorrect == Spec => []ClientUnpacks
<1>1. RInv => ClientUnpacks
    <2> SUFFICES ASSUME RInv PROVE ClientUnpacks
        OBVIOUS
    <2>1. CASE made = <<"nothing">> /\ resp = <<>>
        BY <2>1 DEF ClientUnpacks
    <2>2. ASSUME NEW pk \in Keys, made = <<"key", pk>>, resp = helper_send_response_pubkey(pk)
          PROVE  ClientUnpacks
        BY <2>2, KeyUnpacks DEF ClientUnpacks
    <2>3. ASSUME NEW der \in Ders, NEW v \in {0, 1},
                 made = <<"signature", der, v>>, resp = SignatureResponse(der, v)
          PROVE  ClientUnpacks
        BY <2>3, SignatureUnpacks DEF ClientUnpacks
    <2>4. QED
        BY <2>1, <2>2, <2>3 DEF RInv, ResponseIsLayout
<1>2. QED
    BY <1>1, LayoutsCoherent, PTL
=============================================================================
