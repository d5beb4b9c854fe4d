------------------------- MODULE TextReceiver_proofs -------------------------
(***************************************************************************)
(* For every text and every JSON that may arrive: an object keeps its       *)
(* size, a decode that succeeds shows nothing of what was before it, an     *)
(* array is never a mixture, and the base fee survives its byte orders.     *)
(***************************************************************************)
EXTENDS TextReceiver, SequenceTheorems, WellFoundedInduction, TLAPS

TextRecord == [valid : BOOLEAN, bytes : Seq(Byte)]

\* The values of a text type.
Object(t) ==
    IF t = "ExtraData" THEN {s \in Seq(Byte) : Len(s) <= 32}
    ELSE {s \in Seq(Byte) : Len(s) = Width(t)}

-----------------------------------------------------------------------------
(* Sequences of bytes *)

\* A function on 1..n is a sequence of length n.
LEMMA SeqFromFunction ==
    ASSUME NEW S, NEW n \in Nat, NEW F \in [1..n -> S]
    PROVE  F \in Seq(S) /\ Len(F) = n
<1>1. F \in Seq(S) BY SMT
<1>2. DOMAIN F = 1..n OBVIOUS
<1>3. Len(F) \in Nat /\ DOMAIN F = 1..Len(F) BY <1>1, LenProperties
<1> QED BY <1>1, <1>2, <1>3

\* Two sequences of one length with the same elements are equal.
LEMMA SameElements ==
    ASSUME NEW S, NEW s \in Seq(S), NEW t \in Seq(S), Len(s) = Len(t),
           \A i \in 1..Len(s) : s[i] = t[i]
    PROVE  s = t
BY SeqEqual, Zenon

\* A nonempty set of numbers up to n has a greatest one, which is its Max.
LEMMA MaxExists ==
    ASSUME NEW n \in Nat, NEW K, K \subseteq 0..n, K # {}
    PROVE  Max(K) \in K /\ \A y \in K : Max(K) >= y
<1> DEFINE T == {n - k : k \in K}
<1>1. T \subseteq Nat OBVIOUS
<1>2. T # {} OBVIOUS
<1>3. PICK x \in T : \A y \in T : ~(<<y, x>> \in OpToRel(<, Nat))
  <2> HIDE DEF T
  <2> QED BY <1>1, <1>2, NatLessThanWellFounded, WFMin, Zenon
<1>4. \A y \in T : ~(y < x)
  BY <1>1, <1>3 DEF OpToRel
<1>5. PICK m \in K : x = n - m BY <1>3
<1>6. \A y \in K : m >= y
  <2> TAKE y \in K
  <2>1. n - y \in T OBVIOUS
  <2>2. ~(n - y < n - m) BY <2>1, <1>4, <1>5
  <2>3. y \in 0..n /\ m \in 0..n OBVIOUS
  <2> QED BY <2>2, <2>3
<1> QED BY <1>6 DEF Max

\* Reversing twice changes nothing.
LEMMA ReverseSeq ==
    ASSUME NEW S, NEW s \in Seq(S)
    PROVE  Reverse(s) \in Seq(S) /\ Len(Reverse(s)) = Len(s) /\ Reverse(Reverse(s)) = s
<1> DEFINE R == Reverse(s)
<1>0. Len(s) \in Nat /\ s \in [1..Len(s) -> S] BY LenProperties, ElementOfSeq
<1>1. R \in [1..Len(s) -> S]
  BY <1>0 DEF Reverse
<1>2. R \in Seq(S) /\ Len(R) = Len(s)
  <2> HIDE DEF R
  <2> QED BY <1>0, <1>1, SeqFromFunction
<1>3. \A i \in 1..Len(s) : R[i] = s[(Len(s) - i) + 1] BY DEF Reverse
<1>4. Reverse(R) = [i \in 1..Len(s) |-> R[(Len(s) - i) + 1]]
  <2> HIDE DEF R
  <2> QED BY <1>2 DEF Reverse
<1>5. \A i \in 1..Len(s) : (Len(s) - i) + 1 \in 1..Len(s) /\ (Len(s) - ((Len(s) - i) + 1)) + 1 = i
  BY <1>0
<1>6. \A i \in 1..Len(s) : R[(Len(s) - i) + 1] = s[i]
  <2> HIDE DEF R
  <2> QED BY <1>3, <1>5
<1>7. Reverse(R) = [i \in 1..Len(s) |-> s[i]]
  <2> HIDE DEF R
  <2> QED BY <1>4, <1>6
<1> QED BY <1>0, <1>2, <1>7

\* The leading zeros of a sequence, which are all there are.
LEMMA LeadingZeros ==
    ASSUME NEW b \in Seq(Byte)
    PROVE  \E z \in 0..Len(b) :
               /\ \A j \in 1..z : b[j] = 0
               /\ SetBytes(b) = SubSeq(b, z + 1, Len(b))
<1> DEFINE K == {k \in 0..Len(b) : \A j \in 1..k : b[j] = 0}
<1>0. Len(b) \in Nat BY LenProperties
<1>1. 0 \in K BY <1>0
<1>2. K \subseteq 0..Len(b) OBVIOUS
<1>3. Max(K) \in K
  <2> HIDE DEF K
  <2> QED BY <1>0, <1>1, <1>2, MaxExists
<1>4. SetBytes(b) = SubSeq(b, Max(K) + 1, Len(b)) BY DEF SetBytes
<1> QED BY <1>3, <1>4

\* A number of at most 32 bytes and the 32 bytes that hold it: FillBytes pads what
\* SetBytes has cut off.
LEMMA FillSetBytes ==
    ASSUME NEW b \in Seq(Byte), Len(b) = 32
    PROVE  /\ SetBytes(b) \in Seq(Byte)
           /\ Len(SetBytes(b)) <= 32
           /\ FillBytes(SetBytes(b)) = b
<1>1. PICK z \in 0..Len(b) :
          /\ \A j \in 1..z : b[j] = 0
          /\ SetBytes(b) = SubSeq(b, z + 1, Len(b))
  BY LeadingZeros
<1>2. PICK x : x = SetBytes(b) OBVIOUS
<1>3. /\ x \in Seq(Byte)
      /\ Len(x) = 32 - z
      /\ \A i \in 1..(32 - z) : x[i] = b[z + i]
  <2>2. z \in 0..32 BY <1>1
  <2>3. PICK m \in Int, n \in Int : m = z + 1 /\ n = Len(b) BY <2>2
  <2>7. \A i \in m..n : b[i] \in Byte
    <3>1. \A i \in 1..Len(b) : b[i] \in Byte BY ElementOfSeq
    <3>2. m..n \subseteq 1..Len(b) BY <2>2, <2>3
    <3> QED BY <3>1, <3>2
  <2>4. /\ SubSeq(b, m, n) \in Seq(Byte)
        /\ Len(SubSeq(b, m, n)) = IF m <= n THEN n - m + 1 ELSE 0
        /\ \A i \in 1..(n - m + 1) : SubSeq(b, m, n)[i] = b[m + i - 1]
    BY <2>7, SubSeqProperties
  <2>5. x = SubSeq(b, m, n) BY <1>1, <1>2, <2>3
  <2>6. n - m + 1 = 32 - z BY <2>3
  <2> QED BY <2>2, <2>3, <2>4, <2>5, <2>6
<1> DEFINE pad == [k \in 1..(32 - Len(x)) |-> 0]
<1>4. pad \in Seq(Byte) /\ Len(pad) = z /\ \A i \in 1..z : pad[i] = 0
  <2>1. 32 - Len(x) = z /\ z \in Nat BY <1>1, <1>3
  <2>2. pad \in [1..z -> Byte] /\ \A i \in 1..z : pad[i] = 0 BY <2>1 DEF Byte
  <2> HIDE DEF pad
  <2> QED BY <2>1, <2>2, SeqFromFunction
<1>5. FillBytes(x) = pad \o x BY DEF FillBytes
<1>6. pad \o x = b
  <2> HIDE DEF pad
  <2>1. /\ pad \o x \in Seq(Byte)
        /\ Len(pad \o x) = Len(pad) + Len(x)
        /\ \A i \in 1..(Len(pad) + Len(x)) :
              (pad \o x)[i] = IF i <= Len(pad) THEN pad[i] ELSE x[i - Len(pad)]
    BY <1>3, <1>4, ConcatProperties
  <2>2. Len(pad \o x) = 32 BY <2>1, <1>1, <1>3, <1>4
  <2>3. \A i \in 1..32 : (pad \o x)[i] = b[i]
    <3> TAKE i \in 1..32
    <3>1. (pad \o x)[i] = IF i <= z THEN pad[i] ELSE x[i - z] BY <2>1, <2>2, <1>4
    <3>2. CASE i <= z BY <3>1, <3>2, <1>1, <1>4
    <3>3. CASE ~(i <= z)
      <4>1. i - z \in 1..(32 - z) BY <3>3, <1>1
      <4> QED BY <3>1, <3>3, <4>1, <1>1, <1>3
    <3> QED BY <3>2, <3>3
  <2>4. Len(pad \o x) = Len(b) /\ \A i \in 1..Len(pad \o x) : (pad \o x)[i] = b[i]
    BY <2>2, <2>3
  <2>5. PICK y : y = pad \o x OBVIOUS
  <2> QED BY <2>1, <2>4, <2>5, SameElements
<1>7. Len(x) <= 32 BY <1>1, <1>3
<1> HIDE DEF pad
<1> QED BY <1>2, <1>3, <1>5, <1>6, <1>7

\* The text of a U256Str decodes to it again, whatever the receiver holds.
LEMMA U256RoundTrip ==
    ASSUME NEW n \in Seq(Byte), Len(n) = 32, NEW recv
    PROVE  UnmarshalU256(recv, Text(TRUE, MarshalU256(n))) = Decoded("ok", n)
<1> DEFINE r == Reverse(n)
<1>1. r \in Seq(Byte) /\ Len(r) = 32 /\ Reverse(r) = n BY ReverseSeq
<1>2. /\ SetBytes(r) \in Seq(Byte)
      /\ Len(SetBytes(r)) <= 32
      /\ FillBytes(SetBytes(r)) = r
  <2> HIDE DEF r
  <2> QED BY <1>1, FillSetBytes
<1>3. MarshalU256(n) = SetBytes(r) BY DEF MarshalU256
<1>4. Len(SetBytes(r)) \in Nat BY <1>2, LenProperties
<1> HIDE DEF r
<1> QED BY <1>1, <1>2, <1>3, <1>4 DEF UnmarshalU256, Text

-----------------------------------------------------------------------------
(* The decoders *)

\* A new object is a value of its type.
LEMMA NewTextIsObject ==
    ASSUME NEW t \in TextKinds
    PROVE  NewText(t) \in Object(t)
<1>1. CASE t = "ExtraData"
  BY <1>1 DEF NewText, Object
<1>2. CASE t # "ExtraData"
  <2>1. Width(t) \in Nat BY DEF Width, FixedWidth, TextKinds
  <2>2. NewText(t) = [k \in 1..Width(t) |-> 0] BY <1>2 DEF NewText
  <2>3. [k \in 1..Width(t) |-> 0] \in [1..Width(t) -> Byte] BY DEF Byte
  <2>4. NewText(t) \in Seq(Byte) /\ Len(NewText(t)) = Width(t)
    BY <2>1, <2>2, <2>3, SeqFromFunction
  <2> QED BY <1>2, <2>4 DEF Object
<1> QED BY <1>1, <1>2

\* The arrays: a decoder that does not succeed leaves the receiver alone; one that
\* does leaves the bytes of the text, or the receiver if the text does not parse.
LEMMA ArrayDecoder ==
    ASSUME NEW t \in DOMAIN FixedWidth, NEW o \in Object(t), NEW text \in TextRecord
    PROVE  LET r == UnmarshalTextInto(t, o, text)
           IN  /\ r.outcome # "ok" => r.value = o
               /\ r.outcome = "ok" => \/ text.valid /\ r.value = text.bytes
                                      \/ ~text.valid /\ r.value = o
               /\ r.outcome = "ok" <=> \/ text.valid /\ Len(text.bytes) = Width(t)
                                       \/ ~text.valid /\ t # "Signature"
               /\ r.value \in Object(t)
<1>1. t \in {"Signature", "PublicKey", "Address", "Hash", "CommitteeBits"}
  BY DEF FixedWidth
<1>2. o \in Seq(Byte) /\ Len(o) = Width(t) BY <1>1 DEF Object
<1>3. Width(t) = FixedWidth[t] BY DEF Width
<1>4. CASE t = "Signature"
  <2>1. UnmarshalTextInto(t, o, text) = UnmarshalSignature(o, text) BY <1>4 DEF UnmarshalTextInto
  <2>2. FixedWidth.Signature = Width(t) BY <1>3, <1>4
  <2> QED BY <1>2, <1>4, <2>1, <2>2 DEF UnmarshalSignature, Decoded, TextRecord, Object
<1>5. CASE t # "Signature"
  <2>1. UnmarshalTextInto(t, o, text) = UnmarshalArray(Width(t), o, text)
    BY <1>1, <1>3, <1>5 DEF UnmarshalTextInto, UnmarshalPublicKey, UnmarshalAddress,
        UnmarshalHash, UnmarshalCommitteeBits
  <2>2. t # "ExtraData" BY <1>1
  <2> QED BY <1>2, <1>5, <2>1, <2>2 DEF UnmarshalArray, HexBytes, Decoded, TextRecord, Object
<1> QED BY <1>4, <1>5

\* Bloom: the receiver, as far as the text covers it overwritten by the text.
LEMMA BloomDecoder ==
    ASSUME NEW o \in Object("Bloom"), NEW text \in TextRecord
    PROVE  LET r == UnmarshalTextInto("Bloom", o, text)
           IN  /\ r.outcome = "ok"
               /\ r.value \in Object("Bloom")
               /\ text.valid /\ Len(text.bytes) >= 256 =>
                      r.value = [k \in 1..256 |-> text.bytes[k]]
<1> DEFINE b == HexBytes(o, text)
           v == [k \in DOMAIN o |-> IF k <= Len(b) THEN b[k] ELSE o[k]]
<1>1. UnmarshalTextInto("Bloom", o, text) = Decoded("ok", v)
  BY DEF UnmarshalTextInto, UnmarshalBloom
<1>2. o \in Seq(Byte) /\ Len(o) = 256 BY DEF Object, Width, FixedWidth
<1>3. DOMAIN o = 1..256 /\ \A k \in 1..256 : o[k] \in Byte
  <2>1. o \in Seq(Byte) BY <1>2
  <2>2. DOMAIN o = 1..Len(o) BY <2>1, LenProperties
  <2>3. \A k \in 1..Len(o) : o[k] \in Byte BY <2>1, ElementOfSeq
  <2> QED BY <1>2, <2>2, <2>3
<1>4. b \in Seq(Byte) BY <1>2 DEF HexBytes, TextRecord
<1>5. Len(b) \in Nat /\ \A k \in 1..Len(b) : b[k] \in Byte
  <2> HIDE DEF b
  <2> QED BY <1>4, ElementOfSeq, LenProperties
<1>6. v \in [1..256 -> Byte]
  <2> HIDE DEF b
  <2>1. \A k \in 1..256 : (IF k <= Len(b) THEN b[k] ELSE o[k]) \in Byte
    <3> TAKE k \in 1..256
    <3>1. k <= Len(b) => k \in 1..Len(b) BY <1>5
    <3> QED BY <1>3, <1>5, <3>1
  <2> QED BY <1>3, <2>1
<1>7. v \in Seq(Byte) /\ Len(v) = 256
  <2> HIDE DEF v
  <2>1. PICK n \in Nat : n = 256 OBVIOUS
  <2>2. PICK w \in [1..n -> Byte] : w = v BY <1>6, <2>1
  <2>3. w \in Seq(Byte) /\ Len(w) = n BY SeqFromFunction
  <2> QED BY <2>1, <2>2, <2>3
<1>8. text.valid /\ Len(text.bytes) >= 256 => v = [k \in 1..256 |-> text.bytes[k]]
  <2> HAVE text.valid /\ Len(text.bytes) >= 256
  <2>1. b = text.bytes BY DEF HexBytes
  <2> HIDE DEF b
  <2>2. \A k \in 1..256 : k <= Len(b) BY <2>1, <1>5
  <2>3. v = [k \in 1..256 |-> IF k <= Len(b) THEN b[k] ELSE o[k]] BY <1>3
  <2> HIDE DEF v
  <2> QED BY <2>1, <2>2, <2>3
<1> HIDE DEF v
<1>9. Object("Bloom") = {s \in Seq(Byte) : Len(s) = 256} BY DEF Object, Width, FixedWidth
<1>10. v \in Object("Bloom") BY <1>7, <1>9
<1>11. /\ UnmarshalTextInto("Bloom", o, text).outcome = "ok"
       /\ UnmarshalTextInto("Bloom", o, text).value = v
  BY <1>1 DEF Decoded
<1> QED BY <1>8, <1>10, <1>11

\* ExtraData: what a decoder makes does not depend on the receiver, unless it fails
\* and leaves the receiver alone.
LEMMA ExtraDataDecoder ==
    ASSUME NEW o \in Object("ExtraData"), NEW text \in TextRecord
    PROVE  LET r == UnmarshalTextInto("ExtraData", o, text)
           IN  /\ r.value \in Object("ExtraData")
               /\ \A new : r.outcome = "ok" =>
                      UnmarshalTextInto("ExtraData", new, text) = r
<1> DEFINE b == IF text.valid THEN text.bytes ELSE <<>>
<1>1. \A new : UnmarshalTextInto("ExtraData", new, text) =
                  IF Len(b) > 32 THEN Decoded("error", new) ELSE Decoded("ok", b)
  BY DEF UnmarshalTextInto, UnmarshalExtraData
<1>2. b \in Seq(Byte) BY DEF TextRecord
<1>3. Len(b) \in Nat
  <2> HIDE DEF b
  <2> QED BY <1>2, LenProperties
<1> HIDE DEF b
<1> QED BY <1>1, <1>2, <1>3 DEF Decoded, Object

\* U256Str: 32 bytes whatever happens, also when FillBytes panics; what a decoder
\* that succeeds makes does not depend on the receiver.
LEMMA U256Decoder ==
    ASSUME NEW o \in Object("U256Str"), NEW text \in TextRecord
    PROVE  LET r == UnmarshalTextInto("U256Str", o, text)
           IN  /\ r.value \in Object("U256Str")
               /\ \A new : r.outcome = "ok" =>
                      UnmarshalTextInto("U256Str", new, text) = r
<1> DEFINE x == text.bytes
           low == SubSeq(x, Len(x) - 31, Len(x))
           full == Reverse(FillBytes(x))
<1>1. \A new : UnmarshalTextInto("U256Str", new, text) =
                  IF ~text.valid THEN Decoded("error", new)
                  ELSE IF Len(x) > 32 THEN Decoded("panic", low) ELSE Decoded("ok", full)
  BY DEF UnmarshalTextInto, UnmarshalU256
<1>2. x \in Seq(Byte) /\ Len(x) \in Nat BY LenProperties DEF TextRecord
<1>3. Len(x) > 32 => low \in Seq(Byte) /\ Len(low) = 32
  <2> HIDE DEF x
  <2> HAVE Len(x) > 32
  <2>1. PICK m \in Int, n \in Int : m = Len(x) - 31 /\ n = Len(x) BY <1>2
  <2>2. \A i \in m..n : x[i] \in Byte
    <3>1. \A i \in 1..Len(x) : x[i] \in Byte BY <1>2, ElementOfSeq
    <3>2. m..n \subseteq 1..Len(x) BY <1>2, <2>1
    <3> QED BY <3>1, <3>2
  <2>3. /\ SubSeq(x, m, n) \in Seq(Byte)
        /\ Len(SubSeq(x, m, n)) = IF m <= n THEN n - m + 1 ELSE 0
    BY <2>2, SubSeqProperties
  <2> QED BY <1>2, <2>1, <2>3
<1>4. Len(x) <= 32 => full \in Seq(Byte) /\ Len(full) = 32
  <2> HIDE DEF x
  <2> HAVE Len(x) <= 32
  <2>1. PICK n \in Nat : n = 32 - Len(x) BY <1>2
  <2>2. PICK pad : pad = [k \in 1..n |-> 0] OBVIOUS
  <2>3. pad \in [1..n -> Byte] BY <2>2 DEF Byte
  <2>4. pad \in Seq(Byte) /\ Len(pad) = n BY <2>3, SeqFromFunction
  <2>5. pad \o x \in Seq(Byte) /\ Len(pad \o x) = Len(pad) + Len(x)
    BY <1>2, <2>4, ConcatProperties
  <2>6. PICK f : f = FillBytes(x) OBVIOUS
  <2>7. f = pad \o x BY <2>1, <2>2, <2>6 DEF FillBytes
  <2>8. f \in Seq(Byte) /\ Len(f) = 32 BY <1>2, <2>1, <2>4, <2>5, <2>7
  <2>9. Reverse(f) \in Seq(Byte) /\ Len(Reverse(f)) = Len(f) BY <2>8, ReverseSeq
  <2> QED BY <2>6, <2>8, <2>9
<1>5. Object("U256Str") = {s \in Seq(Byte) : Len(s) = 32} BY DEF Object, Width, FixedWidth
<1>6. text.valid \in BOOLEAN BY DEF TextRecord
<1> HIDE DEF x, low, full
<1>7. CASE ~text.valid BY <1>1, <1>7 DEF Decoded
<1>8. CASE text.valid /\ Len(x) > 32 BY <1>1, <1>3, <1>5, <1>8 DEF Decoded
<1>9. CASE text.valid /\ Len(x) <= 32 BY <1>1, <1>2, <1>4, <1>5, <1>9 DEF Decoded
<1> QED BY <1>2, <1>6, <1>7, <1>8, <1>9

\* The JSON decoders keep the fields of an object.  One for a payload that succeeds
\* has written all of them; one for attributes always succeeds.
LEMMA JsonDecoder ==
    ASSUME NEW j \in JsonKinds, NEW o, NEW json, DOMAIN o = ToSet(FieldsOf(j)),
           DOMAIN json \subseteq ToSet(FieldsOf(j))
    PROVE  LET r == UnmarshalJsonInto(j, o, json)
           IN  /\ DOMAIN r.value = DOMAIN o
               /\ j = "ExecutionPayloadV1" /\ r.outcome = "ok" =>
                      r.value = [f \in DOMAIN o |-> json[f]]
               /\ j = "PayloadAttributesV1" =>
                      /\ r.outcome = "ok"
                      /\ DOMAIN json = DOMAIN o => r.value = [f \in DOMAIN o |-> json[f]]
<1>1. CASE j = "ExecutionPayloadV1"
  <2> DEFINE missing == {k \in DOMAIN ExecutionPayloadV1 : ExecutionPayloadV1[k] \notin DOMAIN json}
             Written(f) == \A k \in missing : \A i \in k..Len(ExecutionPayloadV1) :
                               ExecutionPayloadV1[i] # f
             v == [f \in DOMAIN o |-> IF Written(f) THEN json[f] ELSE o[f]]
  <2>1. UnmarshalJsonInto(j, o, json) = Decoded(IF missing = {} THEN "ok" ELSE "error", v)
    BY <1>1 DEF UnmarshalJsonInto, UnmarshalPayload
  <2>2. missing = {} => \A f : Written(f) OBVIOUS
  <2>3. missing = {} => v = [f \in DOMAIN o |-> json[f]]
    <3> HIDE DEF missing, Written
    <3> QED BY <2>2
  <2>4. DOMAIN v = DOMAIN o OBVIOUS
  <2> HIDE DEF v, missing
  <2>5. /\ UnmarshalJsonInto(j, o, json).value = v
        /\ UnmarshalJsonInto(j, o, json).outcome = "ok" => missing = {}
    BY <2>1 DEF Decoded
  <2> QED BY <1>1, <2>3, <2>4, <2>5
<1>2. CASE j = "PayloadAttributesV1"
  BY <1>2 DEF UnmarshalJsonInto, UnmarshalAttributes, Decoded
<1> QED BY <1>1, <1>2 DEF JsonKinds

-----------------------------------------------------------------------------
(* The inductive invariant *)

\* The object is a value of its type, also after a decoder that failed or panicked.
\* (An ExecutionPayloadV1 may then be half written.)
TextTypeOK ==
    /\ kind \in TextKinds \cup JsonKinds
    /\ use \in {"new", "decoded", "reused"}
    /\ kind \in TextKinds => obj \in Object(kind)
    /\ kind \in JsonKinds => DOMAIN obj = ToSet(FieldsOf(kind))

\* The types whose decoders may leave some of the receiver when they succeed are
\* left alone by a decoder that fails.
NewStaysNew ==
    use = "new" /\ kind \in DOMAIN FixedWidth \cup {"Bloom", "PayloadAttributesV1"} =>
        obj = NewText(kind)

TextInv == TextTypeOK /\ NewStaysNew /\ TextForgets

\* The names of the text types, and of the JSON objects, are different.
LEMMA KindNames ==
    /\ DOMAIN FixedWidth = {"Signature", "PublicKey", "Address", "Hash", "CommitteeBits"}
    /\ TextKinds = DOMAIN FixedWidth \cup {"Bloom", "ExtraData", "U256Str"}
    /\ TextKinds \cap JsonKinds = {}
BY DEF FixedWidth, TextKinds, JsonKinds

LEMMA TextInitInv == TextInit => TextInv
<1> SUFFICES ASSUME TextInit PROVE TextInv OBVIOUS
<1> USE DEF TextInit
<1>1. kind \in TextKinds => obj \in Object(kind) BY NewTextIsObject
<1>2. kind \in JsonKinds => DOMAIN obj = ToSet(FieldsOf(kind))
  BY KindNames DEF NewText, JsonKinds
<1>3. NewStaysNew /\ TextForgets BY DEF NewStaysNew, TextForgets
<1> QED BY <1>1, <1>2, <1>3 DEF TextInv, TextTypeOK

\* What a decoder of text does to a value of the type: it stays one, the types
\* that could show the old value keep it when the decoder fails, and the old value
\* does not matter when it succeeds, but for text that leaves some of it.
LEMMA TextDecoder ==
    ASSUME NEW t \in TextKinds, NEW o \in Object(t), NEW text \in TextRecord
    PROVE  LET r == UnmarshalTextInto(t, o, text)
               partly == \/ t \in DOMAIN FixedWidth /\ ~text.valid
                         \/ t = "Bloom" /\ (~text.valid \/ Len(text.bytes) < Width(t))
           IN  /\ r.value \in Object(t)
               /\ t \in DOMAIN FixedWidth \cup {"Bloom"} /\ r.outcome # "ok" => r.value = o
               /\ r.outcome = "ok" /\ (~partly \/ o = NewText(t)) =>
                      r.value = UnmarshalTextInto(t, NewText(t), text).value
<1>0. NewText(t) \in Object(t) BY NewTextIsObject
<1>1. CASE t \in DOMAIN FixedWidth
  <2> DEFINE r == UnmarshalTextInto(t, o, text)
             new == UnmarshalTextInto(t, NewText(t), text)
  <2>1. /\ r.outcome # "ok" => r.value = o
        /\ r.outcome = "ok" => \/ text.valid /\ r.value = text.bytes
                               \/ ~text.valid /\ r.value = o
        /\ r.outcome = "ok" <=> \/ text.valid /\ Len(text.bytes) = Width(t)
                                \/ ~text.valid /\ t # "Signature"
        /\ r.value \in Object(t)
    BY <1>1, ArrayDecoder
  <2>2. /\ new.outcome = "ok" => \/ text.valid /\ new.value = text.bytes
                                 \/ ~text.valid /\ new.value = NewText(t)
        /\ new.outcome = "ok" <=> \/ text.valid /\ Len(text.bytes) = Width(t)
                                  \/ ~text.valid /\ t # "Signature"
    BY <1>0, <1>1, ArrayDecoder
  <2>3. t # "Bloom" BY <1>1, KindNames
  <2> HIDE DEF r, new
  <2>4. r.outcome = "ok" /\ (text.valid \/ o = NewText(t)) => r.value = new.value
    BY <2>1, <2>2
  <2> QED BY <1>1, <2>1, <2>3, <2>4 DEF r, new
<1>2. CASE t = "Bloom"
  <2>1. /\ UnmarshalTextInto(t, o, text).outcome = "ok"
        /\ UnmarshalTextInto(t, o, text).value \in Object(t)
        /\ text.valid /\ Len(text.bytes) >= 256 =>
               UnmarshalTextInto(t, o, text).value = [k \in 1..256 |-> text.bytes[k]]
    BY <1>2, BloomDecoder
  <2>2. text.valid /\ Len(text.bytes) >= 256 =>
               UnmarshalTextInto(t, NewText(t), text).value = [k \in 1..256 |-> text.bytes[k]]
    BY <1>0, <1>2, BloomDecoder
  <2>3. Width(t) = 256 BY <1>2 DEF Width, FixedWidth
  <2>4. Len(text.bytes) \in Nat BY LenProperties DEF TextRecord
  <2>5. ~(Len(text.bytes) < Width(t)) => Len(text.bytes) >= 256 BY <2>3, <2>4
  <2> QED BY <1>2, <2>1, <2>2, <2>5
<1>3. CASE t = "ExtraData"
  <2>1. t \notin DOMAIN FixedWidth \cup {"Bloom"} BY <1>3, KindNames
  <2>2. /\ UnmarshalTextInto(t, o, text).value \in Object(t)
        /\ \A new : UnmarshalTextInto(t, o, text).outcome = "ok" =>
               UnmarshalTextInto(t, new, text) = UnmarshalTextInto(t, o, text)
    BY <1>3, ExtraDataDecoder
  <2> QED BY <2>1, <2>2
<1>4. CASE t = "U256Str"
  <2>1. t \notin DOMAIN FixedWidth \cup {"Bloom"} BY <1>4, KindNames
  <2>2. /\ UnmarshalTextInto(t, o, text).value \in Object(t)
        /\ \A new : UnmarshalTextInto(t, o, text).outcome = "ok" =>
               UnmarshalTextInto(t, new, text) = UnmarshalTextInto(t, o, text)
    BY <1>4, U256Decoder
  <2> QED BY <2>1, <2>2
<1> QED BY <1>1, <1>2, <1>3, <1>4, KindNames

\* A step with a text preserves the invariant.
LEMMA UnmarshalTextInv ==
    ASSUME TextInv, kind \in TextKinds, NEW text \in Texts[kind], UnmarshalText(text)
    PROVE  TextInv'
<1>1. text \in TextRecord BY TextAssumption DEF TextRecord
<1>2. obj \in Object(kind) BY DEF TextInv, TextTypeOK
<1>3. PICK r : r = UnmarshalTextInto(kind, obj, text) OBVIOUS
<1>4. /\ kind' = kind
      /\ obj' = r.value
      /\ use' = IF use # "new" THEN "reused" ELSE IF r.outcome = "ok" THEN "decoded" ELSE "new"
      /\ input' = IF r.outcome = "ok" THEN text ELSE NoInput
  BY <1>3 DEF UnmarshalText, Decode, Call
<1> DEFINE partly == \/ kind \in DOMAIN FixedWidth /\ ~text.valid
                     \/ kind = "Bloom" /\ (~text.valid \/ Len(text.bytes) < Width(kind))
<1>5. /\ r.value \in Object(kind)
      /\ kind \in DOMAIN FixedWidth \cup {"Bloom"} /\ r.outcome # "ok" => r.value = obj
      /\ r.outcome = "ok" /\ (~partly \/ obj = NewText(kind)) =>
             r.value = UnmarshalTextInto(kind, NewText(kind), text).value
  BY <1>1, <1>2, <1>3, TextDecoder
<1>6. kind \notin JsonKinds /\ kind # "PayloadAttributesV1" BY KindNames DEF JsonKinds
<1>7. TextTypeOK'
  <2>1. use' \in {"new", "decoded", "reused"} BY <1>4
  <2>2. kind' \in TextKinds /\ kind' \notin JsonKinds BY <1>4, <1>6
  <2>3. obj' \in Object(kind') BY <1>4, <1>5
  <2> QED BY <2>1, <2>2, <2>3 DEF TextTypeOK
<1>8. NewStaysNew'
  <2>1. ASSUME use' = "new", kind' \in DOMAIN FixedWidth \cup {"Bloom"} PROVE obj' = NewText(kind')
    <3>1. use = "new" /\ r.outcome # "ok" BY <1>4, <2>1
    <3> QED BY <1>4, <1>5, <2>1, <3>1 DEF TextInv, NewStaysNew
  <2> QED BY <1>4, <1>6, <2>1 DEF NewStaysNew
<1>9. TextForgets'
  <2> SUFFICES ASSUME (use = "decoded" \/ (use = "reused" /\ input # NoInput /\ ~KeepsOldText))'
               PROVE  (obj = FreshText(input))'
    BY DEF TextForgets
  <2>1. r.outcome = "ok" /\ input' = text BY <1>4
  <2>2. use' = "decoded" => use = "new" BY <1>4
  <2>3. kind \in DOMAIN FixedWidth \cup {"Bloom"} /\ use = "new" => obj = NewText(kind)
    BY DEF TextInv, NewStaysNew
  <2>4. ~partly \/ obj = NewText(kind)
    <3>1. CASE use' = "decoded" BY <2>2, <2>3, <3>1
    <3>2. CASE ~KeepsOldText' BY <1>4, <2>1, <3>2 DEF KeepsOldText
    <3> QED BY <3>1, <3>2
  <2>5. obj' = UnmarshalTextInto(kind, NewText(kind), text).value BY <1>4, <1>5, <2>1, <2>4
  <2> QED BY <1>4, <2>1, <2>5 DEF FreshText
<1> QED BY <1>7, <1>8, <1>9 DEF TextInv

\* A step with a JSON text preserves the invariant.
LEMMA UnmarshalJSONInv ==
    ASSUME TextInv, kind \in JsonKinds, NEW json \in Jsons[kind], UnmarshalJSON(json)
    PROVE  TextInv'
<1>1. DOMAIN json \subseteq ToSet(FieldsOf(kind)) BY TextAssumption
<1>2. DOMAIN obj = ToSet(FieldsOf(kind)) BY DEF TextInv, TextTypeOK
<1>3. PICK r : r = UnmarshalJsonInto(kind, obj, json) OBVIOUS
<1>4. /\ kind' = kind
      /\ obj' = r.value
      /\ use' = IF use # "new" THEN "reused" ELSE IF r.outcome = "ok" THEN "decoded" ELSE "new"
      /\ input' = IF r.outcome = "ok" THEN json ELSE NoInput
  BY <1>3 DEF UnmarshalJSON, Decode, Call
<1>5. /\ DOMAIN r.value = DOMAIN obj
      /\ kind = "ExecutionPayloadV1" /\ r.outcome = "ok" =>
             r.value = [f \in DOMAIN obj |-> json[f]]
      /\ kind = "PayloadAttributesV1" =>
             /\ r.outcome = "ok"
             /\ DOMAIN json = DOMAIN obj => r.value = [f \in DOMAIN obj |-> json[f]]
  BY <1>1, <1>2, <1>3, JsonDecoder
<1>6. kind \notin TextKinds /\ kind \notin DOMAIN FixedWidth /\ kind # "Bloom" BY KindNames
<1>7. TextTypeOK'
  <2>1. use' \in {"new", "decoded", "reused"} BY <1>4
  <2>2. kind' \in JsonKinds /\ kind' \notin TextKinds BY <1>4, <1>6
  <2>3. DOMAIN obj' = ToSet(FieldsOf(kind')) BY <1>2, <1>4, <1>5
  <2> QED BY <2>1, <2>2, <2>3 DEF TextTypeOK
<1>8. NewStaysNew'
  <2>1. kind' = "PayloadAttributesV1" => use' # "new" BY <1>4, <1>5
  <2> QED BY <1>4, <1>6, <2>1 DEF NewStaysNew
<1>9. TextForgets'
  <2> SUFFICES ASSUME (use = "decoded" \/ (use = "reused" /\ input # NoInput /\ ~KeepsOldText))'
               PROVE  (obj = FreshText(input))'
    BY DEF TextForgets
  <2>1. r.outcome = "ok" /\ input' = json BY <1>4
  <2>2. use' = "decoded" => use = "new" BY <1>4
  <2>3. PICK new : new = NewText(kind) OBVIOUS
  <2>4. DOMAIN new = ToSet(FieldsOf(kind)) BY <1>6, <2>3 DEF NewText, TextKinds
  <2>5. PICK q : q = UnmarshalJsonInto(kind, new, json) OBVIOUS
  <2>6. /\ kind = "ExecutionPayloadV1" /\ q.outcome = "ok" =>
               q.value = [f \in DOMAIN new |-> json[f]]
        /\ kind = "PayloadAttributesV1" /\ DOMAIN json = DOMAIN new =>
               q.value = [f \in DOMAIN new |-> json[f]]
    BY <1>1, <2>4, <2>5, JsonDecoder
  <2>7. kind = "ExecutionPayloadV1" => q.outcome = "ok"
    BY <1>3, <2>1, <2>5 DEF UnmarshalJsonInto, UnmarshalPayload, Decoded
  <2>8. DOMAIN new = DOMAIN obj BY <1>2, <2>4
  <2>9. r.value = q.value
    <3>1. CASE kind = "ExecutionPayloadV1" BY <1>5, <2>1, <2>6, <2>7, <2>8, <3>1
    <3>2. CASE kind = "PayloadAttributesV1" /\ DOMAIN json = DOMAIN obj
      BY <1>5, <2>6, <2>8, <3>2
    <3>3. CASE kind = "PayloadAttributesV1" /\ DOMAIN json # DOMAIN obj
      <4>1. DOMAIN input' # DOMAIN obj' BY <1>4, <1>5, <2>1, <3>3
      <4>2. KeepsOldText' BY <1>4, <3>3, <4>1 DEF KeepsOldText
      <4>3. use = "new" BY <2>2, <4>2
      <4>4. obj = new BY <2>3, <3>3, <4>3 DEF TextInv, NewStaysNew
      <4> QED BY <1>3, <2>5, <4>4
    <3> QED BY <3>1, <3>2, <3>3 DEF JsonKinds
  <2>10. obj' = UnmarshalJsonInto(kind, NewText(kind), json).value
    BY <1>4, <2>3, <2>5, <2>9
  <2> QED BY <1>4, <1>6, <2>1, <2>10 DEF FreshText
<1> QED BY <1>7, <1>8, <1>9 DEF TextInv

LEMMA TextInvInductive == TextInv /\ [TextNext]_objectVars => TextInv'
<1> SUFFICES ASSUME TextInv, [TextNext]_objectVars PROVE TextInv' OBVIOUS
<1>1. ASSUME kind \in TextKinds, NEW text \in Texts[kind], UnmarshalText(text) PROVE TextInv'
  BY <1>1, UnmarshalTextInv
<1>2. ASSUME kind \in JsonKinds, NEW json \in Jsons[kind], UnmarshalJSON(json) PROVE TextInv'
  BY <1>2, UnmarshalJSONInv
<1>3. CASE UNCHANGED objectVars
  BY <1>3 DEF objectVars, TextInv, TextTypeOK, NewStaysNew, TextForgets, FreshText, KeepsOldText
<1> QED BY <1>1, <1>2, <1>3 DEF TextNext

LEMMA TextInvariance == TextSpec => []TextInv
BY TextInitInv, TextInvInductive, PTL DEF TextSpec

-----------------------------------------------------------------------------
(* Theorems *)

\* Every decoder leaves a value of the type, also when it fails, and when FillBytes
\* panics half-way: arrays keep their length, ExtraData its limit of 32 bytes, and
\* the JSON objects their fields.
THEOREM TextTypeCorrect == TextSpec => []TextTypeOK
BY TextInvariance, PTL DEF TextInv

\* Of whatever texts arrive, in whatever order, a decode that succeeds shows nothing
\* of one that failed before it, and nothing of one that succeeded, but for text that
\* does not parse, short blooms and attributes with missing fields.
THEOREM TextDecodeForgets == TextSpec => []TextForgets
BY TextInvariance, PTL DEF TextInv

\* An array is never a mixture of the old value and the bytes of a text.
THEOREM ArraysNeverMix == TextSpec => TextNeverMixes
<1>1. TextInv /\ [TextNext]_objectVars => [OldOrText]_objectVars
  <2> SUFFICES ASSUME TextInv, TextNext, kind \in DOMAIN FixedWidth
               PROVE  obj' = obj \/ \E text \in Texts[kind] : text.valid /\ obj' = text.bytes
    BY DEF OldOrText
  <2>1. kind \in TextKinds /\ kind \notin JsonKinds BY KindNames
  <2>2. PICK text \in Texts[kind] : UnmarshalText(text) BY <2>1 DEF TextNext
  <2>3. text \in TextRecord BY <2>1, TextAssumption DEF TextRecord
  <2>4. obj \in Object(kind) BY <2>1 DEF TextInv, TextTypeOK
  <2>5. PICK r : r = UnmarshalTextInto(kind, obj, text) OBVIOUS
  <2>6. obj' = r.value BY <2>2, <2>5 DEF UnmarshalText, Decode
  <2>7. /\ r.outcome # "ok" => r.value = obj
        /\ r.outcome = "ok" => \/ text.valid /\ r.value = text.bytes
                               \/ ~text.valid /\ r.value = obj
    BY <2>3, <2>4, <2>5, ArrayDecoder
  <2> QED BY <2>6, <2>7
<1> QED BY <1>1, TextInvariance, PTL DEF TextSpec, TextNeverMixes

\* Any base fee that fits into 32 bytes survives its way through the REST payload and
\* its JSON, in which it is written as another number.
THEOREM BaseFeeRoundTrip == TextSpec => []BaseFeeSurvives
<1>1. TextInv => BaseFeeSurvives
  <2> SUFFICES ASSUME TextInv, kind = "U256Str" PROVE BaseFeeSurvives BY DEF BaseFeeSurvives
  <2>1. PICK b : b = obj OBVIOUS
  <2>2. b \in Seq(Byte) /\ Len(b) = 32
    <3>1. b \in Object("U256Str") BY <2>1, KindNames DEF TextInv, TextTypeOK
    <3> QED BY <3>1 DEF Object, Width, FixedWidth
  <2>3. FillBytes(SetBytes(b)) = b BY <2>2, FillSetBytes
  <2>4. UnmarshalU256(b, Text(TRUE, MarshalU256(b))) = Decoded("ok", b) BY <2>2, U256RoundTrip
  <2>5. UnmarshalU256(b, Text(TRUE, MarshalU256(ELPayloadToRESTPayload(SetBytes(b))))).value = b
    <3>1. ELPayloadToRESTPayload(SetBytes(b)) = b BY <2>3 DEF ELPayloadToRESTPayload
    <3>2. Decoded("ok", b).value = b BY DEF Decoded
    <3> QED BY <2>4, <3>1, <3>2, Zenon
  <2> QED BY <2>1, <2>5 DEF BaseFeeSurvives, RESTPayloadToELPayload
<1> QED BY <1>1, TextInvariance, PTL

=============================================================================
