---------------------------- MODULE TextReceiver ----------------------------
(***************************************************************************)
(* The life of one object of package types that arrives as text or as      *)
(* JSON: it is decoded into, perhaps again after a failure.  The decoders   *)
(* are methods on a pointer, so each may leave something in the object     *)
(* that the next one meets.                                                *)
(***************************************************************************)
EXTENDS TextCodec

CONSTANTS
    Kinds,       \* which types are looked at, by their names
    Texts,       \* the texts that may arrive for each text type
    Jsons,       \* the JSON texts that may arrive for each JSON object
    NoInput,     \* the last decoder failed, or none ran
    MaxOps       \* bound: methods called on the object

TextKinds == DOMAIN FixedWidth \cup {"Bloom", "ExtraData", "U256Str"}
JsonKinds == {"ExecutionPayloadV1", "PayloadAttributesV1"}

Width(t) ==
    IF t \in DOMAIN FixedWidth THEN FixedWidth[t] ELSE IF t = "Bloom" THEN 256 ELSE 32

FieldsOf(j) == IF j = "ExecutionPayloadV1" THEN ExecutionPayloadV1 ELSE PayloadAttributesV1

Byte == 0..255

\* Any text and any JSON: one that does not parse, of any length, with any fields.
ASSUME TextAssumption ==
    /\ Texts \in [TextKinds -> SUBSET [valid : BOOLEAN, bytes : Seq(Byte)]]
    /\ \A j \in JsonKinds : \A json \in Jsons[j] : DOMAIN json \subseteq ToSet(FieldsOf(j))
    /\ MaxOps \in Nat

VARIABLES
    kind,       \* the type of the object
    obj,        \* the object
    ops,        \* number of methods called on it
    use,        \* new until a decoder succeeds, decoded by the first that does,
                \* reused by any other and if a caller filled it in
    input       \* what the last decoder was given if it succeeded

objectVars == <<kind, obj, ops, use, input>>

-----------------------------------------------------------------------------

\* new(T): arrays of zeros, a nil slice, fields that are zero.
NewText(t) ==
    IF t = "ExtraData" THEN <<>>
    ELSE IF t \in TextKinds THEN [k \in 1..Width(t) |-> 0]
    ELSE [f \in ToSet(FieldsOf(t)) |-> 0]

TextInit ==
    /\ kind \in Kinds \cap (TextKinds \cup JsonKinds)
    /\ obj = NewText(kind)
    /\ ops = 0
    /\ use = "new"
    /\ input = NoInput

Call == ops < MaxOps /\ ops' = ops + 1 /\ UNCHANGED kind

\* A decoder was given x and leaves the object as o, whether it succeeds or not.
Decode(ok, o, x) ==
    /\ Call
    /\ obj' = o
    /\ use' = IF use # "new" THEN "reused" ELSE IF ok THEN "decoded" ELSE "new"
    /\ input' = IF ok THEN x ELSE NoInput

UnmarshalTextInto(t, o, text) ==
    CASE t = "Signature" -> UnmarshalSignature(o, text)
      [] t = "PublicKey" -> UnmarshalPublicKey(o, text)
      [] t = "Address" -> UnmarshalAddress(o, text)
      [] t = "Hash" -> UnmarshalHash(o, text)
      [] t = "CommitteeBits" -> UnmarshalCommitteeBits(o, text)
      [] t = "Bloom" -> UnmarshalBloom(o, text)
      [] t = "ExtraData" -> UnmarshalExtraData(o, text)
      [] t = "U256Str" -> UnmarshalU256(o, text)

UnmarshalText(text) ==
    /\ kind \in TextKinds
    /\ LET r == UnmarshalTextInto(kind, obj, text)
       IN  Decode(r.outcome = "ok", r.value, text)

UnmarshalJsonInto(j, o, json) ==
    IF j = "ExecutionPayloadV1" THEN UnmarshalPayload(o, json) ELSE UnmarshalAttributes(o, json)

UnmarshalJSON(json) ==
    /\ kind \in JsonKinds
    /\ LET r == UnmarshalJsonInto(kind, obj, json)
       IN  Decode(r.outcome = "ok", r.value, json)

TextNext ==
    \/ kind \in TextKinds /\ \E text \in Texts[kind] : UnmarshalText(text)
    \/ kind \in JsonKinds /\ \E json \in Jsons[kind] : UnmarshalJSON(json)

TextSpec == TextInit /\ [][TextNext]_objectVars

-----------------------------------------------------------------------------
(* Properties *)

\* What the decoder of the type makes of x in a new object.
FreshText(x) ==
    IF kind \in TextKinds
    THEN UnmarshalTextInto(kind, NewText(kind), x).value
    ELSE UnmarshalJsonInto(kind, NewText(kind), x).value

\* The types that keep something of what was in them before: an array is left alone
\* by text that does not parse, a bloom is only partly overwritten by a short text,
\* and missing attributes stay.
KeepsOldText ==
    \/ kind \in DOMAIN FixedWidth /\ ~input.valid
    \/ kind = "Bloom" /\ (~input.valid \/ Len(input.bytes) < Width(kind))
    \/ kind = "PayloadAttributesV1" /\ DOMAIN input # DOMAIN obj

\* A decode that fails, or panics, may leave the object half written, but never so
\* that the next one shows it: the first decode that succeeds makes of the object
\* what it makes of a new one.  A later one does so too, except for the types that
\* keep something.
TextForgets ==
    use = "decoded" \/ (use = "reused" /\ input # NoInput /\ ~KeepsOldText) =>
        obj = FreshText(input)

\* A decoder of text leaves the old value or the bytes of the text, never a
\* mixture of both; except for Bloom, whose length check looks at the receiver.
OldOrText ==
    kind \in DOMAIN FixedWidth =>
        obj' = obj \/ \E text \in Texts[kind] : text.valid /\ obj' = text.bytes

TextNeverMixes == [][OldOrText]_objectVars

\* The base fee survives the way from the engine's payload through the REST
\* payload and its JSON and back, although the U256Str holds it the wrong way
\* round and its text is another number.
BaseFeeSurvives ==
    kind = "U256Str" =>
        LET fee == SetBytes(obj)
            sent == Text(TRUE, MarshalU256(ELPayloadToRESTPayload(fee)))
        IN  RESTPayloadToELPayload(UnmarshalU256(obj, sent).value) = fee

=============================================================================
