------------------------------ MODULE TextCodec ------------------------------
(***************************************************************************)
(* The text forms of types/common.go, the JSON forms gencodec generated    *)
(* (types/gen_ep.go, types/gen_blockparams.go) and the base fee on its way *)
(* through the payload types (types/builder.go).                           *)
(*                                                                         *)
(* A text is what the parser makes of it: valid or not, and the bytes it   *)
(* stands for (of a decimal number: its big-endian bytes, no leading zero; *)
(* zero has none).  A decoder has a receiver, which keeps its value when   *)
(* nothing is written into it.                                             *)
(***************************************************************************)
EXTENDS Integers, SequencesExt

Text(valid, bytes) == [valid |-> valid, bytes |-> bytes]

\* The outcome of a decoder, and its receiver afterwards.
Decoded(outcome, value) == [outcome |-> outcome, value |-> value]

\* hexutil.Bytes over the receiver's own memory: bytes that do not parse leave it
\* as it is, which is what the caller sees if it ignores the error.
HexBytes(recv, text) == IF text.valid THEN text.bytes ELSE recv

FixedWidth == [Signature |-> 96, PublicKey |-> 48, Address |-> 20, Hash |-> 32,
               CommitteeBits |-> 64]

\* Signature.UnmarshalText, UnmarshalJSON: the only one that reports bad text.
UnmarshalSignature(recv, text) ==
    IF ~text.valid THEN Decoded("error", recv)
    ELSE IF Len(text.bytes) # FixedWidth.Signature THEN Decoded("error", recv)
    ELSE Decoded("ok", text.bytes)

\* A mutant: bytes of any length are copied.
UnmarshalUnchecked(width, recv, text) ==
    LET b == HexBytes(recv, text)
    IN  Decoded("ok", [k \in 1..width |-> IF k <= Len(b) THEN b[k] ELSE recv[k]])

\* PublicKey, Address, Hash, CommitteeBits: the length is checked, but text that
\* does not parse has the length of the receiver and is taken for its old value.
UnmarshalArray(width, recv, text) ==
    LET b == HexBytes(recv, text)
    IN  IF Len(b) # width THEN Decoded("error", recv) ELSE Decoded("ok", b)

\* PublicKey and Address: each of the two spells out the same function.
UnmarshalPublicKey(recv, text) == UnmarshalArray(FixedWidth.PublicKey, recv, text)
UnmarshalAddress(recv, text) == UnmarshalArray(FixedWidth.Address, recv, text)
UnmarshalHash(recv, text) == UnmarshalArray(FixedWidth.Hash, recv, text)
UnmarshalCommitteeBits(recv, text) == UnmarshalArray(FixedWidth.CommitteeBits, recv, text)

\* Bloom: the length that is checked is the receiver's, so text of any length is
\* copied over as much of the receiver as it covers.
UnmarshalBloom(recv, text) ==
    LET b == HexBytes(recv, text)
    IN  Decoded("ok", [k \in DOMAIN recv |-> IF k <= Len(b) THEN b[k] ELSE recv[k]])

\* ExtraData: the buffer is a new one, so text that does not parse empties it.
UnmarshalExtraData(recv, text) ==
    LET b == IF text.valid THEN text.bytes ELSE <<>>
    IN  IF Len(b) > 32 THEN Decoded("error", recv) ELSE Decoded("ok", b)

-----------------------------------------------------------------------------
(* U256Str: 32 bytes, little endian, whose text is a decimal number *)

\* big.Int: FillBytes into 32 bytes, SetBytes without leading zeros.
FillBytes(x) == [k \in 1..(32 - Len(x)) |-> 0] \o x
SetBytes(b) ==
    LET zeros == Max({k \in 0..Len(b) : \A j \in 1..k : b[j] = 0})
    IN  SubSeq(b, zeros + 1, Len(b))

MarshalU256(n) == SetBytes(Reverse(n))

\* FillBytes writes into the receiver; a number that does not fit makes it panic
\* when the low 32 bytes are there.
UnmarshalU256(recv, text) ==
    IF ~text.valid THEN Decoded("error", recv)
    ELSE IF Len(text.bytes) > 32
    THEN Decoded("panic", SubSeq(text.bytes, Len(text.bytes) - 31, Len(text.bytes)))
    ELSE Decoded("ok", Reverse(FillBytes(text.bytes)))

\* A mutant: only the way back reads the U256Str in its own byte order.
RESTPayloadToELPayloadReversed(n) == SetBytes(Reverse(n))

\* The base fee of an execution payload is put into a U256Str in the order of
\* the number, and taken out in the same order.
ELPayloadToRESTPayload(fee) == FillBytes(fee)
RESTPayloadToELPayload(n) == SetBytes(n)

-----------------------------------------------------------------------------
(* The JSON objects of the engine API.  An object is a function from field  *)
(* names to values; a JSON text has some of the fields.                     *)

ExecutionPayloadV1 == <<"parentHash", "feeRecipient", "stateRoot", "receiptsRoot",
    "logsBloom", "prevRandao", "blockNumber", "gasLimit", "gasUsed", "timestamp",
    "extraData", "baseFeePerGas", "blockHash", "transactions">>

PayloadAttributesV1 == <<"timestamp", "prevRandao", "suggestedFeeRecipient">>

\* Every field of a payload is required.  The fields before the one that is
\* missing are written all the same.
UnmarshalPayload(recv, json) ==
    LET missing == {k \in DOMAIN ExecutionPayloadV1 : ExecutionPayloadV1[k] \notin DOMAIN json}
        Written(f) == \A k \in missing : \A j \in k..Len(ExecutionPayloadV1) :
                            ExecutionPayloadV1[j] # f
    IN  Decoded(IF missing = {} THEN "ok" ELSE "error",
                [f \in DOMAIN recv |-> IF Written(f) THEN json[f] ELSE recv[f]])

\* No field of the attributes is required: what is missing keeps its value.
UnmarshalAttributes(recv, json) ==
    Decoded("ok", [f \in DOMAIN recv |-> IF f \in DOMAIN json THEN json[f] ELSE recv[f]])

=============================================================================
