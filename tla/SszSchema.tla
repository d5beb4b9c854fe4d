----------------------------- MODULE SszSchema -----------------------------
(***************************************************************************)
(* The containers of types/builder_encoding.go and signing_encoding.go.    *)
(* The generated functions of a container differ only in its fields, so a  *)
(* container is what they say about them: the constant of SizeSSZ and the  *)
(* size check, and for every field, in order, its kind, the width of its   *)
(* Go type, and the literal bounds of the slice UnmarshalSSZ takes for it. *)
(* SszCodec gives the four generated functions their meaning.              *)
(***************************************************************************)
EXTENDS Naturals, Sequences

Field(kind, width, lo, hi, of, max) ==
    [kind |-> kind, width |-> width, lo |-> lo, hi |-> hi, of |-> of, max |-> max]

\* Fixed part: an array copied to and from buf[lo:hi], an integer, and a pointer
\* to a container of fixed size.
Raw(width, lo, hi) == Field("raw", width, lo, hi, "", 0)
U64(lo, hi) == Raw(8, lo, hi)
Ptr(of, lo, hi) == Field("ptr", 0, lo, hi, of, 0)

\* Behind an offset at buf[lo:hi]: a pointer to a container of variable size;
\* lists of containers of fixed (width) and of variable size; lists of integers;
\* bytes; a bitlist; and a list of byte strings.
VarPtr(of, lo, hi) == Field("varptr", 0, lo, hi, of, 0)
ListOf(of, width, max, lo, hi) == Field("list", width, lo, hi, of, max)
DynListOf(of, max, lo, hi) == Field("dynlist", 0, lo, hi, of, max)
U64List(max, lo, hi) == Field("u64s", 8, lo, hi, "", max)
ByteList(max, lo, hi) == Field("bytes", 1, lo, hi, "", max)
BitList(max, lo, hi) == Field("bits", 1, lo, hi, "", max)
BytesList(max, lo, hi) == Field("byteslist", 0, lo, hi, "", max)

-----------------------------------------------------------------------------

Eth1Data == [size |-> 72, fields |-> <<
    Raw(32, 0, 32), U64(32, 40), Raw(32, 40, 72)>>]

BeaconBlockHeader == [size |-> 112, fields |-> <<
    U64(0, 8), U64(8, 16), Raw(32, 16, 48), Raw(32, 48, 80), Raw(32, 80, 112)>>]

SignedBeaconBlockHeader == [size |-> 208, fields |-> <<
    Ptr("BeaconBlockHeader", 0, 112), Raw(96, 112, 208)>>]

\* A mutant: the second header is read one byte early.
ProposerSlashingShifted == [size |-> 416, fields |-> <<
    Ptr("SignedBeaconBlockHeader", 0, 208), Ptr("SignedBeaconBlockHeader", 207, 415)>>]

ProposerSlashing == [size |-> 416, fields |-> <<
    Ptr("SignedBeaconBlockHeader", 0, 208), Ptr("SignedBeaconBlockHeader", 208, 416)>>]

Checkpoint == [size |-> 40, fields |-> <<U64(0, 8), Raw(32, 8, 40)>>]

AttestationData == [size |-> 128, fields |-> <<
    U64(0, 8), U64(8, 16), Raw(32, 16, 48),
    Ptr("Checkpoint", 48, 88), Ptr("Checkpoint", 88, 128)>>]

IndexedAttestation == [size |-> 228, fields |-> <<
    U64List(2048, 0, 4), Ptr("AttestationData", 4, 132), Raw(96, 132, 228)>>]

AttesterSlashing == [size |-> 8, fields |-> <<
    VarPtr("IndexedAttestation", 0, 4), VarPtr("IndexedAttestation", 4, 8)>>]

Attestation == [size |-> 228, fields |-> <<
    BitList(2048, 0, 4), Ptr("AttestationData", 4, 132), Raw(96, 132, 228)>>]

Deposit == [size |-> 184, fields |-> <<
    Raw(48, 0, 48), Raw(32, 48, 80), U64(80, 88), Raw(96, 88, 184)>>]

VoluntaryExit == [size |-> 16, fields |-> <<U64(0, 8), U64(8, 16)>>]

SyncAggregate == [size |-> 160, fields |-> <<Raw(64, 0, 64), Raw(96, 64, 160)>>]

ExecutionPayloadHeader == [size |-> 536, fields |-> <<
    Raw(32, 0, 32), Raw(20, 32, 52), Raw(32, 52, 84), Raw(32, 84, 116),
    Raw(256, 116, 372), Raw(32, 372, 404),
    U64(404, 412), U64(412, 420), U64(420, 428), U64(428, 436),
    ByteList(2048, 436, 440),
    Raw(32, 440, 472), Raw(32, 472, 504), Raw(32, 504, 536)>>]

BlindedBeaconBlockBody == [size |-> 384, fields |-> <<
    Raw(96, 0, 96), Ptr("Eth1Data", 96, 168), Raw(32, 168, 200),
    ListOf("ProposerSlashing", 416, 16, 200, 204),
    DynListOf("AttesterSlashing", 2, 204, 208),
    DynListOf("Attestation", 128, 208, 212),
    ListOf("Deposit", 184, 16, 212, 216),
    ListOf("VoluntaryExit", 16, 16, 216, 220),
    Ptr("SyncAggregate", 220, 380),
    VarPtr("ExecutionPayloadHeader", 380, 384)>>]

BlindedBeaconBlock == [size |-> 84, fields |-> <<
    U64(0, 8), U64(8, 16), Raw(32, 16, 48), Raw(32, 48, 80),
    VarPtr("BlindedBeaconBlockBody", 80, 84)>>]

RegisterValidatorRequestMessage == [size |-> 84, fields |-> <<
    Raw(20, 0, 20), U64(20, 28), U64(28, 36), Raw(48, 36, 84)>>]

BuilderBid == [size |-> 84, fields |-> <<
    VarPtr("ExecutionPayloadHeader", 0, 4), Raw(32, 4, 36), Raw(48, 36, 84)>>]

SignedBuilderBid == [size |-> 100, fields |-> <<
    VarPtr("BuilderBid", 0, 4), Raw(96, 4, 100)>>]

transactions == [size |-> 4, fields |-> <<BytesList(1048576, 0, 4)>>]

SigningData == [size |-> 64, fields |-> <<Raw(32, 0, 32), Raw(32, 32, 64)>>]

forkData == [size |-> 36, fields |-> <<Raw(4, 0, 4), Raw(32, 4, 36)>>]

-----------------------------------------------------------------------------

\* The container of a name.
Schema == [
    Eth1Data |-> Eth1Data,
    BeaconBlockHeader |-> BeaconBlockHeader,
    SignedBeaconBlockHeader |-> SignedBeaconBlockHeader,
    ProposerSlashing |-> ProposerSlashing,
    Checkpoint |-> Checkpoint,
    AttestationData |-> AttestationData,
    IndexedAttestation |-> IndexedAttestation,
    AttesterSlashing |-> AttesterSlashing,
    Attestation |-> Attestation,
    Deposit |-> Deposit,
    VoluntaryExit |-> VoluntaryExit,
    SyncAggregate |-> SyncAggregate,
    ExecutionPayloadHeader |-> ExecutionPayloadHeader,
    BlindedBeaconBlockBody |-> BlindedBeaconBlockBody,
    BlindedBeaconBlock |-> BlindedBeaconBlock,
    RegisterValidatorRequestMessage |-> RegisterValidatorRequestMessage,
    BuilderBid |-> BuilderBid,
    SignedBuilderBid |-> SignedBuilderBid,
    transactions |-> transactions,
    SigningData |-> SigningData,
    forkData |-> forkData]

=============================================================================
