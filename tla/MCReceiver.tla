----------------------------- MODULE MCReceiver -----------------------------
(* Receiver with the types and the texts it is checked for. *)
EXTENDS Receiver, SszSchema

\* Containers from which every other container can be reached, all text types and
\* both JSON objects.
AllKinds ==
    {"BlindedBeaconBlock", "BlindedBeaconBlockBody", "AttesterSlashing", "Attestation", "SignedBuilderBid",
     "RegisterValidatorRequestMessage", "transactions", "SigningData", "forkData"}
        \cup TextKinds \cup JsonKinds

\* Text that does not parse, and text of as many bytes as the type has, or others.
SampleTexts ==
    [t \in TextKinds |->
        {Text(FALSE, <<>>)}
            \cup {Text(TRUE, [k \in 1..n |-> v]) : v \in {5, 6}, n \in {0, 2, Width(t), Width(t) + 1}}
            \cup {Text(TRUE, [k \in 1..Width(t) |-> k % 256])}]

\* JSON with all fields, or without one of them.
SampleJsons ==
    [j \in JsonKinds |->
        {[f \in ToSet(FieldsOf(j)) \ lost |-> v] :
            v \in {1, 2}, lost \in {{}} \cup {{FieldsOf(j)[k]} : k \in DOMAIN FieldsOf(j)}}]

=============================================================================
