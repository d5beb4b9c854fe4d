--------------------------- MODULE MCConsensusNode ---------------------------
(* ConsensusNode with values for the constants a .cfg cannot write down. *)
EXTENDS ConsensusNode

PowSeal == [slot |-> -1, src |-> "pow", by |-> 0]

\* An empty data directory, and one with two proof-of-work blocks.
FreshChain == <<>>
PowChain == <<PowSeal, PowSeal>>

\* Started before genesis: the first tick may be that of slot -1.
CountingDown == -2

\* The hypotheses of the theorem about the clock hold of these instances.
ASSUME HypothesesHold == 0 \notin Steps /\ StoredInOrder

=============================================================================
