----------------------------- MODULE MCMergeMock -----------------------------
(* MergeMock with values for the constants a .cfg cannot write down. *)
EXTENDS MergeMock

\* An empty data directory on both sides.
FreshChain == <<>>

\* The hypotheses of the theorems about the two mocks hold of this instance.
ASSUME HypothesesHold ==
    /\ Steps \subseteq {1}
    /\ StoredInOrder
    /\ "badHash" \notin Faked
    /\ "payload" \notin EngineFaults
    /\ CacheSize >= 2
    /\ UseBuilder = FALSE
    /\ StoredByOthers

=============================================================================
