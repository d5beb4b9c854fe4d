----------------------------- MODULE MCLifecycle -----------------------------
(* Lifecycle with values for the constants a .cfg cannot write down. *)
EXTENDS Lifecycle

PowSeal == [slot |-> 1, src |-> "pow", by |-> 1]

\* The database of an earlier run that was stopped after one block.
OneBlock == <<PowSeal>>

\* A client that has that block, or only genesis.
Heads == {OneBlock, <<>>}

\* The difficulty grows while blocks follow each other every second.
Growing(n) == n + 1

\* The hypothesis of the theorems about the prologue holds of this instance.
ASSUME HypothesesHold == StoredBelowTerminal

=============================================================================
