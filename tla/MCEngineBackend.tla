--------------------------- MODULE MCEngineBackend ---------------------------
(* EngineBackend with values for the constants a .cfg cannot write down. *)
EXTENDS EngineBackend, TLC

PowSeal == [slot |-> -1, src |-> "pow", by |-> 0]
Ext(s) == [slot |-> s, src |-> "external", by |-> 0]

FreshChain == <<>>
PowChain == <<PowSeal, PowSeal>>

\* A fork at genesis, one branch of two blocks: the client may send the second
\* of them first.
ForkOffers == {<<Ext(1)>>, <<Ext(1), Ext(2)>>, <<Ext(2)>>}

\* One block on the terminal block, and its child.
PowOffers == {PowChain \o <<Ext(1)>>, PowChain \o <<Ext(1), Ext(2)>>}

RequestSymmetry == Permutations(Requests)

=============================================================================
