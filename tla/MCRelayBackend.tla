---------------------------- MODULE MCRelayBackend ---------------------------
(* RelayBackend with values for the constants a .cfg cannot write down. *)
EXTENDS RelayBackend, TLC

CONSTANTS v1, v2

FreshChain == <<>>
NoOffers == {}

\* One proof-of-work block on a genesis below the terminal total difficulty.
PowChain == <<[slot |-> -1, src |-> "pow", by |-> 0]>>
Ext == [slot |-> 1, src |-> "external", by |-> 0]

\* A payload that would replace the terminal block, and one that extends it.
MergeOffers == {<<Ext>>, Append(PowChain, Ext)}

Reg(v, t, s) == [pubkey |-> v, timestamp |-> t, signed |-> s]

NoBatches == {}

\* Two registrations and a bad signature at the end, and an older registration of
\* one of the two.
TwoBatches == {<<Reg(v1, 1, TRUE), Reg(v2, 1, TRUE), Reg(v2, 0, FALSE)>>,
               <<Reg(v1, 0, TRUE)>>}

RequestAndCallSymmetry == Permutations(Requests) \cup Permutations(Calls)

=============================================================================
