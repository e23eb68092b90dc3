-------------------------- MODULE MCMessageBroker --------------------------
(* Symmetry of the accounts of MessageBroker.                              *)
EXTENDS MessageBroker, TLC

Symmetry == Permutations(Accounts)

=============================================================================
