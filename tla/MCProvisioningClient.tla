------------------------- MODULE MCProvisioningClient -------------------------
(***************************************************************************)
(* Small instances of ProvisioningClient.                                  *)
(***************************************************************************)
EXTENDS ProvisioningClient, TLC

CONSTANTS a1, a2, i1

\* Two identifiers with the same first eight bytes.
SharedId == [a \in Accounts |-> i1]

ThreadSymmetry == Permutations(Threads)

\* The accounts differ in nothing but their directories.
FullSymmetry == Permutations(Threads) \cup Permutations(Accounts)
================================================================================
