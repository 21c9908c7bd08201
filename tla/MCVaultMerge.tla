---------------------------- MODULE MCVaultMerge ----------------------------
(* Instances of VaultMerge for TLC. *)
EXTENDS VaultMerge, TLC

PlainName == {<<1>>}

\* Entry 3 already has the name that the merge would give to entry 2.
TwoShared == 1 :> <<1>> @@ 3 :> <<1, 2>>
ClashingNames == {<<1>>, <<1, 2>>}
=============================================================================
