----------------------------- MODULE MCUpgrade -----------------------------
(***************************************************************************)
(* Three releases: v2 writes state v1 cannot read, v3 writes state every   *)
(* one of them can, so upgrades both with and without a snapshot happen.   *)
(***************************************************************************)
EXTENDS Upgrade, TLC

CONSTANTS v1, v2, v3

MCVersions == {v1, v2, v3}
MCStateVersion == (v1 :> 1) @@ (v2 :> 2) @@ (v3 :> 2)
MCRollbackTo == (v1 :> 1) @@ (v2 :> 2) @@ (v3 :> 1)
=============================================================================
