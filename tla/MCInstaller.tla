---------------------------- MODULE MCInstaller ----------------------------
(***************************************************************************)
(* Two processes, which only their names tell apart, and three versions:   *)
(* the selected one, its fallback and one to prune.                        *)
(***************************************************************************)
EXTENDS Installer, TLC

MCVersions == 1 .. 3

Symmetry == Permutations(Procs)
=============================================================================
