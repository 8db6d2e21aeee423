-------------------------------- MODULE MCBkp --------------------------------
(***************************************************************************)
(* Two hosts, so that one can fail and a run can be killed between them,   *)
(* and two disks.  Two nights, or one night and two snapshots.             *)
(***************************************************************************)
EXTENDS Bkp, TLC

CONSTANTS a, b

\* Nothing tells the disks apart.
DiskSymmetry == Permutations(Disks)

ARank == [h \in {a, b} |-> IF h = a THEN 1 ELSE 2]
=============================================================================
