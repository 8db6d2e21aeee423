------------------------------ MODULE BkpMirror ------------------------------
(***************************************************************************)
(* What the two backup servers share: the secondary's mirror_d/current,    *)
(* which the primary pushes to and the secondary takes snapshots of.       *)
(***************************************************************************)
EXTENDS Naturals

CONSTANTS
  Hosts,     \* bkp.hosts
  MaxNights  \* bound: runs of the primary's job

ASSUME MirrorAssumption == MaxNights \in Nat

VARIABLE pushed  \* the copy of each host in the secondary's mirror_d/current

Nights == 1..MaxNights

\* A directory with the copy of a host: not made, without anything that
\* counts, with some of the data of a night and its log, or with all of it.
CopyStates == {"none", "empty", "part", "whole"}
Copy    == [state : CopyStates, of : 0..MaxNights]
NoCopy  == [state |-> "none", of |-> 0]
Empty   == [state |-> "empty", of |-> 0]
Whole(n) == [state |-> "whole", of |-> n]
Part(n)  == [state |-> "part", of |-> n]
=============================================================================
