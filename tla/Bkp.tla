--------------------------------- MODULE Bkp ---------------------------------
(***************************************************************************)
(* The two backup servers, whose jobs run on timers of their own: the      *)
(* primary pushes to the directory the secondary takes its snapshots of.   *)
(***************************************************************************)
EXTENDS BkpPrimary, BkpSecondary

CONSTANT MaxJobs  \* bound: snapshots and nights together, a night for two

vars == <<primaryVars, secondaryVars>>

Init == PrimaryInit /\ SecondaryInit

Primary   == PrimaryNext /\ UNCHANGED secondaryVars
Secondary == SecondaryNext /\ UNCHANGED primaryVars

Next == (Primary \/ Secondary) /\ 2 * night' + snapshot' <= MaxJobs

Spec == Init /\ [][Next]_vars

\* Every variable has its type.
TypeOK == PrimaryType /\ SecondaryType

\* The inductive invariant
IInv == PrimaryInv /\ SecondaryInv
=============================================================================
