---------------------------- MODULE Publish_proofs ----------------------------
(***************************************************************************)
(* Publish implements PublishedTree, for any hosts and any number of       *)
(* builds, each of which may die anywhere.                                 *)
(***************************************************************************)
EXTENDS Publish, TLAPS

USE DEF At, Steps

LEMMA AbsentType == Absent \in Dir
  BY DEF Absent, Dir

LEMMA InitInv == Init => IInv
<1> SUFFICES ASSUME Init PROVE IInv
  OBVIOUS
<1>0. broken \in BOOLEAN
  BY DEF Init
<1>1. TypeOK
  BY <1>0, AbsentType, PublishAssumption DEF Init, TypeOK
<1>2. NewInv /\ ServedInv /\ KeptInv
  BY DEF Init, NewInv, ServedInv, KeptInv
<1> QED
  BY <1>1, <1>2 DEF IInv

\* Every step of a build, its start and its death preserve the invariant.
LEMMA StepInv == IInv /\ [Next]_vars => IInv'
<1> SUFFICES ASSUME IInv, [Next]_vars PROVE IInv'
  OBVIOUS
<1> USE PublishAssumption DEF IInv
<1>1. CASE StartBuild
  BY <1>1 DEF StartBuild, TypeOK, NewInv, ServedInv, KeptInv, Dir
<1>2. CASE Clean
  BY <1>2, AbsentType DEF Clean, TypeOK, NewInv, ServedInv, KeptInv
<1>3. CASE MakeNew
  <2>1. Empty \in Dir
    BY DEF Empty, Dir, TypeOK
  <2> QED
    BY <1>3, <2>1 DEF MakeNew, TypeOK, NewInv, ServedInv, KeptInv, Empty
<1>4. ASSUME NEW h \in Hosts, CreateHost(h) PROVE IInv'
  <2>1. new' \in Dir /\ new'.build = new.build
    BY <1>4 DEF CreateHost, TypeOK, Dir
  <2> QED
    BY <1>4, <2>1 DEF CreateHost, TypeOK, NewInv, ServedInv, KeptInv
<1>5. CASE AllCreated
  BY <1>5 DEF AllCreated, TypeOK, NewInv, ServedInv, KeptInv
<1>6. CASE SetGroup
  <2>1. /\ new' \in Dir /\ new'.grouped
        /\ new'.build = new.build /\ new'.hosts = new.hosts
    BY <1>6 DEF SetGroup, TypeOK, Dir
  <2> QED
    BY <1>6, <2>1 DEF SetGroup, TypeOK, NewInv, ServedInv, KeptInv
<1>7. CASE DropOld
  BY <1>7, AbsentType DEF DropOld, TypeOK, NewInv, ServedInv, KeptInv
<1>8. CASE MoveAway
  <2>1. CASE dst # Absent
    BY <1>8, <2>1, AbsentType DEF MoveAway, TypeOK, NewInv, ServedInv, KeptInv
  <2>2. CASE dst = Absent
    BY <1>8, <2>2, AbsentType DEF MoveAway, TypeOK, NewInv, ServedInv, KeptInv
  <2> QED
    BY <2>1, <2>2
<1>9. CASE MoveIn
  <2>1. new # Absent
    BY <1>9 DEF MoveIn, TypeOK, NewInv, ServedInv, Absent, Dir
  <2>2. broken' \in BOOLEAN
    BY <1>9 DEF MoveIn
  <2>3. TypeOK'
    BY <1>9, <2>2, AbsentType DEF MoveIn, TypeOK
  <2>4. NewInv' /\ ServedInv' /\ KeptInv'
    BY <1>9, <2>1 DEF MoveIn, TypeOK, NewInv, ServedInv, KeptInv
  <2> QED
    BY <2>3, <2>4
<1>10. CASE Die
  BY <1>10 DEF Die, TypeOK, NewInv, ServedInv, KeptInv
<1>11. CASE UNCHANGED vars
  BY <1>11 DEF vars, TypeOK, NewInv, ServedInv, KeptInv
<1> QED
  BY <1>1, <1>2, <1>3, <1>4, <1>5, <1>6, <1>7, <1>8, <1>9, <1>10, <1>11 DEF Next, BuildStep

\* What is served, what is set aside and what the build is writing always fit
\* together as IInv says.
THEOREM PublishInvariance == Spec => []IInv
<1>1. Init => IInv
  BY InitInv
<1>2. IInv /\ [Next]_vars => IInv'
  BY StepInv
<1> QED
  BY <1>1, <1>2, PTL DEF Spec

\* A published tree is never lost to a build that fails, other than one that
\* dies between the renames.
THEOREM NothingLost == Spec => []TreeKept
<1>1. IInv => TreeKept
  BY DEF IInv, KeptInv, ServedInv, TreeKept
<1> QED
  BY <1>1, PublishInvariance, PTL

\* A tree is moved in only when it has every host the database lists.
THEOREM WholeTreesOnly == Spec => WholeTree
<1>1. IInv /\ [Next]_vars => [dst' # dst /\ dst' # Absent => dst'.hosts = wanted]_vars
  <2> SUFFICES ASSUME IInv, Next, dst' # dst, dst' # Absent PROVE dst'.hosts = wanted
    BY DEF vars
  <2>1. MoveIn
    BY DEF Next, BuildStep, StartBuild, Clean, MakeNew, CreateHost, AllCreated, SetGroup,
           DropOld, MoveAway, Die
  <2> QED
    BY <2>1 DEF MoveIn, IInv, NewInv
<1> QED
  BY <1>1, PublishInvariance, PTL DEF Spec, WholeTree

\* Each step either leaves what is served alone, takes the tree away (the
\* first rename) or puts that of a newer build in its place (the second).
LEMMA StepRefines == IInv /\ [Next]_vars => [Promise!Next]_<<Tree(dst), served>>
<1> SUFFICES ASSUME IInv, [Next]_vars, <<Tree(dst), served>>' # <<Tree(dst), served>>
             PROVE Promise!Next
  OBVIOUS
<1>0. dst' # dst \/ served' # served
  BY DEF Tree
<1>1. CASE MoveAway
  <2>1. dst # Absent /\ dst' = Absent /\ served' = served
    BY <1>0, <1>1 DEF MoveAway
  <2>2. Tree(dst)' = Promise!NoTree
    BY <2>1 DEF Tree, Absent, Promise!NoTree
  <2>3. Tree(dst) # Promise!NoTree
    BY <2>1 DEF Tree, Promise!NoTree, IInv, ServedInv, TypeOK, Dir
  <2> QED
    BY <2>1, <2>2, <2>3 DEF Promise!Next, Promise!Withdraw
<1>2. CASE MoveIn
  <2>1. builds \in 1..MaxBuilds
    BY <1>2 DEF MoveIn, IInv, TypeOK, ServedInv
  <2> QED
    BY <1>2, <2>1 DEF MoveIn, Promise!Next, Promise!Publish, Promise!NoTree, Tree, Absent,
                      IInv, TypeOK, NewInv, ServedInv, Dir
<1> QED
  BY <1>0, <1>1, <1>2 DEF Next, BuildStep, StartBuild, Clean, MakeNew, CreateHost, AllCreated,
                          SetGroup, DropOld, Die, vars

\* default_command implements PublishedTree: hosts see the whole tree of one
\* build or nothing, and never an older build than before.
THEOREM Refinement == Spec => PublishesWholeTrees
<1>1. Init => Promise!Init
  BY DEF Init, Promise!Init, Promise!NoTree, Tree, Absent
<1>2. IInv /\ [Next]_vars => [Promise!Next]_<<Tree(dst), served>>
  BY StepRefines
<1> QED
  BY <1>1, <1>2, PublishInvariance, PTL DEF Spec, PublishesWholeTrees, Promise!Spec
=============================================================================
