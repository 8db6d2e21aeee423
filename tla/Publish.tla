------------------------------- MODULE Publish -------------------------------
(***************************************************************************)
(* default_command of pkcli/build.py: the trees of all hosts are built     *)
(* beside the served directory, then the directories are exchanged by two  *)
(* renames.  A build may fail (any component may raise) or be killed at    *)
(* any step, and leaves the directories as they are; the next one cleans   *)
(* up first.  The operator runs one build at a time: nothing locks srv.    *)
(***************************************************************************)
EXTENDS Naturals

CONSTANTS
  Hosts,     \* hosts the database may list
  MaxBuilds  \* bound on the number of builds

ASSUME PublishAssumption == MaxBuilds \in Nat

VARIABLES
  dst,    \* dbt.srv_host_d
  new,    \* tmp_d-new
  old,    \* tmp_d-old
  at,     \* where the build is, "idle" if none runs
  wanted, \* hosts of the database the build read
  builds, \* number of builds started
  served, \* history: the newest build that was ever in dst
  broken  \* history: a build died between the two renames, none succeeded since

vars == <<dst, new, old, at, wanted, builds, served, broken>>

Steps == <<"clean", "mkdir", "hosts", "group", "drop", "away", "in">>
At == {"idle"} \cup {Steps[i] : i \in 1..7}

\* A directory: the build that wrote it, the hosts it has so far, and whether
\* srv_group may read it.
Dir == [build : Nat, hosts : SUBSET Hosts, grouped : BOOLEAN]
Absent == [build |-> 0, hosts |-> {}, grouped |-> FALSE]
Empty == [build |-> builds, hosts |-> {}, grouped |-> FALSE]

-----------------------------------------------------------------------------
\* db.T() reads the hosts.
StartBuild ==
  /\ at = "idle" /\ builds < MaxBuilds
  /\ builds' = builds + 1
  /\ wanted' \in SUBSET Hosts
  /\ at' = "clean"
  /\ UNCHANGED <<dst, new, old, served, broken>>

\* unchecked_remove(new_d, old_d)
Clean ==
  /\ at = "clean" /\ at' = "mkdir"
  /\ new' = Absent /\ old' = Absent
  /\ UNCHANGED <<dst, wanted, builds, served, broken>>

\* mkdir_parent(new_d)
MakeNew ==
  /\ at = "mkdir" /\ at' = "hosts"
  /\ new' = Empty
  /\ UNCHANGED <<dst, old, wanted, builds, served, broken>>

\* create_host: see Build
CreateHost(h) ==
  /\ at = "hosts" /\ h \in wanted \ new.hosts
  /\ new' = [new EXCEPT !.hosts = @ \cup {h}]
  /\ UNCHANGED <<dst, old, at, wanted, builds, served, broken>>

\* Mutant: a host that cannot be built is left out.
AllCreated_Skip ==
  /\ at = "hosts" /\ at' = "group"
  /\ UNCHANGED <<dst, new, old, wanted, builds, served, broken>>

\* The loop over channel_hosts is done.
AllCreated ==
  /\ at = "hosts" /\ new.hosts = wanted /\ at' = "group"
  /\ UNCHANGED <<dst, new, old, wanted, builds, served, broken>>

\* chgrp -R srv_group, chmod -R g+rX
SetGroup ==
  /\ at = "group" /\ at' = "drop"
  /\ new' = [new EXCEPT !.grouped = TRUE]
  /\ UNCHANGED <<dst, old, wanted, builds, served, broken>>

\* unchecked_remove(old_d)
DropOld ==
  /\ at = "drop" /\ at' = "away"
  /\ old' = Absent
  /\ UNCHANGED <<dst, new, wanted, builds, served, broken>>

\* Mutant: what is served is removed instead of renamed.
MoveAway_Remove ==
  /\ at = "away" /\ at' = "in"
  /\ dst' = Absent
  /\ UNCHANGED <<new, old, wanted, builds, served, broken>>

\* Mutant: dst_d is renamed without a check that it exists.
MoveAway_Unchecked ==
  /\ at = "away" /\ dst # Absent /\ old = Absent /\ at' = "in"
  /\ old' = dst /\ dst' = Absent
  /\ UNCHANGED <<new, wanted, builds, served, broken>>

\* dst_d.rename(old_d), if there is one; it fails if old_d is still there.
MoveAway ==
  /\ at = "away" /\ at' = "in"
  /\ IF dst # Absent
       THEN old = Absent /\ old' = dst /\ dst' = Absent
       ELSE UNCHANGED <<dst, old>>
  /\ UNCHANGED <<new, wanted, builds, served, broken>>

\* Mutant: the second rename takes the wrong directory.
MoveIn_Old ==
  /\ at = "in" /\ at' = "idle"
  /\ dst' = old /\ old' = Absent
  /\ served' = builds /\ broken' = FALSE
  /\ UNCHANGED <<new, wanted, builds>>

\* new_d.rename(dst_d); it fails if dst_d is still there.
MoveIn ==
  /\ at = "in" /\ dst = Absent /\ at' = "idle"
  /\ dst' = new /\ new' = Absent
  /\ served' = builds /\ broken' = FALSE
  /\ UNCHANGED <<old, wanted, builds>>

\* An exception, a signal or a crash of the build host (the last build of the
\* bound does not die, so that there is a next one after each that does)
Die ==
  /\ at # "idle" /\ builds < MaxBuilds
  /\ at' = "idle"
  /\ broken' = (broken \/ at = "in")
  /\ UNCHANGED <<dst, new, old, wanted, builds, served>>

-----------------------------------------------------------------------------
Init ==
  /\ dst = Absent /\ new = Absent /\ old = Absent
  /\ at = "idle" /\ wanted = {} /\ builds = 0 /\ served = 0 /\ broken = FALSE

BuildStep ==
  \/ Clean \/ MakeNew \/ AllCreated \/ SetGroup \/ DropOld \/ MoveAway \/ MoveIn
  \/ \E h \in Hosts : CreateHost(h)

Next == StartBuild \/ BuildStep \/ Die

Spec == Init /\ [][Next]_vars

\* A build goes on by itself, and the operator starts another one.
FairSpec == Spec /\ WF_vars(BuildStep) /\ WF_vars(StartBuild)

-----------------------------------------------------------------------------
(* Properties                                                              *)

\* Every variable has its type.
TypeOK ==
  /\ dst \in Dir /\ new \in Dir /\ old \in Dir
  /\ at \in At /\ wanted \in SUBSET Hosts
  /\ builds \in 0..MaxBuilds /\ served \in Nat /\ broken \in BOOLEAN

\* Once something has been published there is a whole tree to serve or to go
\* back to, until a build dies between the renames: the next one then begins
\* by removing the only copy.
TreeKept ==
  served > 0 /\ ~broken =>
    /\ dst = Absent => at = "in"
    /\ \E d \in {dst, old} : d.build = served /\ d.grouped

\* Whatever a build that died has left behind, repeating the build in the end
\* serves the newest one: no debris makes the next build fail or stop.
EventuallyServed == <>[](at = "idle" /\ dst.build = MaxBuilds)

Tree(d) == [build |-> d.build, hosts |-> d.hosts]

Promise == INSTANCE PublishedTree
             WITH Builds <- 1..MaxBuilds, tree <- Tree(dst), newest <- served

\* What hosts download is the whole tree of one build, or nothing, and never
\* an older build than before: PublishedTree, with dst as the tree.
PublishesWholeTrees == Promise!Spec

\* The hosts of a tree that has been built are those the database lists.
WholeTree == [][dst' # dst /\ dst' # Absent => dst'.hosts = wanted]_vars

-----------------------------------------------------------------------------
(* The inductive invariant behind the refinement                           *)

\* new is being written by this build, and it is not yet or already readable.
NewInv ==
  /\ at \in {"hosts", "group", "drop", "away", "in"} => new.build = builds
  /\ at \in {"group", "drop", "away", "in"} => new.hosts = wanted
  /\ at \in {"drop", "away", "in"} => new.grouped

\* What is served is a build that ended; nothing is in the way of the new one.
ServedInv ==
  /\ served <= builds /\ (at # "idle" => served < builds)
  /\ dst # Absent => dst.build = served /\ served > 0 /\ dst.grouped
  /\ at = "in" => dst = Absent
  /\ at = "away" => old = Absent

\* The newest tree is in dst, or set aside while the renames are under way.
KeptInv ==
  served > 0 /\ ~broken => IF at = "in" THEN old.build = served /\ old.grouped
                                        ELSE dst # Absent

\* The conjunction that every step preserves.
IInv == TypeOK /\ NewInv /\ ServedInv /\ KeptInv
=============================================================================
