------------------------------ MODULE Bkp_proofs ------------------------------
(***************************************************************************)
(* The properties of the two backup servers for any hosts, disks and       *)
(* number of runs.                                                         *)
(***************************************************************************)
EXTENDS Bkp, TLAPS

LEMMA CopyTypes ==
  /\ NoCopy \in Copy /\ Empty \in Copy
  /\ \A n \in 0..MaxNights : Whole(n) \in Copy /\ Part(n) \in Copy
  BY MirrorAssumption DEF Copy, CopyStates, NoCopy, Empty, Whole, Part

LEMMA CopyTypeStates ==
  /\ NoCopy.state = "none" /\ Empty.state = "empty"
  /\ \A n : Whole(n).state = "whole" /\ Part(n).state = "part"
  BY DEF NoCopy, Empty, Whole, Part

LEMMA FirstIsOne ==
  ASSUME NEW g, NEW h, First(g), First(h), todo \subseteq Hosts
  PROVE  g = h
<1>1. Rank[g] <= Rank[h] /\ Rank[h] <= Rank[g]
  BY DEF First
<1>2. Rank[g] \in Nat /\ Rank[h] \in Nat
  BY PrimaryAssumption DEF First
<1>3. Rank[g] = Rank[h]
  BY <1>1, <1>2
<1> QED
  BY <1>3, PrimaryAssumption DEF First

-----------------------------------------------------------------------------
(* The primary                                                             *)

LEMMA PrimaryInitInv == PrimaryInit => PrimaryInv
<1> SUFFICES ASSUME PrimaryInit PROVE PrimaryInv
  OBVIOUS
<1>1. mirror \in [Nights -> [Hosts -> Copy]] /\ pushed \in [Hosts -> Copy]
  BY CopyTypes DEF PrimaryInit
<1>2. PrimaryType
  BY <1>1, MirrorAssumption DEF PrimaryInit, PrimaryType
<1> QED
  BY <1>2 DEF PrimaryInit, PrimaryInv, CurrentReached, ProgressInv

LEMMA BeginInv == ASSUME PrimaryInv, Begin PROVE PrimaryInv'
<1> USE MirrorAssumption DEF PrimaryInv, PrimaryType, Begin, mirrors
<1>1. PrimaryType'
  OBVIOUS
<1>2. CurrentReached'
  BY DEF CurrentReached, Reached
<1>3. ProgressInv'
  BY DEF ProgressInv
<1> QED
  BY <1>1, <1>2, <1>3

LEMMA CopyHostInv == ASSUME PrimaryInv, NEW h \in Hosts, CopyHost(h) PROVE PrimaryInv'
<1> USE MirrorAssumption DEF PrimaryInv, PrimaryType
<1>1. PICK c \in {Whole(night), Part(night), Empty} : mirror' = [mirror EXCEPT ![night][h] = c]
  BY DEF CopyHost
<1>2. /\ at = "copy" /\ at' = "archive" /\ First(h)
      /\ UNCHANGED <<current, archived, torn, pushed, night, todo>>
  BY DEF CopyHost
<1>3. c \in Copy /\ c.state # "none"
  BY <1>1, CopyTypes, CopyTypeStates
<1>4. night \in Nights /\ current < night
  BY <1>2 DEF ProgressInv, Nights
<1>5. /\ mirror' \in [Nights -> [Hosts -> Copy]]
      /\ mirror'[night][h] = c
      /\ \A n \in Nights : \A g \in Hosts : n # night \/ g # h => mirror'[n][g] = mirror[n][g]
  BY <1>1, <1>3, <1>4
<1>6. PrimaryType'
  BY <1>2, <1>5
<1>7. CurrentReached'
  <2> SUFFICES ASSUME current # 0, NEW g \in Hosts PROVE Reached(current, g)'
    BY <1>2 DEF CurrentReached
  <2>1. mirror'[current][g] = mirror[current][g]
    BY <1>4, <1>5 DEF Nights
  <2> QED
    BY <1>2, <2>1 DEF CurrentReached, Reached
<1>8. ProgressInv'
  <2>1. \A g \in Hosts \ todo : Reached(night, g)'
    BY <1>2, <1>4, <1>5 DEF ProgressInv, Reached, First
  <2>2. \A g \in Hosts : First(g)' => mirror'[night][g].state # "none"
    BY <1>2, <1>3, <1>5, FirstIsOne DEF First
  <2> QED
    BY <1>2, <1>4, <2>1, <2>2 DEF ProgressInv, Nights
<1> QED
  BY <1>6, <1>7, <1>8

LEMMA ArchiveLogsInv == ASSUME PrimaryInv, NEW h \in Hosts, ArchiveLogs(h) PROVE PrimaryInv'
<1> USE MirrorAssumption DEF PrimaryInv, PrimaryType
<1>1. /\ at = "archive" /\ First(h) /\ NextHost(h)
      /\ UNCHANGED <<mirror, current, torn, pushed, night>>
  BY DEF ArchiveLogs
<1>2. night \in Nights /\ current < night
  BY <1>1 DEF ProgressInv, Nights
<1>3. /\ archived' \in [Hosts -> SUBSET Nights]
      /\ \A g \in Hosts : archived[g] \subseteq archived'[g]
      /\ HasLog(mirror[night][h]) => night \in archived'[h]
  BY <1>2 DEF ArchiveLogs
<1>4. PrimaryType'
  BY <1>1, <1>3 DEF NextHost
<1>5. CurrentReached'
  BY <1>1, <1>3 DEF CurrentReached, Reached
<1>6. \A g \in Hosts : Reached(night, g) => Reached(night, g)'
  BY <1>1, <1>3 DEF Reached
<1>7. Reached(night, h)'
  BY <1>1, <1>3 DEF Reached, ProgressInv
<1>8. ProgressInv'
  <2>1. CASE todo = {h}
    <3>1. at' = "unlink" /\ \A g \in Hosts : Reached(night, g)'
      BY <1>1, <1>6, <1>7, <2>1 DEF NextHost, ProgressInv
    <3> QED
      BY <1>1, <1>2, <3>1 DEF ProgressInv, Nights
  <2>2. CASE todo # {h}
    <3>1. at' = "copy" /\ todo' = todo \ {h} /\ \A g \in Hosts \ todo' : Reached(night, g)'
      BY <1>1, <1>6, <1>7, <2>2 DEF NextHost, ProgressInv
    <3> QED
      BY <1>1, <1>2, <3>1 DEF ProgressInv, Nights
  <2> QED
    BY <2>1, <2>2
<1> QED
  BY <1>4, <1>5, <1>8

LEMMA DieArchivingInv == ASSUME PrimaryInv, NEW h \in Hosts, DieArchiving(h) PROVE PrimaryInv'
<1> USE MirrorAssumption DEF PrimaryInv, PrimaryType
<1>1. /\ at = "archive" /\ at' = "idle" /\ todo' = {}
      /\ UNCHANGED <<mirror, current, pushed, night>>
  BY DEF DieArchiving
<1>2. night \in Nights
  BY <1>1 DEF ProgressInv, Nights
<1>3. /\ archived' \in [Hosts -> SUBSET Nights] /\ torn' \in [Hosts -> SUBSET Nights]
      /\ \A g \in Hosts : archived[g] \subseteq archived'[g]
  BY <1>2 DEF DieArchiving
<1> QED
  BY <1>1, <1>3 DEF CurrentReached, Reached, ProgressInv

LEMMA UnlinkInv == ASSUME PrimaryInv, Unlink PROVE PrimaryInv'
  BY MirrorAssumption
     DEF Unlink, PrimaryInv, PrimaryType, CurrentReached, ProgressInv, Reached

LEMMA LinkInv == ASSUME PrimaryInv, Link PROVE PrimaryInv'
  BY MirrorAssumption
     DEF Link, PrimaryInv, PrimaryType, CurrentReached, ProgressInv, Reached

LEMMA PushInv == ASSUME PrimaryInv, NEW h \in Hosts, Push(h) PROVE PrimaryInv'
<1> USE MirrorAssumption DEF PrimaryInv, PrimaryType
<1>1. /\ at = "push" /\ at' \in {"idle", "push"} /\ todo' \subseteq todo
      /\ UNCHANGED <<mirror, current, archived, torn, night>>
  BY DEF Push, mirrors
<1>2. current = night /\ night \in Nights
  BY <1>1 DEF ProgressInv, Nights
<1>3. mirror[current][h] \in Copy /\ pushed[h] \in Copy
  BY <1>2
<1>4. Pushes(mirror[current][h], pushed[h]) \subseteq Copy
  <2>1. mirror[current][h].of \in 0..MaxNights
    BY <1>3 DEF Copy
  <2> QED
    BY <1>3, <2>1, CopyTypes DEF Pushes
<1>5. pushed' \in [Hosts -> Copy]
  BY <1>4 DEF Push
<1> QED
  BY <1>1, <1>5 DEF CurrentReached, Reached, ProgressInv

LEMMA DieInv == ASSUME PrimaryInv, Die PROVE PrimaryInv'
  BY DEF Die, mirrors, PrimaryInv, PrimaryType, CurrentReached, ProgressInv, Reached

LEMMA PrimaryStepInv == PrimaryInv /\ PrimaryNext => PrimaryInv'
  BY BeginInv, CopyHostInv, ArchiveLogsInv, DieArchivingInv, UnlinkInv, LinkInv, PushInv, DieInv
     DEF PrimaryNext

LEMMA PrimaryKept == PrimaryInv /\ UNCHANGED primaryVars => PrimaryInv'
  BY DEF primaryVars, mirrors, PrimaryInv, PrimaryType, CurrentReached, ProgressInv, Reached,
         First

-----------------------------------------------------------------------------
(* The secondary                                                           *)

LEMMA SecondaryInitInv == SecondaryInit => SecondaryInv
<1> SUFFICES ASSUME SecondaryInit PROVE SecondaryInv
  OBVIOUS
<1>1. NoFiles \in [Hosts -> File] /\ \A h \in Hosts : NoFiles[h] = NoFile
  BY CopyTypes, SecondaryAssumption DEF NoFiles, NoFile, File
<1>2. SecondaryType
  <2>1. held \in [Hosts -> Copy]
    BY CopyTypes DEF SecondaryInit
  <2>2. disk \in [Disks \cup {NoDisk} -> [Hosts -> File]]
    BY <1>1 DEF SecondaryInit
  <2>3. snapshot \in 0..MaxSnapshots
    BY SecondaryAssumption DEF SecondaryInit
  <2> QED
    BY <2>1, <2>2, <2>3 DEF SecondaryInit, SecondaryType
<1>3. SnapshotWhole /\ CopiesOfSnapshot
  BY DEF SecondaryInit, SnapshotWhole, CopiesOfSnapshot
<1>4. OneSnapshotPerDisk
  BY <1>1 DEF SecondaryInit, OneSnapshotPerDisk
<1>5. DisksInv
  BY <1>1 DEF SecondaryInit, DisksInv, NoFile
<1> QED
  BY <1>2, <1>3, <1>4, <1>5 DEF SecondaryInv

LEMMA StartReuseInv == ASSUME SecondaryInv, StartReuse PROVE SecondaryInv'
<1> USE SecondaryAssumption DEF SecondaryInv, SecondaryType, StartReuse, snap
<1>1. SecondaryType'
  OBVIOUS
<1>2. SnapshotWhole' /\ CopiesOfSnapshot'
  BY DEF SnapshotWhole, CopiesOfSnapshot
<1>3. OneSnapshotPerDisk'
  BY DEF OneSnapshotPerDisk
<1>4. DisksInv'
  BY DEF DisksInv
<1> QED
  BY <1>1, <1>2, <1>3, <1>4

LEMMA StartFreshInv == ASSUME SecondaryInv, StartFresh PROVE SecondaryInv'
<1> USE SecondaryAssumption DEF SecondaryInv, SecondaryType, StartFresh
<1>1. SecondaryType'
  <2>1. held' \in [Hosts -> Copy]
    BY CopyTypes
  <2>2. snapshot' \in 0..MaxSnapshots
    OBVIOUS
  <2> QED
    BY <2>1, <2>2
<1>2. SnapshotWhole' /\ CopiesOfSnapshot'
  BY DEF SnapshotWhole, CopiesOfSnapshot
<1>3. OneSnapshotPerDisk'
  BY DEF OneSnapshotPerDisk
<1>4. DisksInv'
  <2>1. \A d \in DOMAIN disk : \A h \in Hosts : disk[d][h].of \in Nat /\ disk[d][h].of <= snapshot
    BY DEF DisksInv, File
  <2>2. snapshot \in Nat /\ snapshot' = snapshot + 1
    OBVIOUS
  <2> QED
    BY <2>1, <2>2 DEF DisksInv
<1> QED
  BY <1>1, <1>2, <1>3, <1>4

LEMMA LinkSnapInv ==
  ASSUME SecondaryInv, pushed \in [Hosts -> Copy], NEW h \in Hosts, LinkSnap(h)
  PROVE  SecondaryInv'
<1> USE SecondaryAssumption DEF SecondaryInv, SecondaryType, LinkSnap
<1>1. SecondaryType'
  OBVIOUS
<1>2. SnapshotWhole'
  BY DEF SnapshotWhole
<1>3. CopiesOfSnapshot'
  <2>1. \A d \in DOMAIN disk : \A g \in Hosts : disk[d][g].of \in Nat /\ disk[d][g].of < snapshot
    BY DEF DisksInv, File
  <2> QED
    BY <2>1 DEF CopiesOfSnapshot
<1>4. OneSnapshotPerDisk'
  BY DEF OneSnapshotPerDisk
<1>5. DisksInv'
  BY DEF DisksInv
<1> QED
  BY <1>1, <1>2, <1>3, <1>4, <1>5

LEMMA TouchInv == ASSUME SecondaryInv, Touch PROVE SecondaryInv'
<1>1. SecondaryType'
  BY DEF Touch, snap, SecondaryInv, SecondaryType
<1>2. SnapshotWhole' /\ CopiesOfSnapshot' /\ OneSnapshotPerDisk' /\ DisksInv'
  BY DEF Touch, snap, SecondaryInv, SnapshotWhole, CopiesOfSnapshot, OneSnapshotPerDisk, DisksInv
<1> QED
  BY <1>1, <1>2 DEF SecondaryInv

LEMMA AssertCopyDirInv == ASSUME SecondaryInv, AssertCopyDir PROVE SecondaryInv'
<1> USE DEF SecondaryInv, SecondaryType, AssertCopyDir, snap
<1>1. SecondaryType'
  OBVIOUS
<1>2. SnapshotWhole' /\ CopiesOfSnapshot' /\ OneSnapshotPerDisk'
  BY DEF SnapshotWhole, CopiesOfSnapshot, OneSnapshotPerDisk, DisksInv
<1>3. sat' = "copy" => \A h \in Hosts : disk[mounted][h].of = 0
  BY DEF NoFiles, NoFile
<1>4. DisksInv'
  BY <1>3 DEF DisksInv
<1> QED
  BY <1>1, <1>2, <1>4

LEMMA CopyDirsInv == ASSUME SecondaryInv, NEW h \in Hosts, CopyDirs(h) PROVE SecondaryInv'
<1> USE SecondaryAssumption DEF SecondaryInv, SecondaryType, snap
<1> DEFINE file == [of |-> snapshot, copy |-> held[h]]
<1>1. /\ sat = "copy" /\ left' = left \ {h}
      /\ UNCHANGED <<pushed, snap, aged, restart, touched, mounted, mixed, sat, isRestart>>
  BY DEF CopyDirs
<1>2. snapshot \in Nat /\ snapshot # 0
  BY <1>1 DEF DisksInv
<1>3. file \in File /\ file.of = snapshot /\ file.copy = held[h] /\ file # NoFile
  BY <1>2 DEF File, NoFile
<1>4. /\ disk' \in [Disks \cup {NoDisk} -> [Hosts -> File]]
      /\ disk'[mounted][h] \in {disk[mounted][h], file}
      /\ \A d \in DOMAIN disk : \A g \in Hosts :
           d # mounted \/ g # h => disk'[d][g] = disk[d][g]
  BY <1>3 DEF CopyDirs
<1>5. SecondaryType'
  BY <1>1, <1>4
<1>6. SnapshotWhole'
  BY <1>1 DEF SnapshotWhole
<1>7. CopiesOfSnapshot'
  BY <1>1, <1>3, <1>4 DEF CopiesOfSnapshot
<1>8. \A d \in DOMAIN disk : \A g \in Hosts :
        disk'[d][g] = disk[d][g] \/ (d = mounted /\ disk'[d][g] = file)
  BY <1>4
<1>9. DisksInv'
  BY <1>1, <1>2, <1>3, <1>4, <1>8 DEF DisksInv
<1>10. OneSnapshotPerDisk'
  <2> SUFFICES ASSUME NEW d \in DOMAIN disk \ mixed, NEW f \in Hosts, NEW g \in Hosts,
                      disk'[d][f] # NoFile, disk'[d][g] # NoFile
               PROVE  disk'[d][f].of = disk'[d][g].of
    BY <1>1, <1>4 DEF OneSnapshotPerDisk
  <2>1. CASE d = mounted
    BY <1>1, <1>4, <1>9, <2>1 DEF DisksInv
  <2>2. CASE d # mounted
    BY <1>8, <2>2 DEF OneSnapshotPerDisk
  <2> QED
    BY <2>1, <2>2
<1> QED
  BY <1>5, <1>6, <1>7, <1>9, <1>10

LEMMA FinishInv == ASSUME SecondaryInv, Finish PROVE SecondaryInv'
  BY DEF Finish, snap, SecondaryInv, SecondaryType, SnapshotWhole, CopiesOfSnapshot,
         OneSnapshotPerDisk, DisksInv

LEMMA KillInv == ASSUME SecondaryInv, Kill PROVE SecondaryInv'
  BY DEF Kill, snap, SecondaryInv, SecondaryType, SnapshotWhole, CopiesOfSnapshot,
         OneSnapshotPerDisk, DisksInv

LEMMA MountInv == ASSUME SecondaryInv, NEW d \in Disks, Mount(d) PROVE SecondaryInv'
  BY DEF Mount, snap, SecondaryInv, SecondaryType, SnapshotWhole, CopiesOfSnapshot,
         OneSnapshotPerDisk, DisksInv

LEMMA WipeInv == ASSUME SecondaryInv, NEW d \in Disks, Wipe(d) PROVE SecondaryInv'
<1> USE SecondaryAssumption DEF SecondaryInv, SecondaryType, Wipe, snap
<1>1. NoFiles \in [Hosts -> File] /\ \A h \in Hosts : NoFiles[h] = NoFile
  BY CopyTypes DEF NoFiles, NoFile, File
<1>2. /\ disk' \in [Disks \cup {NoDisk} -> [Hosts -> File]]
      /\ \A e \in DOMAIN disk : \A h \in Hosts :
           disk'[e][h] = IF e = d THEN NoFile ELSE disk[e][h]
  BY <1>1
<1>3. NoFile.of = 0
  BY DEF NoFile
<1>4. SecondaryType'
  BY <1>2
<1>5. SnapshotWhole'
  BY DEF SnapshotWhole
<1>6. CopiesOfSnapshot'
  BY <1>2, <1>3 DEF CopiesOfSnapshot, DisksInv
<1>7. OneSnapshotPerDisk'
  BY <1>2 DEF OneSnapshotPerDisk
<1>8. DisksInv'
  BY <1>2, <1>3 DEF DisksInv
<1> QED
  BY <1>4, <1>5, <1>6, <1>7, <1>8

LEMMA RemoveSnapInv == ASSUME SecondaryInv, RemoveSnap PROVE SecondaryInv'
<1>1. held' \in [Hosts -> Copy]
  BY CopyTypes DEF RemoveSnap
<1>2. SecondaryType'
  BY <1>1 DEF RemoveSnap, SecondaryInv, SecondaryType
<1> QED
  BY <1>2 DEF RemoveSnap, SecondaryInv, SnapshotWhole, CopiesOfSnapshot, OneSnapshotPerDisk,
              DisksInv

LEMMA TouchRestartInv == ASSUME SecondaryInv, TouchRestart PROVE SecondaryInv'
<1>1. SecondaryType'
  BY DEF TouchRestart, snap, SecondaryInv, SecondaryType
<1>2. SnapshotWhole' /\ CopiesOfSnapshot' /\ OneSnapshotPerDisk' /\ DisksInv'
  BY DEF TouchRestart, snap, SecondaryInv, SnapshotWhole, CopiesOfSnapshot, OneSnapshotPerDisk, DisksInv
<1> QED
  BY <1>1, <1>2 DEF SecondaryInv

LEMMA WeekInv == ASSUME SecondaryInv, Week PROVE SecondaryInv'
  BY DEF Week, snap, SecondaryInv, SecondaryType, SnapshotWhole, CopiesOfSnapshot,
         OneSnapshotPerDisk, DisksInv

LEMMA SecondaryStepInv ==
  SecondaryInv /\ pushed \in [Hosts -> Copy] /\ SecondaryNext => SecondaryInv'
  BY StartReuseInv, StartFreshInv, LinkSnapInv, TouchInv, AssertCopyDirInv, CopyDirsInv,
     FinishInv, KillInv, MountInv, WipeInv, RemoveSnapInv, TouchRestartInv, WeekInv
     DEF SecondaryNext

LEMMA SecondaryKept == SecondaryInv /\ UNCHANGED secondaryVars => SecondaryInv'
  BY DEF secondaryVars, snap, SecondaryInv, SecondaryType, SnapshotWhole, CopiesOfSnapshot,
         OneSnapshotPerDisk, DisksInv

-----------------------------------------------------------------------------
(* Together                                                                *)

THEOREM Invariant == Spec => []IInv
<1>1. Init => IInv
  BY PrimaryInitInv, SecondaryInitInv DEF Init, IInv
<1>2. IInv /\ [Next]_vars => IInv'
  <2> SUFFICES ASSUME IInv, [Next]_vars PROVE IInv'
    OBVIOUS
  <2>1. CASE Primary
    BY <2>1, PrimaryStepInv, SecondaryKept DEF Primary, IInv
  <2>2. CASE Secondary
    BY <2>2, SecondaryStepInv, PrimaryKept DEF Secondary, IInv, PrimaryInv, PrimaryType
  <2>3. CASE UNCHANGED vars
    BY <2>3, PrimaryKept, SecondaryKept DEF vars, IInv
  <2> QED
    BY <2>1, <2>2, <2>3 DEF Next
<1> QED
  BY <1>1, <1>2, PTL DEF Spec

\* Every variable has its type (primary.sh.jinja, secondary.sh.jinja).
THEOREM Types == Spec => []TypeOK
  BY Invariant, PTL DEF IInv, PrimaryInv, SecondaryInv, TypeOK

\* The run that "current" names got to every host, and its logs are archived.
THEOREM CurrentIsReached == Spec => []CurrentReached
  BY Invariant, PTL DEF IInv, PrimaryInv

\* A run of the secondary copies a whole snapshot.
THEOREM WholeSnapshots == Spec => []SnapshotWhole
  BY Invariant, PTL DEF IInv, SecondaryInv

\* What it copies is as it was when the snapshot was made.
THEOREM CopiesAreOfSnapshot == Spec => []CopiesOfSnapshot
  BY Invariant, PTL DEF IInv, SecondaryInv

\* The files on a disk are of one snapshot.
THEOREM DisksNotMixed == Spec => []OneSnapshotPerDisk
  BY Invariant, PTL DEF IInv, SecondaryInv
=============================================================================
