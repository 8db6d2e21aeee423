---------------------------- MODULE BkpSecondary ----------------------------
(***************************************************************************)
(* The job of the secondary backup server, which compresses a snapshot of  *)
(* what the primary pushed onto a disk that is then taken away:            *)
(* package_data/bkp/secondary.sh.jinja.                                    *)
(*                                                                         *)
(* The copy takes days and may be killed.  The file RESTART in the         *)
(* snapshot's directory tells the next run to go on with that snapshot;    *)
(* without it a snapshot is made anew, which the job refuses for a week.   *)
(* Between runs the operator changes disks and does what the error         *)
(* messages say.                                                           *)
(***************************************************************************)
EXTENDS BkpMirror

CONSTANTS
  Disks,        \* disks that are mounted at secondary_copy_d
  NoDisk,       \* none is: secondary_copy_d is a directory of the root disk
  Unmounts,     \* there are secondary_copy_unmount_cmds
  MaxSnapshots  \* bound: snapshots made

ASSUME SecondaryAssumption ==
  /\ NoDisk \notin Disks /\ Unmounts \in BOOLEAN /\ MaxSnapshots \in Nat

VARIABLES
  snapshot,  \* the number of the last snapshot begun
  snapDir,   \* there is a secondary_snap
  linked,    \* the hosts cp has got to in it
  held,      \* their copies in it
  aged,      \* it is a week old
  restart,   \* RESTART is in it
  touched,   \* history: the operator made the RESTART that is or was in it
  disk,      \* the files on each disk and in the directory under the mount
  mounted,   \* the disk that is mounted, NoDisk if none is
  mixed,     \* history: disks a run with is_restart found in use by others
  sat,       \* the next step of the job, "idle" if it is not running
  isRestart, \* is_restart_rv
  left       \* hosts that are still to be copied

snap == <<snapshot, snapDir, linked, held>>
secondaryVars == <<snap, aged, restart, touched, disk, mounted, mixed, sat, isRestart, left>>

Snapshots == 1..MaxSnapshots
NoFile == [of |-> 0, copy |-> NoCopy]
File   == [of : 0..MaxSnapshots, copy : Copy]
NoFiles == [h \in Hosts |-> NoFile]

-----------------------------------------------------------------------------
(* _snapshot                                                               *)

\* There is a RESTART: remove it (the directory is new again) and return.
StartReuse ==
  /\ sat = "idle" /\ restart
  /\ sat' = "copy" /\ isRestart' = TRUE /\ left' = linked
  /\ restart' = FALSE /\ aged' = FALSE
  /\ mixed' = IF \E h \in Hosts : disk[mounted][h].of \notin {0, snapshot}
                THEN mixed \cup {mounted} ELSE mixed
  /\ UNCHANGED <<pushed, snap, touched, disk, mounted>>

\* No snapshot, or one that is a week old: make another.  ("snapshot is too
\* new" changes nothing.)
StartFresh ==
  /\ sat = "idle" /\ ~restart /\ (snapDir => aged)
  /\ snapshot < MaxSnapshots /\ snapshot' = snapshot + 1
  /\ sat' = "link" /\ isRestart' = FALSE
  /\ snapDir' = FALSE /\ linked' = {} /\ held' = [h \in Hosts |-> NoCopy]
  /\ aged' = FALSE /\ touched' = FALSE
  /\ UNCHANGED <<pushed, restart, disk, mounted, mixed, left>>

\* cp -al, one host after another.  It fails, and the run with it, if nothing has
\* been pushed: there is no current then.
LinkSnap(h) ==
  /\ sat = "link" /\ h \notin linked /\ \E g \in Hosts : pushed[g] # NoCopy
  /\ snapDir' = TRUE
  /\ linked' = linked \cup {h} /\ held' = [held EXCEPT ![h] = pushed[h]]
  /\ UNCHANGED <<pushed, snapshot, aged, restart, touched, disk, mounted, mixed, sat,
                 isRestart, left>>

\* Mutant: RESTART is made before cp is done.
Touch_First ==
  /\ sat = "link" /\ snapDir /\ ~restart
  /\ restart' = TRUE /\ aged' = FALSE
  /\ sat' = IF linked = Hosts THEN "assert" ELSE "link"
  /\ UNCHANGED <<pushed, snap, touched, disk, mounted, mixed, isRestart, left>>

\* touch RESTART (the directory is new again)
Touch ==
  /\ sat = "link" /\ linked = Hosts
  /\ sat' = "assert" /\ restart' = TRUE /\ aged' = FALSE
  /\ UNCHANGED <<pushed, snap, touched, disk, mounted, mixed, isRestart, left>>

\* Mutant: a disk that has files on it is taken.
AssertCopyDir_MountedOnly ==
  /\ sat = "assert"
  /\ IF mounted # NoDisk
       THEN sat' = "copy" /\ left' = Hosts
       ELSE sat' = "idle" /\ UNCHANGED left
  /\ UNCHANGED <<pushed, snap, aged, restart, touched, disk, mounted, mixed, isRestart>>

\* _assert_copy_d: a file system of its own, with nothing on it
AssertCopyDir ==
  /\ sat = "assert"
  /\ IF mounted # NoDisk /\ disk[mounted] = NoFiles
       THEN sat' = "copy" /\ left' = Hosts
       ELSE sat' = "idle" /\ UNCHANGED left
  /\ UNCHANGED <<pushed, snap, aged, restart, touched, disk, mounted, mixed, isRestart>>

-----------------------------------------------------------------------------
(* _main                                                                   *)

\* Mutant: what is compressed is read from mirror_d/current.
CopyDirs_Current(h) ==
  /\ sat = "copy" /\ h \in left /\ left' = left \ {h}
  /\ IF pushed[h] \in {NoCopy, Empty} \/ (isRestart /\ disk[mounted][h] # NoFile)
       THEN UNCHANGED disk
       ELSE \E file \in {disk[mounted][h], [of |-> snapshot, copy |-> pushed[h]]} :
              disk' = [disk EXCEPT ![mounted][h] = file]
  /\ UNCHANGED <<pushed, snap, aged, restart, touched, mounted, mixed, sat, isRestart>>

\* The directories of a host, if it has files: a restart leaves what is there; else
\* the snapshot's are compressed and moved into place, or, after four tries,
\* "FAILED COPY, continuing".
CopyDirs(h) ==
  /\ sat = "copy" /\ h \in left /\ left' = left \ {h}
  /\ IF held[h] \in {NoCopy, Empty} \/ (isRestart /\ disk[mounted][h] # NoFile)
       THEN UNCHANGED disk
       ELSE \E file \in {disk[mounted][h], [of |-> snapshot, copy |-> held[h]]} :
              disk' = [disk EXCEPT ![mounted][h] = file]
  /\ UNCHANGED <<pushed, snap, aged, restart, touched, mounted, mixed, sat, isRestart>>

\* chmod, and secondary_copy_unmount_cmds, unless find (or the run) fails for want
\* of any directory below those of the hosts
Finish ==
  /\ sat = "copy" /\ left = {} /\ sat' = "idle"
  /\ \E h \in Hosts : held[h] \notin {NoCopy, Empty}
  /\ mounted' = IF Unmounts THEN NoDisk ELSE mounted
  /\ UNCHANGED <<pushed, snap, aged, restart, touched, disk, mixed, isRestart, left>>

\* The job is killed: what it was compressing is in a .tmp that is not used.
Kill ==
  /\ sat # "idle" /\ sat' = "idle"
  /\ UNCHANGED <<pushed, snap, aged, restart, touched, disk, mounted, mixed, isRestart, left>>

-----------------------------------------------------------------------------
(* The operator and time                                                   *)

\* secondary_setup mounts a disk.
Mount(d) ==
  /\ sat = "idle" /\ mounted = NoDisk /\ mounted' = d
  /\ UNCHANGED <<pushed, snap, aged, restart, touched, disk, mixed, sat, isRestart, left>>

\* A disk is taken out and put back empty.
Wipe(d) ==
  /\ sat = "idle" /\ d # mounted
  /\ disk' = [disk EXCEPT ![d] = NoFiles] /\ mixed' = mixed \ {d}
  /\ UNCHANGED <<pushed, snap, aged, restart, touched, mounted, sat, isRestart, left>>

\* "rm -rf $_snap_root_d"
RemoveSnap ==
  /\ sat = "idle" /\ snapDir
  /\ snapDir' = FALSE /\ linked' = {} /\ held' = [h \in Hosts |-> NoCopy] /\ restart' = FALSE
  /\ UNCHANGED <<pushed, snapshot, aged, touched, disk, mounted, mixed, sat, isRestart, left>>

\* "touch $_restart_f"
TouchRestart ==
  /\ sat = "idle" /\ snapDir /\ ~restart
  /\ restart' = TRUE /\ touched' = TRUE /\ aged' = FALSE
  /\ UNCHANGED <<pushed, snap, disk, mounted, mixed, sat, isRestart, left>>

\* A week passes.
Week ==
  /\ snapDir /\ ~aged /\ aged' = TRUE
  /\ UNCHANGED <<pushed, snap, restart, touched, disk, mounted, mixed, sat, isRestart, left>>

SecondaryInit ==
  /\ snapshot = 0 /\ snapDir = FALSE /\ linked = {} /\ held = [h \in Hosts |-> NoCopy]
  /\ aged = FALSE /\ restart = FALSE /\ touched = FALSE
  /\ disk = [d \in Disks \cup {NoDisk} |-> NoFiles] /\ mounted = NoDisk /\ mixed = {}
  /\ sat = "idle" /\ isRestart = FALSE /\ left = {}

SecondaryNext ==
  \/ StartReuse \/ StartFresh \/ Touch \/ AssertCopyDir \/ Finish \/ Kill
  \/ \E h \in Hosts : LinkSnap(h) \/ CopyDirs(h)
  \/ RemoveSnap \/ TouchRestart \/ Week \/ \E d \in Disks : Mount(d) \/ Wipe(d)

-----------------------------------------------------------------------------
(* Properties                                                              *)

SecondaryType ==
  /\ snapshot \in 0..MaxSnapshots /\ snapDir \in BOOLEAN
  /\ linked \subseteq Hosts /\ held \in [Hosts -> Copy]
  /\ aged \in BOOLEAN /\ restart \in BOOLEAN /\ touched \in BOOLEAN
  /\ disk \in [Disks \cup {NoDisk} -> [Hosts -> File]]
  /\ mounted \in Disks \cup {NoDisk} /\ mixed \subseteq Disks \cup {NoDisk}
  /\ sat \in {"idle", "link", "assert", "copy"} /\ isRestart \in BOOLEAN
  /\ left \subseteq Hosts

\* A run copies a whole snapshot, wherever the run that made it was killed,
\* unless the operator made its RESTART.
SnapshotWhole == (sat = "copy" \/ restart) /\ ~touched => linked = Hosts

\* What a run copies is as it was when the snapshot was made: the primary goes
\* on pushing to mirror_d/current for the days the copy takes.
CopiesOfSnapshot ==
  snapDir => \A d \in DOMAIN disk : \A h \in Hosts :
               disk[d][h].of = snapshot => disk[d][h].copy = held[h]

\* The files on a disk are of one snapshot, unless a run with is_restart, which
\* does not look, found it in use.
OneSnapshotPerDisk ==
  \A d \in DOMAIN disk \ mixed : \A g, h \in Hosts :
    disk[d][g] # NoFile /\ disk[d][h] # NoFile => disk[d][g].of = disk[d][h].of

\* What the disks have, and what a run finds on the one it copies to
DisksInv ==
  /\ sat # "idle" \/ snapDir \/ restart => snapshot # 0
  /\ sat = "assert" => linked = Hosts
  /\ \A d \in DOMAIN disk : \A h \in Hosts :
       /\ disk[d][h].of <= snapshot
       /\ sat \in {"link", "assert"} => disk[d][h].of < snapshot
       /\ disk[d][h].of = 0 <=> disk[d][h] = NoFile
  /\ sat = "copy" /\ mounted \notin mixed =>
       \A h \in Hosts : disk[mounted][h].of \in {0, snapshot}

SecondaryInv ==
  SecondaryType /\ SnapshotWhole /\ CopiesOfSnapshot /\ OneSnapshotPerDisk /\ DisksInv

\* "$_copy_d is not on a separate file system; need to run secondary_setup": the
\* job does not write to the file system of the server.
CopiedToDisk == disk[NoDisk] = NoFiles
=============================================================================
