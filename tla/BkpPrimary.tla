----------------------------- MODULE BkpPrimary -----------------------------
(***************************************************************************)
(* The nightly job of the primary backup server:                           *)
(* package_data/bkp/primary.sh.jinja.                                      *)
(*                                                                         *)
(* Each run mirrors every host into a directory named for the time the run *)
(* began, archives the logs it finds there, then moves the link "current"  *)
(* to that directory and pushes what is in it to the secondary.  rsync     *)
(* that fails is logged and the run goes on; the run may be killed at any  *)
(* step, and what it has written by then stays.  The data of the hosts     *)
(* changes between nights: data of night n has a log dated n, and that of  *)
(* the next night no longer has it.                                        *)
(***************************************************************************)
EXTENDS BkpMirror

CONSTANT Rank  \* the order of the hosts in bkp.hosts

ASSUME PrimaryAssumption ==
  /\ Rank \in [Hosts -> Nat]
  /\ \A g, h \in Hosts : Rank[g] = Rank[h] => g = h

VARIABLES
  mirror,    \* mirror_d: the copy of each host in the directory of each run
  current,   \* the night of the directory "current" names, 0 if it is not there
  archived,  \* the nights whose log of each host is in archive_d
  torn,      \* those whose log there is not whole
  night,     \* the night of the last run, primary_curr
  at,        \* its next step, "idle" if it has ended
  todo       \* hosts its loop has not come to

mirrors     == <<mirror, current, archived, torn>>
primaryVars == <<mirrors, pushed, night, at, todo>>

HasLog(c) == c.state \in {"part", "whole"}

First(h) == h \in todo /\ \A g \in todo : Rank[h] <= Rank[g]

\* primary_main: primary_curr is the date.
Begin ==
  /\ at = "idle" /\ night < MaxNights
  /\ night' = night + 1 /\ at' = "copy" /\ todo' = Hosts
  /\ UNCHANGED <<mirrors, pushed>>

\* primary_host: mkdir, and rsync of every bkp_include, which returns success
\* after "FAILED" too.  --link-dest to the copy of the previous night saves
\* space and changes nothing here.
CopyHost(h) ==
  /\ at = "copy" /\ First(h)
  /\ \E c \in {Whole(night), Part(night), Empty} : mirror' = [mirror EXCEPT ![night][h] = c]
  /\ at' = "archive"
  /\ UNCHANGED <<current, archived, torn, pushed, night, todo>>

NextHost(h) ==
  /\ todo' = IF todo = {h} THEN Hosts ELSE todo \ {h}
  /\ at' = IF todo = {h} THEN "unlink" ELSE "copy"

\* Mutant: the logs of a copy that is not whole are left for the next night.
ArchiveLogs_WholeOnly(h) ==
  /\ at = "archive" /\ First(h)
  /\ archived' = IF mirror[night][h].state = "whole"
                   THEN [archived EXCEPT ![h] = @ \cup {night}] ELSE archived
  /\ NextHost(h)
  /\ UNCHANGED <<mirror, current, torn, pushed, night>>

\* primary_archive_logs: install the logs of the copy that are not there yet.
ArchiveLogs(h) ==
  /\ at = "archive" /\ First(h)
  /\ archived' = IF HasLog(mirror[night][h])
                   THEN [archived EXCEPT ![h] = @ \cup {night}] ELSE archived
  /\ NextHost(h)
  /\ UNCHANGED <<mirror, current, torn, pushed, night>>

\* install is killed while it writes; the log is there for every later run.
DieArchiving(h) ==
  /\ at = "archive" /\ First(h) /\ HasLog(mirror[night][h])
  /\ archived' = [archived EXCEPT ![h] = @ \cup {night}]
  /\ torn' = [torn EXCEPT ![h] = @ \cup {night}]
  /\ at' = "idle" /\ todo' = {}
  /\ UNCHANGED <<mirror, current, pushed, night>>

\* primary_set_current: rm -f
Unlink ==
  /\ at = "unlink" /\ at' = "link"
  /\ current' = 0
  /\ UNCHANGED <<mirror, archived, torn, pushed, night, todo>>

\* primary_set_current: ln -s
Link ==
  /\ at = "link" /\ at' = "push"
  /\ current' = night
  /\ UNCHANGED <<mirror, archived, torn, pushed, night, todo>>

\* What rsync --delete of a copy leaves where there was another: the copy, or
\* a mix when it fails, or what there was.
Pushes(c, old) == {c, old, Part(c.of)}

\* primary_secondary, for a host of current/*.*
Push(h) ==
  /\ at = "push" /\ First(h)
  /\ \E c \in Pushes(mirror[current][h], pushed[h]) : pushed' = [pushed EXCEPT ![h] = c]
  /\ todo' = todo \ {h}
  /\ at' = IF todo = {h} THEN "idle" ELSE "push"
  /\ UNCHANGED <<mirrors, night>>

\* The run is killed, or one of its commands fails.
Die ==
  /\ at # "idle" /\ at' = "idle" /\ todo' = {}
  /\ UNCHANGED <<mirrors, pushed, night>>

PrimaryInit ==
  /\ mirror = [n \in Nights |-> [h \in Hosts |-> NoCopy]]
  /\ current = 0 /\ night = 0
  /\ archived = [h \in Hosts |-> {}] /\ torn = [h \in Hosts |-> {}]
  /\ pushed = [h \in Hosts |-> NoCopy]
  /\ at = "idle" /\ todo = {}

PrimaryNext ==
  \/ Begin \/ Unlink \/ Link \/ Die
  \/ \E h \in Hosts : CopyHost(h) \/ ArchiveLogs(h) \/ DieArchiving(h) \/ Push(h)

-----------------------------------------------------------------------------
(* Properties                                                              *)

PrimaryType ==
  /\ mirror \in [Nights -> [Hosts -> Copy]] /\ pushed \in [Hosts -> Copy]
  /\ current \in 0..MaxNights /\ night \in 0..MaxNights
  /\ archived \in [Hosts -> SUBSET Nights] /\ torn \in [Hosts -> SUBSET Nights]
  /\ at \in {"idle", "copy", "archive", "unlink", "link", "push"} /\ todo \subseteq Hosts

\* Run n has copied host h and archived the log that is there.
Reached(n, h) ==
  /\ mirror[n][h].state # "none"
  /\ HasLog(mirror[n][h]) => n \in archived[h]

\* The run that "current" names got to every host and archived the logs it
\* found: wherever a run is killed, and whatever failed in it, no log that is
\* in the copies people restore from is missing from the archive.
CurrentReached == current # 0 => \A h \in Hosts : Reached(current, h)

\* How far a run has got, which has a directory that "current" does not name yet.
ProgressInv ==
  /\ at # "idle" => night # 0
  /\ current <= night
  /\ at \in {"copy", "archive"} =>
       current < night /\ \A h \in Hosts \ todo : Reached(night, h)
  /\ at = "archive" => \A h \in Hosts : First(h) => mirror[night][h].state # "none"
  /\ at \in {"unlink", "link"} => \A h \in Hosts : Reached(night, h)
  /\ at = "push" => current = night

PrimaryInv == PrimaryType /\ CurrentReached /\ ProgressInv
=============================================================================
