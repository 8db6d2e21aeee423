------------------------------- MODULE HostRun -------------------------------
(***************************************************************************)
(* One managed host and the agent that configures it:                      *)
(* package_data/rsconf/rsconf.sh, rsconf_main and everything named         *)
(* rsconf_service_*.                                                       *)
(*                                                                         *)
(* A run evaluates 000.sh of the published tree, which requires components *)
(* one after the other.  A component is a list of commands: it prepares    *)
(* services, installs files, pulls images and may restart what was         *)
(* prepared so far.  At the end of the run every prepared service is       *)
(* (re)started if what it watches has changed.  All the bookkeeping of the *)
(* run lives in bash arrays: it is lost when the run fails, while the      *)
(* files it has already moved into place stay.                             *)
(***************************************************************************)
EXTENDS Naturals, Sequences, ScriptShape

CONSTANTS
  Services,   \* systemd units (and the pseudo service Reboot)
  Reboot,     \* the service named "reboot", which is not a unit
  Files,      \* installed files; a watched directory is the files below it
  Images,     \* docker images
  ImageOf,    \* the images the container of a service runs
  Contents,   \* contents of files and image ids
  Absent,     \* the content of a file or image the host does not have
  Components, \* names of the scripts of a tree
  Trees       \* the trees the build may publish for this host

Paths == Files \cup Images

(***************************************************************************)
(* The commands a component script is made of.  Paths are abstract: the    *)
(* watch list of rsconf_service_prepare is the set of files it covers.     *)
(***************************************************************************)
Op == [kind : {"prepare"}, svc : Services, watch : SUBSET Files]
      \cup [kind : {"install"}, file : Files]
      \cup [kind : {"pull"}, svc : Services \ {Reboot}, image : Images]
      \cup [kind : {"defer", "trigger"}, svc : Services]
      \cup [kind : {"restart"}]

Tree == [requires : Seq(Components),
         body     : [Components -> Seq(Op)],
         content  : [Files -> Contents]]

ASSUME HostAssumption ==
  /\ Reboot \in Services
  /\ Files \cap Images = {}
  /\ Absent \notin Contents
  /\ Contents # {}
  /\ ImageOf \in [Services -> SUBSET Images]
  /\ Trees \subseteq Tree /\ Trees # {}

VARIABLES
  built,      \* the tree the build host serves
  registry,   \* the id of each image in the docker registry
  \* the host: survives a failed run
  disk,       \* content of each file, id of each local image
  up,         \* units that are active
  loaded,     \* what the disk held when an active unit was started
  enabled,    \* units systemd starts at boot
  \* the run: dynamically scoped variables of rsconf_main
  phase,      \* "idle", "script", "pass" (in rsconf_service_restart) or "done"
  todo,       \* rsconf_require lines of 000.sh still to run
  ran,        \* components whose function is defined
  body,       \* commands of the current component still to run
  md5,        \* contents the md5s in the current component were taken from
  status,     \* rsconf_service_status
  order,      \* rsconf_service_order
  watch,      \* rsconf_service_watch
  changed,    \* keys of rsconf_service_file_changed
  deferred,   \* keys of rsconf_service_restart_at_end
  atEnd,      \* rsconf_at_end is set
  noRestart,  \* rsconf_service_no_restart is set
  pos,        \* position of the loop over rsconf_service_order
  step,       \* where the loop body is, for the service at pos
  \* history
  bounced,    \* how often the run has started each unit
  excused,    \* files each unit may go on running with an old version of
  failed      \* a run failed after it changed files; no boot since

published == <<built, registry>>
unit      == <<up, loaded, enabled>>
host      == <<disk, unit>>
script    == <<todo, ran, body, md5>>
services  == <<status, order, watch, changed, deferred>>
pass      == <<atEnd, pos, step>>
history   == <<bounced, excused, failed>>
vars == <<published, host, phase, script, services, noRestart, pass, history>>

\* The files a running unit has an older version of than the disk.
Stale(s) == {f \in Paths : s \in up /\ loaded[s][f] # disk[f]}

Prepared(s) == \E i \in DOMAIN order : order[i] = s

StatusNone == [s \in Services |-> "none"]
EmptyEach  == [s \in Services |-> {}]
NoMd5      == [f \in Files |-> Absent]
Nothing    == [f \in Paths |-> Absent]
NoStarts   == [s \in Services |-> 0]

-----------------------------------------------------------------------------
(* The build host and the registry, as the host sees them.                 *)

\* default_command publishes another tree; see Publish for how.
PublishTree ==
  /\ built' \in Trees \ {built}
  /\ UNCHANGED <<registry, host, phase, script, services, noRestart, pass, history>>

\* Somebody pushes a new image.
PushImage(i, c) ==
  /\ registry[i] # c
  /\ registry' = [registry EXCEPT ![i] = c]
  /\ UNCHANGED <<built, host, phase, script, services, noRestart, pass, history>>

-----------------------------------------------------------------------------
(* rsconf_main                                                             *)

\* Declare the arrays and evaluate 000.sh.  n: rsconf_service_no_restart is
\* in the environment.
StartRun(n) ==
  /\ phase = "idle"
  /\ phase' = "script"
  /\ noRestart' = n
  /\ todo' = built.requires
  /\ excused' = [s \in Services |-> Stale(s)]
  /\ UNCHANGED <<published, host, ran, body, md5, services, pass, bounced, failed>>

\* The arrays go away with the shell.
ForgetRun ==
  /\ phase' = "idle"
  /\ todo' = <<>> /\ body' = <<>> /\ ran' = {} /\ md5' = NoMd5
  /\ status' = StatusNone /\ order' = <<>> /\ watch' = EmptyEach
  /\ changed' = {} /\ deferred' = {}
  /\ atEnd' = FALSE /\ noRestart' = FALSE /\ pos' = 1 /\ step' = "check"
  /\ bounced' = NoStarts /\ excused' = EmptyEach

\* The run ends before "rsconf-end".
EndRun ==
  /\ ForgetRun
  /\ failed' = (failed \/ changed # {})
  /\ UNCHANGED <<published, host>>

\* A failed download or unit, install_err anywhere, or a lost connection.
Abort ==
  /\ phase \in {"script", "pass"}
  /\ EndRun

\* rsconf_main returns after "rsconf-end".
Exit ==
  /\ phase = "done"
  /\ ForgetRun
  /\ failed' = (failed \/ (noRestart /\ changed # {}))
  /\ UNCHANGED <<published, host>>

\* rsconf_require: download and evaluate a component, once.
Require ==
  /\ phase = "script" /\ body = <<>> /\ todo # <<>>
  /\ todo' = Tail(todo)
  /\ LET c == Head(todo) IN
       IF c \in ran
         THEN UNCHANGED <<ran, body, md5>>
         ELSE /\ ran' = ran \cup {c}
              /\ body' = built.body[c]
              /\ md5' = built.content
  /\ UNCHANGED <<published, host, phase, services, noRestart, pass, history>>

\* rsconf_at_end=1 rsconf_service_restart
FinalRestart ==
  /\ phase = "script" /\ body = <<>> /\ todo = <<>>
  /\ IF noRestart
       THEN phase' = "done" /\ UNCHANGED pass
       ELSE phase' = "pass" /\ atEnd' = TRUE /\ pos' = 1 /\ step' = "check"
  /\ UNCHANGED <<published, host, script, services, noRestart, history>>

-----------------------------------------------------------------------------
(* The commands of a component                                             *)

Command(kind) ==
  /\ phase = "script" /\ body # <<>>
  /\ Head(body).kind = kind
  /\ body' = Tail(body)
  /\ UNCHANGED <<published, todo, ran, md5, noRestart, pass>>

\* Mutant: prepare may be called again for any service.
Prepare_Again ==
  /\ Command("prepare")
  /\ LET s == Head(body).svc  w == Head(body).watch IN
       /\ status' = [status EXCEPT ![s] = "start"]
       /\ order' = Append(order, s)
       /\ deferred' = IF s = Reboot THEN deferred \cup {s} ELSE deferred
       /\ watch' = [watch EXCEPT ![s] = w]
  /\ UNCHANGED <<host, phase, changed, history>>

\* rsconf_service_prepare: status becomes start whatever it was; only reboot
\* may be prepared again.
Prepare ==
  /\ Command("prepare")
  /\ LET s == Head(body).svc  w == Head(body).watch IN
       /\ s = Reboot \/ ~Prepared(s)
       /\ status' = [status EXCEPT ![s] = "start"]
       /\ order' = IF Prepared(s) THEN order ELSE Append(order, s)
       /\ deferred' = IF s = Reboot THEN deferred \cup {s} ELSE deferred
       /\ watch' = [watch EXCEPT ![s] = watch[s] \cup w]
  /\ UNCHANGED <<host, phase, changed, history>>

\* "rsconf_service_prepare is not re-entrant"
NotReentrant ==
  /\ phase = "script" /\ body # <<>> /\ Head(body).kind = "prepare"
  /\ Head(body).svc # Reboot /\ Prepared(Head(body).svc)
  /\ EndRun

\* rsconf_service_restart_at_end
RestartAtEnd ==
  /\ Command("defer")
  /\ deferred' = deferred \cup {Head(body).svc}
  /\ UNCHANGED <<host, phase, status, order, watch, changed, history>>

\* Mutant: the file is replaced and rsconf_service_file_changed is not called.
Install_Unnoted ==
  /\ Command("install")
  /\ LET f == Head(body).file IN
       disk' = IF disk[f] = md5[f] THEN disk ELSE [disk EXCEPT ![f] = built.content[f]]
  /\ UNCHANGED <<unit, phase, status, order, watch, changed, deferred, history>>

\* rsconf_install_file: nothing if the md5 in the script is that of the file
\* on disk, else what the build host serves now is moved into place.
Install ==
  /\ Command("install")
  /\ LET f == Head(body).file IN
       IF disk[f] = md5[f]
         THEN UNCHANGED <<disk, changed, excused>>
         ELSE /\ disk' = [disk EXCEPT ![f] = built.content[f]]
              /\ changed' = changed \cup {f}
              /\ excused' = [s \in Services |->
                               IF status[s] = "active" THEN excused[s] \cup {f}
                                                       ELSE excused[s]]
  /\ UNCHANGED <<unit, phase, status, order, watch, deferred, bounced, failed>>

TriggerStatus(s) ==
  IF status[s] \in {"active", "restart"}
    THEN status
    ELSE [status EXCEPT ![s] = "restart"]

\* rsconf_service_trigger_restart of a unit; of reboot it ends the run
TriggerRestart ==
  /\ Command("trigger")
  /\ Head(body).svc # Reboot
  /\ status' = TriggerStatus(Head(body).svc)
  /\ UNCHANGED <<host, phase, order, watch, changed, deferred, history>>

\* Mutant: only the ids of the image before and after the pull are compared.
DockerPull_NewOnly ==
  /\ Command("pull")
  /\ LET s == Head(body).svc
         i == Head(body).image
         isNew == disk[i] # registry[i]
         willRestart == Prepared(s) /\ status[s] # "active"
     IN
       /\ disk' = [disk EXCEPT ![i] = registry[i]]
       /\ status' = IF isNew THEN TriggerStatus(s) ELSE status
       /\ excused' = [x \in Services |->
                        IF x = s /\ willRestart THEN excused[x] \ {i}
                        ELSE IF isNew THEN excused[x] \cup {i}
                        ELSE excused[x]]
  /\ UNCHANGED <<unit, phase, order, watch, changed, deferred, bounced, failed>>

\* rsconf_service_docker_pull: restart if the pull brought a new image or the
\* container runs another one.
DockerPull ==
  /\ Command("pull")
  /\ LET s == Head(body).svc
         i == Head(body).image
         isNew == disk[i] # registry[i]
         isOther == s \in up /\ loaded[s][i] # registry[i]
         willRestart == Prepared(s) /\ status[s] # "active"
     IN
       /\ disk' = [disk EXCEPT ![i] = registry[i]]
       /\ status' = IF isNew \/ isOther THEN TriggerStatus(s) ELSE status
       /\ excused' = [x \in Services |->
                        IF x = s /\ willRestart THEN excused[x] \ {i}
                        ELSE IF isNew THEN excused[x] \cup {i}
                        ELSE excused[x]]
  /\ UNCHANGED <<unit, phase, order, watch, changed, deferred, bounced, failed>>

\* rsconf_service_restart in the middle of a script
RestartNow ==
  /\ phase = "script" /\ body # <<>> /\ Head(body).kind = "restart"
  /\ body' = Tail(body)
  /\ IF noRestart
       THEN UNCHANGED <<phase, pass>>
       ELSE phase' = "pass" /\ atEnd' = FALSE /\ pos' = 1 /\ step' = "check"
  /\ UNCHANGED <<published, host, todo, ran, md5, services, noRestart, history>>

-----------------------------------------------------------------------------
(* The loop of rsconf_service_restart                                      *)

AtCheck(s) ==
  /\ phase = "pass" /\ step = "check"
  /\ pos \in DOMAIN order /\ s = order[pos]

\* Mutant: the watch list is checked whatever the status is.
Checked_Again(s) == IF watch[s] \cap changed # {} THEN "restart" ELSE status[s]

\* rsconf_service_file_changed_check
Checked(s) ==
  IF status[s] = "start" /\ watch[s] \cap changed # {} THEN "restart" ELSE status[s]

\* Mutants: deferred services are never left for the end, or always.
LeftForEnd_Never(s) == FALSE

LeftForEnd_Always(s) == s \in deferred

\* rsconf_service_restart_at_end, before the end
LeftForEnd(s) == ~atEnd /\ s \in deferred

\* Mutant: the test for reboot comes before the check of its watch list.
SkipService_Reboot(s) ==
  /\ AtCheck(s)
  /\ LeftForEnd(s) \/ s = Reboot \/ Checked(s) = "active"
  /\ pos' = pos + 1
  /\ UNCHANGED <<published, host, phase, script, services, noRestart, atEnd, step, history>>

\* Mutant: a unit that is down and not enabled is left to somebody else.
SkipService_Disabled(s) ==
  /\ AtCheck(s)
  /\ \/ LeftForEnd(s) \/ Checked(s) = "active"
     \/ s = Reboot /\ Checked(s) # "restart"
     \/ Checked(s) = "start" /\ s \notin enabled
  /\ pos' = pos + 1
  /\ UNCHANGED <<published, host, phase, script, services, noRestart, atEnd, step, history>>

\* continue: not before the end, nothing to reboot for, or already active
SkipService(s) ==
  /\ AtCheck(s)
  /\ LeftForEnd(s) \/ Checked(s) = "active" \/ (s = Reboot /\ Checked(s) # "restart")
  /\ pos' = pos + 1
  /\ UNCHANGED <<published, host, phase, script, services, noRestart, atEnd, step, history>>

\* rsconf_reboot: "rsconf-reboot-required" is an error
RebootRequired ==
  /\ \/ AtCheck(Reboot) /\ ~LeftForEnd(Reboot) /\ Checked(Reboot) = "restart"
     \/ /\ phase = "script" /\ body # <<>> /\ Head(body).kind = "trigger"
        /\ Head(body).svc = Reboot
  /\ EndRun

\* rsconf_systemctl restart stops first
StopUnit(s) ==
  /\ AtCheck(s) /\ s # Reboot /\ ~LeftForEnd(s)
  /\ Checked(s) = "restart"
  /\ status' = [status EXCEPT ![s] = "restart"]
  /\ up' = up \ {s} /\ loaded' = [loaded EXCEPT ![s] = Nothing]
  /\ step' = "start"
  /\ UNCHANGED <<published, disk, enabled, phase, script, order, watch, changed,
                 deferred, noRestart, atEnd, pos, history>>

\* Mutant: wait for the unit to become active.
CheckActive_Waits(s) ==
  /\ AtCheck(s) /\ s # Reboot /\ ~LeftForEnd(s)
  /\ Checked(s) = "start" /\ s \in up
  /\ step' = "disable" /\ status' = [status EXCEPT ![s] = "active"]
  /\ UNCHANGED <<published, host, phase, script, order, watch, changed,
                 deferred, noRestart, atEnd, pos, history>>

\* Mutant: a unit whose files have not changed is taken to be active.
CheckActive_Assumed(s) ==
  /\ AtCheck(s) /\ s # Reboot /\ ~LeftForEnd(s)
  /\ Checked(s) = "start"
  /\ step' = "disable" /\ status' = [status EXCEPT ![s] = "active"]
  /\ UNCHANGED <<published, host, phase, script, order, watch, changed,
                 deferred, noRestart, atEnd, pos, history>>

\* status start: rsconf_systemctl is-active decides whether to start it
CheckActive(s) ==
  /\ AtCheck(s) /\ s # Reboot /\ ~LeftForEnd(s)
  /\ Checked(s) = "start"
  /\ IF s \in up
       THEN step' = "disable" /\ status' = [status EXCEPT ![s] = "active"]
       ELSE step' = "start" /\ UNCHANGED status
  /\ UNCHANGED <<published, host, phase, script, order, watch, changed,
                 deferred, noRestart, atEnd, pos, history>>

\* systemctl start (if it fails: Abort)
StartUnit(s) ==
  /\ phase = "pass" /\ step = "start" /\ s = order[pos]
  /\ up' = up \cup {s}
  /\ loaded' = [loaded EXCEPT ![s] = disk]
  /\ status' = [status EXCEPT ![s] = "active"]
  /\ step' = "disable"
  /\ bounced' = [bounced EXCEPT ![s] = @ + 1]
  /\ excused' = [excused EXCEPT ![s] = {}]
  /\ UNCHANGED <<published, disk, enabled, phase, script, order, watch, changed,
                 deferred, noRestart, atEnd, pos, failed>>

\* rsconf_systemctl enable disables all instances first, ...
DisableUnit(s) ==
  /\ phase = "pass" /\ step = "disable" /\ s = order[pos]
  /\ enabled' = enabled \ {s}
  /\ step' = "enable"
  /\ UNCHANGED <<published, disk, up, loaded, phase, script, services, noRestart, atEnd, pos,
                 history>>

\* ... then enables the ones wanted, which ends this turn of the loop.
EnableUnit(s) ==
  /\ phase = "pass" /\ step = "enable" /\ s = order[pos]
  /\ enabled' = enabled \cup {s}
  /\ step' = "check" /\ pos' = pos + 1
  /\ UNCHANGED <<published, disk, up, loaded, phase, script, services, noRestart, atEnd,
                 history>>

\* rsconf_service_restart returns
EndPass ==
  /\ phase = "pass" /\ step = "check" /\ pos > Len(order)
  /\ phase' = IF atEnd THEN "done" ELSE "script"
  /\ UNCHANGED <<published, host, script, services, noRestart, pass, history>>

-----------------------------------------------------------------------------
(* What happens to a host besides runs                                     *)

Crash(s) ==
  /\ s \in up
  /\ up' = up \ {s} /\ loaded' = [loaded EXCEPT ![s] = Nothing]
  /\ UNCHANGED <<published, disk, enabled, phase, script, services, noRestart, pass,
                 history>>

\* The operator boots the host: systemd starts what is enabled.
Boot ==
  /\ ForgetRun
  /\ up' = enabled
  /\ loaded' = [s \in Services |-> IF s \in enabled THEN disk ELSE Nothing]
  /\ failed' = FALSE
  /\ UNCHANGED <<published, disk, enabled>>

-----------------------------------------------------------------------------
Init ==
  /\ built \in Trees
  /\ registry \in [Images -> Contents]
  /\ disk = Nothing
  /\ up = {} /\ enabled = {}
  /\ loaded = [s \in Services |-> Nothing]
  /\ phase = "idle"
  /\ todo = <<>> /\ body = <<>> /\ ran = {} /\ md5 = NoMd5
  /\ status = StatusNone /\ order = <<>> /\ watch = EmptyEach
  /\ changed = {} /\ deferred = {}
  /\ atEnd = FALSE /\ noRestart = FALSE /\ pos = 1 /\ step = "check"
  /\ bounced = NoStarts /\ excused = EmptyEach /\ failed = FALSE

\* What the shell does next, once a run has started
RunStep ==
  \/ Exit \/ Require \/ FinalRestart \/ EndPass
  \/ Prepare \/ NotReentrant \/ RestartAtEnd \/ Install
  \/ TriggerRestart \/ DockerPull \/ RestartNow \/ RebootRequired
  \/ \E s \in Services : \/ SkipService(s) \/ StopUnit(s) \/ CheckActive(s)
                          \/ StartUnit(s) \/ DisableUnit(s) \/ EnableUnit(s)

Trouble ==
  \/ Abort \/ PublishTree \/ Boot
  \/ \E i \in Images, c \in Contents : PushImage(i, c)
  \/ \E s \in Services : Crash(s)

Next == RunStep \/ Trouble \/ \E n \in BOOLEAN : StartRun(n)

Spec == Init /\ [][Next]_vars

\* The shell goes on by itself; the operator runs rsconf again and again, not
\* always with rsconf_service_no_restart.
FairSpec == Spec /\ WF_vars(RunStep) /\ SF_vars(StartRun(FALSE))

-----------------------------------------------------------------------------
(* Properties                                                              *)

Contents0 == Contents \cup {Absent}

HostType ==
  /\ built \in Trees /\ registry \in [Images -> Contents]
  /\ disk \in [Paths -> Contents0] /\ loaded \in [Services -> [Paths -> Contents0]]
  /\ up \subseteq Services /\ enabled \subseteq Services
  /\ failed \in BOOLEAN

ScriptType ==
  /\ phase \in {"idle", "script", "pass", "done"}
  /\ todo \in Seq(Components) /\ ran \subseteq Components
  /\ body \in Seq(Op) /\ md5 \in [Files -> Contents0]
  /\ noRestart \in BOOLEAN

ServicesType ==
  /\ status \in [Services -> {"none", "start", "restart", "active"}]
  /\ order \in Seq(Services) /\ watch \in [Services -> SUBSET Files]
  /\ changed \subseteq Files /\ deferred \subseteq Services
  /\ bounced \in [Services -> Nat] /\ excused \in [Services -> SUBSET Paths]

PassType ==
  /\ atEnd \in BOOLEAN /\ pos \in Nat \ {0}
  /\ step \in {"check", "start", "disable", "enable"}

\* Every variable has its type.
TypeOK == HostType /\ ScriptType /\ ServicesType /\ PassType

\* rsconf_main got to "rsconf-end" and was not told to leave services alone.
Completed == phase = "done" /\ ~noRestart

PreparedUnits == {s \in Services \ {Reboot} : Prepared(s)}

\* "Only one re/start per install": however often the scripts restart in the
\* middle, trigger, pull and reinstall, and whatever crashes meanwhile, a run
\* starts no unit twice.
OneStartPerRun == \A s \in Services : bounced[s] <= 1

\* A run that completes has dealt with every unit it prepared: each is active
\* in rsconf_service_status and enabled at boot.
CompletedRunCoversAll ==
  Completed => \A s \in PreparedUnits : status[s] = "active" /\ s \in enabled

\* After a completed run a unit runs with the current version of all it
\* watches and of its images, except what it already ran with when the run
\* started, what changed after its own restart in the run, and an image that
\* another unit's pull replaced after its own pull.
FreshOrExcused ==
  Completed => \A s \in PreparedUnits :
                 Stale(s) \cap (watch[s] \cup ImageOf[s]) \subseteq excused[s]

\* The only way to be left with a unit that runs with an old configuration is
\* a run that failed (or was told not to restart) after it changed files.
StaleOnlyAfterFailure ==
  Completed /\ ~failed => \A s \in PreparedUnits : Stale(s) \cap watch[s] = {}

\* No run that changed a file of the reboot watch list reports success.
RebootNotSkipped == Completed => watch[Reboot] \cap changed = {}

Started(s) == bounced'[s] > bounced[s]

\* rsconf_service_restart_at_end: a deferred unit is started by the last pass
\* only, when no script can change a file any more.
DeferredStartsLast ==
  [][\A s \in deferred : Started(s) => atEnd /\ todo = <<>> /\ body = <<>>]_vars

\* Units start in the order in which they were prepared: when one starts, all
\* prepared before it are active, unless they wait for the end.
StartsInOrder ==
  [][\A i \in DOMAIN order : Started(order[i]) =>
       \A j \in 1..(i - 1) : \/ order[j] = Reboot \/ LeftForEnd(order[j])
                             \/ status[order[j]] = "active"]_vars

\* A run that has started ends.
RunEnds == phase # "idle" ~> phase = "idle"

Managed == UNION {{op.svc : op \in {o \in {built.body[c][i] : i \in DOMAIN built.body[c]} :
                                     o.kind = "prepare"}} : c \in Components} \ {Reboot}

\* Disk and units are as the published tree and the registry say.
Converged ==
  /\ \A f \in Files : disk[f] = built.content[f]
  /\ \A i \in Images : disk[i] = registry[i]
  /\ Managed \subseteq up

\* If nothing is published, crashes or fails any more, repeated runs bring
\* the host to the published state and leave it there.
EventuallyConverged == <>[][~Trouble]_vars => <>[]Converged

-----------------------------------------------------------------------------
(* The inductive invariant behind the safety properties                    *)

\* Nothing of a run is left when none is under way.
IdleInv ==
  phase = "idle" => /\ order = <<>> /\ changed = {} /\ deferred = {}
                    /\ status = StatusNone /\ watch = EmptyEach /\ bounced = NoStarts
                    /\ ~atEnd /\ todo = <<>> /\ body = <<>>

\* Each unit is listed once, and has a status and a watch list if it is.
OrderInv ==
  /\ \A i, j \in DOMAIN order : order[i] = order[j] => i = j
  /\ \A s \in Services :
       IF Prepared(s) THEN status[s] # "none"
                      ELSE status[s] \in {"none", "restart"} /\ watch[s] = {}
  /\ status[Reboot] \in {"none", "start"}
  /\ Prepared(Reboot) => Reboot \in deferred
  /\ Reboot \notin up \cup enabled

\* The loop body works on a unit it did not skip.
StepInv ==
  /\ phase # "pass" => step = "check"
  /\ step # "check" => /\ pos \in DOMAIN order /\ order[pos] # Reboot
                       /\ ~LeftForEnd(order[pos])
  /\ step = "start" => status[order[pos]] \in {"start", "restart"} /\ order[pos] \notin up
  /\ step \in {"disable", "enable"} => status[order[pos]] = "active"

HandledAt(i) ==
  IF order[i] = Reboot
    THEN LeftForEnd(Reboot) \/ watch[Reboot] \cap changed = {}
    ELSE LeftForEnd(order[i]) \/ status[order[i]] = "active"

\* What the loop has passed is active, or waits for the end.
PassInv ==
  /\ phase = "pass" => ~noRestart /\ \A i \in 1..(pos - 1) : HandledAt(i)
  /\ Completed => atEnd /\ \A i \in DOMAIN order : HandledAt(i)
  /\ atEnd => phase \in {"pass", "done"} /\ todo = <<>> /\ body = <<>>

\* A unit the run has dealt with was started at most once and is enabled.
ActiveInv ==
  \A s \in Services :
    /\ bounced[s] <= 1 /\ (status[s] # "active" => bounced[s] = 0)
    /\ status[s] = "active" => \/ s \in enabled
                               \/ step \in {"disable", "enable"} /\ s = order[pos]

\* Why a unit may be stale in the middle of a run.
StaleInv ==
  phase # "idle" =>
    \A s \in Services : \A f \in Stale(s) :
      \/ f \in excused[s]
      \/ status[s] # "active" /\ f \in changed
      \/ status[s] = "restart" /\ Prepared(s) /\ f \in Images
      \/ status[s] = "active" /\ f \notin watch[s] \cup ImageOf[s]

\* The conjunction that every step preserves.
IInv == TypeOK /\ IdleInv /\ OrderInv /\ StepInv /\ PassInv /\ ActiveInv /\ StaleInv

-----------------------------------------------------------------------------
(* What StaleOnlyAfterFailure rests on                                     *)

\* Owner and Watched give the component and the watch list of each unit, Late
\* the units that wait for the end; see ScriptShape.
Shape(Owner, Watched, Late) ==
  /\ Owner \in [Services -> Components] /\ Watched \in [Services -> SUBSET Files]
  /\ \A s \in Services \ {Reboot} : UnitShape(Trees, s, Owner[s], Watched[s], s \in Late)
=============================================================================
