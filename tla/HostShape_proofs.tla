---------------------------- MODULE HostShape_proofs ----------------------------
(***************************************************************************)
(* Only a failed run leaves a unit with an old configuration: a proof for  *)
(* all scripts of the shape that those of component/*.py have.  The        *)
(* invariant follows one unit s, the component owner that prepares it, the *)
(* files it watches and whether it waits for the end (late).               *)
(***************************************************************************)
EXTENDS HostRun_proofs

\* Nothing of the current component spoils a restart of s that comes next.
Settled(s, files, late) ==
  IF late THEN s \in deferred
          ELSE \A i \in DOMAIN body : ~Installs(body[i], files)

\* A prepare of s at line p of b, or before b if p = 0, fits what follows.
Fits(b, p, s, files, late) ==
  IF late THEN s \in deferred \/ DeferredBy(b, p, s) ELSE NoneAfterRestart(b, p, files)

\* What is known of s once it is prepared
ListedInv(s, owner, files, late) ==
  Prepared(s) => /\ owner \in ran /\ watch[s] = files
                 /\ Fits(body, 0, s, files, late)
                 /\ phase = "pass" \/ status[s] = "active" => Settled(s, files, late)

\* The owner has run or will
OwnerRuns(owner) == owner \in ran \/ \E k \in DOMAIN todo : todo[k] = owner

\* What is still to run of the current component
BodyInv(s, owner, files, late) ==
  \A p \in DOMAIN body :
    /\ Prepares(body[p], s) => /\ owner \in ran /\ body[p].watch = files
                               /\ Fits(body, p, s, files, late)
    /\ Installs(body[p], files) => OwnerRuns(owner)

\* The owner prepares its unit, and runs if a file of the unit has changed.
OwnerInv(s, owner, files) ==
  /\ files # {} /\ owner \in ran => Prepared(s) \/ \E p \in DOMAIN body : Prepares(body[p], s)
  /\ changed \cap files # {} => OwnerRuns(owner)

\* Another component with files of the unit runs before the owner, or with it
\* if the unit waits.
TodoInv(owner, files, late) ==
  \A u \in Trees : \A j \in DOMAIN todo :
    todo[j] # owner /\ InstallsAny(u.body[todo[j]], files) =>
      /\ OwnerRuns(owner)
      /\ ~late => owner \notin ran /\ \A i \in 1..(j - 1) : todo[i] # owner

\* Without a failure no unit may go on with an old version.
CleanInv(s, files, late) ==
  /\ late /\ status[s] = "active" => atEnd
  /\ ~failed => IF phase = "idle" THEN Stale(s) \cap files = {} ELSE excused[s] \cap files = {}

\* The conjunction that every step preserves, for one unit.
UnitInv(s, owner, files, late) ==
  /\ phase = "idle" => ran = {}
  /\ ListedInv(s, owner, files, late) /\ BodyInv(s, owner, files, late)
  /\ OwnerInv(s, owner, files) /\ TodoInv(owner, files, late) /\ CleanInv(s, files, late)

-----------------------------------------------------------------------------
(* The rest of a script                                                    *)

\* The lines after the first one, counted from one again.
LEMMA TailLines ==
  ASSUME NEW S, NEW b \in Seq(S), b # <<>>
  PROVE  /\ 1 \in DOMAIN b /\ b[1] = Head(b)
         /\ \A i \in DOMAIN Tail(b) : i \in Nat /\ i >= 1 /\ i + 1 \in DOMAIN b /\ Tail(b)[i] = b[i + 1]
         /\ \A i \in DOMAIN b : /\ i \in Nat /\ i >= 1
                                /\ i = 1 \/ (i - 1 \in DOMAIN Tail(b) /\ Tail(b)[i - 1] = b[i])
OBVIOUS

\* The line that defers is the one that has run, or still ahead.
LEMMA DeferredTail ==
  ASSUME NEW s, NEW b \in Seq(Op), b # <<>>, NEW p \in Nat, NEW n \in Nat,
         DeferredBy(b, p, s),
         p = n + 1 \/ (p = 0 /\ n = 0 /\ Head(b).kind # "restart")
  PROVE  Defers(Head(b), s) \/ DeferredBy(Tail(b), n, s)
<1>1. PICK q \in DOMAIN b : /\ Defers(b[q], s)
                            /\ \A r \in DOMAIN b : p < r /\ r < q => b[r].kind # "restart"
  BY DEF DeferredBy
<1>2. CASE q = 1
  BY <1>1, <1>2, TailLines
<1>3. CASE q # 1
  <2>1. q - 1 \in DOMAIN Tail(b) /\ Tail(b)[q - 1] = b[q]
    BY <1>3, TailLines
  <2>2. ASSUME NEW r \in DOMAIN Tail(b), n < r, r < q - 1 PROVE Tail(b)[r].kind # "restart"
    <3>1. r + 1 \in DOMAIN b /\ Tail(b)[r] = b[r + 1] /\ r \in Nat /\ q \in Nat
      BY TailLines
    <3>2. p < r + 1 /\ r + 1 < q
      BY <2>2, <3>1
    <3>3. QED
      BY <1>1, <3>1, <3>2
  <2>3. QED
    BY <1>1, <2>1, <2>2 DEF DeferredBy
<1>4. QED
  BY <1>2, <1>3

\* No file is installed after a restart in the rest of a script either.
LEMMA NoneTail ==
  ASSUME NEW files, NEW b \in Seq(Op), b # <<>>, NEW p \in Nat, NEW n \in Nat,
         NoneAfterRestart(b, p, files), p <= n + 1
  PROVE  NoneAfterRestart(Tail(b), n, files)
<1> SUFFICES ASSUME NEW r \in DOMAIN Tail(b), NEW i \in DOMAIN Tail(b),
                    n < r, r < i, Tail(b)[r].kind = "restart"
             PROVE  ~Installs(Tail(b)[i], files)
  BY DEF NoneAfterRestart
<1>1. /\ r \in Nat /\ r + 1 \in DOMAIN b /\ Tail(b)[r] = b[r + 1]
      /\ i \in Nat /\ i + 1 \in DOMAIN b /\ Tail(b)[i] = b[i + 1]
  BY TailLines
<1>2. p < r + 1 /\ r + 1 < i + 1
  BY <1>1
<1>3. QED
  BY <1>1, <1>2 DEF NoneAfterRestart

\* Running a line that is no restart keeps what is known of the script.
LEMMA LineRun ==
  ASSUME NEW s, NEW owner, NEW files, NEW late,
         body \in Seq(Op), body # <<>>, body' = Tail(body), ran' = ran, todo' = todo,
         deferred \subseteq deferred', Defers(Head(body), s) => s \in deferred',
         BodyInv(s, owner, files, late)
  PROVE  /\ BodyInv(s, owner, files, late)'
         /\ Fits(body, 0, s, files, late) /\ Head(body).kind # "restart"
              => Fits(body, 0, s, files, late)'
         /\ Prepares(Head(body), s) => Fits(body, 0, s, files, late)'
         /\ Settled(s, files, late) => Settled(s, files, late)'
<1>1. ASSUME NEW n \in Nat, Fits(body, n + 1, s, files, late)
      PROVE  Fits(body, n, s, files, late)'
  <2>1. n + 1 \in Nat
    OBVIOUS
  <2>2. CASE late
    BY <1>1, <2>1, <2>2, DeferredTail DEF Fits
  <2>3. CASE ~late
    BY <1>1, <2>1, <2>3, NoneTail DEF Fits
  <2>4. QED
    BY <2>2, <2>3
<1>2. ASSUME Fits(body, 0, s, files, late), Head(body).kind # "restart"
      PROVE  Fits(body, 0, s, files, late)'
  <2>1. CASE late
    BY <1>2, <2>1, DeferredTail DEF Fits
  <2>2. CASE ~late
    BY <1>2, <2>2, NoneTail DEF Fits
  <2>3. QED
    BY <2>1, <2>2
<1>3. BodyInv(s, owner, files, late)'
  <2> SUFFICES ASSUME NEW p \in DOMAIN body'
               PROVE  /\ Prepares(body'[p], s) =>
                           /\ owner \in ran /\ body'[p].watch = files
                           /\ Fits(body, p, s, files, late)'
                      /\ Installs(body'[p], files) => OwnerRuns(owner)
    BY DEF BodyInv, OwnerRuns
  <2>1. p \in Nat /\ p + 1 \in DOMAIN body /\ body'[p] = body[p + 1]
    BY TailLines
  <2>2. Fits(body, p + 1, s, files, late) => Fits(body, p, s, files, late)'
    BY <1>1, <2>1
  <2>3. QED
    BY <2>1, <2>2 DEF BodyInv
<1>4. ASSUME Prepares(Head(body), s) PROVE Fits(body, 0, s, files, late)'
  <2>1. Fits(body, 1, s, files, late)
    BY <1>4, TailLines DEF BodyInv
  <2>2. 0 \in Nat /\ 0 + 1 = 1
    OBVIOUS
  <2>3. QED
    BY <1>1, <2>1, <2>2
<1>5. Settled(s, files, late) => Settled(s, files, late)'
  BY TailLines DEF Settled
<1>6. QED
  BY <1>2, <1>3, <1>4, <1>5

-----------------------------------------------------------------------------
(* The invariant of one unit, action by action                             *)

\* A step that leaves alone what the invariant looks at keeps it.
LEMMA SameUnitInv ==
  ASSUME NEW s, NEW owner, NEW files, NEW late, UnitInv(s, owner, files, late),
         UNCHANGED <<phase, todo, ran, body, status, order, watch, changed, deferred,
                     atEnd, failed, excused>>,
         phase = "idle" => Stale(s)' \subseteq Stale(s)
  PROVE  UnitInv(s, owner, files, late)'
<1>1. ListedInv(s, owner, files, late)' /\ BodyInv(s, owner, files, late)'
  BY DEF UnitInv, ListedInv, BodyInv, Prepared, Fits, Settled, OwnerRuns
<1>2. OwnerInv(s, owner, files)' /\ TodoInv(owner, files, late)'
  BY DEF UnitInv, OwnerInv, TodoInv, Prepared, OwnerRuns
<1>3. CleanInv(s, files, late)'
  BY DEF UnitInv, CleanInv
<1>4. QED
  BY <1>1, <1>2, <1>3 DEF UnitInv

\* The memory of a run is lost: what counts is that no unit is stale, if no
\* run failed.
LEMMA ForgetRunUnit ==
  ASSUME NEW s \in Services, NEW owner, NEW files, NEW late, ForgetRun,
         ~failed' => Stale(s)' \cap files = {}
  PROVE  UnitInv(s, owner, files, late)'
<1> USE DEF ForgetRun
<1>1. ~Prepared(s)' /\ status'[s] = "none" /\ changed' = {} /\ ran' = {}
  BY DEF Prepared, StatusNone
<1>2. ListedInv(s, owner, files, late)' /\ BodyInv(s, owner, files, late)'
  BY <1>1 DEF ListedInv, BodyInv
<1>3. OwnerInv(s, owner, files)' /\ TodoInv(owner, files, late)'
  BY <1>1 DEF OwnerInv, TodoInv
<1>4. CleanInv(s, files, late)'
  BY <1>1 DEF CleanInv
<1>5. QED
  BY <1>1, <1>2, <1>3, <1>4 DEF UnitInv

\* A run that ends without having changed a file leaves no unit stale.
LEMMA UnchangedIsClean ==
  ASSUME IInv, NEW s \in Services, NEW owner, NEW files \in SUBSET Files, NEW late,
         UnitInv(s, owner, files, late), phase # "idle", ~failed, changed = {}
  PROVE  Stale(s) \cap files = {}
<1> SUFFICES ASSUME NEW f \in Stale(s) \cap files PROVE FALSE
  OBVIOUS
<1>1. f \notin excused[s] /\ f \notin Images
  BY HostAssumption DEF UnitInv, CleanInv
<1>2. status[s] = "active" /\ f \notin watch[s]
  BY <1>1 DEF IInv, StaleInv
<1>3. Prepared(s)
  BY <1>2 DEF IInv, OrderInv
<1>4. QED
  BY <1>2, <1>3 DEF UnitInv, ListedInv

\* A run that fails, or stops at an error, either changed no file or counts as
\* a failure.
LEMMA EndRunUnit ==
  ASSUME IInv, NEW s \in Services, NEW owner, NEW files \in SUBSET Files, NEW late,
         UnitInv(s, owner, files, late), EndRun, phase # "idle"
  PROVE  UnitInv(s, owner, files, late)'
<1>1. ~failed' => Stale(s)' \cap files = {}
  BY UnchangedIsClean DEF EndRun, Stale, host, unit
<1>2. QED
  BY <1>1, ForgetRunUnit DEF EndRun

\* In a completed run without a failure no unit is stale, prepared or not.
LEMMA CompletedIsClean ==
  ASSUME IInv, NEW s \in Services, s # Reboot, NEW owner, NEW files \in SUBSET Files, NEW late,
         UnitInv(s, owner, files, late), Completed, ~failed
  PROVE  Stale(s) \cap files = {}
<1> SUFFICES ASSUME NEW f \in Stale(s) \cap files PROVE FALSE
  OBVIOUS
<1>1. f \notin excused[s] /\ f \notin Images /\ phase # "idle"
  BY HostAssumption DEF UnitInv, CleanInv, Completed
<1>2. body = <<>> /\ todo = <<>>
  BY DEF IInv, PassInv
<1>3. Prepared(s)
  <2>1. CASE status[s] = "active"
    BY <2>1 DEF IInv, OrderInv
  <2>2. CASE status[s] # "active"
    <3>1. f \in changed
      BY <1>1, <2>2 DEF IInv, StaleInv
    <3>2. owner \in ran /\ files # {}
      BY <1>2, <3>1 DEF UnitInv, OwnerInv, OwnerRuns
    <3>3. QED
      BY <1>2, <3>2 DEF UnitInv, OwnerInv
  <2>3. QED
    BY <2>1, <2>2
<1>4. status[s] = "active"
  BY <1>3, CompletedHandled DEF PreparedUnits
<1>5. watch[s] = files
  BY <1>3 DEF UnitInv, ListedInv
<1>6. QED
  BY <1>1, <1>4, <1>5 DEF IInv, StaleInv

\* Leaving a run that is done.
LEMMA ExitUnit ==
  ASSUME IInv, NEW s \in Services, s # Reboot, NEW owner, NEW files \in SUBSET Files, NEW late,
         UnitInv(s, owner, files, late), Exit
  PROVE  UnitInv(s, owner, files, late)'
<1>1. Stale(s)' = Stale(s) /\ phase # "idle"
  BY DEF Exit, Stale, host, unit
<1>2. ~failed' => Stale(s)' \cap files = {}
  <2>1. CASE noRestart
    BY <1>1, <2>1, UnchangedIsClean DEF Exit
  <2>2. CASE ~noRestart
    BY <1>1, <2>2, CompletedIsClean DEF Exit, Completed
  <2>3. QED
    BY <2>1, <2>2
<1>3. QED
  BY <1>2, ForgetRunUnit DEF Exit

\* A booted host has all units running with what is on its disk.
LEMMA BootUnit ==
  ASSUME IInv, NEW s \in Services, NEW owner, NEW files, NEW late, Boot
  PROVE  UnitInv(s, owner, files, late)'
<1>1. Stale(s)' = {}
  BY DEF Boot, Stale
<1>2. QED
  BY <1>1, ForgetRunUnit DEF Boot

\* A run starts with nothing prepared, and with the order 000.sh has.
LEMMA StartRunUnit ==
  ASSUME IInv, NEW s \in Services, NEW owner, NEW files, NEW late,
         UnitShape(Trees, s, owner, files, late), UnitInv(s, owner, files, late),
         NEW n, StartRun(n)
  PROVE  UnitInv(s, owner, files, late)'
<1> USE DEF StartRun, published, host, unit, script, services, pass
<1>1. order' = <<>> /\ body' = <<>> /\ changed' = {} /\ ran' = {} /\ status'[s] = "none"
  BY DEF IInv, IdleInv, UnitInv, StatusNone
<1>2. ~Prepared(s)'
  BY <1>1 DEF Prepared
<1>3. ListedInv(s, owner, files, late)' /\ BodyInv(s, owner, files, late)'
  BY <1>1, <1>2 DEF ListedInv, BodyInv
<1>4. TodoInv(owner, files, late)'
  <2>1. built \in Trees /\ todo' = built.requires
    BY DEF IInv, TypeOK, HostType
  <2>2. ASSUME NEW u \in Trees, NEW j \in DOMAIN todo', todo'[j] # owner,
               InstallsAny(u.body[todo'[j]], files)
        PROVE  /\ OwnerRuns(owner)'
               /\ ~late => owner \notin ran' /\ \A i \in 1..(j - 1) : todo'[i] # owner
    BY <1>1, <2>1, <2>2 DEF UnitShape, OwnerRuns
  <2>3. QED
    BY <2>2 DEF TodoInv
<1>5. OwnerInv(s, owner, files)' /\ CleanInv(s, files, late)'
  BY <1>1 DEF OwnerInv, CleanInv, UnitInv
<1>6. QED
  BY <1>1, <1>3, <1>4, <1>5 DEF UnitInv

\* The next component: its owner has run if it installs files of s, and it has
\* none to install if s was prepared and does not wait.
LEMMA RequireUnit ==
  ASSUME IInv, NEW s \in Services, NEW owner, NEW files, NEW late,
         UnitShape(Trees, s, owner, files, late), UnitInv(s, owner, files, late), Require
  PROVE  UnitInv(s, owner, files, late)'
<1> USE DEF Require, published, host, unit, services, pass, history
<1> DEFINE c == Head(todo)
<1>1. /\ todo \in Seq(Components) /\ built \in Trees /\ c \in Components
      /\ Stale(s)' = Stale(s) /\ (Prepared(s)' <=> Prepared(s))
  BY DEF IInv, TypeOK, ScriptType, HostType, Stale, Prepared
<1>2. OwnerRuns(owner) => OwnerRuns(owner)'
  <2> SUFFICES ASSUME NEW k \in DOMAIN todo, todo[k] = owner PROVE OwnerRuns(owner)'
    BY DEF OwnerRuns
  <2>1. CASE k = 1
    BY <1>1, <2>1, TailLines DEF OwnerRuns
  <2>2. CASE k # 1
    BY <1>1, <2>2, TailLines DEF OwnerRuns
  <2>3. QED
    BY <2>1, <2>2
<1>3. TodoInv(owner, files, late)'
  <2> SUFFICES ASSUME NEW u \in Trees, NEW j \in DOMAIN todo', todo'[j] # owner,
                      InstallsAny(u.body[todo'[j]], files)
               PROVE  /\ OwnerRuns(owner)'
                      /\ ~late => owner \notin ran' /\ \A i \in 1..(j - 1) : todo'[i] # owner
    BY DEF TodoInv
  <2>1. j \in Nat /\ j >= 1 /\ j + 1 \in DOMAIN todo /\ todo'[j] = todo[j + 1]
    BY <1>1, TailLines
  <2>2. /\ OwnerRuns(owner)
        /\ ~late => owner \notin ran /\ \A i \in 1..((j + 1) - 1) : todo[i] # owner
    BY <2>1 DEF UnitInv, TodoInv
  <2>3. ASSUME ~late PROVE owner \notin ran'
    <3>1. todo[1] # owner /\ todo[1] = c
      BY <1>1, <2>1, <2>2, <2>3, TailLines
    <3>2. QED
      BY <2>2, <2>3, <3>1
  <2>4. ASSUME ~late, NEW i \in 1..(j - 1) PROVE todo'[i] # owner
    <3>1. i \in DOMAIN todo' /\ i + 1 \in 1..((j + 1) - 1)
      BY <1>1, <2>1
    <3>2. todo'[i] = todo[i + 1]
      BY <1>1, <3>1, TailLines
    <3>3. QED
      BY <2>2, <2>4, <3>1, <3>2
  <2>5. QED
    BY <1>2, <2>2, <2>3, <2>4
<1>4. CASE c \in ran
  <2>1. UNCHANGED <<ran, body>>
    BY <1>4
  <2>2. ListedInv(s, owner, files, late)' /\ BodyInv(s, owner, files, late)'
    BY <1>1, <1>2, <2>1 DEF UnitInv, ListedInv, BodyInv, Fits, Settled
  <2>3. OwnerInv(s, owner, files)' /\ CleanInv(s, files, late)'
    BY <1>1, <1>2, <2>1 DEF UnitInv, OwnerInv, CleanInv
  <2>4. QED
    BY <1>3, <2>2, <2>3 DEF UnitInv
<1>5. CASE c \notin ran
  <2>1. ran' = ran \cup {c} /\ body' = built.body[c]
    BY <1>5
  <2>2. OwnerPrepares(body', c = owner, s, files, late)
    BY <1>1, <2>1, BuiltIsTree DEF UnitShape, IInv, TypeOK
  <2>3. ASSUME c # owner, InstallsAny(body', files)
        PROVE  OwnerRuns(owner)' /\ (~late => owner \notin ran)
    <3>1. 1 \in DOMAIN todo /\ todo[1] = c
      BY <1>1, TailLines
    <3>2. OwnerRuns(owner) /\ (~late => owner \notin ran)
      BY <1>1, <2>1, <2>3, <3>1 DEF UnitInv, TodoInv
    <3>3. QED
      BY <1>2, <3>2
  <2>4. InstallsAny(body', files) => OwnerRuns(owner)'
    <3>1. CASE c = owner
      BY <2>1, <3>1 DEF OwnerRuns
    <3>2. CASE c # owner
      BY <2>3, <3>2
    <3>3. QED
      BY <3>1, <3>2
  <2>5. BodyInv(s, owner, files, late)'
    BY <2>1, <2>2, <2>4 DEF BodyInv, Fits, OwnerPrepares, InstallsAny
  <2>6. ListedInv(s, owner, files, late)'
    <3> SUFFICES ASSUME Prepared(s)
                 PROVE  /\ owner \in ran' /\ watch'[s] = files
                        /\ Fits(body, 0, s, files, late)'
                        /\ phase' = "pass" \/ status'[s] = "active" => Settled(s, files, late)'
      BY <1>1 DEF ListedInv
    <3>1. owner \in ran /\ watch[s] = files /\ Fits(<<>>, 0, s, files, late)
      BY DEF UnitInv, ListedInv
    <3>2. c # owner
      BY <1>5, <3>1
    <3>3. CASE late
      BY <2>1, <3>1, <3>3 DEF Fits, DeferredBy, Settled
    <3>4. CASE ~late
      <4>1. ~InstallsAny(body', files)
        BY <2>3, <3>1, <3>2, <3>4
      <4>2. QED
        BY <2>1, <3>1, <3>4, <4>1 DEF Fits, NoneAfterRestart, Settled, InstallsAny
    <3>5. QED
      BY <3>3, <3>4
  <2>7. OwnerInv(s, owner, files)'
    BY <1>1, <1>2, <2>1, <2>2 DEF UnitInv, OwnerInv, OwnerPrepares
  <2>8. CleanInv(s, files, late)'
    BY <1>1 DEF UnitInv, CleanInv
  <2>9. QED
    BY <1>3, <2>5, <2>6, <2>7, <2>8 DEF UnitInv
<1>6. QED
  BY <1>4, <1>5

\* The last pass starts when all scripts have run.
LEMMA FinalRestartUnit ==
  ASSUME IInv, NEW s \in Services, NEW owner, NEW files, NEW late,
         UnitInv(s, owner, files, late), FinalRestart
  PROVE  UnitInv(s, owner, files, late)'
<1> USE DEF FinalRestart, published, host, unit, script, services, history
<1>1. body = <<>> /\ body' = <<>> /\ phase' # "idle" /\ phase # "idle" /\ ~atEnd
  BY DEF IInv, PassInv
<1>2. Fits(<<>>, 0, s, files, late) => Settled(s, files, late)
  BY <1>1 DEF Fits, DeferredBy, Settled
<1>3. ListedInv(s, owner, files, late)'
  BY <1>1, <1>2 DEF UnitInv, ListedInv, Prepared, Fits, Settled
<1>4. BodyInv(s, owner, files, late)' /\ OwnerInv(s, owner, files)' /\ TodoInv(owner, files, late)'
  BY <1>1 DEF UnitInv, BodyInv, OwnerInv, TodoInv, Prepared, OwnerRuns
<1>5. CleanInv(s, files, late)'
  BY <1>1 DEF UnitInv, CleanInv
<1>6. QED
  BY <1>1, <1>3, <1>4, <1>5 DEF UnitInv

\* A pass ends.
LEMMA EndPassUnit ==
  ASSUME NEW s \in Services, NEW owner, NEW files, NEW late,
         UnitInv(s, owner, files, late), EndPass
  PROVE  UnitInv(s, owner, files, late)'
<1> USE DEF EndPass, published, host, unit, script, services, history, pass
<1>1. phase' \notin {"idle", "pass"}
  OBVIOUS
<1>2. ListedInv(s, owner, files, late)' /\ BodyInv(s, owner, files, late)'
  BY <1>1 DEF UnitInv, ListedInv, BodyInv, Prepared, Fits, Settled, OwnerRuns
<1>3. OwnerInv(s, owner, files)' /\ TodoInv(owner, files, late)' /\ CleanInv(s, files, late)'
  BY <1>1 DEF UnitInv, OwnerInv, TodoInv, Prepared, CleanInv, OwnerRuns
<1>4. QED
  BY <1>1, <1>2, <1>3 DEF UnitInv

\* A restart in the middle comes when the files of all that is prepared, and
\* does not wait, are in place.
LEMMA RestartNowUnit ==
  ASSUME IInv, NEW s \in Services, NEW owner, NEW files, NEW late,
         UnitInv(s, owner, files, late), RestartNow
  PROVE  UnitInv(s, owner, files, late)'
<1> USE DEF RestartNow, published, host, unit, services, history
<1>1. /\ body \in Seq(Op) /\ body # <<>> /\ Head(body).kind = "restart" /\ body' = Tail(body)
      /\ ran' = ran /\ todo' = todo /\ deferred' = deferred /\ ~atEnd /\ phase' # "idle" /\ phase # "idle"
  BY DEF IInv, TypeOK, ScriptType, PassInv
<1>2. ~Defers(Head(body), s) /\ ~Prepares(Head(body), s)
  BY <1>1 DEF Defers, Prepares
<1>3. Prepared(s)' <=> Prepared(s)
  BY DEF Prepared
<1>4. BodyInv(s, owner, files, late)' /\ (Settled(s, files, late) => Settled(s, files, late)')
  BY <1>1, <1>2, LineRun DEF UnitInv
<1>5. ASSUME Fits(body, 0, s, files, late)
      PROVE  Fits(body, 0, s, files, late)' /\ Settled(s, files, late)'
  <2>1. CASE late
    <3>1. ASSUME NEW q \in DOMAIN body, Defers(body[q], s),
                 \A r \in DOMAIN body : 0 < r /\ r < q => body[r].kind # "restart"
          PROVE  FALSE
      <4>1. q # 1 /\ 1 \in DOMAIN body /\ body[1].kind = "restart" /\ q \in Nat /\ q >= 1
        BY <1>1, <1>2, <3>1, TailLines
      <4>2. QED
        BY <3>1, <4>1
    <3>2. s \in deferred
      BY <1>5, <2>1, <3>1 DEF Fits, DeferredBy
    <3>3. QED
      BY <1>1, <2>1, <3>2 DEF Fits, Settled
  <2>2. CASE ~late
    <3>1. \A i \in DOMAIN Tail(body) : ~Installs(Tail(body)[i], files)
      <4> SUFFICES ASSUME NEW i \in DOMAIN Tail(body) PROVE ~Installs(Tail(body)[i], files)
        OBVIOUS
      <4>1. i \in Nat /\ i >= 1 /\ i + 1 \in DOMAIN body /\ Tail(body)[i] = body[i + 1]
            /\ 1 \in DOMAIN body /\ body[1].kind = "restart"
        BY <1>1, TailLines
      <4>2. 0 < 1 /\ 1 < i + 1
        BY <4>1
      <4>3. QED
        BY <1>5, <2>2, <4>1, <4>2 DEF Fits, NoneAfterRestart
    <3>2. QED
      BY <1>1, <2>2, <3>1 DEF Fits, Settled, NoneAfterRestart
  <2>3. QED
    BY <2>1, <2>2
<1>6. ListedInv(s, owner, files, late)'
  BY <1>1, <1>3, <1>5 DEF UnitInv, ListedInv
<1>7. OwnerInv(s, owner, files)' /\ TodoInv(owner, files, late)'
  BY <1>1, <1>2, <1>3, TailLines DEF UnitInv, OwnerInv, TodoInv, OwnerRuns
<1>8. CleanInv(s, files, late)'
  BY <1>1 DEF UnitInv, CleanInv
<1>9. QED
  BY <1>1, <1>4, <1>6, <1>7, <1>8 DEF UnitInv

\* A service that is prepared is the unit, by its owner, or another one.
LEMMA PrepareUnit ==
  ASSUME IInv, NEW s \in Services, s # Reboot, NEW owner, NEW files, NEW late,
         UnitInv(s, owner, files, late), Prepare
  PROVE  UnitInv(s, owner, files, late)'
<1> USE DEF Prepare, Command, published, host, unit, pass, history
<1> DEFINE x == Head(body).svc
<1>1. /\ body \in Seq(Op) /\ body # <<>> /\ Head(body).kind = "prepare" /\ body' = Tail(body)
      /\ ran' = ran /\ todo' = todo /\ phase = "script" /\ phase' = "script" /\ x \in Services
  BY HeadIsOp, OpFields DEF IInv, TypeOK, ScriptType
<1>2. /\ ~Defers(Head(body), s) /\ (Prepares(Head(body), s) <=> x = s)
      /\ deferred \subseteq deferred'
  BY <1>1 DEF Defers, Prepares
<1>3. \A y \in Services : Prepared(y)' <=> Prepared(y) \/ y = x
  <2>1. CASE Prepared(x)
    BY <2>1 DEF Prepared
  <2>2. CASE ~Prepared(x)
    BY <1>1, <2>2, AppendedOrder DEF Prepared, IInv, TypeOK, ServicesType
  <2>3. QED
    BY <2>1, <2>2
<1>4. /\ BodyInv(s, owner, files, late)'
      /\ (Fits(body, 0, s, files, late) => Fits(body, 0, s, files, late)')
      /\ (x = s => Fits(body, 0, s, files, late)')
      /\ (Settled(s, files, late) => Settled(s, files, late)')
  BY <1>1, <1>2, LineRun DEF UnitInv
<1>5. ListedInv(s, owner, files, late)'
  <2>1. CASE x = s
    <3>1. ~Prepared(s) /\ watch[s] = {}
      BY <2>1 DEF IInv, OrderInv
    <3>2. owner \in ran /\ body[1].watch = files /\ body[1] = Head(body)
      BY <1>1, <1>2, <2>1, TailLines DEF UnitInv, BodyInv
    <3>3. watch'[s] = files /\ status'[s] = "start"
      BY <2>1, <3>1, <3>2 DEF IInv, TypeOK, ServicesType
    <3>4. QED
      BY <1>1, <1>4, <2>1, <3>2, <3>3 DEF ListedInv
  <2>2. CASE x # s
    <3>1. watch'[s] = watch[s] /\ status'[s] = status[s] /\ (Prepared(s)' <=> Prepared(s))
      BY <1>1, <1>3, <2>2 DEF IInv, TypeOK, ServicesType
    <3>2. QED
      BY <1>1, <1>4, <3>1 DEF UnitInv, ListedInv
  <2>3. QED
    BY <2>1, <2>2
<1>6. OwnerInv(s, owner, files)'
  <2>1. ASSUME NEW p \in DOMAIN body, Prepares(body[p], s)
        PROVE  Prepared(s)' \/ \E q \in DOMAIN body' : Prepares(body'[q], s)
    <3>1. CASE p = 1
      BY <1>1, <1>2, <1>3, <2>1, <3>1, TailLines
    <3>2. CASE p # 1
      <4>1. p - 1 \in DOMAIN body' /\ body'[p - 1] = body[p]
        BY <1>1, <3>2, TailLines
      <4>2. QED
        BY <2>1, <4>1
    <3>3. QED
      BY <3>1, <3>2
  <2>2. QED
    BY <1>1, <1>3, <2>1 DEF UnitInv, OwnerInv, OwnerRuns
<1>7. TodoInv(owner, files, late)'
  BY DEF UnitInv, TodoInv, OwnerRuns
<1>8. CleanInv(s, files, late)'
  <2>1. status'[s] = "active" => status[s] = "active"
    BY <1>1 DEF IInv, TypeOK, ServicesType
  <2>2. QED
    BY <1>1, <2>1 DEF UnitInv, CleanInv
<1>9. QED
  BY <1>1, <1>4, <1>5, <1>6, <1>7, <1>8 DEF UnitInv

\* Another line of a script that prepares nothing and restarts nothing.
LEMMA LineUnit ==
  ASSUME NEW s, NEW owner, NEW files, NEW late, UnitInv(s, owner, files, late),
         body \in Seq(Op), body # <<>>, body' = Tail(body),
         Head(body).kind \notin {"prepare", "restart"}, phase = "script",
         UNCHANGED <<phase, todo, ran, order, watch, atEnd, failed>>,
         deferred \subseteq deferred', Defers(Head(body), s) => s \in deferred',
         status'[s] = "active" => status[s] = "active",
         changed' \cap files # {} => OwnerRuns(owner),
         ~failed => excused'[s] \cap files = {}
  PROVE  UnitInv(s, owner, files, late)'
<1>1. ~Prepares(Head(body), s) /\ Head(body).kind # "restart"
      /\ (Prepared(s)' <=> Prepared(s))
  BY DEF Prepares, Prepared
<1>2. /\ BodyInv(s, owner, files, late)'
      /\ (Fits(body, 0, s, files, late) => Fits(body, 0, s, files, late)')
      /\ (Settled(s, files, late) => Settled(s, files, late)')
  BY <1>1, LineRun DEF UnitInv
<1>3. ListedInv(s, owner, files, late)'
  BY <1>1, <1>2 DEF UnitInv, ListedInv
<1>4. OwnerInv(s, owner, files)' /\ TodoInv(owner, files, late)'
  BY <1>1, TailLines DEF UnitInv, OwnerInv, TodoInv, OwnerRuns
<1>5. CleanInv(s, files, late)'
  BY DEF UnitInv, CleanInv
<1>6. QED
  BY <1>2, <1>3, <1>4, <1>5 DEF UnitInv

\* A service is deferred.
LEMMA RestartAtEndUnit ==
  ASSUME IInv, NEW s \in Services, NEW owner, NEW files, NEW late,
         UnitInv(s, owner, files, late), RestartAtEnd
  PROVE  UnitInv(s, owner, files, late)'
<1> USE DEF RestartAtEnd, Command, published, host, unit, pass, history
<1>1. /\ body \in Seq(Op) /\ body # <<>> /\ Head(body).kind = "defer" /\ body' = Tail(body)
      /\ phase = "script" /\ deferred \subseteq deferred'
      /\ (Defers(Head(body), s) => s \in deferred')
  BY DEF IInv, TypeOK, ScriptType, Defers
<1>2. UNCHANGED <<phase, todo, ran, order, watch, atEnd, failed, status, changed, excused>>
  OBVIOUS
<1>3. (changed \cap files # {} => OwnerRuns(owner)) /\ (~failed => excused[s] \cap files = {})
  BY <1>1 DEF UnitInv, OwnerInv, CleanInv
<1>4. QED
  BY <1>1, <1>2, <1>3, LineUnit

\* A changed file is one of an owner that has run; an active unit keeps its old
\* version only of files it does not watch.
LEMMA InstallUnit ==
  ASSUME IInv, NEW s \in Services, NEW owner, NEW files, NEW late,
         UnitInv(s, owner, files, late), Install
  PROVE  UnitInv(s, owner, files, late)'
<1> USE DEF Install, Command, published, unit, pass
<1> DEFINE f == Head(body).file
<1>1. /\ body \in Seq(Op) /\ body # <<>> /\ Head(body).kind = "install" /\ body' = Tail(body)
      /\ phase = "script" /\ deferred' = deferred /\ ~Defers(Head(body), s) /\ ~atEnd
  BY DEF IInv, TypeOK, ScriptType, PassInv, Defers
<1>2. UNCHANGED <<phase, todo, ran, order, watch, atEnd, failed, status>>
  OBVIOUS
<1>3. (changed \cap files # {} => OwnerRuns(owner)) /\ (~failed => excused[s] \cap files = {})
  BY <1>1 DEF UnitInv, OwnerInv, CleanInv
<1>4. body[1] = Head(body) /\ 1 \in DOMAIN body
  BY <1>1, TailLines
<1>5. f \in files => OwnerRuns(owner)
  BY <1>1, <1>4 DEF UnitInv, BodyInv, Installs
<1>6. status[s] = "active" => f \notin files
  <2> SUFFICES ASSUME status[s] = "active" PROVE f \notin files
    OBVIOUS
  <2>1. ~late
    BY <1>1 DEF UnitInv, CleanInv
  <2>2. Prepared(s)
    BY DEF IInv, OrderInv
  <2>3. QED
    BY <1>1, <1>4, <2>1, <2>2 DEF UnitInv, ListedInv, Settled, Installs
<1>7. (changed' \cap files # {} => OwnerRuns(owner)) /\ (~failed => excused'[s] \cap files = {})
  <2>1. CASE disk[f] = md5[f]
    BY <1>3, <2>1
  <2>2. CASE disk[f] # md5[f]
    <3>1. changed' = changed \cup {f}
      BY <2>2
    <3>2. excused'[s] = IF status[s] = "active" THEN excused[s] \cup {f} ELSE excused[s]
      BY <2>2
    <3>3. QED
      BY <1>3, <1>5, <1>6, <3>1, <3>2
  <2>3. QED
    BY <2>1, <2>2
<1>8. QED
  BY <1>1, <1>2, <1>7, LineUnit

\* A triggered restart makes no unit active.
LEMMA TriggerRestartUnit ==
  ASSUME IInv, NEW s \in Services, NEW owner, NEW files, NEW late,
         UnitInv(s, owner, files, late), TriggerRestart
  PROVE  UnitInv(s, owner, files, late)'
<1> USE DEF TriggerRestart, Command, published, host, unit, pass, history
<1>1. /\ body \in Seq(Op) /\ body # <<>> /\ Head(body).kind = "trigger" /\ body' = Tail(body)
      /\ phase = "script" /\ ~Defers(Head(body), s)
  BY DEF IInv, TypeOK, ScriptType, Defers
<1>2. UNCHANGED <<phase, todo, ran, order, watch, atEnd, failed, deferred, changed, excused>>
  OBVIOUS
<1>3. (changed \cap files # {} => OwnerRuns(owner)) /\ (~failed => excused[s] \cap files = {})
  BY <1>1 DEF UnitInv, OwnerInv, CleanInv
<1>4. status'[s] = "active" => status[s] = "active"
  BY DEF TriggerStatus, IInv, TypeOK, ServicesType
<1>5. QED
  BY <1>1, <1>2, <1>3, <1>4, LineUnit

\* A pulled image is no file.
LEMMA DockerPullUnit ==
  ASSUME IInv, NEW s \in Services, NEW owner, NEW files \in SUBSET Files, NEW late,
         UnitInv(s, owner, files, late), DockerPull
  PROVE  UnitInv(s, owner, files, late)'
<1> USE DEF DockerPull, Command, published, unit, pass
<1>1. /\ body \in Seq(Op) /\ body # <<>> /\ Head(body).kind = "pull" /\ body' = Tail(body)
      /\ phase = "script" /\ ~Defers(Head(body), s) /\ Head(body).image \notin files
  BY HeadIsOp, OpFields, HostAssumption DEF IInv, TypeOK, ScriptType, Defers
<1>2. UNCHANGED <<phase, todo, ran, order, watch, atEnd, failed, deferred, changed>>
  OBVIOUS
<1>3. (changed \cap files # {} => OwnerRuns(owner)) /\ (~failed => excused[s] \cap files = {})
  BY <1>1 DEF UnitInv, OwnerInv, CleanInv
<1>4. status'[s] = "active" => status[s] = "active"
  BY DEF TriggerStatus, IInv, TypeOK, ServicesType
<1>5. excused'[s] \subseteq excused[s] \cup {Head(body).image}
  OBVIOUS
<1>6. QED
  BY <1>1, <1>2, <1>3, <1>4, <1>5, LineUnit

\* A turn of the loop: a unit becomes active when it is settled, and one that
\* waits does so in the last pass only.
LEMMA LoopUnit ==
  ASSUME IInv, NEW s \in Services, NEW owner, NEW files, NEW late,
         UnitInv(s, owner, files, late), NEW x \in Services,
         SkipService(x) \/ StopUnit(x) \/ CheckActive(x)
           \/ StartUnit(x) \/ DisableUnit(x) \/ EnableUnit(x)
  PROVE  UnitInv(s, owner, files, late)'
<1> USE DEF SkipService, StopUnit, CheckActive, StartUnit, DisableUnit, EnableUnit, AtCheck,
            published, host, unit, script, services, history
<1>1. /\ UNCHANGED <<phase, todo, ran, body, order, watch, changed, deferred, atEnd, failed>>
      /\ phase = "pass"
  OBVIOUS
<1>2. excused'[s] \subseteq excused[s]
  BY DEF IInv, TypeOK, ServicesType
<1>3. ASSUME status'[s] = "active", status[s] # "active" PROVE Prepared(s) /\ ~LeftForEnd(s)
  <2>1. x = s /\ (CheckActive(s) \/ StartUnit(s))
    BY <1>3 DEF IInv, TypeOK, ServicesType
  <2>2. CASE CheckActive(s)
    BY <2>2 DEF Prepared
  <2>3. CASE StartUnit(s)
    BY <2>3 DEF Prepared, IInv, StepInv
  <2>4. QED
    BY <2>1, <2>2, <2>3
<1>4. Prepared(s)' <=> Prepared(s)
  BY <1>1 DEF Prepared
<1>5. ListedInv(s, owner, files, late)' /\ BodyInv(s, owner, files, late)'
  BY <1>1, <1>4 DEF UnitInv, ListedInv, BodyInv, Fits, Settled, OwnerRuns
<1>6. OwnerInv(s, owner, files)' /\ TodoInv(owner, files, late)'
  BY <1>1, <1>4 DEF UnitInv, OwnerInv, TodoInv, OwnerRuns
<1>7. late /\ status'[s] = "active" => atEnd
  <2> SUFFICES ASSUME late, status'[s] = "active", status[s] # "active" PROVE atEnd
    BY DEF UnitInv, CleanInv
  <2>1. s \in deferred
    BY <1>1, <1>3 DEF UnitInv, ListedInv, Settled
  <2>2. QED
    BY <1>3, <2>1 DEF LeftForEnd
<1>8. CleanInv(s, files, late)'
  BY <1>1, <1>2, <1>7 DEF UnitInv, CleanInv
<1>9. QED
  BY <1>1, <1>5, <1>6, <1>8 DEF UnitInv

\* What happens besides runs leaves no unit staler than it was.
LEMMA BesidesUnit ==
  ASSUME IInv, NEW s \in Services, NEW owner, NEW files, NEW late,
         UnitInv(s, owner, files, late),
         \/ PublishTree
         \/ \E i \in Images, c \in Contents : PushImage(i, c)
         \/ \E x \in Services : Crash(x)
         \/ UNCHANGED vars
  PROVE  UnitInv(s, owner, files, late)'
<1> USE DEF vars, published, host, unit, script, services, pass, history
<1>1. CASE PublishTree
  BY <1>1, SameUnitInv DEF PublishTree, Stale
<1>2. CASE \E i \in Images, c \in Contents : PushImage(i, c)
  BY <1>2, SameUnitInv DEF PushImage, Stale
<1>3. ASSUME NEW x \in Services, Crash(x) PROVE UnitInv(s, owner, files, late)'
  <2>1. Stale(s)' \subseteq Stale(s)
    BY <1>3 DEF Crash, Stale, IInv, TypeOK, HostType
  <2>2. UNCHANGED <<phase, todo, ran, body, status, order, watch, changed, deferred,
                    atEnd, failed, excused>>
    BY <1>3 DEF Crash
  <2>3. QED
    BY <2>1, <2>2, SameUnitInv
<1>4. CASE UNCHANGED vars
  BY <1>4, SameUnitInv DEF Stale
<1>5. QED
  BY <1>1, <1>2, <1>3, <1>4

\* Every step keeps the invariant of a unit.
LEMMA NextUnit ==
  ASSUME IInv, [Next]_vars, NEW s \in Services, s # Reboot, NEW owner,
         NEW files \in SUBSET Files, NEW late,
         UnitShape(Trees, s, owner, files, late), UnitInv(s, owner, files, late)
  PROVE  UnitInv(s, owner, files, late)'
<1>1. CASE NotReentrant \/ RebootRequired \/ Abort
  BY <1>1, EndRunUnit DEF NotReentrant, RebootRequired, Abort, AtCheck
<1>2. CASE Exit \/ Boot
  BY <1>2, ExitUnit, BootUnit
<1>3. CASE Require \/ FinalRestart \/ EndPass \/ RestartNow
  BY <1>3, RequireUnit, FinalRestartUnit, EndPassUnit, RestartNowUnit
<1>4. CASE Prepare \/ RestartAtEnd \/ Install \/ TriggerRestart \/ DockerPull
  BY <1>4, PrepareUnit, RestartAtEndUnit, InstallUnit, TriggerRestartUnit, DockerPullUnit
<1>5. ASSUME NEW x \in Services,
             SkipService(x) \/ StopUnit(x) \/ CheckActive(x)
               \/ StartUnit(x) \/ DisableUnit(x) \/ EnableUnit(x)
      PROVE  UnitInv(s, owner, files, late)'
  BY <1>5, LoopUnit
<1>6. ASSUME NEW n \in BOOLEAN, StartRun(n) PROVE UnitInv(s, owner, files, late)'
  BY <1>6, StartRunUnit
<1>7. CASE \/ PublishTree
           \/ \E i \in Images, c \in Contents : PushImage(i, c)
           \/ \E x \in Services : Crash(x)
           \/ UNCHANGED vars
  BY <1>7, BesidesUnit
<1>8. QED
  BY <1>1, <1>2, <1>3, <1>4, <1>5, <1>6, <1>7 DEF Next, RunStep, Trouble

\* No unit runs before the first run.
LEMMA InitUnit ==
  ASSUME Init, NEW s \in Services, NEW owner, NEW files, NEW late
  PROVE  UnitInv(s, owner, files, late)
<1> USE DEF Init
<1>1. ~Prepared(s) /\ status[s] = "none" /\ Stale(s) = {}
  BY DEF Prepared, StatusNone, Stale
<1>2. ListedInv(s, owner, files, late) /\ BodyInv(s, owner, files, late)
  BY <1>1 DEF ListedInv, BodyInv
<1>3. OwnerInv(s, owner, files) /\ TodoInv(owner, files, late)
  BY DEF OwnerInv, TodoInv
<1>4. CleanInv(s, files, late)
  BY <1>1 DEF CleanInv
<1>5. QED
  BY <1>1, <1>2, <1>3, <1>4 DEF UnitInv

\* The invariant of all units at once
UnitsInv(Owner, Watched, Late) ==
  \A s \in Services \ {Reboot} : UnitInv(s, Owner[s], Watched[s], s \in Late)

\* If the scripts have the shape, the invariant of every unit always holds.
LEMMA Units ==
  ASSUME NEW CONSTANT Owner, NEW CONSTANT Watched, NEW CONSTANT Late,
         Shape(Owner, Watched, Late)
  PROVE  Spec => [](IInv /\ UnitsInv(Owner, Watched, Late))
<1>1. Init => UnitsInv(Owner, Watched, Late)
  BY InitUnit DEF UnitsInv
<1>2. ASSUME IInv, UnitsInv(Owner, Watched, Late), [Next]_vars
      PROVE  UnitsInv(Owner, Watched, Late)'
  <2> SUFFICES ASSUME NEW s \in Services \ {Reboot}
               PROVE  UnitInv(s, Owner[s], Watched[s], s \in Late)'
    BY DEF UnitsInv
  <2>1. /\ UnitShape(Trees, s, Owner[s], Watched[s], s \in Late) /\ Watched[s] \in SUBSET Files
        /\ UnitInv(s, Owner[s], Watched[s], s \in Late)
    BY <1>2 DEF Shape, UnitsInv
  <2>2. QED
    BY <1>2, <2>1, NextUnit
<1>3. QED
  BY <1>1, <1>2, Invariance, PTL DEF Spec

\* A completed run, since the last boot without a failed one before it, leaves
\* no unit with an old version of what it watches, whatever crashes, is
\* published or installed meanwhile, if all scripts have the shape.
THEOREM OnlyAfterFailure ==
  ASSUME NEW CONSTANT Owner, NEW CONSTANT Watched, NEW CONSTANT Late,
         Shape(Owner, Watched, Late)
  PROVE  Spec => []StaleOnlyAfterFailure
<1>1. ASSUME IInv, UnitsInv(Owner, Watched, Late) PROVE StaleOnlyAfterFailure
  <2> SUFFICES ASSUME Completed, ~failed, NEW s \in PreparedUnits
               PROVE  Stale(s) \cap watch[s] = {}
    BY DEF StaleOnlyAfterFailure
  <2>1. s \in Services /\ s # Reboot /\ Prepared(s) /\ Watched[s] \in SUBSET Files
    BY DEF PreparedUnits, Shape
  <2>2. UnitInv(s, Owner[s], Watched[s], s \in Late)
    BY <1>1, <2>1 DEF UnitsInv
  <2>3. Stale(s) \cap Watched[s] = {}
    BY <1>1, <2>1, <2>2, CompletedIsClean
  <2>4. watch[s] = Watched[s]
    BY <2>1, <2>2 DEF UnitInv, ListedInv
  <2>5. QED
    BY <2>3, <2>4
<1>2. QED
  BY <1>1, Units, PTL

\* Between runs, too, no unit has an old version of what it watches, prepared
\* by the last run or not, unless a run failed since the last boot.
CleanBetweenRuns(Watched) ==
  phase = "idle" /\ ~failed => \A s \in Services \ {Reboot} : Stale(s) \cap Watched[s] = {}

\* The stale unit of StaleOnlyAfterFailure is no unit that a run forgot: units
\* whose component is no longer required are as fresh as the prepared ones.
THEOREM FreshBetweenRuns ==
  ASSUME NEW CONSTANT Owner, NEW CONSTANT Watched, NEW CONSTANT Late,
         Shape(Owner, Watched, Late)
  PROVE  Spec => []CleanBetweenRuns(Watched)
<1>1. ASSUME UnitsInv(Owner, Watched, Late) PROVE CleanBetweenRuns(Watched)
  BY <1>1 DEF UnitsInv, UnitInv, CleanInv, CleanBetweenRuns
<1>2. QED
  BY <1>1, Units, PTL
=============================================================================
