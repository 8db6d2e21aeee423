---------------------------- MODULE HostRun_proofs ----------------------------
(***************************************************************************)
(* Proofs about HostRun for every set of services, files, images and trees.*)
(***************************************************************************)
EXTENDS HostRun, TLAPS

\* What a run has in memory is well typed when it is gone.
LEMMA ForgetRunType ==
  ASSUME ForgetRun
  PROVE  ScriptType' /\ ServicesType' /\ PassType'
<1> USE DEF ForgetRun
<1>1. ScriptType'
  <2>1. md5' \in [Files -> Contents0]
    BY DEF NoMd5, Contents0
  <2>2. noRestart' \in BOOLEAN
    OBVIOUS
  <2>3. QED
    BY <2>1, <2>2 DEF ScriptType
<1>2. ServicesType'
  BY DEF ServicesType, StatusNone, EmptyEach, NoStarts
<1>3. PassType'
  <2>1. atEnd' \in BOOLEAN
    OBVIOUS
  <2>2. QED
    BY <2>1 DEF PassType
<1>4. QED
  BY <1>1, <1>2, <1>3

\* The command at the head of a component is one of the commands.
LEMMA HeadIsOp ==
  ASSUME ScriptType, body # <<>>
  PROVE  /\ Head(body) \in Op /\ Tail(body) \in Seq(Op)
BY DEF ScriptType

\* A command has the parameters of its kind.
LEMMA OpFields ==
  ASSUME NEW op \in Op
  PROVE  /\ op.kind = "prepare" => op.svc \in Services /\ op.watch \subseteq Files
         /\ op.kind = "install" => op.file \in Files
         /\ op.kind = "pull" => op.svc \in Services \ {Reboot} /\ op.image \in Images
         /\ op.kind \in {"defer", "trigger"} => op.svc \in Services
BY DEF Op

\* What the build publishes is a tree.
LEMMA BuiltIsTree ==
  ASSUME HostType
  PROVE  /\ built.requires \in Seq(Components)
         /\ built.body \in [Components -> Seq(Op)]
         /\ built.content \in [Files -> Contents]
BY HostAssumption DEF HostType, Tree

\* The host starts with nothing installed.
LEMMA InitType == Init => TypeOK
<1> SUFFICES ASSUME Init PROVE TypeOK
  OBVIOUS
<1> USE DEF Init
<1>1. Nothing \in [Paths -> Contents0] /\ NoMd5 \in [Files -> Contents0]
  BY DEF Nothing, NoMd5, Contents0
<1>2. HostType
  BY <1>1 DEF HostType
<1>3. ScriptType
  <2>1. noRestart \in BOOLEAN
    OBVIOUS
  <2>2. QED
    BY <1>1, <2>1 DEF ScriptType
<1>4. ServicesType
  BY DEF ServicesType, StatusNone, EmptyEach, NoStarts
<1>5. PassType
  <2>1. atEnd \in BOOLEAN
    OBVIOUS
  <2>2. QED
    BY <2>1 DEF PassType
<1>6. QED
  BY <1>2, <1>3, <1>4, <1>5 DEF TypeOK

\* A new status of a triggered service is a status.
LEMMA TriggerType ==
  ASSUME ServicesType, NEW s \in Services
  PROVE  TriggerStatus(s) \in [Services -> {"none", "start", "restart", "active"}]
BY DEF ServicesType, TriggerStatus

\* Ending a run keeps the types.
LEMMA EndRunType == TypeOK /\ EndRun => TypeOK'
<1> SUFFICES ASSUME TypeOK, EndRun PROVE TypeOK'
  OBVIOUS
<1>1. HostType'
  BY DEF TypeOK, HostType, EndRun, published, host, unit
<1>2. QED
  BY <1>1, ForgetRunType DEF TypeOK, EndRun

\* Every step keeps every variable in its type.
LEMMA NextType == TypeOK /\ [Next]_vars => TypeOK'
<1> SUFFICES ASSUME TypeOK, [Next]_vars PROVE TypeOK'
  OBVIOUS
<1> USE DEF TypeOK, published, unit, host, script, services, pass, history
<1>1. ASSUME NEW n \in BOOLEAN, StartRun(n) PROVE TypeOK'
  <2>1. HostType' /\ PassType'
    BY <1>1 DEF StartRun, HostType, PassType
  <2>2. ScriptType'
    BY <1>1, BuiltIsTree DEF StartRun, ScriptType
  <2>3. ServicesType'
    BY <1>1 DEF StartRun, ServicesType, Stale, NoStarts
  <2>4. QED
    BY <2>1, <2>2, <2>3
<1>2. CASE Exit
  <2>1. HostType'
    BY <1>2 DEF Exit, HostType
  <2>2. QED
    BY <1>2, <2>1, ForgetRunType DEF Exit
<1>3. CASE Require
  <2>1. HostType' /\ PassType' /\ ServicesType'
    BY <1>3 DEF Require, HostType, PassType, ServicesType
  <2>2. Head(todo) \in Components /\ Tail(todo) \in Seq(Components)
    BY <1>3 DEF Require, ScriptType
  <2>3. ScriptType'
    <3>1. CASE Head(todo) \in ran
      BY <1>3, <2>2, <3>1 DEF Require, ScriptType
    <3>2. CASE Head(todo) \notin ran
      <4>1. built.body[Head(todo)] \in Seq(Op)
        BY <2>2, BuiltIsTree
      <4>2. built.content \in [Files -> Contents0]
        BY BuiltIsTree DEF Contents0
      <4>3. QED
        BY <1>3, <2>2, <3>2, <4>1, <4>2 DEF Require, ScriptType
    <3>3. QED
      BY <3>1, <3>2
  <2>4. QED
    BY <2>1, <2>3
<1>4. CASE FinalRestart
  <2>1. HostType' /\ ServicesType'
    BY <1>4 DEF FinalRestart, HostType, ServicesType
  <2>2. ScriptType'
    BY <1>4 DEF FinalRestart, ScriptType
  <2>3. PassType'
    <3>1. atEnd' \in BOOLEAN
      BY <1>4 DEF FinalRestart, PassType
    <3>2. pos' \in Nat \ {0} /\ step' \in {"check", "start", "disable", "enable"}
      BY <1>4 DEF FinalRestart, PassType
    <3>3. QED
      BY <3>1, <3>2 DEF PassType
  <2>4. QED
    BY <2>1, <2>2, <2>3
<1>5. CASE EndPass
  BY <1>5 DEF EndPass, HostType, ScriptType, ServicesType, PassType
<1>6. CASE Prepare
  <2>1. HostType' /\ PassType' /\ ScriptType'
    BY <1>6, HeadIsOp DEF Prepare, Command, HostType, PassType, ScriptType
  <2>2. ServicesType'
    BY <1>6, HeadIsOp, OpFields DEF Prepare, Command, ServicesType
  <2>3. QED
    BY <2>1, <2>2
<1>7. CASE NotReentrant
  BY <1>7, EndRunType DEF NotReentrant
<1>8. CASE RestartAtEnd
  <2>1. HostType' /\ PassType' /\ ScriptType'
    BY <1>8, HeadIsOp DEF RestartAtEnd, Command, HostType, PassType, ScriptType
  <2>2. ServicesType'
    BY <1>8, HeadIsOp, OpFields DEF RestartAtEnd, Command, ServicesType
  <2>3. QED
    BY <2>1, <2>2
<1>9. CASE Install
  <2> DEFINE f == Head(body).file
  <2>1. f \in Files
    BY <1>9, HeadIsOp, OpFields DEF Install, Command
  <2>2. PassType' /\ ScriptType'
    BY <1>9, HeadIsOp DEF Install, Command, PassType, ScriptType
  <2>3. CASE disk[f] = md5[f]
    <3>1. UNCHANGED <<disk, changed, excused>>
      BY <1>9, <2>3 DEF Install
    <3>2. QED
      BY <1>9, <2>2, <3>1 DEF Install, Command, HostType, ServicesType
  <2>4. CASE disk[f] # md5[f]
    <3>1. HostType'
      BY <1>9, <2>1, <2>4, BuiltIsTree DEF Install, Command, HostType, Contents0, Paths
    <3>2. excused' \in [Services -> SUBSET Paths]
      BY <1>9, <2>1, <2>4 DEF Install, ServicesType, Paths
    <3>3. changed' \subseteq Files
      BY <1>9, <2>1, <2>4 DEF Install, ServicesType
    <3>4. ServicesType'
      BY <1>9, <3>2, <3>3 DEF Install, ServicesType
    <3>5. QED
      BY <2>2, <3>1, <3>4
  <2>5. QED
    BY <2>3, <2>4
<1>10. CASE TriggerRestart
  <2>1. HostType' /\ PassType' /\ ScriptType'
    BY <1>10, HeadIsOp DEF TriggerRestart, Command, HostType, PassType, ScriptType
  <2>2. ServicesType'
    BY <1>10, HeadIsOp, OpFields, TriggerType DEF TriggerRestart, Command, ServicesType
  <2>3. QED
    BY <2>1, <2>2
<1>11. CASE DockerPull
  <2> DEFINE s == Head(body).svc
             i == Head(body).image
  <2>1. s \in Services /\ i \in Images
    BY <1>11, HeadIsOp, OpFields DEF DockerPull, Command
  <2>2. PassType' /\ ScriptType'
    BY <1>11, HeadIsOp DEF DockerPull, Command, PassType, ScriptType
  <2>3. HostType'
    BY <1>11, <2>1 DEF DockerPull, Command, HostType, Contents0, Paths
  <2>4. status' \in [Services -> {"none", "start", "restart", "active"}]
    BY <1>11, <2>1, TriggerType DEF DockerPull, ServicesType
  <2>5. excused' \in [Services -> SUBSET Paths]
    BY <1>11, <2>1 DEF DockerPull, ServicesType, Paths
  <2>6. ServicesType'
    BY <1>11, <2>4, <2>5 DEF DockerPull, ServicesType
  <2>7. QED
    BY <2>2, <2>3, <2>6
<1>12. CASE RestartNow
  <2>1. HostType' /\ ServicesType'
    BY <1>12 DEF RestartNow, HostType, ServicesType
  <2>2. ScriptType'
    BY <1>12, HeadIsOp DEF RestartNow, ScriptType
  <2>3. PassType'
    <3>1. atEnd' \in BOOLEAN
      BY <1>12 DEF RestartNow, PassType
    <3>2. pos' \in Nat \ {0} /\ step' \in {"check", "start", "disable", "enable"}
      BY <1>12 DEF RestartNow, PassType
    <3>3. QED
      BY <3>1, <3>2 DEF PassType
  <2>4. QED
    BY <2>1, <2>2, <2>3
<1>13. CASE RebootRequired
  BY <1>13, EndRunType DEF RebootRequired
<1>14. ASSUME NEW s \in Services, SkipService(s) PROVE TypeOK'
  BY <1>14 DEF SkipService, AtCheck, HostType, ScriptType, ServicesType, PassType
<1>15. ASSUME NEW s \in Services, StopUnit(s) PROVE TypeOK'
  <2>1. Nothing \in [Paths -> Contents0]
    BY DEF Nothing, Contents0
  <2>2. QED
    BY <1>15, <2>1 DEF StopUnit, AtCheck, HostType, ScriptType, ServicesType, PassType
<1>16. ASSUME NEW s \in Services, CheckActive(s) PROVE TypeOK'
  BY <1>16 DEF CheckActive, AtCheck, HostType, ScriptType, ServicesType, PassType
<1>17. ASSUME NEW s \in Services, StartUnit(s) PROVE TypeOK'
  BY <1>17 DEF StartUnit, HostType, ScriptType, ServicesType, PassType
<1>18. ASSUME NEW s \in Services, DisableUnit(s) PROVE TypeOK'
  BY <1>18 DEF DisableUnit, HostType, ScriptType, ServicesType, PassType
<1>19. ASSUME NEW s \in Services, EnableUnit(s) PROVE TypeOK'
  BY <1>19 DEF EnableUnit, HostType, ScriptType, ServicesType, PassType
<1>20. CASE Abort
  BY <1>20, EndRunType DEF Abort
<1>21. CASE PublishTree
  BY <1>21 DEF PublishTree, HostType, ScriptType, ServicesType, PassType
<1>22. CASE Boot
  <2>1. Nothing \in [Paths -> Contents0]
    BY DEF Nothing, Contents0
  <2>2. HostType'
    BY <1>22, <2>1 DEF Boot, HostType
  <2>3. QED
    BY <1>22, <2>2, ForgetRunType DEF Boot
<1>23. ASSUME NEW i \in Images, NEW c \in Contents, PushImage(i, c) PROVE TypeOK'
  BY <1>23 DEF PushImage, HostType, ScriptType, ServicesType, PassType
<1>24. ASSUME NEW s \in Services, Crash(s) PROVE TypeOK'
  <2>1. Nothing \in [Paths -> Contents0]
    BY DEF Nothing, Contents0
  <2>2. QED
    BY <1>24, <2>1 DEF Crash, HostType, ScriptType, ServicesType, PassType
<1>25. CASE UNCHANGED vars
  BY <1>25 DEF vars, HostType, ScriptType, ServicesType, PassType
<1>26. QED
  BY <1>1, <1>2, <1>3, <1>4, <1>5, <1>6, <1>7, <1>8, <1>9, <1>10, <1>11, <1>12, <1>13,
     <1>14, <1>15, <1>16, <1>17, <1>18, <1>19, <1>20, <1>21, <1>22, <1>23, <1>24, <1>25
  DEF Next, RunStep, Trouble

\* Type correctness: every variable keeps its type, whatever scripts the build
\* publishes and however runs fail.
THEOREM TypeCorrect == Spec => []TypeOK
  BY InitType, NextType, PTL DEF Spec

-----------------------------------------------------------------------------
(* The inductive invariant, one lemma per action                           *)

\* Preparing a new service appends it and leaves the others in their places.
LEMMA AppendedOrder ==
  ASSUME order \in Seq(Services), NEW s \in Services, order' = Append(order, s)
  PROVE  /\ Len(order) + 1 \in DOMAIN order' /\ order'[Len(order) + 1] = s
         /\ \A i \in DOMAIN order : i \in DOMAIN order' /\ order'[i] = order[i]
         /\ \A i \in DOMAIN order' : i \in DOMAIN order \/ i = Len(order) + 1
OBVIOUS

\* Fetching a component keeps the invariant.
LEMMA RequireInv ==
  ASSUME IInv, TypeOK', Require
  PROVE  IInv'
<1> USE DEF IInv, TypeOK, HostType, ScriptType, ServicesType, PassType, Require, published, unit, host, script, services, pass, history
<1>1. IdleInv'
  BY DEF IdleInv
<1>2. OrderInv'
  BY DEF OrderInv, Prepared
<1>3. StepInv'
  BY DEF StepInv, LeftForEnd
<1>4. PassInv'
  BY DEF PassInv, HandledAt, LeftForEnd, Completed
<1>5. ActiveInv'
  BY DEF ActiveInv
<1>6. StaleInv'
  BY DEF StaleInv, Stale, Prepared
<1>7. QED
  BY <1>1, <1>2, <1>3, <1>4, <1>5, <1>6

\* Entering the last pass keeps the invariant: nothing is passed yet.
LEMMA FinalRestartInv ==
  ASSUME IInv, TypeOK', FinalRestart
  PROVE  IInv'
<1> USE DEF IInv, TypeOK, HostType, ScriptType, ServicesType, PassType, FinalRestart, published, unit, host, script, services, pass, history
<1>1. IdleInv'
  BY DEF IdleInv
<1>2. OrderInv'
  BY DEF OrderInv, Prepared
<1>3. StepInv'
  BY DEF StepInv, LeftForEnd
<1>4. PassInv'
  <2>1. CASE noRestart
    BY <2>1 DEF PassInv, HandledAt, LeftForEnd, Completed
  <2>2. CASE ~noRestart
    <3>1. phase' = "pass" /\ pos' = 1 /\ ~noRestart'
      BY <2>2
    <3>2. \A i \in 1..(pos' - 1) : FALSE
      BY <3>1
    <3>3. atEnd' => todo' = <<>> /\ body' = <<>>
      BY <2>2 DEF PassInv
    <3>4. QED
      BY <3>1, <3>2, <3>3 DEF PassInv, Completed
  <2>3. QED
    BY <2>1, <2>2
<1>5. ActiveInv'
  <2>1. step \notin {"disable", "enable"}
    BY DEF StepInv
  <2>2. QED
    BY <2>1 DEF ActiveInv
<1>6. StaleInv'
  BY DEF StaleInv, Stale, Prepared
<1>7. QED
  BY <1>1, <1>2, <1>3, <1>4, <1>5, <1>6

\* Leaving a pass keeps the invariant: every position has been handled.
LEMMA EndPassInv ==
  ASSUME IInv, TypeOK', EndPass
  PROVE  IInv'
<1> USE DEF IInv, TypeOK, HostType, ScriptType, ServicesType, PassType, EndPass, published, unit, host, script, services, pass, history
<1>1. IdleInv'
  BY DEF IdleInv
<1>2. OrderInv'
  BY DEF OrderInv, Prepared
<1>3. StepInv'
  BY DEF StepInv, LeftForEnd
<1>4. PassInv'
  BY DEF PassInv, HandledAt, LeftForEnd, Completed
<1>5. ActiveInv'
  BY DEF ActiveInv
<1>6. StaleInv'
  BY DEF StaleInv, Stale, Prepared
<1>7. QED
  BY <1>1, <1>2, <1>3, <1>4, <1>5, <1>6

\* Preparing a service keeps the invariant: it is not active, so start loses no
\* restart that a changed file asks for.
LEMMA PrepareInv ==
  ASSUME IInv, TypeOK', Prepare
  PROVE  IInv'
<1> USE DEF IInv, TypeOK, HostType, ScriptType, ServicesType, PassType, Prepare, Command, published, unit, host, script, services, pass, history
<1>1. IdleInv'
  BY DEF IdleInv
<1>2. OrderInv'
  <2> DEFINE s == Head(body).svc
  <2>1. s \in Services
    BY HeadIsOp, OpFields
  <2>2. \A x \in Services : Prepared(x)' <=> Prepared(x) \/ x = s
    <3>1. CASE Prepared(s)
      BY <3>1 DEF Prepared
    <3>2. CASE ~Prepared(s)
      BY <2>1, <3>2, AppendedOrder DEF Prepared
    <3>3. QED
      BY <3>1, <3>2
  <2>3. \A i, j \in DOMAIN order' : order'[i] = order'[j] => i = j
    <3>1. CASE Prepared(s)
      BY <3>1 DEF OrderInv
    <3>2. CASE ~Prepared(s)
      <4>1. \A i \in DOMAIN order : order[i] # s
        BY <3>2 DEF Prepared
      <4>2. QED
        BY <2>1, <3>2, <4>1, AppendedOrder DEF OrderInv
    <3>3. QED
      BY <3>1, <3>2
  <2>4. ASSUME NEW x \in Services
        PROVE  IF Prepared(x)' THEN status'[x] # "none"
                 ELSE status'[x] \in {"none", "restart"} /\ watch'[x] = {}
    BY <2>1, <2>2 DEF OrderInv
  <2>5. status'[Reboot] \in {"none", "start"}
    BY <2>1, HostAssumption DEF OrderInv
  <2>6. Prepared(Reboot)' => Reboot \in deferred'
    BY <2>2, HostAssumption DEF OrderInv
  <2>7. QED
    BY <2>3, <2>4, <2>5, <2>6 DEF OrderInv
<1>3. StepInv'
  BY DEF StepInv, LeftForEnd
<1>4. PassInv'
  BY DEF PassInv, HandledAt, LeftForEnd, Completed
<1>5. ActiveInv'
  <2>1. Head(body).svc \in Services
    BY HeadIsOp, OpFields
  <2>2. status[Head(body).svc] # "active"
    BY <2>1 DEF OrderInv
  <2>3. step \notin {"disable", "enable"} /\ step' \notin {"disable", "enable"}
    BY DEF StepInv
  <2>4. ASSUME NEW x \in Services
        PROVE  /\ bounced'[x] <= 1 /\ (status'[x] # "active" => bounced'[x] = 0)
               /\ status'[x] = "active" => x \in enabled'
    BY <2>1, <2>2, <2>3 DEF ActiveInv
  <2>5. QED
    BY <2>4 DEF ActiveInv
<1>6. StaleInv'
  <2> DEFINE s == Head(body).svc
  <2>1. s \in Services
    BY HeadIsOp, OpFields
  <2>2. SUFFICES ASSUME NEW x \in Services, NEW f \in Stale(x)'
                 PROVE  \/ f \in excused'[x]
                        \/ status'[x] # "active" /\ f \in changed'
                        \/ status'[x] = "restart" /\ Prepared(x)' /\ f \in Images
                        \/ status'[x] = "active" /\ f \notin watch'[x] \cup ImageOf[x]
    BY DEF StaleInv
  <2>3. f \in Stale(x)
    BY DEF Stale
  <2>4. CASE x = s
    <3>1. s # Reboot
      BY <2>3, <2>4 DEF Stale, OrderInv
    <3>2. ~Prepared(s) /\ status[s] # "active"
      BY <2>1, <3>1 DEF OrderInv
    <3>3. f \in excused[s] \/ f \in changed
      BY <2>1, <2>3, <2>4, <3>2 DEF StaleInv
    <3>4. status'[s] = "start"
      BY <2>1
    <3>5. QED
      BY <2>4, <3>3, <3>4
  <2>5. CASE x # s
    <3>1. status'[x] = status[x] /\ watch'[x] = watch[x]
      BY <2>5
    <3>2. Prepared(x) => Prepared(x)'
      <4>1. CASE Prepared(s)
        BY <4>1 DEF Prepared
      <4>2. CASE ~Prepared(s)
        BY <2>1, <4>2, AppendedOrder DEF Prepared
      <4>3. QED
        BY <4>1, <4>2
    <3>3. QED
      BY <2>3, <3>1, <3>2 DEF StaleInv
  <2>6. QED
    BY <2>4, <2>5
<1>7. QED
  BY <1>1, <1>2, <1>3, <1>4, <1>5, <1>6

\* Deferring a service keeps the invariant.
LEMMA RestartAtEndInv ==
  ASSUME IInv, TypeOK', RestartAtEnd
  PROVE  IInv'
<1> USE DEF IInv, TypeOK, HostType, ScriptType, ServicesType, PassType, RestartAtEnd, Command, published, unit, host, script, services, pass, history
<1>1. IdleInv'
  BY DEF IdleInv
<1>2. OrderInv'
  BY DEF OrderInv, Prepared
<1>3. StepInv'
  BY DEF StepInv, LeftForEnd
<1>4. PassInv'
  BY DEF PassInv, HandledAt, LeftForEnd, Completed
<1>5. ActiveInv'
  BY DEF ActiveInv
<1>6. StaleInv'
  BY DEF StaleInv, Stale, Prepared
<1>7. QED
  BY <1>1, <1>2, <1>3, <1>4, <1>5, <1>6

\* Installing a file keeps the invariant: the file is noted as changed.
LEMMA InstallInv ==
  ASSUME IInv, TypeOK', Install
  PROVE  IInv'
<1> USE DEF IInv, TypeOK, HostType, ScriptType, ServicesType, PassType, Install, Command, published, unit, host, script, services, pass, history
<1>1. IdleInv'
  BY DEF IdleInv
<1>2. OrderInv'
  BY DEF OrderInv, Prepared
<1>3. StepInv'
  BY DEF StepInv, LeftForEnd
<1>4. PassInv'
  BY DEF PassInv, HandledAt, LeftForEnd, Completed
<1>5. ActiveInv'
  BY DEF ActiveInv
<1>6. StaleInv'
  BY DEF StaleInv, Stale, Prepared
<1>7. QED
  BY <1>1, <1>2, <1>3, <1>4, <1>5, <1>6

\* Triggering a restart keeps the invariant.
LEMMA TriggerRestartInv ==
  ASSUME IInv, TypeOK', TriggerRestart
  PROVE  IInv'
<1> USE DEF IInv, TypeOK, HostType, ScriptType, ServicesType, PassType, TriggerRestart, Command, TriggerStatus, published, unit, host, script, services, pass, history
<1>1. IdleInv'
  BY DEF IdleInv
<1>2. OrderInv'
  BY DEF OrderInv, Prepared
<1>3. StepInv'
  BY DEF StepInv, LeftForEnd
<1>4. PassInv'
  BY DEF PassInv, HandledAt, LeftForEnd, Completed
<1>5. ActiveInv'
  BY DEF ActiveInv
<1>6. StaleInv'
  BY DEF StaleInv, Stale, Prepared
<1>7. QED
  BY <1>1, <1>2, <1>3, <1>4, <1>5, <1>6

\* A pull keeps the invariant: comparing the image of the container as well
\* makes a unit restart that is stale from an earlier run.
LEMMA DockerPullInv ==
  ASSUME IInv, TypeOK', DockerPull
  PROVE  IInv'
<1> USE DEF IInv, TypeOK, HostType, ScriptType, ServicesType, PassType, DockerPull, Command, TriggerStatus, published, unit, host, script, services, pass, history
<1>1. IdleInv'
  BY DEF IdleInv
<1>2. OrderInv'
  <2>1. Head(body).svc \in Services \ {Reboot}
    BY HeadIsOp, OpFields
  <2>2. \A x \in Services : Prepared(x)' <=> Prepared(x)
    BY DEF Prepared
  <2>3. \A x \in Services : \/ status'[x] = status[x]
                           \/ /\ x # Reboot /\ status[x] # "active"
                              /\ status'[x] = "restart"
    <3>1. \/ status' = status
          \/ /\ status[Head(body).svc] \notin {"active", "restart"}
             /\ status' = [status EXCEPT ![Head(body).svc] = "restart"]
      OBVIOUS
    <3>2. QED
      BY <2>1, <3>1
  <2>4. ASSUME NEW x \in Services
        PROVE  IF Prepared(x)' THEN status'[x] # "none"
                 ELSE status'[x] \in {"none", "restart"} /\ watch'[x] = {}
    BY <2>2, <2>3 DEF OrderInv
  <2>5. QED
    BY <2>2, <2>3, <2>4, HostAssumption DEF OrderInv
<1>3. StepInv'
  BY DEF StepInv, LeftForEnd
<1>4. PassInv'
  BY DEF PassInv, HandledAt, LeftForEnd, Completed
<1>5. ActiveInv'
  BY DEF ActiveInv
<1>6. StaleInv'
  <2> DEFINE s == Head(body).svc
             i == Head(body).image
  <2>1. s \in Services \ {Reboot} /\ i \in Images
    BY HeadIsOp, OpFields
  <2>2. SUFFICES ASSUME NEW x \in Services, NEW f \in Stale(x)'
                 PROVE  \/ f \in excused'[x]
                        \/ status'[x] # "active" /\ f \in changed'
                        \/ status'[x] = "restart" /\ Prepared(x)' /\ f \in Images
                        \/ status'[x] = "active" /\ f \notin watch'[x] \cup ImageOf[x]
    BY DEF StaleInv
  <2>3. f \in Paths /\ x \in up /\ loaded[x][f] # disk'[f]
    BY DEF Stale
  <2>4. Prepared(x)' <=> Prepared(x)
    BY DEF Prepared
  <2>5. \/ status'[x] = status[x]
        \/ status[x] \notin {"active", "restart"} /\ status'[x] = "restart"
    BY <2>1
  <2>6. CASE f # i
    <3>1. f \in Stale(x)
      BY <2>3, <2>6 DEF Stale
    <3>2. f \in excused[x] => f \in excused'[x]
      BY <2>6
    <3>3. QED
      BY <2>4, <2>5, <3>1, <3>2 DEF StaleInv
  <2>7. CASE f = i /\ x = s /\ Prepared(s) /\ status[s] # "active"
    <3>1. disk'[i] = registry[i]
      BY <2>1 DEF Paths
    <3>2. s \in up /\ loaded[s][i] # registry[i]
      BY <2>3, <2>7, <3>1
    <3>3. status'[s] = "restart"
      BY <2>1, <2>7, <3>2
    <3>4. QED
      BY <2>1, <2>4, <2>7, <3>3
  <2>8. CASE f = i /\ ~(x = s /\ Prepared(s) /\ status[s] # "active")
    <3>1. CASE disk[i] # registry[i]
      BY <2>8, <3>1
    <3>2. CASE disk[i] = registry[i]
      <4>1. disk' = disk /\ excused'[x] = excused[x]
        BY <2>1, <2>8, <3>2 DEF Paths
      <4>2. f \in Stale(x)
        BY <2>3, <4>1 DEF Stale
      <4>3. QED
        BY <2>4, <2>5, <4>1, <4>2 DEF StaleInv
    <3>3. QED
      BY <3>1, <3>2
  <2>9. QED
    BY <2>6, <2>7, <2>8
<1>7. QED
  BY <1>1, <1>2, <1>3, <1>4, <1>5, <1>6

\* A restart in the middle of a script keeps the invariant.
LEMMA RestartNowInv ==
  ASSUME IInv, TypeOK', RestartNow
  PROVE  IInv'
<1> USE DEF IInv, TypeOK, HostType, ScriptType, ServicesType, PassType, RestartNow, published, unit, host, script, services, pass, history
<1>1. IdleInv'
  BY DEF IdleInv
<1>2. OrderInv'
  BY DEF OrderInv, Prepared
<1>3. StepInv'
  BY DEF StepInv, LeftForEnd
<1>4. PassInv'
  <2>1. CASE noRestart
    BY <2>1 DEF PassInv, HandledAt, LeftForEnd, Completed
  <2>2. CASE ~noRestart
    <3>1. phase' = "pass" /\ pos' = 1 /\ ~noRestart'
      BY <2>2
    <3>2. \A i \in 1..(pos' - 1) : FALSE
      BY <3>1
    <3>3. atEnd' => todo' = <<>> /\ body' = <<>>
      BY <2>2 DEF PassInv
    <3>4. QED
      BY <3>1, <3>2, <3>3 DEF PassInv, Completed
  <2>3. QED
    BY <2>1, <2>2
<1>5. ActiveInv'
  <2>1. step \notin {"disable", "enable"}
    BY DEF StepInv
  <2>2. QED
    BY <2>1 DEF ActiveInv
<1>6. StaleInv'
  BY DEF StaleInv, Stale, Prepared
<1>7. QED
  BY <1>1, <1>2, <1>3, <1>4, <1>5, <1>6

\* What the build host serves is not in the invariant.
LEMMA PublishTreeInv ==
  ASSUME IInv, TypeOK', PublishTree
  PROVE  IInv'
<1> USE DEF IInv, TypeOK, HostType, ScriptType, ServicesType, PassType, PublishTree, published, unit, host, script, services, pass, history
<1>1. IdleInv'
  BY DEF IdleInv
<1>2. OrderInv'
  BY DEF OrderInv, Prepared
<1>3. StepInv'
  BY DEF StepInv, LeftForEnd
<1>4. PassInv'
  BY DEF PassInv, HandledAt, LeftForEnd, Completed
<1>5. ActiveInv'
  BY DEF ActiveInv
<1>6. StaleInv'
  BY DEF StaleInv, Stale, Prepared
<1>7. QED
  BY <1>1, <1>2, <1>3, <1>4, <1>5, <1>6

\* A run starts with everything stale excused.
LEMMA StartRunInv ==
  ASSUME IInv, TypeOK', NEW n \in BOOLEAN, StartRun(n)
  PROVE  IInv'
<1> USE DEF IInv, TypeOK, HostType, ScriptType, ServicesType, PassType, StartRun, published, unit, host, script, services, pass, history
<1>1. IdleInv'
  BY DEF IdleInv
<1>2. OrderInv'
  BY DEF OrderInv, Prepared
<1>3. StepInv'
  BY DEF StepInv, LeftForEnd
<1>4. PassInv'
  BY DEF PassInv, HandledAt, LeftForEnd, Completed
<1>5. ActiveInv'
  BY DEF ActiveInv
<1>6. StaleInv'
  BY DEF StaleInv, Stale, Prepared
<1>7. QED
  BY <1>1, <1>2, <1>3, <1>4, <1>5, <1>6

\* Whatever the loop skips is handled or waits for the end.
LEMMA SkipServiceInv ==
  ASSUME IInv, TypeOK', NEW s \in Services, SkipService(s)
  PROVE  IInv'
<1> USE DEF IInv, TypeOK, HostType, ScriptType, ServicesType, PassType, SkipService, AtCheck, Checked, published, unit, host, script, services, pass, history
<1>1. IdleInv'
  BY DEF IdleInv
<1>2. OrderInv'
  BY DEF OrderInv, Prepared
<1>3. StepInv'
  BY DEF StepInv, LeftForEnd
<1>4. PassInv'
  <2>1. HandledAt(pos)
    BY HostAssumption DEF HandledAt, LeftForEnd, OrderInv, Prepared
  <2>2. \A i \in 1..(pos' - 1) : i \in 1..(pos - 1) \/ i = pos
    OBVIOUS
  <2>3. \A i \in 1..(pos' - 1) : HandledAt(i)
    BY <2>1, <2>2 DEF PassInv
  <2>4. \A i \in 1..(pos' - 1) : HandledAt(i)'
    BY <2>3 DEF HandledAt, LeftForEnd
  <2>5. QED
    BY <2>4 DEF PassInv, Completed
<1>5. ActiveInv'
  BY DEF ActiveInv
<1>6. StaleInv'
  BY DEF StaleInv, Stale, Prepared
<1>7. QED
  BY <1>1, <1>2, <1>3, <1>4, <1>5, <1>6

\* Stopping a unit to restart it keeps the invariant.
LEMMA StopUnitInv ==
  ASSUME IInv, TypeOK', NEW s \in Services, StopUnit(s)
  PROVE  IInv'
<1> USE DEF IInv, TypeOK, HostType, ScriptType, ServicesType, PassType, StopUnit, AtCheck, Checked, published, unit, host, script, services, pass, history
<1>1. IdleInv'
  BY DEF IdleInv
<1>2. OrderInv'
  BY DEF OrderInv, Prepared
<1>3. StepInv'
  BY DEF StepInv, LeftForEnd
<1>4. PassInv'
  BY DEF PassInv, HandledAt, LeftForEnd, Completed
<1>5. ActiveInv'
  BY DEF ActiveInv
<1>6. StaleInv'
  BY DEF StaleInv, Stale, Prepared
<1>7. QED
  BY <1>1, <1>2, <1>3, <1>4, <1>5, <1>6

\* A unit left running watches none of the changed files.
LEMMA CheckActiveInv ==
  ASSUME IInv, TypeOK', NEW s \in Services, CheckActive(s)
  PROVE  IInv'
<1> USE DEF IInv, TypeOK, HostType, ScriptType, ServicesType, PassType, CheckActive, AtCheck, Checked, published, unit, host, script, services, pass, history
<1>1. IdleInv'
  BY DEF IdleInv
<1>2. OrderInv'
  <2>1. Prepared(s)
    BY DEF Prepared
  <2>2. \A x \in Services : Prepared(x)' <=> Prepared(x)
    BY DEF Prepared
  <2>3. status' = status \/ status' = [status EXCEPT ![s] = "active"]
    OBVIOUS
  <2>4. ASSUME NEW x \in Services
        PROVE  IF Prepared(x)' THEN status'[x] # "none"
                 ELSE status'[x] \in {"none", "restart"} /\ watch'[x] = {}
    BY <2>1, <2>2, <2>3 DEF OrderInv
  <2>5. QED
    BY <2>2, <2>3, <2>4, HostAssumption DEF OrderInv
<1>3. StepInv'
  BY DEF StepInv, LeftForEnd
<1>4. PassInv'
  BY DEF PassInv, HandledAt, LeftForEnd, Completed
<1>5. ActiveInv'
  BY DEF ActiveInv
<1>6. StaleInv'
  <2>1. SUFFICES ASSUME NEW x \in Services, NEW f \in Stale(x)'
                 PROVE  \/ f \in excused'[x]
                        \/ status'[x] # "active" /\ f \in changed'
                        \/ status'[x] = "restart" /\ Prepared(x)' /\ f \in Images
                        \/ status'[x] = "active" /\ f \notin watch'[x] \cup ImageOf[x]
    BY DEF StaleInv
  <2>2. f \in Stale(x) /\ (Prepared(x)' <=> Prepared(x))
    BY DEF Stale, Prepared
  <2>3. CASE status'[x] = status[x]
    BY <2>2, <2>3 DEF StaleInv
  <2>4. CASE status'[x] # status[x]
    <3>1. x = s /\ status[s] = "start" /\ status'[s] = "active" /\ watch[s] \cap changed = {}
      BY <2>4
    <3>2. f \in excused[s] \/ f \in changed
      BY <2>2, <3>1 DEF StaleInv
    <3>3. f \in changed => f \notin watch[s] \cup ImageOf[s]
      BY <3>1, HostAssumption
    <3>4. QED
      BY <3>1, <3>2, <3>3
  <2>5. QED
    BY <2>3, <2>4
<1>7. QED
  BY <1>1, <1>2, <1>3, <1>4, <1>5, <1>6

\* A started unit is not stale and was not started before in this run.
LEMMA StartUnitInv ==
  ASSUME IInv, TypeOK', NEW s \in Services, StartUnit(s)
  PROVE  IInv'
<1> USE DEF IInv, TypeOK, HostType, ScriptType, ServicesType, PassType, StartUnit, published, unit, host, script, services, pass, history
<1>1. IdleInv'
  BY DEF IdleInv
<1>2. OrderInv'
  <2>1. Prepared(s) /\ s # Reboot
    BY DEF Prepared, StepInv
  <2>2. \A x \in Services : Prepared(x)' <=> Prepared(x)
    BY DEF Prepared
  <2>3. ASSUME NEW x \in Services
        PROVE  IF Prepared(x)' THEN status'[x] # "none"
                 ELSE status'[x] \in {"none", "restart"} /\ watch'[x] = {}
    BY <2>1, <2>2 DEF OrderInv
  <2>4. QED
    BY <2>1, <2>2, <2>3, HostAssumption DEF OrderInv
<1>3. StepInv'
  BY DEF StepInv, LeftForEnd
<1>4. PassInv'
  BY DEF PassInv, HandledAt, LeftForEnd, Completed
<1>5. ActiveInv'
  <2>1. bounced[s] = 0
    BY DEF StepInv, ActiveInv
  <2>2. ASSUME NEW x \in Services
        PROVE  /\ bounced'[x] <= 1 /\ (status'[x] # "active" => bounced'[x] = 0)
               /\ status'[x] = "active" => x \in enabled' \/ x = s
    BY <2>1 DEF ActiveInv
  <2>3. QED
    BY <2>2 DEF ActiveInv
<1>6. StaleInv'
  BY DEF StaleInv, Stale, Prepared
<1>7. QED
  BY <1>1, <1>2, <1>3, <1>4, <1>5, <1>6

\* Disabling the unit at hand keeps the invariant.
LEMMA DisableUnitInv ==
  ASSUME IInv, TypeOK', NEW s \in Services, DisableUnit(s)
  PROVE  IInv'
<1> USE DEF IInv, TypeOK, HostType, ScriptType, ServicesType, PassType, DisableUnit, published, unit, host, script, services, pass, history
<1>1. IdleInv'
  BY DEF IdleInv
<1>2. OrderInv'
  BY DEF OrderInv, Prepared
<1>3. StepInv'
  BY DEF StepInv, LeftForEnd
<1>4. PassInv'
  BY DEF PassInv, HandledAt, LeftForEnd, Completed
<1>5. ActiveInv'
  BY DEF ActiveInv
<1>6. StaleInv'
  BY DEF StaleInv, Stale, Prepared
<1>7. QED
  BY <1>1, <1>2, <1>3, <1>4, <1>5, <1>6

\* Enabling the unit at hand completes its turn.
LEMMA EnableUnitInv ==
  ASSUME IInv, TypeOK', NEW s \in Services, EnableUnit(s)
  PROVE  IInv'
<1> USE DEF IInv, TypeOK, HostType, ScriptType, ServicesType, PassType, EnableUnit, published, unit, host, script, services, pass, history
<1>1. IdleInv'
  BY DEF IdleInv
<1>2. OrderInv'
  <2>1. s # Reboot
    BY DEF StepInv
  <2>2. \A x \in Services : Prepared(x)' <=> Prepared(x)
    BY DEF Prepared
  <2>3. QED
    BY <2>1, <2>2, HostAssumption DEF OrderInv
<1>3. StepInv'
  BY DEF StepInv, LeftForEnd
<1>4. PassInv'
  <2>1. HandledAt(pos)
    BY DEF HandledAt, StepInv
  <2>2. \A i \in 1..(pos' - 1) : i \in 1..(pos - 1) \/ i = pos
    OBVIOUS
  <2>3. \A i \in 1..(pos' - 1) : HandledAt(i)
    BY <2>1, <2>2 DEF PassInv
  <2>4. \A i \in 1..(pos' - 1) : HandledAt(i)'
    BY <2>3 DEF HandledAt, LeftForEnd
  <2>5. QED
    BY <2>4 DEF PassInv, Completed
<1>5. ActiveInv'
  BY DEF ActiveInv
<1>6. StaleInv'
  BY DEF StaleInv, Stale, Prepared
<1>7. QED
  BY <1>1, <1>2, <1>3, <1>4, <1>5, <1>6

\* A unit that is not running is not stale.
LEMMA CrashInv ==
  ASSUME IInv, TypeOK', NEW s \in Services, Crash(s)
  PROVE  IInv'
<1> USE DEF IInv, TypeOK, HostType, ScriptType, ServicesType, PassType, Crash, published, unit, host, script, services, pass, history
<1>1. IdleInv'
  BY DEF IdleInv
<1>2. OrderInv'
  BY DEF OrderInv, Prepared
<1>3. StepInv'
  BY DEF StepInv, LeftForEnd
<1>4. PassInv'
  BY DEF PassInv, HandledAt, LeftForEnd, Completed
<1>5. ActiveInv'
  BY DEF ActiveInv
<1>6. StaleInv'
  BY DEF StaleInv, Stale, Prepared
<1>7. QED
  BY <1>1, <1>2, <1>3, <1>4, <1>5, <1>6

\* What the registry has is not in the invariant.
LEMMA PushImageInv ==
  ASSUME IInv, TypeOK', NEW i \in Images, NEW c \in Contents, PushImage(i, c)
  PROVE  IInv'
<1> USE DEF IInv, TypeOK, HostType, ScriptType, ServicesType, PassType, PushImage, published, unit, host, script, services, pass, history
<1>1. IdleInv'
  BY DEF IdleInv
<1>2. OrderInv'
  BY DEF OrderInv, Prepared
<1>3. StepInv'
  BY DEF StepInv, LeftForEnd
<1>4. PassInv'
  BY DEF PassInv, HandledAt, LeftForEnd, Completed
<1>5. ActiveInv'
  BY DEF ActiveInv
<1>6. StaleInv'
  BY DEF StaleInv, Stale, Prepared
<1>7. QED
  BY <1>1, <1>2, <1>3, <1>4, <1>5, <1>6

\* Losing the memory of the run establishes the invariant, provided that the
\* pseudo service is not among the units.
LEMMA ForgetRunInv ==
  ASSUME TypeOK', ForgetRun, Reboot \notin up' \cup enabled'
  PROVE  IInv'
<1> USE HostAssumption DEF ForgetRun
<1>1. order' = <<>> /\ status' = StatusNone /\ watch' = EmptyEach
  OBVIOUS
<1>2. DOMAIN order' = {} /\ \A s \in Services : ~Prepared(s)'
  BY <1>1 DEF Prepared
<1>3. \A s \in Services : status'[s] = "none" /\ watch'[s] = {} /\ bounced'[s] = 0
  BY <1>1 DEF StatusNone, EmptyEach, NoStarts
<1>4. IdleInv'
  BY DEF IdleInv
<1>5. OrderInv'
  BY <1>2, <1>3 DEF OrderInv
<1>6. StepInv'
  BY DEF StepInv
<1>7. PassInv'
  BY DEF PassInv, Completed
<1>8. ActiveInv'
  BY <1>3 DEF ActiveInv
<1>9. StaleInv'
  BY DEF StaleInv
<1>10. QED
  BY <1>4, <1>5, <1>6, <1>7, <1>8, <1>9 DEF IInv

\* A host on which no run has started yet satisfies the invariant.
LEMMA InitInv == Init => IInv
<1> SUFFICES ASSUME Init PROVE IInv
  OBVIOUS
<1> USE HostAssumption DEF Init
<1>1. DOMAIN order = {} /\ \A s \in Services : ~Prepared(s)
  BY DEF Prepared
<1>2. \A s \in Services : status[s] = "none" /\ watch[s] = {} /\ bounced[s] = 0
  BY DEF StatusNone, EmptyEach, NoStarts
<1>3. IdleInv
  BY DEF IdleInv
<1>4. OrderInv
  BY <1>1, <1>2 DEF OrderInv
<1>5. StepInv
  BY DEF StepInv
<1>6. PassInv
  BY DEF PassInv, Completed
<1>7. ActiveInv
  <2>1. ASSUME NEW s \in Services PROVE bounced[s] = 0 /\ 0 <= 1 /\ status[s] # "active"
    <3>1. bounced[s] = 0 /\ status[s] = "none"
      BY <1>2
    <3>2. 0 <= 1 /\ "none" # "active"
      OBVIOUS
    <3>3. QED
      BY ONLY <3>1, <3>2
  <2>2. QED
    BY ONLY <2>1 DEF ActiveInv
<1>8. StaleInv
  BY DEF StaleInv
<1>9. QED
  BY <1>3, <1>4, <1>5, <1>6, <1>7, <1>8, InitType DEF IInv

\* The invariant is inductive.
LEMMA NextInv == IInv /\ [Next]_vars => IInv'
<1> SUFFICES ASSUME IInv, [Next]_vars PROVE IInv'
  OBVIOUS
<1>1. TypeOK'
  BY NextType DEF IInv
<1>2. Reboot \notin up \cup enabled
  BY DEF IInv, OrderInv
<1>3. ASSUME EndRun PROVE IInv'
  BY <1>1, <1>2, <1>3, ForgetRunInv DEF EndRun, host, unit
<1>4. CASE Exit
  BY <1>1, <1>2, <1>4, ForgetRunInv DEF Exit, host, unit
<1>5. CASE Boot
  BY <1>1, <1>2, <1>5, ForgetRunInv DEF Boot
<1>6. CASE NotReentrant \/ RebootRequired \/ Abort
  BY <1>3, <1>6 DEF NotReentrant, RebootRequired, Abort
<1>7. CASE Require \/ FinalRestart \/ EndPass \/ RestartNow
  BY <1>1, <1>7, RequireInv, FinalRestartInv, EndPassInv, RestartNowInv
<1>8. CASE Prepare \/ RestartAtEnd \/ Install \/ TriggerRestart \/ DockerPull
  BY <1>1, <1>8, PrepareInv, RestartAtEndInv, InstallInv, TriggerRestartInv, DockerPullInv
<1>9. ASSUME NEW s \in Services,
             SkipService(s) \/ StopUnit(s) \/ CheckActive(s)
               \/ StartUnit(s) \/ DisableUnit(s) \/ EnableUnit(s)
      PROVE  IInv'
  BY <1>1, <1>9, SkipServiceInv, StopUnitInv, CheckActiveInv, StartUnitInv,
     DisableUnitInv, EnableUnitInv
<1>10. ASSUME NEW n \in BOOLEAN, StartRun(n) PROVE IInv'
  BY <1>1, <1>10, StartRunInv
<1>11. CASE PublishTree
  BY <1>1, <1>11, PublishTreeInv
<1>12. ASSUME NEW i \in Images, NEW c \in Contents, PushImage(i, c) PROVE IInv'
  BY <1>1, <1>12, PushImageInv
<1>13. ASSUME NEW s \in Services, Crash(s) PROVE IInv'
  BY <1>1, <1>13, CrashInv
<1>14. CASE UNCHANGED vars
  <2> USE <1>14 DEF vars, published, host, unit, script, services, pass, history, IInv
  <2>1. IdleInv' /\ StepInv' /\ ActiveInv'
    BY DEF IdleInv, StepInv, ActiveInv, LeftForEnd
  <2>2. OrderInv' /\ StaleInv'
    BY DEF OrderInv, StaleInv, Stale, Prepared
  <2>3. PassInv'
    BY DEF PassInv, HandledAt, LeftForEnd, Completed
  <2>4. QED
    BY <1>1, <2>1, <2>2, <2>3
<1>15. QED
  BY <1>4, <1>5, <1>6, <1>7, <1>8, <1>9, <1>10, <1>11, <1>12, <1>13, <1>14
  DEF Next, RunStep, Trouble

\* The inductive invariant holds in every behaviour of the host.
THEOREM Invariance == Spec => []IInv
  BY InitInv, NextInv, PTL DEF Spec

-----------------------------------------------------------------------------
(* What follows from it                                                    *)

\* No run starts a unit twice.
THEOREM OneStart == Spec => []OneStartPerRun
<1>1. IInv => OneStartPerRun
  BY DEF IInv, ActiveInv, OneStartPerRun
<1>2. QED
  BY <1>1, Invariance, PTL

\* In a completed run everything prepared has been handled in the last pass.
LEMMA CompletedHandled ==
  ASSUME IInv, Completed
  PROVE  /\ \A s \in PreparedUnits : status[s] = "active" /\ s \in enabled
         /\ Prepared(Reboot) => watch[Reboot] \cap changed = {}
         /\ ~Prepared(Reboot) => watch[Reboot] = {}
<1>1. atEnd /\ \A i \in DOMAIN order : HandledAt(i)
  BY DEF IInv, PassInv
<1>2. step = "check"
  BY DEF IInv, StepInv, Completed
<1>3. ASSUME NEW s \in PreparedUnits PROVE status[s] = "active" /\ s \in enabled
  <2>1. status[s] = "active"
    BY <1>1 DEF PreparedUnits, Prepared, HandledAt, LeftForEnd
  <2>2. QED
    BY <1>2, <2>1 DEF IInv, ActiveInv, PreparedUnits
<1>4. Prepared(Reboot) => watch[Reboot] \cap changed = {}
  BY <1>1 DEF Prepared, HandledAt, LeftForEnd
<1>5. ~Prepared(Reboot) => watch[Reboot] = {}
  BY HostAssumption DEF IInv, OrderInv
<1>6. QED
  BY <1>3, <1>4, <1>5

\* A completed run has made every unit it prepared active and enabled it.
THEOREM CoversAll == Spec => []CompletedRunCoversAll
<1>1. IInv => CompletedRunCoversAll
  BY CompletedHandled DEF CompletedRunCoversAll
<1>2. QED
  BY <1>1, Invariance, PTL

\* A completed run leaves no unit with an old version of what it watches but
\* what it had missed before, or what changed after its restart.
THEOREM Freshness == Spec => []FreshOrExcused
<1>1. IInv => FreshOrExcused
  <2> SUFFICES ASSUME IInv, Completed, NEW s \in PreparedUnits,
                      NEW f \in Stale(s) \cap (watch[s] \cup ImageOf[s])
               PROVE  f \in excused[s]
    BY DEF FreshOrExcused
  <2>1. status[s] = "active"
    BY CompletedHandled
  <2>2. QED
    BY <2>1 DEF IInv, StaleInv, Completed, PreparedUnits
<1>2. QED
  BY <1>1, Invariance, PTL

\* No run that changed a file of the reboot watch list completes.
THEOREM RebootReported == Spec => []RebootNotSkipped
<1>1. IInv => RebootNotSkipped
  BY CompletedHandled DEF RebootNotSkipped
<1>2. QED
  BY <1>1, Invariance, PTL

\* Only StartUnit, at the position of the loop, starts a unit.
LEMMA StartedBy ==
  ASSUME IInv, [Next]_vars, NEW s \in Services, Started(s)
  PROVE  StartUnit(s)
<1> USE DEF Started, published, unit, host, script, services, pass, history
<1>1. \A x \in Services : bounced[x] \in Nat /\ bounced[x] >= 0
  BY DEF IInv, TypeOK, ServicesType
<1>2. CASE Exit \/ Boot \/ EndRun
  BY <1>1, <1>2 DEF Exit, Boot, EndRun, ForgetRun, NoStarts
<1>3. CASE NotReentrant \/ RebootRequired \/ Abort
  BY <1>2, <1>3 DEF NotReentrant, RebootRequired, Abort
<1>4. CASE Require \/ FinalRestart \/ EndPass \/ RestartNow \/ PublishTree
  BY <1>1, <1>4 DEF Require, FinalRestart, EndPass, RestartNow, PublishTree
<1>5. CASE Prepare \/ RestartAtEnd \/ Install \/ TriggerRestart \/ DockerPull
  BY <1>1, <1>5 DEF Prepare, RestartAtEnd, Install, TriggerRestart, DockerPull
<1>6. ASSUME NEW x \in Services,
             SkipService(x) \/ StopUnit(x) \/ CheckActive(x)
               \/ DisableUnit(x) \/ EnableUnit(x) \/ Crash(x)
      PROVE  FALSE
  BY <1>1, <1>6 DEF SkipService, StopUnit, CheckActive, DisableUnit, EnableUnit, Crash
<1>7. ASSUME NEW x \in Services, StartUnit(x) PROVE StartUnit(s)
  <2>1. CASE s = x
    BY <1>7, <2>1
  <2>2. CASE s # x
    <3>1. bounced'[s] = bounced[s]
      BY <1>7, <2>2 DEF StartUnit, IInv, TypeOK, ServicesType
    <3>2. QED
      BY <1>1, <3>1
  <2>3. QED
    BY <2>1, <2>2
<1>8. ASSUME NEW n \in BOOLEAN, StartRun(n) PROVE FALSE
  BY <1>1, <1>8 DEF StartRun, IInv, IdleInv, NoStarts
<1>9. ASSUME NEW i \in Images, NEW c \in Contents, PushImage(i, c) PROVE FALSE
  BY <1>1, <1>9 DEF PushImage
<1>10. CASE UNCHANGED vars
  BY <1>1, <1>10 DEF vars
<1>11. QED
  BY <1>2, <1>3, <1>4, <1>5, <1>6, <1>7, <1>8, <1>9, <1>10 DEF Next, RunStep, Trouble

\* A deferred unit starts in the last pass only.
THEOREM DeferredLast == Spec => DeferredStartsLast
<1>1. IInv /\ [Next]_vars
        => [\A s \in deferred : Started(s) => atEnd /\ todo = <<>> /\ body = <<>>]_vars
  <2> SUFFICES ASSUME IInv, [Next]_vars, NEW s \in deferred, Started(s)
               PROVE  atEnd /\ todo = <<>> /\ body = <<>>
    OBVIOUS
  <2>1. StartUnit(s)
    BY StartedBy DEF IInv, TypeOK, ServicesType
  <2>2. atEnd
    BY <2>1 DEF StartUnit, IInv, StepInv, LeftForEnd
  <2>3. QED
    BY <2>2 DEF IInv, PassInv
<1>2. QED
  BY <1>1, Invariance, PTL DEF Spec, DeferredStartsLast

\* Units start in the order in which they were prepared.
THEOREM InOrder == Spec => StartsInOrder
<1>1. IInv /\ [Next]_vars
        => [\A i \in DOMAIN order : Started(order[i]) =>
              \A j \in 1..(i - 1) : \/ order[j] = Reboot \/ LeftForEnd(order[j])
                                    \/ status[order[j]] = "active"]_vars
  <2> SUFFICES ASSUME IInv, [Next]_vars, NEW i \in DOMAIN order, Started(order[i]),
                      NEW j \in 1..(i - 1)
               PROVE  \/ order[j] = Reboot \/ LeftForEnd(order[j])
                      \/ status[order[j]] = "active"
    OBVIOUS
  <2>1. order[i] \in Services /\ i \in Nat
    BY DEF IInv, TypeOK, ServicesType
  <2>2. StartUnit(order[i])
    BY <2>1, StartedBy
  <2>3. i = pos
    BY <2>2 DEF StartUnit, IInv, StepInv, OrderInv
  <2>4. HandledAt(j)
    BY <2>1, <2>2, <2>3 DEF StartUnit, IInv, PassInv
  <2>5. QED
    BY <2>4 DEF HandledAt
<1>2. QED
  BY <1>1, Invariance, PTL DEF Spec, StartsInOrder
=============================================================================
