-------------------------------- MODULE Build --------------------------------
(***************************************************************************)
(* Building the scripts of one host: T.create_host of pkcli/build.py and   *)
(* the life of a component, component.T.build_compile and build_write.     *)
(*                                                                         *)
(* Components require each other while they compile.  Most are written     *)
(* when all have compiled, in the order of the write queue, so that others *)
(* can still add to them (ports to network, rpms to perl_rpms).  One-phase *)
(* components (internal_build) are written as soon as they have compiled.  *)
(* An assertion that fails anywhere fails the build.                       *)
(***************************************************************************)
EXTENDS Naturals, Sequences, FiniteSets, SequencesExt

CONSTANTS
  Names,  \* names of components
  Files,  \* host paths of installed files
  Items,  \* what components add to others: ports, rpms, mail domains
  Lines,  \* other lines of bash a component appends to its script
  Hosts,  \* the hosts that may be built
  Defs    \* for each host, what its components do

(***************************************************************************)
(* What a component does to the build while it compiles or is written.     *)
(***************************************************************************)
Op == [kind : {"require", "instance", "look", "has"}, compt : Names]
      \cup [kind : {"give"}, compt : Names, items : SUBSET Items]
      \cup [kind : {"install"}, file : Files, ignoreExists : BOOLEAN]
      \cup [kind : {"bash"}, line : Lines]
      \cup [kind : {"assert"}, ok : BOOLEAN]
      \cup [kind : {"install_given"}]

Component == [onePhase : BOOLEAN, compile : Seq(Op), write : Seq(Op)]

Def == [roots : Seq(Names), compt : [Names -> Component]]

ASSUME BuildAssumption ==
  /\ Hosts # {} /\ \A h \in Hosts : Defs[h] \in Def
  /\ IsFiniteSet(Items)

Stages == {"compile", "write"}

VARIABLES
  host,       \* the host that is built
  phase,      \* "require", "write", "done" or "failed"
  todo,       \* names of rsconf_db.components still to require
  stack,      \* calls under way, the innermost first
  components, \* names in T.components
  required,   \* T.components_required
  queue,      \* names in T._write_queue
  written,    \* names in T._done_components
  given,      \* what has been added to each component
  bash,       \* _root_bash of each component
  tree,       \* the files in the host's directory of the tree
  scripts     \* the components' scripts in it

vars == <<host, phase, todo, stack, components, required, queue, written, given, bash,
          tree, scripts>>
output == <<bash, tree>>

\* The component c as the host's database configures it.
Configured(c) == Defs[host].compt[c]

\* rsconf_install_file of f
InstallLine(f) == [kind |-> "file", path |-> f]

ScriptLine == [kind : {"bash"}, line : Lines] \cup [kind : {"file"}, path : Files]

WrittenScript == [name : Names, sees : SUBSET Items, found : SUBSET Names,
           bash : Seq(ScriptLine)]
Frame == [name : Names, stage : Stages, ops : Seq(Op), found : SUBSET Names]

InSeq(x, seq) == \E i \in DOMAIN seq : seq[i] = x

NewFrame(c, stage, ops) == [name |-> c, stage |-> stage, ops |-> ops, found |-> {}]

\* Mutant: a component that was required before is built again.
BuildComponent_Again(c, rest) ==
  /\ components' = components \cup {c}
  /\ stack' = <<NewFrame(c, "compile", Configured(c).compile)>> \o rest

\* build_component of a name: nothing if there is such a component (whose
\* state is _DONE from the first line of build_compile on), else compile it.
BuildComponent(c, rest) ==
  IF c \in components
    THEN stack' = rest /\ UNCHANGED components
    ELSE /\ components' = components \cup {c}
         /\ stack' = <<NewFrame(c, "compile", Configured(c).compile)>> \o rest

Fail ==
  /\ phase' = "failed"
  /\ UNCHANGED <<host, todo, stack, components, required, queue, written, given, scripts,
                 output>>

-----------------------------------------------------------------------------
(* create_host                                                             *)

\* require_component of the components the database lists
RequireRoot ==
  /\ phase = "require" /\ stack = <<>> /\ todo # <<>>
  /\ todo' = Tail(todo)
  /\ BuildComponent(Head(todo), <<>>)
  /\ UNCHANGED <<host, phase, required, queue, written, given, scripts, output>>

\* _do_write_queue
StartWrites ==
  /\ phase = "require" /\ stack = <<>> /\ todo = <<>>
  /\ phase' = "write"
  /\ UNCHANGED <<host, todo, stack, components, required, queue, written, given, scripts,
                 output>>

\* The next of the queue is taken out, marked done and written.
WriteNext ==
  /\ phase = "write" /\ stack = <<>> /\ queue # <<>>
  /\ queue' = Tail(queue)
  /\ written' = written \cup {Head(queue)}
  /\ stack' = <<NewFrame(Head(queue), "write", Configured(Head(queue)).write)>>
  /\ UNCHANGED <<host, phase, todo, components, required, given, scripts, output>>

\* write_root_bash("000"): rsconf_require of components_required
WriteRoot ==
  /\ phase = "write" /\ stack = <<>> /\ queue = <<>>
  /\ phase' = "done"
  /\ UNCHANGED <<host, todo, stack, components, required, queue, written, given, scripts,
                 output>>

-----------------------------------------------------------------------------
(* What a component does                                                   *)

Building(kind) ==
  /\ phase \in {"require", "write"} /\ stack # <<>>
  /\ Head(stack).ops # <<>> /\ Head(Head(stack).ops).kind = kind

op == Head(Head(stack).ops)

\* The frame of a component, past its next operation, with what it has found
Past(frame, found) ==
  [name |-> frame.name, stage |-> frame.stage, ops |-> Tail(frame.ops), found |-> found]

\* The calls under way, with the innermost past its next operation.
Rest == <<Past(Head(stack), Head(stack).found)>> \o Tail(stack)

\* require_component
Require ==
  /\ Building("require")
  /\ BuildComponent(op.compt, Rest)
  /\ UNCHANGED <<host, phase, todo, required, queue, written, given, scripts, output>>

\* build_component of a new T: "duplicate component" if there is one
BuildInstance ==
  /\ Building("instance")
  /\ IF op.compt \in components
       THEN Fail
       ELSE /\ BuildComponent(op.compt, Rest)
            /\ UNCHANGED <<host, phase, todo, required, queue, written, given, scripts, output>>

\* Mutant: any component that has been built is found.
GetComponent_Built ==
  /\ Building("give")
  /\ IF op.compt \notin components
       THEN Fail
       ELSE /\ given' = [given EXCEPT ![op.compt] = @ \cup op.items]
            /\ stack' = Rest
            /\ UNCHANGED <<host, phase, todo, components, required, queue, written, scripts,
                           output>>

\* get_component, and add to what it returns: "component not in write_queue"
GetComponent ==
  /\ Building("give")
  /\ IF ~InSeq(op.compt, queue)
       THEN Fail
       ELSE /\ given' = [given EXCEPT ![op.compt] = @ \cup op.items]
            /\ stack' = Rest
            /\ UNCHANGED <<host, phase, todo, components, required, queue, written, scripts,
                           output>>

\* get_component(in_write_queue=False): "component not found"
LookComponent ==
  /\ Building("look")
  /\ IF InSeq(op.compt, queue) \/ op.compt \in written
       THEN /\ stack' = Rest
            /\ UNCHANGED <<host, phase, todo, components, required, queue, written, given,
                           scripts, output>>
       ELSE Fail

\* Mutant: only components that have been written are found.
HasComponent_Written ==
  /\ Building("has")
  /\ stack' = <<Past(Head(stack), Head(stack).found \cup ({op.compt} \cap written))>>
              \o Tail(stack)
  /\ UNCHANGED <<host, phase, todo, components, required, queue, written, given, scripts,
                 output>>

\* has_component: is it in the write queue?
HasComponent ==
  /\ Building("has")
  /\ stack' = <<Past(Head(stack), Head(stack).found
                                    \cup {c \in {op.compt} : InSeq(c, queue)})>>
              \o Tail(stack)
  /\ UNCHANGED <<host, phase, todo, components, required, queue, written, given, scripts,
                 output>>

AppendBash(line) == bash' = [bash EXCEPT ![Head(stack).name] = Append(@, line)]

\* append_root_bash
AppendRootBash ==
  /\ Building("bash")
  /\ AppendBash(op)
  /\ stack' = Rest
  /\ UNCHANGED <<host, phase, todo, components, required, queue, written, given, tree, scripts>>

\* Mutant: the second install of a file writes it again.
InstallFile_Again ==
  /\ Building("install")
  /\ tree' = tree \cup {op.file}
  /\ AppendBash(InstallLine(op.file))
  /\ stack' = Rest
  /\ UNCHANGED <<host, phase, todo, components, required, queue, written, given, scripts>>

\* _bash_append_and_dst: "dst already exists", unless that is to be ignored,
\* and then the script gets no rsconf_install_file either.
InstallFile ==
  /\ Building("install")
  /\ IF op.file \in tree /\ ~op.ignoreExists
       THEN Fail
       ELSE /\ tree' = tree \cup {op.file}
            /\ IF op.file \in tree THEN UNCHANGED bash ELSE AppendBash(InstallLine(op.file))
            /\ stack' = Rest
            /\ UNCHANGED <<host, phase, todo, components, required, queue, written, given,
                           scripts>>

\* Installs the files others have added to the component, those not installed
\* yet: the loops of perl_rpms.internal_build_write and install_perl_rpm.
InstallGiven ==
  /\ Building("install_given")
  /\ LET c == Head(stack).name  new == SetToSeq((given[c] \cap Files) \ tree) IN
       /\ tree' = tree \cup (given[c] \cap Files)
       /\ bash' = [bash EXCEPT ![c] = @ \o [i \in DOMAIN new |-> InstallLine(new[i])]]
  /\ stack' = Rest
  /\ UNCHANGED <<host, phase, todo, components, required, queue, written, given, scripts>>

\* An assertion of a component about its host's configuration
AssertHost ==
  /\ Building("assert")
  /\ IF op.ok
       THEN /\ stack' = Rest
            /\ UNCHANGED <<host, phase, todo, components, required, queue, written, given,
                           scripts, output>>
       ELSE Fail

-----------------------------------------------------------------------------
(* The end of build_compile and build_write                                *)

AtEnd(stage) ==
  /\ phase \in {"require", "write"} /\ stack # <<>>
  /\ Head(stack).ops = <<>> /\ Head(stack).stage = stage

\* internal_build_compile returns: append_write_queue.  Then build_component
\* appends the name to components_required, after those it requires.
Queue ==
  /\ AtEnd("compile") /\ ~Configured(Head(stack).name).onePhase
  /\ queue' = Append(queue, Head(stack).name)
  /\ required' = Append(required, Head(stack).name)
  /\ stack' = Tail(stack)
  /\ UNCHANGED <<host, phase, todo, components, written, given, scripts, output>>

\* internal_build returns: build_write follows at once.
WriteNow ==
  /\ AtEnd("compile") /\ Configured(Head(stack).name).onePhase
  /\ LET c == Head(stack).name IN
       stack' = <<[name |-> c, stage |-> "write", ops |-> Configured(c).write,
                   found |-> Head(stack).found]>> \o Tail(stack)
  /\ UNCHANGED <<host, phase, todo, components, required, queue, written, given, scripts,
                 output>>

\* Mutant: a one-phase component is listed before the components it requires.
EndWrite_First ==
  /\ AtEnd("write")
  /\ LET c == Head(stack).name IN
       /\ scripts' = scripts \cup {[name |-> c, sees |-> given[c],
                                    found |-> Head(stack).found,
                                    bash |-> bash[c]]}
       /\ required' = IF Configured(c).onePhase THEN <<c>> \o required ELSE required
       /\ stack' = Tail(stack)
  /\ UNCHANGED <<host, phase, todo, components, queue, written, given, output>>

\* internal_build_write returns: write_root_bash of the component's script
EndWrite ==
  /\ AtEnd("write")
  /\ LET c == Head(stack).name IN
       /\ scripts' = scripts \cup {[name |-> c, sees |-> given[c],
                                    found |-> Head(stack).found,
                                    bash |-> bash[c]]}
       /\ required' = IF Configured(c).onePhase THEN Append(required, c) ELSE required
       /\ stack' = Tail(stack)
  /\ UNCHANGED <<host, phase, todo, components, queue, written, given, output>>

-----------------------------------------------------------------------------
Init ==
  /\ host \in Hosts /\ todo = Defs[host].roots
  /\ phase = "require"
  /\ stack = <<>> /\ components = {} /\ required = <<>> /\ queue = <<>> /\ written = {}
  /\ given = [c \in Names |-> {}] /\ bash = [c \in Names |-> <<>>]
  /\ tree = {} /\ scripts = {}

\* The build has ended.
Ended == phase \in {"done", "failed"} /\ UNCHANGED vars

Next ==
  \/ Ended \/ RequireRoot \/ StartWrites \/ WriteNext \/ WriteRoot
  \/ Require \/ BuildInstance \/ GetComponent \/ LookComponent \/ HasComponent
  \/ AppendRootBash \/ InstallFile \/ InstallGiven \/ AssertHost \/ Queue \/ WriteNow \/ EndWrite

Spec == Init /\ [][Next]_vars

-----------------------------------------------------------------------------
(* Properties                                                              *)

Built == phase = "done"

\* What the database can ask for builds: no two components install the same
\* file unless it is meant to be shared, none is asked for before it is there
\* or made twice, and no assertion about the host fails.
HostBuilds == phase # "failed"

\* Every variable has its type, and a component is on the stack, in the queue
\* or done only if the build knows it; it is in the queue or done, not both.
TypeOK ==
  /\ host \in Hosts /\ phase \in {"require", "write", "done", "failed"}
  /\ todo \in Seq(Names) /\ stack \in Seq(Frame)
  /\ components \subseteq Names
  /\ required \in Seq(components) /\ queue \in Seq(components)
  /\ written \subseteq components \ {queue[i] : i \in DOMAIN queue}
  /\ \A i \in DOMAIN stack : stack[i].name \in components
  /\ given \in [Names -> SUBSET Items] /\ scripts \subseteq WrittenScript
  /\ bash \in [Names -> Seq(ScriptLine)]
  /\ tree \subseteq Files

Position(c) == CHOOSE i \in DOMAIN required : required[i] = c

Requires(c) ==
  {o.compt : o \in {Configured(c).compile[i] : i \in DOMAIN Configured(c).compile}
                     \cap [kind : {"require", "instance"}, compt : Names]}

\* "dependencies in build_compile() must come first": 000.sh lists a component
\* after everything it requires, however the calls are nested and whichever of
\* the two phases writes it.
DependenciesFirst ==
  Built => \A i \in DOMAIN required : \A d \in Requires(required[i]) \ {required[i]} :
             InSeq(d, required) /\ Position(d) < i

\* 000.sh lists each component once, and there is one script for each.
OneScriptPerComponent ==
  Built => /\ \A i, j \in DOMAIN required : required[i] = required[j] => i = j
           /\ {s.name : s \in scripts} = {required[i] : i \in DOMAIN required}
           /\ \A s, t \in scripts : s.name = t.name => s = t

\* Nothing is added to a component whose script has been written: no port or
\* rpm is lost because the component that asks for it comes late.
NothingGivenTooLate == \A s \in scripts : s.sees = given[s.name]

Asks(c) ==
  {o.compt : o \in {Configured(c).write[i] : i \in DOMAIN Configured(c).write}
                     \cap [kind : {"has"}, compt : Names]}

\* A two-phase component that asks, when it is written, for one that requires
\* it (base_os asks for postfix) gets the answer 000.sh gives.
AnswerAgrees ==
  Built => \A s \in scripts : \A d \in Asks(s.name) :
             s.name \in Requires(d) /\ ~Configured(s.name).onePhase /\ ~Configured(d).onePhase
               => (d \in s.found <=> InSeq(d, required))

\* Every file of the tree is installed by the script of exactly one component,
\* and that script is in 000.sh: also a tls certificate several share.
SharedFileInstalledOnce ==
  Built => \A f \in tree : \E c \in written \cup components :
             /\ InSeq(c, required)
             /\ \A s \in scripts :
                  {i \in DOMAIN s.bash : s.bash[i] = InstallLine(f)} # {} <=> s.name = c

-----------------------------------------------------------------------------
(* The inductive invariant                                                 *)

HasScript(c) == \E s \in scripts : s.name = c
OnStack(c)   == \E i \in DOMAIN stack : stack[i].name = c

\* A component is on the stack once.  While it compiles it is nowhere else;
\* while it is written it has no script, and is required if it is in two phases.
StackInv ==
  /\ \A i, j \in DOMAIN stack : stack[i].name = stack[j].name => i = j
  /\ \A i \in DOMAIN stack :
       /\ ~HasScript(stack[i].name) /\ ~InSeq(stack[i].name, queue)
       /\ InSeq(stack[i].name, required)
            <=> stack[i].stage = "write" /\ ~Configured(stack[i].name).onePhase
       /\ stack[i].stage = "compile" => stack[i].name \notin written

\* The queue has the two-phase components that are still to be written.
QueueInv ==
  /\ \A i, j \in DOMAIN queue : queue[i] = queue[j] => i = j
  /\ \A i \in DOMAIN queue :
       InSeq(queue[i], required) /\ ~HasScript(queue[i]) /\ ~Configured(queue[i]).onePhase
  /\ \A i, j \in DOMAIN required : required[i] = required[j] => i = j
  /\ \A c \in components : OnStack(c) \/ InSeq(c, required)
  /\ \A i \in DOMAIN required :
       HasScript(required[i]) \/ InSeq(required[i], queue) \/ OnStack(required[i])
  /\ phase = "done" => stack = <<>> /\ queue = <<>>

\* A script is of a required component, and has what was added to it.
ScriptsInv ==
  /\ \A s \in scripts : InSeq(s.name, required) /\ s.sees = given[s.name] /\ s.bash = bash[s.name]
  /\ \A s, t \in scripts : s.name = t.name => s = t

Installs(c, f) == InSeq(InstallLine(f), bash[c])

\* Each file of the tree is installed by one component the build knows.
FilesInv ==
  /\ \A f \in Files : \A c, d \in Names : Installs(c, f) /\ Installs(d, f) => c = d
  /\ \A f \in Files : f \in tree <=> \E c \in components : Installs(c, f)
  /\ \A f \in Files : \A c \in Names : Installs(c, f) => c \in components

IInv == TypeOK /\ StackInv /\ QueueInv /\ ScriptsInv /\ FilesInv

-----------------------------------------------------------------------------
(* What some of the theorems assume of the components                      *)

\* What ops requires before its line n
NeedsBefore(ops, n) ==
  {ops[p].compt : p \in {p \in DOMAIN ops : p < n /\ ops[p].kind \in {"require", "instance"}}}

Needs(ops) == NeedsBefore(ops, Len(ops) + 1)

\* No component requires, while it compiles or is written, one that is above it.
Ranked(rank) ==
  /\ rank \in [Names -> Nat]
  /\ \A h \in Hosts : LET compt == Defs[h].compt IN
       \A c \in Names : \A d \in Needs(compt[c].compile) \cup Needs(compt[c].write) :
         d = c \/ rank[d] < rank[c]

\* Two-phase components require others while they compile only.
QuietWrites ==
  \A h \in Hosts : LET compt == Defs[h].compt IN
    \A c \in Names : ~compt[c].onePhase => Needs(compt[c].write) = {}

\* No component asks has_component for itself.
NoneAsksForItself ==
  \A h \in Hosts : LET compt == Defs[h].compt IN
    \A c \in Names : \A p \in DOMAIN compt[c].write :
      LET o == compt[c].write[p] IN o.kind = "has" => o.compt # c

\* What has come once c has required what ops does before line n: with each
\* component what it brings.
With(brings, d) == {d} \cup brings[d]
Comes(brings, ops, c, n) == UNION {With(brings, d) : d \in NeedsBefore(ops, n) \ {c}}

ComesWith(brings, compt, c) == Comes(brings, compt[c].compile, c, Len(compt[c].compile) + 1)

Brought(brings) ==
  \A h \in Hosts : LET compt == Defs[h].compt IN
    \A c \in Names : brings[h][c] \subseteq ComesWith(brings[h], compt, c)

\* Nothing but d requires c, nor does the database: sirepo_job_supervisor is part
\* of sirepo.
PartOf(def, c, d) ==
  /\ c # d /\ ~InSeq(c, def.roots)
  /\ \A e \in Names \ {d} :
       c \notin Needs(def.compt[e].compile) \cup Needs(def.compt[e].write)

Searches(o) == o.kind \in {"give", "look"}

\* What comes with the components the database lists before c, if c is required
\* by nothing else: sirepo_test_http is listed after sirepo.
ListedBefore(brings, def, c) ==
  IF /\ InSeq(c, def.roots)
     /\ \A e \in Names : c \notin Needs(def.compt[e].compile) \cup Needs(def.compt[e].write)
    THEN {d \in Names : \A k \in DOMAIN def.roots : def.roots[k] = c =>
            \E j \in DOMAIN def.roots : j < k /\ d \in With(brings, def.roots[j])}
    ELSE {}

\* c calls get_component for two-phase components only: those that come with
\* what it has required before, or with what the database lists before, and, when
\* it adds something to one while it is written in the second phase, for the one
\* it is a part of.
Careful(brings, def, c) ==
  LET this == def.compt[c] IN
  /\ \A p \in DOMAIN this.compile : Searches(this.compile[p]) =>
       LET d == this.compile[p].compt IN
       /\ ~def.compt[d].onePhase
       /\ d \in Comes(brings, this.compile, c, p) \cup ListedBefore(brings, def, c)
  /\ \A p \in DOMAIN this.write : Searches(this.write[p]) =>
       LET d == this.write[p].compt IN
       /\ ~def.compt[d].onePhase
       /\ IF this.write[p].kind = "give" /\ ~this.onePhase
            THEN PartOf(def, c, d)
            ELSE d \in ComesWith(brings, def.compt, c)

\* What c does in a stage
OpsOf(def, c, stage) ==
  IF stage = "compile" THEN def.compt[c].compile ELSE def.compt[c].write

\* Nothing but line p of c requires the component that it makes: neither another
\* of names nor the database.
SoleMaker(def, names, c, stage, p) ==
  LET d == OpsOf(def, c, stage)[p].compt IN
  /\ ~InSeq(d, def.roots)
  /\ \A e \in names, t \in Stages : \A q \in DOMAIN OpsOf(def, e, t) :
       LET o == OpsOf(def, e, t)[q] IN
       o.kind \in {"require", "instance"} /\ o.compt = d => <<e, t, q>> = <<c, stage, p>>

\* Nothing but line p of c installs its file.
SoleInstaller(def, names, c, stage, p) ==
  LET f == OpsOf(def, c, stage)[p].file IN
  \A e \in names, t \in Stages : \A q \in DOMAIN OpsOf(def, e, t) :
    LET o == OpsOf(def, e, t)[q] IN
    /\ o.kind = "install" /\ o.file = f => <<e, t, q>> = <<c, stage, p>>
    /\ o.kind = "give" => f \notin o.items

\* The components of a host are among names; there are no two that make the same
\* component or, if it is not meant to be shared, install the same file; and what
\* they assert holds.
Consistent(def, names) ==
  /\ names \subseteq Names /\ \A c \in Names : InSeq(c, def.roots) => c \in names
  /\ \A c \in names, stage \in Stages :
       LET ops == OpsOf(def, c, stage) IN
       /\ Needs(ops) \subseteq names
       /\ \A p \in DOMAIN ops :
            /\ ops[p].kind = "instance" => SoleMaker(def, names, c, stage, p)
            /\ ops[p].kind = "install" /\ ~ops[p].ignoreExists =>
                 SoleInstaller(def, names, c, stage, p)
            /\ ops[p].kind = "assert" => ops[p].ok

Fitting(brings, names) ==
  \A h \in Hosts :
    Consistent(Defs[h], names[h]) /\ \A c \in names[h] : Careful(brings[h], Defs[h], c)

\* get_component finds what a careful component asks for: neither "component
\* not in write_queue" nor "component not found".
LookupsSucceed(brings) ==
  stack # <<>> /\ Careful(brings[host], Defs[host], Head(stack).name) =>
    /\ Building("give") => InSeq(op.compt, queue)
    /\ Building("look") => InSeq(op.compt, queue) \/ op.compt \in written
=============================================================================
