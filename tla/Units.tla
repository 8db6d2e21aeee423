-------------------------------- MODULE Units --------------------------------
(***************************************************************************)
(* What component code says to the build: the calls of component.T and of  *)
(* systemd.py, as sequences of the operations of Build.  A host path is    *)
(* the sequence of its names.  install_access is left out.                 *)
(***************************************************************************)
EXTENDS Sequences, SequencesExt

If(condition, ops) == IF condition THEN ops ELSE <<>>
ForEach(values, Ops(_)) == FlattenSeq([i \in DOMAIN values |-> Ops(values[i])])

-----------------------------------------------------------------------------
(* The build                                                               *)

Compt(kind, c) == [kind |-> kind, compt |-> c]

Req(names)   == [i \in DOMAIN names |-> Compt("require", names[i])]
Inst(c)      == <<Compt("instance", c)>>
Look(c)      == <<Compt("look", c)>>
Has(c)       == <<Compt("has", c)>>
Get(c)       == <<[kind |-> "give", compt |-> c, items |-> {}]>>
Give(c, set) == <<[kind |-> "give", compt |-> c, items |-> {<<x>> : x \in set}]>>
Check(ok)    == <<[kind |-> "assert", ok |-> ok]>>
InstallGivenFiles == <<[kind |-> "install_given"]>>

\* A component built in two phases, and one built in one.
TwoPhase(compile, write) == [onePhase |-> FALSE, compile |-> compile, write |-> write]
OnePhase(ops)            == [onePhase |-> TRUE, compile |-> ops, write |-> <<>>]

-----------------------------------------------------------------------------
(* Files and lines of a component's script                                 *)

Install(path, ignore) == [kind |-> "install", file |-> path, ignoreExists |-> ignore]
Bash(line)            == <<[kind |-> "bash", line |-> line]>>

File(path)      == <<Install(path, FALSE)>>
Shared(path)    == <<Install(path, TRUE)>>
In(d, names)    == [i \in DOMAIN names |-> Install(Append(d, names[i]), FALSE)]
Directory(path) == Bash([kind |-> "directory", path |-> path])

\* rsconf_append, rsconf_edit, rsconf_install_symlink, ensure_file_exists
Change(path)    == Bash([kind |-> "change", path |-> path])

\* yum, a main function, a service at its first start: leaves directories
Shell(makes)    == Bash([kind |-> "shell", makes |-> makes])

Prepare(service, watch) ==
  Bash([kind |-> "prepare", service |-> service, watch |-> watch])
Restart         == Bash([kind |-> "restart"])
RestartAtEnd(service) == Bash([kind |-> "at_end", service |-> service])

\* rsconf_service_docker_pull: a new image restarts the service.
Pull(service)   == Bash([kind |-> "pull", service |-> service])

Line == [kind : {"directory", "change"}, path : Seq(STRING)]
        \cup [kind : {"shell"}, makes : SUBSET Seq(STRING)]
        \cup [kind : {"prepare"}, service : STRING, watch : SUBSET Seq(STRING)]
        \cup [kind : {"restart"}]
        \cup [kind : {"at_end", "pull"}, service : STRING]

\* install_tls_key_and_crt, of the wildcard's key and crt when it has one
TlsKeyAndCrt(h, domain, d) ==
  LET name == IF "wildcard" \in h.opts THEN "star" ELSE domain
  IN  Shared(Append(d, name \o ".key")) \o Shared(Append(d, name \o ".crt"))

-----------------------------------------------------------------------------
(* systemd.py                                                              *)

SystemD       == <<"etc", "systemd", "system">>
RunD(unit)    == <<"srv", unit>>
ServiceF(unit) == Append(SystemD, unit \o ".service")
TimerF(unit)  == Append(SystemD, unit \o ".timer")
OverrideD(unit) == Append(SystemD, unit \o ".service.d")

\* Mutant: a service does not watch the overrides of its unit.
UnitPrepare_NoOverride(unit, watch) == Prepare(unit, {ServiceF(unit)} \cup watch)

UnitPrepare(unit, watch) ==
  Prepare(unit, {ServiceF(unit), OverrideD(unit)} \cup watch)

CustomUnitPrepare(compt, unit, watch) ==
  UnitPrepare(unit, {RunD(compt)} \cup watch)

DockerUnitPrepare(compt, unit, watch) == CustomUnitPrepare(compt, unit, watch)

TimerPrepare(unit) ==
  Prepare(unit \o ".timer", {ServiceF(unit), TimerF(unit), RunD(unit)})

CustomUnitEnable(unit, scripts) ==
  Directory(RunD(unit)) \o In(RunD(unit), scripts) \o File(ServiceF(unit))

\* How a docker unit is: "exec", with a docker_exec; "timer", of a timer; "local", with
\* an image that is not pulled.
DockerUnitEnable(compt, unit, how) ==
  Directory(RunD(compt))
  \o In(RunD(compt), (IF "exec" \in how THEN <<"cmd">> ELSE <<>>)
                     \o <<"env", "remove", "start", "stop">>)
  \o If("timer" \in how, File(TimerF(unit)))
  \o File(ServiceF(unit))
  \o If("local" \notin how, Pull(unit))

InstallUnitOverride(unit) ==
  Directory(OverrideD(unit)) \o File(Append(OverrideD(unit), "99-rsconf.conf"))

TimerEnable(unit) ==
  Directory(RunD(unit)) \o In(RunD(unit), <<"start">>)
  \o File(TimerF(unit)) \o File(ServiceF(unit))

-----------------------------------------------------------------------------
(* What components do for others                                           *)

NginxConfD == <<"etc", "nginx", "conf.d">>

\* nginx.install_vhost and render_redirects: the host must be in the network.
InstallVhost(h, vhost) ==
  Look("network") \o TlsKeyAndCrt(h, vhost, NginxConfD)
  \o In(NginxConfD, <<vhost \o ".conf">>)

RenderRedirects(h, names) ==
  ForEach(names, LAMBDA s : Look("network")
                            \o If("tls" \in h.opts, TlsKeyAndCrt(h, s, NginxConfD)))

InstallAuth(name) == In(NginxConfD, <<name>>)

LogrotateConf(compt) == In(<<"etc", "logrotate.d">>, <<compt>>)

\* db_bkp.install_script_and_subdir
DbBkpScript(d) == In(d, <<"db_bkp.sh">>) \o Directory(Append(d, "db_bkp"))

\* Mutant: the hosts' directories are made, not the one they are in.
SetupCluster_NoTop(hosts, tlsD) ==
  ForEach(hosts, LAMBDA host : Directory(Append(tlsD, host))
            \o In(Append(tlsD, host), <<"cacert.pem", "cert.pem", "key.pem">>))

\* docker.setup_cluster
SetupCluster(hosts, tlsD) ==
  Directory(tlsD)
  \o ForEach(hosts, LAMBDA host : Directory(Append(tlsD, host))
               \o In(Append(tlsD, host), <<"cacert.pem", "cert.pem", "key.pem">>))
=============================================================================
