------------------------------ MODULE SiteBuild ------------------------------
(***************************************************************************)
(* Hosts built from the components of Site and Apps, and what their        *)
(* scripts do when rsconf.sh runs them one after the other on a new host.  *)
(***************************************************************************)
EXTENDS Apps, FiniteSets

\* The component of each name: create_host's import, and the instances that
\* bop, devbox and vm_devbox make
SiteCompts(h) ==
  [base_all |-> BaseAll(h), base_os |-> BaseOs(h), base_users |-> BaseUsers(h),
   bivio_named |-> BivioNamed(h), bkp |-> Bkp(h), bop |-> Bop(h), bop_timer |-> BopTimer(h),
   btest |-> Btest(h), db_bkp |-> DbBkp(h), devbox |-> Devbox(h),
   devbox_ann |-> DevboxOf("ann"), devbox_ian |-> DevboxOf("ian"),
   docker |-> Docker(h), docker_cache |-> DockerCache(h),
   docker_registry |-> DockerRegistry(h), dovecot |-> Dovecot(h),
   github_bkp |-> GithubBkp(h), jupyterhub |-> Jupyterhub(h),
   jupyterhub_proxy |-> JupyterhubProxy(h), logrotate |-> Logrotate(h), mlflow |-> Mlflow(h),
   mongod |-> Mongod(h), mpi_worker |-> MpiWorker(h), named |-> Named(h),
   network |-> Network(h), nfs_client |-> NfsClient(h), nfs_server |-> NfsServer(h),
   nginx |-> Nginx(h), opendkim |-> Opendkim(h), perl_rpms |-> PerlRpms(h),
   petshop |-> BopApp(h, "petshop"), postfix |-> Postfix(h), postgresql |-> Postgresql(h),
   postgrey |-> Postgrey(h), raydata_scan_monitor |-> RaydataScanMonitor(h),
   rsaccounting |-> Rsaccounting(h), rsconf |-> Rsconf(h), rsiviz |-> Rsiviz(h),
   script |-> Script(h), sirepo |-> Sirepo(h),
   sirepo_job_supervisor |-> SirepoJobSupervisor(h),
   sirepo_jupyterhub |-> SirepoJupyterhub(h), sirepo_test_http |-> SirepoTestHttp(h),
   societas |-> BopApp(h, "societas"), spamd |-> Spamd(h), vm_devbox |-> VmDevbox(h),
   vm_devbox_ann |-> VmDevboxOf(h, "ann"), vm_devbox_ian |-> VmDevboxOf(h, "ian")]

SiteDef(h) == [roots |-> h.roots, compt |-> SiteCompts(h)]

-----------------------------------------------------------------------------
(* A run of the scripts on a host that was just installed                  *)

ScriptLines(c) ==
  LET lines == (CHOOSE s \in scripts : s.name = c).bash
  IN  [j \in DOMAIN lines |-> IF lines[j].kind = "bash" THEN lines[j].line ELSE lines[j]]

\* The lines of all scripts, in the order of 000.sh
Run == FlattenSeq([i \in DOMAIN required |-> ScriptLines(required[i])])

Under(path, d) == Len(d) <= Len(path) /\ SubSeq(path, 1, Len(d)) = d

Makes(line) == CASE line.kind \in {"file", "directory"} -> {line.path}
                 [] line.kind = "shell" -> line.makes
                 [] OTHER -> {}

\* A new host: line i changes what no line before it has made.
ChangedAt(run, i) ==
  IF run[i].kind = "change" THEN {run[i].path}
  ELSE (IF run[i].kind = "shell" THEN {} ELSE Makes(run[i]))
       \ UNION {Makes(run[j]) : j \in 1..(i - 1)}

AtEndBefore(run, service, i) ==
  \E j \in 1..(i - 1) : run[j].kind = "at_end" /\ run[j].service = service

Prepares(run) == {i \in DOMAIN run : run[i].kind = "prepare" /\ run[i].service # "reboot"}

\* What the distribution and its packages bring to a new host
OsDirs ==
  {<<>>, <<"root">>, <<"run">>, <<"srv">>, <<"var", "log">>, Etc("pam.d"), Etc("ssh"),
   Etc("yum.repos.d"), Etc("sysctl.d"), Etc("systemd"), SystemD, <<"etc">>,
   <<"etc", "security", "limits.d">>, Etc("sysconfig"), NetworkScripts, Connections,
   Etc("logrotate.d"), <<"etc", "pki", "ca-trust", "source", "anchors">>, Etc("mail"),
   <<"home">>, Home("vagrant"), Home("cluster")}

-----------------------------------------------------------------------------
(* Properties                                                              *)

\* "Only one re/start per install" (rsconf.sh): once a service has been
\* (re)started, nothing it watches changes, and no image of it is pulled.
RestartSeesAll ==
  Built => LET run == Run IN
    \A p \in Prepares(run) : \A r \in (p + 1)..Len(run) :
      run[r].kind = "restart" /\ ~AtEndBefore(run, run[p].service, r) =>
        \A i \in (r + 1)..Len(run) :
          /\ \A path \in ChangedAt(run, i), w \in run[p].watch : ~Under(path, w)
          /\ run[i].kind = "pull" => run[i].service # run[p].service

\* "parent directory must already exist" (rsconf_install_directory): no line
\* puts a file or a directory into one that the lines before it do not make.
ParentsFirst ==
  Built => LET run == Run IN
    \A i \in DOMAIN run : run[i].kind \in {"file", "directory"} =>
      LET parent == Front(run[i].path) IN
        parent \in OsDirs \/ \E j \in 1..(i - 1) : parent \in Makes(run[j])

\* Over all the scripts of a host, each service but reboot is prepared once.
PreparedOnce(run) == \A p, q \in Prepares(run) : run[p].service = run[q].service => p = q

\* The scripts of the host as the commands of HostRun; the files a prepare
\* watches are those some script installs under its paths.
CommandOf(line, files) ==
  CASE line.kind = "prepare" -> [kind |-> "prepare", svc |-> line.service,
                                 watch |-> {f \in files : \E d \in line.watch : Under(f, d)}]
    [] line.kind \in {"file", "change"} -> [kind |-> "install", file |-> line.path]
    [] line.kind = "at_end" -> [kind |-> "defer", svc |-> line.service]
    [] OTHER -> [kind |-> line.kind]

HostTree(run) ==
  LET files == {run[i].path : i \in {j \in DOMAIN run : run[j].kind \in {"file", "change"}}} IN
  [requires |-> required,
   body |-> [c \in {required[i] : i \in DOMAIN required} |->
               LET lines == ScriptLines(c) IN [j \in DOMAIN lines |-> CommandOf(lines[j], files)]]]

Scripts == INSTANCE ScriptShape

\* "rsconf_service_prepare is not re-entrant", and what the theorem about
\* HostRun's StaleOnlyAfterFailure assumes of scripts: each service is prepared
\* once, and whatever component installs a file it watches, the restart that
\* the file asks for comes later.
ScriptsShaped ==
  Built => LET run == Run
               built == HostTree(run)
               late(s) == \E j \in DOMAIN run : run[j].kind = "at_end" /\ run[j].service = s
    IN /\ PreparedOnce(run)
       /\ \A c \in DOMAIN built.body : \A p \in DOMAIN built.body[c] :
            LET line == built.body[c][p] IN
              line.kind = "prepare" /\ line.svc # "reboot" =>
                Scripts!UnitShape({built}, line.svc, c, line.watch, late(line.svc))

\* Files that are read when they are used, or applied by a main function, and
\* that no daemon has to be restarted for
ReadWhenUsed ==
  {<<"root">>, Etc("pam.d"), Etc("yum.repos.d"), Etc("sysctl.d"), Etc("hostname"), Etc("motd"),
   Etc("duo"), Etc("logrotate.conf"), Etc("logrotate.d"), Etc("aliases"), Etc("sasl2"),
   <<"home">>, <<"etc", "pki", "ca-trust", "source", "anchors">>}

\* Configuration that its daemon reads at start and that no watch covers
UnwatchedConf == {NfsConfD, JournaldSystemD}

\* A changed configuration reaches its daemon: every file a script installs
\* is under a path some service of the host watches, but for those above and
\* the rpms (which only the applications watch) and the scripts of db_bkp.
ConfigWatched ==
  Built => LET run == Run
               watched == UNION {run[i].watch : i \in {j \in DOMAIN run : run[j].kind = "prepare"}}
    IN \A i \in DOMAIN run : run[i].kind = "file" =>
         \/ Len(run[i].path) = 1 \/ Last(run[i].path) = "db_bkp.sh"
         \/ \E d \in watched \cup ReadWhenUsed \cup UnwatchedConf : Under(run[i].path, d)
=============================================================================
