-------------------------------- MODULE Apps --------------------------------
(***************************************************************************)
(* The rest of src/rsconf/component: databases, name and file servers,     *)
(* sirepo and jupyterhub with their hosts, and development machines.       *)
(***************************************************************************)
EXTENDS Site

Named(h) ==
  LET d == Append(RunD("named"), "db") IN
  [onePhase |-> TRUE,
   compile |-> Req(<<"base_all">>) \o Shell({}) \o CustomUnitPrepare("named", "named", {})
               \o Give("network", {"domain"}) \o Check(PublicIp(h) \/ "dev" \in h.opts),
   write |-> Directory(RunD("named")) \o Directory(d)
             \o In(d, <<"named.root", "one.example", "zones.conf", "named.conf">>)
             \o CustomUnitEnable("named", <<"start">>)]

\* Its rpm makes run_d.
BivioNamed(h) ==
  LET rpm == RpmOf("bivio-named")  d == RunD("bivio_named") IN
  [onePhase |-> TRUE,
   compile |-> Req(<<"base_all">>) \o Shell({d}) \o Shared(rpm)
               \o CustomUnitPrepare("bivio_named", "bivio_named", {rpm})
               \o Give("network", {"domain"}) \o Check(PublicIp(h) \/ "dev" \in h.opts),
   write |-> Directory(Append(d, "db")) \o In(d, <<"named.conf">>)
             \o CustomUnitEnable("bivio_named", <<"start">>)]

-----------------------------------------------------------------------------
(* Databases and file servers                                              *)

\* main runs initdb, which makes the data directory.
Postgresql(h) ==
  LET d == RunD("postgresql")  data == Append(d, "data") IN
  OnePhase(
    Req(<<"base_all">>) \o Shell({}) \o Directory(<<"var", "log", "postgresql">>)
    \o Shell({d, data}) \o UnitPrepare("postgresql", {d})
    \o Change(Append(data, "postgresql.conf")) \o TlsKeyAndCrt(h, "host", data)
    \o In(data, <<"rsconf.conf", "pg_hba.conf">>) \o LogrotateConf("postgresql")
    \o InstallUnitOverride("postgresql") \o Restart)

Mongod(h) ==
  LET d == RunD("mongod") IN
  TwoPhase(
    Req(<<"base_all">>) \o CustomUnitPrepare("mongod", "mongod", {}),
    Shell({}) \o LogrotateConf("mongod") \o InstallUnitOverride("mongod")
    \o CustomUnitEnable("mongod", <<"start">>)
    \o Directory(Append(d, "db")) \o Directory(Append(d, "log")) \o In(d, <<"mongod.conf">>)
    \o Restart)

NfsClient(h) == OnePhase(Req(<<"base_all">>) \o Shell({}))

ExportsD     == Etc("exports.d")
SysconfigNfs == <<"etc", "sysconfig", "nfs">>
NfsConfD     == Etc("nfs.conf.d")

NfsServer(h) ==
  TwoPhase(
    Req(<<"base_all">>),
    Shell({ExportsD}) \o Prepare("nfs-server", {ExportsD, SysconfigNfs})
    \o In(ExportsD, <<"home.exports">>)
    \o (IF "centos7" \in h.opts
        THEN Change(SysconfigNfs) \o Restart
        ELSE Directory(NfsConfD) \o In(NfsConfD, <<"99-rsconf.conf">>)))

-----------------------------------------------------------------------------
(* sirepo and what it configures                                           *)

\* _set_sirepo_config
SetSirepoConfig(c) == Req(<<c>>) \o Get(c)

SirepoDb == Append(RunD("sirepo"), "db")

\* _install_dirs_and_files
SirepoDirsAndFiles(h) ==
  LET code == Append(SirepoDb, "proprietary_code") IN
  ForEach(<<RunD("sirepo"), SirepoDb, Append(SirepoDb, "user")>>, Directory)
  \o In(RunD("sirepo"), <<"static_files_gen">>)
  \o If("proprietary" \in h.opts,
        Directory(code) \o Directory(Append(code, "flash"))
        \o In(Append(code, "flash"), <<"flash.tar.gz">>))

Sirepo(h) ==
  TwoPhase(
    Req(<<"docker", "nginx", "db_bkp">>) \o DockerUnitPrepare("sirepo", "sirepo@", {})
    \o If("raydata" \in h.opts, SetSirepoConfig("raydata_scan_monitor"))
    \o If("jupyterhub" \in h.opts, SetSirepoConfig("sirepo_jupyterhub"))
    \o SetSirepoConfig("sirepo_job_supervisor"),
    SirepoDirsAndFiles(h) \o InstallVhost(h, "sirepo.example")
    \o DockerUnitEnable("sirepo", "sirepo@", {"exec"} \cup {x \in {"local"} : "localImage" \in h.opts})
    \o DbBkpScript(RunD("sirepo")))

SirepoJobSupervisor(h) ==
  TwoPhase(
    Req(<<"docker", "nginx">>)
    \o DockerUnitPrepare("sirepo_job_supervisor", "sirepo_job_supervisor", {}),
    Get("sirepo")
    \o DockerUnitEnable("sirepo_job_supervisor", "sirepo_job_supervisor", {"exec"})
    \o SetupCluster(DockerHosts, Append(RunD("sirepo_job_supervisor"), "docker_tls"))
    \o InstallVhost(h, "docker-supervisor.example"))

\* The image of a user's notebook is pulled without a service to restart.
PullNotebook(h) == If("localImage" \notin h.opts, Shell({}))

\* sirepo_jupyterhub runs this with its own name: the same but for where the
\* users' directories are and for what its environment comes from.
JupyterhubOf(c, db, Enable) ==
  TwoPhase(
    Req(<<"docker">>) \o DockerUnitPrepare(c, c, {}) \o Req(<<"network">>) \o Get("network"),
    If(db # RunD(c), Directory(db)) \o Directory(RunD(c)) \o Directory(Append(db, "user"))
    \o In(RunD(c), <<"conf.py">>)
    \o SetupCluster(DockerHosts, Append(RunD(c), "docker_tls"))
    \o Enable \o DockerUnitEnable(c, c, {"exec"}))

Jupyterhub(h) == JupyterhubOf("jupyterhub", RunD("jupyterhub"), PullNotebook(h))
SirepoJupyterhub(h) ==
  JupyterhubOf("sirepo_jupyterhub", RunD("jupyterhub"), PullNotebook(h) \o Get("sirepo"))

JupyterhubProxy(h) == TwoPhase(Req(<<"nginx">>), InstallVhost(h, "jupyter.example"))

\* No require: the database lists sirepo before.
SirepoTestHttp(h) ==
  OnePhase(Get("sirepo") \o TimerPrepare("sirepo_test_http")
           \o DockerUnitEnable("sirepo_test_http", "sirepo_test_http", {"exec", "timer"}))

RaydataScanMonitor(h) ==
  LET c == "raydata_scan_monitor" IN
  TwoPhase(
    Req(<<"docker">>) \o DockerUnitPrepare(c, c, {}),
    DockerUnitEnable(c, c, {"exec"})
    \o ForEach(<<"db", "intake", "notebook">>, LAMBDA x : Directory(Append(RunD(c), x))))

Rsiviz(h) == TwoPhase(Req(<<"nginx">>), InstallVhost(h, "index.example"))

-----------------------------------------------------------------------------
(* Other applications                                                      *)

Rsaccounting(h) ==
  LET c == "rsaccounting"  rclone == Append(RunD(c), "rclone") IN
  TwoPhase(
    Req(<<"docker", "nginx">>) \o DockerUnitPrepare(c, c, {}),
    InstallVhost(h, "accounting.example") \o InstallAuth("rsaccounting_auth")
    \o DockerUnitEnable(c, c, {"exec"})
    \o Directory(rclone) \o Directory(Append(RunD(c), "work")) \o In(RunD(c), <<"run-monthly">>)
    \o In(rclone, <<"rclone.conf", "rsaccounting_google.json">>))

GithubBkp(h) ==
  OnePhase(
    Req(<<"docker">>) \o TimerPrepare("github_bkp")
    \o DockerUnitEnable("github_bkp", "github_bkp", {"exec", "timer"})
    \o In(RunD("github_bkp"), <<"run">>) \o Directory(Append(RunD("github_bkp"), "db")))

Script(h) == TwoPhase(Req(<<"base_users">>), Shell({}) \o TimersOf(Timers))

Mlflow(h) ==
  TwoPhase(
    Req(<<"docker", "network">>) \o DockerUnitPrepare("mlflow", "mlflow", {}),
    DockerUnitEnable("mlflow", "mlflow", {"exec"})
    \o Directory(Append(RunD("mlflow"), "db")) \o In(RunD("mlflow"), <<"basic-auth.ini">>)
    \o InstallVhost(h, "mlflow.example"))

\* A file server needs no virtual host.
Rsconf(h) ==
  TwoPhase(
    Req(<<"docker", "network", "nginx">>),
    IF "fileServer" \in h.opts THEN Shell({})
    ELSE ForEach(<<"rsconf.example", "alt.example">>, LAMBDA v : InstallVhost(h, v))
         \o InstallAuth("rsconf_auth"))

-----------------------------------------------------------------------------
(* Development and cluster hosts                                           *)

Secrets == <<"host_key", "identity.pub">>

MpiWorker(h) ==
  LET hostD == Append(Home("cluster"), "worker")  conf == Append(hostD, ".rsmpi")
      ssh == Append(conf, "host") IN
  TwoPhase(
    Req(<<"docker", "nfs_client", "network">>)
    \o DockerUnitPrepare("mpi_worker", "mpi_worker", {ssh}) \o Get("network"),
    ForEach(<<hostD, conf, ssh>>, Directory) \o In(ssh, <<"sshd_config">> \o Secrets)
    \o If("firstOfCluster" \in h.opts,
          In(conf, <<"ssh_config", "known_hosts">>)
          \o Directory(Append(hostD, "bin")) \o In(Append(hostD, "bin"), <<"rsmpi">>))
    \o DockerUnitEnable("mpi_worker", "mpi_worker", {"exec"}))

UserInstances(c) == ForEach(Users, LAMBDA u : Inst(c \o "_" \o u))

Devbox(h) == TwoPhase(UserInstances("devbox"), Shell({}))

DevboxOf(user) ==
  LET c == "devbox_" \o user  d == RunD(c)  src == Append(d, "src")
      bivio == Append(src, "biviosoftware") IN
  TwoPhase(
    Req(<<"docker", "network">>) \o DockerUnitPrepare(c, c, {Append(d, "sshd")})
    \o Give("network", {c}),
    DockerUnitEnable(c, c, {"exec"})
    \o ForEach(<<Append(d, "jupyter"), src, bivio, Append(bivio, "home-env"),
                 Append(d, "sshd"), d>>, Directory)
    \o Shell({}) \o Change(Append(Append(d, "jupyter"), "bashrc"))
    \o In(Append(d, "sshd"), <<"sshd_config">> \o Secrets))

VmDevbox(h) ==
  TwoPhase(
    Req(<<"network", "base_users">>) \o UserInstances("vm_devbox"),
    Directory(RunD("libvirt")) \o Change(<<"var", "lib", "libvirt">>) \o Shell({}))

VmDevboxOf(h, user) ==
  LET c == "vm_devbox_" \o user  d == RunD(c) IN
  TwoPhase(
    Req(<<"network", "base_users">>) \o Get("network") \o Check(~PublicIp(h))
    \o Get("base_users") \o UnitPrepare(c, {Append(d, "start"), Append(d, "stop")}),
    Directory(d) \o In(d, <<"start", "stop">>) \o File(ServiceF(c)))
=============================================================================
