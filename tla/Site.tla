-------------------------------- MODULE Site --------------------------------
(***************************************************************************)
(* The components of src/rsconf/component: what each requires, adds to     *)
(* others and installs, as the database configures host h.  h.opts names   *)
(* the choices the database makes for it; the sequences below stand for    *)
(* its users, applications and virtual hosts.                              *)
(***************************************************************************)
EXTENDS Build, Units

Apps         == <<"petshop", "societas">>  \* bop.apps
Users        == <<"ann", "ian">>           \* devbox.users, vm_devbox.users
MailUsers    == <<"bob", "eve">>           \* dovecot: a pop user, an alias user
Domains      == <<"one.example", "two.example">>
DockerHosts  == <<"host", "worker">>
Timers       == <<"nightly", "weekly">>

Etc(name)  == <<"etc", name>>
Home(user) == <<"home", user>>

-----------------------------------------------------------------------------
(* Base system                                                             *)

BaseAll(h) ==
  OnePhase(Req(<<"base_os", "network", "base_users", "logrotate">>) \o Restart)

JournaldConfD == <<"etc", "systemd", "journald.conf.d">>
JournaldSystemD == OverrideD("systemd-journald")

\* _install_local_dirs and _install_local_files
LocalFiles(h) ==
  ForEach(h.localDirs, Directory) \o ForEach(h.localFiles, Shared)

\* _pam_duo_and_sshd
PamDuoAndSshd(h) ==
  If("pamDuo" \in h.opts, File(<<"etc", "yum.repos.d", "duosecurity.repo">>)
                          \o Shell({<<"etc", "duo">>})
                          \o File(<<"etc", "duo", "pam_duo.conf">>))
  \o File(<<"etc", "pam.d", "sshd">>) \o File(<<"etc", "ssh", "sshd_config">>)

BaseOs(h) ==
  LET limits == <<"etc", "security", "limits.d", "99-rsconf.conf">> IN
  TwoPhase(
    Prepare("systemd-journald", {JournaldConfD}) \o Prepare("sshd", {Etc("ssh")}),
    Has("postfix") \o LocalFiles(h)
    \o Directory(JournaldConfD) \o In(JournaldConfD, <<"99-rsconf.conf">>)
    \o File(<<"etc", "sysctl.d", "60-rsconf-base.conf">>)
    \o If("pamLimits" \in h.opts, File(limits) \o Prepare("reboot", {limits}))
    \o File(Etc("hostname")) \o File(Etc("motd"))
    \o If("centos7" \notin h.opts,
          Directory(JournaldSystemD) \o In(JournaldSystemD, <<"99-journald-rsconf.conf">>))
    \o PamDuoAndSshd(h) \o Shell({}))

BaseUsers(h) ==
  TwoPhase(Req(<<"base_os", "network">>) \o Get("network"),
           File(<<"root", ".post_bivio_bashrc">>)
           \o Shell({Home(MailUsers[i]) : i \in DOMAIN MailUsers}))

Logrotate(h) ==
  OnePhase(Req(<<"base_users">>) \o TimerPrepare("logrotate") \o TimerEnable("logrotate")
           \o In(RunD("logrotate"), <<"run">>) \o File(Etc("logrotate.conf")) \o Shell({}))

NetworkScripts == <<"etc", "sysconfig", "network-scripts">>
NetworkManager == Etc("NetworkManager")
Connections    == Append(NetworkManager, "system-connections")
Iptables       == <<"etc", "sysconfig", "iptables">>
Devices        == <<"em1", "em2">>

\* internal_build_compile: the device directory is watched by iptables too.
NetworkCompile(h) ==
  Req(<<"base_os">>)
  \o If("devices" \in h.opts,
        IF "centos7" \in h.opts
        THEN Prepare("network", {NetworkScripts, Etc("resolv.conf")})
             \o If("public" \in h.opts, Prepare("iptables", {Iptables, NetworkScripts}))
        ELSE Prepare("NetworkManager", {NetworkManager})
             \o If("public" \in h.opts, Prepare("iptables", {Iptables, Connections})))

\* network.unchecked_public_ip, and the assertion of named and bivio_named
PublicIp(h) == "devices" \in h.opts /\ "public" \in h.opts

\* That the ports that are restricted are public ones is left out.
NetworkWrite(h) ==
  Check("restrictedPorts" \in h.opts => PublicIp(h))
  \o If("devices" \in h.opts,
     (IF "centos7" \in h.opts
      THEN File(<<"etc", "resolv.conf">>)
           \o In(NetworkScripts, [i \in DOMAIN Devices |-> "ifcfg-" \o Devices[i]])
      ELSE In(Connections, [i \in DOMAIN Devices |-> Devices[i] \o ".nmconnection"]))
     \o If("public" \in h.opts, Check("dockerIptables" \notin h.opts) \o File(Iptables))
     \o Shell({}))

Network(h) == TwoPhase(NetworkCompile(h), NetworkWrite(h))

DbBkp(h) ==
  OnePhase(Req(<<"base_all">>) \o TimerPrepare("db_bkp") \o TimerEnable("db_bkp")
           \o In(RunD("db_bkp"), <<"run">>))

\* The script is installed before timer_enable makes its directory.
Bkp(h) ==
  LET script == IF "primary" \in h.opts THEN "primary" ELSE "secondary" IN
  OnePhase(Req(<<"base_all">>) \o TimerPrepare("bkp") \o In(RunD("bkp"), <<script>>)
           \o TimerEnable("bkp"))

-----------------------------------------------------------------------------
(* Docker                                                                  *)

DockerD == Etc("docker")
CertsD  == Append(DockerD, "certs.d")
TlsD    == Append(DockerD, "tls")

\* docker_registry.install_crt_and_login
RegistryCrt(h) ==
  If({"registry", "selfSigned"} \subseteq h.opts,
     Directory(CertsD) \o Directory(Append(CertsD, "registry:5000"))
     \o In(Append(CertsD, "registry:5000"), <<"ca.crt">>)
     \o In(<<"etc", "pki", "ca-trust", "source", "anchors">>, <<"registry.crt">>)
     \o Shell({}))

\* docker_cache.install_crt
CacheCrt(h) ==
  Check(~({"registry", "cache"} \subseteq h.opts))
  \o If({"cache", "selfSigned"} \subseteq h.opts,
        Directory(CertsD) \o Directory(Append(CertsD, "cache:5000"))
        \o In(Append(CertsD, "cache:5000"), <<"ca.crt">>))

\* dockerd makes data-root, which is run_d, when it starts.
Docker(h) ==
  OnePhase(
    Req(<<"base_all", "db_bkp">>) \o UnitPrepare("docker", {DockerD})
    \o Directory(DockerD)
    \o If("noDockerTls" \notin h.opts,
          Check(~PublicIp(h)) \o Directory(TlsD)
          \o In(TlsD, <<"cert.pem", "key.pem", "cacert.pem">>))
    \o In(DockerD, <<"daemon.json">>) \o Shell({})
    \o RegistryCrt(h) \o CacheCrt(h)
    \o Directory(<<"root", ".docker">>) \o File(<<"root", ".docker", "config.json">>)
    \o InstallUnitOverride("docker")
    \o Restart \o Shell({RunD("docker")})
    \o DbBkpScript(RunD("docker")))

DockerRegistry(h) ==
  LET d == RunD("docker_registry") IN
  OnePhase(
    Req(<<"docker">>) \o DockerUnitPrepare("docker_registry", "docker_registry", {})
    \o Check("registry" \in h.opts)
    \o DockerUnitEnable("docker_registry", "docker_registry", {})
    \o TlsKeyAndCrt(h, "registry", d) \o In(d, <<"passwd">>)
    \o Directory(Append(d, "db")) \o In(d, <<"config.yml">>) \o Restart)

DockerCache(h) ==
  LET d == RunD("docker_cache") IN
  OnePhase(
    Req(<<"docker">>) \o Check("cache" \in h.opts)
    \o DockerUnitPrepare("docker_cache", "docker_cache", {})
    \o DockerUnitEnable("docker_cache", "docker_cache", {})
    \o TlsKeyAndCrt(h, "cache", d)
    \o Directory(Append(d, "db")) \o In(d, <<"config.yml">>) \o Restart)

-----------------------------------------------------------------------------
(* Web and bivio applications                                              *)

NginxCompile(h) ==
  Req(<<"base_all">>) \o Shell({Etc("nginx"), NginxConfD})
  \o If("redirects" \in h.opts, RenderRedirects(h, Domains))
  \o Get("network") \o If(PublicIp(h), Give("network", {"http", "https"}))
  \o UnitPrepare("nginx", {Etc("nginx")})

\* Mutant: nginx is restarted like any other service.
NginxWrite_NotAtEnd(h) ==
  If("tls" \in h.opts, TlsKeyAndCrt(h, "host", NginxConfD))
  \o In(Etc("nginx"), <<"nginx.conf">>) \o Directory(<<"srv", "www">>)

NginxWrite(h) ==
  If("tls" \in h.opts, TlsKeyAndCrt(h, "host", NginxConfD))
  \o In(Etc("nginx"), <<"nginx.conf">>) \o Directory(<<"srv", "www">>)
  \o RestartAtEnd("nginx")

Nginx(h) == TwoPhase(NginxCompile(h), NginxWrite(h))

RpmOf(name) == <<name \o ".rpm">>
CommonRpms  == <<RpmOf("bivio-perl"), RpmOf("perl-Bivio")>>
CommonRpmSet == {CommonRpms[i] : i \in DOMAIN CommonRpms}

\* The rpm perl_rpms.add_rpms adds for an application: PetShop has none.
AppRpms(app) == IF app = "petshop" THEN {} ELSE {"perl-" \o app \o ".rpm"}
WatchedRpms(app) == CommonRpmSet \cup {<<r>> : r \in AppRpms(app)}

PerlRpms(h) ==
  TwoPhase(Req(<<"base_all">>), Shell({}) \o ForEach(CommonRpms, Shared) \o InstallGivenFiles)

\* A virtual host of an application: its facade, redirects and nginx file
BopVhost(h, app) ==
  LET facade == Append(Append(RunD(app), "srv"), app)  m == Append(facade, "m") IN
  Directory(facade) \o Directory(m) \o In(m, <<"maintenance.html">>)
  \o RenderRedirects(h, <<app \o ".alias">>) \o InstallVhost(h, app \o ".example")

BopApp(h, app) ==
  LET d == RunD(app) IN
  OnePhase(
    Req(<<"perl_rpms">>) \o Give("perl_rpms", AppRpms(app))
    \o CustomUnitPrepare(app, app, WatchedRpms(app))
    \o CustomUnitEnable(app, <<"start", "stop", "reload">>)
    \o ForEach(<<"bkp", "db", "log", "logbop", "srv">>,
               LAMBDA x : Directory(Append(d, x)))
    \o In(d, <<"httpd.conf", "bivio.bconf", "initdb.sh">>) \o Change(Append(d, "modules"))
    \o LogrotateConf(app) \o Shell({}) \o BopVhost(h, app) \o DbBkpScript(d))

\* setup_bop asserts that there is no smart host.
Bop(h) ==
  OnePhase(
    Req(<<"perl_rpms">>) \o Req(<<"postgresql", "nginx", "postfix", "db_bkp">>)
    \o ForEach(Apps, Inst)
    \o Get("postfix") \o Check("smartHost" \notin h.opts)
    \o Give("postfix", {Apps[i] \o ".example" : i \in DOMAIN Apps})
    \o In(NginxConfD, <<"bop_common.conf">>) \o Shell({}))

\* Mutant: timer_prepare is not told the name of the service.
TimersOf_Script(names) ==
  ForEach(names, LAMBDA t : TimerPrepare("script") \o TimerEnable(t) \o In(RunD(t), <<"run">>))

TimersOf(names) ==
  ForEach(names, LAMBDA t : TimerPrepare(t) \o TimerEnable(t) \o In(RunD(t), <<"run">>))

BopTimer(h) ==
  OnePhase(Req(<<"bop">>)
           \o TimersOf([i \in DOMAIN Apps |-> Apps[i] \o "_initdb_weekly"]))

BtestApp(app) ==
  LET d == <<"srv", "btest", "apps", app>> IN
  Directory(d) \o ForEach(<<"db", "bkp", "log">>, LAMBDA x : Directory(Append(d, x)))
  \o In(d, <<"bivio-unit.bconf", "bivio-acceptance.bconf", "run">>)
  \o Give("perl_rpms", AppRpms(app))

Btest(h) ==
  OnePhase(
    Req(<<"postgresql", "postfix", "perl_rpms">>)
    \o TimerPrepare("btest") \o TimerEnable("btest")
    \o Give("postfix", {"btest.example"})
    \o Directory(<<"srv", "btest", "apps">>) \o Directory(Append(Home("vagrant"), "btest-mail"))
    \o If("dev" \in h.opts, Directory(Append(Home("vagrant"), "btest-mail-copy")))
    \o In(Home("vagrant"), <<".procmailrc">>)
    \o ForEach(Apps, BtestApp) \o In(RunD("btest"), <<"run">>))

-----------------------------------------------------------------------------
(* Mail                                                                    *)

PostfixD == Etc("postfix")

PostfixCompile(h) ==
  Req(<<"network", "base_users">>) \o Get("base_users")
  \o Give("network", {"smtp", "submission"})
  \o If("smartHost" \notin h.opts, Req(<<"postgrey", "spamd">>))
  \o Shell({PostfixD, Etc("sasl2")}) \o UnitPrepare("postfix", {PostfixD}) \o Get("network")

\* Its first assertion: some way to receive mail, or else a smart host
ReceivesMail(h) ==
  h.opts \cap {"sasl", "virtualAliases"} # {}
  \/ \E i \in DOMAIN h.roots : h.roots[i] \in {"bop", "bop_timer", "btest"}

PostfixWrite(h) ==
  Check(ReceivesMail(h) <=> "smartHost" \notin h.opts)
  \o In(PostfixD, <<"sender_access">>)
  \o If("smartHost" \in h.opts, In(PostfixD, <<"sasl_password">>))
  \o If("sasl" \in h.opts, In(Etc("sasl2"), <<"smtpd-sasldb.conf">>))
  \o If("virtualAliases" \in h.opts, In(PostfixD, <<"virtual_alias_domains", "virtual_alias">>))
  \o TlsKeyAndCrt(h, "host", PostfixD)
  \o In(PostfixD, <<"main.cf", "master.cf">>) \o File(Etc("aliases"))
  \o Shell({}) \o RestartAtEnd("postfix")

Postfix(h) == TwoPhase(PostfixCompile(h), PostfixWrite(h))

Postgrey(h) ==
  LET d == RunD("postgrey") IN
  TwoPhase(Req(<<"base_all", "perl_rpms">>) \o Get("perl_rpms") \o Get("network"),
           CustomUnitPrepare("postgrey", "postgrey", CommonRpmSet)
           \o CustomUnitEnable("postgrey", <<"start">>)
           \o ForEach(<<d, Append(d, "db"), Append(d, "etc")>>, Directory)
           \o In(Append(d, "etc"), <<"postgrey_whitelist_recipients",
                                     "postgrey_whitelist_clients.local">>))

Spamd(h) ==
  LET conf == <<"etc", "mail", "spamassassin">> IN
  TwoPhase(Req(<<"base_all", "perl_rpms">>) \o Get("perl_rpms") \o Get("network"),
           CustomUnitPrepare("spamd", "spamd", CommonRpmSet \cup {conf})
           \o ForEach(<<conf, <<"run", "spamd">>, RunD("spamd")>>, Directory)
           \o In(RunD("spamd"), <<"log_postrotate">>) \o In(conf, <<"spamc.conf">>)
           \o LogrotateConf("spamd") \o Shell({}) \o CustomUnitEnable("spamd", <<"start">>))

\* _setup_procmail
Procmail(user) ==
  LET d == Append(Home(user), "procmail") IN
  Directory(d) \o In(Home(user), <<".procmailrc">>) \o Change(Append(d, "log"))

Dovecot(h) ==
  LET conf == Etc("dovecot") IN
  TwoPhase(
    Req(<<"postfix", "base_users">>) \o Get("base_users") \o Give("network", {"pop3s"}),
    Shell({conf, Append(conf, "conf.d")}) \o Prepare("dovecot", {conf})
    \o Procmail(MailUsers[1]) \o Directory(Append(Home(MailUsers[1]), "Maildir"))
    \o Procmail(MailUsers[2])
    \o TlsKeyAndCrt(h, "host", conf) \o In(Append(conf, "conf.d"), <<"99-rsconf.conf">>)
    \o In(conf, <<"users">>)
    \o Directory(RunD("dovecot")) \o DbBkpScript(RunD("dovecot")))

\* The keys first, then opendkim.conf and its tables
Opendkim(h) ==
  LET conf == Etc("opendkim")
      key(d) == Append(Append(conf, "keys"), d) IN
  TwoPhase(
    Req(<<"postfix">>) \o Shell({conf, Append(conf, "keys")})
    \o Give("postfix", {"milter"}) \o Get("network"),
    UnitPrepare("opendkim", {conf, Etc("opendkim.conf")})
    \o ForEach(Domains, LAMBDA d : Directory(key(d)))
    \o ForEach(Domains, LAMBDA d : In(key(d), <<"2020.private">>))
    \o File(Etc("opendkim.conf"))
    \o In(conf, <<"KeyTable", "SigningTable", "InternalHosts", "ExternalIgnoreList">>)
    \o If("unixSocket" \in h.opts, Shell({}) \o InstallUnitOverride("opendkim")))
=============================================================================
