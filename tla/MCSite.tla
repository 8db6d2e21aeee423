------------------------------- MODULE MCSite -------------------------------
(***************************************************************************)
(* The hosts of the dev database (package_data/dev/db/000.yml.jinja), of   *)
(* its tests, and each component with few others, on the kinds of machine  *)
(* the code tells apart.                                                   *)
(***************************************************************************)
EXTENDS SiteBuild

Strings == STRING
Paths   == Seq(STRING)

HostOf(roots, opts) ==
  [roots |-> roots, opts |-> opts,
   localDirs |-> IF "bkp" \in {roots[i] : i \in DOMAIN roots} THEN <<RunD("bkp")>> ELSE <<>>,
   localFiles |-> <<>>]

\* 000.yml.jinja, its test hosts and all_host
DevRoots ==
  {<<"docker", "opendkim", "rsconf">>,
   <<"postfix", "nfs_server", "mpi_worker", "sirepo">>,
   <<"docker", "rsconf", "docker_registry", "vm_devbox">>,
   <<"postfix", "nfs_server", "opendkim", "sirepo", "script">>,
   <<"mpi_worker", "postgresql", "postfix">>,
   <<"mongod", "nfs_client", "nfs_server", "bkp", "raydata_scan_monitor", "sirepo",
     "sirepo_test_http", "bop", "bop_timer", "btest", "dovecot", "jupyterhub",
     "jupyterhub_proxy", "github_bkp", "mlflow", "devbox", "rsaccounting", "rsiviz">>,
   <<"rsconf", "docker_registry", "sirepo", "sirepo_test_http", "postgresql", "jupyterhub_proxy">>}

\* Two of those that restart at once, or install where others watch, in any order
PairRoots ==
  LET some == {"nginx", "postgresql", "docker_registry", "mongod", "sirepo", "bop", "dovecot",
               "opendkim", "rsconf"}
  IN  {<<c, d>> : c, d \in some}

Kinds ==
  {{"tls", "wildcard", "sasl", "noDockerTls", "devices", "public", "centos7",
    "restrictedPorts"},
   {"tls", "redirects", "virtualAliases", "devices", "pamDuo", "registry", "selfSigned",
    "raydata", "jupyterhub", "proprietary", "firstOfCluster", "dev", "unixSocket", "dockerIptables"},
   {"dev", "smartHost", "wildcard", "redirects", "cache", "selfSigned", "pamLimits", "primary",
    "localImage", "fileServer"}}

\* vm_devbox wants a private address, bop and btest no smart host, and the
\* registry and the cache a host that is one.
Fits(roots, opts) ==
  LET has(c) == \E i \in DOMAIN roots : roots[i] = c IN
  /\ has("vm_devbox") => "public" \notin opts
  /\ has("bop") \/ has("bop_timer") \/ has("btest") => "smartHost" \notin opts
  /\ has("docker_registry") => "registry" \in opts
  /\ has("docker_cache") => "cache" \in opts
  /\ has("mlflow") => Len(roots) > 1

Single == DOMAIN SiteCompts(HostOf(<<>>, {})) \ {"devbox_ann", "devbox_ian", "vm_devbox_ann",
            "vm_devbox_ian", "petshop", "societas", "sirepo_test_http", "sirepo_jupyterhub",
            "sirepo_job_supervisor"}

SiteHosts ==
  {HostOf(r, o) : <<r, o>> \in {x \in (DevRoots \cup PairRoots \cup {<<c>> : c \in Single}) \X Kinds :
                                  Fits(x[1], x[2])}}

AllNames == DOMAIN SiteCompts(HostOf(<<>>, {}))

\* What components add to others
GivenItems ==
  {<<x>> : x \in {"domain", "http", "https", "smtp", "submission", "pop3s", "milter",
                 "btest.example", "petshop.example", "societas.example",
                 "perl-societas.rpm", "devbox_ann", "devbox_ian", "vm_devbox_ann",
                 "vm_devbox_ian"}}

ADefs == [h \in SiteHosts |-> SiteDef(h)]

\* Bound: how deep components require each other
MaxRank == 12

Upon(compt, c) == {<<c, d>> : d \in Needs(compt[c].compile) \ {c}}

\* The rank of a component: above all that it requires, while it compiles or
\* is written, on any host
ARank ==
  LET pairs(compt) == UNION {Upon(compt, c) \cup {<<c, d>> : d \in Needs(compt[c].write) \ {c}} :
                               c \in AllNames}
      calls == UNION {pairs(ADefs[h].compt) : h \in SiteHosts}
      next(lower) == {c \in AllNames : \A p \in calls : p[1] = c => p[2] \in lower}
      ranked == FoldLeft(LAMBDA sets, i : Append(sets, next(Last(sets))), <<{}>>,
                         [i \in 1..MaxRank |-> i])
  IN  [c \in AllNames |-> Cardinality({i \in DOMAIN ranked : c \notin ranked[i]})]

\* What comes with a component: all that it requires, and what these bring
ABrings ==
  [h \in SiteHosts |->
     LET compt == ADefs[h].compt
         upon == UNION {Upon(compt, c) : c \in AllNames}
         more(has) == has \cup {<<x[1], y[2]>> : <<x, y>> \in
                                  {z \in has \X upon : z[1][2] = z[2][1]}}
         all == FoldLeft(LAMBDA has, i : more(has), upon, [i \in 1..MaxRank |-> i])
     IN  [c \in AllNames |-> {d \in AllNames : <<c, d>> \in all}]]

\* No components require each other in a cycle.
ASSUME NoCycles == Ranked(ARank)

\* Components of two phases require others while they compile only, and none
\* asks whether it is there itself.
ASSUME Quiet == QuietWrites /\ NoneAsksForItself

\* The components that hosts are built from: what the database lists, and all
\* that these bring and require when they are written
ANames ==
  [h \in SiteHosts |->
     LET compt == ADefs[h].compt
         all(names) == names \cup UNION {Needs(compt[c].compile) \cup Needs(compt[c].write) :
                                           c \in names}
     IN  FoldLeft(LAMBDA names, i : all(names), ToSet(h.roots), [i \in 1..MaxRank |-> i])]

\* The components of a host look for what comes with those they require or that
\* the database lists before, none is made twice, they install files of their own
\* unless both mean to share them, and what they assert holds.
ASSUME Fit == Brought(ABrings) /\ Fitting(ABrings, ANames)
=============================================================================
