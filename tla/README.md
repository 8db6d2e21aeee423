# A verification development of rsconf

rsconf configures the hosts of a site. A build host keeps a database (yaml
files, templates, secrets), turns it into one tree of files and shell scripts
per host and serves the trees by http. On each host an agent, `rsconf.sh`,
downloads the scripts, installs the files they name, and restarts the systemd
units that watch files which have changed.

This directory holds TLA+ modules that model the program, TLC configurations
that check them on small instances, and TLAPS proofs for every value of the
constants. Paths below are relative to `src/rsconf/` unless they begin with
`src/`; `rsconf.sh` is `package_data/rsconf/rsconf.sh`.

To repeat a check: `tlc -workers 2 -config MCHostRun.cfg MCHostRun`; to repeat
a proof: `tlapm HostRun_proofs.tla`. `PROJECT.json` lists the runs, the source
lines behind each definition, the hazards and the theorems. Operators whose
name has a suffix after an underscore and whose comment begins with "Mutant"
are not part of the specification: each is a plausible bug that the run named
in `PROJECT.json` must detect when it takes the place of the definition after
it.

## 1. Inventory

| component | state | operations | hard parts |
|---|---|---|---|
| host agent, runs and services (`rsconf.sh` 367-394, 423-620) | bash arrays of a run (`status`, `order`, `watch`, `file_changed`, `restart_at_end`), files on disk, systemd units, docker images | `rsconf_main`, `rsconf_require`, `rsconf_service_*`, `rsconf_systemctl` | the arrays vanish with the shell, the files stay; several restart passes in a run; units crash; the tree and the registry change during a run |
| host agent, editing and installing (`rsconf.sh` 5-350) | one path: what is there, its owner and mode, the temporary file beside it | `rsconf_install_*`, `rsconf_edit`, `rsconf_append` | killed between two system calls; repeated by the next run; links |
| build (`pkcli/build.py` 13-114, `component/__init__.py`) | components, write queue, done components, `components_required` | `create_host`, `build_component`, `require_component`, `get_component`, `has_component` | components call each other while they compile; two phases or one; shared files |
| publish (`pkcli/build.py` 117-153) | three directories: served, new, old | `default_command` | a build dies anywhere; repeats; hosts download meanwhile |
| configuration database (`db.py`) | merged yaml of channels, hosts, local and secret files | `merge_dict`, `_Host.merge`, `resource_path` | order of the merge, lists and None |
| unit files (`systemd.py`) | a unit's files and its instances | `docker_unit_enable`, `timer_enable`, `unit_prepare`, `_on_calendar` | instances; calendar text to systemd |
| network (`component/network.py`) | ports that components ask for | `add_public_tcp_ports`, `internal_build_write` | gathered from others before it is written |
| letsencrypt, tls (`pkcli/letsencrypt.py`, `pkcli/tls.py`) | account, orders, key, csr and crt files, `letsencrypt-named.json` | `order*`, `reorder_expiring`, `gen_named_conf`, `finalize_orders` | every step writes a file or calls a server; partial failure; what may be repeated |
| named zones (`pkcli/named_conf.py`) | zones, serial number | `gen`, `_serial` | serial numbers must grow; reverse zones; duplicates |
| backups (`package_data/bkp/`, `package_data/db_bkp/`) | mirror directories, `current`, archived logs, snapshot, `RESTART`, copy disk, dumps | `primary_main`, `secondary` `_main`, `db_bkp_main` | runs that fail halfway; two timers on two hosts; an operator who changes disks; retention |
| new hosts (`component/rsconf.py`, `pkcli/host.py`) | password file, netrc | `host_init`, `init_host` | repeated calls |
| base system, docker, sirepo, jupyterhub, mail, web, databases, name servers (`component/*.py`) | none of their own at build time; files and units on hosts | `internal_build_compile`, `internal_build_write` | what they add to each other (ports, rpms, mail domains); the order of their scripts on a new host; files that no watch list covers |
| dkim, password hashes, development hosts | key files; none; a generated database | | |

How they interact. `default_command` reads the database once and calls
`create_host` for every host of it; components call each other through the
build object (`require_component`, `get_component`) and write scripts and files
into the new tree. The tree is moved to where the web server finds it. Nothing
else joins the build host to the hosts: a host downloads `000.sh`, the
component scripts it requires and the files these install, one by one and at
any time, so that a run may see two trees. The backup servers pull from the
hosts by rsync; certificates and zones are files that the next build reads.

What makes each part correct, in a sentence:

- runs: after a run that completes, units run with the configuration that is on
  disk; each unit is started once, in order; runs may be repeated until the host
  has what is published.
- installing: what succeeds has reached its state, has told the services, and is
  quiet when it is repeated.
- build: dependency order, nothing added too late, one script per component.
- publish: whole trees or nothing, never an older one, nothing lost.
- letsencrypt: no order is lost, a certificate fits the key beside it, what is
  served for the challenges covers the orders that are finalized.
- components: every host that the database can describe builds; its scripts find
  the directories they install into, prepare no service twice, restart it after
  the last file it reads, and watch what they install.
- backups: `current` is a backup that got to every host; a snapshot is copied
  whole, and a disk holds files of one snapshot; a good dump outlives the bad ones.
- zones: a changed zone gets a larger serial number; what is listed is there; reverse
  lookup agrees with lookup where it can (3.8).
- database: the more specific file wins, whatever the order of reading.

The hazards behind these properties are listed in `PROJECT.json`, each with its
line.

## 2. Modules

| module | models | properties | checked by |
|---|---|---|---|
| `HostRun` | one host, its runs and its units | see 3.1 | `MCHostRun`, `MCDockerHost`, `MCHostLive` |
| `HostRun_proofs` | | eight theorems | tlapm |
| `ScriptShape` | the order in which scripts prepare, restart and install, for one service (assumption of a theorem, and checked for the real scripts) | | `MCSite`, `MCHostRun` |
| `HostShape_proofs` | | two theorems | tlapm |
| `HostFiles` | one path and the calls that install or edit it | see 3.2 | `MCHostFiles` (two configurations) |
| `HostFiles_proofs` | | six theorems | tlapm |
| `Build` | the components of one host while it is built | see 3.3 | `MCBuild` |
| `Build_proofs` | | ten theorems | tlapm |
| `Units` | what component code says: the calls of `component.T` and `systemd.py` | | |
| `Site`, `Apps` | the components, `component/*.py`, as sequences of those calls | | |
| `SiteBuild` | `Build` on `Site` and `Apps`, and a run of the scripts that come out | see 3.6 | `MCSite` |
| `Publish` | `default_command`, step by step | see 3.4 | `MCPublish` |
| `PublishedTree` | what hosts may rely on | abstract | refined by `Publish` |
| `Publish_proofs` | | four theorems | tlapm |
| `LetsEncrypt` | the commands that order, publish and finalize certificates | see 3.5 | `MCLetsEncrypt` |
| `LetsEncrypt_proofs` | | five theorems | tlapm |
| `BkpMirror` | what the two backup servers share | | |
| `BkpPrimary` | the nightly job of the primary | see 3.7 | `MCBkp` |
| `BkpSecondary` | the copying job of the secondary, and its operator | see 3.7 | `MCBkp` (two configurations) |
| `Bkp` | both at the same time | | `MCBkp` |
| `Bkp_proofs` | | six theorems | tlapm |
| `NamedConf` | `gen`, the build of the name servers, their updates | see 3.8 | `MCNamedConf` |
| `NamedConf_proofs` | | nine theorems | tlapm |

How they fit together. `HostRun!built` is a tree that `Publish` served, and a
host may change from one to the next at any time (`PublishTree`), which is what
`PublishedTree` allows. A tree's `requires` is the 000.sh that `Build` makes,
its `body` the commands that components append, its `content` the files. A
command `install` of `HostRun` is one step; `HostFiles` shows what happens
inside it, and that what `HostRun` assumes of it holds: a file is there whole or
not at all, and a change that was made by a call that succeeded was noted.
A call killed inside is `HostRun`'s `Abort`.

`SiteBuild` joins `Build` to the program's own components: it takes `Defs`, which
in `MCBuild` are all combinations of a few shapes, from `Site` and `Apps`, and
reads the scripts that come out in the order of 000.sh as `rsconf.sh` would on a
host that was just installed. What a theorem about `HostRun` assumes of the
shape of scripts (`ScriptShape`: a unit is prepared by one component, and none of
its files is installed after its restart) is checked there for the real ones
(`ScriptsShaped`). `Bkp` interleaves the two backup jobs, which share only
`pushed`.

### What is left

- `db.py`, the merge of the database, as a pure algorithm against a reference
  definition; `systemd._on_calendar` and the public ports of the network likewise.
- The script that dumps databases and trims old dumps.
- An abstract specification of certificates (a pair of key and certificate is
  replaced as a whole, or asked for and not there yet) for `LetsEncrypt` to
  implement.

## 3. What is modelled and what the checks show

### 3.1 HostRun

State. `disk`, `up`, `loaded` and `enabled` are the host: contents of files and
ids of images, units that are active, what was on disk when each was started,
units enabled at boot. `status`, `order`, `watch`, `changed`, `deferred`,
`noRestart`, `atEnd` are the arrays and variables of `rsconf_main`; `todo`,
`ran`, `body`, `md5` are what is left of 000.sh and of the component being
evaluated; `pos` and `step` are the loop of `rsconf_service_restart`. `bounced`,
`excused` and `failed` are history.

Actions. `StartRun` evaluates 000.sh; `Require` is `rsconf_require`; `Prepare`,
`RestartAtEnd`, `Install`, `TriggerRestart`, `DockerPull` and `RestartNow` are
the commands of a component; `SkipService`, `RebootRequired`, `StopUnit`,
`CheckActive`, `StartUnit`, `DisableUnit`, `EnableUnit` and `EndPass` are the
loop body, split wherever systemd is called, because the run may be killed or a
unit may crash there. `Abort` is every error, `NotReentrant` and
`RebootRequired` the two errors the code detects itself. `PublishTree` and
`PushImage` change what is served while a run goes on; `Crash` and `Boot` happen
to the host.

Abstractions. A path is a model value, and a watched directory is the set of
files below it. An md5 is the content it was made from. A container's image is
what its unit loaded. Parts of a component that do not touch files or services
are left out.

| run | instance | shows |
|---|---|---|
| `host_run` | two units and the reboot watch list, two components, two trees, a restart in the middle, a deferred unit | one start per run, in order, deferred units last; a completed run covers all; only a failed run can leave a unit with old files; a needed reboot is not passed over in silence |
| `docker_host` | two units of one image, a component required twice, a second prepare, triggers | `IInv`, the inductive invariant; a unit is stale only for a reason that is named (`excused`) |
| `host_live` | one docker unit, one file of the reboot list, two trees | every run ends; when trouble stops, repeated runs bring the host to what is published |

Bounds. Nothing is cut off: all three graphs are finite because contents are
taken from a set of two. Two contents are enough to tell old from new, two units
to see an order, two components to see a restart between them.

Fairness, in `host_live` only. The shell goes on by itself (`WF_vars(RunStep)`).
Operators run rsconf again and again and not always with
`rsconf_service_no_restart` (`SF_vars(StartRun(FALSE))`): rsconf has no daemon,
and its design is that one repeats the run. Convergence is claimed only if from
some time on nothing is published, pushed, crashes, boots or fails
(`<>[][~Trouble]_vars`). A needed reboot is no obstacle because the file that
asks for it is already on disk when the run ends with that error, and the next
run does not ask again; this is also what the code does, and the reason why
`RebootNotSkipped` speaks of one run only.

The types are the first conjunct of `IInv`, which `docker_host` checks.

`StaleOnlyAfterFailure` is what the code achieves and not what one would want: a
run that fails after it replaced a file leaves the unit with the old
configuration, and no later run notices, because the file is as it should be and
the unit is active. `failed` names that case; a boot ends it.

### 3.2 HostFiles

State: what is at the path (nothing, file, directory or link, its text and
access), whether its parent exists, the temporary file, which link targets
exist, what the build host serves, and the call under way with its program
counter. Actions are the install functions with one step per system call that
changes something (`Download`, three of `ChXxx`, `Move`, `MakeLink`), `Edit`
and `AppendLine`, which change a file in one step, `Kill`, and `Outside`: between
calls people may change the path.

Calls are made in any order on the same path, which is more than the scripts do.
`host_files` shows that a call that succeeds has reached its state
(`Achieved`), that a change is noted (`ChangeNoted`), that a repeated call is
quiet (`RepeatIsQuiet`), and that a new content appears with its access already
set (`AccessBeforeContent`). Bounds: two users, two modes, four texts (two plain
ones, an html page, the empty file), two link targets, one path.

`HostFilesAssumption` asks of the constants what the text of the functions
takes for granted: an html page and the empty file are texts, a part of a
download is none, and no script asks for the mode of a link.

`bang_edit` shows where the code does not do what its comment says: an expression
that begins with a bang is meant to have its edit made when it is found. The bang
is taken off into a variable that is not used (`rsconf.sh:78`), so such an edit
never happens.

Links are excepted from `RepeatIsQuiet`: `stat` shows the mode of the link
itself, so an installed file that is a link is noted as changed in each run.

### 3.3 Build

A component is its list of calls while it compiles and while it is written, and
whether it has one phase. `stack` holds the calls under way: `Require` and
`BuildInstance` push a component, `GetComponent`, `LookComponent`,
`HasComponent` and `InstallFile` are the calls, `Queue`, `WriteNow` and
`EndWrite` the ends of `build_compile` and `build_write`; `RequireRoot`,
`StartWrites`, `WriteNext` and `WriteRoot` are `create_host`. An assertion that
fails is `Fail`.

`build` checks all combinations of the bodies in `MCBuild` (a base, a middle and
an application, in one phase or two, required in five orders): what 000.sh lists
is in dependency order and complete, no script is written before something is
added to its component, `has_component` answers as 000.sh will say when the one
who asks is required by the one asked for, and a shared tls file is installed by
exactly one script. Three components are enough for a diamond, for a component
required during another's compile, and for one that comes too late.

`assert_done` (`component/__init__.py:64`) can never fail, since `build_compile`
sets the state on its first line: components that require each other in a cycle
would be built without an error, in an order that breaks the dependency of one.
`MCSite` assumes, and TLC checks, that the repository's components can be ranked
(`NoCycles`): no component requires one that requires it; some require
themselves, as the instance does. `Quiet` and `Fit`, checked there too, are
the other things the theorems of `Build_proofs` assume of the components. The
ranks (`ARank`), what comes with each component (`ABrings`) and the components
that each host is built from (`ANames`) are computed from what the components do.

The bodies of the instance leave out plain script lines (`Lines` is empty):
`MCSite` has them.

### 3.4 Publish

One action per statement of `default_command`; `CreateHost` stands for all of
`Build`. `Die` is an exception, a signal or a crash at any step. `PublishedTree`
is the promise to the hosts: `Publish` implements it with the served directory as
its tree (`PublishesWholeTrees`). `TreeKept` says where the last published tree
is while the directories are exchanged, and names the one case in which it is
lost: a build dies between the two renames, and the next one begins by removing
the directory that was set aside. `EventuallyServed` says that the debris of dead
builds never makes the next one fail.

Bounds: two hosts and three builds, so that a build can die after one that died
after one that succeeded. `MaxBuilds` is the bound; the last build within it does
not die, which stands for the operator repeating the build until it succeeds.
When all builds are done the model stops, so deadlock is not checked there.
Fairness: a build goes on by itself, and the operator starts another.

Nothing in the code keeps two builds from running at once; the model has one at
a time, and with two none of this would hold.

### 3.5 LetsEncrypt

State: for each certificate the key in its key file, the key its csr was made
with, the key its certificate is for and whether it is about to expire, the key
of the csr that its order was placed with; `letsencrypt-named.json` and the
certificates whose challenges it lists (`covered`), those whose challenges the
name servers have (`dns`), and what the authority thinks of the order
(`status`). A command has a name, a program counter, and the certificates its
loop has not come to, which it takes in the order of `sorted_glob`. A key is a
number and stands for its content.

Actions: the commands (`OrderWithNewKey`, `OrderWithKey` for `order_with_key`
and `order_with_crt`, `Order`, `ReorderExpiring`, `GenNamedConf`,
`FinalizeOrders`) begin; then one action per file written or request made
(`GenKey`, `GenCsr`, `NewOrder`, `WriteNamed`, `AnswerChallenges`, `RemoveCsr`,
`PollAndFinalize`, `WriteCrt`, `RemoveOrder`, `RemoveNamed`). `Kill` is an
exception or a kill at any of them. `ExistingOrder` is the error of `order`.
`Validate` is the authority, which looks at the name servers; `PublishDns` is
the next build of the name servers; `PurgeOrder` and `PurgeNamed` are what the
error messages tell the operator to do; `Expire` is time.

`letsencrypt` shows that commands lose no order (`OrderLeavesCrt`), that a
certificate fits its key when no order is open (`PairFits`), that the challenges
file covers what is open when it is written (`NamedCoversOrders`) and is removed
after the last certificate (`NamedGoesLast`). Two things the code does not do,
and the properties do not say:

- `order_with_new_csr_and_key` writes over the key before `order` finds that
  there is an order already. The history variable `unordered` remembers a new
  key for which no order was placed, and `PairFits` excepts it.
- An order that the authority has finalized, and whose certificate was not
  written since the process died in between, cannot be finalized again. Its file
  stays, as `OrderLeavesCrt` says, but so do all orders behind it until somebody
  removes it. A liveness property would be false, and none is stated.

Bounds: two certificates, so that the second of two orders fails or the first
holds up the second; one of them gets new keys, of which two exist at a time
(`MaxKeys`; a number is used again when nothing refers to it), enough to tell
the old from the new. Operators run one command at a time. Expiry happens between
commands: `_expiring` reads the clock once per command, and certificates expire
in weeks.

### 3.6 Units, Site, Apps, SiteBuild

`Units` has one operator per function that component code calls, with what it
says to the build: `Req` is `require_component`, `Give` the functions that add a
port, a domain or an rpm to another component, `File` and `Shared` the install
functions without and with `ignore_exists`, `Prepare`, `Restart`,
`RestartAtEnd`, `Pull` the service lines, `CustomUnitPrepare`,
`DockerUnitEnable`, `TimerPrepare` and the rest the functions of `systemd.py`.
`Site` and `Apps` have one operator per component: its `internal_build_compile`
and `internal_build_write` as sequences of these calls, with the conditions of the
code as options of the host (`h.opts`). A path is the sequence of its names. A
main function of a script is one line (`Shell`) with the directories it makes.
`install_access`, texts and secrets that no host sees are left out, and so is that a
restricted port is one of the public ports (`component/network.py:243`): of ports
the model has which component gives them, not their numbers.

`site` builds 256 hosts: those of the dev database and its tests, every component
alone, and pairs of those that restart in the middle or install where others
watch, in both orders, on three kinds of machine between which every option of the
code is on and off.
For each it runs the whole of `Build`, then reads the scripts:

- `HostBuilds` (of `Build`): no component installs a file that another installs,
  unless both mean to share it, and no component is asked for before it is there.
- `RestartSeesAll`: after a service has been restarted, no line changes what it
  watches or pulls an image for it.
- `ParentsFirst`: each file and directory goes where the distribution, a package
  or an earlier line has made a directory.
- `ScriptsShaped`: each service is prepared once and by one component, none of its
  files is installed in that script after a restart, and another script that
  installs some of them comes earlier in 000.sh, unless the service waits for the
  end of the run (nginx, postfix). The only one that comes earlier is perl_rpms,
  which those that watch its rpms require.
- `ConfigWatched`: each file is under something watched, but for those that are
  read when they are used (`ReadWhenUsed`), rpms and the scripts of db_bkp, and
  two configurations that no unit watches and whose daemons go on with the old
  ones when they change (`UnwatchedConf`: `/etc/nfs.conf.d/99-rsconf.conf`,
  `component/nfs_server.py:35`, and `journald`'s, `component/base_os.py:13`).

Two preconditions a database must meet are in `MCSite`, and no check in the code
reports when they are not met. A host with `bkp` has the directory of that unit
among its `local_dirs`: `component/bkp.py:41` installs the script into the
directory that `timer_enable`, a line later, makes. And `mlflow` is not alone on
a host: it installs a virtual host into nginx's directory and does not require
nginx.

### 3.7 Backups

Primary. `mirror` is `mirror_d`, a directory per night with a copy of each host;
`current`, `archived` and `torn` are the link and the archived logs. A run copies
each host (`CopyHost`, which may leave all, a part or nothing, since an rsync that
fails is logged and the run goes on), archives its logs (`ArchiveLogs`), moves the
link in two steps (`Unlink`, `Link`) and pushes (`Push`). `Die` is a kill anywhere,
`DieArchiving` one inside `install`. Simple mirrors, which are one rsync each
after everything else, are left out.

Secondary. `snapDir`, `linked`, `held`, `aged` and `restart` are the snapshot, its
age and `RESTART` in it; `disk` has the files on every disk and in the directory
under the mount. `StartReuse` and `StartFresh` are the two branches of `_snapshot`,
`LinkSnap` is `cp -al` host by host, which needs something that was pushed, `Touch`,
`AssertCopyDir`, `CopyDirs` (of hosts whose snapshot has files) and `Finish` (of a
run that had some) are the rest; `Kill` may come anywhere. The operator mounts and empties
disks (`Mount`, `Wipe`) and does what the error messages say (`RemoveSnap`,
`TouchRestart`). Making or removing `RESTART` gives the directory a new time, so
the week begins again (`aged`).

`bkp` shows, with both jobs running at the same time: the backup that `current`
names got to every host and its logs are archived (`CurrentReached`; the comment
at `primary.sh.jinja:54` says a completed backup, but a copy that FAILED counts);
a run copies a whole snapshot unless the operator made its `RESTART`
(`SnapshotWhole`); what is compressed is what the snapshot held
(`CopiesOfSnapshot`); a disk has files of one snapshot, unless a run that found a
`RESTART`, and so did not look, found it in use (`OneSnapshotPerDisk`). The last
two say nothing of nights: `cp -al` while the primary pushes mixes them, and
nothing keeps the jobs apart.

`bkp_disk`: the check that the copy goes to a file system of its own is made by
the run that makes the snapshot, and passed by in every run that finds `RESTART`,
which every such run leaves behind. The run after one that succeeded, and
unmounted its disk, writes to the root file system.

Bounds: two hosts, two disks, two nights, two snapshots, and `MaxJobs`, in which a
night counts for two: two nights, or a night and two snapshots. A third run of
either adds nothing to tell old from new. The disks are alike, so that states that
differ in their names are one (`DiskSymmetry`); hosts are not, since the jobs take
them in order. A copy is a night and a state (`none`, `empty`, `part`, `whole`).

### 3.8 NamedConf

State: the date; the output directory, which has zone files, the list of them in
`zones.conf`, and `named.root`; what gen has yet to write; what each server's host
has installed. `Gen` computes everything, or fails, and takes the serial number
from what `servers[0]` answers; `WriteZone`, `WriteConf` and `WriteRoot` write one
file each, in the order of the code (a `write_text` is one step); `KillGen` may come
between; `Update` is a build and a run on a name server, which adds and replaces
files and removes none; `SetDay` moves the clock either way. In the beginning
`servers[0]` answers, since gen fails until it does; the output directory and the
other servers may be empty.

The zones are functions of a configuration: `ARecords` is `_zone_a` and
`_zone_ipv4_map`, `PtrMap` what all zones add to, `Chosen` the choice of `make_ptr`,
`AddressToHostKey` the key of an address, `Ptr` the PTR records, each with the key
as its owner, as `make_ptr` writes it. Other kinds of records are left out.

`named` shows:

- `ListedHaveFiles`: `zones.conf` lists only zones that have a file, wherever gen
  is killed. It also lists the zone "." with the file `named.root`, which is fetched
  first and written last (`pkcli/named_conf.py:70`, lines 414-419). A first gen that
  is killed between the two, or that is built there, leaves a list with which named
  does not start; `cut` is that exception, and there is no other: a later gen finds
  the file of an earlier one, and a host keeps its own.
- `SerialsGrow`: a zone that changes on a server gets a larger serial number, on any
  day and with the clock put back. `overtaken` is its exception: gen asks one
  server, and if it runs again before that server has been updated, it uses a
  serial number twice.
- `PtrsMatch`: in what gen has written, asking the reverse zone for an address (its
  octets from the last to the first, as in-addr.arpa has them) gives one host, which
  has that address, and the one that asks for the record if one does. This is said
  of nets with three fixed octets. In those with two the owner is "c.d" for the
  address a.b.c.d (`_address_to_host_key`, lines 53-59), and is looked up as "d.c":
  the answer is that of another address. The theorem `Backward` (section 4) proves
  it. All nets of the repository's tests and dev database have three, and no doc
  or comment of it promises more.
- `EntryIsOneAddress`: each entry of a zone is at one address, for nets with two
  fixed octets: below 16 the first two branches of `_address_to_host_key`, lines 50
  and 52, drop an octet that is not fixed.

Bounds: two zones, a net of one octet and one of two, two values of an octet, two
servers, three configurations of which one fails, two serial numbers a day
(`PerDay`, 99 in the code), so that the limit of a day is reached, three days and
two calls of gen: one to be cut short, one to follow it.

## 4. What is proved

`HostRun_proofs`, for any services, files, images, contents, components and
trees, from `HostAssumption` (the constants have their types, files are not
images, there is a content):

- `TypeCorrect`, `Invariance`: `Spec => []TypeOK`, `Spec => []IInv`.
- `OneStart`, `CoversAll`, `Freshness`, `RebootReported`, `DeferredLast`,
  `InOrder`: the safety properties of 3.1.

`IInv` is the inductive invariant. The properties speak of the end of a run and
are not inductive; what carries them through a run is the relation between the
loop position and the arrays: each unit is listed once (`OrderInv`), what the
loop has passed is active or waits for the end (`PassInv`), a unit that was
started is active in `status` and so is not started again (`ActiveInv`), and a
stale unit is either excused, or not yet active with the file among the changed
ones, so that the last pass restarts it (`StaleInv`). The hard step is `Install`:
a file that changes after a unit's restart must be excused, one that changes
before must be in `changed`. There is one lemma per group of actions, one step
per conjunct.

`HostShape_proofs`, for any trees whose scripts have the shape that `ScriptShape`
states (`Shape`), for one owner and one list of watched files per unit, in every
tree:

- `OnlyAfterFailure`: `StaleOnlyAfterFailure`. Without a hypothesis on the scripts
  it is false: a script that installs a file after it has restarted what reads it
  leaves the unit stale. `Shape` is what components do: `unit_prepare`, the files,
  `unit_enable`, and others install what the unit watches only before, or if it
  waits for the end. `ScriptsShaped` (3.6) checks it for the hosts of `MCSite`,
  `Shaped` for the trees of `MCHostRun`. That a unit has the same watch list in
  every tree is part of it: a tree that takes a file from the list leaves the
  file's last change unseen, and one that adds a file which had
  changed before finds no change to act on.
- `FreshBetweenRuns`: whenever no run is going on, a unit that is active and that
  no run has left stale by failing has loaded what is on disk.

The invariant is `UnitInv`, for one unit at a time: the component that prepares it
(owner) and the files it watches. A unit that is prepared has the list it ought to,
and if it is started now, nothing of the present script changes it later
(`ListedInv`, `BodyInv`); when one of its files has changed, the owner has run or
is still to run (`OwnerInv`), so that the unit is prepared when the last pass comes;
other scripts with its files come before the owner or wait with it (`TodoInv`);
hence no change of a file after a restart is excused, and nothing is stale when
the run is over (`CleanInv`, with `StaleInv` of `HostRun_proofs`).

`Publish_proofs`, for any hosts and any number of builds:

- `PublishInvariance`: `Spec => []IInv`; `NothingLost`: `TreeKept`;
  `WholeTreesOnly`: the action property `WholeTree`.
- `Refinement`: `Spec => PublishesWholeTrees`. Every step of a build is a stutter
  of `PublishedTree` but the two renames, which are `Withdraw` and `Publish`.

`LetsEncrypt_proofs`, for any certificates in any order and any number of keys
(`LetsEncryptAssumption`: the constants have their types, no two certificates
have the same place in the order):

- `TypeCorrect`, `PairCorrect`, `OrderCorrect`, `NamedCovers`, `NamedLast`: the
  properties of 3.5. They rest on `IInv`: what finalize_orders has yet to come to
  is exactly what is open (`FinalInv`), a command orders a csr it has made with
  the key that is there (`CsrInv`), csr and order are for that key unless it is
  an excepted one (`PairInv`), and reorder_expiring has what expires before it or
  behind it (`ReorderInv`).

`HostFiles_proofs`, for any texts, users, modes, targets and requests
(`HostFilesAssumption`):

- `Types`, `CallsAchieve`, `ChangesAreNoted`, `AccessComesFirst`: the properties
  of 3.2. `IInv` says at each program counter what has been achieved so far:
  before the first change the path is as it was (`BeginInv`, `DownloadInv`), chown,
  chgrp and chmod have done what they could in this order and what they work on has
  all but its access (`AccessInv`), what is moved into place has it (`MoveInv`).
- `RepeatsAreQuiet`: `RepeatIsQuiet` under `AppendsAreFound`, that grep finds the
  lines `rsconf_append` adds; a script whose pattern does not find its own line
  appends it in every run. It needs a second invariant, `RepeatInv`: a repeated
  call finds the path as its like has left it (`Done`), at every step.

`Build_proofs`, for any components that call each other in any way, from
`BuildAssumption`:

- `Types`, `OneScript`, `GivenInTime`, `FilesOnce`: the properties of 3.3. `IInv`
  says where a component may be: on the stack once, and then neither queued nor
  written (`StackInv`); in the queue if it has two phases and is listed but has no
  script (`QueueInv`); its script has what was added to it (`ScriptsInv`); a file is
  installed by one component (`FilesInv`).
- `DependenciesComeFirst`: `DependenciesFirst` for components that can be ranked so
  that each requires only lower ones. The invariant (`DepsInv`) says that each
  component on the stack has a higher rank than those above it, so that
  `require_component` of one that is known finds it listed and not half built.
  With a cycle the property is false, since nothing detects one; `NoCycles` of
  `MCSite` checks that the repository has none.
- `FindsLater`: has_component, asked when a two-phase component is written, finds
  every two-phase component that is listed after it, if such components require no
  more when they are written (`QuietWrites`, which `Quiet` of `MCSite` checks for
  the repository's).
- `AnswersAgree`: `AnswerAgrees`, that base_os, which asks for postfix, is told what
  000.sh says, for components that have ranks as above, write quietly and do not
  ask for themselves. The invariant says that the queue of those to be written is
  in the order of 000.sh, that nothing is listed once writing has begun but by
  components of one phase, and that what was asked for and is listed later was
  found.
- `LookupsFind`: `get_component` never fails (`LookupsSucceed`) for a component that
  is `Careful`: it looks for components of two phases which it has required before,
  or which come with those it has required; or, while it compiles, with those the
  database lists before it, if nothing requires it (`ListedBefore`:
  sirepo_test_http looks for sirepo without requiring it,
  `component/sirepo_test_http.py:28`, and whether it builds depends on the order in
  which the database lists the two); and if it adds something to another
  while it is written in the second phase, as sirepo_job_supervisor does to sirepo,
  it is a part of that one, which alone requires it. What comes with a component is
  the parameter `brings`, any function that is accounted for by the requires
  (`Brought`). The point is in the order: a component is in the write queue, where
  it is found, from the end of its compile to the beginning of its write. The
  invariant (`LooksInv`) says that whatever a call has yet to look for is listed, or
  comes with what the call requires before or waits for (`ForeseenInv`), that what
  is listed has brought what it brings (`BroughtInv`), that so has what the database
  lists before what is under way (`RootsInv`), and that a part is listed before its
  whole (`PartInv`).
- `Builds`: `HostBuilds`, no build fails, for hosts that are `Fitting`: their
  components (`names`, closed under what these require) are careful, what they assert
  holds, and, over all their lines and stages, the line that makes a component is
  the only one that requires it, and the line that installs a file which is not
  shared is the only one that installs or gives it (`SoleMaker`, `SoleInstaller`).
  These are facts about the text of the components; the theorem is about every order
  in which their calls may nest: that such a line is never done a second time. The
  invariant (`BuildsInv`) says that a call has exactly the last lines of its stage to
  do (`OpsInv`), that a component another makes, or a file one alone installs, is
  there only if that line has been done (`MadeInv`, `InstalledInv`), and that what
  is given is what some component gives (`GivenInv`). A line is done (`Done`) when
  its component is known, its call is past it or over, and it is not of the second
  phase of one that is queued. With these `NoneFails` says that no error can be the
  next step, "component not in write_queue" by `LookupsFind`. `Fit` of `MCSite`
  checks the hypotheses, with the largest `brings`, for each of the 256 hosts, of all
  their components. The theorem needs no order of the database's list but what
  sirepo_test_http needs, and says nothing of hosts that are not consistent:
  a database that makes two components install the same file fails to build, as it
  should.

`Bkp_proofs`, for any hosts and disks and any number of runs:

- `Types`, `CurrentIsReached`, `WholeSnapshots`, `CopiesAreOfSnapshot`,
  `DisksNotMixed`: the properties of 3.7. The invariants of the two jobs
  (`PrimaryInv`, `SecondaryInv`) are proved each against the steps of its own job,
  and hold under the other's since they share only `pushed`. `ProgressInv` says
  how many hosts a run has got to; `DisksInv` that no disk has files of a
  snapshot later than the one that exists, and none of the present one before its
  check.

`NamedConf_proofs`, for any zones, nets, servers, configurations and days:

- `Types`, `FilesAreThere`, `Grows`, `Reverse`: the properties of 3.8. `Reverse`
  rests on the owners: in a net with three fixed octets the key of an address is the
  name it is looked up by, so that no other record answers.
- `Backward`: in a net with a prefix of 16 to 23 the PTR record of an address is
  where the address with its last two octets exchanged is looked up.
  `WrittenInv` says which files are those of the present gen, `SerialInv` that what
  is served is never newer than what is written.
- `OneRecordAtMost`: an entry of a net with a prefix of at least 16 has at most one
  A record. `Serves`: `EntryIsOneAddress`, exactly one, if its key is what an address
  of its net has after the octets the net fixes (`KeysFit`, the operator's part: any
  other key gets no record and no error; `Fit` of `MCNamedConf`).
- `KeysDiffer`: two addresses of a net with a prefix of at least 16 have different
  reverse names.

Model-checked only: the liveness properties (`RunEnds`, `EventuallyConverged`,
`EventuallyServed`), as the proof system does not handle fairness, and the
properties of `SiteBuild` (`RestartSeesAll`, `ParentsFirst`, `ScriptsShaped`,
`ConfigWatched`), which are of the repository's components and of nothing more
general. Those two kinds apart, every property that a passing run checks is proved.

## 5. What is not modelled

- What rpm, yum, openssl, docker and systemd do inside; they succeed or fail.
- The text of templates, scripts and unit files.
- A host's run seeing the scripts of one tree require a component that the next
  tree does not have: the download fails, which is `Abort`.
- Two runs on one host at the same time: `rsconf.sh` has no lock, operators run it
  by hand.
- The account of letsencrypt (`register`, `_client`) and self-signed
  certificates.
- The merge of the configuration database: one deterministic pass without state.
- `host_init` and the commands that make keys: run by hand, once.
- The retention of database dumps; records of zones other than A and PTR.
- Components other than through what they install, prepare, restart and ask of
  each other; see the list in `PROJECT.json` for each.
