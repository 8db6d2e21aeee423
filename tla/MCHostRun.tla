------------------------------ MODULE MCHostRun ------------------------------
(***************************************************************************)
(* A host whose scripts have the shapes component/*.py generates: base_all *)
(* prepares a unit and a file that needs a reboot and restarts in the      *)
(* middle; nginx is deferred to the end.                                   *)
(***************************************************************************)
EXTENDS HostRun

CONSTANTS sshd, nginx, ssh_conf, limits, site, c1, c2

AServices == {sshd, nginx, Reboot}
AFiles    == {ssh_conf, limits, site}
AContents == {c1, c2}
AImageOf  == [s \in AServices |-> {}]
AComponents == {"base_all", "web"}

prepare(s, w) == [kind |-> "prepare", svc |-> s, watch |-> w]
install(f)    == [kind |-> "install", file |-> f]
defer(s)      == [kind |-> "defer", svc |-> s]
restart       == [kind |-> "restart"]

base_all == << prepare(sshd, {ssh_conf}), install(ssh_conf),
               prepare(Reboot, {limits}), install(limits), restart >>
web      == << prepare(nginx, {site}), install(site), defer(nginx), restart >>

ATree(a, b) ==
  [requires |-> <<"base_all", "web">>,
   body     |-> [c \in AComponents |-> IF c = "base_all" THEN base_all ELSE web],
   content  |-> [f \in AFiles |-> IF f = ssh_conf THEN a ELSE b]]

ATrees == {ATree(c1, c1), ATree(c2, c2)}

AOwner   == [s \in AServices |-> IF s = nginx THEN "web" ELSE "base_all"]
AWatched == [s \in AServices |-> IF s = nginx THEN {site}
                                 ELSE IF s = sshd THEN {ssh_conf} ELSE {limits}]

\* What the theorem about StaleOnlyAfterFailure assumes of the scripts.
ASSUME Shaped == Shape(AOwner, AWatched, {nginx})
=============================================================================
