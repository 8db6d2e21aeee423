----------------------------- MODULE MCDockerHost -----------------------------
(***************************************************************************)
(* A host that runs two docker units of the same image, as sirepo and its  *)
(* job supervisor do.  One tree prepares a unit twice, and one has another *)
(* reason to restart a unit than a file.                                   *)
(***************************************************************************)
EXTENDS HostRun

CONSTANTS app, job, conf, image, c1, c2

AServices == {app, job, Reboot}
AContents == {c1, c2}
AImageOf  == [s \in AServices |-> IF s = Reboot THEN {} ELSE {image}]
AComponents == {"app", "job"}

prepare(s, w) == [kind |-> "prepare", svc |-> s, watch |-> w]
pull(s)       == [kind |-> "pull", svc |-> s, image |-> image]
install       == [kind |-> "install", file |-> conf]

app_script == << prepare(app, {conf}), install, pull(app), [kind |-> "restart"] >>
job_script == << prepare(job, {}), pull(job), [kind |-> "trigger", svc |-> job] >>
bad_script == << prepare(job, {}), [kind |-> "trigger", svc |-> Reboot],
                 prepare(job, {}) >>
twice      == << prepare(job, {}), prepare(job, {}) >>

ATree(j, c) ==
  [requires |-> <<"app", "job", "app">>,
   body     |-> [x \in AComponents |-> IF x = "app" THEN app_script ELSE j],
   content  |-> [f \in {conf} |-> c]]

ATrees == {ATree(job_script, c1), ATree(bad_script, c2), ATree(twice, c2)}
=============================================================================
