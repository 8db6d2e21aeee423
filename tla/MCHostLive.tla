------------------------------ MODULE MCHostLive ------------------------------
(***************************************************************************)
(* The smallest host on which runs can fail, need a reboot and be repeated:*)
(* one docker unit with a file and an image, and one file of the reboot    *)
(* watch list.                                                             *)
(***************************************************************************)
EXTENDS HostRun

CONSTANTS app, conf, limits, image, c1, c2

AServices == {app, Reboot}
AFiles    == {conf, limits}
AImageOf  == [s \in AServices |-> IF s = app THEN {image} ELSE {}]

prepare(s, w) == [kind |-> "prepare", svc |-> s, watch |-> w]
install(f)    == [kind |-> "install", file |-> f]

app_script == << prepare(Reboot, {limits}), install(limits), prepare(app, {conf}),
                 [kind |-> "pull", svc |-> app, image |-> image], install(conf) >>

ATree(c) == [requires |-> <<"app">>,
             body     |-> [x \in {"app"} |-> app_script],
             content  |-> [f \in AFiles |-> c]]

ATrees == {ATree(c1), ATree(c2)}
=============================================================================
