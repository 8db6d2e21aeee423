------------------------------ MODULE ScriptShape ------------------------------
(***************************************************************************)
(* How the scripts of a tree deal with a unit: systemd.unit_prepare and    *)
(* service_prepare pair a unit with one component and one watch list; the  *)
(* component that restarts does so when its files are in place, or defers  *)
(* the unit (nginx.py, postfix.py) so that others may add to its files.    *)
(*                                                                         *)
(* HostRun has the commands as operations, SiteBuild has the scripts of    *)
(* the repository's components; this is what they have in common.          *)
(***************************************************************************)
EXTENDS Naturals, Sequences

Prepares(op, s)     == op.kind = "prepare" /\ op.svc = s
Defers(op, s)       == op.kind = "defer" /\ op.svc = s
Installs(op, files) == op.kind = "install" /\ op.file \in files

InstallsAny(b, files) == \E i \in DOMAIN b : Installs(b[i], files)

\* Script b defers s, without a restart between its line p and that one.
DeferredBy(b, p, s) ==
  \E q \in DOMAIN b : /\ Defers(b[q], s)
                      /\ \A r \in DOMAIN b : p < r /\ r < q => b[r].kind # "restart"

\* Script b installs none of the files after a restart after its line p.
NoneAfterRestart(b, p, files) ==
  \A r, i \in DOMAIN b : p < r /\ r < i /\ b[r].kind = "restart" => ~Installs(b[i], files)

\* The script of owner, and no other, prepares s, with these files.
OwnerPrepares(b, isOwner, s, files, late) ==
  /\ \A p \in DOMAIN b : Prepares(b[p], s) =>
       /\ isOwner /\ b[p].watch = files
       /\ IF late THEN DeferredBy(b, p, s) ELSE NoneAfterRestart(b, p, files)
  /\ isOwner /\ files # {} => \E p \in DOMAIN b : Prepares(b[p], s)

\* Another component may install some of the files only where the owner is
\* required too: later, unless the unit waits for the end.
UnitShape(trees, s, owner, files, late) ==
  /\ \A t \in trees : \A c \in DOMAIN t.body :
       OwnerPrepares(t.body[c], c = owner, s, files, late)
  /\ \A t, u \in trees : \A j \in DOMAIN t.requires :
       LET c == t.requires[j] IN
         c # owner /\ InstallsAny(u.body[c], files) =>
           /\ \E k \in DOMAIN t.requires : t.requires[k] = owner
           /\ ~late => \A i \in 1..(j - 1) : t.requires[i] # owner
=============================================================================
