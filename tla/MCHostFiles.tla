----------------------------- MODULE MCHostFiles -----------------------------
(***************************************************************************)
(* Calls as component/*.py and the main.sh scripts make them, in any order *)
(* on one path: files with and without an md5, directories, mount points,  *)
(* empty files, links, edits with and without a bang, appended lines.      *)
(***************************************************************************)
EXTENDS HostFiles

CONSTANTS root, run, m400, m755, t1, t2, html, empty, link1, link2

AUsers == {root, run}
AModes == {m400, m755}
ATexts == {t1, t2, html, empty}
ATargets == {link1, link2}
ATargetText == [l \in ATargets |-> t1]
ACreated == [user |-> root, group |-> root, mode |-> m755]

private == [user |-> root, group |-> root, mode |-> m400]
shared  == [user |-> run, group |-> run, mode |-> m755]

file(t, a) == [op |-> "file", md5 |-> t, access |-> a]
plain(o, a) == [op |-> o, access |-> a]
\* Both patterns are found in t2, which perl turns into t1, or the other way
\* round; perl leaves empty files as they are.
edit(b, found, new) ==
  [op |-> "edit", bang |-> b, found |-> {found}, literal |-> {},
   result |-> [t \in ATexts |-> IF t = empty THEN t ELSE new]]
append == [op |-> "append", found |-> {t2}, result |-> [t \in ATexts |-> t2]]

ARequests ==
  {file(NoText, shared), file(t1, shared), file(t1, private)}
    \cup {plain("directory", shared), plain("mount_point", private), plain("ensure", private)}
    \cup {[op |-> "symlink", to |-> l] : l \in ATargets}
    \cup {edit(FALSE, t2, t2), edit(TRUE, t2, t1), append}
=============================================================================
