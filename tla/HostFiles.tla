------------------------------ MODULE HostFiles ------------------------------
(***************************************************************************)
(* One path of a host and the functions of rsconf.sh that bring it into    *)
(* its wanted state: rsconf_install_file, _directory, _mount_point,        *)
(* _ensure_file_exists and _symlink, rsconf_edit and rsconf_append.  A run *)
(* may be killed between any two system calls; the next one finds the path *)
(* as it was left.  Between runs people may change the path.               *)
(***************************************************************************)
CONSTANTS
  Texts,     \* contents of files
  Html,      \* a text that begins with <title>
  Empty,     \* the text touch makes
  NoText,    \* the content of what is not a file; no md5 given
  Partial,   \* what an interrupted download leaves
  Users,     \* owners and groups
  Modes,     \* permissions
  Created,   \* access of what root creates
  LinkMode,  \* the mode stat shows of a link, which no script asks for
  Targets,   \* what symbolic links may point to, plain files if they exist
  TargetText,\* and their texts
  NoTarget,  \* what is not a link points to
  Requests   \* calls the scripts make

Parts == {"user", "group", "mode"}
Access == {a \in [Parts -> Users \cup Modes] : /\ a["user"] \in Users /\ a["group"] \in Users
                                            /\ a["mode"] \in Modes}

(***************************************************************************)
(* found: texts in which grep -E finds $need_egrep without its bang;       *)
(* literal: texts in which it finds $need_egrep as it is written;          *)
(* result: what $edit_perl (or echo >>) makes of each text.                *)
(***************************************************************************)
Request ==
  [op : {"file"}, md5 : Texts \cup {NoText}, access : Access]
    \cup [op : {"directory", "mount_point", "ensure"}, access : Access]
    \cup [op : {"symlink"}, to : Targets]
    \cup [op : {"edit"}, bang : BOOLEAN, found : SUBSET Texts, literal : SUBSET Texts,
          result : [Texts -> Texts]]
    \cup [op : {"append"}, found : SUBSET Texts, result : [Texts -> Texts]]

ASSUME HostFilesAssumption ==
  /\ {Html, Empty} \subseteq Texts /\ LinkMode \notin Modes /\ NoText \notin Texts /\ Partial \notin Texts /\ NoText # Partial
  /\ Created \in Access /\ TargetText \in [Targets -> Texts] /\ NoTarget \notin Targets
  /\ Requests \subseteq Request

VARIABLES
  node,    \* the path
  parent,  \* its parent directory exists
  tmp,     \* $path-rsconf-tmp
  there,   \* the targets that exist
  served,  \* what the build host serves for the path
  want,    \* the call under way, or the last one
  at,      \* where it is; "ok", "same" (no change) or "err" when it has ended
  subject, \* what rsconf_install_chxxx works on: "path", "new" (no check) or "tmp"
  touched, \* rsconf_install_chxxx has changed something
  changed, \* rsconf_service_file_changed was called
  before,  \* history: the path when the call began
  repeated \* history: the call before was the same, it succeeded, and nothing
           \* has happened to the path since

vars == <<node, parent, tmp, there, served, want, at, subject, touched, changed, before,
          repeated>>
disk    == <<node, parent, tmp, there>>
context == <<served, want, before, repeated>>

Ended == {"ok", "same", "err"}

Gone == [kind |-> "none", text |-> NoText, to |-> NoTarget, access |-> Created]
File(t, a) == [kind |-> "file", text |-> t, to |-> NoTarget, access |-> a]
Directory(a) == [kind |-> "dir", text |-> NoText, to |-> NoTarget, access |-> a]
Link(to) == [kind |-> "link", text |-> NoText, to |-> to,
             access |-> [Created EXCEPT !["mode"] = LinkMode]]

\* test -e and what cat prints: both follow links
Exists == node.kind \in {"file", "dir"} \/ (node.kind = "link" /\ node.to \in there)
TextOf(n) == IF n.kind = "link" /\ n.to \in there THEN TargetText[n.to] ELSE n.text

-----------------------------------------------------------------------------
\* A component calls one of the functions.  Files that are edited are no links.
Call(w) ==
  /\ at \in Ended
  /\ w.op \in {"edit", "append"} => node.kind # "link"
  /\ want' = w /\ at' = "begin"
  /\ before' = node /\ changed' = FALSE /\ touched' = FALSE /\ subject' = "path"
  /\ repeated' = (at # "err" /\ w = want)
  /\ UNCHANGED <<disk, served>>

End(result) == at' = result /\ UNCHANGED <<disk, context, subject, touched, changed>>
EndChanged == at' = "ok" /\ changed' = TRUE /\ UNCHANGED <<context, subject, touched>>
GoTo(a, s) == at' = a /\ subject' = s /\ UNCHANGED <<context, touched, changed>>

Begin(op) == at = "begin" /\ want.op = op

-----------------------------------------------------------------------------
(* rsconf_install_file                                                     *)

InstallFile ==
  /\ Begin("file")
  /\ \/ node.kind = "dir" /\ End("err")
     \/ node.kind # "dir" /\ want.md5 # NoText /\ TextOf(node) = want.md5
          /\ GoTo("user", "path") /\ UNCHANGED disk
     \/ node.kind # "dir" /\ (want.md5 = NoText \/ TextOf(node) # want.md5)
          /\ IF parent
               THEN /\ tmp' = File(Partial, Created) /\ UNCHANGED <<node, parent, there>>
                    /\ GoTo("download", "tmp")
               ELSE End("err")

\* Mutant: cmp with the file on disk is left out.
Download_NoCmp ==
  /\ at = "download" /\ served # Html
  /\ tmp' = File(served, Created)
  /\ GoTo("user", "tmp")
  /\ UNCHANGED <<node, parent, there>>

\* Mutant: the access is set after the file is in place.
Download_MoveFirst ==
  /\ at = "download" /\ served # Html
  /\ node' = File(served, Created) /\ tmp' = Gone
  /\ GoTo("user", "new")
  /\ UNCHANGED <<parent, there>>

\* The download is complete: HTML is an error; without an md5 it is compared
\* with the path.
Download ==
  /\ at = "download"
  /\ \/ /\ served = Html
        /\ tmp' = File(served, Created) /\ at' = "err"
        /\ UNCHANGED <<context, subject, touched, changed>>
     \/ /\ served # Html /\ want.md5 = NoText /\ TextOf(node) = served
        /\ tmp' = Gone /\ GoTo("user", "path")
     \/ /\ served # Html /\ (want.md5 # NoText \/ TextOf(node) # served)
        /\ tmp' = File(served, Created) /\ GoTo("user", "tmp")
  /\ UNCHANGED <<node, parent, there>>

\* mv -f, which replaces a link
Move ==
  /\ at = "move"
  /\ node' = tmp /\ tmp' = Gone
  /\ EndChanged /\ UNCHANGED <<parent, there>>

-----------------------------------------------------------------------------
(* rsconf_install_chxxx: chown, chgrp and chmod if stat says so.  stat      *)
(* shows the link itself, chown and chmod change what it points to.        *)

After(part) == IF part = "user" THEN "group" ELSE IF part = "group" THEN "mode" ELSE "noted"

Subject == IF subject = "tmp" THEN tmp ELSE node

\* chown keeps the rest of the access as it is.
Changed(n, part) ==
  IF n.kind = "link"
    THEN n
    ELSE [kind |-> n.kind, text |-> n.text, to |-> n.to,
          access |-> [n.access EXCEPT ![part] = want.access[part]]]

\* Mutant: the mode is left as it is when the owner is right.
ChXxx_OwnerOnly(part) ==
  /\ at = part
  /\ LET need == part # "mode" /\ Subject.access[part] # want.access[part] IN
       /\ touched' = (touched \/ need)
       /\ IF need
            THEN IF subject = "tmp" THEN tmp' = Changed(tmp, part) /\ UNCHANGED node
                                    ELSE node' = Changed(node, part) /\ UNCHANGED tmp
            ELSE UNCHANGED <<node, tmp>>
  /\ at' = After(part)
  /\ UNCHANGED <<parent, there, context, subject, changed>>

ChXxx(part) ==
  /\ at = part
  /\ LET need == Subject.access[part] # want.access[part] IN
       /\ touched' = (touched \/ need)
       /\ IF need
            THEN IF subject = "tmp" THEN tmp' = Changed(tmp, part) /\ UNCHANGED node
                                    ELSE node' = Changed(node, part) /\ UNCHANGED tmp
            ELSE UNCHANGED <<node, tmp>>
  /\ at' = After(part)
  /\ UNCHANGED <<parent, there, context, subject, changed>>

\* Mutant: changed access is not noted.
Noted_Never ==
  /\ at = "noted"
  /\ at' = (IF subject = "tmp" THEN "move" ELSE "ok")
  /\ changed' = (subject = "new")
  /\ UNCHANGED <<disk, context, subject, touched>>

\* rsconf_no_check: what is new is noted by the caller.
Noted ==
  /\ at = "noted"
  /\ at' = (IF subject = "tmp" THEN "move" ELSE "ok")
  /\ changed' = (subject = "new" \/ (subject = "path" /\ touched))
  /\ UNCHANGED <<disk, context, subject, touched>>

-----------------------------------------------------------------------------
(* Directories, mount points, empty files and links                        *)

MakeDirectory ==
  IF node.kind = "none" /\ parent
    THEN node' = Directory(Created) /\ GoTo("user", "new") /\ UNCHANGED <<parent, tmp, there>>
    ELSE End("err")

\* rsconf_install_directory: a link to a directory is an error, too.
InstallDirectory ==
  /\ Begin("directory")
  /\ IF node.kind = "dir" THEN GoTo("user", "path") /\ UNCHANGED disk ELSE MakeDirectory

\* rsconf_install_mount_point: what is there is left as it is; otherwise the
\* parent is made if need be, then the directory.
InstallMountPoint ==
  /\ Begin("mount_point")
  /\ \/ Exists /\ End(IF node.kind = "dir" THEN "ok" ELSE "err")
     \/ ~Exists /\ parent /\ MakeDirectory
     \/ /\ ~Exists /\ ~parent
        /\ parent' = TRUE /\ GoTo("begin", "path") /\ UNCHANGED <<node, tmp, there>>

\* rsconf_install_ensure_file_exists; touch follows a link that dangles.
EnsureFileExists ==
  /\ Begin("ensure")
  /\ \/ Exists /\ GoTo("user", "path") /\ UNCHANGED disk
     \/ ~Exists /\ ~parent /\ End("err")
     \/ /\ ~Exists /\ parent
        /\ IF node.kind = "link" THEN there' = there \cup {node.to} /\ UNCHANGED node
                                 ELSE node' = File(Empty, Created) /\ UNCHANGED there
        /\ GoTo("user", "new") /\ UNCHANGED <<parent, tmp>>

\* rsconf_install_symlink: rm -f of a link that points elsewhere
InstallSymlink ==
  /\ Begin("symlink")
  /\ \/ node.kind = "link" /\ node.to = want.to /\ End("ok")
     \/ node.kind \in {"file", "dir"} /\ End("err")
     \/ /\ node.kind = "none" \/ (node.kind = "link" /\ node.to # want.to)
        /\ node' = Gone /\ GoTo("link", "path") /\ UNCHANGED <<parent, tmp, there>>

\* ln -s, then the error "symlinks to $old but does not exist"
MakeLink ==
  /\ at = "link"
  /\ IF parent
       THEN /\ node' = Link(want.to) /\ UNCHANGED <<parent, tmp, there>>
            /\ IF want.to \in there THEN EndChanged
               ELSE at' = "err" /\ UNCHANGED <<context, subject, touched, changed>>
       ELSE End("err")

-----------------------------------------------------------------------------
(* rsconf_edit and rsconf_append                                           *)

\* grep -E "$need_egrep": the bang is not taken off.
Grep(w, text) == text \in (IF w.bang THEN w.literal ELSE w.found)

\* Update the file with $edit_perl if grep does not find (bang: finds) what is
\* needed; an error if it then still does not.
Edit ==
  /\ Begin("edit")
  /\ \/ node.kind # "file" /\ End("err")
     \/ node.kind = "file" /\ (Grep(want, node.text) <=> ~want.bang) /\ End("same")
     \/ /\ node.kind = "file" /\ (Grep(want, node.text) <=> want.bang)
        /\ node' = File(want.result[node.text], node.access)
        /\ UNCHANGED <<parent, tmp, there>>
        /\ IF Grep(want, want.result[node.text]) <=> want.bang
             THEN at' = "err" /\ UNCHANGED <<context, subject, touched, changed>>
             ELSE EndChanged

\* echo "$line" >> "$file" unless grep finds it
AppendLine ==
  /\ Begin("append")
  /\ \/ node.kind # "file" /\ End("err")
     \/ node.kind = "file" /\ node.text \in want.found /\ End("same")
     \/ /\ node.kind = "file" /\ node.text \notin want.found
        /\ node' = File(want.result[node.text], node.access)
        /\ EndChanged /\ UNCHANGED <<parent, tmp, there>>

-----------------------------------------------------------------------------
\* The run is killed, or a download fails: the bookkeeping is lost.
Kill == at \notin Ended /\ End("err")

\* Between calls somebody changes the path, its parent or a target, or the
\* build publishes another file.
Outside ==
  /\ at \in Ended
  /\ \/ /\ node' \in {Gone, Directory(Created)}
                       \cup {File(t, Created) : t \in Texts}
        /\ parent' \in {TRUE, node'.kind # "none"}
        /\ UNCHANGED <<tmp, there, served>>
     \/ there' \in SUBSET Targets /\ UNCHANGED <<node, parent, tmp, served>>
     \/ served' \in Texts /\ UNCHANGED disk
  /\ at' = "err" /\ before' = node'
  /\ repeated' = FALSE /\ touched' = FALSE /\ changed' = FALSE /\ subject' = "path"
  /\ UNCHANGED want

Init ==
  /\ node \in {Gone, Directory(Created)} \cup {File(t, Created) : t \in Texts}
  /\ parent = TRUE /\ tmp = Gone /\ there = {} /\ served \in Texts
  /\ want \in Requests /\ at = "err" /\ subject = "path"
  /\ touched = FALSE /\ changed = FALSE /\ before = node /\ repeated = FALSE

Next ==
  \/ \E w \in Requests : Call(w)
  \/ InstallFile \/ Download \/ Move \/ InstallDirectory \/ InstallMountPoint
  \/ EnsureFileExists \/ InstallSymlink \/ MakeLink \/ Edit \/ AppendLine
  \/ \E part \in Parts : ChXxx(part)
  \/ Noted \/ Kill \/ Outside

Spec == Init /\ [][Next]_vars

-----------------------------------------------------------------------------
(* Properties                                                              *)

Node(texts) ==
  {Gone} \cup [kind : {"file"}, text : texts, to : {NoTarget}, access : Access]
         \cup [kind : {"dir"}, text : {NoText}, to : {NoTarget}, access : Access]
         \cup {Link(t) : t \in Targets}

\* Every variable has its type: in particular the path never holds a part of a
\* download, whenever the run is killed.
TypeOK ==
  /\ node \in Node(Texts) /\ tmp \in Node(Texts \cup {Partial}) /\ before \in Node(Texts)
  /\ parent \in BOOLEAN /\ there \subseteq Targets /\ served \in Texts
  /\ want \in Requests /\ subject \in {"path", "new", "tmp"}
  /\ at \in Ended \cup {"begin", "download", "move", "link", "user", "group", "mode", "noted"}
  /\ {touched, changed, repeated} \subseteq BOOLEAN

Succeeded(op) == at \in {"ok", "same"} /\ want.op = op

\* A call that succeeds has brought the path into the state that was asked
\* for, whatever was there and wherever earlier calls were killed.
Achieved ==
  /\ Succeeded("file") =>
       /\ TextOf(node) \in {served, want.md5} \ {NoText}
       /\ node.kind = "link" \/ (node.kind = "file" /\ node.access = want.access)
  /\ Succeeded("directory") => node = Directory(want.access)
  /\ Succeeded("mount_point") => node.kind = "dir"
  /\ Succeeded("ensure") => Exists /\ (node.kind = "link" \/ node.access = want.access)
  /\ Succeeded("symlink") => node = Link(want.to)
  /\ Succeeded("edit") /\ ~want.bang => node.text \in want.found

\* A call that succeeds and has changed the path, be it only its access, has
\* called rsconf_service_file_changed: the services that watch it restart.
ChangeNoted == at \in {"ok", "same"} /\ node # before => changed

\* A call that repeats one that succeeded changes nothing and notes nothing,
\* so that repeated runs restart nothing.  Exceptions: the md5 in the script
\* is not that of the file served, and links, whose mode is never right.
RepeatIsQuiet ==
  /\ at \in {"ok", "same"} /\ repeated /\ node.kind # "link"
  /\ (want.op = "file" => want.md5 \in {NoText, served})
  => ~changed /\ node = before

\* A new content appears at the path with the access that was asked for.
AccessBeforeContent ==
  [][want.op = "file" /\ at \notin Ended /\ node' # node /\ node'.text # node.text
       => node'.access = want.access]_vars

\* "If $need_egrep begins with a bang then the opposite test happens: if
\* $need_egrep is found, then the edit does happen" (rsconf_edit).
BangEditHappens ==
  Succeeded("edit") /\ want.bang => node.text \notin want.found

-----------------------------------------------------------------------------
(* The inductive invariant                                                 *)

WithAccess == {"file", "directory", "mount_point", "ensure"}

BeginInv ==
  at = "begin" => node = before /\ ~changed /\ ~touched /\ subject = "path"

DownloadInv ==
  at = "download" =>
    /\ want.op = "file" /\ subject = "tmp" /\ node = before /\ node.kind # "dir"
    /\ ~changed /\ ~touched

\* chown, chgrp or chmod of n has done what it can do.
Right(n, part) == n.kind = "link" \/ n.access[part] = want.access[part]

\* What rsconf_install_chxxx works on has all but its access.
AccessInv ==
  at \in Parts \cup {"noted"} =>
    /\ want.op \in WithAccess /\ ~changed
    /\ at # "user" => Right(Subject, "user")
    /\ at \in {"mode", "noted"} => Right(Subject, "group")
    /\ at = "noted" => Right(Subject, "mode")
    /\ subject = "tmp" =>
         want.op = "file" /\ node = before /\ tmp.kind = "file" /\ tmp.text = served
    /\ subject # "tmp" /\ want.op = "file" =>
         /\ subject = "path" /\ node.kind \in {"file", "link"}
         /\ TextOf(node) \in {served, want.md5} \ {NoText}
    /\ subject # "tmp" /\ want.op \in {"directory", "mount_point"} => node.kind = "dir"
    /\ want.op = "mount_point" => subject = "new"
    /\ subject # "tmp" /\ want.op = "ensure" => Exists
    /\ subject = "path" /\ ~touched => node = before

MoveInv == at = "move" => want.op = "file" /\ tmp = File(served, want.access)

LinkInv == at = "link" => want.op = "symlink" /\ node = Gone

\* An edit or an append that succeeded need not be made again.
EditedInv ==
  /\ Succeeded("edit") => node.kind = "file" /\ (Grep(want, node.text) <=> ~want.bang)
  /\ Succeeded("append") =>
       node.kind = "file" /\ node.text \in want.found \cup {want.result[x] : x \in Texts}

IInv ==
  /\ TypeOK /\ BeginInv /\ DownloadInv /\ AccessInv /\ MoveInv /\ LinkInv
  /\ Achieved /\ ChangeNoted /\ EditedInv

\* The line that rsconf_append adds is one that grep finds.
AppendsAreFound ==
  \A w \in Requests : w.op = "append" => \A x \in Texts : w.result[x] \in w.found

\* The path is as a call that succeeded has left it.
Done ==
  /\ want.op = "file" => /\ TextOf(node) = served
                         /\ node.kind = "link" \/ (node.kind = "file" /\ node.access = want.access)
  /\ want.op = "directory" => node = Directory(want.access)
  /\ want.op = "mount_point" => node.kind = "dir"
  /\ want.op = "ensure" => Exists /\ (node.kind = "link" \/ node.access = want.access)
  /\ want.op = "symlink" => node = Link(want.to)
  /\ want.op = "edit" => node.kind = "file" /\ (Grep(want, node.text) <=> ~want.bang)
  /\ want.op = "append" => node.kind = "file" /\ node.text \in want.found

\* A call that is repeated finds nothing to do but the mode of a link.
RepeatInv ==
  repeated /\ (want.op = "file" => want.md5 \in {NoText, served}) =>
    /\ Done /\ node = before /\ (changed \/ touched => node.kind = "link")
    /\ at \notin {"move", "link"} /\ (at \in Parts \cup {"noted"} => subject = "path")
    /\ at = "download" => want.md5 = NoText
=============================================================================
