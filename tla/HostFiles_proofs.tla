--------------------------- MODULE HostFiles_proofs ---------------------------
(***************************************************************************)
(* The properties of HostFiles for any path, texts, users and modes, any   *)
(* calls in any order, and kills between any two steps of them.            *)
(***************************************************************************)
EXTENDS HostFiles, TLAPS

-----------------------------------------------------------------------------
(* Types                                                                   *)

LEMMA RequestFields ==
  ASSUME NEW w \in Requests
  PROVE  /\ w.op \in WithAccess \cup {"symlink", "edit", "append"}
         /\ w.op \in WithAccess => w.access \in Access
         /\ w.op = "file" => w.md5 \in Texts \cup {NoText}
         /\ w.op = "symlink" => w.to \in Targets
         /\ w.op = "edit" => w.bang \in BOOLEAN
         /\ w.op \in {"edit", "append"} => w.result \in [Texts -> Texts]
<1>1. w \in Request
  BY HostFilesAssumption
<1> QED
  BY <1>1 DEF Request, WithAccess

LEMMA NodeFields ==
  ASSUME NEW texts, NEW n \in Node(texts)
  PROVE  /\ n.kind \in {"none", "file", "dir", "link"}
         /\ n.kind = "none" => n = Gone
         /\ n.kind = "file" => n.text \in texts /\ n.access \in Access /\ n = File(n.text, n.access)
         /\ n.kind = "dir" => n.access \in Access /\ n = Directory(n.access)
         /\ n.kind = "link" => n.to \in Targets /\ n = Link(n.to)
         /\ n.text \in texts \cup {NoText}
  BY DEF Node, Gone, File, Directory, Link

LEMMA NodeTypes ==
  ASSUME NEW texts
  PROVE  /\ Gone \in Node(texts) /\ Gone.kind = "none" /\ Gone.text = NoText
         /\ \A t \in texts : \A a \in Access :
              /\ File(t, a) \in Node(texts)
              /\ File(t, a).kind = "file" /\ File(t, a).text = t /\ File(t, a).access = a
         /\ \A a \in Access :
              /\ Directory(a) \in Node(texts)
              /\ Directory(a).kind = "dir" /\ Directory(a).access = a
         /\ \A l \in Targets :
              /\ Link(l) \in Node(texts) /\ Link(l).kind = "link" /\ Link(l).to = l
              /\ Link(l).text = NoText
  BY DEF Node, Gone, File, Directory, Link

\* Changed access is access, and right in the part that was changed.
LEMMA ChangedAccess ==
  ASSUME NEW a \in Access, NEW b \in Access, NEW part \in Parts
  PROVE  /\ [a EXCEPT ![part] = b[part]] \in Access
         /\ [a EXCEPT ![part] = b[part]][part] = b[part]
         /\ \A q \in Parts : q # part => [a EXCEPT ![part] = b[part]][q] = a[q]
         /\ a[part] = b[part] => [a EXCEPT ![part] = b[part]] = a
  BY DEF Access, Parts

\* Access that is right in all parts is the access asked for.
LEMMA AccessRight ==
  ASSUME NEW a \in Access, NEW b \in Access,
         a["user"] = b["user"], a["group"] = b["group"], a["mode"] = b["mode"]
  PROVE  a = b
<1>1. a \in [Parts -> Users \cup Modes] /\ b \in [Parts -> Users \cup Modes]
  BY DEF Access
<1>2. \A part \in Parts : a[part] = b[part]
  BY DEF Parts
<1> QED
  BY <1>1, <1>2

LEMMA ChangedType ==
  ASSUME NEW texts, NEW n \in Node(texts), n.kind # "none", NEW part \in Parts, want.access \in Access
  PROVE  /\ Changed(n, part) \in Node(texts)
         /\ Changed(n, part).kind = n.kind /\ Changed(n, part).text = n.text
         /\ Changed(n, part).to = n.to
         /\ Right(Changed(n, part), part)
         /\ \A q \in Parts : Right(n, q) => Right(Changed(n, part), q)
         /\ Right(n, part) => Changed(n, part) = n
<1>1. CASE n.kind = "link"
  BY <1>1 DEF Changed, Right
<1>2. CASE n.kind # "link"
  <2> DEFINE a == [n.access EXCEPT ![part] = want.access[part]]
  <2>1. n.access \in Access /\ (n = File(n.text, n.access) \/ n = Directory(n.access))
        /\ (n.kind = "file" => n.text \in texts)
    BY <1>2, NodeFields
  <2>2. /\ a \in Access /\ a[part] = want.access[part]
        /\ \A q \in Parts : q # part => a[q] = n.access[q]
        /\ n.access[part] = want.access[part] => a = n.access
    BY <2>1, ChangedAccess
  <2>3. Changed(n, part) = [kind |-> n.kind, text |-> n.text, to |-> n.to, access |-> a]
    BY <1>2 DEF Changed
  <2> HIDE DEF a
  <2>4. Changed(n, part) \in Node(texts)
    BY <1>2, <2>1, <2>2, <2>3 DEF Node, File, Directory
  <2>5. n.access[part] = want.access[part] => Changed(n, part) = n
    BY <2>1, <2>2, <2>3 DEF File, Directory
  <2> QED
    BY <1>2, <2>2, <2>3, <2>4, <2>5 DEF Right
<1> QED
  BY <1>1, <1>2

-----------------------------------------------------------------------------
(* Beginning and ending calls                                              *)

\* What holds of a call that has ended with "err", or has just begun.
LEMMA Idle ==
  ASSUME TypeOK', at' = "err" \/ (at' = "begin" /\ BeginInv')
  PROVE  IInv'
  BY DEF IInv, BeginInv, DownloadInv, AccessInv, MoveInv, LinkInv, Achieved, ChangeNoted,
         EditedInv, Succeeded, Parts

LEMMA CallInv == ASSUME IInv, NEW w \in Requests, Call(w) PROVE IInv'
<1>1. TypeOK'
  BY RequestFields DEF IInv, TypeOK, Call, disk, Ended, Node
<1>2. at' = "begin" /\ BeginInv'
  BY DEF Call, BeginInv, disk
<1> QED
  BY <1>1, <1>2, Idle

LEMMA OutsideInv == ASSUME IInv, Outside PROVE IInv'
<1>1. node' \in Node(Texts)
  <2>1. /\ Gone \in Node(Texts) /\ Directory(Created) \in Node(Texts)
        /\ \A x \in Texts : File(x, Created) \in Node(Texts)
    BY NodeTypes, HostFilesAssumption
  <2>2. node' = node \/ node' \in {Gone, Directory(Created)} \cup {File(x, Created) : x \in Texts}
    BY DEF Outside, disk
  <2> QED
    BY <2>1, <2>2 DEF IInv, TypeOK
<1>2. TypeOK'
  <2>1. parent' \in BOOLEAN /\ there' \subseteq Targets /\ served' \in Texts /\ tmp' = tmp
    BY DEF Outside, IInv, TypeOK, disk
  <2> QED
    BY <1>1, <2>1 DEF Outside, IInv, TypeOK, Node, Ended
<1>3. at' = "err"
  BY DEF Outside
<1> QED
  BY <1>2, <1>3, Idle

\* A call that ends without a change to the path.
LEMMA ErrInv == ASSUME IInv, End("err") PROVE IInv'
<1>1. TypeOK'
  BY DEF IInv, TypeOK, End, disk, context, Ended
<1> QED
  BY <1>1, Idle DEF End

LEMMA KillInv == ASSUME IInv, Kill PROVE IInv'
  BY ErrInv DEF Kill

-----------------------------------------------------------------------------
(* Files                                                                   *)

LEMMA InstallFileInv == ASSUME IInv, InstallFile PROVE IInv'
<1>1. /\ node = before /\ ~changed /\ ~touched /\ subject = "path"
      /\ at = "begin" /\ want.op = "file" /\ want \in Requests
  BY DEF InstallFile, Begin, IInv, BeginInv, TypeOK
<1>2. CASE End("err")
  BY <1>2, ErrInv
<1>3. CASE /\ node.kind # "dir" /\ want.md5 # NoText /\ TextOf(node) = want.md5
           /\ GoTo("user", "path") /\ UNCHANGED disk
  <2>1. TypeOK'
    BY <1>3 DEF IInv, TypeOK, GoTo, disk, context, Parts
  <2>2. want.md5 \in Texts /\ node \in Node(Texts)
    BY <1>1, <1>3, RequestFields DEF IInv, TypeOK
  <2>3. node.kind \in {"file", "link"}
    BY <1>3, <2>2, NodeFields, HostFilesAssumption DEF TextOf, Gone
  <2>4. TextOf(node)' = TextOf(node)
    BY <1>3 DEF TextOf, disk
  <2>5. AccessInv'
    BY <1>1, <1>3, <2>3, <2>4 DEF AccessInv, GoTo, disk, context, Parts, WithAccess
  <2> QED
    BY <1>3, <2>1, <2>5 DEF GoTo, IInv, BeginInv, DownloadInv, MoveInv, LinkInv, Achieved,
       ChangeNoted, EditedInv, Succeeded
<1>4. CASE /\ node.kind # "dir" /\ tmp' = File(Partial, Created) /\ UNCHANGED <<node, parent, there>>
           /\ GoTo("download", "tmp")
  <2>1. tmp' \in Node(Texts \cup {Partial})
    BY <1>4, NodeTypes, HostFilesAssumption
  <2>2. TypeOK'
    BY <1>4, <2>1 DEF IInv, TypeOK, GoTo, context
  <2>3. DownloadInv'
    BY <1>1, <1>4 DEF DownloadInv, GoTo, context
  <2> QED
    BY <1>4, <2>2, <2>3 DEF GoTo, IInv, BeginInv, AccessInv, MoveInv, LinkInv, Achieved,
       ChangeNoted, EditedInv, Succeeded, Parts
<1> QED
  BY <1>2, <1>3, <1>4 DEF InstallFile

LEMMA DownloadStepInv == ASSUME IInv, Download PROVE IInv'
<1>1. /\ at = "download" /\ want.op = "file" /\ subject = "tmp" /\ node = before
      /\ node.kind # "dir" /\ ~changed /\ ~touched /\ want \in Requests
      /\ UNCHANGED <<node, parent, there>>
  BY DEF Download, IInv, DownloadInv, TypeOK
<1>2. /\ served \in Texts /\ Created \in Access /\ UNCHANGED context
      /\ tmp' \in {Gone, File(served, Created)}
  BY HostFilesAssumption DEF Download, IInv, TypeOK, GoTo
<1>3. tmp' \in Node(Texts \cup {Partial})
  BY <1>2, NodeTypes
<1>4. CASE at' = "err" /\ UNCHANGED <<subject, touched, changed>>
  <2>1. TypeOK'
    BY <1>1, <1>2, <1>3, <1>4 DEF IInv, TypeOK, context, Ended
  <2> QED
    BY <1>4, <2>1, Idle
<1>5. CASE want.md5 = NoText /\ TextOf(node) = served /\ tmp' = Gone /\ GoTo("user", "path")
  <2>1. TypeOK'
    BY <1>1, <1>2, <1>3, <1>5 DEF IInv, TypeOK, context, Ended, GoTo, Parts
  <2>2. node.kind \in {"file", "link"}
    BY <1>1, <1>2, <1>5, NodeFields, HostFilesAssumption DEF TextOf, Gone, IInv, TypeOK
  <2>3. TextOf(node)' = TextOf(node)
    BY <1>1 DEF TextOf
  <2>4. AccessInv'
    BY <1>1, <1>2, <1>5, <2>2, <2>3, HostFilesAssumption DEF AccessInv, GoTo, context, Parts, WithAccess
  <2> QED
    BY <1>5, <2>1, <2>4 DEF GoTo, IInv, BeginInv, DownloadInv, MoveInv, LinkInv, Achieved,
       ChangeNoted, EditedInv, Succeeded
<1>6. CASE tmp' = File(served, Created) /\ GoTo("user", "tmp")
  <2>1. TypeOK'
    BY <1>1, <1>2, <1>3, <1>6 DEF IInv, TypeOK, context, Ended, GoTo, Parts
  <2>2. tmp'.kind = "file" /\ tmp'.text = served
    BY <1>2, <1>6, NodeTypes
  <2>3. AccessInv'
    BY <1>1, <1>2, <1>6, <2>2 DEF AccessInv, GoTo, context, Parts, WithAccess
  <2> QED
    BY <1>6, <2>1, <2>3 DEF GoTo, IInv, BeginInv, DownloadInv, MoveInv, LinkInv, Achieved,
       ChangeNoted, EditedInv, Succeeded
<1> QED
  BY <1>4, <1>5, <1>6 DEF Download

LEMMA MoveStepInv == ASSUME IInv, Move PROVE IInv'
<1>1. /\ want.op = "file" /\ want \in Requests /\ served \in Texts /\ at' = "ok" /\ changed'
      /\ tmp = File(served, want.access) /\ node' = tmp /\ tmp' = Gone
      /\ UNCHANGED <<parent, there, served, want, before, repeated, subject, touched>>
  BY DEF Move, EndChanged, context, IInv, MoveInv, TypeOK
<1>2. /\ node' \in Node(Texts) /\ node'.kind = "file" /\ node'.text = served
      /\ node'.access = want.access /\ tmp' \in Node(Texts \cup {Partial})
  <2>1. want.access \in Access
    BY <1>1, RequestFields DEF WithAccess
  <2>2. node' = File(served, want.access)
    BY <1>1
  <2> DEFINE n == File(served, want.access)
  <2>3. n \in Node(Texts) /\ n.kind = "file" /\ n.text = served /\ n.access = want.access
    <3>1. served \in Texts
      BY <1>1
    <3> QED
      BY <2>1, <3>1 DEF Node, File
  <2>4. Gone \in Node(Texts \cup {Partial})
    BY NodeTypes
  <2>5. node' = n
    BY <2>2
  <2> HIDE DEF n
  <2> QED
    BY <1>1, <2>3, <2>4, <2>5
<1>3. TypeOK'
  BY <1>1, <1>2 DEF IInv, TypeOK, EndChanged, Move, Ended
<1>4. Achieved'
  BY <1>1, <1>2, HostFilesAssumption DEF Achieved, Succeeded, TextOf
<1> QED
  BY <1>1, <1>3, <1>4 DEF IInv, BeginInv, DownloadInv, AccessInv, MoveInv, LinkInv, ChangeNoted,
     EditedInv, Succeeded, Parts

-----------------------------------------------------------------------------
(* Access                                                                  *)

LEMMA ChXxxInv == ASSUME IInv, NEW part \in Parts, ChXxx(part) PROVE IInv'
<1> DEFINE need == Subject.access[part] # want.access[part]
<1>1. /\ at = part /\ at' = After(part) /\ touched' = (touched \/ need)
      /\ UNCHANGED <<parent, there, served, want, before, repeated, subject, changed>>
      /\ want \in Requests /\ want.op \in WithAccess /\ ~changed
  BY DEF ChXxx, context, IInv, AccessInv, TypeOK
<1>2. want.access \in Access
  BY <1>1, RequestFields
<1>3. /\ node \in Node(Texts) /\ tmp \in Node(Texts \cup {Partial})
      /\ subject \in {"path", "new", "tmp"}
  BY DEF IInv, TypeOK
<1>4. /\ subject = "tmp" => tmp.kind = "file"
      /\ subject # "tmp" => node.kind # "none"
  <2>1. subject # "tmp" /\ want.op = "ensure" => Exists
    BY <1>1 DEF IInv, AccessInv
  <2> QED
    BY <1>1, <2>1 DEF IInv, AccessInv, Exists, WithAccess
<1>5. CASE subject = "tmp"
  <2>1. node' = node /\ (tmp' = Changed(tmp, part) \/ (~need /\ tmp' = tmp))
    BY <1>5 DEF ChXxx
  <2>2. Subject = tmp /\ Subject' = tmp'
    BY <1>1, <1>5 DEF Subject
  <2>3. /\ Changed(tmp, part) \in Node(Texts \cup {Partial})
        /\ Changed(tmp, part).kind = "file" /\ Changed(tmp, part).text = tmp.text
        /\ Right(Changed(tmp, part), part)
        /\ \A q \in Parts : Right(tmp, q) => Right(Changed(tmp, part), q)
    BY <1>2, <1>3, <1>4, <1>5, ChangedType
  <2>4. ~need => Right(tmp, part)
    BY <2>2 DEF Right
  <2>5. /\ tmp' \in Node(Texts \cup {Partial}) /\ tmp'.kind = "file" /\ tmp'.text = tmp.text
        /\ Right(tmp', part) /\ \A q \in Parts : Right(tmp, q) => Right(tmp', q)
    BY <1>3, <1>4, <1>5, <2>1, <2>3, <2>4
  <2>6. \A q \in Parts : Right(tmp, q) => Right(Subject, q)'
    BY <1>1, <2>2, <2>5 DEF Right
  <2>7. Right(Subject, part)'
    BY <1>1, <2>2, <2>5 DEF Right
  <2>8. AccessInv'
    BY <1>1, <1>5, <2>1, <2>2, <2>5, <2>6, <2>7 DEF IInv, AccessInv, After, Parts, WithAccess
  <2>9. TypeOK'
    BY <1>1, <2>1, <2>5 DEF IInv, TypeOK, After, Parts
  <2> QED
    BY <1>1, <2>8, <2>9 DEF After, Parts, IInv, BeginInv, DownloadInv, MoveInv, LinkInv, Achieved,
       ChangeNoted, EditedInv, Succeeded
<1>6. CASE subject # "tmp"
  <2>1. tmp' = tmp /\ (node' = Changed(node, part) \/ (~need /\ node' = node))
    BY <1>6 DEF ChXxx
  <2>2. Subject = node /\ Subject' = node'
    BY <1>1, <1>6 DEF Subject
  <2>3. /\ Changed(node, part) \in Node(Texts)
        /\ Changed(node, part).kind = node.kind /\ Changed(node, part).text = node.text
        /\ Changed(node, part).to = node.to
        /\ Right(Changed(node, part), part)
        /\ \A q \in Parts : Right(node, q) => Right(Changed(node, part), q)
        /\ Right(node, part) => Changed(node, part) = node
    BY <1>2, <1>3, <1>4, <1>6, ChangedType
  <2>4. ~need => Right(node, part)
    BY <2>2 DEF Right
  <2>5. /\ node' \in Node(Texts) /\ node'.kind = node.kind /\ node'.text = node.text
        /\ node'.to = node.to
        /\ Right(node', part) /\ \A q \in Parts : Right(node, q) => Right(node', q)
        /\ ~need => node' = node
    BY <1>3, <2>1, <2>3, <2>4
  <2>6. \A q \in Parts : Right(node, q) => Right(Subject, q)'
    BY <1>1, <2>2, <2>5 DEF Right
  <2>7. Right(Subject, part)'
    BY <1>1, <2>2, <2>5 DEF Right
  <2>8. TextOf(node)' = TextOf(node) /\ (Exists' <=> Exists)
    BY <1>1, <2>5 DEF TextOf, Exists
  <2>9. ~touched' => ~touched /\ node' = node
    BY <1>1, <2>5
  <2>10. AccessInv'
    BY <1>1, <1>6, <2>2, <2>5, <2>6, <2>7, <2>8, <2>9
       DEF IInv, AccessInv, After, Parts, WithAccess
  <2>11. TypeOK'
    BY <1>1, <2>1, <2>5 DEF IInv, TypeOK, After, Parts
  <2> QED
    BY <1>1, <2>10, <2>11 DEF After, Parts, IInv, BeginInv, DownloadInv, MoveInv, LinkInv, Achieved,
       ChangeNoted, EditedInv, Succeeded
<1> QED
  BY <1>5, <1>6

LEMMA NotedInv == ASSUME IInv, Noted PROVE IInv'
<1>1. /\ at = "noted" /\ ~changed /\ want \in Requests /\ want.op \in WithAccess
      /\ at' = (IF subject = "tmp" THEN "move" ELSE "ok")
      /\ changed' = (subject = "new" \/ (subject = "path" /\ touched))
      /\ UNCHANGED <<node, parent, tmp, there, served, want, before, repeated, subject, touched>>
  BY DEF Noted, disk, context, IInv, AccessInv, TypeOK
<1>2. want.access \in Access /\ subject \in {"path", "new", "tmp"}
  BY <1>1, RequestFields DEF IInv, TypeOK
<1>3. /\ Right(Subject, "user") /\ Right(Subject, "group") /\ Right(Subject, "mode")
  BY <1>1 DEF IInv, AccessInv
<1>4. TypeOK'
  BY <1>1 DEF IInv, TypeOK, Ended
<1>5. CASE subject = "tmp"
  <2>1. tmp.kind = "file" /\ tmp.text = served /\ want.op = "file"
    BY <1>1, <1>5 DEF IInv, AccessInv
  <2>2. tmp.access \in Access /\ tmp = File(tmp.text, tmp.access)
    BY <2>1, NodeFields DEF IInv, TypeOK
  <2>3. tmp.access = want.access
    BY <1>2, <1>3, <1>5, <2>1, <2>2, AccessRight DEF Right, Subject
  <2>4. MoveInv'
    BY <1>1, <2>1, <2>2, <2>3 DEF MoveInv
  <2> QED
    BY <1>1, <1>4, <1>5, <2>4 DEF IInv, BeginInv, DownloadInv, AccessInv, LinkInv, Achieved,
       ChangeNoted, EditedInv, Succeeded, Parts
<1>6. CASE subject # "tmp"
  <2>1. node \in Node(Texts) /\ Subject = node
    BY <1>6 DEF IInv, TypeOK, Subject
  <2>2. node.kind \in {"file", "dir"} => node.access = want.access
    BY <1>2, <1>3, <2>1, NodeFields, AccessRight DEF Right
  <2>3. /\ want.op = "file" =>
             /\ node.kind \in {"file", "link"}
             /\ TextOf(node) \in {served, want.md5} \ {NoText}
        /\ want.op \in {"directory", "mount_point"} => node.kind = "dir"
        /\ want.op = "ensure" => Exists
        /\ subject = "path" /\ ~touched => node = before
    BY <1>1, <1>6 DEF IInv, AccessInv
  <2>4. /\ want.op = "directory" => node = Directory(want.access)
        /\ want.op = "ensure" => node.kind = "link" \/ node.access = want.access
    BY <2>1, <2>2, <2>3, NodeFields DEF Exists
  <2>5. TextOf(node)' = TextOf(node) /\ (Exists' <=> Exists)
    BY <1>1 DEF TextOf, Exists
  <2>6. Achieved'
    BY <1>1, <2>2, <2>3, <2>4, <2>5 DEF Achieved, Succeeded, WithAccess
  <2>7. ChangeNoted'
    BY <1>1, <1>2, <1>6, <2>3 DEF ChangeNoted
  <2> QED
    BY <1>1, <1>4, <1>6, <2>6, <2>7 DEF IInv, BeginInv, DownloadInv, AccessInv, MoveInv, LinkInv,
       EditedInv, Succeeded, Parts, WithAccess
<1> QED
  BY <1>5, <1>6

-----------------------------------------------------------------------------
(* Directories, mount points, empty files and links                        *)

LEMMA BeginFacts ==
  ASSUME IInv, NEW o, Begin(o)
  PROVE  /\ at = "begin" /\ want.op = o /\ want \in Requests
         /\ node = before /\ ~changed /\ ~touched /\ subject = "path"
         /\ node \in Node(Texts)
  BY DEF Begin, IInv, BeginInv, TypeOK

LEMMA MakeDirectoryInv ==
  ASSUME IInv, NEW o \in {"directory", "mount_point"}, Begin(o), MakeDirectory
  PROVE  IInv'
<1>1. /\ at = "begin" /\ want.op = o /\ want \in Requests
      /\ node = before /\ ~changed /\ ~touched /\ subject = "path"
  BY BeginFacts
<1>2. CASE End("err")
  BY <1>2, ErrInv
<1>3. CASE node' = Directory(Created) /\ GoTo("user", "new") /\ UNCHANGED <<parent, tmp, there>>
  <2>1. node' \in Node(Texts) /\ node'.kind = "dir"
    BY <1>3, HostFilesAssumption, NodeTypes
  <2>2. TypeOK'
    BY <1>3, <2>1 DEF IInv, TypeOK, GoTo, context, Parts
  <2>3. AccessInv'
    BY <1>1, <1>3, <2>1 DEF AccessInv, GoTo, context, Parts, WithAccess
  <2> QED
    BY <1>3, <2>2, <2>3 DEF GoTo, IInv, BeginInv, DownloadInv, MoveInv, LinkInv, Achieved,
       ChangeNoted, EditedInv, Succeeded
<1> QED
  BY <1>2, <1>3 DEF MakeDirectory

LEMMA InstallDirectoryInv == ASSUME IInv, InstallDirectory PROVE IInv'
<1>1. /\ at = "begin" /\ want.op = "directory" /\ want \in Requests
      /\ node = before /\ ~changed /\ ~touched /\ subject = "path"
  BY BeginFacts DEF InstallDirectory
<1>2. CASE node.kind = "dir"
  <2>1. GoTo("user", "path") /\ UNCHANGED disk
    BY <1>2 DEF InstallDirectory
  <2>2. TypeOK'
    BY <2>1 DEF IInv, TypeOK, GoTo, disk, context, Parts
  <2>3. AccessInv'
    BY <1>1, <1>2, <2>1 DEF AccessInv, GoTo, disk, context, Parts, WithAccess
  <2> QED
    BY <2>1, <2>2, <2>3 DEF GoTo, IInv, BeginInv, DownloadInv, MoveInv, LinkInv, Achieved,
       ChangeNoted, EditedInv, Succeeded
<1> QED
  BY <1>2, MakeDirectoryInv DEF InstallDirectory

LEMMA InstallMountPointInv == ASSUME IInv, InstallMountPoint PROVE IInv'
<1>1. /\ at = "begin" /\ want.op = "mount_point" /\ want \in Requests
      /\ node = before /\ ~changed /\ ~touched /\ subject = "path"
  BY BeginFacts DEF InstallMountPoint
<1>2. CASE Exists /\ node.kind = "dir" /\ End("ok")
  <2>1. TypeOK'
    BY <1>2 DEF IInv, TypeOK, End, disk, context, Ended
  <2>2. Achieved' /\ ChangeNoted'
    BY <1>1, <1>2 DEF Achieved, ChangeNoted, Succeeded, End, disk, context
  <2> QED
    BY <1>1, <1>2, <2>1, <2>2 DEF End, context, IInv, BeginInv, DownloadInv, AccessInv, MoveInv,
       LinkInv, EditedInv, Succeeded, Parts
<1>3. CASE Exists /\ End("err")
  BY <1>3, ErrInv
<1>4. CASE ~Exists /\ parent /\ MakeDirectory
  BY <1>4, MakeDirectoryInv DEF InstallMountPoint
<1>5. CASE parent' = TRUE /\ GoTo("begin", "path") /\ UNCHANGED <<node, tmp, there>>
  <2>1. TypeOK'
    BY <1>5 DEF IInv, TypeOK, GoTo, context
  <2>2. at' = "begin" /\ BeginInv'
    BY <1>1, <1>5 DEF BeginInv, GoTo, context
  <2> QED
    BY <2>1, <2>2, Idle
<1> QED
  BY <1>2, <1>3, <1>4, <1>5 DEF InstallMountPoint

LEMMA EnsureFileExistsInv == ASSUME IInv, EnsureFileExists PROVE IInv'
<1>1. /\ at = "begin" /\ want.op = "ensure" /\ want \in Requests
      /\ node = before /\ ~changed /\ ~touched /\ subject = "path" /\ node \in Node(Texts)
  BY BeginFacts DEF EnsureFileExists
<1>2. CASE End("err")
  BY <1>2, ErrInv
<1>3. CASE Exists /\ GoTo("user", "path") /\ UNCHANGED disk
  <2>1. TypeOK'
    BY <1>3 DEF IInv, TypeOK, GoTo, disk, context, Parts
  <2>2. Exists'
    BY <1>3 DEF Exists, disk
  <2>3. AccessInv'
    BY <1>1, <1>3, <2>2 DEF AccessInv, GoTo, disk, context, Parts, WithAccess
  <2> QED
    BY <1>3, <2>1, <2>3 DEF GoTo, IInv, BeginInv, DownloadInv, MoveInv, LinkInv, Achieved,
       ChangeNoted, EditedInv, Succeeded
<1>4. CASE /\ ~Exists /\ GoTo("user", "new") /\ UNCHANGED <<parent, tmp>>
           /\ IF node.kind = "link" THEN there' = there \cup {node.to} /\ UNCHANGED node
                                    ELSE node' = File(Empty, Created) /\ UNCHANGED there
  <2>1. File(Empty, Created) \in Node(Texts) /\ File(Empty, Created).kind = "file"
    BY NodeTypes, HostFilesAssumption
  <2>2. node.kind = "link" => node.to \in Targets
    BY <1>1, NodeFields
  <2>3. node' \in Node(Texts) /\ there' \subseteq Targets /\ Exists'
    BY <1>1, <1>4, <2>1, <2>2 DEF Exists, IInv, TypeOK
  <2>4. TypeOK'
    BY <1>4, <2>3 DEF IInv, TypeOK, GoTo, context, Parts
  <2>5. AccessInv'
    BY <1>1, <1>4, <2>3 DEF AccessInv, GoTo, context, Parts, WithAccess
  <2> QED
    BY <1>4, <2>4, <2>5 DEF GoTo, IInv, BeginInv, DownloadInv, MoveInv, LinkInv, Achieved,
       ChangeNoted, EditedInv, Succeeded
<1> QED
  BY <1>2, <1>3, <1>4 DEF EnsureFileExists

LEMMA InstallSymlinkInv == ASSUME IInv, InstallSymlink PROVE IInv'
<1>1. /\ at = "begin" /\ want.op = "symlink" /\ want \in Requests
      /\ node = before /\ ~changed /\ ~touched /\ subject = "path" /\ node \in Node(Texts)
  BY BeginFacts DEF InstallSymlink
<1>2. CASE End("err")
  BY <1>2, ErrInv
<1>3. CASE node.kind = "link" /\ node.to = want.to /\ End("ok")
  <2>1. TypeOK'
    BY <1>3 DEF IInv, TypeOK, End, disk, context, Ended
  <2>2. node = Link(want.to)
    BY <1>1, <1>3, NodeFields
  <2>3. Achieved' /\ ChangeNoted'
    BY <1>1, <1>3, <2>2 DEF Achieved, ChangeNoted, Succeeded, End, disk, context
  <2> QED
    BY <1>1, <1>3, <2>1, <2>3 DEF End, context, IInv, BeginInv, DownloadInv, AccessInv, MoveInv,
       LinkInv, EditedInv, Succeeded, Parts
<1>4. CASE node' = Gone /\ GoTo("link", "path") /\ UNCHANGED <<parent, tmp, there>>
  <2>1. TypeOK'
    BY <1>4, NodeTypes DEF IInv, TypeOK, GoTo, context
  <2>2. LinkInv'
    BY <1>1, <1>4 DEF LinkInv, GoTo, context
  <2> QED
    BY <1>4, <2>1, <2>2 DEF GoTo, IInv, BeginInv, DownloadInv, AccessInv, MoveInv, Achieved,
       ChangeNoted, EditedInv, Succeeded, Parts
<1> QED
  BY <1>2, <1>3, <1>4 DEF InstallSymlink

LEMMA MakeLinkInv == ASSUME IInv, MakeLink PROVE IInv'
<1>1. at = "link" /\ want.op = "symlink" /\ want \in Requests /\ want.to \in Targets
  BY RequestFields DEF MakeLink, IInv, LinkInv, TypeOK
<1>2. CASE End("err")
  BY <1>2, ErrInv
<1>3. CASE ~End("err")
  <2>1. node' = Link(want.to) /\ UNCHANGED <<parent, tmp, there, context, subject, touched>>
    BY <1>3 DEF MakeLink, EndChanged
  <2>2. node' \in Node(Texts)
    BY <1>1, <2>1, NodeTypes
  <2>3. (at' = "ok" /\ changed') \/ (at' = "err" /\ changed' = changed)
    BY <1>3 DEF MakeLink, EndChanged
  <2>4. TypeOK'
    BY <2>1, <2>2, <2>3 DEF IInv, TypeOK, context, Ended, MakeLink, EndChanged
  <2>5. Achieved' /\ ChangeNoted'
    BY <1>1, <2>1, <2>3 DEF Achieved, ChangeNoted, Succeeded, context
  <2> QED
    BY <1>1, <2>1, <2>3, <2>4, <2>5 DEF context, IInv, BeginInv, DownloadInv, AccessInv, MoveInv,
       LinkInv, EditedInv, Succeeded, Parts
<1> QED
  BY <1>2, <1>3

-----------------------------------------------------------------------------
(* Edits and lines                                                         *)

\* A call that ends well and had nothing to change.
LEMMA SameInv ==
  ASSUME IInv, NEW o \in {"edit", "append"}, Begin(o), End("same"), node.kind = "file",
         o = "edit" => /\ Grep(want, node.text) <=> ~want.bang
                       /\ ~want.bang => node.text \in want.found,
         o = "append" => node.text \in want.found
  PROVE  IInv'
<1>1. /\ want.op = o /\ node = before
      /\ at' = "same" /\ UNCHANGED <<node, parent, tmp, there, served, want, before, repeated>>
      /\ UNCHANGED <<subject, touched, changed>>
  BY BeginFacts DEF End, disk, context
<1>2. TypeOK'
  BY <1>1 DEF IInv, TypeOK, Ended
<1>3. Achieved' /\ ChangeNoted'
  BY <1>1 DEF Achieved, ChangeNoted, Succeeded
<1>4. Grep(want, node.text)' <=> Grep(want, node.text)
  BY <1>1 DEF Grep
<1>5. EditedInv'
  BY <1>1, <1>4 DEF EditedInv, Succeeded
<1> QED
  BY <1>1, <1>2, <1>3, <1>5 DEF IInv, BeginInv, DownloadInv, AccessInv, MoveInv, LinkInv, Parts

LEMMA EditInv == ASSUME IInv, Edit PROVE IInv'
<1>1. /\ want.op = "edit" /\ want \in Requests /\ node \in Node(Texts)
      /\ want.bang \in BOOLEAN /\ want.result \in [Texts -> Texts]
  BY BeginFacts, RequestFields DEF Edit
<1>2. CASE End("err")
  BY <1>2, ErrInv
<1>3. CASE node.kind = "file" /\ (Grep(want, node.text) <=> ~want.bang) /\ End("same")
  <2>1. ~want.bang => node.text \in want.found
    BY <1>3 DEF Grep
  <2> QED
    BY <1>3, <2>1, SameInv DEF Edit
<1>4. CASE /\ node.kind = "file"
           /\ node' = File(want.result[node.text], node.access) /\ UNCHANGED <<parent, tmp, there>>
           /\ \/ at' = "err" /\ UNCHANGED <<context, subject, touched, changed>>
              \/ ~(Grep(want, want.result[node.text]) <=> want.bang) /\ EndChanged
  <2>1. node.text \in Texts /\ node.access \in Access
    BY <1>1, <1>4, NodeFields
  <2>2. want.result[node.text] \in Texts
    BY <1>1, <2>1
  <2>3. node' \in Node(Texts) /\ node'.kind = "file" /\ node'.text = want.result[node.text]
    BY <1>4, <2>1, <2>2 DEF Node, File
  <2>4. TypeOK'
    BY <1>4, <2>3 DEF IInv, TypeOK, context, Ended, EndChanged
  <2>5. CASE at' = "err"
    BY <2>4, <2>5, Idle
  <2>6. CASE at' = "ok" /\ changed' /\ UNCHANGED want /\ (Grep(want, node'.text) <=> ~want.bang)
    <3>1. Grep(want, node.text)' <=> Grep(want, node'.text)
      BY <2>6 DEF Grep
    <3>2. EditedInv'
      BY <1>1, <2>3, <2>6, <3>1 DEF EditedInv, Succeeded
    <3>3. ~want.bang => node'.text \in want.found
      BY <2>6 DEF Grep
    <3>4. Achieved' /\ ChangeNoted'
      BY <1>1, <2>6, <3>3 DEF Achieved, ChangeNoted, Succeeded
    <3> QED
      BY <2>4, <2>6, <3>2, <3>4 DEF IInv, BeginInv, DownloadInv, AccessInv, MoveInv, LinkInv, Parts
  <2> QED
    BY <1>1, <1>4, <2>3, <2>5, <2>6 DEF EndChanged, context
<1> QED
  BY <1>2, <1>3, <1>4 DEF Edit

LEMMA AppendLineInv == ASSUME IInv, AppendLine PROVE IInv'
<1>1. /\ want.op = "append" /\ want \in Requests /\ node \in Node(Texts)
      /\ want.result \in [Texts -> Texts]
  BY BeginFacts, RequestFields DEF AppendLine
<1>2. CASE End("err")
  BY <1>2, ErrInv
<1>3. CASE node.kind = "file" /\ node.text \in want.found /\ End("same")
  BY <1>3, SameInv DEF AppendLine
<1>4. CASE /\ node.kind = "file" /\ EndChanged
           /\ node' = File(want.result[node.text], node.access) /\ UNCHANGED <<parent, tmp, there>>
  <2>1. node.text \in Texts /\ node.access \in Access
    BY <1>1, <1>4, NodeFields
  <2>2. want.result[node.text] \in Texts
    BY <1>1, <2>1
  <2>3. node' \in Node(Texts) /\ node'.kind = "file" /\ node'.text = want.result[node.text]
    BY <1>4, <2>1, <2>2 DEF Node, File
  <2>4. TypeOK'
    BY <1>4, <2>3 DEF IInv, TypeOK, context, Ended, EndChanged
  <2>5. at' = "ok" /\ changed' /\ UNCHANGED want
    BY <1>4 DEF EndChanged, context
  <2>6. EditedInv' /\ Achieved' /\ ChangeNoted'
    BY <1>1, <2>1, <2>3, <2>5 DEF EditedInv, Achieved, ChangeNoted, Succeeded
  <2> QED
    BY <2>4, <2>5, <2>6 DEF IInv, BeginInv, DownloadInv, AccessInv, MoveInv, LinkInv, Parts
<1> QED
  BY <1>2, <1>3, <1>4 DEF AppendLine

-----------------------------------------------------------------------------
(* The theorems                                                            *)

LEMMA InitInv == Init => IInv
<1> SUFFICES ASSUME Init PROVE IInv
  OBVIOUS
<1>1. /\ Gone \in Node(Texts) /\ Gone \in Node(Texts \cup {Partial})
      /\ Directory(Created) \in Node(Texts)
      /\ \A x \in Texts : File(x, Created) \in Node(Texts)
  BY NodeTypes, HostFilesAssumption
<1>2. TypeOK
  BY <1>1 DEF Init, TypeOK, Ended
<1> QED
  BY <1>2 DEF Init, IInv, BeginInv, DownloadInv, AccessInv, MoveInv, LinkInv, Achieved,
     ChangeNoted, EditedInv, Succeeded, Parts

LEMMA SameVarsInv == IInv /\ UNCHANGED vars => IInv'
  BY DEF vars, disk, context, IInv, TypeOK, BeginInv, DownloadInv, AccessInv, MoveInv, LinkInv,
     Achieved, ChangeNoted, EditedInv, Succeeded, Right, Subject, TextOf, Exists, Grep

THEOREM Invariant == Spec => []IInv
<1>1. IInv /\ [Next]_vars => IInv'
  BY SameVarsInv, CallInv, InstallFileInv, DownloadStepInv, MoveStepInv, InstallDirectoryInv,
     InstallMountPointInv, EnsureFileExistsInv, InstallSymlinkInv, MakeLinkInv, EditInv,
     AppendLineInv, ChXxxInv, NotedInv, KillInv, OutsideInv DEF Next
<1> QED
  BY <1>1, InitInv, PTL DEF Spec

\* The path never holds a part of a download (rsconf_install_file).
THEOREM Types == Spec => []TypeOK
  BY Invariant, PTL DEF IInv

\* What succeeds has reached its state (rsconf_install_*, rsconf_edit).
THEOREM CallsAchieve == Spec => []Achieved
  BY Invariant, PTL DEF IInv

\* What is changed is noted (rsconf_service_file_changed).
THEOREM ChangesAreNoted == Spec => []ChangeNoted
  BY Invariant, PTL DEF IInv

-----------------------------------------------------------------------------
(* Repeated calls                                                          *)

\* The invariant of a repeated call says nothing of others.
LEMMA RepeatSame ==
  ASSUME RepeatInv, UNCHANGED <<node, there, served, want, before, repeated, touched, changed>>,
         at' \in Ended \/ (at' = "user" /\ subject' = "path")
  PROVE  RepeatInv'
<1>1. TextOf(node)' = TextOf(node) /\ (Exists' <=> Exists)
  BY DEF TextOf, Exists
<1>2. Grep(want, node.text)' <=> Grep(want, node.text)
  BY DEF Grep
<1>3. Done' <=> Done
  BY <1>1, <1>2 DEF Done
<1> QED
  BY <1>3 DEF RepeatInv, Ended, Parts

LEMMA CallRepeat ==
  ASSUME AppendsAreFound, IInv, RepeatInv, NEW w \in Requests, Call(w)
  PROVE  RepeatInv'
<1> SUFFICES ASSUME repeated', (want.op = "file" => want.md5 \in {NoText, served})'
             PROVE  RepeatInv'
  BY DEF RepeatInv
<1>1. /\ at \in {"ok", "same"} /\ want' = want /\ UNCHANGED <<node, there, served>>
      /\ at' = "begin" /\ node' = before' /\ ~changed' /\ ~touched' /\ want \in Requests
  BY DEF Call, disk, Ended
<1>2. TextOf(node)' = TextOf(node) /\ (Exists' <=> Exists)
  BY <1>1 DEF TextOf, Exists
<1>3. Grep(want, node.text)' <=> Grep(want, node.text)
  BY <1>1 DEF Grep
<1>4. want.op = "append" => node.text \in want.found
  BY <1>1 DEF IInv, EditedInv, Succeeded, AppendsAreFound
<1>5. Done
  BY <1>1, <1>4 DEF IInv, Achieved, EditedInv, Succeeded, Done
<1>6. Done'
  BY <1>1, <1>2, <1>3, <1>5 DEF Done
<1> QED
  BY <1>1, <1>6 DEF RepeatInv, Parts

LEMMA InstallFileRepeat == ASSUME IInv, RepeatInv, InstallFile PROVE RepeatInv'
<1>1. CASE End("err")
  BY <1>1, RepeatSame DEF End, disk, context, Ended
<1>2. CASE GoTo("user", "path") /\ UNCHANGED disk
  BY <1>2, RepeatSame DEF GoTo, disk, context
<1>3. CASE /\ want.md5 = NoText \/ TextOf(node) # want.md5
           /\ UNCHANGED <<node, there>> /\ GoTo("download", "tmp")
  <2> SUFFICES ASSUME repeated, want.md5 \in {NoText, served}
               PROVE  RepeatInv'
    BY <1>3 DEF RepeatInv, GoTo, context, InstallFile, Begin
  <2>1. want.op = "file" /\ Done /\ TextOf(node) = served
    BY DEF RepeatInv, Done, InstallFile, Begin
  <2>2. want.md5 = NoText
    BY <1>3, <2>1
  <2>3. TextOf(node)' = TextOf(node)
    BY <1>3 DEF TextOf
  <2>4. Done'
    BY <1>3, <2>1, <2>3 DEF Done, GoTo, context
  <2> QED
    BY <1>3, <2>2, <2>4 DEF RepeatInv, GoTo, context, Parts, InstallFile, Begin
<1> QED
  BY <1>1, <1>2, <1>3 DEF InstallFile

LEMMA DownloadRepeat == ASSUME IInv, RepeatInv, Download PROVE RepeatInv'
<1>1. want.op = "file" /\ at = "download" /\ UNCHANGED <<node, there>>
  BY DEF Download, IInv, DownloadInv
<1>2. CASE at' = "err" /\ UNCHANGED <<context, subject, touched, changed>>
  BY <1>1, <1>2, RepeatSame DEF context, Ended
<1>3. CASE GoTo("user", "path")
  BY <1>1, <1>3, RepeatSame DEF context, GoTo
<1>4. CASE (want.md5 # NoText \/ TextOf(node) # served) /\ GoTo("user", "tmp")
  BY <1>1, <1>4 DEF RepeatInv, Done, GoTo, context
<1> QED
  BY <1>2, <1>3, <1>4 DEF Download

LEMMA ChXxxRepeat == ASSUME IInv, RepeatInv, NEW part \in Parts, ChXxx(part) PROVE RepeatInv'
<1>1. /\ at = part /\ at' = After(part) /\ UNCHANGED <<there, served, want, before, repeated>>
      /\ UNCHANGED <<subject, changed>> /\ want.op \in WithAccess /\ want \in Requests
      /\ touched' = (touched \/ Subject.access[part] # want.access[part])
  BY DEF ChXxx, context, IInv, AccessInv, TypeOK
<1> SUFFICES ASSUME repeated, want.op = "file" => want.md5 \in {NoText, served}
             PROVE  RepeatInv'
  BY <1>1 DEF RepeatInv
<1>2. Done /\ node = before /\ (changed \/ touched => node.kind = "link") /\ subject = "path"
  BY <1>1 DEF RepeatInv
<1>3. want.op # "mount_point"
  BY <1>1, <1>2 DEF IInv, AccessInv
<1>4. node.kind = "link" \/ node.access = want.access
  <2>1. want.access \in Access
    BY <1>1, RequestFields
  <2>2. want.op = "directory" => node.access = want.access
    BY <1>2, <2>1, NodeTypes DEF Done
  <2> QED
    BY <1>1, <1>2, <1>3, <2>2 DEF Done, WithAccess
<1>5. /\ Subject = node
      /\ node' = node \/ (Subject.access[part] # want.access[part] /\ node' = Changed(node, part))
  BY <1>2 DEF Subject, ChXxx
<1>6. node' = node /\ (touched' => touched \/ node.kind = "link")
  BY <1>1, <1>4, <1>5 DEF Changed
<1>7. TextOf(node)' = TextOf(node) /\ (Exists' <=> Exists)
  BY <1>1, <1>6 DEF TextOf, Exists
<1>8. Done'
  BY <1>1, <1>2, <1>6, <1>7 DEF Done, WithAccess
<1> QED
  BY <1>1, <1>2, <1>6, <1>8 DEF RepeatInv, After, Parts

LEMMA NotedRepeat == ASSUME IInv, RepeatInv, Noted PROVE RepeatInv'
<1>1. /\ at = "noted" /\ UNCHANGED <<node, there, served, want, before, repeated, touched>>
      /\ changed' = (subject = "new" \/ (subject = "path" /\ touched))
  BY DEF Noted, disk, context
<1> SUFFICES ASSUME repeated, want.op = "file" => want.md5 \in {NoText, served}
             PROVE  RepeatInv'
  BY <1>1 DEF RepeatInv
<1>2. Done /\ node = before /\ (touched => node.kind = "link") /\ subject = "path"
  BY <1>1 DEF RepeatInv
<1>3. at' = "ok" /\ (changed' => touched)
  BY <1>1, <1>2 DEF Noted
<1>4. TextOf(node)' = TextOf(node) /\ (Exists' <=> Exists)
  BY <1>1 DEF TextOf, Exists
<1>5. Grep(want, node.text)' <=> Grep(want, node.text)
  BY <1>1 DEF Grep
<1>6. Done'
  BY <1>1, <1>2, <1>4, <1>5 DEF Done
<1> QED
  BY <1>1, <1>2, <1>3, <1>6 DEF RepeatInv, Parts

\* Directories, mount points, empty files and links that are there already.
LEMMA OthersRepeat ==
  ASSUME IInv, RepeatInv,
         InstallDirectory \/ InstallMountPoint \/ EnsureFileExists \/ InstallSymlink
  PROVE  RepeatInv'
<1>1. /\ UNCHANGED <<served, want, before, repeated>> /\ want \in Requests
      /\ want.op \in {"directory", "mount_point", "ensure", "symlink"}
  BY DEF InstallDirectory, InstallMountPoint, EnsureFileExists, InstallSymlink, MakeDirectory,
         Begin, GoTo, End, context, IInv, TypeOK
<1> SUFFICES ASSUME repeated PROVE RepeatInv'
  BY <1>1 DEF RepeatInv
<1>2. Done
  BY <1>1 DEF RepeatInv
<1>3. CASE InstallDirectory
  <2>1. node.kind = "dir"
    BY <1>1, <1>2, <1>3, RequestFields, NodeTypes DEF Done, InstallDirectory, Begin, WithAccess
  <2> QED
    BY <1>3, <2>1, RepeatSame DEF InstallDirectory, GoTo, disk, context
<1>4. CASE InstallMountPoint
  <2>1. Exists
    BY <1>2, <1>4 DEF Done, InstallMountPoint, Begin, Exists
  <2>2. End("ok") \/ End("err")
    BY <1>4, <2>1 DEF InstallMountPoint
  <2> QED
    BY <2>2, RepeatSame DEF End, disk, context, Ended
<1>5. CASE EnsureFileExists
  <2>1. Exists
    BY <1>2, <1>5 DEF Done, EnsureFileExists, Begin
  <2> QED
    BY <1>5, <2>1, RepeatSame DEF EnsureFileExists, GoTo, disk, context
<1>6. CASE InstallSymlink
  <2>1. want.to \in Targets /\ node = Link(want.to)
    BY <1>1, <1>2, <1>6, RequestFields DEF Done, InstallSymlink, Begin
  <2>2. node.kind = "link" /\ node.to = want.to
    BY <2>1, NodeTypes
  <2>3. End("ok")
    BY <1>6, <2>2 DEF InstallSymlink
  <2> QED
    BY <2>3, RepeatSame DEF End, disk, context, Ended
<1> QED
  BY <1>3, <1>4, <1>5, <1>6

LEMMA EditRepeat == ASSUME IInv, RepeatInv, Edit \/ AppendLine PROVE RepeatInv'
<1>1. UNCHANGED <<served, want, before, repeated>> /\ want.op \in {"edit", "append"}
  BY DEF Edit, AppendLine, Begin, End, EndChanged, context
<1> SUFFICES ASSUME repeated PROVE RepeatInv'
  BY <1>1 DEF RepeatInv
<1>2. Done
  BY <1>1 DEF RepeatInv
<1>3. End("err") \/ End("same")
  <2>1. CASE Edit
    <3>1. node.kind = "file" /\ (Grep(want, node.text) <=> ~want.bang)
      BY <1>2, <2>1 DEF Done, Edit, Begin
    <3> QED
      BY <2>1, <3>1 DEF Edit
  <2>2. CASE AppendLine
    <3>1. node.kind = "file" /\ node.text \in want.found
      BY <1>2, <2>2 DEF Done, AppendLine, Begin
    <3> QED
      BY <2>2, <3>1 DEF AppendLine
  <2> QED
    BY <2>1, <2>2
<1> QED
  BY <1>3, RepeatSame DEF End, disk, context, Ended

\* A call that is repeated is quiet, if what rsconf_append adds is found.
THEOREM RepeatsAreQuiet == ASSUME AppendsAreFound PROVE Spec => []RepeatIsQuiet
<1>1. Init => RepeatInv
  BY DEF Init, RepeatInv
<1>2. ASSUME IInv, RepeatInv, [Next]_vars PROVE RepeatInv'
  <2>1. CASE UNCHANGED vars
    <3>1. TextOf(node)' = TextOf(node) /\ (Exists' <=> Exists)
      BY <2>1 DEF TextOf, Exists, vars, disk
    <3>2. Grep(want, node.text)' <=> Grep(want, node.text)
      BY <2>1 DEF Grep, vars, disk, context
    <3>3. Done' <=> Done
      BY <2>1, <3>1, <3>2 DEF Done, vars, disk, context
    <3> QED
      BY <1>2, <2>1, <3>3 DEF RepeatInv, vars, disk, context
  <2>2. CASE Move \/ MakeLink
    BY <1>2, <2>2 DEF RepeatInv, Move, MakeLink, EndChanged, End, disk, context
  <2>3. CASE Kill
    BY <1>2, <2>3, RepeatSame DEF Kill, End, disk, context, Ended
  <2>4. CASE Outside
    BY <2>4 DEF Outside, RepeatInv
  <2> QED
    BY <1>2, <2>1, <2>2, <2>3, <2>4, CallRepeat, InstallFileRepeat, DownloadRepeat, ChXxxRepeat,
       NotedRepeat, OthersRepeat, EditRepeat DEF Next
<1>3. RepeatInv => RepeatIsQuiet
  BY DEF RepeatInv, RepeatIsQuiet
<1> QED
  BY <1>1, <1>2, <1>3, Invariant, PTL DEF Spec

\* A content appears at the path by the last step of rsconf_install_file only.
THEOREM AccessComesFirst == Spec => AccessBeforeContent
<1> DEFINE Appears == want.op = "file" /\ at \notin Ended /\ node' # node /\ node'.text # node.text
<1>1. ASSUME IInv, Next, Appears PROVE node'.access = want.access
  <2>1. want.op = "file" /\ want \in Requests /\ want.access \in Access
    BY <1>1, RequestFields DEF IInv, TypeOK, WithAccess
  <2>2. CASE Move
    BY <1>1, <2>1, <2>2, NodeTypes DEF Move, IInv, MoveInv, TypeOK, File
  <2>3. ASSUME NEW part \in Parts, ChXxx(part) PROVE FALSE
    <3>1. node' = Changed(node, part)
      BY <1>1, <2>3 DEF ChXxx
    <3> QED
      BY <1>1, <3>1 DEF Changed
  <2>4. ~InstallDirectory /\ ~InstallMountPoint /\ ~EnsureFileExists /\ ~InstallSymlink
    BY <2>1 DEF InstallDirectory, InstallMountPoint, EnsureFileExists, InstallSymlink, Begin
  <2>5. ~Edit /\ ~AppendLine
    BY <2>1 DEF Edit, AppendLine, Begin
  <2>6. ~MakeLink
    BY <1>1, <2>1 DEF MakeLink, IInv, LinkInv
  <2>7. ~Download /\ ~InstallFile /\ ~Noted /\ ~Kill
    BY <1>1 DEF Download, InstallFile, Noted, Kill, End, GoTo, disk
  <2>8. ~Outside /\ \A w \in Requests : ~Call(w)
    BY <1>1 DEF Outside, Call
  <2> QED
    BY <1>1, <2>2, <2>3, <2>4, <2>5, <2>6, <2>7, <2>8 DEF Next
<1>2. IInv /\ [Next]_vars => [Appears => node'.access = want.access]_vars
  BY <1>1
<1> QED
  BY <1>2, Invariant, PTL DEF Spec, AccessBeforeContent
=============================================================================
