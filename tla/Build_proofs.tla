----------------------------- MODULE Build_proofs -----------------------------
(***************************************************************************)
(* The properties of Build for any components, in one phase or in two,     *)
(* that require each other and add to each other in any way.               *)
(***************************************************************************)
EXTENDS Build, SequenceTheorems, FiniteSetTheorems, TLAPS

-----------------------------------------------------------------------------
(* Sequences                                                               *)

LEMMA PushView ==
  ASSUME NEW S, NEW s \in Seq(S), NEW f \in S
  PROVE  /\ <<f>> \o s \in Seq(S) /\ Len(<<f>> \o s) = Len(s) + 1
         /\ (<<f>> \o s)[1] = f
         /\ \A i \in 1..Len(s) : (<<f>> \o s)[i + 1] = s[i]
         /\ \A i \in 2..(Len(s) + 1) : (<<f>> \o s)[i] = s[i - 1]
  OBVIOUS

LEMMA TailView ==
  ASSUME NEW S, NEW s \in Seq(S), s # <<>>
  PROVE  /\ Head(s) = s[1] /\ Head(s) \in S
         /\ Tail(s) \in Seq(S) /\ Len(Tail(s)) = Len(s) - 1 /\ Len(s) \in Nat /\ Len(s) > 0
         /\ \A i \in 1..(Len(s) - 1) : Tail(s)[i] = s[i + 1]
  OBVIOUS

LEMMA InSeqAppend ==
  ASSUME NEW S, NEW s \in Seq(S), NEW x
  PROVE  \A y : InSeq(y, Append(s, x)) <=> InSeq(y, s) \/ y = x
<1> SUFFICES ASSUME NEW y PROVE InSeq(y, Append(s, x)) <=> InSeq(y, s) \/ y = x
  OBVIOUS
<1>1. /\ Len(Append(s, x)) = Len(s) + 1 /\ Append(s, x)[Len(s) + 1] = x /\ Len(s) \in Nat
      /\ \A i \in 1..Len(s) : Append(s, x)[i] = s[i]
      /\ DOMAIN s = 1..Len(s) /\ DOMAIN Append(s, x) = 1..(Len(s) + 1)
  OBVIOUS
<1> QED
  BY <1>1 DEF InSeq

LEMMA InSeqTail ==
  ASSUME NEW S, NEW s \in Seq(S), s # <<>>
  PROVE  \A y : InSeq(y, s) <=> InSeq(y, Tail(s)) \/ y = Head(s)
<1> SUFFICES ASSUME NEW y PROVE InSeq(y, s) <=> InSeq(y, Tail(s)) \/ y = Head(s)
  OBVIOUS
<1>1. DOMAIN s = 1..Len(s) /\ DOMAIN Tail(s) = 1..(Len(s) - 1)
  OBVIOUS
<1>2. InSeq(y, Tail(s)) => InSeq(y, s)
  BY <1>1, TailView DEF InSeq
<1>3. InSeq(y, s) => InSeq(y, Tail(s)) \/ y = Head(s)
  <2> SUFFICES ASSUME NEW i \in 1..Len(s), s[i] = y, i # 1 PROVE InSeq(y, Tail(s))
    BY <1>1, TailView DEF InSeq
  <2>1. i - 1 \in 1..(Len(s) - 1) /\ Tail(s)[i - 1] = s[i]
    BY TailView
  <2> QED
    BY <1>1, <2>1 DEF InSeq
<1>4. InSeq(Head(s), s)
  BY <1>1, TailView DEF InSeq
<1> QED
  BY <1>2, <1>3, <1>4

LEMMA InSeqEmpty == \A y : ~InSeq(y, <<>>)
  BY DEF InSeq

LEMMA InSeqConcat ==
  ASSUME NEW S, NEW s \in Seq(S), NEW t \in Seq(S)
  PROVE  \A y : InSeq(y, s \o t) <=> InSeq(y, s) \/ InSeq(y, t)
<1> SUFFICES ASSUME NEW y PROVE InSeq(y, s \o t) <=> InSeq(y, s) \/ InSeq(y, t)
  OBVIOUS
<1>1. /\ Len(s) \in Nat /\ Len(t) \in Nat /\ Len(s \o t) = Len(s) + Len(t)
      /\ DOMAIN s = 1..Len(s) /\ DOMAIN t = 1..Len(t) /\ DOMAIN (s \o t) = 1..(Len(s) + Len(t))
      /\ \A i \in 1..(Len(s) + Len(t)) :
           (s \o t)[i] = IF i <= Len(s) THEN s[i] ELSE t[i - Len(s)]
  OBVIOUS
<1>2. InSeq(y, s \o t) => InSeq(y, s) \/ InSeq(y, t)
  <2> SUFFICES ASSUME NEW i \in 1..(Len(s) + Len(t)), (s \o t)[i] = y
               PROVE  InSeq(y, s) \/ InSeq(y, t)
    BY <1>1 DEF InSeq
  <2>1. CASE i <= Len(s)
    BY <1>1, <2>1 DEF InSeq
  <2>2. CASE i > Len(s)
    <3>1. i - Len(s) \in 1..Len(t) /\ t[i - Len(s)] = y
      BY <1>1, <2>2
    <3> QED
      BY <1>1, <3>1 DEF InSeq
  <2> QED
    BY <1>1, <2>1, <2>2
<1>3. ASSUME NEW i \in 1..Len(s) PROVE i \in DOMAIN (s \o t) /\ (s \o t)[i] = s[i]
  BY <1>1
<1>4. ASSUME NEW i \in 1..Len(t)
      PROVE  Len(s) + i \in DOMAIN (s \o t) /\ (s \o t)[Len(s) + i] = t[i]
  <2>1. Len(s) + i \in 1..(Len(s) + Len(t)) /\ ~(Len(s) + i <= Len(s)) /\ Len(s) + i - Len(s) = i
    BY <1>1
  <2> QED
    BY <1>1, <2>1
<1> QED
  BY <1>1, <1>2, <1>3, <1>4 DEF InSeq

\* SetToSeq has each element of a finite set.
LEMMA SetToSeqView ==
  ASSUME NEW S, IsFiniteSet(S)
  PROVE  /\ SetToSeq(S) \in Seq(S)
         /\ \A x \in S : InSeq(x, SetToSeq(S))
<1> DEFINE n == Cardinality(S)
           f == SetToSeq(S)
<1>1. n \in Nat
  BY FS_CardinalityType
<1>2. PICK m \in Nat : ExistsBijection(1..m, S)
  BY FS_NatBijection
<1>3. m = n
  BY <1>2, FS_CountingElements
<1>4. PICK g : g \in Bijection(1..n, S)
  BY <1>2, <1>3 DEF ExistsBijection
<1>5. g \in [1..n -> S] /\ IsInjective(g)
  BY <1>4 DEF Bijection, Injection
<1>6. f \in [1..n -> S] /\ IsInjective(f)
  BY <1>5 DEF SetToSeq
<1>7. f \in Injection(1..n, S)
  BY <1>6 DEF Injection
<1>8. Cardinality(1..n) = n
  BY <1>1, FS_Interval
<1>9. f \in Surjection(1..n, S)
  BY <1>7, <1>8, FS_Injection
<1>10. \A x \in S : \E i \in 1..n : f[i] = x
  BY <1>9 DEF Surjection
<1>11. DOMAIN f = 1..n
  BY <1>6
<1>12. f \in Seq(S)
  BY <1>1, <1>6, SeqDef
<1>13. \A x \in S : InSeq(x, f)
  BY <1>10, <1>11 DEF InSeq
<1> QED
  BY <1>12, <1>13

\* A sequence without repetitions stays one.
Distinct(s) == \A i, j \in DOMAIN s : s[i] = s[j] => i = j

LEMMA DistinctAppend ==
  ASSUME NEW S, NEW s \in Seq(S), NEW x, Distinct(s), ~InSeq(x, s)
  PROVE  Distinct(Append(s, x))
<1>1. /\ Append(s, x)[Len(s) + 1] = x /\ Len(s) \in Nat
      /\ \A i \in 1..Len(s) : Append(s, x)[i] = s[i]
      /\ DOMAIN s = 1..Len(s) /\ DOMAIN Append(s, x) = 1..(Len(s) + 1)
  OBVIOUS
<1> QED
  BY <1>1 DEF InSeq, Distinct

LEMMA DistinctTail ==
  ASSUME NEW S, NEW s \in Seq(S), s # <<>>, Distinct(s)
  PROVE  Distinct(Tail(s)) /\ ~InSeq(Head(s), Tail(s))
<1>1. DOMAIN s = 1..Len(s) /\ DOMAIN Tail(s) = 1..(Len(s) - 1)
  OBVIOUS
<1>2. ASSUME NEW i \in DOMAIN Tail(s) PROVE i + 1 \in DOMAIN s /\ Tail(s)[i] = s[i + 1] /\ i \in Int
  BY <1>1, TailView
<1>3. Distinct(Tail(s))
  <2> SUFFICES ASSUME NEW i \in DOMAIN Tail(s), NEW j \in DOMAIN Tail(s), Tail(s)[i] = Tail(s)[j]
               PROVE  i = j
    BY DEF Distinct
  <2>1. i + 1 = j + 1
    BY <1>2 DEF Distinct
  <2> QED
    BY <1>2, <2>1
<1>4. ~InSeq(Head(s), Tail(s))
  <2> SUFFICES ASSUME NEW i \in DOMAIN Tail(s), Tail(s)[i] = Head(s) PROVE FALSE
    BY DEF InSeq
  <2>1. s[i + 1] = s[1] /\ 1 \in DOMAIN s
    BY <1>1, <1>2, TailView
  <2>2. i + 1 = 1
    BY <1>2, <2>1 DEF Distinct
  <2> QED
    BY <1>1, <2>2
<1> QED
  BY <1>3, <1>4

-----------------------------------------------------------------------------
(* Types                                                                   *)

LEMMA ConfiguredType ==
  ASSUME TypeOK, NEW c \in Names
  PROVE  /\ Configured(c) \in Component
         /\ Configured(c).compile \in Seq(Op) /\ Configured(c).write \in Seq(Op)
         /\ Configured(c).onePhase \in BOOLEAN
<1>1. Defs[host] \in Def
  BY BuildAssumption DEF TypeOK
<1>2. Configured(c) \in Component
  BY <1>1 DEF Configured, Def
<1> QED
  BY <1>2 DEF Component

LEMMA OpFields ==
  ASSUME NEW o \in Op
  PROVE  /\ o.kind \in {"require", "instance", "look", "has", "give"} => o.compt \in Names
         /\ o.kind = "give" => o.items \in SUBSET Items
         /\ o.kind = "install" => o.file \in Files /\ o.ignoreExists \in BOOLEAN
         /\ o.kind = "bash" => o \in ScriptLine
         /\ o.kind = "assert" => o.ok \in BOOLEAN
  BY DEF Op, ScriptLine

LEMMA FrameFields ==
  ASSUME NEW frame \in Frame
  PROVE  /\ frame.name \in Names /\ frame.stage \in Stages
         /\ frame.ops \in Seq(Op) /\ frame.found \subseteq Names
  BY DEF Frame

LEMMA BuildingOp ==
  ASSUME TypeOK, NEW kind, Building(kind)
  PROVE  /\ op \in Op /\ op.kind = kind
         /\ Head(stack) \in Frame /\ Head(stack).name \in Names /\ Head(stack).name \in components
<1>1. Head(stack) \in Frame /\ Head(stack) = stack[1] /\ 1 \in DOMAIN stack
  BY TailView DEF TypeOK, Building
<1>2. Head(stack).ops \in Seq(Op) /\ Head(stack).ops # <<>>
  BY <1>1, FrameFields DEF Building
<1>3. op \in Op
  BY <1>2, TailView DEF op
<1> QED
  BY <1>1, <1>3, FrameFields DEF TypeOK, Building, op

LEMMA PastType ==
  ASSUME NEW frame \in Frame, frame.ops # <<>>, NEW found \in SUBSET Names
  PROVE  Past(frame, found) \in Frame
<1>1. Tail(frame.ops) \in Seq(Op)
  BY FrameFields, TailView
<1> QED
  BY <1>1, FrameFields DEF Past, Frame

\* The same calls are under way.
SameCalls(s, t) ==
  /\ s \in Seq(Frame) /\ Len(s) = Len(t)
  /\ \A i \in 1..Len(t) : s[i].name = t[i].name /\ s[i].stage = t[i].stage

\* The innermost call goes on, and the others wait for it.
LEMMA PastCalls ==
  ASSUME TypeOK, stack # <<>>, Head(stack).ops # <<>>, NEW found \in SUBSET Names
  PROVE  SameCalls(<<Past(Head(stack), found)>> \o Tail(stack), stack)
<1> DEFINE s == <<Past(Head(stack), found)>> \o Tail(stack)
<1>1. /\ Head(stack) \in Frame /\ Head(stack) = stack[1]
      /\ Tail(stack) \in Seq(Frame) /\ Len(Tail(stack)) = Len(stack) - 1
      /\ \A i \in 1..(Len(stack) - 1) : Tail(stack)[i] = stack[i + 1]
      /\ Len(stack) \in Nat
  BY TailView DEF TypeOK
<1>2. Past(Head(stack), found) \in Frame
  BY <1>1, PastType
<1>3. /\ s \in Seq(Frame) /\ Len(s) = Len(stack)
      /\ s[1] = Past(Head(stack), found)
      /\ \A i \in 2..Len(stack) : s[i] = Tail(stack)[i - 1]
  BY <1>1, <1>2, PushView
<1>4. \A i \in 2..Len(stack) : s[i] = stack[i]
  BY <1>1, <1>3
<1>5. s[1].name = stack[1].name /\ s[1].stage = stack[1].stage
  BY <1>1, <1>3 DEF Past
<1> QED
  BY <1>1, <1>3, <1>4, <1>5 DEF SameCalls

LEMMA RestCalls ==
  ASSUME TypeOK, NEW kind, Building(kind)
  PROVE  SameCalls(Rest, stack)
<1>1. Head(stack).found \in SUBSET Names
  BY BuildingOp, FrameFields
<1> QED
  BY <1>1, PastCalls DEF Rest, Building

LEMMA CallsKnown ==
  ASSUME TypeOK, NEW s, SameCalls(s, stack)
  PROVE  /\ DOMAIN s = DOMAIN stack /\ DOMAIN stack = 1..Len(stack)
         /\ \A i \in DOMAIN s : s[i].name \in components
<1>1. DOMAIN s = DOMAIN stack /\ DOMAIN stack = 1..Len(stack)
  BY DEF TypeOK, SameCalls
<1>2. \A i \in DOMAIN stack : s[i].name = stack[i].name /\ stack[i].name \in components
  BY <1>1 DEF TypeOK, SameCalls
<1> QED
  BY <1>1, <1>2

-----------------------------------------------------------------------------
(* Steps that leave the calls as they are                                  *)

LEMMA SameCallsInv ==
  ASSUME IInv, SameCalls(stack', stack),
         UNCHANGED <<host, components, required, queue, written, scripts>>,
         phase' = phase \/ phase' = "failed"
  PROVE  StackInv' /\ QueueInv'
<1> USE DEF IInv, SameCalls
<1>1. DOMAIN stack = 1..Len(stack) /\ DOMAIN stack' = 1..Len(stack)
  BY DEF TypeOK
<1>2. \A c : OnStack(c)' <=> OnStack(c)
  BY <1>1 DEF OnStack
<1>3. \A c : HasScript(c)' <=> HasScript(c)
  BY DEF HasScript
<1>4. \A c : Configured(c)' = Configured(c)
  BY DEF Configured
<1>5. StackInv'
  BY <1>1, <1>3, <1>4 DEF StackInv
<1>6. stack = <<>> => stack' = <<>>
  BY <1>1
<1>7. QueueInv'
  BY <1>2, <1>3, <1>4, <1>6 DEF QueueInv
<1> QED
  BY <1>5, <1>7

\* Steps that add nothing to components, scripts or the tree.
LEMMA QuietInv ==
  ASSUME IInv, SameCalls(stack', stack),
         UNCHANGED <<host, components, required, queue, written, given, scripts, output>>,
         phase' = phase \/ phase' = "failed", todo' = todo \/ todo' \in Seq(Names)
  PROVE  IInv'
<1>1. \A i \in DOMAIN stack' : stack'[i].name \in components
  BY CallsKnown DEF IInv
<1>2. TypeOK'
  BY <1>1 DEF IInv, TypeOK, SameCalls, output
<1>3. StackInv' /\ QueueInv'
  BY SameCallsInv
<1>4. ScriptsInv' /\ FilesInv'
  BY DEF IInv, ScriptsInv, FilesInv, Installs, output
<1> QED
  BY <1>2, <1>3, <1>4 DEF IInv

LEMMA FailInv == ASSUME IInv, Fail PROVE IInv'
<1>1. SameCalls(stack', stack)
  BY DEF Fail, SameCalls, IInv, TypeOK
<1> QED
  BY <1>1, QuietInv DEF Fail

LEMMA LookComponentInv == ASSUME IInv, LookComponent PROVE IInv'
  BY FailInv, RestCalls, QuietInv DEF LookComponent, IInv

LEMMA HasComponentInv == ASSUME IInv, HasComponent PROVE IInv'
<1>1. Head(stack).found \cup {c \in {op.compt} : InSeq(c, queue)} \in SUBSET Names
  BY BuildingOp, OpFields, FrameFields DEF HasComponent, IInv
<1>2. SameCalls(stack', stack)
  BY <1>1, PastCalls DEF HasComponent, Building, IInv
<1> QED
  BY <1>2, QuietInv DEF HasComponent

LEMMA AssertHostInv == ASSUME IInv, AssertHost PROVE IInv'
  BY FailInv, RestCalls, QuietInv DEF AssertHost, IInv

LEMMA GetComponentInv == ASSUME IInv, GetComponent PROVE IInv'
<1>1. CASE Fail
  BY <1>1, FailInv
<1>2. CASE ~Fail
  <2>1. /\ InSeq(op.compt, queue)
        /\ given' = [given EXCEPT ![op.compt] = @ \cup op.items]
        /\ SameCalls(stack', stack)
        /\ UNCHANGED <<host, phase, todo, components, required, queue, written, scripts, output>>
    BY <1>2, RestCalls DEF GetComponent, IInv
  <2>2. op.compt \in Names /\ op.items \in SUBSET Items
    BY BuildingOp, OpFields DEF GetComponent, IInv
  <2>3. \A i \in DOMAIN stack' : stack'[i].name \in components
    BY <2>1, CallsKnown DEF IInv
  <2>4. given' \in [Names -> SUBSET Items]
    BY <2>1, <2>2 DEF IInv, TypeOK
  <2>5. TypeOK'
    BY <2>1, <2>3, <2>4 DEF IInv, TypeOK, SameCalls, output
  <2>6. StackInv' /\ QueueInv'
    BY <2>1, SameCallsInv DEF output
  <2>7. ~HasScript(op.compt)
    BY <2>1 DEF IInv, QueueInv, InSeq
  <2>8. \A s \in scripts : given'[s.name] = given[s.name]
    BY <2>1, <2>7 DEF HasScript, IInv, TypeOK, WrittenScript
  <2>9. ScriptsInv' /\ FilesInv'
    BY <2>1, <2>8 DEF IInv, ScriptsInv, FilesInv, Installs, output
  <2> QED
    BY <2>5, <2>6, <2>9 DEF IInv
<1> QED
  BY <1>1, <1>2

-----------------------------------------------------------------------------
(* Installing                                                              *)

\* Nothing but the bash of the innermost component and the tree change.
LEMMA BashInv ==
  ASSUME IInv, stack # <<>>, SameCalls(stack', stack),
         UNCHANGED <<host, phase, todo, components, required, queue, written, given, scripts>>,
         bash' \in [Names -> Seq(ScriptLine)], tree' \subseteq Files,
         \A c \in Names \ {Head(stack).name} : bash'[c] = bash[c]
  PROVE  TypeOK' /\ StackInv' /\ QueueInv' /\ ScriptsInv'
<1>1. \A i \in DOMAIN stack' : stack'[i].name \in components
  BY CallsKnown DEF IInv
<1>2. TypeOK'
  BY <1>1 DEF IInv, TypeOK, SameCalls
<1>3. StackInv' /\ QueueInv'
  BY SameCallsInv
<1>4. ~HasScript(Head(stack).name)
  <2>1. Head(stack) = stack[1] /\ 1 \in DOMAIN stack
    BY TailView DEF IInv, TypeOK
  <2> QED
    BY <2>1 DEF IInv, StackInv
<1>5. \A s \in scripts : s.name \in Names /\ s.name # Head(stack).name
  BY <1>4 DEF HasScript, IInv, TypeOK, WrittenScript
<1>6. ScriptsInv'
  BY <1>5 DEF IInv, ScriptsInv
<1> QED
  BY <1>2, <1>3, <1>6

LEMMA AppendRootBashInv == ASSUME IInv, AppendRootBash PROVE IInv'
<1> DEFINE me == Head(stack).name
<1>1. me \in Names /\ me \in components /\ op \in ScriptLine /\ op.kind = "bash"
  BY BuildingOp, OpFields DEF AppendRootBash, IInv
<1>2. SameCalls(stack', stack) /\ stack # <<>>
  BY RestCalls DEF AppendRootBash, Building, IInv
<1>3. /\ bash' = [bash EXCEPT ![me] = Append(@, op)]
      /\ UNCHANGED <<host, phase, todo, components, required, queue, written, given, tree, scripts>>
  BY DEF AppendRootBash, AppendBash
<1>4. bash[me] \in Seq(ScriptLine) /\ Append(bash[me], op) \in Seq(ScriptLine)
  BY <1>1 DEF IInv, TypeOK
<1>5. bash' \in [Names -> Seq(ScriptLine)]
  BY <1>3, <1>4 DEF IInv, TypeOK
<1>6. /\ bash'[me] = Append(bash[me], op)
      /\ \A c \in Names \ {me} : bash'[c] = bash[c]
  BY <1>1, <1>3 DEF IInv, TypeOK
<1>7. TypeOK' /\ StackInv' /\ QueueInv' /\ ScriptsInv'
  BY <1>2, <1>3, <1>5, <1>6, BashInv DEF IInv, TypeOK
<1>8. \A f \in Files : op # InstallLine(f)
  BY <1>1 DEF InstallLine
<1>9. \A c \in Names : \A f \in Files : Installs(c, f)' <=> Installs(c, f)
  <2> SUFFICES ASSUME NEW c \in Names, NEW f \in Files PROVE Installs(c, f)' <=> Installs(c, f)
    OBVIOUS
  <2>1. CASE c = me
    <3>1. InSeq(InstallLine(f), bash'[me]) <=> InSeq(InstallLine(f), bash[me])
      BY <1>4, <1>6, <1>8, InSeqAppend
    <3> QED
      BY <2>1, <3>1 DEF Installs, InstallLine
  <2>2. CASE c # me
    BY <1>6, <2>2 DEF Installs
  <2> QED
    BY <2>1, <2>2
<1>10. FilesInv'
  BY <1>3, <1>9 DEF IInv, TypeOK, FilesInv
<1> QED
  BY <1>7, <1>10 DEF IInv

\* The innermost component installs new files.
LEMMA FilesStep ==
  ASSUME IInv, NEW me \in components, NEW new \in SUBSET Files, new \cap tree = {},
         UNCHANGED components, tree' = tree \cup new,
         \A c \in Names : \A f \in Files :
           Installs(c, f)' <=> Installs(c, f) \/ (c = me /\ f \in new)
  PROVE  FilesInv'
<1> USE DEF IInv, FilesInv, TypeOK
<1>1. \A f \in new : \A c \in Names : ~Installs(c, f)
  OBVIOUS
<1>2. \A f \in Files : \A c, d \in Names : Installs(c, f)' /\ Installs(d, f)' => c = d
  BY <1>1
<1>3. \A f \in Files : f \in tree' <=> \E c \in components' : Installs(c, f)'
  OBVIOUS
<1>4. \A f \in Files : \A c \in Names : Installs(c, f)' => c \in components'
  OBVIOUS
<1> QED
  BY <1>2, <1>3, <1>4

LEMMA InstallFileInv == ASSUME IInv, InstallFile PROVE IInv'
<1> DEFINE me == Head(stack).name
<1>1. me \in Names /\ me \in components /\ op.file \in Files
  BY BuildingOp, OpFields DEF InstallFile, IInv
<1>2. CASE op.file \in tree /\ ~op.ignoreExists
  BY <1>2, FailInv DEF InstallFile
<1>3. CASE op.file \in tree /\ op.ignoreExists
  <2>1. /\ SameCalls(stack', stack)
        /\ UNCHANGED <<host, phase, todo, components, required, queue, written, given, scripts,
                       bash, tree>>
    BY <1>3, RestCalls DEF InstallFile, IInv
  <2> QED
    BY <2>1, QuietInv DEF output
<1>4. CASE op.file \notin tree
  <2>1. /\ SameCalls(stack', stack) /\ stack # <<>>
        /\ bash' = [bash EXCEPT ![me] = Append(@, InstallLine(op.file))]
        /\ tree' = tree \cup {op.file}
        /\ UNCHANGED <<host, phase, todo, components, required, queue, written, given, scripts>>
    BY <1>4, RestCalls DEF InstallFile, AppendBash, Building, IInv
  <2>2. InstallLine(op.file) \in ScriptLine /\ bash[me] \in Seq(ScriptLine)
    BY <1>1 DEF InstallLine, ScriptLine, IInv, TypeOK
  <2>3. Append(bash[me], InstallLine(op.file)) \in Seq(ScriptLine)
    BY <2>2
  <2>4. bash' \in [Names -> Seq(ScriptLine)]
    BY <2>1, <2>3 DEF IInv, TypeOK
  <2>5. /\ bash'[me] = Append(bash[me], InstallLine(op.file))
        /\ \A c \in Names \ {me} : bash'[c] = bash[c]
    BY <1>1, <2>1 DEF IInv, TypeOK
  <2>6. tree' \subseteq Files
    BY <1>1, <2>1 DEF IInv, TypeOK
  <2>7. TypeOK' /\ StackInv' /\ QueueInv' /\ ScriptsInv'
    BY <2>1, <2>4, <2>5, <2>6, BashInv
  <2>8. ASSUME NEW c \in Names, NEW f \in Files
        PROVE  Installs(c, f)' <=> Installs(c, f) \/ (c = me /\ f \in {op.file})
    <3>1. InstallLine(f) = InstallLine(op.file) <=> f = op.file
      BY DEF InstallLine
    <3>2. CASE c = me
      <4>1. InSeq(InstallLine(f), bash'[me])
              <=> InSeq(InstallLine(f), bash[me]) \/ InstallLine(f) = InstallLine(op.file)
        BY <2>2, <2>5, InSeqAppend
      <4> QED
        BY <3>1, <3>2, <4>1 DEF Installs, InstallLine
    <3>3. CASE c # me
      BY <2>5, <3>3 DEF Installs, InstallLine
    <3> QED
      BY <3>2, <3>3
  <2>9. FilesInv'
    <3>1. {op.file} \in SUBSET Files /\ {op.file} \cap tree = {} /\ UNCHANGED components
      BY <1>1, <1>4, <2>1
    <3> QED
      BY <1>1, <2>1, <2>8, <3>1, FilesStep
  <2> QED
    BY <2>7, <2>9 DEF IInv
<1> QED
  BY <1>2, <1>3, <1>4, BuildingOp, OpFields DEF InstallFile, IInv
LEMMA InstallGivenInv == ASSUME IInv, InstallGiven PROVE IInv'
<1> DEFINE me  == Head(stack).name
           set == (given[me] \cap Files) \ tree
           new == SetToSeq(set)
           lines == [i \in DOMAIN new |-> InstallLine(new[i])]
<1>1. me \in Names /\ me \in components
  BY BuildingOp DEF InstallGiven, IInv
<1>2. IsFiniteSet(set) /\ set \in SUBSET Files /\ set \cap tree = {}
  <2>1. given[me] \in SUBSET Items
    BY <1>1 DEF IInv, TypeOK
  <2>2. set \in SUBSET Items
    BY <2>1
  <2> QED
    BY <2>2, BuildAssumption, FS_Subset
<1>3. /\ SameCalls(stack', stack) /\ stack # <<>>
      /\ bash' = [bash EXCEPT ![me] = @ \o lines]
      /\ tree' = tree \cup (given[me] \cap Files)
      /\ UNCHANGED <<host, phase, todo, components, required, queue, written, given, scripts>>
  BY RestCalls DEF InstallGiven, Building, IInv
<1>4. /\ new \in Seq(set) /\ \A f \in set : InSeq(f, new)
      /\ DOMAIN new = 1..Len(new) /\ Len(new) \in Nat
  <2>1. new \in Seq(set) /\ \A f \in set : InSeq(f, new)
    BY <1>2, SetToSeqView
  <2> HIDE DEF new, set
  <2> QED
    BY <2>1
<1>5. lines \in Seq(ScriptLine)
  <2>1. \A i \in 1..Len(new) : new[i] \in Files
    BY <1>2, <1>4
  <2>2. lines \in [1..Len(new) -> ScriptLine]
    BY <1>4, <2>1 DEF InstallLine, ScriptLine
  <2> HIDE DEF lines, new
  <2> QED
    BY <1>4, <2>2, SeqDef
<1>6. \A f : InSeq(InstallLine(f), lines) <=> f \in set
  <2>1. \A i \in DOMAIN new : new[i] \in set
    BY <1>4
  <2>2. \A f, g : InstallLine(f) = InstallLine(g) <=> f = g
    BY DEF InstallLine
  <2>3. DOMAIN lines = DOMAIN new /\ \A i \in DOMAIN new : lines[i] = InstallLine(new[i])
    OBVIOUS
  <2> HIDE DEF lines, new, set
  <2> QED
    BY <1>4, <2>1, <2>2, <2>3 DEF InSeq
<1>7. bash[me] \in Seq(ScriptLine)
  BY <1>1 DEF IInv, TypeOK
<1>8. bash[me] \o lines \in Seq(ScriptLine)
  BY <1>5, <1>7
<1>9. bash' \in [Names -> Seq(ScriptLine)]
  BY <1>3, <1>8 DEF IInv, TypeOK
<1>10. bash'[me] = bash[me] \o lines /\ \A c \in Names \ {me} : bash'[c] = bash[c]
  BY <1>1, <1>3 DEF IInv, TypeOK
<1>11. tree' = tree \cup set /\ tree' \subseteq Files
  BY <1>3 DEF IInv, TypeOK
<1>12. TypeOK' /\ StackInv' /\ QueueInv' /\ ScriptsInv'
  BY <1>3, <1>9, <1>10, <1>11, BashInv
<1>13. ASSUME NEW c \in Names, NEW f \in Files
       PROVE  Installs(c, f)' <=> Installs(c, f) \/ (c = me /\ f \in set)
  <2>1. CASE c = me
    <3>1. InSeq(InstallLine(f), bash'[me]) <=> InSeq(InstallLine(f), bash[me]) \/ f \in set
      <4> HIDE DEF lines, set, me
      <4> QED
        BY <1>5, <1>6, <1>7, <1>10, InSeqConcat
    <3> QED
      BY <2>1, <3>1 DEF Installs, InstallLine
  <2>2. CASE c # me
    BY <1>10, <2>2 DEF Installs, InstallLine
  <2> QED
    BY <2>1, <2>2
<1>14. FilesInv'
  <2>1. UNCHANGED components
    BY <1>3
  <2> HIDE DEF set
  <2> QED
    BY <1>1, <1>2, <1>11, <1>13, <2>1, FilesStep
<1> QED
  BY <1>12, <1>14 DEF IInv
-----------------------------------------------------------------------------
(* Calls                                                                   *)

LEMMA Nowhere ==
  ASSUME IInv, NEW c, c \notin components
  PROVE  /\ ~InSeq(c, required) /\ ~InSeq(c, queue) /\ c \notin written
         /\ ~HasScript(c) /\ ~OnStack(c)
<1>1. ~InSeq(c, required) /\ ~InSeq(c, queue)
  <2>1. \A i \in DOMAIN required : required[i] \in components
    BY DEF IInv, TypeOK
  <2>2. \A i \in DOMAIN queue : queue[i] \in components
    BY DEF IInv, TypeOK
  <2> QED
    BY <2>1, <2>2 DEF InSeq
<1>2. c \notin written /\ ~OnStack(c)
  BY DEF IInv, TypeOK, OnStack
<1>3. ~HasScript(c)
  BY <1>1 DEF HasScript, IInv, ScriptsInv
<1> QED
  BY <1>1, <1>2, <1>3

LEMMA NewComponentInv ==
  ASSUME IInv, NEW c \in Names, c \notin components, NEW rest, SameCalls(rest, stack),
         stack' = <<NewFrame(c, "compile", Configured(c).compile)>> \o rest,
         components' = components \cup {c},
         UNCHANGED <<host, phase, required, queue, written, given, scripts, output>>,
         phase # "done", todo' = todo \/ todo' \in Seq(Names)
  PROVE  IInv'
<1> DEFINE frame == NewFrame(c, "compile", Configured(c).compile)
<1>1. frame \in Frame /\ frame.name = c /\ frame.stage = "compile"
  BY ConfiguredType DEF NewFrame, Frame, Stages, IInv
<1>0. stack' = <<frame>> \o rest
  OBVIOUS
<1>2. Len(rest) = Len(stack) /\ rest \in Seq(Frame) /\ Len(stack) \in Nat /\ DOMAIN stack = 1..Len(stack)
  BY DEF SameCalls, IInv, TypeOK
<1>3. /\ stack' \in Seq(Frame) /\ Len(stack') = Len(stack) + 1 /\ stack'[1] = frame
      /\ \A i \in 2..(Len(stack) + 1) : stack'[i] = rest[i - 1]
  <2> HIDE DEF frame
  <2> QED
    BY <1>0, <1>1, <1>2, PushView
<1>4. DOMAIN stack' = 1..(Len(stack) + 1)
  BY <1>2, <1>3
<1>5. ASSUME NEW i \in DOMAIN stack'
      PROVE  \/ i = 1 /\ stack'[i].name = c /\ stack'[i].stage = "compile"
             \/ /\ i # 1 /\ i - 1 \in DOMAIN stack /\ i \in Int
                /\ stack'[i].name = stack[i - 1].name /\ stack'[i].stage = stack[i - 1].stage
  <2>1. CASE i = 1
    BY <1>1, <1>3, <2>1
  <2>2. CASE i # 1
    <3>1. i - 1 \in 1..Len(stack) /\ i \in 2..(Len(stack) + 1)
      BY <1>2, <1>4, <2>2
    <3> QED
      BY <1>2, <1>3, <2>2, <3>1 DEF SameCalls
  <2> QED
    BY <2>1, <2>2
<1>6. \A i \in DOMAIN stack : stack[i].name \in components
  BY DEF IInv, TypeOK
<1>7. /\ ~InSeq(c, required) /\ ~InSeq(c, queue) /\ c \notin written
      /\ ~HasScript(c) /\ ~OnStack(c)
  BY Nowhere
<1> HIDE DEF frame
<1>8. TypeOK'
  <2>1. required \in Seq(components') /\ queue \in Seq(components')
    BY SeqMonotonic DEF IInv, TypeOK
  <2>2. \A i \in DOMAIN stack' : stack'[i].name \in components'
    BY <1>5, <1>6
  <2> QED
    BY <1>3, <2>1, <2>2 DEF IInv, TypeOK, output
<1>9. StackInv'
  <2>1. \A i, j \in DOMAIN stack' : stack'[i].name = stack'[j].name => i = j
    <3> SUFFICES ASSUME NEW i \in DOMAIN stack', NEW j \in DOMAIN stack',
                        stack'[i].name = stack'[j].name
                 PROVE  i = j
      OBVIOUS
    <3>1. CASE i = 1 \/ j = 1
      BY <1>5, <1>6, <3>1
    <3>2. CASE i # 1 /\ j # 1
      <4>1. i - 1 = j - 1
        BY <1>5, <3>2 DEF IInv, StackInv
      <4> QED
        BY <1>5, <3>2, <4>1
    <3> QED
      BY <3>1, <3>2
  <2>2. ASSUME NEW i \in DOMAIN stack'
        PROVE  /\ ~HasScript(stack'[i].name) /\ ~InSeq(stack'[i].name, queue)
               /\ InSeq(stack'[i].name, required)
                    <=> stack'[i].stage = "write" /\ ~Configured(stack'[i].name).onePhase
               /\ stack'[i].stage = "compile" => stack'[i].name \notin written
    <3>1. CASE i = 1
      BY <1>5, <1>7, <3>1
    <3>2. CASE i # 1
      BY <1>5, <3>2 DEF IInv, StackInv
    <3> QED
      BY <3>1, <3>2
  <2>3. UNCHANGED <<host, required, queue, written, scripts>>
    OBVIOUS
  <2> QED
    BY <2>1, <2>2, <2>3 DEF StackInv, HasScript, Configured
<1>10. QueueInv'
  <2>1. \A d : OnStack(d) => OnStack(d)'
    <3> SUFFICES ASSUME NEW i \in DOMAIN stack
                 PROVE  \E j \in DOMAIN stack' : stack'[j].name = stack[i].name
      BY DEF OnStack
    <3>1. i + 1 \in DOMAIN stack' /\ (i + 1) - 1 = i /\ i + 1 # 1
      BY <1>2, <1>4
    <3> QED
      BY <1>5, <3>1
  <2>2. OnStack(c)'
    BY <1>4, <1>2, <1>5 DEF OnStack
  <2> QED
    BY <2>1, <2>2 DEF IInv, QueueInv, HasScript, Configured
<1>11. ScriptsInv' /\ FilesInv'
  <2>1. \A f \in Files : f \in tree <=> \E d \in components' : Installs(d, f)
    BY DEF IInv, TypeOK, FilesInv
  <2> QED
    BY <2>1 DEF IInv, ScriptsInv, FilesInv, Installs, output
<1> QED
  BY <1>8, <1>9, <1>10, <1>11 DEF IInv

LEMMA BuildComponentInv ==
  ASSUME IInv, NEW c \in Names, NEW rest, SameCalls(rest, stack), BuildComponent(c, rest),
         UNCHANGED <<host, phase, required, queue, written, given, scripts, output>>,
         phase # "done", todo' = todo \/ todo' \in Seq(Names)
  PROVE  IInv'
<1>1. CASE c \in components
  BY <1>1, QuietInv DEF BuildComponent
<1>2. CASE c \notin components
  BY <1>2, NewComponentInv DEF BuildComponent
<1> QED
  BY <1>1, <1>2

LEMMA RequireRootInv == ASSUME IInv, RequireRoot PROVE IInv'
<1>1. todo \in Seq(Names) /\ todo # <<>> /\ todo' = Tail(todo)
  BY DEF RequireRoot, IInv, TypeOK
<1>2. Head(todo) \in Names /\ todo' \in Seq(Names)
  BY <1>1, TailView
<1>3. SameCalls(<<>>, stack)
  BY DEF RequireRoot, SameCalls
<1> QED
  BY <1>2, <1>3, BuildComponentInv DEF RequireRoot

LEMMA RequireInv == ASSUME IInv, Require PROVE IInv'
<1>1. op.compt \in Names /\ SameCalls(Rest, stack)
  BY BuildingOp, OpFields, RestCalls DEF Require, IInv
<1> QED
  BY <1>1, BuildComponentInv DEF Require, Building

LEMMA BuildInstanceInv == ASSUME IInv, BuildInstance PROVE IInv'
<1>1. op.compt \in Names /\ SameCalls(Rest, stack)
  BY BuildingOp, OpFields, RestCalls DEF BuildInstance, IInv
<1> QED
  BY <1>1, FailInv, BuildComponentInv DEF BuildInstance, Building
-----------------------------------------------------------------------------
(* Writing                                                                 *)

LEMMA StartWritesInv == ASSUME IInv, StartWrites PROVE IInv'
<1>1. TypeOK'
  BY DEF IInv, TypeOK, StartWrites, output
<1>2. StackInv' /\ QueueInv'
  BY DEF IInv, StackInv, QueueInv, StartWrites, HasScript, OnStack, Configured
<1>3. ScriptsInv' /\ FilesInv'
  BY DEF IInv, ScriptsInv, FilesInv, Installs, StartWrites, output
<1> QED
  BY <1>1, <1>2, <1>3 DEF IInv

LEMMA WriteRootInv == ASSUME IInv, WriteRoot PROVE IInv'
<1>1. TypeOK'
  BY DEF IInv, TypeOK, WriteRoot, output
<1>2. StackInv' /\ QueueInv'
  BY DEF IInv, StackInv, QueueInv, WriteRoot, HasScript, OnStack, Configured
<1>3. ScriptsInv' /\ FilesInv'
  BY DEF IInv, ScriptsInv, FilesInv, Installs, WriteRoot, output
<1> QED
  BY <1>1, <1>2, <1>3 DEF IInv

LEMMA WriteNextInv == ASSUME IInv, WriteNext PROVE IInv'
<1> DEFINE c == Head(queue)
           frame == NewFrame(c, "write", Configured(c).write)
<1>1. /\ queue \in Seq(components) /\ queue # <<>> /\ queue' = Tail(queue)
      /\ stack = <<>> /\ stack' = <<frame>> /\ written' = written \cup {c} /\ phase = "write"
      /\ UNCHANGED <<host, phase, todo, components, required, given, scripts, bash, tree>>
  BY DEF WriteNext, output, IInv, TypeOK
<1>2. /\ c = queue[1] /\ 1 \in DOMAIN queue /\ c \in components /\ c \in Names
      /\ Tail(queue) \in Seq(components)
  BY <1>1, TailView DEF IInv, TypeOK
<1>3. Distinct(queue)
  BY DEF Distinct, IInv, QueueInv
<1>4. Distinct(Tail(queue)) /\ ~InSeq(c, Tail(queue))
  BY <1>1, <1>3, DistinctTail
<1>5. \A d : InSeq(d, queue) <=> InSeq(d, Tail(queue)) \/ d = c
  BY <1>1, InSeqTail
<1>6. InSeq(c, required) /\ ~HasScript(c) /\ ~Configured(c).onePhase
  BY <1>2 DEF IInv, QueueInv
<1>7. frame \in Frame /\ frame.name = c /\ frame.stage = "write"
  BY <1>2, ConfiguredType DEF NewFrame, Frame, Stages, IInv
<1>8. stack' \in Seq(Frame) /\ DOMAIN stack' = {1} /\ stack'[1].name = c /\ stack'[1].stage = "write"
  <2> HIDE DEF frame
  <2> QED
    BY <1>1, <1>7
<1> HIDE DEF frame, c
<1>9. TypeOK'
  <2>1. written \subseteq components /\ \A x \in written : ~InSeq(x, queue)
    BY DEF IInv, TypeOK, InSeq
  <2>2. written' \subseteq components' \ {queue'[i] : i \in DOMAIN queue'}
    BY <1>1, <1>2, <1>4, <1>5, <2>1 DEF InSeq
  <2> QED
    BY <1>1, <1>2, <1>8, <2>2 DEF IInv, TypeOK
<1>10. StackInv'
  BY <1>1, <1>4, <1>6, <1>8 DEF StackInv, HasScript, Configured
<1>11. QueueInv'
  <2>1. \A i, j \in DOMAIN queue' : queue'[i] = queue'[j] => i = j
    BY <1>1, <1>4 DEF Distinct
  <2>2. \A d : InSeq(d, queue) =>
          InSeq(d, required) /\ ~HasScript(d) /\ ~Configured(d).onePhase
    BY DEF IInv, QueueInv, InSeq
  <2>3. \A i \in DOMAIN queue' : InSeq(queue'[i], queue)
    BY <1>1, <1>5 DEF InSeq
  <2>4. \A d : OnStack(d)' <=> d = c
    BY <1>8 DEF OnStack
  <2>5. \A d : ~OnStack(d)
    BY <1>1 DEF OnStack
  <2> QED
    BY <1>1, <1>5, <1>6, <2>1, <2>2, <2>3, <2>4, <2>5 DEF IInv, QueueInv, HasScript, Configured
<1>12. ScriptsInv' /\ FilesInv'
  BY <1>1 DEF IInv, ScriptsInv, FilesInv, Installs
<1> QED
  BY <1>9, <1>10, <1>11, <1>12 DEF IInv

LEMMA EndFacts ==
  ASSUME TypeOK, NEW stage, AtEnd(stage)
  PROVE  /\ stack # <<>> /\ 1 \in DOMAIN stack /\ Head(stack) = stack[1] /\ stack[1] \in Frame
         /\ stack[1].name \in Names /\ stack[1].name \in components
         /\ stack[1].stage = stage /\ phase # "done"
  BY TailView, FrameFields DEF TypeOK, AtEnd

LEMMA WriteNowInv == ASSUME IInv, WriteNow PROVE IInv'
<1> DEFINE c == stack[1].name
           frame == [name |-> c, stage |-> "write", ops |-> Configured(c).write,
                     found |-> stack[1].found]
<1>1. /\ stack # <<>> /\ 1 \in DOMAIN stack /\ Head(stack) = stack[1] /\ stack[1] \in Frame
      /\ c \in Names /\ c \in components /\ stack[1].stage = "compile" /\ phase # "done"
  BY EndFacts DEF WriteNow, IInv
<1>2. /\ Configured(c).onePhase /\ stack' = <<frame>> \o Tail(stack)
      /\ UNCHANGED <<host, phase, todo, components, required, queue, written, given, scripts,
                     bash, tree>>
  BY <1>1 DEF WriteNow, output
<1>3. frame \in Frame /\ frame.name = c /\ frame.stage = "write"
  BY <1>1, ConfiguredType, FrameFields DEF Frame, Stages, IInv
<1>4. /\ Tail(stack) \in Seq(Frame) /\ Len(Tail(stack)) = Len(stack) - 1 /\ Len(stack) \in Nat
      /\ \A i \in 1..(Len(stack) - 1) : Tail(stack)[i] = stack[i + 1]
      /\ DOMAIN stack = 1..Len(stack)
  BY <1>1, TailView DEF IInv, TypeOK
<1>5. /\ stack' \in Seq(Frame) /\ Len(stack') = Len(stack) /\ stack'[1] = frame
      /\ \A i \in 2..Len(stack) : stack'[i] = Tail(stack)[i - 1]
  <2> HIDE DEF frame
  <2> QED
    BY <1>2, <1>3, <1>4, PushView
<1>6. DOMAIN stack' = DOMAIN stack
  BY <1>4, <1>5
<1>7. ASSUME NEW i \in DOMAIN stack
      PROVE  stack'[i].name = stack[i].name /\ (i # 1 => stack'[i].stage = stack[i].stage)
  <2>1. CASE i = 1
    BY <1>3, <1>5, <2>1
  <2>2. CASE i # 1
    <3>1. i \in 2..Len(stack) /\ i - 1 \in 1..(Len(stack) - 1) /\ (i - 1) + 1 = i
      BY <1>4, <2>2
    <3>2. stack'[i] = stack[i]
      BY <1>4, <1>5, <3>1
    <3> QED
      BY <2>2, <3>2
  <2> QED
    BY <2>1, <2>2
<1>8. stack'[1].stage = "write"
  BY <1>3, <1>5
<1> HIDE DEF frame
<1>9. TypeOK'
  <2>1. \A i \in DOMAIN stack' : stack'[i].name \in components'
    BY <1>2, <1>6, <1>7 DEF IInv, TypeOK
  <2> QED
    BY <1>2, <1>5, <2>1 DEF IInv, TypeOK
<1>10. ~InSeq(c, required)
  BY <1>1 DEF IInv, StackInv
<1>11. StackInv'
  <2>1. \A i, j \in DOMAIN stack' : stack'[i].name = stack'[j].name => i = j
    BY <1>6, <1>7 DEF IInv, StackInv
  <2>2. ASSUME NEW i \in DOMAIN stack'
        PROVE  /\ ~HasScript(stack'[i].name) /\ ~InSeq(stack'[i].name, queue)
               /\ InSeq(stack'[i].name, required)
                    <=> stack'[i].stage = "write" /\ ~Configured(stack'[i].name).onePhase
               /\ stack'[i].stage = "compile" => stack'[i].name \notin written
    <3>1. CASE i = 1
      BY <1>2, <1>6, <1>7, <1>8, <1>10, <3>1 DEF IInv, StackInv
    <3>2. CASE i # 1
      BY <1>6, <1>7, <3>2 DEF IInv, StackInv
    <3> QED
      BY <3>1, <3>2
  <2> QED
    BY <1>2, <2>1, <2>2 DEF StackInv, HasScript, Configured
<1>12. \A d : OnStack(d)' <=> OnStack(d)
  BY <1>6, <1>7 DEF OnStack
<1>13. QueueInv'
  BY <1>1, <1>2, <1>12 DEF IInv, QueueInv, HasScript, Configured
<1>14. ScriptsInv' /\ FilesInv'
  BY <1>2 DEF IInv, ScriptsInv, FilesInv, Installs
<1> QED
  BY <1>9, <1>11, <1>13, <1>14 DEF IInv

\* The innermost call returns.
LEMMA ReturnFacts ==
  ASSUME IInv, NEW stage, AtEnd(stage), stack' = Tail(stack)
  PROVE  /\ stack' \in Seq(Frame)
         /\ \A i \in DOMAIN stack' : i + 1 \in DOMAIN stack /\ stack'[i] = stack[i + 1] /\ i \in Int
         /\ \A i \in DOMAIN stack' : stack'[i].name # stack[1].name
         /\ \A i, j \in DOMAIN stack' : stack'[i].name = stack'[j].name => i = j
         /\ \A d : OnStack(d) <=> OnStack(d)' \/ d = stack[1].name
<1>1. /\ Tail(stack) \in Seq(Frame) /\ Len(Tail(stack)) = Len(stack) - 1 /\ Len(stack) \in Nat
      /\ \A i \in 1..(Len(stack) - 1) : Tail(stack)[i] = stack[i + 1]
      /\ Len(stack) > 0 /\ DOMAIN stack = 1..Len(stack)
  BY EndFacts, TailView DEF IInv, TypeOK
<1>2. DOMAIN stack' = 1..(Len(stack) - 1)
  BY <1>1
<1>3. \A i \in DOMAIN stack' : i + 1 \in DOMAIN stack /\ stack'[i] = stack[i + 1] /\ i \in Int /\ i + 1 # 1
  BY <1>1, <1>2
<1>4. 1 \in DOMAIN stack
  BY <1>1
<1>5. \A i \in DOMAIN stack' : stack'[i].name # stack[1].name
  BY <1>3, <1>4 DEF IInv, StackInv
<1>6. ASSUME NEW i \in DOMAIN stack', NEW j \in DOMAIN stack', stack'[i].name = stack'[j].name
      PROVE  i = j
  <2>1. i + 1 = j + 1
    BY <1>3, <1>6 DEF IInv, StackInv
  <2> QED
    BY <1>3, <2>1
<1>7. ASSUME NEW d PROVE OnStack(d) <=> OnStack(d)' \/ d = stack[1].name
  <2>1. OnStack(d)' => OnStack(d)
    BY <1>3 DEF OnStack
  <2>2. OnStack(d) => OnStack(d)' \/ d = stack[1].name
    <3> SUFFICES ASSUME NEW i \in DOMAIN stack, stack[i].name = d, i # 1 PROVE OnStack(d)'
      BY DEF OnStack
    <3>1. i - 1 \in DOMAIN stack' /\ (i - 1) + 1 = i
      BY <1>1, <1>2
    <3>2. stack'[i - 1].name = d
      BY <1>3, <3>1
    <3> QED
      BY <3>1, <3>2 DEF OnStack
  <2> QED
    BY <1>4, <2>1, <2>2 DEF OnStack
<1> QED
  BY <1>1, <1>3, <1>5, <1>6, <1>7
LEMMA QueueStepInv == ASSUME IInv, Queue PROVE IInv'
<1> DEFINE c == stack[1].name
<1>1. /\ stack # <<>> /\ 1 \in DOMAIN stack /\ Head(stack) = stack[1] /\ stack[1] \in Frame
      /\ c \in Names /\ c \in components /\ stack[1].stage = "compile" /\ phase # "done"
  BY EndFacts DEF Queue, IInv
<1>2. /\ ~Configured(c).onePhase /\ stack' = Tail(stack) /\ AtEnd("compile")
      /\ queue' = Append(queue, c) /\ required' = Append(required, c)
      /\ UNCHANGED <<host, phase, todo, components, written, given, scripts, bash, tree>>
  BY <1>1 DEF Queue, output
<1>3. /\ stack' \in Seq(Frame)
      /\ \A i \in DOMAIN stack' : i + 1 \in DOMAIN stack /\ stack'[i] = stack[i + 1] /\ i \in Int
      /\ \A i \in DOMAIN stack' : stack'[i].name # c
      /\ \A i, j \in DOMAIN stack' : stack'[i].name = stack'[j].name => i = j
      /\ \A d : OnStack(d) <=> OnStack(d)' \/ d = c
  BY <1>2, ReturnFacts
<1>4. ~HasScript(c) /\ ~InSeq(c, queue) /\ ~InSeq(c, required) /\ c \notin written
  BY <1>1 DEF IInv, StackInv
<1>5. queue \in Seq(components) /\ required \in Seq(components)
  BY DEF IInv, TypeOK
<1>6. /\ \A d : InSeq(d, queue') <=> InSeq(d, queue) \/ d = c
      /\ \A d : InSeq(d, required') <=> InSeq(d, required) \/ d = c
  BY <1>2, <1>5, InSeqAppend
<1>7. Distinct(queue) /\ Distinct(required)
  BY DEF Distinct, IInv, QueueInv
<1>8. Distinct(queue') /\ Distinct(required')
  BY <1>2, <1>4, <1>5, <1>7, DistinctAppend
<1>9. queue' \in Seq(components) /\ required' \in Seq(components)
  BY <1>1, <1>2, <1>5
<1> HIDE DEF c
<1>10. TypeOK'
  <2>1. \A i \in DOMAIN stack' : stack'[i].name \in components
    BY <1>3 DEF IInv, TypeOK
  <2>2. written \subseteq components /\ \A x \in written : ~InSeq(x, queue)
    BY DEF IInv, TypeOK, InSeq
  <2>3. written' \subseteq components' \ {queue'[i] : i \in DOMAIN queue'}
    BY <1>2, <1>4, <1>6, <2>2 DEF InSeq
  <2> QED
    BY <1>2, <1>3, <1>9, <2>1, <2>3 DEF IInv, TypeOK
<1>11. StackInv'
  <2>1. ASSUME NEW i \in DOMAIN stack'
        PROVE  /\ ~HasScript(stack'[i].name) /\ ~InSeq(stack'[i].name, queue')
               /\ InSeq(stack'[i].name, required')
                    <=> stack'[i].stage = "write" /\ ~Configured(stack'[i].name).onePhase
               /\ stack'[i].stage = "compile" => stack'[i].name \notin written
    BY <1>3, <1>6 DEF IInv, StackInv
  <2> QED
    BY <1>2, <1>3, <2>1 DEF StackInv, HasScript, Configured
<1>12. QueueInv'
  <2>1. \A d : InSeq(d, queue) =>
          InSeq(d, required) /\ ~HasScript(d) /\ ~Configured(d).onePhase
    BY DEF IInv, QueueInv, InSeq
  <2>2. \A d : InSeq(d, required) => HasScript(d) \/ InSeq(d, queue) \/ OnStack(d)
    BY DEF IInv, QueueInv, InSeq
  <2>3. ASSUME NEW d, InSeq(d, queue')
        PROVE  InSeq(d, required') /\ ~HasScript(d) /\ ~Configured(d).onePhase
    BY <1>2, <1>4, <1>6, <2>1, <2>3
  <2>4. ASSUME NEW d, InSeq(d, required')
        PROVE  HasScript(d) \/ InSeq(d, queue') \/ OnStack(d)'
    BY <1>3, <1>6, <2>2, <2>4
  <2>5. \A d \in components : OnStack(d)' \/ InSeq(d, required')
    BY <1>3, <1>6 DEF IInv, QueueInv
  <2>6. \A i \in DOMAIN queue' : InSeq(queue'[i], queue')
    BY DEF InSeq
  <2>7. \A i \in DOMAIN required' : InSeq(required'[i], required')
    BY DEF InSeq
  <2>8. UNCHANGED <<host, phase, components, scripts>>
    BY <1>2
  <2> QED
    BY <1>1, <1>8, <2>3, <2>4, <2>5, <2>6, <2>7, <2>8 DEF QueueInv, Distinct, HasScript, Configured
<1>13. ScriptsInv' /\ FilesInv'
  BY <1>2, <1>6 DEF IInv, ScriptsInv, FilesInv, Installs
<1> QED
  BY <1>10, <1>11, <1>12, <1>13 DEF IInv

LEMMA EndWriteInv == ASSUME IInv, EndWrite PROVE IInv'
<1> DEFINE c == stack[1].name
           script == [name |-> c, sees |-> given[c], found |-> stack[1].found, bash |-> bash[c]]
<1>1. /\ stack # <<>> /\ 1 \in DOMAIN stack /\ Head(stack) = stack[1] /\ stack[1] \in Frame
      /\ c \in Names /\ c \in components /\ stack[1].stage = "write" /\ phase # "done"
  BY EndFacts DEF EndWrite, IInv
<1>2. /\ stack' = Tail(stack) /\ AtEnd("write") /\ scripts' = scripts \cup {script}
      /\ required' = IF Configured(c).onePhase THEN Append(required, c) ELSE required
      /\ UNCHANGED <<host, phase, todo, components, queue, written, given, bash, tree>>
  BY <1>1 DEF EndWrite, output
<1>3. /\ stack' \in Seq(Frame)
      /\ \A i \in DOMAIN stack' : i + 1 \in DOMAIN stack /\ stack'[i] = stack[i + 1] /\ i \in Int
      /\ \A i \in DOMAIN stack' : stack'[i].name # c
      /\ \A i, j \in DOMAIN stack' : stack'[i].name = stack'[j].name => i = j
      /\ \A d : OnStack(d) <=> OnStack(d)' \/ d = c
  BY <1>2, ReturnFacts
<1>4. ~HasScript(c) /\ ~InSeq(c, queue) /\ (InSeq(c, required) <=> ~Configured(c).onePhase)
  BY <1>1 DEF IInv, StackInv
<1>5. required \in Seq(components) /\ Distinct(required)
  BY DEF IInv, TypeOK, QueueInv, Distinct
<1>6. /\ required' \in Seq(components) /\ Distinct(required')
      /\ \A d : InSeq(d, required') <=> InSeq(d, required) \/ d = c
  <2>1. CASE Configured(c).onePhase
    <3>1. required' = Append(required, c) /\ ~InSeq(c, required)
      BY <1>2, <1>4, <2>1
    <3> HIDE DEF c
    <3> QED
      BY <1>1, <1>5, <3>1, InSeqAppend, DistinctAppend
  <2>2. CASE ~Configured(c).onePhase
    BY <1>2, <1>4, <1>5, <2>2
  <2> QED
    BY <2>1, <2>2
<1>7. script.name = c /\ script.sees = given[c] /\ script.bash = bash[c] /\ script \in WrittenScript
  BY <1>1, FrameFields DEF WrittenScript, IInv, TypeOK
<1> HIDE DEF c, script
<1>8. \A d : HasScript(d)' <=> HasScript(d) \/ d = c
  BY <1>2, <1>7 DEF HasScript
<1>9. TypeOK'
  <2>1. \A i \in DOMAIN stack' : stack'[i].name \in components
    BY <1>3 DEF IInv, TypeOK
  <2> QED
    BY <1>2, <1>3, <1>6, <1>7, <2>1 DEF IInv, TypeOK
<1>10. StackInv'
  <2>1. ASSUME NEW i \in DOMAIN stack'
        PROVE  /\ ~(\E s \in scripts' : s.name = stack'[i].name) /\ ~InSeq(stack'[i].name, queue)
               /\ InSeq(stack'[i].name, required')
                    <=> stack'[i].stage = "write" /\ ~Configured(stack'[i].name).onePhase
               /\ stack'[i].stage = "compile" => stack'[i].name \notin written
    <3>1. stack'[i].name # c /\ i + 1 \in DOMAIN stack /\ stack'[i] = stack[i + 1]
      BY <1>3
    <3>2. ~HasScript(stack[i + 1].name) /\ stack[i + 1].name # c
      BY <3>1 DEF IInv, StackInv
    <3>3. ~\E s \in scripts' : s.name = stack'[i].name
      BY <1>2, <1>7, <3>1, <3>2 DEF HasScript
    <3> QED
      BY <1>6, <3>1, <3>3 DEF IInv, StackInv, HasScript
  <2> QED
    BY <1>2, <1>3, <2>1 DEF StackInv, HasScript, Configured
<1>11. QueueInv'
  <2>1. \A d : InSeq(d, queue) =>
          InSeq(d, required') /\ ~HasScript(d)' /\ ~Configured(d).onePhase
    <3>1. \A d : InSeq(d, queue) =>
            InSeq(d, required) /\ ~HasScript(d) /\ ~Configured(d).onePhase
      BY DEF IInv, QueueInv, InSeq
    <3> QED
      BY <1>4, <1>6, <1>8, <3>1
  <2>2. \A d : InSeq(d, required) => HasScript(d) \/ InSeq(d, queue) \/ OnStack(d)
    BY DEF IInv, QueueInv, InSeq
  <2>3. \A d : InSeq(d, required') => HasScript(d)' \/ InSeq(d, queue) \/ OnStack(d)'
    BY <1>3, <1>6, <1>8, <2>2
  <2>4. \A d \in components : OnStack(d)' \/ InSeq(d, required')
    BY <1>3, <1>6 DEF IInv, QueueInv
  <2>5. \A i \in DOMAIN queue : InSeq(queue[i], queue)
    BY DEF InSeq
  <2>6. \A i \in DOMAIN required' : InSeq(required'[i], required')
    BY DEF InSeq
  <2>7. \A i, j \in DOMAIN queue : queue[i] = queue[j] => i = j
    BY DEF IInv, QueueInv
  <2>8. UNCHANGED <<host, phase, components, queue>>
    BY <1>2
  <2> QED
    BY <1>1, <1>6, <2>1, <2>3, <2>4, <2>5, <2>6, <2>7, <2>8 DEF QueueInv, Distinct, HasScript, Configured
<1>12. ScriptsInv'
  <2>1. \A s \in scripts : s.name # c
    BY <1>4 DEF HasScript
  <2> QED
    BY <1>2, <1>6, <1>7, <2>1 DEF IInv, ScriptsInv
<1>13. FilesInv'
  BY <1>2 DEF IInv, FilesInv, Installs
<1> QED
  BY <1>9, <1>10, <1>11, <1>12, <1>13 DEF IInv

-----------------------------------------------------------------------------
(* The theorems                                                            *)

LEMMA InitInv == Init => IInv
<1> SUFFICES ASSUME Init PROVE IInv
  OBVIOUS
<1>1. todo \in Seq(Names)
  BY BuildAssumption DEF Init, Def
<1>2. TypeOK
  BY <1>1 DEF Init, TypeOK
<1>3. StackInv /\ QueueInv /\ ScriptsInv
  BY DEF Init, StackInv, QueueInv, ScriptsInv, HasScript, OnStack, InSeq
<1>4. FilesInv
  BY DEF Init, FilesInv, Installs, InSeq
<1> QED
  BY <1>2, <1>3, <1>4 DEF IInv

LEMMA UnchangedInv == IInv /\ UNCHANGED vars => IInv'
<1> SUFFICES ASSUME IInv, UNCHANGED vars PROVE IInv'
  OBVIOUS
<1>1. SameCalls(stack', stack)
  BY DEF vars, SameCalls, IInv, TypeOK
<1> QED
  BY <1>1, QuietInv DEF vars, output

THEOREM Invariant == Spec => []IInv
<1>1. IInv /\ [Next]_vars => IInv'
  BY UnchangedInv, RequireRootInv, StartWritesInv, WriteNextInv, WriteRootInv, RequireInv,
     BuildInstanceInv, GetComponentInv, LookComponentInv, HasComponentInv, AppendRootBashInv,
     InstallFileInv, InstallGivenInv, AssertHostInv, QueueStepInv, WriteNowInv, EndWriteInv
     DEF Next, Ended
<1> QED
  BY <1>1, InitInv, PTL DEF Spec

\* Every variable has its type (create_host, component.T).
THEOREM Types == Spec => []TypeOK
  BY Invariant, PTL DEF IInv

\* 000.sh lists each component once, and there is one script for each
\* (append_write_queue, build_component, write_root_bash).
THEOREM OneScript == Spec => []OneScriptPerComponent
<1>1. IInv => OneScriptPerComponent
  <2> SUFFICES ASSUME IInv, phase = "done" PROVE OneScriptPerComponent
    BY DEF OneScriptPerComponent, Built
  <2>1. stack = <<>> /\ queue = <<>>
    BY DEF IInv, QueueInv
  <2>2. \A i \in DOMAIN required : HasScript(required[i])
    BY <2>1 DEF IInv, QueueInv, InSeq, OnStack
  <2> QED
    BY <2>2 DEF OneScriptPerComponent, HasScript, InSeq, IInv, QueueInv, ScriptsInv
<1> QED
  BY <1>1, Invariant, PTL

\* Nothing is added to a component whose script has been written (get_component).
THEOREM GivenInTime == Spec => []NothingGivenTooLate
<1>1. IInv => NothingGivenTooLate
  BY DEF IInv, ScriptsInv, NothingGivenTooLate
<1> QED
  BY <1>1, Invariant, PTL

\* Every file of the tree is installed by the script of one component, which
\* 000.sh lists (_bash_append_and_dst).
THEOREM FilesOnce == Spec => []SharedFileInstalledOnce
<1>1. IInv => SharedFileInstalledOnce
  <2> SUFFICES ASSUME IInv, phase = "done", NEW f \in tree
               PROVE  \E c \in written \cup components :
                        /\ InSeq(c, required)
                        /\ \A s \in scripts :
                             {i \in DOMAIN s.bash : s.bash[i] = InstallLine(f)} # {} <=> s.name = c
    BY DEF SharedFileInstalledOnce, Built
  <2>1. f \in Files
    BY DEF IInv, TypeOK
  <2>2. PICK c \in components : Installs(c, f)
    BY <2>1 DEF IInv, FilesInv
  <2>3. InSeq(c, required)
    BY DEF IInv, QueueInv, OnStack
  <2>4. ASSUME NEW s \in scripts
        PROVE  {i \in DOMAIN s.bash : s.bash[i] = InstallLine(f)} # {} <=> s.name = c
    <3>1. s.bash = bash[s.name] /\ s.name \in Names
      BY DEF IInv, ScriptsInv, TypeOK, WrittenScript
    <3>2. {i \in DOMAIN s.bash : s.bash[i] = InstallLine(f)} # {} <=> Installs(s.name, f)
      BY <3>1 DEF Installs, InSeq
    <3>3. Installs(s.name, f) <=> s.name = c
      BY <2>1, <2>2, <3>1 DEF IInv, FilesInv, TypeOK
    <3> QED
      BY <3>2, <3>3
  <2> QED
    BY <2>3, <2>4
<1> QED
  BY <1>1, Invariant, PTL
-----------------------------------------------------------------------------
(* Dependencies come first, if there are no cycles among them              *)

ReqOps == [kind : {"require", "instance"}, compt : Names]

\* What ops requires, as in Requires
LEMMA NeedsOps ==
  ASSUME NEW ops \in Seq(Op), NEW n \in Nat
  PROVE  /\ \A d : d \in NeedsBefore(ops, n) <=>
                   \E p \in DOMAIN ops : p < n /\ ops[p] \in ReqOps /\ ops[p].compt = d
         /\ \A d : d \in Needs(ops) <=> \E o \in ReqOps : o.compt = d /\ InSeq(o, ops)
<1>1. \A p \in DOMAIN ops : ops[p].kind \in {"require", "instance"} <=> ops[p] \in ReqOps
  <2> SUFFICES ASSUME NEW p \in DOMAIN ops
               PROVE  ops[p].kind \in {"require", "instance"} <=> ops[p] \in ReqOps
    OBVIOUS
  <2>1. ops[p] \in Op
    OBVIOUS
  <2> QED
    BY <2>1 DEF Op, ReqOps
<1>2. DOMAIN ops = 1..Len(ops) /\ Len(ops) \in Nat
  OBVIOUS
<1>3. \A p \in DOMAIN ops : p < Len(ops) + 1
  BY <1>2
<1> QED
  BY <1>1, <1>3 DEF NeedsBefore, Needs, InSeq

\* Component d is still to be required by a call.
ToCome(frame, d) == \E o \in ReqOps : o.compt = d /\ InSeq(o, frame.ops)

\* Calls are of ever lower components, and do what these are configured to.
CallsInv(rank) ==
  /\ \A i, j \in DOMAIN stack : i < j => rank[stack[i].name] < rank[stack[j].name]
  /\ \A i \in DOMAIN stack : \A o : InSeq(o, stack[i].ops) =>
       InSeq(o, Configured(stack[i].name).compile) \/ InSeq(o, Configured(stack[i].name).write)

\* What a call's component requires is listed, or to come, or the call it waits for.
WaitsInv ==
  \A i \in DOMAIN stack : \A d \in Requires(stack[i].name) \ {stack[i].name} :
    \/ InSeq(d, required)
    \/ stack[i].stage = "compile" /\ ToCome(stack[i], d)
    \/ stack[i].stage = "compile" /\ i > 1 /\ stack[i - 1].name = d

\* What is listed comes after what it requires.
ListedInv ==
  \A i \in DOMAIN required : \A d \in Requires(required[i]) \ {required[i]} :
    \E j \in DOMAIN required : j < i /\ required[j] = d

DepsInv(rank) == CallsInv(rank) /\ WaitsInv /\ ListedInv

LEMMA RequiresOps ==
  ASSUME NEW c, NEW d
  PROVE  d \in Requires(c) <=> \E o \in ReqOps : o.compt = d /\ InSeq(o, Configured(c).compile)
  BY DEF Requires, ReqOps, InSeq

\* The innermost call is past its next operation, and the others are as they were.
Advanced(s, t) ==
  /\ SameCalls(s, t) /\ Len(t) > 0 /\ t[1].ops # <<>> /\ s[1].ops = Tail(t[1].ops)
  /\ \A i \in 2..Len(t) : s[i] = t[i]

LEMMA PastAdvances ==
  ASSUME TypeOK, stack # <<>>, Head(stack).ops # <<>>, NEW found \in SUBSET Names
  PROVE  Advanced(<<Past(Head(stack), found)>> \o Tail(stack), stack)
<1> DEFINE s == <<Past(Head(stack), found)>> \o Tail(stack)
<1>1. /\ Head(stack) \in Frame /\ Head(stack) = stack[1]
      /\ Tail(stack) \in Seq(Frame) /\ Len(Tail(stack)) = Len(stack) - 1
      /\ \A i \in 1..(Len(stack) - 1) : Tail(stack)[i] = stack[i + 1]
      /\ Len(stack) \in Nat /\ Len(stack) > 0
  BY TailView DEF TypeOK
<1>2. Past(Head(stack), found) \in Frame
  BY <1>1, PastType
<1>3. /\ s[1] = Past(Head(stack), found)
      /\ \A i \in 2..Len(stack) : s[i] = Tail(stack)[i - 1]
  BY <1>1, <1>2, PushView
<1>4. \A i \in 2..Len(stack) : s[i] = stack[i]
  BY <1>1, <1>3
<1>5. s[1].ops = Tail(stack[1].ops)
  BY <1>1, <1>3 DEF Past
<1>6. SameCalls(s, stack)
  BY PastCalls
<1> QED
  BY <1>1, <1>4, <1>5, <1>6 DEF Advanced

LEMMA RestAdvances ==
  ASSUME TypeOK, NEW kind, Building(kind)
  PROVE  Advanced(Rest, stack)
<1>1. Head(stack).found \in SUBSET Names
  BY BuildingOp, FrameFields
<1> QED
  BY <1>1, PastAdvances DEF Rest, Building

\* What is left of the calls that go on.
LEMMA AdvancedOps ==
  ASSUME TypeOK, NEW s, Advanced(s, stack)
  PROVE  /\ DOMAIN s = DOMAIN stack /\ DOMAIN stack = 1..Len(stack) /\ 1 \in DOMAIN stack
         /\ Head(stack) = stack[1] /\ Head(stack[1].ops) = op
         /\ \A i \in DOMAIN stack : \A o : InSeq(o, s[i].ops) => InSeq(o, stack[i].ops)
         /\ InSeq(op, stack[1].ops)
         /\ \A i \in DOMAIN stack : \A o : InSeq(o, stack[i].ops) =>
              InSeq(o, s[i].ops) \/ (i = 1 /\ o = op)
<1>1. /\ DOMAIN s = DOMAIN stack /\ DOMAIN stack = 1..Len(stack) /\ 1 \in DOMAIN stack
      /\ Head(stack) = stack[1] /\ stack[1] \in Frame
  BY TailView DEF TypeOK, Advanced, SameCalls
<1>2. stack[1].ops \in Seq(Op) /\ stack[1].ops # <<>> /\ s[1].ops = Tail(stack[1].ops)
  BY <1>1, FrameFields DEF Advanced
<1>3. op = Head(stack[1].ops)
  BY <1>1 DEF op
<1>4. \A o : InSeq(o, stack[1].ops) <=> InSeq(o, s[1].ops) \/ o = op
  BY <1>2, <1>3, InSeqTail
<1>5. ASSUME NEW i \in DOMAIN stack, i # 1 PROVE s[i] = stack[i]
  BY <1>1, <1>5 DEF Advanced
<1> QED
  BY <1>1, <1>3, <1>4, <1>5

\* The required and the host are as they were.
LEMMA SameListed ==
  ASSUME ListedInv, UNCHANGED <<host, required>>
  PROVE  ListedInv'
  BY DEF ListedInv, Requires, Configured

\* What the innermost call asks for next is below it.
LEMMA OpBelow ==
  ASSUME NEW CONSTANT rank, Ranked(rank), CallsInv(rank), TypeOK, NEW s, Advanced(s, stack),
         op \in ReqOps
  PROVE  op.compt = stack[1].name \/ rank[op.compt] < rank[stack[1].name]
<1>1. 1 \in DOMAIN stack /\ InSeq(op, stack[1].ops)
  BY AdvancedOps
<1>2. stack[1].name \in Names /\ host \in Hosts
  BY <1>1 DEF TypeOK
<1>3. \/ InSeq(op, Configured(stack[1].name).compile)
      \/ InSeq(op, Configured(stack[1].name).write)
  BY <1>1 DEF CallsInv
<1>4. op.compt \in Needs(Configured(stack[1].name).compile)
                    \cup Needs(Configured(stack[1].name).write)
  BY <1>2, <1>3, ConfiguredType, NeedsOps
<1> QED
  BY <1>2, <1>4 DEF Ranked, Configured

\* A component that is below the innermost call is not under way: it is listed.
LEMMA BelowIsListed ==
  ASSUME NEW CONSTANT rank, Ranked(rank), CallsInv(rank), IInv, stack # <<>>,
         NEW d \in components, rank[d] < rank[stack[1].name]
  PROVE  InSeq(d, required)
<1>1. ASSUME NEW j \in DOMAIN stack, stack[j].name = d PROVE FALSE
  <2>1. /\ DOMAIN stack = 1..Len(stack) /\ Len(stack) \in Nat
        /\ 1 \in DOMAIN stack /\ stack[1].name \in Names /\ d \in Names
    BY TailView DEF IInv, TypeOK
  <2>2. j # 1 => rank[stack[1].name] < rank[stack[j].name]
    BY <1>1, <2>1 DEF CallsInv
  <2>3. rank[d] \in Nat /\ rank[stack[1].name] \in Nat
    BY <2>1 DEF Ranked
  <2>4. j = 1 => rank[d] = rank[stack[1].name]
    BY <1>1
  <2>5. j # 1 => rank[stack[1].name] < rank[d]
    BY <1>1, <2>2
  <2> QED
    BY <2>3, <2>4, <2>5
<1>2. ~OnStack(d)
  BY <1>1 DEF OnStack
<1> QED
  BY <1>2 DEF IInv, QueueInv

LEMMA AdvanceDeps ==
  ASSUME NEW CONSTANT rank, Ranked(rank), DepsInv(rank), IInv,
         Advanced(stack', stack), UNCHANGED <<host, required>>,
         op \in ReqOps => op.compt \in components
  PROVE  DepsInv(rank)'
<1>1. /\ DOMAIN stack' = DOMAIN stack /\ DOMAIN stack = 1..Len(stack) /\ 1 \in DOMAIN stack
      /\ \A i \in DOMAIN stack : \A o : InSeq(o, stack'[i].ops) => InSeq(o, stack[i].ops)
      /\ \A i \in DOMAIN stack : \A o : InSeq(o, stack[i].ops) =>
           InSeq(o, stack'[i].ops) \/ (i = 1 /\ o = op)
  BY AdvancedOps DEF IInv
<1>2. \A i \in DOMAIN stack : stack'[i].name = stack[i].name /\ stack'[i].stage = stack[i].stage
  BY <1>1 DEF Advanced, SameCalls
<1>3. \A c : Configured(c)' = Configured(c) /\ Requires(c)' = Requires(c)
  BY DEF Configured, Requires
<1>4. CallsInv(rank)'
  BY <1>1, <1>2, <1>3 DEF DepsInv, CallsInv
<1>5. ASSUME op \in ReqOps, op.compt # stack[1].name PROVE InSeq(op.compt, required)
  <2>1. rank[op.compt] < rank[stack[1].name]
    BY <1>5, OpBelow DEF DepsInv, IInv
  <2>2. stack # <<>>
    BY <1>1
  <2> QED
    BY <1>5, <2>1, <2>2, BelowIsListed DEF DepsInv
<1>6. ASSUME NEW i \in DOMAIN stack, NEW d \in Requires(stack[i].name) \ {stack[i].name}
      PROVE  \/ InSeq(d, required)
             \/ stack'[i].stage = "compile" /\ ToCome(stack'[i], d)
             \/ stack'[i].stage = "compile" /\ i > 1 /\ stack'[i - 1].name = d
  <2>1. \/ InSeq(d, required)
        \/ stack[i].stage = "compile" /\ ToCome(stack[i], d)
        \/ stack[i].stage = "compile" /\ i > 1 /\ stack[i - 1].name = d
    BY <1>6 DEF DepsInv, WaitsInv
  <2>2. CASE stack[i].stage = "compile" /\ ToCome(stack[i], d)
    <3>1. PICK o \in ReqOps : o.compt = d /\ InSeq(o, stack[i].ops)
      BY <2>2 DEF ToCome
    <3>2. CASE InSeq(o, stack'[i].ops)
      BY <1>2, <2>2, <3>1, <3>2 DEF ToCome
    <3>3. CASE i = 1 /\ o = op
      BY <1>5, <1>6, <3>1, <3>3
    <3> QED
      BY <1>1, <3>1, <3>2, <3>3
  <2>3. i > 1 => i - 1 \in DOMAIN stack
    BY <1>1
  <2> QED
    BY <1>2, <2>1, <2>2, <2>3
<1>7. WaitsInv'
  BY <1>1, <1>2, <1>3, <1>6 DEF WaitsInv
<1> QED
  BY <1>4, <1>7, SameListed DEF DepsInv

\* A component starts to compile: all it requires is to come.
LEMMA NewWaits ==
  ASSUME NEW c, NEW d \in Requires(c)
  PROVE  ToCome(NewFrame(c, "compile", Configured(c).compile), d)
  BY RequiresOps DEF ToCome, NewFrame

LEMMA FirstPushDeps ==
  ASSUME NEW CONSTANT rank, Ranked(rank), DepsInv(rank), IInv, NEW c \in Names,
         stack' = <<NewFrame(c, "compile", Configured(c).compile)>> \o <<>>,
         UNCHANGED <<host, required>>
  PROVE  DepsInv(rank)'
<1> DEFINE f == NewFrame(c, "compile", Configured(c).compile)
<1>1. DOMAIN stack' = {1} /\ stack'[1] = f
  OBVIOUS
<1>2. f.name = c /\ f.stage = "compile" /\ f.ops = Configured(c).compile
  BY DEF NewFrame
<1>3. \A e : Configured(e)' = Configured(e) /\ Requires(e)' = Requires(e)
  BY DEF Configured, Requires
<1>4. \A d \in Requires(c) : ToCome(f, d)
  BY NewWaits
<1> HIDE DEF f
<1>5. CallsInv(rank)'
  BY <1>1, <1>2, <1>3 DEF CallsInv
<1>6. WaitsInv'
  BY <1>1, <1>2, <1>3, <1>4 DEF WaitsInv
<1> QED
  BY <1>5, <1>6, SameListed DEF DepsInv

LEMMA PushDeps ==
  ASSUME NEW CONSTANT rank, Ranked(rank), DepsInv(rank), IInv, NEW s, Advanced(s, stack),
         op \in ReqOps, op.compt \in Names \ components,
         stack' = <<NewFrame(op.compt, "compile", Configured(op.compt).compile)>> \o s,
         UNCHANGED <<host, required>>
  PROVE  DepsInv(rank)'
<1> DEFINE c == op.compt  f == NewFrame(c, "compile", Configured(c).compile)
<1>1. /\ DOMAIN s = DOMAIN stack /\ DOMAIN stack = 1..Len(stack) /\ 1 \in DOMAIN stack
      /\ \A i \in DOMAIN stack : \A o : InSeq(o, s[i].ops) => InSeq(o, stack[i].ops)
      /\ \A i \in DOMAIN stack : \A o : InSeq(o, stack[i].ops) =>
           InSeq(o, s[i].ops) \/ (i = 1 /\ o = op)
  BY AdvancedOps DEF IInv
<1>2. /\ s \in Seq(Frame) /\ Len(s) = Len(stack) /\ Len(stack) \in Nat
      /\ \A i \in DOMAIN stack : s[i].name = stack[i].name /\ s[i].stage = stack[i].stage
  BY <1>1 DEF Advanced, SameCalls
<1>3. /\ DOMAIN stack' = 1..(Len(stack) + 1) /\ stack'[1] = f
      /\ \A i \in DOMAIN stack : stack'[i + 1] = s[i]
  BY <1>1, <1>2
<1>4. f.name = c /\ f.stage = "compile" /\ f.ops = Configured(c).compile
  BY DEF NewFrame
<1>5. \A e : Configured(e)' = Configured(e) /\ Requires(e)' = Requires(e)
  BY DEF Configured, Requires
<1>6. \A d \in Requires(c) : ToCome(f, d)
  BY NewWaits
<1>7. rank[c] < rank[stack[1].name]
  <2>1. c # stack[1].name
    BY <1>1 DEF IInv, TypeOK
  <2> QED
    BY <2>1, OpBelow DEF IInv, DepsInv
<1>8. \A i \in DOMAIN stack : rank[c] < rank[stack[i].name]
  <2> SUFFICES ASSUME NEW i \in DOMAIN stack, i # 1 PROVE rank[c] < rank[stack[i].name]
    BY <1>7
  <2>1. rank[stack[1].name] < rank[stack[i].name]
    BY <1>1 DEF DepsInv, CallsInv
  <2>2. stack[1].name \in Names /\ stack[i].name \in Names
    BY <1>1 DEF IInv, TypeOK
  <2>3. rank[c] \in Nat /\ rank[stack[1].name] \in Nat /\ rank[stack[i].name] \in Nat
    BY <2>2 DEF Ranked
  <2> QED
    BY <1>7, <2>1, <2>3
<1> HIDE DEF f, c
<1>9. CallsInv(rank)'
  <2>1. ASSUME NEW i \in DOMAIN stack', NEW j \in DOMAIN stack', i < j
        PROVE  rank[stack'[i].name] < rank[stack'[j].name]
    <3>1. j - 1 \in DOMAIN stack /\ stack'[j].name = stack[j - 1].name
      BY <1>1, <1>2, <1>3, <2>1
    <3>2. CASE i = 1
      BY <1>3, <1>4, <1>8, <3>1, <3>2
    <3>3. CASE i # 1
      <4>1. i - 1 \in DOMAIN stack /\ stack'[i].name = stack[i - 1].name /\ i - 1 < j - 1
        BY <1>1, <1>2, <1>3, <2>1, <3>3
      <4> QED
        BY <3>1, <4>1 DEF DepsInv, CallsInv
    <3> QED
      BY <3>2, <3>3
  <2>2. ASSUME NEW i \in DOMAIN stack', NEW o, InSeq(o, stack'[i].ops)
        PROVE  \/ InSeq(o, Configured(stack'[i].name).compile)
               \/ InSeq(o, Configured(stack'[i].name).write)
    <3>1. CASE i = 1
      BY <1>3, <1>4, <2>2, <3>1
    <3>2. CASE i # 1
      <4>1. i - 1 \in DOMAIN stack /\ stack'[i] = s[i - 1] /\ stack'[i].name = stack[i - 1].name
        BY <1>1, <1>2, <1>3, <3>2
      <4> QED
        BY <1>1, <2>2, <4>1 DEF DepsInv, CallsInv
    <3> QED
      BY <3>1, <3>2
  <2> QED
    BY <1>5, <2>1, <2>2 DEF CallsInv
<1>10. ASSUME NEW i \in DOMAIN stack', NEW d \in Requires(stack'[i].name) \ {stack'[i].name}
       PROVE  \/ InSeq(d, required)
              \/ stack'[i].stage = "compile" /\ ToCome(stack'[i], d)
              \/ stack'[i].stage = "compile" /\ i > 1 /\ stack'[i - 1].name = d
  <2>1. CASE i = 1
    BY <1>3, <1>4, <1>6, <1>10, <2>1
  <2>2. CASE i # 1
    <3>1. /\ i - 1 \in DOMAIN stack /\ stack'[i] = s[i - 1] /\ i > 1
          /\ stack'[i].name = stack[i - 1].name /\ stack'[i].stage = stack[i - 1].stage
      BY <1>1, <1>2, <1>3, <2>2
    <3>2. \/ InSeq(d, required)
          \/ stack[i - 1].stage = "compile" /\ ToCome(stack[i - 1], d)
          \/ stack[i - 1].stage = "compile" /\ i - 1 > 1 /\ stack[i - 1 - 1].name = d
      BY <1>10, <3>1 DEF DepsInv, WaitsInv
    <3>3. CASE stack[i - 1].stage = "compile" /\ ToCome(stack[i - 1], d)
      <4>1. PICK o \in ReqOps : o.compt = d /\ InSeq(o, stack[i - 1].ops)
        BY <3>3 DEF ToCome
      <4>2. CASE InSeq(o, s[i - 1].ops)
        BY <3>1, <3>3, <4>1, <4>2 DEF ToCome
      <4>3. CASE i = 2 /\ o = op
        BY <1>3, <1>4, <3>1, <3>3, <4>1, <4>3 DEF c
      <4>4. InSeq(o, s[i - 1].ops) \/ (i - 1 = 1 /\ o = op)
        BY <1>1, <3>1, <4>1
      <4>5. i - 1 = 1 => i = 2
        BY <3>1, <1>3
      <4> QED
        BY <4>2, <4>3, <4>4, <4>5
    <3>4. CASE stack[i - 1].stage = "compile" /\ i - 1 > 1 /\ stack[i - 1 - 1].name = d
      <4>1. i - 1 - 1 \in DOMAIN stack /\ stack'[i - 1].name = stack[i - 1 - 1].name
        BY <1>1, <1>2, <1>3, <3>1, <3>4
      <4> QED
        BY <3>1, <3>4, <4>1
    <3> QED
      BY <3>2, <3>3, <3>4
  <2> QED
    BY <2>1, <2>2
<1>11. WaitsInv'
  BY <1>5, <1>10 DEF WaitsInv
<1> QED
  BY <1>9, <1>11, SameListed DEF DepsInv

\* When the innermost call has nothing left to do, what it requires is listed.
LEMMA EndListed ==
  ASSUME IInv, WaitsInv, NEW stage, AtEnd(stage)
  PROVE  \A d \in Requires(stack[1].name) \ {stack[1].name} : InSeq(d, required)
<1>1. 1 \in DOMAIN stack /\ Head(stack) = stack[1] /\ stack[1].ops = <<>>
  BY EndFacts DEF IInv, AtEnd
<1>2. \A d : ~ToCome(stack[1], d)
  BY <1>1, InSeqEmpty DEF ToCome
<1> QED
  BY <1>1, <1>2 DEF WaitsInv

LEMMA AppendListed ==
  ASSUME IInv, ListedInv, NEW c, required' = Append(required, c), UNCHANGED host,
         \A d \in Requires(c) \ {c} : InSeq(d, required)
  PROVE  ListedInv' /\ \A d : InSeq(d, required') <=> InSeq(d, required) \/ d = c
<1>1. required \in Seq(components)
  BY DEF IInv, TypeOK
<1>2. /\ Len(required) \in Nat /\ DOMAIN required = 1..Len(required)
      /\ DOMAIN required' = 1..(Len(required) + 1) /\ required'[Len(required) + 1] = c
      /\ \A i \in 1..Len(required) : required'[i] = required[i]
  BY <1>1
<1>3. \A e : Requires(e)' = Requires(e)
  BY DEF Configured, Requires
<1>4. ASSUME NEW i \in DOMAIN required', NEW d \in Requires(required'[i]) \ {required'[i]}
      PROVE  \E j \in DOMAIN required' : j < i /\ required'[j] = d
  <2>1. CASE i = Len(required) + 1
    <3>1. PICK j \in DOMAIN required : required[j] = d
      BY <1>2, <1>4, <2>1 DEF InSeq
    <3> QED
      BY <1>2, <2>1, <3>1
  <2>2. CASE i # Len(required) + 1
    <3>1. i \in DOMAIN required /\ required'[i] = required[i]
      BY <1>2, <2>2
    <3>2. PICK j \in DOMAIN required : j < i /\ required[j] = d
      BY <1>4, <3>1 DEF ListedInv
    <3> QED
      BY <1>2, <3>2
  <2> QED
    BY <2>1, <2>2
<1> QED
  BY <1>1, <1>3, <1>4, InSeqAppend DEF ListedInv

\* The innermost call returns, and its component is listed.
LEMMA ReturnDeps ==
  ASSUME NEW CONSTANT rank, Ranked(rank), DepsInv(rank), IInv, NEW stage, AtEnd(stage),
         stack' = Tail(stack), UNCHANGED host,
         \/ required' = Append(required, stack[1].name)
         \/ required' = required /\ InSeq(stack[1].name, required)
  PROVE  DepsInv(rank)'
<1> DEFINE c == stack[1].name
<1>1. ListedInv' /\ \A d : InSeq(d, required') <=> InSeq(d, required) \/ d = c
  BY EndListed, AppendListed, SameListed DEF DepsInv
<1>2. \A e : Configured(e)' = Configured(e) /\ Requires(e)' = Requires(e)
  BY DEF Configured, Requires
<1>3. \A i \in DOMAIN stack' : i + 1 \in DOMAIN stack /\ stack'[i] = stack[i + 1] /\ i \in Int
  BY ReturnFacts
<1>4. CallsInv(rank)'
  <2>1. ASSUME NEW i \in DOMAIN stack', NEW j \in DOMAIN stack', i < j
        PROVE  rank[stack'[i].name] < rank[stack'[j].name]
    <3>1. i + 1 < j + 1
      BY <1>3, <2>1
    <3> QED
      BY <1>3, <3>1 DEF DepsInv, CallsInv
  <2> QED
    BY <1>2, <1>3, <2>1 DEF DepsInv, CallsInv
<1>5. ASSUME NEW i \in DOMAIN stack', NEW d \in Requires(stack'[i].name) \ {stack'[i].name}
      PROVE  \/ InSeq(d, required')
             \/ stack'[i].stage = "compile" /\ ToCome(stack'[i], d)
             \/ stack'[i].stage = "compile" /\ i > 1 /\ stack'[i - 1].name = d
  <2>1. \/ InSeq(d, required)
        \/ stack'[i].stage = "compile" /\ ToCome(stack'[i], d)
        \/ stack'[i].stage = "compile" /\ i + 1 > 1 /\ stack[i + 1 - 1].name = d
    BY <1>3, <1>5 DEF DepsInv, WaitsInv
  <2>2. i + 1 - 1 = i /\ DOMAIN stack = 1..Len(stack) /\ Len(stack) \in Nat
        /\ DOMAIN stack' = 1..Len(stack')
    BY <1>3, ReturnFacts DEF IInv, TypeOK
  <2>3. CASE stack'[i].stage = "compile" /\ stack[i].name = d /\ i > 1
    <3>1. i - 1 \in DOMAIN stack' /\ (i - 1) + 1 = i
      BY <2>2, <2>3
    <3>2. stack'[i - 1] = stack[i]
      BY <1>3, <3>1
    <3> QED
      BY <2>3, <3>2
  <2>4. CASE i = 1 /\ stack[i].name = d
    BY <1>1, <2>4
  <2>5. i > 1 \/ i = 1
    BY <2>2
  <2> QED
    BY <1>1, <2>1, <2>2, <2>3, <2>4, <2>5
<1> QED
  BY <1>1, <1>2, <1>4, <1>5 DEF DepsInv, WaitsInv

LEMMA QueueDeps ==
  ASSUME NEW CONSTANT rank, Ranked(rank), DepsInv(rank), IInv, Queue
  PROVE  DepsInv(rank)'
  BY EndFacts, ReturnDeps DEF Queue, IInv

LEMMA EndWriteDeps ==
  ASSUME NEW CONSTANT rank, Ranked(rank), DepsInv(rank), IInv, EndWrite
  PROVE  DepsInv(rank)'
<1>1. /\ 1 \in DOMAIN stack /\ Head(stack) = stack[1] /\ stack[1].stage = "write"
  BY EndFacts DEF EndWrite, IInv
<1>2. ~Configured(stack[1].name).onePhase => InSeq(stack[1].name, required)
  BY <1>1 DEF IInv, StackInv
<1>3. /\ AtEnd("write") /\ stack' = Tail(stack) /\ UNCHANGED host
      /\ required' = IF Configured(stack[1].name).onePhase
                       THEN Append(required, stack[1].name) ELSE required
  BY <1>1 DEF EndWrite
<1> QED
  BY <1>2, <1>3, ReturnDeps

LEMMA WriteNowDeps ==
  ASSUME NEW CONSTANT rank, Ranked(rank), DepsInv(rank), IInv, WriteNow
  PROVE  DepsInv(rank)'
<1> DEFINE c == stack[1].name
           frame == [name |-> c, stage |-> "write", ops |-> Configured(c).write,
                     found |-> stack[1].found]
<1>1. /\ stack # <<>> /\ 1 \in DOMAIN stack /\ Head(stack) = stack[1] /\ stack[1] \in Frame
      /\ c \in Names
  BY EndFacts DEF WriteNow, IInv
<1>2. /\ stack' = <<frame>> \o Tail(stack) /\ AtEnd("compile")
      /\ UNCHANGED <<host, required>>
  BY <1>1 DEF WriteNow
<1>3. frame \in Frame /\ frame.name = c /\ frame.ops = Configured(c).write
  BY <1>1, ConfiguredType, FrameFields DEF Frame, Stages, IInv
<1> HIDE DEF frame
<1>4. /\ Tail(stack) \in Seq(Frame) /\ Len(Tail(stack)) = Len(stack) - 1 /\ Len(stack) \in Nat
      /\ \A i \in 1..(Len(stack) - 1) : Tail(stack)[i] = stack[i + 1]
      /\ DOMAIN stack = 1..Len(stack)
  BY <1>1, TailView DEF IInv, TypeOK
<1>5. /\ Len(stack') = Len(stack) /\ stack'[1] = frame /\ stack' \in Seq(Frame)
      /\ \A i \in 2..Len(stack) : stack'[i] = Tail(stack)[i - 1]
  BY <1>2, <1>3, <1>4, PushView
<1>6. DOMAIN stack' = DOMAIN stack
  BY <1>4, <1>5
<1>7. ASSUME NEW i \in DOMAIN stack, i # 1 PROVE stack'[i] = stack[i]
  <2>1. i \in 2..Len(stack) /\ i - 1 \in 1..(Len(stack) - 1) /\ (i - 1) + 1 = i
    BY <1>4, <1>7
  <2> QED
    BY <1>4, <1>5, <2>1
<1>8. \A i \in DOMAIN stack : stack'[i].name = stack[i].name
  BY <1>3, <1>5, <1>7
<1>9. \A e : Configured(e)' = Configured(e) /\ Requires(e)' = Requires(e)
  BY <1>2 DEF Configured, Requires
<1>10. CallsInv(rank)'
  BY <1>3, <1>5, <1>6, <1>7, <1>8, <1>9 DEF DepsInv, CallsInv
<1>11. \A d \in Requires(c) \ {c} : InSeq(d, required)
  BY <1>2, EndListed DEF DepsInv
<1>12. ASSUME NEW i \in DOMAIN stack', NEW d \in Requires(stack'[i].name) \ {stack'[i].name}
       PROVE  \/ InSeq(d, required)
              \/ stack'[i].stage = "compile" /\ ToCome(stack'[i], d)
              \/ stack'[i].stage = "compile" /\ i > 1 /\ stack'[i - 1].name = d
  <2>1. CASE i = 1
    BY <1>6, <1>8, <1>11, <1>12, <2>1
  <2>2. CASE i # 1
    <3>1. i \in DOMAIN stack /\ i - 1 \in DOMAIN stack
      BY <1>4, <1>6, <2>2
    <3> QED
      BY <1>7, <1>8, <1>12, <2>2, <3>1 DEF DepsInv, WaitsInv
  <2> QED
    BY <2>1, <2>2
<1>13. WaitsInv'
  BY <1>2, <1>9, <1>12 DEF WaitsInv
<1> QED
  BY <1>2, <1>10, <1>13, SameListed DEF DepsInv

LEMMA WriteNextDeps ==
  ASSUME NEW CONSTANT rank, Ranked(rank), DepsInv(rank), IInv, WriteNext
  PROVE  DepsInv(rank)'
<1> DEFINE c == Head(queue)  frame == NewFrame(c, "write", Configured(c).write)
<1>1. stack' = <<frame>> /\ queue # <<>> /\ UNCHANGED <<host, required>>
  BY DEF WriteNext
<1>2. frame.name = c /\ frame.ops = Configured(c).write
  BY DEF NewFrame
<1> HIDE DEF frame
<1>3. c = queue[1] /\ 1 \in DOMAIN queue
  BY <1>1, TailView DEF IInv, TypeOK
<1>4. InSeq(c, required)
  BY <1>3 DEF IInv, QueueInv
<1>5. \A e : Configured(e)' = Configured(e) /\ Requires(e)' = Requires(e)
  BY <1>1 DEF Configured, Requires
<1>6. \A d \in Requires(c) \ {c} : InSeq(d, required)
  BY <1>4 DEF DepsInv, ListedInv, InSeq
<1>7. DOMAIN stack' = {1} /\ stack'[1] = frame
  BY <1>1
<1>8. CallsInv(rank)'
  BY <1>2, <1>5, <1>7 DEF CallsInv
<1>9. WaitsInv'
  BY <1>1, <1>2, <1>5, <1>6, <1>7 DEF WaitsInv
<1> QED
  BY <1>1, <1>8, <1>9, SameListed DEF DepsInv

\* Steps that leave the calls, the host and what is listed alone.
LEMMA SameDeps ==
  ASSUME NEW CONSTANT rank, DepsInv(rank), UNCHANGED <<host, stack, required>>
  PROVE  DepsInv(rank)'
  BY DEF DepsInv, CallsInv, WaitsInv, ListedInv, Requires, Configured

\* Operations that require nothing.
LEMMA OtherDeps ==
  ASSUME NEW CONSTANT rank, Ranked(rank), DepsInv(rank), IInv,
         LookComponent \/ HasComponent \/ GetComponent \/ AppendRootBash \/ InstallFile
           \/ InstallGiven \/ AssertHost
  PROVE  DepsInv(rank)'
<1>1. CASE UNCHANGED <<host, stack, required>>
  BY <1>1, SameDeps
<1>2. ASSUME NEW kind, Building(kind), kind \notin {"require", "instance"},
             UNCHANGED <<host, required>>, Advanced(stack', stack)
      PROVE  DepsInv(rank)'
  <2>1. op \notin ReqOps
    BY <1>2, BuildingOp DEF ReqOps, IInv
  <2> QED
    BY <1>2, <2>1, AdvanceDeps
<1>3. CASE HasComponent
  <2>1. Head(stack).found \cup {c \in {op.compt} : InSeq(c, queue)} \in SUBSET Names
    BY <1>3, BuildingOp, OpFields, FrameFields DEF HasComponent, IInv
  <2>2. Advanced(stack', stack)
    BY <1>3, <2>1, PastAdvances DEF HasComponent, Building, IInv
  <2> QED
    BY <1>2, <1>3, <2>2 DEF HasComponent
<1>4. CASE LookComponent
  BY <1>1, <1>2, <1>4, RestAdvances DEF LookComponent, Fail, IInv
<1>5. CASE GetComponent
  BY <1>1, <1>2, <1>5, RestAdvances DEF GetComponent, Fail, IInv
<1>6. CASE AppendRootBash
  BY <1>2, <1>6, RestAdvances DEF AppendRootBash, IInv
<1>7. CASE InstallFile
  BY <1>1, <1>2, <1>7, RestAdvances DEF InstallFile, Fail, IInv
<1>8. CASE InstallGiven
  BY <1>2, <1>8, RestAdvances DEF InstallGiven, IInv
<1>9. CASE AssertHost
  BY <1>1, <1>2, <1>9, RestAdvances DEF AssertHost, Fail, IInv
<1> QED
  BY <1>3, <1>4, <1>5, <1>6, <1>7, <1>8, <1>9

LEMMA RequireDeps ==
  ASSUME NEW CONSTANT rank, Ranked(rank), DepsInv(rank), IInv, Require \/ BuildInstance
  PROVE  DepsInv(rank)'
<1>1. CASE Fail
  BY <1>1, SameDeps DEF Fail
<1>2. CASE ~Fail
  <2>1. PICK kind \in {"require", "instance"} : Building(kind)
    BY DEF Require, BuildInstance
  <2>2. BuildComponent(op.compt, Rest) /\ UNCHANGED <<host, required>>
    BY <1>2 DEF Require, BuildInstance
  <2>3. op \in ReqOps /\ op.compt \in Names
    BY <2>1, BuildingOp DEF IInv, ReqOps, Op
  <2>4. Advanced(Rest, stack)
    BY <2>1, RestAdvances DEF IInv
  <2>5. CASE op.compt \in components
    <3>1. stack' = Rest
      BY <2>2, <2>5 DEF BuildComponent
    <3>2. Advanced(stack', stack)
      BY <2>4, <3>1
    <3> QED
      BY <2>2, <2>5, <3>2, AdvanceDeps
  <2>6. CASE op.compt \notin components
    BY <2>2, <2>3, <2>4, <2>6, PushDeps DEF BuildComponent
  <2> QED
    BY <2>5, <2>6
<1> QED
  BY <1>1, <1>2

LEMMA RequireRootDeps ==
  ASSUME NEW CONSTANT rank, Ranked(rank), DepsInv(rank), IInv, RequireRoot
  PROVE  DepsInv(rank)'
<1> DEFINE c == Head(todo)
<1>1. c \in Names /\ stack = <<>> /\ BuildComponent(c, <<>>) /\ UNCHANGED <<host, required>>
  BY TailView DEF RequireRoot, IInv, TypeOK
<1>2. CASE c \in components
  BY <1>1, <1>2, SameDeps DEF BuildComponent
<1>3. CASE c \notin components
  <2>1. stack' = <<NewFrame(c, "compile", Configured(c).compile)>> \o <<>>
    BY <1>1, <1>3 DEF BuildComponent
  <2> HIDE DEF c
  <2> QED
    BY <1>1, <2>1, FirstPushDeps
<1> QED
  BY <1>2, <1>3

LEMMA Dependencies ==
  ASSUME NEW CONSTANT rank, Ranked(rank)
  PROVE  Spec => []DepsInv(rank)
<1>1. Init => DepsInv(rank)
  BY DEF Init, DepsInv, CallsInv, WaitsInv, ListedInv
<1>2. IInv /\ DepsInv(rank) /\ [Next]_vars => DepsInv(rank)'
  <2> SUFFICES ASSUME IInv, DepsInv(rank), [Next]_vars PROVE DepsInv(rank)'
    OBVIOUS
  <2>1. CASE StartWrites \/ WriteRoot \/ UNCHANGED vars
    BY <2>1, SameDeps DEF StartWrites, WriteRoot, vars
  <2> QED
    BY <2>1, OtherDeps, RequireDeps, RequireRootDeps, QueueDeps, EndWriteDeps, WriteNowDeps,
       WriteNextDeps DEF Next, Ended
<1> QED
  BY <1>1, <1>2, Invariant, PTL DEF Spec

\* "dependencies in build_compile() must come first" (build_component,
\* append_write_queue, write_root_bash): whenever the components of a host can
\* be ranked so that each requires only lower ones.
THEOREM DependenciesComeFirst ==
  ASSUME NEW CONSTANT rank, Ranked(rank)
  PROVE  Spec => []DependenciesFirst
<1>1. IInv /\ DepsInv(rank) => DependenciesFirst
  <2> SUFFICES ASSUME IInv, DepsInv(rank), NEW i \in DOMAIN required,
                      NEW d \in Requires(required[i]) \ {required[i]}
               PROVE  InSeq(d, required) /\ Position(d) < i
    BY DEF DependenciesFirst
  <2>1. PICK j \in DOMAIN required : j < i /\ required[j] = d
    BY DEF DepsInv, ListedInv
  <2>2. Position(d) \in DOMAIN required /\ required[Position(d)] = d
    BY <2>1 DEF Position
  <2>3. Position(d) = j
    BY <2>1, <2>2 DEF IInv, QueueInv
  <2> QED
    BY <2>1, <2>3 DEF InSeq
<1> QED
  BY <1>1, Invariant, Dependencies, PTL
-----------------------------------------------------------------------------
(* What is found when a component is written agrees with 000.sh            *)

TwoPhase(c) == ~Configured(c).onePhase

HasOp(d) == [kind |-> "has", compt |-> d]

\* d is listed after c.
Later(c, d) == \E i, j \in DOMAIN required : i < j /\ required[i] = c /\ required[j] = d

\* While components are required, only those of one phase are written; then
\* the others are, one at a time.
PhasesInv ==
  /\ phase = "require" =>
       /\ \A i \in DOMAIN stack : stack[i].stage = "write" => ~TwoPhase(stack[i].name)
       /\ \A s \in scripts : ~TwoPhase(s.name)
  /\ phase = "write" =>
       \A i \in DOMAIN stack : i = 1 /\ stack[i].stage = "write" /\ TwoPhase(stack[i].name)

\* While a component is in the queue or is written, those listed after it are
\* behind it in the queue.
WriteOrderInv ==
  \A c, d : TwoPhase(c) /\ TwoPhase(d) /\ Later(c, d) =>
    /\ \A p \in DOMAIN queue : queue[p] = c => \E q \in DOMAIN queue : p < q /\ queue[q] = d
    /\ OnStack(c) => InSeq(d, queue)

\* What a two-phase component that is being written has found, or asks for yet
AnswerInv(frame) ==
  /\ \A d \in frame.found : InSeq(d, required)
  /\ frame.stage = "write" /\ TwoPhase(frame.name) =>
       /\ \A o : InSeq(o, frame.ops) => InSeq(o, Configured(frame.name).write)
       /\ \A d \in Asks(frame.name) : TwoPhase(d) /\ Later(frame.name, d) =>
            d \in frame.found \/ InSeq(HasOp(d), frame.ops)

\* What it had found when it was written
FoundInv ==
  \A s \in scripts :
    /\ \A d \in s.found : InSeq(d, required)
    /\ TwoPhase(s.name) =>
         \A d \in Asks(s.name) : TwoPhase(d) /\ Later(s.name, d) => d \in s.found

AnswersInv ==
  PhasesInv /\ WriteOrderInv /\ FoundInv /\ \A i \in DOMAIN stack : AnswerInv(stack[i])

LEMMA AsksOps ==
  ASSUME NEW c, NEW d \in Asks(c)
  PROVE  InSeq(HasOp(d), Configured(c).write)
<1>1. PICK o \in {Configured(c).write[i] : i \in DOMAIN Configured(c).write}
                   \cap [kind : {"has"}, compt : Names] : o.compt = d
  BY DEF Asks
<1>2. o = HasOp(d)
  BY <1>1 DEF HasOp
<1> QED
  BY <1>1, <1>2 DEF InSeq

\* Only what is appended comes later.
LEMMA LaterAppend ==
  ASSUME IInv, NEW x, required' = Append(required, x)
  PROVE  \A c, d : Later(c, d)' <=> Later(c, d) \/ (d = x /\ InSeq(c, required))
<1>1. required \in Seq(components)
  BY DEF IInv, TypeOK
<1>2. /\ Len(required) \in Nat /\ DOMAIN required = 1..Len(required)
      /\ DOMAIN required' = 1..(Len(required) + 1) /\ required'[Len(required) + 1] = x
      /\ \A i \in 1..Len(required) : required'[i] = required[i]
  BY <1>1
<1> SUFFICES ASSUME NEW c, NEW d
             PROVE  Later(c, d)' <=> Later(c, d) \/ (d = x /\ InSeq(c, required))
  OBVIOUS
<1>3. Later(c, d) => Later(c, d)'
  BY <1>2 DEF Later
<1>4. d = x /\ InSeq(c, required) => Later(c, d)'
  BY <1>2 DEF Later, InSeq
<1>5. ASSUME Later(c, d)' PROVE Later(c, d) \/ (d = x /\ InSeq(c, required))
  <2>1. PICK i \in DOMAIN required', j \in DOMAIN required' :
          i < j /\ required'[i] = c /\ required'[j] = d
    BY <1>5 DEF Later
  <2>2. i \in DOMAIN required /\ required[i] = c
    BY <1>2, <2>1
  <2>3. j = Len(required) + 1 \/ (j \in DOMAIN required /\ required[j] = d)
    BY <1>2, <2>1
  <2> QED
    BY <1>2, <2>1, <2>2, <2>3 DEF Later, InSeq
<1> QED
  BY <1>3, <1>4, <1>5

LEMMA LaterListed ==
  ASSUME NEW c, NEW d, Later(c, d)
  PROVE  InSeq(c, required) /\ InSeq(d, required)
  BY DEF Later, InSeq

\* Steps that leave what is listed and how hosts are configured alone.
LEMMA SameTerms ==
  ASSUME UNCHANGED <<host, required>>
  PROVE  /\ \A c : Configured(c)' = Configured(c) /\ (TwoPhase(c)' <=> TwoPhase(c))
                   /\ Asks(c)' = Asks(c)
         /\ \A c, d : Later(c, d)' <=> Later(c, d)
         /\ \A frame : AnswerInv(frame)' <=> AnswerInv(frame)
<1>1. \A c : Configured(c)' = Configured(c)
  BY DEF Configured
<1>2. \A c : (TwoPhase(c)' <=> TwoPhase(c)) /\ Asks(c)' = Asks(c)
  BY <1>1 DEF TwoPhase, Asks
<1>3. \A c, d : Later(c, d)' <=> Later(c, d)
  BY DEF Later
<1>4. \A frame : AnswerInv(frame)' <=> AnswerInv(frame)
  BY <1>1, <1>2, <1>3 DEF AnswerInv
<1> QED
  BY <1>1, <1>2, <1>3, <1>4

\* Of components two of which are listed, only those already under way are
\* concerned when no more are queued or listed.
LEMMA SameOrder ==
  ASSUME WriteOrderInv, UNCHANGED <<host, required, queue>>,
         \A c : OnStack(c)' /\ InSeq(c, required) => OnStack(c)
  PROVE  WriteOrderInv'
  BY SameTerms, LaterListed DEF WriteOrderInv

LEMMA SameFound ==
  ASSUME FoundInv, UNCHANGED <<host, required, scripts>>
  PROVE  FoundInv'
  BY SameTerms DEF FoundInv

\* The phase goes on, or the build fails.
LEMMA SameAnswers ==
  ASSUME AnswersInv, UNCHANGED <<host, stack, queue, required, scripts>>,
         \/ phase' = phase \/ phase' \in {"failed", "done"}
         \/ phase' = "write" /\ stack = <<>>
  PROVE  AnswersInv'
<1>1. PhasesInv'
  BY SameTerms DEF AnswersInv, PhasesInv
<1>2. WriteOrderInv' /\ FoundInv'
  BY SameOrder, SameFound DEF AnswersInv, OnStack
<1>3. \A i \in DOMAIN stack' : AnswerInv(stack[i])'
  BY SameTerms DEF AnswersInv, AnswerInv
<1> QED
  BY <1>1, <1>2, <1>3 DEF AnswersInv

\* The innermost call goes on: what it asks for is found if it is in the queue.
LEMMA AdvanceAnswer ==
  ASSUME AnswersInv, IInv, NEW s, Advanced(s, stack),
         \A d \in s[1].found : d \in stack[1].found \/ InSeq(d, queue),
         stack[1].found \subseteq s[1].found,
         \A d : op = HasOp(d) /\ InSeq(d, queue) => d \in s[1].found
  PROVE  \A i \in DOMAIN s : AnswerInv(s[i])
<1>1. /\ DOMAIN s = DOMAIN stack /\ DOMAIN stack = 1..Len(stack) /\ 1 \in DOMAIN stack
      /\ \A o : InSeq(o, s[1].ops) => InSeq(o, stack[1].ops)
      /\ \A o : InSeq(o, stack[1].ops) => InSeq(o, s[1].ops) \/ o = op
  BY AdvancedOps DEF IInv
<1>2. s[1].name = stack[1].name /\ s[1].stage = stack[1].stage
  BY <1>1 DEF Advanced, SameCalls
<1>3. \A i \in DOMAIN s : i # 1 => s[i] = stack[i]
  BY <1>1 DEF Advanced
<1>4. AnswerInv(stack[1])
  BY <1>1 DEF AnswersInv
<1>5. \A d \in s[1].found : InSeq(d, required)
  <2>1. \A d : InSeq(d, queue) => InSeq(d, required)
    BY DEF IInv, QueueInv, InSeq
  <2> QED
    BY <1>4, <2>1 DEF AnswerInv
<1>6. ASSUME s[1].stage = "write", TwoPhase(s[1].name),
             NEW d \in Asks(s[1].name), TwoPhase(d), Later(s[1].name, d)
      PROVE  d \in s[1].found \/ InSeq(HasOp(d), s[1].ops)
  <2>1. d \in stack[1].found \/ InSeq(HasOp(d), stack[1].ops)
    BY <1>2, <1>4, <1>6 DEF AnswerInv
  <2>2. OnStack(stack[1].name)
    BY <1>1 DEF OnStack
  <2>3. InSeq(d, queue)
    BY <1>2, <1>6, <2>2 DEF AnswersInv, WriteOrderInv
  <2> QED
    BY <1>1, <2>1, <2>3
<1>7. AnswerInv(s[1])
  BY <1>1, <1>2, <1>4, <1>5, <1>6 DEF AnswerInv
<1> QED
  BY <1>1, <1>3, <1>7 DEF AnswersInv

LEMMA AdvanceAnswers ==
  ASSUME AnswersInv, IInv, Advanced(stack', stack),
         UNCHANGED <<host, phase, queue, required, scripts>>,
         \A d \in stack'[1].found : d \in stack[1].found \/ InSeq(d, queue),
         stack[1].found \subseteq stack'[1].found,
         \A d : op = HasOp(d) /\ InSeq(d, queue) => d \in stack'[1].found
  PROVE  AnswersInv'
<1>1. \A i \in DOMAIN stack' : AnswerInv(stack'[i])
  BY AdvanceAnswer
<1>2. /\ DOMAIN stack' = DOMAIN stack
      /\ \A i \in DOMAIN stack : stack'[i].name = stack[i].name /\ stack'[i].stage = stack[i].stage
  BY AdvancedOps DEF IInv, Advanced, SameCalls
<1>3. PhasesInv'
  BY <1>2, SameTerms DEF AnswersInv, PhasesInv
<1>4. WriteOrderInv' /\ FoundInv'
  BY <1>2, SameOrder, SameFound DEF AnswersInv, OnStack
<1>5. \A i \in DOMAIN stack' : AnswerInv(stack[i])'
  BY <1>1, SameTerms DEF AnswerInv
<1> QED
  BY <1>3, <1>4, <1>5 DEF AnswersInv

LEMMA PastFound ==
  ASSUME TypeOK, stack # <<>>, Head(stack).ops # <<>>, NEW found \in SUBSET Names
  PROVE  (<<Past(Head(stack), found)>> \o Tail(stack))[1].found = found
<1>1. Head(stack) \in Frame /\ Tail(stack) \in Seq(Frame)
  BY TailView DEF TypeOK
<1>2. Past(Head(stack), found) \in Frame
  BY <1>1, PastType
<1>3. (<<Past(Head(stack), found)>> \o Tail(stack))[1] = Past(Head(stack), found)
  BY <1>1, <1>2, PushView
<1> QED
  BY <1>3 DEF Past

LEMMA RestFound ==
  ASSUME TypeOK, NEW kind, Building(kind)
  PROVE  Rest[1].found = stack[1].found
<1>1. Head(stack).found \in SUBSET Names /\ Head(stack) = stack[1]
  BY BuildingOp, FrameFields, TailView DEF Building, TypeOK
<1> QED
  BY <1>1, PastFound DEF Rest, Building

\* Operations other than has_component find nothing.
LEMMA RestAnswers ==
  ASSUME AnswersInv, IInv, NEW kind, Building(kind), kind # "has", stack' = Rest,
         UNCHANGED <<host, phase, queue, required, scripts>>
  PROVE  AnswersInv'
<1>1. Advanced(stack', stack) /\ stack'[1].found = stack[1].found
  BY RestAdvances, RestFound DEF IInv
<1>2. \A d : op # HasOp(d)
  BY BuildingOp DEF HasOp, IInv
<1> QED
  BY <1>1, <1>2, AdvanceAnswers

LEMMA HasComponentAnswers ==
  ASSUME AnswersInv, IInv, HasComponent
  PROVE  AnswersInv'
<1> DEFINE found == Head(stack).found \cup {c \in {op.compt} : InSeq(c, queue)}
<1>1. /\ stack' = <<Past(Head(stack), found)>> \o Tail(stack)
      /\ UNCHANGED <<host, phase, queue, required, scripts>>
      /\ stack # <<>> /\ Head(stack).ops # <<>> /\ Building("has")
  BY DEF HasComponent, Building
<1>2. found \in SUBSET Names /\ Head(stack) = stack[1]
  <2>1. Head(stack) \in Frame /\ op.compt \in Names
    BY <1>1, BuildingOp, OpFields DEF IInv
  <2>2. Head(stack) = stack[1]
    BY <1>1, TailView DEF IInv, TypeOK
  <2> QED
    BY <2>1, <2>2, FrameFields
<1>3. Advanced(stack', stack) /\ stack'[1].found = found
  BY <1>1, <1>2, PastAdvances, PastFound DEF IInv
<1>4. \A d : op = HasOp(d) => op.compt = d
  BY DEF HasOp
<1> QED
  BY <1>1, <1>2, <1>3, <1>4, AdvanceAnswers

LEMMA OtherAnswers ==
  ASSUME AnswersInv, IInv,
         LookComponent \/ GetComponent \/ AppendRootBash \/ InstallFile \/ InstallGiven
           \/ AssertHost
  PROVE  AnswersInv'
<1>1. CASE Fail
  BY <1>1, SameAnswers DEF Fail
<1>2. CASE LookComponent
  BY <1>1, <1>2, RestAnswers DEF LookComponent
<1>3. CASE GetComponent
  BY <1>1, <1>3, RestAnswers DEF GetComponent
<1>4. CASE AppendRootBash
  BY <1>4, RestAnswers DEF AppendRootBash
<1>5. CASE InstallFile
  BY <1>1, <1>5, RestAnswers DEF InstallFile
<1>6. CASE InstallGiven
  BY <1>6, RestAnswers DEF InstallGiven
<1>7. CASE AssertHost
  BY <1>1, <1>7, RestAnswers DEF AssertHost
<1> QED
  BY <1>2, <1>3, <1>4, <1>5, <1>6, <1>7

\* Nothing is required while two-phase components are written.
LEMMA RequiresEarly ==
  ASSUME QuietWrites, AnswersInv, IInv, NEW kind \in {"require", "instance"}, Building(kind)
  PROVE  phase = "require"
<1> SUFFICES ASSUME phase = "write" PROVE FALSE
  BY DEF Building
<1>1. Advanced(Rest, stack)
  BY RestAdvances DEF IInv
<1>2. 1 \in DOMAIN stack /\ InSeq(op, stack[1].ops)
  BY <1>1, AdvancedOps DEF IInv
<1>3. stack[1].stage = "write" /\ TwoPhase(stack[1].name)
  BY <1>2 DEF AnswersInv, PhasesInv
<1>4. InSeq(op, Configured(stack[1].name).write)
  BY <1>2, <1>3 DEF AnswersInv, AnswerInv
<1>5. op \in ReqOps
  BY BuildingOp DEF ReqOps, Op, IInv
<1>6. host \in Hosts /\ stack[1].name \in Names
  BY <1>2 DEF IInv, TypeOK
<1>7. op.compt \in Needs(Configured(stack[1].name).write)
  BY <1>4, <1>5, <1>6, ConfiguredType, NeedsOps DEF IInv
<1> QED
  BY <1>3, <1>6, <1>7 DEF QuietWrites, TwoPhase, Configured

\* A component that is new is called; the others wait for it.
LEMMA PushAnswers ==
  ASSUME AnswersInv, IInv, NEW c \in Names, c \notin components, NEW rest,
         SameCalls(rest, stack), \A i \in DOMAIN rest : AnswerInv(rest[i]), phase = "require",
         stack' = <<NewFrame(c, "compile", Configured(c).compile)>> \o rest,
         UNCHANGED <<host, phase, queue, required, scripts>>
  PROVE  AnswersInv'
<1> DEFINE frame == NewFrame(c, "compile", Configured(c).compile)
<1>1. frame \in Frame /\ frame.name = c /\ frame.stage = "compile" /\ frame.found = {}
  BY ConfiguredType DEF NewFrame, Frame, Stages, IInv
<1>2. stack' = <<frame>> \o rest
  OBVIOUS
<1>3. /\ Len(rest) = Len(stack) /\ rest \in Seq(Frame) /\ Len(stack) \in Nat
      /\ DOMAIN stack = 1..Len(stack) /\ DOMAIN rest = 1..Len(stack)
      /\ \A i \in DOMAIN rest : rest[i].name = stack[i].name /\ rest[i].stage = stack[i].stage
  BY DEF SameCalls, IInv, TypeOK
<1> HIDE DEF frame
<1>4. /\ DOMAIN stack' = 1..(Len(stack) + 1) /\ stack'[1] = frame
      /\ \A i \in 2..(Len(stack) + 1) : stack'[i] = rest[i - 1]
  BY <1>1, <1>2, <1>3, PushView
<1>5. ASSUME NEW i \in DOMAIN stack'
      PROVE  \/ stack'[i] = frame
             \/ \E j \in DOMAIN stack :
                  /\ stack'[i] = rest[j] /\ j \in DOMAIN rest
                  /\ stack'[i].name = stack[j].name /\ stack'[i].stage = stack[j].stage
  <2>1. CASE i = 1
    BY <1>4, <2>1
  <2>2. CASE i # 1
    <3>1. i \in 2..(Len(stack) + 1) /\ i - 1 \in 1..Len(stack)
      BY <1>3, <1>4, <2>2
    <3>2. stack'[i] = rest[i - 1] /\ i - 1 \in DOMAIN stack /\ i - 1 \in DOMAIN rest
      BY <1>3, <1>4, <3>1
    <3> QED
      BY <1>3, <3>2
  <2> QED
    BY <2>1, <2>2
<1>6. PhasesInv'
  <2>1. \A i \in DOMAIN stack' : stack'[i].stage = "write" => ~TwoPhase(stack'[i].name)
    BY <1>1, <1>3, <1>5 DEF AnswersInv, PhasesInv
  <2> QED
    BY <2>1, SameTerms DEF AnswersInv, PhasesInv
<1>7. ~InSeq(c, required)
  BY Nowhere
<1>8. \A d : OnStack(d)' => d = c \/ OnStack(d)
  BY <1>1, <1>3, <1>5 DEF OnStack
<1>9. WriteOrderInv' /\ FoundInv'
  BY <1>7, <1>8, SameOrder, SameFound DEF AnswersInv
<1>10. AnswerInv(frame)
  BY <1>1 DEF AnswerInv
<1>11. \A i \in DOMAIN stack' : AnswerInv(stack'[i])
  BY <1>5, <1>10
<1>12. \A i \in DOMAIN stack' : AnswerInv(stack[i])'
  BY <1>11, SameTerms DEF AnswerInv
<1> QED
  BY <1>6, <1>9, <1>12 DEF AnswersInv

LEMMA RequireAnswers ==
  ASSUME QuietWrites, AnswersInv, IInv, Require \/ BuildInstance
  PROVE  AnswersInv'
<1>1. CASE Fail
  BY <1>1, SameAnswers DEF Fail
<1>2. CASE ~Fail
  <2>1. PICK kind \in {"require", "instance"} : Building(kind)
    BY DEF Require, BuildInstance
  <2>2. BuildComponent(op.compt, Rest) /\ UNCHANGED <<host, phase, queue, required, scripts>>
    BY <1>2 DEF Require, BuildInstance
  <2>3. op.compt \in Names /\ phase = "require" /\ SameCalls(Rest, stack)
    BY <2>1, BuildingOp, OpFields, RequiresEarly, RestCalls DEF IInv
  <2>4. CASE op.compt \in components
    <3>1. stack' = Rest
      BY <2>2, <2>4 DEF BuildComponent
    <3> QED
      BY <2>1, <2>2, <3>1, RestAnswers
  <2>5. CASE op.compt \notin components
    <3>1. stack' = <<NewFrame(op.compt, "compile", Configured(op.compt).compile)>> \o Rest
      BY <2>2, <2>5 DEF BuildComponent
    <3>2. Advanced(Rest, stack) /\ Rest[1].found = stack[1].found
      BY <2>1, RestAdvances, RestFound DEF IInv
    <3>3. \A d : op # HasOp(d)
      BY <2>1, BuildingOp DEF HasOp, IInv
    <3>4. \A i \in DOMAIN Rest : AnswerInv(Rest[i])
      BY <3>2, <3>3, AdvanceAnswer
    <3> QED
      BY <2>2, <2>3, <2>5, <3>1, <3>4, PushAnswers
  <2> QED
    BY <2>4, <2>5
<1> QED
  BY <1>1, <1>2

LEMMA RequireRootAnswers ==
  ASSUME AnswersInv, IInv, RequireRoot
  PROVE  AnswersInv'
<1> DEFINE c == Head(todo)
<1>1. /\ c \in Names /\ stack = <<>> /\ BuildComponent(c, <<>>) /\ phase = "require"
      /\ UNCHANGED <<host, phase, queue, required, scripts>>
  BY TailView DEF RequireRoot, IInv, TypeOK
<1>2. CASE c \in components
  BY <1>1, <1>2, SameAnswers DEF BuildComponent
<1>3. CASE c \notin components
  <2>1. stack' = <<NewFrame(c, "compile", Configured(c).compile)>> \o <<>>
    BY <1>1, <1>3 DEF BuildComponent
  <2>2. SameCalls(<<>>, stack)
    BY <1>1 DEF SameCalls
  <2> HIDE DEF c
  <2> QED
    BY <1>1, <1>3, <2>1, <2>2, PushAnswers
<1> QED
  BY <1>2, <1>3

\* A two-phase component is in the queue when it is listed, until it is written.
LEMMA ListedIsQueued ==
  ASSUME PhasesInv, IInv, phase = "require", NEW c, TwoPhase(c), InSeq(c, required)
  PROVE  InSeq(c, queue)
<1>1. ~HasScript(c)
  BY DEF PhasesInv, HasScript
<1>2. ~OnStack(c)
  BY DEF PhasesInv, OnStack, IInv, StackInv
<1> QED
  BY <1>1, <1>2 DEF IInv, QueueInv, InSeq

\* The innermost call has returned.
LEMMA ReturnPhases ==
  ASSUME PhasesInv, IInv, NEW stage, AtEnd(stage), stack' = Tail(stack),
         UNCHANGED <<host, phase>>,
         scripts' = scripts \/ (\A s \in scripts' : s \in scripts \/ s.name = stack[1].name),
         phase = "require" => scripts' = scripts \/ ~TwoPhase(stack[1].name)
  PROVE  PhasesInv'
<1>1. \A i \in DOMAIN stack' : i + 1 \in DOMAIN stack /\ stack'[i] = stack[i + 1] /\ i \in Int
  BY ReturnFacts
<1>2. \A c : TwoPhase(c)' <=> TwoPhase(c)
  BY DEF TwoPhase, Configured
<1>3. phase = "require" =>
        \A i \in DOMAIN stack' : stack'[i].stage = "write" => ~TwoPhase(stack'[i].name)
  BY <1>1 DEF PhasesInv
<1>4. phase = "require" => \A s \in scripts' : ~TwoPhase(s.name)
  BY DEF PhasesInv
<1>5. ASSUME phase = "write", NEW i \in DOMAIN stack' PROVE FALSE
  <2>1. i + 1 = 1
    BY <1>1, <1>5 DEF PhasesInv
  <2>2. DOMAIN stack' = 1..Len(stack')
    BY ReturnFacts
  <2> QED
    BY <1>5, <2>1, <2>2
<1> QED
  BY <1>2, <1>3, <1>4, <1>5 DEF PhasesInv

LEMMA QueueAnswers ==
  ASSUME AnswersInv, IInv, Queue
  PROVE  AnswersInv'
<1> DEFINE c == stack[1].name
<1>1. /\ 1 \in DOMAIN stack /\ Head(stack) = stack[1] /\ c \in components
      /\ stack[1].stage = "compile" /\ AtEnd("compile")
  BY EndFacts DEF Queue, IInv
<1>2. /\ TwoPhase(c) /\ stack' = Tail(stack) /\ UNCHANGED <<host, phase, scripts>>
      /\ queue' = Append(queue, c) /\ required' = Append(required, c)
  BY <1>1 DEF Queue, TwoPhase
<1>3. phase = "require"
  BY <1>1 DEF AtEnd, AnswersInv, PhasesInv
<1>4. /\ \A i \in DOMAIN stack' : i + 1 \in DOMAIN stack /\ stack'[i] = stack[i + 1]
      /\ \A d : OnStack(d) <=> OnStack(d)' \/ d = c
  BY <1>1, <1>2, ReturnFacts
<1>5. ~InSeq(c, required) /\ ~InSeq(c, queue)
  BY <1>1 DEF IInv, StackInv
<1>6. PhasesInv'
  BY <1>1, <1>2, ReturnPhases DEF AnswersInv
<1>7. /\ \A d, e : Later(d, e)' <=> Later(d, e) \/ (e = c /\ InSeq(d, required))
      /\ \A d : TwoPhase(d)' <=> TwoPhase(d)
      /\ \A d : InSeq(d, required') <=> InSeq(d, required) \/ d = c
  BY <1>2, LaterAppend, InSeqAppend DEF TwoPhase, Configured, IInv, TypeOK
<1> HIDE DEF c
<1>8. /\ Len(queue) \in Nat /\ DOMAIN queue = 1..Len(queue)
      /\ DOMAIN queue' = 1..(Len(queue) + 1) /\ queue'[Len(queue) + 1] = c
      /\ \A i \in 1..Len(queue) : queue'[i] = queue[i]
  BY <1>2 DEF IInv, TypeOK
<1>9. WriteOrderInv'
  <2>1. \A d : TwoPhase(d) /\ InSeq(d, required) => ~OnStack(d)
    BY <1>3 DEF AnswersInv, PhasesInv, OnStack, IInv, StackInv
  <2>2. ASSUME NEW d, NEW e, TwoPhase(d), TwoPhase(e), Later(d, e)',
               NEW p \in DOMAIN queue', queue'[p] = d
        PROVE  \E q \in DOMAIN queue' : p < q /\ queue'[q] = e
    <3>1. InSeq(d, required)
      BY <1>7, <2>2, LaterListed
    <3>2. p \in DOMAIN queue /\ queue[p] = d
      BY <1>5, <1>8, <2>2, <3>1
    <3>3. CASE e = c
      BY <1>8, <3>2, <3>3
    <3>4. CASE e # c
      <4>1. PICK q \in DOMAIN queue : p < q /\ queue[q] = e
        BY <1>7, <2>2, <3>2, <3>4 DEF AnswersInv, WriteOrderInv
      <4> QED
        BY <1>8, <4>1
    <3> QED
      BY <3>3, <3>4
  <2>3. ASSUME NEW d, NEW e, TwoPhase(d), Later(d, e)' PROVE ~OnStack(d)'
    <3>1. InSeq(d, required)
      BY <1>7, <2>3, LaterListed
    <3> QED
      BY <1>4, <2>1, <2>3, <3>1
  <2> QED
    BY <1>7, <2>2, <2>3 DEF WriteOrderInv
<1>10. FoundInv'
  <2>1. \A s \in scripts : ~TwoPhase(s.name) /\ \A d \in s.found : InSeq(d, required)
    BY <1>3 DEF AnswersInv, PhasesInv, FoundInv
  <2> QED
    BY <1>2, <1>7, <2>1 DEF FoundInv
<1>11. \A i \in DOMAIN stack' : AnswerInv(stack[i])'
  <2> SUFFICES ASSUME NEW i \in DOMAIN stack' PROVE AnswerInv(stack[i])'
    OBVIOUS
  <2>1. i + 1 \in DOMAIN stack /\ stack'[i] = stack[i + 1]
    BY <1>4
  <2>2. \A d \in stack'[i].found : InSeq(d, required)
    BY <2>1 DEF AnswersInv, AnswerInv
  <2>3. ~(stack'[i].stage = "write" /\ TwoPhase(stack'[i].name))
    BY <1>3, <2>1 DEF AnswersInv, PhasesInv
  <2> QED
    BY <1>7, <2>2, <2>3 DEF AnswerInv
<1> QED
  BY <1>6, <1>9, <1>10, <1>11 DEF AnswersInv

LEMMA WriteNowAnswers ==
  ASSUME AnswersInv, IInv, WriteNow
  PROVE  AnswersInv'
<1> DEFINE c == stack[1].name
           frame == [name |-> c, stage |-> "write", ops |-> Configured(c).write,
                     found |-> stack[1].found]
<1>1. /\ 1 \in DOMAIN stack /\ Head(stack) = stack[1] /\ stack[1] \in Frame /\ stack # <<>>
      /\ c \in Names /\ stack[1].stage = "compile" /\ phase # "done"
  BY EndFacts DEF WriteNow, IInv
<1>2. /\ ~TwoPhase(c) /\ stack' = <<frame>> \o Tail(stack) /\ AtEnd("compile")
      /\ UNCHANGED <<host, phase, queue, required, scripts>>
  BY <1>1 DEF WriteNow, TwoPhase
<1>3. phase = "require"
  BY <1>1, <1>2 DEF AtEnd, AnswersInv, PhasesInv
<1>4. /\ frame \in Frame /\ frame.name = c /\ frame.stage = "write" /\ frame.found = stack[1].found
  BY <1>1, ConfiguredType, FrameFields DEF Frame, Stages, IInv
<1>5. /\ Tail(stack) \in Seq(Frame) /\ Len(Tail(stack)) = Len(stack) - 1 /\ Len(stack) \in Nat
      /\ \A i \in 1..(Len(stack) - 1) : Tail(stack)[i] = stack[i + 1]
      /\ DOMAIN stack = 1..Len(stack)
  BY <1>1, TailView DEF IInv, TypeOK
<1> HIDE DEF frame
<1>6. /\ DOMAIN stack' = DOMAIN stack /\ stack'[1] = frame
      /\ \A i \in 2..Len(stack) : stack'[i] = Tail(stack)[i - 1]
  BY <1>2, <1>4, <1>5, PushView
<1>7. ASSUME NEW i \in DOMAIN stack'
      PROVE  (stack'[i] = frame /\ i = 1) \/ (i \in DOMAIN stack /\ stack'[i] = stack[i])
  <2>1. CASE i = 1
    BY <1>6, <2>1
  <2>2. CASE i # 1
    <3>1. i \in 2..Len(stack) /\ i - 1 \in 1..(Len(stack) - 1) /\ (i - 1) + 1 = i
      BY <1>5, <1>6, <1>7, <2>2
    <3> QED
      BY <1>5, <1>6, <3>1
  <2> QED
    BY <2>1, <2>2
<1>8. PhasesInv'
  <2>1. \A i \in DOMAIN stack' : stack'[i].stage = "write" => ~TwoPhase(stack'[i].name)
    BY <1>2, <1>3, <1>4, <1>7 DEF AnswersInv, PhasesInv
  <2> QED
    BY <1>2, <1>3, <2>1, SameTerms DEF AnswersInv, PhasesInv
<1>9. \A d : OnStack(d)' => OnStack(d)
  <2> SUFFICES ASSUME NEW i \in DOMAIN stack' PROVE \E j \in DOMAIN stack : stack[j].name = stack'[i].name
    BY DEF OnStack
  <2> QED
    BY <1>1, <1>4, <1>7
<1>10. WriteOrderInv' /\ FoundInv'
  BY <1>2, <1>9, SameOrder, SameFound DEF AnswersInv
<1>11. AnswerInv(frame)
  BY <1>1, <1>2, <1>4 DEF AnswersInv, AnswerInv
<1>12. \A i \in DOMAIN stack' : AnswerInv(stack'[i])
  BY <1>7, <1>11 DEF AnswersInv
<1>13. \A i \in DOMAIN stack' : AnswerInv(stack[i])'
  BY <1>2, <1>12, SameTerms DEF AnswerInv
<1> QED
  BY <1>8, <1>10, <1>13 DEF AnswersInv

LEMMA EndWriteAnswers ==
  ASSUME AnswersInv, IInv, EndWrite
  PROVE  AnswersInv'
<1> DEFINE c == stack[1].name
           script == [name |-> c, sees |-> given[c], found |-> stack[1].found, bash |-> bash[c]]
<1>1. /\ 1 \in DOMAIN stack /\ Head(stack) = stack[1] /\ stack[1].ops = <<>>
      /\ stack[1].stage = "write" /\ AtEnd("write")
  BY EndFacts DEF EndWrite, AtEnd, IInv
<1>2. /\ stack' = Tail(stack) /\ scripts' = scripts \cup {script}
      /\ required' = IF TwoPhase(c) THEN required ELSE Append(required, c)
      /\ UNCHANGED <<host, phase, queue>>
  BY <1>1 DEF EndWrite, TwoPhase
<1>3. script.name = c /\ script.found = stack[1].found
  OBVIOUS
<1>4. /\ \A i \in DOMAIN stack' : i + 1 \in DOMAIN stack /\ stack'[i] = stack[i + 1]
      /\ \A d : OnStack(d) <=> OnStack(d)' \/ d = c
  BY <1>1, <1>2, ReturnFacts
<1>5. /\ phase = "require" => ~TwoPhase(c)
      /\ phase = "write" => TwoPhase(c)
      /\ phase \in {"require", "write"}
  BY <1>1 DEF AtEnd, AnswersInv, PhasesInv
<1>6. \A d \in stack[1].found : InSeq(d, required)
  BY <1>1 DEF AnswersInv, AnswerInv
<1>7. AnswerInv(stack[1])
  BY <1>1 DEF AnswersInv
<1> HIDE DEF c, script
<1>8. PhasesInv'
  <2>1. \A s \in scripts' : s \in scripts \/ s.name = c
    BY <1>2, <1>3
  <2> QED
    BY <1>1, <1>2, <1>5, <2>1, ReturnPhases DEF AnswersInv, c
<1>9. CASE TwoPhase(c)
  <2>1. phase = "write" /\ UNCHANGED <<host, required>>
    BY <1>2, <1>5, <1>9
  <2>2. WriteOrderInv'
    BY <1>2, <1>4, <2>1, SameOrder DEF AnswersInv
  <2>3. ASSUME NEW d \in Asks(c), TwoPhase(d), Later(c, d) PROVE d \in script.found
    BY <1>1, <1>3, <1>7, <1>9, <2>3, InSeqEmpty DEF AnswerInv, c
  <2>4. FoundInv'
    BY <1>2, <1>3, <1>6, <2>1, <2>3, SameTerms DEF AnswersInv, FoundInv
  <2>5. \A i \in DOMAIN stack' : AnswerInv(stack'[i])
    BY <1>4 DEF AnswersInv
  <2>6. \A i \in DOMAIN stack' : AnswerInv(stack[i])'
    BY <2>1, <2>5, SameTerms DEF AnswerInv
  <2> QED
    BY <1>8, <2>2, <2>4, <2>6 DEF AnswersInv
<1>10. CASE ~TwoPhase(c)
  <2>1. phase = "require" /\ required' = Append(required, c)
    BY <1>2, <1>5, <1>10
  <2>2. /\ \A d, e : Later(d, e)' <=> Later(d, e) \/ (e = c /\ InSeq(d, required))
        /\ \A d : TwoPhase(d)' <=> TwoPhase(d)
        /\ \A d : InSeq(d, required') <=> InSeq(d, required) \/ d = c
    <3>1. \A d, e : Later(d, e)' <=> Later(d, e) \/ (e = c /\ InSeq(d, required))
      BY <2>1, LaterAppend
    <3>2. \A d : TwoPhase(d)' <=> TwoPhase(d)
      BY <1>2 DEF TwoPhase, Configured
    <3>3. \A d : InSeq(d, required') <=> InSeq(d, required) \/ d = c
      BY <2>1, InSeqAppend DEF IInv, TypeOK
    <3> QED
      BY <3>1, <3>2, <3>3
  <2>3. WriteOrderInv'
    BY <1>2, <1>4, <1>10, <2>2 DEF AnswersInv, WriteOrderInv
  <2>4. FoundInv'
    <3>1. \A s \in scripts' : ~TwoPhase(s.name) /\ \A d \in s.found : InSeq(d, required)
      BY <1>2, <1>3, <1>6, <1>10, <2>1 DEF AnswersInv, PhasesInv, FoundInv
    <3> QED
      BY <2>2, <3>1 DEF FoundInv
  <2>5. \A i \in DOMAIN stack' : AnswerInv(stack[i])'
    <3> SUFFICES ASSUME NEW i \in DOMAIN stack' PROVE AnswerInv(stack[i])'
      OBVIOUS
    <3>1. i + 1 \in DOMAIN stack /\ stack'[i] = stack[i + 1]
      BY <1>4
    <3>2. \A d \in stack'[i].found : InSeq(d, required)
      BY <3>1 DEF AnswersInv, AnswerInv
    <3>3. ~(stack'[i].stage = "write" /\ TwoPhase(stack'[i].name))
      BY <2>1, <3>1 DEF AnswersInv, PhasesInv
    <3> QED
      BY <2>2, <3>2, <3>3 DEF AnswerInv
  <2> QED
    BY <1>8, <2>3, <2>4, <2>5 DEF AnswersInv
<1> QED
  BY <1>9, <1>10

LEMMA WriteNextAnswers ==
  ASSUME AnswersInv, IInv, WriteNext
  PROVE  AnswersInv'
<1> DEFINE c == Head(queue)  frame == NewFrame(c, "write", Configured(c).write)
<1>1. /\ stack = <<>> /\ stack' = <<frame>> /\ queue # <<>> /\ queue' = Tail(queue)
      /\ phase = "write" /\ UNCHANGED <<host, phase, required, scripts>>
  BY DEF WriteNext
<1>2. /\ frame.name = c /\ frame.stage = "write" /\ frame.ops = Configured(c).write
      /\ frame.found = {}
  BY DEF NewFrame
<1> HIDE DEF frame
<1>3. c = queue[1] /\ 1 \in DOMAIN queue
  BY <1>1, TailView DEF IInv, TypeOK
<1> HIDE DEF c
<1>4. TwoPhase(c)
  BY <1>3 DEF TwoPhase, IInv, QueueInv
<1>5. DOMAIN stack' = {1} /\ stack'[1] = frame
  BY <1>1
<1>6. PhasesInv'
  BY <1>1, <1>2, <1>4, <1>5, SameTerms DEF AnswersInv, PhasesInv
<1>7. FoundInv'
  BY <1>1, SameFound DEF AnswersInv
<1>8. /\ Len(queue) \in Nat /\ DOMAIN queue = 1..Len(queue)
      /\ DOMAIN queue' = 1..(Len(queue) - 1)
      /\ \A i \in 1..(Len(queue) - 1) : queue'[i] = queue[i + 1]
  BY <1>1, TailView DEF IInv, TypeOK
<1>9. ASSUME NEW d, NEW e, TwoPhase(d), TwoPhase(e), Later(d, e),
             NEW p \in DOMAIN queue, queue[p] = d
      PROVE  \E q \in DOMAIN queue' : p - 1 < q /\ queue'[q] = e
  <2>1. PICK q \in DOMAIN queue : p < q /\ queue[q] = e
    BY <1>9 DEF AnswersInv, WriteOrderInv
  <2>2. q - 1 \in DOMAIN queue' /\ (q - 1) + 1 = q /\ p - 1 < q - 1
    BY <1>8, <2>1
  <2> QED
    BY <1>8, <2>1, <2>2
<1>10. WriteOrderInv'
  <2>1. ASSUME NEW d, NEW e, TwoPhase(d), TwoPhase(e), Later(d, e),
               NEW p \in DOMAIN queue', queue'[p] = d
        PROVE  \E q \in DOMAIN queue' : p < q /\ queue'[q] = e
    <3>1. p + 1 \in DOMAIN queue /\ queue[p + 1] = d /\ (p + 1) - 1 = p
      BY <1>8, <2>1
    <3> QED
      BY <1>9, <2>1, <3>1
  <2>2. ASSUME NEW d, NEW e, TwoPhase(d), TwoPhase(e), Later(d, e), OnStack(d)'
        PROVE  InSeq(e, queue')
    <3>1. d = c
      BY <1>2, <1>5, <2>2 DEF OnStack
    <3> QED
      BY <1>3, <1>9, <2>2, <3>1 DEF InSeq
  <2> QED
    BY <1>1, <2>1, <2>2, SameTerms DEF WriteOrderInv
<1>11. AnswerInv(frame)
  BY <1>2, AsksOps DEF AnswerInv
<1>12. \A i \in DOMAIN stack' : AnswerInv(stack[i])'
  BY <1>1, <1>5, <1>11, SameTerms DEF AnswerInv
<1> QED
  BY <1>6, <1>7, <1>10, <1>12 DEF AnswersInv

LEMMA AnswersStep ==
  ASSUME QuietWrites, AnswersInv, IInv, [Next]_vars
  PROVE  AnswersInv'
<1>1. CASE StartWrites \/ WriteRoot \/ UNCHANGED vars
  BY <1>1, SameAnswers DEF StartWrites, WriteRoot, vars
<1> QED
  BY <1>1, HasComponentAnswers, OtherAnswers, RequireAnswers, RequireRootAnswers, QueueAnswers,
     WriteNowAnswers, EndWriteAnswers, WriteNextAnswers DEF Next, Ended

LEMMA Answers == ASSUME QuietWrites PROVE Spec => []AnswersInv
<1>1. Init => AnswersInv
  BY DEF Init, AnswersInv, PhasesInv, WriteOrderInv, FoundInv, Later
<1>2. IInv /\ AnswersInv /\ [Next]_vars => AnswersInv'
  BY AnswersStep
<1> QED
  BY <1>1, <1>2, Invariant, PTL DEF Spec

\* What a two-phase component that asks has_component when it is written (base_os
\* for postfix) finds: every two-phase component that 000.sh lists after it, and
\* none that 000.sh does not list.
LaterIsFound ==
  Built => \A s \in scripts : \A d \in Asks(s.name) : TwoPhase(s.name) /\ TwoPhase(d) =>
    /\ Later(s.name, d) => d \in s.found
    /\ d \in s.found => InSeq(d, required)

\* However the calls of the components are nested, and also for those that require
\* the asking one by way of others, has_component finds what comes later, if
\* two-phase components require no more when they are written.
THEOREM FindsLater == ASSUME QuietWrites PROVE Spec => []LaterIsFound
<1>1. AnswersInv => LaterIsFound
  BY DEF AnswersInv, FoundInv, LaterIsFound
<1> QED
  BY <1>1, Answers, PTL

\* The answer that has_component gives agrees with 000.sh, whenever the
\* components can be ranked, require others while they compile only, and none
\* asks for itself.
THEOREM AnswersAgree ==
  ASSUME QuietWrites, NoneAsksForItself, NEW CONSTANT rank, Ranked(rank)
  PROVE  Spec => []AnswerAgrees
<1>1. IInv /\ DepsInv(rank) /\ AnswersInv => AnswerAgrees
  <2> SUFFICES ASSUME IInv, DepsInv(rank), AnswersInv,
                      NEW s \in scripts, NEW d \in Asks(s.name), s.name \in Requires(d),
                      TwoPhase(s.name), TwoPhase(d)
               PROVE  d \in s.found <=> InSeq(d, required)
    BY DEF AnswerAgrees, TwoPhase
  <2>1. d \in s.found => InSeq(d, required)
    BY DEF AnswersInv, FoundInv
  <2>2. ASSUME InSeq(d, required) PROVE d \in s.found
    <3>1. s.name # d
      <4>1. InSeq(HasOp(d), Configured(s.name).write)
        BY AsksOps
      <4>2. s.name \in Names /\ host \in Hosts
        BY DEF IInv, TypeOK, WrittenScript
      <4>3. HasOp(d).kind = "has" /\ HasOp(d).compt = d
        BY DEF HasOp
      <4> QED
        BY <4>1, <4>2, <4>3 DEF Configured, NoneAsksForItself, InSeq
    <3>2. PICK i \in DOMAIN required : required[i] = d
      BY <2>2 DEF InSeq
    <3>3. s.name \in Requires(required[i]) \ {required[i]}
      BY <3>1, <3>2
    <3>4. PICK j \in DOMAIN required : j < i /\ required[j] = s.name
      BY <3>3 DEF DepsInv, ListedInv
    <3>5. Later(s.name, d)
      BY <3>2, <3>4 DEF Later
    <3> QED
      BY <3>5 DEF AnswersInv, FoundInv
  <2> QED
    BY <2>1, <2>2
<1> QED
  BY <1>1, Invariant, Answers, Dependencies, PTL
-----------------------------------------------------------------------------
(* get_component finds what careful components look for                    *)

Listed == {required[i] : i \in DOMAIN required}

\* Each lookup that a call has yet to make will find a two-phase component: it
\* is listed, or comes with what the call requires before, or with what it
\* waits for (above).
Foreseen(def, brings, listed, frame, above) ==
  Careful(brings, def, frame.name) =>
    \A p \in DOMAIN frame.ops : Searches(frame.ops[p]) =>
      /\ ~def.compt[frame.ops[p].compt].onePhase
      /\ frame.ops[p].compt \in listed \cup above \cup Comes(brings, frame.ops, frame.name, p)

Above(brings, i) == IF i = 1 THEN {} ELSE With(brings[host], stack[i - 1].name)

ForeseenInv(brings) ==
  \A i \in DOMAIN stack : Foreseen(Defs[host], brings[host], Listed, stack[i], Above(brings, i))

\* What is listed has brought what it brings.
BroughtInv(brings) == \A c \in Listed : brings[host][c] \subseteq Listed

\* A part of another is listed before it.
PartInv ==
  \A c \in components : \A d \in Names : TwoPhase(d) /\ PartOf(Defs[host], c, d) =>
    /\ c \in Requires(d)
    /\ Later(c, d) \/ \E i \in DOMAIN stack : stack[i].name = d /\ stack[i].stage = "compile"

Bottom(brings) == IF stack = <<>> THEN {} ELSE With(brings[host], stack[Len(stack)].name)

\* The database's list is gone through in order; what comes with the components
\* it has required is listed, or comes with the call that all others are part of.
RootsInv(brings) ==
  LET roots == Defs[host].roots  n == Len(roots) - Len(todo) IN
  /\ n >= 0 /\ \A i \in DOMAIN todo : todo[i] = roots[n + i]
  /\ \A j \in DOMAIN roots : j <= n =>
       With(brings[host], roots[j]) \subseteq Listed \cup Bottom(brings)

\* What a component adds to while it is written in the second phase is listed
\* after it.
GivesInv(brings) ==
  \A i \in DOMAIN stack :
    /\ stack[i].stage = "write" /\ TwoPhase(stack[i].name)
    /\ Careful(brings[host], Defs[host], stack[i].name)
    => \A o : InSeq(o, stack[i].ops) /\ o.kind = "give" => Later(stack[i].name, o.compt)

\* _done_components has those of two phases whose script is written or begun.
WrittenInv ==
  /\ \A s \in scripts : TwoPhase(s.name) => s.name \in written
  /\ \A i \in DOMAIN stack :
       stack[i].stage = "write" /\ TwoPhase(stack[i].name) => stack[i].name \in written

LooksInv(brings) ==
  /\ ForeseenInv(brings) /\ BroughtInv(brings) /\ GivesInv(brings)
  /\ RootsInv(brings) /\ PartInv /\ WrittenInv

LEMMA ListedIn == \A c : c \in Listed <=> InSeq(c, required)
  BY DEF Listed, InSeq

\* More is listed; what was to come with the call waited for is, or still is.
LEMMA StillForeseen ==
  ASSUME NEW def, NEW brings, NEW listed, NEW more, NEW frame, NEW above, NEW still,
         Foreseen(def, brings, listed, frame, above),
         listed \subseteq more, above \subseteq more \cup still
  PROVE  Foreseen(def, brings, more, frame, still)
  BY DEF Foreseen

\* Past its first operation, a call has what that brings.
LEMMA PastForeseen ==
  ASSUME NEW def, NEW brings, NEW listed, NEW more, NEW frame, NEW rest, NEW above, NEW still,
         Foreseen(def, brings, listed, frame, above),
         listed \subseteq more, above \subseteq more \cup still,
         frame.ops \in Seq(Op), frame.ops # <<>>,
         rest.name = frame.name, rest.ops = Tail(frame.ops),
         Head(frame.ops) \in ReqOps /\ Head(frame.ops).compt # frame.name =>
           With(brings, Head(frame.ops).compt) \subseteq more \cup still
  PROVE  Foreseen(def, brings, more, rest, still)
<1> SUFFICES ASSUME Careful(brings, def, frame.name),
                    NEW p \in DOMAIN rest.ops, Searches(rest.ops[p])
             PROVE  /\ ~def.compt[rest.ops[p].compt].onePhase
                    /\ rest.ops[p].compt \in more \cup still
                                               \cup Comes(brings, rest.ops, frame.name, p)
  BY DEF Foreseen
<1>1. /\ Tail(frame.ops) \in Seq(Op) /\ Len(Tail(frame.ops)) = Len(frame.ops) - 1
      /\ Len(frame.ops) \in Nat /\ Head(frame.ops) = frame.ops[1]
      /\ \A i \in 1..(Len(frame.ops) - 1) : Tail(frame.ops)[i] = frame.ops[i + 1]
  BY TailView
<1>2. /\ DOMAIN frame.ops = 1..Len(frame.ops) /\ DOMAIN rest.ops = 1..(Len(frame.ops) - 1)
      /\ p \in Nat /\ p + 1 \in DOMAIN frame.ops /\ rest.ops[p] = frame.ops[p + 1]
  BY <1>1
<1>3. /\ ~def.compt[rest.ops[p].compt].onePhase
      /\ rest.ops[p].compt \in listed \cup above \cup Comes(brings, frame.ops, frame.name, p + 1)
  BY <1>2 DEF Foreseen
<1>4. ASSUME NEW e \in NeedsBefore(frame.ops, p + 1), e # frame.name
      PROVE  \/ e \in NeedsBefore(rest.ops, p)
             \/ With(brings, e) \subseteq more \cup still
  <2>1. PICK q \in DOMAIN frame.ops :
          q < p + 1 /\ frame.ops[q] \in ReqOps /\ frame.ops[q].compt = e
    <3>1. p + 1 \in Nat
      BY <1>2
    <3>2. \A d : d \in NeedsBefore(frame.ops, p + 1) <=>
            \E q \in DOMAIN frame.ops :
              q < p + 1 /\ frame.ops[q] \in ReqOps /\ frame.ops[q].compt = d
      BY <3>1, NeedsOps
    <3> QED
      BY <3>2
  <2>2. CASE q = 1
    BY <1>1, <1>4, <2>1, <2>2
  <2>3. CASE q # 1
    <3>1. q - 1 \in DOMAIN rest.ops /\ q - 1 < p /\ rest.ops[q - 1] = frame.ops[q]
      <4>1. q \in 1..Len(frame.ops) /\ q - 1 \in 1..(Len(frame.ops) - 1) /\ (q - 1) + 1 = q
        BY <1>1, <1>2, <2>1, <2>3
      <4> QED
        BY <1>1, <1>2, <2>1, <4>1
    <3> QED
      BY <1>1, <1>2, <2>1, <3>1, NeedsOps
  <2> QED
    BY <2>2, <2>3
<1>5. Comes(brings, frame.ops, frame.name, p + 1)
        \subseteq more \cup still \cup Comes(brings, rest.ops, frame.name, p)
  BY <1>4 DEF Comes
<1> QED
  BY <1>3, <1>5

\* A careful component's calls begin with nothing unforeseen.
LEMMA NewForeseen ==
  ASSUME NEW def, NEW brings, NEW listed, NEW c, NEW above,
         ListedBefore(brings, def, c) \subseteq listed
  PROVE  Foreseen(def, brings, listed, NewFrame(c, "compile", def.compt[c].compile), above)
  BY DEF Foreseen, NewFrame, Careful

LEMMA WriteForeseen ==
  ASSUME NEW def, NEW brings, NEW listed, NEW frame, NEW above,
         frame.ops = def.compt[frame.name].write,
         ComesWith(brings, def.compt, frame.name) \subseteq listed,
         \A p \in DOMAIN frame.ops :
           LET d == frame.ops[p].compt IN
           frame.ops[p].kind = "give" /\ ~def.compt[frame.name].onePhase
             /\ ~def.compt[d].onePhase /\ PartOf(def, frame.name, d) => d \in listed
  PROVE  Foreseen(def, brings, listed, frame, above)
  BY DEF Foreseen, Careful

\* Nothing more is required of the database's list.
LEMMA SameRoots ==
  ASSUME NEW CONSTANT brings, RootsInv(brings), UNCHANGED <<host, todo>>,
         Listed \subseteq Listed', Bottom(brings) \subseteq Listed' \cup Bottom(brings)'
  PROVE  RootsInv(brings)'
  BY DEF RootsInv

\* The call that all others are part of goes on.
LEMMA SameBottom ==
  ASSUME NEW CONSTANT brings, UNCHANGED host, stack # <<>>, stack' # <<>>,
         stack'[Len(stack')].name = stack[Len(stack)].name
  PROVE  Bottom(brings)' = Bottom(brings)
  BY DEF Bottom

\* Steps that change neither the calls nor what is listed.
LEMMA SameLooks ==
  ASSUME NEW CONSTANT brings, LooksInv(brings),
         UNCHANGED <<host, stack, components, required, written, scripts, todo>>
  PROVE  LooksInv(brings)'
<1>0. /\ Listed' = Listed /\ Bottom(brings)' = Bottom(brings)
      /\ \A i : Above(brings, i)' = Above(brings, i)
  BY DEF Listed, Above, Bottom
<1>1. ForeseenInv(brings)' /\ BroughtInv(brings)'
  BY <1>0 DEF LooksInv, ForeseenInv, BroughtInv
<1>2. GivesInv(brings)' /\ PartInv'
  BY SameTerms DEF LooksInv, GivesInv, PartInv, Requires, Configured
<1>3. RootsInv(brings)' /\ WrittenInv'
  BY <1>0, SameTerms, SameRoots DEF LooksInv, WrittenInv
<1> QED
  BY <1>1, <1>2, <1>3 DEF LooksInv

\* What the innermost call is past, if it was a require, is listed and has
\* brought what it brings.
LEMMA RequiredHere ==
  ASSUME NEW CONSTANT rank, Ranked(rank), DepsInv(rank), IInv, NEW CONSTANT brings,
         BroughtInv(brings), NEW s, Advanced(s, stack),
         op \in ReqOps, op.compt \in components, op.compt # stack[1].name
  PROVE  With(brings[host], op.compt) \subseteq Listed
<1>1. stack # <<>>
  BY DEF Advanced
<1>2. rank[op.compt] < rank[stack[1].name]
  BY OpBelow DEF DepsInv, IInv
<1>3. InSeq(op.compt, required)
  BY <1>1, <1>2, BelowIsListed DEF DepsInv
<1> QED
  BY <1>3, ListedIn DEF BroughtInv, With

\* The calls as they are when the innermost is past an operation, seen from it
\* and from those that wait
LEMMA AdvanceForeseen ==
  ASSUME NEW CONSTANT brings, ForeseenInv(brings), IInv, NEW s, Advanced(s, stack), NEW above,
         op \in ReqOps /\ op.compt # stack[1].name =>
           With(brings[host], op.compt) \subseteq Listed \cup above
  PROVE  /\ Foreseen(Defs[host], brings[host], Listed, s[1], above)
         /\ \A i \in DOMAIN s : i # 1 =>
              /\ i - 1 \in DOMAIN s
              /\ Foreseen(Defs[host], brings[host], Listed, s[i],
                          With(brings[host], s[i - 1].name))
<1>1. /\ DOMAIN s = DOMAIN stack /\ DOMAIN stack = 1..Len(stack) /\ 1 \in DOMAIN stack
      /\ Head(stack) = stack[1] /\ Head(stack[1].ops) = op
  BY AdvancedOps DEF IInv
<1>2. /\ stack[1].ops # <<>> /\ s[1].ops = Tail(stack[1].ops) /\ Len(stack) \in Nat
      /\ \A i \in DOMAIN stack : i # 1 => s[i] = stack[i]
      /\ \A i \in DOMAIN stack : s[i].name = stack[i].name
  BY <1>1 DEF Advanced, SameCalls
<1>3. stack[1] \in Frame /\ stack[1].ops \in Seq(Op)
  BY <1>1, FrameFields DEF IInv, TypeOK
<1>4. Foreseen(Defs[host], brings[host], Listed, stack[1], {})
  BY <1>1 DEF ForeseenInv, Above
<1>5. Foreseen(Defs[host], brings[host], Listed, s[1], above)
  BY <1>1, <1>2, <1>3, <1>4, PastForeseen
<1>6. ASSUME NEW i \in DOMAIN s, i # 1
      PROVE  /\ i - 1 \in DOMAIN s
             /\ Foreseen(Defs[host], brings[host], Listed, s[i], With(brings[host], s[i - 1].name))
  <2>1. i - 1 \in DOMAIN stack
    BY <1>1, <1>2, <1>6
  <2> QED
    BY <1>1, <1>2, <1>6, <2>1 DEF ForeseenInv, Above
<1> QED
  BY <1>5, <1>6

\* The innermost call goes on; what it has required is known.
LEMMA AdvanceLooks ==
  ASSUME NEW CONSTANT rank, Ranked(rank), DepsInv(rank), IInv,
         NEW CONSTANT brings, LooksInv(brings), Advanced(stack', stack),
         op \in ReqOps => op.compt \in components,
         UNCHANGED <<host, components, required, written, scripts, todo>>
  PROVE  LooksInv(brings)'
<1>1. /\ DOMAIN stack' = DOMAIN stack
      /\ \A i \in DOMAIN stack : stack'[i].name = stack[i].name /\ stack'[i].stage = stack[i].stage
      /\ \A i \in DOMAIN stack : \A o : InSeq(o, stack'[i].ops) => InSeq(o, stack[i].ops)
  BY AdvancedOps DEF IInv, Advanced, SameCalls
<1>2. Listed' = Listed
  BY DEF Listed
<1>3. op \in ReqOps /\ op.compt # stack[1].name =>
        With(brings[host], op.compt) \subseteq Listed \cup {}
  BY RequiredHere DEF LooksInv
<1>4. ForeseenInv(brings)'
  <2>1. /\ Foreseen(Defs[host], brings[host], Listed, stack'[1], {})
        /\ \A i \in DOMAIN stack' : i # 1 =>
             Foreseen(Defs[host], brings[host], Listed, stack'[i],
                      With(brings[host], stack'[i - 1].name))
    BY <1>3, AdvanceForeseen DEF LooksInv
  <2> QED
    BY <1>2, <2>1 DEF ForeseenInv, Above
<1>5. BroughtInv(brings)' /\ RootsInv(brings)'
  <2>1. Bottom(brings)' = Bottom(brings)
    <3>1. Len(stack) \in Nat /\ Len(stack) > 0 /\ Len(stack') = Len(stack)
      BY DEF Advanced, SameCalls, IInv, TypeOK
    <3>2. stack # <<>> /\ stack' # <<>> /\ Len(stack) \in DOMAIN stack
      BY <3>1, AdvancedOps DEF IInv
    <3> QED
      BY <1>1, <3>1, <3>2, SameBottom
  <2> QED
    BY <1>2, <2>1, SameRoots DEF LooksInv, BroughtInv
<1>6. GivesInv(brings)' /\ WrittenInv'
  BY <1>1, SameTerms DEF LooksInv, GivesInv, WrittenInv
<1>7. PartInv'
  BY <1>1, SameTerms DEF LooksInv, PartInv, Requires, Configured
<1> QED
  BY <1>4, <1>5, <1>6, <1>7 DEF LooksInv

\* A component that is new is called; the others wait for it.
LEMMA PushLooks ==
  ASSUME IInv, NEW CONSTANT brings, LooksInv(brings), NEW c \in Names, NEW rest,
         SameCalls(rest, stack),
         \A i \in DOMAIN rest : \A o : InSeq(o, rest[i].ops) => InSeq(o, stack[i].ops),
         \A i \in DOMAIN rest :
           Foreseen(Defs[host], brings[host], Listed, rest[i],
                    With(brings[host], IF i = 1 THEN c ELSE rest[i - 1].name)),
         \A d \in Names : TwoPhase(d) /\ PartOf(Defs[host], c, d) =>
           /\ c \in Requires(d)
           /\ \E i \in DOMAIN stack : stack[i].name = d /\ stack[i].stage = "compile",
         stack' = <<NewFrame(c, "compile", Configured(c).compile)>> \o rest,
         ListedBefore(brings[host], Defs[host], c) \subseteq Listed,
         components' = components \cup {c}, RootsInv(brings)',
         UNCHANGED <<host, required, written, scripts>>
  PROVE  LooksInv(brings)'
<1> DEFINE frame == NewFrame(c, "compile", Configured(c).compile)
<1>1. frame \in Frame /\ frame.name = c /\ frame.stage = "compile"
  BY ConfiguredType DEF NewFrame, Frame, Stages, IInv
<1>2. Foreseen(Defs[host], brings[host], Listed, frame, {})
  BY NewForeseen DEF Configured
<1>3. stack' = <<frame>> \o rest
  OBVIOUS
<1>4. /\ Len(rest) = Len(stack) /\ rest \in Seq(Frame) /\ Len(stack) \in Nat
      /\ DOMAIN stack = 1..Len(stack) /\ DOMAIN rest = 1..Len(stack)
      /\ \A i \in DOMAIN rest : rest[i].name = stack[i].name /\ rest[i].stage = stack[i].stage
  BY DEF SameCalls, IInv, TypeOK
<1> HIDE DEF frame
<1>5. /\ DOMAIN stack' = 1..(Len(stack) + 1) /\ stack'[1] = frame
      /\ \A i \in 2..(Len(stack) + 1) : stack'[i] = rest[i - 1]
  BY <1>1, <1>3, <1>4, PushView
<1>6. ASSUME NEW i \in DOMAIN stack', i # 1
      PROVE  /\ i - 1 \in DOMAIN stack /\ i - 1 \in DOMAIN rest /\ stack'[i] = rest[i - 1]
             /\ stack'[i].name = stack[i - 1].name /\ stack'[i].stage = stack[i - 1].stage
  <2>1. i \in 2..(Len(stack) + 1) /\ i - 1 \in 1..Len(stack)
    BY <1>4, <1>5, <1>6
  <2>2. stack'[i] = rest[i - 1] /\ i - 1 \in DOMAIN stack /\ i - 1 \in DOMAIN rest
    BY <1>4, <1>5, <2>1
  <2> QED
    BY <1>4, <2>2
<1>7. Listed' = Listed
  BY DEF Listed
<1>8. ASSUME NEW i \in DOMAIN stack', i # 1
      PROVE  Foreseen(Defs[host], brings[host], Listed, stack'[i],
                      With(brings[host], stack'[i - 1].name))
  <2>1. i - 1 \in DOMAIN rest /\ stack'[i] = rest[i - 1]
    BY <1>6, <1>8
  <2>2. stack'[i - 1].name = IF i - 1 = 1 THEN c ELSE rest[i - 1 - 1].name
    <3>1. CASE i - 1 = 1
      BY <1>1, <1>5, <3>1
    <3>2. CASE i - 1 # 1
      <4>1. i - 1 \in 2..(Len(stack) + 1)
        BY <1>4, <2>1, <3>2
      <4> QED
        BY <1>5, <3>2, <4>1
    <3> QED
      BY <3>1, <3>2
  <2> QED
    BY <2>1, <2>2
<1>9. ForeseenInv(brings)'
  BY <1>2, <1>5, <1>7, <1>8 DEF ForeseenInv, Above
<1>10. BroughtInv(brings)'
  BY <1>7 DEF LooksInv, BroughtInv
<1>11. PartInv'
  <2>1. \A j \in DOMAIN stack : j + 1 \in DOMAIN stack' /\ j + 1 # 1 /\ (j + 1) - 1 = j
    BY <1>4, <1>5
  <2>2. ASSUME NEW j \in DOMAIN stack
        PROVE  \E i \in DOMAIN stack' :
                 stack'[i].name = stack[j].name /\ stack'[i].stage = stack[j].stage
    <3>1. j + 1 \in DOMAIN stack' /\ j + 1 # 1 /\ (j + 1) - 1 = j
      BY <2>1
    <3>2. stack'[j + 1].name = stack[j].name /\ stack'[j + 1].stage = stack[j].stage
      BY <1>6, <3>1
    <3> QED
      BY <3>1, <3>2
  <2>3. \A d : Requires(d)' = Requires(d) /\ (TwoPhase(d)' <=> TwoPhase(d))
    BY DEF Requires, Configured, TwoPhase
  <2>4. \A x, d : Later(x, d)' <=> Later(x, d)
    BY SameTerms
  <2> SUFFICES ASSUME NEW x \in components \cup {c}, NEW d \in Names, TwoPhase(d),
                      PartOf(Defs[host], x, d)
               PROVE  /\ x \in Requires(d)
                      /\ \/ Later(x, d)
                         \/ \E i \in DOMAIN stack' :
                              stack'[i].name = d /\ stack'[i].stage = "compile"
    BY <2>3, <2>4 DEF PartInv
  <2>5. /\ x \in Requires(d)
        /\ Later(x, d) \/ \E i \in DOMAIN stack : stack[i].name = d /\ stack[i].stage = "compile"
    BY DEF LooksInv, PartInv
  <2>6. CASE Later(x, d)
    BY <2>5, <2>6
  <2>7. CASE \E i \in DOMAIN stack : stack[i].name = d /\ stack[i].stage = "compile"
    <3>1. PICK j \in DOMAIN stack : stack[j].name = d /\ stack[j].stage = "compile"
      BY <2>7
    <3>2. PICK i \in DOMAIN stack' :
            stack'[i].name = stack[j].name /\ stack'[i].stage = stack[j].stage
      BY <2>2
    <3> QED
      BY <2>5, <3>1, <3>2
  <2> QED
    BY <2>5, <2>6, <2>7
<1>12. GivesInv(brings)'
  <2> SUFFICES ASSUME NEW i \in DOMAIN stack', stack'[i].stage = "write",
                      TwoPhase(stack'[i].name),
                      Careful(brings[host], Defs[host], stack'[i].name),
                      NEW o, InSeq(o, stack'[i].ops), o.kind = "give"
               PROVE  Later(stack'[i].name, o.compt)
    BY SameTerms DEF GivesInv
  <2>1. i # 1
    BY <1>1, <1>5
  <2>2. i - 1 \in DOMAIN stack /\ InSeq(o, stack[i - 1].ops)
    BY <1>6, <2>1
  <2> QED
    BY <1>6, <2>1, <2>2 DEF LooksInv, GivesInv
<1>13. WrittenInv'
  BY <1>1, <1>5, <1>6, SameTerms DEF LooksInv, WrittenInv
<1> QED
  BY <1>9, <1>10, <1>11, <1>12, <1>13 DEF LooksInv

LEMMA RequireLooks ==
  ASSUME QuietWrites, NEW CONSTANT rank, Ranked(rank), DepsInv(rank), AnswersInv, IInv,
         NEW CONSTANT brings, LooksInv(brings), Require \/ BuildInstance
  PROVE  LooksInv(brings)'
<1>1. CASE Fail
  BY <1>1, SameLooks DEF Fail
<1>2. CASE ~Fail
  <2>1. PICK kind \in {"require", "instance"} : Building(kind)
    BY DEF Require, BuildInstance
  <2>2. /\ BuildComponent(op.compt, Rest)
        /\ UNCHANGED <<host, required, written, scripts, todo>>
    BY <1>2 DEF Require, BuildInstance
  <2>3. op \in ReqOps /\ op.compt \in Names
    BY <2>1, BuildingOp DEF IInv, ReqOps, Op
  <2>4. Advanced(Rest, stack)
    BY <2>1, RestAdvances DEF IInv
  <2>5. CASE op.compt \in components
    <3>1. stack' = Rest /\ UNCHANGED components
      BY <2>2, <2>5 DEF BuildComponent
    <3>2. Advanced(stack', stack)
      BY <2>4, <3>1
    <3> QED
      BY <2>2, <2>5, <3>1, <3>2, AdvanceLooks
  <2>6. CASE op.compt \notin components
    <3> DEFINE c == op.compt
    <3>1. /\ stack' = <<NewFrame(c, "compile", Configured(c).compile)>> \o Rest
          /\ components' = components \cup {c}
      BY <2>2, <2>6 DEF BuildComponent
    <3>2. /\ 1 \in DOMAIN stack /\ DOMAIN Rest = DOMAIN stack /\ InSeq(op, stack[1].ops)
          /\ \A i \in DOMAIN Rest : \A o : InSeq(o, Rest[i].ops) => InSeq(o, stack[i].ops)
      BY <2>4, AdvancedOps DEF IInv
    <3>3. \A i \in DOMAIN Rest :
            Foreseen(Defs[host], brings[host], Listed, Rest[i],
                     With(brings[host], IF i = 1 THEN c ELSE Rest[i - 1].name))
      <4>1. With(brings[host], c) \subseteq Listed \cup With(brings[host], c)
        OBVIOUS
      <4> QED
        BY <2>4, <4>1, AdvanceForeseen DEF LooksInv
    <3> DEFINE e == stack[1].name
    <3>4. e \in Names /\ host \in Hosts /\ stack[1].stage \in Stages
      BY <3>2, FrameFields DEF IInv, TypeOK
    <3>5. /\ Configured(e).compile \in Seq(Op) /\ Configured(e).write \in Seq(Op)
      BY <3>4, ConfiguredType DEF IInv
    <3>6. c \in Needs(Configured(e).compile) \cup Needs(Configured(e).write)
      <4>1. InSeq(op, Configured(e).compile) \/ InSeq(op, Configured(e).write)
        BY <3>2 DEF DepsInv, CallsInv
      <4> QED
        BY <2>3, <3>5, <4>1, NeedsOps
    <3>7. ASSUME NEW d \in Names, TwoPhase(d), PartOf(Defs[host], c, d)
          PROVE  /\ c \in Requires(d)
                 /\ \E i \in DOMAIN stack : stack[i].name = d /\ stack[i].stage = "compile"
      <4>1. e = d
        BY <3>4, <3>6, <3>7 DEF PartOf, Configured
      <4>2. Needs(Configured(d).write) = {}
        BY <3>4, <3>7 DEF QuietWrites, TwoPhase, Configured
      <4>3. c \in Needs(Configured(d).compile)
        BY <3>6, <4>1, <4>2
      <4>4. c \in Requires(d)
        <5>1. PICK o \in ReqOps : o.compt = c /\ InSeq(o, Configured(d).compile)
          BY <3>5, <4>1, <4>3, NeedsOps
        <5> QED
          BY <5>1, RequiresOps
      <4>5. phase = "require"
        BY <2>1, RequiresEarly
      <4>6. stack[1].stage = "compile"
        BY <3>2, <3>4, <3>7, <4>1, <4>5 DEF AnswersInv, PhasesInv, Stages
      <4> QED
        BY <3>2, <4>1, <4>4, <4>6
    <3>8. ListedBefore(brings[host], Defs[host], c) = {}
      BY <3>4, <3>6 DEF ListedBefore, Configured
    <3>9. SameCalls(Rest, stack) /\ RootsInv(brings)'
      <4>1. /\ SameCalls(Rest, stack) /\ Len(stack) \in Nat /\ DOMAIN stack = 1..Len(stack)
            /\ stack # <<>>
        BY <2>1, <2>4 DEF Advanced, IInv, TypeOK, Building
      <4>2. NewFrame(c, "compile", Configured(c).compile) \in Frame
        BY <2>3, ConfiguredType DEF NewFrame, Frame, Stages, IInv
      <4>3. /\ Len(stack') = Len(stack) + 1 /\ stack'[Len(stack) + 1] = Rest[Len(stack)]
        <5>1. Rest \in Seq(Frame) /\ Len(Rest) = Len(stack)
          BY <4>1 DEF SameCalls, IInv, TypeOK
        <5>2. /\ Len(stack') = Len(stack) + 1
              /\ \A i \in 2..(Len(stack) + 1) : stack'[i] = Rest[i - 1]
          BY <3>1, <4>2, <5>1, PushView
        <5>3. Len(stack) > 0 /\ Len(stack) + 1 \in 2..(Len(stack) + 1)
              /\ Len(stack) + 1 - 1 = Len(stack)
          BY <4>1
        <5> QED
          BY <5>2, <5>3
      <4>4. stack' # <<>> /\ Len(stack) \in DOMAIN stack
        BY <4>1, <4>3
      <4>5. Rest[Len(stack)].name = stack[Len(stack)].name
        BY <4>1, <4>4 DEF SameCalls
      <4>6. Bottom(brings)' = Bottom(brings) /\ Listed' = Listed
        BY <2>2, <4>1, <4>3, <4>4, <4>5, SameBottom DEF Listed
      <4> QED
        BY <2>2, <4>1, <4>6, SameRoots DEF LooksInv
    <3> HIDE DEF c
    <3>10. c \in Names
      BY <2>3 DEF c
    <3> QED
      BY <2>2, <3>1, <3>2, <3>3, <3>7, <3>8, <3>9, <3>10, PushLooks
  <2> QED
    BY <2>5, <2>6
<1> QED
  BY <1>1, <1>2

LEMMA RequireRootLooks ==
  ASSUME IInv, NEW CONSTANT brings, LooksInv(brings), RequireRoot
  PROVE  LooksInv(brings)'
<1> DEFINE c == Head(todo)  roots == Defs[host].roots  n == Len(roots) - Len(todo)
<1>1. /\ c \in Names /\ stack = <<>> /\ BuildComponent(c, <<>>) /\ todo # <<>>
      /\ todo' = Tail(todo) /\ UNCHANGED <<host, required, written, scripts>>
  BY TailView DEF RequireRoot, IInv, TypeOK
<1>2. /\ Len(todo) \in Nat /\ Len(todo) > 0 /\ DOMAIN todo = 1..Len(todo) /\ c = todo[1]
      /\ Len(todo') = Len(todo) - 1 /\ DOMAIN todo' = 1..(Len(todo) - 1)
      /\ \A i \in 1..(Len(todo) - 1) : todo'[i] = todo[i + 1]
  BY <1>1, TailView DEF IInv, TypeOK
<1>3. Len(roots) \in Nat /\ DOMAIN roots = 1..Len(roots) /\ roots \in Seq(Names)
  <2>1. Defs[host] \in Def
    BY BuildAssumption DEF IInv, TypeOK
  <2> QED
    BY <2>1 DEF Def
<1>4. /\ n \in Nat /\ \A i \in DOMAIN todo : todo[i] = roots[n + i]
      /\ \A j \in DOMAIN roots : j <= n => With(brings[host], roots[j]) \subseteq Listed
  BY <1>1, <1>2, <1>3 DEF LooksInv, RootsInv, Bottom
<1>5. n + 1 \in DOMAIN roots /\ roots[n + 1] = c
  BY <1>2, <1>3, <1>4
<1>6. ListedBefore(brings[host], Defs[host], c) \subseteq Listed
  <2> SUFFICES ASSUME NEW d \in ListedBefore(brings[host], Defs[host], c) PROVE d \in Listed
    OBVIOUS
  <2>1. PICK j \in DOMAIN roots : j < n + 1 /\ d \in With(brings[host], roots[j])
    BY <1>5 DEF ListedBefore
  <2>2. j <= n
    BY <1>3, <1>4, <2>1
  <2> QED
    BY <1>4, <2>1, <2>2
<1>7. Listed' = Listed
  BY <1>1 DEF Listed
<1>8. ASSUME With(brings[host], c) \subseteq Listed \cup Bottom(brings)'
      PROVE  RootsInv(brings)'
  <2>1. Len(roots) - Len(todo') = n + 1 /\ n + 1 >= 0
    BY <1>2, <1>3, <1>4
  <2>2. ASSUME NEW i \in DOMAIN todo' PROVE todo'[i] = roots[n + 1 + i]
    <3>1. i + 1 \in DOMAIN todo /\ todo'[i] = todo[i + 1] /\ i \in Nat
      BY <1>2, <2>2
    <3>2. n + (i + 1) = n + 1 + i
      BY <1>2, <1>3, <3>1
    <3> QED
      BY <1>4, <3>1, <3>2
  <2>3. ASSUME NEW j \in DOMAIN roots, j <= n + 1
        PROVE  With(brings[host], roots[j]) \subseteq Listed \cup Bottom(brings)'
    <3>1. j <= n \/ j = n + 1
      BY <1>3, <1>4, <2>3
    <3> QED
      BY <1>4, <1>5, <1>8, <3>1
  <2> HIDE DEF n
  <2>4. roots' = roots
    BY <1>1
  <2> HIDE DEF roots
  <2> QED
    BY <1>1, <1>7, <2>1, <2>2, <2>3, <2>4 DEF RootsInv, roots
<1> HIDE DEF c, roots, n
<1>9. CASE c \in components
  <2>1. UNCHANGED <<stack, components>>
    BY <1>1, <1>9 DEF BuildComponent
  <2>2. ForeseenInv(brings)' /\ BroughtInv(brings)'
    BY <1>1, <1>7, <2>1 DEF LooksInv, ForeseenInv, BroughtInv
  <2>3. GivesInv(brings)' /\ PartInv' /\ WrittenInv'
    BY <1>1, <2>1, SameTerms DEF LooksInv, GivesInv, PartInv, WrittenInv, Requires, Configured
  <2>4. With(brings[host], c) \subseteq Listed
    <3>1. InSeq(c, required)
      BY <1>1, <1>9 DEF IInv, QueueInv, OnStack
    <3> QED
      BY <3>1, ListedIn DEF LooksInv, BroughtInv, With
  <2> QED
    BY <1>8, <2>2, <2>3, <2>4 DEF LooksInv
<1>10. CASE c \notin components
  <2>1. /\ stack' = <<NewFrame(c, "compile", Configured(c).compile)>> \o <<>>
        /\ components' = components \cup {c}
    BY <1>1, <1>10 DEF BuildComponent
  <2>2. SameCalls(<<>>, stack)
    BY <1>1 DEF SameCalls
  <2>3. \A d : ~PartOf(Defs[host], c, d)
    <3>1. InSeq(c, Defs[host].roots)
      BY <1>5 DEF InSeq, roots
    <3> QED
      BY <3>1 DEF PartOf
  <2>4. Bottom(brings)' = With(brings[host], c)
    <3>1. NewFrame(c, "compile", Configured(c).compile).name = c
      BY DEF NewFrame
    <3> HIDE DEF NewFrame
    <3>2. Len(stack') = 1 /\ stack'[1].name = c /\ stack' # <<>>
      BY <2>1, <3>1
    <3> QED
      BY <1>1, <3>2 DEF Bottom
  <2> QED
    BY <1>1, <1>6, <1>8, <2>1, <2>2, <2>3, <2>4, PushLooks
<1> QED
  BY <1>9, <1>10

\* What comes with a component's requires is listed when these are.
LEMMA ComesListed ==
  ASSUME IInv, NEW CONSTANT brings, BroughtInv(brings), NEW c \in Names,
         \A d \in Requires(c) \ {c} : InSeq(d, required)
  PROVE  ComesWith(brings[host], Defs[host].compt, c) \subseteq Listed
<1>1. Configured(c).compile \in Seq(Op)
  BY ConfiguredType DEF IInv
<1>2. \A d \in Needs(Configured(c).compile) : d \in Requires(c)
  BY <1>1, NeedsOps, RequiresOps
<1>3. \A d \in Needs(Configured(c).compile) \ {c} : With(brings[host], d) \subseteq Listed
  BY <1>2, ListedIn DEF BroughtInv, With
<1> QED
  BY <1>3 DEF ComesWith, Comes, Needs, Configured

\* The innermost call returns, and its component is listed.
LEMMA ReturnLooks ==
  ASSUME NEW CONSTANT rank, Ranked(rank), DepsInv(rank), IInv, NEW stage, AtEnd(stage),
         NEW CONSTANT brings, Brought(brings), LooksInv(brings),
         stack' = Tail(stack), UNCHANGED <<host, components, todo>>,
         \/ required' = Append(required, stack[1].name)
         \/ required' = required /\ InSeq(stack[1].name, required),
         WrittenInv'
  PROVE  LooksInv(brings)'
<1> DEFINE c == stack[1].name
<1>1. \A i \in DOMAIN stack' : i + 1 \in DOMAIN stack /\ stack'[i] = stack[i + 1] /\ i \in Int
  BY ReturnFacts
<1>2. 1 \in DOMAIN stack /\ c \in Names /\ host \in Hosts
  BY EndFacts DEF IInv, TypeOK
<1>3. \A d : d \in Listed' <=> d \in Listed \/ d = c
  <2>1. \A d : InSeq(d, required') <=> InSeq(d, required) \/ d = c
    BY EndListed, AppendListed DEF DepsInv
  <2> QED
    BY <2>1, ListedIn DEF Listed, InSeq
<1>4. \A d \in Requires(c) \ {c} : InSeq(d, required)
  BY EndListed DEF DepsInv
<1>5. BroughtInv(brings)'
  <2>1. ComesWith(brings[host], Defs[host].compt, c) \subseteq Listed
    BY <1>2, <1>4, ComesListed DEF LooksInv
  <2>2. brings[host][c] \subseteq Listed
    BY <1>2, <2>1 DEF Brought
  <2> QED
    BY <1>3, <2>2 DEF LooksInv, BroughtInv
<1>6. ForeseenInv(brings)'
  <2> SUFFICES ASSUME NEW i \in DOMAIN stack'
               PROVE  Foreseen(Defs[host], brings[host], Listed', stack'[i], Above(brings, i)')
    BY DEF ForeseenInv
  <2>1. i + 1 \in DOMAIN stack /\ stack'[i] = stack[i + 1] /\ i \in Int /\ i + 1 - 1 = i
        /\ i + 1 # 1 /\ DOMAIN stack' = 1..Len(stack') /\ i > 0
    BY <1>1, ReturnFacts
  <2>2. Foreseen(Defs[host], brings[host], Listed, stack'[i], With(brings[host], stack[i].name))
    <3>1. Above(brings, i + 1) = With(brings[host], stack[i].name)
      BY <2>1 DEF Above
    <3> QED
      BY <2>1, <3>1 DEF LooksInv, ForeseenInv
  <2>3. CASE i = 1
    <3>1. With(brings[host], c) \subseteq Listed' \cup {}
      BY <1>3, <1>5 DEF BroughtInv, With
    <3>2. Above(brings, i)' = {}
      BY <2>3 DEF Above
    <3> QED
      BY <1>3, <2>2, <2>3, <3>1, <3>2, StillForeseen
  <2>4. CASE i # 1
    <3>1. i - 1 \in DOMAIN stack' /\ (i - 1) + 1 = i
      BY <2>1, <2>4
    <3>2. stack'[i - 1] = stack[i]
      BY <1>1, <3>1
    <3>3. Above(brings, i)' = With(brings[host], stack[i].name)
      BY <2>4, <3>2 DEF Above
    <3> QED
      BY <1>3, <2>2, <3>3, StillForeseen
  <2> QED
    BY <2>3, <2>4
<1>7. \A d, e : Later(d, e) => Later(d, e)'
  BY LaterAppend, SameTerms
<1>8. \A e : /\ Configured(e)' = Configured(e) /\ Requires(e)' = Requires(e)
             /\ (TwoPhase(e)' <=> TwoPhase(e))
  BY DEF Configured, Requires, TwoPhase
<1>9. PartInv'
  <2> SUFFICES ASSUME NEW x \in components, NEW d \in Names, TwoPhase(d),
                      PartOf(Defs[host], x, d)
               PROVE  /\ x \in Requires(d)
                      /\ \/ Later(x, d)'
                         \/ \E i \in DOMAIN stack' :
                              stack'[i].name = d /\ stack'[i].stage = "compile"
    BY <1>8 DEF PartInv
  <2>1. /\ x \in Requires(d)
        /\ Later(x, d) \/ \E i \in DOMAIN stack : stack[i].name = d /\ stack[i].stage = "compile"
    BY DEF LooksInv, PartInv
  <2>2. ASSUME NEW j \in DOMAIN stack, stack[j].name = d, stack[j].stage = "compile", j = 1
        PROVE  Later(x, d)'
    <3>1. ~InSeq(c, required)
      BY <1>2, <2>2 DEF IInv, StackInv
    <3>2. InSeq(x, required)
      BY <1>4, <2>1, <2>2 DEF PartOf
    <3> QED
      BY <2>2, <3>1, <3>2, LaterAppend
  <2>3. ASSUME NEW j \in DOMAIN stack, j # 1
        PROVE  \E i \in DOMAIN stack' : stack'[i] = stack[j]
    <3>1. /\ DOMAIN stack = 1..Len(stack) /\ Len(stack) \in Nat /\ stack # <<>>
          /\ DOMAIN stack' = 1..(Len(stack) - 1)
      BY EndFacts, TailView DEF IInv, TypeOK, AtEnd
    <3>2. j - 1 \in DOMAIN stack' /\ (j - 1) + 1 = j
      BY <2>3, <3>1
    <3> QED
      BY <1>1, <3>2
  <2> QED
    BY <1>7, <2>1, <2>2, <2>3
<1>10. GivesInv(brings)'
  <2> SUFFICES ASSUME NEW i \in DOMAIN stack', stack'[i].stage = "write",
                      TwoPhase(stack'[i].name),
                      Careful(brings[host], Defs[host], stack'[i].name),
                      NEW o, InSeq(o, stack'[i].ops), o.kind = "give"
               PROVE  \E p, q \in DOMAIN required' :
                        p < q /\ required'[p] = stack'[i].name /\ required'[q] = o.compt
    BY <1>8 DEF GivesInv, Later
  <2>1. Later(stack'[i].name, o.compt)
    BY <1>1 DEF LooksInv, GivesInv
  <2>2. \A d, e : Later(d, e) => \E p, q \in DOMAIN required' :
                                   p < q /\ required'[p] = d /\ required'[q] = e
    BY <1>7 DEF Later
  <2> QED
    BY <2>1, <2>2
<1>11. RootsInv(brings)'
  <2>1. /\ Len(stack) \in Nat /\ DOMAIN stack = 1..Len(stack) /\ stack # <<>>
        /\ Len(stack') = Len(stack) - 1 /\ DOMAIN stack' = 1..(Len(stack) - 1)
    BY EndFacts, TailView DEF IInv, TypeOK, AtEnd
  <2>2. CASE Len(stack) = 1
    <3>1. Bottom(brings) = With(brings[host], c)
      BY <2>1, <2>2 DEF Bottom
    <3>2. With(brings[host], c) \subseteq Listed'
      BY <1>3, <1>5 DEF BroughtInv, With
    <3> QED
      BY <1>3, <3>1, <3>2, SameRoots DEF LooksInv
  <2>3. CASE Len(stack) # 1
    <3>1. Len(stack') \in DOMAIN stack' /\ Len(stack') + 1 = Len(stack) /\ stack' # <<>>
      <4>1. Len(stack) > 0
        BY <2>1
      <4>2. Len(stack') > 0 /\ Len(stack') \in Nat /\ Len(stack') + 1 = Len(stack)
        BY <2>1, <2>3, <4>1
      <4>3. \A t : Len(t) > 0 => t # <<>>
        OBVIOUS
      <4>4. Len(stack') \in 1..(Len(stack) - 1)
        BY <2>1, <4>2
      <4> QED
        BY <4>2, <4>3, <4>4, <2>1
    <3>2. stack'[Len(stack')] = stack[Len(stack)]
      BY <1>1, <3>1
    <3>3. Bottom(brings)' = Bottom(brings)
      BY <2>1, <3>1, <3>2, SameBottom
    <3> QED
      BY <1>3, <3>3, SameRoots DEF LooksInv
  <2> QED
    BY <2>2, <2>3
<1> QED
  BY <1>5, <1>6, <1>9, <1>10, <1>11 DEF LooksInv

LEMMA QueueLooks ==
  ASSUME NEW CONSTANT rank, Ranked(rank), DepsInv(rank), IInv,
         NEW CONSTANT brings, Brought(brings), LooksInv(brings), Queue
  PROVE  LooksInv(brings)'
<1>1. /\ AtEnd("compile") /\ stack' = Tail(stack) /\ UNCHANGED <<host, components, todo>>
      /\ required' = Append(required, stack[1].name) /\ UNCHANGED <<written, scripts>>
  BY EndFacts DEF Queue, IInv
<1>2. \A i \in DOMAIN stack' : i + 1 \in DOMAIN stack /\ stack'[i] = stack[i + 1]
  BY <1>1, ReturnFacts
<1>3. \A e : TwoPhase(e)' <=> TwoPhase(e)
  BY <1>1 DEF TwoPhase, Configured
<1>4. WrittenInv'
  BY <1>1, <1>2, <1>3 DEF LooksInv, WrittenInv
<1> QED
  BY <1>1, <1>4, ReturnLooks

LEMMA EndWriteLooks ==
  ASSUME NEW CONSTANT rank, Ranked(rank), DepsInv(rank), IInv,
         NEW CONSTANT brings, Brought(brings), LooksInv(brings), EndWrite
  PROVE  LooksInv(brings)'
<1> DEFINE c == stack[1].name
<1>1. /\ 1 \in DOMAIN stack /\ Head(stack) = stack[1] /\ stack[1].stage = "write"
      /\ AtEnd("write")
  BY EndFacts DEF EndWrite, IInv
<1>2. /\ stack' = Tail(stack) /\ UNCHANGED <<host, components, todo, written>>
      /\ required' = IF Configured(c).onePhase THEN Append(required, c) ELSE required
      /\ \A s \in scripts' : s \in scripts \/ s.name = c
  BY <1>1 DEF EndWrite
<1>3. ~Configured(c).onePhase => InSeq(c, required)
  BY <1>1 DEF IInv, StackInv
<1>4. \A i \in DOMAIN stack' : i + 1 \in DOMAIN stack /\ stack'[i] = stack[i + 1]
  BY <1>1, <1>2, ReturnFacts
<1>5. \A e : TwoPhase(e)' <=> TwoPhase(e)
  BY <1>2 DEF TwoPhase, Configured
<1>6. TwoPhase(c) => c \in written
  BY <1>1 DEF LooksInv, WrittenInv
<1> HIDE DEF c
<1>7. WrittenInv'
  BY <1>2, <1>4, <1>5, <1>6 DEF LooksInv, WrittenInv
<1> QED
  BY <1>1, <1>2, <1>3, <1>7, ReturnLooks DEF c

LEMMA WriteNowLooks ==
  ASSUME NEW CONSTANT rank, Ranked(rank), DepsInv(rank), IInv,
         NEW CONSTANT brings, LooksInv(brings), WriteNow
  PROVE  LooksInv(brings)'
<1> DEFINE c == stack[1].name
           frame == [name |-> c, stage |-> "write", ops |-> Configured(c).write,
                     found |-> stack[1].found]
<1>1. /\ 1 \in DOMAIN stack /\ Head(stack) = stack[1] /\ stack[1] \in Frame /\ stack # <<>>
      /\ c \in Names
  BY EndFacts DEF WriteNow, IInv
<1>2. /\ ~TwoPhase(c) /\ stack' = <<frame>> \o Tail(stack) /\ AtEnd("compile")
      /\ UNCHANGED <<host, components, required, written, scripts, todo>>
  BY <1>1 DEF WriteNow, TwoPhase
<1>3. /\ frame \in Frame /\ frame.name = c /\ frame.stage = "write"
      /\ frame.ops = Defs[host].compt[c].write
  BY <1>1, ConfiguredType, FrameFields DEF Frame, Stages, IInv, Configured
<1>4. /\ Tail(stack) \in Seq(Frame) /\ Len(Tail(stack)) = Len(stack) - 1 /\ Len(stack) \in Nat
      /\ \A i \in 1..(Len(stack) - 1) : Tail(stack)[i] = stack[i + 1]
      /\ DOMAIN stack = 1..Len(stack)
  BY <1>1, TailView DEF IInv, TypeOK
<1> HIDE DEF frame
<1>5. /\ DOMAIN stack' = DOMAIN stack /\ stack'[1] = frame
      /\ \A i \in 2..Len(stack) : stack'[i] = Tail(stack)[i - 1]
  BY <1>2, <1>3, <1>4, PushView
<1>6. ASSUME NEW i \in DOMAIN stack, i # 1 PROVE stack'[i] = stack[i]
  <2>1. i \in 2..Len(stack) /\ i - 1 \in 1..(Len(stack) - 1) /\ (i - 1) + 1 = i
    BY <1>4, <1>6
  <2> QED
    BY <1>4, <1>5, <2>1
<1>7. \A i \in DOMAIN stack : stack'[i].name = stack[i].name
  BY <1>3, <1>5, <1>6
<1>8. Listed' = Listed
  BY <1>2 DEF Listed
<1>9. Foreseen(Defs[host], brings[host], Listed, frame, {})
  <2>1. \A d \in Requires(c) \ {c} : InSeq(d, required)
    BY <1>2, EndListed DEF DepsInv
  <2>2. ComesWith(brings[host], Defs[host].compt, c) \subseteq Listed
    BY <1>1, <2>1, ComesListed DEF LooksInv
  <2> QED
    BY <1>2, <1>3, <2>2, WriteForeseen DEF TwoPhase, Configured
<1>10. ForeseenInv(brings)'
  <2> SUFFICES ASSUME NEW i \in DOMAIN stack'
               PROVE  Foreseen(Defs[host], brings[host], Listed, stack'[i], Above(brings, i)')
    BY <1>2, <1>8 DEF ForeseenInv
  <2>1. CASE i = 1
    BY <1>5, <1>9, <2>1 DEF Above
  <2>2. CASE i # 1
    <3>1. i \in DOMAIN stack /\ i - 1 \in DOMAIN stack
      BY <1>4, <1>5, <2>2
    <3>2. Above(brings, i)' = Above(brings, i)
      BY <1>2, <1>7, <3>1 DEF Above
    <3> QED
      BY <1>6, <2>2, <3>1, <3>2 DEF LooksInv, ForeseenInv
  <2> QED
    BY <2>1, <2>2
<1>11. BroughtInv(brings)' /\ RootsInv(brings)'
  <2>1. Len(stack') = Len(stack) /\ Len(stack) \in DOMAIN stack /\ stack' # <<>>
    <3>1. DOMAIN stack' = 1..Len(stack')  /\ Len(stack') \in Nat
      <4>1. stack' \in Seq(Frame)
        BY <1>2, <1>3, <1>4, PushView
      <4> QED
        BY <4>1
    <3> QED
      BY <1>1, <1>4, <1>5, <3>1
  <2>2. Bottom(brings)' = Bottom(brings)
    BY <1>1, <1>2, <1>7, <2>1, SameBottom
  <2> QED
    BY <1>2, <1>8, <2>2, SameRoots DEF LooksInv, BroughtInv
<1>12. PartInv'
  <2>1. \A j \in DOMAIN stack : TwoPhase(stack[j].name) => stack'[j] = stack[j]
    BY <1>2, <1>6
  <2>2. \A e : Requires(e)' = Requires(e) /\ (TwoPhase(e)' <=> TwoPhase(e))
    BY <1>2 DEF Requires, Configured, TwoPhase
  <2>3. \A x, d : Later(x, d)' <=> Later(x, d)
    BY <1>2, SameTerms
  <2> SUFFICES ASSUME NEW x \in components, NEW d \in Names, TwoPhase(d),
                      PartOf(Defs[host], x, d)
               PROVE  /\ x \in Requires(d)
                      /\ \/ Later(x, d)
                         \/ \E i \in DOMAIN stack' :
                              stack'[i].name = d /\ stack'[i].stage = "compile"
    BY <1>2, <2>2, <2>3 DEF PartInv
  <2>4. /\ x \in Requires(d)
        /\ Later(x, d) \/ \E i \in DOMAIN stack : stack[i].name = d /\ stack[i].stage = "compile"
    BY DEF LooksInv, PartInv
  <2> QED
    BY <1>5, <2>1, <2>4
<1>13. GivesInv(brings)' /\ WrittenInv'
  <2>1. \A j \in DOMAIN stack' : TwoPhase(stack'[j].name) => j \in DOMAIN stack /\ stack'[j] = stack[j]
    BY <1>2, <1>5, <1>6, <1>7
  <2> QED
    BY <1>2, <2>1, SameTerms DEF LooksInv, GivesInv, WrittenInv
<1> QED
  BY <1>10, <1>11, <1>12, <1>13 DEF LooksInv

LEMMA WriteNextLooks ==
  ASSUME NEW CONSTANT rank, Ranked(rank), DepsInv(rank), IInv,
         NEW CONSTANT brings, LooksInv(brings), WriteNext
  PROVE  LooksInv(brings)'
<1> DEFINE c == Head(queue)  frame == NewFrame(c, "write", Configured(c).write)
<1>1. /\ stack = <<>> /\ stack' = <<frame>> /\ queue # <<>> /\ written' = written \cup {c}
      /\ UNCHANGED <<host, components, required, scripts, todo>>
  BY DEF WriteNext
<1>2. /\ frame.name = c /\ frame.stage = "write" /\ frame.ops = Configured(c).write
  BY DEF NewFrame
<1> HIDE DEF frame
<1>3. c = queue[1] /\ 1 \in DOMAIN queue
  BY <1>1, TailView DEF IInv, TypeOK
<1> HIDE DEF c
<1>4. TwoPhase(c) /\ InSeq(c, required) /\ c \in components /\ c \in Names
  BY <1>3 DEF TwoPhase, IInv, QueueInv, TypeOK
<1>5. DOMAIN stack' = {1} /\ stack'[1] = frame
  BY <1>1
<1>6. Listed' = Listed
  BY <1>1 DEF Listed
<1>7. \A d : d \in Names /\ TwoPhase(d) /\ PartOf(Defs[host], c, d) => Later(c, d)
  BY <1>1, <1>4 DEF LooksInv, PartInv
<1>8. ASSUME NEW p \in DOMAIN frame.ops, frame.ops[p].kind = "give"
      PROVE  frame.ops[p].compt \in Names
  <2>1. frame.ops[p] \in Op
    BY <1>2, <1>4, <1>8, ConfiguredType DEF IInv
  <2> QED
    BY <1>8, <2>1, OpFields
<1>9. Foreseen(Defs[host], brings[host], Listed, frame, {})
  <2>1. \A d \in Requires(c) \ {c} : InSeq(d, required)
    BY <1>4 DEF DepsInv, ListedInv, InSeq
  <2>2. ComesWith(brings[host], Defs[host].compt, c) \subseteq Listed
    BY <1>4, <2>1, ComesListed DEF LooksInv
  <2>3. ASSUME NEW p \in DOMAIN frame.ops, frame.ops[p].kind = "give",
               ~Defs[host].compt[frame.ops[p].compt].onePhase,
               PartOf(Defs[host], c, frame.ops[p].compt)
        PROVE  frame.ops[p].compt \in Listed
    <3>1. Later(c, frame.ops[p].compt)
      BY <1>7, <1>8, <2>3 DEF TwoPhase, Configured
    <3> QED
      BY <3>1, LaterListed, ListedIn
  <2>4. frame.ops = Defs[host].compt[frame.name].write
    BY <1>2 DEF Configured
  <2> QED
    BY <1>2, <2>2, <2>3, <2>4, WriteForeseen
<1>10. ForeseenInv(brings)'
  BY <1>1, <1>5, <1>6, <1>9 DEF ForeseenInv, Above
<1>11. BroughtInv(brings)' /\ RootsInv(brings)'
  <2>1. Bottom(brings) = {}
    BY <1>1 DEF Bottom
  <2> QED
    BY <1>1, <1>6, <2>1, SameRoots DEF LooksInv, BroughtInv
<1>12. PartInv'
  <2>1. \A e : Requires(e)' = Requires(e)
    BY <1>1 DEF Requires, Configured
  <2> QED
    BY <1>1, <2>1, SameTerms DEF LooksInv, PartInv
<1>13. GivesInv(brings)'
  <2> SUFFICES ASSUME Careful(brings[host], Defs[host], c),
                      NEW o, InSeq(o, frame.ops), o.kind = "give"
               PROVE  Later(c, o.compt)
    BY <1>1, <1>2, <1>5, SameTerms DEF GivesInv
  <2>1. PICK p \in DOMAIN frame.ops : frame.ops[p] = o
    BY DEF InSeq
  <2>2. p \in DOMAIN Defs[host].compt[c].write /\ Defs[host].compt[c].write[p] = o
    BY <1>2, <2>1 DEF Configured
  <2>3. ~Defs[host].compt[o.compt].onePhase /\ PartOf(Defs[host], c, o.compt)
    BY <1>4, <2>2 DEF Careful, Searches, TwoPhase, Configured
  <2>4. o.compt \in Names
    BY <1>8, <2>1
  <2> QED
    BY <1>7, <2>3, <2>4 DEF TwoPhase, Configured
<1>14. WrittenInv'
  BY <1>1, <1>2, <1>5, SameTerms DEF LooksInv, WrittenInv
<1> QED
  BY <1>10, <1>11, <1>12, <1>13, <1>14 DEF LooksInv

\* Operations that require nothing.
LEMMA OtherLooks ==
  ASSUME NEW CONSTANT rank, Ranked(rank), DepsInv(rank), IInv,
         NEW CONSTANT brings, LooksInv(brings),
         LookComponent \/ HasComponent \/ GetComponent \/ AppendRootBash \/ InstallFile
           \/ InstallGiven \/ AssertHost
  PROVE  LooksInv(brings)'
<1>1. CASE UNCHANGED <<host, stack, components, required, written, scripts, todo>>
  BY <1>1, SameLooks
<1>2. ASSUME NEW kind, Building(kind), kind \notin {"require", "instance"},
             UNCHANGED <<host, components, required, written, scripts, todo>>,
             Advanced(stack', stack)
      PROVE  LooksInv(brings)'
  <2>1. op \notin ReqOps
    BY <1>2, BuildingOp DEF ReqOps, IInv
  <2> QED
    BY <1>2, <2>1, AdvanceLooks
<1>3. CASE HasComponent
  <2>1. Head(stack).found \cup {c \in {op.compt} : InSeq(c, queue)} \in SUBSET Names
    BY <1>3, BuildingOp, OpFields, FrameFields DEF HasComponent, IInv
  <2>2. Advanced(stack', stack)
    BY <1>3, <2>1, PastAdvances DEF HasComponent, Building, IInv
  <2> QED
    BY <1>2, <1>3, <2>2 DEF HasComponent
<1>4. CASE LookComponent
  BY <1>1, <1>2, <1>4, RestAdvances DEF LookComponent, Fail, IInv
<1>5. CASE GetComponent
  BY <1>1, <1>2, <1>5, RestAdvances DEF GetComponent, Fail, IInv
<1>6. CASE AppendRootBash
  BY <1>2, <1>6, RestAdvances DEF AppendRootBash, IInv
<1>7. CASE InstallFile
  BY <1>1, <1>2, <1>7, RestAdvances DEF InstallFile, Fail, IInv
<1>8. CASE InstallGiven
  BY <1>2, <1>8, RestAdvances DEF InstallGiven, IInv
<1>9. CASE AssertHost
  BY <1>1, <1>2, <1>9, RestAdvances DEF AssertHost, Fail, IInv
<1> QED
  BY <1>3, <1>4, <1>5, <1>6, <1>7, <1>8, <1>9

LEMMA Looks ==
  ASSUME QuietWrites, NEW CONSTANT rank, Ranked(rank), NEW CONSTANT brings, Brought(brings)
  PROVE  Spec => []LooksInv(brings)
<1>1. Init => LooksInv(brings)
  <2> SUFFICES ASSUME Init PROVE LooksInv(brings)
    OBVIOUS
  <2>1. ForeseenInv(brings) /\ BroughtInv(brings) /\ GivesInv(brings) /\ PartInv /\ WrittenInv
    BY DEF Init, ForeseenInv, BroughtInv, GivesInv, PartInv, WrittenInv, Listed
  <2>2. RootsInv(brings)
    <3>1. Defs[host] \in Def /\ todo = Defs[host].roots
      BY BuildAssumption DEF Init
    <3>2. todo \in Seq(Names)
      BY <3>1 DEF Def
    <3>3. Len(todo) \in Nat /\ Len(todo) - Len(todo) = 0 /\ DOMAIN todo = 1..Len(todo)
      BY <3>2
    <3> QED
      BY <3>1, <3>3 DEF RootsInv
  <2> QED
    BY <2>1, <2>2 DEF LooksInv
<1>2. IInv /\ DepsInv(rank) /\ AnswersInv /\ LooksInv(brings) /\ [Next]_vars => LooksInv(brings)'
  <2> SUFFICES ASSUME IInv, DepsInv(rank), AnswersInv, LooksInv(brings), [Next]_vars
               PROVE  LooksInv(brings)'
    OBVIOUS
  <2>1. CASE StartWrites \/ WriteRoot \/ UNCHANGED vars
    BY <2>1, SameLooks DEF StartWrites, WriteRoot, vars
  <2> QED
    BY <2>1, OtherLooks, RequireLooks, RequireRootLooks, QueueLooks, EndWriteLooks,
       WriteNowLooks, WriteNextLooks DEF Next, Ended
<1> QED
  BY <1>1, <1>2, Invariant, Dependencies, Answers, PTL DEF Spec

\* get_component (pkcli/build.py) fails neither with "component not in
\* write_queue" nor with "component not found" for a component that is Careful,
\* in whatever order the database lists the components and however their calls
\* are nested: brings has, for each component, what is listed when it is.
THEOREM LookupsFind ==
  ASSUME QuietWrites, NEW CONSTANT rank, Ranked(rank), NEW CONSTANT brings, Brought(brings)
  PROVE  Spec => []LookupsSucceed(brings)
<1>1. IInv /\ AnswersInv /\ LooksInv(brings) => LookupsSucceed(brings)
  <2> SUFFICES ASSUME IInv, AnswersInv, LooksInv(brings), stack # <<>>,
                      Careful(brings[host], Defs[host], Head(stack).name),
                      NEW kind \in {"give", "look"}, Building(kind)
               PROVE  InSeq(op.compt, queue) \/ (kind = "look" /\ op.compt \in written)
    <3>1. \A kind : Building(kind) => op.kind = kind
      BY DEF Building, op
    <3> QED
      BY <3>1 DEF LookupsSucceed
  <2> DEFINE d == op.compt
  <2>1. /\ 1 \in DOMAIN stack /\ Head(stack) = stack[1] /\ InSeq(op, stack[1].ops)
        /\ Head(stack[1].ops) = op
    BY RestAdvances, AdvancedOps DEF IInv
  <2>2. stack[1].ops \in Seq(Op) /\ stack[1].ops # <<>> /\ op.kind = kind
    BY <2>1, FrameFields DEF Building, op, IInv, TypeOK
  <2>3. 1 \in DOMAIN stack[1].ops /\ stack[1].ops[1] = op
    BY <2>1, <2>2
  <2>4. NeedsBefore(stack[1].ops, 1) = {}
    BY <2>2 DEF NeedsBefore
  <2>5. TwoPhase(d) /\ d \in Listed
    <3>1. Foreseen(Defs[host], brings[host], Listed, stack[1], {})
      BY <2>1 DEF LooksInv, ForeseenInv, Above
    <3>2. Comes(brings[host], stack[1].ops, stack[1].name, 1) = {}
      BY <2>4 DEF Comes
    <3> QED
      BY <2>1, <2>2, <2>3, <3>1, <3>2 DEF Foreseen, Searches, TwoPhase, Configured
  <2>6. InSeq(d, required)
    BY <2>5, ListedIn
  <2> HIDE DEF d
  <2>7. CASE phase = "require"
    <3>1. InSeq(d, queue)
      BY <2>5, <2>6, <2>7, ListedIsQueued DEF AnswersInv
    <3> QED
      BY <3>1 DEF d
  <2>8. CASE phase = "write" /\ kind = "give"
    <3>1. stack[1].stage = "write" /\ TwoPhase(stack[1].name)
      BY <2>1, <2>8 DEF AnswersInv, PhasesInv
    <3>2. Later(stack[1].name, d)
      BY <2>1, <2>2, <2>8, <3>1 DEF LooksInv, GivesInv, d
    <3>3. OnStack(stack[1].name)
      BY <2>1 DEF OnStack
    <3>4. InSeq(d, queue)
      BY <2>5, <3>1, <3>2, <3>3 DEF AnswersInv, WriteOrderInv
    <3> QED
      BY <3>4 DEF d
  <2>9. CASE phase = "write" /\ kind = "look"
    <3>1. HasScript(d) => d \in written
      BY <2>5 DEF HasScript, LooksInv, WrittenInv
    <3>2. OnStack(d) => d \in written
      BY <2>5, <2>9 DEF OnStack, LooksInv, WrittenInv, AnswersInv, PhasesInv
    <3>3. HasScript(d) \/ InSeq(d, queue) \/ OnStack(d)
      BY <2>6 DEF IInv, QueueInv, InSeq
    <3> QED
      BY <2>9, <3>1, <3>2, <3>3 DEF d
  <2> QED
    BY <2>7, <2>8, <2>9 DEF Building
<1> QED
  BY <1>1, Invariant, Answers, Looks, PTL
-----------------------------------------------------------------------------
(* Hosts of consistent components build                                    *)

\* How many lines of its stage a call is past
Passed(frame) == Len(OpsOf(Defs[host], frame.name, frame.stage)) - Len(frame.ops)

\* A call has yet to do the last lines of its stage.
LastOps(frame) ==
  /\ Passed(frame) >= 0
  /\ \A p \in DOMAIN frame.ops :
       frame.ops[p] = OpsOf(Defs[host], frame.name, frame.stage)[Passed(frame) + p]

\* Line p of c has been done.
Done(c, stage, p) ==
  /\ c \in components /\ ~(stage = "write" /\ InSeq(c, queue))
  /\ \A i \in DOMAIN stack : stack[i].name = c =>
       \/ stage = "compile" /\ stack[i].stage = "write"
       \/ stage = stack[i].stage /\ p <= Passed(stack[i])

\* A component that another makes is there only when that has made it.
MadeInv(names) ==
  \A c \in names[host], stage \in Stages : \A p \in DOMAIN OpsOf(Defs[host], c, stage) :
    LET o == OpsOf(Defs[host], c, stage)[p] IN
    o.kind = "instance" /\ o.compt \in components => Done(c, stage, p)

\* A file that is not shared is there only when its component has installed it.
InstalledInv(names) ==
  \A c \in names[host], stage \in Stages : \A p \in DOMAIN OpsOf(Defs[host], c, stage) :
    LET o == OpsOf(Defs[host], c, stage)[p] IN
    o.kind = "install" /\ ~o.ignoreExists /\ o.file \in tree => Done(c, stage, p)

\* Components are given what some component gives.
GivenInv(names) ==
  \A c \in Names : \A x \in given[c] :
    \E e \in names[host], t \in Stages : \E q \in DOMAIN OpsOf(Defs[host], e, t) :
      LET o == OpsOf(Defs[host], e, t)[q] IN o.kind = "give" /\ x \in o.items

OpsInv == \A i \in DOMAIN stack : LastOps(stack[i])

BuildsInv(names) ==
  /\ phase # "failed" /\ components \subseteq names[host]
  /\ \A c : InSeq(c, todo) => InSeq(c, Defs[host].roots)
  /\ OpsInv /\ MadeInv(names) /\ InstalledInv(names) /\ GivenInv(names)

LEMMA OpsOfType ==
  ASSUME IInv, NEW c \in Names, NEW stage
  PROVE  /\ OpsOf(Defs[host], c, stage) \in Seq(Op)
         /\ Len(OpsOf(Defs[host], c, stage)) \in Nat
         /\ DOMAIN OpsOf(Defs[host], c, stage) = 1..Len(OpsOf(Defs[host], c, stage))
<1>1. OpsOf(Defs[host], c, stage) \in Seq(Op)
  BY ConfiguredType DEF IInv, OpsOf, Configured
<1> QED
  BY <1>1

\* The innermost call is about to do the line after those it has passed.
LEMMA ThisLine ==
  ASSUME IInv, OpsInv, stack # <<>>, Head(stack).ops # <<>>
  PROVE  /\ 1 \in DOMAIN stack /\ stack[1].name \in Names /\ stack[1].name \in components
         /\ stack[1].stage \in Stages
         /\ Passed(stack[1]) + 1 \in DOMAIN OpsOf(Defs[host], stack[1].name, stack[1].stage)
         /\ OpsOf(Defs[host], stack[1].name, stack[1].stage)[Passed(stack[1]) + 1] = op
         /\ Passed(stack[1]) \in Nat
<1>1. /\ 1 \in DOMAIN stack /\ Head(stack) = stack[1] /\ stack[1] \in Frame
      /\ stack[1].name \in components
  BY TailView DEF IInv, TypeOK
<1>2. /\ stack[1].name \in Names /\ stack[1].stage \in Stages /\ stack[1].ops \in Seq(Op)
  BY <1>1, FrameFields
<1> DEFINE full == OpsOf(Defs[host], stack[1].name, stack[1].stage)
<1>3. full \in Seq(Op) /\ Len(full) \in Nat /\ DOMAIN full = 1..Len(full)
  BY <1>2, OpsOfType
<1>4. LastOps(stack[1])
  BY <1>1 DEF OpsInv
<1>5. /\ Len(stack[1].ops) \in Nat /\ Len(stack[1].ops) > 0 /\ 1 \in DOMAIN stack[1].ops
      /\ stack[1].ops[1] = op
  BY <1>1, <1>2 DEF op
<1>6. Passed(stack[1]) \in Nat /\ Passed(stack[1]) + 1 \in 1..Len(full)
  BY <1>3, <1>4, <1>5 DEF LastOps, Passed
<1>7. op = full[Passed(stack[1]) + 1]
  BY <1>4, <1>5 DEF LastOps
<1> QED
  BY <1>1, <1>2, <1>3, <1>6, <1>7

\* It has not been done.
LEMMA ThisIsNotDone ==
  ASSUME IInv, OpsInv, stack # <<>>, Head(stack).ops # <<>>
  PROVE  ~Done(stack[1].name, stack[1].stage, Passed(stack[1]) + 1)
<1>1. 1 \in DOMAIN stack /\ Passed(stack[1]) \in Nat
  BY ThisLine
<1> QED
  BY <1>1 DEF Done

\* Past its next line, the innermost call has the others to do.
LEMMA AdvanceOps ==
  ASSUME IInv, OpsInv, NEW s, Advanced(s, stack)
  PROVE  /\ \A i \in DOMAIN stack : LastOps(s[i])
         /\ \A i \in DOMAIN stack :
              Passed(s[i]) = IF i = 1 THEN Passed(stack[1]) + 1 ELSE Passed(stack[i])
<1>1. /\ DOMAIN s = DOMAIN stack /\ DOMAIN stack = 1..Len(stack) /\ 1 \in DOMAIN stack
      /\ Head(stack) = stack[1] /\ stack[1].ops # <<>> /\ s[1].ops = Tail(stack[1].ops)
      /\ s[1].name = stack[1].name /\ s[1].stage = stack[1].stage
  BY AdvancedOps DEF IInv, Advanced, SameCalls
<1>2. \A i \in DOMAIN stack : i # 1 => s[i] = stack[i]
  BY <1>1 DEF Advanced
<1>3. /\ stack[1].name \in Names /\ stack[1].ops \in Seq(Op) /\ LastOps(stack[1])
  <2>1. 1 \in DOMAIN stack
    BY <1>1
  <2>2. stack[1] \in Frame
    BY <2>1 DEF IInv, TypeOK
  <2>3. LastOps(stack[1])
    BY <2>1 DEF OpsInv
  <2> QED
    BY <2>2, <2>3, FrameFields
<1> DEFINE full == OpsOf(Defs[host], stack[1].name, stack[1].stage)  ops == stack[1].ops
<1>4. Len(full) \in Nat /\ OpsOf(Defs[host], s[1].name, s[1].stage) = full
  BY <1>1, <1>3, OpsOfType
<1>5. /\ Len(ops) \in Nat /\ DOMAIN ops = 1..Len(ops) /\ Len(Tail(ops)) = Len(ops) - 1
      /\ Tail(ops) \in Seq(Op) /\ \A i \in 1..(Len(ops) - 1) : Tail(ops)[i] = ops[i + 1]
  BY <1>1, <1>3, TailView
<1>6. DOMAIN Tail(ops) = 1..(Len(ops) - 1)
  BY <1>5
<1>7. /\ Passed(stack[1]) = Len(full) - Len(ops) /\ Passed(stack[1]) >= 0
      /\ \A p \in DOMAIN ops : ops[p] = full[Passed(stack[1]) + p]
      /\ Passed(s[1]) = Len(full) - Len(Tail(ops))
      /\ LastOps(s[1]) <=> /\ Passed(s[1]) >= 0
                           /\ \A p \in DOMAIN Tail(ops) : Tail(ops)[p] = full[Passed(s[1]) + p]
  BY <1>1, <1>3, <1>4 DEF Passed, LastOps
<1> HIDE DEF full, ops
<1>8. Passed(s[1]) = Passed(stack[1]) + 1 /\ Passed(stack[1]) \in Nat /\ Passed(s[1]) >= 0
  BY <1>4, <1>5, <1>7
<1>9. ASSUME NEW p \in DOMAIN Tail(ops) PROVE Tail(ops)[p] = full[Passed(s[1]) + p]
  <2>1. p \in 1..(Len(ops) - 1) /\ p + 1 \in DOMAIN ops
    BY <1>5, <1>6, <1>9
  <2>2. Passed(stack[1]) + (p + 1) = Passed(s[1]) + p
    BY <1>8, <2>1
  <2> QED
    BY <1>5, <1>7, <2>1, <2>2
<1>10. LastOps(s[1])
  BY <1>7, <1>8, <1>9
<1> QED
  BY <1>2, <1>8, <1>10 DEF OpsInv

\* What has been done stays done.
DoneStays == \A c : \A stage \in Stages, p \in Nat : Done(c, stage, p) => Done(c, stage, p)'

\* So it does if the calls go on, or are of a component that is new, or write one
\* that has compiled.
LEMMA StaysDone ==
  ASSUME IInv, components \subseteq components',
         \A c : InSeq(c, queue') => InSeq(c, queue) \/
           \E i \in DOMAIN stack : stack[i].name = c /\ stack[i].stage = "compile",
         \A i \in DOMAIN stack' :
           \/ stack'[i].name \notin components
           \/ stack'[i].stage = "write" /\ InSeq(stack'[i].name, queue)
           \/ \E j \in DOMAIN stack :
                /\ stack'[i].name = stack[j].name
                /\ \/ stack[j].stage = "compile" /\ stack'[i].stage = "write"
                   \/ /\ stack'[i].stage = stack[j].stage
                      /\ Passed(stack[i])' \in {Passed(stack[j]), Passed(stack[j]) + 1}
  PROVE  DoneStays
<1> SUFFICES ASSUME NEW c, NEW stage \in Stages, NEW p \in Nat, Done(c, stage, p)
             PROVE  Done(c, stage, p)'
  BY DEF DoneStays
<1>1. \A i \in DOMAIN stack : Passed(stack[i]) \in Int
  BY FrameFields, OpsOfType DEF Passed, IInv, TypeOK
<1>2. c \in components' /\ ~(stage = "write" /\ InSeq(c, queue'))
  BY DEF Done
<1>3. ASSUME NEW i \in DOMAIN stack', stack'[i].name = c
      PROVE  \/ stage = "compile" /\ stack'[i].stage = "write"
             \/ stage = stack'[i].stage /\ p <= Passed(stack[i])'
  <2>1. c \in components /\ ~(stage = "write" /\ InSeq(c, queue))
    BY DEF Done
  <2>2. CASE stack'[i].stage = "write" /\ InSeq(stack'[i].name, queue)
    <3>1. \A j \in DOMAIN stack : stack[j].name # c
      BY <1>3, <2>2 DEF IInv, StackInv
    <3> QED
      BY <1>3, <2>1, <2>2 DEF Stages
  <2> QED
    BY <1>1, <1>3, <2>1, <2>2 DEF Done
<1> QED
  BY <1>2, <1>3 DEF Done

\* Then what it says of the components made, and of the files installed, holds on.
LEMMA KeptMade ==
  ASSUME IInv, NEW CONSTANT names, names[host] \subseteq Names, MadeInv(names), DoneStays,
         UNCHANGED <<host, components>>
  PROVE  MadeInv(names)'
<1> SUFFICES ASSUME NEW c \in names[host], NEW stage \in Stages,
                    NEW p \in DOMAIN OpsOf(Defs[host], c, stage),
                    OpsOf(Defs[host], c, stage)[p].kind = "instance",
                    OpsOf(Defs[host], c, stage)[p].compt \in components
             PROVE  Done(c, stage, p)'
  BY DEF MadeInv
<1>1. p \in Nat
  BY OpsOfType
<1> QED
  BY <1>1 DEF MadeInv, DoneStays

LEMMA KeptInstalled ==
  ASSUME IInv, NEW CONSTANT names, names[host] \subseteq Names, InstalledInv(names), DoneStays,
         UNCHANGED <<host, tree>>
  PROVE  InstalledInv(names)'
<1> SUFFICES ASSUME NEW c \in names[host], NEW stage \in Stages,
                    NEW p \in DOMAIN OpsOf(Defs[host], c, stage),
                    OpsOf(Defs[host], c, stage)[p].kind = "install",
                    ~OpsOf(Defs[host], c, stage)[p].ignoreExists,
                    OpsOf(Defs[host], c, stage)[p].file \in tree
             PROVE  Done(c, stage, p)'
  BY DEF InstalledInv
<1>1. p \in Nat
  BY OpsOfType
<1> QED
  BY <1>1 DEF InstalledInv, DoneStays

LEMMA KeptGiven ==
  ASSUME NEW CONSTANT names, GivenInv(names), UNCHANGED <<host, given>>
  PROVE  GivenInv(names)'
  BY DEF GivenInv

\* The innermost call goes on.
LEMMA AdvanceDone ==
  ASSUME IInv, OpsInv, Advanced(stack', stack), UNCHANGED <<host, components, queue>>
  PROVE  /\ OpsInv' /\ DoneStays
         /\ \A c, stage, p :
              /\ c = stack[1].name /\ stage = stack[1].stage /\ p = Passed(stack[1]) + 1
              => Done(c, stage, p)'
<1>1. /\ DOMAIN stack' = DOMAIN stack /\ 1 \in DOMAIN stack
      /\ \A i \in DOMAIN stack : stack'[i].name = stack[i].name /\ stack'[i].stage = stack[i].stage
  BY AdvancedOps DEF IInv, Advanced, SameCalls
<1>2. /\ \A i \in DOMAIN stack : LastOps(stack'[i])
      /\ \A i \in DOMAIN stack :
           Passed(stack'[i]) = IF i = 1 THEN Passed(stack[1]) + 1 ELSE Passed(stack[i])
  BY AdvanceOps
<1>3. OpsInv'
  <2> SUFFICES ASSUME NEW i \in DOMAIN stack PROVE LastOps(stack[i])'
    BY <1>1 DEF OpsInv
  <2>1. LastOps(stack'[i])
    BY <1>2
  <2> QED
    BY <2>1 DEF LastOps, Passed
<1>4. \A i \in DOMAIN stack :
        Passed(stack[i])' = IF i = 1 THEN Passed(stack[1]) + 1 ELSE Passed(stack[i])
  BY <1>2 DEF Passed
<1>5. DoneStays
  BY <1>1, <1>4, StaysDone
<1>6. /\ stack[1].name \in components /\ ~InSeq(stack[1].name, queue)
      /\ \A i \in DOMAIN stack : stack[i].name = stack[1].name => i = 1
  BY <1>1 DEF IInv, TypeOK, StackInv
<1>7. Passed(stack[1]) \in Int
  BY <1>1, FrameFields, OpsOfType DEF Passed, IInv, TypeOK
<1>8. ASSUME NEW c, NEW stage, NEW p, c = stack[1].name, stage = stack[1].stage,
             p = Passed(stack[1]) + 1
      PROVE  Done(c, stage, p)'
  BY <1>1, <1>4, <1>6, <1>7, <1>8 DEF Done
<1> QED
  BY <1>3, <1>5, <1>8

\* The host that is built is consistent, and its components careful.
Fits(brings, names) ==
  /\ Consistent(Defs[host], names[host])
  /\ \A c \in names[host] : Careful(brings[host], Defs[host], c)

\* The innermost call and its next line, which has not been done
LEMMA ThisFits ==
  ASSUME IInv, NEW CONSTANT brings, NEW CONSTANT names, Fits(brings, names), BuildsInv(names),
         NEW kind, Building(kind)
  PROVE  /\ stack[1].name \in names[host] /\ op.kind = kind
         /\ kind \in {"require", "instance"} => op.compt \in names[host]
         /\ kind = "instance" =>
              /\ op.compt \notin components
              /\ SoleMaker(Defs[host], names[host], stack[1].name, stack[1].stage,
                           Passed(stack[1]) + 1)
         /\ kind = "install" /\ ~op.ignoreExists =>
              /\ op.file \notin tree
              /\ SoleInstaller(Defs[host], names[host], stack[1].name, stack[1].stage,
                               Passed(stack[1]) + 1)
         /\ kind = "assert" => op.ok
<1> DEFINE c == stack[1].name  stage == stack[1].stage  p == Passed(stack[1]) + 1
           ops == OpsOf(Defs[host], c, stage)
<1>1. /\ c \in Names /\ c \in components /\ stage \in Stages /\ p \in DOMAIN ops /\ ops[p] = op
      /\ stack # <<>> /\ Head(stack).ops # <<>>
  BY ThisLine DEF BuildsInv, Building
<1>2. ~Done(c, stage, p)
  BY <1>1, ThisIsNotDone DEF BuildsInv
<1>3. op \in Op /\ op.kind = kind
  BY BuildingOp DEF IInv
<1>4. c \in names[host]
  BY <1>1 DEF BuildsInv
<1>5. /\ Needs(ops) \subseteq names[host]
      /\ op.kind = "instance" => SoleMaker(Defs[host], names[host], c, stage, p)
      /\ op.kind = "install" /\ ~op.ignoreExists =>
           SoleInstaller(Defs[host], names[host], c, stage, p)
      /\ op.kind = "assert" => op.ok
  BY <1>1, <1>4 DEF Fits, Consistent
<1>6. op.kind \in {"require", "instance"} => op.compt \in names[host]
  <2>1. ops \in Seq(Op)
    BY <1>1, OpsOfType
  <2>2. op.kind \in {"require", "instance"} => op \in ReqOps
    BY <1>3 DEF ReqOps, Op
  <2>3. InSeq(op, ops)
    BY <1>1 DEF InSeq
  <2> QED
    BY <1>5, <2>1, <2>2, <2>3, NeedsOps
<1>7. /\ op.kind = "instance" => op.compt \notin components
      /\ op.kind = "install" /\ ~op.ignoreExists => op.file \notin tree
  BY <1>1, <1>2, <1>4 DEF BuildsInv, MadeInv, InstalledInv
<1> QED
  BY <1>3, <1>4, <1>5, <1>6, <1>7

\* No line of a host that fits fails.
LEMMA NoneFails ==
  ASSUME IInv, NEW CONSTANT brings, NEW CONSTANT names, Fits(brings, names), BuildsInv(names),
         LookupsSucceed(brings), Next
  PROVE  ~Fail
<1> SUFFICES ASSUME Fail PROVE FALSE
  OBVIOUS
<1>1. phase # "failed" /\ phase' = "failed"
  BY DEF Fail, BuildsInv
<1>2. CASE BuildInstance
  BY <1>1, <1>2, ThisFits DEF BuildInstance
<1>3. CASE GetComponent \/ LookComponent
  <2>1. PICK kind \in {"give", "look"} : Building(kind)
    BY <1>3 DEF GetComponent, LookComponent
  <2>2. stack[1].name \in names[host] /\ Head(stack) = stack[1] /\ stack # <<>>
    BY <2>1, ThisFits, ThisLine, TailView DEF Building, IInv, TypeOK
  <2>3. Careful(brings[host], Defs[host], Head(stack).name)
    BY <2>2 DEF Fits
  <2> QED
    BY <1>1, <1>3, <2>2, <2>3 DEF LookupsSucceed, GetComponent, LookComponent
<1>4. CASE InstallFile
  BY <1>1, <1>4, ThisFits DEF InstallFile
<1>5. CASE AssertHost
  BY <1>1, <1>5, ThisFits DEF AssertHost
<1>6. CASE Ended
  BY <1>1, <1>6 DEF Ended, vars
<1> QED
  BY <1>1, <1>2, <1>3, <1>4, <1>5, <1>6 DEF Next, RequireRoot, StartWrites, WriteNext,
     WriteRoot, Require, HasComponent, AppendRootBash, InstallGiven, Queue, WriteNow, EndWrite

\* The innermost call goes on, and installs nothing nor gives anything.
LEMMA AdvanceBuilds ==
  ASSUME IInv, NEW CONSTANT names, names[host] \subseteq Names, BuildsInv(names),
         Advanced(stack', stack),
         UNCHANGED <<host, phase, todo, components, queue, tree, given>>
  PROVE  BuildsInv(names)'
<1>1. OpsInv' /\ DoneStays
  BY AdvanceDone DEF BuildsInv
<1>2. MadeInv(names)' /\ InstalledInv(names)' /\ GivenInv(names)'
  BY <1>1, KeptMade, KeptInstalled, KeptGiven DEF BuildsInv
<1> QED
  BY <1>1, <1>2 DEF BuildsInv

\* A file that is not shared has one line that installs it: this one.
LEMMA InstallBuilds ==
  ASSUME IInv, NEW CONSTANT brings, NEW CONSTANT names, Fits(brings, names), BuildsInv(names),
         InstallFile, ~Fail
  PROVE  BuildsInv(names)'
<1>1. /\ UNCHANGED <<host, phase, todo, components, queue, given>> /\ Building("install")
      /\ tree' = tree \cup {op.file} /\ Advanced(stack', stack)
  BY RestAdvances DEF InstallFile, IInv
<1>2. names[host] \subseteq Names
  BY DEF Fits, Consistent
<1>3. /\ OpsInv' /\ DoneStays
      /\ \A c, stage, p :
           /\ c = stack[1].name /\ stage = stack[1].stage /\ p = Passed(stack[1]) + 1
           => Done(c, stage, p)'
  BY <1>1, AdvanceDone DEF BuildsInv
<1>4. MadeInv(names)' /\ GivenInv(names)'
  BY <1>1, <1>2, <1>3, KeptMade, KeptGiven DEF BuildsInv
<1>5. InstalledInv(names)'
  <2> SUFFICES ASSUME NEW c \in names[host], NEW stage \in Stages,
                      NEW p \in DOMAIN OpsOf(Defs[host], c, stage),
                      OpsOf(Defs[host], c, stage)[p].kind = "install",
                      ~OpsOf(Defs[host], c, stage)[p].ignoreExists,
                      OpsOf(Defs[host], c, stage)[p].file \in tree \cup {op.file}
               PROVE  Done(c, stage, p)'
    BY <1>1 DEF InstalledInv
  <2>1. p \in Nat
    BY <1>2, OpsOfType
  <2>2. CASE OpsOf(Defs[host], c, stage)[p].file \in tree
    BY <1>3, <2>1, <2>2 DEF BuildsInv, InstalledInv, DoneStays
  <2>3. CASE OpsOf(Defs[host], c, stage)[p].file = op.file
    <3>1. SoleInstaller(Defs[host], names[host], c, stage, p)
      BY DEF Fits, Consistent
    <3>2. /\ stack[1].name \in names[host] /\ stack[1].stage \in Stages /\ op.kind = "install"
          /\ Passed(stack[1]) + 1 \in DOMAIN OpsOf(Defs[host], stack[1].name, stack[1].stage)
          /\ OpsOf(Defs[host], stack[1].name, stack[1].stage)[Passed(stack[1]) + 1] = op
      BY <1>1, ThisFits, ThisLine DEF BuildsInv, Building
    <3>3. <<stack[1].name, stack[1].stage, Passed(stack[1]) + 1>> = <<c, stage, p>>
      BY <2>3, <3>1, <3>2 DEF SoleInstaller
    <3> QED
      BY <1>3, <3>3
  <2> QED
    BY <2>2, <2>3
<1> QED
  BY <1>1, <1>3, <1>4, <1>5 DEF BuildsInv

\* What is given is not a file that another line installs, unless that is shared.
LEMMA InstallGivenBuilds ==
  ASSUME IInv, NEW CONSTANT brings, NEW CONSTANT names, Fits(brings, names), BuildsInv(names),
         InstallGiven
  PROVE  BuildsInv(names)'
<1>1. /\ UNCHANGED <<host, phase, todo, components, queue, given>> /\ Building("install_given")
      /\ Advanced(stack', stack) /\ tree' = tree \cup (given[stack[1].name] \cap Files)
      /\ stack[1].name \in Names
  <2>1. Building("install_given") /\ Advanced(stack', stack)
    BY RestAdvances DEF InstallGiven, IInv
  <2>2. Head(stack) = stack[1] /\ stack[1].name \in Names
    BY <2>1, BuildingOp, TailView DEF IInv, TypeOK, Building
  <2> QED
    BY <2>1, <2>2 DEF InstallGiven
<1>2. names[host] \subseteq Names
  BY DEF Fits, Consistent
<1>3. OpsInv' /\ DoneStays
  BY <1>1, AdvanceDone DEF BuildsInv
<1>4. MadeInv(names)' /\ GivenInv(names)'
  BY <1>1, <1>2, <1>3, KeptMade, KeptGiven DEF BuildsInv
<1>5. InstalledInv(names)'
  <2> SUFFICES ASSUME NEW c \in names[host], NEW stage \in Stages,
                      NEW p \in DOMAIN OpsOf(Defs[host], c, stage),
                      OpsOf(Defs[host], c, stage)[p].kind = "install",
                      ~OpsOf(Defs[host], c, stage)[p].ignoreExists,
                      OpsOf(Defs[host], c, stage)[p].file \in tree \cup given[stack[1].name]
               PROVE  Done(c, stage, p)'
    BY <1>1 DEF InstalledInv
  <2>1. p \in Nat
    BY <1>2, OpsOfType
  <2>2. SoleInstaller(Defs[host], names[host], c, stage, p)
    BY DEF Fits, Consistent
  <2>3. OpsOf(Defs[host], c, stage)[p].file \notin given[stack[1].name]
    BY <1>1, <2>2 DEF BuildsInv, GivenInv, SoleInstaller
  <2> QED
    BY <1>3, <2>1, <2>3 DEF BuildsInv, InstalledInv, DoneStays
<1> QED
  BY <1>1, <1>3, <1>4, <1>5 DEF BuildsInv

\* What a component is given, one that is built gives.
LEMMA GetBuilds ==
  ASSUME IInv, NEW CONSTANT brings, NEW CONSTANT names, Fits(brings, names), BuildsInv(names),
         GetComponent, ~Fail
  PROVE  BuildsInv(names)'
<1>1. /\ UNCHANGED <<host, phase, todo, components, queue, tree>> /\ Building("give")
      /\ given' = [given EXCEPT ![op.compt] = @ \cup op.items] /\ Advanced(stack', stack)
  <2>1. /\ Building("give") /\ given' = [given EXCEPT ![op.compt] = @ \cup op.items]
        /\ stack' = Rest /\ UNCHANGED <<host, phase, todo, components, queue, tree>>
    BY DEF GetComponent, output
  <2>2. Advanced(Rest, stack)
    BY <2>1, RestAdvances DEF IInv
  <2> QED
    BY <2>1, <2>2
<1>2. names[host] \subseteq Names
  BY DEF Fits, Consistent
<1>3. OpsInv' /\ DoneStays
  BY <1>1, AdvanceDone DEF BuildsInv
<1>4. MadeInv(names)' /\ InstalledInv(names)'
  BY <1>1, <1>2, <1>3, KeptMade, KeptInstalled DEF BuildsInv
<1>5. GivenInv(names)'
  <2>1. /\ stack[1].name \in names[host] /\ stack[1].stage \in Stages /\ op.kind = "give"
        /\ Passed(stack[1]) + 1 \in DOMAIN OpsOf(Defs[host], stack[1].name, stack[1].stage)
        /\ OpsOf(Defs[host], stack[1].name, stack[1].stage)[Passed(stack[1]) + 1] = op
    BY <1>1, ThisFits, ThisLine DEF BuildsInv, Building
  <2>2. \A c \in Names : \A x \in given'[c] : x \in given[c] \/ x \in op.items
    BY <1>1 DEF IInv, TypeOK
  <2> SUFFICES ASSUME NEW c \in Names, NEW x \in given'[c]
               PROVE  \E e \in names[host], t \in Stages : \E q \in DOMAIN OpsOf(Defs[host], e, t) :
                        LET o == OpsOf(Defs[host], e, t)[q] IN o.kind = "give" /\ x \in o.items
    BY <1>1 DEF GivenInv
  <2>3. CASE x \in given[c]
    BY <2>3 DEF BuildsInv, GivenInv
  <2>4. CASE x \in op.items
    BY <2>1, <2>4
  <2> QED
    BY <2>2, <2>3, <2>4
<1> QED
  BY <1>1, <1>3, <1>4, <1>5 DEF BuildsInv

\* A component that is new is called; what makes it has been done.
LEMMA PushBuilds ==
  ASSUME IInv, NEW CONSTANT names, names[host] \subseteq Names, BuildsInv(names),
         NEW c \in names[host], c \notin components, NEW rest \in Seq(Frame),
         \A i \in DOMAIN rest :
           /\ i \in DOMAIN stack /\ rest[i].name = stack[i].name /\ rest[i].stage = stack[i].stage
           /\ LastOps(rest[i]) /\ Passed(rest[i]) \in {Passed(stack[i]), Passed(stack[i]) + 1},
         stack' = <<NewFrame(c, "compile", Configured(c).compile)>> \o rest,
         components' = components \cup {c}, UNCHANGED <<host, phase, queue, tree, given>>,
         \A x : InSeq(x, todo') => InSeq(x, todo),
         \A e \in names[host], stage \in Stages : \A q \in DOMAIN OpsOf(Defs[host], e, stage) :
           OpsOf(Defs[host], e, stage)[q].kind = "instance"
             /\ OpsOf(Defs[host], e, stage)[q].compt = c =>
               /\ e \in components /\ ~InSeq(e, queue)
               /\ \A i \in DOMAIN rest :
                    rest[i].name = e => stage = rest[i].stage /\ q <= Passed(rest[i])
  PROVE  BuildsInv(names)'
<1> DEFINE frame == NewFrame(c, "compile", Configured(c).compile)
<1>1. /\ frame \in Frame /\ frame.name = c /\ frame.stage = "compile"
      /\ frame.ops = OpsOf(Defs[host], c, "compile") /\ frame.ops \in Seq(Op)
  BY ConfiguredType DEF NewFrame, Frame, Stages, IInv, OpsOf, Configured
<1>2. stack' = <<frame>> \o rest
  OBVIOUS
<1> HIDE DEF frame
<1>3. /\ Len(rest) \in Nat /\ DOMAIN rest = 1..Len(rest) /\ DOMAIN stack' = 1..(Len(rest) + 1)
      /\ stack'[1] = frame /\ \A i \in 2..(Len(rest) + 1) : stack'[i] = rest[i - 1]
  BY <1>1, <1>2, PushView
<1>4. \A i \in DOMAIN stack' : i # 1 => i - 1 \in DOMAIN rest /\ stack'[i] = rest[i - 1]
  BY <1>3
<1>5. LastOps(frame)
  <2> DEFINE ops == frame.ops
  <2>1. Len(ops) \in Nat /\ DOMAIN ops = 1..Len(ops) /\ Passed(frame) = Len(ops) - Len(ops)
    BY <1>1 DEF Passed
  <2>2. /\ LastOps(frame) <=> Passed(frame) >= 0
                             /\ \A p \in DOMAIN ops : ops[p] = ops[Passed(frame) + p]
    BY <1>1 DEF LastOps
  <2> HIDE DEF ops
  <2> QED
    BY <2>1, <2>2
<1>6. OpsInv'
  <2> SUFFICES ASSUME NEW i \in DOMAIN stack' PROVE LastOps(stack[i])'
    BY DEF OpsInv
  <2>1. LastOps(stack'[i])
    BY <1>3, <1>4, <1>5
  <2> QED
    BY <2>1 DEF LastOps, Passed
<1>7. ASSUME NEW i \in DOMAIN stack', i # 1
      PROVE  /\ i - 1 \in DOMAIN stack /\ stack'[i].name = stack[i - 1].name
             /\ stack'[i].stage = stack[i - 1].stage /\ Passed(stack[i])' = Passed(rest[i - 1])
             /\ Passed(stack[i])' \in {Passed(stack[i - 1]), Passed(stack[i - 1]) + 1}
  <2>1. Passed(stack[i])' = Passed(rest[i - 1])
    BY <1>4, <1>7 DEF Passed
  <2> QED
    BY <1>4, <1>7, <2>1
<1>8. DoneStays
  <2>1. \A i \in DOMAIN stack' : i # 1 =>
          \E j \in DOMAIN stack : /\ stack'[i].name = stack[j].name /\ stack'[i].stage = stack[j].stage
                                  /\ Passed(stack[i])' \in {Passed(stack[j]), Passed(stack[j]) + 1}
    BY <1>7
  <2> QED
    BY <1>1, <1>3, <2>1, StaysDone
<1>9. MadeInv(names)'
  <2> SUFFICES ASSUME NEW e \in names[host], NEW stage \in Stages,
                      NEW q \in DOMAIN OpsOf(Defs[host], e, stage),
                      OpsOf(Defs[host], e, stage)[q].kind = "instance",
                      OpsOf(Defs[host], e, stage)[q].compt \in components \cup {c}
               PROVE  Done(e, stage, q)'
    BY DEF MadeInv
  <2>1. q \in Nat
    BY OpsOfType
  <2>2. CASE OpsOf(Defs[host], e, stage)[q].compt \in components
    BY <1>8, <2>1, <2>2 DEF BuildsInv, MadeInv, DoneStays
  <2>3. CASE OpsOf(Defs[host], e, stage)[q].compt = c
    <3>1. /\ e \in components /\ ~InSeq(e, queue)
          /\ \A i \in DOMAIN rest : rest[i].name = e => stage = rest[i].stage /\ q <= Passed(rest[i])
      BY <2>3
    <3>2. \A i \in DOMAIN stack' : stack'[i].name = e =>
            stage = stack'[i].stage /\ q <= Passed(stack[i])'
      BY <1>1, <1>3, <1>4, <1>7, <3>1
    <3> QED
      BY <3>1, <3>2 DEF Done
  <2> QED
    BY <2>2, <2>3
<1>10. InstalledInv(names)' /\ GivenInv(names)'
  BY <1>8, KeptInstalled, KeptGiven DEF BuildsInv
<1> QED
  BY <1>6, <1>9, <1>10 DEF BuildsInv

LEMMA RequireBuilds ==
  ASSUME IInv, NEW CONSTANT brings, NEW CONSTANT names, Fits(brings, names), BuildsInv(names),
         Require \/ BuildInstance, ~Fail
  PROVE  BuildsInv(names)'
<1>1. PICK kind \in {"require", "instance"} : Building(kind)
  BY DEF Require, BuildInstance
<1>2. /\ BuildComponent(op.compt, Rest)
      /\ UNCHANGED <<host, phase, todo, queue, tree, given>>
  BY DEF Require, BuildInstance, output
<1>3. Advanced(Rest, stack)
  BY <1>1, RestAdvances DEF IInv
<1>4. names[host] \subseteq Names
  BY DEF Fits, Consistent
<1>5. CASE op.compt \in components
  <2>1. Advanced(stack', stack) /\ UNCHANGED components
    BY <1>2, <1>3, <1>5 DEF BuildComponent
  <2> QED
    BY <1>2, <1>4, <2>1, AdvanceBuilds
<1>6. CASE op.compt \notin components
  <2>1. op.compt \in names[host] /\ op.kind = kind
    BY <1>1, ThisFits
  <2>2. /\ stack' = <<NewFrame(op.compt, "compile", Configured(op.compt).compile)>> \o Rest
        /\ components' = components \cup {op.compt}
    BY <1>2, <1>6 DEF BuildComponent
  <2>3. /\ DOMAIN Rest = DOMAIN stack /\ 1 \in DOMAIN stack /\ Rest \in Seq(Frame)
        /\ \A i \in DOMAIN stack :
             Rest[i].name = stack[i].name /\ Rest[i].stage = stack[i].stage
    BY <1>3, AdvancedOps DEF IInv, Advanced, SameCalls
  <2>4. /\ \A i \in DOMAIN stack : LastOps(Rest[i])
        /\ \A i \in DOMAIN stack :
             Passed(Rest[i]) = IF i = 1 THEN Passed(stack[1]) + 1 ELSE Passed(stack[i])
    BY <1>3, AdvanceOps DEF BuildsInv
  <2>5. ASSUME NEW e \in names[host], NEW stage \in Stages,
               NEW q \in DOMAIN OpsOf(Defs[host], e, stage),
               OpsOf(Defs[host], e, stage)[q].kind = "instance",
               OpsOf(Defs[host], e, stage)[q].compt = op.compt
        PROVE  /\ e \in components /\ ~InSeq(e, queue)
               /\ \A i \in DOMAIN Rest : Rest[i].name = e => stage = Rest[i].stage /\ q <= Passed(Rest[i])
    <3>1. SoleMaker(Defs[host], names[host], e, stage, q)
      BY <2>5 DEF Fits, Consistent
    <3>2. /\ stack[1].name \in names[host] /\ stack[1].stage \in Stages
          /\ Passed(stack[1]) + 1 \in DOMAIN OpsOf(Defs[host], stack[1].name, stack[1].stage)
          /\ OpsOf(Defs[host], stack[1].name, stack[1].stage)[Passed(stack[1]) + 1] = op
          /\ Passed(stack[1]) \in Nat /\ stack[1].name \in components
      BY <1>1, ThisFits, ThisLine DEF BuildsInv, Building
    <3>3. <<stack[1].name, stack[1].stage, Passed(stack[1]) + 1>> = <<e, stage, q>>
      BY <2>1, <2>5, <3>1, <3>2 DEF SoleMaker
    <3>4. /\ ~InSeq(stack[1].name, queue)
          /\ \A i \in DOMAIN stack : stack[i].name = stack[1].name => i = 1
      BY <2>3 DEF IInv, StackInv
    <3> QED
      BY <2>3, <2>4, <3>2, <3>3, <3>4
  <2>6. \A i \in DOMAIN Rest :
          /\ i \in DOMAIN stack /\ Rest[i].name = stack[i].name /\ Rest[i].stage = stack[i].stage
          /\ LastOps(Rest[i]) /\ Passed(Rest[i]) \in {Passed(stack[i]), Passed(stack[i]) + 1}
    BY <2>3, <2>4
  <2> DEFINE c == op.compt
  <2>7. /\ c \in names[host] /\ c \notin components /\ Rest \in Seq(Frame)
        /\ stack' = <<NewFrame(c, "compile", Configured(c).compile)>> \o Rest
        /\ components' = components \cup {c} /\ UNCHANGED <<host, phase, queue, tree, given>>
        /\ \A x : InSeq(x, todo') => InSeq(x, todo)
    BY <1>2, <1>6, <2>1, <2>2, <2>3
  <2>8. \A e \in names[host], stage \in Stages : \A q \in DOMAIN OpsOf(Defs[host], e, stage) :
          OpsOf(Defs[host], e, stage)[q].kind = "instance"
            /\ OpsOf(Defs[host], e, stage)[q].compt = c =>
              /\ e \in components /\ ~InSeq(e, queue)
              /\ \A i \in DOMAIN Rest :
                   Rest[i].name = e => stage = Rest[i].stage /\ q <= Passed(Rest[i])
    BY <2>5
  <2> HIDE DEF c
  <2> QED
    BY <1>4, <2>6, <2>7, <2>8, PushBuilds
<1> QED
  BY <1>5, <1>6

\* What the database lists, no component makes.
LEMMA RequireRootBuilds ==
  ASSUME IInv, NEW CONSTANT brings, NEW CONSTANT names, Fits(brings, names), BuildsInv(names),
         RequireRoot
  PROVE  BuildsInv(names)'
<1> DEFINE c == Head(todo)
<1>1. /\ stack = <<>> /\ BuildComponent(c, <<>>) /\ todo' = Tail(todo)
      /\ UNCHANGED <<host, phase, queue, tree, given>>
  BY DEF RequireRoot, output
<1>2. /\ \A x : InSeq(x, todo') => InSeq(x, todo)
      /\ InSeq(c, todo)
  BY <1>1, InSeqTail DEF RequireRoot, IInv, TypeOK
<1>3. InSeq(c, Defs[host].roots) /\ c \in Names
  BY <1>2, TailView DEF RequireRoot, BuildsInv, IInv, TypeOK
<1>4. names[host] \subseteq Names /\ c \in names[host]
  BY <1>3 DEF Fits, Consistent
<1> HIDE DEF c
<1>5. CASE c \in components
  <2>1. UNCHANGED <<stack, components>>
    BY <1>1, <1>5 DEF BuildComponent
  <2>2. OpsInv' /\ DoneStays
    <3>1. stack' = <<>> /\ DOMAIN stack' = {}
      BY <1>1, <2>1
    <3>2. OpsInv'
      BY <3>1 DEF OpsInv
    <3>3. components \subseteq components' /\ queue' = queue
      BY <1>1, <2>1
    <3> HIDE DEF OpsInv
    <3> QED
      BY <3>1, <3>2, <3>3, StaysDone
  <2> QED
    BY <1>1, <1>2, <1>4, <2>1, <2>2, KeptMade, KeptInstalled, KeptGiven DEF BuildsInv
<1>6. CASE c \notin components
  <2>1. /\ stack' = <<NewFrame(c, "compile", Configured(c).compile)>> \o <<>>
        /\ components' = components \cup {c}
    BY <1>1, <1>6 DEF BuildComponent
  <2>2. ASSUME NEW e \in names[host], NEW stage \in Stages,
               NEW q \in DOMAIN OpsOf(Defs[host], e, stage),
               OpsOf(Defs[host], e, stage)[q].kind = "instance"
        PROVE  OpsOf(Defs[host], e, stage)[q].compt # c
    BY <1>3, <2>2 DEF Fits, Consistent, SoleMaker
  <2> DEFINE rest == <<>>
  <2>3. rest \in Seq(Frame) /\ DOMAIN rest = {}
    OBVIOUS
  <2>4. \A e \in names[host], stage \in Stages : \A q \in DOMAIN OpsOf(Defs[host], e, stage) :
          OpsOf(Defs[host], e, stage)[q].kind = "instance"
            /\ OpsOf(Defs[host], e, stage)[q].compt = c =>
              /\ e \in components /\ ~InSeq(e, queue)
              /\ \A i \in DOMAIN rest :
                   rest[i].name = e => stage = rest[i].stage /\ q <= Passed(rest[i])
    BY <2>2
  <2> HIDE DEF rest
  <2>5. stack' = <<NewFrame(c, "compile", Configured(c).compile)>> \o rest
    BY <2>1 DEF rest
  <2> QED
    BY <1>1, <1>2, <1>4, <1>6, <2>1, <2>3, <2>4, <2>5, PushBuilds
<1> QED
  BY <1>5, <1>6

\* The innermost call returns, and may have been queued.
LEMMA ReturnBuilds ==
  ASSUME IInv, NEW CONSTANT names, names[host] \subseteq Names, BuildsInv(names),
         NEW stage, AtEnd(stage), stack' = Tail(stack),
         \/ queue' = queue
         \/ stage = "compile" /\ queue' = Append(queue, stack[1].name),
         UNCHANGED <<host, phase, todo, components, tree, given>>
  PROVE  BuildsInv(names)'
<1>1. \A i \in DOMAIN stack' : i + 1 \in DOMAIN stack /\ stack'[i] = stack[i + 1]
  BY ReturnFacts
<1>2. 1 \in DOMAIN stack /\ stack[1].stage = stage
  BY EndFacts DEF IInv
<1>3. ASSUME NEW i \in DOMAIN stack'
      PROVE  /\ Passed(stack[i])' = Passed(stack[i + 1])
             /\ LastOps(stack[i])' <=> LastOps(stack[i + 1])
  <2>1. stack'[i] = stack[i + 1]
    BY <1>1
  <2> QED
    BY <2>1 DEF Passed, LastOps
<1>4. \A c : InSeq(c, queue') => InSeq(c, queue) \/ (c = stack[1].name /\ stage = "compile")
  <2>1. queue \in Seq(components)
    BY DEF IInv, TypeOK
  <2> DEFINE x == stack[1].name
  <2>2. \A c : InSeq(c, Append(queue, x)) <=> InSeq(c, queue) \/ c = x
    BY <2>1, InSeqAppend
  <2>3. queue' = queue \/ (stage = "compile" /\ queue' = Append(queue, x))
    OBVIOUS
  <2> QED
    BY <2>2, <2>3
<1>5. DoneStays
  <2>1. \A i \in DOMAIN stack' : \E j \in DOMAIN stack :
          /\ stack'[i].name = stack[j].name /\ stack'[i].stage = stack[j].stage
          /\ Passed(stack[i])' \in {Passed(stack[j]), Passed(stack[j]) + 1}
    BY <1>1, <1>3
  <2>2. \A c : InSeq(c, queue') => InSeq(c, queue) \/
          \E i \in DOMAIN stack : stack[i].name = c /\ stack[i].stage = "compile"
    BY <1>2, <1>4
  <2>3. components \subseteq components'
    OBVIOUS
  <2> QED
    BY <2>1, <2>2, <2>3, StaysDone
<1>6. OpsInv'
  <2> SUFFICES ASSUME NEW i \in DOMAIN stack' PROVE LastOps(stack[i])'
    BY DEF OpsInv
  <2> QED
    BY <1>1, <1>3 DEF BuildsInv, OpsInv
<1> QED
  BY <1>5, <1>6, KeptMade, KeptInstalled, KeptGiven DEF BuildsInv

\* A call of the second phase has all its lines before it.
LEMMA BeginsOps ==
  ASSUME IInv, NEW frame, frame.name \in Names, frame.stage = "write",
         frame.ops = Configured(frame.name).write
  PROVE  LastOps(frame)
<1> DEFINE ops == frame.ops
<1>1. ops = OpsOf(Defs[host], frame.name, frame.stage)
  BY DEF OpsOf, Configured
<1>2. Len(ops) \in Nat /\ DOMAIN ops = 1..Len(ops)
  BY <1>1, OpsOfType
<1>3. /\ Passed(frame) = Len(ops) - Len(ops)
      /\ LastOps(frame) <=> /\ Passed(frame) >= 0
                            /\ \A p \in DOMAIN ops : ops[p] = ops[Passed(frame) + p]
  BY <1>1 DEF Passed, LastOps
<1> HIDE DEF ops
<1> QED
  BY <1>2, <1>3

LEMMA WriteNowBuilds ==
  ASSUME IInv, NEW CONSTANT names, names[host] \subseteq Names, BuildsInv(names), WriteNow
  PROVE  BuildsInv(names)'
<1> DEFINE c == stack[1].name
           frame == [name |-> c, stage |-> "write", ops |-> Configured(c).write,
                     found |-> stack[1].found]
<1>1. /\ 1 \in DOMAIN stack /\ Head(stack) = stack[1] /\ stack[1] \in Frame /\ stack # <<>>
      /\ c \in Names /\ stack[1].stage = "compile"
  BY EndFacts DEF WriteNow, IInv
<1>2. /\ stack' = <<frame>> \o Tail(stack)
      /\ UNCHANGED <<host, phase, todo, components, queue, tree, given>>
  BY <1>1 DEF WriteNow, output
<1>3. /\ frame \in Frame /\ frame.name = c /\ frame.stage = "write"
      /\ frame.ops = Configured(c).write
  BY <1>1, ConfiguredType, FrameFields DEF Frame, Stages, IInv
<1>4. /\ Tail(stack) \in Seq(Frame) /\ Len(Tail(stack)) = Len(stack) - 1 /\ Len(stack) \in Nat
      /\ \A i \in 1..(Len(stack) - 1) : Tail(stack)[i] = stack[i + 1]
      /\ DOMAIN stack = 1..Len(stack)
  BY <1>1, TailView DEF IInv, TypeOK
<1> HIDE DEF frame
<1>5. /\ DOMAIN stack' = DOMAIN stack /\ stack'[1] = frame
      /\ \A i \in 2..Len(stack) : stack'[i] = Tail(stack)[i - 1]
  BY <1>2, <1>3, <1>4, PushView
<1>6. ASSUME NEW i \in DOMAIN stack, i # 1 PROVE stack'[i] = stack[i]
  <2>1. i \in 2..Len(stack) /\ i - 1 \in 1..(Len(stack) - 1) /\ (i - 1) + 1 = i
    BY <1>4, <1>6
  <2> QED
    BY <1>4, <1>5, <2>1
<1>7. OpsInv'
  <2> SUFFICES ASSUME NEW i \in DOMAIN stack PROVE LastOps(stack[i])'
    BY <1>5 DEF OpsInv
  <2>1. LastOps(frame)
    BY <1>1, <1>3, BeginsOps
  <2>2. LastOps(stack'[i])
    BY <1>5, <1>6, <2>1 DEF BuildsInv, OpsInv
  <2> QED
    BY <1>2, <2>2 DEF LastOps, Passed
<1>8. DoneStays
  <2>1. ASSUME NEW i \in DOMAIN stack, i # 1
        PROVE  stack'[i] = stack[i] /\ Passed(stack[i])' = Passed(stack[i])
    BY <1>2, <1>6, <2>1 DEF Passed
  <2>2. ASSUME NEW i \in DOMAIN stack
        PROVE  \E j \in DOMAIN stack :
                 /\ stack'[i].name = stack[j].name
                 /\ \/ stack[j].stage = "compile" /\ stack'[i].stage = "write"
                    \/ /\ stack'[i].stage = stack[j].stage
                       /\ Passed(stack[i])' \in {Passed(stack[j]), Passed(stack[j]) + 1}
    BY <1>1, <1>3, <1>5, <2>1
  <2>3. components \subseteq components' /\ queue' = queue
    BY <1>2
  <2> QED
    BY <1>5, <2>2, <2>3, StaysDone
<1> QED
  BY <1>2, <1>7, <1>8, KeptMade, KeptInstalled, KeptGiven DEF BuildsInv

LEMMA WriteNextBuilds ==
  ASSUME IInv, NEW CONSTANT names, names[host] \subseteq Names, BuildsInv(names), WriteNext
  PROVE  BuildsInv(names)'
<1> DEFINE c == Head(queue)  frame == NewFrame(c, "write", Configured(c).write)
<1>1. /\ stack' = <<frame>> /\ queue # <<>> /\ queue' = Tail(queue)
      /\ UNCHANGED <<host, phase, todo, components, tree, given>>
  BY DEF WriteNext, output
<1>2. frame.name = c /\ frame.stage = "write" /\ frame.ops = Configured(c).write
  BY DEF NewFrame
<1> HIDE DEF frame
<1>3. c = queue[1] /\ 1 \in DOMAIN queue /\ c \in components /\ c \in Names
  BY <1>1, TailView DEF IInv, TypeOK
<1>4. InSeq(c, queue) /\ \A x : InSeq(x, queue') => InSeq(x, queue)
  <2>1. queue \in Seq(components)
    BY DEF IInv, TypeOK
  <2> QED
    BY <1>1, <2>1, InSeqTail
<1> HIDE DEF c
<1>5. DOMAIN stack' = {1} /\ stack'[1] = frame
  BY <1>1
<1>6. OpsInv'
  <2>1. LastOps(stack'[1])
    BY <1>2, <1>3, <1>5, BeginsOps
  <2>2. LastOps(stack[1])'
    BY <1>1, <2>1 DEF LastOps, Passed
  <2> QED
    BY <1>5, <2>2 DEF OpsInv
<1>7. DoneStays
  <2>1. \A i \in DOMAIN stack' : stack'[i].stage = "write" /\ InSeq(stack'[i].name, queue)
    BY <1>2, <1>4, <1>5
  <2>2. components \subseteq components'
    BY <1>1
  <2> QED
    BY <1>4, <2>1, <2>2, StaysDone
<1> QED
  BY <1>1, <1>6, <1>7, KeptMade, KeptInstalled, KeptGiven DEF BuildsInv

\* The calls are as they were.
LEMMA SameBuilds ==
  ASSUME IInv, NEW CONSTANT names, names[host] \subseteq Names, BuildsInv(names),
         UNCHANGED <<host, stack, todo, components, queue, tree, given>>, phase' # "failed"
  PROVE  BuildsInv(names)'
<1>1. OpsInv'
  <2> SUFFICES ASSUME NEW i \in DOMAIN stack PROVE LastOps(stack[i])'
    BY DEF OpsInv
  <2> QED
    BY DEF BuildsInv, OpsInv, LastOps, Passed
<1>2. DoneStays
  <2>1. \A i \in DOMAIN stack : Passed(stack[i])' = Passed(stack[i])
    BY DEF Passed
  <2> QED
    BY <2>1 DEF DoneStays, Done
<1> QED
  BY <1>1, <1>2, KeptMade, KeptInstalled, KeptGiven DEF BuildsInv

LEMMA BuildsStep ==
  ASSUME IInv, NEW CONSTANT brings, NEW CONSTANT names, Fits(brings, names), BuildsInv(names),
         LookupsSucceed(brings), [Next]_vars
  PROVE  BuildsInv(names)'
<1>1. names[host] \subseteq Names
  BY DEF Fits, Consistent
<1>2. Next => ~Fail
  BY NoneFails
<1>3. ASSUME NEW kind, Building(kind), stack' = Rest,
             UNCHANGED <<host, phase, todo, components, queue, tree, given>>
      PROVE  BuildsInv(names)'
  BY <1>1, <1>3, RestAdvances, AdvanceBuilds DEF IInv
<1>4. CASE UNCHANGED vars \/ StartWrites \/ WriteRoot
  BY <1>1, <1>4, SameBuilds DEF StartWrites, WriteRoot, vars, output, BuildsInv
<1>5. CASE RequireRoot
  BY <1>5, RequireRootBuilds
<1>6. CASE Require \/ BuildInstance
  BY <1>2, <1>6, RequireBuilds DEF Next
<1>7. CASE GetComponent
  BY <1>2, <1>7, GetBuilds DEF Next
<1>8. CASE LookComponent
  <2>1. ~Fail
    BY <1>2, <1>8 DEF Next
  <2> QED
    BY <1>3, <1>8, <2>1 DEF LookComponent, output
<1>9. CASE HasComponent
  <2>1. Head(stack).found \cup {c \in {op.compt} : InSeq(c, queue)} \in SUBSET Names
    BY <1>9, BuildingOp, OpFields, FrameFields DEF HasComponent, IInv
  <2>2. Advanced(stack', stack)
    BY <1>9, <2>1, PastAdvances DEF HasComponent, Building, IInv
  <2> QED
    BY <1>1, <1>9, <2>2, AdvanceBuilds DEF HasComponent, output
<1>10. CASE AppendRootBash
  BY <1>3, <1>10 DEF AppendRootBash
<1>11. CASE InstallFile
  BY <1>2, <1>11, InstallBuilds DEF Next
<1>12. CASE InstallGiven
  BY <1>12, InstallGivenBuilds
<1>13. CASE AssertHost
  <2>1. ~Fail
    BY <1>2, <1>13 DEF Next
  <2> QED
    BY <1>3, <1>13, <2>1 DEF AssertHost, output
<1>14. CASE Queue
  BY <1>1, <1>14, EndFacts, ReturnBuilds DEF Queue, IInv, output
<1>15. CASE WriteNow
  BY <1>1, <1>15, WriteNowBuilds
<1>16. CASE EndWrite
  BY <1>1, <1>16, ReturnBuilds DEF EndWrite, output
<1>17. CASE WriteNext
  BY <1>1, <1>17, WriteNextBuilds
<1> QED
  BY <1>4, <1>5, <1>6, <1>7, <1>8, <1>9, <1>10, <1>11, <1>12, <1>13, <1>14, <1>15, <1>16, <1>17
     DEF Next, Ended

\* No build of a host fails (create_host and build_component in pkcli/build.py,
\* _bash_append_and_dst in component/__init__.py) if its components fit together:
\* none is made, nor a file that is not shared installed, by two lines that can
\* both be done; what is asked for with get_component comes with what was required
\* before; and what is asserted holds.  "duplicate component", "dst already
\* exists" and "component not in write_queue" are then never met, in whatever
\* order the database lists the components and however their calls are nested.
THEOREM Builds ==
  ASSUME QuietWrites, NEW CONSTANT rank, Ranked(rank), NEW CONSTANT brings, Brought(brings),
         NEW CONSTANT names, Fitting(brings, names)
  PROVE  Spec => []HostBuilds
<1>1. IInv => Fits(brings, names)
  BY DEF Fitting, Fits, IInv, TypeOK
<1>2. Init => BuildsInv(names)
  <2> SUFFICES ASSUME Init PROVE BuildsInv(names)
    OBVIOUS
  <2> QED
    BY DEF Init, BuildsInv, OpsInv, MadeInv, InstalledInv, GivenInv
<1>3. IInv /\ LookupsSucceed(brings) /\ BuildsInv(names) /\ [Next]_vars => BuildsInv(names)'
  BY <1>1, BuildsStep
<1>4. BuildsInv(names) => HostBuilds
  BY DEF BuildsInv, HostBuilds
<1> QED
  BY <1>2, <1>3, <1>4, Invariant, LookupsFind, PTL DEF Spec
====
