------------------------------- MODULE MCBuild -------------------------------
(***************************************************************************)
(* Every build of three components with the calls component/*.py makes: a  *)
(* base (base_os, network), a middle (nginx, postfix) and an application   *)
(* (bop, sirepo), each in one phase or in two, required in any order.      *)
(***************************************************************************)
EXTENDS Build

CONSTANTS base, mid, app, crt, port

req(c)  == [kind |-> "require", compt |-> c]
inst(c) == [kind |-> "instance", compt |-> c]
give(c) == [kind |-> "give", compt |-> c, items |-> {port}]
look(c) == [kind |-> "look", compt |-> c]
has(c)  == [kind |-> "has", compt |-> c]
tls     == [kind |-> "install", file |-> crt, ignoreExists |-> TRUE]
own     == [kind |-> "install", file |-> crt, ignoreExists |-> FALSE]

BaseCompile == {<<>>}
BaseWrite   == {<<>>, <<has(mid)>>, <<has(app), tls>>}
MidCompile  == {<<>>, <<req(base)>>, <<req(base), give(base)>>}
MidWrite    == {<<>>, <<tls>>, <<look(base), give(app)>>}
AppCompile  == {<<>>, <<req(mid)>>, <<req(base), req(mid), give(base)>>,
                <<req(mid), inst(base)>>, <<req(app), inst(mid), give(mid)>>,
                <<req(mid), req(base), give(mid), give(base)>>}
AppWrite    == {<<tls>>, <<own>>, <<give(base)>>, <<look(mid), tls>>}
Roots       == {<<app>>, <<mid, app>>, <<base, mid, app>>, <<app, base, app>>, <<base>>}

AHosts == [roots : Roots, onePhase : SUBSET {base, mid, app},
           baseCompile : BaseCompile, baseWrite : BaseWrite,
           midCompile : MidCompile, midWrite : MidWrite,
           appCompile : AppCompile, appWrite : AppWrite]

ADefs ==
  [h \in AHosts |->
     [roots |-> h.roots,
      compt |-> [c \in {base, mid, app} |->
        [onePhase |-> c \in h.onePhase,
         compile |-> CASE c = base -> h.baseCompile
                       [] c = mid  -> h.midCompile
                       [] c = app  -> h.appCompile,
         write |-> CASE c = base -> h.baseWrite
                     [] c = mid  -> h.midWrite
                     [] c = app  -> h.appWrite]]]]
=============================================================================
