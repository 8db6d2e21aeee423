---------------------------- MODULE PublishedTree ----------------------------
(***************************************************************************)
(* What publishing promises to the hosts: what the web server serves is    *)
(* the whole tree of one build, readable by it, or (briefly) nothing.  A   *)
(* newer build replaces it; an older one never comes back.                 *)
(***************************************************************************)
EXTENDS Naturals

CONSTANTS
  Hosts,  \* hosts a tree may be for
  Builds  \* numbers of the builds, in the order in which they start

VARIABLES
  tree,   \* the tree that is served, or NoTree
  newest  \* the newest build that was ever served

NoTree == [build |-> 0, hosts |-> {}]

Init == tree = NoTree /\ newest = 0

\* The tree is taken away.
Withdraw == tree # NoTree /\ tree' = NoTree /\ UNCHANGED newest

\* The tree of a newer build takes its place.
Publish(b, hs) ==
  /\ tree = NoTree /\ b > newest
  /\ tree' = [build |-> b, hosts |-> hs] /\ newest' = b

Next == Withdraw \/ \E b \in Builds, hs \in SUBSET Hosts : Publish(b, hs)

Spec == Init /\ [][Next]_<<tree, newest>>
=============================================================================
