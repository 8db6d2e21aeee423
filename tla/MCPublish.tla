------------------------------ MODULE MCPublish ------------------------------
(***************************************************************************)
(* Two hosts, of which each build has none, one or both, and three builds, *)
(* each of which may die at any step: enough for a build after one that    *)
(* died between the renames, and one after that.                           *)
(***************************************************************************)
EXTENDS Publish
=============================================================================
