---------------------------- MODULE MCLetsEncrypt ----------------------------
(***************************************************************************)
(* Two certificates, so that the second of two orders can fail, and for    *)
(* one of them new keys; two keys at a time tell the old from the new.     *)
(***************************************************************************)
EXTENDS LetsEncrypt

CONSTANTS mail, www

ARank == [c \in {mail, www} |-> IF c = mail THEN 1 ELSE 2]
=============================================================================
