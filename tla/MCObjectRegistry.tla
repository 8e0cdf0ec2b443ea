-------------------------- MODULE MCObjectRegistry --------------------------
(* Instances of ObjectRegistry for TLC. *)
EXTENDS ObjectRegistry

(* The name of the authentication object. *)
AuthName == <<"a", 1>>
=============================================================================
