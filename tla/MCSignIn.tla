------------------------------ MODULE MCSignIn ------------------------------
(* The runs of SignIn. *)
EXTENDS SignIn
=============================================================================
