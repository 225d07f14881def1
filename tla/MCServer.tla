------------------------------ MODULE MCServer ------------------------------
(* Model-checking instance of RivenServer: connections are model values.     *)
EXTENDS RivenServer
=============================================================================
