------------------------------ MODULE MCStream ------------------------------
(* Model-checking instance of HTTP3Stream: streams are model values that the *)
(* configurations name.                                                      *)
EXTENDS HTTP3Stream
=============================================================================
