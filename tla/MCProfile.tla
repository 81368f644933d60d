------------------------------ MODULE MCProfile ------------------------------
(* ProfileClient on small instances: the cfg files give all the values *)
EXTENDS ProfileClient
=============================================================================
