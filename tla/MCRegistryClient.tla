--------------------------- MODULE MCRegistryClient ---------------------------
(* RegistryClient for TLC.  The two loops are taken in turn.               *)
EXTENDS RegistryClient, TLC
=============================================================================
