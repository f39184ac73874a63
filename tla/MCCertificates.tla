---------------------------- MODULE MCCertificates ----------------------------
(* Certificates for TLC: one domain, and one name beneath it that nobody   *)
(* serves.                                                                 *)
EXTENDS Certificates, TLC

CONSTANTS d, s

MCWildcard == (d :> None) @@ (s :> d)
=============================================================================
