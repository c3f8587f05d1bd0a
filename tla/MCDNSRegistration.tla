--------------------------- MODULE MCDNSRegistration ---------------------------
(***************************************************************************)
(* Small instances of DNSRegistration: three servers, so that a third may  *)
(* boot on what two others left, each booting once and one of them again.  *)
(* Servers differ in nothing but their names.                              *)
(***************************************************************************)
EXTENDS DNSRegistration, TLC

CONSTANTS s1, s2, s3

Symmetry == Permutations(Servers)
=============================================================================
