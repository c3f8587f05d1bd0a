----------------------------- MODULE MCTLSVerify -----------------------------
(***************************************************************************)
(* TLSVerify with the keys and the bucket of MCUserManager: two subjects   *)
(* whose files, and the CA's, share a bucket.                              *)
(***************************************************************************)
EXTENDS TLSVerify, MCUserManager
=============================================================================
