----------------------------- MODULE MCUserManager -----------------------------
(***************************************************************************)
(* Small instances of UserManager: one user with a key, its replacement of *)
(* the same key material under another id, and a key of its own, their     *)
(* certificates and the CA's all in one bucket.                            *)
(***************************************************************************)
EXTENDS UserManager, TLC

CONSTANTS k1, k2, k3, h1, h2, u1

OneUser == [k \in Keys |-> u1]

(* Every subject hashes to the same bucket.                                *)
OneBucket == [s \in Users \X Hashes |-> 0]

SameMaterial == k1 :> h1 @@ k2 :> h1 @@ k3 :> h2
=============================================================================
