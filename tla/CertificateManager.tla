-------------------------- MODULE CertificateManager --------------------------
(***************************************************************************)
(* The in-memory index of internal/ca/ca.go: which CA certificate of the   *)
(* capath directory is whose.  OpenSSL's layout is <name hash>.<n>, with n *)
(* counting the certificates whose subjects have the same 32-bit hash, so  *)
(* byHash holds a slice per bucket and byName, per key id, the file made   *)
(* for it last, of which only the index can change.                        *)
(*                                                                         *)
(* Add and Remove run under one lock and are functions of the index here;  *)
(* what they do to the directory is in module TLSVerify.                   *)
(***************************************************************************)
EXTENDS Naturals, Sequences

CONSTANTS
    Users,
    Keys,       \* key ids; an id belongs to one user and is never reused
    Hashes,     \* SHA-256 of public keys
    KeyOwner,   \* the user each key id is of
    HashOf,     \* the hash of each key's public key
    Buckets,    \* truncated SHA-1 of certificate subjects
    BucketOf,   \* the bucket of each subject
    CABucket,   \* the bucket of the client CA itself
    None        \* no key, no file, and the hash "" of a key that was not added

ASSUME CertificatesAssumption ==
    /\ KeyOwner \in [Keys -> Users]
    /\ HashOf \in [Keys -> Hashes]
    /\ BucketOf \in [Users \X Hashes -> Buckets]
    /\ CABucket \in Buckets
    /\ None \notin Users \cup Keys \cup Hashes \cup Nat

(* The subject of a key's certificate: common name and organizational unit.*)
Subject(k) == <<KeyOwner[k], HashOf[k]>>

Bucket(k) == BucketOf[Subject(k)]

(* byHash: the files of each bucket, a file being the key id it was made   *)
(* for, or None: the CA's, and those whose key id has a newer one.         *)
(* byName: index of the file a key id has.                                 *)
Store == [byHash : [Buckets -> Seq(Keys \cup {None})], byName : [Keys -> Nat \cup {None}]]

(* The CA's own certificate comes first and has no name.                   *)
InitialStore ==
    [byHash |-> [b \in Buckets |-> IF b = CABucket THEN <<None>> ELSE <<>>],
     byName |-> [k \in Keys |-> None]]

Files(store, k) == store.byHash[Bucket(k)]

Disowned(files, k) == [i \in 1..Len(files) |-> IF files[i] = k THEN None ELSE files[i]]

(* addCertificate: the new file goes to the end of its bucket.             *)
Added(store, k) ==
    [byHash |-> [store.byHash EXCEPT ![Bucket(k)] = Append(Disowned(@, k), k)],
     byName |-> [store.byName EXCEPT ![k] = Len(Files(store, k))]]

(* Remove dereferences byName[alias] and indexes the bucket with its index *)
(* and with the last one.                                                  *)
Removable(store, k) ==
    /\ store.byName[k] # None
    /\ store.byName[k] < Len(Files(store, k))

(* Seeded bug: the file that is moved keeps its number.                    *)
RemovedUnmoved(store, k) ==
    LET files == Files(store, k)
        index == store.byName[k]
        rest == SubSeq([files EXCEPT ![index + 1] = files[Len(files)]], 1, Len(files) - 1)
    IN  [store EXCEPT !.byHash[Bucket(k)] = rest]

(* Remove: the bucket's last file takes the number of the removed one.     *)
Removed(store, k) ==
    LET files == Files(store, k)
        index == store.byName[k]
        moved == files[Len(files)]
        rest == SubSeq([files EXCEPT ![index + 1] = moved], 1, Len(files) - 1)
    IN  [byHash |-> [store.byHash EXCEPT ![Bucket(k)] = rest],
         byName |-> [j \in Keys |-> IF j = moved THEN index ELSE store.byName[j]]]
=============================================================================
