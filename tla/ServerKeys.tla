------------------------------- MODULE ServerKeys -------------------------------
(***************************************************************************)
(* The server's identity: fetchKeys of internal/vpn/manager.go.  A booting *)
(* server that finds no server.crt beside vpn.conf makes a bundle - a CA,  *)
(* a key and a certificate - and stores its three files one after the      *)
(* other; one that finds server.crt fetches server.key and serves with     *)
(* what it found.  Several servers may boot on one bucket (deploy.md runs  *)
(* them as a DAEMON service), any call may fail, and a server may die      *)
(* between any two of them.                                                *)
(*                                                                         *)
(* A single object of the bucket is stored and read atomically, as S3      *)
(* does.  A file's content is the number of the bundle it is of.           *)
(***************************************************************************)
EXTENDS Naturals

CONSTANTS
    Servers,   \* server hosts
    MaxBoots,  \* bound on the boots of a behaviour
    None       \* the file is not there

ASSUME ConstantsAssumption ==
    /\ MaxBoots \in Nat
    /\ None \notin Nat

VARIABLES
    bucket,  \* the files beside vpn.conf
    server,  \* [pc, bundle, cert, key] of each server
    boots,   \* boots so far
    \* history
    made,    \* bundles made so far
    raced,   \* have two servers been making bundles at the same time?
    broken   \* has a server died between making a bundle and storing it all?

vars == <<bucket, server, boots, made, raced, broken>>

Files == {"server.crt", "server.key", "serverca.crt"}

Generating == {"putCert", "putKey", "putCA"}

Down == [pc |-> "down", bundle |-> None, cert |-> None, key |-> None]

Serving(cert, key) == [pc |-> "serving", bundle |-> None, cert |-> cert, key |-> key]

Init ==
    /\ bucket = [f \in Files |-> None]
    /\ server = [s \in Servers |-> Down]
    /\ boots = 0
    /\ made = 0
    /\ raced = FALSE
    /\ broken = FALSE

At(s, pc) == server[s].pc = pc

-----------------------------------------------------------------------------
Boot(s) ==
    /\ server[s].pc \in {"down", "refused"}
    /\ boots < MaxBoots
    /\ boots' = boots + 1
    /\ server' = [server EXCEPT ![s] = [Down EXCEPT !.pc = "fetchCert"]]
    /\ UNCHANGED <<bucket, made, raced, broken>>

(* Seeded bug: a bundle is made whenever one of its files is missing.      *)
MakeBundleAnew(s) ==
    /\ At(s, "fetchCert") /\ \E f \in Files : bucket[f] = None
    /\ made' = made + 1
    /\ server' = [server EXCEPT ![s].pc = "putCert", ![s].bundle = made + 1]
    /\ raced' = (raced \/ \E t \in Servers : server[t].pc \in Generating)
    /\ UNCHANGED <<bucket, boots, broken>>

(* MakeServerCertificate: no server.crt was found.                         *)
MakeBundle(s) ==
    /\ At(s, "fetchCert") /\ bucket["server.crt"] = None
    /\ made' = made + 1
    /\ server' = [server EXCEPT ![s].pc = "putCert", ![s].bundle = made + 1]
    /\ raced' = (raced \/ \E t \in Servers : server[t].pc \in Generating)
    /\ UNCHANGED <<bucket, boots, broken>>

FetchCert(s) ==
    /\ At(s, "fetchCert") /\ bucket["server.crt"] # None
    /\ server' = [server EXCEPT ![s].pc = "fetchKey", ![s].cert = bucket["server.crt"]]
    /\ UNCHANGED <<bucket, boots, made, raced, broken>>

Store(s, pc, file, next) ==
    /\ At(s, pc)
    /\ bucket' = [bucket EXCEPT ![file] = server[s].bundle]
    /\ server' = [server EXCEPT ![s].pc = next]
    /\ UNCHANGED <<boots, made, raced, broken>>

PutCert(s) == Store(s, "putCert", "server.crt", "putKey")

(* Seeded bug: the key is forgotten.                                       *)
PutKeyLost(s) ==
    /\ At(s, "putKey")
    /\ server' = [server EXCEPT ![s].pc = "putCA"]
    /\ UNCHANGED <<bucket, boots, made, raced, broken>>

PutKey(s) == Store(s, "putKey", "server.key", "putCA")

(* Seeded bug: the CA is not stored.                                       *)
PutCALost(s) ==
    /\ At(s, "putCA")
    /\ server' = [server EXCEPT ![s] = Serving(server[s].bundle, server[s].bundle)]
    /\ UNCHANGED <<bucket, boots, made, raced, broken>>

(* The third file is stored, and the bundle's own pair is served.          *)
PutCA(s) ==
    /\ At(s, "putCA")
    /\ bucket' = [bucket EXCEPT !["serverca.crt"] = server[s].bundle]
    /\ server' = [server EXCEPT ![s] = Serving(server[s].bundle, server[s].bundle)]
    /\ UNCHANGED <<boots, made, raced, broken>>

(* Seeded bug: the key that is not there is served.                        *)
FetchKeyUnchecked(s) ==
    /\ At(s, "fetchKey")
    /\ server' = [server EXCEPT ![s] = Serving(@.cert, bucket["server.key"])]
    /\ UNCHANGED <<bucket, boots, made, raced, broken>>

(* "Unable to load server key" ends the program.                           *)
FetchKey(s) ==
    /\ At(s, "fetchKey")
    /\ server' = [server EXCEPT ![s] = IF bucket["server.key"] = None
                                         THEN [Down EXCEPT !.pc = "refused"]
                                         ELSE Serving(@.cert, bucket["server.key"])]
    /\ UNCHANGED <<bucket, boots, made, raced, broken>>

(* A call fails and BootVPN gives up, or the server is stopped or dies.    *)
Exit(s) ==
    /\ server[s].pc \notin {"down", "refused"}
    /\ server' = [server EXCEPT ![s] = Down]
    /\ broken' = (broken \/ server[s].pc \in Generating)
    /\ UNCHANGED <<bucket, boots, made, raced>>

Next ==
    \E s \in Servers :
        \/ Boot(s) \/ Exit(s)
        \/ MakeBundle(s) \/ PutCert(s) \/ PutKey(s) \/ PutCA(s)
        \/ FetchCert(s) \/ FetchKey(s)

Spec == Init /\ [][Next]_vars

-----------------------------------------------------------------------------
(***************************************************************************)
(* Properties.                                                             *)
(***************************************************************************)

(* Every variable keeps its shape; a server that makes a bundle has one, a *)
(* server that serves has a certificate and a key.                         *)
TypeOK ==
    /\ bucket \in [Files -> Nat \cup {None}]
    /\ server \in [Servers -> [pc : {"down", "refused", "fetchCert", "fetchKey", "serving"}
                                        \cup Generating,
                               bundle : Nat \cup {None},
                               cert : Nat \cup {None}, key : Nat \cup {None}]]
    /\ \A s \in Servers :
          /\ server[s].pc \in Generating => server[s].bundle # None
          /\ server[s].pc \in {"fetchKey", "serving"} => server[s].cert # None
          /\ server[s].pc = "serving" => server[s].key # None
    /\ boots \in Nat /\ made \in Nat
    /\ raced \in BOOLEAN /\ broken \in BOOLEAN

(* As long as no two servers made bundles at the same time, there is one   *)
(* identity, whoever died when (manager.go:167-226): all stored files are  *)
(* of one bundle, and who serves does so with the stored certificate and   *)
(* the key that belongs to it.                                             *)
OneIdentity ==
    ~raced =>
        /\ \A f, g \in Files : bucket[f] # None /\ bucket[g] # None => bucket[f] = bucket[g]
        /\ \A s \in Servers : At(s, "serving") =>
              server[s].cert = bucket["server.crt"] /\ server[s].key = server[s].cert

Settled ==
    /\ bucket["server.crt"] # None
    /\ \A s \in Servers : server[s].pc \notin Generating

(* Once a certificate is stored and nobody is about to store anything, the *)
(* files stay what they are for ever, through any boots and exits          *)
(* (manager.go:168-198): the clients that trust serverca.crt are not       *)
(* disowned by a restart.                                                  *)
StaysSettled == [][Settled => Settled' /\ UNCHANGED bucket]_vars

(* A boot is refused for want of server.key (manager.go:211-214) only      *)
(* while another server is making a bundle, or after one died doing so.    *)
RefusedExplained ==
    [][\A s \in Servers :
          (~At(s, "refused") /\ server'[s].pc = "refused")
          => broken \/ \E t \in Servers : server[t].pc \in Generating]_vars

(* "Once the server starts, it will automatically generate 3 files next to *)
(* the `vpn.conf`" (deploy.md:220): with a server serving and nobody       *)
(* storing, the files are there - unless a server has died after making a  *)
(* bundle and before storing all of it, which no later boot makes good     *)
(* (manager.go:174).                                                       *)
StoredUnlessBroken ==
    ~broken => \A s \in Servers : At(s, "serving") /\ Settled
                                  => \A f \in Files : bucket[f] # None
=============================================================================
