--------------------------- MODULE ServerKeysProofs ---------------------------
(***************************************************************************)
(* Proofs about ServerKeys, and about DNSRegistration, which extends it,   *)
(* for any number of servers and boots.                                    *)
(***************************************************************************)
EXTENDS DNSRegistration, TLAPS

PCs == {"down", "refused", "fetchCert", "fetchKey", "serving"} \cup Generating

Server == [pc : PCs, bundle : Nat \cup {None}, cert : Nat \cup {None}, key : Nat \cup {None}]

(***************************************************************************)
(* OneIdentity is not inductive: it takes that without a race only one     *)
(* server is making a bundle, that it found an empty bucket, and that it   *)
(* alone has stored what is there; that a server that has fetched the      *)
(* certificate still has the one that is stored; and, race or not, that    *)
(* the certificate is stored before the other files.                       *)
(***************************************************************************)
Alone ==
    \A s, t \in Servers :
        server[s].pc \in Generating /\ server[t].pc \in Generating => s = t

Ours ==
    \A s \in Servers :
        /\ At(s, "putCert") => \A f \in Files : bucket[f] = None
        /\ server[s].pc \in {"putKey", "putCA"} =>
              /\ bucket["server.crt"] = server[s].bundle
              /\ \A f \in Files : bucket[f] \in {None, server[s].bundle}

CertFirst ==
    /\ \A f \in Files : bucket[f] # None => bucket["server.crt"] # None
    /\ \A s \in Servers : server[s].pc \in {"putKey", "putCA"} => bucket["server.crt"] # None

Fetched == \A s \in Servers : At(s, "fetchKey") => server[s].cert = bucket["server.crt"]

IdentityInv ==
    /\ TypeOK
    /\ CertFirst
    /\ ~raced => Alone /\ Ours /\ Fetched /\ OneIdentity

Sound(r) ==
    /\ r.pc \in Generating => r.bundle # None
    /\ r.pc \in {"fetchKey", "serving"} => r.cert # None
    /\ r.pc = "serving" => r.key # None

(* A step of one server that leaves that server well-typed.                *)
LEMMA TypeOfStep ==
    ASSUME TypeOK, NEW s \in Servers, NEW r \in Server, Sound(r),
           server' = [server EXCEPT ![s] = r],
           bucket' \in [Files -> Nat \cup {None}],
           boots' \in Nat, made' \in Nat, raced' \in BOOLEAN, broken' \in BOOLEAN
    PROVE  TypeOK'
<1>1. server \in [Servers -> Server] /\ \A t \in Servers : Sound(server[t])
  BY DEF TypeOK, Server, PCs, Sound
<1>2. server' \in [Servers -> Server] /\ \A t \in Servers : Sound(server'[t])
  BY <1>1
<1> QED BY <1>2 DEF TypeOK, Server, PCs, Sound

LEMMA TypeStep == TypeOK /\ [Next]_vars => TypeOK'
<1> SUFFICES ASSUME TypeOK, [Next]_vars PROVE TypeOK'
  OBVIOUS
<1> USE ConstantsAssumption
<1>0. /\ bucket \in [Files -> Nat \cup {None}]
      /\ boots \in Nat /\ made \in Nat /\ raced \in BOOLEAN /\ broken \in BOOLEAN
      /\ \A s \in Servers : server[s] \in Server /\ Sound(server[s])
  BY DEF TypeOK, Server, PCs, Sound
<1>1. ASSUME NEW s \in Servers, Boot(s) PROVE TypeOK'
  <2> DEFINE r == [Down EXCEPT !.pc = "fetchCert"]
  <2>1. r \in Server /\ Sound(r)
    BY DEF Down, Server, PCs, Sound, Generating
  <2>2. server' = [server EXCEPT ![s] = r]
    BY <1>1 DEF Boot
  <2>3. /\ bucket' \in [Files -> Nat \cup {None}] /\ boots' \in Nat /\ made' \in Nat
        /\ raced' \in BOOLEAN /\ broken' \in BOOLEAN
    BY <1>0, <1>1 DEF Boot
  <2> HIDE DEF r
  <2> QED BY <2>1, <2>2, <2>3, TypeOfStep
<1>2. ASSUME NEW s \in Servers, Exit(s) PROVE TypeOK'
  <2>1. Down \in Server /\ Sound(Down)
    BY DEF Down, Server, PCs, Sound, Generating
  <2> QED BY <1>0, <1>2, <2>1, TypeOfStep DEF Exit
<1>3. ASSUME NEW s \in Servers, MakeBundle(s) PROVE TypeOK'
  <2> DEFINE r == [server[s] EXCEPT !.pc = "putCert", !.bundle = made + 1]
  <2>0. made + 1 \in Nat /\ made + 1 # None
    BY <1>0
  <2>1. r \in Server /\ Sound(r)
    <3> DEFINE b == made + 1
    <3> HIDE DEF b
    <3>1. [server[s] EXCEPT !.pc = "putCert", !.bundle = b] \in Server
      BY <1>0, <2>0 DEF Server, PCs, Generating, b
    <3>2. Sound([server[s] EXCEPT !.pc = "putCert", !.bundle = b])
      BY <1>0, <2>0 DEF Server, Sound, Generating, b
    <3> QED BY <3>1, <3>2 DEF b
  <2>2. server' = [server EXCEPT ![s] = r]
    BY <1>0, <1>3 DEF MakeBundle
  <2>3. raced' \in BOOLEAN
    BY <1>3 DEF MakeBundle
  <2>4. /\ bucket' \in [Files -> Nat \cup {None}] /\ boots' \in Nat /\ made' \in Nat
        /\ broken' \in BOOLEAN
    BY <1>0, <1>3 DEF MakeBundle
  <2> HIDE DEF r
  <2> QED BY <2>1, <2>2, <2>3, <2>4, TypeOfStep
<1>4. ASSUME NEW s \in Servers, NEW pc \in Generating, NEW file \in Files,
             NEW next \in Generating, Store(s, pc, file, next)
      PROVE  TypeOK'
  <2> DEFINE r == [server[s] EXCEPT !.pc = next]
  <2>1. r \in Server /\ Sound(r) /\ server[s].bundle \in Nat \cup {None}
    BY <1>0, <1>4 DEF Server, PCs, Sound, Generating, Store, At
  <2>2. server' = [server EXCEPT ![s] = r]
    BY <1>0, <1>4 DEF Store
  <2>3. bucket' \in [Files -> Nat \cup {None}]
    BY <1>0, <1>4, <2>1 DEF Store
  <2> HIDE DEF r
  <2> QED BY <1>0, <1>4, <2>1, <2>2, <2>3, TypeOfStep DEF Store
<1>5. ASSUME NEW s \in Servers, PutCert(s) \/ PutKey(s) PROVE TypeOK'
  BY <1>4, <1>5 DEF PutCert, PutKey, Generating, Files
<1>6. ASSUME NEW s \in Servers, PutCA(s) PROVE TypeOK'
  <2> DEFINE r == Serving(server[s].bundle, server[s].bundle)
  <2>1. r \in Server /\ Sound(r) /\ server[s].bundle \in Nat \cup {None}
    BY <1>0, <1>6 DEF Server, PCs, Sound, Generating, Serving, PutCA, At
  <2>2. server' = [server EXCEPT ![s] = r]
    BY <1>0, <1>6 DEF PutCA
  <2>3. bucket' \in [Files -> Nat \cup {None}]
    BY <1>0, <1>6, <2>1 DEF PutCA
  <2> HIDE DEF r
  <2> QED BY <1>0, <1>6, <2>1, <2>2, <2>3, TypeOfStep DEF PutCA
<1>7. ASSUME NEW s \in Servers, FetchCert(s) PROVE TypeOK'
  <2> DEFINE r == [server[s] EXCEPT !.pc = "fetchKey", !.cert = bucket["server.crt"]]
  <2>1. r \in Server /\ Sound(r)
    BY <1>0, <1>7 DEF Server, PCs, Sound, Generating, FetchCert, Files
  <2>2. server' = [server EXCEPT ![s] = r]
    BY <1>0, <1>7 DEF FetchCert
  <2> HIDE DEF r
  <2> QED BY <1>0, <1>7, <2>1, <2>2, TypeOfStep DEF FetchCert
<1>8. ASSUME NEW s \in Servers, FetchKey(s) PROVE TypeOK'
  <2> DEFINE r == IF bucket["server.key"] = None
                    THEN [Down EXCEPT !.pc = "refused"]
                    ELSE Serving(server[s].cert, bucket["server.key"])
  <2>1. r \in Server /\ Sound(r)
    <3>1. /\ server[s].cert \in Nat \cup {None} /\ server[s].cert # None
          /\ bucket["server.key"] \in Nat \cup {None}
      BY <1>0, <1>8 DEF Server, Sound, FetchKey, At, Files
    <3>2. CASE bucket["server.key"] = None
      BY <3>2 DEF Server, PCs, Sound, Generating, Down
    <3>3. CASE bucket["server.key"] # None
      BY <3>1, <3>3 DEF Server, PCs, Sound, Generating, Serving
    <3> QED BY <3>2, <3>3
  <2>2. server' = [server EXCEPT ![s] = r]
    BY <1>0, <1>8 DEF FetchKey
  <2> HIDE DEF r
  <2> QED BY <1>0, <1>8, <2>1, <2>2, TypeOfStep DEF FetchKey
<1>9. CASE UNCHANGED vars
  BY <1>9 DEF vars, TypeOK, At
<1> QED BY <1>1, <1>2, <1>3, <1>5, <1>6, <1>7, <1>8, <1>9 DEF Next

LEMMA TypeInit == Init => TypeOK
<1> SUFFICES ASSUME Init PROVE TypeOK
  OBVIOUS
<1>1. server \in [Servers -> Server] /\ \A s \in Servers : Sound(server[s])
  BY DEF Init, Down, Server, PCs, Generating, Sound
<1>2. bucket \in [Files -> Nat \cup {None}]
  BY DEF Init
<1> QED BY <1>1, <1>2 DEF Init, TypeOK, Server, PCs, Sound

(* Type correctness: whoever serves has a certificate and a key.           *)
THEOREM TypeCorrect == Spec => []TypeOK
BY TypeInit, TypeStep, PTL DEF Spec

LEMMA IdentityStep == IdentityInv /\ [Next]_vars => IdentityInv'
<1> SUFFICES ASSUME IdentityInv, [Next]_vars PROVE IdentityInv'
  OBVIOUS
<1>1. TypeOK'
  BY TypeStep DEF IdentityInv
<1>2. /\ bucket \in [Files -> Nat \cup {None}] /\ server \in [Servers -> Server]
      /\ raced \in BOOLEAN /\ CertFirst
      /\ \A t \in Servers : Sound(server[t])
  BY DEF IdentityInv, TypeOK, Server, PCs, Sound
<1>3. ~raced => Alone /\ Ours /\ Fetched /\ OneIdentity
  BY DEF IdentityInv
<1> USE DEF Alone, Ours, Fetched, OneIdentity, CertFirst, At, Generating, Files
<1>4. ASSUME NEW s \in Servers, Boot(s) \/ Exit(s) PROVE IdentityInv'
  <2>1. /\ bucket' = bucket /\ raced' = raced
        /\ server'[s].pc \in {"fetchCert", "down"}
        /\ \A t \in Servers : t # s => server'[t] = server[t]
    BY <1>2, <1>4 DEF Boot, Exit, Down
  <2>2. ~raced' => Alone' /\ Ours' /\ Fetched' /\ OneIdentity'
    BY <1>3, <2>1
  <2> QED BY <1>1, <1>2, <2>1, <2>2 DEF IdentityInv
<1>5. ASSUME NEW s \in Servers, MakeBundle(s) PROVE IdentityInv'
  <2>1. /\ bucket' = bucket
        /\ bucket["server.crt"] = None
        /\ server'[s].pc = "putCert"
        /\ \A t \in Servers : t # s => server'[t] = server[t]
    BY <1>2, <1>5 DEF MakeBundle
  <2>2. ~raced' => ~raced /\ \A t \in Servers : server[t].pc \notin Generating
    BY <1>5 DEF MakeBundle
  <2>3. \A f \in Files : bucket[f] = None
    BY <1>2, <2>1
  <2>4. ~raced' => Alone' /\ Ours' /\ Fetched' /\ OneIdentity'
    BY <1>3, <2>1, <2>2, <2>3
  <2> QED BY <1>1, <1>2, <2>1, <2>4 DEF IdentityInv
<1>6. ASSUME NEW s \in Servers, PutCert(s) PROVE IdentityInv'
  <2> DEFINE b == server[s].bundle
  <2>1. /\ bucket' = [bucket EXCEPT !["server.crt"] = b] /\ raced' = raced
        /\ server[s].pc = "putCert"
        /\ server'[s].pc = "putKey" /\ server'[s].bundle = b /\ b # None
        /\ \A t \in Servers : t # s => server'[t] = server[t]
    BY <1>2, <1>6 DEF PutCert, Store, Server, Sound
  <2> HIDE DEF b
  <2>2. bucket'["server.crt"] = b /\ \A f \in Files \ {"server.crt"} : bucket'[f] = bucket[f]
    BY <1>2, <2>1
  <2>3. ~raced => \A t \in Servers \ {s} :
                    server[t].pc \notin Generating \cup {"fetchKey", "serving"}
    BY <1>2, <1>3, <2>1 DEF Sound
  <2>4. ~raced' => Alone' /\ Ours' /\ Fetched' /\ OneIdentity'
    BY <1>3, <2>1, <2>2, <2>3
  <2>5. CertFirst'
    BY <2>1, <2>2
  <2> QED BY <1>1, <2>4, <2>5 DEF IdentityInv
<1>7. ASSUME NEW s \in Servers, PutKey(s) PROVE IdentityInv'
  <2> DEFINE b == server[s].bundle
  <2>1. /\ bucket' = [bucket EXCEPT !["server.key"] = b] /\ raced' = raced
        /\ server[s].pc = "putKey"
        /\ server'[s].pc = "putCA" /\ server'[s].bundle = b /\ b # None
        /\ \A t \in Servers : t # s => server'[t] = server[t]
    BY <1>2, <1>7 DEF PutKey, Store, Server, Sound
  <2> HIDE DEF b
  <2>2. bucket'["server.key"] = b /\ \A f \in Files \ {"server.key"} : bucket'[f] = bucket[f]
    BY <1>2, <2>1
  <2>3. ~raced => bucket["server.crt"] = b /\ \A f \in Files : bucket[f] \in {None, b}
    BY <1>3, <2>1 DEF b
  <2>4. ~raced' => Alone' /\ Ours' /\ Fetched' /\ OneIdentity'
    BY <1>3, <2>1, <2>2, <2>3
  <2>5. CertFirst'
    BY <1>2, <2>1, <2>2
  <2> QED BY <1>1, <2>4, <2>5 DEF IdentityInv
<1>8. ASSUME NEW s \in Servers, PutCA(s) PROVE IdentityInv'
  <2> DEFINE b == server[s].bundle
  <2>1. /\ bucket' = [bucket EXCEPT !["serverca.crt"] = b] /\ raced' = raced
        /\ server[s].pc = "putCA"
        /\ server'[s].pc = "serving" /\ server'[s].cert = b /\ server'[s].key = b /\ b # None
        /\ \A t \in Servers : t # s => server'[t] = server[t]
    BY <1>2, <1>8 DEF PutCA, Server, Sound, Serving
  <2> HIDE DEF b
  <2>2. bucket'["serverca.crt"] = b /\ \A f \in Files \ {"serverca.crt"} : bucket'[f] = bucket[f]
    BY <1>2, <2>1
  <2>3. ~raced => bucket["server.crt"] = b /\ \A f \in Files : bucket[f] \in {None, b}
    BY <1>3, <2>1 DEF b
  <2>4. ~raced' => Alone' /\ Ours' /\ Fetched' /\ OneIdentity'
    BY <1>3, <2>1, <2>2, <2>3
  <2>5. CertFirst'
    BY <1>2, <2>1, <2>2
  <2> QED BY <1>1, <2>4, <2>5 DEF IdentityInv
<1>9. ASSUME NEW s \in Servers, FetchCert(s) \/ FetchKey(s) PROVE IdentityInv'
  <2>1. /\ bucket' = bucket /\ raced' = raced
        /\ \/ server'[s].pc = "fetchKey" /\ server'[s].cert = bucket["server.crt"]
           \/ server'[s].pc = "refused"
           \/ /\ server[s].pc = "fetchKey" /\ server'[s].pc = "serving"
              /\ server'[s].cert = server[s].cert
              /\ server'[s].key = bucket["server.key"] /\ bucket["server.key"] # None
        /\ \A t \in Servers : t # s => server'[t] = server[t]
    <3>1. CASE FetchCert(s)
      BY <1>2, <3>1 DEF FetchCert, Server
    <3>2. CASE FetchKey(s)
      BY <1>2, <3>2 DEF FetchKey, Server, Serving, Down
    <3> QED BY <1>9, <3>1, <3>2
  <2>2. ~raced' => Alone' /\ Ours' /\ Fetched' /\ OneIdentity'
    BY <1>2, <1>3, <2>1
  <2> QED BY <1>1, <1>2, <2>1, <2>2 DEF IdentityInv
<1>10. CASE UNCHANGED vars
  BY <1>10 DEF vars, IdentityInv, TypeOK
<1> QED BY <1>4, <1>5, <1>6, <1>7, <1>8, <1>9, <1>10 DEF Next

(* One identity as long as no two servers made bundles at the same time.   *)
THEOREM IdentityUnique == Spec => []OneIdentity
<1>1. Init => IdentityInv
  <2> SUFFICES ASSUME Init PROVE IdentityInv
    OBVIOUS
  <2>1. TypeOK
    BY TypeInit
  <2> QED BY <2>1 DEF Init, IdentityInv, CertFirst, Alone, Ours, Fetched, OneIdentity, At,
                  Generating, Down, Files
<1>2. IdentityInv /\ ~raced => OneIdentity
  BY DEF IdentityInv
<1>3. IdentityInv => OneIdentity
  BY <1>2 DEF OneIdentity
<1> QED BY <1>1, <1>3, IdentityStep, PTL DEF Spec

-----------------------------------------------------------------------------
(***************************************************************************)
(* What is still missing of a stored bundle is about to be stored, unless  *)
(* its maker has died.  RefusedExplained and StoredUnlessBroken follow;    *)
(* neither says enough of the servers to be inductive.                     *)
(***************************************************************************)
Completed ==
    ~broken /\ bucket["server.crt"] # None =>
        /\ bucket["server.key"] # None \/ \E s \in Servers : At(s, "putKey")
        /\ \/ bucket["serverca.crt"] # None
           \/ \E s \in Servers : server[s].pc \in {"putKey", "putCA"}

CertFound == \A s \in Servers : At(s, "fetchKey") => bucket["server.crt"] # None

CompletionInv == TypeOK /\ Completed /\ CertFound

LEMMA CompletionInit == Init => CompletionInv
BY TypeInit DEF Init, CompletionInv, Completed, CertFound, At, Down, Files

LEMMA CompletionStep == CompletionInv /\ [Next]_vars => CompletionInv'
<1> SUFFICES ASSUME CompletionInv, [Next]_vars PROVE CompletionInv'
  OBVIOUS
<1>1. TypeOK'
  BY TypeStep DEF CompletionInv
<1>2. /\ bucket \in [Files -> Nat \cup {None}] /\ server \in [Servers -> Server]
      /\ broken \in BOOLEAN /\ \A t \in Servers : Sound(server[t])
  BY DEF CompletionInv, TypeOK, Server, PCs, Sound
<1>3. Completed /\ CertFound
  BY DEF CompletionInv
<1> USE DEF Completed, CertFound, At, Generating, Files
<1>4. ASSUME NEW s \in Servers, Boot(s) \/ FetchCert(s) \/ FetchKey(s)
      PROVE  CompletionInv'
  <2>1. /\ bucket' = bucket /\ broken' = broken
        /\ server[s].pc \notin Generating
        /\ server'[s].pc = "fetchKey" => bucket["server.crt"] # None
        /\ \A t \in Servers : t # s => server'[t] = server[t]
    BY <1>2, <1>4 DEF Boot, FetchCert, FetchKey, Down, Serving, Server
  <2> QED BY <1>1, <1>3, <2>1 DEF CompletionInv
<1>5. ASSUME NEW s \in Servers, Exit(s) PROVE CompletionInv'
  <2>1. /\ bucket' = bucket
        /\ ~broken' => ~broken /\ server[s].pc \notin Generating
        /\ server'[s].pc = "down"
        /\ \A t \in Servers : t # s => server'[t] = server[t]
    BY <1>2, <1>5 DEF Exit, Down
  <2> QED BY <1>1, <1>3, <2>1 DEF CompletionInv
<1>6. ASSUME NEW s \in Servers, MakeBundle(s) PROVE CompletionInv'
  <2>1. /\ bucket' = bucket /\ broken' = broken
        /\ bucket["server.crt"] = None
        /\ server'[s].pc = "putCert"
        /\ \A t \in Servers : t # s => server'[t] = server[t]
    BY <1>2, <1>6 DEF MakeBundle
  <2> QED BY <1>1, <1>3, <2>1 DEF CompletionInv
<1>7. ASSUME NEW s \in Servers, PutCert(s) PROVE CompletionInv'
  <2>1. /\ server'[s].pc = "putKey" /\ broken' = broken
        /\ bucket'["server.crt"] # None
        /\ \A t \in Servers : t # s => server'[t] = server[t]
    BY <1>2, <1>7 DEF PutCert, Store, Sound, Server
  <2> QED BY <1>1, <1>3, <2>1 DEF CompletionInv
<1>8. ASSUME NEW s \in Servers, PutKey(s) PROVE CompletionInv'
  <2>1. /\ server'[s].pc = "putCA" /\ broken' = broken
        /\ bucket'["server.crt"] = bucket["server.crt"] /\ bucket'["server.key"] # None
        /\ \A t \in Servers : t # s => server'[t] = server[t]
    BY <1>2, <1>8 DEF PutKey, Store, Sound, Server
  <2> QED BY <1>1, <1>3, <2>1 DEF CompletionInv
<1>9. ASSUME NEW s \in Servers, PutCA(s) PROVE CompletionInv'
  <2>1. /\ server[s].pc = "putCA" /\ server'[s].pc = "serving" /\ broken' = broken
        /\ bucket'["server.crt"] = bucket["server.crt"]
        /\ bucket'["server.key"] = bucket["server.key"] /\ bucket'["serverca.crt"] # None
        /\ \A t \in Servers : t # s => server'[t] = server[t]
    BY <1>2, <1>9 DEF PutCA, Serving, Sound, Server
  <2> QED BY <1>1, <1>3, <2>1 DEF CompletionInv
<1>10. CASE UNCHANGED vars
  BY <1>10 DEF vars, CompletionInv, TypeOK
<1> QED BY <1>4, <1>5, <1>6, <1>7, <1>8, <1>9, <1>10 DEF Next

(* Where a server serves and nobody is storing, all three files are there, *)
(* unless a server died before it had stored them (manager.go:174-201).    *)
THEOREM StoredWhole == Spec => []StoredUnlessBroken
<1>1. CompletionInv => StoredUnlessBroken
  BY DEF CompletionInv, Completed, StoredUnlessBroken, Settled, Generating, Files, At
<1> QED BY <1>1, CompletionInit, CompletionStep, PTL DEF Spec

(* Only a bundle half stored, or one half of which is lost, refuses a boot *)
(* (manager.go:209-217).                                                   *)
THEOREM RefusalsExplained == Spec => RefusedExplained
<1>1. ASSUME CompletionInv, [Next]_vars, NEW s \in Servers,
             ~At(s, "refused"), server'[s].pc = "refused"
      PROVE  broken \/ \E t \in Servers : server[t].pc \in Generating
  <2>1. server \in [Servers -> Server]
    BY <1>1 DEF CompletionInv, TypeOK, Server, PCs
  <2>2. FetchKey(s)
    <3>1. ASSUME NEW t \in Servers,
                 Boot(t) \/ Exit(t) \/ MakeBundle(t) \/ PutCert(t) \/ PutKey(t) \/ PutCA(t)
                 \/ FetchCert(t)
          PROVE  server'[s] = server[s] \/ server'[s].pc # "refused"
      <4>1. CASE t # s
        BY <2>1, <3>1, <4>1 DEF Boot, Exit, MakeBundle, PutCert, PutKey, PutCA, Store, FetchCert
      <4>2. CASE t = s
        BY <2>1, <3>1, <4>2 DEF Boot, Exit, MakeBundle, PutCert, PutKey, PutCA, Store,
                                FetchCert, Serving, Down, Server
      <4> QED BY <4>1, <4>2
    <3>2. ASSUME NEW t \in Servers, FetchKey(t) PROVE t = s \/ server'[s] = server[s]
      BY <2>1, <3>2 DEF FetchKey
    <3>3. CASE UNCHANGED vars
      BY <1>1, <3>3 DEF vars, At
    <3> QED BY <1>1, <3>1, <3>2, <3>3 DEF Next, At
  <2>3. bucket["server.key"] = None /\ bucket["server.crt"] # None
    BY <1>1, <2>1, <2>2 DEF FetchKey, Serving, CompletionInv, CertFound, Server
  <2> QED BY <1>1, <2>3 DEF CompletionInv, Completed, At, Generating
<1>2. CompletionInv /\ [Next]_vars =>
        [\A s \in Servers :
           (~At(s, "refused") /\ server'[s].pc = "refused")
           => broken \/ \E t \in Servers : server[t].pc \in Generating]_vars
  BY <1>1
<1> QED BY <1>2, CompletionInit, CompletionStep, PTL DEF Spec, RefusedExplained

(* The files of a settled bucket are never written again, race or no race  *)
(* (manager.go:168-174): no restart disowns the clients that trust them.   *)
THEOREM SettledForEver == Spec => StaysSettled
<1>1. ASSUME TypeOK, [Next]_vars, Settled PROVE Settled' /\ UNCHANGED bucket
  <2>1. server \in [Servers -> Server]
    BY <1>1 DEF TypeOK, Server, PCs
  <2> USE DEF Settled, Generating, At
  <2>2. ASSUME NEW s \in Servers, Boot(s) \/ Exit(s) \/ FetchCert(s) \/ FetchKey(s)
        PROVE  Settled' /\ UNCHANGED bucket
    <3>1. /\ bucket' = bucket
          /\ server'[s].pc \in {"fetchCert", "down", "fetchKey", "refused", "serving"}
          /\ \A t \in Servers : t # s => server'[t] = server[t]
      BY <2>1, <2>2 DEF Boot, Exit, FetchCert, FetchKey, Serving, Down, Server
    <3> QED BY <1>1, <3>1
  <2>3. ASSUME NEW s \in Servers, MakeBundle(s) \/ PutCert(s) \/ PutKey(s) \/ PutCA(s)
        PROVE  FALSE
    BY <1>1, <2>3 DEF MakeBundle, PutCert, PutKey, PutCA, Store
  <2>4. CASE UNCHANGED vars
    BY <1>1, <2>4 DEF vars
  <2> QED BY <1>1, <2>2, <2>3, <2>4 DEF Next
<1>2. TypeOK /\ [Next]_vars => [Settled => Settled' /\ UNCHANGED bucket]_vars
  BY <1>1
<1> QED BY <1>2, TypeInit, TypeStep, PTL DEF Spec, StaysSettled

-----------------------------------------------------------------------------
(***************************************************************************)
(* DNSRegistration is ServerKeys with something added, so that what has    *)
(* been proved above holds of the fleet; and a registration is not undone  *)
(* by others.                                                              *)
(***************************************************************************)
LEMMA FleetStep == [FleetNext]_fleetVars => [Next]_vars
<1> SUFFICES ASSUME [FleetNext]_fleetVars PROVE [Next]_vars
  OBVIOUS
<1>1. ASSUME NEW s \in Servers,
             \/ Register(s) \/ ServeUnregistered(s) \/ RegisterFails(s)
             \/ Stop(s) \/ Unregister(s)
      PROVE  UNCHANGED vars
  BY <1>1 DEF Register, ServeUnregistered, RegisterFails, Stop, Unregister
<1>2. ASSUME NEW s \in Servers, ExitRegistered(s) PROVE Next
  BY <1>2 DEF ExitRegistered, Next
<1>3. ASSUME NEW s \in Servers,
             Boot(s) \/ MakeBundle(s) \/ PutCert(s) \/ PutKey(s) \/ PutCA(s)
             \/ FetchCert(s) \/ FetchKey(s)
      PROVE  Next
  BY <1>3 DEF Next
<1>4. CASE UNCHANGED fleetVars
  BY <1>4 DEF fleetVars
<1> QED BY <1>1, <1>2, <1>3, <1>4 DEF FleetNext

(* The servers that register boot as ServerKeys says (manager.go:144-151,  *)
(* 476): registration adds nothing to what they do with the bucket.        *)
THEOREM FleetImplementsKeys == FleetSpec => Spec
<1>1. FleetInit => Init
  BY DEF FleetInit
<1> QED BY <1>1, FleetStep, PTL DEF FleetSpec, Spec

(* A fleet under one name has one identity as long as no two servers made  *)
(* bundles at the same time.                                               *)
THEOREM FleetIdentityUnique == FleetSpec => []OneIdentity
BY FleetImplementsKeys, IdentityUnique, PTL

-----------------------------------------------------------------------------
(* A step of a server that is not serving leaves alone who is.             *)
LEMMA OthersServe ==
    ASSUME TypeOK, FleetTypeOK, NEW s \in Servers,
           Boot(s) \/ MakeBundle(s) \/ PutCert(s) \/ PutKey(s) \/ PutCA(s)
           \/ FetchCert(s) \/ FetchKey(s)
    PROVE  \A t \in Servers : At(t, "serving") => server'[t] = server[t]
<1>1. server \in [Servers -> Server]
  BY DEF TypeOK, Server, PCs
<1>2. ~At(s, "serving")
  BY DEF Boot, MakeBundle, PutCert, PutKey, PutCA, FetchCert, FetchKey, Store, At
<1>3. \A t \in Servers : t # s => server'[t] = server[t]
  BY <1>1 DEF Boot, MakeBundle, PutCert, PutKey, PutCA, FetchCert, FetchKey, Store
<1> QED BY <1>2, <1>3

LEMMA FleetTypeStep ==
    ASSUME TypeOK, FleetTypeOK, [FleetNext]_fleetVars
    PROVE  FleetTypeOK'
<1> USE FleetAssumption
<1>1. ASSUME NEW s \in Servers,
             Register(s) \/ ServeUnregistered(s) \/ RegisterFails(s)
             \/ Stop(s) \/ Unregister(s)
      PROVE  FleetTypeOK'
  <2>1. weighted' = weighted /\ server' = server
    BY <1>1 DEF Register, ServeUnregistered, RegisterFails, Stop, Unregister, vars
  <2>2. records' = records \/ Upsert(s)
    BY <1>1 DEF Register, ServeUnregistered, RegisterFails, Stop, Unregister
  <2>3. records' \in [Servers \cup {None} -> Servers \cup {None}]
    BY <2>2 DEF FleetTypeOK, Upsert, Identifier
  <2>4. \E d \in {"registered", "unregistered", "stopping", "stopped"} :
           dns' = [dns EXCEPT ![s] = d]
    BY <1>1 DEF FleetTypeOK, Register, ServeUnregistered, RegisterFails, Stop, Unregister
  <2>5. At(s, "serving")
    BY <1>1 DEF FleetTypeOK, Register, ServeUnregistered, RegisterFails, Stop, Unregister
  <2>6. calm' \in BOOLEAN
    BY <1>1 DEF FleetTypeOK, Register, ServeUnregistered, RegisterFails, Stop, Unregister
  <2>7. dns' \in [Servers -> {"none", "registered", "unregistered", "stopping", "stopped"}]
    BY <2>4 DEF FleetTypeOK
  <2>8. \A t \in Servers : dns'[t] # "none" => At(t, "serving")'
    BY <2>1, <2>4, <2>5 DEF FleetTypeOK, At
  <2> QED BY <2>1, <2>3, <2>6, <2>7, <2>8 DEF FleetTypeOK
<1>2. ASSUME NEW s \in Servers, ExitRegistered(s) PROVE FleetTypeOK'
  <2>1. /\ \A t \in Servers \ {s} : server'[t] = server[t]
        /\ dns' = [dns EXCEPT ![s] = "none"]
        /\ UNCHANGED <<weighted, records>>
        /\ calm' \in BOOLEAN
    BY <1>2 DEF ExitRegistered, Exit, TypeOK, FleetTypeOK
  <2> QED BY <2>1 DEF FleetTypeOK, At
<1>3. ASSUME NEW s \in Servers,
             Boot(s) \/ MakeBundle(s) \/ PutCert(s) \/ PutKey(s) \/ PutCA(s)
             \/ FetchCert(s) \/ FetchKey(s),
             UNCHANGED dnsVars
      PROVE  FleetTypeOK'
  BY <1>3, OthersServe DEF FleetTypeOK, dnsVars, At
<1>4. CASE UNCHANGED fleetVars
  BY <1>4 DEF fleetVars, vars, dnsVars, FleetTypeOK, At
<1> QED BY <1>1, <1>2, <1>3, <1>4 DEF FleetNext

FleetInv == TypeOK /\ FleetTypeOK

LEMMA FleetInvariant == FleetSpec => []FleetInv
<1>1. FleetInit => FleetInv
  BY TypeInit DEF FleetInit, FleetInv, FleetTypeOK
<1>2. FleetInv /\ [FleetNext]_fleetVars => FleetInv'
  BY FleetStep, TypeStep, FleetTypeStep DEF FleetInv
<1> QED BY <1>1, <1>2, PTL DEF FleetSpec

(* Only a server that has its keys comes to register.                      *)
THEOREM FleetTypeCorrect == FleetSpec => []FleetTypeOK
<1>1. FleetInv => FleetTypeOK
  BY DEF FleetInv
<1> QED BY <1>1, FleetInvariant, PTL

(* Whoever is registered can be found, whatever the others register, give  *)
(* up and leave behind (aws.go:361-447): under the record that is the      *)
(* server's own, or the one they all share.                                *)
THEOREM RegistrationStands == FleetSpec => []RegisteredFound
<1> USE FleetAssumption
<1>1. FleetInit => RegisteredFound
  BY DEF FleetInit, RegisteredFound, Registered
<1>2. ASSUME FleetInv, RegisteredFound, [FleetNext]_fleetVars PROVE RegisteredFound'
  <2>1. ASSUME NEW s \in Servers, Register(s) PROVE RegisteredFound'
    BY <1>2, <2>1 DEF Register, Upsert, Identifier, RegisteredFound, Registered,
                      FleetInv, FleetTypeOK
  <2>2. ASSUME NEW s \in Servers,
               ServeUnregistered(s) \/ RegisterFails(s) \/ Stop(s) \/ Unregister(s)
        PROVE  RegisteredFound'
    <3>1. weighted' = weighted /\ (records' = records \/ Upsert(s))
      BY <2>2 DEF ServeUnregistered, RegisterFails, Stop, Unregister
    <3>2. \A t \in Servers : dns'[t] = "registered" => dns[t] = "registered"
      BY <1>2, <2>2 DEF ServeUnregistered, RegisterFails, Stop, Unregister,
                        FleetInv, FleetTypeOK
    <3> QED BY <1>2, <3>1, <3>2 DEF Upsert, Identifier, RegisteredFound, Registered,
                                    FleetInv, FleetTypeOK
  <2>3. ASSUME NEW s \in Servers, ExitRegistered(s) PROVE RegisteredFound'
    BY <1>2, <2>3 DEF ExitRegistered, RegisteredFound, Registered, FleetInv, FleetTypeOK
  <2>4. CASE UNCHANGED dnsVars
    BY <1>2, <2>4 DEF dnsVars, RegisteredFound, Registered
  <2> QED BY <1>2, <2>1, <2>2, <2>3, <2>4 DEF FleetNext, fleetVars
<1> QED BY <1>1, <1>2, FleetInvariant, PTL DEF FleetSpec
=============================================================================
