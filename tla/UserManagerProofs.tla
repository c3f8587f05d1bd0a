--------------------------- MODULE UserManagerProofs ---------------------------
(***************************************************************************)
(* What holds of UserManager for every set of users, keys and hashes, any  *)
(* way of changing the backend, and any failures of its calls.             *)
(***************************************************************************)
EXTENDS UserManager, CertificateManagerProofs

(* An update in progress works on the truth (config.go:141-196): what it   *)
(* is about to commit for the user is that user's keys, each with its own  *)
(* hash.  With this MapsInverse is inductive.                              *)
UpdateTruthful ==
    /\ \A k \in Keys : poll.fetched[k] # None => poll.fetched[k] = HashOf[k]
    /\ poll.pc = "fetch" =>
          /\ poll.user \in Users
          /\ \A k \in poll.listed : KeyOwner[k] = poll.user

CacheInv == TypeOK /\ MapsInverse /\ UpdateTruthful

PollType == [pc : {"idle", "list", "fetch", "remove", "dead", "failed"},
             todo : SUBSET Users, user : Users \cup {None}, listed : SUBSET Keys,
             fetching : SUBSET Keys, adding : Keys \cup {None},
             fetched : [Keys -> Hashes \cup {None}], removed : SUBSET Keys]

AuthType == [pc : {"idle", "check", "groups", "granted", "denied"},
             user : Users \cup {None}, hash : Hashes \cup {None}, key : Keys \cup {None}]

LEMMA TrustedHashes == \A status, u : Trusted(status, u) \subseteq Hashes
BY ConstantsAssumption, CertificatesAssumption DEF Trusted

LEMMA CacheInit == Init => CacheInv
<1> SUFFICES ASSUME Init PROVE CacheInv
  OBVIOUS
<1> USE ConstantsAssumption, CertificatesAssumption
<1>1. TypeOK
  <2>2. store \in Store
    BY StoreInitial DEF Init
  <2> QED BY <2>2 DEF Init, TypeOK, NoPoll, NoAuth, NoKeyById, NoKeyByHash
<1>2. MapsInverse
  BY DEF Init, MapsInverse, NoKeyByHash
<1>3. UpdateTruthful
  BY DEF Init, UpdateTruthful, NoPoll
<1> QED BY <1>1, <1>2, <1>3 DEF CacheInv

(* What administrators and requests do leaves the cache alone.             *)
LEMMA CacheUntouched ==
    ASSUME MapsInverse, UpdateTruthful, UNCHANGED <<cacheVars, poll>>
    PROVE  MapsInverse' /\ UpdateTruthful'
BY DEF MapsInverse, UpdateTruthful, cacheVars

LEMMA CacheAdmin == CacheInv /\ Admin => CacheInv'
<1> SUFFICES ASSUME CacheInv, NEW k \in Keys,
                    \/ Upload(k) \/ Deactivate(k) \/ Activate(k) \/ Delete(k)
             PROVE  CacheInv'
  BY DEF Admin
<1>1. PICK status \in {"active", "inactive", "deleted"} : Change(k, status)
  BY DEF Upload, Deactivate, Activate, Delete
<1>2. UNCHANGED <<cacheVars, poll, booted, auth, roster, weak, uncertified>> /\ synced' = "no"
  BY <1>1 DEF Change
<1>3. key' \in [Keys -> {"none", "active", "inactive", "deleted"}] /\ changes' \in Nat
  BY <1>1 DEF Change, CacheInv, TypeOK
<1>4. active' \subseteq Hashes
  <2>1. Trusted(key', auth.user) \subseteq Hashes
    BY TrustedHashes
  <2> QED BY <1>1, <2>1 DEF Change, CacheInv, TypeOK
<1>5. TypeOK'
  <2>1. UNCHANGED <<keyById, keyByHash, store, poll, booted, auth, roster, weak, uncertified>>
    BY <1>2 DEF cacheVars
  <2>2. poll' \in PollType /\ auth' \in AuthType
    BY <2>1 DEF CacheInv, TypeOK, PollType, AuthType
  <2> QED BY <1>2, <1>3, <1>4, <2>1, <2>2 DEF CacheInv, TypeOK, PollType, AuthType
<1> QED BY <1>2, <1>5, CacheUntouched DEF CacheInv

LEMMA CacheAuthenticate == CacheInv /\ AuthenticateUser => CacheInv'
<1> SUFFICES ASSUME CacheInv, AuthenticateUser PROVE CacheInv'
  OBVIOUS
<1>1. UNCHANGED <<backendVars, cacheVars, poll, booted, synced, roster, weak, uncertified>>
  BY DEF AuthenticateUser, LookUp, CheckKey, Decide, Return
<1>2. /\ auth' \in [pc : {"idle", "check", "groups", "granted", "denied"},
                    user : Users \cup {None}, hash : Hashes \cup {None}, key : Keys \cup {None}]
      /\ active' \subseteq Hashes
  <2>1. CASE \E u \in Users, h \in Hashes : LookUp(u, h)
    <3> PICK u \in Users, h \in Hashes : LookUp(u, h)
      BY <2>1
    <3>1. keyByHash[u][h] \in Keys \cup {None}
      BY DEF CacheInv, TypeOK
    <3> QED BY <3>1, ConstantsAssumption, CertificatesAssumption DEF LookUp, Trusted
  <2>2. CASE CheckKey
    BY <2>2 DEF CheckKey, CacheInv, TypeOK
  <2>3. CASE Decide
    BY <2>3 DEF Decide, CacheInv, TypeOK
  <2>4. CASE Return
    BY <2>4 DEF Return, NoAuth
  <2> QED BY <2>1, <2>2, <2>3, <2>4 DEF AuthenticateUser
<1>3. TypeOK'
  BY <1>1, <1>2 DEF CacheInv, TypeOK, backendVars, cacheVars
<1> QED BY <1>1, <1>3, CacheUntouched DEF CacheInv

(***************************************************************************)
(* The update, step by step.  Those that touch no cache have only the      *)
(* polling goroutine's locals to answer for.                               *)
(***************************************************************************)
LEMMA CacheLocals ==
    ASSUME CacheInv, UNCHANGED <<backendVars, cacheVars, auth, active, uncertified>>,
           booted' \in BOOLEAN, synced' \in {"no", "pending", "yes"}, roster' \subseteq Users,
           weak' \in WeakSets \cup {{}},
           poll' \in PollType, UpdateTruthful'
    PROVE  CacheInv'
<1>1. TypeOK'
  BY DEF CacheInv, TypeOK, PollType, backendVars, cacheVars
<1>2. MapsInverse'
  BY DEF CacheInv, MapsInverse, cacheVars
<1> QED BY <1>1, <1>2 DEF CacheInv

LEMMA CacheRestart ==
    ASSUME CacheInv, NEW p, NEW todo \in SUBSET Users,
           p \in {"idle", "list", "failed"},
           UNCHANGED <<backendVars, cacheVars, auth, active, uncertified>>,
           booted' \in BOOLEAN, synced' \in {"no", "pending", "yes"}, roster' \subseteq Users,
           weak' \in WeakSets \cup {{}},
           \/ poll' = [NoPoll EXCEPT !.pc = p, !.todo = todo]
           \/ poll' = [NoPoll EXCEPT !.pc = p]
           \/ poll' = NoPoll
    PROVE  CacheInv'
<1>1. /\ NoPoll \in PollType /\ NoPoll.pc = "idle" /\ NoPoll.adding = None
      /\ \A k \in Keys : NoPoll.fetched[k] = None
  BY DEF NoPoll, PollType
<1>2. poll' \in PollType
  BY <1>1 DEF PollType
<1>3. poll'.fetched = NoPoll.fetched /\ poll'.adding = NoPoll.adding /\ poll'.pc # "fetch"
  BY <1>1 DEF PollType
<1>4. UpdateTruthful'
  BY <1>1, <1>3 DEF UpdateTruthful
<1> QED BY <1>2, <1>4, CacheLocals

LEMMA CacheFetch ==
    ASSUME CacheInv, NEW k \in Keys, FetchKey(k) PROVE CacheInv'
<1> USE ConstantsAssumption, CertificatesAssumption
<1> DEFINE rest == poll.fetching \ {k}
<1>1. /\ poll \in PollType /\ poll.pc = "fetch"
      /\ \/ store' = Added(store, k) /\ poll' = [poll EXCEPT !.fetching = rest, !.adding = k]
         \/ store' = store /\ poll' = [poll EXCEPT !.fetching = rest]
      /\ UNCHANGED <<backendVars, keyById, keyByHash, booted, auth, synced, roster, weak, active, uncertified>>
      /\ poll.adding = None
  BY DEF FetchKey, Polling, CacheInv, TypeOK, PollType
<1>2. rest \subseteq Keys
  BY <1>1 DEF PollType
<1> HIDE DEF rest
<1>3. poll' \in PollType
  <2>1. CASE poll' = [poll EXCEPT !.fetching = rest, !.adding = k]
    BY <1>1, <1>2, <2>1 DEF PollType
  <2>2. CASE poll' = [poll EXCEPT !.fetching = rest]
    BY <1>1, <1>2, <2>2 DEF PollType
  <2> QED BY <1>1, <2>1, <2>2
<1>4. /\ poll'.pc = poll.pc /\ poll'.user = poll.user /\ poll'.listed = poll.listed
      /\ poll'.fetched = poll.fetched
      /\ poll'.adding = None \/ (poll'.adding = k /\ store' = Added(store, k))
  <2>1. CASE store' = Added(store, k) /\ poll' = [poll EXCEPT !.fetching = rest, !.adding = k]
    BY <1>1, <2>1 DEF PollType
  <2>2. CASE poll' = [poll EXCEPT !.fetching = rest]
    BY <1>1, <2>2 DEF PollType
  <2> QED BY <1>1, <2>1, <2>2
<1>5. store' \in Store
  <2>1. store \in Store
    BY DEF CacheInv, TypeOK
  <2> QED BY <1>1, <1>4, <2>1, StoreAdded
<1>6. TypeOK'
  BY <1>1, <1>3, <1>5 DEF CacheInv, TypeOK, PollType, backendVars
<1>7. MapsInverse'
  BY <1>1 DEF CacheInv, MapsInverse
<1>8. UpdateTruthful'
  BY <1>4 DEF CacheInv, UpdateTruthful
<1> QED BY <1>6, <1>7, <1>8 DEF CacheInv

LEMMA CacheAdd ==
    ASSUME CacheInv, AddKey PROVE CacheInv'
<1> USE ConstantsAssumption, CertificatesAssumption
<1> DEFINE k == poll.adding
           hashes == [poll.fetched EXCEPT ![k] = HashOf[k]]
<1>1. /\ poll \in PollType /\ poll.pc = "fetch" /\ k # None
      /\ poll' = [poll EXCEPT !.adding = None, !.fetched = hashes]
      /\ UNCHANGED <<backendVars, cacheVars, booted, auth, synced, roster, weak, active, uncertified>>
  BY DEF AddKey, Polling, CacheInv, TypeOK, PollType
<1>2. /\ k \in Keys /\ HashOf[k] \in Hashes
      /\ poll.fetched \in [Keys -> Hashes \cup {None}]
  BY <1>1 DEF CacheInv, UpdateTruthful, PollType
<1> HIDE DEF k
<1>3. hashes \in [Keys -> Hashes \cup {None}]
  BY <1>2
<1>4. \A l \in Keys : hashes[l] = IF l = k THEN HashOf[k] ELSE poll.fetched[l]
  BY <1>2
<1> HIDE DEF hashes
<1>5. poll' \in PollType
  BY <1>1, <1>3 DEF PollType
<1>6. /\ poll'.pc = poll.pc /\ poll'.user = poll.user /\ poll'.listed = poll.listed
      /\ poll'.fetched = hashes /\ poll'.adding = None
  BY <1>1 DEF PollType
<1>7. UpdateTruthful'
  BY <1>2, <1>4, <1>6 DEF CacheInv, UpdateTruthful
<1>8. /\ booted \in BOOLEAN /\ synced \in {"no", "pending", "yes"} /\ roster \subseteq Users
      /\ weak \in WeakSets \cup {{}}
  BY DEF CacheInv, TypeOK
<1> QED BY <1>1, <1>5, <1>7, <1>8, CacheLocals

(* The commit is where the two maps could part: what it writes is what the *)
(* update found, and each hash it forgets is that of a key it forgets.     *)
LEMMA CacheCommit ==
    ASSUME CacheInv, Commit PROVE CacheInv'
<1> USE ConstantsAssumption, CertificatesAssumption
<1> DEFINE u == poll.user
           removed == Known(u) \ poll.listed
           new == poll.listed \ Known(u)
           gone == {keyById[k] : k \in removed}
<1>1. PICK byHash \in [Hashes \cup {None} -> Keys \cup {None}] :
         /\ \A h \in Hashes \cup {None} :
               LET adders == {k \in new : poll.fetched[k] = h}
               IN  IF adders # {} THEN byHash[h] \in adders
                   ELSE byHash[h] = IF h \in gone THEN None ELSE keyByHash[u][h]
         /\ keyByHash' = [keyByHash EXCEPT ![u] = byHash]
  BY DEF Commit, HashMaps
<1>2. /\ poll.pc = "fetch" /\ poll \in PollType
      /\ keyById' = [k \in Keys |-> IF k \in removed THEN Absent
                                     ELSE IF k \in new THEN poll.fetched[k]
                                     ELSE keyById[k]]
      /\ poll' = [poll EXCEPT !.pc = "remove", !.removed = removed,
                              !.fetched = [k \in Keys |-> None]]
      /\ UNCHANGED <<backendVars, store, booted, auth, synced, roster, weak, active>>
      /\ uncertified' = uncertified \cup {k \in new : poll.fetched[k] = None}
  BY DEF Commit, Polling, CacheInv, TypeOK, PollType
<1>3. /\ u \in Users
      /\ \A k \in poll.listed : KeyOwner[k] = u
      /\ poll.listed \subseteq Keys
      /\ poll.fetched \in [Keys -> Hashes \cup {None}]
      /\ \A k \in Keys : poll.fetched[k] # None => poll.fetched[k] = HashOf[k]
  BY <1>2 DEF CacheInv, UpdateTruthful, PollType
<1>4. /\ removed \subseteq Keys /\ new \subseteq Keys
      /\ removed \cap new = {}
      /\ \A k \in removed \cup new : KeyOwner[k] = u
      /\ \A k \in removed : keyById[k] # Absent
      /\ gone = {keyById[k] : k \in removed}
  BY <1>3 DEF Known
<1> HIDE DEF u, removed, new, gone
<1>5. keyById' \in [Keys -> Hashes \cup {None, Absent}]
  BY <1>2, <1>3, <1>4 DEF CacheInv, TypeOK
<1>6. keyByHash' \in [Users -> [Hashes \cup {None} -> Keys \cup {None}]]
  BY <1>1, <1>3 DEF CacheInv, TypeOK
<1>7. poll' \in PollType
  <2> DEFINE none == [k \in Keys |-> None]
  <2>1. none \in [Keys -> Hashes \cup {None}]
    OBVIOUS
  <2>2. poll' = [poll EXCEPT !.pc = "remove", !.removed = removed, !.fetched = none]
    BY <1>2
  <2>3. poll \in PollType /\ removed \in SUBSET Keys
    BY <1>2, <1>4
  <2> HIDE DEF none
  <2> QED BY <2>1, <2>2, <2>3 DEF PollType
<1>8. TypeOK'
  <2>1. uncertified' \subseteq Keys
    BY <1>2, <1>4 DEF CacheInv, TypeOK
  <2> QED BY <1>2, <1>5, <1>6, <1>7, <2>1 DEF CacheInv, TypeOK, PollType, backendVars
<1>9. MapsInverse'
  <2> SUFFICES ASSUME NEW v \in Users, NEW h \in Hashes, keyByHash'[v][h] # None
               PROVE  LET k == keyByHash'[v][h]
                      IN  KeyOwner[k] = v /\ keyById'[k] = h /\ HashOf[k] = h
    BY DEF MapsInverse
  <2> DEFINE k == keyByHash'[v][h]
  <2>1. k \in Keys
    BY <1>6
  <2>2. /\ keyByHash[v][h] # None =>
               /\ KeyOwner[keyByHash[v][h]] = v
               /\ keyById[keyByHash[v][h]] = h
               /\ HashOf[keyByHash[v][h]] = h
        /\ h # Absent /\ h # None
    BY DEF CacheInv, MapsInverse
  <2>3. keyById'[k] = IF k \in removed THEN Absent
                     ELSE IF k \in new THEN poll.fetched[k]
                     ELSE keyById[k]
    BY <1>2, <2>1
  <2>4. CASE v # u
    <3>1. k = keyByHash[v][h]
      BY <1>1, <2>4 DEF CacheInv, TypeOK
    <3>2. k \notin removed \cup new
      BY <2>2, <2>4, <3>1, <1>4
    <3> QED BY <2>2, <2>3, <3>1, <3>2
  <2>5. CASE v = u
    <3> DEFINE adders == {l \in new : poll.fetched[l] = h}
    <3>1. k = byHash[h]
      BY <1>1, <2>5 DEF CacheInv, TypeOK
    <3>2. CASE adders # {}
      <4>1. k \in new /\ poll.fetched[k] = h
        BY <1>1, <3>1, <3>2
      <4> QED BY <4>1, <2>2, <2>3, <2>5, <1>3, <1>4
    <3>3. CASE adders = {} /\ h \in gone
      BY <1>1, <3>1, <3>3, <2>1
    <3>4. CASE adders = {} /\ h \notin gone
      <4>1. k = keyByHash[v][h]
        BY <1>1, <2>5, <3>1, <3>4
      <4>2. k \notin removed
        BY <2>2, <4>1, <3>4, <1>4
      <4>3. KeyOwner[k] = v /\ keyById[k] = h /\ HashOf[k] = h
        BY <2>2, <4>1
      <4>4. k \notin new
        <5> SUFFICES ASSUME k \in new PROVE FALSE
          OBVIOUS
        <5>1. k \notin Known(u)
          BY DEF new
        <5> QED BY <5>1, <4>3, <2>1, <2>2, <2>5 DEF Known
      <4> QED BY <4>2, <4>3, <4>4, <2>3
    <3> QED BY <3>2, <3>3, <3>4
  <2> QED BY <2>4, <2>5
<1>10. UpdateTruthful'
  <2>1. poll.adding = None /\ poll'.adding = poll.adding
    BY <1>2 DEF Commit, PollType
  <2> QED BY <1>2, <2>1 DEF UpdateTruthful, PollType
<1> QED BY <1>8, <1>9, <1>10 DEF CacheInv

LEMMA CacheUpdate == CacheInv /\ Update => CacheInv'
<1> SUFFICES ASSUME CacheInv, Update PROVE CacheInv'
  OBVIOUS
<1> USE ConstantsAssumption, CertificatesAssumption
<1>0. /\ poll \in PollType /\ UpdateTruthful
      /\ booted \in BOOLEAN /\ synced \in {"no", "pending", "yes"} /\ roster \subseteq Users
      /\ weak \in WeakSets \cup {{}}
  BY DEF CacheInv, TypeOK, PollType
<1>1. CASE StartUpdate
  <2>1. PICK users \in SUBSET Users :
           poll' = [NoPoll EXCEPT !.pc = "list", !.todo = users] /\ roster' = users
    BY <1>1 DEF StartUpdate
  <2> QED BY <1>0, <1>1, <2>1, CacheRestart DEF StartUpdate
<1>2. CASE CallFails \/ AddFails
  <2> DEFINE p == IF booted THEN "idle" ELSE "failed"
  <2>0. GivenUp
    BY <1>2 DEF CallFails, AddFails
  <2>1. poll' = [NoPoll EXCEPT !.pc = p]
    BY <2>0 DEF GivenUp
  <2>2. p \in {"idle", "list", "failed"}
    OBVIOUS
  <2> HIDE DEF p
  <2> QED BY <1>0, <2>0, <2>1, <2>2, CacheRestart DEF GivenUp
<1>3. CASE Commit
  BY <1>3, CacheCommit
<1>4. CASE NextUser
  <2>1. poll' = [poll EXCEPT !.pc = "list", !.user = None, !.listed = {}]
    BY <1>4 DEF NextUser
  <2>2. poll' \in PollType
    BY <1>0, <2>1 DEF PollType
  <2>3. poll'.pc = "list" /\ poll'.fetched = poll.fetched /\ poll'.adding = poll.adding
    BY <1>0, <2>1 DEF PollType
  <2>4. UpdateTruthful'
    BY <1>0, <1>4, <2>3 DEF UpdateTruthful
  <2> QED BY <1>0, <1>4, <2>2, <2>4, CacheLocals DEF NextUser
<1>5. CASE EndUpdate
  BY <1>0, <1>5, CacheRestart DEF EndUpdate
<1>6. CASE \E u \in Users : ListKeys(u)
  <2> PICK u \in Users : ListKeys(u)
    BY <1>6
  <2> DEFINE listed == FetchKeys(u)
  <2>0. listed \subseteq Keys /\ \A k \in listed : KeyOwner[k] = u
    BY DEF FetchKeys
  <2>1. \/ poll' = [poll EXCEPT !.todo = @ \ {u}]
        \/ poll' = [poll EXCEPT !.pc = "fetch", !.todo = @ \ {u}, !.user = u,
                                !.listed = listed, !.fetching = listed \ Known(u)]
    BY DEF ListKeys
  <2>2. /\ poll.pc = "list"
        /\ UNCHANGED <<backendVars, cacheVars, booted, auth, synced, roster, weak, active, uncertified>>
    BY DEF ListKeys, Polling
  <2> HIDE DEF listed
  <2>3. poll' \in PollType
    <3> DEFINE fetching == listed \ Known(u)
    <3>1. fetching \subseteq Keys
      BY <2>0
    <3> HIDE DEF fetching
    <3>2. CASE poll' = [poll EXCEPT !.todo = @ \ {u}]
      BY <1>0, <3>2 DEF PollType
    <3>3. CASE poll' = [poll EXCEPT !.pc = "fetch", !.todo = @ \ {u}, !.user = u,
                                    !.listed = listed, !.fetching = fetching]
      BY <1>0, <2>0, <3>1, <3>3 DEF PollType
    <3> QED BY <2>1, <3>2, <3>3 DEF fetching
  <2>4. /\ poll'.fetched = poll.fetched /\ poll'.adding = poll.adding
        /\ poll'.pc = "list" \/ (poll'.user = u /\ poll'.listed = listed)
    <3> DEFINE fetching == listed \ Known(u)
    <3>0. fetching = listed \ Known(u)
      OBVIOUS
    <3> HIDE DEF fetching
    <3>1. CASE poll' = [poll EXCEPT !.todo = @ \ {u}]
      BY <1>0, <2>2, <3>1 DEF PollType
    <3>2. CASE poll' = [poll EXCEPT !.pc = "fetch", !.todo = @ \ {u}, !.user = u,
                                    !.listed = listed, !.fetching = fetching]
      BY <1>0, <3>2 DEF PollType
    <3> QED BY <2>1, <3>0, <3>1, <3>2
  <2>5. UpdateTruthful'
    BY <1>0, <2>0, <2>2, <2>4 DEF UpdateTruthful
  <2> QED BY <1>0, <2>2, <2>3, <2>5, CacheLocals
<1>7. CASE \E k \in Keys : FetchKey(k)
  BY <1>7, CacheFetch
<1>8. CASE \E k \in Keys : Remove(k)
  <2> PICK k \in Keys : Remove(k)
    BY <1>8
  <2>1. \/ poll' = [poll EXCEPT !.removed = @ \ {k}]
        \/ poll' = [poll EXCEPT !.pc = "dead"]
    BY DEF Remove
  <2>2. /\ poll.pc = "remove"
        /\ UNCHANGED <<backendVars, keyById, keyByHash, booted, auth, synced, roster, weak, active, uncertified>>
        /\ store' = store \/ (Removable(store, k) /\ store' = Removed(store, k))
    BY DEF Remove, Polling
  <2>3. poll' \in PollType
    BY <1>0, <2>1 DEF PollType
  <2>4. poll'.fetched = poll.fetched /\ poll'.adding = poll.adding /\ poll'.pc # "fetch"
    BY <1>0, <2>1, <2>2 DEF PollType
  <2>5. store' \in Store
    <3>1. store \in Store
      BY DEF CacheInv, TypeOK
    <3> QED BY <2>2, <3>1, StoreRemoved
  <2>6. UpdateTruthful'
    BY <1>0, <2>4 DEF UpdateTruthful
  <2>7. MapsInverse'
    BY <2>2 DEF CacheInv, MapsInverse
  <2>8. TypeOK'
    BY <2>2, <2>3, <2>5 DEF CacheInv, TypeOK, PollType, backendVars
  <2> QED BY <2>6, <2>7, <2>8 DEF CacheInv
<1>9. CASE AddKey
  BY <1>9, CacheAdd
<1> QED BY <1>1, <1>2, <1>3, <1>4, <1>5, <1>6, <1>7, <1>8, <1>9 DEF Update

(* A server that is started again knows nothing, of which all is true.     *)
LEMMA CacheAnew == CacheInv /\ Restart => CacheInv'
<1> SUFFICES ASSUME CacheInv, Restart PROVE CacheInv'
  OBVIOUS
<1> USE ConstantsAssumption, CertificatesAssumption
<1>1. poll' \in PollType /\ poll'.pc = "idle" /\ poll'.adding = None
  BY DEF Restart, NoPoll, PollType
<1>2. \A k \in Keys : poll'.fetched[k] = None
  BY DEF Restart, NoPoll
<1>3. auth' \in AuthType
  BY DEF Restart, NoAuth, AuthType
<1>4. /\ keyById' \in [Keys -> Hashes \cup {None, Absent}]
      /\ keyByHash' \in [Users -> [Hashes \cup {None} -> Keys \cup {None}]]
  BY DEF Restart, NoKeyById, NoKeyByHash
<1>5. store' \in Store
  BY StoreInitial DEF Restart
<1>6. key' = key /\ changes' = changes
  BY DEF Restart, backendVars
<1>7. /\ booted' \in BOOLEAN /\ synced' \in {"no", "pending", "yes"}
      /\ roster' \subseteq Users /\ active' \subseteq Hashes /\ uncertified' \subseteq Keys
      /\ weak' \in WeakSets \cup {{}}
  BY DEF Restart
<1>8. TypeOK'
  BY <1>1, <1>3, <1>4, <1>5, <1>6, <1>7 DEF CacheInv, TypeOK, PollType, AuthType
<1>9. MapsInverse'
  BY DEF Restart, MapsInverse, NoKeyById, NoKeyByHash
<1>10. UpdateTruthful'
  BY <1>1, <1>2 DEF UpdateTruthful
<1> QED BY <1>8, <1>9, <1>10 DEF CacheInv

LEMMA CacheStep == CacheInv /\ [Next]_vars => CacheInv'
<1>1. CacheInv /\ UNCHANGED vars => CacheInv'
  <2> SUFFICES ASSUME CacheInv, UNCHANGED vars PROVE CacheInv'
    OBVIOUS
  <2>0. /\ UNCHANGED <<key, changes, keyById, keyByHash, store, poll>>
        /\ UNCHANGED <<booted, auth, synced, roster, weak, active, uncertified>>
    BY DEF vars, backendVars, cacheVars
  <2>1. TypeOK'
    <3>1. /\ key' \in [Keys -> {"none", "active", "inactive", "deleted"}]
          /\ changes' \in Nat
          /\ keyById' \in [Keys -> Hashes \cup {None, Absent}]
          /\ keyByHash' \in [Users -> [Hashes \cup {None} -> Keys \cup {None}]]
          /\ store' \in Store
      BY <2>0 DEF CacheInv, TypeOK
    <3>2. poll' \in PollType
      BY <2>0 DEF CacheInv, TypeOK, PollType
    <3>3. auth' \in AuthType
      BY <2>0 DEF CacheInv, TypeOK, AuthType
    <3>4. /\ booted' \in BOOLEAN
          /\ synced' \in {"no", "pending", "yes"}
          /\ roster' \subseteq Users
          /\ active' \subseteq Hashes
          /\ uncertified' \subseteq Keys
          /\ weak' \in WeakSets \cup {{}}
      BY <2>0 DEF CacheInv, TypeOK
    <3> QED BY <3>1, <3>2, <3>3, <3>4 DEF TypeOK, PollType, AuthType
  <2>2. MapsInverse' /\ UpdateTruthful'
    BY CacheUntouched DEF CacheInv, vars, backendVars, cacheVars
  <2> QED BY <2>1, <2>2 DEF CacheInv
<1> QED BY <1>1, CacheAdmin, CacheUpdate, CacheAuthenticate, CacheAnew DEF Next

(* Every variable keeps its shape, whatever fails when.                    *)
THEOREM TypeCorrect == Spec => []TypeOK
<1>1. CacheInv => TypeOK
  BY DEF CacheInv
<1> QED BY <1>1, CacheInit, CacheStep, PTL DEF Spec

(* keyById and keyByHash of every user agree, through updates that fail at *)
(* any call and keys that change between any two (config.go:198-227).      *)
THEOREM MapsAgree == Spec => []MapsInverse
<1>1. CacheInv => MapsInverse
  BY DEF CacheInv
<1> QED BY <1>1, CacheInit, CacheStep, PTL DEF Spec

(***************************************************************************)
(* What a request knows, step by step.                                     *)
(***************************************************************************)
(* A request in progress (config.go:241-276): the key it found is the      *)
(* user's and has the hash presented, until the backend has confirmed that *)
(* the hash is trusted.  With this AuthSound is inductive.                 *)
RequestTruthful ==
    /\ auth.pc = "check" =>
          /\ auth.key \in Keys /\ auth.user \in Users
          /\ KeyOwner[auth.key] = auth.user
          /\ HashOf[auth.key] = auth.hash
    /\ auth.pc # "idle" => Trusted(key, auth.user) \subseteq active
    /\ auth.pc \in {"groups", "granted"} => auth.hash \in active

RequestInv == CacheInv /\ RequestTruthful

LEMMA RequestStep == RequestInv /\ [Next]_vars => RequestInv'
<1> SUFFICES ASSUME RequestInv, [Next]_vars PROVE RequestTruthful'
  BY CacheStep DEF RequestInv
<1> USE ConstantsAssumption, CertificatesAssumption
<1>0. CacheInv /\ RequestTruthful /\ TypeOK
  BY DEF RequestInv, CacheInv
<1>1. CASE Update \/ UNCHANGED vars
  <2>1. UNCHANGED <<key, auth, active>>
    BY <1>1 DEF Update, StartUpdate, CallFails, AddFails, GivenUp, ListKeys, FetchKey, AddKey,
       Commit, Remove, NextUser, EndUpdate, vars, backendVars
  <2> QED BY <1>0, <2>1 DEF RequestTruthful, Trusted
<1>2. CASE Admin
  <2>1. auth' = auth /\ active' = IF auth.pc = "idle" THEN active
                                  ELSE active \cup Trusted(key', auth.user)
    BY <1>2 DEF Admin, Upload, Deactivate, Activate, Delete, Change
  <2>2. auth.pc # "idle" => Trusted(key', auth.user) \subseteq active' /\ active \subseteq active'
    BY <2>1
  <2>3. auth.pc # "idle" => Trusted(key, auth.user)' \subseteq active'
    BY <2>1, <2>2 DEF Trusted
  <2> QED BY <1>0, <2>1, <2>2, <2>3 DEF RequestTruthful
<1>3. CASE \E u \in Users, h \in Hashes : LookUp(u, h)
  <2> PICK u \in Users, h \in Hashes : LookUp(u, h)
    BY <1>3
  <2>1. /\ auth' = [pc |-> IF keyByHash[u][h] = None THEN "denied" ELSE "check",
                    user |-> u, hash |-> h, key |-> keyByHash[u][h]]
        /\ active' = Trusted(key, u) /\ key' = key
    BY DEF LookUp, backendVars
  <2>2. keyByHash[u][h] # None =>
             /\ keyByHash[u][h] \in Keys
             /\ KeyOwner[keyByHash[u][h]] = u /\ HashOf[keyByHash[u][h]] = h
    BY <1>0 DEF CacheInv, TypeOK, MapsInverse
  <2> QED BY <2>1, <2>2 DEF RequestTruthful
<1>4. CASE CheckKey
  <2>1. /\ active' = active /\ key' = key /\ auth.pc = "check"
        /\ auth \in [pc : {"idle", "check", "groups", "granted", "denied"},
                     user : Users \cup {None}, hash : Hashes \cup {None},
                     key : Keys \cup {None}]
    BY <1>0, <1>4 DEF CheckKey, backendVars, TypeOK
  <2>2. CASE auth' = [auth EXCEPT !.pc = "denied"]
    <3>1. auth'.pc = "denied" /\ auth'.user = auth.user
      BY <2>1, <2>2
    <3> QED BY <1>0, <2>1, <3>1 DEF RequestTruthful
  <2>3. CASE auth.key \in FetchKeys(auth.user) /\ auth' = [auth EXCEPT !.pc = "groups"]
    <3>1. auth'.pc = "groups" /\ auth'.user = auth.user /\ auth'.hash = auth.hash
      BY <2>1, <2>3
    <3>2. HashOf[auth.key] \in Trusted(key, auth.user)
      BY <2>3 DEF FetchKeys, Trusted
    <3>3. auth.hash \in active
      BY <1>0, <2>1, <3>2 DEF RequestTruthful
    <3> QED BY <1>0, <2>1, <3>1, <3>3 DEF RequestTruthful
  <2> QED BY <1>4, <2>2, <2>3 DEF CheckKey
<1>5. CASE Decide
  <2>1. PICK verdict \in {"granted", "denied"} : auth' = [auth EXCEPT !.pc = verdict]
    BY <1>5 DEF Decide
  <2>2. /\ active' = active /\ key' = key /\ auth.pc = "groups"
        /\ auth'.pc \in {"granted", "denied"} /\ auth'.user = auth.user /\ auth'.hash = auth.hash
    BY <1>0, <1>5, <2>1 DEF Decide, backendVars, TypeOK
  <2> QED BY <1>0, <2>2 DEF RequestTruthful
<1>6. CASE Return
  BY <1>6 DEF Return, NoAuth, RequestTruthful
<1>7. CASE Restart
  BY <1>7 DEF Restart, NoAuth, RequestTruthful
<1> QED BY <1>1, <1>2, <1>3, <1>4, <1>5, <1>6, <1>7 DEF Next, AuthenticateUser

(* Nobody is granted access with a public key that was not trusted for the *)
(* user at some moment of the request, whatever the cache says and the     *)
(* backend does meanwhile (config.go:241-295).                             *)
THEOREM AuthenticationSound == Spec => []AuthSound
<1>1. Init => RequestInv
  BY CacheInit DEF Init, RequestInv, RequestTruthful, NoAuth
<1>2. RequestInv => AuthSound
  BY DEF RequestInv, RequestTruthful, AuthSound
<1> QED BY <1>1, <1>2, RequestStep, PTL DEF Spec

-----------------------------------------------------------------------------
(***************************************************************************)
(* Certificates and their files.                                           *)
(***************************************************************************)
(* The keys whose certificate will be needed: cached, on their way into    *)
(* the cache, or on their way out.                                         *)
InUse(k) ==
    \/ keyById[k] \in Hashes
    \/ k \in poll.removed
    \/ k = poll.adding
    \/ poll.fetched[k] # None

(* Only an update that has fetched something, or that is removing, has     *)
(* something to keep; what it removes is cached no more.                   *)
UpdateInPhase ==
    /\ poll.pc # "fetch" => poll.adding = None /\ \A k \in Keys : poll.fetched[k] = None
    /\ poll.pc \notin {"remove", "dead"} => poll.removed = {}
    /\ \A k \in poll.removed : keyById[k] = Absent

(* Unless a key was cached without a certificate, every certificate that   *)
(* will be needed is where the index says.  With this CertificatesFiled    *)
(* is inductive.                                                           *)
FilesNeeded ==
    /\ \A k \in Keys : keyById[k] = None => k \in uncertified
    /\ uncertified = {} =>
          /\ poll.pc # "dead"
          /\ \A k \in Keys : InUse(k) => FiledIn(store, k)

FiledInv == InBuckets(store) /\ UpdateInPhase /\ FilesNeeded

LEMMA FiledInit == Init => FiledInv
<1> SUFFICES ASSUME Init PROVE FiledInv
  OBVIOUS
<1> USE ConstantsAssumption, CertificatesAssumption
<1>1. \A b \in Buckets : store.byHash[b] = IF b = CABucket THEN <<None>> ELSE <<>>
  BY DEF Init, InitialStore
<1>2. InBuckets(store)
  BY <1>1 DEF InBuckets
<1>3. /\ poll.pc = "idle" /\ poll.adding = None /\ poll.removed = {}
      /\ \A k \in Keys : poll.fetched[k] = None /\ keyById[k] = Absent
  BY DEF Init, NoPoll, NoKeyById
<1> QED BY <1>2, <1>3 DEF FiledInv, UpdateInPhase, FilesNeeded, InUse

(* Steps that touch neither the index nor the cache, and put nothing new   *)
(* to use.                                                                 *)
LEMMA FiledKept ==
    ASSUME FiledInv, UNCHANGED <<store, keyById, uncertified>>, UpdateInPhase',
           poll'.pc = "dead" => poll.pc = "dead",
           \A k \in Keys : InUse(k)' => InUse(k)
    PROVE  FiledInv'
BY DEF FiledInv, FilesNeeded, InBuckets, FiledIn

LEMMA FiledStopped ==
    ASSUME FiledInv, UNCHANGED <<store, keyById, uncertified>>,
           NEW p \in {"idle", "list", "failed"}, poll'.pc = p,
           poll'.adding = None, poll'.removed = {}, \A k \in Keys : poll'.fetched[k] = None
    PROVE  FiledInv'
<1>1. UpdateInPhase'
  BY DEF UpdateInPhase
<1>2. \A k \in Keys : InUse(k)' => InUse(k)
  BY CertificatesAssumption DEF InUse
<1> QED BY <1>1, <1>2, FiledKept

LEMMA FiledCommit == ASSUME CacheInv, FiledInv, Commit PROVE FiledInv'
<1> USE ConstantsAssumption, CertificatesAssumption
<1> DEFINE removed == Known(poll.user) \ poll.listed
           new == poll.listed \ Known(poll.user)
<1>1. /\ poll.pc = "fetch" /\ poll.adding = None
      /\ keyById' = [k \in Keys |-> IF k \in removed THEN Absent
                                     ELSE IF k \in new THEN poll.fetched[k]
                                     ELSE keyById[k]]
      /\ uncertified' = uncertified \cup {k \in new : poll.fetched[k] = None}
      /\ store' = store
  BY DEF Commit, Polling
<1>2. /\ poll'.pc = "remove" /\ poll'.adding = None /\ poll'.removed = removed
      /\ poll'.fetched = [k \in Keys |-> None]
  <2>1. poll \in PollType
    BY DEF CacheInv, TypeOK, PollType
  <2>2. poll' = [poll EXCEPT !.pc = "remove", !.removed = removed,
                             !.fetched = [k \in Keys |-> None]]
    BY DEF Commit
  <2> QED BY <1>1, <2>1, <2>2 DEF PollType
<1>3. removed \subseteq Keys /\ \A k \in removed : keyById[k] # Absent
  BY DEF Known
<1> HIDE DEF removed, new
<1>4. UpdateInPhase'
  BY <1>1, <1>2, <1>3 DEF UpdateInPhase
<1>5. \A k \in Keys : keyById'[k] = None => k \in uncertified'
  BY <1>1 DEF FiledInv, FilesNeeded
<1>6. \A k \in Keys : keyById[k] \in Hashes \cup {None, Absent}
  BY DEF CacheInv, TypeOK
<1>7. uncertified' = {} => \A k \in Keys : InUse(k)' => FiledIn(store, k)
  <2> SUFFICES ASSUME uncertified' = {}, NEW k \in Keys, InUse(k)' PROVE InUse(k)
    BY <1>1 DEF FiledInv, FilesNeeded
  <2>1. CASE k \in removed
    <3>1. keyById[k] \in Hashes
      BY <1>1, <1>3, <1>6, <2>1 DEF FiledInv, FilesNeeded
    <3> QED BY <3>1 DEF InUse
  <2>2. CASE k \notin removed
    <3>1. keyById'[k] \in Hashes
      BY <1>2, <2>2 DEF InUse
    <3> QED BY <1>1, <2>2, <3>1 DEF InUse
  <2> QED BY <2>1, <2>2
<1>8. InBuckets(store)' /\ \A k : FiledIn(store, k)' <=> FiledIn(store, k)
  BY <1>1 DEF FiledInv, InBuckets, FiledIn
<1> QED BY <1>2, <1>4, <1>5, <1>7, <1>8 DEF FiledInv, FilesNeeded

LEMMA FiledFetch ==
    ASSUME CacheInv, FiledInv, NEW k \in Keys, FetchKey(k) PROVE FiledInv'
<1> DEFINE rest == poll.fetching \ {k}
<1>1. /\ poll \in PollType /\ poll.pc = "fetch" /\ poll.adding = None
      /\ \/ store' = Added(store, k) /\ poll' = [poll EXCEPT !.fetching = rest, !.adding = k]
         \/ store' = store /\ poll' = [poll EXCEPT !.fetching = rest]
      /\ UNCHANGED <<keyById, uncertified>>
      /\ store \in Store
  BY DEF FetchKey, Polling, CacheInv, TypeOK, PollType
<1> HIDE DEF rest
<1>2. /\ poll'.pc = "fetch" /\ poll'.removed = poll.removed /\ poll'.fetched = poll.fetched
      /\ \/ store' = Added(store, k) /\ poll'.adding = k
         \/ store' = store /\ poll'.adding = None
  BY <1>1 DEF PollType
<1>3. UpdateInPhase'
  BY <1>1, <1>2 DEF FiledInv, UpdateInPhase
<1>4. InBuckets(store')
  BY <1>1, <1>2, AddedFiled DEF FiledInv
<1>5. \A j \in Keys : FiledIn(store, j) => FiledIn(store', j)
  BY <1>1, <1>2, AddedFiled DEF FiledInv
<1>6. poll'.adding = k => FiledIn(store', k)
  BY <1>1, <1>2, AddedFiled, CertificatesAssumption DEF FiledInv
<1>7. ASSUME uncertified' = {}, NEW j \in Keys, InUse(j)' PROVE FiledIn(store', j)
  <2>1. InUse(j) \/ (j = k /\ poll'.adding = k)
    BY <1>1, <1>2, <1>7, CertificatesAssumption DEF InUse
  <2> QED BY <1>1, <1>5, <1>6, <1>7, <2>1 DEF FiledInv, FilesNeeded
<1> QED BY <1>1, <1>2, <1>3, <1>4, <1>7 DEF FiledInv, FilesNeeded, InBuckets, FiledIn

LEMMA FiledRemove ==
    ASSUME CacheInv, FiledInv, NEW k \in Keys, Remove(k) PROVE FiledInv'
<1>1. /\ poll \in PollType /\ poll.pc = "remove" /\ k \in poll.removed
      /\ UNCHANGED <<keyById, uncertified>>
      /\ store \in Store
  BY DEF Remove, Polling, CacheInv, TypeOK, PollType
<1>2. CASE Removable(store, k)
  <2> DEFINE rest == poll.removed \ {k}
  <2>1. store' = Removed(store, k) /\ poll' = [poll EXCEPT !.removed = rest]
    BY <1>2 DEF Remove
  <2> HIDE DEF rest
  <2>2. /\ poll'.pc = "remove" /\ poll'.removed = rest
        /\ poll'.fetched = poll.fetched /\ poll'.adding = poll.adding
    BY <1>1, <2>1 DEF PollType
  <2>3. UpdateInPhase'
    BY <1>1, <2>2 DEF FiledInv, UpdateInPhase, rest
  <2>4. ASSUME NEW j \in Keys, InUse(j)' PROVE InUse(j) /\ j # k
    <3>1. /\ keyById[k] = Absent /\ poll.adding = None /\ poll.fetched[k] = None
      BY <1>1 DEF FiledInv, UpdateInPhase
    <3> QED
      BY <1>1, <2>2, <2>4, <3>1, ConstantsAssumption, CertificatesAssumption DEF InUse, rest
  <2>5. CASE uncertified = {}
    <3>1. FiledIn(store, k)
      BY <1>1, <2>5 DEF FiledInv, FilesNeeded, InUse
    <3>2. InBuckets(store')
      BY <1>1, <1>2, <2>1, <3>1, RemovedFiled DEF FiledInv
    <3>3. \A j \in Keys : InUse(j)' => FiledIn(store', j)
      BY <1>1, <1>2, <2>1, <2>4, <2>5, <3>1, RemovedFiled DEF FiledInv, FilesNeeded
    <3> QED BY <1>1, <2>2, <2>3, <3>2, <3>3 DEF FiledInv, FilesNeeded, InBuckets, FiledIn
  <2>6. CASE uncertified # {}
    <3>1. InBuckets(store')
      BY <1>1, <1>2, <2>1, RemovedFiled DEF FiledInv
    <3> QED BY <1>1, <2>3, <2>6, <3>1 DEF FiledInv, FilesNeeded, InBuckets
  <2> QED BY <2>5, <2>6
<1>3. CASE ~Removable(store, k)
  <2>1. uncertified # {}
    BY <1>1, <1>3 DEF FiledInv, FilesNeeded, InUse, FiledIn
  <2>2. store' = store /\ poll' = [poll EXCEPT !.pc = "dead"]
    BY <1>3 DEF Remove
  <2>3. /\ poll'.pc = "dead" /\ poll'.removed = poll.removed
        /\ poll'.fetched = poll.fetched /\ poll'.adding = poll.adding
    BY <1>1, <2>2 DEF PollType
  <2>4. UpdateInPhase'
    BY <1>1, <2>3 DEF FiledInv, UpdateInPhase
  <2> QED BY <1>1, <2>1, <2>2, <2>4 DEF FiledInv, FilesNeeded, InBuckets
<1> QED BY <1>2, <1>3

LEMMA FiledUpdate == ASSUME CacheInv, FiledInv, Update PROVE FiledInv'
<1> USE ConstantsAssumption, CertificatesAssumption
<1>1. /\ poll \in PollType
      /\ NoPoll \in PollType /\ NoPoll.pc = "idle" /\ NoPoll.adding = None /\ NoPoll.removed = {}
      /\ \A k \in Keys : NoPoll.fetched[k] = None
  BY DEF CacheInv, TypeOK, PollType, NoPoll
<1>2. CASE StartUpdate
  <2>1. PICK users \in SUBSET Users : poll' = [NoPoll EXCEPT !.pc = "list", !.todo = users]
    BY <1>2 DEF StartUpdate
  <2>2. /\ poll'.pc = "list" /\ poll'.adding = None /\ poll'.removed = {}
        /\ poll'.fetched = NoPoll.fetched
    BY <1>1, <2>1 DEF PollType
  <2>3. UNCHANGED <<store, keyById, uncertified>>
    BY <1>2 DEF StartUpdate, cacheVars
  <2> QED BY <1>1, <2>2, <2>3, FiledStopped
<1>3. CASE CallFails \/ AddFails
  <2> DEFINE p == IF booted THEN "idle" ELSE "failed"
  <2>1. GivenUp
    BY <1>3 DEF CallFails, AddFails
  <2>2. poll' = [NoPoll EXCEPT !.pc = p] /\ p \in {"idle", "failed"}
    BY <2>1 DEF GivenUp
  <2> HIDE DEF p
  <2>3. /\ poll'.pc = p /\ poll'.adding = None /\ poll'.removed = {}
        /\ poll'.fetched = NoPoll.fetched
    BY <1>1, <2>2 DEF PollType
  <2>4. UNCHANGED <<store, keyById, uncertified>>
    BY <2>1 DEF GivenUp, cacheVars
  <2> QED BY <1>1, <2>2, <2>3, <2>4, FiledStopped
<1>4. CASE AddKey
  <2> DEFINE hashes == [poll.fetched EXCEPT ![poll.adding] = HashOf[poll.adding]]
  <2>1. /\ poll.pc = "fetch" /\ poll.adding # None
        /\ poll' = [poll EXCEPT !.adding = None, !.fetched = hashes]
    BY <1>1, <1>4 DEF AddKey, Polling, PollType
  <2>2. \A j \in Keys : hashes[j] # None => poll.fetched[j] # None \/ j = poll.adding
    BY <1>1 DEF PollType
  <2> HIDE DEF hashes
  <2>3. /\ poll'.pc = "fetch" /\ poll'.adding = None /\ poll'.removed = poll.removed
        /\ poll'.fetched = hashes
    BY <1>1, <2>1 DEF PollType
  <2>4. UNCHANGED <<store, keyById, uncertified>>
    BY <1>4 DEF AddKey, cacheVars
  <2>5. UpdateInPhase'
    BY <2>1, <2>3, <2>4 DEF FiledInv, UpdateInPhase
  <2>6. \A k \in Keys : InUse(k)' => InUse(k)
    BY <2>2, <2>3, <2>4 DEF InUse
  <2> QED BY <2>3, <2>4, <2>5, <2>6, FiledKept
<1>5. CASE Commit
  BY <1>5, FiledCommit
<1>6. CASE NextUser
  <2>1. /\ poll' = [poll EXCEPT !.pc = "list", !.user = None, !.listed = {}]
        /\ poll.pc = "remove" /\ poll.removed = {}
        /\ UNCHANGED <<store, keyById, uncertified>>
    BY <1>6 DEF NextUser, Polling, cacheVars
  <2>2. /\ poll'.pc = "list" /\ poll'.adding = poll.adding /\ poll'.removed = {}
        /\ poll'.fetched = poll.fetched
    BY <1>1, <2>1 DEF PollType
  <2> QED BY <2>1, <2>2, FiledStopped DEF FiledInv, UpdateInPhase
<1>7. CASE EndUpdate
  <2>1. poll' = NoPoll /\ UNCHANGED <<store, keyById, uncertified>>
    BY <1>7 DEF EndUpdate, cacheVars
  <2> QED BY <1>1, <2>1, FiledStopped
<1>8. CASE \E u \in Users : ListKeys(u)
  <2> PICK u \in Users : ListKeys(u)
    BY <1>8
  <2> DEFINE listed == FetchKeys(u)
  <2>1. /\ \/ poll' = [poll EXCEPT !.todo = @ \ {u}]
           \/ poll' = [poll EXCEPT !.pc = "fetch", !.todo = @ \ {u}, !.user = u,
                                   !.listed = listed, !.fetching = listed \ Known(u)]
        /\ poll.pc = "list"
        /\ UNCHANGED <<store, keyById, uncertified>>
    BY DEF ListKeys, Polling, cacheVars
  <2> HIDE DEF listed
  <2>2. /\ poll'.pc \in {"list", "fetch"} /\ poll'.adding = poll.adding
        /\ poll'.removed = poll.removed /\ poll'.fetched = poll.fetched
    <3>1. CASE poll' = [poll EXCEPT !.todo = @ \ {u}]
      BY <1>1, <2>1, <3>1 DEF PollType
    <3>2. CASE poll' = [poll EXCEPT !.pc = "fetch", !.todo = @ \ {u}, !.user = u,
                                    !.listed = listed, !.fetching = listed \ Known(u)]
      BY <1>1, <3>2 DEF PollType
    <3> QED BY <2>1, <3>1, <3>2
  <2>3. UpdateInPhase'
    BY <2>1, <2>2 DEF FiledInv, UpdateInPhase
  <2>4. \A k \in Keys : InUse(k)' => InUse(k)
    BY <2>1, <2>2 DEF InUse
  <2> QED BY <2>1, <2>2, <2>3, <2>4, FiledKept
<1>9. CASE \E k \in Keys : FetchKey(k)
  BY <1>9, FiledFetch
<1>10. CASE \E k \in Keys : Remove(k)
  BY <1>10, FiledRemove
<1> QED BY <1>2, <1>3, <1>4, <1>5, <1>6, <1>7, <1>8, <1>9, <1>10 DEF Update

LEMMA FiledStep == ASSUME CacheInv, FiledInv, [Next]_vars PROVE FiledInv'
<1>1. CASE Admin \/ AuthenticateUser \/ UNCHANGED vars
  <2>1. UNCHANGED <<store, keyById, uncertified, poll>>
    BY <1>1 DEF Admin, Upload, Deactivate, Activate, Delete, Change,
       AuthenticateUser, LookUp, CheckKey, Decide, Return, vars, cacheVars
  <2>2. UpdateInPhase'
    BY <2>1 DEF FiledInv, UpdateInPhase
  <2> QED BY <2>1, <2>2, FiledKept DEF InUse
<1>2. CASE Restart
  <2>1. \A b \in Buckets : store'.byHash[b] = IF b = CABucket THEN <<None>> ELSE <<>>
    BY <1>2 DEF Restart, InitialStore
  <2>2. InBuckets(store')
    BY <2>1, CertificatesAssumption DEF InBuckets
  <2>3. /\ poll'.pc = "idle" /\ poll'.adding = None /\ poll'.removed = {}
        /\ \A k \in Keys : poll'.fetched[k] = None /\ keyById'[k] = Absent
    BY <1>2 DEF Restart, NoPoll, NoKeyById
  <2>4. InBuckets(store)'
    BY <2>2 DEF InBuckets
  <2>5. UpdateInPhase' /\ FilesNeeded'
    BY <2>3, ConstantsAssumption, CertificatesAssumption
    DEF UpdateInPhase, FilesNeeded, InUse
  <2> QED BY <2>4, <2>5 DEF FiledInv
<1> QED BY <1>1, <1>2, FiledUpdate DEF Next

(* A cached key, and one about to be removed, has its certificate's file   *)
(* where the index says (ca.go:213-263), unless a key was cached without   *)
(* one; then no removal ends the program (config.go:229-231).              *)
THEOREM CertificatesKeptApart == Spec => []CertificatesFiled
<1>1. FiledInv => CertificatesFiled
  BY DEF FiledInv, FilesNeeded, CertificatesFiled, InUse, FiledIn, Filed
<1> QED BY <1>1, CacheInit, CacheStep, FiledInit, FiledStep, PTL DEF Spec

(***************************************************************************)
(* The certificate being written.                                          *)
(***************************************************************************)
(* A key being added is not cached yet, its file is the last of its        *)
(* bucket, and every bucket keeps to its bound.                            *)
AddingLast ==
    /\ poll.pc = "fetch" => \A k \in poll.fetching : keyById[k] = Absent
    /\ poll.adding # None =>
          /\ poll.pc = "fetch"
          /\ keyById[poll.adding] = Absent
          /\ FiledIn(store, poll.adding)
          /\ store.byName[poll.adding] + 1 = Len(Files(store, poll.adding))
    /\ \A b \in Buckets : Len(store.byHash[b]) <= MaxFiles

LEMMA EmptyHasRoom ==
    ASSUME NEW b \in Buckets PROVE Len(InitialStore.byHash[b]) <= MaxFiles
<1>1. InitialStore.byHash[b] = <<None>> \/ InitialStore.byHash[b] = <<>>
  BY DEF InitialStore
<1>2. Len(<<None>>) = 1 /\ Len(<<>>) = 0
  OBVIOUS
<1>3. Len(InitialStore.byHash[b]) \in {0, 1}
  BY <1>1, <1>2
<1>4. \A n \in {0, 1} : n <= MaxFiles
  BY ConstantsAssumption
<1> QED BY <1>3, <1>4

LEMMA AddingInit == Init => AddingLast
BY EmptyHasRoom DEF Init, AddingLast, NoPoll

(* Steps that leave the index and the cache alone and begin no certificate.*)
LEMMA AddingNothing ==
    ASSUME AddingLast, UNCHANGED <<store, keyById>>, poll'.adding = None,
           poll'.pc = "fetch" => poll.pc = "fetch" /\ poll'.fetching = poll.fetching
    PROVE  AddingLast'
BY DEF AddingLast

LEMMA AddingFetch ==
    ASSUME CacheInv, FiledInv, AddingLast, NEW k \in Keys, FetchKey(k)
    PROVE  AddingLast'
<1> DEFINE rest == poll.fetching \ {k}
<1>1. /\ poll \in PollType /\ poll.pc = "fetch" /\ poll.adding = None /\ k \in poll.fetching
      /\ \/ /\ store' = Added(store, k) /\ poll' = [poll EXCEPT !.fetching = rest, !.adding = k]
            /\ Len(Files(store, k)) < MaxFiles
         \/ store' = store /\ poll' = [poll EXCEPT !.fetching = rest]
      /\ keyById' = keyById
      /\ store \in Store /\ InBuckets(store)
  BY DEF FetchKey, Polling, CacheInv, TypeOK, PollType, FiledInv
<1>2. \A j \in rest : j \in poll.fetching
  OBVIOUS
<1> HIDE DEF rest
<1>3. /\ poll'.pc = "fetch" /\ poll'.fetching = rest
      /\ \/ store' = Added(store, k) /\ poll'.adding = k /\ Len(Files(store, k)) < MaxFiles
         \/ store' = store /\ poll'.adding = None
  BY <1>1 DEF PollType
<1>4. \A j \in poll'.fetching : keyById'[j] = Absent
  BY <1>1, <1>2, <1>3 DEF AddingLast
<1>5. CASE store' = store /\ poll'.adding = None
  BY <1>3, <1>4, <1>5 DEF AddingLast
<1>6. CASE store' = Added(store, k) /\ poll'.adding = k /\ Len(Files(store, k)) < MaxFiles
  <2> DEFINE n == Len(Files(store, k))
  <2>1. FilesAdded(store, store', k, n)
    BY <1>1, <1>6, AddedFiles
  <2> HIDE DEF n
  <2>2. /\ n \in Nat /\ store'.byName[k] = n /\ Len(Files(store', k)) = n + 1
        /\ \A b \in Buckets : b # Bucket(k) => store'.byHash[b] = store.byHash[b]
        /\ Files(store', k) = store'.byHash[Bucket(k)]
    BY <2>1 DEF FilesAdded, Files
  <2>3. FiledIn(store', k)
    BY <1>1, <1>6, AddedFiled
  <2>4. n + 1 <= MaxFiles
    BY <1>6, <2>2, ConstantsAssumption DEF n
  <2>5. \A b \in Buckets : Len(store'.byHash[b]) <= MaxFiles
    BY <2>2, <2>4 DEF AddingLast
  <2>6. keyById'[k] = Absent
    BY <1>1 DEF AddingLast
  <2> QED BY <1>3, <1>4, <1>6, <2>2, <2>3, <2>5, <2>6 DEF AddingLast, FiledIn, Files
<1> QED BY <1>3, <1>5, <1>6

LEMMA AddingRemove ==
    ASSUME CacheInv, FiledInv, AddingLast, NEW k \in Keys, Remove(k)
    PROVE  AddingLast'
<1>1. /\ poll \in PollType /\ poll.pc = "remove" /\ keyById' = keyById /\ store \in Store
      /\ poll.adding = None
  BY DEF Remove, Polling, CacheInv, TypeOK, PollType, FiledInv, UpdateInPhase
<1>2. poll'.pc # "fetch" /\ poll'.adding = None
  <2> DEFINE rest == poll.removed \ {k}
  <2>1. poll' = [poll EXCEPT !.removed = rest] \/ poll' = [poll EXCEPT !.pc = "dead"]
    BY DEF Remove
  <2> HIDE DEF rest
  <2> QED BY <1>1, <2>1 DEF PollType
<1>3. ASSUME NEW b \in Buckets PROVE Len(store'.byHash[b]) <= MaxFiles
  <2>1. CASE store' = store
    BY <2>1 DEF AddingLast
  <2>2. CASE Removable(store, k) /\ store' = Removed(store, k)
    <3> DEFINE n == Len(Files(store, k))
               moved == Files(store, k)[n]
    <3>1. FilesRemoved(store, store', k, n, store.byName[k], moved)
      BY <1>1, <2>2, RemovedFiles
    <3> HIDE DEF n, moved
    <3>2. /\ n \in Nat /\ Len(Files(store', k)) = n - 1
          /\ b # Bucket(k) => store'.byHash[b] = store.byHash[b]
      BY <3>1 DEF FilesRemoved
    <3>3. CASE b = Bucket(k)
      <4>1. n <= MaxFiles
        BY <3>3 DEF AddingLast, n, Files
      <4>2. Len(store'.byHash[b]) = n - 1
        BY <3>2, <3>3 DEF Files
      <4> QED BY <3>2, <4>1, <4>2, ConstantsAssumption
    <3> QED BY <3>2, <3>3 DEF AddingLast
  <2> QED BY <2>1, <2>2 DEF Remove
<1> QED BY <1>2, <1>3 DEF AddingLast

LEMMA AddingUpdate == ASSUME CacheInv, FiledInv, AddingLast, Update PROVE AddingLast'
<1>1. /\ poll \in PollType
      /\ NoPoll \in PollType /\ NoPoll.pc = "idle" /\ NoPoll.adding = None
  BY ConstantsAssumption, CertificatesAssumption DEF CacheInv, TypeOK, PollType, NoPoll
<1>2. CASE StartUpdate
  <2>1. PICK users \in SUBSET Users : poll' = [NoPoll EXCEPT !.pc = "list", !.todo = users]
    BY <1>2 DEF StartUpdate
  <2>2. poll'.pc = "list" /\ poll'.adding = None
    BY <1>1, <2>1 DEF PollType
  <2> QED BY <1>2, <2>2, AddingNothing DEF StartUpdate, cacheVars
<1>3. CASE CallFails \/ AddFails
  <2> DEFINE p == IF booted THEN "idle" ELSE "failed"
  <2>1. GivenUp
    BY <1>3 DEF CallFails, AddFails
  <2>2. poll' = [NoPoll EXCEPT !.pc = p] /\ p # "fetch"
    BY <2>1 DEF GivenUp
  <2> HIDE DEF p
  <2>3. poll'.pc # "fetch" /\ poll'.adding = None
    BY <1>1, <2>2 DEF PollType
  <2> QED BY <2>1, <2>3, AddingNothing DEF GivenUp, cacheVars
<1>4. CASE AddKey
  <2> DEFINE hashes == [poll.fetched EXCEPT ![poll.adding] = HashOf[poll.adding]]
  <2>1. poll.pc = "fetch" /\ poll' = [poll EXCEPT !.adding = None, !.fetched = hashes]
    BY <1>1, <1>4 DEF AddKey, Polling, PollType
  <2> HIDE DEF hashes
  <2>2. poll'.adding = None /\ poll'.fetching = poll.fetching
    BY <1>1, <2>1 DEF PollType
  <2> QED BY <1>4, <2>1, <2>2, AddingNothing DEF AddKey, cacheVars
<1>5. CASE Commit
  <2> DEFINE removed == Known(poll.user) \ poll.listed
             hashes == [j \in Keys |-> None]
  <2>1. /\ poll' = [poll EXCEPT !.pc = "remove", !.removed = removed, !.fetched = hashes]
        /\ poll.adding = None /\ store' = store
    BY <1>5 DEF Commit
  <2> HIDE DEF removed, hashes
  <2>2. poll'.pc = "remove" /\ poll'.adding = None
    BY <1>1, <2>1 DEF PollType
  <2> QED BY <2>1, <2>2 DEF AddingLast
<1>6. CASE NextUser
  <2>1. /\ poll' = [poll EXCEPT !.pc = "list", !.user = None, !.listed = {}]
        /\ poll.adding = None
    BY <1>6 DEF NextUser, Polling, FiledInv, UpdateInPhase
  <2>2. poll'.pc = "list" /\ poll'.adding = None
    BY <1>1, <2>1 DEF PollType
  <2> QED BY <1>6, <2>2, AddingNothing DEF NextUser, cacheVars
<1>7. CASE EndUpdate
  BY <1>1, <1>7, AddingNothing DEF EndUpdate, cacheVars
<1>8. CASE \E u \in Users : ListKeys(u)
  <2> PICK u \in Users : ListKeys(u)
    BY <1>8
  <2> DEFINE listed == FetchKeys(u)
             missing == listed \ Known(u)
  <2>1. /\ \/ poll' = [poll EXCEPT !.todo = @ \ {u}]
           \/ poll' = [poll EXCEPT !.pc = "fetch", !.todo = @ \ {u}, !.user = u,
                                   !.listed = listed, !.fetching = missing]
        /\ poll.pc = "list" /\ poll.adding = None
        /\ UNCHANGED <<store, keyById>>
    BY DEF ListKeys, Polling, cacheVars, FiledInv, UpdateInPhase
  <2>2. \A k \in missing : keyById[k] = Absent
    BY DEF FetchKeys, Known
  <2> HIDE DEF listed, missing
  <2>3. poll'.adding = None /\ (poll'.pc = "list" \/ poll'.fetching = missing)
    <3>1. CASE poll' = [poll EXCEPT !.todo = @ \ {u}]
      BY <1>1, <2>1, <3>1 DEF PollType
    <3>2. CASE poll' = [poll EXCEPT !.pc = "fetch", !.todo = @ \ {u}, !.user = u,
                                    !.listed = listed, !.fetching = missing]
      BY <1>1, <2>1, <3>2 DEF PollType
    <3> QED BY <2>1, <3>1, <3>2
  <2> QED BY <2>1, <2>2, <2>3 DEF AddingLast
<1>9. CASE \E k \in Keys : FetchKey(k)
  BY <1>9, AddingFetch
<1>10. CASE \E k \in Keys : Remove(k)
  BY <1>10, AddingRemove
<1> QED BY <1>2, <1>3, <1>4, <1>5, <1>6, <1>7, <1>8, <1>9, <1>10 DEF Update

LEMMA AddingStep == ASSUME CacheInv, FiledInv, AddingLast, [Next]_vars PROVE AddingLast'
<1>1. CASE Admin \/ AuthenticateUser \/ UNCHANGED vars
  <2>1. UNCHANGED <<store, keyById, poll>>
    BY <1>1 DEF Admin, Upload, Deactivate, Activate, Delete, Change,
       AuthenticateUser, LookUp, CheckKey, Decide, Return, vars, cacheVars
  <2> QED BY <2>1 DEF AddingLast, FiledIn
<1>2. CASE Restart
  <2>1. store' = InitialStore /\ poll'.pc = "idle" /\ poll'.adding = None
    BY <1>2 DEF Restart, NoPoll
  <2> QED BY <2>1, EmptyHasRoom DEF AddingLast
<1> QED BY <1>1, <1>2, AddingUpdate DEF Next

(* What the proofs about the directory use of the server.                  *)
LEMMA IndexRight == Spec => [](CacheInv /\ FiledInv /\ AddingLast)
BY CacheInit, CacheStep, FiledInit, FiledStep, AddingInit, AddingStep, PTL DEF Spec

-----------------------------------------------------------------------------
(***************************************************************************)
(* Trusted keys and the cache, with a backend that refuses a key the user  *)
(* has already, as IAM does.                                               *)
(***************************************************************************)
KeysApart(keys) ==
    \A k, l \in keys : KeyOwner[k] = KeyOwner[l] /\ HashOf[k] = HashOf[l] => k = l

Uploaded == {k \in Keys : key[k] \in {"active", "inactive"}}
InCache == {k \in Keys : keyById[k] # Absent}

(* No user has the same public key twice: not in the backend, so not on a  *)
(* list, so not in the cache.                                              *)
NoneTwice ==
    /\ KeysApart(Uploaded)
    /\ poll.pc = "fetch" => KeysApart(poll.listed)
    /\ KeysApart(InCache)

(* A cached key leads to itself, or has no hash for a reason that stays.   *)
Hopeless(k) == key[k] = "deleted" \/ k \in UNION WeakSets

CacheLeads ==
    \A k \in Keys :
        /\ keyById[k] = None => Hopeless(k)
        /\ keyById[k] \in Hashes => /\ keyById[k] = HashOf[k]
                                    /\ keyByHash[KeyOwner[k]][HashOf[k]] = k

FetchAccounted ==
    poll.pc = "fetch" =>
        \A k \in poll.listed : \/ k \in InCache \cup poll.fetching \cup {poll.adding}
                               \/ poll.fetched[k] # None
                               \/ Hopeless(k)

(* An update that nothing came between has seen every user it is done with.*)
Covered(u) == FetchKeys(u) \subseteq InCache

RosterCovered ==
    /\ synced = "pending" =>
          /\ poll.pc = "fetch" => poll.listed = FetchKeys(poll.user)
          /\ \A u \in roster : \/ u \in poll.todo
                               \/ Covered(u)
                               \/ poll.pc = "fetch" /\ u = poll.user
    /\ synced = "yes" => poll.pc = "idle" /\ \A u \in roster : Covered(u)

ReachInv == NoneTwice /\ CacheLeads /\ FetchAccounted /\ RosterCovered

LEMMA ReachInit == ASSUME UniqueKeys, Init PROVE ReachInv
<1> USE ConstantsAssumption, CertificatesAssumption
<1>1. /\ poll.pc = "idle" /\ synced = "no" /\ \A k \in Keys : keyById[k] = Absent
  BY DEF Init, NoPoll, NoKeyById
<1>2. KeysApart(Uploaded)
  <2>1. \A k \in Uploaded : k \in Keys /\ key[k] = "active"
    BY DEF Init, Uploaded
  <2> QED BY <2>1 DEF Init, KeysApart
<1> QED BY <1>1, <1>2 DEF ReachInv, NoneTwice, CacheLeads, FetchAccounted, RosterCovered,
           KeysApart, InCache

(* What administrators do makes the last update's view out of date.        *)
LEMMA ReachAdmin == ASSUME UniqueKeys, CacheInv, ReachInv, Admin PROVE ReachInv'
<1> PICK k \in Keys : Upload(k) \/ Deactivate(k) \/ Activate(k) \/ Delete(k)
  BY DEF Admin
<1>1. PICK status \in {"active", "inactive", "deleted"} : Change(k, status)
  BY DEF Upload, Deactivate, Activate, Delete
<1>2. /\ UNCHANGED <<keyById, keyByHash, poll, roster>> /\ synced' = "no"
      /\ key' = [key EXCEPT ![k] = status]
  BY <1>1 DEF Change, cacheVars
<1>3. key \in [Keys -> {"none", "active", "inactive", "deleted"}]
  BY DEF CacheInv, TypeOK
<1>4. \A j \in Keys : key'[j] = IF j = k THEN status ELSE key[j]
  BY <1>2, <1>3
<1>5. key[k] # "deleted"
  BY DEF Upload, Deactivate, Activate, Delete
<1>6. KeysApart(Uploaded)'
  <2> SUFFICES ASSUME NEW i \in Keys, NEW j \in Keys, i # j, KeyOwner[i] = KeyOwner[j],
                      HashOf[i] = HashOf[j],
                      key'[i] \in {"active", "inactive"}, key'[j] \in {"active", "inactive"}
               PROVE  FALSE
    BY DEF KeysApart, Uploaded
  <2>1. ~(i \in Uploaded /\ j \in Uploaded)
    BY DEF ReachInv, NoneTwice, KeysApart
  <2>2. i = k \/ j = k
    BY <1>4, <2>1 DEF Uploaded
  <2>3. CASE k \in Uploaded
    BY <1>4, <2>1, <2>2, <2>3 DEF Uploaded
  <2>4. CASE k \notin Uploaded
    <3>1. Upload(k)
      <4>1. Delete(k) => k \in Uploaded
        BY DEF Delete, Uploaded
      <4> QED BY <2>4, <4>1 DEF Uploaded, Deactivate, Activate
    <3> QED BY <1>4, <2>2, <3>1 DEF Upload
  <2> QED BY <2>3, <2>4
<1>7. NoneTwice'
  BY <1>2, <1>6 DEF ReachInv, NoneTwice, InCache, KeysApart
<1>8. \A j \in Keys : Hopeless(j) => Hopeless(j)'
  BY <1>4, <1>5 DEF Hopeless
<1>9. CacheLeads'
  BY <1>2, <1>8 DEF ReachInv, CacheLeads
<1>10. \A j \in Keys : j \in InCache' <=> j \in InCache
  BY <1>2 DEF InCache
<1>11. FetchAccounted'
  <2>1. poll.listed \subseteq Keys
    BY DEF CacheInv, TypeOK
  <2> QED BY <1>2, <1>8, <1>10, <2>1 DEF ReachInv, FetchAccounted
<1> QED BY <1>2, <1>7, <1>9, <1>11 DEF ReachInv, RosterCovered

(* Steps that leave the cache and the backend alone.                       *)
LEMMA ReachKept ==
    ASSUME ReachInv, UNCHANGED <<key, keyById, keyByHash>>,
           poll'.pc = "fetch" => poll.pc = "fetch" /\ poll'.listed = poll.listed,
           FetchAccounted', RosterCovered'
    PROVE  ReachInv'
<1>1. NoneTwice'
  BY DEF ReachInv, NoneTwice, KeysApart, Uploaded, InCache
<1>2. CacheLeads'
  BY DEF ReachInv, CacheLeads, Hopeless
<1> QED BY <1>1, <1>2 DEF ReachInv

LEMMA ReachStopped ==
    ASSUME ReachInv, UNCHANGED <<key, keyById, keyByHash>>, poll'.pc # "fetch", RosterCovered'
    PROVE  ReachInv'
BY ReachKept DEF FetchAccounted

LEMMA ReachStart == ASSUME CacheInv, ReachInv, StartUpdate PROVE ReachInv'
<1>1. PICK users \in SUBSET Users :
         poll' = [NoPoll EXCEPT !.pc = "list", !.todo = users] /\ roster' = users
  BY DEF StartUpdate
<1>2. poll'.pc = "list" /\ poll'.todo = roster'
  BY <1>1 DEF NoPoll
<1>3. synced' = "pending" /\ UNCHANGED <<key, keyById, keyByHash>>
  BY DEF StartUpdate, backendVars, cacheVars
<1> QED BY <1>2, <1>3, ReachStopped DEF RosterCovered

LEMMA ReachGivenUp == ASSUME CacheInv, ReachInv, GivenUp PROVE ReachInv'
<1>1. /\ poll'.pc # "fetch" /\ synced' = "no"
      /\ UNCHANGED <<key, keyById, keyByHash>>
  BY DEF GivenUp, NoPoll, backendVars, cacheVars
<1> QED BY <1>1, ReachStopped DEF RosterCovered

LEMMA ReachList == ASSUME UniqueKeys, CacheInv, ReachInv, NEW u \in Users, ListKeys(u) PROVE ReachInv'
<1> USE ConstantsAssumption, CertificatesAssumption
<1> DEFINE listed == FetchKeys(u)
           fetching == listed \ Known(u)
<1>1. /\ poll \in PollType /\ poll.pc = "list"
      /\ UNCHANGED <<key, keyById, keyByHash, synced, roster>>
  BY DEF ListKeys, Polling, CacheInv, TypeOK, PollType, backendVars, cacheVars
<1>2. Covered(u)' <=> Covered(u)
  BY <1>1 DEF Covered, FetchKeys, InCache
<1>3. \A v : Covered(v) => Covered(v)'
  BY <1>1 DEF Covered, FetchKeys, InCache
<1>4. synced # "yes"
  BY <1>1 DEF ReachInv, RosterCovered
<1>5. CASE listed = {} \/ listed = Known(u)
  <2>1. poll' = [poll EXCEPT !.todo = @ \ {u}]
    BY <1>5 DEF ListKeys
  <2>2. poll'.pc = "list" /\ poll'.todo = poll.todo \ {u}
    BY <1>1, <2>1 DEF PollType
  <2>3. Covered(u)
    BY <1>5 DEF Covered, Known, InCache
  <2>4. RosterCovered'
    BY <1>1, <1>3, <1>4, <2>2, <2>3 DEF ReachInv, RosterCovered
  <2> QED BY <1>1, <2>2, <2>4, ReachStopped
<1>6. CASE ~(listed = {} \/ listed = Known(u))
  <2>1. poll' = [poll EXCEPT !.pc = "fetch", !.todo = @ \ {u}, !.user = u,
                             !.listed = listed, !.fetching = fetching]
    BY <1>6 DEF ListKeys
  <2>2. listed \subseteq Uploaded /\ listed \subseteq Keys /\ \A k \in listed : KeyOwner[k] = u
    BY DEF FetchKeys, Uploaded
  <2>3. FetchKeys(u)' = listed
    BY <1>1 DEF FetchKeys
  <2>4. \A k \in listed : k \notin fetching => k \in InCache
    BY DEF Known, InCache
  <2> HIDE DEF listed, fetching
  <2>5. /\ poll'.pc = "fetch" /\ poll'.todo = poll.todo \ {u} /\ poll'.user = u
        /\ poll'.listed = listed /\ poll'.fetching = fetching
    BY <1>1, <2>1 DEF PollType
  <2>6. InCache' = InCache /\ Uploaded' = Uploaded
    BY <1>1 DEF InCache, Uploaded
  <2>7. NoneTwice'
    BY <2>2, <2>5, <2>6 DEF ReachInv, NoneTwice, KeysApart
  <2>8. CacheLeads'
    BY <1>1 DEF ReachInv, CacheLeads, Hopeless
  <2>9. FetchAccounted'
    BY <2>4, <2>5, <2>6 DEF FetchAccounted
  <2>10. RosterCovered'
    BY <1>1, <1>3, <1>4, <2>3, <2>5 DEF ReachInv, RosterCovered
  <2> QED BY <2>7, <2>8, <2>9, <2>10 DEF ReachInv
<1> QED BY <1>5, <1>6

LEMMA ReachFetch == ASSUME CacheInv, ReachInv, NEW k \in Keys, FetchKey(k) PROVE ReachInv'
<1> DEFINE rest == poll.fetching \ {k}
<1>1. /\ poll \in PollType /\ poll.pc = "fetch" /\ poll.adding = None
      /\ \/ poll' = [poll EXCEPT !.fetching = rest, !.adding = k]
         \/ poll' = [poll EXCEPT !.fetching = rest] /\ Hopeless(k)
      /\ UNCHANGED <<key, keyById, keyByHash, synced, roster>>
  <2>1. k \in weak => k \in UNION WeakSets
    BY DEF CacheInv, TypeOK
  <2> QED BY <2>1
      DEF FetchKey, Polling, Acceptable, Hopeless, CacheInv, TypeOK, PollType, backendVars
<1> HIDE DEF rest
<1>2. /\ poll'.pc = "fetch" /\ poll'.listed = poll.listed /\ poll'.user = poll.user
      /\ poll'.fetched = poll.fetched /\ poll'.todo = poll.todo /\ poll'.fetching = rest
      /\ poll'.adding = k \/ (Hopeless(k) /\ poll'.adding = None)
  <2>1. CASE poll' = [poll EXCEPT !.fetching = rest, !.adding = k]
    BY <1>1, <2>1 DEF PollType
  <2>2. CASE poll' = [poll EXCEPT !.fetching = rest] /\ Hopeless(k)
    BY <1>1, <2>2 DEF PollType
  <2> QED BY <1>1, <2>1, <2>2
<1>3. poll.listed \subseteq Keys
  BY <1>1 DEF PollType
<1>4. /\ \A j \in Keys : Hopeless(j)' <=> Hopeless(j)
      /\ InCache' = InCache
      /\ \A u : Covered(u)' <=> Covered(u)
      /\ \A u : FetchKeys(u)' = FetchKeys(u)
  BY <1>1 DEF Hopeless, InCache, Covered, FetchKeys
<1>5. FetchAccounted'
  <2> SUFFICES ASSUME NEW j \in poll.listed
               PROVE  \/ j \in InCache' \cup poll'.fetching \cup {poll'.adding}
                      \/ poll'.fetched[j] # None
                      \/ Hopeless(j)'
    BY <1>2 DEF FetchAccounted
  <2>1. \/ j \in InCache \/ j \in poll.fetching \/ j = None
        \/ poll.fetched[j] # None
        \/ Hopeless(j)
    BY <1>1 DEF ReachInv, FetchAccounted
  <2>2. j # None
    BY <1>3, CertificatesAssumption
  <2> QED BY <1>2, <1>3, <1>4, <2>1, <2>2 DEF rest
<1>6. RosterCovered'
  BY <1>1, <1>2, <1>4 DEF ReachInv, RosterCovered
<1> QED BY <1>1, <1>2, <1>5, <1>6, ReachKept

LEMMA ReachAdd == ASSUME CacheInv, ReachInv, AddKey PROVE ReachInv'
<1> USE ConstantsAssumption, CertificatesAssumption
<1> DEFINE hashes == [poll.fetched EXCEPT ![poll.adding] = HashOf[poll.adding]]
<1>1. /\ poll \in PollType /\ poll.pc = "fetch" /\ poll.adding # None
      /\ poll' = [poll EXCEPT !.adding = None, !.fetched = hashes]
      /\ UNCHANGED <<key, keyById, keyByHash, synced, roster>>
  BY DEF AddKey, Polling, CacheInv, TypeOK, PollType, backendVars, cacheVars
<1>2. /\ poll.adding \in Keys /\ HashOf[poll.adding] # None
      /\ \A j \in Keys : poll.fetched[j] # None \/ j = poll.adding => hashes[j] # None
  BY <1>1 DEF PollType
<1> HIDE DEF hashes
<1>3. /\ poll'.pc = "fetch" /\ poll'.listed = poll.listed /\ poll'.user = poll.user
      /\ poll'.fetched = hashes /\ poll'.todo = poll.todo /\ poll'.fetching = poll.fetching
  BY <1>1 DEF PollType
<1>4. poll.listed \subseteq Keys
  BY <1>1 DEF PollType
<1>5. /\ \A j \in Keys : Hopeless(j)' <=> Hopeless(j)
      /\ InCache' = InCache
      /\ \A u : Covered(u)' <=> Covered(u)
      /\ \A u : FetchKeys(u)' = FetchKeys(u)
  BY <1>1 DEF Hopeless, InCache, Covered, FetchKeys
<1>6. FetchAccounted'
  BY <1>1, <1>2, <1>3, <1>4, <1>5 DEF ReachInv, FetchAccounted
<1>7. RosterCovered'
  BY <1>1, <1>3, <1>5 DEF ReachInv, RosterCovered
<1> QED BY <1>1, <1>3, <1>6, <1>7, ReachKept

(* The commit makes the user's cached keys those of the list; a hash that  *)
(* stays was not that of a removed key, nor of another new one.            *)
LEMMA ReachCommit == ASSUME CacheInv, ReachInv, Commit PROVE ReachInv'
<1> USE ConstantsAssumption, CertificatesAssumption
<1> DEFINE u == poll.user
           removed == Known(u) \ poll.listed
           new == poll.listed \ Known(u)
           gone == {keyById[k] : k \in removed}
<1>1. PICK byHash \in [Hashes \cup {None} -> Keys \cup {None}] :
         /\ \A h \in Hashes \cup {None} :
               LET adders == {k \in new : poll.fetched[k] = h}
               IN  IF adders # {} THEN byHash[h] \in adders
                   ELSE byHash[h] = IF h \in gone THEN None ELSE keyByHash[u][h]
         /\ keyByHash' = [keyByHash EXCEPT ![u] = byHash]
  BY DEF Commit, HashMaps
<1>2. /\ poll.pc = "fetch" /\ poll \in PollType
      /\ poll.fetching = {} /\ poll.adding = None
      /\ keyById' = [k \in Keys |-> IF k \in removed THEN Absent
                                     ELSE IF k \in new THEN poll.fetched[k]
                                     ELSE keyById[k]]
      /\ poll' = [poll EXCEPT !.pc = "remove", !.removed = removed,
                              !.fetched = [k \in Keys |-> None]]
      /\ UNCHANGED <<key, synced, roster>>
  BY DEF Commit, Polling, CacheInv, TypeOK, PollType, backendVars
<1>3. /\ u \in Users
      /\ \A k \in poll.listed : KeyOwner[k] = u
      /\ poll.listed \subseteq Keys
      /\ poll.fetched \in [Keys -> Hashes \cup {None}]
      /\ \A k \in Keys : poll.fetched[k] # None => poll.fetched[k] = HashOf[k]
      /\ KeysApart(poll.listed) /\ KeysApart(InCache) /\ KeysApart(Uploaded)
      /\ CacheLeads
  BY <1>2 DEF CacheInv, UpdateTruthful, PollType, ReachInv, NoneTwice
<1>4. /\ \A k \in removed : k \in Keys /\ KeyOwner[k] = u /\ k \in InCache /\ k \notin poll.listed
      /\ \A k \in new : k \in Keys /\ KeyOwner[k] = u /\ k \in poll.listed /\ k \notin InCache
      /\ \A k \in Keys : k \in InCache /\ k \notin removed => KeyOwner[k] # u \/ k \in poll.listed
      /\ \A k \in poll.listed : k \notin removed /\ (k \in new \/ k \in InCache)
      /\ gone = {keyById[k] : k \in removed}
  BY <1>3 DEF Known, InCache
<1>5. \A k \in new : poll.fetched[k] # None \/ Hopeless(k)
  BY <1>2, <1>4 DEF ReachInv, FetchAccounted
<1>6. /\ keyById \in [Keys -> Hashes \cup {None, Absent}]
      /\ keyByHash \in [Users -> [Hashes \cup {None} -> Keys \cup {None}]]
  BY DEF CacheInv, TypeOK
<1>7. poll'.pc = "remove" /\ poll'.todo = poll.todo
  <2> HIDE DEF removed
  <2> QED BY <1>2 DEF PollType
<1> HIDE DEF u, removed, new, gone
<1>8. \A k \in Keys : keyById'[k] = IF k \in removed THEN Absent
                                    ELSE IF k \in new THEN poll.fetched[k]
                                    ELSE keyById[k]
  BY <1>2
<1>9. \A k \in Keys : k \in InCache' <=> IF KeyOwner[k] = u THEN k \in poll.listed ELSE k \in InCache
  <2> SUFFICES ASSUME NEW k \in Keys
               PROVE  k \in InCache' <=> IF KeyOwner[k] = u THEN k \in poll.listed ELSE k \in InCache
    OBVIOUS
  <2>1. k \in InCache' <=> k \notin removed /\ (k \in new \/ k \in InCache)
    <3>1. k \in new => poll.fetched[k] # Absent
      BY <1>3, <1>4
    <3> QED BY <1>8, <3>1 DEF InCache
  <2> QED BY <1>4, <2>1
<1>10. NoneTwice'
  <2>1. KeysApart(InCache)'
    <3> SUFFICES ASSUME NEW i \in InCache', NEW j \in InCache',
                        KeyOwner[i] = KeyOwner[j], HashOf[i] = HashOf[j]
                 PROVE  i = j
      BY DEF KeysApart
    <3>1. i \in Keys /\ j \in Keys
      BY DEF InCache
    <3> QED BY <1>3, <1>9, <3>1 DEF KeysApart
  <2>2. KeysApart(Uploaded)'
    BY <1>2, <1>3 DEF KeysApart, Uploaded
  <2> QED BY <1>7, <2>1, <2>2 DEF NoneTwice
<1>11. CacheLeads'
  <2> SUFFICES ASSUME NEW k \in Keys
               PROVE  /\ keyById'[k] = None => Hopeless(k)'
                      /\ keyById'[k] \in Hashes =>
                            /\ keyById'[k] = HashOf[k]
                            /\ keyByHash'[KeyOwner[k]][HashOf[k]] = k
    BY DEF CacheLeads
  <2>1. Hopeless(k)' <=> Hopeless(k)
    BY <1>2 DEF Hopeless
  <2>2. keyById'[k] = None => Hopeless(k)'
    BY <1>3, <1>5, <1>8, <2>1 DEF CacheLeads
  <2>3. ASSUME keyById'[k] \in Hashes
        PROVE  keyById'[k] = HashOf[k] /\ keyByHash'[KeyOwner[k]][HashOf[k]] = k
    <3> DEFINE h == HashOf[k]
               adders == {l \in new : poll.fetched[l] = h}
    <3>1. k \notin removed /\ (k \in new \/ k \in InCache)
      <4>1. keyById'[k] # Absent
        BY <2>3
      <4> QED BY <1>8, <4>1 DEF InCache
    <3>2. \A l \in adders : l \in poll.listed /\ KeyOwner[l] = u /\ HashOf[l] = h /\ l \notin InCache
      BY <1>3, <1>4
    <3>3. h \in Hashes
      OBVIOUS
    <3>4. CASE k \in new
      <4>1. k \in adders /\ KeyOwner[k] = u /\ k \in poll.listed
        BY <1>3, <1>4, <1>8, <2>3, <3>1, <3>4
      <4>2. adders = {k}
        BY <1>3, <3>2, <4>1 DEF KeysApart
      <4>3. byHash[h] = k
        BY <1>1, <3>3, <4>2
      <4> QED BY <1>1, <1>3, <1>6, <1>8, <3>1, <3>4, <4>1, <4>3
    <3>5. CASE k \notin new /\ KeyOwner[k] # u
      <4>1. keyById'[k] = keyById[k] /\ keyByHash'[KeyOwner[k]] = keyByHash[KeyOwner[k]]
        BY <1>1, <1>6, <1>8, <3>1, <3>5
      <4> QED BY <1>3, <2>3, <4>1 DEF CacheLeads
    <3>6. CASE k \notin new /\ KeyOwner[k] = u
      <4>1. keyById'[k] = keyById[k] /\ k \in InCache /\ k \in poll.listed
        BY <1>4, <1>8, <3>1, <3>6
      <4>2. keyById[k] = h /\ keyByHash[u][h] = k
        BY <1>3, <2>3, <3>6, <4>1 DEF CacheLeads
      <4>3. adders = {}
        BY <1>3, <3>2, <3>6, <4>1 DEF KeysApart
      <4>4. h \notin gone
        <5> SUFFICES ASSUME NEW l \in removed, keyById[l] = h PROVE FALSE
          BY <1>4
        <5>1. l \in Keys /\ KeyOwner[l] = u /\ l \in InCache /\ HashOf[l] = h
          BY <1>3, <1>4, <3>3 DEF CacheLeads
        <5>2. l = k
          BY <1>3, <3>6, <4>1, <5>1 DEF KeysApart
        <5> QED BY <3>1, <5>2
      <4>5. byHash[h] = k
        BY <1>1, <3>3, <4>2, <4>3, <4>4
      <4> QED BY <1>1, <1>3, <1>6, <3>6, <4>1, <4>2, <4>5
    <3> QED BY <3>4, <3>5, <3>6
  <2> QED BY <2>2, <2>3
<1>12. FetchAccounted'
  BY <1>7 DEF FetchAccounted
<1>13. RosterCovered'
  <2>1. synced # "yes"
    BY <1>2 DEF ReachInv, RosterCovered
  <2>2. ASSUME NEW v, Covered(v) PROVE Covered(v)' \/ v = u
    <3>1. FetchKeys(v)' = FetchKeys(v) /\ \A k \in FetchKeys(v) : k \in Keys /\ KeyOwner[k] = v
      BY <1>2 DEF FetchKeys
    <3> QED BY <1>9, <2>2, <3>1 DEF Covered
  <2>3. ASSUME NEW v, v = u, poll.listed = FetchKeys(v) PROVE Covered(v)'
    <3>1. FetchKeys(v)' = FetchKeys(v) /\ \A k \in FetchKeys(v) : k \in Keys /\ KeyOwner[k] = v
      BY <1>2 DEF FetchKeys
    <3> QED BY <1>9, <2>3, <3>1 DEF Covered
  <2> QED BY <1>2, <1>7, <2>1, <2>2, <2>3 DEF ReachInv, RosterCovered, u
<1> QED BY <1>10, <1>11, <1>12, <1>13 DEF ReachInv

LEMMA ReachStep == ASSUME UniqueKeys, CacheInv, ReachInv, [Next]_vars PROVE ReachInv'
<1>0. poll \in PollType
  BY DEF CacheInv, TypeOK, PollType
<1>1. CASE AuthenticateUser \/ UNCHANGED vars
  <2>1. UNCHANGED <<key, keyById, keyByHash, poll, synced, roster>>
    BY <1>1 DEF AuthenticateUser, LookUp, CheckKey, Decide, Return, vars, backendVars, cacheVars
  <2>2. FetchAccounted' /\ RosterCovered'
    BY <2>1 DEF ReachInv, FetchAccounted, RosterCovered, InCache, Covered, FetchKeys, Hopeless
  <2> QED BY <2>1, <2>2, ReachKept
<1>2. CASE Admin
  BY <1>2, ReachAdmin
<1>3. CASE Restart
  <2>1. /\ poll'.pc = "idle" /\ synced' = "no" /\ key' = key
        /\ \A k \in Keys : keyById'[k] = Absent
    BY <1>3 DEF Restart, NoPoll, NoKeyById, backendVars
  <2>2. KeysApart(Uploaded)' /\ KeysApart(InCache)'
    BY <2>1 DEF ReachInv, NoneTwice, KeysApart, Uploaded, InCache
  <2> QED BY <2>1, <2>2, ConstantsAssumption
      DEF ReachInv, NoneTwice, CacheLeads, FetchAccounted, RosterCovered
<1>4. CASE StartUpdate
  BY <1>4, ReachStart
<1>5. CASE CallFails \/ AddFails
  BY <1>5, ReachGivenUp DEF CallFails, AddFails
<1>6. CASE AddKey
  BY <1>6, ReachAdd
<1>7. CASE Commit
  BY <1>7, ReachCommit
<1>8. CASE NextUser
  <2>1. /\ poll' = [poll EXCEPT !.pc = "list", !.user = None, !.listed = {}]
        /\ poll.pc = "remove"
        /\ UNCHANGED <<key, keyById, keyByHash, synced, roster>>
    BY <1>8 DEF NextUser, Polling, backendVars, cacheVars
  <2>2. poll'.pc = "list" /\ poll'.todo = poll.todo
    BY <1>0, <2>1 DEF PollType
  <2>3. RosterCovered'
    BY <2>1, <2>2 DEF ReachInv, RosterCovered, Covered, InCache, FetchKeys
  <2> QED BY <2>1, <2>2, <2>3, ReachStopped
<1>9. CASE EndUpdate
  <2>1. /\ poll.pc = "list" /\ poll.todo = {} /\ poll'.pc = "idle"
        /\ synced' = IF synced = "pending" THEN "yes" ELSE "no"
        /\ UNCHANGED <<key, keyById, keyByHash, roster>>
    BY <1>9 DEF EndUpdate, Polling, NoPoll, backendVars, cacheVars
  <2>2. RosterCovered'
    BY <2>1 DEF ReachInv, RosterCovered, Covered, InCache, FetchKeys
  <2> QED BY <2>1, <2>2, ReachStopped
<1>10. CASE \E u \in Users : ListKeys(u)
  BY <1>10, ReachList
<1>11. CASE \E k \in Keys : FetchKey(k)
  BY <1>11, ReachFetch
<1>12. CASE \E k \in Keys : Remove(k)
  <2> PICK k \in Keys : Remove(k)
    BY <1>12
  <2>1. /\ \/ poll' = [poll EXCEPT !.removed = @ \ {k}]
           \/ poll' = [poll EXCEPT !.pc = "dead"]
        /\ poll.pc = "remove"
        /\ UNCHANGED <<key, keyById, keyByHash, synced, roster>>
    BY DEF Remove, Polling, backendVars
  <2>2. poll'.pc \in {"remove", "dead"} /\ poll'.todo = poll.todo
    BY <1>0, <2>1 DEF PollType
  <2>3. RosterCovered'
    BY <2>1, <2>2 DEF ReachInv, RosterCovered, Covered, InCache, FetchKeys
  <2> QED BY <2>1, <2>2, <2>3, ReachStopped
<1> QED BY <1>1, <1>2, <1>3, <1>4, <1>5, <1>6, <1>7, <1>8, <1>9, <1>10, <1>11, <1>12
    DEF Next, Update

(* With a backend that refuses a key the user has already, whoever holds a *)
(* trusted key is let in once an update has seen it, through keys that are *)
(* replaced, disabled and deleted in any order, and any edits of           *)
(* key-strength - but for a key that was cached as too weak                *)
(* (config.go:153-165,198-227).  With a backend that does not, removing    *)
(* one of two like keys shuts out the other.                               *)
THEOREM TrustedKeysReachable == ASSUME UniqueKeys PROVE Spec => []TrustedKeyReachable
<1>1. CacheInv /\ ReachInv => TrustedKeyReachable
  <2> SUFFICES ASSUME CacheInv, ReachInv, synced = "yes", NEW k \in Keys \ weak,
                      key[k] = "active", KeyOwner[k] \in roster
               PROVE  \/ keyByHash[KeyOwner[k]][HashOf[k]] \in FetchKeys(KeyOwner[k])
                      \/ PassedOver(k)
    BY DEF TrustedKeyReachable
  <2>1. k \in FetchKeys(KeyOwner[k])
    BY DEF FetchKeys
  <2>2. keyById[k] # Absent
    BY <2>1 DEF ReachInv, RosterCovered, Covered, InCache
  <2>3. CASE keyById[k] = None
    BY <2>3 DEF ReachInv, CacheLeads, Hopeless, PassedOver
  <2>4. CASE keyById[k] \in Hashes
    BY <2>1, <2>4 DEF ReachInv, CacheLeads
  <2> QED BY <2>2, <2>3, <2>4 DEF CacheInv, TypeOK
<1>2. Init => ReachInv
  BY ReachInit
<1>3. CacheInv /\ ReachInv /\ [Next]_vars => ReachInv'
  BY ReachStep
<1> QED BY <1>1, <1>2, <1>3, CacheInit, CacheStep, PTL DEF Spec
===============================================================================
