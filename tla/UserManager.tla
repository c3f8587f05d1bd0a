----------------------------- MODULE UserManager -----------------------------
(***************************************************************************)
(* The user manager of internal/vpn/config.go: a cache of each user's      *)
(* trusted keys, refreshed by a polling goroutine (updateKeys) and read by *)
(* the event handler when a client connects (authenticateUser), which      *)
(* looks a key up in the cache and then asks the backend whether it is     *)
(* still there.  The backend - IAM's SSH public keys, or a directory of    *)
(* files - is changed by administrators at any moment, between any two     *)
(* calls, and any call may fail.                                           *)
(*                                                                         *)
(* The polling goroutine keeps the certificate manager in step: a key is   *)
(* Added when it is fetched and Removed when it is gone from the list.     *)
(***************************************************************************)
EXTENDS CertificateManager

CONSTANTS
    WeakSets,      \* for each file that may be in force, the keys below its
                   \* key-strength
    Deletable,     \* the keys an administrator may delete, not only disable
    UniqueKeys,    \* does the backend refuse a key the user has already? (IAM does)
    MaxChanges,    \* bound on the administrators' changes
    MaxFiles,      \* bound on the certificates of a bucket, the CA's included
    Absent         \* the hash of a key id that is not in keyById at all

ASSUME ConstantsAssumption ==
    /\ WeakSets \subseteq SUBSET Keys /\ WeakSets # {}
    /\ Deletable \subseteq Keys
    /\ UniqueKeys \in BOOLEAN
    /\ MaxChanges \in Nat /\ MaxFiles \in Nat \ {0}
    /\ Absent \notin Hashes \cup {None}

VARIABLES
    \* the backend (external)
    key,        \* status of each key id
    changes,    \* administrators' changes so far
    \* userManager and CertificateManager
    weak,       \* the keys below the key-strength of the file in force
    keyById,    \* key id -> hash, over all users
    keyByHash,  \* user -> hash -> key id
    store,      \* the certificate manager's index
    \* the polling goroutine
    poll,       \* [pc, todo, user, listed, fetching, adding, fetched, removed]
    booted,     \* has the first update, BootVPN's, succeeded?
    \* the event handler inside authenticateUser
    auth,       \* [pc, user, hash, key]
    \* history
    synced,     \* has the last update seen all there is to see?
    roster,     \* the users the last update covered
    active,     \* the hashes trusted at some time since the request began
    uncertified \* the keys that were cached without a certificate

backendVars == <<key, changes>>
cacheVars == <<keyById, keyByHash, store>>
vars == <<backendVars, weak, cacheVars, poll, booted, auth, synced, roster, active,
          uncertified>>

NoPoll == [pc |-> "idle", todo |-> {}, user |-> None, listed |-> {}, fetching |-> {},
           adding |-> None, fetched |-> [k \in Keys |-> None], removed |-> {}]

NoAuth == [pc |-> "idle", user |-> None, hash |-> None, key |-> None]

NoKeyById == [k \in Keys |-> Absent]

NoKeyByHash == [u \in Users |-> [h \in Hashes \cup {None} |-> None]]

Init ==
    /\ key \in [Keys -> {"none", "active"}]
    /\ UniqueKeys => \A k, l \in Keys :
           (key[k] = "active" /\ key[l] = "active" /\ KeyOwner[k] = KeyOwner[l]
              /\ HashOf[k] = HashOf[l]) => k = l
    /\ changes = 0
    /\ weak = {}
    /\ keyById = NoKeyById
    /\ keyByHash = NoKeyByHash
    /\ store = InitialStore
    /\ poll = NoPoll
    /\ booted = FALSE
    /\ auth = NoAuth
    /\ synced = "no"
    /\ roster = {}
    /\ active = {}
    /\ uncertified = {}

Alive == poll.pc \notin {"dead", "failed"}

-----------------------------------------------------------------------------
(***************************************************************************)
(* The backend and what it answers.                                        *)
(***************************************************************************)
FetchKeys(u) == {k \in Keys : KeyOwner[k] = u /\ key[k] = "active"}

Trusted(status, u) == {HashOf[k] : k \in {l \in Keys : KeyOwner[l] = u /\ status[l] = "active"}}

Change(k, status) ==
    /\ Alive
    /\ changes < MaxChanges
    /\ changes' = changes + 1
    /\ key' = [key EXCEPT ![k] = status]
    /\ synced' = "no"
    /\ active' = IF auth.pc = "idle" THEN active ELSE active \cup Trusted(key', auth.user)
    /\ UNCHANGED <<cacheVars, poll, booted, auth, roster, weak, uncertified>>

Upload(k) ==
    /\ key[k] = "none"
    /\ UniqueKeys => ~\E l \in Keys : /\ key[l] \in {"active", "inactive"}
                                      /\ KeyOwner[l] = KeyOwner[k]
                                      /\ HashOf[l] = HashOf[k]
    /\ Change(k, "active")

Deactivate(k) == key[k] = "active" /\ Change(k, "inactive")

Activate(k) == key[k] = "inactive" /\ Change(k, "active")

Delete(k) ==
    /\ k \in Deletable
    /\ key[k] \in {"active", "inactive"}
    /\ Change(k, "deleted")

-----------------------------------------------------------------------------
(***************************************************************************)
(* The polling goroutine: updateConfig, update, buildUserConfigs,          *)
(* updateKeys.  A call that fails ends the update where it stands: what    *)
(* was committed and every certificate added so far stays.  It ends the    *)
(* program if it is BootVPN's.                                             *)
(***************************************************************************)
Polling(pc) == poll.pc = pc

(* The file that names the users also sets the key-strength, and either    *)
(* may have been edited since the last update.                             *)
StartUpdate ==
    /\ Polling("idle")
    /\ weak' \in WeakSets
    /\ \E users \in SUBSET Users :
          /\ poll' = [NoPoll EXCEPT !.pc = "list", !.todo = users]
          /\ roster' = users
    /\ synced' = "pending"
    /\ UNCHANGED <<backendVars, cacheVars, booted, auth, active, uncertified>>

GivenUp ==
    /\ poll' = [NoPoll EXCEPT !.pc = IF booted THEN "idle" ELSE "failed"]
    /\ synced' = "no"
    /\ UNCHANGED <<backendVars, cacheVars, booted, auth, roster, weak, active, uncertified>>

CallFails ==
    /\ \/ poll.pc = "list" /\ poll.todo # {}
       \/ poll.pc = "fetch" /\ poll.fetching # {} /\ poll.adding = None
    /\ GivenUp

Known(u) == {k \in Keys : KeyOwner[k] = u /\ keyById[k] # Absent}

(* One turn of the loop up to line 168: a user without keys, or whose keys *)
(* are the cached ones, is passed over.                                    *)
ListKeys(u) ==
    /\ Polling("list") /\ u \in poll.todo
    /\ LET listed == FetchKeys(u)
       IN  poll' = IF listed = {} \/ listed = Known(u)
                     THEN [poll EXCEPT !.todo = @ \ {u}]
                     ELSE [poll EXCEPT !.pc = "fetch", !.todo = @ \ {u}, !.user = u,
                                       !.listed = listed, !.fetching = listed \ Known(u)]
    /\ UNCHANGED <<backendVars, cacheVars, booted, auth, synced, roster, weak, active, uncertified>>

(* A key that vanished since it was listed, and one that is too weak for   *)
(* the file in force, get no certificate and no hash; neither is an error. *)
Acceptable(k) == key[k] # "deleted" /\ k \notin weak

(* An acceptable key goes to CertificateManager.Add, which enters it in    *)
(* the index and then writes its file.                                     *)
FetchKey(k) ==
    /\ Polling("fetch") /\ poll.adding = None /\ k \in poll.fetching
    /\ IF Acceptable(k)
         THEN /\ Len(Files(store, k)) < MaxFiles
              /\ store' = Added(store, k)
              /\ poll' = [poll EXCEPT !.fetching = @ \ {k}, !.adding = k]
         ELSE /\ poll' = [poll EXCEPT !.fetching = @ \ {k}]
              /\ UNCHANGED store
    /\ UNCHANGED <<backendVars, keyById, keyByHash, booted, auth, synced, roster, weak, active, uncertified>>

(* Seeded bug: the key's id is noted in place of its hash.                 *)
AddKeyNotesId ==
    /\ Polling("fetch") /\ poll.adding # None
    /\ poll' = [poll EXCEPT !.adding = None, !.fetched[poll.adding] = poll.adding]
    /\ UNCHANGED <<backendVars, cacheVars, booted, auth, synced, roster, weak, active, uncertified>>

AddKey ==
    /\ Polling("fetch") /\ poll.adding # None
    /\ poll' = [poll EXCEPT !.adding = None, !.fetched[poll.adding] = HashOf[poll.adding]]
    /\ UNCHANGED <<backendVars, cacheVars, booted, auth, synced, roster, weak, active, uncertified>>

(* The file cannot be written; its entry in the index stays.               *)
AddFails ==
    /\ Polling("fetch") /\ poll.adding # None
    /\ GivenUp

(* Seeded bug: a removed key's hash is not deleted.                        *)
HashMapsKeepGone(old, gone, new) ==
    {byHash \in [Hashes \cup {None} -> Keys \cup {None}] :
        \A h \in Hashes \cup {None} :
            LET adders == {k \in new : poll.fetched[k] = h}
            IN  IF adders # {} THEN byHash[h] \in adders ELSE byHash[h] = old[h]}

(* Seeded bug: the hashes of removed keys are deleted last.                *)
HashMapsDeleteLast(old, gone, new) ==
    {byHash \in [Hashes \cup {None} -> Keys \cup {None}] :
        \A h \in Hashes \cup {None} :
            LET adders == {k \in new : poll.fetched[k] = h}
            IN  IF h \in gone THEN byHash[h] = None
                ELSE IF adders # {} THEN byHash[h] \in adders ELSE byHash[h] = old[h]}

(* keyByHash once the hashes of the removed keys are deleted and those of  *)
(* the new keys written.  newKeys is a Go map, so of two new keys with one *)
(* hash either may be written last.                                        *)
HashMaps(old, gone, new) ==
    {byHash \in [Hashes \cup {None} -> Keys \cup {None}] :
        \A h \in Hashes \cup {None} :
            LET adders == {k \in new : poll.fetched[k] = h}
            IN  IF adders # {} THEN byHash[h] \in adders
                ELSE byHash[h] = IF h \in gone THEN None ELSE old[h]}

Commit ==
    /\ Polling("fetch") /\ poll.fetching = {} /\ poll.adding = None
    /\ LET u == poll.user
           removed == Known(u) \ poll.listed
           new == poll.listed \ Known(u)
           gone == {keyById[k] : k \in removed}
       IN  /\ keyById' = [k \in Keys |-> IF k \in removed THEN Absent
                                         ELSE IF k \in new THEN poll.fetched[k]
                                         ELSE keyById[k]]
           /\ \E byHash \in HashMaps(keyByHash[u], gone, new) :
                 keyByHash' = [keyByHash EXCEPT ![u] = byHash]
           /\ poll' = [poll EXCEPT !.pc = "remove", !.removed = removed,
                                   !.fetched = [k \in Keys |-> None]]
           /\ uncertified' = uncertified \cup {k \in new : poll.fetched[k] = None}
    /\ UNCHANGED <<backendVars, store, booted, auth, synced, roster, weak, active>>

(* The result of CertificateManager.Remove is dropped, and what it cannot  *)
(* remove ends the program: a nil certFile, an index out of range.         *)
Remove(k) ==
    /\ Polling("remove") /\ k \in poll.removed
    /\ IF Removable(store, k)
         THEN /\ poll' = [poll EXCEPT !.removed = @ \ {k}]
              /\ store' = Removed(store, k)
         ELSE /\ poll' = [poll EXCEPT !.pc = "dead"]
              /\ UNCHANGED store
    /\ UNCHANGED <<backendVars, keyById, keyByHash, booted, auth, synced, roster, weak, active, uncertified>>

NextUser ==
    /\ Polling("remove") /\ poll.removed = {}
    /\ poll' = [poll EXCEPT !.pc = "list", !.user = None, !.listed = {}]
    /\ UNCHANGED <<backendVars, cacheVars, booted, auth, synced, roster, weak, active, uncertified>>

EndUpdate ==
    /\ Polling("list") /\ poll.todo = {}
    /\ poll' = NoPoll
    /\ booted' = TRUE
    /\ synced' = IF synced = "pending" THEN "yes" ELSE "no"
    /\ UNCHANGED <<backendVars, cacheVars, auth, roster, weak, active, uncertified>>

-----------------------------------------------------------------------------
(***************************************************************************)
(* authenticateUser, cut at its calls to the backend.  A client comes this *)
(* far with the hash of a CA certificate that tls-verify found, of this    *)
(* run of the server or, on a root that is used again, of an earlier one.  *)
(***************************************************************************)
LookUp(u, h) ==
    /\ Alive /\ booted /\ auth.pc = "idle"
    /\ auth' = [pc |-> IF keyByHash[u][h] = None THEN "denied" ELSE "check",
                user |-> u, hash |-> h, key |-> keyByHash[u][h]]
    /\ active' = Trusted(key, u)
    /\ UNCHANGED <<backendVars, cacheVars, poll, booted, synced, roster, weak, uncertified>>

(* Seeded bug: the cache is taken for the backend.                         *)
CheckKeyCached ==
    /\ Alive /\ auth.pc = "check"
    /\ auth' = [auth EXCEPT !.pc = "groups"]
    /\ UNCHANGED <<backendVars, cacheVars, poll, booted, synced, roster, weak, active, uncertified>>

(* A FetchKeys that fails returns no keys.                                 *)
CheckKey ==
    /\ Alive /\ auth.pc = "check"
    /\ \/ auth' = [auth EXCEPT !.pc = "denied"]
       \/ /\ auth.key \in FetchKeys(auth.user)
          /\ auth' = [auth EXCEPT !.pc = "groups"]
    /\ UNCHANGED <<backendVars, cacheVars, poll, booted, synced, roster, weak, active, uncertified>>

(* The groups decide, through GetUserConfig, whether the user has access.  *)
Decide ==
    /\ Alive /\ auth.pc = "groups"
    /\ \E verdict \in {"granted", "denied"} : auth' = [auth EXCEPT !.pc = verdict]
    /\ UNCHANGED <<backendVars, cacheVars, poll, booted, synced, roster, weak, active, uncertified>>

Return ==
    /\ Alive /\ auth.pc \in {"granted", "denied"}
    /\ auth' = NoAuth
    /\ active' = {}
    /\ UNCHANGED <<backendVars, cacheVars, poll, booted, synced, roster, weak, uncertified>>

-----------------------------------------------------------------------------
Admin == \E k \in Keys : Upload(k) \/ Deactivate(k) \/ Activate(k) \/ Delete(k)

(* The process ends - killed, or of an error of its own - and is started   *)
(* again.                                                                  *)
Restart ==
    /\ weak' = {}
    /\ keyById' = NoKeyById
    /\ keyByHash' = NoKeyByHash
    /\ store' = InitialStore
    /\ poll' = NoPoll
    /\ booted' = FALSE
    /\ auth' = NoAuth
    /\ synced' = "no"
    /\ roster' = {}
    /\ active' = {}
    /\ uncertified' = {}
    /\ UNCHANGED backendVars

Update ==
    \/ StartUpdate \/ CallFails \/ AddKey \/ AddFails \/ Commit \/ NextUser \/ EndUpdate
    \/ \E u \in Users : ListKeys(u)
    \/ \E k \in Keys : FetchKey(k) \/ Remove(k)

AuthenticateUser ==
    \/ \E u \in Users, h \in Hashes : LookUp(u, h)
    \/ CheckKey \/ Decide \/ Return

Next == Admin \/ Update \/ AuthenticateUser \/ Restart

Spec == Init /\ [][Next]_vars

-----------------------------------------------------------------------------
(***************************************************************************)
(* Properties.                                                             *)
(***************************************************************************)

(* Every variable keeps its shape.                                         *)
TypeOK ==
    /\ key \in [Keys -> {"none", "active", "inactive", "deleted"}]
    /\ changes \in Nat
    /\ weak \in WeakSets \cup {{}}
    /\ keyById \in [Keys -> Hashes \cup {None, Absent}]
    /\ keyByHash \in [Users -> [Hashes \cup {None} -> Keys \cup {None}]]
    /\ store \in Store
    /\ poll \in [pc : {"idle", "list", "fetch", "remove", "dead", "failed"},
                 todo : SUBSET Users, user : Users \cup {None}, listed : SUBSET Keys,
                 fetching : SUBSET Keys, adding : Keys \cup {None},
                 fetched : [Keys -> Hashes \cup {None}],
                 removed : SUBSET Keys]
    /\ booted \in BOOLEAN
    /\ auth \in [pc : {"idle", "check", "groups", "granted", "denied"},
                 user : Users \cup {None}, hash : Hashes \cup {None}, key : Keys \cup {None}]
    /\ synced \in {"no", "pending", "yes"}
    /\ roster \subseteq Users
    /\ active \subseteq Hashes
    /\ uncertified \subseteq Keys

(* The two maps of a user agree (config.go:198-227): the key a hash leads  *)
(* to is a key of that user, is in keyById, and has that hash.             *)
MapsInverse ==
    \A u \in Users, h \in Hashes :
        LET k == keyByHash[u][h]
        IN  k # None => KeyOwner[k] = u /\ keyById[k] = h /\ HashOf[k] = h

(* Access is granted only for a public key that was on the user's list at  *)
(* some moment while the request was handled, however stale the cache:     *)
(* "The server checks the key against the list of keys authorized for the  *)
(* specified user" (docs/index.md:30).                                     *)
AuthSound == auth.pc = "granted" => auth.hash \in active

(* A key cached with the empty hash, as one that was too weak when it was  *)
(* fetched: while it stays on the list no update fetches it again.         *)
PassedOver(k) == keyById[k] = None /\ k \in UNION WeakSets

(* After an update that saw everything, each trusted key of the users it   *)
(* covered leads to a trusted key: its holder is let in (config.go:198-227,*)
(* docs/index.md:30) - but for a key that was too weak for the file in     *)
(* force when it was fetched: it stays out when key-strength is lowered    *)
(* (config.go:153-165), until the server starts again.                     *)
TrustedKeyReachable ==
    (synced = "yes" /\ Alive) =>
        \A k \in Keys \ weak :
            (key[k] = "active" /\ KeyOwner[k] \in roster)
            => \/ keyByHash[KeyOwner[k]][HashOf[k]] \in FetchKeys(KeyOwner[k])
               \/ PassedOver(k)

Filed(k) == Removable(store, k) /\ Files(store, k)[store.byName[k] + 1] = k

(* The certificates can be told apart and removed (ca.go:213-263): as long *)
(* as no key was cached without one, a cached key and a key about to be    *)
(* removed have a file of their own where the index says, whatever was     *)
(* added, removed and added again before, and however many half-done       *)
(* updates left files behind; and so no removal ends the program.          *)
CertificatesFiled ==
    uncertified = {} =>
        /\ poll.pc # "dead"
        /\ \A k \in Keys : keyById[k] \in Hashes \/ k \in poll.removed => Filed(k)

(* Removing a key never ends the program (config.go:229-231, ca.go:243):   *)
(* every key that can be on the list can be taken off it again.            *)
NoPanic == poll.pc # "dead"
=============================================================================
