---------------------------- MODULE TLSVerifyProofs ----------------------------
(***************************************************************************)
(* Proofs about TLSVerify, for any keys and any directory.  A server whose *)
(* clients come through tls-verify, and whose certificates are written in  *)
(* several steps, does nothing UserManager does not do: what is proved of  *)
(* authenticateUser for whatever hash a client brings therefore holds of   *)
(* the clients that the directory - stale, half written or overwritten -   *)
(* lets through.  And the directory has what the index promises, file by   *)
(* file, while a reader goes through it.                                   *)
(***************************************************************************)
EXTENDS TLSVerify, UserManagerProofs

(* The subject being verified is that of a client certificate.             *)
SubjectKnown == check.pc # "idle" => check.subject \in Subjects

LEMMA SubjectStep ==
    ASSUME SubjectKnown, [TLSNext]_allVars
    PROVE  SubjectKnown'
<1> USE DEF SubjectKnown
<1>1. CASE Elsewhere
  BY <1>1 DEF Elsewhere, tlsVars
<1>2. CASE OpenFile \/ CloseFile \/ WriteFails \/ CommitKeys \/ (\E k \in Keys : RemoveFile(k))
  BY <1>2 DEF OpenFile, CloseFile, WriteFails, CommitKeys, RemoveFile
<1>3. CASE RestartOnRoot
  BY <1>3 DEF RestartOnRoot, NoCheck
<1>4. ASSUME NEW s \in Subjects, Start(s) PROVE SubjectKnown'
  BY <1>4 DEF Start
<1>5. CASE ReadFile
  <2>1. check.pc # "idle" /\ check.subject \in Subjects
    BY <1>5 DEF ReadFile
  <2>2. check'.subject = check.subject \/ check' = check
    BY <1>5 DEF ReadFile
  <2> QED BY <2>1, <2>2
<1>6. CASE Connects \/ Leaves
  BY <1>6 DEF Connects, Leaves, NoCheck
<1>7. CASE UNCHANGED allVars
  BY <1>7 DEF allVars, tlsVars
<1> QED BY <1>1, <1>2, <1>3, <1>4, <1>5, <1>6, <1>7 DEF TLSNext, Directory, Verify

LEMMA TLSStep ==
    ASSUME SubjectKnown, [TLSNext]_allVars
    PROVE  [Next]_vars
<1>1. CASE Elsewhere
  BY <1>1 DEF Elsewhere, Next, Update, AuthenticateUser
<1>2. CASE CloseFile \/ WriteFails \/ CommitKeys
  BY <1>2 DEF CloseFile, WriteFails, CommitKeys, Next, Update
<1>3. ASSUME NEW k \in Keys, RemoveFile(k) PROVE Next
  BY <1>3 DEF RemoveFile, Next, Update
<1>4. CASE RestartOnRoot
  BY <1>4 DEF RestartOnRoot, Next
<1>5. ASSUME NEW s \in Subjects, Start(s) PROVE UNCHANGED vars
  BY <1>5 DEF Start
<1>6. CASE OpenFile \/ ReadFile \/ Leaves
  BY <1>6 DEF OpenFile, ReadFile, Leaves
<1>7. CASE Connects
  <2>1. check.subject \in Users \X Hashes
    BY <1>7 DEF Connects, SubjectKnown, Subjects
  <2>2. PICK u \in Users, h \in Hashes : check.subject = <<u, h>>
    BY <2>1
  <2>3. LookUp(u, h)
    BY <1>7, <2>2 DEF Connects
  <2> QED BY <2>3 DEF Next, AuthenticateUser
<1>8. CASE UNCHANGED allVars
  BY <1>8 DEF allVars
<1> QED
  BY <1>1, <1>2, <1>3, <1>4, <1>5, <1>6, <1>7, <1>8 DEF TLSNext, Directory, Verify

(* Behind tls-verify the user manager is the one of UserManager            *)
(* (ca.go:213-263, 428-452; config.go:32-71): what the directory holds     *)
(* decides who asks, not what is answered.                                 *)
THEOREM VerifyImplementsUsers == TLSSpec => Spec
<1>1. TLSInit => Init /\ SubjectKnown
  BY DEF TLSInit, SubjectKnown, NoCheck
<1> QED BY <1>1, SubjectStep, TLSStep, PTL DEF TLSSpec, Spec

(* Whatever the directory lets through, only a user whose key was trusted  *)
(* at some time while the server was asking is granted access.             *)
THEOREM VerifiedSound == TLSSpec => []AuthSound
BY VerifyImplementsUsers, AuthenticationSound, PTL

(* The two maps of the cache agree, and certificates can be told apart and *)
(* removed, however the writing of files is cut short (ca.go:213-263).     *)
THEOREM VerifiedFiled == TLSSpec => [](MapsInverse /\ CertificatesFiled)
BY VerifyImplementsUsers, MapsAgree, CertificatesKeptApart, PTL

-----------------------------------------------------------------------------
(***************************************************************************)
(* The directory and its reader.                                           *)
(***************************************************************************)
IndexInv == CacheInv /\ FiledInv /\ AddingLast

LEMMA IndexAlways == TLSSpec => []IndexInv
BY VerifyImplementsUsers, IndexRight, PTL DEF IndexInv

(* The number under which the certificate of a key being added is written. *)
Adding(b, i) == poll.adding # None /\ b = Bucket(poll.adding) /\ i = File(poll.adding)

(* The file that the index knows by the number i can be read, and is of    *)
(* the subject the index has it for.                                       *)
Written(b, i) ==
    /\ capath[b][i] # Unreadable
    /\ store.byHash[b][i + 1] \in Keys => capath[b][i] = Subject(store.byHash[b][i + 1])

DirectoryKept ==
    \A b \in Buckets : InOrder(b) =>
        \A i \in Nat : i < Len(store.byHash[b]) => Adding(b, i) \/ Written(b, i)

(* No bucket was ever filled to its bound.                                 *)
Room == \A b \in Buckets : capath[b][MaxFiles] = Unreadable

(* While a handshake's subject stays cached, the reader has not passed a   *)
(* certificate of it by.                                                   *)
NotPassed ==
    \A i \in Nat : i < check.index => capath[BucketOf[check.subject]][i] # check.subject

StillAhead ==
    /\ sure => check.pc # "idle" /\ Cached(check.subject)
    /\ (check.pc = "reading" /\ sure /\ InOrder(BucketOf[check.subject])) => NotPassed

DirectoryInv == Room /\ DirectoryKept /\ StillAhead /\ RejectedExplained

VerifyInv == TLSTypeOK /\ SubjectKnown /\ DirectoryInv

(* The file of a cached key is in place, and before the one being written. *)
LEMMA CachedInPlace ==
    ASSUME IndexInv, DirectoryKept, NEW k \in Keys, keyById[k] \in Hashes, InOrder(Bucket(k))
    PROVE  /\ Bucket(k) \in Buckets
           /\ File(k) \in Nat /\ File(k) < MaxFiles
           /\ capath[Bucket(k)][File(k)] = Subject(k)
           /\ \A i \in 0..File(k) : capath[Bucket(k)][i] # Unreadable
           /\ (poll.adding # None /\ Bucket(poll.adding) = Bucket(k)) => File(k) < File(poll.adding)
<1> USE DEF IndexInv
<1>1. FiledIn(store, k)
  BY DEF FiledInv, FilesNeeded, InUse, InOrder
<1>2. store \in Store /\ poll \in PollType
  BY DEF CacheInv, TypeOK, PollType
<1>3. /\ Bucket(k) \in Buckets /\ File(k) \in Nat
      /\ Len(Files(store, k)) \in Nat /\ File(k) + 1 \in 1..Len(Files(store, k))
      /\ Files(store, k)[File(k) + 1] = k
      /\ Files(store, k) = store.byHash[Bucket(k)]
  BY <1>1, <1>2, FilesTyped DEF FiledIn, File, Files
<1>4. ASSUME poll.adding # None, Bucket(poll.adding) = Bucket(k)
      PROVE  File(poll.adding) \in Nat /\ File(k) < File(poll.adding)
  <2>1. poll.adding \in Keys
    BY <1>2, <1>4 DEF PollType
  <2>2. /\ FiledIn(store, poll.adding) /\ keyById[poll.adding] = Absent
        /\ File(poll.adding) + 1 = Len(Files(store, poll.adding))
    BY <1>4 DEF AddingLast, File
  <2>3. /\ File(poll.adding) \in Nat
        /\ Files(store, poll.adding)[File(poll.adding) + 1] = poll.adding
    BY <1>2, <2>1, <2>2, FilesTyped DEF FiledIn, File
  <2>4. Files(store, poll.adding) = Files(store, k) /\ poll.adding # k
    BY <1>4, <2>2, ConstantsAssumption DEF Files
  <2>5. File(poll.adding) # File(k)
    BY <1>3, <2>3, <2>4
  <2> QED BY <1>3, <2>2, <2>3, <2>4, <2>5
<1>5. ASSUME NEW i \in 0..File(k) PROVE Written(Bucket(k), i)
  <2>1. ~Adding(Bucket(k), i)
    BY <1>3, <1>4 DEF Adding
  <2>2. i \in Nat /\ i < Len(store.byHash[Bucket(k)])
    BY <1>3
  <2> QED BY <1>3, <2>1, <2>2 DEF DirectoryKept
<1>6. capath[Bucket(k)][File(k)] = Subject(k)
  BY <1>3, <1>5 DEF Written
<1>7. File(k) < MaxFiles
  <2>1. Len(store.byHash[Bucket(k)]) <= MaxFiles
    BY <1>3 DEF AddingLast
  <2> QED BY <1>3, <2>1, ConstantsAssumption
<1> QED BY <1>3, <1>4, <1>5, <1>6, <1>7 DEF Written

(* What the rest of the server does waits for the certificate being        *)
(* written, and can begin another.                                         *)
LEMMA ElsewhereWaits ==
    ASSUME IndexInv, Elsewhere
    PROVE  /\ UNCHANGED <<keyById, uncertified, tlsVars>>
           /\ \/ UNCHANGED <<store, poll>>
              \/ poll.adding = None /\ store' = store
              \/ \E k \in Keys : poll.adding = None /\ store' = Added(store, k) /\ poll'.adding = k
<1> USE DEF IndexInv
<1>0. poll \in PollType
  BY DEF CacheInv, TypeOK, PollType
<1>1. UNCHANGED tlsVars
  BY DEF Elsewhere
<1>2. CASE Admin \/ CheckKey \/ Decide \/ Return
  BY <1>1, <1>2 DEF Admin, Upload, Deactivate, Activate, Delete, Change, CheckKey, Decide, Return, cacheVars
<1>3. CASE StartUpdate \/ NextUser \/ EndUpdate \/ CallFails \/ \E u \in Users : ListKeys(u)
  <2>1. poll.adding = None
    BY <1>3 DEF StartUpdate, NextUser, EndUpdate, CallFails, ListKeys, Polling, AddingLast
  <2>2. UNCHANGED <<store, keyById, uncertified>>
    BY <1>3 DEF StartUpdate, NextUser, EndUpdate, CallFails, GivenUp, ListKeys, cacheVars
  <2> QED BY <1>1, <2>1, <2>2
<1>4. ASSUME NEW k \in Keys, FetchKey(k)
      PROVE  /\ UNCHANGED <<keyById, uncertified>>
             /\ poll.adding = None
             /\ \/ store' = store
                \/ store' = Added(store, k) /\ poll'.adding = k
  <2> DEFINE rest == poll.fetching \ {k}
  <2>1. /\ poll.adding = None
        /\ \/ store' = Added(store, k) /\ poll' = [poll EXCEPT !.fetching = rest, !.adding = k]
           \/ store' = store
        /\ UNCHANGED <<keyById, uncertified>>
    BY <1>4 DEF FetchKey
  <2> HIDE DEF rest
  <2>2. poll' = [poll EXCEPT !.fetching = rest, !.adding = k] => poll'.adding = k
    BY <1>0 DEF PollType
  <2> QED BY <2>1, <2>2
<1> QED BY <1>1, <1>2, <1>3, <1>4 DEF Elsewhere

(* A step that touches neither index nor directory, nor the certificate    *)
(* that is being written.                                                  *)
LEMMA KeptStill ==
    ASSUME DirectoryKept, UNCHANGED <<store, capath>>,
           \A b \in Buckets : InOrder(b)' => InOrder(b),
           \A b \in Buckets : \A i \in Nat :
               InOrder(b)' /\ Adding(b, i) => Adding(b, i)' \/ Written(b, i)
    PROVE  DirectoryKept'
BY DEF DirectoryKept, Written

LEMMA KeptAdded ==
    ASSUME IndexInv, DirectoryKept, UNCHANGED <<capath, gaps, renumbered, uncertified>>,
           NEW k \in Keys, poll.adding = None, store' = Added(store, k), poll'.adding = k
    PROVE  DirectoryKept'
<1> DEFINE n == Len(Files(store, k))
<1>1. FilesAdded(store, store', k, n)
  BY AddedFiles DEF IndexInv, CacheInv, TypeOK
<1>2. Files(store, k) = store.byHash[Bucket(k)] /\ Files(store', k) = store'.byHash[Bucket(k)]
  BY DEF Files
<1> HIDE DEF n
<1>3. /\ n \in Nat /\ Len(store'.byHash[Bucket(k)]) = n + 1
      /\ \A b \in Buckets : b # Bucket(k) => store'.byHash[b] = store.byHash[b]
      /\ \A i \in 1..n : \/ store'.byHash[Bucket(k)][i] = store.byHash[Bucket(k)][i]
                         \/ store'.byHash[Bucket(k)][i] = None
      /\ store'.byName[k] = n
  BY <1>1, <1>2 DEF FilesAdded
<1> SUFFICES ASSUME NEW b \in Buckets, InOrder(b)', NEW i \in Nat, i < Len(store'.byHash[b]),
                    ~Adding(b, i)'
             PROVE  Written(b, i)'
  BY DEF DirectoryKept
<1>4. InOrder(b) /\ ~Adding(b, i)
  BY DEF InOrder, Adding
<1>5. CASE b # Bucket(k)
  BY <1>3, <1>4, <1>5 DEF DirectoryKept, Written
<1>6. CASE b = Bucket(k)
  <2>1. i # n
    BY <1>3, <1>6, CertificatesAssumption DEF Adding, File
  <2>2. i < n /\ i + 1 \in 1..n
    BY <1>3, <1>6, <2>1
  <2>3. Written(b, i)
    BY <1>2, <1>4, <1>6, <2>2 DEF DirectoryKept, n
  <2> QED BY <1>3, <1>6, <2>2, <2>3, CertificatesAssumption DEF Written
<1> QED BY <1>5, <1>6

LEMMA KeptRemoved ==
    ASSUME IndexInv, DirectoryKept, NEW k \in Keys, RemoveFile(k)
    PROVE  DirectoryKept'
<1> USE DEF IndexInv
<1>1. /\ k \in poll.removed /\ poll.adding = None /\ store \in Store
      /\ UNCHANGED <<capath, gaps, uncertified>>
      /\ renumbered' = IF Removable(store, k) /\ MovedBy(k) # None /\ Subject(MovedBy(k)) # Subject(k)
                         THEN renumbered \cup {Bucket(k)} ELSE renumbered
  BY DEF RemoveFile, Remove, Polling, FiledInv, UpdateInPhase, CacheInv, TypeOK
<1>2. \A b \in Buckets : InOrder(b)' => InOrder(b)
  BY <1>1 DEF InOrder
<1>3. CASE store' = store
  BY <1>1, <1>2, <1>3, KeptStill DEF Adding
<1>4. CASE Removable(store, k) /\ store' = Removed(store, k)
  <2> DEFINE n == Len(Files(store, k))
             index == store.byName[k]
             moved == Files(store, k)[n]
  <2>1. FilesRemoved(store, store', k, n, index, moved)
    BY <1>1, <1>4, RemovedFiles
  <2>2. moved = MovedBy(k)
    BY DEF MovedBy
  <2>3. Files(store, k) = store.byHash[Bucket(k)] /\ Files(store', k) = store'.byHash[Bucket(k)]
    BY DEF Files
  <2> HIDE DEF n, index, moved
  <2>4. /\ n \in Nat /\ index \in Nat /\ index < n
        /\ Len(store'.byHash[Bucket(k)]) = n - 1
        /\ \A b \in Buckets : b # Bucket(k) => store'.byHash[b] = store.byHash[b]
        /\ \A i \in 1..(n - 1) :
              store'.byHash[Bucket(k)][i] = IF i = index + 1 THEN moved
                                            ELSE store.byHash[Bucket(k)][i]
    BY <2>1, <2>3 DEF FilesRemoved
  <2> SUFFICES ASSUME NEW b \in Buckets, InOrder(b)', NEW i \in Nat, i < Len(store'.byHash[b])
               PROVE  Written(b, i)'
    BY DEF DirectoryKept
  <2>5. \A j \in Nat : j < Len(store.byHash[b]) => Written(b, j)
    BY <1>1, <1>2 DEF DirectoryKept, Adding
  <2>6. CASE b # Bucket(k)
    BY <1>1, <2>4, <2>5, <2>6 DEF Written
  <2>7. CASE b = Bucket(k)
    <3>1. i < n /\ i + 1 \in 1..(n - 1)
      BY <2>4, <2>7
    <3>2. Written(b, i)
      BY <2>3, <2>5, <2>7, <3>1 DEF n
    <3>3. CASE i # index
      <4>1. store'.byHash[b][i + 1] = store.byHash[b][i + 1]
        BY <2>4, <2>7, <3>1, <3>3
      <4> QED BY <1>1, <3>2, <4>1 DEF Written
    <3>4. CASE i = index
      <4>1. store'.byHash[b][i + 1] = moved
        BY <2>4, <2>7, <3>1, <3>4
      <4>2. store.byHash[b][i + 1] = k
        <5>1. FiledIn(store, k)
          BY <1>1, <1>2 DEF FiledInv, FilesNeeded, InUse, InOrder
        <5> QED BY <2>3, <2>7, <3>4, <5>1 DEF FiledIn, index
      <4>3. capath[b][i] = Subject(k) /\ capath[b][i] # Unreadable
        BY <3>2, <4>2 DEF Written
      <4>4. moved \in Keys => Subject(moved) = Subject(k)
        BY <1>1, <1>4, <2>2, <2>7, CertificatesAssumption DEF InOrder
      <4> QED BY <1>1, <4>1, <4>3, <4>4 DEF Written
    <3> QED BY <3>3, <3>4
  <2> QED BY <2>6, <2>7
<1> QED BY <1>3, <1>4 DEF RemoveFile, Remove

(* What opening and closing the file of a key being added do to the        *)
(* directory.                                                              *)
Rewritten(content) ==
    /\ poll.adding \in Keys
    /\ Bucket(poll.adding) \in Buckets
    /\ File(poll.adding) \in Nat /\ File(poll.adding) < MaxFiles
    /\ content \in Subjects \cup {CASubject, Unreadable}
    /\ capath' = WithFile(poll.adding, content)

LEMMA AddingKey ==
    ASSUME IndexInv, poll.adding # None
    PROVE  /\ poll.adding \in Keys
           /\ Bucket(poll.adding) \in Buckets
           /\ File(poll.adding) \in Nat /\ File(poll.adding) < MaxFiles
           /\ Subject(poll.adding) \in Subjects
<1> USE DEF IndexInv
<1>1. poll.adding \in Keys /\ store \in Store
  <2>1. poll \in PollType /\ store \in Store
    BY DEF CacheInv, TypeOK, PollType
  <2> QED BY <2>1 DEF PollType
<1> DEFINE k == poll.adding
<1>2. /\ FiledIn(store, k) /\ File(k) + 1 = Len(Files(store, k))
      /\ \A b \in Buckets : Len(store.byHash[b]) <= MaxFiles
  BY DEF AddingLast, File
<1>3. k \in Keys
  BY <1>1
<1> HIDE DEF k
<1>4. Bucket(k) \in Buckets /\ File(k) \in Nat
  BY <1>1, <1>2, <1>3, FilesTyped DEF File
<1>5. File(k) + 1 <= MaxFiles
  BY <1>2, <1>4 DEF Files
<1>6. File(k) < MaxFiles
  BY <1>4, <1>5, ConstantsAssumption
<1>7. Subject(k) \in Subjects
  BY <1>3, CertificatesAssumption DEF Subject, Subjects
<1> QED BY <1>3, <1>4, <1>6, <1>7 DEF k

LEMMA OpenRewrites ==
    ASSUME IndexInv, TLSTypeOK, OpenFile
    PROVE  \E content : Rewritten(content) /\ UNCHANGED <<vars, check, historyVars>>
<1>1. PICK content \in {Unreadable, capath[Bucket(poll.adding)][File(poll.adding)],
                        Subject(poll.adding)} : capath' = WithFile(poll.adding, content)
  BY DEF OpenFile
<1>2. /\ poll.adding \in Keys
      /\ Bucket(poll.adding) \in Buckets
      /\ File(poll.adding) \in Nat /\ File(poll.adding) < MaxFiles
      /\ Subject(poll.adding) \in Subjects
  BY AddingKey DEF OpenFile
<1>3. content \in Subjects \cup {CASubject, Unreadable}
  <2>1. File(poll.adding) \in 0..MaxFiles
    BY <1>2, ConstantsAssumption
  <2>2. \A b \in Buckets : \A i \in 0..MaxFiles : capath[b][i] \in Subjects \cup {CASubject, Unreadable}
    BY DEF TLSTypeOK
  <2>3. capath[Bucket(poll.adding)][File(poll.adding)] \in Subjects \cup {CASubject, Unreadable}
    BY <1>2, <2>1, <2>2
  <2> QED BY <1>1, <1>2, <2>3
<1> QED BY <1>1, <1>2, <1>3 DEF Rewritten, OpenFile

LEMMA CloseRewrites ==
    ASSUME IndexInv, CloseFile
    PROVE  /\ Rewritten(Subject(poll.adding))
           /\ UNCHANGED <<store, keyById, uncertified, check, historyVars>>
           /\ poll'.adding = None
<1>1. poll.adding # None /\ capath' = WithFile(poll.adding, Subject(poll.adding))
  BY DEF CloseFile, AddKey
<1>2. poll'.adding = None
  <2> DEFINE hashes == [poll.fetched EXCEPT ![poll.adding] = HashOf[poll.adding]]
  <2>1. poll \in PollType /\ poll' = [poll EXCEPT !.adding = None, !.fetched = hashes]
    BY DEF CloseFile, AddKey, IndexInv, CacheInv, TypeOK, PollType
  <2> HIDE DEF hashes
  <2> QED BY <2>1 DEF PollType
<1>3. UNCHANGED <<store, keyById, uncertified, check, historyVars>>
  BY DEF CloseFile, AddKey, cacheVars
<1> QED BY <1>1, <1>2, <1>3, AddingKey DEF Rewritten

LEMMA RewrittenFiles ==
    ASSUME TLSTypeOK, NEW content, Rewritten(content)
    PROVE  /\ capath' \in [Buckets -> [0..MaxFiles -> Subjects \cup {CASubject, Unreadable}]]
           /\ capath'[Bucket(poll.adding)][File(poll.adding)] = content
           /\ \A b \in Buckets : \A i \in 0..MaxFiles :
                 capath'[b][i] = capath[b][i] \/ (b = Bucket(poll.adding) /\ i = File(poll.adding))
<1> DEFINE b == Bucket(poll.adding)
           n == File(poll.adding)
           Contents == Subjects \cup {CASubject, Unreadable}
<1>1. /\ capath' = [capath EXCEPT ![b] = [capath[b] EXCEPT ![n] = content]]
      /\ b \in Buckets /\ n \in Nat /\ n < MaxFiles /\ content \in Contents
      /\ capath \in [Buckets -> [0..MaxFiles -> Contents]]
  BY DEF Rewritten, WithFile, TLSTypeOK
<1> HIDE DEF b, n, Contents
<1>2. n \in 0..MaxFiles
  BY <1>1, ConstantsAssumption
<1>3. capath[b] \in [0..MaxFiles -> Contents]
  BY <1>1
<1>4. [capath[b] EXCEPT ![n] = content] \in [0..MaxFiles -> Contents]
  BY <1>1, <1>3
<1>5. capath' \in [Buckets -> [0..MaxFiles -> Contents]]
  BY <1>1, <1>4
<1>6. capath'[b][n] = content
  BY <1>1, <1>2, <1>3
<1>7. \A c \in Buckets : \A i \in 0..MaxFiles : capath'[c][i] = capath[c][i] \/ (c = b /\ i = n)
  BY <1>1, <1>3
<1> QED BY <1>5, <1>6, <1>7 DEF b, n, Contents

(* The file being written is behind everything the reader needs.           *)
LEMMA RewrittenBehind ==
    ASSUME IndexInv, VerifyInv, NEW content, Rewritten(content),
           UNCHANGED <<keyById, check, historyVars, uncertified>>
    PROVE  Room' /\ StillAhead'
<1> USE DEF VerifyInv, DirectoryInv
<1>1. Room'
  <2> SUFFICES ASSUME NEW b \in Buckets PROVE capath'[b][MaxFiles] = Unreadable
    BY DEF Room
  <2>1. MaxFiles \in 0..MaxFiles /\ MaxFiles # File(poll.adding)
    BY ConstantsAssumption DEF Rewritten
  <2> QED BY <2>1, RewrittenFiles DEF Room
<1>2. Cached(check.subject)' <=> Cached(check.subject)
  BY DEF Cached
<1>3. ASSUME check.pc = "reading", sure, InOrder(BucketOf[check.subject])
      PROVE  NotPassed'
  <2>1. PICK k \in Keys : Subject(k) = check.subject /\ keyById[k] \in Hashes
    BY <1>3 DEF StillAhead, Cached
  <2> DEFINE b == Bucket(k)
  <2>2. b = BucketOf[check.subject]
    BY <2>1 DEF Bucket
  <2>3. /\ b \in Buckets /\ File(k) \in Nat /\ File(k) < MaxFiles
        /\ capath[b][File(k)] = check.subject
        /\ (poll.adding # None /\ Bucket(poll.adding) = b) => File(k) < File(poll.adding)
    BY <1>3, <2>1, <2>2, CachedInPlace
  <2> HIDE DEF b
  <2>4. check.index \in Nat /\ check.index <= MaxFiles
    BY ConstantsAssumption DEF TLSTypeOK
  <2>5. NotPassed
    BY <1>3 DEF StillAhead
  <2>6. check.index <= File(k)
    BY <2>2, <2>3, <2>4, <2>5 DEF NotPassed
  <2>7. ASSUME NEW i \in Nat, i < check.index PROVE capath'[b][i] = capath[b][i]
    <3>1. i \in 0..MaxFiles
      BY <2>4, <2>7, ConstantsAssumption
    <3>2. Bucket(poll.adding) = b => i # File(poll.adding)
      BY <2>3, <2>4, <2>6, <2>7, CertificatesAssumption DEF Rewritten
    <3> QED BY <2>3, <3>1, <3>2, RewrittenFiles
  <2> QED BY <2>2, <2>5, <2>7 DEF NotPassed
<1>4. InOrder(BucketOf[check.subject])' <=> InOrder(BucketOf[check.subject])
  BY DEF InOrder, historyVars
<1>5. UNCHANGED <<sure, check>>
  BY DEF historyVars
<1> QED BY <1>1, <1>2, <1>3, <1>4, <1>5 DEF StillAhead

LEMMA RewrittenKept ==
    ASSUME IndexInv, VerifyInv, NEW content, Rewritten(content),
           UNCHANGED <<store, uncertified, historyVars>>,
           poll'.adding = poll.adding \/ content = Subject(poll.adding)
    PROVE  DirectoryKept'
<1> USE DEF VerifyInv, DirectoryInv, IndexInv
<1> SUFFICES ASSUME NEW b \in Buckets, InOrder(b), NEW i \in Nat, i < Len(store.byHash[b]),
                    ~Adding(b, i)'
             PROVE  Written(b, i)'
  BY DEF DirectoryKept, InOrder, historyVars
<1>1. i \in 0..MaxFiles
  <2>1. Len(store.byHash[b]) \in Nat
    BY DEF CacheInv, TypeOK, Store
  <2>2. Len(store.byHash[b]) <= MaxFiles
    BY DEF AddingLast
  <2> QED BY <2>1, <2>2, ConstantsAssumption
<1>2. CASE b = Bucket(poll.adding) /\ i = File(poll.adding)
  <2>1. content = Subject(poll.adding)
    BY <1>2, CertificatesAssumption DEF Adding, File, Rewritten
  <2>2. FiledIn(store, poll.adding)
    BY CertificatesAssumption DEF AddingLast, Rewritten
  <2>3. store.byHash[b][i + 1] = poll.adding
    BY <1>2, <2>2 DEF FiledIn, File, Files
  <2>4. capath'[b][i] = Subject(poll.adding)
    BY <1>2, <2>1, RewrittenFiles
  <2>5. Subject(poll.adding) # Unreadable
    BY <2>1, UnreadableAssumption, CertificatesAssumption DEF Rewritten, Subject, Subjects
  <2> QED BY <2>3, <2>4, <2>5 DEF Written
<1>3. CASE ~(b = Bucket(poll.adding) /\ i = File(poll.adding))
  <2>1. capath'[b][i] = capath[b][i]
    BY <1>1, <1>3, RewrittenFiles
  <2>2. Written(b, i)
    BY <1>3 DEF DirectoryKept, Adding
  <2> QED BY <2>1, <2>2 DEF Written
<1> QED BY <1>2, <1>3

(* A step that leaves reader, directory and cache alone can only put a     *)
(* bucket out of order.                                                    *)
LEMMA ReaderKept ==
    ASSUME VerifyInv, UNCHANGED <<keyById, capath, check, sure>>,
           \A b \in Buckets : InOrder(b)' => InOrder(b)
    PROVE  Room' /\ StillAhead' /\ RejectedExplained' /\ SubjectKnown'
<1> USE DEF VerifyInv, DirectoryInv
<1>1. check.pc # "idle" => BucketOf[check.subject] \in Buckets
  BY CertificatesAssumption DEF SubjectKnown, Subjects
<1>2. Cached(check.subject)' <=> Cached(check.subject)
  BY DEF Cached
<1>3. RejectedExplained'
  BY <1>1 DEF RejectedExplained
<1>4. StillAhead'
  BY <1>1, <1>2 DEF StillAhead, NotPassed
<1> QED BY <1>3, <1>4 DEF Room, SubjectKnown

LEMMA VerifyElsewhere == ASSUME IndexInv, VerifyInv, Elsewhere PROVE VerifyInv'
<1> USE DEF VerifyInv, DirectoryInv
<1>1. /\ UNCHANGED <<keyById, uncertified, tlsVars>>
      /\ \/ UNCHANGED <<store, poll>>
         \/ poll.adding = None /\ store' = store
         \/ \E k \in Keys : poll.adding = None /\ store' = Added(store, k) /\ poll'.adding = k
  BY ElsewhereWaits
<1>2. UNCHANGED <<capath, open, check, sure, gaps, renumbered>>
  BY <1>1 DEF tlsVars, historyVars
<1>3. \A b \in Buckets : InOrder(b)' <=> InOrder(b)
  BY <1>1, <1>2 DEF InOrder
<1>4. DirectoryKept'
  <2>1. CASE UNCHANGED <<store, poll>>
    BY <1>2, <1>3, <2>1, KeptStill DEF Adding, File
  <2>2. CASE poll.adding = None /\ store' = store
    BY <1>2, <1>3, <2>2, KeptStill DEF Adding
  <2>3. CASE \E k \in Keys : poll.adding = None /\ store' = Added(store, k) /\ poll'.adding = k
    BY <1>1, <1>2, <2>3, KeptAdded
  <2> QED BY <1>1, <2>1, <2>2, <2>3
<1>5. open' => poll'.adding # None
  BY <1>1, <1>2 DEF TLSTypeOK
<1>6. TLSTypeOK'
  BY <1>2, <1>5 DEF TLSTypeOK
<1> QED BY <1>1, <1>2, <1>3, <1>4, <1>6, ReaderKept

LEMMA VerifyWritten ==
    ASSUME IndexInv, VerifyInv, OpenFile \/ CloseFile PROVE VerifyInv'
<1> USE DEF VerifyInv, DirectoryInv
<1>1. PICK content : /\ Rewritten(content)
                     /\ UNCHANGED <<store, keyById, uncertified, check, historyVars>>
                     /\ poll'.adding = poll.adding \/ content = Subject(poll.adding)
  <2>1. CASE OpenFile
    BY <2>1, OpenRewrites DEF vars, cacheVars
  <2>2. CASE CloseFile
    BY <2>2, CloseRewrites
  <2> QED BY <2>1, <2>2
<1>2. UNCHANGED <<check, sure, gaps, renumbered, uncertified>>
  BY <1>1 DEF historyVars
<1>3. open' \in BOOLEAN /\ (open' => poll'.adding # None)
  BY DEF OpenFile, CloseFile, vars
<1>4. capath' \in [Buckets -> [0..MaxFiles -> Subjects \cup {CASubject, Unreadable}]]
  BY <1>1, RewrittenFiles
<1>5. TLSTypeOK'
  BY <1>2, <1>3, <1>4 DEF TLSTypeOK
<1>6. Room' /\ StillAhead'
  BY <1>1, RewrittenBehind
<1>7. DirectoryKept'
  BY <1>1, RewrittenKept
<1> QED BY <1>2, <1>5, <1>6, <1>7 DEF RejectedExplained, InOrder, SubjectKnown

LEMMA VerifyFails == ASSUME IndexInv, VerifyInv, WriteFails PROVE VerifyInv'
<1> USE DEF VerifyInv, DirectoryInv
<1>1. /\ poll.adding # None /\ open' = FALSE
      /\ gaps' = gaps \cup {Bucket(poll.adding)}
      /\ UNCHANGED <<capath, check, sure, renumbered, store, keyById, uncertified>>
  BY DEF WriteFails, AddFails, GivenUp, cacheVars
<1>2. \A b \in Buckets : InOrder(b)' => InOrder(b) /\ b # Bucket(poll.adding)
  BY <1>1 DEF InOrder
<1>3. DirectoryKept'
  BY <1>1, <1>2, KeptStill DEF Adding
<1>4. TLSTypeOK'
  <2>1. Bucket(poll.adding) \in Buckets
    BY <1>1, AddingKey
  <2> QED BY <1>1, <2>1 DEF TLSTypeOK
<1> QED BY <1>1, <1>2, <1>3, <1>4, ReaderKept

LEMMA VerifyCommit == ASSUME IndexInv, VerifyInv, CommitKeys PROVE VerifyInv'
<1> USE DEF VerifyInv, DirectoryInv
<1>1. /\ poll.adding = None /\ uncertified \subseteq uncertified'
      /\ UNCHANGED <<capath, open, check, gaps, renumbered, store>>
      /\ sure' = (sure /\ Cached(check.subject)')
  BY DEF CommitKeys, Commit
<1>2. \A b \in Buckets : InOrder(b)' => InOrder(b)
  BY <1>1 DEF InOrder
<1>3. DirectoryKept'
  BY <1>1, <1>2, KeptStill DEF Adding
<1>4. check.pc # "idle" => BucketOf[check.subject] \in Buckets
  BY CertificatesAssumption DEF SubjectKnown, Subjects
<1>5. StillAhead'
  BY <1>1, <1>2, <1>4 DEF StillAhead, NotPassed
<1>6. RejectedExplained'
  BY <1>1, <1>2, <1>4 DEF RejectedExplained
<1>7. TLSTypeOK'
  BY <1>1 DEF TLSTypeOK
<1> QED BY <1>1, <1>3, <1>5, <1>6, <1>7 DEF Room, SubjectKnown

LEMMA VerifyRemove ==
    ASSUME IndexInv, VerifyInv, NEW k \in Keys, RemoveFile(k) PROVE VerifyInv'
<1> USE DEF VerifyInv, DirectoryInv
<1>1. /\ poll.adding = None
      /\ UNCHANGED <<capath, open, check, sure, gaps, keyById, uncertified>>
      /\ renumbered' = renumbered \/ renumbered' = renumbered \cup {Bucket(k)}
  BY DEF RemoveFile, Remove, Polling, IndexInv, FiledInv, UpdateInPhase
<1>2. \A b \in Buckets : InOrder(b)' => InOrder(b)
  BY <1>1 DEF InOrder
<1>3. DirectoryKept'
  BY KeptRemoved
<1>4. TLSTypeOK'
  <2>1. Bucket(k) \in Buckets
    BY CertificatesAssumption DEF Bucket, Subject
  <2>2. open = FALSE
    BY <1>1 DEF TLSTypeOK
  <2> QED BY <1>1, <2>1, <2>2 DEF TLSTypeOK
<1> QED BY <1>1, <1>2, <1>3, <1>4, ReaderKept

LEMMA VerifyRestart == ASSUME VerifyInv, RestartOnRoot PROVE VerifyInv'
<1> USE DEF VerifyInv, DirectoryInv
<1>1. /\ store' = InitialStore
      /\ capath' = [capath EXCEPT ![CABucket][0] = CASubject]
      /\ open' = FALSE /\ check' = NoCheck /\ sure' = FALSE /\ gaps' = {} /\ renumbered' = {}
  BY DEF RestartOnRoot, Restart
<1> DEFINE Contents == Subjects \cup {CASubject, Unreadable}
<1>2. capath \in [Buckets -> [0..MaxFiles -> Contents]] /\ CASubject \in Contents
  BY DEF TLSTypeOK
<1> HIDE DEF Contents
<1>3. CABucket \in Buckets /\ MaxFiles \in Nat \ {0} /\ 0 \in 0..MaxFiles /\ MaxFiles \in 0..MaxFiles
  BY CertificatesAssumption, ConstantsAssumption
<1>4. capath[CABucket] \in [0..MaxFiles -> Contents]
  BY <1>2, <1>3
<1>5. /\ capath' \in [Buckets -> [0..MaxFiles -> Contents]]
      /\ \A b \in Buckets : b # CABucket => capath'[b] = capath[b]
      /\ capath'[CABucket] = [capath[CABucket] EXCEPT ![0] = CASubject]
  BY <1>1, <1>2, <1>3, <1>4
<1>6. capath'[CABucket][0] = CASubject /\ capath'[CABucket][MaxFiles] = capath[CABucket][MaxFiles]
  BY <1>3, <1>4, <1>5
<1>7. Room'
  BY <1>3, <1>5, <1>6 DEF Room
<1>8. DirectoryKept'
  <2> SUFFICES ASSUME NEW b \in Buckets, NEW i \in Nat, i < Len(store'.byHash[b])
               PROVE  Written(b, i)'
    BY DEF DirectoryKept
  <2>1. store'.byHash[b] = IF b = CABucket THEN <<None>> ELSE <<>>
    BY <1>1 DEF InitialStore
  <2>2. b = CABucket /\ i = 0 /\ store'.byHash[b] = <<None>>
    BY <2>1
  <2>3. store'.byHash[b][i + 1] = None
    BY <2>2
  <2> QED BY <1>6, <2>2, <2>3, CertificatesAssumption, UnreadableAssumption DEF Written
<1>9. TLSTypeOK'
  <2>1. NoCheck \in [pc : {"idle", "reading", "accepted", "rejected"},
                     subject : Subjects \cup {None}, index : 0..MaxFiles]
    BY <1>3 DEF NoCheck
  <2> QED BY <1>1, <1>5, <2>1 DEF TLSTypeOK, Contents
<1> QED BY <1>1, <1>7, <1>8, <1>9 DEF StillAhead, RejectedExplained, SubjectKnown, NoCheck

CheckType == [pc : {"idle", "reading", "accepted", "rejected"},
              subject : Subjects \cup {None}, index : 0..MaxFiles]

(* What a handshake does leaves server and directory alone.                *)
LEMMA ReaderOnly ==
    ASSUME VerifyInv, UNCHANGED <<store, capath, open, gaps, renumbered, uncertified>>,
           poll'.adding = poll.adding, check' \in CheckType, sure' \in BOOLEAN
    PROVE  TLSTypeOK' /\ Room' /\ DirectoryKept'
<1> USE DEF VerifyInv, DirectoryInv
<1>1. TLSTypeOK'
  BY DEF TLSTypeOK, CheckType
<1>2. \A b : InOrder(b)' <=> InOrder(b)
  BY DEF InOrder
<1>3. DirectoryKept'
  BY <1>2, KeptStill DEF Adding, File
<1> QED BY <1>1, <1>3 DEF Room

LEMMA VerifyReads == ASSUME IndexInv, VerifyInv, ReadFile PROVE VerifyInv'
<1> USE DEF VerifyInv, DirectoryInv
<1> DEFINE b == BucketOf[check.subject]
           content == capath[b][check.index]
<1>1. /\ check.pc = "reading" /\ check \in CheckType
      /\ check.subject \in Subjects /\ b \in Buckets
      /\ check.index \in Nat /\ check.index <= MaxFiles
  <2>1. check.pc = "reading" /\ check \in CheckType
    BY DEF ReadFile, TLSTypeOK, CheckType
  <2>2. check.subject \in Subjects
    BY <2>1 DEF SubjectKnown
  <2>3. check.index \in 0..MaxFiles
    BY <2>1 DEF CheckType
  <2> QED BY <2>1, <2>2, <2>3, CertificatesAssumption, ConstantsAssumption DEF Subjects
<1>2. /\ \/ content = Unreadable /\ check' = [check EXCEPT !.pc = "rejected"]
         \/ content # Unreadable /\ content = check.subject
              /\ check' = [check EXCEPT !.pc = "accepted"]
         \/ content # Unreadable /\ content # check.subject
              /\ check' = [check EXCEPT !.index = @ + 1]
      /\ UNCHANGED <<store, poll, keyById, uncertified, capath, open, sure, gaps, renumbered>>
  BY DEF ReadFile, vars, cacheVars, historyVars
<1>3. /\ check'.subject = check.subject
      /\ \/ content = Unreadable /\ check'.pc = "rejected" /\ check' \in CheckType
         \/ check'.pc = "accepted" /\ check' \in CheckType
         \/ /\ content # Unreadable /\ content # check.subject
            /\ check'.pc = "reading" /\ check'.index = check.index + 1 /\ check' \in CheckType
  <2>1. CASE content = Unreadable /\ check' = [check EXCEPT !.pc = "rejected"]
    BY <1>1, <2>1 DEF CheckType
  <2>2. CASE check' = [check EXCEPT !.pc = "accepted"]
    BY <1>1, <2>2 DEF CheckType
  <2>3. CASE content # Unreadable /\ content # check.subject
              /\ check' = [check EXCEPT !.index = @ + 1]
    <3>1. check.index # MaxFiles
      BY <1>1, <2>3 DEF Room
    <3>2. check.index + 1 \in 0..MaxFiles
      BY <1>1, <3>1, ConstantsAssumption
    <3> HIDE DEF content, b
    <3> QED BY <1>1, <2>3, <3>2 DEF CheckType
  <2> QED BY <1>2, <2>1, <2>2, <2>3
<1> HIDE DEF content
<1>4. TLSTypeOK' /\ Room' /\ DirectoryKept'
  <2>1. sure' \in BOOLEAN /\ check' \in CheckType
    BY <1>2, <1>3 DEF TLSTypeOK
  <2> QED BY <1>2, <2>1, ReaderOnly
<1>5. /\ Cached(check.subject)' <=> Cached(check.subject)
      /\ InOrder(b)' <=> InOrder(b)
  BY <1>2, <1>3 DEF Cached, InOrder
<1>6. ASSUME sure, InOrder(b) PROVE NotPassed /\ (check'.pc # "rejected")
  <2>1. NotPassed
    BY <1>1, <1>6 DEF StillAhead
  <2>2. PICK k \in Keys : Subject(k) = check.subject /\ keyById[k] \in Hashes
    BY <1>6 DEF StillAhead, Cached
  <2>3. Bucket(k) = b
    BY <2>2 DEF Bucket
  <2> HIDE DEF b
  <2>4. /\ File(k) \in Nat
        /\ capath[b][File(k)] = check.subject
        /\ \A i \in 0..File(k) : capath[b][i] # Unreadable
    BY <1>6, <2>2, <2>3, CachedInPlace
  <2>5. check.index <= File(k)
    BY <1>1, <2>1, <2>4 DEF NotPassed, b
  <2>6. check.index \in 0..File(k)
    BY <1>1, <2>4, <2>5
  <2>7. content # Unreadable
    BY <2>4, <2>6 DEF content
  <2> QED BY <1>3, <2>1, <2>7
<1>7. RejectedExplained'
  BY <1>2, <1>3, <1>5, <1>6 DEF RejectedExplained
<1>8. ASSUME check'.pc = "reading", sure, InOrder(b) PROVE NotPassed'
  <2>1. content # check.subject /\ check'.index = check.index + 1
    BY <1>3, <1>8
  <2>2. NotPassed
    BY <1>6, <1>8
  <2> SUFFICES ASSUME NEW i \in Nat, i < check'.index PROVE capath[b][i] # check.subject
    BY <1>2, <1>3 DEF NotPassed
  <2>3. i < check.index \/ i = check.index
    BY <1>1, <2>1
  <2> QED BY <2>1, <2>2, <2>3 DEF NotPassed, content
<1>9. StillAhead'
  BY <1>1, <1>2, <1>3, <1>5, <1>8 DEF StillAhead
<1> QED BY <1>1, <1>3, <1>4, <1>7, <1>9 DEF SubjectKnown

LEMMA VerifyReader ==
    ASSUME IndexInv, VerifyInv, (\E s \in Subjects : Start(s)) \/ Connects \/ Leaves
    PROVE  VerifyInv'
<1> USE DEF VerifyInv, DirectoryInv
<1>1. UNCHANGED <<store, poll, keyById, uncertified, capath, open, gaps, renumbered>>
  BY DEF Start, Connects, Leaves, LookUp, vars, cacheVars
<1>2. CASE \E s \in Subjects : Start(s)
  <2> PICK s \in Subjects : Start(s)
    BY <1>2
  <2>1. check' = [pc |-> "reading", subject |-> s, index |-> 0] /\ sure' = Cached(s)
    BY DEF Start
  <2>2. check' \in CheckType /\ sure' \in BOOLEAN
    BY <2>1, ConstantsAssumption DEF CheckType, Cached
  <2>3. Cached(s)' <=> Cached(s)
    BY <1>1 DEF Cached
  <2>4. check'.pc = "reading" /\ check'.subject = s /\ check'.index = 0
    BY <2>1
  <2>5. StillAhead'
    BY <2>1, <2>3, <2>4 DEF StillAhead, NotPassed
  <2> QED BY <1>1, <2>2, <2>4, <2>5, ReaderOnly DEF RejectedExplained, SubjectKnown
<1>3. CASE Connects \/ Leaves
  <2>1. check' = NoCheck /\ sure' = FALSE
    BY <1>3 DEF Connects, Leaves
  <2>2. check' \in CheckType
    BY <2>1, ConstantsAssumption DEF CheckType, NoCheck
  <2> QED BY <1>1, <2>1, <2>2, ReaderOnly DEF StillAhead, RejectedExplained, SubjectKnown, NoCheck
<1> QED BY <1>2, <1>3

LEMMA VerifyStep == ASSUME IndexInv, VerifyInv, [TLSNext]_allVars PROVE VerifyInv'
<1>1. CASE UNCHANGED allVars
  <2>1. UNCHANGED <<store, poll, keyById, uncertified, capath, open, check, sure, gaps, renumbered>>
    BY <1>1 DEF allVars, vars, cacheVars, tlsVars, historyVars
  <2>2. \A b \in Buckets : InOrder(b)' => InOrder(b)
    BY <2>1 DEF InOrder
  <2>3. TLSTypeOK' /\ DirectoryKept'
    BY <2>1, <2>2, KeptStill DEF VerifyInv, DirectoryInv, TLSTypeOK, Adding, File
  <2> QED BY <2>1, <2>2, <2>3, ReaderKept DEF VerifyInv, DirectoryInv
<1> QED
  BY <1>1, VerifyElsewhere, VerifyWritten, VerifyFails, VerifyCommit, VerifyRemove, VerifyRestart,
     VerifyReads, VerifyReader
  DEF TLSNext, Directory, Verify

LEMMA VerifyInitial == TLSInit => VerifyInv
<1> SUFFICES ASSUME TLSInit PROVE VerifyInv
  OBVIOUS
<1>1. /\ store = InitialStore /\ check = NoCheck /\ open = FALSE /\ sure = FALSE
      /\ gaps = {} /\ renumbered = {}
      /\ capath = [b \in Buckets |-> [i \in 0..MaxFiles |->
                     IF b = CABucket /\ i = 0 THEN CASubject ELSE Unreadable]]
  BY DEF TLSInit, Init
<1>2. MaxFiles \in Nat \ {0} /\ 0 \in 0..MaxFiles /\ MaxFiles \in 0..MaxFiles
  BY ConstantsAssumption
<1>3. Room
  BY <1>1, <1>2 DEF Room
<1>4. DirectoryKept
  <2> SUFFICES ASSUME NEW b \in Buckets, NEW i \in Nat, i < Len(store.byHash[b])
               PROVE  Written(b, i)
    BY DEF DirectoryKept
  <2>1. store.byHash[b] = IF b = CABucket THEN <<None>> ELSE <<>>
    BY <1>1 DEF InitialStore
  <2>2. b = CABucket /\ i = 0 /\ store.byHash[b] = <<None>>
    BY <2>1
  <2>3. store.byHash[b][i + 1] = None
    BY <2>2
  <2> QED BY <1>1, <1>2, <2>2, <2>3, CertificatesAssumption, UnreadableAssumption DEF Written
<1>5. TLSTypeOK
  <2>1. NoCheck \in CheckType
    BY <1>2 DEF NoCheck, CheckType
  <2>2. capath \in [Buckets -> [0..MaxFiles -> Subjects \cup {CASubject, Unreadable}]]
    BY <1>1
  <2> QED BY <1>1, <2>1, <2>2 DEF TLSTypeOK, CheckType
<1> QED BY <1>1, <1>3, <1>4, <1>5
    DEF VerifyInv, DirectoryInv, StillAhead, RejectedExplained, SubjectKnown, NoCheck

LEMMA VerifyAlways == TLSSpec => [](IndexInv /\ VerifyInv)
<1>1. IndexInv /\ VerifyInv /\ [TLSNext]_allVars => VerifyInv'
  BY VerifyStep
<1> QED BY <1>1, IndexAlways, VerifyInitial, PTL DEF TLSSpec

(* Every variable of directory and reader keeps its shape; the reader      *)
(* stays within the bound on a bucket's files.                             *)
THEOREM VerifyTyped == TLSSpec => []TLSTypeOK
<1>1. VerifyInv => TLSTypeOK
  BY DEF VerifyInv
<1> QED BY <1>1, VerifyAlways, PTL

(* In a bucket that is in order every cached key has a certificate of its  *)
(* subject under its number, and no file in front of it is missing or half *)
(* written, whatever the directory was left with and however often files   *)
(* are written over (ca.go:213-263).                                       *)
THEOREM CachedInDirectory == TLSSpec => []FilesInPlace
<1>1. IndexInv /\ VerifyInv => FilesInPlace
  BY CachedInPlace DEF FilesInPlace, VerifyInv, DirectoryInv
<1> QED BY <1>1, VerifyAlways, PTL

(* tls-verify turns away the holder of a key that is cached all the while  *)
(* only in a bucket with a file that could not be written or that was      *)
(* given another number (ca.go:229, 251, 428-452).                         *)
THEOREM RejectionsExplained == TLSSpec => []RejectedExplained
<1>1. VerifyInv => RejectedExplained
  BY DEF VerifyInv, DirectoryInv
<1> QED BY <1>1, VerifyAlways, PTL
===============================================================================
