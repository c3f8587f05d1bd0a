------------------------------- MODULE TLSVerify -------------------------------
(***************************************************************************)
(* The capath directory between its writer and its reader.  The server's   *)
(* polling goroutine (UserManager) writes the CA certificates of trusted   *)
(* keys to it, in place and in several writes; `openvpn-aws verify', a     *)
(* process that OpenVPN starts for every TLS handshake, reads the files of *)
(* a bucket one after the other until it meets the one for the client's    *)
(* subject (CheckCertificate) or one it cannot use.  Nothing but the       *)
(* directory connects the two, no lock covers it, and it survives the      *)
(* server.  A client that gets past this check reaches authenticateUser.   *)
(*                                                                         *)
(* One client is under way at a time, from its handshake to the answer of  *)
(* authenticateUser.                                                       *)
(***************************************************************************)
EXTENDS UserManager

VARIABLES
    capath,     \* bucket -> number -> what the file <bucket>.<number> holds
    open,       \* is the file of the key being added open?
    check,      \* [pc, subject, index]: the handshake being verified
    \* history
    sure,       \* has a key of the subject been cached ever since the check began?
    gaps,       \* the buckets with an entry whose file could not be written
    renumbered  \* the buckets where another subject's file was given a new number

historyVars == <<sure, gaps, renumbered>>
tlsVars == <<capath, open, check, historyVars>>
allVars == <<vars, tlsVars>>

Subjects == Users \X Hashes

CASubject == <<None, None>>

(* A file that is missing and one that is no certificate are all one to a  *)
(* reader.                                                                 *)
Unreadable == None

ASSUME UnreadableAssumption == Unreadable \notin Subjects \cup {CASubject}

NoCheck == [pc |-> "idle", subject |-> None, index |-> 0]

TLSInit ==
    /\ Init
    /\ capath = [b \in Buckets |-> [i \in 0..MaxFiles |->
                    IF b = CABucket /\ i = 0 THEN CASubject ELSE Unreadable]]
    /\ open = FALSE
    /\ check = NoCheck
    /\ sure = FALSE
    /\ gaps = {}
    /\ renumbered = {}

Cached(s) == \E k \in Keys : Subject(k) = s /\ keyById[k] \in Hashes

-----------------------------------------------------------------------------
(***************************************************************************)
(* writePEM: the file of a key being added is opened without truncation    *)
(* and encoded into piece by piece.  Meanwhile it can be read as what it   *)
(* was, as what it is going to be, or not at all.                          *)
(***************************************************************************)
(* Seeded bug: the files of a bucket are counted from 1.                   *)
FileFromOne(k) == store.byName[k] + 1

File(k) == store.byName[k]

(* Seeded bug: the first file of the bucket is written, whoever's it is.   *)
WithFileFirst(k, content) == [capath EXCEPT ![Bucket(k)][0] = content]

WithFile(k, content) == [capath EXCEPT ![Bucket(k)][File(k)] = content]

OpenFile ==
    /\ poll.adding # None /\ ~open
    /\ open' = TRUE
    /\ LET k == poll.adding
       IN  \E content \in {Unreadable, capath[Bucket(k)][File(k)], Subject(k)} :
              capath' = WithFile(k, content)
    /\ UNCHANGED <<vars, check, historyVars>>

CloseFile ==
    /\ open /\ AddKey
    /\ open' = FALSE
    /\ capath' = WithFile(poll.adding, Subject(poll.adding))
    /\ UNCHANGED <<check, historyVars>>

(* An open that fails leaves the file as it was, a write that fails leaves *)
(* what it wrote.                                                          *)
WriteFails ==
    /\ AddFails
    /\ open' = FALSE
    /\ gaps' = gaps \cup {Bucket(poll.adding)}
    /\ UNCHANGED <<capath, check, sure, renumbered>>

(***************************************************************************)
(* Remove renames and deletes files the directory does not have - it joins *)
(* bucket and number with a slash where addCertificate puts a dot - and    *)
(* its error is dropped: the index changes and the directory does not.     *)
(***************************************************************************)
MovedBy(k) == Files(store, k)[Len(Files(store, k))]

RemoveFile(k) ==
    /\ Remove(k)
    /\ renumbered' = IF Removable(store, k) /\ MovedBy(k) # None /\ Subject(MovedBy(k)) # Subject(k)
                       THEN renumbered \cup {Bucket(k)}
                       ELSE renumbered
    /\ UNCHANGED <<capath, open, check, sure, gaps>>

CommitKeys ==
    /\ Commit
    /\ UNCHANGED <<capath, open, check, gaps, renumbered>>
    /\ sure' = (sure /\ Cached(check.subject)')

(* CreateCertificateManager takes the directory as it finds it.            *)
RestartOnRoot ==
    /\ Restart
    /\ capath' = [capath EXCEPT ![CABucket][0] = CASubject]
    /\ open' = FALSE
    /\ check' = NoCheck
    /\ sure' = FALSE
    /\ gaps' = {}
    /\ renumbered' = {}

-----------------------------------------------------------------------------
(***************************************************************************)
(* CheckCertificate, one file at a time.                                   *)
(***************************************************************************)
Start(s) ==
    /\ Alive /\ booted /\ check.pc = "idle" /\ auth.pc = "idle"
    /\ check' = [pc |-> "reading", subject |-> s, index |-> 0]
    /\ sure' = Cached(s)
    /\ UNCHANGED <<vars, capath, open, gaps, renumbered>>

(* Seeded bug: a file that cannot be read is passed over.                  *)
ReadFileOrNext ==
    /\ Alive /\ check.pc = "reading"
    /\ check' = IF capath[BucketOf[check.subject]][check.index] = check.subject
                   THEN [check EXCEPT !.pc = "accepted"]
                   ELSE [check EXCEPT !.index = @ + 1]
    /\ UNCHANGED <<vars, capath, open, historyVars>>

ReadFile ==
    /\ Alive /\ check.pc = "reading"
    /\ LET content == capath[BucketOf[check.subject]][check.index]
       IN  check' = IF content = Unreadable THEN [check EXCEPT !.pc = "rejected"]
                    ELSE IF content = check.subject THEN [check EXCEPT !.pc = "accepted"]
                    ELSE [check EXCEPT !.index = @ + 1]
    /\ UNCHANGED <<vars, capath, open, historyVars>>

(* A client that is accepted connects, or goes away.                       *)
Connects ==
    /\ check.pc = "accepted"
    /\ LookUp(check.subject[1], check.subject[2])
    /\ check' = NoCheck
    /\ sure' = FALSE
    /\ UNCHANGED <<capath, open, gaps, renumbered>>

Leaves ==
    /\ Alive /\ check.pc \in {"accepted", "rejected"}
    /\ check' = NoCheck
    /\ sure' = FALSE
    /\ UNCHANGED <<vars, capath, open, gaps, renumbered>>

-----------------------------------------------------------------------------
(* What the server does without touching the directory.                    *)
Elsewhere ==
    /\ \/ Admin
       \/ StartUpdate \/ CallFails \/ NextUser \/ EndUpdate
       \/ \E u \in Users : ListKeys(u)
       \/ \E k \in Keys : FetchKey(k)
       \/ CheckKey \/ Decide \/ Return
    /\ UNCHANGED tlsVars

Directory ==
    \/ OpenFile \/ CloseFile \/ WriteFails \/ CommitKeys \/ RestartOnRoot
    \/ \E k \in Keys : RemoveFile(k)

Verify == (\E s \in Subjects : Start(s)) \/ ReadFile \/ Connects \/ Leaves

TLSNext == Elsewhere \/ Directory \/ Verify

TLSSpec == TLSInit /\ [][TLSNext]_allVars

-----------------------------------------------------------------------------
(***************************************************************************)
(* Properties.                                                             *)
(***************************************************************************)

(* Every variable keeps its shape.                                         *)
TLSTypeOK ==
    /\ capath \in [Buckets -> [0..MaxFiles -> Subjects \cup {CASubject, Unreadable}]]
    /\ open \in BOOLEAN /\ (open => poll.adding # None)
    /\ check \in [pc : {"idle", "reading", "accepted", "rejected"},
                  subject : Subjects \cup {None}, index : 0..MaxFiles]
    /\ sure \in BOOLEAN
    /\ gaps \subseteq Buckets
    /\ renumbered \subseteq Buckets

InOrder(b) == b \notin gaps \cup renumbered /\ uncertified = {}

(* The directory has, for every cached key, a certificate of its subject   *)
(* under the number the index gives it, and can be read up to there        *)
(* (ca.go:213-263, 428-452): a file opened over an old one, and every file *)
(* an earlier life of the server left behind, is beyond those in use.      *)
FilesInPlace ==
    \A k \in Keys :
        (keyById[k] \in Hashes /\ InOrder(Bucket(k)))
        => /\ capath[Bucket(k)][File(k)] = Subject(k)
           /\ \A i \in 0..File(k) : capath[Bucket(k)][i] # Unreadable

(* A holder of a key that is cached all the while is not turned away by    *)
(* tls-verify, whatever is written to the directory meanwhile (ca.go:428), *)
(* but for the two ways in which index and directory part: a file that     *)
(* could not be written keeps its number (ca.go:229), and a file that is   *)
(* given another number keeps its name (ca.go:251).                        *)
RejectedExplained ==
    (check.pc = "rejected" /\ sure) => ~InOrder(BucketOf[check.subject])
=============================================================================
