------------------------------ MODULE AccessPolicy ------------------------------
(***************************************************************************)
(* What a user may reach: vpn.conf, the user's groups in IAM, the update   *)
(* that polls both (vpn/config.go and updateConfig of vpn/manager.go), the *)
(* groups cached for the time IAM does not answer, the answer to a         *)
(* client's request, and the user's iptables chain.                        *)
(*                                                                         *)
(* One user: users share only vpn.conf.  The user has a valid key, keys    *)
(* being UserManager's matter.                                             *)
(***************************************************************************)
EXTENDS ConfigFile

CONSTANTS
    Files,        \* what vpn.conf may contain at the start
    Revisions,    \* what the administrators may replace it by
    MaxChanges,   \* bound on the administrators' changes
    MaxFailures   \* bound on the calls that fail

ASSUME ConstantsAssumption ==
    /\ \A f \in Files \cup Revisions : IsText(f)
    /\ MaxChanges \in Nat /\ MaxFailures \in Nat

VARIABLES
    \* the administrators' side (external)
    file,        \* vpn.conf
    groups,      \* the user's groups in IAM
    changes, failures,
    \* userManager
    confFile,    \* the file in force, as parsed
    userGroups,  \* the groups cached for the user
    booted,      \* has BootVPN succeeded?
    \* the polling goroutine, at first BootVPN
    update,      \* [pc, conf, todo, snapshot, found, err]
    \* the event handler inside authenticateUser
    auth,        \* [pc, groups, config]: config is the answer, a UserConfig or None
    \* iptables
    chain,       \* the rules <<network, port>> of the user's chain, None without one
    \* history: the groups held at [some, all] times since it began
    cached,      \* what last wrote userGroups
    polled,      \* the update under way
    requested    \* the request under way

adminVars == <<file, groups, changes, failures>>
vars == <<adminVars, confFile, userGroups, booted, update, auth, chain,
          cached, polled, requested>>

-----------------------------------------------------------------------------
(* ParseConfig, as a table.                                                *)
Parsed == [f \in Files \cup Revisions |-> ParseConfig(f)]

(* The texts whose policy is as written, whatever the groups.              *)
Followed ==
    {f \in Files \cup Revisions :
        Parsed[f] # None =>
           \A gs \in SUBSET Groups : AsWritten(GetUserConfig(Parsed[f], gs), f, gs)}

(* UpdateUser on a user without a chain: without rules none is made.       *)
ChainOf(config) == IF config = None \/ Rules(config) = {} THEN None ELSE Rules(config)

-----------------------------------------------------------------------------
Since(now) == [some |-> now, all |-> now]

Also(window, now) == [some |-> window.some \cup now, all |-> window.all \cap now]

NoUpdate == [pc |-> "idle", conf |-> None, todo |-> {}, snapshot |-> {},
             found |-> FALSE, err |-> FALSE]

NoAuth == [pc |-> "idle", groups |-> {}, config |-> None]

Init ==
    /\ file \in Files
    /\ groups \in SUBSET Groups
    /\ changes = 0 /\ failures = 0
    /\ confFile = None
    /\ userGroups = {}
    /\ booted = FALSE
    /\ update = NoUpdate
    /\ auth = NoAuth
    /\ chain = None
    /\ cached = Since({}) /\ polled = Since({}) /\ requested = Since({})

(* Administrators.                                                         *)
EditFile(f) ==
    /\ changes < MaxChanges /\ f # file
    /\ changes' = changes + 1
    /\ file' = f
    /\ UNCHANGED <<groups, failures, confFile, userGroups, booted, update, auth, chain,
                   cached, polled, requested>>

AssignGroup(g) ==
    /\ changes < MaxChanges
    /\ changes' = changes + 1
    /\ groups' = (groups \ {g}) \cup ({g} \ groups)
    /\ cached' = Also(cached, groups')
    /\ polled' = Also(polled, groups')
    /\ requested' = Also(requested, groups')
    /\ UNCHANGED <<file, failures, confFile, userGroups, booted, update, auth, chain>>

-----------------------------------------------------------------------------
(***************************************************************************)
(* update, buildUserConfigs and updateConfig; BootVPN does the same once,  *)
(* and ends the program when it fails.                                     *)
(***************************************************************************)
Updating(pc) == update.pc = pc

updateUnchanged == <<auth, requested>>

StartUpdate ==
    /\ Updating("idle")
    /\ update' = [NoUpdate EXCEPT !.pc = IF Parsed[file] = None THEN "failed" ELSE "network",
                                  !.conf = Parsed[file]]
    /\ polled' = Since(groups)
    /\ UNCHANGED <<adminVars, confFile, userGroups, booted, chain, cached, updateUnchanged>>

(* Seeded bug: the file of the boot stays in force.                        *)
SetConfFileOnce ==
    /\ Updating("network")
    /\ confFile' = IF booted THEN confFile ELSE update.conf
    /\ update' = [update EXCEPT !.pc = "groups", !.todo = Groups \cap DOMAIN update.conf.of]
    /\ UNCHANGED <<adminVars, userGroups, booted, chain, cached, polled, updateUnchanged>>

(* The network info has come: the file is in force from here on, whatever  *)
(* fails later.                                                            *)
SetConfFile ==
    /\ Updating("network")
    /\ confFile' = update.conf
    /\ update' = [update EXCEPT !.pc = "groups", !.todo = Groups \cap DOMAIN update.conf.of]
    /\ UNCHANGED <<adminVars, userGroups, booted, chain, cached, polled, updateUnchanged>>

FetchGroup(g) ==
    /\ Updating("groups") /\ g \in update.todo
    /\ update' = [update EXCEPT !.todo = @ \ {g}, !.snapshot = @ \cup (groups \cap {g})]
    /\ UNCHANGED <<adminVars, confFile, userGroups, booted, chain, cached, polled,
                   updateUnchanged>>

UpdateCallFails ==
    /\ update.pc \in {"network", "groups", "chains"}
    /\ failures < MaxFailures
    /\ failures' = failures + 1
    /\ update' = [NoUpdate EXCEPT !.pc = "failed"]
    /\ polled' = Since({})
    /\ UNCHANGED <<file, groups, changes, confFile, userGroups, booted, chain, cached,
                   updateUnchanged>>

(* updateKeys, and the new group cache; what the update has found is the   *)
(* policy of its file for the groups of its snapshot.                      *)
Found == GetUserConfig(update.conf, update.snapshot)

(* Seeded bug: the snapshot is added to the cached groups.                 *)
EndUpdateMerges ==
    /\ Updating("groups") /\ update.todo = {}
    /\ userGroups' = userGroups \cup update.snapshot
    /\ cached' = [polled EXCEPT !.all = @ \cap DOMAIN update.conf.of]
    /\ polled' = Since({})
    /\ update' = [update EXCEPT !.pc = IF booted THEN "apply" ELSE "chains", !.found = TRUE]
    /\ UNCHANGED <<adminVars, confFile, booted, chain, updateUnchanged>>

EndUpdate ==
    /\ Updating("groups") /\ update.todo = {}
    /\ userGroups' = update.snapshot
    /\ cached' = [polled EXCEPT !.all = @ \cap DOMAIN update.conf.of]
    /\ polled' = Since({})
    /\ update' = [update EXCEPT !.pc = IF booted THEN "apply" ELSE "chains", !.found = TRUE]
    /\ UNCHANGED <<adminVars, confFile, booted, chain, updateUnchanged>>

(* BootVPN makes the chain before any event is handled.                    *)
MakeChain ==
    /\ Updating("chains")
    /\ chain' = ChainOf(Found)
    /\ booted' = TRUE
    /\ update' = NoUpdate
    /\ UNCHANGED <<adminVars, confFile, userGroups, cached, polled, updateUnchanged>>

Fail ==
    /\ Updating("failed")
    /\ update' = IF booted THEN [update EXCEPT !.pc = "apply", !.err = TRUE]
                           ELSE [update EXCEPT !.pc = "dead"]
    /\ UNCHANGED <<adminVars, confFile, userGroups, booted, chain, cached, polled,
                   updateUnchanged>>

(* What was found is applied under `users != nil && err != nil`.           *)
UpdateConfig ==
    /\ Updating("apply")
    /\ chain' = IF update.found /\ update.err THEN ChainOf(Found) ELSE chain
    /\ update' = NoUpdate
    /\ UNCHANGED <<adminVars, confFile, userGroups, booted, cached, polled, updateUnchanged>>

-----------------------------------------------------------------------------
(***************************************************************************)
(* authenticateUser: the groups are asked for; if IAM does not answer, the *)
(* cached ones do.                                                         *)
(***************************************************************************)
authUnchanged == <<file, groups, changes, confFile, booted, update, chain, polled>>

StartRequest ==
    /\ booted /\ auth.pc = "idle"
    /\ auth' = [NoAuth EXCEPT !.pc = "ask"]
    /\ requested' = Since(groups)
    /\ UNCHANGED <<authUnchanged, failures, userGroups, cached>>

GroupsAnswered ==
    /\ auth.pc = "ask"
    /\ auth' = [auth EXCEPT !.pc = "store", !.groups = groups]
    /\ UNCHANGED <<authUnchanged, failures, userGroups, cached, requested>>

GroupsUnanswered ==
    /\ auth.pc = "ask"
    /\ failures < MaxFailures
    /\ failures' = failures + 1
    /\ auth' = [auth EXCEPT !.pc = "decideCached"]
    /\ UNCHANGED <<authUnchanged, userGroups, cached, requested>>

StoreGroups ==
    /\ auth.pc = "store"
    /\ userGroups' = auth.groups
    /\ cached' = requested
    /\ auth' = [auth EXCEPT !.pc = "decide"]
    /\ UNCHANGED <<authUnchanged, failures, requested>>

Decide ==
    /\ auth.pc \in {"decide", "decideCached"}
    /\ auth' = [NoAuth EXCEPT !.pc = "answered",
                   !.config = GetUserConfig(confFile, IF auth.pc = "decide" THEN auth.groups
                                                                           ELSE userGroups)]
    /\ UNCHANGED <<authUnchanged, failures, userGroups, cached, requested>>

(* authorizeClient pushes the routes of the answer, or denies the client.  *)
Return ==
    /\ auth.pc = "answered"
    /\ auth' = NoAuth
    /\ requested' = Since({})
    /\ UNCHANGED <<authUnchanged, failures, userGroups, cached>>

UpdateStep ==
    \/ StartUpdate \/ SetConfFile \/ EndUpdate \/ MakeChain \/ Fail \/ UpdateConfig
    \/ \E g \in Groups : FetchGroup(g)

AuthStep == StartRequest \/ GroupsAnswered \/ StoreGroups \/ Decide \/ Return

Next ==
    \/ \E f \in Revisions : EditFile(f)
    \/ \E g \in Groups : AssignGroup(g)
    \/ UpdateStep \/ UpdateCallFails
    \/ AuthStep \/ GroupsUnanswered

Spec == Init /\ [][Next]_vars

(* time.AfterFunc calls updateConfig again and again.                      *)
FairSpec == Spec /\ WF_vars(UpdateStep)

-----------------------------------------------------------------------------
(***************************************************************************)
(* Properties.                                                             *)
(***************************************************************************)
(* Every variable keeps its shape, and a booted server has a policy.       *)
TypeOK ==
    /\ file \in Files \cup Revisions
    /\ groups \subseteq Groups /\ userGroups \subseteq Groups
    /\ changes \in 0..MaxChanges /\ failures \in 0..MaxFailures
    /\ confFile = None \/ IsConf(confFile)
    /\ booted \in BOOLEAN /\ (booted => confFile # None)
    /\ update.pc \in {"idle", "network", "groups", "chains", "apply", "failed", "dead"}
    /\ update.conf = None \/ IsConf(update.conf)
    /\ update.todo \subseteq Groups /\ update.snapshot \subseteq Groups
    /\ auth.pc \in {"idle", "ask", "store", "decide", "decideCached", "answered"}
    /\ auth.groups \subseteq Groups
    /\ auth.config \in UserConfigs \cup {None}
    /\ chain = None \/ chain \subseteq Nets \X (Ports \cup {0})

(* ParseConfig, GetUserConfig and the chain made of it (parser.go:31-83,   *)
(* configfile.go:78-194 and 345-409, manager.go:291-305): for whatever     *)
(* groups, access, the pushed dns setting and the opened ports are what    *)
(* the lines of the user's sections say, wherever in the text they are,    *)
(* but for what the lines said that the parser drops without a word; of a  *)
(* text without such lines nothing is missing and nothing is added.        *)
RulesOfPolicy ==
    Updating("network") =>
        \A text \in Files \cup Revisions : Parsed[text] = update.conf => text \in Followed

(* What a request is answered is the policy in force (config.go:274-294)   *)
(* for groups that the user held: when IAM answered, since the request     *)
(* began; when it did not, since that began which last wrote the cache,    *)
(* be it an update or a request, whichever way they overlapped.  A group   *)
(* held all the while counts, unless that update did not ask for it.       *)
AccessExplained ==
    [][auth.pc \in {"decide", "decideCached"} /\ auth'.pc = "answered" =>
          LET window == IF auth.pc = "decide" THEN requested ELSE cached
          IN  \E gs \in SUBSET window.some :
                 window.all \subseteq gs /\ auth'.config = GetUserConfig(confFile, gs)]_vars

InForce(conf) ==
    confFile = conf /\ userGroups \cap DOMAIN conf.of = groups \cap DOMAIN conf.of

(* When the administrators are done, the updates bring the file and the   *)
(* user's groups into force (config.go:47-128), through failed calls,      *)
(* files refused in between and requests that write what they were told    *)
(* earlier into the cache - unless the file they leave behind is refused:  *)
(* then the groups stay what they were as well.                            *)
PolicyConverges ==
    <>[](\/ Updating("dead")
         \/ Parsed[file] = None
         \/ booted /\ InForce(Parsed[file]))

(* What index.md:34-36 says of the groups' subnets: "This is enforced by   *)
(* firewall rules on the server as well as routes that are pushed to the   *)
(* client".                                                                *)
PolicyEnforced ==
    <>[](\/ Updating("dead")
         \/ booted /\ chain = ChainOf(GetUserConfig(confFile, groups)))
=============================================================================
