--------------------------- MODULE AccessPolicyProofs ---------------------------
(***************************************************************************)
(* What holds of AccessPolicy for every set of groups, networks and texts  *)
(* of vpn.conf, and every bound on changes and failures.  ConfigFileProofs *)
(* says what the parser makes of a text, and what policy is made of that.  *)
(***************************************************************************)
EXTENDS AccessPolicy, ConfigFileProofs

IsWindow(w) == w = [some |-> w.some, all |-> w.all]

IsUpdate(u) ==
    /\ u = [pc |-> u.pc, conf |-> u.conf, todo |-> u.todo, snapshot |-> u.snapshot,
            found |-> u.found, err |-> u.err]
    /\ u.pc \in {"idle", "network", "groups", "chains", "apply", "failed", "dead"}
    /\ u.todo \subseteq Groups

IsAuth(u) ==
    /\ u = [pc |-> u.pc, groups |-> u.groups, config |-> u.config]
    /\ u.pc \in {"idle", "ask", "store", "decide", "decideCached", "answered"}

ShapeInv ==
    /\ groups \subseteq Groups
    /\ IsWindow(cached) /\ IsWindow(polled) /\ IsWindow(requested)
    /\ IsUpdate(update) /\ IsAuth(auth)

(* Groups that were held some time, and all that were held all the time.   *)
Within(gs, window) == gs \subseteq window.some /\ window.all \subseteq gs

(* The snapshot of an update is within the time of the update, as far as   *)
(* its groups have been asked for.                                         *)
Polling(u) ==
    u.pc \in {"network", "groups"} =>
        /\ Within(groups, polled)
        /\ u.snapshot \subseteq polled.some
        /\ u.pc = "groups" =>
              (polled.all \cap DOMAIN u.conf.of) \ u.todo \subseteq u.snapshot
        /\ u.pc = "network" => u.snapshot = {}

Requesting ==
    /\ auth.pc = "ask" => Within(groups, requested)
    /\ auth.pc \in {"store", "decide"} => Within(auth.groups, requested)

WindowInv ==
    /\ ShapeInv
    /\ Polling(update)
    /\ Requesting
    /\ Within(userGroups, cached)

-----------------------------------------------------------------------------
(* Windows over time.                                                      *)
LEMMA WindowBegins == ASSUME NEW gs PROVE IsWindow(Since(gs)) /\ Within(gs, Since(gs))
BY DEF IsWindow, Since, Within

LEMMA WindowGoesOn ==
    ASSUME NEW w, NEW now
    PROVE  /\ IsWindow(Also(w, now))
           /\ \A gs : Within(gs, w) => Within(gs, Also(w, now))
           /\ w.some \subseteq Also(w, now).some /\ Also(w, now).all \subseteq w.all
           /\ now \subseteq Also(w, now).some /\ Also(w, now).all \subseteq now
BY DEF IsWindow, Also, Within

LEMMA WindowInit == Init => WindowInv
<1> SUFFICES ASSUME Init PROVE WindowInv
  OBVIOUS
<1>1. IsUpdate(update) /\ update.pc = "idle" /\ IsAuth(auth) /\ auth.pc = "idle"
  BY DEF Init, NoUpdate, NoAuth, IsUpdate, IsAuth
<1>2. IsWindow(cached) /\ IsWindow(polled) /\ IsWindow(requested) /\ Within(userGroups, cached)
  BY WindowBegins DEF Init
<1>3. groups \subseteq Groups
  BY DEF Init
<1> QED BY <1>1, <1>2, <1>3 DEF WindowInv, ShapeInv, Polling, Requesting

(* Administrators change the groups while updates and requests are under   *)
(* way.                                                                    *)
LEMMA WindowAssigns ==
    ASSUME WindowInv, NEW g \in Groups, AssignGroup(g) PROVE WindowInv'
<1> USE DEF WindowInv
<1>1. /\ groups' \subseteq Groups
      /\ cached' = Also(cached, groups') /\ polled' = Also(polled, groups')
      /\ requested' = Also(requested, groups')
      /\ UNCHANGED <<userGroups, update, auth>>
  BY DEF AssignGroup, ShapeInv
<1>2. ShapeInv'
  BY <1>1, WindowGoesOn DEF ShapeInv
<1>3. Polling(update)'
  <2>1. Within(groups', polled')
    BY <1>1, WindowGoesOn DEF Within
  <2>2. polled.some \subseteq polled'.some /\ polled'.all \subseteq polled.all
    BY <1>1, WindowGoesOn
  <2> QED BY <1>1, <2>1, <2>2 DEF Polling
<1>4. Requesting'
  <2>1. Within(groups', requested')
    BY <1>1, WindowGoesOn DEF Within
  <2>2. auth.pc \in {"store", "decide"} => Within(auth.groups, requested')
    BY <1>1, WindowGoesOn DEF Requesting
  <2> QED BY <1>1, <2>1, <2>2 DEF Requesting
<1>5. Within(userGroups, cached)'
  <2>1. Within(userGroups, Also(cached, groups'))
    BY WindowGoesOn
  <2> QED BY <1>1, <2>1
<1> QED BY <1>2, <1>3, <1>4, <1>5

(* The update.                                                             *)
LEMMA WindowUpdates ==
    ASSUME WindowInv, UpdateStep \/ UpdateCallFails PROVE WindowInv'
<1> USE DEF WindowInv
<1>1. groups \subseteq Groups /\ IsUpdate(update) /\ IsAuth(auth)
  BY DEF ShapeInv
<1>2. /\ UNCHANGED <<groups, auth, requested>>
  BY DEF UpdateStep, UpdateCallFails, StartUpdate, SetConfFile, EndUpdate, MakeChain, Fail,
         UpdateConfig, FetchGroup, adminVars, updateUnchanged
<1>3. Requesting'
  BY <1>2 DEF Requesting
<1>4. ASSUME IsUpdate(update'), IsWindow(polled'), Polling(update)', UNCHANGED <<userGroups, cached>>
      PROVE  WindowInv'
  BY <1>2, <1>3, <1>4 DEF ShapeInv
<1>5. IsUpdate(NoUpdate) /\ NoUpdate.pc = "idle"
  BY DEF IsUpdate, NoUpdate
<1>6. CASE StartUpdate
  <2>1. /\ update' = [NoUpdate EXCEPT !.pc = IF Parsed[file] = None THEN "failed" ELSE "network",
                                      !.conf = Parsed[file]]
        /\ polled' = Since(groups) /\ UNCHANGED <<userGroups, cached>>
    BY <1>6 DEF StartUpdate
  <2>2. /\ IsUpdate(update') /\ update'.snapshot = {}
        /\ update'.pc \in {"network", "failed"}
    BY <2>1 DEF IsUpdate, NoUpdate
  <2>3. IsWindow(polled') /\ Within(groups, polled')
    BY <2>1, WindowBegins
  <2> QED BY <1>2, <1>4, <2>1, <2>2, <2>3 DEF Polling
<1>7. CASE SetConfFile
  <2>1. /\ update' = [update EXCEPT !.pc = "groups", !.todo = Groups \cap DOMAIN update.conf.of]
        /\ update.pc = "network" /\ UNCHANGED <<polled, userGroups, cached>>
    BY <1>7 DEF SetConfFile, Updating
  <2>2. /\ IsUpdate(update') /\ update'.pc = "groups" /\ update'.conf = update.conf
        /\ update'.todo = Groups \cap DOMAIN update.conf.of /\ update'.snapshot = update.snapshot
    BY <1>1, <2>1 DEF IsUpdate
  <2>3. polled.all \subseteq Groups
    BY <1>1, <2>1 DEF Polling, Within
  <2>4. Polling(update)'
    BY <1>2, <2>1, <2>2, <2>3 DEF Polling
  <2> QED BY <1>4, <2>1, <2>2, <2>4 DEF ShapeInv
<1>8. ASSUME NEW g \in Groups, FetchGroup(g) PROVE WindowInv'
  <2>1. /\ update' = [update EXCEPT !.todo = @ \ {g}, !.snapshot = @ \cup (groups \cap {g})]
        /\ update.pc = "groups" /\ UNCHANGED <<polled, userGroups, cached>>
    BY <1>8 DEF FetchGroup, Updating
  <2>2. /\ IsUpdate(update') /\ update'.pc = "groups" /\ update'.conf = update.conf
        /\ update'.todo = update.todo \ {g}
        /\ update'.snapshot = update.snapshot \cup (groups \cap {g})
    BY <1>1, <2>1 DEF IsUpdate
  <2>3. Polling(update)'
    BY <1>2, <2>1, <2>2 DEF Polling, Within
  <2> QED BY <1>4, <2>1, <2>2, <2>3 DEF ShapeInv
<1>9. CASE UpdateCallFails
  <2>1. /\ update' = [NoUpdate EXCEPT !.pc = "failed"] /\ polled' = Since({})
        /\ UNCHANGED <<userGroups, cached>>
    BY <1>9 DEF UpdateCallFails
  <2>2. IsUpdate(update') /\ update'.pc = "failed"
    BY <2>1 DEF IsUpdate, NoUpdate
  <2> QED BY <1>4, <2>1, <2>2, WindowBegins DEF Polling
<1>10. CASE EndUpdate
  <2>1. /\ update.pc = "groups" /\ update.todo = {}
        /\ userGroups' = update.snapshot
        /\ cached' = [polled EXCEPT !.all = @ \cap DOMAIN update.conf.of]
        /\ polled' = Since({})
        /\ update' = [update EXCEPT !.pc = IF booted THEN "apply" ELSE "chains", !.found = TRUE]
    BY <1>10 DEF EndUpdate, Updating
  <2>2. IsWindow(polled)
    BY DEF ShapeInv
  <2>3. IsWindow(cached') /\ cached'.some = polled.some
        /\ cached'.all = polled.all \cap DOMAIN update.conf.of
    BY <2>1, <2>2 DEF IsWindow
  <2>4. Within(userGroups, cached)'
    BY <2>1, <2>3 DEF Polling, Within
  <2>5. IsUpdate(update') /\ update'.pc \in {"apply", "chains"}
    BY <1>1, <2>1 DEF IsUpdate
  <2>6. IsWindow(polled')
    BY <2>1, WindowBegins
  <2> QED BY <1>2, <1>3, <2>3, <2>4, <2>5, <2>6 DEF ShapeInv, Polling
<1>11. CASE MakeChain \/ UpdateConfig
  <2>1. update' = NoUpdate /\ UNCHANGED <<polled, userGroups, cached>>
    BY <1>11 DEF MakeChain, UpdateConfig
  <2> QED BY <1>4, <1>5, <2>1 DEF Polling, ShapeInv
<1>12. CASE Fail
  <2>1. /\ update' = IF booted THEN [update EXCEPT !.pc = "apply", !.err = TRUE]
                               ELSE [update EXCEPT !.pc = "dead"]
        /\ UNCHANGED <<polled, userGroups, cached>>
    BY <1>12 DEF Fail
  <2>2. IsUpdate(update') /\ update'.pc \in {"apply", "dead"}
    BY <1>1, <2>1 DEF IsUpdate
  <2> QED BY <1>4, <2>1, <2>2 DEF Polling, ShapeInv
<1> QED BY <1>6, <1>7, <1>8, <1>9, <1>10, <1>11, <1>12 DEF UpdateStep

(* The requests.                                                           *)
LEMMA WindowAnswers ==
    ASSUME WindowInv, AuthStep \/ GroupsUnanswered PROVE WindowInv'
<1> USE DEF WindowInv
<1>1. UNCHANGED <<groups, update, polled>>
  BY DEF AuthStep, GroupsUnanswered, StartRequest, GroupsAnswered, StoreGroups, Decide, Return,
         authUnchanged
<1>2. Polling(update)'
  BY <1>1 DEF Polling
<1>3. ASSUME IsAuth(auth'), IsWindow(requested'), Requesting', UNCHANGED <<userGroups, cached>>
      PROVE  WindowInv'
  BY <1>1, <1>2, <1>3 DEF ShapeInv
<1>4. IsAuth(auth) /\ IsWindow(requested)
  BY DEF ShapeInv
<1>5. CASE StartRequest
  <2>1. auth' = [NoAuth EXCEPT !.pc = "ask"] /\ requested' = Since(groups)
        /\ UNCHANGED <<userGroups, cached>>
    BY <1>5 DEF StartRequest
  <2>2. IsAuth(auth') /\ auth'.pc = "ask"
    BY <2>1 DEF IsAuth, NoAuth
  <2> QED BY <1>1, <1>3, <2>1, <2>2, WindowBegins DEF Requesting
<1>6. CASE GroupsAnswered
  <2>1. /\ auth' = [auth EXCEPT !.pc = "store", !.groups = groups] /\ auth.pc = "ask"
        /\ UNCHANGED <<requested, userGroups, cached>>
    BY <1>6 DEF GroupsAnswered
  <2>2. IsAuth(auth') /\ auth'.pc = "store" /\ auth'.groups = groups
    BY <1>4, <2>1 DEF IsAuth
  <2> QED BY <1>3, <1>4, <2>1, <2>2 DEF Requesting
<1>7. CASE GroupsUnanswered
  <2>1. /\ auth' = [auth EXCEPT !.pc = "decideCached"]
        /\ UNCHANGED <<requested, userGroups, cached>>
    BY <1>7 DEF GroupsUnanswered
  <2>2. IsAuth(auth') /\ auth'.pc = "decideCached"
    BY <1>4, <2>1 DEF IsAuth
  <2> QED BY <1>3, <1>4, <2>1, <2>2 DEF Requesting
<1>8. CASE StoreGroups
  <2>1. /\ auth' = [auth EXCEPT !.pc = "decide"] /\ auth.pc = "store"
        /\ userGroups' = auth.groups /\ cached' = requested /\ requested' = requested
    BY <1>8 DEF StoreGroups
  <2>2. IsAuth(auth') /\ auth'.pc = "decide" /\ auth'.groups = auth.groups
    BY <1>4, <2>1 DEF IsAuth
  <2>3. Within(userGroups, cached)' /\ Requesting'
    BY <2>1, <2>2 DEF Requesting
  <2> QED BY <1>1, <1>2, <1>4, <2>1, <2>2, <2>3 DEF ShapeInv
<1>9. CASE Decide
  <2> DEFINE config == GetUserConfig(confFile, IF auth.pc = "decide" THEN auth.groups
                                                                      ELSE userGroups)
  <2>1. /\ auth' = [NoAuth EXCEPT !.pc = "answered", !.config = config]
        /\ UNCHANGED <<requested, userGroups, cached>>
    BY <1>9 DEF Decide
  <2> HIDE DEF config
  <2>2. IsAuth(auth') /\ auth'.pc = "answered"
    BY <2>1 DEF IsAuth, NoAuth
  <2> QED BY <1>3, <1>4, <2>1, <2>2 DEF Requesting
<1>10. CASE Return
  <2>1. auth' = NoAuth /\ requested' = Since({}) /\ UNCHANGED <<userGroups, cached>>
    BY <1>10 DEF Return
  <2>2. IsAuth(auth') /\ auth'.pc = "idle"
    BY <2>1 DEF IsAuth, NoAuth
  <2> QED BY <1>3, <2>1, <2>2, WindowBegins DEF Requesting
<1> QED BY <1>5, <1>6, <1>7, <1>8, <1>9, <1>10 DEF AuthStep

LEMMA WindowStep == WindowInv /\ [Next]_vars => WindowInv'
<1> SUFFICES ASSUME WindowInv, [Next]_vars PROVE WindowInv'
  OBVIOUS
<1>1. CASE UNCHANGED <<groups, update, auth, userGroups, cached, polled, requested>>
  BY <1>1 DEF WindowInv, ShapeInv, Polling, Requesting
<1>2. (\E f \in Revisions : EditFile(f)) \/ UNCHANGED vars
        => UNCHANGED <<groups, update, auth, userGroups, cached, polled, requested>>
  BY DEF EditFile, vars, adminVars
<1> QED BY <1>1, <1>2, WindowAssigns, WindowUpdates, WindowAnswers DEF Next

-----------------------------------------------------------------------------
LEMMA DecideExplained ==
    ASSUME WindowInv, Decide
    PROVE  LET window == IF auth.pc = "decide" THEN requested ELSE cached
           IN  \E gs \in SUBSET window.some :
                  window.all \subseteq gs /\ auth'.config = GetUserConfig(confFile, gs)
<1> DEFINE gs == IF auth.pc = "decide" THEN auth.groups ELSE userGroups
           window == IF auth.pc = "decide" THEN requested ELSE cached
<1>1. Within(gs, window)
  BY DEF WindowInv, Requesting
<1>2. auth' = [NoAuth EXCEPT !.pc = "answered", !.config = GetUserConfig(confFile, gs)]
  BY DEF Decide
<1>3. auth'.config = GetUserConfig(confFile, gs)
  BY <1>2 DEF NoAuth
<1> QED BY <1>1, <1>3 DEF Within

(* For every set of groups and every text: what a request is answered is   *)
(* the policy in force for groups the user held in the time that counts,   *)
(* however updates, requests, failed calls and the administrators' changes *)
(* interleave (config.go:47-128, 274-294).                                 *)
THEOREM AnswersExplained == Spec => AccessExplained
<1>1. ASSUME WindowInv, [Next]_vars, auth.pc \in {"decide", "decideCached"},
             auth'.pc = "answered"
      PROVE  Decide
  <2>1. CASE UNCHANGED auth
    BY <1>1, <2>1
  <2>2. auth' # auth => AuthStep \/ GroupsUnanswered
    BY <1>1 DEF Next, UpdateStep, UpdateCallFails, EditFile, AssignGroup, StartUpdate, SetConfFile,
           EndUpdate, MakeChain, Fail, UpdateConfig, FetchGroup, updateUnchanged, vars
  <2>3. CASE AuthStep \/ GroupsUnanswered
    BY <1>1, <2>3 DEF AuthStep, GroupsUnanswered, StartRequest, GroupsAnswered, StoreGroups, Return
  <2> QED BY <2>1, <2>2, <2>3
<1> DEFINE Explained ==
        auth.pc \in {"decide", "decideCached"} /\ auth'.pc = "answered" =>
          LET window == IF auth.pc = "decide" THEN requested ELSE cached
          IN  \E gs \in SUBSET window.some :
                 window.all \subseteq gs /\ auth'.config = GetUserConfig(confFile, gs)
<1>2. WindowInv /\ [Next]_vars => Explained
  BY <1>1, DecideExplained
<1> HIDE DEF Explained
<1>3. Spec => [][Explained]_vars
  BY <1>2, WindowInit, WindowStep, PTL DEF Spec
<1> QED BY <1>3 DEF AccessExplained, Explained

-----------------------------------------------------------------------------
(***************************************************************************)
(* The file in force, and the one an update works on, are texts the parser *)
(* took; from the network call on there is one, and from the first boot on *)
(* one is in force.                                                        *)
(***************************************************************************)
Texts == Files \cup Revisions

Confs == {Parsed[f] : f \in Texts} \ {None}

Loading(u) ==
    /\ u.conf \in Confs \cup {None}
    /\ u.pc \in {"network", "groups", "chains"} \/ u.found => u.conf # None
    /\ u.pc \in {"groups", "chains"} => confFile # None
    /\ u.snapshot \subseteq Groups

LoadInv ==
    /\ file \in Texts
    /\ Loading(update)
    /\ confFile \in Confs \cup {None}
    /\ booted \in BOOLEAN /\ (booted => confFile # None)

Chains == {None} \cup (SUBSET (Nets \X (Ports \cup {0})))

HeldInv ==
    /\ userGroups \subseteq Groups
    /\ auth.pc # "idle" => booted
    /\ auth.groups \subseteq Groups /\ auth.config \in UserConfigs \cup {None}
    /\ chain \in Chains

CountInv == changes \in 0..MaxChanges /\ failures \in 0..MaxFailures

PolicyInv == LoadInv /\ HeldInv /\ CountInv

LEMMA ConfsParsed ==
    ASSUME NEW conf \in Confs
    PROVE  /\ IsConf(conf) /\ conf.order \in Seq(Groups) /\ conf # None
           /\ \A f \in Texts : Parsed[f] = conf =>
                 IsText(f) /\ ParseConfig(f) # None /\ ParseConfig(f) = conf
<1>1. \A f \in Texts : Parsed[f] = ParseConfig(f) /\ IsText(f)
  BY ConstantsAssumption DEF Parsed, Texts
<1>2. PICK f \in Texts : conf = ParseConfig(f)
  BY <1>1 DEF Confs
<1>3. conf # None
  BY DEF Confs
<1>4. ParsedSo(f, conf)
  BY <1>1, <1>2, <1>3, ParsedLines
<1>5. IsConf(conf) /\ conf.order \in Seq(Groups)
  BY <1>1, <1>4, ParsedTyped DEF ParsedSo
<1> QED BY <1>1, <1>3, <1>5

LEMMA PolicyAnswer ==
    ASSUME NEW conf \in Confs, NEW gs \in SUBSET Groups
    PROVE  /\ GetUserConfig(conf, gs) \in UserConfigs \cup {None}
           /\ ChainOf(GetUserConfig(conf, gs)) \in Chains
<1>1. IsConf(conf) /\ conf.order \in Seq(Groups)
  BY ConfsParsed
<1> DEFINE config == GetUserConfig(conf, gs)
<1>2. /\ config \in UserConfigs \cup {None}
      /\ config # None => Rules(config) \subseteq Nets \X (Ports \cup {0})
  BY <1>1, PolicyTyped
<1> HIDE DEF config
<1>3. ChainOf(config) \in Chains
  BY <1>2 DEF ChainOf, Chains
<1> QED BY <1>2, <1>3 DEF config

LEMMA PolicyInit == Init => PolicyInv
<1> SUFFICES ASSUME Init PROVE PolicyInv
  OBVIOUS
<1>1. update = NoUpdate /\ auth = NoAuth
  BY DEF Init
<1>2. /\ update.conf = None /\ update.pc = "idle" /\ update.found = FALSE
      /\ update.snapshot = {}
  BY <1>1 DEF NoUpdate
<1>3. auth.pc = "idle" /\ auth.groups = {} /\ auth.config = None
  BY <1>1 DEF NoAuth
<1>4. LoadInv
  BY <1>2 DEF Init, LoadInv, Loading, Texts
<1>5. HeldInv
  BY <1>3 DEF Init, HeldInv, Chains
<1>6. CountInv
  BY ConstantsAssumption DEF Init, CountInv
<1> QED BY <1>4, <1>5, <1>6 DEF PolicyInv

(* Calls that fail and changes are counted up to their bounds.             *)
LEMMA CountStep == CountInv /\ [Next]_vars => CountInv'
<1> SUFFICES ASSUME CountInv, [Next]_vars PROVE CountInv'
  OBVIOUS
<1> USE ConstantsAssumption DEF CountInv
<1>1. CASE UNCHANGED <<changes, failures>>
  BY <1>1
<1>2. CASE (\E f \in Revisions : EditFile(f)) \/ (\E g \in Groups : AssignGroup(g))
  BY <1>2 DEF EditFile, AssignGroup
<1>3. CASE UpdateCallFails \/ GroupsUnanswered
  BY <1>3 DEF UpdateCallFails, GroupsUnanswered, authUnchanged
<1>4. UpdateStep \/ AuthStep \/ UNCHANGED vars => UNCHANGED <<changes, failures>>
  BY DEF UpdateStep, StartUpdate, SetConfFile, EndUpdate, MakeChain, Fail, UpdateConfig, FetchGroup,
         AuthStep, StartRequest, GroupsAnswered, StoreGroups, Decide, Return, authUnchanged,
         adminVars, vars
<1> QED BY <1>1, <1>2, <1>3, <1>4 DEF Next

LEMMA PolicyUpdates ==
    ASSUME WindowInv, LoadInv, HeldInv, UpdateStep \/ UpdateCallFails
    PROVE  LoadInv' /\ HeldInv'
<1>1. /\ groups \subseteq Groups /\ IsUpdate(update) /\ update.todo \subseteq Groups
      /\ update = [pc |-> update.pc, conf |-> update.conf, todo |-> update.todo,
                   snapshot |-> update.snapshot, found |-> update.found, err |-> update.err]
  BY DEF WindowInv, ShapeInv, IsUpdate
<1>2. UNCHANGED <<file, auth>>
  BY DEF UpdateStep, UpdateCallFails, StartUpdate, SetConfFile, EndUpdate, MakeChain, Fail,
         UpdateConfig, FetchGroup, adminVars, updateUnchanged
<1>3. ASSUME UNCHANGED <<confFile, booted>>, Loading(update)'
      PROVE  LoadInv'
  BY <1>2, <1>3 DEF LoadInv
<1>4. ASSUME UNCHANGED <<userGroups, booted, chain>> PROVE HeldInv'
  BY <1>2, <1>4 DEF HeldInv
<1>5. Loading(NoUpdate) /\ Loading(NoUpdate)'
  BY DEF Loading, NoUpdate
<1>6. CASE StartUpdate
  <2>1. /\ update' = [NoUpdate EXCEPT !.pc = IF Parsed[file] = None THEN "failed" ELSE "network",
                                      !.conf = Parsed[file]]
        /\ UNCHANGED <<confFile, userGroups, booted, chain>>
    BY <1>6 DEF StartUpdate
  <2>2. Parsed[file] \in Confs \cup {None}
    BY DEF LoadInv, Confs
  <2>3. Loading(update)'
    <3>1. /\ update'.conf = Parsed[file] /\ update'.found = FALSE /\ update'.snapshot = {}
          /\ update'.pc = IF Parsed[file] = None THEN "failed" ELSE "network"
      BY <2>1 DEF NoUpdate
    <3> QED BY <2>2, <3>1 DEF Loading
  <2> QED BY <1>3, <1>4, <2>1, <2>3
<1>7. CASE SetConfFile
  <2>1. /\ update' = [update EXCEPT !.pc = "groups", !.todo = Groups \cap DOMAIN update.conf.of]
        /\ update.pc = "network" /\ confFile' = update.conf
        /\ UNCHANGED <<userGroups, booted, chain>>
    BY <1>7 DEF SetConfFile, Updating
  <2>2. /\ update'.pc = "groups" /\ update'.conf = update.conf /\ update'.found = update.found
        /\ update'.snapshot = update.snapshot
    BY <1>1, <2>1
  <2>3. update.conf \in Confs /\ update.conf # None
    BY <2>1 DEF LoadInv, Loading
  <2>4. Loading(update)'
    BY <2>1, <2>2, <2>3 DEF LoadInv, Loading
  <2> QED BY <1>2, <1>4, <2>1, <2>3, <2>4 DEF LoadInv
<1>8. ASSUME NEW g \in Groups, FetchGroup(g) PROVE LoadInv' /\ HeldInv'
  <2>1. /\ update' = [update EXCEPT !.todo = @ \ {g}, !.snapshot = @ \cup (groups \cap {g})]
        /\ UNCHANGED <<confFile, userGroups, booted, chain>>
    BY <1>8 DEF FetchGroup
  <2>2. /\ update'.pc = update.pc /\ update'.conf = update.conf /\ update'.found = update.found
        /\ update'.snapshot = update.snapshot \cup (groups \cap {g})
    BY <1>1, <2>1
  <2>3. Loading(update)'
    BY <1>1, <2>1, <2>2 DEF LoadInv, Loading
  <2> QED BY <1>3, <1>4, <2>1, <2>3
<1>9. CASE UpdateCallFails
  <2>1. /\ update' = [NoUpdate EXCEPT !.pc = "failed"]
        /\ UNCHANGED <<confFile, userGroups, booted, chain>>
    BY <1>9 DEF UpdateCallFails
  <2>2. /\ update'.conf = None /\ update'.found = FALSE /\ update'.snapshot = {}
        /\ update'.pc = "failed"
    BY <2>1 DEF NoUpdate
  <2>3. Loading(update)'
    BY <2>2 DEF Loading
  <2> QED BY <1>3, <1>4, <2>1, <2>3
<1>10. CASE EndUpdate
  <2>1. /\ update.pc = "groups" /\ userGroups' = update.snapshot
        /\ update' = [update EXCEPT !.pc = IF booted THEN "apply" ELSE "chains", !.found = TRUE]
        /\ UNCHANGED <<confFile, booted, chain>>
    BY <1>10 DEF EndUpdate, Updating
  <2>2. /\ update'.pc \in {"apply", "chains"} /\ update'.conf = update.conf
        /\ update'.snapshot = update.snapshot
    BY <1>1, <2>1
  <2>3. Loading(update)'
    BY <2>1, <2>2 DEF LoadInv, Loading
  <2>4. HeldInv'
    BY <1>2, <2>1 DEF HeldInv, LoadInv, Loading
  <2> QED BY <1>3, <2>1, <2>3, <2>4
<1>11. ASSUME update.conf # None PROVE ChainOf(Found) \in Chains
  <2>1. update.conf \in Confs /\ update.snapshot \in SUBSET Groups
    BY <1>11 DEF LoadInv, Loading
  <2> QED BY <2>1, PolicyAnswer DEF Found
<1>12. CASE MakeChain
  <2>1. /\ update.pc = "chains" /\ chain' = ChainOf(Found) /\ booted' = TRUE
        /\ update' = NoUpdate /\ UNCHANGED <<confFile, userGroups>>
    BY <1>12 DEF MakeChain, Updating
  <2>2. update.conf # None /\ confFile # None
    BY <2>1 DEF LoadInv, Loading
  <2>3. chain' \in Chains
    BY <1>11, <2>1, <2>2
  <2>4. LoadInv'
    BY <1>2, <1>5, <2>1, <2>2 DEF LoadInv
  <2>5. HeldInv'
    BY <1>2, <2>1, <2>3 DEF HeldInv
  <2> QED BY <2>4, <2>5
<1>13. CASE Fail
  <2>1. /\ update' = IF booted THEN [update EXCEPT !.pc = "apply", !.err = TRUE]
                               ELSE [update EXCEPT !.pc = "dead"]
        /\ UNCHANGED <<confFile, userGroups, booted, chain>>
    BY <1>13 DEF Fail
  <2>2. /\ update'.pc \in {"apply", "dead"} /\ update'.conf = update.conf
        /\ update'.found = update.found /\ update'.snapshot = update.snapshot
    BY <1>1, <2>1
  <2>3. Loading(update)'
    BY <2>2 DEF LoadInv, Loading
  <2> QED BY <1>3, <1>4, <2>1, <2>3
<1>14. CASE UpdateConfig
  <2>1. /\ chain' = IF update.found /\ update.err THEN ChainOf(Found) ELSE chain
        /\ update' = NoUpdate /\ UNCHANGED <<confFile, userGroups, booted>>
    BY <1>14 DEF UpdateConfig
  <2>2. chain' \in Chains
    BY <1>11, <2>1 DEF LoadInv, Loading, HeldInv
  <2>3. HeldInv'
    BY <1>2, <2>1, <2>2 DEF HeldInv
  <2> QED BY <1>3, <1>5, <2>1, <2>3
<1> QED BY <1>6, <1>7, <1>8, <1>9, <1>10, <1>12, <1>13, <1>14 DEF UpdateStep

LEMMA PolicyAnswers ==
    ASSUME WindowInv, LoadInv, HeldInv, AuthStep \/ GroupsUnanswered
    PROVE  LoadInv' /\ HeldInv'
<1>1. /\ groups \subseteq Groups
      /\ auth = [pc |-> auth.pc, groups |-> auth.groups, config |-> auth.config]
  BY DEF WindowInv, ShapeInv, IsAuth
<1>2. UNCHANGED <<file, confFile, booted, update, chain>>
  BY DEF AuthStep, GroupsUnanswered, StartRequest, GroupsAnswered, StoreGroups, Decide, Return,
         authUnchanged
<1>3. LoadInv'
  BY <1>2 DEF LoadInv, Loading
<1>4. ASSUME userGroups' \subseteq Groups, auth'.pc # "idle" => booted,
             auth'.groups \subseteq Groups, auth'.config \in UserConfigs \cup {None}
      PROVE  HeldInv'
  BY <1>2, <1>4 DEF HeldInv
<1>5. CASE StartRequest \/ Return
  <2>1. /\ (auth' = [NoAuth EXCEPT !.pc = "ask"] /\ booted) \/ auth' = NoAuth
        /\ UNCHANGED userGroups
    BY <1>5 DEF StartRequest, Return
  <2>2. /\ auth'.groups = {} /\ auth'.config = None
        /\ auth'.pc = "idle" \/ booted
    BY <2>1 DEF NoAuth
  <2> QED BY <1>3, <1>4, <2>1, <2>2 DEF HeldInv
<1>6. CASE GroupsAnswered
  <2>1. /\ auth' = [auth EXCEPT !.pc = "store", !.groups = groups]
        /\ auth.pc = "ask" /\ UNCHANGED userGroups
    BY <1>6 DEF GroupsAnswered
  <2>2. auth'.groups = groups /\ auth'.config = auth.config
    BY <1>1, <2>1
  <2> QED BY <1>1, <1>3, <1>4, <2>1, <2>2 DEF HeldInv
<1>7. CASE GroupsUnanswered
  <2>1. /\ auth' = [auth EXCEPT !.pc = "decideCached"]
        /\ auth.pc = "ask" /\ UNCHANGED userGroups
    BY <1>7 DEF GroupsUnanswered
  <2>2. auth'.groups = auth.groups /\ auth'.config = auth.config
    BY <1>1, <2>1
  <2> QED BY <1>3, <1>4, <2>1, <2>2 DEF HeldInv
<1>8. CASE StoreGroups
  <2>1. /\ auth' = [auth EXCEPT !.pc = "decide"]
        /\ auth.pc = "store" /\ userGroups' = auth.groups
    BY <1>8 DEF StoreGroups
  <2>2. auth'.groups = auth.groups /\ auth'.config = auth.config
    BY <1>1, <2>1
  <2> QED BY <1>3, <1>4, <2>1, <2>2 DEF HeldInv
<1>9. CASE Decide
  <2> DEFINE gs == IF auth.pc = "decide" THEN auth.groups ELSE userGroups
             config == GetUserConfig(confFile, gs)
  <2>1. /\ auth' = [NoAuth EXCEPT !.pc = "answered", !.config = config]
        /\ auth.pc # "idle" /\ UNCHANGED userGroups
    BY <1>9 DEF Decide
  <2>2. confFile \in Confs /\ gs \in SUBSET Groups /\ booted
    BY <2>1 DEF LoadInv, HeldInv
  <2>3. config \in UserConfigs \cup {None}
    <3> HIDE DEF gs
    <3> QED BY <2>2, PolicyAnswer
  <2> HIDE DEF config
  <2>4. auth'.groups = {} /\ auth'.config = config
    BY <2>1 DEF NoAuth
  <2> QED BY <1>3, <1>4, <2>1, <2>2, <2>3, <2>4 DEF HeldInv
<1> QED BY <1>5, <1>6, <1>7, <1>8, <1>9 DEF AuthStep

LEMMA PolicyStep == WindowInv /\ PolicyInv /\ [Next]_vars => PolicyInv'
<1> SUFFICES ASSUME WindowInv, PolicyInv, [Next]_vars PROVE PolicyInv'
  OBVIOUS
<1>1. CountInv'
  BY CountStep DEF PolicyInv
<1>2. CASE UpdateStep \/ UpdateCallFails
  BY <1>1, <1>2, PolicyUpdates DEF PolicyInv
<1>3. CASE AuthStep \/ GroupsUnanswered
  BY <1>1, <1>3, PolicyAnswers DEF PolicyInv
<1>4. CASE UNCHANGED <<confFile, userGroups, booted, update, auth, chain>> /\ file' \in Texts
  <2>1. LoadInv'
    BY <1>4 DEF PolicyInv, LoadInv, Loading
  <2>2. HeldInv'
    BY <1>4 DEF PolicyInv, HeldInv
  <2> QED BY <1>1, <2>1, <2>2 DEF PolicyInv
<1>5. (\E f \in Revisions : EditFile(f)) \/ (\E g \in Groups : AssignGroup(g)) \/ UNCHANGED vars
        => /\ UNCHANGED <<confFile, userGroups, booted, update, auth, chain>>
           /\ file' \in Texts
  BY DEF EditFile, AssignGroup, vars, adminVars, PolicyInv, LoadInv, Texts
<1> QED BY <1>2, <1>3, <1>4, <1>5 DEF Next

LEMMA PolicyAlways == Spec => [](WindowInv /\ PolicyInv)
BY WindowInit, WindowStep, PolicyInit, PolicyStep, PTL DEF Spec

(* For every set of groups and every text: every variable keeps its shape, *)
(* and a server that has booted has a file in force, whatever the parser   *)
(* refuses and whichever calls fail (config.go:47-128).                    *)
THEOREM TypeCorrect == Spec => []TypeOK
<1>1. WindowInv /\ PolicyInv => TypeOK
  <2> SUFFICES ASSUME WindowInv, PolicyInv PROVE TypeOK
    OBVIOUS
  <2>1. /\ update.conf = None \/ IsConf(update.conf)
        /\ confFile = None \/ IsConf(confFile)
    BY ConfsParsed DEF PolicyInv, LoadInv, Loading
  <2>2. /\ groups \subseteq Groups
        /\ update.pc \in {"idle", "network", "groups", "chains", "apply", "failed", "dead"}
        /\ update.todo \subseteq Groups
        /\ auth.pc \in {"idle", "ask", "store", "decide", "decideCached", "answered"}
    BY DEF WindowInv, ShapeInv, IsUpdate, IsAuth
  <2>3. /\ file \in Files \cup Revisions /\ update.snapshot \subseteq Groups
        /\ booted \in BOOLEAN /\ (booted => confFile # None)
    BY DEF PolicyInv, LoadInv, Loading, Texts
  <2>4. /\ userGroups \subseteq Groups /\ auth.groups \subseteq Groups
        /\ auth.config \in UserConfigs \cup {None}
        /\ chain = None \/ chain \subseteq Nets \X (Ports \cup {0})
    BY DEF PolicyInv, HeldInv, Chains
  <2>5. changes \in 0..MaxChanges /\ failures \in 0..MaxFailures
    BY DEF PolicyInv, CountInv
  <2> QED BY <2>1, <2>2, <2>3, <2>4, <2>5 DEF TypeOK
<1> QED BY <1>1, PolicyAlways, PTL

(* For every text an update works on and every set of groups: the policy   *)
(* is the one its lines give, but for what the parser has dropped          *)
(* (parser.go:31-83, configfile.go:78-194 and 345-409).                    *)
THEOREM PolicyAsWritten == Spec => []RulesOfPolicy
<1>1. RulesOfPolicy
  <2> SUFFICES ASSUME NEW f \in Texts, Parsed[f] # None, NEW gs \in SUBSET Groups
               PROVE  AsWritten(GetUserConfig(Parsed[f], gs), f, gs)
    BY DEF RulesOfPolicy, Followed, Texts
  <2>1. Parsed[f] = ParseConfig(f) /\ IsText(f)
    BY ConstantsAssumption DEF Parsed, Texts
  <2> QED BY <2>1, PolicyReadOff
<1> QED BY <1>1, PTL

===============================================================================
