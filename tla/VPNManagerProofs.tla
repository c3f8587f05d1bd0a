--------------------------- MODULE VPNManagerProofs ---------------------------
(***************************************************************************)
(* What holds of VPNManager for every set of clients, users and addresses, *)
(* every bound on renegotiations and any call of iptables that may fail.   *)
(***************************************************************************)
EXTENDS VPNManager, SequenceTheorems, FiniteSetTheorems, TLAPS

(* The ends of a typed FIFO.                                               *)
LEMMA QueueEnds ==
    ASSUME NEW S, NEW q \in Seq(S), q # <<>>
    PROVE  Head(q) \in S /\ Tail(q) \in Seq(S)
BY HeadTailProperties

(* What a line of the socket may say: an event of a client, or a reply.    *)
Says(type, c, a) ==
    \/ type \in {"CONNECT", "REAUTH", "DISCONNECT"} /\ c \in Clients /\ a = None
    \/ type = "ADDRESS" /\ c \in Clients /\ a \in Addresses
    \/ type = "REPLY" /\ c = None /\ a = None

LEMMA AnnounceType ==
    ASSUME events \in Seq(Event), NEW type, NEW c, NEW a,
           Announce(type, c, a), Says(type, c, a)
    PROVE  events' \in Seq(Event)
<1>1. [type |-> type, cid |-> c, address |-> a] \in Event
  BY DEF Event, Says
<1> QED BY <1>1, AppendProperties DEF Announce

(* A command sent to a client of this instance is a Command.               *)
LEMMA SendType ==
    ASSUME commands \in Seq(Command), NEW c \in Clients,
           NEW verb \in {"client-auth", "client-deny", "client-kill"}, Send(verb, c)
    PROVE  commands' \in Seq(Command)
<1>1. [verb |-> verb, cid |-> c] \in Command
  BY DEF Command
<1> QED BY <1>1, AppendProperties DEF Send

(* The kernel's counts stay counts: no rule is deleted that is not there.  *)
LEMMA RuleType ==
    ASSUME NEW rules \in [Addresses -> [Users -> Nat]], NEW u \in Users, NEW a \in Addresses
    PROVE  /\ WithRule(rules, u, a) \in [Addresses -> [Users -> Nat]]
           /\ rules[a][u] > 0 => WithoutRule(rules, u, a) \in [Addresses -> [Users -> Nat]]
<1>1. rules[a][u] \in Nat /\ rules[a] \in [Users -> Nat]
  OBVIOUS
<1>2. rules[a][u] > 0 => rules[a][u] - 1 \in Nat
  BY <1>1
<1>3. [rules EXCEPT ![a][u] = @ + 1] \in [Addresses -> [Users -> Nat]]
  BY <1>1
<1>4. rules[a][u] > 0 => [rules EXCEPT ![a][u] = @ - 1] \in [Addresses -> [Users -> Nat]]
  BY <1>1, <1>2
<1> QED BY <1>3, <1>4 DEF WithRule, WithoutRule

(* The firewall's variables are typed; so are what its operations leave.   *)
FirewallTyped ==
    /\ fwConnections \in [Addresses -> Users \cup {None}]
    /\ forward \in [Addresses -> [Users -> Nat]]
    /\ skew \in [Addresses -> [Users -> Int]]
    /\ unserved \subseteq Clients

LEMMA SkewType ==
    ASSUME NEW s \in [Addresses -> [Users -> Int]], NEW u \in Users, NEW a \in Addresses
    PROVE  /\ [s EXCEPT ![a][u] = @ + 1] \in [Addresses -> [Users -> Int]]
           /\ [s EXCEPT ![a][u] = @ - 1] \in [Addresses -> [Users -> Int]]
<1>1. s[a][u] \in Int /\ s[a] \in [Users -> Int]
  OBVIOUS
<1>2. s[a][u] + 1 \in Int /\ s[a][u] - 1 \in Int
  BY <1>1
<1> QED BY <1>1, <1>2

(* What ConnectUser comes to: the failed delete, the rule, the record      *)
(* without a rule.                                                         *)
Cleared(a) ==
    IF fwConnections[a] = None THEN forward ELSE WithoutRule(forward, fwConnections[a], a)

LEMMA ConnectOutcomes ==
    ASSUME NEW c \in Clients, NEW a \in Addresses, ConnectUser(c, a)
    PROVE  \/ /\ fwConnections[a] # None /\ DeleteMayFail(fwConnections[a], a)
              /\ unserved' = unserved \cup {c}
              /\ UNCHANGED <<fwConnections, forward, skew>>
           \/ /\ fwConnections[a] # None => CanDelete(fwConnections[a], a)
              /\ fwConnections' = [fwConnections EXCEPT ![a] = clients[c].user]
              /\ forward' = WithRule(Cleared(a), clients[c].user, a)
              /\ UNCHANGED <<skew, unserved>>
           \/ /\ fwConnections[a] # None => CanDelete(fwConnections[a], a)
              /\ fwConnections' = [fwConnections EXCEPT ![a] = clients[c].user]
              /\ a \in Fallible
              /\ forward' = Cleared(a)
              /\ skew' = [skew EXCEPT ![a][clients[c].user] = @ - 1]
              /\ unserved' = unserved \cup {c}
BY DEF ConnectUser, Cleared

LEMMA ClearedType ==
    ASSUME FirewallTyped, NEW a \in Addresses,
           fwConnections[a] # None => CanDelete(fwConnections[a], a)
    PROVE  Cleared(a) \in [Addresses -> [Users -> Nat]]
<1>1. CASE fwConnections[a] = None
  BY <1>1 DEF Cleared, FirewallTyped
<1>2. CASE fwConnections[a] # None
  <2>1. fwConnections[a] \in Users /\ forward[a][fwConnections[a]] > 0
    BY <1>2 DEF FirewallTyped, CanDelete
  <2>2. WithoutRule(forward, fwConnections[a], a) \in [Addresses -> [Users -> Nat]]
    BY <2>1, RuleType DEF FirewallTyped
  <2> QED BY <1>2, <2>2 DEF Cleared
<1> QED BY <1>1, <1>2

LEMMA ConnectUserType ==
    ASSUME FirewallTyped, NEW c \in Clients, NEW a \in Addresses, clients[c].user \in Users,
           ConnectUser(c, a)
    PROVE  FirewallTyped'
<1>1. CASE UNCHANGED <<fwConnections, forward, skew>> /\ unserved' = unserved \cup {c}
  BY <1>1 DEF FirewallTyped
<1>2. ASSUME fwConnections[a] # None => CanDelete(fwConnections[a], a),
             fwConnections' = [fwConnections EXCEPT ![a] = clients[c].user]
      PROVE  /\ fwConnections' \in [Addresses -> Users \cup {None}]
             /\ Cleared(a) \in [Addresses -> [Users -> Nat]]
             /\ WithRule(Cleared(a), clients[c].user, a) \in [Addresses -> [Users -> Nat]]
  <2>1. Cleared(a) \in [Addresses -> [Users -> Nat]]
    BY <1>2, ClearedType
  <2>2. fwConnections' \in [Addresses -> Users \cup {None}]
    BY <1>2 DEF FirewallTyped
  <2> QED BY <2>1, <2>2, RuleType
<1>3. [skew EXCEPT ![a][clients[c].user] = @ - 1] \in [Addresses -> [Users -> Int]]
  BY SkewType DEF FirewallTyped
<1> QED BY <1>1, <1>2, <1>3, ConnectOutcomes DEF FirewallTyped

(* What DisconnectUser comes to for the user that is recorded.             *)
LEMMA DisconnectUserType ==
    ASSUME FirewallTyped, NEW u \in Users, NEW a \in Addresses, DisconnectUser(u, a)
    PROVE  FirewallTyped'
<1>1. CASE UNCHANGED firewallVars
  BY <1>1 DEF firewallVars, FirewallTyped
<1>2. CASE fwConnections' = [fwConnections EXCEPT ![a] = None]
  <2>1. fwConnections' \in [Addresses -> Users \cup {None}]
    BY <1>2 DEF FirewallTyped
  <2>2. forward[a][u] > 0 => WithoutRule(forward, u, a) \in [Addresses -> [Users -> Nat]]
    BY RuleType DEF FirewallTyped
  <2>3. [skew EXCEPT ![a][u] = @ + 1] \in [Addresses -> [Users -> Int]]
    BY SkewType DEF FirewallTyped
  <2>4. CASE UNCHANGED firewallVars
    BY <1>1, <2>4
  <2>5. CASE ~UNCHANGED firewallVars
    <3>1. /\ unserved' = unserved
          /\ \/ forward[a][u] > 0 /\ forward' = WithoutRule(forward, u, a) /\ skew' = skew
             \/ forward' = forward /\ skew' = [skew EXCEPT ![a][u] = @ + 1]
      BY <2>5 DEF DisconnectUser, CanDelete
    <3> QED BY <2>1, <2>2, <2>3, <3>1 DEF FirewallTyped
  <2> QED BY <2>4, <2>5
<1> QED BY <1>1, <1>2 DEF DisconnectUser

-----------------------------------------------------------------------------
LEMMA TypeInit == Init => TypeOK
<1> SUFFICES ASSUME Init PROVE TypeOK
  OBVIOUS
<1>1. events \in Seq(Event) /\ commands \in Seq(Command)
  BY EmptySeq DEF Init
<1>2. session \in [Clients -> SessionStates] /\ lease \in [Clients -> Addresses \cup {None}]
  BY DEF Init, SessionStates
<1>3. job \in Job
  BY DEF Init, NoJob, Job
<1>4. forward \in [Addresses -> [Users -> Nat]] /\ skew \in [Addresses -> [Users -> Int]]
  BY DEF Init
<1> QED BY <1>1, <1>2, <1>3, <1>4 DEF Init, TypeOK

(* Steps of OpenVPN keep the types.                                        *)
LEMMA TypePeers == TypeOK /\ Peers => TypeOK'
<1> SUFFICES ASSUME TypeOK, Peers PROVE TypeOK'
  OBVIOUS
<1>1. ASSUME NEW c \in Clients, OvConnect(c) PROVE TypeOK'
  <2>1. session' \in [Clients -> SessionStates]
    BY <1>1 DEF OvConnect, TypeOK, SessionStates
  <2>2. events' \in Seq(Event)
    BY <1>1, AnnounceType DEF OvConnect, Says, TypeOK
  <2> QED BY <1>1, <2>1, <2>2 DEF OvConnect, TypeOK, firewallVars
<1>2. ASSUME NEW c \in Clients, OvReauth(c) PROVE TypeOK'
  <2>1. events' \in Seq(Event)
    BY <1>2, AnnounceType DEF OvReauth, Says, TypeOK
  <2>2. reauths' \in Nat
    BY <1>2 DEF OvReauth, TypeOK
  <2> QED BY <1>2, <2>1, <2>2 DEF OvReauth, TypeOK, firewallVars
<1>3. ASSUME NEW c \in Clients, OvDrop(c) PROVE TypeOK'
  <2>1. session' \in [Clients -> SessionStates] /\ lease' \in [Clients -> Addresses \cup {None}]
    BY <1>3 DEF OvDrop, TypeOK, SessionStates
  <2>2. events' \in Seq(Event)
    BY <1>3, AnnounceType DEF OvDrop, Says, TypeOK
  <2> QED BY <1>3, <2>1, <2>2 DEF OvDrop, TypeOK, firewallVars
<1>4. ASSUME NEW c \in Clients, NEW a \in Addresses, OvEstablish(c, a) PROVE TypeOK'
  <2>1. session' \in [Clients -> SessionStates] /\ lease' \in [Clients -> Addresses \cup {None}]
    BY <1>4 DEF OvEstablish, TypeOK, SessionStates
  <2>2. events' \in Seq(Event)
    BY <1>4, AnnounceType DEF OvEstablish, Says, TypeOK
  <2> QED BY <1>4, <2>1, <2>2 DEF OvEstablish, TypeOK, firewallVars
<1> QED BY <1>1, <1>2, <1>3, <1>4 DEF Peers

LEMMA TypeExecute == TypeOK /\ OvExecute => TypeOK'
<1> SUFFICES ASSUME TypeOK, OvExecute PROVE TypeOK'
  OBVIOUS
<1>1. commands # <<>>
  BY DEF OvExecute, OvClientKill, OvClientAuth, OvClientDeny, NextCommand
<1>2. Head(commands) \in Command /\ Tail(commands) \in Seq(Command)
  BY <1>1, QueueEnds DEF TypeOK
<1>3. ASSUME Reply PROVE commands' \in Seq(Command) /\ events' \in Seq(Event)
  BY <1>2, <1>3, AnnounceType DEF Reply, Says, TypeOK
<1>4. CASE OvClientKill
  <2>1. session' \in [Clients -> SessionStates]
    BY <1>4 DEF OvClientKill, Doom, TypeOK, SessionStates
  <2> QED BY <1>3, <1>4, <2>1 DEF OvClientKill, TypeOK, firewallVars
<1>5. CASE OvClientAuth
  <2>1. session' \in [Clients -> SessionStates]
    BY <1>5 DEF OvClientAuth, TypeOK, SessionStates
  <2> QED BY <1>3, <1>5, <2>1 DEF OvClientAuth, TypeOK, firewallVars
<1>6. CASE OvClientDeny
  <2>1. session' \in [Clients -> SessionStates]
    BY <1>6 DEF OvClientDeny, Doom, TypeOK, SessionStates
  <2> QED BY <1>3, <1>6, <2>1 DEF OvClientDeny, TypeOK, firewallVars
<1> QED BY <1>4, <1>5, <1>6 DEF OvExecute

(* The connection a client id had before is looked up by its own user.     *)
LEMMA ForgottenType ==
    ASSUME TypeOK, NEW c \in Clients
    PROVE  /\ Forgotten(c) \in [Users -> Clients \cup {None}]
           /\ \A reauth \in BOOLEAN : Superseded(c, reauth) \in Clients \cup {None}
<1>1. Forgotten(c) \in [Users -> Clients \cup {None}]
  BY DEF Forgotten, TypeOK
<1>2. Owner[c] \in Users
  BY ConstantsAssumption
<1> QED BY <1>1, <1>2 DEF Superseded

LEMMA TypeHandler == TypeOK /\ Handler => TypeOK'
<1> SUFFICES ASSUME TypeOK, Handler PROVE TypeOK'
  OBVIOUS
<1>1. CASE ReceiveAuth
  <2>1. Head(events) \in Event /\ Tail(events) \in Seq(Event)
    BY <1>1, QueueEnds DEF ReceiveAuth, NextEvent, NextLine, TypeOK
  <2>2. job' \in Job /\ job'.cid \in Clients
    BY <1>1, <2>1 DEF ReceiveAuth, NextEvent, NextLine, Event, Job
  <2> QED BY <1>1, <2>1, <2>2 DEF ReceiveAuth, TypeOK, openvpnVars, firewallVars
<1>2. CASE DenyClient
  <2>1. commands' \in Seq(Command)
    BY <1>2, SendType DEF DenyClient, TypeOK
  <2> QED BY <1>2, <2>1 DEF DenyClient, TypeOK, openvpnVars, firewallVars
<1>3. CASE RegisterClient
  <2> DEFINE c == job.cid
  <2>1. c \in Clients /\ Owner[c] \in Users /\ job.reauth \in BOOLEAN
    BY <1>3, ConstantsAssumption DEF RegisterClient, AfterRegister, TypeOK, Job
  <2>2. clients' \in [Clients -> Connection \cup {None}]
    <3>1. [user |-> Owner[c], address |-> None] \in Connection
      BY <2>1 DEF Connection
    <3> QED BY <1>3, <2>1, <3>1 DEF RegisterClient, AfterRegister, TypeOK
  <2>3. userConnections' \in [Users -> Clients \cup {None}]
    BY <1>3, <2>1, ForgottenType DEF RegisterClient, AfterRegister, TypeOK
  <2>4. Superseded(c, job.reauth) \in Clients \cup {None}
    BY <2>1, ForgottenType
  <2>5. /\ job' \in Job /\ job'.cid \in Clients
        /\ pc' \in {"authorize", "kill"}
        /\ pc' = "kill" => job'.old \in Clients
    BY <1>3, <2>1, <2>4 DEF RegisterClient, AfterRegister, TypeOK, Job
  <2> QED BY <1>3, <2>2, <2>3, <2>5 DEF RegisterClient, AfterRegister, TypeOK, openvpnVars, firewallVars
<1>4. CASE KillSuperseded
  <2>1. commands' \in Seq(Command)
    BY <1>4, SendType DEF KillSuperseded, TypeOK
  <2>2. kills' \in Nat
    BY <1>4 DEF KillSuperseded, TypeOK
  <2> QED BY <1>4, <2>1, <2>2 DEF KillSuperseded, TypeOK, openvpnVars, firewallVars
<1>5. CASE AuthorizeClient
  <2>1. commands' \in Seq(Command)
    BY <1>5, SendType DEF AuthorizeClient, TypeOK
  <2> QED BY <1>5, <2>1 DEF AuthorizeClient, TypeOK, openvpnVars, firewallVars
<1>6. CASE HandleAddress
  <2> DEFINE c == Head(events).cid
             a == Head(events).address
  <2>1. Head(events) \in Event /\ Tail(events) \in Seq(Event)
    BY <1>6, QueueEnds DEF HandleAddress, NextEvent, NextLine, TypeOK
  <2>2. c \in Clients /\ a \in Addresses
    BY <1>6, <2>1 DEF HandleAddress, NextEvent, NextLine, Event
  <2>3. CASE clients[c] = None
    <3>1. pc' = "dead" /\ UNCHANGED <<clients, firewallVars>>
      BY <1>6, <2>3 DEF HandleAddress
    <3> QED BY <1>6, <2>1, <3>1 DEF HandleAddress, TypeOK, openvpnVars, firewallVars
  <2>4. CASE clients[c] # None
    <3>1. clients[c] \in Connection
      BY <2>2, <2>4 DEF TypeOK
    <3>2. clients' \in [Clients -> Connection \cup {None}]
      <4>1. clients' = [clients EXCEPT ![c] = [clients[c] EXCEPT !.address = a]]
        BY <1>6, <2>4 DEF HandleAddress
      <4>2. [clients[c] EXCEPT !.address = a] \in Connection
        BY <2>2, <3>1 DEF Connection
      <4> QED BY <4>1, <4>2 DEF TypeOK
    <3>3. clients[c].user \in Users /\ ConnectUser(c, a) /\ pc' = pc
      BY <1>6, <2>4, <3>1 DEF HandleAddress, Connection
    <3>4. FirewallTyped'
      BY <2>2, <3>3, ConnectUserType DEF FirewallTyped, TypeOK
    <3> QED
      BY <1>6, <2>1, <3>2, <3>3, <3>4 DEF HandleAddress, TypeOK, FirewallTyped, openvpnVars
  <2> QED BY <2>3, <2>4
<1>7. CASE HandleDisconnect
  <2> DEFINE c == Head(events).cid
             conn == clients[c]
  <2>1. Head(events) \in Event /\ Tail(events) \in Seq(Event)
    BY <1>7, QueueEnds DEF HandleDisconnect, NextEvent, NextLine, TypeOK
  <2>2. c \in Clients
    BY <1>7, <2>1 DEF HandleDisconnect, NextEvent, NextLine, Event
  <2>3. CASE conn = None
    BY <1>7, <2>1, <2>3 DEF HandleDisconnect, TypeOK, openvpnVars, firewallVars
  <2>4. CASE conn # None /\ userConnections[conn.user] = None
    <3>1. clients' \in [Clients -> Connection \cup {None}]
      BY <1>7, <2>4 DEF HandleDisconnect, TypeOK
    <3> QED BY <1>7, <2>1, <2>4, <3>1 DEF HandleDisconnect, TypeOK, openvpnVars, firewallVars
  <2>5. CASE conn # None /\ userConnections[conn.user] # None
    <3>1. conn \in Connection
      BY <2>2, <2>5 DEF TypeOK
    <3>2. /\ clients' = [clients EXCEPT ![c] = None]
          /\ userConnections' = IF userConnections[conn.user] = c
                                  THEN [userConnections EXCEPT ![conn.user] = None]
                                  ELSE userConnections
          /\ conn.address = None => UNCHANGED firewallVars
          /\ conn.address # None => DisconnectUser(conn.user, conn.address)
          /\ pc' = pc
      BY <1>7, <2>5 DEF HandleDisconnect, Forgotten
    <3>3. FirewallTyped'
      <4>1. CASE conn.address = None
        BY <3>2, <4>1 DEF TypeOK, FirewallTyped, firewallVars
      <4>2. CASE conn.address # None
        BY <3>1, <3>2, <4>2, DisconnectUserType DEF Connection, FirewallTyped, TypeOK
      <4> QED BY <4>1, <4>2
    <3>4. /\ clients' \in [Clients -> Connection \cup {None}]
          /\ userConnections' \in [Users -> Clients \cup {None}]
      BY <3>2 DEF TypeOK
    <3> QED
      BY <1>7, <2>1, <3>2, <3>3, <3>4
      DEF HandleDisconnect, TypeOK, FirewallTyped, openvpnVars
  <2> QED BY <2>3, <2>4, <2>5
<1>8. CASE ReceiveReply
  <2>1. Tail(events) \in Seq(Event)
    BY <1>8, QueueEnds DEF ReceiveReply, NextLine, TypeOK
  <2>2. NoJob \in Job
    BY DEF NoJob, Job
  <2> QED BY <1>8, <2>1, <2>2 DEF ReceiveReply, TypeOK, openvpnVars, firewallVars
<1> QED BY <1>1, <1>2, <1>3, <1>4, <1>5, <1>6, <1>7, <1>8 DEF Handler

LEMMA TypeStep == TypeOK /\ [Next]_vars => TypeOK'
<1>1. TypeOK /\ UNCHANGED vars => TypeOK'
  BY DEF TypeOK, vars, openvpnVars, firewallVars
<1> QED BY <1>1, TypePeers, TypeExecute, TypeHandler DEF Next

(* The types of every variable hold in every reachable state, whatever the *)
(* order of events, commands, drops and renegotiations.                    *)
THEOREM TypeCorrect == Spec => []TypeOK
BY TypeInit, TypeStep, PTL DEF Spec

-----------------------------------------------------------------------------
(***************************************************************************)
(* The registry.  RegistryConsistent is inductive relative to TypeOK: only *)
(* RegisterClient, HandleAddress and HandleDisconnect write the two maps.  *)
(***************************************************************************)
LEMMA RegistryRegister ==
    ASSUME TypeOK, RegistryConsistent, RegisterClient
    PROVE  RegistryConsistent'
<1> DEFINE c == job.cid
           conn == [user |-> Owner[c], address |-> None]
           registry == IF job.reauth THEN userConnections ELSE Forgotten(c)
<1>1. c \in Clients /\ Owner[c] \in Users
  BY ConstantsAssumption DEF RegisterClient, AfterRegister, TypeOK, Job
<1>2. conn # None
  BY <1>1, ConstantsAssumption
<1>3. /\ clients' = [clients EXCEPT ![c] = conn]
      /\ userConnections' = [registry EXCEPT ![Owner[c]] = c]
  BY DEF RegisterClient, AfterRegister
<1>4. ASSUME NEW u \in Users, registry[u] # None
      PROVE  registry[u] = userConnections[u]
  BY <1>4 DEF Forgotten, TypeOK
<1>5. \A d \in Clients : clients'[d] # None => clients'[d].user = Owner[d]
  BY <1>1, <1>3 DEF RegistryConsistent, TypeOK
<1>6. ASSUME NEW u \in Users, userConnections'[u] # None
      PROVE  clients'[userConnections'[u]] # None /\ Owner[userConnections'[u]] = u
  <2>1. registry \in [Users -> Clients \cup {None}]
    BY <1>1, ForgottenType DEF TypeOK
  <2>2. CASE u = Owner[c]
    BY <1>1, <1>2, <1>3, <2>1, <2>2 DEF TypeOK
  <2>3. CASE u # Owner[c]
    <3>1. userConnections'[u] = userConnections[u] /\ userConnections[u] # None
      BY <1>1, <1>3, <1>4, <1>6, <2>1, <2>3
    <3>2. clients[userConnections[u]] # None /\ Owner[userConnections[u]] = u
      BY <3>1 DEF RegistryConsistent
    <3> QED BY <1>1, <1>3, <2>3, <3>1, <3>2 DEF TypeOK
  <2> QED BY <2>2, <2>3
<1> QED BY <1>5, <1>6 DEF RegistryConsistent

LEMMA RegistryAddress ==
    ASSUME TypeOK, RegistryConsistent, HandleAddress
    PROVE  RegistryConsistent'
<1> DEFINE c == Head(events).cid
           a == Head(events).address
<1>1. Head(events) \in Event
  BY QueueEnds DEF HandleAddress, NextEvent, NextLine, TypeOK
<1>2. c \in Clients /\ a \in Addresses
  BY <1>1 DEF HandleAddress, NextEvent, NextLine, Event
<1>3. CASE clients[c] = None
  BY <1>3 DEF HandleAddress, RegistryConsistent
<1>4. CASE clients[c] # None
  <2> DEFINE conn == [clients[c] EXCEPT !.address = a]
  <2>1. clients' = [clients EXCEPT ![c] = conn] /\ userConnections' = userConnections
    BY <1>4 DEF HandleAddress
  <2>2. clients[c] \in Connection
    BY <1>2, <1>4 DEF TypeOK
  <2>3. conn \in Connection /\ conn.user = clients[c].user
    BY <1>2, <2>2 DEF Connection
  <2>4. conn # None
    BY <2>3, ConstantsAssumption DEF Connection
  <2> QED BY <1>2, <1>4, <2>1, <2>3, <2>4 DEF RegistryConsistent, TypeOK
<1> QED BY <1>3, <1>4

LEMMA RegistryDisconnect ==
    ASSUME TypeOK, RegistryConsistent, HandleDisconnect
    PROVE  RegistryConsistent'
<1> DEFINE c == Head(events).cid
           conn == clients[c]
<1>1. Head(events) \in Event
  BY QueueEnds DEF HandleDisconnect, NextEvent, NextLine, TypeOK
<1>2. c \in Clients
  BY <1>1 DEF HandleDisconnect, NextEvent, NextLine, Event
<1>3. CASE conn = None
  BY <1>3 DEF HandleDisconnect, RegistryConsistent
<1>4. CASE conn # None
  <2>1. /\ clients' = [clients EXCEPT ![c] = None]
        /\ userConnections' = IF userConnections[conn.user] = c
                                THEN [userConnections EXCEPT ![conn.user] = None]
                                ELSE userConnections
    BY <1>2, <1>4, ConstantsAssumption DEF HandleDisconnect, Forgotten
  <2>2. conn.user = Owner[c] /\ Owner[c] \in Users
    BY <1>2, <1>4, ConstantsAssumption DEF RegistryConsistent
  <2>3. ASSUME NEW u \in Users, userConnections'[u] # None
        PROVE  clients'[userConnections'[u]] # None /\ Owner[userConnections'[u]] = u
    <3>1. userConnections'[u] = userConnections[u]
      BY <2>1, <2>2, <2>3 DEF TypeOK
    <3>2. clients[userConnections[u]] # None /\ Owner[userConnections[u]] = u
      BY <2>3, <3>1 DEF RegistryConsistent
    <3>3. userConnections[u] # c
      BY <2>1, <2>2, <2>3, <3>1, <3>2 DEF TypeOK
    <3> QED BY <2>1, <3>1, <3>2, <3>3 DEF TypeOK
  <2> QED BY <1>2, <2>1, <2>3 DEF RegistryConsistent, TypeOK
<1> QED BY <1>3, <1>4

LEMMA RegistryStep == TypeOK /\ RegistryConsistent /\ [Next]_vars => RegistryConsistent'
<1> SUFFICES ASSUME TypeOK, RegistryConsistent, [Next]_vars PROVE RegistryConsistent'
  OBVIOUS
<1> USE DEF RegistryConsistent
<1>1. CASE Peers
  BY <1>1 DEF Peers, OvConnect, OvReauth, OvDrop, OvEstablish
<1>2. CASE OvExecute
  BY <1>2 DEF OvExecute, OvClientKill, OvClientAuth, OvClientDeny
<1>3. CASE ReceiveAuth \/ DenyClient \/ KillSuperseded \/ AuthorizeClient \/ ReceiveReply
  BY <1>3 DEF ReceiveAuth, DenyClient, KillSuperseded, AuthorizeClient, ReceiveReply
<1>4. CASE UNCHANGED vars
  BY <1>4 DEF vars
<1> QED BY <1>1, <1>2, <1>3, <1>4, RegistryRegister, RegistryAddress, RegistryDisconnect
        DEF Next, Handler

(* The registry's two maps agree in every reachable state, however often a *)
(* user reconnects, renegotiates and drops.                                *)
THEOREM RegistryAgrees == Spec => []RegistryConsistent
<1>1. Init => RegistryConsistent
  BY DEF Init, RegistryConsistent
<1> QED BY <1>1, RegistryStep, TypeCorrect, PTL DEF Spec

-----------------------------------------------------------------------------
(***************************************************************************)
(* The firewall.  ForwardMatchesConnections is inductive relative to       *)
(* TypeOK: the two operations keep it for any arguments, and nothing else  *)
(* writes the map or the chain.                                            *)
(***************************************************************************)
(* A rule recorded at an address where no call fails is there to delete.   *)
LEMMA DeleteWorks ==
    ASSUME FirewallTyped, ForwardMatchesConnections, NEW a \in Addresses \ Fallible,
           fwConnections[a] # None
    PROVE  ~DeleteMayFail(fwConnections[a], a)
<1>1. fwConnections[a] \in Users
  BY DEF FirewallTyped
<1>2. PICK u \in Users : u = fwConnections[a]
  BY <1>1
<1>3. forward[a][u] = 1 + skew[a][u] /\ skew[a][u] = 0
  BY <1>2 DEF ForwardMatchesConnections
<1> QED BY <1>2, <1>3 DEF DeleteMayFail

(* The rules at an address once ConnectUser has cleared it are those that  *)
(* failed calls have left there.                                           *)
LEMMA ClearedRules ==
    ASSUME FirewallTyped, ForwardMatchesConnections, NEW a \in Addresses,
           fwConnections[a] # None => CanDelete(fwConnections[a], a)
    PROVE  /\ \A v \in Users : Cleared(a)[a][v] = skew[a][v]
           /\ \A b \in Addresses \ {a} : Cleared(a)[b] = forward[b]
<1>0. forward \in [Addresses -> [Users -> Nat]] /\ skew \in [Addresses -> [Users -> Int]]
  BY DEF FirewallTyped
<1>1. CASE fwConnections[a] = None
  <2>1. Cleared(a) = forward
    BY <1>1 DEF Cleared
  <2>2. None \notin Users
    BY ConstantsAssumption
  <2> QED BY <1>0, <1>1, <2>1, <2>2 DEF ForwardMatchesConnections
<1>2. CASE fwConnections[a] # None
  <2>1. PICK w \in Users : w = fwConnections[a]
    BY <1>2 DEF FirewallTyped
  <2>2. Cleared(a) = [forward EXCEPT ![a][w] = @ - 1]
    BY <1>2, <2>1 DEF Cleared, WithoutRule
  <2>3. /\ forward[a][w] = 1 + skew[a][w]
        /\ \A v \in Users \ {w} : forward[a][v] = 0 + skew[a][v]
    BY <2>1 DEF ForwardMatchesConnections
  <2>4. forward[a] \in [Users -> Nat] /\ skew[a] \in [Users -> Int]
    BY <1>0
  <2>5. Cleared(a)[a] = [forward[a] EXCEPT ![w] = @ - 1]
    BY <1>0, <2>2
  <2>6. Cleared(a)[a][w] = skew[a][w]
    BY <2>3, <2>4, <2>5
  <2>7. ASSUME NEW v \in Users \ {w} PROVE Cleared(a)[a][v] = skew[a][v]
    BY <2>3, <2>4, <2>5
  <2>8. \A b \in Addresses \ {a} : Cleared(a)[b] = forward[b]
    BY <1>0, <2>2
  <2> QED BY <2>6, <2>7, <2>8
<1> QED BY <1>1, <1>2

LEMMA ForwardConnect ==
    ASSUME FirewallTyped, ForwardMatchesConnections, NEW c \in Clients, NEW a \in Addresses,
           clients[c].user \in Users, ConnectUser(c, a)
    PROVE  ForwardMatchesConnections'
<1>1. PICK u \in Users : u = clients[c].user
  OBVIOUS
<1>2. CASE UNCHANGED <<fwConnections, forward, skew>>
  BY <1>2 DEF ForwardMatchesConnections
<1>3. ASSUME fwConnections[a] # None => CanDelete(fwConnections[a], a),
             fwConnections' = [fwConnections EXCEPT ![a] = u],
             \/ forward' = WithRule(Cleared(a), u, a) /\ skew' = skew
             \/ /\ forward' = Cleared(a) /\ a \in Fallible
                /\ skew' = [skew EXCEPT ![a][u] = @ - 1]
      PROVE  ForwardMatchesConnections'
  <2>0. /\ Cleared(a) \in [Addresses -> [Users -> Nat]]
        /\ skew \in [Addresses -> [Users -> Int]]
    BY <1>3, ClearedType DEF FirewallTyped
  <2>1. /\ \A v \in Users : Cleared(a)[a][v] = skew[a][v]
        /\ \A b \in Addresses \ {a} : Cleared(a)[b] = forward[b]
    BY <1>3, ClearedRules
  <2>2. /\ fwConnections'[a] = u
        /\ \A b \in Addresses \ {a} : fwConnections'[b] = fwConnections[b]
    BY <1>3 DEF FirewallTyped
  <2>3. \A b \in Addresses \ {a} : forward'[b] = forward[b] /\ skew'[b] = skew[b]
    BY <1>3, <2>0, <2>1 DEF WithRule
  <2>4. ASSUME NEW v \in Users
        PROVE  forward'[a][v] = (IF u = v THEN 1 ELSE 0) + skew'[a][v]
    <3>1. CASE forward' = WithRule(Cleared(a), u, a) /\ skew' = skew
      <4>1. forward'[a][v] = IF u = v THEN Cleared(a)[a][v] + 1 ELSE Cleared(a)[a][v]
        BY <2>0, <3>1 DEF WithRule
      <4>2. skew[a][v] \in Int /\ Cleared(a)[a][v] = skew[a][v]
        BY <2>0, <2>1
      <4> QED BY <3>1, <4>1, <4>2
    <3>2. CASE forward' = Cleared(a) /\ skew' = [skew EXCEPT ![a][u] = @ - 1]
      <4>1. skew'[a][v] = IF u = v THEN skew[a][v] - 1 ELSE skew[a][v]
        BY <2>0, <3>2
      <4>2. skew[a][v] \in Int /\ Cleared(a)[a][v] = skew[a][v]
        BY <2>0, <2>1
      <4> QED BY <3>2, <4>1, <4>2
    <3> QED BY <1>3, <3>1, <3>2
  <2>5. a \notin Fallible => \A v \in Users : skew'[a][v] = 0
    BY <1>3 DEF ForwardMatchesConnections
  <2> QED BY <2>2, <2>3, <2>4, <2>5 DEF ForwardMatchesConnections
<1> QED BY <1>1, <1>2, <1>3, ConnectOutcomes

LEMMA ForwardDisconnect ==
    ASSUME FirewallTyped, ForwardMatchesConnections, NEW u \in Users, NEW a \in Addresses,
           DisconnectUser(u, a)
    PROVE  ForwardMatchesConnections'
<1>0. forward \in [Addresses -> [Users -> Nat]] /\ skew \in [Addresses -> [Users -> Int]]
  BY DEF FirewallTyped
<1>1. CASE UNCHANGED firewallVars
  BY <1>1 DEF firewallVars, ForwardMatchesConnections
<1>2. CASE ~UNCHANGED firewallVars
  <2>1. /\ fwConnections[a] = u
        /\ fwConnections' = [fwConnections EXCEPT ![a] = None]
        /\ \/ forward' = WithoutRule(forward, u, a) /\ skew' = skew
           \/ /\ DeleteMayFail(u, a) /\ forward' = forward
              /\ skew' = [skew EXCEPT ![a][u] = @ + 1]
    BY <1>2 DEF DisconnectUser
  <2>2. None \notin Users /\ fwConnections[a] # None
    BY <2>1, ConstantsAssumption
  <2>3. /\ fwConnections'[a] = None
        /\ \A b \in Addresses \ {a} : fwConnections'[b] = fwConnections[b]
    BY <2>1 DEF FirewallTyped
  <2>4. \A b \in Addresses \ {a} : forward'[b] = forward[b] /\ skew'[b] = skew[b]
    BY <1>0, <2>1 DEF WithoutRule
  <2>5. ASSUME NEW v \in Users PROVE forward'[a][v] = 0 + skew'[a][v]
    <3>1. forward[a][v] = (IF u = v THEN 1 ELSE 0) + skew[a][v]
      BY <2>1 DEF ForwardMatchesConnections
    <3>2. skew[a][v] \in Int /\ forward[a][v] \in Nat
      BY <1>0
    <3>3. CASE forward' = WithoutRule(forward, u, a) /\ skew' = skew
      <4>1. forward'[a][v] = IF u = v THEN forward[a][v] - 1 ELSE forward[a][v]
        BY <1>0, <3>3 DEF WithoutRule
      <4> QED BY <3>1, <3>2, <3>3, <4>1
    <3>4. CASE forward' = forward /\ skew' = [skew EXCEPT ![a][u] = @ + 1]
      <4>1. skew'[a][v] = IF u = v THEN skew[a][v] + 1 ELSE skew[a][v]
        BY <1>0, <3>4
      <4> QED BY <3>1, <3>2, <3>4, <4>1
    <3> QED BY <2>1, <3>3, <3>4
  <2>6. a \notin Fallible => \A v \in Users : skew'[a][v] = 0
    <3>1. a \notin Fallible => skew' = skew
      BY <2>1, <2>2, DeleteWorks
    <3> QED BY <3>1 DEF ForwardMatchesConnections
  <2>7. ASSUME NEW b \in Addresses, NEW v \in Users
        PROVE  forward'[b][v] = (IF fwConnections'[b] = v THEN 1 ELSE 0) + skew'[b][v]
    BY <2>2, <2>3, <2>4, <2>5 DEF ForwardMatchesConnections
  <2>8. ASSUME NEW b \in Addresses \ Fallible, NEW v \in Users PROVE skew'[b][v] = 0
    BY <2>4, <2>6 DEF ForwardMatchesConnections
  <2> QED BY <2>7, <2>8 DEF ForwardMatchesConnections
<1> QED BY <1>1, <1>2

LEMMA ForwardStep ==
    TypeOK /\ ForwardMatchesConnections /\ [Next]_vars => ForwardMatchesConnections'
<1> SUFFICES ASSUME TypeOK, ForwardMatchesConnections, [Next]_vars
             PROVE  ForwardMatchesConnections'
  OBVIOUS
<1> DEFINE c == Head(events).cid
           a == Head(events).address
           Untouched == UNCHANGED <<fwConnections, forward, skew>>
<1> FirewallTyped
  BY DEF TypeOK, FirewallTyped
<1>0. Untouched => ForwardMatchesConnections'
  BY DEF ForwardMatchesConnections
<1>1. CASE Peers
  BY <1>0, <1>1 DEF Peers, OvConnect, OvReauth, OvDrop, OvEstablish, firewallVars
<1>2. CASE OvExecute
  BY <1>0, <1>2 DEF OvExecute, OvClientKill, OvClientAuth, OvClientDeny, firewallVars
<1>3. CASE \/ ReceiveAuth \/ DenyClient \/ RegisterClient \/ KillSuperseded
           \/ AuthorizeClient \/ ReceiveReply
  BY <1>0, <1>3 DEF ReceiveAuth, DenyClient, RegisterClient, KillSuperseded, AuthorizeClient,
                    ReceiveReply, firewallVars
<1>4. CASE HandleAddress
  <2>1. Head(events) \in Event
    BY <1>4, QueueEnds DEF HandleAddress, NextEvent, NextLine, TypeOK
  <2>2. c \in Clients /\ a \in Addresses
    BY <1>4, <2>1 DEF HandleAddress, NextEvent, NextLine, Event
  <2>3. CASE clients[c] = None
    BY <1>0, <1>4, <2>3 DEF HandleAddress, firewallVars
  <2>4. CASE clients[c] # None
    <3>1. clients[c].user \in Users
      BY <2>2, <2>4 DEF TypeOK, Connection
    <3>2. ConnectUser(c, a)
      BY <1>4, <2>4 DEF HandleAddress
    <3> QED BY <2>2, <3>1, <3>2, ForwardConnect
  <2> QED BY <2>3, <2>4
<1>5. CASE HandleDisconnect
  <2>1. Head(events) \in Event
    BY <1>5, QueueEnds DEF HandleDisconnect, NextEvent, NextLine, TypeOK
  <2>2. c \in Clients
    BY <1>5, <2>1 DEF HandleDisconnect, NextEvent, NextLine, Event
  <2>3. \/ Untouched
        \/ /\ clients[c] # None /\ clients[c].address # None
           /\ DisconnectUser(clients[c].user, clients[c].address)
    BY <1>5 DEF HandleDisconnect, firewallVars
  <2>4. clients[c] # None =>
          clients[c].user \in Users /\ clients[c].address \in Addresses \cup {None}
    BY <2>2 DEF TypeOK, Connection
  <2> QED BY <1>0, <2>3, <2>4, ForwardDisconnect
<1>6. CASE UNCHANGED vars
  BY <1>0, <1>6 DEF vars, firewallVars
<1> QED BY <1>1, <1>2, <1>3, <1>4, <1>5, <1>6 DEF Next, Handler

(* Firewall.connections and the FORWARD chain differ in every reachable    *)
(* state by the calls of iptables that failed after the record was         *)
(* written, and by nothing where none fails (firewall.go:109-119, 132).    *)
THEOREM ForwardAgrees == Spec => []ForwardMatchesConnections
<1>1. Init => ForwardMatchesConnections
  BY ConstantsAssumption DEF Init, ForwardMatchesConnections
<1> QED BY <1>1, ForwardStep, TypeCorrect, PTL DEF Spec

-----------------------------------------------------------------------------
(***************************************************************************)
(* What the steps do to the queues.                                        *)
(***************************************************************************)
LEMMA SendOrder ==
    ASSUME commands \in Seq(Command), NEW c \in Clients,
           NEW verb \in {"client-auth", "client-deny", "client-kill"}, Send(verb, c)
    PROVE  /\ Len(commands) \in Nat
           /\ Len(commands') = Len(commands) + 1
           /\ \A i \in 1..Len(commands) : commands'[i] = commands[i]
           /\ commands'[Len(commands) + 1] = [verb |-> verb, cid |-> c]
<1>1. [verb |-> verb, cid |-> c] \in Command
  BY DEF Command
<1> QED BY <1>1, AppendProperties, LenProperties DEF Send

(* Executing a command shifts the rest by one.                             *)
LEMMA ExecuteOrder ==
    ASSUME commands \in Seq(Command), commands # <<>>, commands' = Tail(commands)
    PROVE  /\ Len(commands) \in Nat /\ 1 \in 1..Len(commands)
           /\ Len(commands') = Len(commands) - 1
           /\ \A i \in 1..Len(commands') :
                  commands'[i] = commands[i + 1] /\ i + 1 \in 1..Len(commands)
           /\ \A i \in 1..Len(commands) : i # 1 =>
                  i - 1 \in 1..Len(commands') /\ commands'[i - 1] = commands[i]
           /\ Head(commands) = commands[1]
<1>1. Len(commands) \in Nat /\ Len(commands) # 0
  BY LenProperties, EmptySeq
<1>2. /\ commands' \in Seq(Command)
      /\ Len(commands') = Len(commands) - 1
      /\ \A i \in 1..Len(commands') : commands'[i] = commands[i + 1]
  BY HeadTailProperties
<1>3. \A i \in 1..Len(commands') : i + 1 \in 1..Len(commands)
  BY <1>1, <1>2
<1>4. \A i \in 1..Len(commands) : i # 1 => i - 1 \in 1..Len(commands') /\ (i - 1) + 1 = i
  BY <1>1, <1>2
<1>5. \A i \in 1..Len(commands) : i # 1 => commands'[i - 1] = commands[i]
  BY <1>2, <1>4
<1> QED BY <1>1, <1>2, <1>3, <1>4, <1>5

LEMMA AnnounceOrder ==
    ASSUME events \in Seq(Event), NEW type, NEW c, NEW a, Announce(type, c, a), Says(type, c, a)
    PROVE  /\ Len(events) \in Nat
           /\ Len(events') = Len(events) + 1
           /\ \A i \in 1..Len(events) : events'[i] = events[i]
           /\ events'[Len(events) + 1] = [type |-> type, cid |-> c, address |-> a]
<1>1. [type |-> type, cid |-> c, address |-> a] \in Event
  BY DEF Event, Says
<1> QED BY <1>1, AppendProperties, LenProperties DEF Announce

LEMMA TakeOrder ==
    ASSUME events \in Seq(Event), events # <<>>, events' = Tail(events)
    PROVE  /\ Len(events) \in Nat /\ 1 \in 1..Len(events)
           /\ Len(events') = Len(events) - 1
           /\ \A i \in 1..Len(events') :
                  events'[i] = events[i + 1] /\ i + 1 \in 1..Len(events)
           /\ \A i \in 1..Len(events) : i # 1 =>
                  i - 1 \in 1..Len(events') /\ events'[i - 1] = events[i]
           /\ Head(events) = events[1]
<1>1. Len(events) \in Nat /\ Len(events) # 0
  BY LenProperties, EmptySeq
<1>2. /\ events' \in Seq(Event)
      /\ Len(events') = Len(events) - 1
      /\ \A i \in 1..Len(events') : events'[i] = events[i + 1]
  BY HeadTailProperties
<1>3. \A i \in 1..Len(events') : i + 1 \in 1..Len(events)
  BY <1>1, <1>2
<1>4. \A i \in 1..Len(events) : i # 1 => i - 1 \in 1..Len(events') /\ (i - 1) + 1 = i
  BY <1>1, <1>2
<1>5. \A i \in 1..Len(events) : i # 1 => events'[i - 1] = events[i]
  BY <1>2, <1>4
<1> QED BY <1>1, <1>2, <1>3, <1>4, <1>5

LEMMA EventTyped ==
    ASSUME TypeOK, NEW i \in 1..Len(events)
    PROVE  /\ events[i] \in Event /\ Says(events[i].type, events[i].cid, events[i].address)
           /\ events[i].type # "REPLY" <=> events[i].cid \in Clients
<1>1. events[i] \in Event
  BY DEF TypeOK
<1> QED BY <1>1, ConstantsAssumption DEF Event, Says

Types == {"CONNECT", "ADDRESS", "REAUTH", "DISCONNECT"}

Verbs == {"client-auth", "client-deny", "client-kill"}

(* OpenVPN announces what becomes of one client.                           *)
Announced(type, c, a) ==
    /\ Announce(type, c, a) /\ Says(type, c, a) /\ c \in Clients
    /\ UNCHANGED <<commands, kills, pc, job, clients, userConnections, fwConnections, forward,
                   skew, unserved>>
    /\ Running
    /\ \A d \in Clients : d # c => session'[d] = session[d] /\ lease'[d] = lease[d]
    /\ \/ /\ type = "CONNECT" /\ a = None
          /\ session[c] = "new" /\ session'[c] = "connecting"
          /\ lease'[c] = lease[c] /\ reauths' = reauths
       \/ /\ type = "ADDRESS" /\ a \in Addresses
          /\ session[c] = "authorized" /\ session'[c] = "established"
          /\ lease'[c] = a /\ reauths' = reauths
          /\ \A d \in Clients : lease[d] # a
       \/ /\ type = "REAUTH" /\ a = None
          /\ session[c] = "established" /\ session'[c] = "established"
          /\ lease'[c] = lease[c] /\ reauths' = reauths + 1
       \/ /\ type = "DISCONNECT" /\ a = None
          /\ session[c] \notin {"new", "closed"} /\ session'[c] = "closed"
          /\ lease'[c] = None /\ reauths' = reauths

LEMMA PeersAnnounce ==
    ASSUME TypeOK, Peers
    PROVE  \E c \in Clients, type \in Types, a \in Addresses \cup {None} : Announced(type, c, a)
<1>0. session \in [Clients -> SessionStates] /\ lease \in [Clients -> Addresses \cup {None}]
  BY DEF TypeOK
<1>1. ASSUME NEW c \in Clients, OvConnect(c) PROVE Announced("CONNECT", c, None)
  BY <1>0, <1>1 DEF OvConnect, MayAct, Announced, Says, firewallVars
<1>2. ASSUME NEW c \in Clients, OvReauth(c) PROVE Announced("REAUTH", c, None)
  BY <1>0, <1>2 DEF OvReauth, MayAct, Announced, Says, firewallVars
<1>3. ASSUME NEW c \in Clients, OvDrop(c) PROVE Announced("DISCONNECT", c, None)
  BY <1>0, <1>3 DEF OvDrop, MayAct, Live, Announced, Says, firewallVars
<1>4. ASSUME NEW c \in Clients, NEW a \in Addresses, OvEstablish(c, a)
      PROVE  Announced("ADDRESS", c, a)
  BY <1>0, <1>4 DEF OvEstablish, MayAct, Announced, Says, firewallVars
<1> QED BY <1>1, <1>2, <1>3, <1>4 DEF Peers, Types

Doomed(status) == IF status \in {"new", "closed"} THEN status ELSE "doomed"

(* OpenVPN executes the next command, which is about one client, and       *)
(* answers it.                                                             *)
Executed(verb, c) ==
    /\ commands # <<>> /\ commands' = Tail(commands)
    /\ Head(commands).verb = verb /\ Head(commands).cid = c
    /\ Announce("REPLY", None, None)
    /\ UNCHANGED <<lease, reauths, kills, pc, job, clients, userConnections, fwConnections,
                   forward, skew, unserved>>
    /\ Running
    /\ \A d \in Clients : d # c => session'[d] = session[d]
    /\ \/ /\ verb \in {"client-kill", "client-deny"}
          /\ session'[c] = Doomed(session[c])
       \/ /\ verb = "client-auth"
          /\ session'[c] = IF session[c] = "connecting" THEN "authorized" ELSE session[c]

LEMMA ExecuteOne ==
    ASSUME TypeOK, OvExecute PROVE \E c \in Clients, verb \in Verbs : Executed(verb, c)
<1>1. session \in [Clients -> SessionStates]
  BY DEF TypeOK
<1>2. commands # <<>>
  BY DEF OvExecute, OvClientKill, OvClientAuth, OvClientDeny, NextCommand
<1>3. Head(commands).cid \in Clients
  <2>1. Head(commands) \in Command
    BY <1>2, QueueEnds DEF TypeOK
  <2> QED BY <2>1 DEF Command
<1> DEFINE c == Head(commands).cid
<1>4. ASSUME NEW d \in Clients, Doom(d)
      PROVE  /\ session'[d] = Doomed(session[d])
             /\ \A e \in Clients : e # d => session'[e] = session[e]
  BY <1>1, <1>4 DEF Doom, Doomed, Live
<1>5. CASE OvClientKill
  <2>1. Executed("client-kill", c)
    BY <1>3, <1>4, <1>5 DEF OvClientKill, NextCommand, Reply, Executed, firewallVars
  <2> QED BY <1>3, <2>1 DEF Verbs
<1>6. CASE OvClientAuth
  <2>1. /\ session'[c] = IF session[c] = "connecting" THEN "authorized" ELSE session[c]
        /\ \A d \in Clients : d # c => session'[d] = session[d]
    BY <1>1, <1>3, <1>6 DEF OvClientAuth
  <2>2. Executed("client-auth", c)
    BY <1>6, <2>1 DEF OvClientAuth, NextCommand, Reply, Executed, firewallVars
  <2> QED BY <1>3, <2>2 DEF Verbs
<1>7. CASE OvClientDeny
  <2>1. Executed("client-deny", c)
    BY <1>3, <1>4, <1>7 DEF OvClientDeny, NextCommand, Reply, Executed, firewallVars
  <2> QED BY <1>3, <2>1 DEF Verbs
<1> QED BY <1>5, <1>6, <1>7 DEF OvExecute

(* The handler takes the next line: an event, about one client, or a       *)
(* reply, about none.                                                      *)
Taken(c) ==
    /\ events # <<>> /\ events' = Tail(events)
    /\ Head(events).cid = c
    /\ UNCHANGED <<session, lease, reauths, commands, kills>>

LEMMA HandlerTakes ==
    ASSUME TypeOK, ReceiveAuth \/ HandleAddress \/ HandleDisconnect
    PROVE  /\ Taken(Head(events).cid) /\ pc = "idle"
           /\ Head(events).cid \in Clients
<1>1. /\ events # <<>> /\ events' = Tail(events) /\ pc = "idle"
      /\ UNCHANGED <<session, lease, reauths, commands, kills>>
      /\ Head(events).type # "REPLY"
  BY DEF ReceiveAuth, HandleAddress, HandleDisconnect, NextEvent, NextLine, openvpnVars
<1>2. Head(events) \in Event
  BY <1>1, QueueEnds DEF TypeOK
<1>3. Head(events).cid \in Clients
  BY <1>1, <1>2 DEF Event
<1> QED BY <1>1, <1>2, <1>3 DEF Taken

LEMMA ReplyTaken ==
    ASSUME TypeOK, ReceiveReply
    PROVE  /\ Taken(None) /\ Head(events).type = "REPLY"
           /\ pc = "reply" /\ pc' = "idle" /\ job' = NoJob
           /\ UNCHANGED <<clients, userConnections, fwConnections, forward, skew, unserved>>
<1>1. /\ events # <<>> /\ events' = Tail(events) /\ Head(events).type = "REPLY"
      /\ pc = "reply" /\ pc' = "idle" /\ job' = NoJob
      /\ UNCHANGED <<session, lease, reauths, commands, kills>>
      /\ UNCHANGED <<clients, userConnections, fwConnections, forward, skew, unserved>>
  BY DEF ReceiveReply, NextLine, openvpnVars, firewallVars
<1>2. Head(events) \in Event
  BY <1>1, QueueEnds DEF TypeOK
<1>3. Head(events).cid = None
  BY <1>1, <1>2 DEF Event
<1> QED BY <1>1, <1>3 DEF Taken

(* Between taking an event up and the reply, the handler works on what it  *)
(* has.                                                                    *)
LEMMA HandlerWorks ==
    ASSUME DenyClient \/ RegisterClient \/ KillSuperseded \/ AuthorizeClient
    PROVE  UNCHANGED <<session, lease, reauths, events, fwConnections, forward, skew, unserved>>
BY DEF DenyClient, RegisterClient, KillSuperseded, AuthorizeClient, openvpnVars, firewallVars

(* A command sent goes behind those on their way.                          *)
LEMMA HandlerSends ==
    ASSUME TypeOK, DenyClient \/ KillSuperseded \/ AuthorizeClient
    PROVE  \E verb \in {"client-auth", "client-deny", "client-kill"} : \E c \in Clients :
              /\ Len(commands) \in Nat
              /\ Len(commands') = Len(commands) + 1
              /\ \A i \in 1..Len(commands) : commands'[i] = commands[i]
              /\ commands'[Len(commands) + 1].verb = verb
              /\ commands'[Len(commands) + 1].cid = c
              /\ \/ verb = "client-deny" /\ DenyClient
                 \/ verb = "client-kill" /\ KillSuperseded /\ c = job.old
                 \/ verb = "client-auth" /\ AuthorizeClient /\ c = job.cid
<1>0. commands \in Seq(Command)
  BY DEF TypeOK
<1>1. CASE DenyClient
  <2>1. job.cid \in Clients /\ Send("client-deny", job.cid)
    BY <1>1 DEF DenyClient, TypeOK
  <2>2. /\ Len(commands) \in Nat
        /\ Len(commands') = Len(commands) + 1
        /\ \A i \in 1..Len(commands) : commands'[i] = commands[i]
        /\ commands'[Len(commands) + 1] = [verb |-> "client-deny", cid |-> job.cid]
    BY <1>0, <2>1, SendOrder
  <2> QED BY <1>1, <2>1, <2>2
<1>2. CASE KillSuperseded
  <2>1. job.old \in Clients /\ Send("client-kill", job.old)
    BY <1>2 DEF KillSuperseded, TypeOK
  <2>2. /\ Len(commands) \in Nat
        /\ Len(commands') = Len(commands) + 1
        /\ \A i \in 1..Len(commands) : commands'[i] = commands[i]
        /\ commands'[Len(commands) + 1] = [verb |-> "client-kill", cid |-> job.old]
    BY <1>0, <2>1, SendOrder
  <2> QED BY <1>2, <2>1, <2>2
<1>3. CASE AuthorizeClient
  <2>1. job.cid \in Clients /\ Send("client-auth", job.cid)
    BY <1>3 DEF AuthorizeClient, TypeOK
  <2>2. /\ Len(commands) \in Nat
        /\ Len(commands') = Len(commands) + 1
        /\ \A i \in 1..Len(commands) : commands'[i] = commands[i]
        /\ commands'[Len(commands) + 1] = [verb |-> "client-auth", cid |-> job.cid]
    BY <1>0, <2>1, SendOrder
  <2> QED BY <1>3, <2>1, <2>2
<1> QED BY <1>1, <1>2, <1>3

-----------------------------------------------------------------------------
(***************************************************************************)
(* The replies.  Every command sent puts one more reply on the socket or   *)
(* in the making, and the handler takes one for every exchange it waits    *)
(* for; the difference is the kills.                                       *)
(***************************************************************************)
RepliesIn(q) == {i \in 1..Len(q) : q[i].type = "REPLY"}

LEMMA RepliesFinite ==
    ASSUME NEW q \in Seq(Event)
    PROVE  IsFiniteSet(RepliesIn(q)) /\ Cardinality(RepliesIn(q)) \in Nat
<1>1. Len(q) \in Nat /\ RepliesIn(q) \in SUBSET (1..Len(q))
  BY LenProperties DEF RepliesIn
<1>2. IsFiniteSet(1..Len(q))
  BY <1>1, FS_Interval
<1>3. IsFiniteSet(RepliesIn(q))
  BY <1>1, <1>2, FS_Subset
<1> QED BY <1>3, FS_CardinalityType

(* A line written counts if it is a reply.                                 *)
LEMMA RepliesAnnounced ==
    ASSUME events \in Seq(Event), NEW type, NEW c, NEW a, Announce(type, c, a), Says(type, c, a)
    PROVE  Cardinality(RepliesIn(events')) =
              Cardinality(RepliesIn(events)) + (IF type = "REPLY" THEN 1 ELSE 0)
<1>1. /\ Len(events) \in Nat
      /\ Len(events') = Len(events) + 1
      /\ \A i \in 1..Len(events) : events'[i] = events[i]
      /\ events'[Len(events) + 1] = [type |-> type, cid |-> c, address |-> a]
  BY AnnounceOrder
<1>2. events'[Len(events) + 1].type = type
  BY <1>1
<1>3. Len(events) + 1 \notin RepliesIn(events)
  BY <1>1 DEF RepliesIn
<1>4. CASE type = "REPLY"
  <2>1. RepliesIn(events') = RepliesIn(events) \cup {Len(events) + 1}
    BY <1>1, <1>2, <1>4 DEF RepliesIn
  <2> QED BY <1>3, <1>4, <2>1, RepliesFinite, FS_AddElement
<1>5. CASE type # "REPLY"
  <2>1. RepliesIn(events') = RepliesIn(events)
    BY <1>1, <1>2, <1>5 DEF RepliesIn
  <2> QED BY <1>5, <2>1, RepliesFinite
<1> QED BY <1>4, <1>5

(* A line taken counts no more.                                            *)
LEMMA RepliesTaken ==
    ASSUME events \in Seq(Event), events # <<>>, events' = Tail(events)
    PROVE  Cardinality(RepliesIn(events')) =
              Cardinality(RepliesIn(events)) - (IF Head(events).type = "REPLY" THEN 1 ELSE 0)
<1> DEFINE rest == RepliesIn(events) \ {1}
<1>1. /\ Len(events) \in Nat /\ 1 \in 1..Len(events)
      /\ Len(events') = Len(events) - 1
      /\ \A i \in 1..Len(events') : events'[i] = events[i + 1] /\ i + 1 \in 1..Len(events)
      /\ \A i \in 1..Len(events) : i # 1 =>
             i - 1 \in 1..Len(events') /\ events'[i - 1] = events[i]
      /\ Head(events) = events[1]
  BY TakeOrder
<1>2. ExistsBijection(rest, RepliesIn(events'))
  <2> DEFINE f == [i \in rest |-> i - 1]
  <2>1. \A i \in rest : i \in 1..Len(events) /\ i # 1 /\ events[i].type = "REPLY" /\ i \in Int
    BY <1>1 DEF RepliesIn
  <2>2. \A i \in rest : i - 1 \in RepliesIn(events')
    BY <1>1, <2>1 DEF RepliesIn
  <2>3. \A i, k \in rest : i - 1 = k - 1 => i = k
    BY <2>1
  <2>4. \A k \in RepliesIn(events') : k + 1 \in rest /\ (k + 1) - 1 = k
    BY <1>1 DEF RepliesIn
  <2>5. f \in Bijection(rest, RepliesIn(events'))
    <3> HIDE DEF rest
    <3>1. f \in [rest -> RepliesIn(events')]
      BY <2>2
    <3>2. \A i, k \in rest : f[i] = f[k] => i = k
      BY <2>3
    <3>3. \A k \in RepliesIn(events') : \E i \in rest : f[i] = k
      BY <2>4
    <3> HIDE DEF f
    <3> QED BY <3>1, <3>2, <3>3 DEF Bijection, Injection, Surjection, IsInjective
  <2> QED BY <2>5 DEF ExistsBijection
<1>3. /\ IsFiniteSet(rest)
      /\ Cardinality(rest) = IF 1 \in RepliesIn(events) THEN Cardinality(RepliesIn(events)) - 1
                                                        ELSE Cardinality(RepliesIn(events))
  BY RepliesFinite, FS_RemoveElement
<1>4. 1 \in RepliesIn(events) <=> Head(events).type = "REPLY"
  BY <1>1 DEF RepliesIn
<1>5. Cardinality(RepliesIn(events')) = Cardinality(rest)
  BY <1>2, <1>3, FS_Bijection
<1> QED BY <1>3, <1>4, <1>5, RepliesFinite

LEMMA LagStep ==
    ASSUME TypeOK, RepliesLagByKills, [Next]_vars PROVE RepliesLagByKills'
<1> DEFINE unread == Cardinality(RepliesIn(events))
<1>0. /\ RepliesDue = Len(commands) + unread
      /\ RepliesDue' = Len(commands') + unread'
      /\ Len(commands) \in Nat /\ unread \in Nat /\ kills \in Nat
      /\ events \in Seq(Event) /\ commands \in Seq(Command)
  BY RepliesFinite, LenProperties DEF RepliesDue, RepliesIn, TypeOK
<1>1. unread' = Cardinality(RepliesIn(events'))
  OBVIOUS
<1>2. Len(commands) + unread = kills + (IF pc = "reply" THEN 1 ELSE 0)
  BY <1>0 DEF RepliesLagByKills
<1> SUFFICES Len(commands') + unread' = kills' + (IF pc' = "reply" THEN 1 ELSE 0)
  BY <1>0 DEF RepliesLagByKills
<1> HIDE DEF unread
<1>3. CASE Peers
  <2> PICK c \in Clients, type \in Types, a \in Addresses \cup {None} : Announced(type, c, a)
    BY <1>3, PeersAnnounce
  <2>1. unread' = unread + 0
    BY <1>0, <1>1, RepliesAnnounced DEF Announced, unread
  <2> QED BY <1>0, <1>2, <2>1 DEF Announced
<1>4. CASE OvExecute
  <2> PICK c \in Clients, verb \in Verbs : Executed(verb, c)
    BY <1>4, ExecuteOne
  <2>1. unread' = unread + 1
    BY <1>0, <1>1, RepliesAnnounced DEF Executed, Says, unread
  <2>2. Len(commands') = Len(commands) - 1
    BY <1>0, ExecuteOrder DEF Executed
  <2> QED BY <1>0, <1>2, <2>1, <2>2 DEF Executed
<1>5. CASE ReceiveAuth \/ HandleAddress \/ HandleDisconnect
  <2>1. Taken(Head(events).cid) /\ pc = "idle" /\ pc' # "reply" /\ Head(events).type # "REPLY"
    BY <1>5, HandlerTakes
    DEF ReceiveAuth, HandleAddress, HandleDisconnect, NextEvent, NextLine
  <2>2. unread' = unread - 0
    BY <1>0, <1>1, <2>1, RepliesTaken DEF Taken, unread
  <2> QED BY <1>0, <1>2, <2>1, <2>2 DEF Taken
<1>6. CASE ReceiveReply
  <2>1. Taken(None) /\ pc = "reply" /\ pc' = "idle" /\ Head(events).type = "REPLY"
    BY <1>6, ReplyTaken
  <2>2. unread' = unread - 1
    BY <1>0, <1>1, <2>1, RepliesTaken DEF Taken, unread
  <2> QED BY <1>0, <1>2, <2>1, <2>2 DEF Taken
<1>7. CASE RegisterClient \/ UNCHANGED vars
  <2>1. UNCHANGED <<events, commands, kills>>
    BY <1>7 DEF RegisterClient, vars
  <2>2. pc' = "reply" <=> pc = "reply"
    BY <1>7 DEF RegisterClient, AfterRegister, vars
  <2>3. unread' = unread
    BY <2>1 DEF unread
  <2> QED BY <1>2, <2>1, <2>2, <2>3
<1>8. CASE DenyClient \/ KillSuperseded \/ AuthorizeClient
  <2>1. Len(commands') = Len(commands) + 1
    BY <1>8, HandlerSends
  <2>2. events' = events
    BY <1>8, HandlerWorks
  <2>3. unread' = unread
    BY <2>2 DEF unread
  <2>4. pc # "reply" /\ \/ pc' = "reply" /\ kills' = kills
                        \/ pc' = "authorize" /\ kills' = kills + 1
    BY <1>8 DEF DenyClient, KillSuperseded, AuthorizeClient
  <2> QED BY <1>0, <1>2, <2>1, <2>3, <2>4
<1> QED BY <1>3, <1>4, <1>5, <1>6, <1>7, <1>8 DEF Next, Handler

(* The handler is never more than one reply behind for every client-kill,  *)
(* and exactly that, in any behaviour: each one shifts all the exchanges   *)
(* after it for good (openvpn.go:206-224, manager.go:404-415).             *)
THEOREM RepliesLag == Spec => []RepliesLagByKills
<1>1. Init => RepliesLagByKills
  <2> SUFFICES ASSUME Init PROVE RepliesLagByKills
    OBVIOUS
  <2>1. Len(commands) = 0 /\ Len(events) = 0 /\ pc = "idle" /\ kills = 0
    BY DEF Init
  <2>2. {i \in 1..Len(events) : events[i].type = "REPLY"} = {}
    BY <2>1
  <2>3. Cardinality({i \in 1..Len(events) : events[i].type = "REPLY"}) = 0
    BY <2>2, FS_EmptySet
  <2> QED BY <2>1, <2>3 DEF RepliesLagByKills, RepliesDue
<1>2. TypeOK /\ RepliesLagByKills /\ [Next]_vars => RepliesLagByKills'
  BY LagStep
<1> QED BY <1>1, <1>2, TypeCorrect, PTL DEF Spec

-----------------------------------------------------------------------------
(***************************************************************************)
(* The events on their way.                                                *)
(***************************************************************************)
(* A client that is new has not been heard of.                             *)
NewUnknown ==
    \A c \in Clients : session[c] = "new" =>
        /\ clients[c] = None
        /\ job.cid # c
        /\ \A i \in 1..Len(events) : events[i].cid # c

(* CONNECT is the first event of a client, DISCONNECT the last, and there  *)
(* is one ADDRESS.                                                         *)
EventsInOrder ==
    \A i, j \in 1..Len(events) : i < j /\ events[i].cid = events[j].cid =>
        /\ events[i].type # "DISCONNECT"
        /\ events[j].type # "CONNECT"
        /\ ~(events[i].type = "ADDRESS" /\ events[j].type = "ADDRESS")

(* What an event says is so, or the client is gone.                        *)
EventsTrue ==
    \A i \in 1..Len(events) :
        /\ events[i].type = "DISCONNECT" => session[events[i].cid] = "closed"
        /\ events[i].type = "ADDRESS" => \/ lease[events[i].cid] = events[i].address
                                         \/ session[events[i].cid] = "closed"
        /\ events[i].type = "REAUTH" => reauths > 0

LeaseLife ==
    \A c \in Clients :
        /\ lease[c] # None => session[c] \in {"established", "doomed"}
        /\ session[c] = "established" => lease[c] # None

QueueInv == NewUnknown /\ EventsInOrder /\ EventsTrue /\ LeaseLife

(* No event says what is no longer so of a client that is not closed, and  *)
(* one that has just been said comes after what was said before.           *)
LEMMA OrderAnnounced ==
    ASSUME TypeOK, QueueInv, NEW type, NEW c, NEW a, Announce(type, c, a), Says(type, c, a),
           c \in Clients => /\ session[c] # "closed"
                            /\ type = "CONNECT" => session[c] = "new"
                            /\ type = "ADDRESS" => session[c] = "authorized"
    PROVE  EventsInOrder'
<1> USE DEF QueueInv
<1>1. /\ Len(events) \in Nat
      /\ Len(events') = Len(events) + 1
      /\ \A i \in 1..Len(events) : events'[i] = events[i]
      /\ events'[Len(events) + 1] = [type |-> type, cid |-> c, address |-> a]
  BY AnnounceOrder DEF TypeOK
<1>2. \A i \in 1..Len(events') : i \in 1..Len(events) \/ i = Len(events) + 1
  BY <1>1
<1>3. events'[Len(events) + 1].cid = c /\ events'[Len(events) + 1].type = type
  BY <1>1
<1> SUFFICES ASSUME NEW i \in 1..Len(events'), NEW j \in 1..Len(events'), i < j,
                    events'[i].cid = events'[j].cid
             PROVE  /\ events'[i].type # "DISCONNECT"
                    /\ events'[j].type # "CONNECT"
                    /\ ~(events'[i].type = "ADDRESS" /\ events'[j].type = "ADDRESS")
  BY DEF EventsInOrder
<1>4. i \in 1..Len(events) /\ events'[i] = events[i]
  BY <1>1, <1>2
<1>5. CASE j \in 1..Len(events)
  BY <1>1, <1>4, <1>5 DEF EventsInOrder
<1>6. CASE j = Len(events) + 1 /\ c \in Clients
  <2>1. events[i].cid = c /\ events'[j].type = type
    BY <1>3, <1>4, <1>6
  <2>2. session[c] # "closed" /\ session[c] # "new"
    BY <1>4, <1>6, <2>1 DEF NewUnknown
  <2>3. type # "CONNECT" /\ (type = "ADDRESS" => session[c] = "authorized")
    BY <1>6, <2>2
  <2>4. events[i].type # "DISCONNECT"
    BY <1>4, <2>1, <2>2 DEF EventsTrue
  <2>5. ASSUME events[i].type = "ADDRESS", session[c] = "authorized" PROVE FALSE
    <3>1. lease[c] = events[i].address
      BY <1>4, <2>1, <2>5 DEF EventsTrue
    <3>2. lease[c] # None
      BY <1>4, <2>5, <3>1, EventTyped, ConstantsAssumption DEF Says
    <3> QED BY <1>6, <2>5, <3>2 DEF LeaseLife
  <2> QED BY <1>4, <2>1, <2>3, <2>4, <2>5
<1>7. CASE j = Len(events) + 1 /\ c \notin Clients
  <2>1. type = "REPLY" /\ events[i].cid \notin Clients /\ events'[j].type = type
    BY <1>3, <1>4, <1>7 DEF Says
  <2>2. events[i].type = "REPLY"
    BY <1>4, <2>1, EventTyped
  <2> QED BY <1>4, <2>1, <2>2
<1> QED BY <1>2, <1>5, <1>6, <1>7

LEMMA QueueAnnounced ==
    ASSUME TypeOK, QueueInv, NEW c \in Clients, NEW type, NEW a, Announced(type, c, a)
    PROVE  QueueInv'
<1> USE DEF QueueInv
<1>1. /\ Len(events) \in Nat
      /\ Len(events') = Len(events) + 1
      /\ \A i \in 1..Len(events) : events'[i] = events[i]
      /\ events'[Len(events) + 1] = [type |-> type, cid |-> c, address |-> a]
  BY AnnounceOrder DEF Announced, TypeOK
<1>2. \A i \in 1..Len(events') : i \in 1..Len(events) \/ i = Len(events) + 1
  BY <1>1
<1>3. /\ events'[Len(events) + 1].cid = c /\ events'[Len(events) + 1].type = type
      /\ events'[Len(events) + 1].address = a
  BY <1>1
<1>4. NewUnknown'
  <2> SUFFICES ASSUME NEW d \in Clients, session'[d] = "new"
               PROVE  clients'[d] = None /\ job'.cid # d /\ \A i \in 1..Len(events') : events'[i].cid # d
    BY DEF NewUnknown
  <2>1. d # c /\ session[d] = "new"
    BY DEF Announced
  <2>2. clients' = clients /\ job' = job
    BY DEF Announced
  <2> QED BY <1>1, <1>2, <1>3, <2>1, <2>2 DEF NewUnknown
<1>5. EventsInOrder'
  <2>1. /\ session[c] # "closed" /\ Says(type, c, a) /\ Announce(type, c, a)
        /\ type = "CONNECT" => session[c] = "new"
        /\ type = "ADDRESS" => session[c] = "authorized"
    BY DEF Announced
  <2> QED BY <2>1, OrderAnnounced
<1>6. LeaseLife'
  <2> SUFFICES ASSUME NEW d \in Clients
               PROVE  /\ lease'[d] # None => session'[d] \in {"established", "doomed"}
                      /\ session'[d] = "established" => lease'[d] # None
    BY DEF LeaseLife
  <2>1. CASE d # c
    BY <2>1 DEF Announced, LeaseLife
  <2>2. CASE d = c
    BY <2>2, ConstantsAssumption DEF Announced, LeaseLife
  <2> QED BY <2>1, <2>2
<1>7. EventsTrue'
  <2> SUFFICES ASSUME NEW i \in 1..Len(events')
               PROVE  /\ events'[i].type = "DISCONNECT" => session'[events'[i].cid] = "closed"
                      /\ events'[i].type = "ADDRESS" =>
                            \/ lease'[events'[i].cid] = events'[i].address
                            \/ session'[events'[i].cid] = "closed"
                      /\ events'[i].type = "REAUTH" => reauths' > 0
    BY DEF EventsTrue
  <2>1. CASE i = Len(events) + 1
    <3>1. reauths \in Nat
      BY DEF TypeOK
    <3> QED BY <1>3, <2>1, <3>1 DEF Announced
  <2>2. CASE i \in 1..Len(events)
    <3>1. events'[i] = events[i] /\ (events[i].type # "REPLY" => events[i].cid \in Clients)
      BY <1>1, <2>2, EventTyped
    <3>2. reauths > 0 => reauths' > 0
      <4>1. reauths \in Nat
        BY DEF TypeOK
      <4> QED BY <4>1 DEF Announced
    <3>3. CASE events[i].cid # c
      BY <2>2, <3>1, <3>2, <3>3 DEF EventsTrue, Announced
    <3>4. CASE events[i].cid = c
      <4>1. session[c] # "closed" /\ events[i].type # "DISCONNECT"
        <5>1. session[c] # "closed"
          BY DEF Announced
        <5> QED BY <2>2, <3>4, <5>1 DEF EventsTrue
      <4>2. events[i].type = "ADDRESS" => lease[c] = events[i].address /\ lease[c] # None
        BY <2>2, <3>4, <4>1, EventTyped, ConstantsAssumption DEF EventsTrue, Says
      <4>3. events[i].type = "ADDRESS" => lease'[c] = lease[c] \/ session'[c] = "closed"
        BY <4>2 DEF Announced, LeaseLife
      <4> QED BY <2>2, <3>1, <3>2, <3>4, <4>1, <4>2, <4>3 DEF EventsTrue
    <3> QED BY <3>3, <3>4
  <2> QED BY <1>2, <2>1, <2>2
<1> QED BY <1>4, <1>5, <1>6, <1>7

LEMMA QueueExecuted ==
    ASSUME TypeOK, QueueInv, NEW c \in Clients, NEW verb, Executed(verb, c)
    PROVE  QueueInv'
<1> USE DEF QueueInv
<1>1. UNCHANGED <<clients, lease, reauths, job>>
  BY DEF Executed
<1>2. \A d \in Clients : /\ session'[d] = "new" => session[d] = "new"
                         /\ session[d] = "closed" => session'[d] = "closed"
                         /\ session'[d] = "established" => session[d] = "established"
                         /\ session[d] \in {"established", "doomed"} =>
                               session'[d] \in {"established", "doomed"}
  BY DEF Executed, Doomed
<1>3. Announce("REPLY", None, None) /\ Says("REPLY", None, None) /\ None \notin Clients
  BY ConstantsAssumption DEF Executed, Says
<1>4. /\ Len(events) \in Nat
      /\ Len(events') = Len(events) + 1
      /\ \A i \in 1..Len(events) : events'[i] = events[i]
      /\ events'[Len(events) + 1] = [type |-> "REPLY", cid |-> None, address |-> None]
  BY <1>3, AnnounceOrder DEF TypeOK
<1>5. /\ \A i \in 1..Len(events') : i \in 1..Len(events) \/ i = Len(events) + 1
      /\ events'[Len(events) + 1].type = "REPLY" /\ events'[Len(events) + 1].cid = None
  BY <1>4
<1>6. NewUnknown'
  BY <1>1, <1>2, <1>3, <1>4, <1>5 DEF NewUnknown
<1>7. EventsInOrder'
  BY <1>3, OrderAnnounced
<1>8. EventsTrue'
  <2>1. \A i \in 1..Len(events) : events[i].type # "REPLY" => events[i].cid \in Clients
    BY EventTyped
  <2> QED BY <1>1, <1>2, <1>4, <1>5, <2>1 DEF EventsTrue
<1>9. LeaseLife'
  BY <1>1, <1>2 DEF LeaseLife
<1> QED BY <1>6, <1>7, <1>8, <1>9

LEMMA QueueTaken ==
    ASSUME TypeOK, QueueInv, NEW c, Taken(c),
           \A d \in Clients \ {c} : clients'[d] = clients[d] /\ (job'.cid = d => job.cid = d)
    PROVE  QueueInv'
<1> USE DEF QueueInv
<1>1. /\ Len(events) \in Nat /\ 1 \in 1..Len(events)
      /\ \A i \in 1..Len(events') : events'[i] = events[i + 1] /\ i + 1 \in 1..Len(events)
      /\ events[1].cid = c
      /\ UNCHANGED <<session, lease, reauths>>
      /\ Len(events') = Len(events) - 1
  BY TakeOrder DEF Taken, TypeOK
<1>2. NewUnknown'
  <2> SUFFICES ASSUME NEW d \in Clients, session[d] = "new"
               PROVE  clients'[d] = None /\ job'.cid # d /\ \A i \in 1..Len(events') : events'[i].cid # d
    BY <1>1 DEF NewUnknown
  <2>1. d # c
    BY <1>1 DEF NewUnknown
  <2> QED BY <1>1, <2>1 DEF NewUnknown
<1>3. EventsInOrder'
  <2> SUFFICES ASSUME NEW i \in 1..Len(events'), NEW j \in 1..Len(events'), i < j,
                      events'[i].cid = events'[j].cid
               PROVE  /\ events'[i].type # "DISCONNECT"
                      /\ events'[j].type # "CONNECT"
                      /\ ~(events'[i].type = "ADDRESS" /\ events'[j].type = "ADDRESS")
    BY DEF EventsInOrder
  <2>1. i + 1 < j + 1
    BY <1>1
  <2> QED BY <1>1, <2>1 DEF EventsInOrder
<1>4. EventsTrue'
  BY <1>1 DEF EventsTrue
<1>5. LeaseLife'
  BY <1>1 DEF LeaseLife
<1> QED BY <1>2, <1>3, <1>4, <1>5

LEMMA QueueStill ==
    ASSUME QueueInv, UNCHANGED <<session, lease, reauths, events>>,
           \A d \in Clients : session[d] = "new" => clients'[d] = None /\ job'.cid # d
    PROVE  QueueInv'
BY DEF QueueInv, NewUnknown, EventsInOrder, EventsTrue, LeaseLife

(* The connection that RegisterClient, HandleAddress and HandleDisconnect  *)
(* write is the one the event is about.                                    *)
LEMMA OneConnection ==
    ASSUME TypeOK
    PROVE  /\ RegisterClient => \A d \in Clients : d # job.cid => clients'[d] = clients[d]
           /\ HandleAddress \/ HandleDisconnect =>
                 \A d \in Clients : d # Head(events).cid => clients'[d] = clients[d]
<1>0. clients \in [Clients -> Connection \cup {None}]
  BY DEF TypeOK
<1>1. ASSUME RegisterClient PROVE \A d \in Clients : d # job.cid => clients'[d] = clients[d]
  <2> DEFINE conn == [user |-> Owner[job.cid], address |-> None]
  <2>1. clients' = [clients EXCEPT ![job.cid] = conn]
    BY <1>1 DEF RegisterClient
  <2> HIDE DEF conn
  <2> QED BY <1>0, <2>1
<1>2. ASSUME HandleAddress PROVE \A d \in Clients : d # Head(events).cid => clients'[d] = clients[d]
  <2>1. \/ clients' = clients
        \/ clients' = [clients EXCEPT ![Head(events).cid].address = Head(events).address]
    BY <1>2 DEF HandleAddress
  <2> QED BY <1>0, <2>1
<1>3. ASSUME HandleDisconnect PROVE \A d \in Clients : d # Head(events).cid => clients'[d] = clients[d]
  <2>1. clients' = clients \/ clients' = [clients EXCEPT ![Head(events).cid] = None]
    BY <1>3 DEF HandleDisconnect
  <2> QED BY <1>0, <2>1
<1> QED BY <1>1, <1>2, <1>3

LEMMA QueueStep == ASSUME TypeOK, QueueInv, [Next]_vars PROVE QueueInv'
<1>1. CASE Peers
  BY <1>1, PeersAnnounce, QueueAnnounced
<1>2. CASE OvExecute
  BY <1>2, ExecuteOne, QueueExecuted
<1>3. CASE ReceiveAuth
  <2>1. Taken(Head(events).cid) /\ clients' = clients /\ job'.cid = Head(events).cid
    BY <1>3, HandlerTakes DEF ReceiveAuth
  <2> QED BY <2>1, QueueTaken
<1>4. CASE HandleAddress \/ HandleDisconnect
  <2>1. Taken(Head(events).cid) /\ job' = job
    BY <1>4, HandlerTakes DEF HandleAddress, HandleDisconnect
  <2> QED BY <1>4, <2>1, OneConnection, QueueTaken
<1>5. CASE RegisterClient
  <2>1. UNCHANGED <<session, lease, reauths, events>> /\ job'.cid = job.cid
    BY <1>5, HandlerWorks DEF RegisterClient, TypeOK, Job
  <2> QED BY <1>5, <2>1, OneConnection, QueueStill DEF QueueInv, NewUnknown
<1>6. CASE DenyClient \/ KillSuperseded \/ AuthorizeClient
  <2>1. UNCHANGED <<session, lease, reauths, events, clients, job>>
    BY <1>6, HandlerWorks DEF DenyClient, KillSuperseded, AuthorizeClient
  <2> QED BY <2>1, QueueStill DEF QueueInv, NewUnknown
<1>7. CASE ReceiveReply
  <2>1. Taken(None) /\ clients' = clients /\ job'.cid = None /\ None \notin Clients
    BY <1>7, ReplyTaken, ConstantsAssumption DEF NoJob
  <2> QED BY <2>1, QueueTaken
<1>8. CASE UNCHANGED vars
  <2>1. UNCHANGED <<session, lease, reauths, events, clients, job>>
    BY <1>8 DEF vars, openvpnVars
  <2> QED BY <2>1, QueueStill DEF QueueInv, NewUnknown
<1> QED BY <1>1, <1>2, <1>3, <1>4, <1>5, <1>6, <1>7, <1>8 DEF Next, Handler

-----------------------------------------------------------------------------
(***************************************************************************)
(* The connections and what the handler is doing to them.                  *)
(***************************************************************************)
Addressed(c) == clients[c] # None /\ clients[c].address # None

(* CONNECT is taken up once, ADDRESS once, after the client was registered,*)
(* and what is registered stays until DISCONNECT.                          *)
HandledOnce ==
    /\ \A i \in 1..Len(events) :
          /\ events[i].type = "CONNECT" =>
                clients[events[i].cid] = None /\ (pc = "authenticate" => events[i].cid # job.cid)
          /\ events[i].type = "ADDRESS" =>
                clients[events[i].cid] # None /\ ~Addressed(events[i].cid)
    /\ pc = "authenticate" /\ ~job.reauth => clients[job.cid] = None
    /\ \A c \in Clients :
          /\ Addressed(c) => session[c] \in {"established", "doomed", "closed"}
          /\ session[c] \in {"authorized", "established"} => clients[c] # None

Authorizing(c) ==
    \/ pc \in {"kill", "authorize"} /\ job.cid = c
    \/ \E i \in 1..Len(commands) : commands[i].verb = "client-auth" /\ commands[i].cid = c

(* The client whose authorization is under way is registered, and its      *)
(* user's current one until the client-auth is sent; with replies that lag *)
(* it may be gone before that is executed.                                 *)
AuthorizedKnown ==
    /\ \A c \in Clients : Authorizing(c) => clients[c] # None \/ session[c] = "closed"
    /\ pc \in {"kill", "authorize"} => userConnections[Owner[job.cid]] = job.cid

ReauthsCounted == job.reauth => reauths > 0

HandlerInv == HandledOnce /\ AuthorizedKnown /\ ReauthsCounted

Typed == TypeOK /\ RegistryConsistent /\ QueueInv

LEMMA HandlerAnnounced ==
    ASSUME Typed, HandlerInv, NEW c \in Clients, NEW type, NEW a, Announced(type, c, a)
    PROVE  HandlerInv'
<1> USE DEF Typed, HandlerInv
<1>1. /\ Len(events) \in Nat
      /\ Len(events') = Len(events) + 1
      /\ \A i \in 1..Len(events) : events'[i] = events[i]
      /\ events'[Len(events) + 1] = [type |-> type, cid |-> c, address |-> a]
  BY AnnounceOrder DEF Announced, TypeOK
<1>2. /\ \A i \in 1..Len(events') : i \in 1..Len(events) \/ i = Len(events) + 1
      /\ events'[Len(events) + 1].cid = c /\ events'[Len(events) + 1].type = type
  BY <1>1
<1>3. UNCHANGED <<commands, pc, job, clients, userConnections>>
  BY DEF Announced
<1>4. \A d \in Clients :
          /\ session'[d] \in {"authorized", "established"} => session[d] \in {"authorized", "established"}
          /\ session[d] \in {"established", "doomed", "closed"} =>
                session'[d] \in {"established", "doomed", "closed"}
          /\ session[d] = "closed" => session'[d] = "closed"
  BY DEF Announced
<1>5. /\ type = "CONNECT" => clients[c] = None /\ job.cid # c
      /\ type = "ADDRESS" => clients[c] # None /\ ~Addressed(c)
  BY DEF Announced, HandledOnce, QueueInv, NewUnknown
<1>6. HandledOnce'
  BY <1>1, <1>2, <1>3, <1>4, <1>5 DEF HandledOnce, Addressed
<1>7. AuthorizedKnown'
  BY <1>3, <1>4 DEF AuthorizedKnown, Authorizing
<1>8. ReauthsCounted'
  <2>1. reauths \in Nat
    BY DEF TypeOK
  <2> QED BY <1>3, <2>1 DEF ReauthsCounted, Announced
<1> QED BY <1>6, <1>7, <1>8

(* The head of the commands is executed.                                   *)
LEMMA FirstCommand ==
    ASSUME TypeOK, NEW c, NEW verb, Executed(verb, c)
    PROVE  /\ 1 \in 1..Len(commands) /\ commands[1].verb = verb /\ commands[1].cid = c
           /\ Len(commands) \in Nat /\ Len(commands') = Len(commands) - 1
           /\ \A i \in 1..Len(commands') :
                  commands'[i] = commands[i + 1] /\ i + 1 \in 1..Len(commands)
           /\ \A i \in 1..Len(commands) : i # 1 =>
                  i - 1 \in 1..Len(commands') /\ commands'[i - 1] = commands[i]
BY ExecuteOrder DEF Executed, TypeOK

LEMMA AuthorizesNext ==
    ASSUME TypeOK, AuthorizedKnown, NEW c \in Clients, Executed("client-auth", c)
    PROVE  clients[c] # None \/ session[c] = "closed"
BY FirstCommand DEF AuthorizedKnown, Authorizing

LEMMA HandlerExecuted ==
    ASSUME Typed, HandlerInv, NEW c \in Clients, NEW verb, Executed(verb, c)
    PROVE  HandlerInv'
<1> USE DEF Typed, HandlerInv
<1>1. UNCHANGED <<clients, userConnections, reauths, pc, job>>
  BY DEF Executed
<1>2. \A d \in Clients :
          /\ session'[d] \in {"authorized", "established"} =>
                session[d] \in {"authorized", "established"}
                    \/ (d = c /\ verb = "client-auth" /\ session[d] # "closed")
          /\ session[d] \in {"established", "doomed", "closed"} =>
                session'[d] \in {"established", "doomed", "closed"}
          /\ session[d] = "closed" => session'[d] = "closed"
  BY DEF Executed, Doomed
<1>3. verb = "client-auth" => clients[c] # None \/ session[c] = "closed"
  BY AuthorizesNext
<1>4. /\ Len(events) \in Nat
      /\ Len(events') = Len(events) + 1
      /\ \A i \in 1..Len(events) : events'[i] = events[i]
      /\ events'[Len(events) + 1] = [type |-> "REPLY", cid |-> None, address |-> None]
  BY AnnounceOrder DEF Executed, Says, TypeOK
<1>5. /\ \A i \in 1..Len(events') : i \in 1..Len(events) \/ i = Len(events) + 1
      /\ events'[Len(events) + 1].type = "REPLY"
  BY <1>4
<1>6. HandledOnce'
  BY <1>1, <1>2, <1>3, <1>4, <1>5 DEF HandledOnce, Addressed
<1>7. \A i \in 1..Len(commands') : commands'[i] = commands[i + 1] /\ i + 1 \in 1..Len(commands)
  BY FirstCommand
<1>8. AuthorizedKnown'
  BY <1>1, <1>2, <1>7 DEF AuthorizedKnown, Authorizing
<1>9. ReauthsCounted'
  BY <1>1 DEF ReauthsCounted
<1> QED BY <1>6, <1>8, <1>9

(* The queue behind a line that is taken.                                  *)
LEMMA Behind ==
    ASSUME TypeOK, QueueInv, NEW c, Taken(c), NEW i \in 1..Len(events')
    PROVE  /\ events'[i] = events[i + 1] /\ i + 1 \in 1..Len(events)
           /\ events[i + 1].cid = c =>
                 /\ events[1].type # "DISCONNECT"
                 /\ events[i + 1].type # "CONNECT"
                 /\ ~(events[1].type = "ADDRESS" /\ events[i + 1].type = "ADDRESS")
           /\ 1 \in 1..Len(events) /\ events[1] = Head(events) /\ events[1].cid = c
           /\ events[i + 1].type # "REPLY" => events[i + 1].cid \in Clients
<1>1. /\ Len(events) \in Nat /\ 1 \in 1..Len(events) /\ events[1] = Head(events)
      /\ events'[i] = events[i + 1] /\ i + 1 \in 1..Len(events)
      /\ Len(events') = Len(events) - 1
  BY TakeOrder DEF Taken, TypeOK
<1>2. 1 < i + 1
  BY <1>1
<1>3. events[1].cid = c
  BY <1>1 DEF Taken
<1> QED BY <1>1, <1>2, <1>3, EventTyped DEF QueueInv, EventsInOrder

(* The line that is taken.                                                 *)
LEMMA FirstEvent ==
    ASSUME TypeOK, NEW c, Taken(c)
    PROVE  /\ 1 \in 1..Len(events) /\ events[1] = Head(events) /\ events[1].cid = c
           /\ events[1] \in Event
BY TakeOrder DEF Taken, TypeOK

LEMMA HandlerReceives == ASSUME Typed, HandlerInv, ReceiveAuth PROVE HandlerInv'
<1> USE DEF Typed, HandlerInv
<1> DEFINE c == Head(events).cid
           again == Head(events).type = "REAUTH"
<1>1. /\ Taken(c) /\ pc' = "authenticate"
      /\ UNCHANGED <<clients, userConnections, session, reauths, commands>>
      /\ job' = [cid |-> c, reauth |-> again, old |-> None]
      /\ Head(events).type \in {"CONNECT", "REAUTH"}
  BY HandlerTakes DEF ReceiveAuth, NextEvent, NextLine, Taken
<1> HIDE DEF c, again
<1>2. job'.cid = c /\ job'.reauth = again
  BY <1>1
<1>3. HandledOnce'
  <2>1. ~job'.reauth => clients[c] = None
    <3>1. ~again => events[1].type = "CONNECT"
      BY <1>1, FirstEvent DEF again
    <3> QED BY <1>1, <1>2, <3>1, FirstEvent DEF HandledOnce
  <2>2. \A i \in 1..Len(events') : /\ events'[i] = events[i + 1] /\ i + 1 \in 1..Len(events)
                                   /\ events[i + 1].cid = c => events[i + 1].type # "CONNECT"
    BY <1>1, Behind
  <2> QED BY <1>1, <1>2, <2>1, <2>2 DEF HandledOnce, Addressed
<1>4. AuthorizedKnown'
  BY <1>1 DEF AuthorizedKnown, Authorizing
<1>5. ReauthsCounted'
  <2>1. again => events[1].type = "REAUTH"
    BY <1>1, FirstEvent DEF again
  <2> QED BY <1>1, <1>2, <2>1, FirstEvent DEF ReauthsCounted, QueueInv, EventsTrue
<1> QED BY <1>3, <1>4, <1>5

LEMMA HandlerReads == ASSUME Typed, HandlerInv, ReceiveReply PROVE HandlerInv'
<1> USE DEF Typed, HandlerInv
<1>1. /\ Taken(None) /\ pc' = "idle" /\ job' = NoJob
      /\ UNCHANGED <<clients, userConnections, session, reauths, commands>>
  BY ReplyTaken DEF Taken
<1>2. \A i \in 1..Len(events') : events'[i] = events[i + 1] /\ i + 1 \in 1..Len(events)
  BY <1>1, Behind
<1>3. HandledOnce'
  BY <1>1, <1>2 DEF HandledOnce, Addressed
<1>4. AuthorizedKnown'
  BY <1>1 DEF AuthorizedKnown, Authorizing
<1>5. ReauthsCounted'
  BY <1>1 DEF ReauthsCounted, NoJob
<1> QED BY <1>3, <1>4, <1>5

LEMMA HandlerAddress == ASSUME Typed, HandlerInv, HandleAddress PROVE HandlerInv'
<1> USE DEF Typed, HandlerInv
<1> DEFINE c == Head(events).cid
           a == Head(events).address
<1>1. /\ Taken(c) /\ Head(events).type = "ADDRESS" /\ c \in Clients /\ pc = "idle"
      /\ UNCHANGED <<job, userConnections, session, reauths, commands>>
  BY HandlerTakes DEF HandleAddress, NextEvent, NextLine, Taken
<1>2. clients[c] # None /\ c \in Clients /\ events[1].type = "ADDRESS"
  BY <1>1, FirstEvent DEF HandledOnce
<1>3. clients' = [clients EXCEPT ![c].address = a] /\ pc' = pc
  BY <1>2 DEF HandleAddress
<1> HIDE DEF c, a
<1>4. \A d \in Clients : /\ d # c => clients'[d] = clients[d]
                         /\ clients'[d] # None <=> clients[d] # None
  <2>1. clients \in [Clients -> Connection \cup {None}]
    BY DEF TypeOK
  <2>2. clients[c] \in Connection
    BY <1>2, <2>1
  <2>3. a \in Addresses
    <3>1. events[1] = Head(events) /\ 1 \in 1..Len(events)
      BY <1>1, FirstEvent
    <3> QED BY <1>2, <3>1, EventTyped DEF a, Says
  <2>4. [clients[c] EXCEPT !.address = a] \in Connection
    BY <2>2, <2>3 DEF Connection
  <2>5. \A conn \in Connection : conn # None
    BY ConstantsAssumption DEF Connection
  <2>6. clients' = [clients EXCEPT ![c] = [clients[c] EXCEPT !.address = a]]
    BY <1>3
  <2> QED BY <1>2, <2>1, <2>2, <2>4, <2>5, <2>6
<1>5. session[c] \in {"established", "doomed", "closed"}
  <2>1. lease[c] = events[1].address \/ session[c] = "closed"
    BY <1>1, <1>2, FirstEvent DEF QueueInv, EventsTrue
  <2>2. events[1].address # None
    BY <1>1, <1>2, FirstEvent, EventTyped, ConstantsAssumption DEF Says
  <2> QED BY <1>2, <2>1, <2>2 DEF QueueInv, LeaseLife
<1>6. HandledOnce'
  <2>1. \A i \in 1..Len(events') :
            /\ events'[i] = events[i + 1] /\ i + 1 \in 1..Len(events)
            /\ events[i + 1].type # "REPLY" => events[i + 1].cid \in Clients
            /\ events[i + 1].cid = c => events[i + 1].type \notin {"CONNECT", "ADDRESS"}
    BY <1>1, <1>2, Behind
  <2>2. pc' # "authenticate"
    BY <1>1, <1>3
  <2>3. ASSUME NEW i \in 1..Len(events')
        PROVE  /\ events'[i].type = "CONNECT" => clients'[events'[i].cid] = None
               /\ events'[i].type = "ADDRESS" =>
                     clients'[events'[i].cid] # None /\ clients'[events'[i].cid].address = None
    <3>1. /\ events'[i] = events[i + 1] /\ i + 1 \in 1..Len(events)
          /\ events[i + 1].type # "REPLY" => events[i + 1].cid \in Clients
          /\ events[i + 1].cid = c => events[i + 1].type \notin {"CONNECT", "ADDRESS"}
      BY <2>1
    <3>2. ASSUME events[i + 1].type \in {"CONNECT", "ADDRESS"}
          PROVE  clients'[events[i + 1].cid] = clients[events[i + 1].cid]
      BY <1>4, <3>1, <3>2
    <3> QED BY <3>1, <3>2 DEF HandledOnce, Addressed
  <2>4. ASSUME NEW d \in Clients
        PROVE  /\ Addressed(d)' => session[d] \in {"established", "doomed", "closed"}
               /\ session[d] \in {"authorized", "established"} => clients'[d] # None
    BY <1>4, <1>5 DEF HandledOnce, Addressed
  <2> QED BY <1>1, <2>2, <2>3, <2>4 DEF HandledOnce, Addressed
<1>7. AuthorizedKnown'
  BY <1>1, <1>3, <1>4 DEF AuthorizedKnown, Authorizing
<1>8. ReauthsCounted'
  BY <1>1 DEF ReauthsCounted
<1> QED BY <1>6, <1>7, <1>8

LEMMA HandlerDisconnect == ASSUME Typed, HandlerInv, HandleDisconnect PROVE HandlerInv'
<1> USE DEF Typed, HandlerInv
<1> DEFINE c == Head(events).cid
<1>1. /\ Taken(c) /\ Head(events).type = "DISCONNECT" /\ UNCHANGED <<job, session, reauths, commands>>
      /\ pc = "idle" /\ pc' \in {"idle", "dead"} /\ c \in Clients
      /\ \A d \in Clients : d # c => clients'[d] = clients[d]
  BY HandlerTakes, OneConnection DEF HandleDisconnect, NextEvent, NextLine, Taken
<1>2. clients'[c] = None
  <2>1. (clients' = clients /\ clients[c] = None) \/ clients' = [clients EXCEPT ![c] = None]
    BY DEF HandleDisconnect
  <2>2. clients \in [Clients -> Connection \cup {None}] /\ c \in Clients
    BY <1>1 DEF TypeOK
  <2> QED BY <2>1, <2>2
<1> HIDE DEF c
<1>3. session[c] = "closed"
  BY <1>1, FirstEvent DEF QueueInv, EventsTrue
<1>4. \A i \in 1..Len(events') : /\ events'[i] = events[i + 1] /\ i + 1 \in 1..Len(events)
                                 /\ events[i + 1].cid # c
                                 /\ events[i + 1].type # "REPLY" => events[i + 1].cid \in Clients
  BY <1>1, Behind
<1>5. HandledOnce'
  BY <1>1, <1>2, <1>3, <1>4 DEF HandledOnce, Addressed
<1>6. AuthorizedKnown'
  BY <1>1, <1>3 DEF AuthorizedKnown, Authorizing
<1>7. ReauthsCounted'
  BY <1>1 DEF ReauthsCounted
<1> QED BY <1>5, <1>6, <1>7

(* What RegisterClient makes of the registry.                              *)
LEMMA Registered ==
    ASSUME TypeOK, RegistryConsistent, RegisterClient
    PROVE  /\ job.cid \in Clients /\ Owner[job.cid] \in Users
           /\ clients'[job.cid] = [user |-> Owner[job.cid], address |-> None]
           /\ clients'[job.cid] # None
           /\ \A d \in Clients : d # job.cid => clients'[d] = clients[d]
           /\ userConnections'[Owner[job.cid]] = job.cid
           /\ \A u \in Users : u # Owner[job.cid] => userConnections'[u] = userConnections[u]
           /\ job'.cid = job.cid /\ job'.reauth = job.reauth
           /\ job'.old = Superseded(job.cid, job.reauth)
           /\ pc = "authenticate" /\ pc' = AfterRegister(job'.old)
           /\ UNCHANGED <<commands, kills>>
<1> DEFINE c == job.cid
           conn == [user |-> Owner[c], address |-> None]
           registry == IF job.reauth THEN userConnections ELSE Forgotten(c)
<1>1. c \in Clients /\ Owner[c] \in Users
  BY ConstantsAssumption DEF RegisterClient, TypeOK
<1>2. /\ clients' = [clients EXCEPT ![c] = conn]
      /\ userConnections' = [registry EXCEPT ![Owner[c]] = c]
      /\ job' = [job EXCEPT !.old = Superseded(c, job.reauth)]
      /\ pc = "authenticate" /\ pc' = AfterRegister(Superseded(c, job.reauth))
      /\ UNCHANGED <<commands, kills>>
  BY DEF RegisterClient
<1>3. conn # None
  BY <1>1, ConstantsAssumption
<1>4. registry \in [Users -> Clients \cup {None}]
  BY <1>1, ForgottenType DEF TypeOK
<1>5. ASSUME NEW u \in Users, u # Owner[c] PROVE registry[u] = userConnections[u]
  <2>1. clients[c] # None => clients[c].user = Owner[c]
    BY <1>1 DEF RegistryConsistent
  <2> QED BY <1>5, <2>1 DEF Forgotten, TypeOK
<1>6. clients \in [Clients -> Connection \cup {None}] /\ job \in Job
  BY DEF TypeOK
<1>7. job'.cid = c /\ job'.reauth = job.reauth /\ job'.old = Superseded(c, job.reauth)
  BY <1>2, <1>6 DEF Job
<1> HIDE DEF registry, conn
<1>8. clients'[c] = conn /\ \A d \in Clients : d # c => clients'[d] = clients[d]
  BY <1>1, <1>2, <1>6
<1>9. userConnections'[Owner[c]] = c
  BY <1>1, <1>2, <1>4
<1>10. \A u \in Users : u # Owner[c] => userConnections'[u] = userConnections[u]
  BY <1>2, <1>4, <1>5
<1> QED BY <1>1, <1>2, <1>3, <1>7, <1>8, <1>9, <1>10 DEF conn

LEMMA HandlerRegisters == ASSUME Typed, HandlerInv, RegisterClient PROVE HandlerInv'
<1> USE DEF Typed, HandlerInv
<1>1. UNCHANGED <<session, reauths, events, commands>>
  BY HandlerWorks DEF RegisterClient
<1>2. \A i \in 1..Len(events) : events[i].type # "REPLY" => events[i].cid \in Clients
  BY EventTyped
<1>3. HandledOnce'
  <2>1. ~Addressed(job.cid)'
    BY Registered DEF Addressed
  <2>2. \A d \in Clients : d # job.cid => (Addressed(d)' <=> Addressed(d))
    BY Registered DEF Addressed
  <2>3. pc' # "authenticate"
    BY Registered DEF AfterRegister
  <2> QED BY <1>1, <1>2, <2>1, <2>2, <2>3, Registered DEF HandledOnce
<1>4. AuthorizedKnown'
  BY <1>1, Registered DEF AuthorizedKnown, Authorizing
<1>5. ReauthsCounted'
  BY <1>1, Registered DEF ReauthsCounted
<1> QED BY <1>3, <1>4, <1>5

LEMMA HandlerCommands ==
    ASSUME Typed, HandlerInv, DenyClient \/ KillSuperseded \/ AuthorizeClient PROVE HandlerInv'
<1> USE DEF Typed, HandlerInv
<1>1. /\ UNCHANGED <<session, reauths, events, clients, userConnections, job>>
      /\ pc' # "authenticate" /\ pc' # "kill" /\ (pc' = "authorize" => pc = "kill")
  BY HandlerWorks DEF DenyClient, KillSuperseded, AuthorizeClient
<1>2. HandledOnce'
  BY <1>1 DEF HandledOnce, Addressed
<1>3. PICK verb \in {"client-auth", "client-deny", "client-kill"}, c \in Clients :
              /\ Len(commands) \in Nat
              /\ Len(commands') = Len(commands) + 1
              /\ \A i \in 1..Len(commands) : commands'[i] = commands[i]
              /\ commands'[Len(commands) + 1].verb = verb
              /\ commands'[Len(commands) + 1].cid = c
              /\ \/ verb = "client-deny" /\ DenyClient
                 \/ verb = "client-kill" /\ KillSuperseded /\ c = job.old
                 \/ verb = "client-auth" /\ AuthorizeClient /\ c = job.cid
  BY HandlerSends
<1>4. \A i \in 1..Len(commands') : i \in 1..Len(commands) \/ i = Len(commands) + 1
  BY <1>3
<1>5. ASSUME NEW d \in Clients, Authorizing(d)' PROVE Authorizing(d)
  <2>1. CASE pc' \in {"kill", "authorize"} /\ job'.cid = d
    BY <1>1, <2>1 DEF Authorizing
  <2>2. CASE \E i \in 1..Len(commands') : commands'[i].verb = "client-auth" /\ commands'[i].cid = d
    <3> PICK i \in 1..Len(commands') : commands'[i].verb = "client-auth" /\ commands'[i].cid = d
      BY <2>2
    <3>1. CASE i \in 1..Len(commands)
      BY <1>3, <3>1 DEF Authorizing
    <3>2. CASE i = Len(commands) + 1
      <4>1. AuthorizeClient /\ d = job.cid
        BY <1>3, <3>2
      <4> QED BY <4>1 DEF AuthorizeClient, Authorizing
    <3> QED BY <1>4, <3>1, <3>2
  <2> QED BY <1>5, <2>1, <2>2 DEF Authorizing
<1>6. AuthorizedKnown'
  BY <1>1, <1>5 DEF AuthorizedKnown
<1>7. ReauthsCounted'
  BY <1>1 DEF ReauthsCounted
<1> QED BY <1>2, <1>6, <1>7

LEMMA HandlerStep == ASSUME Typed, HandlerInv, [Next]_vars PROVE HandlerInv'
<1>1. CASE Peers
  BY <1>1, PeersAnnounce, HandlerAnnounced DEF Typed
<1>2. CASE OvExecute
  BY <1>2, ExecuteOne, HandlerExecuted DEF Typed
<1>3. CASE UNCHANGED vars
  <2>1. UNCHANGED <<session, reauths, events, commands, pc, job, clients, userConnections>>
    BY <1>3 DEF vars, openvpnVars
  <2> QED BY <2>1 DEF HandlerInv, HandledOnce, Addressed, AuthorizedKnown, Authorizing, ReauthsCounted
<1> QED BY <1>1, <1>2, <1>3, HandlerReceives, HandlerReads, HandlerAddress, HandlerDisconnect,
       HandlerRegisters, HandlerCommands DEF Next, Handler

LEMMA HandlerInit == Init => QueueInv /\ HandlerInv
<1> SUFFICES ASSUME Init PROVE QueueInv /\ HandlerInv
  OBVIOUS
<1>1. /\ Len(events) = 0 /\ Len(commands) = 0 /\ pc = "idle"
      /\ \A c \in Clients : session[c] = "new" /\ clients[c] = None /\ lease[c] = None
      /\ job.cid = None /\ job.reauth = FALSE
  BY DEF Init, NoJob
<1>2. QueueInv
  BY <1>1, ConstantsAssumption DEF QueueInv, NewUnknown, EventsInOrder, EventsTrue, LeaseLife
<1> QED BY <1>1, <1>2 DEF HandlerInv, HandledOnce, Addressed, AuthorizedKnown, Authorizing,
                          ReauthsCounted

LEMMA HandlerAlways == Spec => [](Typed /\ HandlerInv)
<1>1. Init => QueueInv
  BY HandlerInit
<1>2. TypeOK /\ QueueInv /\ [Next]_vars => QueueInv'
  BY QueueStep
<1>3. Spec => []QueueInv
  BY <1>1, <1>2, TypeCorrect, PTL DEF Spec
<1>4. Spec => []Typed
  BY <1>3, TypeCorrect, RegistryAgrees, PTL DEF Typed
<1>5. Init => HandlerInv
  BY HandlerInit
<1>6. Typed /\ HandlerInv /\ [Next]_vars => HandlerInv'
  BY HandlerStep
<1> QED BY <1>4, <1>5, <1>6, PTL DEF Spec

-----------------------------------------------------------------------------
(***************************************************************************)
(* What the three writers of the registry do, in the states they run in.   *)
(***************************************************************************)
(* An ADDRESS finds its connection.                                        *)
Assigned(c, a) ==
    /\ c \in Clients /\ a \in Addresses
    /\ events[1].type = "ADDRESS" /\ events[1].cid = c /\ events[1].address = a
    /\ clients[c] # None /\ clients[c].address = None /\ clients[c].user = Owner[c]
    /\ clients'[c] # None /\ clients'[c].address = a
    /\ \A d \in Clients : d # c => clients'[d] = clients[d]
    /\ ConnectUser(c, a)
    /\ pc = "idle"
    /\ UNCHANGED <<pc, job, userConnections>>

LEMMA AddressAssigned ==
    ASSUME Typed, HandlerInv, HandleAddress
    PROVE  Taken(Head(events).cid) /\ Assigned(Head(events).cid, Head(events).address)
<1> USE DEF Typed, HandlerInv
<1> DEFINE c == Head(events).cid
           a == Head(events).address
<1>1. /\ Taken(c) /\ Head(events).type = "ADDRESS" /\ c \in Clients /\ pc = "idle"
      /\ UNCHANGED <<job, userConnections>>
  BY HandlerTakes DEF HandleAddress, NextEvent, NextLine
<1>2. events[1] = Head(events) /\ 1 \in 1..Len(events) /\ events[1].type = "ADDRESS"
  BY <1>1, FirstEvent
<1>3. clients[c] # None /\ a \in Addresses /\ ~Addressed(c)
  BY <1>2, EventTyped DEF HandledOnce, Says
<1>4. /\ clients' = [clients EXCEPT ![c].address = a] /\ pc' = pc
      /\ ConnectUser(c, a)
  BY <1>3 DEF HandleAddress
<1>5. clients[c].user = Owner[c]
  BY <1>1, <1>3 DEF RegistryConsistent
<1> HIDE DEF c, a
<1>6. clients \in [Clients -> Connection \cup {None}] /\ clients[c] \in Connection
  BY <1>1, <1>3 DEF TypeOK
<1> DEFINE conn == [clients[c] EXCEPT !.address = a]
<1>7. conn \in Connection /\ conn.address = a
  BY <1>3, <1>6 DEF Connection
<1>8. conn # None
  BY <1>7, ConstantsAssumption DEF Connection
<1>9. clients' = [clients EXCEPT ![c] = conn]
  BY <1>4
<1> HIDE DEF conn
<1>10. clients'[c] = conn /\ \A d \in Clients : d # c => clients'[d] = clients[d]
  BY <1>1, <1>6, <1>9
<1>11. events[1].cid = c /\ events[1].address = a
  BY <1>2 DEF c, a
<1> QED BY <1>1, <1>2, <1>3, <1>4, <1>5, <1>7, <1>8, <1>10, <1>11 DEF Assigned, Addressed, c, a

(* A DISCONNECT removes a connection, if there is one, and its user's      *)
(* entry, if that is the one.                                              *)
Removed(c) ==
    /\ c \in Clients /\ events[1].type = "DISCONNECT" /\ events[1].cid = c
    /\ session[c] = "closed"
    /\ clients'[c] = None
    /\ \A d \in Clients : d # c => clients'[d] = clients[d]
    /\ \A u \in Users : \/ userConnections'[u] = userConnections[u]
                        \/ userConnections[u] = c /\ userConnections'[u] = None
    /\ \/ UNCHANGED <<fwConnections, forward, skew, unserved>>
       \/ Addressed(c) /\ DisconnectUser(Owner[c], clients[c].address)
    /\ pc' = "dead" => clients[c] # None /\ userConnections[Owner[c]] = None
    /\ Addressed(c) /\ pc' # "dead" => DisconnectUser(Owner[c], clients[c].address)
    /\ pc = "idle" /\ pc' \in {"idle", "dead"}
    /\ job' = job

LEMMA DisconnectRemoves ==
    ASSUME Typed, HandlerInv, HandleDisconnect
    PROVE  Taken(Head(events).cid) /\ Removed(Head(events).cid)
<1> USE DEF Typed, HandlerInv
<1> DEFINE c == Head(events).cid
<1>1. /\ Taken(c) /\ Head(events).type = "DISCONNECT" /\ job' = job
      /\ c \in Clients /\ pc = "idle"
  BY HandlerTakes DEF HandleDisconnect, NextEvent, NextLine
<1>2. events[1] = Head(events) /\ 1 \in 1..Len(events) /\ events[1].type = "DISCONNECT"
  BY <1>1, FirstEvent
<1>3. session[c] = "closed"
  BY <1>1, <1>2, FirstEvent DEF QueueInv, EventsTrue
<1>4. \A d \in Clients : d # c => clients'[d] = clients[d]
  BY OneConnection
<1>5. clients[c] # None => clients[c].user = Owner[c]
  BY <1>1 DEF RegistryConsistent
<1>6. clients \in [Clients -> Connection \cup {None}] /\ userConnections \in [Users -> Clients \cup {None}]
  BY DEF TypeOK
<1>7. clients'[c] = None
  <2>1. (clients' = clients /\ clients[c] = None) \/ clients' = [clients EXCEPT ![c] = None]
    BY DEF HandleDisconnect
  <2> QED BY <1>1, <1>6, <2>1
<1>8. \A u \in Users : \/ userConnections'[u] = userConnections[u]
                       \/ userConnections[u] = c /\ userConnections'[u] = None
  <2>1. userConnections' = userConnections \/ userConnections' = Forgotten(c)
    BY DEF HandleDisconnect
  <2> QED BY <1>6, <2>1 DEF Forgotten
<1>9. /\ \/ UNCHANGED <<fwConnections, forward, skew, unserved>>
         \/ Addressed(c) /\ DisconnectUser(Owner[c], clients[c].address)
      /\ pc' = "dead" => clients[c] # None /\ userConnections[Owner[c]] = None
      /\ Addressed(c) /\ pc' # "dead" => DisconnectUser(Owner[c], clients[c].address)
      /\ pc' \in {"idle", "dead"}
  BY <1>1, <1>5 DEF HandleDisconnect, Addressed, firewallVars
<1> QED BY <1>1, <1>2, <1>3, <1>4, <1>7, <1>8, <1>9 DEF Removed

(* Nobody becomes new again.                                               *)
LEMMA NewNoMore ==
    ASSUME TypeOK, [Next]_vars, NEW c \in Clients, session[c] # "new" PROVE session'[c] # "new"
<1>1. CASE Peers
  BY <1>1, PeersAnnounce DEF Announced
<1>2. CASE OvExecute
  BY <1>2, ExecuteOne DEF Executed, Doomed
<1>3. CASE Handler \/ UNCHANGED vars
  <2>1. session' = session
    BY <1>3, HandlerTakes, HandlerWorks, ReplyTaken DEF Handler, Taken, vars, openvpnVars
  <2> QED BY <2>1
<1> QED BY <1>1, <1>2, <1>3 DEF Next

(* Steps that leave the registry alone.                                    *)
LEMMA RegistryUntouched ==
    ASSUME TypeOK, [Next]_vars, ~RegisterClient, ~HandleAddress, ~HandleDisconnect
    PROVE  UNCHANGED <<clients, userConnections>>
<1>1. CASE Peers
  BY <1>1, PeersAnnounce DEF Announced
<1>2. CASE OvExecute
  BY <1>2, ExecuteOne DEF Executed
<1>3. CASE ReceiveAuth \/ DenyClient \/ KillSuperseded \/ AuthorizeClient \/ ReceiveReply
  BY <1>3 DEF ReceiveAuth, DenyClient, KillSuperseded, AuthorizeClient, ReceiveReply
<1>4. CASE UNCHANGED vars
  BY <1>4 DEF vars
<1> QED BY <1>1, <1>2, <1>3, <1>4 DEF Next, Handler

-----------------------------------------------------------------------------
(***************************************************************************)
(* The death of the handler.  A connection that is not the one its user is *)
(* filed under was replaced by another attempt of that user, which is the  *)
(* only way its DISCONNECT can find the user's entry gone.                 *)
(***************************************************************************)
Replaced ==
    \A c \in Clients : clients[c] # None /\ userConnections[Owner[c]] # c =>
        \E d \in Clients : d # c /\ Owner[d] = Owner[c] /\ session[d] # "new"

LEMMA ReplacedStep ==
    ASSUME Typed, HandlerInv, Replaced, [Next]_vars PROVE Replaced'
<1> USE DEF Typed, HandlerInv
<1> SUFFICES ASSUME NEW c \in Clients, clients'[c] # None, userConnections'[Owner[c]] # c
             PROVE  \E d \in Clients : d # c /\ Owner[d] = Owner[c] /\ session[d] # "new"
  BY NewNoMore DEF Replaced
<1>1. Owner[c] \in Users
  BY ConstantsAssumption
<1>2. CASE RegisterClient
  <2>1. c # job.cid
    BY <1>2, Registered
  <2>2. session[job.cid] # "new" /\ job.cid \in Clients
    BY <1>2, Registered DEF QueueInv, NewUnknown
  <2>3. CASE Owner[c] = Owner[job.cid]
    BY <2>1, <2>2, <2>3
  <2>4. CASE Owner[c] # Owner[job.cid]
    BY <1>1, <1>2, <2>1, <2>4, Registered DEF Replaced
  <2> QED BY <2>3, <2>4
<1>3. CASE HandleAddress
  <2>1. clients[c] # None /\ userConnections' = userConnections
    BY <1>3, AddressAssigned DEF Assigned
  <2> QED BY <2>1 DEF Replaced
<1>4. CASE HandleDisconnect
  <2> DEFINE j == Head(events).cid
  <2>1. Removed(j)
    BY <1>4, DisconnectRemoves
  <2> HIDE DEF j
  <2>2. c # j /\ j \in Clients /\ session[j] = "closed"
    BY <2>1 DEF Removed
  <2>3. CASE userConnections[Owner[c]] = c
    <3>1. userConnections'[Owner[c]] = userConnections[Owner[c]]
      BY <1>1, <2>1, <2>2, <2>3 DEF Removed
    <3> QED BY <2>3, <3>1
  <2>4. CASE userConnections[Owner[c]] # c
    BY <2>1, <2>2, <2>4 DEF Removed, Replaced
  <2> QED BY <2>3, <2>4
<1>5. CASE UNCHANGED <<clients, userConnections>>
  BY <1>5 DEF Replaced
<1> QED BY <1>2, <1>3, <1>4, <1>5, RegistryUntouched

LEMMA PanicStep ==
    ASSUME Typed, HandlerInv, Replaced, PanicOnlyOfReconnected, [Next]_vars
    PROVE  PanicOnlyOfReconnected'
<1> USE DEF Typed, HandlerInv
<1>1. CASE HandleDisconnect
  <2> SUFFICES ASSUME pc' = "dead" PROVE PanicOnlyOfReconnected'
    BY DEF PanicOnlyOfReconnected, Running
  <2> DEFINE j == Head(events).cid
  <2>1. Removed(j) /\ Taken(j)
    BY <1>1, DisconnectRemoves
  <2> HIDE DEF j
  <2>2. /\ clients[j] # None /\ userConnections[Owner[j]] # j /\ session[j] = "closed"
        /\ j \in Clients /\ session' = session
    BY <2>1, ConstantsAssumption DEF Removed, Taken
  <2>3. PICK d \in Clients : d # j /\ Owner[d] = Owner[j] /\ session[d] # "new"
    BY <2>2 DEF Replaced
  <2> QED BY <2>2, <2>3 DEF PanicOnlyOfReconnected
<1>2. CASE HandleAddress
  BY <1>2, AddressAssigned DEF Assigned, PanicOnlyOfReconnected, Running
<1>3. CASE Peers
  BY <1>3, PeersAnnounce DEF Announced, PanicOnlyOfReconnected, Running
<1>4. CASE OvExecute
  BY <1>4, ExecuteOne DEF Executed, PanicOnlyOfReconnected, Running
<1>5. CASE ReceiveAuth \/ DenyClient \/ RegisterClient \/ KillSuperseded \/ AuthorizeClient
           \/ ReceiveReply
  BY <1>5 DEF ReceiveAuth, DenyClient, RegisterClient, AfterRegister, KillSuperseded,
              AuthorizeClient, ReceiveReply, PanicOnlyOfReconnected, Running
<1>6. CASE UNCHANGED vars
  BY <1>6 DEF vars, openvpnVars, PanicOnlyOfReconnected, Running
<1> QED BY <1>1, <1>2, <1>3, <1>4, <1>5, <1>6 DEF Next, Handler

(* The handler dies of a nil connection only where a user has connected    *)
(* again: neither an ADDRESS nor the DISCONNECT of a user's only           *)
(* connection ever finds its entry missing (manager.go:448, 460).          *)
THEOREM PanicsOnlyOfReconnected == Spec => []PanicOnlyOfReconnected
<1>1. Init => Replaced /\ PanicOnlyOfReconnected
  BY DEF Init, Replaced, PanicOnlyOfReconnected, Running
<1>2. Typed /\ HandlerInv /\ Replaced /\ [Next]_vars => Replaced'
  BY ReplacedStep
<1>3. Typed /\ HandlerInv /\ Replaced /\ PanicOnlyOfReconnected /\ [Next]_vars
        => PanicOnlyOfReconnected'
  BY PanicStep
<1> QED BY <1>1, <1>2, <1>3, HandlerAlways, PTL DEF Spec

-----------------------------------------------------------------------------
(***************************************************************************)
(* What is said on the socket, and in which order.                         *)
(***************************************************************************)
Told(c, a) ==
    \E i \in 1..Len(events) :
        events[i].type = "ADDRESS" /\ events[i].cid = c /\ events[i].address = a

LeavesBefore(d, c) ==
    \E i, j \in 1..Len(events) :
        /\ i < j
        /\ events[i].type = "DISCONNECT" /\ events[i].cid = d
        /\ events[j].type = "ADDRESS" /\ events[j].cid = c

(* A line written leaves those before it where they are.                   *)
LEMMA QueueGrows ==
    ASSUME TypeOK, NEW type, NEW c, NEW a, Announce(type, c, a), Says(type, c, a)
    PROVE  /\ \A d, t : Pending(t, d) => Pending(t, d)'
           /\ \A d, t : Pending(t, d)' => Pending(t, d) \/ (t = type /\ d = c)
           /\ \A d, e : LeavesBefore(d, e) => LeavesBefore(d, e)'
           /\ \A d, x : Told(d, x)' => Told(d, x) \/ (type = "ADDRESS" /\ d = c /\ x = a)
           /\ \A d : type = "ADDRESS" /\ Pending("DISCONNECT", d) => LeavesBefore(d, c)'
           /\ Pending(type, c)'
<1>1. /\ Len(events) \in Nat
      /\ Len(events') = Len(events) + 1
      /\ \A i \in 1..Len(events) : events'[i] = events[i]
      /\ events'[Len(events) + 1] = [type |-> type, cid |-> c, address |-> a]
  BY AnnounceOrder DEF TypeOK
<1>2. /\ \A i \in 1..Len(events') : i \in 1..Len(events) \/ i = Len(events) + 1
      /\ \A i \in 1..Len(events) : i \in 1..Len(events') /\ i < Len(events) + 1
      /\ Len(events) + 1 \in 1..Len(events')
      /\ events'[Len(events) + 1].cid = c /\ events'[Len(events) + 1].type = type
      /\ events'[Len(events) + 1].address = a
  BY <1>1
<1>3. /\ \A d, t : Pending(t, d) => Pending(t, d)'
      /\ \A d, t : Pending(t, d)' => Pending(t, d) \/ (t = type /\ d = c)
  BY <1>1, <1>2 DEF Pending
<1>4. \A d, e : LeavesBefore(d, e) => LeavesBefore(d, e)'
  BY <1>1, <1>2 DEF LeavesBefore
<1>5. \A d, x : Told(d, x)' => Told(d, x) \/ (type = "ADDRESS" /\ d = c /\ x = a)
  BY <1>1, <1>2 DEF Told
<1>6. \A d : type = "ADDRESS" /\ Pending("DISCONNECT", d) => LeavesBefore(d, c)'
  BY <1>1, <1>2 DEF Pending, LeavesBefore
<1>7. Pending(type, c)'
  BY <1>1, <1>2 DEF Pending
<1> QED BY <1>3, <1>4, <1>5, <1>6, <1>7

(* A reply written changes nothing for those who read events.              *)
LEMMA QueueAnswered ==
    ASSUME TypeOK, NEW c, NEW verb, Executed(verb, c)
    PROVE  /\ \A d, t : t # "REPLY" => (Pending(t, d)' <=> Pending(t, d))
           /\ \A d, e : LeavesBefore(d, e) => LeavesBefore(d, e)'
           /\ \A d, x : Told(d, x)' => Told(d, x)
<1>1. Announce("REPLY", None, None) /\ Says("REPLY", None, None)
  BY DEF Executed, Says
<1> QED BY <1>1, QueueGrows

(* Taking a line leaves the others on their way.                           *)
LEMMA QueueShrinks ==
    ASSUME TypeOK, QueueInv, NEW c, Taken(c)
    PROVE  /\ \A d, t : Pending(t, d) => Pending(t, d)' \/ (events[1].type = t /\ d = c)
           /\ \A d, t : Pending(t, d)' => Pending(t, d)
           /\ \A d, e : LeavesBefore(d, e) =>
                 LeavesBefore(d, e)' \/ (events[1].type = "DISCONNECT" /\ d = c)
           /\ \A d, x : Told(d, x)' =>
                 Told(d, x) /\ ~(events[1].type \in {"ADDRESS", "DISCONNECT"} /\ d = c)
<1>1. /\ Len(events) \in Nat /\ 1 \in 1..Len(events)
      /\ Len(events') = Len(events) - 1
      /\ \A i \in 1..Len(events) : i # 1 =>
             i - 1 \in 1..Len(events') /\ events'[i - 1] = events[i]
      /\ events[1].cid = c
  BY TakeOrder DEF Taken, TypeOK
<1>2. \A i \in 1..Len(events') :
          /\ events'[i] = events[i + 1] /\ i + 1 \in 1..Len(events)
          /\ events[i + 1].cid = c /\ events[i + 1].type = "ADDRESS" =>
                events[1].type \notin {"DISCONNECT", "ADDRESS"}
  BY Behind
<1>3. \A d, t : Pending(t, d) => Pending(t, d)' \/ (events[1].type = t /\ d = c)
  BY <1>1 DEF Pending
<1>4. \A d, x : Told(d, x)' =>
          Told(d, x) /\ ~(events[1].type \in {"ADDRESS", "DISCONNECT"} /\ d = c)
  BY <1>2 DEF Told
<1>5. ASSUME NEW d, NEW e, LeavesBefore(d, e), ~(events[1].type = "DISCONNECT" /\ d = c)
      PROVE  LeavesBefore(d, e)'
  <2> PICK i \in 1..Len(events), j \in 1..Len(events) :
             /\ i < j
             /\ events[i].type = "DISCONNECT" /\ events[i].cid = d
             /\ events[j].type = "ADDRESS" /\ events[j].cid = e
    BY <1>5 DEF LeavesBefore
  <2>1. i # 1
    BY <1>1, <1>5
  <2>2. j # 1 /\ i - 1 < j - 1
    BY <1>1, <2>1
  <2> QED BY <1>1, <2>1, <2>2 DEF LeavesBefore
<1>6. \A d, t : Pending(t, d)' => Pending(t, d)
  BY <1>2 DEF Pending
<1> QED BY <1>3, <1>4, <1>5, <1>6

-----------------------------------------------------------------------------
(***************************************************************************)
(* The kills.  A client-kill is decided of a connection that its user is   *)
(* no longer registered with; that is still so when it is executed, for    *)
(* two reasons.  The client it is for has had its CONNECT, so only a       *)
(* REAUTH registers it again; and the first kill is executed before the    *)
(* handler takes up anything else.                                         *)
(***************************************************************************)
KillComing(c) ==
    \/ pc = "kill" /\ job.old = c
    \/ \E i \in 1..Len(commands) : commands[i].verb = "client-kill" /\ commands[i].cid = c

KilledConnected ==
    \A c \in Clients : KillComing(c) =>
        /\ session[c] # "new" /\ ~Pending("CONNECT", c)
        /\ ~(pc = "authenticate" /\ ~job.reauth /\ job.cid = c)

FirstKill ==
    kills <= 1 => \A i \in 1..Len(commands) : commands[i].verb = "client-kill" =>
        /\ kills = 1 /\ i = 1 /\ pc \in {"authorize", "reply"}
        /\ RepliesIn(events) = {}

KillInv == KilledConnected /\ FirstKill

(* The commands hold commands about clients.                               *)
LEMMA CommandTyped ==
    ASSUME TypeOK, NEW i \in 1..Len(commands)
    PROVE  commands[i].cid \in Clients
<1>1. commands[i] \in Command
  BY DEF TypeOK
<1> QED BY <1>1 DEF Command

(* The lock section names a connection of the same user, and another one.  *)
LEMMA KillRegister ==
    ASSUME TypeOK, RegistryConsistent, RegisterClient, pc' = "kill"
    PROVE  /\ userConnections'[Owner[job'.old]] # job'.old
           /\ job'.old # job.cid /\ clients[job'.old] # None /\ job'.old \in Clients
<1> DEFINE c == job.cid
           old == Superseded(c, job.reauth)
           u == Owner[c]
<1>1. c \in Clients /\ u \in Users
  BY Registered
<1>2. job'.old = old /\ old # None
  BY Registered DEF AfterRegister
<1>3. ~job.reauth /\ old = Forgotten(c)[u]
  BY <1>2 DEF Superseded
<1>4. userConnections'[u] = c
  BY Registered
<1>5. old = userConnections[u]
  BY <1>1, <1>2, <1>3 DEF Forgotten, TypeOK
<1>6. Owner[old] = u /\ clients[old] # None /\ old \in Clients
  BY <1>1, <1>2, <1>5 DEF RegistryConsistent, TypeOK
<1>7. old # c
  <2> SUFFICES ASSUME old = c PROVE FALSE
    OBVIOUS
  <2>1. clients[c] # None /\ clients[c].user = u
    BY <1>1, <1>2, <1>5 DEF RegistryConsistent
  <2>2. Forgotten(c)[u] = None
    BY <1>1, <1>5, <2>1 DEF Forgotten, TypeOK
  <2> QED BY <1>2, <1>3, <2>2
<1> QED BY <1>2, <1>4, <1>6, <1>7

(* No kill comes but from a registration.                                  *)
LEMMA KillsDecided ==
    ASSUME TypeOK, RegistryConsistent, [Next]_vars, NEW c, KillComing(c)'
    PROVE  KillComing(c) \/ (RegisterClient /\ pc' = "kill" /\ job'.old = c)
<1>1. CASE Peers \/ UNCHANGED vars
  <2>1. UNCHANGED <<commands, pc, job>>
    BY <1>1, PeersAnnounce DEF Announced, vars
  <2> QED BY <2>1 DEF KillComing
<1>2. CASE OvExecute
  <2> PICK d \in Clients, verb \in Verbs : Executed(verb, d)
    BY <1>2, ExecuteOne
  <2>1. \A i \in 1..Len(commands') : commands'[i] = commands[i + 1] /\ i + 1 \in 1..Len(commands)
    BY FirstCommand
  <2>2. pc' = pc /\ job' = job
    BY DEF Executed
  <2> QED BY <2>1, <2>2 DEF KillComing
<1>3. CASE ReceiveAuth \/ HandleAddress \/ HandleDisconnect \/ ReceiveReply
  <2>1. commands' = commands
    BY <1>3, HandlerTakes, ReplyTaken DEF Taken
  <2>2. pc' # "kill"
    BY <1>3, HandlerTakes, ReplyTaken DEF ReceiveAuth, HandleAddress, HandleDisconnect
  <2> QED BY <2>1, <2>2 DEF KillComing
<1>4. CASE RegisterClient
  BY <1>4, Registered DEF KillComing
<1>5. CASE DenyClient \/ KillSuperseded \/ AuthorizeClient
  <2> PICK verb \in {"client-auth", "client-deny", "client-kill"}, d \in Clients :
              /\ Len(commands) \in Nat
              /\ Len(commands') = Len(commands) + 1
              /\ \A i \in 1..Len(commands) : commands'[i] = commands[i]
              /\ commands'[Len(commands) + 1].verb = verb
              /\ commands'[Len(commands) + 1].cid = d
              /\ \/ verb = "client-deny" /\ DenyClient
                 \/ verb = "client-kill" /\ KillSuperseded /\ d = job.old
                 \/ verb = "client-auth" /\ AuthorizeClient /\ d = job.cid
    BY <1>5, HandlerSends
  <2>1. pc' # "kill"
    BY <1>5 DEF DenyClient, KillSuperseded, AuthorizeClient
  <2> PICK i \in 1..Len(commands') : commands'[i].verb = "client-kill" /\ commands'[i].cid = c
    BY <2>1 DEF KillComing
  <2>2. CASE i \in 1..Len(commands)
    BY <2>2 DEF KillComing
  <2>3. CASE i = Len(commands) + 1
    BY <2>3 DEF KillComing, KillSuperseded
  <2> QED BY <2>2, <2>3
<1> QED BY <1>1, <1>2, <1>3, <1>4, <1>5 DEF Next, Handler

LEMMA ConnectedStep ==
    ASSUME Typed, HandlerInv, KilledConnected, [Next]_vars PROVE KilledConnected'
<1> USE DEF Typed, HandlerInv
<1> SUFFICES ASSUME NEW c \in Clients, KillComing(c)'
             PROVE  /\ session'[c] # "new" /\ ~Pending("CONNECT", c)'
                    /\ ~(pc' = "authenticate" /\ ~job'.reauth /\ job'.cid = c)
  BY DEF KilledConnected
<1>1. CASE ~KillComing(c)
  <2>1. RegisterClient /\ pc' = "kill" /\ job'.old = c
    BY <1>1, KillsDecided
  <2>2. clients[c] # None
    BY <2>1, KillRegister
  <2>3. session[c] # "new"
    BY <2>2 DEF QueueInv, NewUnknown
  <2>4. ~Pending("CONNECT", c)
    BY <2>2 DEF HandledOnce, Pending
  <2>5. UNCHANGED <<session, events>>
    BY <2>1, HandlerWorks
  <2>6. ~Pending("CONNECT", c)'
    BY <2>4, <2>5 DEF Pending
  <2> QED BY <2>1, <2>3, <2>5, <2>6
<1>2. CASE KillComing(c)
  <2>1. /\ session[c] # "new" /\ ~Pending("CONNECT", c)
        /\ ~(pc = "authenticate" /\ ~job.reauth /\ job.cid = c)
    BY <1>2 DEF KilledConnected
  <2>2. session'[c] # "new"
    BY <2>1, NewNoMore
  <2>3. CASE Peers
    <3> PICK d \in Clients, type \in Types, a \in Addresses \cup {None} : Announced(type, d, a)
      BY <2>3, PeersAnnounce
    <3>1. pc' = pc /\ job' = job /\ ~(type = "CONNECT" /\ d = c)
      BY <2>1 DEF Announced
    <3>2. ~Pending("CONNECT", c)'
      BY <2>1, <3>1, QueueGrows DEF Announced
    <3> QED BY <2>1, <2>2, <3>1, <3>2
  <2>4. CASE OvExecute
    <3> PICK d \in Clients, verb \in Verbs : Executed(verb, d)
      BY <2>4, ExecuteOne
    <3>1. ~Pending("CONNECT", c)'
      BY <2>1, QueueAnswered
    <3> QED BY <2>1, <2>2, <3>1 DEF Executed
  <2>5. CASE ReceiveAuth
    <3> DEFINE j == Head(events).cid
    <3>1. Taken(j) /\ job'.cid = j /\ (~job'.reauth => Head(events).type = "CONNECT")
      BY <2>5, HandlerTakes DEF ReceiveAuth, NextEvent, NextLine
    <3>2. 1 \in 1..Len(events) /\ events[1] = Head(events)
      BY <3>1, FirstEvent
    <3>3. ~(~job'.reauth /\ job'.cid = c)
      BY <2>1, <3>1, <3>2 DEF Pending
    <3> HIDE DEF j
    <3>4. ~Pending("CONNECT", c)'
      BY <2>1, <3>1, QueueShrinks
    <3> QED BY <2>2, <3>3, <3>4
  <2>6. CASE HandleAddress \/ HandleDisconnect \/ ReceiveReply
    <3>1. PICK j : Taken(j)
      BY <2>6, HandlerTakes, ReplyTaken
    <3>2. ~Pending("CONNECT", c)'
      BY <2>1, <3>1, QueueShrinks
    <3>3. pc' # "authenticate"
      BY <2>6, HandlerTakes, ReplyTaken DEF HandleAddress, HandleDisconnect
    <3> QED BY <2>2, <3>2, <3>3
  <2>7. CASE DenyClient \/ RegisterClient \/ KillSuperseded \/ AuthorizeClient
    <3>1. events' = events /\ pc' # "authenticate"
      BY <2>7, HandlerWorks
      DEF DenyClient, RegisterClient, AfterRegister, KillSuperseded, AuthorizeClient
    <3> QED BY <2>1, <2>2, <3>1 DEF Pending
  <2>8. CASE UNCHANGED vars
    BY <2>1, <2>2, <2>8 DEF vars, Pending
  <2> QED BY <2>3, <2>4, <2>5, <2>6, <2>7, <2>8 DEF Next, Handler
<1> QED BY <1>1, <1>2

(* While no kill has been sent, whoever does not wait for a reply has the  *)
(* socket to itself.                                                       *)
LEMMA QuietUntilKill ==
    ASSUME TypeOK, RepliesLagByKills, kills = 0, pc # "reply"
    PROVE  Len(commands) = 0 /\ RepliesIn(events) = {}
<1>1. /\ Len(commands) \in Nat /\ Cardinality(RepliesIn(events)) \in Nat
      /\ IsFiniteSet(RepliesIn(events))
  BY RepliesFinite, LenProperties DEF TypeOK
<1>2. Len(commands) + Cardinality(RepliesIn(events)) = 0
  BY DEF RepliesLagByKills, RepliesDue, RepliesIn
<1>3. Len(commands) = 0 /\ Cardinality(RepliesIn(events)) = 0
  BY <1>1, <1>2
<1> QED BY <1>1, <1>3, FS_EmptySet

LEMMA FirstKillStep ==
    ASSUME Typed, HandlerInv, RepliesLagByKills, FirstKill, [Next]_vars PROVE FirstKill'
<1> USE DEF Typed, HandlerInv
<1> SUFFICES ASSUME kills' <= 1, NEW i \in 1..Len(commands'), commands'[i].verb = "client-kill"
             PROVE  /\ kills' = 1 /\ i = 1 /\ pc' \in {"authorize", "reply"}
                    /\ RepliesIn(events') = {}
  BY DEF FirstKill, RepliesIn
<1>0. kills \in Nat /\ commands \in Seq(Command) /\ Len(commands) \in Nat
  BY LenProperties DEF TypeOK
<1>1. CASE Peers
  <2> PICK c \in Clients, type \in Types, a \in Addresses \cup {None} : Announced(type, c, a)
    BY <1>1, PeersAnnounce
  <2>1. UNCHANGED <<commands, kills, pc>> /\ Announce(type, c, a) /\ Says(type, c, a)
        /\ type # "REPLY"
    BY DEF Announced
  <2>2. RepliesIn(events) = {} /\ kills = 1 /\ i = 1 /\ pc \in {"authorize", "reply"}
    BY <2>1 DEF FirstKill
  <2>3. Cardinality(RepliesIn(events')) = 0
    <3>1. Cardinality(RepliesIn(events)) = 0
      BY <2>2, FS_EmptySet
    <3> QED BY <2>1, <3>1, RepliesAnnounced DEF TypeOK
  <2>4. events' \in Seq(Event)
    BY <2>1, AnnounceType DEF TypeOK
  <2>5. RepliesIn(events') = {}
    BY <2>3, <2>4, RepliesFinite, FS_EmptySet
  <2> QED BY <2>1, <2>2, <2>5
<1>2. CASE OvExecute
  <2> PICK c \in Clients, verb \in Verbs : Executed(verb, c)
    BY <1>2, ExecuteOne
  <2>1. commands'[i] = commands[i + 1] /\ i + 1 \in 1..Len(commands) /\ kills' = kills
    BY FirstCommand DEF Executed
  <2>2. i + 1 = 1
    BY <2>1 DEF FirstKill
  <2> QED BY <2>2
<1>3. CASE ReceiveAuth \/ HandleAddress \/ HandleDisconnect
  <2>1. commands' = commands /\ kills' = kills /\ pc = "idle"
    BY <1>3, HandlerTakes DEF Taken
  <2> QED BY <2>1 DEF FirstKill
<1>4. CASE ReceiveReply
  <2>1. commands' = commands /\ kills' = kills /\ Taken(None) /\ Head(events).type = "REPLY"
    BY <1>4, ReplyTaken DEF Taken
  <2>2. 1 \in RepliesIn(events)
    BY <2>1, FirstEvent DEF RepliesIn
  <2> QED BY <2>1, <2>2 DEF FirstKill
<1>5. CASE RegisterClient
  <2>1. commands' = commands /\ kills' = kills /\ pc = "authenticate"
    BY <1>5, Registered
  <2> QED BY <2>1 DEF FirstKill
<1>6. CASE DenyClient \/ AuthorizeClient
  <2> PICK verb \in {"client-auth", "client-deny", "client-kill"}, d \in Clients :
              /\ Len(commands) \in Nat
              /\ Len(commands') = Len(commands) + 1
              /\ \A k \in 1..Len(commands) : commands'[k] = commands[k]
              /\ commands'[Len(commands) + 1].verb = verb
              /\ \/ verb = "client-deny" /\ DenyClient
                 \/ verb = "client-kill" /\ KillSuperseded /\ d = job.old
                 \/ verb = "client-auth" /\ AuthorizeClient /\ d = job.cid
    BY <1>6, HandlerSends
  <2>1. events' = events /\ kills' = kills /\ pc' = "reply" /\ ~KillSuperseded
    BY <1>6, HandlerWorks DEF DenyClient, AuthorizeClient, KillSuperseded
  <2>2. i \in 1..Len(commands)
    BY <2>1
  <2> QED BY <2>1, <2>2 DEF FirstKill
<1>7. CASE KillSuperseded
  <2>1. kills = 0 /\ kills' = 1 /\ pc = "kill" /\ pc' = "authorize" /\ events' = events
    BY <1>0, <1>7, HandlerWorks DEF KillSuperseded
  <2>2. Len(commands) = 0 /\ RepliesIn(events) = {}
    BY <2>1, QuietUntilKill
  <2>3. Len(commands') = Len(commands) + 1
    BY <1>7, HandlerSends
  <2> QED BY <2>1, <2>2, <2>3
<1>8. CASE UNCHANGED vars
  BY <1>8 DEF vars, FirstKill
<1> QED BY <1>1, <1>2, <1>3, <1>4, <1>5, <1>6, <1>7, <1>8 DEF Next, Handler

LEMMA KillStep ==
    ASSUME Typed, HandlerInv, KillInv, KillOnlySuperseded, [Next]_vars
    PROVE  KillOnlySuperseded'
<1> USE DEF Typed, HandlerInv, KillInv
<1> SUFFICES ASSUME kills' <= 1 \/ reauths' = 0
             PROVE  /\ pc' = "kill" => userConnections'[Owner[job'.old]] # job'.old
                    /\ \A i \in 1..Len(commands') :
                           commands'[i].verb = "client-kill"
                           => userConnections'[Owner[commands'[i].cid]] # commands'[i].cid
  BY DEF KillOnlySuperseded
<1>0. kills <= 1 \/ reauths = 0
  <2>1. kills \in Nat /\ reauths \in Nat
    BY DEF TypeOK
  <2>2. (kills' = kills \/ kills' = kills + 1) /\ (reauths' = reauths \/ reauths' = reauths + 1)
    <3>1. CASE Peers
      BY <3>1, PeersAnnounce DEF Announced
    <3>2. CASE OvExecute
      BY <3>2, ExecuteOne DEF Executed
    <3>3. CASE Handler
      BY <3>3 DEF Handler, ReceiveAuth, DenyClient, RegisterClient, KillSuperseded,
                  AuthorizeClient, ReceiveReply, HandleAddress, HandleDisconnect, openvpnVars
    <3>4. CASE UNCHANGED vars
      BY <3>4 DEF vars, openvpnVars
    <3> QED BY <3>1, <3>2, <3>3, <3>4 DEF Next
  <2> QED BY <2>1, <2>2
<1>1. ASSUME NEW c \in Clients, KillComing(c)' PROVE userConnections'[Owner[c]] # c
  <2>0. Owner[c] \in Users
    BY ConstantsAssumption
  <2>1. CASE ~KillComing(c)
    BY <1>1, <2>1, KillsDecided, KillRegister
  <2>2. CASE KillComing(c)
    <3>1. userConnections[Owner[c]] # c
      BY <1>0, <2>2 DEF KillOnlySuperseded, KillComing
    <3>2. CASE RegisterClient
      <4>1. pc = "authenticate" /\ (pc = "kill" \/ ~(pc \in {"authorize", "reply"}))
        BY <3>2, Registered
      <4>2. reauths = 0
        BY <1>0, <2>2, <4>1 DEF FirstKill, KillComing
      <4>3. ~job.reauth
        BY <4>2 DEF ReauthsCounted
      <4>4. job.cid # c
        BY <2>2, <4>1, <4>3 DEF KilledConnected
      <4> QED BY <2>0, <3>1, <3>2, <4>4, Registered
    <3>3. CASE HandleDisconnect
      BY <2>0, <3>1, <3>3, DisconnectRemoves, ConstantsAssumption DEF Removed
    <3>4. CASE HandleAddress
      BY <3>1, <3>4, AddressAssigned DEF Assigned
    <3> QED BY <3>1, <3>2, <3>3, <3>4, RegistryUntouched
  <2> QED BY <2>1, <2>2
<1>2. TypeOK'
  BY TypeStep
<1>3. ASSUME pc' = "kill" PROVE userConnections'[Owner[job'.old]] # job'.old
  <2>1. job'.old \in Clients
    BY <1>2, <1>3 DEF TypeOK
  <2>2. PICK d \in Clients : d = job'.old
    BY <2>1
  <2>3. KillComing(d)'
    BY <1>3, <2>2 DEF KillComing
  <2> QED BY <1>1, <2>2, <2>3
<1>4. ASSUME NEW i \in 1..Len(commands'), commands'[i].verb = "client-kill"
      PROVE  userConnections'[Owner[commands'[i].cid]] # commands'[i].cid
  <2>1. commands'[i] \in Command
    BY <1>2 DEF TypeOK
  <2>2. PICK d \in Clients : d = commands'[i].cid
    BY <2>1 DEF Command
  <2>3. KillComing(d)'
    BY <1>4, <2>2 DEF KillComing
  <2> QED BY <1>1, <2>2, <2>3
<1> QED BY <1>3, <1>4

(* The kill that was decided of under the lock and sent after it never     *)
(* hits the connection its user has, as far as replies are read in time or *)
(* nobody renegotiates (manager.go:380-407).                               *)
THEOREM KillsOnlySuperseded == Spec => []KillOnlySuperseded
<1>1. Init => KillInv /\ KillOnlySuperseded
  <2> SUFFICES ASSUME Init PROVE KillInv /\ KillOnlySuperseded
    OBVIOUS
  <2>1. Len(commands) = 0 /\ pc = "idle"
    BY DEF Init
  <2> QED BY <2>1 DEF KillInv, KilledConnected, FirstKill, KillComing, KillOnlySuperseded
<1>2. Typed /\ HandlerInv /\ RepliesLagByKills /\ KillInv /\ [Next]_vars => KillInv'
  BY ConnectedStep, FirstKillStep DEF KillInv
<1>3. Typed /\ HandlerInv /\ KillInv /\ KillOnlySuperseded /\ [Next]_vars => KillOnlySuperseded'
  BY KillStep
<1> QED BY <1>1, <1>2, <1>3, HandlerAlways, RepliesLag, PTL DEF Spec

-----------------------------------------------------------------------------
(***************************************************************************)
(* The sessions.  Commands that are sent and those the handler is about to *)
(* send make one queue.  Until somebody renegotiates, a client that is in, *)
(* or will be, is the one its user is registered with, or its client-kill  *)
(* is in that queue, before any client-auth that comes after its own.      *)
(***************************************************************************)
Kill(c, i) ==
    \/ /\ i \in 1..Len(commands)
       /\ commands[i].verb = "client-kill" /\ commands[i].cid = c
    \/ pc = "kill" /\ i = Len(commands) + 1 /\ job.old = c

Auth(c, i) ==
    \/ /\ i \in 1..Len(commands)
       /\ commands[i].verb = "client-auth" /\ commands[i].cid = c
    \/ pc = "kill" /\ i = Len(commands) + 2 /\ job.cid = c
    \/ pc = "authorize" /\ i = Len(commands) + 1 /\ job.cid = c

IsIn(c) == session[c] \in {"authorized", "established"}

Entering(c) == session[c] \in {"new", "connecting"}

Rivals(c, d) == c # d /\ Owner[c] = Owner[d]

KilledBefore ==
    \A c, d \in Clients : \A i \in Nat :
        Auth(c, i) /\ Rivals(c, d) /\ IsIn(d) => \E j \in Nat : j < i /\ Kill(d, j)

KilledBetween ==
    \A c, d \in Clients : \A i, k \in Nat :
        Entering(c) /\ Auth(c, i) /\ Auth(d, k) /\ i < k /\ Rivals(c, d) =>
            \E j \in Nat : i < j /\ j < k /\ Kill(c, j)

CurrentIn ==
    \A c \in Clients : IsIn(c) => userConnections[Owner[c]] = c \/ \E j \in Nat : Kill(c, j)

CurrentEntering ==
    \A c \in Clients : \A i \in Nat : Entering(c) /\ Auth(c, i) =>
        userConnections[Owner[c]] = c \/ \E j \in Nat : i < j /\ Kill(c, j)

AdmissionInv == reauths = 0 => KilledBefore /\ KilledBetween /\ CurrentIn /\ CurrentEntering

(* Steps that only move a command from the handler to the socket, or have  *)
(* nothing to do with commands.                                            *)
LEMMA AdmissionStill ==
    ASSUME TypeOK, AdmissionInv, reauths' = 0 => reauths = 0,
           \A c, i : (Kill(c, i) => Kill(c, i)') /\ (Auth(c, i)' => Auth(c, i)),
           \A c \in Clients : /\ IsIn(c)' => IsIn(c)
                              /\ Entering(c)' => Entering(c)
                              /\ session'[c] # "closed" /\ userConnections[Owner[c]] = c
                                    => userConnections'[Owner[c]] = c
    PROVE  AdmissionInv'
<1> SUFFICES ASSUME reauths = 0
             PROVE  KilledBefore' /\ KilledBetween' /\ CurrentIn' /\ CurrentEntering'
  BY DEF AdmissionInv
<1>1. KilledBefore'
  BY DEF AdmissionInv, KilledBefore, Rivals
<1>2. KilledBetween'
  BY DEF AdmissionInv, KilledBetween, Rivals
<1>3. CurrentIn'
  <2> SUFFICES ASSUME NEW c \in Clients, IsIn(c)'
               PROVE  userConnections'[Owner[c]] = c \/ \E j \in Nat : Kill(c, j)'
    BY DEF CurrentIn
  <2>1. session'[c] # "closed"
    BY DEF IsIn
  <2> QED BY <2>1 DEF AdmissionInv, CurrentIn
<1>4. CurrentEntering'
  <2> SUFFICES ASSUME NEW c \in Clients, NEW i \in Nat, Entering(c)', Auth(c, i)'
               PROVE  userConnections'[Owner[c]] = c \/ \E j \in Nat : i < j /\ Kill(c, j)'
    BY DEF CurrentEntering
  <2>1. session'[c] # "closed"
    BY DEF Entering
  <2> QED BY <2>1 DEF AdmissionInv, CurrentEntering
<1> QED BY <1>1, <1>2, <1>3, <1>4

(* The queue moves up when its head is executed.                           *)
LEMMA SlotsShift ==
    ASSUME TypeOK, NEW e \in Clients, NEW verb, Executed(verb, e)
    PROVE  /\ \A c, i : Auth(c, i) \/ Kill(c, i) => i \in Nat \ {0}
           /\ \A c : \A i \in Nat : Auth(c, i)' => Auth(c, i + 1)
           /\ \A c : \A i \in Nat : Kill(c, i) =>
                 Kill(c, i - 1)' \/ (i = 1 /\ verb = "client-kill" /\ c = e)
           /\ verb = "client-auth" => Auth(e, 1)
           /\ verb = "client-kill" => KillComing(e)
<1>1. /\ 1 \in 1..Len(commands) /\ commands[1].verb = verb /\ commands[1].cid = e
      /\ Len(commands) \in Nat /\ Len(commands') = Len(commands) - 1
      /\ \A i \in 1..Len(commands') :
             commands'[i] = commands[i + 1] /\ i + 1 \in 1..Len(commands)
      /\ \A i \in 1..Len(commands) : i # 1 =>
             i - 1 \in 1..Len(commands') /\ commands'[i - 1] = commands[i]
  BY FirstCommand
<1>2. UNCHANGED <<pc, job>>
  BY DEF Executed
<1>3. \A c, i : Auth(c, i) \/ Kill(c, i) => i \in Nat \ {0}
  BY <1>1 DEF Auth, Kill
<1>4. ASSUME NEW c, NEW i \in Nat, Auth(c, i)' PROVE Auth(c, i + 1)
  <2>1. CASE i \in 1..Len(commands') /\ commands'[i].verb = "client-auth" /\ commands'[i].cid = c
    BY <1>1, <2>1 DEF Auth
  <2>2. CASE pc' = "kill" /\ i = Len(commands') + 2 /\ job'.cid = c
    BY <1>1, <1>2, <2>2 DEF Auth
  <2>3. CASE pc' = "authorize" /\ i = Len(commands') + 1 /\ job'.cid = c
    BY <1>1, <1>2, <2>3 DEF Auth
  <2> QED BY <1>4, <2>1, <2>2, <2>3 DEF Auth
<1>5. ASSUME NEW c, NEW i \in Nat, Kill(c, i), ~(i = 1 /\ verb = "client-kill" /\ c = e)
      PROVE  Kill(c, i - 1)'
  <2>1. CASE i \in 1..Len(commands) /\ commands[i].verb = "client-kill" /\ commands[i].cid = c
    <3>1. i # 1
      BY <1>1, <1>5, <2>1
    <3> QED BY <1>1, <2>1, <3>1 DEF Kill
  <2>2. CASE pc = "kill" /\ i = Len(commands) + 1 /\ job.old = c
    BY <1>1, <1>2, <2>2 DEF Kill
  <2> QED BY <1>5, <2>1, <2>2 DEF Kill
<1> QED BY <1>1, <1>3, <1>4, <1>5 DEF Auth, KillComing

LEMMA AdmissionExecuted ==
    ASSUME Typed, KillInv, AdmissionInv, NEW e \in Clients, NEW verb, Executed(verb, e)
    PROVE  AdmissionInv'
<1> USE DEF Typed
<1> SUFFICES ASSUME reauths = 0
             PROVE  KilledBefore' /\ KilledBetween' /\ CurrentIn' /\ CurrentEntering'
  BY DEF AdmissionInv, Executed
<1>1. /\ \A c, i : Auth(c, i) \/ Kill(c, i) => i \in Nat \ {0}
      /\ \A c : \A i \in Nat : Auth(c, i)' => Auth(c, i + 1)
      /\ \A c : \A i \in Nat : Kill(c, i) =>
            Kill(c, i - 1)' \/ (i = 1 /\ verb = "client-kill" /\ c = e)
  BY SlotsShift
<1>2. verb = "client-kill" => session[e] # "new"
  BY SlotsShift DEF KillInv, KilledConnected
<1>3. userConnections' = userConnections
  BY DEF Executed
<1>4. \A c \in Clients :
          /\ Entering(c)' => Entering(c) /\ ~(verb = "client-kill" /\ c = e)
          /\ IsIn(c)' => /\ IsIn(c) \/ (Entering(c) /\ Auth(c, 1))
                         /\ ~(verb = "client-kill" /\ c = e)
  BY <1>2, SlotsShift DEF Executed, Doomed, Entering, IsIn
<1>5. ASSUME NEW c, NEW j \in Nat, Kill(c, j), ~(verb = "client-kill" /\ c = e)
      PROVE  j - 1 \in Nat /\ Kill(c, j - 1)'
  BY <1>1, <1>5
<1>6. KilledBefore'
  <2> SUFFICES ASSUME NEW c \in Clients, NEW d \in Clients, NEW i \in Nat,
                      Auth(c, i)', Rivals(c, d), IsIn(d)'
               PROVE  \E j \in Nat : j < i /\ Kill(d, j)'
    BY DEF KilledBefore, Rivals
  <2>1. Auth(c, i + 1) /\ i + 1 \in Nat /\ i # 0
    <3>1. Auth(c, i + 1)
      BY <1>1
    <3>2. Len(commands') \in Nat /\ i # 0
      BY FirstCommand DEF Auth
    <3> QED BY <3>1, <3>2
  <2>2. PICK j \in Nat : j < i + 1 /\ Kill(d, j)
    <3>1. CASE IsIn(d)
      BY <2>1, <3>1 DEF AdmissionInv, KilledBefore
    <3>2. CASE Entering(d) /\ Auth(d, 1)
      <4>1. 1 < i + 1 /\ Rivals(d, c)
        BY <2>1 DEF Rivals
      <4> QED BY <2>1, <3>2, <4>1 DEF AdmissionInv, KilledBetween
    <3> QED BY <1>4, <3>1, <3>2
  <2>3. j - 1 \in Nat /\ Kill(d, j - 1)'
    BY <1>4, <1>5, <2>2
  <2> QED BY <2>2, <2>3
<1>7. KilledBetween'
  <2> SUFFICES ASSUME NEW c \in Clients, NEW d \in Clients, NEW i \in Nat, NEW k \in Nat,
                      Entering(c)', Auth(c, i)', Auth(d, k)', i < k, Rivals(c, d)
               PROVE  \E j \in Nat : i < j /\ j < k /\ Kill(c, j)'
    BY DEF KilledBetween, Rivals
  <2>1. Auth(c, i + 1) /\ Auth(d, k + 1) /\ i + 1 \in Nat /\ k + 1 \in Nat /\ i + 1 < k + 1
    BY <1>1
  <2>2. PICK j \in Nat : i + 1 < j /\ j < k + 1 /\ Kill(c, j)
    BY <1>4, <2>1 DEF AdmissionInv, KilledBetween
  <2>3. j - 1 \in Nat /\ Kill(c, j - 1)'
    BY <1>4, <1>5, <2>2
  <2> QED BY <2>2, <2>3
<1>8. CurrentIn'
  <2> SUFFICES ASSUME NEW c \in Clients, IsIn(c)', userConnections[Owner[c]] # c
               PROVE  \E j \in Nat : Kill(c, j)'
    BY <1>3 DEF CurrentIn
  <2>1. PICK j \in Nat : Kill(c, j)
    BY <1>4 DEF AdmissionInv, CurrentIn, CurrentEntering
  <2> QED BY <1>4, <1>5, <2>1
<1>9. CurrentEntering'
  <2> SUFFICES ASSUME NEW c \in Clients, NEW i \in Nat, Entering(c)', Auth(c, i)',
                      userConnections[Owner[c]] # c
               PROVE  \E j \in Nat : i < j /\ Kill(c, j)'
    BY <1>3 DEF CurrentEntering
  <2>1. Auth(c, i + 1) /\ i + 1 \in Nat
    BY <1>1
  <2>2. PICK j \in Nat : i + 1 < j /\ Kill(c, j)
    BY <1>4, <2>1 DEF AdmissionInv, CurrentEntering
  <2>3. j - 1 \in Nat /\ Kill(c, j - 1)'
    BY <1>4, <1>5, <2>2
  <2> QED BY <2>2, <2>3
<1> QED BY <1>6, <1>7, <1>8, <1>9

(* The lock section puts the kill of the user's entry, if there is one,    *)
(* and the authorization at the end of the queue.                          *)
LEMMA AdmissionRegisters ==
    ASSUME Typed, HandlerInv, AdmissionInv, RegisterClient PROVE AdmissionInv'
<1> USE DEF Typed, HandlerInv
<1> PICK e \in Clients : e = job.cid
  BY Registered
<1> PICK n \in Nat : n = Len(commands)
  BY LenProperties DEF TypeOK
<1> PICK old : old = userConnections[Owner[e]]
  OBVIOUS
<1>1. UNCHANGED <<session, reauths, commands>> /\ pc = "authenticate" /\ Len(commands') = n
  BY HandlerWorks, Registered
<1> SUFFICES ASSUME reauths = 0
             PROVE  KilledBefore' /\ KilledBetween' /\ CurrentIn' /\ CurrentEntering'
  BY <1>1 DEF AdmissionInv
<1>2. e \in Clients /\ Owner[e] \in Users /\ ~job.reauth
  BY Registered DEF ReauthsCounted
<1>3. clients[e] = None
  BY <1>1, <1>2 DEF HandledOnce
<1>4. job'.cid = e /\ job'.old = old /\ pc' = AfterRegister(old)
  <2>1. Superseded(e, job.reauth) = old
    BY <1>2, <1>3 DEF Superseded, Forgotten
  <2> QED BY <2>1, Registered
<1>5. /\ userConnections'[Owner[e]] = e
      /\ \A c \in Clients : Owner[c] # Owner[e] =>
            userConnections'[Owner[c]] = userConnections[Owner[c]]
  BY <1>2, Registered, ConstantsAssumption
<1>6. \A c, i : /\ Kill(c, i) => Kill(c, i)' /\ i \in 1..n
                /\ Auth(c, i) => i \in 1..n
  BY <1>1 DEF Kill, Auth
<1>7. \A c, i : Auth(c, i)' => Auth(c, i) \/ (c = e /\ i > n /\ i \in Nat)
  BY <1>1, <1>4 DEF Auth
<1>8. \A c \in Clients : old = c => Kill(c, n + 1)' /\ (Auth(e, n + 2)' /\ ~Auth(e, n + 1)')
  BY <1>1, <1>4, ConstantsAssumption DEF Kill, Auth, AfterRegister
<1>9. \A c \in Clients : \A i \in Nat : old = c /\ Auth(e, i)' => i \in 1..n \/ n + 1 < i
  <2> SUFFICES ASSUME NEW c \in Clients, NEW i \in Nat, old = c, Auth(e, i)', i \notin 1..n
               PROVE  n + 1 < i
    OBVIOUS
  <2>1. i > n
    BY <1>6, <1>7
  <2>2. i # n + 1
    BY <1>8
  <2> QED BY <2>1, <2>2
<1>10. KilledBefore'
  <2> SUFFICES ASSUME NEW c \in Clients, NEW d \in Clients, NEW i \in Nat,
                      Auth(c, i)', Rivals(c, d), IsIn(d)'
               PROVE  \E j \in Nat : j < i /\ Kill(d, j)'
    BY DEF KilledBefore, Rivals
  <2>0. IsIn(d)
    BY <1>1 DEF IsIn
  <2>1. CASE Auth(c, i)
    BY <1>6, <2>0, <2>1 DEF AdmissionInv, KilledBefore
  <2>2. CASE c = e /\ i > n
    <3>1. CASE userConnections[Owner[d]] = d
      <4>1. old = d
        BY <2>2, <3>1 DEF Rivals
      <4>2. Kill(d, n + 1)' /\ n + 1 < i /\ n + 1 \in Nat
        BY <1>1, <1>8, <1>9, <2>2, <4>1
      <4> QED BY <4>2
    <3>2. CASE \E j \in Nat : Kill(d, j)
      <4> PICK j \in Nat : Kill(d, j)
        BY <3>2
      <4>1. j < i /\ Kill(d, j)'
        BY <1>1, <1>6, <2>2
      <4> QED BY <4>1
    <3> QED BY <2>0, <3>1, <3>2 DEF AdmissionInv, CurrentIn
  <2> QED BY <1>7, <2>1, <2>2
<1>11. KilledBetween'
  <2> SUFFICES ASSUME NEW c \in Clients, NEW d \in Clients, NEW i \in Nat, NEW k \in Nat,
                      Entering(c)', Auth(c, i)', Auth(d, k)', i < k, Rivals(c, d)
               PROVE  \E j \in Nat : i < j /\ j < k /\ Kill(c, j)'
    BY DEF KilledBetween, Rivals
  <2>0. Entering(c)
    BY <1>1 DEF Entering
  <2>1. CASE Auth(c, i) /\ Auth(d, k)
    BY <1>6, <2>0, <2>1 DEF AdmissionInv, KilledBetween
  <2>2. CASE Auth(c, i) /\ d = e /\ k > n
    <3>0. i \in 1..n
      BY <1>6, <2>2
    <3>1. CASE userConnections[Owner[c]] = c
      <4>1. old = c
        BY <2>2, <3>1 DEF Rivals
      <4>2. Kill(c, n + 1)' /\ n + 1 < k /\ i < n + 1 /\ n + 1 \in Nat
        BY <1>1, <1>8, <1>9, <2>2, <3>0, <4>1
      <4> QED BY <4>2
    <3>2. CASE \E j \in Nat : i < j /\ Kill(c, j)
      <4> PICK j \in Nat : i < j /\ Kill(c, j)
        BY <3>2
      <4>1. j < k /\ Kill(c, j)'
        BY <1>1, <1>6, <2>2
      <4> QED BY <4>1
    <3> QED BY <2>0, <2>2, <3>1, <3>2 DEF AdmissionInv, CurrentEntering
  <2>3. CASE c = e /\ i > n
    <3>1. d # e
      BY <2>3 DEF Rivals
    <3>2. k \in 1..n
      BY <1>6, <1>7, <3>1
    <3> QED BY <1>1, <2>3, <3>2
  <2> QED BY <1>7, <2>1, <2>2, <2>3
<1>12. CurrentIn'
  <2> SUFFICES ASSUME NEW c \in Clients, IsIn(c)'
               PROVE  userConnections'[Owner[c]] = c \/ \E j \in Nat : Kill(c, j)'
    BY DEF CurrentIn
  <2>0. IsIn(c)
    BY <1>1 DEF IsIn
  <2>1. CASE \E j \in Nat : Kill(c, j)
    BY <1>6, <2>1
  <2>2. CASE userConnections[Owner[c]] = c
    <3>1. CASE Owner[c] = Owner[e]
      <4>1. old = c /\ n + 1 \in Nat
        BY <1>1, <2>2, <3>1
      <4> QED BY <1>8, <4>1
    <3>2. CASE Owner[c] # Owner[e]
      BY <1>5, <2>2, <3>2
    <3> QED BY <3>1, <3>2
  <2> QED BY <2>0, <2>1, <2>2 DEF AdmissionInv, CurrentIn
<1>13. CurrentEntering'
  <2> SUFFICES ASSUME NEW c \in Clients, NEW i \in Nat, Entering(c)', Auth(c, i)'
               PROVE  userConnections'[Owner[c]] = c \/ \E j \in Nat : i < j /\ Kill(c, j)'
    BY DEF CurrentEntering
  <2>0. Entering(c)
    BY <1>1 DEF Entering
  <2>1. CASE c = e
    BY <1>5, <2>1
  <2>2. CASE Auth(c, i)
    <3>0. i \in 1..n
      BY <1>6, <2>2
    <3>1. CASE \E j \in Nat : i < j /\ Kill(c, j)
      BY <1>6, <3>1
    <3>2. CASE userConnections[Owner[c]] = c
      <4>1. CASE Owner[c] = Owner[e]
        <5>1. old = c /\ n + 1 \in Nat /\ i < n + 1
          BY <1>1, <3>0, <3>2, <4>1
        <5> QED BY <1>8, <5>1
      <4>2. CASE Owner[c] # Owner[e]
        BY <1>5, <3>2, <4>2
      <4> QED BY <4>1, <4>2
    <3> QED BY <2>0, <2>2, <3>1, <3>2 DEF AdmissionInv, CurrentEntering
  <2> QED BY <1>7, <2>1, <2>2
<1> QED BY <1>10, <1>11, <1>12, <1>13

(* A command sent takes the place it had.                                  *)
LEMMA SlotsKept ==
    ASSUME TypeOK, DenyClient \/ KillSuperseded \/ AuthorizeClient
    PROVE  \A c, i : (Kill(c, i) => Kill(c, i)') /\ (Auth(c, i)' => Auth(c, i))
<1>1. PICK verb \in {"client-auth", "client-deny", "client-kill"}, d \in Clients :
              /\ Len(commands) \in Nat
              /\ Len(commands') = Len(commands) + 1
              /\ \A i \in 1..Len(commands) : commands'[i] = commands[i]
              /\ commands'[Len(commands) + 1].verb = verb
              /\ commands'[Len(commands) + 1].cid = d
              /\ \/ verb = "client-deny" /\ DenyClient
                 \/ verb = "client-kill" /\ KillSuperseded /\ d = job.old
                 \/ verb = "client-auth" /\ AuthorizeClient /\ d = job.cid
  BY HandlerSends
<1>2. /\ \A i : i \in 1..Len(commands') <=> i \in 1..Len(commands) \/ i = Len(commands) + 1
      /\ Len(commands) + 1 \notin 1..Len(commands)
      /\ Len(commands') + 1 = Len(commands) + 2
  BY <1>1
<1>3. CASE verb = "client-deny"
  <2>1. pc = "authenticate" /\ pc' = "reply"
    BY <1>1, <1>3 DEF DenyClient
  <2> QED BY <1>1, <1>2, <1>3, <2>1 DEF Kill, Auth
<1>4. CASE verb = "client-kill"
  <2>1. pc = "kill" /\ pc' = "authorize" /\ job' = job /\ d = job.old
    BY <1>1, <1>4 DEF KillSuperseded
  <2> QED BY <1>1, <1>2, <1>4, <2>1 DEF Kill, Auth
<1>5. CASE verb = "client-auth"
  <2>1. pc = "authorize" /\ pc' = "reply" /\ d = job.cid
    BY <1>1, <1>5 DEF AuthorizeClient
  <2> QED BY <1>1, <1>2, <1>5, <2>1 DEF Kill, Auth
<1> QED BY <1>3, <1>4, <1>5

LEMMA AdmissionStep ==
    ASSUME Typed, HandlerInv, KillInv, AdmissionInv, [Next]_vars PROVE AdmissionInv'
<1> USE DEF Typed, HandlerInv
<1>1. CASE Peers
  <2> PICK e \in Clients, type \in Types, a \in Addresses \cup {None} : Announced(type, e, a)
    BY <1>1, PeersAnnounce
  <2>1. reauths' = 0 => reauths = 0
    <3>1. reauths \in Nat
      BY DEF TypeOK
    <3> QED BY <3>1 DEF Announced
  <2>2. UNCHANGED <<commands, pc, job, userConnections>>
    BY DEF Announced
  <2>3. \A c \in Clients : (IsIn(c)' => IsIn(c)) /\ (Entering(c)' => Entering(c))
    BY DEF Announced, IsIn, Entering
  <2>4. \A c, i : (Kill(c, i) => Kill(c, i)') /\ (Auth(c, i)' => Auth(c, i))
    BY <2>2 DEF Kill, Auth
  <2> QED BY <2>1, <2>2, <2>3, <2>4, AdmissionStill
<1>2. CASE OvExecute
  BY <1>2, ExecuteOne, AdmissionExecuted
<1>3. CASE ReceiveAuth \/ HandleAddress \/ HandleDisconnect \/ ReceiveReply
  <2>1. UNCHANGED <<session, reauths, commands>>
    BY <1>3, HandlerTakes, ReplyTaken DEF Taken
  <2>2. /\ pc \notin {"kill", "authorize"} /\ pc' \notin {"kill", "authorize"}
    BY <1>3, HandlerTakes, ReplyTaken DEF ReceiveAuth, HandleAddress, HandleDisconnect
  <2>3. \A c, i : (Kill(c, i) => Kill(c, i)') /\ (Auth(c, i)' => Auth(c, i))
    BY <2>1, <2>2 DEF Kill, Auth
  <2>4. \A c \in Clients : (IsIn(c)' => IsIn(c)) /\ (Entering(c)' => Entering(c))
    BY <2>1 DEF IsIn, Entering
  <2>5. ASSUME NEW c \in Clients, session'[c] # "closed", userConnections[Owner[c]] = c
        PROVE  userConnections'[Owner[c]] = c
    <3>1. CASE HandleDisconnect
      BY <2>1, <2>5, <3>1, DisconnectRemoves, ConstantsAssumption DEF Removed
    <3>2. CASE ReceiveAuth \/ HandleAddress \/ ReceiveReply
      BY <2>5, <3>2 DEF ReceiveAuth, HandleAddress, ReceiveReply
    <3> QED BY <1>3, <3>1, <3>2
  <2> QED BY <2>1, <2>3, <2>4, <2>5, AdmissionStill
<1>4. CASE DenyClient \/ KillSuperseded \/ AuthorizeClient
  <2>1. UNCHANGED <<session, reauths, userConnections>>
    BY <1>4, HandlerWorks DEF DenyClient, KillSuperseded, AuthorizeClient
  <2>2. \A c \in Clients : (IsIn(c)' => IsIn(c)) /\ (Entering(c)' => Entering(c))
    BY <2>1 DEF IsIn, Entering
  <2> QED BY <1>4, <2>1, <2>2, SlotsKept, AdmissionStill
<1>5. CASE UNCHANGED vars
  <2>1. UNCHANGED <<session, reauths, commands, pc, job, userConnections>>
    BY <1>5 DEF vars, openvpnVars
  <2>2. \A c, i : (Kill(c, i) => Kill(c, i)') /\ (Auth(c, i)' => Auth(c, i))
    BY <2>1 DEF Kill, Auth
  <2>3. \A c \in Clients : (IsIn(c)' => IsIn(c)) /\ (Entering(c)' => Entering(c))
    BY <2>1 DEF IsIn, Entering
  <2> QED BY <2>1, <2>2, <2>3, AdmissionStill
<1> QED BY <1>1, <1>2, <1>3, <1>4, <1>5, AdmissionRegisters DEF Next, Handler

(* A client-auth lets in a client of a user with no other session, unless  *)
(* somebody has renegotiated.                                              *)
LEMMA AdmitsAlone ==
    ASSUME TypeOK, AdmissionInv, NEW c \in Clients, Executed("client-auth", c),
           reauths = 0, NEW d \in Clients, d # c, Owner[d] = Owner[c]
    PROVE  ~IsIn(d)
<1>1. Auth(c, 1) /\ \A j : Kill(d, j) => j \in Nat \ {0}
  BY SlotsShift
<1>2. Rivals(c, d)
  BY DEF Rivals
<1>3. ASSUME IsIn(d) PROVE FALSE
  <2>1. PICK j \in Nat : j < 1 /\ Kill(d, j)
    BY <1>1, <1>2, <1>3 DEF AdmissionInv, KilledBefore
  <2>2. j = 0
    BY <2>1
  <2> QED BY <1>1, <2>1, <2>2
<1> QED BY <1>3

SessionVars == <<[c \in Clients |-> Status(c)], reauths > 0>>

(* What a step does to the sessions: one client's status may change.       *)
Moves(c) ==
    /\ (reauths > 0)' = (reauths > 0)
    /\ \A d \in Clients : d # c => Status(d)' = Status(d)

LEMMA MovesSession ==
    ASSUME NEW c \in Clients, Moves(c)
    PROVE  /\ [d \in Clients |-> Status(d)]' =
                 [[d \in Clients |-> Status(d)] EXCEPT ![c] = Status(c)']
           /\ Status(c)' = Status(c) => UNCHANGED SessionVars
           /\ Status(c) \in {"out", "in"} /\ Status(c)' = "gone" => Sessions!Next
           /\ /\ Status(c) = "out" /\ Status(c)' = "in"
              /\ reauths > 0 \/ \A d \in Clients \ {c} : Owner[d] = Owner[c] => Status(d) # "in"
              => Sessions!Next
<1> DEFINE status == [d \in Clients |-> Status(d)]
           now == Status(c)'
<1>1. \A d \in Clients : d # c => Status(d)' = Status(d)
  BY DEF Moves
<1>2. status' = [d \in Clients |-> Status(d)']
  OBVIOUS
<1>3. status' = [status EXCEPT ![c] = now]
  BY <1>1, <1>2
<1>4. now = Status(c) => UNCHANGED SessionVars
  BY <1>1, <1>2 DEF SessionVars, Moves
<1>5. status[c] = Status(c) /\ \A d \in Clients : status[d] = Status(d)
  OBVIOUS
<1>6. UNCHANGED (reauths > 0)
  BY DEF Moves
<1>7. ASSUME Status(c) \in {"out", "in"}, now = "gone" PROVE Sessions!Leave(c)
  BY <1>3, <1>5, <1>6, <1>7 DEF Sessions!Leave
<1>8. ASSUME Status(c) = "out", now = "in",
             reauths > 0 \/ \A d \in Clients \ {c} : Owner[d] = Owner[c] => Status(d) # "in"
      PROVE  Sessions!Admit(c)
  BY <1>3, <1>5, <1>6, <1>8 DEF Sessions!Admit
<1> QED BY <1>3, <1>4, <1>7, <1>8 DEF Sessions!Next

LEMMA SessionsStep ==
    ASSUME Typed, HandlerInv, AdmissionInv, [Next]_vars PROVE Sessions!Next \/ UNCHANGED SessionVars
<1>1. CASE Peers
  <2> PICK c \in Clients, type \in Types, a \in Addresses \cup {None} : Announced(type, c, a)
    BY <1>1, PeersAnnounce DEF Typed
  <2>1. \A d \in Clients : d # c => Status(d)' = Status(d)
    BY DEF Announced, Status
  <2>2. CASE type = "REAUTH"
    <3>1. Status(c) = "in" /\ Status(c)' = "in"
      BY <2>2 DEF Announced, Status
    <3>2. (reauths > 0)' = TRUE
      <4>1. reauths \in Nat /\ reauths' = reauths + 1
        BY <2>2 DEF Typed, TypeOK, Announced
      <4> QED BY <4>1
    <3>3. UNCHANGED [d \in Clients |-> Status(d)]
      BY <2>1, <3>1
    <3>4. Sessions!Renew(c)
      BY <3>1, <3>2, <3>3 DEF Sessions!Renew
    <3> QED BY <3>4 DEF Sessions!Next
  <2>3. CASE type # "REAUTH"
    <3>1. Moves(c)
      BY <2>1, <2>3 DEF Moves, Announced
    <3>2. Status(c)' = Status(c) \/ (Status(c) \in {"out", "in"} /\ Status(c)' = "gone")
      BY <2>3 DEF Announced, Status
    <3> QED BY <3>1, <3>2, MovesSession
  <2> QED BY <2>2, <2>3
<1>2. CASE OvExecute
  <2> PICK c \in Clients, verb \in Verbs : Executed(verb, c)
    BY <1>2, ExecuteOne DEF Typed
  <2>1. Moves(c)
    BY DEF Executed, Moves, Status
  <2>2. CASE verb # "client-auth"
    <3>1. Status(c)' = Status(c) \/ (Status(c) \in {"out", "in"} /\ Status(c)' = "gone")
      BY <2>2 DEF Executed, Doomed, Status
    <3> QED BY <2>1, <3>1, MovesSession
  <2>3. CASE verb = "client-auth"
    <3>1. Status(c)' = Status(c) \/ (Status(c) = "out" /\ Status(c)' = "in")
      BY <2>3 DEF Executed, Status
    <3>2. reauths = 0 => \A d \in Clients \ {c} : Owner[d] = Owner[c] => Status(d) # "in"
      BY <2>3, AdmitsAlone DEF Typed, IsIn, Status
    <3>3. reauths = 0 \/ reauths > 0
      <4>1. reauths \in Nat
        BY DEF Typed, TypeOK
      <4> QED BY <4>1
    <3> QED BY <2>1, <3>1, <3>2, <3>3, MovesSession
  <2> QED BY <2>2, <2>3
<1>3. CASE Handler \/ UNCHANGED vars
  <2>1. session' = session /\ reauths' = reauths
    BY <1>3, HandlerTakes, HandlerWorks, ReplyTaken DEF Handler, Taken, vars, openvpnVars, Typed
  <2>2. \A d \in Clients : Status(d)' = Status(d)
    BY <2>1 DEF Status
  <2> QED BY <2>1, <2>2 DEF SessionVars
<1> QED BY <1>1, <1>2, <1>3 DEF Next

(* For every set of clients and users, the handler implements              *)
(* UserSessions: registering, killing and authorizing, with clients        *)
(* connecting and dropping in between, look from outside like admissions   *)
(* that never overlap for one user, until somebody renegotiates            *)
(* (manager.go:380-415).                                                   *)
THEOREM ManagerImplementsSessions == Spec => SessionsSpec
<1>1. Init => Sessions!Init
  <2> SUFFICES ASSUME Init PROVE Sessions!Init
    OBVIOUS
  <2>1. \A c \in Clients : Status(c) = "out"
    BY DEF Init, Status
  <2>2. ~(reauths > 0)
    BY DEF Init
  <2> QED BY <2>1, <2>2 DEF Sessions!Init
<1>2. Init => KillInv /\ AdmissionInv
  <2> SUFFICES ASSUME Init PROVE KillInv /\ AdmissionInv
    OBVIOUS
  <2>1. Len(commands) = 0 /\ pc = "idle" /\ \A c \in Clients : session[c] = "new"
    BY DEF Init
  <2>2. \A c, i : ~Kill(c, i) /\ ~Auth(c, i)
    BY <2>1 DEF Kill, Auth
  <2> QED BY <2>1, <2>2 DEF KillInv, KilledConnected, FirstKill, KillComing, AdmissionInv,
                            KilledBefore, KilledBetween, CurrentIn, CurrentEntering, IsIn
<1>3. Typed /\ HandlerInv /\ RepliesLagByKills /\ KillInv /\ [Next]_vars => KillInv'
  BY ConnectedStep, FirstKillStep DEF KillInv
<1>4. Typed /\ HandlerInv /\ KillInv /\ AdmissionInv /\ [Next]_vars => AdmissionInv'
  BY AdmissionStep
<1>5. Typed /\ HandlerInv /\ AdmissionInv /\ [Next]_vars
        => [Sessions!Next]_<<[c \in Clients |-> Status(c)], reauths > 0>>
  BY SessionsStep DEF SessionVars
<1> QED BY <1>1, <1>2, <1>3, <1>4, <1>5, HandlerAlways, RepliesLag,
           PTL DEF Spec, SessionsSpec, Sessions!Spec

-----------------------------------------------------------------------------
(***************************************************************************)
(* The addresses.  OpenVPN gives an address out again only after it has    *)
(* announced the departure of its last holder, and the queue keeps that    *)
(* order: whoever still has an address recorded that is leased to another  *)
(* is going to be removed, and before the other is told.                   *)
(***************************************************************************)
Holds(c, a) == (clients[c] # None /\ clients[c].address = a) \/ Told(c, a)

Released ==
    \A c \in Clients, a \in Addresses : Holds(c, a) /\ lease[c] # a => Pending("DISCONNECT", c)

Successive ==
    \A c, d \in Clients : \A a \in Addresses :
        c # d /\ lease[c] = a /\ Holds(d, a) => LeavesBefore(d, c)

LeaseInv == Released /\ Successive

LEMMA LeaseAnnounced ==
    ASSUME Typed, HandlerInv, LeaseInv, NEW c \in Clients, NEW type, NEW a, Announced(type, c, a)
    PROVE  LeaseInv'
<1> USE DEF Typed, HandlerInv
<1>0. Announce(type, c, a) /\ Says(type, c, a)
  BY DEF Announced
<1>1. clients' = clients /\ \A d \in Clients : d # c => lease'[d] = lease[d]
  BY DEF Announced
<1>2. ASSUME NEW d \in Clients, NEW x \in Addresses, Holds(d, x)', ~(type = "ADDRESS" /\ d = c /\ x = a)
      PROVE  Holds(d, x)
  BY <1>0, <1>1, <1>2, QueueGrows DEF Holds
<1>3. type # "DISCONNECT" /\ type # "ADDRESS" => lease'[c] = lease[c]
  BY DEF Announced
<1>4. type = "ADDRESS" => lease'[c] = a /\ \A d \in Clients : lease[d] # a
  BY DEF Announced
<1>5. type = "DISCONNECT" => lease'[c] = None
  BY DEF Announced
<1>6. ASSUME type = "ADDRESS", NEW x \in Addresses PROVE ~Holds(c, x)
  <2>1. session[c] = "authorized" /\ lease[c] = None
    BY <1>6 DEF Announced, QueueInv, LeaseLife
  <2>2. ~Told(c, x)
    BY <2>1, ConstantsAssumption DEF Told, QueueInv, EventsTrue
  <2>3. ~Addressed(c) /\ x # None
    BY <2>1, ConstantsAssumption DEF HandledOnce
  <2> QED BY <2>2, <2>3 DEF Holds, Addressed
<1>7. Released'
  <2> SUFFICES ASSUME NEW d \in Clients, NEW x \in Addresses, Holds(d, x)', lease'[d] # x
               PROVE  Pending("DISCONNECT", d)'
    BY DEF Released
  <2>1. CASE d = c /\ type = "ADDRESS"
    BY <1>2, <1>4, <1>6, <2>1
  <2>2. CASE d = c /\ type = "DISCONNECT"
    BY <2>2, <1>0, QueueGrows
  <2>3. CASE d # c \/ type \notin {"ADDRESS", "DISCONNECT"}
    <3>1. lease'[d] = lease[d]
      BY <1>1, <1>3, <2>3
    <3>2. Holds(d, x)
      BY <1>2, <2>3
    <3> QED BY <3>1, <3>2, <1>0, QueueGrows DEF LeaseInv, Released
  <2> QED BY <2>1, <2>2, <2>3
<1>8. Successive'
  <2> SUFFICES ASSUME NEW e \in Clients, NEW d \in Clients, NEW x \in Addresses,
                      e # d, lease'[e] = x, Holds(d, x)'
               PROVE  LeavesBefore(d, e)'
    BY DEF Successive
  <2>1. CASE e = c /\ type = "ADDRESS"
    <3>1. x = a /\ lease[d] # x /\ Holds(d, x)
      BY <1>2, <1>4, <2>1
    <3>2. Pending("DISCONNECT", d)
      BY <3>1 DEF LeaseInv, Released
    <3> QED BY <2>1, <3>2, <1>0, QueueGrows
  <2>2. e = c => type # "DISCONNECT"
    BY <1>5, ConstantsAssumption
  <2>3. CASE e # c \/ type # "ADDRESS"
    <3>1. lease[e] = x
      BY <1>1, <1>3, <2>2, <2>3
    <3>2. Holds(d, x)
      BY <1>2, <1>4, <3>1
    <3>3. LeavesBefore(d, e)
      BY <3>1, <3>2 DEF LeaseInv, Successive
    <3> QED BY <3>3, <1>0, QueueGrows
  <2> QED BY <2>1, <2>3
<1> QED BY <1>7, <1>8 DEF LeaseInv

LEMMA LeaseTaken ==
    ASSUME TypeOK, QueueInv, LeaseInv, NEW c, Taken(c),
           \A d \in Clients, a \in Addresses : Holds(d, a)' =>
               Holds(d, a) /\ ~(events[1].type = "DISCONNECT" /\ d = c)
    PROVE  LeaseInv'
<1>1. lease' = lease
  BY DEF Taken
<1>2. ASSUME NEW d \in Clients, NEW a \in Addresses, Holds(d, a)', lease[d] # a
      PROVE  Pending("DISCONNECT", d)'
  <2>1. Pending("DISCONNECT", d)
    BY <1>2 DEF LeaseInv, Released
  <2> QED BY <1>2, <2>1, QueueShrinks
<1>3. ASSUME NEW e \in Clients, NEW d \in Clients, NEW a \in Addresses,
             e # d, lease[e] = a, Holds(d, a)'
      PROVE  LeavesBefore(d, e)'
  <2>1. LeavesBefore(d, e)
    BY <1>3 DEF LeaseInv, Successive
  <2> QED BY <1>3, <2>1, QueueShrinks
<1> QED BY <1>1, <1>2, <1>3 DEF LeaseInv, Released, Successive

LEMMA LeaseStill ==
    ASSUME LeaseInv, UNCHANGED <<events, lease>>,
           \A d \in Clients, a \in Addresses : Holds(d, a)' => Holds(d, a)
    PROVE  LeaseInv'
BY DEF LeaseInv, Released, Successive, Pending, LeavesBefore

LEMMA LeaseStep == ASSUME Typed, HandlerInv, LeaseInv, [Next]_vars PROVE LeaseInv'
<1> USE DEF Typed
<1> DEFINE j == Head(events).cid
<1>1. CASE Peers
  BY <1>1, PeersAnnounce, LeaseAnnounced
<1>2. CASE OvExecute
  <2> PICK c \in Clients, verb \in Verbs : Executed(verb, c)
    BY <1>2, ExecuteOne
  <2>1. lease' = lease /\ clients' = clients
    BY DEF Executed
  <2>2. \A d \in Clients, a \in Addresses : Holds(d, a)' => Holds(d, a)
    BY <2>1, QueueAnswered DEF Holds
  <2>3. \A d : Pending("DISCONNECT", d) => Pending("DISCONNECT", d)'
    BY QueueAnswered
  <2>4. \A d, e : LeavesBefore(d, e) => LeavesBefore(d, e)'
    BY QueueAnswered
  <2> QED BY <2>1, <2>2, <2>3, <2>4 DEF LeaseInv, Released, Successive
<1>3. CASE ReceiveAuth
  <2>1. Taken(j) /\ clients' = clients /\ events[1].type # "DISCONNECT"
    BY <1>3, HandlerTakes, FirstEvent DEF ReceiveAuth, NextEvent, NextLine
  <2> HIDE DEF j
  <2> QED BY <2>1, QueueShrinks, LeaseTaken DEF Holds
<1>4. CASE HandleAddress
  <2> DEFINE a == Head(events).address
  <2>1. Taken(j) /\ Assigned(j, a)
    BY <1>4, AddressAssigned
  <2> HIDE DEF j, a
  <2>2. Told(j, a)
    BY <2>1, FirstEvent DEF Told, Assigned
  <2>3. ASSUME NEW d \in Clients, NEW x \in Addresses, Holds(d, x)' PROVE Holds(d, x)
    BY <2>1, <2>2, <2>3, QueueShrinks DEF Holds, Assigned
  <2>4. events[1].type # "DISCONNECT"
    BY <2>1 DEF Assigned
  <2> QED BY <2>1, <2>3, <2>4, LeaseTaken
<1>5. CASE HandleDisconnect
  <2>1. Taken(j) /\ Removed(j)
    BY <1>5, DisconnectRemoves
  <2> HIDE DEF j
  <2>2. ASSUME NEW d \in Clients, NEW x \in Addresses, Holds(d, x)' PROVE Holds(d, x) /\ d # j
    BY <2>1, <2>2, QueueShrinks DEF Holds, Removed
  <2> QED BY <2>1, <2>2, LeaseTaken
<1>6. CASE RegisterClient
  <2>1. UNCHANGED <<events, lease>>
    BY <1>6, HandlerWorks
  <2>2. clients'[job.cid].address = None /\ \A d \in Clients : d # job.cid => clients'[d] = clients[d]
    <3>1. clients'[job.cid] = [user |-> Owner[job.cid], address |-> None]
      BY <1>6, Registered
    <3>2. clients'[job.cid].address = None
      BY <3>1
    <3> QED BY <1>6, <3>2, Registered
  <2>3. \A d \in Clients, a \in Addresses : Holds(d, a)' => Holds(d, a)
    BY <2>1, <2>2, ConstantsAssumption DEF Holds, Told
  <2> QED BY <2>1, <2>3, LeaseStill
<1>7. CASE DenyClient \/ KillSuperseded \/ AuthorizeClient
  <2>1. UNCHANGED <<events, lease, clients>>
    BY <1>7, HandlerWorks DEF DenyClient, KillSuperseded, AuthorizeClient
  <2> QED BY <2>1, LeaseStill DEF Holds, Told
<1>8. CASE ReceiveReply
  <2>1. Taken(None) /\ clients' = clients /\ events[1].type = "REPLY"
    BY <1>8, ReplyTaken, FirstEvent
  <2> QED BY <2>1, QueueShrinks, LeaseTaken DEF Holds
<1>9. CASE UNCHANGED vars
  <2>1. UNCHANGED <<events, lease, clients>>
    BY <1>9 DEF vars, openvpnVars
  <2> QED BY <2>1, LeaseStill DEF Holds, Told
<1> QED BY <1>1, <1>2, <1>3, <1>4, <1>5, <1>6, <1>7, <1>8, <1>9 DEF Next, Handler

LEMMA LeaseAlways == Spec => []LeaseInv
<1>1. Init => LeaseInv
  <2> SUFFICES ASSUME Init PROVE LeaseInv
    OBVIOUS
  <2>1. Len(events) = 0 /\ \A c \in Clients : clients[c] = None
    BY DEF Init
  <2> QED BY <2>1 DEF LeaseInv, Released, Successive, Holds, Told
<1>2. Typed /\ HandlerInv /\ LeaseInv /\ [Next]_vars => LeaseInv'
  BY LeaseStep
<1> QED BY <1>1, <1>2, HandlerAlways, PTL DEF Spec

-----------------------------------------------------------------------------
(***************************************************************************)
(* What the firewall does at an address that is leased.                    *)
(***************************************************************************)
(* The two operations write one address.                                   *)
LEMMA ConnectElsewhere ==
    ASSUME FirewallTyped, NEW c \in Clients, NEW a \in Addresses, clients[c].user \in Users,
           ConnectUser(c, a)
    PROVE  /\ \A b \in Addresses \ {a} :
                 fwConnections'[b] = fwConnections[b] /\ forward'[b] = forward[b]
           /\ \/ fwConnections'[a] = clients[c].user
              \/ fwConnections' = fwConnections
           /\ unserved \subseteq unserved'
<1>1. CASE UNCHANGED <<fwConnections, forward, skew>> /\ unserved' = unserved \cup {c}
  BY <1>1
<1>2. ASSUME fwConnections[a] # None => CanDelete(fwConnections[a], a),
             fwConnections' = [fwConnections EXCEPT ![a] = clients[c].user],
             forward' = WithRule(Cleared(a), clients[c].user, a) \/ forward' = Cleared(a),
             unserved \subseteq unserved'
      PROVE  /\ \A b \in Addresses \ {a} :
                   fwConnections'[b] = fwConnections[b] /\ forward'[b] = forward[b]
             /\ fwConnections'[a] = clients[c].user
  <2>1. Cleared(a) \in [Addresses -> [Users -> Nat]]
    BY <1>2, ClearedType
  <2>2. \A b \in Addresses \ {a} : Cleared(a)[b] = forward[b]
    <3>1. CASE fwConnections[a] = None
      BY <3>1 DEF Cleared
    <3>2. CASE fwConnections[a] # None
      <4>1. Cleared(a) = [forward EXCEPT ![a][fwConnections[a]] = @ - 1]
        BY <3>2 DEF Cleared, WithoutRule
      <4> QED BY <4>1 DEF FirewallTyped
    <3> QED BY <3>1, <3>2
  <2>3. \A b \in Addresses \ {a} : forward'[b] = forward[b]
    BY <1>2, <2>1, <2>2 DEF WithRule
  <2>4. /\ \A b \in Addresses \ {a} : fwConnections'[b] = fwConnections[b]
        /\ fwConnections'[a] = clients[c].user
    BY <1>2 DEF FirewallTyped
  <2> QED BY <2>3, <2>4
<1> QED BY <1>1, <1>2, ConnectOutcomes

LEMMA DisconnectElsewhere ==
    ASSUME FirewallTyped, NEW u \in Users, NEW a \in Addresses, DisconnectUser(u, a)
    PROVE  /\ \A b \in Addresses \ {a} :
                 fwConnections'[b] = fwConnections[b] /\ forward'[b] = forward[b]
           /\ fwConnections[a] = u => fwConnections'[a] = None
           /\ fwConnections[a] # u => fwConnections' = fwConnections
           /\ unserved' = unserved
<1>1. CASE fwConnections[a] = u
  <2>1. /\ fwConnections' = [fwConnections EXCEPT ![a] = None]
        /\ forward' = WithoutRule(forward, u, a) \/ forward' = forward
        /\ unserved' = unserved
    BY <1>1 DEF DisconnectUser
  <2>2. \A b \in Addresses \ {a} : forward'[b] = forward[b]
    BY <2>1 DEF WithoutRule, FirewallTyped
  <2> QED BY <1>1, <2>1, <2>2 DEF FirewallTyped
<1>2. CASE fwConnections[a] # u
  BY <1>2 DEF DisconnectUser, firewallVars
<1> QED BY <1>1, <1>2

(* The connection removed held its address, if it had one.                 *)
LEMMA RemovedRecords ==
    ASSUME TypeOK, NEW c, Removed(c)
    PROVE  /\ \A a \in Addresses :
                 \/ fwConnections'[a] = fwConnections[a] /\ forward'[a] = forward[a]
                 \/ /\ clients[c] # None /\ clients[c].address = a
                    /\ fwConnections'[a] \in {None, fwConnections[a]}
           /\ Addressed(c) /\ pc' # "dead" =>
                 fwConnections'[clients[c].address] # Owner[c]
           /\ unserved' = unserved
<1>0. FirewallTyped
  BY DEF TypeOK, FirewallTyped
<1>1. c \in Clients /\ Owner[c] \in Users /\ Owner[c] # None
  BY ConstantsAssumption DEF Removed
<1>2. Addressed(c) => clients[c].address \in Addresses
  BY <1>1 DEF TypeOK, Connection, Addressed
<1>3. ASSUME Addressed(c), DisconnectUser(Owner[c], clients[c].address)
      PROVE  /\ \A a \in Addresses :
                   \/ fwConnections'[a] = fwConnections[a] /\ forward'[a] = forward[a]
                   \/ /\ clients[c] # None /\ clients[c].address = a
                      /\ fwConnections'[a] \in {None, fwConnections[a]}
             /\ fwConnections'[clients[c].address] # Owner[c]
             /\ unserved' = unserved
  <2> DEFINE b == clients[c].address
  <2>1. b \in Addresses
    BY <1>2, <1>3
  <2>2. clients[c] # None
    BY <1>3 DEF Addressed
  <2>3. /\ \A a \in Addresses \ {b} :
              fwConnections'[a] = fwConnections[a] /\ forward'[a] = forward[a]
        /\ fwConnections[b] = Owner[c] => fwConnections'[b] = None
        /\ fwConnections[b] # Owner[c] => fwConnections' = fwConnections
        /\ unserved' = unserved
    BY <1>0, <1>1, <1>3, <2>1, DisconnectElsewhere
  <2> HIDE DEF b
  <2>4. fwConnections'[b] # Owner[c]
    BY <1>1, <2>3
  <2>5. \A a \in Addresses :
            \/ fwConnections'[a] = fwConnections[a] /\ forward'[a] = forward[a]
            \/ b = a /\ fwConnections'[a] \in {None, fwConnections[a]}
    BY <2>3
  <2> QED BY <2>2, <2>3, <2>4, <2>5 DEF b
<1>4. \/ UNCHANGED <<fwConnections, forward, unserved>>
      \/ Addressed(c) /\ DisconnectUser(Owner[c], clients[c].address)
  BY DEF Removed
<1>5. Addressed(c) /\ pc' # "dead" => DisconnectUser(Owner[c], clients[c].address)
  BY DEF Removed
<1> QED BY <1>3, <1>4, <1>5

(* Steps that leave the firewall alone.                                    *)
LEMMA FirewallUntouched ==
    ASSUME TypeOK, [Next]_vars, ~HandleAddress, ~HandleDisconnect
    PROVE  UNCHANGED <<fwConnections, forward, unserved>>
<1>1. CASE Peers
  BY <1>1, PeersAnnounce DEF Announced
<1>2. CASE OvExecute
  BY <1>2, ExecuteOne DEF Executed
<1>3. CASE ReceiveAuth \/ DenyClient \/ RegisterClient \/ KillSuperseded \/ AuthorizeClient
           \/ ReceiveReply
  BY <1>3, HandlerWorks, ReplyTaken DEF ReceiveAuth, firewallVars
<1>4. CASE UNCHANGED vars
  BY <1>4 DEF vars, firewallVars
<1> QED BY <1>1, <1>2, <1>3, <1>4 DEF Next, Handler

(* What is left of a client that was established before a step and is      *)
(* after it: its lease, and its ADDRESS if it waits.                       *)
LEMMA StillEstablished ==
    ASSUME Typed, [Next]_vars, NEW c \in Clients, session'[c] = "established",
           ~Pending("ADDRESS", c)', Running'
    PROVE  /\ session[c] = "established" /\ lease'[c] = lease[c] /\ lease[c] \in Addresses
           /\ Running
           /\ Pending("ADDRESS", c) => HandleAddress /\ Head(events).cid = c
<1> USE DEF Typed
<1>1. /\ session[c] = "established" /\ lease'[c] = lease[c]
      /\ Running
      /\ Pending("ADDRESS", c) => HandleAddress /\ Head(events).cid = c
  <2>1. CASE Peers
    <3> PICK d \in Clients, type \in Types, a \in Addresses \cup {None} : Announced(type, d, a)
      BY <2>1, PeersAnnounce
    <3>1. Announce(type, d, a) /\ Says(type, d, a)
      BY DEF Announced
    <3>2. ~(type = "ADDRESS" /\ d = c) /\ ~Pending("ADDRESS", c)
      BY <3>1, QueueGrows
    <3>3. session[c] = "established" /\ lease'[c] = lease[c]
      BY <3>2 DEF Announced
    <3> QED BY <3>2, <3>3 DEF Announced
  <2>2. CASE OvExecute
    <3> PICK d \in Clients, verb \in Verbs : Executed(verb, d)
      BY <2>2, ExecuteOne
    <3>1. session[c] = "established"
      BY DEF Executed, Doomed
    <3>2. ~Pending("ADDRESS", c)
      BY QueueAnswered
    <3> QED BY <3>1, <3>2 DEF Executed
  <2>3. CASE ReceiveAuth \/ HandleAddress \/ HandleDisconnect
    <3> DEFINE j == Head(events).cid
    <3>1. Taken(j) /\ pc = "idle"
      BY <2>3, HandlerTakes
    <3>2. events[1].type = "ADDRESS" => HandleAddress
      BY <2>3, <3>1, FirstEvent DEF ReceiveAuth, HandleDisconnect, NextEvent, NextLine
    <3>3. Pending("ADDRESS", c) => events[1].type = "ADDRESS" /\ c = j
      <4> HIDE DEF j
      <4> QED BY <3>1, QueueShrinks
    <3> QED BY <3>1, <3>2, <3>3 DEF Taken, Running
  <2>4. CASE DenyClient \/ RegisterClient \/ KillSuperseded \/ AuthorizeClient
    <3>1. UNCHANGED <<session, lease, events>> /\ pc # "dead"
      BY <2>4, HandlerWorks DEF DenyClient, RegisterClient, KillSuperseded, AuthorizeClient
    <3> QED BY <3>1 DEF Pending, Running
  <2>5. CASE ReceiveReply
    <3>1. Taken(None) /\ events[1].type = "REPLY" /\ pc = "reply"
      BY <2>5, ReplyTaken, FirstEvent
    <3>2. ~Pending("ADDRESS", c)
      BY <3>1, QueueShrinks
    <3> QED BY <3>1, <3>2 DEF Taken, Running
  <2>6. CASE UNCHANGED vars
    BY <2>6 DEF vars, openvpnVars, Pending, Running
  <2> QED BY <2>1, <2>2, <2>3, <2>4, <2>5, <2>6 DEF Next, Handler
<1>2. lease[c] \in Addresses
  <2>1. lease[c] # None /\ lease[c] \in Addresses \cup {None}
    BY <1>1 DEF QueueInv, LeaseLife, TypeOK
  <2> QED BY <2>1
<1> QED BY <1>1, <1>2

(* ConnectUser leaves the rule, or has failed where calls may.             *)
LEMMA ConnectServes ==
    ASSUME FirewallTyped, ForwardMatchesConnections, NEW c \in Clients, NEW a \in Addresses,
           clients[c].user \in Users, ConnectUser(c, a)
    PROVE  forward'[a][clients[c].user] > 0 \/ (c \in unserved' /\ a \in Fallible)
<1>1. CASE /\ fwConnections[a] # None /\ DeleteMayFail(fwConnections[a], a)
           /\ unserved' = unserved \cup {c}
  BY <1>1, DeleteWorks
<1>2. CASE /\ fwConnections[a] # None => CanDelete(fwConnections[a], a)
           /\ forward' = WithRule(Cleared(a), clients[c].user, a)
  <2>1. Cleared(a) \in [Addresses -> [Users -> Nat]]
    BY <1>2, ClearedType
  <2>2. PICK u \in Users : u = clients[c].user
    OBVIOUS
  <2>3. Cleared(a)[a] \in [Users -> Nat] /\ Cleared(a)[a][u] \in Nat
    BY <2>1, <2>2
  <2>4. forward' = [Cleared(a) EXCEPT ![a][u] = @ + 1]
    BY <1>2, <2>2 DEF WithRule
  <2>5. forward'[a][u] = Cleared(a)[a][u] + 1
    BY <2>1, <2>3, <2>4
  <2> QED BY <2>2, <2>3, <2>5
<1>3. CASE a \in Fallible /\ unserved' = unserved \cup {c}
  BY <1>3
<1> QED BY <1>1, <1>2, <1>3, ConnectOutcomes

LEMMA ServedStep ==
    ASSUME Typed, HandlerInv, LeaseInv, ForwardMatchesConnections, AddressServed, [Next]_vars
    PROVE  AddressServed'
<1> USE DEF Typed
<1> SUFFICES ASSUME NEW c \in Clients, session'[c] = "established", ~Pending("ADDRESS", c)',
                    Running'
             PROVE  \/ forward'[lease[c]][Owner[c]] > 0
                    \/ c \in unserved' /\ lease[c] \in Fallible
  BY StillEstablished DEF AddressServed
<1> DEFINE b == lease[c]
           j == Head(events).cid
<1>1. /\ session[c] = "established" /\ b \in Addresses
      /\ Pending("ADDRESS", c) => HandleAddress /\ j = c
      /\ Running
  BY StillEstablished
<1>2. ~Pending("ADDRESS", c) => forward[b][Owner[c]] > 0 \/ (c \in unserved /\ b \in Fallible)
  BY <1>1 DEF AddressServed
<1>3. ASSUME NEW d \in Clients, d # c, Holds(d, b) PROVE Pending("ADDRESS", c)
  <2>1. LeavesBefore(d, c)
    BY <1>1, <1>3 DEF LeaseInv, Successive
  <2> QED BY <2>1 DEF LeavesBefore, Pending
<1> FirewallTyped
  BY DEF TypeOK, FirewallTyped
<1> HIDE DEF b
<1>4. CASE HandleAddress
  <2> DEFINE a == Head(events).address
  <2>1. Taken(j) /\ Assigned(j, a)
    BY <1>4, AddressAssigned
  <2> HIDE DEF j, a
  <2>2. /\ j \in Clients /\ Owner[j] \in Users /\ a \in Addresses
        /\ clients[j].user = Owner[j] /\ ConnectUser(j, a)
    BY <2>1, ConstantsAssumption DEF Assigned
  <2>3. CASE j = c
    <3>1. /\ 1 \in 1..Len(events) /\ events[1].type = "ADDRESS" /\ events[1].cid = c
          /\ events[1].address = a
      BY <2>1, <2>3, FirstEvent DEF Assigned
    <3>2. lease[c] = a
      BY <1>1, <3>1 DEF QueueInv, EventsTrue
    <3>3. forward'[a][Owner[j]] > 0 \/ (j \in unserved' /\ a \in Fallible)
      BY <2>2, ConnectServes
    <3> QED BY <2>3, <3>2, <3>3 DEF b
  <2>4. CASE j # c
    <3>1. ~Pending("ADDRESS", c)
      BY <1>1, <2>4
    <3>2. Holds(j, a)
      BY <2>1, FirstEvent DEF Assigned, Holds, Told
    <3>3. a # b
      BY <1>3, <2>2, <2>4, <3>1, <3>2
    <3>4. forward'[b] = forward[b] /\ unserved \subseteq unserved'
      BY <1>1, <2>2, <3>3, ConnectElsewhere
    <3> QED BY <1>2, <3>1, <3>4 DEF b
  <2> QED BY <2>3, <2>4
<1>5. CASE HandleDisconnect
  <2>1. Removed(j)
    BY <1>5, DisconnectRemoves
  <2>2. ~Pending("ADDRESS", c)
    BY <1>1, <1>5 DEF HandleAddress, HandleDisconnect, NextEvent, NextLine
  <2> HIDE DEF j
  <2>3. j # c /\ j \in Clients
    BY <1>1, <2>1 DEF Removed
  <2>4. ~(clients[j] # None /\ clients[j].address = b)
    BY <1>3, <2>2, <2>3 DEF Holds
  <2>5. forward'[b] = forward[b] /\ unserved' = unserved
    BY <1>1, <2>1, <2>4, RemovedRecords
  <2> QED BY <1>2, <2>2, <2>5 DEF b
<1>6. CASE ~HandleAddress /\ ~HandleDisconnect
  <2>1. UNCHANGED <<forward, unserved>>
    BY <1>6, FirewallUntouched
  <2> QED BY <1>1, <1>2, <1>6, <2>1 DEF b
<1> QED BY <1>4, <1>5, <1>6

(* For every set of clients, users and addresses: an established client    *)
(* whose ADDRESS has been handled has its user's rule, unless a call of    *)
(* its own ConnectUser failed; what becomes of the former holders of the   *)
(* address does not touch it (manager.go:445-469, firewall.go:99-138).     *)
THEOREM AddressesServed == Spec => []AddressServed
<1>1. Init => AddressServed
  BY DEF Init, AddressServed
<1>2. Typed /\ HandlerInv /\ LeaseInv /\ ForwardMatchesConnections /\ AddressServed /\ [Next]_vars
        => AddressServed'
  BY ServedStep
<1> QED BY <1>1, <1>2, HandlerAlways, LeaseAlways, ForwardAgrees, PTL DEF Spec

-----------------------------------------------------------------------------
(* Until somebody renegotiates, a user recorded at an address has a        *)
(* connection recorded with it.                                            *)
Recorded ==
    reauths = 0 /\ Running => \A a \in Addresses : fwConnections[a] # None =>
        \E c \in Clients :
            clients[c] # None /\ clients[c].address = a /\ Owner[c] = fwConnections[a]

LEMMA RecordedStep ==
    ASSUME Typed, HandlerInv, Recorded, [Next]_vars PROVE Recorded'
<1> USE DEF Typed, HandlerInv
<1> SUFFICES ASSUME reauths' = 0, Running', NEW a \in Addresses, fwConnections'[a] # None
             PROVE  \E c \in Clients : /\ clients'[c] # None /\ clients'[c].address = a
                                       /\ Owner[c] = fwConnections'[a]
  BY DEF Recorded
<1>0. a # None
  BY ConstantsAssumption
<1> FirewallTyped
  BY DEF TypeOK, FirewallTyped
<1> DEFINE j == Head(events).cid
<1>1. CASE HandleAddress
  <2> DEFINE x == Head(events).address
  <2>1. Taken(j) /\ Assigned(j, x)
    BY <1>1, AddressAssigned
  <2> HIDE DEF j, x
  <2>2. /\ reauths = 0 /\ Running /\ j \in Clients /\ Owner[j] \in Users /\ x \in Addresses
        /\ clients[j].user = Owner[j] /\ ConnectUser(j, x)
    BY <2>1, ConstantsAssumption DEF Taken, Assigned, Running
  <2>3. /\ fwConnections'[x] = Owner[j] \/ fwConnections' = fwConnections
        /\ \A y \in Addresses \ {x} : fwConnections'[y] = fwConnections[y]
    BY <2>2, ConnectElsewhere
  <2>4. CASE a = x /\ fwConnections'[x] = Owner[j]
    BY <2>1, <2>2, <2>4 DEF Assigned
  <2>5. CASE fwConnections'[a] = fwConnections[a]
    <3> PICK c \in Clients : /\ clients[c] # None /\ clients[c].address = a
                             /\ Owner[c] = fwConnections[a]
      BY <2>2, <2>5 DEF Recorded
    <3>1. c # j
      BY <1>0, <2>1 DEF Assigned
    <3>2. clients'[c] = clients[c]
      BY <2>1, <3>1 DEF Assigned
    <3> QED BY <2>5, <3>2
  <2> QED BY <2>3, <2>4, <2>5
<1>2. CASE HandleDisconnect
  <2>1. Taken(j) /\ Removed(j)
    BY <1>2, DisconnectRemoves
  <2> HIDE DEF j
  <2>2. reauths = 0 /\ Running /\ pc' # "dead"
    BY <2>1 DEF Taken, Removed, Running
  <2>3. fwConnections'[a] = fwConnections[a]
    BY <2>1, RemovedRecords
  <2> PICK c \in Clients : /\ clients[c] # None /\ clients[c].address = a
                           /\ Owner[c] = fwConnections[a]
    BY <2>2, <2>3 DEF Recorded
  <2>4. c # j
    <3> SUFFICES ASSUME c = j PROVE FALSE
      OBVIOUS
    <3>1. Addressed(j) /\ clients[j].address = a
      BY <1>0 DEF Addressed
    <3>2. fwConnections'[a] # Owner[j]
      BY <2>1, <2>2, <3>1, RemovedRecords
    <3> QED BY <2>3, <3>2
  <2>5. clients'[c] = clients[c]
    BY <2>1, <2>4 DEF Removed
  <2> QED BY <2>3, <2>5
<1>3. CASE ~HandleAddress /\ ~HandleDisconnect
  <2>1. fwConnections' = fwConnections
    BY <1>3, FirewallUntouched
  <2>2. reauths = 0 /\ Running
    <3>1. CASE Peers
      <4>1. reauths \in Nat
        BY DEF TypeOK
      <4> QED BY <3>1, <4>1, PeersAnnounce DEF Announced
    <3>2. CASE OvExecute
      BY <3>2, ExecuteOne DEF Executed
    <3>3. CASE \/ ReceiveAuth \/ DenyClient \/ RegisterClient \/ KillSuperseded
               \/ AuthorizeClient \/ ReceiveReply
      BY <3>3 DEF ReceiveAuth, NextEvent, DenyClient, RegisterClient, KillSuperseded,
                  AuthorizeClient, ReceiveReply, Running, openvpnVars
    <3>4. CASE UNCHANGED vars
      BY <3>4 DEF vars, openvpnVars, Running
    <3> QED BY <1>3, <3>1, <3>2, <3>3, <3>4 DEF Next, Handler
  <2> PICK c \in Clients : /\ clients[c] # None /\ clients[c].address = a
                           /\ Owner[c] = fwConnections[a]
    BY <2>1, <2>2 DEF Recorded
  <2>3. clients'[c] = clients[c]
    <3>1. CASE RegisterClient
      <4>1. ~job.reauth
        BY <2>2 DEF ReauthsCounted
      <4>2. c # job.cid
        BY <3>1, <4>1 DEF HandledOnce, RegisterClient
      <4> QED BY <3>1, <4>2, Registered
    <3>2. CASE ~RegisterClient
      BY <1>3, <3>2, RegistryUntouched
    <3> QED BY <3>1, <3>2
  <2> QED BY <2>1, <2>3
<1> QED BY <1>1, <1>2, <1>3

LEMMA RecordedExplains ==
    ASSUME Typed, LeaseInv, ForwardMatchesConnections, Recorded PROVE StrayExplained
<1> USE DEF Typed
<1> SUFFICES ASSUME reauths = 0, NEW c \in Clients, NEW u \in StraysAt(c)
             PROVE  skew[lease[c]][u] > 0
  BY DEF StrayExplained
<1> DEFINE a == lease[c]
<1>1. /\ Running /\ session[c] = "established" /\ u \in Users /\ u # Owner[c]
      /\ \A d \in Clients : ~Pending("DISCONNECT", d)
      /\ forward[a][u] > 0
  BY DEF StraysAt
<1>2. a \in Addresses
  <2>1. lease[c] # None /\ lease[c] \in Addresses \cup {None}
    BY <1>1 DEF QueueInv, LeaseLife, TypeOK
  <2> QED BY <2>1
<1>3. ASSUME fwConnections[a] = u PROVE FALSE
  <2>1. u # None
    BY <1>1, ConstantsAssumption
  <2> PICK d \in Clients : /\ clients[d] # None /\ clients[d].address = a
                           /\ Owner[d] = fwConnections[a]
    BY <1>1, <1>2, <1>3, <2>1 DEF Recorded
  <2>2. d # c /\ Holds(d, a)
    BY <1>1, <1>3 DEF Holds
  <2>3. LeavesBefore(d, c)
    BY <1>2, <2>2 DEF LeaseInv, Successive
  <2> QED BY <1>1, <2>3 DEF LeavesBefore, Pending
<1>4. forward[a][u] = 0 + skew[a][u]
  BY <1>1, <1>2, <1>3 DEF ForwardMatchesConnections
<1>5. skew[a][u] \in Int
  BY <1>1, <1>2 DEF TypeOK
<1> QED BY <1>1, <1>4, <1>5

(* For every set of clients, users and addresses: without a renegotiation  *)
(* an established client is on another user's chain only while a departed  *)
(* client's DISCONNECT waits to be handled, or for a delete of it that     *)
(* failed (manager.go:445-469, firewall.go:132-135).                       *)
THEOREM StraysExplained == Spec => []StrayExplained
<1>1. Init => Recorded
  BY DEF Init, Recorded
<1>2. Typed /\ HandlerInv /\ Recorded /\ [Next]_vars => Recorded'
  BY RecordedStep
<1>3. Typed /\ LeaseInv /\ ForwardMatchesConnections /\ Recorded => StrayExplained
  BY RecordedExplains
<1> QED BY <1>1, <1>2, <1>3, HandlerAlways, LeaseAlways, ForwardAgrees, PTL DEF Spec

===============================================================================
