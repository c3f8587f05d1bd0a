------------------------------- MODULE VPNManager -------------------------------
(***************************************************************************)
(* The event handler of internal/vpn/manager.go: one goroutine             *)
(* (handleEvents) takes the client events of OpenVPN's management socket   *)
(* one at a time, keeps the registry of connections, sends client-kill,    *)
(* client-auth and client-deny back, and keeps the FORWARD chain of        *)
(* internal/fw/firewall.go in step with the addresses clients hold.        *)
(*                                                                         *)
(* OpenVPN itself is external: a client connects, is authorized, is given  *)
(* a free address, renegotiates, and may drop at any moment.  What it says *)
(* and what it is told travel on the two directions of one socket, so each *)
(* direction is a FIFO and neither is aligned with the other.  It answers  *)
(* every command it executes, among the events it announces.  The channel  *)
(* plumbing that carries them is module OpenVPNChannel.                    *)
(***************************************************************************)
EXTENDS Integers, Sequences, FiniteSets

CONSTANTS
    Clients,     \* OpenVPN client ids, one per connection attempt
    Users,       \* user names (X509_1_CN)
    Addresses,   \* tunnel addresses of the pool
    Owner,       \* the user each connection attempt belongs to
    Fallible,    \* bound: the addresses at which any call of iptables may fail
    MaxReauths,  \* bound on the renegotiations of a behaviour
    MaxUnread,   \* bound on the unread lines of the socket: beyond it no client acts
    None         \* the nil pointer, the absent map entry

ASSUME ConstantsAssumption ==
    /\ Owner \in [Clients -> Users]
    /\ Fallible \subseteq Addresses
    /\ MaxReauths \in Nat /\ MaxUnread \in Nat
    /\ None \notin Clients \cup Users \cup Addresses
    /\ None \notin [user : Users, address : Addresses \cup {None}]

VARIABLES
    \* OpenVPN (external)
    session,          \* life of each client id
    lease,            \* the tunnel address OpenVPN routes to each client
    reauths,          \* renegotiations so far
    \* the management socket
    events,           \* events and replies written by OpenVPN, not yet handled
    commands,         \* commands written by the manager, not yet executed
    \* VPNManager
    pc,               \* where the handler goroutine is
    job,              \* locals of authorizeClient
    clients,          \* VPNManager.clients
    userConnections,  \* VPNManager.userConnections
    \* Firewall
    fwConnections,    \* Firewall.connections
    forward,          \* rules of chain FORWARD: how many per address and user
    \* history: what the properties judge a state by, and no step reads
    kills,            \* the client-kills sent so far
    skew,             \* rules that a failed call left behind (+) or kept out (-)
    unserved          \* the clients for whose address ConnectUser failed

openvpnVars == <<session, lease, reauths>>
firewallVars == <<fwConnections, forward, skew, unserved>>
vars == <<openvpnVars, events, commands, kills, pc, job, clients, userConnections,
          firewallVars>>

SessionStates == {"new", "connecting", "authorized", "established", "doomed", "closed"}

Connection == [user : Users, address : Addresses \cup {None}]

Event == [type : {"CONNECT", "REAUTH", "DISCONNECT"}, cid : Clients, address : {None}]
            \cup [type : {"ADDRESS"}, cid : Clients, address : Addresses]
            \cup [type : {"REPLY"}, cid : {None}, address : {None}]

Command == [verb : {"client-auth", "client-deny", "client-kill"}, cid : Clients]

Job == [cid : Clients \cup {None}, reauth : BOOLEAN, old : Clients \cup {None}]

NoJob == [cid |-> None, reauth |-> FALSE, old |-> None]

Init ==
    /\ session = [c \in Clients |-> "new"]
    /\ lease = [c \in Clients |-> None]
    /\ reauths = 0
    /\ events = <<>>
    /\ commands = <<>>
    /\ pc = "idle"
    /\ job = NoJob
    /\ clients = [c \in Clients |-> None]
    /\ userConnections = [u \in Users |-> None]
    /\ fwConnections = [a \in Addresses |-> None]
    /\ forward = [a \in Addresses |-> [u \in Users |-> 0]]
    /\ kills = 0
    /\ skew = [a \in Addresses |-> [u \in Users |-> 0]]
    /\ unserved = {}

-----------------------------------------------------------------------------
(***************************************************************************)
(* OpenVPN.  A process that died of a nil pointer leaves it unmanaged;     *)
(* nothing is said of it after that.                                       *)
(***************************************************************************)
Running == pc # "dead"

Live(c) == session[c] \notin {"new", "closed"}

Announce(type, c, a) ==
    events' = Append(events, [type |-> type, cid |-> c, address |-> a])

MayAct == Running /\ Len(events) < MaxUnread

OvConnect(c) ==
    /\ MayAct
    /\ session[c] = "new"
    /\ session' = [session EXCEPT ![c] = "connecting"]
    /\ Announce("CONNECT", c, None)
    /\ UNCHANGED <<lease, reauths, commands, kills, pc, job, clients, userConnections, firewallVars>>

OvEstablish(c, a) ==
    /\ MayAct
    /\ session[c] = "authorized"
    /\ \A d \in Clients : lease[d] # a
    /\ session' = [session EXCEPT ![c] = "established"]
    /\ lease' = [lease EXCEPT ![c] = a]
    /\ Announce("ADDRESS", c, a)
    /\ UNCHANGED <<reauths, commands, kills, pc, job, clients, userConnections, firewallVars>>

OvReauth(c) ==
    /\ MayAct
    /\ reauths < MaxReauths
    /\ session[c] = "established"
    /\ reauths' = reauths + 1
    /\ Announce("REAUTH", c, None)
    /\ UNCHANGED <<session, lease, commands, kills, pc, job, clients, userConnections, firewallVars>>

OvDrop(c) ==
    /\ MayAct
    /\ Live(c)
    /\ session' = [session EXCEPT ![c] = "closed"]
    /\ lease' = [lease EXCEPT ![c] = None]
    /\ Announce("DISCONNECT", c, None)
    /\ UNCHANGED <<reauths, commands, kills, pc, job, clients, userConnections, firewallVars>>

NextCommand(verb) == Running /\ commands # <<>> /\ Head(commands).verb = verb

(* A killed or denied client is gone at once or after a while (OvDrop).    *)
Doom(c) == session' = IF Live(c) THEN [session EXCEPT ![c] = "doomed"] ELSE session

(* The head of the commands is executed, and answered: nothing on the      *)
(* socket says which command a reply belongs to but its place.             *)
Reply ==
    /\ commands' = Tail(commands)
    /\ Announce("REPLY", None, None)

OvClientKill ==
    /\ NextCommand("client-kill")
    /\ Doom(Head(commands).cid)
    /\ Reply
    /\ UNCHANGED <<lease, reauths, kills, pc, job, clients, userConnections, firewallVars>>

OvClientAuth ==
    /\ NextCommand("client-auth")
    /\ LET c == Head(commands).cid
       IN  session' = IF session[c] = "connecting"
                        THEN [session EXCEPT ![c] = "authorized"]
                        ELSE session
    /\ Reply
    /\ UNCHANGED <<lease, reauths, kills, pc, job, clients, userConnections, firewallVars>>

OvClientDeny ==
    /\ NextCommand("client-deny")
    /\ Doom(Head(commands).cid)
    /\ Reply
    /\ UNCHANGED <<lease, reauths, kills, pc, job, clients, userConnections, firewallVars>>

-----------------------------------------------------------------------------
(***************************************************************************)
(* Firewall.  Each operation runs under connlock and runs iptables, any    *)
(* call of which may fail - for want of the chain user-<name>, of the      *)
(* xtables lock, of memory - and whose --delete fails when there is no     *)
(* such rule.  A call that fails changes nothing; processClientEvent drops *)
(* the error.                                                              *)
(***************************************************************************)
WithoutRule(rules, user, a) == [rules EXCEPT ![a][user] = @ - 1]

WithRule(rules, user, a) == [rules EXCEPT ![a][user] = @ + 1]

CanDelete(user, a) == forward[a][user] > 0

DeleteMayFail(user, a) == a \in Fallible \/ forward[a][user] = 0

(* Seeded bug: the rule of the last holder is deleted, none is appended.   *)
ConnectUserDeletesOnly(c, a) ==
    LET existing == fwConnections[a]
    IN  /\ fwConnections' = [fwConnections EXCEPT ![a] = clients[c].user]
        /\ forward' = IF existing = None
                         THEN WithRule(forward, clients[c].user, a)
                         ELSE WithoutRule(forward, existing, a)
        /\ UNCHANGED <<skew, unserved>>

(* The rule of the recorded user goes before the record does, and the rule *)
(* of the new one comes after its record.                                  *)
ConnectUser(c, a) ==
    LET user == clients[c].user
        existing == fwConnections[a]
        cleared == IF existing = None THEN forward ELSE WithoutRule(forward, existing, a)
    IN  \/ /\ existing # None
           /\ DeleteMayFail(existing, a)
           /\ unserved' = unserved \cup {c}
           /\ UNCHANGED <<fwConnections, forward, skew>>
        \/ /\ existing # None => CanDelete(existing, a)
           /\ fwConnections' = [fwConnections EXCEPT ![a] = user]
           /\ \/ /\ forward' = WithRule(cleared, user, a)
                 /\ UNCHANGED <<skew, unserved>>
              \/ /\ a \in Fallible
                 /\ forward' = cleared
                 /\ skew' = [skew EXCEPT ![a][user] = @ - 1]
                 /\ unserved' = unserved \cup {c}

(* Seeded bug: the rule is deleted, the record of it stays.                *)
DisconnectUserKeepsRecord(user, a) ==
    /\ fwConnections[a] = user
    /\ CanDelete(user, a)
    /\ forward' = WithoutRule(forward, user, a)
    /\ UNCHANGED <<fwConnections, skew, unserved>>

(* Seeded bug: the record is deleted, the rule stays.                      *)
DisconnectUserKeepsRule(user, a) ==
    /\ fwConnections' = [fwConnections EXCEPT ![a] = None]
    /\ UNCHANGED <<forward, skew, unserved>>

(* The record goes before its rule does.                                   *)
DisconnectUser(user, a) ==
    \/ /\ fwConnections[a] # user
       /\ UNCHANGED firewallVars
    \/ /\ fwConnections[a] = user
       /\ fwConnections' = [fwConnections EXCEPT ![a] = None]
       /\ \/ /\ CanDelete(user, a)
             /\ forward' = WithoutRule(forward, user, a)
             /\ UNCHANGED skew
          \/ /\ DeleteMayFail(user, a)
             /\ skew' = [skew EXCEPT ![a][user] = @ + 1]
             /\ UNCHANGED forward
       /\ UNCHANGED unserved

-----------------------------------------------------------------------------
(***************************************************************************)
(* The handler goroutine.  authorizeClient is cut where it gives up        *)
(* control: at the backend calls of authenticateUser, at the end of its    *)
(* critical section and at each command it sends.                          *)
(***************************************************************************)
NextLine(types) == events # <<>> /\ Head(events).type \in types

NextEvent(types) == pc = "idle" /\ NextLine(types)

ReceiveAuth ==
    /\ NextEvent({"CONNECT", "REAUTH"})
    /\ events' = Tail(events)
    /\ pc' = "authenticate"
    /\ job' = [cid |-> Head(events).cid, reauth |-> Head(events).type = "REAUTH", old |-> None]
    /\ UNCHANGED <<openvpnVars, commands, kills, clients, userConnections, firewallVars>>

Send(verb, c) == commands' = Append(commands, [verb |-> verb, cid |-> c])

(* Seeded bug: a denial returns without a word to OpenVPN.                 *)
DenyClientSilently ==
    /\ pc = "authenticate"
    /\ pc' = "idle"
    /\ job' = NoJob
    /\ UNCHANGED <<openvpnVars, events, commands, kills, clients, userConnections, firewallVars>>

(* Seeded bug: a denial forgets half of the registration.                  *)
DenyClientForgets ==
    /\ pc = "authenticate"
    /\ Send("client-deny", job.cid)
    /\ userConnections' = [userConnections EXCEPT ![Owner[job.cid]] = None]
    /\ pc' = "reply"
    /\ UNCHANGED <<openvpnVars, events, kills, job, clients, firewallVars>>

DenyClient ==
    /\ pc = "authenticate"
    /\ Send("client-deny", job.cid)
    /\ pc' = "reply"
    /\ UNCHANGED <<openvpnVars, events, kills, job, clients, userConnections, firewallVars>>

(* Seeded bug: the user's entry is left behind.                            *)
ForgottenNever(c) == userConnections

(* The registry once the connection of this client id is gone.             *)
Forgotten(c) ==
    IF clients[c] # None /\ userConnections[clients[c].user] = c
      THEN [userConnections EXCEPT ![clients[c].user] = None]
      ELSE userConnections

(* Seeded bug: the user's entry is read after it was overwritten.          *)
SupersededLate(c, reauth) == IF reauth THEN None ELSE c

(* Seeded bug: nothing is ever superseded.                                 *)
SupersededNever(c, reauth) == None

(* The connection to be killed: that of the user's entry before it is      *)
(* overwritten.                                                            *)
Superseded(c, reauth) == IF reauth THEN None ELSE Forgotten(c)[Owner[c]]

(* Seeded bug: the test for an old connection is gone.                     *)
AfterRegisterAlways(old) == "kill"

AfterRegister(old) == IF old = None THEN "authorize" ELSE "kill"

RegisterClient ==
    /\ pc = "authenticate"
    /\ LET c == job.cid
           registry == IF job.reauth THEN userConnections ELSE Forgotten(c)
           old == Superseded(c, job.reauth)
       IN  /\ clients' = [clients EXCEPT ![c] = [user |-> Owner[c], address |-> None]]
           /\ userConnections' = [registry EXCEPT ![Owner[c]] = c]
           /\ job' = [job EXCEPT !.old = old]
           /\ pc' = AfterRegister(old)
    /\ UNCHANGED <<openvpnVars, events, commands, kills, firewallVars>>

KillSuperseded ==
    /\ pc = "kill"
    /\ Send("client-kill", job.old)
    /\ kills' = kills + 1
    /\ pc' = "authorize"
    /\ UNCHANGED <<openvpnVars, events, job, clients, userConnections, firewallVars>>

(* Seeded bug: client-auth is sent without awaiting its reply.             *)
AuthorizeClientUnawaited ==
    /\ pc = "authorize"
    /\ Send("client-auth", job.cid)
    /\ pc' = "idle"
    /\ UNCHANGED <<openvpnVars, events, kills, job, clients, userConnections, firewallVars>>

AuthorizeClient ==
    /\ pc = "authorize"
    /\ Send("client-auth", job.cid)
    /\ pc' = "reply"
    /\ UNCHANGED <<openvpnVars, events, kills, job, clients, userConnections, firewallVars>>

(* The wait for client-auth or client-deny ends with the first reply that  *)
(* comes, whatever it is the reply to and whether it says SUCCESS or       *)
(* ERROR: processClientEvent drops the result.                             *)
ReceiveReply ==
    /\ pc = "reply" /\ NextLine({"REPLY"})
    /\ events' = Tail(events)
    /\ pc' = "idle"
    /\ job' = NoJob
    /\ UNCHANGED <<openvpnVars, commands, kills, clients, userConnections, firewallVars>>

HandleAddress ==
    /\ NextEvent({"ADDRESS"})
    /\ LET c == Head(events).cid
           a == Head(events).address
       IN  IF clients[c] = None
             THEN /\ pc' = "dead"  \* conn.address on a nil conn
                  /\ UNCHANGED <<clients, firewallVars>>
             ELSE /\ clients' = [clients EXCEPT ![c].address = a]
                  /\ ConnectUser(c, a)
                  /\ UNCHANGED pc
    /\ events' = Tail(events)
    /\ UNCHANGED <<openvpnVars, commands, kills, job, userConnections>>

HandleDisconnect ==
    /\ NextEvent({"DISCONNECT"})
    /\ events' = Tail(events)
    /\ LET c == Head(events).cid
           conn == clients[c]
       IN  \/ /\ conn = None
              /\ UNCHANGED <<pc, clients, userConnections, firewallVars>>
           \/ /\ conn # None
              /\ userConnections[conn.user] = None
              /\ clients' = [clients EXCEPT ![c] = None]
              /\ pc' = "dead"  \* userConn.clientId on a nil userConn
              /\ UNCHANGED <<userConnections, firewallVars>>
           \/ /\ conn # None
              /\ userConnections[conn.user] # None
              /\ clients' = [clients EXCEPT ![c] = None]
              /\ userConnections' = Forgotten(c)
              /\ IF conn.address = None
                   THEN UNCHANGED firewallVars
                   ELSE DisconnectUser(conn.user, conn.address)
              /\ UNCHANGED pc
    /\ UNCHANGED <<openvpnVars, commands, kills, job>>

-----------------------------------------------------------------------------
OvExecute == OvClientKill \/ OvClientAuth \/ OvClientDeny

Handler ==
    \/ ReceiveAuth
    \/ DenyClient
    \/ RegisterClient
    \/ KillSuperseded
    \/ AuthorizeClient
    \/ ReceiveReply
    \/ HandleAddress
    \/ HandleDisconnect

Peers ==
    \/ \E c \in Clients : OvConnect(c) \/ OvReauth(c) \/ OvDrop(c)
    \/ \E c \in Clients, a \in Addresses : OvEstablish(c, a)

Next == Peers \/ OvExecute \/ Handler

Spec == Init /\ [][Next]_vars

(***************************************************************************)
(* The handler goroutine is scheduled and OpenVPN executes the commands it *)
(* is sent.  Neither is enough for the handler to go on: what comes next   *)
(* on the socket may not be what it waits for.  Clients owe nothing: they  *)
(* may never connect and never leave.                                      *)
(***************************************************************************)
FairSpec == Spec /\ WF_vars(Handler) /\ WF_vars(OvExecute)

-----------------------------------------------------------------------------
(***************************************************************************)
(* Properties.                                                             *)
(***************************************************************************)

(* Every variable keeps its shape, and authorizeClient's locals are set    *)
(* where it uses them.                                                     *)
TypeOK ==
    /\ session \in [Clients -> SessionStates]
    /\ lease \in [Clients -> Addresses \cup {None}]
    /\ reauths \in Nat
    /\ events \in Seq(Event)
    /\ commands \in Seq(Command)
    /\ pc \in {"idle", "authenticate", "kill", "authorize", "reply", "dead"}
    /\ job \in Job
    /\ pc \in {"authenticate", "kill", "authorize"} => job.cid \in Clients
    /\ pc = "kill" => job.old \in Clients
    /\ clients \in [Clients -> Connection \cup {None}]
    /\ userConnections \in [Users -> Clients \cup {None}]
    /\ fwConnections \in [Addresses -> Users \cup {None}]
    /\ forward \in [Addresses -> [Users -> Nat]]
    /\ kills \in Nat
    /\ skew \in [Addresses -> [Users -> Int]]
    /\ unserved \subseteq Clients

(* The two maps of the registry agree (manager.go:380-402, 452-463): a     *)
(* client id is filed with the user it belongs to, and the connection a    *)
(* user is filed under is still filed under its own client id.  The kill   *)
(* of a superseded connection and the tests of DISCONNECT rest on it.      *)
RegistryConsistent ==
    /\ \A c \in Clients : clients[c] # None => clients[c].user = Owner[c]
    /\ \A u \in Users : userConnections[u] # None =>
           /\ clients[userConnections[u]] # None
           /\ Owner[userConnections[u]] = u

(* Firewall.connections tells the truth about the kernel's FORWARD chain   *)
(* (firewall.go:99-138), to the call: a user has the rule its record says  *)
(* at an address, less the appends that failed there and plus the deletes  *)
(* of DisconnectUser that did.  The failed delete that ends ConnectUser    *)
(* early is not among them: it comes before anything is recorded.  Where   *)
(* iptables does what it is told no call fails: a rule that is recorded is *)
(* there to be deleted.                                                    *)
ForwardMatchesConnections ==
    \A a \in Addresses, u \in Users :
        /\ forward[a][u] = (IF fwConnections[a] = u THEN 1 ELSE 0) + skew[a][u]
        /\ a \notin Fallible => skew[a][u] = 0

Pending(type, c) == \E i \in 1..Len(events) : events[i].type = type /\ events[i].cid = c

(* Once its ADDRESS event is handled, an established client is routed to   *)
(* its user's chain (manager.go:445-450), and stays so whatever becomes of *)
(* those who had the address before - unless its own ConnectUser failed,   *)
(* for a call of iptables that did, an error that processClientEvent drops.*)
AddressServed ==
    \A c \in Clients :
        ( /\ Running
          /\ session[c] = "established"
          /\ ~Pending("ADDRESS", c) )
        => \/ forward[lease[c]][Owner[c]] > 0
           \/ c \in unserved /\ lease[c] \in Fallible

(* The users to whose chain an established client is routed, though it is  *)
(* not theirs and no DISCONNECT is left to be handled.                     *)
StraysAt(c) ==
    {u \in Users \ {Owner[c]} :
        /\ Running
        /\ session[c] = "established"
        /\ \A d \in Clients : ~Pending("DISCONNECT", d)
        /\ forward[lease[c]][u] > 0}

(* An established client is never routed to another user's chain, but for  *)
(* the time the DISCONNECT of the address's last holder waits to be        *)
(* handled: groups' access "is enforced by firewall rules on the server"   *)
(* (docs/index.md:35).                                                     *)
OnlyOwnChain == \A c \in Clients : StraysAt(c) = {}

(* What it takes to break OnlyOwnChain (manager.go:397, firewall.go:133):  *)
(* a renegotiation, or a delete of DisconnectUser that failed for that     *)
(* very user and address.  But for these no interleaving of leases and     *)
(* departures puts a client on another user's chain.                       *)
StrayExplained ==
    reauths = 0 => \A c \in Clients : \A u \in StraysAt(c) : skew[lease[c]][u] > 0

(* The replies OpenVPN owes or has sent, and that are not yet read.        *)
RepliesDue ==
    Len(commands) + Cardinality({i \in 1..Len(events) : events[i].type = "REPLY"})

(* Replies carry no tag, so the exchanges on the socket keep in step only  *)
(* by their number (openvpn.go:206-224, manager.go:404-415).  It is off by *)
(* one for every client-kill, whose reply nobody waits for: from the first *)
(* of them on the handler reads, as the answer to a command, that of an    *)
(* earlier one - and by no more than that.                                 *)
RepliesLagByKills ==
    RepliesDue = kills + (IF pc = "reply" THEN 1 ELSE 0)

(* A client-kill on its way, or about to be sent (manager.go:380-407),     *)
(* never hits the connection its user is currently registered with, while  *)
(* the handler reads the replies to its own commands - until a second kill *)
(* is sent - or else while nobody renegotiates: a command may be executed  *)
(* late then, when a REAUTH has taken the registration back.               *)
KillOnlySuperseded ==
    kills <= 1 \/ reauths = 0 =>
        /\ pc = "kill" => userConnections[Owner[job.old]] # job.old
        /\ \A i \in 1..Len(commands) :
               commands[i].verb = "client-kill"
               => userConnections[Owner[commands[i].cid]] # commands[i].cid

Status(c) ==
    CASE session[c] \in {"new", "connecting"} -> "out"
      [] session[c] \in {"authorized", "established"} -> "in"
      [] OTHER -> "gone"

Sessions == INSTANCE UserSessions
    WITH status <- [c \in Clients |-> Status(c)], renewed <- reauths > 0

(* The manager implements UserSessions: the lock section of                *)
(* authorizeClient, the kill and the authorization, three steps apart,     *)
(* look from outside like one admission (manager.go:380-415).              *)
SessionsSpec == Sessions!Spec

(* The handler never dereferences a nil connection (manager.go:448, 460):  *)
(* whoever disconnects, in whatever order, the others are still served.    *)
NoPanic == Running

(* What it takes to kill the handler (manager.go:448, 460): a connection   *)
(* of a user who has had another one since.                                *)
PanicOnlyOfReconnected ==
    ~Running => \E c, d \in Clients :
                    c # d /\ Owner[c] = Owner[d] /\ session[c] = "closed" /\ session[d] # "new"

(* The handler waits for a reply and an event is before it: the reader     *)
(* does not get past the event (OpenVPNChannel!Wedged).                    *)
Wedged == pc = "reply" /\ events # <<>> /\ ~NextLine({"REPLY"})

(* The handler waits for an event and a reply that nobody waits for is     *)
(* before it: the reader does not get past the reply.                      *)
Surplus == pc = "idle" /\ NextLine({"REPLY"})

Stalled == Wedged \/ Surplus

(* While the process lives and the socket is not stalled, every connecting *)
(* client is answered or goes (manager.go:349-416): denied, authorized, or *)
(* read about behind any number of others.                                 *)
EveryConnectAnswered ==
    \A c \in Clients :
        session[c] = "connecting" ~> (session[c] # "connecting" \/ ~Running \/ Stalled)

Stands(a, u) == forward[a][u] > 0

Held(a, u) == \E c \in Clients : lease[c] = a /\ Owner[c] = u

(* While the process lives, the socket is not stalled and nobody has       *)
(* renegotiated, a user's rule at an address the user no longer holds      *)
(* goes, or the user comes back to the address - unless a delete of it has *)
(* failed: nothing tries again (manager.go:451-469, firewall.go:132).      *)
RulesDrain ==
    \A a \in Addresses, u \in Users :
        (Stands(a, u) /\ ~Held(a, u))
            ~> \/ ~Stands(a, u) \/ Held(a, u) \/ skew[a][u] > 0
               \/ ~Running \/ Stalled \/ reauths > 0
=============================================================================
