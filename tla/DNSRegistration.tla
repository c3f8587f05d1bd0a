---------------------------- MODULE DNSRegistration ----------------------------
(***************************************************************************)
(* The servers of ServerKeys under one domain name: RegisterDNS and        *)
(* UnregisterDNS of internal/config/aws.go as BootVPN and Shutdown call    *)
(* them.  A server that boots enters its address in Route 53 once it can   *)
(* serve; one that is told to stop, or cannot register, unregisters and    *)
(* exits; one that dies does nothing.                                      *)
(*                                                                         *)
(* The option "weighted" of vpn.conf gives every server a record of its    *)
(* own, told apart by instance id; without it they share one.  A host      *)
(* keeps its address and its instance id, so both are the server here.     *)
(* Route 53 applies each change atomically; a change whose answer is an    *)
(* error may have been applied or not.                                     *)
(***************************************************************************)
EXTENDS ServerKeys

ASSUME FleetAssumption == None \notin Servers

VARIABLES
    weighted,  \* Route53Weighted of vpn.conf
    records,   \* record of the name, per set identifier -> server it leads to
    dns,       \* how far each server has come with its registration
    \* history
    calm       \* has no server died while registered, and no DNS call failed?

dnsVars == <<weighted, records, dns, calm>>
fleetVars == <<vars, dnsVars>>

(* The one record of servers that are not weighted has no set identifier.  *)
Identifier(s) == IF weighted THEN s ELSE None

FleetInit ==
    /\ Init
    /\ weighted \in BOOLEAN
    /\ records = [i \in Servers \cup {None} |-> None]
    /\ dns = [s \in Servers |-> "none"]
    /\ calm = TRUE

-----------------------------------------------------------------------------
(* Seeded bug: a weighted server has no identifier.                        *)
UpsertShared(s) == records' = [records EXCEPT ![None] = s]

(* updateRoute53, which sends UPSERT whatever action it is given.          *)
Upsert(s) == records' = [records EXCEPT ![Identifier(s)] = s]

Register(s) ==
    /\ At(s, "serving") /\ dns[s] = "none"
    /\ Upsert(s)
    /\ dns' = [dns EXCEPT ![s] = "registered"]
    /\ UNCHANGED <<vars, weighted, calm>>

(* A server without a public address, or without a zone in vpn.conf.       *)
ServeUnregistered(s) ==
    /\ At(s, "serving") /\ dns[s] = "none"
    /\ dns' = [dns EXCEPT ![s] = "unregistered"]
    /\ UNCHANGED <<vars, weighted, records, calm>>

(* The address or the id of the instance cannot be had, and nothing is     *)
(* noted to unregister; or the change itself fails, and Shutdown           *)
(* unregisters what may not have been registered.                          *)
RegisterFails(s) ==
    /\ At(s, "serving") /\ dns[s] = "none"
    /\ calm' = FALSE
    /\ \/ /\ dns' = [dns EXCEPT ![s] = "stopped"]
          /\ UNCHANGED records
       \/ /\ dns' = [dns EXCEPT ![s] = "stopping"]
          /\ Upsert(s) \/ UNCHANGED records
    /\ UNCHANGED <<vars, weighted>>

(* SIGINT or SIGTERM.                                                      *)
Stop(s) ==
    /\ dns[s] \in {"registered", "unregistered"}
    /\ dns' = [dns EXCEPT ![s] = IF @ = "registered" THEN "stopping" ELSE "stopped"]
    /\ UNCHANGED <<vars, weighted, records, calm>>

(* A failure is logged and forgotten.                                      *)
Unregister(s) ==
    /\ dns[s] = "stopping"
    /\ dns' = [dns EXCEPT ![s] = "stopped"]
    /\ \/ /\ Upsert(s)
          /\ UNCHANGED calm
       \/ /\ calm' = FALSE
          /\ Upsert(s) \/ UNCHANGED records
    /\ UNCHANGED <<vars, weighted>>

(* Seeded bug: the next boot of the server takes itself for registered.    *)
ExitUnnoticed(s) ==
    /\ Exit(s)
    /\ calm' = (calm /\ dns[s] \notin {"registered", "stopping"})
    /\ UNCHANGED <<weighted, records, dns>>

(* The end of a shutdown, or of a boot, or of a server that dies.          *)
ExitRegistered(s) ==
    /\ Exit(s)
    /\ dns' = [dns EXCEPT ![s] = "none"]
    /\ calm' = (calm /\ dns[s] \notin {"registered", "stopping"})
    /\ UNCHANGED <<weighted, records>>

FleetNext ==
    \E s \in Servers :
        \/ Register(s) \/ ServeUnregistered(s) \/ RegisterFails(s)
        \/ Stop(s) \/ Unregister(s) \/ ExitRegistered(s)
        \/ /\ Boot(s) \/ MakeBundle(s) \/ PutCert(s) \/ PutKey(s) \/ PutCA(s)
              \/ FetchCert(s) \/ FetchKey(s)
           /\ UNCHANGED dnsVars

FleetSpec == FleetInit /\ [][FleetNext]_fleetVars

-----------------------------------------------------------------------------
(***************************************************************************)
(* Properties.                                                             *)
(***************************************************************************)

(* Every variable keeps its shape, and only a server that has its keys     *)
(* comes to register.                                                      *)
FleetTypeOK ==
    /\ weighted \in BOOLEAN
    /\ records \in [Servers \cup {None} -> Servers \cup {None}]
    /\ dns \in [Servers -> {"none", "registered", "unregistered", "stopping", "stopped"}]
    /\ \A s \in Servers : dns[s] # "none" => At(s, "serving")
    /\ calm \in BOOLEAN

Registered(s) == dns[s] = "registered"

(* Who has registered can be found (aws.go:361-394), whatever the others   *)
(* register, give up and leave behind: a weighted server under a record of *)
(* its own, one of several that share a record at least in so far as the   *)
(* name leads to a server that had come as far as registering.             *)
RegisteredFound ==
    \A s \in Servers : Registered(s) =>
        IF weighted THEN records[s] = s ELSE records[None] # None

(* What the DNS registration is for: "it registers itself in Route 53 so   *)
(* that clients know where to find it" (docs/index.md:46).  With a server  *)
(* registered, none on its way out, and every exit so far an orderly one,  *)
(* each record of the name leads to a server that is registered.           *)
NameLeadsToServers ==
    ( /\ calm
      /\ \A s \in Servers : dns[s] \notin {"stopping", "stopped"}
      /\ \E s \in Servers : Registered(s) )
    => \A i \in DOMAIN records : records[i] # None => Registered(records[i])
=============================================================================
