---------------------------- MODULE OpenVPNChannel ----------------------------
(***************************************************************************)
(* The plumbing between the manager and OpenVPN: internal/vpn/openvpn.go.  *)
(* Four goroutines meet on unbuffered channels, so a sender waits until    *)
(* its receiver is there:                                                  *)
(*                                                                         *)
(*   reader   reads the management socket; hands every line to whoever it  *)
(*            is for: StateChannel, ClientChannel or readChannel           *)
(*   run      takes commands from cmdChannel, writes them to the socket,   *)
(*            awaits the reply on readChannel, passes it to respChannel    *)
(*   handler  VPNManager.handleEvents: takes an event from ClientChannel,  *)
(*            issues its commands with ExecCommand                         *)
(*   main     BootVPN on StateChannel, then handleStart's wait, Shutdown   *)
(*                                                                         *)
(* A handoff is one step of both ends.  OpenVPN, at the other end of the   *)
(* socket, is external: it answers every command it executes, also the one *)
(* - client-kill - whose answer nobody here waits for.                     *)
(***************************************************************************)
EXTENDS Naturals, Sequences

CONSTANTS
    Clients,    \* OpenVPN client ids
    MaxStates,  \* bound on the >STATE lines of a behaviour
    MaxUnread,  \* bound on the unread lines of the socket: beyond it OpenVPN
                \* says nothing unasked
    None

(* What the process may die of.                                            *)
Panics == {"read on closed connection", "send on closed channel",
           "write to a dead peer", "end of file", "connection reset"}

ASSUME ConstantsAssumption ==
    /\ MaxStates \in Nat /\ MaxUnread \in Nat
    /\ None \notin Clients \cup Panics

VARIABLES
    \* OpenVPN (external) and the socket
    ovpn,      \* "launched", "dialed", "held", "up" or "exited"
    states,    \* >STATE lines written so far
    life,      \* of each client: "new", "connected" or "gone"
    wire,      \* lines written by OpenVPN, not yet read
    socket,    \* commands written by run, not yet executed
    \* the Go process
    reader,    \* [pc, line]
    run,       \* [pc, command, reply]
    handler,   \* [pc, queue]: the commands its event still calls for
    main,      \* where BootVPN and handleStart are
    closed,    \* the channels and the connection that are closed
    panic,     \* what killed the process, if anything
    killed     \* history: has a client-kill been sent?

ovpnVars == <<ovpn, states, life>>
vars == <<ovpnVars, wire, socket, reader, run, handler, main, closed, panic, killed>>

Command == [verb : {"state on", "hold release", "client-auth", "client-kill"},
            cid : Clients \cup {None}]

(* A line, or the lines of a client event from its header to ENV,END: the  *)
(* reader does nothing else before it has them all.                        *)
Line == [kind : {"hold", "state", "event", "reply"},
         name : {"OTHER", "CONNECTED", "CONNECT", "DISCONNECT",
                 "state on", "hold release", "client-auth", "client-kill"},
         cid : Clients \cup {None}]

NoCommand == [verb |-> "state on", cid |-> None]
NoLine == [kind |-> "state", name |-> "OTHER", cid |-> None]

(* What sendCommand returns when the channel or the socket is closed.      *)
NoReply == [kind |-> "reply", name |-> "OTHER", cid |-> None]

(* Seeded bug: the reply to client-auth is not awaited either.             *)
ExpectResponseOwn(command) == command.verb \in {"state on", "hold release"}

(* The commands sent with expectResponse.                                  *)
ExpectResponse(command) == command.verb # "client-kill"

(* StartOpenVPN has returned: OpenVPN is launched and run waits for it.     *)
Init ==
    /\ ovpn = "launched"
    /\ states = 0
    /\ life = [c \in Clients |-> "new"]
    /\ wire = <<>>
    /\ socket = <<>>
    /\ reader = [pc |-> "unstarted", line |-> NoLine]
    /\ run = [pc |-> "accept", command |-> NoCommand, reply |-> NoReply]
    /\ handler = [pc |-> "unstarted", queue |-> <<>>]
    /\ main = "boot"
    /\ closed = {}
    /\ panic = None
    /\ killed = FALSE

Alive == panic = None /\ main \notin {"stopped", "failed"}

-----------------------------------------------------------------------------
(***************************************************************************)
(* OpenVPN.  It has two kinds of things to say unasked: its own state, and *)
(* the comings and goings of clients.                                      *)
(***************************************************************************)
MaySpeak == Alive /\ ovpn = "up" /\ Len(wire) < MaxUnread

Write(kind, name, c) == wire' = Append(wire, [kind |-> kind, name |-> name, cid |-> c])

OvState(name) ==
    /\ MaySpeak
    /\ states < MaxStates
    /\ states' = states + 1
    /\ Write("state", name, None)
    /\ UNCHANGED <<ovpn, life, socket, reader, run, handler, main, closed, panic, killed>>

OvConnect(c) ==
    /\ MaySpeak
    /\ life[c] = "new"
    /\ life' = [life EXCEPT ![c] = "connected"]
    /\ Write("event", "CONNECT", c)
    /\ UNCHANGED <<ovpn, states, socket, reader, run, handler, main, closed, panic, killed>>

OvDisconnect(c) ==
    /\ MaySpeak
    /\ life[c] = "connected"
    /\ life' = [life EXCEPT ![c] = "gone"]
    /\ Write("event", "DISCONNECT", c)
    /\ UNCHANGED <<ovpn, states, socket, reader, run, handler, main, closed, panic, killed>>

(* It connects to the manager and waits to be released.                    *)
OvDial ==
    /\ Alive /\ ovpn = "launched"
    /\ ovpn' = "dialed"
    /\ run' = [run EXCEPT !.pc = "hold"]
    /\ UNCHANGED <<states, life, wire, socket, reader, handler, main, closed, panic, killed>>

OvHold ==
    /\ Alive /\ ovpn = "dialed"
    /\ ovpn' = "held"
    /\ Write("hold", "OTHER", None)
    /\ UNCHANGED <<states, life, socket, reader, run, handler, main, closed, panic, killed>>

OvExecute ==
    /\ Alive /\ ovpn # "exited" /\ socket # <<>>
    /\ LET command == Head(socket)
       IN  /\ Write("reply", command.verb, command.cid)
           /\ ovpn' = IF command.verb = "hold release" THEN "up" ELSE ovpn
    /\ socket' = Tail(socket)
    /\ UNCHANGED <<states, life, reader, run, handler, main, closed, panic, killed>>

(* OpenVPN may die, and does exit once its management client has hung up.  *)
OvExit ==
    /\ Alive /\ ovpn # "exited"
    /\ ovpn' = "exited"
    /\ UNCHANGED <<states, life, wire, socket, reader, run, handler, main, closed, panic, killed>>

-----------------------------------------------------------------------------
(***************************************************************************)
(* reader: readerChannel.  The deferred function closes the three channels *)
(* it feeds on a clean end of file; a read from the connection after run   *)
(* closed it is an error that neither errors.Is call recognises, and it    *)
(* panics.  So is the reset of a connection whose other end is gone with   *)
(* commands unread; a command may also have been read and not executed.    *)
(* Lines already in the bufio.Reader are still returned.                   *)
(***************************************************************************)
ReaderRead ==
    /\ Alive /\ reader.pc = "read" /\ wire # <<>>
    /\ reader' = [pc |-> "send", line |-> Head(wire)]
    /\ wire' = Tail(wire)
    /\ UNCHANGED <<ovpnVars, socket, run, handler, main, closed, panic, killed>>

(* Seeded bug: the end of file is an error like any other.                 *)
ReaderEOFPanics ==
    /\ Alive /\ reader.pc = "read" /\ wire = <<>>
    /\ ovpn = "exited" /\ "conn" \notin closed
    /\ panic' = "read on closed connection"
    /\ UNCHANGED <<ovpnVars, wire, socket, reader, run, handler, main, closed, killed>>

(* Seeded bug: StateChannel is left open.                                  *)
ReaderEOFLeavesState ==
    /\ Alive /\ reader.pc = "read" /\ wire = <<>>
    /\ ovpn = "exited" /\ "conn" \notin closed
    /\ reader' = [reader EXCEPT !.pc = "done"]
    /\ closed' = closed \cup {"read", "client"}
    /\ UNCHANGED <<ovpnVars, wire, socket, run, handler, main, panic, killed>>

(* Seeded bug: readChannel is left open.                                   *)
ReaderEOFLeavesRead ==
    /\ Alive /\ reader.pc = "read" /\ wire = <<>>
    /\ ovpn = "exited" /\ "conn" \notin closed
    /\ reader' = [reader EXCEPT !.pc = "done"]
    /\ closed' = closed \cup {"state", "client"}
    /\ UNCHANGED <<ovpnVars, wire, socket, run, handler, main, panic, killed>>

ReaderEOF ==
    /\ Alive /\ reader.pc = "read" /\ wire = <<>>
    /\ ovpn = "exited" /\ "conn" \notin closed
    /\ reader' = [reader EXCEPT !.pc = "done"]
    /\ closed' = closed \cup {"read", "state", "client"}
    /\ UNCHANGED <<ovpnVars, wire, socket, run, handler, main, panic, killed>>

ReaderReset ==
    /\ Alive /\ reader.pc = "read" /\ wire = <<>>
    /\ ovpn = "exited" /\ "conn" \notin closed
    /\ socket # <<>>
    /\ panic' = "connection reset"
    /\ UNCHANGED <<ovpnVars, wire, socket, reader, run, handler, main, closed, killed>>

(* The last line of an OpenVPN that died while it wrote it is lost.  If it *)
(* is an event cut short between its lines, readEvent's error is logged,   *)
(* that of a reset connection included, which is reported but once.        *)
ReaderDrops ==
    /\ Alive /\ reader.pc = "read" /\ Len(wire) = 1
    /\ ovpn = "exited" /\ "conn" \notin closed
    /\ wire' = <<>>
    /\ socket' = socket \/ (Head(wire).kind = "event" /\ socket' = <<>>)
    /\ UNCHANGED <<ovpnVars, reader, run, handler, main, closed, panic, killed>>

ReaderPanics ==
    /\ Alive /\ reader.pc = "read" /\ "conn" \in closed
    /\ panic' = "read on closed connection"
    /\ UNCHANGED <<ovpnVars, wire, socket, reader, run, handler, main, closed, killed>>

Sending(kind) == Alive /\ reader.pc = "send" /\ reader.line.kind = kind

ReaderSent == reader' = [pc |-> "read", line |-> NoLine]

-----------------------------------------------------------------------------
(***************************************************************************)
(* run: accept OpenVPN's connection and await >HOLD, which it reads        *)
(* itself; two commands of its own, then the command loop.                 *)
(***************************************************************************)
(* sendCommand from run's side: a write to a dead peer fails at once.      *)
Submit(command, after) ==
    IF ovpn = "exited"
      THEN /\ run' = [pc |-> after, command |-> command, reply |-> NoReply]
           /\ UNCHANGED socket
      ELSE /\ run' = [pc |-> IF ExpectResponse(command) THEN "await" ELSE after,
                      command |-> command, reply |-> NoReply]
           /\ socket' = Append(socket, command)

(* Where run goes once the reply to its command is in.                     *)
AfterReply(command) ==
    CASE command.verb = "state on" -> "release"
      [] command.verb = "hold release" -> "loop"
      [] OTHER -> "respond"

DeliverReply ==
    /\ Sending("reply") /\ run.pc = "await"
    /\ run' = [run EXCEPT !.pc = AfterReply(run.command), !.reply = reader.line]
    /\ ReaderSent
    /\ UNCHANGED <<ovpnVars, wire, socket, handler, main, closed, panic, killed>>

(* A closed readChannel counts as success.                                 *)
ReplyClosed ==
    /\ Alive /\ run.pc = "await" /\ "read" \in closed
    /\ run' = [run EXCEPT !.pc = AfterReply(run.command)]
    /\ UNCHANGED <<ovpnVars, wire, socket, reader, handler, main, closed, panic, killed>>

(* A command of run's own, or the panic that its failure is.               *)
SubmitOwn(verb) ==
    IF ovpn = "exited"
      THEN /\ panic' = "write to a dead peer"
           /\ UNCHANGED <<run, socket>>
      ELSE /\ Submit([verb |-> verb, cid |-> None], "loop")
           /\ UNCHANGED panic

(* >HOLD has come: the reader is started.                                  *)
HoldSeen ==
    /\ Alive /\ run.pc = "hold" /\ wire # <<>>
    /\ wire' = Tail(wire)
    /\ reader' = [reader EXCEPT !.pc = "read"]
    /\ SubmitOwn("state on")
    /\ UNCHANGED <<ovpnVars, handler, main, closed, killed>>

(* OpenVPN is gone before it has said all of >HOLD.                        *)
HoldMissed ==
    /\ Alive /\ run.pc = "hold" /\ ovpn = "exited"
    /\ panic' = "end of file"
    /\ UNCHANGED <<ovpnVars, wire, socket, reader, run, handler, main, closed, killed>>

HoldRelease ==
    /\ Alive /\ run.pc = "release"
    /\ SubmitOwn("hold release")
    /\ UNCHANGED <<ovpnVars, wire, reader, handler, main, closed, killed>>

(* Seeded bug: the connection is not closed.                               *)
RunStopsConnected ==
    /\ Alive /\ run.pc = "loop" /\ "cmd" \in closed
    /\ run' = [run EXCEPT !.pc = "done"]
    /\ closed' = closed \cup {"resp"}
    /\ UNCHANGED <<ovpnVars, wire, socket, reader, handler, main, panic, killed>>

(* The loop's end: the deferred calls close the connection first, and wait *)
(* for OpenVPN last.                                                       *)
RunStops ==
    /\ Alive /\ run.pc = "loop" /\ "cmd" \in closed
    /\ run' = [run EXCEPT !.pc = "done"]
    /\ closed' = closed \cup {"conn", "resp"}
    /\ UNCHANGED <<ovpnVars, wire, socket, reader, handler, main, panic, killed>>

-----------------------------------------------------------------------------
(***************************************************************************)
(* handler: an event calls for no command, for a client-auth (or deny), or *)
(* for a client-kill and a client-auth.                                    *)
(***************************************************************************)
(* Seeded bug: the handler never goes back for an event.                   *)
ResumeAlways(queue) == "exec"

Resume(queue) == IF queue = <<>> THEN "receive" ELSE "exec"

Calls(line) ==
    LET auth == [verb |-> "client-auth", cid |-> line.cid]
        kills == {[verb |-> "client-kill", cid |-> d] : d \in Clients \ {line.cid}}
    IN  IF line.name = "CONNECT" THEN {<<auth>>} \cup {<<k, auth>> : k \in kills} ELSE {<<>>}

DeliverEvent ==
    /\ Sending("event") /\ handler.pc = "receive"
    /\ \E queue \in Calls(reader.line) :
           handler' = [pc |-> Resume(queue), queue |-> queue]
    /\ ReaderSent
    /\ UNCHANGED <<ovpnVars, wire, socket, run, main, closed, panic, killed>>

HandlerStops ==
    /\ Alive /\ handler.pc = "receive" /\ "client" \in closed
    /\ handler' = [handler EXCEPT !.pc = "stopped"]
    /\ UNCHANGED <<ovpnVars, wire, socket, reader, run, main, closed, panic, killed>>

(* Seeded bug: the handler goes on without its response.                   *)
ExecCommandUnawaited ==
    /\ Alive /\ handler.pc = "exec" /\ run.pc = "loop" /\ "cmd" \notin closed
    /\ LET command == Head(handler.queue)
           rest == Tail(handler.queue)
       IN  /\ Submit(command, IF ExpectResponse(command) THEN "respond" ELSE "loop")
           /\ handler' = [pc |-> Resume(rest), queue |-> rest]
    /\ UNCHANGED <<ovpnVars, wire, reader, main, closed, panic, killed>>

(* The send of ExecCommand and, for client-kill, its return.               *)
ExecCommand ==
    /\ Alive /\ handler.pc = "exec" /\ run.pc = "loop" /\ "cmd" \notin closed
    /\ LET command == Head(handler.queue)
           rest == Tail(handler.queue)
       IN  /\ killed' = (killed \/ command.verb = "client-kill")
           /\ IF ExpectResponse(command)
                THEN /\ Submit(command, "respond")
                     /\ handler' = [handler EXCEPT !.pc = "response"]
                ELSE /\ Submit(command, "loop")
                     /\ handler' = [pc |-> Resume(rest), queue |-> rest]
    /\ UNCHANGED <<ovpnVars, wire, reader, main, closed, panic>>

(* `defer recover()` recovers from nothing: recover must be called by the  *)
(* deferred function, not be it.                                           *)
ExecPanics ==
    /\ Alive /\ handler.pc = "exec" /\ "cmd" \in closed
    /\ panic' = "send on closed channel"
    /\ UNCHANGED <<ovpnVars, wire, socket, reader, run, handler, main, closed, killed>>

(* Seeded bug: the response is dropped when the handler is slow.           *)
RespondLost ==
    /\ Alive /\ run.pc = "respond" /\ handler.pc = "response"
    /\ run' = [run EXCEPT !.pc = "loop"]
    /\ UNCHANGED <<ovpnVars, wire, socket, reader, handler, main, closed, panic, killed>>

Respond ==
    /\ Alive /\ run.pc = "respond" /\ handler.pc = "response"
    /\ run' = [run EXCEPT !.pc = "loop"]
    /\ LET rest == Tail(handler.queue)
       IN  handler' = [pc |-> Resume(rest), queue |-> rest]
    /\ UNCHANGED <<ovpnVars, wire, socket, reader, main, closed, panic, killed>>

-----------------------------------------------------------------------------
(***************************************************************************)
(* main: boot until CONNECTED with an interface that has the address, set  *)
(* up the firewall and start the handler, wait for a signal, shut down.    *)
(***************************************************************************)
DeliverState ==
    /\ Sending("state") /\ main = "boot"
    /\ \/ UNCHANGED main
       \/ reader.line.name = "CONNECTED" /\ main' \in {"starting", "failed"}
    /\ ReaderSent
    /\ UNCHANGED <<ovpnVars, wire, socket, run, handler, closed, panic, killed>>

(* A step of BootVPN fails and the program exits without a Shutdown.       *)
BootFails ==
    /\ Alive
    /\ (main = "boot" /\ "state" \in closed) \/ main = "starting"
    /\ main' = "failed"
    /\ UNCHANGED <<ovpnVars, wire, socket, reader, run, handler, closed, panic, killed>>

Serve ==
    /\ Alive /\ main = "starting"
    /\ main' = "serving"
    /\ handler' = [handler EXCEPT !.pc = "receive"]
    /\ UNCHANGED <<ovpnVars, wire, socket, reader, run, closed, panic, killed>>

(* From handleStart on a signal, or from BootVPN when a step of it fails.  *)
Shutdown ==
    /\ Alive /\ main \in {"starting", "serving"}
    /\ main' = "closing"
    /\ closed' = closed \cup {"cmd"}
    /\ UNCHANGED <<ovpnVars, wire, socket, reader, run, handler, panic, killed>>

(* The second of two Waits for one process returns at once.                *)
WaitOpenVPN ==
    /\ Alive /\ main = "closing"
    /\ main' = IF run.pc = "done" THEN "stopped" ELSE "waiting"
    /\ UNCHANGED <<ovpnVars, wire, socket, reader, run, handler, closed, panic, killed>>

ShutdownReturns ==
    /\ Alive /\ main = "waiting" /\ ovpn = "exited"
    /\ main' = "stopped"
    /\ UNCHANGED <<ovpnVars, wire, socket, reader, run, handler, closed, panic, killed>>

-----------------------------------------------------------------------------
Speak ==
    \/ \E name \in {"OTHER", "CONNECTED"} : OvState(name)
    \/ \E c \in Clients : OvConnect(c) \/ OvDisconnect(c)
    \/ OvDial \/ OvHold \/ OvExit

Reader == ReaderRead \/ ReaderEOF \/ ReaderReset \/ ReaderDrops \/ ReaderPanics
Run == HoldSeen \/ HoldMissed \/ DeliverReply \/ ReplyClosed \/ HoldRelease \/ RunStops
Handler == DeliverEvent \/ HandlerStops \/ ExecCommand \/ ExecPanics \/ Respond
Main == DeliverState \/ BootFails \/ Serve \/ WaitOpenVPN \/ ShutdownReturns

Process == Reader \/ Run \/ Handler \/ Main

Next == Speak \/ OvExecute \/ Process \/ Shutdown

Spec == Init /\ [][Next]_vars

(***************************************************************************)
(* The Go scheduler runs every goroutine that can go on; OpenVPN executes  *)
(* what it is told and exits once its management connection is gone.       *)
(* Nothing makes a client come, OpenVPN die or an operator stop the server.*)
(***************************************************************************)
Fairness ==
    /\ WF_vars(Reader)
    /\ WF_vars(Run)
    /\ WF_vars(Handler)
    /\ WF_vars(Main)
    /\ WF_vars(OvExecute)
    /\ WF_vars("conn" \in closed /\ OvExit)

FairSpec == Spec /\ Fairness

-----------------------------------------------------------------------------
(***************************************************************************)
(* Properties.                                                             *)
(***************************************************************************)

(* Every variable keeps its shape, and the handler issues commands exactly *)
(* when it has some.                                                       *)
TypeOK ==
    /\ ovpn \in {"launched", "dialed", "held", "up", "exited"}
    /\ states \in Nat
    /\ life \in [Clients -> {"new", "connected", "gone"}]
    /\ wire \in Seq(Line)
    /\ socket \in Seq(Command)
    /\ reader \in [pc : {"unstarted", "read", "send", "done"}, line : Line]
    /\ run \in [pc : {"accept", "hold", "await", "release", "loop", "respond", "done"},
                command : Command, reply : Line]
    /\ handler \in [pc : {"unstarted", "receive", "exec", "response", "stopped"},
                    queue : Seq(Command)]
    /\ handler.pc \in {"exec", "response"} <=> handler.queue # <<>>
    /\ main \in {"boot", "starting", "serving", "closing", "waiting", "stopped",
                "failed"}
    /\ closed \subseteq {"conn", "cmd", "resp", "read", "state", "client"}
    /\ panic \in Panics \cup {None}
    /\ killed \in BOOLEAN

(* The reply run passes on, if OpenVPN gave one, is the reply to the       *)
(* command the handler waits for (openvpn.go:190-224, 414-424), until the  *)
(* first client-kill: replies carry no tag, and from then on there is one  *)
(* that nobody awaited before each that somebody does.                     *)
ResponseMatches ==
    run.pc = "respond" =>
        /\ handler.pc = "response"
        /\ Head(handler.queue) = run.command
        /\ run.reply # NoReply /\ ~killed => /\ run.reply.name = run.command.verb
                                             /\ run.reply.cid = run.command.cid

(* Everyone waits on everyone: reader on the handler to take an event, the *)
(* handler on run for a response, run on reader for the reply behind it.   *)
Wedged ==
    /\ Sending("event")
    /\ run.pc = "await"
    /\ handler.pc = "response"

(* No three goroutines wait on each other for ever (openvpn.go:214, 246,   *)
(* 419): however many users come and go, the next one is served.           *)
NoWedge == ~Wedged

(* A >STATE line nobody takes once the boot loop is over (openvpn.go:238). *)
StateStuck == Sending("state") /\ main \notin {"boot", "failed", "stopped"}

(* A reply too many: the reader waits on run to take it (openvpn.go:408),  *)
(* run on the handler for a command, the handler on reader for an event.   *)
Surplus ==
    /\ Sending("reply")
    /\ run.pc = "loop"
    /\ handler.pc = "receive"

Stalled == Wedged \/ StateStuck \/ Surplus

(* What it takes to come to a surplus reply, and with it to the end of all *)
(* service (manager.go:404-407): a client-kill.  No other exchange, and no *)
(* exit of OpenVPN in the midst of one, leaves a reply behind.             *)
SurplusOnlyByKill == Surplus => killed

(* Who moves next while the handler is inside ExecCommand, which lets it   *)
(* go on: itself and run, run with the reply, the reader, OpenVPN.  These  *)
(* are the guards of ExecCommand and ExecPanics, Respond, DeliverReply and *)
(* ReplyClosed, the reader's steps, and OvExecute.                         *)
GoesOn ==
    \/ handler.pc = "exec" /\ (run.pc = "loop" \/ "cmd" \in closed)
    \/ handler.pc = "response" /\ run.pc = "respond"
    \/ run.pc = "await" /\ (Sending("reply") \/ "read" \in closed)
    \/ reader.pc = "read" /\ (wire # <<>> \/ ovpn = "exited" \/ "conn" \in closed)
    \/ ovpn # "exited" /\ socket # <<>>

(* An event before the reply and an untaken >STATE line are the only ways  *)
(* the handler can be left waiting inside ExecCommand with nobody to move  *)
(* who could let it go on, whoever stops or dies when, replies too many    *)
(* included (openvpn.go:190-249, 383-399, 414-429).                        *)
OnlyKnownStalls ==
    Alive /\ handler.pc \in {"exec", "response"} => GoesOn \/ Wedged \/ StateStuck

(* A server that is not being stopped does not die of its own channels,    *)
(* whoever closes what when (openvpn.go:393-399, 416), but only with its   *)
(* OpenVPN: before it is up, or - once the boot has seen the tunnel - of a *)
(* command OpenVPN left unread, whose reset connection the reader takes    *)
(* for an error that it does not know.                                     *)
PanicExplained ==
    panic # None /\ main \notin {"closing", "waiting"} =>
        /\ ovpn = "exited"
        /\ main # "boot" => panic = "connection reset" /\ socket # <<>>

(* A client's coming or going, said and not yet taken by the handler.      *)
Announced(name, c) ==
    LET Says(line) == line.kind = "event" /\ line.name = name /\ line.cid = c
    IN  \/ \E i \in 1..Len(wire) : Says(wire[i])
        \/ reader.pc = "send" /\ Says(reader.line)

(* But for the stalls above, whatever OpenVPN says of a client while the   *)
(* server serves is taken up, from the moment it is said and whatever is   *)
(* before it on the socket, unless the server is stopped or OpenVPN is     *)
(* gone (openvpn.go:190-249, manager.go:307-319).                          *)
EventsServed ==
    \A c \in Clients, name \in {"CONNECT", "DISCONNECT"} :
        (Announced(name, c) /\ main = "serving")
            ~> \/ ~Announced(name, c)
               \/ main # "serving" \/ ~Alive \/ ovpn = "exited" \/ Stalled

(* When OpenVPN goes, the handler does not wait for ever for a reply that  *)
(* will not come: readerChannel closes readChannel (openvpn.go:383-388),   *)
(* if the reader is not stalled before it gets there.                      *)
HandlerReleased ==
    (ovpn = "exited" /\ main = "serving")
        ~> (handler.pc = "stopped" \/ main # "serving" \/ ~Alive \/ Stalled)

(* When OpenVPN goes before it is up, the boot does not wait for it for    *)
(* ever (manager.go:97-102, openvpn.go:152-173, 383-388) - unless OpenVPN  *)
(* went before it connected, for AcceptUnix has no end, or the reader is   *)
(* stuck with an event that nobody takes yet.                              *)
BootReleased ==
    (ovpn = "exited" /\ main = "boot")
        ~> (main # "boot" \/ ~Alive \/ run.pc = "accept" \/ Sending("event"))

(* Shutdown comes to an end, cleanly or not (openvpn.go:426-429), unless   *)
(* run waits for a reply that is behind a line nobody takes.               *)
ShutdownEnds ==
    main = "closing" ~> (~Alive \/ ((Wedged \/ StateStuck) /\ run.pc = "await"))
=============================================================================
