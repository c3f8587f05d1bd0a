------------------------- MODULE OpenVPNChannelProofs -------------------------
(***************************************************************************)
(* Proofs about OpenVPNChannel, for any number of clients and of lines on  *)
(* the way.  Replies carry no tag, and still every one that run passes on  *)
(* is the reply to the command the handler waits for, until a client-kill  *)
(* is sent, whose reply nobody waits for; only then can there be one too   *)
(* many.  A process that is not being stopped dies of nothing it has       *)
(* closed itself; and the handler waits for nobody who cannot go on, but   *)
(* for two known ways.                                                     *)
(***************************************************************************)
EXTENDS OpenVPNChannel, TLAPS

(* The handler is started once, by the boot, with nothing to do.           *)
HandlerUnstarted == main \in {"boot", "starting"} => handler.pc = "unstarted"

(* The channels and the connection are closed in this order                *)
(* (openvpn.go:143-176, 426-429).                                          *)
ClosedInOrder ==
    /\ "conn" \in closed => "cmd" \in closed
    /\ "cmd" \in closed => main \in {"closing", "waiting", "stopped"}

(* A reply that the reader holds, one that is still on the wire, a command *)
(* whose reply OpenVPN will write.                                         *)
ReplyHeld == reader.pc = "send" /\ reader.line.kind = "reply"
ReplyOn(i) == i \in 1..Len(wire) /\ wire[i].kind = "reply"
ReplyDue(i) == ovpn # "exited" /\ i \in 1..Len(socket)

Answers(line) == line.name = run.command.verb /\ line.cid = run.command.cid

(* Until the first client-kill a reply, wherever it is, is the one that    *)
(* run awaits.                                                             *)
RepliesAwaited ==
    /\ ReplyHeld => run.pc = "await" /\ Answers(reader.line)
    /\ \A i : ReplyOn(i) => run.pc = "await" /\ Answers(wire[i])
    /\ \A i : ReplyDue(i) => run.pc = "await" /\ socket[i] = run.command

(* And there is one at most.                                               *)
OneReply ==
    /\ ReplyHeld => \A i : ~ReplyOn(i) /\ ~ReplyDue(i)
    /\ \A i, j : ReplyOn(i) => ~ReplyDue(j) /\ (ReplyOn(j) => i = j)
    /\ \A i, j : ReplyDue(i) /\ ReplyDue(j) => i = j

(* When the reader is done nothing comes any more.                         *)
ReadClosed ==
    "read" \in closed => reader.pc = "done" /\ wire = <<>> /\ ovpn = "exited"

(* What run does for the handler is what the handler waits for.            *)
OwnVerbs == {"state on", "hold release"}

ForHandler ==
    (run.pc = "respond" \/ (run.pc = "await" /\ run.command.verb \notin OwnVerbs))
    => handler.pc = "response" /\ Head(handler.queue) = run.command

ReplyNoted ==
    /\ run.pc = "await" => run.reply = NoReply
    /\ run.pc = "respond" /\ run.reply # NoReply => Answers(run.reply)

(* The reader is started by run, and run by OpenVPN.                       *)
ReaderUnstarted ==
    panic = None =>
        /\ run.pc \in {"accept", "hold"} <=> reader.pc = "unstarted"
        /\ ovpn = "launched" => run.pc = "accept"

ShapeInv == TypeOK /\ HandlerUnstarted /\ ReaderUnstarted

ReplyInv == RepliesAwaited /\ OneReply /\ ReadClosed /\ ReplyNoted

-----------------------------------------------------------------------------
(***************************************************************************)
(* Type correctness.                                                       *)
(***************************************************************************)
LEMMA WriteTyped ==
    ASSUME wire \in Seq(Line), NEW kind, NEW name, NEW c, Write(kind, name, c),
           [kind |-> kind, name |-> name, cid |-> c] \in Line
    PROVE  wire' \in Seq(Line)
BY DEF Write

LEMMA SubmitTyped ==
    ASSUME TypeOK, NEW command \in Command, NEW after \in {"respond", "loop"},
           Submit(command, after)
    PROVE  /\ socket' \in Seq(Command)
           /\ run' \in [pc : {"await", "loop", "respond"}, command : Command, reply : Line]
<1>1. NoReply \in Line
  BY DEF NoReply, Line
<1>2. CASE ovpn = "exited"
  BY <1>1, <1>2 DEF Submit, TypeOK
<1>3. CASE ovpn # "exited"
  <2>1. socket' = Append(socket, command)
    BY <1>3 DEF Submit
  <2>2. run' = [pc |-> IF ExpectResponse(command) THEN "await" ELSE after,
                command |-> command, reply |-> NoReply]
    BY <1>3 DEF Submit
  <2> QED BY <1>1, <2>1, <2>2 DEF TypeOK
<1> QED BY <1>2, <1>3

LEMMA SpeakShape == ASSUME ShapeInv, Speak \/ OvExecute PROVE ShapeInv'
<1> USE DEF ShapeInv, TypeOK, HandlerUnstarted, ReaderUnstarted
<1>1. ASSUME NEW name \in {"OTHER", "CONNECTED"}, OvState(name) PROVE ShapeInv'
  <2>1. [kind |-> "state", name |-> name, cid |-> None] \in Line
    BY DEF Line
  <2>2. wire' \in Seq(Line) /\ states' \in Nat
    BY <1>1, <2>1, WriteTyped DEF OvState
  <2> QED BY <1>1, <2>2 DEF OvState
<1>2. ASSUME NEW c \in Clients, OvConnect(c) \/ OvDisconnect(c) PROVE ShapeInv'
  <2>1. \A name \in {"CONNECT", "DISCONNECT"} :
            [kind |-> "event", name |-> name, cid |-> c] \in Line
    BY DEF Line
  <2>2. wire' \in Seq(Line)
    BY <1>2, <2>1, WriteTyped DEF OvConnect, OvDisconnect
  <2>3. life' \in [Clients -> {"new", "connected", "gone"}]
    BY <1>2 DEF OvConnect, OvDisconnect
  <2>4. UNCHANGED <<ovpn, states, socket, reader, run, handler, main, closed, panic, killed>>
    BY <1>2 DEF OvConnect, OvDisconnect
  <2> QED BY <2>2, <2>3, <2>4
<1>3. CASE OvDial
  <2>1. run' \in [pc : {"hold"}, command : Command, reply : Line]
    BY <1>3 DEF OvDial
  <2> QED BY <1>3, <2>1 DEF OvDial
<1>4. CASE OvHold
  <2>1. [kind |-> "hold", name |-> "OTHER", cid |-> None] \in Line
    BY DEF Line
  <2>2. wire' \in Seq(Line)
    BY <1>4, <2>1, WriteTyped DEF OvHold
  <2> QED BY <1>4, <2>2 DEF OvHold
<1>5. CASE OvExit
  BY <1>5 DEF OvExit
<1>6. CASE OvExecute
  <2> DEFINE command == Head(socket)
  <2>1. command \in Command /\ socket' \in Seq(Command)
    <3>1. socket \in Seq(Command) /\ socket # <<>> /\ socket' = Tail(socket)
      BY <1>6 DEF OvExecute
    <3> QED BY <3>1
  <2>2. [kind |-> "reply", name |-> command.verb, cid |-> command.cid] \in Line
    BY <2>1 DEF Command, Line
  <2>3. wire' \in Seq(Line)
    BY <1>6, <2>2, WriteTyped DEF OvExecute
  <2>4. ovpn' \in {"up", ovpn}
    BY <1>6 DEF OvExecute
  <2>5. UNCHANGED <<states, life, reader, run, handler, main, closed, panic, killed>>
    BY <1>6 DEF OvExecute
  <2> QED BY <2>1, <2>3, <2>4, <2>5
<1> QED BY <1>1, <1>2, <1>3, <1>4, <1>5, <1>6 DEF Speak

LEMMA ReaderShape == ASSUME ShapeInv, Reader PROVE ShapeInv'
<1> USE DEF ShapeInv, TypeOK, HandlerUnstarted, ReaderUnstarted
<1>1. CASE ReaderRead
  <2>1. wire \in Seq(Line) /\ wire # <<>> /\ wire' = Tail(wire)
    BY <1>1 DEF ReaderRead
  <2>2. wire' \in Seq(Line) /\ Head(wire) \in Line
    BY <2>1
  <2>3. reader.pc = "read" /\ reader' = [pc |-> "send", line |-> Head(wire)]
    BY <1>1 DEF ReaderRead
  <2>4. UNCHANGED <<ovpn, states, life, socket, run, handler, main, closed, panic, killed>>
    BY <1>1 DEF ReaderRead, ovpnVars
  <2> QED BY <2>2, <2>3, <2>4
<1>2. CASE ReaderEOF
  BY <1>2 DEF ReaderEOF, ovpnVars
<1>3. CASE ReaderPanics
  <2>1. panic' \in Panics /\ panic' # None
    BY <1>3, ConstantsAssumption DEF ReaderPanics, Panics
  <2>2. UNCHANGED <<ovpn, states, life, wire, socket, reader, run, handler, main, closed, killed>>
    BY <1>3 DEF ReaderPanics, ovpnVars
  <2> QED BY <2>1, <2>2
<1>4. CASE ReaderReset
  <2>1. panic' \in Panics /\ panic' # None
    BY <1>4, ConstantsAssumption DEF ReaderReset, Panics
  <2>2. UNCHANGED <<ovpn, states, life, wire, socket, reader, run, handler, main, closed, killed>>
    BY <1>4 DEF ReaderReset, ovpnVars
  <2> QED BY <2>1, <2>2
<1>5. CASE ReaderDrops
  <2>1. wire' = <<>> /\ socket' \in {socket, <<>>}
    BY <1>5 DEF ReaderDrops
  <2>2. wire' \in Seq(Line) /\ socket' \in Seq(Command)
    <3>1. <<>> \in Seq(Line) /\ <<>> \in Seq(Command) /\ socket \in Seq(Command)
      OBVIOUS
    <3> QED BY <2>1, <3>1
  <2>3. UNCHANGED <<ovpn, states, life, reader, run, handler, main, closed, panic, killed>>
    BY <1>5 DEF ReaderDrops, ovpnVars
  <2> QED BY <2>2, <2>3
<1> QED BY <1>1, <1>2, <1>3, <1>4, <1>5 DEF Reader

LEMMA ReplyTaken == ASSUME NEW command PROVE AfterReply(command) \in {"release", "loop", "respond"}
BY DEF AfterReply

LEMMA RunShape == ASSUME ShapeInv, Run PROVE ShapeInv'
<1> USE DEF ShapeInv, TypeOK, HandlerUnstarted, ReaderUnstarted
<1>1. ASSUME NEW verb \in {"state on", "hold release"}, SubmitOwn(verb)
      PROVE  /\ socket' \in Seq(Command)
             /\ panic' \in Panics \cup {None}
             /\ \/ run' = run /\ panic' # None
                \/ run' \in [pc : {"await", "loop", "respond"},
                             command : Command, reply : Line]
  <2>1. CASE ovpn = "exited"
    <3>1. panic' = "write to a dead peer" /\ run' = run /\ socket' = socket
      BY <1>1, <2>1 DEF SubmitOwn
    <3> QED BY <3>1, ConstantsAssumption DEF Panics
  <2>2. CASE ovpn # "exited"
    <3>1. [verb |-> verb, cid |-> None] \in Command
      BY DEF Command
    <3>2. Submit([verb |-> verb, cid |-> None], "loop") /\ panic' = panic
      BY <1>1, <2>2 DEF SubmitOwn
    <3>3. TypeOK
      OBVIOUS
    <3> HIDE DEF ShapeInv, TypeOK
    <3>4. /\ socket' \in Seq(Command)
          /\ run' \in [pc : {"await", "loop", "respond"}, command : Command, reply : Line]
      BY <3>1, <3>2, <3>3, SubmitTyped
    <3> QED BY <3>2, <3>3, <3>4 DEF TypeOK
  <2> QED BY <2>1, <2>2
<1>2. CASE HoldSeen
  <2>1. SubmitOwn("state on")
    BY <1>2 DEF HoldSeen
  <2>2. wire \in Seq(Line) /\ wire # <<>> /\ wire' = Tail(wire)
    BY <1>2 DEF HoldSeen
  <2>3. wire' \in Seq(Line)
    BY <2>2
  <2>4. reader' \in [pc : {"read"}, line : Line]
    BY <1>2 DEF HoldSeen
  <2>5. ovpn # "launched"
    BY <1>2 DEF HoldSeen, Alive
  <2>6. UNCHANGED <<ovpn, states, life, handler, main, closed, killed>>
    BY <1>2 DEF HoldSeen, ovpnVars
  <2> QED BY <1>1, <2>1, <2>3, <2>4, <2>5, <2>6
<1>3. CASE HoldMissed
  <2>1. panic' \in Panics /\ panic' # None
    BY <1>3, ConstantsAssumption DEF HoldMissed, Panics
  <2>2. UNCHANGED <<ovpn, states, life, wire, socket, reader, run, handler, main, closed, killed>>
    BY <1>3 DEF HoldMissed, ovpnVars
  <2> QED BY <2>1, <2>2
<1>4. CASE DeliverReply
  <2>1. run' \in [pc : {"release", "loop", "respond"}, command : Command, reply : Line]
    BY <1>4, ReplyTaken DEF DeliverReply
  <2>2. NoLine \in Line
    BY DEF NoLine, Line
  <2>3. reader' \in [pc : {"read"}, line : Line]
    BY <1>4, <2>2 DEF DeliverReply, ReaderSent
  <2>4. panic = None /\ reader.pc = "send" /\ run.pc = "await"
    BY <1>4 DEF DeliverReply, Sending, Alive
  <2>5. UNCHANGED <<ovpn, states, life, wire, socket, handler, main, closed, panic, killed>>
    BY <1>4 DEF DeliverReply, ovpnVars
  <2> QED BY <2>1, <2>3, <2>4, <2>5
<1>5. CASE ReplyClosed
  <2>1. run' \in [pc : {"release", "loop", "respond"}, command : Command, reply : Line]
    BY <1>5, ReplyTaken DEF ReplyClosed
  <2>2. panic = None /\ run.pc = "await"
    BY <1>5 DEF ReplyClosed, Alive
  <2>3. UNCHANGED <<ovpn, states, life, wire, socket, reader, handler, main, closed, panic, killed>>
    BY <1>5 DEF ReplyClosed, ovpnVars
  <2> QED BY <2>1, <2>2, <2>3
<1>6. CASE HoldRelease
  <2>1. SubmitOwn("hold release")
    BY <1>6 DEF HoldRelease
  <2>2. panic = None /\ run.pc = "release"
    BY <1>6 DEF HoldRelease, Alive
  <2>3. UNCHANGED <<ovpn, states, life, wire, reader, handler, main, closed, killed>>
    BY <1>6 DEF HoldRelease, ovpnVars
  <2> QED BY <1>1, <2>1, <2>2, <2>3
<1>7. CASE RunStops
  BY <1>7 DEF RunStops, ovpnVars
<1> QED BY <1>2, <1>3, <1>4, <1>5, <1>6, <1>7 DEF Run

LEMMA CallsTyped ==
    ASSUME NEW line \in Line, NEW queue \in Calls(line)
    PROVE  queue \in Seq(Command) /\ (Resume(queue) = "exec" <=> queue # <<>>)
           /\ Resume(queue) \in {"receive", "exec"}
<1> DEFINE auth == [verb |-> "client-auth", cid |-> line.cid]
           kill(d) == [verb |-> "client-kill", cid |-> d]
<1>1. auth \in Command /\ \A d \in Clients : kill(d) \in Command
  BY DEF Command, Line
<1>2. queue = <<>> \/ queue = <<auth>> \/ \E d \in Clients : queue = <<kill(d), auth>>
  BY DEF Calls
<1>3. queue \in Seq(Command)
  <2> HIDE DEF auth, kill
  <2>1. ASSUME NEW d \in Clients, queue = <<kill(d), auth>> PROVE queue \in Seq(Command)
    BY <1>1, <2>1
  <2>2. ASSUME queue = <<auth>> PROVE queue \in Seq(Command)
    BY <1>1, <2>2
  <2>3. ASSUME queue = <<>> PROVE queue \in Seq(Command)
    BY <2>3
  <2> QED BY <1>2, <2>1, <2>2, <2>3
<1> QED BY <1>3 DEF Resume

LEMMA RestTyped ==
    ASSUME TypeOK, handler.queue # <<>>
    PROVE  /\ Head(handler.queue) \in Command
           /\ Tail(handler.queue) \in Seq(Command)
           /\ Resume(Tail(handler.queue)) = "exec" <=> Tail(handler.queue) # <<>>
           /\ Resume(Tail(handler.queue)) \in {"receive", "exec"}
<1>1. handler.queue \in Seq(Command)
  BY DEF TypeOK
<1> QED BY <1>1 DEF Resume

LEMMA HandlerShape == ASSUME ShapeInv, Handler PROVE ShapeInv'
<1> USE DEF ShapeInv, TypeOK, HandlerUnstarted, ReaderUnstarted
<1>1. CASE DeliverEvent
  <2>1. PICK queue \in Calls(reader.line) : handler' = [pc |-> Resume(queue), queue |-> queue]
    BY <1>1 DEF DeliverEvent
  <2>2. reader.line \in Line
    OBVIOUS
  <2>3. /\ handler' \in [pc : {"receive", "exec"}, queue : Seq(Command)]
        /\ handler'.pc \in {"exec", "response"} <=> handler'.queue # <<>>
    <3> HIDE DEF ShapeInv, TypeOK
    <3> QED BY <2>1, <2>2, CallsTyped
  <2>4. NoLine \in Line
    BY DEF NoLine, Line
  <2>5. reader' \in [pc : {"read"}, line : Line] /\ reader.pc = "send"
    BY <1>1, <2>4 DEF DeliverEvent, ReaderSent, Sending
  <2>6. handler.pc = "receive"
    BY <1>1 DEF DeliverEvent
  <2>7. UNCHANGED <<ovpn, states, life, wire, socket, run, main, closed, panic, killed>>
    BY <1>1 DEF DeliverEvent, ovpnVars
  <2> QED BY <2>3, <2>5, <2>6, <2>7
<1>2. CASE HandlerStops
  <2>1. handler.pc = "receive" /\ handler' = [handler EXCEPT !.pc = "stopped"]
    BY <1>2 DEF HandlerStops
  <2>2. handler' \in [pc : {"stopped"}, queue : Seq(Command)] /\ handler'.queue = <<>>
    BY <2>1
  <2>3. UNCHANGED <<ovpn, states, life, wire, socket, reader, run, main, closed, panic, killed>>
    BY <1>2 DEF HandlerStops, ovpnVars
  <2> QED BY <2>1, <2>2, <2>3
<1>3. CASE ExecCommand
  <2> DEFINE command == Head(handler.queue)
             rest == Tail(handler.queue)
  <2>1. /\ handler.pc = "exec" /\ run.pc = "loop" /\ killed' \in BOOLEAN
        /\ UNCHANGED <<ovpn, states, life, wire, reader, main, closed, panic>>
    BY <1>3 DEF ExecCommand, ovpnVars
  <2>2. /\ command \in Command /\ rest \in Seq(Command)
        /\ Resume(rest) = "exec" <=> rest # <<>>
        /\ Resume(rest) \in {"receive", "exec"}
    <3>1. TypeOK /\ handler.queue # <<>>
      BY <2>1
    <3> HIDE DEF ShapeInv, TypeOK
    <3> QED BY <3>1, RestTyped
  <2>3. PICK after \in {"respond", "loop"} : Submit(command, after)
    BY <1>3 DEF ExecCommand
  <2>4. /\ socket' \in Seq(Command)
        /\ run' \in [pc : {"await", "loop", "respond"}, command : Command, reply : Line]
    <3>1. TypeOK
      OBVIOUS
    <3> HIDE DEF ShapeInv, TypeOK, command
    <3> QED BY <2>2, <2>3, <3>1, SubmitTyped
  <2>5. \/ handler' = [handler EXCEPT !.pc = "response"]
        \/ handler' = [pc |-> Resume(rest), queue |-> rest]
    BY <1>3 DEF ExecCommand
  <2> HIDE DEF rest, command
  <2>6. /\ handler' \in [pc : {"receive", "exec", "response"}, queue : Seq(Command)]
        /\ handler'.pc \in {"exec", "response"} <=> handler'.queue # <<>>
    <3>1. CASE handler' = [handler EXCEPT !.pc = "response"]
      BY <2>1, <3>1
    <3>2. CASE handler' = [pc |-> Resume(rest), queue |-> rest]
      BY <2>2, <3>2
    <3> QED BY <2>5, <3>1, <3>2
  <2> QED BY <2>1, <2>4, <2>6
<1>4. CASE ExecPanics
  <2>1. panic' \in Panics /\ panic' # None
    BY <1>4, ConstantsAssumption DEF ExecPanics, Panics
  <2>2. UNCHANGED <<ovpn, states, life, wire, socket, reader, run, handler, main, closed, killed>>
    BY <1>4 DEF ExecPanics, ovpnVars
  <2> QED BY <2>1, <2>2
<1>5. CASE Respond
  <2> DEFINE rest == Tail(handler.queue)
  <2>1. /\ handler.pc = "response" /\ run.pc = "respond"
        /\ UNCHANGED <<ovpn, states, life, wire, socket, reader, main, closed, panic, killed>>
    BY <1>5 DEF Respond, ovpnVars
  <2>2. /\ rest \in Seq(Command)
        /\ Resume(rest) = "exec" <=> rest # <<>>
        /\ Resume(rest) \in {"receive", "exec"}
    <3>1. TypeOK /\ handler.queue # <<>>
      BY <2>1
    <3> HIDE DEF ShapeInv, TypeOK
    <3> QED BY <3>1, RestTyped
  <2>3. handler' = [pc |-> Resume(rest), queue |-> rest]
    BY <1>5 DEF Respond
  <2>4. run' \in [pc : {"loop"}, command : Command, reply : Line]
    BY <1>5 DEF Respond
  <2> HIDE DEF rest
  <2>5. /\ handler' \in [pc : {"receive", "exec"}, queue : Seq(Command)]
        /\ handler'.pc \in {"exec", "response"} <=> handler'.queue # <<>>
    BY <2>2, <2>3
  <2> QED BY <2>1, <2>4, <2>5
<1> QED BY <1>1, <1>2, <1>3, <1>4, <1>5 DEF Handler

LEMMA MainShape == ASSUME ShapeInv, Main \/ Shutdown PROVE ShapeInv'
<1> USE DEF ShapeInv, TypeOK, HandlerUnstarted, ReaderUnstarted
<1>1. CASE DeliverState
  <2>1. NoLine \in Line
    BY DEF NoLine, Line
  <2>2. reader' \in [pc : {"read"}, line : Line] /\ reader.pc = "send"
    BY <1>1, <2>1 DEF DeliverState, ReaderSent, Sending
  <2>3. main = "boot" /\ main' \in {"boot", "starting", "failed"}
    BY <1>1 DEF DeliverState
  <2>4. UNCHANGED <<ovpn, states, life, wire, socket, run, handler, closed, panic, killed>>
    BY <1>1 DEF DeliverState, ovpnVars
  <2> QED BY <2>2, <2>3, <2>4
<1>2. CASE BootFails
  BY <1>2 DEF BootFails, ovpnVars
<1>3. CASE Serve
  <2>1. handler' \in [pc : {"receive"}, queue : Seq(Command)] /\ handler'.queue = handler.queue
    BY <1>3 DEF Serve
  <2>2. handler.queue = <<>>
    BY <1>3 DEF Serve
  <2> QED BY <1>3, <2>1, <2>2 DEF Serve, ovpnVars
<1>4. CASE WaitOpenVPN
  BY <1>4 DEF WaitOpenVPN, ovpnVars
<1>5. CASE ShutdownReturns
  BY <1>5 DEF ShutdownReturns, ovpnVars
<1>6. CASE Shutdown
  BY <1>6 DEF Shutdown, ovpnVars
<1> QED BY <1>1, <1>2, <1>3, <1>4, <1>5, <1>6 DEF Main

LEMMA ShapeInit == Init => ShapeInv
<1> SUFFICES ASSUME Init PROVE ShapeInv
  OBVIOUS
<1>1. NoLine \in Line /\ NoReply \in Line /\ NoCommand \in Command
  BY DEF NoLine, NoReply, NoCommand, Line, Command
<1>2. /\ ovpn = "launched" /\ states \in Nat
      /\ life \in [Clients -> {"new", "connected", "gone"}]
      /\ wire \in Seq(Line) /\ socket \in Seq(Command)
      /\ main = "boot" /\ closed = {} /\ panic = None /\ killed = FALSE
  BY DEF Init
<1>3. /\ reader \in [pc : {"unstarted"}, line : Line]
      /\ run \in [pc : {"accept"}, command : Command, reply : Line]
  BY <1>1 DEF Init
<1>4. handler \in [pc : {"unstarted"}, queue : Seq(Command)] /\ handler.queue = <<>>
  BY DEF Init
<1> QED BY <1>2, <1>3, <1>4 DEF ShapeInv, TypeOK, HandlerUnstarted, ReaderUnstarted

LEMMA ShapeStep == ASSUME ShapeInv, [Next]_vars PROVE ShapeInv'
<1>1. CASE UNCHANGED vars
  BY <1>1 DEF ShapeInv, TypeOK, HandlerUnstarted, ReaderUnstarted, vars, ovpnVars
<1> QED
  BY <1>1, SpeakShape, ReaderShape, RunShape, HandlerShape, MainShape DEF Next, Process

(* Every variable keeps its shape, for any clients and >STATE lines.       *)
THEOREM TypeCorrect == Spec => []TypeOK
<1>1. ShapeInv => TypeOK
  BY DEF ShapeInv
<1> QED BY <1>1, ShapeInit, ShapeStep, PTL DEF Spec

-----------------------------------------------------------------------------
(***************************************************************************)
(* Who closes what when.                                                   *)
(***************************************************************************)
LEMMA ClosedInit == Init => ClosedInOrder
BY DEF Init, ClosedInOrder

(* Most steps leave alone what ClosedInOrder speaks of.                    *)
LEMMA ClosedKept ==
    ASSUME ClosedInOrder, UNCHANGED <<main, closed>> PROVE ClosedInOrder'
BY DEF ClosedInOrder

LEMMA ClosedStep == ASSUME ShapeInv, ClosedInOrder, [Next]_vars PROVE ClosedInOrder'
<1> USE DEF ClosedInOrder
<1>1. CASE Speak \/ OvExecute
  BY <1>1, ClosedKept DEF Speak, OvState, OvConnect, OvDisconnect, OvDial, OvHold, OvExit, OvExecute
<1>2. CASE Reader
  BY <1>2 DEF Reader, ReaderRead, ReaderEOF, ReaderReset, ReaderDrops, ReaderPanics
<1>3. CASE Run
  <2>1. CASE HoldSeen \/ HoldRelease \/ HoldMissed \/ DeliverReply \/ ReplyClosed
    BY <2>1, ClosedKept DEF HoldSeen, HoldRelease, HoldMissed, DeliverReply, ReplyClosed
  <2>2. CASE RunStops
    BY <2>2 DEF RunStops
  <2> QED BY <1>3, <2>1, <2>2 DEF Run
<1>4. CASE Handler
  BY <1>4, ClosedKept DEF Handler, DeliverEvent, HandlerStops, ExecCommand, ExecPanics, Respond
<1>5. CASE Main \/ Shutdown
  BY <1>5 DEF Main, DeliverState, BootFails, Serve, WaitOpenVPN, ShutdownReturns, Shutdown, Alive
<1>6. CASE UNCHANGED vars
  BY <1>6, ClosedKept DEF vars
<1> QED BY <1>1, <1>2, <1>3, <1>4, <1>5, <1>6 DEF Next, Process

-----------------------------------------------------------------------------
(***************************************************************************)
(* Replies.  What becomes of the lines and commands that are on their way. *)
(***************************************************************************)
LEMMA WireWritten ==
    ASSUME wire \in Seq(Line), NEW line \in Line, wire' = Append(wire, line)
    PROVE  /\ \A i : ReplyOn(i)' => \/ ReplyOn(i) /\ wire'[i] = wire[i]
                                    \/ i = Len(wire) + 1 /\ wire'[i] = line
                                       /\ line.kind = "reply"
<1>1. /\ Len(wire') = Len(wire) + 1 /\ Len(wire) \in Nat
      /\ \A i \in 1..Len(wire) : wire'[i] = wire[i]
      /\ wire'[Len(wire) + 1] = line
  OBVIOUS
<1> QED BY <1>1 DEF ReplyOn

LEMMA WireRead ==
    ASSUME wire \in Seq(Line), wire # <<>>, wire' = Tail(wire)
    PROVE  \A i : ReplyOn(i)' => i \in Nat \ {0} /\ ReplyOn(i + 1) /\ wire'[i] = wire[i + 1]
<1>1. /\ Len(wire') = Len(wire) - 1 /\ Len(wire) \in Nat
      /\ \A i \in 1..Len(wire') : wire'[i] = wire[i + 1]
  OBVIOUS
<1> QED BY <1>1 DEF ReplyOn

LEMMA CommandWritten ==
    ASSUME socket \in Seq(Command), NEW command \in Command, ovpn # "exited",
           socket' = Append(socket, command)
    PROVE  \A i : ReplyDue(i)' => \/ ReplyDue(i) /\ socket'[i] = socket[i]
                                  \/ i = Len(socket) + 1 /\ socket'[i] = command
<1>1. /\ Len(socket') = Len(socket) + 1 /\ Len(socket) \in Nat
      /\ \A i \in 1..Len(socket) : socket'[i] = socket[i]
      /\ socket'[Len(socket) + 1] = command
  OBVIOUS
<1> QED BY <1>1 DEF ReplyDue

LEMMA CommandExecuted ==
    ASSUME socket \in Seq(Command), socket # <<>>, ovpn # "exited", socket' = Tail(socket)
    PROVE  /\ \A i : ReplyDue(i)' => i \in Nat \ {0} /\ ReplyDue(i + 1) /\ socket'[i] = socket[i + 1]
           /\ ReplyDue(1) /\ socket[1] = Head(socket)
<1>1. /\ Len(socket') = Len(socket) - 1 /\ Len(socket) \in Nat /\ Len(socket) # 0
      /\ \A i \in 1..Len(socket') : socket'[i] = socket[i + 1]
      /\ socket[1] = Head(socket)
  OBVIOUS
<1> QED BY <1>1 DEF ReplyDue

(* Nothing is outstanding while run awaits nothing.                        *)
NoReplies == ~ReplyHeld /\ \A i : ~ReplyOn(i) /\ ~ReplyDue(i)

LEMMA Quiet ==
    /\ RepliesAwaited /\ run.pc # "await" => NoReplies
    /\ NoReplies => RepliesAwaited /\ OneReply
BY DEF RepliesAwaited, OneReply, NoReplies

(* What OpenVPN says unasked is no reply.                                  *)
LEMMA SaidUnasked ==
    ASSUME ShapeInv, ReplyInv, NEW line \in Line, line.kind # "reply",
           wire' = Append(wire, line), ovpn # "exited", ovpn' # "exited",
           UNCHANGED <<socket, reader, run, closed>>
    PROVE  ReplyInv'
<1>1. \A i : ReplyOn(i)' => ReplyOn(i) /\ wire'[i] = wire[i]
  BY WireWritten DEF ShapeInv, TypeOK
<1>2. \A i : ReplyDue(i)' => ReplyDue(i)
  BY DEF ReplyDue
<1>3. RepliesAwaited' /\ OneReply'
  BY <1>1, <1>2 DEF ReplyInv, RepliesAwaited, OneReply, ReplyHeld, Answers
<1>4. ReadClosed' /\ ReplyNoted'
  BY DEF ReplyInv, ReadClosed, ReplyNoted, Answers
<1> QED BY <1>3, <1>4 DEF ReplyInv

LEMMA SpeakReplies == ASSUME ShapeInv, ReplyInv, Speak PROVE ReplyInv'
<1>1. ASSUME NEW name \in {"OTHER", "CONNECTED"}, OvState(name) PROVE ReplyInv'
  <2>1. [kind |-> "state", name |-> name, cid |-> None] \in Line
    BY DEF Line
  <2> QED BY <1>1, <2>1, SaidUnasked DEF OvState, MaySpeak, Write
<1>2. ASSUME NEW c \in Clients, OvConnect(c) PROVE ReplyInv'
  <2>1. [kind |-> "event", name |-> "CONNECT", cid |-> c] \in Line
    BY DEF Line
  <2> QED BY <1>2, <2>1, SaidUnasked DEF OvConnect, MaySpeak, Write
<1>3. ASSUME NEW c \in Clients, OvDisconnect(c) PROVE ReplyInv'
  <2>1. [kind |-> "event", name |-> "DISCONNECT", cid |-> c] \in Line
    BY DEF Line
  <2> QED BY <1>3, <2>1, SaidUnasked DEF OvDisconnect, MaySpeak, Write
<1>4. CASE OvHold
  <2>1. [kind |-> "hold", name |-> "OTHER", cid |-> None] \in Line
    BY DEF Line
  <2> QED BY <1>4, <2>1, SaidUnasked DEF OvHold, Write
<1>5. CASE OvDial
  <2>1. run.pc = "accept"
    BY <1>5 DEF OvDial, Alive, ShapeInv, ReaderUnstarted
  <2>2. NoReplies
    BY <2>1, Quiet DEF ReplyInv
  <2>3. ovpn # "exited" /\ UNCHANGED <<wire, socket, reader, closed>>
    BY <1>5 DEF OvDial
  <2>4. NoReplies'
    BY <2>2, <2>3 DEF NoReplies, ReplyHeld, ReplyOn, ReplyDue
  <2>5. run'.pc = "hold"
    BY <1>5 DEF OvDial, ShapeInv, TypeOK
  <2>6. ReplyNoted'
    BY <2>5 DEF ReplyNoted
  <2>7. ReadClosed'
    BY <2>3 DEF ReadClosed, ReplyInv
  <2> QED BY <2>4, <2>6, <2>7, Quiet DEF ReplyInv, NoReplies, RepliesAwaited, OneReply
<1>6. CASE OvExit
  <2>1. ovpn' = "exited" /\ UNCHANGED <<wire, socket, reader, run, closed>>
    BY <1>6 DEF OvExit
  <2>2. \A i : ~ReplyDue(i)' /\ (ReplyOn(i)' <=> ReplyOn(i))
    BY <2>1 DEF ReplyDue, ReplyOn
  <2>3. RepliesAwaited' /\ OneReply'
    BY <2>1, <2>2 DEF ReplyInv, RepliesAwaited, OneReply, ReplyHeld, Answers
  <2>4. ReadClosed' /\ ReplyNoted'
    BY <2>1 DEF ReplyInv, ReadClosed, ReplyNoted, Answers
  <2> QED BY <2>3, <2>4 DEF ReplyInv
<1> QED BY <1>1, <1>2, <1>3, <1>4, <1>5, <1>6 DEF Speak

(* OpenVPN writes the one reply that is due, when none is on its way.      *)
LEMMA ExecuteReplies == ASSUME ShapeInv, ReplyInv, OvExecute PROVE ReplyInv'
<1> DEFINE command == Head(socket)
           reply == [kind |-> "reply", name |-> command.verb, cid |-> command.cid]
<1>1. /\ socket \in Seq(Command) /\ socket # <<>> /\ socket' = Tail(socket)
      /\ ovpn # "exited" /\ ovpn' # "exited"
      /\ UNCHANGED <<reader, run, closed>>
  BY DEF OvExecute, ShapeInv, TypeOK
<1>2. \A i : ReplyDue(i)' => i \in Nat \ {0} /\ ReplyDue(i + 1) /\ socket'[i] = socket[i + 1]
  BY <1>1, CommandExecuted
<1>3. ReplyDue(1) /\ socket[1] = command
  BY <1>1, CommandExecuted
<1>4. ReadClosed' /\ ReplyNoted'
  BY <1>1 DEF ReplyInv, ReadClosed, ReplyNoted, Answers
<1>5. /\ run.pc = "await" /\ command = run.command
      /\ ~ReplyHeld /\ \A i : ~ReplyOn(i)
      /\ \A i : ReplyDue(i) => i = 1
  BY <1>3 DEF ReplyInv, RepliesAwaited, OneReply
<1>6. \A i : ~ReplyDue(i)'
  <2>1. ASSUME NEW i, ReplyDue(i)' PROVE FALSE
    <3>1. i \in Nat \ {0} /\ i + 1 = 1
      BY <1>2, <1>5, <2>1
    <3> QED BY <3>1
  <2> QED BY <2>1
<1>7. wire' = Append(wire, reply) /\ reply \in Line
  <2>1. command \in Command
    BY <1>1
  <2> QED BY <2>1 DEF OvExecute, Write, Line, Command
<1> HIDE DEF command
<1>8. \A i : ReplyOn(i)' => i = Len(wire) + 1 /\ wire'[i] = reply
  BY <1>5, <1>7, WireWritten DEF ShapeInv, TypeOK
<1>9. ~ReplyHeld'
  BY <1>1, <1>5 DEF ReplyHeld
<1>10. \A i : ReplyOn(i)' => run'.pc = "await" /\ wire'[i].name = run'.command.verb
                             /\ wire'[i].cid = run'.command.cid
  BY <1>1, <1>5, <1>8
<1>11. RepliesAwaited' /\ OneReply'
  BY <1>6, <1>8, <1>9, <1>10 DEF RepliesAwaited, OneReply, Answers
<1> QED BY <1>4, <1>11 DEF ReplyInv

(* Steps that leave alone what is on its way.                              *)
LEMMA RepliesKept ==
    ASSUME ReplyInv, UNCHANGED <<ovpn, wire, socket, reader, run>>,
           closed' = closed \/ closed' = closed \cup {"cmd"}
    PROVE  ReplyInv'
<1>1. (ReplyHeld' <=> ReplyHeld) /\ \A i : (ReplyOn(i)' <=> ReplyOn(i)) /\ (ReplyDue(i)' <=> ReplyDue(i))
  BY DEF ReplyHeld, ReplyOn, ReplyDue
<1>2. RepliesAwaited' /\ OneReply'
  BY <1>1 DEF ReplyInv, RepliesAwaited, OneReply, Answers
<1>3. ReplyNoted'
  BY DEF ReplyInv, ReplyNoted, Answers
<1>4. ReadClosed'
  BY DEF ReplyInv, ReadClosed
<1> QED BY <1>2, <1>3, <1>4 DEF ReplyInv

(* A line that is no reply is handed over.                                 *)
LEMMA OtherLine ==
    ASSUME ReplyInv, NEW kind \in {"event", "state"}, Sending(kind), reader'.pc = "read",
           UNCHANGED <<ovpn, wire, socket, run, closed>>
    PROVE  ReplyInv'
<1>1. ~ReplyHeld' /\ \A i : (ReplyOn(i)' <=> ReplyOn(i)) /\ (ReplyDue(i)' <=> ReplyDue(i))
  BY DEF ReplyHeld, ReplyOn, ReplyDue
<1>2. RepliesAwaited' /\ OneReply'
  BY <1>1 DEF ReplyInv, RepliesAwaited, OneReply, Answers
<1>3. ReplyNoted' /\ ReadClosed'
  BY DEF ReplyInv, ReplyNoted, ReadClosed, Answers, Sending
<1> QED BY <1>2, <1>3 DEF ReplyInv

(* The reader takes a reply off the wire and then holds it.                *)
LEMMA ReaderReplies == ASSUME ShapeInv, ReplyInv, Reader PROVE ReplyInv'
<1>1. CASE ReaderRead
  <2>1. /\ wire \in Seq(Line) /\ wire # <<>> /\ wire' = Tail(wire)
        /\ reader.pc = "read" /\ reader' = [pc |-> "send", line |-> Head(wire)]
        /\ UNCHANGED <<ovpn, socket, run, closed>>
    BY <1>1 DEF ReaderRead, ShapeInv, TypeOK, ovpnVars
  <2>2. \A i : ReplyOn(i)' => i \in Nat \ {0} /\ ReplyOn(i + 1) /\ wire'[i] = wire[i + 1]
    BY <2>1, WireRead
  <2>3. ReplyHeld' => ReplyOn(1) /\ reader'.line = wire[1]
    <3>1. Head(wire) = wire[1] /\ 1 \in 1..Len(wire)
      BY <2>1
    <3> QED BY <2>1, <3>1 DEF ReplyHeld, ReplyOn
  <2>4. \A i : ReplyDue(i)' <=> ReplyDue(i)
    BY <2>1 DEF ReplyDue
  <2>5. \A i : ReplyOn(i) => run.pc = "await" /\ Answers(wire[i])
    BY DEF ReplyInv, RepliesAwaited
  <2>6. RepliesAwaited'
    <3>1. ReplyHeld' => run'.pc = "await" /\ Answers(reader.line)'
      BY <2>1, <2>3, <2>5 DEF Answers
    <3>2. ASSUME NEW i, ReplyOn(i)' PROVE run'.pc = "await" /\ Answers(wire[i])'
      <4>1. run' = run /\ wire'[i] = wire[i + 1] /\ ReplyOn(i + 1)
        BY <2>1, <2>2, <3>2
      <4> QED BY <2>5, <4>1 DEF Answers
    <3>3. \A i : ReplyDue(i)' => run'.pc = "await" /\ socket'[i] = run'.command
      BY <2>1, <2>4 DEF ReplyInv, RepliesAwaited
    <3> QED BY <3>1, <3>2, <3>3 DEF RepliesAwaited
  <2>7. ASSUME NEW i, NEW j, ReplyOn(i)', ReplyOn(j)' PROVE i = j
    <3>1. i \in Nat /\ j \in Nat /\ i + 1 = j + 1
      BY <2>2, <2>7 DEF ReplyInv, OneReply
    <3> QED BY <3>1
  <2>8. ASSUME ReplyHeld', NEW i, ReplyOn(i)' PROVE FALSE
    <3>1. i \in Nat \ {0} /\ i + 1 = 1
      BY <2>2, <2>3, <2>8 DEF ReplyInv, OneReply
    <3> QED BY <3>1
  <2>9. OneReply'
    BY <2>2, <2>3, <2>4, <2>7, <2>8 DEF ReplyInv, OneReply
  <2>10. ReadClosed' /\ ReplyNoted'
    BY <2>1 DEF ReplyInv, ReadClosed, ReplyNoted, Answers
  <2> QED BY <2>6, <2>9, <2>10 DEF ReplyInv
<1>2. CASE ReaderEOF
  <2>1. /\ reader.pc = "read" /\ wire = <<>> /\ ovpn = "exited"
        /\ reader'.pc = "done"
        /\ UNCHANGED <<ovpn, wire, socket, run>>
    BY <1>2 DEF ReaderEOF, ovpnVars, ShapeInv, TypeOK
  <2>2. NoReplies'
    BY <2>1 DEF NoReplies, ReplyHeld, ReplyOn, ReplyDue
  <2>3. RepliesAwaited' /\ OneReply'
    BY <2>2 DEF NoReplies, RepliesAwaited, OneReply
  <2>4. ReadClosed' /\ ReplyNoted'
    BY <2>1 DEF ReplyInv, ReadClosed, ReplyNoted, Answers
  <2> QED BY <2>3, <2>4 DEF ReplyInv
<1>3. CASE ReaderPanics \/ ReaderReset
  <2>1. UNCHANGED <<ovpn, wire, socket, reader, run, closed>>
    BY <1>3 DEF ReaderPanics, ReaderReset, ovpnVars
  <2> QED BY <2>1, RepliesKept
<1>4. CASE ReaderDrops
  <2>1. /\ reader.pc = "read" /\ wire' = <<>> /\ ovpn = "exited"
        /\ UNCHANGED <<ovpn, reader, run, closed>>
    BY <1>4 DEF ReaderDrops, ovpnVars
  <2>2. NoReplies'
    BY <2>1 DEF NoReplies, ReplyHeld, ReplyOn, ReplyDue
  <2>3. RepliesAwaited' /\ OneReply'
    BY <2>2 DEF NoReplies, RepliesAwaited, OneReply
  <2>4. ReadClosed' /\ ReplyNoted'
    BY <2>1 DEF ReplyInv, ReadClosed, ReplyNoted, Answers
  <2> QED BY <2>3, <2>4 DEF ReplyInv
<1> QED BY <1>1, <1>2, <1>3, <1>4 DEF Reader

(* A command that run sends when nothing is outstanding is the one it      *)
(* awaits the reply to, if it is no client-kill.                           *)
LEMMA SubmitReplies ==
    ASSUME TypeOK, NoReplies, NEW command \in Command, NEW after \in {"respond", "loop"},
           ExpectResponse(command), Submit(command, after), UNCHANGED ovpn,
           ~ReplyHeld', \A i : ~ReplyOn(i)'
    PROVE  /\ RepliesAwaited' /\ OneReply' /\ ReplyNoted'
<1>1. CASE ovpn = "exited"
  <2>1. run' = [pc |-> after, command |-> command, reply |-> NoReply]
    BY <1>1 DEF Submit
  <2>2. \A i : ~ReplyDue(i)'
    BY <1>1 DEF ReplyDue
  <2> QED BY <2>1, <2>2 DEF RepliesAwaited, OneReply, ReplyNoted
<1>2. CASE ovpn # "exited"
  <2>1. run' = [pc |-> "await", command |-> command, reply |-> NoReply]
    BY <1>2 DEF Submit
  <2>2. socket \in Seq(Command) /\ socket' = Append(socket, command)
    BY <1>2 DEF Submit, TypeOK
  <2>3. \A i : ReplyDue(i)' => i = Len(socket) + 1 /\ socket'[i] = command
    BY <1>2, <2>2, CommandWritten DEF NoReplies
  <2>4. RepliesAwaited' /\ OneReply'
    BY <2>1, <2>3 DEF RepliesAwaited, OneReply
  <2>5. ReplyNoted'
    BY <2>1 DEF ReplyNoted
  <2> QED BY <2>1, <2>4, <2>5
<1> QED BY <1>1, <1>2

LEMMA OwnReplies ==
    ASSUME TypeOK, ReplyInv, NoReplies, NEW verb \in OwnVerbs, SubmitOwn(verb), UNCHANGED ovpn,
           run.pc \in {"hold", "release"},
           ~ReplyHeld', \A i : ~ReplyOn(i)'
    PROVE  RepliesAwaited' /\ OneReply' /\ ReplyNoted'
<1>1. CASE ovpn = "exited"
  <2>1. UNCHANGED <<run, socket>>
    BY <1>1 DEF SubmitOwn
  <2>2. \A i : ~ReplyDue(i)'
    BY <1>1 DEF ReplyDue
  <2> QED BY <2>1, <2>2 DEF ReplyInv, RepliesAwaited, OneReply, ReplyNoted
<1>2. CASE ovpn # "exited"
  <2> DEFINE command == [verb |-> verb, cid |-> None]
  <2>1. command \in Command /\ ExpectResponse(command)
    BY DEF Command, OwnVerbs, ExpectResponse
  <2>2. Submit(command, "loop")
    BY <1>2 DEF SubmitOwn
  <2> HIDE DEF command
  <2> QED BY <2>1, <2>2, SubmitReplies
<1> QED BY <1>1, <1>2

LEMMA RunReplies == ASSUME ShapeInv, ReplyInv, Run PROVE ReplyInv'
<1>1. CASE HoldSeen
  <2>1. /\ wire \in Seq(Line) /\ wire # <<>> /\ wire' = Tail(wire)
        /\ run.pc = "hold" /\ SubmitOwn("state on") /\ reader'.pc = "read"
        /\ UNCHANGED <<ovpn, closed>>
    BY <1>1 DEF HoldSeen, ShapeInv, TypeOK, ovpnVars
  <2>2. NoReplies
    BY <2>1, Quiet DEF ReplyInv
  <2>3. ~ReplyHeld' /\ \A i : ~ReplyOn(i)'
    BY <2>1, <2>2, WireRead DEF NoReplies, ReplyHeld
  <2>4. RepliesAwaited' /\ OneReply' /\ ReplyNoted'
    BY <2>1, <2>2, <2>3, OwnReplies DEF ShapeInv, OwnVerbs
  <2>5. "read" \notin closed
    BY <1>1 DEF HoldSeen, Alive, ShapeInv, ReaderUnstarted, ReplyInv, ReadClosed
  <2> QED BY <2>1, <2>4, <2>5 DEF ReplyInv, ReadClosed
<1>2. CASE HoldMissed
  BY <1>2, RepliesKept DEF HoldMissed, ovpnVars
<1>3. CASE DeliverReply
  <2>1. /\ ReplyHeld /\ run.pc = "await" /\ reader'.pc = "read"
        /\ run' = [run EXCEPT !.pc = AfterReply(run.command), !.reply = reader.line]
        /\ UNCHANGED <<ovpn, wire, socket, handler, closed>>
    BY <1>3 DEF DeliverReply, Sending, ReaderSent, ReplyHeld, ovpnVars
  <2>2. NoReplies'
    <3>1. \A i : ~ReplyOn(i) /\ ~ReplyDue(i)
      BY <2>1 DEF ReplyInv, OneReply
    <3> QED BY <2>1, <3>1 DEF NoReplies, ReplyHeld, ReplyOn, ReplyDue
  <2>3. RepliesAwaited' /\ OneReply'
    BY <2>2 DEF NoReplies, RepliesAwaited, OneReply
  <2>4. /\ run'.pc = AfterReply(run.command) /\ run'.reply = reader.line
        /\ run'.command = run.command
    BY <2>1 DEF ShapeInv, TypeOK
  <2>5. run'.pc # "await"
    BY <2>4 DEF AfterReply
  <2>6. ReplyNoted'
    BY <2>1, <2>4, <2>5 DEF ReplyInv, RepliesAwaited, ReplyNoted, Answers
  <2>7. ReadClosed'
    BY <2>1 DEF ReplyInv, ReadClosed, ReplyHeld
  <2> QED BY <2>3, <2>6, <2>7 DEF ReplyInv
<1>4. CASE ReplyClosed
  <2>1. /\ "read" \in closed /\ run.pc = "await"
        /\ run' = [run EXCEPT !.pc = AfterReply(run.command)]
        /\ UNCHANGED <<ovpn, wire, socket, reader, handler, closed>>
    BY <1>4 DEF ReplyClosed, ovpnVars
  <2>2. NoReplies'
    BY <2>1 DEF ReplyInv, ReadClosed, NoReplies, ReplyHeld, ReplyOn, ReplyDue
  <2>3. RepliesAwaited' /\ OneReply'
    BY <2>2 DEF NoReplies, RepliesAwaited, OneReply
  <2>4. /\ run'.pc = AfterReply(run.command) /\ run'.reply = run.reply
        /\ run'.command = run.command
    BY <2>1 DEF ShapeInv, TypeOK
  <2>5. run'.pc # "await"
    BY <2>4 DEF AfterReply
  <2>6. ReplyNoted'
    BY <2>1, <2>4, <2>5 DEF ReplyInv, ReplyNoted
  <2>7. ReadClosed'
    BY <2>1 DEF ReplyInv, ReadClosed
  <2> QED BY <2>3, <2>6, <2>7 DEF ReplyInv
<1>5. CASE HoldRelease
  <2>1. /\ run.pc = "release" /\ SubmitOwn("hold release")
        /\ UNCHANGED <<ovpn, wire, reader, handler, closed>>
    BY <1>5 DEF HoldRelease, ovpnVars
  <2>2. NoReplies
    BY <2>1, Quiet DEF ReplyInv
  <2>3. ~ReplyHeld' /\ \A i : ~ReplyOn(i)'
    BY <2>1, <2>2 DEF NoReplies, ReplyHeld, ReplyOn
  <2>4. RepliesAwaited' /\ OneReply' /\ ReplyNoted'
    BY <2>1, <2>2, <2>3, OwnReplies DEF ShapeInv, OwnVerbs
  <2> QED BY <2>1, <2>4 DEF ReplyInv, ReadClosed
<1>6. CASE RunStops
  <2>1. /\ run.pc = "loop" /\ run' = [run EXCEPT !.pc = "done"]
        /\ closed' = closed \cup {"conn", "resp"}
        /\ UNCHANGED <<ovpn, wire, socket, reader, handler>>
    BY <1>6 DEF RunStops, ovpnVars
  <2>2. NoReplies
    BY <2>1, Quiet DEF ReplyInv
  <2>3. NoReplies'
    BY <2>1, <2>2 DEF NoReplies, ReplyHeld, ReplyOn, ReplyDue
  <2>4. RepliesAwaited' /\ OneReply'
    BY <2>3 DEF NoReplies, RepliesAwaited, OneReply
  <2>5. run'.pc = "done"
    BY <2>1 DEF ShapeInv, TypeOK
  <2>6. ReadClosed' /\ ReplyNoted'
    BY <2>1, <2>5 DEF ReplyInv, ReadClosed, ReplyNoted
  <2> QED BY <2>4, <2>6 DEF ReplyInv
<1> QED BY <1>1, <1>2, <1>3, <1>4, <1>5, <1>6 DEF Run

LEMMA HandlerReplies == ASSUME ShapeInv, ReplyInv, ~killed', Handler PROVE ReplyInv'
<1>1. CASE DeliverEvent
  BY <1>1, OtherLine DEF DeliverEvent, ReaderSent, ovpnVars
<1>2. CASE HandlerStops \/ ExecPanics
  BY <1>2, RepliesKept DEF HandlerStops, ExecPanics, ovpnVars
<1>3. CASE ExecCommand
  <2> DEFINE command == Head(handler.queue)
  <2>1. /\ handler.pc = "exec" /\ run.pc = "loop"
        /\ UNCHANGED <<ovpn, wire, reader, closed>>
        /\ ExpectResponse(command)
    BY <1>3 DEF ExecCommand, ExpectResponse, ovpnVars
  <2>2. TypeOK /\ command \in Command
    <3>1. TypeOK /\ handler.queue # <<>>
      BY <2>1 DEF ShapeInv, TypeOK
    <3> QED BY <3>1, RestTyped
  <2>3. NoReplies
    BY <2>1, Quiet DEF ReplyInv
  <2>4. ~ReplyHeld' /\ \A i : ~ReplyOn(i)'
    BY <2>1, <2>3 DEF NoReplies, ReplyHeld, ReplyOn
  <2>5. ReadClosed'
    BY <2>1 DEF ReplyInv, ReadClosed
  <2>6. Submit(command, "respond")
    BY <1>3, <2>1 DEF ExecCommand
  <2> HIDE DEF command
  <2>7. RepliesAwaited' /\ OneReply' /\ ReplyNoted'
    BY <2>1, <2>2, <2>3, <2>4, <2>6, SubmitReplies
  <2> QED BY <2>5, <2>7 DEF ReplyInv
<1>4. CASE Respond
  <2>1. /\ run.pc = "respond" /\ run' = [run EXCEPT !.pc = "loop"]
        /\ UNCHANGED <<ovpn, wire, socket, reader, closed>>
    BY <1>4 DEF Respond, ovpnVars
  <2>2. NoReplies
    BY <2>1, Quiet DEF ReplyInv
  <2>3. NoReplies'
    BY <2>1, <2>2 DEF NoReplies, ReplyHeld, ReplyOn, ReplyDue
  <2>4. RepliesAwaited' /\ OneReply'
    BY <2>3 DEF NoReplies, RepliesAwaited, OneReply
  <2>5. run'.pc = "loop"
    BY <2>1 DEF ShapeInv, TypeOK
  <2>6. ReadClosed' /\ ReplyNoted'
    BY <2>1, <2>5 DEF ReplyInv, ReadClosed, ReplyNoted
  <2> QED BY <2>4, <2>6 DEF ReplyInv
<1> QED BY <1>1, <1>2, <1>3, <1>4 DEF Handler

LEMMA MainReplies == ASSUME ShapeInv, ReplyInv, Main \/ Shutdown PROVE ReplyInv'
<1>1. CASE DeliverState
  BY <1>1, OtherLine DEF DeliverState, ReaderSent, ovpnVars
<1>2. CASE BootFails \/ Serve \/ WaitOpenVPN \/ ShutdownReturns \/ Shutdown
  BY <1>2, RepliesKept DEF BootFails, Serve, WaitOpenVPN, ShutdownReturns, Shutdown, ovpnVars
<1> QED BY <1>1, <1>2 DEF Main

LEMMA ReplyInit == Init => ReplyInv
<1> SUFFICES ASSUME Init PROVE ReplyInv
  OBVIOUS
<1>1. /\ wire = <<>> /\ socket = <<>> /\ closed = {}
      /\ reader.pc = "unstarted" /\ run.pc = "accept"
  BY DEF Init
<1>2. NoReplies
  BY <1>1 DEF NoReplies, ReplyHeld, ReplyOn, ReplyDue
<1> QED BY <1>1, <1>2, Quiet DEF ReplyInv, ReadClosed, ReplyNoted

LEMMA ReplyStep == ASSUME ShapeInv, ReplyInv, ~killed', [Next]_vars PROVE ReplyInv'
<1>1. CASE UNCHANGED vars
  BY <1>1, RepliesKept DEF vars, ovpnVars
<1> QED
  BY <1>1, SpeakReplies, ExecuteReplies, ReaderReplies, RunReplies, HandlerReplies, MainReplies
  DEF Next, Process

(* Once a client-kill is sent nothing of the kind holds any more.          *)
KilledInv == ~killed => ReplyInv

LEMMA KilledKept == ASSUME killed, [Next]_vars PROVE killed'
<1>1. CASE Speak \/ OvExecute
  BY <1>1 DEF Speak, OvState, OvConnect, OvDisconnect, OvDial, OvHold, OvExit, OvExecute
<1>2. CASE Reader
  BY <1>2 DEF Reader, ReaderRead, ReaderEOF, ReaderReset, ReaderDrops, ReaderPanics
<1>3. CASE Run
  BY <1>3 DEF Run, HoldSeen, HoldMissed, DeliverReply, ReplyClosed, HoldRelease, RunStops
<1>4. CASE Handler
  BY <1>4 DEF Handler, DeliverEvent, HandlerStops, ExecCommand, ExecPanics, Respond
<1>5. CASE Main \/ Shutdown
  BY <1>5 DEF Main, DeliverState, BootFails, Serve, WaitOpenVPN, ShutdownReturns, Shutdown
<1>6. CASE UNCHANGED vars
  BY <1>6 DEF vars
<1> QED BY <1>1, <1>2, <1>3, <1>4, <1>5, <1>6 DEF Next, Process

LEMMA KilledStep == ASSUME ShapeInv, KilledInv, [Next]_vars PROVE KilledInv'
BY KilledKept, ReplyStep DEF KilledInv

-----------------------------------------------------------------------------
(***************************************************************************)
(* Stalls.  Whoever waits inside ExecCommand waits for a goroutine that    *)
(* can go on, but for two ways.  What it takes to see it: the reply to a   *)
(* command is somewhere on its way, nothing that OpenVPN says unasked is   *)
(* read before the reply to `hold release`, and the boot has then let run  *)
(* come to its loop.                                                       *)
(***************************************************************************)
(* run has its reply to `hold release`.                                    *)
Past ==
    \/ run.pc \in {"loop", "respond", "done"}
    \/ run.pc = "await" /\ run.command.verb \notin OwnVerbs

(* run awaits that reply, and it precedes the i-th line of the wire.       *)
Behind(i) ==
    /\ run.pc = "await" /\ run.command.verb = "hold release"
    /\ ReplyHeld \/ \E j : j < i /\ ReplyOn(j)

Spoken(line) == line.kind \in {"state", "event"}

(* OpenVPN says nothing unasked before it is released (openvpn.go:152-173).*)
ReleasedFirst ==
    /\ main \notin {"boot", "failed"} => Past
    /\ reader.pc = "send" /\ Spoken(reader.line) => Past
    /\ ovpn = "up" => Past \/ Behind(Len(wire) + 1)
    /\ \A i \in 1..Len(wire) : Spoken(wire[i]) => Past \/ Behind(i)

(* The first line is >HOLD, and run reads it before it starts the reader.  *)
HoldFirst ==
    /\ ovpn \in {"launched", "dialed"} => wire = <<>> /\ reader.pc = "unstarted"
    /\ reader.pc = "unstarted" => socket = <<>> /\ Len(wire) <= 1 /\ ovpn # "up"
    /\ \A i \in 1..Len(wire) : wire[i].kind = "hold" => reader.pc = "unstarted"
    /\ reader.pc = "send" => reader.line.kind # "hold"

(* The reply run awaits is not lost.                                       *)
ReplyComing ==
    run.pc = "await" /\ ovpn # "exited" =>
        ReplyHeld \/ (\E i : ReplyOn(i)) \/ (\E i : ReplyDue(i))

(* The handler waits for what run does for it.                             *)
Responding ==
    handler.pc = "response" =>
        run.pc = "respond" \/ (run.pc = "await" /\ run.command.verb \notin OwnVerbs)

(* Its commands are not those of run.                                      *)
QueueVerbs == \A i \in 1..Len(handler.queue) : handler.queue[i].verb \notin OwnVerbs

(* A goroutine that has ended has closed what others wait on.              *)
EndsClosed ==
    /\ run.pc = "done" => "cmd" \in closed
    /\ reader.pc = "done" => "read" \in closed

HandlerInv == QueueVerbs /\ Responding /\ ForHandler /\ EndsClosed

(* Clients are killed by the handler, which is started after the boot.     *)
KilledPast == killed => Past

StallInv == HandlerInv /\ ReplyComing /\ HoldFirst /\ ReleasedFirst /\ KilledPast

(* What a command leaves of run.                                           *)
LEMMA Submitted ==
    ASSUME TypeOK, NEW command \in Command, NEW after \in {"respond", "loop"},
           Submit(command, after)
    PROVE  /\ run'.command = command
           /\ \/ run'.pc = after
              \/ run'.pc = "await" /\ ExpectResponse(command) /\ ovpn # "exited"
                 /\ socket' = Append(socket, command)
           /\ run'.pc # "await" \/ ExpectResponse(command)
<1>1. CASE ovpn = "exited"
  <2>1. run' = [pc |-> after, command |-> command, reply |-> NoReply]
    BY <1>1 DEF Submit
  <2> QED BY <2>1
<1>2. CASE ovpn # "exited"
  <2>1. /\ run' = [pc |-> IF ExpectResponse(command) THEN "await" ELSE after,
                   command |-> command, reply |-> NoReply]
        /\ socket' = Append(socket, command)
    BY <1>2 DEF Submit
  <2> QED BY <1>2, <2>1
<1> QED BY <1>1, <1>2

(* A command of run's own, or a panic.                                     *)
LEMMA SubmittedOwn ==
    ASSUME TypeOK, NEW verb \in OwnVerbs, SubmitOwn(verb)
    PROVE  \/ UNCHANGED <<run, socket>> /\ ovpn = "exited"
           \/ /\ ovpn # "exited" /\ run'.pc = "await" /\ run'.command.verb = verb
              /\ \E command \in Command : socket' = Append(socket, command)
<1>1. CASE ovpn = "exited"
  BY <1>1 DEF SubmitOwn
<1>2. CASE ovpn # "exited"
  <2> DEFINE command == [verb |-> verb, cid |-> None]
  <2>1. command \in Command /\ command.verb = verb /\ ExpectResponse(command)
    BY DEF Command, OwnVerbs, ExpectResponse
  <2>2. Submit(command, "loop")
    BY <1>2 DEF SubmitOwn
  <2> HIDE DEF command
  <2>3. /\ run' = [pc |-> "await", command |-> command, reply |-> NoReply]
        /\ socket' = Append(socket, command)
    BY <1>2, <2>1, <2>2 DEF Submit
  <2> QED BY <1>2, <2>1, <2>3
<1> QED BY <1>1, <1>2

(* What ExecCommand does to run and to the handler.                        *)
LEMMA Executed ==
    ASSUME ShapeInv, QueueVerbs, ExecCommand
    PROVE  /\ run.pc = "loop" /\ handler.pc = "exec"
           /\ run'.command = Head(handler.queue)
           /\ run'.command \in Command /\ run'.command.verb \notin OwnVerbs
           /\ \/ /\ handler'.pc = "response" /\ handler'.queue = handler.queue
                 /\ \/ run'.pc = "respond"
                    \/ /\ run'.pc = "await" /\ ovpn # "exited"
                       /\ socket' = Append(socket, run'.command)
              \/ /\ handler'.pc # "response" /\ handler'.queue = Tail(handler.queue)
                 /\ run'.pc = "loop"
<1> DEFINE command == Head(handler.queue)
<1>1. TypeOK /\ handler.pc = "exec" /\ run.pc = "loop" /\ handler.queue # <<>>
  BY DEF ExecCommand, ShapeInv, TypeOK
<1>2. command \in Command
  BY <1>1, RestTyped
<1>3. command.verb \notin OwnVerbs
  <2>1. handler.queue \in Seq(Command)
    BY <1>1 DEF TypeOK
  <2>2. command = handler.queue[1] /\ 1 \in 1..Len(handler.queue)
    BY <1>1, <2>1
  <2> QED BY <2>2 DEF QueueVerbs
<1>4. CASE ExpectResponse(command)
  <2>1. Submit(command, "respond") /\ handler' = [handler EXCEPT !.pc = "response"]
    BY <1>4 DEF ExecCommand
  <2>2. handler'.pc = "response" /\ handler'.queue = handler.queue
    BY <2>1 DEF ShapeInv, TypeOK
  <2> HIDE DEF command
  <2>3. /\ run'.command = command
        /\ \/ run'.pc = "respond"
           \/ run'.pc = "await" /\ ovpn # "exited" /\ socket' = Append(socket, command)
    BY <1>1, <1>2, <2>1, Submitted
  <2> QED BY <1>1, <1>2, <1>3, <1>4, <2>2, <2>3 DEF command
<1>5. CASE ~ExpectResponse(command)
  <2>1. /\ Submit(command, "loop")
        /\ handler' = [pc |-> Resume(Tail(handler.queue)), queue |-> Tail(handler.queue)]
    BY <1>5 DEF ExecCommand
  <2>2. handler'.pc # "response" /\ handler'.queue = Tail(handler.queue)
    BY <2>1 DEF Resume
  <2> HIDE DEF command
  <2>3. run'.command = command /\ run'.pc = "loop"
    BY <1>1, <1>2, <1>5, <2>1, Submitted
  <2> QED BY <1>1, <1>2, <1>3, <2>2, <2>3 DEF command
<1> QED BY <1>4, <1>5

(* The reply to a command of the handler's leads to its response.          *)
LEMMA ReplyCame ==
    ASSUME ShapeInv, DeliverReply \/ ReplyClosed
    PROVE  /\ run.pc = "await" /\ run'.command = run.command
           /\ run'.pc \in {"release", "loop", "respond"}
           /\ run.command.verb \notin OwnVerbs <=> run'.pc = "respond"
           /\ run.command.verb = "hold release" => run'.pc = "loop"
           /\ UNCHANGED <<ovpn, wire, socket, handler, main, closed>>
<1>1. /\ run.pc = "await" /\ run'.pc = AfterReply(run.command)
      /\ run'.command = run.command
      /\ UNCHANGED <<ovpn, wire, socket, handler, main, closed>>
  BY DEF DeliverReply, ReplyClosed, ovpnVars, ShapeInv, TypeOK
<1> QED BY <1>1 DEF AfterReply, OwnVerbs

-----------------------------------------------------------------------------
(* The commands of the handler, and who has ended.                         *)
LEMMA QueueInit == Init => HandlerInv
BY DEF Init, HandlerInv, QueueVerbs, Responding, ForHandler, EndsClosed

LEMMA RestVerbs ==
    ASSUME NEW queue \in Seq(Command), queue # <<>>,
           \A i \in 1..Len(queue) : queue[i].verb \notin OwnVerbs
    PROVE  \A i \in 1..Len(Tail(queue)) : Tail(queue)[i].verb \notin OwnVerbs
<1>1. \A i \in 1..Len(Tail(queue)) : Tail(queue)[i] = queue[i + 1] /\ i + 1 \in 1..Len(queue)
  OBVIOUS
<1> QED BY <1>1

LEMMA CallsVerbs ==
    ASSUME NEW line \in Line, NEW queue \in Calls(line)
    PROVE  \A i \in 1..Len(queue) : queue[i].verb \notin OwnVerbs
<1> DEFINE auth == [verb |-> "client-auth", cid |-> line.cid]
           kill(d) == [verb |-> "client-kill", cid |-> d]
<1>1. queue = <<>> \/ queue = <<auth>> \/ \E d \in Clients : queue = <<kill(d), auth>>
  BY DEF Calls
<1>2. auth.verb \notin OwnVerbs /\ \A d : kill(d).verb \notin OwnVerbs
  BY DEF OwnVerbs
<1> HIDE DEF auth, kill
<1>3. CASE queue = <<>> \/ queue = <<auth>>
  BY <1>2, <1>3
<1>4. ASSUME NEW d \in Clients, queue = <<kill(d), auth>>
      PROVE  \A i \in 1..Len(queue) : queue[i].verb \notin OwnVerbs
  <2>1. Len(queue) = 2 /\ queue[1] = kill(d) /\ queue[2] = auth
    BY <1>4
  <2> QED BY <1>2, <2>1
<1> QED BY <1>1, <1>3, <1>4

(* What the handler does with its queue.                                   *)
LEMMA QueueStep == ASSUME ShapeInv, QueueVerbs, [Next]_vars PROVE QueueVerbs'
<1>1. CASE handler'.queue = handler.queue
  BY <1>1 DEF QueueVerbs
<1>2. CASE handler.queue # <<>> /\ handler'.queue = Tail(handler.queue)
  BY <1>2, RestVerbs DEF QueueVerbs, ShapeInv, TypeOK
<1>3. CASE DeliverEvent
  <2>1. PICK queue \in Calls(reader.line) : handler' = [pc |-> Resume(queue), queue |-> queue]
    BY <1>3 DEF DeliverEvent
  <2>2. reader.line \in Line /\ handler'.queue = queue
    BY <2>1 DEF ShapeInv, TypeOK
  <2> QED BY <2>1, <2>2, CallsVerbs DEF QueueVerbs
<1>4. CASE ExecCommand
  BY <1>1, <1>2, <1>4, Executed DEF ShapeInv, TypeOK
<1>5. CASE Respond
  BY <1>2, <1>5 DEF Respond, ShapeInv, TypeOK
<1>6. CASE HandlerStops \/ Serve
  BY <1>1, <1>6 DEF HandlerStops, Serve, ShapeInv, TypeOK
<1>7. CASE Speak \/ OvExecute \/ Reader \/ Run \/ Shutdown \/ UNCHANGED vars
  <2>1. CASE Speak \/ OvExecute
    BY <1>1, <2>1
    DEF Speak, OvState, OvConnect, OvDisconnect, OvDial, OvHold, OvExit, OvExecute
  <2>2. CASE Reader
    BY <1>1, <2>2 DEF Reader, ReaderRead, ReaderEOF, ReaderReset, ReaderDrops, ReaderPanics
  <2>3. CASE Run
    BY <1>1, <2>3
    DEF Run, HoldSeen, HoldMissed, DeliverReply, ReplyClosed, HoldRelease, RunStops
  <2>4. CASE Shutdown \/ UNCHANGED vars
    BY <1>1, <2>4 DEF Shutdown, vars
  <2> QED BY <1>7, <2>1, <2>2, <2>3, <2>4
<1>8. CASE ExecPanics \/ DeliverState \/ BootFails \/ WaitOpenVPN \/ ShutdownReturns
  BY <1>1, <1>8 DEF ExecPanics, DeliverState, BootFails, WaitOpenVPN, ShutdownReturns
<1> QED BY <1>3, <1>4, <1>5, <1>6, <1>7, <1>8 DEF Next, Process, Handler, Main

LEMMA RespondingStep ==
    ASSUME ShapeInv, QueueVerbs, Responding, [Next]_vars PROVE Responding'
<1>1. CASE UNCHANGED <<run, handler>>
  BY <1>1 DEF Responding
<1>2. ASSUME handler'.pc # "response" PROVE Responding'
  BY <1>2 DEF Responding
<1>3. CASE Speak \/ OvExecute
  <2>1. CASE OvDial
    <3>1. run.pc = "accept" /\ handler' = handler
      BY <2>1 DEF OvDial, Alive, ShapeInv, ReaderUnstarted
    <3> QED BY <1>2, <3>1 DEF Responding
  <2> QED
    BY <1>1, <1>3, <2>1
    DEF Speak, OvState, OvConnect, OvDisconnect, OvHold, OvExit, OvExecute
<1>4. CASE Reader
  BY <1>1, <1>4 DEF Reader, ReaderRead, ReaderEOF, ReaderReset, ReaderDrops, ReaderPanics
<1>5. CASE Run
  <2>1. CASE DeliverReply \/ ReplyClosed
    BY <2>1, ReplyCame DEF Responding
  <2>2. CASE HoldMissed
    BY <1>1, <2>2 DEF HoldMissed
  <2>3. CASE HoldSeen \/ HoldRelease \/ RunStops
    <3>1. run.pc \in {"hold", "release", "loop"} /\ handler' = handler
      BY <2>3 DEF HoldSeen, HoldRelease, RunStops
    <3> QED BY <1>2, <3>1 DEF Responding
  <2> QED BY <1>5, <2>1, <2>2, <2>3 DEF Run
<1>6. CASE DeliverEvent
  BY <1>2, <1>6 DEF DeliverEvent, Resume
<1>7. CASE HandlerStops \/ Serve
  BY <1>2, <1>7 DEF HandlerStops, Serve, ShapeInv, TypeOK
<1>8. CASE ExecCommand
  BY <1>8, Executed DEF Responding
<1>9. CASE ExecPanics \/ DeliverState \/ BootFails \/ WaitOpenVPN \/ ShutdownReturns
  BY <1>1, <1>9 DEF ExecPanics, DeliverState, BootFails, WaitOpenVPN, ShutdownReturns
<1>10. CASE Respond
  BY <1>2, <1>10 DEF Respond, Resume
<1>11. CASE Shutdown \/ UNCHANGED vars
  BY <1>1, <1>11 DEF Shutdown, vars
<1> QED
  BY <1>3, <1>4, <1>5, <1>6, <1>7, <1>8, <1>9, <1>10, <1>11 DEF Next, Process, Handler, Main

LEMMA ForHandlerStep == ASSUME ShapeInv, QueueVerbs, ForHandler, [Next]_vars PROVE ForHandler'
<1>1. CASE UNCHANGED <<run, handler>>
  BY <1>1 DEF ForHandler
<1>2. ASSUME run'.pc \notin {"respond", "await"} PROVE ForHandler'
  BY <1>2 DEF ForHandler
<1>3. ASSUME handler.pc # "response", run' = run PROVE ForHandler'
  BY <1>3 DEF ForHandler
<1>4. CASE Speak \/ OvExecute
  <2>1. CASE OvDial
    BY <1>2, <2>1 DEF OvDial, ShapeInv, TypeOK
  <2> QED
    BY <1>1, <1>4, <2>1
    DEF Speak, OvState, OvConnect, OvDisconnect, OvHold, OvExit, OvExecute
<1>5. CASE Reader
  BY <1>1, <1>5 DEF Reader, ReaderRead, ReaderEOF, ReaderReset, ReaderDrops, ReaderPanics
<1>6. CASE Run
  <2>1. CASE DeliverReply \/ ReplyClosed
    BY <2>1, ReplyCame DEF ForHandler
  <2>2. CASE HoldMissed
    BY <1>1, <2>2 DEF HoldMissed
  <2>3. CASE HoldSeen \/ HoldRelease
    <3>1. PICK verb \in OwnVerbs : SubmitOwn(verb)
      BY <2>3 DEF HoldSeen, HoldRelease, OwnVerbs
    <3>2. run' = run \/ (run'.pc = "await" /\ run'.command.verb \in OwnVerbs)
      BY <3>1, SubmittedOwn DEF ShapeInv
    <3>3. handler' = handler
      BY <2>3 DEF HoldSeen, HoldRelease
    <3> QED BY <3>2, <3>3 DEF ForHandler
  <2>4. CASE RunStops
    BY <1>2, <2>4 DEF RunStops, ShapeInv, TypeOK
  <2> QED BY <1>6, <2>1, <2>2, <2>3, <2>4 DEF Run
<1>7. CASE DeliverEvent \/ HandlerStops
  BY <1>3, <1>7 DEF DeliverEvent, HandlerStops
<1>8. CASE Serve
  BY <1>3, <1>8 DEF Serve, ShapeInv, HandlerUnstarted
<1>9. CASE ExecCommand
  BY <1>9, Executed DEF ForHandler
<1>10. CASE Respond
  BY <1>2, <1>10 DEF Respond, ShapeInv, TypeOK
<1>11. CASE ExecPanics \/ DeliverState \/ BootFails \/ WaitOpenVPN \/ ShutdownReturns
  BY <1>1, <1>11 DEF ExecPanics, DeliverState, BootFails, WaitOpenVPN, ShutdownReturns
<1>12. CASE Shutdown \/ UNCHANGED vars
  BY <1>1, <1>12 DEF Shutdown, vars
<1> QED
  BY <1>4, <1>5, <1>6, <1>7, <1>8, <1>9, <1>10, <1>11, <1>12 DEF Next, Process, Handler, Main

LEMMA EndsStep == ASSUME ShapeInv, QueueVerbs, EndsClosed, [Next]_vars PROVE EndsClosed'
<1> USE DEF EndsClosed
<1>1. CASE Speak \/ OvExecute
  <2>1. CASE OvDial
    BY <2>1 DEF OvDial, ShapeInv, TypeOK
  <2> QED
    BY <1>1, <2>1
    DEF Speak, OvState, OvConnect, OvDisconnect, OvHold, OvExit, OvExecute
<1>2. CASE Reader
  <2>1. CASE ReaderRead
    BY <2>1 DEF ReaderRead
  <2>2. CASE ReaderEOF
    BY <2>2 DEF ReaderEOF
  <2>3. CASE ReaderReset \/ ReaderDrops \/ ReaderPanics
    BY <2>3 DEF ReaderReset, ReaderDrops, ReaderPanics
  <2> QED BY <1>2, <2>1, <2>2, <2>3 DEF Reader
<1>3. CASE Run
  <2>1. CASE DeliverReply \/ ReplyClosed
    <3>1. reader' = reader \/ reader'.pc = "read"
      BY <2>1 DEF DeliverReply, ReplyClosed, ReaderSent
    <3> QED BY <2>1, <3>1, ReplyCame
  <2>2. CASE HoldSeen \/ HoldRelease
    <3>1. PICK verb \in OwnVerbs : SubmitOwn(verb)
      BY <2>2 DEF HoldSeen, HoldRelease, OwnVerbs
    <3>2. run' = run \/ run'.pc = "await"
      BY <3>1, SubmittedOwn DEF ShapeInv
    <3>3. closed' = closed /\ (reader' = reader \/ reader'.pc = "read")
      BY <2>2 DEF HoldSeen, HoldRelease, ShapeInv, TypeOK
    <3> QED BY <3>2, <3>3
  <2>3. CASE HoldMissed
    BY <2>3 DEF HoldMissed
  <2>4. CASE RunStops
    BY <2>4 DEF RunStops
  <2> QED BY <1>3, <2>1, <2>2, <2>3, <2>4 DEF Run
<1>4. CASE Handler
  <2>1. CASE ExecCommand
    <3>1. UNCHANGED <<reader, closed>>
      BY <2>1 DEF ExecCommand
    <3> QED BY <2>1, <3>1, Executed
  <2>2. CASE DeliverEvent
    BY <2>2 DEF DeliverEvent, ReaderSent
  <2>3. CASE HandlerStops \/ ExecPanics
    BY <2>3 DEF HandlerStops, ExecPanics
  <2>4. CASE Respond
    BY <2>4 DEF Respond, ShapeInv, TypeOK
  <2> QED BY <1>4, <2>1, <2>2, <2>3, <2>4 DEF Handler
<1>5. CASE Main \/ Shutdown
  BY <1>5
  DEF Main, DeliverState, BootFails, Serve, WaitOpenVPN, ShutdownReturns, Shutdown, ReaderSent
<1>6. CASE UNCHANGED vars
  BY <1>6 DEF vars
<1> QED BY <1>1, <1>2, <1>3, <1>4, <1>5, <1>6 DEF Next, Process

LEMMA HandlerStep == ASSUME ShapeInv, HandlerInv, [Next]_vars PROVE HandlerInv'
BY QueueStep, RespondingStep, ForHandlerStep, EndsStep DEF HandlerInv

-----------------------------------------------------------------------------
(* Past the reply to `hold release` run stays past it.                     *)
LEMMA PastKept == ASSUME ShapeInv, QueueVerbs, Past, [Next]_vars PROVE Past'
<1>1. CASE run' = run
  BY <1>1 DEF Past
<1>2. run.pc \notin {"accept", "hold", "release"}
  BY DEF Past
<1>3. CASE Speak \/ OvExecute
  <2>1. CASE OvDial
    BY <1>2, <2>1 DEF OvDial, Alive, ShapeInv, ReaderUnstarted
  <2> QED
    BY <1>1, <1>3, <2>1
    DEF Speak, OvState, OvConnect, OvDisconnect, OvHold, OvExit, OvExecute
<1>4. CASE Reader
  BY <1>1, <1>4 DEF Reader, ReaderRead, ReaderEOF, ReaderReset, ReaderDrops, ReaderPanics
<1>5. CASE Run
  <2>1. CASE DeliverReply \/ ReplyClosed
    BY <2>1, ReplyCame DEF Past
  <2>2. CASE HoldSeen \/ HoldRelease
    BY <1>2, <2>2 DEF HoldSeen, HoldRelease
  <2>3. CASE HoldMissed
    BY <1>1, <2>3 DEF HoldMissed
  <2>4. CASE RunStops
    BY <2>4 DEF RunStops, Past, ShapeInv, TypeOK
  <2> QED BY <1>5, <2>1, <2>2, <2>3, <2>4 DEF Run
<1>6. CASE Handler
  <2>1. CASE ExecCommand
    BY <2>1, Executed DEF Past
  <2>2. CASE Respond
    BY <2>2 DEF Respond, Past, ShapeInv, TypeOK
  <2>3. CASE DeliverEvent \/ HandlerStops \/ ExecPanics
    BY <1>1, <2>3 DEF DeliverEvent, HandlerStops, ExecPanics
  <2> QED BY <1>6, <2>1, <2>2, <2>3 DEF Handler
<1>7. CASE Main \/ Shutdown
  BY <1>1, <1>7
  DEF Main, DeliverState, BootFails, Serve, WaitOpenVPN, ShutdownReturns, Shutdown
<1>8. CASE UNCHANGED vars
  BY <1>1, <1>8 DEF vars
<1> QED BY <1>3, <1>4, <1>5, <1>6, <1>7, <1>8 DEF Next, Process

(* What is written after the others leaves them where they are.            *)
LEMMA WireKept ==
    ASSUME wire \in Seq(Line), NEW line \in Line, wire' = Append(wire, line)
    PROVE  /\ Len(wire') = Len(wire) + 1 /\ Len(wire) \in Nat
           /\ \A i \in 1..Len(wire) : wire'[i] = wire[i]
           /\ wire'[Len(wire) + 1] = line
           /\ \A i : ReplyOn(i) => ReplyOn(i)'
<1>1. /\ Len(wire') = Len(wire) + 1 /\ Len(wire) \in Nat
      /\ \A i \in 1..Len(wire) : wire'[i] = wire[i]
      /\ wire'[Len(wire) + 1] = line
  OBVIOUS
<1> QED BY <1>1 DEF ReplyOn

(* What is read lets the others move up.                                   *)
LEMMA WireMoved ==
    ASSUME wire \in Seq(Line), wire # <<>>, wire' = Tail(wire)
    PROVE  /\ Len(wire') = Len(wire) - 1 /\ Len(wire) \in Nat \ {0}
           /\ \A i \in 1..Len(wire') : wire'[i] = wire[i + 1] /\ i + 1 \in 1..Len(wire)
           /\ Head(wire) = wire[1]
           /\ \A i : ReplyOn(i) => i = 1 \/ (i - 1 \in Nat \ {0} /\ ReplyOn(i - 1)')
<1>1. /\ Len(wire') = Len(wire) - 1 /\ Len(wire) \in Nat \ {0}
      /\ \A i \in 1..Len(wire') : wire'[i] = wire[i + 1]
      /\ Head(wire) = wire[1]
  OBVIOUS
<1>2. ASSUME NEW i, ReplyOn(i), i # 1 PROVE i - 1 \in Nat \ {0} /\ ReplyOn(i - 1)'
  <2>1. i \in 2..Len(wire) /\ wire[i].kind = "reply"
    BY <1>1, <1>2 DEF ReplyOn
  <2>2. i - 1 \in 1..Len(wire') /\ (i - 1) + 1 = i
    BY <1>1, <2>1
  <2> QED BY <1>1, <2>1, <2>2 DEF ReplyOn
<1> QED BY <1>1, <1>2

LEMMA ReplyWritten ==
    ASSUME socket \in Seq(Command), NEW command \in Command,
           socket' = Append(socket, command), ovpn # "exited", ovpn' = ovpn
    PROVE  \E i : ReplyDue(i)'
<1>1. /\ Len(socket') = Len(socket) + 1 /\ Len(socket) \in Nat
      /\ socket'[Len(socket) + 1] = command
  OBVIOUS
<1>2. PICK n \in Nat : n = Len(socket) + 1
  BY <1>1
<1>3. ReplyDue(n)'
  BY <1>1, <1>2 DEF ReplyDue
<1> QED BY <1>3

(* A reply that is due is written; another moves up.                       *)
LEMMA DueExecuted ==
    ASSUME ShapeInv, OvExecute, NEW i, ReplyDue(i), ovpn' # "exited"
    PROVE  (\E j : ReplyOn(j)') \/ (\E j : ReplyDue(j)')
<1>1. /\ socket \in Seq(Command) /\ socket # <<>> /\ socket' = Tail(socket)
      /\ wire \in Seq(Line)
  BY DEF OvExecute, ShapeInv, TypeOK
<1>2. /\ Len(socket') = Len(socket) - 1 /\ Len(socket) \in Nat \ {0}
      /\ \A j \in 1..Len(socket') : socket'[j] = socket[j + 1]
      /\ socket[1] = Head(socket)
  BY <1>1
<1>3. CASE i = 1
  <2> DEFINE command == Head(socket)
             reply == [kind |-> "reply", name |-> command.verb, cid |-> command.cid]
  <2>1. command \in Command
    BY <1>1, <1>2
  <2>2. reply \in Line /\ reply.kind = "reply"
    BY <2>1 DEF Line, Command
  <2>3. wire' = Append(wire, reply)
    BY DEF OvExecute, Write
  <2> HIDE DEF reply
  <2>4. /\ Len(wire') = Len(wire) + 1 /\ Len(wire) \in Nat
        /\ wire'[Len(wire) + 1].kind = "reply"
    BY <1>1, <2>2, <2>3, WireKept
  <2>5. PICK n \in Nat : n = Len(wire) + 1
    BY <2>4
  <2>6. ReplyOn(n)'
    BY <2>4, <2>5 DEF ReplyOn
  <2> QED BY <2>6
<1>4. CASE i # 1
  <2>1. i \in 2..Len(socket)
    BY <1>2, <1>4 DEF ReplyDue
  <2>2. i - 1 \in 1..Len(socket') /\ (i - 1) + 1 = i
    BY <1>2, <2>1
  <2>3. ReplyDue(i - 1)'
    BY <1>2, <2>1, <2>2 DEF ReplyDue
  <2> QED BY <2>3
<1> QED BY <1>3, <1>4

LEMMA ComingStep ==
    ASSUME ShapeInv, QueueVerbs, ReplyComing, [Next]_vars PROVE ReplyComing'
<1> SUFFICES ASSUME run'.pc = "await", ovpn' # "exited"
             PROVE  ReplyHeld' \/ (\E i : ReplyOn(i)') \/ (\E i : ReplyDue(i)')
  BY DEF ReplyComing
<1> DEFINE Goal == ReplyHeld' \/ (\E i : ReplyOn(i)') \/ (\E i : ReplyDue(i)')
<1>1. ASSUME UNCHANGED <<ovpn, wire, socket, run>>, ReplyHeld => ReplyHeld' PROVE Goal
  BY <1>1 DEF ReplyComing, ReplyOn, ReplyDue
<1>2. ASSUME NEW line \in Line, wire' = Append(wire, line), ovpn # "exited",
             UNCHANGED <<socket, reader, run>>
      PROVE  Goal
  <2>1. ReplyHeld \/ (\E i : ReplyOn(i)) \/ (\E i : ReplyDue(i))
    BY <1>2 DEF ReplyComing
  <2>2. \A i : ReplyOn(i) => ReplyOn(i)'
    BY <1>2, WireKept DEF ShapeInv, TypeOK
  <2>3. \A i : ReplyDue(i) => ReplyDue(i)'
    BY <1>2 DEF ReplyDue
  <2> QED BY <1>2, <2>1, <2>2, <2>3 DEF ReplyHeld
<1>3. CASE Speak
  <2>1. ASSUME NEW name \in {"OTHER", "CONNECTED"}, OvState(name) PROVE Goal
    <3>1. [kind |-> "state", name |-> name, cid |-> None] \in Line
      BY DEF Line
    <3> QED BY <1>2, <2>1, <3>1 DEF OvState, MaySpeak, Write
  <2>2. ASSUME NEW c \in Clients, OvConnect(c) PROVE Goal
    <3>1. [kind |-> "event", name |-> "CONNECT", cid |-> c] \in Line
      BY DEF Line
    <3> QED BY <1>2, <2>2, <3>1 DEF OvConnect, MaySpeak, Write
  <2>3. ASSUME NEW c \in Clients, OvDisconnect(c) PROVE Goal
    <3>1. [kind |-> "event", name |-> "DISCONNECT", cid |-> c] \in Line
      BY DEF Line
    <3> QED BY <1>2, <2>3, <3>1 DEF OvDisconnect, MaySpeak, Write
  <2>4. CASE OvHold
    <3>1. [kind |-> "hold", name |-> "OTHER", cid |-> None] \in Line
      BY DEF Line
    <3> QED BY <1>2, <2>4, <3>1 DEF OvHold, Write
  <2>5. CASE OvDial
    BY <2>5 DEF OvDial, ShapeInv, TypeOK
  <2>6. CASE OvExit
    BY <2>6 DEF OvExit
  <2> QED BY <1>3, <2>1, <2>2, <2>3, <2>4, <2>5, <2>6 DEF Speak
<1>4. CASE OvExecute
  <2>1. ovpn # "exited" /\ UNCHANGED <<run, reader>>
    BY <1>4 DEF OvExecute
  <2>2. ReplyHeld \/ (\E i : ReplyOn(i)) \/ (\E i : ReplyDue(i))
    BY <2>1 DEF ReplyComing
  <2>3. ASSUME NEW i, ReplyOn(i) PROVE ReplyOn(i)'
    <3> DEFINE command == Head(socket)
               reply == [kind |-> "reply", name |-> command.verb, cid |-> command.cid]
    <3>1. socket \in Seq(Command) /\ socket # <<>> /\ wire \in Seq(Line)
      BY <1>4 DEF OvExecute, ShapeInv, TypeOK
    <3>2. command \in Command
      BY <3>1
    <3>3. reply \in Line /\ wire' = Append(wire, reply)
      BY <1>4, <3>2 DEF OvExecute, Write, Line, Command
    <3> HIDE DEF reply
    <3> QED BY <2>3, <3>1, <3>3, WireKept
  <2> QED BY <1>4, <2>1, <2>2, <2>3, DueExecuted DEF ReplyHeld
<1>5. CASE Reader
  <2>1. CASE ReaderRead
    <3>1. /\ wire \in Seq(Line) /\ wire # <<>> /\ wire' = Tail(wire)
          /\ reader.pc = "read" /\ reader' = [pc |-> "send", line |-> Head(wire)]
          /\ UNCHANGED <<ovpn, socket, run>>
      BY <2>1 DEF ReaderRead, ShapeInv, TypeOK, ovpnVars
    <3>2. (\E i : ReplyOn(i)) \/ (\E i : ReplyDue(i))
      BY <3>1 DEF ReplyComing, ReplyHeld
    <3>3. ASSUME NEW i, ReplyOn(i) PROVE Goal
      <4>1. CASE i = 1
        BY <3>1, <3>3, <4>1, WireMoved DEF ReplyOn, ReplyHeld
      <4>2. CASE i # 1
        BY <3>1, <3>3, <4>2, WireMoved
      <4> QED BY <4>1, <4>2
    <3>4. ASSUME NEW i, ReplyDue(i) PROVE Goal
      BY <3>1, <3>4 DEF ReplyDue
    <3> QED BY <3>2, <3>3, <3>4
  <2>2. CASE ReaderEOF
    BY <2>2 DEF ReaderEOF, ovpnVars
  <2>3. CASE ReaderReset \/ ReaderPanics
    BY <1>1, <2>3 DEF ReaderReset, ReaderPanics, ovpnVars, ReplyHeld
  <2>4. CASE ReaderDrops
    BY <2>4 DEF ReaderDrops, ovpnVars
  <2> QED BY <1>5, <2>1, <2>2, <2>3, <2>4 DEF Reader
<1>6. CASE Run
  <2>1. CASE HoldSeen \/ HoldRelease
    <3>1. PICK verb \in OwnVerbs : SubmitOwn(verb)
      BY <2>1 DEF HoldSeen, HoldRelease, OwnVerbs
    <3>2. ovpn' = ovpn /\ run.pc # "await"
      BY <2>1 DEF HoldSeen, HoldRelease, ovpnVars
    <3>3. PICK command \in Command : ovpn # "exited" /\ socket' = Append(socket, command)
      BY <3>1, <3>2, SubmittedOwn DEF ShapeInv
    <3> QED BY <3>2, <3>3, ReplyWritten DEF ShapeInv, TypeOK
  <2>2. CASE HoldMissed
    BY <1>1, <2>2 DEF HoldMissed, ovpnVars, ReplyHeld
  <2>3. CASE DeliverReply \/ ReplyClosed
    BY <2>3, ReplyCame
  <2>4. CASE RunStops
    BY <2>4 DEF RunStops, ShapeInv, TypeOK
  <2> QED BY <1>6, <2>1, <2>2, <2>3, <2>4 DEF Run
<1>7. CASE Handler
  <2>1. CASE DeliverEvent
    BY <1>1, <2>1 DEF DeliverEvent, Sending, ReplyHeld, ovpnVars
  <2>2. CASE HandlerStops \/ ExecPanics
    BY <1>1, <2>2 DEF HandlerStops, ExecPanics, ReplyHeld, ovpnVars
  <2>3. CASE ExecCommand
    <3>1. /\ run'.command \in Command
          /\ socket' = Append(socket, run'.command) /\ ovpn # "exited"
      BY <2>3, Executed
    <3>2. ovpn' = ovpn
      BY <2>3 DEF ExecCommand, ovpnVars
    <3> QED BY <3>1, <3>2, ReplyWritten DEF ShapeInv, TypeOK
  <2>4. CASE Respond
    BY <2>4 DEF Respond, ShapeInv, TypeOK
  <2> QED BY <1>7, <2>1, <2>2, <2>3, <2>4 DEF Handler
<1>8. CASE Main \/ Shutdown
  <2>1. CASE DeliverState
    BY <1>1, <2>1 DEF DeliverState, Sending, ReplyHeld, ovpnVars
  <2>2. CASE BootFails \/ Serve \/ WaitOpenVPN \/ ShutdownReturns \/ Shutdown
    BY <1>1, <2>2
    DEF BootFails, Serve, WaitOpenVPN, ShutdownReturns, Shutdown, ReplyHeld, ovpnVars
  <2> QED BY <1>8, <2>1, <2>2 DEF Main
<1>9. CASE UNCHANGED vars
  BY <1>1, <1>9 DEF vars, ovpnVars, ReplyHeld
<1> QED BY <1>3, <1>4, <1>5, <1>6, <1>7, <1>8, <1>9 DEF Next, Process

-----------------------------------------------------------------------------
(* >HOLD comes first and alone.                                            *)
LEMMA HoldInit == Init => HoldFirst
BY DEF Init, HoldFirst

LEMMA HoldKept ==
    ASSUME HoldFirst, UNCHANGED <<ovpn, wire, socket, reader>> PROVE HoldFirst'
BY DEF HoldFirst

LEMMA HoldStep == ASSUME ShapeInv, QueueVerbs, HoldFirst, [Next]_vars PROVE HoldFirst'
<1>1. ASSUME NEW line \in Line, line.kind # "hold", wire' = Append(wire, line),
             ovpn = "up", UNCHANGED <<ovpn, socket, reader>>
      PROVE  HoldFirst'
  <2>1. \A i \in 1..Len(wire') : wire'[i].kind = "hold" =>
            i \in 1..Len(wire) /\ wire[i].kind = "hold"
    BY <1>1, WireKept DEF ShapeInv, TypeOK
  <2> QED BY <1>1, <2>1 DEF HoldFirst
<1>2. CASE Speak
  <2>1. ASSUME NEW name \in {"OTHER", "CONNECTED"}, OvState(name) PROVE HoldFirst'
    <3>1. [kind |-> "state", name |-> name, cid |-> None] \in Line
      BY DEF Line
    <3> QED BY <1>1, <2>1, <3>1 DEF OvState, MaySpeak, Write
  <2>2. ASSUME NEW c \in Clients, OvConnect(c) PROVE HoldFirst'
    <3>1. [kind |-> "event", name |-> "CONNECT", cid |-> c] \in Line
      BY DEF Line
    <3> QED BY <1>1, <2>2, <3>1 DEF OvConnect, MaySpeak, Write
  <2>3. ASSUME NEW c \in Clients, OvDisconnect(c) PROVE HoldFirst'
    <3>1. [kind |-> "event", name |-> "DISCONNECT", cid |-> c] \in Line
      BY DEF Line
    <3> QED BY <1>1, <2>3, <3>1 DEF OvDisconnect, MaySpeak, Write
  <2>4. CASE OvHold
    <3>1. [kind |-> "hold", name |-> "OTHER", cid |-> None] \in Line
      BY DEF Line
    <3>2. wire = <<>> /\ reader.pc = "unstarted" /\ socket = <<>>
      BY <2>4 DEF OvHold, HoldFirst
    <3>3. Len(wire') = 1
      BY <2>4, <3>1, <3>2 DEF OvHold, Write
    <3>4. ovpn' = "held" /\ UNCHANGED <<socket, reader>>
      BY <2>4 DEF OvHold
    <3> QED BY <3>2, <3>3, <3>4 DEF HoldFirst
  <2>5. CASE OvDial
    BY <2>5 DEF OvDial, HoldFirst
  <2>6. CASE OvExit
    BY <2>6 DEF OvExit, HoldFirst
  <2> QED BY <1>2, <2>1, <2>2, <2>3, <2>4, <2>5, <2>6 DEF Speak
<1>3. CASE OvExecute
  <2>1. /\ reader.pc # "unstarted" /\ reader' = reader
        /\ ovpn' \notin {"launched", "dialed"}
    BY <1>3 DEF OvExecute, HoldFirst
  <2> DEFINE command == Head(socket)
             reply == [kind |-> "reply", name |-> command.verb, cid |-> command.cid]
  <2>2. socket \in Seq(Command) /\ socket # <<>> /\ wire \in Seq(Line)
    BY <1>3 DEF OvExecute, ShapeInv, TypeOK
  <2>3. command \in Command
    BY <2>2
  <2>4. reply \in Line /\ reply.kind # "hold" /\ wire' = Append(wire, reply)
    BY <1>3, <2>3 DEF OvExecute, Write, Line, Command
  <2> HIDE DEF reply
  <2>5. \A i \in 1..Len(wire') : wire'[i].kind = "hold" =>
            i \in 1..Len(wire) /\ wire[i].kind = "hold"
    BY <2>2, <2>4, WireKept
  <2> QED BY <2>1, <2>5 DEF HoldFirst
<1>4. CASE Reader
  <2>1. CASE ReaderRead
    <3>1. /\ wire \in Seq(Line) /\ wire # <<>> /\ wire' = Tail(wire)
          /\ reader.pc = "read" /\ reader' = [pc |-> "send", line |-> Head(wire)]
          /\ UNCHANGED <<ovpn, socket>>
      BY <2>1 DEF ReaderRead, ShapeInv, TypeOK, ovpnVars
    <3>2. \A i \in 1..Len(wire) : wire[i].kind # "hold"
      BY <3>1 DEF HoldFirst
    <3>3. \A i \in 1..Len(wire') : wire'[i].kind # "hold"
      BY <3>1, <3>2, WireMoved
    <3>4. Head(wire).kind # "hold"
      BY <3>1, <3>2, WireMoved
    <3> QED BY <3>1, <3>3, <3>4 DEF HoldFirst
  <2>2. CASE ReaderEOF
    <3>1. reader'.pc = "done" /\ ovpn' = "exited" /\ wire' = <<>>
      BY <2>2 DEF ReaderEOF, ovpnVars, ShapeInv, TypeOK
    <3> QED BY <3>1 DEF HoldFirst
  <2>3. CASE ReaderReset \/ ReaderPanics
    BY <2>3, HoldKept DEF ReaderReset, ReaderPanics, ovpnVars
  <2>4. CASE ReaderDrops
    <3>1. reader.pc = "read" /\ reader' = reader /\ ovpn' = "exited" /\ wire' = <<>>
      BY <2>4 DEF ReaderDrops, ovpnVars
    <3> QED BY <3>1 DEF HoldFirst
  <2> QED BY <1>4, <2>1, <2>2, <2>3, <2>4 DEF Reader
<1>5. ASSUME reader'.pc = "read", reader.pc # "unstarted", UNCHANGED <<ovpn, wire>>
      PROVE  HoldFirst'
  BY <1>5 DEF HoldFirst
<1>6. ASSUME reader.pc # "unstarted", UNCHANGED <<ovpn, wire, reader>>
      PROVE  HoldFirst'
  BY <1>6 DEF HoldFirst
<1>7. CASE Run
  <2>1. CASE HoldSeen
    <3>1. /\ wire \in Seq(Line) /\ wire # <<>> /\ wire' = Tail(wire) /\ ovpn' = ovpn
          /\ run.pc = "hold" /\ panic = None /\ reader'.pc = "read"
      BY <2>1 DEF HoldSeen, Alive, ShapeInv, TypeOK, ovpnVars
    <3>2. Len(wire) <= 1 /\ ovpn \notin {"launched", "dialed", "up"}
      BY <3>1 DEF HoldFirst, ShapeInv, ReaderUnstarted
    <3>3. Len(wire') = 0
      BY <3>1, <3>2, WireMoved
    <3> QED BY <3>1, <3>2, <3>3 DEF HoldFirst
  <2>2. CASE HoldMissed
    BY <2>2, HoldKept DEF HoldMissed, ovpnVars
  <2>3. CASE DeliverReply
    BY <1>5, <2>3 DEF DeliverReply, Sending, ReaderSent, ovpnVars
  <2>4. CASE ReplyClosed \/ RunStops
    BY <2>4, HoldKept DEF ReplyClosed, RunStops, ovpnVars
  <2>5. CASE HoldRelease
    BY <1>6, <2>5 DEF HoldRelease, Alive, ShapeInv, ReaderUnstarted, ovpnVars
  <2> QED BY <1>7, <2>1, <2>2, <2>3, <2>4, <2>5 DEF Run
<1>8. CASE Handler
  <2>1. CASE DeliverEvent
    BY <1>5, <2>1 DEF DeliverEvent, Sending, ReaderSent, ovpnVars
  <2>2. CASE HandlerStops \/ ExecPanics \/ Respond
    BY <2>2, HoldKept DEF HandlerStops, ExecPanics, Respond, ovpnVars
  <2>3. CASE ExecCommand
    BY <1>6, <2>3 DEF ExecCommand, Alive, ShapeInv, ReaderUnstarted, ovpnVars
  <2> QED BY <1>8, <2>1, <2>2, <2>3 DEF Handler
<1>9. CASE Main \/ Shutdown
  <2>1. CASE DeliverState
    BY <1>5, <2>1 DEF DeliverState, Sending, ReaderSent, ovpnVars
  <2>2. CASE BootFails \/ Serve \/ WaitOpenVPN \/ ShutdownReturns \/ Shutdown
    BY <2>2, HoldKept DEF BootFails, Serve, WaitOpenVPN, ShutdownReturns, Shutdown, ovpnVars
  <2> QED BY <1>9, <2>1, <2>2 DEF Main
<1>10. CASE UNCHANGED vars
  BY <1>10, HoldKept DEF vars, ovpnVars
<1> QED BY <1>2, <1>3, <1>4, <1>7, <1>8, <1>9, <1>10 DEF Next, Process

-----------------------------------------------------------------------------
(* Nothing unasked is read before the reply to `hold release`.             *)
LEMMA ReleasedInit == Init => ReleasedFirst
BY DEF Init, ReleasedFirst

LEMMA ReleasedKept ==
    ASSUME ReleasedFirst, ~Past, UNCHANGED <<ovpn, wire, reader, run>>,
           main' \in {main, "failed"}
    PROVE  ReleasedFirst'
<1>1. ~Past' /\ \A i : Behind(i)' <=> Behind(i)
  BY DEF Past, Behind, ReplyHeld, ReplyOn
<1>2. /\ main' \in {"boot", "failed"}
      /\ ~(reader'.pc = "send" /\ Spoken(reader.line))
      /\ ovpn' = "up" => Behind(Len(wire) + 1)
      /\ \A i \in 1..Len(wire) : Spoken(wire[i]) => Behind(i)
  BY DEF ReleasedFirst
<1>3. UNCHANGED <<Spoken(reader.line), Len(wire)>>
      /\ \A i : UNCHANGED Spoken(wire[i])
  BY DEF Spoken
<1>4. ovpn' = "up" => Behind(Len(wire) + 1)'
  BY <1>1, <1>2, <1>3 DEF Behind, ReplyHeld, ReplyOn
<1> QED BY <1>1, <1>2, <1>3, <1>4 DEF ReleasedFirst

(* Where nothing is due to be released.                                    *)
LEMMA NothingSpoken ==
    ASSUME main' \in {"boot", "failed"}, ovpn' # "up",
           reader'.pc = "send" => ~Spoken(reader'.line),
           \A i \in 1..Len(wire') : ~Spoken(wire'[i])
    PROVE  ReleasedFirst'
BY DEF ReleasedFirst, Spoken

(* OpenVPN speaks unasked: behind the reply that releases it.              *)
LEMMA SpokenBehind ==
    ASSUME ShapeInv, ReleasedFirst, ~Past, NEW line \in Line, ovpn = "up",
           wire' = Append(wire, line), UNCHANGED <<ovpn, reader, run, main>>
    PROVE  ReleasedFirst'
<1>1. /\ Len(wire') = Len(wire) + 1 /\ Len(wire) \in Nat
      /\ \A i \in 1..Len(wire) : wire'[i] = wire[i]
      /\ \A i : ReplyOn(i) => ReplyOn(i)'
  BY WireKept DEF ShapeInv, TypeOK
<1>2. Behind(Len(wire) + 1) /\ main' \in {"boot", "failed"}
      /\ ~(reader'.pc = "send" /\ Spoken(reader.line))
  BY DEF ReleasedFirst
<1>3. PICK j : ReplyHeld \/ (j \in 1..Len(wire) /\ ReplyOn(j))
  BY <1>2 DEF Behind, ReplyOn
<1>4. ReplyHeld' \/ (j \in 1..Len(wire) /\ ReplyOn(j)')
  BY <1>1, <1>3 DEF ReplyHeld
<1>5. ASSUME NEW n \in Nat, n > Len(wire) PROVE Behind(n)'
  <2>1. j \in 1..Len(wire) => j < n
    BY <1>1, <1>5
  <2> QED BY <1>2, <1>4, <2>1 DEF Behind
<1>6. ASSUME NEW i \in 1..Len(wire), Spoken(wire[i]) PROVE Behind(i)'
  <2>1. Behind(i)
    BY <1>6 DEF ReleasedFirst
  <2> QED BY <1>1, <2>1 DEF Behind, ReplyHeld
<1>7. PICK n \in Nat : n = Len(wire) + 1
  BY <1>1
<1>8. ASSUME NEW i \in 1..Len(wire'), Spoken(wire'[i]) PROVE Behind(i)'
  <2>1. CASE i \in 1..Len(wire)
    BY <1>1, <1>6, <1>8, <2>1
  <2>2. CASE i = n
    BY <1>1, <1>5, <1>7, <2>2
  <2> QED BY <1>1, <1>7, <2>1, <2>2
<1>9. PICK m \in Nat : m = Len(wire') + 1
  BY <1>1
<1>10. Behind(m)'
  BY <1>1, <1>5, <1>9
<1>11. Behind(Len(wire) + 1)'
  BY <1>9, <1>10
<1>12. ~(reader'.pc = "send" /\ Spoken(reader.line)')
  BY <1>2 DEF Spoken
<1>13. \A i \in 1..Len(wire') : Spoken(wire[i])' => Behind(i)'
  BY <1>8 DEF Spoken
<1> QED BY <1>2, <1>11, <1>12, <1>13 DEF ReleasedFirst

(* The reader takes the next line.                                         *)
LEMMA ReadBehind ==
    ASSUME ShapeInv, ReleasedFirst, ~Past, ReaderRead PROVE ReleasedFirst'
<1>1. /\ wire \in Seq(Line) /\ wire # <<>> /\ wire' = Tail(wire)
      /\ reader.pc = "read" /\ reader' = [pc |-> "send", line |-> Head(wire)]
      /\ UNCHANGED <<ovpn, run, main>>
  BY DEF ReaderRead, ShapeInv, TypeOK, ovpnVars
<1>2. /\ Len(wire') = Len(wire) - 1 /\ Len(wire) \in Nat \ {0}
      /\ \A i \in 1..Len(wire') : wire'[i] = wire[i + 1] /\ i + 1 \in 1..Len(wire)
      /\ Head(wire) = wire[1]
      /\ \A i : ReplyOn(i) => i = 1 \/ (i - 1 \in Nat \ {0} /\ ReplyOn(i - 1)')
  BY <1>1, WireMoved
<1>3. ReplyOn(1) => ReplyHeld'
  BY <1>1, <1>2 DEF ReplyOn, ReplyHeld
<1>4. ASSUME NEW n \in Nat, Behind(n + 1) PROVE Behind(n)'
  <2>1. PICK j : j < n + 1 /\ ReplyOn(j)
    BY <1>1, <1>4 DEF Behind, ReplyHeld
  <2> j \in 1..Len(wire)
    BY <2>1 DEF ReplyOn
  <2>2. CASE j = 1
    BY <1>1, <1>3, <1>4, <2>1, <2>2 DEF Behind
  <2>3. CASE j # 1
    <3>1. PICK k : k = j - 1
      OBVIOUS
    <3>2. k < n /\ ReplyOn(k)'
      BY <1>2, <2>1, <2>3, <3>1
    <3>3. run'.pc = "await" /\ run'.command.verb = "hold release"
      BY <1>1, <1>4 DEF Behind
    <3> QED BY <3>2, <3>3 DEF Behind
  <2> QED BY <2>2, <2>3
<1>5. ~Spoken(Head(wire))
  <2>1. SUFFICES ASSUME Spoken(wire[1]) PROVE FALSE
    BY <1>2
  <2>2. Behind(1)
    BY <1>2, <2>1 DEF ReleasedFirst
  <2>3. PICK j : j < 1 /\ j \in 1..Len(wire)
    BY <1>1, <2>2 DEF Behind, ReplyHeld, ReplyOn
  <2> QED BY <1>2, <2>3
<1>6. main' \in {"boot", "failed"}
  BY <1>1 DEF ReleasedFirst
<1>7. ovpn' = "up" => Behind(Len(wire) + 1)'
  <2>1. PICK n \in Nat : n = Len(wire)
    BY <1>2
  <2>2. ovpn = "up" => Behind(n + 1)
    BY <2>1 DEF ReleasedFirst
  <2>3. ovpn = "up" => Behind(n)'
    BY <1>4, <2>2
  <2>4. n = Len(wire') + 1
    BY <1>2, <2>1
  <2> QED BY <1>1, <2>3, <2>4
<1>8. \A i \in 1..Len(wire') : Spoken(wire[i])' => Behind(i)'
  <2>1. SUFFICES ASSUME NEW i \in 1..Len(wire'), Spoken(wire[i + 1]) PROVE Behind(i)'
    BY <1>2 DEF Spoken
  <2>2. Behind(i + 1)
    BY <1>2, <2>1 DEF ReleasedFirst
  <2> QED BY <1>2, <1>4, <2>2
<1>9. ~Spoken(reader.line)'
  BY <1>1, <1>5 DEF Spoken
<1> QED BY <1>6, <1>7, <1>8, <1>9 DEF ReleasedFirst

(* While a reply is due nothing is behind one.                             *)
LEMMA ExecutedReleased ==
    ASSUME ShapeInv, ReplyInv, ReleasedFirst, ~Past, OvExecute PROVE ReleasedFirst'
<1> DEFINE command == Head(socket)
           reply == [kind |-> "reply", name |-> command.verb, cid |-> command.cid]
<1>1. /\ socket \in Seq(Command) /\ socket # <<>> /\ wire \in Seq(Line)
      /\ ovpn # "exited" /\ UNCHANGED <<reader, run, main>>
  BY DEF OvExecute, ShapeInv, TypeOK
<1>2. ReplyDue(1) /\ socket[1] = command
  <2>1. 1 \in 1..Len(socket) /\ socket[1] = command
    BY <1>1
  <2> QED BY <1>1, <2>1 DEF ReplyDue
<1>3. run.pc = "await" /\ command = run.command /\ ~ReplyHeld /\ \A i : ~ReplyOn(i)
  BY <1>2 DEF ReplyInv, RepliesAwaited, OneReply
<1>4. /\ ovpn # "up" /\ \A i \in 1..Len(wire) : ~Spoken(wire[i])
      /\ main' \in {"boot", "failed"}
      /\ reader.pc = "send" => ~Spoken(reader.line)
  BY <1>1, <1>3 DEF ReleasedFirst, Behind
<1>5. reply \in Line /\ reply.kind = "reply" /\ wire' = Append(wire, reply)
  <2>1. command \in Command
    BY <1>1
  <2> QED BY <2>1 DEF OvExecute, Write, Line, Command
<1> HIDE DEF reply, command
<1>6. /\ Len(wire') = Len(wire) + 1 /\ Len(wire) \in Nat
      /\ \A i \in 1..Len(wire) : wire'[i] = wire[i]
      /\ wire'[Len(wire) + 1] = reply
  BY <1>1, <1>5, WireKept
<1>7. \A i \in 1..Len(wire') : ~Spoken(wire'[i])
  BY <1>4, <1>5, <1>6 DEF Spoken
<1>8. CASE ovpn' # "up"
  <2>1. reader'.pc = "send" => ~Spoken(reader'.line)
    BY <1>1, <1>4
  <2> QED BY <1>4, <1>7, <1>8, <2>1, NothingSpoken
<1>9. CASE ovpn' = "up"
  <2>1. run'.pc = "await" /\ run'.command.verb = "hold release"
    <3>1. command.verb = "hold release"
      BY <1>4, <1>9 DEF OvExecute, command
    <3> QED BY <1>1, <1>3, <3>1
  <2>2. PICK n \in Nat : n = Len(wire) + 1
    BY <1>6
  <2>3. ReplyOn(n)'
    BY <1>5, <1>6, <2>2 DEF ReplyOn
  <2>4. n \in 1..Len(wire')
    BY <1>6, <2>2
  <2>5. Behind(Len(wire) + 1)'
    <3>1. n < Len(wire') + 1
      BY <1>6, <2>4
    <3> QED BY <2>1, <2>3, <3>1 DEF Behind
  <2>6. \A i \in 1..Len(wire') : ~Spoken(wire[i])'
    BY <1>7 DEF Spoken
  <2>7. reader'.pc = "send" => ~Spoken(reader.line)'
    BY <1>1, <1>4 DEF Spoken
  <2> QED BY <1>4, <2>5, <2>6, <2>7 DEF ReleasedFirst
<1> QED BY <1>8, <1>9

LEMMA ReleasedStep ==
    ASSUME ShapeInv, KilledInv, KilledPast, QueueVerbs, HoldFirst, ReleasedFirst, [Next]_vars
    PROVE  ReleasedFirst'
<1>1. CASE Past'
  BY <1>1 DEF ReleasedFirst
<1> SUFFICES ASSUME ~Past' PROVE ReleasedFirst'
  BY <1>1
<1>2. ~Past
  BY PastKept
<1>3. /\ main \in {"boot", "failed"}
      /\ reader.pc = "send" => ~Spoken(reader.line)
      /\ ovpn = "up" => Behind(Len(wire) + 1)
      /\ \A i \in 1..Len(wire) : Spoken(wire[i]) => Behind(i)
  BY <1>2 DEF ReleasedFirst
<1>4. ASSUME ~(run.pc = "await" /\ run.command.verb = "hold release")
      PROVE  ovpn # "up" /\ \A i \in 1..Len(wire) : ~Spoken(wire[i])
  BY <1>3, <1>4 DEF Behind
<1>5. CASE Speak
  <2>1. ASSUME NEW name \in {"OTHER", "CONNECTED"}, OvState(name) PROVE ReleasedFirst'
    <3>1. [kind |-> "state", name |-> name, cid |-> None] \in Line
      BY DEF Line
    <3> QED BY <1>2, <2>1, <3>1, SpokenBehind DEF OvState, MaySpeak, Write
  <2>2. ASSUME NEW c \in Clients, OvConnect(c) PROVE ReleasedFirst'
    <3>1. [kind |-> "event", name |-> "CONNECT", cid |-> c] \in Line
      BY DEF Line
    <3> QED BY <1>2, <2>2, <3>1, SpokenBehind DEF OvConnect, MaySpeak, Write
  <2>3. ASSUME NEW c \in Clients, OvDisconnect(c) PROVE ReleasedFirst'
    <3>1. [kind |-> "event", name |-> "DISCONNECT", cid |-> c] \in Line
      BY DEF Line
    <3> QED BY <1>2, <2>3, <3>1, SpokenBehind DEF OvDisconnect, MaySpeak, Write
  <2>4. CASE OvDial
    <3>1. /\ wire' = <<>> /\ reader'.pc = "unstarted" /\ ovpn' = "dialed" /\ main' = main
      BY <2>4 DEF OvDial, HoldFirst
    <3> QED BY <1>3, <3>1, NothingSpoken
  <2>5. CASE OvHold
    <3> DEFINE line == [kind |-> "hold", name |-> "OTHER", cid |-> None]
    <3>1. line \in Line /\ ~Spoken(line)
      BY DEF Line, Spoken
    <3>2. /\ wire = <<>> /\ wire' = Append(wire, line)
          /\ reader'.pc = "unstarted" /\ ovpn' = "held" /\ main' = main
      BY <2>5 DEF OvHold, HoldFirst, Write
    <3> HIDE DEF line
    <3>3. Len(wire') = 1 /\ wire'[1] = line
      BY <3>1, <3>2
    <3>4. \A i \in 1..Len(wire') : ~Spoken(wire'[i])
      BY <3>1, <3>3
    <3> QED BY <1>3, <3>2, <3>4, NothingSpoken
  <2>6. CASE OvExit
    <3>1. ovpn' = "exited" /\ UNCHANGED <<wire, reader, run, main>>
      BY <2>6 DEF OvExit
    <3>2. \A i : Behind(i)' <=> Behind(i)
      BY <3>1 DEF Behind, ReplyHeld, ReplyOn
    <3> QED BY <1>3, <3>1, <3>2 DEF ReleasedFirst, Spoken
  <2> QED BY <1>5, <2>1, <2>2, <2>3, <2>4, <2>5, <2>6 DEF Speak
<1>6. CASE OvExecute
  BY <1>2, <1>6, ExecutedReleased DEF KilledInv, KilledPast
<1>7. CASE Reader
  <2>1. CASE ReaderRead
    BY <1>2, <2>1, ReadBehind
  <2>2. CASE ReaderEOF
    <3>1. reader'.pc = "done" /\ ovpn' = "exited" /\ wire' = <<>> /\ main' = main
      BY <2>2 DEF ReaderEOF, ovpnVars, ShapeInv, TypeOK
    <3> QED BY <1>3, <3>1, NothingSpoken
  <2>3. CASE ReaderReset \/ ReaderPanics
    BY <1>2, <2>3, ReleasedKept DEF ReaderReset, ReaderPanics, ovpnVars
  <2>4. CASE ReaderDrops
    <3>1. reader'.pc = "read" /\ ovpn' = "exited" /\ wire' = <<>> /\ main' = main
      BY <2>4 DEF ReaderDrops, ovpnVars
    <3> QED BY <1>3, <3>1, NothingSpoken
  <2> QED BY <1>7, <2>1, <2>2, <2>3, <2>4 DEF Reader
<1>8. CASE Run
  <2>1. CASE HoldSeen
    <3>1. /\ wire \in Seq(Line) /\ wire # <<>> /\ wire' = Tail(wire) /\ ovpn' = ovpn
          /\ run.pc = "hold" /\ panic = None /\ reader'.pc = "read" /\ main' = main
      BY <2>1 DEF HoldSeen, Alive, ShapeInv, TypeOK, ovpnVars
    <3>2. Len(wire) <= 1 /\ ovpn # "up"
      BY <3>1 DEF HoldFirst, ShapeInv, ReaderUnstarted
    <3>3. Len(wire') = 0
      BY <3>1, <3>2, WireMoved
    <3> QED BY <1>3, <3>1, <3>2, <3>3, NothingSpoken
  <2>2. CASE HoldMissed
    BY <1>2, <2>2, ReleasedKept DEF HoldMissed, ovpnVars
  <2>3. CASE DeliverReply \/ ReplyClosed
    <3>1. run.pc = "await" /\ run.command.verb # "hold release"
          /\ UNCHANGED <<ovpn, wire, main>>
      BY <2>3, ReplyCame DEF Past
    <3>2. reader' = reader \/ reader'.pc = "read"
      BY <2>3 DEF DeliverReply, ReplyClosed, ReaderSent
    <3> QED BY <1>3, <1>4, <3>1, <3>2, NothingSpoken
  <2>4. CASE HoldRelease
    <3>1. run.pc = "release" /\ UNCHANGED <<ovpn, wire, reader, main>>
      BY <2>4 DEF HoldRelease, ovpnVars
    <3> QED BY <1>3, <1>4, <3>1, NothingSpoken
  <2>5. CASE RunStops
    BY <1>2, <2>5 DEF RunStops, Past
  <2> QED BY <1>8, <2>1, <2>2, <2>3, <2>4, <2>5 DEF Run
<1>9. CASE Handler
  <2>1. CASE DeliverEvent
    BY <1>3, <2>1 DEF DeliverEvent, Sending, Spoken
  <2>2. CASE HandlerStops \/ ExecPanics
    BY <1>2, <2>2, ReleasedKept DEF HandlerStops, ExecPanics, ovpnVars
  <2>3. CASE ExecCommand \/ Respond
    BY <1>2, <2>3 DEF ExecCommand, Respond, Past
  <2> QED BY <1>9, <2>1, <2>2, <2>3 DEF Handler
<1>10. CASE Main \/ Shutdown
  <2>1. CASE DeliverState
    BY <1>3, <2>1 DEF DeliverState, Sending, Spoken
  <2>2. CASE BootFails
    BY <1>2, <2>2, ReleasedKept DEF BootFails, ovpnVars
  <2>3. CASE Serve \/ WaitOpenVPN \/ ShutdownReturns \/ Shutdown
    BY <1>3, <2>3 DEF Serve, WaitOpenVPN, ShutdownReturns, Shutdown
  <2> QED BY <1>10, <2>1, <2>2, <2>3 DEF Main
<1>11. CASE UNCHANGED vars
  BY <1>2, <1>11, ReleasedKept DEF vars, ovpnVars
<1> QED BY <1>5, <1>6, <1>7, <1>8, <1>9, <1>10, <1>11 DEF Next, Process

-----------------------------------------------------------------------------
LEMMA KilledPastStep == ASSUME ShapeInv, QueueVerbs, KilledPast, [Next]_vars PROVE KilledPast'
<1>1. CASE killed
  BY <1>1, PastKept DEF KilledPast
<1>2. CASE killed' = killed
  BY <1>1, <1>2 DEF KilledPast
<1>3. CASE ExecCommand
  BY <1>3, Executed DEF KilledPast, Past
<1>4. CASE Speak \/ OvExecute
  BY <1>2, <1>4
  DEF Speak, OvState, OvConnect, OvDisconnect, OvDial, OvHold, OvExit, OvExecute
<1>5. CASE Reader
  BY <1>2, <1>5 DEF Reader, ReaderRead, ReaderEOF, ReaderReset, ReaderDrops, ReaderPanics
<1>6. CASE Run
  BY <1>2, <1>6 DEF Run, HoldSeen, HoldMissed, DeliverReply, ReplyClosed, HoldRelease, RunStops
<1>7. CASE DeliverEvent \/ HandlerStops \/ ExecPanics \/ Respond
  BY <1>2, <1>7 DEF DeliverEvent, HandlerStops, ExecPanics, Respond
<1>8. CASE Main \/ Shutdown
  BY <1>2, <1>8
  DEF Main, DeliverState, BootFails, Serve, WaitOpenVPN, ShutdownReturns, Shutdown
<1>9. CASE UNCHANGED vars
  BY <1>2, <1>9 DEF vars
<1> QED BY <1>3, <1>4, <1>5, <1>6, <1>7, <1>8, <1>9 DEF Next, Process, Handler

LEMMA StallInit == Init => StallInv
<1>1. Init => ReplyComing /\ KilledPast
  BY DEF Init, ReplyComing, KilledPast
<1> QED BY <1>1, QueueInit, HoldInit, ReleasedInit DEF StallInv

LEMMA StallStep == ASSUME ShapeInv, KilledInv, StallInv, [Next]_vars PROVE StallInv'
BY HandlerStep, ComingStep, HoldStep, ReleasedStep, KilledPastStep DEF StallInv, HandlerInv

(* Who moves next, by where the handler and the reader are.                *)
LEMMA StallsKnown ==
    ShapeInv /\ StallInv => OnlyKnownStalls
<1> SUFFICES ASSUME ShapeInv, StallInv, Alive,
                    handler.pc \in {"exec", "response"}, ~GoesOn
             PROVE  Wedged \/ StateStuck
  BY DEF OnlyKnownStalls
<1>1. main \notin {"boot", "failed", "stopped"} /\ panic = None
  BY DEF Alive, ShapeInv, HandlerUnstarted
<1>2. Past
  BY <1>1 DEF StallInv, ReleasedFirst
<1>3. CASE handler.pc = "exec"
  <2>1. run.pc # "loop" /\ "cmd" \notin closed
    BY <1>3 DEF GoesOn
  <2>2. run.pc # "done"
    BY <2>1 DEF StallInv, HandlerInv, EndsClosed
  <2> QED BY <1>2, <1>3, <2>1, <2>2 DEF Past, StallInv, HandlerInv, ForHandler
<1>4. CASE handler.pc = "response"
  <2>1. run.pc = "await"
    BY <1>4 DEF StallInv, HandlerInv, Responding, GoesOn
  <2>2. "read" \notin closed /\ ~Sending("reply")
    BY <2>1 DEF GoesOn
  <2>3. reader.pc \in {"read", "send"}
    <3>1. reader.pc # "done"
      BY <2>2 DEF StallInv, HandlerInv, EndsClosed
    <3>2. reader.pc # "unstarted"
      BY <1>1, <2>1 DEF ShapeInv, ReaderUnstarted
    <3> QED BY <3>1, <3>2 DEF ShapeInv, TypeOK
  <2>4. CASE reader.pc = "send"
    <3>1. reader.line.kind \in {"hold", "state", "event", "reply"}
      BY DEF ShapeInv, TypeOK, Line
    <3>2. reader.line.kind \in {"state", "event"}
      BY <2>2, <2>4, <3>1 DEF Sending, StallInv, HoldFirst
    <3> QED BY <1>1, <1>4, <2>1, <2>4, <3>2 DEF Wedged, StateStuck, Sending
  <2>5. CASE reader.pc = "read"
    <3>1. wire = <<>> /\ ovpn # "exited"
      BY <2>5 DEF GoesOn
    <3>2. socket = <<>>
      BY <3>1 DEF GoesOn
    <3> QED BY <2>1, <2>5, <3>1, <3>2 DEF StallInv, ReplyComing, ReplyHeld, ReplyOn, ReplyDue
  <2> QED BY <2>3, <2>4, <2>5
<1> QED BY <1>3, <1>4

(* The wedge and the >STATE line nobody takes are the only ways in which   *)
(* the handler waits inside ExecCommand with nobody to move who could let  *)
(* it go on (openvpn.go:190-249, 383-399, 414-429), for any number of      *)
(* clients and of lines on the way, and whoever dies or is stopped when.   *)
THEOREM OnlyTheseStalls == Spec => []OnlyKnownStalls
<1>1. Init => KilledInv
  BY ReplyInit DEF KilledInv
<1> QED
  BY <1>1, ShapeInit, ShapeStep, KilledStep, StallInit, StallStep, StallsKnown, PTL DEF Spec

-----------------------------------------------------------------------------
(***************************************************************************)
(* What holds of replies until the first client-kill, and of the end.      *)
(***************************************************************************)
(* The reply passed on to the handler is the reply to the command it       *)
(* waits for (openvpn.go:190-224, 414-424), though replies carry no tag,   *)
(* until the first client-kill: up to then run has one command             *)
(* outstanding, its own or the handler's, and keeps OpenVPN's answer apart *)
(* from the events that come in between.                                   *)
THEOREM RepliesMatch == Spec => []ResponseMatches
<1>1. Init => KilledInv
  BY ReplyInit DEF KilledInv
<1>2. KilledInv /\ StallInv => ResponseMatches
  BY DEF KilledInv, ReplyInv, ReplyNoted, StallInv, HandlerInv, ForHandler, ResponseMatches,
         Answers, OwnVerbs
<1> QED
  BY <1>1, <1>2, ShapeInit, ShapeStep, KilledStep, StallInit, StallStep, PTL DEF Spec

(* A reply that nobody awaits, behind which the reader takes in nothing    *)
(* more, is there only when a client has been killed (manager.go:404-407,  *)
(* openvpn.go:214, 408).                                                   *)
THEOREM SurplusByKills == Spec => []SurplusOnlyByKill
<1>1. Init => KilledInv
  BY ReplyInit DEF KilledInv
<1>2. KilledInv => SurplusOnlyByKill
  BY DEF KilledInv, ReplyInv, RepliesAwaited, SurplusOnlyByKill, Surplus, Sending, ReplyHeld
<1> QED BY <1>1, <1>2, ShapeInit, ShapeStep, KilledStep, PTL DEF Spec

(* A dead process does nothing.                                            *)
LEMMA Dead == ASSUME panic # None, [Next]_vars PROVE UNCHANGED vars
<1> ~Alive
  BY DEF Alive
<1>1. ~Speak /\ ~OvExecute
  BY DEF Speak, OvState, OvConnect, OvDisconnect, MaySpeak, OvDial, OvHold, OvExit, OvExecute
<1>2. ~Reader
  BY DEF Reader, ReaderRead, ReaderEOF, ReaderReset, ReaderDrops, ReaderPanics
<1>3. ~Run
  BY DEF Run, HoldSeen, HoldMissed, DeliverReply, Sending, ReplyClosed, HoldRelease, RunStops
<1>4. ~Handler
  BY DEF Handler, DeliverEvent, Sending, HandlerStops, ExecCommand, ExecPanics, Respond
<1>5. ~Main /\ ~Shutdown
  BY DEF Main, DeliverState, Sending, BootFails, Serve, WaitOpenVPN, ShutdownReturns, Shutdown
<1> QED BY <1>1, <1>2, <1>3, <1>4, <1>5 DEF Next, Process

LEMMA PanicStep ==
    ASSUME ShapeInv, ClosedInOrder, StallInv, PanicExplained, [Next]_vars PROVE PanicExplained'
<1>1. CASE panic # None
  <2>1. UNCHANGED <<panic, main, ovpn, socket>>
    BY <1>1, Dead DEF vars, ovpnVars
  <2> QED BY <2>1 DEF PanicExplained
<1>2. CASE panic' = None
  BY <1>2 DEF PanicExplained
<1> SUFFICES ASSUME panic = None, panic' # None PROVE PanicExplained'
  BY <1>1, <1>2
<1>3. CASE panic' = panic
  BY <1>3
<1>4. ASSUME Alive, "cmd" \in closed, main' = main PROVE PanicExplained'
  BY <1>4 DEF Alive, ClosedInOrder, PanicExplained
<1>5. ASSUME Alive, run.pc \in {"hold", "release"}, UNCHANGED <<main, ovpn>>, ovpn = "exited"
      PROVE  PanicExplained'
  <2>1. main = "boot"
    BY <1>5 DEF Alive, StallInv, ReleasedFirst, Past
  <2> QED BY <1>5, <2>1 DEF PanicExplained
<1>6. CASE Speak \/ OvExecute
  BY <1>3, <1>6
  DEF Speak, OvState, OvConnect, OvDisconnect, OvDial, OvHold, OvExit, OvExecute
<1>7. CASE Reader
  <2>1. CASE ReaderRead \/ ReaderEOF \/ ReaderDrops
    BY <1>3, <2>1 DEF ReaderRead, ReaderEOF, ReaderDrops
  <2>2. CASE ReaderReset
    <3>1. /\ ovpn = "exited" /\ socket # <<>> /\ panic' = "connection reset"
          /\ UNCHANGED <<ovpn, socket>>
      BY <2>2 DEF ReaderReset, ovpnVars
    <3> QED BY <3>1 DEF PanicExplained
  <2>3. CASE ReaderPanics
    BY <1>4, <2>3 DEF ReaderPanics, ClosedInOrder
  <2> QED BY <1>7, <2>1, <2>2, <2>3 DEF Reader
<1>8. CASE Run
  <2>1. CASE DeliverReply \/ ReplyClosed \/ RunStops
    BY <1>3, <2>1 DEF DeliverReply, ReplyClosed, RunStops
  <2>2. CASE HoldSeen \/ HoldRelease
    <3>1. PICK verb : SubmitOwn(verb)
      BY <2>2 DEF HoldSeen, HoldRelease
    <3>2. ovpn = "exited"
      BY <1>3, <3>1 DEF SubmitOwn
    <3> QED BY <1>5, <2>2, <3>2 DEF HoldSeen, HoldRelease, ovpnVars
  <2>3. CASE HoldMissed
    BY <1>5, <2>3 DEF HoldMissed, ovpnVars
  <2> QED BY <1>8, <2>1, <2>2, <2>3 DEF Run
<1>9. CASE Handler
  <2>1. CASE DeliverEvent \/ HandlerStops \/ ExecCommand \/ Respond
    BY <1>3, <2>1 DEF DeliverEvent, HandlerStops, ExecCommand, Respond
  <2>2. CASE ExecPanics
    BY <1>4, <2>2 DEF ExecPanics
  <2> QED BY <1>9, <2>1, <2>2 DEF Handler
<1>10. CASE Main \/ Shutdown
  BY <1>3, <1>10
  DEF Main, DeliverState, BootFails, Serve, WaitOpenVPN, ShutdownReturns, Shutdown
<1>11. CASE UNCHANGED vars
  BY <1>3, <1>11 DEF vars
<1> QED BY <1>6, <1>7, <1>8, <1>9, <1>10, <1>11 DEF Next, Process

(* A server that is not being stopped dies of nothing it has closed itself *)
(* (openvpn.go:393-399, 416): before it is up, or of the connection that   *)
(* an OpenVPN resets which goes with a command unread.                     *)
THEOREM PanicsExplained == Spec => []PanicExplained
<1>1. Init => KilledInv
  BY ReplyInit DEF KilledInv
<1>2. Init => PanicExplained
  BY DEF Init, PanicExplained
<1> QED
  BY <1>1, <1>2, ShapeInit, ShapeStep, ClosedInit, ClosedStep, KilledStep, StallInit, StallStep,
     PanicStep, PTL DEF Spec
===============================================================================
