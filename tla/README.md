# A verification project for openvpn-aws

openvpn-aws is a Go program that runs an OpenVPN server, tells it over its
management socket whom to let in, keeps the kernel's firewall in step with who
holds which tunnel address, and takes users, keys, groups and networks from AWS
(IAM, S3, EC2, Route 53) or, for testing, from a directory. This directory holds
TLA+ models of its core, the TLC configurations that check them on small
instances, and proofs, checked by TLAPS, of what holds on every instance.
Line numbers refer to the sources under `src/`.

Contents: [the system](#the-system), [the modules](#the-modules),
[the runs](#the-runs), [bounds](#bounds), [fairness](#fairness),
[what is proved](#what-is-proved), [findings](#findings),
[assumptions](#assumptions-about-the-outside),
[what is not modelled](#what-is-not-modelled), [the plan](#the-plan).

## The system

| Component | State | Operations | What makes it correct |
| --- | --- | --- | --- |
| **Client event handler** (`internal/vpn/manager.go`) | `clients`, `userConnections`, the goroutine of `handleEvents` | CONNECT, REAUTH, ADDRESS, DISCONNECT; kill of a superseded connection; authorization, denial | the two maps agree; one session per user; who is killed is superseded; every client gets an answer; the process survives any order of events |
| **OpenVPN channel** (`internal/vpn/openvpn.go`) | the socket, six unbuffered channels, four goroutines | accept OpenVPN, release its hold, read a line and hand it on, write a command, await its reply, shut down | each command's reply is read, and by whoever waits for it; no goroutine waits for ever, for an OpenVPN that has died least of all; shutdown ends |
| **Firewall** (`internal/fw/firewall.go`) | `connections`, `userChains`, the kernel's FORWARD chain and user chains | `ConnectUser`, `DisconnectUser`, `UpdateUser` | what the maps record and what the kernel has differ by no more than the calls that failed; nobody is routed to another user's chain |
| **User manager** (`internal/vpn/config.go`) | `users` (`keyById`, `keyByHash`), `userGroups`, `confFile` | `update` by a timer, `authenticateUser` by the handler | only keys trusted during the request are accepted; an update that fails half way leaves a consistent cache; the cache catches up |
| **Certificate manager** (`internal/ca/ca.go`) | `byHash`, `byName`, the directory `capath` | `Add`, `Remove`, `CheckCertificate` (another process, tls-verify) | every cached key has a certificate filed under the number the index gives, and its holder gets past tls-verify while the directory changes |
| **Configuration file** (`internal/config/configfile.go`, `parser.go`) | none | `Parser.Read`, `ParseConfig`, `GetUserConfig` | a user's routes and settings are those the lines of the user's sections give, wherever in the text they are, but for lines it cannot read |
| **Configuration update** (`updateConfig`, `buildUserConfigs`) | the file in force, the group cache, the chains | poll vpn.conf, networks, groups, keys; apply | what is in force is what was written and assigned, and catches up with it |
| **Boot and server keys** (`BootVPN`, `fetchKeys`, `cmd/openvpn-aws/server.go`) | three files in the bucket | generate and store, or fetch | one server identity, through crashes and concurrent boots |
| **AWS backend** (`internal/config/aws.go`), **local backend** (`local.go`) | none of their own, but for the DNS record | fetch and put, register and unregister a name | what they answer is what is there; the name leads to a server |
| **DNS proxy** (`internal/dns`), **web interface** (`web/src`), **logging** | none that matters to the others | | |

How they interact: OpenVPN writes lines to the management socket; the reader
goroutine hands client events to the handler over `ClientChannel`, which calls
`authenticateUser`, then sends commands through `run` and waits for the replies,
which come back through the same reader. The handler writes `clients` and
`userConnections` under `VPNManager.lock` and calls the firewall. The timer
goroutine replaces parts of the user manager's cache under `userManager.lock`
while `authenticateUser` reads others, both calling the backend in between with
no lock held. The backend is changed by administrators at any moment. A client
reaches `authenticateUser` only after OpenVPN's tls-verify script found its
certificate in `capath`, which the certificate manager writes.

The hard behaviours: three or four goroutines meeting on unbuffered channels;
replies without tags behind unsolicited lines; decisions taken under a lock and
carried out, over a socket, after it; caches refreshed by calls that fail one at
a time; crashes between three puts; two sources of truth (pushed routes and
chains) updated by different paths. PROJECT.json lists each such hazard at its
line with the properties that cover it.

## The modules

**`VPNManager`** - the event handler with the firewall's FORWARD chain, and
OpenVPN as its environment. `clients`, `userConnections`, `fwConnections` are the
Go maps; `forward[a][u]` counts kernel rules; `events` and `commands` are the two
directions of the socket, each a FIFO. OpenVPN answers every command it executes
(`Reply`), client-kill included, and its replies stand in `events` among what it
announces: the handler reads the next line only if it is of the kind it waits for
(`ReceiveReply`, `NextEvent`), as the reader goroutine would have it. `pc` and `job` are the handler's place in
and locals of `authorizeClient`, which is cut where it releases the lock or
writes to the socket: `ReceiveAuth`, `AuthorizeClient`/`DenyClient`,
`RegisterClient` (the whole lock section of lines 380-402), `KillSuperseded`.
`HandleAddress` and `HandleDisconnect` are whole cases of `processClientEvent`
and call `ConnectUser` and `DisconnectUser` as operators over the same state. At the
addresses of `Fallible` any call of iptables may fail, in the middle of either, and a
`--delete` fails wherever there is no such rule. Three history variables say what the
properties judge by: `kills` counts the client-kills, `skew` the rules a failed call
left behind or kept out, `unserved` has the clients whose `ConnectUser` failed. A nil
dereference is `pc = "dead"`.

**`UserSessions`** - the abstract promise: a connection attempt is let in at most
once, and never while another of the same user is in. `VPNManager` implements it
by the mapping `Status` of the session states (`SessionsSpec`).

**`OpenVPNChannel`** - the plumbing of openvpn.go: the goroutines `reader`, `run`,
`handler` and `main` with a program counter each, from the return of
`StartOpenVPN`. OpenVPN has just been launched: it dials the socket (`OvDial`),
waits in its hold (`OvHold`) until `run` releases it, speaks, and may exit at any of these
points. A rendezvous on an unbuffered channel is one step of both ends; `wire`
and `socket` are the two directions of the connection; `closed` and `panic` say
what has been closed and what a send or a read on it did. What an event makes the
handler do is reduced to the commands it sends; `killed` remembers that one was a
client-kill, whose reply OpenVPN gives and nobody awaits. OpenVPN dies with all
commands read, and the reader meets a clean end of file (`ReaderEOF`), or with some
unread, and the connection may be reset (`ReaderReset`), which neither errors.Is call
recognises. A client event is several lines, which the reader takes in one step: on
an OpenVPN that lives it waits for the rest without doing anything else, and the
last, cut short by the death of OpenVPN, is lost (`ReaderDrops`).

**`CertificateManager`** - `Added` and `Removed` as functions of the index
`byHash`/`byName`, one file being the key id it was made for. **`UserManager`**
EXTENDS it: `updateKeys` cut at its calls (`ListKeys`, `FetchKey`, `CallFails`,
`Commit` under the lock, `Remove`) and `authenticateUser` cut at its own
(`LookUp`, `CheckKey`, `Decide`, `Return`), with the administrators' `Upload`,
`Deactivate`, `Activate` and `Delete` between any two steps. `HashMaps` is a set,
because Go iterates over `newKeys` in any order. `weak` are the keys below the
key-strength of the file in force, which each update reads anew (`StartUpdate` takes
any of `WeakSets`).

The process may end and start again at any moment (`Restart`): the cache is
empty then, and the backend is not.

**`TLSVerify`** EXTENDS `UserManager` with the directory `capath` and its other
reader, the process OpenVPN starts for each handshake. `capath[b][i]` is what the
file `b.i` holds, `Unreadable` standing for no file and for no certificate. A file
is written in two steps (`OpenFile`, `CloseFile`) between which it can be read as
either content or as neither, or the write fails (`WriteFails`); `RemoveFile`
changes the index and not the directory, as `Remove` joins its paths wrongly and
drops the error; `RestartOnRoot` finds the directory as it was left. `Start` and
`ReadFile` are `CheckCertificate`, one file a step; a client it accepts is the one
that `LookUp` looks up. `sure`, `gaps` and `renumbered` record what a rejection
has to be judged by. `TLSVerifyProofs` shows that `TLSSpec` implements
`UserManager`'s `Spec`.

**`ConfigFile`** - operators only. A text is a sequence of lines, each of which the
parser can make sense of or not, and whether its last line is terminated.
`Read` is the reader's loop with its look at EOF before the line, `ParseLine` one
turn of `ParseConfig`'s (`Opened` a header, `Said` a statement, `Refused` what ends
it), `GetUserConfig`, `Routes` (addRoute) and `Rules` (updateFirewall) what the
policy makes of the result. Beside them stands a reference that does without parser
and merging: which lines concern a user, by the header above each and whether or not
the parser can read them (`Concerning`), which has the last word (`LastSaid`), what
they open (`OpenedBy`) and what is open without being named (`OpenedAtLarge`).
`AsWritten` holds a policy against that. It admits a difference only where a line that
the parser drops (`Lost`) said something to the point - and says which way it may go:
a lost subnet line may leave every subnet open - or where kept lines with ports narrow
a network that another line opens to every port.

**`AccessPolicy`** EXTENDS it: the update (`StartUpdate`, `SetConfFile`,
`FetchGroup` per group, `EndUpdate`, `UpdateConfig` with its guard as written),
BootVPN's run of the same code (`MakeChain`, `Fail`), and `authenticateUser`'s
group lookup with its fallback to the cache. The history variables `cached`,
`polled` and `requested` record which groups the user held at some and at all
times since whatever last wrote the cache, the update under way and the request
under way began.

**`ServerKeys`** - `fetchKeys` on a shared bucket by several servers, each of which
may die or fail between any two calls (`Exit`). `MakeBundle` .. `PutCA` and
`FetchCert`, `FetchKey` are its calls to the backend. A file's content is the
number of the bundle it belongs to.

**`DNSRegistration`** EXTENDS it: the same servers under one name, of which they
share the record or, with `weighted`, have one each. `Register`, `RegisterFails`,
`ServeUnregistered`, `Stop` and `Unregister` are `RegisterDNS`, `UnregisterDNS` and
their callers; a change whose answer is an error may have been applied. A server
registers only when it serves, and when it goes its registration is forgotten by
everyone but the zone (`ExitRegistered`). `ServerKeysProofs` shows that
`FleetSpec` implements `ServerKeys`' `Spec`.

**`MC...`** modules give the constants their values. **`...Proofs`** modules hold
theorems and lemmas. Operators introduced by "Seeded bug" are not part of any
specification: each is a definition of the module with a plausible mistake, and
PROJECT.json names the property that fails when it takes that definition's place.

Two compositions are by extension, and proved to be refinements: `TLSVerify` of
`UserManager` on `CertificateManager`, and `DNSRegistration` of `ServerKeys`. The
other modules meet at named interfaces. `VPNManager` sees the channel as two FIFOs of
which the handler reads the head if it waits for such a line: what keeps the reader
from getting past a line of the other kind are `OpenVPNChannel`'s `Wedged` and
`Surplus`, and `VPNManager` has states of the same names. `RepliesLagByKills` there and
`ResponseMatches` and `SurplusOnlyByKill` here say the same of the reply to a
client-kill at the two levels. `UserManager` leaves the group decision open (`Decide`)
and `AccessPolicy` makes it; that a user may have no chain, for which `AccessPolicy`
shows when, is one of the reasons for which `VPNManager`'s calls of iptables fail.

## The runs

| Run | What it shows |
| --- | --- |
| `manager` | Registry, socket discipline, firewall and service of addresses for two users (one with two devices), three connection attempts, two addresses - any call of iptables may fail at one of them - and one REAUTH, in every interleaving of clients, OpenVPN and handler: `RegistryConsistent`; `RepliesLagByKills`: the replies unread are one for each client-kill more than the handler waits for; `ForwardMatchesConnections`, `AddressServed`, `StrayExplained`: the chain and the record differ by the calls that failed, a client is served unless its own `ConnectUser` failed, and is on another's chain only after a renegotiation or a failed delete; `KillOnlySuperseded`; `PanicOnlyOfReconnected`: nothing kills the handler but a user who has reconnected; `SessionsSpec`, the refinement of `UserSessions`; and under fairness, while the socket is not stalled, `EveryConnectAnswered` and `RulesDrain`. |
| `manager_panic` | *violation* of `NoPanic`: see finding 1. |
| `manager_reauth` | *violation* of `OnlyOwnChain`: finding 2. |
| `channel` | All interleavings of the four goroutines and an OpenVPN that dies when it likes, cleanly or with commands unread: `ResponseMatches` (until the first client-kill), `OnlyKnownStalls` (of a handler inside `ExecCommand`), `SurplusOnlyByKill`, `PanicExplained`, and under fairness `BootReleased`, `EventsServed` (of every event announced, wherever on the socket it is), `HandlerReleased`, `ShutdownEnds`. |
| `channel_wedge` | *violation* of `NoWedge`: finding 3. |
| `users` | One user, three keys (two of one material, one below the key-strength of some files), four administrators' changes, a key-strength that may be another at each update, restarts: `MapsInverse`, `AuthSound`, `TrustedKeyReachable`, `CertificatesFiled`. |
| `users_crash` | *violation* of `NoPanic`: finding 4. |
| `tls_verify` | Three keys of two subjects in one bucket, two changes, handshakes and restarts between any two writes: `FilesInPlace`, `RejectedExplained`. |
| `servers` | Three servers, four boots, one name: `OneIdentity`, `StaysSettled`, `RefusedExplained`, `StoredUnlessBroken`, `RegisteredFound`. |
| `dns_unregistered` | *violation* of `NameLeadsToServers`: finding 5. |
| `policy` | `RulesOfPolicy` (parser, GetUserConfig and chain against what all lines of the text say, for every set of groups of every text), `AccessExplained`, `PolicyConverges`. |
| `policy_enforced` | *violation* of `PolicyEnforced`: finding 6. |

Every run that passes also checks the type invariant of its module (`servers` both
`TypeOK` and `FleetTypeOK`). Deadlock is not checked: each of these systems may
stop - clients need not come, the process may have died or been shut down, the
bounded changes may be used up.

## Bounds

- *Connection attempts* (`Clients`): a client id is one attempt, so the set bounds
  a behaviour. Three attempts, two of one user, are the least in which a user
  reconnects while another waits for an address; two addresses let one be reused
  while the other is held. `MaxReauths`: one, which is enough for the finding
  about it; what is proved holds for any number. `Fallible` = {a1}: at one address any
  call of iptables may fail, at the other only the delete of a rule that is not there,
  so that `ForwardMatchesConnections` is checked on both sides. `MaxUnread` = 4 lines of
  the socket: the reply to a client-kill, that to the command the handler waits for,
  and two events in between; a client that would say more waits.
- *Channel*: `MaxStates` = 2 lets one `>STATE` line arrive after the CONNECTED one
  that ends the boot loop. Two clients give an event behind an event and an event
  behind a reply; `MaxUnread` = 2 (3 in `channel_wedge`) bounds only what OpenVPN says
  unasked, replies come on top.
- *Users*: `WeakSets` = {{}, {k3}}: one key is too weak for one file and not for
  another. `Deletable` = {k1}: the other keys are only disabled and enabled again,
  which takes them off the list as well; `users_crash` may delete all. `MaxChanges`
  = 4 covers upload, deactivate, upload of the same material, activate. `MaxFiles` =
  4 leaves room for the CA's certificate, one per key and one orphan; all subjects
  share a bucket, the hard case. One user, as the cache of one user never touches
  another's; the proofs are for any number.
- *tls-verify*: `MaxChanges` = 2 on the same keys, none of them too weak: a key
  taken off the list, which renumbers, and an upload whose file lands on another's,
  the CA's certificate in front of both and, with `MaxFiles` = 4, an orphan
  between; one handshake at a time, as handshakes only read. What is proved of
  `UserManager` holds behind it for any number.
- *Servers*: `MaxBoots` = 4 on three hosts: two that race, one that follows, one
  restart; the hosts are symmetric. The violation needs two servers and no restart.
- *Policy*: `MaxChanges` = 2 (a file and a group, two files, two groups) and
  `MaxFailures` = 1. The texts are chosen so that each pair of features meets: a
  network with and without ports and with port 0, in one section and in two; NAT
  on, off and a network, one overriding the other; named, unknown and no subnets;
  malformed headers and statements; sections that come twice; a last line that is
  not terminated. Three texts are in force at boot, four - three of them refused -
  replace them.

## Fairness

`VPNManager` assumes weak fairness of the handler goroutine and of OpenVPN
executing commands that have arrived, and of nothing else: a reply behind an event
the handler does not wait for is not delivered, the socket being `Stalled`, for
good, as the channel's own run shows of the same case; its two liveness properties
except that state by name. `OpenVPNChannel` assumes it of each of the four
goroutines (the Go scheduler is fair to a goroutine that can go on), of OpenVPN
executing commands, and of OpenVPN exiting once its management connection is
closed; `AccessPolicy` of the update's steps, because `updateConfig` re-arms its
timer at the end of every run (manager.go:285) and the calls that may fail are
bounded. Nothing is assumed of clients, administrators, failures or crashes.

## What is proved

Every theorem holds for every value of the constants that meets the modules' named
assumptions - any clients, users, keys, addresses, hosts, groups and texts, and any
of the bounds of the runs. An invariant `P` is proved as `Spec => []P`, an action
property as `Spec => P`, a refinement as `Spec => Abstract!Spec`, each from an
inductive invariant that the initial states satisfy and every step keeps; the
lemmas have one step per action.

- `VPNManagerProofs`. `TypeCorrect`; `RegistryAgrees` and `ForwardAgrees`, whose
  properties are inductive with `TypeOK`, the second through every way in which a call
  of iptables may fail; and `RepliesLag`: each command executed is one reply more, and
  each but a client-kill is waited for. The others need to know what is in the queue
  of events. `QueueInv` says it: a client that is new has not been heard of, a client's
  events are in the order of its life and say what became of it, and a lease is had
  from the ADDRESS on (`NewUnknown`, `EventsInOrder`, `EventsTrue`, `LeaseLife`).
  `HandlerInv` adds that what the handler has in hand is not in the queue any more
  (`HandledOnce`), that the client it is authorizing is known and registered
  (`AuthorizedKnown`), and that renegotiations are counted. On top of these:
  - `PanicsOnlyOfReconnected`, from `Replaced`: a connection that is not its user's
    registered one was replaced by another attempt of that user;
  - `KillsOnlySuperseded`, from `KillInv`. A client about to be killed has had its
    CONNECT handled (`KilledConnected`), so that only a REAUTH can register it again;
    and the first client-kill is executed before the reply the handler waits for is
    sent, so that no event is handled in between (`FirstKill`). From the second on
    replies lag, a kill may be executed while the handler is further on, and the
    property holds only of those who do not renegotiate;
  - `ManagerImplementsSessions`, the refinement of `UserSessions`, from `AdmissionInv`.
    Since the handler may go on before its client-auth is executed, it speaks of the
    queue of commands that are sent and those the handler is about to send (`Kill`,
    `Auth`): before a client-auth that would let in a rival of someone who is in stands
    the client-kill of the latter (`KilledBefore`), between the client-auths of two
    rivals that of the first (`KilledBetween`), and who is in or will be let in is its
    user's registered connection or has its client-kill coming (`CurrentIn`,
    `CurrentEntering`);
  - `AddressesServed`, from `LeaseInv`: whoever has an address recorded that is leased
    to another has a DISCONNECT waiting (`Released`), in front of the other's ADDRESS
    (`Successive`);
  - `StraysExplained`, from `Recorded`: without a renegotiation a record belongs to a
    connection that is in the registry, and so a rule beyond the records is one whose
    delete failed.
- `OpenVPNChannelProofs`. `TypeCorrect`. `RepliesMatch` and `SurplusByKills` from
  `ReplyInv`, which holds until the first client-kill (`KilledInv`): there is at most
  one reply due, on the wire or held by the reader (`OneReply`), it answers the command
  `run` awaits the reply to (`RepliesAwaited`), and that command is `run`'s own or the
  one the handler waits for (`ForHandler`).
  `OnlyTheseStalls`: `OnlyKnownStalls` says by the guards (`GoesOn`) who can move
  while the handler is inside `ExecCommand`. It follows from `StallInv`, which holds
  with replies too many as well: some reply is on its way when one is awaited
  (`ReplyComing`), the handler waits for what `run` does for it (`Responding`), who has
  ended has closed what others wait on (`EndsClosed`), the reader never meets `>HOLD`
  (`HoldFirst`), and nothing OpenVPN says unasked is read before the reply to `hold
  release` (`ReleasedFirst`) - so that `run` is in its loop (`Past`) by the time the
  boot is over, and before any client-kill. `PanicsExplained` from the same and from
  `ClosedInOrder`, the order in which `Shutdown` closes things.
- `UserManagerProofs`. `TypeCorrect` and `MapsAgree` from the
  invariant `CacheInv`, which adds `UpdateTruthful` - what an update is about to
  commit is true - because the cache is written long after the calls it rests on;
  `AuthenticationSound` from `RequestInv`, which adds the same of a request;
  `CertificatesKeptApart` from `FiledInv`, which says of every key that has been
  added and not removed what the property says of the cached ones;
  `TrustedKeysReachable` from `ReachInv`: a user's keys have different material in
  the backend, on the list of an update and in the cache (`NoneTwice`), and an
  update with no change since it began has fetched all there is of the users it
  is done with (`FetchAccounted`, `RosterCovered`). A cached key leads to itself but for one that was
  passed over for good, deleted or too weak for some file (`Hopeless`): `weak` may be
  another set by the time the update ends, and the property says so. Its hypothesis `UniqueKeys` is
  what IAM guarantees; without it the property is false, as TLC shows at once.
  `CertificateManagerProofs` holds the lemmas on `Added` and `Removed`: a new
  certificate takes no other's place (`AddedFiled`), and a removal leaves every
  other where the index says (`RemovedFiled`).
- `TLSVerifyProofs`. `VerifyImplementsUsers`, step by step: what `TLSVerify` adds
  leaves `UserManager`'s variables alone or is one of its actions, a client that
  connects being one whose subject was verified (`SubjectKnown`). With it
  `AuthSound`, `MapsInverse` and `CertificatesFiled` hold behind tls-verify whatever
  the directory holds (`VerifiedSound`, `VerifiedFiled`), and what is proved of
  the index may be used of the directory. `VerifyTyped`, `CachedInDirectory` and
  `RejectionsExplained` come from `DirectoryInv`: in a bucket in order every file
  but the one being written is what the index says (`DirectoryKept`), that one
  being behind those of all cached keys, and a reader has not passed the
  certificate it looks for while its key stays cached (`StillAhead`).
- `ServerKeysProofs`. `TypeCorrect`, and `IdentityUnique` from `IdentityInv`.
  `OneIdentity` is not inductive: it takes that without a race only one server is
  storing (`Alone`), that it alone stored what is there (`Ours`), that who fetched
  the certificate has the stored one (`Fetched`), and that the certificate comes
  first (`CertFirst`). `StoredWhole` needs that a bundle which is neither whole nor
  given up is in the hands of a server; `RefusalsExplained` and `SettledForEver`
  are the action properties, from the same invariants.
  Of `DNSRegistration` it proves `FleetImplementsKeys`, and so `FleetIdentityUnique`;
  `FleetTypeCorrect`, which includes that only a server that serves is registered;
  and `RegistrationStands`: no server's change of the zone undoes another's.
- `ConfigFileProofs`. `PolicyReadOff`: for every text the parser takes and every set
  of groups, the policy is `AsWritten`, the one that all lines of the text give but for
  what the lost ones said. `ParseConfig`
  and `Applying` are folds, and both are unfolded here into the values they go
  through (`FoldAlong`, from the definition of `FoldLeft`), along which an invariant is
  carried by a least counterexample (`UpTo`, from `LeastNat`). That of the parser is
  `ReadSo`: which section is open, which are declared and in which order, and that
  each section has collected the statements of its lines (`Collected`); that of
  `Applying` says that the statements so far are those of the global section and of
  the groups so far, no line of higher rank in front of one of lower (`StatedGroups`).
  From the sequence so ordered follow the last word (`SettingSaid`) and the set of
  statements (`StatementsSet`), and from these, grant by grant, what is open
  (`GrantsOpen`, `RoutesOpen`). That much is about the lines that are kept; the last
  step compares it with what all lines say, and shows that what differs is one of the
  differences `AsWritten` admits.
- `AccessPolicyProofs`. `AnswersExplained` (`AccessExplained`, an action property) from
  `WindowInv`: what an update has collected, as far as it has asked (`Polling`), what a
  request was told (`Requesting`) and what is cached each lie between the groups held
  all the time and those held at some time of the window they belong to.
  `TypeCorrect`, and `PolicyAsWritten` (`RulesOfPolicy`), from `PolicyInv`: the file in
  force and the one an update works on are texts the parser took (`LoadInv`), to
  which `PolicyReadOff` applies.

Only model-checked: the properties under fairness (`EveryConnectAnswered`,
`RulesDrain`, `BootReleased`, `EventsServed`, `HandlerReleased`, `ShutdownEnds`,
`PolicyConverges`), which are out of the prover's reach; and that the wedge, the
panics and the other findings do happen, each of which one behaviour shows.

## Findings

1. *A nil `userConn` ends the server* (manager.go:460). DISCONNECT looks up
   `userConnections[conn.user]` and dereferences it. When a user's second
   connection has taken the entry and goes first, the entry is gone when the first
   one's DISCONNECT arrives (`manager_panic`).
2. *REAUTH loses the address* (manager.go:397). The new `clientConnection` has no
   address, so the DISCONNECT leaves the FORWARD rule and its record, and the next
   holder of the address is routed to the former user's chain until its own ADDRESS is
   handled and ConnectUser deletes that rule (`manager_reauth`). With three
   attempts the same lines let a REAUTH sent before its connection was superseded
   take the registration back: `UserSessions` promises one session per user only
   until somebody has renegotiated (`renewed`).
3. *Reader, run and handler wait for each other* when a client event lies between
   a command and its reply (openvpn.go:246, `channel_wedge`). Of a handler that is
   inside `ExecCommand` there is one other stall, a `>STATE` line after the boot loop
   (openvpn.go:238): `OnlyKnownStalls`. A third is not inside it: see client-kill
   below.
4. *Taking a weak key off the list ends the server* (ca.go:243): it was cached with
   the empty hash and never added (`users_crash`). `CertificatesFiled` shows that it
   takes a key cached without a certificate - weak, or gone between listing and
   fetching. Were a backend to allow two ids with one key material, as the local
   one does, deleting the one would delete the other's hash as well
   (config.go:217); IAM refuses duplicates, and `users` is checked with that.
5. *A name is never given back* (aws.go:440). `updateRoute53` ignores the action it
   is given and always sends UPSERT, so a server that stops after its replacement
   has registered takes the name with it, and a weighted record is never removed
   (`dns_unregistered`).
6. *An update is never applied* (manager.go:237): `users != nil && err != nil`.
   Chains stay those of the boot while clients are pushed the routes of the new
   policy (`policy_enforced`).

Seen while modelling, and covered by the models without a run of their own:

- `fetchKeys` looks at server.crt alone (manager.go:174), so a crash before the
  third put leaves the bucket without the CA for ever, and one before the second
  makes every boot fail: `StoredUnlessBroken` and `RefusedExplained` except it.
- client-kill is sent without awaiting its reply (manager.go:405), and OpenVPN gives
  one. Every exchange after it ends with the reply to an earlier command
  (`RepliesLagByKills`, `ResponseMatches`), so that the handler takes a client-auth for
  executed that is not; and when there is nothing to exchange, the reader blocks for
  good on the reply nobody awaits, with handler and run back in their loops: no client
  event is taken any more. That is `Surplus`, a stall that takes one user connecting
  twice; `SurplusOnlyByKill` shows that nothing else leads to it, and the liveness
  properties except it by name.
- The `defer recover()` of openvpn.go:415 recovers from nothing, so a command after
  Shutdown panics; the reader's error test has its arguments swapped (openvpn.go:394),
  so that a connection that run has closed is a panic, and so is, while the server is
  serving, the reset of a connection whose OpenVPN died with a command unread.
  `PanicExplained` allows for exactly these, and for an OpenVPN that dies before it is
  up.
- A call of iptables that fails is logged by nobody and tried again by nobody:
  ConnectUser's failure leaves a client without a rule, DisconnectUser's a rule without
  a record (firewall.go:112, 117, 133): `AddressServed` and `StrayExplained` except it
  by name, `skew` says how far chain and record are apart.
- A key that was too weak when it was fetched stays in the cache with the empty hash,
  and is not fetched again when key-strength is lowered (config.go:153-165): its holder
  stays out until the server starts anew (`PassedOver` in `TrustedKeyReachable`).
- An OpenVPN that exits before it connects leaves `run` in AcceptUnix and BootVPN
  waiting for ever (openvpn.go:152): `BootReleased` excepts it, and an event
  read before the handler has started when OpenVPN then dies.
- Index and directory of the certificate manager part in two ways: a file that
  could not be written keeps its number (ca.go:237), and a file that is renumbered
  keeps its name (ca.go:251). tls-verify then turns the holder of a good key away;
  `RejectedExplained` shows that nothing else does.
- The parser's error for a malformed statement is overwritten (configfile.go:401),
  and a dropped `subnet-` line leaves its section without subnets, which means all
  of them; a last line without newline is not read (parser.go:36); a network given
  without ports and with ports ends up with the ports only. `RulesOfPolicy` compares
  with what all lines say, the dropped ones included, and names these as the only
  differences; while vpn.conf is refused, the group cache is not refreshed either
  (`PolicyConverges` excepts it).
- Outside the models: the DNS proxy sends SERVFAIL after each answer as well, its
  `break` leaving only the loop (dnsproxy.go:80).

## Assumptions about the outside

- OpenVPN answers every command it executes, client-kill included, in order, and with
  one line. It hands an address out again only when its last holder has gone.
- S3 stores and reads one object atomically, and answers every read of an object
  the role may read. Reads that are denied look like missing files to the code
  (aws.go:131); the models take the permissions as granted.
- IAM's key ids are unique and not reused, and a user has a key's material once
  (`UniqueKeys`).
- SHA-256 does not collide on the keys involved; the 32-bit name hash may
  (`BucketOf` is any function).
- A change of the Route 53 zone is atomic; one whose answer is an error may have
  been applied. A host keeps its address and its instance id.
- OpenVPN starts tls-verify for every handshake and goes by its exit status.
- An `iptables` call works or leaves the chain as it was, and a `--delete` of a rule that
  is not there fails.

## What is not modelled

- InitFirewall (five calls in a row at boot, none undone) and what UpdateUser does
  to a user who has a chain, which nothing reaches while finding 6 stands.
- The characters of a line of vpn.conf and of the management socket; the values of
  the statements that configure the server; blank lines and comments.
- The text of openvpn.conf, which a restart on the same root appends to.
- Deleting vpn.conf, which an update ignores.
- Network information and S3 beyond single objects; flags, log level, choice of a
  backend.
- The local backend: a variant of the one the models range over, for tests; it
  accepts a key twice (`UniqueKeys` FALSE), which the proofs allow and the runs do not.
- The DNS proxy: BootVPN starts it and nothing stops it; it keeps nothing between
  two queries and shares nothing with the rest.
- The web interface, which runs in the browser and meets the server only in the
  keys it uploads (`UserManager!Upload`); logging.

## The plan

Done, in this order: `VPNManager` with `UserSessions`, `OpenVPNChannel`,
`UserManager` on `CertificateManager`, `ServerKeys`, `AccessPolicy`, and the proofs
of the first, third and fourth; then `TLSVerify`, `DNSRegistration`, `ConfigFile`,
OpenVPN from its launch, and their refinements; then the proofs of every safety
property of `OpenVPNChannel`, `UserManager`, `TLSVerify` and `VPNManager`, the
refinement `SessionsSpec` among them, and of `AccessPolicy` with what parser and
policy compute. Every safety property of a passing run is now a theorem. Next:

1. `OpenVPNChannel`: an abstract specification of what the handler sees of it - one
   exchange at a time, its response or its end, replies as far behind as client-kills
   were sent - and the proof that the four
   goroutines implement it, so that `VPNManager` rests on it by a theorem and not by
   the argument above on how the modules meet.
2. `AccessPolicy`: the safety half of `PolicyConverges` - an update that nothing
   interrupts leaves the policy of the file and the groups it has read.
