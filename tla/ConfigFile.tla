------------------------------- MODULE ConfigFile -------------------------------
(***************************************************************************)
(* vpn.conf: the parser (config/parser.go, ParseConfig), what it makes of  *)
(* a text, and the policy GetUserConfig derives from that for one user     *)
(* (config/configfile.go).  Operators only: AccessPolicy runs them.        *)
(*                                                                         *)
(* A text is a sequence of lines that are not blank, and whether the last  *)
(* one ends in a newline.  A line is a header or, indented, a statement;   *)
(* ok tells whether the parser can make sense of it.  The section "user"   *)
(* is this user's; a "server" statement is one of watch, net, route53 and  *)
(* key-strength.  The VPC's subnets and NAT networks stay the same.        *)
(***************************************************************************)
EXTENDS Naturals, Sequences, FiniteSets, SequencesExt

CONSTANTS
    Groups,   \* IAM groups
    Nets,     \* networks
    Ports,    \* ports; 0 is what the firewall takes for any port
    Names,    \* the subnet names vpn.conf may use
    Subnets,  \* subnet name -> network, of the VPC and its peerings
    NAT,      \* the networks behind its NAT gateways
    None

Sections == {"global", "user"} \cup Groups

Statements ==
    [word : {"subnet"}, arg : Names, ports : SUBSET Ports, ok : BOOLEAN]
    \cup [word : {"route"}, arg : Nets, ports : SUBSET Ports, ok : BOOLEAN]
    \cup [word : {"nat"}, arg : Nets \cup {"on", "off"}, ports : SUBSET Ports, ok : BOOLEAN]
    \cup [word : {"dns"}, arg : {"on", "off"}, ports : {{}}, ok : BOOLEAN]
    \cup [word : {"server"}, arg : {None}, ports : {{}}, ok : BOOLEAN]

Lines == Statements \cup [word : {"section"}, arg : Sections, ports : {{}}, ok : BOOLEAN]

IsText(text) ==
    /\ text.lines \in Seq(Lines)
    /\ text.ended \in BOOLEAN /\ (text.lines = <<>> => text.ended)

IsConf(conf) ==
    /\ "global" \in DOMAIN conf.of /\ DOMAIN conf.of \subseteq Sections
    /\ \A s \in DOMAIN conf.of : conf.of[s] \in Seq(Statements)
    /\ IsInjective(conf.order) /\ ToSet(conf.order) = Groups \cap DOMAIN conf.of

(* A UserConfig: the ports of every network a user may reach, none for any *)
(* port.                                                                   *)
UserConfigs ==
    [dns : {"unset", "on", "off"},
     routes : UNION {[ns -> SUBSET Ports] : ns \in SUBSET Nets}]

ASSUME ConfigAssumption ==
    /\ IsFiniteSet(Groups) /\ {"global", "user"} \cap Groups = {}
    /\ Ports \subseteq Nat /\ None \notin UserConfigs
    /\ NAT \subseteq Nets /\ {"on", "off"} \cap Nets = {}
    /\ DOMAIN Subnets \subseteq Names /\ \A n \in DOMAIN Subnets : Subnets[n] \in Nets

-----------------------------------------------------------------------------
(***************************************************************************)
(* The parser.                                                             *)
(***************************************************************************)

(* ReadString gives a last line without newline together with EOF, and     *)
(* Read returns at EOF without a look at it.                               *)
Read(text) == IF text.ended THEN text.lines ELSE Front(text.lines)

(* The global section is there from the start; the parser has seen no      *)
(* header yet.                                                             *)
NothingRead == [of |-> [s \in {"global"} |-> <<>>], order |-> <<>>, section |-> None]

Refused(read, line) ==
    \/ line.word = "section" /\ ~line.ok
    \/ line.word # "section" /\ read.section = None
    \/ line.word = "server" /\ read.section = "global" /\ ~line.ok

(* Seeded bug: a section that comes again starts anew.                     *)
OpenedAnew(read, s) ==
    [of |-> [t \in DOMAIN read.of \cup {s} |-> IF t # s THEN read.of[t] ELSE <<>>],
     order |-> IF s \in Groups \ DOMAIN read.of THEN Append(read.order, s) ELSE read.order,
     section |-> s]

(* A group's place in the order is the number of groups before it; a       *)
(* section that comes again goes on.                                       *)
Opened(read, s) ==
    [of |-> [t \in DOMAIN read.of \cup {s} |->
                IF t \in DOMAIN read.of THEN read.of[t] ELSE <<>>],
     order |-> IF s \in Groups \ DOMAIN read.of THEN Append(read.order, s) ELSE read.order,
     section |-> s]

(* The error of parseSection is overwritten by the next Read: a malformed  *)
(* statement is dropped, and so is one that its section does not know.     *)
Said(read, st) ==
    IF st.ok /\ st.word # "server"
    THEN [read EXCEPT !.of[read.section] = Append(@, st)] ELSE read

ParseLine(read, line) ==
    IF read = None \/ Refused(read, line) THEN None
    ELSE IF line.word = "section" THEN Opened(read, line.arg)
    ELSE Said(read, line)

ParseConfig(text) ==
    LET read == FoldLeft(ParseLine, NothingRead, Read(text))
    IN  IF read = None THEN None ELSE [of |-> read.of, order |-> read.order]

-----------------------------------------------------------------------------
(***************************************************************************)
(* The policy.                                                             *)
(***************************************************************************)

(* The statements that apply to the user: the global section's, its        *)
(* groups' in the order of declaration, its own.  Reading them in this     *)
(* order, a later dns or nat setting replaces an earlier one.              *)
Applying(conf, gs) ==
    LET common == FoldLeft(LAMBDA stmts, g : IF g \in gs THEN stmts \o conf.of[g] ELSE stmts,
                           conf.of["global"], conf.order)
    IN  IF "user" \in DOMAIN conf.of THEN common \o conf.of["user"] ELSE common

Setting(stmts, word, default) ==
    LET said == {i \in DOMAIN stmts : stmts[i].word = word}
    IN  IF said = {} THEN default ELSE stmts[Max(said)].arg

OfWord(stmts, word) == {st \in ToSet(stmts) : st.word = word}

Grant(net, ports) == [net |-> net, ports |-> ports]

(* Seeded bug: a network without ports has port None.                      *)
RoutesNone(grants) ==
    [n \in {g.net : g \in grants} |->
        UNION {IF g.ports = {} THEN {None} ELSE g.ports : g \in {h \in grants : h.net = n}}]

(* addRoute: the ports of one network add up, and none means every port.   *)
Routes(grants) ==
    [n \in {g.net : g \in grants} |-> UNION {g.ports : g \in {h \in grants : h.net = n}}]

HasAccess(conf, gs) == "user" \in DOMAIN conf.of \/ gs \cap DOMAIN conf.of # {}

GetUserConfig(conf, gs) ==
    LET stmts == Applying(conf, gs)
        nat == Setting(stmts, "nat", "on")
        subnets == OfWord(stmts, "subnet")
        Granted(sts) == {Grant(st.arg, st.ports) : st \in sts}
    IN  IF ~HasAccess(conf, gs) THEN None
        ELSE [dns |-> Setting(stmts, "dns", "unset"),
              routes |-> Routes(
                   Granted(OfWord(stmts, "route"))
                   \cup {Grant(Subnets[st.arg], st.ports) :
                          st \in {sn \in subnets : sn.arg \in DOMAIN Subnets}}
                   \cup {Grant(Subnets[n], {}) : n \in {m \in DOMAIN Subnets : subnets = {}}}
                   \cup {Grant(n, {}) : n \in {m \in NAT : nat = "on"}}
                   \cup Granted({st \in OfWord(stmts, "nat") :
                                    nat # "off" /\ st.arg \notin {"on", "off"}}))]

(* updateFirewall and addRule: port 0 is any port.                         *)
Rules(config) ==
    UNION {IF config.routes[n] = {} THEN {<<n, 0>>} ELSE {n} \X config.routes[n] :
              n \in DOMAIN config.routes}

Reach(rules) ==
    {np \in Nets \X (Ports \ {0}) : np \in rules \/ <<np[1], 0>> \in rules}

-----------------------------------------------------------------------------
(***************************************************************************)
(* The reference: what a text says, line by line, every line that is there *)
(* included, and which lines are lost on the way into the policy.          *)
(***************************************************************************)
Headers(text, s) ==
    {i \in DOMAIN text.lines : text.lines[i].word = "section" /\ text.lines[i].arg = s}

Declared(text, gs) == \E s \in {"user"} \cup gs : Headers(text, s) # {}

(* The section of a line is that of the last header above it.              *)
SectionOf(text, i) ==
    text.lines[Max({j \in 1..i : text.lines[j].word = "section"})].arg

(* The statements that concern a user of the groups gs, by line.           *)
Concerning(text, gs) ==
    {i \in DOMAIN text.lines : /\ text.lines[i].word \notin {"section", "server"}
                               /\ SectionOf(text, i) \in {"global", "user"} \cup gs}

(* The lines that do not make it: what makes no sense, and a last line     *)
(* without newline.                                                        *)
Lost(text) ==
    {i \in DOMAIN text.lines : ~text.lines[i].ok \/ (~text.ended /\ i = Len(text.lines))}

LinesLost(text, gs) == {text.lines[i] : i \in Concerning(text, gs) \cap Lost(text)}
LinesKept(text, gs) == {text.lines[i] : i \in Concerning(text, gs) \ Lost(text)}

(* Who has the last word: the user, then the group declared last.          *)
Rank(text, s) ==
    CASE s = "global" -> 0
      [] s = "user" -> Len(text.lines) + 1
      [] OTHER -> Min(Headers(text, s))

Outranks(text, i, j) ==
    LET ri == Rank(text, SectionOf(text, i))
        rj == Rank(text, SectionOf(text, j))
    IN  ri > rj \/ (ri = rj /\ i >= j)

LastSaid(text, gs, word, default) ==
    LET said == {i \in Concerning(text, gs) : text.lines[i].word = word}
    IN  IF said = {} THEN default
        ELSE text.lines[CHOOSE i \in said : \A j \in said : Outranks(text, i, j)].arg

(* What a statement opens by itself, and where it names no more than some  *)
(* other ports.                                                            *)
Covers(st, n) ==
    \/ st.word \in {"route", "nat"} /\ st.arg = n
    \/ st.word = "subnet" /\ st.arg \in DOMAIN Subnets /\ Subnets[st.arg] = n

Opens(st, n, p) == Covers(st, n) /\ (st.ports = {} \/ {0, p} \cap st.ports # {})

Narrows(st, n, p) == Covers(st, n) /\ st.ports # {} /\ {0, p} \cap st.ports = {}

(* What the lines open: a nat line unless the last word is off.            *)
OpenedBy(text, gs) ==
    {np \in Nets \X (Ports \ {0}) :
        \E i \in Concerning(text, gs) :
            /\ Opens(text.lines[i], np[1], np[2])
            /\ text.lines[i].word = "nat" => LastSaid(text, gs, "nat", "on") # "off"}

(* What is open without being named: the networks behind NAT when the last *)
(* word is on, as it is when there is none, and the subnets when no line   *)
(* restricts them.                                                         *)
OpenedAtLarge(text, gs) ==
    {np \in Nets \X (Ports \ {0}) :
        \/ LastSaid(text, gs, "nat", "on") = "on" /\ np[1] \in NAT
        \/ /\ \A i \in Concerning(text, gs) : text.lines[i].word # "subnet"
           /\ \E s \in DOMAIN Subnets : Subnets[s] = np[1]}

(* A policy as the text has it, but for what the lost lines said: a lost   *)
(* subnet line may leave every subnet open, a lost nat line may leave open *)
(* or closed what is behind NAT or named by another nat line, and what     *)
(* only a lost line opens stays closed.  Where kept lines give a network   *)
(* ports, it is open to those ports and to no other, whatever else opens   *)
(* it.                                                                     *)
AsWritten(config, text, gs) ==
    LET open == Reach(Rules(config))
        said == OpenedBy(text, gs) \cup OpenedAtLarge(text, gs)
        kept == LinesKept(text, gs)
        Loses(word) == \E st \in LinesLost(text, gs) : st.word = word
        Stands(st) == st.word = "nat" => ~Loses("nat") /\ LastSaid(text, gs, "nat", "on") # "off"
        OfNAT(n, p) == n \in NAT \/ \E st \in kept : st.word = "nat" /\ Opens(st, n, p)
    IN  IF config = None
        THEN \A s \in {"user"} \cup gs : Headers(text, s) \subseteq Lost(text)
        ELSE
        /\ Declared(text, gs)
        /\ Loses("dns") \/ config.dns = LastSaid(text, gs, "dns", "unset")
        /\ \A np \in open \ said :
              \/ Loses("subnet") /\ \E s \in DOMAIN Subnets : Subnets[s] = np[1]
              \/ Loses("nat") /\ OfNAT(np[1], np[2])
        /\ \A np \in said \ open :
              \/ \E st \in LinesLost(text, gs) : Opens(st, np[1], np[2])
              \/ Loses("nat") /\ OfNAT(np[1], np[2])
              \/ \E st \in kept : Narrows(st, np[1], np[2])
        /\ \A np \in open :
              (\E st \in kept : Stands(st) /\ Narrows(st, np[1], np[2])) =>
                 \E st \in kept : st.ports # {} /\ Opens(st, np[1], np[2])
=============================================================================
