----------------------------- MODULE MCAccessPolicy -----------------------------
(***************************************************************************)
(* Two groups, two subnets, a network behind NAT and a name no subnet has. *)
(* The texts bring together what the parser and GetUserConfig have to tell *)
(* apart: a network with and without ports, and with port 0; the three nat *)
(* settings, one overriding another; sections with and without subnets,    *)
(* without any line, declared late and twice; statements and headers that  *)
(* make no sense, in and outside sections, among them ones that would have *)
(* opened or closed something; a last line without newline, a statement    *)
(* and a header.                                                           *)
(***************************************************************************)
EXTENDS AccessPolicy

CONSTANTS a, b, n1, n2, n3, s1, s2, sx

MCSubnets == s1 :> n1 @@ s2 :> n2

Says(word, arg, ports) == [word |-> word, arg |-> arg, ports |-> ports, ok |-> TRUE]

Bad(line) == [line EXCEPT !.ok = FALSE]

Header(s) == Says("section", s, {})

Server == Says("server", None, {})

Ended(lines) == [lines |-> lines, ended |-> TRUE]

(* For each text GetUserConfig is compared with the lines for every set of *)
(* groups, so that a text is four policies.                                *)
MCFiles ==
    {Ended(<<Header("global"), Server, Says("nat", "off", {}), Says("dns", "off", {}),
             Header(b), Says("nat", n2, {80}), Says("dns", "on", {}),
             Header(a), Says("route", n1, {80}), Says("nat", "on", {}),
             Header(b), Says("route", n2, {0}), Bad(Says("route", n3, {80}))>>),
     Ended(<<Header(a), Says("subnet", s1, {22}), Says("subnet", sx, {}),
             Header(b), Bad(Says("subnet", s1, {22})), Says("route", n1, {}), Bad(Server),
             Header("user"), Says("nat", n3, {22}), Bad(Says("nat", "off", {}))>>),
     [lines |-> <<Header("user"),
                  Header("global"), Says("subnet", s1, {}),
                  Header(a), Says("route", n1, {80}), Says("route", n2, {}), Says("nat", n2, {22}),
                  Header(b), Says("nat", "off", {}), Bad(Says("nat", "on", {})),
                  Says("route", n1, {22, 80}),
                  Header("global"), Says("dns", "on", {})>>,
      ended |-> FALSE]}

MCRevisions ==
    {Ended(<<Header("global"), Bad(Server), Header(a)>>),
     Ended(<<Server, Header("global"), Header(b)>>),
     Ended(<<Header(b), Bad(Header("user"))>>),
     [lines |-> <<Header(a), Says("subnet", s1, {22}), Header(b), Says("subnet", s2, {}),
                  Header("user")>>,
      ended |-> FALSE]}
=============================================================================
