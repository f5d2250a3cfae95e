------------------------------ MODULE Firewall ------------------------------
(***************************************************************************)
(* The in-memory firewall evaluator (substrate_firewall.go): a candidate   *)
(* rule, in the compact or in the iptables syntax, is compiled and applied *)
(* to one connection.                                                      *)
(*                                                                         *)
(* A network is the set of addresses it contains; the nil network contains *)
(* every address and also the text that is no address (NoAddress).  A port *)
(* text is the interval it was written with.  The option loop of the       *)
(* iptables compiler is one action per option.  What is said of the        *)
(* connections a rule matches is said of all: the service itself loses the *)
(* connection of a submission (RunSubmission) and evaluates an empty one.  *)
(***************************************************************************)
EXTENDS Integers, Sequences

CONSTANTS
    Hosts,          \* addresses that parse
    NoAddress,      \* a connection's address field that does not parse
    Nets,           \* networks rules may name, sets of Hosts
    MaxPort,        \* largest port number written or used
    PortLists,      \* values of --dports, sequences of intervals
    MaxOptions,     \* longest iptables rule
    Protocols       \* protocols of connections

ASSUME PortAssumption == MaxPort \in Nat
ASSUME NetAssumption == Nets \subseteq SUBSET Hosts /\ NoAddress \notin Hosts
ASSUME ProtocolAssumption == Protocols \intersect {"any", "all"} = {}

VARIABLES
    engine,     \* syntax the candidate is written in: "compact" or "iptables"
    override,   \* candidate.action, "" when absent
    compact,    \* fields of a compact rule, as written
    options,    \* options of an iptables rule, in order
    pos,        \* option the loop reads next
    rule,       \* the fwRule being compiled
    target,     \* value of the last -j, "" when there is none
    stage       \* "writing", "parsing", "compiled" or "refused"

firewallVars == <<engine, override, compact, options, pos, rule, target, stage>>

Ports == 0..MaxPort
AnyHost == Hosts \union {NoAddress}
Connection == [proto: Protocols, src: AnyHost, dst: AnyHost, port: Ports]

\* The text of a host field: "any", a network, or neither.
HostText == [any: {TRUE}, ok: {TRUE}, net: {{}}]
              \union [any: {FALSE}, ok: {TRUE}, net: Nets]
              \union [any: {FALSE}, ok: {FALSE}, net: {{}}]
\* The text of a port field: absent or *, an interval (a single port is one of
\* its own), or not numeric.
PortText == [any: {TRUE}, ok: {TRUE}, lo: {0}, hi: {0}]
              \union [any: {FALSE}, ok: {TRUE}, lo: Ports, hi: Ports]
              \union [any: {FALSE}, ok: {FALSE}, lo: {0}, hi: {0}]
Interval == {t \in PortText : ~t.any}
ASSUME ListAssumption == PortLists \subseteq Seq(Interval)
ProtoText == Protocols \union {"any", "all"}
Jumps == {"DROP", "REJECT", "ACCEPT", "LOG"}
Actions == {"deny", "allow", "log", ""}

\* An option is a flag and the word after it; unknown flags and "!" have no
\* meaning to the compiler.
Option == [flag: {"-p"}, val: ProtoText] \union [flag: {"-s", "-d"}, val: HostText]
            \union [flag: {"--dport"}, val: Interval]
            \union [flag: {"--dports"}, val: PortLists]
            \union [flag: {"-j"}, val: Jumps]
            \union [flag: {"-m", "-A", "!"}, val: {""}]
Compact == [action: Actions \ {""}, proto: ProtoText, src: HostText, dst: HostText,
            port: PortText]

-----------------------------------------------------------------------------
(* Parsing and matching.                                                   *)

\* parseHostOrCIDR.
HostNet(t) == IF t.any THEN AnyHost ELSE t.net

\* parsePortRange: "any" is kept as 0..0.
PortRange(t) == IF t.any THEN [lo |-> 0, hi |-> 0] ELSE [lo |-> t.lo, hi |-> t.hi]

\* parseDports: the union of the intervals; a reversed one contributes nothing.
PortSet(parts) == UNION {parts[i].lo .. parts[i].hi : i \in DOMAIN parts}

NewRule == [action |-> "deny", proto |-> "any", src |-> AnyHost, dst |-> AnyHost,
            lo |-> 0, hi |-> 0, set |-> {}]

\* Wrong on purpose: the upper end of a range is excluded.
PortMatchesExclusive(r, p) ==
    IF r.set # {} THEN p \in r.set
    ELSE (r.lo = 0 /\ r.hi = 0) \/ (r.lo <= p /\ p < r.hi)

\* An explicit set decides unless it is empty; 0..0 is any port.
PortMatches(r, p) ==
    IF r.set # {} THEN p \in r.set
    ELSE (r.lo = 0 /\ r.hi = 0) \/ (r.lo <= p /\ p <= r.hi)

Matches(r, c) ==
    /\ r.proto \in {"any", c.proto}
    /\ c.src \in r.src
    /\ c.dst \in r.dst
    /\ PortMatches(r, c.port)

\* runFirewallInMemory: a compiled rule blocks what it matches and denies.
Blocks(r, c) == r.action = "deny" /\ Matches(r, c)

-----------------------------------------------------------------------------
(* The machine: a rule is written, then compiled.                          *)

FirewallInit ==
    /\ engine \in {"compact", "iptables"}
    /\ override \in Actions
    /\ compact = [action |-> "deny", proto |-> "any",
                  src |-> [any |-> TRUE, ok |-> TRUE, net |-> {}],
                  dst |-> [any |-> TRUE, ok |-> TRUE, net |-> {}],
                  port |-> [any |-> TRUE, ok |-> TRUE, lo |-> 0, hi |-> 0]]
    /\ options = <<>>
    /\ pos = 1
    /\ rule = NewRule
    /\ target = ""
    /\ stage = "writing"

WriteCompact ==
    /\ stage = "writing" /\ engine = "compact"
    /\ compact' \in Compact
    /\ stage' = "parsing"
    /\ UNCHANGED <<engine, override, options, pos, rule, target>>

WriteOption ==
    /\ stage = "writing" /\ engine = "iptables" /\ Len(options) < MaxOptions
    /\ \E o \in Option : options' = Append(options, o)
    /\ UNCHANGED <<engine, override, compact, pos, rule, target, stage>>

Submit ==
    /\ stage = "writing" /\ engine = "iptables"
    /\ stage' = "parsing"
    /\ UNCHANGED <<engine, override, compact, options, pos, rule, target>>

\* compileFirewallRule for the compact syntax; candidate.action, when there is
\* one, replaces the action written in the rule.
CompileCompact ==
    /\ stage = "parsing" /\ engine = "compact"
    /\ LET r == PortRange(compact.port) IN
       rule' = [action |-> IF override # "" THEN override ELSE compact.action,
                proto |-> compact.proto, src |-> HostNet(compact.src),
                dst |-> HostNet(compact.dst), lo |-> r.lo, hi |-> r.hi, set |-> {}]
    /\ stage' = IF compact.src.ok /\ compact.dst.ok /\ compact.port.ok
                THEN "compiled" ELSE "refused"
    /\ UNCHANGED <<engine, override, compact, options, pos, target>>

\* What one option does to the rule; a later option replaces an earlier one.
OptionOk(o) ==
    /\ o.flag \in {"-s", "-d", "--dport"} => o.val.ok
    /\ o.flag = "--dports" => \A i \in DOMAIN o.val : o.val[i].ok

Applied(r, o) ==
    CASE o.flag = "-p" -> [r EXCEPT !.proto = o.val]
      [] o.flag = "-s" -> [r EXCEPT !.src = HostNet(o.val)]
      [] o.flag = "-d" -> [r EXCEPT !.dst = HostNet(o.val)]
      [] o.flag = "--dport" -> [r EXCEPT !.lo = o.val.lo, !.hi = o.val.hi]
      [] o.flag = "--dports" -> [r EXCEPT !.set = PortSet(o.val)]
      [] OTHER -> r

ParseOption ==
    /\ stage = "parsing" /\ engine = "iptables" /\ pos <= Len(options)
    /\ LET o == options[pos] IN
       IF OptionOk(o)
       THEN /\ rule' = Applied(rule, o)
            /\ target' = IF o.flag = "-j" THEN o.val ELSE target
            /\ UNCHANGED stage
       ELSE /\ stage' = "refused"
            /\ UNCHANGED <<rule, target>>
    /\ pos' = pos + 1
    /\ UNCHANGED <<engine, override, compact, options>>

\* The action of an iptables rule: the target decides; candidate.action only
\* counts without a known target.
TargetAction ==
    CASE target \in {"DROP", "REJECT"} -> "deny"
      [] target = "ACCEPT" -> "allow"
      [] OTHER -> IF override # "" THEN override ELSE "deny"

FinishIptables ==
    /\ stage = "parsing" /\ engine = "iptables" /\ pos > Len(options)
    /\ rule' = [rule EXCEPT !.action = TargetAction,
                            !.proto = IF @ = "all" THEN "any" ELSE @]
    /\ stage' = "compiled"
    /\ UNCHANGED <<engine, override, compact, options, pos, target>>

Done == stage \in {"compiled", "refused"} /\ UNCHANGED firewallVars

FirewallNext ==
    \/ WriteCompact \/ WriteOption \/ Submit
    \/ CompileCompact \/ ParseOption \/ FinishIptables \/ Done

FirewallSpec == FirewallInit /\ [][FirewallNext]_firewallVars
-----------------------------------------------------------------------------
(* Properties.                                                             *)

\* What an option says of a connection, read by itself.
Fits(o, c) ==
    CASE o.flag = "-p" -> o.val \in {"any", "all", c.proto}
      [] o.flag = "-s" -> c.src \in HostNet(o.val)
      [] o.flag = "-d" -> c.dst \in HostNet(o.val)
      [] o.flag = "--dport" -> c.port \in o.val.lo .. o.val.hi
      [] o.flag = "--dports" -> \E k \in DOMAIN o.val : c.port \in o.val[k].lo .. o.val[k].hi
      [] OTHER -> TRUE

\* Option i is the last of its flag among the first n options.
Decides(i, n) ==
    /\ i \in 1..n
    /\ \A j \in (i+1)..n : options[j].flag # options[i].flag

Describes(c) == \A i \in DOMAIN options : Decides(i, Len(options)) => Fits(options[i], c)

HasFlag(f) == \E i \in DOMAIN options : options[i].flag = f

\* A rule without the forms the compiler reads in its own way: negation, both
\* port options, port 0, and intervals that are reversed.
Plain ==
    /\ ~HasFlag("!")
    /\ ~(HasFlag("--dport") /\ HasFlag("--dports"))
    /\ \A i \in DOMAIN options :
         /\ options[i].flag = "--dport" => 0 < options[i].val.lo /\ options[i].val.lo <= options[i].val.hi
         /\ options[i].flag = "--dports" => PortSet(options[i].val) # {}

\* Whether the text denies: the last -j if its target is known, else the
\* candidate's own action, else yes.
Denies ==
    IF \E i \in DOMAIN options : /\ options[i].flag = "-j" /\ Decides(i, Len(options))
                                 /\ options[i].val # "LOG"
    THEN \E i \in DOMAIN options : /\ options[i].flag = "-j" /\ Decides(i, Len(options))
                                   /\ options[i].val # "ACCEPT"
    ELSE override \in {"", "deny"}

\* A plain iptables rule blocks exactly the connections its options describe,
\* whatever their order and repetitions (compileIptablesRule against matches).
VerdictFollowsText ==
    stage = "compiled" /\ engine = "iptables" /\ Plain
      => \A c \in Connection : Blocks(rule, c) <=> Denies /\ Describes(c)

\* A compact rule matches what the same rule written for iptables matches.  The
\* one exception is protocol "all", which only the iptables compiler knows.
SyntaxesAgree ==
    stage = "compiled" /\ engine = "compact" /\ compact.proto # "all" =>
      LET p == Applied(NewRule, [flag |-> "-p", val |-> compact.proto])
          s == Applied(p, [flag |-> "-s", val |-> compact.src])
          d == Applied(s, [flag |-> "-d", val |-> compact.dst])
          r == IF compact.port.any THEN d
               ELSE Applied(d, [flag |-> "--dport", val |-> compact.port])
      IN \A c \in Connection : Matches(rule, c) <=> Matches(r, c)
=============================================================================
