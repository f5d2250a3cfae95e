--------------------------- MODULE EvaluatorProofs ---------------------------
(* Theorems about the two evaluators that keep no state between requests: the  *)
(* WAF rule evaluator (WafRule) and the firewall evaluator (Firewall).         *)
EXTENDS WafRule, Firewall, TLAPS

USE WafAssumption DEF WafAssumption

----------------------------------------------------------------------------
(* Quantifiers *)

\* Clamping keeps the shape of a quantifier.
LEMMA ClampType ==
    ASSUME NEW b \in Bounds PROVE Clamp(b) \in Bounds
BY DEF Bounds, Clamp, MinOf

\* A quantifier that needed no clamping means what it meant.
LEMMA UnclampedMeans ==
    ASSUME NEW b \in Bounds, ~Clamped(b), NEW n \in Nat
    PROVE  Admits(Clamp(b), n) <=> Admits(b, n)
<1>1. Clamp(b).kind = b.kind /\ Clamp(b).lo = b.lo
    BY DEF Bounds, Clamp, Clamped, MinOf
<1>2. b.kind = "closed" => Clamp(b).hi = b.hi
    BY DEF Bounds, Clamp, Clamped, MinOf
<1>3. b.kind \in {"exact", "open", "closed"}
    BY DEF Bounds
<1> QED
    BY <1>1, <1>2, <1>3 DEF Admits

\* On a text shorter than the limit a clamped quantifier means what was written.
LEMMA ShortTextsKeepMeaning ==
    ASSUME NEW b \in Bounds, NEW n \in Nat, n < MaxRepeat
    PROVE  Admits(Clamp(b), n) <=> Admits(b, n)
<1>1. /\ Clamp(b).kind = b.kind
      /\ Clamp(b).lo = MinOf(b.lo, MaxRepeat)
      /\ Clamp(b).hi = MinOf(b.hi, MaxRepeat)
    BY DEF Bounds, Clamp
<1>2. b.kind \in {"exact", "open", "closed"} /\ b.lo \in Nat /\ b.hi \in Nat
    BY DEF Bounds
<1>3. n = MinOf(b.lo, MaxRepeat) <=> n = b.lo
    BY <1>2 DEF MinOf
<1>4. MinOf(b.lo, MaxRepeat) <= n <=> b.lo <= n
    BY <1>2 DEF MinOf
<1>5. n <= MinOf(b.hi, MaxRepeat) <=> n <= b.hi
    BY <1>2 DEF MinOf
<1> QED
    BY <1>1, <1>2, <1>3, <1>4, <1>5 DEF Admits

----------------------------------------------------------------------------
(* Values *)

LEMMA RuleShape ==
    ASSUME NEW r \in Rules
    PROVE  /\ r.bounds \in Bounds
           /\ r.targets \in Seq(Targets \X (Names \union {""}))
           /\ \A i \in DOMAIN r.targets : r.targets[i] \in Targets \X (Names \union {""})
<1>1. r.bounds \in Bounds /\ r.targets \in Seq(Targets \X (Names \union {""}))
    BY RuleAssumption, Zenon DEF RuleAssumption
<1>2. ASSUME NEW S, NEW s \in Seq(S), NEW i \in DOMAIN s
      PROVE  s[i] \in S
    OBVIOUS
<1> QED
    BY <1>1, <1>2, Zenon

LEMMA RequestShape ==
    ASSUME NEW q \in HttpRequests
    PROVE  /\ q.body \in Text \union {Empty} /\ q.uri \in Text \union {Empty}
           /\ q.headers \in [Names -> SUBSET Text] /\ q.nameText \in [Names -> Text]
           /\ q.form \in [Names -> SUBSET Text] /\ q.query \in [Names -> SUBSET Text]
BY RuleAssumption DEF RuleAssumption

LEMMA DecodedType ==
    ASSUME NEW t \in Text
    PROVE  Decoded(t) \in Text /\ Decoded(t).gap = t.gap
BY DEF Decoded, Text

LEMMA ArgumentsAreArgument ==
    ASSUME NEW q \in HttpRequests, NEW n \in Names
    PROVE  /\ Arguments(q, n) \subseteq Text
           /\ \A t : t \in Arguments(q, n) <=> Argument(q, n, t)
<1>1. q.form[n] \subseteq Text /\ q.query[n] \subseteq Text
    BY RequestShape
<1> QED
    BY <1>1, DecodedType DEF Arguments, Argument

\* The rules a compiled one stands for.
Compilable(r) == \A i \in DOMAIN r.targets : Supported(r.targets[i])

LEMMA TargetShape ==
    ASSUME NEW r \in Rules, Compilable(r), NEW i \in DOMAIN r.targets
    PROVE  /\ \/ r.targets[i][1] \in Whole
              \/ r.targets[i][1] = "ARGS:" /\ r.targets[i][2] \in Names
           /\ r.targets[i][1] \in Whole => r.targets[i][1] # "ARGS:"
<1>1. r.targets[i] \in Targets \X (Names \union {""})
    BY RuleShape
<1> QED
    BY <1>1 DEF Compilable, Supported, Whole

\* The values of a target are the texts it carries, and perhaps the empty text.
LEMMA ValuesAreCarried ==
    ASSUME NEW r \in Rules, Compilable(r), NEW q \in HttpRequests,
           NEW i \in DOMAIN r.targets, NEW t \in Text
    PROVE  t \in ValuesOf(r.targets[i], q) <=> Carries(q, r.targets[i], t)
<1> DEFINE k == r.targets[i][1]
<1>0. k \in Whole \/ (k = "ARGS:" /\ r.targets[i][2] \in Names)
    BY TargetShape
<1>1. CASE k = "REQUEST_BODY"
    BY <1>1 DEF ValuesOf, Carries
<1>2. CASE k = "REQUEST_URI"
    BY <1>2 DEF ValuesOf, Carries
<1>3. CASE k = "REQUEST_HEADERS"
    BY <1>3 DEF ValuesOf, Carries
<1>4. CASE k = "ARGS"
    BY <1>4, ArgumentsAreArgument DEF ValuesOf, Carries
<1>5. CASE k = "ARGS_NAMES"
  <2>1. ASSUME NEW n \in Names
        PROVE  Arguments(q, n) # {} <=> \E v \in Text : Argument(q, n, v)
      BY ArgumentsAreArgument
  <2> QED
      BY <1>5, <2>1 DEF ValuesOf, Carries
<1>6. CASE k = "ARGS:" /\ r.targets[i][2] \in Names
    BY <1>6, ArgumentsAreArgument DEF ValuesOf, Carries
<1> QED
    BY <1>0, <1>1, <1>2, <1>3, <1>4, <1>5, <1>6 DEF Whole

\* Every value is a text or empty.
LEMMA ValuesType ==
    ASSUME NEW r \in Rules, Compilable(r), NEW q \in HttpRequests, NEW i \in DOMAIN r.targets
    PROVE  ValuesOf(r.targets[i], q) \subseteq Text \union {Empty}
<1> DEFINE k == r.targets[i][1]
<1>0. k \in Whole \/ (k = "ARGS:" /\ r.targets[i][2] \in Names)
    BY TargetShape
<1>1. CASE k = "REQUEST_BODY" \/ k = "REQUEST_URI" \/ k = "REQUEST_HEADERS"
    BY <1>1, RequestShape DEF ValuesOf
<1>2. CASE k = "ARGS"
    BY <1>2, ArgumentsAreArgument DEF ValuesOf
<1>3. CASE k = "ARGS_NAMES"
    BY <1>3, RequestShape DEF ValuesOf
<1>4. CASE k = "ARGS:" /\ r.targets[i][2] \in Names
    BY <1>4, ArgumentsAreArgument DEF ValuesOf
<1> QED
    BY <1>0, <1>1, <1>2, <1>3, <1>4 DEF Whole

----------------------------------------------------------------------------
(* The inductive invariant: what the compiled pattern and the verdict are *)

Looks(b) ==
    \E i \in DOMAIN written.targets : \E v \in ValuesOf(written.targets[i], request) :
        Found(b, v) \/ Found(b, Decoded(v))

WafInv ==
    /\ TypeOK
    /\ phase = "written" => bounds = written.bounds
    /\ phase \in {"compiled", "blocked", "passed"} =>
         /\ Compilable(written)
         /\ bounds = Clamp(written.bounds)
         /\ clamped = Clamped(written.bounds)
    /\ phase = "blocked" => Looks(bounds)
    /\ phase = "passed" => ~Looks(bounds)

LEMMA InitWafInv == Init => WafInv
BY RuleShape DEF Init, WafInv, TypeOK

LEMMA NextWafInv ==
    ASSUME WafInv, [Next]_vars PROVE WafInv'
<1>1. ASSUME Compile PROVE WafInv'
  <2>1. Clamp(written.bounds) \in Bounds /\ Clamped(written.bounds) \in BOOLEAN
      BY ClampType, RuleShape DEF WafInv, TypeOK, Clamped
  <2> QED
      BY <1>1, <2>1 DEF Compile, WafInv, TypeOK, Compilable
<1>2. ASSUME Evaluate PROVE WafInv'
  <2>1. phase' = IF Looks(bounds) THEN "blocked" ELSE "passed"
      BY <1>2 DEF Evaluate, Looks
  <2>2. UNCHANGED <<written, request, bounds, clamped>> /\ phase = "compiled"
      BY <1>2 DEF Evaluate
  <2>3. Looks(bounds)' <=> Looks(bounds)
      BY <2>2 DEF Looks
  <2> QED
      BY <2>1, <2>2, <2>3 DEF WafInv, TypeOK
<1>3. ASSUME UNCHANGED vars PROVE WafInv'
    BY <1>3 DEF WafInv, TypeOK, vars, Looks
<1> QED
    BY <1>1, <1>2, <1>3 DEF Next, Finished

\* The verdict is that of the clamped rule on the texts the rule selects.
LEMMA LooksAtSelected ==
    ASSUME WafInv, phase \in {"blocked", "passed"}
    PROVE  Looks(bounds) <=> \E t \in Selected : Found(bounds, t) \/ Found(bounds, Decoded(t))
<1>1. written \in Rules /\ request \in HttpRequests /\ Compilable(written)
    BY DEF WafInv, TypeOK
<1>2. ~Found(bounds, Empty) /\ ~Found(bounds, Decoded(Empty))
    BY DEF Found, Decoded
<1>3. ASSUME NEW t \in Text, NEW i \in DOMAIN written.targets
      PROVE  t \in ValuesOf(written.targets[i], request) <=> Carries(request, written.targets[i], t)
    BY <1>1, ValuesAreCarried
<1>4. ASSUME NEW i \in DOMAIN written.targets
      PROVE  ValuesOf(written.targets[i], request) \subseteq Text \union {Empty}
    BY <1>1, ValuesType
<1> QED
    BY <1>2, <1>3, <1>4 DEF Looks, Selected

LEMMA InvGivesVerdict == WafInv => VerdictAsWritten
<1> SUFFICES ASSUME WafInv, phase \in {"blocked", "passed"}, (phase = "blocked") # AppliesAsWritten
             PROVE  clamped /\ \E t \in Selected : t.gap >= MaxRepeat
    BY DEF VerdictAsWritten
<1> DEFINE Sees(b, t) == Found(b, t) \/ Found(b, Decoded(t))
<1>1. /\ written.bounds \in Bounds /\ bounds = Clamp(written.bounds)
      /\ clamped = Clamped(written.bounds)
    BY RuleShape DEF WafInv, TypeOK
<1>2. (phase = "blocked") <=> \E t \in Selected : Sees(bounds, t)
    BY LooksAtSelected DEF WafInv
<1>3. AppliesAsWritten <=> \E t \in Selected : Sees(written.bounds, t)
    BY DEF AppliesAsWritten
<1>4. AppliesAsWritten \in BOOLEAN
    BY DEF AppliesAsWritten
<1>5. PICK t \in Selected : ~(Sees(bounds, t) <=> Sees(written.bounds, t))
    BY <1>2, <1>3, <1>4
<1>6. t \in Text /\ t.gap \in Nat /\ Decoded(t).gap = t.gap
    BY DecodedType DEF Selected, Text
<1>7. ~(Admits(bounds, t.gap) <=> Admits(written.bounds, t.gap))
    BY <1>5, <1>6 DEF Found
<1>8. clamped
    BY <1>1, <1>6, <1>7, UnclampedMeans
<1>9. t.gap >= MaxRepeat
    BY <1>1, <1>6, <1>7, ShortTextsKeepMeaning
<1> QED
    BY <1>8, <1>9

----------------------------------------------------------------------------
THEOREM WafInvariance == Spec => []WafInv
<1>1. WafInv /\ [Next]_vars => WafInv'
    BY NextWafInv
<1> QED
    BY InitWafInv, <1>1, PTL DEF Spec

\* Rule, request and verdict keep their types (compileRule, evaluate).
THEOREM WafTypeCorrect == Spec => []TypeOK
<1>1. WafInv => TypeOK
    BY DEF WafInv
<1> QED
    BY WafInvariance, <1>1, PTL

\* A verdict of a clamped rule that differs from the written rule's is announced,
\* and only texts as long as the limit of RE2 can cause one (clampRE2Repeats).
THEOREM ClampingIsAnnounced == Spec => []VerdictAsWritten
BY WafInvariance, InvGivesVerdict, PTL

----------------------------------------------------------------------------
(* The firewall: what the option loop has read *)

\* The flags the loop reads, what each sets, to what, and what is there without it.
ReadFlags == {"-p", "-s", "-d", "--dport", "--dports", "-j"}
Field(f, r, t) ==
    CASE f = "-p" -> r.proto [] f = "-s" -> r.src [] f = "-d" -> r.dst
      [] f = "--dport" -> <<r.lo, r.hi>> [] f = "--dports" -> r.set [] OTHER -> t
Meaning(f, v) ==
    CASE f \in {"-s", "-d"} -> HostNet(v)
      [] f = "--dport" -> <<v.lo, v.hi>> [] f = "--dports" -> PortSet(v) [] OTHER -> v
Default(f) == Field(f, NewRule, "")

\* Option i is the last one with flag f among the first n of os.
LastWith(os, f, i, n) ==
    i \in 1..n /\ os[i].flag = f /\ \A j \in (i + 1)..n : os[j].flag # f

\* Rule r and target t are what the last option of each flag says, of the first
\* n of os.
ReadSoFar(os, n, r, t) ==
    \A f \in ReadFlags :
        \/ Field(f, r, t) = Default(f) /\ \A i \in 1..n : os[i].flag # f
        \/ \E i \in 1..n : LastWith(os, f, i, n) /\ Field(f, r, t) = Meaning(f, os[i].val)

FwRule == [action: Actions, proto: ProtoText, src: SUBSET AnyHost, dst: SUBSET AnyHost,
           lo: Int, hi: Int, set: SUBSET Int]

CompactMeaning ==
    [action |-> IF override # "" THEN override ELSE compact.action,
     proto |-> compact.proto, src |-> HostNet(compact.src), dst |-> HostNet(compact.dst),
     lo |-> PortRange(compact.port).lo, hi |-> PortRange(compact.port).hi, set |-> {}]

FirewallInv ==
    /\ engine \in {"compact", "iptables"} /\ override \in Actions
    /\ compact \in Compact /\ options \in Seq(Option)
    /\ stage \in {"writing", "parsing", "compiled", "refused"}
    /\ pos \in 1..(Len(options) + 1)
    /\ rule \in FwRule
    /\ stage = "writing" => pos = 1 /\ rule = NewRule /\ target = ""
    /\ stage = "parsing" /\ engine = "iptables" =>
         ReadSoFar(options, pos - 1, rule, target) /\ rule.action = "deny"
    /\ stage = "compiled" /\ engine = "iptables" =>
         \E r \in FwRule :
           /\ ReadSoFar(options, Len(options), r, target)
           /\ rule = [r EXCEPT !.action = TargetAction, !.proto = IF @ = "all" THEN "any" ELSE @]
    /\ stage = "compiled" /\ engine = "compact" => rule = CompactMeaning

----------------------------------------------------------------------------
(* The firewall: options *)

LEMMA OptionShape ==
    ASSUME NEW o \in Option
    PROVE  /\ o.flag = "-p" => o.val \in ProtoText
           /\ o.flag \in {"-s", "-d"} => o.val \in HostText
           /\ o.flag = "--dport" => o.val \in Interval
           /\ o.flag = "--dports" => o.val \in PortLists
           /\ o.flag = "-j" => o.val \in Jumps
BY DEF Option

LEMMA HostNetType ==
    ASSUME NEW t \in HostText PROVE HostNet(t) \subseteq AnyHost
BY NetAssumption DEF HostText, HostNet, AnyHost

LEMMA IntervalShape ==
    ASSUME NEW t \in Interval PROVE t.lo \in Int /\ t.hi \in Int
<1>1. t \in PortText
    BY DEF Interval
<1>2. \A x \in Ports \union {0} : x \in Int
    BY PortAssumption DEF Ports
<1>3. t.lo \in Ports \union {0} /\ t.hi \in Ports \union {0}
    BY <1>1, Zenon DEF PortText
<1> QED
    BY <1>2, <1>3

LEMMA PortSetType ==
    ASSUME NEW parts \in PortLists PROVE PortSet(parts) \subseteq Int
<1>1. parts \in Seq(Interval)
    BY ListAssumption
<1>2. ASSUME NEW i \in DOMAIN parts PROVE parts[i].lo .. parts[i].hi \subseteq Int
  <2>1. parts[i] \in Interval
      BY <1>1
  <2> QED
      BY <2>1, IntervalShape
<1> QED
    BY <1>2 DEF PortSet

Retargeted(o, t) == IF o.flag = "-j" THEN o.val ELSE t

\* An option sets the field of its flag and no other, and keeps the action.
LEMMA AppliedSets ==
    ASSUME NEW r \in FwRule, NEW o \in Option, NEW t
    PROVE  /\ Applied(r, o) \in FwRule /\ Applied(r, o).action = r.action
           /\ \A f \in ReadFlags :
                Field(f, Applied(r, o), Retargeted(o, t))
                  = IF f = o.flag THEN Meaning(f, o.val) ELSE Field(f, r, t)
<1>1. CASE o.flag = "-p"
    BY <1>1, OptionShape DEF Applied, FwRule, Field, Meaning, ReadFlags, Retargeted
<1>2. CASE o.flag = "-s"
  <2>1. HostNet(o.val) \subseteq AnyHost
      BY <1>2, OptionShape, HostNetType
  <2> QED
      BY <1>2, <2>1 DEF Applied, FwRule, Field, Meaning, ReadFlags, Retargeted
<1>3. CASE o.flag = "-d"
  <2>1. HostNet(o.val) \subseteq AnyHost
      BY <1>3, OptionShape, HostNetType
  <2> QED
      BY <1>3, <2>1 DEF Applied, FwRule, Field, Meaning, ReadFlags, Retargeted
<1>4. CASE o.flag = "--dport"
  <2>1. o.val.lo \in Int /\ o.val.hi \in Int
      BY <1>4, OptionShape, IntervalShape
  <2> QED
      BY <1>4, <2>1 DEF Applied, FwRule, Field, Meaning, ReadFlags, Retargeted
<1>5. CASE o.flag = "--dports"
  <2>1. PortSet(o.val) \subseteq Int
      BY <1>5, OptionShape, PortSetType
  <2> QED
      BY <1>5, <2>1 DEF Applied, FwRule, Field, Meaning, ReadFlags, Retargeted
<1>6. CASE o.flag \notin {"-p", "-s", "-d", "--dport", "--dports"}
    BY <1>6 DEF Applied, FwRule, Field, Meaning, ReadFlags, Retargeted
<1> QED
    BY <1>1, <1>2, <1>3, <1>4, <1>5, <1>6

LEMMA ReadOneMore ==
    ASSUME NEW os, NEW n \in Nat, NEW r, NEW t, NEW s, NEW u, ReadSoFar(os, n, r, t),
           \A f \in ReadFlags :
             Field(f, s, u) = IF f = os[n + 1].flag THEN Meaning(f, os[n + 1].val)
                              ELSE Field(f, r, t)
    PROVE  ReadSoFar(os, n + 1, s, u)
<1> SUFFICES ASSUME NEW f \in ReadFlags
             PROVE  \/ /\ Field(f, s, u) = Default(f)
                       /\ \A i \in 1..(n + 1) : os[i].flag # f
                    \/ \E i \in 1..(n + 1) :
                         LastWith(os, f, i, n + 1) /\ Field(f, s, u) = Meaning(f, os[i].val)
    BY DEF ReadSoFar
<1>1. CASE f = os[n + 1].flag
  <2>1. LastWith(os, f, n + 1, n + 1)
      BY <1>1 DEF LastWith
  <2> QED
      BY <1>1, <2>1
<1>2. CASE f # os[n + 1].flag
  <2>1. CASE Field(f, r, t) = Default(f) /\ \A i \in 1..n : os[i].flag # f
    <3>1. \A i \in 1..(n + 1) : i \in 1..n \/ i = n + 1
        OBVIOUS
    <3> QED
        BY <1>2, <2>1, <3>1
  <2>2. CASE \E i \in 1..n : LastWith(os, f, i, n) /\ Field(f, r, t) = Meaning(f, os[i].val)
    <3>1. PICK i \in 1..n : LastWith(os, f, i, n) /\ Field(f, r, t) = Meaning(f, os[i].val)
        BY <2>2
    <3>2. \A j \in (i + 1)..(n + 1) : j \in (i + 1)..n \/ j = n + 1
        OBVIOUS
    <3>3. LastWith(os, f, i, n + 1) /\ i \in 1..(n + 1)
        BY <1>2, <3>1, <3>2 DEF LastWith
    <3> QED
        BY <1>2, <3>1, <3>3
  <2> QED
      BY <2>1, <2>2 DEF ReadSoFar
<1> QED
    BY <1>1, <1>2

----------------------------------------------------------------------------
(* The firewall: the invariant *)

LEMMA NewRuleType == NewRule \in FwRule
<1>1. "deny" \in Actions /\ "any" \in ProtoText
    BY DEF Actions, ProtoText
<1> QED
    BY <1>1 DEF NewRule, FwRule

LEMMA InitFirewallInv == FirewallInit => FirewallInv
<1> SUFFICES ASSUME FirewallInit PROVE FirewallInv
    OBVIOUS
<1>1. compact \in Compact
    BY DEF FirewallInit, Compact, Actions, ProtoText, HostText, PortText
<1>2. options = <<>> /\ pos = 1 /\ rule = NewRule /\ stage = "writing" /\ target = ""
    BY Zenon DEF FirewallInit
<1>3. options = <<>>
    BY <1>2
<1>5. pos = 1
    BY <1>2
<1>6. options \in Seq(Option) /\ pos \in 1..(Len(options) + 1)
    BY <1>3, <1>5
<1>4. engine \in {"compact", "iptables"} /\ override \in Actions
    BY Zenon DEF FirewallInit
<1> QED
    BY <1>1, <1>2, <1>4, <1>6, NewRuleType DEF FirewallInv

LEMMA NewRuleReadsNothing == \A os : ReadSoFar(os, 0, NewRule, "")
BY DEF ReadSoFar, Default

LEMMA CompactMeaningType ==
    ASSUME FirewallInv PROVE CompactMeaning \in FwRule
<1>1. /\ compact.action \in Actions /\ compact.proto \in ProtoText
      /\ compact.src \in HostText /\ compact.dst \in HostText /\ compact.port \in PortText
    BY DEF FirewallInv, Compact
<1>2. (IF override # "" THEN override ELSE compact.action) \in Actions
    BY <1>1 DEF FirewallInv
<1>3. HostNet(compact.src) \subseteq AnyHost /\ HostNet(compact.dst) \subseteq AnyHost
    BY <1>1, HostNetType
<1>4. PortRange(compact.port).lo \in Int /\ PortRange(compact.port).hi \in Int
    BY <1>1, IntervalShape DEF PortRange, Interval
<1> QED
    BY <1>1, <1>2, <1>3, <1>4 DEF CompactMeaning, FwRule

\* What an option of a rule is read to is not changed by what is written after it.
LEMMA NextFirewallInv ==
    ASSUME FirewallInv, [FirewallNext]_firewallVars PROVE FirewallInv'
<1>1. ASSUME WriteCompact PROVE FirewallInv'
    BY <1>1 DEF WriteCompact, FirewallInv
<1>2. ASSUME WriteOption PROVE FirewallInv'
  <2>1. PICK o \in Option :
            /\ options' = Append(options, o) /\ engine = "iptables" /\ stage = "writing"
            /\ UNCHANGED <<engine, override, compact, pos, rule, target, stage>>
      BY <1>2, Zenon DEF WriteOption
  <2>2. options \in Seq(Option) /\ pos = 1
      BY <2>1 DEF FirewallInv
  <2>3. options' \in Seq(Option) /\ pos' \in 1..(Len(options') + 1)
      BY <2>1, <2>2
  <2> QED
      BY <2>1, <2>3 DEF FirewallInv
<1>3. ASSUME Submit PROVE FirewallInv'
  <2>1. /\ UNCHANGED <<engine, override, compact, options, pos, rule, target>>
        /\ stage' = "parsing" /\ pos = 1 /\ rule = NewRule /\ target = ""
      BY <1>3 DEF Submit, FirewallInv
  <2>2. ReadSoFar(options', pos' - 1, rule', target')
    <3>0. pos' = 1
        BY <2>1
    <3>1. pos' - 1 = 0
        BY <3>0
    <3>2. rule' = NewRule /\ target' = ""
        BY <2>1
    <3> QED
        BY <3>1, <3>2, NewRuleReadsNothing
  <2>3. rule'.action = "deny"
      BY <2>1 DEF NewRule
  <2> QED
      BY <2>1, <2>2, <2>3 DEF FirewallInv
<1>4. ASSUME CompileCompact PROVE FirewallInv'
  <2>1. /\ UNCHANGED <<engine, override, compact, options, pos, target>>
        /\ rule' = CompactMeaning /\ engine = "compact" /\ stage' \in {"compiled", "refused"}
      BY <1>4 DEF CompileCompact, CompactMeaning
  <2>2. CompactMeaning' = CompactMeaning
      BY <2>1 DEF CompactMeaning
  <2> QED
      BY <2>1, <2>2, CompactMeaningType DEF FirewallInv
<1>5. ASSUME ParseOption PROVE FirewallInv'
  <2> DEFINE o == options[pos]
  <2>1. /\ UNCHANGED <<engine, override, compact, options>> /\ pos' = pos + 1
        /\ engine = "iptables" /\ stage = "parsing" /\ pos <= Len(options) /\ pos \in Nat
        /\ pos' \in 1..(Len(options') + 1) /\ o \in Option
      BY <1>5 DEF ParseOption, FirewallInv
  <2>2. CASE stage' = "refused" /\ UNCHANGED <<rule, target>>
      BY <2>1, <2>2 DEF FirewallInv
  <2>3. CASE /\ rule' = Applied(rule, o) /\ UNCHANGED stage
             /\ target' = IF o.flag = "-j" THEN o.val ELSE target
    <3>1. rule \in FwRule /\ ReadSoFar(options, pos - 1, rule, target) /\ rule.action = "deny"
        BY <2>1 DEF FirewallInv
    <3>2. /\ Applied(rule, o) \in FwRule /\ Applied(rule, o).action = rule.action
          /\ \A f \in ReadFlags :
               Field(f, Applied(rule, o), Retargeted(o, target))
                 = IF f = o.flag THEN Meaning(f, o.val) ELSE Field(f, rule, target)
      <4>1. o \in Option
          BY <2>1
      <4> HIDE DEF o
      <4> QED
          BY <3>1, <4>1, AppliedSets
    <3>3. pos - 1 \in Nat /\ (pos - 1) + 1 = pos
        BY <2>1 DEF FirewallInv
    <3>4. ReadSoFar(options, pos, Applied(rule, o), Retargeted(o, target))
        BY <3>1, <3>2, <3>3, ReadOneMore
    <3>5. pos' - 1 = pos
        BY <2>1
    <3>6. ReadSoFar(options', pos' - 1, rule', target')
        BY <2>1, <2>3, <3>4, <3>5 DEF Retargeted
    <3>7. rule' \in FwRule /\ rule'.action = "deny"
        BY <2>3, <3>1, <3>2
    <3> QED
        BY <2>1, <2>3, <3>6, <3>7 DEF FirewallInv
  <2> QED
      BY <1>5, <2>2, <2>3 DEF ParseOption
<1>6. ASSUME FinishIptables PROVE FirewallInv'
  <2>1. /\ UNCHANGED <<engine, override, compact, options, pos, target>>
        /\ engine = "iptables" /\ stage = "parsing" /\ stage' = "compiled"
        /\ rule' = [rule EXCEPT !.action = TargetAction, !.proto = IF @ = "all" THEN "any" ELSE @]
      BY <1>6 DEF FinishIptables
  <2>2. pos - 1 = Len(options) /\ pos \in 1..(Len(options) + 1)
      BY <1>6, <2>1 DEF FinishIptables, FirewallInv
  <2>4. rule \in FwRule /\ ReadSoFar(options, Len(options), rule, target)
      BY <2>1, <2>2 DEF FirewallInv
  <2>3. TargetAction' = TargetAction
      BY <2>1 DEF TargetAction
  <2>5. rule' \in FwRule
    <3>1. TargetAction \in Actions /\ (IF rule.proto = "all" THEN "any" ELSE rule.proto) \in ProtoText
        BY <2>4 DEF TargetAction, Actions, FirewallInv, FwRule, ProtoText
    <3> QED
        BY <2>1, <2>4, <3>1 DEF FwRule
  <2>6. \E r \in FwRule :
          /\ ReadSoFar(options', Len(options'), r, target')
          /\ rule' = [r EXCEPT !.action = TargetAction', !.proto = IF @ = "all" THEN "any" ELSE @]
      BY <2>1, <2>3, <2>4
  <2> QED
      BY <2>1, <2>5, <2>6 DEF FirewallInv
<1>7. ASSUME UNCHANGED firewallVars PROVE FirewallInv'
  <2>1. UNCHANGED <<engine, override, compact, options, pos, rule, target, stage>>
      BY <1>7 DEF firewallVars
  <2>2. TargetAction' = TargetAction /\ CompactMeaning' = CompactMeaning
      BY <2>1 DEF TargetAction, CompactMeaning
  <2> QED
      BY <2>1, <2>2 DEF FirewallInv
<1> QED
    BY <1>1, <1>2, <1>3, <1>4, <1>5, <1>6, <1>7 DEF FirewallNext, Done

THEOREM FirewallInvariance == FirewallSpec => []FirewallInv
<1>1. FirewallInv /\ [FirewallNext]_firewallVars => FirewallInv'
    BY NextFirewallInv
<1> QED
    BY InitFirewallInv, <1>1, PTL DEF FirewallSpec

----------------------------------------------------------------------------
(* The firewall: the verdict *)

LEMMA LastIsUnique ==
    ASSUME NEW os, NEW f, NEW n \in Nat, NEW i, NEW j, LastWith(os, f, i, n), LastWith(os, f, j, n)
    PROVE  i = j
<1>1. i \in 1..n /\ j \in 1..n /\ ~(j \in (i + 1)..n) /\ ~(i \in (j + 1)..n)
    BY DEF LastWith
<1> QED
    BY <1>1

\* The last option of each flag allows c.
Allowed(f, c) ==
    \A i \in 1..Len(options) : LastWith(options, f, i, Len(options)) => Fits(options[i], c)

LEMMA DescribesByFlags ==
    ASSUME options \in Seq(Option), NEW c
    PROVE  Describes(c) <=> /\ Allowed("-p", c) /\ Allowed("-s", c) /\ Allowed("-d", c)
                            /\ Allowed("--dport", c) /\ Allowed("--dports", c)
<1> DEFINE n == Len(options)
<1>1. n \in Nat /\ DOMAIN options = 1..n
    OBVIOUS
<1>2. ASSUME NEW i \in 1..n, NEW f
      PROVE  LastWith(options, f, i, n) <=> options[i].flag = f /\ Decides(i, n)
    BY <1>2 DEF LastWith, Decides
<1>3. ASSUME NEW i \in 1..n,
             options[i].flag \notin {"-p", "-s", "-d", "--dport", "--dports"}
      PROVE  Fits(options[i], c)
    BY <1>3 DEF Fits
<1> QED
    BY <1>1, <1>2, <1>3 DEF Describes, Allowed

\* What the option of a flag left in the rule, or that there is none.
LEMMA FieldOfFlag ==
    ASSUME options \in Seq(Option), NEW r, NEW t, ReadSoFar(options, Len(options), r, t),
           NEW f \in ReadFlags, NEW c
    PROVE  \/ /\ Field(f, r, t) = Default(f)
              /\ \A i \in DOMAIN options : options[i].flag # f
              /\ Allowed(f, c)
           \/ \E i \in DOMAIN options :
                /\ options[i].flag = f /\ options[i] \in Option
                /\ LastWith(options, f, i, Len(options))
                /\ Field(f, r, t) = Meaning(f, options[i].val)
                /\ Allowed(f, c) <=> Fits(options[i], c)
<1> DEFINE n == Len(options)
<1>1. n \in Nat /\ DOMAIN options = 1..n
    OBVIOUS
<1>2. CASE Field(f, r, t) = Default(f) /\ \A i \in 1..n : options[i].flag # f
    BY <1>1, <1>2 DEF Allowed, LastWith
<1>3. CASE \E i \in 1..n : LastWith(options, f, i, n) /\ Field(f, r, t) = Meaning(f, options[i].val)
  <2>1. PICK i \in 1..n : LastWith(options, f, i, n) /\ Field(f, r, t) = Meaning(f, options[i].val)
      BY <1>3
  <2>2. options[i].flag = f /\ options[i] \in Option
      BY <2>1, <1>1 DEF LastWith
  <2>3. \A j \in 1..n : LastWith(options, f, j, n) => j = i
      BY <1>1, <2>1, LastIsUnique
  <2>4. Allowed(f, c) <=> Fits(options[i], c)
      BY <2>1, <2>3 DEF Allowed
  <2> QED
      BY <1>1, <2>1, <2>2, <2>4
<1> QED
    BY <1>2, <1>3 DEF ReadSoFar

\* What the option of a port flag means to the connection.
LEMMA PortsFollowText ==
    ASSUME options \in Seq(Option), NEW r \in FwRule, NEW t, ReadSoFar(options, Len(options), r, t),
           Plain, NEW c \in Connection
    PROVE  PortMatches(r, c.port) <=> Allowed("--dport", c) /\ Allowed("--dports", c)
<1>1. c.port \in Int /\ r.lo \in Int /\ r.hi \in Int
  <2>1. c.port \in Ports /\ Ports \subseteq Int
      BY PortAssumption DEF Connection, Ports
  <2> QED
      BY <2>1 DEF FwRule
<1>2. \/ /\ <<r.lo, r.hi>> = <<0, 0>>
         /\ \A i \in DOMAIN options : options[i].flag # "--dport"
         /\ Allowed("--dport", c)
      \/ \E i \in DOMAIN options :
           /\ options[i].flag = "--dport" /\ options[i] \in Option
           /\ <<r.lo, r.hi>> = <<options[i].val.lo, options[i].val.hi>>
           /\ Allowed("--dport", c) <=> Fits(options[i], c)
  <2>1. /\ Field("--dport", r, t) = <<r.lo, r.hi>> /\ Default("--dport") = <<0, 0>>
        /\ \A v : Meaning("--dport", v) = <<v.lo, v.hi>>
      BY DEF Field, Default, NewRule, Meaning
  <2>2. "--dport" \in ReadFlags
      BY DEF ReadFlags
  <2>3. \/ /\ Field("--dport", r, t) = Default("--dport")
           /\ \A i \in DOMAIN options : options[i].flag # "--dport"
           /\ Allowed("--dport", c)
        \/ \E i \in DOMAIN options :
             /\ options[i].flag = "--dport" /\ options[i] \in Option
             /\ Field("--dport", r, t) = Meaning("--dport", options[i].val)
             /\ Allowed("--dport", c) <=> Fits(options[i], c)
      BY <2>2, FieldOfFlag
  <2> QED
      BY <2>1, <2>3, Zenon
<1>3. \/ /\ r.set = {}
         /\ \A i \in DOMAIN options : options[i].flag # "--dports"
         /\ Allowed("--dports", c)
      \/ \E i \in DOMAIN options :
           /\ options[i].flag = "--dports" /\ options[i] \in Option
           /\ r.set = PortSet(options[i].val)
           /\ Allowed("--dports", c) <=> Fits(options[i], c)
  <2>1. /\ Field("--dports", r, t) = r.set /\ Default("--dports") = {}
        /\ \A v : Meaning("--dports", v) = PortSet(v)
      BY DEF Field, Default, NewRule, Meaning
  <2>2. "--dports" \in ReadFlags
      BY DEF ReadFlags
  <2> QED
      BY <2>1, <2>2, FieldOfFlag
<1>4. CASE \E i \in DOMAIN options : options[i].flag = "--dports"
  <2>1. PICK i \in DOMAIN options :
          /\ options[i].flag = "--dports"
          /\ r.set = PortSet(options[i].val)
          /\ Allowed("--dports", c) <=> Fits(options[i], c)
      BY <1>3, <1>4
  <2>2. r.set # {} /\ Allowed("--dport", c)
      BY <1>2, <2>1 DEF Plain, HasFlag
  <2>3. Fits(options[i], c) <=> c.port \in PortSet(options[i].val)
      BY <2>1 DEF Fits, PortSet
  <2> QED
      BY <2>1, <2>2, <2>3 DEF PortMatches
<1>5. CASE \A i \in DOMAIN options : options[i].flag # "--dports"
  <2>1. r.set = {} /\ Allowed("--dports", c)
      BY <1>3, <1>5
  <2>2. CASE <<r.lo, r.hi>> = <<0, 0>> /\ Allowed("--dport", c)
      BY <2>1, <2>2 DEF PortMatches
  <2>3. CASE \E i \in DOMAIN options :
               /\ options[i].flag = "--dport"
               /\ <<r.lo, r.hi>> = <<options[i].val.lo, options[i].val.hi>>
               /\ Allowed("--dport", c) <=> Fits(options[i], c)
    <3>1. PICK i \in DOMAIN options :
            /\ options[i].flag = "--dport"
            /\ <<r.lo, r.hi>> = <<options[i].val.lo, options[i].val.hi>>
            /\ Allowed("--dport", c) <=> Fits(options[i], c)
        BY <2>3
    <3>2. 0 < r.lo /\ r.lo <= r.hi
        BY <3>1 DEF Plain
    <3>3. Fits(options[i], c) <=> c.port \in r.lo .. r.hi
        BY <3>1 DEF Fits
    <3> QED
        BY <1>1, <2>1, <3>1, <3>2, <3>3 DEF PortMatches
  <2> QED
      BY <1>2, <2>2, <2>3
<1> QED
    BY <1>4, <1>5

LEMMA HostsFollowText ==
    ASSUME options \in Seq(Option), NEW r, NEW t, ReadSoFar(options, Len(options), r, t),
           NEW c \in Connection
    PROVE  /\ c.src \in r.src <=> Allowed("-s", c)
           /\ c.dst \in r.dst <=> Allowed("-d", c)
<1>1. "-s" \in ReadFlags /\ "-d" \in ReadFlags /\ c.src \in AnyHost /\ c.dst \in AnyHost
    BY DEF ReadFlags, Connection
<1>2. /\ Field("-s", r, t) = r.src /\ Default("-s") = AnyHost
      /\ Field("-d", r, t) = r.dst /\ Default("-d") = AnyHost
      /\ \A v : Meaning("-s", v) = HostNet(v) /\ Meaning("-d", v) = HostNet(v)
    BY DEF Field, Default, NewRule, Meaning
<1>3. ASSUME NEW o
      PROVE  /\ o.flag = "-s" => (Fits(o, c) <=> c.src \in HostNet(o.val))
             /\ o.flag = "-d" => (Fits(o, c) <=> c.dst \in HostNet(o.val))
    BY DEF Fits
<1>4. c.src \in r.src <=> Allowed("-s", c)
    BY <1>1, <1>2, <1>3, FieldOfFlag
<1>5. c.dst \in r.dst <=> Allowed("-d", c)
    BY <1>1, <1>2, <1>3, FieldOfFlag
<1> QED
    BY <1>4, <1>5

LEMMA ProtocolFollowsText ==
    ASSUME options \in Seq(Option), NEW r, NEW t, ReadSoFar(options, Len(options), r, t), NEW c
    PROVE  (IF r.proto = "all" THEN "any" ELSE r.proto) \in {"any", c.proto} <=> Allowed("-p", c)
<1>1. "-p" \in ReadFlags
    BY DEF ReadFlags
<1>2. /\ Field("-p", r, t) = r.proto /\ Default("-p") = "any"
      /\ \A v : Meaning("-p", v) = v
    BY DEF Field, Default, NewRule, Meaning
<1>3. ASSUME NEW o, o.flag = "-p" PROVE Fits(o, c) <=> o.val \in {"any", "all", c.proto}
    BY <1>3 DEF Fits
<1>4. \/ r.proto = "any" /\ Allowed("-p", c)
      \/ Allowed("-p", c) <=> r.proto \in {"any", "all", c.proto}
    BY <1>1, <1>2, <1>3, FieldOfFlag
<1> QED
    BY <1>4

\* The target read is the last one written, or none.
TargetRead(os, t) ==
    \/ t = "" /\ \A i \in DOMAIN os : os[i].flag # "-j"
    \/ \E i \in DOMAIN os : LastWith(os, "-j", i, Len(os)) /\ t = os[i].val

LEMMA TargetOfFlag ==
    ASSUME NEW os \in Seq(Option), NEW r, NEW t, ReadSoFar(os, Len(os), r, t)
    PROVE  TargetRead(os, t)
<1>1. "-j" \in ReadFlags /\ Field("-j", r, t) = t /\ Default("-j") = ""
      /\ \A v : Meaning("-j", v) = v
    BY DEF ReadFlags, Field, Default, Meaning
<1>2. DOMAIN os = 1..Len(os)
    OBVIOUS
<1>3. \/ Field("-j", r, t) = Default("-j") /\ \A i \in 1..Len(os) : os[i].flag # "-j"
      \/ \E i \in 1..Len(os) :
           LastWith(os, "-j", i, Len(os)) /\ Field("-j", r, t) = Meaning("-j", os[i].val)
    BY <1>1, Zenon DEF ReadSoFar
<1> QED
    BY <1>1, <1>2, <1>3 DEF TargetRead

LEMMA TargetFollowsText ==
    ASSUME FirewallInv, NEW r, ReadSoFar(options, Len(options), r, target)
    PROVE  TargetAction = "deny" <=> Denies
<1> DEFINE n == Len(options)
<1>0. options \in Seq(Option)
    BY DEF FirewallInv
<1>1. n \in Nat /\ DOMAIN options = 1..n
    BY <1>0
<1>3. ASSUME NEW i \in 1..n
      PROVE  LastWith(options, "-j", i, n) <=> options[i].flag = "-j" /\ Decides(i, n)
    BY <1>3 DEF LastWith, Decides
<1>4. CASE target = "" /\ \A i \in DOMAIN options : options[i].flag # "-j"
    BY <1>4 DEF TargetAction, Denies
<1>5. CASE \E i \in DOMAIN options :
             /\ options[i].flag = "-j" /\ options[i] \in Option
             /\ LastWith(options, "-j", i, n) /\ target = options[i].val
  <2>1. PICK i \in DOMAIN options :
          /\ options[i].flag = "-j" /\ options[i] \in Option
          /\ LastWith(options, "-j", i, n) /\ target = options[i].val
      BY <1>5
  <2>2. \A j \in DOMAIN options : options[j].flag = "-j" /\ Decides(j, n) <=> j = i
      BY <1>0, <1>1, <1>3, <2>1, LastIsUnique
  <2>3. target \in {"DROP", "REJECT", "ACCEPT", "LOG"}
      BY <2>1, OptionShape DEF Jumps
  <2>4. Denies <=> IF target # "LOG" THEN target # "ACCEPT" ELSE override \in {"", "deny"}
      BY <2>1, <2>2 DEF Denies
  <2> QED
      BY <2>3, <2>4 DEF TargetAction
<1>6. \/ target = "" /\ \A i \in DOMAIN options : options[i].flag # "-j"
      \/ \E i \in DOMAIN options :
           LastWith(options, "-j", i, Len(options)) /\ target = options[i].val
  <2>1. TargetRead(options, target)
      BY <1>0, TargetOfFlag
  <2> QED
      BY <2>1 DEF TargetRead
<1>7. \A i \in DOMAIN options :
        LastWith(options, "-j", i, n) => options[i].flag = "-j" /\ options[i] \in Option
    BY <1>0, <1>1 DEF LastWith
<1> QED
    BY <1>4, <1>5, <1>6, <1>7

LEMMA InvGivesText == FirewallInv => VerdictFollowsText
<1> SUFFICES ASSUME FirewallInv, stage = "compiled", engine = "iptables", Plain,
                    NEW c \in Connection
             PROVE  Blocks(rule, c) <=> Denies /\ Describes(c)
    BY DEF VerdictFollowsText
<1>1. options \in Seq(Option)
    BY DEF FirewallInv
<1>2. PICK r \in FwRule :
        /\ ReadSoFar(options, Len(options), r, target)
        /\ rule = [r EXCEPT !.action = TargetAction, !.proto = IF @ = "all" THEN "any" ELSE @]
    BY DEF FirewallInv
<1>3. /\ rule.action = TargetAction /\ rule.proto = IF r.proto = "all" THEN "any" ELSE r.proto
      /\ rule.src = r.src /\ rule.dst = r.dst
      /\ PortMatches(rule, c.port) <=> PortMatches(r, c.port)
    BY <1>2 DEF FwRule, PortMatches
<1>4. Matches(rule, c) <=> Describes(c)
    BY <1>1, <1>2, <1>3, ProtocolFollowsText, HostsFollowText, PortsFollowText, DescribesByFlags
    DEF Matches
<1> QED
    BY <1>2, <1>3, <1>4, TargetFollowsText DEF Blocks

\* A plain iptables rule, of any length, blocks exactly what its options describe
\* (compileIptablesRule, matches).
THEOREM VerdictFollowsTextHolds == FirewallSpec => []VerdictFollowsText
BY FirewallInvariance, InvGivesText, PTL

LEMMA InvGivesAgreement == FirewallInv => SyntaxesAgree
<1> SUFFICES ASSUME FirewallInv, stage = "compiled", engine = "compact", compact.proto # "all"
             PROVE  SyntaxesAgree
    BY DEF SyntaxesAgree
<1> DEFINE p == Applied(NewRule, [flag |-> "-p", val |-> compact.proto])
           s == Applied(p, [flag |-> "-s", val |-> compact.src])
           d == Applied(s, [flag |-> "-d", val |-> compact.dst])
           r == IF compact.port.any THEN d
                ELSE Applied(d, [flag |-> "--dport", val |-> compact.port])
<1>1. rule = CompactMeaning
    BY DEF FirewallInv
<1>2. p = [NewRule EXCEPT !.proto = compact.proto]
    BY DEF Applied
<1>3. s = [p EXCEPT !.src = HostNet(compact.src)]
    BY DEF Applied
<1>4. d = [s EXCEPT !.dst = HostNet(compact.dst)]
    BY DEF Applied
<1>5. r = IF compact.port.any THEN d ELSE [d EXCEPT !.lo = compact.port.lo, !.hi = compact.port.hi]
    BY DEF Applied
<1>6. /\ r.proto = compact.proto /\ r.src = HostNet(compact.src) /\ r.dst = HostNet(compact.dst)
      /\ r.lo = PortRange(compact.port).lo /\ r.hi = PortRange(compact.port).hi /\ r.set = {}
  <2> HIDE DEF p, s, d, r
  <2> QED
      BY <1>2, <1>3, <1>4, <1>5 DEF NewRule, PortRange
<1> HIDE DEF p, s, d, r
<1>7. \A c \in Connection : Matches(rule, c) <=> Matches(r, c)
    BY <1>1, <1>6 DEF CompactMeaning, Matches, PortMatches
<1> QED
    BY <1>7 DEF SyntaxesAgree, p, s, d, r

\* A compact rule matches what the same rule written for iptables matches
\* (compileFirewallRule, compileIptablesRule).
THEOREM SyntaxesAgreeHolds == FirewallSpec => []SyntaxesAgree
BY FirewallInvariance, InvGivesAgreement, PTL
=============================================================================
