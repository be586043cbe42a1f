----------------------------- MODULE PolicyMatch -----------------------------
(***************************************************************************)
(* Which rule of a Panorama configuration a flow meets.  Two tools read the *)
(* configuration as XML: check_policy_match.py walks the rules of a device  *)
(* group and stops at the first that covers the flow; report_flow_rules.py  *)
(* lists every one, and sets aside those a list of subnets suppresses.  Two *)
(* others read it over REST, scope by scope (app/palo/pan_ip_rules.py): the *)
(* search for rules by address and the flow search of the web page.         *)
(*                                                                         *)
(* A network is the set of its addresses.  A scope is [addresses: name ->   *)
(* [fqdn, nets], groups: name -> [dynamic, members], services: name ->      *)
(* [proto, ports], svcGroups: name -> sequence, pre, post: rules]; "shared" *)
(* is one and a device group is one with a name and a parent.               *)
(***************************************************************************)
EXTENDS Integers, Sequences, FiniteSets, SequencesExt, FiniteSetsExt

CONSTANTS AllAddresses,     \* every address (0.0.0.0/0)
          Web, Secure, Proxy   \* ports 80, 443, 8080

NoOne == [name |-> "none"]
Opt(s) == s = {}          \* an option of the query that was not given

-----------------------------------------------------------------------------
\* check_policy_match.py

AllScopes(c) == <<c.shared>> \o c.dgs

\* One table per kind of object for the whole configuration: the first scope
\* that defines a name wins, shared before the device groups.
FirstDefined(c, table) ==
    [n \in UNION {DOMAIN s[table] : s \in Range(AllScopes(c))} |->
        LET first == Min({i \in DOMAIN AllScopes(c) : n \in DOMAIN AllScopes(c)[i][table]})
        IN  AllScopes(c)[first][table][n]]

ParseRules(rules, base) ==
    [i \in DOMAIN rules |-> [rules[i] EXCEPT !.base = base, !.position = i]]

Default(name, action) ==
    [name |-> name, base |-> "default-rules", position |-> 1, disabled |-> FALSE,
     action |-> action, from |-> {"any"}, to |-> {"any"}, src |-> {"any"}, dst |-> {"any"},
     negSrc |-> FALSE, negDst |-> FALSE, services |-> <<"any">>]
DefaultRules == <<Default("intrazone-default", "allow"), Default("interzone-default", "deny")>>

Group(c, dg) == {i \in DOMAIN c.dgs : c.dgs[i].name = dg}

\* Leaf to root; stops at an unknown parent and at a cycle.
RECURSIVE AncestorChain(_, _, _)
AncestorChain(c, dg, seen) ==
    IF dg \in seen \/ Group(c, dg) = {} THEN <<>>
    ELSE LET g == c.dgs[CHOOSE i \in Group(c, dg) : TRUE]
         IN  <<g>> \o AncestorChain(c, g.parent, seen \cup {dg})

EvaluationChain(c, dg) ==
    LET up == AncestorChain(c, dg, {})
        Pre(g) == ParseRules(g.pre, g.name)
        Post(g) == ParseRules(g.post, g.name)
    IN  FlattenSeq(<<ParseRules(c.shared.pre, "shared")>> \o [i \in DOMAIN up |-> Pre(Reverse(up)[i])]
                   \o [i \in DOMAIN up |-> Post(up[i])] \o <<ParseRules(c.shared.post, "shared")>>)
        \o DefaultRules

RECURSIVE ResolveAddress(_, _, _)
ResolveAddress(c, name, visited) ==
    LET addresses == FirstDefined(c, "addresses")
        groups == FirstDefined(c, "groups")
    IN  CASE name \in visited \/ name = "any" -> {}
          [] name \notin visited /\ name \in DOMAIN addresses -> addresses[name].nets
          [] name \notin visited /\ name \in DOMAIN groups \ DOMAIN addresses ->
                UNION {ResolveAddress(c, m, visited \cup {name}) : m \in groups[name].members}
          [] OTHER -> IF name \in DOMAIN c.literals THEN {c.literals[name]} ELSE {}

Builtin == [n \in {"service-http", "service-https"} |->
               [proto |-> "tcp", ports |-> IF n = "service-http" THEN {Web} ELSE {Secure}]]

RECURSIVE ResolveService(_, _, _)
ResolveService(c, name, visited) ==
    LET services == FirstDefined(c, "services")
        groups == FirstDefined(c, "svcGroups")
    IN  CASE name \in visited \cup {"any", "application-default"} -> {}
          [] name \in DOMAIN Builtin \ visited -> {Builtin[name]}
          [] name \in DOMAIN services \ (visited \cup DOMAIN Builtin) -> {services[name]}
          [] name \in DOMAIN groups \ (visited \cup DOMAIN services) ->
                UNION {ResolveService(c, m, visited \cup {name}) : m \in Range(groups[name])}
          [] OTHER -> {}

MatchAddresses(c, ip, names) ==
    "any" \in names \/ \E n \in names : \E net \in ResolveAddress(c, n, {}) : ip \in net

\* A service without a port covers every port.
PortMatches(port, ports) == Opt(port) \/ ports = {} \/ port \subseteq ports

\* application-default covers any port, but only after a last service that
\* resolves to nothing.
MatchServices(c, q, services) ==
    \/ "any" \in Range(services)
    \/ Opt(q.proto) /\ Opt(q.port)
    \/ \E n \in Range(services) : \E e \in ResolveService(c, n, {}) :
          (Opt(q.proto) \/ q.proto = {e.proto}) /\ PortMatches(q.port, e.ports)
    \/ "application-default" \in Range(services) /\ ResolveService(c, Last(services), {}) = {}

ZoneMatches(zone, zones) == Opt(zone) \/ "any" \in zones \/ zone \subseteq zones

Covers(c, q, r) ==
    /\ ZoneMatches(q.srcZone, r.from) /\ ZoneMatches(q.dstZone, r.to)
    /\ MatchAddresses(c, q.src, r.src) # r.negSrc
    /\ MatchAddresses(c, q.dst, r.dst) # r.negDst
    /\ MatchServices(c, q, r.services)

\* The chain without the rules whose name is on the filter list.
Filtered(chain, skip) == LET Kept(r) == r.name \notin skip IN SelectSeq(chain, Kept)

\* The verdict: the first enabled rule that covers the flow.
Evaluate(c, q, dg, skip) ==
    LET chain == Filtered(EvaluationChain(c, dg), skip)
        hits == {i \in DOMAIN chain : ~chain[i].disabled /\ Covers(c, q, chain[i])}
    IN  IF hits = {} THEN NoOne ELSE chain[Min(hits)]

\* main: one verdict per device group; exit 0 if any of them allows.
PolicyTargets(c) == IF c.dgs = <<>> THEN {"shared"} ELSE {c.dgs[i].name : i \in DOMAIN c.dgs}
PolicyExit(c, q, skip) ==
    IF \E dg \in PolicyTargets(c) : Evaluate(c, q, dg, skip) # NoOne
                              /\ Evaluate(c, q, dg, skip).action = "allow" THEN 0 ELSE 1

-----------------------------------------------------------------------------
\* report_flow_rules.py

\* Why a side matched: the networks that hold the address.
AttributeMatch(c, ip, names) ==
    IF "any" \in names THEN {AllAddresses}
    ELSE {n \in UNION {ResolveAddress(c, m, {}) : m \in names} : ip \in n}

NetExcluded(net, filter, mode) ==
    IF mode = "within" THEN net \subseteq filter ELSE filter \subseteq net

\* Only when every network that holds the address is excluded; a negated side
\* has none.
SuppressedSide(attributes, filters, mode) ==
    /\ attributes # {} /\ filters # {}
    /\ \A a \in attributes : \E f \in filters : NetExcluded(a, f, mode)

\* Mutant: a suppressed rule is flagged after the decision, not before it.
ScanFlaggingLate(c, q, opts, acc, r) ==
    LET Side(ip, names, neg) == IF neg THEN {} ELSE AttributeMatch(c, ip, names)
        ok(ip, names, neg) == (AttributeMatch(c, ip, names) # {}) # neg
        dropped == r.base = "default-rules" /\ acc.decided /\ ~opts.defaults
        suppressed == \/ SuppressedSide(Side(q.src, r.src, r.negSrc), opts.filters, opts.mode)
                      \/ SuppressedSide(Side(q.dst, r.dst, r.negDst), opts.filters, opts.mode)
    IN  CASE \/ r.disabled \/ dropped
             \/ ~ZoneMatches(q.srcZone, r.from) \/ ~ZoneMatches(q.dstZone, r.to)
             \/ ~ok(q.src, r.src, r.negSrc) \/ ~ok(q.dst, r.dst, r.negDst)
             \/ ~MatchServices(c, q, r.services) -> acc
          [] OTHER ->
             IF suppressed
             THEN [acc EXCEPT !.suppressed = Append(@, r),
                              !.shadowed = IF acc.decided THEN Append(@, r) ELSE @]
             ELSE [acc EXCEPT !.matches = Append(@, r), !.decided = TRUE,
                              !.deciding = IF acc.decided THEN @ ELSE r]

\* The step of the walk: a covering rule is listed, the first as the one that
\* decides; a suppressed one is set aside, and flagged if nothing decided yet.
ScanRule(c, q, opts, acc, r) ==
    LET Side(ip, names, neg) == IF neg THEN {} ELSE AttributeMatch(c, ip, names)
        ok(ip, names, neg) == (AttributeMatch(c, ip, names) # {}) # neg
        dropped == r.base = "default-rules" /\ acc.decided /\ ~opts.defaults
        suppressed == \/ SuppressedSide(Side(q.src, r.src, r.negSrc), opts.filters, opts.mode)
                      \/ SuppressedSide(Side(q.dst, r.dst, r.negDst), opts.filters, opts.mode)
    IN  CASE \/ r.disabled \/ dropped
             \/ ~ZoneMatches(q.srcZone, r.from) \/ ~ZoneMatches(q.dstZone, r.to)
             \/ ~ok(q.src, r.src, r.negSrc) \/ ~ok(q.dst, r.dst, r.negDst)
             \/ ~MatchServices(c, q, r.services) -> acc
          [] OTHER ->
             IF suppressed
             THEN [acc EXCEPT !.suppressed = Append(@, r),
                              !.shadowed = IF acc.decided THEN @ ELSE Append(@, r)]
             ELSE [acc EXCEPT !.matches = Append(@, r), !.decided = TRUE,
                              !.deciding = IF acc.decided THEN @ ELSE r]

ScanFlow(c, q, dg, opts) ==
    LET Step(acc, r) == ScanRule(c, q, opts, acc, r)
    IN  FoldLeft(Step, [matches |-> <<>>, suppressed |-> <<>>, shadowed |-> <<>>,
                        decided |-> FALSE, deciding |-> NoOne],
                 Filtered(EvaluationChain(c, dg), opts.skip))

CustomMatches(c, q, opts) ==
    {r \in UNION {Range(ScanFlow(c, q, dg, opts).matches) : dg \in PolicyTargets(c)} : r.base # "default-rules"}

-----------------------------------------------------------------------------
\* recommend_dg.py: no new rule where one matches; else the device group with
\* most rules about the two subnets.

ExistingMatches(c, q, skip) ==
    {dg \in {c.dgs[i].name : i \in DOMAIN c.dgs} :
        LET v == Evaluate(c, q, dg, skip) IN v # NoOne /\ v.base # "default-rules"}

Overlapping(c, names, subnet) ==
    "any" \notin names /\ \E n \in names : \E net \in ResolveAddress(c, n, {}) : net \cap subnet # {}

ScoreRulebase(c, rules, src, dst) ==
    LET enabled == {i \in DOMAIN rules : ~rules[i].disabled}
        s == {i \in enabled : Overlapping(c, rules[i].src, src)}
        d == {i \in enabled : Overlapping(c, rules[i].dst, dst)}
    IN  Cardinality(s) + Cardinality(d) + Cardinality(s \cap d)

\* The first of the highest score by name (device groups are in name order);
\* without one, the shared rulebase to add to.
Recommendation(c, src, dst) ==
    LET Score(g) == ScoreRulebase(c, g.pre \o g.post, src, dst)
        best == Max({0} \cup {Score(c.dgs[i]) : i \in DOMAIN c.dgs})
    IN  IF best > 0 THEN c.dgs[Min({i \in DOMAIN c.dgs : Score(c.dgs[i]) = best})].name
        ELSE IF Score(c.shared) > 0 THEN "shared/pre-rulebase" ELSE "shared/post-rulebase"

-----------------------------------------------------------------------------
\* pan_ip_rules.py: one scope as read over REST, its own objects and the shared
\* ones; a name both define is the shared one (the later entry of the list).

RestTable(c, scope, table) ==
    [n \in DOMAIN scope[table] \cup DOMAIN c.shared[table] |->
        IF n \in DOMAIN c.shared[table] THEN c.shared[table][n] ELSE scope[table][n]]

\* The networks of a group: its addresses, nested groups and literals.
RECURSIVE ExpandGroup(_, _, _, _)
ExpandGroup(c, scope, name, seen) ==
    LET addresses == RestTable(c, scope, "addresses")
        groups == RestTable(c, scope, "groups")
    IN  IF name \in seen \/ name \notin DOMAIN groups THEN {}
        ELSE UNION {CASE m \in DOMAIN addresses -> addresses[m].nets
                      [] m \in DOMAIN groups \ DOMAIN addresses ->
                            ExpandGroup(c, scope, m, seen \cup {name})
                      [] OTHER -> IF m \in DOMAIN c.literals THEN {c.literals[m]} ELSE {}
                    : m \in groups[name].members}

\* The candidate networks of a member of a rule's side.
Candidates(c, scope, m) ==
    LET addresses == RestTable(c, scope, "addresses")
    IN  CASE m \in DOMAIN addresses -> addresses[m].nets
          [] m \in DOMAIN RestTable(c, scope, "groups") \ DOMAIN addresses -> ExpandGroup(c, scope, m, {})
          [] OTHER -> IF m \in DOMAIN c.literals THEN {c.literals[m]} ELSE {}

SideCoverage(c, scope, members, target) ==
    Opt(target) \/ members = {"any"} \/ \E m \in members : \E n \in Candidates(c, scope, m) : n \cap target # {}

\* service-http is ports 80 and 8080 here.
Predefined == [n \in {"service-http", "service-https"} |->
                  [proto |-> "tcp", ports |-> IF n = "service-http" THEN {Web, Proxy} ELSE {Secure}]]

ServiceCovers(proto, port, e) == (Opt(proto) \/ proto = {e.proto}) /\ port \subseteq e.ports

RECURSIVE RuleServiceCoverage(_, _, _, _, _, _)
RuleServiceCoverage(c, scope, names, proto, port, seen) ==
    LET services == RestTable(c, scope, "services")
        groups == RestTable(c, scope, "svcGroups")
    IN  \/ Opt(port)
        \/ \E m \in names :
              \/ m \in {"any", "application-default"}
              \/ m \in DOMAIN services /\ ServiceCovers(proto, port, services[m])
              \/ m \in DOMAIN Predefined \ DOMAIN services /\ ServiceCovers(proto, port, Predefined[m])
              \/ m \in DOMAIN groups \ seen
                 /\ RuleServiceCoverage(c, scope, Range(groups[m]), proto, port, seen \cup {m})

\* The web page's flow search: the rules of a device group in order, disabled
\* ones too; zones and negation are not looked at.
FlowChain(c, g) ==
    ParseRules(c.shared.pre, "shared") \o ParseRules(g.pre, g.name)
    \o ParseRules(g.post, g.name) \o ParseRules(c.shared.post, "shared")
MatchFlow(c, g, q) ==
    LET Hit(r) == /\ SideCoverage(c, g, r.src, {q.src}) /\ SideCoverage(c, g, r.dst, {q.dst})
                  /\ RuleServiceCoverage(c, g, Range(r.services), q.proto, q.port, {})
    IN  SelectSeq(FlowChain(c, g), Hit)

\* The search by address: a rule with any on both sides is only named; a match
\* through a network as wide as an exclusion is set aside.  With a service
\* filter, only the rules whose services cover one of its ports.
RuleSearch(c, scope, rules, targets, exclusions, filter) ==
    LET kept == {i \in DOMAIN rules : filter.ports = {} \/ \E p \in filter.ports :
                    RuleServiceCoverage(c, scope, Range(rules[i].services), filter.proto, {p}, {})}
        Hits(i, excluded) ==
            {<<t, side>> \in targets \X {"src", "dst"} :
                /\ rules[i][side] # {"any"}
                /\ \E m \in rules[i][side] : \E n \in Candidates(c, scope, m) :
                      n \cap t # {} /\ (\E e \in exclusions : e \subseteq n) = excluded}
        open == {i \in kept : rules[i].src = {"any"} /\ rules[i].dst = {"any"}}
    IN  [matched |-> [i \in {j \in kept \ open : Hits(j, FALSE) # {}} |-> Hits(i, FALSE)],
         anyAny |-> open,
         suppressed |-> [i \in kept \ open |-> Hits(i, TRUE)]]
=============================================================================
