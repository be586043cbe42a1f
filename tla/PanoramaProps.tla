---------------------------- MODULE PanoramaProps ---------------------------
(***************************************************************************)
(* What the tools that answer questions about one Panorama configuration    *)
(* promise of each other, and the mirrors of what NSX matches.              *)
(***************************************************************************)
EXTENDS PanSubnets, RuleMirror

\* The report never implies the wrong rule is enforcing: the rule that the
\* verdict names is the deciding one of the report, or one it flags as earlier
\* than that and suppressed.
ReportAgrees(c, q, dg, opts) ==
    LET v == Evaluate(c, q, dg, opts.skip)
        s == ScanFlow(c, q, dg, opts)
    IN  \/ s.shadowed = <<>> /\ s.deciding = v
        \/ s.shadowed # <<>> /\ Head(s.shadowed) = v

\* Where the searches over REST can be compared with the verdict.  They do not
\* look at parents, zones and negated sides, and they read otherwise a name that
\* two scopes define and the service service-http: with any of these the first
\* rule of the flow search need not be the one the verdict names.
Comparable(c, g) ==
    /\ g.parent = "" /\ \A t \in {"addresses", "groups"} : DOMAIN g[t] \cap DOMAIN c.shared[t] = {}
    /\ \A r \in Range(FlowChain(c, g)) : ~r.negSrc /\ ~r.negDst /\ r.from = {"any"} /\ r.to = {"any"}
                                         /\ "service-http" \notin Range(r.services)

\* Where they can be compared, the first enabled rule of the flow search is the
\* one the verdict names, and there is none where the verdict falls through.
FlowSearchAgrees(c, g, q) ==
    Comparable(c, g) =>
        LET Enabled(r) == ~r.disabled
            found == SelectSeq(MatchFlow(c, g, q), Enabled)
            v == Evaluate(c, q, g.name, {})
        IN  IF found = <<>> THEN v.base = "default-rules" ELSE v = Head(found)

\* And a rule of the device group's own that decides a flow is in the search for
\* either address: matched, set aside, or named as any/any; the subnet index,
\* built either way, has it under its addresses; and the rule history of the
\* flow shows the device group.
RuleIsFound(c, g, q, exclusions) ==
    LET v == Evaluate(c, q, g.name, {})
        found == RuleSearch(c, g, g.pre, {{q.src}, {q.dst}}, exclusions,
                            [proto |-> q.proto, ports |-> q.port])
        snapshot == BuildDgSubnetProfiles(c, g)
        Indexed(profile, side) == \E b \in profile : q[side] \in b.lo .. b.hi /\ <<g.name, "pre", v.position>> \in b[side]
    IN  Comparable(c, g) /\ v.base = g.name /\ v \in Range(ParseRules(g.pre, g.name)) =>
            /\ \/ v.position \in DOMAIN found.matched \cup found.anyAny
               \/ found.suppressed[v.position] # {}
            /\ \A side \in {"src", "dst"} : v[side] # {"any"} =>
                  /\ \A all \in BOOLEAN : Indexed(BuildProfile(c, g, {}, all), side)
                  /\ Indexed(snapshot, side)
                  /\ \E h \in RuleHistory([d \in {g.name} |-> snapshot], q.src, q.dst) : h[side] # {}

\* Where no rule is suppressed, recommend_dg.py looks for a place for a new rule
\* exactly for the flows for which report_flow_rules.py lists no rule but the
\* defaults; and where check_policy_match.py finds no device group that allows a
\* flow, what decides it in the report denies it everywhere.
PlacementAgrees(c, q, opts) ==
    LET missing == ExistingMatches(c, q, opts.skip) = {}
        Suppresses == \E dg \in PolicyTargets(c) : ScanFlow(c, q, dg, opts).suppressed # <<>>
    IN  c.dgs # <<>> /\ ~Suppresses =>
            /\ missing <=> CustomMatches(c, q, opts) = {}
            /\ PolicyExit(c, q, opts.skip) = 1 => \A dg \in PolicyTargets(c) : ScanFlow(c, q, dg, opts).deciding.action = "deny"

Block(ip) == {a \in AllAddresses : a \div BucketSize = ip \div BucketSize}

\* A new rule goes to a device group, not to shared, where the index of any
\* device group's subnets holds an end of the flow at that end of a rule.
HistoryAgrees(c, q) ==
    (\E g \in Range(c.dgs), side \in {"src", "dst"} : \E b \in LookupIp(BuildProfile(c, g, {}, FALSE), q[side]) : b[side] # {})
        => Recommendation(c, Block(q.src), Block(q.dst)) \in {g.name : g \in Range(c.dgs)}

\* Where no firewall is recommended, no table that was read has a route to
\* either end but a default one; where one is, it has such a route itself.
RoutesAgree(firewalls, src, dst) ==
    LET tables == PullTopology(firewalls)
        Longer(ip) == {dg \in DOMAIN tables : \E i \in DOMAIN tables[dg] :
                          tables[dg][i].active /\ ip \in tables[dg][i].net /\ tables[dg][i].net # AllAddresses}
        chosen == RecommendPlacement(tables, src, dst)
    IN  /\ (chosen = {}) <=> (Longer(src) \cup Longer(dst) = {})
        /\ chosen \subseteq Longer(src) \cup Longer(dst)

-----------------------------------------------------------------------------
(* The mirrors, against what NSX matches.                                   *)

\* "and" binds before "or": some run of terms joined by "and" holds whole.
Disjunction(ops, holds) ==
    \E i, j \in DOMAIN ops :
        /\ i <= j /\ (i = 1 \/ ops[i] # "and") /\ (j = Len(ops) \/ ops[j + 1] # "and")
        /\ \A k \in i .. j : holds[k] /\ (k > i => ops[k] = "and")
TermHolds(terms, tags) ==
    Disjunction([k \in DOMAIN terms |-> terms[k].op], [k \in DOMAIN terms |-> terms[k].tag \in tags])
FilterHolds(f, tags) ==
    Disjunction([i \in DOMAIN f |-> f[i].op], [i \in DOMAIN f |-> TermHolds(f[i].terms, tags)])

\* The addresses a Panorama object or group stands for.
RECURSIVE PanValue(_, _)
PanValue(plan, name) ==
    UNION {a.value : a \in {b \in plan.addresses : b.name = name}}
    \cup UNION {IF g.kind = "dynamic"
                THEN UNION {a.value : a \in {b \in plan.addresses : FilterHolds(g.filter, b.tags)}}
                ELSE UNION {PanValue(plan, m) : m \in g.members} :
                   g \in {h \in Range(plan.groups) : h.name = name}}

\* The addresses NSX finds in a group: of its machines, its entries, its groups.
RECURSIVE NsxValue(_, _, _)
NsxValue(groups, vms, id) ==
    LET g == ById(groups, id)
        f == SelectSeq(g.expr, IsFilter)
        In(v) == FilterHolds(f, v.tags) \/ v.ext \in ExtIds(g)
    IN  UNION {Usable(v.ips) : v \in {w \in Mirrored(vms) : In(w)}} \cup UNION Ips(g)
        \cup UNION {NsxValue(groups, vms, i) : i \in Known(groups, GroupPaths(g))}

\* Every write refers only to what an earlier one made.
RefsExist(writes) ==
    \A i \in DOMAIN writes : writes[i].refs \subseteq {writes[k].name : k \in 1 .. i - 1}

\* Every group a mirrored group nests is mirrored too: none of them is empty or,
\* when all groups are asked for, a system group.
NestedAreMade(groups, chosen, plan) ==
    \A g \in Range(chosen) : \A i \in Known(groups, GroupPaths(g)) :
        SafeName(ById(groups, i).display) \in {p.name : p \in Range(plan.groups)}
TagNamesApart(groups, vms) ==
    LET tags == UNION {TagsUsed(g) : g \in Range(groups)} \cup UNION {v.tags : v \in Range(vms)}
    IN  \A s, t \in tags : Clean(s) = Clean(t) => s = t
\* A machine listed by external id has one address: its other objects are no
\* members.
ListedHaveOne(chosen, vms) ==
    \A v \in Range(vms) : (\E g \in Range(chosen) : v.ext \in ExtIds(g)) => Cardinality(Usable(v.ips)) <= 1

ExactFor(groups, vms, only, chosen, plan) ==
    LET made == NestedAreMade(groups, chosen, plan)
    IN  /\ only # Everything => \A g \in Range(chosen) : Known(groups, GroupPaths(g)) \subseteq {h.id : h \in Range(chosen)}
        /\ made /\ PlanExit(plan) = 0 => RefsExist(RestWrites(plan))
        /\ /\ {f.code : f \in plan.findings} \subseteq {"mixed_group", "empty_group"} /\ made
           /\ TagNamesApart(groups, vms) /\ ListedHaveOne(chosen, vms)
           => \A g \in Range(chosen) : SafeName(g.display) \in {p.name : p \in Range(plan.groups)}
                 => PanValue(plan, SafeName(g.display)) = NsxValue(groups, vms, g.id)
MirrorIsExactOn(groups, vms, only) ==
    \A plan \in {BuildMirror(groups, vms, only)} : ExactFor(groups, vms, only, Chosen(groups, only), plan)

\* What a group matches now, as the bundles and the groups have it, and
\* everywhere: with the addresses its siblings have at the other sites.
RowsFor(in, id) == {r.row : r \in {q \in Range(in.rows) : q.row.original = id}}
SourceRows(in, id) ==
    {r.row : r \in {q \in Range(in.rows) :
                       q.row.original = id /\ IsSourceView(q.bundle) /\ UNION q.row.source # {}}}
RECURSIVE Now(_, _, _), ReachOf(_, _, _)
Now(in, id, seen) ==
    IF id \in seen \/ Known(in.groups, {id}) = {} THEN {}
    ELSE IF SourceRows(in, id) # {} THEN UNION UNION {r.source : r \in SourceRows(in, id)}
    ELSE LET g == ById(in.groups, id)
         IN  UNION Ips(g) \cup UNION {Now(in, m, seen \cup {id}) : m \in GroupPaths(g)}
ReachOf(in, id, seen) ==
    IF id \in seen THEN {}
    ELSE UNION {UNION {p[2] : p \in Pairs(r)} : r \in RowsFor(in, id)} \cup Now(in, id, {})
         \cup IF Known(in.groups, {id}) = {} THEN {}
              ELSE UNION {ReachOf(in, m, seen \cup {id}) : m \in GroupPaths(ById(in.groups, id))}

SideNow(in, refs) == UNION {IF x.group = "" THEN x.net ELSE Now(in, OriginalOf(in, x.group), {}) : x \in Range(refs)}
SideReach(in, refs) == UNION {IF x.group = "" THEN x.net ELSE ReachOf(in, OriginalOf(in, x.group), {}) : x \in Range(refs)}

\* What services let through: [proto, ports] and applications.
RECURSIVE NsxPorts(_, _), PanPorts(_, _)
NsxPorts(in, id) ==
    LET svc == CHOOSE s \in Range(in.services) : s.id = id
    IN  UNION {CASE HasPorts(e) -> {e.proto} \X e.ports [] e.kind = "nested" -> NsxPorts(in, e.of) [] OTHER -> {} :
                  e \in Range(svc.entries)}
PanPorts(plan, name) ==
    UNION {{o.proto} \X o.ports : o \in {x \in Range(plan.services.objects) : x.name = name}}
    \cup UNION {UNION {PanPorts(plan, m) : m \in g.members} : g \in {x \in Range(plan.services.groups) : x.name = name}}

NamesApart(in) ==
    /\ \A a, b \in Range(in.groups) : CombinedName(in, a.id) = CombinedName(in, b.id) => a = b
    /\ \A s, t \in Range(in.services) : SafeName(s.display) = SafeName(t.display) => s = t

\* A side stands for no address but those that NSX's side has at some site, and
\* lacks one that it has now only if the plan reports what was left out.  A side
\* that is not negated is so never wider, and a negated one, which matches what
\* is not in it, only with such a report.
SideValue(plan, side) == UNION {PanValue(plan, n) : n \in side}
SideIsRight(in, plan, side, refs) ==
    LET whole == {f.code : f \in plan.findings} \cap {"rule_narrower", "bad_address"} = {}
    IN  /\ (AnyName \in side) = IsAny(refs)
        /\ ~IsAny(refs) => SideValue(plan, side) \subseteq SideReach(in, refs)
        /\ ~IsAny(refs) /\ whole => SideNow(in, refs) \subseteq SideValue(plan, side)
\* Ports are only those of the rule's services; any service only for a rule that
\* names none, and service entries of its own are reported.
ServicesAreRight(in, plan, e, r) ==
    /\ r.services # <<>> =>
          /\ AnyName \notin e.services
          /\ UNION {PanPorts(plan, s) : s \in e.services} \subseteq UNION {NsxPorts(in, i) : i \in Range(r.services)}
    /\ r.inline => Finding("inline_services_not_mirrored", SafeName(r.id)) \in plan.findings
EntryIsRight(in, plan, e, r) ==
    /\ SideIsRight(in, plan, e.src, r.src) /\ SideIsRight(in, plan, e.dst, r.dst)
    /\ e.action = r.action /\ e.disabled = r.disabled /\ ServicesAreRight(in, plan, e, r)
RulesAreRight(in, only, plan) ==
    SiblingPlanExit(plan) = 0 /\ NamesApart(in) =>
        /\ RefsExist(RuleWrites(plan))
        /\ \A e \in Range(plan.rules) : \A r \in Range(in.order) : r.id = e.of => EntryIsRight(in, plan, e, r)
        /\ \A r \in Range(in.order) : ~(\E e \in Range(plan.rules) : e.of = r.id) /\ Touched(in, r) /\ only = Everything
              => \E o \in Range(Odd(plan)) : o.rule = r.id
RulesAreRightOn(read, only) ==
    \A in \in {Prepared(read)} : \A plan \in {RuleMirrorOf(in, only)} : RulesAreRight(in, only, plan)

\* A negated side matches nothing that NSX's does not match now.
NegatedIsRight(in, plan, side, refs) == ~IsAny(refs) => SideNow(in, refs) \subseteq SideValue(plan, side)
NegatedAreRight(in, plan) ==
    SiblingPlanExit(plan) = 0 /\ NamesApart(in) =>
        \A e \in Range(plan.rules) : \A r \in Range(in.order) : r.id = e.of =>
            /\ r.negSrc => NegatedIsRight(in, plan, e.src, r.src)
            /\ r.negDst => NegatedIsRight(in, plan, e.dst, r.dst)
NegatedAreRightOn(read, only) ==
    \A in \in {Prepared(read)} : \A plan \in {RuleMirrorOf(in, only)} : NegatedAreRight(in, plan)
=============================================================================
