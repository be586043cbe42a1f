------------------------------ MODULE RuleMirror -----------------------------
(***************************************************************************)
(* NSX rules as Panorama rules (app/multisite/pan_rules.py).  Every group a *)
(* rule names becomes one group of its addresses at every site: those of    *)
(* the siblings in the bundles, and its own.  What has no Panorama form is  *)
(* left out, and a side with nothing left skips the rule.                   *)
(*                                                                         *)
(* A rule is [id, name, policy, action, disabled, src, dst, negSrc, negDst, *)
(* profiles, services, inline]; a side is a sequence of references [any,    *)
(* net, group].  A service is [id, display, entries]; an entry [kind,       *)
(* proto, ports, apps, of].                                                 *)
(***************************************************************************)
EXTENDS PanMirror

CONSTANT GroupSuffix    \* "_np_ips"

GroupKind(g) ==
    LET Some(test(_)) == \E e \in Range(g.expr) : test(e)
        ips == Ips(g) # {}
        groups == GroupPaths(g) # {}
        segments == Some(LAMBDA e : "segment" \in e.paths)
        others == Some(LAMBDA e : e.other)
    IN  CASE Some(LAMBDA e : IsFilter(e) \/ e.vms # {}) -> "tag"
          [] ~Some(LAMBDA e : IsFilter(e) \/ e.vms # {}) /\ segments -> "segment"
          [] ~Some(LAMBDA e : IsFilter(e) \/ e.vms # {}) /\ ~segments /\ others -> "other"
          [] OTHER -> IF ips THEN IF groups THEN "ip_nested" ELSE "ip_only"
                      ELSE IF groups THEN "nested" ELSE "empty"

CategoryOrder == <<"Emergency", "Infrastructure", "Environment", "Application">>
\* Rules in evaluation order; each policy keeps its rules in theirs.
OrderedRules(policies) ==
    LET kept == SelectSeq(policies, LAMBDA p : p.category \in Range(CategoryOrder) /\ ~p.default)
        Of(c) == SortSeq(SelectSeq(kept, LAMBDA p : p.category = c), LAMBDA p, q : p.number < q.number)
        inOrder == FlattenSeq([c \in DOMAIN CategoryOrder |-> Of(CategoryOrder[c])])
    IN  FlattenSeq([i \in DOMAIN inOrder |-> inOrder[i].rules])

-----------------------------------------------------------------------------
(* Siblings.  read: [policies, groups, services, bundles, vms].             *)

IsSourceView(bundle) == \A r \in Range(bundle.rows) : IsSourceRow(r)

\* What was read, with the plan of the sibling groups and, for every sibling
\* group that has members, what it is a view of.
WithSiblings(read, base, rows) ==
    [policies |-> read.policies, groups |-> read.groups, services |-> read.services, vms |-> read.vms,
     bundles |-> read.bundles,
     base |-> base, rows |-> rows, order |-> OrderedRules(read.policies),
     siblings |-> {[original |-> q.row.original, members |-> h.members, source |-> IsSourceView(q.bundle)] :
                      <<h, q>> \in {<<g, r>> \in Range(base.groups) \X Range(rows) : SiblingName(r.row) = g.name}}]
Prepared(read) == WithSiblings(read, BuildSiblingMirror(read.bundles, read.vms), RowsOf(read.bundles))

Siblings(in, original) == {s \in in.siblings : s.original = original}
OriginalOf(in, id) ==
    LET of == {i \in DOMAIN in.rows : in.rows[i].row.siblingId = id}
    IN  IF of = {} THEN id ELSE in.rows[Max(of)].row.original

MirrorAddress(in, net) == AddAddress(in.vms, net, net, "")

-----------------------------------------------------------------------------
(* A group's addresses at every site, and what was left out of them.        *)

RECURSIVE Expand(_, _, _)
ExpandOwn(in, id, seen, g, kind, sites) ==
    LET ips == IF kind \in {"ip_only", "ip_nested"} THEN Ips(g) ELSE {}
        own == UNION {MirrorAddress(in, t) : t \in ips}
        nested == IF kind \in {"nested", "ip_nested"}
                  THEN {Expand(in, m, seen \cup {id}) : m \in GroupPaths(g)} ELSE {}
        Joined(all) == [members |-> sites \cup {o.name : o \in own} \cup UNION {n.members : n \in all},
                        dropped |-> UNION {n.dropped : n \in all}
                                    \cup {id : k \in {kind} \ {"ip_only", "ip_nested", "nested"}},
                        bad |-> UNION {n.bad : n \in all} \cup (IF {} \in ips THEN {g.display} ELSE {})]
    IN  Joined(nested)
\* Mutant: any view of a group is taken to hold its present addresses.
ExpandAnyView(in, id, seen, siblings) ==
    IF siblings # {} THEN [members |-> UNION {s.members : s \in siblings}, dropped |-> {}, bad |-> {}]
    ELSE IF Known(in.groups, {id}) = {} THEN [members |-> {}, dropped |-> {id}, bad |-> {}]
    ELSE ExpandOwn(in, id, seen, ById(in.groups, id), GroupKind(ById(in.groups, id)), {})
ExpandSites(in, id, seen, siblings) ==
    IF \E s \in siblings : s.source
    THEN [members |-> UNION {s.members : s \in siblings}, dropped |-> {}, bad |-> {}]
    ELSE IF Known(in.groups, {id}) = {}
    THEN [members |-> UNION {s.members : s \in siblings}, dropped |-> {id}, bad |-> {}]
    ELSE ExpandOwn(in, id, seen, ById(in.groups, id), GroupKind(ById(in.groups, id)), UNION {s.members : s \in siblings})
Expand(in, id, seen) ==
    IF id \in seen THEN [members |-> {}, dropped |-> {}, bad |-> {}] ELSE ExpandSites(in, id, seen, Siblings(in, id))

\* Every address object the groups of a rule may bring in.
OwnObjects(in) == UNION {MirrorAddress(in, t) : t \in UNION {Ips(g) : g \in Range(in.groups)}}
                  \cup UNION {MirrorAddress(in, x.net) : x \in UNION {Range(r.src) \cup Range(r.dst) :
                                                               r \in Range(in.order)}}

CombinedName(in, id) ==
    LET rows == {r \in Range(in.rows) : r.row.original = id}
    IN  Suffixed(SafeName(IF Known(in.groups, {id}) # {} THEN ById(in.groups, id).display
                          ELSE IF rows # {} THEN (CHOOSE r \in rows : TRUE).row.originalDisplay ELSE id), GroupSuffix)

\* A group is expanded the first time its name is met: what it leaves out is
\* noted for that rule alone.
AddGroup(acc, name, made) ==
    LET noted == [acc EXCEPT !.dropped = @ \cup made.dropped, !.bad = @ \cup made.bad]
    IN  IF made.members = {} THEN noted
        ELSE [noted EXCEPT !.side = @ \cup {name}, !.combined = Append(@, Static(name, made.members))]
CombinedGroup(in, acc, id, name) ==
    IF \E g \in Range(acc.combined) : g.name = name THEN [acc EXCEPT !.side = @ \cup {name}]
    ELSE AddGroup(acc, name, Expand(in, id, {}))

AnyName == SafeName("any")
IsAny(refs) == refs = <<>> \/ \E r \in Range(refs) : r.any
AddRef(in, acc, original) == CombinedGroup(in, acc, original, CombinedName(in, original))
\* One side of a rule; empty when nothing is left of it.
Side(in, refs, acc) ==
    LET literals == UNION {MirrorAddress(in, r.net) : r \in {x \in Range(refs) : x.group = ""}}
        groups == SelectSeq(refs, LAMBDA r : r.group # "")
    IN  IF IsAny(refs) THEN [acc EXCEPT !.side = {AnyName}]
        ELSE FoldLeft(LAMBDA a, r : AddRef(in, a, OriginalOf(in, r.group)),
                      [acc EXCEPT !.side = {o.name : o \in literals},
                                  !.bad = @ \cup {"rule literal" : r \in {x \in Range(refs) : x.group = "" /\ x.net = {}}}],
                      groups)

-----------------------------------------------------------------------------
(* Services: the objects and groups defined on the way, in order.           *)

HasPorts(e) == e.kind \in {"ports", "alg"}
NoService == [ref |-> {}, apps |-> {}, bad |-> {}, objects |-> <<>>, groups |-> <<>>]

RECURSIVE ServiceRef(_, _, _)
ServiceRef(in, id, stack) ==
    LET svc == CHOOSE s \in Range(in.services) : s.id = id
        sname == SafeName(svc.display)
        ports == SelectSeq(svc.entries, HasPorts)
        Same(i) == {k \in DOMAIN ports : ports[k].proto = ports[i].proto}
        EntryName(i) == IF Len(svc.entries) = 1 THEN sname
                        ELSE IF Cardinality(Same(i)) = 1 THEN Suffixed(sname, ports[i].proto)
                        ELSE Suffixed(Suffixed(sname, ports[i].proto), ToString(Cardinality({k \in Same(i) : k <= i})))
        own == [i \in DOMAIN ports |-> [name |-> EntryName(i), proto |-> ports[i].proto, ports |-> ports[i].ports]]
        nested == [i \in DOMAIN SelectSeq(svc.entries, LAMBDA e : e.kind = "nested") |->
                      ServiceRef(in, SelectSeq(svc.entries, LAMBDA e : e.kind = "nested")[i].of, stack \cup {id})]
        members == {o.name : o \in Range(own)} \cup UNION {n.ref : n \in Range(nested)}
    IN  IF id \in stack \/ ~\E s \in Range(in.services) : s.id = id THEN [NoService EXCEPT !.bad = {id}]
        ELSE [ref |-> IF members = {} THEN {} ELSE {sname},
              apps |-> UNION {e.apps : e \in Range(svc.entries)} \cup UNION {n.apps : n \in Range(nested)},
              bad |-> UNION {n.bad : n \in Range(nested)}
                      \cup {id : e \in {f \in Range(svc.entries) : f.kind = "other"}},
              objects |-> FlattenSeq([i \in DOMAIN nested |-> nested[i].objects]) \o own,
              groups |-> FlattenSeq([i \in DOMAIN nested |-> nested[i].groups])
                         \o (IF members \in {{}, {sname}} THEN <<>> ELSE <<[name |-> sname, members |-> members]>>)]

\* The services of the mirrored rules: an object keeps its first definition,
\* a group takes the last; two definitions of an object are an error.
ServicesOf(in, ids) ==
    LET refs == [i \in DOMAIN ids |-> ServiceRef(in, ids[i], {})]
        objects == FlattenSeq([i \in DOMAIN refs |-> refs[i].objects])
        groups == FlattenSeq([i \in DOMAIN refs |-> refs[i].groups])
        FirstOf(s) == SelectSeq([i \in DOMAIN s |-> [at |-> i, of |-> s[i]]],
                                LAMBDA x : ~\E k \in 1 .. x.at - 1 : s[k].name = x.of.name)
        LastDefined(name) == groups[Max({i \in DOMAIN groups : groups[i].name = name})]
    IN  [objects |-> [i \in DOMAIN FirstOf(objects) |-> FirstOf(objects)[i].of],
         groups |-> [i \in DOMAIN FirstOf(groups) |-> LastDefined(FirstOf(groups)[i].of.name)],
         clashes |-> {o.name : o \in {x \in Range(objects) : \/ \E y \in Range(objects) : y.name = x.name /\ y # x
                                                           \/ \E g \in Range(groups) : g.name = x.name}}]

-----------------------------------------------------------------------------
(* build_rule_mirror: rule by rule.                                         *)

Touched(in, rule) ==
    \E x \in Range(rule.src \o rule.dst) : x.group # "" /\ Siblings(in, OriginalOf(in, x.group)) # {}

RuleName(used, text, policy, suffix) ==
    LET n == Suffixed(SafeName(text), suffix)
    IN  IF n \in used THEN Suffixed(Suffixed(SafeName(text), suffix), policy) ELSE n

Start == [combined |-> <<>>, side |-> {}, dropped |-> {}, bad |-> {}, rules |-> <<>>, report |-> <<>>,
          services |-> <<>>]

Skip(acc, rule, why, dropped) ==
    [acc EXCEPT !.report = Append(@, [rule |-> rule.id, skipped |-> why, dropped |-> dropped])]
\* Rules both of whose sides are something: what these leave out is reported,
\* whether their services are mirrored or not.
WithoutService == "no service"
Matching(report) == {r \in Range(report) : r.skipped \in {"", WithoutService}}

\* The Panorama rules of a rule: one for its ports, one more for ICMP.
Entries(rule, src, dst, ports, apps, used) ==
    LET Entry(name, services, applications) ==
            [name |-> name, of |-> rule.id, action |-> rule.action, disabled |-> rule.disabled,
             src |-> src, dst |-> dst, services |-> services, apps |-> applications,
             negSrc |-> rule.negSrc /\ ~IsAny(rule.src), negDst |-> rule.negDst /\ ~IsAny(rule.dst)]
        direct == IF rule.services = <<>> THEN <<Entry(used.plain, {AnyName}, {AnyName})>>
                  ELSE IF ports # {} THEN <<Entry(used.plain, ports, {AnyName})>> ELSE <<>>
    IN  IF apps = {} THEN direct
        ELSE Append(direct, Entry(IF ports = {} THEN used.plain
                                  ELSE RuleName(used.names \cup {used.plain}, rule.name, rule.policy, "-icmp"),
                                  {SafeName("application-default")}, {SafeName(a) : a \in apps}))

FinishRule(acc, rule, src, refs) ==
    LET ports == UNION {r.ref : r \in Range(refs)}
        apps == UNION {r.apps : r \in Range(refs)}
        names == {r.name : r \in Range(acc.rules)}
        row == [rule |-> rule.id, skipped |-> "", dropped |-> acc.dropped]
        sent == [acc EXCEPT !.services = @ \o rule.services]
    IN  IF rule.services # <<>> /\ ports = {} /\ apps = {} THEN Skip(sent, rule, WithoutService, acc.dropped)
        ELSE [sent EXCEPT !.report = Append(@, row),
                          !.rules = @ \o Entries(rule, src, acc.side, ports, apps,
                                       [names |-> names, plain |-> RuleName(names, rule.name, rule.policy, "")])]

RuleSides(in, rule, src, dst) ==
    IF src.side = {} \/ dst.side = {} THEN Skip(dst, rule, "nothing to match", dst.dropped)
    ELSE FinishRule(dst, rule, src.side, [i \in DOMAIN rule.services |-> ServiceRef(in, rule.services[i], {})])
RuleSource(in, rule, src) == RuleSides(in, rule, src, Side(in, rule.dst, src))

MirrorRule(in, acc, rule) ==
    IF ~Touched(in, rule) THEN acc
    ELSE IF rule.action \notin {"ALLOW", "DROP", "REJECT"} THEN Skip(acc, rule, "action", {})
    ELSE IF rule.profiles THEN Skip(acc, rule, "context profile", {})
    ELSE RuleSource(in, rule, Side(in, rule.src, [acc EXCEPT !.dropped = {}]))

RulePlan(in, only, rules, end, services, pool) ==
    LET named == UNION {g.members : g \in Range(end.combined)} \cup UNION {r.src \cup r.dst : r \in Range(end.rules)}
        Found(code, names) == {Finding(code, n) : n \in names}
    IN  [tags |-> {}, addresses |-> {a \in pool : a.name \in named}, groups |-> end.combined,
         services |-> services, rules |-> end.rules, report |-> end.report,
         findings |-> in.base.findings
            \cup Found("no_source_view", IF \E b \in Range(in.bundles) : IsSourceView(b) THEN {} ELSE {SafeName("bundles")})
            \cup Found("rule_not_found", {SafeName(k) : k \in {o \in only \ Everything :
                                               ~\E r \in Range(in.order) : o \in {r.name, r.id}}})
            \cup Found("name_clash", {g.name : g \in Range(end.combined)} \cap {a.name : a \in pool})
            \cup Found("rule_narrower", {SafeName(r.rule) : r \in {x \in Matching(end.report) : x.dropped # {}}})
            \cup Found("rule_skipped", {SafeName(r.rule) : r \in {x \in Range(end.report) : x.skipped # ""}})
            \cup Found("bad_address", {SafeName(n) : n \in end.bad})
            \cup Found("service_not_mirrored", {SafeName(i) : i \in {k \in Range(end.services) : ServiceRef(in, k, {}).bad # {}}})
            \cup Found("service_name_clash", services.clashes)
            \cup Found("inline_services_not_mirrored",
                       {SafeName(r.id) : r \in {x \in Range(rules) : x.inline /\ \E m \in Matching(end.report) : m.rule = x.id}})]

MirrorRules(in, only, rules, end) ==
    RulePlan(in, only, rules, end, ServicesOf(in, end.services), in.base.addresses \cup OwnObjects(in))
RulesOn(in, only, rules) == MirrorRules(in, only, rules, FoldLeft(LAMBDA a, r : MirrorRule(in, a, r), Start, rules))
RuleMirrorOf(in, only) ==
    RulesOn(in, only, SelectSeq(in.order, LAMBDA r : only = Everything \/ {r.name, r.id} \cap only # {}))

ServiceRuleWrites(plan) ==
    [i \in DOMAIN plan.services.objects |->
        [kind |-> "service", name |-> plan.services.objects[i].name, refs |-> {}]]
    \o [i \in DOMAIN plan.services.groups |->
           [kind |-> "service-group", name |-> plan.services.groups[i].name, refs |-> plan.services.groups[i].members]]
    \o [i \in DOMAIN plan.rules |->
           [kind |-> "security-rule", name |-> plan.rules[i].name,
            refs |-> (plan.rules[i].src \cup plan.rules[i].dst \cup plan.rules[i].services)
                     \ {AnyName, SafeName("application-default")}]]
RuleWrites(plan) == RestWrites(plan) \o ServiceRuleWrites(plan)

\* The rows a reader is shown as skipped or narrowed.
Odd(plan) == SelectSeq(plan.report, LAMBDA r : r.skipped # "" \/ r.dropped # {})

-----------------------------------------------------------------------------
(* The commands (tools/pan/nsx_pan_mirror.py).                              *)

PlanExit(plan) == IF \E f \in plan.findings : f.code \in
                        {"group_not_found", "nested_group_missing", "vm_missing_hostname", "name_clash",
                         "static_group_empty", "bundle_inconsistent", "sibling_differs_between_bundles",
                         "no_source_view", "rule_not_found", "service_name_clash"} THEN 1 ELSE 0
\* A plan of sibling groups counts a machine without host name as a warning.
SiblingPlanExit(plan) == PlanExit([plan EXCEPT !.findings = {f \in @ : f.code # "vm_missing_hostname"}])
=============================================================================
