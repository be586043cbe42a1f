------------------------------ MODULE MCPanorama -----------------------------
(***************************************************************************)
(* The Panorama tools are functions of what they read.  A behaviour picks   *)
(* one input, part by part; the invariants say what the tools make of it.   *)
(***************************************************************************)
EXTENDS PanoramaProps

-----------------------------------------------------------------------------
(* Two device groups, one the parent of the other, a shared rule before and *)
(* after, and the flows asked about.                                        *)
NetOf(a, b) == a .. b
PanAddresses == [A |-> [fqdn |-> FALSE, nets |-> {NetOf(0, 1)}], B |-> [fqdn |-> FALSE, nets |-> {NetOf(4, 7)}],
                 F |-> [fqdn |-> TRUE, nets |-> {}]]
PanGroups == [G |-> [dynamic |-> FALSE, members |-> {"A", "H"}],
              H |-> [dynamic |-> FALSE, members |-> {"G", "L", "B"}],
              D |-> [dynamic |-> TRUE, members |-> {}]]
PanServices == [S |-> [proto |-> "tcp", ports |-> {Web}], U |-> [proto |-> "udp", ports |-> {Secure}]]
Empty == [n \in {} |-> n]
PanRule(name, src, dst, services) ==
    [name |-> name, base |-> "", position |-> 0, disabled |-> FALSE, action |-> "allow",
     from |-> {"any"}, to |-> {"any"}, src |-> src, dst |-> dst, negSrc |-> FALSE, negDst |-> FALSE,
     services |-> services]
PanNegated == [PanRule("t", {"any"}, {"A"}, <<"any">>) EXCEPT !.negSrc = TRUE]
PanZoned == [PanRule("t", {"any"}, {"any"}, <<"any">>) EXCEPT !.from = {"z"}, !.action = "deny"]
PanRules == {PanNegated, PanZoned, PanRule("r", {"A"}, {"any"}, <<"any">>), PanRule("r", {"G", "F"}, {"B"}, <<"S">>),
             PanRule("s", {"L", "D"}, {"A"}, <<"T", "application-default">>),
             PanRule("s", {"B"}, {"G"}, <<"service-https", "U">>),
             [PanRule("t", {"A"}, {"any"}, <<"any">>) EXCEPT !.disabled = TRUE]}
\* The child defines A again: the shared one, or its own, is read.
Locals == {Empty, [A |-> [fqdn |-> FALSE, nets |-> {NetOf(2, 3)}]]}
PanScope(name, parent, local, pre, post) ==
    [name |-> name, parent |-> parent, addresses |-> local, groups |-> Empty, services |-> Empty,
     svcGroups |-> Empty, pre |-> pre, post |-> post]
PanConfig(parent, local, pre, child, post) ==
    [literals |-> [L |-> NetOf(3, 3)],
     shared |-> [PanScope("shared", "", PanAddresses, pre, post) EXCEPT
                    !.groups = PanGroups, !.services = PanServices, !.svcGroups = [T |-> <<"S", "U">>]],
     dgs |-> <<PanScope("c", parent, local, child, <<>>), PanScope("p", "c", Empty, post, <<>>)>>]
PanQuery(src, dst, proto, port, zone) ==
    [src |-> src, dst |-> dst, proto |-> proto, port |-> port, srcZone |-> zone, dstZone |-> {}]
Questions == {PanQuery(a, b, {"tcp"}, {Web}, {}) : a \in {0, 3, 5}, b \in {1, 6}}
           \cup {PanQuery(2, 1, {}, {}, {}), PanQuery(5, 0, {"udp"}, {Secure}, {"z"}),
                 PanQuery(0, 6, {}, {Proxy}, {"y"})}
Filter(filters, mode, skip, defaults) ==
    [filters |-> filters, mode |-> mode, skip |-> skip, defaults |-> defaults]
Filters == {Filter({}, "broad", {"r"}, TRUE), Filter({NetOf(0, 3)}, "within", {}, FALSE),
            Filter({AllAddresses, NetOf(0, 1)}, "broad", {}, TRUE), Filter({NetOf(4, 5)}, "broad", {"s"}, FALSE)}
Route(net, kind, active) == [net |-> net, kind |-> kind, active |-> active]
Routes == {<<>>, <<Route(AllAddresses, "static", TRUE), Route(NetOf(0, 3), "dynamic", TRUE)>>,
           <<Route(NetOf(4, 7), "static", FALSE), Route(NetOf(4, 5), "connected", TRUE), Route(NetOf(4, 5), "static", TRUE)>>}
\* Two firewalls of a device group, one of another; some do not answer.
Topologies == [c : {<<<<a>>, t>> : a \in Routes, t \in {<<b>> : b \in Routes} \cup {<<>>}}, p : {<<<<a>>>> : a \in Routes}]

-----------------------------------------------------------------------------
(* Small NSX inventories, sibling bundles and rules for the mirrors.        *)
\* "b|1" and "b_1" are one name on Panorama.
CleanedNames == [n \in {"b|1"} |-> "b_1"]

Term(op, terms, ips, paths, vms) ==
    [op |-> op, terms |-> terms, ips |-> ips, paths |-> paths, vms |-> vms, other |-> FALSE]
Tag(op, tag) == [op |-> op, tag |-> tag]
Cond(op, tag) == Term(op, <<Tag("", tag)>>, {}, {}, {})
NsxGroup(id, display, system, expr) == [id |-> id, display |-> display, system |-> system, expr |-> expr]

FirstExprs == {<<Cond("", "a")>>, <<Cond("", "a"), Cond("and", "b|1"), Cond("or", "c")>>,
               <<Term("", <<Tag("", "a"), Tag("and", "c")>>, {}, {}, {}), Term("or", <<>>, {{1}, {2, 3}}, {}, {})>>,
               <<Term("", <<>>, {}, {"g2", "segment"}, {})>>, <<Term("", <<>>, {{4}}, {"g2", "g3"}, {"x1"})>>,
               <<Cond("", "")>>, <<>>}
SecondExprs == {<<Cond("", "c"), Cond("or", "b_1")>>, <<Term("", <<>>, {}, {}, {"x1", "x2"})>>,
                <<Term("", <<>>, {{4, 5}, {}}, {}, {})>>, <<Term("", <<>>, {}, {"g3"}, {}), Cond("", "a")>>,
                <<Term("", <<Tag("", "a"), Tag("or", "")>>, {}, {}, {})>>,
                <<[Term("", <<>>, {}, {"gone"}, {}) EXCEPT !.other = TRUE]>>}
GroupLists == {<<NsxGroup("g1", d, FALSE, a), NsxGroup("g2", "two", FALSE, b),
                NsxGroup("g3", "three", s, <<Cond("", "c")>>)>> :
                  d \in {"one", "h1"}, a \in FirstExprs, b \in SecondExprs, s \in BOOLEAN}
VmOf(ext, host, ips, tags) == [ext |-> ext, host |-> host, ips |-> ips, tags |-> tags, type |-> "REGULAR"]
MachinePairs == {<<VmOf("x1", h, i, t), [VmOf("x2", "h2", {2}, {"c"}) EXCEPT !.type = k]>> :
                    h \in {"", "h1", "h2"}, i \in {{1}, {1, 6}, {0}}, t \in {{"a"}, {"b|1", "a"}, {}},
                    k \in {"REGULAR", "EDGE"}}
Onlys == {Everything, {"g1"}, {"two", "nobody"}}

-----------------------------------------------------------------------------
Row(sibling, original, source) ==
    [siblingId |-> sibling, sibling |-> sibling, original |-> original, originalDisplay |-> original,
     isMapped |-> FALSE, source |-> source, pairs |-> {}, mapped |-> {}]
MappedRow(sibling, original, pairs) ==
    [Row(sibling, original, {}) EXCEPT !.isMapped = TRUE, !.pairs = pairs, !.mapped = UNION {p.dst : p \in pairs}]
Bundle(appendix, rows) == [host |-> "m", appendix |-> appendix, rows |-> rows]
SourceBundles == {Bundle("_np", <<Row("g1_np", "g1", s)>> \o t) :
                    s \in {{{1}}, {}, {{2, 3}, {}}}, t \in {<<>>, <<Row("g2_np", "g2", {{2}})>>}}
AwayBundles == {Bundle("_av", <<MappedRow("g1_av", "g1", {[src |-> {1}, dst |-> {{5}, {6}}]})>>),
                Bundle("_av", <<MappedRow("g2_av", "g2", {[src |-> {2}, dst |-> {{6}}]}), Row("g1_np", "g1", {{7}})>>)}
BundleLists == {<<s, a>> : s \in SourceBundles, a \in AwayBundles} \cup {<<a>> : a \in AwayBundles}

RuleGroupShapes == {<<Term("", <<>>, {{1}, {2, 3}}, {}, {})>>, <<Term("", <<>>, {{4}}, {"g1", "g3"}, {})>>,
                    <<Cond("", "a")>>, <<Term("", <<>>, {{4}}, {"segment"}, {})>>, <<Term("", <<>>, {}, {"g2"}, {})>>}
RuleGroupList(a, b) == <<NsxGroup("g1", "one", FALSE, a), NsxGroup("g2", "two", FALSE, b),
                        NsxGroup("g3", "three", FALSE, <<Term("", <<>>, {{0}}, {}, {})>>)>>

Ref(group) == [any |-> FALSE, net |-> {}, group |-> group]
Literal == [any |-> FALSE, net |-> {7}, group |-> ""]
NsxRule(id, name, src, dst, services) ==
    [id |-> id, name |-> name, policy |-> "p", action |-> "ALLOW", disabled |-> FALSE, src |-> src, dst |-> dst,
     negSrc |-> FALSE, negDst |-> FALSE, profiles |-> FALSE, services |-> services, inline |-> FALSE]
FirstNsxRules ==
    {[NsxRule("r1", "one", <<Ref(g)>>, d, s) EXCEPT !.negSrc = n, !.inline = (n /\ d = <<>>)] :
        g \in {"g1", "g2_av"}, d \in {<<>>, <<Ref("g3"), Literal>>}, s \in {<<>>, <<"web", "both">>},
        n \in BOOLEAN}
SecondNsxRules ==
    {[NsxRule("r2", "one", <<Ref("g2"), Ref("g1")>>, <<Ref("g2")>>, <<"icmp", "deep">>) EXCEPT
        !.action = a, !.disabled = TRUE] : a \in {"REJECT", "JUMP"}}
RuleOnlys == {Everything}
NsxEntry(kind, proto, ports, apps, of) == [kind |-> kind, proto |-> proto, ports |-> ports, apps |-> apps, of |-> of]
Service(id, entries) == [id |-> id, display |-> id, entries |-> entries]
NsxServices ==
    <<Service("web", <<NsxEntry("ports", "tcp", {80}, {}, "")>>),
      Service("both", <<NsxEntry("ports", "tcp", {1}, {}, ""), NsxEntry("ports", "tcp", {2}, {}, ""),
                        NsxEntry("alg", "udp", {3}, {}, "")>>),
      Service("icmp", <<NsxEntry("icmp", "", {}, {"ping"}, "")>>),
      Service("deep", <<NsxEntry("nested", "", {}, {}, "both"), NsxEntry("ports", "udp", {4}, {}, ""),
                        NsxEntry("other", "", {}, {}, "")>>)>>
ReadRules(given, rules) ==
    [bundles |-> given.bundles, groups |-> given.groups, services |-> NsxServices,
     vms |-> <<VmOf("x1", "h1", {1}, {}), VmOf("x2", "h2", {2}, {})>>,
     policies |-> <<[category |-> "Application", default |-> FALSE, number |-> 2, rules |-> <<rules[2]>>],
                    [category |-> "Application", default |-> FALSE, number |-> 1, rules |-> <<rules[1]>>],
                    [category |-> "Ethernet", default |-> FALSE, number |-> 0, rules |-> <<>>]>>]

-----------------------------------------------------------------------------
(* The inputs and what is promised of them.                                 *)
VARIABLE input            \* [kind, of]: what the tools read

Xml == INSTANCE MCXml WITH Width <- 3      \* bound: eight addresses

Given(kind, of) == [kind |-> kind, of |-> of]
Is(kind) == input.kind = kind

Init == input = Given("none", <<>>)

PanRulebases == /\ Is("none")
                /\ \E pre \in {<<>>, <<PanNegated>>, <<PanZoned>>}, a, b \in PanRules, n \in {1, 2} :
                      input' = Given("rulebases", [pre |-> pre, child |-> SubSeq(<<a, b>>, 1, n)])
PanObjects == /\ Is("rulebases")
              /\ \E parent \in {"", "p"}, local \in Locals :
                    input' = Given("policy", PanConfig(parent, local, input.of.pre, input.of.child, input.of.pre))
PanRoutes == Is("none") /\ \E t \in Topologies : input' = Given("routes", t)

NsxGroups == Is("none") /\ \E g \in GroupLists : input' = Given("nsx groups", g)
NsxMachines == /\ Is("nsx groups")
               /\ \E v \in MachinePairs, o \in Onlys :
                     input' = Given("mirror", [groups |-> input.of, vms |-> v, only |-> o])

XmlExport == Is("none") /\ \E o \in Xml!XmlObjects, g \in Xml!XmlGroups :
                 input' = Given("export", [objects |-> o, groups |-> g])
XmlExportRules ==
    /\ Is("export")
    /\ \E m \in Xml!XmlLists, at \in {"shared", "d1"}, from \in {{"t"}, {"any"}} :
          input' = Given("xml", Xml!XmlConfig(input.of.objects, input.of.groups, m, at, from))

SiblingBundles == Is("none") /\ \E b \in BundleLists : input' = Given("bundles", b)
RuleGroups == /\ Is("bundles")
              /\ \E a \in RuleGroupShapes, b \in RuleGroupShapes :
                    input' = Given("sides", [bundles |-> input.of, groups |-> RuleGroupList(a, b)])
NsxRules == /\ Is("sides")
            /\ \E a \in FirstNsxRules, b \in SecondNsxRules, o \in RuleOnlys :
                  input' = Given("nsx rules", [only |-> o, read |-> ReadRules(input.of, <<a, b>>)])

PolicyNext == PanRulebases \/ PanObjects \/ PanRoutes
MirrorNext == NsxGroups \/ NsxMachines
RulesNext == SiblingBundles \/ RuleGroups \/ NsxRules
XmlNext == XmlExport \/ XmlExportRules
PanoramaNext == PolicyNext \/ MirrorNext \/ RulesNext \/ XmlNext

-----------------------------------------------------------------------------
\* The verdict on a flow (check_policy_match.py), the report of its rules
\* (report_flow_rules.py) and the place for a new one (recommend_dg.py) agree on
\* what decides it, with zones, negated sides and parents.  The searches over
\* REST (pan_ip_rules.py, pan_dg_subnets.py) find the rule that decides where
\* there is nothing they do not look at (Comparable).  The tools that remap an
\* exported configuration keep what they promise (ip_remap.py, pa_xml_zone*.py),
\* and a placement has a route (the route tables of the firewalls).
PolicyToolsAgree ==
    /\ Is("policy") => \A q \in Questions :
           /\ HistoryAgrees(input.of, q)
           /\ \A f \in Filters : /\ PlacementAgrees(input.of, q, f)
                               /\ \A g \in Range(input.of.dgs) : ReportAgrees(input.of, q, g.name, f)
           /\ \A g \in Range(input.of.dgs) : /\ FlowSearchAgrees(input.of, g, q)
                                            /\ \A f \in Filters : RuleIsFound(input.of, g, q, f.filters)
    /\ Is("xml") => Xml!RemapsAreSound(input.of)
    /\ Is("routes") => \A src, dst \in AllAddresses : RoutesAgree(input.of, src, dst)

\* The exact mirror of a plan without a warning matches what NSX matches, and
\* its writes never refer to what is not there yet (pan_mirror.py:3 "EXACTLY",
\* rest_writes).  A side of a mirrored rule has no address but those of its NSX
\* side at some site, and lacks a present one only if the plan reports that
\* something was left out; so a side that is not negated is never wider, and one
\* that is negated is wider only with such a report.  Ports are those of the
\* rule's services only, and service entries of its own are reported
\* (pan_rules.py, build_rule_mirror).
MirrorIsExact ==
    /\ Is("mirror") => MirrorIsExactOn(input.of.groups, input.of.vms, input.of.only)
    /\ Is("nsx rules") => RulesAreRightOn(input.of.read, input.of.only)

\* pan_rules.py:27 "a Palo rule can be narrower than NSX, never wider": a negated
\* side, from which what Panorama cannot match is left out as from any other,
\* matches nothing that the side of the NSX rule does not match now.
NegatedNeverWider == Is("nsx rules") => NegatedAreRightOn(input.of.read, input.of.only)
=============================================================================
