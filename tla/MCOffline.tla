------------------------------ MODULE MCOffline ------------------------------
(***************************************************************************)
(* The offline tools are functions of the files they read.  A behaviour     *)
(* picks one input, row by row or item by item; the invariants say what the *)
(* tools make of it.  MCPanorama has the inputs of those that read a          *)
(* Panorama configuration, or mirror NSX there.                             *)
(***************************************************************************)
EXTENDS PanRemap, IpSpan, GroupExpressions, MigrationBuild, MCPanorama

CONSTANTS MapOlds,        \* bound: first address of an old subnet below it
          MaxOperands,    \* bound: operands of a group expression
          SpanEnd, MaxHoles

-----------------------------------------------------------------------------
(* Small inputs of a migration request, chosen in three steps: the rules,   *)
(* the groups, the servers.                                                 *)
Application == [category |-> "Application", default |-> FALSE, scope |-> {AnyGroup}]
RequestPolicies == [p1 |-> Application, p2 |-> [Application EXCEPT !.scope = {"g2"}],
                    px |-> [Application EXCEPT !.category = "Ethernet"],
                    def |-> [Application EXCEPT !.default = TRUE]]
RuleOf(policy, id, src, dst, scope) ==
    [policy |-> policy, id |-> id, src |-> src, dst |-> dst, scope |-> scope,
     services |-> {AnyGroup}]
FirstRules == {RuleOf("p1", "r1", s, d, {AnyGroup}) : s \in {{"g1"}, {"g1", "g1-d"}, {AnyGroup}},
                                                 d \in {{AnyGroup}, {"g2"}}}
SecondRules == {RuleOf(p, "r2", {AnyGroup}, d, s) : p \in {"p1", "p2", "px", "def"},
                                              d \in {{AnyGroup}, {"g1"}},
                                              s \in {{AnyGroup}, {"g2"}}}
Shape(condition, ips, paths) == [condition |-> condition, ips |-> ips, paths |-> paths]
Shapes == {Shape(TRUE, {}, {}), Shape(FALSE, {"a1"}, {"g1"}), Shape(FALSE, {}, {"g1", "seg"}),
           Shape(FALSE, {"a2"}, {"g3"})}
Nobody2 == [g1 |-> {}, g2 |-> {}]
Places == {[m |-> [g1 |-> {"x1"}, g2 |-> {}], a |-> Nobody2],
           [m |-> [g1 |-> {"x1"}, g2 |-> {"x1"}], a |-> [g1 |-> {"a1", "a2"}, g2 |-> {}]],
           [m |-> [g1 |-> {}, g2 |-> {"x2"}], a |-> [g1 |-> {"a3"}, g2 |-> {"a1"}]]}
Machine(name, ext, ips) == [name |-> name, ext |-> ext, ips |-> ips]
Named(n, ips) == [name |-> n, ip |-> Nobody, ips |-> ips]
AtIp(a) == [name |-> a, ip |-> a, ips |-> {}]
Lists == {<<Named("n1", {})>>, <<Named("n2", {}), Named("n1", {})>>, <<AtIp("a1"), Named("n1", {"a2"})>>,
          <<AtIp("a3")>>, <<Named("new", {"a2", "a3"})>>, <<Named("gone", {})>>}
NewIps == {[a1 |-> {"b1"}, a2 |-> {}, a3 |-> {"b3", "b4"}]}
MachineLists == {<<Machine("n1", "x1", {"a1"}), Machine("n2", "x2", s)>> : s \in {{"a1"}, {"a2"}}}

\* The capture holds both rules, or only the first: it is out of step.
CaptureOf(r, kept, shape) ==
    [policies |-> RequestPolicies,
     rules |-> [k \in {KeyOf(r[i]) : i \in kept} |->
                   LET i == CHOOSE j \in kept : KeyOf(r[j]) = k
                   IN  [r[i] EXCEPT !.services = IF i = 1 THEN {"s1"} ELSE {"s3"}]],
     groups |-> [g1 |-> Shape(TRUE, {}, {}), g2 |-> shape],
     additive |-> [g1 |-> Shape(TRUE, {"a1"}, {})],
     services |-> [s1 |-> {"s2"}, s2 |-> {"s1"}]]
SnapshotOf(r, place, vms) ==
    [vms |-> vms, members |-> place.m, addresses |-> place.a, rules |-> r, errors |-> {}]

-----------------------------------------------------------------------------
(* What a manager holds and how it answers the pull.                        *)
Answers == {{}, {"x1"}, NotFound, Failure}
Managers ==
    {[groups |-> {"g1", "g2"}, eps |-> {"e1", "e2"},
      vms |-> <<Machine("n1", "x1", {"a1"})>>, vifs |-> {[ext |-> "x1", ips |-> {"a2"}]},
      members |-> [g1 |-> [e1 |-> m, e2 |-> NotFound], g2 |-> [e1 |-> n, e2 |-> {"x1"}]],
      addresses |-> [g1 |-> [e1 |-> {}, e2 |-> a], g2 |-> [e1 |-> {"a1"}, e2 |-> {}]],
      rules |-> r, failing |-> f] :
        m \in Answers, n \in {{}, Failure}, a \in {{}, {"a2"}, Failure},
        r \in {<<>>}, f \in {{}, {"px"}}}
RuleLists == {<<>>} \cup {<<r>> : r \in FirstRules} \cup
             {<<RuleOf("px", "r3", {"g2"}, {AnyGroup}, s)>> : s \in {{AnyGroup}, {"g1"}}}

-----------------------------------------------------------------------------
(* The inputs and what is promised of them.                                 *)
\* Maps of one site: two rows; of two sites: a row of each.
Rows == {r \in [old : {n \in Nets : n.lo < MapOlds}, new : [{"dc"} -> Nets]] :
            ~CellWrong(r.old, r.new["dc"])}
TwoSiteRows == {r \in [old : {n \in Nets : n.lo < 2}, new : [{"dc", "dr"} -> {n \in Nets : n.lo < MapOlds} \cup {Blank}]] :
            \A s \in {"dc", "dr"} : r.new[s] = Blank \/ ~CellWrong(r.old, r.new[s])}
SecondEntry == {Range4, [lo |-> 0, len |-> Width], [lo |-> 2, len |-> Width - 1]}

Operand == {Item("condition", {"c"}), IpItem({"a"}), Item("path", {"s1"}),
            Item("path", {"s1", "g"}), Item("path", {"s1", "s2"}), Item("path", {"g"})}
Segment(path, subnets) == [path |-> path, subnets |-> subnets]
Found == {<<>>, <<Segment("s1", {"a"})>>, <<Segment("s1", {"a"}), Segment("s1", {"b"})>>,
          <<Segment("s1", {}), Segment("s2", {"b"})>>, <<Segment("s2", {"a", "b"})>>}
TargetGroups == {<<>>, <<IpItem({"a", "t"})>>, <<Item("condition", {"c"}), Or, IpItem({"t"})>>}

FirstRow == Is("none") /\ \E r \in Rows : input' = Given("row", <<r>>)
SecondRow == /\ Is("row")
             /\ \E r \in Rows : /\ input.of[1].old.len >= r.old.len
                                /\ input' = Given("map", Append(input.of, r))
TwoSites == Is("none") /\ \E r \in TwoSiteRows : input' = Given("map", <<r>>)
FirstHole == Is("none") /\ \E a \in {Span(4, x, y) : x, y \in 0 .. SpanEnd} :
                a.lo <= a.hi /\ input' = Given("span", [a |-> a, holes |-> {}])
NextHole == /\ Is("span") /\ Len(SetToSeq(input.of.holes)) < MaxHoles
            /\ \E v \in {4, 6}, x, y \in 0 .. SpanEnd :
                  x <= y /\ input' = [input EXCEPT !.of.holes = @ \cup {Span(v, x, y)}]
FirstOperand == Is("none") /\ \E i \in Operand : input' = Given("expression", <<i>>)
NextOperand == /\ Is("expression") /\ Len(input.of) < 2 * MaxOperands - 1
               /\ \E i \in Operand : input' = [input EXCEPT !.of = @ \o <<Or, i>>]

RequestRules == /\ Is("none")
                /\ \E a \in FirstRules, b \in SecondRules : input' = Given("rules", <<a, b>>)
RequestGroups == /\ Is("rules")
                 /\ \E kept \in {{1}, {1, 2}}, s \in Shapes :
                       input' = Given("groups", [rules |-> input.of, cap |-> CaptureOf(input.of, kept, s)])
RequestServers ==
    /\ Is("groups")
    /\ \E p \in Places, e \in Lists, m \in MachineLists :
          input' = Given("request", [cap |-> input.of.cap, entries |-> e,
                                     data |-> SnapshotOf(input.of.rules, p, m)])
PullRulesOf == Is("none") /\ \E b, r \in RuleLists : input' = Given("pull", [before |-> b, rules |-> r])
PullFrom == /\ Is("pull")
            /\ \E n \in Managers, e \in Lists :
                  input' = Given("pulled", [before |-> input.of.before, entries |-> e,
                                            nsx |-> [n EXCEPT !.rules = input.of.rules]])

Next == \/ RequestRules \/ RequestGroups \/ RequestServers \/ PullRulesOf \/ PullFrom
        \/ FirstOperand \/ NextOperand \/ FirstHole \/ NextHole \/ TwoSites \/ FirstRow \/ SecondRow
        \/ PanoramaNext

-----------------------------------------------------------------------------
\* Addresses are mapped one to one, or the map's findings say otherwise; the
\* push of a remapped group closes every gap the audit sees, and once.  Merge,
\* subtract and intersect of spans of addresses are those of sets.  Rewriting the
\* segments of a group leaves everything else in it.
RemapIsSound ==
    /\ Is("map") =>
        /\ MapsApartOn(input.of)
        /\ Site(input.of) = {"dc"} => PanRemapOn(input.of, ReadMappings(OldNew(input.of)), {[lo |-> 2, len |-> Width]})
        /\ LoadErrors(input.of, Site(input.of)) = {} /\ Codes(input.of) = {} =>
              \A t \in Tokens, u \in SecondEntry : RemapClosesGapsOn(input.of, t, u)
    /\ Is("span") => SpanArithmeticOf(input.of.a, input.of.holes)
    /\ Is("expression") => \A t \in TargetGroups, f \in Found : RewritesKeepTheRestOn(input.of, t, f)

\* A migration request names every rule that concerns its servers, bundles all
\* those rules need, and its amendments carry every server that has a new
\* address through every group it is in.  The report of a global manager that
\* is asked only for the groups its rules name misses no rule; nor does one
\* from a cache made for as many groups, nor one from a capture with a
\* membership export.
RequestIsComplete ==
    /\ Is("request") => \A n \in NewIps :
          RequestIsCompleteOn(input.of.data, input.of.cap, input.of.entries, n, {"Ethernet"})
    /\ Is("pulled") => /\ ReducedPullOn(input.of.nsx, input.of.before, input.of.entries)
                       /\ ExportsAgreeOn(input.of.nsx, input.of.entries)
=============================================================================
