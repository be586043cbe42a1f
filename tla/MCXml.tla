-------------------------------- MODULE MCXml --------------------------------
(* Small Panorama configurations and rows of a map, for MCPanorama.          *)
EXTENDS XmlRemap

XmlNet(lo, len) == Net([lo |-> lo, len |-> len], FALSE)
XmlObject(n, v, at) == [name |-> <<n>>, value |-> v, at |-> at]
XmlObjects ==
    {<<XmlObject("a", Host(0), "shared"), XmlObject("n", XmlNet(0, 1), "shared"),
       XmlObject("r", Span4(0, 1), "shared")>>,
     <<XmlObject("a", Host(0), "shared"), XmlObject("b", Host(4), "d1")>>,
     <<XmlObject("f", Fqdn, "shared"), XmlObject("n", XmlNet(0, 2), "d2"),
       XmlObject("svb", Host(1), "d2")>>}
XmlMembers == {Obj(<<"a">>), Obj(<<"n">>), Obj(<<"r">>), Lit(Host(1)), Lit(XmlNet(0, 1))}
XmlLists == {{m, k} : m, k \in XmlMembers}
            \cup {{AnyAddress}, {Obj(<<"g">>)}, {Obj(<<"g">>), Obj(<<"f">>), Lit(Host(0))}}
XmlGroups == {<<>>} \cup {<<[at |-> at, name |-> <<"g">>, members |-> m]>> :
                 at \in {"shared", "d1"}, m \in {{Obj(<<"a">>)}, {Obj(<<"n">>), Obj(<<"r">>)}}}
XmlConfig(objects, groups, members, at, from) ==
    [objects |-> objects, groups |-> groups, failed |-> FALSE, zones |-> [d1 |-> "z1"], dns |-> {},
     rules |-> <<[at |-> at, src |-> members, dst |-> {AnyAddress}, from |-> from, to |-> {"t"}],
                 [at |-> "d1", src |-> {Obj(<<"g">>)}, dst |-> members, from |-> {"t"},
                  to |-> {"any"}]>>]
Resolved(cfg) == [cfg EXCEPT !.dns = {[name |-> <<"f">>, ip |-> 2]}]

XmlRow(search, new, preferred) == [search |-> search, new |-> new, preferred |-> preferred]
XmlRows == {XmlRow(s, n, p) : s \in {XmlNet(0, 1), Host(0)}, n \in {XmlNet(4, 1), Host(4)},
                              p \in {<<>>, <<"p">>}}
           \cup {XmlRow(XmlNet(0, 2), XmlNet(4, 1), <<>>), XmlRow(Host(2), Host(5), <<>>),
                 XmlRow(XmlNet(0, 2), Span4(4, 5), <<>>), XmlRow(Span4(0, 1), XmlNet(4, 2), <<>>),
                 XmlRow(Span4(0, 1), Span4(4, 5), <<"p">>)}
XmlMaps == {<<[old |-> XmlNet(0, 1), new |-> XmlNet(4, 1)]>>,
            <<[old |-> XmlNet(0, 2), new |-> XmlNet(6, 2)], [old |-> XmlNet(0, 1), new |-> XmlNet(4, 1)]>>,
            <<[old |-> XmlNet(0, 1), new |-> XmlNet(4, 2)]>>}

\* What every version does to a configuration.
RemapsAreSound(cfg) ==
    /\ \A r \in XmlRows : /\ \A t \in {"remap", "zone", "orig"} : RowSound(t, r, cfg)
                          /\ \A t \in {"zone", "orig"} : RowSound(t, r, Resolved(cfg))
    /\ \A maps \in XmlMaps, ranges \in BOOLEAN : PassSound(maps, ranges, cfg)
    /\ VersionsAgree(XmlRow(XmlNet(0, 1), XmlNet(4, 1), <<>>), cfg)
=============================================================================
