------------------------------ MODULE PanRemap ------------------------------
(***************************************************************************)
(* The remap reports of Panorama and the older remap of NSX group files.    *)
(*   app/palo/pan_group_remap.py, tools/pan/pan_group_remap_report.py: what *)
(*   an additive remap would add to address groups and security rules       *)
(*   app/nsx/nsx_object_functions/nsx_group_remap.py: the same subnet pairs *)
(*   applied to the address expressions of NSX groups                       *)
(* A value is a network written with its length or, a host, bare; a range;  *)
(* or one that is never mapped.                                             *)
(***************************************************************************)
EXTENDS IpRemap, FiniteSetsExt

Net(n, bare) == [lo |-> n.lo, len |-> n.len, bare |-> bare]
Span4(from, to) == [from |-> from, to |-> to]
Fqdn == [fqdn |-> TRUE]
NoValue == [none |-> TRUE]
IsNet(v) == "lo" \in DOMAIN v
IsRange(v) == "from" \in DOMAIN v
Fits(x) == x < 2 ^ Width

\* read_csv_mappings: longest old first, in file order.
ReadMappings(pairs) ==
    LET order == SetToSortSeq(DOMAIN pairs, LAMBDA i, j :
            \/ pairs[i].old.len > pairs[j].old.len
            \/ pairs[i].old.len = pairs[j].old.len /\ i < j)
    IN  [k \in DOMAIN order |-> pairs[order[k]]]

FindMapping(maps, x) == SelectSeq(maps, LAMBDA m : x \in Hosts(m.old))
RemapIp(x, m) == x + m.new.lo - m.old.lo
MappedRange(a, b, v) ==
    IF a # <<>> /\ b # <<>> /\ a[1].old = b[1].old
    THEN Span4(RemapIp(v.from, a[1]), RemapIp(v.to, b[1])) ELSE v
\* A whole old subnet becomes the new one, whatever its length; a part of it
\* moves by the offset, cut to its own length.
MappedNet(m, v) ==
    LET base == RemapIp(v.lo, m)
    IN  IF v.lo = m.old.lo /\ v.len = m.old.len THEN Net(m.new, FALSE)
        ELSE IF ~Fits(base) THEN v
        ELSE Net([lo |-> base - (base % SizeOf(v.len)), len |-> v.len], FALSE)
\* remap_token, of both files.  A mapped host is written with its length.
RemapToken(maps, v) ==
    IF IsRange(v) THEN MappedRange(FindMapping(maps, v.from), FindMapping(maps, v.to), v)
    ELSE LET over == IF IsNet(v) THEN SelectSeq(maps, LAMBDA m : SubnetOf(v, m.old)) ELSE <<>>
         IN  IF over = <<>> THEN v ELSE MappedNet(over[1], v)

-----------------------------------------------------------------------------
(* pan_group_remap.py.  A member is an object, known by its name, or, in a  *)
(* rule, a literal.  An object is [name, value, at], at its scope.          *)

Obj(name) == [name |-> name, text |-> NoValue]
Lit(v) == [name |-> <<>>, text |-> v]
\* The name of an object is <<name>>, or <<name, value>> of one made for it.
Suggested(name, v) == Append(name, v)

\* The panorama report writes a bare host bare again.
PanMapped(maps, v) ==
    LET w == RemapToken(maps, v)
    IN  IF IsNet(v) /\ v.bare /\ w.len = Width THEN [w EXCEPT !.bare = TRUE] ELSE w

Scopes(cfg) == <<"shared">> \o cfg.dgs
\* list + shared: of two objects of a name the later one, the shared, counts.
Visible(cfg, scope) ==
    SelectSeq(cfg.objects, LAMBDA o : o.at = scope)
        \o (IF scope = "shared" THEN <<>> ELSE SelectSeq(cfg.objects, LAMBDA o : o.at = "shared"))
ValueOf(objects, member) ==
    IF member.name = <<>> THEN member.text
    ELSE LET named == SelectSeq(objects, LAMBDA o : o.name = member.name)
         IN  IF named = <<>> THEN NoValue ELSE Last(named).value

\* analyze_groups, analyze_rules: one target, [at, rule, members].
Partner(objects, members, v) == \E m \in members : ValueOf(objects, m) = v
Moves(objects, maps, m) == LET v == ValueOf(objects, m) IN IsNet(v) /\ PanMapped(maps, v) # v
Existing(objects, v) ==
    LET same == SelectSeq(objects, LAMBDA o : o.value = v)
    IN  IF same = <<>> THEN <<>> ELSE same[1].name
WouldAdd(objects, maps, members) ==
    {m \in members : Moves(objects, maps, m)
                     /\ ~Partner(objects, members, PanMapped(maps, ValueOf(objects, m)))}
AlreadyRemapped(objects, maps, members) ==
    {m \in members : Moves(objects, maps, m)} \ WouldAdd(objects, maps, members)

\* An item of the analysis, with the target it is for.
Item4(objects, maps, t, target, m) ==
    LET v == ValueOf(objects, m)
        w == PanMapped(maps, v)
    IN  [target |-> t, at |-> target.at, member |-> m, value |-> v, mapped |-> w,
         existing |-> Existing(objects, w)]
AnalyzeTarget(cfg, maps, t, target, objects) ==
    {Item4(objects, maps, t, target, m) : m \in WouldAdd(objects, maps, target.members)}
Items(cfg, maps) ==
    UNION {AnalyzeTarget(cfg, maps, t, cfg.targets[t], Visible(cfg, cfg.targets[t].at)) :
               t \in DOMAIN cfg.targets}

\* aggregate_report_items: items of one member, value and mapped value are one
\* action; the first says what is reused.  Targets are listed groups first, each
\* kind by scope.
ScopeRank(cfg, at) == CHOOSE i \in DOMAIN Scopes(cfg) : Scopes(cfg)[i] = at
SameAction(j, k) == j.member = k.member /\ j.value = k.value /\ j.mapped = k.mapped
ActionFor(items, i) ==
    CHOOSE j \in {k \in items : SameAction(k, i)} :
        \A k \in items : SameAction(k, i) => j.target <= k.target
\* flatten_updates: what is added to a target.
NewMember(items, i) ==
    IF i.member.name = <<>> THEN Lit(i.mapped)
    ELSE LET a == ActionFor(items, i)
         IN  Obj(IF a.existing # <<>> THEN a.existing ELSE Suggested(i.member.name, i.mapped))
Updates(items, t) == {NewMember(items, i) : i \in {j \in items : j.target = t}}

\* The operator's work: the objects are made where the old ones are, by
\* name_locations the first one of the name, and the members added.
LocationOf(cfg, name) ==
    LET at == {o.at : o \in {p \in Range(cfg.objects) : p.name = name}}
    IN  CHOOSE s \in at : \A q \in at : ScopeRank(cfg, s) <= ScopeRank(cfg, q)
Created(cfg, items) ==
    {[name |-> Suggested(i.member.name, i.mapped), value |-> i.mapped,
      at |-> LocationOf(cfg, i.member.name)] :
        i \in {j \in items : /\ j.member.name # <<>>
                             /\ ActionFor(items, j).existing = <<>>}}
Applied(cfg, items) ==
    [cfg EXCEPT !.objects = @ \o SetToSeq(Created(cfg, items)),
                !.targets = [t \in DOMAIN @ |->
                    [@[t] EXCEPT !.members = @ \cup Updates(items, t)]]]

\* csv_coverage: the values of a row.
CsvCoverage(m, values) ==
    {v \in values : IF IsNet(v) THEN SubnetOf(v, m.old)
                    ELSE IsRange(v) /\ {v.from, v.to} \subseteq Hosts(m.old)}

-----------------------------------------------------------------------------
(* nsx_group_remap.py                                                       *)

\* add_mapped_ip_addresses_additive, add_mapped_ips_in_doc: one expression.
AddMapped(maps, tokens) == tokens \cup {RemapToken(maps, v) : v \in tokens}

\* remap_ip_addresses_new_only, convert_groups_in_doc: the copy of a group in
\* the new domain; a group of which nothing maps has none.
NewOnly(maps, tokens) == {RemapToken(maps, v) : v \in {u \in tokens : RemapToken(maps, u) # u}}
ConvertGroups(maps, groups) ==
    [g \in {h \in DOMAIN groups : \E e \in Range(groups[h]) : NewOnly(maps, e) # {}} |->
        [i \in DOMAIN groups[g] |-> NewOnly(maps, groups[g][i])]]

-----------------------------------------------------------------------------
(* What the remap reports promise, over a map and a small configuration.    *)

OldNew(rows) == SitePairs(rows, "dc")
SameLengths(rows) == \A i \in DOMAIN rows : rows[i].old.len = rows[i].new["dc"].len
NoChain(rows) == \A i, j \in DOMAIN rows : Hosts(rows[i].new["dc"]) \cap Hosts(rows[j].old) = {}
Bare(t) == Net(t, t.len = Width)

\* The three remaps of the repository, of one file of pairs, send every network
\* to the same place (pan_group_remap.py:106, nsx_group_remap.py:315 and
\* nsx_group_ip_remap_offline.py:346); of a row whose networks differ in length
\* the first two put a whole old one on the whole new one, the third does not.
\* A value moves when the report counts it for a row, a range only then.
Same(w, t, images) == {[lo |-> w.lo, len |-> w.len]} = (IF images = {} THEN {t} ELSE images)
RemapsAgreeOn(maps, table) ==
    /\ \A t \in Nets : Same(RemapToken(maps, Bare(t)), t, MapToken(table, t))
    /\ LET values == {Bare(t) : t \in Nets} \cup {Span4(1, 2), Span4(2, 3)}
           moves == {v \in values : RemapToken(maps, v) # v}
           covered == UNION {CsvCoverage(m, values) : m \in Range(maps)}
       IN  moves \subseteq covered /\ {v \in covered : IsNet(v)} \subseteq moves

\* A configuration of two device groups: an object of value v in one scope or
\* two, perhaps one that holds its image already, a group and rules with u.
Object(name, v, at) == [name |-> <<name>>, value |-> v, at |-> at]
Target(at, members) == [at |-> at, members |-> members]
ConfigOf(v, image, ats, twin, u) ==
    [dgs |-> <<"d1", "d2">>,
     objects |-> SetToSeq({Object("a", v, at) : at \in ats}
                          \cup {Object("b", image, at) : at \in {twin} \ {"none"}}),
     targets |-> <<Target("d1", {Obj(<<"a">>)}), Target("d1", {Obj(<<"a">>), Lit(u)}),
                   Target("d2", {Obj(<<"a">>), Lit(u)})>>]
Sees(cfg, t, m) == m.name = <<>> \/ ValueOf(Visible(cfg, cfg.targets[t].at), m) # NoValue

\* When the work list of the report has been done, a second report of the same
\* map is empty, counts the old members as remapped, and nothing was taken out of a group or rule, provided each
\* object it says to add can be seen where it is added (pan_group_remap.py:437
\* "Collapse the per-scope, per-location findings into one action per object";
\* an object of one device group is proposed for the others too).
DoneOn(maps, cfg, items, after) ==
    (\A t \in DOMAIN cfg.targets : \A m \in Updates(items, t) : Sees(after, t, m)) =>
        /\ Items(after, maps) = {}
        /\ \A t \in DOMAIN cfg.targets :
              /\ cfg.targets[t].members \subseteq after.targets[t].members
              /\ \A i \in {j \in items : j.target = t} :
                    i.member \in AlreadyRemapped(Visible(after, i.at), maps, after.targets[t].members)
        /\ \A o \in Created(cfg, items) : \E r \in Range(maps) : o.value.lo \in Hosts(r.new)
DoneItems(maps, cfg, items) == \A after \in {Applied(cfg, items)} : DoneOn(maps, cfg, items, after)
DoneConfig(maps, cfg) == \A items \in {Items(cfg, maps)} : DoneItems(maps, cfg, items)
ReportIsDoneOn(maps, v, ats, twin, u) ==
    DoneConfig(maps, ConfigOf(v, PanMapped(maps, v), ats, twin, u))

\* Adding the mapped addresses to an expression of an NSX group takes none out
\* and adds nothing the second time; the copy in the new domain holds nothing
\* but mapped addresses (nsx_group_remap.py:512, 375).
NsxRemapOn(maps, tokens) ==
    LET once == AddMapped(maps, tokens)
        new == ConvertGroups(maps, <<<<tokens>>>>)
    IN  /\ tokens \subseteq once
        /\ AddMapped(maps, once) = once
        /\ \A g \in DOMAIN new : \A v \in new[g][1] :
              \E r \in Range(maps) : v.lo \in Hosts(r.new)

Report(maps, t, second) ==
    /\ \A ats \in {{"shared"}, {"d1"}, {"d1", "d2"}}, twin \in {"none", "shared", "d1"}, u \in second :
          ReportIsDoneOn(maps, Bare(t), ats, twin, Bare(u))
    /\ \A u \in second : NsxRemapOn(maps, {Bare(t), Bare(u)})
PanRemapOn(rows, maps, second) ==
    LoadErrors(rows, {"dc"}) = {} =>
        /\ SameLengths(rows) => RemapsAgreeOn(maps, LoadMappingCsv(OldNew(rows), FALSE))
        /\ NoChain(rows) => \A t \in {n \in Nets : n.len >= Width - 1} : Report(maps, t, second)
=============================================================================
