------------------------------- MODULE XmlRemap -------------------------------
(***************************************************************************)
(* The remap of an exported Panorama configuration, in its five versions.   *)
(*   app/palo/ip_remap.py ("remap"), pa_xml_zone.py ("zone") and            *)
(*   pa_xml_zone-orig.py ("orig") apply the rows of a map one by one        *)
(*   pa_xml_zone_optimized.py and pa_xml_zone_range_optimized.py go over    *)
(*   the groups and rules once                                              *)
(* A configuration is [objects, groups, rules, zones, dns, failed]: objects *)
(* in the order of the document, [name, value, at]; a group [at, name,      *)
(* members], a rule [at, src, dst, from, to]; zones gives a device group    *)
(* its zone, dns the addresses that names resolve to (--resolve-fqdn; never *)
(* with "remap").  Members are objects, groups or literals, as in PanRemap. *)
(***************************************************************************)
EXTENDS PanRemap

AnyAddress == Obj(<<"any">>)
DefaultName(v) == <<"svb", v>>
Host(x) == Net([lo |-> x, len |-> Width], TRUE)
IsHost(v) == IsNet(v) /\ v.bare
IsPrefix4(v) == IsNet(v) /\ ~v.bare
AddressesOf(v) == IF IsNet(v) THEN Hosts(v) ELSE IF IsRange(v) THEN v.from .. v.to ELSE {}
FirstOf(v) == IF IsRange(v) THEN v.from ELSE v.lo
SameKind(v, w) == IF IsRange(v) THEN IsRange(w) ELSE IsNet(w) /\ v.bare = w.bare

-----------------------------------------------------------------------------
(* Objects.                                                                 *)

HoldersOf(cfg, v) == SelectSeq(cfg.objects, LAMBDA o : o.value = v)
Named(cfg, name) == \E o \in Range(cfg.objects) : o.name = name
\* create_address_object: at the end of the shared ones.
AddShared(cfg, name, v) ==
    LET shared == SelectSeq(cfg.objects, LAMBDA o : o.at = "shared")
        local == SelectSeq(cfg.objects, LAMBDA o : o.at # "shared")
    IN  [cfg EXCEPT !.objects =
            Append(shared, [name |-> name, value |-> v, at |-> "shared"]) \o local]
FreeName(cfg, base) ==
    IF ~Named(cfg, base) THEN base
    ELSE Append(base, CHOOSE i \in 1 .. (Len(cfg.objects) + 1) :
                          /\ ~Named(cfg, Append(base, i))
                          /\ \A j \in 1 .. (i - 1) : Named(cfg, Append(base, j)))

\* ensure_object_and_reuse_if_present: the configuration then; the name is the
\* first holder's.
Ensure(cfg, v, preferred) ==
    IF HoldersOf(cfg, v) # <<>> THEN cfg
    ELSE AddShared(cfg, FreeName(cfg, IF preferred = <<>> THEN DefaultName(v) ELSE preferred), v)
NameOf(cfg, v) == HoldersOf(cfg, v)[1].name

-----------------------------------------------------------------------------
(* One row, [search, new, preferred], by the first three.                   *)

\* The pairs of an address and its object: of two the last, then the resolved.
ObjectOf(cfg, x) ==
    LET held == HoldersOf(cfg, Host(x))
        resolved == {d.name : d \in {e \in cfg.dns : e.ip = x}}
    IN  IF resolved # {} THEN CHOOSE n \in resolved : TRUE
        ELSE IF held = <<>> THEN <<>> ELSE Last(held).name
LiteralHosts(cfg) ==
    {m.text.lo : m \in {l \in UNION {r.src \cup r.dst : r \in Range(cfg.rules)} :
                           l.name = <<>> /\ IsHost(l.text)}}
MatchedHosts(tool, cfg, search) ==
    LET known == {o.value.lo : o \in {p \in Range(cfg.objects) : IsHost(p.value)}}
                 \cup LiteralHosts(cfg) \cup {d.ip : d \in cfg.dns}
    IN  IF IsRange(search) /\ tool # "remap" THEN {} ELSE known \cap AddressesOf(search)
MappedHost(tool, row, x) ==
    IF IsHost(row.search) \/ ~SameKind(row.search, row.new) THEN row.new
    ELSE Host(FirstOf(row.new) + x - FirstOf(row.search))

\* update_section: "remap" replaces a literal by an object, held, the others
\* keep it.
Meets(members, v, obj) == Lit(v) \in members \/ (obj # <<>> /\ Obj(obj) \in members)
UpdateSection(tool, members, v, obj, held, names) ==
    LET added == {Obj(n) : n \in names}
    IN  IF ~Meets(members, v, obj) THEN members
        ELSE IF tool = "remap" /\ Lit(v) \in members
        THEN (members \ {Lit(v)}) \cup {Obj(held)} \cup added
        ELSE members \cup added
ZoneOf(tool, cfg, r, met) == IF tool # "remap" /\ met /\ r.at \in DOMAIN cfg.zones THEN {cfg.zones[r.at]} ELSE {}
UpdateRule(tool, cfg, r, v, obj, held, names) ==
    [r EXCEPT !.src = UpdateSection(tool, @, v, obj, held, names),
              !.dst = UpdateSection(tool, @, v, obj, held, names),
              !.from = @ \cup ZoneOf(tool, cfg, r, Meets(r.src, v, obj)),
              !.to = @ \cup ZoneOf(tool, cfg, r, Meets(r.dst, v, obj))]
UpdateLists(tool, cfg, v, obj, held, names) ==
    [cfg EXCEPT !.rules = [i \in DOMAIN @ |-> UpdateRule(tool, cfg, @[i], v, obj, held, names)],
                !.groups = [i \in DOMAIN @ |->
                    [@[i] EXCEPT !.members = UpdateSection(tool, @, v, obj, held, names)]]]
\* A literal without an object gets one.
UpdateMade(tool, cfg, v, names) == UpdateLists(tool, cfg, v, <<>>, NameOf(cfg, v), names)
UpdateAll(tool, cfg, v, obj, names) ==
    IF obj = <<>> /\ \E s \in UNION {{r.src, r.dst} : r \in Range(cfg.rules)}
                          \cup {g.members : g \in Range(cfg.groups)} : Lit(v) \in s
    THEN UpdateMade(tool, Ensure(cfg, v, <<>>), v, names)
    ELSE UpdateLists(tool, cfg, v, obj, obj, names)
AddMappedTo(tool, cfg, v, obj, w) == UpdateAll(tool, cfg, v, obj, {NameOf(cfg, w)})

\* The steps of process_row.
OneHost(tool, cfg, row, x, obj) ==
    LET w == MappedHost(tool, row, x)
    IN  AddMappedTo(tool, Ensure(cfg, w, row.preferred), Host(x), obj, w)
AllHosts(tool, cfg, before, row) ==
    FoldLeft(LAMBDA c, x : OneHost(tool, c, row, x, ObjectOf(before, x)), cfg,
             SetToSortSeq(MatchedHosts(tool, before, row.search), <))
\* Ranges inside the network, "remap" only.
OneRange(cfg, row, o) ==
    LET shift == row.new.lo - row.search.lo
        w == Span4(o.value.from + shift, o.value.to + shift)
    IN  AddMappedTo("remap", Ensure(cfg, w, <<>>), o.value, o.name, w)
AllRanges(tool, cfg, before, row) ==
    IF tool # "remap" \/ ~IsPrefix4(row.search) \/ ~IsPrefix4(row.new) THEN cfg
    ELSE FoldLeft(LAMBDA c, o : OneRange(c, row, o), cfg,
                  SelectSeq(before.objects, LAMBDA o :
                      IsRange(o.value) /\ {o.value.from, o.value.to} \subseteq Hosts(row.search)))
\* The network or range itself.
Container(tool, cfg, before, row) ==
    LET held == HoldersOf(before, row.search)
    IN  IF IsHost(row.search) \/ IsHost(row.new) THEN cfg
        ELSE AddMappedTo(tool, cfg, row.search, IF held = <<>> THEN <<>> ELSE held[1].name, row.new)
\* What holds the searched host, "zone" and "orig": a network, or a range that
\* begins or ends with it ("orig").  Its image moves as the host does.
Around(tool, before, x) ==
    SelectSeq(before.objects, LAMBDA o :
        \/ IsPrefix4(o.value) /\ x \in Hosts(o.value)
        \/ tool = "orig" /\ IsRange(o.value) /\ x \in {o.value.from, o.value.to})
ImageOfAround(v, shift) ==
    IF IsRange(v) THEN Span4(v.from + shift, v.to + shift) ELSE [v EXCEPT !.lo = @ + shift]
AddAround(tool, cfg, o, w, host) ==
    UpdateAll(tool, cfg, o.value, o.name, {NameOf(cfg, w)} \cup host)
OneAround(tool, cfg, row, o, host) ==
    LET w == ImageOfAround(o.value, row.new.lo - row.search.lo)
    IN  AddAround(tool, Ensure(cfg, w, row.preferred), o, w, host)
\* The name of the mapped host is set only when one was matched: "orig" dies
\* without; both die when the row maps the host to more than a host.
AroundHost(tool, cfg, before, row, matched) ==
    LET around == Around(tool, before, row.search.lo)
        host == IF matched THEN {NameOf(cfg, row.new)} ELSE {}
    IN  IF tool = "remap" \/ ~IsHost(row.search) \/ around = <<>> THEN cfg
        ELSE IF ~IsHost(row.new) \/ (tool = "orig" /\ ~matched) THEN [cfg EXCEPT !.failed = TRUE]
        ELSE FoldLeft(LAMBDA c, o : OneAround(tool, c, row, o, host), cfg, around)

RowUsed(tool, row) == ~(tool = "zone" /\ (IsRange(row.search) \/ IsRange(row.new)))
                      /\ ~(tool = "orig" /\ IsRange(row.search) # IsRange(row.new))
ProcessRow(tool, cfg, row) ==
    IF cfg.failed \/ ~RowUsed(tool, row) THEN cfg
    ELSE LET made == IF IsHost(row.new) THEN cfg ELSE Ensure(cfg, row.new, row.preferred)
             hosts == AllHosts(tool, made, cfg, row)
             ranges == AllRanges(tool, hosts, cfg, row)
         IN  AroundHost(tool, Container(tool, ranges, cfg, row), cfg, row,
                        MatchedHosts(tool, cfg, row.search) # {})

-----------------------------------------------------------------------------
(* The optimized two.  The rows are sorted as in PanRemap; with ranges, an   *)
(* address object of a range is mapped too.                                 *)

Shifted(v, delta) ==
    IF IsRange(v) THEN Span4(v.from + delta, v.to + delta)
    ELSE [v EXCEPT !.lo = ((@ + delta) - ((@ + delta) % SizeOf(v.len)))]
Within(v, n) == AddressesOf(v) \subseteq Hosts(n)
\* map_value_text, map_range_text: what a value becomes, or nothing.  A network
\* goes on to the next row when it does not land inside, a range does not.
MapText(maps, ranges, v) ==
    LET over == SelectSeq(maps, LAMBDA m : AddressesOf(v) # {} /\ Within(v, m.old))
        lands == SelectSeq(over, LAMBDA m : Within(Shifted(v, m.new.lo - m.old.lo), m.new))
        rows == IF ~IsRange(v) THEN lands
                ELSE IF ranges /\ over # <<>> THEN SelectSeq(<<over[1]>>, LAMBDA m : m \in Range(lands))
                ELSE <<>>
    IN  IF rows = <<>> THEN {} ELSE {Shifted(v, rows[1].new.lo - rows[1].old.lo)}

\* build_address_book: of two objects of a name the later one, of any scope.
BookValue(cfg, m) ==
    IF m.name = <<>> THEN (IF IsNet(m.text) THEN m.text ELSE NoValue)
    ELSE ValueOf(cfg.objects, m)
MappedMembers(cfg, maps, ranges, members) ==
    UNION {MapText(maps, ranges, BookValue(cfg, m)) : m \in members}
AddAll(cfg, maps, ranges, members) ==
    members \cup {Obj(DefaultName(v)) : v \in MappedMembers(cfg, maps, ranges, members)}
\* ensure_shared_address_entry: by its name, the value is written again.
EnsureShared(cfg, v) ==
    IF \E o \in Range(cfg.objects) : o.name = DefaultName(v) /\ o.at = "shared"
    THEN [cfg EXCEPT !.objects = [i \in DOMAIN @ |->
             IF @[i].name = DefaultName(v) /\ @[i].at = "shared" THEN [@[i] EXCEPT !.value = v] ELSE @[i]]]
    ELSE AddShared(cfg, DefaultName(v), v)
WithObjects(cfg, values) == FoldLeft(EnsureShared, cfg, SetToSeq(values))

\* process_address_group_static_members over all groups, with one book.
ProcessGroups(cfg, maps, ranges) ==
    [WithObjects(cfg, UNION {MappedMembers(cfg, maps, ranges, g.members) : g \in Range(cfg.groups)})
        EXCEPT !.groups = [i \in DOMAIN @ |->
            [@[i] EXCEPT !.members = AddAll(cfg, maps, ranges, @)]]]
UpdatedGroups(before, after, dg) ==
    {after.groups[i].name : i \in {j \in DOMAIN after.groups :
        after.groups[j].at = dg /\ after.groups[j].members # before.groups[j].members}}
\* process_rule_member_list, then the zone of a device group whose rule, or one
\* of whose groups in it, changed.
ZoneAdded(cfg, r, touched, zones) ==
    IF touched /\ r.at \in DOMAIN cfg.zones /\ "any" \notin zones
    THEN zones \cup {cfg.zones[r.at]} ELSE zones
ProcessRule(cfg, maps, ranges, r, updated) ==
    LET src == AddAll(cfg, maps, ranges, r.src)
        dst == AddAll(cfg, maps, ranges, r.dst)
        touched == src # r.src \/ dst # r.dst \/ \E n \in updated : Obj(n) \in r.src \cup r.dst
    IN  [r EXCEPT !.src = src, !.dst = dst, !.from = ZoneAdded(cfg, r, touched, @),
                  !.to = ZoneAdded(cfg, r, touched, @)]
ProcessRules(before, cfg, maps, ranges) ==
    [WithObjects(cfg, UNION {MappedMembers(cfg, maps, ranges, r.src \cup r.dst) : r \in Range(cfg.rules)})
        EXCEPT !.rules = [i \in DOMAIN @ |->
            ProcessRule(cfg, maps, ranges, @[i], UpdatedGroups(before, cfg, @[i].at))]]
RemapOnce(cfg, maps, ranges) == ProcessRules(cfg, ProcessGroups(cfg, maps, ranges), maps, ranges)

-----------------------------------------------------------------------------
(* What the remaps of an exported configuration promise.                    *)

\* The addresses a list of members stands for; a literal stands for itself.
Covers(cfg, members) == UNION {AddressesOf(ValueOf(cfg.objects, m)) : m \in members}
\* The lists of a configuration: <<kind, index>>.
ListsOf(cfg) == ({"src", "dst"} \X DOMAIN cfg.rules) \cup ({"group"} \X DOMAIN cfg.groups)
MembersOf(cfg, l) == CASE l[1] = "src" -> cfg.rules[l[2]].src
                       [] l[1] = "dst" -> cfg.rules[l[2]].dst
                       [] OTHER -> cfg.groups[l[2]].members
ZonesOf(cfg, l) == IF l[1] = "src" THEN cfg.rules[l[2]].from ELSE cfg.rules[l[2]].to
Direct(cfg, l) == {ValueOf(cfg.objects, m) : m \in MembersOf(cfg, l)}
NothingLost(before, after) ==
    \A l \in ListsOf(before) : Covers(before, MembersOf(before, l)) \subseteq Covers(after, MembersOf(after, l))
OneHolder(cfg) ==
    /\ \A i, j \in DOMAIN cfg.objects : i # j => /\ cfg.objects[i].name # cfg.objects[j].name
                                              /\ cfg.objects[i].value # cfg.objects[j].value
    /\ \A d \in cfg.dns, o \in Range(cfg.objects) : o.value # Host(d.ip)

\* A row takes no address out of a rule or group, gives every one of them that
\* names a host of the row, its network or a range in it the image and nothing
\* more, adds the zone of the device group on the side it changed ("remap" leaves
\* zones alone), and changes nothing the second time, in a configuration where a
\* value has one object and no image is mapped again (ip_remap.py:1,
\* pa_xml_zone.py:281 "Ensure mapped zone for device-group is in specified <from>
\* and/or <to> of rule").  A host's object that is not its last holder is missed, and
\* so is one of an address that a name resolves to.
WithImages(xs, shift) == xs \cup {x + shift : x \in xs}
RowIsDone(tool, row, before, after) ==
    /\ NothingLost(before, after)
    /\ \A l \in ListsOf(before), x \in MatchedHosts(tool, before, row.search) :
          Host(x) \in Direct(before, l)
             \/ (\E d \in before.dns : d.ip = x /\ Obj(d.name) \in MembersOf(before, l))
          => MappedHost(tool, row, x) \in Direct(after, l)
    /\ \A l \in ListsOf(before) :
          row.search \in Direct(before, l) /\ ~IsHost(row.new) => row.new \in Direct(after, l)
    /\ tool = "remap" /\ IsPrefix4(row.search) /\ IsPrefix4(row.new) =>
          \A l \in ListsOf(before) : \A v \in Direct(before, l) :
              IsRange(v) /\ Within(v, row.search)
                 => Shifted(v, row.new.lo - row.search.lo) \in Direct(after, l)
    /\ before.dns = {} /\ SameKind(row.search, row.new)
       /\ Cardinality(AddressesOf(row.search)) = Cardinality(AddressesOf(row.new)) =>
          \A l \in ListsOf(before) : Covers(after, MembersOf(after, l))
              \subseteq WithImages(Covers(before, MembersOf(before, l)), FirstOf(row.new) - FirstOf(row.search))
    /\ \A l \in ListsOf(before) :
          l[1] # "group" /\ MembersOf(before, l) # MembersOf(after, l) /\ tool # "remap" =>
              /\ ZonesOf(before, l) \subseteq ZonesOf(after, l)
              /\ LET at == after.rules[l[2]].at
                 IN  at \in DOMAIN after.zones => after.zones[at] \in ZonesOf(after, l)
    /\ tool = "remap" => \A l \in ListsOf(before) : l[1] # "group" => ZonesOf(after, l) = ZonesOf(before, l)
    /\ ProcessRow(tool, after, row) = after
NoneAgain(tool, before, after, row) ==
    \A v \in {o.value : o \in Range(after.objects)} \ {o.value : o \in Range(before.objects)} :
        \/ v \in UNION {Direct(before, l) : l \in ListsOf(before)}
        \/ AddressesOf(v) \cap AddressesOf(row.search) = {}
RowOutcome(tool, row, before, after) ==
    OneHolder(before) /\ RowUsed(tool, row) /\ ~after.failed
    /\ NoneAgain(tool, before, after, row) => RowIsDone(tool, row, before, after)
RowSound(tool, row, cfg) == \A after \in {ProcessRow(tool, cfg, row)} : RowOutcome(tool, row, cfg, after)

\* One pass of the optimized versions only adds, gives each list the image of
\* every value the map covers, marks with its zone just the device-group rules
\* whose list changed or that name a group of theirs that did, and leaves the
\* second pass nothing to do (pa_xml_zone_range_optimized.py:8 "additive-only").
\* A rule that names a shared group that changed gets no zone.
Marked(before, after, r, q) ==
    LET touched == \/ r.src # q.src \/ r.dst # q.dst
                   \/ \E g \in DOMAIN before.groups :
                         /\ before.groups[g].at = r.at /\ Obj(before.groups[g].name) \in r.src \cup r.dst
                         /\ before.groups[g].members # after.groups[g].members
        zone(f) == IF touched /\ r.at \in DOMAIN before.zones /\ "any" \notin r[f]
                   THEN {before.zones[r.at]} ELSE {}
    IN  \A f \in {"from", "to"} : q[f] = r[f] \cup zone(f)
PassIsDone(maps, ranges, before, after) ==
    /\ NothingLost(before, after)
    /\ \A l \in ListsOf(before) :
          /\ MembersOf(before, l) \subseteq MembersOf(after, l)
          /\ UNION {MapText(maps, ranges, v) : v \in
                       {w \in Direct(before, l) : IsNet(w) \/ (IsRange(w) /\ Lit(w) \notin MembersOf(before, l))}}
                \subseteq Direct(after, l)
    /\ \A i \in DOMAIN before.rules : Marked(before, after, before.rules[i], after.rules[i])
    /\ RemapOnce(after, maps, ranges) = after
PassSound(maps, ranges, cfg) ==
    OneHolder(cfg) => \A after \in {RemapOnce(cfg, maps, ranges)} : PassIsDone(maps, ranges, cfg, after)

\* Where only hosts are mapped, from a network to one of its size, the rules and
\* groups come out with the same addresses from every version.
HostsOnly(cfg) == /\ \A o \in Range(cfg.objects) : IsHost(o.value)
                  /\ \A l \in ListsOf(cfg) : \A m \in MembersOf(cfg, l) : m.name = <<>> => IsHost(m.text)
VersionsAgree(row, cfg) ==
    OneHolder(cfg) /\ cfg.dns = {} /\ HostsOnly(cfg) =>
        \A once \in {RemapOnce(cfg, <<[old |-> row.search, new |-> row.new]>>, TRUE)},
           rows \in {ProcessRow(tool, cfg, row) : tool \in {"remap", "zone", "orig"}} :
            \A l \in ListsOf(cfg) : Covers(rows, MembersOf(rows, l)) = Covers(once, MembersOf(once, l))
=============================================================================
