------------------------------ MODULE PanMirror ------------------------------
(***************************************************************************)
(* NSX groups as Panorama objects (app/multisite/pan_mirror.py): the exact  *)
(* mirror of groups, tags and virtual machines, and the static groups made  *)
(* of sibling bundles.  A name is a text cleaned for Panorama, a network    *)
(* when an address names itself, and what the tools append to it.           *)
(*                                                                         *)
(* A group is [id, display, system, expr]; an item of its expression holds  *)
(* conditions (terms: a condition has one, a nested expression several; a   *)
(* tag "" is a condition Panorama has no form for), networks, paths,        *)
(* external ids, or none of these.                                          *)
(***************************************************************************)
EXTENDS Integers, Sequences, FiniteSets, SequencesExt, FiniteSetsExt

CONSTANTS Cleaned,     \* [text -> name]: what safe_name makes of the texts it changes
          Unusable     \* link-local, loopback and unspecified addresses

Clean(text) == IF text \in DOMAIN Cleaned THEN Cleaned[text] ELSE text
SafeName(text) == [base |-> Clean(text), nets |-> {}, suffix |-> <<>>]
Suffixed(name, s) == IF s = "" THEN name ELSE [name EXCEPT !.suffix = Append(@, s)]

\* Address objects of entries, each named by itself; the entry {} is unreadable.
IpObjects(entries) ==
    {[name |-> [base |-> "", nets |-> t, suffix |-> <<>>], value |-> t, tags |-> {}] : t \in entries \ {{}}}
Usable(ips) == ips \ Unusable

-----------------------------------------------------------------------------
(* One expression in parts.                                                 *)

ConditionTerm(t) == [t EXCEPT !.tag = Clean(@)]
IsFilter(item) == item.terms # <<>>
Whole(item) == \A i \in DOMAIN item.terms : item.terms[i].tag # ""

NestedFilter(item) == [i \in DOMAIN item.terms |-> ConditionTerm(item.terms[i])]

GroupFilter(g) ==
    LET f == SelectSeq(g.expr, LAMBDA e : IsFilter(e) /\ Whole(e))
    IN  [i \in DOMAIN f |-> [op |-> CASE i = 1 -> "" [] i > 1 /\ f[i].op = "" -> "or" [] OTHER -> f[i].op,
                             terms |-> NestedFilter(f[i])]]

\* A nested expression is given up at its first condition without a form; the
\* tags before it count as used.
TagsUsed(g) ==
    UNION {{e.terms[i].tag : i \in {n \in DOMAIN e.terms : \A k \in 1 .. n : e.terms[k].tag # ""}} :
              e \in Range(g.expr)}
Ips(g) == UNION {e.ips : e \in Range(g.expr)}
GroupPaths(g) == UNION {e.paths : e \in Range(g.expr)} \ {"segment"}
ExtIds(g) == UNION {e.vms : e \in Range(g.expr)}
Unsupported(g) ==
    \E e \in Range(g.expr) : \/ ~Whole(e)
                             \/ "segment" \in e.paths
                             \/ e.other
                             \/ ~IsFilter(e) /\ e.op = "and"

-----------------------------------------------------------------------------
(* build_mirror.                                                            *)

ById(groups, id) == CHOOSE g \in Range(groups) : g.id = id
Known(groups, ids) == {i \in ids : \E g \in Range(groups) : g.id = i}
\* The last group with that name or id.
ByKey(groups, k) ==
    LET named == {n \in DOMAIN groups : k \in {groups[n].display, groups[n].id}}
    IN  {groups[i] : i \in {n \in named : \A m \in named : m <= n}}

RECURSIVE GroupClosure(_, _, _)
GroupClosure(groups, queue, seen) ==
    IF queue \subseteq seen THEN seen
    ELSE GroupClosure(groups, UNION {Known(groups, GroupPaths(ById(groups, i))) : i \in queue}, seen \cup queue)

Everything == {"*"}
Chosen(groups, only) ==
    LET asked == UNION {ByKey(groups, k) : k \in only}
        ids == GroupClosure(groups, {g.id : g \in asked}, {})
    IN  SelectSeq(groups, LAMBDA g : IF only = Everything THEN ~g.system ELSE g.id \in ids)

Mirrored(vms) == {v \in Range(vms) : v.type = "REGULAR"}

Finding(code, at) == [code |-> code, at |-> at]

\* The objects of a machine: one an address, the first named by the host name.
VmObjects(vm) ==
    LET ips == SetToSortSeq(Usable(vm.ips), <)
    IN  {[name |-> Suffixed(SafeName(vm.host), IF i = 1 THEN "" ELSE ToString(i)), value |-> {ips[i]},
          tags |-> {Clean(t) : t \in vm.tags}] : i \in DOMAIN ips}
Needed(vm, chosen) ==
    \/ vm.tags \cap UNION {TagsUsed(g) : g \in Range(chosen)} # {}
    \/ vm.ext \in UNION {ExtIds(g) : g \in Range(chosen)}
Made(vm, chosen) == Needed(vm, chosen) /\ vm.host # "" /\ Usable(vm.ips) # {}
VmFindings(vm, chosen) ==
    CASE ~Needed(vm, chosen) -> {}
      [] Needed(vm, chosen) /\ vm.host = "" -> {Finding("vm_missing_hostname", SafeName(vm.ext))}
      [] Needed(vm, chosen) /\ vm.host # "" /\ Usable(vm.ips) = {} -> {Finding("vm_without_ip", SafeName(vm.ext))}
      [] OTHER -> {}

\* A member listed by external id is the first object of its machine.
VmMembers(g, made) == {Suffixed(SafeName(v.host), "") : v \in {w \in made : w.ext \in ExtIds(g)}}

Dynamic(name, filter) == [name |-> name, kind |-> "dynamic", filter |-> filter, members |-> {}]
Static(name, members) == [name |-> name, kind |-> "static", filter |-> <<>>, members |-> members]

HasOthers(g) == IpObjects(Ips(g)) # {} \/ GroupPaths(g) # {} \/ ExtIds(g) # {}
GroupPlan(groups, g, made) ==
    LET name == SafeName(g.display)
        helper == Suffixed(name, "-tags")
        others == {o.name : o \in IpObjects(Ips(g))} \cup VmMembers(g, made)
                  \cup {SafeName(ById(groups, i).display) : i \in Known(groups, GroupPaths(g))}
    IN  CASE GroupFilter(g) # <<>> /\ ~HasOthers(g) -> <<Dynamic(name, GroupFilter(g))>>
          [] GroupFilter(g) # <<>> /\ HasOthers(g) -> <<Dynamic(helper, GroupFilter(g)), Static(name, others \cup {helper})>>
          [] GroupFilter(g) = <<>> /\ HasOthers(g) -> <<Static(name, others)>>
          [] OTHER -> <<>>

GroupFindings(groups, g, made) ==
    LET name == SafeName(g.display)
        Found(code, wrong) == IF wrong THEN {Finding(code, name)} ELSE {}
    IN  Found("not_mirrored", Unsupported(g)) \cup Found("bad_address", {} \in Ips(g))
        \cup Found("nested_group_missing", Known(groups, GroupPaths(g)) # GroupPaths(g))
        \cup Found("mixed_group", GroupFilter(g) # <<>> /\ HasOthers(g))
        \cup Found("empty_group", GroupFilter(g) = <<>> /\ ~HasOthers(g))
        \cup Found("vm_member_not_mirrored", ExtIds(g) \ {v.ext : v \in made} # {})
        \cup Found("static_group_empty", \E p \in Range(GroupPlan(groups, g, made)) : p.kind = "static" /\ p.members = {})

\* Address objects and groups share a name space; one address may come twice.
Clashes(addresses, plans) ==
    {a.name : a \in {b \in addresses : \E c \in addresses : b.name = c.name /\ b.value # c.value}}
    \cup {p.name : p \in {q \in Range(plans) : \E a \in addresses : a.name = q.name}}
    \cup {plans[i].name : i \in {n \in DOMAIN plans : \E k \in 1 .. n - 1 : plans[k].name = plans[n].name}}

\* Members before the groups that hold them; the rest of a cycle as it is.
RECURSIVE OrderGroups(_, _)
OrderGroups(pending, out) ==
    LET names == {p.name : p \in Range(pending)}
        Place(acc, p) == IF p.members \cap (names \ {q.name : q \in Range(acc.out)}) = {}
                         THEN [acc EXCEPT !.out = Append(@, p)] ELSE [acc EXCEPT !.left = Append(@, p)]
        pass == FoldLeft(Place, [out |-> out, left |-> <<>>], pending)
    IN  IF pass.left = <<>> \/ pass.left = pending THEN pass.out \o pass.left
        ELSE OrderGroups(pass.left, pass.out)

Plans(groups, chosen, made) == FlattenSeq([i \in DOMAIN chosen |-> GroupPlan(groups, chosen[i], made)])
Addresses(chosen, made) == UNION {VmObjects(v) : v \in made} \cup UNION {IpObjects(Ips(g)) : g \in Range(chosen)}
MirrorOf(groups, machines, only, chosen, made, plans, addresses) ==
    [tags |-> {Clean(t) : t \in UNION {TagsUsed(g) : g \in Range(chosen)} \cup UNION {v.tags : v \in made}},
     addresses |-> addresses, groups |-> OrderGroups(plans, <<>>),
     findings |-> {Finding("group_not_found", SafeName(k)) : k \in {o \in only \ Everything : ByKey(groups, o) = {}}}
                  \cup UNION {VmFindings(v, chosen) : v \in machines}
                  \cup UNION {GroupFindings(groups, g, made) : g \in Range(chosen)}
                  \cup {Finding("name_clash", n) : n \in Clashes(addresses, plans)}]

MirrorChosen(groups, machines, only, chosen, made) ==
    MirrorOf(groups, machines, only, chosen, made, Plans(groups, chosen, made), Addresses(chosen, made))
BuildMirrorOf(groups, machines, only, chosen) ==
    MirrorChosen(groups, machines, only, chosen, {v \in machines : Made(v, chosen)})
BuildMirror(groups, vms, only) == BuildMirrorOf(groups, Mirrored(vms), only, Chosen(groups, only))

\* The writes of a plan, in order, each with the names it refers to.
RestWrites(plan) ==
    LET tags == SetToSeq(plan.tags)
        addresses == SetToSeq(plan.addresses)
        TagNames(f) == UNION {{SafeName(f[i].terms[k].tag) : k \in DOMAIN f[i].terms} : i \in DOMAIN f}
    IN  [i \in DOMAIN tags |-> [kind |-> "tag", name |-> SafeName(tags[i]), refs |-> {}]]
        \o [i \in DOMAIN addresses |-> [kind |-> "address", name |-> addresses[i].name,
                                        refs |-> {SafeName(t) : t \in addresses[i].tags}]]
        \o [i \in DOMAIN plan.groups |->
               [kind |-> "address-group", name |-> plan.groups[i].name,
                refs |-> plan.groups[i].members \cup TagNames(plan.groups[i].filter)]]

-----------------------------------------------------------------------------
(* build_sibling_mirror.                                                    *)

HasHost(vm) == vm.type = "REGULAR" /\ vm.host # ""
\* The machines known to hold an address now.
VmIpIndex(vms, ip) == {v \in Range(vms) : HasHost(v) /\ ip \in Usable(v.ips)}
Owner(vms, net) ==
    LET owners == UNION {VmIpIndex(vms, ip) : ip \in net}
    IN  IF Cardinality(net) = 1 /\ Cardinality(owners) = 1 THEN owners ELSE {}

\* A host address is named by the machine that has its source address.
AddAddress(vms, addr, src, suffix) ==
    {[o EXCEPT !.name = Suffixed(IF Cardinality(addr) = 1 /\ Owner(vms, src) # {}
                                 THEN [@ EXCEPT !.base = Clean((CHOOSE v \in Owner(vms, src) : TRUE).host)]
                                 ELSE @, suffix)] : o \in IpObjects({addr})}

IsSourceRow(row) == ~row.isMapped
Pairs(row) == IF IsSourceRow(row) THEN {<<ip, ip>> : ip \in row.source}
              ELSE UNION {{<<p.src, d>> : d \in p.dst} : p \in row.pairs}
RowObjects(vms, bundle, row) ==
    UNION {AddAddress(vms, p[2], p[1], bundle.appendix) : p \in Pairs(row)}

SiblingName(row) == SafeName(row.sibling)
\* [bundle, row], in the order the bundles are read.
RowsOf(bundles) ==
    FlattenSeq([b \in DOMAIN bundles |-> [i \in DOMAIN bundles[b].rows |->
                                             [bundle |-> bundles[b], row |-> bundles[b].rows[i]]]])
MembersOf(vms, r) == {o.name : o \in RowObjects(vms, r.bundle, r.row)}

\* rows with the names they resolve to and the first row of the same sibling.
ResolveRows(vms, rows) ==
    [i \in DOMAIN rows |->
        [at |-> i, name |-> SiblingName(rows[i].row), members |-> MembersOf(vms, rows[i]), row |-> rows[i].row,
         first |-> Min({k \in DOMAIN rows : SiblingName(rows[k].row) = SiblingName(rows[i].row)})]]

SiblingPlan(vms, rows, resolved) ==
    LET kept == SelectSeq(resolved, LAMBDA k : k.first = k.at /\ k.members # {})
        Found(code, wrong(_)) == {Finding(code, k.name) : k \in {r \in Range(resolved) : wrong(r)}}
    IN  [tags |-> {}, addresses |-> UNION {RowObjects(vms, r.bundle, r.row) : r \in Range(rows)},
         groups |-> [i \in DOMAIN kept |-> Static(kept[i].name, kept[i].members)],
         findings |->
            Found("sibling_differs_between_bundles", LAMBDA k : resolved[k.first].members # k.members)
            \cup Found("bundle_inconsistent",
                       LAMBDA k : ~IsSourceRow(k.row) /\ UNION {p.dst : p \in k.row.pairs} # k.row.mapped)
            \cup Found("bad_address", LAMBDA k : \E p \in Pairs(k.row) : p[2] = {})
            \cup Found("empty_group", LAMBDA k : k.first = k.at /\ k.members = {})
            \cup {Finding("vm_missing_hostname", SafeName(v.ext)) :
                     v \in {w \in Range(vms) : w.type = "REGULAR" /\ w.host = "" /\ Usable(w.ips) # {}}}]

BuildSiblingMirror(bundles, vms) ==
    SiblingPlan(vms, RowsOf(bundles), ResolveRows(vms, RowsOf(bundles)))
=============================================================================
