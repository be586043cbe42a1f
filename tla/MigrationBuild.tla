--------------------------- MODULE MigrationBuild ---------------------------
(***************************************************************************)
(* The build of a migration request: from the list of servers, the VM-rule  *)
(* snapshot and the source capture to the bundle, the sibling groups and    *)
(* the amendments (app/multisite/migration_request.py, build() of           *)
(* tools/multisite/migration_request.py, tools/nsx/build_sibling_groups.py). *)
(* cap is the capture: policies[p] = [category, default, scope], rules[k] =  *)
(* [policy, src, dst, scope, services], k = <<policy, id>>; groups[g] and    *)
(* additive[g] = [condition, ips, paths]; services[s] = the ones it nests.   *)
(***************************************************************************)
EXTENDS VmRules

CONSTANTS OtherPaths,     \* members of a group that are no groups: segments, ports
          Untouched       \* ids of the default sections: SKIP_POLICIES

Fields == {"src", "dst"}                          \* AMEND_FIELDS
RefsOf(refs) == refs \ {AnyGroup}

-----------------------------------------------------------------------------
(* The servers.                                                             *)

\* merge_entries: an address one machine owns becomes that machine's name;
\* entries of one name are one entry.
MergeEntries(entries, vms) ==
    LET named(e) == \E i \in DOMAIN vms : vms[i].name = e.name
        owners(e) == IF e.ip = Nobody \/ named(e) THEN {}
                     ELSE {vms[i].name : i \in {j \in DOMAIN vms : e.ip \in vms[j].ips}}
        found(e) == IF Cardinality(owners(e)) # 1 THEN e
                    ELSE [name |-> CHOOSE n \in owners(e) : TRUE, ip |-> Nobody,
                          ips |-> e.ips \cup {e.ip}]
        new == [i \in DOMAIN entries |-> found(entries[i])]
        same(n) == {i \in DOMAIN new : new[i].name = n}
    IN  {[name |-> n, ip |-> new[Min(same(n))].ip, ips |-> UNION {new[i].ips : i \in same(n)},
          ambiguous |-> \E i \in same(n) : Cardinality(owners(entries[i])) > 1] :
            n \in {new[i].name : i \in DOMAIN new}}

\* server_rows.
ServerRow(e, data) ==
    LET found == Resolve(e, data.vms)
        t == CHOOSE x \in found : TRUE
        status == CASE found = {} -> IF e.ambiguous THEN "ambiguous" ELSE "not_found"
                    [] found # {} /\ t.kind = "ip" ->
                          IF e.ambiguous \/ Cardinality(t.owners) > 1 THEN "ambiguous" ELSE "ok"
                    [] OTHER -> "ok"
    IN  IF found = {} THEN [name |-> e.name, status |-> status, ext |-> Nobody, ips |-> {}, groups |-> {}]
        ELSE [name |-> e.name, status |-> status, ext |-> t.ext, ips |-> t.ips,
              groups |-> GroupsOf(t, data)]
ServerRows(data, entries) == {ServerRow(e, data) : e \in MergeEntries(entries, data.vms)}
OkRows(rows) == {r \in rows : r.status = "ok"}

\* The rules the servers with status ok are in.
Hits(data, entries) ==
    LET analysis == Analyze(data, SetToSeq(MergeEntries(entries, data.vms)))
        exts == {r.ext : r \in OkRows(ServerRows(data, entries))}
        hit(h) == \E t \in DOMAIN h.bySide : t.ext \in exts
    IN  SelectSeq(analysis, hit)

-----------------------------------------------------------------------------
(* The rules, and what they refer to.                                       *)

\* select_rules: why a rule is left out, "" when it is copied.
Reason(key, cap, skip) ==
    CASE key[1] \notin DOMAIN cap.policies -> "policy out of step"
      [] key[1] \in DOMAIN cap.policies /\ cap.policies[key[1]].default -> "default section"
      [] key[1] \in DOMAIN cap.policies /\ ~cap.policies[key[1]].default
            /\ cap.policies[key[1]].category \in skip -> "category"
      [] OTHER -> IF key \in DOMAIN cap.rules THEN "" ELSE "rule out of step"
OutOfStep == {"policy out of step", "rule out of step"}
HitKeys(hits) == {<<hits[i].rule.policy, hits[i].rule.id>> : i \in DOMAIN hits}
SelectRules(hits, cap, skip) == {k \in HitKeys(hits) : Reason(k, cap, skip) = ""}

\* The worklists of dependency_closure: what is reached in n steps.
Reach(from, next) ==
    LET step[n \in 0 .. Cardinality(DOMAIN next)] ==
            IF n = 0 THEN from
            ELSE step[n - 1] \cup UNION {next[x] : x \in step[n - 1] \cap DOMAIN next}
    IN  step[Cardinality(DOMAIN next)]

\* Mutant: the groups a group nests are not followed.
ClosureOneLevel(cap, selected) ==
    LET refs == UNION {RefsOf(cap.rules[k][f]) : k \in selected, f \in Sides}
                    \cup UNION {RefsOf(cap.policies[k[1]].scope) : k \in selected}
        services == UNION {RefsOf(cap.rules[k].services) : k \in selected}
    IN  [groups |-> refs \cap DOMAIN cap.groups, unresolved |-> refs \ DOMAIN cap.groups,
         segments |-> {}, services |-> services \cap DOMAIN cap.services,
         builtin |-> services \ DOMAIN cap.services]

\* dependency_closure.
Closure(cap, selected) ==
    LET refs == UNION {RefsOf(cap.rules[k][f]) : k \in selected, f \in Sides}
                    \cup UNION {RefsOf(cap.policies[k[1]].scope) : k \in selected}
        nested == [g \in DOMAIN cap.groups |-> cap.groups[g].paths \ OtherPaths]
        groups == Reach(refs, nested)
        services == Reach(UNION {RefsOf(cap.rules[k].services) : k \in selected}, cap.services)
    IN  [groups |-> groups \cap DOMAIN cap.groups,
         unresolved |-> groups \ DOMAIN cap.groups,
         segments |-> UNION {cap.groups[g].paths : g \in groups \cap DOMAIN cap.groups} \cap OtherPaths,
         services |-> services \cap DOMAIN cap.services,
         builtin |-> services \ DOMAIN cap.services]

\* write_bundle: the files of the bundle, and what siblings are built from.
WriteBundle(cap, selected, closure) ==
    [policies |-> {k[1] : k \in selected}, rules |-> selected,
     groups |-> closure.groups, services |-> closure.services,
     input |-> [g \in closure.groups |->
                   IF g \in DOMAIN cap.additive THEN cap.additive[g] ELSE cap.groups[g]]]

-----------------------------------------------------------------------------
(* build_sibling_groups.py.  newIp[a] is where the subnet map sends a; an    *)
(* empty newIp stands for a run without --csv-remap.                        *)

\* split_group: the addresses of the sibling, or why there is none.
SplitGroup(group, newIp, opts) ==
    LET remap == DOMAIN newIp # {}
        newOf(a) == IF a \in DOMAIN newIp THEN newIp[a] ELSE {}
        mapped == UNION {newOf(a) : a \in group.ips}
        uncovered == {a \in group.ips : newOf(a) = {}}
        why == <<<<"segment_group", opts.skipSegments /\ group.paths \cap OtherPaths # {}>>,
                 <<"no_condition", ~group.condition /\ ~opts.pureIp /\ ~remap>>,
                 <<"empty_ips", group.ips = {} /\ ~opts.empty>>,
                 <<"uncovered_ips", remap /\ opts.skipUncovered /\ uncovered # {}>>,
                 <<"no_mapped_ips", remap /\ mapped = {}>>, <<"", TRUE>>>>
        first == CHOOSE i \in DOMAIN why : why[i][2] /\ \A j \in 1 .. (i - 1) : ~why[j][2]
    IN  [reason |-> why[first][1], ips |-> IF remap THEN mapped ELSE group.ips]

\* main: sibling_map, by the group it is a sibling of.
SiblingGroups(input, newIp, opts) ==
    LET split == [g \in DOMAIN input |-> SplitGroup(input[g], newIp, opts)]
    IN  [g \in {h \in DOMAIN input : split[h].reason = ""} |-> split[g].ips]

\* amendments: the sibling of a group goes where the group is named, once.
SiblingOf(g, suffix) == g \o suffix
Amendments(rules, siblings, suffix) ==
    {<<k, f, g>> \in (DOMAIN rules) \X Fields \X (DOMAIN siblings) :
        g \in rules[k][f] /\ SiblingOf(g, suffix) \notin rules[k][f]}

\* rules.py amend-refs: the rules it writes, from what the manager holds.
AmendRefs(held, siblings, suffix, present) ==
    LET pairs == {g \in DOMAIN siblings : SiblingOf(g, suffix) \in present}
    IN  {<<k, f, g>> \in {k \in DOMAIN held : k[1] \notin Untouched} \X Fields \X pairs :
            g \in held[k][f] /\ SiblingOf(g, suffix) \notin held[k][f]}

-----------------------------------------------------------------------------
(* Workflow D.                                                              *)

\* amendable_groups: named in source or destination of a customer rule.
AmendableGroups(cap, skip) ==
    UNION {RefsOf(cap.rules[k][f]) :
        k \in {j \in DOMAIN cap.rules : j[1] \in DOMAIN cap.policies
                  /\ ~cap.policies[j[1]].default /\ cap.policies[j[1]].category \notin skip},
        f \in Fields}

\* d_scope: the servers' groups in use, and the server addresses in each.
DScope(rows, data, cap, skip) ==
    LET paths == UNION {r.groups : r \in OkRows(rows)} \cap AmendableGroups(cap, skip)
                     \cap DOMAIN cap.groups
        inIt(r, g) == IF g \in DOMAIN data.addresses THEN r.ips \cap data.addresses[g] ELSE {}
        member(r, g) == g \in DOMAIN data.members /\ r.ext \in data.members[g]
        ips(r, g) == IF inIt(r, g) = {} /\ member(r, g) THEN r.ips ELSE inIt(r, g)
    IN  [g \in paths |-> UNION {ips(r, g) : r \in {q \in OkRows(rows) : g \in q.groups}}]

\* write_d_input: the group with the server addresses for its own.
DInput(cap, scope) == [g \in DOMAIN scope |-> [cap.groups[g] EXCEPT !.ips = scope[g]]]

\* source_rules: all but the default sections.
SourceRules(cap) ==
    [k \in {j \in DOMAIN cap.rules : ~cap.policies[j[1]].default} |-> cap.rules[k]]

-----------------------------------------------------------------------------
COpts == [skipSegments |-> FALSE, pureIp |-> FALSE, empty |-> FALSE, skipUncovered |-> FALSE]
DOpts == [COpts EXCEPT !.skipSegments = TRUE]

\* build(): the request.
Build(data, cap, entries, newIp, skip) ==
    LET rows == ServerRows(data, entries)
        hits == Hits(data, entries)
        selected == SelectRules(hits, cap, skip)
        closure == Closure(cap, selected)
        bundle == WriteBundle(cap, selected, closure)
        c == SiblingGroups(bundle.input, <<>>, COpts)
        d == SiblingGroups(DInput(cap, DScope(rows, data, cap, skip)), newIp, DOpts)
    IN  [rows |-> rows, rules |-> selected, bundle |-> bundle, closure |-> closure,
         excluded |-> {<<k, Reason(k, cap, skip)>> : k \in HitKeys(hits) \ selected},
         outOfStep |-> {k \in HitKeys(hits) : Reason(k, cap, skip) \in OutOfStep},
         cSiblings |-> c, dSiblings |-> d,
         cAmend |-> Amendments([k \in selected |-> cap.rules[k]], c, "-c"),
         dAmend |-> Amendments(SourceRules(cap), d, "-d")]

-----------------------------------------------------------------------------
(* What the report of a migration request promises the approver.            *)

\* The servers' truth, group by group, as the snapshot has it.
Holds(data, row) ==
    {g \in DOMAIN data.members :
        row.ext \in data.members[g] \/ row.ips \cap data.addresses[g] # {}}
Concerned(data, rows) ==
    {i \in DOMAIN data.rules : \E r \in OkRows(rows) :
        \/ \E f \in Sides : data.rules[i][f] \cap Holds(data, r) # {}
        \/ \A f \in Sides : data.rules[i][f] \in {{}, {AnyGroup}}}
KeyOf(rule) == <<rule.policy, rule.id>>

\* Every rule that concerns a server is in the request or named as left out,
\* and what it needs is in the bundle: groups, nested groups, policy scopes,
\* services; and nothing else is.
BundleClosed(request, data, cap) ==
    LET all == request.bundle.groups \cup request.closure.unresolved
        needed(g) == \/ \E k \in request.rules, f \in Sides : g \in cap.rules[k][f]
                     \/ \E k \in request.rules : g \in cap.policies[k[1]].scope
                     \/ \E h \in request.bundle.groups : g \in cap.groups[h].paths
        services == request.bundle.services \cup request.closure.builtin
        used(s) == \/ \E k \in request.rules : s \in cap.rules[k].services
                   \/ \E t \in request.bundle.services : s \in cap.services[t]
        left == {x[1] : x \in request.excluded}
    IN  /\ {KeyOf(data.rules[i]) : i \in Concerned(data, request.rows)}
              = request.rules \cup left
        /\ request.rules \cap left = {} /\ request.outOfStep \subseteq left
        /\ \A k \in left \ request.outOfStep : k[1] \in DOMAIN cap.policies
        /\ request.rules \subseteq DOMAIN cap.rules
        /\ \A g \in DOMAIN cap.groups \cup UNION {cap.groups[h].paths : h \in DOMAIN cap.groups} :
              needed(g) /\ g \notin OtherPaths => g \in all
        /\ all \cap OtherPaths = {} /\ \A g \in all : needed(g)
        /\ \A s \in DOMAIN cap.services : used(s) <=> s \in request.bundle.services
        /\ \A s \in services : used(s)

\* Workflow D reaches each server through each group a customer rule names:
\* its new address is in the group's sibling, and the rules naming the group
\* name the sibling too.  Nobody else's address is in one.
ServersFollow(request, data, cap, newIp, skip) ==
    LET mine(r, g) == IF r.ips \cap data.addresses[g] # {} THEN r.ips \cap data.addresses[g]
                      ELSE IF r.ext \in data.members[g] THEN r.ips ELSE {}
        all(g) == UNION {mine(r, g) : r \in {x \in OkRows(request.rows) : g \in Holds(data, x)}}
        named(g) == {k \in DOMAIN cap.rules :
                        ~cap.policies[k[1]].default /\ g \in cap.rules[k].src \cup cap.rules[k].dst}
        wanted(g) == /\ g \in DOMAIN cap.groups /\ g \in DOMAIN data.members
                     /\ \E k \in named(g) : cap.policies[k[1]].category \notin skip
                     /\ cap.groups[g].paths \cap OtherPaths = {}
                     /\ \E a \in all(g) : newIp[a] # {}
        got == DOMAIN request.dSiblings
    IN  /\ got = {g \in DOMAIN cap.groups : wanted(g)}
        /\ \A g \in got : /\ request.dSiblings[g] = UNION {newIp[a] : a \in all(g)}
                          /\ \A k \in named(g), f \in Fields : g \in cap.rules[k][f] =>
                                \/ <<k, f, g>> \in request.dAmend
                                \/ SiblingOf(g, "-d") \in cap.rules[k][f]

\* The amendments the approver reads are the ones rules.py amend-refs writes
\* when the siblings are there and the manager holds what was captured.
AmendsAsApproved(request, cap) ==
    LET held(keys) == [k \in keys |-> cap.rules[k]]
        there(s, suffix) == {SiblingOf(g, suffix) : g \in DOMAIN s}
    IN  /\ request.dAmend = AmendRefs(cap.rules, request.dSiblings, "-d", there(request.dSiblings, "-d"))
        /\ request.cAmend = AmendRefs(held(request.rules), request.cSiblings, "-c",
                                      there(request.cSiblings, "-c"))

RequestIsCompleteOn(data, cap, entries, newIp, skip) ==
    \A request \in {Build(data, cap, entries, newIp, skip)} :
        /\ BundleClosed(request, data, cap)
        /\ ServersFollow(request, data, cap, newIp, skip)
        /\ AmendsAsApproved(request, cap)

-----------------------------------------------------------------------------
(* The pull: a global manager is asked only for the groups that rules name,  *)
(* and not at all when the cache covers them.                               *)

HitSides(analysis) ==
    {<<KeyOf(analysis[i].rule), [t \in {u.ext : u \in DOMAIN analysis[i].bySide} |->
        UNION {analysis[i].bySide[u] : u \in {v \in DOMAIN analysis[i].bySide : v.ext = t}}]>> :
            i \in DOMAIN analysis}

\* A cache made from the rules `before` answers for the rules of now.
CachedPull(nsx, before) ==
    LET none == [age |-> 0, members |-> <<>>, addresses |-> <<>>]
        first == CollectLive([nsx EXCEPT !.rules = before], TRUE, none, 5)
    IN  CollectLive(nsx, TRUE, first.cache, 5)
MissesNothing(data, nsx, entries) ==
    LET full == CollectLive(nsx, FALSE, <<>>, 0)
        sides(d) == HitSides(Analyze([d EXCEPT !.vms = nsx.vms], entries))
    IN  Complete(data) => sides(data) = sides(full)

\* When nothing failed, a pull of the groups that rules name finds the rules a
\* pull of every group finds, and so does one answered from a cache made when
\* rules named at least the same groups.
ReducedPullOn(nsx, before, entries) ==
    Referenced(nsx.rules) \subseteq Referenced(before) =>
        \A data \in {CachedPull(nsx, before)} : MissesNothing(data, nsx, entries)

\* A report from a capture of the same manager and an export of its membership
\* finds what the live one finds, where every address is a literal one.
Everywhere(nsx, what, g) == UNION {what[g][e] : e \in {x \in nsx.eps : Answered(what[g][x])}}
ExportsAgreeOn(nsx, entries) ==
    LET live == CollectLive(nsx, FALSE, <<>>, 0)
        files == {[path |-> g, id |-> "id-" \o g, readable |-> TRUE,
                   ips |-> Everywhere(nsx, nsx.addresses, g)] : g \in nsx.groups}
        rows == [i \in DOMAIN live.vms |->
                    [name |-> live.vms[i].name, ext |-> live.vms[i].ext, ips |-> live.vms[i].ips,
                     groups |-> {"id-" \o g : g \in {h \in nsx.groups :
                                    live.vms[i].ext \in Everywhere(nsx, nsx.members, h)}}]]
        export == LoadCaptureMembership(files, rows, nsx.rules, {r.policy : r \in Range(nsx.rules)})
        list == LoadVmNames(<<[name |-> "#", ip |-> Nobody, tokens |-> {}]>> \o
                            [i \in DOMAIN entries |-> [name |-> entries[i].name, ip |-> entries[i].ip,
                                                       tokens |-> entries[i].ips \cup {"bad"}]])
    IN  Complete(live) =>
            \A opts \in [{"capture", "membership", "snapshot", "global", "manager"} -> BOOLEAN] :
                DataSource(opts) # "refused" =>
                    ReportDoc(ReportData(opts, live, SnapshotDoc(live), export), list)
                        = ReportDoc(live, entries)
=============================================================================
