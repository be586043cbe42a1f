------------------------------ MODULE VmRules ------------------------------
(***************************************************************************)
(* Which rules touch which server: the pull of groups, members, addresses   *)
(* and rules (app/nsx/vm_rule_data.py), its snapshots                       *)
(* (tools/nsx/capture_vm_rule_data.py), and the analysis of the requested   *)
(* names and addresses (tools/reports/report_vms_in_rules.py).              *)
(* nsx is what the manager holds and how it answers: groups[g] and rules are *)
(* records; eps is the set of enforcement points; members[g][e] and         *)
(* addresses[g][e] are sets, or one of the two answers below; an address is *)
(* a model value and a network the set of its addresses.                    *)
(***************************************************************************)
EXTENDS Naturals, FiniteSets, Sequences, SequencesExt

NotFound == {"not found"}      \* the group is not realized at this site
Failure == {"failure"}         \* any other error
Answered(answer) == answer \notin {NotFound, Failure}
AnyGroup == "ANY"
Nobody == ""                   \* no external id, no address

Sides == {"src", "dst", "scope"}
\* rule_referenced_group_paths.
Referenced(rules) == UNION {rules[i][f] \ {AnyGroup} : i \in DOMAIN rules, f \in Sides}

-----------------------------------------------------------------------------
(* vm_rule_data.py                                                          *)

\* pull_groups_with_members: groups no rule names are not asked for.
PullMembers(nsx, only) ==
    [g \in nsx.groups |->
        IF g \notin only THEN {}
        ELSE UNION {nsx.members[g][e] : e \in {x \in nsx.eps : Answered(nsx.members[g][x])}}]

\* pull_group_ip_memberships.
PullAddresses(nsx, only) ==
    [g \in nsx.groups |->
        IF g \notin only THEN {}
        ELSE UNION {nsx.addresses[g][e] : e \in {x \in nsx.eps : Answered(nsx.addresses[g][x])}}]

PullErrors(nsx, only) ==
    {<<g, e>> \in (nsx.groups \cap only) \X nsx.eps :
        Failure \in {nsx.members[g][e], nsx.addresses[g][e]}}

\* pull_all_rules: a policy whose rules cannot be listed is left out.
PullRules(nsx) == SelectSeq(nsx.rules, LAMBDA r : r.policy \notin nsx.failing)

\* _load_members_cache: fresh, and it covers every group a rule names.
CacheUsable(cache, minutes, referenced) ==
    /\ minutes > 0 /\ cache.age <= minutes
    /\ referenced \subseteq DOMAIN cache.members

\* attach_vm_ips: the addresses of the interfaces are added to the machine's.
AttachVmIps(vms, vifs) ==
    [i \in DOMAIN vms |->
        [vms[i] EXCEPT !.ips = @ \cup UNION {v.ips : v \in {w \in vifs : w.ext = vms[i].ext}}]]

\* collect_live.  A global manager asks only for the groups that rules name
\* and may answer from the cache; its machines are the members it met.
CollectLive(nsx, isGm, cache, minutes) ==
    LET rules == PullRules(nsx)
        only == IF isGm THEN Referenced(rules) ELSE nsx.groups
        cached == isGm /\ CacheUsable(cache, minutes, only)
        members == IF cached THEN cache.members ELSE PullMembers(nsx, only)
        errors == (IF cached THEN {} ELSE PullErrors(nsx, only)) \cup
                  (nsx.failing \X {"rules"})
        met == UNION {members[g] : g \in DOMAIN members}
    IN  [vms |-> IF isGm THEN SelectSeq([i \in DOMAIN nsx.vms |-> [nsx.vms[i] EXCEPT !.ips = {}]],
                                        LAMBDA v : v.ext \in met)
                 ELSE AttachVmIps(nsx.vms, nsx.vifs),
         members |-> members,
         addresses |-> IF cached THEN cache.addresses ELSE PullAddresses(nsx, only),
         rules |-> rules, errors |-> errors,
         cache |-> IF isGm /\ ~cached /\ minutes > 0 /\ errors = {}
                   THEN [age |-> 0, members |-> members, addresses |-> PullAddresses(nsx, only)]
                   ELSE cache]

Complete(data) == data.errors = {}

\* snapshot_doc, load_snapshot: what is written is what is read back.
SnapshotDoc(data) == [data |-> data, complete |-> Complete(data),
                      fetched |-> {g \in DOMAIN data.members : data.members[g] # {}}]


-----------------------------------------------------------------------------
(* report_vms_in_rules.py.  An entry of the list is [name, ip, ips]: ip is   *)
(* the name when it is an address, else Nobody.                             *)

Planned(e) == IF e.ips = {} THEN {}
              ELSE {[ext |-> "planned:" \o e.name, kind |-> "planned", ips |-> e.ips,
                     owners |-> {}]}

\* The last of two machines with a name is the one that is found.
Resolve(e, vms) ==
    LET named == {i \in DOMAIN vms : vms[i].name = e.name}
        vm == vms[Max(named)]
        owners == {vms[i].name : i \in {j \in DOMAIN vms : e.ip \in vms[j].ips}}
    IN  CASE named # {} /\ vm.ext # Nobody ->
                {[ext |-> vm.ext, kind |-> "vm", ips |-> vm.ips \cup e.ips, owners |-> {}]}
          [] named # {} /\ vm.ext = Nobody -> Planned(e)
          [] named = {} /\ e.ip # Nobody ->
                {[ext |-> "ip:" \o e.ip, kind |-> "ip", ips |-> {e.ip} \cup e.ips,
                  owners |-> owners]}
          [] OTHER -> Planned(e)

\* match_vm_ips_to_groups.
MatchIps(ips, addresses) == {g \in DOMAIN addresses : addresses[g] \cap ips # {}}

\* build_vm_to_groups, with the groups that hold one of the addresses.
GroupsOf(target, data) ==
    {g \in DOMAIN data.members : target.ext \in data.members[g]}
        \cup MatchIps(target.ips, data.addresses)

\* rule_touches_targets: the sides that name a group of the target; ANY counts
\* only when all three sides are ANY.
AnySide(refs) == AnyGroup \in refs \/ refs = {}
Touches(rule, held) ==
    LET sides == {f \in Sides : rule[f] \cap held # {}}
    IN  IF sides = {} /\ \A f \in Sides : AnySide(rule[f]) THEN {"ANY"} ELSE sides

\* analyze: an entry whose name came before is a duplicate.
FirstOfName(entries) ==
    {i \in DOMAIN entries : \A j \in 1 .. (i - 1) : entries[j].name # entries[i].name}
Targets(data, entries) == UNION {Resolve(entries[i], data.vms) : i \in FirstOfName(entries)}
Analyze(data, entries) ==
    LET targets == Targets(data, entries)
        bySide(r) == [t \in {u \in targets : Touches(r, GroupsOf(u, data)) # {}} |->
                         Touches(r, GroupsOf(t, data))]
        all == [i \in DOMAIN data.rules |-> [rule |-> data.rules[i], bySide |-> bySide(data.rules[i])]]
    IN  SelectSeq(all, LAMBDA h : DOMAIN h.bySide # {})

\* load_vm_names: tokens after a name that are no addresses are dropped.
LoadVmNames(lines) ==
    LET names == SelectSeq(lines, LAMBDA l : l.name \notin {"", "#"})
    IN  [i \in DOMAIN names |-> [name |-> names[i].name, ip |-> names[i].ip,
                                 ips |-> {t \in names[i].tokens : t # "bad"}]]

-----------------------------------------------------------------------------
(* The older input: a capture and a membership export.                      *)

\* load_capture_groups: the literal addresses of the definitions it can read.
Readable(files) == {f \in files : f.readable /\ f.id # "" /\ f.path # ""}
LoadCaptureGroups(files) ==
    [g \in {f.path : f \in Readable(files)} |->
        CHOOSE f \in Readable(files) : f.path = g]

\* load_capture_rules: no policy file, no rules of that policy.
LoadCaptureRules(rules, policyFiles) ==
    SelectSeq(rules, LAMBDA r : r.policy \in policyFiles /\ r.id # "")

\* load_membership_export: rows without an id are dropped.
LoadMembership(rows) == SelectSeq(rows, LAMBDA r : r.ext # Nobody)

\* load_capture_membership: the groups of each machine, found by their id.
LoadCaptureMembership(files, rows, rules, policyFiles) ==
    LET groups == LoadCaptureGroups(files)
        kept == LoadMembership(rows)
    IN  [vms |-> [i \in DOMAIN kept |-> [name |-> kept[i].name, ext |-> kept[i].ext,
                                         ips |-> kept[i].ips]],
         members |-> [g \in DOMAIN groups |->
                         {kept[i].ext : i \in {j \in DOMAIN kept : groups[g].id \in kept[j].groups}}],
         addresses |-> [g \in DOMAIN groups |-> groups[g].ips],
         rules |-> LoadCaptureRules(rules, policyFiles), errors |-> {}]

-----------------------------------------------------------------------------
(* The report.                                                              *)

\* render_markdown: the rules of each entry, with the side that matched.
PerVm(analysis, targets) ==
    [t \in targets |->
        {<<analysis[i].rule.policy, analysis[i].rule.id, analysis[i].bySide[t]>> :
            i \in {j \in DOMAIN analysis : t \in DOMAIN analysis[j].bySide}}]

\* The document of the report.
ReportDoc(data, entries) ==
    LET targets == Targets(data, entries)
        hits == Analyze(data, entries)
    IN  [requested |-> Len(entries), resolved |-> Cardinality(targets),
         notFound |-> {entries[i].name : i \in {j \in FirstOfName(entries) :
                                                   Resolve(entries[j], data.vms) = {}}},
         duplicates |-> {entries[i].name : i \in DOMAIN entries \ FirstOfName(entries)},
         hits |-> Len(hits), rows |-> PerVm(hits, targets), failed |-> Cardinality(data.errors)]

\* main: which data it reads.  Options that contradict each other are refused.
DataSource(opts) ==
    CASE opts.capture # opts.membership -> "refused"
      [] opts.snapshot /\ (opts.capture \/ opts.membership) -> "refused"
      [] opts.global /\ (opts.snapshot \/ opts.capture) -> "refused"
      [] ~opts.snapshot /\ ~opts.manager -> "refused"
      [] OTHER -> IF opts.snapshot THEN "snapshot" ELSE IF opts.capture THEN "capture" ELSE "live"
ReportData(opts, live, snapshot, export) ==
    CASE DataSource(opts) = "snapshot" -> snapshot.data
      [] DataSource(opts) = "capture" -> export
      [] DataSource(opts) = "live" -> live
=============================================================================
