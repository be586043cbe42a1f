---------------------------- MODULE CriticalRules ----------------------------
(***************************************************************************)
(* tools/nsx/critical_rules: copy every policy of some categories, and of    *)
(* others only the rules with hits, from one manager to a new one.  Step 1   *)
(* reads the counters, step 2 captures the source and builds two bundles,    *)
(* step 3 pushes them with eight tools, step 4 compares, revert.py undoes.   *)
(* One run folder: its hit list, bundles, and a stack of baselines per tool. *)
(*                                                                         *)
(* A source is [policies, rules, groups, services], each a function from ids *)
(* to records with a mark, which tells NSX's own objects: "none", "default"  *)
(* (is_default) or "system" (_system_owned, or created by NSX).              *)
(***************************************************************************)
EXTENDS Naturals, Sequences, FiniteSets, SequencesExt

CONSTANTS Sources,        \* by name, what the source manager may hold
          FirstHeld,      \* what the two target managers may hold at first
          WholeCategories, HitCategories, MinHits,
          MaxScripts, MaxFailures, MaxMoves    \* bounds

VARIABLES
    source,               \* what the source manager holds
    alias,                \* the manager the target's name stands for in .env
    held,                 \* per manager what it holds, Void for nothing
    folder,               \* the run folder
    script,               \* the script that runs and its tool
    first, lost, tangled, \* history: held at first; objects written without a
                          \* record; a tool was started after the name moved;
    met,                  \* hit rules that the baseline of an infra push holds
    scripts, failures, moves
criticalVars == <<source, alias, held, folder, script, first, lost, tangled, met, scripts, failures, moves>>

Void == "none"
Managers == {"checked", "other"}
Classes == <<"services", "groups", "policies", "rules">>
IdsOf(src, class) == DOMAIN src[class]
Ids(class) == UNION {IdsOf(Sources[s], class) : s \in DOMAIN Sources}
Objects == UNION {Ids(c) : c \in Range(Classes)}
\* An id is of one class; a target that holds a rule holds its policy.
ASSUME CriticalAssumption ==
    /\ \A c, d \in Range(Classes) : c # d => Ids(c) \cap Ids(d) = {}
    /\ \A h \in FirstHeld : /\ h = [o \in Objects |-> h[o]]
                           /\ \A s \in DOMAIN Sources : \A r \in DOMAIN Sources[s].rules :
                                 h[r] # Void => h[Sources[s].rules[r].policy] # Void

-----------------------------------------------------------------------------
(* build_bundle and the checks of step 2.                                   *)

System(o) == o.mark # "none"

\* _ref_closure: what is reached over the index, with what is not in it.
RefClosure(refs, nested) ==
    LET step[n \in 0 .. Cardinality(DOMAIN nested)] ==
            IF n = 0 THEN refs
            ELSE LET prev == step[n - 1]
                 IN  prev \cup UNION {nested[x] : x \in prev \cap DOMAIN nested}
    IN  step[Cardinality(DOMAIN nested)]
NestedGroups(src) == [g \in DOMAIN src.groups |-> src.groups[g].nested]
\* nested_service_refs: the members lists and the nested service entries.
NestedServices(src) == [s \in DOMAIN src.services |-> src.services[s].members \cup src.services[s].entries]
\* The walker of filter_policy_bundle.py knows the lists only.
MemberServices(src) == [s \in DOMAIN src.services |-> src.services[s].members]

\* Mutant: every rule of a kept policy.
BundleRulesCold(src, policies, hot) == {r \in DOMAIN src.rules : src.rules[r].policy \in policies}

BundleRules(src, policies, hot) ==
    {r \in hot \cap DOMAIN src.rules : src.rules[r].policy \in policies /\ ~System(src.rules[r])}
Customer(src, categories) ==
    {p \in DOMAIN src.policies : src.policies[p].category \in categories /\ ~System(src.policies[p])}
Groups(src, policies, rules) == UNION {src.rules[r].groups : r \in rules}
                                \cup UNION {src.policies[p].scope : p \in policies}
Services(src, rules) == UNION {src.rules[r].services : r \in rules}
\* whole: hot=Void.
BuildBundle(src, categories, whole, hot) ==
    LET among == IF whole THEN DOMAIN src.rules ELSE hot
        rules == BundleRules(src, Customer(src, categories), among)
        policies == IF whole THEN Customer(src, categories) ELSE {src.rules[r].policy : r \in rules}
    IN  [policies |-> policies, rules |-> rules,
         groups |-> RefClosure(Groups(src, policies, rules), NestedGroups(src)) \cap DOMAIN src.groups,
         services |-> RefClosure(Services(src, rules), NestedServices(src)) \cap DOMAIN src.services]

\* filter_bundle: only is_default counts, every rule, no Applied To.
FilterBundle(src, categories, defaults) ==
    LET policies == {p \in DOMAIN src.policies : src.policies[p].category \in categories
                        /\ (src.policies[p].mark # "default" \/ defaults)}
        rules == {r \in DOMAIN src.rules : src.rules[r].policy \in policies}
    IN  [policies |-> policies, rules |-> rules,
         groups |-> RefClosure(Groups(src, {}, rules), NestedGroups(src)) \cap DOMAIN src.groups,
         services |-> RefClosure(Services(src, rules), MemberServices(src)) \cap DOMAIN src.services]

SystemIn(src, bundle) ==
    UNION {{o \in bundle[c] : System(src[c][o])} : c \in Range(Classes)}
\* whole_category_gaps; source_policies leaves system rules out.
Gaps(src, bundle) ==
    {p \in Customer(src, WholeCategories) :
        \/ p \notin bundle.policies
        \/ \E r \in DOMAIN src.rules : /\ src.rules[r].policy = p /\ ~System(src.rules[r])
                                       /\ r \notin bundle.rules}

-----------------------------------------------------------------------------
(* Steps 1 and 2.                                                           *)

NoBundles == [infra |-> [c \in Range(Classes) |-> {}], hits |-> [c \in Range(Classes) |-> {}]]
PushTools == 1 .. 8           \* in the order of step 3: infra first, class by class
BundleOf(i) == IF i <= Len(Classes) THEN "infra" ELSE "hits"
ClassOf(i) == Classes[IF i <= Len(Classes) THEN i ELSE i - Len(Classes)]
RulesOfInfra == 4             \* the tool that pushes them
NoScript == [kind |-> Void, tool |-> 0, on |-> Void, base |-> [o \in {} |-> Void], left |-> {},
             dels |-> {}, failed |-> FALSE, clean |-> TRUE]

CriticalInit ==
    /\ source \in DOMAIN Sources /\ alias = "checked"
    /\ held \in [Managers -> FirstHeld] /\ held["other"] \in {h \in FirstHeld : Range(h) = {Void}}
    /\ folder = [stats |-> FALSE, hits |-> [r \in {} |-> Void], taken |-> source, pull |-> Void, bundles |-> NoBundles,
                 stacks |-> [i \in PushTools |-> <<>>], outcome |-> Void]
    /\ script = NoScript /\ first = held /\ lost = {} /\ tangled = FALSE /\ met = {}
    /\ scripts = 0 /\ failures = 0 /\ moves = 0

\* hit_rows: the rules with hits, with the category the report gives them.
HitRows(src) ==
    LET hit == {r \in DOMAIN src.rules : src.rules[r].hits > 0
                    /\ src.policies[src.rules[r].policy].mark # "default"}
    IN  [r \in hit |-> [category |-> src.policies[src.rules[r].policy].category,
                        count |-> src.rules[r].hits]]
Stats == /\ script.kind = Void /\ ~folder.stats
         /\ folder' = [folder EXCEPT !.stats = TRUE, !.hits = HitRows(Sources[source])]
         /\ UNCHANGED <<source, alias, held, script, first, lost, tangled, met, scripts, failures, moves>>

Hot == {r \in DOMAIN folder.hits : folder.hits[r].category \in HitCategories
                                   /\ folder.hits[r].count > MinHits}
\* The capture and what is built of it; the run goes on only if nothing lacks.
\* A hit list without rows is a hit list.
PullSource == /\ script.kind = Void /\ folder.pull = Void /\ folder.stats
        /\ LET src == Sources[source]
               infra == BuildBundle(src, WholeCategories, TRUE, {})
               hits == BuildBundle(src, HitCategories, FALSE, Hot)
               good == /\ SystemIn(src, infra) = {} /\ SystemIn(src, hits) = {}
                       /\ Gaps(src, infra) = {} /\ Hot \subseteq hits.rules
           IN  folder' = [folder EXCEPT !.taken = source, !.pull = IF good THEN "ok" ELSE "stopped",
                              !.bundles = [infra |-> infra, hits |-> hits]]
        /\ UNCHANGED <<source, alias, held, script, first, lost, tangled, met, scripts, failures, moves>>

\* Somebody changes the source, or the managers' names in .env.
SourceChanges == /\ moves < MaxMoves /\ moves' = moves + 1 /\ folder.pull = Void
                 /\ source' \in DOMAIN Sources \ {source}
                 /\ UNCHANGED <<alias, held, folder, script, first, lost, tangled, met, scripts, failures>>
NameMoves == /\ moves < MaxMoves /\ moves' = moves + 1 /\ folder.pull = "ok"
             /\ alias' \in Managers \ {alias}
             /\ UNCHANGED <<source, held, folder, script, first, lost, tangled, met, scripts, failures>>

-----------------------------------------------------------------------------
(* The target managers.  What is not in the capture is taken to be there.   *)

Taken == Sources[folder.taken]
Needs(o) ==
    LET src == Taken
        refs == IF o \in DOMAIN src.rules
                THEN {src.rules[o].policy} \cup src.rules[o].groups \cup src.rules[o].services
                ELSE IF o \in DOMAIN src.policies THEN src.policies[o].scope
                ELSE IF o \in DOMAIN src.groups THEN src.groups[o].nested
                ELSE IF o \in DOMAIN src.services
                THEN src.services[o].entries \cup src.services[o].members
                ELSE {}
    IN  refs \cap UNION {DOMAIN src[c] : c \in Range(Classes)}
Present(h) == {o \in Objects : held[h][o] # Void}
MayWrite(h, o) == Needs(o) \subseteq Present(h)
\* A policy is deleted with its rules.
Falls(o) == {o} \cup (IF o \in DOMAIN Taken.policies
                     THEN {r \in DOMAIN Taken.rules : Taken.rules[r].policy = o}
                     ELSE {})
MayDelete(h, o) == \A q \in Present(h) \ Falls(o) : o \notin Needs(q)
Wanted(i) == folder.bundles[BundleOf(i)][ClassOf(i)]
InClass(i) == Ids(ClassOf(i))

-----------------------------------------------------------------------------
(* Step 3.                                                                  *)

Starts == /\ script.kind = Void /\ folder.pull = "ok" /\ alias = "checked"
          /\ scripts < MaxScripts /\ scripts' = scripts + 1
\* --apply: on an empty target, or with --allow-non-empty.
PushBegins(allowed) ==
    /\ Starts /\ (allowed \/ Present("checked") = {})
    /\ script' = [NoScript EXCEPT !.kind = "push", !.tool = 1]
    /\ folder' = [folder EXCEPT !.outcome = Void]
    /\ UNCHANGED <<source, alias, held, first, lost, tangled, met, failures, moves>>

\* A tool resolves the name anew, lists what is there into a baseline, and
\* skips what is the same already.  It may die before the baseline is complete.
Ends(outcome) == /\ script' = NoScript
                 /\ folder' = [folder EXCEPT !.outcome = outcome]
ToolBegins ==
    /\ script.kind = "push" /\ script.on = Void /\ script.tool \in PushTools
    /\ LET i == script.tool
           base == [o \in InClass(i) |-> held[alias][o]]
       IN  /\ script' = [script EXCEPT !.on = alias, !.base = base,
                             !.left = {o \in Wanted(i) : held[alias][o] # "copy"}]
           /\ folder' = [folder EXCEPT !.stacks[i] =
                             Append(@, [base |-> base, on |-> alias, pushed |-> {}, whole |-> TRUE])]
           /\ met' = IF i = RulesOfInfra
                     THEN met \cup {<<alias, o>> : o \in {r \in folder.bundles.hits["rules"] :
                                                      held[alias][r] # Void /\ first[alias][r] = Void}}
                     ELSE met
           /\ tangled' = (tangled \/ alias # "checked")
    /\ UNCHANGED <<source, alias, held, first, lost, scripts, failures, moves>>
WriteOne(o) ==
    /\ script.kind = "push" /\ o \in script.left /\ MayWrite(script.on, o)
    /\ held' = [held EXCEPT ![script.on][o] = "copy"]
    /\ script' = [script EXCEPT !.left = @ \ {o}]
    /\ LET i == script.tool
           records == ClassOf(i) = "groups" \/ script.base[o] = Void
       IN  folder' = [folder EXCEPT !.stacks[i][Len(folder.stacks[i])].pushed =
                          IF records THEN @ \cup {o} ELSE @]
    /\ UNCHANGED <<source, alias, first, lost, tangled, met, scripts, failures, moves>>
\* What cannot be written yet is tried again, until a round writes nothing (or
\* the fifth has passed, which is more than objects of one class nest here).
Stuck == \A o \in script.left : ~MayWrite(script.on, o)
ToolDone ==
    /\ script.kind = "push" /\ script.on # Void /\ Stuck
    /\ IF script.left # {} \/ script.failed THEN Ends(IF script.clean THEN "push failed" ELSE Void)
       ELSE IF script.tool = 8 THEN Ends("pushed")
       ELSE /\ script' = [script EXCEPT !.tool = @ + 1, !.on = Void] /\ UNCHANGED folder
    /\ UNCHANGED <<source, alias, held, first, lost, tangled, met, scripts, failures, moves>>

-----------------------------------------------------------------------------
(* Step 4.                                                                  *)

\* It compares the ids, and touches nothing.
Want == UNION {folder.bundles[b][c] : b \in DOMAIN NoBundles, c \in Range(Classes)}
Verify == /\ Starts
          /\ folder' = [folder EXCEPT !.outcome = IF Present("checked") = Want THEN "verified" ELSE Void]
          /\ UNCHANGED <<source, alias, held, script, first, lost, tangled, met, failures, moves>>

-----------------------------------------------------------------------------
(* revert.py: from the last tool to the first, each until it has no baseline.*)

RevertBegins ==
    /\ Starts
    /\ script' = [NoScript EXCEPT !.kind = "revert", !.tool = 8]
    /\ folder' = [folder EXCEPT !.outcome = Void]
    /\ UNCHANGED <<source, alias, held, first, lost, tangled, met, failures, moves>>

\* Mutant: without --allow-delete groups stay.
DelsKept(i, b, h) ==
    {o \in InClass(i) : b.base[o] = Void /\ held[h][o] # Void
                        /\ ClassOf(i) # "groups" /\ (ClassOf(i) = "rules" => o \in b.pushed)}
\* What a revert deletes: services.py and policies.py all that the baseline
\* lacks, the others what their push recorded.
Dels(i, b, h) ==
    {o \in InClass(i) : b.base[o] = Void /\ held[h][o] # Void
                        /\ (ClassOf(i) \in {"groups", "rules"} => o \in b.pushed)}
\* What it writes back; groups.py only what its push wrote.
Restores(i, b, h) ==
    {o \in InClass(i) : b.base[o] # Void /\ held[h][o] # b.base[o]
                        /\ (ClassOf(i) = "groups" => o \in b.pushed)}

Reverting == script.kind = "revert" /\ script.on = Void /\ script.tool \in PushTools
NextTool == /\ Reverting /\ folder.stacks[script.tool] = <<>>
            /\ IF script.tool = 1 THEN Ends("reverted")
               ELSE script' = [script EXCEPT !.tool = @ - 1] /\ UNCHANGED folder
            /\ UNCHANGED <<source, alias, held, first, lost, tangled, met, scripts, failures, moves>>
\* baseline_meta: not another manager's, and none whose record is missing.
RevertTool ==
    /\ Reverting /\ folder.stacks[script.tool] # <<>>
    /\ LET i == script.tool
           b == Last(folder.stacks[i])
       IN  IF b.on # alias \/ ~b.whole THEN Ends(Void)
           ELSE /\ script' = [script EXCEPT !.on = alias, !.base = b.base, !.dels = Dels(i, b, alias),
                                            !.left = Restores(i, b, alias), !.failed = FALSE]
                /\ UNCHANGED folder
    /\ UNCHANGED <<source, alias, held, first, lost, tangled, met, scripts, failures, moves>>
DeleteOne(o) ==
    /\ script.kind = "revert" /\ o \in script.dels
    /\ IF MayDelete(script.on, o)
       THEN /\ held' = [held EXCEPT ![script.on] = [q \in Objects |-> IF q \in Falls(o) THEN Void ELSE @[q]]]
            /\ script' = [script EXCEPT !.dels = @ \ {o}]
       ELSE /\ script' = [script EXCEPT !.dels = @ \ {o}, !.failed = TRUE] /\ UNCHANGED held
    /\ UNCHANGED <<source, alias, folder, first, lost, tangled, met, scripts, failures, moves>>
RestoreOne(o) ==
    /\ script.kind = "revert" /\ script.dels = {} /\ o \in script.left
    /\ IF MayWrite(script.on, o)
       THEN /\ held' = [held EXCEPT ![script.on][o] = script.base[o]]
            /\ script' = [script EXCEPT !.left = @ \ {o}]
       ELSE /\ script' = [script EXCEPT !.left = @ \ {o}, !.failed = TRUE] /\ UNCHANGED held
    /\ UNCHANGED <<source, alias, folder, first, lost, tangled, met, scripts, failures, moves>>
\* The baseline is renamed, unless a call failed: then the script ends.
RevertDone ==
    /\ script.kind = "revert" /\ script.on # Void /\ script.dels = {} /\ script.left = {}
    /\ IF script.failed THEN Ends(IF script.clean THEN "revert failed" ELSE Void)
       ELSE /\ folder' = [folder EXCEPT !.stacks[script.tool] = Front(@)]
            /\ script' = [script EXCEPT !.on = Void]
    /\ UNCHANGED <<source, alias, held, first, lost, tangled, met, scripts, failures, moves>>

-----------------------------------------------------------------------------
(* Failures.                                                                *)

Failure == failures < MaxFailures /\ failures' = failures + 1
\* The tool that pushes is stopped: before its baseline has its records, or
\* with one more object written, which groups.py and rules.py have not recorded.
PushDies ==
    /\ Failure /\ script.kind = "push" /\ script.on # Void
    /\ LET i == script.tool
           early == script.left = {o \in Wanted(i) : script.base[o] # "copy"}
           unrecorded(o) == ClassOf(i) = "groups" \/ (ClassOf(i) = "rules" /\ script.base[o] = Void)
       IN  \/ /\ \E whole \in {TRUE} \cup (IF early THEN {FALSE} ELSE {}) :
                  folder' = [folder EXCEPT !.stacks[i][Len(folder.stacks[i])].whole = whole]
              /\ UNCHANGED <<held, lost>>
           \/ \E o \in script.left :
                 /\ MayWrite(script.on, o)
                 /\ held' = [held EXCEPT ![script.on][o] = "copy"]
                 /\ lost' = IF unrecorded(o) THEN lost \cup {<<script.on, o>>} ELSE lost
                 /\ UNCHANGED folder
    /\ script' = NoScript
    /\ UNCHANGED <<source, alias, first, tangled, met, scripts, moves>>
RevertDies == /\ Failure /\ script.kind = "revert" /\ script' = NoScript
              /\ UNCHANGED <<source, alias, held, folder, first, lost, tangled, met, scripts, moves>>
\* The manager refuses one call; the tool goes on and fails at its end.
CallFails(o) ==
    /\ Failure
    /\ \/ o \in script.dels /\ script' = [script EXCEPT !.dels = @ \ {o}, !.failed = TRUE, !.clean = FALSE]
       \/ /\ o \in script.left
          /\ script' = [script EXCEPT !.left = @ \ {o}, !.failed = TRUE, !.clean = FALSE]
    /\ UNCHANGED <<source, alias, held, folder, first, lost, tangled, met, scripts, moves>>

CriticalNext ==
    \/ Stats \/ PullSource \/ SourceChanges \/ NameMoves
    \/ \E allowed \in BOOLEAN : PushBegins(allowed)
    \/ ToolBegins \/ ToolDone \/ Verify
    \/ RevertBegins \/ NextTool \/ RevertTool \/ RevertDone
    \/ PushDies \/ RevertDies
    \/ \E o \in Objects : WriteOne(o) \/ DeleteOne(o) \/ RestoreOne(o) \/ CallFails(o)
CriticalSpec == CriticalInit /\ [][CriticalNext]_criticalVars

-----------------------------------------------------------------------------
(* What is promised.                                                        *)

\* The customer's policies of the whole categories with all their rules, the
\* hot rules, and whatever those need.
Expected ==
    LET src == Taken
        seeds == Customer(src, WholeCategories) \cup Hot
                 \cup {r \in DOMAIN src.rules : src.rules[r].policy \in Customer(src, WholeCategories)
                                               /\ ~System(src.rules[r])}
        step[n \in 0 .. Cardinality(Objects)] ==
            IF n = 0 THEN seeds
            ELSE LET prev == step[n - 1] IN prev \cup UNION {Needs(o) : o \in prev}
    IN  step[Cardinality(Objects)]

\* On a source without objects of NSX's own the older filter_policy_bundle.py
\* keeps the same policies and rules, and no group or service that is not
\* copied as well.
FilterAgrees(src) ==
    (\A c \in Range(Classes) : \A o \in DOMAIN src[c] : ~System(src[c][o])) =>
        LET filtered == FilterBundle(src, WholeCategories, FALSE)
            built == BuildBundle(src, WholeCategories, TRUE, {})
        IN  /\ filtered.rules = built.rules /\ filtered.policies = built.policies
            /\ filtered.groups \subseteq built.groups /\ filtered.services \subseteq built.services

\* A verified target holds exactly what was meant to be copied, no object of
\* NSX's own, whatever failed on the way; a push that reports success on the
\* checked manager has written all of it, and nothing else to an empty one;
\* and a push nothing disturbed succeeds: everything a rule names is in the
\* bundles, and written before it.  A revert fails only where the baseline of
\* an infra push holds a hit rule, a record was lost, or objects of one class
\* name each other.
CopyIsExact ==
    /\ folder.outcome = "verified" =>
          Present("checked") = Expected /\ \A c \in Range(Classes) : \A o \in Expected :
              o \in DOMAIN Taken[c] => ~System(Taken[c][o])
    /\ folder.outcome = "pushed" /\ ~tangled =>
          /\ \A o \in Expected : held["checked"][o] = "copy"
          /\ Range(first["checked"]) = {Void} => Present("checked") = Expected
    /\ folder.outcome = "push failed" => tangled
    /\ folder.outcome = "revert failed" =>
          \/ tangled \/ met # {} \/ lost # {}
          \/ \E c \in Range(Classes) : \E o \in Want \cap DOMAIN Taken[c] :
                Needs(o) \cap DOMAIN Taken[c] # {}
    /\ folder.pull # Void /\ scripts = 0 => FilterAgrees(Taken)

\* When no tool has a baseline left, however often pushes and reverts were
\* stopped and restarted, both managers hold what they held at first, but for
\* objects whose writer died before it recorded them, and for hit rules a
\* second push found on its way: the baseline of its tool 4, which lists every
\* rule, brings them back after the revert of tool 8 has taken them away (as
\* long as the name led to the checked manager).  A revert that reports success
\* leaves no baseline.
RevertReturns ==
    /\ (script.kind = Void /\ ~tangled /\ \A i \in PushTools : folder.stacks[i] = <<>>) =>
          \A h \in Managers, o \in Objects :
              held[h][o] = first[h][o] \/ <<h, o>> \in lost \cup met
    /\ folder.outcome = "reverted" => \A i \in PushTools : folder.stacks[i] = <<>>

\* revert.py:7 "including an earlier apply that stopped partway ... That returns
\* the target to empty": on a target that was empty, a revert none of whose
\* calls was disturbed does not fail (of objects none of which names another of
\* its class, and with no record lost).
RevertEmpties ==
    folder.outcome = "revert failed" =>
        \/ tangled \/ lost # {} \/ Range(first["checked"]) # {Void}
        \/ \E c \in Range(Classes) : \E o \in Want \cap DOMAIN Taken[c] :
              Needs(o) \cap DOMAIN Taken[c] # {}
=============================================================================
