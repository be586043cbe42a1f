------------------------------ MODULE Workflow -------------------------------
(***************************************************************************)
(* tools/nsx/run_workflow.py: from a capture of the source, phase by phase.  *)
(* Phase a clones services, groups, policies and rules from the flat exports *)
(* a capture leaves; c pushes IP-only siblings of the tagged groups and adds *)
(* them to the rules; d2a and d3 do the same with mapped addresses.  A phase *)
(* is a list of push tools, each with a stack of baselines in its folder;    *)
(* its rollback calls their reverts in the opposite order.  Inside, a tool   *)
(* is PushRevert or PushMerge: here it saves a baseline and writes one       *)
(* object.  What there is of a class is the set of the versions of the       *)
(* source it was read from, {} for nothing; version 0 is what the target had *)
(* of its own.                                                              *)
(***************************************************************************)
EXTENDS Naturals, FiniteSets, Sequences, SequencesExt

CONSTANTS TaggedGroups,
          Budgets       \* bounds: how many phase runs, captures, edits, faults

ASSUME FlowAssumption == Budgets \subseteq [{"runs", "captures", "edits", "faults"} -> Nat]

VARIABLES
    now,        \* the version of the source
    capture,    \* nsx_capture/<host>
    flat,       \* the flat exports, by class
    bundle,     \* <run>/nsx_sibling_groups/<host>
    target,     \* what the target manager holds
    folders,    \* per push_report its unreverted baselines
    work,       \* --apply or --rollback --apply
    \* history
    sound,      \* the addresses of the captures that ended well
    loose,      \* a flat export was written by something else
    initial,
    applied,    \* the phases applied whole
    messy,      \* a step failed, or a phase was rolled back out of turn
    stuck,      \* a rollback failed before that
    order,      \* the unreverted baselines of all folders, the oldest first, and
                \* what the target held before each, until one is
    crossed,    \* used that is not the newest
    fresh,      \* the phases applied since anything else was done
    left        \* of the budget
sourceVars == <<now, capture, flat, sound, loose>>
flowVars == <<sourceVars, bundle, target, folders, work, initial, applied, messy, stuck, order,
              crossed, fresh, left>>

Cloned == {"services", "groups", "policies", "rules"}
Apps == {"c", "d"}
Siblings == Apps \X TaggedGroups
Phase(p) == CASE p = "a" -> <<"services", "groups", "policies", "rules">>
              [] p = "c" -> <<"siblings", "amend">>
              [] p = "d2a" -> <<"siblings">>
              [] p = "d3" -> <<"amend">>
PhaseNames == {"a", "c", "d2a", "d3"}
Folders == Cloned \cup {"siblings", "amend"}
NoCapture == [objects |-> {}, addresses |-> {}, ok |-> FALSE]
NoBundle == [app |-> "c", of |-> {}, groups |-> {}, map |-> FALSE]
NoWork == [kind |-> "none", phase |-> "none", todo |-> <<>>, failed |-> FALSE]
Idle == work.kind = "none"
Nothing == [services |-> {}, groups |-> {}, policies |-> {}, rules |-> {}, refs |-> {},
            siblings |-> [k \in Siblings |-> {}]]
Own == {0}
NoFiles == Own             \* a directory without files: of no version of the source

FlowInit ==
    /\ now = 1 /\ capture = NoCapture /\ flat = [c \in Cloned |-> {}]
    /\ sound = {} /\ loose = FALSE
    /\ bundle = NoBundle /\ work = NoWork
    /\ target \in {Nothing, [Nothing EXCEPT !.services = Own, !.groups = Own, !.policies = Own, !.rules = Own]}
    /\ folders = [f \in Folders |-> <<>>]
    /\ initial = target /\ applied = <<>> /\ messy = FALSE /\ stuck = FALSE
    /\ order = <<>> /\ crossed = FALSE /\ fresh = <<>> /\ left \in Budgets

-----------------------------------------------------------------------------
(* The source and its captures.                                             *)

Spends(what) == left[what] > 0 /\ left' = [left EXCEPT ![what] = @ - 1]
StepFault == Spends("faults")
SourceEdited ==
    /\ Spends("edits") /\ now' = now + 1
    /\ UNCHANGED <<capture, flat, sound, loose, bundle, target, folders, work, initial, applied, messy,
                   stuck, order, crossed, fresh>>

\* The old capture is wiped, the objects are read, then the addresses of the
\* groups, while somebody may edit them; the flat exports of the classes that
\* were read are replaced, and the manifest is written last.  A capture that
\* dies leaves none.
FlatExports(objects, missing) == [c \in Cloned |-> IF c \in missing THEN flat[c] ELSE {objects}]
Manifest(objects, addresses, ok) == [objects |-> {objects}, addresses |-> {addresses}, ok |-> ok]
Captures(missing, ok, meanwhile, dies) ==
    /\ Idle
    /\ missing # {} => ~ok
    /\ dies => ~ok /\ ~meanwhile /\ missing = {}
    /\ LET changed == IF meanwhile THEN 1 ELSE 0
           failed == IF ok THEN 0 ELSE 1
       IN  /\ left.captures > 0 /\ left.edits >= changed /\ left.faults >= failed
           /\ left' = [left EXCEPT !.captures = @ - 1, !.edits = @ - changed, !.faults = @ - failed]
           /\ now' = now + changed
    /\ capture' = IF dies THEN NoCapture ELSE Manifest(now, now', ok)
    /\ flat' = IF dies THEN flat ELSE FlatExports(now, missing)
    /\ sound' = IF ok THEN sound \cup {now'} ELSE sound
    /\ fresh' = <<>>
    /\ UNCHANGED <<loose, bundle, target, folders, work, initial, applied, messy, stuck, order, crossed>>
\* A capture into another directory writes the flat exports as well.
CapturesElsewhere ==
    /\ Idle /\ Spends("faults") /\ loose' = TRUE
    /\ flat' = FlatExports(now, {})
    /\ UNCHANGED <<now, capture, sound, bundle, target, folders, work, initial, applied, messy, stuck, order,
                   crossed, fresh>>
\* services.py export and the like remove the whole directory of their class,
\* the baselines of its pushes with it; if the source does not answer then,
\* an empty export is left.
Exports(class, answers) ==
    /\ Idle /\ Spends("faults") /\ loose' = TRUE
    /\ flat' = [flat EXCEPT ![class] = IF answers THEN {now} ELSE NoFiles]
    /\ folders' = [folders EXCEPT ![class] = <<>>]
    /\ messy' = (messy \/ folders[class] # <<>>) /\ crossed' = (crossed \/ folders[class] # <<>>)
    /\ UNCHANGED <<now, capture, sound, bundle, target, work, initial, applied, stuck, order, fresh>>
ExportsServices(answers) == Exports("services", answers)
ExportsGroups(answers) == Exports("groups", answers)
ExportsPolicies(answers) == Exports("policies", answers)
ExportsRules(answers) == Exports("rules", answers)

\* Mutant: whatever the manifest says.
GatePassesUnread == capture # NoCapture
GatePasses == capture.ok

-----------------------------------------------------------------------------
(* Dry runs: c and d2a build the bundle of siblings; the others push nothing.*)

\* push_report is kept when the bundle is built again.
KeptOnRebuild(f) == folders[f]
\* build_sibling_groups.py leaves a group it cannot read out of the map, and
\* writes the map all the same; one that dies writes none.
Builds(app, addresses, leftOut, dies) ==
    /\ bundle' = IF dies THEN NoBundle
                 ELSE [app |-> app, of |-> addresses, groups |-> TaggedGroups \ leftOut, map |-> TRUE]
    /\ folders' = [f \in Folders |-> KeptOnRebuild(f)]
    /\ IF leftOut # {} \/ dies THEN StepFault ELSE UNCHANGED left
    /\ fresh' = <<>>
    /\ UNCHANGED <<sourceVars, target, work, initial, applied, messy, stuck, order, crossed>>
\* c: from the capture made before.  d2a: from one it makes in the run's own
\* directory, without flat exports; if that fails nothing is built.
BuildsC(leftOut, dies) == /\ Idle /\ GatePasses
                          /\ Builds("c", capture.addresses, leftOut, dies)
BuildsD(leftOut, dies) == Idle /\ Builds("d", {now}, leftOut, dies)

-----------------------------------------------------------------------------
(* --apply.                                                                 *)

\* phase a asks for the capture and the four exports, c for the capture and
\* the map, d2a and d3 for the map.
MayApply(p) == /\ p \in {"a", "c"} => GatePasses
               /\ IF p = "a" THEN \A c \in Cloned : flat[c] # {} ELSE bundle.map
ApplyBegins(p) ==
    /\ Idle /\ Spends("runs")
    /\ MayApply(p)
    /\ work' = [NoWork EXCEPT !.kind = "apply", !.phase = p, !.todo = Phase(p)]
    /\ UNCHANGED <<sourceVars, bundle, target, folders, initial, applied, messy, stuck, order, crossed, fresh>>

SiblingKeys == {bundle.app} \X bundle.groups
\* What a rule that is written must find.
Holds(t, refs) == /\ t.services # {} /\ t.groups # {} /\ t.policies # {}
                  /\ \A k \in refs : t.siblings[k] # {}
\* What a push makes of the target: groups and siblings are merged with what
\* is there, rules keep the references they have, and amend-refs adds the
\* siblings the target holds.
Pushed(f, t) ==
    IF f \in Cloned /\ flat[f] = NoFiles THEN t ELSE
    CASE f \in {"services", "policies"} -> [t EXCEPT ![f] = flat[f]]
      [] f = "groups" -> [t EXCEPT !.groups = @ \cup flat.groups]
      [] f = "rules" -> IF Holds(t, {}) THEN [t EXCEPT !.rules = flat.rules] ELSE t
      [] f = "siblings" -> [t EXCEPT !.siblings = [k \in Siblings |->
                               IF k \in SiblingKeys THEN @[k] \cup bundle.of ELSE @[k]]]
      [] f = "amend" -> IF t.rules = {} THEN t
                        ELSE [t EXCEPT !.refs = @ \cup {k \in SiblingKeys : t.siblings[k] # {}}]
Succeeds(f, t) == /\ f = "rules" => Holds(t, {}) \/ flat.rules = NoFiles
                  /\ f = "amend" => bundle.groups # {}     \* else nothing to amend
\* The baseline of a folder: what was there, and what the push then wrote.
Was(f, t) == CASE f \in {"services", "groups", "policies"} -> t[f]
               [] f \in {"rules", "amend"} -> [rules |-> t.rules, refs |-> t.refs]
               [] f = "siblings" -> t.siblings
Wrote(f, t, u) == IF f = "siblings" THEN {k \in Siblings : t.siblings[k] # u.siblings[k]}
                  ELSE IF f # "amend" /\ t[f] # u[f] THEN {f} ELSE {}
Saves(f, t, u) == /\ folders' = [folders EXCEPT ![f] = Append(@, [was |-> Was(f, t), wrote |-> Wrote(f, t, u)])]
                  /\ order' = Append(order, [of |-> f, nr |-> Len(folders[f]) + 1, before |-> t])

\* After a step that failed the script stops, or goes on (--continue-on-error).
StepEnds(failed) ==
    \/ (Tail(work.todo) = <<>> \/ failed) /\ work' = NoWork
    \/ Tail(work.todo) # <<>> /\ work' = [work EXCEPT !.todo = Tail(@), !.failed = @ \/ failed]
\* history: a phase counts as applied when all its steps went well.
CountsApply(failed) ==
    IF failed THEN messy' = TRUE /\ fresh' = <<>> /\ UNCHANGED applied
    ELSE IF Tail(work.todo) # <<>> \/ work.failed THEN UNCHANGED <<messy, applied, fresh>>
    ELSE /\ applied' = Append(applied, work.phase) /\ fresh' = Append(fresh, work.phase) /\ UNCHANGED messy

ApplyStep ==
    /\ work.kind = "apply"
    /\ LET f == Head(work.todo)
           u == Pushed(f, target)
       IN  /\ target' = u
           /\ IF f = "amend" /\ bundle.groups = {} THEN UNCHANGED <<folders, order>> ELSE Saves(f, target, u)
           /\ StepEnds(~Succeeds(f, target)) /\ CountsApply(~Succeeds(f, target))
    /\ UNCHANGED <<sourceVars, bundle, initial, stuck, crossed, left>>
\* A tool dies before its baseline, or fails with all or nothing written.
ApplyStepFails(saved, wrote) ==
    /\ work.kind = "apply" /\ StepFault
    /\ wrote => saved
    /\ saved => Head(work.todo) # "amend" \/ bundle.groups # {}
    /\ LET f == Head(work.todo)
           u == IF wrote THEN Pushed(f, target) ELSE target
       IN  /\ target' = u
           /\ IF saved THEN Saves(f, target, u) ELSE UNCHANGED <<folders, order>>
    /\ StepEnds(TRUE) /\ CountsApply(TRUE)
    /\ UNCHANGED <<sourceVars, bundle, initial, stuck, crossed>>

-----------------------------------------------------------------------------
(* --rollback --apply.                                                      *)

\* Mutant: in the order of the apply.
RollbackStepsForward(p) == Phase(p)
RollbackSteps(p) == Reverse(Phase(p))
RollbackBegins(p) ==
    /\ Idle /\ \E i \in DOMAIN Phase(p) : folders[Phase(p)[i]] # <<>>   \* else nothing is done
    /\ work' = [NoWork EXCEPT !.kind = "rollback", !.phase = p, !.todo = RollbackSteps(p)]
    /\ fresh' = <<>>
    /\ messy' = (messy \/ applied = <<>> \/ Last(applied) # p)
    /\ UNCHANGED <<sourceVars, bundle, target, folders, initial, applied, stuck, order, crossed, left>>

\* What the revert of a baseline makes of the target.  A group or service in
\* use is not deleted; a policy is deleted with its rules; a rule is written
\* only where all it names is there.
Reverted(f, b, t) ==
    CASE f = "services" -> IF b.was = {} /\ t.rules # {} THEN t ELSE [t EXCEPT !.services = b.was]
      [] f = "groups" -> IF b.wrote = {} \/ (b.was = {} /\ t.rules # {}) THEN t ELSE [t EXCEPT !.groups = b.was]
      [] f = "policies" -> IF b.was = {} THEN [t EXCEPT !.policies = {}, !.rules = {}, !.refs = {}]
                           ELSE [t EXCEPT !.policies = b.was]
      [] f = "siblings" -> [t EXCEPT !.siblings = [k \in Siblings |->
                               IF k \notin b.wrote \/ (b.was[k] = {} /\ k \in t.refs) THEN @[k] ELSE b.was[k]]]
      [] f \in {"rules", "amend"} ->
             IF b.was.rules # {}
             THEN IF Holds(t, b.was.refs) THEN [t EXCEPT !.rules = b.was.rules, !.refs = b.was.refs] ELSE t
             ELSE IF b.wrote # {} THEN [t EXCEPT !.rules = {}, !.refs = {}] ELSE t
\* Nothing that the revert was to change is left.
Restored(f, b, u) ==
    CASE f = "services" -> u.services = b.was
      [] f = "policies" -> u.policies = b.was
      [] f = "groups" -> b.wrote # {} => u.groups = b.was
      [] f = "siblings" -> \A k \in b.wrote : u.siblings[k] = b.was[k]
      [] f \in {"rules", "amend"} -> b.was.rules # {} \/ b.wrote # {} => Was(f, u) = b.was

CountsRollback(failed, refused) ==
    IF failed THEN messy' = TRUE /\ stuck' = (stuck \/ (~messy /\ ~refused)) /\ UNCHANGED applied
    ELSE /\ UNCHANGED <<messy, stuck>>
         /\ applied' = IF Tail(work.todo) = <<>> /\ ~messy THEN Front(applied) ELSE applied
RollbackStep ==
    /\ work.kind = "rollback"
    /\ LET f == Head(work.todo)
       IN  IF folders[f] = <<>>                     \* no baseline: the tool exits
           THEN /\ StepEnds(TRUE) /\ CountsRollback(TRUE, FALSE)
                /\ UNCHANGED <<target, folders, order, crossed>>
           ELSE LET b == Last(folders[f])
                    u == Reverted(f, b, target)
                    well == Restored(f, b, u)
                IN  /\ target' = u
                    /\ folders' = IF well THEN [folders EXCEPT ![f] = Front(@)] ELSE folders
                    /\ order' = IF well THEN Front(order) ELSE order
                    /\ crossed' = (crossed \/ Last(order).of # f)
                    /\ StepEnds(~well) /\ CountsRollback(~well, FALSE)
    /\ UNCHANGED <<sourceVars, bundle, initial, fresh, left>>
\* A revert fails, nothing or all of it done: the baseline stays.
RollbackStepFails(did) ==
    /\ work.kind = "rollback" /\ StepFault
    /\ LET f == Head(work.todo)
       IN  /\ folders[f] # <<>>
           /\ target' = IF did THEN Reverted(f, Last(folders[f]), target) ELSE target
           /\ crossed' = (crossed \/ Last(order).of # f)
    /\ StepEnds(TRUE) /\ CountsRollback(TRUE, TRUE)
    /\ UNCHANGED <<sourceVars, bundle, folders, initial, order, fresh>>

-----------------------------------------------------------------------------
(* --verify.                                                                *)

\* verify_avs_run.py: everything captured is there by id (V1), so is every
\* sibling of the map (V2) with the addresses captured (V3), and a rule that
\* names a group names its sibling (V5).
IsThere == \A c \in Cloned : target[c] # {}
RulesAmended == target.rules # {} => SiblingKeys \subseteq target.refs
Verified(p) ==
    /\ IsThere
    /\ p = "c" => /\ bundle.app = "c" /\ RulesAmended
                  /\ \A k \in SiblingKeys : capture.addresses \subseteq target.siblings[k]
\* validate_wf_d.py: no group has lost addresses since the baseline of the
\* siblings (G1, G2), every sibling is there (S1) and named (R1).
Validated ==
    /\ \A k \in Siblings : Last(folders["siblings"]).was[k] \subseteq target.siblings[k]
    /\ \A k \in SiblingKeys : target.siblings[k] # {}
    /\ RulesAmended
Verifies(p) == IF p \in {"a", "c"}
               THEN GatePasses /\ (p = "c" => bundle.map) /\ Verified(p)
               ELSE folders["siblings"] # <<>> /\ bundle.map /\ Validated

FlowNext ==
    \/ SourceEdited
    \/ \E missing \in {{}, {"services"}, {"groups"}, {"policies", "rules"}}, ok, meanwhile, dies \in BOOLEAN :
          Captures(missing, ok, meanwhile, dies)
    \/ CapturesElsewhere
    \/ \E answers \in BOOLEAN : \/ ExportsServices(answers) \/ ExportsGroups(answers)
                               \/ ExportsPolicies(answers) \/ ExportsRules(answers)
    \/ \E leftOut \in SUBSET TaggedGroups, dies \in BOOLEAN : BuildsC(leftOut, dies) \/ BuildsD(leftOut, dies)
    \/ \E p \in PhaseNames : ApplyBegins(p) \/ RollbackBegins(p)
    \/ ApplyStep \/ RollbackStep
    \/ \E saved, wrote \in BOOLEAN : ApplyStepFails(saved, wrote)
    \/ \E did \in BOOLEAN : RollbackStepFails(did)
FlowSpec == FlowInit /\ [][FlowNext]_flowVars

-----------------------------------------------------------------------------
(* What is promised.                                                        *)

\* A sibling holds only addresses that a capture which ended well had found
\* when the bundle was built; a rule names only siblings that exist.  Unless
\* an export was written by another tool, a clone that went well is of one
\* such capture, whole, though captures failed before and after (run_workflow.py
\* checks the capture, and pushes the exports).  What was just applied verifies.
AppliedIsCaptured ==
    /\ \A g \in TaggedGroups : target.siblings[<<"c", g>>] \subseteq sound
    /\ \A k \in target.refs : target.siblings[k] # {}
    /\ (~loose /\ fresh # <<>> /\ Last(fresh) = "a") =>
          /\ Verifies("a")
          /\ capture.objects \subseteq target.groups
          /\ \A c \in Cloned \ {"groups"} : target[c] = capture.objects
    /\ (/\ ~loose /\ fresh # <<>> /\ Last(fresh) = "c" /\ Contains(fresh, "a")
        /\ bundle.app = "c" /\ bundle.of = capture.addresses) => Verifies("c")
    /\ (fresh # <<>> /\ Last(fresh) = "d3" /\ Contains(fresh, "d2a")) => Verifies("d3")

\* Phases that were applied whole and are rolled back in the opposite order
\* never fail to, and leave the target as it was, whatever was captured and
\* built in between, with c and d sharing their folders.  And however a phase
\* was broken off, when every baseline was used, each while it was the newest
\* of all, the target is as it was.
PhasesUndo ==
    /\ ~stuck
    /\ ~messy /\ applied = <<>> /\ Idle => target = initial
    /\ Idle /\ order = <<>> /\ ~crossed => target = initial
=============================================================================
