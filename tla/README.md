# TLA+ verification of nsx_scripts

nsx_scripts is a toolkit of Python scripts that read, compare and change the
distributed-firewall configuration of VMware NSX managers, and carry it over to
other managers and to Palo Alto's Panorama. Its own principle is that "every push
is reviewable, dry-runnable, and revertible" (`src/README.md`). This project states
that principle precisely for the tools that write, and for the tools that only
compute says what their answers mean; it checks both with TLC on small
instances, and proves the central parts with TLAPS for every instance.

1. [Inventory](#1-inventory) of the system's parts
2. [Modules](#2-modules): what models what
3. [The models](#3-the-models): how state and actions correspond to the code
4. [Runs](#4-runs): what is checked, with which bounds, and why they are enough
5. [Fairness and deadlock](#5-fairness-and-deadlock)
6. [Proofs](#6-proofs)
7. [Where code and documentation differ](#7-where-code-and-documentation-differ)
8. [What is not modelled](#8-what-is-not-modelled)

## 1. Inventory

The scripts are separate processes that a person starts one after the other.
They share state in two places: an NSX manager (or a Panorama), which other
administrators, other tools and network traffic change at the same time, and
folders on disk through which one tool tells the next what it did. Every
writing tool asks before it writes (`ApplyBatch`), and every call may fail, be
repeated by the client, or take effect and still be reported as failed. Only
two programs have threads: the web server, and the tools that list or wipe with
a pool.

| Component | State it keeps | Operations | What makes it correct |
|---|---|---|---|
| **Rule cleanup, step 1** (`tools/nsx/rule_cleanup/step1_*.py`) | `plan.json`, `disabled.json` | plan, apply, undo | only reviewed, unchanged, enabled rules are turned off; each is recorded; the undo brings back what the plan saw |
| **Rule cleanup, step 2** (`step2_*.py`) | `plan.json`, `deleted.json` | plan, apply (rules, empty policies, unreferenced groups), undo | nothing unreviewed goes; what goes is recorded first; both orders resolve every reference |
| **Hit history** (`app/nsx/rule_cleanup.py`) | usage snapshots | take one, classify a rule | a rule called unused was not hit in the window |
| **Push and revert** (`services.py`, `policies.py`; `groups.py`, `rules.py`) | a stack of baselines each, with companion files | push, retry rounds, amend-refs, revert | reverting again and again restores what there was; a push takes nothing away |
| **Batches, NSX client** (`apply_batch.py`, `nsx_policy_client.py`) | approvals; pacing | ask; send, repeat, page | requests are spaced; an answer cut short is not taken for a whole one |
| **Bundles and run history** (`bundles.py`, `bundle_history.py`) | timestamped runs, `latest` | capture, promote, prune, find | a complete run stays findable |
| **Critical rules** (`tools/nsx/critical_rules/`) | one run folder, eight stacks of baselines | stats, pull, push, verify, revert | what is verified is what was meant; revert leaves the target as it was |
| **Migration request** (`tools/multisite/migration_request.py`) | request, approval, refreshed runs, baselines, a manifest | build, approve, refresh, apply by phase, roll back | what is applied is about the approved servers; the rollback takes it back |
| **Workflow runner, whole-bundle push** (`run_workflow.py`, `push_from_capture.py`, ...) | captures, exports, phase folders, baselines | capture, export, dry run, apply, roll back, verify | what is applied was captured; phases undo |
| **VM and group tags** (`tools/vm_tags/`, `sync_group_label_tags.py`) | plan, checkpoint, manifests | plan, push, resume, revert | only own tags are taken off; each added one stays on record |
| **IP remap** (`subnet_map.py`, `nsx_group_ip_remap_offline.py`, `pan_group_remap.py`) | none | load the map, remap, audit, report | an address is mapped by its most specific row, once |
| **Panorama mirror and policy tools** (`pan_mirror.py`, `pan_rules.py`, `check_policy_match.py`, ...) | none | translate; match a flow or an address | a translated rule never matches more; the tools agree |
| **XML remap** (`app/palo/pa_xml_zone*.py`) | none | add mapped objects and zones | the five versions agree where they say they do |
| **Web UI** (`ssdd_toolkit_web.py`) | snapshot, topology and profile cache, saved runs; a thread per request | pull, search, profiles | what is cached for a snapshot was computed from it |
| **Other reports, archive, lab set-up** | none | read and format | - |

How the parts interact: reports produce the snapshots that step 1's plan reads;
step 1's `disabled.json` is the candidate list of step 2; pushes write the
baselines that reverts read; the migration request, the critical rules copy and
the workflow runner call pushes and reverts; both use bundles and captures. All
writing tools share the client and the prompts.

Hard behaviours, listed line by line in `PROJECT.json` under `hazards`: state
read before a prompt and used after it; writes without a revision (DELETE,
PATCH, a whole list of tags); a call that takes effect and reports failure; a
tool killed between its write and its record; applies that are interrupted and
rerun into the same record; two terminals on one folder; phases applied in part
and rolled back; deletion and re-creation orders that NSX enforces; captures
that overwrite the folder another run needs; threads that share a cache;
counters that go back to zero; chains of nesting, overlapping networks and the
first and last address of a block.

## 2. Modules

| Module | Models |
|---|---|
| `RuleDisable`, `MCDisableCopy` | `step1_disable.py --apply`, `step1_undo.py --apply`, `disabled.json`, the manager |
| `RuleDelete`, `MCRuleDelete` | `step2_delete.py` (plan and apply), `step2_undo.py`, `deleted.json` |
| `RuleDeleteProofs` | proofs about them |
| `HitHistory` | `no_hit_since`, `classify`, the snapshots of one rule |
| `NsxClient`, `MCHitClient` | the client's pacing, retries and pages, under `membership.py`, the additive build, `wipe_by_prefix.py` and any read-modify-write |
| `HitClientProofs` | proofs about `HitHistory` and `NsxClient` |
| `UndoStack`, `UndoStackProofs` | nothing in particular: what a stack of baselines promises (abstract specification), with its proof |
| `PushRevert`, `PushRevertProps`, `MCPushRevert` | `services.py push/revert`, shared in its steps by `policies.py`; shown to implement `UndoStack` |
| `PushRevertProofs` | proof of that refinement |
| `PushMerge`, `MCPushMerge` | `groups.py` and `rules.py` push, revert and amend-refs; shown to implement two `UndoStack`s |
| `PushMergeProofs` | proof of that, and of what pushes keep and reverts delete |
| `TagTools` | VM host-name tags and group label tags |
| `Workflow` | `run_workflow.py` over captures, exports and the push tools |
| `TagsWorkflowProofs` | proofs about the tag tools, the workflow and `PayloadPush` |
| `PayloadPush`, `MCTagsWorkflow` | push of a whole captured bundle and its two rollbacks |
| `VmRules` | which rules touch which server: pull, caches, analysis |
| `MigrationBuild` | what a migration request consists of |
| `MigrationRequest`, `MCRunFolders` | its life: request, approve, refresh, apply by phase, roll back |
| `IpRemap`, `IpSpan`, `PanRemap` | the subnet map, spans, and the remaps of NSX groups and Panorama objects |
| `GroupExpressions`, `MCOffline` | the rewriting of group expressions; inputs of all offline functions |
| `Bundles`, `MCRunFolders` | timestamped bundles and `latest` |
| `CriticalRules`, `MCDisableCopy` | the critical rules copy |
| `DisableCopyProofs` | proofs about `RuleDisable` and `CriticalRules` (section 6) |
| `ToolkitWeb`, `MCRunFolders` | the web server and its threads |
| `RunFoldersProofs` | proofs about `Bundles`, `ToolkitWeb` and `MigrationRequest` |
| `PolicyMatch`, `PanSubnets`, `PanoramaProps` | which rule of a Panorama configuration a flow or an address meets, in four tools; subnets of device groups |
| `PanMirror`, `RuleMirror`, `PanoramaProps` | NSX groups and rules as Panorama objects |
| `XmlRemap`, `MCXml`, `MCPanorama` | the five XML remaps; inputs of all Panorama functions, which `MCOffline` extends |

`PROJECT.json` maps every definition to the lines it stands for. Its `mutants`
are plausible bugs, defined next to the definition they replace; each property
is shown to fail when one of them takes that definition's place. Four properties say
what a runbook or a comment says and the code does not do; their runs end in a
counterexample (sections 4 and 7).

Models that share nothing (the tag tools and the workflow runner, say) are
checked in one run: its MC module has a variable `system` that says whose
behaviour it is, and the other variables keep their first values.

## 3. The models

### Rule cleanup: RuleDisable, RuleDelete, HitHistory

`RuleDisable`. State: `live` (every planned rule: there, configuration, disabled,
revision), `hits`, `plan`, `disabledJson`, and the two tools `ap` and `un` as
small state machines: `next` (top of the loop), `write` (the rule has been read
and passed its checks; the prompt and the PUT come next), `verify` (the PUT was
accepted; read back and record). Each tool works on the copy of `disabled.json`
it loaded at its start (`rec`) and writes it back whole, as the code does.
Between any two steps another administrator edits, toggles or deletes a rule, or
traffic hits it. A PUT carries `_revision`: NSX refuses a stale one and creates
a missing rule. A fault is a call that fails after or before it takes effect, or
a crash. A tool may be started while the other one runs, in a second terminal;
`overlapped` remembers it. `Bounds` says which numbers of edits and faults, and
whether an overlap, go together in a run.

`RuleDelete`. State: the manager (`live`, `policies`, `groups`, `consumers`), the
run folder (`candidates`, `approved`, `deletedJson`) and the tools `de` and
`ud`. The apply goes through its three phases in the code's order, plans the
groups afresh after the policies are gone, saves each object to `deleted.json`
before its DELETE and takes it out again when the DELETE fails. The undo
restores groups in reverse order of deletion, then policies, then rules, from
every interrupted apply. NSX refuses to delete a group something names, and to
create an object that names a missing one. A policy's DELETE takes whatever rules it
then has, also those somebody created in it since they were listed (`late`). Two
readings of the counters decide about traffic, one for the plan and one for the
apply; in each any row may be missing (both statistics calls failed), and somebody may set
the counters of a rule back to 0 at any time (`Shown`); `seen` is what they showed. Edits,
faults and starts go together as `Bounds` says.

`HitHistory`. One rule, its running total, the readings taken by snapshots (with
the delay between reading the counter and stamping the snapshot, and with a
missing row read as 0), resets and re-creation. `lastHit` is the truth that no
code sees; the properties relate it to what `classify` concludes.

### Push and revert: UndoStack, PushRevert, PushMerge

A push of `services.py` reads all services of the manager, writes them as a
baseline (second step: the meta file naming the manager), and writes the
services of its bundle in file order, skipping those that are as they should be;
what fails because a nested service is missing is retried in up to five rounds,
each of which must make progress. A revert takes the newest baseline, refuses it
for another manager, deletes what the baseline does not hold, restores what
differs, and renames the baseline if nothing failed and nobody stopped it.
`target`, `stack` and `job` are the code's state; `edited` and `foreign` record
what others did. A service's content is an abstract value with the set of
services it nests and its variant with the description note. PUT and PATCH are
taken to leave exactly the content that was sent.

`PushMerge` is the same for `groups.py` and `rules.py`, which keep the addresses
and references the target has beside those of the file, write the ids they
created (or wrote) beside the baseline, object by object, and delete no others.
An object is the set of its members. Each tool has a stack of its own, over
objects that name one another.

The mapping to `UndoStack`: a key is a (manager, service) pair, a group or a rule;
every baseline saves all keys it lists; a key another administrator wrote, or
whose record a fault lost, is loose.

### The client: NsxClient

The clock, the time of the last request and the sends of every thread;
collections with a page per item and a cursor; a manager that may be busy (429,
503), not realized yet (400), lose an answer, or be edited in between. On top of
it run a membership export, the additive build, a wipe with two threads, and a
read-modify-write, each as the code has it: which answers it repeats itself, what
it does with a group whose members it could not get.

### Whole runs: TagTools, Workflow, PayloadPush, CriticalRules, MigrationRequest, Bundles

These call the tools above. Inside them a tool is one save of a baseline and one
write (or one failure), since what goes on inside is `PushRevert` and
`PushMerge`'s part; what they have that those do not is several stacks, folders
and phases. `TagTools` keeps manifests and checkpoints next to what the objects
have, and the list of tags read at the beginning. `Workflow` has the source in
versions, so that what the target holds tells which capture it came from; the
folder of an app that `c` and `d2a` share; and the flat exports that phase a
pushes. With every unreverted baseline it notes which folder it is in and what
the target held before (`order`, a history nothing reads), so that the five folders
together can be seen as the one stack they are when phases are rolled back in turn.
`PayloadPush` has one folder for the baseline, rewritten by every push, and the
two rollbacks. `CriticalRules` has eight stacks in one folder and a name that
may lead to another manager; `met` notes the hit rules that an infra push found on the
target and took into its baseline although they were not there at first. `MigrationRequest` has runs with a digest, an
approval, stacks per run and step, and manifests. `Bundles` has one host's
directories, `latest` as two steps (unlink, link), the pruning directory by
directory, and a reader that looks up and opens in separate steps.

### Functions: MCOffline and MCPanorama

`IpRemap`, `IpSpan`, `PanRemap`, `GroupExpressions`, `VmRules`, `MigrationBuild`,
`PolicyMatch`, `PanSubnets`, `PanMirror`, `RuleMirror` and `XmlRemap` have no
variables: their operators are the code's functions of the files it reads. The
MC modules build an input part by part (so that TLC enumerates inputs as states)
and the invariants compare what the functions make of it with a reference
written for the purpose: sets of addresses instead of networks, what NSX
matches instead of what the mirror says, the closure of nesting instead of the
order in which the code walks, or one tool's answer with another's.

### The web server: ToolkitWeb

Every request has a thread; `memory` (snapshot, topology, in memory) and `cache` are shared,
and each read or write of one of them is a step. A value is known by the pull it
was computed from, so that a mixture shows.

## 4. Runs

Eight runs pass. Four check one property each that states what a runbook or a
comment says, and end in a counterexample; section 7 says what it shows. Models that
share nothing are in one run (section 2).

| Run | Question | Bounds | Distinct states |
|---|---|---|---|
| `disable_copy` | step 1 and its undo: record complete, only reviewed rules off, only recorded ones on again; critical rules: the copy is whole, the revert returns | 2 rules, 2 configurations, 1 hit, with 2 edits and 2 faults, or overlapping with 1 of each; copy: 4 scripts, 1 fault, 1 renamed target | 1.3 million |
| `rule_delete` | step 2 and its undo: only the plan goes, all of it is recorded, orders resolve | 2 rules, 2 policies, 2 nested groups; 1 fault and 4 starts, or 1 edit and 2 starts, or 2 edits and 1 start | 2.4 million |
| `hit_history` | what the history proves of a rule; the client under its tools | 3 readings, time 0..4, window 1, 2 hits, 1 reset; 2 threads, 2 objects, 1 repetition per request, clock to 6 | 392 thousand |
| `push_revert` | push, retry, revert: an undo stack that can be emptied | 2 managers, 2 services, 2 pushes, 1 edit, 1 fault | 338 thousand |
| `push_merge` | pushes that merge: nothing taken, two undo stacks | 2 groups (one the sibling of the other, which may nest it), 2 rules in different policies, 3 pushes, 1 edit, 1 fault | 1.2 million |
| `tags_workflow` | tags: own ones only; workflow: captured, verified, undone; whole bundle: lands, comes back | tags: 3 starts, 1 edit, 1 fault; workflow: 3 runs, or 2 with a capture, an edit or a fault; payload: 4 starts, or 3 with an edit or a lost call | 861 thousand |
| `run_folders` | migration: approved servers only, the rollback undoes; `latest` and reports; web cache and saved runs | 2 refreshes, 2 applies, 1 change of the source, 1 fault; 6 runs of which 2 are kept; 2 threads, 3 pulls, 5 requests | 3.1 million |
| `offline` | remaps, spans, expressions, requests, policy tools, mirror and XML as functions | addresses 0..7, maps of 2 rows or 2 sites, spans 0..5 with 2 holes, expressions of 3 operands, requests with 2 rules and 2 groups; a device group and its parent, 2 rules each, buckets of 2 | 116 thousand |
| `rule_delete_unlisted` | "every rule in it is on the DELETE list": not so (`DeletesNothingUnlisted`) | as `rule_delete` | - |
| `push_revert_note` | every service written gets the note: not so (`NoteLands`) | as `push_revert` | - |
| `revert_empties` | one revert returns an empty target to empty: not so (`RevertEmpties`) | as `disable_copy`, 1 rule | - |
| `panorama_negated` | a mirrored rule is never wider: not so on a negated side (`NegatedNeverWider`) | as `offline` | - |

Why the bounds are enough. *Rules*: the loops handle one rule at a time and
rules interact only through the record, so two show every overwriting and every
"the other one"; the proofs of section 6 drop the bound. *Edits and faults*: two
of each allow a fault on one rule followed by an edit on it, or one on each rule;
elsewhere one of each is enough to get between any read and its write. Where `Bounds` has
several combinations, the run is the union of them: what needs a fault *and* a
write by others at once is left to the proofs, which hold for any `Bounds`.
*Step 2*: policy `p1` holds `r1`, which names group `ga`, which nests `gb`;
`p2` holds `r2` and is applied to `gb`; an edit makes `r2` name `gb`. That has a
chain for the order of deletion, a group kept by a policy, and a rule that
becomes a consumer after the plan. An object that is not a rule may name `gb`. Four starts are an apply that is interrupted,
a second one into the same record, an undo that is interrupted, and another.
*History*: `no_hit_since` looks at pairs of readings; three readings and the live
total give a drop before, within and after the pair that matters. *Client*: two
threads share the interval; one repetition gives an answer after a repetition
and one given up. *Pushes*: two baselines of different managers, or two of the
same, in one directory; a bundle whose second service nests the first, in both
orders of the files; one that changes a service the first left. Reverts are not
bounded. Three pushes of groups and rules give two of one tool around one of the
other. *Workflow*: three runs apply two phases and roll one back, or one phase
twice; the longest unwinding, of all phases in turn, needs no more than pairs
because phases share folders only in pairs. *Whole bundle*: a group that names
one listed later, one whose present content names a third, objects of NSX's own,
an own policy of the target. *Bundles*: two complete runs beyond the retained
ones, with failed runs between, make the pruning reach both kinds. *Functions*: widths of
three bits have networks within, beside and across one another; two rows of a
map are a chain, an overlap, a duplicate or a nested pair; two device groups give
own, shared and inherited objects of one name. In `rule_delete` no policy is NSX's
own (`SystemPolicies` is empty): those are left out of the plan by a filter.

## 5. Fairness and deadlock

Only `PushRevert` has a liveness property, `RevertsFinish`. Its `FairSpec` is weak
fairness of the steps of a running push or revert (every call has a timeout and a
bounded number of repetitions in the client, and a prompt is answered or its input
closes, which stops the tool), and of starting another revert while a
baseline is left, which people do. Nothing is assumed of other people's writes;
faults (a stop, a death, a failing call) are bounded by
`MaxFaults`, since an operator who stops every revert never gets to the
end. `RevertsFinish` is not obvious although the tools are sequential: a revert
deletes in listing order and restores in file order, NSX refuses what is out of
order, and the baseline stays when anything was refused. The other modules
state no fairness: their promises are about what is there whenever a tool ends,
or stops. That the loops of the other tools end needs no model: each is a `for` over a
list that was read before.

Deadlock is checked for `RuleDelete`, where a tool that runs can always go on and an
idle one always be asked for a new plan. The other models stop
when their clocks, starts, scripts or inputs are used up, so their configurations say
`CHECK_DEADLOCK FALSE`.

## 6. Proofs

All proofs hold for any finite or infinite sets of rules, managers, services,
threads and contents and any bounds; they assume only the named `ASSUME`s of the
modules, which TLC evaluates in the runs.

**`DisableCopyProofs`.** *`RuleDisable`.* The inductive invariant `SoloInv` is the conjunction of
`TypeInv` (types, and a tool about to write has a rule in hand), `Alone` (one
tool runs, on the record as it is on disk), `ByToolOff` (what step 1 is said to
have disabled is off), `AllAccounted` (it is recorded, in hand or orphaned by a fault), `ApplyInv` and `UndoInv` (what a tool has in
hand was planned or recorded, and its copy is the live one unless the revision
has moved on), `RecordInv` (what is recorded was planned) and `Untouched` (until
somebody else writes, step 1 alone explains what is off). The properties need
them: `DisablesOnlyReviewed` says that the live configuration is the reviewed
one at the moment of the PUT, which follows from the checks on the copy only with
`Fresh`, the fact about revisions. From it follow

- `TypeCorrect`: the type invariant;
- `RecordComplete`: `Recorded`, nothing is off without a record, except what a
  fault hit; `OneRulePerFault`: at most one such rule per fault;
- `UndoComplete`: `UndoRestoresPlan`, an empty list of open records means
  everything is as planned;
- `OnlyReviewedDisabled`, `OnlyRecordedEnabled`, `UndoneStaysOn`: the action
  properties, in two terminals too.

`Recorded`, `UndoRestoresPlan` and `FaultCostsOneRule` speak of the time in which no tool was
started beside the other (`AloneInv` is `SoloInv` for as long as that is so): with two
terminals the tools overwrite each other's `disabled.json`, and a rule may be off
without a record. The action properties hold all the same, by another invariant, `PairInv`
(TLC checked it on 2 rules with 2 edits, and on 1 rule with 3 edits and 2 faults:
313 thousand states): the copies of the file are nested (`CopiesNest`). What step1_undo loaded is in the file, and what is in
the file is in what step1_disable loaded or wrote since, as the undo adds no entry and loads only what
is there. So the two are never at the same rule (`RulesApart`), a PUT of one never
spoils the copy the other has read, and a rewrite by the undo may lose an entry of
the apply but never that of a rule it turned on again (`UndoneListed`).

*`CriticalRules`.* `RevertUndoesPushes` (`RevertReturns`), for any sources, targets,
categories, failures and number of pushes and reverts. Eight tools share four classes of
objects, and only services and policies are brought back to all that the baseline says;
`groups.py` undoes, and `rules.py` deletes, what their push recorded. The invariant,
`CopyInv`, says of the checked manager, as long as the name led to it (`~tangled`):

- in every run of tools the baselines are taken first to last and used last to first
  (`OldestFirst`), so that the stack of tool `i` is there while that of `i + 4` is;
- what is held, and what a baseline says, is as at first or a copy (`FirstOrCopy`); with
  the deletion of a policy taking its rules, that needs that a rule that was there at
  first had its policy (`CriticalAssumption`);
- the oldest baseline of a class is from the beginning (`OldestIsFirst`), a group or rule
  that differs is in some record (`GroupsRecorded`, `RulesRecorded`), and a copy of a
  rule that a *baseline* has is in a record below it (`RecordedBelow`), or was seen by
  tool 4 when tool 8 of an earlier push had written it: the exception `met` of
  `RevertReturns`, which is exactly those hit rules, and which `revert_empties` shows to
  keep a revert from ever completing on a target that was empty;
- a revert none of whose calls failed has done what it has not left to do (`RevertDoes`).

`Settled`, that a class without baselines is as at first, then follows whenever a
baseline is renamed. `CriticalTypeCorrect` comes with it.

**`UndoStackProofs`.** `StackUndoes`: a key that is not loose and has no saved
value has its first value. That is not inductive: taking the top off exposes the
entry below, or none. The strengthening, `OldestIsFirst`, says that the oldest
saved value of each key is its first one.

**`PushRevertProofs`.** `BaselinesAreAnUndoStack`: `Spec => Undo!Spec`, by an
invariant that says that a running tool has the newest baseline of its manager
under it (`UnderBaseline`; for a revert this needs `MetaRight`, that a meta file
never names another manager) and that a revert without a failed call still has
in its plan every service that differs from the baseline and nobody else wrote
(`RevertPlan`). `RevertedMeansRestored` combines the refinement with
`StackUndoes` into `AllUndone`. `TypeCorrect` comes with it.

**`RuleDeleteProofs`.** For any rules, policies, groups and references:

- `TypeCorrect`; its invariant `TypeInv` adds that the object in hand is the last
  entry of `deleted.json` while its DELETE is outstanding (`InHand`);
- `RecordComplete`: `DeletedIsRecorded`. It is inductive only with the facts that
  what is gone is not on the manager, that what is in hand is not gone, and that the
  rules a policy in hand has are all `late` (`RecordInv`): otherwise taking the last
  entry out again after an error could take the record of an earlier deletion, and a
  policy's DELETE could take a rule nobody saved;
- `OnlyReviewed`: `OnlyReviewedDeleted`, from `ReviewInv`: what the apply still looks at,
  and has in hand, is in the plan, also when it plans the groups again; what goes
  with it are `late` rules, by `RecordInv`;
- `HitRulesStay`: `HitRulesKept`, from `SeenInv`: no rule that a reading showed to have
  moved is in the plan, or left to delete by the apply that read it; a policy that
  has one is not empty, so that it does not go with the policy either. Whatever others
  write, whatever rows are missing;
- as long as nobody else writes (`edits = 0`), from `AloneInv`: every rule is as it was
  or was deleted while off, policies and groups are what they were minus what is
  gone, and what the apply read of its object still holds. With `RecordInv` that gives
  `UndoComplete` (`UndoRestores`);
- `OrdersAlwaysResolve`: `OrdersResolve`, assuming `NoNestingLoop` (in any set of groups
  one is nested by none of the others; the code provides for loops at
  `rule_cleanup.py:475`, but there no order resolves). For the undo (`OrderInv`): a group
  that a recorded group nests is there, or was recorded after it, and what the undo has
  passed is on the manager. For the apply (`DeleteOrderInv`): a group to come is named
  only by groups to come, or is *pinned*, that is, reached from what the plan leaves;
  a refused group is pinned, and a deleted one never pinned anything, so that the
  set of pinned groups does not change while groups go.

**`TagsWorkflowProofs`.** *`TagTools`.* `OnlyOwnTaken`: `TakesOnlyOwn`. The tools post whole lists of
tags read earlier; the invariant (`SinceInv`) says that what an object has and the
run that is still to write it has not read was added since. `EveryTagAccountedFor`:
`TagsAccountedFor`. It needs the converse too (`StaleInv`: what was read and is gone,
somebody else took), that what the tools add and take off was not there at
first (`AddedInv`), and for the count of unrecorded tags that a step without a
fault leaves none unrecorded and a fault at most one (`UnrecordedStep`).
`TypeCorrect` comes with them.

*`Workflow`.* For any groups, runs, captures, changes of the source and failures.
`FlowTypeCorrect`: types, what a run has left to do (`StepsLeft`), what a push may use is
not empty (`SourcesThere`), and what the rules and references of the target name is
there (`Resolved`), which is what the pushes refuse or fail on.

`PhasesAreUndone` (`PhasesUndo`). `c` and `d2a` share folders, a phase writes several of
them, and a baseline says nothing of the others: no single folder's stack gives the
property. The strengthening, `LinkInv`, reads the folders together as one stack in the
order the baselines were taken: each says what its folder's objects were in the target
before it, and from there to the next (or to the present target) nothing else changed
(`Between`), with the revert of a merged folder restricted to what the push recorded.
Then using the newest of all gives back exactly the target before it, although a
revert decides object by object (`RevertReturns`), and with none left the target is
the initial one. `OrderInv` adds that, unless a phase broke off, the stack is the
phases applied, each with all of its steps, the one under way with those it has done:
a rollback in turn finds its baseline, and using the last of its first step ends the
phase. Together with `FlowInv` and `~stuck` that is inductive; a run with a failure is
out of `OrderInv` (`messy`), not of `LinkInv`, which is why `PhasesUndo` still speaks
of it as long as every baseline is used in turn.

`CapturedIsApplied` (`AppliedIsCaptured`) needs two histories of the target: `SoundInv`,
that a capture, a bundle of `c`, a sibling and every baseline of siblings have only
addresses of captures that ended well (the baselines, since a rollback brings their
content back), and `FreshInv`, that since the last rollback, failure, capture or
bundle what each finished step pushed is still what the capture, the exports and the
map say; that holds at the end of a phase because it held step by step (`Did`), no
later step of the phase taking back what an earlier one wrote.

*`PayloadPush`.* `PayloadToolsKeepPromises` (`PayloadPromises`), for any objects, contents,
bundles, edits and failures. Each tool promises something of the whole target when
it ends; the invariant says it of what the tool is through with:

- `PushInv`: what is neither left to write, noted as failed or skipped, nor written
  by others has the pushed content;
- `CompleteInv`: what a rollback has deleted or is going to was not in a whole
  baseline; of each class it has listed, what the baseline lacks is deleted, still to be
  deleted, or noted; and as long as nothing was deleted, what was refused is in use;
- `GroupsInv`: a group of the baseline has its addresses back, or is still to be looked
  at and as it was listed.

That a rollback which deleted nothing is stopped by an object that stays is a fact about
naming: among what is left there is one thing that nothing else left names
(`NamingAssumption`: NSX lets nothing name itself in a circle). The other named
assumption, that a policy's directory is no object's id (`DirectoryAssumption`; the
name ends in a digest), is what makes `_discover_policy_ids`, which takes directories
for ids, harmless to groups and services. `PayloadTypeCorrect` comes with it.


**`HitClientProofs`.** *`HitHistory`.* About one rule, for every period, any readings, resets and
re-creations. `UnusedRulesAreUnhit` (`UnusedIsUnhit`) rests on `PresentInv`: a reading
of the present epoch is no higher than the total, and one that equals it is no older
than the last hit; also for a total that was read but is still to be saved, which is
why a reading that equals the total and was begun before a hit is impossible. When
each return to 0 shows as a drop, what `no_hit_since` keeps after the last drop is of
the present epoch (`PresentReading`), so the reading it returns bounds the last hit.
`QuietRulesQualify` (`QuietRuleQualifies`) goes the other way and needs `RisingInv`:
with no reset and no missed row the readings never fall, and one begun after another
was saved that is itself later than the last hit has the present total. That the
CHOOSE of `Start` and of `Reached` pick what they should (`StartIsLastDrop`,
`ReachedIsFirst`) follows from the library's theorem on well-founded relations
(`LeastExists`, `GreatestExists`). `TypeCorrect` comes with them; its invariant adds
that readings are in order of time and none is of the future.

*`NsxClient`.* For any threads, objects, repetitions, rate and faults.
`ClientTypeCorrect`: types, a thread that is not done has a call of its tool to make
(`JobsSound`), and what a collection held all the time is in it, what is in it it held
at some time (`HeldBetween`).
`RequestsArePaced` (`RequestsPaced`) counts requests, not their order: `last` is at least
the interval times the number of turns given (`TurnsKept`), and since any request
that was sent, either no more turns were given than there are threads, or `last` has
moved on by an interval for each of the others (`SinceEach`); the threads are those
that had their turn before it and had not sent yet.
`WholeAnswers` (`AnswersAreWhole`) has one invariant per kind of tool:

- `MainReads`, for membership and the additive build: a collection the files are made of
  is still in the plan, has been read whole, or is of a group given up
  (`Accounted`); the pages read so far hold all that was there all the time up to the
  cursor and nothing that never was. Repeating a call starts again from the first page;
- `WipeTells`: an object is in the plan of one thread, put down as failed, or deleted; it is
  deleted and not told so only if an answer was lost;
- `AmendTells`: the revision to be written is the one read, or the PUT is refused.

One listing of NSX, a page of which is taken at a moment of its own, is neither the first nor
the last state of the collection; that is why the theorem speaks of what was there
all the time and of what ever was.

**`PushMergeProofs`.** `BaselinesUndo`: `AreUndoStacks`, both refinements of
`UndoStack` at once, for any groups, rules, members, policies, sibling map and bundles.
It is the harder of the two refinements, since a revert of `groups.py` restores and
deletes only what the companion file of its push names, while the undo stack promises
every object of the baseline. The inductive invariant `IInv` has six parts:

- `TypeOK`; `BaselinesInv`: what a companion file names was written by that push and is
  of that tool, and a written object that the listing hid is lost;
- `JobInv`: a running tool has its newest baseline under it, a push works on what its
  files hold, a revert deletes only what the companion file names and the baseline
  does not hold;
- `WaitingInv`: what a push still has to do is as its baseline says, but for what
  others wrote, what was lost, and what was hidden;
- `RecordedInv`: an object that differs from what a baseline says, in a later baseline
  or now, is named by a companion file since then, or is just about to be. For groups
  this holds of every object, for rules of those the baseline did not have
  (`rules.py` notes only what it created, and restores the rest from the whole
  baseline). It is a statement about the stack and not only its top, since the
  baseline below becomes the newest when the top is reverted;
- `PlanInv`: a revert none of whose calls failed still has to do every object that
  differs from its baseline and is not loose.

`PlanInv` holds when a revert begins because of `RecordedInv`, and is what makes the
renaming of the baseline a `TakeOff` of the undo stack. TLC checked `IInv` on the instance
of `push_merge` (1 154 936 states) before it was proved. `RevertedMeansRestored` combines the
refinements with `StackUndoes`. `PushesTakeNothing` (`TakesNothing`) follows from
`WaitingInv`: what the payload keeps of the baseline is what the object still has; and
`RevertsDeleteOnlyCreated` (`DeletesOnlyCreated`: what its push wrote and was not there,
or a rule of a policy that could not be listed) from `JobInv` and `BaselinesInv`.
`TypeCorrect` comes with them.

**`RunFoldersProofs`.** Three modules that have nothing in common but that later runs
find what earlier ones left in folders.

*`Bundles`.* `ReportsFindWhole` (`SnapshotsKept`), for any number of runs and of
bundles to keep. `BundleInv`: the run that links or prunes has a whole bundle, which is
never a victim; while `latest` is gone its bundle is the newest whole one; and
nothing a report can be served later is older than what one was served (`Kept`).

*`ToolkitWeb`.* Nothing is locked. `CacheIsSound` (`CacheSound`): a pull that is not in
memory yet is nobody's label, so a request whose label is that of the memory has it
from that pull, and so has the cache. `SavedRunsTell` (`RunsTell`): `TellInv` says that
the memory holds the pull shown last, that what the cache and each request hold was
shown since the server started, and that a request reads a label after what it is a
label of; then the label is that pull or one shown later. `WebTypeCorrect` comes with them.

*`MigrationRequest`.* `ServersOnlyAsApproved` (`ServersAsApproved`), by `ServerInv`: what
an approval, a refresh that passed its gate, a manager *or a baseline* names was
approved; the last, because a rollback brings it back. `RollbackRestoresFirst`, the
first half of `RollbackUndoes`: `RollbackRestores` alone is not inductive. `RestoreInv`
adds, for as long as phases were rolled back newest first (`~disorder`), that

- the oldest baseline of each object has its first marks (`FirstKept`). Runs and
  phases have stacks of their own for the same object (a4 and c5 write the same
  rules), so "oldest" goes over all of them, by the time they were saved;
- what the revert of a baseline leaves alone, since its push made nothing, is gone by
  then: the next newer baseline of the object says so, or the manager (`LeftKept`);
- a policy that was there at first is always there and in all its baselines
  (`PolicyKept`): its deletion takes its rules, which have no baseline of that;
- what a rollback under way will take off is newer than everything on its manager
  but its own phase (`NewestLeft`), whose tools write different objects (`OneWriter`), so
  it is the newest of its object (`LastIsNewest`).

TLC checked these as invariants before. The other half of `RollbackUndoes`,
`RollbackStopsOnlyAfterStop`, stays with TLC: it says when NSX refuses a call of a rollback, and
needs of every moment in the past that its references resolved, also in phases
that were left half done. `MigrationTypeCorrect` comes with them.

Only model-checked: everything about the other modules, liveness
(`RevertsFinish`: the prover does not reason about fairness),
`PushLands` of `PushRevert`, `RollbackStopsOnlyAfterStop` (above), what the critical rules copy
copies (`CopyIsExact`), and the functions, many of which follow chains of nesting
(what a recursive definition computes for every input is out of the prover's
reach).

## 7. Where code and documentation differ

Found while modelling. The models say what the code does, so that each of these
is a behaviour of them, and the properties are stated so as to leave it out by
name. Four are shown by a run that ends in a counterexample, named below. Paths are
under `src/`.

*Rule cleanup.* Step 1 reads all counters once before its loop
(`step1_disable.py:199`), not "right before each write"
(`RUNBOOK_RULE_CLEANUP.md:222`). A DELETE whose answer is lost takes its object
out of `deleted.json` (`step2_delete.py:172`), so that the undo never restores
it. The rules of a policy are listed (`step2_delete.py:227`) before the prompt and the
DELETE (234), which has no revision: one created meanwhile goes with the policy,
unreviewed and unrecorded, against "every rule in it is on the DELETE list"
(`step2_delete.py:29-32`, `RUNBOOK_RULE_CLEANUP.md:267-268`; run `rule_delete_unlisted`). In
the same way a rule of the plan that is enabled or edited between its check
(`step2_delete.py:203`) and its DELETE goes. A rule "whose counters moved" is kept
(`plan_step2`) only if a reading shows it: a row that both statistics calls left out
or failed to get (`rule_cleanup.py:217-234`), and counters that were set back to 0
(364-369), count as not moved. A reset between two snapshots is unseen when the
total is not lower at the second (`rule_cleanup.py:327`). A PUT of step 1 whose
answer is lost leaves a rule off that no record lists (at most one per fault); a
counter row missing from a snapshot reads as 0 hits.

*Push and revert.* `services.py:756` and `policies.py:717` delete whatever the
baseline does not hold, not "what the push created" (`revert_plan.py:3`). A
service or policy that waits for the retry is written without
`--description-note` (`services.py:600`, `policies.py:578`; run `push_revert_note`). A policy whose
rules cannot be listed is left out of the baseline (`rules.py:318`): its rules
then count as created, and the revert deletes them (against `rules.py:339`).
`rules.py:1081` calls a revert complete although deletions were blocked. An
export without `--output-dir` clears `nsx_*_export/<host>` first, reports and
baselines included, and `groups.py:1844` does so for each domain of
`--all-domains` ("each fully isolated"). `ensure_ip_expression` looks at the
first address expression only; `groups.py:659` speaks of dropping orphaned
operators and drops none.

*Tags.* `push_hostname_tags.py:569` posts back the list it read at the
beginning: a tag somebody added meanwhile is lost, against "NEVER removes any
pre-existing tag" (lines 10 and 16). The manifest of the group tags is written
only at the end (`sync_group_label_tags.py:414`).

*Bundles.* Runs that must not move `latest` prune all the same
(`plan_multisite.py:341`); `find_bundle` falls back to the newest directory even
when its capture failed or is still being written (`bundles.py:103`); only `plan_multisite.py:411` calls it. Captures of one host that overlap can
prune the only complete bundle or move `latest` back; the runs assume the
scheduler starts one at a time.

*Critical rules.* After a push that stopped among the hit rules and a rerun with
`--allow-non-empty`, the rerun's baseline of the first rules tool holds the hit
rules; `revert.py` undoes all hit tools first, and `rules.py:961` then writes
rules into policies that are gone: the revert never completes, against "one run
of --apply returns the target to empty" (`docs/nsx/RUNBOOK_CRITICAL_RULES.md:170-172`,
`revert.py:7-12`; run `revert_empties`). On a target that
had the policy at first it completes, reports success, and the hit rules stay. Nested
groups and services are deleted in listing order, so that one run does not
suffice. A push killed between a baseline and its companion file makes
`revert.py` refuse for good. The name of the target is resolved anew by every
tool, but checked once. The comparison looks at ids only.

*Migration request.* A phase that was applied or rolled back in part leaves its
tools with different numbers of baselines; the rollback ends at the first
without one (`migration_request.py:916`). The approval compares a stored digest
(733); approvals given with `--accept-errors` are still refused by the refresh
(751); the manifest of the palo phase is written only at its end
(`nsx_pan_mirror.py:837`); old runs whose gate had passed stay applicable; d3
amends rules of excluded categories too (286).

*VM rules.* A group no rule named is cached without members (`vm_rule_data.py:229`),
so that for the life of the cache a rule that now names it is missed (against
line 83); of two VMs of one name the last is found (`report_vms_in_rules.py:221`);
captured rule and group files that cannot be read are skipped with a warning,
and no error is kept (635-685).

*Workflow.* `build_sibling_groups` that refuses returns 1 with the map written,
and the next `--apply` uses the partial bundle, against "pushes exactly what its
dry run previewed" (`run_workflow.py:457`). C and D share the sibling folder of
one run (377-396). Phase a checks the capture, but pushes the flat exports
(440-447); an export whose source does not answer leaves an empty directory,
which passes. A phase that was applied in part cannot be rolled back without
`--continue-on-error`, or takes older baselines; verification looks at the
entries of the map only.

*Whole bundle.* `push_complete_nsx_revert.py:159` takes policy ids from the names
of directories, while `nsx_object_exporter.py:240` writes names with a hash: every
policy of the target that is not NSX's own counts as pushed and is deleted. Services
are looked for under `domains/default` only (165-181). A group snapshot that cannot be
parsed counts as missing, and the group is deleted. What was overwritten is not
restored by it, its exit code is 0 with failed deletions, and its docstring
names an option, `--include-shared-policy-rules`, that does not exist.
`push_from_capture.py` goes on after a failed baseline, and every run of it, a
dry run too, replaces the baseline of the run before. `push_nsx_groups_revert.py:639`
compares addresses only, restores in the order of ids, and only logs errors.
`push_complete_nsx_payload.py` has no retry rounds. `transform_group_segments
--mode convert` with an empty index strips silently (426, 644).

*Panorama policy tools.* The default rule between equal zones admits every unmatched
flow when the zones are "any", and the one between different zones is never
reached (`check_policy_match.py:466-482`, against 467-470 and
`RUNBOOK_PAN_PROD.md:371`: `FlowSearchAgrees` compares the tools where a rule matches); `application-default` counts only after a last
service that resolves to nothing (729). "The first entry is what the firewall
would actually apply" (`pan_ip_rules.py:299`) is not so: disabled rules are
listed, zones and negation ignored, rules of parent device groups and names they
override taken another way, and `service-http` is 80 and 8080 there, 80
in `check_policy_match.py:605`; the two are compared on rules without any of these. The specific buckets that "outrank aggregates" may be
cut off by the count of rules (`pan_dg_subnets.py:226-258`). The last firewall of
a device group replaces the others (`ssdd_toolkit_web.py:720`).

*Panorama mirror.* Left-out members of a negated side make a rule wider, against
`pan_rules.py:22-24` and `docs/multivendor/STATUS.md:157` (518, 560-563; run
`panorama_negated`). A rule whose services are all given inline is mirrored as one for any
service (522-528). A
second rule that names a narrowed group is not reported (472-480). Nested groups
that are NSX's own or empty are named but not created (`pan_mirror.py:222`,
270-276). A VM listed by id contributes only its first address object (341).
Names that clean to one Panorama name merge silently, groups and services of one
display name replace each other (`pan_rules.py:431`, 471), and so does a third rule of one
name (435-440). An object that exists with another content stays (`exists_differs`, exit 0).

*IP remap.* `nsx_group_remap.py:335` fails on a map with rows of both IP
versions; a host is mapped to "y/32", so that "y" is not seen as there; a range
whose ends share a row is mapped whole although a longer row lies inside, and so
is a network that contains a more specific row. With a new subnet of another length,
one tool maps to the whole new subnet and the other keeps the length. The
aggregate key of `pan_group_remap.py:437-452` has no scope: an object of one
device group is proposed for others. `ip_remap.py` keeps the last object of an
address, so rules naming an earlier one are not updated. `_flatten_already_remapped`
(`ssdd_toolkit_web.py:353`) reads "name" where the report has "group" or "rule".

*XML remap.* `pa_xml_zone-orig.py` fails (unbound name) for a host row whose host
is nowhere but in a network, and it and `pa_xml_zone.py` for a row from a host to a
network (`int(None)`); they add a zone next to "any". In the optimized versions, a
device group's rule naming an updated *shared* group gets no zone, and an object
of a device group replaces one of its name everywhere.

*Web.* `dg_subnet_profiles` (`ssdd_toolkit_web.py:868`) reads the cache once more
after building, so a slower thread's older profiles (or an error 500) can be
returned; a search may be labelled with a newer pull than it searched (264,
513); two pulls at once can leave memory and `web_snapshot.json` different; two
runs of one kind in one second share a file; "clear all" may remove a run that
is being written. What `CacheSound` and `RunsTell` promise holds in all of these.

## 8. What is not modelled

- *Data*: JSON, YAML and XML layout, names, paths, report formatting, logging. A
  configuration, a reference set or a note is a member of a small set. Where a
  conversion of names matters (what Panorama makes of them, hashed directory
  names) it is a function given by the instance, and not assumed one to one.
- *Within modelled components*: `--limit`, `--only` and similar selections are
  covered by the free choice of what a plan lists; dry runs write nothing and
  are left out where nothing else changes; the batch size is left out, so that a
  tool may stop at any prompt; NSX's merging of a PATCH (fields absent from the
  payload stay) is taken as replacement, so that what `AllUndone` says of a
  restored service is meant up to such fields; two pushes within one second,
  whose baselines would share a file name, do not happen.
- *Composition*: the tools inside a workflow, a migration request or the critical
  rules copy are single writes; their inner steps are checked on their own. A
  composition of all would be of the size of the product.
- *Simplified steps*: `migration_request.py` builds a request from two captures taken
  one after the other (194-208), which `MigrationRequest` takes in one step: what it is
  checked for, that only approved servers are applied, depends on the digest of what
  was written down, whatever moments it is from. `rules.py` decides field by field whether ANY
  keeps or replaces what the target has (144); `PushMerge.KeptRefs` has one field. A
  report looks its bundle up and resolves `latest` twice (`Bundles.Open`); the third
  look, for the label in its title, is left out. In `RuleDisable` nobody
  but a tool's PUT creates a deleted rule again: one that somebody else created, at the
  `_revision` a tool had read, would pass for the old one. In
  `MigrationRequest` the objects of the palo phase and the tags of the servers
  are carried along, but no property compares them by themselves.
- *Starts*: step 2 and its undo, and the tools of one migration, workflow or
  critical rules folder, are started one after the other; only step 1 and its undo may
  overlap.
- *In components marked `partly`*: what the note in `PROJECT.json` names: mostly
  workbooks, pages, listings that differ only in their paths, and `segments.py`,
  whose push follows `services.py`.
- *Not at all*: the other reports, which only read and format; archived tools,
  lab wiping and installation; vendored XML and test data.
