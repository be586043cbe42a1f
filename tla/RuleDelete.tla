----------------------------- MODULE RuleDelete -----------------------------
(***************************************************************************)
(* Unused-rule cleanup, step 2, after the soak period: step2_delete.py     *)
(* plans (read only) and, with --apply, deletes the rules step 1 disabled, *)
(* then every policy left empty, then every group nothing references.     *)
(* Each object goes to deleted.json just before its DELETE;               *)
(* step2_undo.py --apply puts back what deleted.json lists.               *)
(*                                                                         *)
(* One tool works on the run folder at a time; other people write to the  *)
(* manager between any two calls of a tool.  A call may be refused, fail, *)
(* or take effect and be reported as failed; a tool may be killed.  The   *)
(* counters of a rule may be reset, and a reading of them may lack rows.  *)
(*                                                                         *)
(* A rule's configuration, `disabled` left out, is one value of Bodies and *)
(* FirstBody the one step 1 left behind.  Policies and groups keep the     *)
(* configuration they have.                                                *)
(***************************************************************************)
EXTENDS Naturals, Sequences, FiniteSets, SequencesExt

CONSTANTS Rules, Policies, Groups, Bodies, FirstBody, None,
          PolicyOf,         \* the policy of each rule
          RefsOf,           \* the groups a rule names, by rule and configuration
          AppliedTo,        \* the groups a policy names
          Nests,            \* the groups a group nests
          SystemPolicies, SystemGroups,     \* NSX's own
          Bounds            \* bounds: how many writes by other people, lost or failed calls
                            \* and crashes, and starts of an apply or an undo go together

ASSUME ObjectsAssumption ==
    /\ Rules \cap Policies = {} /\ Rules \cap Groups = {} /\ Policies \cap Groups = {}
    /\ None \notin Rules \cup Policies \cup Groups
    /\ IsFiniteSet(Groups)
ASSUME ConfigurationAssumption ==
    /\ FirstBody \in Bodies
    /\ PolicyOf \in [Rules -> Policies]
    /\ RefsOf \in [Rules -> [Bodies -> SUBSET Groups]]
    /\ AppliedTo \in [Policies -> SUBSET Groups]
    /\ Nests \in [Groups -> SUBSET Groups]
    /\ SystemPolicies \subseteq Policies /\ SystemGroups \subseteq Groups
ASSUME BoundsAssumption == Bounds \subseteq [edits: Nat, faults: Nat, starts: Nat]

VARIABLES
    (* the manager *)
    live, policies, groups,
    consumers,      \* groups named by anything else: gateway policies, load balancers ...
    moved,          \* rules whose counters show traffic since step 1 recorded them
    (* the run folder *)
    candidates,     \* step1/disabled.json: the rules step 1 disabled, minus the re-enabled
    approved,       \* step2/plan.json
    deletedJson,    \* step2/deleted.json
    (* the two tools *)
    de,             \* step2_delete.py --apply
    ud,             \* step2_undo.py --apply
    (* history, no code reads it *)
    before,         \* what was on the manager at first
    seen,           \* rules with traffic in the reading of the plan, and of the last apply
    gone,           \* objects a DELETE of the tool removed and nobody re-created since
    lost,           \* objects whose DELETE took effect but was reported as failed
    late,           \* rules created in a policy while step2_delete has it in hand
    edits, faults, starts

mgrVars  == <<live, policies, groups, consumers, moved>>
runVars  == <<candidates, approved, deletedJson>>
histVars == <<before, seen, gone, lost, late>>
vars == <<live, policies, groups, consumers, moved, candidates, approved, deletedJson,
          de, ud, before, seen, gone, lost, late, edits, faults, starts>>

Objects == Rules \cup Policies \cup Groups
LiveRule == [there: BOOLEAN, body: Bodies, disabled: BOOLEAN]
Plans == [made: BOOLEAN, rules: SUBSET Rules, policies: SUBSET Policies, groups: SUBSET Groups]

\* An object in deleted.json: body is the saved configuration of a rule.
Entry == [obj: Objects, body: Bodies, restored: BOOLEAN]

\* step2_delete at work: next = top of the loop of its phase, ask = object cur
\* checked and about to be saved, delete = saved and about to be deleted.  ok
\* are the candidates the re-read at the start of the apply lets go.
Deleter == [pc: {"idle", "next", "ask", "delete"}, phase: {"rules", "policies", "groups"},
            left: SUBSET Objects, ok: SUBSET Rules, cur: Objects \cup {None},
            body: Bodies, wrote: BOOLEAN]

\* step2_undo at work: left are the positions in deleted.json still to restore,
\* ask = the object of position cur is not on the manager and about to be created.
Undoer == [pc: {"idle", "next", "ask"}, left: SUBSET Nat, cur: Nat, wrote: BOOLEAN]

NoDelete == [pc |-> "idle", phase |-> "rules", left |-> {}, ok |-> {}, cur |-> None,
             body |-> FirstBody, wrote |-> FALSE]
NoUndo == [pc |-> "idle", left |-> {}, cur |-> 0, wrote |-> FALSE]

Idle == de.pc = "idle" /\ ud.pc = "idle"

TypeOK ==
    /\ live \in [Rules -> LiveRule]
    /\ policies \subseteq Policies /\ groups \subseteq Groups /\ consumers \subseteq Groups
    /\ moved \subseteq Rules /\ candidates \subseteq Rules
    /\ approved \in Plans
    /\ deletedJson \in Seq(Entry)
    /\ de \in Deleter
    /\ ud \in Undoer /\ ud.left \subseteq DOMAIN deletedJson
    /\ seen \in [plan: SUBSET Rules, start: SUBSET Rules]
    /\ gone \subseteq Objects /\ lost \subseteq Objects /\ late \subseteq Rules
    /\ edits \in Nat /\ faults \in Nat /\ starts \in Nat

-----------------------------------------------------------------------------
(* What is on the manager, and who refers to whom                           *)

PresentRules == {r \in Rules : live[r].there}
Present == PresentRules \cup policies \cup groups
Refs(r) == RefsOf[r][live[r].body]
RulesIn(p) == {r \in PresentRules : PolicyOf[r] = p}

\* NSX refuses to delete a group that anything still names.
Referenced(g) ==
    \/ g \in consumers
    \/ \E r \in PresentRules : g \in Refs(r)
    \/ \E p \in policies : g \in AppliedTo[p]
    \/ \E h \in groups \ {g} : g \in Nests[h]

-----------------------------------------------------------------------------
(* plan_step2: what can go, from live state and a set of candidates         *)

\* The rules whose counters a reading shows to have moved: those that moved, were
\* not set back to 0 since, and are in a row NSX answers with (missing: no row, as
\* both statistics calls failed or left the rule out).
Shown(missing) == {r \in moved : live[r].there /\ r \notin missing}

RulesToDelete(c, shown) ==
    {r \in c : /\ live[r].there /\ live[r].disabled
               /\ live[r].body = FirstBody
               /\ r \notin shown}

\* del: the rules that go.
PoliciesToDelete(del) ==
    {p \in policies \ SystemPolicies : RulesIn(p) \subseteq del}

Roots(del) ==
    consumers
    \cup (UNION {AppliedTo[p] : p \in policies \ PoliciesToDelete(del)})
    \cup (UNION {Refs(r) : r \in PresentRules \ del})
    \cup (UNION {Nests[g] : g \in groups \cap SystemGroups})

\* The groups reachable from roots: in every set that holds the roots and what
\* its groups nest.
Closure(roots) ==
    {g \in Groups : \A s \in SUBSET Groups :
        roots \subseteq s /\ (\A h \in s \cap groups : Nests[h] \subseteq s) => g \in s}

GroupsToDelete(del) == (groups \ SystemGroups) \ Closure(Roots(del))

\* Mutant: the groups in any order.
AnyOrder(left) == left

\* The group parents_first puts next: one that no group still to go nests.
ParentsFirst(left) ==
    LET tops == {g \in left : \A h \in left \ {g} : g \notin Nests[h]}
    IN  IF tops # {} THEN tops ELSE left

-----------------------------------------------------------------------------
\* Step 1 has been applied: its rules are off and in disabled.json; traffic
\* just before it may have moved their counters.
Init ==
    /\ live \in [Rules -> [there: {TRUE}, body: {FirstBody}, disabled: BOOLEAN]
                          \cup [there: {FALSE}, body: {FirstBody}, disabled: {FALSE}]]
    /\ policies = Policies /\ groups = Groups
    /\ consumers \in SUBSET Groups
    /\ candidates \in SUBSET {r \in Rules : live[r].disabled}
    /\ moved \in SUBSET candidates
    /\ approved = [made |-> FALSE, rules |-> {}, policies |-> {}, groups |-> {}]
    /\ deletedJson = <<>>
    /\ de = NoDelete /\ ud = NoUndo
    /\ before = [live |-> live, policies |-> policies, groups |-> groups]
    /\ seen = [plan |-> {}, start |-> {}]
    /\ gone = {} /\ lost = {} /\ late = {}
    /\ edits = 0 /\ faults = 0 /\ starts = 0

Within(e, f, s) == \E b \in Bounds : e <= b.edits /\ f <= b.faults /\ s <= b.starts

Start == starts' = starts + 1 /\ Within(edits, faults, starts')
Fault == faults' = faults + 1 /\ Within(edits, faults', starts)

-----------------------------------------------------------------------------
(* step2_delete.py                                                          *)

Plan ==
    /\ Idle
    /\ \E missing \in SUBSET candidates :
           LET del == RulesToDelete(candidates, Shown(missing))
           IN  /\ approved' = [made |-> TRUE, rules |-> del, policies |-> PoliciesToDelete(del),
                               groups |-> GroupsToDelete(del)]
               /\ seen' = [plan |-> Shown(missing), start |-> {}]
    /\ UNCHANGED <<mgrVars, candidates, deletedJson, de, ud, before, gone, lost, late, edits, faults, starts>>

\* Mutant: the plan is carried out as it was made.
DeleteStartUnread ==
    /\ Idle /\ approved.made
    /\ \E missing \in SUBSET candidates :
           /\ de' = [NoDelete EXCEPT !.pc = "next", !.left = approved.rules,
                                     !.ok = RulesToDelete(candidates, {})]
           /\ seen' = [seen EXCEPT !.start = Shown(missing)]
    /\ Start
    /\ UNCHANGED <<mgrVars, runVars, ud, before, gone, lost, late, edits, faults>>

DeleteStart ==
    /\ Idle /\ approved.made
    /\ \E missing \in SUBSET candidates :
           /\ de' = [NoDelete EXCEPT !.pc = "next", !.left = approved.rules,
                                     !.ok = RulesToDelete(candidates, Shown(missing))]
           /\ seen' = [seen EXCEPT !.start = Shown(missing)]
    /\ Start
    /\ UNCHANGED <<mgrVars, runVars, ud, before, gone, lost, late, edits, faults>>

On(o) == [de EXCEPT !.pc = "next", !.left = @ \ {o}, !.cur = None, !.body = FirstBody]

InPhase(phase, o) == de.pc = "next" /\ de.phase = phase /\ o \in de.left

Ask(o, body) == de' = [de EXCEPT !.pc = "ask", !.cur = o, !.body = body]

MayDelete(r) ==
    /\ live[r].there /\ r \in de.ok
    /\ live[r].disabled /\ live[r].body = FirstBody

RuleSkip(r) ==
    /\ InPhase("rules", r) /\ ~MayDelete(r)
    /\ de' = On(r)
    /\ UNCHANGED <<mgrVars, runVars, ud, histVars, edits, faults, starts>>

RuleRead(r) ==
    /\ InPhase("rules", r) /\ MayDelete(r)
    /\ Ask(r, live[r].body)
    /\ UNCHANGED <<mgrVars, runVars, ud, histVars, edits, faults, starts>>

\* The policies are listed once; those that are gone by then are skipped.
RulesDone ==
    /\ de.pc = "next" /\ de.phase = "rules" /\ de.left = {}
    /\ de' = [de EXCEPT !.phase = "policies", !.left = approved.policies \cap policies]
    /\ UNCHANGED <<mgrVars, runVars, ud, histVars, edits, faults, starts>>

PolicySkip(p) ==
    /\ InPhase("policies", p) /\ p \in policies
    /\ RulesIn(p) # {}
    /\ de' = On(p)
    /\ UNCHANGED <<mgrVars, runVars, ud, histVars, edits, faults, starts>>

PolicyRead(p) ==
    /\ InPhase("policies", p) /\ p \in policies
    /\ RulesIn(p) = {}
    /\ Ask(p, FirstBody)
    /\ UNCHANGED <<mgrVars, runVars, ud, histVars, edits, faults, starts>>

\* Reading a policy that vanished since the listing ends the tool.
PolicyVanished(p) ==
    /\ InPhase("policies", p) /\ p \notin policies
    /\ de' = NoDelete
    /\ UNCHANGED <<mgrVars, runVars, ud, histVars, edits, faults, starts>>

\* Mutant: every group that is unused now, reviewed or not.
UnusedNow == GroupsToDelete({})

\* The groups that are unused now, no candidate counting as deleted any more.
GroupsToGo == approved.groups \cap GroupsToDelete({})

PoliciesDone ==
    /\ de.pc = "next" /\ de.phase = "policies" /\ de.left = {}
    /\ de' = [de EXCEPT !.phase = "groups", !.left = GroupsToGo]
    /\ UNCHANGED <<mgrVars, runVars, ud, histVars, edits, faults, starts>>

GroupSkip(g) ==
    /\ InPhase("groups", g) /\ g \in ParentsFirst(de.left)
    /\ g \notin groups
    /\ de' = On(g)
    /\ UNCHANGED <<mgrVars, runVars, ud, histVars, edits, faults, starts>>

GroupRead(g) ==
    /\ InPhase("groups", g) /\ g \in ParentsFirst(de.left)
    /\ g \in groups
    /\ Ask(g, FirstBody)
    /\ UNCHANGED <<mgrVars, runVars, ud, histVars, edits, faults, starts>>

DeleteFinish ==
    /\ de.pc = "next" /\ de.phase = "groups" /\ de.left = {}
    /\ de' = NoDelete
    /\ UNCHANGED <<mgrVars, runVars, ud, histVars, edits, faults, starts>>

\* The operator answers x; the batch asks only once something was written.
DeleteStop ==
    /\ de.pc = "ask" /\ de.wrote
    /\ de' = NoDelete
    /\ UNCHANGED <<mgrVars, runVars, ud, histVars, edits, faults, starts>>

\* Mutant: the object is not recorded before its DELETE.
SavedLater(o, body) == deletedJson

Saved(o, body) == Append(deletedJson, [obj |-> o, body |-> body, restored |-> FALSE])

DeleteSave ==
    /\ de.pc = "ask"
    /\ deletedJson' = Saved(de.cur, de.body)
    /\ de' = [de EXCEPT !.pc = "delete"]
    /\ UNCHANGED <<mgrVars, candidates, approved, ud, histVars, edits, faults, starts>>

\* Take the object out of deleted.json again.
Unsave == deletedJson' = Front(deletedJson)

NsxDeletes(o) == o \in Present /\ (o \in Groups => ~Referenced(o))

\* Deleting a policy deletes the rules in it; a rule created again counts from 0.
RemovedWith(o) == {o} \cup (IF o \in Policies THEN RulesIn(o) ELSE {})

Removed(o) ==
    /\ live' = [r \in Rules |-> IF r \in RemovedWith(o)
                                THEN [live[r] EXCEPT !.there = FALSE, !.disabled = FALSE]
                                ELSE live[r]]
    /\ policies' = policies \ {o}
    /\ groups' = groups \ {o}
    /\ moved' = moved \ RemovedWith(o)

DeleteCall ==
    /\ de.pc = "delete" /\ NsxDeletes(de.cur)
    /\ Removed(de.cur)
    /\ gone' = gone \cup RemovedWith(de.cur)
    /\ late' = late \ {de.cur}
    /\ de' = [On(de.cur) EXCEPT !.wrote = TRUE]
    /\ UNCHANGED <<consumers, runVars, ud, before, seen, lost, edits, faults, starts>>

\* A group that is still referenced is kept and the loop goes on.
DeleteRefused ==
    /\ de.pc = "delete"
    /\ de.cur \in groups /\ Referenced(de.cur)
    /\ Unsave
    /\ de' = On(de.cur)
    /\ UNCHANGED <<mgrVars, candidates, approved, ud, histVars, edits, faults, starts>>

\* Any other error ends the apply.
DeleteMissing ==
    /\ de.pc = "delete" /\ de.cur \notin Present
    /\ Unsave
    /\ de' = NoDelete
    /\ UNCHANGED <<mgrVars, candidates, approved, ud, histVars, edits, faults, starts>>

DeleteFails ==
    /\ de.pc = "delete"
    /\ Fault
    /\ Unsave
    /\ de' = NoDelete
    /\ UNCHANGED <<mgrVars, candidates, approved, ud, histVars, edits, starts>>

\* The DELETE takes effect, its answer is lost.
DeleteLost ==
    /\ de.pc = "delete" /\ NsxDeletes(de.cur)
    /\ Fault
    /\ Removed(de.cur)
    /\ gone' = gone \cup RemovedWith(de.cur)
    /\ lost' = lost \cup {de.cur}
    /\ late' = late \ {de.cur}
    /\ Unsave
    /\ de' = NoDelete
    /\ UNCHANGED <<consumers, candidates, approved, ud, before, seen, edits, starts>>

\* A read fails, or the process is killed.
DeleteDies ==
    /\ de.pc # "idle"
    /\ Fault
    /\ de' = NoDelete
    /\ UNCHANGED <<mgrVars, runVars, ud, histVars, edits, starts>>

-----------------------------------------------------------------------------
(* step2_undo.py --apply                                                    *)

Pending == {i \in DOMAIN deletedJson : ~deletedJson[i].restored}

\* The order of restore_order: groups in the reverse of their delete order, then
\* policies, then rules.  Their order among rules (policy, sequence number) does
\* not matter to any reference.
RestoredBefore(i, j) ==
    LET a == deletedJson[i].obj  b == deletedJson[j].obj
    IN  \/ a \in Groups /\ (b \in Groups => i > j)
        \/ a \in Policies /\ b \notin Groups /\ (b \in Policies => i < j)
        \/ a \in Rules /\ b \in Rules
RestoreFirst(left) == {i \in left : \A j \in left \ {i} : RestoredBefore(i, j)}

UndoStart ==
    /\ Idle /\ Pending # {}
    /\ ud' = [NoUndo EXCEPT !.pc = "next", !.left = Pending]
    /\ Start
    /\ UNCHANGED <<mgrVars, runVars, de, histVars, edits, faults>>

UndoNext(i) == [ud EXCEPT !.pc = "next", !.left = @ \ {i}, !.cur = 0]

UndoSkip(i) ==
    /\ ud.pc = "next" /\ i \in RestoreFirst(ud.left) /\ deletedJson[i].obj \in Present
    /\ ud' = UndoNext(i)
    /\ UNCHANGED <<mgrVars, runVars, de, histVars, edits, faults, starts>>

UndoRead(i) ==
    /\ ud.pc = "next" /\ i \in RestoreFirst(ud.left) /\ deletedJson[i].obj \notin Present
    /\ ud' = [ud EXCEPT !.pc = "ask", !.cur = i]
    /\ UNCHANGED <<mgrVars, runVars, de, histVars, edits, faults, starts>>

Now == deletedJson[ud.cur]

UndoStop ==
    /\ ud.pc = "ask" /\ ud.wrote
    /\ ud' = NoUndo
    /\ UNCHANGED <<mgrVars, runVars, de, histVars, edits, faults, starts>>

\* What a saved object needs on the manager before NSX accepts it.
Resolves(e) ==
    CASE e.obj \in Rules    -> PolicyOf[e.obj] \in policies /\ RefsOf[e.obj][e.body] \subseteq groups
      [] e.obj \in Policies -> AppliedTo[e.obj] \subseteq groups
      [] e.obj \in Groups   -> Nests[e.obj] \subseteq groups

\* Mutant: the rule comes back with NSX's default, enabled.
CreatedEnabled(e) ==
    /\ live' = IF e.obj \in Rules
               THEN [live EXCEPT ![e.obj] = [there |-> TRUE, body |-> e.body, disabled |-> FALSE]]
               ELSE live
    /\ policies' = policies \cup ({e.obj} \cap Policies)
    /\ groups' = groups \cup ({e.obj} \cap Groups)
    /\ gone' = gone \ {e.obj}
    /\ lost' = lost \ {e.obj}
    /\ late' = late \ {e.obj}

\* create_payload: the saved object; a rule was off when it was saved.
Created(e) ==
    /\ live' = IF e.obj \in Rules
               THEN [live EXCEPT ![e.obj] = [there |-> TRUE, body |-> e.body, disabled |-> TRUE]]
               ELSE live
    /\ policies' = policies \cup ({e.obj} \cap Policies)
    /\ groups' = groups \cup ({e.obj} \cap Groups)
    /\ gone' = gone \ {e.obj}
    /\ lost' = lost \ {e.obj}
    /\ late' = late \ {e.obj}

UndoCreate ==
    /\ ud.pc = "ask" /\ Now.obj \notin Present /\ Resolves(Now)
    /\ Created(Now)
    /\ deletedJson' = [deletedJson EXCEPT ![ud.cur].restored = TRUE]
    /\ ud' = [UndoNext(ud.cur) EXCEPT !.wrote = TRUE]
    /\ UNCHANGED <<consumers, moved, candidates, approved, de, before, seen, edits, faults, starts>>

\* The undo stops at the first write that fails.
UndoRefused ==
    /\ ud.pc = "ask" /\ (Now.obj \in Present \/ ~Resolves(Now))
    /\ ud' = NoUndo
    /\ UNCHANGED <<mgrVars, runVars, de, histVars, edits, faults, starts>>

UndoFinish ==
    /\ ud.pc = "next" /\ ud.left = {}
    /\ ud' = NoUndo
    /\ UNCHANGED <<mgrVars, runVars, de, histVars, edits, faults, starts>>

\* Created, but the answer or the read after it is lost: not marked restored.
UndoLost ==
    /\ ud.pc = "ask" /\ Now.obj \notin Present /\ Resolves(Now)
    /\ Fault
    /\ Created(Now)
    /\ ud' = NoUndo
    /\ UNCHANGED <<consumers, moved, runVars, de, before, seen, edits, starts>>

UndoDies ==
    /\ ud.pc # "idle"
    /\ Fault
    /\ ud' = NoUndo
    /\ UNCHANGED <<mgrVars, runVars, de, histVars, edits, starts>>

-----------------------------------------------------------------------------
(* Everybody else                                                           *)

Edit == edits' = edits + 1 /\ Within(edits', faults, starts)

\* step1_undo.py re-enables a candidate, which takes it out of the candidates.
Step1Undo(r) ==
    /\ r \in candidates
    /\ live[r].there /\ live[r].disabled /\ live[r].body = FirstBody
    /\ Edit
    /\ live' = [live EXCEPT ![r].disabled = FALSE]
    /\ candidates' = candidates \ {r}
    /\ UNCHANGED <<policies, groups, consumers, moved, approved, deletedJson, de, ud, histVars, faults, starts>>

HasInHand(o) == de.pc \in {"ask", "delete"} /\ de.cur = o

\* Someone creates, edits, toggles or deletes a rule.
SomeoneChangesRule(r) ==
    /\ Edit
    /\ \E new \in LiveRule \ {live[r]} :
           /\ new.there => PolicyOf[r] \in policies /\ RefsOf[r][new.body] \subseteq groups
           /\ ~new.there => live[r].there /\ ~new.disabled /\ new.body = live[r].body
           /\ live' = [live EXCEPT ![r] = new]
           /\ moved' = IF live[r].there /\ new.there THEN moved ELSE moved \ {r}
           /\ late' = IF ~live[r].there /\ HasInHand(PolicyOf[r]) THEN late \cup {r}
                      ELSE IF live[r].there /\ new.there THEN late ELSE late \ {r}
    /\ gone' = gone \ {r} /\ lost' = lost \ {r}
    /\ UNCHANGED <<policies, groups, consumers, runVars, de, ud, before, seen, faults, starts>>

\* A new gateway rule, load balancer pool ... names a group.
SomeoneNames(g) ==
    /\ g \in groups \ consumers
    /\ Edit
    /\ consumers' = consumers \cup {g}
    /\ UNCHANGED <<live, policies, groups, moved, runVars, de, ud, histVars, faults, starts>>

SomeoneDeletes(o) ==
    /\ o \in (policies \ SystemPolicies) \cup (groups \ SystemGroups)
    /\ NsxDeletes(o)
    /\ Edit
    /\ Removed(o)
    /\ UNCHANGED <<consumers, runVars, de, ud, histVars, faults, starts>>

\* Someone sets the counters of a rule back to 0; the next traffic may move them again.
SomeoneResetsCounters(r) ==
    /\ r \in moved
    /\ Edit
    /\ moved' = moved \ {r}
    /\ UNCHANGED <<live, policies, groups, consumers, runVars, de, ud, histVars, faults, starts>>

Traffic(r) ==
    /\ live[r].there /\ ~live[r].disabled /\ r \in candidates \ moved
    /\ moved' = moved \cup {r}
    /\ UNCHANGED <<live, policies, groups, consumers, runVars, de, ud, histVars, edits, faults, starts>>

-----------------------------------------------------------------------------
DeleteStep ==
    \/ \E r \in Rules : RuleSkip(r) \/ RuleRead(r)
    \/ \E p \in Policies : PolicySkip(p) \/ PolicyRead(p) \/ PolicyVanished(p)
    \/ \E g \in Groups : GroupSkip(g) \/ GroupRead(g)
    \/ RulesDone \/ PoliciesDone \/ DeleteFinish
    \/ DeleteSave \/ DeleteCall \/ DeleteRefused \/ DeleteMissing

UndoStep ==
    \/ \E i \in DOMAIN deletedJson : UndoSkip(i) \/ UndoRead(i)
    \/ UndoCreate \/ UndoRefused \/ UndoFinish

Tools ==
    \/ Plan \/ DeleteStart \/ DeleteStep \/ DeleteStop
    \/ DeleteFails \/ DeleteLost \/ DeleteDies
    \/ UndoStart \/ UndoStep \/ UndoStop \/ UndoLost \/ UndoDies

Others ==
    \/ \E r \in Rules : Step1Undo(r) \/ SomeoneChangesRule(r) \/ SomeoneResetsCounters(r) \/ Traffic(r)
    \/ \E g \in Groups : SomeoneNames(g)
    \/ \E o \in Policies \cup Groups : SomeoneDeletes(o)

Next == Tools \/ Others

Spec == Init /\ [][Next]_vars

-----------------------------------------------------------------------------
(* What step 2 and its undo promise.                                        *)

PendingObjects == {deletedJson[i].obj : i \in Pending}

\* Everything the DELETEs removed and nobody put back is in deleted.json, still
\* to be restored, wherever the tool was stopped, killed or rerun; except for
\* what a lost answer took out of the record again, and the rules that were
\* created in a policy after its rules were listed and went with it.
DeletedIsRecorded == gone \subseteq PendingObjects \cup lost \cup late

\* Nothing goes that the reviewed plan does not list, although the groups are
\* planned afresh after the rules and policies are gone and others write all the
\* time; except for rules created in a policy between the listing of its rules
\* and its DELETE.
OnlyReviewedDeleted ==
    [][gone' \ gone \subseteq approved.rules \cup approved.policies \cup approved.groups
                              \cup {r \in late : PolicyOf[r] = de.cur}]_vars

\* What step2_delete.py:29-32 says: --apply deletes nothing the plan did not list,
\* a policy only when it has no rules.
DeletesNothingUnlisted ==
    [][gone' \ gone \subseteq approved.rules \cup approved.policies \cup approved.groups]_vars

\* As long as nobody else writes, NSX refuses to delete a group only over a
\* policy or a group that is unused too but stays, because the reviewed plan
\* does not list it: each group goes before the groups it nests.
DeletesInOrder ==
    edits = 0 /\ de.pc = "delete" /\ de.cur \in groups /\ Referenced(de.cur) =>
        de.cur \in Closure((UNION {AppliedTo[p] : p \in policies \ approved.policies})
                           \cup (UNION {Nests[g] : g \in groups \ approved.groups}))

\* As long as nobody else writes, NSX has no reason to refuse a re-creation:
\* each group comes back after the groups it nests, each policy after its
\* groups, each rule after its policy and its groups, also when an apply or an
\* undo was stopped or killed and run again.
RestoresInOrder == edits = 0 /\ lost = {} /\ ud.pc = "ask" => Resolves(Now)

\* Both orders of the record resolve every reference (rule_cleanup.py:457, 647).
OrdersResolve == DeletesInOrder /\ RestoresInOrder

\* As long as nobody else writes: when no tool runs and every object left in
\* deleted.json is back on the manager, the manager is what it was at first.
UndoRestores ==
    edits = 0 /\ lost = {} /\ Idle /\ PendingObjects \subseteq Present =>
        before = [live |-> live, policies |-> policies, groups |-> groups]

\* A rule that took traffic after step 1 recorded its counters goes only when
\* neither the reading of the plan nor that of the apply showed it: its row was
\* missing, its counters had been reset, or the traffic came later.  (A rule
\* created again in a policy about to be deleted is not that rule any more.)
HitRulesKept == [][(gone' \ gone) \cap (seen.plan \cup seen.start) \subseteq late]_vars
=============================================================================
