------------------------------ MODULE PushMerge ------------------------------
(***************************************************************************)
(* groups.py and rules.py: push --apply, revert --apply and amend-refs.    *)
(* Unlike services.py they add to what the manager has: a group keeps the  *)
(* addresses and a rule the group references that its file does not list.  *)
(* Each tool has a stack of baselines of its own, and beside a baseline    *)
(* the ids its push wrote (groups) or created (rules); a revert deletes    *)
(* nothing else.                                                           *)
(*                                                                         *)
(* An object is the set of its members: addresses and nested groups of a   *)
(* group, the references of a rule, among them ANY.  The references of a   *)
(* rule are those of one field: rules.py merges each field by itself and   *)
(* an ANY in one does not keep the references of another from being merged.*)
(* NSX refuses an object that names a missing group, and the deletion of a *)
(* group something names.                                                  *)
(***************************************************************************)
EXTENDS Naturals, FiniteSets, Sequences, SequencesExt

CONSTANTS Groups, Rules, Addresses,
          AnyGroup,     \* ANY_SENTINEL
          Gone,         \* marks an object the manager does not have
          Policies,     \* the rules of each policy
          Sibling,      \* the sibling map: original group -> sibling group
          Bundles,      \* what people push: Absent = no file for this object
          FirstState,
          RetryRounds,  \* MAX_RETRY_ROUNDS
          MaxPushes, MaxEdits, MaxFaults    \* bounds

Absent == {Gone}
Objects == Groups \cup Rules
Members == Addresses \cup Groups \cup {AnyGroup}
States == [Objects -> (SUBSET Members) \cup {Absent}]
Tools == {"groups", "rules"}
Of(tool) == IF tool = "groups" THEN Groups ELSE Rules

ASSUME ConstantsAssumption ==
    /\ Groups \cap Rules = {} /\ AnyGroup \notin Groups \cup Addresses
    /\ Gone \notin Members
    /\ Policies \subseteq SUBSET Rules
    /\ DOMAIN Sibling \subseteq Groups
    /\ \A g \in DOMAIN Sibling : Sibling[g] \in Groups
    /\ Bundles \subseteq States /\ FirstState \in States
ASSUME BoundsAssumption ==
    RetryRounds \in Nat /\ MaxPushes \in Nat /\ MaxEdits \in Nat /\ MaxFaults \in Nat

VARIABLES
    target,     \* what the manager holds
    stack,      \* per tool the unreverted baselines, the newest last
    job,        \* the push, amend or revert that runs
    (* history, no code reads it *)
    edited,     \* objects somebody else wrote or deleted
    lost,       \* objects written without a record, or hidden from a listing
    kept,       \* created groups a revert left in place
    pushes, edits, faults
vars == <<target, stack, job, edited, lost, kept, pushes, edits, faults>>
history == <<edited, lost, kept, pushes, edits>>

\* state is what the baseline file says; hidden are the rules of a policy that
\* could not be listed; pushed the companion file; wrote what the push wrote.
Baseline == [state: States, hidden: SUBSET Rules, pushed: SUBSET Objects,
             wrote: SUBSET Objects]

\* left are the objects the loop at hand still has to do, pending those put off
\* to the next round, unrecorded the one just written; a revert has dels first.
Job == [kind: {"none", "push", "amend", "revert"}, tool: Tools, base: States, files: States,
        replace: BOOLEAN, dels: SUBSET Objects, left: SUBSET Objects,
        pending: SUBSET Objects, unrecorded: SUBSET Objects, round: 0..RetryRounds,
        progress: BOOLEAN, failed: BOOLEAN]

Nothing == [o \in Objects |-> Absent]
NoJob == [kind |-> "none", tool |-> "groups", base |-> Nothing, files |-> Nothing,
          replace |-> FALSE, dels |-> {}, left |-> {}, pending |-> {}, unrecorded |-> {},
          round |-> 0, progress |-> FALSE, failed |-> FALSE]

TypeOK ==
    /\ target \in States
    /\ stack \in [Tools -> Seq(Baseline)]
    /\ job \in Job
    /\ Cardinality(job.unrecorded) <= 1
    /\ edited \subseteq Objects /\ lost \subseteq Objects /\ kept \subseteq Objects
    /\ pushes \in 0..MaxPushes /\ edits \in 0..MaxEdits /\ faults \in 0..MaxFaults

Init ==
    /\ target = FirstState
    /\ stack = [t \in Tools |-> <<>>] /\ job = NoJob
    /\ edited = {} /\ lost = {} /\ kept = {}
    /\ pushes = 0 /\ edits = 0 /\ faults = 0

Held(state) == {o \in Objects : state[o] # Absent}
In(state, o) == IF state[o] = Absent THEN {} ELSE state[o]
Fault == faults < MaxFaults /\ faults' = faults + 1

-----------------------------------------------------------------------------
(* The manager.  PUT carries no _revision: NSX creates what is missing and  *)
(* refuses what exists, which the tools then PATCH.                         *)

MayWrite(o, c) == c \cap Groups \subseteq Held(target) \ {o}
Write(o, c) == target' = [target EXCEPT ![o] = c]

MayDelete(o) ==
    /\ target[o] # Absent
    /\ \A q \in Held(target) : o \notin target[q]
Delete(o) == target' = [target EXCEPT ![o] = Absent]

-----------------------------------------------------------------------------
(* push --apply and amend-refs                                              *)

\* What one listing sees: rules.py leaves out a policy whose rules it cannot
\* list, and warns.
Capture(tool, hidden) ==
    [o \in Objects |-> IF o \in Of(tool) \ hidden THEN target[o] ELSE Absent]

Listing(tool, hidden) ==
    \/ hidden = {} /\ UNCHANGED faults
    \/ tool = "rules" /\ hidden \in Policies /\ Fault

Save(tool, hidden) ==
    stack' = [stack EXCEPT ![tool] =
                 Append(@, [state |-> Capture(tool, hidden), hidden |-> hidden,
                            pushed |-> {}, wrote |-> {}])]

PushStart(tool) ==
    /\ job.kind = "none" /\ pushes < MaxPushes
    /\ pushes' = pushes + 1
    /\ \E files \in Bundles, replace \in BOOLEAN, hidden \in Policies \cup {{}} :
           /\ Listing(tool, hidden)
           /\ replace => tool = "rules"
           /\ Save(tool, hidden)
           /\ job' = [NoJob EXCEPT !.kind = "push", !.tool = tool,
                          !.base = Capture(tool, hidden), !.files = files,
                          !.replace = replace, !.left = Held(files) \cap Of(tool)]
    /\ UNCHANGED <<target, edited, lost, kept, edits>>

\* amend-refs: each rule gets the siblings, of those that are there, of the
\* groups it names.
Amended(refs) ==
    refs \cup {Sibling[g] : g \in {h \in refs \cap DOMAIN Sibling : target[Sibling[h]] # Absent}}

AmendStart ==
    /\ job.kind = "none" /\ pushes < MaxPushes
    /\ pushes' = pushes + 1
    /\ \E hidden \in Policies \cup {{}} :
           LET base == Capture("rules", hidden) IN
           /\ Listing("rules", hidden)
           /\ Save("rules", hidden)
           /\ job' = [NoJob EXCEPT !.kind = "amend", !.tool = "rules", !.base = base,
                          !.files = [o \in Objects |-> IF base[o] = Absent THEN Absent
                                                       ELSE Amended(base[o])],
                          !.left = Held(base)]
    /\ UNCHANGED <<target, edited, lost, kept, edits>>

\* Mutant: a group's file replaces what the group has.
KeepNothing(o) == {}

\* _keep_target_ips: addresses the baseline saw in the group.
KeptAddresses(o) == In(job.base, o) \cap Addresses

\* _merge_group_refs: references the baseline saw in the rule, unless ANY is on
\* either side.
KeptRefs(o) == IF job.replace \/ AnyGroup \in job.files[o] \cup In(job.base, o)
               THEN {} ELSE In(job.base, o)

Keep(o) == IF o \in Groups THEN KeptAddresses(o) ELSE KeptRefs(o)

\* The retry rounds of groups.py send what the first try sent; those of
\* rules.py read the file anew.
Payload(o) == IF o \in Rules /\ job.round > 0 THEN job.files[o]
                                              ELSE job.files[o] \cup Keep(o)

MaySkip(o) == job.round = 0 /\ job.base[o] = Payload(o)

Pushing == job.kind \in {"push", "amend"} /\ job.unrecorded = {}

PushSkip(o) ==
    /\ Pushing /\ o \in job.left /\ MaySkip(o)
    /\ job' = [job EXCEPT !.left = @ \ {o}]
    /\ UNCHANGED <<target, stack, history, faults>>

\* The baseline of the push that runs, and what it hid.
Top == Len(stack[job.tool])
Hidden == stack[job.tool][Top].hidden

\* Write the object, whose record comes next.
PushWrite(o) ==
    /\ Pushing /\ o \in job.left
    /\ ~MaySkip(o) /\ MayWrite(o, Payload(o))
    /\ Write(o, Payload(o))
    /\ job' = [job EXCEPT !.left = @ \ {o}, !.pending = @ \ {o}, !.unrecorded = @ \cup {o},
                          !.progress = TRUE]
    /\ stack' = [stack EXCEPT ![job.tool][Top].wrote = @ \cup {o}]
    /\ lost' = lost \cup ({o} \cap Hidden)
    /\ UNCHANGED <<edited, kept, pushes, edits, faults>>

\* _note_created of rules.py.
Created == {o \in job.unrecorded : job.base[o] = Absent}

\* What the companion file gets: groups.py records whatever it wrote.
Records == IF job.tool = "groups" THEN job.unrecorded ELSE Created

PushRecord ==
    /\ job.unrecorded # {}
    /\ stack' = [stack EXCEPT ![job.tool][Top].pushed = @ \cup Records]
    /\ job' = [job EXCEPT !.unrecorded = {}]
    /\ UNCHANGED <<target, history, faults>>

\* It names a missing group: 404, put off.  amend-refs does not put off.
PushMissing(o) ==
    /\ Pushing /\ o \in job.left
    /\ ~MaySkip(o) /\ ~MayWrite(o, Payload(o))
    /\ job' = [job EXCEPT !.left = @ \ {o},
                          !.pending = IF job.kind = "push" THEN @ \cup {o} ELSE @]
    /\ UNCHANGED <<target, stack, history, faults>>

\* The call fails otherwise, maybe after it took effect; the push goes on.
PushFails(o) ==
    /\ Pushing /\ o \in job.left
    /\ ~MaySkip(o) /\ Fault
    /\ \/ UNCHANGED <<target, lost>>
       \/ MayWrite(o, Payload(o)) /\ Write(o, Payload(o)) /\ lost' = lost \cup {o}
    /\ job' = [job EXCEPT !.left = @ \ {o}, !.pending = @ \ {o}]
    /\ UNCHANGED <<stack, edited, kept, pushes, edits>>

MayRetry ==
    /\ job.pending # {} /\ job.round < RetryRounds
    /\ job.round > 0 => job.progress

PushRetry ==
    /\ Pushing /\ job.left = {} /\ MayRetry
    /\ job' = [job EXCEPT !.left = job.pending, !.round = @ + 1, !.progress = FALSE]
    /\ UNCHANGED <<target, stack, history, faults>>

PushEnd ==
    /\ Pushing /\ job.left = {} /\ ~MayRetry
    /\ job' = NoJob
    /\ UNCHANGED <<target, stack, history, faults>>

-----------------------------------------------------------------------------
(* revert --apply                                                           *)

\* groups.py restores only what its push wrote.
GroupsToRestore(b, current) ==
    {o \in b.pushed : b.state[o] # Absent /\ current[o] # b.state[o]}

\* rules.py restores all of the baseline.
RulesToRestore(b, current) ==
    {o \in Rules : b.state[o] # Absent /\ current[o] # b.state[o]}

ToRestore(tool, b, current) ==
    IF tool = "groups" THEN GroupsToRestore(b, current) ELSE RulesToRestore(b, current)

\* Mutant: delete all the baseline does not hold, as services.py does.
ToDeleteAll(tool, b, current) == {o \in Of(tool) : b.state[o] = Absent /\ current[o] # Absent}

ToDelete(tool, b, current) == {o \in b.pushed : b.state[o] = Absent /\ current[o] # Absent}

\* groups.py deletes only with --allow-delete; what a listing hides stays too.
RevertStart(tool) ==
    /\ job.kind = "none" /\ stack[tool] # <<>>
    /\ \E allowed \in BOOLEAN, hidden \in Policies \cup {{}} :
           LET b == Last(stack[tool])
               current == Capture(tool, hidden)
               created == ToDelete(tool, b, target)
               dels == IF allowed THEN ToDelete(tool, b, current) ELSE {}
           IN
           /\ Listing(tool, hidden)
           /\ tool = "rules" => allowed
           /\ job' = [NoJob EXCEPT !.kind = "revert", !.tool = tool, !.base = b.state,
                                   !.dels = dels, !.left = ToRestore(tool, b, current)]
           /\ kept' = kept \cup (created \ dels)
    /\ UNCHANGED <<target, stack, edited, lost, pushes, edits>>

RevertDelete(o) ==
    /\ job.kind = "revert" /\ o \in job.dels
    /\ \/ MayDelete(o) /\ Delete(o) /\ job' = [job EXCEPT !.dels = @ \ {o}]
       \/ ~MayDelete(o) /\ UNCHANGED target
          /\ job' = [job EXCEPT !.dels = @ \ {o}, !.failed = TRUE]
    /\ UNCHANGED <<stack, history, faults>>

RevertRestore(o) ==
    /\ job.kind = "revert" /\ job.dels = {} /\ o \in job.left
    /\ \/ MayWrite(o, job.base[o]) /\ Write(o, job.base[o])
          /\ job' = [job EXCEPT !.left = @ \ {o}]
       \/ ~MayWrite(o, job.base[o]) /\ UNCHANGED target
          /\ job' = [job EXCEPT !.left = @ \ {o}, !.failed = TRUE]
    /\ UNCHANGED <<stack, history, faults>>

\* A call fails otherwise, maybe after it took effect; the revert goes on.
RevertFails(o) ==
    /\ job.kind = "revert" /\ Fault
    /\ \/ /\ o \in job.dels
          /\ UNCHANGED target \/ (MayDelete(o) /\ Delete(o))
          /\ job' = [job EXCEPT !.dels = @ \ {o}, !.failed = TRUE]
       \/ /\ job.dels = {} /\ o \in job.left
          /\ UNCHANGED target \/ (MayWrite(o, job.base[o]) /\ Write(o, job.base[o]))
          /\ job' = [job EXCEPT !.left = @ \ {o}, !.failed = TRUE]
    /\ UNCHANGED <<stack, history>>

\* Mutant: renamed although a call failed.
RenamedAnyway == Front(stack[job.tool])

\* _mark_baseline_reverted, if every call succeeded.
Renamed == IF job.failed THEN stack[job.tool] ELSE Front(stack[job.tool])

RevertEnd ==
    /\ job.kind = "revert" /\ job.dels = {} /\ job.left = {}
    /\ stack' = [stack EXCEPT ![job.tool] = Renamed]
    /\ job' = NoJob
    /\ UNCHANGED <<target, history, faults>>

-----------------------------------------------------------------------------
\* The operator stops at a prompt, or the tool dies, maybe before it recorded
\* what it wrote.
Ends ==
    /\ job.kind # "none" /\ Fault
    /\ job' = NoJob
    /\ lost' = lost \cup job.unrecorded
    /\ UNCHANGED <<target, stack, edited, kept, pushes, edits>>

\* Somebody else writes or deletes an object.
Someone(o) ==
    /\ edits < MaxEdits /\ edits' = edits + 1
    /\ edited' = edited \cup {o}
    /\ \/ \E files \in Bundles : /\ files[o] # Absent /\ MayWrite(o, files[o])
                                 /\ files[o] # target[o] /\ Write(o, files[o])
       \/ MayDelete(o) /\ Delete(o)
    /\ UNCHANGED <<stack, job, lost, kept, pushes, faults>>

Step ==
    \/ PushRecord \/ PushRetry \/ PushEnd \/ RevertEnd \/ Ends
    \/ \E o \in Objects : \/ PushSkip(o) \/ PushWrite(o) \/ PushMissing(o) \/ PushFails(o)
                          \/ RevertDelete(o) \/ RevertRestore(o) \/ RevertFails(o)

Next ==
    \/ \E tool \in Tools : PushStart(tool) \/ RevertStart(tool)
    \/ AmendStart
    \/ Step
    \/ \E o \in Objects : Someone(o)

Spec == Init /\ [][Next]_vars

-----------------------------------------------------------------------------
(* What the tools promise of a manager.                                     *)

\* Objects whose present value is not the tools' to answer for.
Loose == edited \cup lost \cup kept

\* The baselines of one tool, as saved values of its objects.
Saved(tool) == [i \in DOMAIN stack[tool] |->
                   [o \in Of(tool) \ stack[tool][i].hidden |-> stack[tool][i].state[o]]]

GroupsUndo == INSTANCE UndoStack WITH
    Keys <- Groups, Values <- (SUBSET Members) \cup {Absent},
    value <- [o \in Groups |-> target[o]], stack <- Saved("groups"),
    loose <- Loose \cap Groups, first <- [o \in Groups |-> FirstState[o]]

RulesUndo == INSTANCE UndoStack WITH
    Keys <- Rules, Values <- (SUBSET Members) \cup {Absent},
    value <- [o \in Rules |-> target[o]], stack <- Saved("rules"),
    loose <- Loose \cap Rules, first <- [o \in Rules |-> FirstState[o]]

\* Although a revert touches only what the companion file names, each tool's
\* baselines are an undo stack: reverting all of them brings back every object
\* but those somebody else wrote, those a fault left unrecorded, and created
\* groups that were left because nobody allowed deletions.
AreUndoStacks == GroupsUndo!Spec /\ RulesUndo!Spec

\* A push or amend-refs takes nothing away: an address of a group, a reference
\* of a rule that was there before stays, however many rounds it takes, unless
\* somebody else wrote the object or the baseline could not see it.  A rule
\* that waits for a missing group, one pushed with --replace-refs and ANY are
\* the documented or known exceptions.
Keepable(o) == IF o \in Groups THEN In(target, o) \cap Addresses ELSE In(target, o)
TakesNothing ==
    [][job.kind \in {"push", "amend"} /\ job' # job =>
           \A o \in Objects \ (edited' \cup lost') :
               \/ Keepable(o) \subseteq In(target', o)
               \/ o \in Rules /\ (job.replace \/ job.round > 0)
               \/ o \in Rules /\ AnyGroup \in In(target, o) \cup job.files[o]]_vars

\* A revert deletes only an object that its push wrote and that was not there
\* then.  It is not so for rules of a policy that could not be listed (rules.py:318):
\* the baseline lacks them although they were there, so those its push wrote go too.
DeletesOnlyCreated ==
    [][job.kind = "revert" /\ job' # job =>
           \A o \in Objects : target[o] # Absent /\ target'[o] = Absent =>
               LET b == Last(stack[job.tool]) IN
               o \in b.wrote /\ (b.state[o] = Absent \/ o \in b.hidden)]_vars
=============================================================================
