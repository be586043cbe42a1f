-------------------------- MODULE MigrationRequest --------------------------
(***************************************************************************)
(* tools/multisite/migration_request.py: request, approve, refresh and run  *)
(* --phase a|c|d2a|d3|palo, apply and --rollback --apply.                   *)
(* A request is built from a capture of the source, approved, and built     *)
(* again by every refresh; a refresh whose gate passes may be applied phase *)
(* by phase.  A phase is a list of push tools, each with a stack of         *)
(* baselines in the refresh's own directory; its rollback calls the tools'  *)
(* reverts in the opposite order.  Inside, a tool is PushRevert or          *)
(* PushMerge: here it saves a baseline and writes one object, or fails.     *)
(* The Palo phase keeps a manifest per apply instead of baselines.          *)
(***************************************************************************)
EXTENDS Naturals, FiniteSets, Sequences, FiniteSetsExt, SequencesExt

CONSTANTS ServerFacts,   \* what server_gate compares: status, VM, addresses old and new
          Rest,          \* all else a request is made of
          WithErrors,    \* Rest that gives a request with errors
          PanObjects,    \* the writes of the Palo plan, in order
          FirstStates,   \* what the managers hold at first
          MaxRefreshes, MaxApplies, MaxChanges, MaxFaults     \* bounds

Objects == {"svc", "grp", "pol", "rule", "sib", "dsib", "srcrule"}
Absent == {"absent"}
Marks == ServerFacts \cup {"own", "names sibling", "absent"}
States == [Objects -> SUBSET Marks]
Pans == {PanObjects[i] : i \in DOMAIN PanObjects}
Sources == [srv: ServerFacts, rest: Rest, map: {0, 1}]

ASSUME ConstantsAssumption ==
    /\ WithErrors \subseteq Rest
    \* What is there at first is "own", whatever it was made for; NSX has no rule
    \* without its policy.
    /\ FirstStates \subseteq [Objects -> {{"own"}, {"own", "names sibling"}, Absent}]
    /\ \A h \in FirstStates : h["rule"] # Absent => h["pol"] # Absent
    /\ PanObjects \in Seq(Pans)
    /\ ServerFacts \cap {"own", "names sibling", "absent"} = {}
ASSUME MigrationBounds ==
    MaxRefreshes \in Nat /\ MaxApplies \in Nat /\ MaxChanges \in Nat /\ MaxFaults \in Nat

\* phase_steps: the object each tool writes.  c5 and d3 are amend-refs.
PhaseSteps == [a |-> <<"a1", "a2", "a3", "a4">>, c |-> <<"c3", "c5">>,
               d2a |-> <<"d2a">>, d3 |-> <<"d3">>]
Writes == [a1 |-> "svc", a2 |-> "grp", a3 |-> "pol", a4 |-> "rule", c3 |-> "sib",
           c5 |-> "rule", d2a |-> "dsib", d3 |-> "srcrule"]
Amends == [c5 |-> "sib", d3 |-> "dsib"]
StepNames == DOMAIN Writes
Phases == DOMAIN PhaseSteps
PhaseOf(s) == CHOOSE p \in Phases : \E i \in DOMAIN PhaseSteps[p] : PhaseSteps[p][i] = s

VARIABLES
    source,     \* what a capture of the source finds
    request,    \* <<>>, or request.json
    approval,   \* <<>>, or the content approval.json holds the digest of
    refreshes,  \* the directories of refresh: model, gate, baselines
    target,     \* source and destination managers
    pan,        \* the candidate configuration of Panorama
    manifests,  \* per run the push_*_apply.json, the newest last
    job,        \* run --apply
    (* history, no code reads it *)
    approved,   \* every content approved so far
    first, disorder, partial, unrecorded,
    applies, changes, faults
migrationVars == <<source, request, approval, refreshes, target, pan, manifests, job, approved,
                   first, disorder, partial, unrecorded, applies, changes, faults>>
history == <<approved, first, disorder, partial, applies>>

Saved == [was: SUBSET Marks, created: BOOLEAN, at: Nat]
Run == [model: Sources, gate: BOOLEAN, stacks: [StepNames -> Seq(Saved)]]
\* todo are the steps left; failed: one was not ok; faulty: a call failed.
Job == [kind: {"none", "apply", "rollback"}, dir: Nat, phase: Phases \cup {"palo"},
        todo: Seq(StepNames), failed: BOOLEAN, faulty: BOOLEAN]
NoJob == [kind |-> "none", dir |-> 0, phase |-> "palo", todo |-> <<>>, failed |-> FALSE,
          faulty |-> FALSE]

MigrationTypeOK ==
    /\ source \in Sources
    /\ request \in Seq(Sources) /\ Len(request) <= 1
    /\ approval \in Seq(Sources) /\ Len(approval) <= 1
    /\ refreshes \in Seq(Run) /\ Len(refreshes) <= MaxRefreshes
    /\ target \in States /\ \A o \in Objects : "absent" \in target[o] => target[o] = Absent
    /\ pan \subseteq Pans
    /\ manifests \in Seq(Seq(SUBSET Pans)) /\ Len(manifests) = Len(refreshes)
    /\ job \in Job
    /\ approved \subseteq Sources /\ first \in States \X SUBSET Pans
    /\ disorder \in BOOLEAN /\ partial \subseteq (Nat \X (Phases \cup {"palo"}))
    /\ unrecorded \subseteq Pans
    /\ applies \in 0..MaxApplies /\ changes \in 0..MaxChanges /\ faults \in 0..MaxFaults

MigrationInit ==
    /\ source \in Sources /\ source.map = 0
    /\ request = <<>> /\ approval = <<>> /\ refreshes = <<>> /\ manifests = <<>> /\ job = NoJob
    /\ target \in FirstStates /\ (pan = {} \/ (PanObjects # <<>> /\ pan = {PanObjects[1]}))
    /\ approved = {} /\ first = <<target, pan>>
    /\ disorder = FALSE /\ partial = {} /\ unrecorded = {}
    /\ applies = 0 /\ changes = 0 /\ faults = 0

AtRest == job.kind = "none"
Errors(model) == model.rest \in WithErrors

-----------------------------------------------------------------------------
(* request, approve, refresh                                                *)

\* `request` writes request.json; somebody may put another one in its place,
\* and an approval stays on disk.  build() asks for the rules first and for the
\* machines after; what it makes of a source that changes in between is what it
\* makes of one whose machines change now and whose rules change later, so one
\* step stands for both captures.
MakeRequest ==
    /\ AtRest /\ request # <<source>>
    /\ request' = <<source>>
    /\ UNCHANGED <<source, approval, refreshes, target, pan, manifests, job, unrecorded,
                   changes, faults, history>>

\* A request with errors takes --accept-errors, which the approver may give.
Approve ==
    /\ AtRest /\ request # <<>> /\ approval # request
    /\ approval' = request /\ approved' = approved \cup {request[1]}
    /\ UNCHANGED <<source, request, refreshes, target, pan, manifests, job, first, disorder,
                   partial, unrecorded, applies, changes, faults>>

\* Mutant: a gate that does not compare the servers.
GateRest(old, new) == new.map = old.map
\* server_gate, and the subnet map's fingerprint
Gate(old, new) == new.srv = old.srv /\ new.map = old.map

Empty == [s \in StepNames |-> <<>>]
Refresh ==
    /\ AtRest /\ approval # <<>> /\ approval = request
    /\ Len(refreshes) < MaxRefreshes
    /\ \E strict \in BOOLEAN :
           refreshes' = Append(refreshes, [model |-> source, stacks |-> Empty,
                                 gate |-> /\ Gate(request[1], source) /\ ~Errors(source)
                                          /\ strict => source = request[1]])
    /\ manifests' = Append(manifests, <<>>)
    /\ UNCHANGED <<source, request, approval, target, pan, job, unrecorded, changes,
                   faults, history>>

-----------------------------------------------------------------------------
(* run --phase --apply and run --phase --rollback --apply                   *)

Begin(kind, dir, phase, steps) ==
    job' = [NoJob EXCEPT !.kind = kind, !.dir = dir, !.phase = phase, !.todo = steps]

ApplyStart(dir, phase) ==
    /\ AtRest /\ refreshes[dir].gate /\ applies < MaxApplies
    /\ applies' = applies + 1
    /\ Begin("apply", dir, phase, IF phase = "palo" THEN <<>> ELSE PhaseSteps[phase])
    /\ UNCHANGED <<source, request, approval, refreshes, target, pan, manifests, approved, first,
                   disorder, partial, unrecorded, changes, faults>>

\* rollback_steps
RollbackSteps(phase) == Reverse(PhaseSteps[phase])

Held(dir, phase) ==
    IF phase = "palo" THEN manifests[dir] # <<>>
    ELSE \E s \in StepNames : PhaseOf(s) = phase /\ refreshes[dir].stacks[s] # <<>>

Site(s) == IF s \in {"d2a", "d3"} THEN "source" ELSE "destination"
\* The baselines a rollback of phase takes off are newer than those of every
\* other phase or run on the same manager.
NewestFirst(dir, phase) ==
    \A s, t \in StepNames, r \in DOMAIN refreshes :
        /\ PhaseOf(s) = phase /\ refreshes[dir].stacks[s] # <<>>
        /\ Site(t) = Site(s) /\ <<r, PhaseOf(t)>> # <<dir, phase>>
        => \A i \in DOMAIN refreshes[r].stacks[t] :
               refreshes[r].stacks[t][i].at < Last(refreshes[dir].stacks[s]).at

RollbackStart(dir, phase) ==
    /\ AtRest /\ Held(dir, phase)
    /\ disorder' = (disorder \/ ~NewestFirst(dir, phase))
    /\ Begin("rollback", dir, phase, IF phase = "palo" THEN <<>> ELSE RollbackSteps(phase))
    /\ UNCHANGED <<source, request, approval, refreshes, target, pan, manifests, approved, first,
                   partial, unrecorded, applies, changes, faults>>

Fault == faults < MaxFaults /\ faults' = faults + 1

\* What NSX refuses: a rule whose policy, group, service or sibling is missing,
\* and the deletion of what a rule names.
Has(o) == target[o] # Absent
Resolves(o, marks) ==
    o = "rule" /\ marks # Absent =>
        Has("pol") /\ Has("grp") /\ Has("svc") /\ ("names sibling" \in marks => Has("sib"))
NotNamed(o) ==
    /\ o \in {"svc", "grp"} => ~Has("rule")
    /\ o = "sib" => "names sibling" \notin target["rule"]
    /\ o = "dsib" => "names sibling" \notin target["srcrule"]
MaySet(o, marks) ==
    /\ marks = Absent => NotNamed(o)
    /\ Resolves(o, marks)
SetTo(o, marks) ==
    target' = [target EXCEPT ![o] = marks,
                             !["rule"] = IF o = "pol" /\ marks = Absent THEN Absent
                                         ELSE IF o = "rule" THEN marks ELSE @]

\* What the tool of step s makes of its object: a push of groups or rules keeps
\* what is there; amend-refs adds the sibling if that is there.
Pushed(s, dir) ==
    LET o == Writes[s] now == target[o] IN
    IF s \in DOMAIN Amends
    THEN IF Has(o) /\ Has(Amends[s]) THEN now \cup {"names sibling", refreshes[dir].model.srv} ELSE now
    ELSE (IF o \in {"svc", "pol"} THEN {} ELSE now \ Absent) \cup {refreshes[dir].model.srv}

\* Mutant: a tool that saves what it is about to write.
SavedAfter(s, dir) == Pushed(s, dir)
\* _append_baseline, of all tools
SavedBefore(s, dir) == target[Writes[s]]

\* Later than every baseline there is of the same manager.
Times(site) ==
    UNION {{refreshes[r].stacks[t][i].at : i \in DOMAIN refreshes[r].stacks[t]} :
               r \in DOMAIN refreshes, t \in {t \in StepNames : Site(t) = site}}
Clock(s) == IF Times(Site(s)) = {} THEN 0 ELSE Max(Times(Site(s))) + 1
PutOn(dir, s, saved) == refreshes' = [refreshes EXCEPT ![dir].stacks[s] = Append(@, saved)]
StepDone(ok, faulty) ==
    job' = [job EXCEPT !.todo = IF ok THEN Tail(@) ELSE <<>>, !.failed = ~ok,
                       !.faulty = @ \/ faulty]
EndsEarly == partial' = partial \cup {<<job.dir, job.phase>>}

\* A tool of an apply: it saves a baseline, then writes.
StepApply ==
    LET s == Head(job.todo) o == Writes[s] new == Pushed(s, job.dir)
        ok == MaySet(o, new)
    IN
    /\ job.kind = "apply" /\ job.todo # <<>>
    /\ PutOn(job.dir, s, [was |-> SavedBefore(s, job.dir), at |-> Clock(s),
                          created |-> ok /\ s \notin DOMAIN Amends /\ ~Has(o)])
    /\ IF ok THEN SetTo(o, new) ELSE UNCHANGED target
    /\ StepDone(ok, FALSE)
    /\ UNCHANGED <<source, request, approval, pan, manifests, unrecorded, changes, faults,
                   history>>

\* It fails before it has a baseline, or after.
StepApplyFails ==
    /\ job.kind = "apply" /\ job.todo # <<>> /\ Fault
    /\ \/ UNCHANGED refreshes
       \/ PutOn(job.dir, Head(job.todo),
                [was |-> target[Writes[Head(job.todo)]], at |-> Clock(Head(job.todo)), created |-> FALSE])
    /\ StepDone(FALSE, TRUE)
    /\ UNCHANGED <<source, request, approval, target, pan, manifests, unrecorded, changes,
                   history>>

TakeOff(dir, s) == refreshes' = [refreshes EXCEPT ![dir].stacks[s] = Front(@)]

\* A revert of a rollback: without a baseline it ends with an error.  What the
\* baseline lacks is deleted if the push created it, a service or a policy in
\* any case.
StepRollback ==
    LET s == Head(job.todo) o == Writes[s] stack == refreshes[job.dir].stacks[s]
        saved == Last(stack)
        leave == saved.was = Absent /\ ~saved.created /\ o \notin {"svc", "pol"}
        new == IF leave THEN target[o] ELSE saved.was
        ok == new = target[o] \/ MaySet(o, new)
    IN
    /\ job.kind = "rollback" /\ job.todo # <<>>
    /\ IF stack = <<>>
       THEN StepDone(FALSE, FALSE) /\ UNCHANGED <<refreshes, target>>
       ELSE /\ StepDone(ok, FALSE)
            /\ IF ok THEN TakeOff(job.dir, s) /\ SetTo(o, new) ELSE UNCHANGED <<refreshes, target>>
    /\ UNCHANGED <<source, request, approval, pan, manifests, unrecorded, changes, faults,
                   history>>

StepRollbackFails ==
    /\ job.kind = "rollback" /\ job.todo # <<>> /\ Fault
    /\ StepDone(FALSE, TRUE)
    /\ UNCHANGED <<source, request, approval, refreshes, target, pan, manifests, unrecorded,
                   changes, history>>

-----------------------------------------------------------------------------
(* nsx_pan_mirror push and revert, on the plan of the run                   *)

Before(i) == {PanObjects[k] : k \in 1..i - 1}
Plan == Before(Len(PanObjects) + 1)

\* push_writes: create what is missing, up to the first call that fails, whose
\* write may have happened.
PaloPush ==
    /\ job.kind = "apply" /\ job.phase = "palo" /\ ~job.failed
    /\ job' = NoJob
    /\ \E stop \in 1..Len(PanObjects) + 1, lost \in BOOLEAN :
           LET created == Before(stop) \ pan
               hidden == IF lost THEN {PanObjects[stop]} \ pan ELSE {}
           IN
           /\ stop <= Len(PanObjects) \/ ~lost
           /\ IF stop > Len(PanObjects) THEN UNCHANGED faults ELSE Fault
           /\ pan' = pan \cup created \cup hidden
           /\ unrecorded' = unrecorded \cup hidden
           /\ manifests' = [manifests EXCEPT ![job.dir] = Append(@, created)]
    /\ UNCHANGED <<source, request, approval, refreshes, target, changes, history>>

\* revert_created, of the newest manifest
ToDelete(dir) == Last(manifests[dir])

PaloRevert ==
    /\ job.kind = "rollback" /\ job.phase = "palo"
    /\ job' = NoJob
    /\ \/ pan' = pan \ ToDelete(job.dir) /\ UNCHANGED faults
       \/ /\ Fault
          /\ \E i \in 1..Len(PanObjects) : pan' = pan \ (ToDelete(job.dir) \ Before(i))
    /\ UNCHANGED <<source, request, approval, refreshes, target, manifests, unrecorded,
                   changes, history>>

-----------------------------------------------------------------------------
\* The run has done its steps, or has stopped at one that failed.
End ==
    /\ ~AtRest /\ job.phase # "palo" /\ job.todo = <<>>
    /\ job' = NoJob
    /\ IF job.failed THEN EndsEarly ELSE UNCHANGED partial
    /\ UNCHANGED <<source, request, approval, refreshes, target, pan, manifests, approved, first,
                   disorder, unrecorded, applies, changes, faults>>

\* The operator or the system ends a run between two of its steps.
Killed ==
    /\ ~AtRest /\ job.phase # "palo" /\ job.todo # <<>> /\ Fault
    /\ job' = NoJob
    /\ EndsEarly
    /\ UNCHANGED <<source, request, approval, refreshes, target, pan, manifests, approved, first,
                   disorder, unrecorded, applies, changes>>

\* Servers, rules or the subnet map change.
SourceChanges ==
    /\ AtRest /\ changes < MaxChanges /\ changes' = changes + 1
    /\ source' \in Sources /\ source' # source
    /\ UNCHANGED <<request, approval, refreshes, target, pan, manifests, job, unrecorded,
                   faults, history>>

MigrationNext ==
    \/ MakeRequest \/ Approve \/ Refresh
    \/ \E r \in DOMAIN refreshes, p \in Phases \cup {"palo"} : ApplyStart(r, p) \/ RollbackStart(r, p)
    \/ StepApply \/ StepApplyFails \/ StepRollback \/ StepRollbackFails
    \/ PaloPush \/ PaloRevert \/ End \/ Killed \/ SourceChanges

MigrationSpec == MigrationInit /\ [][MigrationNext]_migrationVars

-----------------------------------------------------------------------------
(* Properties                                                               *)

\* Whatever an apply put on a manager was built for servers exactly as they
\* were when a request was approved: same VMs, same addresses, same status.
\* The source goes on changing between request, approval, refresh and apply.
ServersAsApproved ==
    \A o \in Objects : target[o] \cap ServerFacts \subseteq {m.srv : m \in approved}

\* Once no baseline of any run is left, and the phases of a manager were rolled
\* back newest first, the managers hold what they held at first.  Runs share
\* rules: a4 and c5 of every run have a stack of their own for the same ones.
RollbackRestores ==
    (~disorder /\ AtRest /\ \A r \in DOMAIN refreshes, s \in StepNames : refreshes[r].stacks[s] = <<>>)
        => target = first[1]

\* A rollback that nothing disturbs stops early only in a phase of which an
\* apply or a rollback stopped early before: then its tools have different
\* numbers of baselines, and the first revert without one keeps the others from
\* being called.
RollbackStopsOnlyAfterStop ==
    (job.kind = "rollback" /\ job.failed /\ ~job.faulty /\ ~disorder)
        => <<job.dir, job.phase>> \in partial

\* What an apply did can be rolled back: everything is restored, and a rollback
\* stops early only where an earlier step did (migration_request.py:916).
RollbackUndoes == RollbackRestores /\ RollbackStopsOnlyAfterStop
=============================================================================
