----------------------------- MODULE PushRevert -----------------------------
(***************************************************************************)
(* services.py push --apply and services.py revert --apply.  A push saves  *)
(* what the target manager holds as a baseline, on top of the baselines of *)
(* one reports directory, and writes the services of a bundle; a revert    *)
(* puts the newest baseline back and renames it when every write has       *)
(* succeeded.  Either may be stopped at a prompt or die, a call may fail   *)
(* with or without effect, and other people write to the managers.         *)
(* policies.py pushes and reverts policies in the same steps.              *)
(*                                                                         *)
(* A service's content is one value of Contents, which says what services  *)
(* it nests.  NSX refuses to write a service that nests a missing one or   *)
(* itself, and to delete one that another nests.                           *)
(***************************************************************************)
EXTENDS Naturals, Sequences, SequencesExt

CONSTANTS Managers, Services,
          Contents,     \* what a service can be
          Absent,       \* a service the manager does not have
          None,
          Nests,        \* the services that a content nests
          Noted,        \* a content with the --description-note in its description
          Bundles,      \* what people push: Absent = no file for this service
          FirstStates,  \* what a manager may hold at first
          RetryRounds,  \* MAX_RETRY_ROUNDS
          MaxPushes, MaxEdits, MaxFaults    \* bounds

States == [Services -> Contents \cup {Absent}]

ASSUME ContentsAssumption ==
    /\ Absent \notin Contents /\ None \notin Managers
    /\ Nests \in [Contents -> SUBSET Services]
    /\ Noted \in [Contents -> Contents]
    /\ Bundles \subseteq States /\ FirstStates \subseteq States
ASSUME BoundsAssumption ==
    RetryRounds \in Nat /\ MaxPushes \in Nat /\ MaxEdits \in Nat /\ MaxFaults \in Nat

VARIABLES
    target,     \* what every manager holds
    stack,      \* the unreverted baselines, the newest last
    job,        \* the push or revert that runs
    (* history, no code reads it *)
    first,      \* what every manager held at first
    edited,     \* <<manager, service>> that somebody else wrote or deleted
    pushes, edits, faults
vars == <<target, stack, job, first, edited, pushes, edits, faults>>

\* of is the manager the baseline was taken from, owner the one its meta file
\* names, None before that is written.
Baseline == [owner: Managers \cup {None}, of: Managers, state: States]

\* left are the services the loop at hand still has to do, pending those a push
\* puts off to the next round; a revert has dels to delete before left.
Job == [kind: {"none", "begin", "push", "revert"}, m: Managers \cup {None},
        base: States, files: States, note: BOOLEAN, force: BOOLEAN,
        dels: SUBSET Services, left: SUBSET Services, pending: SUBSET Services,
        round: 0..RetryRounds, progress: BOOLEAN, wrote: BOOLEAN, failed: BOOLEAN]

Nothing == [s \in Services |-> Absent]

NoJob == [kind |-> "none", m |-> None, base |-> Nothing, files |-> Nothing,
          note |-> FALSE, force |-> FALSE, dels |-> {}, left |-> {}, pending |-> {},
          round |-> 0, progress |-> FALSE, wrote |-> FALSE, failed |-> FALSE]

TypeOK ==
    /\ target \in [Managers -> States]
    /\ stack \in Seq(Baseline)
    /\ job \in Job
    /\ first \in [Managers -> States]
    /\ edited \subseteq Managers \X Services
    /\ pushes \in 0..MaxPushes /\ edits \in 0..MaxEdits /\ faults \in 0..MaxFaults

Init ==
    /\ first \in [Managers -> FirstStates]
    /\ target = first
    /\ stack = <<>> /\ job = NoJob
    /\ edited = {}
    /\ pushes = 0 /\ edits = 0 /\ faults = 0

Held(state) == {s \in Services : state[s] # Absent}

-----------------------------------------------------------------------------
(* The manager.  PUT carries no _revision: NSX creates what is missing and  *)
(* refuses what exists, which the tools then PATCH.                         *)

MayWrite(m, s, c) == s \notin Nests[c] /\ Nests[c] \subseteq Held(target[m])

Write(m, s, c) == target' = [target EXCEPT ![m][s] = c]

MayDelete(m, s) ==
    /\ target[m][s] # Absent
    /\ \A q \in Held(target[m]) : s \notin Nests[target[m][q]]

Delete(m, s) == target' = [target EXCEPT ![m][s] = Absent]

-----------------------------------------------------------------------------
(* push --apply                                                             *)

\* Read the manager and save the baseline.
PushStart(m) ==
    /\ job.kind = "none" /\ pushes < MaxPushes
    /\ pushes' = pushes + 1
    /\ stack' = Append(stack, [owner |-> None, of |-> m, state |-> target[m]])
    /\ \E files \in Bundles, note, force \in BOOLEAN :
           job' = [NoJob EXCEPT !.kind = "begin", !.m = m, !.base = target[m], !.files = files,
                                !.note = note, !.force = force, !.left = Held(files)]
    /\ UNCHANGED <<target, first, edited, edits, faults>>

\* Save beside it the manager it was taken from.
PushMeta ==
    /\ job.kind = "begin"
    /\ stack' = [stack EXCEPT ![Len(stack)].owner = job.m]
    /\ job' = [job EXCEPT !.kind = "push"]
    /\ UNCHANGED <<target, first, edited, pushes, edits, faults>>

\* is_unchanged: the manager held the same content, or the same with the note.
Unchanged(s) ==
    \/ job.base[s] = job.files[s]
    \/ job.note /\ job.base[s] = Noted[job.files[s]]

\* The retry rounds look at nothing again.
MaySkip(s) == job.round = 0 /\ ~job.force /\ Unchanged(s)

PushSkip(s) ==
    /\ job.kind = "push" /\ s \in job.left
    /\ MaySkip(s)
    /\ job' = [job EXCEPT !.left = @ \ {s}]
    /\ UNCHANGED <<target, stack, first, edited, pushes, edits, faults>>

\* What is sent: the retry rounds read the file anew and add no note.
Payload(s) == IF job.note /\ job.round = 0 THEN Noted[job.files[s]] ELSE job.files[s]

PushWrite(s) ==
    /\ job.kind = "push" /\ s \in job.left
    /\ ~MaySkip(s) /\ MayWrite(job.m, s, Payload(s))
    /\ Write(job.m, s, Payload(s))
    /\ job' = [job EXCEPT !.left = @ \ {s}, !.pending = @ \ {s}, !.progress = TRUE,
                          !.wrote = TRUE]
    /\ UNCHANGED <<stack, first, edited, pushes, edits, faults>>

\* A nested service is missing: 404, put off.
PushMissing(s) ==
    /\ job.kind = "push" /\ s \in job.left
    /\ ~MaySkip(s) /\ ~MayWrite(job.m, s, Payload(s))
    /\ job' = [job EXCEPT !.left = @ \ {s}, !.pending = @ \cup {s}]
    /\ UNCHANGED <<target, stack, first, edited, pushes, edits, faults>>

Fault == faults < MaxFaults /\ faults' = faults + 1

\* The call fails otherwise, maybe after it took effect; the push goes on.
PushFails(s) ==
    /\ job.kind = "push" /\ s \in job.left
    /\ ~MaySkip(s)
    /\ Fault
    /\ \/ UNCHANGED target
       \/ MayWrite(job.m, s, Payload(s)) /\ Write(job.m, s, Payload(s))
    /\ job' = [job EXCEPT !.left = @ \ {s}, !.pending = @ \ {s}]
    /\ UNCHANGED <<stack, first, edited, pushes, edits>>

\* Mutant: what was put off is not retried.
NeverRetry == FALSE

MayRetry ==
    /\ job.pending # {} /\ job.round < RetryRounds
    /\ job.round > 0 => job.progress

PushRetry ==
    /\ job.kind = "push" /\ job.left = {} /\ MayRetry
    /\ job' = [job EXCEPT !.left = job.pending, !.round = @ + 1, !.progress = FALSE]
    /\ UNCHANGED <<target, stack, first, edited, pushes, edits, faults>>

PushEnd ==
    /\ job.kind = "push" /\ job.left = {} /\ ~MayRetry
    /\ job' = NoJob
    /\ UNCHANGED <<target, stack, first, edited, pushes, edits, faults>>

-----------------------------------------------------------------------------
(* revert --apply                                                           *)

\* Mutant: any manager may be given the baseline.
MayRestoreAnywhere(m, b) == TRUE

\* refuse_reason.  A baseline that names no manager is used only when it is
\* named with --from-baseline, which people do for the right manager.
MayRestore(m, b) == b.owner = m \/ (b.owner = None /\ b.of = m)

\* Mutant: what the push created stays.
ToDeleteNothing(m, state) == {}

ToDelete(m, state) == Held(target[m]) \ Held(state)

ToRestore(m, state, force) == {s \in Held(state) : force \/ target[m][s] # state[s]}

\* Take the newest baseline, read the manager, and plan.
RevertStart(m) ==
    /\ job.kind = "none" /\ stack # <<>>
    /\ MayRestore(m, Last(stack))
    /\ \E force \in BOOLEAN :
           LET state == Last(stack).state IN
           job' = [NoJob EXCEPT !.kind = "revert", !.m = m, !.base = state,
                                !.dels = ToDelete(m, state), !.left = ToRestore(m, state, force)]
    /\ UNCHANGED <<target, stack, first, edited, pushes, edits, faults>>

RevertDelete(s) ==
    /\ job.kind = "revert" /\ s \in job.dels
    /\ MayDelete(job.m, s)
    /\ Delete(job.m, s)
    /\ job' = [job EXCEPT !.dels = @ \ {s}, !.wrote = TRUE]
    /\ UNCHANGED <<stack, first, edited, pushes, edits, faults>>

\* In use, or gone: the revert goes on, but will not count as complete.
RevertDeleteRefused(s) ==
    /\ job.kind = "revert" /\ s \in job.dels
    /\ ~MayDelete(job.m, s)
    /\ job' = [job EXCEPT !.dels = @ \ {s}, !.failed = TRUE]
    /\ UNCHANGED <<target, stack, first, edited, pushes, edits, faults>>

RevertRestore(s) ==
    /\ job.kind = "revert" /\ job.dels = {} /\ s \in job.left
    /\ MayWrite(job.m, s, job.base[s])
    /\ Write(job.m, s, job.base[s])
    /\ job' = [job EXCEPT !.left = @ \ {s}, !.wrote = TRUE]
    /\ UNCHANGED <<stack, first, edited, pushes, edits, faults>>

RevertRestoreRefused(s) ==
    /\ job.kind = "revert" /\ job.dels = {} /\ s \in job.left
    /\ ~MayWrite(job.m, s, job.base[s])
    /\ job' = [job EXCEPT !.left = @ \ {s}, !.failed = TRUE]
    /\ UNCHANGED <<target, stack, first, edited, pushes, edits, faults>>

\* A call fails otherwise, maybe after it took effect; the revert goes on.
RevertFails(s) ==
    /\ job.kind = "revert"
    /\ s \in IF job.dels # {} THEN job.dels ELSE job.left
    /\ Fault
    /\ \/ UNCHANGED target
       \/ /\ s \in job.dels /\ MayDelete(job.m, s) /\ Delete(job.m, s)
       \/ /\ job.dels = {} /\ MayWrite(job.m, s, job.base[s]) /\ Write(job.m, s, job.base[s])
    /\ job' = [job EXCEPT !.dels = @ \ {s}, !.left = IF job.dels = {} THEN @ \ {s} ELSE @,
                          !.failed = TRUE]
    /\ UNCHANGED <<stack, first, edited, pushes, edits>>

\* Mutant: a revert that had nothing to write leaves its baseline.
RenamedIfWrote == IF job.failed \/ ~job.wrote THEN stack ELSE Front(stack)

\* _mark_baseline_reverted, if every call succeeded.
Renamed == IF job.failed THEN stack ELSE Front(stack)

RevertEnd ==
    /\ job.kind = "revert" /\ job.dels = {} /\ job.left = {}
    /\ stack' = Renamed
    /\ job' = NoJob
    /\ UNCHANGED <<target, first, edited, pushes, edits, faults>>

-----------------------------------------------------------------------------
\* The operator stops at a prompt, which comes before a write, after one.
Stop ==
    /\ job.wrote /\ Fault
    /\ IF job.kind = "push" THEN \E s \in job.left : ~MaySkip(s)
                            ELSE job.left \cup job.dels # {}
    /\ job' = NoJob
    /\ UNCHANGED <<target, stack, first, edited, pushes, edits>>

Dies ==
    /\ job.kind # "none"
    /\ Fault
    /\ job' = NoJob
    /\ UNCHANGED <<target, stack, first, edited, pushes, edits>>

Edit(m, s) ==
    /\ edits < MaxEdits /\ edits' = edits + 1
    /\ edited' = edited \cup {<<m, s>>}

SomeoneWrites(m, s, c) ==
    /\ Edit(m, s)
    /\ MayWrite(m, s, c) /\ c # target[m][s]
    /\ Write(m, s, c)
    /\ UNCHANGED <<stack, job, first, pushes, faults>>

SomeoneDeletes(m, s) ==
    /\ Edit(m, s)
    /\ MayDelete(m, s)
    /\ Delete(m, s)
    /\ UNCHANGED <<stack, job, first, pushes, faults>>

PushStep ==
    \/ PushMeta \/ PushRetry \/ PushEnd
    \/ \E s \in Services : PushSkip(s) \/ PushWrite(s) \/ PushMissing(s)

RevertStep ==
    \/ RevertEnd
    \/ \E s \in Services : \/ RevertDelete(s) \/ RevertDeleteRefused(s)
                           \/ RevertRestore(s) \/ RevertRestoreRefused(s)

Next ==
    \/ \E m \in Managers : PushStart(m) \/ RevertStart(m)
    \/ PushStep \/ RevertStep \/ Stop \/ Dies
    \/ \E s \in Services : PushFails(s) \/ RevertFails(s)
    \/ \E m \in Managers, s \in Services :
           (\E c \in Contents : SomeoneWrites(m, s, c)) \/ SomeoneDeletes(m, s)

Spec == Init /\ [][Next]_vars

\* A tool that runs goes on by itself, and people revert until no baseline is
\* left.
FairSpec ==
    /\ Spec
    /\ WF_vars(PushStep) /\ WF_vars(RevertStep)
    /\ WF_vars(\E m \in Managers : RevertStart(m))
=============================================================================
