-------------------------- MODULE PushRevertProps --------------------------
(* What a push and its revert promise.                                      *)
EXTENDS PushRevert

Keys == Managers \X Services
valueBar == [k \in Keys |-> target[k[1]][k[2]]]
stackBar == [i \in DOMAIN stack |->
               [k \in {stack[i].of} \X Services |-> stack[i].state[k[2]]]]
firstBar == [k \in Keys |-> first[k[1]][k[2]]]

Undo == INSTANCE UndoStack WITH
    Values <- Contents \cup {Absent},
    value <- valueBar, stack <- stackBar, loose <- edited, first <- firstBar

\* The baselines of a reports directory are an undo stack of all the managers
\* it was used with, whatever pushes and reverts are stopped, killed, or told
\* that a call failed which took effect: nothing is written without a saved
\* baseline of that manager, and a baseline is renamed only once its manager is
\* as it says, except for what somebody else wrote.
IsAnUndoStack == Undo!Spec

\* So when a manager has no baseline left to revert, each of its services that
\* nobody else wrote is what it was before the first push.
AllUndone == Undo!Undone

\* A push in which no call failed, during which nobody else wrote and whose
\* services nest only what it brings or found, leaves everything it was given on the
\* manager, in whatever order its files come: what nests a service that comes later
\* is retried.  What it wrote has the note of the change; what was the same stays.
CompleteBundle == \A s \in Held(job.files) :
                      Nests[job.files[s]] \subseteq Held(job.files) \cup Held(job.base)
PushSucceeds ==
    /\ job.kind = "push" /\ job.left = {} /\ job'.kind = "none"
    /\ CompleteBundle /\ edits = 0 /\ faults' = 0
Recorded(s) == IF job.note THEN Noted[job.files[s]] ELSE job.files[s]
Landed(s) == target[job.m][s] = IF ~job.force /\ Unchanged(s) THEN job.base[s] ELSE Recorded(s)

\* Only a service that may have had to wait for one it nests, which was not there
\* before, is written without the note.
PushLands ==
    [][PushSucceeds =>
           \A s \in Held(job.files) :
               \/ Landed(s)
               \/ ~(Nests[job.files[s]] \subseteq Held(job.base)) /\ target[job.m][s] = job.files[s]]_vars

\* What RUNBOOK_MIGRATION_REQUEST.md:140 and description_note.py:4 say: every service
\* a push creates or changes gets the record.
NoteLands == [][PushSucceeds => \A s \in Held(job.files) : Landed(s)]_vars

\* However many pushes there were and wherever they ended, reverting again and
\* again comes to an end with no baseline left, although each revert deletes
\* and restores in no particular order and NSX refuses what is out of order.
RevertsFinish == <>[](stack = <<>> /\ job.kind = "none")
=============================================================================
