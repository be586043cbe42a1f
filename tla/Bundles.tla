------------------------------- MODULE Bundles -------------------------------
(***************************************************************************)
(* Timestamped bundles of one host: <root>/<host>/<time>/ and the latest     *)
(* link (app/nsx/bundle_history.py, app/common/bundles.py), as the VM-rule   *)
(* snapshots (capture_vm_rule_data.py) and the backups (backup_nsx_state.py) *)
(* write them, and as a report reads a snapshot (app/nsx/vm_rule_data.py).   *)
(* A scheduler starts one run of a host at a time; any step may be the last  *)
(* of a run; a report may read in between.                                   *)
(***************************************************************************)
EXTENDS Naturals, FiniteSets, FiniteSetsExt

CONSTANTS Retain,         \* --retain; 0 keeps every bundle
          MaxRuns         \* bound: runs of the tool

ASSUME RetainAssumption == Retain \in Nat /\ MaxRuns \in Nat

VARIABLES
    dirs,                 \* the bundles there are: time -> what is in it
    latest,               \* the link; None when there is none
    run,                  \* the tool: [at, victims], at is its next step
    clock,                \* time of the newest run
    reader                \* a report: [at, via, path, served]
vars == <<dirs, latest, run, clock, reader>>

None == 0
Idle == [at |-> "idle", victims |-> {}]
Whole(d) == {t \in DOMAIN d : d[t] = "ok"}

TypeOK ==
    /\ clock \in 0 .. MaxRuns /\ latest \in 0 .. clock
    /\ DOMAIN dirs \subseteq 1 .. clock
    /\ \A t \in DOMAIN dirs : dirs[t] \in {"writing", "failed", "ok", "torn"}
    /\ run \in [at : {"idle", "capture", "unlink", "link", "prune"}, victims : SUBSET (1 .. MaxRuns)]
    /\ reader \in [at : {"look", "open"}, via : BOOLEAN, path : 0 .. MaxRuns, served : 0 .. MaxRuns]

Init == /\ dirs = <<>> /\ latest = None /\ run = Idle /\ clock = 0
        /\ reader = [at |-> "look", via |-> FALSE, path |-> None, served |-> None]

-----------------------------------------------------------------------------
(* The run.                                                                 *)

Set(t, what) == [u \in DOMAIN dirs \cup {t} |-> IF u = t THEN what ELSE dirs[u]]

\* The directory is made; the snapshot and the manifest come later.
NewRun == /\ run.at = "idle" /\ clock < MaxRuns
          /\ clock' = clock + 1 /\ dirs' = Set(clock + 1, "writing")
          /\ run' = [run EXCEPT !.at = "capture"]
          /\ UNCHANGED <<latest, reader>>

\* A failed or incomplete capture ends here: latest stays, nothing is pruned.
CaptureFails == /\ run.at = "capture"
                /\ dirs' = Set(clock, "failed") /\ run' = Idle
                /\ UNCHANGED <<latest, clock, reader>>
CaptureDone == /\ run.at = "capture"
               /\ dirs' = Set(clock, "ok") /\ run' = [run EXCEPT !.at = "unlink"]
               /\ UNCHANGED <<latest, clock, reader>>

\* update_latest: unlink, then link; an OSError of either leaves latest as it
\* is by then, with a warning, and the run goes on.
Unlink == /\ run.at = "unlink"
          /\ latest' = None /\ run' = [run EXCEPT !.at = "link"]
          /\ UNCHANGED <<dirs, clock, reader>>

\* Mutant: the newest are deleted.
OldNewest(d) == {t \in DOMAIN d : Cardinality({u \in DOMAIN d : u < t}) >= Retain}

\* prune_old: the bundles beyond the newest Retain.
Old(d) == IF Retain = 0 THEN {} ELSE {t \in DOMAIN d : Cardinality({u \in DOMAIN d : u > t}) >= Retain}
Link == /\ run.at \in {"unlink", "link"}
        /\ latest' = latest \/ (run.at = "link" /\ latest' = clock)
        /\ run' = [at |-> "prune", victims |-> Old(dirs)]
        /\ UNCHANGED <<dirs, clock, reader>>

\* rmtree, file by file, the oldest bundle first.
Prune == /\ run.at = "prune" /\ run.victims # {}
         /\ LET t == Min(run.victims)
            IN  IF dirs[t] # "torn" THEN dirs' = Set(t, "torn") /\ run' = run
                ELSE /\ dirs' = [u \in DOMAIN dirs \ {t} |-> dirs[u]]
                     /\ run' = [run EXCEPT !.victims = @ \ {t}]
         /\ UNCHANGED <<latest, clock, reader>>
Done == run.at = "prune" /\ run.victims = {} /\ run' = Idle /\ UNCHANGED <<dirs, latest, clock, reader>>

\* The process ends at any step.
Dies == run.at # "idle" /\ run' = Idle /\ UNCHANGED <<dirs, latest, clock, reader>>

-----------------------------------------------------------------------------
(* The report.                                                              *)

\* resolve_snapshot_path: through the link if the file is there, else the
\* newest bundle whose manifest says ok.
Readable(d, t) == t \in DOMAIN d /\ d[t] # "torn"
Resolve(d, l) == IF Readable(d, l) THEN l
                 ELSE IF Whole(d) = {} THEN None ELSE Max(Whole(d))

\* The path it gives may still name the link.
Look == /\ reader.at = "look" /\ Resolve(dirs, latest) # None
        /\ reader' = [reader EXCEPT !.at = "open", !.via = Readable(dirs, latest),
                                    !.path = Resolve(dirs, latest)]
        /\ UNCHANGED <<dirs, latest, run, clock>>

\* load_snapshot: opening follows the link as it is by then; a file that is
\* gone ends the report.
Opened == IF reader.via THEN latest ELSE reader.path
Open == /\ reader.at = "open"
        /\ reader' = [reader EXCEPT !.at = "look", !.via = FALSE, !.path = None,
                         !.served = IF Readable(dirs, Opened) THEN Opened ELSE @]
        /\ UNCHANGED <<dirs, latest, run, clock>>

Next == \/ NewRun \/ CaptureFails \/ CaptureDone \/ Unlink \/ Link \/ Prune \/ Done \/ Dies
        \/ Look \/ Open

Spec == Init /\ [][Next]_vars

-----------------------------------------------------------------------------
\* Once a run has captured everything, a report finds a complete snapshot,
\* whatever ran, failed or died since; and it never gets an incomplete one, nor
\* one older than the report before it.
SnapshotsKept ==
    [][/\ Whole(dirs) # {} => /\ Resolve(dirs', latest') # None
                              /\ dirs'[Resolve(dirs', latest')] = "ok"
       /\ reader'.served # reader.served =>
              reader'.served > reader.served /\ dirs[reader'.served] = "ok"]_vars
=============================================================================
