---------------------------- MODULE MCRunFolders ----------------------------
(***************************************************************************)
(* What is kept on disk for later: the request of a migration, what was     *)
(* approved and the baselines of its applies; the bundles of one host (six  *)
(* runs of which two are retained, one report after another); the snapshot  *)
(* and saved runs of the web server (two requests at a time).  They share   *)
(* nothing; a behaviour is of one of them.                                  *)
(***************************************************************************)
EXTENDS MigrationRequest, Bundles, ToolkitWeb, TLC

CONSTANTS f1, f2, c1, bad, x1, x2

VARIABLE system           \* which of the three

MCPan == <<x1, x2>>

\* A destination that has nothing, or an older copy of the service, the group,
\* the policy and a rule.
MCFirst ==
    LET nothing == [o \in Objects |-> IF o = "srcrule" THEN {"own"} ELSE Absent]
    IN {nothing, [nothing EXCEPT !["grp"] = {"own"}, !["svc"] = {"own"}, !["pol"] = {"own"},
                                 !["rule"] = {"own"}]}

MCInit == /\ MigrationInit /\ Init /\ WebInit /\ system \in {"request", "bundles", "web"}
          /\ system # "request" => source.rest = c1 /\ pan = {} /\ target["grp"] = Absent
MCNext == \/ system = "request" /\ MigrationNext /\ UNCHANGED <<vars, webVars, system>>
          \/ system = "bundles" /\ Next /\ UNCHANGED <<migrationVars, webVars, system>>
          \/ system = "web" /\ WebNext /\ UNCHANGED <<migrationVars, vars, system>>
MCSpec == MCInit /\ [][MCNext]_<<migrationVars, vars, webVars, system>>

Symmetry == Permutations({f1, f2}) \cup Permutations(Threads)
=============================================================================
