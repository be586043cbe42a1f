--------------------------- MODULE MCTagsWorkflow ---------------------------
(***************************************************************************)
(* The tag tools, the workflow runner and the push of a whole bundle.  They *)
(* share nothing; a behaviour is of one of them.                            *)
(*                                                                         *)
(* v1 has room for one tag, v2 for two; the name of both gives the host     *)
(* name ha, and hb is one somebody may set by hand.  The criteria of g name *)
(* net and x, of which net is configured.                                   *)
(***************************************************************************)
EXTENDS TagTools, Workflow, PayloadPush

VARIABLE system           \* which of the three

MCInit == /\ Init /\ FlowInit /\ PayloadInit /\ system \in {"tags", "workflow", "payload"}
          /\ (system # "workflow") => target = Nothing /\ left = CHOOSE b \in Budgets : TRUE
          /\ (system # "payload") => /\ site = CHOOSE s \in Sites : TRUE
                                     /\ budget = CHOOSE b \in PayloadBudgets : TRUE
MCNext == \/ system = "tags" /\ Next /\ UNCHANGED <<flowVars, payloadVars, system>>
          \/ system = "workflow" /\ FlowNext /\ UNCHANGED <<vars, payloadVars, system>>
          \/ system = "payload" /\ PayloadNext /\ UNCHANGED <<vars, flowVars, system>>
MCSpec == MCInit /\ [][MCNext]_<<vars, flowVars, payloadVars, system>>

MCVmType == [v \in {"v1", "v2", "e"} |-> IF v = "e" THEN "EDGE" ELSE "REGULAR"]
MCNameTag == [v \in {"v1", "v2", "e"} |-> "ha"]
MCFirstState == [o \in {"v1", "v2", "e", "g", "h"} |-> IF o \in {"v1", "g"} THEN {"x"} ELSE {}]
MCCriteria == [g \in {"g", "h"} |-> {"net", "x"}]

\* Many phases undisturbed; or fewer, with an edit of the source and a second
\* capture; or with a fault; or one phase, with all of these.
Budget(runs, captures, edit, fault) ==
    [runs |-> runs, captures |-> captures, edits |-> edit, faults |-> fault]
MCBudgets == {Budget(3, 1, 0, 0), Budget(2, 2, 1, 0), Budget(2, 1, 0, 1), Budget(1, 2, 1, 1)}

\* The payload: a names c, which is listed after it; k names a once pushed; b,
\* where it is there already, names k; r of policy p names s and a; policy q is
\* the target's, z and policy d with rule e are the manager's own.
MCPolicyOf == [r \in {"r", "e"} |-> IF r = "r" THEN "p" ELSE "d"]
MCObjects == {"s", "a", "b", "c", "k", "z", "p", "q", "d", "r", "e"}
MCNamesOf == [o \in MCObjects |-> [c \in {"own", "new"} |->
    CASE o = "a" -> {"c"}
      [] o = "b" /\ c = "own" -> {"k"} [] o = "k" /\ c = "new" -> {"a"}
      [] o = "r" -> {"s", "a"} [] OTHER -> {}]]
MCIps == [g \in {"a", "b", "c", "k", "z"} |->
             [c \in {"own", "new"} |-> IF c = "new" /\ g # "k" THEN {1, 2} ELSE {1}]]
MCDirName == [p \in {"p", "q", "d"} |->
    CASE p = "p" -> "p-83878c91" [] p = "q" -> "q-7694f4a6" [] p = "d" -> "d-8277e091"]
MCInOrder == <<"s", "a", "b", "c", "k", "z", "d", "e", "p", "r", "q">>
MCPlace == [o \in MCObjects |-> CHOOSE i \in DOMAIN MCInOrder : MCInOrder[i] = o]
MCSites == {[o \in MCObjects |-> IF o \in own THEN "own" ELSE "gone"] :
               own \in {{"k", "z", "d", "e", "q"}, {"s", "b", "k", "z", "d", "e", "q"}}}
PayloadBudget(most, edit, fault, default) ==
    [starts |-> most, edits |-> edit, faults |-> fault, default |-> default]
MCPayloadBudgets ==
    {PayloadBudget(4, 0, 0, TRUE), PayloadBudget(3, 1, 0, TRUE), PayloadBudget(3, 0, 1, TRUE),
     PayloadBudget(2, 1, 1, TRUE), PayloadBudget(3, 0, 0, FALSE)}
=============================================================================
