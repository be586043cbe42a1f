----------------------------- MODULE MCHitClient -----------------------------
(***************************************************************************)
(* The history of a rule's hits, and the client the tools read it with.     *)
(* They share nothing; a behaviour is of one of them.                       *)
(***************************************************************************)
EXTENDS HitHistory, NsxClient

VARIABLE system           \* which of the two

MCInit == /\ Init /\ ClientInit /\ system \in {"history", "client"}
          /\ system = "history" => /\ interval > 0 /\ \A t \in Threads \ {Main} : jobs[t].plan = <<>>
                                  /\ troubles = CHOOSE b \in Troubles : TRUE
MCNext == \/ system = "history" /\ Next /\ UNCHANGED <<clientVars, system>>
          \/ system = "client" /\ ClientNext /\ UNCHANGED <<vars, system>>
MCSpec == MCInit /\ [][MCNext]_<<vars, clientVars, system>>

Trouble(busy, faults, edits) == [busy |-> busy, faults |-> faults, edits |-> edits]
MCTroubles == {Trouble(2, 0, 0), Trouble(1, 1, 0), Trouble(0, 0, 2), Trouble(1, 0, 1), Trouble(0, 1, 1)}
=============================================================================
