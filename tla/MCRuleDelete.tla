---------------------------- MODULE MCRuleDelete ----------------------------
(* Model checking of RuleDelete: p1 holds r1, p2 holds r2 and is applied to  *)
(* gb.  r1 names ga, which nests gb; r2 names gb once somebody has edited it. *)
EXTENDS RuleDelete

MCRules == {"r1", "r2"}
MCPolicies == {"p1", "p2"}
MCGroups == {"ga", "gb"}
MCPolicyOf == [r \in MCRules |-> IF r = "r1" THEN "p1" ELSE "p2"]
MCRefsOf == [r \in MCRules |-> [b \in {"old", "new"} |->
                IF r = "r1" THEN {"ga"} ELSE IF b = "new" THEN {"gb"} ELSE {}]]
MCAppliedTo == [p \in MCPolicies |-> IF p = "p2" THEN {"gb"} ELSE {}]
MCNests == [g \in MCGroups |-> IF g = "ga" THEN {"gb"} ELSE {}]

\* Nobody else writes, with a fault and four starts; or somebody writes once
\* around two starts, or twice around one.
MCBounds == {[edits |-> 0, faults |-> 1, starts |-> 4],
             [edits |-> 1, faults |-> 0, starts |-> 2], [edits |-> 2, faults |-> 0, starts |-> 1]}

\* Of the groups only gb may be used by something that is not a rule.
MCInit == Init /\ consumers \subseteq {"gb"}
MCSpec == MCInit /\ [][Next]_vars
=============================================================================
