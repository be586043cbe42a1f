----------------------------- MODULE MCPushMerge -----------------------------
(* Model checking of PushMerge: group gb is the sibling of ga and may nest   *)
(* it; rules r1 and r2 are in different policies.                           *)
EXTENDS PushMerge, TLC

MCGroups == {"ga", "gb"}
MCRules == {"r1", "r2"}
MCPolicies == {{r} : r \in MCRules}
MCSibling == "ga" :> "gb"
MCFirstState == [ga |-> {"x"}, gb |-> Absent, r1 |-> {"ga"}, r2 |-> Absent]
MCBundles == {[ga |-> {"y"}, gb |-> {"ga"}, r1 |-> {"gb"}, r2 |-> {"ga"}],
              [ga |-> Absent, gb |-> {"x"}, r1 |-> {"ANY"}, r2 |-> {"ga", "gb"}]}
=============================================================================
