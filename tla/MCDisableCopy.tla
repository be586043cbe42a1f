--------------------------- MODULE MCDisableCopy ---------------------------
(***************************************************************************)
(* Two tools over the rules of NSX: step 1 of the rule cleanup with its      *)
(* undo, and the copy of the critical rules to another manager.  They share *)
(* nothing; a behaviour is of one of them.                                  *)
(***************************************************************************)
EXTENDS RuleDisable, CriticalRules, TLC

VARIABLE system           \* which of the two

\* One tool at a time with two edits and two faults; or both at once with one
\* edit and one fault.
MCBounds == {[overlap |-> FALSE, edits |-> 2, faults |-> 2],
             [overlap |-> TRUE, edits |-> 1, faults |-> 1]}

MCInit == /\ Init /\ CriticalInit /\ system \in {"disable", "copy"}
          /\ system # "disable" => \A r, s \in Rules : live[r].disabled /\ live[r] = live[s]
          /\ system # "copy" => source = "flat" /\ \A h \in Managers : Range(held[h]) = {Void}
MCNext == \/ system = "disable" /\ Next /\ UNCHANGED <<criticalVars, system>>
          \/ system = "copy" /\ CriticalNext /\ UNCHANGED <<vars, system>>
MCSpec == MCInit /\ [][MCNext]_<<vars, criticalVars, system>>

Symmetry == Permutations(Rules) \cup Permutations(Bodies)

\* Policy p is copied whole, of q the rule h; ga may hold gc, and gb ga.
Policy(category, mark, scope) == [category |-> category, mark |-> mark, scope |-> scope]
Rule(p, groups, services, n) ==
    [policy |-> p, groups |-> groups, services |-> services, hits |-> n, mark |-> "none"]
Group(nested) == [nested |-> nested, mark |-> "none"]
Service(entries) == [members |-> {}, entries |-> entries, mark |-> "none"]
Flat ==
    [policies |-> "p" :> Policy("Infrastructure", "none", {"ga"})
               @@ "q" :> Policy("Application", "none", {})
               @@ "d" :> Policy("Application", "default", {}),
     rules |-> "r" :> Rule("p", {"ga"}, {"s"}, 0) @@ "h" :> Rule("q", {"ga", "gb"}, {"s"}, 2)
            @@ "c" :> Rule("q", {"gc"}, {}, 0) @@ "dr" :> Rule("d", {}, {}, 5),
     groups |-> "ga" :> Group({}) @@ "gb" :> Group({}) @@ "gc" :> Group({}),
     services |-> "s" :> Service({}) @@ "t" :> Service({})]
NestedInOrder == [Flat EXCEPT !.groups["gb"].nested = {"ga"}, !.groups["ga"].nested = {"gc"},
                              !.services["s"].entries = {"t"}]
Marked == [Flat EXCEPT !.groups["gb"].mark = "system"]
\* No customer rule has hits.
Quiet == [Flat EXCEPT !.rules["h"].hits = 0]
MCSources == [flat |-> Flat, nested |-> NestedInOrder, marked |-> Marked, quiet |-> Quiet]
MCFirst == LET nothing == [o \in Objects |-> Void]
           IN  {nothing, [o \in Objects |-> IF o \in {"ga", "gb", "gc", "s", "t", "q"} THEN "own" ELSE Void]}
=============================================================================
