---------------------------- MODULE MCPushRevert ----------------------------
(* Model checking of PushRevert: service a is plain, service b may nest it.  *)
EXTENDS PushRevertProps, TLC

MCServices == {"a", "b"}

\* Plain, nesting a, and both with the note.
MCContents == {"plain", "nesting", "plainNoted", "nestingNoted"}
MCNests == [c \in MCContents |-> IF c \in {"nesting", "nestingNoted"} THEN {"a"} ELSE {}]
MCNoted == [c \in MCContents |->
               CASE c = "plain" -> "plainNoted" [] c = "nesting" -> "nestingNoted" [] OTHER -> c]

MCBundles == {[a |-> "plain", b |-> "nesting"], [a |-> Absent, b |-> "plain"]}
MCFirstStates == {[a |-> Absent, b |-> "plain"], [a |-> "plain", b |-> "nesting"]}

Symmetry == Permutations(Managers)
=============================================================================
