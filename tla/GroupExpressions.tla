-------------------------- MODULE GroupExpressions --------------------------
(***************************************************************************)
(* The expression of an NSX group as the tools rewrite it: segments         *)
(* stripped or turned into addresses (transform_group_segments.py, and      *)
(* groups.py push --segments-mode), fabric paths taken out and the target's *)
(* addresses kept (groups.py), addresses of live members added              *)
(* (build_group_ip_additive_from_live_members.py), and two directories of   *)
(* groups compared (compare_group_ips.py).                                  *)
(* An expression is a sequence of items; "is" is what an item holds: the    *)
(* paths, the addresses or the operator.  An address is its canonical form. *)
(* No variables: every definition is a function of what the tools read.     *)
(***************************************************************************)
EXTENDS Naturals, FiniteSets, Sequences, SequencesExt

CONSTANTS Segments,    \* paths that SEGMENT_PATH_RE matches
          Fabric       \* paths that FABRIC_PATH_RE matches
ASSUME PathsAssumption == Segments \cap Fabric = {}

Item(kind, is) == [kind |-> kind, is |-> is]
Or == Item("operator", {"OR"})
IsOperator(item) == item.kind = "operator"
IpItem(ips) == Item("ip", ips)

\* Every address of the expression (groups.py _extract_ips).
ExtractIps(expr) == UNION {expr[i].is : i \in {j \in DOMAIN expr : expr[j].kind = "ip"}}

\* What NSX takes: operands with one operator between each two.
WellFormed(expr) ==
    /\ \A i \in DOMAIN expr : IsOperator(expr[i]) <=> i % 2 = 0
    /\ Len(expr) > 0 => Len(expr) % 2 = 1

-----------------------------------------------------------------------------
(* Segments.  cidrs[s] are the subnets the index has for segment s; to      *)
(* strip is to convert with an index that has none.                         *)

NoIndex == [s \in Segments |-> {}]
Replaced(item, cidrs) ==
    LET kept == item.is \ Segments
        resolved == UNION {cidrs[s] : s \in item.is \cap Segments}
        addresses == IF resolved = {} THEN <<>> ELSE <<IpItem(resolved)>>
    IN  CASE item.kind # "path" -> <<item>>
          [] item.kind = "path" /\ kept = {} -> addresses
          [] OTHER -> <<Item("path", kept)>>
                      \o (IF resolved = {} THEN <<>> ELSE <<Or>>) \o addresses

\* The operator before a dropped operand goes with it, else the one after it.
OperatorsToDrop(expr, dropped) ==
    {IF i > 1 /\ IsOperator(expr[i - 1]) THEN i - 1 ELSE i + 1 : i \in dropped}

Trim(expr) ==
    LET stay == {i \in DOMAIN expr : ~IsOperator(expr[i])}
    IN  IF stay = {} THEN <<>> ELSE SubSeq(expr, Min(stay), Max(stay))

StripSegments(expr, cidrs) ==
    LET dropped == {i \in DOMAIN expr : Replaced(expr[i], cidrs) = <<>>}
        out == dropped \cup OperatorsToDrop(expr, dropped)
    IN  Trim(FlattenSeq([i \in DOMAIN expr |->
                            IF i \in out THEN <<>> ELSE Replaced(expr[i], cidrs)]))

Unresolved(expr, cidrs) ==
    UNION {{s \in expr[i].is \cap Segments : cidrs[s] = {}} :
               i \in {j \in DOMAIN expr : expr[j].kind = "path"}}

\* _index_segments_by_path: the last of two segments with a path is indexed.
IndexSegments(found) ==
    [s \in Segments |->
        LET at == {i \in DOMAIN found : found[i].path = s}
        IN  IF at = {} THEN {} ELSE found[Max(at)].subnets]

\* _transform_tree: an index without any segment means strip.  Only the
\* groups with a segment, or with an operand dropped, are written.
TransformTree(groups, found) ==
    [g \in DOMAIN groups |->
        LET new == StripSegments(groups[g], IndexSegments(found))
            seen == \E i \in DOMAIN groups[g] :
                       groups[g][i].kind = "path" /\ groups[g][i].is \cap Segments # {}
            empty == Item("path", {}) \in Range(groups[g])
        IN  IF seen \/ empty THEN new ELSE groups[g]]

\* main: the output directory is a transformed copy, and replaces what is there
\* only when --overwrite says so; convert needs a place to find segments in.
SegmentsTool(groups, out, mode, overwrite, found, resolver) ==
    IF (mode = "convert" /\ ~resolver) \/ (out # <<>> /\ ~overwrite) THEN out
    ELSE TransformTree(groups, IF mode = "convert" THEN found ELSE <<>>)

-----------------------------------------------------------------------------
(* groups.py push: what is done to a group before it is written.            *)

\* groups.py has its own copy of the walk: new items first, drops after.
TransformSegments(expr, cidrs) ==
    LET new == [i \in DOMAIN expr |-> Replaced(expr[i], cidrs)]
        indicesToDrop == {i \in DOMAIN expr : new[i] = <<>>}
        operators == {j \in DOMAIN expr : IsOperator(expr[j])}
        orphaned == {j \in operators :
                        \/ j + 1 \in indicesToDrop
                        \/ j - 1 \in indicesToDrop /\ j - 2 \notin operators}
    IN  Trim(FlattenSeq([i \in DOMAIN expr |->
                            IF i \in orphaned THEN <<>> ELSE new[i]]))

\* _strip_fabric_paths_in_expression drops operands and never an operator.
StripFabric(expr) ==
    LET left(item) == IF item.kind # "path" THEN <<item>>
                      ELSE IF item.is \ Fabric = {} THEN <<>>
                      ELSE <<Item("path", item.is \ Fabric)>>
    IN  FlattenSeq([i \in DOMAIN expr |-> left(expr[i])])

\* _keep_target_ips: into the first address item, else into one of its own.
KeepTargetIps(expr, target) ==
    LET keep == ExtractIps(target) \ ExtractIps(expr)
        at == {i \in DOMAIN expr : expr[i].kind = "ip"}
    IN  IF keep = {} THEN expr
        ELSE IF at # {} THEN [expr EXCEPT ![Min(at)].is = @ \cup keep]
        ELSE expr \o (IF expr = <<>> THEN <<>> ELSE <<Or>>) \o <<IpItem(keep)>>

\* cmd_push: segments by mode, then fabric paths, then the target's addresses.
Transformed(expr, mode, cidrs) ==
    LET moved == CASE mode = "keep" -> expr
                   [] mode = "strip" -> TransformSegments(expr, NoIndex)
                   [] mode = "convert" -> TransformSegments(expr, cidrs)
    IN  IF \E i \in DOMAIN moved : moved[i].kind = "path" /\ moved[i].is \cap Fabric # {}
        THEN StripFabric(moved) ELSE moved

-----------------------------------------------------------------------------
(* build_group_ip_additive_from_live_members.py                             *)

\* ensure_ip_expression looks at the first address item only.
EnsureIps(expr, ips) ==
    LET at == {i \in DOMAIN expr : expr[i].kind = "ip"}
        existing == IF at = {} THEN {} ELSE expr[Min(at)].is
    IN  IF ips \subseteq existing THEN expr
        ELSE IF at # {} THEN [expr EXCEPT ![Min(at)].is = @ \cup ips]
        ELSE expr \o (IF expr = <<>> \/ IsOperator(Last(expr)) THEN <<>> ELSE <<Or>>)
                  \o <<IpItem(ips)>>

\* What becomes of a file.  answer: what the source manager says of the group.
Status(file, answer, live) ==
    CASE file.id = "" -> "skipped"
      [] ~live -> "skipped_no_live_query"
      [] answer = "error" -> "error"
      [] answer = "no members" -> "no_members"
      [] answer = "no addresses" -> "no_ips"
      [] OTHER -> IF EnsureIps(file.expr, file.ips) = file.expr THEN "no_new_ips"
                  ELSE "changed"

\* The output directory: a copy of the source first (--copy-first, or no
\* live query), then the changed groups.  An error ends the loop unless
\* --continue-on-group-error.
Built(files, answers, live, copyFirst, goesOn) ==
    LET st == [i \in DOMAIN files |-> Status(files[i], answers[i], live)]
        errors == {i \in DOMAIN st : st[i] = "error"}
        reached == IF goesOn \/ errors = {} THEN DOMAIN files ELSE 1 .. Min(errors)
        written == {i \in reached : st[i] = "changed"}
        copied == IF copyFirst \/ ~live THEN DOMAIN files ELSE {}
    IN  [i \in written \cup copied |->
            IF i \in written THEN EnsureIps(files[i].expr, files[i].ips) ELSE files[i].expr]

\* push_additive_group_ips.py: a PATCH replaces the whole expression.  fails
\* are the groups whose PATCH fails; --stop-on-error ends there.
PushAdditive(target, dir, fails, dry, stopOnError) ==
    LET sent == {i \in DOMAIN dir : ~stopOnError \/ \A f \in fails : i < f}
    IN  [i \in DOMAIN target |->
            IF i \in sent \ fails /\ ~dry THEN dir[i] ELSE target[i]]

\* compare_group_ips.py: one row per group of either side.
Drift(reference, current) ==
    [g \in DOMAIN reference \cup DOMAIN current |->
        LET was == IF g \in DOMAIN reference THEN ExtractIps(reference[g]) ELSE {}
            is == IF g \in DOMAIN current THEN ExtractIps(current[g]) ELSE {}
        IN  [added |-> is \ was, removed |-> was \ is,
             drift |-> is # was \/ (g \in DOMAIN reference) # (g \in DOMAIN current)]]
\* The exit code: 1 when any group drifted.
CompareRun(reference, current) ==
    IF \E g \in DOMAIN Drift(reference, current) : Drift(reference, current)[g].drift THEN 1 ELSE 0

-----------------------------------------------------------------------------
(* What the tools that rewrite group expressions promise of any expression  *)
(* NSX takes, whatever the segments resolve to.                             *)

Paths(expr) == UNION {expr[i].is : i \in {j \in DOMAIN expr : expr[j].kind = "path"}}
Sound(expr) == WellFormed(expr) /\ Item("path", {}) \notin Range(expr)
                                /\ IpItem({}) \notin Range(expr)

\* Two copies of the segment rewrite, with different walks, give one result:
\* a well-formed expression that holds every other path and condition, every
\* address it had and those of the segments that resolve; only segments leave.
\* groups.py push then adds what the target has to it, so that
\* compare_group_ips.py finds no address removed from the target and none of the
\* source missing; and ensure_ip_expression adds what it is given and no more
\* (transform_group_segments.py:140, groups.py:668, groups.py:200 and
\* build_group_ip_additive_from_live_members.py:147).
RewritesKeepTheRestOn(expr, target, found) ==
    \A mode \in {"strip", "convert"} :
        LET c == IF mode = "strip" THEN NoIndex ELSE IndexSegments(found)
            new == Transformed(expr, mode, c)
            resolved == UNION {c[s] : s \in Paths(expr) \cap Segments}
            pushed == KeepTargetIps(new, target)
            others(e) == SelectSeq(e, LAMBDA i : i.kind = "condition")
            group == [g \in {"g"} |-> expr]
            file == <<[id |-> "g", expr |-> new, ips |-> resolved \cup ExtractIps(target)]>>
            built == Built(file, <<"ok">>, TRUE, TRUE, FALSE)
        IN  /\ SegmentsTool(group, <<>>, mode, FALSE, found, TRUE)["g"] = new
            /\ Sound(new) /\ others(new) = others(expr)
            /\ Paths(new) = Paths(expr) \ Segments
            /\ ExtractIps(new) = ExtractIps(expr) \cup resolved
            /\ TransformSegments(new, c) = new
            /\ Sound(pushed)
            /\ Drift([g \in {"g"} |-> target], [g \in {"g"} |-> pushed])["g"].removed = {}
            /\ ExtractIps(pushed) = ExtractIps(new) \cup ExtractIps(target)
            /\ Sound(built[1]) /\ ExtractIps(built[1]) = ExtractIps(pushed)
            /\ PushAdditive(<<target>>, built, {}, FALSE, TRUE) = built
            /\ CompareRun(<<new>>, built) = 0 <=> ExtractIps(target) \subseteq ExtractIps(new)
            /\ Unresolved(expr, c) = {s \in Paths(expr) \cap Segments : c[s] = {}}
=============================================================================
