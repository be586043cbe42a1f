---------------------------- MODULE PayloadPush ----------------------------
(***************************************************************************)
(* The push of a whole captured bundle and its two rollbacks:              *)
(* push_from_capture.py with push_complete_nsx_payload.py or               *)
(* push_additive_group_ips.py, push_complete_nsx_revert.py (deletes what   *)
(* the baseline does not hold) and push_nsx_groups_revert.py (writes the   *)
(* groups of the baseline back).  Dry runs write nothing on the manager,   *)
(* but a dry run of push_from_capture.py takes a new baseline too.         *)
(***************************************************************************)
EXTENDS Naturals, Sequences, FiniteSets

CONSTANTS ServiceIds, GroupIds, PolicyIds, RuleIds,
          PolicyOf,       \* the policy of a rule
          NamesOf,        \* [object -> [content -> objects its content names]]
          Ips,            \* [group -> [content -> addresses]]
          System,         \* _system_owned objects
          SkipPolicies, DirName,
          Place,          \* [object -> its place in the order of files and ids]
          Exported, Transformed, Changed,  \* objects of the two bundles
          Missing,
          Sites,          \* what the target may hold at first
          PayloadBudgets  \* bounds: starts, edits, faults; and whether the
                          \* domain id is "default"

All == ServiceIds \cup GroupIds \cup PolicyIds \cup RuleIds
Contents == ({"new"} \cup UNION {{s[o] : o \in All} : s \in Sites}) \ {Missing}

ASSUME PayloadAssumption ==
    /\ GroupIds \cap RuleIds = {}
    /\ PolicyOf \in [RuleIds -> PolicyIds]
    /\ Missing # "new"
    /\ \A s \in Sites : s \in [All -> Contents \cup {Missing}]
    /\ Exported \cup Transformed \cup Changed \subseteq All
    /\ PayloadBudgets \subseteq [starts: Nat, edits: Nat, faults: Nat, default: BOOLEAN]

\* The name of a policy's directory ends in a digest: it is no object's id.
ASSUME DirectoryAssumption == \A p \in PolicyIds : DirName[p] \notin All

\* NSX lets no objects name each other in a circle: of any objects, one is
\* named by none of them.
ASSUME NamingAssumption ==
    \A S \in (SUBSET All) \ {{}} :
        \E o \in S : \A u \in S, c \in Contents : o \notin NamesOf[u][c]

VARIABLES
    site,       \* the target: [object -> content or Missing]
    baseline,   \* nsx_capture/<target>: the objects with their contents, and
                \* whether the capture went through
    tool,       \* the tool that runs
    touched,    \* written by somebody else since the tool started
    budget      \* an element of PayloadBudgets: what is left of it
payloadVars == <<site, baseline, tool, touched, budget>>

Live == {o \in All : site[o] # Missing}
Users(o) == {u \in Live : o \in NamesOf[u][site[u]]}

NoState == [o \in {} |-> Missing]
NoTool == [kind |-> "none", apply |-> FALSE, asked |-> <<>>, phases |-> <<>>, todo |-> {},
           live |-> NoState, failed |-> {}, skipped |-> {}, deleted |-> {},
           faulted |-> FALSE]

PayloadInit ==
    /\ site \in Sites /\ tool = NoTool /\ touched = {}
    /\ baseline = [state |-> NoState, was |-> {}, complete |-> FALSE, exists |-> FALSE]
    /\ budget \in PayloadBudgets

-----------------------------------------------------------------------------
\* The manager.
MayWrite(o, c) == NamesOf[o][c] \subseteq Live /\ (o \in RuleIds => PolicyOf[o] \in Live)
Written(o, c) == site' = [site EXCEPT ![o] = c]
MayDelete(o) == o \in Live /\ Users(o) = {}
RulesOf(p) == {r \in RuleIds : PolicyOf[r] = p}
Deleted(o) == site' = [u \in All |-> IF u \in {o} \cup RulesOf(o) THEN Missing ELSE site[u]]

CallLost == budget.faults > 0 /\ budget' = [budget EXCEPT !.faults = @ - 1]

-----------------------------------------------------------------------------
\* The baseline: capture_nsx_state.py wipes what was there and lists groups,
\* services, then policies with their rules; system-owned objects are left out.
SnapshotOf(S) == [o \in (Live \cap S) \ System |-> site[o]]
Discovered(s) ==
    LET ids == DOMAIN s IN
    (ids \cap GroupIds) \cup (IF budget.default THEN ids \cap ServiceIds ELSE {})
        \cup {DirName[p] : p \in ids \cap PolicyIds}

\* The steps of push_from_capture.py; the validation at the end only reads.
PushPhases(scope, skip) == IF skip THEN <<scope>> ELSE <<"baseline", scope>>

StartPush(scope, apply, skip) ==
    /\ tool = NoTool /\ budget.starts > 0
    /\ budget' = [budget EXCEPT !.starts = @ - 1]
    /\ tool' = [NoTool EXCEPT !.kind = "push", !.apply = apply, !.asked = <<scope>>,
                            !.phases = PushPhases(scope, skip)]
    /\ touched' = {} /\ UNCHANGED <<site, baseline>>

InBaseline == tool.phases # <<>> /\ Head(tool.phases) = "baseline"
TakeBaseline ==
    /\ InBaseline
    /\ baseline' = [state |-> SnapshotOf(All), was |-> Live, complete |-> TRUE, exists |-> TRUE]
    /\ tool' = [tool EXCEPT !.phases = Tail(@)]
    /\ UNCHANGED <<site, touched, budget>>

\* The capture fails at one of the lists; the push goes on.
CaptureFails ==
    /\ InBaseline /\ CallLost
    /\ \E S \in {{}, GroupIds, GroupIds \cup ServiceIds} :
          baseline' = [state |-> SnapshotOf(S), was |-> Live, complete |-> FALSE, exists |-> TRUE]
    /\ tool' = [tool EXCEPT !.phases = Tail(@), !.failed = @ \cup {"baseline"}]
    /\ UNCHANGED <<site, touched>>

-----------------------------------------------------------------------------
\* What is left to do is done in the order of the files and ids; a rollback of
\* groups writes those of the baseline back before it deletes the others.
HeldGroups == DOMAIN baseline.state \cap GroupIds
Before(o, u) == IF tool.kind = "groups" /\ (o \in HeldGroups) # (u \in HeldGroups)
                THEN o \in HeldGroups ELSE Place[o] < Place[u]
InTurn(o) == o \in tool.todo /\ \A u \in tool.todo \ {o} : Before(o, u)

Writing(o)   == tool.kind = "push" /\ InTurn(o)
Deleting(o)  == (tool.kind = "complete" \/ (tool.kind = "groups" /\ o \notin HeldGroups)) /\ InTurn(o)
Restoring(o) == tool.kind = "groups" /\ o \in HeldGroups /\ InTurn(o)

Handled(o) == [tool EXCEPT !.todo = @ \ {o}]
NotNoted(o) == Handled(o)
Noted(o) == [Handled(o) EXCEPT !.failed = @ \cup {o}]

\* The payload: services and policies of the captured export, groups of the
\* transformed bundle; groups only: those the remap changed.
Payload(scope) == IF scope = "complete" THEN (Exported \ GroupIds) \cup Transformed ELSE Changed

PushList ==
    /\ tool.kind = "push" /\ tool.phases # <<>> /\ ~InBaseline
    /\ tool' = [tool EXCEPT !.phases = Tail(@),
                            !.todo = IF tool.apply THEN Payload(tool.phases[1]) ELSE {}]
    /\ UNCHANGED <<site, baseline, touched, budget>>

\* A built-in policy is skipped, and so are the rules of a policy that failed
\* or was skipped.
Skips(o) == o \in SkipPolicies \/ (o \in RuleIds /\ PolicyOf[o] \in tool.failed \cup tool.skipped)

PutSkips(o) ==
    /\ Writing(o) /\ Skips(o)
    /\ tool' = [Handled(o) EXCEPT !.skipped = @ \cup {o}]
    /\ UNCHANGED <<site, baseline, touched, budget>>

\* PUT, or PATCH when the object is there already.
Puts(o) ==
    /\ Writing(o) /\ ~Skips(o) /\ MayWrite(o, "new")
    /\ Written(o, "new") /\ tool' = Handled(o)
    /\ UNCHANGED <<baseline, touched, budget>>

\* A refused or lost call is noted, and the next file follows.  A call whose
\* answer was lost may have been carried out.
PutFails(o) ==
    /\ Writing(o) /\ ~Skips(o)
    /\ \/ ~MayWrite(o, "new") /\ tool' = Noted(o) /\ UNCHANGED <<site, budget>>
       \/ /\ CallLost /\ tool' = [Noted(o) EXCEPT !.faulted = TRUE]
          /\ site' = site \/ (MayWrite(o, "new") /\ Written(o, "new"))
    /\ UNCHANGED <<baseline, touched>>

-----------------------------------------------------------------------------
\* push_complete_nsx_revert.py --apply, for the classes it is asked for.
StartRevert(phases) ==
    /\ tool = NoTool /\ baseline.exists /\ budget.starts > 0
    /\ budget' = [budget EXCEPT !.starts = @ - 1]
    /\ tool' = [NoTool EXCEPT !.kind = "complete", !.apply = TRUE, !.asked = phases, !.phases = phases]
    /\ touched' = {} /\ UNCHANGED <<site, baseline>>

ClassOf(phase) == CASE phase = "policies" -> PolicyIds
                    [] phase = "groups" -> GroupIds
                    [] phase = "services" -> ServiceIds
ToDelete(class, s) == (class \cap Live) \ (Discovered(s) \cup System)

RevertList ==
    /\ tool.kind = "complete" /\ tool.todo = {} /\ tool.phases # <<>>
    /\ tool' = [tool EXCEPT !.phases = Tail(@),
                            !.todo = ToDelete(ClassOf(tool.phases[1]), baseline.state)]
    /\ UNCHANGED <<site, baseline, touched, budget>>

DeleteDone(o) ==
    /\ Deleting(o) /\ MayDelete(o)
    /\ Deleted(o) /\ tool' = [Handled(o) EXCEPT !.deleted = @ \cup {o}]
    /\ UNCHANGED <<baseline, touched, budget>>

\* A deletion that fails is noted and the tool goes on: it ends with exit 0.
DeleteFails(o) ==
    /\ Deleting(o)
    /\ \/ ~MayDelete(o) /\ tool' = Noted(o) /\ UNCHANGED <<site, budget>>
       \/ /\ CallLost /\ tool' = [Noted(o) EXCEPT !.faulted = TRUE]
          /\ site' = site \/ (MayDelete(o) /\ Deleted(o))
    /\ UNCHANGED <<baseline, touched>>

-----------------------------------------------------------------------------
\* push_nsx_groups_revert.py --apply: the groups are listed once; those of the
\* baseline are written back, the others deleted with --delete-extraneous.
StartGroupsRevert(extraneous) ==
    /\ tool = NoTool /\ baseline.exists /\ budget.starts > 0
    /\ budget' = [budget EXCEPT !.starts = @ - 1]
    /\ LET others == IF extraneous THEN (GroupIds \cap Live) \ (HeldGroups \cup System) ELSE {} IN
       tool' = [NoTool EXCEPT !.kind = "groups", !.apply = TRUE,
                  !.asked = <<IF extraneous THEN "all" ELSE "restore">>,
                  !.live = [g \in GroupIds |-> site[g]],
                  !.todo = HeldGroups \cup others]
    /\ touched' = {} /\ UNCHANGED <<site, baseline>>

\* Only the addresses are compared.
NoChange(g) == tool.live[g] # Missing /\ Ips[g][tool.live[g]] = Ips[g][baseline.state[g]]

RestoreSkip(o) ==
    /\ Restoring(o) /\ NoChange(o) /\ tool' = Handled(o)
    /\ UNCHANGED <<site, baseline, touched, budget>>
Restore(o) ==
    /\ Restoring(o) /\ ~NoChange(o) /\ MayWrite(o, baseline.state[o])
    /\ Written(o, baseline.state[o]) /\ tool' = Handled(o)
    /\ UNCHANGED <<baseline, touched, budget>>
RestoreFails(o) ==
    /\ Restoring(o) /\ ~NoChange(o)
    /\ \/ ~MayWrite(o, baseline.state[o]) /\ UNCHANGED <<site, budget>>
       \/ /\ CallLost
          /\ site' = site \/ (MayWrite(o, baseline.state[o]) /\ Written(o, baseline.state[o]))
    /\ tool' = Noted(o) /\ UNCHANGED <<baseline, touched>>
\* The operator answers s.
Declined(o) ==
    /\ tool.kind = "groups" /\ InTurn(o) /\ (o \in HeldGroups => ~NoChange(o))
    /\ tool' = [Handled(o) EXCEPT !.skipped = @ \cup {o}]
    /\ UNCHANGED <<site, baseline, touched, budget>>

-----------------------------------------------------------------------------
Finished == tool # NoTool /\ tool.phases = <<>> /\ tool.todo = {} /\ tool' = NoTool
Ends == Finished /\ UNCHANGED <<site, baseline, touched, budget>>
\* The operator answers N, or the tool is killed.
Stops ==
    /\ tool.todo # {} /\ CallLost /\ tool' = NoTool /\ UNCHANGED <<site, baseline, touched>>

\* An administrator writes or deletes an object.
SomeoneWrites(o) ==
    /\ budget.edits > 0 /\ budget' = [budget EXCEPT !.edits = @ - 1]
    /\ o \notin System \cup RuleIds
    /\ \/ MayWrite(o, "new") /\ Written(o, "new")
       \/ MayDelete(o) /\ Deleted(o)
    /\ touched' = touched \cup {o} /\ UNCHANGED <<baseline, tool>>

RevertPhases == {<<"policies", "groups">>, <<"policies", "groups", "services">>,
                 <<"groups">>, <<"policies">>}
PayloadNext ==
    \/ \E scope \in {"complete", "groups"}, apply, skip \in BOOLEAN : StartPush(scope, apply, skip)
    \/ TakeBaseline \/ CaptureFails \/ PushList
    \/ \E phases \in RevertPhases : StartRevert(phases)
    \/ RevertList
    \/ \E extraneous \in BOOLEAN : StartGroupsRevert(extraneous)
    \/ \E o \in All : \/ PutSkips(o) \/ Puts(o) \/ PutFails(o)
                      \/ DeleteDone(o) \/ DeleteFails(o)
                      \/ RestoreSkip(o) \/ Restore(o) \/ RestoreFails(o) \/ Declined(o)
                      \/ SomeoneWrites(o)
    \/ Ends \/ Stops

PayloadSpec == PayloadInit /\ [][PayloadNext]_payloadVars

-----------------------------------------------------------------------------
\* A push that ends with exit 0 has written all of its payload, but for the
\* built-in policies and their rules.
PushLands ==
    tool.apply /\ tool.failed = {} =>
        \A o \in Payload(tool.asked[1]) \ (tool.skipped \cup touched) :
            site[o] = "new" \/ (o \in RuleIds /\ PolicyOf[o] \in touched)

\* A full rollback deletes no group that the target had when its baseline was
\* taken whole, and no service when the domain is the default one.  Without
\* failures it leaves nothing else of the classes it was asked for; with
\* failures but no lost call, it has got further, or something that stays
\* names what is left.
FullRevertReturns ==
    LET own == UNION {ClassOf(tool.asked[i]) : i \in DOMAIN tool.asked}
        left == (own \cap Live) \ (DOMAIN baseline.state \cup System \cup touched)
    IN  /\ baseline.complete =>
              \A o \in tool.deleted \cap baseline.was :
                  o \in PolicyIds \/ (o \in ServiceIds /\ ~budget.default)
        /\ tool.failed = {} => left = {}
        /\ ~tool.faulted /\ touched = {} =>
              left = {} \/ tool.deleted # {} \/ \E o \in left : Users(o) \ left # {}

\* A rollback of groups without failure or refusal brings back the addresses of
\* every group the target had, and with --delete-extraneous leaves no other.
GroupsReturn ==
    baseline.complete /\ tool.failed \cup tool.skipped = {} =>
        /\ \A g \in (GroupIds \cap baseline.was) \ (System \cup touched) :
              site[g] # Missing /\ Ips[g][site[g]] = Ips[g][baseline.state[g]]
        /\ tool.asked = <<"all">> =>
              GroupIds \cap Live \subseteq baseline.was \cup System \cup touched

\* What each tool of the payload push promises holds when it has ended.
PayloadPromises ==
    [][Finished => /\ tool.kind = "push" => PushLands
                   /\ tool.kind = "complete" => FullRevertReturns
                   /\ tool.kind = "groups" => GroupsReturn]_payloadVars
=============================================================================
