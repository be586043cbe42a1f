-------------------------- MODULE PushMergeProofs --------------------------
(* What the push and revert tools of groups and rules promise, for any      *)
(* groups, rules, members, policies, bundles and bounds.                    *)
EXTENDS PushMerge, FiniteSetTheorems, TLAPS

Values == (SUBSET Members) \cup {Absent}

\* A baseline holds the objects of its tool that it could see.  A write of one
\* it could not see is lost.
BaselinesInv ==
    \A tool \in Tools : \A i \in DOMAIN stack[tool] :
        LET b == stack[tool][i] IN
        /\ b.pushed \subseteq b.wrote /\ b.wrote \subseteq Of(tool)
        /\ b.hidden \subseteq Of(tool) /\ b.wrote \cap b.hidden \subseteq lost
        /\ \A o \in b.hidden : b.state[o] = Absent

Pushes == {"push", "amend"}

\* A tool that runs works from its newest baseline: a push on objects its files
\* hold, a revert on what its push wrote or what the baseline holds.
JobInv ==
    /\ job.kind # "none" => stack[job.tool] # <<>> /\ job.base = Last(stack[job.tool]).state
    /\ job.kind \in Pushes =>
           /\ job.left \cup job.pending \subseteq Held(job.files) \cap Of(job.tool)
           /\ job.unrecorded \subseteq Last(stack[job.tool]).wrote
    /\ job.kind \notin Pushes => job.unrecorded = {}
    /\ job.kind = "revert" =>
           /\ job.left \subseteq Held(job.base) \cap Of(job.tool)
           /\ job.dels \subseteq Last(stack[job.tool]).pushed \ Held(job.base)

\* What a push still has to do is as its baseline says, but for what others
\* wrote, what was lost, and what the baseline could not see.
WaitingInv ==
    job.kind \in Pushes =>
        \A o \in job.left \cup job.pending :
            o \notin edited \cup lost \cup Last(stack[job.tool]).hidden
                => target[o] = job.base[o]

\* The companion files record every group that was written, but rules only if
\* they were created.
Noted(tool, i, o) == tool = "groups" \/ stack[tool][i].state[o] = Absent
AboutToRecord(tool) == IF job.tool = tool THEN Records ELSE {}

\* An object that differs from what a baseline says, in a later baseline or now,
\* was recorded since.
RecordedInv ==
    \A tool \in Tools : \A i \in DOMAIN stack[tool] :
        \A o \in Of(tool) \ (Loose \cup stack[tool][i].hidden) :
            Noted(tool, i, o) =>
                /\ \A j \in DOMAIN stack[tool] :
                       /\ i < j /\ o \notin stack[tool][j].hidden
                       /\ stack[tool][j].state[o] # stack[tool][i].state[o]
                       => \E k \in i..(j - 1) : o \in stack[tool][k].pushed
                /\ target[o] # stack[tool][i].state[o] =>
                       \/ o \in AboutToRecord(tool)
                       \/ \E k \in i..Len(stack[tool]) : o \in stack[tool][k].pushed

\* A revert that no call has failed still has to do every object that differs
\* from its baseline.
PlanInv ==
    job.kind = "revert" /\ ~job.failed =>
        \A o \in Of(job.tool) \ (Loose \cup Last(stack[job.tool]).hidden) :
            target[o] # job.base[o] => o \in job.dels \cup job.left

IInv == TypeOK /\ BaselinesInv /\ JobInv /\ WaitingInv /\ RecordedInv /\ PlanInv
-----------------------------------------------------------------------------
(* The undo stack of one tool.  Its steps are named here, for both tools at  *)
(* once, as UndoStack names them.                                            *)

Bar(tool) == [o \in Of(tool) |-> target[o]]
LooseOf(tool) == Loose \cap Of(tool)
OpenOf(tool) == UNION {DOMAIN Saved(tool)[i] : i \in DOMAIN Saved(tool)}

Saves(tool) ==
    /\ \E K \in SUBSET Of(tool) : Saved(tool)' = Append(Saved(tool), [k \in K |-> Bar(tool)[k]])
    /\ UNCHANGED <<Bar(tool), LooseOf(tool)>>
LetsGo(tool) ==
    /\ \E K \in SUBSET Of(tool) : LooseOf(tool)' = LooseOf(tool) \cup K
    /\ UNCHANGED <<Bar(tool), Saved(tool)>>
Changes(tool) ==
    /\ \E k \in Of(tool), v \in Values :
           /\ Bar(tool)' = [Bar(tool) EXCEPT ![k] = v]
           /\ \/ k \in OpenOf(tool) /\ UNCHANGED LooseOf(tool)
              \/ LooseOf(tool)' = LooseOf(tool) \cup {k}
    /\ UNCHANGED Saved(tool)
TakesOff(tool) ==
    /\ Saved(tool) # <<>>
    /\ \A k \in DOMAIN Last(Saved(tool)) \ LooseOf(tool) : Bar(tool)[k] = Last(Saved(tool))[k]
    /\ Saved(tool)' = Front(Saved(tool))
    /\ UNCHANGED <<Bar(tool), LooseOf(tool)>>
UndoStep(tool) == Saves(tool) \/ LetsGo(tool) \/ Changes(tool) \/ TakesOff(tool)

LEMMA GroupsMap == UndoStep("groups") => GroupsUndo!Next
<1>1. Of("groups") = Groups
    BY DEF Of
<1>2. Bar("groups") = [o \in Groups |-> target[o]] /\ LooseOf("groups") = Loose \cap Groups
      /\ Bar("groups")' = [o \in Groups |-> target'[o]] /\ LooseOf("groups")' = Loose' \cap Groups
    BY <1>1 DEF Bar, LooseOf
<1>3. CASE Saves("groups")
    BY <1>1, <1>2, <1>3 DEF Saves, GroupsUndo!Next, GroupsUndo!Save
<1>4. CASE LetsGo("groups")
    BY <1>1, <1>2, <1>4 DEF LetsGo, GroupsUndo!Next, GroupsUndo!LetGo
<1>5. CASE Changes("groups")
    BY <1>1, <1>2, <1>5 DEF Changes, OpenOf, Values, GroupsUndo!Next, GroupsUndo!Change,
                            GroupsUndo!Disturb, GroupsUndo!Open
<1>6. CASE TakesOff("groups")
    BY <1>1, <1>2, <1>6 DEF TakesOff, Last, Front, GroupsUndo!Next, GroupsUndo!TakeOff,
                            GroupsUndo!Last, GroupsUndo!Front
<1> QED
    BY <1>3, <1>4, <1>5, <1>6 DEF UndoStep

LEMMA RulesMap == UndoStep("rules") => RulesUndo!Next
<1>1. Of("rules") = Rules
    BY DEF Of
<1>2. Bar("rules") = [o \in Rules |-> target[o]] /\ LooseOf("rules") = Loose \cap Rules
      /\ Bar("rules")' = [o \in Rules |-> target'[o]] /\ LooseOf("rules")' = Loose' \cap Rules
    BY <1>1 DEF Bar, LooseOf
<1>3. CASE Saves("rules")
    BY <1>1, <1>2, <1>3 DEF Saves, RulesUndo!Next, RulesUndo!Save
<1>4. CASE LetsGo("rules")
    BY <1>1, <1>2, <1>4 DEF LetsGo, RulesUndo!Next, RulesUndo!LetGo
<1>5. CASE Changes("rules")
    BY <1>1, <1>2, <1>5 DEF Changes, OpenOf, Values, RulesUndo!Next, RulesUndo!Change,
                            RulesUndo!Disturb, RulesUndo!Open
<1>6. CASE TakesOff("rules")
    BY <1>1, <1>2, <1>6 DEF TakesOff, Last, Front, RulesUndo!Next, RulesUndo!TakeOff,
                            RulesUndo!Last, RulesUndo!Front
<1> QED
    BY <1>3, <1>4, <1>5, <1>6 DEF UndoStep

-----------------------------------------------------------------------------
(* Objects, baselines and jobs                                              *)

LEMMA OfTool ==
    /\ Of("groups") = Groups /\ Of("rules") = Rules /\ Objects = Groups \cup Rules
    /\ Groups \cap Rules = {}
    /\ \A tool \in Tools : Of(tool) \subseteq Objects
    /\ \A o \in Objects : \E tool \in Tools : o \in Of(tool)
    /\ \A t, u \in Tools : t # u => Of(t) \cap Of(u) = {}
BY ConstantsAssumption DEF Of, Tools, Objects

LEMMA StackFacts ==
    ASSUME TypeOK, NEW tool \in Tools
    PROVE  /\ stack[tool] \in Seq(Baseline) /\ Len(stack[tool]) \in Nat
           /\ DOMAIN stack[tool] = 1..Len(stack[tool])
           /\ \A i \in DOMAIN stack[tool] : stack[tool][i] \in Baseline
           /\ stack[tool] # <<>> => /\ Len(stack[tool]) \in DOMAIN stack[tool]
                                    /\ Last(stack[tool]) = stack[tool][Len(stack[tool])]
BY DEF TypeOK, Last

LEMMA WriteObject ==
    ASSUME TypeOK, NEW o \in Objects, NEW v \in Values, Write(o, v)
    PROVE  /\ target' \in States /\ target'[o] = v
           /\ \A q \in Objects : q # o => target'[q] = target[q]
BY DEF TypeOK, Write, States, Values

\* The record of the running tool's newest baseline changes.
LEMMA NoteInTop ==
    ASSUME TypeOK, stack[job.tool] # <<>>, NEW b \in Baseline,
           stack' = [stack EXCEPT ![job.tool][Top] = b]
    PROVE  /\ stack' \in [Tools -> Seq(Baseline)]
           /\ \A tool \in Tools : /\ Len(stack'[tool]) = Len(stack[tool])
                                  /\ DOMAIN stack'[tool] = DOMAIN stack[tool]
           /\ \A tool \in Tools : \A i \in DOMAIN stack[tool] :
                  stack'[tool][i] = IF tool = job.tool /\ i = Top THEN b ELSE stack[tool][i]
<1>1. job.tool \in Tools
    BY DEF TypeOK, Job
<1>2. Top \in DOMAIN stack[job.tool] /\ stack[job.tool] \in Seq(Baseline)
    BY <1>1, StackFacts DEF Top
<1> DEFINE s == [stack[job.tool] EXCEPT ![Top] = b]
<1>3. /\ s \in Seq(Baseline) /\ Len(s) = Len(stack[job.tool])
      /\ DOMAIN s = DOMAIN stack[job.tool]
      /\ \A i \in DOMAIN stack[job.tool] : s[i] = IF i = Top THEN b ELSE stack[job.tool][i]
    BY <1>2
<1>4. stack' = [stack EXCEPT ![job.tool] = s]
    OBVIOUS
<1> HIDE DEF s
<1>5. stack \in [Tools -> Seq(Baseline)]
    BY DEF TypeOK
<1> QED
    BY <1>1, <1>3, <1>4, <1>5

LEMMA SavedSame ==
    ASSUME NEW tool, DOMAIN stack'[tool] = DOMAIN stack[tool],
           \A i \in DOMAIN stack[tool] : /\ stack'[tool][i].state = stack[tool][i].state
                                         /\ stack'[tool][i].hidden = stack[tool][i].hidden
    PROVE  Saved(tool)' = Saved(tool)
BY DEF Saved

LEMMA BarSame ==
    ASSUME NEW tool, \A o \in Of(tool) : target'[o] = target[o]
    PROVE  Bar(tool)' = Bar(tool)
BY DEF Bar

\* A step that writes nothing and touches no saved value may let objects go.
LEMMA QuietStep ==
    ASSUME NEW tool, UNCHANGED target, Saved(tool)' = Saved(tool),
           Loose \subseteq Loose'
    PROVE  UndoStep(tool)
<1>1. LooseOf(tool)' = LooseOf(tool) \cup (Loose' \cap Of(tool))
    BY DEF LooseOf
<1> QED
    BY <1>1, BarSame DEF UndoStep, LetsGo

\* A write of one object is a step of its tool's undo stack if the object is in
\* a baseline, or loose from then on, and a stutter of the other's.
LEMMA WriteStep ==
    ASSUME TypeOK, NEW tool \in Tools, NEW o \in Objects, NEW v \in Values, Write(o, v),
           Saved(tool)' = Saved(tool),
           \/ /\ Loose' = Loose
              /\ o \in Of(tool) =>
                     \E i \in DOMAIN stack[tool] : o \notin stack[tool][i].hidden
           \/ Loose' = Loose \cup {o}
    PROVE  UndoStep(tool)
<1>1. \A q \in Objects : target'[q] = IF q = o THEN v ELSE target[q]
    BY WriteObject
<1>2. CASE o \notin Of(tool)
    <2>1. \A q \in Of(tool) : target'[q] = target[q]
        BY <1>1, <1>2, OfTool
    <2>2. LooseOf(tool)' = LooseOf(tool) \cup {}
        BY <1>2 DEF LooseOf
    <2> QED
        BY <2>1, <2>2, BarSame DEF UndoStep, LetsGo
<1>3. CASE o \in Of(tool)
    <2>1. Bar(tool)' = [Bar(tool) EXCEPT ![o] = v]
        BY <1>1, <1>3, OfTool DEF Bar
    <2>2. CASE Loose' = Loose \cup {o}
        <3>1. LooseOf(tool)' = LooseOf(tool) \cup {o}
            BY <1>3, <2>2 DEF LooseOf
        <3> QED
            BY <1>3, <2>1, <3>1 DEF UndoStep, Changes
    <2>3. CASE Loose' = Loose /\ \E i \in DOMAIN stack[tool] : o \notin stack[tool][i].hidden
        <3>1. PICK i \in DOMAIN stack[tool] : o \notin stack[tool][i].hidden
            BY <2>3
        <3>2. i \in DOMAIN Saved(tool) /\ o \in DOMAIN Saved(tool)[i]
            BY <1>3, <3>1 DEF Saved
        <3>3. o \in OpenOf(tool)
            BY <3>2 DEF OpenOf
        <3>4. LooseOf(tool)' = LooseOf(tool)
            BY <2>3 DEF LooseOf
        <3> QED
            BY <1>3, <2>1, <3>3, <3>4 DEF UndoStep, Changes
    <2> QED
        BY <1>3, <2>2, <2>3
<1> QED
    BY <1>2, <1>3

\* The values that steps give the job.
LEMMA JobTypes ==
    ASSUME NEW j \in Job, NEW L \in SUBSET Objects, NEW P \in SUBSET Objects,
           NEW U \in SUBSET Objects, NEW D \in SUBSET Objects
    PROVE  /\ [j EXCEPT !.left = L] \in Job
           /\ [j EXCEPT !.left = L, !.pending = P] \in Job
           /\ [j EXCEPT !.left = L, !.pending = P, !.unrecorded = U, !.progress = TRUE] \in Job
           /\ [j EXCEPT !.unrecorded = U] \in Job
           /\ [j EXCEPT !.dels = D] \in Job
           /\ [j EXCEPT !.left = L, !.failed = TRUE] \in Job
           /\ [j EXCEPT !.dels = D, !.failed = TRUE] \in Job
BY DEF Job

LEMMA RoundType ==
    ASSUME NEW j \in Job, NEW L \in SUBSET Objects, NEW n \in 0..RetryRounds
    PROVE  [j EXCEPT !.left = L, !.round = n, !.progress = FALSE] \in Job
BY DEF Job

LEMMA NoJobType ==
    /\ NoJob \in Job /\ NoJob.kind = "none" /\ NoJob.tool = "groups" /\ NoJob.unrecorded = {}
    /\ NoJob.left = {} /\ NoJob.pending = {} /\ NoJob.dels = {}
<1>1. Nothing \in States /\ 0 \in 0..RetryRounds
    BY BoundsAssumption DEF Nothing, States
<1> QED
    BY <1>1 DEF NoJob, Job, Tools

LEMMA Cards == Cardinality({}) <= 1 /\ \A o : Cardinality({o}) <= 1
BY FS_EmptySet, FS_Singleton

LEMMA FaultType == TypeOK /\ Fault => faults' \in 0..MaxFaults
BY BoundsAssumption DEF TypeOK, Fault

-----------------------------------------------------------------------------
(* Pushes and amendments                                                    *)

\* The tool goes on without a write.
LEMMA PushGoesOn ==
    ASSUME IInv, job.kind \in Pushes, job' \in Job, job.unrecorded = {},
           job'.kind = job.kind, job'.tool = job.tool, job'.base = job.base,
           job'.files = job.files, job'.unrecorded = job.unrecorded,
           job'.left \cup job'.pending \subseteq job.left \cup job.pending,
           UNCHANGED <<target, stack, edited, lost, kept, pushes, edits>>,
           faults' \in 0..MaxFaults
    PROVE  IInv' /\ \A tool \in Tools : UndoStep(tool)
<1>1. TypeOK'
    BY Cards DEF IInv, TypeOK
<1>2. BaselinesInv'
    BY DEF IInv, BaselinesInv
<1>3. JobInv'
    BY DEF IInv, JobInv, Pushes
<1>4. WaitingInv'
    BY DEF IInv, WaitingInv
<1>5. AboutToRecord("groups")' = AboutToRecord("groups") /\ AboutToRecord("rules")' = AboutToRecord("rules")
    BY DEF AboutToRecord, Records, Created
<1>6. \A tool \in Tools : AboutToRecord(tool)' = AboutToRecord(tool)
    BY <1>5 DEF Tools
<1>7. RecordedInv'
    BY <1>6 DEF IInv, RecordedInv, Noted, Loose
<1>8. PlanInv'
    BY DEF PlanInv, Pushes
<1>9. \A tool \in Tools : UndoStep(tool)
    BY QuietStep DEF Saved, Loose
<1> QED
    BY <1>1, <1>2, <1>3, <1>4, <1>7, <1>8, <1>9 DEF IInv

\* The tool is over, its baselines stay; a write it did not record is lost.
LEMMA Over ==
    ASSUME IInv, job' = NoJob, lost' = lost \cup job.unrecorded,
           UNCHANGED <<target, stack, edited, kept, pushes, edits>>,
           faults' \in 0..MaxFaults
    PROVE  IInv' /\ \A tool \in Tools : UndoStep(tool)
<1> USE NoJobType
<1>1. TypeOK'
    <2>1. job.unrecorded \subseteq Objects
        BY DEF IInv, TypeOK, Job
    <2> QED
        BY <2>1, Cards DEF IInv, TypeOK
<1>2. BaselinesInv'
    BY DEF IInv, BaselinesInv
<1>3. JobInv' /\ WaitingInv' /\ PlanInv'
    BY DEF JobInv, WaitingInv, PlanInv, Pushes
<1>4. Loose' = Loose \cup job.unrecorded
    BY DEF Loose
<1>5. \A tool \in Tools : AboutToRecord(tool) \subseteq job.unrecorded
    BY DEF AboutToRecord, Records, Created
<1>6. RecordedInv'
    <2> SUFFICES ASSUME NEW tool \in Tools, NEW i \in DOMAIN stack[tool],
                        NEW o \in Of(tool) \ (Loose' \cup stack[tool][i].hidden),
                        Noted(tool, i, o)
                 PROVE  /\ \A j \in DOMAIN stack[tool] :
                               /\ i < j /\ o \notin stack[tool][j].hidden
                               /\ stack[tool][j].state[o] # stack[tool][i].state[o]
                               => \E k \in i..(j - 1) : o \in stack[tool][k].pushed
                        /\ target[o] # stack[tool][i].state[o] =>
                               \E k \in i..Len(stack[tool]) : o \in stack[tool][k].pushed
        BY DEF RecordedInv, Noted
    <2>1. o \in Of(tool) \ (Loose \cup stack[tool][i].hidden) /\ o \notin AboutToRecord(tool)
        BY <1>4, <1>5
    <2> QED
        BY <2>1 DEF IInv, RecordedInv
<1>7. \A tool \in Tools : UndoStep(tool)
    BY <1>4, QuietStep DEF Saved
<1> QED
    BY <1>1, <1>2, <1>3, <1>6, <1>7 DEF IInv

\* The companion file gets what was written.
LEMMA RecordStep ==
    ASSUME IInv, PushRecord
    PROVE  IInv' /\ \A tool \in Tools : UndoStep(tool)
<1> DEFINE top == stack[job.tool][Top]
           b == [top EXCEPT !.pushed = @ \cup Records]
<1>1. /\ job.unrecorded # {} /\ job.kind \in Pushes /\ job \in Job /\ job.tool \in Tools
      /\ stack[job.tool] # <<>> /\ Last(stack[job.tool]) = top /\ top \in Baseline
      /\ Top \in DOMAIN stack[job.tool] /\ job.base = top.state
    <2>1. job.unrecorded # {} /\ job.kind \in Pushes /\ job \in Job /\ job.tool \in Tools
        BY DEF PushRecord, IInv, JobInv, TypeOK, Job
    <2>2. stack[job.tool] # <<>> /\ job.base = Last(stack[job.tool]).state
        BY <2>1 DEF IInv, JobInv, Pushes
    <2> QED
        BY <2>1, <2>2, StackFacts DEF IInv, Top
<1>2. /\ Records \subseteq job.unrecorded /\ job.unrecorded \subseteq top.wrote
      /\ top.wrote \subseteq Of(job.tool) /\ top.pushed \subseteq top.wrote
    BY <1>1 DEF Records, Created, IInv, JobInv, BaselinesInv
<1>3. /\ b \in Baseline /\ b.state = top.state /\ b.hidden = top.hidden /\ b.wrote = top.wrote
      /\ b.pushed = top.pushed \cup Records
    <2>1. Records \subseteq Objects
        BY <1>1, <1>2 DEF Job
    <2> QED
        BY <1>1, <2>1 DEF Baseline
<1>4. stack' = [stack EXCEPT ![job.tool][Top] = b]
    BY DEF PushRecord
<1> HIDE DEF b
<1>5. /\ stack' \in [Tools -> Seq(Baseline)]
      /\ \A tool \in Tools : /\ Len(stack'[tool]) = Len(stack[tool])
                             /\ DOMAIN stack'[tool] = DOMAIN stack[tool]
      /\ \A tool \in Tools : \A i \in DOMAIN stack[tool] :
             stack'[tool][i] = IF tool = job.tool /\ i = Top THEN b ELSE stack[tool][i]
    BY <1>1, <1>3, <1>4, NoteInTop DEF IInv
<1>6. \A tool \in Tools : \A i \in DOMAIN stack[tool] :
          /\ stack'[tool][i].state = stack[tool][i].state
          /\ stack'[tool][i].hidden = stack[tool][i].hidden
          /\ stack'[tool][i].wrote = stack[tool][i].wrote
          /\ stack[tool][i].pushed \subseteq stack'[tool][i].pushed
          /\ stack'[tool][i].pushed \subseteq stack'[tool][i].wrote
    BY <1>2, <1>3, <1>5 DEF IInv, BaselinesInv
<1>7. /\ job' \in Job /\ job'.unrecorded = {} /\ job'.kind = job.kind /\ job'.tool = job.tool
      /\ job'.base = job.base /\ job'.files = job.files /\ job'.left = job.left
      /\ job'.pending = job.pending
    <2>1. job' = [job EXCEPT !.unrecorded = {}] /\ {} \in SUBSET Objects
        BY DEF PushRecord
    <2>2. job' \in Job
        BY <1>1, <2>1, JobTypes
    <2> QED
        BY <1>1, <2>1, <2>2 DEF Job
<1>8. UNCHANGED <<target, edited, lost, kept, pushes, edits, faults>>
    BY DEF PushRecord, history
<1>9. TypeOK'
    BY <1>5, <1>7, <1>8, Cards DEF IInv, TypeOK
<1>10. BaselinesInv'
    BY <1>5, <1>6, <1>8 DEF IInv, BaselinesInv
<1>11. Last(stack'[job.tool]) = b /\ stack'[job.tool] # <<>>
    <2>1. Len(stack'[job.tool]) = Top /\ Top > 0 /\ stack'[job.tool][Top] = b
        BY <1>1, <1>5, StackFacts DEF IInv, Top
    <2> QED
        BY <2>1, <1>5, <1>1 DEF Last
<1>12. JobInv' /\ WaitingInv' /\ PlanInv'
    BY <1>1, <1>3, <1>7, <1>8, <1>11 DEF IInv, JobInv, WaitingInv, PlanInv, Pushes
<1>13. RecordedInv'
    <2> SUFFICES ASSUME NEW tool \in Tools, NEW i \in DOMAIN stack'[tool],
                        NEW o \in Of(tool) \ (Loose' \cup stack'[tool][i].hidden),
                        Noted(tool, i, o)'
                 PROVE  /\ \A j \in DOMAIN stack'[tool] :
                               /\ i < j /\ o \notin stack'[tool][j].hidden
                               /\ stack'[tool][j].state[o] # stack'[tool][i].state[o]
                               => \E k \in i..(j - 1) : o \in stack'[tool][k].pushed
                        /\ target'[o] # stack'[tool][i].state[o] =>
                               \E k \in i..Len(stack'[tool]) : o \in stack'[tool][k].pushed
        BY DEF RecordedInv
    <2>1. /\ i \in DOMAIN stack[tool] /\ o \in Of(tool) \ (Loose \cup stack[tool][i].hidden)
          /\ Noted(tool, i, o) /\ Len(stack[tool]) \in Nat /\ DOMAIN stack[tool] = 1..Len(stack[tool])
        BY <1>5, <1>6, <1>8, StackFacts DEF Loose, Noted, IInv
    <2>2. ASSUME NEW j \in DOMAIN stack[tool], i < j, o \notin stack[tool][j].hidden,
                 stack[tool][j].state[o] # stack[tool][i].state[o]
          PROVE  \E k \in i..(j - 1) : o \in stack'[tool][k].pushed
        <3>1. PICK k \in i..(j - 1) : o \in stack[tool][k].pushed
            BY <2>1, <2>2 DEF IInv, RecordedInv
        <3>2. k \in DOMAIN stack[tool]
            BY <2>1, <3>1
        <3> QED
            BY <1>6, <3>1, <3>2
    <2>3. ASSUME target[o] # stack[tool][i].state[o]
          PROVE  \E k \in i..Len(stack[tool]) : o \in stack'[tool][k].pushed
        <3>1. CASE o \in AboutToRecord(tool)
            <4>1. tool = job.tool /\ o \in Records
                BY <3>1 DEF AboutToRecord
            <4>2. stack'[tool][Top] = b /\ Top = Len(stack[tool])
                BY <1>1, <1>5, <4>1 DEF Top
            <4> QED
                BY <1>3, <2>1, <4>1, <4>2
        <3>2. CASE \E k \in i..Len(stack[tool]) : o \in stack[tool][k].pushed
            <4>1. PICK k \in i..Len(stack[tool]) : o \in stack[tool][k].pushed
                BY <3>2
            <4>2. k \in DOMAIN stack[tool]
                BY <2>1, <4>1
            <4> QED
                BY <1>6, <4>1, <4>2
        <3> QED
            BY <2>1, <2>3, <3>1, <3>2 DEF IInv, RecordedInv
    <2> QED
        BY <1>5, <1>6, <1>8, <2>1, <2>2, <2>3
<1>14. \A tool \in Tools : UndoStep(tool)
    BY <1>5, <1>6, <1>8, SavedSame, QuietStep DEF Loose
<1> QED
    BY <1>9, <1>10, <1>12, <1>13, <1>14 DEF IInv

\* What a push sends is a set of members.
LEMMA PayloadType ==
    ASSUME IInv, job.kind \in Pushes, NEW o \in job.left
    PROVE  /\ Payload(o) \in SUBSET Members /\ Payload(o) \in Values
           /\ o \in Of(job.tool) /\ o \in Objects /\ job.tool \in Tools
<1>1. /\ job.files \in States /\ job.base \in States /\ job.tool \in Tools
    BY DEF IInv, TypeOK, Job
<1>2. o \in Held(job.files) /\ o \in Of(job.tool) /\ o \in Objects
    BY DEF IInv, JobInv, Held
<1>3. job.files[o] \in SUBSET Members
    BY <1>1, <1>2 DEF Held, States
<1>4. In(job.base, o) \in SUBSET Members
    BY <1>1, <1>2 DEF In, States
<1> QED
    BY <1>1, <1>2, <1>3, <1>4 DEF Payload, Keep, KeptAddresses, KeptRefs, Values

\* An object is written, and becomes the tool's to record, or lost if its
\* baseline could not see it.
LEMMA WriteSteps ==
    ASSUME IInv, NEW o \in Objects, PushWrite(o)
    PROVE  IInv' /\ \A tool \in Tools : UndoStep(tool)
<1> DEFINE top == stack[job.tool][Top]
           b == [top EXCEPT !.wrote = @ \cup {o}]
<1>1. /\ job.kind \in Pushes /\ job.unrecorded = {} /\ o \in job.left /\ Write(o, Payload(o))
      /\ lost' = lost \cup ({o} \cap Hidden)
      /\ UNCHANGED <<edited, kept, pushes, edits, faults>>
    BY DEF PushWrite, Pushing, Pushes
<1>2. /\ o \in Of(job.tool) /\ job.tool \in Tools /\ job \in Job /\ Payload(o) \in Values
    BY <1>1, PayloadType DEF IInv, TypeOK
<1>3. /\ stack[job.tool] # <<>> /\ Last(stack[job.tool]) = top /\ top \in Baseline
      /\ Top \in DOMAIN stack[job.tool] /\ job.base = top.state /\ Hidden = top.hidden
      /\ Top = Len(stack[job.tool])
    <2>1. stack[job.tool] # <<>> /\ job.base = Last(stack[job.tool]).state
        BY <1>1 DEF IInv, JobInv, Pushes
    <2> QED
        BY <1>2, <2>1, StackFacts DEF IInv, Top, Hidden
<1>4. /\ b \in Baseline /\ b.state = top.state /\ b.hidden = top.hidden
      /\ b.pushed = top.pushed /\ b.wrote = top.wrote \cup {o}
    BY <1>3 DEF Baseline
<1>5. stack' = [stack EXCEPT ![job.tool][Top] = b]
    BY DEF PushWrite
<1>a. /\ Last(stack'[job.tool]) = b /\ stack'[job.tool] # <<>>
      /\ stack' \in [Tools -> Seq(Baseline)]
      /\ \A tool \in Tools : /\ Len(stack'[tool]) = Len(stack[tool])
                             /\ DOMAIN stack'[tool] = DOMAIN stack[tool]
      /\ \A tool \in Tools : \A i \in DOMAIN stack[tool] :
             stack'[tool][i] = IF tool = job.tool /\ i = Top THEN b ELSE stack[tool][i]
    <2> HIDE DEF b
    <2>1. /\ stack' \in [Tools -> Seq(Baseline)]
          /\ \A tool \in Tools : /\ Len(stack'[tool]) = Len(stack[tool])
                                 /\ DOMAIN stack'[tool] = DOMAIN stack[tool]
          /\ \A tool \in Tools : \A i \in DOMAIN stack[tool] :
                 stack'[tool][i] = IF tool = job.tool /\ i = Top THEN b ELSE stack[tool][i]
        BY <1>3, <1>4, <1>5, NoteInTop DEF IInv
    <2>2. Len(stack'[job.tool]) = Top /\ Top \in Nat \ {0} /\ stack'[job.tool][Top] = b
        BY <1>2, <1>3, <2>1, StackFacts DEF IInv
    <2>3. Last(stack'[job.tool]) = b /\ stack'[job.tool] # <<>>
        BY <2>2, <2>1, <1>2 DEF Last
    <2> QED
        BY <2>1, <2>3, <1>4
<1> HIDE DEF b
<1>6. \A tool \in Tools : \A i \in DOMAIN stack[tool] :
          /\ stack'[tool][i].state = stack[tool][i].state
          /\ stack'[tool][i].hidden = stack[tool][i].hidden
          /\ stack'[tool][i].pushed = stack[tool][i].pushed
          /\ stack[tool][i].wrote \subseteq stack'[tool][i].wrote
    BY <1>4, <1>a
<1>7. /\ job' \in Job /\ job'.unrecorded = {o} /\ job'.kind = job.kind /\ job'.tool = job.tool
      /\ job'.base = job.base /\ job'.files = job.files /\ job'.left = job.left \ {o}
      /\ job'.pending = job.pending \ {o}
    <2>1. job' = [job EXCEPT !.left = job.left \ {o}, !.pending = job.pending \ {o},
                             !.unrecorded = {o}, !.progress = TRUE]
        BY <1>1 DEF PushWrite
    <2>2. job.left \ {o} \in SUBSET Objects /\ job.pending \ {o} \in SUBSET Objects
          /\ {o} \in SUBSET Objects
        BY <1>2 DEF Job
    <2>3. job' \in Job
        BY <1>2, <2>1, <2>2, JobTypes
    <2> QED
        BY <1>2, <2>1, <2>3 DEF Job
<1>8. /\ target' \in States /\ \A q \in Objects : q # o => target'[q] = target[q]
    BY <1>1, <1>2, WriteObject DEF IInv
<1>9. lost \subseteq lost' /\ lost' \subseteq Objects /\ (o \in top.hidden => o \in lost')
    BY <1>1, <1>3 DEF IInv, TypeOK
<1>10. TypeOK'
    BY <1>1, <1>a, <1>7, <1>8, <1>9, Cards DEF IInv, TypeOK
<1>11. BaselinesInv'
    <2> SUFFICES ASSUME NEW tool \in Tools, NEW i \in DOMAIN stack[tool]
                 PROVE  LET c == stack'[tool][i] IN
                        /\ c.pushed \subseteq c.wrote /\ c.wrote \subseteq Of(tool)
                        /\ c.hidden \subseteq Of(tool) /\ c.wrote \cap c.hidden \subseteq lost'
                        /\ \A q \in c.hidden : c.state[q] = Absent
        BY <1>a DEF BaselinesInv
    <2>1. LET c == stack[tool][i] IN
              /\ c.pushed \subseteq c.wrote /\ c.wrote \subseteq Of(tool)
              /\ c.hidden \subseteq Of(tool) /\ c.wrote \cap c.hidden \subseteq lost
              /\ \A q \in c.hidden : c.state[q] = Absent
        BY DEF IInv, BaselinesInv
    <2>2. CASE tool = job.tool /\ i = Top
        BY <1>2, <1>4, <1>a, <1>9, <2>1, <2>2
    <2>3. CASE ~(tool = job.tool /\ i = Top)
        BY <1>a, <1>9, <2>1, <2>3
    <2> QED
        BY <2>2, <2>3
<1>12. JobInv'
    BY <1>1, <1>3, <1>4, <1>7, <1>a DEF IInv, JobInv, Pushes
<1>13. WaitingInv'
    <2> SUFFICES ASSUME NEW q \in job'.left \cup job'.pending,
                        q \notin edited \cup lost' \cup top.hidden
                 PROVE  target'[q] = job.base[q]
        BY <1>1, <1>4, <1>7, <1>a DEF WaitingInv
    <2>1. q \in job.left \cup job.pending /\ q # o /\ q \in Objects
        BY <1>2, <1>7 DEF Job
    <2>2. target[q] = job.base[q]
        BY <1>1, <1>3, <1>9, <2>1 DEF IInv, WaitingInv
    <2> QED
        BY <1>8, <2>1, <2>2
<1>14. Loose \subseteq Loose' /\ lost' \subseteq Loose'
    BY <1>1, <1>9 DEF Loose
<1>15. RecordedInv'
    <2> SUFFICES ASSUME NEW tool \in Tools, NEW i \in DOMAIN stack'[tool],
                        NEW q \in Of(tool) \ (Loose' \cup stack'[tool][i].hidden),
                        Noted(tool, i, q)'
                 PROVE  /\ \A j \in DOMAIN stack'[tool] :
                               /\ i < j /\ q \notin stack'[tool][j].hidden
                               /\ stack'[tool][j].state[q] # stack'[tool][i].state[q]
                               => \E k \in i..(j - 1) : q \in stack'[tool][k].pushed
                        /\ target'[q] # stack'[tool][i].state[q] =>
                               \/ q \in AboutToRecord(tool)'
                               \/ \E k \in i..Len(stack'[tool]) : q \in stack'[tool][k].pushed
        BY DEF RecordedInv
    <2>1. /\ i \in DOMAIN stack[tool] /\ q \in Of(tool) \ (Loose \cup stack[tool][i].hidden)
          /\ Noted(tool, i, q) /\ Len(stack[tool]) \in Nat /\ DOMAIN stack[tool] = 1..Len(stack[tool])
        BY <1>14, <1>a, <1>6, StackFacts DEF IInv, Noted
    <2>2. ASSUME NEW j \in DOMAIN stack[tool], i < j, q \notin stack[tool][j].hidden,
                 stack[tool][j].state[q] # stack[tool][i].state[q]
          PROVE  \E k \in i..(j - 1) : q \in stack[tool][k].pushed /\ k \in DOMAIN stack[tool]
        <3>1. PICK k \in i..(j - 1) : q \in stack[tool][k].pushed
            BY <2>1, <2>2 DEF IInv, RecordedInv
        <3>2. k \in DOMAIN stack[tool]
            BY <2>1, <3>1
        <3> QED
            BY <3>1, <3>2
    <2>3. ASSUME target'[q] # stack[tool][i].state[q]
          PROVE  \/ q \in AboutToRecord(tool)'
                 \/ \E k \in i..Len(stack[tool]) : q \in stack'[tool][k].pushed
        <3>1. CASE q # o
            <4>1. target[q] # stack[tool][i].state[q]
                BY <1>8, <2>3, <3>1, <2>1, OfTool
            <4>2. AboutToRecord(tool) = {}
                BY <1>1 DEF AboutToRecord, Records, Created
            <4>3. PICK k \in i..Len(stack[tool]) : q \in stack[tool][k].pushed
                BY <2>1, <4>1, <4>2 DEF IInv, RecordedInv
            <4>4. k \in DOMAIN stack[tool]
                BY <2>1, <4>3
            <4> QED
                BY <1>6, <4>3, <4>4
        <3>2. CASE q = o
            <4>1. tool = job.tool /\ q \notin top.hidden
                BY <1>2, <1>9, <1>14, <2>1, <3>2, OfTool
            <4>2. CASE tool = "groups" \/ job.base[o] = Absent
                <5>1. o \in Records'
                    BY <1>7, <4>1, <4>2 DEF Records, Created
                <5> QED
                    BY <1>7, <3>2, <4>1, <5>1 DEF AboutToRecord
            <4>3. CASE tool # "groups" /\ job.base[o] # Absent
                <5>1. stack[tool][i].state[o] = Absent /\ stack[tool][Top].state[o] # Absent
                    BY <1>3, <2>1, <3>2, <4>1, <4>3 DEF Noted
                <5>2. Top \in DOMAIN stack[tool] /\ i < Top /\ Top = Len(stack[tool])
                    BY <1>3, <2>1, <4>1, <5>1
                <5>3. PICK k \in i..(Top - 1) : q \in stack[tool][k].pushed /\ k \in DOMAIN stack[tool]
                    BY <2>2, <3>2, <4>1, <5>1, <5>2
                <5> QED
                    BY <1>6, <2>1, <5>2, <5>3
            <4> QED
                BY <4>2, <4>3
        <3> QED
            BY <3>1, <3>2
    <2>4. ASSUME NEW j \in DOMAIN stack'[tool], i < j, q \notin stack'[tool][j].hidden,
                 stack'[tool][j].state[q] # stack'[tool][i].state[q]
          PROVE  \E k \in i..(j - 1) : q \in stack'[tool][k].pushed
        <3>1. /\ j \in DOMAIN stack[tool] /\ q \notin stack[tool][j].hidden
              /\ stack[tool][j].state[q] # stack[tool][i].state[q]
            BY <1>a, <1>6, <2>1, <2>4
        <3>2. PICK k \in i..(j - 1) : q \in stack[tool][k].pushed /\ k \in DOMAIN stack[tool]
            BY <2>2, <2>4, <3>1
        <3> QED
            BY <1>6, <3>2
    <2>5. stack'[tool][i].state = stack[tool][i].state /\ Len(stack'[tool]) = Len(stack[tool])
        BY <1>a, <1>6, <2>1
    <2> QED
        BY <2>3, <2>4, <2>5
<1>16. PlanInv'
    BY <1>1, <1>7 DEF PlanInv, Pushes
<1>17. ASSUME NEW tool \in Tools PROVE UndoStep(tool)
    <2>1. Saved(tool)' = Saved(tool)
        BY <1>a, <1>6, SavedSame
    <2>2. CASE o \in Hidden
        <3>1. Loose' = Loose \cup {o}
            BY <1>1, <2>2 DEF Loose
        <3> QED
            BY <1>1, <1>2, <2>1, <3>1, WriteStep DEF IInv
    <2>3. CASE o \notin Hidden
        <3>1. Loose' = Loose
            BY <1>1, <2>3 DEF Loose
        <3>2. o \in Of(tool) => \E i \in DOMAIN stack[tool] : o \notin stack[tool][i].hidden
            BY <1>2, <1>3, <2>3, OfTool
        <3> QED
            BY <1>1, <1>2, <2>1, <3>1, <3>2, WriteStep DEF IInv
    <2> QED
        BY <2>2, <2>3
<1> QED
    BY <1>10, <1>11, <1>12, <1>13, <1>15, <1>16, <1>17 DEF IInv

\* A write that took effect although its call failed is lost.
LEMMA LostWrite ==
    ASSUME IInv, NEW o \in Objects, job.kind \in Pushes, job.unrecorded = {}, o \in job.left,
           Write(o, Payload(o)), lost' = lost \cup {o},
           job' = [job EXCEPT !.left = @ \ {o}, !.pending = @ \ {o}],
           UNCHANGED <<stack, edited, kept, pushes, edits>>, faults' \in 0..MaxFaults
    PROVE  IInv' /\ \A tool \in Tools : UndoStep(tool)
<1>1. /\ job \in Job /\ job.tool \in Tools /\ Payload(o) \in Values
    BY PayloadType DEF IInv, TypeOK
<1>2. /\ job' \in Job /\ job'.unrecorded = {} /\ job'.kind = job.kind /\ job'.tool = job.tool
      /\ job'.base = job.base /\ job'.files = job.files /\ job'.left = job.left \ {o}
      /\ job'.pending = job.pending \ {o}
    <2>1. job.left \ {o} \in SUBSET Objects /\ job.pending \ {o} \in SUBSET Objects
          /\ {} \in SUBSET Objects
        BY <1>1 DEF Job
    <2>2. job' \in Job
        BY <1>1, <2>1, JobTypes
    <2> QED
        BY <1>1, <2>2 DEF Job
<1>3. /\ target' \in States /\ \A q \in Objects : q # o => target'[q] = target[q]
    BY <1>1, WriteObject DEF IInv
<1>4. Loose' = Loose \cup {o}
    BY DEF Loose
<1>5. TypeOK'
    BY <1>2, <1>3, Cards DEF IInv, TypeOK
<1>6. BaselinesInv'
    BY DEF IInv, BaselinesInv
<1>7. JobInv' /\ PlanInv'
    BY <1>2 DEF IInv, JobInv, PlanInv, Pushes
<1>8. WaitingInv'
    <2> SUFFICES ASSUME NEW q \in job'.left \cup job'.pending,
                        q \notin edited \cup lost' \cup Last(stack[job.tool]).hidden
                 PROVE  target'[q] = job.base[q]
        BY <1>2 DEF WaitingInv
    <2>1. q \in job.left \cup job.pending /\ q # o /\ q \in Objects
        BY <1>1, <1>2 DEF Job
    <2> QED
        BY <1>3, <2>1 DEF IInv, WaitingInv
<1>9. \A tool \in Tools : AboutToRecord(tool) = {} /\ AboutToRecord(tool)' = {}
    BY <1>2 DEF AboutToRecord, Records, Created
<1>10. RecordedInv'
    <2> SUFFICES ASSUME NEW tool \in Tools, NEW i \in DOMAIN stack[tool],
                        NEW q \in Of(tool) \ (Loose' \cup stack[tool][i].hidden),
                        Noted(tool, i, q)
                 PROVE  /\ \A j \in DOMAIN stack[tool] :
                               /\ i < j /\ q \notin stack[tool][j].hidden
                               /\ stack[tool][j].state[q] # stack[tool][i].state[q]
                               => \E k \in i..(j - 1) : q \in stack[tool][k].pushed
                        /\ target'[q] # stack[tool][i].state[q] =>
                               \E k \in i..Len(stack[tool]) : q \in stack[tool][k].pushed
        BY DEF RecordedInv, Noted
    <2>1. q \in Of(tool) \ (Loose \cup stack[tool][i].hidden) /\ target'[q] = target[q]
        BY <1>3, <1>4, OfTool
    <2> QED
        BY <1>9, <2>1 DEF IInv, RecordedInv
<1>11. \A tool \in Tools : UndoStep(tool)
    BY <1>1, <1>4, WriteStep DEF IInv, Saved
<1> QED
    BY <1>5, <1>6, <1>7, <1>8, <1>10, <1>11 DEF IInv

\* Every step of a push or an amendment, after its start.
LEMMA PushSteps ==
    ASSUME IInv, PushRecord \/ PushRetry \/ PushEnd
                 \/ \E o \in Objects : PushSkip(o) \/ PushWrite(o) \/ PushMissing(o) \/ PushFails(o)
    PROVE  IInv' /\ \A tool \in Tools : UndoStep(tool)
<1>j. job \in Job /\ faults \in 0..MaxFaults
    BY DEF IInv, TypeOK
<1>1. CASE PushRecord
    BY <1>1, RecordStep
<1>2. CASE PushRetry
    <2>1. /\ job' = [job EXCEPT !.left = job.pending, !.round = job.round + 1, !.progress = FALSE]
          /\ job.kind \in Pushes /\ job.unrecorded = {}
          /\ UNCHANGED <<target, stack, edited, lost, kept, pushes, edits, faults>>
        BY <1>2 DEF PushRetry, Pushing, Pushes, history
    <2>2. job.pending \in SUBSET Objects /\ job.round + 1 \in 0..RetryRounds
        BY <1>2, <1>j, BoundsAssumption DEF PushRetry, MayRetry, Job
    <2>3. job' \in Job
        BY <1>j, <2>1, <2>2, RoundType
    <2>4. /\ job'.kind = job.kind /\ job'.tool = job.tool /\ job'.base = job.base
          /\ job'.files = job.files /\ job'.unrecorded = job.unrecorded
          /\ job'.left \cup job'.pending \subseteq job.left \cup job.pending
        BY <1>j, <2>1 DEF Job
    <2> QED
        BY <1>j, <2>1, <2>3, <2>4, PushGoesOn
<1>3. CASE PushEnd
    BY <1>3, <1>j, Over DEF PushEnd, Pushing, history
<1>4. ASSUME NEW o \in Objects, PushWrite(o)
      PROVE  IInv' /\ \A tool \in Tools : UndoStep(tool)
    BY <1>4, WriteSteps
<1>5. ASSUME NEW o \in Objects, PushSkip(o) \/ PushMissing(o) \/ PushFails(o)
      PROVE  IInv' /\ \A tool \in Tools : UndoStep(tool)
    <2>1. /\ job.kind \in Pushes /\ job.unrecorded = {} /\ o \in job.left
          /\ UNCHANGED <<stack, edited, kept, pushes, edits>> /\ faults' \in 0..MaxFaults
        BY <1>5, <1>j, FaultType DEF PushSkip, PushMissing, PushFails, Pushing, Pushes, history, IInv
    <2>2. PICK P \in {job.pending, job.pending \cup {o}, job.pending \ {o}} :
              job' = [job EXCEPT !.left = job.left \ {o}, !.pending = P]
        <3>1. CASE PushSkip(o)
            <4>1. job' = [job EXCEPT !.left = job.left \ {o}]
                BY <3>1 DEF PushSkip
            <4>2. job' = [job EXCEPT !.left = job.left \ {o}, !.pending = job.pending]
                BY <1>j, <4>1 DEF Job
            <4> QED
                BY <4>2
        <3>2. CASE PushMissing(o)
            BY <3>2 DEF PushMissing
        <3>3. CASE PushFails(o)
            BY <3>3 DEF PushFails
        <3> QED
            BY <1>5, <3>1, <3>2, <3>3
    <2>3. job.left \ {o} \in SUBSET Objects /\ P \in SUBSET Objects /\ P \subseteq job.left \cup job.pending
        BY <1>j, <2>1, <2>2 DEF Job
    <2>4. job' \in Job
        BY <1>j, <2>2, <2>3, JobTypes
    <2>5. /\ job'.kind = job.kind /\ job'.tool = job.tool /\ job'.base = job.base
          /\ job'.files = job.files /\ job'.unrecorded = job.unrecorded
          /\ job'.left \cup job'.pending \subseteq job.left \cup job.pending
        BY <1>j, <2>2, <2>3 DEF Job
    <2>6. CASE UNCHANGED <<target, lost>>
        BY <2>1, <2>4, <2>5, <2>6, PushGoesOn
    <2>7. CASE PushFails(o) /\ Write(o, Payload(o)) /\ lost' = lost \cup {o}
        BY <2>1, <2>7, LostWrite DEF PushFails
    <2> QED
        BY <1>5, <2>6, <2>7 DEF PushSkip, PushMissing, PushFails, history
<1> QED
    BY <1>1, <1>2, <1>3, <1>4, <1>5

\* A push or an amendment has saved what it could see on top of the stack.
LEMMA Begins ==
    ASSUME IInv, NEW tool \in Tools, NEW hidden \in SUBSET Rules,
           hidden \subseteq Of(tool), job.kind = "none", Save(tool, hidden),
           job' \in Job, job'.kind \in Pushes, job'.tool = tool,
           job'.base = Capture(tool, hidden),
           job'.left \subseteq Held(job'.files) \cap Of(tool),
           job'.pending = {}, job'.unrecorded = {},
           UNCHANGED <<target, edited, lost, kept, edits>>,
           pushes' \in 0..MaxPushes, faults' \in 0..MaxFaults
    PROVE  IInv' /\ \A t \in Tools : UndoStep(t)
<1> DEFINE n == Len(stack[tool])
           b == [state |-> Capture(tool, hidden), hidden |-> hidden, pushed |-> {}, wrote |-> {}]
<1>1. /\ b.state = Capture(tool, hidden) /\ b.hidden = hidden /\ b.pushed = {} /\ b.wrote = {}
      /\ b \in Baseline
      /\ \A o \in Of(tool) \ hidden : b.state[o] = target[o]
      /\ \A o \in hidden : b.state[o] = Absent
    <2>1. Capture(tool, hidden) \in States
        BY DEF Capture, States, IInv, TypeOK
    <2>2. /\ \A o \in Of(tool) \ hidden : Capture(tool, hidden)[o] = target[o]
          /\ \A o \in hidden : Capture(tool, hidden)[o] = Absent
        BY OfTool DEF Capture
    <2> QED
        BY <2>1, <2>2 DEF Baseline
<1>2. stack' = [stack EXCEPT ![tool] = Append(stack[tool], b)]
    BY DEF Save
<1> HIDE DEF b
<1>3. /\ stack[tool] \in Seq(Baseline) /\ n \in Nat /\ DOMAIN stack[tool] = 1..n
    BY StackFacts DEF IInv
<1>4. /\ stack' \in [Tools -> Seq(Baseline)]
      /\ stack'[tool] = Append(stack[tool], b)
      /\ \A t \in Tools \ {tool} : stack'[t] = stack[t]
    BY <1>1, <1>2, <1>3 DEF IInv, TypeOK
<1>5. /\ stack'[tool] # <<>> /\ Last(stack'[tool]) = b /\ Len(stack'[tool]) = n + 1
      /\ DOMAIN stack'[tool] = 1..(n + 1)
      /\ stack'[tool][n + 1] = b
      /\ \A i \in 1..n : stack'[tool][i] = stack[tool][i]
    BY <1>1, <1>3, <1>4 DEF Last
<1>6. TypeOK'
    BY <1>4, Cards DEF IInv, TypeOK
<1>7. BaselinesInv'
    <2> SUFFICES ASSUME NEW t \in Tools, NEW i \in DOMAIN stack'[t]
                 PROVE  LET c == stack'[t][i] IN
                        /\ c.pushed \subseteq c.wrote /\ c.wrote \subseteq Of(t)
                        /\ c.hidden \subseteq Of(t) /\ c.wrote \cap c.hidden \subseteq lost'
                        /\ \A q \in c.hidden : c.state[q] = Absent
        BY DEF BaselinesInv
    <2>1. CASE t = tool /\ i = n + 1
        BY <1>1, <1>5, <2>1
    <2>2. CASE i \in DOMAIN stack[t] /\ stack'[t][i] = stack[t][i]
        BY <2>2 DEF IInv, BaselinesInv
    <2>3. CASE t # tool
        BY <1>4, <2>2, <2>3
    <2>4. CASE t = tool /\ i \in 1..n
        BY <1>3, <1>5, <2>2, <2>4
    <2>5. CASE t = tool /\ i \notin 1..n
        BY <1>3, <1>5, <2>1, <2>5
    <2> QED
        BY <2>3, <2>4, <2>5
<1>8. JobInv' /\ PlanInv'
    BY <1>1, <1>5 DEF JobInv, PlanInv, Pushes
<1>9. WaitingInv'
    BY <1>1, <1>5 DEF WaitingInv
<1>10. \A t \in Tools : AboutToRecord(t) = {} /\ AboutToRecord(t)' = {}
    <2>1. job.unrecorded = {}
        BY DEF IInv, JobInv, Pushes
    <2> QED
        BY <2>1 DEF AboutToRecord, Records, Created
<1>11. RecordedInv'
    <2> SUFFICES ASSUME NEW t \in Tools, NEW i \in DOMAIN stack'[t],
                        NEW o \in Of(t) \ (Loose' \cup stack'[t][i].hidden),
                        Noted(t, i, o)'
                 PROVE  /\ \A j \in DOMAIN stack'[t] :
                               /\ i < j /\ o \notin stack'[t][j].hidden
                               /\ stack'[t][j].state[o] # stack'[t][i].state[o]
                               => \E k \in i..(j - 1) : o \in stack'[t][k].pushed
                        /\ target[o] # stack'[t][i].state[o] =>
                               \E k \in i..Len(stack'[t]) : o \in stack'[t][k].pushed
        BY DEF RecordedInv
    <2>1. Loose' = Loose
        BY DEF Loose
    <2>2. CASE t # tool
        <3>1. /\ stack'[t] = stack[t] /\ i \in DOMAIN stack[t] /\ Noted(t, i, o)
              /\ o \in Of(t) \ (Loose \cup stack[t][i].hidden) /\ o \notin AboutToRecord(t)
            BY <1>4, <1>10, <2>1, <2>2 DEF Noted
        <3> QED
            BY <3>1 DEF IInv, RecordedInv
    <2>3. CASE t = tool /\ i = n + 1
        <3>1. \A j \in DOMAIN stack'[t] : ~(i < j)
            BY <1>3, <1>5, <2>3
        <3>2. target[o] = stack'[t][i].state[o]
            BY <1>1, <1>5, <2>3
        <3> QED
            BY <3>1, <3>2
    <2>4. CASE t = tool /\ i \in 1..n
        <3>1. /\ i \in DOMAIN stack[t] /\ stack'[t][i] = stack[t][i] /\ Noted(t, i, o)
              /\ o \in Of(t) \ (Loose \cup stack[t][i].hidden)
            BY <1>3, <1>5, <2>1, <2>4 DEF Noted
        <3>2. ASSUME target[o] # stack[t][i].state[o]
              PROVE  \E k \in i..n : o \in stack'[t][k].pushed
            <4>1. PICK k \in i..n : o \in stack[t][k].pushed
                BY <1>10, <2>4, <3>1, <3>2 DEF IInv, RecordedInv
            <4>2. k \in 1..n
                BY <1>3, <2>4, <4>1
            <4> QED
                BY <1>5, <2>4, <4>1, <4>2
        <3>3. ASSUME NEW j \in DOMAIN stack'[t], i < j, o \notin stack'[t][j].hidden,
                     stack'[t][j].state[o] # stack[t][i].state[o]
              PROVE  \E k \in i..(j - 1) : o \in stack'[t][k].pushed
            <4>1. CASE j = n + 1
                <5>1. target[o] # stack[t][i].state[o]
                    BY <1>1, <1>5, <2>4, <3>3, <4>1
                <5> QED
                    BY <1>3, <3>2, <4>1, <5>1
            <4>2. CASE j # n + 1
                <5>1. j \in DOMAIN stack[t] /\ j \in 1..n /\ stack'[t][j] = stack[t][j]
                    BY <1>3, <1>5, <2>4, <4>2
                <5>2. PICK k \in i..(j - 1) : o \in stack[t][k].pushed
                    BY <3>1, <3>3, <5>1 DEF IInv, RecordedInv
                <5>3. k \in 1..n
                    BY <1>3, <2>4, <5>1, <5>2
                <5> QED
                    BY <1>5, <2>4, <5>2, <5>3
            <4> QED
                BY <4>1, <4>2
        <3>4. \A k \in i..n : k \in i..(n + 1)
            BY <1>3, <2>4
        <3> QED
            BY <1>5, <2>4, <3>1, <3>2, <3>3, <3>4
    <2> QED
        BY <1>3, <1>5, <2>2, <2>3, <2>4
<1>12. ASSUME NEW t \in Tools PROVE UndoStep(t)
    <2>1. CASE t # tool
        BY <1>4, <2>1, SavedSame, QuietStep DEF Loose
    <2>2. CASE t = tool
        <3> DEFINE K == Of(t) \ hidden
                   bar(c) == [o \in Of(t) \ c.hidden |-> c.state[o]]
        <3>1. bar(b) = [k \in K |-> Bar(t)[k]]
            BY <1>1, <2>2 DEF Bar
        <3>2. /\ Saved(t) = [i \in 1..n |-> bar(stack[t][i])]
              /\ Saved(t)' = [i \in 1..(n + 1) |-> bar(stack'[t][i])]
            BY <1>3, <1>5, <2>2 DEF Saved
        <3> HIDE DEF bar
        <3>3. Saved(t)' = Append(Saved(t), bar(b))
            BY <1>3, <1>5, <2>2, <3>2
        <3>4. UNCHANGED <<Bar(t), LooseOf(t)>>
            BY DEF Bar, LooseOf, Loose
        <3>5. Saves(t)
            BY <3>1, <3>3, <3>4 DEF Saves
        <3> QED
            BY <3>5 DEF UndoStep
    <2> QED
        BY <2>1, <2>2
<1> QED
    BY <1>6, <1>7, <1>8, <1>9, <1>11, <1>12 DEF IInv

\* What a listing leaves out is of the tool.
LEMMA ListingHides ==
    ASSUME TypeOK, NEW tool \in Tools, NEW hidden \in Policies \cup {{}}, Listing(tool, hidden)
    PROVE  /\ hidden \in SUBSET Rules /\ hidden \subseteq Of(tool)
           /\ tool = "groups" => hidden = {}
           /\ faults' \in 0..MaxFaults
BY ConstantsAssumption, OfTool, FaultType DEF Listing, TypeOK

LEMMA PushBegins ==
    ASSUME IInv, NEW tool \in Tools, PushStart(tool)
    PROVE  IInv' /\ \A t \in Tools : UndoStep(t)
<1>1. PICK files \in Bundles, replace \in BOOLEAN, hidden \in Policies \cup {{}} :
          /\ Listing(tool, hidden)
          /\ Save(tool, hidden)
          /\ job' = [NoJob EXCEPT !.kind = "push", !.tool = tool,
                         !.base = Capture(tool, hidden), !.files = files,
                         !.replace = replace, !.left = Held(files) \cap Of(tool)]
    BY DEF PushStart
<1>2. /\ hidden \in SUBSET Rules /\ hidden \subseteq Of(tool) /\ faults' \in 0..MaxFaults
    BY <1>1, ListingHides DEF IInv
<1>3. /\ files \in States /\ Capture(tool, hidden) \in States
      /\ Held(files) \cap Of(tool) \in SUBSET Objects
    BY ConstantsAssumption DEF Capture, States, Held, IInv, TypeOK
<1>4. job' = [kind |-> "push", tool |-> tool, base |-> Capture(tool, hidden), files |-> files,
              replace |-> replace, dels |-> {}, left |-> Held(files) \cap Of(tool),
              pending |-> {}, unrecorded |-> {}, round |-> 0, progress |-> FALSE, failed |-> FALSE]
    BY <1>1 DEF NoJob
<1>5. job' \in Job
    BY <1>3, <1>4, BoundsAssumption DEF Job
<1>6. job.kind = "none" /\ pushes' \in 0..MaxPushes /\ UNCHANGED <<target, edited, lost, kept, edits>>
    BY BoundsAssumption DEF PushStart, IInv, TypeOK
<1>7. /\ job'.kind \in Pushes /\ job'.tool = tool /\ job'.base = Capture(tool, hidden)
      /\ job'.left \subseteq Held(job'.files) \cap Of(tool)
      /\ job'.pending = {} /\ job'.unrecorded = {}
    BY <1>4 DEF Pushes
<1> QED
    BY <1>1, <1>2, <1>5, <1>6, <1>7, Begins

\* An amendment adds groups to the references of a rule.
LEMMA AmendedType ==
    ASSUME NEW refs \in SUBSET Members
    PROVE  Amended(refs) \in SUBSET Members /\ Amended(refs) # Absent
<1>1. Amended(refs) \in SUBSET Members
    BY ConstantsAssumption DEF Amended, Members
<1> QED
    BY <1>1, ConstantsAssumption DEF Absent

LEMMA AmendBegins ==
    ASSUME IInv, AmendStart
    PROVE  IInv' /\ \A t \in Tools : UndoStep(t)
<1>1. PICK hidden \in Policies \cup {{}} :
          LET base == Capture("rules", hidden) IN
          /\ Listing("rules", hidden)
          /\ Save("rules", hidden)
          /\ job' = [NoJob EXCEPT !.kind = "amend", !.tool = "rules", !.base = base,
                         !.files = [o \in Objects |-> IF base[o] = Absent THEN Absent
                                                      ELSE Amended(base[o])],
                         !.left = Held(base)]
    BY DEF AmendStart
<1> DEFINE base == Capture("rules", hidden)
           files == [o \in Objects |-> IF base[o] = Absent THEN Absent ELSE Amended(base[o])]
<1>a. "rules" \in Tools
    BY DEF Tools
<1>2. /\ hidden \in SUBSET Rules /\ hidden \subseteq Of("rules") /\ faults' \in 0..MaxFaults
    BY <1>1, <1>a, ListingHides DEF IInv
<1>3. /\ base \in States /\ Held(base) \in SUBSET Objects /\ Held(base) \subseteq Of("rules")
    BY DEF Capture, States, Held, IInv, TypeOK
<1>4. job' = [kind |-> "amend", tool |-> "rules", base |-> base, files |-> files,
              replace |-> FALSE, dels |-> {}, left |-> Held(base),
              pending |-> {}, unrecorded |-> {}, round |-> 0, progress |-> FALSE, failed |-> FALSE]
    BY <1>1 DEF NoJob
<1>s. Save("rules", hidden)
    BY <1>1
<1>5. files \in States /\ Held(base) \subseteq Held(files)
    <2>1. ASSUME NEW o \in Objects
          PROVE  files[o] \in Values /\ (base[o] # Absent => files[o] # Absent)
        <3>1. base[o] # Absent => base[o] \in SUBSET Members
            BY <1>3 DEF States
        <3>2. base[o] # Absent => Amended(base[o]) \in SUBSET Members /\ Amended(base[o]) # Absent
            BY <3>1, AmendedType
        <3> HIDE DEF base
        <3> QED
            BY <3>2 DEF Values
    <2> HIDE DEF base
    <2>2. files \in [Objects -> Values]
        BY <2>1
    <2> QED
        BY <2>1, <2>2 DEF States, Held, Values
<1> HIDE DEF base, files
<1>6. job' \in Job
    BY <1>3, <1>4, <1>5, <1>a, BoundsAssumption DEF Job
<1>7. job.kind = "none" /\ pushes' \in 0..MaxPushes /\ UNCHANGED <<target, edited, lost, kept, edits>>
    BY BoundsAssumption DEF AmendStart, IInv, TypeOK
<1>8. /\ job'.kind \in Pushes /\ job'.tool = "rules" /\ job'.base = Capture("rules", hidden)
      /\ job'.left \subseteq Held(job'.files) \cap Of("rules")
      /\ job'.pending = {} /\ job'.unrecorded = {}
    BY <1>3, <1>4, <1>5 DEF Pushes, base
<1> QED
    BY <1>2, <1>6, <1>7, <1>8, <1>s, <1>a, Begins

-----------------------------------------------------------------------------
(* Reverts                                                                  *)

\* A revert plans every object that differs from its baseline, but for what is
\* loose: a group that differs was recorded, and so was a rule that was created.
LEMMA RevertBegins ==
    ASSUME IInv, NEW tool \in Tools, RevertStart(tool)
    PROVE  IInv' /\ \A t \in Tools : UndoStep(t)
<1> DEFINE b == Last(stack[tool])
           n == Len(stack[tool])
<1>1. PICK allowed \in BOOLEAN, hidden \in Policies \cup {{}} :
          LET current == Capture(tool, hidden)
              created == ToDelete(tool, b, target)
              dels == IF allowed THEN ToDelete(tool, b, current) ELSE {}
          IN
          /\ Listing(tool, hidden)
          /\ tool = "rules" => allowed
          /\ job' = [NoJob EXCEPT !.kind = "revert", !.tool = tool, !.base = b.state,
                                  !.dels = dels, !.left = ToRestore(tool, b, current)]
          /\ kept' = kept \cup (created \ dels)
    BY DEF RevertStart
<1> DEFINE current == Capture(tool, hidden)
           created == ToDelete(tool, b, target)
           dels == IF allowed THEN ToDelete(tool, b, current) ELSE {}
           left == ToRestore(tool, b, current)
<1>2. /\ hidden \subseteq Of(tool) /\ (tool = "groups" => hidden = {}) /\ faults' \in 0..MaxFaults
    BY <1>1, ListingHides DEF IInv
<1>3. /\ job.kind = "none" /\ stack[tool] # <<>>
      /\ UNCHANGED <<target, stack, edited, lost, pushes, edits>>
    BY DEF RevertStart
<1>4. /\ b \in Baseline /\ n \in DOMAIN stack[tool] /\ b = stack[tool][n] /\ n \in Nat
    BY <1>3, StackFacts DEF IInv
<1>5. /\ b.pushed \subseteq b.wrote /\ b.wrote \subseteq Of(tool)
    BY <1>4 DEF IInv, BaselinesInv
<1>6. /\ job' = [NoJob EXCEPT !.kind = "revert", !.tool = tool, !.base = b.state,
                              !.dels = dels, !.left = left]
      /\ kept' = kept \cup (created \ dels)
    BY <1>1
<1>7. /\ dels \subseteq b.pushed \ Held(b.state)
      /\ left \subseteq Held(b.state) \cap Of(tool)
      /\ created \subseteq b.pushed
    BY <1>5, OfTool DEF ToDelete, ToRestore, GroupsToRestore, RulesToRestore, Held, Tools
<1>8. /\ dels \in SUBSET Objects /\ left \in SUBSET Objects /\ created \in SUBSET Objects
    BY <1>5, <1>7, OfTool
<1>9. ASSUME NEW o \in Of(tool), o \in b.pushed \/ (tool = "rules" /\ b.state[o] # Absent),
             target[o] # b.state[o], o \notin created \ dels
      PROVE  o \in dels \cup left
    <2>1. CASE b.state[o] = Absent
        <3>1. o \in created
            BY <1>9, <2>1 DEF ToDelete
        <3> QED
            BY <1>9, <3>1
    <2>2. CASE b.state[o] # Absent
        <3>1. current[o] \in {target[o], Absent}
            BY <1>9, OfTool DEF Capture
        <3>2. CASE tool = "rules"
            BY <1>9, <2>2, <3>1, <3>2, OfTool DEF ToRestore, RulesToRestore
        <3>3. CASE tool = "groups"
            <4>1. current[o] = target[o]
                BY <1>2, <1>9, <3>3, OfTool DEF Capture
            <4> QED
                BY <1>9, <2>2, <3>3, <4>1 DEF ToRestore, GroupsToRestore
        <3> QED
            BY <3>2, <3>3 DEF Tools
    <2> QED
        BY <2>1, <2>2
<1> HIDE DEF current, created, dels, left
<1>10. job' = [kind |-> "revert", tool |-> tool, base |-> b.state, files |-> Nothing,
               replace |-> FALSE, dels |-> dels, left |-> left, pending |-> {},
               unrecorded |-> {}, round |-> 0, progress |-> FALSE, failed |-> FALSE]
    BY <1>6 DEF NoJob
<1>11. job' \in Job
    <2>1. Nothing \in States /\ b.state \in States /\ 0 \in 0..RetryRounds
        BY <1>4, BoundsAssumption DEF Nothing, States, Baseline
    <2> QED
        BY <1>8, <1>10, <2>1 DEF Job
<1>12. TypeOK'
    <2>1. job'.unrecorded = {}
        BY <1>10
    <2>2. kept' \subseteq Objects
        BY <1>6, <1>8 DEF IInv, TypeOK
    <2> QED
        BY <1>2, <1>3, <1>11, <2>1, <2>2, Cards DEF IInv, TypeOK
<1>13. BaselinesInv'
    BY <1>3 DEF IInv, BaselinesInv
<1>14. JobInv' /\ WaitingInv'
    BY <1>3, <1>7, <1>10 DEF JobInv, WaitingInv, Pushes
<1>15. Loose' = Loose \cup (created \ dels)
    BY <1>3, <1>6 DEF Loose
<1>16. \A t \in Tools : AboutToRecord(t) = {} /\ AboutToRecord(t)' = {}
    <2>1. job.unrecorded = {} /\ job'.unrecorded = {}
        BY <1>3, <1>10 DEF IInv, JobInv, Pushes
    <2> QED
        BY <2>1 DEF AboutToRecord, Records, Created
<1>17. RecordedInv'
    BY <1>3, <1>15, <1>16 DEF IInv, RecordedInv, Noted
<1>18. PlanInv'
    <2> SUFFICES ASSUME NEW o \in Of(tool) \ (Loose' \cup b.hidden), target[o] # b.state[o]
                 PROVE  o \in dels \cup left
        BY <1>3, <1>10 DEF PlanInv
    <2>1. o \notin Loose /\ o \notin created \ dels
        BY <1>15
    <2>2. Noted(tool, n, o) => o \in b.pushed
        <3> SUFFICES ASSUME Noted(tool, n, o) PROVE o \in b.pushed
            OBVIOUS
        <3>1. PICK k \in n..n : o \in stack[tool][k].pushed
            BY <1>4, <1>16, <2>1 DEF IInv, RecordedInv
        <3> QED
            BY <1>4, <3>1
    <2>3. o \in b.pushed \/ (tool = "rules" /\ b.state[o] # Absent)
        BY <1>4, <2>2 DEF Noted, Tools
    <2> QED
        BY <1>9, <2>1, <2>3
<1>19. \A t \in Tools : UndoStep(t)
    BY <1>3, <1>15, QuietStep DEF Saved
<1> QED
    BY <1>12, <1>13, <1>14, <1>17, <1>18, <1>19 DEF IInv

\* The revert goes on: it brings back one object, or a call has failed.
LEMMA RevertGoesOn ==
    ASSUME IInv, job.kind = "revert", NEW o \in job.dels \cup job.left,
           UNCHANGED target \/ Write(o, job.base[o]),
           job' \in Job, job'.kind = "revert", job'.tool = job.tool, job'.base = job.base,
           job'.unrecorded = {}, job'.left \subseteq job.left, job'.dels \subseteq job.dels,
           ~job'.failed => /\ ~job.failed /\ Write(o, job.base[o])
                           /\ job.dels \cup job.left \subseteq job'.dels \cup job'.left \cup {o},
           UNCHANGED <<stack, edited, lost, kept, pushes, edits>>, faults' \in 0..MaxFaults
    PROVE  IInv' /\ \A t \in Tools : UndoStep(t)
<1> DEFINE b == Last(stack[job.tool])
           n == Len(stack[job.tool])
           v == job.base[o]
<1>1. /\ job \in Job /\ job.tool \in Tools /\ job.base \in States /\ job.unrecorded = {}
      /\ stack[job.tool] # <<>> /\ job.base = b.state
      /\ job.left \subseteq Held(job.base) \cap Of(job.tool)
      /\ job.dels \subseteq b.pushed \ Held(job.base)
    BY DEF IInv, JobInv, TypeOK, Job, Pushes
<1>2. /\ b \in Baseline /\ n \in DOMAIN stack[job.tool] /\ b = stack[job.tool][n] /\ n \in Nat
      /\ DOMAIN stack[job.tool] = 1..n
    BY <1>1, StackFacts DEF IInv
<1>3. /\ b.pushed \subseteq b.wrote /\ b.wrote \subseteq Of(job.tool)
      /\ b.wrote \cap b.hidden \subseteq lost /\ \A q \in b.hidden : b.state[q] = Absent
    BY <1>1, <1>2 DEF IInv, BaselinesInv
<1>4. o \in Of(job.tool) /\ o \in Objects /\ v \in Values
    BY <1>1, <1>3, OfTool DEF States, Values
<1>5. o \notin Loose => o \notin b.hidden
    BY <1>1, <1>3 DEF Loose, Held
<1>6. Loose' = Loose
    BY DEF Loose
<1>7. /\ target' \in States /\ \A q \in Objects : q # o => target'[q] = target[q]
      /\ target'[o] \in {target[o], v}
    BY <1>4, WriteObject DEF IInv, TypeOK
<1>8. TypeOK'
    BY <1>7, Cards DEF IInv, TypeOK
<1>9. BaselinesInv'
    BY DEF IInv, BaselinesInv
<1>10. JobInv' /\ WaitingInv'
    BY <1>1 DEF JobInv, WaitingInv, Pushes
<1>11. \A t \in Tools : AboutToRecord(t) = {} /\ AboutToRecord(t)' = {}
    BY <1>1 DEF AboutToRecord, Records, Created
<1>12. RecordedInv'
    <2> SUFFICES ASSUME NEW t \in Tools, NEW i \in DOMAIN stack[t],
                        NEW q \in Of(t) \ (Loose \cup stack[t][i].hidden),
                        Noted(t, i, q)
                 PROVE  /\ \A j \in DOMAIN stack[t] :
                               /\ i < j /\ q \notin stack[t][j].hidden
                               /\ stack[t][j].state[q] # stack[t][i].state[q]
                               => \E k \in i..(j - 1) : q \in stack[t][k].pushed
                        /\ target'[q] # stack[t][i].state[q] =>
                               \E k \in i..Len(stack[t]) : q \in stack[t][k].pushed
        BY <1>6 DEF RecordedInv, Noted
    <2>1. /\ \A j \in DOMAIN stack[t] :
                 /\ i < j /\ q \notin stack[t][j].hidden
                 /\ stack[t][j].state[q] # stack[t][i].state[q]
                 => \E k \in i..(j - 1) : q \in stack[t][k].pushed
          /\ target[q] # stack[t][i].state[q] =>
                 \E k \in i..Len(stack[t]) : q \in stack[t][k].pushed
        BY <1>11 DEF IInv, RecordedInv
    <2>2. CASE target'[q] = target[q]
        BY <2>1, <2>2
    <2>3. CASE target'[q] # target[q]
        <3>a. q \in Objects /\ q = o /\ target'[q] = v
            BY <1>7, <2>3, OfTool
        <3>b. t = job.tool
            BY <1>1, <1>4, <3>a, OfTool
        <3>1. q = o /\ t = job.tool /\ target'[q] = v /\ q \notin b.hidden
            BY <1>5, <3>a, <3>b
        <3>2. ASSUME v # stack[t][i].state[q]
              PROVE  \E k \in i..n : q \in stack[t][k].pushed
            <4>1. i # n /\ i \in 1..n
                BY <1>1, <1>2, <3>1, <3>2
            <4>2. i < n /\ stack[t][n].state[q] # stack[t][i].state[q]
                BY <1>1, <1>2, <3>1, <3>2, <4>1
            <4>3. PICK k \in i..(n - 1) : q \in stack[t][k].pushed
                BY <1>2, <2>1, <3>1, <4>2
            <4> QED
                BY <1>2, <4>1, <4>3
        <3> QED
            BY <2>1, <3>1, <3>2
    <2> QED
        BY <2>2, <2>3
<1>13. PlanInv'
    <2> SUFFICES ASSUME ~job'.failed, NEW q \in Of(job.tool) \ (Loose \cup b.hidden),
                        target'[q] # job.base[q]
                 PROVE  q \in job'.dels \cup job'.left
        BY <1>6 DEF PlanInv
    <2>1. target'[o] = v
        BY <1>4, WriteObject DEF IInv
    <2>2. q # o /\ target[q] # job.base[q]
        BY <1>1, <1>7, <2>1, OfTool
    <2>3. q \in job.dels \cup job.left
        BY <2>2 DEF IInv, PlanInv
    <2> QED
        BY <2>2, <2>3
<1>14. ASSUME NEW t \in Tools PROVE UndoStep(t)
    <2>1. Saved(t)' = Saved(t)
        BY DEF Saved
    <2>2. CASE UNCHANGED target
        BY <1>6, <2>1, <2>2, QuietStep
    <2>3. CASE Write(o, v)
        <3>1. CASE o \in Loose
            <4>1. Loose' = Loose \cup {o}
                BY <1>6, <3>1
            <4> QED
                BY <1>4, <2>1, <2>3, <4>1, WriteStep DEF IInv
        <3>2. CASE o \notin Loose
            <4>1. o \in Of(t) => \E i \in DOMAIN stack[t] : o \notin stack[t][i].hidden
                BY <1>1, <1>2, <1>4, <1>5, <3>2, OfTool
            <4> QED
                BY <1>4, <1>6, <2>1, <2>3, <4>1, WriteStep DEF IInv
        <3> QED
            BY <3>1, <3>2
    <2> QED
        BY <2>2, <2>3
<1> QED
    BY <1>8, <1>9, <1>10, <1>12, <1>13, <1>14 DEF IInv

\* The values that a step gives the job of a revert.
RevertsOn(j, D, L, f) == [j EXCEPT !.dels = D, !.left = L, !.failed = f]

LEMMA RevertJob ==
    ASSUME NEW j \in Job, NEW D \in SUBSET Objects, NEW L \in SUBSET Objects, NEW f \in BOOLEAN
    PROVE  /\ RevertsOn(j, D, L, f) \in Job /\ RevertsOn(j, D, L, f).kind = j.kind
           /\ RevertsOn(j, D, L, f).tool = j.tool /\ RevertsOn(j, D, L, f).base = j.base
           /\ RevertsOn(j, D, L, f).unrecorded = j.unrecorded /\ RevertsOn(j, D, L, f).dels = D
           /\ RevertsOn(j, D, L, f).left = L /\ RevertsOn(j, D, L, f).failed = f
BY DEF Job, RevertsOn

LEMMA RevertSteps ==
    ASSUME IInv, NEW o \in Objects, RevertDelete(o) \/ RevertRestore(o) \/ RevertFails(o)
    PROVE  IInv' /\ \A t \in Tools : UndoStep(t)
<1>1. /\ job \in Job /\ job.kind = "revert" /\ job.unrecorded = {} /\ faults \in 0..MaxFaults
      /\ UNCHANGED <<stack, edited, lost, kept, pushes, edits>> /\ faults' \in 0..MaxFaults
      /\ job.left \in SUBSET Objects /\ job.dels \in SUBSET Objects /\ job.failed \in BOOLEAN
    <2>1. /\ job \in Job /\ job.kind = "revert" /\ faults \in 0..MaxFaults
          /\ UNCHANGED <<stack, edited, lost, kept, pushes, edits>>
        BY DEF RevertDelete, RevertRestore, RevertFails, history, IInv, TypeOK
    <2>2. faults' \in 0..MaxFaults
        BY <2>1, FaultType DEF RevertDelete, RevertRestore, RevertFails, IInv
    <2> QED
        BY <2>1, <2>2 DEF IInv, JobInv, Pushes, Job
<1>2. o \in job.dels => job.base[o] = Absent
    BY <1>1 DEF IInv, JobInv, Held
<1>3. \E D \in {job.dels, job.dels \ {o}}, L \in {job.left, job.left \ {o}}, f \in BOOLEAN :
          /\ job' = [job EXCEPT !.dels = D, !.left = L, !.failed = f]
          /\ o \in job.dels \cup job.left
          /\ UNCHANGED target \/ Write(o, job.base[o])
          /\ ~f => ~job.failed /\ Write(o, job.base[o])
    <2>a. \A D, L : /\ [job EXCEPT !.dels = D]
                           = [job EXCEPT !.dels = D, !.left = job.left, !.failed = job.failed]
                    /\ [job EXCEPT !.left = L]
                           = [job EXCEPT !.dels = job.dels, !.left = L, !.failed = job.failed]
                    /\ [job EXCEPT !.dels = D, !.failed = TRUE]
                           = [job EXCEPT !.dels = D, !.left = job.left, !.failed = TRUE]
                    /\ [job EXCEPT !.left = L, !.failed = TRUE]
                           = [job EXCEPT !.dels = job.dels, !.left = L, !.failed = TRUE]
        BY <1>1 DEF Job
    <2>1. CASE RevertDelete(o) /\ Delete(o) /\ job' = [job EXCEPT !.dels = job.dels \ {o}]
        <3>1. Write(o, job.base[o])
            BY <1>2, <2>1 DEF RevertDelete, Delete, Write
        <3>2. job' = [job EXCEPT !.dels = job.dels \ {o}, !.left = job.left, !.failed = job.failed]
            BY <2>1, <2>a
        <3> QED
            BY <1>1, <2>1, <3>1, <3>2 DEF RevertDelete
    <2>2. CASE RevertDelete(o) /\ UNCHANGED target
               /\ job' = [job EXCEPT !.dels = job.dels \ {o}, !.failed = TRUE]
        BY <2>2, <2>a DEF RevertDelete
    <2>3. CASE RevertRestore(o) /\ Write(o, job.base[o]) /\ job' = [job EXCEPT !.left = job.left \ {o}]
        <3>1. job' = [job EXCEPT !.dels = job.dels, !.left = job.left \ {o}, !.failed = job.failed]
            BY <2>3, <2>a
        <3> QED
            BY <1>1, <2>3, <3>1 DEF RevertRestore
    <2>4. CASE RevertRestore(o) /\ UNCHANGED target
               /\ job' = [job EXCEPT !.left = job.left \ {o}, !.failed = TRUE]
        BY <2>4, <2>a DEF RevertRestore
    <2>5. CASE RevertFails(o) /\ o \in job.dels /\ (UNCHANGED target \/ Delete(o))
               /\ job' = [job EXCEPT !.dels = job.dels \ {o}, !.failed = TRUE]
        <3>1. UNCHANGED target \/ Write(o, job.base[o])
            BY <1>2, <2>5 DEF Delete, Write
        <3> QED
            BY <2>5, <2>a, <3>1
    <2>6. CASE RevertFails(o) /\ o \in job.left /\ (UNCHANGED target \/ Write(o, job.base[o]))
               /\ job' = [job EXCEPT !.left = job.left \ {o}, !.failed = TRUE]
        BY <2>6, <2>a
    <2> QED
        BY <2>1, <2>2, <2>3, <2>4, <2>5, <2>6 DEF RevertDelete, RevertRestore, RevertFails
<1>4. PICK D \in {job.dels, job.dels \ {o}}, L \in {job.left, job.left \ {o}}, f \in BOOLEAN :
          /\ job' = [job EXCEPT !.dels = D, !.left = L, !.failed = f]
          /\ o \in job.dels \cup job.left
          /\ UNCHANGED target \/ Write(o, job.base[o])
          /\ ~f => ~job.failed /\ Write(o, job.base[o])
    BY <1>3
<1>5. D \in SUBSET Objects /\ L \in SUBSET Objects
    BY <1>1, <1>4
<1>6. /\ job' \in Job /\ job'.kind = "revert" /\ job'.tool = job.tool /\ job'.base = job.base
      /\ job'.unrecorded = {} /\ job'.dels = D /\ job'.left = L /\ job'.failed = f
    <2>1. job' = RevertsOn(job, D, L, f)
        BY <1>4 DEF RevertsOn
    <2> QED
        BY <1>1, <1>5, <2>1, RevertJob
<1> QED
    BY <1>1, <1>4, <1>6, RevertGoesOn

\* The newest baseline is taken off only when no call has failed, and then its
\* objects are as it says, but for what is loose.
LEMMA RevertEnds ==
    ASSUME IInv, RevertEnd
    PROVE  IInv' /\ \A t \in Tools : UndoStep(t)
<1> DEFINE T == job.tool
           n == Len(stack[job.tool])
           b == Last(stack[job.tool])
<1>1. /\ job.kind = "revert" /\ job.dels = {} /\ job.left = {} /\ job' = NoJob
      /\ stack' = [stack EXCEPT ![job.tool] = Renamed]
      /\ UNCHANGED <<target, edited, lost, kept, pushes, edits, faults>>
    BY DEF RevertEnd, history
<1>2. /\ job.tool \in Tools /\ job.unrecorded = {} /\ stack[T] # <<>> /\ job.base = b.state
      /\ stack \in [Tools -> Seq(Baseline)] /\ faults \in 0..MaxFaults
    BY <1>1 DEF IInv, JobInv, TypeOK, Job, Pushes
<1>3. CASE job.failed
    <2>1. stack' = stack
        BY <1>1, <1>2, <1>3 DEF Renamed
    <2>2. lost' = lost \cup job.unrecorded
        BY <1>1, <1>2
    <2> QED
        BY <1>1, <1>2, <2>1, <2>2, Over
<1>4. CASE ~job.failed
    <2>1. /\ b \in Baseline /\ n \in Nat \ {0} /\ b = stack[T][n] /\ DOMAIN stack[T] = 1..n
          /\ stack[T] \in Seq(Baseline)
        BY <1>2, StackFacts DEF IInv
    <2>2. /\ stack' = [stack EXCEPT ![T] = SubSeq(stack[T], 1, n - 1)]
        BY <1>1, <1>4 DEF Renamed, Front
    <2>3. /\ stack' \in [Tools -> Seq(Baseline)] /\ \A t \in Tools \ {T} : stack'[t] = stack[t]
          /\ Len(stack'[T]) = n - 1 /\ DOMAIN stack'[T] = 1..(n - 1)
          /\ \A i \in 1..(n - 1) : stack'[T][i] = stack[T][i]
        BY <1>2, <2>1, <2>2
    <2>4. Loose' = Loose
        BY <1>1 DEF Loose
    <2>5. \A o \in Of(T) \ (Loose \cup b.hidden) : target[o] = b.state[o]
        BY <1>1, <1>2, <1>4 DEF IInv, PlanInv
    <2>6. /\ b.pushed \cap b.hidden \subseteq Loose
        BY <1>2, <2>1 DEF IInv, BaselinesInv, Loose
    <2>7. TypeOK'
        BY <1>1, <1>2, <2>3, NoJobType, Cards DEF IInv, TypeOK
    <2>8. BaselinesInv'
        <3> SUFFICES ASSUME NEW t \in Tools, NEW i \in DOMAIN stack'[t]
                     PROVE  i \in DOMAIN stack[t] /\ stack'[t][i] = stack[t][i]
            BY <1>1 DEF IInv, BaselinesInv
        <3> QED
            BY <2>1, <2>3
    <2>9. JobInv' /\ WaitingInv' /\ PlanInv'
        BY <1>1, NoJobType DEF JobInv, WaitingInv, PlanInv, Pushes
    <2>10. \A t \in Tools : AboutToRecord(t) = {} /\ AboutToRecord(t)' = {}
        BY <1>1, <1>2, NoJobType DEF AboutToRecord, Records, Created
    <2>11. RecordedInv'
        <3> SUFFICES ASSUME NEW t \in Tools, NEW i \in DOMAIN stack'[t],
                            NEW o \in Of(t) \ (Loose' \cup stack'[t][i].hidden),
                            Noted(t, i, o)'
                     PROVE  /\ \A j \in DOMAIN stack'[t] :
                                   /\ i < j /\ o \notin stack'[t][j].hidden
                                   /\ stack'[t][j].state[o] # stack'[t][i].state[o]
                                   => \E k \in i..(j - 1) : o \in stack'[t][k].pushed
                            /\ target[o] # stack'[t][i].state[o] =>
                                   \E k \in i..Len(stack'[t]) : o \in stack'[t][k].pushed
            BY <1>1 DEF RecordedInv
        <3>1. CASE t # T
            <4>1. /\ stack'[t] = stack[t] /\ i \in DOMAIN stack[t] /\ Noted(t, i, o)
                  /\ o \in Of(t) \ (Loose \cup stack[t][i].hidden) /\ o \notin AboutToRecord(t)
                BY <2>3, <2>4, <2>10, <3>1 DEF Noted
            <4> QED
                BY <4>1 DEF IInv, RecordedInv
        <3>2. CASE t = T
            <4>1. /\ i \in 1..(n - 1) /\ i \in DOMAIN stack[t] /\ stack'[t][i] = stack[t][i]
                  /\ o \in Of(t) \ (Loose \cup stack[t][i].hidden) /\ Noted(t, i, o)
                BY <2>1, <2>3, <2>4, <3>2 DEF Noted
            <4>2. ASSUME NEW j \in DOMAIN stack[t], i < j, o \notin stack[t][j].hidden,
                         stack[t][j].state[o] # stack[t][i].state[o]
                  PROVE  \E k \in i..(j - 1) : o \in stack'[t][k].pushed
                <5>1. PICK k \in i..(j - 1) : o \in stack[t][k].pushed
                    BY <4>1, <4>2 DEF IInv, RecordedInv
                <5>2. k \in 1..(n - 1)
                    BY <2>1, <3>2, <4>1, <5>1
                <5> QED
                    BY <2>3, <3>2, <5>1, <5>2
            <4>3. ASSUME target[o] # stack[t][i].state[o]
                  PROVE  \E k \in i..(n - 1) : o \in stack'[t][k].pushed
                <5>1. CASE o \notin b.hidden
                    <6>1. n \in DOMAIN stack[t] /\ i < n /\ stack[t][n].state[o] # stack[t][i].state[o]
                        BY <2>1, <2>5, <3>2, <4>1, <4>3, <5>1
                    <6> QED
                        BY <2>1, <3>2, <4>2, <5>1, <6>1
                <5>2. CASE o \in b.hidden
                    <6>1. PICK k \in i..n : o \in stack[t][k].pushed
                        BY <2>10, <3>2, <4>1, <4>3 DEF IInv, RecordedInv
                    <6>2. k # n
                        BY <2>1, <2>6, <3>2, <4>1, <5>2, <6>1
                    <6>3. k \in 1..(n - 1) /\ k \in i..(n - 1)
                        BY <2>1, <4>1, <6>1, <6>2
                    <6> QED
                        BY <2>3, <3>2, <6>1, <6>3
                <5> QED
                    BY <5>1, <5>2
            <4>4. ASSUME NEW j \in DOMAIN stack'[t]
                  PROVE  j \in DOMAIN stack[t] /\ stack'[t][j] = stack[t][j]
                <5>1. j \in 1..(n - 1)
                    BY <2>3, <3>2, <4>4
                <5>2. j \in DOMAIN stack[t]
                    BY <2>1, <3>2, <5>1
                <5> QED
                    BY <2>3, <3>2, <5>1, <5>2
            <4> QED
                BY <2>3, <3>2, <4>1, <4>2, <4>3, <4>4
        <3> QED
            BY <3>1, <3>2
    <2>12. ASSUME NEW t \in Tools PROVE UndoStep(t)
        <3>1. CASE t # T
            BY <1>1, <2>3, <2>4, <3>1, SavedSame, QuietStep
        <3>2. CASE t = T
            <4> DEFINE bar(c) == [o \in Of(t) \ c.hidden |-> c.state[o]]
            <4>1. \A k \in DOMAIN bar(b) \ LooseOf(t) : Bar(t)[k] = bar(b)[k]
                BY <2>5, <3>2 DEF Bar, LooseOf
            <4>2. /\ Saved(t) = [i \in 1..n |-> bar(stack[t][i])]
                  /\ Saved(t)' = [i \in 1..(n - 1) |-> bar(stack'[t][i])]
                BY <2>1, <2>3, <3>2 DEF Saved
            <4> HIDE DEF bar
            <4>3. Last(Saved(t)) = bar(b) /\ Saved(t) # <<>> /\ Len(Saved(t)) = n
                BY <2>1, <3>2, <4>2 DEF Last
            <4>4. Saved(t)' = Front(Saved(t))
                BY <2>1, <2>3, <3>2, <4>2, <4>3 DEF Front
            <4>5. UNCHANGED <<Bar(t), LooseOf(t)>>
                BY <1>1, <2>4 DEF Bar, LooseOf
            <4>6. TakesOff(t)
                BY <4>1, <4>3, <4>4, <4>5 DEF TakesOff
            <4> QED
                BY <4>6 DEF UndoStep
        <3> QED
            BY <3>1, <3>2
    <2> QED
        BY <2>7, <2>8, <2>9, <2>11, <2>12 DEF IInv
<1> QED
    BY <1>3, <1>4

-----------------------------------------------------------------------------
(* Stops and edits                                                          *)

LEMMA EndsEarly ==
    ASSUME IInv, Ends
    PROVE  IInv' /\ \A t \in Tools : UndoStep(t)
BY Over, FaultType DEF Ends, IInv

\* What somebody else writes is loose from then on.
LEMMA Edits ==
    ASSUME IInv, NEW o \in Objects, Someone(o)
    PROVE  IInv' /\ \A t \in Tools : UndoStep(t)
<1>1. PICK v \in Values : Write(o, v)
    <2>1. CASE Delete(o)
        BY <2>1 DEF Delete, Write, Values
    <2>2. CASE \E files \in Bundles : files[o] # Absent /\ Write(o, files[o])
        <3>1. PICK files \in Bundles : files[o] # Absent /\ Write(o, files[o])
            BY <2>2
        <3>2. files[o] \in Values
            BY <3>1, ConstantsAssumption DEF States, Values
        <3> QED
            BY <3>1, <3>2
    <2> QED
        BY <2>1, <2>2 DEF Someone
<1>2. /\ edited' = edited \cup {o} /\ UNCHANGED <<stack, job, lost, kept, pushes, faults>>
      /\ edits' \in 0..MaxEdits
    BY BoundsAssumption DEF Someone, IInv, TypeOK
<1>3. /\ target' \in States /\ \A q \in Objects : q # o => target'[q] = target[q]
    BY <1>1, WriteObject DEF IInv
<1>4. Loose' = Loose \cup {o}
    BY <1>2 DEF Loose
<1>5. TypeOK'
    BY <1>2, <1>3 DEF IInv, TypeOK
<1>6. BaselinesInv' /\ JobInv'
    BY <1>2 DEF IInv, BaselinesInv, JobInv
<1>7. WaitingInv'
    <2> SUFFICES ASSUME job.kind \in Pushes, NEW q \in job.left \cup job.pending,
                        q \notin edited' \cup lost \cup Last(stack[job.tool]).hidden
                 PROVE  target'[q] = job.base[q]
        BY <1>2 DEF WaitingInv
    <2>1. q \in Objects /\ q # o /\ q \notin edited
        BY <1>2 DEF IInv, TypeOK, Job
    <2> QED
        BY <1>3, <2>1 DEF IInv, WaitingInv
<1>8. \A t \in Tools : AboutToRecord(t)' = AboutToRecord(t)
    BY <1>2 DEF AboutToRecord, Records, Created
<1>9. \A t \in Tools : \A q \in Of(t) \ Loose' : q \notin Loose /\ target'[q] = target[q]
    BY <1>3, <1>4, OfTool
<1>10. RecordedInv'
    <2> SUFFICES ASSUME NEW t \in Tools, NEW i \in DOMAIN stack[t],
                        NEW q \in Of(t) \ (Loose' \cup stack[t][i].hidden),
                        Noted(t, i, q)
                 PROVE  /\ \A j \in DOMAIN stack[t] :
                               /\ i < j /\ q \notin stack[t][j].hidden
                               /\ stack[t][j].state[q] # stack[t][i].state[q]
                               => \E k \in i..(j - 1) : q \in stack[t][k].pushed
                        /\ target'[q] # stack[t][i].state[q] =>
                               \/ q \in AboutToRecord(t)
                               \/ \E k \in i..Len(stack[t]) : q \in stack[t][k].pushed
        BY <1>2, <1>8 DEF RecordedInv, Noted
    <2>1. q \in Of(t) \ (Loose \cup stack[t][i].hidden) /\ target'[q] = target[q]
        BY <1>9
    <2> QED
        BY <2>1 DEF IInv, RecordedInv
<1>11. PlanInv'
    <2>1. job.tool \in Tools
        BY DEF IInv, TypeOK, Job
    <2> QED
        BY <1>2, <1>9, <2>1 DEF IInv, PlanInv
<1>12. ASSUME NEW t \in Tools PROVE UndoStep(t)
    <2>1. Saved(t)' = Saved(t)
        BY <1>2 DEF Saved
    <2> QED
        BY <1>1, <1>4, <2>1, WriteStep DEF IInv
<1> QED
    BY <1>5, <1>6, <1>7, <1>10, <1>11, <1>12 DEF IInv

-----------------------------------------------------------------------------
LEMMA Steps ==
    ASSUME IInv, [Next]_vars
    PROVE  IInv' /\ \A t \in Tools : UndoStep(t)
<1>1. CASE \E tool \in Tools : PushStart(tool) \/ RevertStart(tool)
    BY <1>1, PushBegins, RevertBegins
<1>2. CASE AmendStart
    BY <1>2, AmendBegins
<1>3. CASE Step
    BY <1>3, PushSteps, RevertSteps, RevertEnds, EndsEarly DEF Step
<1>4. CASE \E o \in Objects : Someone(o)
    BY <1>4, Edits
<1>5. CASE UNCHANGED vars
    <2>1. UNCHANGED <<target, stack, job, edited, lost, kept, pushes, edits, faults>>
        BY <1>5 DEF vars
    <2>2. \A t \in Tools : AboutToRecord(t)' = AboutToRecord(t)
        BY <2>1 DEF AboutToRecord, Records, Created
    <2>3. TypeOK' /\ BaselinesInv' /\ JobInv' /\ WaitingInv' /\ PlanInv'
        BY <2>1 DEF IInv, TypeOK, BaselinesInv, JobInv, WaitingInv, PlanInv, Loose
    <2>4. RecordedInv'
        BY <2>1, <2>2 DEF IInv, RecordedInv, Noted, Loose
    <2>5. \A t \in Tools : UndoStep(t)
        BY <2>1, QuietStep DEF Saved, Loose
    <2> QED
        BY <2>3, <2>4, <2>5 DEF IInv
<1> QED
    BY <1>1, <1>2, <1>3, <1>4, <1>5 DEF Next

LEMMA Initially == Init => IInv /\ GroupsUndo!Init /\ RulesUndo!Init
<1> SUFFICES ASSUME Init PROVE IInv /\ GroupsUndo!Init /\ RulesUndo!Init
    OBVIOUS
<1>1. /\ target = FirstState /\ FirstState \in States /\ job = NoJob
      /\ stack = [t \in Tools |-> <<>>]
      /\ edited = {} /\ lost = {} /\ kept = {} /\ pushes = 0 /\ edits = 0 /\ faults = 0
    BY ConstantsAssumption DEF Init
<1>2. \A t \in Tools : stack[t] = <<>> /\ stack[t] \in Seq(Baseline) /\ DOMAIN stack[t] = {}
    BY <1>1
<1>3. TypeOK
    BY <1>1, <1>2, NoJobType, Cards, BoundsAssumption DEF TypeOK
<1>4. BaselinesInv /\ JobInv /\ WaitingInv /\ RecordedInv /\ PlanInv
    BY <1>1, <1>2, NoJobType DEF BaselinesInv, JobInv, WaitingInv, RecordedInv, PlanInv, Pushes
<1>5. Saved("groups") = <<>> /\ Saved("rules") = <<>> /\ Loose = {}
    BY <1>1, <1>2 DEF Saved, Loose, Tools
<1>6. GroupsUndo!Init
    BY <1>1, <1>5 DEF GroupsUndo!Init, States, Objects
<1>7. RulesUndo!Init
    BY <1>1, <1>5 DEF RulesUndo!Init, States, Objects
<1> QED
    BY <1>3, <1>4, <1>6, <1>7 DEF IInv

LEMMA Invariance == Spec => []IInv
<1>1. IInv /\ [Next]_vars => IInv'
    BY Steps
<1> QED
    BY Initially, <1>1, PTL DEF Spec

\* Every variable keeps its type.
THEOREM TypeCorrect == Spec => []TypeOK
<1>1. IInv => TypeOK
    BY DEF IInv
<1> QED
    BY <1>1, Invariance, PTL

\* The baselines of each of the two tools are an undo stack of its objects.
THEOREM BaselinesUndo == Spec => AreUndoStacks
<1>1. IInv /\ [Next]_vars => /\ [GroupsUndo!Next]_(GroupsUndo!vars)
                             /\ [RulesUndo!Next]_(RulesUndo!vars)
    BY Steps, GroupsMap, RulesMap DEF Tools
<1> QED
    BY Initially, Invariance, <1>1, PTL DEF Spec, AreUndoStacks, GroupsUndo!Spec, RulesUndo!Spec

\* The undo stack with its theorem, under the mapping of each tool.
GroupsProved == INSTANCE UndoStackProofs WITH
    Keys <- Groups, value <- [o \in Groups |-> target[o]], stack <- Saved("groups"),
    loose <- Loose \cap Groups, first <- [o \in Groups |-> FirstState[o]]

RulesProved == INSTANCE UndoStackProofs WITH
    Keys <- Rules, value <- [o \in Rules |-> target[o]], stack <- Saved("rules"),
    loose <- Loose \cap Rules, first <- [o \in Rules |-> FirstState[o]]

\* When a tool has no baseline left that saw an object, the object is what it
\* was before the first push, unless it is loose.
THEOREM RevertedMeansRestored == Spec => [](GroupsUndo!Undone /\ RulesUndo!Undone)
<1>1. GroupsUndo!Init => GroupsProved!Init
    BY DEF GroupsUndo!Init, GroupsProved!Init, Values
<1>2. [GroupsUndo!Next]_(GroupsUndo!vars) => [GroupsProved!Next]_(GroupsProved!vars)
    BY DEF GroupsUndo!Next, GroupsUndo!vars, GroupsUndo!Save, GroupsUndo!LetGo, GroupsUndo!Change,
           GroupsUndo!Disturb, GroupsUndo!TakeOff, GroupsUndo!Open, GroupsUndo!Last,
           GroupsUndo!Front, GroupsProved!Next, GroupsProved!vars, GroupsProved!Save,
           GroupsProved!LetGo, GroupsProved!Change, GroupsProved!Disturb, GroupsProved!TakeOff,
           GroupsProved!Open, GroupsProved!Last, GroupsProved!Front, Values
<1>3. GroupsProved!Undone => GroupsUndo!Undone
    BY DEF GroupsProved!Undone, GroupsProved!Open, GroupsUndo!Undone, GroupsUndo!Open
<1>4. RulesUndo!Init => RulesProved!Init
    BY DEF RulesUndo!Init, RulesProved!Init, Values
<1>5. [RulesUndo!Next]_(RulesUndo!vars) => [RulesProved!Next]_(RulesProved!vars)
    BY DEF RulesUndo!Next, RulesUndo!vars, RulesUndo!Save, RulesUndo!LetGo, RulesUndo!Change,
           RulesUndo!Disturb, RulesUndo!TakeOff, RulesUndo!Open, RulesUndo!Last,
           RulesUndo!Front, RulesProved!Next, RulesProved!vars, RulesProved!Save,
           RulesProved!LetGo, RulesProved!Change, RulesProved!Disturb, RulesProved!TakeOff,
           RulesProved!Open, RulesProved!Last, RulesProved!Front, Values
<1>6. RulesProved!Undone => RulesUndo!Undone
    BY DEF RulesProved!Undone, RulesProved!Open, RulesUndo!Undone, RulesUndo!Open
<1> QED
    BY <1>1, <1>2, <1>3, <1>4, <1>5, <1>6, BaselinesUndo, GroupsProved!StackUndoes,
       RulesProved!StackUndoes, PTL
       DEF AreUndoStacks, GroupsUndo!Spec, GroupsProved!Spec, RulesUndo!Spec, RulesProved!Spec

-----------------------------------------------------------------------------
(* What a step takes away                                                   *)

\* What a push writes of an object that is as its baseline says holds what the
\* object held.
LEMMA WritesKeep ==
    ASSUME IInv, NEW o \in Objects, PushWrite(o), o \notin edited' \cup lost'
    PROVE  \/ Keepable(o) \subseteq In(target', o)
           \/ o \in Rules /\ (job.replace \/ job.round > 0)
           \/ o \in Rules /\ AnyGroup \in In(target, o) \cup job.files[o]
<1>1. /\ job.kind \in Pushes /\ o \in job.left /\ Write(o, Payload(o)) /\ edited' = edited
      /\ lost' = lost \cup ({o} \cap Hidden) /\ job.tool \in Tools
      /\ Payload(o) \in SUBSET Members /\ Payload(o) \in Values
    <2>1. job.kind \in Pushes /\ o \in job.left
        BY DEF PushWrite, Pushing, Pushes
    <2> QED
        BY <2>1, PayloadType DEF PushWrite
<1>2. Hidden = Last(stack[job.tool]).hidden
    <2>1. stack[job.tool] # <<>>
        BY <1>1 DEF IInv, JobInv, Pushes
    <2> QED
        BY <1>1, <2>1, StackFacts DEF IInv, Hidden, Top
<1>3. target[o] = job.base[o]
    BY <1>1, <1>2 DEF IInv, WaitingInv
<1>4. In(target, o) = In(job.base, o)
    BY <1>3 DEF In
<1>5. In(target', o) = Payload(o)
    <2>1. target'[o] = Payload(o)
        BY <1>1, WriteObject DEF IInv
    <2>2. Payload(o) # Absent
        BY <1>1, ConstantsAssumption DEF Absent
    <2> QED
        BY <2>1, <2>2 DEF In
<1>6. CASE o \in Groups
    <2>1. o \notin Rules
        BY <1>6, OfTool
    <2>2. Payload(o) = job.files[o] \cup (In(job.base, o) \cap Addresses)
        BY <1>6, <2>1 DEF Payload, Keep, KeptAddresses
    <2> QED
        BY <1>4, <1>5, <1>6, <2>2 DEF Keepable
<1>7. CASE o \notin Groups
    <2>1. o \in Rules
        BY <1>7, OfTool
    <2>2. CASE job.replace \/ job.round > 0
        BY <2>1, <2>2
    <2>3. CASE AnyGroup \in job.files[o] \cup In(job.base, o)
        BY <1>4, <2>1, <2>3
    <2>4. CASE ~(job.replace \/ job.round > 0) /\ AnyGroup \notin job.files[o] \cup In(job.base, o)
        <3>1. Payload(o) = job.files[o] \cup In(job.base, o)
            BY <1>7, <2>4 DEF Payload, Keep, KeptRefs
        <3> QED
            BY <1>4, <1>5, <1>7, <3>1 DEF Keepable
    <2> QED
        BY <2>2, <2>3, <2>4
<1> QED
    BY <1>6, <1>7

LEMMA SameKept ==
    ASSUME NEW o, target'[o] = target[o]
    PROVE  Keepable(o) \subseteq In(target', o)
BY DEF Keepable, In

\* A push or amend-refs takes away no address of a group and no reference of a
\* rule, but for the exceptions the property lists: _keep_target_ips and
\* _merge_group_refs read the baseline, and what waits is still as it says.
THEOREM PushesTakeNothing == Spec => TakesNothing
<1>1. ASSUME IInv, [Next]_vars
      PROVE  [job.kind \in {"push", "amend"} /\ job' # job =>
                  \A o \in Objects \ (edited' \cup lost') :
                      \/ Keepable(o) \subseteq In(target', o)
                      \/ o \in Rules /\ (job.replace \/ job.round > 0)
                      \/ o \in Rules /\ AnyGroup \in In(target, o) \cup job.files[o]]_vars
    <2> SUFFICES ASSUME Next, job.kind \in {"push", "amend"}, job' # job,
                        NEW o \in Objects, o \notin edited' \cup lost'
                 PROVE  \/ Keepable(o) \subseteq In(target', o)
                        \/ o \in Rules /\ (job.replace \/ job.round > 0)
                        \/ o \in Rules /\ AnyGroup \in In(target, o) \cup job.files[o]
        BY <1>1
    <2>1. Step
        BY DEF Next, PushStart, RevertStart, AmendStart, Someone
    <2>2. CASE UNCHANGED target
        BY <2>2, SameKept
    <2>3. ASSUME NEW q \in Objects, PushWrite(q)
          PROVE  \/ Keepable(o) \subseteq In(target', o)
                 \/ o \in Rules /\ (job.replace \/ job.round > 0)
                 \/ o \in Rules /\ AnyGroup \in In(target, o) \cup job.files[o]
        <3>1. CASE o = q
            BY <1>1, <2>3, <3>1, WritesKeep
        <3>2. CASE o # q
            <4>1. target'[o] = target[o]
                BY <1>1, <2>3, <3>2 DEF PushWrite, Write, IInv, TypeOK, States
            <4> QED
                BY <4>1, SameKept
        <3> QED
            BY <3>1, <3>2
    <2>4. ASSUME NEW q \in Objects, PushFails(q)
          PROVE  Keepable(o) \subseteq In(target', o)
        <3>1. target'[o] = target[o]
            BY <1>1, <2>4 DEF PushFails, Write, IInv, TypeOK, States
        <3> QED
            BY <3>1, SameKept
    <2> QED
        BY <2>1, <2>2, <2>3, <2>4 DEF Step, PushRecord, PushRetry, PushEnd, RevertEnd, Ends,
               PushSkip, PushMissing, RevertDelete, RevertRestore, RevertFails
<1> QED
    BY <1>1, Invariance, PTL DEF Spec, TakesNothing

\* A revert deletes only what its push wrote and what was not there then, or a rule
\* of a policy that could not be listed (rules.py:318), which was there and is
\* deleted: the plan of a revert comes from the companion file of the newest
\* baseline, and no step of the revert adds to it.
THEOREM RevertsDeleteOnlyCreated == Spec => DeletesOnlyCreated
<1>1. ASSUME IInv, [Next]_vars
      PROVE  [job.kind = "revert" /\ job' # job =>
                  \A o \in Objects : target[o] # Absent /\ target'[o] = Absent =>
                      LET b == Last(stack[job.tool]) IN
                      o \in b.wrote /\ (b.state[o] = Absent \/ o \in b.hidden)]_vars
    <2> SUFFICES ASSUME Next, job.kind = "revert", job' # job,
                        NEW o \in Objects, target[o] # Absent, target'[o] = Absent
                 PROVE  /\ o \in Last(stack[job.tool]).wrote
                        /\ Last(stack[job.tool]).state[o] = Absent
        BY <1>1
    <2>1. Step
        BY DEF Next, PushStart, RevertStart, AmendStart, Someone
    <2>2. job.unrecorded = {} /\ target' # target
        BY <1>1 DEF IInv, JobInv, Pushes
    <2>3. PICK q \in Objects : RevertDelete(q) \/ RevertRestore(q) \/ RevertFails(q)
        BY <2>1, <2>2 DEF Step, PushRecord, PushRetry, PushEnd, RevertEnd, Ends, Pushing,
                          PushSkip, PushWrite, PushMissing, PushFails
    <2>4. target \in States /\ job.base \in States
        BY <1>1 DEF IInv, TypeOK, Job
    <2>5. o = q
        BY <2>2, <2>3, <2>4 DEF RevertDelete, RevertRestore, RevertFails, Delete, Write, States
    <2>6. q \in job.left => job.base[q] # Absent
        BY <1>1 DEF IInv, JobInv, Held
    <2>7. q \in job.dels
        BY <2>2, <2>3, <2>4, <2>5, <2>6 DEF RevertDelete, RevertRestore, RevertFails, Write, States
    <2>8. /\ job.base = Last(stack[job.tool]).state /\ stack[job.tool] # <<>>
          /\ job.tool \in Tools /\ q \notin Held(job.base) /\ q \in Last(stack[job.tool]).pushed
        BY <1>1, <2>7 DEF IInv, JobInv, TypeOK, Job
    <2>9. Last(stack[job.tool]).pushed \subseteq Last(stack[job.tool]).wrote
        BY <1>1, <2>8, StackFacts DEF IInv, BaselinesInv
    <2> QED
        BY <2>5, <2>8, <2>9 DEF Held
<1> QED
    BY <1>1, Invariance, PTL DEF Spec, DeletesOnlyCreated
=============================================================================
