------------------------- MODULE TagsWorkflowProofs -------------------------
(***************************************************************************)
(* Proofs about the tag tools, for any objects, tags, runs, edits and       *)
(* faults, about the workflow runner, for any tagged groups and budget, and *)
(* about the push of a whole bundle and its rollbacks, for any objects.     *)
(*                                                                         *)
(* Tags: as long as a run still has to write an object, what the object has *)
(* and the run has not seen was added since.  Workflow: the baselines of    *)
(* all folders are one stack, whose top, used in turn, gives back exactly   *)
(* what the target held; and what was applied since anything else was done  *)
(* is what the one capture holds, class by class.  Payload: each object the *)
(* tool has handled, skipped or failed on accounts for what it left of it.  *)
(***************************************************************************)
EXTENDS TagTools, Workflow, PayloadPush, FiniteSetTheorems, SequenceTheorems, TLAPS

\* The run has read the tags of o, and is yet to write them.
Held(o) == o \in job.at \/ (OverVMs /\ o \in job.left)

\* What a run has in hand fits its kind.
JobInv ==
    /\ job.kind = "none" => job = NoJob
    /\ OverVMs => job.left \subseteq VMs /\ job.at = {} /\ Names(job.done) \subseteq VMs
    /\ ~OverVMs => job.left \subseteq Groups /\ job.at \subseteq Groups /\ Names(job.done) \subseteq Groups
    /\ \A g \in job.at : job.seen[g] # Absent /\ job.at = {g}
    /\ job.kind = "push" => /\ \A v \in job.left : NameTag[v] # Gone /\ <<v, NameTag[v]>> \in job.work
                            /\ \A p \in job.work : p[2] = NameTag[p[1]]

PlanInv == \A v \in plan : NameTag[v] # Gone

TypeInv ==
    /\ live \in States
    /\ plan \subseteq VMs
    /\ manifests \subseteq SUBSET Pairs
    /\ progress \subseteq Checkpoint
    /\ job \in Job
    /\ tagged \subseteq Pairs /\ edited \subseteq Pairs /\ since \subseteq Pairs
    /\ starts \in 0..MaxStarts /\ edits \in 0..MaxEdits /\ faults \in 0..MaxFaults
    /\ JobInv /\ PlanInv

-----------------------------------------------------------------------------
(* The values the actions build                                             *)

LEMMA NoJobType == NoJob \in Job
BY DEF NoJob, Job, States

\* A run that starts has what its kind needs.
LEMMA StartType ==
    ASSUME TypeInv, NEW kind \in {"push", "revert", "sync", "unsync"}, NEW toWrite \in SUBSET Pairs,
           NEW toDo \in SUBSET Objects, NEW resumed \in SUBSET VMs, Start(kind, toWrite, toDo, resumed),
           kind \in {"push", "revert"} => toDo \subseteq VMs,
           kind \in {"sync", "unsync"} => toDo \subseteq Groups,
           kind = "push" => /\ \A v \in toDo : NameTag[v] # Gone /\ <<v, NameTag[v]>> \in toWrite
                            /\ \A p \in toWrite : p[2] = NameTag[p[1]]
    PROVE  TypeInv'
<1> USE BoundsAssumption
<1>1. job' = [kind |-> kind, work |-> toWrite, seen |-> live, left |-> toDo, at |-> {},
              resumed |-> resumed, done |-> {}]
    BY DEF Start, NoJob
<1>2. job' \in Job
    BY <1>1 DEF Job, TypeInv
<1>3. JobInv'
    BY <1>1 DEF JobInv, OverVMs, Names
<1>4. starts' \in 0..MaxStarts
    BY DEF Start, TypeInv
<1> QED
    BY <1>2, <1>3, <1>4 DEF Start, TypeInv, PlanInv

\* Going on to the next object.
LEMMA LeaveType ==
    ASSUME TypeInv, job.kind # "none", NEW o, Leave(o)
    PROVE  job' \in Job /\ JobInv'
<1>1. job' = [job EXCEPT !.left = @ \ {o}, !.at = @ \ {o}]
    BY DEF Leave
<1>2. job' \in Job
    BY <1>1 DEF TypeInv, Job
<1>3. /\ job'.kind = job.kind /\ job'.work = job.work /\ job'.seen = job.seen
      /\ job'.left = job.left \ {o} /\ job'.at = job.at \ {o} /\ job'.done = job.done
    BY <1>1 DEF TypeInv, Job
<1> QED
    BY <1>2, <1>3 DEF TypeInv, JobInv, OverVMs

\* Noting what was written to o, and going on.
LEMMA DoneType ==
    ASSUME TypeInv, job.kind # "none", NEW o \in job.left \cup job.at, NEW tags \in SUBSET Tags,
           job'.kind = job.kind, job'.work = job.work, job'.seen = job.seen,
           job'.left = job.left \ {o}, job'.at \in {job.at, job.at \ {o}},
           job'.done = job.done \cup ({o} \X tags),
           job'.resumed = job.resumed,
           job' = [kind |-> job'.kind, work |-> job'.work, seen |-> job'.seen, left |-> job'.left,
                   at |-> job'.at, resumed |-> job'.resumed, done |-> job'.done]
    PROVE  job' \in Job /\ JobInv'
<1>1. {o} \X tags \subseteq Pairs
    BY DEF Pairs, TypeInv, Job, JobInv, Objects
<1>2. job' \in Job
    BY <1>1 DEF TypeInv, Job
<1>3. /\ OverVMs => Names(job'.done) \subseteq VMs
      /\ ~OverVMs => Names(job'.done) \subseteq Groups
    <2>1. ASSUME NEW p \in job'.done PROVE p[1] = o \/ p[1] \in Names(job.done)
        BY DEF Names
    <2>2. Names(job'.done) \subseteq {o} \cup Names(job.done)
        BY <2>1 DEF Names
    <2> QED
        BY <2>2 DEF TypeInv, JobInv
<1> QED
    BY <1>2, <1>3 DEF TypeInv, JobInv, OverVMs

\* What a call for o posts is a set of tags.
LEMMA PostsType ==
    ASSUME TypeInv, NEW o \in Objects, o \in Calls, NEW tags \in Posts(o)
    PROVE  tags \in SUBSET Tags
<1> USE ConstantsAssumption
<1>1. job.seen \in States /\ job.kind \in {"none", "push", "revert", "sync", "unsync"}
    BY DEF TypeInv, Job
<1>2. CASE job.kind = "push"
    <2>1. o \in job.left /\ job.seen[o] # Absent /\ o \in VMs /\ NameTag[o] # Gone
        BY <1>2 DEF TypeInv, JobInv, Calls, OverVMs, PassesOver
    <2>2. job.seen[o] \in SUBSET Tags /\ NameTag[o] \in Tags
        BY <1>1, <2>1 DEF States
    <2> QED
        BY <1>2, <2>2 DEF Posts, Combined
<1>3. CASE job.kind = "revert"
    <2>1. PICK h \in HostTags : Removed(o, h) /\ tags = job.seen[o] \ {h}
        BY <1>3 DEF Posts
    <2>2. job.seen[o] # Absent
        BY <2>1 DEF Removed, HostNames, In
    <2> QED
        BY <1>1, <2>1, <2>2 DEF States
<1>4. CASE job.kind \notin {"push", "revert"}
    <2>1. o \in job.at /\ o \in Groups /\ job.seen[o] # Absent
        BY <1>4 DEF Calls, OverVMs, TypeInv, JobInv
    <2>2. job.seen[o] \in SUBSET Tags
        BY <1>1, <2>1 DEF States
    <2>3. Criteria[o] \in SUBSET Tags
        BY <2>1
    <2> QED
        BY <1>4, <2>2, <2>3 DEF Posts, Labels, Change, ToAdd, Desired
<1> QED
    BY <1>2, <1>3, <1>4

\* Posting tags leaves the manager and the history well typed.
LEMMA PostType ==
    ASSUME TypeInv, NEW o \in Objects, NEW tags \in SUBSET Tags, Post(o, tags)
    PROVE  live' \in States /\ tagged' \subseteq Pairs
<1>1. live' \in States
    BY DEF TypeInv, Post, States
<1>2. {o} \X (tags \ (In(live, o) \cup In(job.seen, o))) \subseteq Pairs
    BY DEF Pairs
<1> QED
    BY <1>1, <1>2 DEF TypeInv, Post

\* What a step of a run leaves alone keeps its type.
LEMMA RunFrame ==
    ASSUME TypeInv, job' \in Job, JobInv', live' \in States, tagged' \subseteq Pairs,
           manifests' \subseteq SUBSET Pairs, progress' \subseteq Checkpoint,
           since' \subseteq Pairs, faults' \in 0..MaxFaults, UNCHANGED <<plan, edited, starts, edits>>
    PROVE  TypeInv'
BY DEF TypeInv, PlanInv

-----------------------------------------------------------------------------
\* Type correctness holds at the start.
LEMMA TypeInit == Init => TypeInv
<1> SUFFICES ASSUME Init PROVE TypeInv
    OBVIOUS
<1>1. job = NoJob /\ NoJob \in Job
    BY NoJobType DEF Init
<1>2. JobInv
    BY <1>1 DEF JobInv, OverVMs, NoJob, Names
<1> QED
    BY <1>1, <1>2, ConstantsAssumption, BoundsAssumption DEF Init, TypeInv, PlanInv

\* Every step keeps the types.
LEMMA TypeNext == TypeInv /\ [Next]_vars => TypeInv'
<1> SUFFICES ASSUME TypeInv, [Next]_vars PROVE TypeInv'
    OBVIOUS
<1> USE ConstantsAssumption, BoundsAssumption
<1>o. /\ live \in States /\ plan \subseteq VMs /\ manifests \subseteq SUBSET Pairs
      /\ progress \subseteq Checkpoint /\ job \in Job /\ tagged \subseteq Pairs
      /\ edited \subseteq Pairs /\ since \subseteq Pairs /\ starts \in 0..MaxStarts
      /\ edits \in 0..MaxEdits /\ faults \in 0..MaxFaults
    BY DEF TypeInv
<1>j. /\ JobInv /\ job.work \in SUBSET Pairs /\ job.done \in SUBSET Pairs /\ job.seen \in States
      /\ job.left \subseteq Objects /\ VMs \subseteq Objects /\ Groups \subseteq Objects
    BY DEF TypeInv, Job, Objects
<1>n. ASSUME NEW m \in SUBSET Pairs PROVE Names(m) \subseteq Objects
    BY DEF Names, Pairs
<1>k. job.kind # "none" => Kept \subseteq Checkpoint
    <2> DEFINE line == [kind |-> job.kind, of |-> job.work, done |-> Names(job.done)]
    <2>1. OverVMs => line \in Checkpoint
        BY <1>j DEF JobInv, OverVMs, Checkpoint
    <2> QED
        BY <1>o, <2>1 DEF Kept
<1>r. \A kind \in {"push", "revert"}, toWrite \in SUBSET Pairs :
          \A resumed \in Resumable(kind, toWrite) : resumed \in SUBSET VMs
    BY <1>o DEF Resumable, Checkpoint
<1>f. Fault => faults' \in 0..MaxFaults
    BY <1>o DEF Fault
<1>i. NoJob \in Job /\ (job' = NoJob => JobInv')
    BY NoJobType DEF JobInv, NoJob, OverVMs, Names
<1>1. CASE BuildPlan
    <2>1. \A v \in plan' : NameTag[v] # Gone
        BY <1>1 DEF BuildPlan, Eligible
    <2> QED
        BY <1>1, <2>1, <1>o, <1>j DEF BuildPlan, TypeInv, PlanInv, JobInv, OverVMs
<1>2. CASE PushStart
    <2>1. PICK resumed \in Resumable("push", PlanPairs) : Start("push", PlanPairs, plan, resumed)
        BY <1>2 DEF PushStart
    <2>2. PlanPairs \in SUBSET Pairs
        BY <1>o DEF PlanPairs, Pairs, Objects, TypeInv, PlanInv
    <2>3. resumed \in SUBSET VMs
        BY <2>2, <1>r
    <2>4. /\ \A v \in plan : NameTag[v] # Gone /\ <<v, NameTag[v]>> \in PlanPairs
          /\ \A p \in PlanPairs : p[2] = NameTag[p[1]]
        BY DEF TypeInv, PlanInv, PlanPairs
    <2> QED
        BY <2>1, <2>2, <2>3, <2>4, <1>o, <1>j, StartType
<1>3. CASE RevertStart
    <2>1. PICK m \in manifests \ {{}} :
              /\ Names(m) \subseteq VMs
              /\ \E resumed \in Resumable("revert", m) : Start("revert", m, Names(m), resumed)
        BY <1>3 DEF RevertStart
    <2>2. PICK resumed \in Resumable("revert", m) : Start("revert", m, Names(m), resumed)
        BY <2>1
    <2>3. m \in SUBSET Pairs /\ Names(m) \in SUBSET Objects
        BY <1>o, <1>n
    <2>4. resumed \in SUBSET VMs
        BY <2>3, <1>r
    <2> QED
        BY <2>1, <2>2, <2>3, <2>4, StartType
<1>4. CASE SyncStart
    BY <1>4, <1>j, StartType DEF SyncStart
<1>5. CASE UnsyncStart
    <2>1. PICK m \in manifests \ {{}} : Names(m) \subseteq Groups /\ Start("unsync", m, Names(m), {})
        BY <1>5 DEF UnsyncStart
    <2>2. m \in SUBSET Pairs /\ Names(m) \in SUBSET Objects
        BY <1>o, <1>n
    <2> QED
        BY <2>1, <2>2, StartType
<1>6. CASE Finish
    BY <1>6, <1>o, <1>j, <1>k, <1>i, RunFrame DEF Finish
<1>7. CASE Killed
    <2>1. live' \in States /\ tagged' \subseteq Pairs
        <3>1. CASE UNCHANGED <<live, tagged>>
            BY <3>1, <1>o
        <3>2. CASE \E o \in Calls : \E tags \in Posts(o) : Post(o, tags)
            <4>1. \A o \in Calls : o \in Objects
                BY <1>j DEF Calls, JobInv
            <4> QED
                BY <3>2, <4>1, PostsType, PostType
        <3> QED
            BY <1>7, <3>1, <3>2 DEF Killed
    <2> QED
        BY <1>7, <2>1, <1>o, <1>f, <1>k, <1>i, RunFrame DEF Killed
<1>8. ASSUME NEW v \in VMs, PushSkip(v) \/ RevertSkip(v) \/ Refused(v) PROVE TypeInv'
    <2>1. Leave(v) /\ job.kind # "none"
        BY <1>8 DEF PushSkip, RevertSkip, Refused, OverVMs
    <2>2. UNCHANGED <<live, plan, manifests, progress, tagged, edited, since, starts, edits, faults>>
        BY <1>8 DEF PushSkip, RevertSkip, Refused
    <2> QED
        BY <2>1, <2>2, <1>o, LeaveType, RunFrame
<1>9. ASSUME NEW v \in VMs, NEW tags, Posted(v, tags), OverVMs, v \in job.left,
             tags \in Posts(v), v \in Calls
      PROVE  TypeInv'
    <2>1. tags \in SUBSET Tags /\ v \in Objects
        BY <1>9, <1>j, PostsType
    <2>2. live' \in States /\ tagged' \subseteq Pairs
        BY <1>9, <2>1, PostType DEF Posted
    <2>3. TagsFor(job.work, v) \in SUBSET Tags
        BY <1>j DEF TagsFor, Pairs
    <2>4. {<<v, t>> : t \in TagsFor(job.work, v)} = {v} \X TagsFor(job.work, v)
        OBVIOUS
    <2>5. job' = [job EXCEPT !.left = @ \ {v}, !.done = @ \cup ({v} \X TagsFor(job.work, v))]
        BY <1>9, <2>4 DEF Posted
    <2>6. job' \in Job /\ JobInv'
        BY <1>9, <1>o, <2>3, <2>5, DoneType DEF Job, OverVMs
    <2> QED
        BY <1>9, <2>2, <2>6, <1>o, RunFrame DEF Posted
<1>10. ASSUME NEW v \in VMs, PushWrite(v) PROVE TypeInv'
    <2>1. OverVMs /\ v \in job.left /\ v \in Calls /\ Combined(v) \in Posts(v)
        BY <1>10 DEF PushWrite, OverVMs, Calls, Posts
    <2> QED
        BY <1>10, <2>1, <1>9 DEF PushWrite
<1>11. ASSUME NEW v \in VMs, RevertWrite(v) PROVE TypeInv'
    <2>1. PICK h \in HostTags : Removed(v, h) /\ Posted(v, job.seen[v] \ {h})
        BY <1>11 DEF RevertWrite
    <2>2. OverVMs /\ v \in job.left /\ v \in Calls /\ job.seen[v] \ {h} \in Posts(v)
        BY <1>11, <2>1 DEF RevertWrite, OverVMs, Calls, Posts
    <2> QED
        BY <2>1, <2>2, <1>9
<1>12. ASSUME NEW g \in Groups, GroupRead(g) PROVE TypeInv'
    <2>1. since' \subseteq Pairs
        BY <1>12, <1>o DEF GroupRead
    <2>2. job.kind \in {"sync", "unsync"} /\ job.at = {} /\ ~OverVMs
        BY <1>12 DEF GroupRead, ReadsNext, OverVMs
    <2>3. CASE Leave(g)
        BY <1>12, <2>1, <2>2, <2>3, <1>o, LeaveType, RunFrame DEF GroupRead
    <2>4. CASE /\ live[g] # Absent
               /\ job' = [job EXCEPT !.at = @ \cup {g}, !.seen[g] = live[g]]
        <3>1. live[g] \in (SUBSET Tags) \cup {Absent} /\ g \in Objects
            BY <1>o, <1>j DEF States
        <3>2. [job.seen EXCEPT ![g] = live[g]] \in States
            BY <3>1, <1>j DEF States
        <3>3. job' \in Job
            BY <2>4, <3>2, <1>o DEF Job
        <3>4. /\ job'.kind = job.kind /\ job'.left = job.left /\ job'.at = {g}
              /\ job'.seen[g] = live[g]
            BY <2>2, <2>4, <1>o, <1>j, <3>1 DEF Job, States
        <3>5. JobInv'
            BY <2>2, <2>4, <3>4, <1>j DEF JobInv, OverVMs
        <3> QED
            BY <1>12, <2>1, <3>3, <3>5, <1>o, RunFrame DEF GroupRead
    <2> QED
        BY <1>12, <2>3, <2>4 DEF GroupRead
<1>13. ASSUME NEW g \in Groups, GroupWrite(g) PROVE TypeInv'
    <2>1. g \in job.at /\ ~OverVMs /\ job.kind \in {"sync", "unsync"}
        BY <1>13, <1>o, <1>j DEF GroupWrite, JobInv, OverVMs, Job, NoJob
    <2>2. g \in Calls /\ Labels(g) \in Posts(g)
        BY <2>1 DEF Calls, Posts
    <2>3. Labels(g) \in SUBSET Tags
        BY <2>2, <1>j, PostsType
    <2>4. live' \in States /\ tagged' \subseteq Pairs
        BY <1>13, <2>3, <1>j, PostType DEF GroupWrite
    <2>5. Change(g, job.seen[g]) \in SUBSET Tags
        BY <1>j, <2>1 DEF Change, ToAdd, Desired, TagsFor, Pairs
    <2>6. job' = [job EXCEPT !.left = @ \ {g}, !.at = @ \ {g},
                             !.done = @ \cup ({g} \X Change(g, job.seen[g]))]
        BY <1>13 DEF GroupWrite
    <2>7. job' \in Job /\ JobInv'
        BY <2>1, <2>5, <2>6, <1>o, DoneType DEF Job
    <2> QED
        BY <1>13, <2>4, <2>7, <1>o, RunFrame DEF GroupWrite
<1>14. ASSUME NEW o \in Objects, CallFails(o) PROVE TypeInv'
    <2>1. o \in Calls /\ Leave(o) /\ job.kind # "none"
        BY <1>14, <1>j DEF CallFails, Calls, OverVMs, JobInv, NoJob
    <2>2. live' \in States /\ tagged' \subseteq Pairs
        BY <1>14, <2>1, <1>o, PostsType, PostType DEF CallFails
    <2> QED
        BY <1>14, <2>1, <2>2, <1>o, <1>f, LeaveType, RunFrame DEF CallFails
<1>15. ASSUME NEW o \in Objects, Someone(o) PROVE TypeInv'
    <2>1. live' \in States
        BY <1>15, <1>o DEF Someone, States
    <2>2. since' \subseteq Pairs /\ edited' \subseteq Pairs
        <3>1. \A t \in Tags : <<o, t>> \in Pairs
            BY DEF Pairs
        <3>2. live[o] # Absent => live[o] \subseteq Tags
            BY <1>o DEF States
        <3> QED
            BY <1>15, <3>1, <3>2, <1>o DEF Someone, Pairs
    <2>3. edits' \in 0..MaxEdits
        BY <1>15, <1>o DEF Someone
    <2>4. JobInv'
        BY <1>15, <1>j DEF Someone, JobInv, OverVMs
    <2> QED
        BY <1>15, <2>1, <2>2, <2>3, <2>4, <1>o DEF Someone, TypeInv, PlanInv
<1>16. CASE UNCHANGED vars
    BY <1>16, <1>o, <1>j DEF vars, TypeInv, PlanInv, JobInv, OverVMs
<1> QED
    BY <1>1, <1>2, <1>3, <1>4, <1>5, <1>6, <1>7, <1>8, <1>10, <1>11, <1>12, <1>13, <1>14, <1>15,
       <1>16 DEF Next

\* Every variable has its type in every reachable state: one group at most is in
\* hand, and what a run over VMs has in hand are VMs.
THEOREM TypeCorrect == Spec => []TypeOK
<1>1. TypeInv => TypeOK
    <2> SUFFICES ASSUME TypeInv PROVE Cardinality(job.at) <= 1
        BY DEF TypeInv, TypeOK
    <2>1. CASE job.at = {}
        BY <2>1, FS_EmptySet
    <2>2. CASE job.at # {}
        <3>1. PICK g \in job.at : job.at = {g}
            BY <2>2 DEF TypeInv, JobInv
        <3> QED
            BY <3>1, FS_Singleton
    <2> QED
        BY <2>1, <2>2
<1> QED
    BY <1>1, TypeInit, TypeNext, PTL DEF Spec

-----------------------------------------------------------------------------
(* What a run has read and what there is                                    *)

\* What an object in hand has that was not read was added since.
SinceInv ==
    \A o \in Objects, t \in Tags :
        Held(o) /\ t \in In(live, o) \ In(job.seen, o) => <<o, t>> \in since

\* What a call posts drops only what was added since the reading, or what the
\* run is to take off.
LEMMA PostsOnlyOwn ==
    ASSUME TypeInv, SinceInv, NEW o \in Objects, o \in Calls, NEW tags \in Posts(o),
           NEW t \in In(live, o) \ tags
    PROVE  <<o, t>> \in since \/ (job.kind \in {"revert", "unsync"} /\ <<o, t>> \in job.work)
<1>1. Held(o) /\ t \in Tags
    <2>1. live[o] \in (SUBSET Tags) \cup {Absent}
        BY DEF TypeInv, States
    <2> QED
        BY <2>1 DEF Held, Calls, In
<1>2. t \notin In(job.seen, o) => <<o, t>> \in since
    BY <1>1 DEF SinceInv
<1>w. t \in TagsFor(job.work, o) => <<o, t>> \in job.work
    BY DEF TagsFor, TypeInv, Job, Pairs
<1>3. CASE job.kind = "push"
    BY <1>2, <1>3 DEF Posts, Combined, In
<1>4. CASE job.kind = "revert"
    <2>1. PICK h \in HostTags : Removed(o, h) /\ tags = job.seen[o] \ {h}
        BY <1>4 DEF Posts
    <2> QED
        BY <1>2, <1>4, <1>w, <2>1 DEF Removed, In
<1>5. CASE job.kind \notin {"push", "revert"}
    <2>1. o \in job.at /\ job.seen[o] # Absent /\ tags = Labels(o)
        BY <1>5 DEF Calls, OverVMs, Posts, TypeInv, JobInv
    <2>2. job.kind \in {"sync", "unsync"}
        BY <1>5, <2>1 DEF TypeInv, JobInv, Job, NoJob
    <2> QED
        BY <1>2, <1>w, <2>1, <2>2 DEF Labels, Change, In
<1> QED
    BY <1>3, <1>4, <1>5

\* A run holds only objects it held, or one it has just read.
LEMMA HeldLeave ==
    ASSUME TypeInv, NEW o, Leave(o), NEW x, Held(x)'
    PROVE  Held(x) /\ x # o /\ job'.seen = job.seen /\ job'.kind = job.kind
BY DEF Held, Leave, TypeInv, Job, OverVMs

\* While an object is in hand, neither what was read of it nor what it has
\* changes, but by somebody else.
LEMMA HeldStep ==
    ASSUME TypeInv, [Next]_vars, NEW o \in Objects, Held(o)'
    PROVE  \/ live'[o] = job'.seen[o]
           \/ /\ Held(o) /\ job'.seen[o] = job.seen[o] /\ live'[o] = live[o]
              /\ edited' = edited /\ \A t \in Tags : <<o, t>> \in since => <<o, t>> \in since'
           \/ /\ Held(o) /\ job' = job /\ job.kind # "none" /\ \E x \in Objects : Someone(x)
<1> DEFINE Stays == /\ Held(o) /\ job'.seen[o] = job.seen[o] /\ live'[o] = live[o]
                    /\ edited' = edited /\ \A t \in Tags : <<o, t>> \in since => <<o, t>> \in since'
<1>j. JobInv /\ job \in Job /\ live \in States
    BY DEF TypeInv
<1>b. ASSUME NEW kind, NEW toWrite, NEW toDo, NEW resumed, Start(kind, toWrite, toDo, resumed)
      PROVE  live'[o] = job'.seen[o]
    BY <1>b DEF Start, NoJob
<1>n. ASSUME job' = NoJob PROVE FALSE
    BY <1>n DEF Held, OverVMs, NoJob
<1>1. CASE BuildPlan
    BY <1>1 DEF BuildPlan, Held, OverVMs
<1>2. CASE PushStart \/ RevertStart \/ SyncStart \/ UnsyncStart
    BY <1>2, <1>b DEF PushStart, RevertStart, SyncStart, UnsyncStart
<1>3. CASE Finish \/ Killed
    BY <1>3, <1>n DEF Finish, Killed
<1>4. ASSUME NEW v \in VMs, PushSkip(v) \/ RevertSkip(v) \/ Refused(v) PROVE Stays
    BY <1>4, HeldLeave DEF PushSkip, RevertSkip, Refused
<1>5. ASSUME NEW v \in VMs, NEW tags, Posted(v, tags), v \in job.left, OverVMs PROVE Stays
    <2>1. Held(o) /\ o # v /\ job'.seen = job.seen
        BY <1>5, <1>j DEF Posted, Held, OverVMs, JobInv, Job
    <2>2. live'[o] = live[o] /\ since' = since /\ edited' = edited
        BY <1>5, <1>j, <2>1 DEF Posted, Post, States
    <2> QED
        BY <2>1, <2>2
<1>6. ASSUME NEW v \in VMs, PushWrite(v) \/ RevertWrite(v) PROVE Stays
    BY <1>5, <1>6 DEF PushWrite, RevertWrite, OverVMs
<1>7. ASSUME NEW g \in Groups, GroupRead(g) PROVE Stays \/ live'[o] = job'.seen[o]
    <2>1. CASE Leave(g)
        <3>1. Held(o) /\ o # g /\ job'.seen = job.seen
            BY <2>1, HeldLeave
        <3> QED
            BY <1>7, <3>1 DEF GroupRead
    <2>2. CASE job' = [job EXCEPT !.at = @ \cup {g}, !.seen[g] = live[g]]
        <3>1. o = g
            BY <1>7, <1>j, <2>2 DEF GroupRead, ReadsNext, Held, OverVMs, Job
        <3> QED
            BY <1>7, <1>j, <2>2, <3>1 DEF GroupRead, Job, States
    <2> QED
        BY <1>7, <2>1, <2>2 DEF GroupRead
<1>8. ASSUME NEW g \in Groups, GroupWrite(g) PROVE Stays
    <2>1. Held(o) /\ o # g /\ job'.seen = job.seen
        BY <1>8, <1>j DEF GroupWrite, Held, OverVMs, JobInv, Job
    <2>2. live'[o] = live[o] /\ since' = since /\ edited' = edited
        BY <1>8, <1>j, <2>1 DEF GroupWrite, Post, States
    <2> QED
        BY <2>1, <2>2
<1>9. ASSUME NEW x \in Objects, CallFails(x) PROVE Stays
    <2>1. Held(o) /\ o # x /\ job'.seen = job.seen
        BY <1>9, HeldLeave DEF CallFails
    <2>2. live'[o] = live[o] /\ since' = since /\ edited' = edited
        BY <1>9, <1>j, <2>1 DEF CallFails, Post, States
    <2> QED
        BY <2>1, <2>2
<1>10. ASSUME NEW x \in Objects, Someone(x) PROVE Held(o) /\ job' = job /\ job.kind # "none"
    BY <1>10, <1>j DEF Someone, Held, OverVMs, JobInv, NoJob
<1>11. CASE UNCHANGED vars
    BY <1>11 DEF vars, Held, OverVMs
<1> QED
    BY <1>1, <1>2, <1>3, <1>4, <1>6, <1>7, <1>8, <1>9, <1>10, <1>11 DEF Next

\* What somebody else does to one tag, or to an object.
LEMMA SomeoneStep ==
    ASSUME TypeInv, NEW x \in Objects, Someone(x), NEW o \in Objects, NEW t \in Tags
    PROVE  /\ since' \subseteq since \cup edited' /\ edited \subseteq edited'
           /\ <<o, t>> \notin edited' => (t \in In(live', o) <=> t \in In(live, o))
           /\ (job.kind # "none" /\ t \in In(live', o)) =>
                  (<<o, t>> \in since' \/ (t \in In(live, o) /\ <<o, t>> \notin since))
<1>l. /\ live \in States /\ since \subseteq Pairs
      /\ \A y \in Objects, u \in Tags : (live[y] # Absent => live[y] \subseteq Tags) /\ <<y, u>> \in Pairs
    BY DEF TypeInv, States, Pairs
<1>1. CASE \E u \in Tags \ live[x] :
               /\ live' = [live EXCEPT ![x] = @ \cup {u}] /\ edited' = edited \cup {<<x, u>>}
               /\ since' = IF job.kind = "none" THEN since ELSE since \cup {<<x, u>>}
    <2>1. PICK u \in Tags \ live[x] :
               /\ live' = [live EXCEPT ![x] = @ \cup {u}] /\ edited' = edited \cup {<<x, u>>}
               /\ since' = IF job.kind = "none" THEN since ELSE since \cup {<<x, u>>}
        BY <1>1
    <2>2. live[x] # Absent /\ live'[x] = live[x] \cup {u} /\ live'[x] # Absent /\ (x # o => live'[o] = live[o])
        BY <1>l, <2>1, ConstantsAssumption DEF Someone, States, Absent
    <2> QED
        BY <1>l, <2>1, <2>2 DEF In
<1>2. CASE \E u \in live[x] :
               /\ live' = [live EXCEPT ![x] = @ \ {u}]
               /\ edited' = edited \cup {<<x, u>>} /\ since' = since \ {<<x, u>>}
    <2>1. PICK u \in live[x] : /\ live' = [live EXCEPT ![x] = @ \ {u}]
                               /\ edited' = edited \cup {<<x, u>>} /\ since' = since \ {<<x, u>>}
        BY <1>2
    <2>2. live[x] # Absent /\ live'[x] = live[x] \ {u} /\ live'[x] # Absent /\ (x # o => live'[o] = live[o])
        BY <1>l, <2>1, ConstantsAssumption DEF Someone, States, Absent
    <2> QED
        BY <1>l, <2>1, <2>2 DEF In
<1>3. CASE /\ live' = [live EXCEPT ![x] = Absent]
           /\ edited' = edited \cup ({x} \X Tags) /\ UNCHANGED since
    BY <1>3, <1>l DEF In, States
<1> QED
    BY <1>1, <1>2, <1>3 DEF Someone

LEMMA SinceNext == TypeInv /\ SinceInv /\ [Next]_vars => SinceInv'
<1> SUFFICES ASSUME TypeInv, SinceInv, [Next]_vars,
                    NEW o \in Objects, NEW t \in Tags, Held(o)',
                    t \in In(live', o), t \notin In(job'.seen, o)
             PROVE  <<o, t>> \in since'
    BY DEF SinceInv
<1>s. Held(o) /\ t \in In(live, o) \ In(job.seen, o) => <<o, t>> \in since
    BY DEF SinceInv
<1>1. CASE live'[o] = job'.seen[o]
    BY <1>1 DEF In
<1>2. CASE /\ Held(o) /\ job'.seen[o] = job.seen[o] /\ live'[o] = live[o]
           /\ \A u \in Tags : <<o, u>> \in since => <<o, u>> \in since'
    BY <1>2, <1>s DEF In
<1>3. CASE Held(o) /\ job' = job /\ job.kind # "none" /\ \E x \in Objects : Someone(x)
    BY <1>3, <1>s, SomeoneStep
<1> QED
    BY <1>1, <1>2, <1>3, HeldStep

LEMMA SinceInit == Init => SinceInv
BY DEF Init, SinceInv, Held, OverVMs, NoJob

-----------------------------------------------------------------------------
(* Steps that post                                                          *)

\* Every write to an object, but somebody else's, posts what a call of the run
\* that holds it would.
LEMMA WritesPost ==
    ASSUME TypeInv, [Next]_vars, edits' = edits
    PROVE  \/ UNCHANGED <<live, tagged>>
           \/ \E o \in Objects : o \in Calls /\ \E tags \in Posts(o) : Post(o, tags)
<1> USE BoundsAssumption
<1>c. \A o \in Calls : o \in Objects
    BY DEF Calls, TypeInv, JobInv, Job, Objects, OverVMs
<1>1. CASE BuildPlan \/ PushStart \/ RevertStart \/ SyncStart \/ UnsyncStart \/ Finish
    BY <1>1 DEF BuildPlan, PushStart, RevertStart, SyncStart, UnsyncStart, Finish, Start
<1>2. CASE Killed
    BY <1>2, <1>c DEF Killed
<1>3. ASSUME NEW v \in VMs, PushSkip(v) \/ RevertSkip(v) \/ Refused(v) PROVE UNCHANGED <<live, tagged>>
    BY <1>3 DEF PushSkip, RevertSkip, Refused
<1>4. ASSUME NEW v \in VMs, PushWrite(v) PROVE v \in Calls /\ \E tags \in Posts(v) : Post(v, tags)
    <2>1. v \in Calls /\ Combined(v) \in Posts(v)
        BY <1>4 DEF PushWrite, OverVMs, Calls, Posts
    <2> QED
        BY <1>4, <2>1 DEF PushWrite, Posted
<1>5. ASSUME NEW v \in VMs, RevertWrite(v) PROVE v \in Calls /\ \E tags \in Posts(v) : Post(v, tags)
    <2>1. PICK h \in HostTags : Removed(v, h) /\ Posted(v, job.seen[v] \ {h})
        BY <1>5 DEF RevertWrite
    <2>2. v \in Calls /\ job.seen[v] \ {h} \in Posts(v)
        BY <1>5, <2>1 DEF RevertWrite, OverVMs, Calls, Posts
    <2> QED
        BY <2>1, <2>2 DEF Posted
<1>6. ASSUME NEW g \in Groups, GroupRead(g) PROVE UNCHANGED <<live, tagged>>
    BY <1>6 DEF GroupRead
<1>7. ASSUME NEW g \in Groups, GroupWrite(g) PROVE g \in Calls /\ \E tags \in Posts(g) : Post(g, tags)
    <2>1. g \in job.at /\ ~OverVMs
        BY <1>7 DEF GroupWrite, TypeInv, JobInv
    <2>2. g \in Calls /\ Labels(g) \in Posts(g)
        BY <2>1 DEF Calls, Posts, OverVMs
    <2> QED
        BY <1>7, <2>2 DEF GroupWrite
<1>8. ASSUME NEW o \in Objects, CallFails(o)
      PROVE  UNCHANGED <<live, tagged>> \/ (o \in Calls /\ \E tags \in Posts(o) : Post(o, tags))
    BY <1>8 DEF CallFails
<1>9. ASSUME NEW o \in Objects, Someone(o) PROVE FALSE
    <2>1. edits \in Nat /\ edits' = edits + 1
        BY <1>9 DEF Someone, TypeInv
    <2> QED
        BY <2>1
<1>10. CASE UNCHANGED vars
    BY <1>10 DEF vars
<1> QED
    BY <1>1, <1>2, <1>3, <1>4, <1>5, <1>6, <1>7, <1>8, <1>9, <1>10, <1>c DEF Next

\* A run takes off only what it is told to take off, or what somebody added
\* after it had read the object.
THEOREM OnlyOwnTaken == Spec => TakesOnlyOwn
<1> DEFINE Taken ==
        \A p \in Pairs : p[2] \in In(live, p[1]) \ In(live', p[1]) /\ edits' = edits =>
            \/ p \in since
            \/ job.kind \in {"revert", "unsync"} /\ p \in job.work
<1>1. TypeInv /\ SinceInv /\ [Next]_vars => Taken
    <2> SUFFICES ASSUME TypeInv, SinceInv, [Next]_vars, edits' = edits,
                        NEW p \in Pairs, p[2] \in In(live, p[1]) \ In(live', p[1])
                 PROVE  p \in since \/ (job.kind \in {"revert", "unsync"} /\ p \in job.work)
        OBVIOUS
    <2>p. p[1] \in Objects /\ p = <<p[1], p[2]>>
        BY DEF Pairs
    <2>1. PICK o \in Objects : o \in Calls /\ \E tags \in Posts(o) : Post(o, tags)
        BY WritesPost DEF In
    <2>2. PICK tags \in Posts(o) : Post(o, tags)
        BY <2>1
    <2>3. o = p[1]
        BY <2>p, <2>2 DEF Post, TypeInv, States, In
    <2>4. tags \in SUBSET Tags
        BY <2>1, PostsType
    <2>5. p[2] \in In(live, o) \ tags
        <3>1. live'[o] = tags
            BY <2>2 DEF Post, TypeInv, States
        <3>2. tags # Absent
            BY <2>4, ConstantsAssumption DEF Absent
        <3> QED
            BY <2>3, <3>1, <3>2 DEF In
    <2> QED
        BY <2>p, <2>1, <2>3, <2>5, PostsOnlyOwn
<1>2. [Next]_vars /\ Taken => [Taken]_vars
    OBVIOUS
<1> QED
    BY <1>1, TypeInit, TypeNext, SinceInit, SinceNext, PTL DEF Spec, TakesOnlyOwn

-----------------------------------------------------------------------------
(* Every tag is accounted for                                               *)

HadFirst(p) == p[2] \in In(FirstState, p[1])
HasNow(p) == p[2] \in In(live, p[1])

\* What was read of an object in hand and is gone, somebody else took.
StaleInv ==
    \A o \in Objects, t \in Tags :
        Held(o) /\ t \in In(job.seen, o) \ In(live, o) => <<o, t>> \in edited

\* What the tools say they added, and take off, was not there at first.
NotFirst(pairs) == \A p \in pairs : p \in edited \/ ~HadFirst(p)
AddedInv ==
    /\ \A m \in manifests : NotFirst(m)
    /\ NotFirst(job.done)
    /\ job.kind \in {"revert", "unsync"} => NotFirst(job.work)

AccountInv ==
    /\ since \subseteq edited
    /\ StaleInv
    /\ AddedInv
    /\ \A p \in Pairs \ edited : HasNow(p) <=> HadFirst(p) \/ p \in tagged

LEMMA AccountInit == Init => AccountInv
<1> SUFFICES ASSUME Init PROVE AccountInv
    OBVIOUS
<1> QED
    BY DEF Init, AccountInv, StaleInv, AddedInv, NotFirst, NoJob, Held, OverVMs, HasNow, HadFirst

LEMMA SinceEditedNext == TypeInv /\ since \subseteq edited /\ [Next]_vars => since' \subseteq edited'
<1> SUFFICES ASSUME TypeInv, since \subseteq edited, [Next]_vars PROVE since' \subseteq edited'
    OBVIOUS
<1>1. ASSUME NEW o \in Objects, Someone(o) PROVE since' \subseteq edited'
    BY <1>1 DEF Someone
<1> QED
    BY <1>1 DEF Next, vars, BuildPlan, PushStart, RevertStart, SyncStart, UnsyncStart, Start, Finish,
                Killed, PushSkip, PushWrite, RevertSkip, RevertWrite, Posted, Refused, GroupRead,
                GroupWrite, CallFails

LEMMA StaleNext == TypeInv /\ StaleInv /\ [Next]_vars => StaleInv'
<1> SUFFICES ASSUME TypeInv, StaleInv, [Next]_vars,
                    NEW o \in Objects, NEW t \in Tags, Held(o)',
                    t \in In(job'.seen, o), t \notin In(live', o)
             PROVE  <<o, t>> \in edited'
    BY DEF StaleInv
<1>s. Held(o) /\ t \in In(job.seen, o) \ In(live, o) => <<o, t>> \in edited
    BY DEF StaleInv
<1>1. CASE live'[o] = job'.seen[o]
    BY <1>1 DEF In
<1>2. CASE Held(o) /\ job'.seen[o] = job.seen[o] /\ live'[o] = live[o] /\ edited' = edited
    BY <1>2, <1>s DEF In
<1>3. CASE Held(o) /\ job' = job /\ job.kind # "none" /\ \E x \in Objects : Someone(x)
    BY <1>3, <1>s, SomeoneStep
<1> QED
    BY <1>1, <1>2, <1>3, HeldStep

\* A tag that was not read of an object in hand was not there at first.
LEMMA UnseenNotFirst ==
    ASSUME TypeInv, SinceInv, AccountInv, NEW o \in Objects, Held(o), NEW t \in Tags,
           t \notin In(job.seen, o), <<o, t>> \notin edited
    PROVE  ~HadFirst(<<o, t>>)
<1>1. <<o, t>> \in Pairs
    BY DEF Pairs
<1>2. t \notin In(live, o)
    BY DEF SinceInv, AccountInv
<1> QED
    BY <1>1, <1>2 DEF AccountInv, HasNow

\* Posting keeps the account.
LEMMA AccountPost ==
    ASSUME TypeInv, SinceInv, AccountInv, NEW o \in Objects, o \in Calls, NEW tags \in Posts(o),
           Post(o, tags), NEW p \in Pairs \ edited
    PROVE  p[2] \in In(live', p[1]) <=> HadFirst(p) \/ p \in tagged'
<1>1. /\ p[1] \in Objects /\ p[2] \in Tags /\ p = <<p[1], p[2]>> /\ Held(o)
      /\ (HasNow(p) <=> HadFirst(p) \/ p \in tagged)
    BY DEF Pairs, AccountInv, Held, Calls
<1>2. tags \in SUBSET Tags /\ tags # Absent
    BY PostsType, ConstantsAssumption DEF Absent
<1>3. CASE p[1] # o
    BY <1>1, <1>3 DEF Post, TypeInv, States, In, HasNow
<1>4. CASE p[1] = o
    <2>1. In(live', o) = tags
        BY <1>2 DEF Post, TypeInv, States, In
    <2>2. p \in tagged' <=> \/ p \in tagged /\ ~(p[2] \in In(live, o) \ tags)
                            \/ p[2] \in tags \ (In(live, o) \cup In(job.seen, o))
        BY <1>1, <1>4 DEF Post
    <2>3. p[2] \in In(job.seen, o) => HasNow(p)
        BY <1>1, <1>4 DEF AccountInv, StaleInv, HasNow
    <2>4. p[2] \in In(live, o) \ tags => ~HadFirst(p)
        <3> SUFFICES ASSUME p[2] \in In(live, o) \ tags PROVE ~HadFirst(p)
            OBVIOUS
        <3>1. job.kind \in {"revert", "unsync"} /\ p \in job.work
            BY <1>1, <1>4, PostsOnlyOwn DEF AccountInv
        <3> QED
            BY <3>1 DEF AccountInv, AddedInv, NotFirst
    <2> QED
        BY <1>1, <1>4, <2>1, <2>2, <2>3, <2>4 DEF HasNow
<1> QED
    BY <1>3, <1>4

\* What a run adds to its list was not there at first, and a run that reverts
\* takes its list from one that added.
LEMMA AddedNext == TypeInv /\ SinceInv /\ AccountInv /\ [Next]_vars => AddedInv'
<1> SUFFICES ASSUME TypeInv, SinceInv, AccountInv, [Next]_vars PROVE AddedInv'
    OBVIOUS
<1>a. AddedInv /\ JobInv /\ job \in Job
    BY DEF AccountInv, TypeInv
<1>e. ASSUME NEW pairs, NotFirst(pairs), edited \subseteq edited' PROVE NotFirst(pairs)'
    BY <1>e DEF NotFirst, HadFirst, In
<1>n. NotFirst({}) /\ NotFirst(NoJob.done) /\ (job' = NoJob => job'.kind = "none" /\ job'.done = {})
    BY DEF NotFirst, NoJob
<1>f. ASSUME edited' = edited, manifests' = manifests, job'.done = job.done, job'.work = job.work,
             job'.kind = job.kind
      PROVE  AddedInv'
    BY <1>a, <1>f DEF AddedInv, NotFirst, HadFirst, In
<1>s. ASSUME NEW kind, NEW toWrite, NEW toDo, NEW resumed, Start(kind, toWrite, toDo, resumed),
             kind \in {"revert", "unsync"} => NotFirst(toWrite)
      PROVE  AddedInv'
    <2>1. /\ job'.kind = kind /\ job'.work = toWrite /\ job'.done = {}
          /\ manifests' = manifests /\ edited' = edited
        BY <1>s DEF Start, NoJob
    <2> QED
        BY <1>a, <1>s, <2>1 DEF AddedInv, NotFirst, HadFirst, In
<1>d. ASSUME edited' = edited, manifests' = manifests, job'.work = job.work, job'.kind = job.kind,
             NEW o \in Objects, NEW tags \in SUBSET Tags, Held(o),
             job'.done = job.done \cup ({o} \X tags),
             \A t \in tags : t \notin In(job.seen, o) \/
                             (job.kind \in {"revert", "unsync"} /\ <<o, t>> \in job.work)
      PROVE  AddedInv'
    <2>1. \A t \in tags : <<o, t>> \in edited \/ ~HadFirst(<<o, t>>)
        BY <1>a, <1>d, UnseenNotFirst DEF AddedInv, NotFirst
    <2>2. NotFirst(job'.done)
        BY <1>a, <1>d, <2>1 DEF AddedInv, NotFirst
    <2> QED
        BY <1>a, <1>d, <2>2 DEF AddedInv, NotFirst, HadFirst, In
<1>1. CASE BuildPlan
    BY <1>1, <1>f DEF BuildPlan
<1>2. CASE PushStart \/ SyncStart
    BY <1>2, <1>s DEF PushStart, SyncStart
<1>3. CASE RevertStart \/ UnsyncStart
    <2>1. PICK kind \in {"revert", "unsync"}, m \in manifests :
              \E resumed : Start(kind, m, Names(m), resumed)
        BY <1>3 DEF RevertStart, UnsyncStart
    <2>2. PICK resumed : Start(kind, m, Names(m), resumed)
        BY <2>1
    <2> QED
        BY <1>a, <1>s, <2>1, <2>2 DEF AddedInv
<1>4. CASE Finish
    <2>1. \A m \in manifests' : NotFirst(m)
        BY <1>4, <1>a DEF Finish, AddedInv
    <2> QED
        BY <1>4, <1>n, <2>1 DEF Finish, AddedInv, NotFirst, HadFirst, In
<1>5. CASE Killed
    BY <1>5, <1>a, <1>n DEF Killed, AddedInv, NotFirst, HadFirst, In
<1>6. ASSUME NEW v \in VMs, PushSkip(v) \/ RevertSkip(v) \/ Refused(v) PROVE AddedInv'
    BY <1>6, <1>a, <1>f DEF PushSkip, RevertSkip, Refused, Leave, Job
<1>7. ASSUME NEW v \in VMs, NEW tags, Posted(v, tags), v \in job.left, OverVMs,
             \A t \in TagsFor(job.work, v) : t \notin In(job.seen, v) \/ job.kind = "revert"
      PROVE  AddedInv'
    <2>1. TagsFor(job.work, v) \in SUBSET Tags
        BY <1>a DEF TagsFor, Pairs, Job
    <2>2. \A t \in TagsFor(job.work, v) : <<v, t>> \in job.work
        BY <1>a DEF TagsFor, Pairs, Job
    <2>3. {<<v, t>> : t \in TagsFor(job.work, v)} = {v} \X TagsFor(job.work, v)
        OBVIOUS
    <2>4. /\ job'.done = job.done \cup ({v} \X TagsFor(job.work, v)) /\ job'.work = job.work
          /\ job'.kind = job.kind /\ edited' = edited /\ manifests' = manifests
        BY <1>7, <1>a, <2>3 DEF Posted, Job
    <2> QED
        BY <1>7, <1>d, <2>1, <2>2, <2>4 DEF Held, Objects
<1>8. ASSUME NEW v \in VMs, PushWrite(v) PROVE AddedInv'
    <2>1. \A t \in TagsFor(job.work, v) : t = NameTag[v]
        BY <1>8, <1>a DEF PushWrite, JobInv, TagsFor
    <2>2. NameTag[v] \in HostTags /\ job.seen[v] # Absent
        BY <1>8, <1>a, ConstantsAssumption DEF PushWrite, PassesOver, JobInv
    <2>3. NameTag[v] \notin job.seen[v]
        BY <1>8, <2>2 DEF PushWrite, PassesOver, HostNames
    <2> QED
        BY <1>7, <1>8, <2>1, <2>2, <2>3 DEF PushWrite, OverVMs, In
<1>9. ASSUME NEW v \in VMs, RevertWrite(v) PROVE AddedInv'
    BY <1>7, <1>9 DEF RevertWrite, OverVMs
<1>10. ASSUME NEW g \in Groups, GroupRead(g) PROVE AddedInv'
    BY <1>10, <1>a, <1>f DEF GroupRead, Leave, Job
<1>11. ASSUME NEW g \in Groups, GroupWrite(g) PROVE AddedInv'
    <2>1. /\ g \in job.at /\ job.seen[g] # Absent /\ job.kind \in {"sync", "unsync"}
        BY <1>11, <1>a DEF GroupWrite, JobInv, OverVMs, Job, NoJob
    <2>2. Change(g, job.seen[g]) \in SUBSET Tags
        BY <1>a, <2>1, ConstantsAssumption DEF Change, ToAdd, Desired, TagsFor, Pairs, Job
    <2>3. \A t \in Change(g, job.seen[g]) :
              t \notin In(job.seen, g) \/ (job.kind = "unsync" /\ <<g, t>> \in job.work)
        BY <1>a, <2>1 DEF Change, ToAdd, TagsFor, In, Job, Pairs
    <2>4. /\ job'.done = job.done \cup ({g} \X Change(g, job.seen[g])) /\ job'.work = job.work
          /\ job'.kind = job.kind /\ edited' = edited /\ manifests' = manifests
        BY <1>11, <1>a DEF GroupWrite, Job
    <2> QED
        BY <1>d, <2>1, <2>2, <2>3, <2>4 DEF Held, Objects
<1>12. ASSUME NEW o \in Objects, CallFails(o) PROVE AddedInv'
    BY <1>12, <1>a, <1>f DEF CallFails, Leave, Job
<1>13. ASSUME NEW o \in Objects, Someone(o) PROVE AddedInv'
    <2>1. edited \subseteq edited' /\ job' = job /\ manifests' = manifests
        BY <1>13 DEF Someone
    <2> QED
        BY <1>a, <2>1 DEF AddedInv, NotFirst, HadFirst, In
<1>14. CASE UNCHANGED vars
    BY <1>14, <1>f DEF vars
<1> QED
    BY <1>1, <1>2, <1>3, <1>4, <1>5, <1>6, <1>8, <1>9, <1>10, <1>11, <1>12, <1>13, <1>14 DEF Next

LEMMA AccountNext == TypeInv /\ SinceInv /\ AccountInv /\ [Next]_vars => AccountInv'
<1> SUFFICES ASSUME TypeInv, SinceInv, AccountInv, [Next]_vars PROVE AccountInv'
    OBVIOUS
<1>1. since' \subseteq edited' /\ StaleInv' /\ AddedInv'
    BY SinceEditedNext, StaleNext, AddedNext DEF AccountInv
<1>2. ASSUME NEW p \in Pairs, p \notin edited'
      PROVE  p[2] \in In(live', p[1]) <=> HadFirst(p) \/ p \in tagged'
    <2>p. p[1] \in Objects /\ p[2] \in Tags /\ p = <<p[1], p[2]>>
        BY DEF Pairs
    <2>1. ASSUME NEW o \in Objects, Someone(o)
          PROVE  p[2] \in In(live', p[1]) <=> HadFirst(p) \/ p \in tagged'
        <3>1. p \notin edited /\ (p[2] \in In(live', p[1]) <=> HasNow(p)) /\ tagged' = tagged
            BY <1>2, <2>1, <2>p, SomeoneStep DEF Someone, HasNow
        <3> QED
            BY <3>1 DEF AccountInv
    <2>2. CASE edits' = edits /\ edited' = edited
        <3>1. CASE UNCHANGED <<live, tagged>>
            BY <1>2, <2>2, <3>1 DEF AccountInv, HasNow, In
        <3>2. CASE \E o \in Objects : o \in Calls /\ \E tags \in Posts(o) : Post(o, tags)
            BY <1>2, <2>2, <3>2, AccountPost
        <3> QED
            BY <2>2, <3>1, <3>2, WritesPost
    <2>3. (edits' = edits /\ edited' = edited) \/ \E o \in Objects : Someone(o)
        BY DEF Next, vars, BuildPlan, PushStart, RevertStart, SyncStart, UnsyncStart, Start, Finish,
               Killed, PushSkip, PushWrite, RevertSkip, RevertWrite, Posted, Refused, GroupRead,
               GroupWrite, CallFails
    <2> QED
        BY <2>1, <2>2, <2>3
<1> QED
    BY <1>1, <1>2 DEF AccountInv, HasNow, HadFirst, In

-----------------------------------------------------------------------------
(* What a fault may leave unrecorded                                        *)

Unrecorded == {p \in tagged \ OnRecord : p[1] \in VMs}
CountInv == IsFiniteSet(Unrecorded) /\ Cardinality(Unrecorded) <= faults

\* The one tag a call adds to a VM is its host name.
LEMMA PostAddsName ==
    ASSUME TypeInv, NEW o \in Objects, o \in Calls, NEW tags \in Posts(o), Post(o, tags),
           NEW p \in tagged' \ tagged, p[1] \in VMs
    PROVE  job.kind = "push" /\ p = <<o, NameTag[o]>>
<1>1. p[1] = o /\ p = <<o, p[2]>> /\ p[2] \in tags \ (In(live, o) \cup In(job.seen, o))
    BY DEF Post
<1>2. o \in VMs /\ o \notin Groups
    BY <1>1, ConstantsAssumption
<1>3. OverVMs /\ job.kind \in {"push", "revert"}
    BY <1>2 DEF TypeInv, JobInv, Calls, OverVMs
<1>4. CASE job.kind = "push"
    <2>1. tags = Combined(o) /\ job.seen[o] # Absent
        BY <1>3, <1>4 DEF Posts, Calls, PassesOver
    <2> QED
        BY <1>1, <1>4, <2>1 DEF Combined, In
<1>5. CASE job.kind = "revert"
    <2>1. PICK h \in HostTags : Removed(o, h) /\ tags = job.seen[o] \ {h}
        BY <1>5 DEF Posts
    <2> QED
        BY <1>1, <2>1 DEF In, Removed, HostNames
<1> QED
    BY <1>3, <1>4, <1>5

\* What is on record of a VM stays so.
LEMMA RecordStays ==
    ASSUME TypeInv, [Next]_vars, NEW p \in Pairs, p[1] \in VMs, p \in OnRecord
    PROVE  p \in OnRecord'
<1>j. JobInv /\ job \in Job /\ p[1] \notin Groups /\ p[2] \in Tags /\ p = <<p[1], p[2]>>
    BY ConstantsAssumption DEF TypeInv, Pairs
<1>c. \A x : x \in Checkpointed <=> \E c \in progress : x \in c.done
    BY DEF Checkpointed
<1>c1. \A x : x \in Checkpointed' <=> \E c \in progress' : x \in c.done
    BY DEF Checkpointed
<1>r. p \in OnRecord' <=> \/ \E m \in manifests' : p \in m
                          \/ p \in job'.done \/ p[1] \in Checkpointed'
    BY <1>j DEF OnRecord
<1>p. (\E m \in manifests : p \in m) \/ p \in job.done \/ p[1] \in Checkpointed
    BY <1>j DEF OnRecord
<1>a. ASSUME manifests' = manifests, progress' = progress, job.done \subseteq job'.done
      PROVE  p \in OnRecord'
    BY <1>a, <1>r, <1>p, <1>c, <1>c1
<1>s. ASSUME NEW kind, NEW toWrite, NEW toDo, NEW resumed, Start(kind, toWrite, toDo, resumed)
      PROVE  p \in OnRecord'
    <2>1. job.done = {}
        BY <1>s, <1>j DEF Start, JobInv, NoJob
    <2> QED
        BY <1>a, <1>s, <2>1 DEF Start
<1>k. ASSUME progress' = Kept, manifests \subseteq manifests' PROVE p \in OnRecord'
    <2>1. progress \subseteq progress'
        BY <1>k DEF Kept
    <2>2. CASE p \in job.done
        <3>1. p[1] \in Names(job.done)
            BY <2>2 DEF Names
        <3>2. OverVMs
            BY <1>j, <3>1 DEF JobInv
        <3>3. [kind |-> job.kind, of |-> job.work, done |-> Names(job.done)] \in progress'
            BY <1>k, <3>2 DEF Kept
        <3>4. p[1] \in Checkpointed'
            BY <1>c1, <3>1, <3>3
        <3> QED
            BY <1>r, <3>4
    <2>3. CASE (\E m \in manifests : p \in m) \/ p[1] \in Checkpointed
        BY <1>c, <1>c1, <1>k, <1>r, <2>1, <2>3
    <2> QED
        BY <1>p, <2>2, <2>3
<1>1. CASE BuildPlan \/ UNCHANGED vars
    BY <1>1, <1>a DEF BuildPlan, vars
<1>2. CASE PushStart \/ RevertStart \/ SyncStart \/ UnsyncStart
    BY <1>2, <1>s DEF PushStart, RevertStart, SyncStart, UnsyncStart
<1>3. CASE Finish \/ Killed
    BY <1>3, <1>k DEF Finish, Killed
<1>4. ASSUME NEW v \in VMs, PushSkip(v) \/ RevertSkip(v) \/ Refused(v) PROVE p \in OnRecord'
    BY <1>4, <1>j, <1>a DEF PushSkip, RevertSkip, Refused, Leave, Job
<1>5. ASSUME NEW v \in VMs, PushWrite(v) \/ RevertWrite(v) PROVE p \in OnRecord'
    <2>1. PICK tags : Posted(v, tags)
        BY <1>5 DEF PushWrite, RevertWrite
    <2>2. job' = [job EXCEPT !.left = @ \ {v}, !.done = @ \cup {<<v, t>> : t \in TagsFor(job.work, v)}]
        BY <2>1 DEF Posted
    <2>3. job.done \subseteq job'.done
        <3>1. job'.done = job.done \cup {<<v, t>> : t \in TagsFor(job.work, v)}
            BY <2>2, <1>j DEF Job
        <3> QED
            BY <3>1
    <2> QED
        BY <2>1, <2>3, <1>a DEF Posted
<1>6. ASSUME NEW g \in Groups, GroupRead(g) \/ GroupWrite(g) PROVE p \in OnRecord'
    <2>1. CASE GroupRead(g)
        <3>1. job'.done = job.done
            BY <2>1, <1>j DEF GroupRead, Leave, Job
        <3> QED
            BY <2>1, <3>1, <1>a DEF GroupRead
    <2>2. CASE GroupWrite(g)
        <3>1. job'.done = job.done \cup ({g} \X Change(g, job.seen[g]))
            BY <2>2, <1>j DEF GroupWrite, Job
        <3> QED
            BY <2>2, <3>1, <1>a DEF GroupWrite
    <2> QED
        BY <1>6, <2>1, <2>2
<1>7. ASSUME NEW o \in Objects, CallFails(o) \/ Someone(o) PROVE p \in OnRecord'
    BY <1>7, <1>j, <1>a DEF CallFails, Someone, Leave, Job
<1> QED
    BY <1>1, <1>2, <1>3, <1>4, <1>5, <1>6, <1>7 DEF Next

\* A step without a fault leaves nothing unrecorded; a fault at most one tag.
LEMMA UnrecordedStep ==
    ASSUME TypeInv, [Next]_vars
    PROVE  \/ Unrecorded' \subseteq Unrecorded /\ faults' \in {faults, faults + 1}
           \/ faults' = faults + 1 /\ \E p : Unrecorded' \subseteq Unrecorded \cup {p}
<1>j. JobInv /\ job \in Job /\ tagged \subseteq Pairs
    BY DEF TypeInv
<1>a. ASSUME NEW new, tagged' \subseteq Pairs,
             \A p \in tagged' \ tagged : p[1] \in VMs => p \in new \/ p \in OnRecord'
      PROVE  Unrecorded' \subseteq Unrecorded \cup new
    <2> SUFFICES ASSUME NEW p \in tagged', p \notin OnRecord', p[1] \in VMs, p \notin new
                 PROVE  p \in tagged \ OnRecord
        BY DEF Unrecorded
    <2>1. p \in tagged
        BY <1>a
    <2> QED
        BY <1>j, <2>1, RecordStays
<1>t. tagged' \subseteq Pairs
    BY TypeNext DEF TypeInv
<1>s. ASSUME tagged' = tagged PROVE Unrecorded' \subseteq Unrecorded
    <2>1. \A p \in tagged' \ tagged : p[1] \in VMs => p \in {} \/ p \in OnRecord'
        BY <1>s
    <2> QED
        BY <2>1, <1>a, <1>t
<1>f. ASSUME Fault, NEW o \in Objects, o \in Calls, NEW tags \in Posts(o), Post(o, tags)
      PROVE  faults' = faults + 1 /\ \E p : Unrecorded' \subseteq Unrecorded \cup {p}
    <2>1. \A p \in tagged' \ tagged : p[1] \in VMs => p \in {<<o, NameTag[o]>>} \/ p \in OnRecord'
        BY <1>f, PostAddsName
    <2>2. Unrecorded' \subseteq Unrecorded \cup {<<o, NameTag[o]>>}
        BY <2>1, <1>a, <1>t
    <2> QED
        BY <1>f, <2>2 DEF Fault
<1>1. CASE BuildPlan \/ PushStart \/ RevertStart \/ SyncStart \/ UnsyncStart \/ Finish \/ UNCHANGED vars
    <2>1. tagged' = tagged /\ faults' = faults
        BY <1>1 DEF BuildPlan, PushStart, RevertStart, SyncStart, UnsyncStart, Start, Finish, vars
    <2> QED
        BY <2>1, <1>s
<1>2. CASE Killed
    <2>1. CASE UNCHANGED <<live, tagged>>
        BY <1>2, <2>1, <1>s DEF Killed, Fault
    <2>2. CASE \E o \in Calls : \E tags \in Posts(o) : Post(o, tags)
        <3>1. \A o \in Calls : o \in Objects
            BY <1>j DEF Calls, JobInv, Job, Objects, OverVMs
        <3> QED
            BY <1>2, <1>f, <2>2, <3>1 DEF Killed
    <2> QED
        BY <1>2, <2>1, <2>2 DEF Killed
<1>3. ASSUME NEW v \in VMs, PushSkip(v) \/ RevertSkip(v) \/ Refused(v)
      PROVE  Unrecorded' \subseteq Unrecorded /\ faults' = faults
    BY <1>3, <1>s DEF PushSkip, RevertSkip, Refused
<1>4. ASSUME NEW v \in VMs, PushWrite(v) PROVE Unrecorded' \subseteq Unrecorded /\ faults' = faults
    <2>1. v \in Objects /\ v \in Calls /\ Combined(v) \in Posts(v) /\ Post(v, Combined(v))
        BY <1>4 DEF PushWrite, Posted, OverVMs, Calls, Posts, Objects
    <2>2. NameTag[v] \in TagsFor(job.work, v)
        <3>1. <<v, NameTag[v]>> \in job.work
            BY <1>4, <1>j DEF PushWrite, JobInv
        <3> QED
            BY <3>1 DEF TagsFor
    <2>3. <<v, NameTag[v]>> \in job'.done
        BY <1>4, <1>j, <2>2 DEF PushWrite, Posted, Job
    <2>4. \A p \in tagged' \ tagged : p[1] \in VMs => p \in {} \/ p \in OnRecord'
        BY <2>1, <2>3, PostAddsName DEF OnRecord
    <2> QED
        BY <1>4, <1>a, <1>t, <2>4 DEF PushWrite, Posted
<1>5. ASSUME NEW v \in VMs, RevertWrite(v) PROVE Unrecorded' \subseteq Unrecorded /\ faults' = faults
    <2>1. PICK h \in HostTags : Removed(v, h) /\ Posted(v, job.seen[v] \ {h})
        BY <1>5 DEF RevertWrite
    <2>2. /\ v \in Objects /\ v \in Calls /\ job.seen[v] \ {h} \in Posts(v) /\ job.kind = "revert"
          /\ Post(v, job.seen[v] \ {h})
        BY <1>5, <2>1 DEF RevertWrite, Posted, OverVMs, Calls, Posts, Objects
    <2>3. \A p \in tagged' \ tagged : p[1] \in VMs => p \in {} \/ p \in OnRecord'
        BY <2>2, PostAddsName
    <2> QED
        BY <1>a, <1>t, <2>1, <2>3 DEF Posted
<1>6. ASSUME NEW g \in Groups, GroupRead(g) PROVE Unrecorded' \subseteq Unrecorded /\ faults' = faults
    BY <1>6, <1>s DEF GroupRead
<1>7. ASSUME NEW g \in Groups, GroupWrite(g) PROVE Unrecorded' \subseteq Unrecorded /\ faults' = faults
    <2>1. g \in job.at /\ ~OverVMs /\ g \in Objects
        BY <1>7, <1>j DEF GroupWrite, JobInv, Objects
    <2>2. g \in Calls /\ Labels(g) \in Posts(g) /\ job.kind # "push" /\ Post(g, Labels(g))
        BY <1>7, <2>1 DEF Calls, Posts, OverVMs, GroupWrite
    <2>3. \A p \in tagged' \ tagged : p[1] \in VMs => p \in {} \/ p \in OnRecord'
        BY <2>1, <2>2, PostAddsName
    <2> QED
        BY <1>7, <1>a, <1>t, <2>3 DEF GroupWrite
<1>8. ASSUME NEW o \in Objects, CallFails(o)
      PROVE  \/ Unrecorded' \subseteq Unrecorded /\ faults' = faults + 1
             \/ faults' = faults + 1 /\ \E p : Unrecorded' \subseteq Unrecorded \cup {p}
    BY <1>8, <1>f, <1>s DEF CallFails, Fault
<1>9. ASSUME NEW o \in Objects, Someone(o) PROVE Unrecorded' \subseteq Unrecorded /\ faults' = faults
    BY <1>9, <1>s DEF Someone
<1> QED
    BY <1>1, <1>2, <1>3, <1>4, <1>5, <1>6, <1>7, <1>8, <1>9 DEF Next

LEMMA CountNext == TypeInv /\ CountInv /\ [Next]_vars => CountInv'
<1> SUFFICES ASSUME TypeInv, CountInv, [Next]_vars PROVE CountInv'
    OBVIOUS
<1>1. faults \in Nat /\ Cardinality(Unrecorded) \in Nat
    BY BoundsAssumption, FS_CardinalityType DEF TypeInv, CountInv
<1>2. CASE Unrecorded' \subseteq Unrecorded /\ faults' \in {faults, faults + 1}
    <2>1. IsFiniteSet(Unrecorded') /\ Cardinality(Unrecorded') <= Cardinality(Unrecorded)
        BY <1>2, FS_Subset DEF CountInv
    <2>2. Cardinality(Unrecorded') \in Nat
        BY <2>1, FS_CardinalityType
    <2> QED
        BY <1>1, <1>2, <2>1, <2>2 DEF CountInv
<1>3. CASE faults' = faults + 1 /\ \E p : Unrecorded' \subseteq Unrecorded \cup {p}
    <2>1. PICK p : Unrecorded' \subseteq Unrecorded \cup {p}
        BY <1>3
    <2>2. /\ IsFiniteSet(Unrecorded \cup {p})
          /\ Cardinality(Unrecorded \cup {p}) \in {Cardinality(Unrecorded), Cardinality(Unrecorded) + 1}
        BY FS_AddElement DEF CountInv
    <2>3. IsFiniteSet(Unrecorded') /\ Cardinality(Unrecorded') <= Cardinality(Unrecorded \cup {p})
        BY <2>1, <2>2, FS_Subset
    <2>4. Cardinality(Unrecorded') \in Nat
        BY <2>3, FS_CardinalityType
    <2> QED
        BY <1>1, <1>3, <2>2, <2>3, <2>4 DEF CountInv
<1> QED
    BY <1>2, <1>3, UnrecordedStep

LEMMA CountInit == Init => CountInv
<1> SUFFICES ASSUME Init PROVE CountInv
    OBVIOUS
<1>1. Unrecorded = {}
    BY DEF Init, Unrecorded
<1> QED
    BY <1>1, FS_EmptySet DEF Init, CountInv

\* The tools and nobody else account for every difference to the first state,
\* and every host name they added is on record, but for one per fault.
THEOREM EveryTagAccountedFor == Spec => []TagsAccountedFor
<1>1. AccountInv /\ CountInv => TagsAccountedFor
    BY DEF AccountInv, CountInv, Unrecorded, TagsAccountedFor, HasNow, HadFirst
<1> QED
    BY <1>1, TypeInit, TypeNext, SinceInit, SinceNext, AccountInit, AccountNext, CountInit, CountNext,
       PTL DEF Spec

-----------------------------------------------------------------------------
(* The workflow runner.                                                     *)

Targets == [services: SUBSET Nat, groups: SUBSET Nat, policies: SUBSET Nat, rules: SUBSET Nat,
            refs: SUBSET Siblings, siblings: [Siblings -> SUBSET Nat]]
Kinds == {"none", "apply", "rollback"}
Works == [kind: Kinds, phase: PhaseNames \cup {"none"}, todo: Seq(Folders), failed: BOOLEAN]
\* What a baseline of folder f says.
Says(f) == CASE f \in {"services", "groups", "policies"} -> SUBSET Nat
             [] f \in {"rules", "amend"} -> [rules: SUBSET Nat, refs: SUBSET Siblings]
             [] f = "siblings" -> [Siblings -> SUBSET Nat]
Saved(f) == [was: Says(f), wrote: IF f = "siblings" THEN SUBSET Siblings ELSE SUBSET Folders]

FlowTypes ==
    /\ now \in Nat \ Own
    /\ capture \in [objects: SUBSET Nat, addresses: SUBSET Nat, ok: BOOLEAN]
    /\ flat \in [Cloned -> SUBSET Nat]
    /\ bundle \in [app: Apps, of: SUBSET Nat, groups: SUBSET TaggedGroups, map: BOOLEAN]
    /\ target \in Targets /\ initial \in Targets
    /\ folders = [f \in Folders |-> folders[f]] /\ \A f \in Folders : folders[f] \in Seq(Saved(f))
    /\ work \in Works
    /\ sound \in SUBSET Nat /\ loose \in BOOLEAN /\ messy \in BOOLEAN /\ stuck \in BOOLEAN /\ crossed \in BOOLEAN
    /\ applied \in Seq(PhaseNames) /\ fresh \in Seq(PhaseNames)
    /\ left \in [{"runs", "captures", "edits", "faults"} -> Nat]

\* A run has steps of its phase to do; an apply the last of them, a rollback the
\* first, the last of these next.
StepsLeft ==
    work.kind # "none" =>
        /\ work.phase \in PhaseNames /\ work.todo # <<>> /\ Len(work.todo) <= Len(Phase(work.phase))
        /\ \A i \in 1..Len(work.todo) :
              work.todo[i] = Phase(work.phase)[IF work.kind = "apply"
                                               THEN Len(Phase(work.phase)) - Len(work.todo) + i
                                               ELSE Len(work.todo) + 1 - i]
FailedIsMessy == work.failed => messy
\* What a push may use is not empty.
SourcesThere ==
    /\ capture.ok => capture.objects # {} /\ capture.objects # NoFiles /\ capture.addresses # {}
    /\ bundle.map => bundle.of # {}
    /\ work.kind = "apply" => IF work.phase = "a" THEN GatePasses /\ \A c \in Cloned : flat[c] # {} ELSE bundle.map
    /\ work.kind = "apply" /\ work.phase = "c" => GatePasses

\* What the objects of a target name is there.
Resolved(t) ==
    /\ t.rules # {} => t.services # {} /\ t.groups # {} /\ t.policies # {}
    /\ t.rules = {} => t.refs = {}
    /\ \A k \in t.refs : t.siblings[k] # {}
FlowInv == FlowTypes /\ StepsLeft /\ FailedIsMessy /\ SourcesThere /\ Resolved(target)

-----------------------------------------------------------------------------
\* Folder f with baseline b stands between targets s and t: b says what s held,
\* and t differs only where a revert would write.
Between(f, b, s, t) ==
    /\ b.was = Was(f, s)
    /\ f # "services" => t.services = s.services
    /\ f # "policies" => t.policies = s.policies
    /\ f # "groups" \/ b.wrote = {} => t.groups = s.groups
    /\ f \notin {"rules", "amend"} \/ (b.wrote = {} /\ s.rules = {}) => t.rules = s.rules /\ t.refs = s.refs
    /\ \A k \in Siblings : f # "siblings" \/ k \notin b.wrote => t.siblings[k] = s.siblings[k]
BaseOf(n) == folders[order[n].of][order[n].nr]
After(n) == IF n = Len(order) THEN target ELSE order[n+1].before
Linked ==
    /\ order \in Seq([of: Folders, nr: Nat, before: Targets])
    /\ \A n \in 1..Len(order) : /\ order[n].nr \in 1..Len(folders[order[n].of])
                                /\ Resolved(order[n].before)
                                /\ Between(order[n].of, BaseOf(n), order[n].before, After(n))
    /\ \A n, m \in 1..Len(order) : n < m /\ order[n].of = order[m].of => order[n].nr < order[m].nr
    /\ \A f \in Folders : \A i \in 1..Len(folders[f]) : \E n \in 1..Len(order) : order[n].of = f /\ order[n].nr = i
    /\ initial = IF order = <<>> THEN target ELSE order[1].before
LinkInv == ~crossed => Linked

\* The baselines are of the phases applied, one after the other: those of the
\* n-th end at ends[n].
PhasesEnd(ends) ==
    /\ ends[0] = 0
    /\ \A n \in 1..Len(applied) : ends[n] = ends[n-1] + Len(Phase(applied[n])) /\ ends[n-1] <= Len(order)
    /\ \A n \in 1..Len(applied), j \in 1..Len(order) :
          ends[n-1] < j /\ j <= ends[n] => order[j].of = Phase(applied[n])[j - ends[n-1]]
OrderedBy(ends) ==
    /\ PhasesEnd(ends)
    /\ work.kind = "none" => Len(order) = ends[Len(applied)]
    /\ work.kind = "apply" =>
          /\ Len(order) = ends[Len(applied)] + Len(Phase(work.phase)) - Len(work.todo)
          /\ \A j \in 1..Len(order) : j > ends[Len(applied)] =>
                order[j].of = Phase(work.phase)[j - ends[Len(applied)]]
    /\ work.kind = "rollback" =>
          /\ applied # <<>> /\ work.phase = Last(applied)
          /\ Len(order) = ends[Len(applied) - 1] + Len(work.todo)
Ordered == ~crossed /\ \E ends \in [0..Len(applied) -> Nat] : OrderedBy(ends)
OrderInv == ~messy => Ordered

-----------------------------------------------------------------------------
Has(p) == \E i \in 1..Len(fresh) : fresh[i] = p
\* The run under way has done its step f.
Did(f) == /\ work.kind = "apply" /\ ~work.failed /\ \E i \in 1..Len(Phase(work.phase)) : Phase(work.phase)[i] = f
          /\ \A i \in 1..Len(work.todo) : work.todo[i] # f
IsCloned(c, t) == IF c = "groups" THEN capture.objects \subseteq t.groups ELSE t[c] = capture.objects
SiblingsPushed ==
    /\ bundle.map /\ \A k \in SiblingKeys : bundle.of \subseteq target.siblings[k]
    /\ folders["siblings"] # <<>>
    /\ \A k \in Siblings : Last(folders["siblings"]).was[k] \subseteq target.siblings[k]
SoundInv ==
    /\ capture.ok => capture.addresses \subseteq sound
    /\ bundle.app = "c" => bundle.of \subseteq sound
    /\ \A g \in TaggedGroups : /\ target.siblings[<<"c", g>>] \subseteq sound
                               /\ \A i \in 1..Len(folders["siblings"]) : folders["siblings"][i].was[<<"c", g>>] \subseteq sound
FreshInv ==
    /\ work.kind = "rollback" \/ work.failed => fresh = <<>>
    /\ ~loose /\ capture.ok => \A c \in Cloned : flat[c] = capture.objects
    /\ ~loose => \A c \in Cloned : Did(c) => IsCloned(c, target)
    /\ ~loose /\ Has("a") => GatePasses /\ \A c \in Cloned : IsCloned(c, target)
    /\ Has("c") \/ Has("d2a") \/ Did("siblings") => SiblingsPushed
    /\ fresh # <<>> /\ (Last(fresh) = "c" \/ (Last(fresh) = "d3" /\ Has("d2a"))) => RulesAmended

-----------------------------------------------------------------------------
(* Sequences, and what the steps do.                                        *)

LEMMA AppendIs ==
    ASSUME NEW S, NEW s \in Seq(S), NEW e \in S
    PROVE  /\ Append(s, e) \in Seq(S) /\ Len(Append(s, e)) = Len(s) + 1 /\ Append(s, e) # <<>>
           /\ \A i \in 1..Len(s) : Append(s, e)[i] = s[i]
           /\ Append(s, e)[Len(s) + 1] = e /\ Last(Append(s, e)) = e
BY DEF Last

LEMMA FrontIs ==
    ASSUME NEW S, NEW s \in Seq(S), s # <<>>
    PROVE  /\ Front(s) \in Seq(S) /\ Len(Front(s)) = Len(s) - 1 /\ Len(s) \in Nat \ {0}
           /\ \A i \in 1..(Len(s) - 1) : Front(s)[i] = s[i]
           /\ Last(s) = s[Len(s)] /\ Last(s) \in S
<1>1. Len(s) \in Nat \ {0} /\ Last(s) = s[Len(s)] /\ Last(s) \in S
    BY DEF Last
<1>2. Front(s) = SubSeq(s, 1, Len(s) - 1)
    BY DEF Front
<1>3. Front(s) \in Seq(S) /\ Len(Front(s)) = Len(s) - 1
    <2>1. \A n \in 0..Len(s) : SubSeq(s, 1, n) \in Seq(S) /\ Len(SubSeq(s, 1, n)) = n
        OBVIOUS
    <2>2. Len(s) - 1 \in 0..Len(s)
        BY <1>1
    <2> QED
        BY <1>2, <2>1, <2>2
<1>4. \A i \in 1..(Len(s) - 1) : Front(s)[i] = s[i]
    <2> TAKE i \in 1..(Len(s) - 1)
    <2> QED
        BY <1>1, <1>2, i \in 1..(Len(s) - 1)
<1> QED
    BY <1>1, <1>3, <1>4

LEMMA TailIs ==
    ASSUME NEW S, NEW s \in Seq(S), s # <<>>
    PROVE  /\ Tail(s) \in Seq(S) /\ Len(Tail(s)) = Len(s) - 1 /\ Len(s) \in Nat \ {0}
           /\ \A i \in 1..(Len(s) - 1) : Tail(s)[i] = s[i+1]
           /\ Head(s) = s[1] /\ Head(s) \in S
           /\ Tail(s) = <<>> <=> Len(s) = 1
<1>1. Len(s) \in Nat \ {0} /\ Head(s) = s[1] /\ Head(s) \in S
    OBVIOUS
<1>2. Tail(s) \in Seq(S) /\ Len(Tail(s)) = Len(s) - 1
    OBVIOUS
<1>3. \A i \in 1..(Len(s) - 1) : Tail(s)[i] = s[i+1]
    OBVIOUS
<1>4. Tail(s) = <<>> <=> Len(s) = 1
    <2>1. Tail(s) = <<>> => Len(Tail(s)) = 0
        <3>1. Len(<<>>) = 0
            OBVIOUS
        <3> QED
            BY <3>1
    <2>2. \A v \in Seq(S) : Len(v) = 0 => v = <<>>
        BY EmptySeq
    <2>3. Len(Tail(s)) = 0 => Tail(s) = <<>>
        BY <1>2, <2>2
    <2>4. Len(Tail(s)) = 0 <=> Len(s) = 1
        BY <1>1, <1>2
    <2> QED
        BY <2>1, <2>3, <2>4
<1> QED
    BY <1>1, <1>2, <1>3, <1>4

LEMMA PhaseIs ==
    /\ \A p \in PhaseNames : Phase(p) \in Seq(Folders) /\ Len(Phase(p)) \in Nat \ {0}
    /\ Len(Phase("a")) = 4 /\ Phase("a")[1] = "services" /\ Phase("a")[2] = "groups"
    /\ Phase("a")[3] = "policies" /\ Phase("a")[4] = "rules"
    /\ Len(Phase("c")) = 2 /\ Phase("c")[1] = "siblings" /\ Phase("c")[2] = "amend"
    /\ Len(Phase("d2a")) = 1 /\ Phase("d2a")[1] = "siblings"
    /\ Len(Phase("d3")) = 1 /\ Phase("d3")[1] = "amend"
<1>1. /\ Phase("a") = <<"services", "groups", "policies", "rules">> /\ Phase("c") = <<"siblings", "amend">>
      /\ Phase("d2a") = <<"siblings">> /\ Phase("d3") = <<"amend">>
    BY DEF Phase
<1>2. \A p \in PhaseNames : Phase(p) \in Seq(Folders)
    <2>1. /\ Phase("a") \in Seq(Folders) /\ Phase("c") \in Seq(Folders)
          /\ Phase("d2a") \in Seq(Folders) /\ Phase("d3") \in Seq(Folders)
        <3>1. /\ "services" \in Folders /\ "groups" \in Folders /\ "policies" \in Folders
              /\ "rules" \in Folders /\ "siblings" \in Folders /\ "amend" \in Folders
            BY DEF Folders, Cloned
        <3> HIDE DEF Folders
        <3>2. \A v, w, x, y \in Folders : <<v, w, x, y>> \in Seq(Folders)
            OBVIOUS
        <3>3. \A v, w \in Folders : <<v, w>> \in Seq(Folders)
            OBVIOUS
        <3>4. \A v \in Folders : <<v>> \in Seq(Folders)
            OBVIOUS
        <3>5. Phase("a") \in Seq(Folders)
            BY <1>1, <3>1, <3>2
        <3>6. Phase("c") \in Seq(Folders)
            BY <1>1, <3>1, <3>3
        <3>7. Phase("d2a") \in Seq(Folders) /\ Phase("d3") \in Seq(Folders)
            BY <1>1, <3>1, <3>4
        <3> QED
            BY <3>5, <3>6, <3>7
    <2> QED
        BY <2>1 DEF PhaseNames
<1>3. /\ Len(Phase("a")) = 4 /\ Len(Phase("c")) = 2 /\ Len(Phase("d2a")) = 1 /\ Len(Phase("d3")) = 1
    BY <1>1
<1>4. \A p \in PhaseNames : Len(Phase(p)) \in Nat \ {0}
    BY <1>3 DEF PhaseNames
<1> QED
    BY <1>1, <1>2, <1>3, <1>4

\* Which steps a phase has.
LEMMA StepsOf ==
    ASSUME NEW p \in PhaseNames, NEW i \in 1..Len(Phase(p))
    PROVE  /\ Phase(p)[i] \in Cloned <=> p = "a"
           /\ Phase(p)[i] = "siblings" => p \in {"c", "d2a"}
           /\ Phase(p)[i] = "amend" => p \in {"c", "d3"}
           /\ Phase(p)[i] \in Folders
<1>1. CASE p = "a"
    <2>1. i = 1 \/ i = 2 \/ i = 3 \/ i = 4
        <3>1. Len(Phase(p)) = 4
            BY <1>1, PhaseIs
        <3> QED
            BY <3>1
    <2> QED
        BY <1>1, <2>1, PhaseIs DEF Cloned, Folders
<1>2. CASE p = "c"
    <2>1. i = 1 \/ i = 2
        <3>1. Len(Phase(p)) = 2
            BY <1>2, PhaseIs
        <3> QED
            BY <3>1
    <2> QED
        BY <1>2, <2>1, PhaseIs DEF Cloned, Folders
<1>3. CASE p = "d2a" \/ p = "d3"
    <2>1. i = 1
        <3>1. Len(Phase(p)) = 1
            BY <1>3, PhaseIs
        <3> QED
            BY <3>1
    <2> QED
        BY <1>3, <2>1, PhaseIs DEF Cloned, Folders
<1> QED
    BY <1>1, <1>2, <1>3 DEF PhaseNames

LEMMA PushedIs ==
    ASSUME FlowTypes, NEW f \in Folders, NEW t \in Targets
    PROVE  /\ Pushed(f, t) \in Targets
           /\ Pushed(f, t).services = IF f = "services" /\ flat["services"] # NoFiles THEN flat["services"] ELSE t.services
           /\ Pushed(f, t).groups = IF f = "groups" /\ flat["groups"] # NoFiles THEN t.groups \cup flat["groups"] ELSE t.groups
           /\ Pushed(f, t).policies = IF f = "policies" /\ flat["policies"] # NoFiles THEN flat["policies"] ELSE t.policies
           /\ Pushed(f, t).rules = IF f = "rules" /\ flat["rules"] # NoFiles /\ Holds(t, {}) THEN flat["rules"] ELSE t.rules
           /\ Pushed(f, t).refs = IF f = "amend" /\ t.rules # {} THEN t.refs \cup {k \in SiblingKeys : t.siblings[k] # {}}
                                  ELSE t.refs
           /\ \A k \in Siblings : Pushed(f, t).siblings[k] =
                 IF f = "siblings" /\ k \in SiblingKeys THEN t.siblings[k] \cup bundle.of ELSE t.siblings[k]
           /\ f # "siblings" => Pushed(f, t).siblings = t.siblings
<1>1. SiblingKeys \subseteq Siblings
    BY DEF FlowTypes, SiblingKeys, Siblings, Apps
<1>2. \A c \in Cloned : flat[c] \in SUBSET Nat
    BY DEF FlowTypes
<1>3. CASE f = "services"
    BY <1>2, <1>3 DEF Pushed, Targets, Cloned
<1>4. CASE f = "groups"
    BY <1>2, <1>4 DEF Pushed, Targets, Cloned
<1>5. CASE f = "policies"
    BY <1>2, <1>5 DEF Pushed, Targets, Cloned
<1>6. CASE f = "rules"
    BY <1>2, <1>6 DEF Pushed, Targets, Cloned
<1>7. CASE f = "amend"
    BY <1>1, <1>7 DEF Pushed, Targets, Cloned
<1>8. CASE f = "siblings"
    <2>1. bundle.of \in SUBSET Nat
        BY DEF FlowTypes
    <2> QED
        BY <1>8, <2>1 DEF Pushed, Targets, Cloned
<1> QED
    BY <1>3, <1>4, <1>5, <1>6, <1>7, <1>8 DEF Folders, Cloned

LEMMA WasType == ASSUME NEW f \in Folders, NEW t \in Targets PROVE Was(f, t) \in Says(f)
<1>1. CASE f \in {"services", "groups", "policies"}
    BY <1>1 DEF Was, Says, Targets
<1>2. CASE f \in {"rules", "amend"}
    BY <1>2 DEF Was, Says, Targets
<1>3. CASE f = "siblings"
    BY <1>3 DEF Was, Says, Targets
<1> QED
    BY <1>1, <1>2, <1>3 DEF Folders, Cloned

LEMMA RevertedIs ==
    ASSUME NEW f \in Folders, NEW b \in Saved(f), NEW t \in Targets
    PROVE  /\ Reverted(f, b, t) \in Targets
           /\ Reverted(f, b, t).services = t.services \/ (f = "services" /\ Reverted(f, b, t).services = b.was)
           /\ Reverted(f, b, t).groups = t.groups \/ (f = "groups" /\ b.wrote # {} /\ Reverted(f, b, t).groups = b.was)
           /\ Reverted(f, b, t).policies = t.policies \/ f = "policies"
           /\ \/ Reverted(f, b, t).rules = t.rules /\ Reverted(f, b, t).refs = t.refs
              \/ f = "policies" /\ b.was = {} /\ Reverted(f, b, t).rules = {} /\ Reverted(f, b, t).refs = {}
              \/ f \in {"rules", "amend"} /\ (b.wrote # {} \/ b.was.rules # {})
           /\ \A k \in Siblings : Reverted(f, b, t).siblings[k] =
                 IF f # "siblings" \/ k \notin b.wrote \/ (b.was[k] = {} /\ k \in t.refs) THEN t.siblings[k] ELSE b.was[k]
           /\ f # "siblings" => Reverted(f, b, t).siblings = t.siblings
<1>1. b.was \in Says(f)
    BY DEF Saved
<1>2. CASE f = "services"
    BY <1>1, <1>2 DEF Reverted, Targets, Says
<1>3. CASE f = "groups"
    BY <1>1, <1>3 DEF Reverted, Targets, Says
<1>4. CASE f = "policies"
    BY <1>1, <1>4 DEF Reverted, Targets, Says
<1>5. CASE f \in {"rules", "amend"}
    <2>1. b.was.rules \in SUBSET Nat /\ b.was.refs \in SUBSET Siblings
        BY <1>1, <1>5 DEF Says
    <2> QED
        BY <1>5, <2>1 DEF Reverted, Targets
<1>6. CASE f = "siblings"
    BY <1>1, <1>6 DEF Reverted, Targets, Says
<1> QED
    BY <1>2, <1>3, <1>4, <1>5, <1>6 DEF Folders, Cloned

-----------------------------------------------------------------------------
(* The steps.                                                               *)

\* A push does step f of a phase and leaves target u.
Applies(f, u, saved, failed) ==
    /\ work.kind = "apply" /\ work.todo # <<>> /\ f = Head(work.todo) /\ f \in Folders
    /\ u \in {target, Pushed(f, target)} /\ u \in Targets /\ target' = u
    /\ IF saved THEN Saves(f, target, u) ELSE u = target /\ UNCHANGED <<folders, order>>
    /\ ~failed => saved /\ u = Pushed(f, target) /\ Succeeds(f, target)
    /\ StepEnds(failed) /\ CountsApply(failed)
    /\ UNCHANGED <<sourceVars, bundle, initial, stuck, crossed>>
    /\ left' \in [{"runs", "captures", "edits", "faults"} -> Nat]
\* A revert of step f does; it takes the baseline away if all went well.
Unapplies(f, u, well, refused) ==
    /\ work.kind = "rollback" /\ work.todo # <<>> /\ f = Head(work.todo) /\ f \in Folders
    /\ folders[f] # <<>>
    /\ Last(folders[f]) \in Saved(f) /\ u \in {target, Reverted(f, Last(folders[f]), target)} /\ u \in Targets
    /\ target' = u
    /\ crossed' = (crossed \/ Last(order).of # f)
    /\ IF well THEN /\ u = Reverted(f, Last(folders[f]), target) /\ Restored(f, Last(folders[f]), u)
                    /\ folders' = [folders EXCEPT ![f] = Front(@)] /\ order' = Front(order)
               ELSE /\ refused \/ (u = Reverted(f, Last(folders[f]), target) /\ ~Restored(f, Last(folders[f]), u))
                    /\ UNCHANGED <<folders, order>>
    /\ StepEnds(~well) /\ CountsRollback(~well, refused)
    /\ UNCHANGED <<sourceVars, bundle, initial, fresh>>
    /\ left' \in [{"runs", "captures", "edits", "faults"} -> Nat]
\* There is no baseline.
NothingToRevert(f) ==
    /\ work.kind = "rollback" /\ work.todo # <<>> /\ f = Head(work.todo) /\ f \in Folders
    /\ folders[f] = <<>>
    /\ StepEnds(TRUE) /\ CountsRollback(TRUE, FALSE)
    /\ UNCHANGED <<sourceVars, bundle, initial, fresh, target, folders, order, crossed, left>>
\* Nothing but the source, its captures and exports, and the bundle.
Prepares ==
    /\ Idle
    /\ \/ /\ \E missing \in SUBSET Cloned, ok, meanwhile, dies \in BOOLEAN : Captures(missing, ok, meanwhile, dies)
       \/ CapturesElsewhere
       \/ \E class \in Cloned, answers \in BOOLEAN : Exports(class, answers)
       \/ \E leftOut \in SUBSET TaggedGroups, dies \in BOOLEAN : BuildsC(leftOut, dies) \/ BuildsD(leftOut, dies)

LEMMA SpendsType ==
    ASSUME FlowTypes, NEW what \in {"runs", "captures", "edits", "faults"}, Spends(what)
    PROVE  left' \in [{"runs", "captures", "edits", "faults"} -> Nat]
BY DEF Spends, FlowTypes

LEMMA TodoIs ==
    ASSUME FlowTypes, StepsLeft, work.kind # "none"
    PROVE  /\ work.phase \in PhaseNames /\ work.todo \in Seq(Folders) /\ work.todo # <<>>
           /\ Head(work.todo) \in Folders /\ Head(work.todo) = work.todo[1]
           /\ Tail(work.todo) \in Seq(Folders) /\ Len(Tail(work.todo)) = Len(work.todo) - 1
           /\ Len(work.todo) \in Nat \ {0}
           /\ \A i \in 1..(Len(work.todo) - 1) : Tail(work.todo)[i] = work.todo[i+1]
           /\ Tail(work.todo) = <<>> <=> Len(work.todo) = 1
<1>1. work.todo \in Seq(Folders) /\ work.todo # <<>> /\ work.phase \in PhaseNames
    BY DEF FlowTypes, StepsLeft, Works
<1> QED
    BY <1>1, TailIs

LEMMA SameTarget ==
    ASSUME NEW s \in Targets, NEW t \in Targets, s.services = t.services, s.groups = t.groups,
           s.policies = t.policies, s.rules = t.rules, s.refs = t.refs, s.siblings = t.siblings
    PROVE  s = t
BY DEF Targets

LEMMA AmendNothing ==
    ASSUME FlowTypes, bundle.groups = {} PROVE Pushed("amend", target) = target
<1>1. target \in Targets
    BY DEF FlowTypes
<1>2. SiblingKeys = {}
    BY DEF SiblingKeys
<1>3. "amend" \in Folders
    BY DEF Folders
<1>4. /\ Pushed("amend", target) \in Targets
      /\ Pushed("amend", target).services = target.services /\ Pushed("amend", target).groups = target.groups
      /\ Pushed("amend", target).policies = target.policies /\ Pushed("amend", target).rules = target.rules
      /\ Pushed("amend", target).refs = target.refs /\ Pushed("amend", target).siblings = target.siblings
    BY <1>1, <1>2, <1>3, PushedIs
<1> QED
    BY <1>1, <1>4, SameTarget

LEMMA ApplyIs ==
    ASSUME FlowTypes, StepsLeft,
           ApplyStep \/ \E saved, wrote \in BOOLEAN : ApplyStepFails(saved, wrote)
    PROVE  \E u \in Targets, saved, failed \in BOOLEAN : Applies(Head(work.todo), u, saved, failed)
<1> DEFINE f == Head(work.todo)
<1>1. work.kind = "apply"
    BY DEF ApplyStep, ApplyStepFails
<1>2. f \in Folders /\ work.todo # <<>>
    BY <1>1, TodoIs
<1>3. target \in Targets /\ Pushed(f, target) \in Targets /\ left \in [{"runs", "captures", "edits", "faults"} -> Nat]
    BY <1>2, PushedIs DEF FlowTypes
<1>4. CASE ApplyStep
    <2> DEFINE saved == ~(f = "amend" /\ bundle.groups = {})
               failed == ~Succeeds(f, target)
    <2>1. ~saved => Pushed(f, target) = target
        BY AmendNothing
    <2>2. ~failed => saved
        BY DEF Succeeds
    <2>3. Applies(f, Pushed(f, target), saved, failed)
        BY <1>1, <1>2, <1>3, <1>4, <2>1, <2>2 DEF ApplyStep, Applies
    <2>4. saved \in BOOLEAN /\ failed \in BOOLEAN
        OBVIOUS
    <2> HIDE DEF saved, failed
    <2> QED
        BY <1>3, <2>3, <2>4
<1>5. ASSUME NEW saved \in BOOLEAN, NEW wrote \in BOOLEAN, ApplyStepFails(saved, wrote)
      PROVE  \E u \in Targets, s, failed \in BOOLEAN : Applies(f, u, s, failed)
    <2> DEFINE u == IF wrote THEN Pushed(f, target) ELSE target
    <2>1. left' \in [{"runs", "captures", "edits", "faults"} -> Nat]
        BY <1>5, SpendsType DEF ApplyStepFails, StepFault
    <2>2. Applies(f, u, saved, TRUE)
        BY <1>1, <1>2, <1>3, <1>5, <2>1 DEF ApplyStepFails, Applies
    <2> QED
        BY <1>3, <2>2
<1> QED
    BY <1>4, <1>5

LEMMA RollbackIs ==
    ASSUME FlowTypes, StepsLeft,
           RollbackStep \/ \E did \in BOOLEAN : RollbackStepFails(did)
    PROVE  \/ NothingToRevert(Head(work.todo))
           \/ \E u \in Targets, well, refused \in BOOLEAN : Unapplies(Head(work.todo), u, well, refused)
<1> DEFINE f == Head(work.todo)
           b == Last(folders[f])
<1>1. work.kind = "rollback"
    BY DEF RollbackStep, RollbackStepFails
<1>2. f \in Folders /\ work.todo # <<>>
    BY <1>1, TodoIs
<1>3. target \in Targets /\ left \in [{"runs", "captures", "edits", "faults"} -> Nat]
    BY DEF FlowTypes
<1>4. folders[f] # <<>> => b \in Saved(f) /\ Reverted(f, b, target) \in Targets
    <2>1. folders[f] \in Seq(Saved(f))
        BY <1>2 DEF FlowTypes
    <2> HIDE DEF f
    <2>2. folders[f] # <<>> => b \in Saved(f)
        BY <2>1, FrontIs
    <2> QED
        BY <1>2, <1>3, <2>2, RevertedIs
<1>5. CASE RollbackStep /\ folders[f] = <<>>
    <2>1. NothingToRevert(f)
        BY <1>1, <1>2, <1>5 DEF RollbackStep, NothingToRevert
    <2> QED
        BY <2>1
<1>6. CASE RollbackStep /\ folders[f] # <<>>
    <2> DEFINE u == Reverted(f, b, target)
               well == IF Restored(f, b, u) THEN TRUE ELSE FALSE
    <2>1. Unapplies(f, u, well, FALSE)
        BY <1>1, <1>2, <1>3, <1>4, <1>6 DEF RollbackStep, Unapplies
    <2>2. u \in Targets
        BY <1>4, <1>6
    <2>3. well \in BOOLEAN
        OBVIOUS
    <2> HIDE DEF well
    <2> QED
        BY <2>1, <2>2, <2>3
<1>7. ASSUME NEW did \in BOOLEAN, RollbackStepFails(did)
      PROVE  \E u \in Targets, well, refused \in BOOLEAN : Unapplies(f, u, well, refused)
    <2> DEFINE u == IF did THEN Reverted(f, b, target) ELSE target
    <2>1. folders[f] # <<>>
        BY <1>7 DEF RollbackStepFails
    <2>2. left' \in [{"runs", "captures", "edits", "faults"} -> Nat]
        BY <1>7, SpendsType DEF RollbackStepFails, StepFault
    <2>3. u \in Targets
        BY <1>3, <1>4, <2>1
    <2>4. Unapplies(f, u, FALSE, TRUE)
        BY <1>1, <1>2, <1>3, <1>4, <1>7, <2>1, <2>2, <2>3 DEF RollbackStepFails, Unapplies
    <2> QED
        BY <2>3, <2>4
<1> QED
    BY <1>5, <1>6, <1>7

LEMMA FlowStepIs ==
    ASSUME FlowTypes, StepsLeft, [FlowNext]_flowVars
    PROVE  \/ SourceEdited \/ Prepares
           \/ \E p \in PhaseNames : ApplyBegins(p) \/ RollbackBegins(p)
           \/ \E u \in Targets, saved, failed \in BOOLEAN : Applies(Head(work.todo), u, saved, failed)
           \/ NothingToRevert(Head(work.todo))
           \/ \E u \in Targets, well, refused \in BOOLEAN : Unapplies(Head(work.todo), u, well, refused)
           \/ UNCHANGED flowVars
<1>1. CASE UNCHANGED flowVars
    BY <1>1
<1>2. CASE FlowNext
    <2>1. ASSUME NEW missing \in {{}, {"services"}, {"groups"}, {"policies", "rules"}},
                 NEW ok \in BOOLEAN, NEW meanwhile \in BOOLEAN, NEW dies \in BOOLEAN,
                 Captures(missing, ok, meanwhile, dies)
          PROVE  Prepares
        <3>1. missing \in SUBSET Cloned
            BY DEF Cloned
        <3> QED
            BY <2>1, <3>1 DEF Prepares, Captures
    <2>2. ASSUME NEW answers \in BOOLEAN,
                 \/ ExportsServices(answers) \/ ExportsGroups(answers)
                 \/ ExportsPolicies(answers) \/ ExportsRules(answers)
          PROVE  Prepares
        <3>1. \E class \in Cloned : Exports(class, answers)
            BY <2>2 DEF Cloned, ExportsServices, ExportsGroups, ExportsPolicies, ExportsRules
        <3> QED
            BY <3>1 DEF Prepares, Exports
    <2>3. CapturesElsewhere => Prepares
        BY DEF Prepares, CapturesElsewhere
    <2>4. ASSUME NEW leftOut \in SUBSET TaggedGroups, NEW dies \in BOOLEAN, BuildsC(leftOut, dies) \/ BuildsD(leftOut, dies)
          PROVE  Prepares
        BY <2>4 DEF Prepares, BuildsC, BuildsD
    <2> QED
        BY <1>2, <2>1, <2>2, <2>3, <2>4, ApplyIs, RollbackIs DEF FlowNext
<1> QED
    BY <1>1, <1>2

-----------------------------------------------------------------------------
(* Types, and what every target keeps.                                      *)

\* The next step of a run.
LEMMA LeftIs ==
    ASSUME FlowTypes, StepsLeft, work.kind # "none"
    PROVE  /\ Len(work.todo) <= Len(Phase(work.phase)) /\ Len(Phase(work.phase)) \in Nat \ {0}
           /\ \A i \in 1..Len(work.todo) :
                 /\ work.kind = "apply" => work.todo[i] = Phase(work.phase)[Len(Phase(work.phase)) - Len(work.todo) + i]
                 /\ work.kind # "apply" => work.todo[i] = Phase(work.phase)[Len(work.todo) + 1 - i]
           /\ work.kind = "apply" => Head(work.todo) = Phase(work.phase)[Len(Phase(work.phase)) - Len(work.todo) + 1]
           /\ work.kind # "apply" => Head(work.todo) = Phase(work.phase)[Len(work.todo)]
<1>1. work.phase \in PhaseNames /\ Len(work.todo) \in Nat \ {0} /\ Head(work.todo) = work.todo[1]
    BY TodoIs
<1>2. Len(Phase(work.phase)) \in Nat \ {0}
    BY <1>1, PhaseIs
<1>3. /\ Len(work.todo) <= Len(Phase(work.phase))
      /\ \A i \in 1..Len(work.todo) :
            /\ work.kind = "apply" => work.todo[i] = Phase(work.phase)[Len(Phase(work.phase)) - Len(work.todo) + i]
            /\ work.kind # "apply" => work.todo[i] = Phase(work.phase)[Len(work.todo) + 1 - i]
    BY DEF StepsLeft
<1>4. 1 \in 1..Len(work.todo) /\ Len(work.todo) + 1 - 1 = Len(work.todo)
    BY <1>1
<1>5. /\ work.kind = "apply" => Head(work.todo) = Phase(work.phase)[Len(Phase(work.phase)) - Len(work.todo) + 1]
      /\ work.kind # "apply" => Head(work.todo) = Phase(work.phase)[Len(work.todo)]
    BY <1>1, <1>3, <1>4
<1> QED
    BY <1>2, <1>3, <1>5

\* After a step the run has ended, or has the rest to do.
LEMMA EndIs ==
    ASSUME FlowTypes, StepsLeft, work.kind # "none", NEW failed \in BOOLEAN, StepEnds(failed)
    PROVE  /\ work' \in Works /\ StepsLeft'
           /\ \/ work' = NoWork /\ (failed \/ Len(work.todo) = 1)
              \/ /\ Len(work.todo) > 1 /\ work'.kind = work.kind /\ work'.phase = work.phase
                 /\ work'.todo = Tail(work.todo) /\ work'.failed = (work.failed \/ failed)
<1>1. CASE work' = NoWork /\ (failed \/ Tail(work.todo) = <<>>)
    <2>1. NoWork \in Works /\ NoWork.kind = "none"
        BY DEF NoWork, Works, Kinds
    <2> QED
        BY <1>1, <2>1, TodoIs DEF StepsLeft
<1>2. CASE Tail(work.todo) # <<>> /\ work' = [work EXCEPT !.todo = Tail(@), !.failed = @ \/ failed]
    <2>1. /\ work'.kind = work.kind /\ work'.phase = work.phase /\ work'.todo = Tail(work.todo)
          /\ work'.failed = (work.failed \/ failed) /\ work' \in Works
        BY <1>2, TodoIs DEF FlowTypes, Works
    <2>2. Len(work.todo) > 1
        BY <1>2, TodoIs
    <2>3. StepsLeft'
        <3> DEFINE p == work.phase
                   n == Len(work.todo)
        <3>1. p \in PhaseNames /\ n \in Nat /\ n > 1 /\ Len(Phase(p)) \in Nat /\ n <= Len(Phase(p))
            BY <2>2, TodoIs, LeftIs
        <3>2. Len(work'.todo) = n - 1 /\ work'.todo # <<>>
            BY <1>2, <2>1, TodoIs
        <3>3. \A i \in 1..(n - 1) : work'.todo[i] = work.todo[i+1]
            BY <2>1, TodoIs
        <3>4. \A i \in 1..n : work.todo[i] = Phase(p)[IF work.kind = "apply" THEN Len(Phase(p)) - n + i ELSE n + 1 - i]
            BY LeftIs
        <3>a. /\ Len(Phase(p)) \in Nat /\ n \in Nat /\ n > 1
              /\ \A i \in 1..(n - 1) : i + 1 \in 1..n
              /\ \A i \in 1..(n - 1) : Len(Phase(p)) - n + (i + 1) = Len(Phase(p)) - (n - 1) + i
              /\ \A i \in 1..(n - 1) : n + 1 - (i + 1) = (n - 1) + 1 - i
            <4>1. \A l, m \in Nat : \A i \in 1..(m - 1) :
                     i + 1 \in 1..m /\ l - m + (i + 1) = l - (m - 1) + i /\ m + 1 - (i + 1) = (m - 1) + 1 - i
                OBVIOUS
            <4> HIDE DEF p, n
            <4> QED
                BY <3>1, <4>1
        <3>5. ASSUME NEW i \in 1..(n - 1)
              PROVE  work'.todo[i] = Phase(p)[IF work.kind = "apply" THEN Len(Phase(p)) - (n - 1) + i ELSE (n - 1) + 1 - i]
            <4> HIDE DEF p, n
            <4>1. i + 1 \in 1..n
                BY <3>a
            <4>2. Len(Phase(p)) - n + (i + 1) = Len(Phase(p)) - (n - 1) + i /\ n + 1 - (i + 1) = (n - 1) + 1 - i
                BY <3>a
            <4>3. work'.todo[i] = work.todo[i+1]
                BY <3>3
            <4> QED
                BY <3>4, <4>1, <4>2, <4>3
        <3> HIDE DEF p, n
        <3>6. work'.phase = p /\ n - 1 <= Len(Phase(p))
            BY <2>1, <3>1 DEF p
        <3> QED
            BY <2>1, <3>1, <3>2, <3>5, <3>6 DEF StepsLeft
    <2> QED
        BY <2>1, <2>2, <2>3
<1> QED
    BY <1>1, <1>2 DEF StepEnds

LEMMA HeadIs ==
    ASSUME FlowTypes, StepsLeft, work.kind # "none"
    PROVE  /\ Head(work.todo) \in Cloned <=> work.phase = "a"
           /\ Head(work.todo) = "siblings" => work.phase \in {"c", "d2a"}
           /\ Head(work.todo) = "amend" => work.phase \in {"c", "d3"}
<1>1. work.phase \in PhaseNames /\ Len(work.todo) \in Nat \ {0}
    BY TodoIs
<1>2. \E i \in 1..Len(Phase(work.phase)) : Head(work.todo) = Phase(work.phase)[i]
    <2>1. /\ Len(work.todo) <= Len(Phase(work.phase)) /\ Len(Phase(work.phase)) \in Nat
          /\ \/ Head(work.todo) = Phase(work.phase)[Len(Phase(work.phase)) - Len(work.todo) + 1]
             \/ Head(work.todo) = Phase(work.phase)[Len(work.todo)]
        BY LeftIs
    <2>2. \A l, m \in Nat : 0 < m /\ m <= l => l - m + 1 \in 1..l /\ m \in 1..l
        OBVIOUS
    <2>3. /\ Len(Phase(work.phase)) - Len(work.todo) + 1 \in 1..Len(Phase(work.phase))
          /\ Len(work.todo) \in 1..Len(Phase(work.phase))
        BY <1>1, <2>1, <2>2
    <2> QED
        BY <2>1, <2>3
<1>3. PICK i \in 1..Len(Phase(work.phase)) : Head(work.todo) = Phase(work.phase)[i]
    BY <1>2
<1> QED
    BY <1>1, <1>3, StepsOf

LEMMA PushResolves ==
    ASSUME FlowTypes, StepsLeft, SourcesThere, NEW t \in Targets, Resolved(t), work.kind = "apply"
    PROVE  Resolved(Pushed(Head(work.todo), t))
<1> DEFINE f == Head(work.todo)
<1>1. f \in Folders
    BY TodoIs
<1>2. f \in Cloned => flat[f] # {}
    BY HeadIs DEF SourcesThere
<1>3. f = "siblings" => bundle.of # {}
    BY HeadIs DEF SourcesThere
<1>4. t.siblings \in [Siblings -> SUBSET Nat]
    BY DEF Targets
<1> HIDE DEF f
<1>5. /\ f = "services" => flat["services"] # {}
      /\ f = "groups" => flat["groups"] # {}
      /\ f = "policies" => flat["policies"] # {}
      /\ f = "rules" => flat["rules"] # {}
    BY <1>2 DEF Cloned
<1> DEFINE u == Pushed(f, t)
<1>6. /\ u.services = {} => t.services = {}
      /\ u.groups = {} => t.groups = {}
      /\ u.policies = {} => t.policies = {}
      /\ u.rules = {} => t.rules = {}
      /\ u.rules # {} => t.rules # {} \/ Holds(t, {})
      /\ u.rules = {} => u.refs = t.refs
    <2>1. /\ u.services = IF f = "services" /\ flat["services"] # NoFiles THEN flat["services"] ELSE t.services
          /\ u.groups = IF f = "groups" /\ flat["groups"] # NoFiles THEN t.groups \cup flat["groups"] ELSE t.groups
          /\ u.policies = IF f = "policies" /\ flat["policies"] # NoFiles THEN flat["policies"] ELSE t.policies
          /\ u.rules = IF f = "rules" /\ flat["rules"] # NoFiles /\ Holds(t, {}) THEN flat["rules"] ELSE t.rules
          /\ t.rules = {} => u.refs = t.refs
        BY <1>1, PushedIs
    <2> HIDE DEF u
    <2> QED
        BY <1>5, <2>1
<1>7. \A k \in Siblings : u.siblings[k] = {} => t.siblings[k] = {}
    <2>1. \A k \in Siblings : u.siblings[k] =
                 IF f = "siblings" /\ k \in SiblingKeys THEN t.siblings[k] \cup bundle.of ELSE t.siblings[k]
        BY <1>1, PushedIs
    <2> HIDE DEF u
    <2> QED
        BY <1>3, <2>1
<1>8. \A k \in u.refs : k \in Siblings /\ t.siblings[k] # {}
    <2>1. u.refs \subseteq t.refs \cup {k \in SiblingKeys : t.siblings[k] # {}} /\ u \in Targets
        BY <1>1, PushedIs
    <2>2. u.refs \subseteq Siblings
        BY <2>1 DEF Targets
    <2> HIDE DEF u
    <2> QED
        BY <2>1, <2>2 DEF Resolved
<1> HIDE DEF u
<1>9. Resolved(u)
    BY <1>6, <1>7, <1>8 DEF Resolved, Holds
<1> QED
    BY <1>9 DEF u, f

LEMMA RevertResolves ==
    ASSUME NEW f \in Folders, NEW b \in Saved(f), NEW t \in Targets, Resolved(t)
    PROVE  Resolved(Reverted(f, b, t))
<1>1. b.was \in Says(f)
    BY DEF Saved
<1>2. CASE f \in {"services", "groups", "policies"}
    BY <1>1, <1>2 DEF Reverted, Resolved, Targets, Says
<1>3. CASE f \in {"rules", "amend"}
    <2>1. b.was.rules \in SUBSET Nat /\ b.was.refs \in SUBSET Siblings
        BY <1>1, <1>3 DEF Says
    <2> QED
        BY <1>3, <2>1 DEF Reverted, Resolved, Targets, Holds
<1>4. CASE f = "siblings"
    <2>1. /\ Reverted(f, b, t).services = t.services /\ Reverted(f, b, t).groups = t.groups
          /\ Reverted(f, b, t).policies = t.policies /\ Reverted(f, b, t).rules = t.rules
          /\ Reverted(f, b, t).refs = t.refs
          /\ \A k \in Siblings : Reverted(f, b, t).siblings[k] =
                 IF k \notin b.wrote \/ (b.was[k] = {} /\ k \in t.refs) THEN t.siblings[k] ELSE b.was[k]
        BY <1>4, RevertedIs
    <2>2. \A k \in t.refs : k \in Siblings /\ t.siblings[k] # {}
        BY DEF Resolved, Targets
    <2>3. \A k \in t.refs : Reverted(f, b, t).siblings[k] # {}
        BY <2>1, <2>2
    <2> QED
        BY <2>1, <2>3 DEF Resolved
<1> QED
    BY <1>2, <1>3, <1>4 DEF Folders, Cloned

LEMMA FlowInvInit == ASSUME FlowInit PROVE FlowInv
<1>1. Budgets \subseteq [{"runs", "captures", "edits", "faults"} -> Nat]
    BY FlowAssumption
<1>2. Nothing \in Targets /\ target \in Targets
    <2>1. Nothing \in Targets
        BY DEF Nothing, Targets
    <2>2. [Nothing EXCEPT !.services = Own, !.groups = Own, !.policies = Own, !.rules = Own] \in Targets
        <3>1. \A v \in SUBSET Nat : \A t \in Targets :
                 [t EXCEPT !.services = v, !.groups = v, !.policies = v, !.rules = v] \in Targets
            BY DEF Targets
        <3>2. Own \in SUBSET Nat
            BY DEF Own
        <3> QED
            BY <2>1, <3>1, <3>2
    <2> QED
        BY <2>1, <2>2 DEF FlowInit
<1>3. FlowTypes
    <2>1. folders = [f \in Folders |-> folders[f]] /\ \A f \in Folders : folders[f] = <<>>
        BY DEF FlowInit
    <2>2. \A S : <<>> \in Seq(S)
        OBVIOUS
    <2>3. work \in Works /\ applied \in Seq(PhaseNames) /\ fresh \in Seq(PhaseNames)
        BY <2>2 DEF FlowInit, NoWork, Works, Kinds
    <2>4. bundle \in [app: Apps, of: SUBSET Nat, groups: SUBSET TaggedGroups, map: BOOLEAN]
        BY DEF FlowInit, NoBundle, Apps
    <2>5. capture \in [objects: SUBSET Nat, addresses: SUBSET Nat, ok: BOOLEAN]
        BY DEF FlowInit, NoCapture
    <2>6. now \in Nat \ Own /\ sound \in SUBSET Nat /\ initial \in Targets
        BY <1>2 DEF FlowInit, Own
    <2>7. flat \in [Cloned -> SUBSET Nat]
        BY DEF FlowInit
    <2>8. loose \in BOOLEAN /\ messy \in BOOLEAN /\ stuck \in BOOLEAN /\ crossed \in BOOLEAN
        BY DEF FlowInit
    <2>9. left \in [{"runs", "captures", "edits", "faults"} -> Nat]
        BY <1>1 DEF FlowInit
    <2>10. \A f \in Folders : folders[f] \in Seq(Saved(f))
        BY <2>1, <2>2
    <2> QED
        BY <1>2, <2>1, <2>3, <2>4, <2>5, <2>6, <2>7, <2>8, <2>9, <2>10 DEF FlowTypes
<1>4. StepsLeft /\ FailedIsMessy /\ SourcesThere
    BY DEF FlowInit, StepsLeft, FailedIsMessy, SourcesThere, NoWork, NoCapture, NoBundle
<1>5. Resolved(target)
    <2>1. /\ target.services = {} => target.rules = {}
          /\ target.groups = {} => target.rules = {}
          /\ target.policies = {} => target.rules = {}
          /\ target.refs = {}
        <3>1. target = Nothing => target.rules = {} /\ target.refs = {}
            BY DEF Nothing
        <3>2. Nothing \in Targets /\ Nothing.refs = {}
            BY DEF Nothing, Targets
        <3>a. \A t \in Targets : \A v \in SUBSET Nat :
                 /\ [t EXCEPT !.services = v, !.groups = v, !.policies = v, !.rules = v].services = v
                 /\ [t EXCEPT !.services = v, !.groups = v, !.policies = v, !.rules = v].groups = v
                 /\ [t EXCEPT !.services = v, !.groups = v, !.policies = v, !.rules = v].policies = v
                 /\ [t EXCEPT !.services = v, !.groups = v, !.policies = v, !.rules = v].refs = t.refs
            BY DEF Targets
        <3>b. Own \in SUBSET Nat
            BY DEF Own
        <3> DEFINE s == [Nothing EXCEPT !.services = Own, !.groups = Own, !.policies = Own, !.rules = Own]
        <3>c. s.services = Own /\ s.groups = Own /\ s.policies = Own /\ s.refs = {}
            BY <3>2, <3>a, <3>b
        <3>d. target = Nothing \/ target = s
            BY DEF FlowInit
        <3> HIDE DEF s
        <3>3. target # Nothing => /\ target.services = Own /\ target.groups = Own /\ target.policies = Own
                                  /\ target.refs = {}
            BY <3>c, <3>d
        <3> QED
            BY <3>1, <3>3 DEF Own
    <2> QED
        BY <2>1 DEF Resolved
<1> QED
    BY <1>3, <1>4, <1>5 DEF FlowInv

LEMMA CapturesKeeps ==
    ASSUME FlowInv, NEW missing \in SUBSET Cloned, NEW ok \in BOOLEAN, NEW meanwhile \in BOOLEAN, NEW dies \in BOOLEAN,
           Captures(missing, ok, meanwhile, dies)
    PROVE  FlowInv'
<1> USE DEF FlowInv
<1>1. now' \in Nat \ Own /\ now \in Nat \ Own
    BY DEF Captures, FlowTypes, Own
<1>2. left' \in [{"runs", "captures", "edits", "faults"} -> Nat]
    <2> DEFINE changed == IF meanwhile THEN 1 ELSE 0
               failed == IF ok THEN 0 ELSE 1
    <2>1. /\ left.captures > 0 /\ left.edits >= changed /\ left.faults >= failed
          /\ left' = [left EXCEPT !.captures = @ - 1, !.edits = @ - changed, !.faults = @ - failed]
        BY DEF Captures
    <2>2. changed \in {0, 1} /\ failed \in {0, 1}
        OBVIOUS
    <2> HIDE DEF changed, failed
    <2>3. left.captures - 1 \in Nat /\ left.edits - changed \in Nat /\ left.faults - failed \in Nat
        BY <2>1, <2>2 DEF FlowTypes
    <2> QED
        BY <2>1, <2>3 DEF FlowTypes
<1>3. /\ capture' \in [objects: SUBSET Nat, addresses: SUBSET Nat, ok: BOOLEAN]
      /\ capture'.ok => ok /\ capture'.objects = {now} /\ capture'.addresses = {now'}
    BY <1>1 DEF Captures, Manifest, NoCapture
<1>4. flat' \in [Cloned -> SUBSET Nat]
    BY <1>1 DEF Captures, FlatExports, FlowTypes
<1>5. sound' \in SUBSET Nat /\ fresh' \in Seq(PhaseNames)
    <2>1. <<>> \in Seq(PhaseNames)
        OBVIOUS
    <2> QED
        BY <1>1, <2>1 DEF Captures, FlowTypes
<1>6. FlowTypes'
    BY <1>1, <1>2, <1>3, <1>4, <1>5 DEF Captures, FlowTypes
<1>7. StepsLeft' /\ FailedIsMessy'
    BY DEF Captures, StepsLeft, FailedIsMessy
<1>8. SourcesThere'
    BY <1>1, <1>3 DEF Captures, SourcesThere, Idle, Own, NoFiles
<1>9. Resolved(target)'
    BY DEF Captures, Resolved
<1> QED
    BY <1>6, <1>7, <1>8, <1>9

LEMMA PreparesKeeps == ASSUME FlowInv, Prepares PROVE FlowInv'
<1> USE DEF FlowInv
<1>0. \A S : <<>> \in Seq(S)
    OBVIOUS
<1>1. CASE CapturesElsewhere
    <2>1. left' \in [{"runs", "captures", "edits", "faults"} -> Nat]
        BY <1>1, SpendsType DEF CapturesElsewhere
    <2>2. flat' \in [Cloned -> SUBSET Nat]
        BY <1>1 DEF CapturesElsewhere, FlatExports, FlowTypes
    <2>3. FlowTypes'
        BY <1>1, <2>1, <2>2 DEF CapturesElsewhere, FlowTypes
    <2> QED
        BY <1>1, <2>3 DEF CapturesElsewhere, StepsLeft, FailedIsMessy, SourcesThere, Resolved, Idle
<1>2. ASSUME NEW class \in Cloned, NEW answers \in BOOLEAN, Exports(class, answers)
      PROVE  FlowInv'
    <2>1. left' \in [{"runs", "captures", "edits", "faults"} -> Nat]
        BY <1>2, SpendsType DEF Exports
    <2>2. flat' \in [Cloned -> SUBSET Nat]
        BY <1>2 DEF Exports, FlowTypes, NoFiles, Own
    <2>3. folders' = [f \in Folders |-> folders'[f]] /\ \A f \in Folders : folders'[f] \in Seq(Saved(f))
        BY <1>0, <1>2 DEF Exports, FlowTypes
    <2>4. messy' \in BOOLEAN /\ crossed' \in BOOLEAN
        BY <1>2 DEF Exports, FlowTypes
    <2>5. FlowTypes'
        BY <1>2, <2>1, <2>2, <2>3, <2>4 DEF Exports, FlowTypes
    <2> QED
        BY <1>2, <2>5 DEF Exports, StepsLeft, FailedIsMessy, SourcesThere, Resolved, Idle
<1>3. ASSUME NEW leftOut \in SUBSET TaggedGroups, NEW dies \in BOOLEAN, NEW app \in Apps, NEW addresses \in SUBSET Nat,
             addresses # {}, Idle, Builds(app, addresses, leftOut, dies)
      PROVE  FlowInv'
    <2>1. left' \in [{"runs", "captures", "edits", "faults"} -> Nat]
        <3>1. left \in [{"runs", "captures", "edits", "faults"} -> Nat]
            BY DEF FlowTypes
        <3> QED
            BY <1>3, <3>1, SpendsType DEF Builds, StepFault
    <2>2. bundle' \in [app: Apps, of: SUBSET Nat, groups: SUBSET TaggedGroups, map: BOOLEAN]
        BY <1>3 DEF Builds, NoBundle, Apps
    <2>3. folders' = folders
        BY <1>3 DEF Builds, KeptOnRebuild, FlowTypes
    <2>4. FlowTypes'
        BY <1>0, <1>3, <2>1, <2>2, <2>3 DEF Builds, FlowTypes, sourceVars
    <2>5. bundle'.map => bundle'.of # {}
        BY <1>3 DEF Builds, NoBundle
    <2> QED
        BY <1>3, <2>4, <2>5 DEF Builds, sourceVars, StepsLeft, FailedIsMessy, SourcesThere, Resolved, Idle
<1>4. ASSUME NEW leftOut \in SUBSET TaggedGroups, NEW dies \in BOOLEAN, BuildsC(leftOut, dies)
      PROVE  FlowInv'
    <2>1. capture.addresses \in SUBSET Nat /\ capture.addresses # {}
        BY <1>4 DEF BuildsC, GatePasses, SourcesThere, FlowTypes
    <2> QED
        BY <1>3, <1>4, <2>1 DEF BuildsC, Apps
<1>5. ASSUME NEW leftOut \in SUBSET TaggedGroups, NEW dies \in BOOLEAN, BuildsD(leftOut, dies)
      PROVE  FlowInv'
    <2>1. {now} \in SUBSET Nat
        BY DEF FlowTypes
    <2> QED
        BY <1>3, <1>5, <2>1 DEF BuildsD, Apps
<1> QED
    BY <1>1, <1>2, <1>4, <1>5, CapturesKeeps DEF Prepares

LEMMA EditKeeps == ASSUME FlowInv, SourceEdited PROVE FlowInv'
<1> USE DEF FlowInv
<1>1. left' \in [{"runs", "captures", "edits", "faults"} -> Nat]
    BY SpendsType DEF SourceEdited
<1>2. FlowTypes'
    BY <1>1 DEF SourceEdited, FlowTypes, Own
<1> QED
    BY <1>2 DEF SourceEdited, StepsLeft, FailedIsMessy, SourcesThere, Resolved, GatePasses

LEMMA BeginsKeeps ==
    ASSUME FlowInv, NEW p \in PhaseNames, ApplyBegins(p) \/ RollbackBegins(p)
    PROVE  /\ FlowInv'
           /\ work'.kind = IF ApplyBegins(p) THEN "apply" ELSE "rollback"
           /\ work'.phase = p /\ ~work'.failed /\ Len(work'.todo) = Len(Phase(p))
           /\ \A i \in 1..Len(Phase(p)) : \E j \in 1..Len(work'.todo) : work'.todo[j] = Phase(p)[i]
<1> USE DEF FlowInv
<1>1. Phase(p) \in Seq(Folders) /\ Len(Phase(p)) \in Nat \ {0}
    BY PhaseIs
<1>2. /\ Reverse(Phase(p)) \in Seq(Folders) /\ Len(Reverse(Phase(p))) = Len(Phase(p))
      /\ \A i \in 1..Len(Phase(p)) : Reverse(Phase(p))[i] = Phase(p)[Len(Phase(p)) + 1 - i]
    <2>1. \A i \in 1..Len(Phase(p)) : Len(Phase(p)) - i + 1 \in 1..Len(Phase(p))
        BY <1>1
    <2>2. \A i \in 1..Len(Phase(p)) : Phase(p)[Len(Phase(p)) - i + 1] \in Folders
        BY <1>1, <2>1
    <2> QED
        BY <1>1, <2>1, <2>2 DEF Reverse
<1>3. ~(ApplyBegins(p) /\ RollbackBegins(p))
    BY DEF ApplyBegins, RollbackBegins, NoWork
<1>4. /\ work'.phase = p /\ work'.failed = FALSE
      /\ work'.kind = IF ApplyBegins(p) THEN "apply" ELSE "rollback"
      /\ work'.todo = IF ApplyBegins(p) THEN Phase(p) ELSE Reverse(Phase(p))
      /\ work' \in Works
    BY <1>1, <1>2, <1>3 DEF ApplyBegins, RollbackBegins, RollbackSteps, NoWork, Works, Kinds
<1>5. left' \in [{"runs", "captures", "edits", "faults"} -> Nat]
    BY SpendsType DEF ApplyBegins, RollbackBegins, FlowTypes
<1>6. FlowTypes'
    <2>1. fresh' \in Seq(PhaseNames) /\ messy' \in BOOLEAN
        <3>1. <<>> \in Seq(PhaseNames)
            OBVIOUS
        <3> QED
            BY <3>1 DEF ApplyBegins, RollbackBegins, FlowTypes
    <2> QED
        BY <1>4, <1>5, <2>1 DEF ApplyBegins, RollbackBegins, FlowTypes, sourceVars
<1>7. StepsLeft'
    <2>1. work'.todo \in Seq(Folders) /\ Len(work'.todo) = Len(Phase(p)) /\ work'.todo # <<>>
        BY <1>1, <1>2, <1>4
    <2>2. \A i \in 1..Len(Phase(p)) : Len(Phase(p)) - Len(Phase(p)) + i = i
        BY <1>1
    <2>3. \A i \in 1..Len(Phase(p)) :
             work'.todo[i] = Phase(p)[IF work'.kind = "apply" THEN Len(Phase(p)) - Len(Phase(p)) + i ELSE Len(Phase(p)) + 1 - i]
        BY <1>2, <1>4, <2>2
    <2>4. \A i \in 1..Len(work'.todo) :
             work'.todo[i] = Phase(work'.phase)[IF work'.kind = "apply" THEN Len(Phase(work'.phase)) - Len(work'.todo) + i
                                                ELSE Len(work'.todo) + 1 - i]
        <3> TAKE i \in 1..Len(work'.todo)
        <3>1. i \in 1..Len(Phase(p)) /\ work'.phase = p /\ Len(work'.todo) = Len(Phase(p))
            BY <1>4, <2>1
        <3>2. work'.todo[i] = Phase(p)[IF work'.kind = "apply" THEN Len(Phase(p)) - Len(Phase(p)) + i ELSE Len(Phase(p)) + 1 - i]
            BY <2>3, <3>1
        <3> QED
            BY <3>1, <3>2
    <2>5. Len(work'.todo) <= Len(Phase(work'.phase)) /\ work'.phase \in PhaseNames
        BY <1>1, <1>4, <2>1
    <2> QED
        BY <2>1, <2>4, <2>5 DEF StepsLeft
<1>8. FailedIsMessy' /\ Resolved(target)'
    BY <1>4 DEF ApplyBegins, RollbackBegins, FailedIsMessy, Resolved
<1>9. SourcesThere'
    BY <1>4 DEF ApplyBegins, RollbackBegins, MayApply, SourcesThere, sourceVars, GatePasses
<1>10. \A i \in 1..Len(Phase(p)) : \E j \in 1..Len(work'.todo) : work'.todo[j] = Phase(p)[i]
    <2>1. CASE ApplyBegins(p)
        BY <1>4, <2>1
    <2>2. CASE ~ApplyBegins(p)
        <3>1. \A i \in 1..Len(Phase(p)) :
                 Len(Phase(p)) + 1 - i \in 1..Len(Phase(p)) /\ Len(Phase(p)) + 1 - (Len(Phase(p)) + 1 - i) = i
            BY <1>1
        <3>2. work'.todo = Reverse(Phase(p)) /\ Len(work'.todo) = Len(Phase(p))
            BY <1>2, <1>4, <2>2
        <3>3. ASSUME NEW i \in 1..Len(Phase(p))
              PROVE  work'.todo[Len(Phase(p)) + 1 - i] = Phase(p)[i]
            BY <1>2, <3>1, <3>2
        <3> QED
            BY <3>1, <3>2, <3>3
    <2> QED
        BY <2>1, <2>2
<1> QED
    BY <1>1, <1>2, <1>4, <1>6, <1>7, <1>8, <1>9, <1>10

LEMMA AppliesKeeps ==
    ASSUME FlowInv, NEW u \in Targets, NEW saved \in BOOLEAN, NEW failed \in BOOLEAN,
           Applies(Head(work.todo), u, saved, failed)
    PROVE  FlowInv'
<1> DEFINE f == Head(work.todo)
<1> USE DEF FlowInv
<1>1. work.kind = "apply" /\ f \in Folders /\ work.phase \in PhaseNames
    BY TodoIs DEF Applies
<1>2. work' \in Works /\ StepsLeft'
    BY <1>1, EndIs DEF Applies
<1>3. \/ work'.kind = "none" /\ ~work'.failed
      \/ work'.kind = work.kind /\ work'.phase = work.phase /\ work'.failed = (work.failed \/ failed)
    BY <1>1, EndIs DEF Applies, NoWork
<1>4. folders' = [g \in Folders |-> folders'[g]] /\ \A g \in Folders : folders'[g] \in Seq(Saved(g))
    <2>1. CASE ~saved
        BY <2>1 DEF Applies, FlowTypes
    <2>2. CASE saved
        <3> DEFINE b == [was |-> Was(f, target), wrote |-> Wrote(f, target, u)]
        <3>1. b \in Saved(f)
            <4>1. Was(f, target) \in Says(f)
                BY <1>1, WasType DEF FlowTypes
            <4>2. Wrote(f, target, u) \in IF f = "siblings" THEN SUBSET Siblings ELSE SUBSET Folders
                BY <1>1 DEF Wrote
            <4> QED
                BY <4>1, <4>2 DEF Saved
        <3>2. folders' = [folders EXCEPT ![f] = Append(@, b)]
            BY <2>2 DEF Applies, Saves
        <3>3. folders[f] \in Seq(Saved(f))
            BY <1>1 DEF FlowTypes
        <3> HIDE DEF f, b
        <3>4. Append(folders[f], b) \in Seq(Saved(f))
            BY <3>1, <3>3, AppendIs
        <3> QED
            BY <1>1, <3>2, <3>4 DEF FlowTypes
    <2> QED
        BY <2>1, <2>2
<1>5. messy' \in BOOLEAN /\ applied' \in Seq(PhaseNames) /\ fresh' \in Seq(PhaseNames)
    <2>1. Append(applied, work.phase) \in Seq(PhaseNames) /\ Append(fresh, work.phase) \in Seq(PhaseNames)
          /\ <<>> \in Seq(PhaseNames)
        BY <1>1, AppendIs DEF FlowTypes
    <2> QED
        BY <2>1 DEF Applies, CountsApply, FlowTypes
<1>6. target' \in Targets
    BY DEF Applies
<1>7. FlowTypes'
    BY <1>2, <1>4, <1>5, <1>6 DEF Applies, FlowTypes, sourceVars
<1>8. FailedIsMessy'
    BY <1>3 DEF Applies, CountsApply, FailedIsMessy
<1>9. SourcesThere'
    BY <1>1, <1>3 DEF Applies, SourcesThere, sourceVars, GatePasses
<1>10. Resolved(target')
    BY <1>1, PushResolves DEF Applies, FlowTypes
<1>11. Resolved(target)'
    BY <1>10 DEF Resolved
<1> QED
    BY <1>2, <1>7, <1>8, <1>9, <1>11

LEMMA RollbacksKeep ==
    ASSUME FlowInv, NEW u \in Targets, NEW well \in BOOLEAN, NEW refused \in BOOLEAN,
           NothingToRevert(Head(work.todo)) \/ Unapplies(Head(work.todo), u, well, refused)
    PROVE  FlowInv'
<1> DEFINE f == Head(work.todo)
           fails == IF NothingToRevert(f) THEN TRUE ELSE ~well
<1> USE DEF FlowInv
<1>1. work.kind = "rollback" /\ f \in Folders /\ work.phase \in PhaseNames
    BY TodoIs DEF Unapplies, NothingToRevert
<1>2. /\ fails \in BOOLEAN /\ StepEnds(fails)
      /\ CountsRollback(fails, IF NothingToRevert(f) THEN FALSE ELSE refused)
    BY DEF Unapplies, NothingToRevert
<1> HIDE DEF fails
<1>3. work' \in Works /\ StepsLeft'
    BY <1>1, <1>2, EndIs
<1>4. \/ work'.kind = "none" /\ ~work'.failed
      \/ work'.kind = work.kind /\ work'.phase = work.phase /\ work'.failed = (work.failed \/ fails)
    BY <1>1, <1>2, EndIs DEF NoWork
<1>5. folders' = [g \in Folders |-> folders'[g]] /\ \A g \in Folders : folders'[g] \in Seq(Saved(g))
    <2>1. CASE folders' = folders
        BY <2>1 DEF FlowTypes
    <2>2. CASE Unapplies(f, u, well, refused) /\ folders' = [folders EXCEPT ![f] = Front(@)]
        <3>1. folders[f] \in Seq(Saved(f)) /\ folders[f] # <<>>
            BY <1>1, <2>2 DEF FlowTypes, Unapplies
        <3> HIDE DEF f
        <3>2. Front(folders[f]) \in Seq(Saved(f))
            BY <3>1, FrontIs
        <3> QED
            BY <1>1, <2>2, <3>2 DEF FlowTypes
    <2> QED
        BY <2>1, <2>2 DEF Unapplies, NothingToRevert
<1>6. messy' \in BOOLEAN /\ stuck' \in BOOLEAN
    BY <1>2 DEF CountsRollback, FlowTypes
<1>7. applied' \in Seq(PhaseNames)
    <2>1. ~messy => TRUE
        OBVIOUS
    <2>2. Front(applied) \in Seq(PhaseNames)
        <3>1. applied \in Seq(PhaseNames) /\ (applied # <<>> => Front(applied) \in Seq(PhaseNames))
            BY FrontIs DEF FlowTypes
        <3>2. Front(<<>>) = <<>>
            BY DEF Front
        <3>3. <<>> \in Seq(PhaseNames)
            OBVIOUS
        <3> QED
            BY <3>1, <3>2, <3>3
    <2> QED
        BY <1>2, <2>2 DEF CountsRollback, FlowTypes
<1>8. target' \in Targets /\ crossed' \in BOOLEAN /\ left' \in [{"runs", "captures", "edits", "faults"} -> Nat]
    BY DEF Unapplies, NothingToRevert, FlowTypes
<1>9. FlowTypes'
    BY <1>3, <1>5, <1>6, <1>7, <1>8 DEF Unapplies, NothingToRevert, FlowTypes, sourceVars
<1>10. FailedIsMessy'
    BY <1>2, <1>4 DEF CountsRollback, FailedIsMessy
<1>11. SourcesThere'
    BY <1>1, <1>4 DEF Unapplies, NothingToRevert, SourcesThere, sourceVars, GatePasses
<1>12. Resolved(target')
    <2>1. CASE target' = target
        BY <2>1
    <2>2. CASE target' = Reverted(f, Last(folders[f]), target) /\ Last(folders[f]) \in Saved(f)
        <3>1. target \in Targets
            BY DEF FlowTypes
        <3>2. Resolved(Reverted(f, Last(folders[f]), target))
            BY <1>1, <2>2, <3>1, RevertResolves
        <3> QED
            BY <2>2, <3>2
    <2> QED
        BY <2>1, <2>2 DEF Unapplies, NothingToRevert
<1>13. Resolved(target)'
    BY <1>12 DEF Resolved
<1> QED
    BY <1>3, <1>9, <1>10, <1>11, <1>13

LEMMA FlowInvNext == ASSUME FlowInv, [FlowNext]_flowVars PROVE FlowInv'
<1>1. CASE UNCHANGED flowVars
    BY <1>1 DEF FlowInv, FlowTypes, StepsLeft, FailedIsMessy, SourcesThere, Resolved, flowVars, sourceVars, GatePasses
<1>2. target \in Targets
    BY DEF FlowInv, FlowTypes
<1> QED
    BY <1>1, <1>2, FlowStepIs, EditKeeps, PreparesKeeps, BeginsKeeps, AppliesKeeps, RollbacksKeep DEF FlowInv

\* The workflow's types, and what a run has left to do.
THEOREM FlowTypeCorrect == FlowSpec => []FlowInv
<1>1. FlowInit => FlowInv
    BY FlowInvInit
<1>2. FlowInv /\ [FlowNext]_flowVars => FlowInv'
    BY FlowInvNext
<1> QED
    BY <1>1, <1>2, PTL DEF FlowSpec

-----------------------------------------------------------------------------
(* The baselines, over all folders, are one stack.                          *)

LEMMA PushBetween ==
    ASSUME FlowTypes, NEW f \in Folders, NEW u \in {target, Pushed(f, target)}
    PROVE  Between(f, [was |-> Was(f, target), wrote |-> Wrote(f, target, u)], target, u)
<1> DEFINE t == target
           w == Wrote(f, t, u)
           b == [was |-> Was(f, t), wrote |-> w]
<1>1. t \in Targets /\ b.was = Was(f, t) /\ b.wrote = w
    BY DEF FlowTypes
<1>2. /\ f # "services" => u.services = t.services
      /\ f # "policies" => u.policies = t.policies
      /\ f # "groups" => u.groups = t.groups
      /\ f \notin {"rules", "amend"} => u.rules = t.rules /\ u.refs = t.refs
      /\ f = "rules" => u.refs = t.refs
      /\ f = "amend" => u.rules = t.rules /\ (t.rules = {} => u.refs = t.refs)
      /\ f # "siblings" => \A k \in Siblings : u.siblings[k] = t.siblings[k]
    <2>1. CASE u = t
        BY <2>1
    <2>2. CASE u = Pushed(f, t)
        BY <1>1, <2>2, PushedIs
    <2> QED
        BY <2>1, <2>2
<1>3. /\ f = "groups" /\ w = {} => u.groups = t.groups
      /\ f = "rules" /\ w = {} => u.rules = t.rules
      /\ f = "siblings" => \A k \in Siblings : k \notin w => u.siblings[k] = t.siblings[k]
    BY DEF Wrote
<1> HIDE DEF t, w, b
<1>4. Between(f, b, t, u)
    BY <1>1, <1>2, <1>3 DEF Between
<1> QED
    BY <1>4 DEF b, w, t

\* Nothing keeps the newest baseline from being used.
LEMMA RevertReturns ==
    ASSUME NEW f \in Folders, NEW b \in Saved(f), NEW s \in Targets, NEW t \in Targets,
           Resolved(s), Between(f, b, s, t)
    PROVE  Reverted(f, b, t) = s /\ Restored(f, b, s) /\ Between(f, b, s, s)
<1>1. b.was = Was(f, s) /\ b.was \in Says(f)
    BY DEF Between, Saved
<1>2. Restored(f, b, s) /\ Between(f, b, s, s)
    <2>4. Restored(f, b, s)
        <3>1. CASE f = "services"
            <4>1. b.was = s.services
                BY <1>1, <3>1 DEF Was
            <4> QED
                BY <3>1, <4>1 DEF Restored
        <3>2. CASE f = "policies"
            <4>1. b.was = s.policies
                BY <1>1, <3>2 DEF Was
            <4> QED
                BY <3>2, <4>1 DEF Restored
        <3>3. CASE f = "groups"
            <4>1. b.was = s.groups
                BY <1>1, <3>3 DEF Was
            <4> QED
                BY <3>3, <4>1 DEF Restored
        <3>a. CASE f = "rules" \/ f = "amend"
            BY <1>1, <3>a DEF Restored
        <3>b. CASE f = "siblings"
            <4>1. b.was = s.siblings
                BY <1>1, <3>b DEF Was
            <4> QED
                BY <3>b, <4>1 DEF Restored
        <3> QED
            BY <3>1, <3>2, <3>3, <3>a, <3>b DEF Folders, Cloned
    <2> QED
        BY <1>1, <2>4 DEF Between
<1> DEFINE u == Reverted(f, b, t)
<1>3. u \in Targets
    BY RevertedIs
<1>4. CASE f = "services"
    <2>1. b.was = s.services /\ t.groups = s.groups /\ t.policies = s.policies /\ t.rules = s.rules /\ t.refs = s.refs
        BY <1>1, <1>4 DEF Between, Was
    <2>2. u.services = b.was
        BY <1>4, <2>1 DEF Reverted, Resolved, Targets
    <2>3. u.groups = t.groups /\ u.policies = t.policies /\ u.rules = t.rules /\ u.refs = t.refs /\ u.siblings = t.siblings
        BY <1>4, RevertedIs
    <2>4. t.siblings = s.siblings
        BY <1>4 DEF Between, Targets
    <2> HIDE DEF u
    <2>5. u = s
        BY <1>3, <2>1, <2>2, <2>3, <2>4, SameTarget
    <2> QED
        BY <1>2, <2>5 DEF u
<1>5. CASE f = "groups"
    <2>1. b.was = s.groups /\ t.services = s.services /\ t.policies = s.policies /\ t.rules = s.rules /\ t.refs = s.refs
          /\ (b.wrote = {} => t.groups = s.groups)
        BY <1>1, <1>5 DEF Between, Was
    <2>2. u.groups = s.groups
        BY <1>5, <2>1 DEF Reverted, Resolved, Targets
    <2>3. u.services = t.services /\ u.policies = t.policies /\ u.rules = t.rules /\ u.refs = t.refs /\ u.siblings = t.siblings
        BY <1>5, RevertedIs
    <2>4. t.siblings = s.siblings
        BY <1>5 DEF Between, Targets
    <2> HIDE DEF u
    <2>5. u = s
        BY <1>3, <2>1, <2>2, <2>3, <2>4, SameTarget
    <2> QED
        BY <1>2, <2>5 DEF u
<1>6. CASE f = "policies"
    <2>1. b.was = s.policies /\ t.services = s.services /\ t.groups = s.groups /\ t.rules = s.rules /\ t.refs = s.refs
        BY <1>1, <1>6 DEF Between, Was
    <2>2. u.policies = s.policies /\ u.rules = s.rules /\ u.refs = s.refs
        BY <1>6, <2>1 DEF Reverted, Resolved, Targets
    <2>3. u.services = t.services /\ u.groups = t.groups /\ u.siblings = t.siblings
        BY <1>6, RevertedIs
    <2>4. t.siblings = s.siblings
        BY <1>6 DEF Between, Targets
    <2> HIDE DEF u
    <2>5. u = s
        BY <1>3, <2>1, <2>2, <2>3, <2>4, SameTarget
    <2> QED
        BY <1>2, <2>5 DEF u
<1>7. CASE f \in {"rules", "amend"}
    <2>1. /\ b.was.rules = s.rules /\ b.was.refs = s.refs
          /\ t.services = s.services /\ t.groups = s.groups /\ t.policies = s.policies
          /\ b.wrote = {} /\ s.rules = {} => t.rules = s.rules /\ t.refs = s.refs
        BY <1>1, <1>7 DEF Between, Was
    <2>2. t.siblings = s.siblings
        BY <1>7 DEF Between, Targets
    <2>3. s.rules # {} => Holds(t, s.refs)
        BY <2>1, <2>2 DEF Resolved, Holds
    <2>4. u.rules = s.rules /\ u.refs = s.refs
        <3>1. CASE s.rules # {}
            BY <1>7, <2>1, <2>3, <3>1 DEF Reverted, Targets
        <3>2. CASE s.rules = {}
            <4>1. s.refs = {}
                BY <3>2 DEF Resolved
            <4> QED
                BY <1>7, <2>1, <3>2, <4>1 DEF Reverted, Targets
        <3> QED
            BY <3>1, <3>2
    <2>5. u.services = t.services /\ u.groups = t.groups /\ u.policies = t.policies /\ u.siblings = t.siblings
        BY <1>7 DEF Reverted, Targets
    <2> HIDE DEF u
    <2>6. u = s
        BY <1>3, <2>1, <2>2, <2>4, <2>5, SameTarget
    <2> QED
        BY <1>2, <2>6 DEF u
<1>8. CASE f = "siblings"
    <2>1. /\ b.was = s.siblings /\ t.services = s.services /\ t.groups = s.groups /\ t.policies = s.policies
          /\ t.rules = s.rules /\ t.refs = s.refs
          /\ \A k \in Siblings : k \notin b.wrote => t.siblings[k] = s.siblings[k]
        BY <1>1, <1>8 DEF Between, Was
    <2>2. \A k \in t.refs : s.siblings[k] # {}
        BY <2>1 DEF Resolved
    <2>3. \A k \in Siblings : u.siblings[k] =
                 IF k \notin b.wrote \/ (b.was[k] = {} /\ k \in t.refs) THEN t.siblings[k] ELSE b.was[k]
        BY <1>8, RevertedIs
    <2>4. \A k \in Siblings : u.siblings[k] = s.siblings[k]
        <3> HIDE DEF u
        <3> QED
            BY <2>1, <2>2, <2>3
    <2>5. u.siblings = s.siblings
        <3> HIDE DEF u
        <3>1. u.siblings \in [Siblings -> SUBSET Nat] /\ s.siblings \in [Siblings -> SUBSET Nat]
            BY <1>3 DEF Targets
        <3> QED
            BY <2>4, <3>1
    <2>6. u.services = t.services /\ u.groups = t.groups /\ u.policies = t.policies /\ u.rules = t.rules /\ u.refs = t.refs
        BY <1>8 DEF Reverted, Targets
    <2> HIDE DEF u
    <2>7. u = s
        BY <1>3, <2>1, <2>5, <2>6, SameTarget
    <2> QED
        BY <1>2, <2>7 DEF u
<1> QED
    BY <1>4, <1>5, <1>6, <1>7, <1>8 DEF Folders, Cloned

Entry == [of: Folders, nr: Nat, before: Targets]

\* The baseline on top of the stack is the newest of its folder.
LEMMA TopIs ==
    ASSUME FlowTypes, Linked, NEW f \in Folders, folders[f] # <<>>, Last(order).of = f
    PROVE  /\ order \in Seq(Entry) /\ order # <<>> /\ Len(order) \in Nat \ {0}
           /\ order[Len(order)].of = f /\ order[Len(order)].nr = Len(folders[f])
           /\ BaseOf(Len(order)) = Last(folders[f])
<1>1. order \in Seq(Entry) /\ folders[f] \in Seq(Saved(f))
    BY DEF Linked, Entry, FlowTypes
<1>2. Len(folders[f]) \in Nat \ {0} /\ Last(folders[f]) = folders[f][Len(folders[f])]
    BY <1>1, FrontIs
<1>3. PICK n \in 1..Len(order) : order[n].of = f /\ order[n].nr = Len(folders[f])
    <2>1. \A i \in 1..Len(folders[f]) : \E n \in 1..Len(order) : order[n].of = f /\ order[n].nr = i
        BY DEF Linked
    <2>2. Len(folders[f]) \in 1..Len(folders[f])
        BY <1>2
    <2> QED
        BY <2>1, <2>2
<1>4. order # <<>> /\ Len(order) \in Nat \ {0} /\ order[Len(order)].of = f
    <2>1. order # <<>>
        BY <1>1, <1>3
    <2> QED
        BY <1>1, <2>1, FrontIs
<1>5. n = Len(order)
    <2>1. n < Len(order) => order[n].nr < order[Len(order)].nr
        BY <1>3, <1>4 DEF Linked
    <2>2. order[Len(order)].nr \in 1..Len(folders[f])
        BY <1>4 DEF Linked
    <2> QED
        BY <1>2, <1>3, <1>4, <2>1, <2>2
<1>6. BaseOf(Len(order)) = Last(folders[f])
    BY <1>2, <1>3, <1>4, <1>5 DEF BaseOf
<1> QED
    BY <1>1, <1>3, <1>4, <1>5, <1>6

\* Used in turn it gives back what the target held.
LEMMA TopReturns ==
    ASSUME FlowTypes, Linked, NEW f \in Folders, folders[f] # <<>>, Last(order).of = f
    PROVE  /\ order[Len(order)].before \in Targets
           /\ Reverted(f, Last(folders[f]), target) = order[Len(order)].before
           /\ Restored(f, Last(folders[f]), order[Len(order)].before)
           /\ Between(f, Last(folders[f]), order[Len(order)].before, order[Len(order)].before)
<1>1. /\ order \in Seq(Entry) /\ order # <<>> /\ Len(order) \in Nat \ {0}
      /\ order[Len(order)].of = f
      /\ BaseOf(Len(order)) = Last(folders[f])
    BY TopIs
<1>2. target \in Targets /\ Last(folders[f]) \in Saved(f) /\ order[Len(order)].before \in Targets
    <2>1. folders[f] \in Seq(Saved(f)) /\ target \in Targets
        BY DEF FlowTypes
    <2>2. order[Len(order)] \in Entry
        BY <1>1
    <2> QED
        BY <2>1, <2>2, FrontIs DEF Entry
<1>3. /\ Resolved(order[Len(order)].before)
      /\ Between(f, Last(folders[f]), order[Len(order)].before, target)
    <2>1. Len(order) \in 1..Len(order) /\ After(Len(order)) = target
        BY <1>1 DEF After
    <2> QED
        BY <1>1, <2>1 DEF Linked
<1> QED
    BY <1>2, <1>3, RevertReturns

LEMMA LinkPush ==
    ASSUME FlowInv, Linked, NEW f \in Folders, NEW u \in Targets, u \in {target, Pushed(f, target)},
           Saves(f, target, u), target' = u, initial' = initial
    PROVE  Linked'
<1> DEFINE b == [was |-> Was(f, target), wrote |-> Wrote(f, target, u)]
           e == [of |-> f, nr |-> Len(folders[f]) + 1, before |-> target]
           l == Len(order)
<1>1. FlowTypes /\ Resolved(target) /\ target \in Targets /\ folders[f] \in Seq(Saved(f)) /\ f \in DOMAIN folders
    BY DEF FlowInv, FlowTypes
<1>2. folders' = [folders EXCEPT ![f] = Append(@, b)] /\ order' = Append(order, e)
    BY DEF Saves
<1>3. b \in Saved(f) /\ e \in Entry
    <2>1. Was(f, target) \in Says(f)
        BY <1>1, WasType
    <2>2. Wrote(f, target, u) \in IF f = "siblings" THEN SUBSET Siblings ELSE SUBSET Folders
        BY DEF Wrote
    <2>3. Len(folders[f]) + 1 \in Nat
        BY <1>1
    <2> QED
        BY <1>1, <2>1, <2>2, <2>3 DEF Saved, Entry
<1>4. Between(f, b, target, u)
    BY <1>1, PushBetween
<1>a. e.of = f /\ e.nr = Len(folders[f]) + 1 /\ e.before = target
    OBVIOUS
<1> HIDE DEF b, e
<1>5. /\ order \in Seq(Entry) /\ l \in Nat /\ order' \in Seq(Entry) /\ Len(order') = l + 1
      /\ \A n \in 1..l : order'[n] = order[n]
      /\ order'[l + 1] = e
    <2>1. order \in Seq(Entry)
        BY DEF Linked, Entry
    <2> QED
        BY <1>2, <1>3, <2>1, AppendIs
<1>6. /\ Len(folders[f]) \in Nat /\ Len(folders'[f]) = Len(folders[f]) + 1
      /\ \A i \in 1..Len(folders[f]) : folders'[f][i] = folders[f][i]
      /\ folders'[f][Len(folders[f]) + 1] = b
      /\ \A g \in Folders : g # f => folders'[g] = folders[g]
    <2>1. folders'[f] = Append(folders[f], b) /\ \A g \in Folders : g # f => folders'[g] = folders[g]
        BY <1>1, <1>2 DEF FlowTypes
    <2> QED
        BY <1>1, <1>3, <2>1, AppendIs
<1>7. \A g \in Folders : \A i \in 1..Len(folders[g]) : i \in 1..Len(folders'[g]) /\ folders'[g][i] = folders[g][i]
    BY <1>6
<1>8. \A n \in 1..l : /\ order[n].of \in Folders /\ order[n].nr \in 1..Len(folders[order[n].of])
                      /\ order[n].nr \in Nat
    <2>1. \A n \in 1..l : order[n].nr \in 1..Len(folders[order[n].of])
        BY DEF Linked
    <2>2. \A n \in 1..l : order[n] \in Entry
        BY <1>5
    <2> QED
        BY <2>1, <2>2 DEF Entry
<1>9. ASSUME NEW n \in 1..(l + 1)
      PROVE  /\ order'[n].nr \in 1..Len(folders'[order'[n].of])
             /\ Resolved(order'[n].before)
             /\ Between(order'[n].of, folders'[order'[n].of][order'[n].nr], order'[n].before,
                        IF n = l + 1 THEN u ELSE order'[n+1].before)
    <2>1. CASE n = l + 1
        BY <1>1, <1>4, <1>5, <1>6, <1>a, <2>1
    <2>2. CASE n \in 1..l
        <3>1. order'[n] = order[n] /\ folders'[order[n].of][order[n].nr] = BaseOf(n)
              /\ order[n].nr \in 1..Len(folders'[order[n].of])
            BY <1>5, <1>7, <1>8, <2>2 DEF BaseOf
        <3>2. n # l + 1 /\ order'[n+1].before = After(n)
            <4>1. CASE n = l
                BY <1>5, <1>a, <4>1 DEF After
            <4>2. CASE n < l
                <5>1. n + 1 \in 1..l
                    BY <1>5, <2>2, <4>2
                <5> QED
                    BY <1>5, <2>2, <4>2, <5>1 DEF After
            <4> QED
                BY <1>5, <2>2, <4>1, <4>2
        <3> QED
            BY <2>2, <3>1, <3>2 DEF Linked
    <2> QED
        BY <1>5, <2>1, <2>2
<1>10. ASSUME NEW n \in 1..(l + 1), NEW m \in 1..(l + 1), n < m, order'[n].of = order'[m].of
       PROVE  order'[n].nr < order'[m].nr
    <2>1. n \in 1..l /\ order'[n] = order[n]
        BY <1>5, <1>10
    <2>2. CASE m = l + 1
        BY <1>5, <1>6, <1>8, <1>a, <1>10, <2>1, <2>2
    <2>3. CASE m \in 1..l
        BY <1>5, <1>10, <2>1, <2>3 DEF Linked
    <2> QED
        BY <1>5, <2>2, <2>3
<1>11. ASSUME NEW g \in Folders, NEW i \in 1..Len(folders'[g])
       PROVE  \E n \in 1..(l + 1) : order'[n].of = g /\ order'[n].nr = i
    <2>1. CASE g = f /\ i = Len(folders[f]) + 1
        BY <1>5, <1>a, <2>1
    <2>2. CASE i \in 1..Len(folders[g])
        <3>1. PICK n \in 1..l : order[n].of = g /\ order[n].nr = i
            BY <2>2 DEF Linked
        <3>2. n \in 1..(l + 1)
            BY <1>5
        <3> QED
            BY <1>5, <3>1, <3>2
    <2> QED
        BY <1>6, <2>1, <2>2
<1>12. order' # <<>> /\ initial' = order'[1].before
    <2>1. order' # <<>>
        BY <1>5
    <2>2. CASE order = <<>>
        <3>1. l = 0 /\ initial = target
            BY <2>2 DEF Linked
        <3>2. order'[1] = e
            BY <1>5, <3>1
        <3> QED
            BY <2>1, <3>1, <3>2, <1>a
    <2>3. CASE order # <<>>
        BY <1>5, <2>3 DEF Linked
    <2> QED
        BY <2>1, <2>2, <2>3
<1>13. \A n \in 1..(l + 1) : BaseOf(n)' = folders'[order'[n].of][order'[n].nr]
                             /\ After(n)' = IF n = l + 1 THEN u ELSE order'[n+1].before
    BY <1>5 DEF BaseOf, After
<1> HIDE DEF l
<1>14. \A n \in 1..(l + 1) : Resolved(order[n].before)' = Resolved(order'[n].before)
    BY DEF Resolved
<1>15. \A n \in 1..(l + 1) : /\ order'[n].nr \in 1..Len(folders'[order'[n].of])
                             /\ Resolved(order'[n].before)
                             /\ Between(order'[n].of, BaseOf(n)', order'[n].before, After(n)')
    BY <1>9, <1>13
<1> QED
    BY <1>5, <1>10, <1>11, <1>12, <1>14, <1>15 DEF Linked, Entry

LEMMA LinkRevert ==
    ASSUME FlowInv, Linked, NEW f \in Folders, folders[f] # <<>>, Last(order).of = f,
           folders' = [folders EXCEPT ![f] = Front(@)], order' = Front(order),
           target' = order[Len(order)].before, initial' = initial
    PROVE  Linked'
<1> DEFINE l == Len(order)
           d == Len(folders[f])
<1>1. FlowTypes /\ folders[f] \in Seq(Saved(f)) /\ order \in Seq(Entry)
    BY DEF FlowInv, FlowTypes, Linked, Entry
<1>2. /\ order # <<>> /\ l \in Nat \ {0} /\ order[l].of = f /\ order[l].nr = d
    BY <1>1, TopIs
<1>3. /\ d \in Nat \ {0} /\ Len(folders'[f]) = d - 1
      /\ \A i \in 1..(d - 1) : folders'[f][i] = folders[f][i]
      /\ \A g \in Folders : g # f => folders'[g] = folders[g]
    <2>1. folders'[f] = Front(folders[f]) /\ \A g \in Folders : g # f => folders'[g] = folders[g]
        BY <1>1 DEF FlowTypes
    <2>2. /\ Front(folders[f]) \in Seq(Saved(f)) /\ Len(Front(folders[f])) = Len(folders[f]) - 1
          /\ Len(folders[f]) \in Nat \ {0}
          /\ \A i \in 1..(Len(folders[f]) - 1) : Front(folders[f])[i] = folders[f][i]
        BY <1>1, FrontIs
    <2> QED
        BY <2>1, <2>2
<1>4. /\ order' \in Seq(Entry) /\ Len(order') = l - 1
      /\ \A n \in 1..(l - 1) : order'[n] = order[n]
    BY <1>1, <1>2, FrontIs
<1>5. \A n \in 1..l : order[n].of \in Folders /\ order[n].nr \in Nat /\ order[n] \in Entry
    <2>1. \A n \in 1..l : order[n] \in Entry
        BY <1>1
    <2> QED
        BY <2>1 DEF Entry
<1>6. ASSUME NEW n \in 1..(l - 1)
      PROVE  /\ n \in 1..l /\ order[n].nr \in 1..Len(folders'[order[n].of])
             /\ folders'[order[n].of][order[n].nr] = BaseOf(n)
             /\ order[n+1].before = After(n)
    <2>1. n \in 1..l /\ n < l /\ l \in 1..l /\ n # l
        BY <1>2
    <2>2. order[n].nr \in 1..Len(folders[order[n].of]) /\ (order[n].of = f => order[n].nr < order[l].nr)
        BY <1>2, <2>1 DEF Linked
    <2>3. CASE order[n].of = f
        <3>1. order[n].nr \in 1..(d - 1)
            BY <1>2, <1>3, <1>5, <2>1, <2>2, <2>3
        <3> QED
            BY <1>3, <2>1, <2>3, <3>1 DEF BaseOf, After
    <2>4. CASE order[n].of # f
        BY <1>3, <1>5, <2>1, <2>2, <2>4 DEF BaseOf, After
    <2> QED
        BY <2>3, <2>4
<1>7. ASSUME NEW n \in 1..(l - 1)
      PROVE  After(n) = IF n = l - 1 THEN target' ELSE order'[n+1].before
    <2>1. CASE n = l - 1
        <3>1. n + 1 = l
            BY <1>2, <2>1
        <3> QED
            BY <1>6, <2>1, <3>1
    <2>2. CASE n # l - 1
        <3>1. n + 1 \in 1..(l - 1)
            BY <1>2, <2>2
        <3> QED
            BY <1>4, <1>6, <2>2, <3>1
    <2> QED
        BY <2>1, <2>2
<1>8. ASSUME NEW n \in 1..(l - 1)
      PROVE  /\ order'[n].nr \in 1..Len(folders'[order'[n].of])
             /\ Resolved(order'[n].before)
             /\ Between(order'[n].of, folders'[order'[n].of][order'[n].nr], order'[n].before,
                        IF n = l - 1 THEN target' ELSE order'[n+1].before)
    <2>1. /\ Resolved(order[n].before)
          /\ Between(order[n].of, BaseOf(n), order[n].before, After(n))
        BY <1>6 DEF Linked
    <2> QED
        BY <1>4, <1>6, <1>7, <2>1
<1>9. ASSUME NEW n \in 1..(l - 1), NEW m \in 1..(l - 1), n < m, order'[n].of = order'[m].of
      PROVE  order'[n].nr < order'[m].nr
    <2>1. \A i, j \in 1..l : i < j /\ order[i].of = order[j].of => order[i].nr < order[j].nr
        BY DEF Linked
    <2> QED
        BY <1>4, <1>6, <1>9, <2>1
<1>10. ASSUME NEW g \in Folders, NEW i \in 1..Len(folders'[g])
       PROVE  \E n \in 1..(l - 1) : order'[n].of = g /\ order'[n].nr = i
    <2>1. i \in 1..Len(folders[g]) /\ (g = f => i # d)
        BY <1>3
    <2>2. PICK n \in 1..l : order[n].of = g /\ order[n].nr = i
        BY <2>1 DEF Linked
    <2>3. n # l
        BY <1>2, <2>1, <2>2
    <2>4. n \in 1..(l - 1)
        BY <1>2, <2>3
    <2> QED
        BY <1>4, <2>2, <2>4
<1>11. initial' = IF order' = <<>> THEN target' ELSE order'[1].before
    <2>1. initial = order[1].before
        BY <1>2 DEF Linked
    <2>2. CASE l = 1
        BY <1>4, <2>1, <2>2
    <2>3. CASE l # 1
        <3>1. 1 \in 1..(l - 1) /\ order' # <<>>
            BY <1>2, <1>4, <2>3
        <3> QED
            BY <1>4, <2>1, <3>1
    <2> QED
        BY <2>2, <2>3
<1>12. \A n \in 1..(l - 1) : /\ BaseOf(n)' = folders'[order'[n].of][order'[n].nr]
                             /\ After(n)' = IF n = l - 1 THEN target' ELSE order'[n+1].before
    BY <1>4 DEF BaseOf, After
<1>13. \A n \in 1..(l - 1) : Resolved(order[n].before)' = Resolved(order'[n].before)
    BY DEF Resolved
<1> HIDE DEF l, d
<1>14. \A n \in 1..(l - 1) : /\ order'[n].nr \in 1..Len(folders'[order'[n].of])
                             /\ Resolved(order'[n].before)
                             /\ Between(order'[n].of, BaseOf(n)', order'[n].before, After(n)')
    BY <1>8, <1>12
<1> QED
    BY <1>4, <1>9, <1>10, <1>11, <1>13, <1>14 DEF Linked, Entry

\* A revert in turn succeeds, unless the step fails.
LEMMA RollbackReturns ==
    ASSUME FlowInv, LinkInv, NEW u \in Targets, NEW well \in BOOLEAN, NEW refused \in BOOLEAN,
           Unapplies(Head(work.todo), u, well, refused), ~crossed'
    PROVE  Linked' /\ (well \/ refused)
<1> DEFINE f == Head(work.todo)
<1>1. FlowTypes /\ Linked /\ f \in Folders /\ folders[f] # <<>> /\ Last(order).of = f
    BY DEF FlowInv, LinkInv, Unapplies
<1> DEFINE s == order[Len(order)].before
<1>2. /\ Reverted(f, Last(folders[f]), target) = s /\ Restored(f, Last(folders[f]), s)
      /\ Between(f, Last(folders[f]), s, s) /\ s \in Targets
    BY <1>1, TopReturns
<1>3. CASE well
    <2>1. folders' = [folders EXCEPT ![f] = Front(@)] /\ order' = Front(order) /\ target' = s /\ initial' = initial
        BY <1>2, <1>3 DEF Unapplies
    <2> HIDE DEF f
    <2> QED
        BY <1>1, <1>3, <2>1, LinkRevert
<1>4. CASE ~well
    <2>1. refused /\ folders' = folders /\ order' = order /\ initial' = initial /\ target' \in {target, s}
        BY <1>2, <1>4 DEF Unapplies
    <2>2. /\ order \in Seq(Entry) /\ order # <<>> /\ Len(order) \in Nat \ {0} /\ order[Len(order)].of = f
          /\ BaseOf(Len(order)) = Last(folders[f])
        BY <1>1, TopIs
    <2> HIDE DEF f, s
    <2>3. ASSUME NEW n \in 1..Len(order)
          PROVE  Between(order[n].of, BaseOf(n), order[n].before, IF n = Len(order) THEN target' ELSE order[n+1].before)
        <3>1. CASE n = Len(order) /\ target' = s
            BY <1>2, <2>2, <3>1 DEF s
        <3>2. CASE n # Len(order) \/ target' = target
            <4>1. Between(order[n].of, BaseOf(n), order[n].before, After(n))
                BY <1>1 DEF Linked
            <4>2. After(n) = IF n = Len(order) THEN target' ELSE order[n+1].before
                BY <3>2 DEF After
            <4> QED
                BY <4>1, <4>2
        <3> QED
            BY <2>1, <3>1, <3>2
    <2>4. \A n \in 1..Len(order) : /\ BaseOf(n)' = BaseOf(n)
                                   /\ After(n)' = IF n = Len(order) THEN target' ELSE order[n+1].before
        BY <2>1 DEF BaseOf, After
    <2>5. \A n \in 1..Len(order) : Resolved(order[n].before)' = Resolved(order[n].before)
        BY <2>1 DEF Resolved
    <2>6. \A n \in 1..Len(order) : Between(order'[n].of, BaseOf(n)', order'[n].before, After(n)')
        BY <2>1, <2>3, <2>4
    <2>7. order' \in Seq(Entry) /\ Len(order') = Len(order)
        BY <2>1, <2>2
    <2>8. Linked'
        BY <1>1, <2>1, <2>2, <2>5, <2>6, <2>7 DEF Linked, Entry
    <2> QED
        BY <2>1, <2>8
<1> QED
    BY <1>3, <1>4

LEMMA LinkSame ==
    ASSUME Linked, UNCHANGED <<folders, order, target, initial>> PROVE Linked'
<1>1. \A n : /\ BaseOf(n)' = BaseOf(n) /\ After(n)' = After(n)
             /\ Resolved(order[n].before)' = Resolved(order[n].before)
    BY DEF BaseOf, After, Resolved
<1>2. \A n : Between(order[n].of, BaseOf(n), order[n].before, After(n))'
             = Between(order[n].of, BaseOf(n), order[n].before, After(n))
    BY <1>1 DEF Between, Was
<1>3. (\A n \in 1..Len(order) : /\ order[n].nr \in 1..Len(folders[order[n].of])
                                /\ Resolved(order[n].before)
                                /\ Between(order[n].of, BaseOf(n), order[n].before, After(n)))'
    BY <1>1, <1>2 DEF Linked
<1>4. initial' = IF order' = <<>> THEN target' ELSE order'[1].before
    BY DEF Linked
<1>5. (order \in Seq([of: Folders, nr: Nat, before: Targets]))'
    BY DEF Linked
<1>6. (\A n, m \in 1..Len(order) : n < m /\ order[n].of = order[m].of => order[n].nr < order[m].nr)'
    BY DEF Linked
<1>7. (\A f \in Folders : \A i \in 1..Len(folders[f]) : \E n \in 1..Len(order) : order[n].of = f /\ order[n].nr = i)'
    <2>1. \A f \in Folders : \A i \in 1..Len(folders[f]) : \E n \in 1..Len(order) : order[n].of = f /\ order[n].nr = i
        BY DEF Linked
    <2>2. folders' = folders /\ order' = order
        OBVIOUS
    <2> QED
        BY <2>1, <2>2
<1> HIDE DEF BaseOf, After, Resolved, Between
<1> QED
    BY <1>3, <1>4, <1>5, <1>6, <1>7 DEF Linked

LEMMA LinkInvNext == ASSUME FlowInv, LinkInv, [FlowNext]_flowVars PROVE LinkInv'
<1> SUFFICES ASSUME ~crossed' PROVE Linked'
    BY DEF LinkInv
<1>0. FlowTypes /\ StepsLeft
    BY DEF FlowInv
<1>1. CASE UNCHANGED flowVars \/ SourceEdited \/ \E p \in PhaseNames : ApplyBegins(p) \/ RollbackBegins(p)
    BY <1>1, LinkSame DEF LinkInv, flowVars, SourceEdited, ApplyBegins, RollbackBegins
<1>2. CASE Prepares
    <2>1. ASSUME NEW class \in Cloned, NEW answers \in BOOLEAN, Exports(class, answers)
          PROVE  ~crossed /\ UNCHANGED <<folders, order, target, initial>>
        <3>1. folders[class] = <<>> /\ folders' = [folders EXCEPT ![class] = <<>>] /\ ~crossed
            BY <2>1 DEF Exports
        <3>2. folders' = folders
            BY <1>0, <3>1 DEF FlowTypes
        <3> QED
            BY <2>1, <3>1, <3>2 DEF Exports
    <2>2. ASSUME NEW leftOut \in SUBSET TaggedGroups, NEW dies \in BOOLEAN, NEW app, NEW addresses,
                 Builds(app, addresses, leftOut, dies)
          PROVE  ~crossed /\ UNCHANGED <<folders, order, target, initial>>
        BY <1>0, <2>2 DEF Builds, KeptOnRebuild, FlowTypes
    <2>3. CASE \E missing \in SUBSET Cloned, ok, meanwhile, dies \in BOOLEAN : Captures(missing, ok, meanwhile, dies)
        BY <2>3, LinkSame DEF Captures, LinkInv
    <2>4. CASE CapturesElsewhere
        BY <2>4, LinkSame DEF CapturesElsewhere, LinkInv
    <2> QED
        BY <1>2, <2>1, <2>2, <2>3, <2>4, LinkSame DEF Prepares, LinkInv, BuildsC, BuildsD
<1>3. ASSUME NEW u \in Targets, NEW saved \in BOOLEAN, NEW failed \in BOOLEAN,
             Applies(Head(work.todo), u, saved, failed)
      PROVE  Linked'
    <2>1. Linked /\ initial' = initial /\ target' = u /\ Head(work.todo) \in Folders
          /\ u \in {target, Pushed(Head(work.todo), target)}
        BY <1>3 DEF LinkInv, Applies
    <2>2. CASE saved
        BY <2>1, <2>2, <1>3, LinkPush DEF Applies
    <2>3. CASE ~saved
        BY <2>1, <2>3, <1>3, LinkSame DEF Applies
    <2> QED
        BY <2>2, <2>3
<1>4. NothingToRevert(Head(work.todo)) => Linked'
    BY LinkSame DEF NothingToRevert, LinkInv
<1>5. (\E u \in Targets, well, refused \in BOOLEAN : Unapplies(Head(work.todo), u, well, refused)) => Linked'
    BY RollbackReturns
<1> QED
    BY <1>0, <1>1, <1>2, <1>3, <1>4, <1>5, FlowStepIs

LEMMA LinkInvInit == ASSUME FlowInit PROVE LinkInv
<1>1. order = <<>> /\ Len(order) = 0 /\ initial = target /\ \A f \in Folders : folders[f] = <<>>
    BY DEF FlowInit
<1>2. <<>> \in Seq([of: Folders, nr: Nat, before: Targets])
    OBVIOUS
<1> QED
    BY <1>1, <1>2 DEF LinkInv, Linked

-----------------------------------------------------------------------------
(* Phases that go well are undone in turn.                                  *)

LEMMA EndsAre ==
    ASSUME FlowTypes, Linked, NEW ends \in [0..Len(applied) -> Nat], PhasesEnd(ends)
    PROVE  /\ Len(applied) \in Nat /\ Len(order) \in Nat /\ ends[0] = 0
           /\ \A n \in 0..Len(applied) : ends[n] \in Nat
           /\ \A n \in 1..Len(applied) :
                 /\ n - 1 \in 0..Len(applied) /\ n \in 0..Len(applied)
                 /\ applied[n] \in PhaseNames /\ Len(Phase(applied[n])) \in Nat \ {0}
                 /\ ends[n] = ends[n-1] + Len(Phase(applied[n])) /\ ends[n-1] <= Len(order)
                 /\ n # Len(applied) => ends[n] <= Len(order) /\ ends[n-1] < Len(order)
<1>1. applied \in Seq(PhaseNames) /\ Len(applied) \in Nat /\ Len(order) \in Nat
    BY DEF FlowTypes, Linked
<1>2. \A n \in 0..Len(applied) : ends[n] \in Nat
    OBVIOUS
<1>3. ASSUME NEW n \in 1..Len(applied)
      PROVE  /\ n - 1 \in 0..Len(applied) /\ n \in 0..Len(applied)
             /\ applied[n] \in PhaseNames /\ Len(Phase(applied[n])) \in Nat \ {0}
             /\ ends[n] = ends[n-1] + Len(Phase(applied[n])) /\ ends[n-1] <= Len(order)
    <2>1. n - 1 \in 0..Len(applied) /\ n \in 0..Len(applied)
        BY <1>1
    <2>2. applied[n] \in PhaseNames
        BY <1>1
    <2> QED
        BY <2>1, <2>2, PhaseIs DEF PhasesEnd
<1>4. ASSUME NEW n \in 1..Len(applied), n # Len(applied)
      PROVE  ends[n] <= Len(order) /\ ends[n-1] < Len(order)
    <2>1. n + 1 \in 1..Len(applied) /\ (n + 1) - 1 = n
        BY <1>1, <1>4
    <2>2. ends[n] <= Len(order)
        BY <1>3, <2>1
    <2>3. ends[n] \in Nat /\ ends[n-1] \in Nat
        BY <1>2, <1>3
    <2> QED
        BY <1>1, <1>3, <2>2, <2>3
<1> QED
    BY <1>1, <1>2, <1>3, <1>4 DEF PhasesEnd

LEMMA OrderBegins ==
    ASSUME FlowInv, LinkInv, OrderInv, NEW p \in PhaseNames, ApplyBegins(p) \/ RollbackBegins(p), ~messy'
    PROVE  Ordered'
<1>1. /\ ~messy /\ work.kind = "none" /\ UNCHANGED <<order, applied, crossed>>
      /\ work'.kind = IF ApplyBegins(p) THEN "apply" ELSE "rollback"
      /\ work'.phase = p /\ Len(work'.todo) = Len(Phase(p))
      /\ work'.kind = "rollback" => applied # <<>> /\ Last(applied) = p
    <2>1. /\ work'.kind = IF ApplyBegins(p) THEN "apply" ELSE "rollback"
          /\ work'.phase = p /\ Len(work'.todo) = Len(Phase(p))
        BY BeginsKeeps
    <2>2. ~messy /\ work.kind = "none" /\ UNCHANGED <<order, applied, crossed>>
        <3>1. CASE ApplyBegins(p)
            BY <3>1 DEF ApplyBegins, Idle
        <3>2. CASE RollbackBegins(p)
            BY <3>2 DEF RollbackBegins, Idle
        <3> QED
            BY <3>1, <3>2
    <2>3. ~ApplyBegins(p) => applied # <<>> /\ Last(applied) = p
        BY DEF RollbackBegins
    <2> QED
        BY <2>1, <2>2, <2>3
<1>2. FlowTypes /\ Linked /\ Ordered
    BY <1>1 DEF FlowInv, OrderInv, LinkInv, Ordered
<1>3. PICK ends \in [0..Len(applied) -> Nat] : OrderedBy(ends)
    BY <1>2 DEF Ordered
<1>4. PhasesEnd(ends) /\ Len(order) = ends[Len(applied)]
    BY <1>1, <1>3 DEF OrderedBy
<1>5. Len(Phase(p)) \in Nat /\ Len(applied) \in Nat /\ Len(order) \in Nat
    BY <1>2, <1>4, PhaseIs, EndsAre
<1>6. PhasesEnd(ends)'
    BY <1>1, <1>4 DEF PhasesEnd
<1>7. work'.kind = "rollback" => Len(order) = ends[Len(applied) - 1] + Len(Phase(p))
    <2>1. work'.kind = "rollback" => Len(applied) \in 1..Len(applied) /\ Last(applied) = applied[Len(applied)]
        BY <1>1, <1>5 DEF Last
    <2> QED
        BY <1>1, <1>2, <1>4, <2>1, EndsAre
<1>8. work'.kind = "apply" => Len(order) = ends[Len(applied)] + Len(Phase(p)) - Len(work'.todo)
    BY <1>1, <1>4, <1>5
<1>9. OrderedBy(ends)'
    BY <1>1, <1>4, <1>5, <1>6, <1>7, <1>8 DEF OrderedBy
<1>10. ends \in [0..Len(applied') -> Nat] /\ ~crossed'
    BY <1>1, <1>2 DEF Ordered
<1> QED
    BY <1>9, <1>10 DEF Ordered

LEMMA OrderApplies ==
    ASSUME FlowInv, LinkInv, OrderInv, NEW u \in Targets, NEW saved \in BOOLEAN, NEW failed \in BOOLEAN,
           Applies(Head(work.todo), u, saved, failed), ~messy'
    PROVE  Ordered'
<1> DEFINE f == Head(work.todo)
           e == [of |-> f, nr |-> Len(folders[f]) + 1, before |-> target]
           p == work.phase
           l == Len(Phase(p))
           m == Len(work.todo)
           k == Len(applied)
           o == Len(order)
<1>1. work.kind = "apply" /\ ~failed /\ saved /\ ~messy /\ ~work.failed /\ crossed' = crossed
    BY DEF Applies, CountsApply, FlowInv, FailedIsMessy
<1>2. FlowTypes /\ StepsLeft /\ Linked /\ Ordered
    BY <1>1 DEF FlowInv, OrderInv, LinkInv, Ordered
<1>3. PICK ends \in [0..Len(applied) -> Nat] : OrderedBy(ends)
    BY <1>2 DEF Ordered
<1>4. /\ PhasesEnd(ends) /\ o = ends[k] + l - m
      /\ \A j \in 1..o : j > ends[k] => order[j].of = Phase(p)[j - ends[k]]
    BY <1>1, <1>3 DEF OrderedBy
<1>5. /\ m <= l /\ l \in Nat \ {0} /\ m \in Nat \ {0} /\ p \in PhaseNames /\ f \in Folders
      /\ f = Phase(p)[l - m + 1]
    BY <1>1, <1>2, LeftIs, TodoIs
<1>6. k \in Nat /\ o \in Nat /\ ends[k] \in Nat /\ ends[k] <= o
    <2>1. k \in Nat /\ o \in Nat /\ \A n \in 0..k : ends[n] \in Nat
        BY <1>2, <1>4, EndsAre
    <2>2. ends[k] \in Nat
        BY <2>1
    <2> HIDE DEF f, e, p, l, m, k, o
    <2> QED
        BY <1>4, <1>5, <2>1, <2>2
<1>7. /\ order' \in Seq(Entry) /\ Len(order') = o + 1
      /\ \A j \in 1..o : order'[j] = order[j]
      /\ order'[o + 1].of = f
    <2>1. folders[f] \in Seq(Saved(f)) /\ target \in Targets /\ order \in Seq(Entry)
        BY <1>2, <1>5 DEF FlowTypes, Linked, Entry
    <2>2. e \in Entry /\ e.of = f
        BY <1>5, <2>1 DEF Entry
    <2>3. order' = Append(order, e)
        BY <1>1 DEF Applies, Saves
    <2> HIDE DEF e, f
    <2> QED
        BY <2>1, <2>2, <2>3, AppendIs
<1>8. /\ work'.kind = "none" /\ m = 1 /\ applied' = Append(applied, p)
      \/ /\ m > 1 /\ work'.kind = "apply" /\ work'.phase = p /\ Len(work'.todo) = m - 1 /\ applied' = applied
    <2>1. StepEnds(failed)
        BY DEF Applies
    <2>2. \/ work' = NoWork /\ m = 1
          \/ /\ m > 1 /\ work'.kind = "apply" /\ work'.phase = p /\ work'.todo = Tail(work.todo)
        BY <1>1, <1>2, <2>1, EndIs
    <2>3. IF Tail(work.todo) # <<>> THEN applied' = applied ELSE applied' = Append(applied, p)
        BY <1>1 DEF Applies, CountsApply
    <2>4. NoWork.kind = "none" /\ (Tail(work.todo) = <<>> <=> m = 1) /\ Len(Tail(work.todo)) = m - 1
        BY <1>1, <1>2, TodoIs DEF NoWork
    <2>5. work'.todo = Tail(work.todo) => Len(work'.todo) = m - 1
        BY <2>4
    <2>6. m = 1 => ~(m > 1)
        BY <1>5
    <2> HIDE DEF f, e, p, l, m, k, o
    <2> QED
        BY <2>2, <2>3, <2>4, <2>5, <2>6
<1>9. \A n \in 1..k : ends[n] <= o /\ ends[n-1] <= o /\ ends[n] \in Nat /\ ends[n-1] \in Nat
    <2> TAKE n \in 1..k
    <2>1. /\ n - 1 \in 0..k /\ n \in 0..k /\ ends[n-1] <= o
          /\ n # k => ends[n] <= o
        BY <1>2, <1>4, EndsAre
    <2> QED
        BY <1>6, <2>1
<1>10. ASSUME NEW n \in 1..k, NEW j \in 1..(o + 1), ends[n-1] < j, j <= ends[n]
       PROVE  order'[j].of = Phase(applied[n])[j - ends[n-1]]
    <2>1. j \in 1..o
        BY <1>6, <1>9, <1>10
    <2> QED
        BY <1>4, <1>7, <1>10, <2>1 DEF PhasesEnd
<1>11. ASSUME NEW j \in 1..(o + 1), j > ends[k]
       PROVE  order'[j].of = Phase(p)[j - ends[k]]
    <2> HIDE DEF f, e, p, l, m, k, o
    <2>1. CASE j = o + 1
        <3>1. o + 1 - ends[k] = l - m + 1
            BY <1>4, <1>5, <1>6
        <3>2. Phase(p)[j - ends[k]] = f
            BY <1>4, <1>5, <1>6, <2>1, <3>1
        <3> QED
            BY <1>7, <2>1, <3>2
    <2>2. CASE j \in 1..o
        BY <1>4, <1>7, <1>11, <2>2
    <2> QED
        BY <1>6, <2>1, <2>2
<1> HIDE DEF f, e, p, l, m, k, o
<1>12. CASE m > 1
    <2>1. work'.kind = "apply" /\ work'.phase = p /\ Len(work'.todo) = m - 1 /\ applied' = applied
        BY <1>5, <1>8, <1>12
    <2>2. PhasesEnd(ends)'
        <3>1. ends[0] = 0 /\ \A n \in 1..k : ends[n] = ends[n-1] + Len(Phase(applied[n]))
            BY <1>4 DEF PhasesEnd, k
        <3>2. \A n \in 1..k : ends[n-1] <= o + 1
            BY <1>6, <1>9
        <3> QED
            BY <1>7, <1>10, <2>1, <3>1, <3>2 DEF PhasesEnd, k
    <2>3. o + 1 = ends[k] + l - (m - 1)
        BY <1>4, <1>5, <1>6
    <2>4. OrderedBy(ends)'
        BY <1>7, <1>11, <2>1, <2>2, <2>3 DEF OrderedBy, k, l
    <2>5. ends \in [0..Len(applied') -> Nat] /\ ~crossed'
        BY <1>1, <1>2, <2>1 DEF Ordered
    <2> QED
        BY <2>4, <2>5 DEF Ordered
<1>13. CASE m = 1
    <2> DEFINE es == [n \in 0..(k + 1) |-> IF n = k + 1 THEN o + 1 ELSE ends[n]]
    <2>1. work'.kind = "none" /\ applied' = Append(applied, p)
        BY <1>5, <1>8, <1>13
    <2>2. /\ Len(applied') = k + 1 /\ applied'[k + 1] = p
          /\ \A n \in 1..k : applied'[n] = applied[n]
        <3>1. applied \in Seq(PhaseNames)
            BY <1>2 DEF FlowTypes
        <3> QED
            BY <1>5, <2>1, <3>1, AppendIs DEF k
    <2>3. o + 1 = ends[k] + l
        BY <1>4, <1>5, <1>6, <1>13
    <2>4. PICK ends2 \in [0..(k + 1) -> Nat] :
             /\ ends2[0] = 0 /\ ends2[k + 1] = o + 1 /\ ends2[k] = ends[k]
             /\ \A n \in 1..k : ends2[n] = ends[n] /\ ends2[n-1] = ends[n-1]
        <3>1. \A n \in 0..k : ends[n] \in Nat /\ n # k + 1 /\ n \in 0..(k + 1)
            BY <1>6 DEF k
        <3>2. \A n \in 1..k : n \in 0..k /\ n - 1 \in 0..k
            BY <1>6
        <3>3. \A n \in 0..k : es[n] = ends[n]
            BY <3>1
        <3>4. 0 \in 0..k /\ k \in 0..k /\ k + 1 \in 0..(k + 1) /\ ends[0] = 0
            BY <1>4, <1>6 DEF PhasesEnd
        <3>5. \A n \in 0..(k + 1) : n = k + 1 \/ n \in 0..k
            BY <1>6
        <3>6. es \in [0..(k + 1) -> Nat]
            BY <1>6, <3>1, <3>5
        <3>7. es[k + 1] = o + 1
            BY <3>4
        <3> HIDE DEF es
        <3> QED
            BY <3>2, <3>3, <3>4, <3>6, <3>7
    <2>5. ASSUME NEW n \in 1..(k + 1)
          PROVE  /\ ends2[n] = ends2[n-1] + Len(Phase(applied'[n])) /\ ends2[n-1] <= o + 1
                 /\ \A j \in 1..(o + 1) : ends2[n-1] < j /\ j <= ends2[n] =>
                       order'[j].of = Phase(applied'[n])[j - ends2[n-1]]
        <3>1. CASE n = k + 1
            <4>1. n - 1 = k /\ ends2[n-1] = ends[k] /\ ends2[n] = o + 1 /\ applied'[n] = p
                BY <1>6, <2>2, <2>4, <3>1
            <4>2. ends[k] <= o + 1
                BY <1>6
            <4> QED
                BY <1>11, <2>3, <4>1, <4>2 DEF l
        <3>2. CASE n \in 1..k
            <4>1. ends2[n-1] = ends[n-1] /\ ends2[n] = ends[n] /\ applied'[n] = applied[n]
                BY <2>2, <2>4, <3>2
            <4>2. ends[n-1] <= o + 1
                BY <1>6, <1>9, <3>2
            <4>3. ends[n] = ends[n-1] + Len(Phase(applied[n]))
                BY <1>4, <3>2 DEF PhasesEnd, k
            <4> QED
                BY <1>10, <3>2, <4>1, <4>2, <4>3
        <3> QED
            BY <1>6, <3>1, <3>2
    <2>6. PhasesEnd(ends2)'
        <3>1. \A n \in 1..(k + 1), j \in 1..(o + 1) : ends2[n-1] < j /\ j <= ends2[n] =>
                 order'[j].of = Phase(applied'[n])[j - ends2[n-1]]
            BY <2>5
        <3> QED
            BY <1>7, <2>2, <2>4, <2>5, <3>1 DEF PhasesEnd
    <2>7. OrderedBy(ends2)'
        BY <1>7, <2>1, <2>2, <2>4, <2>6 DEF OrderedBy
    <2>8. ends2 \in [0..Len(applied') -> Nat] /\ ~crossed'
        BY <1>1, <1>2, <2>2, <2>4 DEF Ordered
    <2> QED
        BY <2>7, <2>8 DEF Ordered
<1> QED
    BY <1>5, <1>12, <1>13

\* The step of a rollback in turn finds its baseline, the newest of all.
LEMMA RollbackInTurn ==
    ASSUME FlowInv, LinkInv, OrderInv, work.kind = "rollback", ~messy
    PROVE  folders[Head(work.todo)] # <<>> /\ Last(order).of = Head(work.todo)
<1> DEFINE f == Head(work.todo)
           m == Len(work.todo)
           k == Len(applied)
           o == Len(order)
<1>1. FlowTypes /\ StepsLeft /\ Linked /\ Ordered
    BY DEF FlowInv, OrderInv, LinkInv, Ordered
<1>2. PICK ends \in [0..Len(applied) -> Nat] : OrderedBy(ends)
    BY <1>1 DEF Ordered
<1>3. PhasesEnd(ends) /\ applied # <<>> /\ work.phase = Last(applied) /\ o = ends[k - 1] + m
    BY <1>2 DEF OrderedBy
<1>4. m <= Len(Phase(work.phase)) /\ m \in Nat \ {0} /\ f \in Folders /\ f = Phase(work.phase)[m]
    BY <1>1, LeftIs, TodoIs
<1>5. k \in 1..k /\ Last(applied) = applied[k]
    <2>1. applied \in Seq(PhaseNames)
        BY <1>1 DEF FlowTypes
    <2> QED
        BY <1>3, <2>1 DEF Last
<1>6. ends[k-1] \in Nat /\ ends[k] = ends[k-1] + Len(Phase(applied[k])) /\ o \in Nat /\ Len(Phase(applied[k])) \in Nat
    BY <1>1, <1>3, <1>5, EndsAre
<1>7. o \in 1..o /\ ends[k-1] < o /\ o <= ends[k] /\ o - ends[k-1] = m
    <2>1. Len(Phase(applied[k])) = Len(Phase(work.phase))
        BY <1>3, <1>5
    <2> HIDE DEF f, m, k, o
    <2> QED
        BY <1>3, <1>4, <1>6, <2>1
<1>8. order[o].of = Phase(applied[k])[o - ends[k-1]]
    BY <1>3, <1>5, <1>7 DEF PhasesEnd
<1>9. order[o].of = f /\ Last(order) = order[o]
    <2>1. Last(order) = order[o]
        BY DEF Last
    <2> HIDE DEF f, m, k, o
    <2> QED
        BY <1>3, <1>4, <1>5, <1>7, <1>8, <2>1
<1>10. folders[f] # <<>>
    <2>1. order[o].nr \in 1..Len(folders[order[o].of])
        BY <1>1, <1>7 DEF Linked
    <2> QED
        BY <1>9, <2>1
<1> QED
    BY <1>9, <1>10

LEMMA OrderRollback ==
    ASSUME FlowInv, LinkInv, OrderInv, NEW u \in Targets, NEW refused \in BOOLEAN,
           Unapplies(Head(work.todo), u, TRUE, refused), ~messy'
    PROVE  Ordered'
<1> DEFINE p == work.phase
           m == Len(work.todo)
           k == Len(applied)
           o == Len(order)
<1>1. /\ work.kind = "rollback" /\ ~messy /\ order' = Front(order)
      /\ applied' = IF Tail(work.todo) = <<>> THEN Front(applied) ELSE applied
    BY DEF Unapplies, CountsRollback
<1>2. FlowTypes /\ StepsLeft /\ Linked /\ Ordered
    BY <1>1 DEF FlowInv, OrderInv, LinkInv, Ordered
<1>3. ~crossed'
    BY <1>1, <1>2, RollbackInTurn DEF Unapplies, Ordered
<1>4. PICK ends \in [0..Len(applied) -> Nat] : OrderedBy(ends)
    BY <1>2 DEF Ordered
<1>5. PhasesEnd(ends) /\ applied # <<>> /\ p = Last(applied) /\ o = ends[k - 1] + m
    BY <1>1, <1>4 DEF OrderedBy
<1>6. m \in Nat \ {0} /\ k \in Nat \ {0} /\ o \in Nat \ {0} /\ applied \in Seq(PhaseNames)
    <2>1. applied \in Seq(PhaseNames)
        BY <1>2 DEF FlowTypes
    <2>2. m \in Nat \ {0} /\ k \in Nat \ {0} /\ o \in Nat
        BY <1>1, <1>2, <1>5, <2>1, TodoIs, FrontIs, EndsAre
    <2>3. ends[k-1] \in Nat
        BY <1>2, <1>5, <2>2, EndsAre
    <2> HIDE DEF p, m, k, o
    <2> QED
        BY <1>5, <2>1, <2>2, <2>3
<1>7. Len(order') = o - 1 /\ \A j \in 1..(o - 1) : order'[j] = order[j]
    <2>1. order \in Seq(Entry) /\ order # <<>>
        BY <1>2, <1>6 DEF Linked, Entry
    <2> QED
        BY <1>1, <2>1, FrontIs
<1>8. \/ m = 1 /\ work'.kind = "none" /\ applied' = Front(applied)
      \/ m > 1 /\ work'.kind = "rollback" /\ work'.phase = p /\ Len(work'.todo) = m - 1 /\ applied' = applied
    <2>1. StepEnds(FALSE)
        BY DEF Unapplies
    <2>2. \/ work' = NoWork /\ m = 1
          \/ m > 1 /\ work'.kind = "rollback" /\ work'.phase = p /\ work'.todo = Tail(work.todo)
        BY <1>1, <1>2, <2>1, EndIs
    <2>3. NoWork.kind = "none" /\ (Tail(work.todo) = <<>> <=> m = 1) /\ Len(Tail(work.todo)) = m - 1
        BY <1>1, <1>2, TodoIs DEF NoWork
    <2>4. work'.todo = Tail(work.todo) => Len(work'.todo) = m - 1
        BY <2>3
    <2>5. m = 1 => ~(m > 1)
        BY <1>6
    <2> HIDE DEF p, m, k, o
    <2> QED
        BY <1>1, <2>2, <2>3, <2>4, <2>5
<1>9. \A n \in 1..k : /\ ends[n] = ends[n-1] + Len(Phase(applied[n])) /\ ends[n-1] \in Nat /\ ends[n] \in Nat
                      /\ n # k => ends[n] <= o /\ ends[n-1] <= o - 1
    <2> TAKE n \in 1..k
    <2>1. /\ n - 1 \in 0..k /\ n \in 0..k /\ ends[n] = ends[n-1] + Len(Phase(applied[n]))
          /\ n # k => ends[n] <= o /\ ends[n-1] < o
        BY <1>2, <1>5, EndsAre
    <2>2. ends[n-1] \in Nat /\ ends[n] \in Nat
        BY <2>1
    <2> HIDE DEF p, m, k, o
    <2> QED
        BY <1>6, <2>1, <2>2
<1>10. ASSUME NEW n \in 1..k, NEW j \in 1..(o - 1), ends[n-1] < j, j <= ends[n]
       PROVE  order'[j].of = Phase(applied[n])[j - ends[n-1]]
    <2>1. j \in 1..o
        BY <1>6
    <2> QED
        BY <1>5, <1>7, <1>10, <2>1 DEF PhasesEnd
<1> HIDE DEF p, m, k, o
<1>11. CASE m > 1
    <2>1. work'.kind = "rollback" /\ work'.phase = p /\ Len(work'.todo) = m - 1 /\ applied' = applied
        BY <1>6, <1>8, <1>11
    <2>2. o - 1 = ends[k - 1] + (m - 1) /\ \A n \in 1..k : ends[n-1] <= o - 1
        <3>1. k \in 1..k
            BY <1>6
        <3>2. ends[k-1] \in Nat
            BY <1>9, <3>1
        <3>3. ends[k-1] <= o - 1 /\ o - 1 = ends[k - 1] + (m - 1)
            BY <1>5, <1>6, <1>11, <3>2
        <3> QED
            BY <1>9, <3>3
    <2>3. PhasesEnd(ends)'
        <3>1. \A n \in 1..k, j \in 1..(o - 1) : ends[n-1] < j /\ j <= ends[n] =>
                 order'[j].of = Phase(applied[n])[j - ends[n-1]]
            BY <1>10
        <3>2. ends[0] = 0
            BY <1>5 DEF PhasesEnd
        <3> QED
            BY <1>7, <1>9, <2>1, <2>2, <3>1, <3>2 DEF PhasesEnd, k
    <2>4. OrderedBy(ends)'
        BY <1>5, <1>7, <2>1, <2>2, <2>3 DEF OrderedBy, k, p
    <2>5. ends \in [0..Len(applied') -> Nat]
        BY <2>1
    <2> QED
        BY <1>3, <2>4, <2>5 DEF Ordered
<1>12. CASE m = 1
    <2>1. /\ work'.kind = "none" /\ Len(applied') = k - 1
          /\ \A n \in 1..(k - 1) : applied'[n] = applied[n]
        <3>1. work'.kind = "none" /\ applied' = Front(applied)
            BY <1>6, <1>8, <1>12
        <3>2. /\ Len(Front(applied)) = Len(applied) - 1
              /\ \A n \in 1..(Len(applied) - 1) : Front(applied)[n] = applied[n]
            BY <1>5, <1>6, FrontIs
        <3> QED
            BY <3>1, <3>2 DEF k
    <2>2. PICK ends2 \in [0..(k - 1) -> Nat] : \A n \in 0..(k - 1) : ends2[n] = ends[n]
        <3>1. \A n \in 0..(k - 1) : ends[n] \in Nat
            BY <1>6 DEF k
        <3>2. [n \in 0..(k - 1) |-> ends[n]] \in [0..(k - 1) -> Nat]
            BY <3>1
        <3> QED
            BY <3>2
    <2>3. 0 \in 0..(k - 1) /\ k - 1 \in 0..(k - 1) /\ \A n \in 1..(k - 1) : n \in 0..(k - 1) /\ n - 1 \in 0..(k - 1) /\ n \in 1..k /\ n # k
        BY <1>6
    <2>4. ends2[0] = 0 /\ o - 1 = ends2[k - 1]
        <3>1. ends[0] = 0
            BY <1>5 DEF PhasesEnd
        <3>2. k \in 1..k /\ o = ends[k - 1] + 1
            BY <1>5, <1>6, <1>12
        <3>3. ends[k - 1] \in Nat
            BY <1>9, <3>2
        <3> QED
            BY <2>2, <2>3, <3>1, <3>2, <3>3
    <2>5. \A n \in 1..(k - 1) : /\ ends2[n] = ends2[n-1] + Len(Phase(applied'[n])) /\ ends2[n-1] <= o - 1
                                /\ ends2[n] = ends[n] /\ ends2[n-1] = ends[n-1]
        BY <1>9, <2>1, <2>2, <2>3
    <2>6. PhasesEnd(ends2)'
        <3>1. \A n \in 1..(k - 1), j \in 1..(o - 1) : ends2[n-1] < j /\ j <= ends2[n] =>
                 order'[j].of = Phase(applied'[n])[j - ends2[n-1]]
            <4> SUFFICES ASSUME NEW n \in 1..(k - 1), NEW j \in 1..(o - 1), ends2[n-1] < j, j <= ends2[n]
                         PROVE  order'[j].of = Phase(applied'[n])[j - ends2[n-1]]
                OBVIOUS
            <4>1. n \in 1..k /\ ends[n-1] < j /\ j <= ends[n]
                BY <2>3, <2>5
            <4>2. order'[j].of = Phase(applied[n])[j - ends[n-1]]
                BY <1>10, <4>1
            <4> QED
                BY <2>1, <2>5, <4>2
        <3> QED
            BY <1>7, <2>1, <2>4, <2>5, <3>1 DEF PhasesEnd
    <2>7. OrderedBy(ends2)'
        BY <1>7, <2>1, <2>4, <2>6 DEF OrderedBy
    <2>8. ends2 \in [0..Len(applied') -> Nat]
        BY <2>1
    <2> QED
        BY <1>3, <2>7, <2>8 DEF Ordered
<1> QED
    BY <1>6, <1>11, <1>12

LEMMA OrderSame ==
    ASSUME Ordered, ~crossed', UNCHANGED <<order, applied, work>> PROVE Ordered'
<1>1. PICK ends \in [0..Len(applied) -> Nat] : OrderedBy(ends)
    BY DEF Ordered
<1>2. OrderedBy(ends)'
    BY <1>1 DEF OrderedBy, PhasesEnd
<1> QED
    BY <1>1, <1>2 DEF Ordered

LEMMA OrderInvNext == ASSUME FlowInv, LinkInv, OrderInv, [FlowNext]_flowVars PROVE OrderInv'
<1> SUFFICES ASSUME ~messy' PROVE Ordered'
    BY DEF OrderInv
<1>0. FlowTypes /\ StepsLeft
    BY DEF FlowInv
<1>1. CASE UNCHANGED flowVars \/ SourceEdited
    BY <1>1, OrderSame DEF OrderInv, flowVars, SourceEdited, Ordered
<1>2. CASE Prepares
    <2>1. ~messy /\ UNCHANGED <<order, applied, work>> /\ crossed' = crossed
        <3>1. ASSUME NEW class \in Cloned, NEW answers \in BOOLEAN, Exports(class, answers)
              PROVE  ~messy /\ UNCHANGED <<order, applied, work>> /\ crossed' = crossed
            <4>1. ~messy /\ folders[class] = <<>>
                BY <3>1 DEF Exports
            <4>2. crossed \in BOOLEAN /\ crossed' = (crossed \/ folders[class] # <<>>)
                BY <1>0, <3>1 DEF Exports, FlowTypes
            <4> QED
                BY <3>1, <4>1, <4>2 DEF Exports
        <3>2. CASE \E missing \in SUBSET Cloned, ok, meanwhile, dies \in BOOLEAN : Captures(missing, ok, meanwhile, dies)
            BY <3>2 DEF Captures
        <3>3. CASE CapturesElsewhere
            BY <3>3 DEF CapturesElsewhere
        <3>4. CASE \E leftOut \in SUBSET TaggedGroups, dies \in BOOLEAN : BuildsC(leftOut, dies) \/ BuildsD(leftOut, dies)
            BY <3>4 DEF BuildsC, BuildsD, Builds
        <3> QED
            BY <1>2, <3>1, <3>2, <3>3, <3>4 DEF Prepares
    <2> QED
        BY <2>1, OrderSame DEF OrderInv, Ordered
<1>3. (\E p \in PhaseNames : ApplyBegins(p) \/ RollbackBegins(p)) => Ordered'
    BY OrderBegins
<1>4. (\E u \in Targets, saved, failed \in BOOLEAN : Applies(Head(work.todo), u, saved, failed)) => Ordered'
    BY OrderApplies
<1>5. ~NothingToRevert(Head(work.todo))
    BY DEF NothingToRevert, CountsRollback
<1>6. ASSUME NEW u \in Targets, NEW well \in BOOLEAN, NEW refused \in BOOLEAN,
             Unapplies(Head(work.todo), u, well, refused)
      PROVE  Ordered'
    <2>1. well = TRUE
        BY <1>6 DEF Unapplies, CountsRollback
    <2> QED
        BY <1>6, <2>1, OrderRollback
<1> QED
    BY <1>0, <1>1, <1>2, <1>3, <1>4, <1>5, <1>6, FlowStepIs

LEMMA OrderInvInit == ASSUME FlowInit PROVE OrderInv
<1>1. applied = <<>> /\ order = <<>> /\ ~crossed /\ Len(applied) = 0 /\ Len(order) = 0 /\ work.kind = "none"
    BY DEF FlowInit, NoWork
<1>2. PICK ends \in [0..0 -> Nat] : ends[0] = 0
    <2>1. [n \in 0..0 |-> 0] \in [0..0 -> Nat] /\ [n \in 0..0 |-> 0][0] = 0
        OBVIOUS
    <2> QED
        BY <2>1
<1>3. OrderedBy(ends)
    BY <1>1, <1>2 DEF OrderedBy, PhasesEnd
<1> QED
    BY <1>1, <1>2, <1>3 DEF OrderInv, Ordered

LEMMA NeverStuck == ASSUME FlowInv, LinkInv, OrderInv, ~stuck, [FlowNext]_flowVars PROVE ~stuck'
<1>0. FlowTypes /\ StepsLeft
    BY DEF FlowInv
<1>1. CASE UNCHANGED flowVars \/ SourceEdited \/ Prepares \/ \E p \in PhaseNames : ApplyBegins(p) \/ RollbackBegins(p)
    BY <1>1 DEF flowVars, SourceEdited, ApplyBegins, RollbackBegins, Prepares, Captures, CapturesElsewhere, Exports,
                BuildsC, BuildsD, Builds
<1>2. ASSUME NEW u \in Targets, NEW saved \in BOOLEAN, NEW failed \in BOOLEAN,
             Applies(Head(work.todo), u, saved, failed)
      PROVE  ~stuck'
    BY <1>2 DEF Applies
<1>3. ASSUME NothingToRevert(Head(work.todo)) PROVE ~stuck'
    <2>1. messy
        BY <1>3, RollbackInTurn DEF NothingToRevert
    <2> QED
        BY <1>3, <2>1 DEF NothingToRevert, CountsRollback
<1>4. ASSUME NEW u \in Targets, NEW well \in BOOLEAN, NEW refused \in BOOLEAN,
             Unapplies(Head(work.todo), u, well, refused)
      PROVE  ~stuck'
    <2>1. CASE messy \/ well \/ refused
        BY <1>4, <2>1 DEF Unapplies, CountsRollback
    <2>2. CASE ~messy
        <3>1. ~crossed'
            BY <1>4, <2>2, RollbackInTurn DEF Unapplies, OrderInv, Ordered
        <3>2. well \/ refused
            BY <1>4, <3>1, RollbackReturns
        <3> QED
            BY <2>1, <3>2
    <2> QED
        BY <2>1, <2>2
<1> QED
    BY <1>0, <1>1, <1>2, <1>3, <1>4, FlowStepIs

UndoInv == FlowInv /\ LinkInv /\ OrderInv /\ ~stuck

LEMMA UndoInvUndoes == ASSUME UndoInv PROVE PhasesUndo
<1>1. ~messy /\ applied = <<>> /\ Idle => target = initial
    <2> SUFFICES ASSUME ~messy, applied = <<>>, Idle PROVE target = initial
        OBVIOUS
    <2>1. Linked /\ Ordered
        BY DEF UndoInv, LinkInv, OrderInv, Ordered
    <2>2. PICK ends \in [0..Len(applied) -> Nat] : OrderedBy(ends)
        BY <2>1 DEF Ordered
    <2>3. Len(applied) = 0 /\ ends[0] = 0
        BY <2>2 DEF OrderedBy, PhasesEnd
    <2>4. Len(order) = 0
        BY <2>2, <2>3 DEF OrderedBy, Idle
    <2>5. order = <<>>
        BY <2>1, <2>4 DEF Linked
    <2> QED
        BY <2>1, <2>5 DEF Linked
<1>2. Idle /\ order = <<>> /\ ~crossed => target = initial
    BY DEF UndoInv, LinkInv, Linked
<1> QED
    BY <1>1, <1>2 DEF PhasesUndo, UndoInv

\* Phases rolled back in the opposite order never fail to, and leave the target
\* as it was; so does using every baseline while it is the newest of all.
THEOREM PhasesAreUndone == FlowSpec => []PhasesUndo
<1>1. FlowInit => UndoInv
    <2>1. FlowInit => ~stuck
        BY DEF FlowInit
    <2> QED
        BY <2>1, FlowInvInit, LinkInvInit, OrderInvInit DEF UndoInv
<1>2. UndoInv /\ [FlowNext]_flowVars => UndoInv'
    BY FlowInvNext, LinkInvNext, OrderInvNext, NeverStuck DEF UndoInv
<1>3. UndoInv => PhasesUndo
    BY UndoInvUndoes
<1> QED
    BY <1>1, <1>2, <1>3, PTL DEF FlowSpec

-----------------------------------------------------------------------------
(* What was applied is what was captured.                                   *)

LEMMA SoundInvInit == ASSUME FlowInit PROVE SoundInv
<1>1. /\ ~capture.ok /\ bundle.of = {} /\ folders["siblings"] = <<>> /\ Len(folders["siblings"]) = 0
    BY DEF FlowInit, NoCapture, NoBundle, Folders
<1>2. \A k \in Siblings : target.siblings[k] = {}
    <2>1. Nothing \in Targets /\ \A k \in Siblings : Nothing.siblings[k] = {}
        BY DEF Nothing, Targets
    <2>2. \A t \in Targets : \A v \in SUBSET Nat :
             [t EXCEPT !.services = v, !.groups = v, !.policies = v, !.rules = v].siblings = t.siblings
        BY DEF Targets
    <2>3. Own \in SUBSET Nat
        BY DEF Own
    <2>4. [Nothing EXCEPT !.services = Own, !.groups = Own, !.policies = Own, !.rules = Own].siblings = Nothing.siblings
        BY <2>1, <2>2, <2>3
    <2>5. target.siblings = Nothing.siblings
        BY <2>4 DEF FlowInit
    <2> QED
        BY <2>1, <2>5
<1>3. \A g \in TaggedGroups : <<"c", g>> \in Siblings
    BY DEF Siblings, Apps
<1> QED
    BY <1>1, <1>2, <1>3 DEF SoundInv

LEMMA SoundInvNext == ASSUME FlowInv, SoundInv, [FlowNext]_flowVars PROVE SoundInv'
<1>0. FlowTypes /\ StepsLeft /\ "siblings" \in Folders /\ \A g \in TaggedGroups : <<"c", g>> \in Siblings
    BY DEF FlowInv, Folders, Siblings, Apps
<1>1. CASE UNCHANGED flowVars \/ SourceEdited \/ (\E p \in PhaseNames : ApplyBegins(p) \/ RollbackBegins(p))
           \/ NothingToRevert(Head(work.todo))
    BY <1>1 DEF flowVars, sourceVars, SourceEdited, ApplyBegins, RollbackBegins, NothingToRevert, SoundInv
<1>2. CASE Prepares
    <2>1. ASSUME NEW class \in Cloned, NEW answers \in BOOLEAN, Exports(class, answers)
          PROVE  SoundInv'
        <3>1. folders'["siblings"] = folders["siblings"]
            <4>1. class # "siblings"
                BY DEF Cloned
            <4> QED
                BY <1>0, <2>1, <4>1 DEF Exports, FlowTypes
        <3> QED
            BY <2>1, <3>1 DEF Exports, SoundInv
    <2>2. ASSUME NEW missing \in SUBSET Cloned, NEW ok \in BOOLEAN, NEW meanwhile \in BOOLEAN, NEW dies \in BOOLEAN,
                 Captures(missing, ok, meanwhile, dies)
          PROVE  SoundInv'
        <3>1. sound \subseteq sound' /\ (capture'.ok => capture'.addresses \subseteq sound')
            BY <2>2 DEF Captures, Manifest, NoCapture
        <3>2. bundle' = bundle /\ target' = target /\ folders' = folders
            BY <2>2 DEF Captures
        <3> QED
            BY <3>1, <3>2 DEF SoundInv
    <2>3. CapturesElsewhere => SoundInv'
        BY DEF CapturesElsewhere, SoundInv
    <2>4. ASSUME NEW leftOut \in SUBSET TaggedGroups, NEW dies \in BOOLEAN, BuildsC(leftOut, dies) \/ BuildsD(leftOut, dies)
          PROVE  SoundInv'
        <3>1. sound' = sound /\ capture' = capture /\ target' = target /\ folders' = folders
            BY <1>0, <2>4 DEF BuildsC, BuildsD, Builds, sourceVars, KeptOnRebuild, FlowTypes
        <3>2. bundle'.app = "c" => bundle'.of \subseteq sound
            BY <2>4 DEF BuildsC, BuildsD, Builds, NoBundle, SoundInv, GatePasses
        <3> QED
            BY <3>1, <3>2 DEF SoundInv
    <2> QED
        BY <1>2, <2>1, <2>2, <2>3, <2>4 DEF Prepares
<1>3. ASSUME NEW u \in Targets, NEW saved \in BOOLEAN, NEW failed \in BOOLEAN,
             Applies(Head(work.todo), u, saved, failed)
      PROVE  SoundInv'
    <2> DEFINE f == Head(work.todo)
    <2>1. f \in Folders /\ target \in Targets /\ sound' = sound /\ capture' = capture /\ bundle' = bundle
          /\ target' \in {target, Pushed(f, target)}
        BY <1>0, <1>3 DEF Applies, FlowTypes, sourceVars
    <2>2. \A g \in TaggedGroups : target'.siblings[<<"c", g>>] \subseteq sound
        <3> TAKE g \in TaggedGroups
        <3>1. target.siblings[<<"c", g>>] \subseteq sound
            BY DEF SoundInv
        <3>2. <<"c", g>> \in SiblingKeys => bundle.of \subseteq sound
            BY DEF SiblingKeys, SoundInv
        <3>3. Pushed(f, target).siblings[<<"c", g>>] =
                 IF f = "siblings" /\ <<"c", g>> \in SiblingKeys THEN target.siblings[<<"c", g>>] \cup bundle.of
                 ELSE target.siblings[<<"c", g>>]
            BY <1>0, <2>1, PushedIs
        <3> QED
            BY <2>1, <3>1, <3>2, <3>3
    <2>3. \A g \in TaggedGroups : \A i \in 1..Len(folders'["siblings"]) :
             folders'["siblings"][i].was[<<"c", g>>] \subseteq sound
        <3>1. CASE ~saved \/ f # "siblings"
            <4>1. folders'["siblings"] = folders["siblings"]
                BY <1>0, <1>3, <2>1, <3>1 DEF Applies, Saves, FlowTypes
            <4> QED
                BY <4>1 DEF SoundInv
        <3>2. CASE saved /\ f = "siblings"
            <4> DEFINE b == [was |-> Was(f, target), wrote |-> Wrote(f, target, u)]
                       s == folders["siblings"]
            <4>1. folders'["siblings"] = Append(s, b)
                BY <1>0, <1>3, <3>2 DEF Applies, Saves, FlowTypes
            <4>2. b.was = target.siblings
                BY <3>2 DEF Was
            <4>3. s \in Seq(Saved("siblings")) /\ b \in Saved("siblings")
                <5>1. Was(f, target) \in Says("siblings") /\ Wrote(f, target, u) \in SUBSET Siblings
                    BY <2>1, <3>2, WasType DEF Wrote
                <5> QED
                    BY <1>0, <5>1 DEF Saved, FlowTypes
            <4> HIDE DEF b, s
            <4>4. /\ Len(Append(s, b)) = Len(s) + 1 /\ Len(s) \in Nat
                  /\ \A i \in 1..Len(s) : Append(s, b)[i] = s[i]
                  /\ Append(s, b)[Len(s) + 1] = b
                BY <4>3, AppendIs
            <4>5. \A i \in 1..(Len(s) + 1) : i \in 1..Len(s) \/ i = Len(s) + 1
                BY <4>4
            <4> QED
                BY <4>1, <4>2, <4>4, <4>5 DEF SoundInv, s
        <3> QED
            BY <3>1, <3>2
    <2> QED
        BY <2>1, <2>2, <2>3 DEF SoundInv
<1>4. ASSUME NEW u \in Targets, NEW well \in BOOLEAN, NEW refused \in BOOLEAN,
             Unapplies(Head(work.todo), u, well, refused)
      PROVE  SoundInv'
    <2> DEFINE f == Head(work.todo)
    <2>1. /\ f \in Folders /\ target \in Targets /\ sound' = sound /\ capture' = capture /\ bundle' = bundle
          /\ folders[f] # <<>> /\ folders[f] \in Seq(Saved(f)) /\ Last(folders[f]) \in Saved(f)
          /\ target' \in {target, Reverted(f, Last(folders[f]), target)}
        BY <1>0, <1>4 DEF Unapplies, FlowTypes, sourceVars
    <2>2. f = "siblings" => \A g \in TaggedGroups : Last(folders[f]).was[<<"c", g>>] \subseteq sound
        <3>1. Len(folders[f]) \in 1..Len(folders[f]) /\ Last(folders[f]) = folders[f][Len(folders[f])]
            BY <2>1 DEF Last
        <3> HIDE DEF f
        <3> QED
            BY <3>1 DEF SoundInv
    <2>3. \A g \in TaggedGroups : target'.siblings[<<"c", g>>] \subseteq sound
        <3> TAKE g \in TaggedGroups
        <3>1. target.siblings[<<"c", g>>] \subseteq sound
            BY DEF SoundInv
        <3>2. \/ Reverted(f, Last(folders[f]), target).siblings[<<"c", g>>] = target.siblings[<<"c", g>>]
              \/ f = "siblings" /\ Reverted(f, Last(folders[f]), target).siblings[<<"c", g>>] = Last(folders[f]).was[<<"c", g>>]
            BY <1>0, <2>1, RevertedIs
        <3> QED
            BY <2>1, <2>2, <3>1, <3>2
    <2>4. \A g \in TaggedGroups : \A i \in 1..Len(folders'["siblings"]) :
             folders'["siblings"][i].was[<<"c", g>>] \subseteq sound
        <3>1. CASE folders'["siblings"] = folders["siblings"]
            BY <3>1 DEF SoundInv
        <3>2. CASE f = "siblings" /\ folders'["siblings"] = Front(folders["siblings"])
            <4>1. /\ Len(Front(folders["siblings"])) = Len(folders["siblings"]) - 1 /\ Len(folders["siblings"]) \in Nat
                  /\ \A i \in 1..(Len(folders["siblings"]) - 1) : Front(folders["siblings"])[i] = folders["siblings"][i]
                BY <2>1, <3>2, FrontIs
            <4>2. \A i \in 1..(Len(folders["siblings"]) - 1) : i \in 1..Len(folders["siblings"])
                BY <4>1
            <4> QED
                BY <3>2, <4>1, <4>2 DEF SoundInv
        <3> QED
            BY <1>0, <1>4, <3>1, <3>2 DEF Unapplies, FlowTypes
    <2> QED
        BY <2>1, <2>3, <2>4 DEF SoundInv
<1> QED
    BY <1>0, <1>1, <1>2, <1>3, <1>4, FlowStepIs

LEMMA HasAppended ==
    ASSUME FlowTypes, NEW p \in PhaseNames, fresh' = Append(fresh, p)
    PROVE  /\ \A q : Has(q)' <=> Has(q) \/ q = p
           /\ fresh' # <<>> /\ Last(fresh') = p
<1>1. fresh \in Seq(PhaseNames)
    BY DEF FlowTypes
<1>2. /\ Len(fresh') = Len(fresh) + 1 /\ Len(fresh) \in Nat
      /\ \A i \in 1..Len(fresh) : fresh'[i] = fresh[i]
      /\ fresh'[Len(fresh) + 1] = p /\ fresh' # <<>> /\ Last(fresh') = p
    BY <1>1, AppendIs
<1>3. \A i \in 1..(Len(fresh) + 1) : i = Len(fresh) + 1 \/ i \in 1..Len(fresh)
    BY <1>2
<1>4. Len(fresh) + 1 \in 1..(Len(fresh) + 1) /\ \A i \in 1..Len(fresh) : i \in 1..(Len(fresh) + 1)
    BY <1>2
<1> QED
    BY <1>2, <1>3, <1>4 DEF Has

LEMMA FreshEmpty == ASSUME fresh = <<>> PROVE \A q : ~Has(q)
<1>1. Len(fresh) = 0
    OBVIOUS
<1> QED
    BY <1>1 DEF Has

\* What a push leaves of fresh and of the run, and which steps are done.
LEMMA AppliesLeaves ==
    ASSUME FlowInv, FreshInv, NEW u \in Targets, NEW saved \in BOOLEAN, NEW failed \in BOOLEAN,
           Applies(Head(work.todo), u, saved, failed)
    PROVE  LET f == Head(work.todo) p == work.phase IN
           /\ work.kind = "apply" /\ f \in Folders /\ p \in PhaseNames
           /\ work'.kind \in {"none", "apply"}
           /\ \/ failed /\ fresh' = <<>> /\ (work'.kind = "none" \/ work'.failed)
              \/ /\ ~failed /\ work'.kind = "apply" /\ work'.failed = work.failed /\ fresh' = fresh
                 /\ f \in {"services", "groups", "policies", "siblings"}
                 /\ \A g : Did(g)' => Did(g) \/ (g = f /\ ~work.failed)
              \/ /\ ~failed /\ work'.kind = "none" /\ ~work'.failed
                 /\ f = IF p = "a" THEN "rules" ELSE IF p = "d2a" THEN "siblings" ELSE "amend"
                 /\ fresh' = IF work.failed THEN fresh ELSE Append(fresh, p)
                 /\ ~work.failed /\ p = "a" => \A c \in Cloned \ {"rules"} : Did(c)
                 /\ ~work.failed /\ p = "c" => Did("siblings")
<1> DEFINE f == Head(work.todo)
           p == work.phase
           l == Len(Phase(p))
           m == Len(work.todo)
<1>1. work.kind = "apply" /\ StepEnds(failed) /\ CountsApply(failed)
    BY DEF Applies
<1>2. FlowTypes /\ StepsLeft
    BY DEF FlowInv
<1>3. /\ m <= l /\ l \in Nat \ {0} /\ m \in Nat \ {0} /\ p \in PhaseNames /\ f \in Folders
      /\ f = Phase(p)[l - m + 1] /\ f = work.todo[1]
      /\ \A i \in 1..(m - 1) : Tail(work.todo)[i] = work.todo[i+1]
      /\ (Tail(work.todo) = <<>> <=> m = 1) /\ Len(Tail(work.todo)) = m - 1
    BY <1>1, <1>2, LeftIs, TodoIs
<1>4. /\ \/ work'.kind = "none" /\ ~work'.failed /\ (failed \/ m = 1)
         \/ /\ m > 1 /\ work'.kind = "apply" /\ work'.phase = p
            /\ work'.todo = Tail(work.todo) /\ work'.failed = (work.failed \/ failed)
    BY <1>1, <1>2, EndIs DEF NoWork
<1>5. CASE failed
    <2>1. fresh' = <<>>
        BY <1>1, <1>5 DEF CountsApply
    <2> QED
        BY <1>1, <1>3, <1>4, <1>5, <2>1
<1>6. CASE ~failed /\ m > 1
    <2>0. m # 1
        <3> HIDE DEF m
        <3> QED
            BY <1>3, <1>6
    <2>1. work'.kind = "apply" /\ work'.phase = p /\ work'.todo = Tail(work.todo) /\ work'.failed = work.failed
        <3>1. work.failed \in BOOLEAN
            BY <1>2 DEF FlowTypes, Works
        <3> HIDE DEF m
        <3> QED
            BY <1>4, <1>6, <2>0, <3>1
    <2>2. fresh' = fresh
        <3>1. Tail(work.todo) # <<>>
            BY <1>3, <2>0
        <3> QED
            BY <1>1, <1>6, <3>1 DEF CountsApply
    <2>3. f \in {"services", "groups", "policies", "siblings"}
        <3> HIDE DEF f, m
        <3>1. l >= 2
            BY <1>3, <1>6
        <3>2. CASE p = "a"
            <4>1. l = 4
                BY <3>2, PhaseIs
            <4>2. l - m + 1 \in {1, 2, 3}
                <5> HIDE DEF l
                <5> QED
                    BY <1>3, <1>6, <4>1
            <4> QED
                BY <1>3, <3>2, <4>2, PhaseIs
        <3>3. CASE p = "c"
            <4>1. l = 2
                BY <3>3, PhaseIs
            <4>2. l - m + 1 = 1
                <5> HIDE DEF l
                <5> QED
                    BY <1>3, <1>6, <4>1
            <4> QED
                BY <1>3, <3>3, <4>2, PhaseIs
        <3>4. p # "d2a" /\ p # "d3"
            <4>1. Len(Phase("d2a")) = 1 /\ Len(Phase("d3")) = 1
                BY PhaseIs
            <4>2. p = "d2a" \/ p = "d3" => l = 1
                BY <4>1
            <4> HIDE DEF l
            <4> QED
                BY <3>1, <4>2
        <3> QED
            BY <1>3, <3>2, <3>3, <3>4 DEF PhaseNames
    <2>4. ASSUME NEW g, Did(g)' PROVE Did(g) \/ (g = f /\ ~work.failed)
        <3>1. /\ ~work.failed /\ \E i \in 1..Len(Phase(p)) : Phase(p)[i] = g
              /\ \A i \in 1..(m - 1) : Tail(work.todo)[i] # g
            BY <1>3, <2>1, <2>4 DEF Did
        <3>2. g # f => \A i \in 1..m : work.todo[i] # g
            <4> SUFFICES ASSUME g # f, NEW i \in 1..m PROVE work.todo[i] # g
                OBVIOUS
            <4>1. i = 1 \/ (i - 1 \in 1..(m - 1) /\ (i - 1) + 1 = i)
                <5> HIDE DEF m
                <5> QED
                    BY <1>3
            <4> QED
                BY <1>3, <3>1, <4>1
        <3> QED
            BY <1>1, <3>1, <3>2 DEF Did
    <2> HIDE DEF f, m, l, p
    <2> QED
        BY <1>1, <1>3, <1>6, <2>1, <2>2, <2>3, <2>4 DEF f, p
<1>7. CASE ~failed /\ m = 1
    <2>1. work'.kind = "none" /\ ~work'.failed
        <3>1. ~(m > 1)
            BY <1>7
        <3> HIDE DEF m
        <3> QED
            BY <1>4, <1>7, <3>1
    <2>2. fresh' = IF work.failed THEN fresh ELSE Append(fresh, p)
        BY <1>1, <1>3, <1>7 DEF CountsApply
    <2>3. f = Phase(p)[l]
        <3>1. l - m + 1 = l
            <4> HIDE DEF l, m
            <4> QED
                BY <1>3, <1>7
        <3> QED
            BY <1>3, <3>1
    <2>4. f = IF p = "a" THEN "rules" ELSE IF p = "d2a" THEN "siblings" ELSE "amend"
        <3> HIDE DEF f
        <3>1. CASE p = "a"
            BY <2>3, <3>1, PhaseIs
        <3>2. CASE p = "c"
            BY <2>3, <3>2, PhaseIs
        <3>3. CASE p = "d2a"
            BY <2>3, <3>3, PhaseIs
        <3>4. CASE p = "d3"
            BY <2>3, <3>4, PhaseIs
        <3> QED
            BY <1>3, <3>1, <3>2, <3>3, <3>4 DEF PhaseNames
    <2>5. \A i \in 1..m : work.todo[i] = f
        BY <1>3, <1>7
    <2>6. \A g : ~work.failed /\ g # f /\ (\E i \in 1..Len(Phase(p)) : Phase(p)[i] = g) => Did(g)
        BY <1>1, <2>5 DEF Did
    <2>7. p = "a" => \A c \in Cloned : \E i \in 1..Len(Phase(p)) : Phase(p)[i] = c
        <3>1. Len(Phase("a")) = 4 /\ \A i \in {1, 2, 3, 4} : i \in 1..4
            BY PhaseIs
        <3>2. \A c \in Cloned : \E i \in 1..4 : Phase("a")[i] = c
            BY <3>1, PhaseIs DEF Cloned
        <3> QED
            BY <3>1, <3>2
    <2>8. p = "c" => \E i \in 1..Len(Phase(p)) : Phase(p)[i] = "siblings"
        <3>1. Len(Phase("c")) = 2 /\ 1 \in 1..2 /\ Phase("c")[1] = "siblings"
            BY PhaseIs
        <3> QED
            BY <3>1
    <2> HIDE DEF f, m, l, p
    <2>9. ~work.failed /\ p = "a" => \A c \in Cloned \ {"rules"} : Did(c)
        BY <2>4, <2>6, <2>7
    <2>10. ~work.failed /\ p = "c" => Did("siblings")
        BY <2>4, <2>6, <2>8
    <2> QED
        BY <1>1, <1>3, <1>7, <2>1, <2>2, <2>4, <2>9, <2>10 DEF f, p
<1>8. m = 1 \/ m > 1
    BY <1>3
<1> QED
    BY <1>5, <1>6, <1>7, <1>8

\* A push that goes well clones its class, and leaves the clones of the others.
LEMMA PushClones ==
    ASSUME FlowInv, FreshInv, ~loose, GatePasses, NEW f \in Folders, NEW c \in Cloned,
           IsCloned(c, target) \/ (f = c /\ Succeeds(f, target))
    PROVE  IsCloned(c, Pushed(f, target))
<1>1. FlowTypes /\ target \in Targets /\ flat[c] = capture.objects /\ capture.objects # NoFiles
    BY DEF FlowInv, FreshInv, FlowTypes, SourcesThere, GatePasses
<1> DEFINE u == Pushed(f, target)
<1>2. /\ u.services = IF f = "services" /\ flat["services"] # NoFiles THEN flat["services"] ELSE target.services
      /\ u.groups = IF f = "groups" /\ flat["groups"] # NoFiles THEN target.groups \cup flat["groups"] ELSE target.groups
      /\ u.policies = IF f = "policies" /\ flat["policies"] # NoFiles THEN flat["policies"] ELSE target.policies
      /\ u.rules = IF f = "rules" /\ flat["rules"] # NoFiles /\ Holds(target, {}) THEN flat["rules"] ELSE target.rules
    BY <1>1, PushedIs
<1>3. f = "rules" /\ Succeeds(f, target) /\ flat["rules"] # NoFiles => Holds(target, {})
    BY DEF Succeeds
<1> HIDE DEF u
<1>4. c = "services" => IsCloned(c, u)
    BY <1>1, <1>2 DEF IsCloned
<1>5. c = "groups" => IsCloned(c, u)
    BY <1>1, <1>2 DEF IsCloned
<1>6. c = "policies" => IsCloned(c, u)
    BY <1>1, <1>2 DEF IsCloned
<1>7. c = "rules" => IsCloned(c, u)
    BY <1>1, <1>2, <1>3 DEF IsCloned
<1>8. IsCloned(c, u)
    BY <1>4, <1>5, <1>6, <1>7 DEF Cloned
<1> QED
    BY <1>8 DEF u

LEMMA PushesSiblings ==
    ASSUME FlowInv, NEW u \in Targets, NEW saved \in BOOLEAN,
           Applies(Head(work.todo), u, saved, FALSE), SiblingsPushed \/ Head(work.todo) = "siblings"
    PROVE  SiblingsPushed' /\ (Head(work.todo) = "amend" => RulesAmended')
<1> DEFINE f == Head(work.todo)
<1>1. /\ FlowTypes /\ StepsLeft /\ f \in Folders /\ target \in Targets /\ "siblings" \in Folders
      /\ target.siblings \in [Siblings -> SUBSET Nat] /\ bundle.of \in SUBSET Nat
    BY TodoIs DEF FlowInv, FlowTypes, Targets, Applies, Folders
<1>2. /\ work.kind = "apply" /\ saved /\ u = Pushed(f, target) /\ target' = u /\ bundle' = bundle
      /\ Saves(f, target, u)
    BY DEF Applies
<1>3. SiblingKeys' = SiblingKeys /\ SiblingKeys \subseteq Siblings
    BY <1>1, <1>2 DEF SiblingKeys, FlowTypes, Siblings, Apps
<1>4. bundle.map
    <2>1. f = "siblings" => work.phase \in {"c", "d2a"}
        BY <1>1, <1>2, HeadIs
    <2>2. SiblingsPushed => bundle.map
        BY DEF SiblingsPushed
    <2> QED
        BY <1>2, <2>1, <2>2 DEF FlowInv, SourcesThere
<1>5. /\ \A k \in Siblings : u.siblings[k] =
            IF f = "siblings" /\ k \in SiblingKeys THEN target.siblings[k] \cup bundle.of ELSE target.siblings[k]
      /\ u.rules = target.rules \/ f = "rules"
      /\ u.refs = IF f = "amend" /\ target.rules # {} THEN target.refs \cup {k \in SiblingKeys : target.siblings[k] # {}}
                  ELSE target.refs
    BY <1>1, <1>2, PushedIs
<1>6. \A k \in SiblingKeys : bundle.of \subseteq u.siblings[k]
    BY <1>3, <1>5 DEF SiblingsPushed
<1>7. folders'["siblings"] # <<>> /\ \A k \in Siblings : Last(folders'["siblings"]).was[k] \subseteq u.siblings[k]
    <2>1. CASE f = "siblings"
        <3> DEFINE b == [was |-> Was(f, target), wrote |-> Wrote(f, target, u)]
        <3>1. folders'["siblings"] = Append(folders["siblings"], b) /\ folders["siblings"] \in Seq(Saved("siblings"))
            BY <1>1, <1>2, <2>1 DEF Saves, FlowTypes
        <3>2. b.was = target.siblings
            BY <2>1 DEF Was
        <3>3. b \in Saved("siblings")
            <4>1. Was(f, target) \in Says("siblings") /\ Wrote(f, target, u) \in SUBSET Siblings
                BY <1>1, <2>1, WasType DEF Wrote
            <4> QED
                BY <4>1 DEF Saved
        <3> HIDE DEF b
        <3>4. folders'["siblings"] # <<>> /\ Last(folders'["siblings"]) = b
            BY <3>1, <3>3, AppendIs
        <3> QED
            BY <1>5, <3>2, <3>4
    <2>2. CASE f # "siblings"
        <3>1. folders'["siblings"] = folders["siblings"]
            BY <1>1, <1>2, <2>2 DEF Saves, FlowTypes
        <3> HIDE DEF f
        <3> QED
            BY <1>5, <2>2, <3>1 DEF SiblingsPushed, f
    <2> QED
        BY <2>1, <2>2
<1>8. SiblingsPushed'
    BY <1>2, <1>3, <1>4, <1>6, <1>7 DEF SiblingsPushed
<1>9. ASSUME f = "amend" PROVE RulesAmended'
    <2>1. bundle.of # {}
        BY <1>4 DEF FlowInv, SourcesThere
    <2>2. \A k \in SiblingKeys : target.siblings[k] # {}
        BY <1>9, <2>1 DEF SiblingsPushed
    <2> HIDE DEF f
    <2>3. target.rules # {} => SiblingKeys \subseteq u.refs
        BY <1>5, <1>9, <2>2
    <2> QED
        BY <1>2, <1>3, <1>5, <1>9, <2>3 DEF RulesAmended
<1> QED
    BY <1>8, <1>9

LEMMA FreshApplies ==
    ASSUME FlowInv, FreshInv, NEW u \in Targets, NEW saved \in BOOLEAN, NEW failed \in BOOLEAN,
           Applies(Head(work.todo), u, saved, failed)
    PROVE  FreshInv'
<1> DEFINE f == Head(work.todo)
           p == work.phase
<1>1. /\ loose' = loose /\ capture' = capture /\ flat' = flat /\ bundle' = bundle /\ target' = u
      /\ ~failed => saved /\ u = Pushed(f, target) /\ Succeeds(f, target)
    BY DEF Applies, sourceVars
<1>2. /\ work.kind = "apply" /\ f \in Folders /\ p \in PhaseNames /\ work'.kind \in {"none", "apply"}
      /\ \/ failed /\ fresh' = <<>> /\ (work'.kind = "none" \/ work'.failed)
         \/ /\ ~failed /\ work'.kind = "apply" /\ work'.failed = work.failed /\ fresh' = fresh
            /\ f \in {"services", "groups", "policies", "siblings"}
            /\ \A g : Did(g)' => Did(g) \/ (g = f /\ ~work.failed)
         \/ /\ ~failed /\ work'.kind = "none" /\ ~work'.failed
            /\ f = IF p = "a" THEN "rules" ELSE IF p = "d2a" THEN "siblings" ELSE "amend"
            /\ fresh' = IF work.failed THEN fresh ELSE Append(fresh, p)
            /\ ~work.failed /\ p = "a" => \A c \in Cloned \ {"rules"} : Did(c)
            /\ ~work.failed /\ p = "c" => Did("siblings")
    BY AppliesLeaves
<1>3. FlowTypes /\ StepsLeft
    BY DEF FlowInv
<1>4. (~loose /\ capture.ok => \A c \in Cloned : flat[c] = capture.objects)'
    BY <1>1 DEF FreshInv
<1>5. \A c, t : IsCloned(c, t)' = IsCloned(c, t')
    BY <1>1 DEF IsCloned
<1>6. \A c \in Cloned : f = c \/ Did(c) => p = "a" /\ GatePasses
    <2>1. \A c \in Cloned : f = c => p = "a"
        BY <1>2, <1>3, HeadIs
    <2>2. \A c \in Cloned : Did(c) => p = "a"
        BY <1>2, StepsOf DEF Did
    <2>3. p = "a" => GatePasses
        BY <1>2 DEF FlowInv, SourcesThere
    <2> QED
        BY <2>1, <2>2, <2>3
<1>7. ASSUME ~failed, ~loose, GatePasses, NEW c \in Cloned, IsCloned(c, target) \/ f = c
      PROVE  IsCloned(c, target)'
    <2>1. IsCloned(c, Pushed(f, target))
        BY <1>1, <1>2, <1>7, PushClones
    <2> QED
        BY <1>1, <1>5, <1>7, <2>1
<1>8. ASSUME ~failed, SiblingsPushed \/ f = "siblings"
      PROVE  SiblingsPushed' /\ (f = "amend" => RulesAmended')
    <2>1. Applies(f, u, saved, FALSE)
        <3>1. failed = FALSE
            BY <1>8
        <3> QED
            BY <3>1
    <2> QED
        BY <1>8, <2>1, PushesSiblings
<1>9. GatePasses' = GatePasses
    BY <1>1 DEF GatePasses
<1>10. CASE failed /\ fresh' = <<>> /\ (work'.kind = "none" \/ work'.failed)
    <2>1. \A q : ~Has(q)' /\ ~Did(q)'
        <3>1. Len(fresh') = 0
            BY <1>10
        <3> QED
            BY <1>10, <3>1 DEF Has, Did
    <2> QED
        BY <1>4, <1>10, <2>1 DEF FreshInv
<1>11. CASE /\ ~failed /\ work'.kind = "apply" /\ work'.failed = work.failed /\ fresh' = fresh
            /\ f \in {"services", "groups", "policies", "siblings"}
            /\ \A g : Did(g)' => Did(g) \/ (g = f /\ ~work.failed)
    <2>0. \A q : Has(q)' = Has(q)
        BY <1>11 DEF Has
    <2>1. (work.kind = "rollback" \/ work.failed => fresh = <<>>)'
        BY <1>11 DEF FreshInv
    <2>2. (~loose => \A c \in Cloned : Did(c) => IsCloned(c, target))'
        <3>1. ASSUME ~loose, NEW c \in Cloned, Did(c)' PROVE IsCloned(c, target)'
            <4>1. Did(c) \/ c = f
                BY <1>11, <3>1
            <4>2. GatePasses /\ (IsCloned(c, target) \/ f = c)
                BY <1>6, <3>1, <4>1 DEF FreshInv
            <4> QED
                BY <1>7, <1>11, <3>1, <4>2
        <3> QED
            BY <1>1, <3>1
    <2>3. (~loose /\ Has("a") => GatePasses /\ \A c \in Cloned : IsCloned(c, target))'
        <3>1. ASSUME ~loose, Has("a") PROVE GatePasses' /\ \A c \in Cloned : IsCloned(c, target)'
            BY <1>7, <1>9, <1>11, <3>1 DEF FreshInv
        <3> QED
            BY <1>1, <2>0, <3>1
    <2>4. (Has("c") \/ Has("d2a") \/ Did("siblings") => SiblingsPushed)'
        <3>1. (Has("c") \/ Has("d2a") \/ Did("siblings"))' => Has("c") \/ Has("d2a") \/ Did("siblings") \/ f = "siblings"
            BY <1>11, <2>0
        <3> QED
            BY <1>8, <1>11, <3>1 DEF FreshInv
    <2>5. (fresh # <<>> /\ (Last(fresh) = "c" \/ (Last(fresh) = "d3" /\ Has("d2a"))) => RulesAmended)'
        <3>1. u.rules = target.rules /\ u.refs = target.refs
            <4>1. target \in Targets /\ f # "rules" /\ f # "amend"
                BY <1>3, <1>11 DEF FlowTypes
            <4>2. Pushed(f, target).rules = target.rules /\ Pushed(f, target).refs = target.refs
                BY <1>2, <1>3, <4>1, PushedIs
            <4> QED
                BY <1>1, <1>11, <4>2
        <3>2. RulesAmended' = RulesAmended
            BY <1>1, <3>1 DEF RulesAmended, SiblingKeys
        <3> QED
            BY <1>11, <2>0, <3>2 DEF FreshInv
    <2> QED
        BY <1>4, <2>1, <2>2, <2>3, <2>4, <2>5 DEF FreshInv
<1>12. CASE /\ ~failed /\ work'.kind = "none" /\ ~work'.failed
            /\ f = IF p = "a" THEN "rules" ELSE IF p = "d2a" THEN "siblings" ELSE "amend"
            /\ fresh' = IF work.failed THEN fresh ELSE Append(fresh, p)
            /\ ~work.failed /\ p = "a" => \A c \in Cloned \ {"rules"} : Did(c)
            /\ ~work.failed /\ p = "c" => Did("siblings")
    <2>0. \A q : ~Did(q)'
        BY <1>12 DEF Did
    <2>1. CASE work.failed
        <3>1. fresh' = <<>>
            BY <1>12, <2>1 DEF FreshInv
        <3>2. \A q : ~Has(q)'
            <4>1. Len(fresh') = 0
                BY <3>1
            <4> QED
                BY <4>1 DEF Has
        <3> QED
            BY <1>4, <1>12, <2>0, <3>1, <3>2 DEF FreshInv
    <2>2. CASE ~work.failed
        <3>1. /\ \A q : Has(q)' <=> Has(q) \/ q = p
              /\ fresh' # <<>> /\ Last(fresh') = p
            BY <1>2, <1>3, <1>12, <2>2, HasAppended
        <3>2. (work.kind = "rollback" \/ work.failed => fresh = <<>>)'
            BY <1>12
        <3>3. (~loose /\ Has("a") => GatePasses /\ \A c \in Cloned : IsCloned(c, target))'
            <4>1. ASSUME ~loose, Has("a") PROVE GatePasses' /\ \A c \in Cloned : IsCloned(c, target)'
                BY <1>7, <1>9, <1>12, <4>1 DEF FreshInv
            <4>2. ASSUME ~loose, p = "a" PROVE GatePasses' /\ \A c \in Cloned : IsCloned(c, target)'
                <5>1. f = "rules" /\ f \in Cloned /\ \A c \in Cloned \ {"rules"} : Did(c)
                    BY <1>12, <2>2, <4>2 DEF Cloned
                <5>2. GatePasses
                    BY <1>6, <5>1
                <5>3. \A c \in Cloned : IsCloned(c, target) \/ f = c
                    BY <4>2, <5>1 DEF FreshInv
                <5> QED
                    BY <1>7, <1>9, <1>12, <4>2, <5>2, <5>3
            <4> QED
                BY <1>1, <3>1, <4>1, <4>2
        <3>4. (Has("c") \/ Has("d2a") \/ Did("siblings") => SiblingsPushed)'
            <4>1. p = "c" => Did("siblings")
                BY <1>12, <2>2
            <4>2. p = "d2a" => f = "siblings"
                BY <1>12
            <4> QED
                BY <1>8, <1>12, <2>0, <3>1, <4>1, <4>2 DEF FreshInv
        <3>5. (fresh # <<>> /\ (Last(fresh) = "c" \/ (Last(fresh) = "d3" /\ Has("d2a"))) => RulesAmended)'
            <4>1. p = "c" => f = "amend" /\ SiblingsPushed
                BY <1>12, <2>2 DEF FreshInv
            <4>2. p = "d3" /\ Has("d2a")' => f = "amend" /\ SiblingsPushed
                BY <1>12, <3>1 DEF FreshInv
            <4> QED
                BY <1>8, <1>12, <3>1, <4>1, <4>2
        <3> QED
            BY <1>4, <2>0, <3>2, <3>3, <3>4, <3>5 DEF FreshInv
    <2> QED
        BY <2>1, <2>2
<1> QED
    BY <1>2, <1>10, <1>11, <1>12

LEMMA FreshPrepares == ASSUME FlowInv, FreshInv, Prepares PROVE FreshInv'
<1>0. FlowTypes /\ work.kind = "none" /\ "siblings" \in Folders
    BY DEF FlowInv, Prepares, Idle, Folders
<1>1. work' = work
    BY DEF Prepares, Captures, CapturesElsewhere, Exports, BuildsC, BuildsD, Builds
<1>2. \A g : ~Did(g)'
    BY <1>0, <1>1 DEF Did
<1>3. CASE fresh' = <<>> /\ (~loose /\ capture.ok => \A c \in Cloned : flat[c] = capture.objects)'
    <2>1. \A q : ~Has(q)'
        <3>1. Len(fresh') = 0
            BY <1>3
        <3> QED
            BY <3>1 DEF Has
    <2> QED
        BY <1>2, <1>3, <2>1 DEF FreshInv
<1>4. CASE loose' /\ UNCHANGED <<capture, bundle, target, fresh>> /\ folders'["siblings"] = folders["siblings"]
    <2>1. \A q : Has(q)' = Has(q)
        BY <1>4 DEF Has
    <2>2. SiblingsPushed' = SiblingsPushed /\ RulesAmended' = RulesAmended
        BY <1>4 DEF SiblingsPushed, RulesAmended, SiblingKeys
    <2> QED
        BY <1>1, <1>2, <1>4, <2>1, <2>2 DEF FreshInv
<1>5. ASSUME NEW missing \in SUBSET Cloned, NEW ok \in BOOLEAN, NEW meanwhile \in BOOLEAN, NEW dies \in BOOLEAN,
             Captures(missing, ok, meanwhile, dies)
      PROVE  FreshInv'
    <2>1. capture'.ok => ok /\ ~dies /\ missing = {} /\ capture'.objects = {now}
        BY <1>5 DEF Captures, Manifest, NoCapture
    <2>2. capture'.ok => \A c \in Cloned : flat'[c] = {now}
        BY <1>5, <2>1 DEF Captures, FlatExports
    <2>3. fresh' = <<>>
        BY <1>5 DEF Captures
    <2> QED
        BY <1>3, <2>1, <2>2, <2>3
<1>6. CASE CapturesElsewhere
    BY <1>4, <1>6 DEF CapturesElsewhere
<1>7. ASSUME NEW class \in Cloned, NEW answers \in BOOLEAN, Exports(class, answers)
      PROVE  FreshInv'
    <2>1. class # "siblings"
        BY DEF Cloned
    <2>2. folders'["siblings"] = folders["siblings"]
        BY <1>0, <1>7, <2>1 DEF Exports, FlowTypes
    <2> QED
        BY <1>4, <1>7, <2>2 DEF Exports
<1>8. CASE \E leftOut \in SUBSET TaggedGroups, dies \in BOOLEAN : BuildsC(leftOut, dies) \/ BuildsD(leftOut, dies)
    <2>1. fresh' = <<>> /\ UNCHANGED <<loose, capture, flat>>
        BY <1>8 DEF BuildsC, BuildsD, Builds, sourceVars
    <2> QED
        BY <1>3, <2>1 DEF FreshInv
<1> QED
    BY <1>5, <1>6, <1>7, <1>8 DEF Prepares

LEMMA FreshInvNext == ASSUME FlowInv, FreshInv, [FlowNext]_flowVars PROVE FreshInv'
<1>0. FlowTypes /\ StepsLeft
    BY DEF FlowInv
<1>1. CASE UNCHANGED flowVars \/ SourceEdited
    <2>1. UNCHANGED <<capture, flat, loose, bundle, target, folders, work, fresh>>
        BY <1>1 DEF flowVars, sourceVars, SourceEdited
    <2> QED
        BY <2>1 DEF FreshInv, Has, Did, IsCloned, SiblingsPushed, RulesAmended, SiblingKeys, GatePasses
<1>2. ASSUME NEW p \in PhaseNames, ApplyBegins(p) \/ RollbackBegins(p) PROVE FreshInv'
    <2>1. /\ work'.kind = IF ApplyBegins(p) THEN "apply" ELSE "rollback"
          /\ work'.phase = p /\ ~work'.failed
          /\ \A i \in 1..Len(Phase(p)) : \E j \in 1..Len(work'.todo) : work'.todo[j] = Phase(p)[i]
        BY <1>2, BeginsKeeps
    <2>2. \A g : ~Did(g)'
        BY <2>1 DEF Did
    <2>3. UNCHANGED <<capture, flat, loose, bundle, target, folders>>
        BY <1>2 DEF ApplyBegins, RollbackBegins, sourceVars
    <2>4. SiblingsPushed' = SiblingsPushed /\ RulesAmended' = RulesAmended /\ GatePasses' = GatePasses
          /\ \A c : IsCloned(c, target)' = IsCloned(c, target)
        BY <2>3 DEF SiblingsPushed, RulesAmended, SiblingKeys, GatePasses, IsCloned
    <2>5. CASE ApplyBegins(p)
        <3>1. fresh' = fresh
            BY <2>5 DEF ApplyBegins
        <3>2. \A q : Has(q)' = Has(q)
            BY <3>1 DEF Has
        <3> QED
            BY <2>1, <2>2, <2>3, <2>4, <2>5, <3>1, <3>2 DEF FreshInv
    <2>6. CASE ~ApplyBegins(p)
        <3>1. fresh' = <<>>
            BY <1>2, <2>6 DEF RollbackBegins
        <3>2. \A q : ~Has(q)'
            <4>1. Len(fresh') = 0
                BY <3>1
            <4> QED
                BY <4>1 DEF Has
        <3> QED
            BY <2>2, <2>3, <3>1, <3>2 DEF FreshInv
    <2> QED
        BY <2>5, <2>6
<1>3. (\E u \in Targets, saved, failed \in BOOLEAN : Applies(Head(work.todo), u, saved, failed)) => FreshInv'
    BY FreshApplies
<1>4. ASSUME work.kind = "rollback", NEW failed \in BOOLEAN, StepEnds(failed), fresh' = fresh,
             UNCHANGED <<capture, flat, loose>>
      PROVE  FreshInv'
    <2>1. fresh' = <<>>
        BY <1>4 DEF FreshInv
    <2>2. work'.kind # "apply"
        BY <1>0, <1>4, EndIs DEF NoWork
    <2>3. \A q : ~Has(q)' /\ ~Did(q)'
        <3>1. Len(fresh') = 0
            BY <2>1
        <3> QED
            BY <2>2, <3>1 DEF Has, Did
    <2> QED
        BY <1>4, <2>1, <2>3 DEF FreshInv
<1>5. NothingToRevert(Head(work.todo)) => FreshInv'
    BY <1>4 DEF NothingToRevert, sourceVars
<1>6. ASSUME NEW u \in Targets, NEW well \in BOOLEAN, NEW refused \in BOOLEAN,
             Unapplies(Head(work.todo), u, well, refused)
      PROVE  FreshInv'
    <2>1. /\ work.kind = "rollback" /\ StepEnds(~well) /\ fresh' = fresh
          /\ UNCHANGED <<capture, flat, loose>>
        BY <1>6 DEF Unapplies, sourceVars
    <2>2. (~well) \in BOOLEAN
        OBVIOUS
    <2> QED
        BY <1>4, <2>1, <2>2
<1> QED
    BY <1>0, <1>1, <1>2, <1>3, <1>5, <1>6, FlowStepIs, FreshPrepares

LEMMA FreshInvInit == ASSUME FlowInit PROVE FreshInv
<1>1. fresh = <<>> /\ Len(fresh) = 0 /\ ~capture.ok /\ work.kind = "none" /\ ~work.failed
    BY DEF FlowInit, NoCapture, NoWork
<1>2. \A q : ~Has(q) /\ ~Did(q)
    BY <1>1 DEF Has, Did
<1> QED
    BY <1>1, <1>2 DEF FreshInv

AppliedInv == FlowInv /\ SoundInv /\ FreshInv

LEMMA AppliedInvHolds == ASSUME AppliedInv PROVE AppliedIsCaptured
<1>1. FlowTypes /\ SourcesThere /\ Resolved(target) /\ SoundInv /\ FreshInv
    BY DEF AppliedInv, FlowInv
<1>2. fresh \in Seq(PhaseNames) /\ Len(fresh) \in Nat
    BY <1>1 DEF FlowTypes
<1>3. fresh # <<>> => Has(Last(fresh))
    <2>1. fresh # <<>> => Len(fresh) \in 1..Len(fresh) /\ Last(fresh) = fresh[Len(fresh)]
        BY <1>2 DEF Last
    <2> QED
        BY <2>1 DEF Has
<1>4. \A q : Contains(fresh, q) <=> Has(q)
    BY <1>2 DEF Contains, Has
<1>5. ASSUME ~loose, Has("a")
      PROVE  /\ GatePasses /\ IsThere /\ capture.objects \subseteq target.groups
             /\ \A c \in Cloned \ {"groups"} : target[c] = capture.objects
    <2>1. GatePasses /\ capture.objects # {} /\ \A c \in Cloned : IsCloned(c, target)
        BY <1>1, <1>5 DEF FreshInv, SourcesThere, GatePasses
    <2>2. IsCloned("groups", target)
        BY <2>1 DEF Cloned
    <2>3. capture.objects \subseteq target.groups
        BY <2>2 DEF IsCloned
    <2>4. \A c \in Cloned \ {"groups"} : target[c] = capture.objects
        BY <2>1 DEF IsCloned
    <2>5. target["groups"] # {}
        BY <2>1, <2>3
    <2> QED
        BY <2>1, <2>3, <2>4, <2>5 DEF IsThere
<1>6. (~loose /\ fresh # <<>> /\ Last(fresh) = "a") =>
          /\ Verifies("a") /\ capture.objects \subseteq target.groups
          /\ \A c \in Cloned \ {"groups"} : target[c] = capture.objects
    BY <1>3, <1>5 DEF Verifies, Verified
<1>7. ASSUME ~loose, fresh # <<>>, Last(fresh) = "c", Contains(fresh, "a"),
             bundle.app = "c", bundle.of = capture.addresses
      PROVE  Verifies("c")
    <2>1. GatePasses /\ IsThere
        BY <1>4, <1>5, <1>7
    <2>2. bundle.map /\ \A k \in SiblingKeys : bundle.of \subseteq target.siblings[k]
        BY <1>1, <1>3, <1>7 DEF FreshInv, SiblingsPushed
    <2>3. RulesAmended
        BY <1>1, <1>7 DEF FreshInv
    <2> QED
        BY <1>7, <2>1, <2>2, <2>3 DEF Verifies, Verified
<1>8. ASSUME fresh # <<>>, Last(fresh) = "d3", Contains(fresh, "d2a") PROVE Verifies("d3")
    <2>1. SiblingsPushed
        BY <1>1, <1>4, <1>8 DEF FreshInv
    <2>2. bundle.of # {}
        BY <1>1, <2>1 DEF SourcesThere, SiblingsPushed
    <2>3. RulesAmended
        BY <1>1, <1>4, <1>8 DEF FreshInv
    <2>4. \A k \in SiblingKeys : target.siblings[k] # {}
        BY <2>1, <2>2 DEF SiblingsPushed
    <2> QED
        BY <2>1, <2>3, <2>4 DEF Verifies, Validated, SiblingsPushed
<1>9. /\ \A g \in TaggedGroups : target.siblings[<<"c", g>>] \subseteq sound
      /\ \A k \in target.refs : target.siblings[k] # {}
    BY <1>1 DEF SoundInv, Resolved
<1> QED
    BY <1>6, <1>7, <1>8, <1>9 DEF AppliedIsCaptured

\* Whatever was captured, built, applied, broken off and rolled back before: what
\* was just applied verifies, and holds what one good capture found.
THEOREM CapturedIsApplied == FlowSpec => []AppliedIsCaptured
<1>1. FlowInit => AppliedInv
    BY FlowInvInit, SoundInvInit, FreshInvInit DEF AppliedInv
<1>2. AppliedInv /\ [FlowNext]_flowVars => AppliedInv'
    BY FlowInvNext, SoundInvNext, FreshInvNext DEF AppliedInv
<1>3. AppliedInv => AppliedIsCaptured
    BY AppliedInvHolds
<1> QED
    BY <1>1, <1>2, <1>3, PTL DEF FlowSpec

-----------------------------------------------------------------------------
(* The push of a whole bundle: what each tool is through with is as promised *)

ClassNames == {"policies", "groups", "services"}
Words == ClassNames \cup {"baseline", "complete", "all", "restore"}

ToolType ==
    [kind: {"none", "push", "complete", "groups"}, apply: BOOLEAN, asked: Seq(Words),
     phases: Seq(Words), todo: SUBSET All, live: {NoState} \cup [GroupIds -> Contents \cup {Missing}],
     failed: SUBSET (All \cup {"baseline"}), skipped: SUBSET All, deleted: SUBSET All,
     faulted: BOOLEAN]

PayloadTypes ==
    /\ site \in [All -> Contents \cup {Missing}]
    /\ tool \in ToolType
    /\ touched \subseteq All
    /\ budget \in [starts: Nat, edits: Nat, faults: Nat, default: BOOLEAN]

\* The baseline holds contents, of objects the target had; a whole one, of all
\* that the manager does not own.
BaselineInv ==
    /\ DOMAIN baseline.state \subseteq baseline.was /\ baseline.was \subseteq All
    /\ \A o \in DOMAIN baseline.state : baseline.state[o] \in Contents
    /\ baseline.complete => DOMAIN baseline.state = baseline.was \ System

\* A push has written what it is through with.
PushInv ==
    tool.kind = "push" =>
        /\ \E scope \in {"complete", "groups"} :
              tool.asked = <<scope>> /\ tool.phases \in {<<"baseline", scope>>, <<scope>>, <<>>}
        /\ tool.phases = <<>> /\ tool.apply =>
              \A o \in Payload(tool.asked[1]) \ (tool.todo \cup tool.skipped \cup touched \cup tool.failed) :
                  site[o] = "new" \/ (o \in RuleIds /\ PolicyOf[o] \in touched)

\* A full rollback deletes nothing it should keep; what it should not keep, of a
\* class it has listed, it has yet to delete or could not; and until it deletes
\* something, what it could not delete stays in use.
CompleteInv ==
    tool.kind = "complete" =>
        /\ tool.asked \in Seq(ClassNames) /\ tool.phases \in Seq(ClassNames)
        /\ baseline.complete =>
              \A o \in (tool.deleted \cup tool.todo) \cap baseline.was :
                  o \in PolicyIds \/ (o \in ServiceIds /\ ~budget.default)
        /\ \A i \in DOMAIN tool.asked :
              \/ \E j \in DOMAIN tool.phases : tool.phases[j] = tool.asked[i]
              \/ (ClassOf(tool.asked[i]) \cap Live) \ (DOMAIN baseline.state \cup System \cup touched)
                     \subseteq tool.todo \cup tool.failed
        /\ ~tool.faulted /\ touched = {} /\ tool.deleted = {} =>
              \A o \in tool.failed : o \notin Live \/ Users(o) # {}

\* A rollback of groups is through with a group that has the addresses of the
\* baseline; one it has yet to look at is as it was listed.
GroupsInv ==
    tool.kind = "groups" =>
        /\ tool.phases = <<>>
        /\ \A g \in HeldGroups \ (touched \cup tool.failed \cup tool.skipped) :
              \/ g \in tool.todo /\ site[g] = tool.live[g]
              \/ site[g] # Missing /\ Ips[g][site[g]] = Ips[g][baseline.state[g]]
        /\ tool.asked = <<"all">> =>
              (GroupIds \cap Live) \ (HeldGroups \cup System \cup touched \cup tool.failed \cup tool.skipped)
                  \subseteq tool.todo

PayloadInv == PayloadTypes /\ BaselineInv /\ PushInv /\ CompleteInv /\ GroupsInv

\* What PayloadInv says of the tool and the budget, without the site.
LEMMA ToolIs ==
    ASSUME PayloadTypes
    PROVE  /\ tool.todo \subseteq All /\ tool.failed \subseteq All \cup {"baseline"}
           /\ tool.skipped \subseteq All /\ tool.deleted \subseteq All
           /\ tool.phases \in Seq(Words) /\ tool.asked \in Seq(Words)
           /\ tool.apply \in BOOLEAN /\ tool.faulted \in BOOLEAN
BY DEF PayloadTypes, ToolType

\* A write changes one object, which is there afterwards.
LEMMA WrittenIs ==
    ASSUME PayloadTypes, NEW o \in All, NEW c \in Contents, Written(o, c)
    PROVE  /\ site' \in [All -> Contents \cup {Missing}] /\ site'[o] = c /\ c # Missing
           /\ \A u \in All \ {o} : site'[u] = site[u]
BY DEF PayloadTypes, Written, Contents

\* A deletion takes an object away, and the rules of a policy with it.
LEMMA DeletedIs ==
    ASSUME PayloadTypes, NEW o \in All, Deleted(o)
    PROVE  /\ site' \in [All -> Contents \cup {Missing}] /\ site'[o] = Missing
           /\ \A u \in All : site'[u] \in {Missing, site[u]}
           /\ \A u \in All \ {o} : site'[u] = site[u] \/ (u \in RuleIds /\ PolicyOf[u] = o)
BY DEF PayloadTypes, Deleted, RulesOf

\* A lost call takes one of the faults.
LEMMA LostIs ==
    ASSUME PayloadTypes, CallLost
    PROVE  /\ budget' \in [starts: Nat, edits: Nat, faults: Nat, default: BOOLEAN]
           /\ budget'.default = budget.default
<1>1. /\ budget \in [starts: Nat, edits: Nat, faults: Nat, default: BOOLEAN]
      /\ budget.faults \in Nat /\ budget.faults > 0 /\ budget' = [budget EXCEPT !.faults = budget.faults - 1]
    BY DEF PayloadTypes, CallLost
<1>2. budget.faults - 1 \in Nat
    BY <1>1
<1> QED
    BY <1>1, <1>2

\* The payload consists of objects.
LEMMA PayloadIs == \A scope : Payload(scope) \subseteq All
BY PayloadAssumption DEF Payload, All

\* "new" is a content.
LEMMA NewIsContent == "new" \in Contents
BY PayloadAssumption DEF Contents

\* The records the tool makes of itself when it has dealt with an object.
LEMMA HandledType ==
    ASSUME PayloadTypes, NEW o \in All,
           tool' \in {Handled(o), Noted(o), [Noted(o) EXCEPT !.faulted = TRUE],
                      [Handled(o) EXCEPT !.skipped = @ \cup {o}],
                      [Handled(o) EXCEPT !.deleted = @ \cup {o}]}
    PROVE  /\ tool' \in ToolType
           /\ tool'.kind = tool.kind /\ tool'.apply = tool.apply /\ tool'.asked = tool.asked
           /\ tool'.phases = tool.phases /\ tool'.live = tool.live /\ tool'.todo = tool.todo \ {o}
<1> DEFINE S == Seq(Words)
           L == {NoState} \cup [GroupIds -> Contents \cup {Missing}]
           F == SUBSET (All \cup {"baseline"})
           T == [kind: {"none", "push", "complete", "groups"}, apply: BOOLEAN, asked: S,
                 phases: S, todo: SUBSET All, live: L, failed: F, skipped: SUBSET All,
                 deleted: SUBSET All, faulted: BOOLEAN]
<1>1. tool \in T /\ ToolType = T
    BY DEF PayloadTypes, ToolType
<1>2. tool.failed \cup {o} \in F /\ tool.failed \in F
    BY <1>1
<1> HIDE DEF S, L, F
<1>3. CASE tool' = Handled(o)
    BY <1>1, <1>3 DEF Handled
<1>4. Noted(o) = [tool EXCEPT !.todo = tool.todo \ {o}, !.failed = tool.failed \cup {o}]
    BY <1>1 DEF Noted, Handled
<1>5. CASE tool' = Noted(o)
    <2>1. tool' = [tool EXCEPT !.todo = tool.todo \ {o}, !.failed = tool.failed \cup {o}]
        BY <1>4, <1>5
    <2> QED
        BY <1>1, <1>2, <2>1
<1>6. CASE tool' = [Noted(o) EXCEPT !.faulted = TRUE]
    <2>1. tool' = [tool EXCEPT !.todo = tool.todo \ {o}, !.failed = tool.failed \cup {o}, !.faulted = TRUE]
        BY <1>1, <1>4, <1>6
    <2> QED
        BY <1>1, <1>2, <2>1
<1>7. CASE tool' = [Handled(o) EXCEPT !.skipped = @ \cup {o}]
    BY <1>1, <1>7 DEF Handled
<1>8. CASE tool' = [Handled(o) EXCEPT !.deleted = @ \cup {o}]
    BY <1>1, <1>8 DEF Handled
<1> QED
    BY <1>3, <1>5, <1>6, <1>7, <1>8

\* What each outcome does to the sets of the tool.
LEMMA HandledSets ==
    ASSUME PayloadTypes, NEW o \in All
    PROVE  /\ tool' = Handled(o) => /\ tool'.failed = tool.failed /\ tool'.skipped = tool.skipped
                                    /\ tool'.deleted = tool.deleted /\ tool'.faulted = tool.faulted
           /\ tool' = Noted(o) => /\ tool'.failed = tool.failed \cup {o} /\ tool'.skipped = tool.skipped
                                  /\ tool'.deleted = tool.deleted /\ tool'.faulted = tool.faulted
           /\ tool' = [Noted(o) EXCEPT !.faulted = TRUE] =>
                 /\ tool'.failed = tool.failed \cup {o} /\ tool'.skipped = tool.skipped
                 /\ tool'.deleted = tool.deleted /\ tool'.faulted
           /\ tool' = [Handled(o) EXCEPT !.skipped = @ \cup {o}] =>
                 /\ tool'.failed = tool.failed /\ tool'.skipped = tool.skipped \cup {o}
                 /\ tool'.deleted = tool.deleted /\ tool'.faulted = tool.faulted
           /\ tool' = [Handled(o) EXCEPT !.deleted = @ \cup {o}] =>
                 /\ tool'.failed = tool.failed /\ tool'.skipped = tool.skipped
                 /\ tool'.deleted = tool.deleted \cup {o} /\ tool'.faulted = tool.faulted
BY DEF PayloadTypes, ToolType, Handled, Noted

\* The other kinds of tool have nothing to say.
LEMMA BaselineStays == BaselineInv /\ UNCHANGED baseline => BaselineInv'
BY DEF BaselineInv

\* A push skips, writes or fails to write one object.
LEMMA PutKeeps ==
    ASSUME PayloadInv, NEW o \in All, PutSkips(o) \/ Puts(o) \/ PutFails(o)
    PROVE  PayloadInv'
<1> USE DEF PutSkips, Puts, PutFails
<1>t. PayloadTypes /\ PushInv /\ BaselineInv
    BY DEF PayloadInv
<1>o. tool.kind = "push" /\ o \in tool.todo /\ UNCHANGED <<baseline, touched>>
    BY DEF Writing, InTurn
<1>h. tool' \in {Handled(o), Noted(o), [Noted(o) EXCEPT !.faulted = TRUE],
                 [Handled(o) EXCEPT !.skipped = @ \cup {o}]}
    OBVIOUS
<1>k. /\ tool' \in ToolType
      /\ tool'.kind = tool.kind /\ tool'.apply = tool.apply /\ tool'.asked = tool.asked
      /\ tool'.phases = tool.phases /\ tool'.todo = tool.todo \ {o}
    BY <1>h, <1>t, HandledType
<1>s. site' = site \/ Written(o, "new")
    OBVIOUS
<1>w. Written(o, "new") => /\ site' \in [All -> Contents \cup {Missing}] /\ site'[o] = "new"
                           /\ \A u \in All \ {o} : site'[u] = site[u]
    BY <1>t, NewIsContent, WrittenIs
<1>1. PayloadTypes'
    <2>1. budget' \in [starts: Nat, edits: Nat, faults: Nat, default: BOOLEAN]
        BY <1>t, LostIs DEF PayloadTypes
    <2> QED
        BY <2>1, <1>t, <1>o, <1>k, <1>s, <1>w DEF PayloadTypes
<1>2. BaselineInv'
    BY <1>o, <1>t, BaselineStays
<1>f. /\ tool.failed \subseteq tool'.failed /\ tool.skipped \subseteq tool'.skipped
      /\ \/ Written(o, "new") /\ tool' = Handled(o)
         \/ o \in tool'.failed \cup tool'.skipped
    BY <1>h, <1>t, HandledSets
<1>3. PushInv'
    <2>1. \E scope \in {"complete", "groups"} :
              tool'.asked = <<scope>> /\ tool'.phases \in {<<"baseline", scope>>, <<scope>>, <<>>}
        BY <1>t, <1>o, <1>k DEF PushInv
    <2>2. ASSUME tool'.phases = <<>> /\ tool'.apply,
                 NEW u \in Payload(tool'.asked[1]) \ (tool'.todo \cup tool'.skipped \cup touched' \cup tool'.failed)
          PROVE  site'[u] = "new" \/ (u \in RuleIds /\ PolicyOf[u] \in touched')
        <3>1. CASE u = o
            BY <2>2, <3>1, <1>f, <1>w
        <3>2. CASE u # o
            <4>1. u \in Payload(tool.asked[1]) \ (tool.todo \cup tool.skipped \cup touched \cup tool.failed)
                BY <2>2, <3>2, <1>k, <1>f, <1>o
            <4>2. site[u] = "new" \/ (u \in RuleIds /\ PolicyOf[u] \in touched)
                BY <2>2, <4>1, <1>t, <1>o, <1>k DEF PushInv
            <4>3. site'[u] = site[u]
                BY <3>2, <4>1, <1>s, <1>w, PayloadIs
            <4> QED
                BY <4>2, <4>3, <1>o
        <3> QED
            BY <3>1, <3>2
    <2> QED
        BY <2>1, <2>2 DEF PushInv
<1>4. CompleteInv' /\ GroupsInv'
    BY <1>o, <1>k DEF CompleteInv, GroupsInv
<1> QED
    BY <1>1, <1>2, <1>3, <1>4 DEF PayloadInv

\* Only the tools of a push have a baseline to take.
LEMMA BaselineIsOfPush ==
    ASSUME PayloadInv, InBaseline
    PROVE  tool.kind \notin {"complete", "groups"}
<1>1. tool.phases # <<>> /\ Head(tool.phases) = "baseline"
    BY DEF InBaseline
<1>2. tool.kind # "groups"
    BY <1>1 DEF PayloadInv, GroupsInv
<1>3. ASSUME tool.kind = "complete" PROVE FALSE
    <2>1. tool.phases \in Seq(ClassNames)
        BY <1>3 DEF PayloadInv, CompleteInv
    <2>2. Head(tool.phases) \in ClassNames
        BY <1>1, <2>1
    <2> QED
        BY <1>1, <2>2 DEF ClassNames
<1> QED
    BY <1>2, <1>3

\* A push takes a baseline, whole or in part, or lists its payload.
LEMMA PushKeeps ==
    ASSUME PayloadInv, TakeBaseline \/ CaptureFails \/ PushList
    PROVE  PayloadInv'
<1>t. PayloadTypes /\ PushInv /\ BaselineInv
    BY DEF PayloadInv
<1>f. /\ tool \in ToolType /\ tool.phases \in Seq(Words) /\ tool.phases # <<>>
      /\ Tail(tool.phases) \in Seq(Words) /\ UNCHANGED <<site, touched>>
    <2>1. tool \in ToolType /\ tool.phases # <<>> /\ UNCHANGED <<site, touched>>
        BY <1>t DEF PayloadTypes, TakeBaseline, CaptureFails, PushList, InBaseline
    <2>2. tool.phases \in Seq(Words)
        BY <2>1 DEF ToolType
    <2> QED
        BY <2>1, <2>2, HeadTailProperties
<1>1. CASE TakeBaseline \/ CaptureFails
    <2>1. PICK S \in SUBSET All, c \in BOOLEAN :
              /\ baseline' = [state |-> SnapshotOf(S), was |-> Live, complete |-> c, exists |-> TRUE]
              /\ c => S = All
        BY <1>1 DEF TakeBaseline, CaptureFails, All
    <2>2. BaselineInv'
        <3>1. /\ baseline'.state = SnapshotOf(S) /\ baseline'.was = Live
              /\ baseline'.complete => S = All
            BY <2>1
        <3>2. Live \subseteq All /\ \A o \in Live : site[o] \in Contents
            BY <1>t DEF Live, PayloadTypes
        <3> QED
            BY <3>1, <3>2 DEF BaselineInv, SnapshotOf
    <2>k. /\ tool' \in ToolType /\ tool'.kind = tool.kind /\ tool'.apply = tool.apply
          /\ tool'.asked = tool.asked /\ tool'.phases = Tail(tool.phases) /\ tool'.todo = tool.todo
          /\ tool.failed \subseteq tool'.failed /\ tool'.skipped = tool.skipped
        <3>1. CASE TakeBaseline
            BY <3>1, <1>f DEF TakeBaseline, ToolType
        <3>2. CASE CaptureFails
            <4>1. tool' = [tool EXCEPT !.phases = Tail(tool.phases), !.failed = tool.failed \cup {"baseline"}]
                BY <3>2, <1>f DEF CaptureFails, ToolType
            <4>2. tool.failed \cup {"baseline"} \in SUBSET (All \cup {"baseline"})
                BY <1>f DEF ToolType
            <4> QED
                BY <4>1, <4>2, <1>f DEF ToolType
        <3> QED
            BY <1>1, <3>1, <3>2
    <2>3. PayloadTypes'
        <3>1. budget' \in [starts: Nat, edits: Nat, faults: Nat, default: BOOLEAN]
            BY <1>1, <1>t, LostIs DEF PayloadTypes, TakeBaseline, CaptureFails
        <3> QED
            BY <3>1, <2>k, <1>t, <1>f DEF PayloadTypes
    <2>b. InBaseline
        BY <1>1 DEF TakeBaseline, CaptureFails
    <2>4. CompleteInv' /\ GroupsInv'
        BY <2>k, <2>b, BaselineIsOfPush DEF CompleteInv, GroupsInv
    <2>5. PushInv'
        <3>1. ASSUME tool.kind = "push" PROVE PushInv'
            <4>1. PICK scope \in {"complete", "groups"} :
                      tool.asked = <<scope>> /\ tool.phases \in {<<"baseline", scope>>, <<scope>>, <<>>}
                BY <3>1, <1>t DEF PushInv
            <4>2. tool.phases = <<"baseline", scope>>
                BY <4>1, <2>b DEF InBaseline
            <4>3. tool'.phases = <<scope>>
                BY <4>2, <2>k
            <4> QED
                BY <4>1, <4>3, <2>k DEF PushInv
        <3> QED
            BY <3>1, <2>k DEF PushInv
    <2> QED
        BY <2>2, <2>3, <2>4, <2>5 DEF PayloadInv
<1>2. CASE PushList
    <2>1. PICK scope \in {"complete", "groups"} :
              tool.asked = <<scope>> /\ tool.phases \in {<<"baseline", scope>>, <<scope>>, <<>>}
        BY <1>2, <1>t DEF PushList, PushInv
    <2>2. tool.phases = <<scope>>
        BY <1>2, <2>1, <1>f DEF PushList, InBaseline
    <2> DEFINE todo == IF tool.apply THEN Payload(scope) ELSE {}
    <2>3. tool' = [tool EXCEPT !.phases = <<>>, !.todo = todo] /\ UNCHANGED <<baseline, budget>>
        BY <1>2, <2>2 DEF PushList
    <2>4. todo \in SUBSET All /\ <<>> \in Seq(Words)
        BY PayloadIs
    <2>5. /\ tool' \in ToolType /\ tool'.kind = "push" /\ tool'.asked = <<scope>>
          /\ tool'.phases = <<>> /\ tool'.todo = todo /\ tool'.apply = tool.apply
        <3> HIDE DEF todo
        <3> QED
            BY <1>2, <2>1, <2>3, <2>4, <1>f DEF PushList, ToolType
    <2>6. PayloadTypes' /\ BaselineInv' /\ CompleteInv' /\ GroupsInv'
        BY <2>3, <2>5, <1>t, <1>f, BaselineStays DEF PayloadTypes, CompleteInv, GroupsInv
    <2>7. PushInv'
        BY <2>5 DEF PushInv
    <2> QED
        BY <2>6, <2>7 DEF PayloadInv
<1> QED
    BY <1>1, <1>2

\* A full rollback lists what of a class the baseline lacks.
LEMMA RevertListKeeps ==
    ASSUME PayloadInv, RevertList
    PROVE  PayloadInv'
<1> DEFINE todo == ToDelete(ClassOf(tool.phases[1]), baseline.state)
<1>t. PayloadTypes /\ CompleteInv /\ BaselineInv
    BY DEF PayloadInv
<1>o. /\ tool.kind = "complete" /\ tool.todo = {} /\ tool.phases # <<>>
      /\ tool' = [tool EXCEPT !.phases = Tail(tool.phases), !.todo = todo]
      /\ UNCHANGED <<site, baseline, touched, budget>>
    BY DEF RevertList
<1>p. /\ tool.phases \in Seq(ClassNames) /\ tool.asked \in Seq(ClassNames)
      /\ tool.phases \in Seq(Words)
    BY <1>o, <1>t DEF CompleteInv, PayloadTypes, ToolType
<1>q. /\ Tail(tool.phases) \in Seq(ClassNames) /\ Tail(tool.phases) \in Seq(Words)
      /\ tool.phases[1] \in ClassNames
      /\ \A j \in DOMAIN tool.phases : j = 1 \/ (j - 1 \in DOMAIN Tail(tool.phases)
                                                 /\ Tail(tool.phases)[j - 1] = tool.phases[j])
    <2>1. Len(tool.phases) \in Nat /\ Len(tool.phases) # 0 /\ DOMAIN tool.phases = 1..Len(tool.phases)
        BY <1>o, <1>p, EmptySeq, LenProperties
    <2>2. /\ Tail(tool.phases) \in Seq(ClassNames) /\ Tail(tool.phases) \in Seq(Words)
          /\ Len(Tail(tool.phases)) = Len(tool.phases) - 1
          /\ \A i \in 1..Len(Tail(tool.phases)) : Tail(tool.phases)[i] = tool.phases[i + 1]
        BY <1>o, <1>p, HeadTailProperties
    <2>3. DOMAIN Tail(tool.phases) = 1..(Len(tool.phases) - 1)
        BY <2>2, LenProperties
    <2>4. tool.phases[1] \in ClassNames
        BY <1>p, <2>1, ElementOfSeq
    <2>5. ASSUME NEW j \in DOMAIN tool.phases, j # 1
          PROVE  j - 1 \in DOMAIN Tail(tool.phases) /\ Tail(tool.phases)[j - 1] = tool.phases[j]
        <3>1. j \in Int /\ j - 1 \in 1..(Len(tool.phases) - 1) /\ (j - 1) + 1 = j
            BY <2>1, <2>5
        <3> QED
            BY <3>1, <2>2, <2>3
    <2> QED
        BY <2>2, <2>4, <2>5
<1>c. /\ ClassOf(tool.phases[1]) \in {PolicyIds, GroupIds, ServiceIds}
      /\ ClassOf(tool.phases[1]) \subseteq All
    BY <1>q DEF ClassOf, ClassNames, All
<1>d. todo \in SUBSET All
    BY <1>c DEF ToDelete
<1>k. /\ tool' \in ToolType /\ tool'.kind = "complete" /\ tool'.asked = tool.asked
      /\ tool'.phases = Tail(tool.phases) /\ tool'.todo = todo /\ tool'.failed = tool.failed
      /\ tool'.deleted = tool.deleted /\ tool'.faulted = tool.faulted
    <2>1. tool \in ToolType
        BY <1>t DEF PayloadTypes
    <2> HIDE DEF todo
    <2> QED
        BY <2>1, <1>o, <1>q, <1>d DEF ToolType
<1>1. PayloadTypes' /\ BaselineInv' /\ PushInv' /\ GroupsInv'
    BY <1>k, <1>o, <1>t, BaselineStays DEF PayloadTypes, PushInv, GroupsInv
<1>2. ASSUME baseline.complete, NEW u \in todo \cap baseline.was
      PROVE  u \in PolicyIds \/ (u \in ServiceIds /\ ~budget.default)
    <2>1. u \in ClassOf(tool.phases[1]) /\ u \notin System /\ u \notin Discovered(baseline.state)
        BY <1>2 DEF ToDelete
    <2>2. u \in DOMAIN baseline.state
        BY <1>2, <2>1, <1>t DEF BaselineInv
    <2> QED
        BY <1>c, <2>1, <2>2 DEF Discovered
<1>3. (ClassOf(tool.phases[1]) \cap Live) \ (DOMAIN baseline.state \cup System \cup touched) \subseteq todo
    BY <1>c, DirectoryAssumption DEF ToDelete, Discovered, Live
<1>4. ASSUME NEW i \in DOMAIN tool.asked
      PROVE  \/ \E j \in DOMAIN tool'.phases : tool'.phases[j] = tool.asked[i]
             \/ (ClassOf(tool.asked[i]) \cap Live) \ (DOMAIN baseline.state \cup System \cup touched)
                    \subseteq todo \cup tool.failed
    <2>1. CASE \E j \in DOMAIN tool.phases : tool.phases[j] = tool.asked[i]
        <3>1. PICK j \in DOMAIN tool.phases : tool.phases[j] = tool.asked[i]
            BY <2>1
        <3>2. CASE j = 1
            BY <3>1, <3>2, <1>3
        <3>3. CASE j # 1
            BY <3>1, <3>3, <1>q, <1>k
        <3> QED
            BY <3>2, <3>3
    <2>2. CASE (ClassOf(tool.asked[i]) \cap Live) \ (DOMAIN baseline.state \cup System \cup touched)
                    \subseteq tool.todo \cup tool.failed
        BY <2>2, <1>o
    <2> QED
        BY <2>1, <2>2, <1>o, <1>t DEF CompleteInv
<1>5. CompleteInv'
    <2>1. tool'.asked \in Seq(ClassNames) /\ tool'.phases \in Seq(ClassNames)
        BY <1>k, <1>p, <1>q
    <2>2. baseline'.complete =>
              \A u \in (tool'.deleted \cup tool'.todo) \cap baseline'.was :
                  u \in PolicyIds \/ (u \in ServiceIds /\ ~budget'.default)
        BY <1>2, <1>k, <1>o, <1>t DEF CompleteInv
    <2>3. Live' = Live /\ \A u : Users(u)' = Users(u)
        BY <1>o DEF Live, Users
    <2>4. ~tool'.faulted /\ touched' = {} /\ tool'.deleted = {} =>
              \A u \in tool'.failed : u \notin Live' \/ Users(u)' # {}
        BY <2>3, <1>k, <1>o, <1>t DEF CompleteInv
    <2>5. \A i \in DOMAIN tool'.asked :
              \/ \E j \in DOMAIN tool'.phases : tool'.phases[j] = tool'.asked[i]
              \/ (ClassOf(tool'.asked[i]) \cap Live') \ (DOMAIN baseline'.state \cup System \cup touched')
                     \subseteq tool'.todo \cup tool'.failed
        BY <1>4, <1>k, <1>o, <2>3
    <2> QED
        BY <2>1, <2>2, <2>4, <2>5 DEF CompleteInv
<1> QED
    BY <1>1, <1>5 DEF PayloadInv

\* What a deletion does, or not, whichever rollback it belongs to.
LEMMA DeleteIs ==
    ASSUME PayloadInv, NEW o \in All, DeleteDone(o) \/ DeleteFails(o)
    PROVE  /\ PayloadTypes' /\ BaselineInv' /\ o \in tool.todo
           /\ tool'.kind = tool.kind /\ tool'.asked = tool.asked /\ tool'.phases = tool.phases
           /\ tool'.live = tool.live /\ tool'.todo = tool.todo \ {o} /\ tool'.skipped = tool.skipped
           /\ UNCHANGED <<baseline, touched>> /\ budget'.default = budget.default
           /\ \/ /\ tool'.deleted = tool.deleted \cup {o} /\ tool'.failed = tool.failed
                 /\ site'[o] = Missing
              \/ /\ tool'.deleted = tool.deleted /\ tool'.failed = tool.failed \cup {o}
                 /\ \/ tool'.faulted
                    \/ UNCHANGED site /\ tool'.faulted = tool.faulted /\ ~MayDelete(o)
           /\ \A u \in All : site'[u] \in {Missing, site[u]}
           /\ \A u \in All \ {o} : site'[u] = site[u] \/ (u \in RuleIds /\ PolicyOf[u] = o)
<1> USE DEF DeleteDone, DeleteFails
<1>t. PayloadTypes /\ BaselineInv
    BY DEF PayloadInv
<1>o. o \in tool.todo /\ UNCHANGED <<baseline, touched>>
    BY DEF Deleting, InTurn
<1>h. tool' \in {[Handled(o) EXCEPT !.deleted = @ \cup {o}], Noted(o), [Noted(o) EXCEPT !.faulted = TRUE]}
    OBVIOUS
<1>k. /\ tool' \in ToolType
      /\ tool'.kind = tool.kind /\ tool'.asked = tool.asked /\ tool'.phases = tool.phases
      /\ tool'.live = tool.live /\ tool'.todo = tool.todo \ {o}
    BY <1>h, <1>t, HandledType
<1>s. site' = site \/ Deleted(o)
    OBVIOUS
<1>w. Deleted(o) => /\ site' \in [All -> Contents \cup {Missing}] /\ site'[o] = Missing
                    /\ \A u \in All : site'[u] \in {Missing, site[u]}
                    /\ \A u \in All \ {o} : site'[u] = site[u] \/ (u \in RuleIds /\ PolicyOf[u] = o)
    BY <1>t, DeletedIs
<1>b. /\ budget' \in [starts: Nat, edits: Nat, faults: Nat, default: BOOLEAN]
      /\ budget'.default = budget.default
    BY <1>t, LostIs DEF PayloadTypes
<1>1. PayloadTypes' /\ BaselineInv'
    BY <1>b, <1>t, <1>o, <1>k, <1>s, <1>w, BaselineStays DEF PayloadTypes
<1>2. /\ \A u \in All : site'[u] \in {Missing, site[u]}
      /\ \A u \in All \ {o} : site'[u] = site[u] \/ (u \in RuleIds /\ PolicyOf[u] = o)
    BY <1>s, <1>w
<1>3. /\ tool'.skipped = tool.skipped
      /\ \/ /\ tool'.deleted = tool.deleted \cup {o} /\ tool'.failed = tool.failed
            /\ site'[o] = Missing
         \/ /\ tool'.deleted = tool.deleted /\ tool'.failed = tool.failed \cup {o}
            /\ \/ tool'.faulted
               \/ UNCHANGED site /\ tool'.faulted = tool.faulted /\ ~MayDelete(o)
    <2>1. CASE DeleteDone(o)
        BY <2>1, <1>t, <1>w, HandledSets
    <2>2. CASE DeleteFails(o)
        BY <2>2, <1>t, HandledSets
    <2> QED
        BY <2>1, <2>2
<1> QED
    BY <1>o, <1>k, <1>b, <1>1, <1>2, <1>3

\* A full rollback deletes an object, or cannot.
LEMMA CompleteDeleteKeeps ==
    ASSUME PayloadInv, NEW o \in All, DeleteDone(o) \/ DeleteFails(o), tool.kind = "complete"
    PROVE  PayloadInv'
<1>t. PayloadTypes /\ CompleteInv
    BY DEF PayloadInv
<1>k. /\ PayloadTypes' /\ BaselineInv' /\ o \in tool.todo
      /\ tool'.kind = tool.kind /\ tool'.asked = tool.asked /\ tool'.phases = tool.phases
      /\ tool'.todo = tool.todo \ {o}
      /\ UNCHANGED <<baseline, touched>> /\ budget'.default = budget.default
      /\ \/ /\ tool'.deleted = tool.deleted \cup {o} /\ tool'.failed = tool.failed
            /\ site'[o] = Missing
         \/ /\ tool'.deleted = tool.deleted /\ tool'.failed = tool.failed \cup {o}
            /\ \/ tool'.faulted
               \/ UNCHANGED site /\ tool'.faulted = tool.faulted /\ ~MayDelete(o)
      /\ \A u \in All : site'[u] \in {Missing, site[u]}
    BY DeleteIs
<1>l. Live' \subseteq Live /\ (o \notin Live' \/ o \in tool'.failed)
    BY <1>k DEF Live
<1>1. PushInv' /\ GroupsInv'
    BY <1>k DEF PushInv, GroupsInv
<1>2. baseline'.complete =>
          \A u \in (tool'.deleted \cup tool'.todo) \cap baseline'.was :
              u \in PolicyIds \/ (u \in ServiceIds /\ ~budget'.default)
    <2>1. tool'.deleted \cup tool'.todo \subseteq tool.deleted \cup tool.todo
        BY <1>k
    <2> QED
        BY <2>1, <1>k, <1>t DEF CompleteInv
<1>3. ASSUME NEW i \in DOMAIN tool.asked
      PROVE  \/ \E j \in DOMAIN tool'.phases : tool'.phases[j] = tool'.asked[i]
             \/ (ClassOf(tool'.asked[i]) \cap Live') \ (DOMAIN baseline'.state \cup System \cup touched')
                    \subseteq tool'.todo \cup tool'.failed
    <2>1. \/ \E j \in DOMAIN tool.phases : tool.phases[j] = tool.asked[i]
          \/ (ClassOf(tool.asked[i]) \cap Live) \ (DOMAIN baseline.state \cup System \cup touched)
                 \subseteq tool.todo \cup tool.failed
        BY <1>t DEF CompleteInv
    <2>2. tool.failed \subseteq tool'.failed
        BY <1>k
    <2> QED
        BY <2>1, <2>2, <1>k, <1>l
<1>4. ASSUME ~tool'.faulted, touched' = {}, tool'.deleted = {}, NEW u \in tool'.failed
      PROVE  u \notin Live' \/ Users(u)' # {}
    <2>1. /\ UNCHANGED site /\ ~tool.faulted /\ ~MayDelete(o) /\ tool.deleted = {} /\ touched = {}
          /\ tool'.failed = tool.failed \cup {o}
        BY <1>4, <1>k
    <2>2. Live' = Live /\ Users(u)' = Users(u)
        BY <2>1 DEF Live, Users
    <2>3. u = o => u \notin Live \/ Users(u) # {}
        BY <2>1 DEF MayDelete
    <2>4. u \in tool.failed => u \notin Live \/ Users(u) # {}
        BY <2>1, <1>t DEF CompleteInv
    <2> QED
        BY <1>4, <2>1, <2>2, <2>3, <2>4
<1>5. tool'.asked \in Seq(ClassNames) /\ tool'.phases \in Seq(ClassNames)
    BY <1>k, <1>t DEF CompleteInv
<1>6. CompleteInv'
    BY <1>k, <1>2, <1>3, <1>4, <1>5 DEF CompleteInv
<1> QED
    BY <1>k, <1>1, <1>6 DEF PayloadInv

\* A rollback of groups deletes one, writes one back, leaves one, or cannot.
LEMMA GroupsKeep ==
    ASSUME PayloadInv, NEW o \in All, tool.kind = "groups",
           \/ DeleteDone(o) \/ DeleteFails(o)
           \/ RestoreSkip(o) \/ Restore(o) \/ RestoreFails(o) \/ Declined(o)
    PROVE  PayloadInv'
<1> DEFINE Back(g) == site[g] # Missing /\ Ips[g][site[g]] = Ips[g][baseline.state[g]]
           BackNow(g) == site'[g] # Missing /\ Ips[g][site'[g]] = Ips[g][baseline.state[g]]
<1>t. PayloadTypes /\ BaselineInv /\ GroupsInv
    BY DEF PayloadInv
<1>g. GroupIds \subseteq All /\ HeldGroups \subseteq GroupIds /\ HeldGroups \subseteq DOMAIN baseline.state
    BY DEF All, HeldGroups
\* What every such step does: whatever becomes of o, the other groups stay.
<1>1. /\ PayloadTypes' /\ UNCHANGED <<baseline, touched>> /\ o \in tool.todo
      /\ tool'.kind = "groups" /\ tool'.asked = tool.asked /\ tool'.phases = tool.phases
      /\ tool'.live = tool.live /\ tool'.todo = tool.todo \ {o}
      /\ tool.failed \subseteq tool'.failed /\ tool.skipped \subseteq tool'.skipped
      /\ \A u \in GroupIds \ {o} : site'[u] = site[u]
      /\ \/ o \in tool'.failed \cup tool'.skipped
         \/ o \notin HeldGroups /\ site'[o] = Missing
         \/ o \in HeldGroups /\ (tool.live[o] = site[o] \/ Back(o) => BackNow(o))
    <2>1. CASE DeleteDone(o) \/ DeleteFails(o)
        <3>1. \A u \in GroupIds \ {o} : site'[u] = site[u]
            BY <2>1, <1>g, DeleteIs, PayloadAssumption
        <3>2. o \notin HeldGroups
            BY <2>1 DEF DeleteDone, DeleteFails, Deleting
        <3> QED
            BY <2>1, <3>1, <3>2, DeleteIs
    <2>2. CASE RestoreSkip(o) \/ Restore(o) \/ RestoreFails(o) \/ Declined(o)
        <3>1. /\ o \in tool.todo /\ UNCHANGED <<baseline, touched>>
              /\ tool' \in {Handled(o), Noted(o), [Handled(o) EXCEPT !.skipped = @ \cup {o}]}
              /\ \/ UNCHANGED site
                 \/ o \in HeldGroups /\ Written(o, baseline.state[o])
              /\ UNCHANGED budget \/ CallLost
            BY <2>2 DEF RestoreSkip, Restore, RestoreFails, Declined, Restoring, InTurn
        <3>2. /\ tool' \in ToolType /\ tool'.kind = "groups" /\ tool'.asked = tool.asked
              /\ tool'.phases = tool.phases /\ tool'.live = tool.live /\ tool'.todo = tool.todo \ {o}
            BY <3>1, <1>t, HandledType
        <3>3. tool.failed \subseteq tool'.failed /\ tool.skipped \subseteq tool'.skipped
            BY <3>1, <1>t, HandledSets
        <3>4. o \in HeldGroups /\ Written(o, baseline.state[o]) =>
                  /\ site' \in [All -> Contents \cup {Missing}] /\ site'[o] = baseline.state[o]
                  /\ site'[o] # Missing /\ \A u \in All \ {o} : site'[u] = site[u]
            BY <1>t, <1>g, WrittenIs DEF BaselineInv
        <3>5. \A u \in GroupIds \ {o} : site'[u] = site[u]
            BY <3>1, <3>4, <1>g
        <3>6. PayloadTypes'
            BY <3>1, <3>2, <3>4, <1>t, LostIs DEF PayloadTypes
        <3>7. CASE RestoreSkip(o)
            <4>1. o \in HeldGroups /\ UNCHANGED site /\ NoChange(o)
                BY <3>7 DEF RestoreSkip, Restoring
            <4>2. tool.live[o] = site[o] \/ Back(o) => BackNow(o)
                BY <4>1 DEF NoChange
            <4> QED
                BY <3>1, <3>2, <3>3, <3>5, <3>6, <4>1, <4>2
        <3>8. CASE Restore(o)
            <4>1. o \in HeldGroups /\ Written(o, baseline.state[o])
                BY <3>8 DEF Restore, Restoring
            <4>2. BackNow(o)
                BY <4>1, <3>4
            <4> QED
                BY <3>1, <3>2, <3>3, <3>5, <3>6, <4>1, <4>2
        <3>9. CASE RestoreFails(o) \/ Declined(o)
            <4>1. o \in tool'.failed \cup tool'.skipped
                BY <3>9, <1>t, HandledSets DEF RestoreFails, Declined
            <4> QED
                BY <3>1, <3>2, <3>3, <3>5, <3>6, <4>1
        <3> QED
            BY <2>2, <3>7, <3>8, <3>9
    <2> QED
        BY <2>1, <2>2
<1>2. BaselineInv' /\ PushInv' /\ CompleteInv'
    BY <1>1, <1>t, BaselineStays DEF PushInv, CompleteInv
<1>3. HeldGroups' = HeldGroups
    BY <1>1 DEF HeldGroups
<1>4. ASSUME NEW u \in HeldGroups \ (touched' \cup tool'.failed \cup tool'.skipped)
      PROVE  (u \in tool'.todo /\ site'[u] = tool'.live[u]) \/ BackNow(u)
    <2>1. (u \in tool.todo /\ site[u] = tool.live[u]) \/ Back(u)
        BY <1>1, <1>t DEF GroupsInv
    <2>2. CASE u = o
        BY <2>1, <2>2, <1>1
    <2>3. CASE u # o
        BY <2>1, <2>3, <1>1, <1>g
    <2> QED
        BY <2>2, <2>3
<1>5. ASSUME tool'.asked = <<"all">>,
             NEW u \in (GroupIds \cap Live') \ (HeldGroups \cup System \cup touched' \cup tool'.failed \cup tool'.skipped)
      PROVE  u \in tool'.todo
    <2>1. u # o
        BY <1>5, <1>1 DEF Live
    <2>2. u \in Live
        BY <2>1, <1>5, <1>1, <1>g DEF Live
    <2> QED
        BY <2>1, <2>2, <1>5, <1>1, <1>t DEF GroupsInv
<1>6. GroupsInv'
    <2>1. tool'.phases = <<>>
        BY <1>1, <1>t DEF GroupsInv
    <2> QED
        BY <2>1, <1>1, <1>3, <1>4, <1>5 DEF GroupsInv
<1> QED
    BY <1>1, <1>2, <1>6 DEF PayloadInv

\* Short sequences.
LEMMA Tuples ==
    ASSUME NEW S, NEW a \in S, NEW b \in S, NEW c \in S
    PROVE  /\ <<a>> \in Seq(S) /\ <<a, b>> \in Seq(S) /\ <<a, b, c>> \in Seq(S)
           /\ <<a>> # <<>> /\ <<a, b>> # <<>>
<1>1. <<a>> \in Seq(S) /\ <<a>> # <<>>
    OBVIOUS
<1>2. <<a, b>> \in Seq(S) /\ <<a, b>> # <<>>
    OBVIOUS
<1>3. <<a, b, c>> \in Seq(S)
    OBVIOUS
<1> QED
    BY <1>1, <1>2, <1>3

\* A tool starts.
LEMMA StartKeeps ==
    ASSUME PayloadInv,
           \/ \E scope \in {"complete", "groups"}, apply, skip \in BOOLEAN : StartPush(scope, apply, skip)
           \/ \E phases \in RevertPhases : StartRevert(phases)
           \/ \E extraneous \in BOOLEAN : StartGroupsRevert(extraneous)
    PROVE  PayloadInv'
<1>t. PayloadTypes /\ BaselineInv
    BY DEF PayloadInv
<1>u. /\ UNCHANGED <<site, baseline>> /\ touched' = {}
      /\ budget.starts > 0 /\ budget' = [budget EXCEPT !.starts = budget.starts - 1]
    BY DEF StartPush, StartRevert, StartGroupsRevert
<1>b. budget' \in [starts: Nat, edits: Nat, faults: Nat, default: BOOLEAN]
    <2>1. budget.starts - 1 \in Nat
        BY <1>t, <1>u DEF PayloadTypes
    <2> QED
        BY <2>1, <1>t, <1>u DEF PayloadTypes
<1>n. NoTool \in ToolType
    BY DEF NoTool, ToolType
<1>1. ASSUME NEW scope \in {"complete", "groups"}, NEW apply \in BOOLEAN, NEW skip \in BOOLEAN,
             StartPush(scope, apply, skip)
      PROVE  PayloadInv'
    <2> DEFINE phases == PushPhases(scope, skip)
    <2>0. scope \in Words /\ "baseline" \in Words
        BY DEF Words, ClassNames
    <2>1. phases = IF skip THEN <<scope>> ELSE <<"baseline", scope>>
        BY DEF PushPhases
    <2>2. /\ <<scope>> \in Seq(Words) /\ <<"baseline", scope>> \in Seq(Words)
          /\ <<scope>> # <<>> /\ <<"baseline", scope>> # <<>>
        BY <2>0, Tuples
    <2>3. tool' = [NoTool EXCEPT !.kind = "push", !.apply = apply, !.asked = <<scope>>, !.phases = phases]
        BY <1>1 DEF StartPush
    <2> HIDE DEF phases
    <2>4. /\ tool' \in ToolType /\ tool'.kind = "push" /\ tool'.asked = <<scope>> /\ tool'.phases = phases
        BY <2>1, <2>2, <2>3, <1>n DEF ToolType, NoTool
    <2>5. tool'.phases # <<>>
        BY <2>1, <2>2, <2>4
    <2>6. PushInv'
        BY <2>1, <2>4, <2>5 DEF PushInv
    <2> QED
        BY <2>4, <2>6, <1>t, <1>u, <1>b, BaselineStays DEF PayloadInv, PayloadTypes, CompleteInv, GroupsInv
<1>2. ASSUME NEW phases \in RevertPhases, StartRevert(phases) PROVE PayloadInv'
    <2>1. phases \in Seq(ClassNames) /\ phases \in Seq(Words)
        <3>1. /\ ClassNames \subseteq Words
              /\ "policies" \in ClassNames /\ "groups" \in ClassNames /\ "services" \in ClassNames
            BY DEF ClassNames, Words
        <3>2. phases \in Seq(ClassNames)
            BY <3>1, Tuples DEF RevertPhases
        <3> QED
            BY <3>1, <3>2, SeqMonotonic
    <2>2. /\ tool' = [NoTool EXCEPT !.kind = "complete", !.apply = TRUE, !.asked = phases, !.phases = phases]
        BY <1>2 DEF StartRevert
    <2>3. /\ tool' \in ToolType /\ tool'.kind = "complete" /\ tool'.asked = phases /\ tool'.phases = phases
          /\ tool'.todo = {} /\ tool'.deleted = {} /\ tool'.failed = {}
        BY <2>1, <2>2, <1>n DEF ToolType, NoTool
    <2>4. CompleteInv'
        BY <2>1, <2>3 DEF CompleteInv
    <2> QED
        BY <2>3, <2>4, <1>t, <1>u, <1>b, BaselineStays DEF PayloadInv, PayloadTypes, PushInv, GroupsInv
<1>3. ASSUME NEW extraneous \in BOOLEAN, StartGroupsRevert(extraneous) PROVE PayloadInv'
    <2> DEFINE asked == <<IF extraneous THEN "all" ELSE "restore">>
               others == IF extraneous THEN (GroupIds \cap Live) \ (HeldGroups \cup System) ELSE {}
               live1 == [g \in GroupIds |-> site[g]]
               todo == HeldGroups \cup others
    <2>1. asked \in Seq(Words) /\ (asked = <<"all">> => extraneous)
        <3>1. /\ "all" \in Words /\ "restore" \in Words
              /\ extraneous => asked = <<"all">>
              /\ ~extraneous => asked = <<"restore">>
            BY DEF asked, Words
        <3>2. <<"restore">> # <<"all">>
            OBVIOUS
        <3> HIDE DEF asked
        <3> QED
            BY <3>1, <3>2, Tuples
    <2>2. live1 \in [GroupIds -> Contents \cup {Missing}] /\ \A g \in GroupIds : live1[g] = site[g]
        BY <1>t DEF PayloadTypes, All
    <2>3. todo \in SUBSET All /\ HeldGroups \subseteq todo /\ HeldGroups \subseteq GroupIds
        BY DEF HeldGroups, All
    <2>4. extraneous => (GroupIds \cap Live) \ (HeldGroups \cup System) \subseteq todo
        OBVIOUS
    <2>5. tool' = [NoTool EXCEPT !.kind = "groups", !.apply = TRUE, !.asked = asked, !.live = live1,
                                 !.todo = todo]
        BY <1>3 DEF StartGroupsRevert
    <2> HIDE DEF asked, others, live1, todo
    <2>6. /\ tool' \in ToolType /\ tool'.kind = "groups" /\ tool'.asked = asked /\ tool'.phases = <<>>
          /\ tool'.todo = todo /\ tool'.live = live1
        BY <2>1, <2>2, <2>3, <2>5, <1>n DEF ToolType, NoTool
    <2>7. Live' = Live /\ HeldGroups' = HeldGroups
        BY <1>u DEF Live, HeldGroups
    <2>8. GroupsInv'
        BY <2>1, <2>2, <2>3, <2>4, <2>6, <2>7, <1>u DEF GroupsInv
    <2> QED
        BY <2>6, <2>8, <1>t, <1>u, <1>b, BaselineStays DEF PayloadInv, PayloadTypes, PushInv, CompleteInv
<1> QED
    BY <1>1, <1>2, <1>3

\* An administrator writes or deletes an object.
LEMMA SomeoneKeeps ==
    ASSUME PayloadInv, NEW o \in All, SomeoneWrites(o)
    PROVE  PayloadInv'
<1>t. PayloadTypes /\ BaselineInv /\ PushInv /\ CompleteInv /\ GroupsInv
    BY DEF PayloadInv
<1>u. /\ UNCHANGED <<baseline, tool>> /\ touched' = touched \cup {o}
      /\ budget.edits > 0 /\ budget' = [budget EXCEPT !.edits = budget.edits - 1]
      /\ Written(o, "new") \/ Deleted(o)
    BY DEF SomeoneWrites
<1>b. /\ budget' \in [starts: Nat, edits: Nat, faults: Nat, default: BOOLEAN]
      /\ budget'.default = budget.default
    <2>1. budget.edits - 1 \in Nat
        BY <1>t, <1>u DEF PayloadTypes
    <2> QED
        BY <2>1, <1>t, <1>u DEF PayloadTypes
<1>s. /\ site' \in [All -> Contents \cup {Missing}]
      /\ \A u \in All \ {o} : \/ site'[u] = site[u]
                              \/ site'[u] = Missing /\ u \in RuleIds /\ PolicyOf[u] = o
    <2>1. CASE Written(o, "new")
        BY <2>1, <1>t, NewIsContent, WrittenIs
    <2>2. CASE Deleted(o)
        BY <2>2, <1>t, DeletedIs
    <2> QED
        BY <1>u, <2>1, <2>2
<1>l. Live' \subseteq Live \cup {o}
    BY <1>s DEF Live
<1>1. PayloadTypes' /\ BaselineInv'
    BY <1>t, <1>u, <1>b, <1>s, BaselineStays DEF PayloadTypes
<1>2. PushInv'
    <2>1. ASSUME tool.phases = <<>>, tool.apply, tool.kind = "push",
                 NEW u \in Payload(tool.asked[1]) \ (tool.todo \cup tool.skipped \cup touched' \cup tool.failed)
          PROVE  site'[u] = "new" \/ (u \in RuleIds /\ PolicyOf[u] \in touched')
        <3>1. site[u] = "new" \/ (u \in RuleIds /\ PolicyOf[u] \in touched)
            BY <2>1, <1>t, <1>u DEF PushInv
        <3>2. u \in All \ {o}
            BY <2>1, <1>u, PayloadIs
        <3> QED
            BY <3>1, <3>2, <1>u, <1>s
    <2> QED
        BY <2>1, <1>t, <1>u DEF PushInv
<1>3. CompleteInv'
    <2>1. touched' # {}
        BY <1>u
    <2>2. ASSUME tool.kind = "complete", NEW i \in DOMAIN tool.asked
          PROVE  \/ \E j \in DOMAIN tool.phases : tool.phases[j] = tool.asked[i]
                 \/ (ClassOf(tool.asked[i]) \cap Live') \ (DOMAIN baseline.state \cup System \cup touched')
                        \subseteq tool.todo \cup tool.failed
        BY <2>2, <1>t, <1>u, <1>l DEF CompleteInv
    <2> QED
        BY <2>1, <2>2, <1>t, <1>u, <1>b DEF CompleteInv
<1>4. GroupsInv'
    <2>1. GroupIds \subseteq All /\ HeldGroups' = HeldGroups /\ HeldGroups \subseteq GroupIds
        BY <1>u DEF All, HeldGroups
    <2>2. \A u \in GroupIds \ {o} : site'[u] = site[u]
        BY <2>1, <1>s, PayloadAssumption
    <2>3. ASSUME tool.kind = "groups", NEW g \in HeldGroups \ (touched' \cup tool.failed \cup tool.skipped)
          PROVE  \/ g \in tool.todo /\ site'[g] = tool.live[g]
                 \/ site'[g] # Missing /\ Ips[g][site'[g]] = Ips[g][baseline.state[g]]
        <3>1. g \in GroupIds \ {o} /\ g \in HeldGroups \ (touched \cup tool.failed \cup tool.skipped)
            BY <2>1, <2>3, <1>u
        <3> QED
            BY <3>1, <2>2, <2>3, <1>t DEF GroupsInv
    <2>4. ASSUME tool.kind = "groups", tool.asked = <<"all">>
          PROVE  (GroupIds \cap Live') \ (HeldGroups \cup System \cup touched' \cup tool.failed \cup tool.skipped)
                     \subseteq tool.todo
        BY <2>4, <1>t, <1>u, <1>l DEF GroupsInv
    <2> QED
        BY <2>1, <2>3, <2>4, <1>t, <1>u DEF GroupsInv
<1> QED
    BY <1>1, <1>2, <1>3, <1>4 DEF PayloadInv

\* A tool ends, stops, or is killed.
LEMMA EndKeeps ==
    ASSUME PayloadInv, Ends \/ Stops
    PROVE  PayloadInv'
<1>1. tool' = NoTool /\ UNCHANGED <<site, baseline, touched>> /\ (UNCHANGED budget \/ CallLost)
    BY DEF Ends, Stops, Finished
<1>2. NoTool \in ToolType /\ NoTool.kind = "none"
    BY DEF NoTool, ToolType
<1> QED
    BY <1>1, <1>2, LostIs, BaselineStays
    DEF PayloadInv, PayloadTypes, PushInv, CompleteInv, GroupsInv

\* Every behaviour starts with no tool and no baseline.
LEMMA PayloadStarts == PayloadInit => PayloadInv
<1> SUFFICES ASSUME PayloadInit PROVE PayloadInv
    OBVIOUS
<1>1. /\ site \in [All -> Contents \cup {Missing}] /\ tool = NoTool /\ touched = {}
      /\ budget \in [starts: Nat, edits: Nat, faults: Nat, default: BOOLEAN]
      /\ baseline = [state |-> NoState, was |-> {}, complete |-> FALSE, exists |-> FALSE]
    BY PayloadAssumption DEF PayloadInit
<1>2. NoTool \in ToolType /\ NoTool.kind = "none"
    BY DEF NoTool, ToolType
<1>3. BaselineInv
    BY <1>1 DEF BaselineInv, NoState
<1> QED
    BY <1>1, <1>2, <1>3 DEF PayloadInv, PayloadTypes, PushInv, CompleteInv, GroupsInv

\* Every step keeps the invariant.
LEMMA PayloadKeeps == PayloadInv /\ [PayloadNext]_payloadVars => PayloadInv'
<1> SUFFICES ASSUME PayloadInv, [PayloadNext]_payloadVars PROVE PayloadInv'
    OBVIOUS
<1>1. ASSUME NEW o \in All, DeleteDone(o) \/ DeleteFails(o) PROVE PayloadInv'
    <2>1. tool.kind \in {"complete", "groups"}
        BY <1>1 DEF DeleteDone, DeleteFails, Deleting
    <2> QED
        BY <2>1, <1>1, CompleteDeleteKeeps, GroupsKeep
<1>2. ASSUME NEW o \in All, RestoreSkip(o) \/ Restore(o) \/ RestoreFails(o) \/ Declined(o)
      PROVE  PayloadInv'
    BY <1>2, GroupsKeep DEF RestoreSkip, Restore, RestoreFails, Declined, Restoring
<1>3. CASE UNCHANGED payloadVars
    BY <1>3, BaselineStays DEF payloadVars, PayloadInv, PayloadTypes, PushInv, CompleteInv, GroupsInv,
       HeldGroups, Live, Users
<1> QED
    BY <1>1, <1>2, <1>3, PutKeeps, PushKeeps, RevertListKeeps, StartKeeps, SomeoneKeeps, EndKeeps
    DEF PayloadNext

\* A full rollback that ends keeps its promise.  What it could not delete is in
\* use; and as nothing names in a circle, something of it by an object that stays.
LEMMA RevertPromises ==
    ASSUME PayloadInv, Finished, tool.kind = "complete"
    PROVE  FullRevertReturns
<1> DEFINE own == UNION {ClassOf(tool.asked[i]) : i \in DOMAIN tool.asked}
           rest == (own \cap Live) \ (DOMAIN baseline.state \cup System \cup touched)
<1>t. PayloadTypes /\ CompleteInv /\ tool.todo = {} /\ tool.phases = <<>>
    BY DEF PayloadInv, Finished
<1>0. rest \subseteq All
    <2>1. Live \subseteq All
        BY DEF Live
    <2> HIDE DEF own
    <2> QED
        BY <2>1
<1>1. rest \subseteq tool.failed
    <2>1. ASSUME NEW i \in DOMAIN tool.asked
          PROVE  (ClassOf(tool.asked[i]) \cap Live) \ (DOMAIN baseline.state \cup System \cup touched)
                     \subseteq tool.failed
        <3>1. DOMAIN tool.phases = {}
            BY <1>t
        <3> QED
            BY <3>1, <1>t DEF CompleteInv
    <2> QED
        BY <2>1
<1>2. baseline.complete =>
          \A o \in tool.deleted \cap baseline.was : o \in PolicyIds \/ (o \in ServiceIds /\ ~budget.default)
    BY <1>t DEF CompleteInv
<1>3. ASSUME ~tool.faulted, touched = {}, rest # {}, tool.deleted = {}
      PROVE  \E o \in rest : Users(o) \ rest # {}
    <2>1. rest \in (SUBSET All) \ {{}}
        <3> HIDE DEF rest
        <3> QED
            BY <1>0, <1>3
    <2>2. PICK o \in rest : \A u \in rest, c \in Contents : o \notin NamesOf[u][c]
        BY <2>1, NamingAssumption
    <2>3. o \in Live /\ Users(o) # {}
        BY <2>2, <1>1, <1>3, <1>t DEF CompleteInv
    <2>4. PICK u \in Users(o) : TRUE
        BY <2>3
    <2>5. u \in Live /\ site[u] \in Contents /\ o \in NamesOf[u][site[u]]
        BY <2>4, <1>t DEF Users, Live, PayloadTypes
    <2>6. u \notin rest
        BY <2>2, <2>5
    <2> QED
        BY <2>2, <2>4, <2>6
<1> QED
    BY <1>1, <1>2, <1>3 DEF FullRevertReturns

\* Type correctness: every variable of the push of a bundle has its type.
THEOREM PayloadTypeCorrect == PayloadSpec => []PayloadTypes
<1>1. PayloadInv => PayloadTypes
    BY DEF PayloadInv
<1> QED
    BY <1>1, PayloadStarts, PayloadKeeps, PTL DEF PayloadSpec

\* Whatever fails, is skipped or written by others: a push that ends well has
\* written its payload; a full rollback has deleted no group it should keep, and
\* what it left over somebody still uses; a rollback of groups has brought the
\* addresses of every group back.
THEOREM PayloadToolsKeepPromises == PayloadSpec => PayloadPromises
<1> DEFINE Step == Finished => /\ tool.kind = "push" => PushLands
                               /\ tool.kind = "complete" => FullRevertReturns
                               /\ tool.kind = "groups" => GroupsReturn
<1>1. PayloadInv => Step
    <2> SUFFICES ASSUME PayloadInv, Finished
                 PROVE  /\ tool.kind = "push" => PushLands
                        /\ tool.kind = "complete" => FullRevertReturns
                        /\ tool.kind = "groups" => GroupsReturn
        OBVIOUS
    <2>1. tool.todo = {} /\ tool.phases = <<>>
        BY DEF Finished
    <2>2. tool.kind = "push" => PushLands
        BY <2>1 DEF PayloadInv, PushInv, PushLands
    <2>3. tool.kind = "groups" => GroupsReturn
        <3>1. ASSUME tool.kind = "groups", baseline.complete, tool.failed \cup tool.skipped = {}
              PROVE  GroupsReturn
            <4>1. HeldGroups = (GroupIds \cap baseline.was) \ System
                BY <3>1 DEF PayloadInv, BaselineInv, HeldGroups
            <4> QED
                BY <4>1, <3>1, <2>1 DEF PayloadInv, GroupsInv, GroupsReturn
        <3> QED
            BY <3>1 DEF GroupsReturn
    <2> QED
        BY <2>2, <2>3, RevertPromises
<1>2. PayloadInv /\ [PayloadNext]_payloadVars => [Step]_payloadVars
    BY <1>1
<1> QED
    BY <1>2, PayloadStarts, PayloadKeeps, PTL DEF PayloadSpec, PayloadPromises
=============================================================================
