------------------------- MODULE PushRevertProofs -------------------------
(* The baselines of the push and revert tools are an undo stack, for any    *)
(* managers, services, contents and bounds.                                 *)
EXTENDS PushRevertProps, TLAPS

Values == Contents \cup {Absent}

Shape == /\ TypeOK
         /\ job.kind # "revert" => job.left \cup job.pending \subseteq Held(job.files)

\* A meta file names the manager its baseline was taken from.
MetaRight == \A i \in DOMAIN stack : stack[i].owner \in {None, stack[i].of}

\* The manager that a tool writes to has a baseline, the newest.
UnderBaseline ==
    job.kind # "none" => /\ job.m \in Managers
                         /\ stack # <<>> /\ Last(stack).of = job.m

\* A revert that no call has failed still has to do every service that differs
\* from the baseline, except for those somebody else wrote.
RevertPlan ==
    job.kind = "revert" =>
        /\ job.base = Last(stack).state
        /\ job.left \subseteq Held(job.base) /\ job.dels \cap Held(job.base) = {}
        /\ ~job.failed =>
               \A s \in Services :
                   <<job.m, s>> \notin edited /\ target[job.m][s] # job.base[s]
                       => s \in job.dels \cup job.left

IInv == Shape /\ MetaRight /\ UnderBaseline /\ RevertPlan

\* At the start the invariant holds, and there is nothing on the undo stack.
LEMMA InitInv == Init => IInv /\ Undo!Init
<1> SUFFICES ASSUME Init PROVE IInv /\ Undo!Init
  OBVIOUS
<1>1. IInv
  <2>1. Nothing \in States /\ Held(Nothing) = {}
    BY DEF Nothing, States, Held
  <2>2. TypeOK
    BY <2>1, ContentsAssumption, BoundsAssumption DEF Init, TypeOK, NoJob, Job
  <2>3. QED
    BY <2>2 DEF Init, IInv, Shape, MetaRight, UnderBaseline, RevertPlan, NoJob
<1>2. Undo!Init
  <2>1. first \in [Managers -> States]
    BY ContentsAssumption DEF Init
  <2>2. firstBar \in [Keys -> Values]
    BY <2>1 DEF firstBar, Keys, States, Values
  <2>3. valueBar = firstBar
    BY DEF Init, valueBar, firstBar
  <2>4. stackBar = <<>>
    BY DEF Init, stackBar
  <2>5. QED
    BY <2>2, <2>3, <2>4 DEF Undo!Init, Init, Values
<1>3. QED
  BY <1>1, <1>2

-----------------------------------------------------------------------------
(* How steps look in the undo stack                                         *)

\* A step that leaves managers, baselines and edits alone is none of the undo stack.
LEMMA Stutter ==
    ASSUME UNCHANGED <<target, stack, first, edited>>
    PROVE  UNCHANGED Undo!vars
BY DEF Undo!vars, valueBar, stackBar, firstBar

\* A write of one service changes the value of one key.
LEMMA WriteBar ==
    ASSUME Shape, NEW m \in Managers, NEW s \in Services, NEW v \in Values,
           target' = [target EXCEPT ![m][s] = v]
    PROVE  /\ valueBar' = [valueBar EXCEPT ![<<m, s>>] = v]
           /\ target' \in [Managers -> States]
<1>1. target \in [Managers -> States]
  BY DEF Shape, TypeOK
<1>2. target' \in [Managers -> States]
  BY <1>1 DEF States, Values
<1>3. \A k \in Keys : target'[k[1]][k[2]] = IF k = <<m, s>> THEN v ELSE target[k[1]][k[2]]
  BY <1>1 DEF Keys, States
<1>4. QED
  BY <1>2, <1>3 DEF valueBar

\* A write of the running tool changes a key that has a saved value.
LEMMA WriteChanges ==
    ASSUME Shape, UnderBaseline, job.kind # "none", NEW s \in Services, NEW v \in Values,
           target' = [target EXCEPT ![job.m][s] = v], UNCHANGED <<stack, first, edited>>
    PROVE  Undo!Next
<1> DEFINE k == <<job.m, s>>
<1>1. job.m \in Managers /\ stack # <<>> /\ stack[Len(stack)].of = job.m
  BY DEF UnderBaseline, Last
<1>2. k \in Keys /\ k \in {stack[Len(stack)].of} \X Services
  BY <1>1 DEF Keys
<1>3. Len(stack) \in DOMAIN stack
  BY <1>1 DEF Shape, TypeOK
<1>4. k \in DOMAIN stackBar[Len(stack)] /\ Len(stack) \in DOMAIN stackBar
  BY <1>2, <1>3 DEF stackBar
<1>5. k \in Undo!Open
  BY <1>4 DEF Undo!Open
<1>6. valueBar' = [valueBar EXCEPT ![k] = v]
  BY <1>1, WriteBar
<1>7. UNCHANGED <<stackBar, edited, firstBar>>
  BY DEF stackBar, firstBar
<1>8. Undo!Change(k, v)
  BY <1>5, <1>6, <1>7 DEF Undo!Change
<1>9. QED
  BY <1>2, <1>8 DEF Undo!Next, Values

\* A new baseline saves every key of its manager.
LEMMA SaveStep ==
    ASSUME Shape, NEW m \in Managers, NEW b, b.of = m, b.state = target[m],
           stack' = Append(stack, b), UNCHANGED <<target, first, edited>>
    PROVE  Undo!Next
<1> DEFINE K == {m} \X Services
           n == Len(stack)
<1>1. K \in SUBSET Keys
  BY DEF Keys
<1>2. stack \in Seq(Baseline)
  BY DEF Shape, TypeOK
<1>3. /\ DOMAIN stack = 1..n /\ DOMAIN stack' = 1..(n + 1) /\ n \in Nat
      /\ \A i \in 1..n : stack'[i] = stack[i]
      /\ stack'[n + 1] = b
  BY <1>2
<1> DEFINE bar(x) == [k \in {x.of} \X Services |-> x.state[k[2]]]
<1>4. bar(b) = [k \in K |-> valueBar[k]]
  BY <1>1 DEF valueBar, Keys
<1>5. stackBar = [i \in 1..n |-> bar(stack[i])] /\ stackBar' = [i \in 1..(n + 1) |-> bar(stack'[i])]
  BY <1>3 DEF stackBar
<1> HIDE DEF bar
<1>6. stackBar' = Append(stackBar, bar(b))
  BY <1>3, <1>5
<1>7. UNCHANGED <<valueBar, edited, firstBar>>
  BY DEF valueBar, firstBar
<1>8. Undo!Save(K)
  BY <1>4, <1>6, <1>7 DEF Undo!Save
<1>9. QED
  BY <1>1, <1>8 DEF Undo!Next

\* Renaming a baseline that its manager agrees with takes the top off.
LEMMA TakeOffStep ==
    ASSUME Shape, stack # <<>>, stack' = Front(stack), UNCHANGED <<target, first, edited>>,
           Last(stack).of \in Managers,
           \A s \in Services : <<Last(stack).of, s>> \notin edited =>
               target[Last(stack).of][s] = Last(stack).state[s]
    PROVE  Undo!Next
<1> DEFINE n == Len(stack)
           bar(x) == [k \in {x.of} \X Services |-> x.state[k[2]]]
<1>1. stack \in Seq(Baseline) /\ n \in Nat \ {0} /\ DOMAIN stack = 1..n
  BY DEF Shape, TypeOK
<1>2. stack' = SubSeq(stack, 1, n - 1) /\ DOMAIN stack' = 1..(n - 1)
      /\ \A i \in 1..(n - 1) : stack'[i] = stack[i]
  BY <1>1 DEF Front
<1>3. stackBar = [i \in 1..n |-> bar(stack[i])] /\ stackBar' = [i \in 1..(n - 1) |-> bar(stack'[i])]
  BY <1>1, <1>2 DEF stackBar
<1>5. \A k \in DOMAIN bar(Last(stack)) \ edited : valueBar[k] = bar(Last(stack))[k]
  BY DEF valueBar, Keys
<1> HIDE DEF bar
<1>4. Last(stackBar) = bar(Last(stack)) /\ stackBar # <<>> /\ Len(stackBar) = n
  BY <1>1, <1>3 DEF Last
<1>6. stackBar' = Front(stackBar)
  BY <1>1, <1>2, <1>3, <1>4 DEF Front
<1>7. UNCHANGED <<valueBar, edited, firstBar>>
  BY DEF valueBar, firstBar
<1>8. Undo!TakeOff
  BY <1>4, <1>5, <1>6, <1>7 DEF Undo!TakeOff, Undo!Last, Undo!Front, Last, Front
<1>9. QED
  BY <1>8 DEF Undo!Next

\* What somebody else writes becomes loose.
LEMMA DisturbStep ==
    ASSUME Shape, NEW m \in Managers, NEW s \in Services, NEW v \in Values,
           target' = [target EXCEPT ![m][s] = v], edited' = edited \cup {<<m, s>>},
           UNCHANGED <<stack, first>>
    PROVE  Undo!Next
<1>1. valueBar' = [valueBar EXCEPT ![<<m, s>>] = v]
  BY WriteBar
<1>2. <<m, s>> \in Keys
  BY DEF Keys
<1>3. UNCHANGED <<stackBar, firstBar>>
  BY DEF stackBar, firstBar
<1>4. Undo!Disturb(<<m, s>>, v)
  BY <1>1, <1>3 DEF Undo!Disturb
<1>5. QED
  BY <1>2, <1>4 DEF Undo!Next, Values

-----------------------------------------------------------------------------
(* How steps keep the invariant                                             *)

\* The values that steps give the job.  A push has saved its meta file.
LEMMA KindType == ASSUME NEW j \in Job PROVE [j EXCEPT !.kind = "push"] \in Job
BY DEF Job

\* The next service of a loop is done.
LEMMA LeftType ==
    ASSUME NEW j \in Job, NEW L \in SUBSET Services
    PROVE  /\ [j EXCEPT !.left = L] \in Job
           /\ [j EXCEPT !.left = L, !.wrote = TRUE] \in Job
           /\ [j EXCEPT !.left = L, !.failed = TRUE] \in Job
BY DEF Job

\* A service of a push is done, or put off.
LEMMA PendingType ==
    ASSUME NEW j \in Job, NEW L \in SUBSET Services, NEW P \in SUBSET Services
    PROVE  /\ [j EXCEPT !.left = L, !.pending = P] \in Job
           /\ [j EXCEPT !.left = L, !.pending = P, !.progress = TRUE, !.wrote = TRUE] \in Job
BY DEF Job

\* A service of a revert is deleted, or not.
LEMMA DelsType ==
    ASSUME NEW j \in Job, NEW L \in SUBSET Services, NEW P \in SUBSET Services
    PROVE  /\ [j EXCEPT !.dels = P, !.wrote = TRUE] \in Job
           /\ [j EXCEPT !.dels = P, !.failed = TRUE] \in Job
           /\ [j EXCEPT !.dels = P, !.left = L, !.failed = TRUE] \in Job
BY DEF Job

\* The next round of retries.
LEMMA RoundType ==
    ASSUME NEW j \in Job, NEW L \in SUBSET Services, NEW n \in 0..RetryRounds
    PROVE  [j EXCEPT !.left = L, !.round = n, !.progress = FALSE] \in Job
BY DEF Job

\* The push goes on: what it still has to do is in its bundle.
LEMMA PushFrame ==
    ASSUME IInv, job.kind = "push", job' \in Job, job'.kind = "push",
           job'.m = job.m, job'.files = job.files,
           job'.left \cup job'.pending \subseteq Held(job.files),
           target' \in [Managers -> States], faults' \in 0..MaxFaults,
           UNCHANGED <<stack, first, edited, pushes, edits>>
    PROVE  IInv'
BY DEF IInv, Shape, TypeOK, MetaRight, UnderBaseline, RevertPlan

\* The tool is over and the baselines stay.
LEMMA EndFrame ==
    ASSUME IInv, job' = NoJob, faults' \in 0..MaxFaults,
           UNCHANGED <<target, stack, first, edited, pushes, edits>>
    PROVE  IInv'
<1>1. NoJob \in Job /\ NoJob.kind = "none" /\ NoJob.left = {} /\ NoJob.pending = {}
  BY BoundsAssumption DEF NoJob, Job, Nothing, States
<1>2. QED
  BY <1>1 DEF IInv, Shape, TypeOK, MetaRight, UnderBaseline, RevertPlan

\* The revert goes on: as long as no call has failed, a service leaves its plan
\* only when it is as the baseline says, and no other service changes.
LEMMA RevertFrame ==
    ASSUME IInv, job.kind = "revert", job' \in Job, job'.kind = "revert",
           job'.m = job.m, job'.base = job.base,
           job'.left \subseteq job.left, job'.dels \subseteq job.dels,
           target' \in [Managers -> States], faults' \in 0..MaxFaults,
           ~job'.failed =>
               /\ ~job.failed
               /\ \A s \in Services :
                      \/ target'[job.m][s] = job.base[s]
                      \/ /\ target'[job.m][s] = target[job.m][s]
                         /\ s \in job.dels \cup job.left => s \in job'.dels \cup job'.left,
           UNCHANGED <<stack, first, edited, pushes, edits>>
    PROVE  IInv'
<1>1. Shape' /\ MetaRight' /\ UnderBaseline'
  BY DEF IInv, Shape, TypeOK, MetaRight, UnderBaseline
<1>2. RevertPlan'
  BY DEF IInv, RevertPlan
<1>3. QED
  BY <1>1, <1>2 DEF IInv

\* Every step of a push is a step of the undo stack.
LEMMA PushSteps ==
    ASSUME IInv, PushMeta \/ PushRetry \/ PushEnd
                 \/ \E s \in Services : PushSkip(s) \/ PushWrite(s) \/ PushMissing(s) \/ PushFails(s)
    PROVE  IInv' /\ [Undo!Next]_(Undo!vars)
<1>j. job \in Job /\ job.files \in States /\ faults \in 0..MaxFaults
      /\ target \in [Managers -> States] /\ stack \in Seq(Baseline)
  BY DEF IInv, Shape, TypeOK, Job
<1>f. Fault => faults' \in 0..MaxFaults
  BY <1>j, BoundsAssumption DEF Fault
<1>p. \A s \in Held(job.files) : s \in Services /\ Payload(s) \in Contents
  BY <1>j, ContentsAssumption DEF Held, States, Payload
<1>1. CASE PushMeta
  <2>1. job.m \in Managers /\ stack # <<>> /\ stack[Len(stack)].of = job.m
    BY <1>1 DEF PushMeta, IInv, UnderBaseline, Last
  <2>2. /\ stack' \in Seq(Baseline) /\ DOMAIN stack' = DOMAIN stack /\ Len(stack') = Len(stack)
        /\ \A i \in DOMAIN stack : /\ stack'[i].of = stack[i].of /\ stack'[i].state = stack[i].state
                                  /\ stack'[i].owner \in {stack[i].owner, stack[i].of}
    <3>1. stack' = [stack EXCEPT ![Len(stack)] = [stack[Len(stack)] EXCEPT !.owner = job.m]]
      BY <1>1 DEF PushMeta
    <3>2. Len(stack) \in DOMAIN stack /\ stack[Len(stack)] \in Baseline
      BY <1>j, <2>1
    <3>3. [stack[Len(stack)] EXCEPT !.owner = job.m] \in Baseline
      BY <3>2, <2>1 DEF Baseline
    <3>4. /\ stack' \in Seq(Baseline) /\ DOMAIN stack' = DOMAIN stack /\ Len(stack') = Len(stack)
      BY <3>1, <3>2, <3>3, <1>j
    <3>5. ASSUME NEW i \in DOMAIN stack
          PROVE  /\ stack'[i].of = stack[i].of /\ stack'[i].state = stack[i].state
                 /\ stack'[i].owner \in {stack[i].owner, stack[i].of}
      <4>1. stack[i] \in Baseline
        BY <1>j
      <4>2. stack'[i] = IF i = Len(stack) THEN [stack[i] EXCEPT !.owner = job.m] ELSE stack[i]
        BY <3>1
      <4>3. QED
        BY <4>1, <4>2, <2>1 DEF Baseline
    <3>6. QED
      BY <3>4, <3>5
  <2>3. job' \in Job /\ job'.m = job.m /\ job'.kind = "push" /\ job'.left = job.left
        /\ job'.pending = job.pending /\ job'.files = job.files
    <3>1. job' = [job EXCEPT !.kind = "push"]
      BY <1>1 DEF PushMeta
    <3>2. job' \in Job
      BY <3>1, <1>j, KindType
    <3>3. QED
      BY <3>1, <3>2, <1>j DEF Job
  <2>4. IInv'
    <3>1. Shape'
      BY <1>1, <2>2, <2>3 DEF PushMeta, IInv, Shape, TypeOK
    <3>2. MetaRight'
      BY <2>2 DEF IInv, MetaRight
    <3>3. UnderBaseline'
      BY <2>1, <2>2, <2>3, <1>j DEF UnderBaseline, Last
    <3>4. QED
      BY <3>1, <3>2, <3>3, <2>3 DEF IInv, RevertPlan
  <2>5. stackBar' = stackBar
    BY <2>2 DEF stackBar
  <2>6. UNCHANGED Undo!vars
    BY <1>1, <2>5 DEF PushMeta, Undo!vars, valueBar, firstBar
  <2>7. QED
    BY <2>4, <2>6
<1>2. CASE PushRetry
  <2>1. job' \in Job /\ job'.kind = "push" /\ job'.m = job.m /\ job'.files = job.files
        /\ job'.left = job.pending /\ job'.pending = job.pending
    <3>1. job' = [job EXCEPT !.left = job.pending, !.round = job.round + 1, !.progress = FALSE]
          /\ job.kind = "push"
      BY <1>2 DEF PushRetry
    <3>2. job.pending \in SUBSET Services /\ job.round + 1 \in 0..RetryRounds
      BY <1>2, <1>j, BoundsAssumption DEF PushRetry, MayRetry, Job
    <3>3. job' \in Job
      BY <3>1, <3>2, <1>j, RoundType
    <3>4. QED
      BY <3>1, <3>3, <1>j DEF Job
  <2>2. IInv'
    BY <1>2, <1>j, <2>1, PushFrame DEF PushRetry, IInv, Shape
  <2>3. QED
    BY <1>2, <2>2, Stutter DEF PushRetry
<1>3. CASE PushEnd
  BY <1>3, <1>j, EndFrame, Stutter DEF PushEnd
<1>4. ASSUME NEW s \in Services, PushSkip(s) \/ PushMissing(s)
      PROVE  IInv' /\ [Undo!Next]_(Undo!vars)
  <2>1. job' \in Job /\ job'.kind = "push" /\ job'.m = job.m /\ job'.files = job.files
        /\ job'.left \subseteq job.left /\ job'.pending \subseteq job.pending \cup {s}
        /\ s \in job.left /\ job.kind = "push"
    <3>1. CASE PushSkip(s)
      <4>1. /\ job' = [job EXCEPT !.left = job.left \ {s}]
            /\ job.kind = "push" /\ s \in job.left
            /\ faults' \in 0..MaxFaults
        BY <3>1, <1>j, <1>f DEF PushSkip
      <4>2. job' \in Job
        <5>1. job.left \ {s} \in SUBSET Services /\ job.pending \cup {s} \in SUBSET Services
              /\ job.pending \ {s} \in SUBSET Services
          BY <1>j DEF Job
        <5>2. QED
          BY <4>1, <5>1, <1>j, LeftType, PendingType
      <4>3. QED
        BY <4>1, <4>2, <1>j DEF Job
    <3>2. CASE PushMissing(s)
      <4>1. /\ job' = [job EXCEPT !.left = job.left \ {s}, !.pending = job.pending \cup {s}]
            /\ job.kind = "push" /\ s \in job.left
            /\ faults' \in 0..MaxFaults
        BY <3>2, <1>j, <1>f DEF PushMissing
      <4>2. job' \in Job
        <5>1. job.left \ {s} \in SUBSET Services /\ job.pending \cup {s} \in SUBSET Services
              /\ job.pending \ {s} \in SUBSET Services
          BY <1>j DEF Job
        <5>2. QED
          BY <4>1, <5>1, <1>j, LeftType, PendingType
      <4>3. QED
        BY <4>1, <4>2, <1>j DEF Job
    <3>3. QED
      BY <1>4, <3>1, <3>2
  <2>2. IInv'
    BY <1>4, <1>j, <2>1, PushFrame DEF PushSkip, PushMissing, IInv, Shape
  <2>3. QED
    BY <1>4, <2>2, Stutter DEF PushSkip, PushMissing
<1>5. ASSUME NEW s \in Services, PushWrite(s) \/ PushFails(s)
      PROVE  IInv' /\ [Undo!Next]_(Undo!vars)
  <2>1. job' \in Job /\ job'.kind = "push" /\ job'.m = job.m /\ job'.files = job.files
        /\ job'.left \subseteq job.left /\ job'.pending \subseteq job.pending
        /\ s \in job.left /\ job.kind = "push" /\ faults' \in 0..MaxFaults
    <3>1. CASE PushWrite(s)
      <4>1. /\ job' = [job EXCEPT !.left = job.left \ {s}, !.pending = job.pending \ {s},
                              !.progress = TRUE, !.wrote = TRUE]
            /\ job.kind = "push" /\ s \in job.left
            /\ faults' \in 0..MaxFaults
        BY <3>1, <1>j, <1>f DEF PushWrite
      <4>2. job' \in Job
        <5>1. job.left \ {s} \in SUBSET Services /\ job.pending \cup {s} \in SUBSET Services
              /\ job.pending \ {s} \in SUBSET Services
          BY <1>j DEF Job
        <5>2. QED
          BY <4>1, <5>1, <1>j, LeftType, PendingType
      <4>3. QED
        BY <4>1, <4>2, <1>j DEF Job
    <3>2. CASE PushFails(s)
      <4>1. /\ job' = [job EXCEPT !.left = job.left \ {s}, !.pending = job.pending \ {s}]
            /\ job.kind = "push" /\ s \in job.left
            /\ faults' \in 0..MaxFaults
        BY <3>2, <1>j, <1>f DEF PushFails
      <4>2. job' \in Job
        <5>1. job.left \ {s} \in SUBSET Services /\ job.pending \cup {s} \in SUBSET Services
              /\ job.pending \ {s} \in SUBSET Services
          BY <1>j DEF Job
        <5>2. QED
          BY <4>1, <5>1, <1>j, LeftType, PendingType
      <4>3. QED
        BY <4>1, <4>2, <1>j DEF Job
    <3>3. QED
      BY <1>5, <3>1, <3>2
  <2>2. job.left \cup job.pending \subseteq Held(job.files)
    BY <2>1 DEF IInv, Shape
  <2>3. Payload(s) \in Contents
    BY <1>p, <2>1, <2>2
  <2>4. CASE UNCHANGED target
    <3>1. IInv'
      BY <1>5, <1>j, <2>1, <2>2, <2>4, PushFrame DEF PushWrite, PushFails
    <3>2. QED
      BY <1>5, <2>4, <3>1, Stutter DEF PushWrite, PushFails
  <2>5. CASE Write(job.m, s, Payload(s))
    <3>1. job.m \in Managers
      BY <2>1 DEF IInv, UnderBaseline
    <3>2. target' = [target EXCEPT ![job.m][s] = Payload(s)] /\ Payload(s) \in Values
      BY <2>3, <2>5 DEF Write, Values
    <3>3. target' \in [Managers -> States]
      BY <3>1, <3>2, WriteBar DEF IInv
    <3>4. IInv'
      BY <1>5, <2>1, <2>2, <3>3, PushFrame DEF PushWrite, PushFails
    <3>5. Undo!Next
      BY <1>5, <2>1, <3>2, WriteChanges DEF PushWrite, PushFails, IInv
    <3>6. QED
      BY <3>4, <3>5
  <2>6. QED
    BY <1>5, <2>4, <2>5 DEF PushWrite, PushFails
<1>6. QED
  BY <1>1, <1>2, <1>3, <1>4, <1>5

\* Every step of a revert that goes on is a step of the undo stack.
LEMMA RevertSteps ==
    ASSUME IInv, NEW s \in Services,
           RevertDelete(s) \/ RevertDeleteRefused(s) \/ RevertRestore(s)
           \/ RevertRestoreRefused(s) \/ RevertFails(s)
    PROVE  IInv' /\ [Undo!Next]_(Undo!vars)
<1>j. job \in Job /\ job.base \in States /\ job.left \in SUBSET Services /\ job.dels \in SUBSET Services
      /\ faults \in 0..MaxFaults /\ target \in [Managers -> States]
  BY DEF IInv, Shape, TypeOK, Job
<1>f. Fault => faults' \in 0..MaxFaults
  BY <1>j, BoundsAssumption DEF Fault
<1>k. job.kind = "revert"
  BY DEF RevertDelete, RevertDeleteRefused, RevertRestore, RevertRestoreRefused, RevertFails
<1>m. job.m \in Managers
  BY <1>k DEF IInv, UnderBaseline
<1>b. job.left \subseteq Held(job.base) /\ job.dels \cap Held(job.base) = {}
  BY <1>k DEF IInv, RevertPlan
<1>a. s \in job.dels => job.base[s] = Absent
  BY <1>b DEF Held
<1>c. s \in job.left => job.base[s] \in Values
  BY <1>j DEF States, Values
<1>t. ASSUME NEW v \in Values, target' = [target EXCEPT ![job.m][s] = v]
      PROVE  /\ target' \in [Managers -> States]
             /\ target'[job.m][s] = v
             /\ \A q \in Services : q # s => target'[job.m][q] = target[job.m][q]
  BY <1>t, <1>j, <1>m, WriteBar DEF IInv, States
<1>1. CASE RevertDelete(s)
  <2>1. job' = [job EXCEPT !.dels = job.dels \ {s}, !.wrote = TRUE] /\ s \in job.dels
        /\ target' = [target EXCEPT ![job.m][s] = Absent] /\ Absent \in Values
    BY <1>1 DEF RevertDelete, Delete, Values
  <2>2. job' \in Job
    BY <2>1, <1>j, DelsType
  <2>3. job'.kind = "revert" /\ job'.m = job.m /\ job'.base = job.base /\ job'.left = job.left
        /\ job'.dels = job.dels \ {s} /\ job'.failed = job.failed
    BY <2>1, <1>j, <1>k DEF Job
  <2>4. UNCHANGED <<stack, first, edited, pushes, edits, faults>>
    BY <1>1, <1>j DEF RevertDelete
  <2>5. IInv'
    BY <1>j, <1>k, <1>a, <1>t, <2>1, <2>2, <2>3, <2>4, RevertFrame
  <2>6. Undo!Next
    BY <1>k, <2>1, <2>4, WriteChanges DEF IInv
  <2>7. QED
    BY <2>5, <2>6
<1>2. CASE RevertDeleteRefused(s)
  <2>1. job' = [job EXCEPT !.dels = job.dels \ {s}, !.failed = TRUE]
        /\ UNCHANGED <<target, stack, first, edited, pushes, edits, faults>>
    BY <1>2 DEF RevertDeleteRefused
  <2>2. job' \in Job
    BY <2>1, <1>j, DelsType
  <2>3. job'.kind = "revert" /\ job'.m = job.m /\ job'.base = job.base /\ job'.left = job.left
        /\ job'.dels = job.dels \ {s} /\ job'.failed
    BY <2>1, <1>j, <1>k DEF Job
  <2>4. IInv'
    BY <1>j, <1>k, <2>1, <2>2, <2>3, RevertFrame
  <2>5. QED
    BY <2>1, <2>4, Stutter
<1>3. CASE RevertRestore(s)
  <2>1. job' = [job EXCEPT !.left = job.left \ {s}, !.wrote = TRUE] /\ s \in job.left
        /\ target' = [target EXCEPT ![job.m][s] = job.base[s]]
        /\ UNCHANGED <<stack, first, edited, pushes, edits, faults>>
    BY <1>3 DEF RevertRestore, Write
  <2>2. job' \in Job
    BY <2>1, <1>j, LeftType
  <2>3. job'.kind = "revert" /\ job'.m = job.m /\ job'.base = job.base /\ job'.dels = job.dels
        /\ job'.left = job.left \ {s} /\ job'.failed = job.failed
    BY <2>1, <1>j, <1>k DEF Job
  <2>4. IInv'
    BY <1>j, <1>k, <1>c, <1>t, <2>1, <2>2, <2>3, RevertFrame
  <2>5. Undo!Next
    BY <1>k, <1>c, <2>1, WriteChanges DEF IInv
  <2>6. QED
    BY <2>4, <2>5
<1>4. CASE RevertRestoreRefused(s)
  <2>1. job' = [job EXCEPT !.left = job.left \ {s}, !.failed = TRUE]
        /\ UNCHANGED <<target, stack, first, edited, pushes, edits, faults>>
    BY <1>4 DEF RevertRestoreRefused
  <2>2. job' \in Job
    BY <2>1, <1>j, LeftType
  <2>3. job'.kind = "revert" /\ job'.m = job.m /\ job'.base = job.base /\ job'.dels = job.dels
        /\ job'.left = job.left \ {s} /\ job'.failed
    BY <2>1, <1>j, <1>k DEF Job
  <2>4. IInv'
    BY <1>j, <1>k, <2>1, <2>2, <2>3, RevertFrame
  <2>5. QED
    BY <2>1, <2>4, Stutter
<1>5. CASE RevertFails(s)
  <2> DEFINE L == IF job.dels = {} THEN job.left \ {s} ELSE job.left
  <2>1. job' = [job EXCEPT !.dels = job.dels \ {s}, !.left = L, !.failed = TRUE]
        /\ UNCHANGED <<stack, first, edited, pushes, edits>> /\ faults' \in 0..MaxFaults
    BY <1>5, <1>j, <1>f DEF RevertFails
  <2>2. L \in SUBSET Services /\ L \subseteq job.left
    BY <1>j
  <2>3. job' \in Job
    BY <2>1, <2>2, <1>j, DelsType
  <2>4. job'.kind = "revert" /\ job'.m = job.m /\ job'.base = job.base /\ job'.dels = job.dels \ {s}
        /\ job'.left = L /\ job'.failed
    BY <2>1, <1>j, <1>k DEF Job
  <2>5. CASE UNCHANGED target
    <3>1. IInv'
      BY <1>j, <1>k, <2>1, <2>2, <2>3, <2>4, <2>5, RevertFrame
    <3>2. QED
      BY <2>1, <2>5, <3>1, Stutter
  <2>6. CASE \E v \in Values : target' = [target EXCEPT ![job.m][s] = v]
    <3>1. PICK v \in Values : target' = [target EXCEPT ![job.m][s] = v]
      BY <2>6
    <3>2. target' \in [Managers -> States]
      BY <1>t, <3>1
    <3>3. IInv'
      BY <1>k, <2>1, <2>2, <2>3, <2>4, <3>2, RevertFrame
    <3>4. Undo!Next
      BY <1>k, <2>1, <3>1, WriteChanges DEF IInv
    <3>5. QED
      BY <3>3, <3>4
  <2>7. QED
    BY <1>5, <1>c, <2>5, <2>6 DEF RevertFails, Delete, Write, Values
<1>6. QED
  BY <1>1, <1>2, <1>3, <1>4, <1>5

\* A push saves what its manager holds on top of the stack.
LEMMA PushStarts ==
    ASSUME IInv, NEW m \in Managers, PushStart(m)
    PROVE  IInv' /\ Undo!Next
<1>1. PICK files \in Bundles, note \in BOOLEAN, force \in BOOLEAN :
        job' = [NoJob EXCEPT !.kind = "begin", !.m = m, !.base = target[m], !.files = files,
                             !.note = note, !.force = force, !.left = Held(files)]
  BY DEF PushStart
<1> DEFINE b == [owner |-> None, of |-> m, state |-> target[m]]
<1>2. stack' = Append(stack, b) /\ b \in Baseline /\ b.of = m /\ b.state = target[m]
      /\ b.owner = None
  BY DEF PushStart, IInv, Shape, TypeOK, Baseline
<1>3. UNCHANGED <<target, first, edited, edits, faults>> /\ pushes' \in 0..MaxPushes
  BY BoundsAssumption DEF PushStart, IInv, Shape, TypeOK
<1>4. files \in States /\ Held(files) \in SUBSET Services /\ target[m] \in States
  BY ContentsAssumption DEF Held, IInv, Shape, TypeOK
<1>5. job' \in Job
  <2>1. 0 \in 0..RetryRounds
    BY BoundsAssumption
  <2>2. job' = [kind |-> "begin", m |-> m, base |-> target[m], files |-> files, note |-> note,
                force |-> force, dels |-> {}, left |-> Held(files), pending |-> {},
                round |-> 0, progress |-> FALSE, wrote |-> FALSE, failed |-> FALSE]
    BY <1>1 DEF NoJob
  <2>3. QED
    BY <1>4, <2>1, <2>2 DEF Job
<1>6. job'.kind = "begin" /\ job'.m = m /\ job'.files = files /\ job'.left = Held(files)
      /\ job'.pending = {}
  BY <1>1 DEF NoJob
<1> HIDE DEF b
<1>7. stack \in Seq(Baseline)
  BY DEF IInv, Shape, TypeOK
<1>8. /\ stack' \in Seq(Baseline) /\ stack' # <<>> /\ Last(stack') = b
      /\ DOMAIN stack' = 1..(Len(stack) + 1) /\ DOMAIN stack = 1..Len(stack) /\ Len(stack) \in Nat
      /\ \A i \in DOMAIN stack : stack'[i] = stack[i]
      /\ stack'[Len(stack) + 1] = b
  BY <1>2, <1>7 DEF Last
<1>9. IInv'
  <2>1. Shape'
    BY <1>3, <1>5, <1>6, <1>8 DEF IInv, Shape, TypeOK
  <2>2. MetaRight'
    BY <1>2, <1>8 DEF IInv, MetaRight
  <2>3. UnderBaseline' /\ RevertPlan'
    BY <1>2, <1>6, <1>8 DEF UnderBaseline, RevertPlan
  <2>4. QED
    BY <2>1, <2>2, <2>3 DEF IInv
<1>10. Undo!Next
  BY <1>2, <1>3, SaveStep DEF IInv
<1>11. QED
  BY <1>9, <1>10

\* A revert plans every service that differs from the newest baseline, which is
\* one of its own manager.
LEMMA RevertStarts ==
    ASSUME IInv, NEW m \in Managers, RevertStart(m)
    PROVE  IInv' /\ UNCHANGED Undo!vars
<1> DEFINE state == Last(stack).state
<1>1. PICK force \in BOOLEAN :
        job' = [NoJob EXCEPT !.kind = "revert", !.m = m, !.base = state,
                             !.dels = ToDelete(m, state), !.left = ToRestore(m, state, force)]
  BY DEF RevertStart
<1>2. UNCHANGED <<target, stack, first, edited, pushes, edits, faults>>
      /\ stack # <<>> /\ MayRestore(m, Last(stack))
  BY DEF RevertStart
<1>3. stack \in Seq(Baseline) /\ target \in [Managers -> States]
  BY DEF IInv, Shape, TypeOK
<1>4. Len(stack) \in DOMAIN stack /\ Last(stack) \in Baseline /\ state \in States
  <2>1. Len(stack) \in DOMAIN stack
    BY <1>2, <1>3
  <2>2. Last(stack) \in Baseline
    BY <1>3, <2>1 DEF Last
  <2>3. QED
    BY <2>1, <2>2 DEF Baseline
<1>5. Last(stack).of = m
  BY <1>2, <1>4, ContentsAssumption DEF MayRestore, IInv, MetaRight, Last
<1>6. /\ ToDelete(m, state) \in SUBSET Services /\ ToRestore(m, state, force) \in SUBSET Services
      /\ ToDelete(m, state) \cap Held(state) = {} /\ ToRestore(m, state, force) \subseteq Held(state)
      /\ \A s \in Services : target[m][s] # state[s]
            => s \in ToDelete(m, state) \cup ToRestore(m, state, force)
  BY DEF ToDelete, ToRestore, Held
<1> HIDE DEF state
<1>7. job' \in Job
  <2>1. Nothing \in States /\ 0 \in 0..RetryRounds
    BY BoundsAssumption DEF Nothing, States
  <2>2. job' = [kind |-> "revert", m |-> m, base |-> state, files |-> Nothing, note |-> FALSE,
                force |-> FALSE, dels |-> ToDelete(m, state), left |-> ToRestore(m, state, force),
                pending |-> {}, round |-> 0, progress |-> FALSE, wrote |-> FALSE, failed |-> FALSE]
    BY <1>1 DEF NoJob
  <2>3. QED
    BY <1>4, <1>6, <2>1, <2>2 DEF Job
<1>8. job'.kind = "revert" /\ job'.m = m /\ job'.base = state /\ job'.dels = ToDelete(m, state)
      /\ job'.left = ToRestore(m, state, force)
  BY <1>1 DEF NoJob
<1>9. IInv'
  <2>1. Shape' /\ MetaRight'
    BY <1>2, <1>7, <1>8 DEF IInv, Shape, TypeOK, MetaRight
  <2>2. UnderBaseline'
    BY <1>2, <1>5, <1>8 DEF UnderBaseline
  <2>3. RevertPlan'
    BY <1>2, <1>6, <1>8 DEF RevertPlan, state
  <2>4. QED
    BY <2>1, <2>2, <2>3 DEF IInv
<1>10. QED
  BY <1>2, <1>9, Stutter

\* A revert takes its baseline off only when no call has failed, and then the
\* manager is as the baseline says, but for what others wrote.
LEMMA RevertEnds ==
    ASSUME IInv, RevertEnd
    PROVE  IInv' /\ [Undo!Next]_(Undo!vars)
<1>1. job.kind = "revert" /\ job.dels = {} /\ job.left = {} /\ stack' = Renamed /\ job' = NoJob
      /\ UNCHANGED <<target, first, edited, pushes, edits, faults>>
  BY DEF RevertEnd
<1>2. CASE job.failed
  <2>1. stack' = stack
    BY <1>1, <1>2 DEF Renamed
  <2>2. IInv'
    BY <1>1, <2>1, EndFrame DEF IInv, Shape, TypeOK
  <2>3. QED
    BY <1>1, <2>1, <2>2, Stutter
<1>3. CASE ~job.failed
  <2>1. stack' = Front(stack)
    BY <1>1, <1>3 DEF Renamed
  <2>2. job.m \in Managers /\ stack # <<>> /\ Last(stack).of = job.m
    BY <1>1 DEF IInv, UnderBaseline
  <2>3. \A s \in Services : <<job.m, s>> \notin edited => target[job.m][s] = Last(stack).state[s]
    BY <1>1, <1>3 DEF IInv, RevertPlan
  <2>4. Undo!Next
    BY <1>1, <2>1, <2>2, <2>3, TakeOffStep DEF IInv
  <2>5. stack \in Seq(Baseline)
    BY DEF IInv, Shape, TypeOK
  <2>6. /\ stack' \in Seq(Baseline) /\ DOMAIN stack' \subseteq DOMAIN stack
        /\ \A i \in DOMAIN stack' : stack'[i] = stack[i]
    BY <2>1, <2>2, <2>5 DEF Front
  <2>7. NoJob \in Job /\ NoJob.kind = "none" /\ NoJob.left = {} /\ NoJob.pending = {}
    BY BoundsAssumption DEF NoJob, Job, Nothing, States
  <2>8. IInv'
    <3>1. Shape'
      BY <1>1, <2>6, <2>7 DEF IInv, Shape, TypeOK
    <3>2. MetaRight'
      BY <2>6 DEF IInv, MetaRight
    <3>3. QED
      BY <1>1, <2>7, <3>1, <3>2 DEF IInv, UnderBaseline, RevertPlan
  <2>9. QED
    BY <2>4, <2>8
<1>4. QED
  BY <1>2, <1>3

\* A tool that is stopped or killed leaves its baseline.
LEMMA Halts ==
    ASSUME IInv, Stop \/ Dies
    PROVE  IInv' /\ UNCHANGED Undo!vars
<1>1. job' = NoJob /\ UNCHANGED <<target, stack, first, edited, pushes, edits>> /\ Fault
  BY DEF Stop, Dies
<1>2. faults' \in 0..MaxFaults
  BY <1>1, BoundsAssumption DEF Fault, IInv, Shape, TypeOK
<1>3. QED
  BY <1>1, <1>2, EndFrame, Stutter

\* What somebody else writes is loose from then on.
LEMMA Edits ==
    ASSUME IInv, NEW m \in Managers, NEW s \in Services,
           (\E c \in Contents : SomeoneWrites(m, s, c)) \/ SomeoneDeletes(m, s)
    PROVE  IInv' /\ Undo!Next
<1>1. PICK v \in Values : target' = [target EXCEPT ![m][s] = v]
  BY DEF SomeoneWrites, SomeoneDeletes, Write, Delete, Values
<1>2. edited' = edited \cup {<<m, s>>} /\ UNCHANGED <<stack, job, first, pushes, faults>>
  BY DEF SomeoneWrites, SomeoneDeletes, Edit
<1>3. edits' \in 0..MaxEdits
  BY BoundsAssumption DEF SomeoneWrites, SomeoneDeletes, Edit, IInv, Shape, TypeOK
<1>4. target' \in [Managers -> States]
  BY <1>1, WriteBar DEF IInv
<1>5. \A q \in Managers, r \in Services : <<q, r>> # <<m, s>> => target'[q][r] = target[q][r]
  BY <1>1 DEF IInv, Shape, TypeOK, States
<1>6. IInv'
  <2>1. Shape'
    BY <1>2, <1>3, <1>4 DEF IInv, Shape, TypeOK
  <2>2. MetaRight' /\ UnderBaseline'
    BY <1>2 DEF IInv, MetaRight, UnderBaseline
  <2>3. RevertPlan'
    BY <1>2, <1>5 DEF IInv, RevertPlan, UnderBaseline
  <2>4. QED
    BY <2>1, <2>2, <2>3 DEF IInv
<1>7. Undo!Next
  BY <1>1, <1>2, DisturbStep DEF IInv
<1>8. QED
  BY <1>6, <1>7

-----------------------------------------------------------------------------
\* Every step keeps the invariant, and is a step of the undo stack.
LEMMA Steps == IInv /\ [Next]_vars => IInv' /\ [Undo!Next]_(Undo!vars)
<1> SUFFICES ASSUME IInv, [Next]_vars
             PROVE  IInv' /\ [Undo!Next]_(Undo!vars)
  OBVIOUS
<1>1. CASE \E m \in Managers : PushStart(m)
  BY <1>1, PushStarts
<1>2. CASE \E m \in Managers : RevertStart(m)
  BY <1>2, RevertStarts
<1>3. CASE PushStep \/ \E s \in Services : PushFails(s)
  BY <1>3, PushSteps DEF PushStep
<1>4. CASE RevertStep \/ \E s \in Services : RevertFails(s)
  BY <1>4, RevertSteps, RevertEnds DEF RevertStep
<1>5. CASE Stop \/ Dies
  BY <1>5, Halts
<1>6. CASE \E m \in Managers, s \in Services :
               (\E c \in Contents : SomeoneWrites(m, s, c)) \/ SomeoneDeletes(m, s)
  BY <1>6, Edits
<1>7. CASE UNCHANGED vars
  <2>1. IInv'
    BY <1>7 DEF vars, IInv, Shape, TypeOK, MetaRight, UnderBaseline, RevertPlan
  <2>2. QED
    BY <1>7, <2>1, Stutter DEF vars
<1>8. QED
  BY <1>1, <1>2, <1>3, <1>4, <1>5, <1>6, <1>7 DEF Next

\* Every variable keeps its type.
THEOREM TypeCorrect == Spec => []TypeOK
<1>1. IInv => TypeOK
  BY DEF IInv, Shape
<1>2. QED
  BY <1>1, InitInv, Steps, PTL DEF Spec

\* The baselines of a reports directory are an undo stack.
THEOREM BaselinesAreAnUndoStack == Spec => IsAnUndoStack
<1>1. QED
  BY InitInv, Steps, PTL DEF Spec, IsAnUndoStack, Undo!Spec

\* The undo stack with its theorem, under the same mapping.
Proved == INSTANCE UndoStackProofs WITH
    value <- valueBar, stack <- stackBar, loose <- edited, first <- firstBar

\* When a manager has no baseline left to revert, each of its services that
\* nobody else wrote is what it was before the first push.
THEOREM RevertedMeansRestored == Spec => []AllUndone
<1>1. Undo!Init => Proved!Init
  BY DEF Undo!Init, Proved!Init, Values
<1>2. [Undo!Next]_(Undo!vars) => [Proved!Next]_(Proved!vars)
  BY DEF Undo!Next, Undo!vars, Undo!Save, Undo!LetGo, Undo!Change, Undo!Disturb, Undo!TakeOff, Undo!Open,
         Undo!Last, Undo!Front, Proved!Next, Proved!vars, Proved!Save, Proved!LetGo, Proved!Change,
         Proved!Disturb, Proved!TakeOff, Proved!Open, Proved!Last, Proved!Front, Values
<1>3. Proved!Undone => AllUndone
  BY DEF Proved!Undone, Proved!Open, AllUndone, Undo!Undone, Undo!Open
<1>4. QED
  BY <1>1, <1>2, <1>3, BaselinesAreAnUndoStack, Proved!StackUndoes, PTL
     DEF IsAnUndoStack, Undo!Spec, Proved!Spec
=============================================================================
