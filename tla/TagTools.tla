------------------------------ MODULE TagTools ------------------------------
(***************************************************************************)
(* The tools that add tags and take them off again:                        *)
(*   build_hostname_tag_plan, push_hostname_tags, revert_hostname_tags     *)
(*       (VMs: one tag with the host name out of the VM's name), and       *)
(*   sync_group_label_tags, revert_group_label_tags                        *)
(*       (groups: the tags their membership criteria name).                *)
(* NSX keeps a list of tags per object and takes a whole list back, without *)
(* a revision.  A push of host names lists all VMs once; a sync reads each  *)
(* group again right before it writes.                                     *)
(***************************************************************************)
EXTENDS Naturals, FiniteSets

CONSTANTS VMs, Groups, Tags,
          Gone,          \* marks an object the manager does not have
          VmType, SupportedTypes,
          NameTag,       \* the host name tag a VM's name gives, or Gone
          Excluded,      \* host names never to be given
          Cap,           \* VM_TAGS_MAX_TAGS_PER_VM
          HostTags,      \* the tags of scope hostname
          Criteria,      \* the tags a group's criteria name
          MatchTags,     \* those whose scope is configured
          SystemOwned,
          FirstState,
          MaxStarts, MaxEdits, MaxFaults       \* bounds

Objects == VMs \cup Groups
Absent == {Gone}
States == [Objects -> (SUBSET Tags) \cup {Absent}]
Pairs == Objects \X Tags

ASSUME ConstantsAssumption ==
    /\ VMs \cap Groups = {} /\ Gone \notin Tags
    /\ NameTag \in [VMs -> HostTags \cup {Gone}] /\ HostTags \subseteq Tags
    /\ Criteria \in [Groups -> SUBSET Tags] /\ MatchTags \subseteq Tags
    /\ Cap \in Nat /\ FirstState \in States
ASSUME BoundsAssumption == MaxStarts \in Nat /\ MaxEdits \in Nat /\ MaxFaults \in Nat

VARIABLES
    live,       \* the tags the manager has
    plan,       \* eligible.json
    manifests,  \* the apply manifests: what each run says it added
    progress,   \* checkpoints of ended and killed runs over VMs
    job,        \* the tool that runs
    (* history, no code reads it *)
    tagged,     \* what the tools added and have not taken off
    edited,     \* pairs somebody else has touched
    since,      \* pairs somebody else added since the tool read the object
    starts, edits, faults
vars == <<live, plan, manifests, progress, job, tagged, edited, since, starts, edits, faults>>

\* of is what the run worked through: the plan, or the manifest it reverted.
Checkpoint == [kind: {"push", "revert"}, of: SUBSET Pairs, done: SUBSET VMs]

\* work: what to add or to remove; seen: what was read; left: objects to do; at:
\* the group just read; resumed: VMs the checkpoint has; done: what was written.
Job == [kind: {"none", "push", "revert", "sync", "unsync"}, work: SUBSET Pairs, seen: States,
        left: SUBSET Objects, at: SUBSET Groups, resumed: SUBSET VMs, done: SUBSET Pairs]
NoJob == [kind |-> "none", work |-> {}, seen |-> [o \in Objects |-> Absent], left |-> {},
          at |-> {}, resumed |-> {}, done |-> {}]

TypeOK ==
    /\ live \in States
    /\ plan \subseteq VMs
    /\ manifests \subseteq SUBSET Pairs
    /\ progress \subseteq Checkpoint
    /\ job \in Job
    /\ Cardinality(job.at) <= 1
    /\ tagged \subseteq Pairs /\ edited \subseteq Pairs /\ since \subseteq Pairs
    /\ starts \in 0..MaxStarts /\ edits \in 0..MaxEdits /\ faults \in 0..MaxFaults

Init ==
    /\ live = FirstState
    /\ plan = {} /\ manifests = {} /\ progress = {} /\ job = NoJob
    /\ tagged = {} /\ edited = {} /\ since = {}
    /\ starts = 0 /\ edits = 0 /\ faults = 0

In(state, o) == IF state[o] = Absent THEN {} ELSE state[o]
Names(pairs) == {p[1] : p \in pairs}
TagsFor(pairs, o) == {p[2] : p \in {q \in pairs : q[1] = o}}
HostNames(tags) == tags \cap HostTags
Fault == faults < MaxFaults /\ faults' = faults + 1

Start(kind, work, left, resumed) ==
    /\ job.kind = "none" /\ starts < MaxStarts
    /\ starts' = starts + 1 /\ since' = {}
    /\ job' = [NoJob EXCEPT !.kind = kind, !.work = work, !.seen = live, !.left = left,
                            !.resumed = resumed]
    /\ UNCHANGED <<live, plan, manifests, progress, tagged, edited, edits, faults>>

\* The tool goes on to the next object.
Leave(o) == job' = [job EXCEPT !.left = @ \ {o}, !.at = @ \ {o}]

\* Post the whole list of tags of o.
Post(o, tags) ==
    /\ live' = [live EXCEPT ![o] = tags]
    /\ tagged' = (tagged \ ({o} \X (In(live, o) \ tags)))
                     \cup ({o} \X (tags \ (In(live, o) \cup In(job.seen, o))))

-----------------------------------------------------------------------------
(* build_hostname_tag_plan                                                  *)

\* classify_vm
Eligible(v) ==
    /\ VmType[v] \in SupportedTypes
    /\ HostNames(live[v]) = {}
    /\ Cardinality(live[v]) < Cap
    /\ NameTag[v] # Gone /\ NameTag[v] \notin Excluded

BuildPlan ==
    /\ job.kind = "none" /\ starts < MaxStarts
    /\ plan' = {v \in VMs : live[v] # Absent /\ Eligible(v)}
    /\ plan' # plan
    /\ UNCHANGED <<live, manifests, progress, job, tagged, edited, since, starts, edits, faults>>

-----------------------------------------------------------------------------
(* push_hostname_tags                                                       *)

PlanPairs == {<<v, NameTag[v]>> : v \in plan}

\* _load_resume_checkpoint: of the same tool, over the same plan or manifest.
Resumable(kind, work) == {c.done : c \in {d \in progress : d.kind = kind /\ d.of = work}} \cup {{}}

PushStart ==
    /\ plan # {}
    /\ \E resumed \in Resumable("push", PlanPairs) : Start("push", PlanPairs, plan, resumed)

\* What keeps a VM from being tagged.
PassesOver(v) ==
    LET tags == job.seen[v] IN
    \/ tags = Absent \/ v \in job.resumed
    \/ Cardinality(tags) >= Cap \/ HostNames(tags) # {}

PushSkip(v) ==
    /\ job.kind = "push" /\ v \in job.left /\ PassesOver(v)
    /\ Leave(v)
    /\ UNCHANGED <<live, plan, manifests, progress, tagged, edited, since, starts, edits, faults>>

\* _build_combined_tags: the tags as they were listed, and one more.
Combined(v) == job.seen[v] \cup {NameTag[v]}

Posted(v, tags) ==
    /\ live[v] # Absent /\ Post(v, tags)
    /\ job' = [job EXCEPT !.left = @ \ {v}, !.done = @ \cup {<<v, t>> : t \in TagsFor(job.work, v)}]
    /\ UNCHANGED <<plan, manifests, progress, edited, since, starts, edits, faults>>

PushWrite(v) ==
    /\ job.kind = "push" /\ v \in job.left /\ ~PassesOver(v)
    /\ Posted(v, Combined(v))

-----------------------------------------------------------------------------
(* revert_hostname_tags: entries with status success                        *)

RevertStart ==
    \E m \in manifests \ {{}} :
        /\ Names(m) \subseteq VMs
        /\ \E resumed \in Resumable("revert", m) : Start("revert", m, Names(m), resumed)

\* Mutant: take off whatever host name the VM has.
RemovedAny(v, h) == h \in HostNames(In(job.seen, v))

\* h is the first tag of scope hostname in the list; it goes if the push added it.
Removed(v, h) == h \in HostNames(In(job.seen, v)) /\ h \in TagsFor(job.work, v)

RevertSkip(v) ==
    /\ job.kind = "revert" /\ v \in job.left
    /\ \/ v \in job.resumed \/ HostNames(In(job.seen, v)) = {}
       \/ \E h \in HostNames(In(job.seen, v)) : ~Removed(v, h)
    /\ Leave(v)
    /\ UNCHANGED <<live, plan, manifests, progress, tagged, edited, since, starts, edits, faults>>

RevertWrite(v) ==
    /\ job.kind = "revert" /\ v \in job.left /\ v \notin job.resumed
    /\ \E h \in HostTags : Removed(v, h) /\ Posted(v, job.seen[v] \ {h})

-----------------------------------------------------------------------------
(* sync_group_label_tags and revert_group_label_tags                        *)

\* desired_label_tags
Desired(g) == Criteria[g] \cap MatchTags

ToAdd(g, tags) == Desired(g) \ tags

SyncStart ==
    Start("sync", {}, {g \in Groups \ SystemOwned : live[g] # Absent /\ ToAdd(g, live[g]) # {}}, {})

UnsyncStart ==
    \E m \in manifests \ {{}} : Names(m) \subseteq Groups /\ Start("unsync", m, Names(m), {})

\* What this run adds to or takes off a group it has read.
Change(g, tags) == IF job.kind = "sync" THEN ToAdd(g, tags) ELSE TagsFor(job.work, g) \cap tags

\* One group at a time.
ReadsNext == job.kind \in {"sync", "unsync"} /\ job.at = {}

\* get_group: read again right before the write, if anything is to be done.
GroupRead(g) ==
    /\ ReadsNext /\ g \in job.left
    /\ IF live[g] = Absent \/ Change(g, live[g]) = {} THEN Leave(g)
       ELSE job' = [job EXCEPT !.at = @ \cup {g}, !.seen[g] = live[g]]
    /\ since' = {p \in since : p[1] # g}
    /\ UNCHANGED <<live, plan, manifests, progress, tagged, edited, starts, edits, faults>>

Labels(g) ==
    IF job.kind = "sync" THEN job.seen[g] \cup Change(g, job.seen[g])
                         ELSE job.seen[g] \ Change(g, job.seen[g])

\* patch_group with the whole group: it would create one that is gone.
GroupWrite(g) ==
    /\ g \in job.at
    /\ Post(g, Labels(g))
    /\ job' = [job EXCEPT !.left = @ \ {g}, !.at = @ \ {g},
                          !.done = @ \cup ({g} \X Change(g, job.seen[g]))]
    /\ UNCHANGED <<plan, manifests, progress, edited, since, starts, edits, faults>>

-----------------------------------------------------------------------------
(* The end of a run, and what can go wrong                                  *)

OverVMs == job.kind \in {"push", "revert"}

\* Mutant: the checkpoint of a killed run is lost.
NotKept == progress

\* The checkpoint has a line for every call, written right after it.
Kept == IF OverVMs THEN progress \cup {[kind |-> job.kind, of |-> job.work, done |-> Names(job.done)]}
                   ELSE progress

\* The manifest and the reports are written at the end; an operator may stop a
\* run over VMs at the prompt after a batch.
Finish ==
    /\ job.kind # "none"
    /\ job.left = {} \/ (OverVMs /\ job.done # {})
    /\ manifests' = IF job.kind \in {"push", "sync"} THEN manifests \cup {job.done} ELSE manifests
    /\ progress' = Kept
    /\ job' = NoJob /\ since' = {}
    /\ UNCHANGED <<live, plan, tagged, edited, starts, edits, faults>>

\* What a call for o would post.
Posts(o) ==
    CASE job.kind = "push" -> {Combined(o)}
      [] job.kind = "revert" -> {job.seen[o] \ {h} : h \in {t \in HostTags : Removed(o, t)}}
      [] OTHER -> {Labels(o)}
Calls == IF OverVMs THEN {v \in job.left : ~PassesOver(v) \/ job.kind = "revert"} ELSE job.at

\* The VM is gone: the call is refused.
Refused(v) ==
    /\ OverVMs /\ v \in Calls /\ live[v] = Absent
    /\ Leave(v)
    /\ UNCHANGED <<live, plan, manifests, progress, tagged, edited, since, starts, edits, faults>>

\* A call fails, maybe after it took effect, and is not in the manifest.
CallFails(o) ==
    /\ Fault /\ o \in Calls
    /\ \/ UNCHANGED <<live, tagged>>
       \/ live[o] # Absent /\ \E tags \in Posts(o) : Post(o, tags)
    /\ Leave(o)
    /\ UNCHANGED <<plan, manifests, progress, edited, since, starts, edits>>

\* The process is killed: there is the checkpoint, and no manifest; the last
\* call may have taken effect before its line was written.
Killed ==
    /\ Fault /\ job.kind # "none"
    /\ \/ UNCHANGED <<live, tagged>>
       \/ \E o \in Calls, tags \in UNION {Posts(p) : p \in Calls} :
              tags \in Posts(o) /\ live[o] # Absent /\ Post(o, tags)
    /\ progress' = Kept
    /\ job' = NoJob /\ since' = {}
    /\ UNCHANGED <<plan, manifests, edited, starts, edits>>

\* Somebody else adds or removes a tag, or deletes the object.
Someone(o) ==
    /\ edits < MaxEdits /\ edits' = edits + 1
    /\ live[o] # Absent
    /\ \/ \E t \in Tags \ live[o] :
              /\ live' = [live EXCEPT ![o] = @ \cup {t}]
              /\ edited' = edited \cup {<<o, t>>}
              /\ since' = IF job.kind = "none" THEN since ELSE since \cup {<<o, t>>}
       \/ \E t \in live[o] :
              /\ live' = [live EXCEPT ![o] = @ \ {t}]
              /\ edited' = edited \cup {<<o, t>>} /\ since' = since \ {<<o, t>>}
       \/ /\ live' = [live EXCEPT ![o] = Absent]
          /\ edited' = edited \cup ({o} \X Tags) /\ UNCHANGED since
    /\ UNCHANGED <<plan, manifests, progress, job, tagged, starts, faults>>

Next ==
    \/ BuildPlan \/ PushStart \/ RevertStart \/ SyncStart \/ UnsyncStart \/ Finish \/ Killed
    \/ \E v \in VMs : PushSkip(v) \/ PushWrite(v) \/ RevertSkip(v) \/ RevertWrite(v) \/ Refused(v)
    \/ \E g \in Groups : GroupRead(g) \/ GroupWrite(g)
    \/ \E o \in Objects : CallFails(o) \/ Someone(o)

Spec == Init /\ [][Next]_vars

-----------------------------------------------------------------------------
(* What the tools promise                                                   *)

\* A tool takes off only what it is told to take off (revert tools: "never
\* removes any other tag"), or a tag somebody added after the tool had read the
\* object, which the list it posts does not have.
TakesOnlyOwn ==
    [][\A p \in Pairs : p[2] \in In(live, p[1]) \ In(live', p[1]) /\ edits' = edits =>
           \/ p \in since
           \/ job.kind \in {"revert", "unsync"} /\ p \in job.work]_vars

\* The tools and nobody else account for every difference to the first state:
\* what is tagged is there, and everything else is as it was.  Every host name
\* tag that was added is in a manifest, in a checkpoint or with the run at work,
\* but for one per failed call or kill.
Checkpointed == UNION {c.done : c \in progress}
OnRecord == (UNION manifests) \cup job.done \cup (Checkpointed \X Tags)
TagsAccountedFor ==
    /\ \A p \in Pairs \ edited :
          p[2] \in In(live, p[1]) <=> p[2] \in In(FirstState, p[1]) \/ p \in tagged
    /\ Cardinality({p \in tagged \ OnRecord : p[1] \in VMs}) <= faults
=============================================================================
