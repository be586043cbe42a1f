------------------------------ MODULE NsxClient ------------------------------
(***************************************************************************)
(* nsx_policy_client.py and tools that live on it: membership.py export,    *)
(* build_group_ip_additive_from_live_members.py, wipe_by_prefix.py with its *)
(* pool of threads, and any tool that reads an object and puts it back.     *)
(* A request waits for its turn, is repeated when the manager is busy, a    *)
(* listing is a request per page, and while all that goes on others edit.   *)
(*                                                                         *)
(* A collection of the manager is a set of Ids; a page is one item, and the *)
(* cursor the last item.  Two inventories have addresses of a VM: of vms    *)
(* and of vifs.                                                             *)
(***************************************************************************)
EXTENDS Naturals, FiniteSets, Sequences, FiniteSetsExt, SequencesExt

CONSTANTS Threads, Main, Ids, Nobody,
          RetryMax,          \* NSX_API_RETRY_MAX
          RealizeAttempts,
          CallRetries,       \* --max-retries of membership.py
          Interval,          \* 1 / --rate-limit, where it is not 0
          MaxClock, Troubles \* bounds: how many busy answers, faults, edits

ASSUME ClientAssumption ==
    /\ IsFiniteSet(Threads) /\ Main \in Threads /\ Nobody \notin Threads
    /\ Ids \subseteq Nat \ {0} /\ IsFiniteSet(Ids) /\ Ids # {}
    /\ RetryMax \in Nat /\ RealizeAttempts \in Nat /\ CallRetries \in Nat
    /\ Interval \in Nat \ {0} /\ MaxClock \in Nat
    /\ Troubles \subseteq [{"busy", "faults", "edits"} -> Nat]

VARIABLES
    clock, last, holder, due,    \* _pace
    interval,                    \* _min_interval
    held,                        \* the collections of the manager
    revision,                    \* of its groups; 0 for none
    realized,
    jobs,                        \* per thread
    \* history
    always, ever,                \* what the collections held since the start
    effects,                     \* how often the tool's write of a group had its effect
    unsure,                      \* groups a request for which was busy or unanswered
    touched,                     \* groups somebody else wrote
    sends,                       \* when requests were sent
    troubles                     \* of the bound, what is left
paceVars == <<clock, last, holder, due, interval>>
managerVars == <<held, revision, realized, always, ever, touched>>
clientVars == <<paceVars, managerVars, jobs, effects, unsure, sends, troubles>>

Vms == <<"vms", 0>>
Vifs == <<"vifs", 0>>
Names == <<"names", 0>>        \* membership.py lists the VMs once more
Groups == <<"groups", 0>>
Members(g) == <<"members", g>>
Ips(g) == <<"ips", g>>
Stored == {Vms, Vifs} \cup {Members(g) : g \in Ids} \cup {Ips(g) : g \in Ids}
Collections == Stored \cup {Names, Groups}
HeldBy(h, r, c) == IF c = Names THEN h[Vms] ELSE IF c = Groups THEN {g \in Ids : r[g] > 0} ELSE h[c]
Held(c) == HeldBy(held, revision, c)

-----------------------------------------------------------------------------
(* The tools, as lists of calls.                                            *)

Call(op, of) == [op |-> op, of |-> of]
List(c) == Call("list", c)
Index == <<List(Vms), List(Vifs)>>              \* build_vm_ip_index
MembersOf(gs) == LET s == SetToSeq(gs) IN [i \in DOMAIN s |-> List(Members(s[i]))]
\* Of every group file, in some order, the members (--ip-source vm-vif,
\* --with-vm-attribution), the addresses in effect (--ip-source effective), or both.
EffectiveOf(gs) == LET s == SetToSeq(gs) IN [i \in DOMAIN s |-> Call("effective", Ips(s[i]))]
BothOf(gs) == LET m == MembersOf(gs) e == EffectiveOf(gs)
              IN  [i \in 1 .. 2 * Len(m) |-> IF i % 2 = 1 THEN m[(i + 1) \div 2] ELSE e[i \div 2]]
Additive == {Index \o MembersOf(Ids), EffectiveOf(Ids), Index \o BothOf(Ids)}
Membership == Index \o <<List(Names), List(Groups)>>
Amends(k) == <<Call("get", k), Call("put", k)>>
PlansOf(tool) == CASE tool = "additive" -> Additive
                   [] tool = "membership" -> {Membership}
                   [] tool = "amend" -> {Amends(k) : k \in Ids} \cup {<<Call("patch", k)>> : k \in Ids}

Job(tool, plan) ==
    [tool |-> tool, plan |-> plan, effective |-> \E i \in DOMAIN plan : plan[i].op = "effective", pc |-> IF plan = <<>> THEN "done" ELSE "ready",
     attempts |-> 0, tries |-> 0, rounds |-> 0, cursor |-> 0, page |-> {},
     got |-> [c \in Collections |-> {}], read |-> 0, failed |-> {}, died |-> FALSE]
\* wipe_by_prefix.py: the pool hands the ids to its threads.
WipeOf(share) == [t \in Threads |-> Job("wipe", LET s == SetToSeq(share[t])
                                               IN  [i \in DOMAIN s |-> Call("delete", s[i])])]

ClientInit ==
    /\ clock = 0 /\ last = 0 /\ holder = Nobody /\ due = 0
    /\ held \in [Stored -> {{}, Ids}]
    /\ \A g \in Ids : held[Members(g)] = Ids /\ held[Vms] = Ids   \* bound: the rest is made by edits
    /\ \A g \in Ids : held[Ips(g)] = Ids
    /\ revision = [g \in Ids |-> 1]
    /\ \/ /\ interval = 0
          /\ \E tool \in {"additive", "membership", "amend"} : \E p \in PlansOf(tool) :
                jobs = [t \in Threads |-> Job(tool, IF t = Main THEN p ELSE <<>>)]
          /\ realized \in BOOLEAN
       \/ /\ interval = Interval
          /\ \E share \in [Threads -> SUBSET Ids] :
                /\ UNION {share[t] : t \in Threads} = Ids /\ Min(Ids) \in share[Main]
                /\ \A t, u \in Threads : t # u => share[t] \cap share[u] = {}
                /\ jobs = WipeOf(share)
          /\ realized = TRUE
    /\ (jobs[Main].tool \in {"amend", "wipe"} => held[Vifs] = {})
    /\ (~jobs[Main].effective => realized)
    /\ always = [c \in Collections |-> Held(c)] /\ ever = always
    /\ effects = [g \in Ids |-> 0] /\ unsure = {}
    /\ touched = {} /\ sends = <<>> /\ troubles \in Troubles

-----------------------------------------------------------------------------
(* Others.                                                                  *)

Spend(what) == troubles[what] > 0 /\ troubles' = [troubles EXCEPT ![what] = @ - 1]
Remembers(h, r) ==
    /\ always' = [c \in Collections |-> always[c] \cap HeldBy(h, r, c)]
    /\ ever' = [c \in Collections |-> ever[c] \cup HeldBy(h, r, c)]
Edited(c, i) ==
    /\ jobs[Main].tool \in {"additive", "membership"} /\ Spend("edits")
    /\ held' = [held EXCEPT ![c] = IF i \in @ THEN @ \ {i} ELSE @ \cup {i}]
    /\ Remembers(held', revision)
    /\ UNCHANGED <<paceVars, revision, realized, touched, jobs, effects, unsure, sends>>
GroupEdited(g) ==
    /\ Spend("edits") /\ touched' = touched \cup {g}
    /\ \E r \in {revision[g] + 1, 0} : revision' = [revision EXCEPT ![g] = r]
    /\ Remembers(held, revision')
    /\ UNCHANGED <<paceVars, held, realized, jobs, effects, unsure, sends>>
Realizes == /\ ~realized /\ realized' = TRUE
            /\ UNCHANGED <<paceVars, held, revision, always, ever, touched, jobs, effects, unsure, sends, troubles>>
Ticks == /\ interval > 0 /\ clock < MaxClock /\ clock' = clock + 1
         /\ UNCHANGED <<last, holder, due, interval, managerVars, jobs, effects, unsure, sends, troubles>>

-----------------------------------------------------------------------------
(* _pace: one thread at a time waits until Interval after the last request. *)

PaceBegins(t) ==
    /\ jobs[t].pc = "ready" /\ interval > 0
    /\ holder = Nobody /\ holder' = t
    /\ due' = Max({clock, last + interval})
    /\ jobs' = [jobs EXCEPT ![t].pc = "pacing"]
    /\ UNCHANGED <<clock, last, interval, managerVars, effects, unsure, sends, troubles>>
PaceEnds(t) ==
    /\ jobs[t].pc = "pacing" /\ clock >= due
    /\ last' = clock /\ holder' = Nobody
    /\ jobs' = [jobs EXCEPT ![t].pc = "sending"]
    /\ UNCHANGED <<clock, due, interval, managerVars, effects, unsure, sends, troubles>>
PaceOff(t) ==
    /\ jobs[t].pc = "ready" /\ interval = 0
    /\ jobs' = [jobs EXCEPT ![t].pc = "sending"]
    /\ UNCHANGED <<paceVars, managerVars, effects, unsure, sends, troubles>>
\* Mutant: a repeated request does not wait for its turn.
AfterDelayAtOnce == "sending"
AfterDelay == "ready"
DelayEnds(t) ==
    /\ jobs[t].pc = "delay"
    /\ jobs' = [jobs EXCEPT ![t].pc = AfterDelay]
    /\ UNCHANGED <<paceVars, managerVars, effects, unsure, sends, troubles>>

-----------------------------------------------------------------------------
(* How a call of a tool ends.                                               *)

\* membership.py asks for the members of the groups it has found.
Further(j, c) == IF j.tool = "membership" /\ c = Groups THEN MembersOf(j.page) ELSE <<>>
Goes(j, plan) == [j EXCEPT !.plan = plan, !.pc = IF plan = <<>> THEN "done" ELSE "ready",
                           !.attempts = 0, !.tries = 0, !.rounds = 0, !.cursor = 0, !.page = {}]
Ends(j) == LET c == Head(j.plan).of
           IN  [Goes(j, Tail(j.plan) \o Further(j, c)) EXCEPT !.got[c] = j.page,
                !.rounds = IF c = Vms THEN j.rounds ELSE 0]
Restarts(j, plan) == [j EXCEPT !.plan = plan, !.pc = "delay", !.attempts = 0, !.cursor = 0, !.page = {}]
Wrapped(j) == j.tool = "membership" /\ Head(j.plan).of # Groups
\* A group whose members or addresses cannot be read is put down as failed, as
\* is an object that cannot be deleted; a tool that fails elsewhere dies.
GivesUp(j) ==
    LET call == Head(j.plan)
    IN  CASE j.tool \in {"membership", "additive"} /\ call.of[1] \in {"members", "ips"} ->
                 LET rest == Tail(j.plan)
                     alsoIps == rest # <<>> /\ Head(rest).of[2] = call.of[2]
                 IN  [Goes(j, IF alsoIps THEN Tail(rest) ELSE rest) EXCEPT !.failed = @ \cup {call.of[2]}]
          [] j.tool = "wipe" -> [Goes(j, Tail(j.plan)) EXCEPT !.failed = @ \cup {call.of}]
          [] OTHER -> [Goes(j, <<>>) EXCEPT !.died = TRUE]
\* membership.py begins the call again after trouble on the way, the index with
\* its first listing.
Troubled(j) ==
    IF Wrapped(j) /\ j.rounds < CallRetries
    THEN [Restarts(j, IF Head(j.plan).of = Vifs THEN <<List(Vms)>> \o j.plan ELSE j.plan)
            EXCEPT !.rounds = @ + 1]
    ELSE GivesUp(j)

\* 429 and 503 are repeated.
Busy(j) == IF j.attempts < RetryMax THEN [j EXCEPT !.attempts = @ + 1, !.pc = "delay"] ELSE Troubled(j)
\* A group that is not realized: 400.  Not an empty list.
\* Mutant: the list is taken for empty.
UnrealizedEmpty(j) == Ends(j)
Unrealized(j) == IF j.tries + 1 < RealizeAttempts
                 THEN [Restarts(j, j.plan) EXCEPT !.tries = @ + 1]
                 ELSE GivesUp(j)
\* A page, and the next one from its cursor on.
Page(j, rest) ==
    IF rest = {} THEN Ends(j)
    ELSE LET read == [j EXCEPT !.page = @ \cup {Min(rest)}]
         IN  IF Cardinality(rest) = 1 THEN Ends(read)
             ELSE [read EXCEPT !.cursor = Min(rest), !.pc = "ready", !.attempts = 0]

\* What a request does to a group, and whether it is accepted.
Accepted(call, read) ==
    CASE call.op = "put" -> revision[call.of] = read
      [] call.op \in {"delete", "get"} -> revision[call.of] > 0
      [] OTHER -> TRUE
Written(call) == [revision EXCEPT ![call.of] = IF call.op = "delete" THEN 0 ELSE @ + 1]
Writes(call) == call.op \in {"put", "patch", "delete"}

\* happens: it has its effect; the job goes on as next.
Sends(t, next, happens, doubt) ==
    LET call == Head(jobs[t].plan)
        did == happens /\ Writes(call) /\ Accepted(call, jobs[t].read)
    IN  /\ sends' = IF interval = 0 THEN sends ELSE Append(sends, clock)
        /\ revision' = IF did THEN Written(call) ELSE revision
        /\ Remembers(held, revision')
        /\ effects' = IF did THEN [effects EXCEPT ![call.of] = @ + 1] ELSE effects
        /\ unsure' = IF doubt /\ Writes(call) THEN unsure \cup {call.of} ELSE unsure
        /\ jobs' = [jobs EXCEPT ![t] = next]
    /\ UNCHANGED <<paceVars, held, realized, touched>>
Sending(t) == jobs[t].pc = "sending"
AnswersBusy(t, happens) ==
    Sending(t) /\ Spend("busy") /\ (happens => Writes(Head(jobs[t].plan)))
    /\ Sends(t, Busy(jobs[t]), happens, TRUE)
\* No answer in time, the connection breaks, or another error: the client does
\* not repeat it.
AnswerLost(t, happens) ==
    Sending(t) /\ Spend("faults") /\ (happens => Writes(Head(jobs[t].plan)))
    /\ \E next \in {Troubled(jobs[t]), GivesUp(jobs[t])} : Sends(t, next, happens, TRUE)
Answers(t) ==
    /\ Sending(t) /\ UNCHANGED troubles
    /\ LET j == jobs[t]
           call == Head(j.plan)
       IN  Sends(t, CASE call.op = "effective" /\ ~realized -> Unrealized(j)
                      [] call.op = "list" \/ (call.op = "effective" /\ realized) -> Page(j, {i \in Held(call.of) : i > j.cursor})
                      [] ~(call.op \in {"list", "effective"}) /\ ~Accepted(call, j.read) -> GivesUp(j)
                      [] call.op = "get" /\ Accepted(call, j.read) ->
                             [Goes(j, Tail(j.plan)) EXCEPT !.read = revision[call.of]]
                      [] OTHER -> Goes(j, Tail(j.plan)),
                 TRUE, FALSE)

ClientNext ==
    \/ \E c \in Stored, i \in Ids : Edited(c, i)
    \/ \E g \in Ids : GroupEdited(g)
    \/ Realizes \/ Ticks
    \/ \E t \in Threads : PaceBegins(t) \/ PaceEnds(t) \/ PaceOff(t) \/ DelayEnds(t) \/ Answers(t)
    \/ \E t \in Threads, happens \in BOOLEAN : AnswersBusy(t, happens) \/ AnswerLost(t, happens)

ClientSpec == ClientInit /\ [][ClientNext]_clientVars

-----------------------------------------------------------------------------
(* What the tools write.                                                    *)

\* group_memberships.json: members with their addresses, by inventory;
\* vm_group_membership.json: the groups of each VM.
Inventories == {Vms, Vifs}
GroupFile(j) == [g \in j.got[Groups] \ j.failed |->
                    [v \in j.got[Members(g)] |-> {c \in Inventories : v \in j.got[c]}]]
VmFile(j) == [v \in j.got[Names] |-> {g \in j.got[Groups] \ j.failed : v \in j.got[Members(g)]}]
\* The addresses added to the file of a group: those in effect, or those its
\* member VMs have.
VmAddresses(g, state) == {a \in Inventories \X state[Members(g)] : a[2] \in state[a[1]]}
AddressesIn(j, g, state) == IF j.effective THEN state[Ips(g)] ELSE VmAddresses(g, state)
Added(j, g) == AddressesIn(j, g, j.got)

-----------------------------------------------------------------------------
(* What is promised.                                                        *)

\* While others edit, a listing that reports success has everything that was
\* there all the time, and nothing that never was: the files of an export name
\* every VM that always was a member, in both, with its addresses, unless the
\* group is put down as failed; a group that is not realized never looks empty.
FilesAreWhole(j) ==
    LET file == GroupFile(j)
        vms == VmFile(j)
    IN  /\ always[Groups] \ j.failed \subseteq DOMAIN file /\ DOMAIN file \subseteq ever[Groups]
        /\ always[Names] \subseteq DOMAIN vms /\ DOMAIN vms \subseteq ever[Names]
        /\ \A g \in DOMAIN file :
              /\ always[Members(g)] \subseteq DOMAIN file[g] /\ DOMAIN file[g] \subseteq ever[Members(g)]
              /\ \A v \in DOMAIN file[g] : /\ {c \in Inventories : v \in always[c]} \subseteq file[g][v]
                                          /\ file[g][v] \subseteq {c \in Inventories : v \in ever[c]}
              /\ \A v \in DOMAIN vms : g \in vms[v] <=> v \in DOMAIN file[g]
\* A write that reports success had its effect; one that reports failure had
\* none, unless an answer was busy or lost; and it had its effect once, unless
\* somebody else wrote the group too or it is a PATCH.
WritesAreTrue(k, failed, patched) ==
    /\ ~failed => effects[k] > 0
    /\ (failed /\ effects[k] > 0) => k \in unsure
    /\ effects[k] > 1 => k \in touched \/ patched
AnswersAreWhole ==
    LET j == jobs[Main]
    IN  /\ (j.tool = "membership" /\ j.pc = "done" /\ ~j.died) => FilesAreWhole(j)
        /\ (j.tool = "additive" /\ j.pc = "done" /\ ~j.died) =>
              \A g \in Ids \ j.failed : AddressesIn(j, g, always) \subseteq Added(j, g) /\ Added(j, g) \subseteq AddressesIn(j, g, ever)
        /\ (j.tool = "wipe" /\ \A t \in Threads : jobs[t].pc = "done") =>
              \A k \in Ids : WritesAreTrue(k, \E t \in Threads : k \in jobs[t].failed, FALSE)
        /\ (j.tool = "amend" /\ j.pc = "done") =>
              \A k \in {k \in Ids : effects[k] > 0} : WritesAreTrue(k, j.died, j.read = 0)

\* Repeated or not, whichever threads they are of: never more requests since
\* the beginning than the rate allows, and between any two of them never more
\* than the rate allows and one for each thread.
RequestsPaced ==
    \A j \in DOMAIN sends :
        /\ sends[j] >= (j - 1) * Interval
        /\ \A i \in 1 .. j : (j - i - Cardinality(Threads)) * Interval <= sends[j] - sends[i]
=============================================================================
