---------------------------- MODULE RuleDisable ----------------------------
(***************************************************************************)
(* Unused-rule cleanup, step 1: step1_disable.py --apply disables the      *)
(* rules of a reviewed plan one by one and keeps disabled.json;            *)
(* step1_undo.py --apply re-enables what disabled.json lists.  Both work   *)
(* on one run folder, against a manager that other people use: between any *)
(* two calls of a tool a person may edit, toggle or delete a rule, and     *)
(* traffic may hit it.  A call may fail, or take effect and still be       *)
(* reported as failed, and a tool may die between two calls.               *)
(*                                                                         *)
(* A rule's configuration, `disabled` left out, is one value of Bodies.    *)
(* Counters are counted from the plan on: hits[r] = 0 says the counters    *)
(* still are the plan's.  The rules of a plan are taken in any order (the  *)
(* code takes them in the order the manager listed them).                  *)
(***************************************************************************)
EXTENDS Naturals, FiniteSets

CONSTANTS Rules,        \* (policy id, rule id) of the rules in the plan
          Bodies,       \* what a rule's configuration can be
          None,         \* "no rule in hand"
          MaxHits,      \* bound: hits of one rule
          Bounds        \* bounds: whether the tools overlap, how many writes by other
                        \* people, and lost or failed calls and crashes go together

ASSUME NoneAssumption == None \notin Rules
ASSUME BoundsAssumption == MaxHits \in Nat /\ Bounds \subseteq [overlap: BOOLEAN, edits: Nat, faults: Nat]

VARIABLES
    (* the manager *)
    live,           \* every rule, as the manager has it
    hits,           \* hits of every rule since the plan
    (* the run folder *)
    plan,           \* step1/plan.json: the DISABLE rules and every rule's copy
    disabledJson,   \* step1/disabled.json
    (* the two tools *)
    ap,             \* step1_disable.py --apply
    un,             \* step1_undo.py --apply
    (* history, no code reads it *)
    byTool,         \* rules that are disabled because step 1 disabled them
    orphans,        \* rules whose disabling a fault kept out of disabled.json
    undone,         \* rules step1_undo has re-enabled
    overlapped,     \* a tool was started while the other one ran
    edits, faults   \* how many edits and faults there were

mgrVars  == <<live, hits>>
histVars == <<byTool, orphans, undone, overlapped>>
vars == <<live, hits, plan, disabledJson, ap, un, byTool, orphans, undone, overlapped,
          edits, faults>>

LiveRule == [there: BOOLEAN, body: Bodies, disabled: BOOLEAN, rev: Nat]

\* An entry of disabled.json: "open", or "reenabled" once it has reenabled_at.
\* body is the copy `after` without `disabled`.
Entry == [state: {"none", "open", "reenabled"}, body: Bodies]
Records == [Rules -> Entry]

\* A tool at work: next = top of its loop, write = about to PUT rule cur, of
\* which it has read the copy seen, verify = about to read it back.  rec is the copy
\* of disabled.json it loaded when it started and writes back whole; wrote says
\* it has written something; same are the rules whose counters, read when
\* step1_disable started, were the plan's.
Worker == [pc: {"idle", "next", "write", "verify"}, left: SUBSET Rules,
           cur: Rules \cup {None}, seen: LiveRule \cup {None}, rec: Records,
           wrote: BOOLEAN, same: SUBSET Rules]

EmptyRecord == [r \in Rules |-> [state |-> "none", body |-> plan.rule[r].body]]

Idle == [pc |-> "idle", left |-> {}, cur |-> None, seen |-> None, rec |-> EmptyRecord,
         wrote |-> FALSE, same |-> {}]

Skipped(w, r) == [w EXCEPT !.pc = "next", !.left = @ \ {r}, !.cur = None, !.seen = None]

TypeOK ==
    /\ live \in [Rules -> LiveRule]
    /\ hits \in [Rules -> Nat]
    /\ plan \in [todo: SUBSET Rules, rule: [Rules -> LiveRule]]
    /\ disabledJson \in Records
    /\ ap \in Worker
    /\ un \in Worker
    /\ byTool \subseteq Rules
    /\ orphans \subseteq Rules
    /\ undone \subseteq Rules
    /\ overlapped \in BOOLEAN /\ edits \in Nat /\ faults \in Nat

\* A plan has just been written and reviewed; nothing is disabled yet.  Which
\* of the enabled rules are classed DISABLE is up to HitHistory.
Init ==
    /\ live \in [Rules -> [there: {TRUE}, body: Bodies, disabled: BOOLEAN, rev: {0}]]
    /\ \E todo \in SUBSET {r \in Rules : ~live[r].disabled} :
           plan = [todo |-> todo, rule |-> live]
    /\ hits = [r \in Rules |-> 0]
    /\ disabledJson = EmptyRecord
    /\ ap = Idle /\ un = Idle
    /\ byTool = {} /\ orphans = {} /\ undone = {}
    /\ overlapped = FALSE /\ edits = 0 /\ faults = 0

Within(o, e, f) == \E b \in Bounds : (o => b.overlap) /\ e <= b.edits /\ f <= b.faults

\* A tool may be started in a second terminal while the other one runs.
StartBeside(w) ==
    /\ overlapped' = (overlapped \/ w.pc # "idle")
    /\ Within(overlapped', edits, faults)

-----------------------------------------------------------------------------
(* The manager: PUT of a rule.  A PUT that carries a stale _revision is     *)
(* refused with 412; a PUT of a rule that is gone creates it.               *)

\* Mutant: the payload carries no _revision.
PutAlwaysAccepted(w) == TRUE

PutAccepted(w) == LET l == live[w.cur] IN l.there => l.rev = w.seen.rev

\* update_payload: what was read, with `disabled` set to off.
Put(w, off) ==
    LET l == live[w.cur] IN
    live' = [live EXCEPT ![w.cur] = [there |-> TRUE, body |-> w.seen.body, disabled |-> off,
                                     rev |-> IF l.there THEN l.rev + 1 ELSE 0]]

-----------------------------------------------------------------------------
(* step1_disable.py --apply                                                 *)

\* Load plan and record; read the counters of the planned policies once.  A
\* rule stays in `same` if there is a counter row and it equals the plan's.
ApplyStart ==
    /\ ap.pc = "idle"
    /\ StartBeside(un)
    /\ \E same \in SUBSET {r \in plan.todo : hits[r] = 0} :
           ap' = [ap EXCEPT !.pc = "next", !.left = plan.todo, !.rec = disabledJson,
                            !.same = same]
    /\ UNCHANGED <<mgrVars, plan, disabledJson, un, byTool, orphans, undone, edits, faults>>

\* Mutant: a rule step1_undo re-enabled does not count as done.
DoneIfOpen(r) == ap.rec[r].state = "open"

Done(r) == ap.rec[r].state # "none"

MayDisable(r) ==
    /\ live[r].there
    /\ ~live[r].disabled
    /\ live[r].body = plan.rule[r].body
    /\ r \in ap.same

\* Already in the record, or the fresh GET shows it is not the planned rule.
ApplySkip(r) ==
    /\ ap.pc = "next" /\ r \in ap.left
    /\ Done(r) \/ ~MayDisable(r)
    /\ ap' = Skipped(ap, r)
    /\ UNCHANGED <<mgrVars, plan, disabledJson, un, histVars, edits, faults>>

ApplyRead(r) ==
    /\ ap.pc = "next" /\ r \in ap.left
    /\ ~Done(r) /\ MayDisable(r)
    /\ ap' = [ap EXCEPT !.pc = "write", !.cur = r, !.seen = live[r]]
    /\ UNCHANGED <<mgrVars, plan, disabledJson, un, histVars, edits, faults>>

\* The operator answers x.  The batch starts at size 1 and asks only once
\* something has been written.
ApplyStop ==
    /\ ap.pc = "write" /\ ap.wrote
    /\ ap' = Idle
    /\ UNCHANGED <<mgrVars, plan, disabledJson, un, histVars, edits, faults>>

ApplyWrite ==
    /\ ap.pc = "write" /\ PutAccepted(ap)
    /\ Put(ap, TRUE)
    /\ byTool' = byTool \cup {ap.cur}
    /\ ap' = [ap EXCEPT !.pc = "verify"]
    /\ UNCHANGED <<hits, plan, disabledJson, un, orphans, undone, overlapped, edits, faults>>

\* 412: somebody changed the rule since it was read.
ApplyRefused ==
    /\ ap.pc = "write" /\ ~PutAccepted(ap)
    /\ ap' = Skipped(ap, ap.cur)
    /\ UNCHANGED <<mgrVars, plan, disabledJson, un, histVars, edits, faults>>

\* Mutant: a rule that somebody edited in between is not recorded.
TurnedOffUnedited(r) == live[r].there /\ live[r].disabled /\ live[r].body = ap.seen.body

TurnedOff(r) == live[r].there /\ live[r].disabled

Record(rec, r, body) == [rec EXCEPT ![r] = [state |-> "open", body |-> body]]

\* Mutant: the record is saved once, after the last rule.
SaveLast(rec) == disabledJson' = IF ap.left = {ap.cur} THEN rec ELSE disabledJson

Save(rec) == disabledJson' = rec

\* Read the rule back; if it is disabled, append it and save the record.  Go
\* on only if it is exactly the old rule with `disabled` set.
ApplyVerify ==
    LET r == ap.cur
        rec == Record(ap.rec, r, live[r].body)
    IN  /\ ap.pc = "verify"
        /\ IF TurnedOff(r) THEN Save(rec) ELSE UNCHANGED disabledJson
        /\ ap' = IF TurnedOff(r) /\ live[r].body = ap.seen.body
                 THEN [Skipped(ap, r) EXCEPT !.rec = rec, !.wrote = TRUE]
                 ELSE Idle
        /\ UNCHANGED <<mgrVars, plan, un, histVars, edits, faults>>

ApplyFinish ==
    /\ ap.pc = "next" /\ ap.left = {}
    /\ ap' = Idle
    /\ UNCHANGED <<mgrVars, plan, disabledJson, un, histVars, edits, faults>>

Fault == faults' = faults + 1 /\ Within(overlapped, edits, faults')

\* The PUT takes effect but its answer is lost: the tool sees a failed call
\* and stops, or the client repeated a 503 and the repeat is refused with 412.
ApplyWriteLost ==
    /\ ap.pc = "write" /\ PutAccepted(ap)
    /\ Fault
    /\ Put(ap, TRUE)
    /\ byTool' = byTool \cup {ap.cur}
    /\ orphans' = orphans \cup {ap.cur}
    /\ ap' \in {Idle, Skipped(ap, ap.cur)}
    /\ UNCHANGED <<hits, plan, disabledJson, un, undone, overlapped, edits>>

\* A read fails, a write fails without effect, or the process is killed.
ApplyDies ==
    /\ ap.pc # "idle"
    /\ Fault
    /\ ap' = Idle
    /\ orphans' = IF ap.pc = "verify" THEN orphans \cup {ap.cur} ELSE orphans
    /\ UNCHANGED <<mgrVars, plan, disabledJson, un, byTool, undone, overlapped, edits>>

-----------------------------------------------------------------------------
(* step1_undo.py --apply [--rule ...]                                       *)

OpenRecords == {r \in Rules : disabledJson[r].state = "open"}

UndoStart ==
    /\ un.pc = "idle"
    /\ StartBeside(ap)
    /\ \E chosen \in (SUBSET OpenRecords) \ {{}} :
           un' = [un EXCEPT !.pc = "next", !.left = chosen, !.rec = disabledJson]
    /\ UNCHANGED <<mgrVars, plan, disabledJson, ap, byTool, orphans, undone, edits, faults>>

\* Mutant: the rule is not compared with its copy in the record.
MayEnableEdited(r) == live[r].there /\ live[r].disabled

MayEnable(r) ==
    /\ live[r].there
    /\ live[r].disabled
    /\ live[r].body = un.rec[r].body

UndoSkip(r) ==
    /\ un.pc = "next" /\ r \in un.left
    /\ ~MayEnable(r)
    /\ un' = Skipped(un, r)
    /\ UNCHANGED <<mgrVars, plan, disabledJson, ap, histVars, edits, faults>>

UndoRead(r) ==
    /\ un.pc = "next" /\ r \in un.left
    /\ MayEnable(r)
    /\ un' = [un EXCEPT !.pc = "write", !.cur = r, !.seen = live[r]]
    /\ UNCHANGED <<mgrVars, plan, disabledJson, ap, histVars, edits, faults>>

UndoStop ==
    /\ un.pc = "write" /\ un.wrote
    /\ un' = Idle
    /\ UNCHANGED <<mgrVars, plan, disabledJson, ap, histVars, edits, faults>>

UndoWrite ==
    /\ un.pc = "write" /\ PutAccepted(un)
    /\ Put(un, FALSE)
    /\ byTool' = byTool \ {un.cur}
    /\ undone' = undone \cup {un.cur}
    /\ un' = [un EXCEPT !.pc = "verify"]
    /\ UNCHANGED <<hits, plan, disabledJson, ap, orphans, overlapped, edits, faults>>

UndoRefused ==
    /\ un.pc = "write" /\ ~PutAccepted(un)
    /\ un' = Skipped(un, un.cur)
    /\ UNCHANGED <<mgrVars, plan, disabledJson, ap, histVars, edits, faults>>

\* Mutant: every selected entry marked at the first write.
MarkSelected(rec, r) ==
    [q \in Rules |-> IF q \in un.left THEN [rec[q] EXCEPT !.state = "reenabled"] ELSE rec[q]]

MarkReenabled(rec, r) == [rec EXCEPT ![r].state = "reenabled"]

UndoVerify ==
    LET r == un.cur
        rec == MarkReenabled(un.rec, r)
    IN  /\ un.pc = "verify"
        /\ IF live[r].there /\ ~live[r].disabled
           THEN /\ disabledJson' = rec
                /\ un' = [Skipped(un, r) EXCEPT !.rec = rec, !.wrote = TRUE]
           ELSE /\ un' = Idle
                /\ UNCHANGED disabledJson
        /\ UNCHANGED <<mgrVars, plan, ap, histVars, edits, faults>>

UndoFinish ==
    /\ un.pc = "next" /\ un.left = {}
    /\ un' = Idle
    /\ UNCHANGED <<mgrVars, plan, disabledJson, ap, histVars, edits, faults>>

UndoWriteLost ==
    /\ un.pc = "write" /\ PutAccepted(un)
    /\ Fault
    /\ Put(un, FALSE)
    /\ byTool' = byTool \ {un.cur}
    /\ undone' = undone \cup {un.cur}
    /\ un' \in {Idle, Skipped(un, un.cur)}
    /\ UNCHANGED <<hits, plan, disabledJson, ap, orphans, overlapped, edits>>

UndoDies ==
    /\ un.pc # "idle"
    /\ Fault
    /\ un' = Idle
    /\ UNCHANGED <<mgrVars, plan, disabledJson, ap, histVars, edits>>

-----------------------------------------------------------------------------
(* Everybody else: people on the manager, and traffic                       *)

Edit == edits' = edits + 1 /\ Within(overlapped, edits', faults)

SomeoneEdits(r, b) ==
    /\ live[r].there /\ b # live[r].body
    /\ Edit
    /\ live' = [live EXCEPT ![r].body = b, ![r].rev = @ + 1]
    /\ UNCHANGED <<hits, plan, disabledJson, ap, un, histVars, faults>>

SomeoneToggles(r) ==
    /\ live[r].there
    /\ Edit
    /\ live' = [live EXCEPT ![r].disabled = ~@, ![r].rev = @ + 1]
    /\ byTool' = byTool \ {r}
    /\ UNCHANGED <<hits, plan, disabledJson, ap, un, orphans, undone, overlapped, faults>>

SomeoneDeletes(r) ==
    /\ live[r].there
    /\ Edit
    /\ live' = [live EXCEPT ![r].there = FALSE, ![r].disabled = FALSE, ![r].rev = 0]
    /\ byTool' = byTool \ {r}
    /\ UNCHANGED <<hits, plan, disabledJson, ap, un, orphans, undone, overlapped, faults>>

\* A disabled rule enforces nothing and counts nothing.
Traffic(r) ==
    /\ live[r].there /\ ~live[r].disabled
    /\ hits[r] < MaxHits
    /\ hits' = [hits EXCEPT ![r] = @ + 1]
    /\ UNCHANGED <<live, plan, disabledJson, ap, un, histVars, edits, faults>>

-----------------------------------------------------------------------------
ApplyStep ==
    \/ \E r \in Rules : ApplySkip(r) \/ ApplyRead(r)
    \/ ApplyWrite \/ ApplyRefused \/ ApplyVerify \/ ApplyFinish

UndoStep ==
    \/ \E r \in Rules : UndoSkip(r) \/ UndoRead(r)
    \/ UndoWrite \/ UndoRefused \/ UndoVerify \/ UndoFinish

Tools ==
    \/ ApplyStart \/ ApplyStep \/ ApplyStop \/ ApplyWriteLost \/ ApplyDies
    \/ UndoStart \/ UndoStep \/ UndoStop \/ UndoWriteLost \/ UndoDies

Others == \E r \in Rules : \/ \E b \in Bodies : SomeoneEdits(r, b)
                           \/ SomeoneToggles(r)
                           \/ SomeoneDeletes(r)
                           \/ Traffic(r)

Next == Tools \/ Others

Spec == Init /\ [][Next]_vars

-----------------------------------------------------------------------------
(* What step 1 and its undo promise.                                        *)

\* A step of step1_disable that turns rule r off (or puts a rule that is gone
\* back disabled); a step of step1_undo that turns it on.
ToolDisables(r) == /\ ap' # ap
                   /\ live'[r].there /\ live'[r].disabled
                   /\ ~(live[r].there /\ live[r].disabled)
ToolEnables(r)  == /\ un' # un
                   /\ live'[r].there /\ ~live'[r].disabled
                   /\ live[r].there => live[r].disabled

InFlight(r) == ap.pc = "verify" /\ ap.cur = r

\* Whatever others do between the GET and the PUT, step 1 only ever turns off
\* a rule that the reviewed plan lists, that is still enabled, and whose
\* configuration is the reviewed one: it never overwrites an edit.
DisablesOnlyReviewed ==
    [][\A r \in Rules : ToolDisables(r) =>
           /\ r \in plan.todo
           /\ live[r].there => live[r].body = plan.rule[r].body
           /\ live'[r].body = plan.rule[r].body]_vars

\* step1_undo only turns on a rule that disabled.json lists, and only in the
\* configuration step 1 left behind: it never overwrites an edit.
EnablesOnlyRecorded ==
    [][\A r \in Rules : ToolEnables(r) =>
           /\ disabledJson[r].state # "none"
           /\ live[r].there => live[r].body = disabledJson[r].body
           /\ live'[r].body = disabledJson[r].body]_vars

\* A rule that step1_undo turned on again, or that disabled.json lists and somebody
\* turned on by hand, is never turned off again by this run, however often step 1
\* is rerun, stopped or killed in between.
NeverDisabledAgain ==
    [][\A r \in Rules : r \in undone \/ disabledJson[r].state # "none" => ~ToolDisables(r)]_vars

\* While no tool is started beside the other: a rule that is off because of step 1
\* has an open entry in disabled.json, is the one rule in hand, or a fault hit
\* exactly that write.
Accounted(r) == disabledJson[r].state = "open" \/ InFlight(r) \/ r \in orphans
Recorded == ~overlapped => \A r \in byTool : Accounted(r)

\* Every lost call or crash costs at most the one rule in hand, while no tool is
\* started beside the other: the record is saved after every single write, so no
\* more than `faults` rules are off without step1_undo and step 2 knowing of them.
FaultCostsOneRule ==
    ~overlapped =>
        Cardinality({r \in byTool : disabledJson[r].state # "open" /\ ~InFlight(r)}) <= faults

\* With nobody else writing and no tool started beside the other: once no tool
\* runs and disabled.json has no open entry, every rule is on or off as it was
\* when the plan was made, except for rules a fault orphaned.
UndoRestoresPlan ==
    ~overlapped /\ edits = 0 /\ ap.pc = "idle" /\ un.pc = "idle" /\ OpenRecords = {} =>
        \A r \in Rules \ orphans : live[r].disabled = plan.rule[r].disabled
=============================================================================
