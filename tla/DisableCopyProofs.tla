------------------------- MODULE DisableCopyProofs -------------------------
(***************************************************************************)
(* What RuleDisable guarantees for any rules, configurations and bounds,     *)
(* and, in the second half, what the reverts of CriticalRules bring back for *)
(* any sources, targets, failures and number of pushes.                      *)
(***************************************************************************)
EXTENDS RuleDisable, CriticalRules, FiniteSetTheorems, TLAPS

\* A tool that is about to write or verify has a rule and its copy in hand.
InHand(w) == w.pc \in {"write", "verify"} => w.cur \in Rules /\ w.seen \in LiveRule

TypeInv == TypeOK /\ InHand(ap) /\ InHand(un)

-----------------------------------------------------------------------------
(* The values the actions build                                             *)

\* A tool that is not running has its type.
LEMMA IdleType ==
    ASSUME TypeOK
    PROVE  Idle \in Worker /\ InHand(Idle)
BY DEF TypeOK, Idle, EmptyRecord, Worker, Records, Entry, LiveRule, InHand

\* A tool that moves on to the next rule keeps its type.
LEMMA SkippedType ==
    ASSUME NEW w \in Worker, NEW r
    PROVE  Skipped(w, r) \in Worker /\ InHand(Skipped(w, r))
BY DEF Skipped, Worker, InHand

\* A PUT leaves the manager well typed.
LEMMA PutType ==
    ASSUME TypeOK, NEW w \in Worker, w.cur \in Rules, w.seen \in LiveRule,
           NEW off \in BOOLEAN, Put(w, off)
    PROVE  live' \in [Rules -> LiveRule]
BY DEF TypeOK, Put, LiveRule

\* disabled.json stays well typed when an entry is added or marked.
LEMMA RecordType ==
    ASSUME NEW rec \in Records, NEW r \in Rules, NEW body \in Bodies
    PROVE  Record(rec, r, body) \in Records /\ MarkReenabled(rec, r) \in Records
BY DEF Record, MarkReenabled, Records, Entry

-----------------------------------------------------------------------------
\* Type correctness holds at the start: every variable has its type, and a tool
\* that is about to write or verify has a rule in hand.
LEMMA TypeInit == Init => TypeInv
<1> SUFFICES ASSUME Init PROVE TypeInv
    OBVIOUS
<1> USE NoneAssumption, BoundsAssumption
<1> DEFINE FirstRule == [there: {TRUE}, body: Bodies, disabled: BOOLEAN, rev: {0}]
<1>0. ASSUME NEW x \in FirstRule PROVE x \in LiveRule
    <2>1. x.there \in {TRUE} /\ x.body \in Bodies /\ x.disabled \in BOOLEAN /\ x.rev \in {0}
        OBVIOUS
    <2>2. x.there \in BOOLEAN
        BY <2>1, Zenon
    <2>3. x = [there |-> x.there, body |-> x.body, disabled |-> x.disabled, rev |-> x.rev]
        OBVIOUS
    <2> QED
        BY <2>1, <2>2, <2>3 DEF LiveRule
<1> HIDE DEF FirstRule
<1>1. live \in [Rules -> LiveRule]
    <2>1. live \in [Rules -> FirstRule]
        BY DEF Init, FirstRule
    <2> QED
        BY <1>0, <2>1
<1>2. plan \in [todo: SUBSET Rules, rule: [Rules -> LiveRule]]
    BY <1>1 DEF Init
<1>3. EmptyRecord \in Records
    BY <1>2 DEF EmptyRecord, Records, Entry, LiveRule
<1>4. Idle \in Worker /\ InHand(Idle)
    BY <1>3 DEF Idle, Worker, InHand
<1> QED
    BY <1>1, <1>2, <1>3, <1>4 DEF Init, TypeInv, TypeOK

\* What a step of step1_disable leaves alone keeps its type.
LEMMA ApplyFrame ==
    ASSUME TypeInv, ap' \in Worker, InHand(ap'), UNCHANGED <<hits, plan, un, undone, edits>>,
           live' \in [Rules -> LiveRule], disabledJson' \in Records,
           byTool' \subseteq Rules, orphans' \subseteq Rules, overlapped' \in BOOLEAN, faults' \in Nat
    PROVE  TypeInv'
BY DEF TypeInv, TypeOK, InHand

\* What a step of step1_undo leaves alone keeps its type.
LEMMA UndoFrame ==
    ASSUME TypeInv, un' \in Worker, InHand(un'), UNCHANGED <<hits, plan, ap, orphans, edits>>,
           live' \in [Rules -> LiveRule], disabledJson' \in Records,
           byTool' \subseteq Rules, undone' \subseteq Rules, overlapped' \in BOOLEAN, faults' \in Nat
    PROVE  TypeInv'
BY DEF TypeInv, TypeOK, InHand

\* What other people leave alone keeps its type.
LEMMA OthersFrame ==
    ASSUME TypeInv, UNCHANGED <<plan, disabledJson, ap, un, orphans, undone, overlapped, faults>>,
           live' \in [Rules -> LiveRule], hits' \in [Rules -> Nat],
           byTool' \subseteq Rules, edits' \in Nat
    PROVE  TypeInv'
BY DEF TypeInv, TypeOK, InHand

\* Every step keeps the types.
LEMMA TypeNext == TypeInv /\ [Next]_vars => TypeInv'
<1> SUFFICES ASSUME TypeInv, [Next]_vars PROVE TypeInv'
    OBVIOUS
<1> USE BoundsAssumption
<1>t. TypeOK /\ InHand(ap) /\ InHand(un)
    BY DEF TypeInv
<1>i. Idle \in Worker /\ InHand(Idle)
    BY <1>t, IdleType
<1>w. ap \in Worker /\ un \in Worker
    BY <1>t DEF TypeOK
<1>o. /\ live \in [Rules -> LiveRule] /\ disabledJson \in Records
      /\ byTool \subseteq Rules /\ orphans \subseteq Rules /\ undone \subseteq Rules
      /\ overlapped \in BOOLEAN /\ edits \in Nat /\ faults \in Nat
    BY <1>t DEF TypeOK
<1>f. Fault => faults' \in Nat
    BY <1>o DEF Fault
<1>e. Edit => edits' \in Nat
    BY <1>o DEF Edit
<1>p. ASSUME NEW w \in Worker, InHand(w), w.pc = "write", NEW off \in BOOLEAN, Put(w, off)
      PROVE  live' \in [Rules -> LiveRule] /\ w.cur \in Rules
    BY <1>p, <1>t, PutType DEF InHand
<1>v. ASSUME NEW w \in Worker, InHand(w), w.pc = "write"
      PROVE  [w EXCEPT !.pc = "verify"] \in Worker /\ InHand([w EXCEPT !.pc = "verify"])
    BY <1>v DEF Worker, InHand
<1>1. CASE ApplyStart
    <2>1. ap' \in Worker /\ InHand(ap')
        BY <1>1, <1>t, <1>w, <1>o DEF ApplyStart, TypeOK, Worker, InHand
    <2> QED
        BY <1>1, <2>1, <1>o, ApplyFrame DEF ApplyStart, StartBeside, mgrVars
<1>2. ASSUME NEW r \in Rules, ApplySkip(r) PROVE TypeInv'
    BY <1>2, <1>w, <1>o, SkippedType, ApplyFrame DEF ApplySkip, mgrVars, histVars
<1>3. ASSUME NEW r \in Rules, ApplyRead(r) PROVE TypeInv'
    <2>1. ap' \in Worker /\ InHand(ap')
        BY <1>3, <1>w, <1>o DEF ApplyRead, Worker, InHand
    <2> QED
        BY <1>3, <2>1, <1>o, ApplyFrame DEF ApplyRead, mgrVars, histVars
<1>4. CASE ApplyWrite
    <2>1. live' \in [Rules -> LiveRule] /\ ap.cur \in Rules
        BY <1>4, <1>w, <1>t, <1>p DEF ApplyWrite
    <2>2. ap' \in Worker /\ InHand(ap')
        BY <1>4, <1>w, <1>t, <1>v DEF ApplyWrite
    <2> QED
        BY <1>4, <2>1, <2>2, <1>o, ApplyFrame DEF ApplyWrite
<1>5. CASE ApplyRefused
    BY <1>5, <1>w, <1>o, SkippedType, ApplyFrame DEF ApplyRefused, mgrVars, histVars
<1>6. CASE ApplyVerify
    <2> DEFINE r == ap.cur
               rec == Record(ap.rec, r, live[r].body)
    <2>1. r \in Rules /\ live[r].body \in Bodies /\ ap.rec \in Records
        BY <1>6, <1>w, <1>t, <1>o DEF ApplyVerify, InHand, Worker, LiveRule
    <2>2. rec \in Records
        BY <2>1, RecordType
    <2>3. Skipped(ap, r) \in Worker
        BY <1>w, SkippedType
    <2> DEFINE next == [Skipped(ap, r) EXCEPT !.rec = rec, !.wrote = TRUE]
    <2>4. next \in Worker /\ InHand(next)
        <3> HIDE DEF rec
        <3>1. next \in Worker
            BY <2>2, <2>3 DEF Worker
        <3>2. next.pc = "next"
            BY <1>w DEF Skipped, Worker
        <3> QED
            BY <3>1, <3>2 DEF InHand
    <2>5. ap' \in Worker /\ InHand(ap')
        BY <1>6, <1>i, <2>4 DEF ApplyVerify
    <2>6. disabledJson' \in Records
        BY <1>6, <1>o, <2>2 DEF ApplyVerify, Save
    <2> QED
        BY <1>6, <2>5, <2>6, <1>o, ApplyFrame DEF ApplyVerify, mgrVars, histVars
<1>7. CASE ApplyFinish
    BY <1>7, <1>i, <1>o, ApplyFrame DEF ApplyFinish, mgrVars, histVars
<1>8. CASE ApplyStop
    BY <1>8, <1>i, <1>o, ApplyFrame DEF ApplyStop, mgrVars, histVars
<1>9. CASE ApplyWriteLost
    <2>1. live' \in [Rules -> LiveRule] /\ ap.cur \in Rules
        BY <1>9, <1>w, <1>t, <1>p DEF ApplyWriteLost
    <2>2. ap' \in Worker /\ InHand(ap')
        BY <1>9, <1>w, <1>i, SkippedType DEF ApplyWriteLost
    <2> QED
        BY <1>9, <2>1, <2>2, <1>o, <1>f, ApplyFrame DEF ApplyWriteLost
<1>10. CASE ApplyDies
    <2>1. ap.pc = "verify" => ap.cur \in Rules
        BY <1>t DEF InHand
    <2>2. orphans' \subseteq Rules
        BY <1>10, <2>1, <1>o DEF ApplyDies
    <2> QED
        BY <1>10, <2>2, <1>i, <1>o, <1>f, ApplyFrame DEF ApplyDies, mgrVars
<1>11. CASE UndoStart
    <2>1. PICK chosen \in SUBSET Rules :
              un' = [un EXCEPT !.pc = "next", !.left = chosen, !.rec = disabledJson]
        BY <1>11 DEF UndoStart, OpenRecords
    <2>2. un' \in Worker /\ InHand(un')
        BY <2>1, <1>w, <1>o DEF Worker, InHand
    <2> QED
        BY <1>11, <2>2, <1>o, UndoFrame DEF UndoStart, StartBeside, mgrVars
<1>12. ASSUME NEW r \in Rules, UndoSkip(r) PROVE TypeInv'
    BY <1>12, <1>w, <1>o, SkippedType, UndoFrame DEF UndoSkip, mgrVars, histVars
<1>13. ASSUME NEW r \in Rules, UndoRead(r) PROVE TypeInv'
    <2>1. un' \in Worker /\ InHand(un')
        BY <1>13, <1>w, <1>o DEF UndoRead, Worker, InHand
    <2> QED
        BY <1>13, <2>1, <1>o, UndoFrame DEF UndoRead, mgrVars, histVars
<1>14. CASE UndoWrite
    <2>1. live' \in [Rules -> LiveRule] /\ un.cur \in Rules
        BY <1>14, <1>w, <1>t, <1>p DEF UndoWrite
    <2>2. un' \in Worker /\ InHand(un')
        BY <1>14, <1>w, <1>t, <1>v DEF UndoWrite
    <2> QED
        BY <1>14, <2>1, <2>2, <1>o, UndoFrame DEF UndoWrite
<1>15. CASE UndoRefused
    BY <1>15, <1>w, <1>o, SkippedType, UndoFrame DEF UndoRefused, mgrVars, histVars
<1>16. CASE UndoVerify
    <2> DEFINE r == un.cur
               rec == MarkReenabled(un.rec, r)
    <2>1. r \in Rules /\ live[r].body \in Bodies /\ un.rec \in Records
        BY <1>16, <1>w, <1>t, <1>o DEF UndoVerify, InHand, Worker, LiveRule
    <2>2. rec \in Records
        BY <2>1, RecordType
    <2>3. Skipped(un, r) \in Worker
        BY <1>w, SkippedType
    <2> DEFINE next == [Skipped(un, r) EXCEPT !.rec = rec, !.wrote = TRUE]
    <2>4. next \in Worker /\ InHand(next)
        <3> HIDE DEF rec
        <3>1. next \in Worker
            BY <2>2, <2>3 DEF Worker
        <3>2. next.pc = "next"
            BY <1>w DEF Skipped, Worker
        <3> QED
            BY <3>1, <3>2 DEF InHand
    <2>5. un' \in Worker /\ InHand(un')
        BY <1>16, <1>i, <2>4 DEF UndoVerify
    <2>6. disabledJson' \in Records
        BY <1>16, <1>o, <2>2 DEF UndoVerify
    <2> QED
        BY <1>16, <2>5, <2>6, <1>o, UndoFrame DEF UndoVerify, mgrVars, histVars
<1>17. CASE UndoFinish
    BY <1>17, <1>i, <1>o, UndoFrame DEF UndoFinish, mgrVars, histVars
<1>18. CASE UndoStop
    BY <1>18, <1>i, <1>o, UndoFrame DEF UndoStop, mgrVars, histVars
<1>19. CASE UndoWriteLost
    <2>1. live' \in [Rules -> LiveRule] /\ un.cur \in Rules
        BY <1>19, <1>w, <1>t, <1>p DEF UndoWriteLost
    <2>2. un' \in Worker /\ InHand(un')
        BY <1>19, <1>w, <1>i, SkippedType DEF UndoWriteLost
    <2> QED
        BY <1>19, <2>1, <2>2, <1>o, <1>f, UndoFrame DEF UndoWriteLost
<1>20. CASE UndoDies
    BY <1>20, <1>i, <1>o, <1>f, UndoFrame DEF UndoDies, mgrVars, histVars
<1>21. ASSUME NEW r \in Rules, NEW b \in Bodies, SomeoneEdits(r, b) PROVE TypeInv'
    <2>1. live' \in [Rules -> LiveRule]
        BY <1>21, <1>o DEF SomeoneEdits, LiveRule
    <2> QED
        BY <1>21, <2>1, <1>o, <1>t, <1>e, OthersFrame DEF SomeoneEdits, histVars, TypeOK
<1>22. ASSUME NEW r \in Rules, SomeoneToggles(r) PROVE TypeInv'
    <2>1. live' \in [Rules -> LiveRule]
        BY <1>22, <1>o DEF SomeoneToggles, LiveRule
    <2> QED
        BY <1>22, <2>1, <1>o, <1>t, <1>e, OthersFrame DEF SomeoneToggles, TypeOK
<1>23. ASSUME NEW r \in Rules, SomeoneDeletes(r) PROVE TypeInv'
    <2>1. live' \in [Rules -> LiveRule]
        BY <1>23, <1>o DEF SomeoneDeletes, LiveRule
    <2> QED
        BY <1>23, <2>1, <1>o, <1>t, <1>e, OthersFrame DEF SomeoneDeletes, TypeOK
<1>24. ASSUME NEW r \in Rules, Traffic(r) PROVE TypeInv'
    <2>1. hits' \in [Rules -> Nat]
        BY <1>24, <1>t DEF Traffic, TypeOK
    <2> QED
        BY <1>24, <2>1, <1>o, OthersFrame DEF Traffic, histVars
<1>25. CASE UNCHANGED vars
    BY <1>25, <1>w, <1>o, <1>t, ApplyFrame DEF vars
<1> QED
    BY <1>1, <1>2, <1>3, <1>4, <1>5, <1>6, <1>7, <1>8, <1>9, <1>10, <1>11, <1>12, <1>13,
       <1>14, <1>15, <1>16, <1>17, <1>18, <1>19, <1>20, <1>21, <1>22, <1>23, <1>24, <1>25
    DEF Next, Tools, ApplyStep, UndoStep, Others

\* Type correctness: every variable always has its type.
THEOREM TypeCorrect == Spec => []TypeOK
<1>1. TypeInv => TypeOK
    BY DEF TypeInv
<1> QED
    BY <1>1, TypeInit, TypeNext, PTL DEF Spec

-----------------------------------------------------------------------------
(* One tool at a time: why the record is complete and no edit is lost       *)

\* The copy a tool has read is the manager's, as long as the revision is.
Fresh(w) ==
    LET l == live[w.cur] IN
    l.there => l.rev >= w.seen.rev /\ (l.rev = w.seen.rev => l = w.seen)

\* One tool runs at a time, on the record as it is on disk.
Alone ==
    /\ ap.pc = "idle" \/ un.pc = "idle"
    /\ ap.pc # "idle" => ap.rec = disabledJson
    /\ un.pc # "idle" => un.rec = disabledJson

ByToolOff == \A r \in byTool : live[r].there /\ live[r].disabled

\* step1_disable works on planned rules that are in no record yet.
ApplyInv ==
    /\ ap.left \subseteq plan.todo
    /\ ap.pc \in {"write", "verify"} =>
           ap.cur \in plan.todo /\ ap.rec[ap.cur].state = "none"
    /\ ap.pc = "write" => ap.seen.body = plan.rule[ap.cur].body /\ Fresh(ap)

\* step1_undo works on recorded rules.
UndoInv ==
    /\ \A r \in un.left : un.rec[r].state # "none"
    /\ un.pc \in {"write", "verify"} => un.rec[un.cur].state # "none"
    /\ un.pc = "write" =>
           /\ un.seen.body = un.rec[un.cur].body
           /\ Fresh(un)

\* What is recorded was planned, and what was planned was enabled then.
RecordInv ==
    /\ \A r \in plan.todo : ~plan.rule[r].disabled
    /\ \A r \in Rules : disabledJson[r].state # "none" => r \in plan.todo

\* The record is complete.
AllAccounted == \A r \in byTool : Accounted(r)

\* Until someone else writes, step 1 alone explains what is off.
Untouched ==
    edits = 0 => \A r \in Rules :
        /\ live[r].there
        /\ live[r].disabled <=> plan.rule[r].disabled \/ r \in byTool

SoloInv ==
    /\ TypeInv /\ Alone /\ ByToolOff /\ AllAccounted
    /\ ApplyInv /\ UndoInv /\ RecordInv /\ Untouched

\* What moving on to the next rule changes.
LEMMA SkippedFields ==
    ASSUME NEW w \in Worker, NEW r
    PROVE  /\ Skipped(w, r).pc = "next" /\ Skipped(w, r).rec = w.rec
           /\ Skipped(w, r).left = w.left \ {r} /\ Skipped(w, r).cur = None
BY DEF Skipped, Worker

\* A tool that is not running has no rules left.
LEMMA IdleFields == Idle.pc = "idle" /\ Idle.left = {}
BY DEF Idle

\* The invariant of one tool at a time holds at the start.
LEMMA SoloInit == Init => SoloInv
<1> SUFFICES ASSUME Init PROVE SoloInv
    OBVIOUS
<1>1. TypeInv
    BY TypeInit
<1>2. PICK todo \in SUBSET {r \in Rules : ~live[r].disabled} : plan = [todo |-> todo, rule |-> live]
    BY DEF Init
<1>3. \A r \in Rules : live[r].there
    BY DEF Init
<1>4. /\ ap = Idle /\ un = Idle /\ byTool = {} /\ undone = {}
      /\ \A r \in Rules : disabledJson[r].state = "none"
    BY DEF Init, EmptyRecord
<1>5. Alone /\ ByToolOff /\ AllAccounted /\ ApplyInv /\ UndoInv
    BY <1>4, IdleFields DEF Alone, ByToolOff, AllAccounted, ApplyInv, UndoInv
<1>6. RecordInv
    BY <1>2, <1>4 DEF RecordInv
<1>7. Untouched
    BY <1>2, <1>3, <1>4 DEF Untouched
<1> QED
    BY <1>1, <1>5, <1>6, <1>7 DEF SoloInv

\* A step in which step1_disable only moves on or ends.
LEMMA ApplyMovesOn ==
    ASSUME SoloInv, TypeInv', ap.pc \in {"next", "write"},
           UNCHANGED <<live, plan, disabledJson, un, byTool, orphans, undone, edits>>,
           NEW r, ap' \in {Idle, Skipped(ap, r)}
    PROVE  SoloInv'
<1>1. /\ ap'.pc \in {"idle", "next"} /\ ap'.left \subseteq ap.left
      /\ ap'.pc = "next" => ap'.rec = ap.rec
    BY SkippedFields, IdleFields DEF SoloInv, TypeInv, TypeOK
<1>2. Alone'
    BY <1>1 DEF SoloInv, Alone
<1>3. ByToolOff' /\ RecordInv' /\ Untouched'
    BY DEF SoloInv, ByToolOff, RecordInv, Untouched
<1>4. AllAccounted'
    BY DEF SoloInv, AllAccounted, Accounted, InFlight
<1>5. ApplyInv'
    BY <1>1 DEF SoloInv, ApplyInv
<1>6. UndoInv'
    BY DEF SoloInv, UndoInv, Fresh
<1> QED
    BY <1>2, <1>3, <1>4, <1>5, <1>6 DEF SoloInv

\* A step in which step1_undo only moves on or ends.
LEMMA UndoMovesOn ==
    ASSUME SoloInv, TypeInv', un.pc # "idle",
           UNCHANGED <<live, plan, disabledJson, ap, byTool, orphans, undone, edits>>,
           NEW r, un' \in {Idle, Skipped(un, r)}
    PROVE  SoloInv'
<1>1. /\ un'.pc \in {"idle", "next"} /\ un'.left \subseteq un.left
      /\ un'.pc = "next" => un'.rec = un.rec
    BY SkippedFields, IdleFields DEF SoloInv, TypeInv, TypeOK
<1>2. Alone'
    BY <1>1 DEF SoloInv, Alone
<1>3. ByToolOff' /\ RecordInv' /\ Untouched'
    BY DEF SoloInv, ByToolOff, RecordInv, Untouched
<1>4. AllAccounted'
    BY DEF SoloInv, AllAccounted, Accounted, InFlight
<1>5. ApplyInv'
    BY DEF SoloInv, ApplyInv, Fresh
<1>6. UndoInv'
    <2>1. un' = Idle => un'.left = {}
        BY IdleFields
    <2>2. CASE un' = Idle
        BY <2>1, <2>2, IdleFields DEF UndoInv
    <2>3. CASE un' = Skipped(un, r)
        BY <2>3, SkippedFields DEF SoloInv, TypeInv, TypeOK, UndoInv
    <2> QED
        BY <2>2, <2>3
<1> QED
    BY <1>2, <1>3, <1>4, <1>5, <1>6 DEF SoloInv

\* Someone else's write to rule r spoils no copy a tool has read.
LEMMA EditKeepsFresh ==
    ASSUME TypeInv, NEW w \in Worker, InHand(w), w.pc = "write", Fresh(w),
           UNCHANGED w, NEW r \in Rules, NEW new \in LiveRule,
           live' = [live EXCEPT ![r] = new],
           new.there => live[r].there /\ new.rev = live[r].rev + 1
    PROVE  Fresh(w)'
<1>1. /\ w.cur \in Rules /\ w.seen.rev \in Nat
      /\ \A q \in Rules : live[q].rev \in Nat
    BY DEF TypeInv, TypeOK, InHand, LiveRule
<1>2. CASE w.cur = r
    BY <1>1, <1>2 DEF Fresh, TypeInv, TypeOK
<1>3. CASE w.cur # r
    <2>1. live'[w.cur] = live[w.cur]
        BY <1>1, <1>3 DEF TypeInv, TypeOK
    <2> QED
        BY <2>1 DEF Fresh
<1> QED
    BY <1>2, <1>3

\* A step in which someone else writes to rule r.
LEMMA EditKeepsSolo ==
    ASSUME SoloInv, TypeInv', Edit,
           UNCHANGED <<plan, disabledJson, ap, un, orphans, undone>>,
           NEW r \in Rules, NEW new \in LiveRule, live' = [live EXCEPT ![r] = new],
           new.there => live[r].there /\ new.rev = live[r].rev + 1,
           \/ byTool' = byTool \ {r}
           \/ byTool' = byTool /\ new.there = live[r].there /\ new.disabled = live[r].disabled
    PROVE  SoloInv'
<1>1. TypeInv /\ ap \in Worker /\ un \in Worker /\ InHand(ap) /\ InHand(un)
    BY DEF SoloInv, TypeInv, TypeOK
<1>2. Alone' /\ RecordInv'
    BY DEF SoloInv, Alone, RecordInv
<1>3. ByToolOff'
    BY <1>1 DEF SoloInv, ByToolOff, TypeInv, TypeOK
<1>4. AllAccounted'
    BY DEF SoloInv, AllAccounted, Accounted, InFlight
<1>5. Untouched'
    BY <1>1 DEF Untouched, Edit, TypeInv, TypeOK
<1>6. ApplyInv'
    <2>1. ap.pc = "write" => Fresh(ap)'
        BY <1>1, EditKeepsFresh DEF SoloInv, ApplyInv
    <2> QED
        BY <2>1 DEF SoloInv, ApplyInv
<1>7. UndoInv'
    <2>1. un.pc = "write" => Fresh(un)'
        BY <1>1, EditKeepsFresh DEF SoloInv, UndoInv
    <2> QED
        BY <2>1 DEF SoloInv, UndoInv
<1> QED
    BY <1>2, <1>3, <1>4, <1>5, <1>6, <1>7 DEF SoloInv

\* A PUT of rule r by either tool: what the manager has afterwards.
LEMMA PutResult ==
    ASSUME TypeInv, NEW w \in Worker, InHand(w), w.pc = "write", NEW off \in BOOLEAN, Put(w, off)
    PROVE  /\ w.cur \in Rules
           /\ live'[w.cur].there /\ live'[w.cur].disabled = off
           /\ live'[w.cur].body = w.seen.body
           /\ \A r \in Rules \ {w.cur} : live'[r] = live[r]
BY DEF TypeInv, TypeOK, InHand, Put

\* step1_disable turns a rule off, and verifies it next or loses the answer.
LEMMA ApplyPutKeepsSolo ==
    ASSUME SoloInv, TypeInv', ap.pc = "write", Put(ap, TRUE), byTool' = byTool \cup {ap.cur},
           UNCHANGED <<plan, disabledJson, un, undone, edits>>,
           \/ ap' = [ap EXCEPT !.pc = "verify"] /\ UNCHANGED orphans
           \/ ap' \in {Idle, Skipped(ap, ap.cur)} /\ orphans' = orphans \cup {ap.cur}
    PROVE  SoloInv'
<1>t. TypeInv /\ ap \in Worker /\ InHand(ap)
    BY DEF SoloInv, TypeInv, TypeOK
<1>p. /\ ap.cur \in Rules
      /\ live'[ap.cur].there /\ live'[ap.cur].disabled
      /\ \A r \in Rules \ {ap.cur} : live'[r] = live[r]
    BY <1>t, PutResult
<1>a. /\ ap'.pc \in {"idle", "next", "verify"} /\ ap'.left \subseteq ap.left
      /\ ap'.pc # "idle" => ap'.rec = ap.rec
      /\ ap'.pc = "verify" => ap'.cur = ap.cur
      /\ ap.cur \in orphans' \/ (ap'.pc = "verify" /\ ap'.cur = ap.cur)
      /\ orphans \subseteq orphans'
    <2>1. CASE ap' = [ap EXCEPT !.pc = "verify"] /\ UNCHANGED orphans
        BY <2>1, <1>t DEF Worker
    <2>2. CASE ap' \in {Idle, Skipped(ap, ap.cur)} /\ orphans' = orphans \cup {ap.cur}
        BY <2>2, <1>t, SkippedFields, IdleFields
    <2> QED
        BY <2>1, <2>2
<1>u. un.pc = "idle"
    BY DEF SoloInv, Alone
<1>1. Alone' /\ RecordInv'
    BY <1>a, <1>u DEF SoloInv, Alone, RecordInv
<1>2. ByToolOff'
    BY <1>p, <1>t DEF SoloInv, ByToolOff, TypeInv, TypeOK
<1>3. AllAccounted'
    <2> SUFFICES ASSUME NEW r \in byTool'
                 PROVE  (disabledJson[r].state = "open" \/ InFlight(r) \/ r \in orphans)'
        BY DEF AllAccounted, Accounted
    <2>1. CASE r = ap.cur
        BY <2>1, <1>a DEF InFlight
    <2>2. CASE r # ap.cur
        BY <2>2, <1>a DEF SoloInv, AllAccounted, Accounted, InFlight
    <2> QED
        BY <2>1, <2>2
<1>4. ApplyInv'
    BY <1>a DEF SoloInv, ApplyInv
<1>5. UndoInv'
    BY <1>u DEF SoloInv, UndoInv
<1>6. Untouched'
    BY <1>p DEF SoloInv, Untouched
<1> QED
    BY <1>1, <1>2, <1>3, <1>4, <1>5, <1>6 DEF SoloInv

\* step1_undo turns a rule on, and verifies it next or loses the answer.
LEMMA UndoPutKeepsSolo ==
    ASSUME SoloInv, TypeInv', un.pc = "write", Put(un, FALSE), byTool' = byTool \ {un.cur},
           undone' = undone \cup {un.cur},
           UNCHANGED <<plan, disabledJson, ap, orphans, edits>>,
           un' \in {[un EXCEPT !.pc = "verify"], Idle, Skipped(un, un.cur)}
    PROVE  SoloInv'
<1>t. TypeInv /\ un \in Worker /\ InHand(un)
    BY DEF SoloInv, TypeInv, TypeOK
<1>p. /\ un.cur \in Rules
      /\ live'[un.cur].there /\ ~live'[un.cur].disabled
      /\ \A r \in Rules \ {un.cur} : live'[r] = live[r]
    BY <1>t, PutResult
<1>a. /\ un'.pc \in {"idle", "next", "verify"}
      /\ un'.pc # "idle" => un'.rec = un.rec
      /\ un'.pc = "verify" => un'.cur = un.cur
      /\ un' = Idle \/ (un'.left \subseteq un.left /\ un'.rec = un.rec)
    <2>1. CASE un' = [un EXCEPT !.pc = "verify"]
        BY <2>1, <1>t DEF Worker
    <2>2. CASE un' \in {Idle, Skipped(un, un.cur)}
        BY <2>2, <1>t, SkippedFields, IdleFields
    <2> QED
        BY <2>1, <2>2
<1>u. ap.pc = "idle"
    BY DEF SoloInv, Alone
<1>r. un.rec[un.cur].state # "none" /\ un.rec = disabledJson
    BY DEF SoloInv, UndoInv, Alone
<1>1. Alone' /\ RecordInv'
    BY <1>a, <1>u, <1>r DEF SoloInv, Alone, RecordInv
<1>2. ByToolOff'
    BY <1>p, <1>t DEF SoloInv, ByToolOff, TypeInv, TypeOK
<1>3. AllAccounted'
    BY DEF SoloInv, AllAccounted, Accounted, InFlight
<1>4. ApplyInv'
    BY <1>u DEF SoloInv, ApplyInv
<1>5. UndoInv'
    <2>1. \A r \in un'.left : un'.rec[r].state # "none"
        BY <1>a, IdleFields DEF SoloInv, UndoInv
    <2> QED
        BY <2>1, <1>a, <1>r DEF UndoInv
<1>6. Untouched'
    <2>1. ~plan.rule[un.cur].disabled
        BY <1>r, <1>p DEF SoloInv, RecordInv
    <2> QED
        BY <2>1, <1>p DEF SoloInv, Untouched
<1> QED
    BY <1>1, <1>2, <1>3, <1>4, <1>5, <1>6 DEF SoloInv

\* step1_disable reads the rule back, and saves the record if it is off.
LEMMA ApplyVerifyKeepsSolo ==
    ASSUME SoloInv, TypeInv', ApplyVerify
    PROVE  SoloInv'
<1> DEFINE r == ap.cur
           rec == Record(ap.rec, r, live[r].body)
           next == [Skipped(ap, r) EXCEPT !.rec = rec, !.wrote = TRUE]
<1>t. /\ ap \in Worker /\ ap.pc = "verify" /\ r \in Rules /\ disabledJson \in Records
      /\ ap.rec = disabledJson /\ un.pc = "idle" /\ r \in plan.todo
    BY DEF SoloInv, TypeInv, TypeOK, InHand, Alone, ApplyInv, ApplyVerify
<1>f. UNCHANGED <<live, plan, un, byTool, orphans, undone, edits>>
    BY DEF ApplyVerify, mgrVars, histVars
<1>n. next.pc = "next" /\ next.left \subseteq ap.left /\ next.rec = rec
    BY <1>t DEF Skipped, Worker
<1>c. \/ TurnedOff(r) /\ disabledJson' = rec /\ ap' \in {Idle, next}
      \/ ~TurnedOff(r) /\ disabledJson' = disabledJson /\ ap' = Idle
    BY DEF ApplyVerify, Save
<1>d. rec[r].state = "open" /\ \A q \in Rules \ {r} : rec[q] = disabledJson[q]
    BY <1>t DEF Record, Records
<1>j. \A q \in Rules : disabledJson'[q] = disabledJson[q] \/ (q = r /\ disabledJson'[q].state = "open")
    BY <1>c, <1>d
<1>a. ap'.pc \in {"idle", "next"} /\ ap'.left \subseteq ap.left /\ (ap'.pc # "idle" => ap'.rec = disabledJson')
    BY <1>c, <1>n, IdleFields
<1> HIDE DEF rec, next
<1>1. Alone' /\ ApplyInv'
    BY <1>a, <1>f, <1>t DEF SoloInv, Alone, ApplyInv
<1>2. ByToolOff' /\ Untouched' /\ UndoInv'
    BY <1>f, <1>t DEF SoloInv, ByToolOff, Untouched, UndoInv
<1>3. RecordInv'
    BY <1>f, <1>j, <1>t DEF SoloInv, RecordInv, TypeInv, TypeOK
<1>4. AllAccounted'
    <2> SUFFICES ASSUME NEW q \in byTool'
                 PROVE  (disabledJson[q].state = "open" \/ InFlight(q) \/ q \in orphans)'
        BY DEF AllAccounted, Accounted
    <2>1. q \in byTool /\ q \in Rules /\ TurnedOff(q)
        BY <1>f DEF SoloInv, ByToolOff, TypeInv, TypeOK, TurnedOff
    <2>2. CASE q = r
        BY <2>1, <2>2, <1>c, <1>d
    <2>3. CASE q # r
        BY <2>1, <2>3, <1>f, <1>j DEF SoloInv, AllAccounted, Accounted, InFlight
    <2> QED
        BY <2>2, <2>3
<1> QED
    BY <1>1, <1>2, <1>3, <1>4 DEF SoloInv

\* step1_undo reads the rule back, and marks its entry if it is on.
LEMMA UndoVerifyKeepsSolo ==
    ASSUME SoloInv, TypeInv', UndoVerify
    PROVE  SoloInv'
<1> DEFINE r == un.cur
           rec == MarkReenabled(un.rec, r)
           next == [Skipped(un, r) EXCEPT !.rec = rec, !.wrote = TRUE]
<1>t. /\ un \in Worker /\ un.pc = "verify" /\ r \in Rules /\ disabledJson \in Records
      /\ un.rec = disabledJson /\ ap.pc = "idle" /\ disabledJson[r].state # "none"
    BY DEF SoloInv, TypeInv, TypeOK, InHand, Alone, UndoInv, UndoVerify
<1>f. UNCHANGED <<live, plan, ap, byTool, orphans, undone, edits>>
    BY DEF UndoVerify, mgrVars, histVars
<1>n. next.pc = "next" /\ next.left \subseteq un.left /\ next.rec = rec
    BY <1>t DEF Skipped, Worker
<1>c. \/ ~live[r].disabled /\ disabledJson' = rec /\ un' = next
      \/ disabledJson' = disabledJson /\ un' = Idle
    BY DEF UndoVerify
<1>d. rec[r].state = "reenabled" /\ \A q \in Rules \ {r} : rec[q] = disabledJson[q]
    BY <1>t DEF MarkReenabled, Records
<1>j. \A q \in Rules : \/ disabledJson'[q] = disabledJson[q]
                       \/ q = r /\ ~live[r].disabled /\ disabledJson'[q].state # "none"
    BY <1>c, <1>d
<1>a. /\ un'.pc \in {"idle", "next"} /\ (un'.pc # "idle" => un'.rec = disabledJson')
      /\ un' = Idle \/ (un'.left \subseteq un.left /\ un'.rec = disabledJson')
    BY <1>c, <1>n, IdleFields
<1>l. un.left \subseteq Rules /\ \A q \in un.left : disabledJson[q].state # "none"
    BY <1>t DEF SoloInv, UndoInv, Worker
<1> HIDE DEF rec, next
<1>1. Alone' /\ ApplyInv'
    BY <1>a, <1>f, <1>t DEF SoloInv, Alone, ApplyInv
<1>2. ByToolOff' /\ Untouched'
    BY <1>f DEF SoloInv, ByToolOff, Untouched
<1>3. UndoInv'
    BY <1>a, <1>j, <1>l, <1>t, IdleFields DEF UndoInv
<1>4. RecordInv'
    BY <1>f, <1>j, <1>t DEF SoloInv, RecordInv, TypeInv, TypeOK
<1>5. AllAccounted'
    BY <1>f, <1>j DEF SoloInv, AllAccounted, Accounted, InFlight, ByToolOff, TypeInv, TypeOK
<1> QED
    BY <1>1, <1>2, <1>3, <1>4, <1>5 DEF SoloInv

\* Every step keeps the invariant, as long as the tools do not overlap.
LEMMA SoloNext ==
    ASSUME SoloInv, [Next]_vars, ~overlapped'
    PROVE  SoloInv'
<1> USE DEF mgrVars, histVars
<1>n. TypeInv'
    BY TypeNext DEF SoloInv
<1>t. TypeInv /\ ap \in Worker /\ un \in Worker /\ InHand(ap) /\ InHand(un)
    BY DEF SoloInv, TypeInv, TypeOK
<1>1. CASE ApplyStart
    <2>1. /\ ap'.pc = "next" /\ ap'.left = plan.todo /\ ap'.rec = disabledJson
          /\ un.pc = "idle" /\ ap.pc = "idle"
        BY <1>1, <1>t DEF ApplyStart, StartBeside, Worker
    <2>2. UNCHANGED <<live, plan, disabledJson, un, byTool, orphans, undone, edits>>
        BY <1>1 DEF ApplyStart
    <2>3. Alone' /\ ApplyInv' /\ UndoInv'
        BY <2>1, <2>2 DEF SoloInv, Alone, ApplyInv, UndoInv
    <2> QED
        BY <1>n, <2>1, <2>2, <2>3
        DEF SoloInv, ByToolOff, AllAccounted, Accounted, InFlight, RecordInv, Untouched
<1>2. ASSUME NEW r \in Rules, ApplySkip(r) PROVE SoloInv'
    BY <1>2, <1>n, ApplyMovesOn DEF ApplySkip
<1>3. ASSUME NEW r \in Rules, ApplyRead(r) PROVE SoloInv'
    <2>1. /\ ap'.pc = "write" /\ ap'.cur = r /\ ap'.seen = live[r]
          /\ ap'.left = ap.left /\ ap'.rec = ap.rec /\ ap.pc = "next"
        BY <1>3, <1>t DEF ApplyRead, Worker
    <2>2. UNCHANGED <<live, plan, disabledJson, un, byTool, orphans, undone, edits>>
        BY <1>3 DEF ApplyRead
    <2>3. /\ r \in ap.left /\ ap.rec[r].state = "none" /\ live[r].body = plan.rule[r].body
          /\ live[r].rev \in Nat
        BY <1>3, <1>t DEF ApplyRead, Done, MayDisable, TypeInv, TypeOK, LiveRule
    <2>4. Fresh(ap)'
        BY <2>1, <2>2, <2>3 DEF Fresh
    <2>5. Alone' /\ ApplyInv' /\ UndoInv'
        BY <2>1, <2>2, <2>3, <2>4 DEF SoloInv, Alone, ApplyInv, UndoInv
    <2> QED
        BY <1>n, <2>1, <2>2, <2>5 DEF SoloInv, ByToolOff, AllAccounted, Accounted, InFlight, RecordInv, Untouched
<1>4. CASE ApplyWrite
    BY <1>4, <1>n, ApplyPutKeepsSolo DEF ApplyWrite
<1>5. CASE ApplyRefused
    BY <1>5, <1>n, ApplyMovesOn DEF ApplyRefused
<1>6. CASE ApplyVerify
    BY <1>6, <1>n, ApplyVerifyKeepsSolo
<1>7. CASE ApplyFinish
    BY <1>7, <1>n, ApplyMovesOn DEF ApplyFinish
<1>8. CASE ApplyStop
    BY <1>8, <1>n, ApplyMovesOn DEF ApplyStop
<1>9. CASE ApplyWriteLost
    BY <1>9, <1>n, ApplyPutKeepsSolo DEF ApplyWriteLost
<1>10. CASE ApplyDies
    <2>1. UNCHANGED <<live, plan, disabledJson, un, byTool, undone, edits>>
        BY <1>10 DEF ApplyDies
    <2>2. ap' = Idle /\ \A r \in Rules : InFlight(r) \/ r \in orphans => r \in orphans'
        BY <1>10 DEF ApplyDies, InFlight
    <2>3. AllAccounted'
        BY <2>1, <2>2, <1>t DEF SoloInv, AllAccounted, Accounted, TypeInv, TypeOK
    <2> QED
        BY <1>n, <2>1, <2>2, <2>3, IdleFields
        DEF SoloInv, Alone, ByToolOff, ApplyInv, UndoInv, Fresh, RecordInv, Untouched
<1>11. CASE UndoStart
    <2>1. PICK chosen \in SUBSET OpenRecords :
              un' = [un EXCEPT !.pc = "next", !.left = chosen, !.rec = disabledJson]
        BY <1>11 DEF UndoStart
    <2>2. un'.pc = "next" /\ un'.left = chosen /\ un'.rec = disabledJson /\ ap.pc = "idle"
        BY <1>11, <2>1, <1>t DEF UndoStart, StartBeside, Worker
    <2>3. UNCHANGED <<live, plan, disabledJson, ap, byTool, orphans, undone, edits>>
        BY <1>11 DEF UndoStart
    <2>4. Alone' /\ ApplyInv' /\ UndoInv'
        BY <2>2, <2>3 DEF SoloInv, Alone, ApplyInv, UndoInv, OpenRecords
    <2> QED
        BY <1>n, <2>3, <2>4 DEF SoloInv, ByToolOff, AllAccounted, Accounted, InFlight, RecordInv, Untouched
<1>12. ASSUME NEW r \in Rules, UndoSkip(r) PROVE SoloInv'
    BY <1>12, <1>n, UndoMovesOn DEF UndoSkip
<1>13. ASSUME NEW r \in Rules, UndoRead(r) PROVE SoloInv'
    <2>1. /\ un'.pc = "write" /\ un'.cur = r /\ un'.seen = live[r]
          /\ un'.left = un.left /\ un'.rec = un.rec /\ un.pc = "next"
        BY <1>13, <1>t DEF UndoRead, Worker
    <2>2. UNCHANGED <<live, plan, disabledJson, ap, byTool, orphans, undone, edits>>
        BY <1>13 DEF UndoRead
    <2>3. r \in un.left /\ live[r].body = un.rec[r].body /\ live[r].rev \in Nat
        BY <1>13, <1>t DEF UndoRead, MayEnable, TypeInv, TypeOK, LiveRule
    <2>4. Fresh(un)'
        BY <2>1, <2>2, <2>3 DEF Fresh
    <2>5. Alone' /\ ApplyInv' /\ UndoInv'
        BY <2>1, <2>2, <2>3, <2>4 DEF SoloInv, Alone, ApplyInv, UndoInv
    <2> QED
        BY <1>n, <2>2, <2>5 DEF SoloInv, ByToolOff, AllAccounted, Accounted, InFlight, RecordInv, Untouched
<1>14. CASE UndoWrite
    BY <1>14, <1>n, UndoPutKeepsSolo DEF UndoWrite
<1>15. CASE UndoRefused
    BY <1>15, <1>n, UndoMovesOn DEF UndoRefused
<1>16. CASE UndoVerify
    BY <1>16, <1>n, UndoVerifyKeepsSolo
<1>17. CASE UndoFinish
    BY <1>17, <1>n, UndoMovesOn DEF UndoFinish
<1>18. CASE UndoStop
    BY <1>18, <1>n, UndoMovesOn DEF UndoStop
<1>19. CASE UndoWriteLost
    BY <1>19, <1>n, UndoPutKeepsSolo DEF UndoWriteLost
<1>20. CASE UndoDies
    BY <1>20, <1>n, UndoMovesOn DEF UndoDies
<1>21. ASSUME NEW r \in Rules, NEW b \in Bodies, SomeoneEdits(r, b) PROVE SoloInv'
    <2> DEFINE new == [live[r] EXCEPT !.body = b, !.rev = @ + 1]
    <2>1. /\ new \in LiveRule /\ new.there = live[r].there /\ new.disabled = live[r].disabled
          /\ new.rev = live[r].rev + 1 /\ live' = [live EXCEPT ![r] = new]
        BY <1>21, <1>t DEF SomeoneEdits, TypeInv, TypeOK, LiveRule
    <2> HIDE DEF new
    <2> QED
        BY <1>21, <1>n, <2>1, EditKeepsSolo DEF SomeoneEdits
<1>22. ASSUME NEW r \in Rules, SomeoneToggles(r) PROVE SoloInv'
    <2> DEFINE new == [live[r] EXCEPT !.disabled = ~@, !.rev = @ + 1]
    <2>1. /\ new \in LiveRule /\ new.there = live[r].there
          /\ new.rev = live[r].rev + 1 /\ live' = [live EXCEPT ![r] = new]
        BY <1>22, <1>t DEF SomeoneToggles, TypeInv, TypeOK, LiveRule
    <2> HIDE DEF new
    <2> QED
        BY <1>22, <1>n, <2>1, EditKeepsSolo DEF SomeoneToggles
<1>23. ASSUME NEW r \in Rules, SomeoneDeletes(r) PROVE SoloInv'
    <2> DEFINE new == [live[r] EXCEPT !.there = FALSE, !.disabled = FALSE, !.rev = 0]
    <2>1. new \in LiveRule /\ ~new.there /\ live' = [live EXCEPT ![r] = new]
        BY <1>23, <1>t DEF SomeoneDeletes, TypeInv, TypeOK, LiveRule
    <2> HIDE DEF new
    <2> QED
        BY <1>23, <1>n, <2>1, EditKeepsSolo DEF SomeoneDeletes
<1>24. ASSUME NEW r \in Rules, Traffic(r) PROVE SoloInv'
    BY <1>24, <1>n DEF Traffic, SoloInv, Alone, ByToolOff, AllAccounted, Accounted, InFlight, ApplyInv, UndoInv,
       Fresh, RecordInv, Untouched
<1>25. CASE UNCHANGED vars
    BY <1>25, <1>n DEF vars, SoloInv, Alone, ByToolOff, AllAccounted, Accounted, InFlight, ApplyInv, UndoInv,
       Fresh, RecordInv, Untouched
<1> QED
    BY <1>1, <1>2, <1>3, <1>4, <1>5, <1>6, <1>7, <1>8, <1>9, <1>10, <1>11, <1>12, <1>13,
       <1>14, <1>15, <1>16, <1>17, <1>18, <1>19, <1>20, <1>21, <1>22, <1>23, <1>24, <1>25
    DEF Next, Tools, ApplyStep, UndoStep, Others

-----------------------------------------------------------------------------
(* The promises, as long as one tool runs at a time                         *)

\* Tools that overlapped once have overlapped.
LEMMA OverlapStays == TypeInv /\ [Next]_vars /\ overlapped => overlapped'
<1> SUFFICES ASSUME TypeInv, [Next]_vars, overlapped PROVE overlapped'
    OBVIOUS
<1> USE DEF histVars, Fault, Edit
<1>1. CASE ApplyStart \/ UndoStart
    BY <1>1 DEF ApplyStart, UndoStart, StartBeside
<1>2. CASE ApplyStep \/ ApplyStop \/ ApplyWriteLost \/ ApplyDies
    BY <1>2 DEF ApplyStep, ApplySkip, ApplyRead, ApplyWrite, ApplyRefused, ApplyVerify, ApplyFinish,
       ApplyStop, ApplyWriteLost, ApplyDies
<1>3. CASE UndoStep \/ UndoStop \/ UndoWriteLost \/ UndoDies
    BY <1>3 DEF UndoStep, UndoSkip, UndoRead, UndoWrite, UndoRefused, UndoVerify, UndoFinish,
       UndoStop, UndoWriteLost, UndoDies
<1>4. CASE Others
    BY <1>4 DEF Others, SomeoneEdits, SomeoneToggles, SomeoneDeletes, Traffic
<1>5. CASE UNCHANGED vars
    BY <1>5 DEF vars
<1> QED
    BY <1>1, <1>2, <1>3, <1>4, <1>5 DEF Next, Tools

\* The invariant holds for as long as the tools did not overlap.
AloneInv == TypeInv /\ (~overlapped => SoloInv)

LEMMA AloneAlways == Spec => []AloneInv
<1>1. Init => AloneInv
    BY SoloInit, TypeInit DEF AloneInv
<1>2. AloneInv /\ [Next]_vars => AloneInv'
    BY TypeNext, SoloNext, OverlapStays DEF AloneInv
<1> QED
    BY <1>1, <1>2, PTL DEF Spec

\* The record is complete while no tool is started beside the other: a rule that
\* is off because of step 1 is open in disabled.json, in hand, or was hit by a
\* fault in exactly that write.
THEOREM RecordComplete == Spec => []Recorded
<1>1. AloneInv => Recorded
    BY DEF AloneInv, SoloInv, AllAccounted, Recorded
<1> QED
    BY <1>1, AloneAlways, PTL

\* Once disabled.json has no open entry, nobody else wrote and no tool was started
\* beside the other, every rule that no fault orphaned is on or off as it was when
\* the plan was made.
THEOREM UndoComplete == Spec => []UndoRestoresPlan
<1>1. SoloInv => UndoRestoresPlan
    BY DEF SoloInv, TypeInv, TypeOK, Records, Entry, LiveRule, AllAccounted, Accounted, InFlight,
       Untouched, UndoRestoresPlan, OpenRecords
<1>2. AloneInv => UndoRestoresPlan
    BY <1>1 DEF AloneInv, UndoRestoresPlan
<1> QED
    BY <1>2, AloneAlways, PTL

\* Only an accepted PUT lets step1_disable turn a rule off.
LEMMA DisablingIsAPut ==
    ASSUME [Next]_vars, NEW r \in Rules, ToolDisables(r)
    PROVE  ap.pc = "write" /\ PutAccepted(ap) /\ Put(ap, TRUE)
<1> USE DEF mgrVars, histVars
<1>1. ap' # ap /\ live' # live
    BY DEF ToolDisables
<1>2. CASE ApplyWrite \/ ApplyWriteLost
    BY <1>2 DEF ApplyWrite, ApplyWriteLost
<1>3. CASE ApplyStart \/ ApplyRefused \/ ApplyVerify \/ ApplyFinish \/ ApplyStop \/ ApplyDies
    BY <1>1, <1>3 DEF ApplyStart, ApplyRefused, ApplyVerify, ApplyFinish, ApplyStop, ApplyDies
<1>4. CASE \E q \in Rules : ApplySkip(q) \/ ApplyRead(q)
    BY <1>1, <1>4 DEF ApplySkip, ApplyRead
<1>5. CASE UndoStart \/ UndoStep \/ UndoStop \/ UndoWriteLost \/ UndoDies
    BY <1>1, <1>5 DEF UndoStart, UndoStep, UndoSkip, UndoRead, UndoWrite, UndoRefused, UndoVerify,
       UndoFinish, UndoStop, UndoWriteLost, UndoDies
<1>6. CASE Others
    BY <1>1, <1>6 DEF Others, SomeoneEdits, SomeoneToggles, SomeoneDeletes, Traffic
<1>7. CASE UNCHANGED vars
    BY <1>1, <1>7 DEF vars
<1> QED
    BY <1>2, <1>3, <1>4, <1>5, <1>6, <1>7 DEF Next, Tools, ApplyStep

\* Only an accepted PUT lets step1_undo turn a rule on.
LEMMA EnablingIsAPut ==
    ASSUME [Next]_vars, NEW r \in Rules, ToolEnables(r)
    PROVE  un.pc = "write" /\ PutAccepted(un) /\ Put(un, FALSE)
<1> USE DEF mgrVars, histVars
<1>1. un' # un /\ live' # live
    BY DEF ToolEnables
<1>2. CASE UndoWrite \/ UndoWriteLost
    BY <1>2 DEF UndoWrite, UndoWriteLost
<1>3. CASE UndoStart \/ UndoRefused \/ UndoVerify \/ UndoFinish \/ UndoStop \/ UndoDies
    BY <1>1, <1>3 DEF UndoStart, UndoRefused, UndoVerify, UndoFinish, UndoStop, UndoDies
<1>4. CASE \E q \in Rules : UndoSkip(q) \/ UndoRead(q)
    BY <1>1, <1>4 DEF UndoSkip, UndoRead
<1>5. CASE ApplyStart \/ ApplyStep \/ ApplyStop \/ ApplyWriteLost \/ ApplyDies
    BY <1>1, <1>5 DEF ApplyStart, ApplyStep, ApplySkip, ApplyRead, ApplyWrite, ApplyRefused,
       ApplyVerify, ApplyFinish, ApplyStop, ApplyWriteLost, ApplyDies
<1>6. CASE Others
    BY <1>1, <1>6 DEF Others, SomeoneEdits, SomeoneToggles, SomeoneDeletes, Traffic
<1>7. CASE UNCHANGED vars
    BY <1>1, <1>7 DEF vars
<1> QED
    BY <1>2, <1>3, <1>4, <1>5, <1>6, <1>7 DEF Next, Tools, UndoStep

-----------------------------------------------------------------------------
(* Both tools at once: why neither overwrites an edit, nor what the other did *)

\* Every entry of the one copy of disabled.json is in the other.
Covers(more, less) ==
    \A r \in Rules : less[r].state # "none" =>
        more[r].state # "none" /\ more[r].body = less[r].body

\* A tool rewrites the file from the copy it loaded: step1_undo from an older
\* one, that may lack entries, step1_disable from one that lacks none.
CopiesNest ==
    /\ un.pc # "idle" => Covers(disabledJson, un.rec)
    /\ ap.pc # "idle" => Covers(ap.rec, disabledJson)

\* No rewrite loses the entry of a rule that was turned on again.
UndoneListed ==
    \A r \in undone : /\ disabledJson[r].state # "none"
                      /\ un.pc # "idle" => un.rec[r].state # "none"

PairInv == TypeInv /\ ApplyInv /\ UndoInv /\ CopiesNest /\ UndoneListed

\* The tools are never at the same rule.
LEMMA RulesApart ==
    ASSUME PairInv, ap.pc \in {"write", "verify"}, un.pc \in {"write", "verify"}
    PROVE  ap.cur # un.cur
<1>1. un.cur \in Rules /\ un.rec[un.cur].state # "none" /\ ap.rec[ap.cur].state = "none"
    BY DEF PairInv, TypeInv, InHand, ApplyInv, UndoInv
<1>2. ap.rec[un.cur].state # "none"
    BY <1>1 DEF PairInv, CopiesNest, Covers
<1> QED
    BY <1>1, <1>2

\* The invariant of both tools holds at the start.
LEMMA PairInit == Init => PairInv
<1> SUFFICES ASSUME Init PROVE PairInv
    OBVIOUS
<1>1. TypeInv
    BY TypeInit
<1>2. ap = Idle /\ un = Idle /\ undone = {}
    BY DEF Init
<1> QED
    BY <1>1, <1>2, IdleFields DEF PairInv, ApplyInv, UndoInv, CopiesNest, UndoneListed

\* A step in which step1_disable only moves on or ends.
LEMMA ApplyMovesOnPair ==
    ASSUME PairInv, TypeInv', ap.pc # "idle", UNCHANGED <<live, plan, disabledJson, un, undone>>,
           NEW r, ap' \in {Idle, Skipped(ap, r)}
    PROVE  PairInv'
<1>1. /\ ap'.pc \in {"idle", "next"} /\ ap'.left \subseteq ap.left
      /\ ap'.pc = "next" => ap'.rec = ap.rec
    BY SkippedFields, IdleFields DEF PairInv, TypeInv, TypeOK
<1>2. ApplyInv'
    BY <1>1 DEF PairInv, ApplyInv
<1>3. UndoInv' /\ UndoneListed'
    BY DEF PairInv, UndoInv, Fresh, UndoneListed
<1>4. CopiesNest'
    BY <1>1 DEF PairInv, CopiesNest, Covers
<1> QED
    BY <1>2, <1>3, <1>4 DEF PairInv

\* A step in which step1_undo only moves on or ends.
LEMMA UndoMovesOnPair ==
    ASSUME PairInv, TypeInv', un.pc # "idle", UNCHANGED <<live, plan, disabledJson, ap, undone>>,
           NEW r, un' \in {Idle, Skipped(un, r)}
    PROVE  PairInv'
<1>1. /\ un'.pc \in {"idle", "next"}
      /\ un' = Idle \/ (un'.left \subseteq un.left /\ un'.rec = un.rec)
      /\ un'.pc = "next" => un'.rec = un.rec
    BY SkippedFields, IdleFields DEF PairInv, TypeInv, TypeOK
<1>2. ApplyInv'
    BY DEF PairInv, ApplyInv, Fresh
<1>3. UndoInv'
    BY <1>1, IdleFields DEF PairInv, UndoInv
<1>4. CopiesNest' /\ UndoneListed'
    BY <1>1 DEF PairInv, CopiesNest, Covers, UndoneListed
<1> QED
    BY <1>2, <1>3, <1>4 DEF PairInv

\* A step in which someone else writes to rule r.
LEMMA EditKeepsPair ==
    ASSUME PairInv, TypeInv', UNCHANGED <<plan, disabledJson, ap, un, undone>>,
           NEW r \in Rules, NEW new \in LiveRule, live' = [live EXCEPT ![r] = new],
           new.there => live[r].there /\ new.rev = live[r].rev + 1
    PROVE  PairInv'
<1>1. TypeInv /\ ap \in Worker /\ un \in Worker /\ InHand(ap) /\ InHand(un)
    BY DEF PairInv, TypeInv, TypeOK
<1>2. ApplyInv'
    <2>1. ap.pc = "write" => Fresh(ap)'
        BY <1>1, EditKeepsFresh DEF PairInv, ApplyInv
    <2> QED
        BY <2>1 DEF PairInv, ApplyInv
<1>3. UndoInv'
    <2>1. un.pc = "write" => Fresh(un)'
        BY <1>1, EditKeepsFresh DEF PairInv, UndoInv
    <2> QED
        BY <2>1 DEF PairInv, UndoInv
<1>4. CopiesNest' /\ UndoneListed'
    BY DEF PairInv, CopiesNest, Covers, UndoneListed
<1> QED
    BY <1>2, <1>3, <1>4 DEF PairInv

\* step1_disable turns a rule off, and verifies it next or loses the answer:
\* step1_undo has another rule in hand.
LEMMA ApplyPutKeepsPair ==
    ASSUME PairInv, TypeInv', ap.pc = "write", Put(ap, TRUE),
           UNCHANGED <<plan, disabledJson, un, undone>>,
           ap' \in {[ap EXCEPT !.pc = "verify"], Idle, Skipped(ap, ap.cur)}
    PROVE  PairInv'
<1>t. TypeInv /\ ap \in Worker /\ InHand(ap) /\ InHand(un)
    BY DEF PairInv, TypeInv, TypeOK
<1>p. \A r \in Rules \ {ap.cur} : live'[r] = live[r]
    BY <1>t, PutResult
<1>a. /\ ap'.pc \in {"idle", "next", "verify"} /\ ap'.left \subseteq ap.left
      /\ ap'.pc # "idle" => ap'.rec = ap.rec
      /\ ap'.pc = "verify" => ap'.cur = ap.cur
    <2>1. CASE ap' = [ap EXCEPT !.pc = "verify"]
        BY <2>1, <1>t DEF Worker
    <2>2. CASE ap' \in {Idle, Skipped(ap, ap.cur)}
        BY <2>2, <1>t, SkippedFields, IdleFields
    <2> QED
        BY <2>1, <2>2
<1>1. ApplyInv'
    BY <1>a DEF PairInv, ApplyInv
<1>2. UndoInv'
    <2>1. ASSUME un.pc = "write" PROVE Fresh(un)'
        <3>1. live'[un.cur] = live[un.cur]
            BY <2>1, <1>t, <1>p, RulesApart DEF InHand
        <3> QED
            BY <2>1, <3>1 DEF PairInv, UndoInv, Fresh
    <2> QED
        BY <2>1 DEF PairInv, UndoInv
<1>3. CopiesNest' /\ UndoneListed'
    BY <1>a DEF PairInv, CopiesNest, Covers, UndoneListed
<1> QED
    BY <1>1, <1>2, <1>3 DEF PairInv

\* step1_undo turns a rule on, and verifies it next or loses the answer:
\* step1_disable has another rule in hand.
LEMMA UndoPutKeepsPair ==
    ASSUME PairInv, TypeInv', un.pc = "write", Put(un, FALSE), undone' = undone \cup {un.cur},
           UNCHANGED <<plan, disabledJson, ap>>,
           un' \in {[un EXCEPT !.pc = "verify"], Idle, Skipped(un, un.cur)}
    PROVE  PairInv'
<1>t. TypeInv /\ un \in Worker /\ InHand(un) /\ InHand(ap)
    BY DEF PairInv, TypeInv, TypeOK
<1>p. un.cur \in Rules /\ \A r \in Rules \ {un.cur} : live'[r] = live[r]
    BY <1>t, PutResult
<1>a. /\ un'.pc \in {"idle", "next", "verify"}
      /\ un'.pc # "idle" => un'.rec = un.rec
      /\ un'.pc = "verify" => un'.cur = un.cur
      /\ un' = Idle \/ (un'.left \subseteq un.left /\ un'.rec = un.rec)
    <2>1. CASE un' = [un EXCEPT !.pc = "verify"]
        BY <2>1, <1>t DEF Worker
    <2>2. CASE un' \in {Idle, Skipped(un, un.cur)}
        BY <2>2, <1>t, SkippedFields, IdleFields
    <2> QED
        BY <2>1, <2>2
<1>r. un.rec[un.cur].state # "none" /\ disabledJson[un.cur].state # "none"
    BY <1>p DEF PairInv, UndoInv, CopiesNest, Covers
<1>1. ApplyInv'
    <2>1. ASSUME ap.pc = "write" PROVE Fresh(ap)'
        <3>1. live'[ap.cur] = live[ap.cur]
            BY <2>1, <1>t, <1>p, RulesApart DEF InHand
        <3> QED
            BY <2>1, <3>1 DEF PairInv, ApplyInv, Fresh
    <2> QED
        BY <2>1 DEF PairInv, ApplyInv
<1>2. UndoInv'
    BY <1>a, <1>r, IdleFields DEF PairInv, UndoInv
<1>3. CopiesNest' /\ UndoneListed'
    BY <1>a, <1>r DEF PairInv, CopiesNest, Covers, UndoneListed
<1> QED
    BY <1>1, <1>2, <1>3 DEF PairInv

\* step1_disable reads the rule back, and saves the record if it is off: the
\* file loses no entry, as its copy lacked none.
LEMMA ApplyVerifyKeepsPair ==
    ASSUME PairInv, TypeInv', ApplyVerify
    PROVE  PairInv'
<1> DEFINE r == ap.cur
           rec == Record(ap.rec, r, live[r].body)
           next == [Skipped(ap, r) EXCEPT !.rec = rec, !.wrote = TRUE]
<1>t. /\ ap \in Worker /\ ap.pc = "verify" /\ r \in Rules /\ ap.rec \in Records
      /\ ap.rec[r].state = "none"
    BY DEF PairInv, TypeInv, TypeOK, InHand, ApplyInv, ApplyVerify, Worker
<1>f. UNCHANGED <<live, plan, un, undone>>
    BY DEF ApplyVerify, mgrVars, histVars
<1>n. next.pc = "next" /\ next.left \subseteq ap.left /\ next.rec = rec
    BY <1>t DEF Skipped, Worker
<1>c. \/ disabledJson' = rec /\ ap' \in {Idle, next}
      \/ disabledJson' = disabledJson /\ ap' = Idle
    BY DEF ApplyVerify, Save
<1>d. rec[r].state = "open" /\ \A q \in Rules \ {r} : rec[q] = ap.rec[q]
    BY <1>t DEF Record, Records
<1> HIDE DEF rec, next
<1>o. disabledJson[r].state = "none" /\ Covers(rec, disabledJson)
    BY <1>t, <1>d DEF PairInv, CopiesNest, Covers
<1>v. Covers(disabledJson', disabledJson)
    BY <1>c, <1>o DEF Covers
<1>a. ap'.pc \in {"idle", "next"} /\ ap'.left \subseteq ap.left /\ (ap'.pc # "idle" => ap'.rec = disabledJson')
    BY <1>c, <1>n, IdleFields
<1>1. ApplyInv'
    BY <1>a, <1>f DEF PairInv, ApplyInv
<1>2. UndoInv'
    BY <1>f DEF PairInv, UndoInv, Fresh
<1>3. CopiesNest'
    BY <1>a, <1>f, <1>v DEF PairInv, CopiesNest, Covers
<1>4. UndoneListed'
    BY <1>f, <1>v DEF PairInv, TypeInv, TypeOK, UndoneListed, Covers
<1> QED
    BY <1>1, <1>2, <1>3, <1>4 DEF PairInv

\* step1_undo reads the rule back, and marks its entry if it is on: what its
\* copy lacked is lost from the file, never an entry it turned on again.
LEMMA UndoVerifyKeepsPair ==
    ASSUME PairInv, TypeInv', UndoVerify
    PROVE  PairInv'
<1> DEFINE r == un.cur
           rec == MarkReenabled(un.rec, r)
           next == [Skipped(un, r) EXCEPT !.rec = rec, !.wrote = TRUE]
<1>t. /\ un \in Worker /\ un.pc = "verify" /\ r \in Rules /\ un.rec \in Records
      /\ un.rec[r].state # "none" /\ un.left \subseteq Rules
    BY DEF PairInv, TypeInv, TypeOK, InHand, UndoInv, UndoVerify, Worker
<1>f. UNCHANGED <<live, plan, ap, undone>>
    BY DEF UndoVerify, mgrVars, histVars
<1>n. next.pc = "next" /\ next.left \subseteq un.left /\ next.rec = rec
    BY <1>t DEF Skipped, Worker
<1>c. \/ disabledJson' = rec /\ un' = next
      \/ disabledJson' = disabledJson /\ un' = Idle
    BY DEF UndoVerify
<1>d. \A q \in Rules : rec[q].body = un.rec[q].body /\ (rec[q].state = "none" <=> un.rec[q].state = "none")
    BY <1>t DEF MarkReenabled, Records, Entry
<1> HIDE DEF rec, next
<1>o. Covers(disabledJson, un.rec)
    BY <1>t DEF PairInv, CopiesNest
<1>a. /\ un'.pc \in {"idle", "next"} /\ (un'.pc # "idle" => un'.rec = rec /\ disabledJson' = rec)
      /\ un' = Idle \/ (un'.left \subseteq un.left /\ un'.rec = rec)
    BY <1>c, <1>n, IdleFields
<1>1. ApplyInv'
    BY <1>f DEF PairInv, ApplyInv, Fresh
<1>2. UndoInv'
    <2>1. \A q \in un.left : rec[q].state # "none"
        BY <1>d, <1>t DEF PairInv, UndoInv
    <2> QED
        BY <2>1, <1>a, IdleFields DEF UndoInv
<1>3. CopiesNest'
    <2>1. Covers(disabledJson, disabledJson')
        BY <1>c, <1>d, <1>o DEF Covers
    <2> QED
        BY <2>1, <1>a, <1>f DEF PairInv, CopiesNest, Covers
<1>4. UndoneListed'
    BY <1>a, <1>c, <1>d, <1>f, <1>t DEF PairInv, TypeInv, TypeOK, UndoneListed
<1> QED
    BY <1>1, <1>2, <1>3, <1>4 DEF PairInv

\* Every step keeps the invariant, whether or not the tools overlap.
LEMMA PairNext == PairInv /\ [Next]_vars => PairInv'
<1> SUFFICES ASSUME PairInv, [Next]_vars PROVE PairInv'
    OBVIOUS
<1> USE DEF mgrVars, histVars
<1>n. TypeInv'
    BY TypeNext DEF PairInv
<1>t. TypeInv /\ ap \in Worker /\ un \in Worker /\ InHand(ap) /\ InHand(un)
    BY DEF PairInv, TypeInv, TypeOK
<1>1. CASE ApplyStart
    <2>1. ap'.pc = "next" /\ ap'.left = plan.todo /\ ap'.rec = disabledJson
        BY <1>1, <1>t DEF ApplyStart, Worker
    <2>2. UNCHANGED <<live, plan, disabledJson, un, undone>>
        BY <1>1 DEF ApplyStart
    <2>3. UndoInv'
        BY <2>2 DEF PairInv, UndoInv, Fresh
    <2>4. ApplyInv' /\ CopiesNest' /\ UndoneListed'
        BY <2>1, <2>2 DEF PairInv, ApplyInv, CopiesNest, Covers, UndoneListed
    <2> QED
        BY <1>n, <2>3, <2>4 DEF PairInv
<1>2. ASSUME NEW r \in Rules, ApplySkip(r) PROVE PairInv'
    BY <1>2, <1>n, ApplyMovesOnPair DEF ApplySkip
<1>3. ASSUME NEW r \in Rules, ApplyRead(r) PROVE PairInv'
    <2>1. /\ ap'.pc = "write" /\ ap'.cur = r /\ ap'.seen = live[r]
          /\ ap'.left = ap.left /\ ap'.rec = ap.rec /\ ap.pc = "next"
        BY <1>3, <1>t DEF ApplyRead, Worker
    <2>2. UNCHANGED <<live, plan, disabledJson, un, undone>>
        BY <1>3 DEF ApplyRead
    <2>3. /\ r \in ap.left /\ ap.rec[r].state = "none" /\ live[r].body = plan.rule[r].body
          /\ live[r].rev \in Nat
        BY <1>3, <1>t DEF ApplyRead, Done, MayDisable, TypeInv, TypeOK, LiveRule
    <2>4. Fresh(ap)'
        BY <2>1, <2>2, <2>3 DEF Fresh
    <2>5. ApplyInv'
        BY <2>1, <2>2, <2>3, <2>4 DEF PairInv, ApplyInv
    <2>6. UndoInv'
        BY <2>2 DEF PairInv, UndoInv, Fresh
    <2>7. CopiesNest' /\ UndoneListed'
        BY <2>1, <2>2 DEF PairInv, CopiesNest, Covers, UndoneListed
    <2> QED
        BY <1>n, <2>5, <2>6, <2>7 DEF PairInv
<1>4. CASE ApplyWrite
    BY <1>4, <1>n, ApplyPutKeepsPair DEF ApplyWrite
<1>5. CASE ApplyRefused
    BY <1>5, <1>n, ApplyMovesOnPair DEF ApplyRefused
<1>6. CASE ApplyVerify
    BY <1>6, <1>n, ApplyVerifyKeepsPair
<1>7. CASE ApplyFinish
    BY <1>7, <1>n, ApplyMovesOnPair DEF ApplyFinish
<1>8. CASE ApplyStop
    BY <1>8, <1>n, ApplyMovesOnPair DEF ApplyStop
<1>9. CASE ApplyWriteLost
    BY <1>9, <1>n, ApplyPutKeepsPair DEF ApplyWriteLost
<1>10. CASE ApplyDies
    BY <1>10, <1>n, ApplyMovesOnPair DEF ApplyDies
<1>11. CASE UndoStart
    <2>1. PICK chosen \in SUBSET OpenRecords :
              un' = [un EXCEPT !.pc = "next", !.left = chosen, !.rec = disabledJson]
        BY <1>11 DEF UndoStart
    <2>2. un'.pc = "next" /\ un'.left = chosen /\ un'.rec = disabledJson
        BY <2>1, <1>t DEF Worker
    <2>3. UNCHANGED <<live, plan, disabledJson, ap, undone>>
        BY <1>11 DEF UndoStart
    <2>4. ApplyInv'
        BY <2>3 DEF PairInv, ApplyInv, Fresh
    <2>5. UndoInv' /\ CopiesNest' /\ UndoneListed'
        BY <2>2, <2>3 DEF PairInv, UndoInv, CopiesNest, Covers, UndoneListed, OpenRecords
    <2> QED
        BY <1>n, <2>4, <2>5 DEF PairInv
<1>12. ASSUME NEW r \in Rules, UndoSkip(r) PROVE PairInv'
    BY <1>12, <1>n, UndoMovesOnPair DEF UndoSkip
<1>13. ASSUME NEW r \in Rules, UndoRead(r) PROVE PairInv'
    <2>1. /\ un'.pc = "write" /\ un'.cur = r /\ un'.seen = live[r]
          /\ un'.left = un.left /\ un'.rec = un.rec /\ un.pc = "next"
        BY <1>13, <1>t DEF UndoRead, Worker
    <2>2. UNCHANGED <<live, plan, disabledJson, ap, undone>>
        BY <1>13 DEF UndoRead
    <2>3. r \in un.left /\ live[r].body = un.rec[r].body /\ live[r].rev \in Nat
        BY <1>13, <1>t DEF UndoRead, MayEnable, TypeInv, TypeOK, LiveRule
    <2>4. Fresh(un)'
        BY <2>1, <2>2, <2>3 DEF Fresh
    <2>5. ApplyInv'
        BY <2>2 DEF PairInv, ApplyInv, Fresh
    <2>6. UndoInv'
        BY <2>1, <2>2, <2>3, <2>4 DEF PairInv, UndoInv
    <2>7. CopiesNest' /\ UndoneListed'
        BY <2>1, <2>2 DEF PairInv, CopiesNest, Covers, UndoneListed
    <2> QED
        BY <1>n, <2>5, <2>6, <2>7 DEF PairInv
<1>14. CASE UndoWrite
    BY <1>14, <1>n, UndoPutKeepsPair DEF UndoWrite
<1>15. CASE UndoRefused
    BY <1>15, <1>n, UndoMovesOnPair DEF UndoRefused
<1>16. CASE UndoVerify
    BY <1>16, <1>n, UndoVerifyKeepsPair
<1>17. CASE UndoFinish
    BY <1>17, <1>n, UndoMovesOnPair DEF UndoFinish
<1>18. CASE UndoStop
    BY <1>18, <1>n, UndoMovesOnPair DEF UndoStop
<1>19. CASE UndoWriteLost
    BY <1>19, <1>n, UndoPutKeepsPair DEF UndoWriteLost
<1>20. CASE UndoDies
    BY <1>20, <1>n, UndoMovesOnPair DEF UndoDies
<1>21. ASSUME NEW r \in Rules, NEW b \in Bodies, SomeoneEdits(r, b) PROVE PairInv'
    <2> DEFINE new == [live[r] EXCEPT !.body = b, !.rev = @ + 1]
    <2>1. /\ new \in LiveRule /\ new.there = live[r].there
          /\ new.rev = live[r].rev + 1 /\ live' = [live EXCEPT ![r] = new]
        BY <1>21, <1>t DEF SomeoneEdits, TypeInv, TypeOK, LiveRule
    <2> HIDE DEF new
    <2> QED
        BY <1>21, <1>n, <2>1, EditKeepsPair DEF SomeoneEdits
<1>22. ASSUME NEW r \in Rules, SomeoneToggles(r) PROVE PairInv'
    <2> DEFINE new == [live[r] EXCEPT !.disabled = ~@, !.rev = @ + 1]
    <2>1. /\ new \in LiveRule /\ new.there = live[r].there
          /\ new.rev = live[r].rev + 1 /\ live' = [live EXCEPT ![r] = new]
        BY <1>22, <1>t DEF SomeoneToggles, TypeInv, TypeOK, LiveRule
    <2> HIDE DEF new
    <2> QED
        BY <1>22, <1>n, <2>1, EditKeepsPair DEF SomeoneToggles
<1>23. ASSUME NEW r \in Rules, SomeoneDeletes(r) PROVE PairInv'
    <2> DEFINE new == [live[r] EXCEPT !.there = FALSE, !.disabled = FALSE, !.rev = 0]
    <2>1. new \in LiveRule /\ ~new.there /\ live' = [live EXCEPT ![r] = new]
        BY <1>23, <1>t DEF SomeoneDeletes, TypeInv, TypeOK, LiveRule
    <2> HIDE DEF new
    <2> QED
        BY <1>23, <1>n, <2>1, EditKeepsPair DEF SomeoneDeletes
<1>24. ASSUME NEW r \in Rules, Traffic(r) PROVE PairInv'
    BY <1>24, <1>n DEF Traffic, PairInv, ApplyInv, UndoInv, Fresh, CopiesNest, Covers, UndoneListed
<1>25. CASE UNCHANGED vars
    BY <1>25, <1>n DEF vars, PairInv, ApplyInv, UndoInv, Fresh, CopiesNest, Covers, UndoneListed
<1> QED
    BY <1>1, <1>2, <1>3, <1>4, <1>5, <1>6, <1>7, <1>8, <1>9, <1>10, <1>11, <1>12, <1>13,
       <1>14, <1>15, <1>16, <1>17, <1>18, <1>19, <1>20, <1>21, <1>22, <1>23, <1>24, <1>25
    DEF Next, Tools, ApplyStep, UndoStep, Others

\* step1_disable only ever turns off a planned rule in its reviewed configuration.
THEOREM OnlyReviewedDisabled == Spec => DisablesOnlyReviewed
<1> DEFINE Step == \A r \in Rules : ToolDisables(r) =>
               /\ r \in plan.todo
               /\ live[r].there => live[r].body = plan.rule[r].body
               /\ live'[r].body = plan.rule[r].body
<1>1. PairInv /\ [Next]_vars => [Step]_vars
    <2> SUFFICES ASSUME PairInv, [Next]_vars, NEW r \in Rules, ToolDisables(r)
                 PROVE  /\ r \in plan.todo
                        /\ live[r].there => live[r].body = plan.rule[r].body
                        /\ live'[r].body = plan.rule[r].body
        BY Zenon
    <2>1. ap.pc = "write" /\ PutAccepted(ap) /\ Put(ap, TRUE)
        BY DisablingIsAPut
    <2>2. TypeInv /\ ap \in Worker /\ InHand(ap)
        BY DEF PairInv, TypeInv, TypeOK
    <2>3. /\ live'[ap.cur].body = ap.seen.body
          /\ \A q \in Rules \ {ap.cur} : live'[q] = live[q]
        BY <2>1, <2>2, PutResult
    <2>4. r = ap.cur
        BY <2>3 DEF ToolDisables
    <2>5. live[r].there => live[r].body = ap.seen.body
        BY <2>1, <2>4 DEF PutAccepted, PairInv, ApplyInv, Fresh
    <2> QED
        BY <2>1, <2>3, <2>4, <2>5 DEF PairInv, ApplyInv
<1> QED
    BY <1>1, PairInit, PairNext, PTL DEF Spec, DisablesOnlyReviewed

\* step1_undo only ever turns on a recorded rule in the configuration step 1 left.
THEOREM OnlyRecordedEnabled == Spec => EnablesOnlyRecorded
<1> DEFINE Step == \A r \in Rules : ToolEnables(r) =>
               /\ disabledJson[r].state # "none"
               /\ live[r].there => live[r].body = disabledJson[r].body
               /\ live'[r].body = disabledJson[r].body
<1>1. PairInv /\ [Next]_vars => [Step]_vars
    <2> SUFFICES ASSUME PairInv, [Next]_vars, NEW r \in Rules, ToolEnables(r)
                 PROVE  /\ disabledJson[r].state # "none"
                        /\ live[r].there => live[r].body = disabledJson[r].body
                        /\ live'[r].body = disabledJson[r].body
        BY Zenon
    <2>1. un.pc = "write" /\ PutAccepted(un) /\ Put(un, FALSE)
        BY EnablingIsAPut
    <2>2. TypeInv /\ un \in Worker /\ InHand(un)
        BY DEF PairInv, TypeInv, TypeOK
    <2>3. /\ live'[un.cur].body = un.seen.body
          /\ \A q \in Rules \ {un.cur} : live'[q] = live[q]
        BY <2>1, <2>2, PutResult
    <2>4. r = un.cur
        BY <2>3 DEF ToolEnables
    <2>5. live[r].there => live[r].body = un.seen.body
        BY <2>1, <2>4 DEF PutAccepted, PairInv, UndoInv, Fresh
    <2>6. disabledJson[r].state # "none" /\ disabledJson[r].body = un.seen.body
        BY <2>1, <2>4 DEF PairInv, UndoInv, CopiesNest, Covers
    <2> QED
        BY <2>3, <2>4, <2>5, <2>6
<1> QED
    BY <1>1, PairInit, PairNext, PTL DEF Spec, EnablesOnlyRecorded

\* A rule step1_undo turned on again, or that is on record and on, is never turned
\* off again by this run.
THEOREM UndoneStaysOn == Spec => NeverDisabledAgain
<1> DEFINE Step == \A r \in Rules : r \in undone \/ disabledJson[r].state # "none" => ~ToolDisables(r)
<1>1. PairInv /\ [Next]_vars => [Step]_vars
    <2> SUFFICES ASSUME PairInv, [Next]_vars, NEW r \in Rules, ToolDisables(r),
                        r \in undone \/ disabledJson[r].state # "none"
                 PROVE  FALSE
        BY Zenon
    <2>1. TypeInv /\ ap \in Worker /\ InHand(ap)
        BY DEF PairInv, TypeInv, TypeOK
    <2>2. ap.pc = "write" /\ PutAccepted(ap) /\ Put(ap, TRUE)
        BY <2>1, DisablingIsAPut
    <2>3. r = ap.cur
        BY <2>1, <2>2, PutResult DEF ToolDisables
    <2> QED
        BY <2>1, <2>2, <2>3 DEF PairInv, ApplyInv, CopiesNest, Covers, UndoneListed
<1> QED
    BY <1>1, PairInit, PairNext, PTL DEF Spec, NeverDisabledAgain

\* Every orphan has its own fault.
FaultBound == IsFiniteSet(orphans) /\ Cardinality(orphans) <= faults

\* Every step that orphans a rule is a fault.
LEMMA FaultBoundNext == TypeInv /\ FaultBound /\ [Next]_vars => FaultBound'
<1> SUFFICES ASSUME TypeInv, FaultBound, [Next]_vars PROVE FaultBound'
    OBVIOUS
<1> USE DEF mgrVars, histVars
<1>t. faults \in Nat /\ Cardinality(orphans) \in Nat
    BY BoundsAssumption, FS_CardinalityType DEF TypeInv, TypeOK, FaultBound
<1>1. CASE orphans' = orphans /\ (faults' = faults \/ faults' = faults + 1)
    BY <1>1, <1>t DEF FaultBound
<1>2. CASE orphans' = orphans \cup {ap.cur} /\ faults' = faults + 1
    <2>1. /\ IsFiniteSet(orphans')
          /\ Cardinality(orphans') = Cardinality(orphans)
             \/ Cardinality(orphans') = Cardinality(orphans) + 1
        BY <1>2, FS_AddElement DEF FaultBound
    <2> QED
        BY <2>1, <1>2, <1>t DEF FaultBound
<1>3. CASE ApplyWriteLost \/ ApplyDies
    BY <1>1, <1>2, <1>3 DEF ApplyWriteLost, ApplyDies, Fault
<1>4. CASE UndoWriteLost \/ UndoDies
    BY <1>1, <1>4 DEF UndoWriteLost, UndoDies, Fault
<1>5. CASE ApplyStart \/ ApplyStep \/ ApplyStop
    BY <1>1, <1>5 DEF ApplyStart, ApplyStep, ApplySkip, ApplyRead, ApplyWrite, ApplyRefused,
       ApplyVerify, ApplyFinish, ApplyStop
<1>6. CASE UndoStart \/ UndoStep \/ UndoStop
    BY <1>1, <1>6 DEF UndoStart, UndoStep, UndoSkip, UndoRead, UndoWrite, UndoRefused, UndoVerify,
       UndoFinish, UndoStop
<1>7. CASE Others
    BY <1>1, <1>7 DEF Others, SomeoneEdits, SomeoneToggles, SomeoneDeletes, Traffic
<1>8. CASE UNCHANGED vars
    BY <1>1, <1>8 DEF vars
<1> QED
    BY <1>3, <1>4, <1>5, <1>6, <1>7, <1>8 DEF Next, Tools

\* Every lost call or crash hides at most the one rule in hand from the record.
THEOREM OneRulePerFault == Spec => []FaultCostsOneRule
<1>1. Init => FaultBound
    BY FS_EmptySet DEF Init, FaultBound
<1>2. TypeInv /\ FaultBound /\ Recorded => FaultCostsOneRule
    <2> SUFFICES ASSUME TypeInv, FaultBound, Recorded, ~overlapped PROVE FaultCostsOneRule
        BY DEF FaultCostsOneRule
    <2> DEFINE missing == {r \in byTool : disabledJson[r].state # "open" /\ ~InFlight(r)}
    <2>1. missing \subseteq orphans
        BY DEF Recorded, Accounted
    <2>2. IsFiniteSet(missing) /\ Cardinality(missing) <= Cardinality(orphans)
        BY <2>1, FS_Subset DEF FaultBound
    <2>3. /\ Cardinality(missing) \in Nat /\ Cardinality(orphans) \in Nat /\ faults \in Nat
        BY <2>2, FS_CardinalityType, BoundsAssumption DEF FaultBound, TypeInv, TypeOK
    <2> HIDE DEF missing
    <2>4. Cardinality(missing) <= faults
        BY <2>2, <2>3 DEF FaultBound
    <2> QED
        BY <2>4 DEF FaultCostsOneRule, missing
<1> QED
    BY <1>1, <1>2, TypeInit, TypeNext, FaultBoundNext, RecordComplete, PTL DEF Spec
-----------------------------------------------------------------------------
(* CriticalRules.  Eight tools share four classes: tools i and i + 4 have a  *)
(* stack of baselines each over the same objects.  A baseline says of every  *)
(* object that it is as at first or a copy, and of a copy some record below  *)
(* tells who wrote it; so when a stack is gone its objects are as at first.  *)

Kept == (UNION {{h[o] : o \in Objects} : h \in FirstHeld}) \cup {Void, "copy"}
Baselines(i) == [base: [InClass(i) -> Kept], on: Managers, pushed: SUBSET InClass(i), whole: BOOLEAN]

FolderTyped ==
    /\ folder = [stats |-> folder.stats, hits |-> folder.hits, taken |-> folder.taken, pull |-> folder.pull, bundles |-> folder.bundles,
                 stacks |-> folder.stacks, outcome |-> folder.outcome]
    /\ folder.taken \in DOMAIN Sources
    /\ \A i \in PushTools : Wanted(i) \subseteq InClass(i)
    /\ folder.stacks = [i \in PushTools |-> folder.stacks[i]]
    /\ \A i \in PushTools : folder.stacks[i] \in Seq(Baselines(i))
ScriptTyped ==
    /\ script = [kind |-> script.kind, tool |-> script.tool, on |-> script.on, base |-> script.base,
                 left |-> script.left, dels |-> script.dels, failed |-> script.failed, clean |-> script.clean]
    /\ script.kind \in {Void, "push", "revert"} /\ script.failed \in BOOLEAN
    /\ script.on \in Managers \cup {Void}
    /\ script.kind # Void => script.tool \in PushTools
    /\ script.on # Void => /\ script.kind # Void /\ script.base \in [InClass(script.tool) -> Kept]
                           /\ script.left \subseteq InClass(script.tool) /\ script.dels \subseteq InClass(script.tool)
    /\ script.on = Void => script.left = {} /\ script.dels = {}
    /\ script.kind = "push" => script.dels = {}
CopyTypes ==
    /\ source \in DOMAIN Sources /\ alias \in Managers
    /\ held \in [Managers -> [Objects -> Kept]] /\ first \in [Managers -> FirstHeld]
    /\ FolderTyped /\ ScriptTyped /\ tangled \in BOOLEAN /\ scripts \in Nat

\* A tool has a baseline only while those before it have; a push is past those
\* before its tool, a revert past those after it.
OldestFirst ==
    /\ \A i, j \in PushTools : i < j /\ folder.stacks[j] # <<>> => folder.stacks[i] # <<>>
    /\ script.kind = "push" => \A j \in PushTools : j < script.tool => folder.stacks[j] # <<>>
    /\ script.kind = "revert" => \A j \in PushTools : j > script.tool => folder.stacks[j] = <<>>
    /\ script.on # Void => /\ folder.stacks[script.tool] # <<>>
                           /\ script.base = Last(folder.stacks[script.tool]).base
    /\ folder.outcome = "reverted" => script.kind = Void /\ folder.stacks[1] = <<>>
    /\ scripts > 0 => folder.pull = "ok"
    /\ script.kind # Void => scripts > 0
    /\ \A j \in PushTools : folder.stacks[j] # <<>> => scripts > 0

H == held["checked"]
F == first["checked"]
EntryIs(b, i) ==
    /\ b.on = "checked" /\ \A o \in InClass(i) : b.base[o] \in {F[o], "copy"}
    /\ \A o \in b.pushed : /\ b.base[o] # "copy" /\ o \in Wanted(i)
                           /\ ClassOf(i) = "rules" => b.base[o] = Void
\* As long as the name leads to the checked manager: what it holds, and what
\* the baselines say, is from the beginning or a copy.
FirstOrCopy ==
    /\ script.on \in {Void, "checked"} /\ held["other"] = first["other"]
    /\ \A o \in Objects : H[o] \in {F[o], "copy"}
    /\ \A i \in PushTools : \A n \in 1..Len(folder.stacks[i]) : EntryIs(folder.stacks[i][n], i)
    /\ script.kind = "push" => \A o \in script.left : script.base[o] # "copy" /\ o \in Wanted(script.tool)
    /\ script.kind = "revert" => /\ \A o \in script.left :
                                      /\ script.base[o] # Void
                                      /\ ClassOf(script.tool) = "groups" =>
                                            o \in Last(folder.stacks[script.tool]).pushed
                                 /\ \A o \in script.dels : script.base[o] = Void
\* A revert without a failure has done what it has not left to do.
RevertDoes ==
    script.kind = "revert" /\ script.on # Void /\ ~script.failed =>
        LET c == ClassOf(script.tool)
            b == Last(folder.stacks[script.tool])
        IN  \A o \in InClass(script.tool) :
              /\ b.base[o] = Void /\ (c \in {"groups", "rules"} => o \in b.pushed) => o \in script.dels \/ H[o] = Void
              /\ b.base[o] # Void /\ (c = "groups" => o \in b.pushed) => o \in script.left \/ H[o] = b.base[o]

Lost(o) == <<"checked", o>> \in lost
Excused(o) == <<"checked", o>> \in met
OnRecord(o, i) == \E n \in 1..Len(folder.stacks[i]) : o \in folder.stacks[i][n].pushed
Settled ==
    \A c \in 1..4 : folder.stacks[c] = <<>> => \A o \in InClass(c) : H[o] = F[o] \/ Lost(o) \/ Excused(o)
OldestIsFirst ==
    \A c \in {1, 3, 4} : folder.stacks[c] # <<>> =>
        \A o \in InClass(c) : folder.stacks[c][1].base[o] = F[o] \/ Lost(o) \/ Excused(o)
GroupsRecorded == \A o \in InClass(2) : H[o] = F[o] \/ Lost(o) \/ OnRecord(o, 2) \/ OnRecord(o, 6)
RulesRecorded ==
    \A o \in InClass(4) : F[o] = Void => H[o] = Void \/ Lost(o) \/ Excused(o) \/ OnRecord(o, 4) \/ OnRecord(o, 8)
\* What a baseline has of rules that were not there is recorded below it.
RecordedBelow ==
    \A i \in {4, 8} : \A n \in 1..Len(folder.stacks[i]) : \A o \in InClass(4) :
        F[o] = Void /\ folder.stacks[i][n].base[o] = "copy" =>
            \/ Lost(o) \/ Excused(o)
            \/ \E m \in 1..(n - 1) : o \in folder.stacks[i][m].pushed
            \/ i = 8 /\ OnRecord(o, 4)
CopyRecords == Settled /\ OldestIsFirst /\ GroupsRecorded /\ RulesRecorded /\ RecordedBelow

CopyInv ==
    /\ CopyTypes /\ OldestFirst
    /\ ~tangled => FirstOrCopy /\ RevertDoes /\ CopyRecords

-----------------------------------------------------------------------------
(* Classes, stacks and records.                                             *)

LEMMA ToolsAre ==
    /\ PushTools = 1..8
    /\ \A i \in PushTools : i \in Nat /\ ClassOf(i) \in Range(Classes)
    /\ ClassOf(1) = "services" /\ ClassOf(2) = "groups" /\ ClassOf(3) = "policies" /\ ClassOf(4) = "rules"
    /\ ClassOf(5) = "services" /\ ClassOf(6) = "groups" /\ ClassOf(7) = "policies" /\ ClassOf(8) = "rules"
    /\ Wanted(8) = folder.bundles.hits["rules"]
<1>1. Len(Classes) = 4 /\ DOMAIN Classes = 1..4
    BY DEF Classes
<1>2. /\ ClassOf(1) = "services" /\ ClassOf(2) = "groups" /\ ClassOf(3) = "policies" /\ ClassOf(4) = "rules"
      /\ ClassOf(5) = "services" /\ ClassOf(6) = "groups" /\ ClassOf(7) = "policies" /\ ClassOf(8) = "rules"
    BY <1>1 DEF ClassOf, Classes
<1>3. BundleOf(8) = "hits"
    BY <1>1 DEF BundleOf
<1>4. ASSUME NEW i \in 1..8 PROVE ClassOf(i) \in Range(Classes)
    <2>1. (IF i <= 4 THEN i ELSE i - 4) \in 1..4
        OBVIOUS
    <2>2. ClassOf(i) = Classes[IF i <= 4 THEN i ELSE i - 4]
        BY <1>1 DEF ClassOf
    <2> QED
        BY <1>1, <2>1, <2>2 DEF Range
<1> QED
    BY <1>2, <1>3, <1>4 DEF PushTools, Wanted

LEMMA ClassesApart ==
    /\ \A i \in PushTools : InClass(i) \subseteq Objects
    /\ \A i, j \in PushTools : ClassOf(i) # ClassOf(j) => InClass(i) \cap InClass(j) = {}
    /\ \A i, j \in PushTools : ClassOf(i) = ClassOf(j) => InClass(i) = InClass(j)
    /\ \A o \in Objects : \E c \in 1..4 : o \in InClass(c)
<1>1. \A i \in PushTools : ClassOf(i) \in Range(Classes)
    BY ToolsAre
<1>2. ASSUME NEW o \in Objects PROVE \E c \in 1..4 : o \in InClass(c)
    <2>1. PICK k \in Range(Classes) : o \in Ids(k)
        BY DEF Objects
    <2>2. PICK c \in DOMAIN Classes : k = Classes[c]
        BY DEF Range
    <2>3. c \in 1..4 /\ Len(Classes) = 4
        BY <2>2 DEF Classes
    <2>4. InClass(c) = Ids(k)
        BY <2>2, <2>3 DEF InClass, ClassOf
    <2> QED
        BY <2>1, <2>3, <2>4
<1>3. \A i \in PushTools : InClass(i) \subseteq Objects
    BY <1>1 DEF InClass, Objects
<1>4. \A i, j \in PushTools : ClassOf(i) # ClassOf(j) => InClass(i) \cap InClass(j) = {}
    BY <1>1, CriticalAssumption DEF InClass
<1> QED
    BY <1>2, <1>3, <1>4 DEF InClass

\* What the capture has of a class is of that class; a rule that was there at
\* first had its policy.
LEMMA CapturedIs ==
    ASSUME CopyTypes
    PROVE  /\ DOMAIN Taken.policies \subseteq InClass(3) /\ DOMAIN Taken.rules \subseteq InClass(4)
           /\ \A h \in Managers, r \in DOMAIN Taken.rules :
                 first[h][r] # Void => first[h][Taken.rules[r].policy] # Void
<1>1. folder.taken \in DOMAIN Sources /\ first \in [Managers -> FirstHeld]
    BY DEF CopyTypes, FolderTyped, ScriptTyped
<1>2. InClass(3) = Ids("policies") /\ InClass(4) = Ids("rules")
    BY ToolsAre DEF InClass
<1>3. Taken.policies = Taken["policies"] /\ Taken.rules = Taken["rules"]
    OBVIOUS
<1>4. \A c : DOMAIN Taken[c] \subseteq Ids(c)
    BY <1>1 DEF Taken, Ids, IdsOf
<1>5. ASSUME NEW h \in Managers, NEW r \in DOMAIN Taken.rules
      PROVE  first[h][r] # Void => first[h][Taken.rules[r].policy] # Void
    <2>1. first[h] \in FirstHeld
        BY <1>1
    <2> QED
        BY <1>1, <2>1, CriticalAssumption DEF Taken
<1> QED
    BY <1>2, <1>3, <1>4, <1>5

LEMMA FrontOf ==
    ASSUME NEW S, NEW s \in Seq(S), s # <<>>
    PROVE  /\ Front(s) \in Seq(S) /\ Len(Front(s)) = Len(s) - 1 /\ Len(s) \in Nat \ {0}
           /\ \A m \in 1..(Len(s) - 1) : Front(s)[m] = s[m]
           /\ Last(s) = s[Len(s)] /\ Last(s) \in S
           /\ Front(s) = <<>> <=> Len(s) = 1
<1>1. Len(s) \in Nat \ {0} /\ Last(s) = s[Len(s)] /\ Last(s) \in S
    BY DEF Last
<1>2. Front(s) = SubSeq(s, 1, Len(s) - 1)
    BY DEF Front
<1>3. Front(s) \in Seq(S) /\ Len(Front(s)) = Len(s) - 1
    <2>1. \A n \in 0..Len(s) : SubSeq(s, 1, n) \in Seq(S) /\ Len(SubSeq(s, 1, n)) = n
        OBVIOUS
    <2>2. Len(s) - 1 \in 0..Len(s)
        BY <1>1
    <2> QED
        BY <1>2, <2>1, <2>2
<1>4. \A m \in 1..(Len(s) - 1) : Front(s)[m] = s[m]
    <2> TAKE m \in 1..(Len(s) - 1)
    <2> QED
        BY <1>1, <1>2, m \in 1..(Len(s) - 1)
<1>5. Front(s) = <<>> <=> Len(s) = 1
    BY <1>1, <1>3
<1> QED
    BY <1>1, <1>3, <1>4, <1>5

LEMMA ExceptOf ==
    ASSUME NEW S, NEW s \in Seq(S), s # <<>>, NEW e \in S
    PROVE  LET t == [s EXCEPT ![Len(s)] = e]
           IN  /\ t \in Seq(S) /\ Len(t) = Len(s) /\ t # <<>> /\ Last(t) = e
               /\ \A m \in 1..Len(s) : t[m] = IF m = Len(s) THEN e ELSE s[m]
<1> DEFINE t == [s EXCEPT ![Len(s)] = e]
<1>1. Len(s) \in Nat \ {0} /\ s \in [1..Len(s) -> S]
    OBVIOUS
<1>2. t \in [1..Len(s) -> S] /\ \A m \in 1..Len(s) : t[m] = IF m = Len(s) THEN e ELSE s[m]
    BY <1>1
<1>3. t \in Seq(S) /\ Len(t) = Len(s)
    BY <1>1, <1>2
<1>4. t[Len(s)] = e
    BY <1>1, <1>2
<1> HIDE DEF t
<1>5. t # <<>> /\ Last(t) = e
    BY <1>1, <1>3, <1>4 DEF Last
<1> QED
    BY <1>2, <1>3, <1>5 DEF t

LEMMA AppendOf ==
    ASSUME NEW S, NEW s \in Seq(S), NEW e \in S
    PROVE  /\ Append(s, e) \in Seq(S) /\ Len(Append(s, e)) = Len(s) + 1 /\ Append(s, e) # <<>>
           /\ \A m \in 1..Len(s) : Append(s, e)[m] = s[m]
           /\ Append(s, e)[Len(s) + 1] = e /\ Last(Append(s, e)) = e
<1>1. Append(s, e) \in Seq(S) /\ Len(Append(s, e)) = Len(s) + 1 /\ Append(s, e)[Len(s) + 1] = e
    OBVIOUS
<1>2. \A m \in 1..Len(s) : Append(s, e)[m] = s[m]
    OBVIOUS
<1>3. Append(s, e) # <<>>
    BY <1>1
<1> QED
    BY <1>1, <1>2, <1>3 DEF Last

-----------------------------------------------------------------------------
(* What the steps do, field by field.                                       *)

\* A step that leaves the baselines and all but the outcome of the folder.
Outcome(out) ==
    /\ folder' = [stats |-> folder'.stats, hits |-> folder'.hits, taken |-> folder'.taken, pull |-> folder'.pull,
                  bundles |-> folder'.bundles, stacks |-> folder'.stacks, outcome |-> folder'.outcome]
    /\ folder'.taken = folder.taken /\ folder'.pull = folder.pull
    /\ folder'.bundles = folder.bundles /\ folder'.stacks = folder.stacks /\ folder'.outcome = out
\* script' has the fields given.
ScriptIs(k, i, h, base, todo, dels, failed) ==
    /\ script' = [kind |-> script'.kind, tool |-> script'.tool, on |-> script'.on, base |-> script'.base,
                  left |-> script'.left, dels |-> script'.dels, failed |-> script'.failed,
                  clean |-> script'.clean]
    /\ script'.kind = k /\ script'.tool = i /\ script'.on = h /\ script'.base = base
    /\ script'.left = todo /\ script'.dels = dels /\ script'.failed = failed
NoneRuns == ScriptIs(Void, 0, Void, script'.base, {}, {}, FALSE)

LEMMA EndsIs == ASSUME CopyTypes, NEW out, Ends(out) PROVE Outcome(out) /\ NoneRuns
<1>1. Outcome(out)
    BY DEF Ends, CopyTypes, FolderTyped, ScriptTyped, Outcome
<1>2. NoneRuns
    BY DEF Ends, NoScript, NoneRuns, ScriptIs, CopyTypes, FolderTyped, ScriptTyped
<1> QED
    BY <1>1, <1>2

LEMMA SameOutcome == ASSUME CopyTypes, UNCHANGED folder PROVE Outcome(folder.outcome)
    BY DEF CopyTypes, FolderTyped, ScriptTyped, Outcome
LEMMA SameScript ==
    ASSUME CopyTypes, UNCHANGED script
    PROVE  ScriptIs(script.kind, script.tool, script.on, script.base, script.left, script.dels, script.failed)
    BY DEF CopyTypes, FolderTyped, ScriptTyped, ScriptIs

LEMMA PushBeginsIs ==
    ASSUME CopyTypes, NEW allowed, PushBegins(allowed)
    PROVE  /\ script.kind = Void /\ folder.pull = "ok" /\ scripts' = scripts + 1 /\ Outcome(Void)
           /\ ScriptIs("push", 1, Void, script'.base, {}, {}, FALSE)
           /\ UNCHANGED <<source, alias, held, first, lost, tangled, met>>
    BY DEF PushBegins, Starts, CopyTypes, FolderTyped, ScriptTyped, Outcome, ScriptIs, NoScript

LEMMA RevertBeginsIs ==
    ASSUME CopyTypes, RevertBegins
    PROVE  /\ script.kind = Void /\ folder.pull = "ok" /\ scripts' = scripts + 1 /\ Outcome(Void)
           /\ ScriptIs("revert", 8, Void, script'.base, {}, {}, FALSE)
           /\ UNCHANGED <<source, alias, held, first, lost, tangled, met>>
    BY DEF RevertBegins, Starts, CopyTypes, FolderTyped, ScriptTyped, Outcome, ScriptIs, NoScript

\* stacks' is stacks but for the stack s of tool i.
Stack(i, s) ==
    /\ folder' = [stats |-> folder'.stats, hits |-> folder'.hits, taken |-> folder'.taken, pull |-> folder'.pull,
                  bundles |-> folder'.bundles, stacks |-> folder'.stacks, outcome |-> folder'.outcome]
    /\ folder'.taken = folder.taken /\ folder'.pull = folder.pull
    /\ folder'.bundles = folder.bundles /\ folder'.outcome = folder.outcome
    /\ folder'.stacks = [j \in PushTools |-> folder'.stacks[j]]
    /\ folder'.stacks[i] = s /\ \A j \in PushTools : j # i => folder'.stacks[j] = folder.stacks[j]

LEMMA ToolBeginsIs ==
    ASSUME CopyTypes, ToolBegins
    PROVE  /\ script.kind = "push" /\ script.on = Void /\ script.tool \in PushTools
           /\ LET i == script.tool
                  base == [o \in InClass(i) |-> held[alias][o]]
              IN  /\ ScriptIs("push", i, alias, base, {o \in Wanted(i) : held[alias][o] # "copy"}, {}, script.failed)
                  /\ Stack(i, Append(folder.stacks[i], [base |-> base, on |-> alias, pushed |-> {}, whole |-> TRUE]))
           /\ tangled' = (tangled \/ alias # "checked")
           /\ met \subseteq met'
           /\ script.tool = 4 => \A o \in Wanted(8) :
                 held[alias][o] # Void /\ first[alias][o] = Void => <<alias, o>> \in met'
           /\ UNCHANGED <<source, alias, held, first, lost, scripts>>
<1> DEFINE i == script.tool
           base == [o \in InClass(i) |-> held[alias][o]]
           todo == {o \in Wanted(i) : held[alias][o] # "copy"}
           entry == [base |-> base, on |-> alias, pushed |-> {}, whole |-> TRUE]
<1>1. /\ script.kind = "push" /\ script.on = Void /\ i \in PushTools
      /\ script' = [script EXCEPT !.on = alias, !.base = base, !.left = todo]
      /\ folder' = [folder EXCEPT !.stacks[i] = Append(@, entry)]
      /\ tangled' = (tangled \/ alias # "checked")
      /\ UNCHANGED <<source, alias, held, first, lost, scripts>>
    BY DEF ToolBegins
<1>5. /\ met \subseteq met'
      /\ i = 4 => \A o \in Wanted(8) : held[alias][o] # Void /\ first[alias][o] = Void => <<alias, o>> \in met'
    <2>1. met' = IF i = 4
                 THEN met \cup {<<alias, o>> : o \in {r \in Wanted(8) : held[alias][r] # Void /\ first[alias][r] = Void}}
                 ELSE met
        BY ToolsAre DEF ToolBegins, RulesOfInfra
    <2> QED
        BY <2>1
<1>2. script.dels = {}
    BY <1>1 DEF CopyTypes, FolderTyped, ScriptTyped
<1> HIDE DEF base, todo, entry
<1>3. ScriptIs("push", i, alias, base, todo, {}, script.failed)
    BY <1>1, <1>2 DEF CopyTypes, FolderTyped, ScriptTyped, ScriptIs
<1>4. Stack(i, Append(folder.stacks[i], entry))
    BY <1>1 DEF CopyTypes, FolderTyped, ScriptTyped, Stack
<1> QED
    BY <1>1, <1>3, <1>4, <1>5 DEF base, todo, entry

\* An object more is in the last record of the tool's stack, or not.
LEMMA WriteOneIs ==
    ASSUME CopyTypes, OldestFirst, NEW o, WriteOne(o)
    PROVE  /\ script.kind = "push" /\ script.tool \in PushTools /\ script.on \in Managers /\ o \in script.left
           /\ held' = [held EXCEPT ![script.on][o] = "copy"]
           /\ ScriptIs("push", script.tool, script.on, script.base, script.left \ {o}, {}, script.failed)
           /\ LET i == script.tool
                  b == Last(folder.stacks[i])
                  records == ClassOf(i) = "groups" \/ script.base[o] = Void
              IN  Stack(i, [folder.stacks[i] EXCEPT ![Len(folder.stacks[i])] =
                               [b EXCEPT !.pushed = IF records THEN @ \cup {o} ELSE @]])
           /\ UNCHANGED <<source, alias, first, lost, tangled, met, scripts>>
<1> DEFINE i == script.tool
           n == Len(folder.stacks[i])
           b == Last(folder.stacks[i])
           records == ClassOf(i) = "groups" \/ script.base[o] = Void
<1>1. /\ script.kind = "push" /\ o \in script.left
      /\ held' = [held EXCEPT ![script.on][o] = "copy"]
      /\ script' = [script EXCEPT !.left = @ \ {o}]
      /\ folder' = [folder EXCEPT !.stacks[i][Len(folder.stacks[i])].pushed = IF records THEN @ \cup {o} ELSE @]
      /\ UNCHANGED <<source, alias, first, lost, tangled, met, scripts>>
    BY DEF WriteOne
<1>2. i \in PushTools /\ script.on \in Managers /\ script.dels = {} /\ folder.stacks[i] # <<>>
    BY <1>1 DEF CopyTypes, FolderTyped, ScriptTyped, OldestFirst
<1>3. b = folder.stacks[i][n]
    BY DEF Last
<1> HIDE DEF records
<1>4. folder'.stacks = [folder.stacks EXCEPT ![i] = [folder.stacks[i] EXCEPT ![n] =
                           [folder.stacks[i][n] EXCEPT !.pushed = IF records THEN @ \cup {o} ELSE @]]]
    BY <1>1 DEF CopyTypes, FolderTyped, ScriptTyped
<1>5. Stack(i, [folder.stacks[i] EXCEPT ![n] = [b EXCEPT !.pushed = IF records THEN @ \cup {o} ELSE @]])
    <2>1. /\ folder' = [stats |-> folder'.stats, hits |-> folder'.hits, taken |-> folder'.taken, pull |-> folder'.pull,
                        bundles |-> folder'.bundles, stacks |-> folder'.stacks, outcome |-> folder'.outcome]
          /\ folder'.taken = folder.taken /\ folder'.pull = folder.pull
          /\ folder'.bundles = folder.bundles /\ folder'.outcome = folder.outcome
        BY <1>1 DEF CopyTypes, FolderTyped, ScriptTyped
    <2> QED
        BY <1>2, <1>3, <1>4, <2>1 DEF CopyTypes, FolderTyped, ScriptTyped, Stack
<1>6. ScriptIs("push", i, script.on, script.base, script.left \ {o}, {}, script.failed)
    BY <1>1, <1>2 DEF CopyTypes, FolderTyped, ScriptTyped, ScriptIs
<1> QED
    BY <1>1, <1>2, <1>5, <1>6 DEF records
Steady == UNCHANGED <<source, alias, held, first, lost, tangled, met, scripts>>

LEMMA ToolDoneIs ==
    ASSUME CopyTypes, ToolDone
    PROVE  /\ script.kind = "push" /\ script.on # Void /\ script.tool \in PushTools /\ Steady
           /\ \/ \E out \in {"pushed", "push failed", Void} : Outcome(out) /\ NoneRuns
              \/ /\ script.tool # 8 /\ UNCHANGED folder
                 /\ ScriptIs("push", script.tool + 1, Void, script.base, {}, {}, script.failed)
<1>1. script.kind = "push" /\ script.on # Void /\ script.tool \in PushTools /\ Steady /\ script.dels = {}
    BY DEF ToolDone, Steady, CopyTypes, FolderTyped, ScriptTyped
<1>2. CASE script.left # {} \/ script.failed
    <2>1. PICK out \in {"pushed", "push failed", Void} : Ends(out)
        BY <1>2 DEF ToolDone
    <2> QED
        BY <1>1, <2>1, EndsIs
<1>3. CASE ~(script.left # {} \/ script.failed) /\ script.tool = 8
    <2>1. PICK out \in {"pushed", "push failed", Void} : Ends(out)
        BY <1>3 DEF ToolDone
    <2> QED
        BY <1>1, <2>1, EndsIs
<1>4. CASE ~(script.left # {} \/ script.failed) /\ script.tool # 8
    <2>1. script' = [script EXCEPT !.tool = @ + 1, !.on = Void] /\ UNCHANGED folder /\ script.left = {}
        BY <1>4 DEF ToolDone
    <2>2. ScriptIs("push", script.tool + 1, Void, script.base, {}, {}, script.failed)
        BY <1>1, <2>1 DEF CopyTypes, FolderTyped, ScriptTyped, ScriptIs
    <2> QED
        BY <1>1, <1>4, <2>1, <2>2
<1> QED
    BY <1>2, <1>3, <1>4

LEMMA NextToolIs ==
    ASSUME CopyTypes, NextTool
    PROVE  /\ script.kind = "revert" /\ script.on = Void /\ script.tool \in PushTools
           /\ folder.stacks[script.tool] = <<>> /\ Steady
           /\ \/ script.tool = 1 /\ Outcome("reverted") /\ NoneRuns
              \/ /\ script.tool # 1 /\ UNCHANGED folder
                 /\ ScriptIs("revert", script.tool - 1, Void, script.base, {}, {}, script.failed)
<1>1. /\ script.kind = "revert" /\ script.on = Void /\ script.tool \in PushTools
      /\ folder.stacks[script.tool] = <<>> /\ Steady /\ script.left = {} /\ script.dels = {}
    BY DEF NextTool, Reverting, Steady, CopyTypes, FolderTyped, ScriptTyped
<1>2. CASE script.tool = 1
    BY <1>1, <1>2, EndsIs DEF NextTool
<1>3. CASE script.tool # 1
    <2>1. script' = [script EXCEPT !.tool = @ - 1] /\ UNCHANGED folder
        BY <1>3 DEF NextTool
    <2>2. ScriptIs("revert", script.tool - 1, Void, script.base, {}, {}, script.failed)
        BY <1>1, <2>1 DEF CopyTypes, FolderTyped, ScriptTyped, ScriptIs
    <2> QED
        BY <1>1, <1>3, <2>1, <2>2
<1> QED
    BY <1>2, <1>3

LEMMA RevertToolIs ==
    ASSUME CopyTypes, RevertTool
    PROVE  /\ script.kind = "revert" /\ script.on = Void /\ script.tool \in PushTools
           /\ folder.stacks[script.tool] # <<>> /\ Steady
           /\ \/ Outcome(Void) /\ NoneRuns
              \/ LET i == script.tool
                     b == Last(folder.stacks[i])
                 IN  /\ b.on = alias /\ UNCHANGED folder
                     /\ ScriptIs("revert", i, alias, b.base, Restores(i, b, alias), Dels(i, b, alias), FALSE)
<1> DEFINE i == script.tool
           b == Last(folder.stacks[i])
<1>1. /\ script.kind = "revert" /\ script.on = Void /\ i \in PushTools /\ folder.stacks[i] # <<>> /\ Steady
      /\ IF b.on # alias \/ ~b.whole THEN Ends(Void)
         ELSE /\ script' = [script EXCEPT !.on = alias, !.base = b.base, !.dels = Dels(i, b, alias),
                                          !.left = Restores(i, b, alias), !.failed = FALSE]
              /\ UNCHANGED folder
    BY DEF RevertTool, Reverting, Steady
<1> HIDE DEF b
<1>2. CASE b.on # alias \/ ~b.whole
    BY <1>1, <1>2, EndsIs DEF b
<1>3. CASE ~(b.on # alias \/ ~b.whole)
    <2>1. ScriptIs("revert", i, alias, b.base, Restores(i, b, alias), Dels(i, b, alias), FALSE)
        BY <1>1, <1>3 DEF CopyTypes, FolderTyped, ScriptTyped, ScriptIs
    <2> QED
        BY <1>1, <1>3, <2>1 DEF b
<1> QED
    BY <1>2, <1>3

\* A call succeeds, or it does not.
LEMMA DeleteOneIs ==
    ASSUME CopyTypes, NEW o, DeleteOne(o)
    PROVE  /\ script.kind = "revert" /\ o \in script.dels /\ script.on \in Managers /\ script.tool \in PushTools
           /\ UNCHANGED <<folder, source, alias, first, lost, tangled, met, scripts>>
           /\ \/ /\ held' = [held EXCEPT ![script.on] = [q \in Objects |-> IF q \in Falls(o) THEN Void ELSE @[q]]]
                 /\ ScriptIs("revert", script.tool, script.on, script.base, script.left, script.dels \ {o},
                             script.failed)
              \/ /\ UNCHANGED held
                 /\ ScriptIs("revert", script.tool, script.on, script.base, script.left, script.dels \ {o}, TRUE)
<1>1. /\ script.kind = "revert" /\ o \in script.dels
      /\ UNCHANGED <<folder, source, alias, first, lost, tangled, met, scripts>>
    BY DEF DeleteOne
<1>2. script.on \in Managers /\ script.tool \in PushTools
    BY <1>1 DEF CopyTypes, FolderTyped, ScriptTyped
<1>3. CASE MayDelete(script.on, o)
    <2>1. /\ held' = [held EXCEPT ![script.on] = [q \in Objects |-> IF q \in Falls(o) THEN Void ELSE @[q]]]
          /\ script' = [script EXCEPT !.dels = @ \ {o}]
        BY <1>3 DEF DeleteOne
    <2>2. ScriptIs("revert", script.tool, script.on, script.base, script.left, script.dels \ {o}, script.failed)
        BY <1>1, <2>1 DEF CopyTypes, FolderTyped, ScriptTyped, ScriptIs
    <2> QED
        BY <1>1, <1>2, <2>1, <2>2
<1>4. CASE ~MayDelete(script.on, o)
    <2>1. script' = [script EXCEPT !.dels = @ \ {o}, !.failed = TRUE] /\ UNCHANGED held
        BY <1>4 DEF DeleteOne
    <2>2. ScriptIs("revert", script.tool, script.on, script.base, script.left, script.dels \ {o}, TRUE)
        BY <1>1, <2>1 DEF CopyTypes, FolderTyped, ScriptTyped, ScriptIs
    <2> QED
        BY <1>1, <1>2, <2>1, <2>2
<1> QED
    BY <1>3, <1>4

LEMMA RestoreOneIs ==
    ASSUME CopyTypes, NEW o, RestoreOne(o)
    PROVE  /\ script.kind = "revert" /\ o \in script.left /\ script.on \in Managers /\ script.tool \in PushTools
           /\ UNCHANGED <<folder, source, alias, first, lost, tangled, met, scripts>>
           /\ \/ /\ held' = [held EXCEPT ![script.on][o] = script.base[o]]
                 /\ ScriptIs("revert", script.tool, script.on, script.base, script.left \ {o}, script.dels,
                             script.failed)
              \/ /\ UNCHANGED held
                 /\ ScriptIs("revert", script.tool, script.on, script.base, script.left \ {o}, script.dels, TRUE)
<1>1. /\ script.kind = "revert" /\ o \in script.left
      /\ UNCHANGED <<folder, source, alias, first, lost, tangled, met, scripts>>
    BY DEF RestoreOne
<1>2. script.on \in Managers /\ script.tool \in PushTools
    BY <1>1 DEF CopyTypes, FolderTyped, ScriptTyped
<1>3. CASE MayWrite(script.on, o)
    <2>1. held' = [held EXCEPT ![script.on][o] = script.base[o]] /\ script' = [script EXCEPT !.left = @ \ {o}]
        BY <1>3 DEF RestoreOne
    <2>2. ScriptIs("revert", script.tool, script.on, script.base, script.left \ {o}, script.dels, script.failed)
        BY <1>1, <2>1 DEF CopyTypes, FolderTyped, ScriptTyped, ScriptIs
    <2> QED
        BY <1>1, <1>2, <2>1, <2>2
<1>4. CASE ~MayWrite(script.on, o)
    <2>1. script' = [script EXCEPT !.left = @ \ {o}, !.failed = TRUE] /\ UNCHANGED held
        BY <1>4 DEF RestoreOne
    <2>2. ScriptIs("revert", script.tool, script.on, script.base, script.left \ {o}, script.dels, TRUE)
        BY <1>1, <2>1 DEF CopyTypes, FolderTyped, ScriptTyped, ScriptIs
    <2> QED
        BY <1>1, <1>2, <2>1, <2>2
<1> QED
    BY <1>3, <1>4

LEMMA RevertDoneIs ==
    ASSUME CopyTypes, RevertDone
    PROVE  /\ script.kind = "revert" /\ script.on # Void /\ script.tool \in PushTools
           /\ script.dels = {} /\ script.left = {} /\ Steady
           /\ \/ \E out \in {"revert failed", Void} : Outcome(out) /\ NoneRuns
              \/ /\ ~script.failed /\ Stack(script.tool, Front(folder.stacks[script.tool]))
                 /\ ScriptIs("revert", script.tool, Void, script.base, {}, {}, FALSE)
<1>1. /\ script.kind = "revert" /\ script.on # Void /\ script.tool \in PushTools
      /\ script.dels = {} /\ script.left = {} /\ Steady
    BY DEF RevertDone, Steady, CopyTypes, FolderTyped, ScriptTyped
<1>2. CASE script.failed
    <2>1. PICK out \in {"revert failed", Void} : Ends(out)
        BY <1>2 DEF RevertDone
    <2> QED
        BY <1>1, <2>1, EndsIs
<1>3. CASE ~script.failed
    <2>1. folder' = [folder EXCEPT !.stacks[script.tool] = Front(@)] /\ script' = [script EXCEPT !.on = Void]
        BY <1>3 DEF RevertDone
    <2>2. ScriptIs("revert", script.tool, Void, script.base, {}, {}, FALSE)
        BY <1>1, <1>3, <2>1 DEF CopyTypes, FolderTyped, ScriptTyped, ScriptIs
    <2>3. Stack(script.tool, Front(folder.stacks[script.tool]))
        BY <1>1, <2>1 DEF CopyTypes, FolderTyped, ScriptTyped, Stack
    <2> QED
        BY <1>1, <1>3, <2>2, <2>3
<1> QED
    BY <1>2, <1>3

Unrecorded(o) == LET i == script.tool
                 IN  ClassOf(i) = "groups" \/ (ClassOf(i) = "rules" /\ script.base[o] = Void)
LEMMA PushDiesIs ==
    ASSUME CopyTypes, OldestFirst, PushDies
    PROVE  /\ script.kind = "push" /\ script.tool \in PushTools /\ script.on \in Managers /\ NoneRuns
           /\ UNCHANGED <<source, alias, first, tangled, met, scripts>>
           /\ \/ /\ UNCHANGED <<held, lost>>
                 /\ \E whole \in BOOLEAN : LET s == folder.stacks[script.tool]
                                           IN  Stack(script.tool, [s EXCEPT ![Len(s)] = [Last(s) EXCEPT !.whole = whole]])
              \/ /\ UNCHANGED folder
                 /\ \E o \in script.left :
                       /\ held' = [held EXCEPT ![script.on][o] = "copy"]
                       /\ lost' = IF Unrecorded(o) THEN lost \cup {<<script.on, o>>} ELSE lost
<1> DEFINE i == script.tool
           n == Len(folder.stacks[i])
<1>1. /\ script.kind = "push" /\ script.on # Void /\ script' = NoScript
      /\ UNCHANGED <<source, alias, first, tangled, met, scripts>>
    BY DEF PushDies
<1>2. i \in PushTools /\ script.on \in Managers /\ folder.stacks[i] # <<>>
    BY <1>1 DEF CopyTypes, FolderTyped, ScriptTyped, OldestFirst
<1>3. NoneRuns
    BY <1>1 DEF NoScript, NoneRuns, ScriptIs
<1>4. ASSUME NEW whole \in BOOLEAN, folder' = [folder EXCEPT !.stacks[i][Len(folder.stacks[i])].whole = whole]
      PROVE  Stack(i, [folder.stacks[i] EXCEPT ![n] = [Last(folder.stacks[i]) EXCEPT !.whole = whole]])
    <2>1. folder'.stacks = [folder.stacks EXCEPT ![i] = [folder.stacks[i] EXCEPT ![n] =
                               [folder.stacks[i][n] EXCEPT !.whole = whole]]]
        BY <1>4 DEF CopyTypes, FolderTyped, ScriptTyped
    <2>2. /\ folder' = [stats |-> folder'.stats, hits |-> folder'.hits, taken |-> folder'.taken, pull |-> folder'.pull,
                        bundles |-> folder'.bundles, stacks |-> folder'.stacks, outcome |-> folder'.outcome]
          /\ folder'.taken = folder.taken /\ folder'.pull = folder.pull
          /\ folder'.bundles = folder.bundles /\ folder'.outcome = folder.outcome
        BY <1>4 DEF CopyTypes, FolderTyped, ScriptTyped
    <2>3. Last(folder.stacks[i]) = folder.stacks[i][n]
        BY DEF Last
    <2> QED
        BY <1>2, <2>1, <2>2, <2>3 DEF CopyTypes, FolderTyped, ScriptTyped, Stack
<1>5. \/ /\ \E whole \in BOOLEAN : folder' = [folder EXCEPT !.stacks[i][Len(folder.stacks[i])].whole = whole]
         /\ UNCHANGED <<held, lost>>
      \/ /\ UNCHANGED folder
         /\ \E o \in script.left :
               /\ held' = [held EXCEPT ![script.on][o] = "copy"]
               /\ lost' = IF Unrecorded(o) THEN lost \cup {<<script.on, o>>} ELSE lost
    BY DEF PushDies, Unrecorded
<1> QED
    BY <1>1, <1>2, <1>3, <1>4, <1>5

LEMMA CallFailsIs ==
    ASSUME CopyTypes, NEW o, CallFails(o)
    PROVE  /\ UNCHANGED folder /\ Steady /\ script.kind # Void /\ script.on # Void
           /\ \/ ScriptIs(script.kind, script.tool, script.on, script.base, script.left, script.dels \ {o}, TRUE)
              \/ ScriptIs(script.kind, script.tool, script.on, script.base, script.left \ {o}, script.dels, TRUE)
<1>1. UNCHANGED folder /\ Steady /\ (o \in script.dels \/ o \in script.left)
    BY DEF CallFails, Steady
<1>2. script.kind # Void /\ script.on # Void
    BY <1>1 DEF CopyTypes, FolderTyped, ScriptTyped
<1>3. \/ script' = [script EXCEPT !.dels = @ \ {o}, !.failed = TRUE, !.clean = FALSE]
      \/ script' = [script EXCEPT !.left = @ \ {o}, !.failed = TRUE, !.clean = FALSE]
    BY DEF CallFails
<1> QED
    BY <1>1, <1>2, <1>3 DEF CopyTypes, FolderTyped, ScriptTyped, ScriptIs

-----------------------------------------------------------------------------
(* Types.                                                                   *)

LEMMA HeldTyped ==
    /\ Void \in Kept /\ "copy" \in Kept /\ \A h \in FirstHeld : h \in [Objects -> Kept]
    /\ \A i \in PushTools, h \in [Objects -> Kept] : [o \in InClass(i) |-> h[o]] \in [InClass(i) -> Kept]
<1>1. ASSUME NEW h \in FirstHeld PROVE h \in [Objects -> Kept]
    <2>1. h = [o \in Objects |-> h[o]]
        BY CriticalAssumption
    <2>2. \A o \in Objects : h[o] \in {h[q] : q \in Objects}
        OBVIOUS
    <2>3. \A o \in Objects : h[o] \in Kept
        BY <2>2 DEF Kept
    <2> QED
        BY <2>1, <2>3
<1>2. ASSUME NEW i \in PushTools, NEW h \in [Objects -> Kept]
      PROVE  [o \in InClass(i) |-> h[o]] \in [InClass(i) -> Kept]
    BY ClassesApart
<1>3. Void \in Kept /\ "copy" \in Kept
    BY DEF Kept
<1> QED
    BY <1>1, <1>2, <1>3

LEMMA FolderStays == ASSUME FolderTyped, UNCHANGED folder PROVE FolderTyped'
    BY DEF FolderTyped, Wanted

LEMMA OutcomeTyped == ASSUME FolderTyped, NEW out, Outcome(out) PROVE FolderTyped'
<1>1. \A i : Wanted(i)' = Wanted(i)
    BY DEF Outcome, Wanted
<1> QED
    BY <1>1 DEF FolderTyped, Outcome

LEMMA StackTyped ==
    ASSUME FolderTyped, NEW i \in PushTools, NEW s \in Seq(Baselines(i)), Stack(i, s) PROVE FolderTyped'
<1>1. \A j : Wanted(j)' = Wanted(j)
    BY DEF Stack, Wanted
<1>2. \A j \in PushTools : folder'.stacks[j] \in Seq(Baselines(j))
    BY DEF FolderTyped, Stack
<1> QED
    BY <1>1, <1>2 DEF FolderTyped, Stack

LEMMA ScriptStays == ASSUME ScriptTyped, UNCHANGED script PROVE ScriptTyped'
    BY DEF ScriptTyped

LEMMA ScriptIsTyped ==
    ASSUME NEW k \in {Void, "push", "revert"}, NEW i, NEW h \in Managers \cup {Void}, NEW base, NEW todo, NEW dels,
           NEW f \in BOOLEAN, ScriptIs(k, i, h, base, todo, dels, f),
           k # Void => i \in PushTools,
           h # Void => /\ k # Void /\ base \in [InClass(i) -> Kept]
                       /\ todo \subseteq InClass(i) /\ dels \subseteq InClass(i),
           h = Void => todo = {} /\ dels = {},
           k = "push" => dels = {}
    PROVE  ScriptTyped'
    BY DEF ScriptIs, ScriptTyped

LEMMA NoneRunsTyped == ASSUME NoneRuns PROVE ScriptTyped'
    BY ScriptIsTyped DEF NoneRuns, Void

LEMMA WantedTyped ==
    ASSUME NEW s \in DOMAIN Sources, NEW categories, NEW whole \in BOOLEAN, NEW hot, NEW c \in Range(Classes)
    PROVE  BuildBundle(Sources[s], categories, whole, hot)[c] \subseteq Ids(c)
<1> DEFINE src == Sources[s]
           among == IF whole THEN DOMAIN src.rules ELSE hot
           rules == BundleRules(src, Customer(src, categories), among)
           policies == IF whole THEN Customer(src, categories) ELSE {src.rules[r].policy : r \in rules}
           groups == RefClosure(Groups(src, policies, rules), NestedGroups(src)) \cap DOMAIN src.groups
           services == RefClosure(Services(src, rules), NestedServices(src)) \cap DOMAIN src.services
<1>1. BuildBundle(src, categories, whole, hot) =
         [policies |-> policies, rules |-> rules, groups |-> groups, services |-> services]
    BY DEF BuildBundle
<1>2. rules \subseteq DOMAIN src.rules /\ \A r \in rules : src.rules[r].policy \in Customer(src, categories)
    BY DEF BundleRules
<1>3. Customer(src, categories) \subseteq DOMAIN src.policies
    BY DEF Customer
<1>4. policies \subseteq DOMAIN src.policies
    BY <1>2, <1>3
<1>5. groups \subseteq DOMAIN src.groups /\ services \subseteq DOMAIN src.services
    OBVIOUS
<1>6. \A k : DOMAIN src[k] \subseteq Ids(k)
    BY DEF Ids, IdsOf
<1>7. Range(Classes) = {"services", "groups", "policies", "rules"}
    <2>1. DOMAIN Classes = 1..4
        BY DEF Classes
    <2> QED
        BY <2>1 DEF Classes, Range
<1> HIDE DEF policies, rules, groups, services, src
<1> QED
    BY <1>1, <1>2, <1>4, <1>5, <1>6, <1>7 DEF src

LEMMA PullTyped ==
    ASSUME CopyTypes, PullSource
    PROVE  /\ FolderTyped' /\ script.kind = Void /\ folder.pull = Void /\ folder'.stacks = folder.stacks
           /\ folder'.outcome = folder.outcome
           /\ UNCHANGED <<source, alias, held, script, first, lost, tangled, met, scripts>>
<1> DEFINE src == Sources[source]
           infra == BuildBundle(src, WholeCategories, TRUE, {})
           hot == BuildBundle(src, HitCategories, FALSE, Hot)
<1>1. /\ script.kind = Void /\ folder.pull = Void
      /\ UNCHANGED <<source, alias, held, script, first, lost, tangled, met, scripts>>
    BY DEF PullSource
<1>2. PICK pull : folder' = [folder EXCEPT !.taken = source, !.pull = pull, !.bundles = [infra |-> infra, hits |-> hot]]
    <2>1. \E good \in BOOLEAN : folder' = [folder EXCEPT !.taken = source, !.pull = IF good THEN "ok" ELSE "stopped",
                                                        !.bundles = [infra |-> infra, hits |-> hot]]
        BY DEF PullSource
    <2> QED
        BY <2>1
<1>3. \A c \in Range(Classes) : infra[c] \subseteq Ids(c) /\ hot[c] \subseteq Ids(c)
    BY WantedTyped DEF CopyTypes
<1> HIDE DEF infra, hot, src
<1>4. folder'.bundles = [infra |-> infra, hits |-> hot] /\ folder'.taken = source /\ folder'.stacks = folder.stacks
      /\ folder'.outcome = folder.outcome
    BY <1>2 DEF CopyTypes, FolderTyped
<1>5. ASSUME NEW i \in PushTools PROVE Wanted(i)' \subseteq InClass(i)
    <2>1. ClassOf(i) \in Range(Classes) /\ BundleOf(i) \in {"infra", "hits"}
        BY ToolsAre DEF BundleOf
    <2>2. Wanted(i)' = folder'.bundles[BundleOf(i)][ClassOf(i)]
        BY DEF Wanted
    <2> QED
        BY <1>3, <1>4, <2>1, <2>2 DEF InClass
<1> QED
    BY <1>1, <1>2, <1>4, <1>5 DEF CopyTypes, FolderTyped

LEMMA CopyTypesInit == CriticalInit => CopyTypes
<1> SUFFICES ASSUME CriticalInit PROVE CopyTypes
    OBVIOUS
<1>1. source \in DOMAIN Sources /\ alias \in Managers /\ tangled \in BOOLEAN /\ scripts \in Nat
    BY DEF CriticalInit, Managers
<1>2. held \in [Managers -> [Objects -> Kept]] /\ first \in [Managers -> FirstHeld]
    BY HeldTyped DEF CriticalInit
<1>3. folder.bundles = NoBundles /\ folder.stacks = [i \in PushTools |-> <<>>] /\ folder.taken = source
    BY DEF CriticalInit
<1>4. ASSUME NEW i \in PushTools PROVE Wanted(i) \subseteq InClass(i) /\ folder.stacks[i] \in Seq(Baselines(i))
    <2>1. ClassOf(i) \in Range(Classes) /\ BundleOf(i) \in {"infra", "hits"}
        BY ToolsAre DEF BundleOf
    <2> QED
        BY <1>3, <2>1 DEF Wanted, NoBundles
<1>5. FolderTyped
    BY <1>1, <1>3, <1>4 DEF FolderTyped, CriticalInit
<1>6. ScriptTyped
    BY DEF CriticalInit, NoScript, ScriptTyped, Void
<1> QED
    BY <1>1, <1>2, <1>5, <1>6 DEF CopyTypes

LEMMA HoldsCopy ==
    ASSUME CopyTypes, NEW h \in Managers, NEW o, NEW v \in Kept, held' = [held EXCEPT ![h][o] = v]
    PROVE  held' \in [Managers -> [Objects -> Kept]]
    BY DEF CopyTypes

LEMMA CopyTypesNext == ASSUME CopyTypes, OldestFirst, [CriticalNext]_criticalVars PROVE CopyTypes'
<1>0. /\ source \in DOMAIN Sources /\ alias \in Managers
      /\ held \in [Managers -> [Objects -> Kept]] /\ first \in [Managers -> FirstHeld]
      /\ FolderTyped /\ ScriptTyped /\ tangled \in BOOLEAN /\ scripts \in Nat
    BY DEF CopyTypes
<1>k. Void \notin Managers /\ Void # "push" /\ Void # "revert" /\ 1 \in PushTools /\ 8 \in PushTools
    BY DEF Managers, Void, PushTools
<1>1. CASE UNCHANGED criticalVars \/ Stats \/ Verify \/ SourceChanges \/ NameMoves \/ RevertDies
    <2>1. CASE UNCHANGED criticalVars
        BY <1>0, <2>1, FolderStays, ScriptStays DEF criticalVars, CopyTypes
    <2>2. CASE Stats
        <3>1. /\ folder' = [folder EXCEPT !.stats = TRUE, !.hits = HitRows(Sources[source])]
              /\ UNCHANGED <<source, alias, held, script, first, lost, tangled, met, scripts>>
            BY <2>2 DEF Stats
        <3>2. Outcome(folder.outcome)
            BY <1>0, <3>1 DEF FolderTyped, Outcome
        <3> QED
            BY <1>0, <3>1, <3>2, OutcomeTyped, ScriptStays DEF CopyTypes
    <2>3. CASE Verify
        <3>1. /\ \E out : folder' = [folder EXCEPT !.outcome = out]
              /\ scripts' = scripts + 1 /\ UNCHANGED <<source, alias, held, script, first, lost, tangled, met>>
            BY <2>3 DEF Verify, Starts
        <3>2. \E out : Outcome(out)
            BY <1>0, <3>1 DEF FolderTyped, Outcome
        <3> QED
            BY <1>0, <3>1, <3>2, OutcomeTyped, ScriptStays DEF CopyTypes
    <2>4. CASE SourceChanges
        BY <1>0, <2>4, FolderStays, ScriptStays DEF SourceChanges, CopyTypes
    <2>5. CASE NameMoves
        BY <1>0, <2>5, FolderStays, ScriptStays DEF NameMoves, CopyTypes
    <2>6. CASE RevertDies
        <3>1. script' = NoScript /\ UNCHANGED <<source, alias, held, folder, first, lost, tangled, met, scripts>>
            BY <2>6 DEF RevertDies
        <3>2. NoneRuns
            BY <3>1 DEF NoScript, NoneRuns, ScriptIs
        <3> QED
            BY <1>0, <3>1, <3>2, FolderStays, NoneRunsTyped DEF CopyTypes
    <2> QED
        BY <1>1, <2>1, <2>2, <2>3, <2>4, <2>5, <2>6
<1>2. CASE PullSource
    BY <1>0, <1>2, PullTyped, ScriptStays DEF CopyTypes
<1>3. CASE \E allowed \in BOOLEAN : PushBegins(allowed)
    <2>1. /\ scripts' = scripts + 1 /\ Outcome(Void) /\ ScriptIs("push", 1, Void, script'.base, {}, {}, FALSE)
          /\ UNCHANGED <<source, alias, held, first, lost, tangled, met>>
        BY <1>3, PushBeginsIs
    <2>2. ScriptTyped'
        BY <1>k, <2>1, ScriptIsTyped
    <2> QED
        BY <1>0, <2>1, <2>2, OutcomeTyped DEF CopyTypes
<1>4. CASE RevertBegins
    <2>1. /\ scripts' = scripts + 1 /\ Outcome(Void) /\ ScriptIs("revert", 8, Void, script'.base, {}, {}, FALSE)
          /\ UNCHANGED <<source, alias, held, first, lost, tangled, met>>
        BY <1>4, RevertBeginsIs
    <2>2. ScriptTyped'
        BY <1>k, <2>1, ScriptIsTyped
    <2> QED
        BY <1>0, <2>1, <2>2, OutcomeTyped DEF CopyTypes
<1>5. CASE ToolBegins
    <2> DEFINE i == script.tool
               base == [o \in InClass(i) |-> held[alias][o]]
               todo == {o \in Wanted(i) : held[alias][o] # "copy"}
               entry == [base |-> base, on |-> alias, pushed |-> {}, whole |-> TRUE]
    <2>1. /\ i \in PushTools /\ ScriptIs("push", i, alias, base, todo, {}, script.failed)
          /\ Stack(i, Append(folder.stacks[i], entry))
          /\ tangled' = (tangled \/ alias # "checked")
          /\ UNCHANGED <<source, alias, held, first, lost, scripts>>
        BY <1>5, ToolBeginsIs
    <2>2. base \in [InClass(i) -> Kept] /\ todo \subseteq InClass(i) /\ script.failed \in BOOLEAN
        BY <1>0, <2>1, HeldTyped DEF FolderTyped, ScriptTyped
    <2>3. folder.stacks[i] \in Seq(Baselines(i)) /\ entry \in Baselines(i)
        BY <1>0, <2>1, <2>2 DEF FolderTyped, Baselines
    <2> HIDE DEF base, todo, entry
    <2>4. ScriptTyped'
        BY <1>0, <1>k, <2>1, <2>2, ScriptIsTyped
    <2>5. Append(folder.stacks[i], entry) \in Seq(Baselines(i))
        BY <2>3, AppendOf
    <2> QED
        BY <1>0, <2>1, <2>4, <2>5, StackTyped DEF CopyTypes
<1>6. ASSUME NEW o \in Objects, WriteOne(o) PROVE CopyTypes'
    <2> DEFINE i == script.tool
               s == folder.stacks[i]
               pushed == IF ClassOf(i) = "groups" \/ script.base[o] = Void THEN Last(s).pushed \cup {o} ELSE Last(s).pushed
               entry == [Last(s) EXCEPT !.pushed = pushed]
    <2>1. /\ i \in PushTools /\ script.on \in Managers /\ o \in script.left
          /\ held' = [held EXCEPT ![script.on][o] = "copy"]
          /\ ScriptIs("push", i, script.on, script.base, script.left \ {o}, {}, script.failed)
          /\ UNCHANGED <<source, alias, first, lost, tangled, met, scripts>>
        BY <1>6, WriteOneIs
    <2>2. Stack(i, [s EXCEPT ![Len(s)] = entry])
        BY <1>6, WriteOneIs
    <2>3. script.base \in [InClass(i) -> Kept] /\ script.left \subseteq InClass(i) /\ script.failed \in BOOLEAN /\ s # <<>>
        BY <1>0, <1>k, <2>1 DEF ScriptTyped, OldestFirst
    <2>4. s \in Seq(Baselines(i)) /\ Last(s) \in Baselines(i)
        BY <1>0, <2>1, <2>3, FrontOf DEF FolderTyped
    <2>5. entry \in Baselines(i)
        BY <2>1, <2>3, <2>4 DEF Baselines
    <2> HIDE DEF entry
    <2>6. [s EXCEPT ![Len(s)] = entry] \in Seq(Baselines(i))
        BY <2>3, <2>4, <2>5, ExceptOf
    <2>7. FolderTyped'
        BY <1>0, <2>1, <2>2, <2>6, StackTyped
    <2>8. ScriptTyped'
        BY <1>k, <2>1, <2>3, ScriptIsTyped
    <2>9. held' \in [Managers -> [Objects -> Kept]]
        BY <2>1, HoldsCopy, HeldTyped
    <2> QED
        BY <1>0, <2>1, <2>7, <2>8, <2>9 DEF CopyTypes
<1>7. CASE ToolDone
    <2>1. Steady /\ script.tool \in PushTools
        BY <1>7, ToolDoneIs
    <2>2. CASE \E out : Outcome(out) /\ NoneRuns
        BY <1>0, <2>1, <2>2, OutcomeTyped, NoneRunsTyped DEF CopyTypes, Steady
    <2>3. CASE /\ script.tool # 8 /\ UNCHANGED folder
               /\ ScriptIs("push", script.tool + 1, Void, script.base, {}, {}, script.failed)
        <3>1. script.tool + 1 \in PushTools /\ script.failed \in BOOLEAN
            BY <1>0, <2>1, <2>3 DEF PushTools, ScriptTyped
        <3>2. ScriptTyped'
            BY <1>k, <2>3, <3>1, ScriptIsTyped
        <3> QED
            BY <1>0, <2>1, <2>3, <3>2, FolderStays DEF CopyTypes, Steady
    <2> QED
        BY <1>7, <2>2, <2>3, ToolDoneIs
<1>8. CASE NextTool
    <2>1. Steady /\ script.tool \in PushTools
        BY <1>8, NextToolIs
    <2>2. CASE \E out : Outcome(out) /\ NoneRuns
        BY <1>0, <2>1, <2>2, OutcomeTyped, NoneRunsTyped DEF CopyTypes, Steady
    <2>3. CASE /\ script.tool # 1 /\ UNCHANGED folder
               /\ ScriptIs("revert", script.tool - 1, Void, script.base, {}, {}, script.failed)
        <3>1. script.tool - 1 \in PushTools /\ script.failed \in BOOLEAN
            BY <1>0, <2>1, <2>3 DEF PushTools, ScriptTyped
        <3>2. ScriptTyped'
            BY <1>k, <2>3, <3>1, ScriptIsTyped
        <3> QED
            BY <1>0, <2>1, <2>3, <3>2, FolderStays DEF CopyTypes, Steady
    <2> QED
        BY <1>8, <2>2, <2>3, NextToolIs
<1>9. CASE RevertTool
    <2> DEFINE i == script.tool
               b == Last(folder.stacks[i])
    <2>1. Steady /\ i \in PushTools /\ folder.stacks[i] # <<>>
        BY <1>9, RevertToolIs
    <2>2. CASE \E out : Outcome(out) /\ NoneRuns
        BY <1>0, <2>1, <2>2, OutcomeTyped, NoneRunsTyped DEF CopyTypes, Steady
    <2>3. CASE /\ b.on = alias /\ UNCHANGED folder
               /\ ScriptIs("revert", i, alias, b.base, Restores(i, b, alias), Dels(i, b, alias), FALSE)
        <3>1. b \in Baselines(i)
            BY <1>0, <2>1, FrontOf DEF FolderTyped
        <3>2. b.base \in [InClass(i) -> Kept]
            BY <3>1 DEF Baselines
        <3>3. Restores(i, b, alias) \subseteq InClass(i) /\ Dels(i, b, alias) \subseteq InClass(i)
            BY DEF Restores, Dels
        <3> HIDE DEF b
        <3>4. ScriptTyped'
            BY <1>0, <1>k, <2>1, <2>3, <3>2, <3>3, ScriptIsTyped
        <3> QED
            BY <1>0, <2>1, <2>3, <3>4, FolderStays DEF CopyTypes, Steady
    <2> QED
        BY <1>9, <2>2, <2>3, RevertToolIs
<1>10. ASSUME NEW o \in Objects, DeleteOne(o) \/ RestoreOne(o) PROVE CopyTypes'
    <2>1. /\ script.kind = "revert" /\ script.on \in Managers /\ script.tool \in PushTools
          /\ UNCHANGED <<folder, source, alias, first, lost, tangled, met, scripts>>
        BY <1>10, DeleteOneIs, RestoreOneIs
    <2>2. /\ script.base \in [InClass(script.tool) -> Kept] /\ script.failed \in BOOLEAN
          /\ script.left \subseteq InClass(script.tool) /\ script.dels \subseteq InClass(script.tool)
        BY <1>0, <1>k, <2>1 DEF ScriptTyped
    <2>3. \E todo, dels : \E failed \in {script.failed, TRUE} :
             /\ todo \subseteq script.left /\ dels \subseteq script.dels
             /\ ScriptIs("revert", script.tool, script.on, script.base, todo, dels, failed)
        <3>1. script.left \ {o} \subseteq script.left /\ script.dels \ {o} \subseteq script.dels
            OBVIOUS
        <3>2. CASE DeleteOne(o)
            BY <3>1, <3>2, DeleteOneIs
        <3>3. CASE RestoreOne(o)
            BY <3>1, <3>3, RestoreOneIs
        <3> QED
            BY <1>10, <3>2, <3>3
    <2>4. ScriptTyped'
        <3>1. PICK todo, dels, failed :
                 /\ failed \in {script.failed, TRUE} /\ todo \subseteq script.left /\ dels \subseteq script.dels
                 /\ ScriptIs("revert", script.tool, script.on, script.base, todo, dels, failed)
            BY <2>3
        <3>2. /\ failed \in BOOLEAN /\ "revert" \in {Void, "push", "revert"} /\ script.on \in Managers \cup {Void}
              /\ todo \subseteq InClass(script.tool) /\ dels \subseteq InClass(script.tool)
            BY <2>1, <2>2, <3>1
        <3>3. script.on # Void /\ "revert" # Void /\ "revert" # "push"
            BY <1>k, <2>1
        <3> QED
            BY <2>1, <2>2, <3>1, <3>2, <3>3, ScriptIsTyped
    <2>5. held' \in [Managers -> [Objects -> Kept]]
        <3>1. CASE UNCHANGED held
            BY <1>0, <3>1
        <3>2. CASE held' = [held EXCEPT ![script.on] = [q \in Objects |-> IF q \in Falls(o) THEN Void ELSE @[q]]]
            <4>1. [q \in Objects |-> IF q \in Falls(o) THEN Void ELSE held[script.on][q]] \in [Objects -> Kept]
                BY <1>0, <2>1, HeldTyped
            <4> QED
                BY <1>0, <2>1, <3>2, <4>1
        <3>3. CASE o \in script.left /\ held' = [held EXCEPT ![script.on][o] = script.base[o]]
            BY <2>1, <2>2, <3>3, HoldsCopy
        <3> QED
            BY <1>10, <3>1, <3>2, <3>3, DeleteOneIs, RestoreOneIs
    <2> QED
        BY <1>0, <2>1, <2>4, <2>5, FolderStays DEF CopyTypes
<1>11. CASE RevertDone
    <2>1. Steady /\ script.tool \in PushTools /\ script.on # Void
        BY <1>11, RevertDoneIs
    <2>2. CASE \E out : Outcome(out) /\ NoneRuns
        BY <1>0, <2>1, <2>2, OutcomeTyped, NoneRunsTyped DEF CopyTypes, Steady
    <2>3. CASE /\ Stack(script.tool, Front(folder.stacks[script.tool]))
               /\ ScriptIs("revert", script.tool, Void, script.base, {}, {}, FALSE)
        <3>1. folder.stacks[script.tool] \in Seq(Baselines(script.tool)) /\ folder.stacks[script.tool] # <<>>
            BY <1>0, <2>1 DEF FolderTyped, OldestFirst
        <3>2. Front(folder.stacks[script.tool]) \in Seq(Baselines(script.tool))
            BY <3>1, FrontOf
        <3>3. ScriptTyped'
            BY <1>k, <2>1, <2>3, ScriptIsTyped
        <3> QED
            BY <1>0, <2>1, <2>3, <3>2, <3>3, StackTyped DEF CopyTypes, Steady
    <2> QED
        BY <1>11, <2>2, <2>3, RevertDoneIs
<1>12. CASE PushDies
    <2> DEFINE i == script.tool
               s == folder.stacks[i]
    <2>1. /\ script.kind = "push" /\ i \in PushTools /\ script.on \in Managers /\ NoneRuns
          /\ UNCHANGED <<source, alias, first, tangled, met, scripts>>
        BY <1>12, PushDiesIs
    <2>2. ScriptTyped'
        BY <2>1, NoneRunsTyped
    <2>3. CASE UNCHANGED held /\ \E whole \in BOOLEAN : Stack(i, [s EXCEPT ![Len(s)] = [Last(s) EXCEPT !.whole = whole]])
        <3>1. PICK whole \in BOOLEAN : Stack(i, [s EXCEPT ![Len(s)] = [Last(s) EXCEPT !.whole = whole]])
            BY <2>3
        <3>2. s \in Seq(Baselines(i)) /\ Last(s) \in Baselines(i)
            BY <1>0, <1>k, <2>1, FrontOf DEF FolderTyped, OldestFirst
        <3>3. [Last(s) EXCEPT !.whole = whole] \in Baselines(i)
            BY <3>2 DEF Baselines
        <3>4. [s EXCEPT ![Len(s)] = [Last(s) EXCEPT !.whole = whole]] \in Seq(Baselines(i))
            BY <1>k, <2>1, <3>2, <3>3, ExceptOf DEF OldestFirst
        <3>5. FolderTyped'
            BY <1>0, <2>1, <3>1, <3>4, StackTyped
        <3> QED
            BY <1>0, <2>1, <2>2, <2>3, <3>5 DEF CopyTypes
    <2>4. CASE UNCHANGED folder /\ \E o \in script.left : held' = [held EXCEPT ![script.on][o] = "copy"]
        <3>1. held' \in [Managers -> [Objects -> Kept]]
            BY <2>1, <2>4, HoldsCopy, HeldTyped
        <3> QED
            BY <1>0, <2>1, <2>2, <2>4, <3>1, FolderStays DEF CopyTypes
    <2> QED
        BY <1>12, <2>3, <2>4, PushDiesIs
<1>13. ASSUME NEW o \in Objects, CallFails(o) PROVE CopyTypes'
    <2>1. /\ UNCHANGED folder /\ Steady /\ script.kind # Void /\ script.on # Void
          /\ \E todo, dels : /\ todo \subseteq script.left /\ dels \subseteq script.dels
                             /\ ScriptIs(script.kind, script.tool, script.on, script.base, todo, dels, TRUE)
        <3>1. /\ script.left \ {o} \subseteq script.left /\ script.dels \ {o} \subseteq script.dels
              /\ script.left \subseteq script.left /\ script.dels \subseteq script.dels
            OBVIOUS
        <3> QED
            BY <1>13, <3>1, CallFailsIs
    <2>2. ScriptTyped'
        BY <1>0, <2>1, ScriptIsTyped DEF ScriptTyped
    <2> QED
        BY <1>0, <2>1, <2>2, FolderStays DEF CopyTypes, Steady
<1> QED
    BY <1>1, <1>2, <1>3, <1>4, <1>5, <1>6, <1>7, <1>8, <1>9, <1>10, <1>11, <1>12, <1>13 DEF CriticalNext

-----------------------------------------------------------------------------
(* The stacks fill from the first tool and empty from the last.             *)

LEMMA OldestFirstInit == CriticalInit => OldestFirst
<1> SUFFICES ASSUME CriticalInit PROVE OldestFirst
    OBVIOUS
<1>1. /\ \A i \in PushTools : folder.stacks[i] = <<>>
      /\ folder.outcome = Void /\ scripts = 0 /\ script.kind = Void /\ script.on = Void
    BY DEF CriticalInit, NoScript
<1> QED
    BY <1>1 DEF OldestFirst, Void

\* Nothing but a start of a script, or the end of all, concerns the stacks.
LEMMA OrderStays ==
    ASSUME OldestFirst, folder'.stacks = folder.stacks, UNCHANGED <<script, scripts>>,
           folder'.pull = folder.pull \/ scripts = 0,
           folder'.outcome \in {folder.outcome, "verified", Void}
    PROVE  OldestFirst'
    BY DEF OldestFirst, Void

LEMMA OrderAtRest ==
    ASSUME OldestFirst, NoneRuns, folder'.stacks = folder.stacks, scripts' = scripts, folder'.pull = folder.pull,
           folder'.outcome # "reverted" \/ folder.stacks[1] = <<>>
    PROVE  OldestFirst'
    BY DEF OldestFirst, NoneRuns, ScriptIs, Void

LEMMA OldestFirstNext == ASSUME CopyTypes, OldestFirst, [CriticalNext]_criticalVars PROVE OldestFirst'
<1>0. /\ FolderTyped /\ ScriptTyped /\ scripts \in Nat
      /\ PushTools = 1..8 /\ Void \notin {"push", "revert", "reverted", "ok"} /\ Void \notin Managers
    BY ToolsAre DEF CopyTypes, Void, Managers
<1>1. CASE UNCHANGED criticalVars \/ Stats \/ Verify \/ SourceChanges \/ NameMoves \/ RevertDies
    <2>1. CASE UNCHANGED criticalVars \/ SourceChanges \/ NameMoves
        BY <2>1, OrderStays DEF criticalVars, SourceChanges, NameMoves
    <2>2. CASE Stats
        BY <1>0, <2>2, OrderStays DEF Stats, FolderTyped
    <2>3. CASE Verify
        <3>1. /\ script.kind = Void /\ folder.pull = "ok" /\ scripts' = scripts + 1 /\ UNCHANGED script
              /\ folder' = [folder EXCEPT !.outcome = IF Present("checked") = Want THEN "verified" ELSE Void]
            BY <2>3 DEF Verify, Starts
        <3>2. folder'.stacks = folder.stacks /\ folder'.pull = "ok" /\ folder'.outcome \in {"verified", Void}
            BY <1>0, <3>1 DEF FolderTyped
        <3> QED
            BY <1>0, <3>1, <3>2 DEF OldestFirst
    <2>4. CASE RevertDies
        <3>1. script' = NoScript /\ UNCHANGED <<folder, scripts>> /\ script.kind = "revert"
            BY <2>4 DEF RevertDies
        <3>2. NoneRuns /\ folder.outcome # "reverted"
            BY <1>0, <3>1 DEF NoScript, NoneRuns, ScriptIs, OldestFirst
        <3> QED
            BY <3>1, <3>2, OrderAtRest
    <2> QED
        BY <1>1, <2>1, <2>2, <2>3, <2>4
<1>2. CASE PullSource
    <2>1. /\ script.kind = Void /\ folder.pull = Void /\ folder'.stacks = folder.stacks
          /\ folder'.outcome = folder.outcome /\ UNCHANGED <<script, scripts>>
        BY <1>2, PullTyped
    <2>2. scripts = 0
        BY <1>0, <2>1 DEF OldestFirst
    <2> QED
        BY <2>1, <2>2, OrderStays
<1>3. CASE (\E allowed \in BOOLEAN : PushBegins(allowed)) \/ RevertBegins
    <2>1. /\ script.kind = Void /\ folder.pull = "ok" /\ scripts' = scripts + 1 /\ Outcome(Void)
          /\ \/ ScriptIs("push", 1, Void, script'.base, {}, {}, FALSE)
             \/ ScriptIs("revert", 8, Void, script'.base, {}, {}, FALSE)
        BY <1>3, PushBeginsIs, RevertBeginsIs
    <2> QED
        BY <1>0, <2>1 DEF Outcome, ScriptIs, OldestFirst
<1>4. CASE ToolBegins
    <2> DEFINE i == script.tool
               base == [o \in InClass(i) |-> held[alias][o]]
               todo == {o \in Wanted(i) : held[alias][o] # "copy"}
               entry == [base |-> base, on |-> alias, pushed |-> {}, whole |-> TRUE]
    <2>1. /\ script.kind = "push" /\ script.on = Void /\ i \in PushTools
          /\ ScriptIs("push", i, alias, base, todo, {}, script.failed)
          /\ Stack(i, Append(folder.stacks[i], entry)) /\ scripts' = scripts
        BY <1>4, ToolBeginsIs
    <2>2. folder.stacks[i] \in Seq(Baselines(i)) /\ entry \in Baselines(i)
        <3>1. base \in [InClass(i) -> Kept] /\ alias \in Managers
            BY <2>1, HeldTyped DEF CopyTypes
        <3> QED
            BY <1>0, <2>1, <3>1 DEF FolderTyped, Baselines
    <2>3. entry.base = base
        OBVIOUS
    <2> HIDE DEF base, todo, entry
    <2>4. folder'.stacks[i] # <<>> /\ Last(folder'.stacks[i]).base = base
        BY <2>1, <2>2, <2>3, AppendOf DEF Stack
    <2>5. \A j \in PushTools : j # i => folder'.stacks[j] = folder.stacks[j]
        BY <2>1 DEF Stack
    <2>6. /\ script'.kind = "push" /\ script'.tool = i /\ script'.on = alias /\ script'.base = base
          /\ folder'.outcome = folder.outcome /\ folder'.pull = folder.pull
        BY <2>1 DEF Stack, ScriptIs
    <2>7. /\ \A j \in PushTools : j < i => folder.stacks[j] # <<>>
          /\ scripts > 0 /\ folder.outcome # "reverted" /\ folder.pull = "ok"
        BY <1>0, <2>1 DEF OldestFirst
    <2>8. \A j, k \in PushTools : j < k /\ folder'.stacks[k] # <<>> => folder'.stacks[j] # <<>>
        BY <2>4, <2>5, <2>7 DEF OldestFirst
    <2>9. script'.kind = "push" => \A j \in PushTools : j < script'.tool => folder'.stacks[j] # <<>>
        BY <1>0, <2>1, <2>5, <2>6, <2>7
    <2> QED
        BY <1>0, <2>1, <2>4, <2>6, <2>7, <2>8, <2>9 DEF OldestFirst
<1>5. ASSUME NEW o \in Objects, WriteOne(o) PROVE OldestFirst'
    <2> DEFINE i == script.tool
               s == folder.stacks[i]
               pushed == IF ClassOf(i) = "groups" \/ script.base[o] = Void THEN Last(s).pushed \cup {o} ELSE Last(s).pushed
               entry == [Last(s) EXCEPT !.pushed = pushed]
    <2>1. /\ script.kind = "push" /\ i \in PushTools /\ script.on \in Managers /\ o \in script.left
          /\ ScriptIs("push", i, script.on, script.base, script.left \ {o}, {}, script.failed) /\ scripts' = scripts
        BY <1>5, WriteOneIs
    <2>2. Stack(i, [s EXCEPT ![Len(s)] = entry])
        BY <1>5, WriteOneIs
    <2>3. s # <<>> /\ script.base = Last(s).base /\ script.base \in [InClass(i) -> Kept] /\ o \in InClass(i)
        BY <1>0, <2>1 DEF ScriptTyped, OldestFirst, Managers
    <2>4. s \in Seq(Baselines(i)) /\ Last(s) \in Baselines(i)
        BY <1>0, <2>1, <2>3, FrontOf DEF FolderTyped
    <2>5. entry \in Baselines(i) /\ entry.base = Last(s).base
        BY <2>3, <2>4 DEF Baselines
    <2> HIDE DEF entry
    <2>6. folder'.stacks[i] # <<>> /\ Last(folder'.stacks[i]).base = script.base
        BY <2>2, <2>3, <2>4, <2>5, ExceptOf DEF Stack
    <2> HIDE DEF s
    <2>7. \A j \in PushTools : folder'.stacks[j] = <<>> <=> folder.stacks[j] = <<>>
        BY <2>2, <2>3, <2>6 DEF Stack, s
    <2>8. folder.outcome # "reverted"
        BY <1>0, <2>1 DEF OldestFirst
    <2> QED
        BY <1>0, <2>1, <2>2, <2>6, <2>7, <2>8 DEF OldestFirst, ScriptIs, Stack
<1>6. CASE ToolDone
    <2>1. script.kind = "push" /\ script.on # Void /\ script.tool \in PushTools /\ scripts' = scripts
        BY <1>6, ToolDoneIs DEF Steady
    <2>2. CASE \E out \in {"pushed", "push failed", Void} : Outcome(out) /\ NoneRuns
        BY <1>0, <2>1, <2>2, OrderAtRest DEF Outcome
    <2>3. CASE /\ script.tool # 8 /\ UNCHANGED folder
               /\ ScriptIs("push", script.tool + 1, Void, script.base, {}, {}, script.failed)
        <3>1. /\ \A j \in PushTools : j < script.tool => folder.stacks[j] # <<>>
              /\ folder.stacks[script.tool] # <<>>
              /\ folder.outcome # "reverted"
            BY <1>0, <2>1 DEF OldestFirst
        <3>2. \A j \in PushTools : /\ j < script.tool + 1 => j < script.tool \/ j = script.tool
                                   /\ j >= script.tool + 1 => j > script.tool
            BY <1>0, <2>1
        <3>3. \A j \in PushTools : j < script.tool + 1 => folder.stacks[j] # <<>>
            BY <3>1, <3>2
        <3> QED
            BY <1>0, <2>1, <2>3, <3>1, <3>3 DEF OldestFirst, ScriptIs
    <2> QED
        BY <1>6, <2>2, <2>3, ToolDoneIs
<1>7. CASE NextTool
    <2>1. /\ script.kind = "revert" /\ script.on = Void /\ script.tool \in PushTools
          /\ folder.stacks[script.tool] = <<>> /\ scripts' = scripts
        BY <1>7, NextToolIs DEF Steady
    <2>2. CASE script.tool = 1 /\ Outcome("reverted") /\ NoneRuns
        BY <2>1, <2>2, OrderAtRest DEF Outcome
    <2>3. CASE /\ script.tool # 1 /\ UNCHANGED folder
               /\ ScriptIs("revert", script.tool - 1, Void, script.base, {}, {}, script.failed)
        <3>1. \A j \in PushTools : j > script.tool - 1 => folder.stacks[j] = <<>>
            BY <1>0, <2>1 DEF OldestFirst
        <3>2. folder.outcome # "reverted"
            BY <1>0, <2>1 DEF OldestFirst
        <3> QED
            BY <1>0, <2>1, <2>3, <3>1, <3>2 DEF OldestFirst, ScriptIs
    <2> QED
        BY <1>7, <2>2, <2>3, NextToolIs
<1>8. CASE RevertTool
    <2> DEFINE i == script.tool
               b == Last(folder.stacks[i])
    <2>1. /\ script.kind = "revert" /\ script.on = Void /\ script.tool \in PushTools
          /\ folder.stacks[script.tool] # <<>> /\ scripts' = scripts
        BY <1>8, RevertToolIs DEF Steady
    <2>2. CASE Outcome(Void) /\ NoneRuns
        BY <1>0, <2>1, <2>2, OrderAtRest DEF Outcome
    <2>3. CASE /\ b.on = alias /\ UNCHANGED folder
               /\ ScriptIs("revert", i, alias, b.base, Restores(i, b, alias), Dels(i, b, alias), FALSE)
        BY <1>0, <2>1, <2>3 DEF OldestFirst, ScriptIs
    <2> QED
        BY <1>8, <2>2, <2>3, RevertToolIs
<1>9. CASE \E o \in Objects : DeleteOne(o) \/ RestoreOne(o) \/ CallFails(o)
    <2>1. /\ UNCHANGED <<folder, scripts>> /\ script.on # Void
          /\ \E todo, dels, failed : ScriptIs(script.kind, script.tool, script.on, script.base, todo, dels, failed)
        <3>1. PICK o \in Objects : DeleteOne(o) \/ RestoreOne(o) \/ CallFails(o)
            BY <1>9
        <3>2. CASE DeleteOne(o)
            <4>1. /\ UNCHANGED <<folder, scripts>> /\ script.kind = "revert" /\ script.on \in Managers
                  /\ \/ ScriptIs("revert", script.tool, script.on, script.base, script.left, script.dels \ {o}, script.failed)
                     \/ ScriptIs("revert", script.tool, script.on, script.base, script.left, script.dels \ {o}, TRUE)
                BY <3>2, DeleteOneIs
            <4> QED
                BY <1>0, <4>1
        <3>3. CASE RestoreOne(o)
            <4>1. /\ UNCHANGED <<folder, scripts>> /\ script.kind = "revert" /\ script.on \in Managers
                  /\ \/ ScriptIs("revert", script.tool, script.on, script.base, script.left \ {o}, script.dels, script.failed)
                     \/ ScriptIs("revert", script.tool, script.on, script.base, script.left \ {o}, script.dels, TRUE)
                BY <3>3, RestoreOneIs
            <4> QED
                BY <1>0, <4>1
        <3>4. CASE CallFails(o)
            BY <3>4, CallFailsIs DEF Steady
        <3> QED
            BY <3>1, <3>2, <3>3, <3>4
    <2> QED
        BY <2>1 DEF OldestFirst, ScriptIs
<1>10. CASE RevertDone
    <2> DEFINE i == script.tool
    <2>1. script.kind = "revert" /\ script.on # Void /\ i \in PushTools /\ scripts' = scripts
        BY <1>10, RevertDoneIs DEF Steady
    <2>2. CASE \E out \in {"revert failed", Void} : Outcome(out) /\ NoneRuns
        BY <1>0, <2>1, <2>2, OrderAtRest DEF Outcome
    <2>3. CASE Stack(i, Front(folder.stacks[i])) /\ ScriptIs("revert", i, Void, script.base, {}, {}, FALSE)
        <3>1. /\ \A j \in PushTools : j > i => folder.stacks[j] = <<>>
              /\ \A j \in PushTools : j < i => folder.stacks[j] # <<>>
              /\ folder.outcome # "reverted" /\ scripts > 0 /\ folder.pull = "ok"
            BY <1>0, <2>1 DEF OldestFirst
        <3>2. \A j \in PushTools : j # i => folder'.stacks[j] = folder.stacks[j]
            BY <2>3 DEF Stack
        <3>3. \A j, k \in PushTools : j < k /\ folder'.stacks[k] # <<>> => folder'.stacks[j] # <<>>
            <4> SUFFICES ASSUME NEW j \in PushTools, NEW k \in PushTools, j < k, folder'.stacks[k] # <<>>
                         PROVE  folder'.stacks[j] # <<>>
                OBVIOUS
            <4>1. k = i \/ folder.stacks[k] # <<>>
                BY <3>2
            <4>2. ~(k > i)
                BY <3>1, <3>2
            <4>3. j < i /\ j # i
                BY <1>0, <2>1, <4>2
            <4> QED
                BY <3>1, <3>2, <4>3
        <3>4. \A j \in PushTools : j > i => folder'.stacks[j] = <<>>
            BY <1>0, <2>1, <3>1, <3>2
        <3> QED
            BY <1>0, <2>1, <2>3, <3>1, <3>3, <3>4 DEF OldestFirst, ScriptIs, Stack
    <2> QED
        BY <1>10, <2>2, <2>3, RevertDoneIs
<1>11. CASE PushDies
    <2> DEFINE i == script.tool
               s == folder.stacks[i]
    <2>1. /\ script.kind = "push" /\ i \in PushTools /\ script.on \in Managers /\ NoneRuns /\ scripts' = scripts
        BY <1>11, PushDiesIs
    <2>2. folder.outcome # "reverted" /\ s # <<>>
        BY <1>0, <2>1 DEF OldestFirst
    <2>3. CASE \E whole \in BOOLEAN : Stack(i, [s EXCEPT ![Len(s)] = [Last(s) EXCEPT !.whole = whole]])
        <3>1. PICK whole \in BOOLEAN : Stack(i, [s EXCEPT ![Len(s)] = [Last(s) EXCEPT !.whole = whole]])
            BY <2>3
        <3>2. s \in Seq(Baselines(i)) /\ Last(s) \in Baselines(i)
            BY <1>0, <2>1, <2>2, FrontOf DEF FolderTyped
        <3>3. [Last(s) EXCEPT !.whole = whole] \in Baselines(i)
            BY <3>2 DEF Baselines
        <3>4. folder'.stacks[i] # <<>>
            BY <2>2, <3>1, <3>2, <3>3, ExceptOf DEF Stack
        <3>5. \A j \in PushTools : folder'.stacks[j] = <<>> <=> folder.stacks[j] = <<>>
            BY <2>2, <3>1, <3>4 DEF Stack
        <3> QED
            BY <1>0, <2>1, <2>2, <3>1, <3>5 DEF OldestFirst, NoneRuns, ScriptIs, Stack
    <2>4. CASE UNCHANGED folder
        BY <2>1, <2>2, <2>4, OrderAtRest
    <2> QED
        BY <1>11, <2>3, <2>4, PushDiesIs
<1> QED
    BY <1>1, <1>2, <1>3, <1>4, <1>5, <1>6, <1>7, <1>8, <1>9, <1>10, <1>11 DEF CriticalNext

-----------------------------------------------------------------------------
(* What the checked manager and the baselines hold is first or a copy.      *)

LEMMA HeldAfter ==
    ASSUME CopyTypes, NEW o \in Objects, NEW v, held' = [held EXCEPT !["checked"][o] = v], UNCHANGED first
    PROVE  /\ \A q \in Objects : H'[q] = IF q = o THEN v ELSE H[q]
           /\ held'["other"] = held["other"] /\ F' = F
    BY DEF CopyTypes, H, F, Managers

LEMMA FallsIs ==
    ASSUME CopyTypes, NEW i \in PushTools, NEW o \in InClass(i), NEW q \in InClass(i), q \in Falls(o)
    PROVE  q = o
<1> SUFFICES ASSUME q # o PROVE FALSE
    OBVIOUS
<1>1. o \in DOMAIN Taken.policies /\ q \in DOMAIN Taken.rules
    BY DEF Falls
<1>2. o \in InClass(3) /\ q \in InClass(4) /\ 3 \in PushTools /\ 4 \in PushTools
    BY <1>1, CapturedIs DEF PushTools
<1>3. ClassOf(i) = "policies" /\ ClassOf(i) = "rules"
    BY <1>2, ClassesApart, ToolsAre
<1> QED
    BY <1>3

\* A rule that falls with a policy that was not there was not there either.
LEMMA FallenIsFirst ==
    ASSUME CopyTypes, NEW o, F[o] = Void, NEW q, q \in Falls(o) PROVE F[q] = Void
<1>1. CASE q # o
    <2>1. q \in DOMAIN Taken.rules /\ Taken.rules[q].policy = o
        BY <1>1 DEF Falls
    <2>2. F = first["checked"] /\ "checked" \in Managers
        BY DEF F, Managers
    <2> QED
        BY <2>1, <2>2, CapturedIs
<1> QED
    BY <1>1

LEMMA FirstOrCopyInit == CriticalInit => FirstOrCopy /\ RevertDoes /\ CopyRecords
<1> SUFFICES ASSUME CriticalInit PROVE FirstOrCopy /\ RevertDoes /\ CopyRecords
    OBVIOUS
<1>1. /\ \A i \in PushTools : folder.stacks[i] = <<>>
      /\ held = first /\ script.kind = Void /\ script.on = Void /\ H = F
    BY DEF CriticalInit, NoScript, H, F
<1>2. \A i \in {1, 2, 3, 4, 8} : i \in PushTools
    BY ToolsAre
<1>3. FirstOrCopy
    BY <1>1 DEF FirstOrCopy, Void
<1>4. RevertDoes
    BY <1>1 DEF RevertDoes
<1>5. \A i \in 1..4 : i \in PushTools
    BY ToolsAre
<1>6. CopyRecords
    BY <1>1, <1>2, <1>5 DEF CopyRecords, Settled, OldestIsFirst, GroupsRecorded, RulesRecorded, RecordedBelow
<1> QED
    BY <1>3, <1>4, <1>6

LEMMA TangledStays == ASSUME [CriticalNext]_criticalVars, ~tangled', CopyTypes, OldestFirst PROVE ~tangled
<1>1. \/ ToolBegins \/ tangled' = tangled
    BY DEF CriticalNext, criticalVars, Stats, PullSource, SourceChanges, NameMoves, PushBegins, WriteOne, ToolDone,
           Verify, RevertBegins, NextTool, RevertTool, DeleteOne, RestoreOne, RevertDone, PushDies, RevertDies, CallFails
<1>2. ToolBegins => tangled' = (tangled \/ alias # "checked")
    BY DEF ToolBegins
<1> QED
    BY <1>1, <1>2 DEF CopyTypes

\* A step that leaves manager and baselines, and less to do.
LEMMA FirstStays ==
    ASSUME FirstOrCopy, UNCHANGED <<held, first>>, folder'.stacks = folder.stacks,
           folder'.bundles = folder.bundles \/ ((\A i \in PushTools : folder.stacks[i] = <<>>) /\ script'.kind = Void),
           script'.on \in {Void, script.on},
           script'.kind = "push" =>
               \/ script.kind = "push" /\ script'.left \subseteq script.left
                  /\ script'.base = script.base /\ script'.tool = script.tool
               \/ script'.left = {},
           script'.kind = "revert" =>
               \/ script.kind = "revert" /\ script'.left \subseteq script.left /\ script'.dels \subseteq script.dels
                  /\ script'.base = script.base /\ script'.tool = script.tool
               \/ script'.left = {} /\ script'.dels = {}
    PROVE  FirstOrCopy'
<1>1. H' = H /\ F' = F
    BY DEF H, F
<1>2. CASE folder'.bundles = folder.bundles
    <2>1. \A i : Wanted(i)' = Wanted(i)
        BY <1>2 DEF Wanted
    <2> QED
        BY <1>1, <2>1 DEF FirstOrCopy, EntryIs
<1>3. CASE (\A i \in PushTools : folder.stacks[i] = <<>>) /\ script'.kind = Void
    BY <1>1, <1>3 DEF FirstOrCopy, Void
<1> QED
    BY <1>2, <1>3

LEMMA DoesStays ==
    ASSUME RevertDoes, UNCHANGED held, folder'.stacks = folder.stacks,
           script'.kind = "revert" /\ script'.on # Void /\ ~script'.failed =>
               /\ script.kind = "revert" /\ script.on # Void /\ ~script.failed
               /\ script'.tool = script.tool /\ script'.left = script.left /\ script'.dels = script.dels
    PROVE  RevertDoes'
    BY DEF RevertDoes, H

\* A step that leaves manager, baselines and records.
LEMMA RecordsStay ==
    ASSUME CopyRecords, UNCHANGED <<held, first, lost, met>>, folder'.stacks = folder.stacks,
           folder'.bundles = folder.bundles \/ scripts = 0
    PROVE  CopyRecords'
<1>1. H' = H /\ F' = F /\ \A o : Lost(o)' = Lost(o) /\ \A i : OnRecord(o, i)' = OnRecord(o, i)
    BY DEF H, F, Lost, OnRecord
<1>2. \A o : Excused(o) => Excused(o)'
    BY <1>1 DEF Excused
<1>4. Settled' /\ OldestIsFirst' /\ GroupsRecorded' /\ RulesRecorded'
    BY <1>1, <1>2 DEF CopyRecords, Settled, OldestIsFirst, GroupsRecorded, RulesRecorded
<1>5. RecordedBelow'
    BY <1>1, <1>2 DEF CopyRecords, RecordedBelow
<1> QED
    BY <1>4, <1>5 DEF CopyRecords

\* The three together, for a step that leaves managers, baselines and records.
Straight == FirstOrCopy /\ RevertDoes /\ CopyRecords
LEMMA StraightStays ==
    ASSUME CopyTypes, OldestFirst, Straight, UNCHANGED <<held, first, lost, met>>, folder'.stacks = folder.stacks,
           folder'.bundles = folder.bundles \/ scripts = 0,
           \/ scripts' = scripts /\ UNCHANGED script
           \/ scripts' = scripts /\ NoneRuns
           \/ \E k \in {"push", "revert"} : \E i, base, f :
                  ScriptIs(k, i, Void, base, {}, {}, f) /\ k = script.kind /\ scripts' = scripts
           \/ script.kind = Void /\ scripts' = scripts + 1
              /\ (UNCHANGED script \/ \E k \in {"push", "revert"} : \E i, base, f : ScriptIs(k, i, Void, base, {}, {}, f))
    PROVE  Straight'
<1>1. scripts \in Nat
    BY DEF CopyTypes
<1>2. scripts = 0 => (\A i \in PushTools : folder.stacks[i] = <<>>) /\ script.kind = Void
    BY DEF OldestFirst
<1>3. CASE UNCHANGED script /\ scripts' \in {scripts, scripts + 1}
    <2>1. FirstOrCopy'
        <3>1. script.kind = "push" \/ script.kind = "revert" => folder'.bundles = folder.bundles
            BY <1>2 DEF Void
        <3>2. CASE folder'.bundles = folder.bundles
            BY <1>3, <3>2, FirstStays DEF Straight
        <3>3. CASE folder'.bundles # folder.bundles
            BY <1>2, <1>3, <3>3, FirstStays DEF Straight
        <3> QED
            BY <3>2, <3>3
    <2>2. RevertDoes'
        BY <1>3, DoesStays DEF Straight
    <2>3. CopyRecords'
        BY <1>1, <1>3, RecordsStay DEF Straight
    <2> QED
        BY <2>1, <2>2, <2>3 DEF Straight
<1>4. CASE scripts' = scripts /\ NoneRuns
    <2>1. script'.on = Void /\ script'.kind = Void
        BY <1>4 DEF NoneRuns, ScriptIs
    <2>2. FirstOrCopy'
        BY <1>2, <2>1, FirstStays DEF Straight, Void
    <2>3. RevertDoes'
        BY <2>1, DoesStays DEF Straight
    <2>4. CopyRecords'
        BY <1>1, <1>4, <2>1, RecordsStay DEF Straight, Void
    <2> QED
        BY <2>2, <2>3, <2>4 DEF Straight
<1>5. CASE \E k \in {"push", "revert"} : \E i, base, f :
              /\ ScriptIs(k, i, Void, base, {}, {}, f)
              /\ \/ k = script.kind /\ scripts' = scripts
                 \/ script.kind = Void /\ scripts' = scripts + 1
    <2>1. /\ script'.on = Void /\ script'.left = {} /\ script'.dels = {}
          /\ script'.kind \in {"push", "revert"}
          /\ \/ script'.kind = script.kind /\ scripts' = scripts
             \/ script.kind = Void /\ scripts' = scripts + 1
        BY <1>5 DEF ScriptIs
    <2>2. FirstOrCopy'
        <3>1. CASE folder'.bundles = folder.bundles
            BY <2>1, <3>1, FirstStays DEF Straight
        <3>2. CASE folder'.bundles # folder.bundles
            <4>1. \A i \in PushTools : folder'.stacks[i] = <<>>
                BY <1>2, <3>2
            <4>2. H' = H /\ F' = F
                BY DEF H, F
            <4> QED
                BY <2>1, <4>1, <4>2 DEF Straight, FirstOrCopy, Void
        <3> QED
            BY <3>1, <3>2
    <2>3. RevertDoes'
        BY <2>1, DoesStays DEF Straight
    <2>4. CopyRecords'
        BY <1>1, <2>1, RecordsStay DEF Straight
    <2> QED
        BY <2>2, <2>3, <2>4 DEF Straight
<1> QED
    BY <1>3, <1>4, <1>5

LEMMA RestIsVoid == Void \notin Managers /\ Void # "copy" /\ "checked" \in Managers
    BY DEF Void, Managers

LEMMA SameClass ==
    \A i \in PushTools, c \in 1..4 : (\E o \in InClass(c) : o \in InClass(i)) => i = c \/ i = c + 4
<1> SUFFICES ASSUME NEW i \in PushTools, NEW c \in 1..4, ClassOf(c) = ClassOf(i) PROVE i = c \/ i = c + 4
    BY ClassesApart DEF PushTools
<1> QED
    BY ToolsAre DEF PushTools

\* A call of a tool that fails, or does not.
LEMMA StraightCallFails ==
    ASSUME CopyTypes, OldestFirst, Straight, UNCHANGED folder, Steady,
           \/ ScriptIs(script.kind, script.tool, script.on, script.base, script.left, script'.dels, TRUE)
              /\ script'.dels \subseteq script.dels
           \/ ScriptIs(script.kind, script.tool, script.on, script.base, script'.left, script.dels, TRUE)
              /\ script'.left \subseteq script.left
    PROVE  Straight'
<1>1. /\ script'.kind = script.kind /\ script'.tool = script.tool /\ script'.on = script.on
      /\ script'.base = script.base /\ script'.left \subseteq script.left /\ script'.dels \subseteq script.dels
      /\ script'.failed
    BY DEF ScriptIs
<1>2. FirstOrCopy'
    BY <1>1, FirstStays DEF Straight, Steady
<1>3. RevertDoes'
    BY <1>1, DoesStays DEF Straight, Steady
<1>4. CopyRecords'
    BY <1>1, RecordsStay DEF Straight, Steady, CopyTypes
<1> QED
    BY <1>2, <1>3, <1>4 DEF Straight

LEMMA StraightRevertTool == ASSUME CopyTypes, OldestFirst, Straight, RevertTool PROVE Straight'
<1> DEFINE i == script.tool
           b == Last(folder.stacks[i])
<1>1. script.kind = "revert" /\ script.on = Void /\ i \in PushTools /\ folder.stacks[i] # <<>> /\ Steady
    BY RevertToolIs
<1>2. CASE Outcome(Void) /\ NoneRuns
    BY <1>1, <1>2, StraightStays DEF Outcome, Steady
<1>3. CASE /\ b.on = alias /\ UNCHANGED folder
           /\ ScriptIs("revert", i, alias, b.base, Restores(i, b, alias), Dels(i, b, alias), FALSE)
    <2>1. folder.stacks[i] \in Seq(Baselines(i))
        BY <1>1 DEF CopyTypes, FolderTyped
    <2>2. Len(folder.stacks[i]) \in 1..Len(folder.stacks[i]) /\ b = folder.stacks[i][Len(folder.stacks[i])]
        <3>1. Len(folder.stacks[i]) \in Nat \ {0} /\ b = folder.stacks[i][Len(folder.stacks[i])]
            BY <1>1, <2>1, FrontOf
        <3> QED
            BY <3>1
    <2>3. alias = "checked"
        BY <1>1, <1>3, <2>2 DEF Straight, FirstOrCopy, EntryIs
    <2>4. H' = H /\ F' = F /\ \A j : Wanted(j)' = Wanted(j)
        BY <1>1, <1>3 DEF Steady, H, F, Wanted
    <2>5. FirstOrCopy'
        <3>1. \A o \in script'.left : script'.base[o] # Void /\ (ClassOf(i) = "groups" => o \in b.pushed)
            BY <1>3 DEF ScriptIs, Restores
        <3>2. \A o \in script'.dels : script'.base[o] = Void
            BY <1>3 DEF ScriptIs, Dels
        <3> QED
            BY <1>1, <1>3, <2>3, <2>4, <3>1, <3>2 DEF Straight, FirstOrCopy, EntryIs, ScriptIs, Steady
    <2>6. RevertDoes'
        BY <1>3, <2>3, <2>4 DEF RevertDoes, ScriptIs, Restores, Dels, H
    <2>7. CopyRecords'
        BY <1>1, <1>3, RecordsStay DEF Straight, Steady, CopyTypes, ScriptIs
    <2> QED
        BY <2>5, <2>6, <2>7 DEF Straight
<1> QED
    BY <1>2, <1>3, RevertToolIs

\* The stack of one tool changes, and its entries are still good.
LEMMA EntriesAre ==
    ASSUME FirstOrCopy, NEW i \in PushTools, NEW s, Stack(i, s), UNCHANGED first,
           \A n \in 1..Len(s) : EntryIs(s[n], i)
    PROVE  (\A j \in PushTools : \A n \in 1..Len(folder.stacks[j]) : EntryIs(folder.stacks[j][n], j))'
<1>1. F' = F /\ \A j : Wanted(j)' = Wanted(j)
    BY DEF F, Wanted, Stack
<1>2. \A b, j : EntryIs(b, j) => EntryIs(b, j)'
    BY <1>1 DEF EntryIs
<1>3. \A j \in PushTools : \A n \in 1..Len(folder'.stacks[j]) : EntryIs(folder'.stacks[j][n], j)
    BY DEF FirstOrCopy, Stack
<1> QED
    BY <1>2, <1>3

LEMMA StraightToolBegins == ASSUME CopyTypes, OldestFirst, Straight, ToolBegins, ~tangled' PROVE Straight'
<1> DEFINE i == script.tool
           s == folder.stacks[i]
           base == [o \in InClass(i) |-> held[alias][o]]
           e == [base |-> base, on |-> alias, pushed |-> {}, whole |-> TRUE]
           t == Append(s, e)
<1>1. /\ script.kind = "push" /\ script.on = Void /\ i \in PushTools /\ alias = "checked"
      /\ ScriptIs("push", i, alias, base, {o \in Wanted(i) : held[alias][o] # "copy"}, {}, script.failed)
      /\ Stack(i, t) /\ UNCHANGED <<source, alias, held, first, lost, scripts>>
      /\ met \subseteq met'
      /\ i = 4 => \A o \in Wanted(8) : H[o] # Void /\ F[o] = Void => Excused(o)'
    BY ToolBeginsIs DEF H, F, Excused
<1>2. /\ \A o \in InClass(i) : base[o] = H[o] /\ o \in Objects
      /\ e.base = base /\ e.on = "checked" /\ e.pushed = {}
    BY <1>1, ClassesApart DEF H
<1>3. \A o \in Objects : H[o] \in {F[o], "copy"}
    BY DEF Straight, FirstOrCopy
<1>4. s \in Seq(Baselines(i)) /\ e \in Baselines(i)
    <2>1. base \in [InClass(i) -> Kept]
        BY <1>1, HeldTyped DEF CopyTypes
    <2> QED
        BY <1>1, <2>1 DEF CopyTypes, FolderTyped, Baselines
<1>5. /\ Len(t) = Len(s) + 1 /\ t # <<>> /\ Len(s) \in Nat
      /\ \A m \in 1..Len(s) : t[m] = s[m]
      /\ t[Len(s) + 1] = e
    BY <1>4, AppendOf
<1>6. H' = H /\ F' = F /\ (\A j : Wanted(j)' = Wanted(j)) /\ (\A o : Lost(o)' = Lost(o)) /\ (\A o : Excused(o) => Excused(o)')
    BY <1>1 DEF H, F, Wanted, Stack, Lost, Excused
<1>7. Wanted(i) \subseteq InClass(i)
    BY <1>1 DEF CopyTypes, FolderTyped
<1> HIDE DEF t, e, base
<1>8. FirstOrCopy'
    <2>1. EntryIs(e, i)
        BY <1>2, <1>3 DEF EntryIs
    <2>2. \A n \in 1..Len(t) : EntryIs(t[n], i)
        <3> TAKE n \in 1..Len(t)
        <3>1. CASE n \in 1..Len(s)
            <4>1. EntryIs(s[n], i)
                BY <1>1, <3>1 DEF Straight, FirstOrCopy
            <4> QED
                BY <1>5, <3>1, <4>1
        <3>2. CASE n = Len(s) + 1
            BY <1>5, <2>1, <3>2
        <3> QED
            BY <1>5, <3>1, <3>2
    <2>3. (\A j \in PushTools : \A n \in 1..Len(folder.stacks[j]) : EntryIs(folder.stacks[j][n], j))'
        BY <1>1, <2>2, EntriesAre DEF Straight
    <2>4. \A o \in script'.left : script'.base[o] # "copy" /\ o \in Wanted(i)
        BY <1>1, <1>2, <1>7 DEF ScriptIs, H
    <2>5. script'.on = "checked" /\ script'.kind = "push" /\ script'.tool = i
        BY <1>1 DEF ScriptIs
    <2>6. held'["other"] = first'["other"] /\ \A o \in Objects : H'[o] \in {F'[o], "copy"}
        BY <1>1, <1>6 DEF Straight, FirstOrCopy
    <2> QED
        BY <1>6, <2>3, <2>4, <2>5, <2>6 DEF FirstOrCopy
<1>9. RevertDoes'
    BY <1>1 DEF RevertDoes, ScriptIs
<1>10. \A j \in PushTools : j # i => folder'.stacks[j] = folder.stacks[j]
    BY <1>1 DEF Stack
<1>11. folder'.stacks[i] = t
    BY <1>1 DEF Stack
<1>12. \A o, j : j \in PushTools /\ OnRecord(o, j) => OnRecord(o, j)'
    <2> SUFFICES ASSUME NEW o, NEW j \in PushTools, OnRecord(o, j) PROVE OnRecord(o, j)'
        OBVIOUS
    <2>1. CASE j = i
        <3>1. PICK n \in 1..Len(s) : o \in s[n].pushed
            BY <2>1 DEF OnRecord
        <3>2. n \in 1..Len(t) /\ o \in t[n].pushed
            BY <1>5, <3>1
        <3> QED
            BY <1>11, <2>1, <3>2 DEF OnRecord
    <2>2. CASE j # i
        BY <1>10, <2>2 DEF OnRecord
    <2> QED
        BY <2>1, <2>2
<1>13. \A c \in 1..4 : c \in PushTools
    BY DEF PushTools
<1>14. Settled'
    BY <1>5, <1>6, <1>10, <1>11, <1>13 DEF Straight, CopyRecords, Settled
<1>15. GroupsRecorded' /\ RulesRecorded'
    BY <1>6, <1>12 DEF Straight, CopyRecords, GroupsRecorded, RulesRecorded, PushTools
<1>16. OldestIsFirst'
    <2> SUFFICES ASSUME NEW c \in {1, 3, 4}, folder'.stacks[c] # <<>>, NEW o \in InClass(c)
                 PROVE  folder'.stacks[c][1].base[o] = F[o] \/ Lost(o) \/ Excused(o)'
        BY <1>6 DEF OldestIsFirst
    <2>1. CASE c = i /\ s = <<>>
        <3>1. H[o] = F[o] \/ Lost(o) \/ Excused(o)
            BY <2>1 DEF Straight, CopyRecords, Settled
        <3>2. t[1] = e
            BY <1>5, <2>1
        <3> QED
            BY <1>2, <1>6, <1>11, <2>1, <3>1, <3>2
    <2>2. CASE c = i /\ s # <<>>
        <3>1. Len(s) \in Nat \ {0}
            BY <1>4, <2>2, FrontOf
        <3>2. t[1] = s[1]
            BY <1>5, <3>1
        <3> QED
            BY <1>6, <1>11, <2>2, <3>2 DEF Straight, CopyRecords, OldestIsFirst
    <2>3. CASE c # i
        BY <1>6, <1>10, <1>13, <2>3 DEF Straight, CopyRecords, OldestIsFirst
    <2> QED
        BY <2>1, <2>2, <2>3
<1>17. RecordedBelow'
    <2>1. script'.kind = "push" /\ scripts' = scripts
        BY <1>1 DEF ScriptIs
    <2> SUFFICES ASSUME NEW k \in {4, 8}, NEW n \in 1..Len(folder'.stacks[k]), NEW o \in InClass(4),
                        F[o] = Void, folder'.stacks[k][n].base[o] = "copy"
                 PROVE  \/ Lost(o) \/ Excused(o)'
                        \/ \E m \in 1..(n - 1) : o \in folder'.stacks[k][m].pushed
                        \/ k = 8 /\ OnRecord(o, 4)'
        BY <1>6, <2>1 DEF RecordedBelow
    <2>3. k \in PushTools /\ 4 \in PushTools /\ 8 \in PushTools /\ o \in Objects
        BY ClassesApart DEF PushTools
    <2>4. CASE k # i \/ n \in 1..Len(s)
        <3>1. /\ n \in 1..Len(folder.stacks[k]) /\ folder.stacks[k][n].base[o] = "copy"
              /\ \A m \in 1..(n - 1) : folder'.stacks[k][m] = folder.stacks[k][m]
            <4>1. CASE k # i
                <5>1. folder'.stacks[k] = folder.stacks[k]
                    BY <1>10, <2>3, <4>1
                <5> QED
                    BY <5>1
            <4>2. CASE k = i /\ n \in 1..Len(s)
                <5>1. \A m \in 1..(n - 1) : m \in 1..Len(s)
                    BY <1>5, <4>2
                <5> QED
                    BY <1>5, <1>11, <4>2, <5>1
            <4> QED
                BY <2>4, <4>1, <4>2
        <3>2. \/ Lost(o) \/ Excused(o)
              \/ \E m \in 1..(n - 1) : o \in folder.stacks[k][m].pushed
              \/ k = 8 /\ OnRecord(o, 4)
            BY <3>1 DEF Straight, CopyRecords, RecordedBelow
        <3> QED
            BY <1>6, <1>12, <2>3, <3>1, <3>2
    <2>5. CASE k = i /\ n = Len(s) + 1
        <3>1. H[o] = "copy"
            <4>1. o \in InClass(i)
                BY <2>3, <2>5, ClassesApart, ToolsAre
            <4>2. folder'.stacks[k][n] = e
                BY <1>5, <1>11, <2>5
            <4> QED
                BY <1>2, <4>1, <4>2
        <3>2. Lost(o) \/ Excused(o) \/ OnRecord(o, 4) \/ OnRecord(o, 8)
            BY <3>1, RestIsVoid DEF Straight, CopyRecords, RulesRecorded
        <3>3. OnRecord(o, k) => \E m \in 1..(n - 1) : o \in folder'.stacks[k][m].pushed
            <4> SUFFICES ASSUME OnRecord(o, k) PROVE \E m \in 1..(n - 1) : o \in folder'.stacks[k][m].pushed
                OBVIOUS
            <4>1. PICK m \in 1..Len(s) : o \in s[m].pushed
                BY <2>5 DEF OnRecord
            <4>2. m \in 1..(n - 1) /\ t[m] = s[m]
                BY <1>5, <2>5, <4>1
            <4> QED
                BY <1>11, <2>5, <4>1, <4>2
        <3>4. k = 4 /\ OnRecord(o, 8) => Excused(o)'
            <4> SUFFICES ASSUME k = 4, OnRecord(o, 8) PROVE Excused(o)'
                OBVIOUS
            <4>1. PICK m \in 1..Len(folder.stacks[8]) : o \in folder.stacks[8][m].pushed
                BY DEF OnRecord
            <4>2. o \in Wanted(8)
                BY <2>3, <4>1 DEF Straight, FirstOrCopy, EntryIs
            <4> QED
                BY <1>1, <2>5, <3>1, <4>2, RestIsVoid
        <3> QED
            BY <1>6, <1>12, <2>3, <3>2, <3>3, <3>4
    <2> QED
        <3>1. k = i => n \in 1..(Len(s) + 1)
            BY <1>5, <1>11
        <3> QED
            BY <1>5, <2>4, <2>5, <3>1
<1> QED
    BY <1>8, <1>9, <1>14, <1>15, <1>16, <1>17 DEF Straight, CopyRecords

\* The baselines stay, and records are only added.
Grows ==
    /\ UNCHANGED <<first, met, scripts>> /\ folder'.bundles = folder.bundles
    /\ \A o : Lost(o) => Lost(o)'
    /\ script'.kind \in {script.kind, Void}
    /\ \A j \in PushTools :
          /\ Len(folder'.stacks[j]) = Len(folder.stacks[j])
          /\ folder'.stacks[j] = <<>> <=> folder.stacks[j] = <<>>
          /\ \A n \in 1..Len(folder.stacks[j]) : /\ folder'.stacks[j][n].base = folder.stacks[j][n].base
                                                 /\ folder.stacks[j][n].pushed \subseteq folder'.stacks[j][n].pushed

LEMMA GrowsKeeps ==
    ASSUME CopyTypes, CopyRecords, Grows
    PROVE  /\ F' = F /\ (\A j : Wanted(j)' = Wanted(j)) /\ (\A o : Excused(o)' = Excused(o))
           /\ \A o, j : j \in PushTools /\ OnRecord(o, j) => OnRecord(o, j)'
           /\ OldestIsFirst' /\ RecordedBelow'
<1>1. /\ F' = F /\ (\A j : Wanted(j)' = Wanted(j)) /\ (\A o : Excused(o)' = Excused(o))
    BY DEF Grows, F, Wanted, Excused
<1>2. \A o, j : j \in PushTools /\ OnRecord(o, j) => OnRecord(o, j)'
    BY DEF Grows, OnRecord
<1>3. \A c \in {1, 3, 4, 8} : c \in PushTools
    BY DEF PushTools
<1>4. OldestIsFirst'
    <2> SUFFICES ASSUME NEW c \in {1, 3, 4}, folder'.stacks[c] # <<>>, NEW o \in InClass(c)
                 PROVE  folder'.stacks[c][1].base[o] = F[o] \/ Lost(o)' \/ Excused(o)
        BY <1>1 DEF OldestIsFirst
    <2>1. c \in PushTools /\ folder.stacks[c] # <<>> /\ folder.stacks[c] \in Seq(Baselines(c))
        BY <1>3 DEF Grows, CopyTypes, FolderTyped
    <2>2. 1 \in 1..Len(folder.stacks[c])
        <3>1. Len(folder.stacks[c]) \in Nat \ {0}
            BY <2>1, FrontOf
        <3> QED
            BY <3>1
    <2>3. folder'.stacks[c][1].base = folder.stacks[c][1].base
        BY <2>1, <2>2 DEF Grows
    <2>4. folder.stacks[c][1].base[o] = F[o] \/ Lost(o) \/ Excused(o)
        BY <2>1 DEF CopyRecords, OldestIsFirst
    <2> QED
        BY <2>3, <2>4 DEF Grows
<1>5. RecordedBelow'
    <2> SUFFICES ASSUME NEW k \in {4, 8}, NEW n \in 1..Len(folder'.stacks[k]), NEW o \in InClass(4),
                        F[o] = Void, folder'.stacks[k][n].base[o] = "copy"
                 PROVE  \/ Lost(o)' \/ Excused(o)
                        \/ \E m \in 1..(n - 1) : o \in folder'.stacks[k][m].pushed
                        \/ k = 8 /\ OnRecord(o, 4)'
        BY <1>1 DEF RecordedBelow
    <2>1. k \in PushTools /\ n \in 1..Len(folder.stacks[k]) /\ folder.stacks[k][n].base[o] = "copy"
        BY <1>3 DEF Grows
    <2>2. \/ Lost(o) \/ Excused(o)
          \/ \E m \in 1..(n - 1) : o \in folder.stacks[k][m].pushed
          \/ k = 8 /\ OnRecord(o, 4)
        BY <2>1 DEF CopyRecords, RecordedBelow
    <2>3. \A m \in 1..(n - 1) : folder.stacks[k][m].pushed \subseteq folder'.stacks[k][m].pushed
        <3>1. Len(folder.stacks[k]) \in Nat
            BY <2>1 DEF CopyTypes, FolderTyped
        <3>2. \A m \in 1..(n - 1) : m \in 1..Len(folder.stacks[k])
            BY <2>1, <3>1
        <3> QED
            BY <2>1, <3>2 DEF Grows
    <2> QED
        BY <1>2, <1>3, <2>2, <2>3 DEF Grows
<1> QED
    BY <1>1, <1>2, <1>4, <1>5

\* What an object holds now, and no baseline says otherwise.
HeldAccounted(o) ==
    /\ \A c \in 1..4 : o \in InClass(c) => folder'.stacks[c] # <<>> \/ H'[o] = F[o]
    /\ o \in InClass(2) => H'[o] = F[o] \/ Lost(o)' \/ OnRecord(o, 2)' \/ OnRecord(o, 6)'
    /\ o \in InClass(4) /\ F[o] = Void =>
          H'[o] = Void \/ Lost(o)' \/ Excused(o) \/ OnRecord(o, 4)' \/ OnRecord(o, 8)'

LEMMA GrowsRecords ==
    ASSUME CopyTypes, CopyRecords, Grows, \A o \in Objects : H'[o] = H[o] \/ HeldAccounted(o)
    PROVE  CopyRecords'
<1>1. /\ F' = F /\ (\A o : Excused(o)' = Excused(o)) /\ OldestIsFirst' /\ RecordedBelow'
      /\ \A o, j : j \in PushTools /\ OnRecord(o, j) => OnRecord(o, j)'
    BY GrowsKeeps
<1>2. \A c \in 1..4 : c \in PushTools /\ InClass(c) \subseteq Objects
    BY ClassesApart DEF PushTools
<1>3. Settled'
    <2> SUFFICES ASSUME NEW c \in 1..4, folder'.stacks[c] = <<>>, NEW o \in InClass(c)
                 PROVE  H'[o] = F[o] \/ Lost(o)' \/ Excused(o)
        BY <1>1 DEF Settled
    <2>1. o \in Objects /\ folder.stacks[c] = <<>>
        BY <1>2 DEF Grows
    <2>2. H[o] = F[o] \/ Lost(o) \/ Excused(o)
        BY <2>1 DEF CopyRecords, Settled
    <2>3. Lost(o) => Lost(o)'
        BY DEF Grows
    <2> QED
        BY <2>1, <2>2, <2>3 DEF HeldAccounted
<1>4. GroupsRecorded'
    <2> SUFFICES ASSUME NEW o \in InClass(2)
                 PROVE  H'[o] = F[o] \/ Lost(o)' \/ OnRecord(o, 2)' \/ OnRecord(o, 6)'
        BY <1>1 DEF GroupsRecorded
    <2>1. H[o] = F[o] \/ Lost(o) \/ OnRecord(o, 2) \/ OnRecord(o, 6)
        BY DEF CopyRecords, GroupsRecorded
    <2>2. o \in Objects /\ (Lost(o) => Lost(o)') /\ 2 \in PushTools /\ 6 \in PushTools
        BY <1>2 DEF Grows, PushTools
    <2> QED
        BY <1>1, <2>1, <2>2 DEF HeldAccounted
<1>5. RulesRecorded'
    <2> SUFFICES ASSUME NEW o \in InClass(4), F[o] = Void
                 PROVE  H'[o] = Void \/ Lost(o)' \/ Excused(o) \/ OnRecord(o, 4)' \/ OnRecord(o, 8)'
        BY <1>1 DEF RulesRecorded
    <2>1. H[o] = Void \/ Lost(o) \/ Excused(o) \/ OnRecord(o, 4) \/ OnRecord(o, 8)
        BY DEF CopyRecords, RulesRecorded
    <2>2. o \in Objects /\ (Lost(o) => Lost(o)') /\ 4 \in PushTools /\ 8 \in PushTools
        BY <1>2 DEF Grows, PushTools
    <2> QED
        BY <1>1, <2>1, <2>2 DEF HeldAccounted
<1> QED
    BY <1>1, <1>3, <1>4, <1>5 DEF CopyRecords

\* What a tool of a push has still to write is as it was at first, and its
\* baseline stands.
LEMMA PushingIs ==
    ASSUME CopyTypes, OldestFirst, FirstOrCopy, script.kind = "push", script.on \in Managers,
           script.tool \in PushTools, NEW o \in script.left
    PROVE  LET i == script.tool
               s == folder.stacks[i]
           IN  /\ script.on = "checked" /\ o \in Objects /\ o \in InClass(i) /\ o \in Wanted(i)
               /\ s \in Seq(Baselines(i)) /\ s # <<>> /\ Len(s) \in Nat \ {0} /\ Last(s) = s[Len(s)]
               /\ Last(s) \in Baselines(i) /\ EntryIs(Last(s), i) /\ script.base = Last(s).base
               /\ script.base[o] = F[o] /\ script.base[o] # "copy"
               /\ \A c \in 1..4 : o \in InClass(c) => folder.stacks[c] # <<>>
<1> DEFINE i == script.tool
           s == folder.stacks[i]
<1>1. script.on = "checked"
    BY RestIsVoid DEF FirstOrCopy
<1>2. o \in InClass(i) /\ o \in Wanted(i) /\ script.base[o] # "copy"
    BY RestIsVoid DEF CopyTypes, ScriptTyped, FirstOrCopy
<1>3. o \in Objects
    BY <1>2, ClassesApart
<1>4. s \in Seq(Baselines(i)) /\ s # <<>> /\ script.base = Last(s).base
    BY RestIsVoid DEF CopyTypes, FolderTyped, OldestFirst
<1>5. Len(s) \in Nat \ {0} /\ Last(s) = s[Len(s)] /\ Last(s) \in Baselines(i)
    BY <1>4, FrontOf
<1>6. EntryIs(Last(s), i)
    <2>1. Len(s) \in 1..Len(s)
        BY <1>5
    <2> QED
        BY <1>5, <2>1 DEF FirstOrCopy
<1>7. script.base[o] = F[o]
    BY <1>2, <1>4, <1>6 DEF EntryIs
<1>8. ASSUME NEW c \in 1..4, o \in InClass(c) PROVE folder.stacks[c] # <<>>
    <2>1. i = c \/ i = c + 4
        BY <1>2, <1>8, SameClass
    <2>2. c \in PushTools /\ (c = i \/ c < i)
        BY <2>1 DEF PushTools
    <2> QED
        BY <1>4, <2>2 DEF OldestFirst
<1> QED
    BY <1>1, <1>2, <1>3, <1>4, <1>5, <1>6, <1>7, <1>8

LEMMA StraightWriteOne == ASSUME CopyTypes, OldestFirst, Straight, NEW o, WriteOne(o) PROVE Straight'
<1> DEFINE i == script.tool
           s == folder.stacks[i]
           b == Last(s)
           records == ClassOf(i) = "groups" \/ script.base[o] = Void
           e == [b EXCEPT !.pushed = IF records THEN @ \cup {o} ELSE @]
           t == [s EXCEPT ![Len(s)] = e]
<1>1. /\ script.kind = "push" /\ i \in PushTools /\ script.on \in Managers /\ o \in script.left
      /\ held' = [held EXCEPT ![script.on][o] = "copy"]
      /\ ScriptIs("push", i, script.on, script.base, script.left \ {o}, {}, script.failed)
      /\ Stack(i, t)
      /\ UNCHANGED <<source, alias, first, lost, tangled, met, scripts>>
    BY WriteOneIs
<1>2. /\ script.on = "checked" /\ o \in Objects /\ o \in InClass(i) /\ o \in Wanted(i)
      /\ s \in Seq(Baselines(i)) /\ s # <<>> /\ Len(s) \in Nat \ {0} /\ b = s[Len(s)]
      /\ b \in Baselines(i) /\ EntryIs(b, i) /\ script.base = b.base
      /\ script.base[o] = F[o] /\ script.base[o] # "copy"
      /\ \A c \in 1..4 : o \in InClass(c) => folder.stacks[c] # <<>>
    BY <1>1, PushingIs DEF Straight
<1>3. /\ e.base = b.base /\ e.on = b.on /\ e.pushed = (IF records THEN b.pushed \cup {o} ELSE b.pushed)
      /\ e \in Baselines(i)
    BY <1>2 DEF Baselines
<1>4. /\ (\A q \in Objects : H'[q] = IF q = o THEN "copy" ELSE H[q]) /\ held'["other"] = held["other"] /\ F' = F
    BY <1>1, <1>2, HeldAfter
<1> HIDE DEF e
<1>5. t \in Seq(Baselines(i)) /\ Len(t) = Len(s) /\ t # <<>>
      /\ \A m \in 1..Len(s) : t[m] = IF m = Len(s) THEN e ELSE s[m]
    <2>1. s \in Seq(Baselines(i)) /\ s # <<>> /\ e \in Baselines(i)
        BY <1>2, <1>3
    <2>2. /\ t \in Seq(Baselines(i)) /\ Len(t) = Len(s) /\ t # <<>> /\ Last(t) = e
          /\ \A m \in 1..Len(s) : t[m] = IF m = Len(s) THEN e ELSE s[m]
        BY <2>1, ExceptOf
    <2> QED
        BY <2>2
<1> HIDE DEF t
<1>6. EntryIs(e, i)
    BY <1>2, <1>3 DEF EntryIs
<1>7. FirstOrCopy'
    <2>1. \A n \in 1..Len(t) : EntryIs(t[n], i)
        BY <1>1, <1>5, <1>6 DEF Straight, FirstOrCopy
    <2>2. (\A j \in PushTools : \A n \in 1..Len(folder.stacks[j]) : EntryIs(folder.stacks[j][n], j))'
        BY <1>1, <2>1, EntriesAre DEF Straight
    <2>3. \A j : Wanted(j)' = Wanted(j)
        BY <1>1 DEF Wanted, Stack
    <2> QED
        BY <1>1, <1>2, <1>4, <2>2, <2>3 DEF Straight, FirstOrCopy, ScriptIs
<1>8. RevertDoes'
    BY <1>1 DEF RevertDoes, ScriptIs
<1>9. \A m \in 1..Len(s) : t[m].base = s[m].base /\ s[m].pushed \subseteq t[m].pushed
    BY <1>2, <1>3, <1>5
<1>10. Grows
    <2>1. folder'.stacks[i] = t /\ \A j \in PushTools : j # i => folder'.stacks[j] = folder.stacks[j]
        BY <1>1 DEF Stack
    <2>2. script'.kind = script.kind /\ folder'.bundles = folder.bundles /\ \A q : Lost(q) => Lost(q)'
        BY <1>1 DEF ScriptIs, Stack, Lost
    <2> QED
        BY <1>1, <1>2, <1>5, <1>9, <2>1, <2>2 DEF Grows
<1>11. records => OnRecord(o, i)'
    <2> SUFFICES ASSUME records PROVE OnRecord(o, i)'
        OBVIOUS
    <2>1. Len(s) \in 1..Len(t) /\ t[Len(s)] = e /\ o \in e.pushed
        BY <1>2, <1>3, <1>5
    <2>2. folder'.stacks[i] = t /\ script'.tool = i
        BY <1>1 DEF Stack, ScriptIs
    <2> QED
        BY <2>1, <2>2 DEF OnRecord
<1>12. HeldAccounted(o)
    <2>1. \A c \in 1..4 : o \in InClass(c) => folder'.stacks[c] # <<>>
        <3>1. \A c \in 1..4 : c \in PushTools
            BY DEF PushTools
        <3> QED
            BY <1>2, <1>10, <3>1 DEF Grows
    <2>2. o \in InClass(2) => OnRecord(o, 2)' \/ OnRecord(o, 6)'
        <3>1. o \in InClass(2) => i \in {2, 6}
            BY <1>1, <1>2, SameClass
        <3> QED
            BY <1>1, <1>11, <3>1, ToolsAre DEF ScriptIs
    <2>3. o \in InClass(4) /\ F[o] = Void => OnRecord(o, 4)' \/ OnRecord(o, 8)'
        <3>1. o \in InClass(4) => i \in {4, 8}
            BY <1>1, <1>2, SameClass
        <3> QED
            BY <1>1, <1>2, <1>11, <3>1 DEF ScriptIs
    <2> QED
        BY <2>1, <2>2, <2>3 DEF HeldAccounted
<1>13. CopyRecords'
    BY <1>4, <1>10, <1>12, GrowsRecords DEF Straight
<1> QED
    BY <1>7, <1>8, <1>13 DEF Straight

LEMMA StraightPushDies == ASSUME CopyTypes, OldestFirst, Straight, PushDies PROVE Straight'
<1> DEFINE i == script.tool
           s == folder.stacks[i]
<1>1. /\ script.kind = "push" /\ i \in PushTools /\ script.on \in Managers /\ NoneRuns
      /\ UNCHANGED <<source, alias, first, tangled, met, scripts>>
    BY PushDiesIs
<1>2. script'.kind = Void /\ script'.on = Void
    BY <1>1 DEF NoneRuns, ScriptIs
<1>3. RevertDoes'
    BY <1>2 DEF RevertDoes
<1>4. s \in Seq(Baselines(i)) /\ s # <<>> /\ Len(s) \in Nat \ {0} /\ Last(s) = s[Len(s)] /\ Last(s) \in Baselines(i)
    <2>1. s \in Seq(Baselines(i)) /\ s # <<>>
        BY <1>1, RestIsVoid DEF OldestFirst, CopyTypes, FolderTyped
    <2> QED
        BY <2>1, FrontOf
<1>5. ASSUME UNCHANGED <<held, lost>>, NEW whole \in BOOLEAN,
             Stack(i, [s EXCEPT ![Len(s)] = [Last(s) EXCEPT !.whole = whole]])
      PROVE  Straight'
    <2> DEFINE e == [Last(s) EXCEPT !.whole = whole]
               t == [s EXCEPT ![Len(s)] = e]
    <2>1. e.base = Last(s).base /\ e.on = Last(s).on /\ e.pushed = Last(s).pushed /\ e \in Baselines(i)
        BY <1>4 DEF Baselines
    <2> HIDE DEF e
    <2>2. Len(t) = Len(s) /\ t # <<>> /\ \A m \in 1..Len(s) : t[m] = IF m = Len(s) THEN e ELSE s[m]
        BY <1>4, <2>1, ExceptOf
    <2>3. Stack(i, t)
        BY <1>5 DEF e
    <2> HIDE DEF t
    <2>4. H' = H /\ F' = F /\ held'["other"] = held["other"]
        BY <1>1, <1>5 DEF H, F
    <2>5. \A n \in 1..Len(t) : EntryIs(t[n], i)
        <3>1. \A n \in 1..Len(s) : EntryIs(s[n], i)
            BY <1>1 DEF Straight, FirstOrCopy
        <3>2. EntryIs(e, i)
            <4>1. Len(s) \in 1..Len(s)
                BY <1>4
            <4>2. EntryIs(Last(s), i)
                BY <1>4, <3>1, <4>1
            <4> QED
                BY <2>1, <4>2 DEF EntryIs
        <3> QED
            BY <2>2, <3>1, <3>2
    <2>6. FirstOrCopy'
        <3>1. (\A j \in PushTools : \A n \in 1..Len(folder.stacks[j]) : EntryIs(folder.stacks[j][n], j))'
            BY <1>1, <2>3, <2>5, EntriesAre DEF Straight
        <3> QED
            BY <1>1, <1>2, <2>4, <3>1 DEF Straight, FirstOrCopy, Void
    <2>7. Grows
        <3>1. folder'.stacks[i] = t /\ (\A j \in PushTools : j # i => folder'.stacks[j] = folder.stacks[j])
              /\ folder'.bundles = folder.bundles
            BY <2>3 DEF Stack
        <3>2. \A m \in 1..Len(s) : t[m].base = s[m].base /\ s[m].pushed \subseteq t[m].pushed
            BY <1>4, <2>1, <2>2
        <3>3. \A q : Lost(q) => Lost(q)'
            BY <1>5 DEF Lost
        <3> QED
            BY <1>1, <1>2, <1>4, <2>2, <3>1, <3>2, <3>3 DEF Grows
    <2>8. CopyRecords'
        BY <2>4, <2>7, GrowsRecords DEF Straight
    <2> QED
        BY <1>3, <2>6, <2>8 DEF Straight
<1>6. ASSUME UNCHANGED folder, NEW o \in script.left, held' = [held EXCEPT ![script.on][o] = "copy"],
             lost' = IF Unrecorded(o) THEN lost \cup {<<script.on, o>>} ELSE lost
      PROVE  Straight'
    <2>1. /\ script.on = "checked" /\ o \in Objects /\ o \in InClass(i) /\ script.base[o] = F[o]
          /\ \A c \in 1..4 : o \in InClass(c) => folder.stacks[c] # <<>>
        BY <1>1, PushingIs DEF Straight
    <2>2. /\ (\A q \in Objects : H'[q] = IF q = o THEN "copy" ELSE H[q]) /\ held'["other"] = held["other"] /\ F' = F
        BY <1>1, <1>6, <2>1, HeldAfter
    <2>3. FirstOrCopy'
        <3>1. \A j : Wanted(j)' = Wanted(j)
            BY <1>6 DEF Wanted
        <3> QED
            BY <1>1, <1>2, <1>6, <2>2, <3>1 DEF Straight, FirstOrCopy, EntryIs, Void
    <2>4. Grows
        <3>1. \A q : Lost(q) => Lost(q)'
            BY <1>6 DEF Lost
        <3> QED
            BY <1>1, <1>2, <1>6, <3>1 DEF Grows
    <2>5. Unrecorded(o) => Lost(o)'
        BY <1>6, <2>1 DEF Lost
    <2>6. HeldAccounted(o)
        <3>1. o \in InClass(2) => i \in {2, 6}
            BY <1>1, <2>1, SameClass
        <3>2. o \in InClass(4) => i \in {4, 8}
            BY <1>1, <2>1, SameClass
        <3>3. o \in InClass(2) => Unrecorded(o)
            BY <3>1, ToolsAre DEF Unrecorded
        <3>4. o \in InClass(4) /\ F[o] = Void => Unrecorded(o)
            BY <2>1, <3>2, ToolsAre DEF Unrecorded
        <3> QED
            BY <1>6, <2>1, <2>5, <3>3, <3>4 DEF HeldAccounted
    <2>7. CopyRecords'
        BY <2>2, <2>4, <2>6, GrowsRecords DEF Straight
    <2> QED
        BY <1>3, <2>3, <2>7 DEF Straight
<1> QED
    BY <1>5, <1>6, PushDiesIs

\* The tool of a revert, its stack and what it has to do.
LEMMA RevertingIs ==
    ASSUME CopyTypes, OldestFirst, FirstOrCopy, script.kind = "revert", script.on # Void
    PROVE  LET i == script.tool
               s == folder.stacks[i]
           IN  /\ i \in PushTools /\ script.on = "checked"
               /\ s \in Seq(Baselines(i)) /\ s # <<>> /\ Len(s) \in Nat \ {0} /\ Last(s) = s[Len(s)]
               /\ Last(s) \in Baselines(i) /\ EntryIs(Last(s), i) /\ script.base = Last(s).base
               /\ script.left \subseteq InClass(i) /\ script.dels \subseteq InClass(i) /\ InClass(i) \subseteq Objects
               /\ \A o \in script.dels : script.base[o] = Void /\ F[o] = Void
               /\ \A o \in script.left : script.base[o] # Void
<1> DEFINE i == script.tool
           s == folder.stacks[i]
<1>1. i \in PushTools /\ script.on = "checked"
    BY RestIsVoid DEF CopyTypes, ScriptTyped, FirstOrCopy
<1>2. /\ s \in Seq(Baselines(i)) /\ s # <<>> /\ script.base = Last(s).base
      /\ script.left \subseteq InClass(i) /\ script.dels \subseteq InClass(i) /\ InClass(i) \subseteq Objects
    BY <1>1, ClassesApart DEF CopyTypes, FolderTyped, ScriptTyped, OldestFirst
<1>3. Len(s) \in Nat \ {0} /\ Last(s) = s[Len(s)] /\ Last(s) \in Baselines(i)
    BY <1>2, FrontOf
<1>4. EntryIs(Last(s), i)
    <2>1. Len(s) \in 1..Len(s)
        BY <1>3
    <2> QED
        BY <1>1, <1>3, <2>1 DEF FirstOrCopy
<1>5. (\A o \in script.dels : script.base[o] = Void) /\ \A o \in script.left : script.base[o] # Void
    BY DEF FirstOrCopy
<1>6. \A o \in script.dels : F[o] = Void
    BY <1>2, <1>4, <1>5, RestIsVoid DEF EntryIs
<1> QED
    BY <1>1, <1>2, <1>3, <1>4, <1>5, <1>6

LEMMA StraightDeleteOne == ASSUME CopyTypes, OldestFirst, Straight, NEW o, DeleteOne(o) PROVE Straight'
<1> DEFINE i == script.tool
           s == folder.stacks[i]
<1>1. /\ script.kind = "revert" /\ o \in script.dels /\ script.on \in Managers /\ i \in PushTools
      /\ UNCHANGED <<folder, source, alias, first, lost, tangled, met, scripts>> /\ script.on # Void
    BY DeleteOneIs, RestIsVoid
<1>2. CASE /\ UNCHANGED held
           /\ ScriptIs("revert", i, script.on, script.base, script.left, script.dels \ {o}, TRUE)
    <2>1. script'.dels \subseteq script.dels /\ script'.dels = script.dels \ {o}
        BY <1>2 DEF ScriptIs
    <2> QED
        BY <1>1, <1>2, <2>1, StraightCallFails DEF Steady
<1>3. CASE /\ held' = [held EXCEPT ![script.on] = [q \in Objects |-> IF q \in Falls(o) THEN Void ELSE @[q]]]
           /\ ScriptIs("revert", i, script.on, script.base, script.left, script.dels \ {o}, script.failed)
    <2>1. /\ script.on = "checked" /\ EntryIs(Last(s), i) /\ script.base = Last(s).base
          /\ script.left \subseteq InClass(i) /\ script.dels \subseteq InClass(i) /\ InClass(i) \subseteq Objects
          /\ script.base[o] = Void /\ F[o] = Void /\ \A q \in script.left : script.base[q] # Void
        BY <1>1, RevertingIs DEF Straight
    <2>2. /\ \A q \in Objects : H'[q] = IF q \in Falls(o) THEN Void ELSE H[q]
          /\ held'["other"] = held["other"] /\ F' = F
        BY <1>1, <1>3, <2>1 DEF CopyTypes, H, F, Managers
    <2>3. \A q \in Falls(o) : F[q] = Void
        BY <2>1, FallenIsFirst
    <2>4. \A q \in InClass(i) : q \in Falls(o) => q = o
        BY <1>1, <2>1, FallsIs
    <2>5. o \in Falls(o)
        BY DEF Falls
    <2>6. FirstOrCopy'
        <3>1. \A j : Wanted(j)' = Wanted(j)
            BY <1>1 DEF Wanted
        <3> QED
            BY <1>1, <1>3, <2>2, <2>3, <3>1 DEF Straight, FirstOrCopy, EntryIs, ScriptIs
    <2>7. RevertDoes'
        <3> DEFINE c == ClassOf(i)
                   b == Last(s)
        <3> SUFFICES ASSUME ~script.failed, NEW q \in InClass(i)
                     PROVE  /\ b.base[q] = Void /\ (c \in {"groups", "rules"} => q \in b.pushed) =>
                                  q \in script'.dels \/ H'[q] = Void
                            /\ b.base[q] # Void /\ (c = "groups" => q \in b.pushed) =>
                                  q \in script'.left \/ H'[q] = b.base[q]
            BY <1>1, <1>3 DEF RevertDoes, ScriptIs
        <3>1. /\ b.base[q] = Void /\ (c \in {"groups", "rules"} => q \in b.pushed) => q \in script.dels \/ H[q] = Void
              /\ b.base[q] # Void /\ (c = "groups" => q \in b.pushed) => q \in script.left \/ H[q] = b.base[q]
            BY <1>1 DEF Straight, RevertDoes
        <3>2. q \in Objects /\ script'.left = script.left /\ script'.dels = script.dels \ {o}
            BY <1>3, <2>1 DEF ScriptIs
        <3>3. b.base[q] # Void => q \notin Falls(o)
            BY <2>1, <2>4
        <3>4. H'[q] = IF q \in Falls(o) THEN Void ELSE H[q]
            BY <2>2, <3>2
        <3> HIDE DEF c, b
        <3> QED
            BY <2>5, <3>1, <3>2, <3>3, <3>4
    <2>8. Grows
        BY <1>1, <1>3 DEF Grows, ScriptIs, Lost
    <2>9. \A q \in Objects : H'[q] = H[q] \/ HeldAccounted(q)
        BY <2>2, <2>3 DEF HeldAccounted
    <2>10. CopyRecords'
        BY <2>8, <2>9, GrowsRecords DEF Straight
    <2> QED
        BY <2>6, <2>7, <2>10 DEF Straight
<1> QED
    BY <1>2, <1>3, DeleteOneIs

LEMMA StraightRestoreOne == ASSUME CopyTypes, OldestFirst, Straight, NEW o, RestoreOne(o) PROVE Straight'
<1> DEFINE i == script.tool
           s == folder.stacks[i]
           b == Last(s)
<1>1. /\ script.kind = "revert" /\ o \in script.left /\ script.on \in Managers /\ i \in PushTools
      /\ UNCHANGED <<folder, source, alias, first, lost, tangled, met, scripts>> /\ script.on # Void
    BY RestoreOneIs, RestIsVoid
<1>2. CASE /\ UNCHANGED held
           /\ ScriptIs("revert", i, script.on, script.base, script.left \ {o}, script.dels, TRUE)
    <2>1. script'.left \subseteq script.left /\ script'.left = script.left \ {o}
        BY <1>2 DEF ScriptIs
    <2> QED
        BY <1>1, <1>2, <2>1, StraightCallFails DEF Steady
<1>3. CASE /\ held' = [held EXCEPT ![script.on][o] = script.base[o]]
           /\ ScriptIs("revert", i, script.on, script.base, script.left \ {o}, script.dels, script.failed)
    <2>1. /\ script.on = "checked" /\ EntryIs(b, i) /\ script.base = b.base
          /\ s \in Seq(Baselines(i)) /\ s # <<>> /\ Len(s) \in Nat \ {0} /\ b = s[Len(s)]
          /\ script.left \subseteq InClass(i) /\ InClass(i) \subseteq Objects
          /\ script.base[o] # Void
        BY <1>1, RevertingIs DEF Straight
    <2>2. o \in InClass(i) /\ o \in Objects /\ b.base[o] \in {F[o], "copy"}
        BY <1>1, <2>1 DEF EntryIs
    <2>3. /\ \A q \in Objects : H'[q] = IF q = o THEN b.base[o] ELSE H[q]
          /\ held'["other"] = held["other"] /\ F' = F
        BY <1>1, <1>3, <2>1, <2>2, HeldAfter
    <2>4. FirstOrCopy'
        <3>1. \A j : Wanted(j)' = Wanted(j)
            BY <1>1 DEF Wanted
        <3> QED
            BY <1>1, <1>3, <2>2, <2>3, <3>1 DEF Straight, FirstOrCopy, EntryIs, ScriptIs
    <2>5. RevertDoes'
        <3> DEFINE c == ClassOf(i)
        <3> SUFFICES ASSUME ~script.failed, NEW q \in InClass(i)
                     PROVE  /\ b.base[q] = Void /\ (c \in {"groups", "rules"} => q \in b.pushed) =>
                                  q \in script'.dels \/ H'[q] = Void
                            /\ b.base[q] # Void /\ (c = "groups" => q \in b.pushed) =>
                                  q \in script'.left \/ H'[q] = b.base[q]
            BY <1>1, <1>3 DEF RevertDoes, ScriptIs
        <3>1. /\ b.base[q] = Void /\ (c \in {"groups", "rules"} => q \in b.pushed) => q \in script.dels \/ H[q] = Void
              /\ b.base[q] # Void /\ (c = "groups" => q \in b.pushed) => q \in script.left \/ H[q] = b.base[q]
            BY <1>1 DEF Straight, RevertDoes
        <3>2. q \in Objects /\ script'.dels = script.dels /\ script'.left = script.left \ {o}
            BY <1>3, <2>1 DEF ScriptIs
        <3>3. b.base[q] = Void => q # o
            BY <2>1
        <3>4. H'[q] = IF q = o THEN b.base[o] ELSE H[q]
            BY <2>3, <3>2
        <3> HIDE DEF c, b
        <3> QED
            BY <3>1, <3>2, <3>3, <3>4
    <2>6. Grows
        BY <1>1, <1>3 DEF Grows, ScriptIs, Lost
    <2>7. HeldAccounted(o)
        <3>1. ASSUME NEW c \in 1..4, o \in InClass(c) PROVE folder'.stacks[c] # <<>>
            <4>1. i = c \/ i = c + 4
                BY <1>1, <2>2, <3>1, SameClass
            <4>2. c \in PushTools /\ (c = i \/ c < i)
                BY <4>1 DEF PushTools
            <4> QED
                BY <1>1, <2>1, <4>2 DEF OldestFirst
        <3>2. o \in InClass(2) => H'[o] = F[o]
            <4>1. o \in InClass(2) => i \in {2, 6}
                BY <1>1, <2>2, SameClass
            <4>2. o \in InClass(2) => o \in b.pushed
                BY <1>1, <4>1, ToolsAre DEF Straight, FirstOrCopy
            <4>3. o \in b.pushed => b.base[o] # "copy"
                BY <2>1 DEF EntryIs
            <4> QED
                BY <2>2, <2>3, <4>2, <4>3
        <3>3. ASSUME o \in InClass(4), F[o] = Void
              PROVE  Lost(o)' \/ Excused(o) \/ OnRecord(o, 4)' \/ OnRecord(o, 8)'
            <4>1. i \in {4, 8}
                BY <1>1, <2>2, <3>3, SameClass
            <4>2. Len(s) \in 1..Len(s) /\ s[Len(s)].base[o] = "copy"
                BY <2>1, <2>2, <3>3
            <4>3. \/ Lost(o) \/ Excused(o)
                  \/ \E m \in 1..(Len(s) - 1) : o \in s[m].pushed
                  \/ OnRecord(o, 4)
                BY <1>1, <3>3, <4>1, <4>2 DEF Straight, CopyRecords, RecordedBelow
            <4>4. \A m \in 1..(Len(s) - 1) : m \in 1..Len(s)
                BY <2>1
            <4>5. Lost(o) \/ Excused(o) \/ OnRecord(o, i) \/ OnRecord(o, 4)
                BY <4>3, <4>4 DEF OnRecord
            <4>6. Lost(o)' = Lost(o) /\ \A j : OnRecord(o, j)' = OnRecord(o, j)
                BY <1>1 DEF Lost, OnRecord
            <4> QED
                BY <4>1, <4>5, <4>6
        <3> QED
            BY <3>1, <3>2, <3>3 DEF HeldAccounted
    <2>8. CopyRecords'
        BY <2>3, <2>6, <2>7, GrowsRecords DEF Straight
    <2> QED
        BY <2>4, <2>5, <2>8 DEF Straight
<1> QED
    BY <1>2, <1>3, RestoreOneIs

\* A tool that has undone its last push: the baseline goes, and what it says
\* is what the manager holds.
LEMMA StraightPop ==
    ASSUME CopyTypes, OldestFirst, Straight, script.kind = "revert", script.on # Void, script.dels = {},
           script.left = {}, Steady, ~script.failed,
           Stack(script.tool, Front(folder.stacks[script.tool])),
           ScriptIs("revert", script.tool, Void, script.base, {}, {}, FALSE)
    PROVE  Straight'
<1> DEFINE i == script.tool
           s == folder.stacks[i]
           b == Last(s)
           t == Front(s)
           n == Len(s)
<1>1. /\ i \in PushTools /\ script.on = "checked"
      /\ s \in Seq(Baselines(i)) /\ s # <<>> /\ n \in Nat \ {0} /\ b = s[n] /\ EntryIs(b, i)
      /\ InClass(i) \subseteq Objects
    BY RevertingIs DEF Straight
<1>2. /\ t \in Seq(Baselines(i)) /\ Len(t) = n - 1
      /\ (\A m \in 1..(n - 1) : t[m] = s[m])
      /\ (t = <<>> <=> n = 1)
    BY <1>1, FrontOf
<1> HIDE DEF t
<1>3. folder'.stacks[i] = t /\ \A j \in PushTools : j # i => folder'.stacks[j] = folder.stacks[j]
    BY DEF Stack, t
<1>4. /\ H' = H /\ F' = F /\ (\A j : Wanted(j)' = Wanted(j)) /\ (\A o : Lost(o)' = Lost(o))
      /\ \A o : Excused(o)' = Excused(o)
    BY DEF Steady, Stack, H, F, Wanted, Lost, Excused
<1>5. script'.kind = "revert" /\ script'.on = Void /\ script'.left = {} /\ script'.dels = {}
    BY DEF ScriptIs
<1>6. \A j \in PushTools : j > i => folder.stacks[j] = <<>>
    BY DEF OldestFirst
<1>7. \A m \in 1..(n - 1) : m \in 1..n
    BY <1>1
<1>8. FirstOrCopy'
    <2>1. \A m \in 1..Len(t) : EntryIs(t[m], i)
        BY <1>1, <1>2, <1>7 DEF Straight, FirstOrCopy
    <2>2. Stack(i, t) /\ UNCHANGED first
        BY DEF t, Steady
    <2>3. (\A j \in PushTools : \A m \in 1..Len(folder.stacks[j]) : EntryIs(folder.stacks[j][m], j))'
        BY <1>1, <2>1, <2>2, EntriesAre DEF Straight
    <2>4. held'["other"] = first'["other"] /\ \A o \in Objects : H'[o] \in {F'[o], "copy"}
        BY <1>4 DEF Straight, FirstOrCopy, Steady
    <2> QED
        BY <1>5, <2>3, <2>4 DEF FirstOrCopy
<1>9. RevertDoes'
    BY <1>5 DEF RevertDoes
\* What the tool leaves behind.
<1>10. ASSUME NEW o \in InClass(i)
       PROVE  /\ b.base[o] \in {F[o], "copy"}
              /\ o \in b.pushed => b.base[o] = F[o] /\ (ClassOf(i) = "rules" => b.base[o] = Void)
              /\ b.base[o] = Void /\ (ClassOf(i) \in {"groups", "rules"} => o \in b.pushed) => H[o] = Void
              /\ b.base[o] # Void /\ (ClassOf(i) = "groups" => o \in b.pushed) => H[o] = b.base[o]
    <2>1. /\ b.base[o] \in {F[o], "copy"}
          /\ o \in b.pushed => b.base[o] # "copy" /\ (ClassOf(i) = "rules" => b.base[o] = Void)
        BY <1>1 DEF EntryIs
    <2>2. /\ b.base[o] = Void /\ (ClassOf(i) \in {"groups", "rules"} => o \in b.pushed) => H[o] = Void
          /\ b.base[o] # Void /\ (ClassOf(i) = "groups" => o \in b.pushed) => H[o] = b.base[o]
        BY DEF Straight, RevertDoes
    <2> QED
        BY <2>1, <2>2
<1>11. \A o, j : j \in PushTools /\ OnRecord(o, j) => OnRecord(o, j)' \/ (j = i /\ o \in b.pushed)
    <2> SUFFICES ASSUME NEW o, NEW j \in PushTools, OnRecord(o, j)
                 PROVE  OnRecord(o, j)' \/ (j = i /\ o \in b.pushed)
        OBVIOUS
    <2>1. CASE j # i
        BY <1>3, <2>1 DEF OnRecord
    <2>2. CASE j = i
        <3>1. PICK m \in 1..n : o \in s[m].pushed
            BY <2>2 DEF OnRecord
        <3>2. CASE m = n
            BY <1>1, <2>2, <3>1, <3>2
        <3>3. CASE m # n
            <4>1. m \in 1..(n - 1) /\ m \in 1..Len(t)
                BY <1>1, <1>2, <3>1, <3>3
            <4>2. o \in t[m].pushed
                BY <1>2, <3>1, <4>1
            <4> QED
                BY <1>3, <2>2, <4>1, <4>2 DEF OnRecord
        <3> QED
            BY <3>2, <3>3
    <2> QED
        BY <2>1, <2>2
<1>12. \A j \in PushTools : j > i => \A o : ~OnRecord(o, j)
    BY <1>6 DEF OnRecord
<1>13. \A c \in 1..8 : c \in PushTools
    BY DEF PushTools
<1>14. GroupsRecorded'
    <2> SUFFICES ASSUME NEW o \in InClass(2)
                 PROVE  H[o] = F[o] \/ Lost(o) \/ OnRecord(o, 2)' \/ OnRecord(o, 6)'
        BY <1>4 DEF GroupsRecorded
    <2>1. H[o] = F[o] \/ Lost(o) \/ OnRecord(o, 2) \/ OnRecord(o, 6)
        BY DEF Straight, CopyRecords, GroupsRecorded
    <2>2. i \in {2, 6} /\ o \in b.pushed => H[o] = F[o]
        <3>1. i \in {2, 6} => ClassOf(i) = "groups" /\ o \in InClass(i)
            BY <1>1, <1>13, ToolsAre, ClassesApart
        <3> QED
            BY <1>10, <3>1
    <2> QED
        BY <1>11, <1>13, <2>1, <2>2
<1>15. RulesRecorded'
    <2> SUFFICES ASSUME NEW o \in InClass(4), F[o] = Void
                 PROVE  H[o] = Void \/ Lost(o) \/ Excused(o) \/ OnRecord(o, 4)' \/ OnRecord(o, 8)'
        BY <1>4 DEF RulesRecorded
    <2>1. H[o] = Void \/ Lost(o) \/ Excused(o) \/ OnRecord(o, 4) \/ OnRecord(o, 8)
        BY DEF Straight, CopyRecords, RulesRecorded
    <2>2. i \in {4, 8} /\ o \in b.pushed => H[o] = Void
        <3>1. i \in {4, 8} => ClassOf(i) = "rules" /\ o \in InClass(i)
            BY <1>1, <1>13, ToolsAre, ClassesApart
        <3> QED
            BY <1>10, <3>1
    <2> QED
        BY <1>11, <1>13, <2>1, <2>2
<1>16. OldestIsFirst'
    <2> SUFFICES ASSUME NEW c \in {1, 3, 4}, folder'.stacks[c] # <<>>, NEW o \in InClass(c)
                 PROVE  folder'.stacks[c][1].base[o] = F[o] \/ Lost(o) \/ Excused(o)
        BY <1>4 DEF OldestIsFirst
    <2>1. folder.stacks[c] # <<>> /\ folder'.stacks[c][1] = folder.stacks[c][1]
        <3>1. CASE c = i
            <4>1. 1 \in 1..(n - 1)
                BY <1>1, <1>2, <1>3, <3>1
            <4> QED
                BY <1>1, <1>2, <1>3, <3>1, <4>1
        <3>2. CASE c # i
            BY <1>3, <1>13, <3>2
        <3> QED
            BY <3>1, <3>2
    <2> QED
        BY <2>1 DEF Straight, CopyRecords, OldestIsFirst
<1>17. RecordedBelow'
    <2> SUFFICES ASSUME NEW k \in {4, 8}, NEW m \in 1..Len(folder'.stacks[k]), NEW o \in InClass(4),
                        F[o] = Void, folder'.stacks[k][m].base[o] = "copy"
                 PROVE  \/ Lost(o) \/ Excused(o)
                        \/ \E l \in 1..(m - 1) : o \in folder'.stacks[k][l].pushed
                        \/ k = 8 /\ OnRecord(o, 4)'
        BY <1>4 DEF RecordedBelow
    <2>1. /\ m \in 1..Len(folder.stacks[k]) /\ folder.stacks[k][m].base[o] = "copy"
          /\ \A l \in 1..(m - 1) : folder'.stacks[k][l] = folder.stacks[k][l]
        <3>1. CASE k = i
            <4>1. m \in 1..(n - 1) /\ m \in 1..n
                BY <1>1, <1>2, <1>3, <3>1
            <4>2. \A l \in 1..(m - 1) : l \in 1..(n - 1)
                BY <1>1, <4>1
            <4> QED
                BY <1>2, <1>3, <3>1, <4>1, <4>2
        <3>2. CASE k # i
            <4>1. folder'.stacks[k] = folder.stacks[k]
                BY <1>3, <1>13, <3>2
            <4> QED
                BY <4>1
        <3> QED
            BY <3>1, <3>2
    <2>2. \/ Lost(o) \/ Excused(o)
          \/ \E l \in 1..(m - 1) : o \in folder.stacks[k][l].pushed
          \/ k = 8 /\ OnRecord(o, 4)
        BY <2>1 DEF Straight, CopyRecords, RecordedBelow
    <2>3. k = 8 /\ OnRecord(o, 4) => OnRecord(o, 4)'
        <3>1. k = 8 => i # 4
            <4> SUFFICES ASSUME k = 8, i = 4 PROVE FALSE
                OBVIOUS
            <4>1. folder.stacks[8] = <<>>
                BY <1>6, <1>13
            <4> QED
                BY <2>1, <4>1
        <3> QED
            BY <1>11, <1>13, <3>1
    <2> QED
        BY <2>1, <2>2, <2>3
<1>18. Settled'
    <2> SUFFICES ASSUME NEW c \in 1..4, folder'.stacks[c] = <<>>, NEW o \in InClass(c)
                 PROVE  H[o] = F[o] \/ Lost(o) \/ Excused(o)
        BY <1>4 DEF Settled
    <2>1. CASE c # i
        <3>1. folder.stacks[c] = <<>>
            BY <1>3, <1>13, <2>1
        <3> QED
            BY <3>1 DEF Straight, CopyRecords, Settled
    <2>2. CASE c = i
        <3>1. n = 1 /\ b = s[1]
            BY <1>1, <1>2, <1>3, <2>2
        <3>2. OnRecord(o, i) => o \in b.pushed
            BY <3>1 DEF OnRecord
        <3>3. c # 2 => b.base[o] = F[o] \/ Lost(o) \/ Excused(o)
            <4>1. c # 2 => c \in {1, 3, 4}
                OBVIOUS
            <4> QED
                BY <1>1, <2>2, <3>1, <4>1 DEF Straight, CopyRecords, OldestIsFirst
        <3>4. CASE c \in {1, 3}
            <4>1. ClassOf(i) \notin {"groups", "rules"}
                BY <2>2, <3>4, ToolsAre
            <4> QED
                BY <1>10, <2>2, <3>3, <3>4, <4>1
        <3>5. CASE c = 2
            <4>1. H[o] = F[o] \/ Lost(o) \/ OnRecord(o, 2) \/ OnRecord(o, 6)
                BY <3>5 DEF Straight, CopyRecords, GroupsRecorded
            <4>2. ~OnRecord(o, 6)
                BY <1>12, <1>13, <2>2, <3>5
            <4>3. o \in b.pushed => H[o] = F[o]
                BY <1>10, <2>2
            <4> QED
                BY <2>2, <3>2, <3>5, <4>1, <4>2, <4>3
        <3>6. CASE c = 4
            <4>1. ClassOf(i) = "rules"
                BY <2>2, <3>6, ToolsAre
            <4>2. CASE F[o] = Void
                <5>1. H[o] = Void \/ Lost(o) \/ Excused(o) \/ OnRecord(o, 4) \/ OnRecord(o, 8)
                    BY <3>6, <4>2 DEF Straight, CopyRecords, RulesRecorded
                <5>2. ~OnRecord(o, 8)
                    BY <1>12, <1>13, <2>2, <3>6
                <5>3. o \in b.pushed => H[o] = Void
                    BY <1>10, <2>2, <4>1
                <5> QED
                    BY <2>2, <3>2, <3>6, <4>2, <5>1, <5>2, <5>3
            <4>3. CASE F[o] # Void
                BY <1>10, <2>2, <3>3, <3>6, <4>1, <4>3
            <4> QED
                BY <4>2, <4>3
        <3> QED
            BY <3>4, <3>5, <3>6
    <2> QED
        BY <2>1, <2>2
<1> QED
    BY <1>8, <1>9, <1>14, <1>15, <1>16, <1>17, <1>18 DEF Straight, CopyRecords

LEMMA StraightNext ==
    ASSUME CopyTypes, OldestFirst, Straight, [CriticalNext]_criticalVars, ~tangled' PROVE Straight'
<1>1. CASE UNCHANGED criticalVars
    BY <1>1, StraightStays DEF criticalVars
<1>2. CASE Stats \/ PullSource
    <2>1. /\ UNCHANGED <<held, first, lost, met, script, scripts>>
          /\ folder'.stacks = folder.stacks
          /\ folder'.bundles = folder.bundles \/ folder.pull = Void
        BY <1>2 DEF Stats, PullSource, CopyTypes, FolderTyped
    <2>2. folder.pull = Void => scripts = 0
        <3>1. scripts > 0 => folder.pull = "ok"
            BY DEF OldestFirst
        <3> QED
            BY <3>1 DEF CopyTypes, Void
    <2> QED
        BY <1>2, <2>1, <2>2, StraightStays
<1>3. CASE SourceChanges \/ NameMoves
    <2>1. UNCHANGED <<held, first, lost, met, script, scripts, folder>>
        BY <1>3 DEF SourceChanges, NameMoves
    <2> QED
        BY <2>1, StraightStays
<1>4. CASE \E allowed \in BOOLEAN : PushBegins(allowed)
    <2>1. /\ script.kind = Void /\ scripts' = scripts + 1 /\ Outcome(Void) /\ UNCHANGED <<held, first, lost, met>>
          /\ ScriptIs("push", 1, Void, script'.base, {}, {}, FALSE)
        BY <1>4, PushBeginsIs
    <2> QED
        BY <2>1, StraightStays DEF Outcome
<1>5. CASE RevertBegins
    <2>1. /\ script.kind = Void /\ scripts' = scripts + 1 /\ Outcome(Void) /\ UNCHANGED <<held, first, lost, met>>
          /\ ScriptIs("revert", 8, Void, script'.base, {}, {}, FALSE)
        BY <1>5, RevertBeginsIs
    <2> QED
        BY <2>1, StraightStays DEF Outcome
<1>6. CASE Verify
    <2>1. /\ UNCHANGED <<held, first, lost, met, script>> /\ scripts' = scripts + 1 /\ script.kind = Void
          /\ folder'.stacks = folder.stacks /\ folder'.bundles = folder.bundles
        BY <1>6 DEF Verify, Starts, CopyTypes, FolderTyped
    <2> QED
        BY <2>1, StraightStays
<1>7. CASE ToolBegins
    BY <1>7, StraightToolBegins
<1>8. CASE ToolDone
    <2>1. script.kind = "push" /\ Steady
        BY <1>8, ToolDoneIs
    <2>2. CASE \E out \in {"pushed", "push failed", Void} : Outcome(out) /\ NoneRuns
        BY <2>1, <2>2, StraightStays DEF Outcome, Steady
    <2>3. CASE UNCHANGED folder /\ ScriptIs("push", script.tool + 1, Void, script.base, {}, {}, script.failed)
        BY <2>1, <2>3, StraightStays DEF Steady
    <2> QED
        BY <1>8, <2>2, <2>3, ToolDoneIs
<1>9. CASE NextTool
    <2>1. script.kind = "revert" /\ Steady
        BY <1>9, NextToolIs
    <2>2. CASE Outcome("reverted") /\ NoneRuns
        BY <2>1, <2>2, StraightStays DEF Outcome, Steady
    <2>3. CASE UNCHANGED folder /\ ScriptIs("revert", script.tool - 1, Void, script.base, {}, {}, script.failed)
        BY <2>1, <2>3, StraightStays DEF Steady
    <2> QED
        BY <1>9, <2>2, <2>3, NextToolIs
<1>10. CASE RevertTool
    BY <1>10, StraightRevertTool
<1>11. CASE RevertDone
    <2>1. script.kind = "revert" /\ script.on # Void /\ script.dels = {} /\ script.left = {} /\ Steady
        BY <1>11, RevertDoneIs
    <2>2. CASE \E out \in {"revert failed", Void} : Outcome(out) /\ NoneRuns
        BY <2>1, <2>2, StraightStays DEF Outcome, Steady
    <2>3. CASE /\ ~script.failed /\ Stack(script.tool, Front(folder.stacks[script.tool]))
               /\ ScriptIs("revert", script.tool, Void, script.base, {}, {}, FALSE)
        BY <2>1, <2>3, StraightPop
    <2> QED
        BY <1>11, <2>2, <2>3, RevertDoneIs
<1>12. CASE PushDies
    BY <1>12, StraightPushDies
<1>13. CASE RevertDies
    <2>1. UNCHANGED <<held, first, lost, met, folder, scripts>> /\ NoneRuns
        BY <1>13 DEF RevertDies, NoScript, NoneRuns, ScriptIs
    <2> QED
        BY <2>1, StraightStays
<1>14. ASSUME NEW o \in Objects, WriteOne(o) \/ DeleteOne(o) \/ RestoreOne(o) \/ CallFails(o) PROVE Straight'
    <2>1. CASE CallFails(o)
        <3>1. UNCHANGED folder /\ Steady
            BY <2>1, CallFailsIs
        <3>2. CASE ScriptIs(script.kind, script.tool, script.on, script.base, script.left, script.dels \ {o}, TRUE)
            <4>1. script'.dels = script.dels \ {o}
                BY <3>2 DEF ScriptIs
            <4> QED
                BY <3>1, <3>2, <4>1, StraightCallFails
        <3>3. CASE ScriptIs(script.kind, script.tool, script.on, script.base, script.left \ {o}, script.dels, TRUE)
            <4>1. script'.left = script.left \ {o}
                BY <3>3 DEF ScriptIs
            <4> QED
                BY <3>1, <3>3, <4>1, StraightCallFails
        <3> QED
            BY <2>1, <3>2, <3>3, CallFailsIs
    <2> QED
        BY <1>14, <2>1, StraightWriteOne, StraightDeleteOne, StraightRestoreOne
<1> QED
    BY <1>1, <1>2, <1>3, <1>4, <1>5, <1>6, <1>7, <1>8, <1>9, <1>10, <1>11, <1>12, <1>13, <1>14 DEF CriticalNext

-----------------------------------------------------------------------------
(* The theorems.                                                            *)

LEMMA CopyInvNext == ASSUME CopyInv, [CriticalNext]_criticalVars PROVE CopyInv'
<1>1. CopyTypes /\ OldestFirst
    BY DEF CopyInv
<1>2. CopyTypes' /\ OldestFirst'
    BY <1>1, CopyTypesNext, OldestFirstNext
<1>3. ASSUME ~tangled' PROVE Straight'
    <2>1. ~tangled
        BY <1>1, <1>3, TangledStays
    <2> QED
        BY <1>1, <1>3, <2>1, StraightNext DEF CopyInv, Straight
<1> QED
    BY <1>2, <1>3 DEF CopyInv, Straight

LEMMA CopyInvAlways == CriticalSpec => []CopyInv
<1>1. CriticalInit => CopyInv
    BY CopyTypesInit, OldestFirstInit, FirstOrCopyInit DEF CopyInv
<1>2. CopyInv /\ [CriticalNext]_criticalVars => CopyInv'
    BY CopyInvNext
<1> QED
    BY <1>1, <1>2, PTL DEF CriticalSpec

LEMMA CopyReturns == ASSUME CopyInv PROVE RevertReturns
<1>1. ASSUME script.kind = Void, ~tangled, \A i \in PushTools : folder.stacks[i] = <<>>,
             NEW h \in Managers, NEW o \in Objects
      PROVE  held[h][o] = first[h][o] \/ <<h, o>> \in lost \cup met
    <2>1. CASE h = "other"
        BY <1>1, <2>1 DEF CopyInv, FirstOrCopy
    <2>2. CASE h = "checked"
        <3>1. PICK c \in 1..4 : o \in InClass(c)
            BY ClassesApart
        <3>2. folder.stacks[c] = <<>>
            BY <1>1 DEF PushTools
        <3>3. H[o] = F[o] \/ Lost(o) \/ Excused(o)
            BY <1>1, <3>1, <3>2 DEF CopyInv, CopyRecords, Settled
        <3> QED
            BY <2>2, <3>3 DEF H, F, Lost, Excused
    <2> QED
        BY <2>1, <2>2 DEF Managers
<1>2. folder.outcome = "reverted" => \A i \in PushTools : folder.stacks[i] = <<>>
    <2> SUFFICES ASSUME folder.outcome = "reverted", NEW i \in PushTools, folder.stacks[i] # <<>> PROVE FALSE
        OBVIOUS
    <2>1. folder.stacks[1] = <<>> /\ 1 \in PushTools
        BY DEF CopyInv, OldestFirst, PushTools
    <2>2. i # 1 /\ 1 < i
        BY <2>1 DEF PushTools
    <2> QED
        BY <2>1, <2>2 DEF CopyInv, OldestFirst
<1> QED
    BY <1>1, <1>2 DEF RevertReturns

\* The managers hold what they held at first or copies, what the run folder
\* has of each tool is a stack of baselines over that tool's objects, and a
\* script has the fields its kind and its tool give it.
THEOREM CriticalTypeCorrect == CriticalSpec => []CopyTypes
<1>1. CopyInv => CopyTypes
    BY DEF CopyInv
<1> QED
    BY <1>1, CopyInvAlways, PTL

\* When no tool has a baseline left, both managers hold what they held at
\* first, but for what was written without a record and for the hit rules in
\* the baseline that an infra push of rules took although they were not there at
\* first (a push, or a push that stopped, had written them and no revert had
\* taken them away); and a revert that reports success leaves no baseline
\* (revert.py, main; critical_rules, step 3).
THEOREM RevertUndoesPushes == CriticalSpec => []RevertReturns
<1>1. CopyInv => RevertReturns
    BY CopyReturns
<1> QED
    BY <1>1, CopyInvAlways, PTL
=============================================================================
