-------------------------- MODULE RuleDeleteProofs --------------------------
(* What RuleDelete guarantees for any rules, policies, groups and bounds.   *)
EXTENDS RuleDelete, TLAPS

\* A tool that asks or deletes has an object in hand; the object it is about to
\* delete is the last of deleted.json; only one tool is at work.
InHand ==
    /\ de.pc \in {"ask", "delete"} => de.cur \in Objects
    /\ de.pc = "delete" => /\ deletedJson # <<>>
                           /\ Last(deletedJson).obj = de.cur /\ ~Last(deletedJson).restored
    /\ ud.pc = "ask" => ud.cur \in ud.left
    /\ ud.pc = "idle" => ud.left = {}
    /\ de.pc = "idle" \/ ud.pc = "idle"

TypeInv == TypeOK /\ InHand

-----------------------------------------------------------------------------
(* The values the actions build                                             *)

\* An idle tool has its type.
LEMMA IdleType == NoDelete \in Deleter /\ NoUndo \in Undoer
BY ConfigurationAssumption DEF NoDelete, NoUndo, Deleter, Undoer

\* What a DELETE does to each object.
LEMMA RemovedEffect ==
    ASSUME TypeOK, NEW o \in Objects, Removed(o)
    PROVE  /\ live' \in [Rules -> LiveRule]
           /\ policies' = policies \ {o} /\ groups' = groups \ {o}
           /\ moved' \subseteq moved
           /\ RemovedWith(o) \subseteq Objects /\ o \in RemovedWith(o)
           /\ \A r \in Rules : /\ live'[r].body = live[r].body
                               /\ r \in RemovedWith(o) => ~live'[r].there
                               /\ r \notin RemovedWith(o) => live'[r] = live[r]
<1>1. RemovedWith(o) \subseteq Objects /\ o \in RemovedWith(o)
    BY DEF RemovedWith, RulesIn, PresentRules, Objects
<1> QED
    BY <1>1 DEF TypeOK, Removed, LiveRule

\* What a re-creation does to each object.
LEMMA CreatedEffect ==
    ASSUME TypeOK, NEW e \in Entry, Created(e)
    PROVE  /\ live' \in [Rules -> LiveRule] /\ policies' \subseteq Policies /\ groups' \subseteq Groups
           /\ gone' = gone \ {e.obj} /\ lost' = lost \ {e.obj} /\ late' = late \ {e.obj}
           /\ \A r \in Rules : live'[r] = IF r = e.obj
                                          THEN [there |-> TRUE, body |-> e.body, disabled |-> TRUE]
                                          ELSE live[r]
BY DEF TypeOK, Created, LiveRule, Entry

\* Taking the last object out of deleted.json leaves the others.
LEMMA UnsaveEffect ==
    ASSUME TypeOK, deletedJson # <<>>, Unsave
    PROVE  /\ deletedJson' \in Seq(Entry)
           /\ DOMAIN deletedJson = 1..Len(deletedJson)
           /\ DOMAIN deletedJson' = DOMAIN deletedJson \ {Len(deletedJson)}
           /\ \A i \in DOMAIN deletedJson' : deletedJson'[i] = deletedJson[i]
BY DEF TypeOK, Unsave, Front

\* Saving an object adds it at the end.
LEMMA SaveEffect ==
    ASSUME TypeOK, NEW o \in Objects, NEW body \in Bodies, deletedJson' = Saved(o, body)
    PROVE  /\ deletedJson' \in Seq(Entry) /\ deletedJson' # <<>>
           /\ Len(deletedJson') = Len(deletedJson) + 1 /\ Len(deletedJson) \in Nat
           /\ DOMAIN deletedJson = 1..Len(deletedJson)
           /\ DOMAIN deletedJson' = DOMAIN deletedJson \cup {Len(deletedJson')}
           /\ \A i \in DOMAIN deletedJson : deletedJson'[i] = deletedJson[i]
           /\ Last(deletedJson') = [obj |-> o, body |-> body, restored |-> FALSE]
           /\ deletedJson'[Len(deletedJson')] = Last(deletedJson')
<1> DEFINE e == [obj |-> o, body |-> body, restored |-> FALSE]
<1>1. e \in Entry /\ deletedJson \in Seq(Entry) /\ deletedJson' = Append(deletedJson, e)
    BY DEF TypeOK, Saved, Entry
<1> HIDE DEF e
<1>2. Last(deletedJson') = e
    BY <1>1 DEF Last
<1> QED
    BY <1>1, <1>2 DEF e, Last

\* Marking an object restored changes nothing else.
LEMMA MarkEffect ==
    ASSUME TypeOK, NEW n \in DOMAIN deletedJson,
           deletedJson' = [deletedJson EXCEPT ![n].restored = TRUE]
    PROVE  /\ deletedJson' \in Seq(Entry) /\ DOMAIN deletedJson' = DOMAIN deletedJson
           /\ \A i \in DOMAIN deletedJson : i # n => deletedJson'[i] = deletedJson[i]
           /\ deletedJson'[n].obj = deletedJson[n].obj /\ deletedJson'[n].body = deletedJson[n].body
           /\ deletedJson'[n].restored
<1>1. deletedJson \in Seq(Entry) /\ deletedJson[n] \in Entry
    BY DEF TypeOK
<1>2. [deletedJson[n] EXCEPT !.restored = TRUE] \in Entry
    BY <1>1 DEF Entry
<1> QED
    BY <1>1, <1>2 DEF Entry

-----------------------------------------------------------------------------
(* Type correctness                                                         *)

\* The types hold at the start.
LEMMA TypeInit == Init => TypeInv
<1> SUFFICES ASSUME Init PROVE TypeInv
    OBVIOUS
<1>1. live \in [Rules -> LiveRule]
    <2> DEFINE First == [there: {TRUE}, body: {FirstBody}, disabled: BOOLEAN]
                        \cup [there: {FALSE}, body: {FirstBody}, disabled: {FALSE}]
    <2>1. \A x \in First : x \in LiveRule
        BY ConfigurationAssumption DEF LiveRule
    <2>2. live \in [Rules -> First]
        BY DEF Init
    <2> QED
        BY <2>1, <2>2
<1>2. de \in Deleter /\ ud \in Undoer
    BY IdleType DEF Init
<1>3. approved \in Plans /\ deletedJson \in Seq(Entry)
    BY DEF Init, Plans
<1>4. candidates \subseteq Rules /\ moved \subseteq Rules
    BY DEF Init
<1> QED
    BY <1>1, <1>2, <1>3, <1>4
    DEF Init, TypeInv, TypeOK, InHand, NoDelete, NoUndo

\* A step of step2_delete that only moves on keeps the types.
LEMMA DeleteFrame ==
    ASSUME TypeInv, UNCHANGED <<mgrVars, runVars, ud, before, gone, lost, late, edits>>,
           de' \in Deleter, de'.pc = "idle" \/ ud.pc = "idle",
           de'.pc = "ask" => de'.cur \in Objects, de'.pc # "delete",
           faults' \in Nat, starts' \in Nat, seen' \in [plan: SUBSET Rules, start: SUBSET Rules]
    PROVE  TypeInv'
BY DEF TypeInv, TypeOK, InHand, mgrVars, runVars

\* A step of step2_delete in which the object in hand goes, or comes out of the
\* record again, keeps the types.
LEMMA DeletedFrame ==
    ASSUME TypeInv, de.pc = "delete", UNCHANGED <<consumers, candidates, approved, ud, seen, edits, starts>>,
           Removed(de.cur) \/ UNCHANGED <<live, policies, groups, moved>>,
           Unsave \/ UNCHANGED deletedJson,
           gone' \subseteq gone \cup RemovedWith(de.cur), lost' \subseteq lost \cup {de.cur},
           late' \subseteq late,
           de' \in Deleter, de'.pc \in {"idle", "next"}, faults' \in Nat
    PROVE  TypeInv'
<1>1. TypeOK /\ de.cur \in Objects /\ deletedJson # <<>> /\ ud.pc = "idle" /\ ud.left = {}
    BY DEF TypeInv, InHand
<1>2. live' \in [Rules -> LiveRule] /\ policies' \subseteq Policies /\ groups' \subseteq Groups /\ moved' \subseteq Rules
    BY <1>1, RemovedEffect DEF TypeOK
<1>3. deletedJson' \in Seq(Entry)
    BY <1>1, UnsaveEffect DEF TypeOK
<1>4. gone' \subseteq Objects /\ lost' \subseteq Objects /\ late' \subseteq Rules
    BY <1>1 DEF TypeOK, RemovedWith, RulesIn, PresentRules, Objects
<1>5. de'.pc # "ask" /\ de'.pc # "delete"
    OBVIOUS
<1>6. InHand'
    BY <1>1, <1>5 DEF InHand
<1>7. TypeOK'
    BY <1>1, <1>2, <1>3, <1>4 DEF TypeOK
<1> QED
    BY <1>6, <1>7 DEF TypeInv

\* A step of step2_undo that only moves on keeps the types.
LEMMA UndoFrame ==
    ASSUME TypeInv, UNCHANGED <<mgrVars, runVars, de, histVars, edits>>,
           ud' \in Undoer, ud'.left \subseteq DOMAIN deletedJson, ud'.pc = "idle" \/ de.pc = "idle",
           ud'.pc = "ask" => ud'.cur \in ud'.left, ud'.pc = "idle" => ud'.left = {},
           faults' \in Nat, starts' \in Nat
    PROVE  TypeInv'
BY DEF TypeInv, TypeOK, InHand, mgrVars, runVars, histVars

\* A re-creation keeps the types.
LEMMA CreateFrame ==
    ASSUME TypeInv, ud.pc = "ask", Created(Now), UNCHANGED <<consumers, moved, candidates, approved, de, seen, edits, starts>>,
           deletedJson' = deletedJson \/ deletedJson' = [deletedJson EXCEPT ![ud.cur].restored = TRUE],
           ud' \in Undoer, ud'.left \subseteq ud.left, ud'.pc = "idle" => ud'.left = {}, ud'.pc # "ask",
           faults' \in Nat
    PROVE  TypeInv'
<1>1. TypeOK /\ de.pc = "idle" /\ ud.cur \in DOMAIN deletedJson /\ Now \in Entry
    <2>1. TypeOK /\ de.pc = "idle" /\ ud.cur \in DOMAIN deletedJson
        BY DEF TypeInv, InHand, TypeOK
    <2> QED
        BY <2>1 DEF TypeOK, Now
<1>2. deletedJson' \in Seq(Entry) /\ DOMAIN deletedJson' = DOMAIN deletedJson
    BY <1>1, MarkEffect DEF TypeOK
<1>3. /\ live' \in [Rules -> LiveRule] /\ policies' \subseteq Policies /\ groups' \subseteq Groups
      /\ gone' \subseteq gone /\ lost' \subseteq lost /\ late' \subseteq late
    BY <1>1, CreatedEffect
<1>4. ud'.left \subseteq DOMAIN deletedJson'
    BY <1>1, <1>2 DEF TypeOK
<1>5. TypeOK'
    BY <1>1, <1>2, <1>3, <1>4 DEF TypeOK
<1>6. InHand'
    BY <1>1 DEF InHand
<1> QED
    BY <1>5, <1>6 DEF TypeInv

\* What other people do keeps the types.
LEMMA OthersFrame ==
    ASSUME TypeInv, UNCHANGED <<approved, deletedJson, de, ud, seen, faults, starts>>,
           live' \in [Rules -> LiveRule], policies' \subseteq Policies, groups' \subseteq Groups,
           consumers' \subseteq Groups, moved' \subseteq Rules, candidates' \subseteq Rules,
           gone' \subseteq gone, lost' \subseteq lost, late' \subseteq Rules, edits' \in Nat
    PROVE  TypeInv'
BY DEF TypeInv, TypeOK, InHand

\* A step that leaves the manager, the run folder and what was deleted alone.
Quiet == UNCHANGED <<mgrVars, runVars, before, gone, lost, late, edits>>

\* The steps of step2_delete that write nothing.
DeleteQuiet ==
    \/ DeleteStart \/ RulesDone \/ PoliciesDone \/ DeleteFinish \/ DeleteStop \/ DeleteDies
    \/ \E r \in Rules : RuleSkip(r) \/ RuleRead(r)
    \/ \E p \in Policies : PolicySkip(p) \/ PolicyRead(p) \/ PolicyVanished(p)
    \/ \E g \in Groups : GroupSkip(g) \/ GroupRead(g)

\* The steps of step2_undo that write nothing.
UndoQuiet ==
    \/ UndoStart \/ UndoStop \/ UndoRefused \/ UndoFinish \/ UndoDies
    \/ \E i \in DOMAIN deletedJson : UndoSkip(i) \/ UndoRead(i)

\* They write nothing.
LEMMA QuietSteps ==
    /\ DeleteQuiet => Quiet /\ UNCHANGED ud
    /\ UndoQuiet => Quiet /\ UNCHANGED <<de, seen>>
<1>1. DeleteQuiet => Quiet /\ UNCHANGED ud
    BY DEF DeleteQuiet, Quiet, histVars, DeleteStart, RulesDone, PoliciesDone, DeleteFinish, DeleteStop, DeleteDies,
           RuleSkip, RuleRead, PolicySkip, PolicyRead, PolicyVanished, GroupSkip, GroupRead
<1>2. UndoQuiet => Quiet /\ UNCHANGED <<de, seen>>
    BY DEF UndoQuiet, Quiet, histVars, UndoStart, UndoStop, UndoRefused, UndoFinish, UndoDies, UndoSkip, UndoRead
<1> QED
    BY <1>1, <1>2

\* The steps, by what they write.
LEMMA StepKinds ==
    ASSUME [Next]_vars
    PROVE  \/ UNCHANGED vars \/ Plan \/ DeleteQuiet \/ UndoQuiet
           \/ DeleteSave \/ DeleteCall \/ DeleteRefused \/ DeleteMissing \/ DeleteFails \/ DeleteLost
           \/ UndoCreate \/ UndoLost
           \/ \E r \in Rules : Step1Undo(r) \/ SomeoneChangesRule(r) \/ SomeoneResetsCounters(r) \/ Traffic(r)
           \/ \E g \in Groups : SomeoneNames(g)
           \/ \E o \in Policies \cup Groups : SomeoneDeletes(o)
BY DEF Next, Tools, Others, DeleteStep, UndoStep, DeleteQuiet, UndoQuiet

\* step2_delete keeps the types when it writes nothing.
LEMMA TypeDeleteQuiet == TypeInv /\ DeleteQuiet => TypeInv'
<1> SUFFICES ASSUME TypeInv, DeleteQuiet PROVE TypeInv'
    OBVIOUS
<1>t. /\ de \in Deleter /\ approved \in Plans /\ candidates \subseteq Rules
      /\ faults \in Nat /\ starts \in Nat /\ live \in [Rules -> LiveRule] /\ moved \subseteq Rules
      /\ seen \in [plan: SUBSET Rules, start: SUBSET Rules]
      /\ de.pc = "idle" \/ ud.pc = "idle"
    BY DEF TypeInv, TypeOK, InHand
<1>u. Quiet /\ UNCHANGED ud
    BY QuietSteps
<1>g. GroupsToGo \subseteq Groups
    BY <1>t DEF GroupsToGo, Plans
<1>1. faults' \in Nat /\ starts' \in Nat /\ seen' \in [plan: SUBSET Rules, start: SUBSET Rules]
    <2>1. CASE DeleteStart
        BY <1>t, <2>1 DEF DeleteStart, Start, Shown
    <2>2. CASE ~DeleteStart
        <3>1. UNCHANGED <<seen, starts>> /\ (UNCHANGED faults \/ Fault)
            BY <2>2
            DEF DeleteQuiet, histVars, RulesDone, PoliciesDone, DeleteFinish, DeleteStop, DeleteDies,
                RuleSkip, RuleRead, PolicySkip, PolicyRead, PolicyVanished, GroupSkip, GroupRead
        <3> QED
            BY <1>t, <3>1 DEF Fault
    <2> QED
        BY <2>1, <2>2
<1>2. \/ de' = NoDelete
      \/ de.pc = "next" /\ de' = [de EXCEPT !.phase = "policies", !.left = approved.policies \cap policies]
      \/ de.pc = "next" /\ de' = [de EXCEPT !.phase = "groups", !.left = GroupsToGo]
      \/ \E o \in Objects : de.pc = "next" /\ de' = On(o)
      \/ \E o \in Objects, body \in Bodies : de.pc = "next" /\ Ask(o, body)
      \/ DeleteStart
    <2>1. \A r \in Rules : live[r].body \in Bodies
        BY <1>t DEF LiveRule
    <2> QED
        BY <2>1, ConfigurationAssumption
        DEF DeleteQuiet, RulesDone, PoliciesDone, DeleteFinish, DeleteStop, DeleteDies, Objects, InPhase,
            RuleSkip, RuleRead, PolicySkip, PolicyRead, PolicyVanished, GroupSkip, GroupRead
<1>3. /\ de' \in Deleter /\ de'.pc # "delete"
      /\ de'.pc = "ask" => de'.cur \in Objects
      /\ de'.pc = "idle" \/ ud.pc = "idle"
    <2>1. CASE de' = NoDelete
        BY <2>1, IdleType DEF NoDelete
    <2>2. CASE de.pc = "next" /\ de' = [de EXCEPT !.phase = "policies", !.left = approved.policies \cap policies]
        BY <2>2, <1>t DEF Deleter, Plans, Objects
    <2>3. CASE de.pc = "next" /\ de' = [de EXCEPT !.phase = "groups", !.left = GroupsToGo]
        BY <2>3, <1>t, <1>g DEF Deleter, Objects
    <2>4. ASSUME NEW o \in Objects, de.pc = "next" /\ de' = On(o)
          PROVE  de' \in Deleter /\ de'.pc = "next" /\ ud.pc = "idle"
        BY <2>4, <1>t, ConfigurationAssumption DEF Deleter, On
    <2>5. ASSUME NEW o \in Objects, NEW body \in Bodies, de.pc = "next" /\ Ask(o, body)
          PROVE  de' \in Deleter /\ de'.pc = "ask" /\ de'.cur \in Objects /\ ud.pc = "idle"
        BY <2>5, <1>t DEF Deleter, Ask
    <2>6. CASE DeleteStart
        <3>1. approved.rules \subseteq Objects
              /\ \A shown : RulesToDelete(candidates, shown) \subseteq Rules
            BY <1>t DEF RulesToDelete, Plans, Objects
        <3>2. PICK missing \in SUBSET candidates :
                  de' = [NoDelete EXCEPT !.pc = "next", !.left = approved.rules,
                                         !.ok = RulesToDelete(candidates, Shown(missing))]
            BY <2>6 DEF DeleteStart
        <3>3. ud.pc = "idle"
            BY <2>6 DEF DeleteStart, Idle
        <3> QED
            BY <3>1, <3>2, <3>3, ConfigurationAssumption DEF Deleter, NoDelete
    <2> QED
        BY <1>2, <2>1, <2>2, <2>3, <2>4, <2>5, <2>6
<1> QED
    BY <1>u, <1>1, <1>3, DeleteFrame DEF Quiet

\* step2_undo keeps the types when it writes nothing.
LEMMA TypeUndoQuiet == TypeInv /\ UndoQuiet => TypeInv'
<1> SUFFICES ASSUME TypeInv, UndoQuiet PROVE TypeInv'
    OBVIOUS
<1>t. /\ ud \in Undoer /\ deletedJson \in Seq(Entry) /\ ud.left \subseteq DOMAIN deletedJson
      /\ faults \in Nat /\ starts \in Nat
      /\ de.pc = "idle" \/ ud.pc = "idle"
    BY DEF TypeInv, TypeOK, InHand
<1>u. Quiet /\ UNCHANGED <<de, seen>>
    BY QuietSteps
<1>1. faults' \in Nat /\ starts' \in Nat
    <2>1. \/ UNCHANGED <<faults, starts>>
          \/ Fault /\ UNCHANGED starts
          \/ starts' = starts + 1 /\ UNCHANGED faults
        BY DEF UndoQuiet, Start, UndoStart, UndoStop, UndoRefused, UndoFinish, UndoDies, UndoSkip, UndoRead
    <2> QED
        BY <1>t, <2>1 DEF Fault
<1>2. /\ ud' \in Undoer /\ ud'.left \subseteq DOMAIN deletedJson
      /\ ud'.pc = "ask" => ud'.cur \in ud'.left
      /\ ud'.pc = "idle" => ud'.left = {}
      /\ ud'.pc = "idle" \/ de.pc = "idle"
    <2>1. CASE ud' = NoUndo
        BY <2>1, IdleType DEF NoUndo
    <2>2. CASE UndoStart
        <3>1. Pending \subseteq DOMAIN deletedJson /\ DOMAIN deletedJson \subseteq Nat
            BY <1>t DEF Pending
        <3> QED
            BY <2>2, <3>1 DEF UndoStart, Idle, NoUndo, Undoer
    <2>3. ASSUME NEW i \in DOMAIN deletedJson, UndoSkip(i)
          PROVE  /\ ud' \in Undoer /\ ud'.pc = "next" /\ ud'.left \subseteq ud.left /\ de.pc = "idle"
        BY <2>3, <1>t DEF UndoSkip, UndoNext, Undoer
    <2>4. ASSUME NEW i \in DOMAIN deletedJson, UndoRead(i)
          PROVE  /\ ud' \in Undoer /\ ud'.pc = "ask" /\ ud'.left = ud.left /\ ud'.cur = i
                 /\ i \in ud.left /\ de.pc = "idle"
        BY <2>4, <1>t DEF UndoRead, RestoreFirst, Undoer
    <2> QED
        BY <1>t, <2>1, <2>2, <2>3, <2>4
        DEF UndoQuiet, UndoStop, UndoRefused, UndoFinish, UndoDies
<1> QED
    <2>1. UNCHANGED <<mgrVars, runVars, de, histVars, edits>>
        BY <1>u DEF Quiet, histVars
    <2> QED
        BY <1>1, <1>2, <2>1, UndoFrame

\* The writes of both tools keep the types.
LEMMA TypeWrites ==
    ASSUME TypeInv,
           \/ DeleteSave \/ DeleteCall \/ DeleteRefused \/ DeleteMissing \/ DeleteFails \/ DeleteLost
           \/ UndoCreate \/ UndoLost
    PROVE  TypeInv'
<1>t. /\ TypeOK /\ de \in Deleter /\ ud \in Undoer /\ faults \in Nat
      /\ de.pc \in {"ask", "delete"} => de.cur \in Objects /\ ud.pc = "idle" /\ ud.left = {}
    BY DEF TypeInv, TypeOK, InHand
<1>f. Fault => faults' \in Nat
    BY <1>t DEF Fault
<1>n. /\ On(de.cur) \in Deleter /\ [On(de.cur) EXCEPT !.wrote = TRUE] \in Deleter
      /\ On(de.cur).pc = "next" /\ [On(de.cur) EXCEPT !.wrote = TRUE].pc = "next"
      /\ NoDelete \in Deleter /\ NoDelete.pc = "idle"
    BY <1>t, IdleType, ConfigurationAssumption DEF On, Deleter, NoDelete
<1>1. CASE DeleteSave
    <2>1. de.body \in Bodies /\ de.cur \in Objects
        BY <1>1, <1>t DEF DeleteSave, Deleter
    <2>2. /\ deletedJson' \in Seq(Entry) /\ deletedJson' # <<>>
          /\ Last(deletedJson').obj = de.cur /\ ~Last(deletedJson').restored
        <3>1. deletedJson' = Saved(de.cur, de.body)
            BY <1>1 DEF DeleteSave
        <3>2. /\ deletedJson' \in Seq(Entry) /\ deletedJson' # <<>>
              /\ Last(deletedJson') = [obj |-> de.cur, body |-> de.body, restored |-> FALSE]
            BY <1>t, <2>1, <3>1, SaveEffect
        <3> QED
            BY <3>2
    <2>3. de' \in Deleter /\ de'.pc = "delete" /\ de'.cur = de.cur
        BY <1>1, <1>t DEF DeleteSave, Deleter
    <2>4. TypeOK'
        BY <1>1, <1>t, <2>2, <2>3 DEF DeleteSave, TypeOK, mgrVars, histVars
    <2>5. InHand'
        BY <1>1, <1>t, <2>1, <2>2, <2>3 DEF DeleteSave, InHand
    <2> QED
        BY <2>4, <2>5 DEF TypeInv
<1>2. CASE DeleteCall
    BY <1>2, <1>t, <1>n, DeletedFrame DEF DeleteCall, runVars
<1>3. CASE DeleteRefused
    BY <1>3, <1>t, <1>n, DeletedFrame DEF DeleteRefused, mgrVars, histVars
<1>4. CASE DeleteMissing
    BY <1>4, <1>t, <1>n, DeletedFrame DEF DeleteMissing, mgrVars, histVars
<1>5. CASE DeleteFails
    BY <1>5, <1>f, <1>n, DeletedFrame DEF DeleteFails, mgrVars, histVars
<1>6. CASE DeleteLost
    BY <1>6, <1>f, <1>n, DeletedFrame DEF DeleteLost
<1>7. CASE UndoCreate
    <2>1. ud' \in Undoer /\ ud'.left \subseteq ud.left /\ ud'.pc = "next"
        BY <1>7, <1>t DEF UndoCreate, UndoNext, Undoer
    <2> QED
        BY <1>7, <1>t, <2>1, CreateFrame DEF UndoCreate
<1>8. CASE UndoLost
    <2>1. ud' \in Undoer /\ ud'.left = {} /\ ud'.pc = "idle"
        BY <1>8, IdleType DEF UndoLost, NoUndo
    <2> QED
        BY <1>8, <1>f, <2>1, CreateFrame DEF UndoLost, runVars
<1> QED
    BY <1>1, <1>2, <1>3, <1>4, <1>5, <1>6, <1>7, <1>8

\* Other people's writes keep the types.
LEMMA TypeOthers ==
    ASSUME TypeInv,
           \/ \E r \in Rules : Step1Undo(r) \/ SomeoneChangesRule(r) \/ SomeoneResetsCounters(r) \/ Traffic(r)
           \/ \E g \in Groups : SomeoneNames(g)
           \/ \E o \in Policies \cup Groups : SomeoneDeletes(o)
    PROVE  TypeInv'
<1>t. /\ TypeOK /\ live \in [Rules -> LiveRule] /\ policies \subseteq Policies /\ groups \subseteq Groups
      /\ consumers \subseteq Groups /\ moved \subseteq Rules /\ candidates \subseteq Rules
      /\ edits \in Nat /\ late \subseteq Rules
    BY DEF TypeInv, TypeOK
<1>e. Edit => edits' \in Nat
    BY <1>t DEF Edit
<1>1. ASSUME NEW r \in Rules, Step1Undo(r) PROVE TypeInv'
    <2>1. live' \in [Rules -> LiveRule]
        BY <1>1, <1>t DEF Step1Undo, LiveRule
    <2> QED
        BY <1>1, <1>t, <1>e, <2>1, OthersFrame DEF Step1Undo, histVars
<1>2. ASSUME NEW r \in Rules, SomeoneChangesRule(r) PROVE TypeInv'
    <2>1. live' \in [Rules -> LiveRule] /\ moved' \subseteq Rules /\ late' \subseteq Rules
        BY <1>2, <1>t DEF SomeoneChangesRule
    <2> QED
        BY <1>2, <1>t, <1>e, <2>1, OthersFrame DEF SomeoneChangesRule, runVars
<1>3. ASSUME NEW r \in Rules, SomeoneResetsCounters(r) \/ Traffic(r) PROVE TypeInv'
    BY <1>3, <1>t, <1>e, OthersFrame DEF SomeoneResetsCounters, Traffic, runVars, histVars
<1>4. ASSUME NEW g \in Groups, SomeoneNames(g) PROVE TypeInv'
    BY <1>4, <1>t, <1>e, OthersFrame DEF SomeoneNames, runVars, histVars
<1>5. ASSUME NEW o \in Policies \cup Groups, SomeoneDeletes(o) PROVE TypeInv'
    <2>1. o \in Objects
        BY DEF Objects
    <2>2. live' \in [Rules -> LiveRule] /\ policies' \subseteq Policies /\ groups' \subseteq Groups /\ moved' \subseteq Rules
        BY <1>5, <1>t, <2>1, RemovedEffect DEF SomeoneDeletes
    <2> QED
        BY <1>5, <1>t, <1>e, <2>2, OthersFrame DEF SomeoneDeletes, runVars, histVars
<1> QED
    BY <1>1, <1>2, <1>3, <1>4, <1>5

\* Every step keeps the types.
LEMMA TypeNext == TypeInv /\ [Next]_vars => TypeInv'
<1> SUFFICES ASSUME TypeInv, [Next]_vars PROVE TypeInv'
    OBVIOUS
<1>1. CASE UNCHANGED vars
    BY <1>1 DEF vars, TypeInv, TypeOK, InHand
<1>2. CASE Plan
    <2>1. approved' \in Plans /\ seen' \in [plan: SUBSET Rules, start: SUBSET Rules]
        <3>1. /\ \A shown : RulesToDelete(candidates, shown) \subseteq Rules
              /\ \A del : PoliciesToDelete(del) \subseteq Policies /\ GroupsToDelete(del) \subseteq Groups
              /\ moved \subseteq Rules
            BY DEF TypeInv, TypeOK, RulesToDelete, PoliciesToDelete, GroupsToDelete
        <3>2. PICK missing \in SUBSET candidates :
                  /\ approved' = [made |-> TRUE, rules |-> RulesToDelete(candidates, Shown(missing)),
                                  policies |-> PoliciesToDelete(RulesToDelete(candidates, Shown(missing))),
                                  groups |-> GroupsToDelete(RulesToDelete(candidates, Shown(missing)))]
                  /\ seen' = [plan |-> Shown(missing), start |-> {}]
            BY <1>2 DEF Plan
        <3> QED
            BY <3>1, <3>2 DEF Plans, Shown
    <2> QED
        BY <1>2, <2>1 DEF Plan, TypeInv, TypeOK, InHand, mgrVars
<1> QED
    BY <1>1, <1>2, StepKinds, TypeDeleteQuiet, TypeUndoQuiet, TypeWrites, TypeOthers

\* Every variable of step 2 and its undo has its type in every reachable state
\* (rule_cleanup.py, step2_delete.py, step2_undo.py).
THEOREM TypeCorrect == Spec => []TypeOK
<1>1. Spec => []TypeInv
    BY TypeInit, TypeNext, PTL DEF Spec
<1> QED
    BY <1>1, PTL DEF TypeInv

-----------------------------------------------------------------------------
(* The record                                                               *)

\* What the tool deleted is off the manager, and what it is about to delete is
\* not among that: the record holds all of it, the last entry aside.  A policy it
\* has in hand holds only rules created there since.
RecordInv ==
    /\ TypeInv
    /\ gone \cap Present = {}
    /\ de.pc \in {"ask", "delete"} => de.cur \notin gone
    /\ \A p \in Policies : HasInHand(p) => RulesIn(p) \subseteq late
    /\ DeletedIsRecorded

\* What a DELETE leaves on the manager.
LEMMA RemovedPresent ==
    ASSUME TypeOK, NEW o \in Objects, Removed(o)
    PROVE  Present' = Present \ RemovedWith(o)
<1>1. /\ policies' = policies \ {o} /\ groups' = groups \ {o}
      /\ \A r \in Rules : /\ r \in RemovedWith(o) => ~live'[r].there
                          /\ r \notin RemovedWith(o) => live'[r] = live[r]
    BY RemovedEffect
<1>2. PresentRules' = PresentRules \ RemovedWith(o)
    BY <1>1 DEF PresentRules
<1>3. RemovedWith(o) \ {o} \subseteq Rules /\ o \in RemovedWith(o)
    BY DEF RemovedWith, RulesIn, PresentRules
<1>4. policies \cap Rules = {} /\ groups \cap Rules = {}
    BY ObjectsAssumption DEF TypeOK
<1> QED
    BY <1>1, <1>2, <1>3, <1>4 DEF Present

\* What a re-creation adds to the manager.
LEMMA CreatedPresent ==
    ASSUME TypeOK, NEW e \in Entry, Created(e)
    PROVE  Present' = Present \cup {e.obj}
<1>1. ASSUME NEW r \in Rules PROVE live'[r].there <=> (r = e.obj \/ live[r].there)
    <2>1. live'[r] = IF r = e.obj THEN [there |-> TRUE, body |-> e.body, disabled |-> TRUE] ELSE live[r]
        BY CreatedEffect
    <2>2. CASE r = e.obj
        BY <2>1, <2>2
    <2>3. CASE r # e.obj
        BY <2>1, <2>3
    <2> QED
        BY <2>2, <2>3
<1>2. PresentRules' = PresentRules \cup ({e.obj} \cap Rules)
    BY <1>1 DEF PresentRules
<1>3. /\ policies' = policies \cup ({e.obj} \cap Policies)
      /\ groups' = groups \cup ({e.obj} \cap Groups)
    BY DEF Created
<1>4. e.obj \in Rules \cup Policies \cup Groups
    BY DEF Entry, Objects
<1> QED
    BY <1>2, <1>3, <1>4 DEF Present

\* The record that is left when the last object is taken out again.
LEMMA UnsavePending ==
    ASSUME TypeInv, de.pc = "delete", Unsave
    PROVE  /\ Pending' = Pending \ {Len(deletedJson)}
           /\ Len(deletedJson) \in Pending /\ deletedJson[Len(deletedJson)].obj = de.cur
           /\ \A i \in DOMAIN deletedJson' : deletedJson'[i] = deletedJson[i]
           /\ DOMAIN deletedJson' \subseteq DOMAIN deletedJson
<1>1. /\ TypeOK /\ deletedJson # <<>> /\ deletedJson \in Seq(Entry)
      /\ Last(deletedJson).obj = de.cur /\ ~Last(deletedJson).restored
    BY DEF TypeInv, InHand, TypeOK
<1>2. Len(deletedJson) \in DOMAIN deletedJson /\ Last(deletedJson) = deletedJson[Len(deletedJson)]
    BY <1>1 DEF Last
<1> QED
    BY <1>1, <1>2, UnsaveEffect DEF Pending

\* The record when an object is added.
LEMMA SavePending ==
    ASSUME TypeInv, DeleteSave
    PROVE  LET n == Len(deletedJson') IN
           /\ Pending' = Pending \cup {n} /\ n \notin DOMAIN deletedJson
           /\ DOMAIN deletedJson' = DOMAIN deletedJson \cup {n}
           /\ \A i \in DOMAIN deletedJson : i < n /\ deletedJson'[i] = deletedJson[i]
           /\ deletedJson'[n] = [obj |-> de.cur, body |-> de.body, restored |-> FALSE]
<1>1. TypeOK /\ de.cur \in Objects /\ de.body \in Bodies
    BY DEF TypeInv, InHand, TypeOK, Deleter, DeleteSave
<1>2. deletedJson' = Saved(de.cur, de.body)
    BY DEF DeleteSave
<1> DEFINE n == Len(deletedJson')
<1>3. /\ n = Len(deletedJson) + 1 /\ Len(deletedJson) \in Nat
      /\ DOMAIN deletedJson = 1..Len(deletedJson)
      /\ DOMAIN deletedJson' = DOMAIN deletedJson \cup {n}
      /\ \A i \in DOMAIN deletedJson : deletedJson'[i] = deletedJson[i]
      /\ deletedJson'[n] = [obj |-> de.cur, body |-> de.body, restored |-> FALSE]
    BY <1>1, <1>2, SaveEffect
<1> HIDE DEF n
<1>4. n \notin DOMAIN deletedJson /\ \A i \in DOMAIN deletedJson : i < n
    BY <1>3
<1>5. ~deletedJson'[n].restored
    BY <1>3
<1>6. Pending' = Pending \cup {n}
    BY <1>3, <1>4, <1>5 DEF Pending
<1> QED
    BY <1>3, <1>4, <1>6 DEF n

\* The record when a re-creation is marked, or is not as its answer was lost.
LEMMA CreatePending ==
    ASSUME TypeInv, UndoCreate \/ UndoLost
    PROVE  /\ TypeOK /\ de.pc = "idle" /\ ud.cur \in ud.left /\ ud.cur \in DOMAIN deletedJson
           /\ Now \in Entry /\ Created(Now)
           /\ Pending \ {ud.cur} \subseteq Pending' /\ Pending' \subseteq Pending
           /\ DOMAIN deletedJson' = DOMAIN deletedJson
           /\ \A i \in DOMAIN deletedJson : /\ deletedJson'[i].obj = deletedJson[i].obj
                                            /\ deletedJson'[i].body = deletedJson[i].body
<1>1. /\ TypeOK /\ de.pc = "idle" /\ ud.cur \in ud.left /\ ud.cur \in DOMAIN deletedJson /\ Created(Now)
    BY DEF TypeInv, InHand, TypeOK, UndoCreate, UndoLost
<1>2. Now \in Entry
    BY <1>1 DEF TypeOK, Now
<1>3. CASE UndoCreate
    <2>1. /\ DOMAIN deletedJson' = DOMAIN deletedJson
          /\ \A i \in DOMAIN deletedJson : i # ud.cur => deletedJson'[i] = deletedJson[i]
          /\ deletedJson'[ud.cur].obj = deletedJson[ud.cur].obj
          /\ deletedJson'[ud.cur].body = deletedJson[ud.cur].body
          /\ deletedJson'[ud.cur].restored
        BY <1>1, <1>3, MarkEffect DEF UndoCreate
    <2> QED
        BY <1>1, <1>2, <2>1 DEF Pending
<1>4. CASE UndoLost
    BY <1>1, <1>2, <1>4 DEF UndoLost, runVars, Pending
<1> QED
    BY <1>3, <1>4


\* step2_delete asks about an object only after it found it on the manager as it
\* must be: a rule that may go, an empty policy, a group.
LEMMA ReadFinds ==
    ASSUME TypeInv, DeleteQuiet, de'.pc \in {"ask", "delete"}
    PROVE  /\ de'.pc = "ask" /\ de'.cur \in Present /\ de'.body = FirstBody
           /\ de'.cur \in Rules => de'.cur \in de'.ok /\ live[de'.cur].disabled
           /\ de'.cur \in Policies => RulesIn(de'.cur) = {}
<1>d. de \in Deleter /\ (de.pc = "next" => de.pc # "ask" /\ de.pc # "delete")
    BY DEF TypeInv, TypeOK
<1>n. NoDelete.pc = "idle" /\ \A o : On(o).pc = "next"
    BY <1>d DEF NoDelete, On, Deleter
<1>1. \/ \E r \in Rules : RuleRead(r)
      \/ \E p \in Policies : PolicyRead(p)
      \/ \E g \in Groups : GroupRead(g)
    <2>1. DeleteStart \/ RulesDone \/ PoliciesDone => de'.pc = "next"
        BY <1>d DEF DeleteStart, RulesDone, PoliciesDone, NoDelete, Deleter
    <2>2. DeleteFinish \/ DeleteStop \/ DeleteDies => de'.pc = "idle"
        BY <1>n DEF DeleteFinish, DeleteStop, DeleteDies
    <2>3. \A o : RuleSkip(o) \/ PolicySkip(o) \/ GroupSkip(o) => de'.pc = "next"
        BY <1>n DEF RuleSkip, PolicySkip, GroupSkip
    <2>4. \A o : PolicyVanished(o) => de'.pc = "idle"
        BY <1>n DEF PolicyVanished
    <2> QED
        BY <2>1, <2>2, <2>3, <2>4 DEF DeleteQuiet
<1>a. \A o, body : Ask(o, body) => de'.pc = "ask" /\ de'.cur = o /\ de'.body = body /\ de'.ok = de.ok
    BY <1>d DEF Ask, Deleter
<1>2. ASSUME NEW r \in Rules, RuleRead(r)
      PROVE  /\ de'.pc = "ask" /\ de'.cur = r /\ r \in Present /\ de'.body = FirstBody
             /\ r \in de'.ok /\ live[r].disabled /\ r \notin Policies
    BY <1>2, <1>a, ObjectsAssumption DEF RuleRead, MayDelete, Present, PresentRules
<1>3. ASSUME NEW p \in Policies, PolicyRead(p)
      PROVE  /\ de'.pc = "ask" /\ de'.cur = p /\ p \in Present /\ de'.body = FirstBody
             /\ RulesIn(p) = {} /\ p \notin Rules
    BY <1>3, <1>a, ObjectsAssumption DEF PolicyRead, Present
<1>4. ASSUME NEW g \in Groups, GroupRead(g)
      PROVE  /\ de'.pc = "ask" /\ de'.cur = g /\ g \in Present /\ de'.body = FirstBody
             /\ g \notin Rules /\ g \notin Policies
    BY <1>4, <1>a, ObjectsAssumption DEF GroupRead, Present
<1> QED
    BY <1>1, <1>2, <1>3, <1>4

\* A step that writes nothing leaves what is present and pending.
LEMMA QuietPresent ==
    ASSUME Quiet
    PROVE  /\ UNCHANGED <<live, policies, groups, moved, candidates, deletedJson, gone, lost, late, edits, before, consumers>>
           /\ UNCHANGED <<Present, Pending, PendingObjects, PresentRules>>
BY DEF Quiet, mgrVars, runVars, Present, PresentRules, PendingObjects, Pending

\* The record is kept by every step.
LEMMA RecordNext == RecordInv /\ [Next]_vars => RecordInv'
<1> SUFFICES ASSUME RecordInv, [Next]_vars PROVE RecordInv'
    OBVIOUS
<1>t. TypeInv /\ TypeInv' /\ TypeOK /\ gone \subseteq Objects
    BY TypeNext DEF RecordInv, TypeInv, TypeOK
<1>i. /\ gone \cap Present = {} /\ gone \subseteq PendingObjects \cup lost \cup late
      /\ de.pc \in {"ask", "delete"} => de.cur \notin gone
      /\ \A p \in Policies : HasInHand(p) => RulesIn(p) \subseteq late
    BY DEF RecordInv, DeletedIsRecorded
<1> SUFFICES /\ gone' \cap Present' = {} /\ gone' \subseteq PendingObjects' \cup lost' \cup late'
             /\ de'.pc \in {"ask", "delete"} => de'.cur \notin gone'
             /\ \A p \in Policies : HasInHand(p)' => RulesIn(p)' \subseteq late'
    BY <1>t DEF RecordInv, DeletedIsRecorded
<1>h. de'.pc \notin {"ask", "delete"} => \A p \in Policies : ~HasInHand(p)'
    BY DEF HasInHand
<1>o. DeleteRefused \/ DeleteMissing \/ DeleteFails \/ DeleteLost \/ DeleteCall =>
          /\ de.pc = "delete" /\ de.cur \in Objects /\ de.cur \notin gone
          /\ de'.pc \notin {"ask", "delete"}
    <2> SUFFICES ASSUME DeleteRefused \/ DeleteMissing \/ DeleteFails \/ DeleteLost \/ DeleteCall
                 PROVE  /\ de.pc = "delete" /\ de.cur \in Objects /\ de.cur \notin gone
                        /\ de'.pc \notin {"ask", "delete"}
        OBVIOUS
    <2>1. de.pc = "delete" => de.cur \in Objects /\ de.cur \notin gone
        BY <1>t, <1>i DEF TypeInv, InHand
    <2> QED
        <3>1. NoDelete.pc = "idle"
            BY DEF NoDelete
        <3>2. de \in Deleter => On(de.cur).pc = "next" /\ [On(de.cur) EXCEPT !.wrote = TRUE].pc = "next"
            BY DEF On, Deleter
        <3>3. de'.pc \in {"idle", "next"} /\ de.pc = "delete"
            BY <1>t, <3>1, <3>2
            DEF DeleteRefused, DeleteMissing, DeleteFails, DeleteLost, DeleteCall, TypeOK
        <3> QED
            BY <2>1, <3>3
<1>u. DeleteRefused \/ DeleteMissing \/ DeleteFails \/ DeleteLost =>
          PendingObjects \ {de.cur} \subseteq PendingObjects'
    <2>1. ASSUME DeleteRefused \/ DeleteMissing \/ DeleteFails \/ DeleteLost
          PROVE  /\ Pending' = Pending \ {Len(deletedJson)}
                 /\ deletedJson[Len(deletedJson)].obj = de.cur
                 /\ Pending \subseteq DOMAIN deletedJson /\ Pending' \subseteq DOMAIN deletedJson'
                 /\ \A i \in DOMAIN deletedJson' : deletedJson'[i] = deletedJson[i]
        BY <1>t, <1>o, <2>1, UnsavePending
        DEF DeleteRefused, DeleteMissing, DeleteFails, DeleteLost, Pending
    <2> QED
        BY <2>1 DEF PendingObjects
<1>r. DeleteCall \/ DeleteLost =>
          /\ Present' = Present \ RemovedWith(de.cur) /\ RemovedWith(de.cur) \subseteq {de.cur} \cup late
          /\ gone' = gone \cup RemovedWith(de.cur) /\ late' = late \ {de.cur}
    <2> SUFFICES ASSUME DeleteCall \/ DeleteLost
                 PROVE  /\ Present' = Present \ RemovedWith(de.cur) /\ RemovedWith(de.cur) \subseteq {de.cur} \cup late
                        /\ gone' = gone \cup RemovedWith(de.cur) /\ late' = late \ {de.cur}
        OBVIOUS
    <2>1. Removed(de.cur) /\ gone' = gone \cup RemovedWith(de.cur) /\ late' = late \ {de.cur}
        BY DEF DeleteCall, DeleteLost
    <2>2. RemovedWith(de.cur) \subseteq {de.cur} \cup late
        BY <1>o, <1>i DEF RemovedWith, HasInHand
    <2> QED
        BY <1>t, <1>o, <2>1, <2>2, RemovedPresent
<1>1. CASE UNCHANGED vars
    BY <1>1, <1>i DEF vars, Present, PresentRules, PendingObjects, Pending, HasInHand, RulesIn
<1>2. CASE Plan
    BY <1>2, <1>i DEF Plan, mgrVars, Present, PresentRules, PendingObjects, Pending, HasInHand, RulesIn
<1>3. CASE DeleteQuiet
    <2>1. de'.pc \in {"ask", "delete"} => de'.cur \in Present /\ (de'.cur \in Policies => RulesIn(de'.cur) = {})
        BY <1>3, <1>t, ReadFinds
    <2>2. UNCHANGED <<Present, PresentRules, PendingObjects, gone, lost, late>>
        BY <1>3, QuietSteps, QuietPresent
    <2>3. \A p \in Policies : HasInHand(p)' => RulesIn(p)' = {}
        BY <2>1, <2>2 DEF HasInHand, RulesIn
    <2> QED
        BY <1>i, <2>1, <2>2, <2>3
<1>4. CASE UndoQuiet
    BY <1>4, <1>i, QuietSteps, QuietPresent DEF HasInHand, RulesIn
<1>5. CASE DeleteSave
    <2>1. PendingObjects \subseteq PendingObjects'
        <3>1. /\ Pending \subseteq Pending' /\ Pending \subseteq DOMAIN deletedJson
              /\ \A i \in DOMAIN deletedJson : deletedJson'[i] = deletedJson[i]
            BY <1>5, <1>t, SavePending DEF Pending
        <3> QED
            BY <3>1 DEF PendingObjects
    <2>2. UNCHANGED <<Present, PresentRules, gone, lost, late>>
        BY <1>5 DEF DeleteSave, mgrVars, histVars, Present, PresentRules
    <2>3. de'.cur = de.cur /\ de.pc = "ask"
        BY <1>5, <1>t DEF DeleteSave, TypeOK, Deleter
    <2> QED
        BY <1>i, <2>1, <2>2, <2>3 DEF HasInHand, RulesIn
<1>6. CASE DeleteCall
    <2>1. de.cur \in PendingObjects
        <3>1. Last(deletedJson).obj = de.cur /\ ~Last(deletedJson).restored /\ deletedJson # <<>> /\ deletedJson \in Seq(Entry)
            BY <1>6, <1>t DEF DeleteCall, TypeInv, InHand, TypeOK
        <3>2. Len(deletedJson) \in DOMAIN deletedJson /\ Last(deletedJson) = deletedJson[Len(deletedJson)]
            BY <3>1 DEF Last
        <3> QED
            BY <3>1, <3>2 DEF PendingObjects, Pending
    <2>2. UNCHANGED <<PendingObjects, lost>>
        BY <1>6 DEF DeleteCall, runVars, PendingObjects, Pending
    <2> QED
        BY <1>6, <1>o, <1>h, <1>r, <1>i, <2>1, <2>2
<1>7. CASE DeleteRefused \/ DeleteMissing \/ DeleteFails
    <2>1. UNCHANGED <<Present, gone, lost, late>>
        BY <1>7 DEF DeleteRefused, DeleteMissing, DeleteFails, mgrVars, histVars, Present, PresentRules
    <2> QED
        BY <1>7, <1>o, <1>u, <1>h, <1>i, <2>1
<1>8. CASE DeleteLost
    <2>1. lost' = lost \cup {de.cur}
        BY <1>8 DEF DeleteLost
    <2> QED
        BY <1>8, <1>o, <1>u, <1>h, <1>r, <1>i, <2>1
<1>9. CASE UndoCreate \/ UndoLost
    <2>1. /\ de.pc = "idle" /\ de' = de /\ Now \in Entry /\ Created(Now) /\ Now = deletedJson[ud.cur]
          /\ Pending \ {ud.cur} \subseteq Pending' /\ Pending \subseteq DOMAIN deletedJson
          /\ \A i \in DOMAIN deletedJson : deletedJson'[i].obj = deletedJson[i].obj
        BY <1>9, <1>t, CreatePending DEF UndoCreate, UndoLost, Now, Pending
    <2>2. /\ Present' = Present \cup {Now.obj}
          /\ gone' = gone \ {Now.obj} /\ lost' = lost \ {Now.obj} /\ late' = late \ {Now.obj}
        BY <1>t, <2>1, CreatedPresent, CreatedEffect
    <2>3. PendingObjects \ {Now.obj} \subseteq PendingObjects'
        BY <2>1 DEF PendingObjects
    <2> QED
        BY <1>i, <1>h, <2>1, <2>2, <2>3
<1>10. ASSUME NEW r \in Rules, Step1Undo(r) \/ SomeoneChangesRule(r) \/ SomeoneResetsCounters(r) \/ Traffic(r)
       PROVE  /\ gone' \cap Present' = {} /\ gone' \subseteq PendingObjects' \cup lost' \cup late'
              /\ de'.pc \in {"ask", "delete"} => de'.cur \notin gone'
              /\ \A p \in Policies : HasInHand(p)' => RulesIn(p)' \subseteq late'
    <2>1. UNCHANGED <<de, PendingObjects, policies, groups>>
        BY <1>10 DEF Step1Undo, SomeoneChangesRule, SomeoneResetsCounters, Traffic, runVars, histVars, PendingObjects, Pending
    <2>2. CASE Step1Undo(r) \/ SomeoneResetsCounters(r) \/ Traffic(r)
        <3>1. UNCHANGED <<PresentRules, gone, lost, late>>
            BY <2>2, <1>t DEF Step1Undo, SomeoneResetsCounters, Traffic, histVars, PresentRules, TypeOK, LiveRule
        <3> QED
            BY <1>i, <2>1, <3>1 DEF Present, HasInHand, RulesIn
    <2>3. CASE SomeoneChangesRule(r)
        <3>1. PICK new \in LiveRule \ {live[r]} :
                  /\ live' = [live EXCEPT ![r] = new]
                  /\ late' = IF ~live[r].there /\ HasInHand(PolicyOf[r]) THEN late \cup {r}
                             ELSE IF live[r].there /\ new.there THEN late ELSE late \ {r}
            BY <2>3 DEF SomeoneChangesRule
        <3>2. gone' = gone \ {r} /\ lost' = lost \ {r}
            BY <2>3 DEF SomeoneChangesRule
        <3>3. /\ live'[r] = new /\ \A s \in Rules \ {r} : live'[s] = live[s]
              /\ late \ {r} \subseteq late'
            BY <3>1, <1>t DEF TypeOK
        <3>4. PresentRules' \subseteq PresentRules \cup {r}
            BY <3>3 DEF PresentRules
        <3>5. ASSUME NEW p \in Policies, HasInHand(p)', NEW s \in RulesIn(p)' PROVE s \in late'
            <4>1. HasInHand(p) /\ s \in Rules /\ PolicyOf[s] = p /\ live'[s].there
                BY <2>1, <3>5 DEF HasInHand, RulesIn, PresentRules
            <4>2. CASE s # r
                <5>1. s \in RulesIn(p)
                    BY <3>3, <4>1, <4>2 DEF RulesIn, PresentRules
                <5> QED
                    BY <1>i, <3>3, <4>1, <4>2, <5>1
            <4>3. CASE s = r /\ live[r].there
                <5>1. s \in RulesIn(p)
                    BY <4>1, <4>3 DEF RulesIn, PresentRules
                <5> QED
                    BY <1>i, <3>1, <3>3, <4>1, <4>3, <5>1
            <4>4. CASE s = r /\ ~live[r].there
                BY <3>1, <4>1, <4>4
            <4> QED
                BY <4>2, <4>3, <4>4
        <3> QED
            BY <1>i, <2>1, <3>2, <3>3, <3>4, <3>5 DEF Present
    <2> QED
        BY <1>10, <2>2, <2>3
<1>11. ASSUME NEW g \in Groups, SomeoneNames(g)
       PROVE  /\ gone' \cap Present' = {} /\ gone' \subseteq PendingObjects' \cup lost' \cup late'
              /\ de'.pc \in {"ask", "delete"} => de'.cur \notin gone'
              /\ \A p \in Policies : HasInHand(p)' => RulesIn(p)' \subseteq late'
    BY <1>11, <1>i DEF SomeoneNames, runVars, histVars, PendingObjects, Pending, Present, PresentRules, HasInHand, RulesIn
<1>12. ASSUME NEW o \in Policies \cup Groups, SomeoneDeletes(o)
       PROVE  /\ gone' \cap Present' = {} /\ gone' \subseteq PendingObjects' \cup lost' \cup late'
              /\ de'.pc \in {"ask", "delete"} => de'.cur \notin gone'
              /\ \A p \in Policies : HasInHand(p)' => RulesIn(p)' \subseteq late'
    <2>0. o \in Objects /\ Removed(o)
        BY <1>12 DEF SomeoneDeletes, Objects
    <2>1. Present' \subseteq Present
        BY <1>t, <2>0, RemovedPresent
    <2>2. UNCHANGED <<de, PendingObjects, gone, lost, late>>
        BY <1>12 DEF SomeoneDeletes, runVars, histVars, PendingObjects, Pending
    <2>3. \A p \in Policies : RulesIn(p)' \subseteq RulesIn(p)
        <3>1. \A r \in Rules : live'[r].there => live[r].there
            BY <1>t, <2>0, RemovedEffect
        <3> QED
            BY <3>1 DEF RulesIn, PresentRules
    <2> QED
        BY <1>i, <2>1, <2>2, <2>3 DEF HasInHand
<1> QED
    BY <1>1, <1>2, <1>3, <1>4, <1>5, <1>6, <1>7, <1>8, <1>9, <1>10, <1>11, <1>12, StepKinds

\* The record holds at the start.
LEMMA RecordInit == Init => RecordInv
<1>1. Init => TypeInv /\ de = NoDelete /\ gone = {}
    BY TypeInit DEF Init
<1>2. NoDelete.pc = "idle"
    BY DEF NoDelete
<1> QED
    BY <1>1, <1>2 DEF RecordInv, DeletedIsRecorded, HasInHand

LEMMA RecordAlways == Spec => []RecordInv
BY RecordInit, RecordNext, PTL DEF Spec

\* Everything the DELETEs removed, the rules that went with a policy included, and
\* nobody put back is in deleted.json, still to be restored; but for what was lost
\* with the answer and for rules created in a policy after its rules were listed:
\* save before DELETE, pop after an error (step2_delete.py:162-185), list before
\* save (226-236), mark after the re-creation (step2_undo.py:115-127).
THEOREM RecordComplete == Spec => []DeletedIsRecorded
BY RecordAlways, PTL DEF RecordInv


-----------------------------------------------------------------------------
(* Only what was reviewed                                                   *)

Reviewed == approved.rules \cup approved.policies \cup approved.groups

\* What the apply still looks at, and what it has in hand, is in the plan.
ReviewInv ==
    /\ TypeInv
    /\ de.pc # "idle" => de.left \subseteq Reviewed
    /\ de.pc \in {"ask", "delete"} => de.cur \in Reviewed

\* Every step keeps to the plan.
LEMMA ReviewNext == ReviewInv /\ [Next]_vars => ReviewInv'
<1> SUFFICES ASSUME ReviewInv, [Next]_vars PROVE ReviewInv'
    OBVIOUS
<1>t. TypeInv /\ TypeInv' /\ de \in Deleter
    BY TypeNext DEF ReviewInv, TypeInv, TypeOK
<1>i. /\ de.pc # "idle" => de.left \subseteq Reviewed
      /\ de.pc \in {"ask", "delete"} => de.cur \in Reviewed
    BY DEF ReviewInv
<1> SUFFICES /\ de'.pc # "idle" => de'.left \subseteq Reviewed'
             /\ de'.pc \in {"ask", "delete"} => de'.cur \in Reviewed'
    BY <1>t DEF ReviewInv
<1>n. NoDelete.pc = "idle"
    BY DEF NoDelete
<1>m. \A o : /\ On(o).pc = "next" /\ On(o).left = de.left \ {o}
             /\ [On(o) EXCEPT !.wrote = TRUE].pc = "next"
             /\ [On(o) EXCEPT !.wrote = TRUE].left = de.left \ {o}
    BY <1>t DEF On, Deleter
<1>1. CASE UNCHANGED vars
    BY <1>1, <1>i DEF vars, Reviewed
<1>2. CASE Plan
    BY <1>2 DEF Plan, Idle
<1>3. CASE DeleteQuiet
    <2>0. Reviewed' = Reviewed
        BY <1>3, QuietSteps DEF Quiet, runVars, Reviewed
    <2>1. DeleteStart \/ RulesDone \/ PoliciesDone => de'.pc = "next" /\ de'.left \subseteq Reviewed
        BY <1>t DEF DeleteStart, RulesDone, PoliciesDone, NoDelete, Deleter, GroupsToGo, Reviewed
    <2>2. DeleteFinish \/ DeleteStop \/ DeleteDies => de'.pc = "idle"
        BY <1>n DEF DeleteFinish, DeleteStop, DeleteDies
    <2>3. \A o : RuleSkip(o) \/ PolicySkip(o) \/ GroupSkip(o) => de'.pc = "next" /\ de'.left \subseteq Reviewed
        BY <1>m, <1>i DEF RuleSkip, PolicySkip, GroupSkip, InPhase
    <2>4. \A o : PolicyVanished(o) => de'.pc = "idle"
        BY <1>n DEF PolicyVanished
    <2>5. \A o : RuleRead(o) \/ PolicyRead(o) \/ GroupRead(o) =>
              de'.pc = "ask" /\ de'.left = de.left /\ de'.cur = o /\ o \in de.left /\ de.pc = "next"
        BY <1>t DEF RuleRead, PolicyRead, GroupRead, InPhase, Ask, Deleter
    <2> QED
        BY <1>3, <1>i, <2>0, <2>1, <2>2, <2>3, <2>4, <2>5 DEF DeleteQuiet
<1>4. CASE UndoQuiet
    BY <1>4, <1>i, QuietSteps DEF Quiet, runVars, Reviewed
<1>5. CASE DeleteSave
    <2>1. de'.left = de.left /\ de'.cur = de.cur
        BY <1>5, <1>t DEF DeleteSave, Deleter
    <2> QED
        BY <1>5, <1>i, <2>1 DEF DeleteSave, Reviewed
<1>6. CASE DeleteCall \/ DeleteRefused
    <2>1. de'.pc = "next" /\ de'.left \subseteq de.left /\ de.pc = "delete"
        BY <1>6, <1>m DEF DeleteCall, DeleteRefused
    <2>2. Reviewed' = Reviewed
        BY <1>6 DEF DeleteCall, DeleteRefused, runVars, Reviewed
    <2> QED
        BY <1>i, <2>1, <2>2
<1>7. CASE DeleteMissing \/ DeleteFails \/ DeleteLost
    BY <1>7, <1>n DEF DeleteMissing, DeleteFails, DeleteLost
<1>8. CASE UndoCreate \/ UndoLost
    BY <1>8, <1>i DEF UndoCreate, UndoLost, runVars, Reviewed
<1>9. ASSUME \/ \E r \in Rules : Step1Undo(r) \/ SomeoneChangesRule(r) \/ SomeoneResetsCounters(r) \/ Traffic(r)
             \/ \E g \in Groups : SomeoneNames(g)
             \/ \E o \in Policies \cup Groups : SomeoneDeletes(o)
      PROVE  UNCHANGED <<de, Reviewed>>
    BY <1>9 DEF Step1Undo, SomeoneChangesRule, SomeoneResetsCounters, Traffic, SomeoneNames, SomeoneDeletes, runVars, Reviewed
<1> QED
    BY <1>1, <1>2, <1>3, <1>4, <1>5, <1>6, <1>7, <1>8, <1>9, <1>i, StepKinds

\* A DELETE removes the object in hand and, of a policy, rules created there since.
LEMMA RemovedWithHand ==
    ASSUME RecordInv, DeleteCall \/ DeleteLost
    PROVE  /\ de.pc = "delete" /\ gone' = gone \cup RemovedWith(de.cur)
           /\ RemovedWith(de.cur) \subseteq {de.cur} \cup {r \in late : PolicyOf[r] = de.cur}
<1>1. de.pc = "delete" /\ gone' = gone \cup RemovedWith(de.cur)
    BY DEF DeleteCall, DeleteLost
<1>2. de.cur \in Policies => RulesIn(de.cur) \subseteq late /\ \A r \in RulesIn(de.cur) : PolicyOf[r] = de.cur
    BY <1>1 DEF RecordInv, HasInHand, RulesIn
<1> QED
    BY <1>1, <1>2 DEF RemovedWith

\* Every other step removes nothing.
LEMMA OnlyDeletesRemove ==
    ASSUME [Next]_vars
    PROVE  DeleteCall \/ DeleteLost \/ gone' \subseteq gone
<1>1. CASE UNCHANGED vars \/ Plan
    BY <1>1 DEF vars, Plan
<1>2. CASE DeleteQuiet \/ UndoQuiet
    BY <1>2, QuietSteps DEF Quiet
<1>4. CASE DeleteSave \/ DeleteRefused \/ DeleteMissing \/ DeleteFails
    BY <1>4 DEF DeleteSave, DeleteRefused, DeleteMissing, DeleteFails, histVars
<1>5. CASE UndoCreate \/ UndoLost
    BY <1>5 DEF UndoCreate, UndoLost, Created
<1>6. ASSUME \/ \E r \in Rules : Step1Undo(r) \/ SomeoneChangesRule(r) \/ SomeoneResetsCounters(r) \/ Traffic(r)
             \/ \E g \in Groups : SomeoneNames(g)
             \/ \E o \in Policies \cup Groups : SomeoneDeletes(o)
      PROVE  gone' \subseteq gone
    BY <1>6 DEF Step1Undo, SomeoneChangesRule, SomeoneResetsCounters, Traffic, SomeoneNames, SomeoneDeletes, histVars
<1> QED
    BY <1>1, <1>2, <1>4, <1>5, <1>6, StepKinds

\* A step removes only what it has in hand and what came with it.
LEMMA ReviewStep ==
    RecordInv /\ ReviewInv /\ [Next]_vars =>
        [gone' \ gone \subseteq approved.rules \cup approved.policies \cup approved.groups
                                 \cup {r \in late : PolicyOf[r] = de.cur}]_vars
<1> SUFFICES ASSUME RecordInv, ReviewInv, [Next]_vars, DeleteCall \/ DeleteLost
             PROVE  gone' \ gone \subseteq Reviewed \cup {r \in late : PolicyOf[r] = de.cur}
    BY OnlyDeletesRemove DEF Reviewed
<1> QED
    BY RemovedWithHand DEF ReviewInv

\* Nothing goes that the reviewed plan does not list, whatever others write, except
\* rules created in a policy after its rules were listed: rules and policies are
\* read again at the delete, groups planned afresh (step2_delete.py:187-260).
THEOREM OnlyReviewed == Spec => OnlyReviewedDeleted
<1>1. Init => ReviewInv
    <2>1. Init => TypeInv /\ de = NoDelete
        BY TypeInit DEF Init
    <2>2. NoDelete.pc = "idle"
        BY DEF NoDelete
    <2> QED
        BY <2>1, <2>2 DEF ReviewInv
<1>2. Spec => []ReviewInv
    BY <1>1, ReviewNext, PTL DEF Spec
<1> QED
    BY <1>2, RecordAlways, ReviewStep, PTL DEF Spec, OnlyReviewedDeleted

-----------------------------------------------------------------------------
(* Rules with traffic                                                       *)

\* What the plan lists, what the apply lets go and the rule it has in hand took no
\* traffic that a reading showed.
SeenInv ==
    /\ approved.rules \cap seen.plan = {}
    /\ de.pc # "idle" => de.ok \cap seen.start = {}
    /\ de.pc # "idle" /\ de.phase = "rules" => de.left \subseteq approved.rules
    /\ de.pc \in {"ask", "delete"} /\ de.cur \in Rules => de.cur \in approved.rules \cap de.ok

\* No step lets a rule go that a reading showed to have taken traffic.
LEMMA SeenNext == ReviewInv /\ SeenInv /\ [Next]_vars => SeenInv'
<1> SUFFICES ASSUME ReviewInv, SeenInv, [Next]_vars PROVE SeenInv'
    OBVIOUS
<1>t. TypeInv /\ TypeOK /\ de \in Deleter /\ approved \in Plans
    BY DEF ReviewInv, TypeInv, TypeOK
<1>i. /\ approved.rules \cap seen.plan = {}
      /\ de.pc # "idle" => de.ok \cap seen.start = {}
      /\ de.pc # "idle" /\ de.phase = "rules" => de.left \subseteq approved.rules
      /\ de.pc \in {"ask", "delete"} /\ de.cur \in Rules => de.cur \in approved.rules \cap de.ok
    BY DEF SeenInv
<1>n. NoDelete.pc = "idle"
    BY DEF NoDelete
<1>s. \A c, shown : RulesToDelete(c, shown) \cap shown = {}
    BY DEF RulesToDelete
<1>m. \A o : /\ On(o).pc = "next" /\ On(o).left = de.left \ {o} /\ On(o).phase = de.phase /\ On(o).ok = de.ok
             /\ [On(o) EXCEPT !.wrote = TRUE].pc = "next" /\ [On(o) EXCEPT !.wrote = TRUE].ok = de.ok
             /\ [On(o) EXCEPT !.wrote = TRUE].left = de.left \ {o}
             /\ [On(o) EXCEPT !.wrote = TRUE].phase = de.phase
    BY <1>t DEF On, Deleter
<1>1. CASE UNCHANGED vars
    BY <1>1, <1>i DEF vars, SeenInv
<1>2. CASE Plan
    <2>1. PICK missing \in SUBSET candidates :
              /\ approved'.rules = RulesToDelete(candidates, Shown(missing))
              /\ seen'.plan = Shown(missing)
        BY <1>2 DEF Plan
    <2>2. de'.pc = "idle"
        BY <1>2 DEF Plan, Idle
    <2> QED
        BY <1>s, <2>1, <2>2 DEF SeenInv
<1>3. CASE DeleteStart
    <2>1. PICK missing \in SUBSET candidates :
              /\ de' = [NoDelete EXCEPT !.pc = "next", !.left = approved.rules,
                                        !.ok = RulesToDelete(candidates, Shown(missing))]
              /\ seen' = [seen EXCEPT !.start = Shown(missing)]
        BY <1>3 DEF DeleteStart
    <2>2. de'.pc = "next" /\ de'.left = approved.rules /\ de'.ok = RulesToDelete(candidates, Shown(missing))
        BY <2>1 DEF NoDelete
    <2>3. seen'.start = Shown(missing) /\ seen'.plan = seen.plan
        BY <1>t, <2>1 DEF TypeOK
    <2>4. approved' = approved
        BY <1>3 DEF DeleteStart, runVars
    <2> QED
        BY <1>s, <1>i, <2>2, <2>3, <2>4 DEF SeenInv
<1>4. CASE DeleteQuiet /\ ~DeleteStart
    <2>0. UNCHANGED <<approved, seen>>
        BY <1>4
        DEF DeleteQuiet, histVars, runVars, RulesDone, PoliciesDone, DeleteFinish, DeleteStop, DeleteDies,
            RuleSkip, RuleRead, PolicySkip, PolicyRead, PolicyVanished, GroupSkip, GroupRead
    <2>1. RulesDone => de'.pc = "next" /\ de'.phase = "policies" /\ de'.ok = de.ok /\ de.pc = "next"
        BY <1>t DEF RulesDone, Deleter
    <2>2. PoliciesDone => de'.pc = "next" /\ de'.phase = "groups" /\ de'.ok = de.ok /\ de.pc = "next"
        BY <1>t DEF PoliciesDone, Deleter
    <2>3. DeleteFinish \/ DeleteStop \/ DeleteDies => de'.pc = "idle"
        BY <1>n DEF DeleteFinish, DeleteStop, DeleteDies
    <2>4. \A o : RuleSkip(o) \/ PolicySkip(o) \/ GroupSkip(o) =>
              /\ de'.pc = "next" /\ de'.left \subseteq de.left /\ de'.phase = de.phase /\ de'.ok = de.ok
              /\ de.pc = "next"
        BY <1>m DEF RuleSkip, PolicySkip, GroupSkip, InPhase
    <2>5. \A o : PolicyVanished(o) => de'.pc = "idle"
        BY <1>n DEF PolicyVanished
    <2>6. \A o : RuleRead(o) \/ PolicyRead(o) \/ GroupRead(o) =>
              /\ de'.pc = "ask" /\ de'.left = de.left /\ de'.phase = de.phase /\ de'.ok = de.ok
              /\ de'.cur = o /\ de.pc = "next"
        BY <1>t DEF RuleRead, PolicyRead, GroupRead, InPhase, Ask, Deleter
    <2>7. \A r : RuleRead(r) => de.phase = "rules" /\ r \in de.left /\ r \in de.ok
        BY DEF RuleRead, InPhase, MayDelete
    <2>8. ASSUME NEW r \in Rules, RuleRead(r) PROVE SeenInv'
        BY <1>i, <2>0, <2>6, <2>7, <2>8 DEF SeenInv
    <2>9. ASSUME NEW o \in Policies \cup Groups, PolicyRead(o) \/ GroupRead(o) PROVE SeenInv'
        <3>1. o \notin Rules
            BY ObjectsAssumption
        <3> QED
            BY <1>i, <2>0, <2>6, <2>9, <3>1 DEF SeenInv
    <2>10. CASE RulesDone \/ PoliciesDone \/ DeleteFinish \/ DeleteStop \/ DeleteDies
        BY <1>i, <2>0, <2>1, <2>2, <2>3, <2>10 DEF SeenInv
    <2>11. ASSUME NEW o, RuleSkip(o) \/ PolicySkip(o) \/ GroupSkip(o) \/ PolicyVanished(o) PROVE SeenInv'
        BY <1>i, <2>0, <2>4, <2>5, <2>11 DEF SeenInv
    <2> QED
        BY <1>4, <2>8, <2>9, <2>10, <2>11 DEF DeleteQuiet
<1>5. CASE DeleteSave
    <2>1. de'.left = de.left /\ de'.cur = de.cur /\ de'.ok = de.ok /\ de'.phase = de.phase /\ de.pc = "ask"
        BY <1>5, <1>t DEF DeleteSave, Deleter
    <2>2. UNCHANGED <<approved, seen>>
        BY <1>5 DEF DeleteSave, histVars
    <2> QED
        BY <1>i, <2>1, <2>2 DEF SeenInv
<1>6. CASE DeleteCall \/ DeleteRefused
    <2>1. /\ de'.pc = "next" /\ de'.left \subseteq de.left /\ de'.phase = de.phase /\ de'.ok = de.ok
          /\ de.pc = "delete" /\ UNCHANGED <<approved, seen>>
        BY <1>6, <1>m DEF DeleteCall, DeleteRefused, runVars, histVars
    <2> QED
        BY <1>i, <2>1 DEF SeenInv
<1>7. CASE DeleteMissing \/ DeleteFails \/ DeleteLost
    <2>1. de'.pc = "idle" /\ UNCHANGED <<approved, seen>>
        BY <1>7, <1>n DEF DeleteMissing, DeleteFails, DeleteLost, histVars
    <2> QED
        BY <1>i, <2>1 DEF SeenInv
<1>8. CASE UndoQuiet \/ UndoCreate \/ UndoLost
    <2>1. UNCHANGED <<de, approved, seen>>
        BY <1>8, QuietSteps DEF UndoCreate, UndoLost, Quiet, runVars
    <2> QED
        BY <1>i, <2>1 DEF SeenInv
<1>9. ASSUME \/ \E r \in Rules : Step1Undo(r) \/ SomeoneChangesRule(r) \/ SomeoneResetsCounters(r) \/ Traffic(r)
             \/ \E g \in Groups : SomeoneNames(g)
             \/ \E o \in Policies \cup Groups : SomeoneDeletes(o)
      PROVE  SeenInv'
    <2>1. UNCHANGED <<de, approved, seen>>
        BY <1>9
        DEF Step1Undo, SomeoneChangesRule, SomeoneResetsCounters, Traffic, SomeoneNames, SomeoneDeletes, runVars, histVars
    <2> QED
        BY <1>i, <2>1 DEF SeenInv
<1> QED
    BY <1>1, <1>2, <1>3, <1>4, <1>5, <1>6, <1>7, <1>8, <1>9, StepKinds

\* A rule that took traffic after step 1 recorded its counters goes only when
\* neither the reading of the plan nor that of the apply showed it, whatever rows
\* are missing and whoever resets counters (rule_cleanup.py:217-234, 364-369, 588;
\* step2_delete.py:136-151, 203).
THEOREM HitRulesStay == Spec => HitRulesKept
<1>1. Init => ReviewInv /\ SeenInv
    <2>1. Init => TypeInv /\ de = NoDelete /\ seen = [plan |-> {}, start |-> {}]
        BY TypeInit DEF Init
    <2>2. NoDelete.pc = "idle"
        BY DEF NoDelete
    <2> QED
        BY <2>1, <2>2 DEF ReviewInv, SeenInv
<1>2. Spec => [](ReviewInv /\ SeenInv)
    BY <1>1, ReviewNext, SeenNext, PTL DEF Spec
<1>3. RecordInv /\ ReviewInv /\ SeenInv /\ [Next]_vars =>
          [(gone' \ gone) \cap (seen.plan \cup seen.start) \subseteq late]_vars
    <2> SUFFICES ASSUME RecordInv, SeenInv, [Next]_vars, DeleteCall \/ DeleteLost
                 PROVE  (gone' \ gone) \cap (seen.plan \cup seen.start) \subseteq late
        BY OnlyDeletesRemove
    <2>1. seen.plan \cup seen.start \subseteq Rules
        BY DEF RecordInv, TypeInv, TypeOK
    <2> QED
        BY <2>1, RemovedWithHand DEF SeenInv
<1> QED
    BY <1>2, <1>3, RecordAlways, PTL DEF Spec, HitRulesKept

-----------------------------------------------------------------------------
(* As long as nobody else writes                                            *)

Off == [there |-> TRUE, body |-> FirstBody, disabled |-> TRUE]

\* A rule is as it was, or the tool deleted it, which was off.
RulesAsBefore ==
    \A r \in Rules : /\ live[r].body = FirstBody
                     /\ live[r].there \/ ~live[r].disabled
                     /\ \/ live[r] = before.live[r]
                        \/ r \in gone /\ ~live[r].there /\ before.live[r] = Off

\* Policies and groups are as they were but for those the tool deleted.
OthersAsBefore ==
    /\ policies = Policies \ gone /\ groups = Groups \ gone
    /\ before.policies = Policies /\ before.groups = Groups

\* The candidates are off, and nobody creates a rule.
CandidatesOff == (\A r \in candidates : live[r].there => live[r].disabled) /\ late = {}

\* What step2_delete found when it looked at its object still holds.
StillAsRead ==
    de.pc \in {"ask", "delete"} =>
        /\ de.cur \in Present /\ de.body = FirstBody
        /\ de.cur \in Rules => de.cur \in de.ok /\ live[de.cur].disabled
        /\ de.cur \in Policies => RulesIn(de.cur) = {}

\* Every rule in deleted.json was off and as step 1 left it.
EntriesAsBefore ==
    \A i \in DOMAIN deletedJson :
        /\ deletedJson[i].body = FirstBody
        /\ deletedJson[i].obj \in Rules => before.live[deletedJson[i].obj] = Off

AloneInv ==
    edits = 0 => RulesAsBefore /\ OthersAsBefore /\ CandidatesOff /\ StillAsRead /\ EntriesAsBefore

\* As long as nobody else writes, only the tools act: candidates are off, so no
\* traffic reaches them.
LEMMA AloneSteps ==
    ASSUME TypeInv, AloneInv, [Next]_vars, edits' = 0
    PROVE  /\ edits = 0
           /\ \/ UNCHANGED vars \/ Plan \/ DeleteQuiet \/ UndoQuiet
              \/ DeleteSave \/ DeleteCall \/ DeleteLost
              \/ DeleteRefused \/ DeleteMissing \/ DeleteFails \/ UndoCreate \/ UndoLost
<1>1. edits \in Nat
    BY DEF TypeInv, TypeOK
<1>2. ASSUME NEW r \in Rules PROVE ~Step1Undo(r) /\ ~SomeoneChangesRule(r) /\ ~SomeoneResetsCounters(r) /\ ~Traffic(r)
    BY <1>1 DEF Step1Undo, SomeoneChangesRule, SomeoneResetsCounters, Traffic, Edit, AloneInv, CandidatesOff
<1>3. ASSUME NEW o PROVE ~SomeoneNames(o) /\ ~SomeoneDeletes(o)
    BY <1>1 DEF SomeoneNames, SomeoneDeletes, Edit
<1>4. \/ UNCHANGED vars \/ Plan \/ DeleteQuiet \/ UndoQuiet
      \/ DeleteSave \/ DeleteCall \/ DeleteLost
      \/ DeleteRefused \/ DeleteMissing \/ DeleteFails \/ UndoCreate \/ UndoLost
    BY <1>2, <1>3, StepKinds
<1>5. CASE UNCHANGED vars \/ Plan
    BY <1>4, <1>5 DEF vars, Plan
<1>6. CASE DeleteQuiet \/ UndoQuiet
    BY <1>4, <1>6, QuietSteps DEF Quiet
<1>7. CASE \/ DeleteSave \/ DeleteCall \/ DeleteLost
           \/ DeleteRefused \/ DeleteMissing \/ DeleteFails \/ UndoCreate \/ UndoLost
    BY <1>4, <1>7
    DEF DeleteSave, DeleteCall, DeleteLost, DeleteRefused, DeleteMissing, DeleteFails, UndoCreate, UndoLost
<1> QED
    BY <1>4, <1>5, <1>6, <1>7

\* The rule in hand is off and as it was.
LEMMA InHandIsOff ==
    ASSUME TypeInv, RulesAsBefore, StillAsRead, de.pc \in {"ask", "delete"}, de.cur \in Rules
    PROVE  live[de.cur] = Off /\ before.live[de.cur] = Off
<1>1. live[de.cur] \in LiveRule /\ live[de.cur].there /\ live[de.cur].disabled /\ live[de.cur].body = FirstBody
    BY ObjectsAssumption DEF TypeInv, TypeOK, RulesAsBefore, StillAsRead, Present, PresentRules
<1>2. live[de.cur] = Off
    BY <1>1 DEF LiveRule, Off
<1> QED
    BY <1>1, <1>2 DEF RulesAsBefore

\* As long as nobody else writes, a DELETE takes just the object in hand: a
\* policy has no rules left.
LEMMA RemovedAlone ==
    ASSUME TypeInv, RulesAsBefore, StillAsRead, de.pc = "delete", Removed(de.cur)
    PROVE  /\ RemovedWith(de.cur) = {de.cur}
           /\ \A r \in Rules : live'[r] = IF r = de.cur THEN [there |-> FALSE, body |-> FirstBody, disabled |-> FALSE]
                                          ELSE live[r]
           /\ PresentRules' = PresentRules \ {de.cur}
<1> DEFINE gap == [there |-> FALSE, body |-> FirstBody, disabled |-> FALSE]
<1>1. live \in [Rules -> LiveRule]
    BY DEF TypeInv, TypeOK
<1>2. RemovedWith(de.cur) = {de.cur}
    BY DEF StillAsRead, RemovedWith
<1>3. ASSUME NEW r \in Rules, r = de.cur PROVE [live[r] EXCEPT !.there = FALSE, !.disabled = FALSE] = gap
    <2>1. live[r] \in LiveRule /\ live[r].body = FirstBody
        BY <1>1 DEF RulesAsBefore
    <2>2. ASSUME NEW y, y = [live[r] EXCEPT !.there = FALSE, !.disabled = FALSE] PROVE y = gap
        <3>1. y \in LiveRule /\ y.there = FALSE /\ y.disabled = FALSE /\ y.body = FirstBody
            BY <2>1, <2>2 DEF LiveRule
        <3> QED
            BY <3>1 DEF LiveRule
    <2> QED
        BY <2>2
<1>4. \A r \in Rules : live'[r] = IF r = de.cur THEN [live[r] EXCEPT !.there = FALSE, !.disabled = FALSE] ELSE live[r]
    BY <1>1, <1>2 DEF Removed
<1>5. ASSUME NEW r \in Rules PROVE live'[r] = IF r = de.cur THEN gap ELSE live[r]
    <2>1. CASE r = de.cur
        BY <1>3, <1>4, <2>1
    <2>2. CASE r # de.cur
        BY <1>4, <2>2
    <2> QED
        BY <2>1, <2>2
<1>6. \A r \in Rules : live'[r].there <=> (live[r].there /\ r # de.cur)
    BY <1>5
<1>7. PresentRules' = PresentRules \ {de.cur}
    BY <1>6 DEF PresentRules
<1> QED
    BY <1>2, <1>5, <1>7

\* Steps that write nothing to the manager leave what a tool finds there.
LEMMA AloneKept ==
    ASSUME RulesAsBefore, OthersAsBefore, CandidatesOff,
           UNCHANGED <<live, policies, groups, candidates, gone, late, before>>
    PROVE  RulesAsBefore' /\ OthersAsBefore' /\ CandidatesOff'
BY DEF RulesAsBefore, OthersAsBefore, CandidatesOff

\* A step that writes nothing.
LEMMA AloneQuiet ==
    ASSUME TypeInv, AloneInv, edits = 0, Plan \/ DeleteQuiet \/ UndoQuiet
    PROVE  RulesAsBefore' /\ OthersAsBefore' /\ CandidatesOff' /\ StillAsRead' /\ EntriesAsBefore'
<1>1. RulesAsBefore /\ OthersAsBefore /\ CandidatesOff /\ StillAsRead /\ EntriesAsBefore /\ de \in Deleter
    BY DEF AloneInv, TypeInv, TypeOK
<1>2. UNCHANGED <<live, policies, groups, candidates, deletedJson, gone, late, before, Present, PresentRules>>
    BY QuietSteps, QuietPresent DEF Plan, mgrVars, Present, PresentRules
<1>4. RulesAsBefore' /\ OthersAsBefore' /\ CandidatesOff'
    BY <1>1, <1>2, AloneKept
<1>5. EntriesAsBefore'
    BY <1>1, <1>2 DEF EntriesAsBefore
<1>6. \A p \in Policies : RulesIn(p)' = RulesIn(p)
    BY <1>2 DEF RulesIn
<1>7. StillAsRead'
    <2>1. CASE Plan \/ UndoQuiet
        <3>1. de' = de
            BY <2>1, QuietSteps DEF Plan
        <3> QED
            BY <1>1, <1>2, <3>1 DEF StillAsRead, RulesIn
    <2>2. CASE DeleteQuiet
        <3>1. de'.pc \in {"ask", "delete"} =>
                  /\ de'.cur \in Present /\ de'.body = FirstBody
                  /\ de'.cur \in Rules => de'.cur \in de'.ok /\ live[de'.cur].disabled
                  /\ de'.cur \in Policies => RulesIn(de'.cur) = {}
            BY <2>2, ReadFinds
        <3> QED
            BY <1>2, <3>1 DEF StillAsRead, RulesIn
    <2> QED
        BY <2>1, <2>2
<1> QED
    BY <1>4, <1>5, <1>7

\* The object is saved.
LEMMA AloneSave ==
    ASSUME TypeInv, AloneInv, edits = 0, DeleteSave
    PROVE  RulesAsBefore' /\ OthersAsBefore' /\ CandidatesOff' /\ StillAsRead' /\ EntriesAsBefore'
<1>1. RulesAsBefore /\ OthersAsBefore /\ CandidatesOff /\ StillAsRead /\ EntriesAsBefore /\ de \in Deleter /\ de.pc = "ask"
    BY DEF AloneInv, TypeInv, TypeOK, DeleteSave
<1>2. de'.cur = de.cur /\ de'.body = de.body /\ de'.ok = de.ok
    BY <1>1 DEF DeleteSave, Deleter
<1>3. UNCHANGED <<live, policies, groups, candidates, gone, late, before, Present, PresentRules>>
    BY DEF DeleteSave, mgrVars, histVars, Present, PresentRules
<1>4. RulesAsBefore' /\ OthersAsBefore' /\ CandidatesOff'
    BY <1>1, <1>3, AloneKept
<1>5. StillAsRead'
    BY <1>1, <1>2, <1>3 DEF StillAsRead, RulesIn
<1>6. EntriesAsBefore'
    <2> DEFINE n == Len(deletedJson')
    <2>1. /\ DOMAIN deletedJson' = DOMAIN deletedJson \cup {n}
          /\ \A i \in DOMAIN deletedJson : deletedJson'[i] = deletedJson[i]
          /\ deletedJson'[n] = [obj |-> de.cur, body |-> de.body, restored |-> FALSE]
        BY SavePending
    <2>2. deletedJson'[n].obj = de.cur /\ deletedJson'[n].body = de.body
        BY <2>1
    <2>3. de.cur \in Rules => before.live[de.cur] = Off
        BY <1>1, InHandIsOff
    <2>4. de.body = FirstBody
        BY <1>1 DEF StillAsRead
    <2> HIDE DEF n
    <2> QED
        BY <1>1, <1>3, <2>1, <2>2, <2>3, <2>4 DEF EntriesAsBefore
<1> QED
    BY <1>4, <1>5, <1>6

\* The object is deleted, or taken out of the record again.
LEMMA AloneDelete ==
    ASSUME TypeInv, AloneInv, edits = 0,
           DeleteCall \/ DeleteLost \/ DeleteRefused \/ DeleteMissing \/ DeleteFails
    PROVE  RulesAsBefore' /\ OthersAsBefore' /\ CandidatesOff' /\ StillAsRead' /\ EntriesAsBefore'
<1>1. /\ RulesAsBefore /\ OthersAsBefore /\ CandidatesOff /\ StillAsRead /\ EntriesAsBefore
      /\ de \in Deleter /\ de.pc = "delete" /\ de.cur \in Objects
      /\ live \in [Rules -> LiveRule]
    BY DEF AloneInv, TypeInv, TypeOK, InHand, DeleteCall, DeleteLost, DeleteRefused, DeleteMissing, DeleteFails
<1>2. de'.pc \in {"idle", "next"}
    <2>1. NoDelete.pc = "idle"
        BY DEF NoDelete
    <2>2. On(de.cur).pc = "next" /\ [On(de.cur) EXCEPT !.wrote = TRUE].pc = "next"
        BY <1>1 DEF On, Deleter
    <2> QED
        BY <2>1, <2>2 DEF DeleteCall, DeleteLost, DeleteRefused, DeleteMissing, DeleteFails
<1>3. StillAsRead'
    BY <1>2 DEF StillAsRead
<1>5. UNCHANGED <<candidates, before>>
    BY DEF DeleteCall, DeleteLost, DeleteRefused, DeleteMissing, DeleteFails, runVars, histVars
<1>6. EntriesAsBefore'
    <2>1. DOMAIN deletedJson' \subseteq DOMAIN deletedJson
          /\ \A i \in DOMAIN deletedJson' : deletedJson'[i] = deletedJson[i]
        BY <1>1, UnsavePending DEF DeleteCall, DeleteLost, DeleteRefused, DeleteMissing, DeleteFails, runVars
    <2> QED
        BY <1>1, <1>5, <2>1 DEF EntriesAsBefore
<1>7. CASE DeleteRefused \/ DeleteMissing \/ DeleteFails
    <2>1. UNCHANGED <<live, policies, groups, gone, late>>
        BY <1>7 DEF DeleteRefused, DeleteMissing, DeleteFails, mgrVars, histVars
    <2> QED
        BY <1>1, <1>3, <1>5, <1>6, <2>1, AloneKept
<1>8. CASE DeleteCall \/ DeleteLost
    <2>0. Removed(de.cur) /\ gone' = gone \cup RemovedWith(de.cur) /\ late' = late \ {de.cur}
        BY <1>8 DEF DeleteCall, DeleteLost
    <2>1. Removed(de.cur) /\ gone' = gone \cup {de.cur}
        BY <1>1, <2>0, RemovedAlone
    <2>2. /\ \A r \in Rules : live'[r] = IF r = de.cur THEN [there |-> FALSE, body |-> FirstBody, disabled |-> FALSE]
                                         ELSE live[r]
        BY <1>1, <2>1, RemovedAlone
    <2>3. OthersAsBefore'
        BY <1>1, <1>5, <2>1 DEF OthersAsBefore, Removed
    <2>4. RulesAsBefore'
        <3> SUFFICES ASSUME NEW r \in Rules
                     PROVE  /\ live'[r].body = FirstBody /\ (live'[r].there \/ ~live'[r].disabled)
                            /\ \/ live'[r] = before.live[r]
                               \/ r \in gone' /\ ~live'[r].there /\ before.live[r] = Off
            BY <1>5 DEF RulesAsBefore
        <3>1. CASE r = de.cur
            <4>1. before.live[r] = Off
                BY <1>1, <3>1, InHandIsOff
            <4>2. live'[r] = [there |-> FALSE, body |-> FirstBody, disabled |-> FALSE]
                BY <2>2, <3>1
            <4>3. live'[r].body = FirstBody /\ ~live'[r].there /\ ~live'[r].disabled
                BY <4>2
            <4> QED
                BY <2>1, <3>1, <4>1, <4>3
        <3>2. CASE r # de.cur
            BY <1>1, <2>1, <2>2, <3>2 DEF RulesAsBefore
        <3> QED
            BY <3>1, <3>2
    <2>5. CandidatesOff'
        <3>3. candidates \subseteq Rules
            BY DEF TypeInv, TypeOK
        <3>4. ASSUME NEW r \in candidates, live'[r].there PROVE live'[r].disabled
            <4>1. r # de.cur
                BY <2>2, <3>3, <3>4
            <4>2. live'[r] = live[r]
                BY <2>2, <3>3, <4>1
            <4> QED
                BY <1>1, <3>4, <4>2 DEF CandidatesOff
        <3> QED
            BY <1>1, <1>5, <2>0, <3>4 DEF CandidatesOff
    <2> QED
        BY <1>3, <1>6, <2>3, <2>4, <2>5
<1> QED
    BY <1>7, <1>8

\* An object is created again.
LEMMA AloneCreate ==
    ASSUME TypeInv, AloneInv, edits = 0, UndoCreate \/ UndoLost
    PROVE  RulesAsBefore' /\ OthersAsBefore' /\ CandidatesOff' /\ StillAsRead' /\ EntriesAsBefore'
<1>1. /\ RulesAsBefore /\ OthersAsBefore /\ CandidatesOff /\ StillAsRead /\ EntriesAsBefore
      /\ candidates \subseteq Rules
    BY DEF AloneInv, TypeInv, TypeOK
<1>2. /\ TypeOK /\ de.pc = "idle" /\ ud.cur \in DOMAIN deletedJson /\ Now \in Entry /\ Created(Now)
      /\ DOMAIN deletedJson' = DOMAIN deletedJson
      /\ \A i \in DOMAIN deletedJson : deletedJson'[i].obj = deletedJson[i].obj
                                       /\ deletedJson'[i].body = deletedJson[i].body
    BY CreatePending
<1>3. UNCHANGED <<candidates, before, de>>
    BY DEF UndoCreate, UndoLost, runVars
<1>4. Now.body = FirstBody /\ (Now.obj \in Rules => before.live[Now.obj] = Off)
    BY <1>1, <1>2 DEF EntriesAsBefore, Now
<1>5. /\ gone' = gone \ {Now.obj} /\ late' = late \ {Now.obj}
      /\ \A r \in Rules : live'[r] = IF r = Now.obj THEN Off ELSE live[r]
    BY <1>2, <1>4, CreatedEffect DEF Off
<1>6. Present' = Present \cup {Now.obj}
    BY <1>2, CreatedPresent
<1>o. Off.there /\ Off.disabled /\ Off.body = FirstBody
    BY DEF Off
<1>7. RulesAsBefore'
    <2> SUFFICES ASSUME NEW r \in Rules
                 PROVE  /\ live'[r].body = FirstBody /\ (live'[r].there \/ ~live'[r].disabled)
                        /\ \/ live'[r] = before.live[r]
                           \/ r \in gone' /\ ~live'[r].there /\ before.live[r] = Off
        BY <1>3 DEF RulesAsBefore
    <2>1. CASE r = Now.obj
        BY <1>4, <1>5, <1>o, <2>1
    <2>2. CASE r # Now.obj
        BY <1>1, <1>5, <2>2 DEF RulesAsBefore
    <2> QED
        BY <2>1, <2>2
<1>8. OthersAsBefore'
    <2>1. policies' = policies \cup ({Now.obj} \cap Policies) /\ groups' = groups \cup ({Now.obj} \cap Groups)
        BY <1>2 DEF Created
    <2> QED
        BY <1>1, <1>3, <1>5, <2>1 DEF OthersAsBefore
<1>9. CandidatesOff'
    <2>1. \A r \in Rules : live'[r].there => (r = Now.obj /\ live'[r].disabled) \/ live'[r] = live[r]
        BY <1>5, <1>o
    <2> QED
        BY <1>1, <1>3, <1>5, <2>1 DEF CandidatesOff
<1>10. StillAsRead' /\ EntriesAsBefore'
    BY <1>1, <1>2, <1>3 DEF StillAsRead, EntriesAsBefore
<1> QED
    BY <1>7, <1>8, <1>9, <1>10

\* Every step leaves the manager as it was but for what is recorded, as long as
\* nobody else writes.
LEMMA AloneNext == TypeInv /\ AloneInv /\ [Next]_vars => AloneInv'
<1> SUFFICES ASSUME TypeInv, AloneInv, [Next]_vars, edits' = 0
             PROVE  RulesAsBefore' /\ OthersAsBefore' /\ CandidatesOff' /\ StillAsRead' /\ EntriesAsBefore'
    BY DEF AloneInv
<1>1. CASE UNCHANGED vars
    BY <1>1 DEF vars, AloneInv, RulesAsBefore, OthersAsBefore, CandidatesOff, StillAsRead, EntriesAsBefore,
                Present, PresentRules, RulesIn
<1> QED
    BY <1>1, AloneSteps, AloneQuiet, AloneSave, AloneDelete, AloneCreate

LEMMA AloneInit == Init => AloneInv
<1> SUFFICES ASSUME Init PROVE AloneInv
    OBVIOUS
<1>t. live \in [Rules -> LiveRule] /\ candidates \subseteq {r \in Rules : live[r].disabled} /\ moved \subseteq candidates
    BY TypeInit DEF TypeInv, TypeOK, Init
<1>1. ASSUME NEW r \in Rules PROVE live[r].body = FirstBody /\ (live[r].there \/ ~live[r].disabled)
    <2>1. live[r] \in [there: {TRUE}, body: {FirstBody}, disabled: BOOLEAN]
                      \cup [there: {FALSE}, body: {FirstBody}, disabled: {FALSE}]
        BY DEF Init
    <2> QED
        BY <2>1
<1>2. RulesAsBefore
    BY <1>1 DEF Init, RulesAsBefore
<1>3. OthersAsBefore
    BY DEF Init, OthersAsBefore
<1>4. CandidatesOff
    BY <1>t DEF Init, CandidatesOff
<1>5. StillAsRead /\ EntriesAsBefore
    <2>1. de = NoDelete /\ NoDelete.pc = "idle" /\ deletedJson = <<>>
        BY DEF Init, NoDelete
    <2> QED
        BY <2>1 DEF StillAsRead, EntriesAsBefore
<1> QED
    BY <1>2, <1>3, <1>4, <1>5 DEF AloneInv

LEMMA AloneAlways == Spec => []AloneInv
<1>1. RecordInv => TypeInv
    BY DEF RecordInv
<1> QED
    BY <1>1, AloneInit, AloneNext, RecordAlways, PTL DEF Spec

\* What the manager was at first has its type, and no step changes it.
BeforeType ==
    before \in [live: [Rules -> LiveRule], policies: SUBSET Policies, groups: SUBSET Groups]

LEMMA BeforeAlways == Spec => []BeforeType
<1>1. Init => BeforeType
    <2> SUFFICES ASSUME Init PROVE BeforeType
        OBVIOUS
    <2>1. live \in [Rules -> LiveRule] /\ policies \subseteq Policies /\ groups \subseteq Groups
        BY TypeInit DEF TypeInv, TypeOK
    <2>2. before = [live |-> live, policies |-> policies, groups |-> groups]
        BY DEF Init
    <2> QED
        BY <2>1, <2>2 DEF BeforeType
<1>2. BeforeType /\ [Next]_vars => BeforeType'
    <2> SUFFICES ASSUME [Next]_vars PROVE before' = before
        BY DEF BeforeType
    <2>1. CASE UNCHANGED vars \/ Plan
        BY <2>1 DEF vars, Plan
    <2>2. CASE DeleteQuiet \/ UndoQuiet
        BY <2>2, QuietSteps DEF Quiet
    <2>3. CASE \/ DeleteSave \/ DeleteCall \/ DeleteLost
               \/ DeleteRefused \/ DeleteMissing \/ DeleteFails \/ UndoCreate \/ UndoLost
        BY <2>3
        DEF DeleteSave, DeleteCall, DeleteLost, DeleteRefused, DeleteMissing, DeleteFails, UndoCreate, UndoLost, histVars
    <2>4. ASSUME \/ \E r \in Rules : Step1Undo(r) \/ SomeoneChangesRule(r) \/ SomeoneResetsCounters(r) \/ Traffic(r)
                 \/ \E g \in Groups : SomeoneNames(g)
                 \/ \E o \in Policies \cup Groups : SomeoneDeletes(o)
          PROVE  before' = before
        BY <2>4 DEF Step1Undo, SomeoneChangesRule, SomeoneResetsCounters, Traffic, SomeoneNames, SomeoneDeletes, histVars
    <2> QED
        BY <2>1, <2>2, <2>3, <2>4, StepKinds
<1> QED
    BY <1>1, <1>2, PTL DEF Spec

\* As long as nobody else writes: when no tool runs and every object that
\* deleted.json still lists is on the manager, the manager is as it was at first,
\* however applies and undos were stopped, killed and run again.
THEOREM UndoComplete == Spec => []UndoRestores
<1>1. RecordInv /\ AloneInv /\ BeforeType => UndoRestores
    <2> SUFFICES ASSUME RecordInv, AloneInv, BeforeType, edits = 0, lost = {}, PendingObjects \subseteq Present
                 PROVE  before = [live |-> live, policies |-> policies, groups |-> groups]
        BY DEF UndoRestores
    <2>1. gone = {}
        BY DEF RecordInv, DeletedIsRecorded, AloneInv, CandidatesOff
    <2>2. /\ policies = before.policies /\ groups = before.groups
          /\ \A r \in Rules : live[r] = before.live[r]
        BY <2>1 DEF AloneInv, RulesAsBefore, OthersAsBefore, CandidatesOff
    <2>3. live \in [Rules -> LiveRule] /\ before.live \in [Rules -> LiveRule]
        BY DEF RecordInv, TypeInv, TypeOK, BeforeType
    <2>4. live = before.live
        BY <2>2, <2>3
    <2> QED
        BY <2>2, <2>4 DEF BeforeType
<1> QED
    BY <1>1, RecordAlways, AloneAlways, BeforeAlways, PTL

-----------------------------------------------------------------------------
(* The order of restoring                                                   *)

\* NSX allows no nesting loop (rule_cleanup.py:475 provides for one all the same):
\* in any set of groups, some group is nested by none of them.
NoNestingLoop == \A s \in (SUBSET Groups) \ {{}} : \E g \in s : \A h \in s : g \notin Nests[h]

\* A group that a group on the manager nests is there; one that a group of the
\* record nests is there, was lost, or was deleted after it.
NestedLater ==
    /\ \A g \in groups : Nests[g] \subseteq groups
    /\ \A i \in Pending : deletedJson[i].obj \in Groups =>
           \A h \in Nests[deletedJson[i].obj] \ (groups \cup lost) :
               \E j \in Pending : j > i /\ deletedJson[j].obj = h

\* What the undo has passed is on the manager.
PassedAreBack ==
    ud.pc # "idle" =>
        /\ ud.left \subseteq Pending
        /\ \A i \in Pending \ ud.left : deletedJson[i].obj \in Present
        /\ ud.pc = "ask" => ud.cur \in RestoreFirst(ud.left)

OrderInv == edits = 0 => NestedLater /\ PassedAreBack

\* No group nests itself.
LEMMA NoSelfNesting == NoNestingLoop => \A g \in Groups : g \notin Nests[g]
<1> SUFFICES ASSUME NoNestingLoop, NEW g \in Groups PROVE g \notin Nests[g]
    OBVIOUS
<1>1. {g} \in (SUBSET Groups) \ {{}}
    OBVIOUS
<1>2. \E x \in {g} : \A h \in {g} : x \notin Nests[h]
    BY <1>1 DEF NoNestingLoop
<1> QED
    BY <1>2

\* A step that leaves groups and the record alone leaves the order.
LEMMA NestedKept ==
    ASSUME NestedLater, UNCHANGED <<groups, lost, deletedJson>>
    PROVE  NestedLater'
BY DEF NestedLater, Pending

\* The order when the object is saved: all it nests is on the manager.
LEMMA NestedSave ==
    ASSUME TypeInv, StillAsRead, NestedLater, DeleteSave
    PROVE  NestedLater'
<1> DEFINE n == Len(deletedJson')
<1>1. /\ Pending' = Pending \cup {n} /\ n \notin DOMAIN deletedJson
      /\ \A i \in DOMAIN deletedJson : deletedJson'[i] = deletedJson[i]
      /\ deletedJson'[n] = [obj |-> de.cur, body |-> de.body, restored |-> FALSE]
    BY SavePending
<1>2. deletedJson'[n].obj = de.cur /\ Pending \subseteq DOMAIN deletedJson
    BY <1>1 DEF Pending
<1> HIDE DEF n
<1>3. de.cur \in Groups => Nests[de.cur] \subseteq groups
    BY ObjectsAssumption DEF DeleteSave, StillAsRead, Present, PresentRules, NestedLater, TypeInv, TypeOK
<1>4. groups' = groups /\ lost' = lost
    BY DEF DeleteSave, mgrVars, histVars
<1>5. ASSUME NEW i \in Pending', deletedJson'[i].obj \in Groups,
             NEW h \in Nests[deletedJson'[i].obj] \ (groups' \cup lost')
      PROVE  \E j \in Pending' : j > i /\ deletedJson'[j].obj = h
    <2>1. i # n
        BY <1>2, <1>3, <1>4, <1>5
    <2>2. i \in Pending /\ deletedJson'[i] = deletedJson[i]
        BY <1>1, <1>2, <2>1
    <2>3. PICK j \in Pending : j > i /\ deletedJson[j].obj = h
        BY <1>4, <1>5, <2>2 DEF NestedLater
    <2> QED
        BY <1>1, <1>2, <2>3
<1> QED
    BY <1>4, <1>5 DEF NestedLater

\* The order when the object is deleted: nothing nests it, and it is the last of
\* the record.
LEMMA NestedDelete ==
    ASSUME NoNestingLoop, TypeInv, NestedLater, DeleteCall \/ DeleteLost
    PROVE  NestedLater'
<1> DEFINE n == Len(deletedJson)
<1>1. /\ TypeOK /\ de.pc = "delete" /\ de.cur \in Objects /\ NsxDeletes(de.cur) /\ groups \subseteq Groups
      /\ deletedJson \in Seq(Entry) /\ deletedJson # <<>>
      /\ Last(deletedJson).obj = de.cur /\ ~Last(deletedJson).restored
    BY DEF TypeInv, InHand, TypeOK, DeleteCall, DeleteLost
<1>2. groups' = groups \ {de.cur}
    BY DEF DeleteCall, DeleteLost, Removed
<1>3. /\ n \in Pending /\ deletedJson[n].obj = de.cur /\ n \in Nat
      /\ Pending \subseteq DOMAIN deletedJson /\ DOMAIN deletedJson = 1..n
    BY <1>1 DEF Pending, Last
<1> HIDE DEF n
<1>4. \A g \in groups' : Nests[g] \subseteq groups'
    <2>1. ASSUME NEW g \in groups' PROVE de.cur \notin Nests[g]
        <3>1. CASE de.cur \in Groups
            BY <1>1, <1>2, <2>1, <3>1 DEF NsxDeletes, Referenced
        <3>2. CASE de.cur \notin Groups
            BY <1>1, <1>2, <2>1, <3>2, ConfigurationAssumption
        <3> QED
            BY <3>1, <3>2
    <2> QED
        BY <1>2, <2>1 DEF NestedLater
<1>5. CASE DeleteCall
    <2>1. lost' = lost /\ deletedJson' = deletedJson /\ Pending' = Pending
        BY <1>5 DEF DeleteCall, runVars, Pending
    <2>2. ASSUME NEW i \in Pending, deletedJson[i].obj \in Groups,
                 NEW h \in Nests[deletedJson[i].obj] \ (groups' \cup lost)
          PROVE  \E j \in Pending : j > i /\ deletedJson[j].obj = h
        <3>1. CASE h = de.cur
            <4>1. i # n
                BY <1>3, <2>2, <3>1, NoSelfNesting
            <4>2. n > i
                BY <1>3, <4>1
            <4> QED
                BY <1>3, <3>1, <4>2
        <3>2. CASE h # de.cur
            BY <1>2, <2>2, <3>2 DEF NestedLater
        <3> QED
            BY <3>1, <3>2
    <2> QED
        BY <1>4, <2>1, <2>2 DEF NestedLater
<1>6. CASE DeleteLost
    <2>1. /\ lost' = lost \cup {de.cur} /\ Pending' = Pending \ {n}
          /\ \A i \in DOMAIN deletedJson' : deletedJson'[i] = deletedJson[i]
          /\ Pending' \subseteq DOMAIN deletedJson'
        BY <1>1, <1>6, UnsavePending DEF DeleteLost, n, Pending
    <2>2. ASSUME NEW i \in Pending', deletedJson'[i].obj \in Groups,
                 NEW h \in Nests[deletedJson'[i].obj] \ (groups' \cup lost')
          PROVE  \E j \in Pending' : j > i /\ deletedJson'[j].obj = h
        <3>1. h # de.cur /\ h \notin groups \cup lost /\ deletedJson'[i] = deletedJson[i] /\ i \in Pending
            BY <1>2, <2>1, <2>2
        <3>2. PICK j \in Pending : j > i /\ deletedJson[j].obj = h
            BY <2>2, <3>1 DEF NestedLater
        <3>3. j \in Pending'
            BY <1>3, <2>1, <3>1, <3>2
        <3> QED
            BY <2>1, <3>2, <3>3
    <2> QED
        BY <1>4, <2>2 DEF NestedLater
<1> QED
    BY <1>5, <1>6

\* The order when the object is taken out of the record: it is on the manager.
LEMMA NestedUnsave ==
    ASSUME TypeInv, StillAsRead, NestedLater, DeleteRefused \/ DeleteMissing \/ DeleteFails
    PROVE  NestedLater'
<1>1. /\ de.pc = "delete" /\ Unsave /\ groups' = groups /\ lost' = lost
    BY DEF DeleteRefused, DeleteMissing, DeleteFails, mgrVars, histVars
<1>2. de.cur \in Groups => de.cur \in groups
    BY <1>1, ObjectsAssumption DEF StillAsRead, Present, PresentRules, TypeInv, TypeOK
<1>3. /\ Pending' = Pending \ {Len(deletedJson)} /\ deletedJson[Len(deletedJson)].obj = de.cur
      /\ \A i \in DOMAIN deletedJson' : deletedJson'[i] = deletedJson[i]
      /\ Pending' \subseteq DOMAIN deletedJson'
    BY <1>1, UnsavePending DEF Pending
<1>4. ASSUME NEW i \in Pending', deletedJson'[i].obj \in Groups,
             NEW h \in Nests[deletedJson'[i].obj] \ (groups' \cup lost')
      PROVE  \E j \in Pending' : j > i /\ deletedJson'[j].obj = h
    <2>1. h \in Groups /\ h # de.cur /\ deletedJson'[i] = deletedJson[i] /\ i \in Pending
        BY <1>1, <1>2, <1>3, <1>4, ConfigurationAssumption
    <2>2. PICK j \in Pending : j > i /\ deletedJson[j].obj = h
        BY <1>1, <1>4, <2>1 DEF NestedLater
    <2>3. j \in Pending'
        BY <1>3, <2>1, <2>2
    <2> QED
        BY <1>3, <2>2, <2>3
<1> QED
    BY <1>1, <1>4 DEF NestedLater

\* The order when an object is created again: NSX accepts it only with all it
\* nests.
LEMMA NestedCreate ==
    ASSUME TypeInv, NestedLater, UndoCreate \/ UndoLost
    PROVE  NestedLater'
<1>1. /\ Now \in Entry /\ Created(Now) /\ Now = deletedJson[ud.cur]
      /\ Pending \ {ud.cur} \subseteq Pending' /\ Pending' \subseteq Pending
      /\ Pending \subseteq DOMAIN deletedJson
      /\ \A i \in DOMAIN deletedJson : deletedJson'[i].obj = deletedJson[i].obj
    BY CreatePending DEF Now, Pending
<1>2. groups' = groups \cup ({Now.obj} \cap Groups) /\ lost' = lost \ {Now.obj}
    BY <1>1 DEF Created
<1>3. Now.obj \in Groups => Nests[Now.obj] \subseteq groups
    BY ObjectsAssumption DEF UndoCreate, UndoLost, Resolves
<1>4. ASSUME NEW i \in Pending', deletedJson'[i].obj \in Groups,
             NEW h \in Nests[deletedJson'[i].obj] \ (groups' \cup lost')
      PROVE  \E j \in Pending' : j > i /\ deletedJson'[j].obj = h
    <2>1. i \in Pending /\ deletedJson'[i].obj = deletedJson[i].obj
        BY <1>1, <1>4
    <2>2. h \in Groups /\ h # Now.obj /\ h \notin groups \cup lost
        BY <1>2, <1>4, ConfigurationAssumption
    <2>3. PICK j \in Pending : j > i /\ deletedJson[j].obj = h
        BY <1>4, <2>1, <2>2 DEF NestedLater
    <2>4. j \in Pending' /\ deletedJson'[j].obj = h
        BY <1>1, <2>2, <2>3
    <2> QED
        BY <2>3, <2>4
<1> QED
    BY <1>2, <1>3, <1>4 DEF NestedLater

\* What the undo has passed stays on the manager, and it takes the objects in
\* their order.
LEMMA PassedNext ==
    ASSUME TypeInv, PassedAreBack,
           \/ UNCHANGED vars \/ Plan \/ DeleteQuiet \/ UndoQuiet
           \/ DeleteSave \/ DeleteCall \/ DeleteLost
           \/ DeleteRefused \/ DeleteMissing \/ DeleteFails \/ UndoCreate \/ UndoLost
    PROVE  PassedAreBack'
<1>t. ud \in Undoer /\ NoUndo.pc = "idle"
    BY DEF TypeInv, TypeOK, NoUndo
<1>1. CASE UNCHANGED <<ud, deletedJson, Present>>
    BY <1>1 DEF PassedAreBack, Pending, RestoreFirst, RestoredBefore
<1>2. CASE ud'.pc = "idle"
    BY <1>2 DEF PassedAreBack
<1>3. CASE UNCHANGED vars \/ Plan \/ DeleteQuiet
    <2>1. UNCHANGED <<ud, deletedJson, Present>>
        BY <1>3, QuietSteps, QuietPresent DEF vars, Plan, mgrVars, Present, PresentRules
    <2> QED
        BY <1>1, <2>1
<1>4. CASE DeleteSave \/ DeleteCall \/ DeleteLost \/ DeleteRefused \/ DeleteMissing \/ DeleteFails
    <2>1. de.pc # "idle" /\ ud' = ud
        BY <1>4 DEF DeleteSave, DeleteCall, DeleteLost, DeleteRefused, DeleteMissing, DeleteFails
    <2> QED
        BY <1>2, <2>1 DEF TypeInv, InHand
<1>5. CASE UndoStart
    <2>1. ud'.pc = "next" /\ ud'.left = Pending /\ Pending' = Pending
        BY <1>5 DEF UndoStart, NoUndo, runVars, Pending
    <2> QED
        BY <2>1 DEF PassedAreBack
<1>6. ASSUME NEW i \in DOMAIN deletedJson, UndoSkip(i) PROVE PassedAreBack'
    <2>1. ud.pc = "next" /\ ud'.pc = "next" /\ ud'.left = ud.left \ {i} /\ deletedJson[i].obj \in Present
        BY <1>t, <1>6 DEF UndoSkip, UndoNext, Undoer
    <2>2. UNCHANGED <<deletedJson, Pending, Present>>
        BY <1>6 DEF UndoSkip, runVars, mgrVars, Pending, Present, PresentRules
    <2> QED
        BY <2>1, <2>2 DEF PassedAreBack
<1>7. ASSUME NEW i \in DOMAIN deletedJson, UndoRead(i) PROVE PassedAreBack'
    <2>1. ud.pc = "next" /\ ud'.cur = i /\ ud'.left = ud.left /\ i \in RestoreFirst(ud.left)
        BY <1>t, <1>7 DEF UndoRead, Undoer
    <2>2. UNCHANGED <<deletedJson, Pending, Present>>
        BY <1>7 DEF UndoRead, runVars, mgrVars, Pending, Present, PresentRules
    <2> QED
        BY <2>1, <2>2 DEF PassedAreBack, RestoreFirst, RestoredBefore
<1>8. CASE UndoQuiet
    BY <1>2, <1>5, <1>6, <1>7, <1>8, <1>t
    DEF UndoQuiet, UndoStop, UndoRefused, UndoFinish, UndoDies
<1>9. CASE UndoCreate
    <2>1. ud.pc = "ask" /\ ud'.pc = "next" /\ ud'.left = ud.left \ {ud.cur}
        BY <1>t, <1>9 DEF UndoCreate, UndoNext, Undoer
    <2>2. /\ Now \in Entry /\ Created(Now) /\ Now = deletedJson[ud.cur] /\ TypeOK
          /\ Pending \ {ud.cur} \subseteq Pending' /\ Pending' \subseteq Pending
          /\ Pending \subseteq DOMAIN deletedJson
          /\ \A i \in DOMAIN deletedJson : deletedJson'[i].obj = deletedJson[i].obj
        BY <1>9, CreatePending DEF Now, Pending
    <2>3. Present' = Present \cup {deletedJson[ud.cur].obj}
        BY <2>2, CreatedPresent
    <2> QED
        BY <2>1, <2>2, <2>3 DEF PassedAreBack
<1>10. CASE UndoLost
    BY <1>2, <1>10, <1>t DEF UndoLost
<1> QED
    BY <1>3, <1>4, <1>8, <1>9, <1>10

\* The order is kept by every step as long as nobody else writes.
LEMMA OrderNext ==
    ASSUME NoNestingLoop, TypeInv, AloneInv, OrderInv, [Next]_vars
    PROVE  OrderInv'
<1> SUFFICES ASSUME edits' = 0 PROVE NestedLater' /\ PassedAreBack'
    BY DEF OrderInv
<1>1. /\ edits = 0
      /\ \/ UNCHANGED vars \/ Plan \/ DeleteQuiet \/ UndoQuiet
         \/ DeleteSave \/ DeleteCall \/ DeleteLost
         \/ DeleteRefused \/ DeleteMissing \/ DeleteFails \/ UndoCreate \/ UndoLost
    BY AloneSteps
<1>2. NestedLater /\ PassedAreBack /\ StillAsRead
    BY <1>1 DEF OrderInv, AloneInv
<1>3. PassedAreBack'
    BY <1>1, <1>2, PassedNext
<1>4. CASE UNCHANGED vars \/ Plan \/ DeleteQuiet \/ UndoQuiet
    <2>1. UNCHANGED <<groups, lost, deletedJson>>
        BY <1>4, QuietSteps, QuietPresent DEF vars, Plan, mgrVars, histVars
    <2> QED
        BY <1>2, <1>3, <2>1, NestedKept
<1> QED
    BY <1>1, <1>2, <1>3, <1>4, NestedSave, NestedDelete, NestedUnsave, NestedCreate

LEMMA OrderInit == Init => OrderInv
<1> SUFFICES ASSUME Init PROVE NestedLater /\ PassedAreBack
    BY DEF OrderInv
<1>1. groups = Groups /\ deletedJson = <<>> /\ ud.pc = "idle"
    BY DEF Init, NoUndo
<1>2. Pending = {}
    BY <1>1 DEF Pending
<1> QED
    BY <1>1, <1>2, ConfigurationAssumption DEF NestedLater, PassedAreBack

\* What the undo is about to create has on the manager all it refers to.
LEMMA OrderResolves ==
    ASSUME RecordInv, AloneInv, OrderInv
    PROVE  RestoresInOrder
<1> SUFFICES ASSUME edits = 0, lost = {}, ud.pc = "ask" PROVE Resolves(Now)
    BY DEF RestoresInOrder
<1> DEFINE o(i) == deletedJson[i].obj
           i == ud.cur
<1>1. /\ NestedLater /\ ud.left \subseteq Pending /\ i \in RestoreFirst(ud.left)
      /\ \A j \in Pending \ ud.left : o(j) \in Present
      /\ policies = Policies \ gone /\ groups = Groups \ gone
    BY DEF OrderInv, PassedAreBack, AloneInv, OthersAsBefore
<1>2. gone \subseteq PendingObjects /\ gone \cap Present = {}
    BY DEF RecordInv, DeletedIsRecorded, AloneInv, CandidatesOff
<1>3. i \in Pending /\ Now \in Entry /\ Now.obj = o(i) /\ deletedJson \in Seq(Entry)
    <2>1. i \in Pending /\ deletedJson \in Seq(Entry)
        BY <1>1 DEF RestoreFirst, RecordInv, TypeInv, TypeOK
    <2> QED
        BY <2>1 DEF Now, Pending
<1>4. \A j \in ud.left \ {i} : RestoredBefore(i, j)
    BY <1>1 DEF RestoreFirst
<1>6. ASSUME o(i) \notin Groups PROVE groups = Groups
    <2>1. ASSUME NEW g \in gone \cap Groups PROVE FALSE
        <3>1. PICK j \in Pending : o(j) = g
            BY <1>2 DEF PendingObjects
        <3>2. j \in ud.left /\ j # i
            BY <1>1, <1>2, <1>6, <2>1, <3>1
        <3> QED
            BY <1>4, <1>6, <2>1, <3>1, <3>2, ObjectsAssumption DEF RestoredBefore
    <2> QED
        BY <1>1, <2>1
<1>7. ASSUME o(i) \in Rules PROVE policies = Policies
    <2>1. ASSUME NEW p \in gone \cap Policies PROVE FALSE
        <3>1. PICK j \in Pending : o(j) = p
            BY <1>2 DEF PendingObjects
        <3>2. j \in ud.left /\ j # i
            BY <1>1, <1>2, <1>7, <2>1, <3>1, ObjectsAssumption
        <3> QED
            BY <1>4, <1>7, <2>1, <3>1, <3>2, ObjectsAssumption DEF RestoredBefore
    <2> QED
        BY <1>1, <2>1
<1>8. CASE o(i) \in Rules
    <2>1. groups = Groups /\ policies = Policies /\ Now.body \in Bodies
        BY <1>3, <1>6, <1>7, <1>8, ObjectsAssumption DEF Entry
    <2>2. PolicyOf[Now.obj] \in Policies /\ RefsOf[Now.obj][Now.body] \subseteq Groups
        BY <1>3, <1>8, <2>1, ConfigurationAssumption
    <2>3. Now.obj \in Rules /\ Now.obj \notin Policies /\ Now.obj \notin Groups
        BY <1>3, <1>8, ObjectsAssumption
    <2> QED
        BY <2>1, <2>2, <2>3 DEF Resolves
<1>9. CASE o(i) \in Policies
    <2>1. groups = Groups
        BY <1>6, <1>9, ObjectsAssumption
    <2> QED
        BY <1>3, <1>9, <2>1, ObjectsAssumption, ConfigurationAssumption DEF Resolves
<1>10. CASE o(i) \in Groups
    <2>1. ASSUME NEW h \in Nests[o(i)], h \notin groups PROVE FALSE
        <3>1. PICK j \in Pending : j > i /\ o(j) = h
            BY <1>1, <1>3, <1>10, <2>1 DEF NestedLater
        <3>2. h \in Groups /\ i \in Nat /\ j \in Nat
            BY <1>3, <1>10, <2>1, <3>1, ConfigurationAssumption DEF Pending
        <3>3. CASE j \in ud.left
            BY <1>4, <1>10, <3>1, <3>2, <3>3, ObjectsAssumption DEF RestoredBefore
        <3>4. CASE j \notin ud.left
            BY <1>1, <2>1, <3>1, <3>2, <3>4, ObjectsAssumption DEF Present, PresentRules, RecordInv, TypeInv, TypeOK
        <3> QED
            BY <3>3, <3>4
    <2> QED
        BY <1>3, <1>10, <2>1, ObjectsAssumption DEF Resolves
<1> QED
    BY <1>3, <1>8, <1>9, <1>10 DEF Entry, Objects

\* As long as nobody else writes, and if no groups nest in a loop, NSX has no
\* reason to refuse a re-creation of step2_undo, although an apply or an undo was
\* killed and run again (restore_order, rule_cleanup.py:647).
THEOREM RestoreOrderResolves == ASSUME NoNestingLoop PROVE Spec => []RestoresInOrder
<1>1. RecordInv => TypeInv
    BY DEF RecordInv
<1>2. TypeInv /\ AloneInv /\ OrderInv /\ [Next]_vars => OrderInv'
    BY OrderNext
<1>3. RecordInv /\ AloneInv /\ OrderInv => RestoresInOrder
    BY OrderResolves
<1> QED
    BY <1>1, <1>2, <1>3, OrderInit, RecordAlways, AloneAlways, PTL DEF Spec

-----------------------------------------------------------------------------
(* The order of deleting                                                    *)

\* What policies and groups refer to that the reviewed plan leaves.
Unreviewed == (UNION {AppliedTo[p] : p \in policies \ approved.policies})
              \cup (UNION {Nests[g] : g \in groups \ approved.groups})
Pinned == Closure(Unreviewed)

\* Each phase looks at its own kind; a group in hand is one parents_first gives.
InItsPhase ==
    de.pc # "idle" =>
        /\ de.phase = "rules" => de.left \subseteq Rules
        /\ de.phase = "policies" => de.left \subseteq Policies
        /\ de.phase = "groups" => de.left \subseteq approved.groups
        /\ de.pc \in {"ask", "delete"} =>
               de.cur \in de.left /\ (de.phase = "groups" => de.cur \in ParentsFirst(de.left))

\* A policy of the plan is still to come, or has rules.
PoliciesLeft ==
    de.pc # "idle" /\ de.phase # "rules" =>
        \A p \in approved.policies \cap policies :
            RulesIn(p) # {} \/ (de.phase = "policies" /\ p \in de.left)

\* A group to come that is not pinned is named only by groups to come.
GroupsLeft ==
    de.pc # "idle" /\ de.phase = "groups" =>
        \A g \in de.left \ Pinned :
            /\ g \notin consumers
            /\ \A r \in PresentRules : g \notin Refs(r)
            /\ \A p \in policies : g \notin AppliedTo[p]
            /\ \A h \in groups \ {g} : g \in Nests[h] => h \in de.left

Ordered == InItsPhase /\ PoliciesLeft /\ GroupsLeft
DeleteOrderInv == edits = 0 => Ordered

\* What a tool at work has its type.
LEMMA OnFields ==
    ASSUME TypeInv
    PROVE  /\ de \in Deleter
           /\ \A o : /\ On(o).pc = "next" /\ On(o).phase = de.phase /\ On(o).left = de.left \ {o}
                     /\ [On(o) EXCEPT !.wrote = TRUE].pc = "next"
                     /\ [On(o) EXCEPT !.wrote = TRUE].phase = de.phase
                     /\ [On(o) EXCEPT !.wrote = TRUE].left = de.left \ {o}
           /\ NoDelete.pc = "idle"
<1>1. de \in Deleter
    BY DEF TypeInv, TypeOK
<1> QED
    BY <1>1 DEF On, Deleter, NoDelete

\* The closure is the least set that holds the roots and what its groups nest.
LEMMA ClosureIsLeast ==
    ASSUME NEW roots \in SUBSET Groups
    PROVE  /\ roots \subseteq Closure(roots) /\ Closure(roots) \subseteq Groups
           /\ \A h \in Closure(roots) \cap groups : Nests[h] \subseteq Closure(roots)
           /\ \A s \in SUBSET Groups :
                  roots \subseteq s /\ (\A h \in s \cap groups : Nests[h] \subseteq s) => Closure(roots) \subseteq s
<1>1. roots \subseteq Closure(roots) /\ Closure(roots) \subseteq Groups
    BY DEF Closure
<1>2. ASSUME NEW h \in Closure(roots) \cap groups, NEW g \in Nests[h] PROVE g \in Closure(roots)
    <2>1. h \in Groups /\ g \in Groups
        BY <1>1, <1>2, ConfigurationAssumption
    <2>2. ASSUME NEW s \in SUBSET Groups, roots \subseteq s, \A k \in s \cap groups : Nests[k] \subseteq s
          PROVE  g \in s
        <3>1. h \in s
            BY <1>2, <2>2 DEF Closure
        <3> QED
            BY <1>2, <2>2, <3>1
    <2> QED
        BY <2>1, <2>2 DEF Closure
<1>3. ASSUME NEW s \in SUBSET Groups, roots \subseteq s, \A h \in s \cap groups : Nests[h] \subseteq s
      PROVE  Closure(roots) \subseteq s
    BY <1>3 DEF Closure
<1> QED
    BY <1>1, <1>2, <1>3

\* parents_first gives a group that none of the groups to come nests.
LEMMA ParentsFirstTop ==
    ASSUME NoNestingLoop, NEW left \in SUBSET Groups, NEW g \in ParentsFirst(left)
    PROVE  g \in left /\ \A h \in left : g \notin Nests[h]
<1> DEFINE tops == {k \in left : \A h \in left \ {k} : k \notin Nests[h]}
<1>1. g \in left
    BY DEF ParentsFirst
<1>2. \E k \in left : \A h \in left : k \notin Nests[h]
    BY <1>1 DEF NoNestingLoop
<1>3. tops # {}
    BY <1>2
<1>4. g \in tops
    BY <1>3 DEF ParentsFirst
<1> QED
    BY <1>1, <1>4, NoSelfNesting

\* What is referred to, group by group.
LEMMA UnreviewedMembers ==
    \A g : g \in Unreviewed <=> \/ \E p \in policies \ approved.policies : g \in AppliedTo[p]
                                \/ \E h \in groups \ approved.groups : g \in Nests[h]
BY DEF Unreviewed

LEMMA RootMembers ==
    ASSUME NEW del, NEW g
    PROVE  g \in Roots(del) <=> \/ g \in consumers
                                \/ \E p \in policies \ PoliciesToDelete(del) : g \in AppliedTo[p]
                                \/ \E r \in PresentRules \ del : g \in Refs(r)
                                \/ \E h \in groups \cap SystemGroups : g \in Nests[h]
BY DEF Roots

\* The unreviewed references are groups.
LEMMA UnreviewedType == TypeOK => Unreviewed \in SUBSET Groups
BY UnreviewedMembers, ConfigurationAssumption DEF TypeOK

\* What the order depends on besides step2_delete itself.
LEMMA OrderFrame ==
    ASSUME UNCHANGED <<live, policies, groups, consumers, approved>>
    PROVE  /\ Pinned' = Pinned /\ PresentRules' = PresentRules
           /\ \A p : RulesIn(p)' = RulesIn(p)
           /\ \A r : Refs(r)' = Refs(r)
BY DEF Pinned, Closure, Unreviewed, PresentRules, RulesIn, Refs

\* A step that leaves what step2_delete looks at, or takes one object off that is
\* not a policy without rules, nor a group that nests another.
LEMMA OrderKept ==
    ASSUME Ordered, UNCHANGED <<live, policies, groups, consumers, approved>>,
           de'.phase = de.phase, de.pc # "idle",
           de'.left = de.left \/ \E o \in de.left : /\ de'.left = de.left \ {o} /\ de'.pc = "next"
                                                    /\ o \in Policies => RulesIn(o) # {}
                                                    /\ o \in groups => o \in Pinned,
           de'.pc \in {"ask", "delete"} =>
               de'.cur \in de.left /\ (de.phase = "groups" => de'.cur \in ParentsFirst(de.left)),
           TypeInv
    PROVE  Ordered'
<1>1. /\ Pinned' = Pinned /\ PresentRules' = PresentRules
      /\ \A p : RulesIn(p)' = RulesIn(p)
      /\ \A r : Refs(r)' = Refs(r)
    BY OrderFrame
<1>2. InItsPhase /\ PoliciesLeft /\ GroupsLeft /\ de'.left \subseteq de.left
    BY DEF Ordered
<1>3. InItsPhase'
    <2>1. CASE de'.left = de.left
        BY <1>2, <2>1 DEF InItsPhase
    <2>2. CASE de'.pc = "next"
        BY <1>2, <2>2 DEF InItsPhase
    <2> QED
        BY <2>1, <2>2
<1>4. PoliciesLeft'
    BY <1>1, <1>2 DEF PoliciesLeft, TypeInv, TypeOK
<1>5. GroupsLeft'
    <2> SUFFICES ASSUME de.phase = "groups", NEW g \in de'.left \ Pinned
                 PROVE  /\ g \notin consumers
                        /\ \A r \in PresentRules : g \notin Refs(r)
                        /\ \A p \in policies : g \notin AppliedTo[p]
                        /\ \A h \in groups \ {g} : g \in Nests[h] => h \in de'.left
        BY <1>1 DEF GroupsLeft
    <2>1. /\ g \notin consumers
          /\ \A r \in PresentRules : g \notin Refs(r)
          /\ \A p \in policies : g \notin AppliedTo[p]
          /\ \A h \in groups \ {g} : g \in Nests[h] => h \in de.left
        BY <1>2 DEF GroupsLeft
    <2>2. ASSUME NEW h \in groups \ {g}, g \in Nests[h] PROVE h \in de'.left
        <3>1. h \notin Pinned
            BY <2>2, UnreviewedType, ClosureIsLeast DEF Pinned, TypeInv
        <3> QED
            BY <2>1, <2>2, <3>1
    <2> QED
        BY <2>1, <2>2
<1> QED
    BY <1>3, <1>4, <1>5 DEF Ordered

\* The groups phase starts with the groups that are unused now: what still names
\* one of them is to come too, or the plan leaves it.
LEMMA GroupsStart ==
    ASSUME TypeInv, Ordered, PoliciesDone
    PROVE  Ordered'
<1> DEFINE c == Closure(Roots({}))
<1>1. /\ TypeOK /\ policies \subseteq Policies /\ groups \subseteq Groups /\ consumers \subseteq Groups
      /\ live \in [Rules -> LiveRule] /\ approved \in Plans
    BY DEF TypeInv, TypeOK
<1>2. /\ de.pc = "next" /\ de.phase = "policies" /\ de.left = {}
      /\ de'.pc = "next" /\ de'.phase = "groups" /\ de'.left = GroupsToGo
      /\ UNCHANGED <<live, policies, groups, consumers, approved>>
    BY OnFields DEF PoliciesDone, mgrVars, runVars, Deleter
<1>3. /\ Pinned' = Pinned /\ PresentRules' = PresentRules
      /\ \A p : RulesIn(p)' = RulesIn(p)
      /\ \A r : Refs(r)' = Refs(r)
    BY <1>2, OrderFrame
<1>4. \A p \in approved.policies \cap policies : RulesIn(p) # {}
    BY <1>2 DEF Ordered, PoliciesLeft
<1>5. \A p \in policies : p \in PoliciesToDelete({}) => RulesIn(p) = {}
    BY DEF PoliciesToDelete
<1>6. /\ \A r \in PresentRules : Refs(r) \subseteq Roots({})
      /\ consumers \subseteq Roots({})
      /\ \A p \in policies : RulesIn(p) # {} => AppliedTo[p] \subseteq Roots({})
      /\ \A h \in groups \cap SystemGroups : Nests[h] \subseteq Roots({})
    BY <1>5, RootMembers
<1>7. Roots({}) \in SUBSET Groups
    <2>1. \A r \in PresentRules : Refs(r) \subseteq Groups
        BY <1>1, ConfigurationAssumption DEF PresentRules, Refs, LiveRule
    <2>2. \A p \in policies : AppliedTo[p] \subseteq Groups
        BY <1>1, ConfigurationAssumption
    <2>3. \A h \in groups : Nests[h] \subseteq Groups
        BY <1>1, ConfigurationAssumption
    <2> QED
        BY <1>1, <2>1, <2>2, <2>3, RootMembers
<1>8. /\ Roots({}) \subseteq c
      /\ \A h \in c \cap groups : Nests[h] \subseteq c
    BY <1>7, ClosureIsLeast
<1>9. GroupsToGo = {g \in approved.groups : g \in groups \ SystemGroups /\ g \notin c}
    BY DEF GroupsToGo, GroupsToDelete
<1> HIDE DEF c
<1>10. InItsPhase'
    BY <1>2, <1>9 DEF InItsPhase
<1>11. PoliciesLeft'
    BY <1>2, <1>3, <1>4 DEF PoliciesLeft
<1>12. Unreviewed \subseteq Pinned
    BY <1>1, UnreviewedType, ClosureIsLeast DEF Pinned
<1>13. GroupsLeft'
    <2> SUFFICES ASSUME NEW g \in GroupsToGo \ Pinned
                 PROVE  /\ g \notin consumers
                        /\ \A r \in PresentRules : g \notin Refs(r)
                        /\ \A p \in policies : g \notin AppliedTo[p]
                        /\ \A h \in groups \ {g} : g \in Nests[h] => h \in GroupsToGo
        BY <1>2, <1>3 DEF GroupsLeft
    <2>1. g \notin consumers /\ \A r \in PresentRules : g \notin Refs(r)
        BY <1>6, <1>8, <1>9
    <2>2. ASSUME NEW p \in policies, g \in AppliedTo[p] PROVE FALSE
        <3>1. CASE p \in approved.policies
            BY <1>4, <1>6, <1>8, <1>9, <2>2, <3>1
        <3>2. CASE p \notin approved.policies
            BY <1>12, <2>2, <3>2, UnreviewedMembers
        <3> QED
            BY <3>1, <3>2
    <2>3. ASSUME NEW h \in groups \ {g}, g \in Nests[h] PROVE h \in GroupsToGo
        <3>1. h \in approved.groups
            BY <1>12, <2>3, UnreviewedMembers
        <3>2. h \notin SystemGroups
            BY <1>6, <1>8, <1>9, <2>3
        <3>3. h \notin c
            BY <1>8, <1>9, <2>3
        <3> QED
            BY <1>9, <2>3, <3>1, <3>2, <3>3
    <2> QED
        BY <2>1, <2>2, <2>3
<1> QED
    BY <1>10, <1>11, <1>13 DEF Ordered

\* A step of step2_delete that writes nothing.
LEMMA OrderQuiet ==
    ASSUME TypeInv, Ordered, DeleteQuiet
    PROVE  Ordered'
<1>1. UNCHANGED <<live, policies, groups, consumers, approved>>
    BY QuietSteps DEF Quiet, mgrVars, runVars
<1>2. de \in Deleter /\ NoDelete.pc = "idle"
    BY OnFields
<1>3. /\ \A o : On(o).pc = "next" /\ On(o).phase = de.phase /\ On(o).left = de.left \ {o}
      /\ \A o, b : Ask(o, b) => de'.pc = "ask" /\ de'.phase = de.phase /\ de'.left = de.left /\ de'.cur = o
    BY <1>2, OnFields DEF Ask, Deleter
<1>4. ASSUME de'.pc = "idle" PROVE Ordered'
    BY <1>4 DEF Ordered, InItsPhase, PoliciesLeft, GroupsLeft
<1>5. CASE DeleteStart
    <2>1. de'.phase = "rules" /\ de'.pc = "next" /\ de'.left = approved.rules
        BY <1>5 DEF DeleteStart, NoDelete
    <2>2. approved.rules \subseteq Rules
        BY DEF TypeInv, TypeOK, Plans
    <2> QED
        BY <2>1, <2>2 DEF Ordered, InItsPhase, PoliciesLeft, GroupsLeft
<1>6. CASE RulesDone
    <2>1. de'.phase = "policies" /\ de'.pc = "next" /\ de'.left = approved.policies \cap policies
        BY <1>2, <1>6 DEF RulesDone, Deleter
    <2>2. policies \subseteq Policies
        BY DEF TypeInv, TypeOK
    <2> QED
        BY <1>1, <2>1, <2>2 DEF Ordered, InItsPhase, PoliciesLeft, GroupsLeft
<1>7. ASSUME NEW r \in Rules, RuleSkip(r) \/ RuleRead(r) PROVE Ordered'
    <2>1. r \in de.left /\ de.phase = "rules" /\ de.pc = "next" /\ r \notin Policies /\ r \notin groups
        BY <1>7, ObjectsAssumption DEF RuleSkip, RuleRead, InPhase, TypeInv, TypeOK
    <2>2. CASE RuleSkip(r)
        BY <1>1, <1>3, <2>1, <2>2, OrderKept DEF RuleSkip
    <2>3. CASE RuleRead(r)
        BY <1>1, <1>3, <2>1, <2>3, OrderKept DEF RuleRead
    <2> QED
        BY <1>7, <2>2, <2>3
<1>8. ASSUME NEW p \in Policies, PolicySkip(p) \/ PolicyRead(p) PROVE Ordered'
    <2>1. p \in de.left /\ de.phase = "policies" /\ de.pc = "next" /\ p \notin groups
        BY <1>8, ObjectsAssumption DEF PolicySkip, PolicyRead, InPhase, TypeInv, TypeOK
    <2>2. CASE PolicySkip(p)
        BY <1>1, <1>3, <2>1, <2>2, OrderKept DEF PolicySkip
    <2>3. CASE PolicyRead(p)
        BY <1>1, <1>3, <2>1, <2>3, OrderKept DEF PolicyRead
    <2> QED
        BY <1>8, <2>2, <2>3
<1>9. ASSUME NEW g \in Groups, GroupSkip(g) \/ GroupRead(g) PROVE Ordered'
    <2>1. /\ g \in de.left /\ g \in ParentsFirst(de.left) /\ de.phase = "groups" /\ de.pc = "next"
          /\ g \notin Policies
        BY <1>9, ObjectsAssumption DEF GroupSkip, GroupRead, InPhase
    <2>2. CASE GroupSkip(g)
        BY <1>1, <1>3, <2>1, <2>2, OrderKept DEF GroupSkip
    <2>3. CASE GroupRead(g)
        BY <1>1, <1>3, <2>1, <2>3, OrderKept DEF GroupRead
    <2> QED
        BY <1>9, <2>2, <2>3
<1> QED
    BY <1>2, <1>4, <1>5, <1>6, <1>7, <1>8, <1>9, GroupsStart
    DEF DeleteQuiet, DeleteFinish, DeleteStop, DeleteDies, PolicyVanished

\* A group that NSX refuses to delete is pinned.
LEMMA RefusedIsPinned ==
    ASSUME NoNestingLoop, TypeInv, Ordered, de.pc \in {"ask", "delete"}, de.cur \in groups, Referenced(de.cur)
    PROVE  de.cur \in Pinned
<1>1. /\ TypeOK /\ groups \subseteq Groups /\ approved \in Plans /\ de \in Deleter
      /\ InItsPhase /\ GroupsLeft
    BY DEF TypeInv, TypeOK, Ordered
<1>2. de.phase = "groups" /\ de.cur \in ParentsFirst(de.left) /\ de.left \in SUBSET Groups
    BY <1>1, ObjectsAssumption DEF InItsPhase, Deleter, Plans
<1>3. de.cur \in de.left /\ \A h \in de.left : de.cur \notin Nests[h]
    BY <1>2, ParentsFirstTop
<1> QED
    BY <1>1, <1>2, <1>3 DEF GroupsLeft, Referenced

\* A group that is deleted is named by nothing, so it pinned nothing.
LEMMA PinnedKept ==
    ASSUME NoNestingLoop, TypeOK, NEW d \in approved.groups \cap groups, ~Referenced(d),
           UNCHANGED <<policies, approved>>, groups' = groups \ {d}
    PROVE  Pinned' = Pinned
<1>1. groups \subseteq Groups /\ Unreviewed' = Unreviewed /\ Unreviewed \in SUBSET Groups
    BY UnreviewedType DEF TypeOK, Unreviewed
<1>2. /\ Unreviewed \subseteq Pinned /\ Pinned \subseteq Groups
      /\ \A h \in Pinned \cap groups : Nests[h] \subseteq Pinned
      /\ \A s \in SUBSET Groups :
             Unreviewed \subseteq s /\ (\A h \in s \cap groups : Nests[h] \subseteq s) => Pinned \subseteq s
    BY <1>1, ClosureIsLeast DEF Pinned
<1>3. d \notin Nests[d] /\ d \in Groups
    BY <1>1, NoSelfNesting
<1>4. d \notin Unreviewed /\ \A h \in groups : d \notin Nests[h]
    BY <1>3, UnreviewedMembers DEF Referenced
<1>5. d \notin Pinned
    <2>1. Pinned \ {d} \in SUBSET Groups /\ Unreviewed \subseteq Pinned \ {d}
        BY <1>2, <1>4
    <2>2. \A h \in (Pinned \ {d}) \cap groups : Nests[h] \subseteq Pinned \ {d}
        BY <1>2, <1>4
    <2>3. Pinned \subseteq Pinned \ {d}
        BY <1>2, <2>1, <2>2
    <2> QED
        BY <2>3
<1>6. Pinned' = {g \in Groups : \A s \in SUBSET Groups :
          Unreviewed \subseteq s /\ (\A h \in s \cap (groups \ {d}) : Nests[h] \subseteq s) => g \in s}
    BY <1>1 DEF Pinned, Closure
<1>7. ASSUME NEW g \in Pinned' PROVE g \in Pinned
    BY <1>2, <1>6, <1>7
<1>8. ASSUME NEW g \in Pinned PROVE g \in Pinned'
    <2> SUFFICES ASSUME NEW s \in SUBSET Groups, Unreviewed \subseteq s,
                        \A h \in s \cap (groups \ {d}) : Nests[h] \subseteq s
                 PROVE  g \in s
        BY <1>2, <1>6
    <2>1. s \cap Pinned \in SUBSET Groups /\ Unreviewed \subseteq s \cap Pinned
        BY <1>2
    <2>2. \A h \in (s \cap Pinned) \cap groups : Nests[h] \subseteq s \cap Pinned
        BY <1>2, <1>5
    <2>3. Pinned \subseteq s \cap Pinned
        BY <1>2, <2>1, <2>2
    <2> QED
        BY <2>3
<1> QED
    BY <1>7, <1>8

\* The object is deleted.
LEMMA OrderDelete ==
    ASSUME NoNestingLoop, TypeInv, RulesAsBefore, CandidatesOff, StillAsRead, Ordered, DeleteCall
    PROVE  Ordered'
<1>1. /\ TypeOK /\ de \in Deleter /\ de.pc = "delete" /\ NsxDeletes(de.cur) /\ Removed(de.cur)
      /\ policies \subseteq Policies /\ groups \subseteq Groups /\ approved \in Plans
      /\ UNCHANGED <<consumers, approved>>
      /\ InItsPhase /\ PoliciesLeft /\ GroupsLeft
    BY DEF TypeInv, TypeOK, DeleteCall, Ordered, runVars
<1>2. de.cur \in de.left /\ de'.pc = "next" /\ de'.phase = de.phase /\ de'.left = de.left \ {de.cur}
    BY <1>1, OnFields DEF DeleteCall, InItsPhase
<1>3. /\ policies' = policies \ {de.cur} /\ groups' = groups \ {de.cur}
      /\ PresentRules' = PresentRules \ {de.cur}
      /\ \A r \in PresentRules' : live'[r] = live[r]
    BY <1>1, RemovedAlone DEF Removed, PresentRules
<1>4. InItsPhase'
    BY <1>1, <1>2 DEF InItsPhase
<1>5. CASE de.phase = "rules"
    BY <1>2, <1>4, <1>5 DEF Ordered, PoliciesLeft, GroupsLeft
<1>6. CASE de.phase = "policies"
    <2>1. de.cur \in Policies
        BY <1>1, <1>2, <1>6 DEF InItsPhase
    <2>2. PresentRules' = PresentRules
        BY <1>3, <2>1, ObjectsAssumption DEF PresentRules
    <2>3. \A p : RulesIn(p)' = RulesIn(p)
        BY <2>2 DEF RulesIn
    <2>4. PoliciesLeft'
        BY <1>1, <1>2, <1>3, <1>6, <2>3 DEF PoliciesLeft
    <2> QED
        BY <1>2, <1>4, <1>6, <2>4 DEF Ordered, GroupsLeft
<1>7. CASE de.phase = "groups"
    <2>1. de.cur \in approved.groups /\ de.cur \in Groups /\ de.cur \notin Policies /\ de.cur \notin Rules
        BY <1>1, <1>2, <1>7, ObjectsAssumption DEF InItsPhase, Plans
    <2>2. de.cur \in groups /\ ~Referenced(de.cur)
        BY <1>1, <2>1 DEF NsxDeletes, Present, PresentRules
    <2>3. policies' = policies /\ PresentRules' = PresentRules
        BY <1>1, <1>3, <2>1 DEF PresentRules
    <2>4. Pinned' = Pinned
        BY <1>1, <1>3, <2>1, <2>2, <2>3, PinnedKept
    <2>5. /\ \A p : RulesIn(p)' = RulesIn(p)
          /\ \A r \in PresentRules : Refs(r)' = Refs(r)
        BY <1>3, <2>3 DEF RulesIn, Refs
    <2>6. PoliciesLeft'
        BY <1>1, <1>2, <1>7, <2>3, <2>5 DEF PoliciesLeft
    <2>7. GroupsLeft'
        BY <1>1, <1>2, <1>3, <1>7, <2>3, <2>4, <2>5 DEF GroupsLeft
    <2> QED
        BY <1>4, <2>6, <2>7 DEF Ordered
<1> QED
    BY <1>1, <1>5, <1>6, <1>7 DEF Deleter

\* The order is kept by every step as long as nobody else writes.
LEMMA DeleteOrderNext ==
    ASSUME NoNestingLoop, TypeInv, AloneInv, DeleteOrderInv, [Next]_vars
    PROVE  DeleteOrderInv'
<1> SUFFICES ASSUME edits' = 0 PROVE Ordered'
    BY DEF DeleteOrderInv
<1>1. /\ edits = 0
      /\ \/ UNCHANGED vars \/ Plan \/ DeleteQuiet \/ UndoQuiet
         \/ DeleteSave \/ DeleteCall \/ DeleteLost
         \/ DeleteRefused \/ DeleteMissing \/ DeleteFails \/ UndoCreate \/ UndoLost
    BY AloneSteps
<1>2. Ordered /\ RulesAsBefore /\ CandidatesOff /\ StillAsRead
    BY <1>1 DEF DeleteOrderInv, AloneInv
<1>3. de \in Deleter /\ NoDelete.pc = "idle"
    BY OnFields
<1>4. ASSUME de'.pc = "idle" PROVE Ordered'
    BY <1>4 DEF Ordered, InItsPhase, PoliciesLeft, GroupsLeft
<1>5. ASSUME UNCHANGED <<live, policies, groups, consumers, approved, de>> PROVE Ordered'
    <2>1. CASE de.pc = "idle"
        BY <1>4, <1>5, <2>1
    <2>2. CASE de.pc # "idle"
        BY <1>2, <1>5, <2>2, OrderKept DEF Ordered, InItsPhase
    <2> QED
        BY <2>1, <2>2
<1>6. CASE UNCHANGED vars \/ UndoQuiet
    BY <1>5, <1>6, QuietSteps DEF vars, Quiet, mgrVars, runVars
<1>7. CASE Plan \/ UndoCreate \/ UndoLost
    <2>1. de' = de /\ de.pc = "idle"
        BY <1>7, CreatePending DEF Plan, Idle, UndoCreate, UndoLost
    <2> QED
        BY <1>4, <2>1
<1>8. CASE DeleteSave
    <2>1. /\ de.pc = "ask" /\ de'.pc = "delete" /\ de'.phase = de.phase /\ de'.left = de.left /\ de'.cur = de.cur
          /\ UNCHANGED <<live, policies, groups, consumers, approved>>
        BY <1>3, <1>8 DEF DeleteSave, mgrVars, Deleter
    <2> QED
        BY <1>2, <2>1, OrderKept DEF Ordered, InItsPhase
<1>9. CASE DeleteRefused
    <2>1. /\ de.pc = "delete" /\ de.cur \in groups /\ Referenced(de.cur)
          /\ de'.pc = "next" /\ de'.phase = de.phase /\ de'.left = de.left \ {de.cur}
          /\ UNCHANGED <<live, policies, groups, consumers, approved>>
        BY <1>9, OnFields DEF DeleteRefused, mgrVars
    <2>2. de.cur \in Pinned /\ de.cur \in de.left
        BY <1>2, <2>1, RefusedIsPinned DEF Ordered, InItsPhase
    <2>3. de.cur \notin Policies
        BY <2>1, ObjectsAssumption DEF TypeInv, TypeOK
    <2> QED
        BY <1>2, <2>1, <2>2, <2>3, OrderKept
<1>10. CASE DeleteMissing \/ DeleteFails \/ DeleteLost
    BY <1>3, <1>4, <1>10 DEF DeleteMissing, DeleteFails, DeleteLost
<1> QED
    BY <1>1, <1>2, <1>6, <1>7, <1>8, <1>9, <1>10, OrderQuiet, OrderDelete

\* As long as nobody else writes, and if no groups nest in a loop: NSX refuses to
\* delete a group only over what the reviewed plan leaves (parents_first,
\* rule_cleanup.py:457), and has no reason to refuse a re-creation of step2_undo
\* (restore_order, rule_cleanup.py:647), although an apply or an undo was killed and
\* run again.
THEOREM OrdersAlwaysResolve == ASSUME NoNestingLoop PROVE Spec => []OrdersResolve
<1>1. Init => DeleteOrderInv
    BY DEF Init, NoDelete, DeleteOrderInv, Ordered, InItsPhase, PoliciesLeft, GroupsLeft
<1>2. TypeInv /\ AloneInv /\ DeleteOrderInv /\ [Next]_vars => DeleteOrderInv'
    BY DeleteOrderNext
<1>3. TypeInv /\ DeleteOrderInv => DeletesInOrder
    <2> SUFFICES ASSUME TypeInv, DeleteOrderInv, edits = 0, de.pc = "delete", de.cur \in groups, Referenced(de.cur)
                 PROVE  de.cur \in Pinned
        BY DEF DeletesInOrder, Pinned, Unreviewed
    <2> QED
        BY RefusedIsPinned DEF DeleteOrderInv
<1>4. RecordInv => TypeInv
    BY DEF RecordInv
<1> QED
    BY <1>1, <1>2, <1>3, <1>4, RestoreOrderResolves, RecordAlways, AloneAlways, PTL DEF Spec, OrdersResolve

=============================================================================
