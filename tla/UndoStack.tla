----------------------------- MODULE UndoStack -----------------------------
(* What a stack of baselines promises: before anything is changed under a   *)
(* key, its value is saved on top of the stack; the top is taken off only   *)
(* when its values are back.  Other people change keys too, which are loose *)
(* from then on, or are let go; whatever happens, every other key without a saved value    *)
(* has its first value.                                                     *)
EXTENDS Naturals, Sequences, SequencesExt

CONSTANTS Keys, Values

VARIABLES value,    \* the value of each key
          stack,    \* the saved values of sets of keys, the newest last
          loose,    \* the keys somebody else changed
          first     \* the values at the start
vars == <<value, stack, loose, first>>

TypeOK == /\ value \in [Keys -> Values]
          /\ stack \in Seq(UNION {[K -> Values] : K \in SUBSET Keys})
          /\ loose \subseteq Keys
          /\ first \in [Keys -> Values]

Init == /\ first \in [Keys -> Values]
        /\ value = first
        /\ stack = <<>>
        /\ loose = {}

\* Keys with a saved value.
Open == UNION {DOMAIN stack[i] : i \in DOMAIN stack}

Save(K) == /\ stack' = Append(stack, [k \in K |-> value[k]])
           /\ UNCHANGED <<value, loose, first>>

Change(k, v) == /\ k \in Open
                /\ value' = [value EXCEPT ![k] = v]
                /\ UNCHANGED <<stack, loose, first>>

Disturb(k, v) == /\ value' = [value EXCEPT ![k] = v]
                 /\ loose' = loose \cup {k}
                 /\ UNCHANGED <<stack, first>>

LetGo(K) == /\ loose' = loose \cup K
            /\ UNCHANGED <<value, stack, first>>

TakeOff == /\ stack # <<>>
           /\ \A k \in DOMAIN Last(stack) \ loose : value[k] = Last(stack)[k]
           /\ stack' = Front(stack)
           /\ UNCHANGED <<value, loose, first>>

Next == \/ \E K \in SUBSET Keys : Save(K) \/ LetGo(K)
        \/ \E k \in Keys, v \in Values : Change(k, v) \/ Disturb(k, v)
        \/ TakeOff

Spec == Init /\ [][Next]_vars

\* Every key that is not loose and has no saved value has its first value.
Undone == \A k \in Keys \ (Open \cup loose) : value[k] = first[k]
=============================================================================
