-------------------------- MODULE UndoStackProofs --------------------------
(* The promise of the undo stack, for any keys, values and stack.           *)
EXTENDS UndoStack, TLAPS

Saved == UNION {[K -> Values] : K \in SUBSET Keys}

\* The oldest saved value of a key that is not loose is its first value.
OldestIsFirst ==
    \A i \in DOMAIN stack : \A k \in DOMAIN stack[i] \ loose :
        (\A j \in DOMAIN stack : j < i => k \notin DOMAIN stack[j])
            => stack[i][k] = first[k]

IInv == TypeOK /\ Undone /\ OldestIsFirst

\* Saving adds a baseline on top: it is the oldest only of keys not saved before,
\* which have their first value.
LEMMA SavePreserves ==
    ASSUME IInv, NEW K \in SUBSET Keys, Save(K)
    PROVE  IInv'
<1> DEFINE top == [k \in K |-> value[k]]
<1>1. stack \in Seq(Saved) /\ top \in Saved
  BY DEF IInv, TypeOK, Saved
<1>2. stack' = Append(stack, top) /\ value' = value /\ loose' = loose /\ first' = first
  BY DEF Save
<1> HIDE DEF top
<1>3. stack' \in Seq(Saved) /\ DOMAIN stack' = 1..(Len(stack) + 1)
      /\ DOMAIN stack = 1..Len(stack) /\ Len(stack) \in Nat
  BY <1>1, <1>2
<1>4. /\ \A i \in DOMAIN stack : stack'[i] = stack[i]
      /\ stack'[Len(stack) + 1] = top
  BY <1>1, <1>2
<1>5. DOMAIN top = K /\ \A k \in K : top[k] = value[k]
  BY DEF top
<1>6. TypeOK'
  BY <1>2, <1>3 DEF IInv, TypeOK, Saved
<1>7. Open \subseteq Open'
  BY <1>3, <1>4 DEF Open
<1>8. Undone'
  BY <1>2, <1>7 DEF IInv, Undone
<1>9. OldestIsFirst'
  <2> SUFFICES ASSUME NEW i \in DOMAIN stack', NEW k \in DOMAIN stack'[i] \ loose,
                      \A j \in DOMAIN stack' : j < i => k \notin DOMAIN stack'[j]
               PROVE  stack'[i][k] = first[k]
    BY <1>2 DEF OldestIsFirst
  <2>1. CASE i \in DOMAIN stack
    <3>1. \A j \in DOMAIN stack : j < i => k \notin DOMAIN stack[j]
      BY <1>3, <1>4
    <3>2. QED
      BY <2>1, <3>1, <1>4 DEF IInv, OldestIsFirst
  <2>2. CASE i = Len(stack) + 1
    <3>1. k \in K /\ k \in Keys /\ stack'[i][k] = value[k]
      BY <2>2, <1>4, <1>5
    <3>2. k \notin Open
      BY <2>2, <1>3, <1>4 DEF Open
    <3>3. QED
      BY <3>1, <3>2 DEF IInv, Undone
  <2>3. QED
    BY <2>1, <2>2, <1>3
<1>10. QED
  BY <1>6, <1>8, <1>9 DEF IInv

\* Taking the top off leaves a key either saved further down, or saved nowhere,
\* and then the top was its oldest value and is its value.
LEMMA TakeOffPreserves ==
    ASSUME IInv, TakeOff
    PROVE  IInv'
<1> DEFINE n == Len(stack)
<1>1. stack \in Seq(Saved) /\ n \in Nat \ {0} /\ DOMAIN stack = 1..n
  BY DEF IInv, TypeOK, Saved, TakeOff
<1>2. /\ stack' = SubSeq(stack, 1, n - 1) /\ value' = value /\ loose' = loose /\ first' = first
      /\ \A k \in DOMAIN stack[n] \ loose : value[k] = stack[n][k]
  BY DEF TakeOff, Last, Front
<1> HIDE DEF n
<1>3. stack' \in Seq(Saved) /\ DOMAIN stack' = 1..(n - 1)
      /\ \A i \in 1..(n - 1) : stack'[i] = stack[i]
  BY <1>1, <1>2
<1>4. TypeOK'
  BY <1>2, <1>3 DEF IInv, TypeOK, Saved
<1>5. Undone'
  <2> SUFFICES ASSUME NEW k \in Keys \ (Open' \cup loose)
               PROVE  value[k] = first[k]
    BY <1>2 DEF Undone
  <2>1. \A i \in 1..(n - 1) : k \notin DOMAIN stack[i]
    BY <1>3 DEF Open
  <2>2. CASE k \in DOMAIN stack[n]
    <3>1. \A j \in DOMAIN stack : j < n => k \notin DOMAIN stack[j]
      BY <1>1, <2>1
    <3>2. stack[n][k] = first[k]
      BY <2>2, <3>1, <1>1 DEF IInv, OldestIsFirst
    <3>3. QED
      BY <2>2, <3>2, <1>2
  <2>3. CASE k \notin DOMAIN stack[n]
    <3>1. k \notin Open
      <4> SUFFICES ASSUME NEW i \in DOMAIN stack
                   PROVE  k \notin DOMAIN stack[i]
        BY DEF Open
      <4>1. i = n \/ i \in 1..(n - 1)
        BY <1>1
      <4>2. QED
        BY <4>1, <2>1, <2>3
    <3>2. QED
      BY <3>1 DEF IInv, Undone
  <2>4. QED
    BY <2>2, <2>3
<1>6. OldestIsFirst'
  <2> SUFFICES ASSUME NEW i \in DOMAIN stack', NEW k \in DOMAIN stack'[i] \ loose,
                      \A j \in DOMAIN stack' : j < i => k \notin DOMAIN stack'[j]
               PROVE  stack'[i][k] = first[k]
    BY <1>2 DEF OldestIsFirst
  <2>1. i \in DOMAIN stack /\ i \in 1..(n - 1) /\ stack'[i] = stack[i]
    BY <1>1, <1>3
  <2>2. \A j \in DOMAIN stack : j < i => k \notin DOMAIN stack[j]
    BY <1>1, <1>3, <2>1
  <2>3. QED
    BY <2>1, <2>2 DEF IInv, OldestIsFirst
<1>7. QED
  BY <1>4, <1>5, <1>6 DEF IInv

\* A step of somebody else or under a saved key disturbs no key of Undone.
LEMMA ChangePreserves ==
    ASSUME IInv, NEW k \in Keys, NEW v \in Values, Change(k, v) \/ Disturb(k, v)
    PROVE  IInv'
<1>1. /\ value' = [value EXCEPT ![k] = v] /\ stack' = stack /\ first' = first
      /\ loose \subseteq loose' /\ loose' \subseteq Keys
      /\ k \in Open \cup loose'
  BY DEF Change, Disturb, IInv, TypeOK
<1>2. Open' = Open
  BY <1>1 DEF Open
<1>3. TypeOK'
  BY <1>1 DEF IInv, TypeOK
<1>4. Undone'
  BY <1>1, <1>2 DEF IInv, Undone, TypeOK
<1>5. OldestIsFirst'
  BY <1>1 DEF IInv, OldestIsFirst
<1>6. QED
  BY <1>3, <1>4, <1>5 DEF IInv

\* Letting keys go leaves less to prove.
LEMMA LetGoPreserves ==
    ASSUME IInv, NEW K \in SUBSET Keys, LetGo(K)
    PROVE  IInv'
<1>1. value' = value /\ stack' = stack /\ first' = first /\ loose' = loose \cup K
  BY DEF LetGo
<1>2. TypeOK' /\ Undone'
  BY <1>1 DEF IInv, TypeOK, Undone, Open
<1>3. OldestIsFirst'
  BY <1>1 DEF IInv, OldestIsFirst
<1>4. QED
  BY <1>2, <1>3 DEF IInv

\* In every reachable state, a key that nobody else changed and that has no
\* saved value has its first value: an emptied stack of baselines has undone
\* everything, however saves, changes and reverts followed each other.
THEOREM StackUndoes == Spec => []Undone
<1>1. Init => IInv
  BY DEF Init, IInv, TypeOK, Undone, OldestIsFirst, Open
<1>2. IInv /\ [Next]_vars => IInv'
  <2> SUFFICES ASSUME IInv, [Next]_vars
               PROVE  IInv'
    OBVIOUS
  <2>1. CASE \E K \in SUBSET Keys : Save(K)
    BY <2>1, SavePreserves
  <2>6. CASE \E K \in SUBSET Keys : LetGo(K)
    BY <2>6, LetGoPreserves
  <2>2. CASE \E k \in Keys, v \in Values : Change(k, v) \/ Disturb(k, v)
    BY <2>2, ChangePreserves
  <2>3. CASE TakeOff
    BY <2>3, TakeOffPreserves
  <2>4. CASE UNCHANGED vars
    BY <2>4 DEF vars, IInv, TypeOK, Undone, OldestIsFirst, Open
  <2>5. QED
    BY <2>1, <2>2, <2>3, <2>4, <2>6 DEF Next
<1>3. IInv => Undone
  BY DEF IInv
<1>4. QED
  BY <1>1, <1>2, <1>3, PTL DEF Spec
=============================================================================
