--------------------------- MODULE HitClientProofs ---------------------------
(***************************************************************************)
(* Proofs about HitHistory: what the readings of a rule's total say of its *)
(* hits, for every period, time span, number of hits, of resets and of     *)
(* snapshots.  Proofs about NsxClient: that its requests keep the rate and *)
(* that what its tools report is whole, for every number of threads, of    *)
(* objects, of repetitions and of faults.                                  *)
(***************************************************************************)
EXTENDS HitHistory, NsxClient, Integers, FiniteSetTheorems, WellFoundedInduction, TLAPS

Times == \A i, j \in 1..Len(readings) : i <= j => readings[i].t <= readings[j].t

\* TypeOK, readings in order of time, none of the future; a report that has read
\* the total has room for its snapshot and read the total of no later epoch.
TypeInv ==
    /\ TypeOK
    /\ Times
    /\ \A i \in 1..Len(readings) : readings[i].t <= now
    /\ taking # None => taking.epoch <= epoch /\ Len(readings) < MaxReadings

\* A reading of the present epoch is no higher than the total; one that equals
\* the total is no older than the last hit.
PresentInv ==
    /\ \A i \in 1..Len(readings) : epochs[i] = epoch =>
           /\ created <= readings[i].t /\ readings[i].c <= count
           /\ readings[i].c = count /\ lastHit # None => lastHit <= readings[i].t
    /\ taking # None /\ taking.epoch = epoch => taking.c <= count

\* Before the first reset or re-creation a hit rule has a total.
FirstEpochInv == epoch = 0 /\ lastHit # None => count > 0

\* In the first epoch, no row missed, readings never fall; and one that was
\* begun after the save of another, itself later than the last hit, has the
\* present total.
QuietSince(k) == lastHit # None => lastHit < readings[k].t
RisingInv ==
    epoch = 0 /\ ~missed =>
        /\ \A i, j \in 1..Len(readings) : i <= j => readings[i].c <= readings[j].c
        /\ \A i \in 1..Len(readings) : readings[i].c <= count
        /\ \A i \in 2..Len(readings) : QuietSince(i-1) => readings[i].c = count
        /\ taking # None =>
               /\ taking.c <= count
               /\ \A i \in 1..Len(readings) : readings[i].c <= taking.c
               /\ Len(readings) > 0 /\ QuietSince(Len(readings)) => taking.c = count

-----------------------------------------------------------------------------
(* Least and greatest elements                                              *)

Less == {p \in Nat \X Nat : p[1] < p[2]}

LEMMA LeastExists ==
    ASSUME NEW S \in SUBSET Nat, S # {}
    PROVE  \E m \in S : \A k \in S : m <= k
<1>1. OpToRel(<, Nat) = Less
    BY DEF OpToRel, Less
<1>2. PICK m \in S : \A k \in S : ~(<<k, m>> \in Less)
    BY <1>1, NatLessThanWellFounded, WFMin
<1>3. ASSUME NEW i \in Nat, NEW j \in Nat, i < j PROVE <<i, j>> \in Less
    BY <1>3 DEF Less
<1>4. \A k \in S : ~(k < m)
    BY <1>2, <1>3
<1> QED
    BY <1>4

LEMMA GreatestExists ==
    ASSUME NEW n \in Nat, NEW S \in SUBSET (0..n), S # {}
    PROVE  \E m \in S : \A k \in S : k <= m
<1> DEFINE T == {i \in 0..n : n - i \in S}
<1>1. ASSUME NEW k \in S PROVE n - k \in T
    <2>1. n - k \in 0..n /\ n - (n - k) = k
        OBVIOUS
    <2> QED
        BY <2>1
<1>2. T \in SUBSET Nat
    OBVIOUS
<1>3. T # {}
    <2>1. PICK k \in S : TRUE
        OBVIOUS
    <2> QED
        BY <1>1, <2>1
<1>4. \A i \in T : n - i \in S /\ i \in 0..n
    OBVIOUS
<1> HIDE DEF T
<1>5. PICK m \in T : \A k \in T : m <= k
    BY <1>2, <1>3, LeastExists
<1>6. ASSUME NEW k \in S PROVE k <= n - m
    BY <1>1, <1>4, <1>5
<1> QED
    BY <1>4, <1>5, <1>6

LEMMA ElementOf ==
    ASSUME NEW S, NEW s \in Seq(S), NEW i \in 1..Len(s)
    PROVE  s[i] \in S
OBVIOUS

LEMMA SeqWidens ==
    ASSUME NEW S, NEW T, S \subseteq T, NEW s \in Seq(S)
    PROVE  s \in Seq(T)
OBVIOUS

-----------------------------------------------------------------------------
(* Start and Reached                                                        *)

Counts == [t: Nat, c: Nat]

\* Start is the last drop, or the first reading.
LEMMA StartIsLastDrop ==
    ASSUME NEW s \in Seq(Counts), Len(s) > 0
    PROVE  /\ Start(s) \in 1..Len(s)
           /\ \A i \in 2..Len(s) : i > Start(s) => s[i-1].c <= s[i].c
<1>a. \A i \in 2..Len(s) : s[i-1].c \in Nat /\ s[i].c \in Nat
    <2> TAKE i \in 2..Len(s)
    <2>1. s[i-1] \in Counts /\ s[i] \in Counts
        BY ElementOf
    <2> QED
        BY <2>1 DEF Counts
<1>1. CASE Drops(s) = {}
    <2>1. Start(s) = 1
        BY <1>1 DEF Start
    <2>2. \A i \in 2..Len(s) : ~(s[i].c < s[i-1].c)
        BY <1>1 DEF Drops
    <2> QED
        BY <1>a, <2>1, <2>2
<1>2. CASE Drops(s) # {}
    <2>1. Len(s) \in Nat /\ Drops(s) \in SUBSET (0..Len(s))
        BY DEF Drops
    <2>2. \E m \in Drops(s) : \A k \in Drops(s) : k <= m
        BY <1>2, <2>1, GreatestExists
    <2>3. Start(s) \in Drops(s) /\ \A k \in Drops(s) : k <= Start(s)
        BY <1>2, <2>2 DEF Start
    <2>4. Start(s) \in 2..Len(s)
        BY <2>3 DEF Drops
    <2>5. \A i \in 2..Len(s) : i > Start(s) => i \notin Drops(s)
        BY <2>3, <2>4
    <2>6. \A i \in 2..Len(s) : i > Start(s) => ~(s[i].c < s[i-1].c)
        BY <2>5 DEF Drops
    <2> QED
        BY <1>a, <2>4, <2>6
<1> QED
    BY <1>1, <1>2

\* Reached is the first reading from Start on with the newest total.
LEMMA ReachedIsFirst ==
    ASSUME NEW s \in Seq(Counts), Len(s) > 0
    PROVE  /\ Reached(s) \in Start(s)..Len(s) /\ s[Reached(s)].c = s[Len(s)].c
           /\ \A i \in Start(s)..Len(s) : s[i].c = s[Len(s)].c => Reached(s) <= i
<1> DEFINE same == {i \in Start(s)..Len(s) : s[i].c = s[Len(s)].c}
<1>1. Start(s) \in 1..Len(s)
    BY StartIsLastDrop
<1>2. same \in SUBSET Nat /\ Len(s) \in same
    BY <1>1
<1>3. \E m \in same : \A k \in same : m <= k
    BY <1>2, LeastExists
<1>4. Reached(s) \in same /\ \A j \in same : Reached(s) <= j
    BY <1>3 DEF Reached
<1> QED
    BY <1>4

-----------------------------------------------------------------------------
\* What build_plan reads.
LEMMA SeriesShape ==
    ASSUME TypeInv
    PROVE  /\ Series \in Seq(Counts) /\ Len(Series) = Len(readings) + 1
           /\ Len(readings) \in Nat
           /\ Series[Len(Series)].t = now /\ Series[Len(Series)].c = count
           /\ \A i \in 1..Len(readings) : Series[i] = readings[i]
<1>1. Reading \subseteq Counts
    BY BoundsAssumption DEF Reading, Counts
<1>2. readings \in Seq(Counts)
    BY <1>1, SeqWidens DEF TypeInv, TypeOK
<1>3. [t |-> now, c |-> count] \in Counts
    BY BoundsAssumption DEF TypeInv, TypeOK, Counts
<1> QED
    BY <1>2, <1>3 DEF Series

LEMMA ReadingTypes ==
    ASSUME TypeInv
    PROVE  \A i \in 1..Len(readings) :
               /\ readings[i].t \in Nat /\ readings[i].c \in Nat
               /\ epochs[i] \in 0..epoch
<1> TAKE i \in 1..Len(readings)
<1>1. readings[i] \in Reading /\ epochs[i] \in 0..epoch
    BY ElementOf DEF TypeInv, TypeOK
<1> QED
    BY <1>1, BoundsAssumption DEF Reading

LEMMA TypeInit == Init => TypeInv
<1> SUFFICES ASSUME Init PROVE TypeInv
    OBVIOUS
<1>1. readings \in Seq(Reading) /\ Len(readings) = 0 /\ epochs \in Seq(0..epoch) /\ Len(epochs) = 0
    BY DEF Init
<1>2. Times /\ \A i \in 1..Len(readings) : readings[i].t <= now
    BY <1>1 DEF Times
<1>3. \A i \in 2..Len(readings) : readings[i-1].t <= readings[i].t
    BY <1>1
<1>4. /\ now = 0 /\ created = 0 /\ count = 0 /\ taking = None
      /\ lastHit = None /\ epoch = 0 /\ missed = FALSE
    BY DEF Init
<1>5. TypeOK
    <2>1. now \in 0..MaxTime /\ created \in 0..now /\ count \in 0..MaxHits
        BY <1>4, BoundsAssumption
    <2>2. Len(readings) <= MaxReadings /\ Len(epochs) = Len(readings) /\ epoch \in 0..MaxResets
        BY <1>1, <1>4, BoundsAssumption
    <2>3. /\ taking \in [c: 0..MaxHits, epoch: 0..MaxResets] \cup {None}
          /\ lastHit \in (0..now) \cup {None} /\ missed \in BOOLEAN
        BY <1>4
    <2> QED
        BY <1>1, <1>3, <2>1, <2>2, <2>3 DEF TypeOK
<1> QED
    BY <1>2, <1>4, <1>5 DEF TypeInv

LEMMA TypeNext == TypeInv /\ [Next]_vars => TypeInv'
<1> SUFFICES ASSUME TypeInv, [Next]_vars PROVE TypeInv'
    OBVIOUS
<1> USE PeriodAssumption, BoundsAssumption
<1>1. CASE Tick
    <2>1. \A i \in 1..Len(readings) : readings[i].t <= now + 1
        <3>1. now \in 0..MaxTime
            BY DEF TypeInv, TypeOK
        <3>2. \A i \in 1..Len(readings) : readings[i].t <= now
            BY DEF TypeInv
        <3> QED
            BY <3>1, <3>2, ReadingTypes
    <2>2. Times' /\ created \in 0..(now + 1) /\ now + 1 \in 0..MaxTime
        <3>1. readings' = readings /\ Times
            BY <1>1 DEF Tick, TypeInv
        <3>2. now \in 0..MaxTime /\ created \in 0..now /\ now < MaxTime
            BY <1>1 DEF Tick, TypeInv, TypeOK
        <3>3. Times'
            BY <3>1 DEF Times
        <3> QED
            BY <3>2, <3>3
    <2>3. lastHit \in (0..(now + 1)) \cup {None}
        BY DEF TypeInv, TypeOK
    <2> QED
        BY <1>1, <2>1, <2>2, <2>3 DEF Tick, TypeInv, TypeOK
<1>2. CASE Hit
    BY <1>2 DEF Hit, TypeInv, TypeOK, Times
<1>3. CASE SnapshotRead
    BY <1>3 DEF SnapshotRead, TypeInv, TypeOK, Times
<1>4. CASE SnapshotSave
    <2> DEFINE r == [t |-> now, c |-> taking.c]
               n == Len(readings)
    <2>1. /\ taking \in [c: 0..MaxHits, epoch: 0..MaxResets] /\ taking.epoch \in 0..epoch
          /\ n \in Nat /\ n < MaxReadings /\ r \in Reading
        BY <1>4 DEF SnapshotSave, TypeInv, TypeOK, Reading
    <2>2. /\ readings' \in Seq(Reading) /\ Len(readings') = n + 1 /\ readings'[n+1].t = now
          /\ \A i \in 1..n : readings'[i] = readings[i]
        BY <1>4, <2>1 DEF SnapshotSave, Saved, TypeInv, TypeOK
    <2>3. epochs' \in Seq(0..epoch) /\ Len(epochs') = n + 1
        BY <1>4, <2>1 DEF SnapshotSave, TypeInv, TypeOK
    <2>4. \A i \in 1..n : readings[i].t \in Nat
        BY ReadingTypes
    <2>5. Times' /\ \A i \in 1..Len(readings') : readings'[i].t <= now
        <3>1. now \in Nat /\ \A i \in 1..n : readings[i].t <= now
            BY DEF TypeInv, TypeOK
        <3>2. \A i \in 1..(n+1) : readings'[i].t <= now
            <4> TAKE i \in 1..(n+1)
            <4>1. i \in 1..n \/ i = n + 1
                BY <2>1
            <4> QED
                BY <2>2, <3>1, <4>1
        <3>3. ASSUME NEW i \in 1..(n+1), NEW j \in 1..(n+1), i <= j
              PROVE  readings'[i].t <= readings'[j].t
            <4>1. CASE j = n + 1
                BY <2>2, <3>2, <4>1
            <4>2. CASE j # n + 1
                <5>1. i \in 1..n /\ j \in 1..n
                    BY <2>1, <3>3, <4>2
                <5> QED
                    BY <2>2, <3>3, <5>1 DEF TypeInv, Times
            <4> QED
                BY <4>1, <4>2
        <3> QED
            BY <2>2, <3>2, <3>3 DEF Times
    <2>6. \A i \in 2..Len(readings') : readings'[i-1].t <= readings'[i].t
        BY <2>1, <2>2, <2>5 DEF Times
    <2>7. /\ taking' = None /\ Len(readings') <= MaxReadings /\ Len(epochs') = Len(readings')
          /\ UNCHANGED <<now, created, count, lastHit, epoch, missed>>
        BY <1>4, <2>1, <2>2, <2>3 DEF SnapshotSave
    <2>8. TypeOK'
        BY <2>2, <2>3, <2>6, <2>7 DEF TypeInv, TypeOK
    <2> QED
        BY <2>5, <2>7, <2>8 DEF TypeInv
<1>5. CASE Reset \/ Recreate
    <2>1. epochs \in Seq(0..(epoch + 1))
        <3>1. epochs \in Seq(0..epoch) /\ 0..epoch \subseteq 0..(epoch + 1)
            BY DEF TypeInv, TypeOK
        <3> QED
            BY <3>1, SeqWidens
    <2>2. epoch' = epoch + 1 /\ epoch' \in 0..MaxResets /\ count' = 0 /\ created' \in 0..now
        BY <1>5 DEF Reset, Recreate, TypeInv, TypeOK
    <2>3. UNCHANGED <<now, readings, taking, lastHit, epochs, missed>>
        BY <1>5 DEF Reset, Recreate
    <2>4. taking # None => taking.epoch <= epoch + 1
        BY DEF TypeInv, TypeOK
    <2>5. TypeOK' /\ Times'
        BY <2>1, <2>2, <2>3 DEF TypeInv, TypeOK, Times
    <2> QED
        BY <2>2, <2>3, <2>4, <2>5 DEF TypeInv
<1>6. CASE UNCHANGED vars
    BY <1>6 DEF vars, TypeInv, TypeOK, Times
<1> QED
    BY <1>1, <1>2, <1>3, <1>4, <1>5, <1>6 DEF Next

LEMMA PresentNext == TypeInv /\ PresentInv /\ [Next]_vars => PresentInv'
<1> SUFFICES ASSUME TypeInv, PresentInv, [Next]_vars PROVE PresentInv'
    OBVIOUS
<1> USE PeriodAssumption, BoundsAssumption
<1>a. \A i \in 1..Len(readings) : /\ readings[i].t \in Nat /\ readings[i].c \in Nat
                                  /\ epochs[i] \in 0..epoch
    BY ReadingTypes
<1>b. epoch \in Nat /\ count \in Nat /\ created \in Nat /\ now \in Nat
    BY DEF TypeInv, TypeOK
<1>1. CASE Tick
    BY <1>1 DEF Tick, PresentInv
<1>2. CASE Hit
    BY <1>2, <1>a, <1>b DEF Hit, PresentInv, TypeInv, TypeOK
<1>3. CASE SnapshotRead
    BY <1>3, <1>b DEF SnapshotRead, PresentInv
<1>4. CASE SnapshotSave
    <2> DEFINE n == Len(readings)
    <2>1. /\ taking \in [c: 0..MaxHits, epoch: 0..MaxResets] /\ n \in Nat
          /\ lastHit # None => lastHit \in Nat /\ lastHit <= now
          /\ created <= now
        BY <1>4 DEF SnapshotSave, TypeInv, TypeOK
    <2>2. /\ Len(readings') = n + 1 /\ readings'[n+1] = [t |-> now, c |-> taking.c]
          /\ epochs'[n+1] = taking.epoch
          /\ \A i \in 1..n : readings'[i] = readings[i] /\ epochs'[i] = epochs[i]
        BY <1>4, <2>1 DEF SnapshotSave, Saved, TypeInv, TypeOK
    <2>3. \A i \in 1..Len(readings') : i \in 1..n \/ i = n + 1
        BY <2>1, <2>2
    <2>4. taking' = None /\ UNCHANGED <<created, count, lastHit, epoch>>
        BY <1>4 DEF SnapshotSave
    <2>5. ASSUME NEW i \in 1..Len(readings'), epochs'[i] = epoch
          PROVE  /\ created <= readings'[i].t /\ readings'[i].c <= count
                 /\ readings'[i].c = count /\ lastHit # None => lastHit <= readings'[i].t
        <3>1. CASE i \in 1..n
            BY <2>2, <2>5, <3>1 DEF PresentInv
        <3>2. CASE i = n + 1
            <4>1. taking.epoch = epoch /\ taking # None
                BY <1>4, <2>2, <2>5, <3>2 DEF SnapshotSave
            <4>2. taking.c <= count
                BY <4>1 DEF PresentInv
            <4> QED
                BY <2>1, <2>2, <3>2, <4>2
        <3> QED
            BY <2>3, <3>1, <3>2
    <2> QED
        BY <2>4, <2>5 DEF PresentInv
<1>5. CASE Reset \/ Recreate
    <2>1. \A i \in 1..Len(readings) : epochs[i] # epoch + 1
        BY <1>a, <1>b
    <2>2. taking # None => taking.epoch # epoch + 1
        BY <1>b DEF TypeInv, TypeOK
    <2> QED
        BY <1>5, <2>1, <2>2 DEF Reset, Recreate, PresentInv
<1>6. CASE UNCHANGED vars
    BY <1>6 DEF vars, PresentInv
<1> QED
    BY <1>1, <1>2, <1>3, <1>4, <1>5, <1>6 DEF Next

LEMMA FirstEpochNext == TypeInv /\ FirstEpochInv /\ [Next]_vars => FirstEpochInv'
<1> SUFFICES ASSUME TypeInv, FirstEpochInv, [Next]_vars PROVE FirstEpochInv'
    OBVIOUS
<1> epoch \in Nat /\ count \in Nat
    BY BoundsAssumption DEF TypeInv, TypeOK
<1> QED
    BY DEF FirstEpochInv, Next, Tick, Hit, SnapshotRead, SnapshotSave, Reset, Recreate, vars

LEMMA RisingNext == TypeInv /\ RisingInv /\ [Next]_vars => RisingInv'
<1> SUFFICES ASSUME TypeInv, RisingInv, [Next]_vars, epoch' = 0, ~missed' PROVE RisingInv'
    BY DEF RisingInv
<1> USE PeriodAssumption, BoundsAssumption
<1>a. \A i \in 1..Len(readings) : readings[i].t \in Nat /\ readings[i].c \in Nat
    BY ReadingTypes
<1>b. /\ epoch \in Nat /\ count \in Nat /\ now \in Nat /\ Len(readings) \in Nat
      /\ lastHit # None => lastHit \in Nat
    BY DEF TypeInv, TypeOK
<1>1. CASE Tick
    BY <1>1 DEF Tick, RisingInv, QuietSince
<1>2. CASE Hit
    <2>1. lastHit' = now /\ lastHit' # None /\ count' = count + 1
          /\ UNCHANGED <<readings, taking, epoch, missed>>
        BY <1>2, <1>b DEF Hit
    <2>2. \A i \in 1..Len(readings) : ~QuietSince(i)'
        BY <1>a, <1>b, <2>1 DEF QuietSince, TypeInv
    <2>3. \A i \in 2..Len(readings) : i-1 \in 1..Len(readings)
        BY <1>b
    <2>4. taking # None => taking.c \in Nat
        BY DEF TypeInv, TypeOK
    <2> QED
        BY <1>a, <1>b, <2>1, <2>2, <2>3, <2>4 DEF RisingInv
<1>3. CASE SnapshotRead
    <2>1. /\ taking' = [c |-> count, epoch |-> epoch] /\ ~missed
          /\ UNCHANGED <<count, readings, lastHit, epoch>>
        BY <1>3 DEF SnapshotRead
    <2>2. taking'.c = count /\ count <= count
        BY <1>b, <2>1
    <2>3. \A i \in 1..Len(readings) : readings[i].c <= count
        BY <2>1 DEF RisingInv
    <2>4. /\ \A i, j \in 1..Len(readings) : i <= j => readings[i].c <= readings[j].c
          /\ \A i \in 2..Len(readings) : QuietSince(i-1) => readings[i].c = count
        BY <2>1 DEF RisingInv
    <2> QED
        BY <2>1, <2>2, <2>3, <2>4 DEF RisingInv, QuietSince
<1>4. CASE SnapshotSave
    <2> DEFINE n == Len(readings)
    <2>1. taking \in [c: 0..MaxHits, epoch: 0..MaxResets]
        BY <1>4 DEF SnapshotSave, TypeInv, TypeOK
    <2>2. /\ Len(readings') = n + 1 /\ readings'[n+1] = [t |-> now, c |-> taking.c]
          /\ \A i \in 1..n : readings'[i] = readings[i]
        BY <1>4, <1>b, <2>1 DEF SnapshotSave, Saved, TypeInv, TypeOK
    <2>3. /\ taking' = None /\ UNCHANGED <<count, lastHit, epoch, missed>>
        BY <1>4 DEF SnapshotSave
    <2>4. /\ taking.c \in Nat /\ taking.c <= count
          /\ \A i \in 1..n : readings[i].c <= taking.c
          /\ n > 0 /\ QuietSince(n) => taking.c = count
        BY <1>4, <2>1, <2>3 DEF SnapshotSave, RisingInv
    <2>5. \A i \in 1..n : QuietSince(i)' = QuietSince(i)
        BY <2>2, <2>3 DEF QuietSince
    <2>6. ASSUME NEW i \in 1..(n+1), NEW j \in 1..(n+1), i <= j
          PROVE  readings'[i].c <= readings'[j].c
        <3>1. CASE j # n + 1
            <4>1. i \in 1..n /\ j \in 1..n
                BY <1>b, <2>6, <3>1
            <4> QED
                BY <2>2, <2>3, <2>6, <4>1 DEF RisingInv
        <3>2. CASE j = n + 1 /\ i \in 1..n
            BY <2>2, <2>4, <3>2
        <3>3. CASE j = n + 1 /\ i = n + 1
            BY <2>2, <2>4, <3>3
        <3> QED
            BY <1>b, <3>1, <3>2, <3>3
    <2>7. \A i \in 1..(n+1) : readings'[i].c <= count
        BY <1>a, <1>b, <2>2, <2>3, <2>4 DEF RisingInv
    <2>8. \A i \in 2..(n+1) : QuietSince(i-1)' => readings'[i].c = count
        <3> TAKE i \in 2..(n+1)
        <3>1. i-1 \in 1..n
            BY <1>b
        <3>2. CASE i = n + 1
            BY <1>b, <2>2, <2>4, <2>5, <3>1, <3>2
        <3>3. CASE i # n + 1
            BY <1>b, <2>2, <2>3, <2>5, <3>1, <3>3 DEF RisingInv
        <3> QED
            BY <3>2, <3>3
    <2> QED
        BY <2>2, <2>3, <2>6, <2>7, <2>8 DEF RisingInv
<1>5. CASE Reset \/ Recreate
    BY <1>5, <1>b DEF Reset, Recreate
<1>6. CASE UNCHANGED vars
    BY <1>6 DEF vars, RisingInv, QuietSince
<1> QED
    BY <1>1, <1>2, <1>3, <1>4, <1>5, <1>6 DEF Next

-----------------------------------------------------------------------------
\* The types and bounds of the history, and readings in the order of time.
THEOREM TypeCorrect == Spec => []TypeOK
<1>1. TypeInv => TypeOK
    BY DEF TypeInv
<1> QED
    BY <1>1, TypeInit, TypeNext, PTL DEF Spec

Inv == TypeInv /\ PresentInv /\ FirstEpochInv /\ RisingInv

LEMMA Invariance == Spec => []Inv
<1>1. Init => Inv
    BY TypeInit, BoundsAssumption DEF Init, Inv, PresentInv, FirstEpochInv, RisingInv
<1>2. Inv /\ [Next]_vars => Inv'
    BY TypeNext, PresentNext, FirstEpochNext, RisingNext DEF Inv
<1> QED
    BY <1>1, <1>2, PTL DEF Spec

\* A reading from which on no reset shows is of the present epoch.
LEMMA PresentReading ==
    ASSUME TypeInv, ResetsSeen, NEW r \in 1..Len(Series),
           \A i \in 2..Len(Series) : i > r => Series[i-1].c <= Series[i].c
    PROVE  Append(epochs, epoch)[r] = epoch
<1> DEFINE e == Append(epochs, epoch)
           n == Len(Series)
           S == {i \in r..n : e[i] = epoch}
<1>1. n = Len(epochs) + 1 /\ n \in Nat /\ e[n] = epoch
    BY SeriesShape DEF TypeInv, TypeOK
<1>2. S \in SUBSET Nat /\ n \in S
    BY <1>1
<1>3. PICK m \in S : \A k \in S : m <= k
    BY <1>2, LeastExists
<1>4. CASE m > r
    <2>1. m \in 2..n /\ m - 1 \in r..n /\ m - 1 \notin S
        BY <1>1, <1>3, <1>4
    <2>2. e[m] # e[m-1]
        BY <1>3, <2>1
    <2>3. Series[m].c < Series[m-1].c
        BY <2>1, <2>2 DEF ResetsSeen
    <2>4. Series[m] \in Counts /\ Series[m-1] \in Counts
        BY <2>1, SeriesShape, ElementOf
    <2> QED
        BY <1>3, <1>4, <2>1, <2>3, <2>4 DEF Counts
<1> QED
    BY <1>1, <1>3, <1>4

\* A rule called unused was last hit, and created, more than NoHitDays ago: the
\* reading that has reached the live total is of the present epoch, so the last
\* hit is no later.
LEMMA UnusedStep == Inv => UnusedIsUnhit
<1> SUFFICES ASSUME Inv, ResetsSeen, CalledUnused PROVE ReallyUnused
    BY DEF UnusedIsUnhit
<1> DEFINE n == Len(Series)
           r == Reached(Series)
<1>a. TypeInv
    BY DEF Inv
<1>b. /\ Series \in Seq(Counts) /\ n \in Nat /\ n = Len(readings) + 1 /\ n > 0
      /\ Series[n].t = now /\ Series[n].c = count
      /\ \A i \in 1..Len(readings) : Series[i] = readings[i]
    BY <1>a, SeriesShape
<1>c. /\ now \in Nat /\ created \in Nat /\ count \in Nat /\ NoHitDays \in Nat /\ NoHitDays > 0
      /\ lastHit # None => lastHit \in Nat
    BY <1>a, PeriodAssumption, BoundsAssumption DEF TypeInv, TypeOK
<1>d. r \in Start(Series)..n /\ Start(Series) \in 1..n /\ Series[r].c = count
    BY <1>b, ReachedIsFirst, StartIsLastDrop
<1>1. PICK made \in {created, None} : ~TooShort(Since(Series, made))
    BY DEF CalledUnused, Class
<1>2. CASE Never(Series, made)
    <2>1. made = created /\ count = 0 /\ Drops(Series) = {}
        BY <1>1, <1>2, <1>b DEF Never
    <2>2. now - created > NoHitDays
        BY <1>1, <1>2, <1>c, <2>1 DEF Since, TooShort
    <2>3. \A i \in 2..n : Series[i-1].c <= Series[i].c
        <3>1. Start(Series) = 1
            BY <2>1 DEF Start
        <3>2. \A i \in 2..Len(Series) : i > 1 => Series[i-1].c <= Series[i].c
            BY <1>b, <3>1, StartIsLastDrop
        <3>3. \A i \in 2..Len(Series) : i > 1
            BY <1>b
        <3> QED
            BY <3>2, <3>3
    <2>4. Append(epochs, epoch)[1] = epoch
        BY <1>a, <1>b, <2>3, PresentReading
    <2>5. epoch = 0
        BY <2>4 DEF ResetsSeen
    <2> QED
        BY <1>c, <2>1, <2>2, <2>5 DEF Inv, FirstEpochInv, ReallyUnused
<1>3. CASE ~Never(Series, made)
    <2>1. now - Series[r].t > NoHitDays /\ Series[r].t \in Nat
        <3>1. Since(Series, made) = Series[r].t
            BY <1>3 DEF Since
        <3>2. Series[r] \in Counts
            BY <1>b, <1>d, ElementOf
        <3> QED
            BY <1>1, <1>c, <3>1, <3>2 DEF TooShort, Counts
    <2>2. r # n
        BY <1>b, <1>c, <2>1
    <2>3. r \in 1..Len(readings) /\ r \in 1..n /\ Series[r] = readings[r]
        BY <1>b, <1>d, <2>2
    <2>4. \A i \in 2..n : i > r => Series[i-1].c <= Series[i].c
        BY <1>b, <1>d, StartIsLastDrop
    <2>5. Append(epochs, epoch)[r] = epoch
        BY <1>a, <2>3, <2>4, PresentReading
    <2>6. epochs[r] = epoch
        BY <1>a, <2>3, <2>5 DEF TypeInv, TypeOK
    <2>7. created <= readings[r].t /\ (lastHit # None => lastHit <= readings[r].t)
        BY <1>d, <2>3, <2>6 DEF Inv, PresentInv
    <2> QED
        BY <1>c, <2>1, <2>3, <2>7 DEF ReallyUnused
<1> QED
    BY <1>2, <1>3

\* classify calls a rule unused only if it exists and was not hit for more than
\* NoHitDays, provided each reset shows in the readings: however many readings
\* there are, whatever falls between the read and the save of one.
THEOREM UnusedRulesAreUnhit == Spec => []UnusedIsUnhit
BY Invariance, UnusedStep, PTL

\* The first of the two quiet readings has the live total, so Reached is no
\* later than the second.
LEMMA QuietStep == Inv => QuietRuleQualifies
<1> SUFFICES ASSUME Inv, epoch = 0, ~missed, NEW k \in 2..Len(readings),
                    now - readings[k].t > NoHitDays, QuietSince(k-1)
             PROVE  CalledUnused
    BY DEF QuietRuleQualifies, QuietSince
<1> DEFINE n == Len(Series)
           r == Reached(Series)
<1>a. TypeInv
    BY DEF Inv
<1>b. /\ Series \in Seq(Counts) /\ n \in Nat /\ n = Len(readings) + 1 /\ n > 0
      /\ Series[n].t = now /\ Series[n].c = count
      /\ \A i \in 1..Len(readings) : Series[i] = readings[i]
    BY <1>a, SeriesShape
<1>1. \A i \in 1..Len(readings) : readings[i].c \in Nat /\ readings[i].t \in Nat /\ readings[i].c <= count
    BY <1>a, ReadingTypes DEF Inv, RisingInv
<1>2. Drops(Series) = {}
    <2> SUFFICES ASSUME NEW i \in 2..n PROVE ~(Series[i].c < Series[i-1].c)
        BY DEF Drops
    <2>1. i-1 \in 1..Len(readings) /\ Series[i-1] = readings[i-1]
        BY <1>b
    <2>2. CASE i = n
        BY <1>1, <1>b, <2>1, <2>2, <1>a, BoundsAssumption DEF TypeInv, TypeOK
    <2>3. CASE i # n
        <3>1. i \in 1..Len(readings) /\ Series[i] = readings[i] /\ i-1 <= i
            <4>1. i \in 1..(Len(readings) + 1) /\ i # Len(readings) + 1 /\ Len(readings) \in Nat
                BY <1>b, <2>3
            <4>2. i \in 1..Len(readings) /\ i-1 <= i
                BY <4>1
            <4> QED
                BY <1>b, <4>2
        <3>2. readings[i-1].c <= readings[i].c
            BY <2>1, <3>1 DEF Inv, RisingInv
        <3> QED
            BY <1>1, <2>1, <3>1, <3>2
    <2> QED
        BY <2>2, <2>3
<1>3. Start(Series) = 1
    BY <1>2 DEF Start
<1>4. k \in 1..Len(readings) /\ k \in 1..n /\ Series[k] = readings[k] /\ readings[k].c = count
    BY <1>b DEF Inv, RisingInv
<1>5. r \in 1..Len(readings) /\ r <= k
    BY <1>b, <1>3, <1>4, ReachedIsFirst
<1>6. readings[r].t <= readings[k].t
    BY <1>a, <1>4, <1>5 DEF TypeInv, Times
<1>7. Since(Series, None) = readings[r].t
    BY <1>b, <1>5 DEF Since, Never
<1>8. ~TooShort(Since(Series, None))
    BY <1>1, <1>4, <1>5, <1>6, <1>7, <1>a, PeriodAssumption, BoundsAssumption DEF TooShort, TypeInv, TypeOK
<1>9. Class(Series, None, TRUE, FALSE, FALSE, FALSE) = "DISABLE"
    BY <1>8 DEF Class
<1> QED
    BY <1>9 DEF CalledUnused

\* A rule that stays quiet is not kept for ever: two readings since its last
\* hit, the later one old enough, are enough for step 1 to take it.
THEOREM QuietRulesQualify == Spec => []QuietRuleQualifies
BY Invariance, QuietStep, PTL

-----------------------------------------------------------------------------
(* NsxClient: the jobs of its tools.                                        *)

Tools == {"additive", "membership", "amend", "wipe"}
Listing == {"additive", "membership"}
ListCalls == {List(c) : c \in Collections} \cup {Call("effective", Ips(g)) : g \in Ids}
WriteCalls == {Call(op, k) : op \in {"get", "put", "patch", "delete"}, k \in Ids}
CallsOf(tool) == IF tool \in Listing THEN ListCalls
                 ELSE {c \in WriteCalls : tool = "wipe" <=> c.op = "delete"}
Jobs == [tool: Tools, plan: Seq(ListCalls) \cup Seq(WriteCalls), effective: BOOLEAN,
         pc: {"ready", "pacing", "sending", "delay", "done"},
         attempts: Nat, tries: Nat, rounds: Nat, cursor: Nat, page: SUBSET Ids,
         got: [Collections -> SUBSET Ids], read: Nat, failed: SUBSET Ids, died: BOOLEAN]
JobOK(j) == /\ j \in Jobs /\ j.plan \in Seq(CallsOf(j.tool))
            /\ j.pc = "done" <=> j.plan = <<>>

\* Job n follows j: what a request left of its plan, and what it has read.
NextJob(j, n, plan, cursor, page, got, read, failed, died) ==
    /\ JobOK(n) /\ n.tool = j.tool /\ n.effective = j.effective
    /\ n.pc \in {"ready", "delay", "done"}
    /\ n.plan = plan /\ n.cursor = cursor /\ n.page = page /\ n.got = got
    /\ n.read = read /\ n.failed = failed /\ n.died = died

LEMMA CallFacts ==
    /\ \A c \in ListCalls : c.op \in {"list", "effective"} /\ c.of \in Collections
    /\ \A c \in ListCalls : c.op = "effective" => \E g \in Ids : c.of = Ips(g)
    /\ \A c \in WriteCalls : c.op \in {"get", "put", "patch", "delete"} /\ c.of \in Ids
    /\ \A c \in Collections : List(c) \in ListCalls /\ List(c).of = c /\ List(c).op = "list"
    /\ \A g \in Ids : Members(g) \in Collections /\ Ips(g) \in Collections
    /\ \A c \in Collections : c[1] \in {"members", "ips"} => c[2] \in Ids
    /\ \A c \in Collections : c[1] \notin {"members", "ips"} => c \in {Vms, Vifs, Names, Groups}
    /\ \A c \in Collections : c[1] \in {"members", "ips"} => c \in {Members(c[2]), Ips(c[2])}
    /\ \A c \in Collections : c[1] \notin {"members", "ips"} => c[2] = 0
    /\ {Vms, Vifs, Names, Groups} \subseteq Collections
    /\ \A g : /\ Members(g)[1] = "members" /\ Members(g)[2] = g /\ Ips(g)[1] = "ips" /\ Ips(g)[2] = g
             /\ Members(g) # Groups /\ Ips(g) # Groups
    /\ \A c \in {Vms, Vifs, Names, Groups} : c[1] \notin {"members", "ips"}
<1>1. \A g \in Ids : Members(g) \in Collections /\ Ips(g) \in Collections
    BY DEF Collections, Stored
<1>2. \A c \in Collections : c \in {Vms, Vifs, Names, Groups} \/ \E g \in Ids : c \in {Members(g), Ips(g)}
    BY DEF Collections, Stored
<1>3. /\ \A g : Members(g)[1] = "members" /\ Members(g)[2] = g /\ Ips(g)[1] = "ips" /\ Ips(g)[2] = g
      /\ \A c \in {Vms, Vifs, Names, Groups} : c[1] \notin {"members", "ips"} /\ c[2] = 0
    BY DEF Members, Ips, Vms, Vifs, Names, Groups
<1>4. /\ \A c \in Collections : c[1] \in {"members", "ips"} => c[2] \in Ids
      /\ \A c \in Collections : c[1] \notin {"members", "ips"} => c \in {Vms, Vifs, Names, Groups}
      /\ \A c \in Collections : c[1] \in {"members", "ips"} => c \in {Members(c[2]), Ips(c[2])}
      /\ \A c \in Collections : c[1] \notin {"members", "ips"} => c[2] = 0
      /\ \A g : Members(g) # Groups /\ Ips(g) # Groups
    <2> HIDE DEF Members, Ips, Vms, Vifs, Names, Groups
    <2> QED
        BY <1>2, <1>3
<1>5. \A c \in WriteCalls : c.op \in {"get", "put", "patch", "delete"} /\ c.of \in Ids
    BY DEF WriteCalls, Call
<1>6. /\ \A c \in ListCalls : c.op \in {"list", "effective"} /\ c.of \in Collections
      /\ \A c \in ListCalls : c.op = "effective" => \E g \in Ids : c.of = Ips(g)
      /\ \A c \in Collections : List(c) \in ListCalls /\ List(c).of = c /\ List(c).op = "list"
    BY <1>1 DEF ListCalls, List, Call
<1>7. {Vms, Vifs, Names, Groups} \subseteq Collections
    BY DEF Collections, Stored
<1> QED
    BY <1>1, <1>3, <1>4, <1>5, <1>6, <1>7

LEMMA PlanIs ==
    ASSUME NEW tool \in Tools, NEW p \in Seq(CallsOf(tool))
    PROVE  p \in Seq(ListCalls) \cup Seq(WriteCalls)
<1>1. CASE tool \in Listing
    BY <1>1 DEF CallsOf
<1>2. CASE tool \notin Listing
    BY <1>2 DEF CallsOf
<1> QED
    BY <1>1, <1>2

LEMMA GoesIs ==
    ASSUME NEW j, JobOK(j), NEW p \in Seq(CallsOf(j.tool))
    PROVE  /\ NextJob(j, Goes(j, p), p, 0, {}, j.got, j.read, j.failed, j.died)
           /\ \A f \in SUBSET Ids : NextJob(j, [Goes(j, p) EXCEPT !.failed = f], p, 0, {}, j.got, j.read, f, j.died)
           /\ NextJob(j, [Goes(j, p) EXCEPT !.died = TRUE], p, 0, {}, j.got, j.read, j.failed, TRUE)
           /\ \A r \in Nat : NextJob(j, [Goes(j, p) EXCEPT !.read = r], p, 0, {}, j.got, r, j.failed, j.died)
           /\ \A g \in [Collections -> SUBSET Ids], r \in Nat :
                  NextJob(j, [Goes(j, p) EXCEPT !.got = g, !.rounds = r], p, 0, {}, g, j.read, j.failed, j.died)
<1>1. j \in Jobs /\ j.tool \in Tools /\ p \in Seq(ListCalls) \cup Seq(WriteCalls)
    BY PlanIs DEF JobOK, Jobs
<1> DEFINE n == Goes(j, p)
<1>2. /\ n \in Jobs /\ n.tool = j.tool /\ n.plan = p /\ n.effective = j.effective
      /\ n.pc = (IF p = <<>> THEN "done" ELSE "ready") /\ n.cursor = 0 /\ n.page = {}
      /\ n.got = j.got /\ n.read = j.read /\ n.failed = j.failed /\ n.died = j.died
    BY <1>1 DEF Goes, Jobs
<1> HIDE DEF n
<1>3. NextJob(j, n, p, 0, {}, j.got, j.read, j.failed, j.died)
    BY <1>2 DEF NextJob, JobOK
<1>4. \A f \in SUBSET Ids : NextJob(j, [n EXCEPT !.failed = f], p, 0, {}, j.got, j.read, f, j.died)
    BY <1>2 DEF NextJob, JobOK, Jobs
<1>5. NextJob(j, [n EXCEPT !.died = TRUE], p, 0, {}, j.got, j.read, j.failed, TRUE)
    BY <1>2 DEF NextJob, JobOK, Jobs
<1>6. \A r \in Nat : NextJob(j, [n EXCEPT !.read = r], p, 0, {}, j.got, r, j.failed, j.died)
    BY <1>2 DEF NextJob, JobOK, Jobs
<1>7. \A g \in [Collections -> SUBSET Ids], r \in Nat :
          NextJob(j, [n EXCEPT !.got = g, !.rounds = r], p, 0, {}, g, j.read, j.failed, j.died)
    BY <1>2 DEF NextJob, JobOK, Jobs
<1> QED
    BY <1>3, <1>4, <1>5, <1>6, <1>7 DEF n

LEMMA RestartsIs ==
    ASSUME NEW j, JobOK(j), NEW p \in Seq(CallsOf(j.tool)), p # <<>>
    PROVE  /\ NextJob(j, Restarts(j, p), p, 0, {}, j.got, j.read, j.failed, j.died)
           /\ \A r \in Nat : /\ NextJob(j, [Restarts(j, p) EXCEPT !.rounds = r], p, 0, {}, j.got, j.read, j.failed, j.died)
                             /\ NextJob(j, [Restarts(j, p) EXCEPT !.tries = r], p, 0, {}, j.got, j.read, j.failed, j.died)
           /\ Restarts(j, p).tries = j.tries /\ Restarts(j, p).rounds = j.rounds
<1>1. j \in Jobs /\ j.tool \in Tools /\ p \in Seq(ListCalls) \cup Seq(WriteCalls)
    BY PlanIs DEF JobOK, Jobs
<1> DEFINE n == Restarts(j, p)
<1>2. /\ n \in Jobs /\ n.tool = j.tool /\ n.plan = p /\ n.effective = j.effective
      /\ n.pc = "delay" /\ n.cursor = 0 /\ n.page = {} /\ n.tries = j.tries /\ n.rounds = j.rounds
      /\ n.got = j.got /\ n.read = j.read /\ n.failed = j.failed /\ n.died = j.died
    BY <1>1 DEF Restarts, Jobs
<1> HIDE DEF n
<1>3. NextJob(j, n, p, 0, {}, j.got, j.read, j.failed, j.died)
    BY <1>2 DEF NextJob, JobOK
<1>4. \A r \in Nat : NextJob(j, [n EXCEPT !.rounds = r], p, 0, {}, j.got, j.read, j.failed, j.died)
    BY <1>2 DEF NextJob, JobOK, Jobs
<1>5. \A r \in Nat : NextJob(j, [n EXCEPT !.tries = r], p, 0, {}, j.got, j.read, j.failed, j.died)
    BY <1>2 DEF NextJob, JobOK, Jobs
<1> QED
    BY <1>2, <1>3, <1>4, <1>5 DEF n

-----------------------------------------------------------------------------
(* A finite set as a sequence, and the least of a set.                      *)

LEMMA SetToSeqIs ==
    ASSUME NEW S, IsFiniteSet(S)
    PROVE  /\ SetToSeq(S) \in Seq(S)
           /\ \A x \in S : \E i \in DOMAIN SetToSeq(S) : SetToSeq(S)[i] = x
           /\ \A i, k \in DOMAIN SetToSeq(S) : SetToSeq(S)[i] = SetToSeq(S)[k] => i = k
           /\ DOMAIN SetToSeq(S) = 1 .. Cardinality(S) /\ Len(SetToSeq(S)) = Cardinality(S)
<1> DEFINE n == Cardinality(S)
<1>1. n \in Nat /\ ExistsBijection(1..n, S)
    BY FS_CardinalityType
<1>2. PICK b \in Bijection(1..n, S) : TRUE
    BY <1>1 DEF ExistsBijection
<1>3. b \in [1..n -> S] /\ IsInjective(b)
    BY <1>2 DEF Bijection, Injection, Surjection, IsInjective
<1> DEFINE f == SetToSeq(S)
<1>4. f \in [1..n -> S] /\ IsInjective(f)
    BY <1>3 DEF SetToSeq
<1>5. f \in Injection(1..n, S)
    BY <1>4 DEF Injection, IsInjective
<1>6. IsFiniteSet(1..n) /\ Cardinality(1..n) = n
    BY <1>1, FS_Interval
<1> HIDE DEF f
<1>7. f \in Surjection(1..n, S)
    BY <1>5, <1>6, FS_Injection
<1>8. \A x \in S : \E i \in 1..n : f[i] = x
    BY <1>7 DEF Surjection
<1>9. \A i, k \in 1..n : f[i] = f[k] => i = k
    BY <1>4 DEF IsInjective
<1>10. f \in Seq(S) /\ DOMAIN f = 1..n /\ Len(f) = n
    BY <1>1, <1>4
<1> QED
    BY <1>8, <1>9, <1>10 DEF f

LEMMA MinIs ==
    ASSUME NEW S \in SUBSET Nat, S # {}
    PROVE  Min(S) \in S /\ \A k \in S : Min(S) <= k
<1>1. \E m \in S : \A k \in S : m <= k
    BY LeastExists
<1> QED
    BY <1>1 DEF Min

\* The calls of a plan.
Within(p, c) == \E i \in DOMAIN p : p[i].of = c

LEMMA TailIs ==
    ASSUME NEW S, NEW p \in Seq(S), p # <<>>
    PROVE  /\ Head(p) \in S /\ Tail(p) \in Seq(S) /\ Within(p, Head(p).of)
           /\ Len(Tail(p)) = Len(p) - 1
           /\ DOMAIN Tail(p) = 1 .. Len(p) - 1
           /\ \A i \in DOMAIN Tail(p) : i + 1 \in DOMAIN p /\ Tail(p)[i] = p[i + 1]
           /\ \A i \in DOMAIN p : i # 1 => i - 1 \in DOMAIN Tail(p) /\ p[i] = Tail(p)[i - 1]
           /\ \A c : Within(p, c) <=> (c = Head(p).of \/ Within(Tail(p), c))
<1>1. Len(p) \in Nat \ {0} /\ DOMAIN p = 1 .. Len(p) /\ Head(p) = p[1] /\ Head(p) \in S
    OBVIOUS
<1>2. Tail(p) \in Seq(S) /\ Len(Tail(p)) = Len(p) - 1 /\ DOMAIN Tail(p) = 1 .. Len(p) - 1
    OBVIOUS
<1>3. \A i \in 1 .. Len(p) - 1 : i + 1 \in DOMAIN p /\ Tail(p)[i] = p[i + 1]
    BY <1>1
<1>4. \A i \in DOMAIN p : i # 1 => i - 1 \in 1 .. Len(p) - 1 /\ p[i] = Tail(p)[i - 1]
    <2> TAKE i \in DOMAIN p
    <2> HAVE i # 1
    <2>1. i - 1 \in 1 .. Len(p) - 1 /\ i - 1 + 1 = i
        BY <1>1
    <2> QED
        BY <1>3, <2>1
<1>5. ASSUME NEW c PROVE Within(p, c) <=> (c = Head(p).of \/ Within(Tail(p), c))
    <2>1. ASSUME NEW i \in DOMAIN p, p[i].of = c PROVE c = Head(p).of \/ Within(Tail(p), c)
        BY <1>1, <1>2, <1>4, <2>1 DEF Within
    <2>2. ASSUME NEW i \in DOMAIN Tail(p), Tail(p)[i].of = c PROVE Within(p, c)
        BY <1>2, <1>3, <2>2 DEF Within
    <2>3. c = Head(p).of => Within(p, c)
        BY <1>1 DEF Within
    <2> QED
        BY <2>1, <2>2, <2>3 DEF Within
<1> QED
    BY <1>1, <1>2, <1>3, <1>4, <1>5

LEMMA JoinIs ==
    ASSUME NEW S, NEW p \in Seq(S), NEW q \in Seq(S)
    PROVE  /\ p \o q \in Seq(S)
           /\ \A c : Within(p \o q, c) <=> Within(p, c) \/ Within(q, c)
           /\ p \o q = <<>> <=> p = <<>> /\ q = <<>>
<1>1. /\ Len(p) \in Nat /\ Len(q) \in Nat
      /\ DOMAIN p = 1 .. Len(p) /\ DOMAIN q = 1 .. Len(q)
      /\ DOMAIN (p \o q) = 1 .. Len(p) + Len(q)
      /\ p \o q \in Seq(S) /\ Len(p \o q) = Len(p) + Len(q)
    OBVIOUS
<1>2. \A i \in DOMAIN p : i \in DOMAIN (p \o q) /\ (p \o q)[i] = p[i]
    BY <1>1
<1>3. \A i \in DOMAIN q : Len(p) + i \in DOMAIN (p \o q) /\ (p \o q)[Len(p) + i] = q[i]
    BY <1>1
<1>4. \A i \in DOMAIN (p \o q) : i \in DOMAIN p \/ (i - Len(p) \in DOMAIN q /\ (p \o q)[i] = q[i - Len(p)])
    BY <1>1
<1>5. ASSUME NEW c PROVE Within(p \o q, c) <=> Within(p, c) \/ Within(q, c)
    <2>1. Within(p, c) => Within(p \o q, c)
        BY <1>2 DEF Within
    <2>2. Within(q, c) => Within(p \o q, c)
        BY <1>3 DEF Within
    <2>3. Within(p \o q, c) => Within(p, c) \/ Within(q, c)
        BY <1>2, <1>4 DEF Within
    <2> QED
        BY <2>1, <2>2, <2>3
<1>6. p \o q = <<>> <=> p = <<>> /\ q = <<>>
    <2>1. \A s \in Seq(S) : s = <<>> <=> Len(s) = 0
        OBVIOUS
    <2> QED
        BY <1>1, <2>1
<1> QED
    BY <1>1, <1>5, <1>6

LEMMA MembersIs ==
    ASSUME NEW gs \in SUBSET Ids
    PROVE  /\ MembersOf(gs) \in Seq(ListCalls)
           /\ \A c : Within(MembersOf(gs), c) <=> \E g \in gs : c = Members(g)
           /\ Len(MembersOf(gs)) = Cardinality(gs)
           /\ \A i \in DOMAIN MembersOf(gs) : MembersOf(gs)[i].op = "list"
<1> DEFINE s == SetToSeq(gs)
<1>1. IsFiniteSet(gs)
    BY FS_Subset, ClientAssumption
<1>2. /\ s \in Seq(gs) /\ \A g \in gs : \E i \in DOMAIN s : s[i] = g
      /\ DOMAIN s = 1 .. Cardinality(gs) /\ Len(s) = Cardinality(gs)
    BY <1>1, SetToSeqIs
<1>3. Cardinality(gs) \in Nat
    BY <1>1, FS_CardinalityType
<1>4. MembersOf(gs) = [i \in DOMAIN s |-> List(Members(s[i]))]
    BY DEF MembersOf
<1> HIDE DEF s
<1>5. \A i \in DOMAIN s : s[i] \in gs
    BY <1>2
<1>6. \A g \in gs : List(Members(g)) \in ListCalls /\ List(Members(g)).of = Members(g) /\ List(Members(g)).op = "list"
    BY CallFacts
<1>7. DOMAIN MembersOf(gs) = 1 .. Cardinality(gs) /\ \A i \in DOMAIN s : MembersOf(gs)[i] = List(Members(s[i]))
    BY <1>2, <1>4
<1>8. MembersOf(gs) \in [1 .. Cardinality(gs) -> ListCalls]
    BY <1>2, <1>4, <1>5, <1>6
<1>9. MembersOf(gs) \in Seq(ListCalls) /\ Len(MembersOf(gs)) = Cardinality(gs)
    BY <1>3, <1>8
<1>10. ASSUME NEW c PROVE Within(MembersOf(gs), c) <=> \E g \in gs : c = Members(g)
    <2>1. ASSUME NEW i \in DOMAIN s, MembersOf(gs)[i].of = c PROVE \E g \in gs : c = Members(g)
        BY <1>5, <1>6, <1>7, <2>1
    <2>2. ASSUME NEW g \in gs, c = Members(g) PROVE \E i \in DOMAIN s : MembersOf(gs)[i].of = c
        <3>1. PICK i \in DOMAIN s : s[i] = g
            BY <1>2
        <3> QED
            BY <1>6, <1>7, <2>2, <3>1
    <2> QED
        BY <1>2, <1>7, <2>1, <2>2 DEF Within
<1>11. \A i \in DOMAIN s : MembersOf(gs)[i].op = "list"
    BY <1>5, <1>6, <1>7
<1> QED
    BY <1>2, <1>7, <1>9, <1>10, <1>11

-----------------------------------------------------------------------------
(* What a request makes of a job.                                           *)

Repeats(j, n) == NextJob(j, n, j.plan, j.cursor, j.page, j.got, j.read, j.failed, j.died)
Begins(j, n) == NextJob(j, n, j.plan, 0, {}, j.got, j.read, j.failed, j.died)
Reindexes(j, n) == /\ j.tool = "membership" /\ Head(j.plan).of = Vifs
                   /\ NextJob(j, n, <<List(Vms)>> \o j.plan, 0, {}, j.got, j.read, j.failed, j.died)
OfGroup(c) == c[1] \in {"members", "ips"}
SkipsGroup(j, n) ==
    LET c == Head(j.plan).of
        rest == Tail(j.plan)
        skipped == j.failed \cup {c[2]}
    IN  /\ j.tool \in Listing /\ OfGroup(c)
        /\ \/ NextJob(j, n, rest, 0, {}, j.got, j.read, skipped, j.died)
           \/ /\ rest # <<>> /\ Head(rest).of[2] = c[2]
              /\ NextJob(j, n, Tail(rest), 0, {}, j.got, j.read, skipped, j.died)
SkipsObject(j, n) == /\ j.tool = "wipe"
                     /\ NextJob(j, n, Tail(j.plan), 0, {}, j.got, j.read, j.failed \cup {Head(j.plan).of}, j.died)
Dies(j, n) == /\ j.tool # "wipe" /\ (j.tool \in Listing => ~OfGroup(Head(j.plan).of))
              /\ NextJob(j, n, <<>>, 0, {}, j.got, j.read, j.failed, TRUE)
Fails(j, n) == SkipsGroup(j, n) \/ SkipsObject(j, n) \/ Dies(j, n)
Hampered(j, n) == Repeats(j, n) \/ Begins(j, n) \/ Reindexes(j, n) \/ Fails(j, n)
TurnsPage(j, n, i) == NextJob(j, n, j.plan, i, j.page \cup {i}, j.got, j.read, j.failed, j.died)
FurtherOf(j, page) == IF j.tool = "membership" /\ Head(j.plan).of = Groups THEN MembersOf(page) ELSE <<>>
HasListed(j, n, page) ==
    NextJob(j, n, Tail(j.plan) \o FurtherOf(j, page), 0, {}, [j.got EXCEPT ![Head(j.plan).of] = page],
            j.read, j.failed, j.died)
Proceeds(j, n, read) == NextJob(j, n, Tail(j.plan), 0, {}, j.got, read, j.failed, j.died)

LEMMA PlanFacts ==
    ASSUME NEW j, JobOK(j), j.plan # <<>>
    PROVE  /\ j \in Jobs /\ j.tool \in Tools /\ j.plan \in Seq(CallsOf(j.tool)) /\ Tail(j.plan) \in Seq(CallsOf(j.tool))
           /\ Head(j.plan) \in CallsOf(j.tool)
           /\ (j.tool \in Listing => Head(j.plan) \in ListCalls /\ Head(j.plan).of \in Collections)
           /\ (j.tool \notin Listing => Head(j.plan) \in WriteCalls /\ Head(j.plan).of \in Ids)
           /\ (j.tool = "wipe" => Head(j.plan).op = "delete")
           /\ (j.tool = "amend" => Head(j.plan).op # "delete")
<1>1. j \in Jobs /\ j.tool \in Tools /\ j.plan \in Seq(CallsOf(j.tool))
    BY DEF JobOK, Jobs
<1>2. Head(j.plan) \in CallsOf(j.tool) /\ Tail(j.plan) \in Seq(CallsOf(j.tool))
    BY <1>1, TailIs
<1>3. /\ j.tool \in Listing => Head(j.plan) \in ListCalls
      /\ j.tool \notin Listing => Head(j.plan) \in WriteCalls
      /\ j.tool = "wipe" => Head(j.plan).op = "delete"
      /\ j.tool = "amend" => Head(j.plan).op # "delete"
    BY <1>2 DEF CallsOf, Listing
<1> QED
    BY <1>1, <1>2, <1>3, CallFacts

LEMMA GivesUpIs ==
    ASSUME NEW j, JobOK(j), j.plan # <<>>
    PROVE  Fails(j, GivesUp(j))
<1>1. CASE j.tool \in Listing /\ OfGroup(Head(j.plan).of)
    <2> DEFINE c == Head(j.plan).of
               rest == Tail(j.plan)
               f == j.failed \cup {c[2]}
    <2>1. c[2] \in Ids /\ rest \in Seq(CallsOf(j.tool))
        BY <1>1, PlanFacts, CallFacts DEF OfGroup
    <2>2. f \in SUBSET Ids
        BY <2>1 DEF JobOK, Jobs
    <2>3. CASE rest # <<>> /\ Head(rest).of[2] = c[2]
        <3>1. Tail(rest) \in Seq(CallsOf(j.tool))
            BY <2>1, <2>3, TailIs
        <3>2. NextJob(j, [Goes(j, Tail(rest)) EXCEPT !.failed = f], Tail(rest), 0, {}, j.got, j.read, f, j.died)
            BY <2>2, <3>1, GoesIs
        <3>3. Goes(j, Tail(rest)).failed = j.failed
            BY DEF Goes, JobOK, Jobs
        <3>4. GivesUp(j) = [Goes(j, Tail(rest)) EXCEPT !.failed = f]
            BY <1>1, <2>3, <3>3 DEF GivesUp, Listing, OfGroup
        <3> QED
            BY <1>1, <2>3, <3>2, <3>4 DEF Fails, SkipsGroup
    <2>4. CASE ~(rest # <<>> /\ Head(rest).of[2] = c[2])
        <3>2. NextJob(j, [Goes(j, rest) EXCEPT !.failed = f], rest, 0, {}, j.got, j.read, f, j.died)
            BY <2>1, <2>2, GoesIs
        <3>3. Goes(j, rest).failed = j.failed
            BY DEF Goes, JobOK, Jobs
        <3>4. GivesUp(j) = [Goes(j, rest) EXCEPT !.failed = f]
            BY <1>1, <2>4, <3>3 DEF GivesUp, Listing, OfGroup
        <3> QED
            BY <1>1, <3>2, <3>4 DEF Fails, SkipsGroup
    <2> QED
        BY <2>3, <2>4
<1>2. CASE j.tool = "wipe"
    <2> DEFINE f == j.failed \cup {Head(j.plan).of}
    <2>1. Tail(j.plan) \in Seq(CallsOf(j.tool)) /\ f \in SUBSET Ids
        BY <1>2, PlanFacts DEF Listing, JobOK, Jobs
    <2>2. NextJob(j, [Goes(j, Tail(j.plan)) EXCEPT !.failed = f], Tail(j.plan), 0, {}, j.got, j.read, f, j.died)
        BY <2>1, GoesIs
    <2>3. Goes(j, Tail(j.plan)).failed = j.failed
        BY DEF Goes, JobOK, Jobs
    <2>4. GivesUp(j) = [Goes(j, Tail(j.plan)) EXCEPT !.failed = f]
        BY <1>2, <2>3 DEF GivesUp
    <2> QED
        BY <1>2, <2>2, <2>4 DEF Fails, SkipsObject
<1>3. CASE j.tool # "wipe" /\ ~(j.tool \in Listing /\ OfGroup(Head(j.plan).of))
    <2>1. <<>> \in Seq(CallsOf(j.tool))
        OBVIOUS
    <2>2. NextJob(j, [Goes(j, <<>>) EXCEPT !.died = TRUE], <<>>, 0, {}, j.got, j.read, j.failed, TRUE)
        BY <2>1, GoesIs
    <2>3. GivesUp(j) = [Goes(j, <<>>) EXCEPT !.died = TRUE]
        BY <1>3 DEF GivesUp, Listing, OfGroup
    <2> QED
        BY <1>3, <2>2, <2>3 DEF Fails, Dies
<1> QED
    BY <1>1, <1>2, <1>3

LEMMA TroubledIs ==
    ASSUME NEW j, JobOK(j), j.plan # <<>>
    PROVE  Hampered(j, Troubled(j))
<1>1. CASE ~(Wrapped(j) /\ j.rounds < CallRetries)
    BY <1>1, GivesUpIs DEF Troubled, Hampered
<1>2. CASE Wrapped(j) /\ j.rounds < CallRetries
    <2>1. j.rounds + 1 \in Nat /\ j.plan \in Seq(CallsOf(j.tool)) /\ j.tool = "membership"
        BY <1>2 DEF JobOK, Jobs, Wrapped
    <2>2. CASE Head(j.plan).of = Vifs
        <3> DEFINE p == <<List(Vms)>> \o j.plan
        <3>1. <<List(Vms)>> \in Seq(CallsOf(j.tool)) /\ <<List(Vms)>> # <<>>
            <4>1. List(Vms) \in CallsOf(j.tool)
                BY <2>1, CallFacts DEF CallsOf, Listing, Collections, Stored
            <4> QED
                BY <4>1
        <3>2. p \in Seq(CallsOf(j.tool)) /\ p # <<>>
            BY <2>1, <3>1, JoinIs
        <3> HIDE DEF p
        <3>3. /\ NextJob(j, [Restarts(j, p) EXCEPT !.rounds = j.rounds + 1], p, 0, {}, j.got, j.read, j.failed, j.died)
              /\ Restarts(j, p).rounds = j.rounds
            BY <2>1, <3>2, RestartsIs
        <3>4. Troubled(j) = [Restarts(j, p) EXCEPT !.rounds = j.rounds + 1]
            BY <1>2, <2>2, <3>3 DEF Troubled, p
        <3> QED
            BY <2>1, <2>2, <3>3, <3>4 DEF Hampered, Reindexes, p
    <2>3. CASE Head(j.plan).of # Vifs
        <3>3. /\ NextJob(j, [Restarts(j, j.plan) EXCEPT !.rounds = j.rounds + 1], j.plan, 0, {}, j.got, j.read, j.failed, j.died)
              /\ Restarts(j, j.plan).rounds = j.rounds
            BY <2>1, RestartsIs
        <3>4. Troubled(j) = [Restarts(j, j.plan) EXCEPT !.rounds = j.rounds + 1]
            BY <1>2, <2>3, <3>3 DEF Troubled
        <3> QED
            BY <3>3, <3>4 DEF Hampered, Begins
    <2> QED
        BY <2>2, <2>3
<1> QED
    BY <1>1, <1>2

LEMMA BusyIs ==
    ASSUME NEW j, JobOK(j), j.plan # <<>>
    PROVE  Hampered(j, Busy(j))
<1>1. CASE ~(j.attempts < RetryMax)
    BY <1>1, TroubledIs DEF Busy
<1>2. CASE j.attempts < RetryMax
    <2>1. Busy(j) = [j EXCEPT !.attempts = @ + 1, !.pc = "delay"]
        BY <1>2 DEF Busy
    <2>2. NextJob(j, Busy(j), j.plan, j.cursor, j.page, j.got, j.read, j.failed, j.died)
        <3>1. j \in Jobs /\ j.attempts + 1 \in Nat
            BY DEF JobOK, Jobs
        <3> DEFINE n == [j EXCEPT !.attempts = j.attempts + 1, !.pc = "delay"]
        <3>2. /\ n \in Jobs /\ n.tool = j.tool /\ n.plan = j.plan /\ n.effective = j.effective
              /\ n.pc = "delay" /\ n.cursor = j.cursor /\ n.page = j.page /\ n.got = j.got
              /\ n.read = j.read /\ n.failed = j.failed /\ n.died = j.died
            BY <3>1 DEF Jobs
        <3> QED
            BY <2>1, <3>2 DEF NextJob, JobOK
    <2> QED
        BY <2>2 DEF Hampered, Repeats
<1> QED
    BY <1>1, <1>2

LEMMA UnrealizedIs ==
    ASSUME NEW j, JobOK(j), j.plan # <<>>
    PROVE  Hampered(j, Unrealized(j))
<1>1. CASE ~(j.tries + 1 < RealizeAttempts)
    BY <1>1, GivesUpIs DEF Unrealized, Hampered
<1>2. CASE j.tries + 1 < RealizeAttempts
    <2>1. j.tries + 1 \in Nat /\ j.plan \in Seq(CallsOf(j.tool))
        BY DEF JobOK, Jobs
    <2>2. /\ NextJob(j, [Restarts(j, j.plan) EXCEPT !.tries = j.tries + 1], j.plan, 0, {}, j.got, j.read, j.failed, j.died)
          /\ Restarts(j, j.plan).tries = j.tries
        BY <2>1, RestartsIs
    <2>3. Unrealized(j) = [Restarts(j, j.plan) EXCEPT !.tries = j.tries + 1]
        BY <1>2, <2>2 DEF Unrealized
    <2> QED
        BY <2>2, <2>3 DEF Hampered, Begins
<1> QED
    BY <1>1, <1>2

\* Ends, with the page that was read last.
LEMMA EndsIs ==
    ASSUME NEW j, JobOK(j), j.plan # <<>>, j.tool \in Listing, NEW page \in SUBSET Ids
    PROVE  HasListed(j, Ends([j EXCEPT !.page = page]), page)
<1> DEFINE k == [j EXCEPT !.page = page]
           c == Head(j.plan).of
           p == Tail(j.plan) \o FurtherOf(j, page)
           g == [j.got EXCEPT ![c] = page]
           r == IF c = Vms THEN j.rounds ELSE 0
<1>1. /\ k \in Jobs /\ k.tool = j.tool /\ k.plan = j.plan /\ k.effective = j.effective /\ k.page = page
      /\ k.got = j.got /\ k.read = j.read /\ k.failed = j.failed /\ k.died = j.died
      /\ k.rounds = j.rounds /\ k.pc = j.pc
    BY DEF JobOK, Jobs
<1>2. JobOK(k)
    BY <1>1 DEF JobOK
<1>3. c \in Collections
    BY PlanFacts
<1>4. p \in Seq(CallsOf(j.tool))
    <2>1. CallsOf(j.tool) = ListCalls
        BY DEF CallsOf
    <2>2. FurtherOf(j, page) \in Seq(ListCalls)
        <3>1. <<>> \in Seq(ListCalls)
            OBVIOUS
        <3> QED
            BY <3>1, MembersIs DEF FurtherOf
    <2> QED
        BY <2>1, <2>2, PlanFacts, JoinIs
<1>5. g \in [Collections -> SUBSET Ids] /\ r \in Nat
    BY <1>3 DEF JobOK, Jobs
<1>6. NextJob(k, [Goes(k, p) EXCEPT !.got = g, !.rounds = r], p, 0, {}, g, k.read, k.failed, k.died)
    <2> HIDE DEF p, g, r, k
    <2> QED
        BY <1>1, <1>2, <1>4, <1>5, GoesIs
<1>7. Goes(k, p).got = j.got
    BY <1>1 DEF Goes, Jobs
<1>8. Ends(k) = [Goes(k, p) EXCEPT !.got = g, !.rounds = r]
    <2>1. FurtherOf(j, page) = Further(k, c)
        BY <1>1 DEF FurtherOf, Further
    <2>2. Head(k.plan).of = c /\ Tail(k.plan) = Tail(j.plan)
        BY <1>1
    <2> HIDE DEF k
    <2> QED
        BY <1>1, <1>7, <2>1, <2>2 DEF Ends
<1>9. NextJob(j, Ends(k), p, 0, {}, g, j.read, j.failed, j.died)
    <2> HIDE DEF p, g, r, k
    <2> QED
        BY <1>1, <1>6, <1>8 DEF NextJob
<1> QED
    BY <1>9 DEF HasListed

\* A page of what is held beyond the cursor: the next of it, and the last if it is.
LEMMA PageIs ==
    ASSUME NEW j, JobOK(j), j.plan # <<>>, j.tool \in Listing, NEW rest \in SUBSET Ids
    PROVE  \/ rest = {} /\ HasListed(j, Page(j, rest), j.page)
           \/ \E i \in rest : /\ \A h \in rest : i <= h
                              /\ \/ rest = {i} /\ HasListed(j, Page(j, rest), j.page \cup {i})
                                 \/ TurnsPage(j, Page(j, rest), i)
<1>1. j \in Jobs /\ j.page \in SUBSET Ids /\ Ids \subseteq Nat
    BY ClientAssumption DEF JobOK, Jobs
<1>2. CASE rest = {}
    <2>1. j = [j EXCEPT !.page = j.page]
        BY <1>1 DEF Jobs
    <2>2. HasListed(j, Ends(j), j.page)
        BY <1>1, <2>1, EndsIs
    <2> QED
        BY <1>2, <2>2 DEF Page
<1>3. CASE rest # {}
    <2> DEFINE i == Min(rest)
               pg == j.page \cup {i}
               k == [j EXCEPT !.page = pg]
    <2>1. i \in rest /\ \A h \in rest : i <= h
        BY <1>1, <1>3, MinIs
    <2>2. pg \in SUBSET Ids
        BY <1>1, <2>1
    <2>3. IsFiniteSet(rest)
        BY FS_Subset, ClientAssumption
    <2> HIDE DEF i
    <2>4. CASE Cardinality(rest) = 1
        <3>1. rest = {i}
            BY <2>1, <2>3, <2>4, FS_Singleton
        <3>2. Page(j, rest) = Ends(k)
            BY <1>3, <2>4 DEF Page, i
        <3>3. HasListed(j, Ends(k), pg)
            BY <2>2, EndsIs
        <3> QED
            BY <2>1, <3>1, <3>2, <3>3
    <2>5. CASE Cardinality(rest) # 1
        <3>1. Page(j, rest) = [k EXCEPT !.cursor = i, !.pc = "ready", !.attempts = 0]
            BY <1>3, <2>5 DEF Page, i
        <3> DEFINE n == [k EXCEPT !.cursor = i, !.pc = "ready", !.attempts = 0]
        <3>2. i \in Nat
            BY <1>1, <2>1
        <3>3. /\ n \in Jobs /\ n.tool = j.tool /\ n.plan = j.plan /\ n.effective = j.effective
              /\ n.pc = "ready" /\ n.cursor = i /\ n.page = pg /\ n.got = j.got
              /\ n.read = j.read /\ n.failed = j.failed /\ n.died = j.died
            <4> HIDE DEF pg
            <4> QED
                BY <1>1, <2>2, <3>2 DEF Jobs
        <3>4. TurnsPage(j, n, i)
            <4> HIDE DEF n
            <4> QED
                BY <3>3 DEF TurnsPage, NextJob, JobOK
        <3> QED
            BY <2>1, <3>1, <3>4
    <2> QED
        BY <2>4, <2>5
<1> QED
    BY <1>2, <1>3

-----------------------------------------------------------------------------
(* What a request does.                                                     *)

NoEffect == effects' = effects /\ revision' = revision
Effect(c, read) == /\ Writes(c) /\ Accepted(c, read)
                   /\ revision' = Written(c) /\ effects' = [effects EXCEPT ![c.of] = @ + 1]
Beyond(j) == {i \in Held(Head(j.plan).of) : i > j.cursor}
Listed(j, n) ==
    \/ Beyond(j) = {} /\ HasListed(j, n, j.page)
    \/ \E i \in Beyond(j) : /\ \A h \in Beyond(j) : i <= h
                            /\ \/ Beyond(j) = {i} /\ HasListed(j, n, j.page \cup {i})
                               \/ TurnsPage(j, n, i)
\* Thread t has sent its request, and goes on with job n.
Outcome(j, c, n) ==
    \/ /\ Hampered(j, n) /\ (NoEffect \/ Effect(c, j.read))
       /\ unsure' = IF Writes(c) THEN unsure \cup {c.of} ELSE unsure
    \/ j.tool \in Listing /\ (Listed(j, n) \/ Hampered(j, n)) /\ NoEffect /\ unsure' = unsure
    \/ j.tool \notin Listing /\ ~Accepted(c, j.read) /\ Fails(j, n) /\ NoEffect /\ unsure' = unsure
    \/ c.op = "get" /\ Accepted(c, j.read) /\ Proceeds(j, n, revision[c.of]) /\ NoEffect /\ unsure' = unsure
    \/ Effect(c, j.read) /\ Proceeds(j, n, j.read) /\ unsure' = unsure
Requested(t, n) ==
    /\ jobs[t].pc = "sending" /\ jobs[t].plan # <<>> /\ jobs' = [jobs EXCEPT ![t] = n]
    /\ UNCHANGED <<paceVars, held, realized, touched>>
    /\ sends' = (IF interval = 0 THEN sends ELSE Append(sends, clock))
    /\ Remembers(held, revision')
    /\ Outcome(jobs[t], Head(jobs[t].plan), n)

ClientTypes ==
    /\ clock \in Nat /\ last \in Nat /\ holder \in Threads \cup {Nobody} /\ due \in Nat /\ interval \in {0, Interval}
    /\ held \in [Stored -> SUBSET Ids] /\ revision \in [Ids -> Nat] /\ realized \in BOOLEAN
    /\ always \in [Collections -> SUBSET Ids] /\ ever \in [Collections -> SUBSET Ids]
    /\ effects \in [Ids -> Nat] /\ unsure \in SUBSET Ids /\ touched \in SUBSET Ids
    /\ sends \in Seq(Nat) /\ troubles \in [{"busy", "faults", "edits"} -> Nat]
    /\ jobs \in [Threads -> Jobs]
JobsSound == /\ \A t \in Threads : JobOK(jobs[t])
             /\ \A t \in Threads : jobs[t].tool = jobs[Main].tool
HeldBetween == \A c \in Collections : always[c] \subseteq Held(c) /\ Held(c) \subseteq ever[c]
ClientInv == ClientTypes /\ JobsSound /\ HeldBetween

LEMMA SendingHasPlan ==
    ASSUME ClientInv, NEW t \in Threads, jobs[t].pc = "sending"
    PROVE  JobOK(jobs[t]) /\ jobs[t].plan # <<>>
BY DEF ClientInv, JobsSound, JobOK

LEMMA HeldIs ==
    ASSUME NEW h \in [Stored -> SUBSET Ids], NEW r \in [Ids -> Nat], NEW c \in Collections
    PROVE  HeldBy(h, r, c) \in SUBSET Ids
<1>1. Vms \in Stored
    BY DEF Stored
<1>2. c \in Stored \/ c = Names \/ c = Groups
    BY DEF Collections
<1> QED
    BY <1>1, <1>2 DEF HeldBy

LEMMA FaultIs ==
    ASSUME ClientInv, NEW t \in Threads, jobs[t].pc = "sending", NEW n, NEW happens \in BOOLEAN,
           Sends(t, n, happens, TRUE), Hampered(jobs[t], n)
    PROVE  Requested(t, n)
<1> DEFINE j == jobs[t]
           c == Head(j.plan)
<1>1. j.plan # <<>>
    BY SendingHasPlan
<1>2. CASE happens /\ Writes(c) /\ Accepted(c, j.read)
    BY <1>1, <1>2 DEF Sends, Requested, Outcome, Effect
<1>3. CASE ~(happens /\ Writes(c) /\ Accepted(c, j.read))
    BY <1>1, <1>3 DEF Sends, Requested, Outcome, NoEffect
<1> QED
    BY <1>2, <1>3

LEMMA RequestIs ==
    ASSUME ClientInv, NEW t \in Threads, NEW happens \in BOOLEAN,
           Answers(t) \/ AnswersBusy(t, happens) \/ AnswerLost(t, happens)
    PROVE  \E n : Requested(t, n)
<1> DEFINE j == jobs[t]
           c == Head(j.plan)
<1>1. j.pc = "sending"
    BY DEF Answers, AnswersBusy, AnswerLost, Sending
<1>2. JobOK(j) /\ j.plan # <<>>
    BY <1>1, SendingHasPlan
<1>3. CASE AnswersBusy(t, happens)
    <2>1. Sends(t, Busy(j), happens, TRUE)
        BY <1>3 DEF AnswersBusy
    <2>2. Hampered(j, Busy(j))
        BY <1>2, BusyIs
    <2> QED
        BY <1>1, <2>1, <2>2, FaultIs
<1>4. CASE AnswerLost(t, happens)
    <2>1. PICK n \in {Troubled(j), GivesUp(j)} : Sends(t, n, happens, TRUE)
        BY <1>4 DEF AnswerLost
    <2>2. Hampered(j, n)
        BY <1>2, TroubledIs, GivesUpIs DEF Hampered
    <2> QED
        BY <1>1, <2>1, <2>2, FaultIs
<1>5. CASE Answers(t)
    <2> DEFINE n == CASE c.op = "effective" /\ ~realized -> Unrealized(j)
                      [] c.op = "list" \/ (c.op = "effective" /\ realized) -> Page(j, {i \in Held(c.of) : i > j.cursor})
                      [] ~(c.op \in {"list", "effective"}) /\ ~Accepted(c, j.read) -> GivesUp(j)
                      [] c.op = "get" /\ Accepted(c, j.read) ->
                             [Goes(j, Tail(j.plan)) EXCEPT !.read = revision[c.of]]
                      [] OTHER -> Goes(j, Tail(j.plan))
    <2>1. Sends(t, n, TRUE, FALSE)
        BY <1>5 DEF Answers
    <2>2. /\ jobs' = [jobs EXCEPT ![t] = n] /\ UNCHANGED <<paceVars, held, realized, touched>>
          /\ sends' = (IF interval = 0 THEN sends ELSE Append(sends, clock))
          /\ Remembers(held, revision') /\ unsure' = unsure
        BY <2>1 DEF Sends
    <2>3. /\ Writes(c) /\ Accepted(c, j.read) => Effect(c, j.read)
          /\ ~(Writes(c) /\ Accepted(c, j.read)) => NoEffect
        BY <2>1 DEF Sends, Effect, NoEffect
    <2>4. Outcome(j, c, n)
        <3>1. CASE j.tool \in Listing
            <4>1. c \in ListCalls /\ c.op \in {"list", "effective"} /\ c.of \in Collections
                BY <1>2, <3>1, PlanFacts, CallFacts
            <4>2. NoEffect
                BY <2>3, <4>1 DEF Writes
            <4>3. CASE c.op = "effective" /\ ~realized
                <5>1. n = Unrealized(j)
                    <6> HIDE DEF c, j
                    <6> QED
                        BY <4>1, <4>3
                <5>2. Hampered(j, n)
                    BY <1>2, <5>1, UnrealizedIs
                <5> QED
                    BY <2>2, <3>1, <4>2, <5>2 DEF Outcome
            <4>4. CASE ~(c.op = "effective" /\ ~realized)
                <5>1. n = Page(j, Beyond(j))
                    <6>1. n = Page(j, {i \in Held(c.of) : i > j.cursor})
                        <7> HIDE DEF c, j
                        <7>1. c.op = "list" \/ (c.op = "effective" /\ realized)
                            BY <4>1, <4>4
                        <7>2. CASE c.op = "list"
                            BY <7>2
                        <7>3. CASE c.op = "effective" /\ realized
                            BY <7>3
                        <7> QED
                            BY <7>1, <7>2, <7>3
                    <6> QED
                        BY <6>1 DEF Beyond
                <5>2. Beyond(j) \in SUBSET Ids
                    BY <4>1, HeldIs DEF Beyond, Held, ClientInv, ClientTypes
                <5>3. Listed(j, n)
                    <6> HIDE DEF n, j
                    <6>1. \A rest \in SUBSET Ids :
                              \/ rest = {} /\ HasListed(j, Page(j, rest), j.page)
                              \/ \E i \in rest : /\ \A h \in rest : i <= h
                                                 /\ \/ rest = {i} /\ HasListed(j, Page(j, rest), j.page \cup {i})
                                                    \/ TurnsPage(j, Page(j, rest), i)
                        BY <1>2, <3>1, PageIs
                    <6> QED
                        BY <5>1, <5>2, <6>1 DEF Listed
                <5> QED
                    BY <2>2, <3>1, <4>2, <5>3 DEF Outcome
            <4> QED
                BY <4>3, <4>4
        <3>2. CASE j.tool \notin Listing
            <4>1. c \in WriteCalls /\ c.op \in {"get", "put", "patch", "delete"} /\ c.of \in Ids
                BY <1>2, <3>2, PlanFacts, CallFacts
            <4>2. Tail(j.plan) \in Seq(CallsOf(j.tool))
                BY <1>2, PlanFacts
            <4>3. CASE ~Accepted(c, j.read)
                <5>1. n = GivesUp(j)
                    <6> HIDE DEF c, j
                    <6> QED
                        BY <4>1, <4>3
                <5> QED
                    BY <1>2, <2>2, <2>3, <3>2, <4>3, <5>1, GivesUpIs DEF Outcome
            <4>4. CASE Accepted(c, j.read) /\ c.op = "get"
                <5>1. n = [Goes(j, Tail(j.plan)) EXCEPT !.read = revision[c.of]]
                    <6> HIDE DEF c, j
                    <6> QED
                        BY <4>1, <4>4
                <5>2. revision[c.of] \in Nat
                    BY <4>1 DEF ClientInv, ClientTypes
                <5>3. Proceeds(j, n, revision[c.of])
                    <6> HIDE DEF n, j, c
                    <6>1. \A r \in Nat : NextJob(j, [Goes(j, Tail(j.plan)) EXCEPT !.read = r], Tail(j.plan), 0, {}, j.got, r, j.failed, j.died)
                        BY <1>2, <4>2, GoesIs
                    <6> QED
                        BY <5>1, <5>2, <6>1 DEF Proceeds
                <5>4. NoEffect
                    BY <2>3, <4>4 DEF Writes
                <5> QED
                    BY <2>2, <4>4, <5>3, <5>4 DEF Outcome
            <4>5. CASE Accepted(c, j.read) /\ c.op # "get"
                <5>1. n = Goes(j, Tail(j.plan))
                    <6> HIDE DEF c, j
                    <6> QED
                        BY <4>1, <4>5
                <5>2. Proceeds(j, n, j.read)
                    BY <1>2, <4>2, <5>1, GoesIs DEF Proceeds
                <5>3. Effect(c, j.read)
                    BY <2>3, <4>1, <4>5 DEF Writes
                <5> QED
                    BY <2>2, <5>2, <5>3 DEF Outcome
            <4> QED
                BY <4>3, <4>4, <4>5
        <3> QED
            BY <3>1, <3>2
    <2> QED
        BY <1>1, <1>2, <2>2, <2>4 DEF Requested
<1> QED
    BY <1>3, <1>4, <1>5

\* However it went on.
Succeeds(j, n) == JobOK(n) /\ n.tool = j.tool /\ n.effective = j.effective /\ n.pc \in {"ready", "delay", "done"}

LEMMA OutcomeIs ==
    ASSUME NEW j, NEW c, NEW n, Outcome(j, c, n)
    PROVE  Succeeds(j, n) /\ (NoEffect \/ Effect(c, j.read)) /\ unsure' \in {unsure, unsure \cup {c.of}}
                          /\ (unsure' # unsure => Writes(c))
<1>1. ASSUME Hampered(j, n) PROVE Succeeds(j, n)
    BY <1>1 DEF Hampered, Repeats, Begins, Reindexes, Fails, SkipsGroup, SkipsObject, Dies, NextJob, Succeeds
<1>2. ASSUME Fails(j, n) PROVE Succeeds(j, n)
    BY <1>1, <1>2 DEF Hampered
<1>3. ASSUME Listed(j, n) PROVE Succeeds(j, n)
    BY <1>3 DEF Listed, HasListed, TurnsPage, NextJob, Succeeds
<1>4. ASSUME NEW r, Proceeds(j, n, r) PROVE Succeeds(j, n)
    BY <1>4 DEF Proceeds, NextJob, Succeeds
<1>5. Succeeds(j, n)
    BY <1>1, <1>2, <1>3, <1>4 DEF Outcome
<1>6. (NoEffect \/ Effect(c, j.read)) /\ unsure' \in {unsure, unsure \cup {c.of}} /\ (unsure' # unsure => Writes(c))
    BY DEF Outcome
<1> QED
    BY <1>5, <1>6

Moves(t, pc) ==
    /\ jobs[t].plan # <<>> /\ pc \in {"ready", "pacing", "sending"}
    /\ jobs' = [jobs EXCEPT ![t].pc = pc]
    /\ UNCHANGED <<managerVars, effects, unsure, sends, troubles, clock, interval>>
OthersAct ==
    /\ UNCHANGED <<jobs, effects, unsure>>
    /\ \A c \in Collections : always'[c] \subseteq always[c] /\ ever[c] \subseteq ever'[c]
    /\ touched \subseteq touched' /\ \A k \in Ids \ touched' : revision'[k] = revision[k]

LEMMA RememberIs ==
    ASSUME ClientInv, NEW h \in [Stored -> SUBSET Ids], NEW r \in [Ids -> Nat], Remembers(h, r)
    PROVE  /\ always' \in [Collections -> SUBSET Ids] /\ ever' \in [Collections -> SUBSET Ids]
           /\ \A c \in Collections : /\ always'[c] \subseteq HeldBy(h, r, c) /\ HeldBy(h, r, c) \subseteq ever'[c]
                                     /\ always'[c] \subseteq always[c] /\ ever[c] \subseteq ever'[c]
<1> DEFINE a == [c \in Collections |-> always[c] \cap HeldBy(h, r, c)]
           e == [c \in Collections |-> ever[c] \cup HeldBy(h, r, c)]
<1>1. always' = a /\ ever' = e
    BY DEF Remembers
<1>2. always \in [Collections -> SUBSET Ids] /\ ever \in [Collections -> SUBSET Ids]
    BY DEF ClientInv, ClientTypes
<1>3. \A c \in Collections : HeldBy(h, r, c) \in SUBSET Ids
    BY HeldIs
<1>4. \A c \in Collections : /\ a[c] = always[c] \cap HeldBy(h, r, c) /\ e[c] = ever[c] \cup HeldBy(h, r, c)
                             /\ a[c] \in SUBSET Ids /\ e[c] \in SUBSET Ids
    BY <1>2, <1>3
<1>5. a \in [Collections -> SUBSET Ids] /\ e \in [Collections -> SUBSET Ids]
    BY <1>4
<1> HIDE DEF a, e
<1> QED
    BY <1>1, <1>4, <1>5

LEMMA ClientStepIs ==
    ASSUME ClientInv, [ClientNext]_clientVars
    PROVE  \/ OthersAct
           \/ \E t \in Threads, pc \in {"ready", "pacing", "sending"} : Moves(t, pc)
           \/ \E t \in Threads : \E n : Requested(t, n)
<1> USE DEF managerVars, paceVars
<1>1. CASE UNCHANGED clientVars
    BY <1>1 DEF clientVars, OthersAct
<1>2. ASSUME NEW c \in Stored, NEW i \in Ids, Edited(c, i) PROVE OthersAct
    <2> DEFINE h == [held EXCEPT ![c] = IF i \in @ THEN @ \ {i} ELSE @ \cup {i}]
    <2>1. held' = h /\ Remembers(held', revision) /\ UNCHANGED <<jobs, effects, unsure, touched, revision>>
        BY <1>2 DEF Edited
    <2>2. h \in [Stored -> SUBSET Ids] /\ revision \in [Ids -> Nat]
        BY DEF ClientInv, ClientTypes
    <2> HIDE DEF h
    <2>3. Remembers(h, revision)
        BY <2>1
    <2> QED
        BY <2>1, <2>2, <2>3, RememberIs DEF OthersAct
<1>3. ASSUME NEW g \in Ids, GroupEdited(g) PROVE OthersAct
    <2>1. PICK r \in {revision[g] + 1, 0} : revision' = [revision EXCEPT ![g] = r]
        BY <1>3 DEF GroupEdited
    <2>2. /\ touched' = touched \cup {g} /\ Remembers(held, revision') /\ UNCHANGED <<jobs, effects, unsure>>
        BY <1>3 DEF GroupEdited
    <2>3. revision' \in [Ids -> Nat] /\ held \in [Stored -> SUBSET Ids] /\ \A k \in Ids \ {g} : revision'[k] = revision[k]
        BY <2>1 DEF ClientInv, ClientTypes
    <2>4. \A c \in Collections : always'[c] \subseteq always[c] /\ ever[c] \subseteq ever'[c]
        <3>1. \A r2 \in [Ids -> Nat] : r2 = revision' => Remembers(held, r2)
            BY <2>2
        <3>2. \A r2 \in [Ids -> Nat] : r2 = revision' =>
                  \A c \in Collections : always'[c] \subseteq always[c] /\ ever[c] \subseteq ever'[c]
            BY <2>3, <3>1, RememberIs
        <3> QED
            BY <2>3, <3>2
    <2> QED
        BY <2>2, <2>3, <2>4 DEF OthersAct
<1>4. CASE Realizes \/ Ticks
    BY <1>4 DEF Realizes, Ticks, OthersAct
<1>5. ASSUME NEW t \in Threads, PaceBegins(t) \/ PaceEnds(t) \/ PaceOff(t) \/ DelayEnds(t)
      PROVE  \E pc \in {"ready", "pacing", "sending"} : Moves(t, pc)
    <2>1. jobs[t].pc # "done"
        BY <1>5 DEF PaceBegins, PaceEnds, PaceOff, DelayEnds
    <2>2. jobs[t].plan # <<>>
        BY <2>1 DEF ClientInv, JobsSound, JobOK
    <2> QED
        BY <1>5, <2>2 DEF PaceBegins, PaceEnds, PaceOff, DelayEnds, AfterDelay, Moves
<1>6. ASSUME NEW t \in Threads, NEW happens \in BOOLEAN, Answers(t) \/ AnswersBusy(t, happens) \/ AnswerLost(t, happens)
      PROVE  \E n : Requested(t, n)
    BY <1>6, RequestIs
<1> QED
    BY <1>1, <1>2, <1>3, <1>4, <1>5, <1>6 DEF ClientNext

LEMMA ClientInvNext == ClientInv /\ [ClientNext]_clientVars => ClientInv'
<1> SUFFICES ASSUME ClientInv, [ClientNext]_clientVars PROVE ClientInv'
    OBVIOUS
<1> USE DEF managerVars, paceVars
<1>a. ClientTypes /\ JobsSound /\ HeldBetween
    BY DEF ClientInv
<1>b. Interval \in Nat /\ \A t \in Threads : jobs[t] \in Jobs
    BY <1>a, ClientAssumption DEF ClientTypes
<1>1. JobsSound' /\ jobs' \in [Threads -> Jobs]
    <2>1. CASE OthersAct
        BY <1>a, <2>1 DEF OthersAct, JobsSound, ClientTypes
    <2>2. ASSUME NEW t \in Threads, NEW pc \in {"ready", "pacing", "sending"}, Moves(t, pc)
          PROVE  JobsSound' /\ jobs' \in [Threads -> Jobs]
        <3> DEFINE n == [jobs[t] EXCEPT !.pc = pc]
        <3>1. jobs' = [jobs EXCEPT ![t] = n] /\ jobs[t].plan # <<>>
            BY <2>2 DEF Moves
        <3>2. n \in Jobs /\ n.plan = jobs[t].plan /\ n.tool = jobs[t].tool /\ n.pc = pc
            BY <1>b DEF Jobs
        <3>3. JobOK(n)
            BY <1>a, <3>1, <3>2 DEF JobOK, JobsSound
        <3> HIDE DEF n
        <3> QED
            BY <1>a, <3>1, <3>2, <3>3, ClientAssumption DEF JobsSound, ClientTypes
    <2>3. ASSUME NEW t \in Threads, NEW n, Requested(t, n) PROVE JobsSound' /\ jobs' \in [Threads -> Jobs]
        <3>1. jobs' = [jobs EXCEPT ![t] = n]
            BY <2>3 DEF Requested
        <3>2. n \in Jobs /\ JobOK(n) /\ n.tool = jobs[t].tool
            BY <2>3, OutcomeIs DEF Requested, Succeeds, JobOK
        <3> QED
            BY <1>a, <3>1, <3>2, ClientAssumption DEF JobsSound, ClientTypes
    <2> QED
        BY <2>1, <2>2, <2>3, ClientStepIs
<1>2. revision' \in [Ids -> Nat] /\ effects' \in [Ids -> Nat] /\ unsure' \in SUBSET Ids
      /\ held' \in [Stored -> SUBSET Ids] /\ touched' \in SUBSET Ids
    <2>1. ASSUME NEW c \in Stored, NEW i \in Ids, Edited(c, i)
          PROVE  revision' \in [Ids -> Nat] /\ effects' \in [Ids -> Nat] /\ unsure' \in SUBSET Ids
                 /\ held' \in [Stored -> SUBSET Ids] /\ touched' \in SUBSET Ids
        BY <1>a, <2>1 DEF Edited, ClientTypes
    <2>2. ASSUME NEW g \in Ids, GroupEdited(g)
          PROVE  revision' \in [Ids -> Nat] /\ effects' \in [Ids -> Nat] /\ unsure' \in SUBSET Ids
                 /\ held' \in [Stored -> SUBSET Ids] /\ touched' \in SUBSET Ids
        BY <1>a, <2>2 DEF GroupEdited, ClientTypes
    <2>3. ASSUME NEW t \in Threads, NEW n, Requested(t, n)
          PROVE  revision' \in [Ids -> Nat] /\ effects' \in [Ids -> Nat] /\ unsure' \in SUBSET Ids
                 /\ held' \in [Stored -> SUBSET Ids] /\ touched' \in SUBSET Ids
        <3> DEFINE j == jobs[t]
                   c == Head(j.plan)
        <3>1. Outcome(j, c, n) /\ UNCHANGED <<held, touched>> /\ JobOK(j) /\ j.plan # <<>>
            BY <1>a, <2>3 DEF Requested, JobsSound
        <3>2. (NoEffect \/ Effect(c, j.read)) /\ unsure' \in {unsure, unsure \cup {c.of}} /\ (unsure' # unsure => Writes(c))
            BY <3>1, OutcomeIs
        <3>3. Writes(c) => c.of \in Ids
            <4>1. j.tool \in Listing => c.op \in {"list", "effective"}
                BY <3>1, PlanFacts, CallFacts
            <4> QED
                BY <3>1, <4>1, PlanFacts DEF Writes
        <3>4. unsure' \in SUBSET Ids
            BY <1>a, <3>2, <3>3 DEF ClientTypes
        <3>5. revision' \in [Ids -> Nat] /\ effects' \in [Ids -> Nat]
            <4>1. CASE NoEffect
                BY <1>a, <4>1 DEF NoEffect, ClientTypes
            <4>2. CASE Effect(c, j.read)
                BY <1>a, <4>2, <3>3 DEF Effect, Written, ClientTypes
            <4> QED
                BY <3>2, <4>1, <4>2
        <3> QED
            BY <1>a, <3>1, <3>4, <3>5 DEF ClientTypes
    <2>4. CASE UNCHANGED clientVars
        BY <1>a, <2>4 DEF clientVars, ClientTypes
    <2>5. CASE Realizes \/ Ticks
        BY <1>a, <2>5 DEF Realizes, Ticks, ClientTypes
    <2>6. ASSUME NEW t \in Threads, PaceBegins(t) \/ PaceEnds(t) \/ PaceOff(t) \/ DelayEnds(t)
          PROVE  revision' \in [Ids -> Nat] /\ effects' \in [Ids -> Nat] /\ unsure' \in SUBSET Ids
                 /\ held' \in [Stored -> SUBSET Ids] /\ touched' \in SUBSET Ids
        BY <1>a, <2>6 DEF PaceBegins, PaceEnds, PaceOff, DelayEnds, ClientTypes
    <2>7. ASSUME NEW t \in Threads, NEW happens \in BOOLEAN, Answers(t) \/ AnswersBusy(t, happens) \/ AnswerLost(t, happens)
          PROVE  \E n : Requested(t, n)
        BY <2>7, RequestIs
    <2> QED
        BY <2>1, <2>2, <2>3, <2>4, <2>5, <2>6, <2>7 DEF ClientNext
<1>3. always' \in [Collections -> SUBSET Ids] /\ ever' \in [Collections -> SUBSET Ids] /\ HeldBetween'
    <2>1. CASE UNCHANGED <<held, revision, always, ever>>
        BY <1>a, <2>1 DEF ClientTypes, HeldBetween, Held, HeldBy
    <2>2. CASE Remembers(held', revision')
        <3>1. \A h \in [Stored -> SUBSET Ids], r \in [Ids -> Nat] : h = held' /\ r = revision' => Remembers(h, r)
            BY <2>2
        <3>2. \A h \in [Stored -> SUBSET Ids], r \in [Ids -> Nat] : h = held' /\ r = revision' =>
                  /\ always' \in [Collections -> SUBSET Ids] /\ ever' \in [Collections -> SUBSET Ids]
                  /\ \A c \in Collections : always'[c] \subseteq HeldBy(h, r, c) /\ HeldBy(h, r, c) \subseteq ever'[c]
            BY <3>1, RememberIs
        <3>3. \A c \in Collections : always'[c] \subseteq HeldBy(held', revision', c) /\ HeldBy(held', revision', c) \subseteq ever'[c]
            BY <1>2, <3>2
        <3>4. always' \in [Collections -> SUBSET Ids] /\ ever' \in [Collections -> SUBSET Ids]
            BY <1>2, <3>2
        <3> QED
            BY <3>3, <3>4 DEF HeldBetween, Held, HeldBy
    <2>3. UNCHANGED <<held, revision, always, ever>> \/ Remembers(held', revision')
        BY DEF ClientNext, clientVars, Edited, GroupEdited, Realizes, Ticks, PaceBegins, PaceEnds, PaceOff, DelayEnds,
               Answers, AnswersBusy, AnswerLost, Sends, Remembers
    <2> QED
        BY <2>1, <2>2, <2>3
<1>4. clock' \in Nat /\ last' \in Nat /\ holder' \in Threads \cup {Nobody} /\ due' \in Nat /\ interval' \in {0, Interval}
      /\ realized' \in BOOLEAN /\ sends' \in Seq(Nat) /\ troubles' \in [{"busy", "faults", "edits"} -> Nat]
    <2>1. ASSUME NEW t \in Threads, NEW happens \in BOOLEAN, Answers(t) \/ AnswersBusy(t, happens) \/ AnswerLost(t, happens)
          PROVE  /\ UNCHANGED <<paceVars, realized>> /\ sends' \in Seq(Nat)
                 /\ troubles' \in [{"busy", "faults", "edits"} -> Nat]
        <3>1. UNCHANGED <<paceVars, realized>> /\ (sends' = sends \/ sends' = Append(sends, clock))
            BY <2>1 DEF Answers, AnswersBusy, AnswerLost, Sends
        <3>2. sends' \in Seq(Nat)
            <4>1. sends \in Seq(Nat) /\ clock \in Nat
                BY <1>a DEF ClientTypes
            <4>2. Append(sends, clock) \in Seq(Nat)
                BY <4>1
            <4> QED
                BY <3>1, <4>1, <4>2
        <3>3. troubles' = troubles \/ Spend("busy") \/ Spend("faults")
            BY <2>1 DEF Answers, AnswersBusy, AnswerLost
        <3>4. troubles' \in [{"busy", "faults", "edits"} -> Nat]
            BY <1>a, <3>3 DEF ClientTypes, Spend
        <3> QED
            BY <3>1, <3>2, <3>4
    <2>2. ASSUME NEW t \in Threads, PaceBegins(t)
          PROVE  UNCHANGED <<clock, last, interval, realized, sends, troubles>> /\ holder' = t /\ due' \in Nat
        <3>1. {clock, last + interval} \in SUBSET Nat
            BY <1>a, <1>b DEF ClientTypes
        <3>2. Max({clock, last + interval}) \in {clock, last + interval}
            BY <3>1 DEF Max
        <3> QED
            BY <2>2, <3>1, <3>2 DEF PaceBegins
    <2>3. CASE \E c \in Stored, i \in Ids : Edited(c, i)
        BY <1>a, <2>3 DEF Edited, Spend, ClientTypes
    <2>4. CASE \E g \in Ids : GroupEdited(g)
        BY <1>a, <2>4 DEF GroupEdited, Spend, ClientTypes
    <2>5. CASE Realizes
        BY <1>a, <2>5 DEF Realizes, ClientTypes
    <2>7. CASE Ticks
        BY <1>a, <2>7 DEF Ticks, ClientTypes
    <2>8. CASE UNCHANGED clientVars
        BY <1>a, <2>8 DEF clientVars, ClientTypes
    <2>6. CASE \E t \in Threads : PaceEnds(t) \/ PaceOff(t) \/ DelayEnds(t)
        BY <1>a, <2>6 DEF PaceEnds, PaceOff, DelayEnds, ClientTypes
    <2> QED
        BY <1>a, <2>1, <2>2, <2>3, <2>4, <2>5, <2>6, <2>7, <2>8 DEF ClientNext, ClientTypes
<1> QED
    BY <1>1, <1>2, <1>3, <1>4 DEF ClientInv, ClientTypes

-----------------------------------------------------------------------------
(* The jobs at first.                                                       *)

LEMMA JobIs ==
    ASSUME NEW tool \in Tools, NEW p \in Seq(CallsOf(tool))
    PROVE  /\ JobOK(Job(tool, p)) /\ Job(tool, p).tool = tool /\ Job(tool, p).plan = p
           /\ Job(tool, p).page = {} /\ Job(tool, p).cursor = 0 /\ Job(tool, p).read = 0
           /\ Job(tool, p).failed = {} /\ Job(tool, p).died = FALSE /\ Job(tool, p).pc \in {"ready", "done"}
           /\ Job(tool, p).effective = (\E i \in DOMAIN p : p[i].op = "effective")
<1> DEFINE j == Job(tool, p)
           e == \E i \in DOMAIN p : p[i].op = "effective"
           g == [c \in Collections |-> {}]
<1>1. p \in Seq(ListCalls) \cup Seq(WriteCalls)
    BY PlanIs
<1>2. g \in [Collections -> SUBSET Ids] /\ e \in BOOLEAN
    OBVIOUS
<1> HIDE DEF e, g
<1>3. j = [tool |-> tool, plan |-> p, effective |-> e, pc |-> IF p = <<>> THEN "done" ELSE "ready",
           attempts |-> 0, tries |-> 0, rounds |-> 0, cursor |-> 0, page |-> {},
           got |-> g, read |-> 0, failed |-> {}, died |-> FALSE]
    BY DEF Job, e, g
<1> HIDE DEF j
<1>4. j \in Jobs
    BY <1>1, <1>2, <1>3 DEF Jobs
<1>5. /\ j.tool = tool /\ j.plan = p /\ j.page = {} /\ j.cursor = 0 /\ j.read = 0
      /\ j.failed = {} /\ j.died = FALSE /\ j.got = g
      /\ j.effective = e /\ j.pc = (IF p = <<>> THEN "done" ELSE "ready")
    BY <1>3
<1>6. JobOK(j)
    BY <1>4, <1>5 DEF JobOK
<1> QED
    BY <1>5, <1>6 DEF e, g, j

LEMMA EffectiveIs ==
    /\ EffectiveOf(Ids) \in Seq(ListCalls)
    /\ \A g \in Ids : Within(EffectiveOf(Ids), Ips(g))
    /\ Len(EffectiveOf(Ids)) = Cardinality(Ids)
    /\ \A i \in DOMAIN EffectiveOf(Ids) : EffectiveOf(Ids)[i].op = "effective"
<1> DEFINE s == SetToSeq(Ids)
           q == EffectiveOf(Ids)
<1>1. /\ s \in Seq(Ids) /\ \A g \in Ids : \E i \in DOMAIN s : s[i] = g
      /\ DOMAIN s = 1 .. Cardinality(Ids) /\ Cardinality(Ids) \in Nat
    BY ClientAssumption, SetToSeqIs, FS_CardinalityType
<1>2. q = [i \in DOMAIN s |-> Call("effective", Ips(s[i]))]
    BY DEF EffectiveOf
<1> HIDE DEF s, q
<1>3. \A i \in DOMAIN s : s[i] \in Ids
    BY <1>1
<1>4. \A g \in Ids : /\ Call("effective", Ips(g)) \in ListCalls /\ Call("effective", Ips(g)).of = Ips(g)
                     /\ Call("effective", Ips(g)).op = "effective"
    BY DEF ListCalls, Call
<1>5. q \in [1 .. Cardinality(Ids) -> ListCalls]
    BY <1>1, <1>2, <1>3, <1>4
<1>6. q \in Seq(ListCalls) /\ Len(q) = Cardinality(Ids) /\ DOMAIN q = DOMAIN s
    BY <1>1, <1>5
<1>7. \A i \in DOMAIN s : q[i].of = Ips(s[i]) /\ q[i].op = "effective"
    BY <1>2, <1>3, <1>4
<1>8. ASSUME NEW g \in Ids PROVE Within(q, Ips(g))
    <2>1. PICK i \in DOMAIN s : s[i] = g
        BY <1>1
    <2> QED
        BY <1>6, <1>7, <2>1 DEF Within
<1> QED
    BY <1>6, <1>7, <1>8 DEF q

LEMMA BothIs ==
    /\ BothOf(Ids) \in Seq(ListCalls)
    /\ \A g \in Ids : Within(BothOf(Ids), Ips(g))
    /\ \E i \in DOMAIN BothOf(Ids) : BothOf(Ids)[i].op = "effective"
<1> DEFINE m == MembersOf(Ids)
           e == EffectiveOf(Ids)
           b == BothOf(Ids)
           k == Cardinality(Ids)
<1>1. k \in Nat /\ k # 0
    BY ClientAssumption, FS_CardinalityType, FS_EmptySet
<1>2. /\ m \in Seq(ListCalls) /\ Len(m) = k /\ DOMAIN m = 1 .. k
      /\ e \in Seq(ListCalls) /\ Len(e) = k /\ DOMAIN e = 1 .. k
      /\ \A i \in 1 .. k : e[i].op = "effective"
    BY MembersIs, EffectiveIs
<1>3. b = [i \in 1 .. 2 * k |-> IF i % 2 = 1 THEN m[(i + 1) \div 2] ELSE e[i \div 2]]
    BY <1>2 DEF BothOf
<1>a. \A g \in Ids : Within(e, Ips(g))
    BY EffectiveIs
<1> HIDE DEF m, e, b, k
<1>4. \A i \in 1 .. 2 * k : (i % 2 = 1 => (i + 1) \div 2 \in 1 .. k) /\ (i % 2 # 1 => i \div 2 \in 1 .. k)
    BY <1>1
<1>5. \A i \in 1 .. k : m[i] \in ListCalls /\ e[i] \in ListCalls
    BY <1>2
<1>6. \A i \in 1 .. 2 * k : (IF i % 2 = 1 THEN m[(i + 1) \div 2] ELSE e[i \div 2]) \in ListCalls
    BY <1>4, <1>5
<1>7. b \in [1 .. 2 * k -> ListCalls]
    BY <1>3, <1>6
<1>8. b \in Seq(ListCalls) /\ DOMAIN b = 1 .. 2 * k
    BY <1>1, <1>7
<1>9. \A i \in 1 .. k : 2 * i \in 1 .. 2 * k /\ b[2 * i] = e[i]
    <2> TAKE i \in 1 .. k
    <2>1. 2 * i \in 1 .. 2 * k /\ (2 * i) % 2 # 1 /\ (2 * i) \div 2 = i
        BY <1>1
    <2>2. b[2 * i] = IF (2 * i) % 2 = 1 THEN m[(2 * i + 1) \div 2] ELSE e[(2 * i) \div 2]
        BY <1>3, <2>1
    <2> QED
        BY <2>1, <2>2
<1>10. ASSUME NEW g \in Ids PROVE Within(b, Ips(g))
    <2>1. PICK i \in 1 .. k : e[i].of = Ips(g)
        BY <1>2, <1>a DEF Within
    <2> QED
        BY <1>8, <1>9, <2>1 DEF Within
<1>11. \E i \in DOMAIN b : b[i].op = "effective"
    <2>1. 1 \in 1 .. k
        BY <1>1
    <2>2. 2 * 1 \in 1 .. 2 * k /\ b[2 * 1] = e[1] /\ e[1].op = "effective"
        BY <1>2, <1>9, <2>1
    <2> QED
        BY <1>8, <2>2
<1> QED
    BY <1>8, <1>10, <1>11 DEF b

LEMMA IndexIs ==
    /\ Index \in Seq(ListCalls) /\ Within(Index, Vms) /\ Within(Index, Vifs)
    /\ \A i \in DOMAIN Index : Index[i].op = "list"
<1>1. /\ List(Vms) \in ListCalls /\ List(Vms).of = Vms /\ List(Vms).op = "list"
      /\ List(Vifs) \in ListCalls /\ List(Vifs).of = Vifs /\ List(Vifs).op = "list"
    BY CallFacts
<1> HIDE DEF List
<1>2. Index \in Seq(ListCalls) /\ DOMAIN Index = 1 .. 2 /\ Index[1] = List(Vms) /\ Index[2] = List(Vifs)
    BY <1>1 DEF Index
<1> QED
    BY <1>1, <1>2 DEF Within

LEMMA AdditiveIs ==
    ASSUME NEW p \in Additive
    PROVE  /\ p \in Seq(ListCalls)
           /\ IF \E i \in DOMAIN p : p[i].op = "effective" THEN \A g \in Ids : Within(p, Ips(g))
              ELSE Within(p, Vms) /\ Within(p, Vifs) /\ \A g \in Ids : Within(p, Members(g))
<1>1. CASE p = Index \o MembersOf(Ids)
    <2>1. p \in Seq(ListCalls) /\ \A c : Within(p, c) <=> Within(Index, c) \/ Within(MembersOf(Ids), c)
        BY <1>1, IndexIs, MembersIs, JoinIs
    <2>2. Within(p, Vms) /\ Within(p, Vifs) /\ \A g \in Ids : Within(p, Members(g))
        BY <2>1, IndexIs, MembersIs
    <2>3. ASSUME NEW i \in DOMAIN p PROVE p[i].op = "list"
        <3> DEFINE m == MembersOf(Ids)
        <3>1. Index \in Seq(ListCalls) /\ m \in Seq(ListCalls)
            BY IndexIs, MembersIs
        <3>2. /\ \A k \in DOMAIN Index : Index[k].op = "list"
              /\ \A k \in DOMAIN m : m[k].op = "list"
            BY IndexIs, MembersIs
        <3> HIDE DEF m
        <3>3. \/ i \in DOMAIN Index /\ p[i] = Index[i]
              \/ i - Len(Index) \in DOMAIN m /\ p[i] = m[i - Len(Index)]
            <4> HIDE DEF Index
            <4> QED
                BY <1>1, <3>1 DEF m
        <3> QED
            BY <3>2, <3>3
    <2> QED
        BY <2>1, <2>2, <2>3
<1>2. CASE p = EffectiveOf(Ids)
    <2>1. Cardinality(Ids) \in Nat \ {0}
        BY ClientAssumption, FS_CardinalityType, FS_EmptySet
    <2>2. p \in Seq(ListCalls) /\ Len(p) = Cardinality(Ids) /\ \A i \in DOMAIN p : p[i].op = "effective"
        BY <1>2, EffectiveIs
    <2>3. 1 \in DOMAIN p
        BY <2>1, <2>2
    <2> QED
        BY <1>2, <2>2, <2>3, EffectiveIs
<1>3. CASE p = Index \o BothOf(Ids)
    <2> DEFINE b == BothOf(Ids)
    <2>1. p \in Seq(ListCalls) /\ \A c : Within(p, c) <=> Within(Index, c) \/ Within(b, c)
        BY <1>3, IndexIs, BothIs, JoinIs
    <2>2. PICK i \in DOMAIN b : b[i].op = "effective"
        BY BothIs
    <2>3. Len(Index) + i \in DOMAIN p /\ p[Len(Index) + i] = b[i]
        <3>1. Index \in Seq(ListCalls) /\ b \in Seq(ListCalls)
            BY IndexIs, BothIs
        <3> HIDE DEF Index, b
        <3> QED
            BY <1>3, <2>2, <3>1 DEF b
    <2> QED
        BY <2>1, <2>2, <2>3, BothIs
<1> QED
    BY <1>1, <1>2, <1>3 DEF Additive

LEMMA MembershipIs ==
    /\ Membership \in Seq(ListCalls)
    /\ \A c \in {Vms, Vifs, Names, Groups} : Within(Membership, c)
<1> DEFINE q == <<List(Names), List(Groups)>>
<1>1. /\ List(Names) \in ListCalls /\ List(Names).of = Names
      /\ List(Groups) \in ListCalls /\ List(Groups).of = Groups
    BY CallFacts
<1>2. q \in Seq(ListCalls) /\ Within(q, Names) /\ Within(q, Groups)
    <2> HIDE DEF List, Names, Groups
    <2>1. q \in Seq(ListCalls) /\ DOMAIN q = 1 .. 2 /\ q[1] = List(Names) /\ q[2] = List(Groups)
        BY <1>1
    <2> QED
        BY <1>1, <2>1 DEF Within
<1>3. Membership = Index \o q
    BY DEF Membership
<1> HIDE DEF q
<1> QED
    BY <1>2, <1>3, IndexIs, JoinIs

Distinct(p) == \A i, k \in DOMAIN p : p[i].of = p[k].of => i = k

LEMMA DeletesIs ==
    ASSUME NEW S \in SUBSET Ids
    PROVE  LET s == SetToSeq(S)
               p == [i \in DOMAIN s |-> Call("delete", s[i])]
           IN  p \in Seq(CallsOf("wipe")) /\ Distinct(p) /\ \A k : Within(p, k) <=> k \in S
<1> DEFINE s == SetToSeq(S)
           p == [i \in DOMAIN s |-> Call("delete", s[i])]
<1>1. IsFiniteSet(S) /\ Cardinality(S) \in Nat
    BY ClientAssumption, FS_Subset, FS_CardinalityType
<1>2. /\ s \in Seq(S) /\ \A g \in S : \E i \in DOMAIN s : s[i] = g
      /\ \A i, k \in DOMAIN s : s[i] = s[k] => i = k
      /\ DOMAIN s = 1 .. Cardinality(S) /\ Len(s) = Cardinality(S)
    BY <1>1, SetToSeqIs
<1> HIDE DEF s
<1>3. \A i \in DOMAIN s : s[i] \in S
    BY <1>2
<1>4. \A k \in Ids : Call("delete", k) \in CallsOf("wipe") /\ Call("delete", k).of = k
    BY DEF CallsOf, Listing, WriteCalls, Call
<1>5. p \in [1 .. Cardinality(S) -> CallsOf("wipe")] /\ \A i \in DOMAIN s : p[i].of = s[i]
    BY <1>2, <1>3, <1>4
<1>6. p \in Seq(CallsOf("wipe")) /\ DOMAIN p = DOMAIN s
    BY <1>1, <1>2, <1>5
<1> HIDE DEF p
<1>7. Distinct(p)
    BY <1>2, <1>5, <1>6 DEF Distinct
<1>8. \A k : Within(p, k) <=> k \in S
    BY <1>2, <1>3, <1>5, <1>6 DEF Within
<1> QED
    BY <1>6, <1>7, <1>8 DEF p, s

AmendPlan(p) == p = <<>> \/ \E k \in Ids : p = Amends(k) \/ p = <<Call("put", k)>> \/ p = <<Call("patch", k)>>

LEMMA AmendIs ==
    ASSUME NEW k \in Ids
    PROVE  Amends(k) \in Seq(CallsOf("amend")) /\ <<Call("patch", k)>> \in Seq(CallsOf("amend"))
<1>1. \A op \in {"get", "put", "patch"} : Call(op, k) \in CallsOf("amend")
    BY DEF CallsOf, Listing, WriteCalls, Call
<1> HIDE DEF Call
<1> QED
    BY <1>1 DEF Amends

\* The job of the main thread, and of the others, of each tool.
LEMMA InitJobs ==
    ASSUME ClientInit
    PROVE  /\ \A t \in Threads : \E p \in Seq(CallsOf(jobs[Main].tool)) : jobs[t] = Job(jobs[Main].tool, p)
           /\ jobs \in [Threads -> Jobs] /\ jobs[Main].tool \in Tools
           /\ \A t \in Threads : JobOK(jobs[t]) /\ jobs[t].tool = jobs[Main].tool
           /\ jobs[Main].tool = "additive" => \E p \in Additive : jobs[Main] = Job("additive", p)
           /\ jobs[Main].tool = "membership" => jobs[Main] = Job("membership", Membership)
           /\ jobs[Main].tool = "amend" => /\ \A t \in Threads \ {Main} : jobs[t].plan = <<>>
                                           /\ AmendPlan(jobs[Main].plan) /\ jobs[Main].read = 0
                                           /\ \A k \in Ids : jobs[Main].plan # <<Call("put", k)>>
           /\ jobs[Main].tool = "wipe" =>
                  \E share \in [Threads -> SUBSET Ids] :
                      /\ UNION {share[t] : t \in Threads} = Ids
                      /\ \A t, u \in Threads : t # u => share[t] \cap share[u] = {}
                      /\ \A t \in Threads : /\ \A k : Within(jobs[t].plan, k) <=> k \in share[t]
                                            /\ Distinct(jobs[t].plan) /\ jobs[t].failed = {}
<1>a. Main \in Threads
    BY ClientAssumption
<1>1. CASE interval = 0
    <2>1. PICK which \in {"additive", "membership", "amend"} : \E p \in PlansOf(which) :
              jobs = [t \in Threads |-> Job(which, IF t = Main THEN p ELSE <<>>)]
        BY <1>1, ClientAssumption DEF ClientInit
    <2>2. PICK q \in PlansOf(which) : jobs = [t \in Threads |-> Job(which, IF t = Main THEN q ELSE <<>>)]
        BY <2>1
    <2>3. which \in Tools /\ <<>> \in Seq(CallsOf(which))
        BY DEF Tools
    <2>4. q \in Seq(CallsOf(which))
        <3>1. CASE which = "additive"
            BY <3>1, AdditiveIs DEF PlansOf, CallsOf, Listing
        <3>2. CASE which = "membership"
            BY <3>2, MembershipIs DEF PlansOf, CallsOf, Listing
        <3>3. CASE which = "amend"
            <4>1. \E k \in Ids : q = Amends(k) \/ q = <<Call("patch", k)>>
                BY <3>3 DEF PlansOf
            <4> QED
                BY <3>3, <4>1, AmendIs
        <3> QED
            BY <3>1, <3>2, <3>3
    <2>5. jobs[Main] = Job(which, q) /\ JobOK(Job(which, q)) /\ Job(which, q).tool = which /\ Job(which, q).plan = q /\ Job(which, q).read = 0
        <3>1. jobs[Main] = Job(which, q)
            BY <1>a, <2>2
        <3>2. JobOK(Job(which, q))
            BY <2>3, <2>4, JobIs
        <3>3. Job(which, q).tool = which
            BY <2>3, <2>4, JobIs
        <3>4. Job(which, q).plan = q
            BY <2>3, <2>4, JobIs
        <3>5. Job(which, q).read = 0
            BY DEF Job
        <3> HIDE DEF Job
        <3> QED
            BY <3>1, <3>2, <3>3, <3>4, <3>5
    <2>6. \A t \in Threads \ {Main} : jobs[t] = Job(which, <<>>)
        BY <2>2
    <2>7. JobOK(Job(which, <<>>)) /\ Job(which, <<>>).tool = which /\ Job(which, <<>>).plan = <<>>
        BY <2>3, JobIs
    <2>8. \A t \in Threads : JobOK(jobs[t]) /\ jobs[t].tool = which /\ jobs[t] \in Jobs
        BY <2>5, <2>6, <2>7 DEF JobOK
    <2>9. jobs \in [Threads -> Jobs]
        <3>1. DOMAIN jobs = Threads /\ jobs = [t \in Threads |-> jobs[t]]
            BY <2>2
        <3> QED
            BY <2>8, <3>1
    <2>10. which = "amend" => AmendPlan(q) /\ \A k \in Ids : q # <<Call("put", k)>>
        <3>1. SUFFICES ASSUME which = "amend" PROVE AmendPlan(q) /\ \A k \in Ids : q # <<Call("put", k)>>
            OBVIOUS
        <3>2. PICK k \in Ids : q = Amends(k) \/ q = <<Call("patch", k)>>
            BY <3>1 DEF PlansOf
        <3>3. AmendPlan(q)
            BY <3>2 DEF AmendPlan
        <3>4. ASSUME NEW h \in Ids PROVE q # <<Call("put", h)>>
            BY <3>2 DEF Amends, Call
        <3> QED
            BY <3>3, <3>4
    <2>11. which = "additive" => q \in Additive
        BY DEF PlansOf
    <2>12. which = "membership" => q = Membership
        BY DEF PlansOf
    <2>13. \A t \in Threads : \E p \in Seq(CallsOf(which)) : jobs[t] = Job(which, p)
        BY <2>3, <2>4, <2>5, <2>6
    <2> HIDE DEF Job, AmendPlan
    <2> QED
        BY <2>3, <2>5, <2>6, <2>7, <2>8, <2>9, <2>10, <2>11, <2>12, <2>13
<1>2. CASE interval # 0
    <2>1. PICK share \in [Threads -> SUBSET Ids] :
              /\ UNION {share[t] : t \in Threads} = Ids
              /\ \A t, u \in Threads : t # u => share[t] \cap share[u] = {}
              /\ jobs = WipeOf(share)
        BY <1>2 DEF ClientInit
    <2> DEFINE d(t) == LET s == SetToSeq(share[t]) IN [i \in DOMAIN s |-> Call("delete", s[i])]
    <2>2. jobs = [t \in Threads |-> Job("wipe", d(t))]
        BY <2>1 DEF WipeOf
    <2>3. \A t \in Threads : d(t) \in Seq(CallsOf("wipe")) /\ Distinct(d(t)) /\ \A k : Within(d(t), k) <=> k \in share[t]
        <3>1. \A t \in Threads : share[t] \in SUBSET Ids
            BY <2>1
        <3> QED
            BY <3>1, DeletesIs
    <2> HIDE DEF d
    <2>4. \A t \in Threads : jobs[t] = Job("wipe", d(t))
        BY <2>2
    <2>5. "wipe" \in Tools
        BY DEF Tools
    <2>6. \A t \in Threads : /\ JobOK(jobs[t]) /\ jobs[t].tool = "wipe" /\ jobs[t].plan = d(t) /\ jobs[t].failed = {}
                             /\ jobs[t] \in Jobs
        <3> TAKE t \in Threads
        <3>1. d(t) \in Seq(CallsOf("wipe"))
            BY <2>3
        <3>2. /\ JobOK(Job("wipe", d(t))) /\ Job("wipe", d(t)).tool = "wipe"
              /\ Job("wipe", d(t)).plan = d(t) /\ Job("wipe", d(t)).failed = {}
            BY <2>5, <3>1, JobIs
        <3> QED
            BY <2>4, <3>2 DEF JobOK
    <2>7. jobs \in [Threads -> Jobs]
        <3>1. DOMAIN jobs = Threads /\ jobs = [t \in Threads |-> jobs[t]]
            BY <2>2
        <3> QED
            BY <2>6, <3>1
    <2>8. jobs[Main].tool = "wipe"
        BY <1>a, <2>6
    <2> HIDE DEF Job
    <2> QED
        BY <2>1, <2>3, <2>4, <2>5, <2>6, <2>7, <2>8
<1> QED
    BY <1>1, <1>2

LEMMA ClientInvInit == ClientInit => ClientInv
<1> SUFFICES ASSUME ClientInit PROVE ClientInv
    OBVIOUS
<1>1. held \in [Stored -> SUBSET Ids]
    <2>1. held \in [Stored -> {{}, Ids}] /\ {{}, Ids} \subseteq SUBSET Ids
        BY DEF ClientInit
    <2> QED
        BY <2>1
<1>2. revision \in [Ids -> Nat] /\ effects \in [Ids -> Nat] /\ unsure = {} /\ touched = {} /\ sends = <<>>
    BY DEF ClientInit
<1>3. /\ clock \in Nat /\ last \in Nat /\ holder \in Threads \cup {Nobody} /\ due \in Nat
      /\ interval \in {0, Interval}
    BY DEF ClientInit
<1>4. realized \in BOOLEAN
    BY DEF ClientInit
<1>5. troubles \in [{"busy", "faults", "edits"} -> Nat]
    BY ClientAssumption DEF ClientInit
<1>6. always = [c \in Collections |-> Held(c)] /\ ever = always
    BY DEF ClientInit
<1>7. \A c \in Collections : Held(c) \in SUBSET Ids
    BY <1>1, <1>2, HeldIs DEF Held
<1>8. /\ always \in [Collections -> SUBSET Ids] /\ ever \in [Collections -> SUBSET Ids] /\ HeldBetween
    BY <1>6, <1>7 DEF HeldBetween
<1>9. jobs \in [Threads -> Jobs] /\ JobsSound
    BY InitJobs DEF JobsSound
<1>10. sends \in Seq(Nat)
    BY <1>2
<1> QED
    BY <1>1, <1>2, <1>3, <1>4, <1>5, <1>8, <1>9, <1>10 DEF ClientInv, ClientTypes

-----------------------------------------------------------------------------
(* The pace.                                                                *)

SendingNow == {t \in Threads : jobs[t].pc = "sending"}
\* The requests that were given their turn.
Begun == Len(sends) + Cardinality(SendingNow)
TurnsKept ==
    /\ last <= clock
    /\ interval = 0 => sends = <<>>
    /\ \A t \in Threads : jobs[t].pc = "pacing" => holder = t
    /\ holder # Nobody => due >= last + interval
    /\ interval # 0 => last >= Begun * Interval
\* Of each request sent: no more than a turn of each thread since, or at the pace.
SinceEach ==
    \A i \in DOMAIN sends : /\ sends[i] <= clock
                            /\ \/ Begun <= i - 1 + Cardinality(Threads)
                               \/ last >= sends[i] + (Begun - i - Cardinality(Threads)) * Interval
PaceInv == TurnsKept /\ SinceEach /\ RequestsPaced

LEMMA Multiples ==
    /\ \A a, b \in Int : a <= b => a * Interval <= b * Interval
    /\ \A a \in Int : (a + 1) * Interval = a * Interval + Interval /\ a * Interval \in Int
    /\ \A a \in Int : a <= 0 => a * Interval <= 0
    /\ 0 * Interval = 0 /\ Interval \in Nat \ {0}
BY ClientAssumption

LEMMA SendingIs ==
    ASSUME ClientInv
    PROVE  /\ IsFiniteSet(SendingNow) /\ Cardinality(SendingNow) \in Nat
           /\ Cardinality(Threads) \in Nat /\ Cardinality(SendingNow) <= Cardinality(Threads)
           /\ Begun \in Nat /\ Len(sends) \in Nat /\ DOMAIN sends = 1 .. Len(sends)
           /\ \A i \in DOMAIN sends : sends[i] \in Nat
<1>1. SendingNow \subseteq Threads
    BY DEF SendingNow
<1>2. IsFiniteSet(SendingNow) /\ Cardinality(SendingNow) <= Cardinality(Threads)
    BY <1>1, FS_Subset, ClientAssumption
<1>3. Cardinality(SendingNow) \in Nat /\ Cardinality(Threads) \in Nat
    BY <1>2, FS_CardinalityType, ClientAssumption
<1>4. sends \in Seq(Nat)
    BY DEF ClientInv, ClientTypes
<1>5. Len(sends) \in Nat /\ DOMAIN sends = 1 .. Len(sends) /\ \A i \in DOMAIN sends : sends[i] \in Nat
    BY <1>4
<1> QED
    BY <1>2, <1>3, <1>5 DEF Begun

LEMMA PaceInit == ClientInit => PaceInv
<1> SUFFICES ASSUME ClientInit PROVE PaceInv
    OBVIOUS
<1>1. sends = <<>> /\ clock = 0 /\ last = 0 /\ holder = Nobody
    BY DEF ClientInit
<1>2. DOMAIN sends = {} /\ Len(sends) = 0
    BY <1>1
<1>3. \A t \in Threads : jobs[t].pc \in {"ready", "done"}
    <2> TAKE t \in Threads
    <2>1. PICK p \in Seq(CallsOf(jobs[Main].tool)) : jobs[t] = Job(jobs[Main].tool, p)
        BY InitJobs
    <2>2. jobs[Main].tool \in Tools
        BY InitJobs
    <2>3. Job(jobs[Main].tool, p).pc \in {"ready", "done"}
        BY DEF Job
    <2> QED
        BY <2>1, <2>3
<1>4. SendingNow = {}
    BY <1>3 DEF SendingNow
<1>5. Begun = 0
    BY <1>2, <1>4, FS_EmptySet DEF Begun
<1>6. TurnsKept
    BY <1>1, <1>3, <1>5, Multiples DEF TurnsKept
<1> QED
    BY <1>2, <1>6 DEF PaceInv, SinceEach, RequestsPaced

LEMMA PaceNext == ClientInv /\ PaceInv /\ [ClientNext]_clientVars => PaceInv'
<1> SUFFICES ASSUME ClientInv, PaceInv, [ClientNext]_clientVars PROVE PaceInv'
    OBVIOUS
<1> USE DEF paceVars
<1>a. /\ clock \in Nat /\ last \in Nat /\ due \in Nat /\ interval \in {0, Interval} /\ Interval \in Nat \ {0}
      /\ jobs \in [Threads -> Jobs] /\ sends \in Seq(Nat) /\ Nobody \notin Threads
    BY ClientAssumption DEF ClientInv, ClientTypes
<1>b. TurnsKept /\ SinceEach /\ RequestsPaced
    BY DEF PaceInv
\* Nothing moves that matters to it.
<1>1. ASSUME UNCHANGED <<last, holder, due, interval, sends>>, clock' \in Nat, clock <= clock',
             SendingNow' = SendingNow, \A t \in Threads : jobs'[t].pc = "pacing" => jobs[t].pc = "pacing"
      PROVE  PaceInv'
    <2>1. Begun' = Begun
        BY <1>1 DEF Begun
    <2>2. TurnsKept'
        BY <1>1, <1>a, <1>b, <2>1 DEF TurnsKept
    <2>3. SinceEach'
        <3>1. \A i \in DOMAIN sends : sends[i] \in Nat
            BY <1>a
        <3> QED
            BY <1>1, <1>a, <1>b, <2>1, <3>1 DEF SinceEach
    <2> QED
        BY <1>1, <1>b, <2>2, <2>3 DEF PaceInv, RequestsPaced
<1>2. CASE UNCHANGED clientVars
    BY <1>2, <1>1, <1>a DEF clientVars, SendingNow
<1>3. CASE (\E c \in Stored, i \in Ids : Edited(c, i)) \/ (\E g \in Ids : GroupEdited(g)) \/ Realizes \/ Ticks
    BY <1>3, <1>1, <1>a DEF Edited, GroupEdited, Realizes, Ticks, SendingNow
<1>4. ASSUME NEW t \in Threads, PaceBegins(t) PROVE PaceInv'
    <2>1. /\ UNCHANGED <<clock, last, interval, sends>> /\ holder = Nobody /\ holder' = t /\ interval > 0
          /\ jobs[t].pc = "ready" /\ jobs' = [jobs EXCEPT ![t].pc = "pacing"]
          /\ due' = Max({clock, last + interval})
        BY <1>4 DEF PaceBegins
    <2>2. \A u \in Threads : jobs'[u].pc = (IF u = t THEN "pacing" ELSE jobs[u].pc)
        BY <1>a, <2>1 DEF Jobs
    <2>3. SendingNow' = SendingNow
        BY <2>1, <2>2 DEF SendingNow
    <2>4. Begun' = Begun
        BY <2>1, <2>3 DEF Begun
    <2>5. due' >= last + interval
        <3>1. \E x \in {clock, last + interval} : \A y \in {clock, last + interval} : x >= y
            BY <1>a
        <3>2. \A y \in {clock, last + interval} : due' >= y
            BY <2>1, <3>1 DEF Max
        <3> QED
            BY <3>2
    <2>6. TurnsKept'
        BY <1>a, <1>b, <2>1, <2>2, <2>4, <2>5 DEF TurnsKept
    <2>7. SinceEach'
        BY <1>b, <2>1, <2>4 DEF SinceEach
    <2> QED
        BY <1>b, <2>1, <2>6, <2>7 DEF PaceInv, RequestsPaced
<1>5. ASSUME NEW t \in Threads, PaceEnds(t) PROVE PaceInv'
    <2>1. /\ UNCHANGED <<clock, interval, sends>> /\ holder' = Nobody /\ last' = clock /\ clock >= due
          /\ jobs[t].pc = "pacing" /\ jobs' = [jobs EXCEPT ![t].pc = "sending"]
        BY <1>5 DEF PaceEnds, managerVars
    <2>2. \A u \in Threads : jobs'[u].pc = (IF u = t THEN "sending" ELSE jobs[u].pc)
        BY <1>a, <2>1 DEF Jobs
    <2>3. SendingNow' = SendingNow \cup {t} /\ t \notin SendingNow
        BY <2>1, <2>2 DEF SendingNow
    <2>4. Begun' = Begun + 1
        <3>1. Cardinality(SendingNow \cup {t}) = Cardinality(SendingNow) + 1
            BY <2>3, SendingIs, FS_AddElement
        <3>2. Cardinality(SendingNow') = Cardinality(SendingNow) + 1
            BY <2>3, <3>1
        <3> QED
            BY <2>1, <3>2, SendingIs DEF Begun
    <2>5. holder = t /\ last' >= last + interval
        BY <1>a, <1>b, <2>1 DEF TurnsKept
    <2>6. TurnsKept'
        <3>1. \A u \in Threads : jobs'[u].pc # "pacing"
            BY <1>b, <2>2, <2>5 DEF TurnsKept
        <3>2. interval # 0 => last' >= Begun' * Interval
            BY <1>a, <1>b, <2>4, <2>5, <2>1, SendingIs, Multiples DEF TurnsKept
        <3> QED
            BY <1>a, <1>b, <2>1, <3>1, <3>2 DEF TurnsKept
    <2>7. SinceEach'
        <3> SUFFICES ASSUME NEW i \in DOMAIN sends
                     PROVE  /\ sends[i] <= clock
                            /\ \/ Begun' <= i - 1 + Cardinality(Threads)
                               \/ last' >= sends[i] + (Begun' - i - Cardinality(Threads)) * Interval
            BY <2>1 DEF SinceEach
        <3> DEFINE N == Cardinality(Threads)
                   w == Begun - i - N
        <3>1. i \in Nat /\ sends[i] \in Nat /\ N \in Nat /\ Begun \in Nat /\ interval = Interval
            <4>1. sends # <<>>
                BY <1>a
            <4> QED
                BY <1>a, <1>b, <4>1, SendingIs DEF TurnsKept
        <3>2. sends[i] <= clock
            BY <1>b DEF SinceEach
        <3>3. CASE Begun + 1 <= i - 1 + N
            BY <2>4, <3>2, <3>3
        <3>4. CASE Begun + 1 = i + N
            <4>1. Begun' - i - N = 0
                BY <2>4, <3>1, <3>4
            <4>2. (Begun' - i - N) * Interval = 0
                BY <4>1, Multiples
            <4> QED
                BY <1>a, <2>1, <3>1, <3>2, <4>2
        <3>5. CASE Begun > i - 1 + N
            <4>1. last >= sends[i] + w * Interval
                BY <1>b, <3>1, <3>5 DEF SinceEach
            <4>2. w \in Int /\ Begun' - i - N = w + 1
                BY <2>4, <3>1
            <4>3. (w + 1) * Interval = w * Interval + Interval /\ w * Interval \in Int
                BY <4>2, Multiples
            <4>4. last' >= sends[i] + (w + 1) * Interval
                <5> HIDE DEF w
                <5>1. last' \in Nat /\ last' >= last + Interval
                    BY <1>a, <2>1, <2>5, <3>1
                <5> QED
                    BY <1>a, <3>1, <4>1, <4>3, <5>1
            <4> QED
                BY <3>2, <4>2, <4>4
        <3> QED
            BY <3>1, <3>3, <3>4, <3>5
    <2> QED
        BY <1>b, <2>1, <2>6, <2>7 DEF PaceInv, RequestsPaced
<1>6. ASSUME NEW t \in Threads, PaceOff(t) PROVE PaceInv'
    <2>1. /\ UNCHANGED <<paceVars, sends>> /\ interval = 0 /\ jobs' = [jobs EXCEPT ![t].pc = "sending"]
        BY <1>6 DEF PaceOff
    <2>2. \A u \in Threads : jobs'[u].pc = (IF u = t THEN "sending" ELSE jobs[u].pc)
        BY <1>a, <2>1 DEF Jobs
    <2>3. sends = <<>> /\ sends' = <<>> /\ DOMAIN sends' = {}
        <3>1. sends = <<>>
            BY <1>b, <2>1 DEF TurnsKept
        <3> QED
            BY <2>1, <3>1
    <2>4. TurnsKept'
        BY <1>b, <2>1, <2>2, <2>3 DEF TurnsKept
    <2> QED
        BY <2>3, <2>4 DEF PaceInv, SinceEach, RequestsPaced
<1>7. ASSUME NEW t \in Threads, DelayEnds(t) PROVE PaceInv'
    <2>1. /\ UNCHANGED <<paceVars, sends>> /\ jobs[t].pc = "delay" /\ jobs' = [jobs EXCEPT ![t].pc = "ready"]
        BY <1>7 DEF DelayEnds, AfterDelay
    <2>2. \A u \in Threads : jobs'[u].pc = (IF u = t THEN "ready" ELSE jobs[u].pc)
        BY <1>a, <2>1 DEF Jobs
    <2>3. SendingNow' = SendingNow
        BY <2>1, <2>2 DEF SendingNow
    <2> QED
        BY <1>1, <1>a, <2>1, <2>2, <2>3
<1>8. ASSUME NEW t \in Threads, NEW n, Requested(t, n) PROVE PaceInv'
    <2>1. /\ UNCHANGED paceVars /\ jobs[t].pc = "sending" /\ jobs' = [jobs EXCEPT ![t] = n]
          /\ sends' = (IF interval = 0 THEN sends ELSE Append(sends, clock))
        BY <1>8 DEF Requested
    <2>2. n.pc \in {"ready", "delay", "done"}
        BY <1>8, OutcomeIs DEF Requested, Succeeds
    <2>3. \A u \in Threads : jobs'[u] = (IF u = t THEN n ELSE jobs[u])
        BY <1>a, <2>1
    <2>4. SendingNow' = SendingNow \ {t} /\ t \in SendingNow
        BY <2>1, <2>2, <2>3 DEF SendingNow
    <2>5. Cardinality(SendingNow') = Cardinality(SendingNow) - 1
        BY <2>4, SendingIs, FS_RemoveElement
    <2>6. Cardinality(SendingNow) \in Nat \ {0} /\ Cardinality(SendingNow) <= Cardinality(Threads)
        BY <2>4, SendingIs, FS_EmptySet
    <2>7. CASE interval = 0
        <3>1. sends = <<>>
            BY <1>b, <2>7 DEF TurnsKept
        <3>2. sends' = <<>> /\ DOMAIN sends' = {}
            BY <2>1, <2>7, <3>1
        <3>3. TurnsKept'
            BY <1>b, <2>1, <2>2, <2>3, <2>7, <3>2 DEF TurnsKept
        <3> QED
            BY <3>2, <3>3 DEF PaceInv, SinceEach, RequestsPaced
    <2>8. CASE interval # 0
        <3> DEFINE N == Cardinality(Threads)
                   m == Len(sends) + 1
        <3>1. /\ sends' = Append(sends, clock) /\ Len(sends) \in Nat /\ Len(sends') = m /\ DOMAIN sends' = 1 .. m
              /\ sends'[m] = clock /\ \A i \in 1 .. m : i # m => i \in DOMAIN sends /\ sends'[i] = sends[i]
              /\ \A i \in DOMAIN sends : sends[i] \in Nat
              /\ DOMAIN sends = 1 .. Len(sends)
            BY <1>a, <2>1, <2>8
        <3>2. Begun' = Begun
            BY <2>5, <2>6, <3>1 DEF Begun
        <3>3. Begun \in Nat /\ Begun >= m /\ Begun <= m - 1 + N /\ N \in Nat /\ m \in Nat
            BY <2>6, <3>1, SendingIs DEF Begun
        <3>4. last >= Begun * Interval /\ last <= clock
            BY <1>b, <2>8 DEF TurnsKept
        <3>5. TurnsKept'
            BY <1>b, <2>1, <2>2, <2>3, <2>8, <3>2 DEF TurnsKept
        <3>6. SinceEach'
            <4> SUFFICES ASSUME NEW i \in 1 .. m
                         PROVE  /\ sends'[i] <= clock
                                /\ \/ Begun <= i - 1 + N
                                   \/ last >= sends'[i] + (Begun - i - N) * Interval
                BY <2>1, <3>1, <3>2 DEF SinceEach
            <4>1. CASE i = m
                BY <1>a, <3>1, <3>3, <4>1
            <4>2. CASE i # m
                BY <1>b, <3>1, <4>2 DEF SinceEach
            <4> QED
                BY <4>1, <4>2
        <3>7. RequestsPaced'
            <4> SUFFICES ASSUME NEW j \in 1 .. m
                         PROVE  /\ sends'[j] >= (j - 1) * Interval
                                /\ \A i \in 1 .. j : (j - i - N) * Interval <= sends'[j] - sends'[i]
                BY <3>1 DEF RequestsPaced
            <4>1. CASE j # m
                <5>1. j \in DOMAIN sends /\ sends'[j] = sends[j] /\ \A i \in 1 .. j : i \in 1 .. m /\ i # m
                    BY <3>1, <3>3, <4>1
                <5>2. \A i \in 1 .. j : sends'[i] = sends[i]
                    BY <3>1, <5>1
                <5> QED
                    BY <1>b, <5>1, <5>2 DEF RequestsPaced
            <4>2. CASE j = m
                <5>1. clock >= (m - 1) * Interval
                    <6>1. (m - 1) * Interval <= Begun * Interval /\ Begun * Interval \in Int /\ (m - 1) * Interval \in Int
                        BY <3>3, Multiples
                    <6> QED
                        BY <1>a, <3>4, <6>1
                <5>2. ASSUME NEW i \in 1 .. m PROVE (m - i - N) * Interval <= clock - sends'[i]
                    <6> DEFINE v == m - i - N
                               w == Begun - i - N
                    <6>1. v \in Int /\ w \in Int /\ v <= w /\ v * Interval <= w * Interval
                          /\ v * Interval \in Int /\ w * Interval \in Int
                        <7>1. v \in Int /\ w \in Int /\ v <= w
                            BY <3>3
                        <7> HIDE DEF v, w
                        <7> QED
                            BY <7>1, Multiples
                    <6>2. sends'[i] \in Nat /\ sends'[i] <= clock
                        BY <1>a, <1>b, <3>1 DEF SinceEach
                    <6>3. CASE v <= 0
                        <7>1. v * Interval <= 0
                            BY <6>1, <6>3, Multiples
                        <7> HIDE DEF v, w
                        <7>2. v * Interval <= clock - sends'[i]
                            BY <1>a, <6>1, <6>2, <7>1
                        <7> QED
                            BY <7>2 DEF v
                    <6>4. CASE v > 0
                        <7>1. i # m /\ i \in DOMAIN sends /\ sends'[i] = sends[i]
                            BY <3>1, <3>3, <6>4
                        <7>2. ~(Begun <= i - 1 + N)
                            BY <3>3, <6>4
                        <7>3. last >= sends[i] + w * Interval
                            BY <1>b, <7>1, <7>2 DEF SinceEach
                        <7> HIDE DEF v, w
                        <7>4. v * Interval <= clock - sends'[i]
                            <8>1. \A x, y, l, k, s \in Int : x <= y /\ l >= s + y /\ l <= k => x <= k - s
                                OBVIOUS
                            <8>2. last >= sends'[i] + w * Interval
                                BY <7>1, <7>3
                            <8>3. clock \in Int /\ last \in Int /\ sends'[i] \in Int
                                BY <1>a, <6>2
                            <8> QED
                                BY <3>4, <6>1, <8>1, <8>2, <8>3
                        <7> QED
                            BY <7>4 DEF v
                    <6> QED
                        BY <6>1, <6>3, <6>4
                <5> QED
                    BY <3>1, <4>2, <5>1, <5>2
            <4> QED
                BY <4>1, <4>2
        <3> QED
            BY <3>5, <3>6, <3>7 DEF PaceInv
    <2> QED
        BY <2>7, <2>8
<1>9. ASSUME NEW t \in Threads, NEW happens \in BOOLEAN, Answers(t) \/ AnswersBusy(t, happens) \/ AnswerLost(t, happens)
      PROVE  PaceInv'
    BY <1>8, <1>9, RequestIs
<1> QED
    BY <1>2, <1>3, <1>4, <1>5, <1>6, <1>7, <1>9 DEF ClientNext

-----------------------------------------------------------------------------
(* Listings.                                                                *)

\* What the files of a job are made of.
Wanted(j) == IF j.tool = "membership"
             THEN {Vms, Vifs, Names, Groups} \cup {Members(g) : g \in j.got[Groups]}
             ELSE IF j.effective THEN {Ips(g) : g \in Ids}
             ELSE {Vms, Vifs} \cup {Members(g) : g \in Ids}
Whole(set, c, a, e) == a[c] \subseteq set /\ set \subseteq e[c]
\* Collection c is still to be read, has been read whole, or is of a failed group.
Accounted(j, c, a, e) == Within(j.plan, c) \/ Whole(j.got[c], c, a, e) \/ (OfGroup(c) /\ c[2] \in j.failed)
\* So far as the cursor the page is whole.
PageSound(j, a, e) ==
    j.plan # <<>> => LET c == Head(j.plan).of
                     IN  j.page \subseteq e[c] /\ \A i \in a[c] : i <= j.cursor => i \in j.page
ReadsWhole(j, a, e) ==
    j.tool \in Listing /\ ~j.died => PageSound(j, a, e) /\ \A c \in Wanted(j) : Accounted(j, c, a, e)
MainReads == ReadsWhole(jobs[Main], always, ever)

LEMMA WantedIs ==
    ASSUME NEW j, JobOK(j)
    PROVE  Wanted(j) \subseteq Collections
<1>1. j.got[Groups] \in SUBSET Ids
    BY CallFacts DEF JobOK, Jobs
<1> QED
    BY <1>1, CallFacts DEF Wanted

\* While others edit, what was whole stays whole.
LEMMA ReadsWholeLater ==
    ASSUME NEW j, JobOK(j), NEW a, NEW e, NEW a2, NEW e2, ReadsWhole(j, a, e),
           \A c \in Collections : a2[c] \subseteq a[c] /\ e[c] \subseteq e2[c]
    PROVE  ReadsWhole(j, a2, e2)
<1> SUFFICES ASSUME j.tool \in Listing, ~j.died
             PROVE  PageSound(j, a2, e2) /\ \A c \in Wanted(j) : Accounted(j, c, a2, e2)
    BY DEF ReadsWhole
<1>1. PageSound(j, a, e) /\ \A c \in Wanted(j) : Accounted(j, c, a, e)
    BY DEF ReadsWhole
<1>2. \A c \in Wanted(j) : Accounted(j, c, a2, e2)
    BY <1>1, WantedIs DEF Accounted, Whole
<1>3. PageSound(j, a2, e2)
    <2> SUFFICES ASSUME j.plan # <<>>
                 PROVE  j.page \subseteq e2[Head(j.plan).of] /\ \A i \in a2[Head(j.plan).of] : i <= j.cursor => i \in j.page
        BY DEF PageSound
    <2>1. Head(j.plan).of \in Collections
        BY PlanFacts
    <2> QED
        BY <1>1, <2>1 DEF PageSound
<1> QED
    BY <1>2, <1>3

\* A new call begins with an empty page.
LEMMA PageBegins ==
    ASSUME NEW n, JobOK(n), n.page = {}, n.cursor = 0, n.tool \in Listing,
           NEW a \in [Collections -> SUBSET Ids], NEW e
    PROVE  PageSound(n, a, e)
<1> SUFFICES ASSUME n.plan # <<>> PROVE \A i \in a[Head(n.plan).of] : ~(i <= n.cursor)
    BY DEF PageSound
<1>1. a[Head(n.plan).of] \in SUBSET Ids
    BY PlanFacts
<1> QED
    BY <1>1, ClientAssumption

LEMMA JoinCalls ==
    ASSUME NEW p \in Seq(ListCalls), NEW q \in Seq(ListCalls)
    PROVE  \A c : Within(p \o q, c) <=> Within(p, c) \/ Within(q, c)
BY JoinIs

LEMMA HamperedReadsWhole ==
    ASSUME NEW j, JobOK(j), j.plan # <<>>, NEW n, Hampered(j, n),
           NEW a \in [Collections -> SUBSET Ids], NEW e, ReadsWhole(j, a, e)
    PROVE  ReadsWhole(n, a, e)
<1> SUFFICES ASSUME n.tool \in Listing, ~n.died
             PROVE  PageSound(n, a, e) /\ \A c \in Wanted(n) : Accounted(n, c, a, e)
    BY DEF ReadsWhole
<1>1. JobOK(n) /\ n.tool = j.tool /\ n.effective = j.effective /\ n.got = j.got /\ n.died \in {j.died, TRUE}
    BY DEF Hampered, Repeats, Begins, Reindexes, Fails, SkipsGroup, SkipsObject, Dies, NextJob
<1>2. j.tool \in Listing /\ n.died = j.died /\ ~j.died
    BY <1>1 DEF JobOK, Jobs
<1>3. PageSound(j, a, e) /\ \A c \in Wanted(j) : Accounted(j, c, a, e)
    BY <1>2 DEF ReadsWhole
<1>4. Wanted(n) = Wanted(j) /\ Wanted(j) \subseteq Collections
    BY <1>1, WantedIs DEF Wanted
<1>5. CASE Repeats(j, n)
    <2>1. n.plan = j.plan /\ n.cursor = j.cursor /\ n.page = j.page /\ n.failed = j.failed
        BY <1>5 DEF Repeats, NextJob
    <2> QED
        BY <1>1, <1>3, <1>4, <2>1 DEF PageSound, Accounted
<1>6. CASE Begins(j, n)
    <2>1. n.plan = j.plan /\ n.cursor = 0 /\ n.page = {} /\ n.failed = j.failed
        BY <1>6 DEF Begins, NextJob
    <2>2. PageSound(n, a, e)
        BY <1>1, <2>1, PageBegins
    <2> QED
        BY <1>1, <1>3, <1>4, <2>1, <2>2 DEF Accounted
<1>7. CASE Reindexes(j, n)
    <2>1. n.plan = <<List(Vms)>> \o j.plan /\ n.cursor = 0 /\ n.page = {} /\ n.failed = j.failed
        BY <1>7 DEF Reindexes, NextJob
    <2>2. PageSound(n, a, e)
        BY <1>1, <2>1, PageBegins
    <2>3. j.plan \in Seq(ListCalls) /\ <<List(Vms)>> \in Seq(ListCalls)
        <3>1. List(Vms) \in ListCalls
            BY CallFacts
        <3>2. j.plan \in Seq(ListCalls)
            BY <1>2, PlanFacts DEF CallsOf
        <3> QED
            BY <3>1, <3>2
    <2>4. \A c : Within(j.plan, c) => Within(n.plan, c)
        <3>1. \A c : Within(<<List(Vms)>> \o j.plan, c) <=> Within(<<List(Vms)>>, c) \/ Within(j.plan, c)
            BY <2>3, JoinCalls
        <3> QED
            BY <2>1, <3>1
    <2> QED
        BY <1>1, <1>3, <1>4, <2>1, <2>2, <2>4 DEF Accounted
<1>8. CASE Fails(j, n)
    <2> DEFINE c == Head(j.plan).of
               rest == Tail(j.plan)
    <2>1. SkipsGroup(j, n)
        BY <1>1, <1>2, <1>8 DEF Fails, SkipsObject, Dies, NextJob, Listing
    <2>2. OfGroup(c) /\ n.cursor = 0 /\ n.page = {} /\ n.failed = j.failed \cup {c[2]}
        BY <2>1 DEF SkipsGroup, NextJob
    <2>3. n.plan = rest \/ (rest # <<>> /\ Head(rest).of[2] = c[2] /\ n.plan = Tail(rest))
        BY <2>1 DEF SkipsGroup, NextJob
    <2>4. PageSound(n, a, e)
        BY <1>1, <2>2, PageBegins
    <2>5. j.plan \in Seq(ListCalls) /\ rest \in Seq(ListCalls)
        BY <1>2, PlanFacts DEF CallsOf
    <2>6. c \in Collections /\ c[2] \in Ids
        BY <1>2, <2>2, PlanFacts, CallFacts DEF OfGroup
    <2>7. \A d : Within(j.plan, d) => d = c \/ Within(rest, d)
        BY <2>5, TailIs
    <2>8. ASSUME NEW d, Within(rest, d) PROVE Within(n.plan, d) \/ (OfGroup(d) /\ d[2] = c[2])
        <3>1. CASE n.plan = rest
            BY <2>8, <3>1
        <3>2. CASE rest # <<>> /\ Head(rest).of[2] = c[2] /\ n.plan = Tail(rest)
            <4>1. d = Head(rest).of \/ Within(Tail(rest), d)
                BY <2>5, <2>8, <3>2, TailIs
            <4>2. Head(rest) \in ListCalls
                BY <2>5, <3>2, TailIs
            <4>3. Head(rest).of \in Collections
                BY <4>2, CallFacts
            <4>4. OfGroup(Head(rest).of)
                BY <2>6, <3>2, <4>3, CallFacts, ClientAssumption DEF OfGroup
            <4> QED
                BY <3>2, <4>1, <4>4
        <3> QED
            BY <2>3, <3>1, <3>2
    <2>9. ASSUME NEW d \in Wanted(j) PROVE Accounted(n, d, a, e)
        <3>1. Accounted(j, d, a, e)
            BY <1>3
        <3>2. CASE Within(j.plan, d)
            BY <2>2, <2>7, <2>8, <3>2 DEF Accounted
        <3>3. CASE ~Within(j.plan, d)
            BY <1>1, <2>2, <3>1, <3>3 DEF Accounted
        <3> QED
            BY <3>2, <3>3
    <2> QED
        BY <1>4, <2>4, <2>9
<1> QED
    BY <1>5, <1>6, <1>7, <1>8 DEF Hampered

LEMMA ListedReadsWhole ==
    ASSUME NEW j, JobOK(j), j.plan # <<>>, j.tool \in Listing, ~j.died, NEW n, NEW page \in SUBSET Ids,
           HasListed(j, n, page),
           NEW a \in [Collections -> SUBSET Ids], NEW e, ReadsWhole(j, a, e),
           Whole(page, Head(j.plan).of, a, e)
    PROVE  ReadsWhole(n, a, e)
<1> DEFINE c == Head(j.plan).of
           further == FurtherOf(j, page)
<1>1. /\ JobOK(n) /\ n.tool = j.tool /\ n.effective = j.effective /\ n.plan = Tail(j.plan) \o further
      /\ n.got = [j.got EXCEPT ![c] = page] /\ n.failed = j.failed /\ n.cursor = 0 /\ n.page = {}
    BY DEF HasListed, NextJob
<1>2. PageSound(n, a, e)
    BY <1>1, PageBegins
<1>3. c \in Collections /\ j.plan \in Seq(ListCalls) /\ Tail(j.plan) \in Seq(ListCalls)
    BY PlanFacts DEF CallsOf
<1>4. further \in Seq(ListCalls)
    <2>1. <<>> \in Seq(ListCalls)
        OBVIOUS
    <2> QED
        BY <2>1, MembersIs DEF FurtherOf
<1>5. \A d : Within(j.plan, d) => d = c \/ Within(n.plan, d)
    <2>1. \A d : Within(j.plan, d) => d = c \/ Within(Tail(j.plan), d)
        BY <1>3, TailIs
    <2>2. \A d : Within(Tail(j.plan), d) => Within(n.plan, d)
        <3> HIDE DEF further
        <3>1. \A d : Within(Tail(j.plan) \o further, d) <=> Within(Tail(j.plan), d) \/ Within(further, d)
            BY <1>3, <1>4, JoinCalls
        <3> QED
            BY <1>1, <3>1
    <2> QED
        BY <2>1, <2>2
<1>6. n.got[c] = page /\ \A d \in Collections \ {c} : n.got[d] = j.got[d]
    <2>1. j.got \in [Collections -> SUBSET Ids]
        BY DEF JobOK, Jobs
    <2> HIDE DEF c
    <2> QED
        BY <1>1, <1>3, <2>1
<1>7. \A d \in Wanted(j) : Accounted(j, d, a, e)
    BY DEF ReadsWhole
<1>8. ASSUME NEW d \in Wanted(j) PROVE Accounted(n, d, a, e)
    <2>1. d \in Collections /\ Accounted(j, d, a, e)
        BY <1>7, WantedIs
    <2>2. CASE d = c
        BY <1>6, <2>2 DEF Accounted
    <2>3. CASE d # c
        BY <1>1, <1>5, <1>6, <2>1, <2>3 DEF Accounted
    <2> QED
        BY <2>2, <2>3
<1>9. ASSUME NEW d \in Wanted(n) PROVE d \in Wanted(j) \/ Within(n.plan, d)
    <2>1. CASE j.tool = "membership" /\ c = Groups
        <3>1. further = MembersOf(page)
            BY <2>1 DEF FurtherOf
        <3>2. \A g \in page : Within(further, Members(g))
            BY <3>1, MembersIs
        <3>3. \A g \in page : Within(n.plan, Members(g))
            <4> HIDE DEF further
            <4>1. \A h : Within(Tail(j.plan) \o further, h) <=> Within(Tail(j.plan), h) \/ Within(further, h)
                BY <1>3, <1>4, JoinCalls
            <4> QED
                BY <1>1, <3>2, <4>1
        <3>4. d \in {Vms, Vifs, Names, Groups} \/ \E g \in page : d = Members(g)
            BY <1>1, <1>6, <1>9, <2>1 DEF Wanted
        <3> QED
            BY <2>1, <3>3, <3>4 DEF Wanted
    <2>2. CASE ~(j.tool = "membership" /\ c = Groups)
        <3>1. j.tool = "membership" => n.got[Groups] = j.got[Groups]
            BY <1>6, <2>2, CallFacts
        <3> QED
            BY <1>1, <1>9, <3>1 DEF Wanted
    <2> QED
        BY <2>1, <2>2
<1>10. \A d \in Wanted(n) : Accounted(n, d, a, e)
    BY <1>8, <1>9 DEF Accounted
<1> QED
    BY <1>2, <1>10 DEF ReadsWhole

\* A page, while the collection holds what it held all the time and nothing it never held.
LEMMA PageReadsWhole ==
    ASSUME ClientInv, NEW j, JobOK(j), j.plan # <<>>, j.tool \in Listing, NEW n, Listed(j, n),
           ReadsWhole(j, always, ever)
    PROVE  ReadsWhole(n, always, ever)
<1> DEFINE c == Head(j.plan).of
           rest == Beyond(j)
<1>1. c \in Collections /\ j.page \in SUBSET Ids /\ j.cursor \in Nat /\ Ids \subseteq Nat
    BY PlanFacts, ClientAssumption DEF JobOK, Jobs
<1>2. always[c] \subseteq Held(c) /\ Held(c) \subseteq ever[c] /\ Held(c) \in SUBSET Ids
    BY <1>1, HeldIs DEF ClientInv, ClientTypes, HeldBetween, Held
<1>3. always \in [Collections -> SUBSET Ids] /\ ever \in [Collections -> SUBSET Ids]
    BY DEF ClientInv, ClientTypes
<1>4. CASE j.died
    <2>1. n.died
        BY <1>4 DEF Listed, HasListed, TurnsPage, NextJob
    <2> QED
        BY <2>1 DEF ReadsWhole
<1>5. CASE ~j.died
    <2>1. j.page \subseteq ever[c] /\ \A i \in always[c] : i <= j.cursor => i \in j.page
        BY <1>5 DEF ReadsWhole, PageSound
    <2>2. rest = {i \in Held(c) : i > j.cursor}
        BY DEF Beyond
    <2> HIDE DEF rest, c
    <2>3. \A i \in always[c] : i \in j.page \/ i \in rest
        <3> TAKE i \in always[c]
        <3>1. i \in Held(c) /\ i \in Nat
            BY <1>1, <1>2
        <3>2. i <= j.cursor \/ i > j.cursor
            BY <1>1, <3>1
        <3> QED
            BY <2>1, <2>2, <3>1, <3>2
    <2>4. CASE rest = {} /\ HasListed(j, n, j.page)
        <3>1. Whole(j.page, c, always, ever)
            BY <2>1, <2>3, <2>4 DEF Whole
        <3> QED
            BY <1>1, <1>3, <1>5, <2>4, <3>1, ListedReadsWhole DEF c
    <2>5. ASSUME NEW i \in rest, \A h \in rest : i <= h, rest = {i}, HasListed(j, n, j.page \cup {i})
          PROVE  ReadsWhole(n, always, ever)
        <3>1. Whole(j.page \cup {i}, c, always, ever) /\ j.page \cup {i} \in SUBSET Ids
            BY <1>1, <1>2, <2>1, <2>2, <2>3, <2>5 DEF Whole
        <3> QED
            BY <1>3, <1>5, <2>5, <3>1, ListedReadsWhole DEF c
    <2>6. ASSUME NEW i \in rest, \A h \in rest : i <= h, TurnsPage(j, n, i)
          PROVE  ReadsWhole(n, always, ever)
        <3>1. /\ n.plan = j.plan /\ n.cursor = i /\ n.page = j.page \cup {i} /\ n.got = j.got /\ n.failed = j.failed
              /\ n.tool = j.tool /\ n.effective = j.effective
            BY <2>6 DEF TurnsPage, NextJob
        <3>2. i \in Held(c) /\ i \in Nat
            BY <1>1, <1>2, <2>2
        <3>3. \A h \in always[c] : h <= i => h \in n.page
            <4> TAKE h \in always[c]
            <4> HAVE h <= i
            <4>1. CASE h \in j.page
                BY <3>1, <4>1
            <4>2. CASE h \in rest
                <5>1. i <= h /\ h \in Nat
                    BY <1>1, <1>2, <2>6, <4>2
                <5>2. h = i
                    BY <3>2, <5>1
                <5> QED
                    BY <3>1, <5>2
            <4> QED
                BY <2>3, <4>1, <4>2
        <3>4. n.page \subseteq ever[c]
            BY <1>2, <2>1, <3>1, <3>2
        <3>5. PageSound(n, always, ever)
            BY <3>1, <3>3, <3>4 DEF PageSound, c
        <3>6. \A d \in Wanted(n) : Accounted(n, d, always, ever)
            <4>1. \A d \in Wanted(j) : Accounted(j, d, always, ever)
                BY <1>5 DEF ReadsWhole
            <4>2. Wanted(n) = Wanted(j)
                BY <3>1 DEF Wanted
            <4> QED
                BY <3>1, <4>1, <4>2 DEF Accounted
        <3> QED
            BY <3>5, <3>6 DEF ReadsWhole
    <2> QED
        BY <2>4, <2>5, <2>6 DEF Listed, rest
<1> QED
    BY <1>4, <1>5

LEMMA MainReadsInit == ClientInit => MainReads
<1> SUFFICES ASSUME ClientInit, jobs[Main].tool \in Listing PROVE ReadsWhole(jobs[Main], always, ever)
    BY DEF MainReads, ReadsWhole
<1>1. ClientInv
    BY ClientInvInit
<1>2. PICK p \in Seq(CallsOf(jobs[Main].tool)) :
          /\ jobs[Main] = Job(jobs[Main].tool, p)
          /\ jobs[Main].tool = "additive" => p \in Additive
          /\ jobs[Main].tool = "membership" => p = Membership
    <2>1. CASE jobs[Main].tool = "additive"
        <3>1. PICK p \in Additive : jobs[Main] = Job("additive", p)
            BY <2>1, InitJobs
        <3>2. p \in Seq(CallsOf("additive"))
            BY AdditiveIs DEF CallsOf, Listing
        <3> QED
            BY <2>1, <3>1, <3>2
    <2>2. CASE jobs[Main].tool = "membership"
        <3>1. jobs[Main] = Job("membership", Membership)
            BY <2>2, InitJobs
        <3>2. Membership \in Seq(CallsOf("membership"))
            BY MembershipIs DEF CallsOf, Listing
        <3> QED
            BY <2>2, <3>1, <3>2
    <2> QED
        BY <2>1, <2>2 DEF Listing
<1>3. jobs[Main].tool \in Tools /\ JobOK(jobs[Main])
    BY InitJobs, ClientAssumption
<1> DEFINE j == jobs[Main]
<1>4. /\ j.plan = p /\ j.page = {} /\ j.cursor = 0
      /\ j.effective = (\E i \in DOMAIN p : p[i].op = "effective")
    <2> DEFINE h == Job(j.tool, p)
    <2>1. h.plan = p /\ h.page = {} /\ h.cursor = 0
        BY DEF Job
    <2>2. h.effective = (\E i \in DOMAIN p : p[i].op = "effective")
        BY DEF Job
    <2>3. j = h
        BY <1>2
    <2> HIDE DEF h
    <2> QED
        BY <2>1, <2>2, <2>3
<1>5. j.got = [c \in Collections |-> {}]
    <2>1. Job(j.tool, p).got = [c \in Collections |-> {}]
        BY DEF Job
    <2> QED
        BY <1>2, <2>1
<1>6. PageSound(j, always, ever)
    BY <1>1, <1>3, <1>4, PageBegins DEF ClientInv, ClientTypes
<1>7. \A c \in Wanted(j) : Within(p, c)
    <2>1. CASE j.tool = "additive"
        <3>1. IF j.effective THEN \A g \in Ids : Within(p, Ips(g))
              ELSE Within(p, Vms) /\ Within(p, Vifs) /\ \A g \in Ids : Within(p, Members(g))
            BY <1>2, <1>4, <2>1, AdditiveIs
        <3> QED
            BY <2>1, <3>1 DEF Wanted
    <2>2. CASE j.tool = "membership"
        <3>1. j.got[Groups] = {}
            BY <1>5, CallFacts
        <3> QED
            BY <1>2, <2>2, <3>1, MembershipIs DEF Wanted
    <2> QED
        BY <2>1, <2>2 DEF Listing
<1> QED
    BY <1>4, <1>6, <1>7 DEF ReadsWhole, Accounted

LEMMA RequestRemembers ==
    ASSUME ClientInv, ClientInv', NEW t \in Threads, NEW n, Requested(t, n)
    PROVE  \A c \in Collections : always'[c] \subseteq always[c] /\ ever[c] \subseteq ever'[c]
<1>1. revision' \in [Ids -> Nat] /\ held \in [Stored -> SUBSET Ids] /\ Remembers(held, revision')
    BY DEF ClientInv, ClientTypes, Requested
<1>2. \A r \in [Ids -> Nat] : r = revision' => Remembers(held, r)
    BY <1>1
<1>3. \A r \in [Ids -> Nat] : r = revision' =>
          \A c \in Collections : always'[c] \subseteq always[c] /\ ever[c] \subseteq ever'[c]
    BY <1>1, <1>2, RememberIs
<1> QED
    BY <1>1, <1>3

\* The thread of a move does the same, another one is as it was.
LEMMA MovedIs ==
    ASSUME ClientInv, NEW t \in Threads, NEW pc \in {"ready", "pacing", "sending"}, Moves(t, pc), NEW u \in Threads
    PROVE  /\ jobs'[u].tool = jobs[u].tool /\ jobs'[u].plan = jobs[u].plan /\ jobs'[u].effective = jobs[u].effective
           /\ jobs'[u].cursor = jobs[u].cursor /\ jobs'[u].page = jobs[u].page /\ jobs'[u].got = jobs[u].got
           /\ jobs'[u].read = jobs[u].read /\ jobs'[u].failed = jobs[u].failed /\ jobs'[u].died = jobs[u].died
BY DEF Moves, ClientInv, ClientTypes, Jobs

LEMMA MainReadsNext == ClientInv /\ ClientInv' /\ MainReads /\ [ClientNext]_clientVars => MainReads'
<1> SUFFICES ASSUME ClientInv, ClientInv', MainReads, [ClientNext]_clientVars PROVE MainReads'
    OBVIOUS
<1>a. Main \in Threads /\ jobs \in [Threads -> Jobs] /\ JobOK(jobs[Main]) /\ JobOK(jobs'[Main])
    BY ClientAssumption DEF ClientInv, ClientTypes, JobsSound
<1>b. ReadsWhole(jobs[Main], always, ever) /\ always \in [Collections -> SUBSET Ids]
    BY DEF MainReads, ClientInv, ClientTypes
<1> SUFFICES ReadsWhole(jobs'[Main], always', ever')
    BY DEF MainReads, ReadsWhole, PageSound, Accounted, Whole, Wanted, Within
<1>1. CASE OthersAct
    <2>1. jobs'[Main] = jobs[Main] /\ \A c \in Collections : always'[c] \subseteq always[c] /\ ever[c] \subseteq ever'[c]
        BY <1>1 DEF OthersAct
    <2> QED
        BY <1>a, <1>b, <2>1, ReadsWholeLater
<1>2. ASSUME NEW t \in Threads, NEW pc \in {"ready", "pacing", "sending"}, Moves(t, pc)
      PROVE  ReadsWhole(jobs'[Main], always', ever')
    <2>1. always' = always /\ ever' = ever
        BY <1>2 DEF Moves, managerVars
    <2> DEFINE m == jobs[Main]
               n == jobs'[Main]
    <2>2. /\ n.tool = m.tool /\ n.plan = m.plan /\ n.effective = m.effective
          /\ n.cursor = m.cursor /\ n.page = m.page /\ n.got = m.got
          /\ n.failed = m.failed /\ n.died = m.died
        BY <1>a, <1>2, MovedIs
    <2>3. ReadsWhole(m, always, ever)
        BY <1>b
    <2> HIDE DEF m, n
    <2>4. ReadsWhole(n, always, ever)
        BY <2>2, <2>3 DEF ReadsWhole, PageSound, Accounted, Wanted
    <2> QED
        BY <2>1, <2>4 DEF n
<1>3. ASSUME NEW t \in Threads, NEW n, Requested(t, n) PROVE ReadsWhole(jobs'[Main], always', ever')
    <2>1. \A c \in Collections : always'[c] \subseteq always[c] /\ ever[c] \subseteq ever'[c]
        BY <1>3, RequestRemembers
    <2>2. jobs' = [jobs EXCEPT ![t] = n]
        BY <1>3 DEF Requested
    <2>3. CASE t # Main
        <3>1. jobs'[Main] = jobs[Main]
            BY <1>a, <2>2, <2>3
        <3> QED
            BY <1>a, <1>b, <2>1, <3>1, ReadsWholeLater
    <2>4. CASE t = Main
        <3> DEFINE j == jobs[Main]
                   c == Head(j.plan)
        <3>1. jobs'[Main] = n /\ Outcome(j, c, n) /\ j.plan # <<>>
            BY <1>a, <1>3, <2>2, <2>4 DEF Requested
        <3>2. n.tool = j.tool
            BY <3>1, OutcomeIs DEF Succeeds
        <3>3. CASE j.tool \notin Listing
            BY <3>1, <3>2, <3>3 DEF ReadsWhole
        <3>4. CASE j.tool \in Listing
            <4>1. c.op \in {"list", "effective"}
                BY <1>a, <3>1, <3>4, PlanFacts, CallFacts
            <4>2. ~Writes(c) /\ c.op # "get"
                BY <4>1 DEF Writes
            <4>3. Hampered(j, n) \/ Listed(j, n)
                BY <3>1, <3>4, <4>2 DEF Outcome, Effect
            <4>4. ReadsWhole(n, always, ever)
                BY <1>a, <1>b, <3>1, <3>4, <4>3, HamperedReadsWhole, PageReadsWhole
            <4> QED
                BY <1>a, <2>1, <3>1, <4>4, ReadsWholeLater
        <3> QED
            BY <3>3, <3>4
    <2> QED
        BY <2>3, <2>4
<1> QED
    BY <1>1, <1>2, <1>3, ClientStepIs

\* What the files are made of has been read whole when the job is done.
LEMMA MainFiles ==
    ASSUME ClientInv, MainReads, jobs[Main].pc = "done", ~jobs[Main].died
    PROVE  /\ jobs[Main].tool = "membership" => FilesAreWhole(jobs[Main])
           /\ jobs[Main].tool = "additive" =>
                  \A g \in Ids \ jobs[Main].failed :
                      /\ AddressesIn(jobs[Main], g, always) \subseteq Added(jobs[Main], g)
                      /\ Added(jobs[Main], g) \subseteq AddressesIn(jobs[Main], g, ever)
<1> DEFINE j == jobs[Main]
<1>1. JobOK(j) /\ j.plan = <<>>
    BY ClientAssumption DEF ClientInv, JobsSound, JobOK
<1>2. \A c : ~Within(j.plan, c)
    <2>1. DOMAIN <<>> = {}
        OBVIOUS
    <2> QED
        BY <1>1, <2>1 DEF Within
<1>3. ASSUME j.tool \in Listing
      PROVE  \A c \in Wanted(j) : Whole(j.got[c], c, always, ever) \/ (OfGroup(c) /\ c[2] \in j.failed)
    BY <1>2, <1>3 DEF MainReads, ReadsWhole, Accounted
<1>4. j.tool = "membership" => FilesAreWhole(j)
    <2> SUFFICES ASSUME j.tool = "membership" PROVE FilesAreWhole(j)
        OBVIOUS
    <2>1. \A c \in Wanted(j) : Whole(j.got[c], c, always, ever) \/ (OfGroup(c) /\ c[2] \in j.failed)
        BY <1>3 DEF Listing
    <2>2. \A c \in {Vms, Vifs, Names, Groups} : Whole(j.got[c], c, always, ever)
        <3>1. \A c \in {Vms, Vifs, Names, Groups} : ~OfGroup(c) /\ c \in Wanted(j)
            BY CallFacts DEF OfGroup, Wanted
        <3> QED
            BY <2>1, <3>1
    <2>3. \A g \in j.got[Groups] \ j.failed : Whole(j.got[Members(g)], Members(g), always, ever)
        <3>1. \A g \in j.got[Groups] : Members(g) \in Wanted(j) /\ Members(g)[2] = g
            BY CallFacts DEF Wanted
        <3> QED
            BY <2>1, <3>1
    <2> DEFINE file == GroupFile(j)
               vms == VmFile(j)
    <2>4. /\ DOMAIN file = j.got[Groups] \ j.failed
          /\ \A g \in DOMAIN file : /\ DOMAIN file[g] = j.got[Members(g)]
                                    /\ \A v \in j.got[Members(g)] : file[g][v] = {c \in Inventories : v \in j.got[c]}
        BY DEF GroupFile
    <2>5. /\ DOMAIN vms = j.got[Names]
          /\ \A v \in DOMAIN vms : vms[v] = {g \in j.got[Groups] \ j.failed : v \in j.got[Members(g)]}
        BY DEF VmFile
    <2> HIDE DEF file, vms, j
    <2>6. always[Groups] \ j.failed \subseteq DOMAIN file /\ DOMAIN file \subseteq ever[Groups]
        BY <2>2, <2>4 DEF Whole
    <2>7. always[Names] \subseteq DOMAIN vms /\ DOMAIN vms \subseteq ever[Names]
        BY <2>2, <2>5 DEF Whole
    <2>8. ASSUME NEW g \in DOMAIN file
          PROVE  /\ always[Members(g)] \subseteq DOMAIN file[g] /\ DOMAIN file[g] \subseteq ever[Members(g)]
                 /\ \A v \in DOMAIN file[g] : /\ {c \in Inventories : v \in always[c]} \subseteq file[g][v]
                                             /\ file[g][v] \subseteq {c \in Inventories : v \in ever[c]}
                 /\ \A v \in DOMAIN vms : g \in vms[v] <=> v \in DOMAIN file[g]
        <3>1. DOMAIN file[g] = j.got[Members(g)] /\ Whole(j.got[Members(g)], Members(g), always, ever)
            BY <2>3, <2>4
        <3>2. ASSUME NEW v \in DOMAIN file[g]
              PROVE  /\ {c \in Inventories : v \in always[c]} \subseteq file[g][v]
                     /\ file[g][v] \subseteq {c \in Inventories : v \in ever[c]}
            <4>1. file[g][v] = {c \in Inventories : v \in j.got[c]}
                BY <2>4, <3>1
            <4>2. \A c \in Inventories : always[c] \subseteq j.got[c] /\ j.got[c] \subseteq ever[c]
                BY <2>2 DEF Inventories, Whole
            <4> QED
                BY <4>1, <4>2
        <3>3. \A v \in DOMAIN vms : g \in vms[v] <=> v \in DOMAIN file[g]
            BY <2>4, <2>5, <3>1
        <3> QED
            BY <3>1, <3>2, <3>3 DEF Whole
    <2>9. FilesAreWhole(j)
        BY <2>6, <2>7, <2>8 DEF FilesAreWhole, file, vms
    <2> QED
        BY <2>9 DEF j
<1>5. j.tool = "additive" => \A g \in Ids \ j.failed : /\ AddressesIn(j, g, always) \subseteq Added(j, g)
                                                     /\ Added(j, g) \subseteq AddressesIn(j, g, ever)
    <2> SUFFICES ASSUME j.tool = "additive", NEW g \in Ids \ j.failed
                 PROVE  AddressesIn(j, g, always) \subseteq Added(j, g) /\ Added(j, g) \subseteq AddressesIn(j, g, ever)
        OBVIOUS
    <2>1. \A c \in Wanted(j) : Whole(j.got[c], c, always, ever) \/ (OfGroup(c) /\ c[2] \in j.failed)
        BY <1>3 DEF Listing
    <2>2. CASE j.effective
        <3>1. Ips(g) \in Wanted(j) /\ Ips(g)[2] = g
            BY <2>2, CallFacts DEF Wanted
        <3>2. Whole(j.got[Ips(g)], Ips(g), always, ever)
            BY <2>1, <3>1
        <3> QED
            BY <2>2, <3>2 DEF Added, AddressesIn, Whole
    <2>3. CASE ~j.effective
        <3>1. /\ {Vms, Vifs, Members(g)} \subseteq Wanted(j) /\ Members(g)[2] = g
              /\ \A c \in {Vms, Vifs} : ~OfGroup(c)
            BY <2>3, CallFacts DEF Wanted, OfGroup
        <3>2. \A c \in {Vms, Vifs, Members(g)} : always[c] \subseteq j.got[c] /\ j.got[c] \subseteq ever[c]
            BY <2>1, <3>1 DEF Whole
        <3>3. \A f, h : (\A c \in {Vms, Vifs, Members(g)} : f[c] \subseteq h[c]) => VmAddresses(g, f) \subseteq VmAddresses(g, h)
            BY DEF VmAddresses, Inventories
        <3>4. VmAddresses(g, always) \subseteq VmAddresses(g, j.got) /\ VmAddresses(g, j.got) \subseteq VmAddresses(g, ever)
            BY <3>2, <3>3
        <3> QED
            BY <2>3, <3>4 DEF Added, AddressesIn
    <2> QED
        BY <2>2, <2>3
<1> QED
    BY <1>4, <1>5

-----------------------------------------------------------------------------
(* Writes.                                                                  *)

\* The wipe: an object is in the plan of a thread, put down as failed, or deleted.
Pending(k) == \E t \in Threads : Within(jobs[t].plan, k)
PutDown(k) == \E t \in Threads : k \in jobs[t].failed
DeleteTold(k) ==
    /\ Pending(k) => ~PutDown(k)
    /\ Pending(k) \/ PutDown(k) \/ effects[k] > 0
    /\ effects[k] > 0 /\ (Pending(k) \/ PutDown(k)) => k \in unsure
    /\ effects[k] > 0 /\ k \notin touched => revision[k] = 0
    /\ effects[k] > 1 => k \in touched
WipeTells ==
    jobs[Main].tool = "wipe" =>
        /\ \A t \in Threads : Distinct(jobs[t].plan)
        /\ \A t, u \in Threads, k \in Ids : Within(jobs[t].plan, k) /\ Within(jobs[u].plan, k) => t = u
        /\ \A k \in Ids : DeleteTold(k)

\* The amendment: before the read nothing has happened, after it the revision is
\* the one that was read, or the put is refused.
AmendTells ==
    jobs[Main].tool = "amend" =>
        LET j == jobs[Main]
        IN  /\ \A t \in Threads \ {Main} : jobs[t].plan = <<>>
            /\ AmendPlan(j.plan)
            /\ j.died => j.plan = <<>>
            /\ \A k \in Ids : j.plan = Amends(k) => j.read = 0 /\ \A h \in Ids : effects[h] = 0
            /\ \A k \in Ids : j.plan = <<Call("put", k)>> => j.read > 0
            /\ \A k \in Ids : j.plan = <<Call("patch", k)>> => j.read = 0
            /\ \A k \in Ids : effects[k] > 0 /\ (j.plan # <<>> \/ j.died) => k \in unsure
            /\ \A k \in Ids : j.read > 0 /\ effects[k] > 0 /\ k \notin touched => revision[k] > j.read
            /\ \A k \in Ids : effects[k] > 1 => k \in touched \/ j.read = 0

LEMMA TellsInit == ClientInit => WipeTells /\ AmendTells
<1> SUFFICES ASSUME ClientInit PROVE WipeTells /\ AmendTells
    OBVIOUS
<1>1. effects = [g \in Ids |-> 0]
    BY DEF ClientInit
<1>2. ASSUME jobs[Main].tool = "wipe" PROVE WipeTells
    <2>1. PICK share \in [Threads -> SUBSET Ids] :
              /\ UNION {share[t] : t \in Threads} = Ids
              /\ \A t, u \in Threads : t # u => share[t] \cap share[u] = {}
              /\ \A t \in Threads : /\ \A k : Within(jobs[t].plan, k) <=> k \in share[t]
                                    /\ Distinct(jobs[t].plan) /\ jobs[t].failed = {}
        BY <1>2, InitJobs
    <2>2. \A k \in Ids : Pending(k) /\ ~PutDown(k) /\ effects[k] = 0
        BY <1>1, <2>1 DEF Pending, PutDown
    <2>3. \A t, u \in Threads, k \in Ids : Within(jobs[t].plan, k) /\ Within(jobs[u].plan, k) => t = u
        BY <2>1
    <2> QED
        BY <2>1, <2>2, <2>3 DEF WipeTells, DeleteTold
<1>3. ASSUME jobs[Main].tool = "amend" PROVE AmendTells
    <2>1. /\ \A t \in Threads \ {Main} : jobs[t].plan = <<>>
          /\ AmendPlan(jobs[Main].plan) /\ jobs[Main].read = 0
          /\ \A k \in Ids : jobs[Main].plan # <<Call("put", k)>>
        BY <1>3, InitJobs
    <2>2. ~jobs[Main].died
        <3>1. PICK p \in Seq(CallsOf(jobs[Main].tool)) : jobs[Main] = Job(jobs[Main].tool, p)
            BY ClientAssumption, InitJobs
        <3>2. Job(jobs[Main].tool, p).died = FALSE
            BY DEF Job
        <3> QED
            BY <3>1, <3>2
    <2>3. \A k \in Ids : effects[k] = 0
        BY <1>1
    <2> QED
        BY <2>1, <2>2, <2>3 DEF AmendTells
<1> QED
    BY <1>2, <1>3 DEF WipeTells, AmendTells

\* A tail of a plan that is distinct has lost the first call, and only it.
LEMMA DistinctTail ==
    ASSUME NEW S, NEW p \in Seq(S), p # <<>>, Distinct(p)
    PROVE  /\ Distinct(Tail(p))
           /\ \A k : Within(Tail(p), k) <=> Within(p, k) /\ k # Head(p).of
<1>1. /\ DOMAIN p = 1 .. Len(p) /\ Len(p) \in Nat \ {0} /\ Head(p) = p[1]
      /\ DOMAIN Tail(p) = 1 .. Len(p) - 1
      /\ \A i \in DOMAIN Tail(p) : i + 1 \in DOMAIN p /\ Tail(p)[i] = p[i + 1]
      /\ \A c : Within(p, c) <=> (c = Head(p).of \/ Within(Tail(p), c))
    BY TailIs
<1>2. Distinct(Tail(p))
    <2> SUFFICES ASSUME NEW i \in DOMAIN Tail(p), NEW k \in DOMAIN Tail(p), Tail(p)[i].of = Tail(p)[k].of
                 PROVE  i = k
        BY DEF Distinct
    <2>1. i + 1 = k + 1
        BY <1>1 DEF Distinct
    <2> QED
        BY <1>1, <2>1
<1>3. ~Within(Tail(p), Head(p).of)
    <2> SUFFICES ASSUME NEW i \in DOMAIN Tail(p), Tail(p)[i].of = Head(p).of PROVE FALSE
        BY DEF Within
    <2>1. 1 \in DOMAIN p /\ i + 1 \in DOMAIN p /\ p[i + 1].of = p[1].of
        BY <1>1
    <2>2. i + 1 = 1
        BY <2>1 DEF Distinct
    <2> QED
        BY <1>1, <2>2
<1> QED
    BY <1>1, <1>2, <1>3

\* What a request of the wipe makes of its plan and of the object at its head.
LEMMA WipeRequest ==
    ASSUME NEW j, JobOK(j), j.plan # <<>>, j.tool = "wipe", NEW n, Outcome(j, Head(j.plan), n)
    PROVE  LET k == Head(j.plan).of
           IN  \/ n.plan = j.plan /\ n.failed = j.failed /\ unsure' = unsure \cup {k} /\ (NoEffect \/ Effect(Head(j.plan), j.read))
               \/ n.plan = Tail(j.plan) /\ n.failed = j.failed \cup {k} /\ unsure' = unsure \cup {k} /\ (NoEffect \/ Effect(Head(j.plan), j.read))
               \/ n.plan = Tail(j.plan) /\ n.failed = j.failed \cup {k} /\ unsure' = unsure /\ NoEffect
               \/ n.plan = Tail(j.plan) /\ n.failed = j.failed /\ unsure' = unsure /\ Effect(Head(j.plan), j.read)
<1> DEFINE c == Head(j.plan)
<1>1. c.op = "delete" /\ Writes(c)
    BY PlanFacts DEF Writes
<1>2. Fails(j, n) => n.plan = Tail(j.plan) /\ n.failed = j.failed \cup {c.of}
    BY DEF Fails, SkipsGroup, SkipsObject, Dies, NextJob, Listing
<1>3. Hampered(j, n) => (n.plan = j.plan /\ n.failed = j.failed) \/ Fails(j, n)
    BY DEF Hampered, Repeats, Begins, Reindexes, NextJob
<1>4. \A r : Proceeds(j, n, r) => n.plan = Tail(j.plan) /\ n.failed = j.failed
    BY DEF Proceeds, NextJob
<1> QED
    BY <1>1, <1>2, <1>3, <1>4 DEF Outcome, Listing

LEMMA WipeNext == ClientInv /\ ClientInv' /\ WipeTells /\ [ClientNext]_clientVars => WipeTells'
<1> SUFFICES ASSUME ClientInv, ClientInv', WipeTells, [ClientNext]_clientVars, jobs'[Main].tool = "wipe" PROVE WipeTells'
    BY DEF WipeTells
<1>a. /\ Main \in Threads /\ jobs \in [Threads -> Jobs]
      /\ \A t \in Threads : JobOK(jobs[t]) /\ jobs[t].tool = jobs[Main].tool
      /\ revision \in [Ids -> Nat] /\ effects \in [Ids -> Nat]
      /\ unsure \in SUBSET Ids
    BY ClientAssumption DEF ClientInv, ClientTypes, JobsSound
<1>1. CASE OthersAct
    <2>1. /\ jobs' = jobs /\ effects' = effects /\ unsure' = unsure /\ touched \subseteq touched'
          /\ \A k \in Ids \ touched' : revision'[k] = revision[k]
        BY <1>1 DEF OthersAct
    <2>2. \A k : (Pending(k)' <=> Pending(k)) /\ (PutDown(k)' <=> PutDown(k))
        BY <2>1 DEF Pending, PutDown
    <2>3. jobs[Main].tool = "wipe"
        BY <2>1
    <2>4. \A k \in Ids : DeleteTold(k)'
        BY <2>1, <2>2, <2>3 DEF WipeTells, DeleteTold
    <2> QED
        BY <2>1, <2>3, <2>4 DEF WipeTells
<1>2. ASSUME NEW t \in Threads, NEW pc \in {"ready", "pacing", "sending"}, Moves(t, pc) PROVE WipeTells'
    <2>1. /\ effects' = effects /\ unsure' = unsure /\ touched' = touched /\ revision' = revision
        BY <1>2 DEF Moves, managerVars
    <2>2. \A u \in Threads : /\ jobs'[u].tool = jobs[u].tool /\ jobs'[u].plan = jobs[u].plan
                             /\ jobs'[u].failed = jobs[u].failed
        BY <1>2, MovedIs
    <2>3. \A k : (Pending(k)' <=> Pending(k)) /\ (PutDown(k)' <=> PutDown(k))
        BY <2>2 DEF Pending, PutDown
    <2>4. jobs[Main].tool = "wipe"
        BY <1>a, <2>2
    <2>5. \A k \in Ids : DeleteTold(k)'
        BY <2>1, <2>3, <2>4 DEF WipeTells, DeleteTold
    <2> QED
        BY <2>2, <2>4, <2>5 DEF WipeTells
<1>3. ASSUME NEW t \in Threads, NEW n, Requested(t, n) PROVE WipeTells'
    <2> DEFINE j == jobs[t]
               c == Head(j.plan)
               k0 == c.of
    <2>1. /\ j.plan # <<>> /\ jobs' = [jobs EXCEPT ![t] = n] /\ touched' = touched /\ Outcome(j, c, n)
          /\ JobOK(j)
        BY <1>a, <1>3 DEF Requested
    <2>2. \A u \in Threads : jobs'[u] = (IF u = t THEN n ELSE jobs[u])
        BY <1>a, <2>1
    <2>3. jobs[Main].tool = "wipe" /\ j.tool = "wipe"
        <3>1. n.tool = j.tool
            BY <2>1, OutcomeIs DEF Succeeds
        <3> QED
            BY <1>a, <2>2, <3>1
    <2>4. /\ \A u \in Threads : Distinct(jobs[u].plan)
          /\ \A u, w \in Threads, k \in Ids : Within(jobs[u].plan, k) /\ Within(jobs[w].plan, k) => u = w
          /\ \A k \in Ids : DeleteTold(k)
        BY <2>3 DEF WipeTells
    <2>5. k0 \in Ids /\ c.op = "delete" /\ j.plan \in Seq(CallsOf(j.tool))
        BY <2>1, <2>3, PlanFacts DEF Listing
    <2>6. Within(j.plan, k0) /\ Pending(k0) /\ ~PutDown(k0)
        <3>1. Within(j.plan, k0)
            BY <2>1, <2>5, TailIs
        <3> QED
            BY <2>4, <2>5, <3>1 DEF Pending, DeleteTold
    <2>7. Distinct(Tail(j.plan)) /\ \A k : Within(Tail(j.plan), k) <=> Within(j.plan, k) /\ k # k0
        BY <2>1, <2>4, <2>5, DistinctTail
    <2>8. \/ n.plan = j.plan /\ n.failed = j.failed /\ unsure' = unsure \cup {k0} /\ (NoEffect \/ Effect(c, j.read))
          \/ n.plan = Tail(j.plan) /\ n.failed = j.failed \cup {k0} /\ unsure' = unsure \cup {k0} /\ (NoEffect \/ Effect(c, j.read))
          \/ n.plan = Tail(j.plan) /\ n.failed = j.failed \cup {k0} /\ unsure' = unsure /\ NoEffect
          \/ n.plan = Tail(j.plan) /\ n.failed = j.failed /\ unsure' = unsure /\ Effect(c, j.read)
        BY <2>1, <2>3, WipeRequest
    <2>9. /\ NoEffect => effects' = effects /\ revision' = revision
          /\ Effect(c, j.read) => /\ revision[k0] > 0 /\ effects'[k0] = effects[k0] + 1 /\ revision'[k0] = 0
                                  /\ \A k \in Ids \ {k0} : effects'[k] = effects[k] /\ revision'[k] = revision[k]
        BY <1>a, <2>5 DEF NoEffect, Effect, Accepted, Written
    <2> HIDE DEF k0, c
    <2>10. Distinct(n.plan) /\ \A k : Within(n.plan, k) => Within(j.plan, k)
        BY <2>4, <2>7, <2>8
    <2>11. /\ \A u \in Threads : Distinct(jobs'[u].plan)
           /\ \A u, w \in Threads, k \in Ids : Within(jobs'[u].plan, k) /\ Within(jobs'[w].plan, k) => u = w
        <3>1. \A u \in Threads : Distinct(jobs'[u].plan) /\ \A k : Within(jobs'[u].plan, k) => Within(jobs[u].plan, k)
            BY <2>2, <2>4, <2>10
        <3> QED
            BY <2>4, <3>1
    <2>12. ASSUME NEW k \in Ids, k # k0 PROVE DeleteTold(k)'
        <3>1. \A u \in Threads : /\ Within(jobs'[u].plan, k) <=> Within(jobs[u].plan, k)
                                 /\ k \in jobs'[u].failed <=> k \in jobs[u].failed
            BY <2>2, <2>7, <2>8, <2>12
        <3>2. (Pending(k)' <=> Pending(k)) /\ (PutDown(k)' <=> PutDown(k))
            BY <3>1 DEF Pending, PutDown
        <3>3. effects'[k] = effects[k] /\ revision'[k] = revision[k] /\ (k \in unsure' <=> k \in unsure)
            BY <2>8, <2>9, <2>12
        <3> QED
            BY <2>1, <2>4, <3>2, <3>3 DEF DeleteTold
    <2>13. ASSUME NEW k \in Ids, k = k0 PROVE DeleteTold(k)'
        <3>1. Within(j.plan, k) /\ Pending(k) /\ ~PutDown(k) /\ DeleteTold(k)
            BY <2>4, <2>6, <2>13
        <3>2. k \notin j.failed /\ \A u \in Threads \ {t} : ~Within(jobs[u].plan, k) /\ k \notin jobs[u].failed
            BY <2>4, <3>1 DEF PutDown
        <3>3. Pending(k)' <=> Within(n.plan, k)
            BY <2>2, <3>2 DEF Pending
        <3>4. PutDown(k)' <=> k \in n.failed
            BY <2>2, <3>2 DEF PutDown
        <3>5. effects[k] \in Nat /\ (effects[k] > 0 => k \in unsure) /\ (effects[k] > 1 => k \in touched)
              /\ (effects[k] > 0 /\ k \notin touched => revision[k] = 0)
            BY <1>a, <3>1 DEF DeleteTold
        <3>6. ~Within(Tail(j.plan), k)
            BY <2>7, <2>13
        <3>7. CASE NoEffect
            BY <2>1, <2>8, <2>9, <2>13, <3>1, <3>2, <3>3, <3>4, <3>5, <3>6, <3>7 DEF DeleteTold
        <3>8. CASE Effect(c, j.read)
            <4>1. revision[k] > 0 /\ effects'[k] = effects[k] + 1 /\ revision'[k] = 0
                BY <2>9, <2>13, <3>8
            <4>2. effects'[k] > 1 => k \in touched'
                BY <2>1, <3>5, <4>1
            <4>3. (Pending(k)' \/ PutDown(k)') => k \in unsure'
                BY <2>8, <2>13, <3>2, <3>3, <3>4, <3>5, <3>6, <4>1 DEF NoEffect
            <4>4. Pending(k)' => ~PutDown(k)'
                BY <2>8, <2>13, <3>2, <3>3, <3>4, <3>6
            <4>5. effects'[k] > 0
                BY <3>5, <4>1
            <4> QED
                BY <4>1, <4>2, <4>3, <4>4, <4>5 DEF DeleteTold
        <3> QED
            BY <2>8, <3>7, <3>8
    <2> QED
        BY <2>2, <2>3, <2>11, <2>12, <2>13 DEF WipeTells
<1> QED
    BY <1>1, <1>2, <1>3, ClientStepIs

LEMMA AmendPlanIs ==
    ASSUME NEW p, AmendPlan(p), p # <<>>
    PROVE  \E k \in Ids :
               /\ Head(p).of = k /\ Tail(p) \in {<<>>, <<Call("put", k)>>}
               /\ \/ p = Amends(k) /\ Head(p).op = "get" /\ Tail(p) = <<Call("put", k)>>
                  \/ p = <<Call("put", k)>> /\ Head(p).op = "put" /\ Tail(p) = <<>>
                  \/ p = <<Call("patch", k)>> /\ Head(p).op = "patch" /\ Tail(p) = <<>>
<1>1. PICK k \in Ids : p = Amends(k) \/ p = <<Call("put", k)>> \/ p = <<Call("patch", k)>>
    BY DEF AmendPlan
<1>2. \A op : Call(op, k).of = k /\ Call(op, k).op = op
    BY DEF Call
<1> HIDE DEF Call
<1>3. CASE p = Amends(k)
    <2>1. Head(p) = Call("get", k) /\ Tail(p) = <<Call("put", k)>>
        BY <1>3 DEF Amends
    <2> QED
        BY <1>2, <1>3, <2>1
<1>4. CASE p = <<Call("put", k)>>
    <2>1. Head(p) = Call("put", k) /\ Tail(p) = <<>>
        BY <1>4
    <2> QED
        BY <1>2, <1>4, <2>1
<1>5. CASE p = <<Call("patch", k)>>
    <2>1. Head(p) = Call("patch", k) /\ Tail(p) = <<>>
        BY <1>5
    <2> QED
        BY <1>2, <1>5, <2>1
<1> QED
    BY <1>1, <1>3, <1>4, <1>5

\* The plans of an amendment differ.
LEMMA AmendPlansDiffer ==
    ASSUME NEW k, NEW h
    PROVE  /\ Amends(k) # <<>> /\ <<Call("put", k)>> # <<>> /\ <<Call("patch", k)>> # <<>>
           /\ <<Call("put", k)>> # Amends(h) /\ <<Call("patch", k)>> # Amends(h)
           /\ <<Call("put", k)>> # <<Call("patch", h)>>
           /\ Amends(k) = Amends(h) => k = h
           /\ <<Call("put", k)>> = <<Call("put", h)>> => k = h
BY DEF Amends, Call

\* The clauses of AmendTells.
AmendOf(j) ==
    /\ AmendPlan(j.plan)
    /\ j.died => j.plan = <<>>
    /\ \A k \in Ids : j.plan = Amends(k) => j.read = 0 /\ \A h \in Ids : effects[h] = 0
    /\ \A k \in Ids : j.plan = <<Call("put", k)>> => j.read > 0
    /\ \A k \in Ids : j.plan = <<Call("patch", k)>> => j.read = 0
    /\ \A k \in Ids : effects[k] > 0 /\ (j.plan # <<>> \/ j.died) => k \in unsure
    /\ \A k \in Ids : j.read > 0 /\ effects[k] > 0 /\ k \notin touched => revision[k] > j.read
    /\ \A k \in Ids : effects[k] > 1 => k \in touched \/ j.read = 0

LEMMA AmendNext == ClientInv /\ ClientInv' /\ AmendTells /\ [ClientNext]_clientVars => AmendTells'
<1> SUFFICES ASSUME ClientInv, ClientInv', AmendTells, [ClientNext]_clientVars, jobs'[Main].tool = "amend" PROVE AmendTells'
    BY DEF AmendTells
<1>a. /\ Main \in Threads /\ jobs \in [Threads -> Jobs]
      /\ \A t \in Threads : JobOK(jobs[t]) /\ jobs[t].tool = jobs[Main].tool
      /\ revision \in [Ids -> Nat] /\ effects \in [Ids -> Nat] /\ effects' \in [Ids -> Nat]
      /\ unsure \in SUBSET Ids
    BY ClientAssumption DEF ClientInv, ClientTypes, JobsSound
<1>b. jobs[Main].tool = "amend" => /\ \A t \in Threads \ {Main} : jobs[t].plan = <<>>
                                   /\ AmendOf(jobs[Main])
    BY DEF AmendTells, AmendOf
<1>c. SUFFICES (\A t \in Threads \ {Main} : jobs'[t].plan = <<>>) /\ \A m : m = jobs'[Main] => AmendOf(m)'
    BY DEF AmendTells, AmendOf
<1>1. CASE OthersAct
    <2>1. /\ jobs' = jobs /\ effects' = effects /\ unsure' = unsure /\ touched \subseteq touched'
          /\ \A k \in Ids \ touched' : revision'[k] = revision[k]
        BY <1>1 DEF OthersAct
    <2>2. jobs[Main].tool = "amend"
        BY <2>1
    <2>3. AmendOf(jobs[Main])
        BY <1>b, <2>2
    <2>4. \A m : m = jobs[Main] => AmendOf(m)'
        BY <2>1, <2>3 DEF AmendOf
    <2> QED
        BY <1>b, <2>1, <2>2, <2>4
<1>2. ASSUME NEW t \in Threads, NEW pc \in {"ready", "pacing", "sending"}, Moves(t, pc)
      PROVE  (\A u \in Threads \ {Main} : jobs'[u].plan = <<>>) /\ \A m : m = jobs'[Main] => AmendOf(m)'
    <2>1. effects' = effects /\ unsure' = unsure /\ touched' = touched /\ revision' = revision
        BY <1>2 DEF Moves, managerVars
    <2>2. \A u \in Threads : /\ jobs'[u].tool = jobs[u].tool /\ jobs'[u].plan = jobs[u].plan
                             /\ jobs'[u].read = jobs[u].read /\ jobs'[u].died = jobs[u].died
        BY <1>2, MovedIs
    <2>3. jobs[Main].tool = "amend"
        BY <1>a, <2>2
    <2>4. AmendOf(jobs[Main])
        BY <1>b, <2>3
    <2>5. ASSUME NEW m, m = jobs'[Main] PROVE AmendOf(m)'
        <3>1. m.plan = jobs[Main].plan /\ m.read = jobs[Main].read /\ m.died = jobs[Main].died
            BY <1>a, <2>2, <2>5
        <3> QED
            BY <2>1, <2>4, <3>1 DEF AmendOf
    <2> QED
        BY <1>b, <2>2, <2>3, <2>5
<1>3. ASSUME NEW t \in Threads, NEW n, Requested(t, n)
      PROVE  (\A u \in Threads \ {Main} : jobs'[u].plan = <<>>) /\ \A m : m = jobs'[Main] => AmendOf(m)'
    <2>1. /\ jobs[t].plan # <<>> /\ jobs' = [jobs EXCEPT ![t] = n] /\ touched' = touched
          /\ Outcome(jobs[t], Head(jobs[t].plan), n) /\ JobOK(jobs[t])
        BY <1>a, <1>3 DEF Requested
    <2>2. \A u \in Threads : jobs'[u] = (IF u = t THEN n ELSE jobs[u])
        BY <1>a, <2>1
    <2>3. jobs[Main].tool = "amend"
        <3>1. n.tool = jobs[t].tool
            BY <2>1, OutcomeIs DEF Succeeds
        <3> QED
            BY <1>a, <2>2, <3>1
    <2>4. t = Main
        BY <1>b, <2>1, <2>3
    <2> DEFINE j == jobs[Main]
               c == Head(j.plan)
    <2>5. AmendOf(j) /\ j.tool = "amend" /\ j.read \in Nat /\ j.plan # <<>> /\ ~j.died
        <3>1. AmendOf(j) /\ j.plan # <<>> /\ j.tool = "amend"
            BY <1>b, <2>1, <2>3, <2>4
        <3>2. j.read \in Nat
            BY <1>a DEF Jobs
        <3> QED
            BY <3>1, <3>2 DEF AmendOf
    <2>6. PICK k \in Ids :
              /\ c.of = k /\ Tail(j.plan) \in {<<>>, <<Call("put", k)>>}
              /\ \/ j.plan = Amends(k) /\ c.op = "get" /\ Tail(j.plan) = <<Call("put", k)>>
                 \/ j.plan = <<Call("put", k)>> /\ c.op = "put" /\ Tail(j.plan) = <<>>
                 \/ j.plan = <<Call("patch", k)>> /\ c.op = "patch" /\ Tail(j.plan) = <<>>
        BY <2>5, AmendPlanIs DEF AmendOf
    <2>7. /\ NoEffect => effects' = effects /\ revision' = revision
          /\ Effect(c, j.read) => /\ c.op # "get" /\ effects'[k] = effects[k] + 1 /\ revision'[k] = revision[k] + 1
                                  /\ c.op = "put" => revision[k] = j.read
                                  /\ \A h \in Ids \ {k} : effects'[h] = effects[h] /\ revision'[h] = revision[h]
        BY <1>a, <2>6 DEF NoEffect, Effect, Accepted, Written, Writes
    <2>8. \/ /\ n.plan = j.plan /\ n.read = j.read /\ n.died = j.died /\ (NoEffect \/ Effect(c, j.read))
             /\ unsure' = (IF c.op = "get" THEN unsure ELSE unsure \cup {k})
          \/ /\ n.plan = <<>> /\ n.read = j.read /\ n.died /\ (NoEffect \/ Effect(c, j.read))
             /\ unsure' = (IF c.op = "get" THEN unsure ELSE unsure \cup {k})
          \/ n.plan = <<>> /\ n.read = j.read /\ n.died /\ NoEffect /\ unsure' = unsure
          \/ c.op = "get" /\ revision[k] > 0 /\ n.plan = Tail(j.plan) /\ n.read = revision[k] /\ n.died = j.died
             /\ NoEffect /\ unsure' = unsure
          \/ n.plan = Tail(j.plan) /\ n.read = j.read /\ n.died = j.died /\ Effect(c, j.read) /\ unsure' = unsure
        <3> HIDE DEF c, j
        <3>1. Fails(j, n) => n.plan = <<>> /\ n.read = j.read /\ n.died
            BY <2>5 DEF Fails, SkipsGroup, SkipsObject, Dies, NextJob, Listing
        <3>2. Hampered(j, n) => (n.plan = j.plan /\ n.read = j.read /\ n.died = j.died) \/ Fails(j, n)
            BY <2>5 DEF Hampered, Repeats, Begins, Reindexes, NextJob
        <3>3. \A r : Proceeds(j, n, r) => n.plan = Tail(j.plan) /\ n.read = r /\ n.died = j.died
            BY DEF Proceeds, NextJob
        <3>4. Writes(c) <=> c.op # "get"
            BY <2>6 DEF Writes
        <3>5. c.op = "get" /\ Accepted(c, j.read) => revision[k] > 0
            BY <2>6 DEF Accepted
        <3>6. Outcome(j, c, n)
            BY <2>1, <2>4 DEF j, c
        <3> QED
            BY <2>5, <2>6, <3>1, <3>2, <3>3, <3>4, <3>5, <3>6 DEF Outcome, Listing
    <2> HIDE DEF c, j
    <2>9. ASSUME NEW m, m = jobs'[Main] PROVE AmendOf(m)'
        <3>1. m = n
            BY <1>a, <2>2, <2>4, <2>9
        <3>2. /\ AmendPlan(n.plan) /\ (n.died => n.plan = <<>>)
            BY <2>5, <2>6, <2>8 DEF AmendOf, AmendPlan
        <3>3. ASSUME NEW h \in Ids, n.plan = Amends(h) PROVE n.read = 0 /\ \A i \in Ids : effects'[i] = 0
            <4>1. n.plan = j.plan /\ n.read = j.read /\ c.op = "get"
                <5>1. /\ Amends(h) # <<>> /\ <<Call("put", k)>> # Amends(h) /\ <<Call("patch", k)>> # Amends(h)
                    BY AmendPlansDiffer
                <5>2. n.plan # <<>> /\ n.plan # Tail(j.plan)
                    BY <2>6, <3>3, <5>1
                <5> QED
                    BY <2>6, <2>8, <3>3, <5>1, <5>2
            <4>2. NoEffect
                BY <2>7, <2>8, <4>1, <2>6, AmendPlansDiffer
            <4> QED
                BY <2>5, <2>7, <3>3, <4>1, <4>2 DEF AmendOf
        <3>4. ASSUME NEW h \in Ids, n.plan = <<Call("put", h)>> PROVE n.read > 0
            <4>1. <<Call("put", h)>> # <<>>
                BY AmendPlansDiffer
            <4>2. n.plan = j.plan => j.read > 0
                BY <2>5, <3>4 DEF AmendOf
            <4>3. Effect(c, j.read) => Tail(j.plan) = <<>>
                BY <2>6, <2>7
            <4> QED
                BY <2>8, <3>4, <4>1, <4>2, <4>3
        <3>5. ASSUME NEW h \in Ids, n.plan = <<Call("patch", h)>> PROVE n.read = 0
            <4>1. <<Call("patch", h)>> # <<>> /\ <<Call("put", k)>> # <<Call("patch", h)>>
                BY AmendPlansDiffer
            <4>2. n.plan = j.plan => j.read = 0
                BY <2>5, <3>5 DEF AmendOf
            <4>3. n.plan # Tail(j.plan) /\ n.plan # <<>>
                BY <2>6, <3>5, <4>1
            <4> QED
                BY <2>8, <3>5, <4>2, <4>3
        <3>6. c.op = "get" => \A h \in Ids : effects[h] = 0
            BY <2>5, <2>6 DEF AmendOf
        <3>7. c.op = "put" => j.read > 0
            BY <2>5, <2>6 DEF AmendOf
        <3>8. c.op = "patch" => j.read = 0
            BY <2>5, <2>6 DEF AmendOf
        <3>9. ASSUME NEW h \in Ids, effects'[h] > 0, n.plan # <<>> \/ n.died PROVE h \in unsure'
            <4>1. effects[h] \in Nat /\ (effects[h] > 0 => h \in unsure)
                BY <1>a, <2>5 DEF AmendOf
            <4>2. CASE NoEffect
                BY <2>7, <2>8, <3>9, <4>1, <4>2
            <4>3. CASE Effect(c, j.read)
                <5>1. unsure' = unsure \cup {k}
                    <6>1. ~NoEffect /\ c.op # "get" /\ Tail(j.plan) = <<>>
                        BY <1>a, <2>6, <2>7, <4>3
                    <6> QED
                        BY <2>5, <2>8, <3>9, <6>1
                <5> QED
                    BY <2>7, <3>9, <4>1, <4>3, <5>1
            <4> QED
                BY <2>8, <4>2, <4>3
        <3>10. ASSUME NEW h \in Ids, n.read > 0, effects'[h] > 0, h \notin touched PROVE revision'[h] > n.read
            <4>1. effects[h] \in Nat /\ revision[h] \in Nat /\ (j.read > 0 /\ effects[h] > 0 => revision[h] > j.read)
                BY <1>a, <2>5, <3>10 DEF AmendOf
            <4>2. CASE NoEffect
                BY <2>5, <2>7, <2>8, <3>6, <3>10, <4>1, <4>2
            <4>3. CASE Effect(c, j.read)
                <5>1. n.read = j.read /\ c.op = "put"
                    BY <2>6, <2>7, <2>8, <3>8, <3>10, <4>3
                <5> QED
                    BY <2>5, <2>7, <3>10, <4>1, <4>3, <5>1
            <4> QED
                BY <2>8, <4>2, <4>3
        <3>11. ASSUME NEW h \in Ids, effects'[h] > 1 PROVE h \in touched \/ n.read = 0
            <4>1. /\ effects[h] \in Nat /\ revision[h] \in Nat
                  /\ (effects[h] > 1 => h \in touched \/ j.read = 0)
                  /\ (j.read > 0 /\ effects[h] > 0 /\ h \notin touched => revision[h] > j.read)
                BY <1>a, <2>5 DEF AmendOf
            <4>2. CASE NoEffect
                BY <2>7, <2>8, <3>6, <3>11, <4>1, <4>2
            <4>3. CASE Effect(c, j.read)
                <5>1. n.read = j.read /\ (c.op = "put" \/ c.op = "patch")
                    BY <2>6, <2>7, <2>8, <4>3
                <5>2. CASE c.op = "patch"
                    BY <3>8, <5>1, <5>2
                <5>3. CASE c.op = "put"
                    BY <2>5, <2>7, <3>7, <3>11, <4>1, <4>3, <5>1, <5>3
                <5> QED
                    BY <5>1, <5>2, <5>3
            <4> QED
                BY <2>8, <4>2, <4>3
        <3> QED
            BY <2>1, <3>1, <3>2, <3>3, <3>4, <3>5, <3>9, <3>10, <3>11 DEF AmendOf
    <2> QED
        BY <1>b, <2>2, <2>3, <2>4, <2>9
<1> QED
    BY <1>1, <1>2, <1>3, ClientStepIs

-----------------------------------------------------------------------------
(* The theorems.                                                            *)

ClientAll == ClientInv /\ PaceInv /\ MainReads /\ WipeTells /\ AmendTells

LEMMA ClientAlways == ClientSpec => []ClientAll
<1>1. ClientInit => ClientAll
    BY ClientInvInit, PaceInit, MainReadsInit, TellsInit DEF ClientAll
<1>2. ClientAll /\ [ClientNext]_clientVars => ClientAll'
    BY ClientInvNext, PaceNext, MainReadsNext, WipeNext, AmendNext DEF ClientAll
<1> QED
    BY <1>1, <1>2, PTL DEF ClientSpec

\* The client and the tools keep their types, a thread that is not done has a
\* call to make, one of its tool, and what a collection held all the time is in
\* it, what is in it it ever held.
THEOREM ClientTypeCorrect == ClientSpec => []ClientInv
<1>1. ClientAll => ClientInv
    BY DEF ClientAll
<1> QED
    BY <1>1, ClientAlways, PTL

\* However many threads share a client, and however many of their requests are
\* repeated, its requests are no faster than the rate (_pace).
THEOREM RequestsArePaced == ClientSpec => []RequestsPaced
<1>1. ClientAll => RequestsPaced
    BY DEF ClientAll, PaceInv
<1> QED
    BY <1>1, ClientAlways, PTL

LEMMA AllAreWhole == ClientAll => AnswersAreWhole
<1> SUFFICES ASSUME ClientAll PROVE AnswersAreWhole
    OBVIOUS
<1> DEFINE j == jobs[Main]
<1>1. ClientInv /\ MainReads /\ WipeTells /\ AmendTells
    BY DEF ClientAll
<1>2. \A t \in Threads : jobs[t].pc = "done" => jobs[t].plan = <<>>
    BY <1>1 DEF ClientInv, JobsSound, JobOK
<1>3. effects \in [Ids -> Nat] /\ Main \in Threads
    BY <1>1, ClientAssumption DEF ClientInv, ClientTypes
<1>4. /\ (j.tool = "membership" /\ j.pc = "done" /\ ~j.died) => FilesAreWhole(j)
      /\ (j.tool = "additive" /\ j.pc = "done" /\ ~j.died) =>
            \A g \in Ids \ j.failed : AddressesIn(j, g, always) \subseteq Added(j, g) /\ Added(j, g) \subseteq AddressesIn(j, g, ever)
    BY <1>1, MainFiles
<1>5. ASSUME j.tool = "wipe", \A t \in Threads : jobs[t].pc = "done", NEW k \in Ids
      PROVE  WritesAreTrue(k, \E t \in Threads : k \in jobs[t].failed, FALSE)
    <2>1. ~Pending(k)
        <3>1. \A t \in Threads : jobs[t].plan = <<>>
            BY <1>2, <1>5
        <3>2. DOMAIN <<>> = {}
            OBVIOUS
        <3> QED
            BY <3>1, <3>2 DEF Pending, Within
    <2>2. DeleteTold(k)
        BY <1>1, <1>5 DEF WipeTells
    <2> QED
        BY <2>1, <2>2 DEF DeleteTold, PutDown, WritesAreTrue
<1>6. ASSUME j.tool = "amend", j.pc = "done", NEW k \in Ids, effects[k] > 0
      PROVE  WritesAreTrue(k, j.died, j.read = 0)
    BY <1>1, <1>6 DEF AmendTells, WritesAreTrue
<1> QED
    BY <1>4, <1>5, <1>6 DEF AnswersAreWhole

\* While others edit, what an export writes is whole, and a tool says of each
\* write whether it had its effect (_get_pages, cmd_export, _delete_all).
THEOREM WholeAnswers == ClientSpec => []AnswersAreWhole
BY ClientAlways, AllAreWhole, PTL
=============================================================================
