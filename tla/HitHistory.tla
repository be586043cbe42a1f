----------------------------- MODULE HitHistory -----------------------------
(***************************************************************************)
(* When a firewall rule was last hit, and whether step 1 of the cleanup    *)
(* may disable it.  NSX keeps running totals per rule and no last-hit      *)
(* time; rule_cleanup.py works the time out from snapshots of the totals   *)
(* that report_rules_usage.py took over time, and the live total.          *)
(*                                                                         *)
(* One rule.  Its four counters (hits, packets, bytes, sessions) are one   *)
(* number: traffic raises it, a reset sets all to 0.  Time is in units of  *)
(* which NoHitDays must pass without a hit.                                *)
(***************************************************************************)
EXTENDS Naturals, Sequences

CONSTANTS NoHitDays,    \* --no-hit-days
          None,
          MaxTime, MaxHits, MaxResets, MaxReadings      \* bounds

ASSUME PeriodAssumption == NoHitDays \in Nat \ {0} /\ None \notin Nat
ASSUME BoundsAssumption ==
    MaxTime \in Nat /\ MaxHits \in Nat /\ MaxResets \in Nat /\ MaxReadings \in Nat

VARIABLES
    now,
    created,        \* when the rule was (last) created
    count,          \* its total
    readings,       \* the snapshots' readings of it, oldest first
    taking,         \* the report has read this total and not yet saved it
    (* history, no code reads it *)
    lastHit,        \* when the rule was really hit last
    epoch,          \* how often the total has gone back to 0
    epochs,         \* epoch of each reading
    missed          \* a snapshot has taken a missing row for 0
vars == <<now, created, count, readings, taking, lastHit, epoch, epochs, missed>>

Reading == [t: 0..MaxTime, c: 0..MaxHits]
Classes == {"NO_STATS", "TOO_NEW", "RECENT", "ALREADY_DISABLED", "KEEP_DENY", "DISABLE"}

TypeOK ==
    /\ now \in 0..MaxTime /\ created \in 0..now
    /\ count \in 0..MaxHits
    /\ readings \in Seq(Reading) /\ Len(readings) <= MaxReadings
    /\ \A i \in 2..Len(readings) : readings[i-1].t <= readings[i].t
    /\ taking \in [c: 0..MaxHits, epoch: 0..MaxResets] \cup {None}
    /\ lastHit \in (0..now) \cup {None}
    /\ epoch \in 0..MaxResets
    /\ epochs \in Seq(0..epoch) /\ Len(epochs) = Len(readings)
    /\ missed \in BOOLEAN

-----------------------------------------------------------------------------
(* no_hit_since and classify                                                *)

Drops(s) == {i \in 2..Len(s) : s[i].c < s[i-1].c}

\* Mutant: readings before a drop still count.
StartIgnoringDrops(s) == 1

\* Readings before the last drop say nothing.
Start(s) == IF Drops(s) = {} THEN 1
            ELSE CHOOSE i \in Drops(s) : \A j \in Drops(s) : j <= i

\* Mutant: the last reading of all.
ReachedLast(s) == Len(s)

\* The first reading from Start on that has the newest total.
Reached(s) ==
    LET same == {i \in Start(s)..Len(s) : s[i].c = s[Len(s)].c}
    IN  CHOOSE i \in same : \A j \in same : i <= j

\* made is the rule's _create_time, None when it has none.
Never(s, made) ==
    /\ Reached(s) = Start(s) /\ s[Len(s)].c = 0
    /\ Drops(s) = {} /\ made # None

Since(s, made) == IF Never(s, made) THEN made ELSE s[Reached(s)].t

TooShort(since) == now - since <= NoHitDays

\* answered: NSX returned the rule's live counters.
Class(s, made, answered, disabled, keepDeny, deny) ==
    CASE ~answered -> "NO_STATS"
      [] answered /\ TooShort(Since(s, made)) /\ Never(s, made) -> "TOO_NEW"
      [] answered /\ TooShort(Since(s, made)) /\ ~Never(s, made) -> "RECENT"
      [] answered /\ ~TooShort(Since(s, made)) /\ disabled -> "ALREADY_DISABLED"
      [] answered /\ ~TooShort(Since(s, made)) /\ ~disabled /\ keepDeny /\ deny -> "KEEP_DENY"
      [] OTHER -> "DISABLE"

\* What build_plan reads: the history, then the live total.
Series == Append(readings, [t |-> now, c |-> count])

-----------------------------------------------------------------------------
Init ==
    /\ now = 0 /\ created = 0 /\ count = 0
    /\ readings = <<>> /\ taking = None
    /\ lastHit = None /\ epoch = 0 /\ epochs = <<>> /\ missed = FALSE

Tick ==
    /\ now < MaxTime
    /\ now' = now + 1
    /\ UNCHANGED <<created, count, readings, taking, lastHit, epoch, epochs, missed>>

Hit ==
    /\ count < MaxHits
    /\ count' = count + 1
    /\ lastHit' = now
    /\ UNCHANGED <<now, created, readings, taking, epoch, epochs, missed>>

\* The report reads the rule's row; a policy with no rows at all is left out, a
\* rule without a row among others is taken for 0.
SnapshotRead ==
    /\ taking = None /\ Len(readings) < MaxReadings
    /\ \E c \in {count, 0} :
           /\ taking' = [c |-> c, epoch |-> epoch]
           /\ missed' = (missed \/ c # count)
    /\ UNCHANGED <<now, created, count, readings, lastHit, epoch, epochs>>

\* load_hit_history sorts the readings by time.
Saved(reading) == Append(readings, reading)

\* It saves the snapshot under the time at which it has read every rule.
SnapshotSave ==
    /\ taking # None
    /\ readings' = Saved([t |-> now, c |-> taking.c])
    /\ epochs' = Append(epochs, taking.epoch)
    /\ taking' = None
    /\ UNCHANGED <<now, created, count, lastHit, epoch, missed>>

\* An operator resets the statistics.
Reset ==
    /\ epoch < MaxResets
    /\ count' = 0 /\ epoch' = epoch + 1
    /\ UNCHANGED <<now, created, readings, taking, lastHit, epochs, missed>>

\* The rule is deleted and created again under its id.
Recreate ==
    /\ epoch < MaxResets
    /\ count' = 0 /\ epoch' = epoch + 1
    /\ created' = now
    /\ UNCHANGED <<now, readings, taking, lastHit, epochs, missed>>

Next == Tick \/ Hit \/ SnapshotRead \/ SnapshotSave \/ Reset \/ Recreate

Spec == Init /\ [][Next]_vars

-----------------------------------------------------------------------------
\* The readings, and the live total, show each return to 0 by a lower total.
ResetsSeen ==
    LET c == Series
        e == Append(epochs, epoch)
    IN  /\ e[1] = 0
        /\ \A i \in 2..Len(c) : e[i] # e[i-1] => c[i].c < c[i-1].c

\* Rules a plan may call unused: step 1 disables them, or step 2 may delete them.
CalledUnused ==
    \E made \in {created, None}, disabled, keepDeny, deny \in BOOLEAN :
        Class(Series, made, TRUE, disabled, keepDeny, deny) \in {"ALREADY_DISABLED", "KEEP_DENY", "DISABLE"}

ReallyUnused ==
    /\ now - created > NoHitDays
    /\ lastHit # None => now - lastHit > NoHitDays

\* classify calls a rule unused only if it exists and was not hit for more than
\* NoHitDays, also when traffic falls between a reading and the time it is saved
\* under, and when a snapshot misses the rule's row; provided each reset shows.
UnusedIsUnhit == ResetsSeen /\ CalledUnused => ReallyUnused

\* Two readings, the later more than NoHitDays old, both since the last hit, are
\* enough to call the rule unused, as long as the total never went down and no
\* snapshot missed its row.
QuietRuleQualifies ==
    (/\ epoch = 0 /\ ~missed
     /\ \E i \in 2..Len(readings) :
            /\ now - readings[i].t > NoHitDays
            /\ lastHit # None => lastHit < readings[i-1].t)
    => CalledUnused
=============================================================================
