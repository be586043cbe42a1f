---------------------------- MODULE RunFoldersProofs ---------------------------
(***************************************************************************)
(* Proofs about what runs keep on disk: the bundles of a host and the link   *)
(* to the latest (Bundles), the pulls and saved runs of the web server       *)
(* (ToolkitWeb), and the refreshes of a migration request with the baselines *)
(* of their phases (MigrationRequest).                                       *)
(***************************************************************************)
EXTENDS Bundles, ToolkitWeb, MigrationRequest, FiniteSetTheorems, WellFoundedInduction, TLAPS

-----------------------------------------------------------------------------
(* Bundles: a report is served while they are captured, linked and pruned.  *)

\* The bundle of the run that links and prunes is whole, and no victim; what the
\* link leads to was whole.
RunInv ==
    /\ run.at = "capture" => clock \in DOMAIN dirs /\ dirs[clock] = "writing"
    /\ run.at \in {"unlink", "link", "prune"} => clock \in Whole(dirs)
    /\ run.at = "link" => latest = None
    /\ run.at # "prune" => run.victims = {}
    /\ run.victims \subseteq DOMAIN dirs \ {clock}
    /\ latest \in DOMAIN dirs => dirs[latest] \in {"ok", "torn"}

\* No report after this one gets an older bundle than t.
Kept(t) == IF Readable(dirs, latest) THEN t <= latest ELSE \E u \in Whole(dirs) : t <= u

ReaderInv ==
    /\ reader.served # None => Kept(reader.served)
    /\ reader.at = "open" => /\ reader.path \in 1 .. clock /\ Kept(reader.path)
                             /\ reader.path \in DOMAIN dirs => dirs[reader.path] \in {"ok", "torn"}
                             /\ reader.served <= reader.path

BundleInv == TypeOK /\ RunInv /\ ReaderInv

\* The invariant of the run alone; KeepsReader then lifts a step to ReaderInv.
DirsInv == TypeOK /\ RunInv


Less == {p \in Nat \X Nat : p[1] < p[2]}

LEMMA LeastExists ==
    ASSUME NEW S \in SUBSET Nat, S # {}
    PROVE  \E m \in S : \A k \in S : m <= k
<1>1. OpToRel(<, Nat) = Less
    BY DEF OpToRel, Less
<1>2. PICK m \in S : \A k \in S : ~(<<k, m>> \in Less)
    BY <1>1, NatLessThanWellFounded, WFMin
<1>3. ASSUME NEW i \in Nat, NEW j \in Nat, i < j PROVE <<i, j>> \in Less
    BY <1>3 DEF Less
<1>4. \A k \in S : ~(k < m)
    BY <1>2, <1>3
<1> QED
    BY <1>4

LEMMA GreatestExists ==
    ASSUME NEW n \in Nat, NEW S \in SUBSET (0..n), S # {}
    PROVE  \E m \in S : \A k \in S : k <= m
<1> DEFINE T == {i \in 0..n : n - i \in S}
<1>1. ASSUME NEW k \in S PROVE n - k \in T
    <2>1. n - k \in 0..n /\ n - (n - k) = k
        OBVIOUS
    <2> QED
        BY <2>1
<1>2. T \in SUBSET Nat
    OBVIOUS
<1>3. T # {}
    <2>1. PICK k \in S : TRUE
        OBVIOUS
    <2> QED
        BY <1>1, <2>1
<1>4. \A i \in T : n - i \in S /\ i \in 0..n
    OBVIOUS
<1> HIDE DEF T
<1>5. PICK m \in T : \A k \in T : m <= k
    BY <1>2, <1>3, LeastExists
<1>6. ASSUME NEW k \in S PROVE k <= n - m
    BY <1>1, <1>4, <1>5
<1> QED
    BY <1>4, <1>5, <1>6

LEMMA MaxOf ==
    ASSUME NEW n \in Nat, NEW S \in SUBSET (1..n), S # {}
    PROVE  Max(S) \in S /\ \A k \in S : k <= Max(S)
<1>1. S \in SUBSET (0..n)
    OBVIOUS
<1>2. PICK m \in S : \A k \in S : k <= m
    BY <1>1, GreatestExists
<1>3. \A k \in S : m >= k
    BY <1>2
<1>4. Max(S) \in S /\ \A k \in S : Max(S) >= k
    BY <1>3 DEF Max
<1> QED
    BY <1>4

LEMMA MinOf ==
    ASSUME NEW n \in Nat, NEW S \in SUBSET (1..n), S # {}
    PROVE  Min(S) \in S
<1>1. S \in SUBSET Nat
    OBVIOUS
<1>2. PICK m \in S : \A k \in S : m <= k
    BY <1>1, LeastExists
<1> QED
    BY <1>2 DEF Min

\* The newest bundle is never one to prune: nothing is newer.
LEMMA NewestIsKept ==
    ASSUME DirsInv
    PROVE  Old(dirs) \subseteq DOMAIN dirs \ {clock}
<1>1. Old(dirs) \subseteq DOMAIN dirs
    BY DEF Old
<1>2. ASSUME clock \in Old(dirs) PROVE FALSE
    <2>1. {u \in DOMAIN dirs : u > clock} = {}
        BY DEF DirsInv, TypeOK
    <2>2. Retain \in Nat \ {0} /\ 0 >= Retain
        BY <1>2, <2>1, FS_EmptySet, RetainAssumption DEF Old
    <2> QED
        BY <2>2
<1> QED
    BY <1>1, <1>2

\* What a report finds is whole and, whatever it got before, not older.
LEMMA LatestResolves ==
    ASSUME DirsInv
    PROVE  /\ Whole(dirs) # {} => Resolve(dirs, latest) \in Whole(dirs)
           /\ Resolve(dirs, latest) # None =>
                  /\ Resolve(dirs, latest) \in Whole(dirs)
                  /\ \A t \in 0 .. MaxRuns : Kept(t) <=> t <= Resolve(dirs, latest)
<1>1. Whole(dirs) \in SUBSET (1 .. clock) /\ clock \in Nat /\ None \notin Whole(dirs)
    BY RetainAssumption DEF DirsInv, TypeOK, Whole, None
<1>2. CASE Readable(dirs, latest)
    <2>1. Resolve(dirs, latest) = latest /\ latest \in Whole(dirs)
        BY <1>2 DEF DirsInv, RunInv, Resolve, Whole, Readable
    <2> QED
        BY <1>2, <2>1 DEF Kept
<1>3. CASE ~Readable(dirs, latest)
    <2>1. Resolve(dirs, latest) = IF Whole(dirs) = {} THEN None ELSE Max(Whole(dirs))
        BY <1>3 DEF Resolve
    <2>2. CASE Whole(dirs) = {}
        BY <2>1, <2>2
    <2>3. CASE Whole(dirs) # {}
        <3>1. Max(Whole(dirs)) \in Whole(dirs) /\ \A k \in Whole(dirs) : k <= Max(Whole(dirs))
            BY <1>1, <2>3, MaxOf
        <3>2. \A t \in 0 .. MaxRuns : Kept(t) <=> \E u \in Whole(dirs) : t <= u
            BY <1>3 DEF Kept
        <3>3. \A t \in 0 .. MaxRuns : Kept(t) <=> t <= Max(Whole(dirs))
            BY <1>1, <3>1, <3>2
        <3> QED
            BY <2>1, <2>3, <3>1, <3>3
    <2> QED
        BY <2>2, <2>3
<1> QED
    BY <1>2, <1>3

-----------------------------------------------------------------------------
(* The steps of the run.  Each leaves a bundle for every report to come.    *)

\* What a step of the run does to the bundles a report may hold or get.
Safe == /\ DirsInv'
        /\ Whole(dirs) # {} => Whole(dirs)' # {}
        /\ \A t \in 0 .. MaxRuns : Kept(t) => Kept(t)'
        /\ clock' >= clock
        /\ \A t \in 1 .. clock : t \in DOMAIN dirs' =>
               t \in DOMAIN dirs /\ (dirs[t] \in {"ok", "torn"} => dirs'[t] \in {"ok", "torn"})

LEMMA KeepsReader == ASSUME BundleInv, Safe, reader' = reader PROVE BundleInv'
<1>1. TypeOK' /\ RunInv'
    BY DEF Safe, DirsInv
<1>2. reader.served \in 0 .. MaxRuns /\ reader.path \in 0 .. MaxRuns /\ clock \in Nat /\ clock' \in Nat
    BY <1>1, RetainAssumption DEF BundleInv, TypeOK
<1>3. reader.served # None => Kept(reader.served)'
    BY <1>2 DEF Safe, BundleInv, ReaderInv
<1>4. reader.at = "open" => reader.path \in 1 .. clock' /\ Kept(reader.path)'
    BY <1>2 DEF Safe, BundleInv, ReaderInv
<1>5. reader.at = "open" /\ reader.path \in DOMAIN dirs' => dirs'[reader.path] \in {"ok", "torn"}
    BY DEF Safe, BundleInv, ReaderInv
<1>6. reader.at = "open" => reader.served <= reader.path
    BY DEF BundleInv, ReaderInv
<1>7. ReaderInv'
    BY <1>3, <1>4, <1>5, <1>6 DEF ReaderInv, Kept
<1> QED
    BY <1>1, <1>7 DEF BundleInv

\* A bundle gets new content; its time is the newest, or the bundle was there.
LEMMA SetIs ==
    ASSUME NEW t \in Nat, NEW w
    PROVE  /\ DOMAIN Set(t, w) = DOMAIN dirs \cup {t} /\ Set(t, w)[t] = w
           /\ \A u \in DOMAIN dirs : u # t => Set(t, w)[u] = dirs[u]
BY DEF Set

LEMMA NewRunSafe == ASSUME DirsInv, NewRun PROVE Safe
<1>1. /\ clock \in 0 .. MaxRuns /\ clock < MaxRuns /\ clock' = clock + 1 /\ clock + 1 \in Nat
      /\ latest' = latest /\ dirs' = Set(clock + 1, "writing") /\ run' = [run EXCEPT !.at = "capture"]
      /\ DOMAIN dirs \subseteq 1 .. clock /\ clock + 1 \notin DOMAIN dirs /\ MaxRuns \in Nat
    BY RetainAssumption DEF NewRun, DirsInv, TypeOK
<1>2. /\ DOMAIN dirs' = DOMAIN dirs \cup {clock + 1} /\ dirs'[clock + 1] = "writing"
      /\ \A u \in DOMAIN dirs : dirs'[u] = dirs[u]
    BY <1>1 DEF Set
<1>3. Whole(dirs') = Whole(dirs)
    BY <1>2 DEF Whole
<1>4. run'.at = "capture" /\ run'.victims = {}
    BY <1>1 DEF DirsInv, TypeOK, RunInv, NewRun
<1>5. TypeOK'
    BY <1>1, <1>2 DEF DirsInv, TypeOK, NewRun
<1>6. RunInv'
    <2>1. latest # clock + 1
        BY <1>1 DEF DirsInv, TypeOK
    <2> QED
        BY <1>1, <1>2, <1>3, <1>4, <2>1 DEF DirsInv, RunInv
<1>7. \A t \in 0 .. MaxRuns : Kept(t) => Kept(t)'
    <2>1. latest # clock + 1
        BY <1>1 DEF DirsInv, TypeOK
    <2>2. Readable(dirs', latest') <=> Readable(dirs, latest)
        BY <1>1, <1>2, <2>1 DEF Readable
    <2> QED
        BY <1>1, <1>3, <2>2 DEF Kept
<1>8. \A t \in 1 .. clock : t \in DOMAIN dirs' => t \in DOMAIN dirs /\ dirs'[t] = dirs[t]
    BY <1>1, <1>2
<1> QED
    BY <1>1, <1>3, <1>5, <1>6, <1>7, <1>8 DEF Safe, DirsInv

LEMMA CaptureSafe == ASSUME DirsInv, CaptureFails \/ CaptureDone PROVE Safe
<1>1. PICK w \in {"failed", "ok"} :
        /\ dirs' = Set(clock, w) /\ latest' = latest /\ clock' = clock /\ reader' = reader
        /\ w = "failed" => run' = Idle
        /\ w = "ok" => run' = [run EXCEPT !.at = "unlink"]
    BY DEF CaptureFails, CaptureDone
<1>2. /\ run.at = "capture" /\ clock \in DOMAIN dirs /\ dirs[clock] = "writing" /\ run.victims = {}
      /\ clock \in 1 .. MaxRuns /\ MaxRuns \in Nat
    BY RetainAssumption DEF CaptureFails, CaptureDone, DirsInv, RunInv, TypeOK
<1>3. /\ DOMAIN dirs' = DOMAIN dirs /\ dirs'[clock] = w
      /\ \A u \in DOMAIN dirs : u # clock => dirs'[u] = dirs[u]
    BY <1>1, <1>2, SetIs
<1>4. Whole(dirs) \subseteq Whole(dirs)' /\ (w = "ok" => clock \in Whole(dirs)')
    BY <1>2, <1>3 DEF Whole
<1>5. run'.victims = {} /\ run'.at \in {"idle", "unlink"} /\ (run'.at = "unlink" => w = "ok")
    BY <1>1, <1>2 DEF Idle, DirsInv, TypeOK
<1>6. TypeOK'
    <2>1. \A t \in DOMAIN dirs' : dirs'[t] \in {"writing", "failed", "ok", "torn"}
        BY <1>2, <1>3 DEF DirsInv, TypeOK
    <2>2. run' \in [at : {"idle", "capture", "unlink", "link", "prune"}, victims : SUBSET (1 .. MaxRuns)]
        BY <1>1 DEF DirsInv, TypeOK, Idle
    <2> QED
        BY <1>1, <1>3, <2>1, <2>2 DEF DirsInv, TypeOK
<1>7. RunInv'
    BY <1>1, <1>2, <1>3, <1>4, <1>5 DEF DirsInv, RunInv
<1>8. \A t \in 0 .. MaxRuns : Kept(t) => Kept(t)'
    <2>1. latest \in DOMAIN dirs => latest # clock
        BY <1>2 DEF DirsInv, RunInv
    <2>2. Readable(dirs', latest') <=> Readable(dirs, latest)
        BY <1>1, <1>2, <1>3, <2>1 DEF Readable
    <2> QED
        BY <1>1, <1>4, <2>2 DEF Kept
<1>9. \A t \in 1 .. clock : t \in DOMAIN dirs' =>
          t \in DOMAIN dirs /\ (dirs[t] \in {"ok", "torn"} => dirs'[t] \in {"ok", "torn"})
    BY <1>1, <1>2, <1>3
<1> QED
    BY <1>1, <1>2, <1>4, <1>6, <1>7, <1>8, <1>9 DEF Safe, DirsInv

LEMMA LinkSafe == ASSUME DirsInv, Unlink \/ Link PROVE Safe
<1>1. /\ dirs' = dirs /\ clock' = clock /\ reader' = reader /\ clock \in Whole(dirs)
      /\ clock \in 0 .. MaxRuns /\ MaxRuns \in Nat /\ run.victims = {} /\ Whole(dirs) \subseteq 1 .. clock
    BY RetainAssumption DEF Unlink, Link, DirsInv, RunInv, TypeOK, Whole
<1>2. CASE Unlink
    <2>1. latest' = None /\ run' = [run EXCEPT !.at = "link"] /\ run'.at = "link" /\ run'.victims = {}
        BY <1>1, <1>2 DEF Unlink, DirsInv, TypeOK
    <2>2. TypeOK' /\ RunInv'
        BY <1>1, <2>1 DEF DirsInv, TypeOK, RunInv, None
    <2>3. ASSUME NEW t \in 0 .. MaxRuns, Kept(t) PROVE \E u \in Whole(dirs) : t <= u
        BY <2>3 DEF Kept, DirsInv, RunInv, Readable, Whole
    <2>4. ~Readable(dirs', latest')
        BY <1>1, <2>1 DEF Readable, DirsInv, TypeOK, None
    <2>5. \A t \in 0 .. MaxRuns : Kept(t) => Kept(t)'
        BY <1>1, <2>1, <2>3, <2>4 DEF Kept
    <2> QED
        BY <1>1, <2>2, <2>5 DEF Safe, DirsInv
<1>3. CASE Link
    <2>1. /\ latest' \in {latest, clock} /\ run' = [at |-> "prune", victims |-> Old(dirs)]
        BY <1>3 DEF Link
    <2>2. Old(dirs) \subseteq DOMAIN dirs \ {clock} /\ Old(dirs) \subseteq 1 .. MaxRuns
        <3>1. DOMAIN dirs \subseteq 1 .. MaxRuns
            BY <1>1 DEF DirsInv, TypeOK
        <3> QED
            BY <3>1, NewestIsKept
    <2>3. TypeOK'
        BY <1>1, <2>1, <2>2 DEF DirsInv, TypeOK, None
    <2>4. RunInv'
        BY <1>1, <2>1, <2>2 DEF RunInv, DirsInv, Whole
    <2>5. ASSUME NEW t \in 0 .. MaxRuns, Kept(t) PROVE t <= clock
        BY <1>1, <2>5 DEF Kept, DirsInv, TypeOK
    <2>6. Readable(dirs, clock)
        BY <1>1 DEF Readable, Whole
    <2>7. \A t \in 0 .. MaxRuns : Kept(t) => Kept(t)'
        BY <1>1, <2>1, <2>5, <2>6 DEF Kept
    <2> QED
        BY <1>1, <2>3, <2>4, <2>7 DEF Safe, DirsInv
<1> QED
    BY <1>2, <1>3

LEMMA PruneSafe == ASSUME DirsInv, Prune PROVE Safe
<1> DEFINE v == Min(run.victims)
<1>1. /\ run.at = "prune" /\ run.victims # {} /\ latest' = latest /\ clock' = clock /\ reader' = reader
      /\ clock \in 0 .. MaxRuns /\ MaxRuns \in Nat /\ run.victims \in SUBSET (1 .. MaxRuns)
    BY RetainAssumption DEF Prune, DirsInv, TypeOK
<1>2. v \in run.victims /\ v \in DOMAIN dirs /\ v # clock /\ v \in Nat
    <2>1. v \in run.victims
        BY <1>1, MinOf
    <2> QED
        BY <1>1, <2>1 DEF DirsInv, RunInv
<1>3. \/ dirs' = Set(v, "torn") /\ run' = run
      \/ dirs' = [u \in DOMAIN dirs \ {v} |-> dirs[u]] /\ run' = [run EXCEPT !.victims = @ \ {v}]
    BY DEF Prune
<1> HIDE DEF v
<1>4. /\ DOMAIN dirs' \subseteq DOMAIN dirs
      /\ \A u \in DOMAIN dirs : u # v => u \in DOMAIN dirs' /\ dirs'[u] = dirs[u]
      /\ v \in DOMAIN dirs' => dirs'[v] = "torn"
    BY <1>2, <1>3, SetIs
<1>5. /\ run'.at = "prune" /\ run'.victims \subseteq run.victims
      /\ run'.victims \subseteq DOMAIN dirs' \ {clock}
      /\ run' \in [at : {"idle", "capture", "unlink", "link", "prune"}, victims : SUBSET (1 .. MaxRuns)]
    <2>1. CASE dirs' = Set(v, "torn") /\ run' = run
        <3>1. DOMAIN dirs' = DOMAIN dirs
            BY <1>2, <2>1, SetIs
        <3> QED
            BY <1>1, <2>1, <3>1 DEF DirsInv, TypeOK, RunInv
    <2>2. CASE dirs' = [u \in DOMAIN dirs \ {v} |-> dirs[u]] /\ run' = [run EXCEPT !.victims = @ \ {v}]
        <3>1. DOMAIN dirs' = DOMAIN dirs \ {v} /\ run'.at = run.at /\ run'.victims = run.victims \ {v}
            BY <2>2 DEF DirsInv, TypeOK
        <3> QED
            BY <1>1, <2>2, <3>1 DEF DirsInv, TypeOK, RunInv
    <2> QED
        BY <1>3, <2>1, <2>2
<1>6. clock \in Whole(dirs) /\ clock \in Whole(dirs') /\ Whole(dirs) \subseteq 1 .. clock
    BY <1>1, <1>2, <1>4 DEF Whole, DirsInv, RunInv, TypeOK
<1>7. TypeOK'
    BY <1>1, <1>4, <1>5 DEF DirsInv, TypeOK
<1>8. RunInv'
    BY <1>1, <1>4, <1>5, <1>6 DEF DirsInv, RunInv
<1>9. ASSUME NEW t \in 0 .. MaxRuns, Kept(t) PROVE Kept(t)'
    <2>1. t <= clock
        BY <1>1, <1>6, <1>9 DEF Kept, DirsInv, TypeOK
    <2>2. CASE Readable(dirs', latest')
        <3>1. Readable(dirs, latest)
            BY <1>1, <1>4, <2>2 DEF Readable
        <3> QED
            BY <1>1, <1>9, <2>2, <3>1 DEF Kept
    <2>3. CASE ~Readable(dirs', latest')
        BY <1>1, <1>6, <2>1, <2>3 DEF Kept
    <2> QED
        BY <2>2, <2>3
<1>10. \A t \in 1 .. clock : t \in DOMAIN dirs' =>
          t \in DOMAIN dirs /\ (dirs[t] \in {"ok", "torn"} => dirs'[t] \in {"ok", "torn"})
    BY <1>4
<1> QED
    BY <1>1, <1>6, <1>7, <1>8, <1>9, <1>10 DEF Safe, DirsInv

LEMMA EndSafe == ASSUME DirsInv, Done \/ Dies PROVE Safe
<1>1. dirs' = dirs /\ latest' = latest /\ clock' = clock /\ reader' = reader /\ run' = Idle
    BY DEF Done, Dies
<1>2. TypeOK' /\ RunInv'
    BY <1>1 DEF DirsInv, TypeOK, RunInv, Idle
<1>3. \A t \in 0 .. MaxRuns : Kept(t) => Kept(t)'
    BY <1>1 DEF Kept
<1>4. Whole(dirs') = Whole(dirs)
    BY <1>1
<1> QED
    BY <1>1, <1>2, <1>3, <1>4, RetainAssumption DEF Safe, DirsInv, TypeOK

-----------------------------------------------------------------------------
(* The report, and the theorem.                                             *)

LEMMA LookKeeps == ASSUME BundleInv, Look PROVE BundleInv'
<1> DEFINE p == Resolve(dirs, latest)
<1>1. /\ p # None /\ reader.at = "look"
      /\ reader' = [reader EXCEPT !.at = "open", !.via = Readable(dirs, latest), !.path = p]
      /\ UNCHANGED <<dirs, latest, run, clock>>
    BY DEF Look
<1>2. p \in Whole(dirs) /\ \A t \in 0 .. MaxRuns : Kept(t) <=> t <= p
    BY <1>1, LatestResolves DEF BundleInv, DirsInv
<1> HIDE DEF p
<1>3. p \in 1 .. clock /\ dirs[p] = "ok" /\ clock \in 0 .. MaxRuns /\ MaxRuns \in Nat
    BY <1>2, RetainAssumption DEF Whole, BundleInv, TypeOK
<1>4. reader'.at = "open" /\ reader'.path = p /\ reader'.served = reader.served
      /\ reader.served \in 0 .. MaxRuns
    BY <1>1 DEF BundleInv, TypeOK
<1>5. TypeOK'
    <2>1. p \in 0 .. MaxRuns
        BY <1>3
    <2>2. reader' \in [at : {"look", "open"}, via : BOOLEAN, path : 0 .. MaxRuns, served : 0 .. MaxRuns]
        BY <1>1, <2>1 DEF BundleInv, TypeOK, Readable
    <2> QED
        BY <1>1, <2>2 DEF BundleInv, TypeOK
<1>6. reader.served <= p /\ Kept(p)
    BY <1>2, <1>3, <1>4 DEF BundleInv, ReaderInv, None
<1>7. RunInv' /\ ReaderInv'
    BY <1>1, <1>3, <1>4, <1>6 DEF BundleInv, RunInv, ReaderInv, Kept
<1> QED
    BY <1>5, <1>7 DEF BundleInv

LEMMA OpenKeeps ==
    ASSUME BundleInv, Open
    PROVE  /\ BundleInv'
           /\ reader'.served # reader.served =>
                  reader'.served > reader.served /\ dirs[reader'.served] = "ok"
<1>1. /\ reader.at = "open" /\ UNCHANGED <<dirs, latest, run, clock>>
      /\ reader' = [reader EXCEPT !.at = "look", !.via = FALSE, !.path = None,
                        !.served = IF Readable(dirs, Opened) THEN Opened ELSE @]
    BY DEF Open
<1>2. /\ reader.path \in 1 .. clock /\ Kept(reader.path) /\ reader.served <= reader.path
      /\ reader.path \in DOMAIN dirs => dirs[reader.path] \in {"ok", "torn"}
      /\ clock \in 0 .. MaxRuns /\ MaxRuns \in Nat /\ reader.served \in 0 .. MaxRuns
      /\ latest \in 0 .. clock
    BY <1>1, RetainAssumption DEF BundleInv, ReaderInv, TypeOK
<1>3. ASSUME Readable(dirs, Opened)
      PROVE  /\ Opened \in 0 .. MaxRuns /\ dirs[Opened] = "ok" /\ Kept(Opened)
             /\ reader.served <= Opened
    <2>1. CASE reader.via
        <3>1. Opened = latest /\ Readable(dirs, latest)
            BY <1>3, <2>1 DEF Opened
        <3>2. reader.served # None => reader.served <= latest
            BY <3>1 DEF BundleInv, ReaderInv, Kept
        <3> QED
            BY <1>2, <3>1, <3>2 DEF BundleInv, RunInv, Kept, Readable, None
    <2>2. CASE ~reader.via
        BY <1>2, <1>3, <2>2 DEF Opened, Readable
    <2> QED
        BY <2>1, <2>2
<1>4. PICK s \in 0 .. MaxRuns :
          /\ reader' = [at |-> "look", via |-> FALSE, path |-> None, served |-> s]
          /\ s # reader.served => dirs[s] = "ok" /\ Kept(s) /\ reader.served <= s
    <2> DEFINE s == IF Readable(dirs, Opened) THEN Opened ELSE reader.served
    <2>1. s \in 0 .. MaxRuns
        BY <1>2, <1>3
    <2>2. reader' = [at |-> "look", via |-> FALSE, path |-> None, served |-> s]
        BY <1>1 DEF BundleInv, TypeOK
    <2>3. s # reader.served => dirs[s] = "ok" /\ Kept(s) /\ reader.served <= s
        BY <1>3
    <2> HIDE DEF s
    <2> QED
        BY <2>1, <2>2, <2>3
<1>5. /\ reader'.at = "look" /\ reader'.served = s
      /\ reader' \in [at : {"look", "open"}, via : BOOLEAN, path : 0 .. MaxRuns, served : 0 .. MaxRuns]
    BY <1>2, <1>4 DEF None
<1>6. TypeOK'
    BY <1>1, <1>5 DEF BundleInv, TypeOK
<1>7. s # None => Kept(s)
    BY <1>4 DEF BundleInv, ReaderInv
<1>8. RunInv' /\ ReaderInv'
    BY <1>1, <1>5, <1>7 DEF BundleInv, RunInv, ReaderInv, Kept
<1>9. reader'.served # reader.served =>
          reader'.served > reader.served /\ dirs[reader'.served] = "ok"
    BY <1>2, <1>4, <1>5
<1> QED
    BY <1>6, <1>8, <1>9 DEF BundleInv

LEMMA BundleStep ==
    ASSUME BundleInv, [Next]_vars
    PROVE  /\ BundleInv'
           /\ Whole(dirs) # {} => Whole(dirs)' # {}
           /\ reader'.served # reader.served =>
                  reader'.served > reader.served /\ dirs[reader'.served] = "ok"
<1>1. DirsInv
    BY DEF BundleInv, DirsInv
<1>2. CASE NewRun \/ CaptureFails \/ CaptureDone \/ Unlink \/ Link \/ Prune \/ Done \/ Dies
    <2>1. Safe
        BY <1>1, <1>2, NewRunSafe, CaptureSafe, LinkSafe, PruneSafe, EndSafe
    <2>2. reader' = reader
        BY <1>2 DEF NewRun, CaptureFails, CaptureDone, Unlink, Link, Prune, Done, Dies
    <2> QED
        BY <2>1, <2>2, KeepsReader DEF Safe
<1>3. CASE Look
    <2>1. dirs' = dirs /\ reader'.served = reader.served
        BY <1>3 DEF Look, BundleInv, TypeOK
    <2> QED
        BY <1>3, <2>1, LookKeeps
<1>4. CASE Open
    <2>1. dirs' = dirs
        BY <1>4 DEF Open
    <2> QED
        BY <1>4, <2>1, OpenKeeps
<1>5. CASE UNCHANGED vars
    BY <1>5 DEF vars, BundleInv, TypeOK, RunInv, ReaderInv, Kept
<1> QED
    BY <1>2, <1>3, <1>4, <1>5 DEF Next

LEMMA BundleInit == Init => BundleInv
BY RetainAssumption DEF Init, BundleInv, TypeOK, RunInv, ReaderInv, Idle, None

\* Once a run has captured everything, a report finds a complete snapshot,
\* whatever ran, failed or died since (bundle_history.py, vm_rule_data.py); it
\* never gets an incomplete one, nor one older than the report before it.
THEOREM ReportsFindWhole == Spec => SnapshotsKept
<1>1. ASSUME BundleInv, [Next]_vars
      PROVE  [/\ Whole(dirs) # {} => /\ Resolve(dirs', latest') # None
                                     /\ dirs'[Resolve(dirs', latest')] = "ok"
              /\ reader'.served # reader.served =>
                     reader'.served > reader.served /\ dirs[reader'.served] = "ok"]_vars
    <2>1. BundleInv'
        BY <1>1, BundleStep
    <2>2. Whole(dirs)' # {} => Resolve(dirs', latest') \in Whole(dirs')
        <3>1. DirsInv'
            BY <2>1 DEF BundleInv, DirsInv
        <3>2. (Whole(dirs) # {} => Resolve(dirs, latest) \in Whole(dirs))'
            BY <3>1, LatestResolves, PTL
        <3> QED
            BY <3>2 DEF Whole, Resolve
    <2>3. Resolve(dirs', latest') \in Whole(dirs') =>
              Resolve(dirs', latest') # None /\ dirs'[Resolve(dirs', latest')] = "ok"
        BY <2>1 DEF BundleInv, TypeOK, Whole, None
    <2> QED
        BY <1>1, <2>2, <2>3, BundleStep
<1>2. Init => BundleInv
    BY BundleInit
<1>3. BundleInv /\ [Next]_vars => BundleInv'
    BY BundleStep
<1> QED
    BY <1>1, <1>2, <1>3, PTL DEF Spec, SnapshotsKept

-----------------------------------------------------------------------------
(***************************************************************************)
(* ToolkitWeb: the cached profiles of the snapshot in memory were built from *)
(* it, however many threads pull and ask.  The argument: a pull that is not  *)
(* in memory yet is nobody's label, so a label that is that of the memory    *)
(* has been so since it was read.                                            *)
(***************************************************************************)

Pending(t) == req[t].at \in {"clear", "update"}
HasKey(t) == req[t].at \in {"cached", "build", "drop", "keep"}

\* A pull on its way to memory is new: no other thread has it, and neither
\* memory, nor the cache, nor a label that was read.
Fresh == \A t \in Threads : Pending(t) =>
    /\ req[t].pull \in 1 .. pulls
    /\ req[t].pull # memory["snapshot"] /\ req[t].pull # cache.key
    /\ \A u \in Threads : HasKey(u) => req[u].key # req[t].pull
    /\ \A u \in Threads : Pending(u) /\ u # t => req[u].pull # req[t].pull

\* Nothing is known of a pull that was not fetched.
Counted == /\ memory["snapshot"] <= pulls /\ cache.key <= pulls
           /\ \A s \in Stores : file[s] = Torn \/ file[s] <= pulls
           /\ \A t \in Threads : req[t].pull <= pulls
           /\ \A t \in Threads : HasKey(t) => req[t].key \in 1 .. pulls

\* Profiles under way were built from the pull of their label, if that is still
\* the one in memory.
Built == \A t \in Threads : req[t].at \in {"drop", "keep"} /\ req[t].key = memory["snapshot"]
                               => req[t].of = req[t].key

WebInv == WebTypeOK /\ Counted /\ Fresh /\ Built /\ CacheSound

-----------------------------------------------------------------------------
LEMMA InitInv == WebInit => WebInv
BY BoundsAssumption DEF WebInit, WebInv, WebTypeOK, Counted, Fresh, Built, CacheSound, Pending, HasKey,
   NoRequest, EmptyCache, Nothing, Numbers, Stores, Kinds, Steps, Requests

\* What a thread may hold after a step of its own that changes nothing shared.
Sound(t, r) ==
    /\ r \in Requests /\ r.at \notin {"fetch", "clear", "update", "open", "write"}
    /\ r.pull <= pulls
    /\ r.at \in {"cached", "build", "drop", "keep"} =>
           /\ r.key \in 1 .. pulls
           /\ r.key = memory["snapshot"] \/ (HasKey(t) /\ r.key = req[t].key)
    /\ r.at \in {"drop", "keep"} /\ r.key = memory["snapshot"] => r.of = r.key

\* A step of one thread that leaves it sound keeps the invariant (the reads of a
\* request, its answers, its run files).
LEMMA StepKeeps ==
    ASSUME WebInv, NEW t \in Threads, NEW r, Sound(t, r), req' = [req EXCEPT ![t] = r],
           UNCHANGED <<memory, file, cache, pulls, second>>
    PROVE  WebInv'
<1>1. req' \in [Threads -> Requests] BY DEF WebInv, WebTypeOK, Sound
<1>2. WebTypeOK'
  BY <1>1 DEF WebInv, WebTypeOK, Sound
<1>3. Counted'
  BY DEF WebInv, WebTypeOK, Counted, Sound, HasKey
<1>4. Fresh'
  BY DEF WebInv, WebTypeOK, Fresh, Sound, Pending, HasKey
<1>5. Built' /\ CacheSound'
  BY DEF WebInv, WebTypeOK, Built, CacheSound, Sound
<1> QED BY <1>2, <1>3, <1>4, <1>5 DEF WebInv

\* Moving a request to another step, with or without its pull.
LEMMA Moved == ASSUME NEW r \in Requests, NEW a \in Steps, NEW p \in Numbers
               PROVE  /\ [r EXCEPT !.at = a] \in Requests
                      /\ [r EXCEPT !.at = a, !.pull = p] \in Requests
BY DEF Requests

LEMMA Nobody == NoRequest \in Requests /\ NoRequest.at = "idle" /\ NoRequest.pull = Nothing
<1>1. 0 \in Numbers /\ 0 \in 0 .. MaxSecond /\ "idle" \in Steps
  BY BoundsAssumption DEF Numbers, Steps
<1> QED BY <1>1 DEF NoRequest, Nothing, Requests

\* A pull takes the next number, so nobody has it yet.
LEMMA FetchedKeeps == ASSUME WebInv, NEW t \in Threads, Fetched(t) PROVE WebInv'
<1>1. pulls' = pulls + 1 /\ pulls' \in Numbers /\ pulls \in Nat
  BY BoundsAssumption DEF Fetched, WebInv, WebTypeOK, Numbers
<1>2. [req[t] EXCEPT !.at = "clear", !.pull = pulls + 1] \in Requests
  BY <1>1, Moved DEF WebInv, WebTypeOK, Steps
<1>3. WebTypeOK'
  BY <1>1, <1>2 DEF Fetched, At, WebInv, WebTypeOK
<1>4. Counted' /\ Fresh' /\ Built' /\ CacheSound'
  BY <1>1 DEF Fetched, At, WebInv, WebTypeOK, Requests, Numbers, Stores, Counted, Fresh, Built,
     CacheSound, Pending, HasKey, Nothing
<1> QED BY <1>3, <1>4 DEF WebInv

\* The store of a pull is emptied: no label is that of the memory any more.
LEMMA ClearKeeps == ASSUME WebInv, NEW t \in Threads, Clear(t) PROVE WebInv'
<1>t. [req[t] EXCEPT !.at = "update"] \in Requests
  BY Moved DEF WebInv, WebTypeOK, Steps
<1>1. WebTypeOK'
  BY <1>t, BoundsAssumption DEF Clear, Nothing, Numbers, At, Goes, WebInv, WebTypeOK, Requests
<1>2. memory'["snapshot"] \in {memory["snapshot"], Nothing}
  BY DEF Clear, WebInv, WebTypeOK, Stores
<1>3. Counted' /\ Fresh'
  BY <1>2 DEF Clear, At, Goes, WebInv, WebTypeOK, Requests, Numbers, Stores, Counted, Fresh,
     Pending, HasKey, Nothing
<1>4. Built' /\ CacheSound'
  BY <1>2 DEF Clear, At, Goes, WebInv, WebTypeOK, Requests, Numbers, Counted, Built, CacheSound,
     HasKey, Nothing
<1> QED BY <1>1, <1>3, <1>4 DEF WebInv

\* The pull that comes to memory is fresh: no label is that of the memory.
LEMMA UpdateKeeps == ASSUME WebInv, NEW t \in Threads, Update(t) PROVE WebInv'
<1>t. [req[t] EXCEPT !.at = "open"] \in Requests
  BY Moved DEF WebInv, WebTypeOK, Steps
<1>1. WebTypeOK'
  BY <1>t, BoundsAssumption DEF Update, At, Goes, WebInv, WebTypeOK, Requests
<1>2. memory'["snapshot"] \in {memory["snapshot"], req[t].pull}
  BY DEF Update, WebInv, WebTypeOK, Stores
<1>3. \A u \in Threads : /\ req'[u].pull = req[u].pull /\ req'[u].key = req[u].key
                         /\ HasKey(u)' <=> HasKey(u)
                         /\ Pending(u)' <=> Pending(u) /\ u # t
  BY DEF Update, At, Goes, WebInv, WebTypeOK, Requests, HasKey, Pending
<1>5. Pending(t) /\ req[t].pull \in 1 .. pulls
  BY DEF Update, At, Pending, WebInv, Fresh
<1>6. Counted'
  BY <1>2, <1>3, <1>5 DEF Update, WebInv, Counted
<1>7. Fresh'
  BY <1>2, <1>3, <1>5 DEF Update, WebInv, Fresh
<1>4. Built' /\ CacheSound'
  BY <1>2 DEF Update, At, Goes, WebInv, WebTypeOK, Fresh, Built, CacheSound, Pending, HasKey
<1> QED BY <1>1, <1>4, <1>6, <1>7 DEF WebInv

LEMMA OpenFileKeeps == ASSUME WebInv, NEW t \in Threads, OpenFile(t) PROVE WebInv'
<1>1. WebTypeOK'
  BY DEF OpenFile, At, Goes, WebInv, WebTypeOK, Requests, Steps, Stores, Numbers
<1>2. Counted' /\ Fresh' /\ Built' /\ CacheSound'
  BY DEF OpenFile, At, Goes, WebInv, WebTypeOK, Stores, Counted, Fresh, Built, CacheSound, Pending,
     HasKey
<1> QED BY <1>1, <1>2 DEF WebInv

LEMMA WriteFileKeeps == ASSUME WebInv, NEW t \in Threads, WriteFile(t) PROVE WebInv'
<1>1. PICK w \in {req[t].pull, Torn} : file' = [file EXCEPT ![req[t].store] = w]
  BY DEF WriteFile
<1>2. req[t].pull \in Numbers /\ req[t].pull <= pulls
  BY DEF WebInv, WebTypeOK, Requests, Counted
<1>3. WebTypeOK'
  BY <1>1, <1>2, Nobody DEF WriteFile, At, Answered, WebInv, WebTypeOK
<1>4. Counted' /\ Fresh' /\ Built' /\ CacheSound'
  BY <1>1, <1>2 DEF WriteFile, Answered, NoRequest, Nothing, WebInv, WebTypeOK, Numbers, Stores, Counted,
     Fresh, Built, CacheSound, Pending, HasKey
<1> QED BY <1>3, <1>4 DEF WebInv

LEMMA DropKeeps == ASSUME WebInv, NEW t \in Threads, Drop(t) PROVE WebInv'
<1>t. [req[t] EXCEPT !.at = "keep"] \in Requests
  BY Moved DEF WebInv, WebTypeOK, Steps
<1>1. WebTypeOK'
  BY <1>t, BoundsAssumption DEF Drop, EmptyCache, Nothing, Numbers, At, Goes, WebInv, WebTypeOK, Requests
<1>2. Counted' /\ Fresh' /\ Built' /\ CacheSound'
  BY DEF Drop, At, Goes, EmptyCache, Nothing, WebInv, WebTypeOK, Numbers, Counted, Fresh, Built,
     CacheSound, Pending, HasKey
<1> QED BY <1>1, <1>2 DEF WebInv

\* What is cached for the pull in memory was built from it.
LEMMA KeepKeeps == ASSUME WebInv, NEW t \in Threads, Keep(t) PROVE WebInv'
<1>1. WebTypeOK'
  BY DEF Keep, At, Goes, WebInv, WebTypeOK, Requests, Steps, Numbers
<1>2. Counted' /\ Fresh' /\ Built' /\ CacheSound'
  BY DEF Keep, At, Goes, WebInv, WebTypeOK, Requests, Numbers, Counted, Fresh, Built, CacheSound,
     Pending, HasKey
<1> QED BY <1>1, <1>2 DEF WebInv

LEMMA RestartKeeps == ASSUME WebInv, Restart PROVE WebInv'
<1>1. WebTypeOK'
  BY BoundsAssumption DEF Restart, NoRequest, EmptyCache, Nothing, Kinds, WebInv, WebTypeOK, Requests, Steps,
     Stores, Numbers
<1>2. Counted' /\ Fresh' /\ Built' /\ CacheSound'
  BY TornAssumption DEF Restart, NoRequest, EmptyCache, Nothing, WebInv, WebTypeOK, Stores, Numbers, Counted,
     Fresh, Built, CacheSound, Pending, HasKey
<1> QED BY <1>1, <1>2 DEF WebInv

LEMMA DeleteRunsKeeps == ASSUME WebInv, DeleteRuns PROVE WebInv'
<1>1. WebTypeOK'
  BY BoundsAssumption DEF DeleteRuns, WebInv, WebTypeOK, Requests
<1>2. \A t \in Threads : /\ req'[t].at = req[t].at /\ req'[t].pull = req[t].pull
                         /\ req'[t].key = req[t].key /\ req'[t].of = req[t].of
  BY DEF DeleteRuns, WebInv, WebTypeOK, Requests
<1>3. UNCHANGED <<memory, file, cache, pulls>>
  BY DEF DeleteRuns
<1>4. Counted' /\ Fresh' /\ Built' /\ CacheSound'
  BY <1>2, <1>3 DEF WebInv, Counted, Fresh, Built, CacheSound, Pending, HasKey
<1> QED BY <1>1, <1>4 DEF WebInv

LEMMA TickKeeps == ASSUME WebInv, Tick PROVE WebInv'
<1>1. WebTypeOK'
  BY BoundsAssumption DEF Tick, WebInv, WebTypeOK
<1>2. Counted' /\ Fresh' /\ Built' /\ CacheSound'
  BY DEF Tick, WebInv, Counted, Fresh, Built, CacheSound, Pending, HasKey
<1> QED BY <1>1, <1>2 DEF WebInv

LEMMA PullKeeps == ASSUME WebInv, NEW t \in Threads, Pull(t) PROVE WebInv'
<1>1. PICK s \in Stores : req' = [req EXCEPT ![t] = [NoRequest EXCEPT !.at = "fetch", !.store = s]]
  BY DEF Pull, Begins
<1>2. [NoRequest EXCEPT !.at = "fetch", !.store = s] \in Requests
  BY Nobody DEF Requests, Steps
<1>3. WebTypeOK'
  BY <1>1, <1>2 DEF Pull, WebInv, WebTypeOK, NoRequest, Stores
<1>4. Counted' /\ Fresh' /\ Built' /\ CacheSound'
  BY <1>1 DEF Pull, WebInv, WebTypeOK, NoRequest, Nothing, Numbers, Counted, Fresh, Built, CacheSound,
     Pending, HasKey
<1> QED BY <1>3, <1>4 DEF WebInv

\* A request that answers, or that is at a step that holds nothing of a pull.
LEMMA AnswerKeeps ==
    ASSUME WebInv, NEW t \in Threads, Answered(t), UNCHANGED <<memory, file, cache, pulls, second>>
    PROVE  WebInv'
<1>1. Sound(t, NoRequest)
  BY Nobody DEF Sound, NoRequest, Nothing, WebInv, WebTypeOK, Numbers
<1> QED BY <1>1, StepKeeps DEF Answered

\* The steps of a request between its start and its answer.
Plain == {"groups", "rules", "label", "routing", "tables", "history", "historyLabel", "routingLabel",
          "profiles", "create", "save"}
LEMMA PlainKeeps ==
    ASSUME WebInv, NEW t \in Threads, NEW r \in Requests, r.at \in Plain, r.pull <= pulls,
           req' = [req EXCEPT ![t] = r], UNCHANGED <<memory, file, cache, pulls, second>>
    PROVE  WebInv'
<1>1. Sound(t, r) BY DEF Sound, Plain
<1> QED BY <1>1, StepKeeps

LEMMA StartKeeps ==
    ASSUME WebInv, NEW t \in Threads, Search(t) \/ Flow(t) \/ Placement(t) \/ SubnetMap(t)
    PROVE  WebInv'
<1>1. PICK a \in Plain, k \in Kinds \cup {"map"} :
         req' = [req EXCEPT ![t] = [NoRequest EXCEPT !.at = a, !.kind = k]]
  BY DEF Search, Flow, Placement, SubnetMap, Begins, Plain, Kinds
<1>2. a \in Steps BY DEF Plain, Steps
<1>3. [NoRequest EXCEPT !.at = a, !.kind = k] \in Requests
  BY <1>2, Nobody DEF Requests
<1>4. 0 <= pulls BY DEF WebInv, WebTypeOK, Numbers
<1>5. UNCHANGED <<memory, file, cache, pulls, second>>
  BY DEF Search, Flow, Placement, SubnetMap
<1> QED BY <1>1, <1>3, <1>4, <1>5, PlainKeeps DEF NoRequest, Nothing

LEMMA ReadKeeps ==
    ASSUME WebInv, NEW t \in Threads,
           \/ ReadGroups(t) \/ ReadRules(t) \/ ReadLabel(t) \/ RoutingThere(t) \/ ReadTables(t)
           \/ ReadProfiles(t) \/ ReadHistoryLabel(t) \/ ReadRoutingLabel(t)
    PROVE  WebInv'
<1>1. UNCHANGED <<memory, file, cache, pulls, second>>
  BY DEF ReadGroups, ReadRules, ReadLabel, RoutingThere, ReadTables, ReadProfiles, ReadHistoryLabel,
     ReadRoutingLabel
<1>2. /\ memory["snapshot"] \in Numbers /\ memory["topology"] \in Numbers /\ cache.of \in Numbers
      /\ second \in 0 .. MaxSecond /\ req[t] \in Requests /\ req[t].pull <= pulls
  BY BoundsAssumption DEF WebInv, WebTypeOK, Stores, Counted
<1>3. Answered(t) \/ \E r \in Requests : /\ r.at \in Plain /\ r.pull = req[t].pull
                                         /\ req' = [req EXCEPT ![t] = r]
  <2>0. Plain \subseteq Steps BY DEF Plain, Steps
  <2>1. CASE ReadGroups(t)
    BY <1>2, <2>0, <2>1 DEF ReadGroups, Reads, Answered, Requests, Plain
  <2>2. CASE ReadRules(t)
    BY <1>2, <2>0, <2>2 DEF ReadRules, Reads, Answered, Requests, Plain
  <2>3. CASE ReadLabel(t)
    BY <1>2, <2>0, <2>3 DEF ReadLabel, Reads, Answered, Requests, Plain
  <2>4. CASE RoutingThere(t)
    <3>1. \A a \in Plain : [req[t] EXCEPT !.at = a] \in Requests
      BY <1>2, <2>0, Moved
    <3>2. \A a \in Plain : /\ [req[t] EXCEPT !.at = a].at = a
                           /\ [req[t] EXCEPT !.at = a].pull = req[t].pull
      BY <1>2 DEF Requests
    <3>3. "history" \in Plain /\ "tables" \in Plain BY DEF Plain
    <3> QED BY <2>4, <3>1, <3>2, <3>3 DEF RoutingThere, Goes
  <2>5. CASE ReadTables(t)
    BY <1>2, <2>0, <2>5 DEF ReadTables, Reads, Answered, Requests, Plain
  <2>6. CASE ReadProfiles(t)
    BY <1>2, <2>0, <2>6 DEF ReadProfiles, Answered, Requests, Plain
  <2>7. CASE ReadHistoryLabel(t)
    BY <1>2, <2>0, <2>7 DEF ReadHistoryLabel, Reads, Answered, Requests, Plain
  <2>8. CASE ReadRoutingLabel(t)
    BY <1>2, <2>0, <2>8 DEF ReadRoutingLabel, Reads, Answered, Requests, Plain
  <2> QED BY <2>1, <2>2, <2>3, <2>4, <2>5, <2>6, <2>7, <2>8
<1> QED BY <1>1, <1>2, <1>3, AnswerKeeps, PlainKeeps

\* The steps that take a label, compare it and build the profiles.
LEMMA ProfileKeeps ==
    ASSUME WebInv, NEW t \in Threads,
           HistoryThere(t) \/ ReadKey(t) \/ TestCache(t) \/ Build(t)
    PROVE  WebInv'
<1>1. UNCHANGED <<memory, file, cache, pulls, second>>
  BY DEF HistoryThere, ReadKey, TestCache, Build
<1>2. /\ memory["snapshot"] \in Numbers /\ memory["snapshot"] <= pulls /\ pulls \in Nat
      /\ req[t] \in Requests /\ req[t].pull <= pulls
      /\ HasKey(t) => req[t].key \in 1 .. pulls
  BY BoundsAssumption DEF WebInv, WebTypeOK, Stores, Counted, Numbers
<1>3. Answered(t) \/ \E r : Sound(t, r) /\ req' = [req EXCEPT ![t] = r]
  <2>1. CASE HistoryThere(t)
    <3>1. "key" \in Steps /\ "routingLabel" \in Steps BY DEF Steps
    <3>2. \A a \in {"key", "routingLabel"} : Sound(t, [req[t] EXCEPT !.at = a])
      BY <1>2, <3>1 DEF Sound, Requests
    <3> QED BY <2>1, <3>2 DEF HistoryThere, Goes
  <2>2. CASE ReadKey(t)
    <3> DEFINE r == [req[t] EXCEPT !.key = memory["snapshot"], !.at = "cached"]
    <3>1. "cached" \in Steps BY DEF Steps
    <3>2. r \in Requests BY <1>2, <3>1 DEF Requests
    <3>3. r.at = "cached" /\ r.key = memory["snapshot"] /\ r.pull = req[t].pull
      BY <1>2 DEF Requests
    <3>4. memory["snapshot"] # Nothing => memory["snapshot"] \in 1 .. pulls
      BY <1>2 DEF Nothing, Numbers
    <3>5. memory["snapshot"] # Nothing => Sound(t, r)
      BY <1>2, <3>2, <3>3, <3>4 DEF Sound
    <3> QED BY <2>2, <3>5 DEF ReadKey, Reads, Answered
  <2>3. CASE TestCache(t)
    <3>1. "profiles" \in Steps /\ "build" \in Steps BY DEF Steps
    <3>2. HasKey(t) BY <2>3 DEF TestCache, At, HasKey
    <3>3. \A a \in {"profiles", "build"} : Sound(t, [req[t] EXCEPT !.at = a])
      BY <1>2, <3>1, <3>2 DEF Sound, Requests
    <3> QED BY <2>3, <3>3 DEF TestCache, Goes
  <2>4. CASE Build(t)
    <3> DEFINE r == [req[t] EXCEPT !.of = memory["snapshot"], !.at = "drop"]
    <3>1. "drop" \in Steps BY DEF Steps
    <3>2. HasKey(t) BY <2>4 DEF Build, At, HasKey
    <3>3. Sound(t, r)
      BY <1>2, <3>1, <3>2 DEF Sound, Requests
    <3> QED BY <2>4, <3>3 DEF Build, Reads, Answered
  <2> QED BY <2>1, <2>2, <2>3, <2>4
<1> QED BY <1>1, <1>3, AnswerKeeps, StepKeeps

LEMMA SaveKeeps == ASSUME WebInv, NEW t \in Threads, Create(t) \/ Save(t) PROVE WebInv'
<1>1. CASE Create(t)
  <2>1. [req[t] EXCEPT !.at = "save"] \in Requests BY Moved DEF WebInv, WebTypeOK, Steps
  <2>2. [req[t] EXCEPT !.at = "save"].at \in Plain /\ [req[t] EXCEPT !.at = "save"].pull <= pulls
    BY DEF Plain, WebInv, WebTypeOK, Requests, Counted
  <2> QED BY <1>1, <2>1, <2>2, PlainKeeps DEF Create, Goes
<1>2. CASE Save(t)
  BY <1>2, AnswerKeeps DEF Save
<1> QED BY <1>1, <1>2

LEMMA NextKeeps == WebInv /\ [WebNext]_webVars => WebInv'
<1> SUFFICES ASSUME WebInv, [WebNext]_webVars PROVE WebInv' OBVIOUS
<1>1. CASE UNCHANGED webVars
  BY <1>1 DEF webVars, WebInv, WebTypeOK, Counted, Fresh, Built, CacheSound, Pending, HasKey
<1>2. ASSUME NEW t \in Threads, PullFails(t) PROVE WebInv'
  BY <1>2, AnswerKeeps DEF PullFails
<1> QED
  BY <1>1, <1>2, PullKeeps, FetchedKeeps, ClearKeeps, UpdateKeeps, OpenFileKeeps, WriteFileKeeps,
     StartKeeps, ReadKeeps, ProfileKeeps, DropKeeps, KeepKeeps, SaveKeeps, DeleteRunsKeeps,
     RestartKeeps, TickKeeps DEF WebNext

\* Every value stays of its type, whatever the threads do.
THEOREM WebTypeCorrect == WebSpec => []WebTypeOK
<1>1. WebInv => WebTypeOK BY DEF WebInv
<1> QED BY <1>1, InitInv, NextKeeps, PTL DEF WebSpec

\* For any number of threads, pulls and requests: profiles cached for the
\* snapshot in memory were built from it (dg_subnet_profiles).
THEOREM CacheIsSound == WebSpec => []CacheSound
<1>1. WebInv => CacheSound BY DEF WebInv
<1> QED BY <1>1, InitInv, NextKeeps, PTL DEF WebSpec

-----------------------------------------------------------------------------
(* Labels of saved runs                                                     *)

Seen(sh, s) == {sh[s][i] : i \in DOMAIN sh[s]} \cup {Nothing}
Sooner(sh, s, p, q) == \E i, j \in DOMAIN sh[s] : i < j /\ sh[s][i] = p /\ sh[s][j] = q
Follows(sh, s, p, q) == q # Nothing => q = p \/ Sooner(sh, s, p, q)

Placing == {"routing", "tables", "history", "key", "cached", "build", "drop", "keep", "profiles",
            "historyLabel", "routingLabel"}
Ready == {"create", "save"}

\* What a request has read was in memory since the server started; a label is
\* read after what it is a label of.
Good(r, sh) ==
    /\ r.of \in Seen(sh, "snapshot") /\ r.dgs \in Seen(sh, "snapshot")
    /\ r.tables \in Seen(sh, "topology")
    /\ r.at \in Placing => r.dgs = Nothing
    /\ r.at \in {"label", "drop", "keep", "historyLabel"} \/ (r.at = "groups" /\ r.kind # "search")
           => r.of # Nothing
    /\ r.at \notin Ready => r.topology = Nothing
    /\ r.at \notin Ready \cup {"routingLabel"} => r.label = Nothing
    /\ r.at \in Ready \cup {"routingLabel"} => Follows(sh, "snapshot", r.of, r.label)
    /\ r.at \in Ready => /\ r.dgs # Nothing => r.dgs = r.label \/ Sooner(sh, "snapshot", r.dgs, r.label)
                         /\ Follows(sh, "topology", r.tables, r.topology)

\* The newest pull shown is the one in memory, and the cache holds one shown.
TellInv ==
    /\ shown \in [Stores -> Seq(Numbers)]
    /\ \A s \in Stores : memory[s] # Nothing => /\ shown[s] # <<>>
                                                /\ memory[s] = shown[s][Len(shown[s])]
    /\ cache.of \in Seen(shown, "snapshot")
    /\ cache.of = Nothing => cache = EmptyCache
    /\ \A t \in Threads : Good(req[t], shown)

LEMMA TellInit == WebInit => TellInv
<1> SUFFICES ASSUME WebInit PROVE TellInv
  OBVIOUS
<1>1. \A s \in Stores : shown[s] = <<>> /\ shown[s] \in Seq(Numbers)
  BY DEF WebInit
<1>2. Good(NoRequest, shown)
  BY DEF Good, NoRequest, Seen, Placing, Ready, Follows
<1> QED BY <1>1, <1>2 DEF WebInit, TellInv, EmptyCache, Seen

LEMMA NobodyGood == ASSUME NEW sh PROVE Good(NoRequest, sh)
BY DEF Good, NoRequest, Seen, Placing, Ready, Follows

\* What a store holds was shown last.
LEMMA MemoryShown ==
    ASSUME TellInv, NEW s \in Stores
    PROVE  /\ memory[s] \in Seen(shown, s)
           /\ \A p \in Seen(shown, s) :
                  p # Nothing /\ memory[s] # Nothing
                      => p = memory[s] \/ Sooner(shown, s, p, memory[s])
<1>1. shown[s] \in Seq(Numbers) BY DEF TellInv
<1>2. memory[s] # Nothing => /\ Len(shown[s]) \in DOMAIN shown[s]
                             /\ memory[s] = shown[s][Len(shown[s])]
  BY <1>1 DEF TellInv
<1>3. ASSUME NEW p \in Seen(shown, s), p # Nothing, memory[s] # Nothing
      PROVE  p = memory[s] \/ Sooner(shown, s, p, memory[s])
  <2>1. PICK i \in DOMAIN shown[s] : shown[s][i] = p
    BY <1>3 DEF Seen
  <2>2. i = Len(shown[s]) \/ i < Len(shown[s])
    BY <1>1
  <2> QED BY <1>2, <1>3, <2>1, <2>2 DEF Sooner
<1> QED BY <1>2, <1>3 DEF Seen

\* What is good stays so when another pull is shown.
LEMMA StaysGood ==
    ASSUME TellInv, NEW s \in Stores, NEW p \in Numbers, NEW r, Good(r, shown)
    PROVE  LET sh == [shown EXCEPT ![s] = Append(@, p)] IN
           /\ Good(r, sh) /\ Seen(shown, "snapshot") \subseteq Seen(sh, "snapshot")
<1> DEFINE sh == [shown EXCEPT ![s] = Append(@, p)]
<1>1. \A u \in Stores : /\ DOMAIN shown[u] \subseteq DOMAIN sh[u]
                        /\ \A i \in DOMAIN shown[u] : sh[u][i] = shown[u][i]
  BY DEF TellInv
<1> HIDE DEF sh
<1>2. \A u \in Stores : Seen(shown, u) \subseteq Seen(sh, u)
  BY <1>1 DEF Seen
<1>3. \A u \in Stores : \A a, b : Sooner(shown, u, a, b) => Sooner(sh, u, a, b)
  BY <1>1 DEF Sooner
<1>4. "snapshot" \in Stores /\ "topology" \in Stores
  BY DEF Stores
<1>5. Good(r, sh)
  BY <1>2, <1>3, <1>4 DEF Good, Follows
<1> QED BY <1>2, <1>4, <1>5 DEF sh

\* One request goes on, and the stores stay.
LEMMA OneGoesOn ==
    ASSUME WebInv, TellInv, NEW t \in Threads, NEW r, Good(r, shown), req' = [req EXCEPT ![t] = r],
           UNCHANGED <<memory, shown>>, cache' = cache \/ cache' = EmptyCache
    PROVE  TellInv'
<1>1. EmptyCache.of = Nothing /\ Nothing \in Seen(shown, "snapshot")
  BY DEF EmptyCache, Seen
<1> QED BY <1>1 DEF WebInv, WebTypeOK, TellInv

LEMMA RequestShape ==
    ASSUME WebInv, TellInv, NEW t \in Threads
    PROVE  /\ req[t] \in Requests /\ Good(req[t], shown) /\ Good(NoRequest, shown)
           /\ memory["snapshot"] \in Seen(shown, "snapshot")
           /\ memory["topology"] \in Seen(shown, "topology")
           /\ Nothing \in Seen(shown, "snapshot") /\ Nothing \in Seen(shown, "topology")
BY NobodyGood, MemoryShown DEF WebInv, WebTypeOK, TellInv, Stores, Seen

\* Steps between which nothing of a pull is read.
LEMMA PullsTell ==
    ASSUME WebInv, TellInv, NEW t \in Threads,
           \/ Pull(t) \/ PullFails(t) \/ Fetched(t) \/ OpenFile(t) \/ WriteFile(t)
    PROVE  TellInv'
<1>1. UNCHANGED <<memory, shown, cache>>
  BY DEF Pull, PullFails, Fetched, OpenFile, WriteFile
<1>2. \E r : Good(r, shown) /\ req' = [req EXCEPT ![t] = r]
  <2>1. CASE Pull(t)
    <3>1. PICK s \in Stores : req' = [req EXCEPT ![t] = [NoRequest EXCEPT !.at = "fetch", !.store = s]]
      BY <2>1 DEF Pull, Begins
    <3>2. Good([NoRequest EXCEPT !.at = "fetch", !.store = s], shown)
      BY DEF Good, NoRequest, Seen, Placing, Ready, Follows
    <3> QED BY <3>1, <3>2
  <2>2. CASE PullFails(t) \/ WriteFile(t)
    BY <2>2, RequestShape DEF PullFails, WriteFile, Answered
  <2>3. CASE Fetched(t)
    <3>1. Good([req[t] EXCEPT !.at = "clear", !.pull = pulls + 1], shown)
      BY <2>3, RequestShape DEF Fetched, At, Good, Requests, Placing, Ready
    <3> QED BY <2>3, <3>1 DEF Fetched
  <2>4. CASE OpenFile(t)
    <3>1. Good([req[t] EXCEPT !.at = "write"], shown)
      BY <2>4, RequestShape DEF OpenFile, At, Good, Requests, Placing, Ready
    <3> QED BY <2>4, <3>1 DEF OpenFile, Goes
  <2> QED BY <2>1, <2>2, <2>3, <2>4
<1> QED BY <1>1, <1>2, OneGoesOn

\* A store is cleared, and shows the next pull.
LEMMA StoreTells ==
    ASSUME WebInv, TellInv, NEW t \in Threads, Clear(t) \/ Update(t)
    PROVE  TellInv'
<1>1. CASE Clear(t)
  <2>1. Good([req[t] EXCEPT !.at = "update"], shown)
    BY <1>1, RequestShape DEF Clear, At, Good, Requests, Placing, Ready
  <2> QED BY <1>1, <2>1 DEF Clear, Goes, WebInv, WebTypeOK, TellInv
<1>2. CASE Update(t)
  <2> DEFINE s == req[t].store
             p == req[t].pull
  <2>1. /\ s \in Stores /\ p \in Numbers /\ memory' = [memory EXCEPT ![s] = p]
        /\ shown' = [shown EXCEPT ![s] = Append(@, p)] /\ UNCHANGED cache
        /\ req' = [req EXCEPT ![t] = [req[t] EXCEPT !.at = "open"]]
    BY <1>2 DEF Update, At, Goes, WebInv, WebTypeOK, Requests
  <2>2. Good([req[t] EXCEPT !.at = "open"], shown)
    BY <1>2, RequestShape DEF Update, At, Good, Requests, Placing, Ready
  <2> HIDE DEF s, p
  <2>3. \A r : Good(r, shown) => Good(r, shown')
    BY <2>1, StaysGood
  <2>4. Seen(shown, "snapshot") \subseteq Seen(shown', "snapshot")
    BY <2>1, <2>2, StaysGood
  <2>5. /\ shown' \in [Stores -> Seq(Numbers)]
        /\ \A u \in Stores : memory'[u] # Nothing => /\ shown'[u] # <<>>
                                                     /\ memory'[u] = shown'[u][Len(shown'[u])]
    <3> DEFINE q == Append(shown[s], p)
    <3>1. shown \in [Stores -> Seq(Numbers)] /\ memory \in [Stores -> Numbers]
      BY DEF TellInv, WebInv, WebTypeOK
    <3>2. q \in Seq(Numbers) /\ q # <<>> /\ q[Len(q)] = p
      BY <2>1, <3>1
    <3>3. \A u \in Stores : /\ shown'[u] = IF u = s THEN q ELSE shown[u]
                            /\ memory'[u] = IF u = s THEN p ELSE memory[u]
      BY <2>1, <3>1
    <3>4. shown' = [shown EXCEPT ![s] = q]
      BY <2>1
    <3> HIDE DEF q
    <3>5. shown' \in [Stores -> Seq(Numbers)]
      BY <3>1, <3>2, <3>4
    <3> QED BY <3>2, <3>3, <3>5 DEF TellInv
  <2>6. \A u \in Threads : Good(req'[u], shown')
    BY <2>1, <2>2, <2>3 DEF WebInv, WebTypeOK, TellInv
  <2> QED BY <2>1, <2>4, <2>5, <2>6 DEF TellInv
<1> QED BY <1>1, <1>2

LEMMA BeginsTell ==
    ASSUME WebInv, TellInv, NEW t \in Threads, Search(t) \/ Flow(t) \/ Placement(t) \/ SubnetMap(t)
    PROVE  TellInv'
<1>1. UNCHANGED <<memory, shown, cache>>
  BY DEF Search, Flow, Placement, SubnetMap
<1>2. \A a \in {"rules", "routing", "history"} : \A k :
          Good([NoRequest EXCEPT !.at = a, !.kind = k], shown)
  BY DEF Good, NoRequest, Seen, Placing, Ready, Follows
<1>3. Good([NoRequest EXCEPT !.at = "groups", !.kind = "search"], shown)
  BY DEF Good, NoRequest, Seen, Placing, Ready, Follows
<1>4. \E r : Good(r, shown) /\ req' = [req EXCEPT ![t] = r]
  BY <1>2, <1>3 DEF Search, Flow, Placement, SubnetMap, Begins
<1> QED BY <1>1, <1>4, OneGoesOn

\* A search and a flow match read the rules and the groups, then the label.
LEMMA SearchTells ==
    ASSUME WebInv, TellInv, NEW t \in Threads, ReadGroups(t) \/ ReadRules(t) \/ ReadLabel(t)
    PROVE  TellInv'
<1>1. UNCHANGED <<memory, shown, cache>>
  BY DEF ReadGroups, ReadRules, ReadLabel
<1>2. \E r : Good(r, shown) /\ req' = [req EXCEPT ![t] = r]
  <2>1. CASE ReadGroups(t)
    <3> DEFINE r == [req[t] EXCEPT !.dgs = memory["snapshot"],
                                   !.at = IF req[t].kind = "search" THEN "rules" ELSE "label"]
    <3>1. req[t].at = "groups" /\ (req[t].kind # "search" => req[t].of # Nothing)
      BY <2>1, RequestShape DEF ReadGroups, At, Good
    <3>3. Good(r, shown)
      BY <3>1, RequestShape DEF Good, Requests, Placing, Ready
    <3> QED BY <2>1, <3>3, RequestShape DEF ReadGroups, Reads
  <2>2. CASE ReadRules(t)
    <3> DEFINE r == [req[t] EXCEPT !.of = memory["snapshot"],
                                   !.at = IF req[t].kind = "search" THEN "label" ELSE "groups"]
    <3>1. memory["snapshot"] # Nothing => Good(r, shown)
      BY <2>2, RequestShape DEF ReadRules, At, Good, Requests, Placing, Ready
    <3> QED BY <2>2, <3>1, RequestShape DEF ReadRules, Reads
  <2>3. CASE ReadLabel(t)
    <3> DEFINE r == [req[t] EXCEPT !.label = memory["snapshot"], !.second = second, !.at = "create"]
    <3>1. memory["snapshot"] # Nothing => Good(r, shown)
      <4>1. req[t].at = "label" /\ req[t].of # Nothing /\ req[t].topology = Nothing
        BY <2>3, RequestShape DEF ReadLabel, At, Good, Ready
      <4>2. "snapshot" \in Stores BY DEF Stores
      <4>3. memory["snapshot"] # Nothing =>
              /\ Follows(shown, "snapshot", req[t].of, memory["snapshot"])
              /\ req[t].dgs # Nothing => \/ req[t].dgs = memory["snapshot"]
                                         \/ Sooner(shown, "snapshot", req[t].dgs, memory["snapshot"])
        BY <4>1, <4>2, RequestShape, MemoryShown DEF Good, Follows
      <4>4. /\ r.of = req[t].of /\ r.dgs = req[t].dgs /\ r.tables = req[t].tables
            /\ r.topology = Nothing /\ r.label = memory["snapshot"] /\ r.at = "create"
        BY <4>1, RequestShape DEF Requests
      <4> HIDE DEF r
      <4>5. Follows(shown, "topology", r.tables, r.topology)
        BY <4>4 DEF Follows
      <4> QED BY <4>3, <4>4, <4>5, RequestShape DEF Good, Placing, Ready
    <3> QED BY <2>3, <3>1, RequestShape DEF ReadLabel, Reads
  <2> QED BY <2>1, <2>2, <2>3
<1> QED BY <1>1, <1>2, OneGoesOn

\* A placement reads the routing, the profiles, and then their labels.
LEMMA PlacementTells ==
    ASSUME WebInv, TellInv, NEW t \in Threads,
           \/ RoutingThere(t) \/ ReadTables(t) \/ HistoryThere(t) \/ ReadKey(t) \/ TestCache(t)
           \/ Build(t) \/ Drop(t) \/ ReadProfiles(t) \/ ReadHistoryLabel(t) \/ ReadRoutingLabel(t)
    PROVE  TellInv'
<1>1. UNCHANGED <<memory, shown>> /\ (cache' = cache \/ cache' = EmptyCache)
  BY DEF RoutingThere, ReadTables, HistoryThere, ReadKey, TestCache, Build, Drop, ReadProfiles,
         ReadHistoryLabel, ReadRoutingLabel
<1>2. \E r : Good(r, shown) /\ req' = [req EXCEPT ![t] = r]
  <2>1. CASE RoutingThere(t)
    <3>1. \A a \in {"history", "tables"} : Good([req[t] EXCEPT !.at = a], shown)
      BY <2>1, RequestShape DEF RoutingThere, At, Good, Requests, Placing, Ready
    <3> QED BY <2>1, <3>1 DEF RoutingThere, Goes
  <2>2. CASE ReadTables(t)
    <3>1. Good([req[t] EXCEPT !.tables = memory["topology"], !.at = "history"], shown)
      BY <2>2, RequestShape DEF ReadTables, At, Good, Requests, Placing, Ready
    <3> QED BY <2>2, <3>1, RequestShape DEF ReadTables, Reads
  <2>3. CASE HistoryThere(t)
    <3>1. \A a \in {"key", "routingLabel"} : Good([req[t] EXCEPT !.at = a], shown)
      BY <2>3, RequestShape DEF HistoryThere, At, Good, Requests, Placing, Ready, Follows
    <3> QED BY <2>3, <3>1, RequestShape DEF HistoryThere, Goes, Answered
  <2>4. CASE ReadKey(t)
    <3>1. Good([req[t] EXCEPT !.key = memory["snapshot"], !.at = "cached"], shown)
      BY <2>4, RequestShape DEF ReadKey, At, Good, Requests, Placing, Ready
    <3> QED BY <2>4, <3>1, RequestShape DEF ReadKey, Reads
  <2>5. CASE TestCache(t)
    <3>1. \A a \in {"profiles", "build"} : Good([req[t] EXCEPT !.at = a], shown)
      BY <2>5, RequestShape DEF TestCache, At, Good, Requests, Placing, Ready
    <3> QED BY <2>5, <3>1 DEF TestCache, Goes
  <2>6. CASE Build(t)
    <3>1. memory["snapshot"] # Nothing =>
              Good([req[t] EXCEPT !.of = memory["snapshot"], !.at = "drop"], shown)
      BY <2>6, RequestShape DEF Build, At, Good, Requests, Placing, Ready
    <3> QED BY <2>6, <3>1, RequestShape DEF Build, Reads
  <2>7. CASE Drop(t)
    <3>1. Good([req[t] EXCEPT !.at = "keep"], shown)
      BY <2>7, RequestShape DEF Drop, At, Good, Requests, Placing, Ready
    <3> QED BY <2>7, <3>1 DEF Drop, Goes
  <2>8. CASE ReadProfiles(t)
    <3>1. cache # EmptyCache => cache.of # Nothing /\ cache.of \in Seen(shown, "snapshot")
      BY DEF TellInv
    <3>2. cache # EmptyCache => Good([req[t] EXCEPT !.of = cache.of, !.at = "historyLabel"], shown)
      BY <2>8, <3>1, RequestShape DEF ReadProfiles, At, Good, Requests, Placing, Ready
    <3> QED BY <2>8, <3>2, RequestShape DEF ReadProfiles
  <2>9. CASE ReadHistoryLabel(t)
    <3> DEFINE r == [req[t] EXCEPT !.label = memory["snapshot"], !.at = "routingLabel"]
    <3>1. memory["snapshot"] # Nothing => Good(r, shown)
      <4>1. req[t].at = "historyLabel" /\ req[t].of # Nothing
        BY <2>9, RequestShape DEF ReadHistoryLabel, At, Good
      <4>2. "snapshot" \in Stores BY DEF Stores
      <4>3. memory["snapshot"] # Nothing => Follows(shown, "snapshot", req[t].of, memory["snapshot"])
        BY <4>1, <4>2, RequestShape, MemoryShown DEF Good, Follows
      <4> QED BY <4>1, <4>3, RequestShape DEF Good, Requests, Placing, Ready
    <3> QED BY <2>9, <3>1, RequestShape DEF ReadHistoryLabel, Reads, Answered
  <2>10. CASE ReadRoutingLabel(t)
    <3> DEFINE r == [req[t] EXCEPT !.second = second, !.at = "create"]
               u == [r EXCEPT !.topology = memory["topology"]]
    <3>1. /\ req[t].at = "routingLabel" /\ req[t].dgs = Nothing /\ req[t].topology = Nothing
          /\ Follows(shown, "snapshot", req[t].of, req[t].label)
      BY <2>10, RequestShape DEF ReadRoutingLabel, At, Good, Placing, Ready
    <3>2. Good(r, shown)
      BY <3>1, RequestShape DEF Good, Requests, Placing, Ready, Follows
    <3>3. req[t].tables # Nothing /\ memory["topology"] # Nothing => Good(u, shown)
      <4>1. "topology" \in Stores BY DEF Stores
      <4>2. req[t].tables # Nothing /\ memory["topology"] # Nothing
                => Follows(shown, "topology", req[t].tables, memory["topology"])
        BY <4>1, RequestShape, MemoryShown DEF Good, Follows
      <4> QED BY <3>1, <4>2, RequestShape DEF Good, Requests, Placing, Ready
    <3>4. r.tables = req[t].tables
      BY RequestShape DEF Requests
    <3> QED BY <2>10, <3>2, <3>3, <3>4, RequestShape DEF ReadRoutingLabel, Reads
  <2> QED BY <2>1, <2>2, <2>3, <2>4, <2>5, <2>6, <2>7, <2>8, <2>9, <2>10
<1> QED BY <1>1, <1>2, OneGoesOn

LEMMA KeepTells == ASSUME WebInv, TellInv, NEW t \in Threads, Keep(t) PROVE TellInv'
<1>1. Good([req[t] EXCEPT !.at = "profiles"], shown)
  BY RequestShape DEF Keep, At, Good, Requests, Placing, Ready
<1>2. req[t].of # Nothing /\ req[t].of \in Seen(shown, "snapshot")
  BY RequestShape DEF Keep, At, Good
<1>3. cache' = [key |-> req[t].key, of |-> req[t].of] /\ UNCHANGED <<memory, shown>>
      /\ req' = [req EXCEPT ![t] = [req[t] EXCEPT !.at = "profiles"]]
  BY DEF Keep, Goes
<1>4. \A u \in Threads : Good(req'[u], shown)
  BY <1>1, <1>3 DEF WebInv, WebTypeOK, TellInv
<1> QED BY <1>2, <1>3, <1>4 DEF TellInv

LEMMA SaveTells == ASSUME WebInv, TellInv, NEW t \in Threads, Create(t) \/ Save(t) PROVE TellInv'
<1>1. CASE Create(t)
  <2>1. Good([req[t] EXCEPT !.at = "save"], shown)
    BY <1>1, RequestShape DEF Create, At, Good, Requests, Placing, Ready
  <2> QED BY <1>1, <2>1, OneGoesOn DEF Create, Goes
<1>2. CASE Save(t)
  BY <1>2, RequestShape, OneGoesOn DEF Save, Answered
<1> QED BY <1>1, <1>2

LEMMA DeleteRunsTells == ASSUME WebInv, TellInv, DeleteRuns PROVE TellInv'
<1>1. UNCHANGED <<memory, shown, cache>>
  BY DEF DeleteRuns
<1>2. \A t \in Threads : Good(req'[t], shown)
  <2> SUFFICES ASSUME NEW t \in Threads PROVE Good(req'[t], shown)
    OBVIOUS
  <2>1. req'[t] = req[t] \/ req'[t] = [req[t] EXCEPT !.second = 0]
    BY DEF DeleteRuns
  <2>2. Good([req[t] EXCEPT !.second = 0], shown)
    BY RequestShape DEF Good, Requests
  <2> QED BY <2>1, <2>2, RequestShape
<1> QED BY <1>1, <1>2 DEF TellInv

LEMMA RestartTells == ASSUME WebInv, TellInv, Restart PROVE TellInv'
<1>1. /\ \A s \in Stores : memory'[s] \in Numbers
      /\ shown' = [s \in Stores |-> IF memory'[s] = Nothing THEN <<>> ELSE <<memory'[s]>>]
      /\ cache' = EmptyCache /\ req' = [t \in Threads |-> NoRequest]
  BY BoundsAssumption DEF Restart, WebInv, WebTypeOK, Nothing, Numbers
<1>2. \A s \in Stores : /\ shown'[s] \in Seq(Numbers)
                        /\ memory'[s] # Nothing => /\ shown'[s] # <<>>
                                                   /\ memory'[s] = shown'[s][Len(shown'[s])]
  BY <1>1
<1>3. shown' \in [Stores -> Seq(Numbers)]
  BY <1>1, <1>2
<1>4. \A t \in Threads : Good(req'[t], shown')
  BY <1>1, NobodyGood
<1> QED BY <1>1, <1>2, <1>3, <1>4 DEF TellInv, EmptyCache, Seen

LEMMA NextTells == WebInv /\ TellInv /\ [WebNext]_webVars => TellInv'
<1> SUFFICES ASSUME WebInv, TellInv, [WebNext]_webVars PROVE TellInv' OBVIOUS
<1>1. CASE UNCHANGED webVars
  BY <1>1 DEF webVars, TellInv
<1>2. CASE Tick
  BY <1>2 DEF Tick, TellInv
<1> QED
  BY <1>1, <1>2, PullsTell, StoreTells, BeginsTell, SearchTells, PlacementTells, KeepTells, SaveTells,
     DeleteRunsTells, RestartTells DEF WebNext

\* A run that is written names the pulls of its request.
LEMMA SavedTells ==
    ASSUME WebInv, TellInv, NEW t \in Threads, Save(t), NEW p \in DOMAIN runs',
           p \notin DOMAIN runs \/ runs'[p] # runs[p], runs'[p] # Torn
    PROVE  LabelTells(runs'[p])
<1>1. PICK w \in {RunOf(req[t]), Torn} : runs' = With(Place(t), w)
  BY DEF Save
<1>2. runs'[p] = RunOf(req[t])
  BY <1>1 DEF With
<1>3. Good(req[t], shown) /\ req[t].at \in Ready
  BY RequestShape DEF Save, At, Ready
<1>4. LabelTells(RunOf(req[t]))
  BY <1>3 DEF Good, Follows, Sooner, LabelTells, Older, RunOf
<1> QED BY <1>2, <1>4

\* Whatever is pulled, searched, deleted and restarted at the same time: the
\* label of a run that is saved is the pull it was computed from, or a later one.
THEOREM SavedRunsTell == WebSpec => RunsTell
<1>1. ASSUME WebInv, TellInv, [WebNext]_webVars
      PROVE  [\A p \in DOMAIN runs' : (p \notin DOMAIN runs \/ runs'[p] # runs[p]) /\ runs'[p] # Torn
                  => LabelTells(runs'[p])]_webVars
  <2> SUFFICES ASSUME WebNext, NEW p \in DOMAIN runs', p \notin DOMAIN runs \/ runs'[p] # runs[p],
                      runs'[p] # Torn
               PROVE  LabelTells(runs'[p])
    BY <1>1
  <2>1. runs' # runs
    OBVIOUS
  <2>2. ~DeleteRuns
    BY DEF DeleteRuns
  <2>3. \A t \in Threads : ~Create(t)
    BY DEF Create, With
  <2>4. PICK t \in Threads : Save(t)
    BY <2>1, <2>2, <2>3 DEF WebNext, Pull, PullFails, Fetched, Clear, Update, OpenFile, WriteFile, Search,
       Flow, ReadGroups, ReadRules, ReadLabel, Placement, SubnetMap, RoutingThere, ReadTables,
       HistoryThere, ReadKey, TestCache, Build, Drop, Keep, ReadProfiles, ReadHistoryLabel,
       ReadRoutingLabel, Restart, Tick
  <2> QED BY <1>1, <2>4, SavedTells
<1> QED BY <1>1, InitInv, NextKeeps, TellInit, NextTells, PTL DEF WebSpec, RunsTell

-----------------------------------------------------------------------------
(* MigrationRequest.                                                        *)

\* The baselines of object o, each known by its refresh, step and place.
PlacesOf(o) == {e \in (DOMAIN refreshes) \X StepNames \X Nat :
                    Writes[e[2]] = o /\ e[3] \in DOMAIN refreshes[e[1]].stacks[e[2]]}
BaselineAt(e) == refreshes[e[1]].stacks[e[2]][e[3]]

\* What a job may have to do: steps of its phase, each once.
Todo(phase, todo) ==
    /\ todo \in Seq(StepNames)
    /\ \A i \in DOMAIN todo : phase \in Phases /\ PhaseOf(todo[i]) = phase
    /\ \A i, j \in DOMAIN todo : i # j => todo[i] # todo[j]

\* A job works on a refresh there is; Absent is not mixed with marks.
MigrationTypeInv ==
    /\ MigrationTypeOK
    /\ Todo(job.phase, job.todo)
    /\ job.kind # "none" => job.dir \in DOMAIN refreshes
    /\ \A o \in Objects : \A e \in PlacesOf(o) :
           "absent" \in BaselineAt(e).was => BaselineAt(e).was = Absent

LEMMA StepFacts ==
    /\ StepNames = {"a1", "a2", "a3", "a4", "c3", "c5", "d2a", "d3"}
    /\ Phases = {"a", "c", "d2a", "d3"}
    /\ \A s \in StepNames : Writes[s] \in Objects
    /\ DOMAIN Amends = {"c5", "d3"}
    /\ \A s \in DOMAIN Amends : Amends[s] \in Objects
BY DEF StepNames, Phases, Writes, PhaseSteps, Amends, Objects

\* The steps of a phase, each once.
LEMMA PhaseIs ==
    /\ \A s \in {"a1", "a2", "a3", "a4"} : PhaseOf(s) = "a"
    /\ \A s \in {"c3", "c5"} : PhaseOf(s) = "c"
    /\ PhaseOf("d2a") = "d2a" /\ PhaseOf("d3") = "d3"
<1>1. /\ PhaseSteps["a"] = <<"a1", "a2", "a3", "a4">> /\ PhaseSteps["c"] = <<"c3", "c5">>
      /\ PhaseSteps["d2a"] = <<"d2a">> /\ PhaseSteps["d3"] = <<"d3">>
    BY DEF PhaseSteps
<1> DEFINE Of(s, p) == \E i \in DOMAIN PhaseSteps[p] : PhaseSteps[p][i] = s
<1>2. \A s : /\ Of(s, "a") <=> s \in {"a1", "a2", "a3", "a4"}
             /\ Of(s, "c") <=> s \in {"c3", "c5"}
             /\ Of(s, "d2a") <=> s = "d2a"
             /\ Of(s, "d3") <=> s = "d3"
    BY <1>1
<1>3. \A s : PhaseOf(s) = CHOOSE p \in {"a", "c", "d2a", "d3"} : Of(s, p)
    BY StepFacts DEF PhaseOf
<1> HIDE DEF Of
<1>4. \A s \in {"a1", "a2", "a3", "a4"} : \A p \in {"a", "c", "d2a", "d3"} : Of(s, p) <=> p = "a"
    BY <1>2
<1>5. \A s \in {"c3", "c5"} : \A p \in {"a", "c", "d2a", "d3"} : Of(s, p) <=> p = "c"
    BY <1>2
<1>6. \A s \in {"d2a", "d3"} : \A p \in {"a", "c", "d2a", "d3"} : Of(s, p) <=> p = s
    BY <1>2
<1> QED
    BY <1>3, <1>4, <1>5, <1>6

LEMMA NothingTodo == ASSUME NEW p PROVE Todo(p, <<>>)
BY DEF Todo

LEMMA PhaseTodo == ASSUME NEW p \in Phases PROVE Todo(p, PhaseSteps[p])
<1>1. CASE p = "a"
    <2>1. PhaseSteps[p] = <<"a1", "a2", "a3", "a4">>
        BY <1>1 DEF PhaseSteps
    <2> QED
        BY <1>1, <2>1, StepFacts, PhaseIs DEF Todo
<1>2. CASE p = "c"
    <2>1. PhaseSteps[p] = <<"c3", "c5">>
        BY <1>2 DEF PhaseSteps
    <2> QED
        BY <1>2, <2>1, StepFacts, PhaseIs DEF Todo
<1>3. CASE p \in {"d2a", "d3"}
    <2>1. PhaseSteps[p] = <<p>>
        BY <1>3 DEF PhaseSteps
    <2> QED
        BY <1>3, <2>1, StepFacts, PhaseIs DEF Todo
<1> QED
    BY <1>1, <1>2, <1>3, StepFacts

LEMMA ReverseTodo == ASSUME NEW p, NEW s, Todo(p, s) PROVE Todo(p, Reverse(s))
<1>1. s \in Seq(StepNames) /\ Len(s) \in Nat /\ DOMAIN s = 1 .. Len(s)
    BY DEF Todo
<1>2. Reverse(s) = [i \in 1 .. Len(s) |-> s[(Len(s) - i) + 1]]
    BY DEF Reverse
<1>3. \A i \in 1 .. Len(s) : (Len(s) - i) + 1 \in 1 .. Len(s) /\ s[(Len(s) - i) + 1] \in StepNames
    BY <1>1
<1>4. Reverse(s) \in Seq(StepNames) /\ DOMAIN Reverse(s) = 1 .. Len(s)
    BY <1>1, <1>2, <1>3
<1>5. \A i \in DOMAIN Reverse(s) : Reverse(s)[i] = s[(Len(s) - i) + 1]
    BY <1>2, <1>4
<1>6. \A i, j \in DOMAIN Reverse(s) : i # j => (Len(s) - i) + 1 # (Len(s) - j) + 1
    BY <1>1, <1>4
<1> QED
    BY <1>1, <1>3, <1>4, <1>5, <1>6 DEF Todo

LEMMA TailTodo == ASSUME NEW p, NEW s, Todo(p, s), s # <<>> PROVE Todo(p, Tail(s)) /\ Head(s) \in StepNames
<1>1. s \in Seq(StepNames) /\ Len(s) \in Nat /\ Len(s) > 0 /\ DOMAIN s = 1 .. Len(s)
    BY DEF Todo
<1>2. Tail(s) \in Seq(StepNames) /\ DOMAIN Tail(s) = 1 .. (Len(s) - 1) /\ Head(s) = s[1]
    BY <1>1
<1>3. \A i \in DOMAIN Tail(s) : Tail(s)[i] = s[i + 1] /\ i + 1 \in DOMAIN s
    BY <1>1, <1>2
<1>4. \A i, j \in DOMAIN Tail(s) : i # j => i + 1 # j + 1
    BY <1>2
<1> QED
    BY <1>1, <1>2, <1>3, <1>4 DEF Todo

-----------------------------------------------------------------------------
(* The clock.                                                               *)

\* Of all n for which some n numbers have no bound, take the least.
LEMMA Bounded ==
    ASSUME NEW n \in Nat, NEW f \in [1 .. n -> Nat]
    PROVE  \E b \in Nat : \A i \in 1 .. n : f[i] <= b
<1> DEFINE HasBound(m) == \A g \in [1 .. m -> Nat] : \E b \in Nat : \A i \in 1 .. m : g[i] <= b
           Bad == {m \in Nat : ~HasBound(m)}
<1>1. SUFFICES ASSUME Bad # {} PROVE FALSE
    BY DEF Bad
<1>2. PICK m \in Bad : \A k \in Bad : m <= k
    BY <1>1, LeastExists
<1>3. m \in Nat /\ ~HasBound(m) /\ \A k \in Nat : k < m => HasBound(k)
    <2> HIDE DEF HasBound
    <2>1. m \in Nat /\ ~HasBound(m)
        BY <1>2
    <2>2. ASSUME NEW k \in Nat, k < m, ~HasBound(k) PROVE FALSE
        BY <1>2, <2>1, <2>2
    <2> QED
        BY <2>1, <2>2
<1>11. m \in Nat
    BY <1>2
<1> HIDE DEF HasBound, Bad
<1>4. PICK g \in [1 .. m -> Nat] : ~ \E b \in Nat : \A i \in 1 .. m : g[i] <= b
    BY <1>3 DEF HasBound
<1>5. m # 0
    <2>1. CASE m = 0
        <3>1. 1 .. m = {}
            BY <2>1
        <3> QED
            BY <1>4, <3>1
    <2> QED
        BY <2>1
<1>6. HasBound(m - 1)
    BY <1>3, <1>5
<1> DEFINE h == [i \in 1 .. m - 1 |-> g[i]]
<1>7. h \in [1 .. m - 1 -> Nat] /\ \A i \in 1 .. m - 1 : h[i] = g[i]
    BY <1>11
<1>8. PICK b \in Nat : \A i \in 1 .. m - 1 : h[i] <= b
    <2> HIDE DEF h
    <2> QED
        BY <1>6, <1>7 DEF HasBound
<1>9. m \in 1 .. m /\ g[m] \in Nat /\ b + g[m] \in Nat
    BY <1>11, <1>5
<1>10. ASSUME NEW i \in 1 .. m PROVE g[i] <= b + g[m]
    <2>1. CASE i = m
        BY <1>9, <2>1
    <2>2. CASE i # m
        <3>1. i \in 1 .. m - 1 /\ g[i] \in Nat
            BY <1>11, <2>2
        <3>2. g[i] <= b
            BY <1>7, <1>8, <3>1
        <3> QED
            BY <1>9, <3>1, <3>2
    <2> QED
        BY <2>1, <2>2
<1> QED
    BY <1>4, <1>9, <1>10

LEMMA FiniteMax ==
    ASSUME NEW S \in SUBSET Nat, IsFiniteSet(S), S # {}
    PROVE  Max(S) \in S /\ \A k \in S : k <= Max(S)
<1>1. PICK f \in Bijection(1 .. Cardinality(S), S) : TRUE
    BY FS_CardinalityType DEF ExistsBijection
<1>2. Cardinality(S) \in Nat /\ f \in [1 .. Cardinality(S) -> Nat]
      /\ \A k \in S : \E i \in 1 .. Cardinality(S) : f[i] = k
    BY <1>1, FS_CardinalityType DEF Bijection, Surjection
<1>3. PICK b \in Nat : \A i \in 1 .. Cardinality(S) : f[i] <= b
    BY <1>2, Bounded
<1>4. \A k \in S : k <= b
    BY <1>2, <1>3
<1> DEFINE T == {i \in 0 .. b : b - i \in S}
<1>5. \A k \in S : b - k \in T
    <2>1. ASSUME NEW k \in S PROVE b - k \in 0 .. b /\ b - (b - k) = k
        BY <1>4
    <2> QED
        BY <2>1
<1>6. T \in SUBSET Nat /\ T # {}
    <2>1. PICK k \in S : TRUE
        OBVIOUS
    <2>2. b - k \in T
        BY <1>5, <2>1
    <2>3. T \in SUBSET Nat
        OBVIOUS
    <2> HIDE DEF T
    <2> QED
        BY <2>2, <2>3
<1>7. PICK m \in T : \A k \in T : m <= k
    BY <1>6, LeastExists
<1>8. b - m \in S /\ \A k \in S : b - m >= k
    BY <1>4, <1>5, <1>7
<1>9. Max(S) \in S /\ \A k \in S : Max(S) >= k
    BY <1>8 DEF Max
<1> QED
    BY <1>9

LEMMA StackType ==
    ASSUME MigrationTypeOK, NEW d \in DOMAIN refreshes, NEW s \in StepNames
    PROVE  /\ refreshes[d] \in Run /\ refreshes[d].stacks[s] \in Seq(Saved)
           /\ \A i \in DOMAIN refreshes[d].stacks[s] : refreshes[d].stacks[s][i] \in Saved
<1>1. refreshes[d] \in Run
    BY DEF MigrationTypeOK
<1>2. refreshes[d].stacks[s] \in Seq(Saved)
    BY <1>1 DEF Run
<1> QED
    BY <1>1, <1>2

LEMMA ClockIsLater ==
    ASSUME MigrationTypeOK, NEW s \in StepNames
    PROVE  /\ Clock(s) \in Nat
           /\ \A d \in DOMAIN refreshes, t \in StepNames : Site(t) = Site(s) =>
                  \A i \in DOMAIN refreshes[d].stacks[t] : refreshes[d].stacks[t][i].at < Clock(s)
<1> DEFINE X == (DOMAIN refreshes) \X StepNames
           TimesAt(x) == {refreshes[x[1]].stacks[x[2]][i].at : i \in DOMAIN refreshes[x[1]].stacks[x[2]]}
           Y == {x \in X : Site(x[2]) = Site(s)}
           Z == {TimesAt(x) : x \in Y}
<1>1. Times(Site(s)) = UNION Z
    <2>1. \A n : n \in Times(Site(s)) <=>
              \E d \in DOMAIN refreshes : \E t \in StepNames : Site(t) = Site(s) /\ n \in TimesAt(<<d, t>>)
        <3> DEFINE W(d, t) == {refreshes[d].stacks[t][i].at : i \in DOMAIN refreshes[d].stacks[t]}
        <3>1. Times(Site(s)) = UNION {W(d, t) : d \in DOMAIN refreshes, t \in {t \in StepNames : Site(t) = Site(s)}}
            BY DEF Times
        <3>2. \A d, t : W(d, t) = TimesAt(<<d, t>>)
            OBVIOUS
        <3> HIDE DEF W, TimesAt
        <3> DEFINE V == {t \in StepNames : Site(t) = Site(s)}
        <3>3. \A t : t \in V <=> t \in StepNames /\ Site(t) = Site(s)
            OBVIOUS
        <3> HIDE DEF V
        <3>4. \A n : n \in UNION {W(d, t) : d \in DOMAIN refreshes, t \in V} <=>
                  \E d \in DOMAIN refreshes : \E t \in V : n \in W(d, t)
            OBVIOUS
        <3>5. Times(Site(s)) = UNION {W(d, t) : d \in DOMAIN refreshes, t \in V}
            BY <3>1 DEF V
        <3>6. \A n : n \in Times(Site(s)) <=>
                  \E d \in DOMAIN refreshes : \E t \in V : n \in W(d, t)
            BY <3>4, <3>5
        <3>7. \A d, t, n : n \in W(d, t) <=> n \in TimesAt(<<d, t>>)
            BY <3>2
        <3> QED
            BY <3>3, <3>6, <3>7
    <2>2. \A n : n \in UNION Z <=> \E x \in Y : n \in TimesAt(x)
        <3> HIDE DEF TimesAt, Y
        <3> QED
            OBVIOUS
    <2> HIDE DEF TimesAt, Z
    <2>3. ASSUME NEW n, NEW d \in DOMAIN refreshes, NEW t \in StepNames, Site(t) = Site(s), n \in TimesAt(<<d, t>>)
          PROVE  \E x \in Y : n \in TimesAt(x)
        <3>1. <<d, t>> \in Y
            BY <2>3
        <3> QED
            BY <2>3, <3>1
    <2>4. ASSUME NEW n, NEW x \in Y, n \in TimesAt(x)
          PROVE  \E d \in DOMAIN refreshes : \E t \in StepNames : Site(t) = Site(s) /\ n \in TimesAt(<<d, t>>)
        <3>1. x = <<x[1], x[2]>> /\ x[1] \in DOMAIN refreshes /\ x[2] \in StepNames /\ Site(x[2]) = Site(s)
            OBVIOUS
        <3> QED
            BY <2>4, <3>1
    <2> HIDE DEF Y
    <2>5. \A n : n \in Times(Site(s)) <=> n \in UNION Z
        BY <2>1, <2>2, <2>3, <2>4
    <2> QED
        BY <2>5
<1>2. IsFiniteSet(Y)
    <2>1. IsFiniteSet(DOMAIN refreshes)
        BY FS_Interval DEF MigrationTypeOK
    <2>2. IsFiniteSet(StepNames)
        <3> DEFINE names == <<"a1", "a2", "a3", "a4", "c3", "c5", "d2a", "d3">>
        <3>1. names \in Surjection(1 .. 8, StepNames)
            BY StepFacts DEF Surjection
        <3> QED
            <4>1. IsFiniteSet(1 .. 8)
                <5>1. \A n \in Nat : IsFiniteSet(1 .. n)
                    BY FS_Interval
                <5> QED
                    BY <5>1
            <4> HIDE DEF names
            <4> QED
                BY <3>1, <4>1, FS_Surjection
    <2>3. IsFiniteSet(X)
        BY <2>1, <2>2, FS_Product
    <2> QED
        BY <2>3, FS_Subset
<1>3. \A x \in Y : IsFiniteSet(TimesAt(x)) /\ TimesAt(x) \in SUBSET Nat
    <2>1. SUFFICES ASSUME NEW x \in Y PROVE IsFiniteSet(TimesAt(x)) /\ TimesAt(x) \in SUBSET Nat
        OBVIOUS
    <2> DEFINE st == refreshes[x[1]].stacks[x[2]]
               f == [i \in DOMAIN st |-> st[i].at]
    <2>2. st \in Seq(Saved) /\ \A i \in DOMAIN st : st[i] \in Saved
        BY StackType
    <2>3. TimesAt(x) \in SUBSET Nat
        BY <2>2 DEF Saved
    <2>4. f \in Surjection(DOMAIN st, TimesAt(x))
        BY DEF Surjection
    <2>5. IsFiniteSet(DOMAIN st)
        BY <2>2, FS_Interval
    <2> HIDE DEF st, f, TimesAt
    <2>6. IsFiniteSet(TimesAt(x))
        BY <2>4, <2>5, FS_Surjection
    <2> QED
        BY <2>3, <2>6
<1>4. IsFiniteSet(Z)
    <2> HIDE DEF Y, TimesAt
    <2>1. [x \in Y |-> TimesAt(x)] \in Surjection(Y, Z)
        BY DEF Surjection
    <2> QED
        BY <1>2, <2>1, FS_Surjection
<1>5. IsFiniteSet(Times(Site(s))) /\ Times(Site(s)) \in SUBSET Nat
    <2> HIDE DEF Y, TimesAt
    <2> QED
        BY <1>1, <1>3, <1>4, FS_UNION
<1>6. ASSUME NEW d \in DOMAIN refreshes, NEW t \in StepNames, Site(t) = Site(s),
             NEW i \in DOMAIN refreshes[d].stacks[t]
      PROVE  refreshes[d].stacks[t][i].at \in Times(Site(s))
    <2>1. <<d, t>> \in Y /\ refreshes[d].stacks[t][i].at \in TimesAt(<<d, t>>)
        BY <1>6
    <2> HIDE DEF Y, TimesAt
    <2> QED
        BY <1>1, <2>1
<1>7. \A k \in Times(Site(s)) : Clock(s) \in Nat /\ k < Clock(s)
    BY <1>5, FiniteMax DEF Clock
<1>8. Clock(s) \in Nat
    BY <1>7 DEF Clock
<1> QED
    BY <1>6, <1>7, <1>8

-----------------------------------------------------------------------------
(* Baselines come and go.                                                   *)

Stack(d, s) == refreshes[d].stacks[s]

\* The runs stay the same but for one stack, which is now st.
OnlyStack(d, s, st) ==
    /\ refreshes' \in Seq(Run) /\ Len(refreshes') = Len(refreshes)
    /\ DOMAIN refreshes' = DOMAIN refreshes
    /\ \A r \in DOMAIN refreshes :
           refreshes'[r].gate = refreshes[r].gate /\ refreshes'[r].model = refreshes[r].model
    /\ Stack(d, s)' = st
    /\ \A r \in DOMAIN refreshes, t \in StepNames : <<r, t>> # <<d, s>> => Stack(r, t)' = Stack(r, t)

LEMMA FunctionIsSeq ==
    ASSUME NEW S, NEW n \in Nat, NEW f \in [1 .. n -> S]
    PROVE  f \in Seq(S) /\ Len(f) = n
OBVIOUS

LEMMA StackChanges ==
    ASSUME MigrationTypeOK, NEW d \in DOMAIN refreshes, NEW s \in StepNames, NEW st \in Seq(Saved),
           refreshes' = [refreshes EXCEPT ![d].stacks[s] = st]
    PROVE  OnlyStack(d, s, st)
<1>1. refreshes \in Seq(Run) /\ \A r \in DOMAIN refreshes : refreshes[r] \in Run
    BY DEF MigrationTypeOK
<1> DEFINE new == [refreshes[d] EXCEPT !.stacks[s] = st]
<1>2. /\ new.gate = refreshes[d].gate /\ new.model = refreshes[d].model
      /\ new.stacks = [refreshes[d].stacks EXCEPT ![s] = st] /\ new \in Run
    BY <1>1 DEF Run
<1>3. new.stacks[s] = st /\ \A t \in StepNames : t # s => new.stacks[t] = refreshes[d].stacks[t]
    BY <1>1, <1>2 DEF Run
<1>4. refreshes' = [refreshes EXCEPT ![d] = new]
    OBVIOUS
<1> HIDE DEF new
<1>5. /\ refreshes' \in Seq(Run) /\ Len(refreshes') = Len(refreshes) /\ DOMAIN refreshes' = DOMAIN refreshes
      /\ refreshes'[d] = new /\ \A r \in DOMAIN refreshes : r # d => refreshes'[r] = refreshes[r]
    <2>1. DOMAIN refreshes = 1 .. Len(refreshes) /\ Len(refreshes) \in Nat
        BY <1>1
    <2>2. DOMAIN refreshes' = 1 .. Len(refreshes) /\ \A r \in DOMAIN refreshes : refreshes'[r] \in Run
        BY <1>1, <1>2, <1>4, <2>1
    <2>3. refreshes' \in [1 .. Len(refreshes) -> Run]
        BY <1>4, <2>1, <2>2
    <2> DEFINE n == Len(refreshes)
    <2>5. n \in Nat /\ refreshes' \in [1 .. n -> Run]
        BY <2>1, <2>3
    <2> HIDE DEF n
    <2>6. \A f \in [1 .. n -> Run] : f \in Seq(Run) /\ Len(f) = n
        BY <2>5, FunctionIsSeq
    <2>4. refreshes' \in Seq(Run) /\ Len(refreshes') = Len(refreshes)
        BY <2>5, <2>6 DEF n
    <2> QED
        BY <1>4, <2>1, <2>2, <2>4
<1>6. \A r \in DOMAIN refreshes :
          refreshes'[r].gate = refreshes[r].gate /\ refreshes'[r].model = refreshes[r].model
    BY <1>2, <1>5
<1>7. Stack(d, s)' = st
    BY <1>3, <1>5 DEF Stack
<1>8. \A r \in DOMAIN refreshes, t \in StepNames : <<r, t>> # <<d, s>> => Stack(r, t)' = Stack(r, t)
    BY <1>3, <1>5 DEF Stack
<1> QED
    BY <1>5, <1>6, <1>7, <1>8 DEF OnlyStack

LEMMA InPlaces ==
    ASSUME NEW o \in Objects, NEW r, NEW t, NEW i
    PROVE  /\ <<r, t, i>> \in PlacesOf(o) <=>
                  /\ r \in DOMAIN refreshes /\ t \in StepNames /\ i \in Nat
                  /\ Writes[t] = o /\ i \in DOMAIN Stack(r, t)
           /\ BaselineAt(<<r, t, i>>) = Stack(r, t)[i]
BY DEF PlacesOf, BaselineAt, Stack

LEMMA PlaceIs ==
    ASSUME NEW o \in Objects, NEW e \in PlacesOf(o)
    PROVE  e = <<e[1], e[2], e[3]>>
BY DEF PlacesOf

\* Object o has the places it had, and those in new, where the baselines are b,
\* without those in gone.
PlacesChange(o, new, gone, b) ==
    /\ PlacesOf(o)' = (PlacesOf(o) \ gone) \cup new
    /\ new \cap PlacesOf(o) = {}
    /\ \A e \in PlacesOf(o) \ gone : BaselineAt(e)' = BaselineAt(e)
    /\ \A e \in new : BaselineAt(e)' = b

LEMMA PutPlaces ==
    ASSUME MigrationTypeOK, NEW d \in DOMAIN refreshes, NEW s \in StepNames, NEW b \in Saved,
           PutOn(d, s, b), NEW o \in Objects
    PROVE  /\ OnlyStack(d, s, Append(Stack(d, s), b))
           /\ PlacesChange(o, IF Writes[s] = o THEN {<<d, s, Len(Stack(d, s)) + 1>>} ELSE {}, {}, b)
<1>1. Stack(d, s) \in Seq(Saved) /\ Append(Stack(d, s), b) \in Seq(Saved)
    BY StackType DEF Stack
<1>2. OnlyStack(d, s, Append(Stack(d, s), b))
    <2>1. refreshes' = [refreshes EXCEPT ![d].stacks[s] = Append(Stack(d, s), b)]
        BY DEF PutOn, Stack
    <2> QED
        BY <1>1, <2>1, StackChanges
<1> DEFINE n == Len(Stack(d, s)) + 1
           e0 == <<d, s, n>>
<1>3. /\ n \in Nat /\ DOMAIN Stack(d, s) = 1 .. n - 1 /\ DOMAIN Append(Stack(d, s), b) = 1 .. n
      /\ Append(Stack(d, s), b)[n] = b
      /\ \A i \in 1 .. n - 1 : Append(Stack(d, s), b)[i] = Stack(d, s)[i]
    BY <1>1
<1> HIDE DEF n
<1>4. ASSUME NEW r, NEW t, NEW i
      PROVE  <<r, t, i>> \in PlacesOf(o)' <=>
                 <<r, t, i>> \in PlacesOf(o) \/ (<<r, t, i>> = e0 /\ Writes[s] = o)
    <2>1. <<r, t, i>> \in PlacesOf(o)' <=>
                  /\ r \in DOMAIN refreshes' /\ t \in StepNames /\ i \in Nat
                  /\ Writes[t] = o /\ i \in DOMAIN Stack(r, t)'
        BY DEF PlacesOf, Stack
    <2> QED
        BY <1>2, <1>3, <2>1, InPlaces DEF OnlyStack
<1>5. ASSUME NEW r, NEW t, NEW i, <<r, t, i>> \in PlacesOf(o)
      PROVE  BaselineAt(<<r, t, i>>)' = BaselineAt(<<r, t, i>>)
    BY <1>2, <1>3, <1>5, InPlaces DEF OnlyStack, BaselineAt, Stack
<1>6. \A e : e = e0 => BaselineAt(e)' = b
    BY <1>2, <1>3 DEF OnlyStack, BaselineAt, Stack
<1>7. e0 \notin PlacesOf(o)
    BY <1>3, InPlaces
<1>8. \A e \in PlacesOf(o)' : e = <<e[1], e[2], e[3]>>
    BY DEF PlacesOf
<1>9. PlacesOf(o)' = PlacesOf(o) \cup (IF Writes[s] = o THEN {e0} ELSE {})
    BY <1>4, <1>8, PlaceIs
<1> QED
    BY <1>2, <1>5, <1>6, <1>7, <1>9, PlaceIs DEF PlacesChange, n

LEMMA TakePlaces ==
    ASSUME MigrationTypeOK, NEW d \in DOMAIN refreshes, NEW s \in StepNames, Stack(d, s) # <<>>,
           TakeOff(d, s), NEW o \in Objects, NEW b
    PROVE  /\ OnlyStack(d, s, Front(Stack(d, s)))
           /\ PlacesChange(o, {}, IF Writes[s] = o THEN {<<d, s, Len(Stack(d, s))>>} ELSE {}, b)
           /\ Last(Stack(d, s)) = BaselineAt(<<d, s, Len(Stack(d, s))>>) /\ Last(Stack(d, s)) \in Saved
           /\ Writes[s] = o => <<d, s, Len(Stack(d, s))>> \in PlacesOf(o)
<1> DEFINE n == Len(Stack(d, s))
           e0 == <<d, s, n>>
<1>1. /\ Stack(d, s) \in Seq(Saved) /\ n \in Nat \ {0} /\ DOMAIN Stack(d, s) = 1 .. n
      /\ Last(Stack(d, s)) = Stack(d, s)[n] /\ Stack(d, s)[n] \in Saved
    BY StackType DEF Stack, Last
<1>2. /\ Front(Stack(d, s)) \in Seq(Saved) /\ DOMAIN Front(Stack(d, s)) = 1 .. n - 1
      /\ \A i \in 1 .. n - 1 : Front(Stack(d, s))[i] = Stack(d, s)[i]
    BY <1>1 DEF Front
<1>3. OnlyStack(d, s, Front(Stack(d, s)))
    <2>1. refreshes' = [refreshes EXCEPT ![d].stacks[s] = Front(Stack(d, s))]
        BY DEF TakeOff, Stack
    <2> QED
        BY <1>2, <2>1, StackChanges
<1> HIDE DEF n
<1>4. ASSUME NEW r, NEW t, NEW i
      PROVE  <<r, t, i>> \in PlacesOf(o)' <=>
                 <<r, t, i>> \in PlacesOf(o) /\ <<r, t, i>> # e0
    <2>1. <<r, t, i>> \in PlacesOf(o)' <=>
                  /\ r \in DOMAIN refreshes' /\ t \in StepNames /\ i \in Nat
                  /\ Writes[t] = o /\ i \in DOMAIN Stack(r, t)'
        BY DEF PlacesOf, Stack
    <2> QED
        BY <1>1, <1>2, <1>3, <2>1, InPlaces DEF OnlyStack
<1>5. ASSUME NEW r, NEW t, NEW i, <<r, t, i>> \in PlacesOf(o), <<r, t, i>> # e0
      PROVE  BaselineAt(<<r, t, i>>)' = BaselineAt(<<r, t, i>>)
    BY <1>1, <1>2, <1>3, <1>5, InPlaces DEF OnlyStack, BaselineAt, Stack
<1>6. e0 \in PlacesOf(o) <=> Writes[s] = o
    BY <1>1, InPlaces
<1>7. \A e \in PlacesOf(o)' : e = <<e[1], e[2], e[3]>>
    BY DEF PlacesOf
<1>8. PlacesOf(o)' = PlacesOf(o) \ (IF Writes[s] = o THEN {e0} ELSE {})
    BY <1>4, <1>6, <1>7, PlaceIs
<1>9. PlacesChange(o, {}, IF Writes[s] = o THEN {e0} ELSE {}, b)
    BY <1>5, <1>6, <1>8, PlaceIs DEF PlacesChange
<1> QED
    BY <1>1, <1>3, <1>6, <1>9 DEF n, BaselineAt, Stack

LEMMA SamePlaces ==
    ASSUME refreshes' = refreshes, NEW o \in Objects
    PROVE  PlacesOf(o)' = PlacesOf(o) /\ \A e : BaselineAt(e)' = BaselineAt(e)
BY DEF PlacesOf, BaselineAt

\* A refresh comes with empty stacks.
LEMMA RefreshPlaces ==
    ASSUME MigrationTypeOK, Refresh, NEW o \in Objects
    PROVE  /\ PlacesOf(o)' = PlacesOf(o) /\ \A e \in PlacesOf(o) : BaselineAt(e)' = BaselineAt(e)
           /\ refreshes' \in Seq(Run) /\ Len(refreshes') = Len(refreshes) + 1
           /\ DOMAIN refreshes' = 1 .. Len(refreshes) + 1 /\ DOMAIN refreshes = 1 .. Len(refreshes)
           /\ \A d \in DOMAIN refreshes : refreshes'[d] = refreshes[d]
           /\ \A t \in StepNames : refreshes'[Len(refreshes) + 1].stacks[t] = <<>>
           /\ refreshes'[Len(refreshes) + 1].gate => refreshes'[Len(refreshes) + 1].model.srv = request[1].srv
<1> DEFINE n == Len(refreshes) + 1
<1>1. PICK strict \in BOOLEAN :
          refreshes' = Append(refreshes, [model |-> source, stacks |-> Empty,
                                          gate |-> /\ Gate(request[1], source) /\ ~Errors(source)
                                                   /\ strict => source = request[1]])
    BY DEF Refresh
<1> DEFINE new == [model |-> source, stacks |-> Empty,
                   gate |-> /\ Gate(request[1], source) /\ ~Errors(source)
                            /\ strict => source = request[1]]
<1>2. Empty \in [StepNames -> Seq(Saved)] /\ \A t \in StepNames : Empty[t] = <<>>
    BY DEF Empty
<1>3. new \in Run /\ (new.gate => new.model.srv = request[1].srv) /\ new.stacks = Empty
    BY <1>2 DEF Run, MigrationTypeOK, Gate
<1>4. refreshes \in Seq(Run) /\ refreshes' = Append(refreshes, new)
    BY <1>1 DEF MigrationTypeOK
<1> HIDE DEF new
<1>5. /\ refreshes' \in Seq(Run) /\ Len(refreshes') = n /\ DOMAIN refreshes' = 1 .. n
      /\ DOMAIN refreshes = 1 .. Len(refreshes) /\ Len(refreshes) \in Nat /\ refreshes'[n] = new
      /\ \A d \in DOMAIN refreshes : refreshes'[d] = refreshes[d]
    BY <1>3, <1>4
<1>6. \A t \in StepNames : refreshes'[n].stacks[t] = <<>>
    BY <1>2, <1>3, <1>5
<1>7. ASSUME NEW r, NEW t, NEW i
      PROVE  <<r, t, i>> \in PlacesOf(o)' <=> <<r, t, i>> \in PlacesOf(o)
    <2>1. <<r, t, i>> \in PlacesOf(o)' <=>
                  /\ r \in DOMAIN refreshes' /\ t \in StepNames /\ i \in Nat
                  /\ Writes[t] = o /\ i \in DOMAIN Stack(r, t)'
        BY DEF PlacesOf, Stack
    <2>2. CASE r = n
        <3>1. DOMAIN << >> = {} /\ n \notin DOMAIN refreshes
            BY <1>5
        <3>2. t \in StepNames => Stack(r, t)' = <<>>
            BY <1>6, <2>2 DEF Stack
        <3> QED
            BY <2>1, <2>2, <3>1, <3>2, InPlaces
    <2>3. CASE r # n
        <3>1. r \in DOMAIN refreshes' <=> r \in DOMAIN refreshes
            BY <1>5, <2>3
        <3>2. r \in DOMAIN refreshes => Stack(r, t)' = Stack(r, t)
            BY <1>5 DEF Stack
        <3> QED
            BY <2>1, <3>1, <3>2, InPlaces
    <2> QED
        BY <2>2, <2>3
<1>8. \A e \in PlacesOf(o)' : e = <<e[1], e[2], e[3]>>
    BY DEF PlacesOf
<1>9. PlacesOf(o)' = PlacesOf(o)
    BY <1>7, <1>8, PlaceIs
<1>10. ASSUME NEW e \in PlacesOf(o) PROVE BaselineAt(e)' = BaselineAt(e)
    <2>1. e[1] \in DOMAIN refreshes
        BY DEF PlacesOf
    <2> QED
        BY <1>5, <2>1 DEF BaselineAt
<1> QED
    BY <1>3, <1>5, <1>6, <1>9, <1>10

-----------------------------------------------------------------------------
(* Types.                                                                   *)

\* Marks as the managers and the baselines have them: Absent or something else.
Clean(m) == m \in SUBSET Marks /\ ("absent" \in m => m = Absent)

LEMMA CleanIs ==
    /\ Clean(Absent)
    /\ MigrationTypeInv => /\ \A o \in Objects : Clean(target[o])
                           /\ \A o \in Objects : \A e \in PlacesOf(o) : Clean(BaselineAt(e).was)
<1>1. Clean(Absent)
    BY DEF Clean, Absent, Marks
<1>2. ASSUME MigrationTypeInv, NEW o \in Objects PROVE Clean(target[o])
    BY <1>2 DEF MigrationTypeInv, MigrationTypeOK, States, Clean
<1>3. ASSUME MigrationTypeInv, NEW o \in Objects, NEW e \in PlacesOf(o) PROVE Clean(BaselineAt(e).was)
    <2>1. e[1] \in DOMAIN refreshes /\ e[2] \in StepNames /\ e[3] \in DOMAIN refreshes[e[1]].stacks[e[2]]
        BY DEF PlacesOf
    <2>2. BaselineAt(e) \in Saved
        BY <1>3, <2>1, StackType DEF MigrationTypeInv, BaselineAt
    <2> QED
        BY <1>3, <2>2 DEF MigrationTypeInv, Clean, Saved
<1> QED
    BY <1>1, <1>2, <1>3

\* What a tool makes of its object is never a mixture.
LEMMA PushedClean ==
    ASSUME MigrationTypeInv, NEW s \in StepNames, NEW d \in DOMAIN refreshes
    PROVE  /\ Clean(Pushed(s, d)) /\ Writes[s] \in Objects
           /\ Pushed(s, d) \subseteq target[Writes[s]] \cup {"names sibling", refreshes[d].model.srv}
<1>1. Writes[s] \in Objects /\ Clean(target[Writes[s]])
    BY StepFacts, CleanIs
<1>2. refreshes[d].model.srv \in ServerFacts
    <2>1. refreshes[d] \in Run
        BY StackType DEF MigrationTypeInv
    <2>2. refreshes[d].model \in Sources
        BY <2>1 DEF Run
    <2> QED
        BY <2>2 DEF Sources
<1>3. "absent" \notin ServerFacts
    BY ConstantsAssumption
<1>4. CASE s \in DOMAIN Amends
    BY <1>1, <1>2, <1>3, <1>4 DEF Pushed, Clean, Marks, Has, Absent
<1>5. CASE s \notin DOMAIN Amends
    BY <1>1, <1>2, <1>3, <1>5 DEF Pushed, Clean, Marks, Absent
<1> QED
    BY <1>1, <1>4, <1>5

\* What writing marks to object o leaves.
LEMMA SetIsWrite ==
    ASSUME MigrationTypeInv, NEW o \in Objects, NEW m, Clean(m), SetTo(o, m)
    PROVE  /\ target' \in States
           /\ \A q \in Objects : "absent" \in target'[q] => target'[q] = Absent
           /\ target'[o] = m
           /\ \A q \in Objects : q # o =>
                  target'[q] = IF q = "rule" /\ o = "pol" /\ m = Absent THEN Absent ELSE target[q]
<1>1. target \in States /\ \A q \in Objects : Clean(target[q])
    BY CleanIs DEF MigrationTypeInv, MigrationTypeOK
<1>2. "rule" \in Objects /\ Clean(Absent)
    BY CleanIs DEF Objects
<1>3. /\ target'[o] = m
      /\ \A q \in Objects : q # o =>
             target'[q] = IF q = "rule" /\ o = "pol" /\ m = Absent THEN Absent ELSE target[q]
    BY <1>1, <1>2 DEF SetTo, States
<1>4. DOMAIN target' = Objects /\ target' = [q \in Objects |-> target'[q]]
    BY <1>1 DEF SetTo, States
<1>5. \A q \in Objects : Clean(target'[q])
    BY <1>1, <1>2, <1>3
<1>6. target' \in States
    BY <1>4, <1>5 DEF States, Clean
<1> QED
    BY <1>3, <1>5, <1>6 DEF Clean

\* The type of all but the refreshes, the job and the target.
OtherTypes ==
    /\ source' \in Sources
    /\ request' \in Seq(Sources) /\ Len(request') <= 1
    /\ approval' \in Seq(Sources) /\ Len(approval') <= 1
    /\ pan' \subseteq Pans
    /\ manifests' \in Seq(Seq(SUBSET Pans)) /\ Len(manifests') = Len(refreshes')
    /\ approved' \subseteq Sources /\ first' \in States \X SUBSET Pans
    /\ disorder' \in BOOLEAN /\ partial' \subseteq (Nat \X (Phases \cup {"palo"}))
    /\ unrecorded' \subseteq Pans
    /\ applies' \in 0..MaxApplies /\ changes' \in 0..MaxChanges /\ faults' \in 0..MaxFaults

\* A job on a refresh there is.
JobGood(j, rs) == /\ j \in Job /\ Todo(j.phase, j.todo) /\ (j.kind # "none" => j.dir \in DOMAIN rs)

\* The target and baselines as they were.
LEMMA TypesStay ==
    ASSUME MigrationTypeInv, refreshes' = refreshes, target' = target, OtherTypes,
           JobGood(job', refreshes)
    PROVE  MigrationTypeInv'
<1>1. MigrationTypeOK'
    BY DEF MigrationTypeInv, MigrationTypeOK, OtherTypes, JobGood
<1>2. \A o \in Objects : \A e \in PlacesOf(o)' : "absent" \in BaselineAt(e).was' => BaselineAt(e).was' = Absent
    BY SamePlaces DEF MigrationTypeInv
<1> QED
    BY <1>1, <1>2 DEF MigrationTypeInv, JobGood

LEMMA NoJobGood == ASSUME NEW rs PROVE JobGood(NoJob, rs)
BY NothingTodo DEF JobGood, NoJob, Job

LEMMA JobStays == ASSUME MigrationTypeInv PROVE JobGood(job, refreshes)
BY DEF MigrationTypeInv, MigrationTypeOK, JobGood

LEMMA BeginGood ==
    ASSUME MigrationTypeInv, NEW kind \in {"apply", "rollback"}, NEW d \in DOMAIN refreshes,
           NEW p \in Phases \cup {"palo"}, NEW steps, Todo(p, steps), Begin(kind, d, p, steps)
    PROVE  /\ JobGood(job', refreshes) /\ job'.kind = kind /\ job'.dir = d /\ job'.phase = p
           /\ job'.todo = steps /\ job'.failed = FALSE /\ job'.faulty = FALSE
<1>1. job' = [kind |-> kind, dir |-> d, phase |-> p, todo |-> steps, failed |-> FALSE, faulty |-> FALSE]
    BY DEF Begin, NoJob
<1>2. d \in Nat /\ steps \in Seq(StepNames)
    BY DEF MigrationTypeInv, MigrationTypeOK, Todo
<1> QED
    BY <1>1, <1>2 DEF JobGood, Job

LEMMA DoneGood ==
    ASSUME MigrationTypeInv, job.todo # <<>>, NEW ok \in BOOLEAN, NEW faulty \in BOOLEAN,
           StepDone(ok, faulty)
    PROVE  /\ JobGood(job', refreshes) /\ job'.kind = job.kind /\ job'.dir = job.dir
           /\ job'.phase = job.phase /\ job'.todo = (IF ok THEN Tail(job.todo) ELSE <<>>)
<1> DEFINE left == IF ok THEN Tail(job.todo) ELSE <<>>
<1>1. job \in Job /\ Todo(job.phase, job.todo)
    BY DEF MigrationTypeInv, MigrationTypeOK
<1>2. Todo(job.phase, left)
    BY <1>1, TailTodo, NothingTodo
<1>3. job' = [job EXCEPT !.todo = left, !.failed = ~ok, !.faulty = @ \/ faulty]
    BY DEF StepDone
<1> HIDE DEF left
<1>4. left \in Seq(StepNames)
    BY <1>2 DEF Todo
<1>5. /\ job'.kind = job.kind /\ job'.dir = job.dir /\ job'.phase = job.phase /\ job'.todo = left
      /\ job' \in Job
    BY <1>1, <1>3, <1>4 DEF Job
<1> QED
    BY <1>2, <1>5 DEF JobGood, MigrationTypeInv, left

LEMMA MigrationTypeInit == MigrationInit => MigrationTypeInv
<1> SUFFICES ASSUME MigrationInit PROVE MigrationTypeInv
    OBVIOUS
<1>1. target \in [Objects -> {{"own"}, {"own", "names sibling"}, Absent}]
    BY ConstantsAssumption DEF MigrationInit
<1>2. target \in States /\ \A o \in Objects : "absent" \in target[o] => target[o] = Absent
    BY <1>1 DEF States, Marks, Absent
<1>3. pan \subseteq Pans
    <2>1. PanObjects \in Seq(Pans)
        BY ConstantsAssumption
    <2>2. PanObjects # <<>> => PanObjects[1] \in Pans
        BY <2>1
    <2> QED
        BY <2>2 DEF MigrationInit
<1>4. job \in Job /\ Todo(job.phase, job.todo) /\ job.kind = "none"
    BY NoJobGood DEF JobGood, MigrationInit, NoJob
<1>5. MigrationTypeOK
    <2>1. first \in States \X SUBSET Pans /\ partial \subseteq (Nat \X (Phases \cup {"palo"}))
        BY <1>2, <1>3 DEF MigrationInit
    <2>2. /\ request \in Seq(Sources) /\ approval \in Seq(Sources) /\ refreshes \in Seq(Run)
          /\ manifests \in Seq(Seq(SUBSET Pans)) /\ Len(request) = 0 /\ Len(approval) = 0
          /\ Len(refreshes) = 0 /\ Len(manifests) = 0
        BY DEF MigrationInit
    <2>3. /\ applies \in 0..MaxApplies /\ changes \in 0..MaxChanges /\ faults \in 0..MaxFaults
          /\ Len(refreshes) <= MaxRefreshes
        BY <2>2, MigrationBounds DEF MigrationInit
    <2>4. source \in Sources /\ approved \subseteq Sources /\ disorder \in BOOLEAN /\ unrecorded \subseteq Pans
        BY DEF MigrationInit
    <2> QED
        BY <1>2, <1>3, <1>4, <2>1, <2>2, <2>3, <2>4 DEF MigrationTypeOK
<1>6. \A o \in Objects : PlacesOf(o) = {}
    BY DEF MigrationInit, PlacesOf
<1> QED
    BY <1>4, <1>5, <1>6 DEF MigrationTypeInv

-----------------------------------------------------------------------------
(* What the steps of a job do.                                              *)

\* A tool of a job ends: its step is done, or all that were left are.
StepOver ==
    /\ job.todo # <<>> /\ job.dir \in DOMAIN refreshes /\ job.phase \in Phases
    /\ JobGood(job', refreshes) /\ job'.kind = job.kind /\ job'.dir = job.dir
    /\ job'.phase = job.phase /\ job'.todo \in {Tail(job.todo), <<>>}
    /\ UNCHANGED <<source, request, approval, pan, manifests, unrecorded, changes, history>>
    /\ faults' \in 0 .. MaxFaults

LEMMA HeadTodo ==
    ASSUME MigrationTypeInv, job.todo # <<>>
    PROVE  /\ Head(job.todo) \in StepNames /\ Writes[Head(job.todo)] \in Objects
           /\ PhaseOf(Head(job.todo)) = job.phase /\ job.phase \in Phases
<1>1. Todo(job.phase, job.todo) /\ job.todo \in Seq(StepNames)
    BY DEF MigrationTypeInv, MigrationTypeOK, Todo
<1>2. 1 \in DOMAIN job.todo /\ Head(job.todo) = job.todo[1]
    BY <1>1
<1> QED
    BY <1>1, <1>2, StepFacts DEF Todo

LEMMA FaultsStay ==
    ASSUME MigrationTypeInv
    PROVE  (Fault \/ UNCHANGED faults) => faults' \in 0 .. MaxFaults
BY MigrationBounds DEF MigrationTypeInv, MigrationTypeOK, Fault

\* What a tool may save before it writes.
SavedNow(s, b) == b \in Saved /\ b.was = target[Writes[s]] /\ b.at = Clock(s)

LEMMA SavedNowIs ==
    ASSUME MigrationTypeInv, NEW s \in StepNames, NEW c \in BOOLEAN
    PROVE  SavedNow(s, [was |-> target[Writes[s]], at |-> Clock(s), created |-> c])
<1>1. Clock(s) \in Nat
    BY ClockIsLater DEF MigrationTypeInv
<1>2. target[Writes[s]] \in SUBSET Marks
    BY CleanIs, StepFacts DEF Clean
<1> QED
    BY <1>1, <1>2 DEF SavedNow, Saved

\* A tool that pushes: nothing, or a baseline alone, or a baseline and a write.
LEMMA ApplyShape ==
    ASSUME MigrationTypeInv, StepApply \/ StepApplyFails
    PROVE  /\ StepOver /\ job.kind = "apply"
           /\ \/ UNCHANGED <<refreshes, target>>
              \/ \E b : /\ SavedNow(Head(job.todo), b) /\ PutOn(job.dir, Head(job.todo), b)
                        /\ UNCHANGED target
              \/ \E b : /\ SavedNow(Head(job.todo), b) /\ PutOn(job.dir, Head(job.todo), b)
                        /\ SetTo(Writes[Head(job.todo)], Pushed(Head(job.todo), job.dir))
                        /\ b.created \/ b.was # Absent \/ Head(job.todo) \in DOMAIN Amends
<1> DEFINE s == Head(job.todo)
           o == Writes[s]
<1>1. job.kind = "apply" /\ job.todo # <<>>
    BY DEF StepApply, StepApplyFails
<1>2. s \in StepNames /\ o \in Objects /\ job.phase \in Phases /\ job.dir \in DOMAIN refreshes
    BY <1>1, HeadTodo DEF MigrationTypeInv
<1>3. CASE StepApply
    <2> DEFINE ok == MaySet(o, Pushed(s, job.dir))
               b == [was |-> SavedBefore(s, job.dir), at |-> Clock(s),
                     created |-> ok /\ s \notin DOMAIN Amends /\ ~Has(o)]
    <2>1. /\ PutOn(job.dir, s, b) /\ StepDone(ok, FALSE)
          /\ IF ok THEN SetTo(o, Pushed(s, job.dir)) ELSE UNCHANGED target
          /\ UNCHANGED <<source, request, approval, pan, manifests, unrecorded, changes, faults, history>>
        BY <1>3 DEF StepApply
    <2>2. ok \in BOOLEAN
        BY DEF MaySet, Resolves, NotNamed
    <2>3. SavedNow(s, b) /\ (ok => b.created \/ b.was # Absent \/ s \in DOMAIN Amends)
        <3> DEFINE c == ok /\ s \notin DOMAIN Amends /\ ~Has(o)
        <3>1. c \in BOOLEAN
            OBVIOUS
        <3>2. b = [was |-> target[Writes[s]], at |-> Clock(s), created |-> c]
            BY DEF SavedBefore
        <3>3. ok /\ target[o] = Absent /\ s \notin DOMAIN Amends => c
            BY DEF Has
        <3> HIDE DEF c, ok
        <3>4. SavedNow(s, [was |-> target[Writes[s]], at |-> Clock(s), created |-> c])
            BY <1>2, <3>1, SavedNowIs
        <3> HIDE DEF b
        <3> QED
            BY <3>2, <3>3, <3>4
    <2> HIDE DEF ok, b
    <2>4. StepOver
        BY <1>1, <1>2, <2>1, <2>2, DoneGood, FaultsStay DEF StepOver
    <2> QED
        BY <1>1, <2>1, <2>3, <2>4
<1>4. CASE StepApplyFails
    <2> DEFINE b == [was |-> target[o], at |-> Clock(s), created |-> FALSE]
    <2>1. /\ UNCHANGED refreshes \/ PutOn(job.dir, s, b)
          /\ StepDone(FALSE, TRUE) /\ Fault
          /\ UNCHANGED <<source, request, approval, target, pan, manifests, unrecorded, changes, history>>
        BY <1>4 DEF StepApplyFails
    <2>2. SavedNow(s, b)
        BY <1>2, SavedNowIs
    <2> HIDE DEF b
    <2>3. StepOver
        BY <1>1, <1>2, <2>1, DoneGood, FaultsStay DEF StepOver
    <2> QED
        BY <1>1, <2>1, <2>2, <2>3
<1> QED
    BY <1>3, <1>4

\* What a revert leaves alone: nothing was there, and its push made nothing.
LeftAlone(o, b) == b.was = Absent /\ ~b.created /\ o \notin {"svc", "pol"}

\* A tool that reverts: nothing, or the newest baseline of its step and a write.
LEMMA RollbackShape ==
    ASSUME MigrationTypeInv, StepRollback \/ StepRollbackFails
    PROVE  /\ StepOver /\ job.kind = "rollback"
           /\ \/ UNCHANGED <<refreshes, target>>
              \/ /\ Stack(job.dir, Head(job.todo)) # <<>> /\ TakeOff(job.dir, Head(job.todo))
                 /\ job'.todo = Tail(job.todo)
                 /\ LET o == Writes[Head(job.todo)]
                        b == Last(Stack(job.dir, Head(job.todo)))
                    IN  SetTo(o, IF LeftAlone(o, b) THEN target[o] ELSE b.was)
<1> DEFINE s == Head(job.todo)
           o == Writes[s]
           b == Last(Stack(job.dir, s))
<1>1. job.kind = "rollback" /\ job.todo # <<>>
    BY DEF StepRollback, StepRollbackFails
<1>2. s \in StepNames /\ o \in Objects /\ job.phase \in Phases /\ job.dir \in DOMAIN refreshes
    BY <1>1, HeadTodo DEF MigrationTypeInv
<1>3. CASE StepRollback
    <2> DEFINE new == IF LeftAlone(o, b) THEN target[o] ELSE b.was
               ok == new = target[o] \/ MaySet(o, new)
    <2>1. /\ IF Stack(job.dir, s) = <<>>
             THEN StepDone(FALSE, FALSE) /\ UNCHANGED <<refreshes, target>>
             ELSE /\ StepDone(ok, FALSE)
                  /\ IF ok THEN TakeOff(job.dir, s) /\ SetTo(o, new) ELSE UNCHANGED <<refreshes, target>>
          /\ UNCHANGED <<source, request, approval, pan, manifests, unrecorded, changes, faults, history>>
        BY <1>3 DEF StepRollback, Stack, LeftAlone
    <2>2. ok \in BOOLEAN
        BY DEF MaySet, Resolves, NotNamed
    <2> HIDE DEF ok
    <2>3. StepOver /\ (ok /\ StepDone(ok, FALSE) => job'.todo = Tail(job.todo))
        BY <1>1, <1>2, <2>1, <2>2, DoneGood, FaultsStay DEF StepOver
    <2> QED
        BY <1>1, <2>1, <2>2, <2>3
<1>4. CASE StepRollbackFails
    <2>1. /\ StepDone(FALSE, TRUE) /\ Fault
          /\ UNCHANGED <<source, request, approval, refreshes, target, pan, manifests, unrecorded,
                         changes, history>>
        BY <1>4 DEF StepRollbackFails
    <2>2. StepOver
        BY <1>1, <1>2, <2>1, DoneGood, FaultsStay DEF StepOver
    <2> QED
        BY <1>1, <2>1, <2>2
<1> QED
    BY <1>3, <1>4

-----------------------------------------------------------------------------
(* Every step keeps the types.                                              *)

\* The step of a tool: what is left to show of it.
LEMMA StepTypes ==
    ASSUME MigrationTypeInv, StepOver,
           refreshes' \in Seq(Run), Len(refreshes') = Len(refreshes), DOMAIN refreshes' = DOMAIN refreshes,
           target' \in States, \A o \in Objects : "absent" \in target'[o] => target'[o] = Absent,
           \A o \in Objects : \A e \in PlacesOf(o)' : Clean(BaselineAt(e)'.was)
    PROVE  MigrationTypeInv'
<1>1. MigrationTypeOK'
    BY DEF StepOver, JobGood, MigrationTypeInv, MigrationTypeOK, history
<1>2. Todo(job.phase, job.todo)' /\ (job.kind # "none" => job.dir \in DOMAIN refreshes)'
    BY DEF StepOver, JobGood, Todo
<1>3. \A o \in Objects : \A e \in PlacesOf(o)' :
          "absent" \in BaselineAt(e)'.was => BaselineAt(e)'.was = Absent
    BY DEF Clean
<1> QED
    BY <1>1, <1>2, <1>3 DEF MigrationTypeInv

\* The tool has put a baseline.
LEMMA PutTypes ==
    ASSUME MigrationTypeInv, StepOver, NEW b, SavedNow(Head(job.todo), b),
           PutOn(job.dir, Head(job.todo), b),
           target' \in States, \A o \in Objects : "absent" \in target'[o] => target'[o] = Absent
    PROVE  MigrationTypeInv'
<1> DEFINE s == Head(job.todo)
<1>1. s \in StepNames /\ Writes[s] \in Objects /\ job.dir \in DOMAIN refreshes
    BY HeadTodo DEF StepOver
<1>2. b \in Saved /\ Clean(b.was) /\ MigrationTypeOK
    BY <1>1, CleanIs DEF SavedNow, MigrationTypeInv
<1>3. refreshes' \in Seq(Run) /\ Len(refreshes') = Len(refreshes) /\ DOMAIN refreshes' = DOMAIN refreshes
    BY <1>1, <1>2, PutPlaces DEF OnlyStack
<1>4. ASSUME NEW o \in Objects, NEW e \in PlacesOf(o)' PROVE Clean(BaselineAt(e)'.was)
    <2>1. PICK new \in {{<<job.dir, s, Len(Stack(job.dir, s)) + 1>>}, {}} : PlacesChange(o, new, {}, b)
        BY <1>1, <1>2, PutPlaces
    <2>2. CASE e \in PlacesOf(o)
        BY <2>1, <2>2, CleanIs DEF PlacesChange
    <2>3. CASE e \in new
        BY <1>2, <2>1, <2>3 DEF PlacesChange
    <2> QED
        BY <2>1, <2>2, <2>3 DEF PlacesChange
<1> HIDE DEF s
<1> QED
    BY <1>3, <1>4, StepTypes

LEMMA ApplyTypes == ASSUME MigrationTypeInv, StepApply \/ StepApplyFails PROVE MigrationTypeInv'
<1> DEFINE s == Head(job.todo)
           o == Writes[s]
<1>1. StepOver
    BY ApplyShape
<1>2. s \in StepNames /\ o \in Objects /\ job.dir \in DOMAIN refreshes
    BY <1>1, HeadTodo DEF StepOver
<1>3. CASE UNCHANGED <<refreshes, target>>
    <2>1. /\ target' \in States /\ \A q \in Objects : "absent" \in target'[q] => target'[q] = Absent
          /\ refreshes' \in Seq(Run) /\ Len(refreshes') = Len(refreshes)
          /\ DOMAIN refreshes' = DOMAIN refreshes
        BY <1>3 DEF MigrationTypeInv, MigrationTypeOK
    <2>2. ASSUME NEW q \in Objects, NEW e \in PlacesOf(q)' PROVE Clean(BaselineAt(e)'.was)
        BY <1>3, CleanIs, SamePlaces
    <2> QED
        BY <1>1, <2>1, <2>2, StepTypes
<1>4. ASSUME NEW b, SavedNow(s, b), PutOn(job.dir, s, b), UNCHANGED target PROVE MigrationTypeInv'
    <2>1. target' \in States /\ \A q \in Objects : "absent" \in target'[q] => target'[q] = Absent
        BY <1>4 DEF MigrationTypeInv, MigrationTypeOK
    <2> QED
        BY <1>1, <1>4, <2>1, PutTypes
<1>5. ASSUME NEW b, SavedNow(s, b), PutOn(job.dir, s, b), SetTo(o, Pushed(s, job.dir))
      PROVE  MigrationTypeInv'
    <2>1. target' \in States /\ \A q \in Objects : "absent" \in target'[q] => target'[q] = Absent
        BY <1>2, <1>5, PushedClean, SetIsWrite
    <2> QED
        BY <1>1, <1>5, <2>1, PutTypes
<1> QED
    BY <1>3, <1>4, <1>5, ApplyShape

LEMMA RollbackTypes == ASSUME MigrationTypeInv, StepRollback \/ StepRollbackFails PROVE MigrationTypeInv'
<1> DEFINE s == Head(job.todo)
           o == Writes[s]
           saved == Last(Stack(job.dir, s))
           e0 == <<job.dir, s, Len(Stack(job.dir, s))>>
<1>1. StepOver
    BY RollbackShape
<1>2. s \in StepNames /\ o \in Objects /\ job.dir \in DOMAIN refreshes /\ MigrationTypeOK
    BY <1>1, HeadTodo DEF StepOver, MigrationTypeInv
<1>3. CASE UNCHANGED <<refreshes, target>>
    <2>1. /\ target' \in States /\ \A q \in Objects : "absent" \in target'[q] => target'[q] = Absent
          /\ refreshes' \in Seq(Run) /\ Len(refreshes') = Len(refreshes)
          /\ DOMAIN refreshes' = DOMAIN refreshes
        BY <1>3 DEF MigrationTypeInv, MigrationTypeOK
    <2>2. ASSUME NEW q \in Objects, NEW e \in PlacesOf(q)' PROVE Clean(BaselineAt(e)'.was)
        BY <1>3, CleanIs, SamePlaces
    <2> QED
        BY <1>1, <2>1, <2>2, StepTypes
<1>4. CASE /\ Stack(job.dir, s) # <<>> /\ TakeOff(job.dir, s)
           /\ SetTo(o, IF LeftAlone(o, saved) THEN target[o] ELSE saved.was)
    <2>1. saved = BaselineAt(e0) /\ e0 \in PlacesOf(o)
        BY <1>2, <1>4, TakePlaces
    <2>2. Clean(saved.was) /\ Clean(target[o])
        BY <1>2, <2>1, CleanIs
    <2>3. target' \in States /\ \A q \in Objects : "absent" \in target'[q] => target'[q] = Absent
        BY <1>2, <1>4, <2>2, SetIsWrite
    <2>4. refreshes' \in Seq(Run) /\ Len(refreshes') = Len(refreshes) /\ DOMAIN refreshes' = DOMAIN refreshes
        BY <1>2, <1>4, TakePlaces DEF OnlyStack
    <2>5. ASSUME NEW q \in Objects, NEW e \in PlacesOf(q)' PROVE Clean(BaselineAt(e)'.was)
        <3>1. PICK gone \in {{e0}, {}} : PlacesChange(q, {}, gone, saved)
            BY <1>2, <1>4, TakePlaces
        <3>2. e \in PlacesOf(q) /\ BaselineAt(e)' = BaselineAt(e)
            BY <2>5, <3>1 DEF PlacesChange
        <3> QED
            BY <3>2, CleanIs
    <2> QED
        BY <1>1, <2>3, <2>4, <2>5, StepTypes
<1> QED
    BY <1>3, <1>4, RollbackShape

\* Requests, approvals and changes of the source.
LEMMA RequestTypes ==
    ASSUME MigrationTypeInv, MakeRequest \/ Approve \/ SourceChanges
    PROVE  MigrationTypeInv' /\ UNCHANGED <<refreshes, target, job, first, disorder>>
<1>1. UNCHANGED <<refreshes, target, job, pan, manifests, first, disorder, partial, unrecorded, applies, faults>>
    BY DEF MakeRequest, Approve, SourceChanges, history
<1>2. /\ source' \in Sources
      /\ request' \in Seq(Sources) /\ Len(request') <= 1
      /\ approval' \in Seq(Sources) /\ Len(approval') <= 1
      /\ approved' \subseteq Sources /\ changes' \in 0..MaxChanges
    <2>1. MigrationTypeOK
        BY DEF MigrationTypeInv
    <2>2. CASE MakeRequest
        BY <2>1, <2>2 DEF MakeRequest, history, MigrationTypeOK
    <2>3. CASE Approve
        <3>1. request[1] \in Sources
            BY <2>1, <2>3 DEF Approve, MigrationTypeOK
        <3> QED
            BY <2>1, <2>3, <3>1 DEF Approve, MigrationTypeOK
    <2>4. CASE SourceChanges
        BY <2>1, <2>4, MigrationBounds DEF SourceChanges, history, MigrationTypeOK
    <2> QED
        BY <2>2, <2>3, <2>4
<1>3. OtherTypes
    BY <1>1, <1>2 DEF MigrationTypeInv, MigrationTypeOK, OtherTypes
<1>4. JobGood(job', refreshes)
    BY <1>1, JobStays
<1> QED
    BY <1>1, <1>3, <1>4, TypesStay

\* A job is begun as what it is.
LEMMA BeginKind ==
    ASSUME NEW d, NEW p
    PROVE  /\ ApplyStart(d, p) => job'.kind = "apply"
           /\ RollbackStart(d, p) => job'.kind = "rollback"
BY DEF ApplyStart, RollbackStart, Begin, NoJob

\* A run begins.
LEMMA StartTypes ==
    ASSUME MigrationTypeInv, NEW d \in DOMAIN refreshes, NEW p \in Phases \cup {"palo"},
           ApplyStart(d, p) \/ RollbackStart(d, p)
    PROVE  /\ MigrationTypeInv' /\ UNCHANGED <<refreshes, target, approval, approved, first>>
           /\ job'.dir = d /\ job'.phase = p
           /\ ApplyStart(d, p) => job'.kind = "apply" /\ UNCHANGED disorder
           /\ RollbackStart(d, p) => /\ job'.kind = "rollback"
                                     /\ job'.todo = IF p = "palo" THEN <<>> ELSE RollbackSteps(p)
<1>1. /\ UNCHANGED <<source, request, approval, refreshes, target, pan, manifests, approved, first,
                     partial, unrecorded, changes, faults>>
      /\ applies' \in 0..MaxApplies /\ disorder' \in BOOLEAN
    <2>1. CASE ApplyStart(d, p)
        BY <2>1, MigrationBounds DEF ApplyStart, MigrationTypeInv, MigrationTypeOK
    <2>2. CASE RollbackStart(d, p)
        <3>1. NewestFirst(d, p) \in BOOLEAN
            BY DEF NewestFirst
        <3> QED
            BY <2>2, <3>1 DEF RollbackStart, MigrationTypeInv, MigrationTypeOK
    <2> QED
        BY <2>1, <2>2
<1>2. OtherTypes
    BY <1>1 DEF MigrationTypeInv, MigrationTypeOK, OtherTypes
<1>3. CASE ApplyStart(d, p)
    <2>1. Todo(p, IF p = "palo" THEN <<>> ELSE PhaseSteps[p])
        BY NothingTodo, PhaseTodo
    <2>2. Begin("apply", d, p, IF p = "palo" THEN <<>> ELSE PhaseSteps[p]) /\ UNCHANGED disorder
        BY <1>3 DEF ApplyStart
    <2>3. JobGood(job', refreshes) /\ job'.kind = "apply" /\ job'.dir = d /\ job'.phase = p
        BY <2>1, <2>2, BeginGood
    <2> QED
        <3>1. ~RollbackStart(d, p)
            <4>1. RollbackStart(d, p) => job'.kind = "rollback"
                BY BeginKind
            <4> QED
                BY <2>3, <4>1
        <3> QED
            BY <1>1, <1>2, <2>2, <2>3, <3>1, TypesStay
<1>4. CASE RollbackStart(d, p)
    <2> DEFINE steps == IF p = "palo" THEN <<>> ELSE RollbackSteps(p)
    <2>1. Todo(p, steps)
        BY NothingTodo, PhaseTodo, ReverseTodo DEF RollbackSteps
    <2>2. Begin("rollback", d, p, steps)
        BY <1>4 DEF RollbackStart
    <2> HIDE DEF steps
    <2>3. /\ JobGood(job', refreshes) /\ job'.kind = "rollback" /\ job'.dir = d /\ job'.phase = p
          /\ job'.todo = steps
        BY <2>1, <2>2, BeginGood
    <2>4. ~ApplyStart(d, p)
        <3>1. ApplyStart(d, p) => job'.kind = "apply"
            BY BeginKind
        <3> QED
            BY <2>3, <3>1
    <2>5. MigrationTypeInv'
        BY <1>1, <1>2, <2>3, TypesStay
    <2> QED
        BY <1>1, <2>3, <2>4, <2>5 DEF steps
<1> QED
    BY <1>3, <1>4

\* The Palo phase: it has no baselines.
LEMMA PaloTypes ==
    ASSUME MigrationTypeInv, PaloPush \/ PaloRevert
    PROVE  /\ MigrationTypeInv' /\ job' = NoJob
           /\ UNCHANGED <<refreshes, target, approval, approved, first, disorder>>
<1>1. /\ UNCHANGED <<source, request, approval, refreshes, target, changes, history>> /\ job' = NoJob
      /\ (Fault \/ UNCHANGED faults)
    BY DEF PaloPush, PaloRevert
<1>2. faults' \in 0 .. MaxFaults
    BY <1>1, FaultsStay
<1>3. /\ pan' \subseteq Pans /\ unrecorded' \subseteq Pans
      /\ manifests' \in Seq(Seq(SUBSET Pans)) /\ Len(manifests') = Len(refreshes)
    <2>0. MigrationTypeOK /\ PanObjects \in Seq(Pans)
        BY ConstantsAssumption DEF MigrationTypeInv
    <2>1. CASE PaloRevert
        BY <2>0, <2>1 DEF PaloRevert, MigrationTypeOK
    <2>2. CASE PaloPush
        <3>1. PICK stop \in 1..Len(PanObjects) + 1, lost \in BOOLEAN :
                 LET created == Before(stop) \ pan
                     hidden == IF lost THEN {PanObjects[stop]} \ pan ELSE {}
                 IN
                 /\ stop <= Len(PanObjects) \/ ~lost
                 /\ pan' = pan \cup created \cup hidden
                 /\ unrecorded' = unrecorded \cup hidden
                 /\ manifests' = [manifests EXCEPT ![job.dir] = Append(@, created)]
            BY <2>2 DEF PaloPush
        <3> DEFINE created == Before(stop) \ pan
                   hidden == IF lost THEN {PanObjects[stop]} \ pan ELSE {}
        <3>2. created \subseteq Pans
            <4>1. \A k \in 1 .. stop - 1 : PanObjects[k] \in Pans
                BY <2>0
            <4> QED
                BY <4>1 DEF Before
        <3>3. hidden \subseteq Pans
            <4>1. lost => PanObjects[stop] \in Pans
                BY <2>0, <3>1
            <4> QED
                BY <4>1
        <3>4. /\ pan' = pan \cup created \cup hidden
              /\ unrecorded' = unrecorded \cup hidden
              /\ manifests' = [manifests EXCEPT ![job.dir] = Append(@, created)]
            BY <3>1
        <3> HIDE DEF created, hidden
        <3>5. pan' \subseteq Pans /\ unrecorded' \subseteq Pans
            BY <2>0, <3>2, <3>3, <3>4 DEF MigrationTypeOK
        <3>6. /\ manifests \in Seq(Seq(SUBSET Pans)) /\ Len(manifests) = Len(refreshes)
              /\ DOMAIN manifests = 1 .. Len(manifests) /\ Len(manifests) \in Nat
            BY <2>0 DEF MigrationTypeOK
        <3>7. manifests' \in [1 .. Len(manifests) -> Seq(SUBSET Pans)]
            <4>1. \A d \in DOMAIN manifests : manifests[d] \in Seq(SUBSET Pans)
                BY <3>6
            <4>2. \A d \in DOMAIN manifests : manifests'[d] \in Seq(SUBSET Pans)
                BY <3>2, <3>4, <4>1
            <4> QED
                BY <3>4, <3>6, <4>2
        <3> DEFINE n == Len(manifests)
                   Kind == Seq(SUBSET Pans)
        <3>8. n \in Nat /\ manifests' \in [1 .. n -> Kind] /\ n = Len(refreshes)
            BY <3>6, <3>7
        <3> HIDE DEF n, Kind
        <3>9. \A f \in [1 .. n -> Kind] : f \in Seq(Kind) /\ Len(f) = n
            BY <3>8, FunctionIsSeq
        <3> QED
            BY <3>5, <3>8, <3>9 DEF Kind
    <2> QED
        BY <2>1, <2>2
<1>4. OtherTypes
    BY <1>1, <1>2, <1>3 DEF MigrationTypeInv, MigrationTypeOK, OtherTypes, history
<1>5. MigrationTypeInv'
    BY <1>1, <1>4, NoJobGood, TypesStay
<1> QED
    BY <1>1, <1>5 DEF history

\* A run ends, or is ended.
LEMMA EndTypes ==
    ASSUME MigrationTypeInv, End \/ Killed
    PROVE  /\ MigrationTypeInv' /\ job' = NoJob
           /\ UNCHANGED <<refreshes, target, approval, approved, first, disorder>>
<1>1. /\ UNCHANGED <<source, request, approval, refreshes, target, pan, manifests, approved, first,
                     disorder, unrecorded, applies, changes>>
      /\ (Fault \/ UNCHANGED faults) /\ job' = NoJob
      /\ (EndsEarly \/ UNCHANGED partial)
    BY DEF End, Killed
<1>2. faults' \in 0 .. MaxFaults
    BY <1>1, FaultsStay
<1>3. partial' \subseteq (Nat \X (Phases \cup {"palo"}))
    <2>1. job.dir \in Nat /\ job.phase \in Phases \cup {"palo"}
        BY DEF MigrationTypeInv, MigrationTypeOK, Job
    <2> QED
        BY <1>1, <2>1 DEF EndsEarly, MigrationTypeInv, MigrationTypeOK
<1>4. OtherTypes
    BY <1>1, <1>2, <1>3 DEF MigrationTypeInv, MigrationTypeOK, OtherTypes
<1> QED
    BY <1>1, <1>4, NoJobGood, TypesStay

LEMMA RefreshTypes == ASSUME MigrationTypeInv, Refresh PROVE MigrationTypeInv'
<1>1. /\ UNCHANGED <<source, request, approval, target, pan, job, unrecorded, changes, faults, history>>
      /\ Len(refreshes) < MaxRefreshes /\ manifests' = Append(manifests, <<>>) /\ job.kind = "none"
    BY DEF Refresh, AtRest
<1>2. MigrationTypeOK
    BY DEF MigrationTypeInv
<1>3. /\ refreshes' \in Seq(Run) /\ Len(refreshes') = Len(refreshes) + 1 /\ Len(refreshes) \in Nat
      /\ \A o \in Objects : PlacesOf(o)' = PlacesOf(o) /\ \A e \in PlacesOf(o) : BaselineAt(e)' = BaselineAt(e)
    <2>1. Len(refreshes) \in Nat
        BY <1>2 DEF MigrationTypeOK
    <2>2. refreshes' \in Seq(Run) /\ Len(refreshes') = Len(refreshes) + 1
        <3>1. "svc" \in Objects
            BY DEF Objects
        <3> QED
            BY <1>2, <3>1, RefreshPlaces
    <2>3. ASSUME NEW o \in Objects
          PROVE  PlacesOf(o)' = PlacesOf(o) /\ \A e \in PlacesOf(o) : BaselineAt(e)' = BaselineAt(e)
        BY <1>2, RefreshPlaces
    <2> QED
        BY <2>1, <2>2, <2>3
<1>4. manifests' \in Seq(Seq(SUBSET Pans)) /\ Len(manifests') = Len(refreshes) + 1
    <2>1. <<>> \in Seq(SUBSET Pans)
        OBVIOUS
    <2> QED
        BY <1>1, <1>2, <2>1 DEF MigrationTypeOK
<1>5. MigrationTypeOK'
    BY <1>1, <1>2, <1>3, <1>4, MigrationBounds DEF MigrationTypeOK, history
<1>6. \A o \in Objects : \A e \in PlacesOf(o)' : "absent" \in BaselineAt(e)'.was => BaselineAt(e)'.was = Absent
    BY <1>3 DEF MigrationTypeInv
<1> QED
    BY <1>1, <1>5, <1>6 DEF MigrationTypeInv

LEMMA MigrationTypeStep == MigrationTypeInv /\ [MigrationNext]_migrationVars => MigrationTypeInv'
<1> SUFFICES ASSUME MigrationTypeInv, [MigrationNext]_migrationVars PROVE MigrationTypeInv'
    OBVIOUS
<1>1. CASE UNCHANGED migrationVars
    BY <1>1 DEF migrationVars, MigrationTypeInv, MigrationTypeOK, Todo, PlacesOf, BaselineAt
<1>2. CASE MigrationNext
    BY <1>2, RequestTypes, RefreshTypes, StartTypes, ApplyTypes, RollbackTypes, PaloTypes, EndTypes
       DEF MigrationNext
<1> QED
    BY <1>1, <1>2

\* Every state of the requests, refreshes, baselines, managers and the job is
\* of its type; a job has only steps of its phase left, each once, and marks are
\* never mixed with the absence of an object.
THEOREM MigrationTypeCorrect == MigrationSpec => []MigrationTypeOK
<1>1. MigrationSpec => []MigrationTypeInv
    BY MigrationTypeInit, MigrationTypeStep, PTL DEF MigrationSpec
<1> QED
    BY <1>1, PTL DEF MigrationTypeInv

-----------------------------------------------------------------------------
(* Servers are as somebody approved them.                                   *)

Approved == {m.srv : m \in approved}
Servers(m) == m \cap ServerFacts

\* What was approved is what a gate let through, what a manager has, and what a
\* baseline would bring back to it.
ServerInv ==
    /\ MigrationTypeInv
    /\ approval # <<>> => approval[1] \in approved
    /\ \A d \in DOMAIN refreshes : refreshes[d].gate => refreshes[d].model.srv \in Approved
    /\ job.kind = "apply" => refreshes[job.dir].gate
    /\ \A o \in Objects : Servers(target[o]) \subseteq Approved
    /\ \A o \in Objects : \A e \in PlacesOf(o) : Servers(BaselineAt(e).was) \subseteq Approved

LEMMA ServerInit == MigrationInit => ServerInv
<1> SUFFICES ASSUME MigrationInit PROVE ServerInv
    OBVIOUS
<1>1. MigrationTypeInv
    BY MigrationTypeInit
<1>2. /\ approval = <<>> /\ DOMAIN refreshes = {} /\ job.kind # "apply" /\ \A o \in Objects : PlacesOf(o) = {}
    BY DEF MigrationInit, NoJob, PlacesOf
<1>3. ASSUME NEW o \in Objects PROVE Servers(target[o]) = {}
    <2>1. target[o] \in {{"own"}, {"own", "names sibling"}, Absent}
        BY ConstantsAssumption DEF MigrationInit
    <2> QED
        BY <2>1, ConstantsAssumption DEF Servers, Absent
<1> QED
    BY <1>1, <1>2, <1>3 DEF ServerInv

\* Nothing that was approved is forgotten.
LEMMA ApprovedGrows == ASSUME approved \subseteq approved' PROVE Approved \subseteq Approved'
BY DEF Approved

\* The baselines and managers as they were.
LEMMA ServersStay ==
    ASSUME ServerInv, MigrationTypeInv', UNCHANGED <<refreshes, target>>, approved \subseteq approved',
           approval' # <<>> => approval'[1] \in approved', job'.kind = "apply" => refreshes[job'.dir].gate
    PROVE  ServerInv'
<1>1. Approved \subseteq Approved'
    BY ApprovedGrows
<1>2. \A d \in DOMAIN refreshes' : refreshes'[d].gate => refreshes'[d].model.srv \in Approved'
    BY <1>1 DEF ServerInv
<1>3. \A o \in Objects : Servers(target'[o]) \subseteq Approved'
    BY <1>1 DEF ServerInv
<1>4. ASSUME NEW o \in Objects, NEW e \in PlacesOf(o)' PROVE Servers(BaselineAt(e)'.was) \subseteq Approved'
    BY <1>1, SamePlaces DEF ServerInv
<1> QED
    BY <1>2, <1>3, <1>4 DEF ServerInv, Servers

\* A tool takes or puts baselines, and writes, within what is approved.
LEMMA StepServers ==
    ASSUME ServerInv, MigrationTypeInv', StepOver, NEW d, NEW s, NEW st, OnlyStack(d, s, st),
           \A o \in Objects : Servers(target'[o]) \subseteq Approved,
           \A o \in Objects : \A e \in PlacesOf(o)' : Servers(BaselineAt(e)'.was) \subseteq Approved
    PROVE  ServerInv'
<1>1. approved' = approved /\ approval' = approval /\ Approved' = Approved
    BY DEF StepOver, history, Approved
<1>2. /\ \A r \in DOMAIN refreshes' : refreshes'[r].gate => refreshes'[r].model.srv \in Approved
      /\ job'.kind = "apply" => refreshes'[job'.dir].gate
    BY DEF OnlyStack, ServerInv, StepOver
<1> QED
    BY <1>1, <1>2 DEF ServerInv, Servers

LEMMA ApplyServers == ASSUME ServerInv, StepApply \/ StepApplyFails PROVE ServerInv'
<1> DEFINE s == Head(job.todo)
           o == Writes[s]
<1>1. StepOver /\ job.kind = "apply" /\ MigrationTypeInv /\ MigrationTypeInv'
    BY ApplyShape, ApplyTypes DEF ServerInv
<1>2. s \in StepNames /\ o \in Objects /\ job.dir \in DOMAIN refreshes /\ MigrationTypeOK
    BY <1>1, HeadTodo DEF StepOver, MigrationTypeInv
<1>3. CASE UNCHANGED <<refreshes, target>>
    BY <1>1, <1>3, ServersStay DEF StepOver, history, ServerInv
<1>4. ASSUME NEW b, SavedNow(s, b), PutOn(job.dir, s, b),
             \A q \in Objects : Servers(target'[q]) \subseteq Approved
      PROVE  ServerInv'
    <2>1. b \in Saved /\ Servers(b.was) \subseteq Approved
        BY <1>2, <1>4 DEF SavedNow, ServerInv
    <2>2. OnlyStack(job.dir, s, Append(Stack(job.dir, s), b))
        BY <1>2, <1>4, <2>1, PutPlaces DEF Objects
    <2>3. ASSUME NEW q \in Objects, NEW e \in PlacesOf(q)' PROVE Servers(BaselineAt(e)'.was) \subseteq Approved
        <3>1. PICK new \in {{<<job.dir, s, Len(Stack(job.dir, s)) + 1>>}, {}} : PlacesChange(q, new, {}, b)
            BY <1>2, <1>4, <2>1, PutPlaces
        <3>2. CASE e \in PlacesOf(q)
            BY <3>1, <3>2 DEF PlacesChange, ServerInv
        <3>3. CASE e \in new
            BY <2>1, <3>1, <3>3 DEF PlacesChange
        <3> QED
            BY <2>3, <3>1, <3>2, <3>3 DEF PlacesChange
    <2> QED
        BY <1>1, <1>4, <2>2, <2>3, StepServers
<1>5. CASE UNCHANGED target
    <2>1. \A q \in Objects : Servers(target'[q]) \subseteq Approved
        BY <1>5 DEF ServerInv
    <2> QED
        BY <1>1, <1>3, <1>4, <1>5, <2>1, ApplyShape
<1>6. CASE SetTo(o, Pushed(s, job.dir))
    <2>1. /\ Pushed(s, job.dir) \subseteq target[o] \cup {"names sibling", refreshes[job.dir].model.srv}
          /\ Clean(Pushed(s, job.dir))
        BY <1>1, <1>2, PushedClean
    <2>2. refreshes[job.dir].model.srv \in Approved
        BY <1>1, <1>2 DEF ServerInv
    <2>3. Servers(Pushed(s, job.dir)) \subseteq Approved /\ Servers(Absent) = {}
        BY <1>2, <2>1, <2>2, ConstantsAssumption DEF ServerInv, Servers, Absent
    <2>4. \A q \in Objects : target'[q] \in {Pushed(s, job.dir), Absent, target[q]}
        BY <1>1, <1>2, <1>6, <2>1, SetIsWrite
    <2>5. \A q \in Objects : Servers(target'[q]) \subseteq Approved
        BY <2>3, <2>4 DEF ServerInv
    <2> QED
        BY <1>3, <1>4, <1>5, <1>1, <2>5, ApplyShape
<1> QED
    BY <1>1, <1>3, <1>5, <1>6, ApplyShape

LEMMA RollbackServers == ASSUME ServerInv, StepRollback \/ StepRollbackFails PROVE ServerInv'
<1> DEFINE s == Head(job.todo)
           o == Writes[s]
           saved == Last(Stack(job.dir, s))
           e0 == <<job.dir, s, Len(Stack(job.dir, s))>>
<1>1. StepOver /\ job.kind = "rollback" /\ MigrationTypeInv /\ MigrationTypeInv'
    BY RollbackShape, RollbackTypes DEF ServerInv
<1>2. s \in StepNames /\ o \in Objects /\ job.dir \in DOMAIN refreshes /\ MigrationTypeOK
    BY <1>1, HeadTodo DEF StepOver, MigrationTypeInv
<1>3. CASE UNCHANGED <<refreshes, target>>
    BY <1>1, <1>3, ServersStay DEF StepOver, history, ServerInv
<1>4. CASE /\ Stack(job.dir, s) # <<>> /\ TakeOff(job.dir, s)
           /\ SetTo(o, IF LeftAlone(o, saved) THEN target[o] ELSE saved.was)
    <2>1. saved = BaselineAt(e0) /\ e0 \in PlacesOf(o)
        BY <1>2, <1>4, TakePlaces
    <2> DEFINE new == IF LeftAlone(o, saved) THEN target[o] ELSE saved.was
    <2>2. Clean(new) /\ Servers(new) \subseteq Approved /\ Servers(Absent) = {}
        BY <1>1, <1>2, <2>1, CleanIs, ConstantsAssumption DEF ServerInv, Servers, Absent
    <2>3. \A q \in Objects : target'[q] \in {new, Absent, target[q]}
        BY <1>1, <1>2, <1>4, <2>2, SetIsWrite
    <2>4. \A q \in Objects : Servers(target'[q]) \subseteq Approved
        BY <2>2, <2>3 DEF ServerInv
    <2>5. OnlyStack(job.dir, s, Front(Stack(job.dir, s)))
        BY <1>2, <1>4, TakePlaces
    <2>6. ASSUME NEW q \in Objects, NEW e \in PlacesOf(q)' PROVE Servers(BaselineAt(e)'.was) \subseteq Approved
        <3>1. PICK gone \in {{e0}, {}} : PlacesChange(q, {}, gone, saved)
            BY <1>2, <1>4, TakePlaces
        <3>2. e \in PlacesOf(q) /\ BaselineAt(e)' = BaselineAt(e)
            BY <2>6, <3>1 DEF PlacesChange
        <3> QED
            BY <3>2 DEF ServerInv
    <2> QED
        BY <1>1, <2>4, <2>5, <2>6, StepServers
<1> QED
    BY <1>1, <1>3, <1>4, RollbackShape

\* A refresh passes its gate only for the servers of the request it refreshes,
\* which is the approved one.
LEMMA RefreshServers == ASSUME ServerInv, Refresh PROVE ServerInv'
<1>1. /\ MigrationTypeInv /\ MigrationTypeInv' /\ MigrationTypeOK
      /\ UNCHANGED <<target, approval, job, approved>> /\ job.kind = "none"
      /\ approval # <<>> /\ approval = request /\ Approved' = Approved
    BY RefreshTypes DEF Refresh, ServerInv, MigrationTypeInv, history, AtRest, Approved
<1> DEFINE n == Len(refreshes) + 1
<1>2. /\ DOMAIN refreshes' = 1 .. n /\ DOMAIN refreshes = 1 .. Len(refreshes) /\ Len(refreshes) \in Nat
      /\ \A d \in DOMAIN refreshes : refreshes'[d] = refreshes[d]
      /\ refreshes'[n].gate => refreshes'[n].model.srv = request[1].srv
    <2>1. "svc" \in Objects /\ Len(refreshes) \in Nat
        BY <1>1 DEF Objects, MigrationTypeOK
    <2> QED
        BY <1>1, <2>1, RefreshPlaces
<1>3. request[1].srv \in Approved
    BY <1>1 DEF ServerInv, Approved
<1>4. \A d \in DOMAIN refreshes' : refreshes'[d].gate => refreshes'[d].model.srv \in Approved'
    <2>1. SUFFICES ASSUME NEW d \in DOMAIN refreshes', refreshes'[d].gate
                   PROVE  refreshes'[d].model.srv \in Approved'
        OBVIOUS
    <2>2. CASE d = n
        BY <1>1, <1>2, <1>3, <2>1, <2>2
    <2>3. CASE d # n
        <3>1. d \in DOMAIN refreshes
            BY <1>2, <2>1, <2>3
        <3> QED
            BY <1>1, <1>2, <2>1, <3>1 DEF ServerInv
    <2> QED
        BY <2>2, <2>3
<1>5. ASSUME NEW o \in Objects, NEW e \in PlacesOf(o)' PROVE Servers(BaselineAt(e)'.was) \subseteq Approved'
    BY <1>1, RefreshPlaces DEF ServerInv
<1> QED
    BY <1>1, <1>4, <1>5 DEF ServerInv, Servers

LEMMA ServerStep == ServerInv /\ [MigrationNext]_migrationVars => ServerInv'
<1> SUFFICES ASSUME ServerInv, [MigrationNext]_migrationVars PROVE ServerInv'
    OBVIOUS
<1>1. MigrationTypeInv /\ MigrationTypeInv'
    BY MigrationTypeStep DEF ServerInv
<1>2. CASE UNCHANGED migrationVars
    BY <1>1, <1>2, ServersStay DEF migrationVars, ServerInv
<1>3. CASE MakeRequest \/ Approve \/ SourceChanges
    <2>1. UNCHANGED <<refreshes, target, job>>
        BY <1>1, <1>3, RequestTypes
    <2>2. approved \subseteq approved' /\ (approval' # <<>> => approval'[1] \in approved')
        BY <1>3 DEF MakeRequest, Approve, SourceChanges, history, ServerInv
    <2> QED
        BY <1>1, <2>1, <2>2, ServersStay DEF ServerInv
<1>4. ASSUME NEW d \in DOMAIN refreshes, NEW p \in Phases \cup {"palo"}, ApplyStart(d, p) \/ RollbackStart(d, p)
      PROVE  ServerInv'
    <2>1. UNCHANGED <<refreshes, target, approval, approved>> /\ job'.dir = d
        BY <1>1, <1>4, StartTypes
    <2>2. job'.kind = "apply" => refreshes[d].gate
        BY <1>4, BeginKind DEF ApplyStart
    <2> QED
        BY <1>1, <2>1, <2>2, ServersStay DEF ServerInv
<1>5. CASE PaloPush \/ PaloRevert \/ End \/ Killed
    <2>1. UNCHANGED <<refreshes, target, approval, approved>> /\ job'.kind # "apply"
        BY <1>1, <1>5, PaloTypes, EndTypes DEF NoJob
    <2> QED
        BY <1>1, <2>1, ServersStay DEF ServerInv
<1> QED
    BY <1>2, <1>3, <1>4, <1>5, ApplyServers, RollbackServers, RefreshServers DEF MigrationNext

\* Whatever the source did between request, approval, refresh and apply, and
\* whatever a rollback brought back, no manager names servers as nobody
\* approved them.
THEOREM ServersOnlyAsApproved == MigrationSpec => []ServersAsApproved
<1>1. ServerInv => ServersAsApproved
    BY DEF ServerInv, ServersAsApproved, Servers, Approved
<1> QED
    BY <1>1, ServerInit, ServerStep, PTL DEF MigrationSpec

-----------------------------------------------------------------------------
(* What a rollback restores.                                                *)

TimeOf(e) == BaselineAt(e).at
Was(e) == BaselineAt(e).was
FirstMarks(o) == first[1][o]

\* Baseline e of object o is its oldest, its newest; none is newer, f is the
\* next newer one.
Oldest(o, e) == \A f \in PlacesOf(o) : f # e => TimeOf(e) < TimeOf(f)
Newest(o, e) == \A f \in PlacesOf(o) : f # e => TimeOf(f) < TimeOf(e)
NoneNewer(o, e) == \A f \in PlacesOf(o) : ~(TimeOf(e) < TimeOf(f))
NextNewer(o, e, f) == /\ TimeOf(e) < TimeOf(f)
                    /\ \A g \in PlacesOf(o) : TimeOf(e) < TimeOf(g) => g = f \/ TimeOf(f) < TimeOf(g)

\* The oldest baseline of an object has its first marks.
FirstKept(o) ==
    /\ PlacesOf(o) = {} => target[o] = FirstMarks(o)
    /\ \A e \in PlacesOf(o) : Oldest(o, e) => Was(e) = FirstMarks(o)

\* What the revert of a baseline leaves alone is gone by then: the next newer
\* baseline says so, or the manager.
LeftKept(o) ==
    \A e \in PlacesOf(o) : LeftAlone(o, BaselineAt(e)) =>
        \/ \E f \in PlacesOf(o) : NextNewer(o, e, f) /\ Was(f) = Absent
        \/ NoneNewer(o, e) /\ target[o] = Absent

\* A policy that was there first is never deleted, nor are the rules of it.
PolicyKept ==
    /\ FirstMarks("rule") # Absent => FirstMarks("pol") # Absent
    /\ FirstMarks("pol") # Absent =>
           target["pol"] # Absent /\ \A e \in PlacesOf("pol") : Was(e) # Absent

\* A stack is in the order of time.
Ordered ==
    \A d \in DOMAIN refreshes, s \in StepNames : \A i, j \in DOMAIN Stack(d, s) :
        i < j => Stack(d, s)[i].at < Stack(d, s)[j].at

\* What step s of a phase takes off is newer than all there is on its manager,
\* but for its own phase.
TakesNewest(d, phase, s) ==
    Stack(d, s) # <<>> =>
        \A r \in DOMAIN refreshes, t \in StepNames :
            Site(t) = Site(s) /\ <<r, PhaseOf(t)>> # <<d, phase>> =>
                \A k \in DOMAIN Stack(r, t) : Stack(r, t)[k].at < Last(Stack(d, s)).at
NewestLeft ==
    job.kind = "rollback" /\ ~disorder =>
        \A i \in DOMAIN job.todo : TakesNewest(job.dir, job.phase, job.todo[i])

RestoreInv ==
    /\ MigrationTypeInv /\ Ordered /\ NewestLeft
    /\ ~disorder => PolicyKept /\ \A o \in Objects : FirstKept(o) /\ LeftKept(o)

\* No two tools of a phase write the same object; one object is of one manager.
LEMMA OneWriter ==
    ASSUME NEW s \in StepNames, NEW t \in StepNames, Writes[s] = Writes[t]
    PROVE  Site(s) = Site(t) /\ (PhaseOf(s) = PhaseOf(t) => s = t)
<1>1. s \in {"a1", "a2", "a3", "a4", "c3", "c5", "d2a", "d3"} /\ t \in {"a1", "a2", "a3", "a4", "c3", "c5", "d2a", "d3"}
    BY StepFacts
<1>2. /\ Writes["a1"] = "svc" /\ Writes["a2"] = "grp" /\ Writes["a3"] = "pol" /\ Writes["a4"] = "rule"
      /\ Writes["c3"] = "sib" /\ Writes["c5"] = "rule" /\ Writes["d2a"] = "dsib" /\ Writes["d3"] = "srcrule"
    BY DEF Writes
<1>3. Site(s) = Site(t)
    BY <1>1, <1>2 DEF Site
<1>4. PhaseOf(s) = PhaseOf(t) => s = t
    BY <1>1, <1>2, PhaseIs
<1> QED
    BY <1>3, <1>4

LEMMA AtIs ==
    ASSUME MigrationTypeOK, NEW o \in Objects
    PROVE  \A e \in PlacesOf(o) : TimeOf(e) \in Nat /\ Was(e) \in SUBSET Marks
<1> SUFFICES ASSUME NEW e \in PlacesOf(o) PROVE TimeOf(e) \in Nat /\ Was(e) \in SUBSET Marks
    OBVIOUS
<1>1. e[1] \in DOMAIN refreshes /\ e[2] \in StepNames /\ e[3] \in DOMAIN refreshes[e[1]].stacks[e[2]]
    BY DEF PlacesOf
<1>2. BaselineAt(e) \in Saved
    BY <1>1, StackType DEF BaselineAt
<1> QED
    BY <1>2 DEF TimeOf, Was, Saved

\* A baseline newer than all, of what the manager has.
LEMMA PutKept ==
    ASSUME NEW o \in Objects, NEW e0, NEW b, PlacesChange(o, {e0}, {}, b), first' = first,
           \A e \in PlacesOf(o) : TimeOf(e) \in Nat, b.at \in Nat, \A e \in PlacesOf(o) : TimeOf(e) < b.at,
           b.was = target[o], LeftAlone(o, b) => target'[o] = Absent,
           FirstKept(o), LeftKept(o)
    PROVE  FirstKept(o)' /\ LeftKept(o)'
<1>1. /\ PlacesOf(o)' = PlacesOf(o) \cup {e0} /\ e0 \notin PlacesOf(o)
      /\ \A e \in PlacesOf(o) : BaselineAt(e)' = BaselineAt(e)
      /\ \A e : e = e0 => BaselineAt(e)' = b
    BY DEF PlacesChange
<1>2. /\ \A e \in PlacesOf(o) : TimeOf(e)' = TimeOf(e) /\ Was(e)' = Was(e)
      /\ \A e : e = e0 => TimeOf(e)' = b.at /\ Was(e)' = target[o]
    BY <1>1 DEF TimeOf, Was
<1>3. \A q : FirstMarks(q)' = FirstMarks(q)
    BY DEF FirstMarks
<1>4. FirstKept(o)'
    <2>1. SUFFICES ASSUME NEW e \in PlacesOf(o)', Oldest(o, e)' PROVE Was(e)' = FirstMarks(o)
        BY <1>1, <1>3 DEF FirstKept
    <2>2. \A f \in PlacesOf(o) \cup {e0} : f # e => TimeOf(e)' < TimeOf(f)'
        BY <1>1, <2>1 DEF Oldest
    <2>3. CASE e \in PlacesOf(o)
        <3>1. Oldest(o, e)
            BY <1>2, <2>2, <2>3 DEF Oldest
        <3> QED
            BY <1>2, <2>3, <3>1 DEF FirstKept
    <2>4. CASE e = e0
        <3>1. PlacesOf(o) = {}
            <4>1. ASSUME NEW f \in PlacesOf(o) PROVE FALSE
                BY <1>1, <1>2, <2>2, <2>4
            <4> QED
                BY <4>1
        <3> QED
            BY <1>2, <2>4, <3>1 DEF FirstKept
    <2> QED
        BY <1>1, <2>1, <2>3, <2>4
<1>5. ASSUME NEW e \in PlacesOf(o)', LeftAlone(o, BaselineAt(e))'
      PROVE  \/ \E f \in PlacesOf(o)' : NextNewer(o, e, f)' /\ Was(f)' = Absent
             \/ NoneNewer(o, e)' /\ target'[o] = Absent
    <2>1. CASE e = e0
        <3>1. LeftAlone(o, b)
            BY <1>1, <1>5, <2>1 DEF LeftAlone
        <3>2. NoneNewer(o, e)'
            BY <1>1, <1>2, <2>1 DEF NoneNewer
        <3> QED
            BY <3>1, <3>2
    <2>2. CASE e \in PlacesOf(o) /\ NoneNewer(o, e) /\ target[o] = Absent
        <3>1. \A f : f = e0 => NextNewer(o, e, f)' /\ Was(f)' = Absent
            <4>1. ASSUME NEW g \in PlacesOf(o)', TimeOf(e)' < TimeOf(g)' PROVE g = e0
                BY <1>1, <1>2, <2>2, <4>1 DEF NoneNewer
            <4> QED
                BY <1>1, <1>2, <2>2, <4>1 DEF NextNewer
        <3> QED
            BY <1>1, <3>1
    <2>3. ASSUME e \in PlacesOf(o), NEW f \in PlacesOf(o), NextNewer(o, e, f), Was(f) = Absent
          PROVE  NextNewer(o, e, f)' /\ Was(f)' = Absent
        BY <1>1, <1>2, <2>3 DEF NextNewer
    <2>4. e # e0 => e \in PlacesOf(o) /\ LeftAlone(o, BaselineAt(e))
        BY <1>1, <1>5 DEF LeftAlone
    <2> QED
        BY <1>1, <2>1, <2>2, <2>3, <2>4 DEF LeftKept
<1> QED
    BY <1>4, <1>5 DEF LeftKept

\* The newest baseline goes, and what it says is restored.
LEMMA TakeKept ==
    ASSUME NEW o \in Objects, NEW e0 \in PlacesOf(o), NEW b, PlacesChange(o, {}, {e0}, b), first' = first,
           \A e \in PlacesOf(o) : TimeOf(e) \in Nat, Newest(o, e0),
           target'[o] = IF LeftAlone(o, BaselineAt(e0)) THEN target[o] ELSE Was(e0),
           FirstKept(o), LeftKept(o)
    PROVE  FirstKept(o)' /\ LeftKept(o)'
<1>1. /\ PlacesOf(o)' = PlacesOf(o) \ {e0}
      /\ \A e \in PlacesOf(o) \ {e0} : BaselineAt(e)' = BaselineAt(e)
    BY DEF PlacesChange
<1>2. \A e \in PlacesOf(o) \ {e0} : TimeOf(e)' = TimeOf(e) /\ Was(e)' = Was(e)
    BY <1>1 DEF TimeOf, Was
<1>3. \A q : FirstMarks(q)' = FirstMarks(q)
    BY DEF FirstMarks
<1>4. \A e \in PlacesOf(o) : e # e0 => TimeOf(e) < TimeOf(e0)
    BY DEF Newest
<1>5. LeftAlone(o, BaselineAt(e0)) => target[o] = Absent /\ Was(e0) = Absent
    <2>1. \A f \in PlacesOf(o) : ~NextNewer(o, e0, f)
        BY <1>4 DEF NextNewer
    <2> QED
        BY <2>1 DEF LeftKept, LeftAlone, Was
<1>6. target'[o] = Was(e0)
    BY <1>5
<1>7. FirstKept(o)'
    <2>1. ASSUME PlacesOf(o)' = {} PROVE target'[o] = FirstMarks(o)
        <3>1. Oldest(o, e0)
            BY <1>1, <2>1 DEF Oldest
        <3> QED
            BY <1>6, <3>1 DEF FirstKept
    <2>2. ASSUME NEW e \in PlacesOf(o)', Oldest(o, e)' PROVE Was(e)' = FirstMarks(o)
        <3>1. \A f \in PlacesOf(o) \ {e0} : f # e => TimeOf(e)' < TimeOf(f)'
            BY <1>1, <2>2 DEF Oldest
        <3>2. Oldest(o, e)
            BY <1>1, <1>2, <1>4, <2>2, <3>1 DEF Oldest
        <3> QED
            BY <1>1, <1>2, <2>2, <3>2 DEF FirstKept
    <2> QED
        BY <1>3, <2>1, <2>2 DEF FirstKept
<1>8. ASSUME NEW e \in PlacesOf(o)', LeftAlone(o, BaselineAt(e))'
      PROVE  \/ \E f \in PlacesOf(o)' : NextNewer(o, e, f)' /\ Was(f)' = Absent
             \/ NoneNewer(o, e)' /\ target'[o] = Absent
    <2>1. e \in PlacesOf(o) /\ e # e0 /\ LeftAlone(o, BaselineAt(e)) /\ ~NoneNewer(o, e)
        BY <1>1, <1>4, <1>8 DEF LeftAlone, NoneNewer
    <2>2. PICK f \in PlacesOf(o) : NextNewer(o, e, f) /\ Was(f) = Absent
        BY <2>1 DEF LeftKept
    <2>3. CASE f # e0
        <3>1. NextNewer(o, e, f)'
            BY <1>1, <1>2, <2>1, <2>2, <2>3 DEF NextNewer
        <3> QED
            BY <1>1, <1>2, <2>2, <2>3, <3>1
    <2>4. CASE f = e0
        <3>1. target'[o] = Absent
            BY <1>6, <2>2, <2>4
        <3>2. ASSUME NEW g \in PlacesOf(o)' PROVE ~(TimeOf(e)' < TimeOf(g)')
            BY <1>1, <1>2, <1>4, <2>1, <2>2, <2>4, <3>2 DEF NextNewer
        <3> QED
            BY <3>1, <3>2 DEF NoneNewer
    <2> QED
        BY <2>3, <2>4
<1> QED
    BY <1>7, <1>8 DEF LeftKept

\* An object that no tool touched, or whose policy was deleted with it.
LEMMA SameKept ==
    ASSUME NEW o \in Objects, PlacesOf(o)' = PlacesOf(o),
           \A e \in PlacesOf(o) : BaselineAt(e)' = BaselineAt(e), first' = first,
           target'[o] = target[o] \/ (target'[o] = Absent /\ FirstMarks(o) = Absent),
           FirstKept(o), LeftKept(o)
    PROVE  FirstKept(o)' /\ LeftKept(o)'
<1>1. \A e \in PlacesOf(o) : TimeOf(e)' = TimeOf(e) /\ Was(e)' = Was(e)
    BY DEF TimeOf, Was
<1>2. \A q : FirstMarks(q)' = FirstMarks(q)
    BY DEF FirstMarks
<1>3. \A e \in PlacesOf(o) : Oldest(o, e)' <=> Oldest(o, e)
    BY <1>1 DEF Oldest
<1>4. \A e \in PlacesOf(o) : NoneNewer(o, e)' <=> NoneNewer(o, e)
    BY <1>1 DEF NoneNewer
<1>5. \A e, f \in PlacesOf(o) : NextNewer(o, e, f)' <=> NextNewer(o, e, f)
    BY <1>1 DEF NextNewer
<1>6. FirstKept(o)'
    BY <1>1, <1>2, <1>3 DEF FirstKept
<1>7. ASSUME NEW e \in PlacesOf(o)', LeftAlone(o, BaselineAt(e))'
      PROVE  \/ \E f \in PlacesOf(o)' : NextNewer(o, e, f)' /\ Was(f)' = Absent
             \/ NoneNewer(o, e)' /\ target'[o] = Absent
    <2>1. e \in PlacesOf(o) /\ LeftAlone(o, BaselineAt(e))
        BY <1>7 DEF LeftAlone
    <2> QED
        BY <1>1, <1>4, <1>5, <2>1 DEF LeftKept
<1> QED
    BY <1>6, <1>7 DEF LeftKept

LEMMA OrderedPut ==
    ASSUME MigrationTypeOK, Ordered, NEW d \in DOMAIN refreshes, NEW s \in StepNames, NEW b \in Saved,
           b.at = Clock(s), OnlyStack(d, s, Append(Stack(d, s), b))
    PROVE  Ordered'
<1>1. SUFFICES ASSUME NEW r \in DOMAIN refreshes, NEW t \in StepNames,
                      NEW i \in DOMAIN Stack(r, t)', NEW j \in DOMAIN Stack(r, t)', i < j
               PROVE  Stack(r, t)'[i].at < Stack(r, t)'[j].at
    BY DEF Ordered, OnlyStack
<1>2. CASE <<r, t>> # <<d, s>>
    <2>1. Stack(r, t)' = Stack(r, t)
        BY <1>2 DEF OnlyStack
    <2> QED
        BY <1>1, <2>1 DEF Ordered
<1>3. CASE r = d /\ t = s
    <2> DEFINE n == Len(Stack(d, s))
    <2>1. Stack(d, s) \in Seq(Saved) /\ n \in Nat /\ DOMAIN Stack(d, s) = 1 .. n
        BY StackType DEF Stack
    <2>2. Stack(r, t)' = Append(Stack(d, s), b)
        BY <1>3 DEF OnlyStack
    <2>3. \A k \in 1 .. n : Stack(d, s)[k].at < b.at
        BY <2>1, ClockIsLater DEF Stack
    <2>4. /\ DOMAIN Stack(r, t)' = 1 .. n + 1 /\ Stack(r, t)'[n + 1] = b
          /\ \A k \in 1 .. n : Stack(r, t)'[k] = Stack(d, s)[k]
        BY <2>1, <2>2
    <2> HIDE DEF n
    <2>5. i \in 1 .. n /\ (j \in 1 .. n \/ j = n + 1)
        BY <1>1, <2>1, <2>4
    <2>6. CASE j \in 1 .. n
        BY <1>1, <2>1, <2>4, <2>5, <2>6 DEF Ordered
    <2>7. CASE j = n + 1
        BY <2>3, <2>4, <2>5, <2>7
    <2> QED
        BY <2>5, <2>6, <2>7
<1> QED
    BY <1>2, <1>3

LEMMA OrderedTake ==
    ASSUME MigrationTypeOK, Ordered, NEW d \in DOMAIN refreshes, NEW s \in StepNames, Stack(d, s) # <<>>,
           OnlyStack(d, s, Front(Stack(d, s)))
    PROVE  Ordered'
<1>1. SUFFICES ASSUME NEW r \in DOMAIN refreshes, NEW t \in StepNames,
                      NEW i \in DOMAIN Stack(r, t)', NEW j \in DOMAIN Stack(r, t)', i < j
               PROVE  Stack(r, t)'[i].at < Stack(r, t)'[j].at
    BY DEF Ordered, OnlyStack
<1>2. CASE <<r, t>> # <<d, s>>
    <2>1. Stack(r, t)' = Stack(r, t)
        BY <1>2 DEF OnlyStack
    <2> QED
        BY <1>1, <2>1 DEF Ordered
<1>3. CASE r = d /\ t = s
    <2> DEFINE n == Len(Stack(d, s))
    <2>1. Stack(d, s) \in Seq(Saved) /\ n \in Nat \ {0} /\ DOMAIN Stack(d, s) = 1 .. n
        BY StackType DEF Stack
    <2>2. Stack(r, t)' = Front(Stack(d, s))
        BY <1>3 DEF OnlyStack
    <2>3. DOMAIN Stack(r, t)' = 1 .. n - 1 /\ \A k \in 1 .. n - 1 : Stack(r, t)'[k] = Stack(d, s)[k]
        BY <2>1, <2>2 DEF Front
    <2>4. i \in DOMAIN Stack(d, s) /\ j \in DOMAIN Stack(d, s)
        BY <2>1, <2>3
    <2> QED
        BY <1>1, <2>3, <2>4 DEF Ordered
<1> QED
    BY <1>2, <1>3

LEMMA OrderedStays ==
    ASSUME Ordered, DOMAIN refreshes' = DOMAIN refreshes,
           \A d \in DOMAIN refreshes, s \in StepNames : Stack(d, s)' = Stack(d, s)
    PROVE  Ordered'
BY DEF Ordered

\* In order of time, the last of a stack that a rollback takes off is newer
\* than all other baselines of its object.
LEMMA LastIsNewest ==
    ASSUME MigrationTypeOK, Ordered, NEW d \in DOMAIN refreshes, NEW s \in StepNames, Stack(d, s) # <<>>,
           NEW o \in Objects, Writes[s] = o, TakesNewest(d, PhaseOf(s), s)
    PROVE  Newest(o, <<d, s, Len(Stack(d, s))>>)
<1> DEFINE n == Len(Stack(d, s))
<1>1. /\ Stack(d, s) \in Seq(Saved) /\ n \in Nat \ {0} /\ DOMAIN Stack(d, s) = 1 .. n
      /\ Last(Stack(d, s)) = Stack(d, s)[n]
    BY StackType DEF Stack, Last
<1>2. SUFFICES ASSUME NEW f \in PlacesOf(o), f # <<d, s, n>>
               PROVE  TimeOf(f) < TimeOf(<<d, s, n>>)
    BY DEF Newest
<1>3. PICK r, t, k : f = <<r, t, k>>
    BY PlaceIs
<1>4. r \in DOMAIN refreshes /\ t \in StepNames /\ Writes[t] = o /\ k \in DOMAIN Stack(r, t)
    BY <1>3, InPlaces
<1>5. TimeOf(f) = Stack(r, t)[k].at /\ TimeOf(<<d, s, n>>) = Stack(d, s)[n].at
    BY <1>3, InPlaces DEF TimeOf
<1>6. Site(t) = Site(s) /\ (PhaseOf(t) = PhaseOf(s) => t = s)
    BY <1>4, OneWriter
<1>7. CASE <<r, PhaseOf(t)>> # <<d, PhaseOf(s)>>
    BY <1>1, <1>4, <1>5, <1>6, <1>7 DEF TakesNewest
<1>8. CASE r = d /\ t = s
    <2>1. k \in 1 .. n /\ k # n /\ n \in 1 .. n
        BY <1>1, <1>2, <1>3, <1>4, <1>8
    <2>3. n \in Nat
        BY <1>1
    <2> HIDE DEF n
    <2>2. k < n
        BY <2>1, <2>3
    <2> QED
        BY <1>1, <1>4, <1>5, <1>8, <2>1, <2>2 DEF Ordered
<1> QED
    BY <1>6, <1>7, <1>8

\* One step less: what the others take off is as it was.
LEMMA NewestStays ==
    ASSUME MigrationTypeInv, NewestLeft, job.kind = "rollback", StepOver, NEW st,
           refreshes' = refreshes \/ (OnlyStack(job.dir, Head(job.todo), st) /\ job'.todo = Tail(job.todo))
    PROVE  NewestLeft'
<1> DEFINE s == Head(job.todo)
<1>1. /\ job'.dir = job.dir /\ job'.phase = job.phase /\ disorder' = disorder
      /\ job'.todo \in {Tail(job.todo), <<>>} /\ job.dir \in DOMAIN refreshes /\ job.todo # <<>>
    BY DEF StepOver, history
<1>2. Todo(job.phase, job.todo) /\ job.todo \in Seq(StepNames)
    BY DEF MigrationTypeInv, Todo
<1>3. ASSUME NEW i \in DOMAIN job'.todo
      PROVE  \E j \in DOMAIN job.todo : job'.todo[i] = job.todo[j] /\ job.todo[j] # s
    <2>1. CASE job'.todo = <<>>
        <3>1. DOMAIN << >> = {}
            OBVIOUS
        <3> QED
            BY <1>3, <2>1, <3>1
    <2>2. CASE job'.todo = Tail(job.todo)
        <3>1. /\ i + 1 \in DOMAIN job.todo /\ job'.todo[i] = job.todo[i + 1] /\ 1 \in DOMAIN job.todo
              /\ s = job.todo[1] /\ i + 1 # 1
            BY <1>1, <1>2, <1>3, <2>2
        <3> QED
            BY <1>2, <3>1 DEF Todo
    <2> QED
        BY <1>1, <2>1, <2>2
<1>7. PhaseOf(s) = job.phase
    BY <1>1, HeadTodo
<1>8. /\ DOMAIN refreshes' = DOMAIN refreshes
      /\ \A r \in DOMAIN refreshes, t \in StepNames : <<r, t>> # <<job.dir, s>> => Stack(r, t)' = Stack(r, t)
    BY DEF OnlyStack, Stack
<1>9. ASSUME ~disorder, NEW d, NEW p, NEW q, d = job.dir, p = job.phase, q # s,
             NEW j \in DOMAIN job.todo, q = job.todo[j]
      PROVE  TakesNewest(d, p, q)'
    <2>1. d \in DOMAIN refreshes /\ q \in StepNames /\ TakesNewest(d, p, q)
        BY <1>1, <1>2, <1>9 DEF NewestLeft
    <2>2. Stack(d, q)' = Stack(d, q)
        BY <1>8, <1>9, <2>1
    <2>3. ASSUME NEW r \in DOMAIN refreshes, NEW t \in StepNames, <<r, PhaseOf(t)>> # <<d, p>>
          PROVE  Stack(r, t)' = Stack(r, t)
        BY <1>7, <1>8, <1>9, <2>3
    <2> HIDE DEF s
    <2> QED
        BY <1>8, <2>1, <2>2, <2>3 DEF TakesNewest
<1>10. ASSUME ~disorder, NEW d, NEW p, NEW q, d = job'.dir, p = job'.phase,
              NEW i \in DOMAIN job'.todo, q = job'.todo[i]
       PROVE  TakesNewest(d, p, q)'
    BY <1>1, <1>3, <1>9, <1>10
<1> QED
    BY <1>1, <1>10 DEF NewestLeft

LEMMA RestoreInit == MigrationInit => RestoreInv
<1> SUFFICES ASSUME MigrationInit PROVE RestoreInv
    OBVIOUS
<1>1. MigrationTypeInv /\ DOMAIN refreshes = {} /\ job.kind = "none" /\ \A o \in Objects : PlacesOf(o) = {}
    BY MigrationTypeInit DEF MigrationInit, NoJob, PlacesOf
<1>2. \A o \in Objects : FirstMarks(o) = target[o]
    BY DEF FirstMarks, MigrationInit
<1>3. \A o \in Objects : FirstKept(o) /\ LeftKept(o)
    BY <1>1, <1>2 DEF FirstKept, LeftKept
<1>4. PolicyKept
    <2>1. "pol" \in Objects /\ "rule" \in Objects
        BY DEF Objects
    <2>2. target["rule"] # Absent => target["pol"] # Absent
        BY ConstantsAssumption DEF MigrationInit
    <2> QED
        BY <1>1, <1>2, <2>1, <2>2 DEF PolicyKept
<1>5. Ordered /\ NewestLeft
    BY <1>1 DEF Ordered, NewestLeft
<1> QED
    BY <1>1, <1>3, <1>4, <1>5 DEF RestoreInv

\* A step that leaves the refreshes' baselines and the managers alone.
LEMMA RestoreStays ==
    ASSUME RestoreInv, MigrationTypeInv', target' = target, first' = first, disorder' \in BOOLEAN,
           disorder => disorder', Ordered', NewestLeft',
           \A o \in Objects : PlacesOf(o)' = PlacesOf(o) /\ \A e \in PlacesOf(o) : BaselineAt(e)' = BaselineAt(e)
    PROVE  RestoreInv'
<1>1. SUFFICES ASSUME ~disorder' PROVE PolicyKept' /\ \A o \in Objects : FirstKept(o)' /\ LeftKept(o)'
    BY DEF RestoreInv
<1>2. ~disorder /\ PolicyKept /\ \A o \in Objects : FirstKept(o) /\ LeftKept(o)
    BY <1>1 DEF RestoreInv
<1>3. \A o \in Objects : FirstKept(o)' /\ LeftKept(o)'
    BY <1>2, SameKept
<1>4. PolicyKept'
    <2>1. "pol" \in Objects
        BY DEF Objects
    <2> QED
        BY <1>2, <2>1 DEF PolicyKept, FirstMarks, Was
<1> QED
    BY <1>3, <1>4

LEMMA OutOfRunRestores ==
    ASSUME RestoreInv, MigrationTypeInv', UNCHANGED <<refreshes, target, first, disorder>>, NewestLeft'
    PROVE  RestoreInv'
<1>1. Ordered'
    BY OrderedStays DEF RestoreInv, Stack
<1>2. disorder' \in BOOLEAN /\ (disorder => disorder')
    BY DEF RestoreInv, MigrationTypeInv, MigrationTypeOK
<1> QED
    BY <1>1, <1>2, SamePlaces, RestoreStays

\* What a tool of an apply writes is never nothing, but for amend-refs where
\* there is nothing.
LEMMA PushedIs ==
    ASSUME MigrationTypeInv, NEW s \in StepNames, NEW d \in DOMAIN refreshes
    PROVE  /\ Pushed(s, d) = Absent => s \in DOMAIN Amends /\ target[Writes[s]] = Absent
           /\ s \in DOMAIN Amends /\ target[Writes[s]] = Absent => Pushed(s, d) = Absent
<1>1. Writes[s] \in Objects /\ Clean(target[Writes[s]])
    BY StepFacts, CleanIs
<1>2. refreshes[d].model.srv \in ServerFacts
    <2>1. refreshes[d] \in Run
        BY StackType DEF MigrationTypeInv
    <2>2. refreshes[d].model \in Sources
        BY <2>1 DEF Run
    <2> QED
        BY <2>2 DEF Sources
<1>3. refreshes[d].model.srv # "absent"
    BY <1>2, ConstantsAssumption
<1> QED
    BY <1>1, <1>3 DEF Pushed, Has, Absent

\* A tool of an apply has put a baseline.
LEMMA PutRestores ==
    ASSUME RestoreInv, MigrationTypeInv', StepOver, job.kind = "apply",
           NEW b, SavedNow(Head(job.todo), b), PutOn(job.dir, Head(job.todo), b),
           \A q \in Objects : q # Writes[Head(job.todo)] => target'[q] = target[q],
           LeftAlone(Writes[Head(job.todo)], b) => target'[Writes[Head(job.todo)]] = Absent,
           target'["pol"] = Absent => target["pol"] = Absent
    PROVE  RestoreInv'
<1> DEFINE s == Head(job.todo)
           o == Writes[s]
           e0 == <<job.dir, s, Len(Stack(job.dir, s)) + 1>>
<1>1. /\ MigrationTypeInv /\ MigrationTypeOK /\ s \in StepNames /\ o \in Objects /\ job.dir \in DOMAIN refreshes
      /\ disorder' = disorder /\ first' = first /\ job'.kind = "apply"
      /\ b \in Saved /\ b.was = target[o] /\ b.at = Clock(s)
    BY HeadTodo DEF RestoreInv, MigrationTypeInv, StepOver, history, SavedNow
<1>2. /\ OnlyStack(job.dir, s, Append(Stack(job.dir, s), b))
      /\ \A q \in Objects : PlacesChange(q, IF o = q THEN {e0} ELSE {}, {}, b)
    <2>1. ASSUME NEW q \in Objects
          PROVE  /\ OnlyStack(job.dir, s, Append(Stack(job.dir, s), b))
                 /\ PlacesChange(q, IF o = q THEN {e0} ELSE {}, {}, b)
        BY <1>1, PutPlaces
    <2> QED
        BY <1>1, <2>1
<1>3. Ordered' /\ NewestLeft'
    BY <1>1, <1>2, OrderedPut DEF NewestLeft, RestoreInv
<1>4. SUFFICES ASSUME ~disorder PROVE PolicyKept' /\ \A q \in Objects : FirstKept(q)' /\ LeftKept(q)'
    BY <1>1, <1>3 DEF RestoreInv
<1>5. PolicyKept /\ \A q \in Objects : FirstKept(q) /\ LeftKept(q)
    BY <1>4 DEF RestoreInv
<1>6. \A e \in PlacesOf(o) : TimeOf(e) \in Nat /\ TimeOf(e) < b.at
    <2>1. SUFFICES ASSUME NEW e \in PlacesOf(o) PROVE TimeOf(e) \in Nat /\ TimeOf(e) < b.at
        OBVIOUS
    <2>2. /\ e[1] \in DOMAIN refreshes /\ e[2] \in StepNames /\ Writes[e[2]] = o
          /\ e[3] \in DOMAIN refreshes[e[1]].stacks[e[2]]
        BY DEF PlacesOf
    <2>3. Site(e[2]) = Site(s)
        BY <1>1, <2>2, OneWriter
    <2> HIDE DEF s, o
    <2> QED
        BY <1>1, <2>2, <2>3, AtIs, ClockIsLater DEF TimeOf, BaselineAt
<1>7. ASSUME NEW q \in Objects, q = o PROVE FirstKept(q)' /\ LeftKept(q)'
    <2>1. b.at \in Nat
        BY <1>1, ClockIsLater
    <2>2. PlacesChange(q, {e0}, {}, b)
        BY <1>2, <1>7
    <2>3. LeftAlone(q, b) => target'[q] = Absent
        BY <1>7
    <2>4. b.was = target[q] /\ \A e \in PlacesOf(q) : TimeOf(e) \in Nat /\ TimeOf(e) < b.at
        BY <1>1, <1>6, <1>7
    <2> HIDE DEF o
    <2> QED
        BY <1>1, <1>5, <2>1, <2>2, <2>3, <2>4, PutKept
<1>8. ASSUME NEW q \in Objects, q # o PROVE FirstKept(q)' /\ LeftKept(q)'
    <2>1. PlacesOf(q)' = PlacesOf(q) /\ \A e \in PlacesOf(q) : BaselineAt(e)' = BaselineAt(e)
        <3>1. PlacesChange(q, {}, {}, b)
            BY <1>2, <1>8
        <3> QED
            BY <3>1 DEF PlacesChange
    <2> QED
        BY <1>1, <1>5, <1>8, <2>1, SameKept
<1>9. PolicyKept'
    <2>1. "pol" \in Objects /\ \A q : FirstMarks(q)' = FirstMarks(q)
        BY <1>1 DEF Objects, FirstMarks
    <2>2. PlacesChange("pol", IF o = "pol" THEN {e0} ELSE {}, {}, b)
        BY <1>2, <2>1
    <2>3. \A e \in PlacesOf("pol") : Was(e)' = Was(e)
        BY <2>2 DEF PlacesChange, Was
    <2>4. o = "pol" => \A e : e = e0 => Was(e)' = target["pol"]
        BY <1>1, <2>2 DEF PlacesChange, Was
    <2>5. \A e \in PlacesOf("pol")' : e \in PlacesOf("pol") \/ (o = "pol" /\ e = e0)
        BY <2>2 DEF PlacesChange
    <2> HIDE DEF o, e0
    <2> QED
        BY <1>5, <2>1, <2>3, <2>4, <2>5 DEF PolicyKept
<1> HIDE DEF o
<1> QED
    BY <1>7, <1>8, <1>9

LEMMA ApplyRestores == ASSUME RestoreInv, StepApply \/ StepApplyFails PROVE RestoreInv'
<1> DEFINE s == Head(job.todo)
           o == Writes[s]
<1>1. MigrationTypeInv /\ MigrationTypeInv'
    BY ApplyTypes DEF RestoreInv
<1>2. /\ StepOver /\ job.kind = "apply" /\ s \in StepNames /\ o \in Objects /\ job.dir \in DOMAIN refreshes
      /\ first' = first /\ disorder' = disorder /\ job'.kind = "apply"
    BY <1>1, ApplyShape, HeadTodo DEF StepOver, history
<1>3. CASE UNCHANGED <<refreshes, target>>
    BY <1>1, <1>2, <1>3, OutOfRunRestores DEF NewestLeft
<1>4. ASSUME NEW b, SavedNow(s, b), PutOn(job.dir, s, b), UNCHANGED target PROVE RestoreInv'
    <2>1. LeftAlone(o, b) => target'[o] = Absent
        BY <1>4 DEF LeftAlone, SavedNow
    <2> QED
        BY <1>1, <1>2, <1>4, <2>1, PutRestores
<1>5. ASSUME NEW b, SavedNow(s, b), PutOn(job.dir, s, b), SetTo(o, Pushed(s, job.dir)),
             b.created \/ b.was # Absent \/ s \in DOMAIN Amends
      PROVE  RestoreInv'
    <2>1. Clean(Pushed(s, job.dir))
        BY <1>1, <1>2, PushedClean
    <2>2. Pushed(s, job.dir) = Absent => target[o] = Absent /\ s \in DOMAIN Amends
        BY <1>1, <1>2, PushedIs
    <2>3. s \in DOMAIN Amends => o # "pol"
        BY StepFacts DEF Writes
    <2>4. /\ target'[o] = Pushed(s, job.dir)
          /\ \A q \in Objects : q # o => target'[q] = target[q]
        BY <1>1, <1>2, <1>5, <2>1, <2>2, <2>3, SetIsWrite
    <2>5. LeftAlone(o, b) => target'[o] = Absent
        BY <1>1, <1>2, <1>5, <2>4, PushedIs DEF LeftAlone, SavedNow
    <2>6. target'["pol"] = Absent => target["pol"] = Absent
        BY <2>2, <2>4 DEF Objects
    <2> QED
        BY <1>1, <1>2, <1>5, <2>4, <2>5, <2>6, PutRestores
<1> QED
    BY <1>1, <1>3, <1>4, <1>5, ApplyShape

LEMMA RollbackRestoresStep == ASSUME RestoreInv, StepRollback \/ StepRollbackFails PROVE RestoreInv'
<1> DEFINE s == Head(job.todo)
           o == Writes[s]
           saved == Last(Stack(job.dir, s))
           e0 == <<job.dir, s, Len(Stack(job.dir, s))>>
<1>1. MigrationTypeInv /\ MigrationTypeInv' /\ MigrationTypeOK
    BY RollbackTypes DEF RestoreInv, MigrationTypeInv
<1>2. /\ StepOver /\ job.kind = "rollback" /\ s \in StepNames /\ o \in Objects /\ job.dir \in DOMAIN refreshes
      /\ first' = first /\ disorder' = disorder /\ PhaseOf(s) = job.phase /\ job.todo # <<>>
    BY <1>1, RollbackShape, HeadTodo DEF StepOver, history
<1>3. CASE UNCHANGED <<refreshes, target>>
    BY <1>1, <1>2, <1>3, NewestStays, OutOfRunRestores DEF RestoreInv
<1>4. CASE /\ Stack(job.dir, s) # <<>> /\ TakeOff(job.dir, s) /\ job'.todo = Tail(job.todo)
           /\ SetTo(o, IF LeftAlone(o, saved) THEN target[o] ELSE saved.was)
    <2>1. /\ OnlyStack(job.dir, s, Front(Stack(job.dir, s)))
          /\ \A q \in Objects : PlacesChange(q, {}, IF o = q THEN {e0} ELSE {}, saved)
          /\ saved = BaselineAt(e0) /\ e0 \in PlacesOf(o)
        <3>1. ASSUME NEW q \in Objects
              PROVE  /\ OnlyStack(job.dir, s, Front(Stack(job.dir, s)))
                     /\ PlacesChange(q, {}, IF o = q THEN {e0} ELSE {}, saved)
                     /\ saved = BaselineAt(e0) /\ (o = q => e0 \in PlacesOf(q))
            BY <1>1, <1>2, <1>4, TakePlaces
        <3> QED
            BY <1>2, <3>1
    <2>2. Ordered'
        BY <1>1, <1>2, <1>4, <2>1, OrderedTake DEF RestoreInv
    <2>3. NewestLeft'
        BY <1>1, <1>2, <1>4, <2>1, NewestStays DEF RestoreInv
    <2>4. SUFFICES ASSUME ~disorder PROVE PolicyKept' /\ \A q \in Objects : FirstKept(q)' /\ LeftKept(q)'
        BY <1>1, <1>2, <2>2, <2>3 DEF RestoreInv
    <2>5. Ordered /\ PolicyKept /\ \A q \in Objects : FirstKept(q) /\ LeftKept(q)
        BY <2>4 DEF RestoreInv
    <2>6. Newest(o, e0)
        <3>1. 1 \in DOMAIN job.todo /\ s = job.todo[1]
            BY <1>1, <1>2 DEF MigrationTypeInv, Todo
        <3>2. TakesNewest(job.dir, PhaseOf(s), s)
            BY <1>2, <2>4, <3>1 DEF RestoreInv, NewestLeft
        <3> QED
            BY <1>1, <1>2, <1>4, <2>5, <3>2, LastIsNewest
    <2> DEFINE new == IF LeftAlone(o, saved) THEN target[o] ELSE saved.was
    <2>7. Clean(new)
        BY <1>1, <1>2, <2>1, CleanIs
    <2>8. /\ target'[o] = new
          /\ \A q \in Objects : q # o =>
                 target'[q] = IF q = "rule" /\ o = "pol" /\ new = Absent THEN Absent ELSE target[q]
        BY <1>1, <1>2, <1>4, <2>7, SetIsWrite
    <2>9. ASSUME NEW q \in Objects, q = o PROVE FirstKept(q)' /\ LeftKept(q)'
        <3>1. \A e \in PlacesOf(q) : TimeOf(e) \in Nat
            BY <1>1, AtIs
        <3>2. PlacesChange(q, {}, {e0}, saved) /\ e0 \in PlacesOf(q) /\ Newest(q, e0)
            BY <2>1, <2>6, <2>9
        <3>3. target'[q] = IF LeftAlone(q, BaselineAt(e0)) THEN target[q] ELSE Was(e0)
            BY <2>1, <2>8, <2>9 DEF Was
        <3> HIDE DEF o, e0, saved
        <3> QED
            BY <1>2, <2>5, <3>1, <3>2, <3>3, TakeKept
    <2>10. o = "pol" /\ new = Absent => FirstMarks("pol") = Absent /\ FirstMarks("rule") = Absent
        BY <2>1, <2>5 DEF PolicyKept, LeftAlone, Was
    <2>11. ASSUME NEW q \in Objects, q # o PROVE FirstKept(q)' /\ LeftKept(q)'
        <3>1. PlacesOf(q)' = PlacesOf(q) /\ \A e \in PlacesOf(q) : BaselineAt(e)' = BaselineAt(e)
            BY <2>1, <2>11 DEF PlacesChange
        <3>2. target'[q] = target[q] \/ (target'[q] = Absent /\ FirstMarks(q) = Absent)
            BY <2>8, <2>10, <2>11
        <3> QED
            BY <1>2, <2>5, <2>11, <3>1, <3>2, SameKept
    <2>12. PolicyKept'
        <3>1. "pol" \in Objects /\ \A q : FirstMarks(q)' = FirstMarks(q)
            BY <1>2 DEF Objects, FirstMarks
        <3>2. \A e \in PlacesOf("pol")' : e \in PlacesOf("pol") /\ Was(e)' = Was(e)
            <4>1. PlacesChange("pol", {}, IF o = "pol" THEN {e0} ELSE {}, saved)
                BY <2>1, <3>1
            <4> QED
                BY <4>1 DEF PlacesChange, Was
        <3>3. FirstMarks("pol") # Absent => target'["pol"] # Absent
            BY <2>5, <2>8, <2>10, <3>1 DEF PolicyKept
        <3> QED
            BY <2>5, <3>1, <3>2, <3>3 DEF PolicyKept
    <2> HIDE DEF o
    <2> QED
        BY <2>9, <2>11, <2>12
<1> QED
    BY <1>1, <1>3, <1>4, RollbackShape

LEMMA RestoreStep == RestoreInv /\ [MigrationNext]_migrationVars => RestoreInv'
<1> SUFFICES ASSUME RestoreInv, [MigrationNext]_migrationVars PROVE RestoreInv'
    OBVIOUS
<1>1. MigrationTypeInv /\ MigrationTypeInv' /\ MigrationTypeOK
    BY MigrationTypeStep DEF RestoreInv, MigrationTypeInv
<1>2. CASE UNCHANGED migrationVars
    <2>1. UNCHANGED <<refreshes, target, first, disorder, job>>
        BY <1>2 DEF migrationVars
    <2>2. NewestLeft'
        BY <2>1 DEF RestoreInv, NewestLeft, TakesNewest, Stack
    <2> QED
        BY <1>1, <2>1, <2>2, OutOfRunRestores
<1>3. CASE MakeRequest \/ Approve \/ SourceChanges
    <2>1. UNCHANGED <<refreshes, target, first, disorder, job>>
        BY <1>1, <1>3, RequestTypes
    <2>2. NewestLeft'
        BY <2>1 DEF RestoreInv, NewestLeft, TakesNewest, Stack
    <2> QED
        BY <1>1, <2>1, <2>2, OutOfRunRestores
<1>4. CASE PaloPush \/ PaloRevert \/ End \/ Killed
    <2>1. UNCHANGED <<refreshes, target, first, disorder>> /\ job' = NoJob
        BY <1>1, <1>4, PaloTypes, EndTypes
    <2>2. NewestLeft'
        BY <2>1 DEF NewestLeft, NoJob
    <2> QED
        BY <1>1, <2>1, <2>2, OutOfRunRestores
<1>5. ASSUME NEW d \in DOMAIN refreshes, NEW p \in Phases \cup {"palo"}, ApplyStart(d, p)
      PROVE  RestoreInv'
    <2>1. UNCHANGED <<refreshes, target, first, disorder>> /\ job'.kind = "apply"
        BY <1>1, <1>5, StartTypes
    <2>2. NewestLeft'
        BY <2>1 DEF NewestLeft
    <2> QED
        BY <1>1, <2>1, <2>2, OutOfRunRestores
<1>6. ASSUME NEW d \in DOMAIN refreshes, NEW p \in Phases \cup {"palo"}, RollbackStart(d, p)
      PROVE  RestoreInv'
    <2>1. /\ UNCHANGED <<refreshes, target, first>> /\ job'.dir = d /\ job'.phase = p
          /\ disorder' = (disorder \/ ~NewestFirst(d, p))
        BY <1>1, <1>6, StartTypes DEF RollbackStart
    <2>2. Ordered'
        BY <2>1, OrderedStays DEF RestoreInv, Stack
    <2>3. disorder' \in BOOLEAN /\ (disorder => disorder')
        BY <1>1, <2>1 DEF MigrationTypeInv, MigrationTypeOK
    <2>4. ASSUME NewestFirst(d, p), NEW s \in StepNames, PhaseOf(s) = p PROVE TakesNewest(d, p, s)
        BY <2>4 DEF NewestFirst, TakesNewest, Stack
    <2>5. \A i \in DOMAIN job'.todo : job'.todo[i] \in StepNames /\ PhaseOf(job'.todo[i]) = p
        BY <1>1, <2>1 DEF MigrationTypeInv, Todo
    <2>6. ASSUME NEW e, NEW q, NEW s, TakesNewest(e, q, s) PROVE TakesNewest(e, q, s)'
        BY <2>1, <2>6 DEF TakesNewest, Stack
    <2>7. ASSUME NewestFirst(d, p), NEW e, NEW q, NEW s, e = job'.dir, q = job'.phase,
                 NEW i \in DOMAIN job'.todo, s = job'.todo[i]
          PROVE  TakesNewest(e, q, s)'
        BY <2>1, <2>4, <2>5, <2>6, <2>7
    <2>8. NewestLeft'
        BY <2>1, <2>7 DEF NewestLeft
    <2> QED
        BY <1>1, <2>1, <2>2, <2>3, <2>8, SamePlaces, RestoreStays
<1>7. CASE Refresh
    <2>1. UNCHANGED <<target, first, disorder, job>> /\ job.kind = "none"
        BY <1>7 DEF Refresh, history, AtRest
    <2>2. /\ DOMAIN refreshes' = 1 .. Len(refreshes) + 1 /\ DOMAIN refreshes = 1 .. Len(refreshes)
          /\ \A d \in DOMAIN refreshes : refreshes'[d] = refreshes[d]
          /\ \A t \in StepNames : refreshes'[Len(refreshes) + 1].stacks[t] = <<>>
        <3>1. "svc" \in Objects
            BY DEF Objects
        <3> QED
            BY <1>1, <1>7, <3>1, RefreshPlaces
    <2>3. Ordered'
        <3> DEFINE n == Len(refreshes)
        <3>1. n \in Nat /\ DOMAIN << >> = {}
            BY <1>1 DEF MigrationTypeOK
        <3>2. ASSUME NEW d \in DOMAIN refreshes', NEW s \in StepNames
              PROVE  Stack(d, s)' = <<>> \/ (d \in DOMAIN refreshes /\ Stack(d, s)' = Stack(d, s))
            <4>1. d \in DOMAIN refreshes \/ d = n + 1
                BY <2>2, <3>1, <3>2
            <4> QED
                BY <2>2, <4>1 DEF Stack
        <3> HIDE DEF n
        <3> QED
            BY <3>1, <3>2 DEF Ordered, RestoreInv
    <2>4. NewestLeft' /\ disorder' \in BOOLEAN /\ (disorder => disorder')
        BY <1>1, <2>1 DEF NewestLeft, MigrationTypeOK
    <2>5. \A o \in Objects : PlacesOf(o)' = PlacesOf(o) /\ \A e \in PlacesOf(o) : BaselineAt(e)' = BaselineAt(e)
        BY <1>1, <1>7, RefreshPlaces
    <2> QED
        BY <1>1, <2>1, <2>3, <2>4, <2>5, RestoreStays
<1> QED
    BY <1>2, <1>3, <1>4, <1>5, <1>6, <1>7, ApplyRestores, RollbackRestoresStep DEF MigrationNext

\* Runs share rules and groups, and each has a stack of its own for the same
\* one.  Rolled back newest first, with applies that failed or were killed
\* half way among them, they leave every object as it was before the first.
THEOREM RollbackRestoresFirst == MigrationSpec => []RollbackRestores
<1>1. RestoreInv => RollbackRestores
    <2> SUFFICES ASSUME RestoreInv, ~disorder, \A r \in DOMAIN refreshes, s \in StepNames : refreshes[r].stacks[s] = <<>>
                 PROVE  target = first[1]
        BY DEF RollbackRestores
    <2>1. \A o \in Objects : PlacesOf(o) = {}
        <3>1. ASSUME NEW o \in Objects, NEW e \in PlacesOf(o) PROVE FALSE
            <4>1. DOMAIN << >> = {}
                OBVIOUS
            <4>2. e[1] \in DOMAIN refreshes /\ e[2] \in StepNames /\ e[3] \in DOMAIN refreshes[e[1]].stacks[e[2]]
                BY DEF PlacesOf
            <4> QED
                BY <4>1, <4>2
        <3> QED
            BY <3>1
    <2>2. \A o \in Objects : target[o] = first[1][o]
        BY <2>1 DEF RestoreInv, FirstKept, FirstMarks
    <2>3. target \in States /\ first[1] \in States
        BY DEF RestoreInv, MigrationTypeInv, MigrationTypeOK
    <2> QED
        BY <2>2, <2>3 DEF States
<1> QED
    BY <1>1, RestoreInit, RestoreStep, PTL DEF MigrationSpec
=============================================================================
