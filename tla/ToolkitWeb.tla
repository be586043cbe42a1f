----------------------------- MODULE ToolkitWeb ------------------------------
(***************************************************************************)
(* The web server tools/pan/ssdd_toolkit_web.py.  Every request has a       *)
(* thread of its own (ThreadingHTTPServer) and nothing is locked: the       *)
(* threads share SNAPSHOT, TOPOLOGY and DG_SUBNETS, and every read of one of *)
(* them is a step.  A pull is known by its number, which stands for          *)
(* pulled_at; what a tool computes from a pull is known by the pull.         *)
(***************************************************************************)
EXTENDS Naturals, Sequences, FiniteSets

CONSTANTS Threads,        \* requests served at a time
          Torn,           \* what a file holds that is not written to its end
          MaxPulls, MaxStarts, MaxSecond   \* bounds: pulls fetched, requests, the clock

ASSUME TornAssumption == Torn \notin Nat
ASSUME BoundsAssumption == MaxPulls \in Nat /\ MaxStarts \in Nat /\ MaxSecond \in Nat \ {0}

VARIABLES
    memory,               \* SNAPSHOT and TOPOLOGY: the pull they hold, Nothing when cleared
    file,                 \* web_snapshot.json, web_topology.json: pull, Torn or Nothing
    cache,                \* DG_SUBNETS: [key, of], the label and the pull of the profiles
    req,                  \* the request of each thread
    runs,                 \* the saved runs: <<kind, second>> -> Torn or the run
    pulls, starts, second,
    shown                 \* history: the pulls each store held since the server started
webVars == <<memory, file, cache, req, runs, pulls, starts, second, shown>>

Nothing == 0
Stores == {"snapshot", "topology"}
Kinds == {"search", "flow", "placement"}
Numbers == 0 .. MaxPulls
EmptyCache == [key |-> Nothing, of |-> Nothing]
\* at: the next step.  store, pull: of a pull.  dgs, of, label: the pulls the
\* device groups, the rules and pulled_at were read from; tables, topology: the
\* same of the routing.  key: the label its profiles are cached by.
NoRequest == [at |-> "idle", kind |-> "none", store |-> "none", pull |-> Nothing, dgs |-> Nothing,
              of |-> Nothing, label |-> Nothing, tables |-> Nothing, topology |-> Nothing,
              key |-> Nothing, second |-> 0]

Steps == {"idle", "fetch", "clear", "update", "open", "write", "groups", "rules", "label",
          "routing", "tables", "history", "key", "cached", "build", "drop", "keep", "profiles",
          "historyLabel", "routingLabel", "create", "save"}
Requests == [at : Steps, kind : Kinds \cup {"map", "none"}, store : Stores \cup {"none"},
             pull : Numbers, dgs : Numbers, of : Numbers, label : Numbers, tables : Numbers,
             topology : Numbers, key : Numbers, second : 0 .. MaxSecond]
WebTypeOK ==
    /\ memory \in [Stores -> Numbers]
    /\ file \in [Stores -> Numbers \cup {Torn}]
    /\ cache \in [key : Numbers, of : Numbers]
    /\ req \in [Threads -> Requests]
    /\ \A t \in Threads : req[t].at \in {"fetch", "clear", "update", "open", "write"} => req[t].store # "none"
    /\ pulls \in Numbers /\ second \in 1 .. MaxSecond

WebInit ==
    /\ memory = [s \in Stores |-> Nothing] /\ file = memory
    /\ cache = EmptyCache /\ req = [t \in Threads |-> NoRequest] /\ runs = <<>>
    /\ pulls = 0 /\ starts = 0 /\ second = 1
    /\ shown = [s \in Stores |-> <<>>]

At(t, step) == req[t].at = step
Goes(t, step) == req' = [req EXCEPT ![t] = [@ EXCEPT !.at = step]]
Answered(t) == req' = [req EXCEPT ![t] = NoRequest]
Begins(t, r) == /\ At(t, "idle") /\ starts < MaxStarts /\ starts' = starts + 1
                /\ req' = [req EXCEPT ![t] = r]
\* A read of a store that is cleared is a KeyError: answer 500, nothing saved.
Reads(t, store, r) == req' = [req EXCEPT ![t] = IF memory[store] = Nothing THEN NoRequest ELSE r]

-----------------------------------------------------------------------------
(* Pulls: fetch everything, then replace the store, then write its file.    *)

Pull(t) == /\ \E s \in Stores : Begins(t, [NoRequest EXCEPT !.at = "fetch", !.store = s])
           /\ UNCHANGED <<memory, file, cache, runs, pulls, second, shown>>
\* PanRestError: 502.
PullFails(t) == /\ At(t, "fetch") /\ Answered(t)
                /\ UNCHANGED <<memory, file, cache, runs, pulls, starts, second, shown>>
Fetched(t) == /\ At(t, "fetch") /\ pulls < MaxPulls /\ pulls' = pulls + 1
              /\ req' = [req EXCEPT ![t] = [@ EXCEPT !.at = "clear", !.pull = pulls + 1]]
              /\ UNCHANGED <<memory, file, cache, runs, starts, second, shown>>
Clear(t) == /\ At(t, "clear") /\ memory' = [memory EXCEPT ![req[t].store] = Nothing]
            /\ Goes(t, "update")
            /\ UNCHANGED <<file, cache, runs, pulls, starts, second, shown>>
Update(t) == /\ At(t, "update") /\ memory' = [memory EXCEPT ![req[t].store] = req[t].pull]
             /\ shown' = [shown EXCEPT ![req[t].store] = Append(@, req[t].pull)]
             /\ Goes(t, "open")
             /\ UNCHANGED <<file, cache, runs, pulls, starts, second>>
OpenFile(t) == /\ At(t, "open") /\ file' = [file EXCEPT ![req[t].store] = Torn]
               /\ Goes(t, "write")
               /\ UNCHANGED <<memory, cache, runs, pulls, starts, second, shown>>
\* Text over the text of another thread that opened the file too: the longer
\* one shows its tail.
WriteFile(t) == /\ At(t, "write")
                /\ LET s == req[t].store
                   IN  file' \in {[file EXCEPT ![s] = w] :
                           w \in {req[t].pull} \cup (IF file[s] = Torn THEN {} ELSE {Torn})}
                /\ Answered(t)
                /\ UNCHANGED <<memory, cache, runs, pulls, starts, second, shown>>

-----------------------------------------------------------------------------
(* Searches and flow matches.                                               *)

\* Without a snapshot the answer is 400.
Search(t) == /\ memory["snapshot"] # Nothing
             /\ Begins(t, [NoRequest EXCEPT !.at = "groups", !.kind = "search"])
             /\ UNCHANGED <<memory, file, cache, runs, pulls, second, shown>>
Flow(t) == /\ memory["snapshot"] # Nothing
           /\ Begins(t, [NoRequest EXCEPT !.at = "rules", !.kind = "flow"])
           /\ UNCHANGED <<memory, file, cache, runs, pulls, second, shown>>
\* A search reads the device groups and then the rules, a flow match the rules
\* and then the device groups.
ReadGroups(t) ==
    /\ At(t, "groups")
    /\ Reads(t, "snapshot", [req[t] EXCEPT !.dgs = memory["snapshot"],
                                 !.at = IF req[t].kind = "search" THEN "rules" ELSE "label"])
    /\ UNCHANGED <<memory, file, cache, runs, pulls, starts, second, shown>>
ReadRules(t) ==
    /\ At(t, "rules")
    /\ Reads(t, "snapshot", [req[t] EXCEPT !.of = memory["snapshot"],
                                 !.at = IF req[t].kind = "search" THEN "label" ELSE "groups"])
    /\ UNCHANGED <<memory, file, cache, runs, pulls, starts, second, shown>>
\* Mutant: pulled_at is taken along with the device groups.
ReadLabelEarly(t) ==
    /\ At(t, "label")
    /\ Reads(t, "snapshot", [req[t] EXCEPT !.label = req[t].dgs, !.second = second, !.at = "create"])
    /\ UNCHANGED <<memory, file, cache, runs, pulls, starts, second, shown>>

ReadLabel(t) ==
    /\ At(t, "label")
    /\ Reads(t, "snapshot", [req[t] EXCEPT !.label = memory["snapshot"], !.second = second,
                                 !.at = "create"])
    /\ UNCHANGED <<memory, file, cache, runs, pulls, starts, second, shown>>

-----------------------------------------------------------------------------
(* Placements, and the map of the subnets, which stops at its label.        *)

Placement(t) == /\ Begins(t, [NoRequest EXCEPT !.at = "routing", !.kind = "placement"])
                /\ UNCHANGED <<memory, file, cache, runs, pulls, second, shown>>
SubnetMap(t) == /\ Begins(t, [NoRequest EXCEPT !.at = "history", !.kind = "map"])
                /\ UNCHANGED <<memory, file, cache, runs, pulls, second, shown>>

RoutingThere(t) == /\ At(t, "routing")
                   /\ Goes(t, IF memory["topology"] = Nothing THEN "history" ELSE "tables")
                   /\ UNCHANGED <<memory, file, cache, runs, pulls, starts, second, shown>>
ReadTables(t) == /\ At(t, "tables")
                 /\ Reads(t, "topology", [req[t] EXCEPT !.tables = memory["topology"], !.at = "history"])
                 /\ UNCHANGED <<memory, file, cache, runs, pulls, starts, second, shown>>
\* Without a snapshot there is no history; with neither source the answer is 400.
HistoryThere(t) ==
    /\ At(t, "history")
    /\ IF memory["snapshot"] # Nothing THEN Goes(t, "key")
       ELSE IF req[t].tables # Nothing THEN Goes(t, "routingLabel") ELSE Answered(t)
    /\ UNCHANGED <<memory, file, cache, runs, pulls, starts, second, shown>>

\* dg_subnet_profiles: the label, the test of the cache, the profiles, and the
\* cache in two steps; what is returned is read from the cache once more.
ReadKey(t) ==
    /\ At(t, "key")
    /\ Reads(t, "snapshot", [req[t] EXCEPT !.key = memory["snapshot"], !.at = "cached"])
    /\ UNCHANGED <<memory, file, cache, runs, pulls, starts, second, shown>>
TestCache(t) == /\ At(t, "cached")
                /\ Goes(t, IF cache.key = req[t].key THEN "profiles" ELSE "build")
                /\ UNCHANGED <<memory, file, cache, runs, pulls, starts, second, shown>>
Build(t) ==
    /\ At(t, "build")
    /\ Reads(t, "snapshot", [req[t] EXCEPT !.of = memory["snapshot"], !.at = "drop"])
    /\ UNCHANGED <<memory, file, cache, runs, pulls, starts, second, shown>>
Drop(t) == /\ At(t, "drop") /\ cache' = EmptyCache /\ Goes(t, "keep")
           /\ UNCHANGED <<memory, file, runs, pulls, starts, second, shown>>

\* Mutant: the profiles are kept under the label of the snapshot of now.
KeepAsNow(t) == /\ At(t, "keep")
                /\ cache' = [key |-> memory["snapshot"], of |-> req[t].of] /\ Goes(t, "profiles")
                /\ UNCHANGED <<memory, file, runs, pulls, starts, second, shown>>

Keep(t) == /\ At(t, "keep") /\ cache' = [key |-> req[t].key, of |-> req[t].of] /\ Goes(t, "profiles")
           /\ UNCHANGED <<memory, file, runs, pulls, starts, second, shown>>
ReadProfiles(t) ==
    /\ At(t, "profiles")
    /\ req' = [req EXCEPT ![t] = IF cache = EmptyCache THEN NoRequest
                                 ELSE [@ EXCEPT !.of = cache.of, !.at = "historyLabel"]]
    /\ UNCHANGED <<memory, file, cache, runs, pulls, starts, second, shown>>
ReadHistoryLabel(t) ==
    /\ At(t, "historyLabel")
    /\ IF req[t].kind = "map" THEN Answered(t)
       ELSE Reads(t, "snapshot", [req[t] EXCEPT !.label = memory["snapshot"], !.at = "routingLabel"])
    /\ UNCHANGED <<memory, file, cache, runs, pulls, starts, second, shown>>
ReadRoutingLabel(t) ==
    /\ At(t, "routingLabel")
    /\ LET r == [req[t] EXCEPT !.second = second, !.at = "create"]
       IN  IF r.tables = Nothing THEN req' = [req EXCEPT ![t] = r]
           ELSE Reads(t, "topology", [r EXCEPT !.topology = memory["topology"]])
    /\ UNCHANGED <<memory, file, cache, runs, pulls, starts, second, shown>>

-----------------------------------------------------------------------------
(* Saved runs.                                                              *)

Place(t) == <<req[t].kind, req[t].second>>
RunOf(r) == [dgs |-> r.dgs, of |-> r.of, label |-> r.label, tables |-> r.tables,
             topology |-> r.topology]
With(p, w) == [q \in DOMAIN runs \cup {p} |-> IF q = p THEN w ELSE runs[q]]

\* write_text empties the file first; a file deleted in between is written
\* where nobody finds it.
Create(t) == /\ At(t, "create") /\ runs' = With(Place(t), Torn) /\ Goes(t, "save")
             /\ UNCHANGED <<memory, file, cache, pulls, starts, second, shown>>
Save(t) ==
    /\ At(t, "save")
    /\ IF req[t].second = 0 THEN runs' = runs
       ELSE runs' \in {With(Place(t), w) :
                w \in {RunOf(req[t])} \cup (IF runs[Place(t)] = Torn THEN {} ELSE {Torn})}
    /\ Answered(t)
    /\ UNCHANGED <<memory, file, cache, pulls, starts, second, shown>>

\* delete_runs: one saved run, or all of a kind.
DeleteRuns ==
    /\ starts < MaxStarts /\ starts' = starts + 1
    /\ \E k \in Kinds : \E gone \in {{p} : p \in DOMAIN runs} \cup {{p \in DOMAIN runs : p[1] = k}} :
          /\ gone # {}
          /\ runs' = [p \in DOMAIN runs \ gone |-> runs[p]]
          /\ req' = [t \in Threads |-> IF At(t, "save") /\ Place(t) \in gone
                                       THEN [req[t] EXCEPT !.second = 0] ELSE req[t]]
    /\ UNCHANGED <<memory, file, cache, pulls, second, shown>>

-----------------------------------------------------------------------------
\* The server ends and is started again: main reads the two files.
Restart ==
    /\ starts < MaxStarts /\ starts' = starts + 1
    /\ memory' = [s \in Stores |-> IF file[s] = Torn THEN Nothing ELSE file[s]]
    /\ shown' = [s \in Stores |-> IF memory'[s] = Nothing THEN <<>> ELSE <<memory'[s]>>]
    /\ cache' = EmptyCache /\ req' = [t \in Threads |-> NoRequest]
    /\ UNCHANGED <<file, runs, pulls, second>>
Tick == /\ second < MaxSecond /\ second' = second + 1
        /\ UNCHANGED <<memory, file, cache, req, runs, pulls, starts, shown>>

WebNext ==
    \/ \E t \in Threads :
          \/ Pull(t) \/ PullFails(t) \/ Fetched(t) \/ Clear(t) \/ Update(t) \/ OpenFile(t) \/ WriteFile(t)
          \/ Search(t) \/ Flow(t) \/ ReadGroups(t) \/ ReadRules(t) \/ ReadLabel(t)
          \/ Placement(t) \/ SubnetMap(t) \/ RoutingThere(t) \/ ReadTables(t) \/ HistoryThere(t)
          \/ ReadKey(t) \/ TestCache(t) \/ Build(t) \/ Drop(t) \/ Keep(t) \/ ReadProfiles(t)
          \/ ReadHistoryLabel(t) \/ ReadRoutingLabel(t)
          \/ Create(t) \/ Save(t)
    \/ DeleteRuns \/ Restart \/ Tick

WebSpec == WebInit /\ [][WebNext]_webVars

-----------------------------------------------------------------------------
\* Whatever pulls and requests do at the same time, profiles that are cached
\* for the snapshot in memory were built from it ("a re-pull rebuilds and an
\* unchanged snapshot answers lookups from memory", dg_subnet_profiles).
CacheSound ==
    cache.key # Nothing /\ cache.key = memory["snapshot"] => cache.of = cache.key

\* A saved run says which pull it is of.  A pull in between can make that one
\* newer than what was searched, never older, and with no pull in between it is
\* the one.
Older(s, p, q) == \E i, j \in DOMAIN shown[s] : i < j /\ shown[s][i] = p /\ shown[s][j] = q
LabelTells(r) ==
    /\ r.label # Nothing => r.label = r.of \/ Older("snapshot", r.of, r.label)
    /\ r.dgs # Nothing => r.dgs = r.label \/ Older("snapshot", r.dgs, r.label)
    /\ r.topology # Nothing => r.topology = r.tables \/ Older("topology", r.tables, r.topology)
RunsTell == [][\A p \in DOMAIN runs' : (p \notin DOMAIN runs \/ runs'[p] # runs[p]) /\ runs'[p] # Torn
                  => LabelTells(runs'[p])]_webVars
=============================================================================
