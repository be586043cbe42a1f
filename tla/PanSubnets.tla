----------------------------- MODULE PanSubnets ------------------------------
(***************************************************************************)
(* Where a new Panorama rule belongs, by what the device groups already     *)
(* hold: the index of the subnets their rules name (pan_dg_subnets.py, for  *)
(* the XML configuration dg_subnet_profile.py, for a snapshot the web page) *)
(* and the routes of their firewalls (pan_rule_placement.py).  A bucket is  *)
(* [lo, hi, aggregate, src, dst]: an aligned block of BucketSize addresses, *)
(* or the whole of a wider network.                                         *)
(***************************************************************************)
EXTENDS PolicyMatch

CONSTANTS BucketSize,     \* addresses of a bucket (/24)
          ExpandLimit,    \* buckets a network is spread over, else one aggregate
          MaxPerDg        \* hits shown of a device group

\* A network as [lo, hi]; a bucket by its bounds and whether it is aggregate.
IntervalOf(net) == [lo |-> Min(net), hi |-> Max(net)]
BucketsFor(net) ==
    LET iv == IntervalOf(net)
        first == iv.lo \div BucketSize
        last == iv.hi \div BucketSize
    IN  IF last - first + 1 <= Max({ExpandLimit, 1})
        THEN {[lo |-> i * BucketSize, hi |-> (i + 1) * BucketSize - 1, aggregate |-> FALSE] : i \in first .. last}
        ELSE {[lo |-> iv.lo, hi |-> iv.hi, aggregate |-> TRUE]}

\* One side of a rule: nothing when it is any.
ResolveSide(c, names) ==
    IF "any" \in names THEN {} ELSE UNION {ResolveAddress(c, n, {}) : n \in names}
ResolveSnapshotSide(c, scope, names) ==
    IF "any" \in names THEN {} ELSE UNION {Candidates(c, scope, n) : n \in names}

\* The rules of a side in every bucket: rules is a set of <<rule id, networks>>.
FoldSide(rules, bucket) == {r[1] : r \in {x \in rules : \E n \in x[2] : bucket \in BucketsFor(n)}}
FoldRules(srcRules, dstRules) ==
    {[lo |-> b.lo, hi |-> b.hi, aggregate |-> b.aggregate,
      src |-> FoldSide(srcRules, b), dst |-> FoldSide(dstRules, b)]
     : b \in UNION {BucketsFor(n) : n \in UNION {r[2] : r \in srcRules \cup dstRules}}}

\* The rules of a scope's own two rulebases, and of scopes those that are
\* enabled and not filtered out.
RulesOf(g) == {[rule |-> g.pre[i], id |-> <<g.name, "pre", i>>] : i \in DOMAIN g.pre}
              \cup {[rule |-> g.post[i], id |-> <<g.name, "post", i>>] : i \in DOMAIN g.post}
Profiled(scopes, skip) ==
    {x \in UNION {RulesOf(g) : g \in scopes} : ~x.rule.disabled /\ x.rule.name \notin skip}

\* A device group's profile; on request with the rules it inherits.
BuildProfile(c, g, skip, inherited) ==
    LET rules == Profiled(IF inherited THEN Range(AncestorChain(c, g.name, {})) \cup {c.shared} ELSE {g}, skip)
    IN  FoldRules({<<x.id, ResolveSide(c, x.rule.src)>> : x \in rules},
                  {<<x.id, ResolveSide(c, x.rule.dst)>> : x \in rules})
\* The web page's: the scope's own and shared objects, no filter.
BuildDgSubnetProfiles(c, g) ==
    FoldRules({<<x.id, ResolveSnapshotSide(c, g, x.rule.src)>> : x \in Profiled({g}, {})},
              {<<x.id, ResolveSnapshotSide(c, g, x.rule.dst)>> : x \in Profiled({g}, {})})

TotalRules(b) == Cardinality(b.src \cup b.dst)
\* More rules first; ties by sources, then by key.
RanksAbove(a, b) ==
    \/ TotalRules(a) > TotalRules(b)
    \/ /\ TotalRules(a) = TotalRules(b)
       /\ \/ Cardinality(a.src) > Cardinality(b.src)
          \/ /\ Cardinality(a.src) = Cardinality(b.src)
             /\ a.lo < b.lo \/ (a.lo = b.lo /\ a.hi < b.hi)

\* The hits of a device group for an address: its first MaxPerDg buckets by
\* rank that hold it.  The best is a specific one if it is among them.
LookupIp(profile, ip) ==
    LET held == {b \in profile : ip \in b.lo .. b.hi}
    IN  {b \in held : Cardinality({a \in held : RanksAbove(a, b)}) < MaxPerDg}
BestHit(hits) ==
    LET first == IF \E b \in hits : ~b.aggregate THEN {b \in hits : ~b.aggregate} ELSE hits
    IN  {b \in first : \A a \in first \ {b} : RanksAbove(b, a)}

\* The rule history of a flow: the device groups whose rules name either end,
\* with the best hit of each.
RuleHistory(profiles, src, dst) ==
    LET Best(dg, ip) == BestHit(LookupIp(profiles[dg], ip))
    IN  {[dg |-> d, src |-> Best(d, src), dst |-> Best(d, dst)]
         : d \in {g \in DOMAIN profiles : Best(g, src) \cup Best(g, dst) # {}}}

-----------------------------------------------------------------------------
\* A route is [net, kind, active]; fewer addresses are a longer prefix.
KindOrder == [connected |-> 3, static |-> 2, dynamic |-> 1]
BetterRoute(a, b) ==
    \/ Cardinality(a.net) < Cardinality(b.net)
    \/ Cardinality(a.net) = Cardinality(b.net) /\ KindOrder[a.kind] > KindOrder[b.kind]

\* The first of the best routes of the table that hold the address.
BestRoute(ip, routes) ==
    LET held == {i \in DOMAIN routes : routes[i].active /\ ip \in routes[i].net}
        best == {i \in held : ~\E j \in held : BetterRoute(routes[j], routes[i])}
    IN  IF held = {} THEN {} ELSE {routes[Min(best)]}

\* One table per device group: that of the last of its firewalls that answered
\* (a firewall that is not connected, or fails, is <<>>).
PullTopology(firewalls) ==
    [dg \in {d \in DOMAIN firewalls : \E i \in DOMAIN firewalls[d] : firewalls[d][i] # <<>>} |->
        LET t == firewalls[dg] IN t[Max({i \in DOMAIN t : t[i] # <<>>})][1]]

\* How specific a device group's route is: 0 for none and for the default.
Specific(ip, routes) ==
    IF BestRoute(ip, routes) = {} THEN 0
    ELSE Cardinality(AllAddresses) - Cardinality((CHOOSE r \in BestRoute(ip, routes) : TRUE).net)

\* The device groups with the most specific route to either end.
RecommendPlacement(tables, src, dst) ==
    LET Most(ip) == Max({0} \cup {Specific(ip, tables[dg]) : dg \in DOMAIN tables})
        Owns(dg, ip) == Most(ip) > 0 /\ Specific(ip, tables[dg]) = Most(ip)
    IN  {dg \in DOMAIN tables : Owns(dg, src) \/ Owns(dg, dst)}
=============================================================================
