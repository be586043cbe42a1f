------------------------------ MODULE IpRemap ------------------------------
(***************************************************************************)
(* The subnet map and the IP remap of group addresses.                      *)
(*   app/common/subnet_map.py: the site map, its load errors and findings   *)
(*   tools/nsx/nsx_group_ip_remap_offline.py: the prefix table, the remap   *)
(*   tools/nsx/audit_ip_remap.py: the audit of groups against the table     *)
(*   tools/nsx/groups.py push --csv-remap: which groups are remapped        *)
(* Addresses are 0 .. 2^Width - 1, a network is [lo, len], a host has len = *)
(* Width.  An address entry of a group or a cell of the map is a network,   *)
(* or one of the entries that are never mapped.  Spans are sets of          *)
(* addresses here; IpSpan checks their arithmetic.                          *)
(***************************************************************************)
EXTENDS Integers, FiniteSets, Sequences, SequencesExt

CONSTANT Width
ASSUME WidthAssumption == Width \in Nat \ {0}

SizeOf(len) == 2 ^ (Width - len)
Nets == {n \in [lo : 0 .. (2 ^ Width - 1), len : 0 .. Width] : n.lo % SizeOf(n.len) = 0}
Entry(kind) == [lo |-> -1, len |-> kind]      \* -1: range, -2: IPv6, -3: neither
Range4 == Entry(-1)
Ipv6 == Entry(-2)
Junk == Entry(-3)
Blank == Entry(-4)
TokenKind(t) == CASE t \in Nets -> "none" [] t = Range4 -> "range" [] t = Ipv6 -> "ipv6"
                  [] OTHER -> "invalid"

Hosts(n) == n.lo .. (n.lo + SizeOf(n.len) - 1)
SubnetOf(a, b) == a.len >= b.len /\ a.lo \in Hosts(b)
Moved(n, delta) == [n EXCEPT !.lo = @ + delta]

-----------------------------------------------------------------------------
(* subnet_map.py.  A row of the file is [old, new]: new[s] is its cell for  *)
(* site s.  Its line is its index.                                          *)

RowOk(rows, i) == rows[i].old \in Nets /\ \A j \in 1 .. (i - 1) : rows[j].old # rows[i].old
CellWrong(old, new) == new \notin Nets \/ new = old \/ new.len > old.len
LoadErrors(rows, sites) ==
    {<<i, "old_subnet">> : i \in {j \in DOMAIN rows :
        ~RowOk(rows, j) /\ (rows[j].old # Blank \/ \E s \in sites : rows[j].new[s] # Blank)}}
    \cup {<<i, s>> \in (DOMAIN rows) \X sites :
        RowOk(rows, i) /\ rows[i].new[s] # Blank /\ CellWrong(rows[i].old, rows[i].new[s])}
Cells(rows, s) ==
    {[row |-> i, old |-> rows[i].old, new |-> rows[i].new[s]] :
        i \in {j \in DOMAIN rows : /\ RowOk(rows, j) /\ rows[j].new[s] # Blank
                                   /\ ~CellWrong(rows[j].old, rows[j].new[s])}}
Delta(c) == c.new.lo - c.old.lo

\* Mutant: the shortest old_subnet that holds the value wins.
MapByShortest(cells, t) ==
    LET over == {c \in cells : t \in Nets /\ SubnetOf(t, c.old)}
        best == CHOOSE c \in over : \A d \in over : d.old.len >= c.old.len
    IN  IF over = {} THEN {} ELSE {Moved(t, Delta(best))}

\* map_value: by the longest old_subnet that holds the value, or nothing.
MapValue(cells, t) ==
    LET over == {c \in cells : t \in Nets /\ SubnetOf(t, c.old)}
        best == CHOOSE c \in over : \A d \in over : d.old.len <= c.old.len
    IN  IF over = {} THEN {} ELSE {Moved(t, Delta(best))}

\* site_images: the addresses the row maps itself, and where they land.
SourceOf(cells, c) ==
    Hosts(c.old) \ UNION {Hosts(d.old) : d \in {e \in cells :
                             e.old.len > c.old.len /\ SubnetOf(e.old, c.old)}}
ImageOf(cells, c) == {x + Delta(c) : x \in SourceOf(cells, c)}
ReservedSpans(cells) == UNION {ImageOf(cells, c) : c \in cells}

\* check_site_map: <<code, site or sites, row or rows>>.
CheckSiteMap(rows, sites) ==
    LET at(s) == Cells(rows, s)
        all == UNION {{s} \X at(s) : s \in sites}
        image(x) == ImageOf(at(x[1]), x[2])
        code(x, y) == IF x[1] = y[1] THEN "collision_within_site"
                      ELSE "collision_between_sites"
        sources == UNION {Hosts(rows[i].old) : i \in {j \in DOMAIN rows : RowOk(rows, j)}}
    IN  {<<code(p[1], p[2]), {p[1], p[2]}>> :
            p \in {q \in all \X all : q[1] # q[2] /\ image(q[1]) \cap image(q[2]) # {}}}
        \cup {<<"lands_in_source_space", {x}>> :
            x \in {y \in all : image(y) \cap sources # {}}}

-----------------------------------------------------------------------------
(* nsx_group_ip_remap_offline.py.  The table is a set of rows; map_token    *)
(* tries them in the order finalize sorts them in.                          *)

\* _load_mapping_csv over a file of old, new pairs; --bidirectional adds the
\* reverse of every row.
LoadMappingCsv(pairs, bidirectional) ==
    LET valid(i) == /\ pairs[i].old \in Nets /\ pairs[i].new \in Nets
                    /\ pairs[i].old # pairs[i].new /\ pairs[i].new.len <= pairs[i].old.len
        taken(i) == \E j \in 1 .. (i - 1) : valid(j) /\ pairs[j].old = pairs[i].old
        used == {i \in DOMAIN pairs : valid(i) /\ ~taken(i)}
        row(i, old, new) == [old |-> old, new |-> new, row |-> i]
    IN  {row(i, pairs[i].old, pairs[i].new) : i \in used}
        \cup (IF bidirectional THEN {row(i, pairs[i].new, pairs[i].old) : i \in used} ELSE {})

\* finalize: longest source, longest destination, last row first.
Finalize(table) ==
    LET first(r, q) == \/ r.old.len > q.old.len
                       \/ r.old.len = q.old.len /\ r.new.len > q.new.len
                       \/ r.old.len = q.old.len /\ r.new.len = q.new.len /\ r.row > q.row
    IN  SetToSortSeq(table, first)

\* _map_network_by_offset: nothing where the value falls out of the row's new.
MapByOffset(t, r) ==
    LET mapped == Moved(t, r.new.lo - r.old.lo)
    IN  IF mapped \in Nets /\ SubnetOf(mapped, r.new) THEN {mapped} ELSE {}

\* The first row that holds the value and maps it.
RowFor(table, t) ==
    SelectSeq(Finalize(table), LAMBDA r : SubnetOf(t, r.old) /\ MapByOffset(t, r) # {})
MapToken(table, t) ==
    IF TokenKind(t) # "none" \/ RowFor(table, t) = <<>> THEN {}
    ELSE MapByOffset(t, RowFor(table, t)[1])

\* A group is [type, items]: items[i] is [kind, is] with kind "ip", "nested"
\* (the addresses of an inner expression) or "other".

RemapItem(item, table, mappedOnly) ==
    LET mapped == UNION {MapToken(table, t) : t \in item.is}
    IN  IF item.kind # "ip" \/ mapped = {} THEN item
        ELSE IF mappedOnly THEN [item EXCEPT !.is = mapped]
        ELSE [item EXCEPT !.is = @ \cup mapped]
RemapGroupPayload(group, table, mappedOnly) ==
    [group EXCEPT !.items = [i \in DOMAIN @ |-> RemapItem(@[i], table, mappedOnly)]]

\* The report of a group: what was added, what was complete, what is left.
RemapReport(group, table) ==
    LET ip == {i \in DOMAIN group.items : group.items[i].kind = "ip"}
        entries == UNION {group.items[i].is : i \in ip}
        new(i) == UNION {MapToken(table, t) : t \in group.items[i].is}
    IN  [added |-> UNION {new(i) \ group.items[i].is : i \in ip},
         already |-> UNION {{t \in group.items[i].is :
                      MapToken(table, t) # {} /\ MapToken(table, t) \subseteq group.items[i].is}
                      : i \in ip},
         skipped |-> {t \in entries : TokenKind(t) # "none"},
         unmapped |-> {t \in entries : TokenKind(t) = "none" /\ MapToken(table, t) = {}}]

\* groups.py push --csv-remap: groups of addresses only, unless --remap-generic.
\* --mapped-only is refused there.
PushRemap(group, table, remapGeneric) ==
    IF group.type = "ip-only" \/ remapGeneric THEN RemapGroupPayload(group, table, FALSE)
    ELSE group

\* main: the prepared directory holds the changed groups only.
Changed(group, table, mappedOnly) ==
    \E i \in DOMAIN group.items :
        LET mapped == UNION {MapToken(table, t) : t \in group.items[i].is}
        IN  /\ group.items[i].kind = "ip" /\ mapped # {}
            /\ mappedOnly \/ ~(mapped \subseteq group.items[i].is)
PreparedGroups(groups, table, mappedOnly) ==
    [g \in {h \in DOMAIN groups : Changed(groups[h], table, mappedOnly)} |->
        RemapGroupPayload(groups[g], table, mappedOnly)]


\* main refuses a prepared root, which it purges, that overlaps the export.
RemapRun(groups, pairs, mappedOnly, bidirectional, overlap) ==
    IF overlap THEN [status |-> "refused", prepared |-> <<>>]
    ELSE [status |-> "done",
          prepared |-> PreparedGroups(groups, LoadMappingCsv(pairs, bidirectional), mappedOnly)]

-----------------------------------------------------------------------------
(* audit_ip_remap.py                                                        *)

ReverseTable(table) == {[old |-> r.new, new |-> r.old, row |-> r.row] : r \in table}

\* walk_ip_entries goes into nested expressions, the remap does not.
WalkIpEntries(group) ==
    UNION {group.items[i].is : i \in {j \in DOMAIN group.items :
              group.items[j].kind \in {"ip", "nested"}}}

AuditGroup(group, table, includeGeneric) ==
    LET entries == WalkIpEntries(group)
        v4 == {t \in entries : TokenKind(t) = "none"}
        forward == {t \in v4 : MapToken(table, t) # {}}
        back == {t \in v4 \ forward : MapToken(ReverseTable(table), t) # {}}
        missing == {t \in forward : ~(MapToken(table, t) \subseteq entries)}
        counted == group.type = "ip-only" \/ includeGeneric
    IN  [mapped |-> forward \ missing,
         gaps |-> IF counted THEN missing ELSE {},
         candidates |-> IF counted THEN {} ELSE missing,
         orphans |-> {t \in back : ~(MapToken(ReverseTable(table), t) \subseteq entries)},
         uncovered |-> v4 \ (forward \cup back),
         byDesign |-> {t \in entries : TokenKind(t) \in {"range", "ipv6"}},
         invalid |-> {t \in entries : TokenKind(t) = "invalid"}]
AuditStatus(audit, entries) ==
    CASE entries = {} -> "no_ips"
      [] entries # {} /\ audit.gaps \cup audit.orphans # {} -> "gap"
      [] entries # {} /\ audit.gaps \cup audit.orphans = {} /\ audit.candidates # {} -> "candidate"
      [] OTHER -> IF audit.mapped # {} THEN "mapped" ELSE "no_csv_match"

\* summarize: groups by status.
Summarize(groups, table, includeGeneric) ==
    LET status(g) == AuditStatus(AuditGroup(groups[g], table, includeGeneric),
                                 WalkIpEntries(groups[g]))
    IN  [s \in {status(g) : g \in DOMAIN groups} |->
            Cardinality({g \in DOMAIN groups : status(g) = s})]

\* The exit code of the audit.
HasGaps(groups, table, includeGeneric) ==
    \E g \in Range(groups) : LET a == AuditGroup(g, table, includeGeneric)
                             IN  a.gaps \cup a.orphans # {}
AuditRun(groups, pairs, includeGeneric, noFail) ==
    IF HasGaps(groups, LoadMappingCsv(pairs, FALSE), includeGeneric) /\ ~noFail THEN 1 ELSE 0

-----------------------------------------------------------------------------
(* What the subnet map and the IP remap promise, over a map and a group.    *)

Tokens == Nets \cup {Range4, Ipv6, Junk}
Site(rows) == UNION {DOMAIN rows[i].new : i \in DOMAIN rows}
Codes(rows) == {f[1] : f \in CheckSiteMap(rows, Site(rows))}
SitePairs(rows, s) == [i \in DOMAIN rows |-> [old |-> rows[i].old, new |-> rows[i].new[s]]]

\* On a map load_site_map accepts, no two hosts of a site are mapped to one
\* address unless check_site_map says so, and no two sites share an address
\* unless it says so; the reserved spans are where hosts really land; and the
\* prefix table of the remap maps every entry as the site map does, although it
\* sorts rows and skips those that do not fit (subnet_map.py:105 and
\* nsx_group_ip_remap_offline.py:346).
MapsApartOn(rows) ==
    LET hosts == {n \in Nets : n.len = Width}
        lands(s, n) == MapValue(Cells(rows, s), n)
    IN  LoadErrors(rows, Site(rows)) = {} =>
        /\ \A s \in Site(rows) : \A m, n \in hosts :
              m # n /\ lands(s, m) # {} /\ lands(s, m) = lands(s, n)
                 => "collision_within_site" \in Codes(rows)
        /\ \A s, q \in Site(rows) : \A m, n \in hosts :
              s # q /\ lands(s, m) # {} /\ lands(s, m) = lands(q, n)
                 => "collision_between_sites" \in Codes(rows)
        /\ \A s \in Site(rows) :
              /\ ReservedSpans(Cells(rows, s))
                    = {x.lo : x \in UNION {lands(s, n) : n \in hosts}}
              /\ \A t \in Tokens : MapToken(LoadMappingCsv(SitePairs(rows, s), FALSE), t)
                                      = lands(s, t)

\* On a map with no finding at all, pushing the remap of a group of addresses
\* takes none away, leaves the audit without a gap and with no orphan it did
\* not have before, reports what it added, and a second remap changes nothing
\* (groups.py:929 "ADDITIVE-ONLY CONTRACT", groups.py:1277 "idempotently ADD").
RemapClosesGapsOn(rows, t, u) ==
    \A s \in Site(rows) : \A table \in {LoadMappingCsv(SitePairs(rows, s), FALSE)} :
    \* u was remapped before
    \A group \in {[type |-> "ip-only", items |-> <<[kind |-> "ip", is |-> {t, u} \cup MapToken(table, u)]>>]} :
    \A after \in {PushRemap(group, table, FALSE)} : \A audit \in {AuditGroup(after, table, FALSE)} :
    LET before == WalkIpEntries(group)
    IN  /\ before \subseteq WalkIpEntries(after)
        /\ WalkIpEntries(after) = before \cup RemapReport(group, table).added
        /\ PushRemap(after, table, FALSE) = after
        /\ audit.gaps = {}
        /\ audit.orphans \subseteq AuditGroup(group, table, FALSE).orphans
        /\ UNION {audit.mapped, audit.gaps, audit.candidates, audit.uncovered,
                  audit.byDesign, audit.invalid} \subseteq WalkIpEntries(after)
        /\ RemapReport(after, table).added = {}
        /\ RemapRun(<<after>>, SitePairs(rows, s), FALSE, FALSE, FALSE).prepared = <<>>
        /\ AuditRun(<<after>>, SitePairs(rows, s), FALSE, FALSE) = (IF audit.orphans = {} THEN 0 ELSE 1)
        /\ Summarize(<<after>>, table, TRUE) = [x \in {AuditStatus(audit, before)} |-> 1]
=============================================================================
