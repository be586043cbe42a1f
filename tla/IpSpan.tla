------------------------------- MODULE IpSpan -------------------------------
(***************************************************************************)
(* app/common/ipspan.py: a span is the addresses lo .. hi of one IP         *)
(* version, [version, lo, hi].  merge and subtract are what the overlap     *)
(* findings of the subnet map, the zone tools and the policy match rest on. *)
(***************************************************************************)
EXTENDS Naturals, Sequences, SequencesExt

Span(version, lo, hi) == [version |-> version, lo |-> lo, hi |-> hi]
Covered(s) == {<<s.version, x>> : x \in s.lo .. s.hi}
Overlaps(a, b) == a.version = b.version /\ a.lo <= b.hi /\ b.lo <= a.hi
Larger(x, y) == IF x < y THEN y ELSE x
Smaller(x, y) == IF x < y THEN x ELSE y

\* None for spans that do not overlap.
None == [version |-> 0, lo |-> 1, hi |-> 0]
Intersection(a, b) ==
    IF Overlaps(a, b) THEN Span(a.version, Larger(a.lo, b.lo), Smaller(a.hi, b.hi))
    ELSE None

\* The order of a dataclass: field by field.
Before(a, b) ==
    \/ a.version < b.version
    \/ a.version = b.version /\ a.lo < b.lo
    \/ a.version = b.version /\ a.lo = b.lo /\ a.hi < b.hi

MergeSpans(spans) ==
    LET join(out, s) ==
            IF out # <<>> /\ Last(out).version = s.version /\ s.lo <= Last(out).hi + 1
            THEN Front(out) \o <<[Last(out) EXCEPT !.hi = Larger(@, s.hi)]>>
            ELSE Append(out, s)
    IN  FoldLeft(join, <<>>, SetToSortSeq(spans, Before))

Pieces(piece, h) ==
    IF ~Overlaps(piece, h) THEN <<piece>>
    ELSE (IF piece.lo < h.lo THEN <<Span(piece.version, piece.lo, h.lo - 1)>> ELSE <<>>)
         \o (IF h.hi < piece.hi THEN <<Span(piece.version, h.hi + 1, piece.hi)>> ELSE <<>>)
Subtract(a, holes) ==
    LET cut(left, h) == FlattenSeq([i \in DOMAIN left |-> Pieces(left[i], h)])
    IN  FoldLeft(cut, <<a>>, MergeSpans({h \in holes : h.version = a.version}))

-----------------------------------------------------------------------------
AddressesOf(spans) == UNION {Covered(spans[i]) : i \in DOMAIN spans}
\* In order, and apart: by one address at least, or by more than one.
Apart(spans, gap) ==
    \A i \in DOMAIN spans : \A j \in 1 .. (i - 1) :
        spans[j].version = spans[i].version => spans[j].hi + gap <= spans[i].lo

\* Merging keeps every address, in order and with no two spans that touch; what
\* subtract leaves is the difference of the addresses, in pieces that do not
\* overlap; intersection is the common addresses (ipspan.py).
SpanArithmeticOf(a, holes) ==
    LET merged == MergeSpans(holes)
        left == Subtract(a, holes)
    IN  /\ AddressesOf(merged) = UNION {Covered(h) : h \in holes}
        /\ Apart(merged, 2)
        /\ AddressesOf(left) = Covered(a) \ AddressesOf(merged)
        /\ Apart(left, 1) /\ \A i \in DOMAIN left : left[i].lo <= left[i].hi
        /\ \A h \in holes : Covered(Intersection(a, h)) = Covered(a) \cap Covered(h)

=============================================================================
