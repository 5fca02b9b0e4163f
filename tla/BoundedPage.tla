----------------------------- MODULE BoundedPage -----------------------------
(***************************************************************************)
(* How ReadPage finds its page (zanzibar/store/memory.go): it goes through *)
(* the maps of the store, in whatever order they have, and keeps the       *)
(* smallest limit + 1 entries after the cursor in a sorted slice.          *)
(* TuplePaging says which tuples a page has; this module says how they are *)
(* come by.                                                                *)
(***************************************************************************)
EXTENDS TuplePaging

Ext == INSTANCE SequencesExt

\* sort.Search: the first place whose tuple is not less than the new one.
Position(page, tuple) ==
    CHOOSE p \in 1..(Len(page) + 1) :
        /\ \A i \in 1..(p - 1) : TupleLess(page[i], tuple)
        /\ p <= Len(page) => ~TupleLess(page[p], tuple)

Truncate(page, capacity) == IF Len(page) > capacity THEN SubSeq(page, 1, capacity) ELSE page

\* Fault: a full page takes nothing in.
insertUnlessFull(page, tuple, after, capacity) ==
    IF (after # NoCursor /\ ~TupleLess(after.key, tuple)) \/ Len(page) = capacity THEN page
    ELSE Ext!InsertAt(page, Position(page, tuple), tuple)

insertBoundedPageTuple(page, tuple, after, capacity) ==
    IF \/ after # NoCursor /\ ~TupleLess(after.key, tuple)
       \/ Len(page) = capacity /\ Position(page, tuple) > Len(page)
    THEN page
    ELSE Truncate(Ext!InsertAt(page, Position(page, tuple), tuple), capacity)

\* The slice after the loops over the maps, which visit the entries in this order.
Collected(order, after, limit) ==
    Ext!FoldLeft(LAMBDA page, e : insertBoundedPageTuple(page, e[2], after, limit + 1), <<>>, order)

\* Whatever the order of the maps, the slice is sorted, its first limit entries are
\* the page, there is a next cursor exactly when more entries follow, and that cursor
\* is at the greatest tuple of the page (memory.go:241-272, :331-354).
BoundedInsertSelectsPage ==
    scan.phase = "scanning" /\ ~CursorRefused =>
        LET entries == EntriesAfter(Query, scan.cursor)
            matching == EntriesAfter(Query, NoCursor)
        IN  \A limit \in 1..MaxTuplePageSize, order \in Ext!SetToSeqs(matching) :
               LET slice == Collected(order, scan.cursor, limit)
                   page == Truncate(slice, limit)
               IN  /\ {page[i] : i \in DOMAIN page} = Page(entries, limit)
                   /\ \A i \in 1..(Len(slice) - 1) : ~TupleLess(slice[i + 1], slice[i])
                   /\ Len(slice) > limit <=> Cardinality(entries) > limit
=============================================================================
