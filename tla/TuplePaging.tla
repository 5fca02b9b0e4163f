----------------------------- MODULE TuplePaging -----------------------------
(***************************************************************************)
(* Bounded scans of the tuple store (ReadPage, ReadPageExcludingSubject    *)
(* and the cursors of zanzibar/store, called through                       *)
(* zanzibar/pagination.go) while the engine and the materializers change   *)
(* it.  Each page is read under the store's lock; nothing is held between  *)
(* two pages.                                                              *)
(*                                                                         *)
(* The caller scans the union of some queries one after the other, each    *)
(* page with a limit of its own.  It may stop inside a page and go on from *)
(* there, and it may present the cursor of one query to the next.          *)
(*                                                                         *)
(* A filter is the set of tuples it matches.  A cursor holds the query it  *)
(* is bound to, whose digest the code stores, and the key of a tuple.      *)
(***************************************************************************)
EXTENDS Materializers, Sequences

CONSTANTS
    Rank,              \* per tuple: its place in the order of TupleLess
    Unions,            \* the sequences of queries that may be scanned
    Nobody,            \* the subject a query without exclusion leaves out
    MaxTuplePageSize,  \* the largest limit
    LongKeys,          \* the tuples whose cursor is longer than maxTupleCursorLen
    Settings           \* per setting: how many calls, runs and changes, which operations, and what to scan

\* The later queries leave out the subject of the first one.
ASSUME PagingAssumption ==
    /\ Rank \in [Tuples -> Nat]
    /\ \A t, u \in Tuples : Rank[t] = Rank[u] => t = u
    /\ IsFiniteSet(Names)
    /\ Nobody \notin Users
    /\ MaxTuplePageSize \in Nat
    /\ Unions \subseteq Seq([filter: SUBSET Tuples, exclude: Users \cup {Nobody}])
    /\ \A u \in Unions : Len(u) >= 1
    /\ \A u \in Unions : \A i, j \in 1..Len(u) :
          i < j => \A t \in u[i].filter : UserOf[t] = u[j].exclude

VARIABLES
    scan,    \* the scan
    setting  \* fixed

pagingVars == <<vars, registryVars, scan, setting>>

(***************************************************************************)
(* A page                                                                  *)
(***************************************************************************)

TupleLess(t, u) == Rank[t] < Rank[u]

Matches(q, t) == t \in q.filter /\ UserOf[t] # q.exclude

NoCursor == [scope |-> "none"]
EncodeTuplePageCursor(q, t) == [scope |-> q, key |-> t]

\* Fault: a cursor is good for any query.
DecodesAnyScope(c, q) == c.key \notin LongKeys

\* DecodeTuplePageCursor accepts the cursor.
Decodes(c, q) ==
    /\ c.scope = q
    /\ c.key \in q.filter
    /\ c.key \notin LongKeys

\* The entries of the indexes and of the materializers that come after the cursor;
\* a tuple that two of them hold is there twice.
EntriesAfter(q, c) ==
    {e \in UNION {ReadEntries(k) : k \in Keys} :
        Matches(q, e[2]) /\ (c # NoCursor => TupleLess(c.key, e[2]))}

\* The tuples among the first entries.
Page(entries, limit) ==
    {t \in Tuples : /\ \E e \in entries : e[2] = t
                    /\ Cardinality({e \in entries : TupleLess(e[2], t)}) < limit}

Visible == {t \in Tuples : \E k \in Keys : \E e \in ReadEntries(k) : e[2] = t}

(***************************************************************************)
(* The scan                                                                *)
(***************************************************************************)

StartScan(union) ==
    /\ scan.phase = "idle"
    /\ scan' = [phase |-> "scanning", union |-> union, query |-> 1, cursor |-> NoCursor,
                returned |-> {}, repeated |-> {},
                steady |-> {t \in Visible : \E i \in 1..Len(union) : Matches(union[i], t)}]

Query == scan.union[scan.query]

CursorRefused == scan.cursor # NoCursor /\ ~Decodes(scan.cursor, Query)

Take(tuples) ==
    [scan EXCEPT !.returned = @ \cup tuples, !.repeated = @ \cup (scan.returned \cap tuples)]

\* The caller uses the page up to t, and the next cursor or CursorAfter.
ReadPage(limit, t) ==
    /\ scan.phase = "scanning"
    /\ ~CursorRefused
    /\ LET page == Page(EntriesAfter(Query, scan.cursor), limit)
       IN  /\ t \in page
           /\ scan' = [Take({u \in page : ~TupleLess(t, u)})
                          EXCEPT !.cursor = EncodeTuplePageCursor(Query, t)]

\* There is no next cursor: the caller goes on to the next query, perhaps with the
\* last cursor it has.
ReadLastPage(limit, keep) ==
    /\ scan.phase = "scanning"
    /\ ~CursorRefused
    /\ LET entries == EntriesAfter(Query, scan.cursor)
       IN  /\ Cardinality(entries) <= limit
           /\ scan' = [Take(Page(entries, limit))
                          EXCEPT !.query = @ + 1, !.cursor = IF keep THEN @ ELSE NoCursor,
                                 !.phase = IF scan.query = Len(scan.union) THEN "done" ELSE @]

\* ErrInvalidTuplePageCursor.
ReadRefused ==
    /\ scan.phase = "scanning"
    /\ CursorRefused
    /\ scan' = [scan EXCEPT !.phase = "failed"]

(***************************************************************************)
(* Specification                                                           *)
(***************************************************************************)

\* What a change of the store leaves of the tuples that were there all along.
Watched ==
    scan' = IF scan.phase = "scanning" THEN [scan EXCEPT !.steady = @ \cap Visible'] ELSE scan

Calls ==
    /\ \E c \in Callers : Engine(c) /\ call'[c].op \in setting.ops \cup {"idle", "notify"}
    /\ Cardinality({c \in Callers : call'[c] # Idle}) <= setting.calls
    /\ Watched
    /\ UNCHANGED <<registryVars, setting>>

Materializes ==
    /\ \/ \E n \in Names : registered[n] < setting.registrations[n] /\ register(n)
       \/ \E n \in Names : data[n] < setting.changes[n] /\ DataChanges(n)
       \/ \E r \in Runners : Runs(r)
    /\ Cardinality({r \in Runners : run'[r] # NoRun}) <= setting.runs
    /\ Watched
    /\ UNCHANGED setting

Scans ==
    /\ \/ \E union \in Unions \cap setting.scans : StartScan(union)
       \/ \E limit \in 1..MaxTuplePageSize :
             \/ \E t \in Tuples : ReadPage(limit, t)
             \/ \E keep \in BOOLEAN : ReadLastPage(limit, keep)
       \/ ReadRefused
    /\ UNCHANGED <<vars, registryVars, setting>>

PagingInit ==
    /\ Init
    /\ RegistryInit
    /\ scan = [phase |-> "idle"]
    /\ setting \in Settings

PagingNext == Calls \/ Materializes \/ Scans

PagingSpec == PagingInit /\ [][PagingNext]_pagingVars

(***************************************************************************)
(* Properties                                                              *)
(***************************************************************************)

\* A scan that ends without an error has returned every tuple that was there from
\* its start to its end and that one of its queries matches, and none on two pages,
\* whatever was written, deleted, replaced and materialized between them,
\* whatever the limits, and wherever the caller stopped inside a page
\* (memory.go:226-365, "lets union scans avoid cross-filter duplicates durably",
\* store.go:40-41).  A cursor that is presented to another query, or that is too
\* long to be read back, is an error and never a shorter scan.
ScanComplete ==
    scan.phase # "idle" =>
        /\ scan.phase = "done" => scan.steady \subseteq scan.returned
        /\ scan.repeated = {}
=============================================================================
