------------------------------- MODULE Paging -------------------------------
(***************************************************************************)
(* A caller reads the pages of a query one after the other, as the page    *)
(* count of each answer tells it to: with RawQuery (pkg/query/rawquery.go: *)
(* Query, then PagingResult, which counts with a second statement) or with *)
(* PagingResult.Trigger (pkg/orm/common.go: the count first).  Rows may be *)
(* inserted and deleted between any two statements.                        *)
(*                                                                         *)
(* A row is its place in the order of the query, and a group its first     *)
(* row; a condition of Where compares one column with its parameter.       *)
(***************************************************************************)
EXTENDS Integers, Sequences, FiniteSets, SequencesExt, FiniteSetsExt

CONSTANTS
  Rows,        \* all rows there may be
  Cell,        \* Cell[r][c]: what row r has in column c
  Columns,     \* the columns Where has a condition on, and "group by" may name
  Asks,        \* the requests: see AskShape
  PageSize     \* the default

AskShape == [api : {"raw", "orm"}, size : Int, limit : Int, offset : Int, sums : BOOLEAN,
             group : SUBSET Columns, where : [Columns -> Int]]

ASSUME PagingAssumption ==
  /\ Rows \subseteq Nat \ {0} /\ IsFiniteSet(Rows) /\ IsFiniteSet(Columns)
  /\ PageSize \in Nat \ {0}
  /\ Cell \in [Rows -> [Columns -> Nat \ {0}]]
  /\ \A a \in Asks : /\ a \in AskShape /\ a.size >= -1
                     /\ a.api = "orm" => a.size >= 0 /\ a.group = {}

VARIABLES
  ask,      \* the request, the page apart
  table,    \* the rows there are
  page,     \* the page asked for
  paging,   \* "ask", "count", "find", "answer", "end" or "failed"
  data,     \* the rows of the page
  total, totalPage,
  shown,    \* what the caller has been given, all pages (history)
  moved     \* a row was inserted or deleted meanwhile (history)

pagingVars == <<ask, table, page, paging, data, total, totalPage, shown, moved>>

Blank == 0      \* an empty value, or "null", "-", "none"
Absent == -1    \* no such parameter

PagingTypeOK ==
  /\ ask \in Asks /\ table \subseteq Rows /\ page \in Nat
  /\ paging \in {"ask", "count", "find", "answer", "end", "failed"}
  /\ data \in Seq(Rows) /\ shown \in Seq(Rows)
  /\ total \in Nat /\ totalPage \in Nat /\ moved \in BOOLEAN

PagingInit ==
  /\ ask \in Asks /\ table \in SUBSET Rows
  /\ page = 0 /\ paging = "ask" /\ data = <<>> /\ total = 0 /\ totalPage = 0
  /\ shown = <<>> /\ moved = FALSE

-----------------------------------------------------------------------------
(* The statement *)

\* ShouldPagingResult (the request's "export" counts as no sum).
ShouldPagingResult == ask.sums /\ ask.size # -1

Size == IF ask.size = 0 /\ (ask.api = "raw" /\ ShouldPagingResult) THEN PageSize ELSE ask.size

\* The members of a finite set of numbers, each at its place.
InOrder(rows) ==
  LET Rank(r) == Cardinality({q \in rows : q < r})
  IN  [i \in 1 .. Cardinality(rows) |-> CHOOSE r \in rows : Rank(r) = i - 1]

\* Of the parameters in the order in which the map was iterated, those not blank.
Used(order) ==
  LET kept == InOrder({i \in 1 .. Len(order) : ask.where[order[i]] > Blank})
  IN  [k \in 1 .. Len(kept) |-> order[kept[k]]]

\* Slip: a blank parameter is left without its condition only.
BoundBlank(order) == [conds |-> Used(order),
                      params |-> [i \in 1 .. Len(order) |-> ask.where[order[i]]]]

\* where: the conditions and their parameters.
Bound(order) ==
  [conds |-> Used(order),
   params |-> [i \in 1 .. Len(Used(order)) |-> ask.where[Used(order)[i]]]]

Given == {c \in Columns : ask.where[c] # Absent}

Matching(stmt) ==
  {r \in table : \A i \in 1 .. Len(stmt.conds) : Cell[r][stmt.conds[i]] = stmt.params[i]}

\* group by: of the rows with the same values in its columns, one remains.
Grouped(rows) ==
  IF ask.group = {} THEN rows
  ELSE {r \in rows : ~\E q \in rows :
          q < r /\ \A c \in ask.group : Cell[q][c] = Cell[r][c]}

\* limit and offset, of which the statement has those above 0.
WindowOf(rows, limit, offset) ==
  LET s == InOrder(rows)
      skip == IF offset > 0 THEN offset ELSE 0
  IN  SubSeq(s, skip + 1, IF limit > 0 THEN Min({Len(s), skip + limit}) ELSE Len(s))

Pages(n, size) == (n + size - 1) \div size

-----------------------------------------------------------------------------
(* RawQuery *)

\* A limit or an offset of the request's own takes the place of the page's.
Query ==
  /\ paging = "ask" /\ ask.api = "raw"
  /\ \E order \in SetToSeqs(Given) :
       LET limit == IF ask.limit = 0 /\ Size > 0 THEN Size ELSE ask.limit
           offset == IF ask.offset = 0 /\ page > 0 /\ Size > 0 THEN page * Size
                     ELSE ask.offset
       IN  data' = WindowOf(Grouped(Matching(Bound(order))), limit, offset)
  /\ paging' = IF ShouldPagingResult THEN "count" ELSE "answer"
  /\ UNCHANGED <<ask, table, page, total, totalPage, shown, moved>>

\* PagingResult: a first page that is not full is all there is, ...
CountedByPage ==
  /\ paging = "count" /\ page = 0 /\ Len(data) < Size
  /\ total' = Len(data) /\ totalPage' = IF data = <<>> THEN 0 ELSE 1
  /\ paging' = "answer"
  /\ UNCHANGED <<ask, table, page, data, shown, moved>>

\* ... otherwise sum counts, iterating the map again: the rows, not their groups.
CountedBySum ==
  /\ paging = "count" /\ ~(page = 0 /\ Len(data) < Size)
  /\ \E order \in SetToSeqs(Given) : total' = Cardinality(Matching(Bound(order)))
  /\ totalPage' = Pages(total', Size)
  /\ paging' = "answer"
  /\ UNCHANGED <<ask, table, page, data, shown, moved>>

-----------------------------------------------------------------------------
(* Trigger *)

Wanted == {r \in table : \A c \in Columns : ask.where[c] > Blank => Cell[r][c] = ask.where[c]}

TriggerCount ==
  /\ paging = "ask" /\ ask.api = "orm"
  /\ IF Size > 0 THEN total' = Cardinality(Wanted) /\ totalPage' = Pages(total', Size)
     ELSE UNCHANGED <<total, totalPage>>
  /\ paging' = "find"
  /\ UNCHANGED <<ask, table, page, data, shown, moved>>

TriggerFind ==
  /\ paging = "find"
  /\ data' = IF Size > 0 THEN WindowOf(Wanted, Size, page * Size) ELSE InOrder(Wanted)
  /\ total' = IF Size = 0 THEN Len(data') ELSE total
  /\ paging' = "answer"
  /\ UNCHANGED <<ask, table, page, totalPage, shown, moved>>

-----------------------------------------------------------------------------
(* Any statement may fail; the caller goes on to the next page, if there is one. *)

StatementFails ==
  /\ paging \in {"ask", "find", "count"} /\ ~(paging = "count" /\ page = 0 /\ Len(data) < Size)
  /\ paging' = "failed"
  /\ UNCHANGED <<ask, table, page, data, total, totalPage, shown, moved>>

TakeAnswer ==
  /\ paging = "answer"
  /\ shown' = shown \o data
  /\ IF page + 1 < totalPage THEN page' = page + 1 /\ paging' = "ask"
     ELSE page' = page /\ paging' = "end"
  /\ UNCHANGED <<ask, table, data, total, totalPage, moved>>

\* Bounded: a table changes no more than once during a walk.
Change(r) ==
  /\ paging \notin {"end", "failed"} /\ ~moved /\ moved' = TRUE
  /\ table' = IF r \in table THEN table \ {r} ELSE table \cup {r}
  /\ UNCHANGED <<ask, page, paging, data, total, totalPage, shown>>

PagingNext ==
  \/ Query \/ CountedByPage \/ CountedBySum \/ TriggerCount \/ TriggerFind
  \/ StatementFails \/ TakeAnswer \/ \E r \in Rows : Change(r)

PagingSpec == PagingInit /\ [][PagingNext]_pagingVars

-----------------------------------------------------------------------------
(* Properties *)

\* Read page by page, a table that stands still is read once, whole and in order,
\* whatever the page size, the grouping, the parameters left blank and the order in which
\* the map of conditions was iterated, and the total is the number of rows read.  Only for
\* a grouped query may it be more, and empty pages follow: sum has no group by
\* (rawquery.go:148).  Not of a request with a limit or an offset of its own, which each of
\* its pages has instead of the page's (rawquery.go:215-228), nor of one with a page size
\* and no sum, which has no page count to go by (rawquery.go:60).
PagesExact ==
  /\ paging = "end" /\ ~moved /\ ask.limit = 0 /\ ask.offset = 0
  /\ ask.size > 0 => ask.sums \/ ask.api = "orm"
  =>
  /\ shown = InOrder(Grouped(Wanted))
  /\ ask.api = "orm" \/ (ask.sums /\ ask.size # -1) =>
       total >= Len(shown) /\ (ask.group = {} => total = Len(shown))
=============================================================================
