------------------------------ MODULE History ------------------------------
(***************************************************************************)
(* Reading the history of a vehicle while readings arrive and are removed     *)
(* (backend/app/history/routes.py): the points of a chart, and the table that   *)
(* is read page by page. A request is several statements under READ COMMITTED, *)
(* each of which sees what was committed when it began; reading changes        *)
(* nothing, so there is one reader.                                        *)
(***************************************************************************)
EXTENDS Integers, FiniteSets, Sequences

CONSTANTS
  MaxReadings, \* bound: readings at once
  Times,       \* recorded_at, from 1 on
  None,
  MaxPoints,   \* max_points of a chart
  Limit        \* limit of a page

VARIABLES
  readings,    \* rows of telemetry by id, which is random; metric is None or a number
  reader       \* the request under way, or what the page shows

hVars == <<readings, reader>>

Ids == 1..MaxReadings
Metrics == {None, 0, 1}
Stored == {i \in Ids : readings[i] # None}
Idle == [op |-> "none"]

Init ==
  /\ readings = [i \in Ids |-> None]
  /\ reader = Idle

\* Rows that arrive while somebody reads
Arrive ==
  \E i \in Ids, at \in Times, value \in Metrics :
    /\ readings[i] = None
    /\ readings' = [readings EXCEPT ![i] = [at |-> at, metric |-> value]]
    /\ reader' = IF reader = Idle THEN Idle ELSE [reader EXCEPT !.late = @ + 1]

\* Nothing is promised to a reader under whom rows are removed: it is not
\* followed any further.
Remove ==
  \E i \in Stored :
    /\ readings' = [readings EXCEPT ![i] = None]
    /\ reader' = Idle

\* sequence: of two rows each from two boots, the numbers are the same.
Sequence(i) == (i + 1) \div 2

----------------------------------------------------------------------------
(* The chart.                                                              *)

\* order_by(Telemetry.recorded_at, Telemetry.id)
Earlier(i, j) ==
  \/ readings[i].at < readings[j].at
  \/ readings[i].at = readings[j].at /\ i < j

Stride(count) == IF count <= MaxPoints THEN 1 ELSE (count + MaxPoints - 1) \div MaxPoints

BeginChart ==
  /\ reader = Idle
  /\ reader' = [op |-> "chart", at |-> "sample", stride |-> Stride(Cardinality(Stored)),
                points |-> <<>>, late |-> 0]
  /\ UNCHANGED readings

\* Every row whose number, from 0, is a multiple of the stride, in order
Ordinal(i) == Cardinality({j \in Stored : Earlier(j, i)})
Sampled(stride) ==
  LET picked == {i \in Stored : Ordinal(i) % stride = 0} IN
  [n \in 1..Cardinality(picked) |->
     CHOOSE i \in picked : Cardinality({j \in picked : Earlier(j, i)}) = n - 1]

Sample ==
  /\ reader.op = "chart" /\ reader.at = "sample"
  /\ reader' = [reader EXCEPT !.at = "last", !.points = Sampled(reader.stride)]
  /\ UNCHANGED readings

\* Mutant: the newest row is always put at the end.
AlwaysAppended(points) ==
  IF Stored = {} THEN points
  ELSE Append(points, CHOOSE i \in Stored : \A j \in Stored \ {i} : Earlier(j, i))

\* The newest row is shown in any case.
WithLast(points) ==
  IF Stored = {} THEN points
  ELSE LET last == CHOOSE i \in Stored : \A j \in Stored \ {i} : Earlier(j, i) IN
       IF points = <<>> \/ points[Len(points)] # last THEN Append(points, last) ELSE points

ShowChart ==
  /\ reader.op = "chart" /\ reader.at = "last"
  /\ reader' = [reader EXCEPT !.at = "shown", !.points = WithLast(reader.points)]
  /\ UNCHANGED readings

----------------------------------------------------------------------------
(* The table.                                                              *)

\* A filter on a metric: `present`, or a minimum, which no NULL satisfies
Passes(i, filter) ==
  CASE filter = "none" -> TRUE
    [] filter = "present" -> readings[i].metric # None
    [] filter = "minimum" -> readings[i].metric # None /\ readings[i].metric >= 1

\* The rows a statement is about: those of the window that pass
Window(r) == {i \in Stored : readings[i].at >= r.start /\ Passes(i, r.filter)}

\* By a metric, rows without it last in either direction, or by the time; then
\* by the time in the same direction, and by the sequence upwards.
Compare(a, b, up) == IF up THEN a < b ELSE b < a
Before(i, j, r) ==
  LET a == readings[i]
      b == readings[j]
      byMetric == r.sort = "metric" /\ a.metric # b.metric
  IN
  IF byMetric
  THEN b.metric = None \/ (a.metric # None /\ Compare(a.metric, b.metric, r.up))
  ELSE \/ Compare(a.at, b.at, r.up)
       \/ a.at = b.at /\ Sequence(i) < Sequence(j)

\* Rows that stand in one order or the other from one page to the next
Tied(i, j, r) == ~Before(i, j, r) /\ ~Before(j, i, r)

\* Mutant: no ORDER BY.
Unordered(r) ==
  {page \in SUBSET Window(r) :
     Cardinality(page) = IF Cardinality(Window(r)) < Limit THEN Cardinality(Window(r)) ELSE Limit}

\* LIMIT and OFFSET: rows `offset` of which come first, in some order of the tied
Pages(r) ==
  LET rows == Window(r)
      Down(set) == \A i \in set, j \in rows : Before(j, i, r) => j \in set
  IN {page \in SUBSET rows : \E skipped \in SUBSET (rows \ page) :
        /\ Cardinality(skipped) = IF Cardinality(rows) < r.offset THEN Cardinality(rows) ELSE r.offset
        /\ Cardinality(page) = IF Cardinality(rows) - Cardinality(skipped) < Limit
                               THEN Cardinality(rows) - Cardinality(skipped) ELSE Limit
        /\ Down(skipped) /\ Down(skipped \cup page)}

OpenTable ==
  \E sort \in {"recorded_at", "metric"}, up \in BOOLEAN, filter \in {"none", "present", "minimum"} :
    /\ reader = Idle
    /\ reader' = [op |-> "table", at |-> "count", sort |-> sort, up |-> up, filter |-> filter,
                  start |-> 1, offset |-> 0, total |-> 0, first |-> {}, seen |-> {},
                  late |-> 0, slid |-> FALSE]
    /\ UNCHANGED readings

\* A page starts its window so many days before now: the window moves along.
Count ==
  /\ reader.op = "table" /\ reader.at = "count"
  /\ \E start \in Times :
       LET r == [reader EXCEPT !.start = start]
           opens == reader.offset = 0
       IN
       /\ start >= reader.start
       /\ reader' = [r EXCEPT !.at = "rows", !.total = Cardinality(Window(r)), !.late = 0,
                        !.first = IF opens THEN Window(r) ELSE @,
                        !.slid = ~opens /\ (@ \/ start > reader.start)]
  /\ UNCHANGED readings

\* After the last page there is no next one to go to.
ShowPage ==
  /\ reader.op = "table" /\ reader.at = "rows"
  /\ \E page \in Pages(reader) :
       reader' = [reader EXCEPT !.seen = @ \cup page,
         !.at = IF reader.offset + Limit < reader.total THEN "page" ELSE "shown"]
  /\ UNCHANGED readings

NextPage ==
  /\ reader.op = "table" /\ reader.at = "page"
  /\ reader' = [reader EXCEPT !.at = "count", !.offset = @ + Limit]
  /\ UNCHANGED readings

Close ==
  /\ reader # Idle
  /\ reader' = Idle
  /\ UNCHANGED readings

Next ==
  \/ Arrive \/ Remove
  \/ BeginChart \/ Sample \/ ShowChart
  \/ OpenTable \/ Count \/ ShowPage \/ NextPage \/ Close

Spec == Init /\ [][Next]_hVars

----------------------------------------------------------------------------
(* Unless readings are removed under it, a chart shows readings in their order *)
(* and each once, no more than max_points and one but for those that arrive     *)
(* while it is put together; if none do, every reading is near one it shows,     *)
(* fewer than the stride apart, and the newest is among them                  *)
(* (history/routes.py:114 and :139).                                       *)
ChartInOrder ==
  reader.op = "chart" /\ reader.at = "shown" =>
    LET points == reader.points IN
    /\ \A n \in 1..(Len(points) - 1) : Earlier(points[n], points[n + 1])
    /\ Len(points) <= MaxPoints + 1 + reader.late
    /\ reader.late = 0 =>
         /\ \A i \in Stored : \E n \in 1..Len(points) :
              /\ ~Earlier(i, points[n])
              /\ Cardinality({j \in Stored : Earlier(points[n], j) /\ ~Earlier(i, j)}) < reader.stride
         /\ Stored # {} => \A i \in Stored : ~Earlier(points[Len(points)], i)

(* Who reads the table to its last page has seen every reading that was there  *)
(* when it was opened and still is, whatever arrives between the pages; the     *)
(* newest first also while the window moves along. It takes a removal, a tie of *)
(* all that orders the rows, or an arrival between the two statements of the    *)
(* last page to miss one (history/routes.py:247-257).                        *)
PagesSkipNothing ==
  reader.op = "table" /\ reader.at = "shown" =>
    \/ reader.late > 0
    \/ reader.slid /\ (reader.sort # "recorded_at" \/ reader.up)
    \/ \E i, j \in Window(reader) : i # j /\ Tied(i, j, reader)
    \/ reader.first \cap Window(reader) \subseteq reader.seen

=============================================================================
