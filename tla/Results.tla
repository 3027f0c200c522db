---------------------------- MODULE Results ----------------------------
(***************************************************************************)
(* What is kept of a run and what is shown of it: the stored run as rows,  *)
(* executions and messages arrive; the queries it answers, in windows and  *)
(* as statistics; and two panes of the front end that ask for parts of it  *)
(* while it grows and may be replaced: the table of the newest rows and    *)
(* the chart that loads its series piece by piece.                         *)
(*                                                                         *)
(* There is one output page.  Numbers are integers, quartiles are counted  *)
(* in quarters, and averages and variances are exact fractions; rounding   *)
(* is left out.  In the panes a row is its number, and scroll positions    *)
(* are rows.                                                               *)
(***************************************************************************)
EXTENDS Integers, Sequences, SequencesExt, FiniteSetsExt, TLC

CONSTANTS
    Outputs,    \* the columns of the page
    Stamped,    \* those with the timestamp format
    Executions, \* what steps may come to: [step, status, root, message, value]
    MaxBins,    \* bins of a histogram
    MaxWindow,  \* rows in an answer
    MaxRecords, \* messages kept
    Chunk,      \* rows the chart asks for at once
    Height,     \* rows the table has room for
    Overscan    \* rows the table asks for above and below

ASSUME ResultsAssumption ==
    /\ Stamped \subseteq Outputs
    /\ {MaxBins, MaxWindow, MaxRecords, Chunk, Height} \subseteq Nat \ {0} /\ Overscan \in Nat
    /\ Height + 2 * Overscan <= MaxWindow

(* What a step comes to, and the value it has.                             *)
ASSUME ExecutionsAssumption ==
    \A e \in Executions :
        /\ e.status \in {"succeeded", "failed", "cancelled"}
        /\ e.value \in [is : STRING, long : BOOLEAN, large : BOOLEAN, fields : SUBSET STRING]

VARIABLES
    stored,  \* the StoredRun that is current
    view     \* the front end: what it was told of a run, the table and the chart

Nothing == [is |-> "nothing"]
Dropped == [is |-> "dropped"]
NoEntries == [x \in {} |-> 0]
Monus(a, b) == IF a > b THEN a - b ELSE 0

-----------------------------------------------------------------------------
(* NumericAccumulator, in fractions.                                       *)
AsFraction(v) == <<v, 1>>
Lowest(f) ==
    LET common == Max({k \in 1 .. f[2] : f[1] % k = 0 /\ f[2] % k = 0})
    IN <<f[1] \div common, f[2] \div common>>
Added(f, g) == Lowest(<<f[1] * g[2] + g[1] * f[2], f[2] * g[2]>>)
Subtracted(f, g) == Added(f, <<-g[1], g[2]>>)
Multiplied(f, g) == Lowest(<<f[1] * g[1], f[2] * g[2]>>)

accumulator(v) == [count |-> 1, min |-> v, max |-> v, avg |-> AsFraction(v), m2 |-> AsFraction(0)]

\* Bug to rule out: the deviation is taken from the average before.
AccumulateByOld(a, v) ==
    LET count == a.count + 1
        delta == Subtracted(AsFraction(v), a.avg)
    IN [count |-> count, min |-> Min({a.min, v}), max |-> Max({a.max, v}),
        avg |-> Added(a.avg, Multiplied(delta, <<1, count>>)), m2 |-> Added(a.m2, Multiplied(delta, delta))]

accumulate(a, v) ==
    LET count == a.count + 1
        delta == Subtracted(AsFraction(v), a.avg)
        avg == Added(a.avg, Multiplied(delta, <<1, count>>))
    IN [count |-> count, min |-> Min({a.min, v}), max |-> Max({a.max, v}), avg |-> avg,
        m2 |-> Added(a.m2, Multiplied(delta, Subtracted(AsFraction(v), avg)))]

\* The square of std_dev.
variance(a) == Multiplied(a.m2, <<1, a.count - 1>>)

-----------------------------------------------------------------------------
(* What is kept.                                                           *)
Cell(row, name, is) == name \in DOMAIN row /\ row[name].is = is

\* A page without rows; Stamped outputs never count as numeric.
NewRun(id) ==
    [id |-> id, rows |-> <<>>, numeric |-> Outputs \ Stamped, stamped |-> Stamped, sums |-> NoEntries,
     executions |-> <<>>, ok |-> TRUE, root |-> {}, steps |-> NoEntries, messages |-> <<>>, total |-> 0]

\* StoredPage::append.
append(run, row) ==
    LET summed == {name \in DOMAIN row \ Stamped : Cell(row, name, "number")}
    IN [run EXCEPT
          !.rows = Append(@, row),
          !.stamped = {name \in @ : Cell(row, name, "stamp")},
          !.numeric = {name \in @ : Cell(row, name, "number")},
          !.sums = [name \in DOMAIN @ \cup summed |->
                       IF name \notin summed THEN @[name]
                       ELSE IF name \in DOMAIN @ THEN accumulate(@[name], row[name].of)
                       ELSE accumulator(row[name].of)]]

\* A text longer than the limit is cut, a measured value keeps its number
\* and its unit, however large, anything else that is large is left out.
bounded_preview(value) ==
    LET measured == value.is = "object" /\ {"value", "unit"} \subseteq value.fields
    IN CASE value.is = "text" -> [preview |-> [value EXCEPT !.long = FALSE], omitted |-> value.long]
         [] measured ->
               [preview |-> [value EXCEPT !.long = FALSE, !.fields = {"value", "unit"}],
                omitted |-> value.long \/ value.fields # {"value", "unit"}]
         [] value.is \in {"object", "array"} /\ ~measured /\ value.large ->
               [preview |-> Nothing, omitted |-> TRUE]
         [] OTHER -> [preview |-> value, omitted |-> FALSE]

\* The text of a Show Message step is not kept twice.
compact_execution(e) ==
    LET kept == IF e.status = "succeeded" /\ ~e.message THEN bounded_preview(e.value)
                ELSE [preview |-> Nothing, omitted |-> FALSE]
    IN [step |-> e.step, status |-> e.status, root |-> e.root,
        preview |-> kept.preview, omitted |-> kept.omitted]

append_step(run, e) ==
    LET ok == e.status = "succeeded"
        known == e.step \in DOMAIN run.steps
        before == IF known THEN run.steps[e.step] ELSE [failed |-> FALSE, ok |-> TRUE]
    IN [run EXCEPT
          !.executions = Append(@, compact_execution(e)),
          !.ok = @ /\ ok,
          !.root = IF e.root THEN @ \cup {e.step} ELSE @,
          !.steps = [step \in DOMAIN @ \cup {e.step} |->
                        IF step # e.step THEN @[step]
                        ELSE [failed |-> before.failed \/ e.status = "failed", ok |-> before.ok /\ ok,
                              latest |-> compact_execution(e)]]]

step_status(summary) ==
    IF summary.failed THEN "failed" ELSE IF summary.ok THEN "succeeded" ELSE "cancelled"

\* StoredMessages::append; the text of a message is its number.
append_message(run) ==
    [run EXCEPT !.total = @ + 1,
                !.messages = Append(IF Len(@) = MaxRecords THEN Tail(@) ELSE @, run.total + 1)]

-----------------------------------------------------------------------------
(* What is asked of it, in windows.                                        *)

\* The newest first, offset of them skipped.
Newest(list, offset, limit) ==
    LET end == Monus(Len(list), offset)
    IN Reverse(SubSeq(list, Monus(end, Min({limit, MaxWindow})) + 1, end))

executions(run, offset, limit) == Newest(run.executions, offset, limit)

page_rows(run, offset, limit) ==
    [is |-> "rows", run |-> run.id, total |-> Len(run.rows), offset |-> offset,
     rows |-> Newest([i \in DOMAIN run.rows |-> i], offset, limit)]

window(run, offset, limit) ==
    LET end == Monus(Len(run.messages), offset)
    IN SubSeq(run.messages, Monus(end, limit) + 1, end)

\* The outputs that have a number, or a time, in every row there is.
timestamp_outputs(run) == IF run.rows = <<>> THEN {} ELSE run.stamped
numeric_outputs(run) == IF run.rows = <<>> THEN {} ELSE run.numeric

\* What the front end is told of the page.
page_metadata(run) ==
    [is |-> "told", run |-> run.id, rows |-> Len(run.rows),
     eligible |-> numeric_outputs(run) \cup timestamp_outputs(run)]

chart_series(run, names, start, limit) ==
    IF start > Len(run.rows) \/ ~(names \subseteq numeric_outputs(run) \cup timestamp_outputs(run))
    THEN Dropped
    ELSE [is |-> "series", run |-> run.id, start |-> start, names |-> names,
          tail |-> [i \in 1 .. Min({limit, Len(run.rows) - start}) |-> <<run.id, start + i>>]]

\* Only the run that is asked about answers, and only while it is current.
with_current(id, answer) == IF stored.id = id THEN answer ELSE Dropped

-----------------------------------------------------------------------------
(* What is asked of it, as statistics.                                     *)

numeric_values(run, name) == [i \in DOMAIN run.rows |-> run.rows[i][name].of]

\* The least number of bins not below 1 + log2 of the samples.
AutoBins(samples) == Min({k \in 1 .. samples : 2 ^ (k - 1) >= samples} \cup {MaxBins})

\* Edges are multiplied by the number of bins unless their width is given.
Binned(values, mode, value) ==
    LET min == Min(ToSet(values))
        max == Max(ToSet(values))
        asked == CASE mode = "auto" -> AutoBins(Len(values))
                   [] mode = "count" -> value
                   [] mode = "width" -> Max({1, (max - min + value - 1) \div value})
        count == IF min = max THEN 1 ELSE asked
        scale == IF mode = "width" THEN 1 ELSE count
        width == IF mode = "width" THEN value ELSE max - min
        bin(v) == IF min = max THEN 1 ELSE Min({(scale * (v - min)) \div width, count - 1}) + 1
        edge(i) == IF i = count THEN scale * max ELSE scale * min + i * width
    IN IF asked > MaxBins THEN <<>>
       ELSE [i \in 1 .. count |->
                [start |-> edge(i - 1), end |-> edge(i), scale |-> scale,
                 count |-> Quantify(DOMAIN values, LAMBDA k : bin(values[k]) = i)]]

histogram(run, name, mode, value) == Binned(numeric_values(run, name), mode, value)

\* In quarters, at a quarter of the way from the first to the last.
percentile(sorted, quarter) ==
    LET position == (Len(sorted) - 1) * quarter
        lower == sorted[position \div 4 + 1]
        upper == sorted[(position + 3) \div 4 + 1]
    IN 4 * lower + (upper - lower) * (position % 4)

box_plot(run, name) ==
    LET sorted == SortSeq(numeric_values(run, name), <)
        q1 == percentile(sorted, 1)
        q3 == percentile(sorted, 3)
        in(v) == 8 * v >= 5 * q1 - 3 * q3 /\ 8 * v <= 5 * q3 - 3 * q1
        inliers == SelectSeq(sorted, in)
    IN [q1 |-> q1, median |-> percentile(sorted, 2), q3 |-> q3, inliers |-> inliers,
        outliers |-> SelectSeq(sorted, LAMBDA v : ~in(v))]

-----------------------------------------------------------------------------
(* The front end: what it is told, and the table of the newest rows.       *)

NoSeries == [name \in Outputs |-> <<>>]
NewView(pane) ==
    [pane |-> pane, news |-> Nothing, run |-> 0, told |-> 0, eligible |-> {}, top |-> 0,
     table |-> Nothing, asked |-> Nothing, wanted |-> {}, chart |-> NoSeries, loader |-> Nothing]

LastTop(total) == Monus(total, Height)

virtualRowRange(total, top) ==
    LET shown == Min({top, LastTop(total)})
    IN [start |-> Monus(shown, Overscan), end |-> Min({total, shown + Height + Overscan})]

\* What the table needs for what the front end was told.
Needed ==
    LET range == virtualRowRange(view.told, view.top)
    IN [is |-> "asked", run |-> view.run, total |-> view.told, start |-> range.start, end |-> range.end]

outputWindowCovers(w, request) ==
    /\ w.is = "rows" /\ w.run = request.run /\ w.total = request.total
    /\ w.offset = request.start /\ Len(w.rows) >= request.end - request.start

preserveVirtualScrollTop(top, before, total) ==
    IF top = 0 THEN 0 ELSE Min({top + Monus(total, before), LastTop(total)})

Rebased(w, total) == [w EXCEPT !.offset = @ + total - w.total, !.total = total]

\* Whatever window there is moves along with the rows that were added.
RebaseAny(w, run, before, total) ==
    IF w.is = "rows" /\ w.run = run /\ total > before
    THEN [w EXCEPT !.offset = @ + total - before, !.total = total] ELSE w

\* A window of what was told before moves along with the rows added above.
rebaseNewestFirstWindow(w, run, before, total) ==
    IF w.is = "rows" /\ w.run = run /\ w.total = before /\ total > before THEN Rebased(w, total) ELSE w

\* A request is given up when what it asks for is no longer what is needed.
Asking(next) ==
    LET needed(v) == <<v.run, v.told, virtualRowRange(v.told, v.top)>>
    IN IF needed(next) = needed(view) THEN next.asked ELSE Nothing

\* A batch with what there is now is sent, after any that is under way.
Tell ==
    /\ view.news # page_metadata(stored)
    /\ view' = [view EXCEPT !.news = page_metadata(stored)]
    /\ UNCHANGED stored

\* It is received: another run begins with empty series, the table keeps
\* its place, and a loader that gave up tries again.
Hear ==
    /\ view.news # Nothing
    /\ LET fresh == view.news.run # view.run
           eligible == view.news.eligible
           top == preserveVirtualScrollTop(view.top, view.told, view.news.rows)
           next == [view EXCEPT
                      !.news = Nothing,
                      !.run = view.news.run, !.told = view.news.rows, !.eligible = eligible, !.top = top,
                      !.table = IF top # view.top
                                THEN rebaseNewestFirstWindow(@, view.news.run, view.told, view.news.rows)
                                ELSE @,
                      !.wanted = @ \cap eligible,
                      !.chart = [n \in Outputs |-> IF fresh \/ n \notin eligible THEN <<>> ELSE @[n]],
                      !.loader = IF \/ fresh \/ ~(view.wanted \subseteq eligible)
                                    \/ @ = Dropped /\ view.news.rows # view.told
                                 THEN Nothing ELSE @]
       IN view' = [next EXCEPT !.asked = Asking(next)]
    /\ UNCHANGED stored

Scroll ==
    /\ view.pane = "table"
    /\ \E top \in 0 .. LastTop(view.told) :
          LET next == [view EXCEPT !.top = top]
          IN top # view.top /\ view' = [next EXCEPT !.asked = Asking(next)]
    /\ UNCHANGED stored

AskRows ==
    /\ view.pane = "table" /\ view.run # 0
    /\ view.asked = Nothing /\ ~outputWindowCovers(view.table, Needed)
    /\ view' = [view EXCEPT !.asked = Needed]
    /\ UNCHANGED stored

AnswerRows ==
    /\ view.asked.is = "asked"
    /\ view' = [view EXCEPT !.asked =
                   with_current(@.run, page_rows(stored, @.start, @.end - @.start))]
    /\ UNCHANGED stored

\* An answer about more rows than the front end was told of is not shown.
ReceiveRows ==
    /\ view.asked.is = "rows"
    /\ view' = IF outputWindowCovers(view.asked, Needed)
               THEN [view EXCEPT !.table = view.asked, !.asked = Nothing]
               ELSE [view EXCEPT !.asked = Dropped]
    /\ UNCHANGED stored

\* The rows shown and the iteration each is shown as.
Shown ==
    LET w == view.table
    IN IF w.is = "rows" /\ w.run = view.run /\ w.offset = virtualRowRange(w.total, view.top).start
       THEN [i \in DOMAIN w.rows |-> [row |-> w.rows[i], iteration |-> w.total - (w.offset + i - 1)]]
       ELSE <<>>

-----------------------------------------------------------------------------
(* The chart.                                                              *)

\* The user chooses other outputs: series no longer wanted are let go.
Choose ==
    /\ view.pane = "chart"
    /\ \E names \in SUBSET view.eligible :
          /\ names # view.wanted
          /\ view' = [view EXCEPT !.wanted = names, !.loader = Nothing,
                                  !.chart = [n \in Outputs |-> IF n \in names THEN @[n] ELSE <<>>]]
    /\ UNCHANGED stored

chartLoadGroups ==
    {[is |-> "load", run |-> view.run, start |-> start, limit |-> Min({Chunk, view.told - start}),
      names |-> {n \in view.wanted : Len(view.chart[n]) = start}] :
         start \in {Len(view.chart[n]) : n \in view.wanted} \cap 0 .. view.told - 1}

AskSeries ==
    /\ view.loader = Nothing
    /\ \E group \in chartLoadGroups : view' = [view EXCEPT !.loader = group]
    /\ UNCHANGED stored

AnswerSeries ==
    /\ view.loader.is = "load"
    /\ view' = [view EXCEPT !.loader =
                   with_current(@.run, chart_series(stored, @.names, @.start, @.limit))]
    /\ UNCHANGED stored

ReceiveSeries ==
    /\ view.loader.is = "series"
    /\ LET answer == view.loader
           fits == /\ answer.run = view.run /\ answer.tail # <<>>
                   /\ \A n \in answer.names : Len(view.chart[n]) = answer.start
       IN view' = IF fits
                  THEN [view EXCEPT !.loader = Nothing,
                                    !.chart = [n \in Outputs |->
                                       IF n \in answer.names THEN @[n] \o answer.tail ELSE @[n]]]
                  ELSE [view EXCEPT !.loader = Dropped]
    /\ UNCHANGED stored

-----------------------------------------------------------------------------
(* look says what happens in a run, how much of it, and which pane is      *)
(* open; panes do not share what they load.                                *)
ResultsInit(looks) ==
    \/ looks = {} /\ stored = Nothing /\ view = Nothing
    \/ \E look \in looks : stored = NewRun(1) /\ view = NewView(look.pane)

Begin(look) ==
    /\ stored.id < look.runs
    /\ stored' = NewRun(stored.id + 1)
    /\ UNCHANGED view

Happens(look) ==
    /\ Len(stored.rows) + Len(stored.executions) + stored.total < look.events
    /\ \/ \E row \in look.rows : stored' = append(stored, row)
       \/ look.executions /\ \E e \in Executions : stored' = append_step(stored, e)
       \/ look.messages /\ stored' = append_message(stored)
    /\ UNCHANGED view

Panes == Tell \/ Hear \/ Scroll \/ AskRows \/ AnswerRows \/ ReceiveRows
         \/ Choose \/ AskSeries \/ AnswerSeries \/ ReceiveSeries

ResultsStep(looks) ==
    \E look \in looks :
        /\ look.pane = view.pane
        /\ \/ Begin(look)
           \/ Happens(look)
           \/ look.pane \in {"table", "chart"} /\ Panes
-----------------------------------------------------------------------------
(* The statistics of a column are those of its numbers.                    *)
SumsAreExact ==
    \A name \in DOMAIN stored.sums :
        LET at == {i \in DOMAIN stored.rows : Cell(stored.rows[i], name, "number")}
            v(i) == stored.rows[i][name].of
            n == Cardinality(at)
            total == MapThenSumSet(v, at)
            squares == MapThenSumSet(LAMBDA i : v(i) * v(i), at)
            sum == stored.sums[name]
        IN /\ sum.count = n /\ sum.min = Min({v(i) : i \in at}) /\ sum.max = Max({v(i) : i \in at})
           /\ sum.avg[1] * n = total * sum.avg[2]
           /\ sum.m2[1] * n = (n * squares - total * total) * sum.m2[2]

\* Every sample is in the one bin whose edges it is between.
BinsAreExact(name) ==
    LET values == numeric_values(stored, name)
        exact(bins) ==
            bins # <<>> =>
                \A i \in DOMAIN bins :
                    bins[i].count =
                        Quantify(DOMAIN values, LAMBDA k :
                            /\ bins[i].scale * values[k] >= bins[i].start
                            /\ \/ bins[i].scale * values[k] < bins[i].end
                               \/ i = Len(bins) /\ bins[i].scale * values[k] = bins[i].end)
    IN /\ exact(histogram(stored, name, "auto", 0)) /\ histogram(stored, name, "auto", 0) # <<>>
       /\ \A value \in 1 .. MaxBins + 1 :
             /\ exact(histogram(stored, name, "count", value))
             /\ exact(histogram(stored, name, "width", value))

\* A quartile has no more samples on a side than its place allows, and
\* the whiskers exist and part the outliers from the rest.
BoxIsExact(name) ==
    LET values == numeric_values(stored, name)
        box == box_plot(stored, name)
        below(q) == Quantify(DOMAIN values, LAMBDA k : 4 * values[k] < q)
        above(q) == Quantify(DOMAIN values, LAMBDA k : 4 * values[k] > q)
        divides(q, quarter) ==
            LET position == (Len(values) - 1) * quarter
            IN 4 * below(q) <= position + 3 /\ 4 * above(q) <= 4 * (Len(values) - 1) - position + 3
    IN /\ divides(box.q1, 1) /\ divides(box.median, 2) /\ divides(box.q3, 3)
       /\ box.inliers # <<>> /\ Len(box.inliers) + Len(box.outliers) = Len(values)
       /\ \A i \in DOMAIN box.outliers :
             \/ box.outliers[i] < Head(box.inliers) /\ 4 * box.outliers[i] < box.q1
             \/ box.outliers[i] > Last(box.inliers) /\ 4 * box.outliers[i] > box.q3

(* While rows arrive, some without a number, with text, or with a time:    *)
(* what counts as numeric has a number in every row, as the queries expect *)
(* (stored_run.rs, the expect of numeric_values and chart_series), the     *)
(* running averages and variances are those of the rows, every bin of a    *)
(* histogram has the samples between its edges, and a box plot has         *)
(* whiskers and no sample twice.                                           *)
RunIsSummed ==
    stored # Nothing =>
        /\ SumsAreExact
        /\ \A name \in numeric_outputs(stored) :
              /\ \A i \in DOMAIN stored.rows : Cell(stored.rows[i], name, "number")
              /\ name \in DOMAIN stored.sums
              /\ BinsAreExact(name) /\ BoxIsExact(name)

\* Windows of any size, one after the other, are the list from its end.
Tiles(answer(_, _), list) ==
    \A limit \in 1 .. MaxWindow, k \in 1 .. Len(list) :
        answer((k - 1) * limit, limit) =
            SubSeq(Reverse(list), (k - 1) * limit + 1, Min({k * limit, Len(list)}))

\* The status of a step over all its executions, and the last of them.
StepsAreSummed ==
    \A step \in DOMAIN stored.steps :
        LET of == {i \in DOMAIN stored.executions : stored.executions[i].step = step}
            some(status) == \E i \in of : stored.executions[i].status = status
        IN /\ stored.steps[step].latest = stored.executions[Max(of)]
           /\ step_status(stored.steps[step]) =
                 IF some("failed") THEN "failed"
                 ELSE IF some("cancelled") THEN "cancelled" ELSE "succeeded"

(* What is shown is of the run it is shown for and in its place, while the *)
(* run goes on or is replaced and answers come late: a row in the table is *)
(* shown as the iteration it was, a series in the chart has no gap and no  *)
(* row twice, pages of rows and executions neither overlap nor leave any   *)
(* out, the messages are the last ones, and a preview that is not all of   *)
(* its value says so (VirtualizedOutputTable.tsx, ResultChart.tsx,         *)
(* stored_run.rs).                                                         *)
PanesAreReal ==
    stored # Nothing =>
        /\ \A i \in DOMAIN Shown : Shown[i].row = Shown[i].iteration
        /\ \A n \in Outputs : \A i \in DOMAIN view.chart[n] : view.chart[n][i] = <<view.run, i>>
        /\ Tiles(LAMBDA offset, limit : executions(stored, offset, limit), stored.executions)
        /\ Tiles(LAMBDA offset, limit : page_rows(stored, offset, limit).rows,
                 [i \in DOMAIN stored.rows |-> i])
        /\ window(stored, 0, MaxRecords) =
              [i \in 1 .. Min({stored.total, MaxRecords}) |-> Monus(stored.total, MaxRecords) + i]
        /\ StepsAreSummed
        /\ \A e \in Executions :
              LET kept == bounded_preview(e.value)
              IN kept.omitted <=> kept.preview # e.value
=============================================================================
