------------------------------ MODULE Feed ------------------------------
(***************************************************************************)
(* What a background does with its source beyond what Background has: the  *)
(* software timer that asks a meter for one measurement at a time, the     *)
(* running figures of the open Dataset, the Live Monitor, which keeps the  *)
(* newest events whether a Capture is ON or not, and the chart query,      *)
(* which reads a Dataset in pieces while samples are added                 *)
(* (background.rs).                                                        *)
(*                                                                         *)
(* Time is a clock that ticks at any moment.  The source conforms: it      *)
(* measures what it was asked for and numbers its samples as it was given  *)
(* them; it may also stop by itself, refuse a trigger, or take one without *)
(* its answer arriving.  Averages are exact fractions, as in Results.      *)
(***************************************************************************)
EXTENDS Results

CONSTANTS
    MonitorPoints, \* events the Live Monitor keeps
    MonitorBytes,  \* and of Serial, bytes
    EventBatch,    \* events handled before the timer is looked at
    ScanBatch,     \* samples a query reads under the lock
    ChartPoints,   \* the largest budget of a query
    RawLimit,      \* the points an answer with raw data may have
    Startup,       \* time for the source to become active
    ActionTimeout  \* time for one reading

ASSUME FeedAssumption ==
    /\ {MonitorPoints, MonitorBytes, EventBatch, ScanBatch} \subseteq Nat \ {0}
    /\ {RawLimit, Startup, ActionTimeout} \subseteq Nat \ {0}
    /\ ChartPoints \in Nat /\ ChartPoints >= 4

VARIABLES
    feed,    \* the dispatcher: [config, pc, ...] and what it stores
    source,  \* the Worker behind it
    plot,    \* a chart query, or Nothing
    clock

NotSet == -1

\* Events of a source.
StatusEvent(stream, stopping) == [is |-> "status", stream |-> stream, stopping |-> stopping]
SummaryEvent == [is |-> "summary"]
EndOfPipe == [is |-> "closed"]

FreshSource ==
    [phase |-> "idle", queue |-> <<>>, left |-> 0, made |-> 0, ready |-> 0,
     stopped |-> FALSE, hurried |-> FALSE]

Off(config, runs) ==
    [config |-> config, pc |-> "off", left |-> 0, stream |-> "none", total |-> 0, first |-> NotSet,
     timer |-> Nothing, called_off |-> FALSE, over |-> FALSE, failed |-> "no", reply |-> "none",
     current |-> 0, sets |-> <<>>, monitor |-> <<>>, arrived |-> <<>>, waited |-> 0, runs |-> runs]

-----------------------------------------------------------------------------
(* Datasets and the Live Monitor.                                          *)

NewSet ==
    [rows |-> 0, bytes |-> 0, counted |-> 0, min |-> 0, max |-> 0, avg |-> AsFraction(0),
     samples |-> <<>>]

\* A reading that is not valid is kept and not counted.
Filed(set, e) ==
    LET n == set.counted + 1
        kept == [set EXCEPT !.rows = @ + 1, !.samples = Append(@, e)]
    IN CASE e.is = "rx" -> [kept EXCEPT !.bytes = @ + e.bytes]
         [] e.is = "sample" /\ ~e.valid -> kept
         [] e.is = "sample" /\ set.counted = 0 ->
               [kept EXCEPT !.counted = 1, !.min = e.value, !.max = e.value, !.avg = AsFraction(e.value)]
         [] OTHER ->
               [kept EXCEPT !.counted = n, !.min = Min({@, e.value}), !.max = Max({@, e.value}),
                            !.avg = Added(@, Multiplied(Subtracted(AsFraction(e.value), @), <<1, n>>))]

Size(e) == IF e.is = "rx" THEN e.bytes ELSE 0
Bytes(views) == FoldSeq(LAMBDA e, sum : Size(e) + sum, 0, views)

\* Of an event larger than the whole Monitor its end is shown.
Cut(e) == IF e.is = "rx" THEN [e EXCEPT !.bytes = Min({@, MonitorBytes})] ELSE e

\* The oldest events go until the others fit.
Monitored(monitor, e) ==
    LET views == Append(monitor, Cut(e))
        rest(k) == SubSeq(views, k + 1, Len(views))
        fits(k) == Len(rest(k)) <= MonitorPoints /\ Bytes(rest(k)) <= MonitorBytes
    IN rest(Min({k \in 0 .. Len(views) : fits(k)}))

capture_on(f) == [f EXCEPT !.sets = Append(@, NewSet), !.current = Len(f.sets) + 1]

\* An event as it is kept.
Placed(e, elapsed, number) == [elapsed |-> elapsed, captured |-> number] @@ e

\* An event with data.  A scope says itself how much time has elapsed; for
\* the others it is counted from the first event of the run.  What Serial
\* receives is numbered here.
Stored(f, e) ==
    LET first == IF f.first = NotSet /\ f.config.tool # "scopes" THEN e.at ELSE f.first
        elapsed == IF f.config.tool = "scopes" THEN e.at ELSE e.at - first
        number == IF e.is = "rx" THEN f.total + 1 ELSE e.captured
        stamped == Placed(e, elapsed, number)
    IN [f EXCEPT
          !.first = first,
          !.total = @ + 1,
          !.arrived = Append(@, stamped),
          !.monitor = IF f.config.live_monitor THEN Monitored(@, stamped) ELSE @,
          !.sets = IF f.current = 0 THEN @ ELSE [@ EXCEPT ![f.current] = Filed(@, stamped)]]

-----------------------------------------------------------------------------
(* SoftwareTimer.                                                          *)

config_timer(config) ==
    IF config.interval = 0 THEN Nothing
    ELSE [next |-> clock, pending |-> 0, deadline |-> 0, ready |-> clock + Startup, end |-> NotSet,
          stopping |-> FALSE]

\* Bug to rule out: the interval is counted from the first reading.
ObtainedFirst(f) ==
    [f EXCEPT !.timer.pending = @ - 1,
              !.timer.next = IF f.timer.pending = f.config.batch THEN clock + f.config.interval ELSE @]

\* The interval is counted from the last reading of a measurement.
Obtained(f) ==
    [f EXCEPT !.timer.pending = @ - 1,
              !.timer.next = IF f.timer.pending = 1 THEN clock + f.config.interval ELSE @]

\* SoftwareTimer::sample, for a sample that is all right otherwise.
sample(f) ==
    CASE f.timer.stopping -> f
      [] ~f.timer.stopping /\ f.timer.pending = 0 -> [f EXCEPT !.failed = "unasked"]
      [] OTHER -> IF clock >= f.timer.deadline THEN [f EXCEPT !.failed = "late"] ELSE Obtained(f)

\* The timer asks for no more.
Resting(f) ==
    \/ f.timer = Nothing \/ f.called_off \/ f.over \/ f.stream = "ended"
    \/ f.timer # Nothing /\ f.timer.stopping

\* All the samples that were asked for have arrived.
AllTaken(f) == f.config.limit # 0 /\ f.total = f.config.limit

Due(f) ==
    /\ ~Resting(f) /\ f.stream = "active" /\ f.timer.pending = 0 /\ ~AllTaken(f)
    /\ clock >= f.timer.next

Late(f) ==
    CASE f.stream # "active" -> clock >= f.timer.ready
      [] f.stream = "active" /\ f.timer.pending > 0 -> clock >= f.timer.deadline
      [] OTHER -> AllTaken(f) /\ f.timer.end # NotSet /\ clock >= f.timer.end

\* tick without its trigger: deadlines, the last of which begins here.
tick(f) ==
    CASE Resting(f) -> f
      [] ~Resting(f) /\ Late(f) -> [f EXCEPT !.failed = "late"]
      [] OTHER ->
            IF f.stream = "active" /\ f.timer.pending = 0 /\ AllTaken(f) /\ f.timer.end = NotSet
            THEN [f EXCEPT !.timer.end = clock + ActionTimeout] ELSE f

-----------------------------------------------------------------------------
(* Dispatcher::event.                                                      *)

event(f, e) ==
    CASE e.is = "status" ->
            [f EXCEPT !.stream = e.stream,
                      !.timer = IF e.stopping /\ @ # Nothing THEN [@ EXCEPT !.stopping = TRUE] ELSE @]
      [] e.is \in {"sample", "rx"} ->
            LET next == f.total + 1
                kept == Stored(f, e)
            IN CASE f.stream # "active" -> [f EXCEPT !.failed = "outside"]
                 [] f.stream = "active" /\ e.is = "sample" /\ e.captured # next ->
                       [kept EXCEPT !.failed = "sequence"]
                 [] f.stream = "active" /\ f.config.limit # 0 /\ next > f.config.limit ->
                       [kept EXCEPT !.failed = "excess"]
                 [] OTHER -> IF f.timer = Nothing THEN kept ELSE sample(kept)
      [] e.is = "summary" -> [f EXCEPT !.over = TRUE]

-----------------------------------------------------------------------------
(* The dispatcher: a command, up to EventBatch events, a look at the timer.*)

At(pc) == feed.pc = pc

\* fail and stop: the Worker is asked to stop and its tail is read.
Stopping(f) ==
    [f EXCEPT !.pc = "stopping",
              !.timer = IF @ = Nothing THEN @ ELSE [@ EXCEPT !.stopping = TRUE]]

AskToStop == \E accepted \in BOOLEAN : source' = [source EXCEPT !.stopped = @ \/ accepted]

\* What comes of a look at the timer.
ComesTo(f) ==
    IF f.failed = "no" THEN feed' = f /\ UNCHANGED source
    ELSE feed' = Stopping(f) /\ AskToStop

WorkerOn ==
    /\ At("off") /\ feed.runs > 0 /\ feed.failed = "no" /\ ~feed.called_off
    /\ LET fresh == [Off(feed.config, feed.runs - 1) EXCEPT !.pc = "command", !.sets = feed.sets,
                                                           !.timer = config_timer(feed.config)]
       IN feed' = IF feed.config.captures > 0 THEN fresh ELSE capture_on(fresh)
    /\ source' = FreshSource
    /\ UNCHANGED <<plot, clock>>

TakeCommand ==
    /\ At("command")
    /\ LET next == [feed EXCEPT !.pc = "events", !.left = EventBatch]
       IN \/ feed' = next
          \/ feed.current = 0 /\ Len(feed.sets) < feed.config.captures /\ feed' = capture_on(next)
          \/ feed.current # 0 /\ feed.config.captures > 0 /\ feed' = [next EXCEPT !.current = 0]
    /\ UNCHANGED <<source, plot, clock>>

\* Worker OFF, or cleanup at the end of the workflow.
ReleaseWorker ==
    /\ At("command")
    /\ feed' = Stopping(feed) /\ AskToStop
    /\ UNCHANGED <<plot, clock>>

\* The stream is over: the Capture is closed, the Worker gone.
Gone(f) == [f EXCEPT !.pc = "off", !.current = 0, !.over = TRUE]

Took(f) == [f EXCEPT !.left = @ - 1, !.waited = IF Due(feed) THEN @ + 1 ELSE 0]

\* However much there is to handle, the timer has its turn.
BatchOver == feed.left = 0

Handle ==
    /\ At("events") /\ ~BatchOver /\ source.queue # <<>>
    /\ LET e == Head(source.queue)
           f == event(Took(feed), e)
           next == IF e.is = "closed" THEN Gone(feed) ELSE IF f.failed = "no" THEN tick(f) ELSE f
           failed == next.failed # "no"
       IN /\ feed' = IF failed THEN Stopping(next) ELSE next
          /\ \E accepted \in (IF failed THEN BOOLEAN ELSE {FALSE}) :
                source' = [source EXCEPT !.queue = Tail(@), !.stopped = @ \/ accepted]
    /\ UNCHANGED <<plot, clock>>

\* The timer is looked at, and asks its source if it is time.
TakeLook ==
    /\ At("events") /\ (BatchOver \/ source.queue = <<>>)
    /\ \/ /\ ~Due(feed) /\ ComesTo([tick(feed) EXCEPT !.pc = "command"])
       \/ /\ Due(feed)
          /\ \E answer \in {"accepted", "lost", "refused"} :
                /\ answer # "refused" => source.phase = "active" /\ ~source.stopped
                /\ feed' = [feed EXCEPT !.pc = "triggering", !.reply = answer, !.waited = 0]
                /\ source' = IF answer = "refused" THEN source
                             ELSE [source EXCEPT !.left = @ + feed.config.batch,
                                                 !.hurried = @ \/ clock < source.ready]
    /\ UNCHANGED <<plot, clock>>

TriggerReturns ==
    /\ At("triggering")
    /\ \/ /\ feed.reply = "accepted"
          /\ feed' = [feed EXCEPT !.pc = "command", !.timer.pending = feed.config.batch,
                                  !.timer.deadline = clock + feed.config.batch * ActionTimeout]
          /\ UNCHANGED source
       \/ feed.reply # "accepted" /\ feed' = Stopping([feed EXCEPT !.failed = "trigger"]) /\ AskToStop
    /\ UNCHANGED <<plot, clock>>

\* The tail of a Worker that was asked to stop; it may be given up.
DrainTail ==
    /\ At("stopping")
    /\ \/ /\ source.queue # <<>>
          /\ LET e == Head(source.queue)
                 f == event(feed, e)
             IN feed' = IF e.is = "closed" THEN Gone(feed)
                        ELSE [f EXCEPT !.failed = IF feed.failed = "no" THEN @ ELSE feed.failed]
          /\ source' = [source EXCEPT !.queue = Tail(@)]
       \/ /\ source.queue = <<>>
          /\ feed' = [Gone(feed) EXCEPT !.failed = IF @ = "no" THEN "shutdown" ELSE @]
          /\ UNCHANGED source
    /\ UNCHANGED <<plot, clock>>

\* The workflow is stopped, or another part of the run fails.
CallOff ==
    /\ feed.config.interval # 0 /\ ~feed.called_off
    /\ feed' = [feed EXCEPT !.called_off = TRUE]
    /\ UNCHANGED <<source, plot, clock>>

Passes ==
    /\ clock < feed.config.hours
    /\ clock' = clock + 1
    /\ UNCHANGED <<feed, source, plot>>

-----------------------------------------------------------------------------
(* The source.  What it may say next is its config's tape.                 *)

\* A meter with a software timer is limited to whole measurements
\* (start_background), and numbers its readings.
Conforms(config) ==
    LET places == 1 .. Len(config.tape)
    IN /\ Len(config.tape) \in Nat
       /\ \A n \in places : \A e \in config.tape[n] : e.is \in {"sample", "rx"}
       /\ config.interval # 0 =>
             /\ {config.interval, config.limit} \subseteq Nat /\ config.batch \in Nat \ {0}
             /\ \E n \in 0 .. config.limit : config.limit = n * config.batch
             /\ \A n \in places : \A e \in config.tape[n] : e.is = "sample" /\ e.captured = n

Room == feed.pc # "off" /\ Len(source.queue) < feed.config.room

SourceReports ==
    /\ Room /\ source.phase # "ended" /\ (source.phase = "idle" \/ feed.config.chatty)
    /\ source' = [source EXCEPT !.queue = Append(@, StatusEvent("active", source.stopped)),
                                !.phase = "active"]
    /\ UNCHANGED <<feed, plot, clock>>

SourceMeasures ==
    /\ Room /\ source.phase = "active" /\ source.made < Len(feed.config.tape)
    /\ feed.config.interval = 0 \/ source.left > 0
    /\ \E e \in feed.config.tape[source.made + 1] :
          source' = [source EXCEPT !.queue = Append(@, e), !.made = @ + 1, !.left = Monus(@, 1),
                                   !.ready = IF source.left = 1 THEN clock + feed.config.interval ELSE @]
    /\ UNCHANGED <<feed, plot, clock>>

\* By itself, a panel button for example; what it was measuring is lost.
SourceStops ==
    /\ feed.pc # "off" /\ feed.config.interval # 0 /\ source.phase = "active" /\ ~source.stopped
    /\ source' = [source EXCEPT !.stopped = TRUE]
    /\ UNCHANGED <<feed, plot, clock>>

SourceEnds ==
    /\ Room /\ source.phase = "active"
    /\ source.stopped \/ (source.made = feed.config.limit /\ feed.config.limit # 0)
    /\ source' = [source EXCEPT
                     !.queue = @ \o <<StatusEvent("ended", source.stopped), SummaryEvent, EndOfPipe>>,
                     !.phase = "ended"]
    /\ UNCHANGED <<feed, plot, clock>>

-----------------------------------------------------------------------------
(* query_chart: two scans of what there was when it began.                 *)

NoQuery == [is |-> "refused"]
Visible(q, x) == q.range = Nothing \/ (x >= q.range.min /\ x <= q.range.max)
Axis(q, e) == IF q.axis = "elapsed" THEN e.elapsed ELSE e.captured
Wide(q) == q.type \in {"line", "area"}
Budget(q) == IF q.raw THEN RawLimit ELSE q.budget
Buckets(q) == (Budget(q) - 2) \div 2

QueryRefused(q, set) ==
    \/ q.budget \notin 4 .. ChartPoints
    \/ q.range # Nothing /\ q.range.min > q.range.max
    \/ q.raw /\ q.type # "line"
    \/ feed.config.tool = "serial" \/ q.field # feed.config.field

NewQuery(q, set) ==
    [is |-> "scan", query |-> q, set |-> set, total |-> Len(feed.sets[set].samples), pass |-> 1, at |-> 0,
     visible |-> 0, domain |-> Nothing, exceeded |-> FALSE, ordinal |-> 0, target |-> 0,
     chosen |-> <<>>, extrema |-> [b \in 1 .. Buckets(q) |-> Nothing], points |-> <<>>]

\* The first pass counts.
Counting(p, e) ==
    LET x == Axis(p.query, e)
    IN [p EXCEPT !.domain = IF @ = Nothing THEN [min |-> x, max |-> x]
                            ELSE [min |-> Min({@.min, x}), max |-> Max({@.max, x})],
                 !.visible = IF Visible(p.query, x) THEN @ + 1 ELSE @]

BucketOf(p) == ((p.ordinal - 1) * Buckets(p.query)) \div (p.visible - 2) + 1

Extremes(pair, e) ==
    IF pair = Nothing THEN [min |-> e, max |-> e]
    ELSE [min |-> IF e.value < pair.min.value THEN e ELSE pair.min,
          max |-> IF e.value > pair.max.value THEN e ELSE pair.max]

\* The second pass chooses: all, the extremes of each bucket between the
\* ends, or samples evenly apart.
Choosing(p, e) ==
    LET q == p.query
        n == p.visible
        all == n <= Budget(q)
        end == p.ordinal = 0 \/ p.ordinal + 1 = n
        even == p.target < Budget(q) /\ p.ordinal = (p.target * (n - 1)) \div (Budget(q) - 1)
        next == [p EXCEPT !.ordinal = @ + 1]
    IN CASE ~Visible(q, Axis(q, e)) -> p
         [] Visible(q, Axis(q, e)) /\ (all \/ (Wide(q) /\ ~q.raw /\ end)) ->
               [next EXCEPT !.chosen = Append(@, e)]
         [] Visible(q, Axis(q, e)) /\ ~all /\ Wide(q) /\ ~q.raw /\ ~end ->
               [next EXCEPT !.extrema[BucketOf(p)] = Extremes(@, e)]
         [] OTHER -> IF even THEN [next EXCEPT !.chosen = Append(@, e), !.target = @ + 1] ELSE next

\* In order of their numbers, each number once.
Arranged(chosen) ==
    LET key(e) == Monus(e.captured, 1)
        keys == SetToSortSeq({key(chosen[i]) : i \in DOMAIN chosen}, <)
    IN [k \in DOMAIN keys |-> chosen[Min({i \in DOMAIN chosen : key(chosen[i]) = keys[k]})]]

Concluded(p) ==
    LET pairs == SelectSeq(p.extrema, LAMBDA pair : pair # Nothing)
        both == FlattenSeq([i \in DOMAIN pairs |-> <<pairs[i].min, pairs[i].max>>])
    IN [p EXCEPT !.is = "answer", !.points = Arranged(p.chosen \o both)]

EndOf(p) == p.total

QueryBegins ==
    /\ plot = Nothing
    /\ \E q \in feed.config.queries, set \in DOMAIN feed.sets :
          plot' = IF QueryRefused(q, set) THEN NoQuery ELSE NewQuery(q, set)
    /\ UNCHANGED <<feed, source, clock>>

QueryScans ==
    /\ plot # Nothing /\ plot.is = "scan" /\ plot.at < EndOf(plot)
    /\ LET end == Min({plot.at + ScanBatch, EndOf(plot)})
           batch == SelectSeq(SubSeq(feed.sets[plot.set].samples, plot.at + 1, end), LAMBDA e : e.valid)
           next == [plot EXCEPT !.at = end]
       IN plot' = IF plot.pass = 1 THEN FoldLeft(Counting, next, batch) ELSE FoldLeft(Choosing, next, batch)
    /\ UNCHANGED <<feed, source, clock>>

QueryPasses ==
    /\ plot # Nothing /\ plot.is = "scan" /\ plot.at >= EndOf(plot)
    /\ LET exceeded == plot.query.raw /\ plot.visible > RawLimit
       IN plot' = IF plot.pass = 1 /\ plot.visible > 0 /\ ~exceeded
                  THEN [plot EXCEPT !.pass = 2, !.at = 0]
                  ELSE [Concluded(plot) EXCEPT !.exceeded = exceeded]
    /\ UNCHANGED <<feed, source, clock>>

Sampled(p) == ~p.exceeded /\ Len(p.points) < p.visible

-----------------------------------------------------------------------------
FeedInit(configs) ==
    \/ configs = {} /\ feed = Nothing /\ source = Nothing /\ plot = Nothing /\ clock = 0
    \/ \E config \in configs :
          feed = Off(config, config.runs) /\ source = FreshSource /\ plot = Nothing /\ clock = 0

FeedStep ==
    \/ WorkerOn \/ TakeCommand \/ ReleaseWorker \/ Handle \/ TakeLook \/ TriggerReturns \/ DrainTail
    \/ CallOff \/ Passes
    \/ SourceReports \/ SourceMeasures \/ SourceStops \/ SourceEnds
    \/ QueryBegins \/ QueryScans \/ QueryPasses

-----------------------------------------------------------------------------
(* A meter is asked for one measurement at a time, the next no sooner than *)
(* the interval after the last reading of the one before, for no more      *)
(* than the limit, and not forgotten however much else the source has to   *)
(* say; and no reading of a source that does what it is asked for is taken *)
(* for one it was not asked for (background.rs, tick, sample, run).        *)
TimerIsPaced ==
    feed # Nothing /\ feed.timer # Nothing =>
        LET readings == Quantify(DOMAIN source.queue, LAMBDA i : source.queue[i].is = "sample")
        IN /\ ~source.hurried
           /\ feed.config.limit # 0 => source.made + source.left <= feed.config.limit
           /\ feed.waited <= EventBatch
           /\ feed.failed \notin {"unasked", "excess", "sequence", "outside"}
           /\ feed.pc \in {"command", "events"} /\ ~source.stopped =>
                 source.left + readings = feed.timer.pending

\* The figures of a Dataset are those of its samples.
SetsAreSummed ==
    feed # Nothing =>
        \A k \in DOMAIN feed.sets :
            LET set == feed.sets[k]
                at == {i \in DOMAIN set.samples : set.samples[i].is = "sample" /\ set.samples[i].valid}
                v(i) == set.samples[i].value
            IN /\ set.rows = Len(set.samples) /\ set.bytes = Bytes(set.samples)
               /\ set.counted = Cardinality(at)
               /\ at # {} => /\ set.min = Min({v(i) : i \in at}) /\ set.max = Max({v(i) : i \in at})
                             /\ set.avg[1] * Cardinality(at) = MapThenSumSet(v, at) * set.avg[2]

\* The Monitor shows as many of the newest events as there is room for.
MonitorIsNewest ==
    feed # Nothing /\ feed.config.live_monitor =>
        LET room(e) == IF e.bytes > MonitorBytes THEN MonitorBytes ELSE e.bytes
            shown(e) == IF e.is = "rx" THEN [e EXCEPT !.bytes = room(e)] ELSE e
            all == [i \in DOMAIN feed.arrived |-> shown(feed.arrived[i])]
            tail(n) == SubSeq(all, Len(all) - n + 1, Len(all))
            most == Min({Len(all), MonitorPoints})
        IN feed.monitor = tail(Max({n \in 0 .. most : Bytes(tail(n)) <= MonitorBytes}))

\* An answer is about the samples there were when it was asked for: it
\* counts them, leaves none out unless it says so, and what it then shows
\* has the ends and the extremes, or is evenly spread; samples numbered
\* alike, of a source that failed, are shown once.
ChartIsTrue ==
    plot # Nothing /\ plot.is = "answer" =>
        LET q == plot.query
            kept == SelectSeq(SubSeq(feed.sets[plot.set].samples, 1, plot.total), LAMBDA e : e.valid)
            seen == SelectSeq(kept, LAMBDA e : Visible(q, Axis(q, e)))
            n == Len(seen)
            numbers(list) == {list[i].captured : i \in DOMAIN list}
            values(list) == {list[i].value : i \in DOMAIN list}
            xs == {Axis(q, kept[i]) : i \in DOMAIN kept}
            got == plot.points
            places == SetToSortSeq({i \in 1 .. n : seen[i] \in ToSet(got)}, <)
            intact == Cardinality(numbers(seen)) = n
        IN /\ plot.visible = n
           /\ IF kept = <<>> THEN plot.domain = Nothing
              ELSE plot.domain = [min |-> Min(xs), max |-> Max(xs)]
           /\ plot.exceeded <=> q.raw /\ n > RawLimit
           /\ plot.exceeded => got = <<>>
           /\ ToSet(got) \subseteq ToSet(seen) /\ Len(got) <= Budget(q)
           /\ \A i \in 1 .. Len(got) - 1 : got[i].captured < got[i + 1].captured
           /\ ~plot.exceeded /\ n <= Budget(q) => numbers(got) = numbers(seen)
           /\ ~plot.exceeded /\ n > 0 /\ intact =>
                 /\ {seen[1], seen[n]} \subseteq ToSet(got)
                 /\ Sampled(plot) <=> n > Budget(q)
                 /\ Wide(q) => Max(values(got)) = Max(values(seen)) /\ Min(values(got)) = Min(values(seen))
                 /\ ~Wide(q) /\ n > Budget(q) =>
                       /\ Len(got) = Budget(q)
                       /\ \A i \in 1 .. Len(places) - 1 :
                             (places[i + 1] - places[i] - 1) * (Budget(q) - 1) < n - 1
=============================================================================
