----------------------------- MODULE Background -----------------------------
(***************************************************************************)
(* The background manager (src/background.rs): the workflow thread sends   *)
(* one command at a time to a dispatcher thread per background, over a     *)
(* channel of capacity one, and waits for the answer with a timeout.  A    *)
(* dispatcher owns a streaming Worker, files its samples in the Capture    *)
(* Dataset that is open, if any, and stops the Worker when asked, when its *)
(* stream ends or when an event is wrong.  All dispatchers share the store *)
(* of Datasets and the first-failure signal (run_failure.rs).              *)
(*                                                                         *)
(* A source is a Meters source in a Simple or a Custom mode, a Scopes or a *)
(* Serial source.  The order and integrity of what its pipe delivers is    *)
(* WorkerSession's subject, so here an event is received when it is        *)
(* emitted.                                                                *)
(***************************************************************************)
EXTENDS Naturals, Sequences, FiniteSets

CONSTANTS Backgrounds,  \* the template's background ids
          Outside,      \* the run's other parts that may signal a failure
          Configs,      \* runs: [kind, limit, csv, unruly, samples, actions]
          None          \* the absence of a value

Kinds == {"simple", "custom", "scopes", "serial"}

(* A run's backgrounds: the kind of each, the expected readings (0 when     *)
(* infinite), whether Captures stream to a CSV file, whether Workers may    *)
(* misnumber samples or speak late, and the bounds on the samples of a      *)
(* Worker and on the workflow's background steps.                           *)
ConfigOK(c) ==
    /\ c.kind \in [Backgrounds -> Kinds]
    /\ c.limit \in Nat /\ c.csv \in BOOLEAN /\ c.unruly \in BOOLEAN
    /\ c.samples \in Nat /\ c.actions \in Nat \ {0}
    /\ "serial" \in {c.kind[b] : b \in Backgrounds} => c.limit = 0

ASSUME ConstantsAssumption ==
    /\ \A c \in Configs : ConfigOK(c)
    /\ None \notin Backgrounds \cup Outside

VARIABLES manager,     \* the workflow thread: what it waits for; the run's config
          runtimes,    \* BackgroundManager.runtimes: ids with a dispatcher to join
          inbox,       \* inbox[b]: the command in b's channel, or None
          dispatcher,  \* dispatcher[b]: the thread's state
          source,      \* source[b]: the Worker process behind b (external)
          datasets,    \* BackgroundStore.datasets, in order of creation
          failure,     \* RunFailure: the first part of the run that failed, or None
          verified,    \* history: the <<b, run>> whose termination checks passed
          acks         \* history: the Captures the operator was told are closed

vars == <<manager, runtimes, inbox, dispatcher, source, datasets, failure,
          verified, acks>>

Kind(b) == manager.config.kind[b]
Limit == manager.config.limit
Csv == manager.config.csv
Unruly == manager.config.unruly
MaxSamples == manager.config.samples
MaxActions == manager.config.actions

Actions == {"capture-on", "capture-off", "worker-off", "cleanup"}
Command == [action : Actions \cup {"worker-on"}, flag : BOOLEAN, heard : BOOLEAN]

(* None is no command and no answer. *)
ASSUME NoneIsFresh == None \notin Command \cup {"ok", "err"}

Integrity == {"unknown", "no_loss_detected", "incomplete"}
Reasons == {"completed", "stop_requested", "error"}
Summary == [captured : 0 .. MaxSamples + 2, data_integrity : Integrity, stop_reason : Reasons,
            ok : BOOLEAN, overflow : BOOLEAN]

Dataset == [background_id : Backgrounds, run : 0 .. MaxActions,
            status : {"recording", "completed", "incomplete", "failed"},
            quality : Integrity, samples : Seq(1 .. MaxSamples + 2),
            finished : BOOLEAN]

(* The state of a background that has no dispatcher thread yet. *)
NoDispatcher ==
    [pc |-> "none", kind |-> None, cmd |-> None, run |-> 0, session |-> FALSE, current |-> 0,
     writer |-> FALSE, auto_closed |-> FALSE, ended |-> FALSE,
     stream_state |-> None, summary |-> None, total |-> 0, event_error |-> FALSE]

(* A Worker process that has emitted nothing. *)
NewSource == [phase |-> "idle", index |-> 0, lost |-> FALSE]

Init ==
    /\ \E config \in Configs :
          manager = [config |-> config, pc |-> "idle", bg |-> None, action |-> None,
                     reply |-> None, over |-> FALSE, stopped |-> FALSE, acts |-> 0]
    /\ runtimes = {}
    /\ inbox = [b \in Backgrounds |-> None]
    /\ dispatcher = [b \in Backgrounds |-> NoDispatcher]
    /\ source = [b \in Backgrounds |-> NewSource]
    /\ datasets = <<>>
    /\ failure = None
    /\ verified = {}
    /\ acks = [b \in Backgrounds |-> 0]

-----------------------------------------------------------------------------
(* Shared helpers: the first-failure signal, a command's answer, and what   *)
(* fail and finish do to the Dataset a dispatcher is filling.               *)

(* RunFailure::fail keeps the first cause. *)
Signal(b) == IF failure = None THEN b ELSE failure

(* The answer to cmd.  A manager that gave up waiting never hears it.  A    *)
(* thread that exits drops the command still queued for it, and with it     *)
(* that command's reply channel, which the manager sees as an error.        *)
Answer(cmd, ok, dropped) ==
    manager' =
        IF cmd # None /\ cmd.heard
        THEN [manager EXCEPT !.reply = IF ok THEN "ok" ELSE "err"]
        ELSE IF dropped # None /\ dropped.heard
             THEN [manager EXCEPT !.reply = "err"]
             ELSE manager

(* fail: the open Dataset is failed at once and stays open for its tail. *)
FailCurrent(sets, i) ==
    IF i = 0 THEN sets
    ELSE [sets EXCEPT ![i] = [@ EXCEPT !.status = "failed", !.quality = "incomplete"]]

(* Bug to rule out: a normal end is taken for a lossless one. *)
QualityAssumed(d, quality) == quality

(* finish's quality: a claim of no loss is the summary's to make, and       *)
(* Serial makes none.                                                       *)
FinishQuality(d, quality) ==
    IF quality # "no_loss_detected" THEN quality
    ELSE IF d.summary = None \/ d.kind = "serial" THEN "unknown" ELSE d.summary.data_integrity

(* Bug to rule out: a failed Dataset is left as it is. *)
ClosedUnlessFailed(set, status, quality, flush_error) ==
    IF set.status = "failed" THEN set
    ELSE [set EXCEPT !.finished = TRUE, !.quality = quality,
                     !.status = IF flush_error THEN "failed" ELSE status]

(* finish on one Dataset: a failed one keeps its status and quality. *)
Closed(set, status, quality, flush_error) ==
    IF set.status = "failed"
    THEN [set EXCEPT !.finished = TRUE]
    ELSE [set EXCEPT !.finished = TRUE, !.quality = quality,
                     !.status = IF flush_error THEN "failed" ELSE status]

finish(d, sets, status, quality, flush_error) ==
    IF d.current = 0 THEN sets
    ELSE [sets EXCEPT ![d.current] =
            Closed(@, status, FinishQuality(d, quality), flush_error)]

(* The dispatcher after finish: nothing is open. *)
Idle(d) == [d EXCEPT !.current = 0, !.writer = FALSE]

(* Bug to rule out: a failed flush is only noted in the Dataset. *)
FlushUnsignalled(b, flush_error) == failure

FlushSignal(b, flush_error) == IF flush_error THEN Signal(b) ELSE failure

FlushErrors(d) == IF d.writer THEN BOOLEAN ELSE {FALSE}

(* A new Dataset, opened by Capture ON or by Worker ON with Capture. *)
NewDataset(b, run) ==
    [background_id |-> b, run |-> run, status |-> "recording",
     quality |-> "unknown", samples |-> <<>>, finished |-> FALSE]

(* Bug to rule out: the index is read after the Dataset was pushed. *)
IndexAfterPush(sets) == Len(sets) + 1

(* The index of the Dataset just pushed. *)
NewIndex(sets) == Len(sets)

-----------------------------------------------------------------------------
(* The manager: action() and cleanup_after_workflow().                      *)

(* The workflow takes its next background step.  An error, at once or in    *)
(* the answer, ends the workflow.                                           *)
Idling == manager.pc = "idle" /\ ~manager.over

Begin(b, action) ==
    manager' = [manager EXCEPT !.pc = "wait", !.bg = b, !.action = action,
                               !.reply = None, !.acts = @ + 1]

WorkerOn(b, capture) ==
    /\ Idling /\ manager.acts < MaxActions
    /\ failure = None
    /\ b \notin runtimes
    /\ runtimes' = runtimes \cup {b}
    /\ dispatcher' = [dispatcher EXCEPT ![b] =
            [NoDispatcher EXCEPT !.pc = "starting", !.kind = Kind(b), !.run = manager.acts + 1,
                !.cmd = [action |-> "worker-on", flag |-> capture, heard |-> TRUE]]]
    /\ source' = [source EXCEPT ![b] = NewSource]
    /\ Begin(b, "worker-on")
    /\ UNCHANGED <<inbox, datasets, failure, verified, acks>>

Send(b, action, flag) ==
    /\ inbox[b] = None
    /\ inbox' = [inbox EXCEPT ![b] =
            [action |-> action, flag |-> flag, heard |-> TRUE]]

Ask(b, action, flag) ==
    /\ Idling /\ manager.acts < MaxActions
    /\ failure = None
    /\ b \in runtimes
    /\ action # "cleanup"
    /\ flag => action = "worker-off"
    /\ Send(b, action, flag)
    /\ Begin(b, action)
    /\ UNCHANGED <<runtimes, dispatcher, source, datasets, failure, verified, acks>>

(* recv_timeout returned an answer to a workflow step. *)
Receive ==
    /\ manager.pc = "wait" /\ manager.reply # None /\ manager.action # "cleanup"
    /\ LET released == manager.action = "worker-off" /\ manager.reply = "ok" IN
        /\ runtimes' = IF released THEN runtimes \ {manager.bg} ELSE runtimes
        /\ manager' = [manager EXCEPT !.pc = IF released THEN "join" ELSE "idle",
                                      !.over = manager.reply = "err"]
    /\ UNCHANGED <<inbox, dispatcher, source, datasets, failure, verified, acks>>

(* recv_timeout gave up: the reply channel is gone, the command is not. *)
ReplyTimeout ==
    /\ manager.pc = "wait" /\ manager.reply = None
    /\ LET b == manager.bg IN
          IF inbox[b] # None /\ inbox[b].heard
          THEN /\ inbox' = [inbox EXCEPT ![b].heard = FALSE]
               /\ UNCHANGED dispatcher
          ELSE /\ dispatcher' = [dispatcher EXCEPT ![b].cmd.heard = FALSE]
               /\ UNCHANGED inbox
    /\ manager' = [manager EXCEPT !.over = TRUE,
                        !.pc = IF manager.action = "cleanup" THEN "join" ELSE "idle"]
    /\ UNCHANGED <<runtimes, source, datasets, failure, verified, acks>>

(* The workflow is over: cleanup begins.  Only a workflow that returned     *)
(* without an error may count as stopped by the operator.                   *)
BeginCleanup(stopped) ==
    /\ manager.pc = "idle"
    /\ stopped => ~manager.over
    /\ manager' = [manager EXCEPT !.pc = "drain", !.stopped = stopped,
                        !.action = "cleanup", !.over = TRUE, !.reply = None]
    /\ UNCHANGED <<runtimes, inbox, dispatcher, source, datasets, failure, verified, acks>>

(* runtimes.drain(): the next background, in an unspecified order. *)
Drain(b) ==
    /\ manager.pc = "drain" /\ b \in runtimes
    /\ runtimes' = runtimes \ {b}
    /\ manager' = [manager EXCEPT !.pc = "send", !.bg = b, !.reply = None]
    /\ UNCHANGED <<inbox, dispatcher, source, datasets, failure, verified, acks>>

(* sender.send: blocks while the channel is full, fails once the dispatcher *)
(* has gone.                                                                *)
SendCleanup ==
    /\ manager.pc = "send"
    /\ LET b == manager.bg IN
        IF dispatcher[b].pc = "exited"
        THEN /\ manager' = [manager EXCEPT !.pc = "join"]
             /\ UNCHANGED inbox
        ELSE /\ Send(b, "cleanup", manager.stopped)
             /\ manager' = [manager EXCEPT !.pc = "wait"]
    /\ UNCHANGED <<runtimes, dispatcher, source, datasets, failure, verified, acks>>

CleanupAnswered ==
    /\ manager.pc = "wait" /\ manager.action = "cleanup" /\ manager.reply # None
    /\ manager' = [manager EXCEPT !.pc = "join"]
    /\ UNCHANGED <<runtimes, inbox, dispatcher, source, datasets, failure, verified, acks>>

(* Bug to rule out: a thread that does not answer is left to itself. *)
JoinDetached ==
    /\ manager.pc = "join"
    /\ manager' = [manager EXCEPT !.bg = None,
                        !.pc = IF manager.action = "cleanup" THEN "drain" ELSE "idle"]
    /\ UNCHANGED <<runtimes, inbox, dispatcher, source, datasets, failure, verified, acks>>

(* thread.join(): after a released Worker, or one background of cleanup. *)
Join ==
    /\ manager.pc = "join" /\ dispatcher[manager.bg].pc = "exited"
    /\ manager' = [manager EXCEPT !.bg = None,
                        !.pc = IF manager.action = "cleanup" THEN "drain" ELSE "idle"]
    /\ UNCHANGED <<runtimes, inbox, dispatcher, source, datasets, failure, verified, acks>>

CleanupReturns ==
    /\ manager.pc = "drain" /\ runtimes = {}
    /\ manager' = [manager EXCEPT !.pc = "done"]
    /\ UNCHANGED <<runtimes, inbox, dispatcher, source, datasets, failure, verified, acks>>

(* Another background of the run, or its foreground CSV, has failed. *)
FailsOutside ==
    /\ failure = None
    /\ failure' \in Outside
    /\ UNCHANGED <<manager, runtimes, inbox, dispatcher, source, datasets, verified, acks>>

-----------------------------------------------------------------------------
(* The dispatcher thread: start-up.                                         *)

Unchanged(b, d) == dispatcher' = [dispatcher EXCEPT ![b] = d]

(* The Capture asked for is prepared before the Worker is started. *)
Launch(b) ==
    LET d    == dispatcher[b]
        sets == IF d.cmd.flag THEN Append(datasets, NewDataset(b, d.run)) ELSE datasets
        open == IF d.cmd.flag THEN NewIndex(sets) ELSE 0
    IN /\ d.pc = "starting"
       /\ \/ /\ datasets' = sets
             /\ Unchanged(b, [d EXCEPT !.pc = "loop", !.cmd = None, !.session = TRUE,
                                       !.current = open, !.writer = Csv /\ open # 0])
             /\ Answer(d.cmd, TRUE, None)
             /\ UNCHANGED failure
          \/ \E index \in {0, open} :   \* 0: the CSV file could not be created
             /\ index = 0 => ~d.cmd.flag \/ Csv
             /\ failure' = Signal(b)
             /\ datasets' =
                  IF index = 0 THEN datasets
                  ELSE [sets EXCEPT ![index] =
                          [@ EXCEPT !.run = 0, !.status = "failed",
                                    !.quality = "incomplete", !.finished = TRUE]]
             /\ Unchanged(b, [d EXCEPT !.pc = "exited", !.cmd = None])
             /\ Answer(d.cmd, FALSE, inbox[b])
       /\ inbox' = IF dispatcher'[b].pc = "exited" THEN [inbox EXCEPT ![b] = None] ELSE inbox
       /\ UNCHANGED <<runtimes, source, verified, acks>>

-----------------------------------------------------------------------------
(* The dispatcher thread: commands.                                         *)

Takes(b, action) ==
    /\ dispatcher[b].pc = "loop"
    /\ inbox[b] # None /\ inbox[b].action = action
    /\ inbox' = [inbox EXCEPT ![b] = None]

(* capture_on: refused on an ended stream and while one is open. *)
capture_on_refused(d) == d.ended \/ d.stream_state = "ended" \/ d.current # 0

capture_on(b) ==
    LET d == dispatcher[b] IN
    /\ Takes(b, "capture-on")
    /\ \/ /\ ~capture_on_refused(d)
          /\ datasets' = Append(datasets, NewDataset(b, IF d.session THEN d.run ELSE 0))
          /\ Unchanged(b, [d EXCEPT !.current = NewIndex(datasets'), !.auto_closed = FALSE,
                                    !.writer = Csv])
          /\ Answer(inbox[b], TRUE, None)
       \/ /\ capture_on_refused(d) \/ Csv   \* the CSV file could not be created
          /\ Answer(inbox[b], FALSE, None)
          /\ UNCHANGED <<datasets, dispatcher>>
    /\ UNCHANGED <<runtimes, source, failure, verified, acks>>

(* Bug to rule out: any Capture OFF after the end is an acknowledgement. *)
AcknowledgesEnd(d) == d.current = 0 /\ d.ended

(* capture_off: the first one after an automatic close acknowledges it. *)
acknowledges(d) == d.current = 0 /\ d.auto_closed

capture_off(b) ==
    LET d == dispatcher[b] IN
    /\ Takes(b, "capture-off")
    /\ \/ /\ acknowledges(d)
          /\ Unchanged(b, [d EXCEPT !.auto_closed = FALSE])
          /\ Answer(inbox[b], TRUE, None)
          /\ acks' = [acks EXCEPT ![b] = @ + 1]
          /\ UNCHANGED <<datasets, failure>>
       \/ /\ d.current = 0 /\ ~acknowledges(d)
          /\ Answer(inbox[b], FALSE, None)
          /\ UNCHANGED <<datasets, dispatcher, failure, acks>>
       \/ \E flush_error \in FlushErrors(d) :
          /\ d.current # 0
          /\ datasets' = finish(d, datasets, "completed", "unknown", flush_error)
          /\ failure' = FlushSignal(b, flush_error)
          /\ Unchanged(b, Idle(d))
          /\ Answer(inbox[b], failure' = None, None)
          /\ acks' = IF failure' = None THEN [acks EXCEPT ![b] = @ + 1] ELSE acks
    /\ UNCHANGED <<runtimes, source, verified>>

worker_off_refused(d, capture) ==
    \/ capture /\ d.current = 0 /\ ~d.auto_closed
    \/ ~capture /\ d.current # 0

(* Worker OFF with the stream over, or with no session left to stop: the    *)
(* thread exits unless the run has failed.                                  *)
Release(b, d, cmd, sets, dropped, flush_error) ==
    LET signal == FlushSignal(b, flush_error)
        done   == signal = None
    IN /\ datasets' = finish(d, sets, "completed", "no_loss_detected", flush_error)
       /\ failure' = signal
       /\ Unchanged(b, [Idle(d) EXCEPT !.auto_closed = FALSE, !.session = FALSE,
                            !.cmd = None, !.event_error = FALSE,
                            !.pc = IF done THEN "exited" ELSE "loop"])
       /\ Answer(cmd, done, IF done THEN dropped ELSE None)
       /\ acks' = IF done /\ cmd.flag THEN [acks EXCEPT ![b] = @ + 1] ELSE acks

WorkerOff(b) ==
    LET d == dispatcher[b] IN
    /\ Takes(b, "worker-off")
    /\ \/ /\ worker_off_refused(d, inbox[b].flag)
          /\ Answer(inbox[b], FALSE, None)
          /\ UNCHANGED <<dispatcher, datasets, failure, acks>>
       \/ /\ ~worker_off_refused(d, inbox[b].flag) /\ d.session
          /\ Unchanged(b, [d EXCEPT !.pc = "stopping", !.cmd = inbox[b]])
          /\ UNCHANGED <<manager, datasets, failure, acks>>
       \/ \E flush_error \in FlushErrors(d) :
          /\ ~worker_off_refused(d, inbox[b].flag) /\ ~d.session
          /\ Release(b, d, inbox[b], datasets, None, flush_error)
    /\ UNCHANGED <<runtimes, source, verified>>

(* Cleanup's end: whatever is open is closed and the thread exits. *)
CleanedUp(b, d, cmd, sets, dropped, verdict, flush_error) ==
    /\ datasets' =
         IF verdict = "error"
         THEN finish(d, FailCurrent(sets, d.current), "failed", "incomplete", FALSE)
         ELSE finish(d, sets, IF verdict = "shortfall" THEN "incomplete" ELSE "completed",
                     "no_loss_detected", flush_error)
    /\ failure' = IF verdict = "error" THEN Signal(b) ELSE FlushSignal(b, flush_error)
    /\ Unchanged(b, [Idle(d) EXCEPT !.session = FALSE, !.cmd = None,
                         !.event_error = FALSE, !.pc = "exited"])
    /\ Answer(cmd, verdict # "error", dropped)
    /\ UNCHANGED acks

Cleanup(b) ==
    LET d == dispatcher[b] IN
    /\ Takes(b, "cleanup")
    /\ \/ /\ d.session
          /\ Unchanged(b, [d EXCEPT !.pc = "stopping", !.cmd = inbox[b]])
          /\ UNCHANGED <<manager, datasets, failure, acks>>
       \/ \E flush_error \in FlushErrors(d) :
          /\ ~d.session
          /\ CleanedUp(b, d, inbox[b], datasets, None, "whole", flush_error)
    /\ UNCHANGED <<runtimes, source, verified>>

-----------------------------------------------------------------------------
(* The Worker (external): what it may say next.  It numbers its samples,    *)
(* skips or repeats a number when it loses its place, and sums up what it   *)
(* counted; it says it was asked to stop only when it was.  Serial data has *)
(* no numbers of its own; a scope may be cut short in the middle of a cycle *)
(* and end with an error.                                                   *)
HonestSummary(b, s) ==
    LET w == source[b]
        short == Limit > 0 /\ w.index < Limit
        cut == Limit = 0 /\ s.stop_reason # "completed"
    IN
    /\ s.stop_reason = "stop_requested" => dispatcher[b].pc = "stopping"
    /\ s.stop_reason = "error" => Kind(b) = "scopes"
    /\ w.lost => s.data_integrity # "no_loss_detected"
    /\ CASE Kind(b) = "serial" -> s.data_integrity = "unknown" /\ s.ok
         [] Kind(b) = "simple" -> s.data_integrity = "incomplete" => w.lost
         [] Kind(b) = "custom" -> s.data_integrity = "incomplete" => w.lost \/ short
         [] Kind(b) = "scopes" -> s.data_integrity = "incomplete" => w.lost \/ short \/ cut
    /\ Kind(b) # "serial" =>
          /\ s.data_integrity # "unknown" \/ w.lost
          /\ s.ok = (s.data_integrity # "incomplete" /\ s.stop_reason # "error")
    /\ s.overflow = (w.lost /\ s.data_integrity = "incomplete")

Samples(b) ==
    LET w == source[b]
        may == w.phase = "active" \/ (Unruly /\ w.phase = "ended")
        numbers == IF Unruly /\ Kind(b) # "serial" THEN w.index .. w.index + 2 ELSE {w.index + 1}
    IN [kind : {"sample"},
        captured : IF may /\ dispatcher[b].total < MaxSamples
                   THEN numbers \cap 1 .. MaxSamples + 2 ELSE {}]

Summaries(b) ==
    {s \in [captured : {source[b].index}, data_integrity : Integrity, stop_reason : Reasons,
            ok : BOOLEAN, overflow : BOOLEAN] : HonestSummary(b, s)}

Events(b) ==
    LET phase == source[b].phase IN
    Samples(b)
        \cup [kind : CASE phase = "idle" -> {"active", "error"}
                       [] phase = "active" -> {"ended", "error"}
                       [] phase = "closed" -> {}
                       [] OTHER -> {"error"}]
        \cup [kind : {"summary"}, summary : IF phase = "ended" THEN Summaries(b) ELSE {}]

Says(b, e) ==
    LET w == source[b] IN
    source' = [source EXCEPT ![b] =
        CASE e.kind = "active"  -> [w EXCEPT !.phase = "active"]
          [] e.kind = "ended"   -> [w EXCEPT !.phase = "ended"]
          [] e.kind = "summary" -> [w EXCEPT !.phase = "summed"]
          [] e.kind = "sample"  -> [w EXCEPT !.index = e.captured,
                                             !.lost = w.lost \/ e.captured # w.index + 1]
          [] OTHER              -> w]

-----------------------------------------------------------------------------
(* The dispatcher thread: events, and the end of the stream.                *)

(* event(): a sample is filed only while the stream is active. *)
Filed(d, e) == e.kind = "sample" /\ d.stream_state = "active"

(* What Serial receives is numbered by its dispatcher. *)
Number(d, e) == IF d.kind = "serial" THEN d.total + 1 ELSE e.captured

(* Bug to rule out: the sample's number is not compared. *)
EventFailsOutOfTurn(d, e, csv_error) ==
    \/ e.kind = "error"
    \/ e.kind = "sample" /\ (~Filed(d, e) \/ (Limit > 0 /\ d.total + 1 > Limit) \/ csv_error)

(* event(): whether e is an error.  A sample that is out of order, one too  *)
(* many, or that could not be written to the CSV file is filed all the same.*)
EventFails(d, e, csv_error) ==
    \/ e.kind = "error"
    \/ /\ e.kind = "sample"
       /\ \/ ~Filed(d, e)
          \/ Number(d, e) # d.total + 1
          \/ Limit > 0 /\ d.total + 1 > Limit
          \/ csv_error

Absorb(d, e) ==
    CASE e.kind = "active"  -> [d EXCEPT !.stream_state = "active"]
      [] e.kind = "ended"   -> [d EXCEPT !.stream_state = "ended"]
      [] Filed(d, e)        -> [d EXCEPT !.total = @ + 1]
      [] e.kind = "summary" -> [d EXCEPT !.summary = e.summary]
      [] OTHER              -> d

File(d, e) ==
    IF Filed(d, e) /\ d.current # 0
    THEN [datasets EXCEPT ![d.current].samples = Append(@, Number(d, e))]
    ELSE datasets

WriteErrors(d, e) == IF Filed(d, e) /\ d.writer THEN BOOLEAN ELSE {FALSE}

(* run(), Ok(event): a wrong event fails the run and the open Dataset, and  *)
(* the Worker is stopped; its tail is still filed.                          *)
LoopEvent(b, e) ==
    LET d == dispatcher[b] IN
    /\ d.pc = "loop" /\ d.session
    /\ Says(b, e)
    /\ \E csv_error \in WriteErrors(d, e) :
        IF EventFails(d, e, csv_error)
        THEN /\ failure' = Signal(b)
             /\ datasets' = FailCurrent(File(d, e), d.current)
             /\ Unchanged(b, [Absorb(d, e) EXCEPT !.pc = "stopping", !.writer = FALSE])
        ELSE /\ datasets' = File(d, e)
             /\ Unchanged(b, Absorb(d, e))
             /\ UNCHANGED failure
    /\ UNCHANGED <<manager, runtimes, inbox, verified, acks>>

(* run(), Err(_): the process died or the queue overflowed; what the pipe   *)
(* still holds can be read or is gone.                                      *)
LoopError(b) ==
    LET d == dispatcher[b] IN
    /\ d.pc = "loop" /\ d.session
    /\ failure' = Signal(b)
    /\ datasets' = FailCurrent(datasets, d.current)
    /\ Unchanged(b, [d EXCEPT !.pc = "stopping", !.writer = FALSE])
    /\ \/ UNCHANGED source
       \/ source' = [source EXCEPT ![b].phase = "closed"]
    /\ UNCHANGED <<manager, runtimes, inbox, verified, acks>>

(* run(), Err(Disconnected): end of file. *)
LoopDisconnected(b) ==
    LET d == dispatcher[b] IN
    /\ d.pc = "loop" /\ d.session
    /\ source[b].phase # "closed"
    /\ source' = [source EXCEPT ![b].phase = "closed"]
    /\ Unchanged(b, [d EXCEPT !.pc = "stopping", !.ended = TRUE])
    /\ UNCHANGED <<manager, runtimes, inbox, datasets, failure, verified, acks>>

(* stop(): the events drained during shutdown are handled too; the first    *)
(* error among them is remembered.                                          *)
StopEvent(b, e) ==
    LET d == dispatcher[b] IN
    /\ d.pc = "stopping"
    /\ Says(b, e)
    /\ \E csv_error \in WriteErrors(d, e) :
        Unchanged(b, [Absorb(d, e) EXCEPT
                        !.event_error = @ \/ EventFails(d, e, csv_error)])
    /\ datasets' = File(d, e)
    /\ UNCHANGED <<manager, runtimes, inbox, failure, verified, acks>>

(* adapters/meters.rs validate_background_summary.  A Simple source does    *)
(* not say how many readings it was to take.                                *)
validate_background_summary(d) ==
    LET s == d.summary IN
    /\ s.ok /\ ~s.overflow
    /\ s.captured = d.total
    /\ s.data_integrity \in {"unknown", "no_loss_detected"}
    /\ d.kind = "custom" /\ s.stop_reason = "completed" /\ Limit > 0 => d.total = Limit

(* A Custom source stopped by this workflow before its count; a monitored   *)
(* finite one exits with failure and reports it incomplete.                 *)
StoppedShort(d, success) ==
    LET s == d.summary IN
    /\ Limit = 0 \/ d.total < Limit
    /\ s.captured = d.total /\ ~s.overflow
    /\ \/ s.ok /\ success
       \/ Limit > 0 /\ s.data_integrity = "incomplete" /\ ~s.ok /\ ~success
    /\ s.data_integrity = "incomplete" => Limit > 0

(* validate_stopped_background_summary: a Meters source that was stopped by *)
(* this workflow ended whole, short, or for no good reason.                 *)
validate_stopped_background_summary(d, success) ==
    LET requested == d.summary.stop_reason = "stop_requested"
        valid == /\ success /\ validate_background_summary(d)
                 /\ d.kind = "simple" /\ Limit > 0 => d.total <= Limit
        full == Limit > 0 /\ d.total = Limit
    IN CASE d.kind = "simple" /\ valid /\ requested -> IF full THEN "whole" ELSE "shortfall"
         [] d.kind = "simple" /\ valid /\ ~requested /\ full -> "whole"
         [] d.kind = "custom" /\ requested /\ StoppedShort(d, success) -> "shortfall"
         [] d.kind = "custom" /\ requested /\ valid /\ full -> "whole"
         [] d.kind = "custom" /\ ~requested /\ valid -> "whole"
         [] OTHER -> "error"

(* Without the workflow's stop a Meters source has to end whole. *)
OfMeters(d, success, accepted, stopped) ==
    IF stopped /\ accepted THEN validate_stopped_background_summary(d, success)
    ELSE IF success /\ validate_background_summary(d) /\ (Limit > 0 => d.total = Limit) THEN "whole"
    ELSE "error"

OfScopes(d, success, accepted, stopped) ==
    LET short == Limit > 0 /\ d.total # Limit
        failed == ~success \/ d.summary.stop_reason = "error"
    IN CASE d.summary.captured # d.total -> "error"
         [] failed /\ ~(stopped /\ accepted) -> "error"
         [] ~stopped /\ (short \/ d.summary.data_integrity = "incomplete") -> "error"
         [] OTHER -> IF short THEN "shortfall" ELSE "whole"

(* adapters/serial.rs validate_stop_summary. *)
OfSerial(d, success) == IF success /\ d.summary.ok THEN "whole" ELSE "error"

Evidence(d) == ~d.event_error /\ d.stream_state = "ended" /\ d.summary # None

(* The source was stopped, and not by this workflow. *)
NotOurs(d, accepted, stopped) == stopped /\ ~accepted /\ d.summary.stop_reason = "stop_requested"

(* stop()'s result, when the session itself shut down cleanly. *)
Verdict(d, success, accepted, stopped) ==
    CASE ~Evidence(d) -> "error"
      [] Evidence(d) /\ NotOurs(d, accepted, stopped) -> "error"
      [] OTHER -> CASE d.kind = "serial" -> OfSerial(d, success)
                    [] d.kind = "scopes" -> OfScopes(d, success, accepted, stopped)
                    [] OTHER -> OfMeters(d, success, accepted, stopped)

(* The quality a Worker run ends with. *)
FinalQuality(d) == IF d.kind = "serial" THEN "unknown" ELSE d.summary.data_integrity

(* Bug to rule out: a shortfall's quality reaches the completed Datasets. *)
JudgedAll(b, d, verdict) ==
    [i \in 1 .. Len(datasets) |->
        IF /\ verdict # "error"
           /\ datasets[i].background_id = b /\ datasets[i].run = d.run
           /\ datasets[i].status # "failed"
        THEN [datasets[i] EXCEPT !.quality = FinalQuality(d)]
        ELSE datasets[i]]

(* stop()'s last act: the summary's quality reaches every Dataset of the    *)
(* run that has not failed; a shortfall does not touch completed ones.      *)
Judged(b, d, verdict) ==
    [i \in 1 .. Len(datasets) |->
        IF /\ verdict # "error"
           /\ datasets[i].background_id = b /\ datasets[i].run = d.run
           /\ datasets[i].status # "failed"
           /\ ~(verdict = "shortfall" /\ datasets[i].status = "completed")
        THEN [datasets[i] EXCEPT !.quality = FinalQuality(d)]
        ELSE datasets[i]]

(* What the dispatcher does with stop()'s result. *)
AfterStop(b, d, verdict, flush_error) ==
    LET sets == Judged(b, d, verdict)
        open == [d EXCEPT !.session = FALSE, !.event_error = FALSE]
        bad  == finish(d, FailCurrent(sets, d.current), "failed", "incomplete", FALSE)
    IN
    IF d.cmd # None /\ d.cmd.action = "cleanup"
    THEN CleanedUp(b, open, d.cmd, sets, inbox[b], verdict, flush_error)
    ELSE IF d.cmd # None /\ verdict # "error"
    THEN Release(b, open, d.cmd, sets, inbox[b], flush_error)
    ELSE IF d.ended /\ verdict # "error"
    THEN /\ datasets' = finish(d, sets, "completed", "no_loss_detected", flush_error)
         /\ failure' = FlushSignal(b, flush_error)
         /\ Unchanged(b, [Idle(open) EXCEPT !.pc = "loop",
                              !.auto_closed = d.current # 0])
         /\ UNCHANGED <<manager, acks>>
    ELSE /\ datasets' = bad
         /\ failure' = Signal(b)
         /\ Unchanged(b, [Idle(open) EXCEPT !.cmd = None,
                              !.pc = IF d.cmd = None THEN "loop" ELSE "exited"])
         /\ Answer(d.cmd, FALSE, IF d.cmd = None THEN None ELSE inbox[b])
         /\ UNCHANGED acks

Exits(b) == dispatcher[b].pc # "exited" /\ dispatcher'[b].pc = "exited"

(* Bug to rule out: shutdown waits for the Worker without a deadline. *)
ShutdownAtEof(b, clean) == clean /\ source[b].phase \in {"summed", "closed"}

(* shutdown succeeds when the pipe is closed and the process gone; it fails *)
(* at its deadline at the latest.                                           *)
ShutdownEnds(b, clean) == clean => source[b].phase \in {"summed", "closed"}

(* stop() returns, with what its checks say of the evidence.                *)
StopReturns(b) ==
    LET d == dispatcher[b] IN
    /\ d.pc = "stopping"
    /\ \E clean, success, accepted \in BOOLEAN, flush_error \in FlushErrors(d) :
        LET verdict ==
              IF clean
              THEN Verdict(d, success, accepted,
                           d.cmd # None /\ d.cmd.action = "cleanup" /\ d.cmd.flag)
              ELSE "error"
        IN /\ ShutdownEnds(b, clean)
           /\ AfterStop(b, d, verdict, flush_error)
           /\ verified' = IF verdict = "error" THEN verified
                          ELSE verified \cup {<<b, d.run>>}
    /\ inbox' = IF Exits(b) THEN [inbox EXCEPT ![b] = None] ELSE inbox
    /\ source' = [source EXCEPT ![b].phase = "closed"]
    /\ UNCHANGED runtimes

-----------------------------------------------------------------------------
Manager ==
    \/ \E b \in Backgrounds, capture \in BOOLEAN : WorkerOn(b, capture)
    \/ \E b \in Backgrounds, action \in Actions, flag \in BOOLEAN : Ask(b, action, flag)
    \/ Receive
    \/ ReplyTimeout
    \/ \E stopped \in BOOLEAN : BeginCleanup(stopped)
    \/ \E b \in Backgrounds : Drain(b)
    \/ SendCleanup
    \/ CleanupAnswered
    \/ Join
    \/ CleanupReturns

(* What a dispatcher does of itself, and what its Worker makes it do. *)
Serves(b) ==
    \/ Launch(b)
    \/ capture_on(b)
    \/ capture_off(b)
    \/ WorkerOff(b)
    \/ Cleanup(b)
    \/ StopReturns(b)

Streams(b) ==
    \/ \E e \in Events(b) : LoopEvent(b, e)
    \/ LoopError(b)
    \/ LoopDisconnected(b)
    \/ \E e \in Events(b) : StopEvent(b, e)

(* The workflow's work is done. *)
Over == manager.pc = "done" /\ UNCHANGED vars

Next == Manager \/ FailsOutside \/ (\E b \in Backgrounds : Serves(b) \/ Streams(b)) \/ Over

Spec == Init /\ [][Next]_vars

(* Threads run, start_worker and shutdown return by their deadlines, and    *)
(* the manager goes on with what it has begun.  Nothing is assumed of the   *)
(* Worker, of the workflow's next step, or of the timeouts.                 *)
GoesOn ==
    \/ Receive \/ SendCleanup \/ CleanupAnswered \/ Join \/ CleanupReturns
    \/ \E b \in Backgrounds : Drain(b)

FairSpec ==
    /\ Spec
    /\ WF_vars(GoesOn)
    /\ \A b \in Backgrounds : WF_vars(Serves(b))

-----------------------------------------------------------------------------
(* The shape of every variable. *)
TypeOK ==
    /\ manager \in [config : Configs, pc : {"idle", "wait", "join", "drain", "send", "done"},
                     bg : Backgrounds \cup {None},
                     action : Actions \cup {"worker-on", None},
                     reply : {"ok", "err", None}, over : BOOLEAN,
                     stopped : BOOLEAN, acts : 0 .. MaxActions]
    /\ runtimes \subseteq Backgrounds
    /\ inbox \in [Backgrounds -> Command \cup {None}]
    /\ dispatcher \in [Backgrounds ->
            [pc : {"none", "starting", "loop", "stopping", "exited"},
             kind : Kinds \cup {None},
             cmd : Command \cup {None}, run : 0 .. MaxActions, session : BOOLEAN,
             current : 0 .. Len(datasets), writer : BOOLEAN, auto_closed : BOOLEAN,
             ended : BOOLEAN, stream_state : {"active", "ended", None},
             summary : Summary \cup {None}, total : 0 .. MaxSamples,
             event_error : BOOLEAN]]
    /\ datasets \in Seq(Dataset)
    /\ failure \in Backgrounds \cup Outside \cup {None}
    /\ acks \in [Backgrounds -> Nat]

(* A Dataset is unfinished exactly while a dispatcher of its own background *)
(* fills it: no Capture is left open behind, none is filled after its end,  *)
(* and no background records twice (capture_on, finish, stop).              *)
OpenIsOwned ==
    \A i \in 1 .. Len(datasets) :
        ~datasets[i].finished
            <=> \E b \in Backgrounds : /\ dispatcher[b].current = i
                                       /\ datasets[i].background_id = b

(* "Missing termination evidence, sample gaps, overflow, and CSV errors     *)
(* remain failures": a Capture that was completed or cut short on purpose   *)
(* holds consecutive samples.                                               *)
Consecutive(samples) ==
    \A k \in 1 .. Len(samples) : samples[k] = samples[1] + k - 1

NoHiddenGap ==
    \A i \in 1 .. Len(datasets) :
        datasets[i].status \in {"completed", "incomplete"}
            => Consecutive(datasets[i].samples)

(* A Dataset claims that nothing was lost only when its Worker run ended    *)
(* with all of its termination evidence (stop, finish).                     *)
LosslessIsProved ==
    \A i \in 1 .. Len(datasets) :
        datasets[i].quality = "no_loss_detected"
            => <<datasets[i].background_id, datasets[i].run>> \in verified

(* A failed Dataset is never the only trace of its failure: the workflow    *)
(* sees the first-failure signal too.                                       *)
FailureIsSignalled ==
    (\E i \in 1 .. Len(datasets) : datasets[i].status = "failed") => failure # None

(* Every Capture is acknowledged as closed at most once, whether the        *)
(* operator closed it or the end of the stream did (auto_closed).           *)
Captures(b) == {i \in 1 .. Len(datasets) : datasets[i].background_id = b}

AcknowledgedOnce ==
    \A b \in Backgrounds :
        acks[b] + (IF dispatcher[b].current # 0 \/ dispatcher[b].auto_closed THEN 1 ELSE 0)
            <= Cardinality(Captures(b))

(* What a Dataset says of itself holds at every moment: that it is open,    *)
(* that nothing is missing, that nothing was lost, that it was closed once. *)
DatasetsAreHonest == OpenIsOwned /\ NoHiddenGap /\ LosslessIsProved /\ AcknowledgedOnce

(* When cleanup returns, every dispatcher has exited with its Worker        *)
(* stopped, and every Dataset is finished.                                  *)
CleanEnd ==
    manager.pc = "done" =>
        /\ \A b \in Backgrounds :
            dispatcher[b].pc \in {"none", "exited"} /\ ~dispatcher[b].session
        /\ \A i \in 1 .. Len(datasets) : datasets[i].finished

(* A finished Dataset is never written again, except that the end of its    *)
(* Worker run may settle the quality of one that had completed, and never   *)
(* for the worse ("prior completed Captures are not downgraded"), unless it *)
(* is the evidence of a scope without a count about the run as a whole.     *)
FinishedIsFinal ==
    [][\A i \in 1 .. Len(datasets) :
        datasets[i].finished =>
            \/ datasets'[i] = datasets[i]
            \/ /\ datasets[i].status = "completed" /\ datasets[i].quality = "unknown"
               /\ datasets'[i].quality = "incomplete" =>
                     Kind(datasets[i].background_id) = "scopes" /\ Limit = 0
               /\ datasets'[i] = [datasets[i] EXCEPT !.quality = datasets'[i].quality]
      ]_vars

(* "An active infinite Capture is also incomplete when stopped": the        *)
(* Capture that is open when Stop Workflow ends a source without a count is *)
(* not called completed.                                                    *)
StoppedIsIncomplete ==
    [][\A b \in Backgrounds :
        LET d == dispatcher[b]
            cleaned == d.pc = "stopping" /\ dispatcher'[b].pc = "exited"
                         /\ d.cmd # None /\ d.cmd.action = "cleanup" /\ d.cmd.flag
        IN cleaned /\ Limit = 0 /\ d.current # 0 /\ Evidence(d)
              /\ d.summary.stop_reason = "stop_requested"
           => datasets'[d.current].status # "completed"]_vars

(* Every step the workflow waits for returns, and cleanup comes to an end.  *)
ManagerReturns == manager.pc \notin {"idle", "done"} ~> manager.pc \in {"idle", "done"}
=============================================================================
