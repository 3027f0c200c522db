---------------------------- MODULE WorkerSession ----------------------------
(***************************************************************************)
(* One Worker session (src/src/worker.rs): the Worker process with its     *)
(* stdout pipe, the thread that reads the pipe into a channel, and the one *)
(* owner that takes events from the channel, asks the Worker to stop and   *)
(* collects what is left before it believes the exit status.               *)
(*                                                                         *)
(* The process is external and may do anything: write lines in any order,  *)
(* write nonsense, close stdout early, exit at any moment with any code,   *)
(* or ignore /stop and never exit.  HTTP /stop may fail.                   *)
(***************************************************************************)
EXTENDS Naturals, Sequences

CONSTANTS
  MaxLines,  \* bound: lines the Worker writes (model only)
  Capacity,  \* slots of the bounded channel (8192 in start_worker)
  Bounded,   \* spec.bounded_events: whether the channel is bounded at all
  Eof,       \* StdoutMessage::Eof
  None

\* A channel has room for a message.
ASSUME CapacityIsPositive == Capacity \in Nat \ {0} /\ MaxLines \in Nat /\ Bounded \in BOOLEAN
ASSUME EofIsNoLine == Eof \notin Nat

\* Option::None is no summary and no result.
ASSUME NoneIsFresh == None \notin {"summary", "badsummary", "fatalsummary", "ok", "err"}

\* What a line is to record_event: a domain event, a summary (ok; not ok; with
\* a fatal_error), a fatal error, or a line that is refused (bad JSON, foreign
\* run_id, impossible stream transition).
Summaries == {"summary", "badsummary", "fatalsummary"}
Ending == Summaries \cup {"fatal"}
Kinds == Ending \cup {"event", "garbage"}

VARIABLES
  written,   \* the kinds of the lines the Worker wrote; a line is its position
  process,   \* "running", "ok" or "nonzero" (exited so), "killed"
  open,      \* the Worker's end of the stdout pipe is open
  reader,    \* the reader thread: pc "read", "drain" or "done"; lines taken off the pipe
  queue,     \* the channel: lines and Eof
  overflow,  \* queue_overflow, set by the reader thread
  receiving, \* the receiver exists; sends fail once it is dropped
  evidence,  \* RunEvidence: eof, protocol errors, the first summary, fatal errors
  owner,     \* the owner thread: pc, and the locals of the shutdown functions
  pending,   \* pending_events: lines seen while waiting for the stream to start
  handled,   \* history: lines returned by recv_event or passed to on_event
  told,      \* history: the owner was given an error before shutdown
  result     \* what shutdown returned: None, "ok" or "err"

pipeVars == <<written, process, open>>
channelVars == <<queue, overflow, receiving>>
ownerVars == <<evidence, owner, pending, handled, told, result>>
vars == <<pipeVars, reader, channelVars, ownerVars>>

Init ==
  /\ written = <<>> /\ process = "running" /\ open = TRUE
  /\ reader = [pc |-> "read", taken |-> 0]
  /\ queue = <<>> /\ overflow = FALSE /\ receiving = TRUE
  /\ evidence = [eof |-> FALSE, errors |-> FALSE, summary |-> None, fatal |-> FALSE]
  /\ owner \in [pc : {"wait", "run"}, reported : {FALSE}, expired : {FALSE},
                checked : BOOLEAN, accepted : {FALSE}]
  /\ pending = <<>> /\ handled = <<>> /\ told = FALSE /\ result = None

-----------------------------------------------------------------------------
(***************************************************************************)
(* The process (external).                                                 *)
(***************************************************************************)
WriteLine ==
  /\ process = "running" /\ open /\ Len(written) < MaxLines
  /\ \E k \in Kinds : written' = Append(written, k)
  /\ UNCHANGED <<process, open, reader, channelVars, ownerVars>>

CloseStdout ==
  /\ process = "running" /\ open
  /\ open' = FALSE
  /\ UNCHANGED <<written, process, reader, channelVars, ownerVars>>

Exit ==
  /\ process = "running"
  /\ process' \in {"ok", "nonzero"} /\ open' = FALSE
  /\ UNCHANGED <<written, reader, channelVars, ownerVars>>

-----------------------------------------------------------------------------
(***************************************************************************)
(* read_and_drain_stdout.  EventSender::send never blocks: a full bounded  *)
(* channel refuses the message and remembers that it overflowed.           *)
(***************************************************************************)
\* Bug to rule out: the channel grows without bound.
CanAlwaysSend == receiving

CanSend == receiving /\ ~(Bounded /\ Len(queue) >= Capacity)

Send(m) ==
  /\ queue' = IF CanSend THEN Append(queue, m) ELSE queue
  /\ overflow' = (overflow \/ (receiving /\ ~CanSend))
  /\ UNCHANGED receiving

\* Bug to rule out: reading goes on after a line was refused by the channel.
ReadLineOn ==
  /\ reader.pc = "read" /\ reader.taken < Len(written)
  /\ Send(reader.taken + 1)
  /\ reader' = [reader EXCEPT !.taken = @ + 1]
  /\ UNCHANGED <<pipeVars, ownerVars>>

\* A line that cannot be sent is lost, and so is all that follows it.
ReadLine ==
  /\ reader.pc = "read" /\ reader.taken < Len(written)
  /\ Send(reader.taken + 1)
  /\ reader' = [pc |-> IF CanSend THEN "read" ELSE "drain", taken |-> reader.taken + 1]
  /\ UNCHANGED <<pipeVars, ownerVars>>

\* Eof itself may find the channel full.
ReadEof ==
  /\ reader.pc = "read" /\ reader.taken = Len(written) /\ ~open
  /\ Send(Eof)
  /\ reader' = [reader EXCEPT !.pc = "done"]
  /\ UNCHANGED <<pipeVars, ownerVars>>

\* Draining keeps the process from blocking on a full pipe; no Eof is sent.
Drain ==
  /\ reader.pc = "drain"
  /\ IF reader.taken < Len(written)
       THEN reader' = [reader EXCEPT !.taken = @ + 1]
       ELSE ~open /\ reader' = [reader EXCEPT !.pc = "done"]
  /\ UNCHANGED <<pipeVars, channelVars, ownerVars>>

Reader == ReadLine \/ ReadEof \/ Drain

-----------------------------------------------------------------------------
(***************************************************************************)
(* recv_worker_event, the only consumer of the channel, and what           *)
(* record_event keeps of a line.                                           *)
(***************************************************************************)
OverflowDue == overflow /\ ~owner.reported

Recorded(k) ==
  CASE k \in Summaries ->
         IF evidence.summary = None THEN [evidence EXCEPT !.summary = k]
         ELSE [evidence EXCEPT !.errors = TRUE]
    [] k = "fatal" -> [evidence EXCEPT !.fatal = TRUE]
    [] OTHER -> evidence

\* The overflow is reported once, before the lines that were queued in time.
TakeOverflow ==
  /\ OverflowDue
  /\ evidence' = [evidence EXCEPT !.errors = TRUE]
  /\ UNCHANGED queue

\* The next line of the channel, of a kind in K.
TakeLine(K) ==
  /\ ~OverflowDue /\ queue # <<>> /\ Head(queue) # Eof
  /\ written[Head(queue)] \in K
  /\ queue' = Tail(queue)
  /\ evidence' = Recorded(written[Head(queue)])

TakeEof ==
  /\ ~OverflowDue /\ queue # <<>> /\ Head(queue) = Eof
  /\ queue' = Tail(queue)
  /\ evidence' = [evidence EXCEPT !.eof = TRUE]

\* The next line, refused, and remembered as a protocol error.
RefuseLine ==
  /\ ~OverflowDue /\ queue # <<>> /\ Head(queue) # Eof
  /\ written[Head(queue)] = "garbage"
  /\ queue' = Tail(queue)
  /\ evidence' = [evidence EXCEPT !.errors = TRUE]

\* All senders are gone and nothing is queued.
Disconnected == ~OverflowDue /\ queue = <<>> /\ reader.pc = "done"

Good == Kinds \ {"garbage"}
Goto(pc) == owner' = [owner EXCEPT !.pc = pc]
Report(pc) == owner' = [owner EXCEPT !.pc = pc, !.reported = TRUE]

-----------------------------------------------------------------------------
(***************************************************************************)
(* Waiting for a stream to become active.  Events go to pending_events.    *)
(* wait_for_deferred_stream_start keeps the line that ends the wait with   *)
(* an error; observe_stream_wait_events does not.                          *)
(***************************************************************************)
Wait ==
  /\ owner.pc = "wait"
  /\ \/ TakeLine(Good \ Ending)
        /\ pending' = Append(pending, Head(queue))
        /\ owner' \in {owner, [owner EXCEPT !.pc = "run"]}  \* some event says active
        /\ UNCHANGED told
     \/ TakeLine(Ending)
        /\ pending' \in {pending, Append(pending, Head(queue))}
        /\ told' = TRUE /\ Goto("run")
     \/ (TakeLine({"garbage"}) \/ TakeEof)
        /\ told' = TRUE /\ Goto("run")
        /\ UNCHANGED pending
     \/ TakeOverflow
        /\ told' = TRUE /\ Report("run")
        /\ UNCHANGED pending
  /\ UNCHANGED <<pipeVars, reader, overflow, receiving, handled, result>>

\* The wait ends without an event of its own: no stream was adopted, an HTTP
\* status says active, or the deadline passes.
WaitOver ==
  /\ owner.pc = "wait"
  /\ told' \in BOOLEAN
  /\ Goto("run")
  /\ UNCHANGED <<pipeVars, reader, channelVars, evidence, pending, handled, result>>

\* recv_event gives back pending events first.  Pending events were recorded
\* when they were taken from the channel.
HandlePending ==
  /\ pending # <<>>
  /\ handled' = Append(handled, Head(pending))
  /\ pending' = Tail(pending)
  /\ UNCHANGED <<queue, evidence, told, owner>>

HandleLine ==
  /\ pending = <<>>
  /\ TakeLine(Good)
  /\ handled' = Append(handled, Head(queue))
  /\ UNCHANGED <<pending, told, owner>>

\* The owner while the workflow runs.  The end of stdout is natural to some
\* owners; every other error makes an owner fail and shut down.
Run ==
  /\ owner.pc = "run" /\ ~told
  /\ \/ HandlePending
     \/ HandleLine
     \/ /\ pending = <<>>
        /\ \/ TakeLine({"garbage"}) /\ told' = TRUE /\ UNCHANGED owner
           \/ TakeEof /\ UNCHANGED <<told, owner>>
           \/ TakeOverflow /\ told' = TRUE /\ Report("run")
        /\ UNCHANGED <<pending, handled>>
  /\ UNCHANGED <<pipeVars, reader, overflow, receiving, result>>

Call ==
  /\ owner.pc \in {"wait", "run"}
  /\ Goto("shutdown")
  /\ UNCHANGED <<pipeVars, reader, channelVars, evidence, pending, handled, told, result>>

-----------------------------------------------------------------------------
(***************************************************************************)
(* shutdown_events.  Its deadline is owner.expired; every round starts by  *)
(* asking whether the process has exited.                                  *)
(***************************************************************************)
Exited == process # "running"
Quiet == UNCHANGED <<pipeVars, reader, channelVars, evidence, pending, handled, told, result>>

\* finish_exited_process starts a deadline of its own.
Finish(accepted) ==
  owner' = [owner EXCEPT !.pc = "finish", !.expired = FALSE, !.accepted = accepted]

\* Exited already; or the end of stdout was seen, and no /stop is sent to an
\* endpoint that is closing; or ask the Worker to stop.
Begin ==
  /\ owner.pc = "shutdown"
  /\ \/ Exited /\ Finish(FALSE)
     \/ ~Exited /\ evidence.eof /\ Goto("poll")
     \/ ~Exited /\ ~evidence.eof /\ Goto(IF owner.expired THEN "force" ELSE "stop")
  /\ Quiet

\* POST /stop: refused or lost, or accepted.
Stop ==
  /\ owner.pc = "stop"
  /\ Goto("poll") \/ Goto("stopping")
  /\ Quiet

\* Bug to rule out: the exit is awaited without a deadline.
PollWithoutDeadline ==
  /\ owner.pc = "poll"
  /\ Exited /\ Finish(FALSE)
  /\ Quiet

\* Waiting for the exit without taking events.
Poll ==
  /\ owner.pc = "poll"
  /\ \/ Exited /\ Finish(FALSE)
     \/ ~Exited /\ owner.expired /\ Goto("force")
  /\ Quiet

\* /stop was accepted: events are still delivered until the process exits.
StoppingEnds ==
  /\ owner.pc = "stopping"
  /\ \/ Exited /\ Finish(TRUE)
     \/ ~Exited /\ owner.expired /\ Goto("force")
  /\ Quiet

\* recv_event as shutdown uses it: an event goes to on_event, and whatever
\* else was read, a refused line or the overflow, becomes a protocol error.
RecvInShutdown ==
  /\ \/ HandlePending
     \/ HandleLine
     \/ /\ pending = <<>>
        /\ \/ TakeOverflow /\ Report(owner.pc)
           \/ RefuseLine /\ UNCHANGED owner
           \/ TakeEof /\ UNCHANGED owner
        /\ UNCHANGED <<pending, handled, told>>
  /\ UNCHANGED <<pipeVars, reader, overflow, receiving, result>>

StoppingTakes ==
  /\ owner.pc = "stopping" /\ ~Exited /\ ~owner.expired
  /\ RecvInShutdown

\* finish_exited_process: take what was queued before the exit, up to Eof.
FinishTakes ==
  /\ owner.pc = "finish" /\ ~evidence.eof /\ ~owner.expired
  /\ RecvInShutdown

\* Drop the receiver and join the readers.
DropReceiver == receiving' = FALSE /\ queue' = <<>> /\ UNCHANGED overflow

FinishEnds ==
  /\ owner.pc = "finish"
  /\ evidence.eof \/ owner.expired \/ (pending = <<>> /\ Disconnected)
  /\ DropReceiver
  /\ Goto("join")
  /\ UNCHANGED <<pipeVars, reader, evidence, pending, handled, told, result>>

\* Bug to rule out: a summary is enough, whether or not the end was read.
CompleteBySummary ==
  /\ ~evidence.errors /\ ~evidence.fatal
  /\ \/ evidence.summary = "summary"
     \/ evidence.summary = "badsummary" /\ process # "ok"

Complete ==
  /\ evidence.eof /\ ~evidence.errors /\ ~evidence.fatal
  /\ \/ evidence.summary = "summary"
     \/ evidence.summary = "badsummary" /\ process # "ok"

\* The readers are joined; only now is the exit classified.  Without checked,
\* a nonzero exit is handed to the caller as it is.
Classify ==
  /\ owner.pc = "join" /\ reader.pc = "done"
  /\ result' = IF (process = "nonzero" /\ ~owner.checked) \/ Complete THEN "ok" ELSE "err"
  /\ Goto("returned")
  /\ UNCHANGED <<pipeVars, reader, channelVars, evidence, pending, handled, told>>

\* Bug to rule out: the channel is dropped and the process left running.
ForceWithoutKill ==
  /\ owner.pc = "force"
  /\ DropReceiver
  /\ Goto("forced")
  /\ UNCHANGED <<pipeVars, reader, evidence, pending, handled, told, result>>

\* force_cleanup: kill, wait, drop the receiver, join; the caller gets Err.
ForceCleanup ==
  /\ owner.pc = "force"
  /\ process' = IF process = "running" THEN "killed" ELSE process
  /\ open' = FALSE
  /\ DropReceiver
  /\ Goto("forced")
  /\ UNCHANGED <<written, reader, evidence, pending, handled, told, result>>

Forced ==
  /\ owner.pc = "forced" /\ reader.pc = "done"
  /\ result' = "err"
  /\ Goto("returned")
  /\ UNCHANGED <<pipeVars, reader, channelVars, evidence, pending, handled, told>>

\* Drop: the session is abandoned; dropping the process kills it.
Abandon ==
  /\ owner.pc \in {"wait", "run"}
  /\ Goto("force")
  /\ Quiet

Expire ==
  /\ owner.pc \in {"shutdown", "stop", "poll", "stopping", "finish"} /\ ~owner.expired
  /\ owner' = [owner EXCEPT !.expired = TRUE]
  /\ Quiet

Shutdown ==
  \/ Begin \/ Stop \/ Poll \/ StoppingEnds \/ StoppingTakes
  \/ FinishTakes \/ FinishEnds \/ Classify \/ ForceCleanup \/ Forced

Next ==
  \/ WriteLine \/ CloseStdout \/ Exit
  \/ Reader
  \/ Wait \/ WaitOver \/ Run \/ Call \/ Abandon
  \/ Shutdown
  \/ Expire

(***************************************************************************)
(* The reader thread runs until the pipe ends, the shutdown functions only *)
(* make calls with timeouts or join a thread, and time passes.  Nothing is *)
(* assumed of the process, and nothing makes an owner call shutdown.       *)
(***************************************************************************)
Fairness == WF_vars(Reader) /\ WF_vars(Shutdown) /\ WF_vars(Expire)

Spec == Init /\ [][Next]_vars /\ Fairness

-----------------------------------------------------------------------------
TypeOK ==
  /\ written \in Seq(Kinds) /\ Len(written) <= MaxLines
  /\ process \in {"running", "ok", "nonzero", "killed"} /\ open \in BOOLEAN
  /\ reader \in [pc : {"read", "drain", "done"}, taken : 0 .. MaxLines]
  /\ queue \in Seq(1 .. MaxLines \cup {Eof}) /\ (Bounded => Len(queue) <= Capacity)
  /\ evidence \in [eof : BOOLEAN, errors : BOOLEAN, fatal : BOOLEAN,
                   summary : Summaries \cup {None}]
  /\ owner.pc \in {"wait", "run", "shutdown", "stop", "poll", "stopping", "finish",
                   "join", "force", "forced", "returned"}
  /\ pending \in Seq(1 .. MaxLines) /\ handled \in Seq(1 .. MaxLines)
  /\ result \in {None, "ok", "err"}

(***************************************************************************)
(* Events reach the owner in the order written, once each, and none is     *)
(* skipped but refused lines: not by pending_events, not by an overflow    *)
(* (which may cut the stream off but never leave a hole in it), not by the *)
(* passage from running to stopping to the final drain.  An owner that was *)
(* given an error has no such promise.                                     *)
(***************************************************************************)
NoGap ==
  ~told =>
    /\ \A i, k \in DOMAIN handled : i < k => handled[i] < handled[k]
    /\ \A i \in DOMAIN handled : \A l \in 1 .. handled[i] :
         written[l] = "garbage" \/ \E k \in 1 .. i : handled[k] = l

(***************************************************************************)
(* A shutdown that succeeds proves the whole run: the owner has handled    *)
(* every line the Worker ever wrote, among them exactly one summary, and   *)
(* none was fatal or refused.  (A nonzero exit that is not checked is      *)
(* handed on as such and proves nothing.)                                  *)
(***************************************************************************)
SummaryLines == {l \in DOMAIN written : written[l] \in Summaries}

OkIsComplete ==
  result = "ok" /\ ~told /\ (process = "ok" \/ owner.checked) =>
    /\ handled = [l \in DOMAIN written |-> l]
    /\ \E l \in SummaryLines : SummaryLines = {l} /\ written[l] # "fatalsummary"
    /\ \A l \in DOMAIN written : written[l] \notin {"fatal", "garbage"}

(***************************************************************************)
(* However a session ends, by shutdown, by force or by being dropped, its  *)
(* process is gone and its reader thread joined.                           *)
(***************************************************************************)
NothingLeftBehind ==
  owner.pc = "returned" => process # "running" /\ reader.pc = "done"

(***************************************************************************)
(* A shutdown returns even if the Worker ignores /stop, floods or closes   *)
(* stdout, or never exits: no join waits for a thread that waits for room  *)
(* in the channel or for a pipe that stays open.                           *)
(***************************************************************************)
Ended == owner.pc = "returned"
ShutdownReturns == owner.pc \notin {"wait", "run"} ~> Ended

=============================================================================
