---------------------------- MODULE Desktop ----------------------------
(***************************************************************************)
(* The desktop application around a workflow run: the ActiveRun slot that  *)
(* run commands, manual power operations and stop requests share, the two  *)
(* run commands, the StoredRun they fill, the progress batcher with its    *)
(* timer thread, the streaming CSV verdict, exports of the last run, and   *)
(* the part of the front end that starts runs and asks for stops.          *)
(*                                                                         *)
(* Four threads of control: the front end (ui), the run command            *)
(* (command), the batcher's timer (TimerFlush) and a manual operation      *)
(* (manual).  The front end talks to the back end through invocations in   *)
(* flight (ipc) and hears from it through the progress channel.            *)
(*                                                                         *)
(* The workflow is one root loop, Outer, whose body runs a leaf step or    *)
(* the loop Inner; what the Executor module says of loops is reduced here  *)
(* to the events it emits and to where it asks for stops.                  *)
(***************************************************************************)
EXTENDS Naturals, Sequences, SequencesExt

CONSTANTS
    MaxRuns,    \* runs begun in a behaviour
    MaxRows,    \* rows a run is seen to commit; later ones are not counted
    MaxBatches, \* progress batches under way to the front end
    MaxCalls,   \* stop invocations under way when the user asks for one more
    None

ASSUME DesktopAssumption ==
    /\ MaxRuns \in Nat /\ MaxRows \in Nat /\ MaxBatches \in Nat \ {0} /\ MaxCalls \in Nat
    /\ None \notin {"asked", "sent", "error", "succeeded", "stopped", "failed"}

Outer == "outer"
Inner == "inner"
Loops == {Outer, Inner}

VARIABLES
    active,   \* ActiveRun: what holds the slot, and its WorkflowControl
    command,  \* the run command and the executor inside it
    runs,     \* every StoredRun begun, by run id
    current,  \* StoredRuns::current, 0 when there is none
    batcher,  \* DesktopProgressBatcher
    channel,  \* progress batches sent and not yet received
    csv,      \* the streaming CSV of the run: StreamCsvStatus and RunFailure
    ipc,      \* stop invocations under way, in the order they were made
    ui,       \* the front end
    manual,   \* a manual power operation holds a Worker
    export    \* the stored run that an export is writing, 0 when there is none

vars == <<active, command, runs, current, batcher, channel, csv, ipc, ui, manual, export>>

NoControl == [kind |-> "none", run |-> 0, stop |-> FALSE, loop_stop |-> None]
NoCommand == [pc |-> "idle", mode |-> None, run |-> 0, path |-> <<>>, at |-> "step",
              unwind |-> None, verdict |-> None]
NoBatcher == [open |-> FALSE, dirty |-> FALSE, completed |-> {}]
NoCsv == [on |-> FALSE, failed |-> FALSE, finished |-> FALSE, succeeded |-> FALSE]
NoView == [run |-> 0, status |-> None, rows |-> 0, active |-> {}]
Dropped == [status |-> "dropped"]
NewRun == [status |-> "running", rows |-> 0, active |-> {}, ok |-> TRUE, root |-> FALSE]

Init ==
    /\ active = NoControl
    /\ command = NoCommand
    /\ runs = <<>>
    /\ current = 0
    /\ batcher = NoBatcher
    /\ channel = <<>>
    /\ csv = NoCsv
    /\ ipc = <<>>
    /\ ui = [status |-> "idle", run |-> 0, view |-> NoView, loop_stop |-> None, stop |-> None]
    /\ manual = FALSE
    /\ export = 0

-----------------------------------------------------------------------------
(* StoredRun.                                                              *)

completed_successfully(run) ==
    run.status \notin {"stopped", "failed"} /\ run.ok /\ run.root

(* What the front end keeps of StoredRun::metadata.                        *)
metadata(id) == [run |-> id, status |-> runs[id].status, rows |-> runs[id].rows,
                 active |-> runs[id].active]

(* StepCompleted for the steps done, in the iteration of the loops path;   *)
(* a step outside every loop is a root step.                               *)
append_execution(run, path, succeeded) ==
    [run EXCEPT !.ok = @ /\ succeeded,
                !.root = @ \/ path = <<>>,
                !.active = ToSet(path)]

append_row(run) == [run EXCEPT !.rows = IF @ < MaxRows THEN @ + 1 ELSE @]

(* DesktopProgressBatcher::push: the event reaches the stored run and the  *)
(* pending batch under one lock.  A pending batch has a deadline.          *)
Push(run, done) ==
    /\ runs' = [runs EXCEPT ![command.run] = run]
    /\ batcher' = [batcher EXCEPT !.dirty = TRUE, !.completed = @ \cup done]

Batch == [metadata |-> metadata(command.run), completed |-> batcher.completed]

(* DesktopProgressPending::flush.                                          *)
flush ==
    IF batcher.dirty
    THEN /\ Len(channel) < MaxBatches
         /\ channel' = Append(channel, Batch)
         /\ batcher' = [batcher EXCEPT !.dirty = FALSE, !.completed = {}]
    ELSE UNCHANGED <<channel, batcher>>

(* The timer thread of the batcher reaches the deadline of a batch.        *)
TimerFlush ==
    /\ batcher.open /\ batcher.dirty
    /\ flush
    /\ UNCHANGED <<active, command, runs, current, csv, ipc, ui, manual, export>>

-----------------------------------------------------------------------------
(* ActiveRun.                                                              *)

register ==
    /\ active.kind = "none"
    /\ active' = [NoControl EXCEPT !.kind = "workflow"]

(* A manual operation that does not look at the slot.                      *)
RegisterUnchecked == active' = [NoControl EXCEPT !.kind = "manual"]

register_manual ==
    /\ active.kind = "none"
    /\ active' = [NoControl EXCEPT !.kind = "manual"]

clear == active' = NoControl

(* A stop request that is not compared with the run it names.              *)
RequestAny(run) == active.kind = "workflow"

request_global(run) == active.kind = "workflow" /\ active.run = run

(* A commit takes the request and asks only the innermost loop about it.   *)
ConsumeInnermost(path) ==
    [target |-> IF active.loop_stop = Last(path) THEN active.loop_stop ELSE None,
     slot |-> None]

(* consume_loop_stop, asked for each loop of the path from the outside:    *)
(* the loop to stop, if one of them was requested, and what the slot holds *)
(* afterwards.                                                             *)
consume_loop_stop(path) ==
    IF active.loop_stop \in ToSet(path)
    THEN [target |-> active.loop_stop, slot |-> None]
    ELSE [target |-> None, slot |-> active.loop_stop]

-----------------------------------------------------------------------------
(* The run commands up to the first event.                                 *)

At(pc) == command.pc = pc
Goto(pc) == command' = [command EXCEPT !.pc = pc]

Register ==
    /\ At("register")
    /\ \/ register /\ Goto("parse")
       \/ active.kind # "none" /\ Goto("refused") /\ UNCHANGED active
    /\ UNCHANGED <<runs, current, batcher, channel, csv, ipc, ui, manual, export>>

(* Template, Send File and, in Live, confirmation and preflight checks.    *)
(* Only a simulation drops the stored run before it has begun another.     *)
Parse ==
    /\ At("parse")
    /\ \/ /\ Goto("begin")
          /\ current' = IF command.mode = "simulate" THEN 0 ELSE current
       \/ Goto("clear") /\ UNCHANGED current
    /\ UNCHANGED <<active, runs, batcher, channel, csv, ipc, ui, manual, export>>

(* From here on the two commands do the same.  The run begun before is     *)
(* dropped: an export may hold it a little longer, but nothing else can    *)
(* reach it any more.                                                      *)
begin ==
    /\ At("begin")
    /\ runs' = Append([id \in DOMAIN runs |-> Dropped], NewRun)
    /\ current' = Len(runs) + 1
    /\ command' = [command EXCEPT !.pc = "publish", !.mode = None, !.run = Len(runs) + 1]
    /\ UNCHANGED <<active, batcher, channel, csv, ipc, ui, manual, export>>

(* The control does not learn the run id.                                  *)
PublishNothing ==
    /\ At("publish")
    /\ Goto("announce")
    /\ UNCHANGED <<active, runs, current, batcher, channel, csv, ipc, ui, manual, export>>

(* The control learns the run id before the front end does.                *)
Publish ==
    /\ At("publish")
    /\ active' = [active EXCEPT !.run = command.run]
    /\ Goto("announce")
    /\ UNCHANGED <<runs, current, batcher, channel, csv, ipc, ui, manual, export>>

Announce ==
    /\ At("announce")
    /\ Len(channel) < MaxBatches
    /\ channel' = Append(channel, [metadata |-> metadata(command.run), completed |-> {}])
    /\ batcher' = [NoBatcher EXCEPT !.open = TRUE]
    /\ Goto("prepare")
    /\ UNCHANGED <<active, runs, current, csv, ipc, ui, manual, export>>

(* An error before the run returns at once, without a last status.         *)
PrepareReturns ==
    /\ At("prepare")
    /\ \/ /\ Goto("run")
          /\ \E on \in BOOLEAN : csv' = [NoCsv EXCEPT !.on = on]
       \/ Goto("close") /\ csv' = NoCsv
    /\ UNCHANGED <<active, runs, current, batcher, channel, ipc, ui, manual, export>>

(* Launch specifications, power authorizations and the CSV files.          *)
Prepare ==
    /\ At("prepare")
    /\ \/ /\ Goto("run")
          /\ \E on \in BOOLEAN : csv' = [NoCsv EXCEPT !.on = on]
       \/ /\ command' = [command EXCEPT !.pc = "status", !.verdict = "error"]
          /\ csv' = NoCsv
    /\ UNCHANGED <<active, runs, current, batcher, channel, ipc, ui, manual, export>>

-----------------------------------------------------------------------------
(* The run: what the executor does that the desktop can see.               *)

Stored == runs[command.run]
Executing(at) == At("run") /\ command.at = at /\ command.unwind = None /\ command.verdict = None
AtRoot == command.path = <<>>

Enter ==
    /\ Executing("step") /\ ~active.stop
    /\ \/ AtRoot /\ ~Stored.root /\ command' = [command EXCEPT !.path = <<Outer>>]
       \/ command.path = <<Outer>> /\ command' = [command EXCEPT !.path = <<Outer, Inner>>]
    /\ UNCHANGED <<active, runs, current, batcher, channel, csv, ipc, ui, manual, export>>

(* A leaf step of the innermost loop's body succeeds, or fails and takes   *)
(* every loop around it along.                                             *)
Leaf ==
    /\ Executing("step") /\ ~AtRoot /\ ~active.stop
    /\ \/ /\ Push(append_execution(Stored, command.path, TRUE), {})
          /\ command' = [command EXCEPT !.at = "commit"]
       \/ /\ Push(append_execution(Stored, <<>>, FALSE), ToSet(command.path))
          /\ command' = [command EXCEPT !.path = <<>>, !.verdict = "failed"]
    /\ UNCHANGED <<active, current, channel, csv, ipc, ui, manual, export>>

(* Leaving the innermost loop completes its step in the loop around it.    *)
LeaveLoop(unwind) ==
    /\ Push(append_execution(Stored, Front(command.path), TRUE), {Last(command.path)})
    /\ command' = [command EXCEPT !.path = Front(@), !.unwind = unwind,
                                  !.at = IF Len(command.path) > 1 THEN "commit" ELSE "step"]

Exhausted ==
    /\ Executing("step") /\ ~AtRoot
    /\ LeaveLoop(None)
    /\ UNCHANGED <<active, current, channel, csv, ipc, ui, manual, export>>

(* The iteration commits its row: the CSV writer sees it first, then the   *)
(* stored run; a CSV error fails the run, and otherwise the loops of the   *)
(* path are asked about a stop.                                            *)
Commit ==
    /\ Executing("commit")
    /\ \/ /\ Push(append_row(Stored), {})
          /\ LET stop == consume_loop_stop(command.path)
             IN IF active.stop
                THEN command' = [command EXCEPT !.at = "step"] /\ UNCHANGED active
                ELSE /\ command' = [command EXCEPT !.at = "step", !.unwind = stop.target]
                     /\ active' = [active EXCEPT !.loop_stop = stop.slot]
          /\ UNCHANGED csv
       \/ /\ csv.on
          /\ csv' = [csv EXCEPT !.failed = TRUE]
          /\ Push(append_execution(append_row(Stored), <<>>, FALSE), ToSet(command.path))
          /\ command' = [command EXCEPT !.path = <<>>, !.at = "step", !.verdict = "failed"]
          /\ UNCHANGED active
    /\ UNCHANGED <<current, channel, ipc, ui, manual, export>>

(* A loop stop unwinds to the loop it names, completing the loops inside.  *)
Unwind ==
    /\ At("run") /\ command.unwind # None
    /\ LeaveLoop(IF Last(command.path) = command.unwind THEN None ELSE command.unwind)
    /\ UNCHANGED <<active, current, channel, csv, ipc, ui, manual, export>>

(* A workflow stop is noticed before the next step or iteration.           *)
StopHere ==
    /\ Executing("step") /\ active.stop /\ (AtRoot => ~Stored.root)
    /\ command' = [command EXCEPT !.path = <<>>, !.verdict = "stopped"]
    /\ IF AtRoot THEN UNCHANGED <<runs, batcher>>
       ELSE Push(append_execution(Stored, <<>>, FALSE), ToSet(command.path))
    /\ UNCHANGED <<active, current, channel, csv, ipc, ui, manual, export>>

(* Clean-up ends the run; an error there overrides the executor's verdict. *)
RunReturns ==
    /\ At("run") /\ AtRoot /\ command.unwind = None
    /\ command.verdict # None \/ Stored.root
    /\ \E verdict \in {IF command.verdict = None THEN "succeeded" ELSE command.verdict, "error"} :
          command' = [command EXCEPT !.pc = "finish", !.verdict = verdict]
    /\ UNCHANGED <<active, runs, current, batcher, channel, csv, ipc, ui, manual, export>>

-----------------------------------------------------------------------------
(* The run commands after the last event.                                  *)

(* The last status of the CSV does not wait for the final flush.           *)
FinishUnflushed ==
    /\ At("finish")
    /\ \E flush_error \in {FALSE, csv.on} :
          LET failed == csv.failed \/ flush_error
          IN /\ csv' = [csv EXCEPT !.failed = failed, !.finished = csv.on,
                                   !.succeeded = csv.on /\ ~csv.failed
                                                 /\ command.verdict = "succeeded"
                                                 /\ completed_successfully(Stored)]
             /\ command' = [command EXCEPT !.pc = "status",
                                           !.verdict = IF failed THEN "error" ELSE @]
    /\ UNCHANGED <<active, runs, current, batcher, channel, ipc, ui, manual, export>>

(* run_with_stream_completion: the final flush of the CSV files may fail;  *)
(* the last status says what became of the workflow.                       *)
Finish ==
    /\ At("finish")
    /\ \E flush_error \in {FALSE, csv.on} :
          LET failed == csv.failed \/ flush_error
          IN /\ csv' = [csv EXCEPT !.failed = failed, !.finished = csv.on,
                                   !.succeeded = csv.on /\ ~failed /\ command.verdict = "succeeded"
                                                 /\ completed_successfully(Stored)]
             /\ command' = [command EXCEPT !.pc = "status",
                                           !.verdict = IF failed THEN "error" ELSE @]
    /\ UNCHANGED <<active, runs, current, batcher, channel, ipc, ui, manual, export>>

SetStatus ==
    /\ At("status")
    /\ runs' = [runs EXCEPT ![command.run].status =
                   IF command.verdict \in {"succeeded", "stopped"} THEN command.verdict
                   ELSE "failed"]
    /\ Goto("flush")
    /\ UNCHANGED <<active, current, batcher, channel, csv, ipc, ui, manual, export>>

FinalFlush ==
    /\ At("flush")
    /\ flush
    /\ Goto("close")
    /\ UNCHANGED <<active, runs, current, csv, ipc, ui, manual, export>>

(* Dropping the batcher ends its timer thread.                             *)
Close ==
    /\ At("close")
    /\ batcher' = NoBatcher
    /\ Goto("clear")
    /\ UNCHANGED <<active, runs, current, channel, csv, ipc, ui, manual, export>>

Clear ==
    /\ At("clear")
    /\ clear
    /\ Goto("reply")
    /\ UNCHANGED <<runs, current, batcher, channel, csv, ipc, ui, manual, export>>

-----------------------------------------------------------------------------
(* The front end.                                                          *)

(* A run starts: a simulation shows Running at once, a Live run when the   *)
(* back end has accepted it.                                               *)
Shown(u) == [u EXCEPT !.status = "running", !.run = 0, !.view = NoView, !.loop_stop = None,
                      !.stop = None]

StartRun ==
    /\ ui.status = "idle" /\ At("idle") /\ Len(runs) < MaxRuns
    /\ \E mode \in {"simulate", "live"} :
          /\ command' = [NoCommand EXCEPT !.pc = "register", !.mode = mode]
          /\ ui' = IF mode = "simulate" THEN Shown(ui) ELSE [ui EXCEPT !.status = "starting"]
    /\ UNCHANGED <<active, runs, current, batcher, channel, csv, ipc, manual, export>>

acceptRun(u) == IF u.status = "starting" THEN Shown(u) ELSE u

(* sendWorkflowStop: sends the request once the run id is known.           *)
sendWorkflowStop(u) ==
    IF u.stop = "asked" /\ u.run # 0
    THEN /\ ui' = [u EXCEPT !.stop = "sent"]
         /\ ipc' = Append(ipc, [kind |-> "workflow", run |-> u.run, loop |-> None])
    ELSE ui' = u /\ UNCHANGED ipc

(* A click made before the run had an id is not sent later.                *)
ReceiveOnly ==
    /\ channel # <<>> /\ ui.status # "idle"
    /\ channel' = Tail(channel)
    /\ LET batch == Head(channel)
       IN ui' = [acceptRun(ui) EXCEPT
                   !.run = batch.metadata.run,
                   !.view = batch.metadata,
                   !.loop_stop = IF @ \in batch.completed THEN None ELSE @]
    /\ UNCHANGED <<active, command, runs, current, batcher, csv, ipc, manual, export>>

(* receiveRunProgress.                                                     *)
ReceiveBatch ==
    /\ channel # <<>> /\ ui.status # "idle"
    /\ channel' = Tail(channel)
    /\ LET batch == Head(channel)
           seen == [acceptRun(ui) EXCEPT
                      !.run = batch.metadata.run,
                      !.view = batch.metadata,
                      !.loop_stop = IF @ \in batch.completed THEN None ELSE @]
       IN IF batch.metadata.status = "running" THEN sendWorkflowStop(seen)
          ELSE ui' = seen /\ UNCHANGED ipc
    /\ UNCHANGED <<active, command, runs, current, batcher, csv, manual, export>>

(* The command's answer ends the run for the front end, which no longer    *)
(* listens to the channel of that run.                                     *)
Reply ==
    /\ command.pc \in {"reply", "refused"}
    /\ ui' = [ui EXCEPT !.status = "idle",
                        !.run = IF command.run # 0 THEN command.run ELSE @,
                        !.view = IF command.run # 0 THEN metadata(command.run) ELSE @,
                        !.loop_stop = None, !.stop = None]
    /\ command' = NoCommand
    /\ channel' = <<>>
    /\ csv' = NoCsv
    /\ UNCHANGED <<active, runs, current, batcher, ipc, manual, export>>

requestWorkflowStop ==
    /\ ui.status = "running" /\ ui.stop \in {None, "error"} /\ Len(ipc) < MaxCalls
    /\ sendWorkflowStop([ui EXCEPT !.stop = "asked"])
    /\ UNCHANGED <<active, command, runs, current, batcher, channel, csv, manual, export>>

(* Stop for the innermost loop the last known execution was in, or for a   *)
(* loop around it; one request at a time.                                  *)
requestStop ==
    /\ ui.status = "running" /\ ui.stop \in {None, "error"} /\ ui.loop_stop = None
    /\ Len(ipc) < MaxCalls
    /\ \E loop \in ui.view.active :
          /\ ui' = [ui EXCEPT !.loop_stop = loop]
          /\ ipc' = Append(ipc, [kind |-> "loop", run |-> 0, loop |-> loop])
    /\ UNCHANGED <<active, command, runs, current, batcher, channel, csv, manual, export>>

(* ActiveRun::request_global and its answer.  A refused request is shown   *)
(* as an error if it is still the one the front end waits for.             *)
DeliverStop ==
    /\ ipc # <<>> /\ Head(ipc).kind = "workflow"
    /\ ipc' = Tail(ipc)
    /\ LET m == Head(ipc)
       IN IF request_global(m.run)
             THEN active' = [active EXCEPT !.stop = TRUE] /\ UNCHANGED ui
             ELSE /\ ui' = IF ui.stop = "sent" /\ ui.run = m.run
                           THEN [ui EXCEPT !.stop = "error"] ELSE ui
                  /\ UNCHANGED active
    /\ UNCHANGED <<command, runs, current, batcher, channel, csv, manual, export>>

(* ActiveRun::request and its answer.                                      *)
DeliverLoopStop ==
    /\ ipc # <<>> /\ Head(ipc).kind = "loop"
    /\ ipc' = Tail(ipc)
    /\ LET m == Head(ipc)
       IN IF active.kind = "workflow"
             THEN active' = [active EXCEPT !.loop_stop = m.loop] /\ UNCHANGED ui
             ELSE /\ ui' = IF ui.loop_stop = m.loop THEN [ui EXCEPT !.loop_stop = None] ELSE ui
                  /\ UNCHANGED active
    /\ UNCHANGED <<command, runs, current, batcher, channel, csv, manual, export>>

(* Clear Last Run.                                                         *)
ClearLastRun ==
    /\ ui.status = "idle" /\ ui.run # 0
    /\ current \in {0, ui.run}
    /\ current' = 0
    /\ ui' = [ui EXCEPT !.run = 0, !.view = NoView]
    /\ UNCHANGED <<active, command, runs, batcher, channel, csv, ipc, manual, export>>

-----------------------------------------------------------------------------
(* Manual power operations and exports.                                    *)

StartManual ==
    /\ ~manual
    /\ register_manual
    /\ manual' = TRUE
    /\ UNCHANGED <<command, runs, current, batcher, channel, csv, ipc, ui, export>>

EndManual ==
    /\ manual
    /\ clear
    /\ manual' = FALSE
    /\ UNCHANGED <<command, runs, current, batcher, channel, csv, ipc, ui, export>>

(* An export of whatever run is current.                                   *)
BeginExportAnyTime ==
    /\ export = 0
    /\ current # 0
    /\ export' = current
    /\ UNCHANGED <<active, command, runs, current, batcher, channel, csv, ipc, ui, manual>>

(* An export looks the run up and checks that it has ended; what it writes *)
(* it reads afterwards.                                                    *)
BeginExport ==
    /\ export = 0
    /\ current # 0 /\ runs[current].status # "running"
    /\ export' = current
    /\ UNCHANGED <<active, command, runs, current, batcher, channel, csv, ipc, ui, manual>>

WriteExport ==
    /\ export # 0
    /\ export' = 0
    /\ UNCHANGED <<active, command, runs, current, batcher, channel, csv, ipc, ui, manual>>

-----------------------------------------------------------------------------
RunCommand ==
    \/ Register \/ Parse \/ begin \/ Publish \/ Announce \/ Prepare
    \/ Enter \/ Leaf \/ Exhausted \/ Commit \/ Unwind \/ StopHere \/ RunReturns
    \/ Finish \/ SetStatus \/ FinalFlush \/ Close \/ Clear

FrontEnd == ReceiveBatch \/ Reply \/ DeliverStop \/ DeliverLoopStop

User == StartRun \/ requestWorkflowStop \/ requestStop \/ ClearLastRun
        \/ StartManual \/ EndManual \/ BeginExport \/ WriteExport

Next == RunCommand \/ FrontEnd \/ TimerFlush \/ User

Spec == Init /\ [][Next]_vars

(* The threads of the run command and of the front end keep running, an    *)
(* invocation under way arrives, and a batch whose deadline passed is      *)
(* flushed.  Nothing is assumed of the user.                               *)
Fairness ==
    /\ WF_vars(RunCommand)
    /\ WF_vars(ReceiveBatch)
    /\ WF_vars(Reply)
    /\ WF_vars(DeliverStop)
    /\ WF_vars(DeliverLoopStop)
    /\ WF_vars(TimerFlush)

FairSpec == Spec /\ Fairness

-----------------------------------------------------------------------------
(* Type invariant.                                                         *)
RunIds == 0 .. MaxRuns

TypeOK ==
    /\ active \in [kind : {"none", "workflow", "manual"}, run : RunIds, stop : BOOLEAN,
                   loop_stop : Loops \cup {None}]
    /\ command.run \in RunIds /\ command.path \in {<<>>, <<Outer>>, <<Outer, Inner>>}
    /\ command.unwind \in {None} \cup ToSet(command.path)
    /\ \A id \in DOMAIN runs : runs[id] = Dropped \/ runs[id].rows \in 0 .. MaxRows
    /\ current \in RunIds /\ current <= Len(runs)
    /\ batcher.completed \subseteq Loops /\ (batcher.completed # {} => batcher.dirty)
    /\ Len(channel) <= MaxBatches
    /\ ui.status \in {"idle", "starting", "running"} /\ ui.run \in RunIds
    /\ ui.stop \in {None, "asked", "sent", "error"} /\ ui.loop_stop \in Loops \cup {None}

(* Workers belong to one operation: while the run command may hold a       *)
(* Worker session, the slot is its own and no manual operation runs        *)
(* (main.rs:66, 76: both registrations look at the slot before taking it). *)
HoldsWorkers == command.pc \in {"prepare", "run", "finish", "status", "flush", "close", "clear"}

ExclusiveWorkers ==
    /\ HoldsWorkers => active.kind = "workflow" /\ active.run = command.run /\ ~manual
    /\ manual => active.kind = "manual"

(* A workflow stop reaches the run it was asked for: a control is stopped  *)
(* only while the front end shows that very run as stopping (main.rs:98).  *)
(* And a stop is refused only when the run is over: a refusal never hides  *)
(* a run that goes on (main.rs:570 sets the run id before the first batch  *)
(* tells it).                                                              *)
StopHitsItsRun ==
    /\ active.stop => ui.stop = "sent" /\ ui.run = active.run
    /\ ui.stop = "error" => command.pc = "reply"

(* While the front end shows a loop as stopping, the request is under way, *)
(* or pending, or being carried out, or the loop's completion is on its    *)
(* way back, or the run is over: no request is forgotten while the user is *)
(* told that it is being obeyed (main.rs:89, 116; App.tsx:1467).           *)
FeedbackIsHonest ==
    LET loop == ui.loop_stop
    IN loop # None =>
          \/ \E i \in DOMAIN ipc : ipc[i].loop = loop
          \/ active.loop_stop = loop
          \/ command.unwind = loop
          \/ loop \in batcher.completed
          \/ \E i \in DOMAIN channel : loop \in channel[i].completed
          \/ command.pc # "run" \/ command.verdict # None

(* The verdicts on a run agree once it has a final status: the status      *)
(* itself, completed_successfully in its metadata, the workflow_succeeded  *)
(* of the streaming CSV, which is computed before the status is set        *)
(* (stream_csv.rs:231, stored_run.rs:487, main.rs:618), and what the front *)
(* end shows when it is back to idle (main.rs:625, App.tsx:1594).          *)
VerdictsAgree ==
    /\ command.pc \in {"flush", "close", "clear", "reply"} /\ command.run # 0 =>
          LET succeeded == Stored.status = "succeeded"
          IN /\ succeeded <=> completed_successfully(Stored)
             /\ csv.finished => (csv.succeeded <=> succeeded)
    /\ ui.status = "idle" /\ ui.run # 0 => ui.view = metadata(ui.run) /\ ui.view.status # "running"

(* What an export reads does not change under it, however long it takes:   *)
(* a run that had its last status gets no more rows and no other status    *)
(* (stored_run.rs:215, main.rs:1218, 1321).                                *)
ExportsAreStable == [][export # 0 /\ export = current' => runs'[export] = runs[export]]_vars

(* Stop Workflow ends the run for the front end, even in a loop that never *)
(* ends by itself and even when the click comes before the run has an id.  *)
StopClickEnds == ui.stop \in {"asked", "sent"} ~> ui.status = "idle"
=============================================================================
