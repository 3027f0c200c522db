----------------------------- MODULE Bench -----------------------------
(***************************************************************************)
(* The instruments at work: a run carries out the tool actions of the      *)
(* document one after the other, and the operator may, when no run is on,  *)
(* look at the protection of the power supply or clear it by hand.  Each   *)
(* of the two has Workers of its own; a command that timed out stays with  *)
(* its Worker until that is shut down.                                     *)
(*                                                                         *)
(* The supply may trip at any time.  A Worker reads and writes one         *)
(* register after the other, may fail in between, and may report nonsense. *)
(***************************************************************************)
EXTENDS Preparation, Expressions

CONSTANTS
    Channels,     \* of the power supply
    Protections,  \* <<channel, "ov" or "oc">>: those that may trip
    Names,        \* names Scopes files can get
    Files         \* path -> what a file to be sent is like

ASSUME BenchAssumption ==
    /\ Channels \subseteq Nat \ {0} /\ Protections \subseteq Channels \X {"ov", "oc"}
    /\ MaxChannel \in Nat /\ None \notin Nat

VARIABLES
    supply,  \* channel -> [on, ov, oc]: output and protection latches
    trips,   \* trips that may still happen
    active,  \* ActiveRun: the operation that is registered
    manual,  \* the manual operation
    actions, \* the run's tool actions: [at, next, results]
    job,     \* operation -> the last command its Worker was given
    meter,   \* [pending, queue]: triggers taken, events on their way
    disk,    \* name -> kind of file -> who wrote it
    panel    \* what the operator was shown of the supply

bench == <<supply, trips, active, manual, actions, job, meter, disk, panel>>

Operations == {"run", "manual"}
NoJob == [tool |-> "powers", command |-> "none", channels |-> {}, todo |-> {}, report |-> <<>>, state |-> "none"]
NothingShown == [live |-> FALSE]
NoSession == [at |-> "idle", clear |-> 0, live |-> TRUE]
FileKinds(action) ==
    CASE action = "capture" -> {"output", "meta"} [] action = "screenshot" -> {"output"} [] OTHER -> {}
NoFiles == [kind \in {"output", "meta"} |-> None]
Old == 0  \* who wrote the files of earlier runs; a step of this run is its place

FirstName == CHOOSE n \in Names : TRUE  \* one name is taken already

BenchInit(MaxTrips, runs, asks) ==
    /\ supply = [c \in Channels |-> [on |-> FALSE, ov |-> FALSE, oc |-> FALSE]]
    /\ trips = MaxTrips
    /\ active = "none"
    /\ manual = NoSession
    /\ actions = [at |-> IF runs THEN "ready" ELSE "off", next |-> 1, results |-> <<>>, name |-> None]
    /\ job = [o \in Operations |-> NoJob]
    /\ meter = [pending |-> {}, queue |-> <<>>]
    /\ disk = [n \in Names |-> IF n = FirstName THEN [NoFiles EXCEPT !["output"] = Old] ELSE NoFiles]
    /\ panel = IF asks THEN None ELSE NothingShown

-----------------------------------------------------------------------------
(* The power supply and the Workers that drive it.                         *)

Tripped == {latch \in Channels \X {"ov", "oc"} : supply[latch[1]][latch[2]]}
SwitchedOn == {c \in Channels : supply[c].on}

Trip ==
    /\ trips > 0 /\ trips' = trips - 1
    /\ \E protection \in Protections :
          supply' = [supply EXCEPT ![protection[1]] = [@ EXCEPT !.on = FALSE, ![protection[2]] = TRUE]]
    /\ UNCHANGED <<active, manual, actions, job, meter, disk, panel>>

(* A report on protection is read channel by channel; the total (0) is     *)
(* read at some moment in between.                                         *)
Registers(channels) == channels \cup {0}

(* run_command: what a Worker has to do for a command.  seen is a history  *)
(* of what was tripped when it began.                                      *)
Command(operation, command, channels) ==
    job' = [job EXCEPT ![operation] =
        [tool |-> "powers", command |-> command, channels |-> channels, state |-> "working",
         todo |-> IF command = "protection-status" THEN Registers(channels) ELSE channels,
         report |-> [seen |-> Tripped, ov |-> FALSE, oc |-> FALSE, protection |-> <<>>, outputs |-> <<>>]]]

Advance(operation, register, report) ==
    job' = [job EXCEPT ![operation].todo = @ \ {register}, ![operation].report = report]

(* A planned command leaves the supply alone.                              *)
Writes(operation) == operation = "run" \/ manual.live

WriteRegister(operation) ==
    /\ job[operation].command # "protection-status"
    /\ \E c \in job[operation].todo :
          /\ Advance(operation, c, job[operation].report)
          /\ supply' = [supply EXCEPT ![c] =
                IF ~Writes(operation) THEN @
                ELSE CASE job[operation].command \in {"safe-off", "output-off"} -> [@ EXCEPT !.on = FALSE]
                       [] job[operation].command = "output-on" -> [@ EXCEPT !.on = ~supply[c].ov /\ ~supply[c].oc]
                       [] job[operation].command = "clear-protection" -> [@ EXCEPT !.ov = FALSE, !.oc = FALSE]
                       [] OTHER -> @]

ReadRegister(operation) ==
    /\ job[operation].command = "protection-status"
    /\ LET now == job[operation]
           report == now.report
       IN \/ /\ 0 \in now.todo
             /\ Advance(operation, 0,
                    [report EXCEPT !.ov = \E c \in now.channels : supply[c].ov,
                                   !.oc = \E c \in now.channels : supply[c].oc])
          \/ \E c \in now.todo \ {0} :
                /\ \A d \in now.todo \ {0} : c <= d
                /\ Advance(operation, c,
                       [report EXCEPT
                           !.protection = Append(@, [channel |-> c, ov |-> supply[c].ov, oc |-> supply[c].oc]),
                           !.outputs = Append(@, [channel |-> c, on |-> supply[c].on])])
    /\ UNCHANGED supply

(* A report in which one channel appears twice, or one is missing.         *)
Garbled(report) ==
    {[report EXCEPT !.outputs = Tail(@)]}
        \cup {[report EXCEPT !.protection[1].channel = c] : c \in {0, 2}}

WorkerEnds(operation) ==
    LET now == job[operation]
    IN \/ job' = [job EXCEPT ![operation].state = "failed"]
       \/ now.todo = {} /\ job' = [job EXCEPT ![operation].state = "succeeded"]
       \/ /\ now.todo = {} /\ now.command = "protection-status" /\ Len(now.report.protection) > 1
          /\ \E report \in Garbled(now.report) :
                job' = [job EXCEPT ![operation].state = "succeeded", ![operation].report = report]

PowersWorker(operation) ==
    /\ job[operation].state = "working" /\ job[operation].tool = "powers"
    /\ \/ WriteRegister(operation)
       \/ ReadRegister(operation)
       \/ WorkerEnds(operation) /\ UNCHANGED supply
    /\ UNCHANGED <<trips, active, manual, actions, meter, disk, panel>>

(* The adapter is told: the terminal state of the job, or it gives up      *)
(* waiting while the Worker goes on.                                       *)
Succeeded(operation) == job[operation].state = "succeeded"
GivesUp(operation) == job[operation].state \in {"working", "failed"}

-----------------------------------------------------------------------------
(* The operator's session: refresh (clear = 0) or clear one channel.       *)

register(operation) == active = "none" /\ active' = operation

BeginManual ==
    /\ manual = NoSession /\ panel = None
    /\ register("manual")
    /\ \E channel \in {0} \cup Channels, live \in BOOLEAN :
          manual' = [at |-> "start", clear |-> channel, live |-> live]
    /\ UNCHANGED <<supply, trips, actions, job, meter, disk, panel>>

Issue(at, command, channels) ==
    /\ manual' = [manual EXCEPT !.at = at]
    /\ Command("manual", command, channels)
    /\ UNCHANGED <<active, panel>>

Leave == manual' = [manual EXCEPT !.at = "shutdown"] /\ UNCHANGED <<active, job, panel>>

Over(answer) ==
    /\ manual' = NoSession /\ panel' = answer
    /\ active' = "none"
    /\ job' = [job EXCEPT !["manual"] = NoJob]

(* powers_worker_spec, the authorization and start_worker may each fail;   *)
(* only to clear is the Worker allowed to write.                           *)
StartManual ==
    /\ manual.at = "start"
    /\ \/ Over(NothingShown)
       \/ manual.clear = 0 /\ Issue("status", "protection-status", Channels)
       \/ manual.clear # 0 /\ Issue("safe-off", "safe-off", Channels)

ClearAnyway ==
    manual.at = "safe-off" /\ Issue("clear", "clear-protection", {manual.clear})

ClearManual ==
    /\ manual.at = "safe-off"
    /\ IF Succeeded("manual") THEN Issue("clear", "clear-protection", {manual.clear})
       ELSE GivesUp("manual") /\ Leave

Cleared ==
    /\ manual.at = "clear"
    /\ \/ /\ Succeeded("manual")
          /\ IF manual.live THEN Issue("status", "protection-status", Channels) ELSE Leave
       \/ GivesUp("manual") /\ Leave

(* Only a report that can be read and a Worker that exits with success     *)
(* make an answer; what is shown with it is a history of before and after. *)
Answer ==
    /\ manual.at = "status"
    /\ \/ /\ Succeeded("manual") /\ protection_report_is_accepted(job["manual"].report)
          /\ Over([live |-> manual.live, status |-> parse_protection_status(job["manual"].report),
                   before |-> job["manual"].report.seen, after |-> Tripped])
       \/ Leave

ShutdownManual == manual.at = "shutdown" /\ Over(NothingShown)

Manual ==
    \/ BeginManual
    \/ /\ StartManual \/ ClearManual \/ Cleared \/ Answer \/ ShutdownManual
       /\ UNCHANGED <<supply, trips, actions, meter, disk>>

-----------------------------------------------------------------------------
(* The run.                                                                *)

Current == steps[actions.next]
ToolOf(step) == Instance(step.target).tool
Arguments == tool_arguments(Current, ToolOf(Current))

(* A run does not begin when a file that it is to send cannot be sent.     *)
BeginRun ==
    /\ actions.at = "ready"
    /\ IF \A i \in ToolActions : steps[i].action = "send-file" /\ ToolOf(steps[i]) = "serial"
             => SendableFile(Files[steps[i].arguments.path.of])
       THEN register("run") /\ actions' = [actions EXCEPT !.at = "step"]
       ELSE active = "none" /\ actions' = [actions EXCEPT !.at = "done"] /\ UNCHANGED active
    /\ UNCHANGED <<supply, trips, manual, job, meter, disk, panel>>

(* The first failed step ends the run; a result is kept with the step.     *)
Keep(result) ==
    actions' = [actions EXCEPT !.at = "step", !.next = @ + 1, !.results = Append(@, result)]
FailAndGoOn == Keep(NoBindings)
Fail == actions' = [actions EXCEPT !.at = "ending"]

Wait ==
    /\ Current.kind = "wait"
    /\ Keep(NoBindings)
    /\ UNCHANGED <<job, meter, disk>>

(* What the adapter of a tool checks before it asks its Worker.            *)
AdapterAccepts(tool, action, arguments) ==
    CASE tool = "powers" -> validate_powers(action, arguments)
      [] tool = "serial" -> validate_serial(action, arguments, NoBindings)
      [] tool = "meters" -> action = "measure" /\ DOMAIN arguments = {}
      [] OTHER -> action \in ScopesActions
                  /\ (FileKinds(action) # {} => DOMAIN arguments \cap ManagedFields = {})

Dispatches(tool) ==
    /\ Current.kind = "tool-action" /\ ToolOf(Current) = tool
    /\ ~Refused(Arguments) /\ AdapterAccepts(tool, Current.action, Arguments)

(* dispatch_tool_action, when an argument cannot be resolved or the adapter*)
(* does not accept them.                                                   *)
Refuse ==
    /\ Current.kind = "tool-action"
    /\ Refused(Arguments) \/ ~AdapterAccepts(ToolOf(Current), Current.action, Arguments)
    /\ Fail /\ UNCHANGED <<job, meter, disk>>

Asked(arguments) ==
    IF Same(arguments.channel, All) THEN Channels ELSE {arguments.channel.of[1]} \cap Channels

Drive ==
    /\ Dispatches("powers")
    /\ Command("run", worker_command(Current.action), Asked(Arguments))
    /\ actions' = [actions EXCEPT !.at = "job"] /\ UNCHANGED <<meter, disk>>

TrippedOf(latches) == latches \cap (Asked(Arguments) \X {"ov", "oc"}) # {}

(* A measurement for another channel, or without numbers, is refused.      *)
Driven ==
    /\ ToolOf(Current) = "powers"
    /\ \/ /\ Succeeded("run") /\ Current.action = "measure"
          /\ \E reading \in [channel : Channels, voltage : BOOLEAN, current : BOOLEAN] :
                IF measure_result_is_valid(reading, Arguments.channel.of[1])
                   THEN Keep([channel |-> reading.channel]) ELSE Fail
       \/ /\ Succeeded("run") /\ Current.action = "protection-status"
          /\ Keep([tripped |-> augment_protection_status(job["run"].report),
                   before |-> TrippedOf(job["run"].report.seen), after |-> TrippedOf(Tripped)])
       \/ /\ Succeeded("run") /\ Current.action \notin {"measure", "protection-status"}
          /\ Keep(NoBindings)
       \/ GivesUp("run") /\ Fail
    /\ UNCHANGED <<job, meter, disk>>

(* The meter: a trigger is accepted, or it is not known whether it was.    *)
Trigger ==
    /\ Dispatches("meters")
    /\ \/ /\ actions' = [actions EXCEPT !.at = "sample"]
          /\ meter' = [meter EXCEPT !.pending = @ \cup {actions.next}]
       \/ /\ Fail
          /\ \E taken \in SUBSET {actions.next} : meter' = [meter EXCEPT !.pending = @ \cup taken]
    /\ UNCHANGED <<job, disk>>

MeterWorker ==
    /\ \/ \E trigger \in meter.pending :
             meter' = [pending |-> meter.pending \ {trigger},
                       queue |-> Append(meter.queue, [event |-> "sample", trigger |-> trigger])]
       \/ /\ meter.queue = <<>> /\ actions.at = "sample"
          /\ \E event \in {"status", "message", "error", "summary", "foreign"} :
                meter' = [meter EXCEPT !.queue = <<[event |-> event, trigger |-> Old]>>]
    /\ UNCHANGED <<supply, trips, active, manual, actions, job, disk, panel>>

classify_meters_event(event) ==
    CASE event = "sample" -> "success"
      [] event \in {"foreign", "error", "summary"} -> "failure"
      [] OTHER -> "continue"

(* The next sample is taken for the answer: events carry no job id.        *)
Sample ==
    /\ actions.at = "sample"
    /\ \/ /\ meter.queue # <<>>
          /\ LET event == Head(meter.queue)
                 decision == classify_meters_event(event.event)
             IN CASE decision = "success" -> Keep([trigger |-> event.trigger])
                  [] decision = "failure" -> Fail
                  [] OTHER -> UNCHANGED actions
          /\ meter' = [meter EXCEPT !.queue = Tail(@)]
       \/ Fail /\ UNCHANGED meter
    /\ UNCHANGED <<job, disk>>

-----------------------------------------------------------------------------
(* The oscilloscope.  A name is free when neither of its files exists.     *)

unique_output_paths(name) == \A kind \in DOMAIN disk[name] : disk[name][kind] = None

Aim ==
    /\ Dispatches("scopes")
    /\ \E name \in IF FileKinds(Current.action) = {} THEN {None}
                   ELSE {n \in Names : unique_output_paths(n)} :
          /\ job' = [job EXCEPT !["run"] =
                [NoJob EXCEPT !.tool = "scopes", !.command = Current.action,
                              !.todo = FileKinds(Current.action), !.state = "working"]]
          /\ actions' = [actions EXCEPT !.at = "job", !.name = name]
    /\ UNCHANGED <<meter, disk>>

(* Files are written one by one; a job may end with files left out.        *)
ScopesWorker ==
    /\ job["run"].state = "working" /\ job["run"].tool = "scopes"
    /\ \/ \E kind \in job["run"].todo :
             /\ job' = [job EXCEPT !["run"].todo = @ \ {kind}]
             /\ disk' = [disk EXCEPT ![actions.name][kind] = actions.next]
       \/ /\ \E state \in {"succeeded", "failed"} : job' = [job EXCEPT !["run"].state = state]
          /\ UNCHANGED disk
    /\ UNCHANGED <<supply, trips, active, manual, actions, meter, panel>>

(* terminal_result: every file that was asked for is listed and is there.  *)
Aimed ==
    /\ ToolOf(Current) = "scopes"
    /\ LET kinds == FileKinds(Current.action)
       IN \/ /\ Succeeded("run")
             /\ \E listed \in SUBSET kinds :
                   IF kinds \subseteq listed /\ \A kind \in kinds : disk[actions.name][kind] # None
                   THEN Keep([name |-> actions.name, kinds |-> kinds]) ELSE Fail
          \/ GivesUp("run") /\ Fail
    /\ UNCHANGED <<job, meter, disk>>

-----------------------------------------------------------------------------
(* The serial port: nothing of the bench changes.                          *)

Talk ==
    /\ Dispatches("serial")
    /\ job' = [job EXCEPT !["run"] = [NoJob EXCEPT !.tool = "serial", !.state = "working",
                                      !.command = serial_command(Current.action, Arguments).command]]
    /\ actions' = [actions EXCEPT !.at = "job"]
    /\ UNCHANGED <<meter, disk>>

SerialWorker ==
    /\ job["run"].state = "working" /\ job["run"].tool = "serial"
    /\ \E state \in {"succeeded", "failed"} : job' = [job EXCEPT !["run"].state = state]
    /\ UNCHANGED <<supply, trips, active, manual, actions, meter, disk, panel>>

Talked ==
    /\ ToolOf(Current) = "serial"
    /\ \/ Succeeded("run") /\ Keep(NoBindings)
       \/ GivesUp("run") /\ Fail
    /\ UNCHANGED <<job, meter, disk>>

-----------------------------------------------------------------------------
(* However it ends, a run shuts its Workers down; Safe-Off before that may *)
(* reach any of the outputs.                                               *)
EndRun ==
    /\ actions.at \in {"step", "ending"}
    /\ actions.at = "step" => actions.next > Len(steps)
    /\ actions' = [actions EXCEPT !.at = "done"]
    /\ job' = [job EXCEPT !["run"] = NoJob]
    /\ \E off \in SUBSET SwitchedOn :
          supply' = [c \in Channels |-> IF c \in off THEN [supply[c] EXCEPT !.on = FALSE] ELSE supply[c]]
    /\ meter' = [pending |-> {}, queue |-> <<>>]
    /\ active' = "none"
    /\ UNCHANGED <<trips, manual, disk, panel>>

Act ==
    /\ \/ /\ actions.at = "step" /\ actions.next <= Len(steps)
          /\ Wait \/ Refuse \/ Drive \/ Trigger \/ Aim \/ Talk
       \/ actions.at = "job" /\ (Driven \/ Aimed \/ Talked)
       \/ Sample
    /\ UNCHANGED <<supply, trips, active, manual, panel>>

BenchStep ==
    \/ Trip
    \/ Manual
    \/ BeginRun \/ Act \/ EndRun
    \/ \E operation \in Operations : PowersWorker(operation)
    \/ MeterWorker
    \/ ScopesWorker
    \/ SerialWorker
=============================================================================
