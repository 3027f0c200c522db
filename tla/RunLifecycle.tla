---------------------------- MODULE RunLifecycle ----------------------------
(***************************************************************************)
(* One run of a workflow (src/src/run.rs, run_workflow_internal), on the   *)
(* thread that calls it: start a Worker per referenced Tool Instance, set  *)
(* the tools up, execute the steps, clean up the backgrounds, switch every *)
(* power supply off (Safe-Off), shut the Workers down, and report.         *)
(*                                                                         *)
(* Meanwhile the operator may request that the workflow stop, and a        *)
(* background or a CSV writer may signal a failure of the run.  What the   *)
(* steps do is reduced to what the run depends on: the session they use,   *)
(* the outputs they switch, and how the execution ends (executor.rs).      *)
(***************************************************************************)
EXTENDS Naturals

CONSTANTS N,          \* number of referenced Tool Instances, in session order
          Powers,     \* those that are power supplies
          Configured  \* those with a setup to apply: Scopes, protected Powers

ASSUME InstancesAssumption ==
    N \in Nat /\ Powers \subseteq 1 .. N /\ Configured \subseteq 1 .. N

Instances == 1 .. N

VARIABLES
    pc,          \* the stage of the run
    i,           \* the index of the loop over the instances
    session,     \* session[t]: "none", "open" or "closed"
    prepared,    \* the instances whose setup is complete
    output,      \* output[t]: the outputs of power supply t (external)
    begun,       \* the executor has taken its first step
    stop,        \* WorkflowStop: requested, and never withdrawn
    failure,     \* RunFailure: signalled
    execution,   \* how the execution ended, "none" before
    safety,      \* cleanup_powers returned an error
    attempted,   \* history: the instances asked to Safe-Off at the end
    causes,      \* history: what has gone wrong so far
    result       \* what the run returns, and the causes that its text names

vars == <<pc, i, session, prepared, output, begun, stop, failure, execution,
          safety, attempted, causes, result>>

Causes == {"startup", "setup", "step", "signal", "background", "safety", "shutdown"}
NoResult == [kind |-> "none", named |-> {}]

Init ==
    /\ pc = "start" /\ i = 1
    /\ session = [t \in Instances |-> "none"]
    /\ prepared = {}
    /\ output \in [Instances -> {"on", "off"}]
    /\ begun = FALSE /\ stop = FALSE /\ failure = FALSE
    /\ execution = "none" /\ safety = FALSE
    /\ attempted = {} /\ causes = {} /\ result = NoResult

-----------------------------------------------------------------------------
(* The operator, and the other threads of the run.                          *)
RequestStop ==
    /\ pc # "returned"
    /\ stop' = TRUE
    /\ UNCHANGED <<pc, i, session, prepared, output, begun, failure, execution,
                   safety, attempted, causes, result>>

(* Background dispatchers exist from the first step to the end of their     *)
(* cleanup; CSV observers are called by the executor.                       *)
SignalFailure ==
    /\ pc \in {"execute", "step", "background"} /\ begun
    /\ failure' = TRUE
    /\ causes' = causes \cup {"signal"}
    /\ UNCHANGED <<pc, i, session, prepared, output, begun, stop, execution,
                   safety, attempted, result>>

-----------------------------------------------------------------------------
(* Start the Workers in order; a stop request ends the loop.                *)

(* Bug to rule out: the loop starts before the first instance. *)
GotoZero(stage) == pc' = stage /\ i' = 0

Goto(stage) == pc' = stage /\ i' = 1

StartWorker ==
    /\ pc = "start" /\ i <= N /\ ~stop
    /\ session' = [session EXCEPT ![i] = "open"]
    /\ i' = i + 1
    /\ UNCHANGED <<pc, prepared, output, begun, stop, failure, execution,
                   safety, attempted, causes, result>>

(* Bug to rule out: the error is returned where it occurs. *)
StartFailsAtOnce ==
    /\ pc = "start" /\ i <= N /\ ~stop
    /\ causes' = causes \cup {"startup"}
    /\ pc' = "returned"
    /\ result' = [kind |-> "early", named |-> {"startup"}]
    /\ UNCHANGED <<i, session, prepared, output, begun, stop, failure, execution,
                   safety, attempted>>

(* The Workers already started are cleaned up like after a run. *)
StartFails ==
    /\ pc = "start" /\ i <= N /\ ~stop
    /\ causes' = causes \cup {"startup"}
    /\ Goto("powers")
    /\ UNCHANGED <<session, prepared, output, begun, stop, failure, execution,
                   safety, attempted, result>>

StartEnds ==
    /\ pc = "start" /\ (i > N \/ stop)
    /\ Goto("setup")
    /\ UNCHANGED <<session, prepared, output, begun, stop, failure, execution,
                   safety, attempted, causes, result>>

(* Scopes Setup, or Powers protection after a Safe-Off of its own; looks at *)
(* the stop request between two requests to the Worker.                     *)
Open(t) == t \in Instances /\ session[t] = "open"

SafedOutputs(t) == IF t \in Powers \cap Configured
                   THEN {[output EXCEPT ![t] = "off"]} ELSE {output}

SetupTool ==
    /\ pc = "setup" /\ Open(i) /\ ~stop
    /\ prepared' = prepared \cup {i}
    /\ output' \in SafedOutputs(i)
    /\ i' = i + 1
    /\ UNCHANGED <<pc, session, begun, stop, failure, execution, safety,
                   attempted, causes, result>>

(* The request came while tool i was being set up. *)
SetupInterrupted ==
    /\ pc = "setup" /\ Open(i) /\ stop
    /\ i \in Configured
    /\ output' \in {output} \cup SafedOutputs(i)
    /\ i' = i + 1
    /\ UNCHANGED <<pc, session, prepared, begun, stop, failure, execution,
                   safety, attempted, causes, result>>

SetupFails ==
    /\ pc = "setup" /\ Open(i) /\ i \in Configured
    /\ causes' = causes \cup {"setup"}
    /\ output' \in {output} \cup SafedOutputs(i)
    /\ Goto("powers")
    /\ UNCHANGED <<session, prepared, begun, stop, failure, execution, safety,
                   attempted, result>>

SetupEnds ==
    /\ pc = "setup" /\ (~Open(i) \/ stop)
    /\ Goto("execute")
    /\ UNCHANGED <<session, prepared, output, begun, stop, failure, execution,
                   safety, attempted, causes, result>>

-----------------------------------------------------------------------------
(* The executor, as far as the run sees it.                                 *)
Executed(outcome) ==
    /\ execution' = outcome
    /\ Goto("background")

(* Before every step: a failure first, then a stop request. *)
CheckpointStops ==
    /\ pc = "execute" /\ ~failure /\ stop
    /\ Executed("stopped")
    /\ UNCHANGED <<session, prepared, output, begun, stop, failure, safety,
                   attempted, causes, result>>

CheckpointFails ==
    /\ pc = "execute" /\ failure
    /\ Executed("failed")
    /\ causes' = causes \cup {"step"}
    /\ UNCHANGED <<session, prepared, output, begun, stop, failure, safety,
                   attempted, result>>

(* Bug to rule out: the stop request is only seen by a running Wait. *)
CheckpointWithoutStop ==
    /\ pc = "execute" /\ ~failure
    /\ pc' = "step" /\ begun' = TRUE
    /\ UNCHANGED <<i, session, prepared, output, stop, failure, execution,
                   safety, attempted, causes, result>>

CheckpointPasses ==
    /\ pc = "execute" /\ ~failure /\ ~stop
    /\ pc' = "step" /\ begun' = TRUE
    /\ UNCHANGED <<i, session, prepared, output, stop, failure, execution,
                   safety, attempted, causes, result>>

(* A step succeeds; one that uses an instance needs its session, and one on *)
(* a power supply may switch its output.                                    *)
StepSucceeds ==
    /\ pc = "step"
    /\ \/ UNCHANGED output
       \/ \E t \in Powers, level \in {"on", "off"} :
            Open(t) /\ output' = [output EXCEPT ![t] = level]
    /\ pc' = "execute"
    /\ UNCHANGED <<i, session, prepared, begun, stop, failure, execution,
                   safety, attempted, causes, result>>

(* A step fails, whatever it did to its output before. *)
StepFails ==
    /\ pc = "step"
    /\ \/ UNCHANGED output
       \/ \E t \in Powers : Open(t) /\ output' = [output EXCEPT ![t] = "on"]
    /\ Executed("failed")
    /\ causes' = causes \cup {"step"}
    /\ UNCHANGED <<session, prepared, begun, stop, failure, safety, attempted, result>>

(* A Wait is cancelled by a stop request. *)
WaitCancelled ==
    /\ pc = "step" /\ stop
    /\ Executed("stopped")
    /\ UNCHANGED <<session, prepared, output, begun, stop, failure, safety,
                   attempted, causes, result>>

(* The last step is done: a stop request that comes now changes nothing,    *)
(* and a failure is noticed if a row is still to be committed.              *)
Completes ==
    /\ pc = "execute" /\ begun
    /\ Executed("ok")
    /\ UNCHANGED <<session, prepared, output, begun, stop, failure, safety,
                   attempted, causes, result>>

EmptyWorkflow ==
    /\ pc = "execute" /\ ~begun
    /\ Executed("error")
    /\ causes' = causes \cup {"step"}
    /\ UNCHANGED <<session, prepared, output, begun, stop, failure, safety,
                   attempted, result>>

-----------------------------------------------------------------------------
(* Cleanup.                                                                 *)

(* Where a background cleanup error comes from a dispatcher, the dispatcher *)
(* has signalled it too; a timeout has not.                                 *)
CleanupBackgrounds ==
    /\ pc = "background"
    /\ \/ UNCHANGED <<causes, failure>>
       \/ causes' = causes \cup {"background"} /\ UNCHANGED failure
       \/ causes' = causes \cup {"background", "signal"} /\ failure' = TRUE
    /\ Goto("powers")
    /\ UNCHANGED <<session, prepared, output, begun, stop, execution, safety,
                   attempted, result>>

(* Bug to rule out: an error ends the loop over the power supplies. *)
SafeOffUntilError ==
    /\ pc = "powers" /\ i <= N
    /\ IF ~Open(i) \/ i \notin Powers
       THEN i' = i + 1 /\ UNCHANGED <<pc, output, safety, attempted, causes>>
       ELSE /\ attempted' = attempted \cup {i}
            /\ \/ /\ output' = [output EXCEPT ![i] = "off"] /\ i' = i + 1
                  /\ UNCHANGED <<pc, safety, causes>>
               \/ /\ safety' = TRUE /\ causes' = causes \cup {"safety"}
                  /\ Goto("shutdown")
                  /\ UNCHANGED output
    /\ UNCHANGED <<session, prepared, begun, stop, failure, execution, result>>

(* cleanup_powers: every open power supply is tried, whatever the others    *)
(* answer; the first error is reported.                                     *)
SafeOff ==
    /\ pc = "powers" /\ i <= N
    /\ IF ~Open(i) \/ i \notin Powers
       THEN UNCHANGED <<output, safety, attempted, causes>>
       ELSE /\ attempted' = attempted \cup {i}
            /\ \/ /\ output' = [output EXCEPT ![i] = "off"]
                  /\ UNCHANGED <<safety, causes>>
               \/ /\ safety' = TRUE /\ causes' = causes \cup {"safety"}
                  /\ UNCHANGED output
    /\ i' = i + 1
    /\ UNCHANGED <<pc, session, prepared, begun, stop, failure, execution, result>>

SafeOffEnds ==
    /\ pc = "powers" /\ i > N
    /\ Goto("shutdown")
    /\ UNCHANGED <<session, prepared, output, begun, stop, failure, execution,
                   safety, attempted, causes, result>>

(* shutdown_workers: every session is consumed, whatever the others do.     *)
(* WorkerSession shows that the process is gone either way.                 *)
ShutdownWorker ==
    /\ pc = "shutdown" /\ i <= N
    /\ IF Open(i)
       THEN /\ session' = [session EXCEPT ![i] = "closed"]
            /\ causes' \in {causes, causes \cup {"shutdown"}}
       ELSE UNCHANGED <<session, causes>>
    /\ i' = i + 1
    /\ UNCHANGED <<pc, prepared, output, begun, stop, failure, execution,
                   safety, attempted, result>>

(* What is returned.  After a startup or setup error, shutdown errors are   *)
(* not looked at; otherwise the causes have an order of precedence.         *)
ExecutionFailed == execution \in {"failed", "error"}

(* Bug to rule out: the summary drops the failed step. *)
StepCauseDropped == {}

StepCause == IF ExecutionFailed THEN {"step"} ELSE {}
Early == causes \cap {"startup", "setup"}

(* SafetyCleanup's prior failure. *)
PriorFailure ==
    IF ExecutionFailed THEN {"step"}
    ELSE IF failure THEN {"signal"}
    ELSE IF "background" \in causes THEN {"background"}
    ELSE causes \cap {"shutdown"}

Returned ==
    IF Early # {}
    THEN IF safety THEN [kind |-> "safety", named |-> Early \cup {"safety"}]
         ELSE [kind |-> "early", named |-> Early]
    ELSE IF safety THEN [kind |-> "safety", named |-> PriorFailure \cup {"safety"}]
    ELSE IF failure
         THEN [kind |-> "background",
               named |-> StepCause \cup {"signal"} \cup (causes \cap {"background"})]
    ELSE IF "background" \in causes
         THEN [kind |-> "background", named |-> StepCause \cup {"background"}]
    ELSE IF execution = "error" THEN [kind |-> "execution", named |-> {"step"}]
    ELSE IF "shutdown" \in causes THEN [kind |-> "shutdown", named |-> {"shutdown"}]
    ELSE [kind |-> "summary", named |-> StepCause]

Return ==
    /\ pc = "shutdown" /\ i > N
    /\ pc' = "returned"
    /\ result' = Returned
    /\ UNCHANGED <<i, session, prepared, output, begun, stop, failure,
                   execution, safety, attempted, causes>>

-----------------------------------------------------------------------------
Thread ==
    \/ StartWorker \/ StartFails \/ StartEnds
    \/ SetupTool \/ SetupInterrupted \/ SetupFails \/ SetupEnds
    \/ CheckpointStops \/ CheckpointFails \/ CheckpointPasses
    \/ StepSucceeds \/ StepFails \/ WaitCancelled \/ Completes \/ EmptyWorkflow
    \/ CleanupBackgrounds \/ SafeOff \/ SafeOffEnds \/ ShutdownWorker \/ Return

Next == Thread \/ RequestStop \/ SignalFailure

(* Every call of the run's thread has a timeout.  The workflow itself may   *)
(* loop for ever.                                                           *)
Spec == Init /\ [][Next]_vars /\ WF_vars(Thread)

-----------------------------------------------------------------------------
TypeOK ==
    /\ pc \in {"start", "setup", "execute", "step", "background", "powers",
               "shutdown", "returned"}
    /\ i \in 1 .. N + 1
    /\ session \in [Instances -> {"none", "open", "closed"}]
    /\ prepared \subseteq Instances
    /\ output \in [Instances -> {"on", "off"}]
    /\ begun \in BOOLEAN /\ stop \in BOOLEAN /\ failure \in BOOLEAN
    /\ execution \in {"none", "ok", "stopped", "failed", "error"}
    /\ safety \in BOOLEAN
    /\ attempted \subseteq Powers
    /\ causes \subseteq Causes
    /\ result.named \subseteq Causes

(* No step runs on a half set up bench: a stop request during start-up ends *)
(* the loops early, but still lets the executor begin.                      *)
NoStepOnHalfSetup ==
    pc = "step" => \A t \in Instances : session[t] = "open" /\ t \in prepared

(* However the run ends, every power supply whose Worker was started was    *)
(* asked to switch off after the last step and while its Worker was still   *)
(* there, and one that did not is reported.                                 *)
SafeEnd ==
    \A t \in Powers : session[t] = "closed" =>
        /\ t \in attempted
        /\ output[t] = "off" \/ "safety" \in causes
        /\ pc = "returned" => output[t] = "off" \/ "safety" \in result.named

(* Every Worker that was started is shut down before the run returns. *)
NoWorkerLeft == pc = "returned" => \A t \in Instances : session[t] # "open"

(* The run leaves a safe bench behind. *)
EndsSafely == SafeEnd /\ NoWorkerLeft

(* A run that returns its results had no failure but the one they show, and *)
(* one that returns an error names a cause that occurred.                   *)
HonestResult ==
    pc = "returned" =>
        /\ result.kind = "summary" =>
            /\ causes \subseteq result.named
            /\ execution = "ok" => prepared = Instances
        /\ result.kind # "summary" => result.named # {}
        /\ result.named \subseteq causes

(* "A cleanup failure makes the run fail, while preserving the original     *)
(* workflow failure when one already exists."                               *)
OriginalFailureIsKept ==
    pc = "returned" /\ "step" \in causes => "step" \in result.named

(* "Stop Workflow ... stops the entire workflow": the run comes to its end. *)
StopEndsRun == stop ~> pc = "returned"
=============================================================================
