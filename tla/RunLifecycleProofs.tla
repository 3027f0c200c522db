------------------------- MODULE RunLifecycleProofs -------------------------
(***************************************************************************)
(* Proofs about RunLifecycle, for any number of Tool Instances: its type   *)
(* invariant, that no step runs on a half set up bench, that every power   *)
(* supply is switched off or reported, that no Worker is left, and that    *)
(* the result is honest.                                                   *)
(*                                                                         *)
(* None of these is inductive.  What carries them is what each stage of    *)
(* the run knows of the loops before it (Stages, Safety), that the         *)
(* history of causes agrees with the variables the result is computed      *)
(* from (Accounts), and that the result is not touched once returned.      *)
(***************************************************************************)
EXTENDS RunLifecycle, TLAPS

(* How far start-up, setup and shutdown have come.  An incomplete start-up  *)
(* or setup is known by the stop request that cut it short.                 *)
Stages ==
    /\ pc \notin {"shutdown", "returned"} =>
           \A t \in Instances : session[t] # "closed"
    /\ pc = "start" => \A t \in Instances : t < i => session[t] = "open"
    /\ pc = "setup" =>
           stop \/ \A t \in Instances : session[t] = "open" /\ (t < i => t \in prepared)
    /\ pc \in {"start", "setup"} => ~begun
    /\ pc = "step" => begun
    /\ pc = "execute" /\ ~begun =>
           stop \/ \A t \in Instances : session[t] = "open" /\ t \in prepared
    /\ pc \in {"execute", "step"} /\ begun =>
           \A t \in Instances : session[t] = "open" /\ t \in prepared
    /\ begun => prepared = Instances
    /\ execution = "ok" => begun
    /\ pc = "shutdown" => \A t \in Instances : t < i => session[t] # "open"
    /\ pc = "returned" => \A t \in Instances : session[t] # "open"

(* A power supply the cleanup loop has passed was tried. *)
Tried(t) == t \in attempted /\ (output[t] = "off" \/ "safety" \in causes)

Safety ==
    /\ pc = "powers" => \A t \in Powers : t < i /\ session[t] = "open" => Tried(t)
    /\ pc \in {"shutdown", "returned"} =>
           \A t \in Powers : session[t] # "none" => Tried(t)

(* The causes and the variables of the run tell the same story. *)
Accounts ==
    /\ failure <=> "signal" \in causes
    /\ safety <=> "safety" \in causes
    /\ ExecutionFailed <=> "step" \in causes
    /\ pc \in {"start", "setup", "execute", "step"} => execution = "none"
    /\ pc = "returned" => result = Returned

IInv == TypeOK /\ Stages /\ Safety /\ Accounts

-----------------------------------------------------------------------------
(* A result names causes that have occurred, and an error names one. *)
LEMMA ReturnedIsHonest ==
    ASSUME Accounts
    PROVE  /\ Returned.named \subseteq causes
           /\ Returned.kind # "summary" => Returned.named # {}
<1>1. /\ PriorFailure \subseteq causes
      /\ StepCause \subseteq causes
      /\ Early \subseteq causes
    BY DEF Accounts, PriorFailure, StepCause, Early
<1>2. CASE Early # {}
    BY <1>1, <1>2 DEF Accounts, Returned
<1>3. CASE Early = {}
    BY <1>1, <1>3 DEF Accounts, Returned, ExecutionFailed
<1>4. QED
    BY <1>2, <1>3

(* A set of causes stays one when causes of the list are added. *)
LEMMA CausesStep ==
    ASSUME causes \subseteq Causes, [Next]_vars
    PROVE  causes' \subseteq Causes
<1>1. {"startup", "setup", "step", "signal", "background", "safety", "shutdown"} \subseteq Causes
    BY DEF Causes
<1>2. CASE Thread
    <2>1. \/ UNCHANGED causes
          \/ \E c \in {"startup", "setup", "step", "background", "safety", "shutdown"} :
                 causes' = causes \cup {c}
          \/ causes' = causes \cup {"background", "signal"}
        BY <1>2 DEF Thread, StartWorker, StartFails, StartEnds, SetupTool,
            SetupInterrupted, SetupFails, SetupEnds, CheckpointStops,
            CheckpointFails, CheckpointPasses, StepSucceeds, StepFails,
            WaitCancelled, Completes, EmptyWorkflow, CleanupBackgrounds, SafeOff,
            SafeOffEnds, ShutdownWorker, Return
    <2>2. QED
        BY <1>1, <2>1
<1>3. CASE RequestStop \/ SignalFailure \/ UNCHANGED vars
    BY <1>1, <1>3 DEF RequestStop, SignalFailure, vars
<1>4. QED
    BY <1>2, <1>3 DEF Next

(* Every step keeps the types; Return because it names causes that occurred. *)
LEMMA TypeStep ==
    ASSUME TypeOK, Accounts, [Next]_vars
    PROVE  TypeOK'
<1> USE InstancesAssumption DEF Instances
<1>c. causes' \subseteq Causes
    BY CausesStep DEF TypeOK
<1>1. CASE StartWorker
    BY <1>c, <1>1 DEF TypeOK, StartWorker
<1>2. CASE StartFails
    BY <1>c, <1>2 DEF TypeOK, StartFails, Goto
<1>3. CASE StartEnds
    BY <1>c, <1>3 DEF TypeOK, StartEnds, Goto
<1>4. CASE SetupTool
    BY <1>c, <1>4 DEF TypeOK, SetupTool, Open, SafedOutputs
<1>5. CASE SetupInterrupted
    BY <1>c, <1>5 DEF TypeOK, SetupInterrupted, Open, SafedOutputs
<1>6. CASE SetupFails
    BY <1>c, <1>6 DEF TypeOK, SetupFails, Goto, Open, SafedOutputs
<1>7. CASE SetupEnds
    BY <1>c, <1>7 DEF TypeOK, SetupEnds, Goto, Open
<1>8. CASE CheckpointStops
    BY <1>c, <1>8 DEF TypeOK, CheckpointStops, Executed, Goto
<1>9. CASE CheckpointFails
    BY <1>c, <1>9 DEF TypeOK, CheckpointFails, Executed, Goto
<1>10. CASE CheckpointPasses
    BY <1>c, <1>10 DEF TypeOK, CheckpointPasses
<1>11. CASE StepSucceeds
    BY <1>c, <1>11 DEF TypeOK, StepSucceeds, Open
<1>12. CASE StepFails
    BY <1>c, <1>12 DEF TypeOK, StepFails, Executed, Open, Goto
<1>13. CASE WaitCancelled
    BY <1>c, <1>13 DEF TypeOK, WaitCancelled, Executed, Goto
<1>14. CASE Completes
    BY <1>c, <1>14 DEF TypeOK, Completes, Executed, Goto
<1>15. CASE EmptyWorkflow
    BY <1>c, <1>15 DEF TypeOK, EmptyWorkflow, Executed, Goto
<1>16. CASE CleanupBackgrounds
    <2>1. failure' \in BOOLEAN
        BY <1>16 DEF TypeOK, CleanupBackgrounds
    <2>2. QED
        BY <1>c, <2>1, <1>16 DEF TypeOK, CleanupBackgrounds, Goto
<1>17. CASE SafeOff
    <2>1. i' \in 1 .. N + 1
        BY <1>17 DEF TypeOK, SafeOff
    <2>2. /\ output' \in [1 .. N -> {"on", "off"}]
          /\ safety' \in BOOLEAN
        BY <1>17 DEF TypeOK, SafeOff, Open
    <2>3. attempted' \subseteq Powers
        BY <1>17 DEF TypeOK, SafeOff, Open
    <2>4. QED
        BY <1>c, <2>1, <2>2, <2>3, <1>17 DEF TypeOK, SafeOff
<1>18. CASE SafeOffEnds
    BY <1>c, <1>18 DEF TypeOK, SafeOffEnds, Goto
<1>19. CASE ShutdownWorker
    BY <1>c, <1>19 DEF TypeOK, ShutdownWorker, Open
<1>20. CASE Return
    <2>1. result'.named \subseteq Causes
        BY <1>20, ReturnedIsHonest DEF TypeOK, Return
    <2>2. QED
        BY <1>c, <2>1, <1>20 DEF TypeOK, Return
<1>21. CASE RequestStop
    BY <1>c, <1>21 DEF TypeOK, RequestStop
<1>22. CASE SignalFailure
    BY <1>c, <1>22 DEF TypeOK, SignalFailure
<1>23. CASE UNCHANGED vars
    BY <1>c, <1>23 DEF TypeOK, vars
<1>24. QED
    BY <1>1, <1>2, <1>3, <1>4, <1>5, <1>6, <1>7, <1>8, <1>9, <1>10, <1>11, <1>12, <1>13, <1>14, <1>15, <1>16, <1>17, <1>18, <1>19, <1>20, <1>21, <1>22, <1>23 DEF Next, Thread

(* Every step keeps what the stages know. *)
LEMMA StagesStep ==
    ASSUME TypeOK, Stages, [Next]_vars
    PROVE  Stages'
<1> USE InstancesAssumption DEF Instances
<1>1. CASE StartWorker
    BY <1>1 DEF TypeOK, Stages, StartWorker
<1>2. CASE StartFails
    BY <1>2 DEF TypeOK, Stages, StartFails, Goto
<1>3. CASE StartEnds
    BY <1>3 DEF TypeOK, Stages, StartEnds, Goto
<1>4. CASE SetupTool
    BY <1>4 DEF TypeOK, Stages, SetupTool, Open, SafedOutputs
<1>5. CASE SetupInterrupted
    BY <1>5 DEF TypeOK, Stages, SetupInterrupted, Open, SafedOutputs
<1>6. CASE SetupFails
    BY <1>6 DEF TypeOK, Stages, SetupFails, Goto, Open, SafedOutputs
<1>7. CASE SetupEnds
    BY <1>7 DEF TypeOK, Stages, SetupEnds, Goto, Open
<1>8. CASE CheckpointStops
    BY <1>8 DEF TypeOK, Stages, CheckpointStops, Executed, Goto
<1>9. CASE CheckpointFails
    BY <1>9 DEF TypeOK, Stages, CheckpointFails, Executed, Goto
<1>10. CASE CheckpointPasses
    BY <1>10 DEF TypeOK, Stages, CheckpointPasses
<1>11. CASE StepSucceeds
    BY <1>11 DEF TypeOK, Stages, StepSucceeds, Open
<1>12. CASE StepFails
    BY <1>12 DEF TypeOK, Stages, StepFails, Executed, Open, Goto
<1>13. CASE WaitCancelled
    BY <1>13 DEF TypeOK, Stages, WaitCancelled, Executed, Goto
<1>14. CASE Completes
    BY <1>14 DEF TypeOK, Stages, Completes, Executed, Goto
<1>15. CASE EmptyWorkflow
    BY <1>15 DEF TypeOK, Stages, EmptyWorkflow, Executed, Goto
<1>16. CASE CleanupBackgrounds
    BY <1>16 DEF TypeOK, Stages, CleanupBackgrounds, Goto
<1>17. CASE SafeOff
    BY <1>17 DEF TypeOK, Stages, SafeOff, Open
<1>18. CASE SafeOffEnds
    BY <1>18 DEF TypeOK, Stages, SafeOffEnds, Goto
<1>19. CASE ShutdownWorker
    BY <1>19 DEF TypeOK, Stages, ShutdownWorker, Open
<1>20. CASE Return
    BY <1>20 DEF TypeOK, Stages, Return
<1>21. CASE RequestStop
    BY <1>21 DEF TypeOK, Stages, RequestStop
<1>22. CASE SignalFailure
    BY <1>22 DEF TypeOK, Stages, SignalFailure
<1>23. CASE UNCHANGED vars
    BY <1>23 DEF TypeOK, Stages, vars
<1>24. QED
    BY <1>1, <1>2, <1>3, <1>4, <1>5, <1>6, <1>7, <1>8, <1>9, <1>10, <1>11, <1>12, <1>13, <1>14, <1>15, <1>16, <1>17, <1>18, <1>19, <1>20, <1>21, <1>22, <1>23 DEF Next, Thread

(* Every step keeps the account of the power supplies. *)
LEMMA SafetyStep ==
    ASSUME TypeOK, Stages, Safety, [Next]_vars
    PROVE  Safety'
<1> USE InstancesAssumption DEF Instances
<1>1. CASE StartWorker
    BY <1>1 DEF TypeOK, Stages, Safety, Tried, StartWorker
<1>2. CASE StartFails
    BY <1>2 DEF TypeOK, Stages, Safety, Tried, StartFails, Goto
<1>3. CASE StartEnds
    BY <1>3 DEF TypeOK, Stages, Safety, Tried, StartEnds, Goto
<1>4. CASE SetupTool
    BY <1>4 DEF TypeOK, Stages, Safety, Tried, SetupTool, Open, SafedOutputs
<1>5. CASE SetupInterrupted
    BY <1>5 DEF TypeOK, Stages, Safety, Tried, SetupInterrupted, Open, SafedOutputs
<1>6. CASE SetupFails
    BY <1>6 DEF TypeOK, Stages, Safety, Tried, SetupFails, Goto, Open, SafedOutputs
<1>7. CASE SetupEnds
    BY <1>7 DEF TypeOK, Stages, Safety, Tried, SetupEnds, Goto, Open
<1>8. CASE CheckpointStops
    BY <1>8 DEF TypeOK, Stages, Safety, Tried, CheckpointStops, Executed, Goto
<1>9. CASE CheckpointFails
    BY <1>9 DEF TypeOK, Stages, Safety, Tried, CheckpointFails, Executed, Goto
<1>10. CASE CheckpointPasses
    BY <1>10 DEF TypeOK, Stages, Safety, Tried, CheckpointPasses
<1>11. CASE StepSucceeds
    BY <1>11 DEF TypeOK, Stages, Safety, Tried, StepSucceeds, Open
<1>12. CASE StepFails
    BY <1>12 DEF TypeOK, Stages, Safety, Tried, StepFails, Executed, Open, Goto
<1>13. CASE WaitCancelled
    BY <1>13 DEF TypeOK, Stages, Safety, Tried, WaitCancelled, Executed, Goto
<1>14. CASE Completes
    BY <1>14 DEF TypeOK, Stages, Safety, Tried, Completes, Executed, Goto
<1>15. CASE EmptyWorkflow
    BY <1>15 DEF TypeOK, Stages, Safety, Tried, EmptyWorkflow, Executed, Goto
<1>16. CASE CleanupBackgrounds
    BY <1>16 DEF TypeOK, Stages, Safety, Tried, CleanupBackgrounds, Goto
<1>17. CASE SafeOff
    BY <1>17 DEF TypeOK, Stages, Safety, Tried, SafeOff, Open
<1>18. CASE SafeOffEnds
    BY <1>18 DEF TypeOK, Stages, Safety, Tried, SafeOffEnds, Goto
<1>19. CASE ShutdownWorker
    BY <1>19 DEF TypeOK, Stages, Safety, Tried, ShutdownWorker, Open
<1>20. CASE Return
    BY <1>20 DEF TypeOK, Stages, Safety, Tried, Return
<1>21. CASE RequestStop
    BY <1>21 DEF TypeOK, Stages, Safety, Tried, RequestStop
<1>22. CASE SignalFailure
    BY <1>22 DEF TypeOK, Stages, Safety, Tried, SignalFailure
<1>23. CASE UNCHANGED vars
    BY <1>23 DEF TypeOK, Stages, Safety, Tried, vars
<1>24. QED
    BY <1>1, <1>2, <1>3, <1>4, <1>5, <1>6, <1>7, <1>8, <1>9, <1>10, <1>11, <1>12, <1>13, <1>14, <1>15, <1>16, <1>17, <1>18, <1>19, <1>20, <1>21, <1>22, <1>23 DEF Next, Thread

(* Every step keeps the causes and the variables together. *)
LEMMA AccountsStep ==
    ASSUME TypeOK, Accounts, [Next]_vars
    PROVE  Accounts'
<1> USE InstancesAssumption DEF Instances
<1>1. CASE StartWorker
    BY <1>1 DEF TypeOK, Accounts, ExecutionFailed, StartWorker
<1>2. CASE StartFails
    BY <1>2 DEF TypeOK, Accounts, ExecutionFailed, StartFails, Goto
<1>3. CASE StartEnds
    BY <1>3 DEF TypeOK, Accounts, ExecutionFailed, StartEnds, Goto
<1>4. CASE SetupTool
    BY <1>4 DEF TypeOK, Accounts, ExecutionFailed, SetupTool, Open, SafedOutputs
<1>5. CASE SetupInterrupted
    BY <1>5 DEF TypeOK, Accounts, ExecutionFailed, SetupInterrupted, Open, SafedOutputs
<1>6. CASE SetupFails
    BY <1>6 DEF TypeOK, Accounts, ExecutionFailed, SetupFails, Goto, Open, SafedOutputs
<1>7. CASE SetupEnds
    BY <1>7 DEF TypeOK, Accounts, ExecutionFailed, SetupEnds, Goto, Open
<1>8. CASE CheckpointStops
    BY <1>8 DEF TypeOK, Accounts, ExecutionFailed, CheckpointStops, Executed, Goto
<1>9. CASE CheckpointFails
    BY <1>9 DEF TypeOK, Accounts, ExecutionFailed, CheckpointFails, Executed, Goto
<1>10. CASE CheckpointPasses
    BY <1>10 DEF TypeOK, Accounts, ExecutionFailed, CheckpointPasses
<1>11. CASE StepSucceeds
    BY <1>11 DEF TypeOK, Accounts, ExecutionFailed, StepSucceeds, Open
<1>12. CASE StepFails
    BY <1>12 DEF TypeOK, Accounts, ExecutionFailed, StepFails, Executed, Open, Goto
<1>13. CASE WaitCancelled
    BY <1>13 DEF TypeOK, Accounts, ExecutionFailed, WaitCancelled, Executed, Goto
<1>14. CASE Completes
    BY <1>14 DEF TypeOK, Accounts, ExecutionFailed, Completes, Executed, Goto
<1>15. CASE EmptyWorkflow
    BY <1>15 DEF TypeOK, Accounts, ExecutionFailed, EmptyWorkflow, Executed, Goto
<1>16. CASE CleanupBackgrounds
    BY <1>16 DEF TypeOK, Accounts, ExecutionFailed, CleanupBackgrounds, Goto
<1>17. CASE SafeOff
    BY <1>17 DEF TypeOK, Accounts, ExecutionFailed, SafeOff, Open
<1>18. CASE SafeOffEnds
    BY <1>18 DEF TypeOK, Accounts, ExecutionFailed, SafeOffEnds, Goto
<1>19. CASE ShutdownWorker
    BY <1>19 DEF TypeOK, Accounts, ExecutionFailed, ShutdownWorker, Open
<1>20. CASE Return
    BY <1>20 DEF TypeOK, Accounts, Return, Returned, PriorFailure, StepCause, Early, ExecutionFailed
<1>21. CASE RequestStop
    BY <1>21 DEF TypeOK, Accounts, ExecutionFailed, RequestStop
<1>22. CASE SignalFailure
    BY <1>22 DEF TypeOK, Accounts, ExecutionFailed, SignalFailure
<1>23. CASE UNCHANGED vars
    BY <1>23 DEF TypeOK, Accounts, vars, Returned, PriorFailure, StepCause, Early, ExecutionFailed
<1>24. QED
    BY <1>1, <1>2, <1>3, <1>4, <1>5, <1>6, <1>7, <1>8, <1>9, <1>10, <1>11, <1>12, <1>13, <1>14, <1>15, <1>16, <1>17, <1>18, <1>19, <1>20, <1>21, <1>22, <1>23 DEF Next, Thread

-----------------------------------------------------------------------------
(* What the steps keep holds of every run, whatever the instances. *)
THEOREM Invariance == Spec => []IInv
<1>1. Init => IInv
    <2> SUFFICES ASSUME Init PROVE TypeOK /\ Stages /\ Safety /\ Accounts
        BY DEF IInv
    <2>1. TypeOK
        <3>1. i \in 1 .. N + 1 /\ result.named = {}
            BY InstancesAssumption DEF Init, NoResult
        <3>2. session \in [Instances -> {"none", "open", "closed"}]
            BY DEF Init
        <3>3. QED
            BY <3>1, <3>2 DEF Init, TypeOK
    <2>2. Stages
        BY InstancesAssumption DEF Init, Stages, Instances
    <2>3. Safety
        BY DEF Init, Safety
    <2>4. Accounts
        BY DEF Init, Accounts, ExecutionFailed
    <2>5. QED
        BY <2>1, <2>2, <2>3, <2>4
<1>2. IInv /\ [Next]_vars => IInv'
    BY TypeStep, StagesStep, SafetyStep, AccountsStep DEF IInv
<1>3. QED
    BY <1>1, <1>2, PTL DEF Spec

(* Type correctness: in particular the loops over the instances never leave *)
(* their range, and a result names causes only.                             *)
THEOREM TypeCorrect == Spec => []TypeOK
<1>1. IInv => TypeOK
    BY DEF IInv
<1>2. QED
    BY <1>1, Invariance, PTL

(* No step runs unless every Worker was started and every Tool set up: a    *)
(* stop request during start-up cuts the loops of run_workflow_internal     *)
(* short, and then the executor's first checkpoint lets no step begin.      *)
THEOREM SetupBeforeSteps == Spec => []NoStepOnHalfSetup
<1>1. IInv => NoStepOnHalfSetup
    BY DEF IInv, Stages, NoStepOnHalfSetup
<1>2. QED
    BY <1>1, Invariance, PTL

(* However a run ends, each power supply whose Worker was started is asked  *)
(* to switch off after the last step, and the error of one that did not is  *)
(* in the result (cleanup_powers and SafetyCleanup).                        *)
THEOREM SafetyOfPowers == Spec => []SafeEnd
<1>1. IInv => SafeEnd
    <2> SUFFICES ASSUME IInv, NEW t \in Powers, session[t] = "closed"
                 PROVE  /\ t \in attempted
                        /\ output[t] = "off" \/ "safety" \in causes
                        /\ pc = "returned" => output[t] = "off" \/ "safety" \in result.named
        BY DEF SafeEnd
    <2>1. pc \in {"shutdown", "returned"}
        BY InstancesAssumption DEF IInv, Stages, Instances
    <2>2. Tried(t)
        BY <2>1 DEF IInv, Safety
    <2>3. ASSUME pc = "returned", "safety" \in causes
          PROVE  "safety" \in result.named
        BY <2>3 DEF IInv, Accounts, Returned
    <2>4. QED
        BY <2>2, <2>3 DEF Tried
<1>2. QED
    BY <1>1, Invariance, PTL

(* A run returns no Worker process alive: shutdown_workers consumes every   *)
(* session, on every path to the end.                                       *)
THEOREM WorkersAreShutDown == Spec => []NoWorkerLeft
<1>1. IInv => NoWorkerLeft
    BY DEF IInv, Stages, NoWorkerLeft
<1>2. QED
    BY <1>1, Invariance, PTL

(* However a run ends, the bench it leaves has its supplies off or          *)
(* reported, and none of its Workers alive (run.rs, safe_off_powers and     *)
(* shutdown_workers).                                                       *)
THEOREM BenchIsLeftSafe == Spec => []EndsSafely
<1>1. SafeEnd /\ NoWorkerLeft => EndsSafely
    BY DEF EndsSafely
<1>2. QED
    BY <1>1, SafetyOfPowers, WorkersAreShutDown, PTL

(* The result agrees with what happened: a summary hides no failure, and an *)
(* error names a cause, and only causes that occurred.                      *)
THEOREM ResultIsHonest == Spec => []HonestResult
<1>1. IInv => HonestResult
    <2> SUFFICES ASSUME IInv, pc = "returned"
                 PROVE  /\ result.kind = "summary" =>
                            /\ causes \subseteq result.named
                            /\ execution = "ok" => prepared = Instances
                        /\ result.kind # "summary" => result.named # {}
                        /\ result.named \subseteq causes
        BY DEF HonestResult
    <2>1. result = Returned
        BY DEF IInv, Accounts
    <2>2. execution = "ok" => prepared = Instances
        BY DEF IInv, Stages
    <2>3. ASSUME Returned.kind = "summary"
          PROVE  causes \subseteq Returned.named
        <3>1. /\ Early = {} /\ ~safety /\ ~failure
              /\ "background" \notin causes /\ "shutdown" \notin causes
              /\ Returned.named = StepCause
            BY <2>3 DEF Returned
        <3>2. "startup" \notin causes /\ "setup" \notin causes
            BY <3>1 DEF Early
        <3>3. "safety" \notin causes /\ "signal" \notin causes
            BY <3>1 DEF IInv, Accounts
        <3>4. causes \subseteq {"step"}
            BY <3>1, <3>2, <3>3 DEF IInv, TypeOK, Causes
        <3>5. "step" \in causes => StepCause = {"step"}
            BY DEF IInv, Accounts, StepCause
        <3>6. QED
            BY <3>1, <3>4, <3>5
    <2>4. QED
        BY <2>1, <2>2, <2>3, ReturnedIsHonest DEF IInv
<1>2. QED
    BY <1>1, Invariance, PTL
=============================================================================
