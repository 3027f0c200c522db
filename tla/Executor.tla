------------------------------ MODULE Executor ------------------------------
(***************************************************************************)
(* The workflow executor (src/executor.rs, Execution): it walks a tree of  *)
(* steps, If branches and loops by mutual recursion of scope, run_steps,   *)
(* run_branch and run_loop.  Here the recursion is an explicit stack, one  *)
(* frame per running block, and a value on its way out of the blocks       *)
(* (Ok(ControlFlow) or Err) is the variable flow.                          *)
(*                                                                         *)
(* While it runs, the operator may stop the workflow or ask for one loop   *)
(* to stop (the desktop's single slot, consume_loop_stop), and another     *)
(* part of the run may signal a failure.  A value is known by the place it *)
(* was computed at: the step, and the iterations it was in.                *)
(***************************************************************************)
EXTENDS Naturals, Sequences, SequencesExt

CONSTANTS Steps, Variables, Pages, None,
          Root,        \* the workflow's steps, a sequence
          Kind,        \* Kind[s]: "set", "output", "act", "wait", "if", "for", "while"
          Body, Else,  \* the blocks of a loop or of an If
          Variable,    \* Variable[s]: what a "set" assigns and a "for" binds
          Page,        \* Page[s]: the Page of an "output"
          Limit        \* Limit[s]: values of a For's range, max_iterations of a While

Loops == {s \in Steps : Kind[s] \in {"for", "while"}}

Ifs == {s \in Steps : Kind[s] = "if"}

Children(s) == Range(Body[s]) \cup Range(Else[s])

(* The steps of a block and of the blocks inside it that inner reaches; a   *)
(* workflow nests eight levels deep at most.                                *)
Deeper(S, inner) == S \cup UNION {Children(s) : s \in S \cap inner}

Inside(block, inner) ==
    LET d(S) == Deeper(S, inner) IN d(d(d(d(d(d(d(d(Range(block)))))))))

Ancestors(s) == {l \in Loops : s \in Inside(Body[l], Steps)}

Blocks == {Root} \cup {Body[s] : s \in Steps} \cup {Else[s] : s \in Steps}

(* Where a value was computed: the iterations around it, outermost first.   *)
Occurrence == Seq(Loops \X Nat)

(* What Workflow::new accepts: no id is used twice and no step is inside    *)
(* itself, blocks nest eight levels deep at most, a For variable is not     *)
(* assigned in its loop, and a Page belongs to one lexical path of loops.   *)
ASSUME ProgramAssumption ==
    /\ Root \in Seq(Steps) /\ Root # <<>>
    /\ Kind \in [Steps -> {"set", "output", "act", "wait", "if", "for", "while"}]
    /\ Body \in [Steps -> Seq(Steps)] /\ Else \in [Steps -> Seq(Steps)]
    /\ \A s \in Steps : \E b \in Blocks : s \in Range(b)
    /\ \A s, t \in Steps : s # t => Children(s) \cap Children(t) = {}
    /\ \A s \in Steps : Children(s) \cap Range(Root) = {}
    /\ \A s \in Steps : Range(Body[s]) \cap Range(Else[s]) = {}
    /\ \A b \in Blocks : IsInjective(b)
    /\ \A s \in Steps : s \notin Inside(Body[s], Steps) \cup Inside(Else[s], Steps)
    /\ \A b \in Blocks, inner \in {Steps, Ifs} :
            Deeper(Inside(b, inner), inner) = Inside(b, inner)
    /\ \A s \in Steps : Kind[s] \in {"set", "for"} => Variable[s] \in Variables
    /\ \A s, l \in Steps : Kind[s] = "set" /\ Kind[l] = "for" /\ l \in Ancestors(s)
            => Variable[s] # Variable[l]
    /\ \A s \in Steps : Kind[s] = "output" => Page[s] \in Pages
    /\ \A s, t \in Steps : Kind[s] = "output" /\ Kind[t] = "output" /\ Page[s] = Page[t]
            => Ancestors(s) = Ancestors(t)
    /\ \A l \in Loops : Limit[l] \in Nat \ {0}

(* The marks of this model are no data of it: None is not a value and not a *)
(* place, and a step's name is not an ending.                               *)
ASSUME MarksAreFresh ==
    /\ None \notin Steps \X Occurrence /\ None \notin Occurrence
    /\ None \notin Steps /\ None \notin Pages /\ None # "signal"
    /\ {"continue", "stopped", "err", "signal"} \cap Steps = {}

VARIABLES
    pc,            \* what the executor does next, see Next
    frames,        \* the running blocks, innermost last
    flow,          \* what the last block returned
    variables,     \* DataContext.variables
    step_outputs,  \* DataContext.step_outputs: where each was computed
    executions,    \* the StepExecutions reported, with their full path
    rows,          \* the ResultRows committed, with their full path
    failure,       \* Execution.failure: the step or signal it names
    stop,          \* WorkflowStop: requested
    signal,        \* RunFailure: signalled
    request,       \* the desktop's loop_stop slot
    late,          \* history: leaf steps that ended after the stop request
    again          \* history: iterations begun by each loop while request
                   \* named an active loop, since it was made

world == <<stop, signal, request>>
history == <<late, again>>
vars == <<pc, frames, flow, variables, step_outputs, executions, rows, failure,
          stop, signal, request, late, again>>

Nothing == [v \in Variables |-> None]

(* path holds the iterations around the block, previous the binding a For   *)
(* has shadowed.  scope is a history: the variables a block has declared    *)
(* itself, as a lexical scope would.                                        *)
Frame(kind, owner, steps, path, previous, inherited) ==
    [kind |-> kind, owner |-> owner, steps |-> steps, path |-> path, at |-> 1, index |-> 0,
     staged |-> <<>>, previous |-> previous, inherited |-> inherited,
     scope |-> Nothing]

Init ==
    /\ pc = "step"
    /\ frames = <<Frame("root", None, Root, <<>>, None, {})>>
    /\ flow = "continue"
    /\ variables = Nothing
    /\ step_outputs = [s \in Steps |-> None]
    /\ executions = <<>> /\ rows = <<>> /\ failure = None
    /\ stop = FALSE /\ signal = FALSE /\ request = None
    /\ late = 0 /\ again = [l \in Loops |-> 0]

-----------------------------------------------------------------------------
Depth == Len(frames)
Top == frames[Depth]
AtEnd == Top.at > Len(Top.steps)
Current == Top.steps[Top.at]

IsLoop(f) == f.kind = "loop"

(* The iterations the steps of a block are in: a loop adds one to those     *)
(* around it.                                                               *)
Place(f) == IF IsLoop(f) THEN Append(f.path, <<f.owner, f.index>>) ELSE f.path

Path(stack) == Place(stack[Len(stack)])

InLoop(l) == \E k \in DOMAIN frames : IsLoop(frames[k]) /\ frames[k].owner = l

(* Bug to rule out: a branch stages its Outputs in a row of its own. *)
StageInBlock(stack) == Len(stack)

(* The scope whose row a block contributes to: an If has none of its own.   *)
ScopeOf(stack) == CHOOSE k \in DOMAIN stack :
    /\ stack[k].kind # "branch"
    /\ \A j \in k + 1 .. Len(stack) : stack[j].kind = "branch"

(* The staged rows, one per Page in order of the first Output. *)
Staged(staged, s) ==
    IF \E k \in DOMAIN staged : staged[k].page = Page[s]
    THEN [k \in DOMAIN staged |->
            IF staged[k].page = Page[s]
            THEN [staged[k] EXCEPT !.outputs = Append(@, s)] ELSE staged[k]]
    ELSE Append(staged, [page |-> Page[s], outputs |-> <<s>>])

(* leave_variable_scope *)
leave_variable_scope(data, inherited) ==
    [v \in Variables |-> IF v \in inherited THEN data[v] ELSE None]

variable_scope(data) == {v \in Variables : data[v] # None}

(* Bug to rule out: outputs stay until they are overwritten. *)
KeepOutputs(outputs, steps) == outputs

(* clear_body_step_outputs, clear_branch_step_outputs *)
clear_step_outputs(outputs, steps) ==
    [s \in Steps |-> IF s \in steps THEN None ELSE outputs[s]]

(* A step ends, in the top frame of stack, with ending: "continue" and a    *)
(* loop to unwind to are successes, "stopped" is Cancelled, "err" Failed.   *)
Outcome(ending) == CASE ending = "err" -> "failed"
                     [] ending = "stopped" -> "cancelled"
                     [] OTHER -> "succeeded"

Complete(stack, outputs, s, ending, cause) ==
    LET done == Outcome(ending) = "succeeded" IN
    /\ executions' = Append(executions,
            [step |-> s, path |-> Path(stack), outcome |-> Outcome(ending)])
    /\ step_outputs' = IF done THEN [outputs EXCEPT ![s] = Path(stack)] ELSE outputs
    /\ failure' = IF ending = "err" /\ failure = None THEN cause ELSE failure
    /\ frames' = IF done THEN [stack EXCEPT ![Len(stack)].at = @ + 1] ELSE stack
    /\ flow' = ending
    /\ pc' = IF ending = "continue" THEN "step" ELSE "return"

Returns(result) == flow' = result /\ pc' = "return"

-----------------------------------------------------------------------------
(* The operator and the rest of the run.                                    *)
Running == pc # "done"

RequestStop ==
    /\ Running /\ ~stop /\ stop' = TRUE
    /\ UNCHANGED <<pc, frames, flow, variables, step_outputs, executions, rows,
                   failure, signal, request, late, again>>

SignalFailure ==
    /\ Running /\ ~signal /\ signal' = TRUE
    /\ UNCHANGED <<pc, frames, flow, variables, step_outputs, executions, rows,
                   failure, stop, request, late, again>>

(* ActiveRun::request: the slot is overwritten, whatever it held. *)
RequestLoopStop(l) ==
    /\ Running
    /\ request' = l
    /\ again' = [m \in Loops |-> 0]
    /\ UNCHANGED <<pc, frames, flow, variables, step_outputs, executions, rows,
                   failure, stop, signal, late>>

-----------------------------------------------------------------------------
(* run_steps: the checkpoint before a step.                                 *)

(* Bug to rule out: only loops look at the stop request. *)
CheckpointBlind == FALSE

CheckpointStops == ~signal /\ stop

StopAtStep ==
    /\ pc = "step" /\ ~AtEnd /\ CheckpointStops
    /\ Returns("stopped")
    /\ UNCHANGED <<frames, variables, step_outputs, executions, rows, failure,
                   world, history>>

FailAtStep ==
    /\ pc = "step" /\ ~AtEnd /\ signal
    /\ Complete(frames, step_outputs, Current, "err", Current)
    /\ UNCHANGED <<variables, rows, world, history>>

Begins(s) == pc = "step" /\ ~AtEnd /\ ~signal /\ ~CheckpointStops /\ s = Current

BeginLeaf(s) ==
    /\ Begins(s) /\ Kind[s] \notin {"if", "for", "while"}
    /\ pc' = "busy"
    /\ UNCHANGED <<frames, flow, variables, step_outputs, executions, rows,
                   failure, world, history>>

(* The condition is resolved, to true, to false or to an error. *)
BeginIf(s) ==
    /\ Begins(s) /\ Kind[s] = "if"
    /\ \/ /\ \E steps \in {Body[s], Else[s]} :
                frames' = Append(frames,
                    Frame("branch", s, steps, Path(frames), None,
                          variable_scope(variables)))
          /\ UNCHANGED <<pc, flow, step_outputs, executions, failure>>
       \/ Complete(frames, step_outputs, s, "err", s)
    /\ UNCHANGED <<variables, rows, world, history>>

BeginLoop(s) ==
    /\ Begins(s) /\ s \in Loops
    /\ LET previous == IF Kind[s] = "for" THEN variables[Variable[s]] ELSE None IN
       frames' = Append(frames, Frame("loop", s, Body[s], Path(frames), previous, {}))
    /\ pc' = "next"
    /\ UNCHANGED <<flow, variables, step_outputs, executions, rows, failure,
                   world, history>>

(* A leaf step ends.  A set variable is declared by its block, unless an    *)
(* enclosing one has it.                                                    *)
Assign(v, value) ==
    LET declares(k) == frames[k].scope[v] # None
        home == IF \E k \in DOMAIN frames : declares(k)
                THEN CHOOSE k \in DOMAIN frames :
                        declares(k) /\ \A j \in k + 1 .. Depth : ~declares(j)
                ELSE Depth
    IN /\ variables' = [variables EXCEPT ![v] = value]
       /\ Complete([frames EXCEPT ![home].scope[v] = value],
                   step_outputs, Current, "continue", None)

EndLeaf ==
    /\ pc = "busy"
    /\ LET s == Current IN
       \/ /\ Kind[s] = "set"
          /\ Assign(Variable[s], <<s, Path(frames)>>)
       \/ /\ Kind[s] = "output"
          /\ LET k == ScopeOf(frames) IN
             Complete([frames EXCEPT ![k].staged = Staged(frames[k].staged, s)],
                      step_outputs, s, "continue", None)
          /\ UNCHANGED variables
       \/ /\ Kind[s] \in {"act", "wait"} /\ (Kind[s] = "wait" => ~signal)
          /\ Complete(frames, step_outputs, s, "continue", None)
          /\ UNCHANGED variables
       \/ /\ Kind[s] # "wait" \/ signal
          /\ Complete(frames, step_outputs, s, "err", s)
          /\ UNCHANGED variables
       \/ /\ Kind[s] = "wait" /\ stop /\ ~signal
          /\ Complete(frames, step_outputs, s, "stopped", None)
          /\ UNCHANGED variables
    /\ late' = IF stop THEN late + 1 ELSE late
    /\ UNCHANGED <<rows, world, again>>

-----------------------------------------------------------------------------
(* scope: the end of a block, the commit of its rows, the loop stops.       *)
EndBlock ==
    /\ pc = "step" /\ AtEnd
    /\ IF Top.kind = "branch"
       THEN Returns("continue") /\ UNCHANGED frames
       ELSE /\ pc' = "commit" /\ UNCHANGED flow
            /\ frames' = IF Pages = {} /\ Top.kind = "root"
                         THEN [frames EXCEPT ![Depth].staged =
                                    <<[page |-> None, outputs |-> <<>>]>>]
                         ELSE frames
    /\ UNCHANGED <<variables, step_outputs, executions, rows, failure, world, history>>

(* Bug to rule out: a failure found at a commit is returned, not recorded.  *)
CommitUnrecorded == failure

CommitFailure == IF failure = None THEN "signal" ELSE failure

(* One row per Page; a failure is looked for after each. *)
CommitRow ==
    /\ pc = "commit" /\ Top.staged # <<>>
    /\ rows' = Append(rows, [page |-> Head(Top.staged).page, path |-> Path(frames),
                             outputs |-> Head(Top.staged).outputs])
    /\ frames' = [frames EXCEPT ![Depth].staged = Tail(@)]
    /\ IF signal
       THEN failure' = CommitFailure /\ Returns("err")
       ELSE UNCHANGED <<failure, flow, pc>>
    /\ UNCHANGED <<variables, step_outputs, executions, world, history>>

(* Bug to rule out: only the innermost loop is asked. *)
StopsInnermost == request = Top.owner

(* Every loop of the path is asked; the slot names at most one of them. *)
StopsLoop == InLoop(request)

CommitEnds ==
    /\ pc = "commit" /\ Top.staged = <<>>
    /\ IF ~stop /\ StopsLoop
       THEN Returns(request) /\ request' = None
       ELSE Returns("continue") /\ UNCHANGED request
    /\ UNCHANGED <<frames, variables, step_outputs, executions, rows, failure,
                   stop, signal, history>>

-----------------------------------------------------------------------------
(* A block has returned flow.                                               *)

(* run_branch, and the If it belongs to. *)
ReturnBranch ==
    /\ pc = "return" /\ Top.kind = "branch"
    /\ variables' = leave_variable_scope(variables, Top.inherited)
    /\ Complete(Front(frames),
                clear_step_outputs(step_outputs, Inside(Top.steps, Ifs)),
                Top.owner, flow, Top.owner)
    /\ UNCHANGED <<rows, world, history>>

(* Bug to rule out: the variable stays bound as its For left it. *)
ForgetPrevious(data, f) == data

(* The end of run_loop: a For's variable is what it was before. *)
restored(data, f) ==
    IF Kind[f.owner] = "for" THEN [data EXCEPT ![Variable[f.owner]] = f.previous] ELSE data

(* Bug to rule out: a loop stop also ends what is around its loop. *)
EndingOutwards(l, result) == result

(* A loop stop ends at its own loop; everything else goes on outwards. *)
Ending(l, result) == IF result = l THEN "continue" ELSE result

LeaveLoop(data, result, cause) ==
    /\ variables' = restored(data, Top)
    /\ Complete(Front(frames), clear_step_outputs(step_outputs, Range(Top.steps)),
                Top.owner, Ending(Top.owner, result), cause)

ReturnIteration ==
    /\ pc = "return" /\ Top.kind = "loop"
    /\ LET data == leave_variable_scope(variables, Top.inherited) IN
       IF flow = "continue"
       THEN /\ variables' = data
            /\ frames' = [frames EXCEPT ![Depth] = [Top EXCEPT
                    !.index = Top.index + 1,
                    !.scope = leave_variable_scope(Top.scope, Top.inherited)]]
            /\ pc' = "next"
            /\ UNCHANGED <<flow, step_outputs, executions, failure>>
       ELSE LeaveLoop(data, flow, Top.owner)
    /\ UNCHANGED <<rows, world, history>>

ReturnRoot ==
    /\ pc = "return" /\ Top.kind = "root"
    /\ pc' = "done"
    /\ UNCHANGED <<frames, flow, variables, step_outputs, executions, rows,
                   failure, world, history>>

-----------------------------------------------------------------------------
(* run_loop, before an iteration.                                           *)
Exhausted(l) == Kind[l] = "for" /\ Top.index >= Limit[l]

(* The range is exhausted, or the While condition is false. *)
LoopEnds ==
    /\ pc = "next"
    /\ Kind[Top.owner] = "for" => Exhausted(Top.owner)
    /\ LeaveLoop(variables, "continue", None)
    /\ UNCHANGED <<rows, world, history>>

(* The condition of a While, or the failure signal, or max_iterations. *)
LoopFails ==
    /\ pc = "next" /\ ~Exhausted(Top.owner)
    /\ \/ /\ Kind[Top.owner] = "while"
          /\ LeaveLoop(variables, "err", Top.owner)
       \/ /\ signal
          /\ LeaveLoop(variables, "err", "signal")
    /\ UNCHANGED <<rows, world, history>>

LoopStopped ==
    /\ pc = "next" /\ ~Exhausted(Top.owner) /\ ~signal /\ stop
    /\ LeaveLoop(variables, "stopped", None)
    /\ UNCHANGED <<rows, world, history>>

BeginIteration ==
    /\ pc = "next" /\ ~signal /\ ~stop
    /\ Top.index < Limit[Top.owner]
    /\ LET l == Top.owner
           value == <<l, Path(frames)>>
           data == IF Kind[l] = "for" THEN [variables EXCEPT ![Variable[l]] = value]
                   ELSE variables
       IN /\ variables' = data
          /\ frames' = [frames EXCEPT ![Depth] =
                [Top EXCEPT !.at = 1, !.staged = <<>>, !.inherited = variable_scope(data),
                          !.scope = IF Kind[l] = "for"
                                    THEN [Nothing EXCEPT ![Variable[l]] = value]
                                    ELSE Nothing]]
          /\ step_outputs' = clear_step_outputs(step_outputs, Range(Body[l]))
          /\ again' = IF InLoop(request) THEN [again EXCEPT ![l] = @ + 1] ELSE again
    /\ pc' = "step"
    /\ UNCHANGED <<flow, executions, rows, failure, world, late>>

Finished == pc = "done" /\ UNCHANGED vars

Execute ==
    \/ StopAtStep \/ FailAtStep
    \/ \E s \in Steps : BeginLeaf(s) \/ BeginIf(s) \/ BeginLoop(s)
    \/ EndLeaf \/ EndBlock \/ CommitRow \/ CommitEnds
    \/ ReturnBranch \/ ReturnIteration \/ ReturnRoot
    \/ LoopEnds \/ LoopFails \/ LoopStopped \/ BeginIteration

Next ==
    \/ Execute
    \/ RequestStop \/ SignalFailure \/ \E l \in Loops : RequestLoopStop(l)
    \/ Finished

Spec == Init /\ [][Next]_vars

-----------------------------------------------------------------------------
(* What Workflow::new lets a step refer to (workflow.rs, validate_steps):   *)
(* the earlier steps of its own block and of the blocks around it, and the  *)
(* variables these set or bind.  Frames 1 to depth are the blocks.          *)

prior(depth) ==
    UNION {{frames[k].steps[j] : j \in 1 .. frames[k].at - 1} : k \in 1 .. depth}

prior_variables(depth) ==
    {Variable[s] : s \in {t \in prior(depth) : Kind[t] = "set"}}
    \cup {Variable[frames[k].owner] :
            k \in {j \in 1 .. depth : IsLoop(frames[j]) /\ Kind[frames[j].owner] = "for"}}

-----------------------------------------------------------------------------
Value == (Steps \X Occurrence) \cup {None}

Block == [kind : {"root", "branch", "loop"}, owner : Steps \cup {None},
          steps : Seq(Steps), path : Occurrence, at : Nat \ {0}, index : Nat,
          staged : Seq([page : Pages \cup {None}, outputs : Seq(Steps)]),
          previous : Value, inherited : SUBSET Variables, scope : [Variables -> Value]]

Execution == [step : Steps, path : Occurrence, outcome : {"succeeded", "failed", "cancelled"}]

(* The shape of every variable. *)
TypeOK ==
    /\ pc \in {"step", "busy", "commit", "return", "next", "done"}
    /\ frames \in Seq(Block) /\ frames # <<>>
    /\ flow \in {"continue", "stopped", "err"} \cup Loops
    /\ variables \in [Variables -> Value]
    /\ step_outputs \in [Steps -> Occurrence \cup {None}]
    /\ executions \in Seq(Execution)
    /\ rows \in Seq([page : Pages \cup {None}, path : Occurrence, outputs : Seq(Steps)])
    /\ failure \in Steps \cup {"signal", None}
    /\ stop \in BOOLEAN /\ signal \in BOOLEAN /\ request \in Loops \cup {None}
    /\ late \in Nat /\ again \in [Loops -> Nat]

(* What a template was accepted for: where a step runs or a While condition *)
(* is evaluated, every variable and every output it may refer to is there,  *)
(* so that no run ends in a MissingVariable or MissingStepOutput; and where *)
(* a step runs nothing else is there, from another branch, from an earlier  *)
(* iteration or from a loop that is over.                                   *)
Available == {s \in Steps : step_outputs[s] # None}

ReferencesResolve ==
    /\ pc \in {"step", "busy"} =>
        variable_scope(variables) = prior_variables(Depth) /\ Available = prior(Depth)
    /\ pc = "next" =>
        /\ prior_variables(Depth - 1) \subseteq variable_scope(variables)
        /\ prior(Depth - 1) \subseteq Available

(* One flat map of variables, saved and restored by hand, holds at every    *)
(* moment what a stack of lexical scopes would: assignments to an enclosing *)
(* variable last, a shadowed binding comes back after success, failure or   *)
(* stop.  And an output that can be read is of the current iteration.       *)
Lookup(v) ==
    LET declaring == {k \in DOMAIN frames : frames[k].scope[v] # None} IN
    IF declaring = {} THEN None ELSE frames[Max(declaring)].scope[v]

DataIsLexical ==
    /\ \A v \in Variables : variables[v] = Lookup(v)
    /\ \A k \in 1 .. IF pc = "next" THEN Depth - 1 ELSE Depth :
       \A j \in 1 .. frames[k].at - 1 :
        step_outputs[frames[k].steps[j]] = Place(frames[k])

(* A step reads what the Template means it to: what it refers to is there  *)
(* when it runs (execute_non_loop_step), and it is the value of the        *)
(* innermost iteration around it, however the blocks before it ended       *)
(* (restore_step_outputs_recursive, execute_for_range, execute_while).     *)
ReadsAreSound == ReferencesResolve /\ DataIsLexical

(* "Nested Page rows commit only after their entire owning iteration        *)
(* succeeds": a committed row holds just the Outputs of its Page that one   *)
(* iteration executed, the branches' included, in order; all steps of that  *)
(* iteration ended well; and no iteration commits two rows to a Page.       *)
StepsAt(path) ==
    {executions[k].step : k \in {j \in DOMAIN executions : executions[j].path = path}}

(* The Outputs of a Page that log holds for one iteration, in order.        *)
OutputsIn(log, page, path) ==
    LET counts(e) == e.path = path /\ Kind[e.step] = "output" /\ Page[e.step] = page
        taken[k \in 0 .. Len(log)] ==
            IF k = 0 THEN <<>>
            ELSE IF counts(log[k]) THEN Append(taken[k - 1], log[k].step)
            ELSE taken[k - 1]
    IN taken[Len(log)]

OutputsAt(page, path) == OutputsIn(executions, page, path)

BlockAt(path) == IF path = <<>> THEN Root ELSE Body[path[Len(path)][1]]

RowsAreWhole ==
    \A i \in DOMAIN rows : LET r == rows[i] IN
        /\ r.outputs = OutputsAt(r.page, r.path)
        /\ \A k \in DOMAIN executions :
                executions[k].path = r.path => executions[k].outcome = "succeeded"
        /\ Range(BlockAt(r.path)) \subseteq StepsAt(r.path)
        /\ \A j \in DOMAIN rows : j # i => <<rows[j].page, rows[j].path>> # <<r.page, r.path>>

(* How a run ends is how it went: an error is never lost on its way out     *)
(* through the blocks, a success has executed the whole workflow and        *)
(* committed its root rows, and a stopped run was stopped short of that.    *)
RootDone == Range(Root) \subseteq
    {executions[k].step : k \in {j \in DOMAIN executions :
                                    executions[j].outcome = "succeeded"}}

HonestVerdict ==
    pc = "done" =>
        /\ (flow = "err") = (failure # None)
        /\ flow = "stopped" => stop /\ ~RootDone
        /\ flow = "continue" =>
            /\ RootDone
            /\ \A p \in Pages : OutputsAt(p, <<>>) # <<>> =>
                \E i \in DOMAIN rows : rows[i].page = p /\ rows[i].path = <<>>
        /\ failure = "signal" => signal
        /\ failure \in Steps =>
            LET k == CHOOSE j \in DOMAIN executions :
                        /\ executions[j].outcome = "failed"
                        /\ \A h \in 1 .. j - 1 : executions[h].outcome # "failed"
            IN executions[k].step = failure

(* "No subsequent ordinary step or loop iteration starts": after a request  *)
(* to stop, at most the step that is running still ends.  "The active       *)
(* innermost iteration continues until its successful commit point.  The    *)
(* selected loop then unwinds": while a request names an active loop,       *)
(* neither it nor a loop inside it begins a second iteration.               *)
StopIsPrompt == late <= 1 /\ \A l \in Loops : again[l] <= 1

(* "A failed or incomplete workflow commits no root row."                   *)
NoRootRowOnFailure ==
    pc = "done" /\ flow # "continue" =>
        \A i \in DOMAIN rows : rows[i].path # <<>>
=============================================================================
