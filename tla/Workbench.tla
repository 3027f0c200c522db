--------------------------- MODULE Workbench ---------------------------
(***************************************************************************)
(* The preparation of a run from the first step written to the last Worker *)
(* started, and the instruments at work, in a number of scenes.  A scene   *)
(* says which steps the author may write and how many, which instances,    *)
(* backgrounds and charts the template has, what the configuration holds,  *)
(* and what happens once the document is as long as it gets: nothing, a    *)
(* run is prepared, the instruments are used, a Worker is talked to, the   *)
(* results of a run are looked at while they arrive, or a background has   *)
(* its source at work.                                                     *)
(***************************************************************************)
EXTENDS Bench, Replies, Feed

CONSTANT Scenes  \* name -> [alphabet, again, length, templates, configs,
                 \*          then, edits, trips, runs, asks, sessions, looks, feeds]

\* A step that may be written: what its action says in texts is bytes.
IsWritten(step) == StructuredStep(step) /\ (step.kind = "tool-action" => HasTextsOfBytes(step))

ASSUME ScenesAssumption ==
    \A name \in DOMAIN Scenes :
        /\ Scenes[name].length \in Nat /\ Writable(Scenes[name].alphabet)
        /\ \A step \in Scenes[name].alphabet : IsWritten(step)
        /\ \A t \in Scenes[name].templates : Structured(t)
        /\ Scenes[name].then = "feed" => Scenes[name].feeds # {}
        /\ \A config \in Scenes[name].feeds : Conforms(config)

VARIABLES
    scene,
    opened  \* the document has been accepted and is used; it changes no more

talk == <<peer, caller>>
results == <<stored, view>>
feeding == <<feed, source, plot, clock>>
vars == <<steps, check, template, desk, bench, talk, results, feeding, scene, opened>>

Init ==
    /\ scene \in DOMAIN Scenes
    /\ template \in Scenes[scene].templates
    /\ \E config \in Scenes[scene].configs : DeskInit(config, Scenes[scene].edits)
    /\ BenchInit(Scenes[scene].trips, Scenes[scene].runs, Scenes[scene].asks)
    /\ RepliesInit(Scenes[scene].sessions)
    /\ ResultsInit(Scenes[scene].looks)
    /\ FeedInit(Scenes[scene].feeds)
    /\ WorkflowInit
    /\ opened = FALSE

Writing ==
    /\ check.ok /\ Len(steps) < Scenes[scene].length
    /\ \/ \E step \in Scenes[scene].alphabet,
             id \in {Len(steps) + 1} \cup Scenes[scene].again :
             Read([step EXCEPT !.id = id])
       \/ ReadElse
       \/ ReadEnd
    /\ UNCHANGED <<template, desk, bench, talk, results, feeding, scene, opened>>

Open ==
    /\ ~opened /\ Scenes[scene].then # "end"
    /\ Len(steps) = Scenes[scene].length /\ TemplateAccepts
    /\ opened' = TRUE
    /\ UNCHANGED <<steps, check, template, desk, bench, talk, results, feeding, scene>>

Used(next) == opened /\ Scenes[scene].then = next /\ UNCHANGED <<steps, check, template, scene, opened>>

Preparing == Used("prepare") /\ DeskStep /\ UNCHANGED <<bench, talk, results, feeding>>

Working == Used("work") /\ BenchStep /\ UNCHANGED <<desk, talk, results, feeding>>

Talking == Used("talk") /\ ReplyStep /\ UNCHANGED <<desk, bench, results, feeding>>

Looking == Used("look") /\ ResultsStep(Scenes[scene].looks) /\ UNCHANGED <<desk, bench, talk, feeding>>

Feeding == Used("feed") /\ FeedStep /\ UNCHANGED <<desk, bench, talk, results>>

Next == Writing \/ Open \/ Preparing \/ Working \/ Talking \/ Looking \/ Feeding

Spec == Init /\ [][Next]_vars

-----------------------------------------------------------------------------
(* A document that may still change, or is about to be used.               *)
Judged == ~opened /\ TemplateAccepts

(* The one pass of the validator accepts exactly the documents in which    *)
(* every reference resolves by lexical scope, ids are unique, a page has   *)
(* the rows of one loop, and so on (workflow.rs, validate_steps).          *)
AcceptsExactly == opened \/ (check.ok <=> WellFormed(steps))

(* The number of measurements that preparation counts for an instance is   *)
(* the most a run can take over all branches, or an overflow is reported   *)
(* for good reason; and a live meter is started for at least as many.      *)
SamplesSuffice ==
    Judged =>
        \A i \in Indices :
            LET id == template.instances[i].id
                counted == measure_count(id)
                worst == WorstCase(id)
                limit == meters_limit(id, TRUE, NoBindings)
            IN /\ IF counted = Overflow THEN worst = None \/ worst > MaxCount ELSE counted = worst
               /\ template.instances[i].tool = "meters" /\ limit \notin {None, Overflow} =>
                     /\ worst # None
                     /\ worst <= Readings(trigger_arguments(limit, template.instances[i].setup))

(* What is saved is what is loaded again: every field that is left out of  *)
(* the file has the value a reader takes for it.                           *)
SavedIsLoaded == Judged => from_json_str(from_template(Loaded)) = Loaded

(* A Serial command is within the limits of the Worker.                    *)
SerialIsSendable(action, arguments) ==
    LET command == serial_command(action, arguments)
    IN /\ Invalid \notin {command.tx, command.delimiter}
       /\ action \in {"send", "query"} => command.tx # <<>>
       /\ \A i \in DOMAIN command.tx : command.tx[i] \in 0 .. 255
       /\ action = "query" => Len(command.delimiter) \in 1 .. command.max
       /\ command.max <= MaxBytes

(* Inputs that are bound resolve to values of the type that is asked for.  *)
Typed(step, arguments) ==
    \A name \in DOMAIN step.bindings :
        IF name = "tx_value" THEN Same(arguments.tx_format, AsText) =>
                                      IsText(arguments.tx_value) /\ arguments.tx_value.of # <<>>
        ELSE IsNumber(arguments[name])

(* Of powers actions but for measure the template leaves it to the adapter *)
(* to look at the names of action and arguments and at the channel.        *)
Addressed(step, arguments) ==
    \/ step.action = "measure"
    \/ /\ step.action \in PowersActions /\ Only(arguments, {"channel"} \cup Setpoints(step.action))
       /\ Has(arguments, "channel") /\ IsPositive(arguments.channel)

ActionCanRun(step) ==
    LET arguments == tool_arguments(step, ToolOf(step))
    IN ~Refused(arguments) /\ Typed(step, arguments) =>
          /\ ToolOf(step) = "serial" => SerialIsSendable(step.action, arguments)
          /\ ToolOf(step) = "powers" /\ Addressed(step, arguments) =>
                validate_powers(step.action, arguments)

SetupCanBeApplied(instance) ==
    LET setup == instance.setup
    IN /\ instance.tool = "meters" => (setup_arguments(setup).manual => setup_arguments(setup).range # Absent)
       /\ instance.tool = "powers" =>
              IsInjective([k \in DOMAIN protection_commands(setup) |->
                              protection_commands(setup)[k].channel.of[1]])
       /\ instance.tool = "scopes" => IsInjective(setup_commands(setup))

(* An action that the template accepts is not refused by its adapter in    *)
(* the middle of a run, neither when its arguments are fixed nor, when     *)
(* some are bound to inputs, once these resolve to values of the type that *)
(* is asked for; and a setup that is accepted has everything its Worker is *)
(* started with, and sets nothing twice.                                   *)
ActionsCanRun ==
    Judged => /\ \A i \in ToolActions : ActionCanRun(steps[i])
              /\ \A i \in Indices : SetupCanBeApplied(template.instances[i])

\* A template that is accepted can be run, with enough samples.
AcceptedCanRun == ActionsCanRun /\ SamplesSuffice

(* The draft shown while a template is edited never complains of a         *)
(* template that Live preflight lets through.                              *)
DraftIsNoStricter ==
    (opened \/ TemplateAccepts) /\ validate_live_preflight(file.config)
        => validate_live_preflight_draft(file.config)

\* What is checked twice is judged alike.
CheckersAgree == AcceptsExactly /\ DraftIsNoStricter

(* Ports and endpoints are named apart from VISA addresses; how a port or  *)
(* a host is spelled makes no difference, how an address is does.          *)
SameInstrument(a, b) ==
    /\ a.tool = "serial" <=> b.tool = "serial"
    /\ IF a.tool = "serial"
       THEN \A field \in {"is", "key", "port"} : a.resource[field] = b.resource[field]
       ELSE a.resource = b.resource

(* A Worker is started live only with the resource and the backend the     *)
(* operator confirmed, whatever else happens to the configuration          *)
(* meanwhile, and no two Workers are given the same instrument.            *)
LiveIsConfirmed ==
    run.live =>
        \A id \in DOMAIN run.specs :
            /\ run.specs[id].resource = run.confirmed.resource[id]
            /\ run.specs[id].backend = run.confirmed.backend[id]
            /\ run.specs[id].resource.is # "blank"
            /\ \A other \in DOMAIN run.specs \ {id} :
                  ~SameInstrument(run.specs[id], run.specs[other])

(* A started Worker runs with features its probed manifest has, whatever  *)
(* program answers at the path by then, and a Serial Worker with jobs      *)
(* takes the commands its steps will send it.                              *)
StartedIsProbed ==
    \A id \in DOMAIN run.started :
        LET spec == run.specs[id]
        IN /\ DOMAIN run.started[id] \subseteq DOMAIN spec.manifest.features
           /\ spec.tool = "serial" /\ AsyncJobs \in DOMAIN run.started[id] =>
                 \A i \in ToolActions : steps[i].target = id =>
                     CanRunJob(spec.manifest, run.started[id], steps[i].action, FALSE)

\* No Worker is started but the one that was confirmed and probed.
StartedAsPrepared == LiveIsConfirmed /\ StartedIsProbed

-----------------------------------------------------------------------------
(* A protection latch is cleared only while every output of the supply is  *)
(* off, whatever a run does with the supply around it                      *)
(* (main.rs, clear_powers_protection).                                     *)
ClearIsSafe ==
    [][\A c \in Channels, flag \in {"ov", "oc"} :
          supply[c][flag] /\ ~supply'[c][flag] => \A d \in Channels : ~supply'[d].on]_vars

(* What the operator is shown of the supply was true at some moment since  *)
(* it was asked for: no trip from before is left out, none is made up, and *)
(* the total agrees with the channels (powers.rs, parse_protection_status).*)
PanelIsTruthful ==
    panel # None /\ panel.live =>
        LET shows(c, flag) == \E entry \in panel.status.channels : entry.channel = c /\ entry[flag]
            tripped == {latch \in Channels \X {"ov", "oc"} : shows(latch[1], latch[2])}
        IN /\ panel.before \subseteq tripped /\ tripped \subseteq panel.after
           /\ panel.status.tripped <=> tripped # {}

(* The result of a step answers the step's own request: a reading is of    *)
(* the channel that was asked for, a sample of the step's own trigger, a   *)
(* report of the time it was read, and files were written by the step and  *)
(* not again (the run_action functions of the adapters).                   *)
ResultsAreReal ==
    \A i \in DOMAIN actions.results :
        LET result == actions.results[i]
        IN /\ Has(result, "channel") => result.channel = steps[i].arguments.channel.of[1]
           /\ Has(result, "trigger") => result.trigger = i
           /\ Has(result, "tripped") => (result.before => result.tripped) /\ (result.tripped => result.after)
           /\ Has(result, "name") => \A kind \in result.kinds : disk[result.name][kind] = i

\* What a result or a panel shows is what the instrument did for it.
ShownIsReal == PanelIsTruthful /\ ResultsAreReal

(* Whatever the caller believes of its Worker is true of that Worker: that *)
(* its source was active, that it took a command, that it did not, that it *)
(* was asked to stop, that it is the one that was launched; whoever else   *)
(* answers at its port by then (common_v3.rs).                             *)
OnlyOwnIsBelieved ==
    Scenes[scene].sessions # {} =>
        /\ caller.believes \cap {"active", "taken", "stopped"} \subseteq peer.facts
        /\ "identified" \in caller.believes => peer.asLaunched
        /\ "refused" \in caller.believes => "taken" \notin peer.facts

(* Every figure is that of the numbers it stands for: of the columns of a  *)
(* run (stored_run.rs), of a Dataset that is being recorded, and of the    *)
(* samples that the Live Monitor and a chart pick from it (background.rs,  *)
(* RunningStats, store_monitor_view, query_chart).                         *)
FiguresAreExact == RunIsSummed /\ SetsAreSummed /\ MonitorIsNewest /\ ChartIsTrue
=============================================================================
