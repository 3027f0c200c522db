-------------------------- MODULE Preparation --------------------------
(***************************************************************************)
(* From a template to started Workers: the local configuration file and    *)
(* the threads that edit it, what the operator sees of it and confirms,    *)
(* Live preflight and its automatic draft, and the launch of one Worker    *)
(* per instance.                                                           *)
(*                                                                         *)
(* The template is written first (Workflow), the rest happens at a desk:   *)
(* the commands of the window run on the main thread (edits of Live        *)
(* resources, reads of what is configured), setting an executable and      *)
(* starting a run each on a thread of its own.                             *)
(***************************************************************************)
EXTENDS Template, Manifest

CONSTANTS
    Executables,    \* path -> [status, probe]: what is installed there
    PowersModels,   \* model -> capabilities the Powers tool answers with
    ScopesModels,   \* model -> capabilities the Scopes tool answers with
    Resources,      \* Live resources an operator can pick
    Models,         \* model ids that come with one, None included
    InstanceIds,    \* ids of tool instances
    Readies,        \* Ready messages Workers may send
    DefaultSamples  \* readings of a simulated meter without a bound

VARIABLES
    file,    \* the configuration file: [text, config]
    edit,    \* the edit under way on each thread: [at, config]
    shown,   \* what the window shows of the configuration
    run,     \* the run being prepared
    edits    \* edits that may still be started

desk == <<file, edit, shown, run, edits>>

Threads == {"main", "setter"}

Backends == {"system", "@py"}

-----------------------------------------------------------------------------
(* The configuration: per tool an executable, per instance a resource, the *)
(* model behind it and a backend; None where an entry is missing.          *)

Empty == [exe |-> [tool \in Tools |-> None],
          resource |-> [id \in InstanceIds |-> None],
          model |-> [id \in InstanceIds |-> None],
          backend |-> [id \in InstanceIds |-> None]]

live_resource(config, id) == config.resource[id]
live_backend(config, id) == IF config.backend[id] = None THEN "system" ELSE config.backend[id]

remove_live_resource(config, id) ==
    [config EXCEPT !.resource[id] = None, !.model[id] = None]

(* Another backend makes the address and the identity void.                *)
set_live_backend(config, id, backend) ==
    [IF live_backend(config, id) = backend THEN config ELSE remove_live_resource(config, id)
        EXCEPT !.backend[id] = backend]

set_live_resource_with_identity(config, id, resource, model) ==
    [config EXCEPT !.resource[id] = resource, !.model[id] = model]

edit_desktop_live_resource(config, id, resource, model, backend) ==
    LET selected == IF backend = None THEN config ELSE set_live_backend(config, id, backend)
    IN IF resource = None THEN remove_live_resource(selected, id)
       ELSE set_live_resource_with_identity(selected, id, resource, model)

(* A file that is missing, or caught empty while it is rewritten, reads as *)
(* a configuration without entries.                                        *)
load == IF file.text = "whole" THEN file.config ELSE Empty

-----------------------------------------------------------------------------
(* Live resources of a template.                                           *)

(* What a resource is known by: UART names ignore case, TCP endpoints are  *)
(* host and port, VISA addresses count as they are spelled.                *)
Identity(instance, resource) ==
    CASE instance.tool = "serial" /\ instance.setup.transport = "tcp" ->
            <<"TCP", resource.key, resource.port>>
      [] instance.tool = "serial" -> <<resource.key, "upper", 0>>
      [] OTHER -> <<resource.key, resource.spelled, resource.port>>

Assigned(config, id) == live_resource(config, id) # None /\ live_resource(config, id).is # "blank"

(* Every spelling counts as a resource of its own.                         *)
SpelledUnique(instances, config) ==
    \A a, b \in instances :
        Assigned(config, a.id) /\ Assigned(config, b.id)
        /\ live_resource(config, a.id) = live_resource(config, b.id) => a = b

validate_unique_live_resources(instances, config) ==
    LET assigned == {instance \in instances : Assigned(config, instance.id)}
        Of(instance) == live_resource(config, instance.id)
    IN /\ \A instance \in assigned : instance.tool = "serial" =>
             (instance.setup.transport = "tcp" <=> IsEndpoint(Of(instance)))
       /\ \A a, b \in assigned : Identity(a, Of(a)) = Identity(b, Of(b)) => a = b

validate_live_resources(instances, config) ==
    /\ \A instance \in instances : Assigned(config, instance.id)
    /\ validate_unique_live_resources(instances, config)

(* confirmed: what the operator confirmed, [resource, backend] per id.     *)
validate_confirmed_live_resources(instances, config, confirmed) ==
    /\ \A instance \in instances :
          /\ instance.tool \in Tools
          /\ Assigned(config, instance.id)
          /\ confirmed.resource[instance.id] = live_resource(config, instance.id)
          /\ confirmed.backend[instance.id] = live_backend(config, instance.id)
    /\ validate_unique_live_resources(instances, config)

-----------------------------------------------------------------------------
(* Live preflight.  Every complaint is collected; what counts here is that *)
(* there is one.                                                           *)

Available(config, tool) ==
    config.exe[tool] # None /\ Executables[config.exe[tool]].status = "available"

Registered(tool) == IF tool = "powers" THEN PowersModels ELSE ScopesModels

query_capabilities(instance, config) ==
    LET model == config.model[instance.id]
    IN IF model # None /\ Available(config, instance.tool)
          /\ model \in DOMAIN Registered(instance.tool)
       THEN Registered(instance.tool)[model] ELSE None

AreValid(tool, capabilities, model) ==
    IF tool = "powers" THEN powers_capabilities_are_valid(capabilities, model)
    ELSE scopes_capabilities_are_valid(capabilities, model)

SetupIsSupported(instance, capabilities) ==
    IF instance.tool = "powers" THEN powers_setup_is_supported(instance.setup, capabilities)
    ELSE scopes_setup_is_supported(instance.setup, capabilities)

check_action(tool, step, capabilities) ==
    IF tool = "powers"
    THEN powers_action_is_supported(step.action,
            [f \in DOMAIN step.arguments \ DOMAIN step.bindings |-> step.arguments[f]], capabilities)
    ELSE scopes_action_is_supported(step.action,
            Effective(step.action, step.arguments, step.bindings), capabilities)

validate_with_capabilities(instances, config) ==
    \A instance \in instances : instance.tool \in {"powers", "scopes"} =>
        LET capabilities == query_capabilities(instance, config)
        IN /\ capabilities # None
           /\ AreValid(instance.tool, capabilities, config.model[instance.id])
           /\ SetupIsSupported(instance, capabilities)
           /\ \A s \in ToolActions : steps[s].target = instance.id =>
                 check_action(instance.tool, steps[s], capabilities)

validate_live_preflight(config) ==
    /\ validate_live_resources(referenced_tool_instances, config)
    /\ validate_with_capabilities(referenced_tool_instances, config)

(* The draft reads the same document without its rules: it takes the known *)
(* targets of its actions, and Serial instances whose background a step    *)
(* names.                                                                  *)
DraftInstances ==
    LET named == {steps[s].background : s \in BackgroundSteps}
        Drafted(instance) ==
            \/ \E s \in ToolActions : steps[s].target = instance.id
            \/ /\ instance.tool = "serial"
               /\ \E k \in DOMAIN template.backgrounds :
                     /\ template.backgrounds[k].owner = instance.id
                     /\ template.backgrounds[k].id \in named
    IN {instance \in ToSet(template.instances) : Drafted(instance)}

(* preflight_setup builds a template of the instances alone.               *)
DraftReadable ==
    /\ \A i, j \in Indices : template.instances[i].id = template.instances[j].id => i = j
    /\ \A i \in Indices : setup_is_valid(template.instances[i])

(* The draft looks at every instance, needed or not.                       *)
StrictDraft(config) ==
    /\ DraftReadable
    /\ validate_live_resources(ToSet(template.instances), config)
    /\ validate_with_capabilities(ToSet(template.instances), config)

validate_live_preflight_draft(config) ==
    /\ DraftReadable
    /\ validate_live_resources(DraftInstances, config)
    /\ validate_with_capabilities(DraftInstances, config)

-----------------------------------------------------------------------------
(* Launch of the Workers.                                                  *)

Owned(id) == id \in Owners
BackgroundOf(id) == SelectSeq(template.backgrounds, LAMBDA b : b.owner = id)[1]

(* Instances whose simulated meter needs a number from the operator.       *)
simulation_sample_requirements ==
    {id \in InstanceIds : /\ \E instance \in referenced_tool_instances : instance.id = id
                         /\ ~Owned(id) /\ IsTool(id, "meters")
                         /\ Instance(id).setup.trigger_mode = "software"
                         /\ measure_count(id) = None}

Reserved(measured) == IF measured = Overflow THEN Overflow ELSE checked_add(measured, 1)

(* Readings the Worker of a meter is asked for: one more than the steps    *)
(* can take, or what the background says.                                  *)
meters_limit(id, live, samples) ==
    CASE Owned(id) -> BackgroundOf(id).count
      [] measure_count(id) # None -> Reserved(measure_count(id))
      [] live -> None
      [] id \in DOMAIN samples -> samples[id]
      [] OTHER -> DefaultSamples

CanLaunch(instance, live, config, samples) ==
    /\ Available(config, instance.tool)
    /\ probe_existing_worker_integration(Executables[config.exe[instance.tool]].probe, instance.tool)
    /\ measure_count(instance.id) # Overflow
    /\ instance.tool = "meters" => meters_limit(instance.id, live, samples) # Overflow
    /\ Owned(instance.id) =>
          /\ Declares(Executables[config.exe[instance.tool]].probe.manifest, Streaming)
          /\ instance.tool # "powers"
    /\ instance.tool = "serial" =>
          serial_launches(instance.setup, live, live_resource(config, instance.id))

LaunchSpec(instance, live, config, samples) ==
    [tool |-> instance.tool,
     manifest |-> Executables[config.exe[instance.tool]].probe.manifest,
     resource |-> IF live THEN live_resource(config, instance.id) ELSE None,
     backend |-> IF live THEN live_backend(config, instance.id) ELSE "system",
     model |-> IF live /\ instance.tool = "scopes" THEN config.model[instance.id] ELSE None,
     readings |-> IF instance.tool = "meters"
                  THEN Readings(trigger_arguments(meters_limit(instance.id, live, samples), instance.setup))
                  ELSE None,
     streaming |-> Owned(instance.id),
     writes |-> live /\ instance.tool = "powers"]

CanPrepare(live, config, samples) ==
    LET instances == referenced_tool_instances
    IN /\ ~live => \A id \in DOMAIN samples :
                      id \in simulation_sample_requirements /\ samples[id] \in 1 .. MaxSamples
       /\ live => /\ validate_live_resources(instances, config)
                  /\ \A instance \in instances :
                        instance.tool = "scopes" => config.model[instance.id] # None
       /\ \A instance \in instances :
             instance.tool \in Tools /\ CanLaunch(instance, live, config, samples)

prepare_worker_launch_specs(live, config, samples) ==
    [id \in {instance.id : instance \in referenced_tool_instances} |->
        LaunchSpec(Instance(id), live, config, samples)]

-----------------------------------------------------------------------------
(* Edits of the configuration.  A thread reads the file, changes what it   *)
(* read, and writes it all back: the file is emptied, then filled.         *)

Idle(thread) == edit[thread].at = "idle"

BeginEdit(thread, config) ==
    /\ Idle(thread) /\ edits > 0
    /\ edit' = [edit EXCEPT ![thread] = [at |-> "read", config |-> config]]
    /\ edits' = edits - 1
    /\ UNCHANGED <<file, shown, run>>

EditLiveResource ==
    \E id \in {template.instances[i].id : i \in Indices},
       resource \in Resources \cup {None}, model \in Models, backend \in Backends \cup {None} :
        /\ resource = None => model = None
        /\ BeginEdit("main", edit_desktop_live_resource(load, id, resource, model, backend))

set_tool_executable(tool, path) ==
    /\ probe_manifest(Executables[path].probe, tool)
    /\ worker_compatibility(Executables[path].probe.manifest)
    /\ BeginEdit("setter", [load EXCEPT !.exe[tool] = path])

reset_tool_executable(tool) == BeginEdit("main", [load EXCEPT !.exe[tool] = None])

EditExecutable ==
    \E tool \in Tools :
        \/ \E path \in DOMAIN Executables : set_tool_executable(tool, path)
        \/ reset_tool_executable(tool)

Truncate(thread) ==
    /\ edit[thread].at = "read"
    /\ file' = [file EXCEPT !.text = "empty"]
    /\ edit' = [edit EXCEPT ![thread].at = "emptied"]
    /\ UNCHANGED <<shown, run, edits>>

Save(thread) ==
    /\ edit[thread].at = "emptied"
    /\ file' = [text |-> "whole", config |-> edit[thread].config]
    /\ edit' = [edit EXCEPT ![thread].at = "idle"]
    /\ UNCHANGED <<shown, run, edits>>

(* The window reads resources and backends one after the other.            *)
ShowResources ==
    /\ Idle("main")
    /\ shown' = [shown EXCEPT !.resource = load.resource]
    /\ UNCHANGED <<file, edit, run, edits>>

ShowBackends ==
    /\ Idle("main")
    /\ shown' = [shown EXCEPT !.backend = [id \in InstanceIds |-> live_backend(load, id)]]
    /\ UNCHANGED <<file, edit, run, edits>>

-----------------------------------------------------------------------------
(* A run.                                                                  *)

NoRun == [at |-> "none", live |-> FALSE, confirmed |-> [resource |-> Empty.resource, backend |-> Empty.backend],
          samples |-> NoBindings, config |-> Empty, specs |-> NoBindings, started |-> NoBindings]

(* The operator confirms what the window shows.                            *)
Confirm ==
    /\ run.at = "none"
    /\ run' = [run EXCEPT !.at = "confirmed", !.live = TRUE, !.confirmed = shown]
    /\ UNCHANGED <<file, edit, shown, edits>>

Simulate(samples) ==
    /\ run.at = "none"
    /\ run' = [run EXCEPT !.at = "confirmed", !.samples = samples]
    /\ UNCHANGED <<file, edit, shown, edits>>

LoadConfig ==
    /\ run.at = "confirmed"
    /\ run' = [run EXCEPT !.at = "loaded", !.config = load]
    /\ UNCHANGED <<file, edit, shown, edits>>

(* The specifications are made from what the file says by then.            *)
begin_run_reloading ==
    /\ run.at = "loaded"
    /\ LET config == load
           ok == /\ run.live => /\ validate_confirmed_live_resources(
                                       referenced_tool_instances, run.config, run.confirmed)
                                /\ validate_live_preflight(run.config)
                 /\ CanPrepare(run.live, config, run.samples)
       IN run' = IF ok THEN [run EXCEPT !.at = "prepared",
                               !.specs = prepare_worker_launch_specs(run.live, config, run.samples)]
                 ELSE [run EXCEPT !.at = "refused"]
    /\ UNCHANGED <<file, edit, shown, edits>>

begin_run ==
    /\ run.at = "loaded"
    /\ LET config == run.config
           ok == /\ run.live => /\ validate_confirmed_live_resources(
                                       referenced_tool_instances, config, run.confirmed)
                                /\ validate_live_preflight(config)
                 /\ CanPrepare(run.live, config, run.samples)
       IN run' = IF ok THEN [run EXCEPT !.at = "prepared",
                               !.specs = prepare_worker_launch_specs(run.live, config, run.samples)]
                 ELSE [run EXCEPT !.at = "refused"]
    /\ UNCHANGED <<file, edit, shown, edits>>

(* A Worker that starts may be another program than the one that printed   *)
(* the manifest; its Ready message decides.                                *)
start_worker(id, ready) ==
    /\ run.at = "prepared" /\ id \in DOMAIN run.specs \ DOMAIN run.started
    /\ run' = IF ready_is_accepted(ready, run.specs[id].manifest)
              THEN [run EXCEPT !.started = [k \in DOMAIN @ \cup {id} |->
                                               IF k = id THEN ready.features ELSE @[k]]]
              ELSE [run EXCEPT !.at = "failed"]
    /\ UNCHANGED <<file, edit, shown, edits>>

DeskInit(config, MaxEdits) ==
    /\ file = [text |-> "whole", config |-> config]
    /\ edit = [thread \in Threads |-> [at |-> "idle", config |-> Empty]]
    /\ shown = [resource |-> Empty.resource, backend |-> Empty.backend]
    /\ run = NoRun
    /\ edits = MaxEdits

DeskStep ==
    \/ EditLiveResource
    \/ EditExecutable
    \/ \E thread \in Threads : Truncate(thread) \/ Save(thread)
    \/ ShowResources
    \/ ShowBackends
    \/ Confirm
    \/ \E n \in 0 .. 1, id \in InstanceIds : Simulate([k \in {id} |-> n])
    \/ Simulate(NoBindings)
    \/ LoadConfig
    \/ begin_run
    \/ \E id \in InstanceIds, ready \in Readies : start_worker(id, ready)
=============================================================================
