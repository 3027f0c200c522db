---------------------------- MODULE Manifest ----------------------------
(***************************************************************************)
(* What a tool says of itself and what a started Worker of it may say: the *)
(* manifest printed by its executable, the checks before a run and the     *)
(* Ready message of the process that is started later.                     *)
(*                                                                         *)
(* A manifest has a set of protocol versions, a policy, an execution model,*)
(* a context binding, features (names to [version, list], list being the   *)
(* cancel commands or the stream lifecycles) and commands (names to kinds).*)
(***************************************************************************)
EXTENDS FiniteSets, Naturals

AsyncJobs == "common.async_jobs"
JobCancel == "common.job_cancel"
Streaming == "common.streaming"
Common == {AsyncJobs, JobCancel, Streaming}
Lifecycles == {"run_bound", "deferred_start"}
SerialCommands == {"send", "send-file", "receive", "query", "run-sequence"}

Declares(manifest, name) == name \in DOMAIN manifest.features
KindOf(manifest, command) ==
    IF command \in DOMAIN manifest.commands THEN manifest.commands[command] ELSE "none"

validate_common_feature(name, feature) ==
    /\ name \in Common => feature.version = 1
    /\ name \in {JobCancel, Streaming} => feature.list # {} /\ "" \notin feature.list
    /\ name = Streaming => feature.list \subseteq Lifecycles

(* Only version 3 of the protocol is read in full.                         *)
parse_manifest(manifest, tool) ==
    /\ manifest.tool = tool /\ manifest.tool_version # ""
    /\ 3 \in manifest.versions =>
          /\ manifest.versions = {3} /\ manifest.policy = "v3-only"
          /\ manifest.model \in {"run_bound", "multi_job"}
          /\ manifest.binding \in {"startup", "per_command"}
          /\ \A name \in DOMAIN manifest.features :
                validate_common_feature(name, manifest.features[name])
          /\ Declares(manifest, JobCancel) => Declares(manifest, AsyncJobs)
          /\ \A name \in DOMAIN manifest.commands :
                name # "" /\ manifest.commands[name] \in {"control", "async_job"}

worker_compatibility(manifest) == manifest.versions = {3} /\ manifest.policy = "v3-only"

(* The execution each adapter is written for.                              *)
Execution(tool) ==
    CASE tool = "meters" -> <<"run_bound", "startup">>
      [] tool = "powers" -> <<"multi_job", "per_command">>
      [] OTHER -> <<"multi_job", "startup">>

validate_existing_worker_integration(tool, manifest) ==
    /\ <<manifest.model, manifest.binding>> = Execution(tool)
    /\ tool # "meters" => Declares(manifest, AsyncJobs)
    /\ tool = "serial" => /\ Declares(manifest, Streaming)
                          /\ \A c \in SerialCommands : KindOf(manifest, c) = "async_job"
    /\ tool = "meters" => KindOf(manifest, "software_trigger") \in {"none", "control"}

(* probe is what running the executable for its manifest gave.             *)
probe_manifest(probe, tool) ==
    ~probe.timeout /\ probe.status = 0 /\ probe.utf8 /\ parse_manifest(probe.manifest, tool)

probe_existing_worker_integration(probe, tool) ==
    /\ probe_manifest(probe, tool)
    /\ worker_compatibility(probe.manifest)
    /\ validate_existing_worker_integration(tool, probe.manifest)

-----------------------------------------------------------------------------
(* The Ready message of a started Worker.                                  *)

(* Whatever a Worker declares is taken.                                    *)
AdoptAnything(manifest, runtime) ==
    \A name \in DOMAIN runtime : validate_common_feature(name, runtime[name])

(* Features a Worker runs with are some of those in its manifest; of the   *)
(* lifecycles of a stream it has picked one.                               *)
validate_runtime_features(manifest, runtime) ==
    \A name \in DOMAIN runtime :
        /\ Declares(manifest, name)
        /\ validate_common_feature(name, runtime[name])
        /\ IF name = Streaming
           THEN /\ Cardinality(runtime[name].list) = 1
                /\ runtime[name].list \subseteq manifest.features[name].list
           ELSE runtime[name] = manifest.features[name]

(* Endpoints are numeric loopback addresses of one port; cancel is the     *)
(* endpoint to cancel a job, "none" when there is none.                    *)
IsLocal(url) == url.scheme = "http" /\ ~url.userinfo /\ url.host \in {"127.0.0.1", "::1"}

endpoints_are_valid(urls) ==
    /\ \A name \in {"status", "command", "stop"} : IsLocal(urls[name]) /\ urls[name] = urls.status
    /\ urls.cancel = urls.status \/ urls.cancel.scheme = "none"

adopted_fields(ready) ==
    /\ JobCancel \in DOMAIN ready.features <=> ready.urls.cancel.scheme # "none"
    /\ IF Streaming \in DOMAIN ready.features
       THEN ready.features[Streaming].list = {ready.lifecycle}
       ELSE ready.lifecycle = "none"

ready_is_accepted(ready, manifest) ==
    /\ ready.version = 3 /\ ready.utc /\ ready.run_id # ""
    /\ adopted_fields(ready)
    /\ ready.state = "none"
    /\ endpoints_are_valid(ready.urls)
    /\ validate_runtime_features(manifest, ready.features)

(* run_async_job: what has to be there before a command is sent.           *)
CanRunJob(manifest, features, command, context) ==
    /\ AsyncJobs \in DOMAIN features
    /\ KindOf(manifest, command) \in {"none", "async_job"}
    /\ manifest.binding = "per_command" <=> context
=============================================================================
