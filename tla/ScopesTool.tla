--------------------------- MODULE ScopesTool ---------------------------
(***************************************************************************)
(* The Scopes adapter: the actions of an oscilloscope, its setup as a list *)
(* of commands, what its model must support, and the files of a capture.   *)
(***************************************************************************)
EXTENDS Arguments, FiniteSets, SequencesExt

CONSTANT AutoscaleModels  \* the registered models with AutoScale

ScopesActions ==
    {"channel-display", "channel-scale", "channel-offset", "timebase-scale", "timebase-position",
     "trigger-edge", "measure", "capture", "screenshot", "autoscale"}

ManagedFields == {"csv", "meta", "plot", "output", "query_hardcopy"}
Png == Text(<<112>>)
NoSetting == -1  \* a number left out of a setup; a type left out is "unset"

-----------------------------------------------------------------------------
(* Setup.                                                                  *)

ChannelSettings == <<"coupling", "probe_ratio", "bandwidth_limit", "invert", "units">>

scopes_setup_is_valid(setup) ==
    /\ setup.acquires =>
          /\ setup.type # "unset" \/ setup.count # NoSetting
          /\ setup.count # NoSetting => setup.count >= 2 /\ setup.type = "average"
    /\ \A i \in DOMAIN setup.channels :
          LET record == setup.channels[i]
          IN /\ record.channel # 0
             /\ \A j \in 1 .. i - 1 : setup.channels[j].channel # record.channel
             /\ \E k \in DOMAIN ChannelSettings : record.set[ChannelSettings[k]] # NoSetting
             /\ record.set.probe_ratio # NoSetting => record.set.probe_ratio > 0

(* The commands that apply a setup: the acquisition, then channel by       *)
(* channel in the order of the settings.                                   *)
setting_command(record, setting) ==
    IF record.set[setting] # NoSetting THEN <<<<setting, record.channel>>>> ELSE <<>>

channel_commands(record) ==
    FlattenSeq([k \in DOMAIN ChannelSettings |-> setting_command(record, ChannelSettings[k])])

setup_commands(setup) ==
    (IF setup.acquires THEN <<<<"acquisition", 0>>>> ELSE <<>>)
        \o FlattenSeq([i \in DOMAIN setup.channels |-> channel_commands(setup.channels[i])])

-----------------------------------------------------------------------------
(* Live preflight.                                                         *)

autoscale_supported_model(model) == model \in AutoscaleModels

scopes_capabilities_are_valid(capabilities, model) ==
    capabilities.model_id = model /\ capabilities.channels > 0

ChannelField(action) ==
    CASE action \in {"channel-display", "channel-scale", "channel-offset", "measure", "capture"} -> {"channel"}
      [] action = "trigger-edge" -> {"source_channel"}
      [] OTHER -> {}

OptionField(action) ==
    CASE action = "measure" -> {"item"}
      [] action = "trigger-edge" -> {"slope"}
      [] action = "capture" -> {"points"}
      [] action = "screenshot" -> {"format"}
      [] OTHER -> {}

Members(value) == {value.of[i] : i \in DOMAIN value.of}

(* A screenshot that names no format is checked for the one it will use.   *)
Effective(action, arguments, bindings) ==
    LET given == IF action = "screenshot" THEN DOMAIN arguments \cup {"format"} ELSE DOMAIN arguments
    IN [field \in given \ DOMAIN bindings |->
           IF field \in DOMAIN arguments THEN arguments[field] ELSE Png]

scopes_action_is_supported(action, fixed, capabilities) ==
    /\ action = "autoscale" =>
          /\ autoscale_supported_model(capabilities.model_id)
          /\ Has(fixed, "source_channel") =>
                /\ fixed.source_channel.is = "list"
                /\ Members(fixed.source_channel) \subseteq 1 .. capabilities.channels
    /\ \A field \in ChannelField(action) : Has(fixed, field) =>
          LET value == fixed[field]
          IN CASE value.is = "list" ->
                    /\ Members(value) \subseteq 1 .. capabilities.channels
                    /\ action = "capture" => /\ value.of # <<>>
                                             /\ Cardinality(Members(value)) = Len(value.of)
               [] action = "capture" -> FALSE
               [] OTHER -> value.is = "number" /\ value.of[1] \in 1 .. capabilities.channels
    /\ \A field \in OptionField(action) : Has(fixed, field) =>
          Among(fixed[field], capabilities.options[field])

scopes_setup_is_supported(setup, capabilities) ==
    /\ \A i \in DOMAIN setup.channels : setup.channels[i].channel \in 1 .. capabilities.channels
    /\ setup.acquires =>
          /\ setup.type # "unset" => setup.type \in capabilities.types
          /\ setup.count # NoSetting => setup.count \in capabilities.counts

-----------------------------------------------------------------------------
(* Template rules of a scope step.                                         *)

Parameter(action) ==
    CASE action = "channel-scale" -> {"volts_per_division"}
      [] action = "channel-offset" -> {"volts"}
      [] action = "timebase-scale" -> {"seconds_per_division"}
      [] action = "timebase-position" -> {"seconds"}
      [] action = "trigger-edge" -> {"level"}
      [] OTHER -> {}

ValidAutoscale(arguments, bindings) ==
    /\ DOMAIN bindings = {}
    /\ Only(arguments, {"source_channel", "acquire_mode", "channels"})
    /\ Has(arguments, "source_channel") =>
          LET sources == arguments.source_channel
          IN /\ sources.is = "list" /\ sources.of # <<>>
             /\ \A i \in DOMAIN sources.of : sources.of[i] > 0
             /\ Cardinality(Members(sources)) = Len(sources.of)
    /\ Has(arguments, "acquire_mode") => Among(arguments.acquire_mode, {Text(<<110>>), Text(<<99>>)})
    /\ Has(arguments, "channels") => Among(arguments.channels, {Text(<<97>>), Text(<<100>>)})

ValidChoice(action, arguments, bindings) ==
    \A field \in OptionField(action) \ {"format"} :
        /\ ~Has(bindings, field) /\ Has(arguments, field)
        /\ IF field = "points" THEN IsPositive(arguments.points)
           ELSE IsText(arguments[field]) /\ ~IsBlank(arguments[field])
=============================================================================
