---------------------------- MODULE Template ----------------------------
(***************************************************************************)
(* A template: tool instances with their setups, a workflow over them,     *)
(* background acquisitions and saved charts; the rules by which            *)
(* Template::from_json_str accepts one, and the file it is saved to.       *)
(*                                                                         *)
(* A tool action of the workflow carries arguments and bindings (see       *)
(* Arguments) and the id of its instance in target; a background step      *)
(* carries background, order ("worker-on", ..., "capture-off") and capture.*)
(***************************************************************************)
EXTENDS Workflow, SerialTool, PowersTool, ScopesTool, MetersTool

CONSTANTS
    MaxSavedCharts,
    MaxInterval,     \* the longest pause between scope measurements
    DefaultConnect,  \* of the timeouts of a Serial setup
    DefaultTimeout

ASSUME NamesAssumption == None \notin {"padded", "blank"}

VARIABLE template  \* [instances, backgrounds, charts]; its workflow is steps

NoBindings == [name \in {} |-> None]
Tools == {"meters", "powers", "scopes", "serial"}

Indices == DOMAIN template.instances
Named(id) == {i \in Indices : template.instances[i].id = id}
Known(id) == Named(id) # {}
Instance(id) == template.instances[CHOOSE i \in Named(id) : \A j \in Named(id) : i <= j]
IsTool(id, tool) == Known(id) /\ Instance(id).tool = tool

ToolActions == {i \in DOMAIN steps : steps[i].kind = "tool-action"}
BackgroundSteps == {i \in DOMAIN steps : steps[i].kind = "background"}
Owners == {template.backgrounds[k].owner : k \in DOMAIN template.backgrounds}

-----------------------------------------------------------------------------
(* Instances.                                                              *)

setup_is_valid(instance) ==
    CASE instance.tool = "meters" -> meters_setup_is_valid(instance.setup)
      [] instance.tool = "powers" -> powers_setup_is_valid(instance.setup)
      [] instance.tool = "scopes" -> scopes_setup_is_valid(instance.setup)
      [] instance.tool = "serial" -> serial_setup_is_valid(instance.setup)
      [] OTHER -> TRUE

ValidInstances ==
    /\ \A i, j \in Indices : template.instances[i].id = template.instances[j].id => i = j
    /\ \A i \in Indices : setup_is_valid(template.instances[i])
    /\ \A i \in ToolActions : Known(steps[i].target)

(* The instances a run needs; nothing depends on their order.              *)
referenced_tool_instances ==
    {Instance(id) : id \in {steps[i].target : i \in ToolActions} \cup Owners}

-----------------------------------------------------------------------------
(* Parameters of tool actions.                                             *)

NumericSource(input) ==
    CASE input.kind = "literal" -> IsNumber(input.value)
      [] OTHER -> input.kind \in {"variable", "calculation"}

NumericParameters(tool, action) ==
    CASE tool = "scopes" -> Parameter(action)
      [] tool = "powers" -> Setpoints(action)
      [] OTHER -> {}

(* set-output may leave one of its two setpoints out.                      *)
ValidNumeric(tool, step) ==
    LET names == NumericParameters(tool, step.action)
        given == DOMAIN step.arguments \cup DOMAIN step.bindings
    IN /\ \A name \in names :
             IF Has(step.bindings, name) THEN NumericSource(step.bindings[name])
             ELSE IF Has(step.arguments, name) THEN IsNumber(step.arguments[name])
             ELSE step.action = "set-output"
       /\ tool = "powers" /\ step.action = "set-output" => names \cap given # {}

ValidPowerMeasure(step) ==
    /\ NoBindings = step.bindings
    /\ Only(step.arguments, {"channel"}) /\ Has(step.arguments, "channel")
    /\ IsPositive(step.arguments.channel) /\ step.arguments.channel.of[1] <= MaxChannel

(* File names belong to the Scopes adapter.                                *)
ValidFiles(step) ==
    step.action \in {"capture", "screenshot"} =>
        ManagedFields \cap (DOMAIN step.arguments \cup DOMAIN step.bindings) = {}

validate_tool_action(step) ==
    LET tool == Instance(step.target).tool
    IN /\ tool = "serial" => validate_serial(step.action, step.arguments, step.bindings)
       /\ ValidNumeric(tool, step)
       /\ tool = "powers" /\ step.action = "measure" => ValidPowerMeasure(step)
       /\ tool = "scopes" =>
             /\ ValidFiles(step)
             /\ step.action = "autoscale" => ValidAutoscale(step.arguments, step.bindings)
             /\ ValidChoice(step.action, step.arguments, step.bindings)

-----------------------------------------------------------------------------
(* Background acquisitions.                                                *)

ScopesFields(background) == background.measurements # <<>> \/ background.interval # None

ValidSerialBackground(background) ==
    background.count = None /\ background.timer = None /\ ~ScopesFields(background)

ValidCount(background) == background.count = None \/ background.count \in 1 .. MaxSamples

ValidMetersBackground(background, setup) ==
    /\ ValidCount(background) /\ ~ScopesFields(background)
    /\ IF setup.trigger_mode \in SoftwareTriggered
       THEN background.timer # None /\ background.timer # 0
       ELSE background.timer = None
    /\ setup.trigger_mode \in Custom =>
          IF background.count = None THEN setup.allow_buffer_overflow_risk
          ELSE background.count * setup.sample_count <= MaxCount

ValidMeasurement(background, k) ==
    LET measurement == background.measurements[k]
    IN /\ measurement.id \notin {"", "value"}
       /\ \A j \in 1 .. k - 1 : background.measurements[j].id # measurement.id
       /\ measurement.channel # 0 /\ measurement.reference # 0
       /\ measurement.item # ""

ValidScopesBackground(background) ==
    /\ ValidCount(background) /\ background.timer = None
    /\ background.measurements # <<>>
    /\ background.interval = None \/ background.interval \in 0 .. MaxInterval
    /\ \A k \in DOMAIN background.measurements : ValidMeasurement(background, k)

ValidForTool(background) ==
    LET instance == Instance(background.owner)
    IN CASE instance.tool = "serial" -> ValidSerialBackground(background)
         [] instance.tool = "meters" -> ValidMetersBackground(background, instance.setup)
         [] instance.tool = "scopes" -> ValidScopesBackground(background)
         [] OTHER -> FALSE

ValidBackground(k) ==
    LET background == template.backgrounds[k]
    IN /\ \A j \in 1 .. k - 1 : /\ template.backgrounds[j].id # background.id
                                /\ template.backgrounds[j].owner # background.owner
       /\ Known(background.owner) /\ ValidForTool(background)

(* An instance is used by steps or by a background, and a meter is         *)
(* measured by steps only one reading at a time.                           *)
ValidUses ==
    /\ \A i \in BackgroundSteps :
          /\ \E k \in DOMAIN template.backgrounds : template.backgrounds[k].id = steps[i].background
          /\ steps[i].capture => steps[i].order \in {"worker-on", "worker-off"}
    /\ \A i \in ToolActions :
          /\ steps[i].target \notin Owners
          /\ steps[i].action = "measure" /\ IsTool(steps[i].target, "meters") =>
                Instance(steps[i].target).setup.trigger_mode = "software"

-----------------------------------------------------------------------------
(* Saved charts.                                                           *)

Page(name) == SelectSeq(check.pages, LAMBDA page : page.name = name)
IsTimestamp(page, name) ==
    \E i \in DOMAIN steps : /\ steps[i].kind = "output" /\ steps[i].page.name = page
                            /\ steps[i].name = name /\ steps[i].source = "timestamp"

ValidBackgroundChart(chart) ==
    /\ \E k \in DOMAIN template.backgrounds :
          LET background == template.backgrounds[k]
          IN /\ background.id = chart.source.background
             /\ chart.source.field \in
                   IF background.measurements = <<>> THEN {"value"}
                   ELSE {background.measurements[j].id : j \in DOMAIN background.measurements}
    /\ chart.outputs = <<"value">> /\ chart.page = None /\ chart.scatter_x = None
    /\ chart.type \in {"line", "scatter", "column", "area", "bar"}

ValidPageChart(chart) ==
    /\ Page(chart.page) # <<>> /\ chart.outputs # <<>>
    /\ LET headers == ToSet(Page(chart.page)[1].headers)
       IN /\ \A i \in DOMAIN chart.outputs :
                chart.outputs[i] \in headers /\ ~IsTimestamp(chart.page, chart.outputs[i])
          /\ chart.type = "scatter" /\ chart.scatter_x # None => chart.scatter_x \in headers

ValidAxis(axis) ==
    /\ None \notin {axis.min, axis.max} => axis.min < axis.max
    /\ axis.interval # None => axis.interval > 0

(* Sizes, bin counts and widths are in tenths.                             *)
ValidHistogram(chart) ==
    /\ CASE chart.mode = "count" -> /\ chart.bins # None
                                   /\ chart.bins % 10 = 0 /\ chart.bins \in 10 .. 2000
         [] chart.mode = "width" -> chart.bins # None /\ chart.bins > 0
         [] OTHER -> TRUE
    /\ chart.deviation # None => chart.deviation > 0

validate_chart(chart) ==
    /\ IF chart.source # None THEN ValidBackgroundChart(chart) ELSE ValidPageChart(chart)
    /\ chart.type = "histogram" => Len(chart.outputs) = 1 /\ ValidHistogram(chart)
    /\ chart.type = "combo" => Len(chart.outputs) >= 2
    /\ \A i \in DOMAIN chart.sizes : chart.sizes[i] > 0
    /\ \A i \in DOMAIN chart.axes : ValidAxis(chart.axes[i])

validate_output_views ==
    template.charts # None =>
        /\ Len(template.charts) <= MaxSavedCharts
        /\ \A i \in DOMAIN template.charts : validate_chart(template.charts[i])

(* A Serial background has no numbers to draw.                             *)
ValidSources ==
    template.charts # None =>
        \A i \in DOMAIN template.charts : template.charts[i].source # None =>
            \A k \in DOMAIN template.backgrounds :
                template.backgrounds[k].id = template.charts[i].source.background =>
                    ~IsTool(template.backgrounds[k].owner, "serial")

TemplateAccepts ==
    /\ Complete
    /\ ValidInstances
    /\ \A i \in ToolActions : validate_tool_action(steps[i])
    /\ \A k \in DOMAIN template.backgrounds : ValidBackground(k)
    /\ ValidUses
    /\ validate_output_views
    /\ ValidSources

-----------------------------------------------------------------------------
(* The template file.  A record is written without the fields that have    *)
(* the value named here, and read back with the defaults named below: two  *)
(* tables, kept apart as they are in the code.                             *)

Unreadable == [unreadable |-> TRUE]

Skips(schema) ==
    CASE schema = "template" -> [backgrounds |-> <<>>, charts |-> None]
      [] schema = "instance" -> [name |-> None]
      [] schema = "chart" -> [page |-> None, source |-> None]
      [] schema = "background" -> [timer |-> None, measurements |-> <<>>, interval |-> None]
      [] schema = "measurement" -> [reference |-> None]
      [] schema = "meters" -> [trigger_mode |-> "software", sample_count |-> 1,
                               hw_trigger_delay |-> None, buffer_drain_size |-> Absent,
                               allow_buffer_overflow_risk |-> FALSE]
      [] schema = "serial" -> [transport |-> "serial", connect_timeout_ms |-> DefaultConnect,
                               io_timeout_ms |-> DefaultTimeout]
      [] schema = "protection" -> [field \in ProtectionFields |-> Unset]
      [] schema = "acquisition" -> [type |-> "unset", count |-> NoSetting]
      [] schema = "settings" -> [field \in ToSet(ChannelSettings) |-> NoSetting]
      [] schema = "tool-action" -> [bindings |-> NoBindings]
      [] schema \in {"output", "set-variable"} -> [format |-> None, right |-> None]
      [] OTHER -> NoBindings

(* One default serves both timeouts.                                       *)
SharedDefaults ==
    [transport |-> "serial", data_bits |-> 8, parity |-> "none", stop_bits |-> 1,
     flow_control |-> "none", timeout_ms |-> DefaultTimeout,
     connect_timeout_ms |-> DefaultConnect, io_timeout_ms |-> DefaultConnect]

SerialDefaults ==
    [transport |-> "serial", data_bits |-> 8, parity |-> "none", stop_bits |-> 1,
     flow_control |-> "none", timeout_ms |-> DefaultTimeout,
     connect_timeout_ms |-> DefaultConnect, io_timeout_ms |-> DefaultTimeout]

MetersDefaults ==
    [trigger_mode |-> "software", sample_count |-> 1, hw_trigger_delay |-> None,
     buffer_drain_size |-> Absent, allow_buffer_overflow_risk |-> FALSE, manual_range |-> Absent,
     dcv_input_impedance |-> Absent, current_terminal |-> Absent]
ProtectionDefaults == [field \in ProtectionFields |-> Unset]
AcquisitionDefaults == [type |-> "unset", count |-> NoSetting]
SettingsDefaults == [field \in ToSet(ChannelSettings) |-> NoSetting]

Defaults(schema) ==
    CASE schema = "template" -> [backgrounds |-> <<>>, charts |-> None]
      [] schema = "instance" -> [name |-> None]
      [] schema = "chart" -> [page |-> None, source |-> None, scatter_x |-> None,
                              bins |-> None, deviation |-> None]
      [] schema = "background" -> [live_monitor |-> FALSE, count |-> None, timer |-> None,
                                   measurements |-> <<>>, interval |-> None]
      [] schema = "measurement" -> [reference |-> None]
      [] schema = "meters" -> MetersDefaults
      [] schema = "serial" -> SerialDefaults
      [] schema = "protection" -> ProtectionDefaults
      [] schema = "acquisition" -> AcquisitionDefaults
      [] schema = "settings" -> SettingsDefaults
      [] schema = "tool-action" -> [bindings |-> NoBindings]
      [] schema = "background-step" -> [capture |-> FALSE]
      [] schema \in {"output", "set-variable"} -> [format |-> None, right |-> None]
      [] OTHER -> NoBindings

Write(schema, record) ==
    LET skips == Skips(schema)
    IN [field \in {f \in DOMAIN record : f \in DOMAIN skips => skips[f] # record[f]} |-> record[field]]

Parse(schema, wire) ==
    LET defaults == Defaults(schema)
    IN [field \in DOMAIN wire \cup DOMAIN defaults |->
           IF field \in DOMAIN wire THEN wire[field] ELSE defaults[field]]

Move(way, schema, record) ==
    IF way = "write" THEN Write(schema, record) ELSE Parse(schema, record)

(* The setups hold records of their own.                                   *)
MapChannel(way, channel) == [channel EXCEPT !.set = Move(way, "settings", @)]

MapSetup(way, tool, setup) ==
    CASE tool \in {"meters", "serial"} -> Move(way, tool, setup)
      [] tool = "powers" ->
            [setup EXCEPT !.channels = [i \in DOMAIN @ |-> Move(way, "protection", @[i])]]
      [] tool = "scopes" ->
            Move(way, "acquisition",
                 [setup EXCEPT !.channels = [i \in DOMAIN @ |-> MapChannel(way, @[i])]])
      [] OTHER -> setup

MapInstance(way, instance) ==
    Move(way, "instance", [instance EXCEPT !.setup = MapSetup(way, instance.tool, @)])

StepSchema(step) == IF step.kind = "background" THEN "background-step" ELSE step.kind

from_template(t) ==
    Write("template",
        [instances |-> [i \in DOMAIN t.instances |-> MapInstance("write", t.instances[i])],
         backgrounds |-> [k \in DOMAIN t.backgrounds |->
             Write("background",
                   [t.backgrounds[k] EXCEPT !.measurements =
                       [m \in DOMAIN @ |-> Write("measurement", @[m])]])],
         charts |-> IF t.charts = None THEN None
                    ELSE [i \in DOMAIN t.charts |-> Write("chart", t.charts[i])],
         steps |-> [i \in DOMAIN t.steps |-> Write(StepSchema(t.steps[i]), t.steps[i])]])

(* A calculation has a right operand exactly when its operator takes one.  *)
OperandsFit(step) ==
    Has(step, "operator") =>
        \/ step.operator = "unary" /\ step.right = None
        \/ step.operator = "binary" /\ step.right # None
        \/ step.operator = "none"

step_from_wire(wire) ==
    LET step == Parse(StepSchema(wire), wire)
    IN IF OperandsFit(step) THEN step ELSE Unreadable

background_from_wire(wire) ==
    LET background == Parse("background", wire)
    IN [background EXCEPT !.measurements = [m \in DOMAIN @ |-> Parse("measurement", @[m])]]

(* Names are trimmed, and a blank one is none.                             *)
Trimmed(name) == CASE name = "padded" -> "name" [] name = "blank" -> None [] OTHER -> name
Normalized(instances) ==
    [i \in DOMAIN instances |-> [instances[i] EXCEPT !.name = Trimmed(@)]]

from_json_str(file) ==
    LET wire == Parse("template", file)
    IN [instances |-> Normalized([i \in DOMAIN wire.instances |-> MapInstance("parse", wire.instances[i])]),
        backgrounds |-> [k \in DOMAIN wire.backgrounds |-> background_from_wire(wire.backgrounds[k])],
        charts |-> IF wire.charts = None THEN None
                   ELSE [i \in DOMAIN wire.charts |-> Parse("chart", wire.charts[i])],
        steps |-> [i \in DOMAIN wire.steps |-> step_from_wire(wire.steps[i])]]

(* The structs of a template in memory: each has the fields that a file    *)
(* may do without, and what is there is not None.                          *)
IsMap(map) == map = [key \in DOMAIN map |-> map[key]]
IsList(list) == Len(list) \in Nat /\ DOMAIN list = 1 .. Len(list) /\ IsMap(list)
IsStruct(schema, record) == IsMap(record) /\ DOMAIN Defaults(schema) \subseteq DOMAIN record

StructuredSetup(tool, setup) ==
    CASE tool \in {"meters", "serial"} -> IsStruct(tool, setup)
      [] tool = "powers" ->
            /\ IsMap(setup) /\ Has(setup, "channels") /\ IsList(setup.channels)
            /\ \A i \in DOMAIN setup.channels : IsStruct("protection", setup.channels[i])
      [] tool = "scopes" ->
            /\ IsStruct("acquisition", setup) /\ Has(setup, "channels") /\ IsList(setup.channels)
            /\ \A i \in DOMAIN setup.channels :
                  LET channel == setup.channels[i]
                  IN IsMap(channel) /\ Has(channel, "set") /\ IsStruct("settings", channel.set)
      [] OTHER -> TRUE

StructuredInstance(instance) ==
    /\ IsStruct("instance", instance) /\ {"tool", "setup"} \subseteq DOMAIN instance
    /\ StructuredSetup(instance.tool, instance.setup)

StructuredBackground(background) ==
    /\ IsStruct("background", background) /\ IsMap(background.measurements)
    /\ \A m \in DOMAIN background.measurements : IsStruct("measurement", background.measurements[m])

StructuredStep(step) ==
    IsStruct(StepSchema(step), step) /\ Has(step, "kind") /\ OperandsFit(step)

Structured(t) ==
    /\ \A i \in DOMAIN t.instances : StructuredInstance(t.instances[i])
    /\ IsMap(t.backgrounds) /\ \A k \in DOMAIN t.backgrounds : StructuredBackground(t.backgrounds[k])
    /\ t.charts # None =>
          /\ IsMap(t.charts) /\ \A i \in DOMAIN t.charts : IsStruct("chart", t.charts[i])
          /\ None # [i \in DOMAIN t.charts |-> Write("chart", t.charts[i])]

(* The template in memory.                                                 *)
Loaded == [instances |-> Normalized(template.instances), backgrounds |-> template.backgrounds,
           charts |-> template.charts, steps |-> steps]
=============================================================================
