-------------------------- MODULE MCWorkbench --------------------------
EXTENDS Workbench

MCInstanceIds == {"meter", "power", "scope", "uart"}

-----------------------------------------------------------------------------
(* Steps.                                                                  *)

P1 == [name |-> "P", folded |-> "p", safe |-> TRUE]
P2 == [name |-> "p", folded |-> "p", safe |-> TRUE]
P3 == [name |-> "Q", folded |-> "q", safe |-> FALSE]
Range0 == [start |-> 0, stop |-> 2, step |-> 1, up |-> TRUE]

A(kind) ==
    [kind |-> kind, id |-> 0, uses |-> "nothing", ref |-> 0, read |-> "x", variable |-> "x",
     range |-> Range0, limit |-> 2, comparison |-> TRUE, name |-> "n", source |-> "value",
     format |-> None, page |-> P1, fields |-> 1, long |-> FALSE, target |-> "meter",
     action |-> "measure", arguments |-> NoBindings, bindings |-> NoBindings,
     background |-> "b", order |-> "capture-on", capture |-> FALSE,
     operator |-> "none", right |-> None]

(* References to steps, from inside and outside of blocks.                 *)
ScopeSteps ==
    {A("for"), A("while"), [A("while") EXCEPT !.limit = None], A("if"), A("wait")}
        \cup {[A("assert") EXCEPT !.uses = "step", !.ref = r] : r \in 1 .. 4}

VariableSteps ==
    {A("for"), [A("for") EXCEPT !.variable = "y"], A("if"),
     A("set-variable"), [A("set-variable") EXCEPT !.variable = "y"],
     [A("assert") EXCEPT !.uses = "variable"], [A("assert") EXCEPT !.uses = "variable", !.read = "y"]}

PageSteps ==
    {A("for"), A("if"), [A("output") EXCEPT !.source = "elapsed"],
     [A("show-message") EXCEPT !.long = TRUE], [A("show-message") EXCEPT !.fields = 3],
     [A("while") EXCEPT !.comparison = FALSE], [A("for") EXCEPT !.range.step = 0]}
        \cup {[A("output") EXCEPT !.name = n, !.page = p] : n \in {"a", "b"}, p \in {P1, P2, P3}}
        \cup {[A("show-message") EXCEPT !.uses = "step", !.ref = r] : r \in 1 .. 2}

CountSteps ==
    {A("for"), [A("for") EXCEPT !.range.stop = 0],
     [A("for") EXCEPT !.range = [start |-> 3, stop |-> 0, step |-> 2, up |-> FALSE]],
     A("while"), [A("while") EXCEPT !.limit = None], A("if"), A("tool-action"), A("wait")}

Two == Text(<<50>>)

(* Inputs.                                                                 *)
L(value) == Bound("literal", value)
V(value) == Bound("variable", value)
Computed(kind, left, operator, right) ==
    Bound(kind, [left |-> left, operator |-> operator, right |-> right])
Sum(left, right) == Computed("calculation", left, "add", right)
Quotient(left, right) == Computed("calculation", left, "divide", right)
TxInputs ==
    {L(Two), L(Number(7)), V(Two), V(Text(<<>>)), V(Number(301)), V(Tenths(-5)), V(Number(-1)),
     Bound("reading", Number(258)), Bound("elapsed", None), Bound("timestamp", None),
     Sum(V(Tenths(15)), L(Number(2))), Sum(V(Number(300)), L(Number(1))), Sum(V(Two), L(Number(1))),
     Computed("calculation", L(Number(20)), "multiply", V(Number(20))),
     Quotient(L(Number(-7)), V(Number(2))), Quotient(L(Number(1)), V(Number(0))),
     Computed("calculation-of-text", L(Two), "subtract", V(Number(1))),
     Computed("comparison", V(Number(1)), "equal", L(Tenths(10))),
     Computed("comparison", V(Number(1)), "less-than", L(Tenths(15)))}
    \cup {Computed("calculation", V(Tenths(-15)), operator, None) : operator \in Unary}

Tx == [tx_format |-> AsText, tx_value |-> Two]
Cr == [delimiter_format |-> AsText, delimiter_value |-> Text(<<92, 114>>)]
Query == Tx @@ Cr
With(fields, name, value) == [fields EXCEPT ![name] = value]
Serial(action, arguments, bindings) ==
    [A("tool-action") EXCEPT !.target = "uart", !.action = action,
                             !.arguments = arguments, !.bindings = bindings]

SerialSteps ==
    {Serial(a, Tx, NoBindings) : a \in {"send", "query", "unknown"}}
    \cup {Serial("send", With(Tx, "tx_value", v), NoBindings) : v \in {Number(1), Text(<<>>)}}
    \cup {Serial("send", [tx_format |-> AsHex, tx_value |-> v], NoBindings) :
             v \in {Number(0), Number(257), Number(-1), Number(301), Real, Two}}
    \cup {Serial("send", [tx_format |-> f], [tx_value |-> input]) :
             f \in {AsText, AsHex}, input \in TxInputs}
    \cup {Serial("send", Tx, [tx_format |-> Bound("literal", AsText)]),
          Serial("send-file", [path |-> Two], NoBindings),
          Serial("send-file", [path |-> Number(1)], NoBindings),
          Serial("receive", [max_bytes |-> Number(3)], NoBindings),
          Serial("receive", [tx_format |-> AsText], NoBindings),
          Serial("query", Query, [max_bytes |-> Bound("literal", Number(1))])}
    \cup {Serial("receive", [max_bytes |-> n], NoBindings) : n \in {Number(0), Number(5), Two}}
    \cup {Serial("query", [tx_format |-> AsText, tx_value |-> Two, delimiter_format |-> f,
                           delimiter_value |-> Text(v), max_bytes |-> Number(n)], NoBindings) :
             f \in {AsText, AsHex}, n \in {1, 2},
             v \in {<<>>, <<92>>, <<92, 120>>, <<48, 65>>, <<48, 65, 32, 102, 9, 48>>, <<49>>}}

Power(action, arguments, bindings) ==
    [A("tool-action") EXCEPT !.target = "power", !.action = action,
                             !.arguments = arguments, !.bindings = bindings]
Ch(n) == [channel |-> Number(n)]

PowerSteps ==
    {Power("measure", Ch(n), NoBindings) : n \in {0, 1, 2, 4}}
    \cup {Power("measure", [channel |-> All], NoBindings),
          Power("measure", NoBindings, [channel |-> Bound("variable", Real)]),
          Power("measure", Ch(1) @@ [current |-> Real], NoBindings),
          Power("output-on", NoBindings, [channel |-> Bound("variable", Real)]),
          Power("output-on", Ch(1) @@ [voltage |-> Real], NoBindings),
          Power("protection-status", [channel |-> All], NoBindings),
          Power("protection-status", Ch(3), NoBindings),
          Power("set-output", Ch(1), NoBindings),
          Power("set-output", Ch(1) @@ [current |-> Real], NoBindings),
          Power("set-output", Ch(1), [voltage |-> Bound("variable", Real)]),
          Power("set-voltage", Ch(1), NoBindings),
          Power("set-voltage", Ch(1), [voltage |-> Bound("literal", Two)]),
          Power("set-voltage", Ch(1), [voltage |-> Sum(V(Number(1)), L(Real))]),
          Power("set-voltage", Ch(1), [voltage |-> Bound("timestamp", Real)])}

Scope(action, arguments, bindings) ==
    [A("tool-action") EXCEPT !.target = "scope", !.action = action,
                             !.arguments = arguments, !.bindings = bindings]
Item == Text(<<105>>)
Hundred == Number(100)

ScopeSteps2 ==
    {Scope("autoscale", NoBindings, NoBindings),
     Scope("autoscale", [source_channel |-> List(<<1, 2>>)], NoBindings),
     Scope("autoscale", [source_channel |-> List(<<1, 1>>)], NoBindings),
     Scope("autoscale", [source_channel |-> List(<<3>>)], NoBindings),
     Scope("autoscale", [source_channel |-> List(<<>>)], NoBindings),
     Scope("autoscale", [source_channel |-> Number(1)], NoBindings),
     Scope("autoscale", [acquire_mode |-> Text(<<110>>)], NoBindings),
     Scope("autoscale", [channels |-> Two], NoBindings),
     Scope("autoscale", NoBindings, [channels |-> Bound("literal", Two)]),
     Scope("channel-scale", [channel |-> Number(1), volts_per_division |-> Real], NoBindings),
     Scope("channel-scale", [channel |-> Number(3), volts_per_division |-> Real], NoBindings),
     Scope("channel-scale", Ch(1), NoBindings),
     Scope("channel-scale", Ch(1), [volts_per_division |-> Bound("variable", Real)]),
     Scope("trigger-edge", [source_channel |-> Number(1), slope |-> Item, level |-> Real], NoBindings),
     Scope("trigger-edge", [source_channel |-> Number(1), slope |-> Two, level |-> Real], NoBindings),
     Scope("trigger-edge", [source_channel |-> Number(1), level |-> Real], NoBindings),
     Scope("measure", [channel |-> Number(2), item |-> Item], NoBindings),
     Scope("measure", [channel |-> Number(2), item |-> Text(<<32>>)], NoBindings),
     Scope("measure", [channel |-> Number(2)], [item |-> Bound("literal", Item)]),
     Scope("capture", [channel |-> List(<<1, 2>>), points |-> Hundred], NoBindings),
     Scope("capture", [channel |-> List(<<2, 2>>), points |-> Hundred], NoBindings),
     Scope("capture", [channel |-> List(<<>>), points |-> Hundred], NoBindings),
     Scope("capture", [channel |-> Number(1), points |-> Hundred], NoBindings),
     Scope("capture", [channel |-> List(<<1>>), points |-> Number(0)], NoBindings),
     Scope("capture", [channel |-> List(<<1>>), points |-> Number(7)], NoBindings),
     Scope("capture", [channel |-> List(<<1>>), points |-> Hundred, csv |-> Two], NoBindings),
     Scope("screenshot", NoBindings, NoBindings),
     Scope("screenshot", [format |-> Two], NoBindings),
     Scope("screenshot", NoBindings, [output |-> Bound("literal", Two)])}

-----------------------------------------------------------------------------
(* Instances and templates.                                                *)

MeterSetup ==
    [trigger_mode |-> "software", sample_count |-> 1, hw_trigger_delay |-> None,
     buffer_drain_size |-> Absent, allow_buffer_overflow_risk |-> FALSE, range_mode |-> "auto",
     manual_range |-> Absent, measurement |-> "voltage-dc", current_terminal |-> Absent,
     dcv_input_impedance |-> Absent]
SerialSetup ==
    [transport |-> "serial", baud |-> 9600, data_bits |-> 8, parity |-> "none", stop_bits |-> 1,
     flow_control |-> "none", timeout_ms |-> 3, connect_timeout_ms |-> 2, io_timeout_ms |-> 3]
NoProtection == [protected |-> FALSE, channels |-> <<>>]
Protection ==
    [channel |-> 1, ovp_voltage |-> Real, ocp |-> Unset, ocp_delay |-> Unset, ocp_delay_trigger |-> Unset]
Settings == [coupling |-> -1, probe_ratio |-> -1, bandwidth_limit |-> 1, invert |-> -1, units |-> -1]
Plain == [acquires |-> FALSE, type |-> "unset", count |-> -1, channels |-> <<>>]
Averaging == [acquires |-> TRUE, type |-> "average", count |-> 4,
              channels |-> <<[channel |-> 1, set |-> Settings]>>]

I(id, tool, setup) == [id |-> id, name |-> None, tool |-> tool, setup |-> setup]
Meter(setup) == I("meter", "meters", setup)
Uart(setup) == I("uart", "serial", setup)
Supply(setup) == I("power", "powers", setup)
Oscilloscope(setup) == I("scope", "scopes", setup)

T(instances) == [instances |-> instances, backgrounds |-> <<>>, charts |-> None]
All4 == <<Meter(MeterSetup), Supply(NoProtection), Oscilloscope(Plain), Uart(SerialSetup)>>

Meters ==
    {[MeterSetup EXCEPT !.trigger_mode = m, !.sample_count = n, !.allow_buffer_overflow_risk = a] :
        m \in {"software-custom", "immediate-custom"}, n \in {0, 2, 5}, a \in BOOLEAN}
    \cup {[MeterSetup EXCEPT !.trigger_mode = "external", !.hw_trigger_delay = d] :
             d \in {None, "negative", "second"}}
    \cup {[MeterSetup EXCEPT !.range_mode = "manual", !.manual_range = r] : r \in {Absent, 10}}
    \cup {[MeterSetup EXCEPT !.measurement = "current-dc", !.current_terminal = t] : t \in {Absent, 3, 5}}
    \cup {[MeterSetup EXCEPT !.buffer_drain_size = 4], [MeterSetup EXCEPT !.current_terminal = 3],
          [MeterSetup EXCEPT !.dcv_input_impedance = 10], MeterSetup}
Uarts ==
    {SerialSetup, [SerialSetup EXCEPT !.baud = 0], [SerialSetup EXCEPT !.data_bits = 9],
     [SerialSetup EXCEPT !.parity = "even", !.stop_bits = 2], [SerialSetup EXCEPT !.io_timeout_ms = 2],
     [SerialSetup EXCEPT !.transport = "tcp", !.connect_timeout_ms = 3, !.flow_control = "software"],
     [SerialSetup EXCEPT !.connect_timeout_ms = 0]}
Supplies ==
    {[protected |-> TRUE, channels |-> c] :
        c \in {<<>>, <<Protection>>, <<Protection, Protection>>,
               <<[Protection EXCEPT !.ovp_voltage = Unset]>>,
               <<Protection, [Protection EXCEPT !.channel = 2, !.ocp = Real,
                                                !.ocp_delay = Number(1), !.ocp_delay_trigger = Item]>>}}
Oscilloscopes ==
    {Averaging, [Averaging EXCEPT !.type = "normal"], [Averaging EXCEPT !.count = 1],
     [Averaging EXCEPT !.type = "unset"], [Averaging EXCEPT !.count = NoSetting],
     [Averaging EXCEPT !.channels = <<@[1], @[1]>>], [Averaging EXCEPT !.channels[1].set.probe_ratio = 10],
     [Averaging EXCEPT !.channels[1].set.bandwidth_limit = -1]}

Background(owner) ==
    [id |-> "b", owner |-> owner, live_monitor |-> FALSE, count |-> None, timer |-> None,
     measurements |-> <<>>, interval |-> None]
M1 == [id |-> "m1", channel |-> 1, item |-> "vpp", reference |-> None]
ScopeBackground == [Background("scope") EXCEPT !.measurements = <<M1>>]
Backgrounds ==
    {<<Background("uart")>>, <<[Background("uart") EXCEPT !.live_monitor = TRUE]>>,
     <<[Background("uart") EXCEPT !.count = 1]>>, <<Background("power")>>, <<Background("nobody")>>,
     <<Background("meter")>>, <<[Background("meter") EXCEPT !.timer = 2, !.count = 3]>>,
     <<[Background("meter") EXCEPT !.timer = 2, !.interval = 1]>>,
     <<[Background("meter") EXCEPT !.count = 9, !.timer = 2]>>,
     <<ScopeBackground>>, <<[ScopeBackground EXCEPT !.interval = 2, !.count = 2]>>,
     <<[ScopeBackground EXCEPT !.interval = 3]>>, <<Background("scope")>>,
     <<[ScopeBackground EXCEPT !.measurements = <<M1, M1>>]>>,
     <<[ScopeBackground EXCEPT !.measurements = <<M1, [M1 EXCEPT !.id = "m2", !.reference = 2]>>]>>,
     <<[ScopeBackground EXCEPT !.measurements[1].item = ""]>>,
     <<Background("uart"), ScopeBackground>>,
     <<Background("uart"), [ScopeBackground EXCEPT !.id = "c"]>>,
     <<Background("uart"), [Background("uart") EXCEPT !.id = "c"]>>}

Chart ==
    [source |-> None, page |-> "P", outputs |-> <<"a">>, type |-> "line", scatter_x |-> None,
     sizes |-> <<10>>, axes |-> <<[min |-> 0, max |-> 1, interval |-> None]>>,
     mode |-> "auto", bins |-> None, deviation |-> None]
Source(field) == [background |-> "b", field |-> field]
OfBackground == [Chart EXCEPT !.source = Source("value"), !.page = None, !.outputs = <<"value">>]
PageCharts ==
    {<<>>, <<Chart>>, <<Chart, Chart, Chart>>, <<[Chart EXCEPT !.page = "Q"]>>,
     <<[Chart EXCEPT !.outputs = <<>>]>>, <<[Chart EXCEPT !.outputs = <<"b">>]>>,
     <<[Chart EXCEPT !.type = "combo"]>>, <<[Chart EXCEPT !.type = "combo", !.outputs = <<"a", "b">>]>>,
     <<[Chart EXCEPT !.type = "scatter", !.scatter_x = "b"]>>, <<[Chart EXCEPT !.sizes = <<0>>]>>,
     <<[Chart EXCEPT !.axes[1].max = 0]>>, <<[Chart EXCEPT !.axes[1].interval = 0]>>}
    \cup {<<[Chart EXCEPT !.type = "histogram", !.mode = m, !.bins = b, !.deviation = d]>> :
             m \in {"auto", "count", "width"}, b \in {None, 15, 20}, d \in {None, 0, 3}}
BackgroundCharts ==
    {<<OfBackground>>, <<[OfBackground EXCEPT !.source.field = "m1"]>>,
     <<[OfBackground EXCEPT !.type = "combo"]>>, <<[OfBackground EXCEPT !.page = "P"]>>}

Changed(i, setups) == {T([All4 EXCEPT ![i].setup = s]) : s \in setups}
Templates ==
    Changed(1, Meters) \cup Changed(2, Supplies) \cup Changed(3, Oscilloscopes) \cup Changed(4, Uarts)
    \cup {[T(All4) EXCEPT !.backgrounds = b] : b \in Backgrounds}
    \cup {[T([All4 EXCEPT ![1].setup = s]) EXCEPT !.backgrounds = <<[Background("meter") EXCEPT
             !.count = c, !.timer = t]>>] : s \in Meters, c \in {None, 4, 5}, t \in {None, 2}}
    \cup {[T(All4) EXCEPT !.charts = c] : c \in PageCharts}
    \cup {[T(All4) EXCEPT !.charts = c, !.backgrounds = <<b>>] : c \in BackgroundCharts,
             b \in {[Background("meter") EXCEPT !.timer = 2], ScopeBackground, Background("uart")}}
    \cup {T([All4 EXCEPT ![4].name = n, ![3].id = d]) : n \in {"blank", "padded"}, d \in {"scope", "uart"}}

TemplateSteps ==
    {A("background"), [A("background") EXCEPT !.order = "worker-on", !.capture = TRUE],
     [A("background") EXCEPT !.capture = TRUE], [A("background") EXCEPT !.background = "c"],
     A("tool-action"), [A("tool-action") EXCEPT !.target = "nobody"],
     [A("output") EXCEPT !.name = "a"], [A("output") EXCEPT !.name = "b"],
     [A("output") EXCEPT !.name = "a", !.source = "timestamp", !.format = "timestamp"],
     [A("set-variable") EXCEPT !.operator = "unary"],
     [A("set-variable") EXCEPT !.operator = "binary", !.right = "operand"]}
    \cup {Serial("send", Tx, NoBindings)}

-----------------------------------------------------------------------------
(* Executables, capabilities and configurations.                           *)

F(list) == [version |-> 1, list |-> list]
Features ==
    (AsyncJobs :> F({})) @@ (JobCancel :> F({"query"})) @@ (Streaming :> F({"run_bound", "deferred_start"}))
Manifest0(tool, commands) ==
    [tool |-> tool, tool_version |-> "1", versions |-> {3}, policy |-> "v3-only",
     model |-> IF tool = "meters" THEN "run_bound" ELSE "multi_job",
     binding |-> IF tool = "powers" THEN "per_command" ELSE "startup",
     features |-> Features, commands |-> [c \in commands |-> "async_job"]]
Installed(manifest) ==
    [status |-> "available", probe |-> [timeout |-> FALSE, status |-> 0, utf8 |-> TRUE, manifest |-> manifest]]
Serial3 == Manifest0("serial", SerialCommands)

MCExecutables ==
    [meters |-> Installed(Manifest0("meters", {})),
     powers |-> Installed(Manifest0("powers", {"set", "measure"})),
     scopes |-> Installed(Manifest0("scopes", {"measure"})),
     serial |-> Installed(Serial3),
     plain |-> Installed([Serial3 EXCEPT !.features = (AsyncJobs :> F({}))]),
     old |-> Installed([Serial3 EXCEPT !.versions = {2}]),
     torn |-> Installed([Serial3 EXCEPT !.features[JobCancel].list = {}]),
     gone |-> [status |-> "missing", probe |-> [timeout |-> TRUE, status |-> 0, utf8 |-> TRUE, manifest |-> Serial3]]]

MCPowersModels ==
    [P1 |-> [model_id |-> "P1", name |-> "Supply", channels |-> {1, 2},
             features |-> {"ovp_voltage"}, triggers |-> {}],
     P2 |-> [model_id |-> "P1", name |-> "Supply", channels |-> {1}, features |-> {}, triggers |-> {}]]
MCScopesModels ==
    [S1 |-> [model_id |-> "S1", channels |-> 2,
             options |-> [item |-> {Item}, slope |-> {Item}, points |-> {Hundred}, format |-> {Png}],
             types |-> {"normal", "average"}, counts |-> {4}],
     S2 |-> [model_id |-> "S2", channels |-> 1,
             options |-> [item |-> {}, slope |-> {}, points |-> {}, format |-> {}],
             types |-> {"normal"}, counts |-> {}]]

R(is, key, spelled, port) == [is |-> is, key |-> key, spelled |-> spelled, port |-> port]
Com == R("name", "com1", "upper", 0)
com == R("name", "com1", "lower", 0)
Visa == R("name", "usb", "upper", 0)
Visa2 == R("name", "usb2", "upper", 0)
Visa3 == R("name", "usb3", "upper", 0)
Tcp == R("endpoint", "host", "upper", 1)

Exes == [tool \in Tools |-> tool]
Full == [exe |-> Exes,
         resource |-> [meter |-> Visa, power |-> Visa2, scope |-> Visa3, uart |-> Com],
         model |-> [meter |-> None, power |-> "P1", scope |-> "S1", uart |-> None],
         backend |-> [id \in MCInstanceIds |-> None]]
Configs ==
    {Full, Empty, [Full EXCEPT !.resource["power"] = None], [Full EXCEPT !.model["power"] = "P2"],
     [Full EXCEPT !.model["scope"] = "S2"], [Full EXCEPT !.model["scope"] = None],
     [Full EXCEPT !.resource["uart"] = Tcp], [Full EXCEPT !.resource["meter"] = Visa2],
     [Full EXCEPT !.exe["powers"] = "gone"]}

MCResources == {Com, com}
MCModels == {None}

(* Two Serial instances: one queried, one with a background.               *)
Pair == <<I("uart", "serial", SerialSetup), I("scope", "serial", SerialSetup)>>
PairTemplate == [T(Pair) EXCEPT !.backgrounds = <<Background("scope")>>]
PairConfig == [Full EXCEPT !.resource["scope"] = Visa]

Local0 == [scheme |-> "http", userinfo |-> FALSE, host |-> "127.0.0.1", port |-> 1]
NoUrl == [scheme |-> "none", userinfo |-> FALSE, host |-> "", port |-> 0]
Ready ==
    [version |-> 3, utc |-> TRUE, run_id |-> "r", features |-> (AsyncJobs :> F({})), lifecycle |-> "none",
     state |-> "none", urls |-> [status |-> Local0, command |-> Local0, stop |-> Local0, cancel |-> NoUrl]]
Streams == [Ready EXCEPT !.features = @ @@ (Streaming :> F({"deferred_start"})), !.lifecycle = "deferred_start"]
MCReadies ==
    {Ready, Streams, [Streams EXCEPT !.lifecycle = "run_bound"],
     [Ready EXCEPT !.features = @ @@ ("vendor" :> F({}))],
     [Ready EXCEPT !.features = NoBindings],
     [Ready EXCEPT !.features = @ @@ (JobCancel :> F({"query"})), !.urls.cancel = Local0],
     [Ready EXCEPT !.features = @ @@ (JobCancel :> F({"query"}))],
     [Ready EXCEPT !.urls.stop.host = "10.0.0.1"]}

-----------------------------------------------------------------------------
(* Instruments at work.                                                    *)

MCProtections == {<<1, "ov">>, <<2, "oc">>}

SupplySteps ==
    {Power("output-on", Ch(1), NoBindings),
     Power("protection-status", [channel |-> All], NoBindings)}

ReadingSteps ==
    {A("tool-action"), A("wait"),
     Power("measure", Ch(2), NoBindings), Power("output-off", Ch(1), NoBindings),
     Power("set-voltage", NoBindings, [voltage |-> V(Real)]),
     Power("set-voltage", Ch(1), [voltage |-> Quotient(L(Number(1)), V(Number(0)))]),
     Scope("capture", [channel |-> List(<<1>>), points |-> Hundred], NoBindings),
     Scope("screenshot", NoBindings, NoBindings),
     Scope("channel-scale", [channel |-> Number(1)], [volts_per_division |-> V(Real)]),
     Serial("send-file", [path |-> Two], NoBindings), Serial("send-file", [path |-> Item], NoBindings),
     Serial("query", [tx_format |-> AsHex] @@ Cr, [tx_value |-> Bound("reading", Number(258))])}

MCFiles ==
    LET File == [absolute |-> TRUE, remote |-> FALSE, regular |-> TRUE, bytes |-> 1, readable |-> TRUE]
    IN (Two.of :> File) @@ (Item.of :> [File EXCEPT !.bytes = 0])

-----------------------------------------------------------------------------
(* Workers that are talked to.                                             *)

Session(feature, list, lifecycle, scopes) ==
    [features |-> (feature :> F(list)), lifecycle |-> lifecycle, urls |-> Ready.urls, scopes |-> scopes]
MCSessions ==
    {Session(AsyncJobs, {}, "none", FALSE), Session(Streaming, {"run_bound"}, "run_bound", FALSE),
     Session(Streaming, {"deferred_start"}, "deferred_start", TRUE)}

-----------------------------------------------------------------------------
(* Results that are looked at.                                             *)

Cell0(is, v) == [is |-> is, of |-> v]
NumberRows(values) == {("a" :> Cell0("number", v)) : v \in values}
Stamp(cell) == ("a" :> Cell0("number", 0)) @@ ("t" :> cell)
Noted == [is |-> "text", of |-> 0]

Output0(is) == [is |-> is, long |-> FALSE, large |-> FALSE, fields |-> {}]
Measured == [Output0("object") EXCEPT !.fields = {"value", "unit"}]
Executed(step, status, value) ==
    [step |-> step, status |-> status, root |-> step # "leaf", message |-> step = "message", value |-> value]
MCExecutions ==
    {Executed("leaf", "succeeded", value) :
        value \in {Output0("number"), Output0("text"), [Output0("text") EXCEPT !.long = TRUE],
                   Measured, [Measured EXCEPT !.long = TRUE, !.large = TRUE],
                   [Measured EXCEPT !.fields = @ \cup {"more"}],
                   [Output0("object") EXCEPT !.fields = {"more"}],
                   [Output0("array") EXCEPT !.large = TRUE]}}
    \cup {Executed("root", status, Output0("number")) : status \in {"succeeded", "failed", "cancelled"}}
    \cup {Executed("message", "succeeded", Output0("text"))}

Look == [rows |-> {}, executions |-> FALSE, messages |-> FALSE, events |-> 0, runs |-> 1, pane |-> "columns"]
ColumnLook == [Look EXCEPT !.rows = NumberRows({0, 1, 3, 10}) \cup {Stamp(Noted)}, !.events = 5]
LogLook == [Look EXCEPT !.executions = TRUE, !.messages = TRUE, !.events = 3, !.pane = "log"]
TableLook == [Look EXCEPT !.rows = NumberRows({0}), !.events = 4, !.runs = 2, !.pane = "table"]
ChartLook == [Look EXCEPT !.rows = {Stamp(Cell0("stamp", 0)), Stamp(Noted)}, !.events = 3, !.runs = 2,
                      !.pane = "chart"]

-----------------------------------------------------------------------------
(* Sources that are fed from.                                              *)

Reading(n, at, value, valid) ==
    [is |-> "sample", captured |-> n, at |-> at, value |-> value, valid |-> valid]
Tape(values) == [n \in DOMAIN values |-> {Reading(n, 2 * n, values[n], TRUE)}]
Rx(n, bytes) == [is |-> "rx", at |-> n, bytes |-> bytes]

Silent ==
    [tool |-> "meters", field |-> "value", live_monitor |-> FALSE, limit |-> 0, batch |-> 1, interval |-> 0,
     hours |-> 0, runs |-> 1, captures |-> 0, room |-> 1, chatty |-> FALSE, tape |-> <<>>, queries |-> {}]

\* Two readings for a measurement, without a limit and with one.
TimerFeed == [Silent EXCEPT !.batch = 2, !.interval = 1, !.room = 2]
TimerFeeds ==
    {[TimerFeed EXCEPT !.hours = 2, !.chatty = TRUE, !.tape = Tape(<<0, 0>>)],
     [TimerFeed EXCEPT !.hours = 3, !.limit = 4, !.tape = Tape(<<0, 0, 0, 0>>)]}

SerialFeed ==
    [Silent EXCEPT !.tool = "serial", !.live_monitor = TRUE,
                   !.tape = [n \in 1 .. 4 |-> {Rx(n, bytes) : bytes \in {1, 3, 5}}]]
AgainFeed == [SerialFeed EXCEPT !.runs = 2, !.tape = [n \in 1 .. 2 |-> {Rx(n, bytes) : bytes \in {1, 5}}]]
ScopesFeed ==
    [Silent EXCEPT !.tool = "scopes", !.field = "m1", !.live_monitor = TRUE, !.captures = 2,
                   !.tape = [n \in 1 .. 3 |-> {Reading(n, n, v, TRUE) : v \in {0, 5}} \cup {Reading(n, n, 0, FALSE)}]]

Query0 == [field |-> "value", axis |-> "index", type |-> "line", range |-> Nothing, raw |-> FALSE, budget |-> 4]
Between(min, max) == [min |-> min, max |-> max]
Queries ==
    {[Query0 EXCEPT !.type = type, !.range = range] :
        type \in {"line", "column"}, range \in {Nothing, Between(2, 9)}}
    \cup {[Query0 EXCEPT !.budget = 6, !.axis = "elapsed"], [Query0 EXCEPT !.raw = TRUE],
          [Query0 EXCEPT !.raw = TRUE, !.axis = "elapsed", !.range = Between(3, 12)],
          [Query0 EXCEPT !.range = Between(4, 3)], [Query0 EXCEPT !.field = "m1"], [Query0 EXCEPT !.budget = 3]}
ChartFeed == [Silent EXCEPT !.queries = Queries]

\* One that conforms, one with a reading that is not valid and one that
\* came before its time, and one that counts wrongly at the end.
ChartFeeds ==
    {[ChartFeed EXCEPT !.tape = Tape(<<2, 9, 0, 1, 5, 3, 3>>)],
     [ChartFeed EXCEPT !.tool = "scopes",
                       !.tape = [Tape(<<5, 2, 9, 0, 1, 5, 3, 1>>) EXCEPT ![3] = {Reading(3, 6, 0, FALSE)},
                                                                         ![5] = {Reading(5, 2, 5, TRUE)}]],
     [ChartFeed EXCEPT !.queries = {Query0}, !.tape = [Tape(<<1, 2, 9, 0>>) EXCEPT ![4] = {Reading(3, 8, 5, TRUE)}]]}

-----------------------------------------------------------------------------
(* The scenes.                                                             *)

Desk(alphabet, length, instances, configs) ==
    [alphabet |-> alphabet, again |-> {}, length |-> length, templates |-> instances,
     configs |-> configs, then |-> "end", edits |-> 0, trips |-> 0, runs |-> FALSE,
     asks |-> FALSE, sessions |-> {}, looks |-> {}, feeds |-> {}]

SceneNames ==
    {"scope", "variables", "pages", "counts", "serial", "tools", "templates",
     "unbounded", "pair", "supply", "readings", "replies", "looks", "feeds"}

MCScenes ==
    [name \in SceneNames |->
        CASE name = "scope" -> [Desk(ScopeSteps, 5, {T(<<>>)}, {Empty}) EXCEPT !.again = {1}]
          [] name = "variables" -> Desk(VariableSteps, 5, {T(<<>>)}, {Empty})
          [] name = "pages" -> Desk(PageSteps, 4, {T(<<>>)}, {Empty})
          [] name = "counts" -> Desk(CountSteps, 5, {T(<<Meter(MeterSetup)>>)}, {Empty})
          [] name = "serial" -> Desk(SerialSteps, 1, {T(All4)}, {Full})
          [] name = "tools" -> Desk(PowerSteps \cup ScopeSteps2, 1,
                    {T(All4), T([All4 EXCEPT ![2].setup = [protected |-> TRUE, channels |-> <<Protection>>],
                                               ![3].setup = Averaging])}, Configs)
          [] name = "templates" -> Desk(TemplateSteps, 2, Templates, {Empty})
          [] name = "unbounded" -> [Desk({[A("while") EXCEPT !.limit = None], A("tool-action")}, 3,
                         {T(<<Meter(MeterSetup)>>)}, {Full}) EXCEPT !.then = "prepare", !.edits = 1]
          [] name = "pair" -> [Desk({Serial("send", Tx, NoBindings)}, 1, {PairTemplate}, {PairConfig}) EXCEPT !.then = "prepare", !.edits = 1]
          [] name = "supply" -> [Desk(SupplySteps, 2, {T(All4)}, {Full}) EXCEPT
                    !.then = "work", !.trips = 1, !.runs = TRUE, !.asks = TRUE]
          [] name = "readings" -> [Desk(ReadingSteps, 2, {T(All4)}, {Full}) EXCEPT !.then = "work", !.runs = TRUE]
          [] name = "replies" -> [Desk({}, 0, {T(<<>>)}, {Empty}) EXCEPT !.then = "talk", !.sessions = Sessions]
          [] name = "looks" -> [Desk({}, 0, {T(<<>>)}, {Empty}) EXCEPT
                   !.then = "look", !.looks = {ColumnLook, LogLook, TableLook, ChartLook}]
          [] name = "feeds" -> [Desk({}, 0, {T(<<>>)}, {Empty}) EXCEPT
                   !.then = "feed", !.feeds = TimerFeeds \cup {SerialFeed, AgainFeed, ScopesFeed} \cup ChartFeeds]]
=============================================================================
