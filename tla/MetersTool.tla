--------------------------- MODULE MetersTool ---------------------------
(***************************************************************************)
(* The Meters adapter: the setup of a meter and the number of readings its *)
(* worker is started for.                                                  *)
(***************************************************************************)
EXTENDS Integers

CONSTANTS
    MaxSamples,  \* readings per trigger, and readings of a run
    MaxDrain,    \* readings fetched at once
    Unlimited    \* no bound on the number of readings

ASSUME MetersAssumption == MaxSamples \in Nat \ {0} /\ MaxDrain \in Nat \ {0}

Custom == {"software-custom", "immediate-custom", "external-custom"}
External == {"external", "external-custom"}
SoftwareTriggered == {"software", "software-custom"}
Absent == -1  \* a setting left out

meters_setup_is_valid(setup) ==
    /\ setup.trigger_mode \in External => setup.hw_trigger_delay # "negative"
    /\ setup.trigger_mode \in Custom =>
          /\ setup.sample_count \in 1 .. MaxSamples
          /\ setup.buffer_drain_size # Absent => setup.buffer_drain_size \in 1 .. MaxDrain
    /\ setup.range_mode = "manual" => setup.manual_range # Absent
    /\ IF setup.measurement = "voltage-dc" THEN setup.current_terminal = Absent
       ELSE setup.dcv_input_impedance = Absent /\ setup.current_terminal \in {Absent, 3, 10}

(* Readings the worker gives before it ends by itself: a custom trigger    *)
(* counts triggers, any other mode counts readings.                        *)
trigger_arguments(limit, setup) ==
    [mode |-> setup.trigger_mode,
     triggers |-> IF setup.trigger_mode \in Custom THEN limit ELSE Unlimited,
     per_trigger |-> IF setup.trigger_mode \in Custom THEN setup.sample_count ELSE 1,
     readings |-> IF setup.trigger_mode \in Custom THEN Unlimited ELSE limit]

Readings(arguments) ==
    IF arguments.readings # Unlimited THEN arguments.readings
    ELSE IF arguments.triggers # Unlimited THEN arguments.triggers * arguments.per_trigger
    ELSE Unlimited

(* The range a manual setup passes on is there.                            *)
setup_arguments(setup) ==
    [measurement |-> setup.measurement,
     manual |-> setup.range_mode = "manual",
     range |-> IF setup.range_mode = "manual" THEN setup.manual_range ELSE Absent,
     terminal |-> IF setup.measurement = "current-dc" THEN setup.current_terminal ELSE Absent,
     impedance |-> IF setup.measurement = "voltage-dc" THEN setup.dcv_input_impedance ELSE Absent]
=============================================================================
