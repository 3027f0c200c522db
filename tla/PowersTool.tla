--------------------------- MODULE PowersTool ---------------------------
(***************************************************************************)
(* The Powers adapter: which power-supply actions a step may ask for, what *)
(* the model of the supply has to support, how a report on its protection  *)
(* is read and which commands a protection setup amounts to.               *)
(***************************************************************************)
EXTENDS Arguments, FiniteSets, SequencesExt

CONSTANT MaxChannel  \* the largest u32

All == Text(<<97>>)  \* "all"
Unset == [is |-> "unset", of |-> <<>>]  \* a setting left out of a setup

PowersActions ==
    {"set-output", "set-voltage", "output-on", "output-off", "protection-status", "measure"}

worker_command(action) ==
    IF action \in {"set-output", "set-voltage"} THEN "set" ELSE action

Setpoints(action) ==
    CASE action = "set-voltage" -> {"voltage"}
      [] action = "set-output" -> {"voltage", "current"}
      [] OTHER -> {}

(* validate_arguments: what an action needs once every binding is a value. *)
validate_powers(action, arguments) ==
    /\ action \in PowersActions
    /\ Only(arguments, {"channel"} \cup Setpoints(action))
    /\ Has(arguments, "channel")
    /\ action = "set-voltage" => Has(arguments, "voltage")
    /\ \/ action = "protection-status" /\ Same(arguments.channel, All)
       \/ /\ IsPositive(arguments.channel)
          /\ action = "set-output" => Has(arguments, "voltage") \/ Has(arguments, "current")
          /\ \A field \in Setpoints(action) : Has(arguments, field) => IsNumber(arguments[field])

-----------------------------------------------------------------------------
(* A protection setup: at most one record per channel.                     *)

ProtectionFields == {"ovp_voltage", "ocp", "ocp_delay", "ocp_delay_trigger"}

powers_setup_is_valid(setup) ==
    setup.protected =>
        /\ setup.channels # <<>>
        /\ \A i \in DOMAIN setup.channels :
              LET record == setup.channels[i]
              IN /\ record.channel # 0
                 /\ \A j \in 1 .. i - 1 : setup.channels[j].channel # record.channel
                 /\ \E field \in ProtectionFields : record[field] # Unset
                 /\ \A field \in {"ovp_voltage", "ocp_delay"} :
                       record[field] # Unset => record[field].is = "real" \/ IsCount(record[field])

(* One protection-set command per record, with the fields it gives.        *)
protection_set_arguments(record) ==
    [field \in {"channel"} \cup {f \in ProtectionFields : record[f] # Unset} |->
        IF field = "channel" THEN Number(record.channel) ELSE record[field]]

protection_commands(setup) ==
    IF setup.protected
    THEN [i \in DOMAIN setup.channels |-> protection_set_arguments(setup.channels[i])]
    ELSE <<>>

-----------------------------------------------------------------------------
(* Live preflight, against the capabilities of the model.                  *)

Numbers(set) == {Number(n) : n \in set}

powers_capabilities_are_valid(capabilities, model) ==
    /\ capabilities.model_id = model /\ capabilities.name # ""
    /\ 0 \notin capabilities.channels

powers_action_is_supported(action, fixed, capabilities) ==
    action \in PowersActions /\ Has(fixed, "channel")
        /\ ~(action = "protection-status" /\ Same(fixed.channel, All))
    => Among(fixed.channel, Numbers(capabilities.channels))

powers_setup_is_supported(setup, capabilities) ==
    setup.protected =>
        \A i \in DOMAIN setup.channels :
            LET record == setup.channels[i]
            IN /\ record.channel \in capabilities.channels
               /\ \A field \in {"ovp_voltage", "ocp", "ocp_delay"} :
                     record[field] # Unset => field \in capabilities.features
               /\ record.ocp_delay_trigger # Unset =>
                     Among(record.ocp_delay_trigger, capabilities.triggers)

-----------------------------------------------------------------------------
(* Reports on the protection of all channels.                              *)

Flags(entries, flag) == \E i \in DOMAIN entries : entries[i][flag]
NoDuplicates(entries) ==
    \A i, j \in DOMAIN entries : entries[i].channel = entries[j].channel => i = j

(* A report that trusts its total.                                         *)
TrustsTotal(report) ==
    /\ NoDuplicates(report.protection) /\ NoDuplicates(report.outputs)
    /\ {report.protection[i].channel : i \in DOMAIN report.protection}
          = {report.outputs[i].channel : i \in DOMAIN report.outputs}

protection_report_is_accepted(report) ==
    /\ \A i \in DOMAIN report.protection : report.protection[i].channel \in 1 .. MaxChannel
    /\ \A i \in DOMAIN report.outputs : report.outputs[i].channel \in 1 .. MaxChannel
    /\ NoDuplicates(report.protection) /\ NoDuplicates(report.outputs)
    /\ {report.protection[i].channel : i \in DOMAIN report.protection}
          = {report.outputs[i].channel : i \in DOMAIN report.outputs}
    /\ report.ov = Flags(report.protection, "ov")
    /\ report.oc = Flags(report.protection, "oc")

parse_protection_status(report) ==
    [tripped |-> report.ov \/ report.oc, ov |-> report.ov, oc |-> report.oc,
     channels |-> {[channel |-> report.protection[i].channel,
                    on |-> \E j \in DOMAIN report.outputs :
                              report.outputs[j].channel = report.protection[i].channel
                              /\ report.outputs[j].on,
                    ov |-> report.protection[i].ov, oc |-> report.protection[i].oc]
                   : i \in DOMAIN report.protection}]

(* The total a Protection Status step adds to its result.                  *)
augment_protection_status(report) == report.ov \/ report.oc

(* A measurement answers for the channel it was asked for.                 *)
measure_result_is_valid(reading, channel) ==
    reading.channel = channel /\ reading.voltage /\ reading.current
=============================================================================
