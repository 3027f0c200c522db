--------------------------- MODULE SerialTool ---------------------------
(***************************************************************************)
(* The Serial adapter: how a send, a receive or a query of a workflow      *)
(* becomes a command of the Serial worker, what the author of a workflow   *)
(* is told beforehand, and how the worker is started.                      *)
(***************************************************************************)
EXTENDS Arguments, SequencesExt, Folds

CONSTANTS
    MaxBytes,        \* the most bytes one receive may ask for
    DefaultBytes,    \* asked for when the step does not say
    MaxSafeInteger,  \* the largest integer a JSON number holds exactly
    MaxPort

ASSUME SerialAssumption ==
    /\ DefaultBytes \in 1 .. MaxBytes
    /\ MaxBytes \in Nat /\ MaxSafeInteger \in Nat /\ MaxPort \in Nat

Invalid == <<-1>>  \* no byte sequence
SerialActions == {"send", "send-file", "receive", "query"}
TxFormats == {Text(<<116>>), Text(<<104>>)}  \* "text" and "hex-byte"
AsText == Text(<<116>>)
AsHex == Text(<<104>>)

-----------------------------------------------------------------------------
(* Bytes to send.  A hex byte keeps the low eight bits of a number.        *)

hex_byte(value) ==
    IF value.is = "number" /\ value.of[1] \in 0 .. MaxSafeInteger
    THEN <<value.of[1] % 256>> ELSE Invalid

encode_tx(format, value) ==
    IF Same(format, AsHex) THEN hex_byte(value)
    ELSE IF Same(format, AsText) /\ IsText(value) /\ value.of # <<>> THEN value.of
    ELSE Invalid

(* The delimiter of a query: escapes in a text, pairs of digits in hex.    *)
Backslash == 92
Escaped(c) == CASE c = 114 -> 13 [] c = 110 -> 10 [] c = Backslash -> Backslash [] OTHER -> -1

unescape(text) ==
    LET Next(byte, seen) ==
            IF seen.escape
            THEN [out |-> Append(seen.out, Escaped(byte)), escape |-> FALSE]
            ELSE IF byte = Backslash THEN [seen EXCEPT !.escape = TRUE]
            ELSE [seen EXCEPT !.out = Append(@, byte)]
        all == FoldLeft(LAMBDA seen, byte : Next(byte, seen), [out |-> <<>>, escape |-> FALSE], text)
    IN IF all.escape \/ \E i \in DOMAIN all.out : all.out[i] = -1 THEN Invalid ELSE all.out

Digit(c) == CASE c \in 48 .. 57 -> c - 48 [] c \in 97 .. 102 -> c - 87 [] c \in 65 .. 70 -> c - 55
              [] OTHER -> -1

AsciiWhitespace == {9, 10, 12, 13, 32}

hex_pairs(text) ==
    LET digits == SelectSeq(text, LAMBDA c : c \notin AsciiWhitespace)
    IN IF Len(digits) % 2 = 1 \/ \E i \in DOMAIN digits : Digit(digits[i]) = -1 THEN Invalid
       ELSE [i \in 1 .. Len(digits) \div 2 |-> 16 * Digit(digits[2 * i - 1]) + Digit(digits[2 * i])]

delimiter_bytes(format, text) ==
    CASE Same(format, AsText) -> unescape(text.of)
      [] Same(format, AsHex) -> hex_pairs(text.of)
      [] OTHER -> Invalid

-----------------------------------------------------------------------------
(* What a Serial step may say.                                             *)

SerialFields(action) ==
    CASE action = "send" -> {"tx_format", "tx_value"}
      [] action = "send-file" -> {"path"}
      [] action = "receive" -> {"max_bytes"}
      [] action = "query" -> {"tx_format", "tx_value", "delimiter_format", "delimiter_value", "max_bytes"}
      [] OTHER -> {}

ValidTx(arguments, bindings) ==
    /\ Has(arguments, "tx_format") /\ Among(arguments.tx_format, TxFormats)
    /\ IF Has(bindings, "tx_value")
       THEN LET input == bindings.tx_value
                hex == Same(arguments.tx_format, AsHex)
            IN /\ input.kind = "literal" => encode_tx(arguments.tx_format, input.value) # Invalid
               /\ hex => input.kind \notin {"comparison", "calculation-of-text", "timestamp"}
       ELSE /\ Has(arguments, "tx_value")
            /\ encode_tx(arguments.tx_format, arguments.tx_value) # Invalid

(* Every bound counts as usable, the length of a delimiter among them.     *)
UnboundedDelimiter(arguments, max) ==
    /\ Has(arguments, "delimiter_format") /\ Has(arguments, "delimiter_value")
    /\ IsText(arguments.delimiter_value)
    /\ delimiter_bytes(arguments.delimiter_format, arguments.delimiter_value) # Invalid

ValidDelimiter(arguments, max) ==
    /\ Has(arguments, "delimiter_format") /\ Has(arguments, "delimiter_value")
    /\ IsText(arguments.delimiter_value)
    /\ LET bytes == delimiter_bytes(arguments.delimiter_format, arguments.delimiter_value)
       IN bytes # Invalid /\ Len(bytes) \in 1 .. max

MaxOf(arguments) == IF Has(arguments, "max_bytes") THEN arguments.max_bytes ELSE Number(DefaultBytes)

validate_serial(action, arguments, bindings) ==
    /\ action \in SerialActions
    /\ Only(arguments, SerialFields(action))
    /\ Only(bindings, IF action \in {"send", "query"} THEN {"tx_value"} ELSE {})
    /\ action \in {"send", "query"} => ValidTx(arguments, bindings)
    /\ action = "send-file" => Has(arguments, "path") /\ IsText(arguments.path)
    /\ IsCount(MaxOf(arguments)) /\ MaxOf(arguments).of[1] \in 1 .. MaxBytes
    /\ action = "query" => ValidDelimiter(arguments, MaxOf(arguments).of[1])

(* The command that run_action gives the worker once bindings are values.  *)
serial_command(action, arguments) ==
    [command |-> action,
     tx |-> IF action \in {"send", "query"} THEN encode_tx(arguments.tx_format, arguments.tx_value) ELSE <<>>,
     delimiter |-> IF action = "query"
                   THEN delimiter_bytes(arguments.delimiter_format, arguments.delimiter_value) ELSE <<>>,
     max |-> IF action \in {"receive", "query"} THEN MaxOf(arguments).of[1] ELSE 0]

(* A file can be sent when it is absolute, local, regular and not empty.   *)
SendableFile(file) == file.absolute /\ ~file.remote /\ file.regular /\ file.bytes > 0 /\ file.readable

-----------------------------------------------------------------------------
(* Serial setup and the worker's command line.                             *)

serial_setup_is_valid(setup) ==
    /\ setup.baud # 0
    /\ setup.data_bits \in 5 .. 8
    /\ setup.parity \in {"none", "odd", "even"}
    /\ setup.stop_bits \in 1 .. 2
    /\ setup.flow_control \in {"none", "software", "hardware"}
    /\ setup.connect_timeout_ms # 0 /\ setup.io_timeout_ms # 0

(* A resource is blank, a plain name or reads as host:port; key is what it *)
(* names with case folded, spelled tells spellings of one key apart.       *)
IsEndpoint(resource) == resource.is = "endpoint" /\ resource.port \in 1 .. MaxPort

serial_launches(setup, live, resource) ==
    /\ serial_setup_is_valid(setup)
    /\ live => /\ resource.is # "blank"
               /\ setup.transport = "tcp" <=> IsEndpoint(resource)
=============================================================================
