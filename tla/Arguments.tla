--------------------------- MODULE Arguments ---------------------------
(***************************************************************************)
(* The JSON values that steps carry to the tools.  A value is a record     *)
(* with its JSON type and its contents as a sequence of integers: one      *)
(* integer for a number, byte values for a text, members for a list.       *)
(* Arguments are a function from field names to values, bindings one from  *)
(* field names to inputs that are resolved when the step runs.             *)
(***************************************************************************)
EXTENDS Integers, Sequences

Number(n) == [is |-> "number", of |-> <<n>>]
Tenths(n) == [is |-> "real", of |-> <<n>>]  \* a floating-point number, in tenths
Real == Tenths(5)
Text(bytes) == [is |-> "text", of |-> bytes]
List(members) == [is |-> "list", of |-> members]

IsNumber(value) == value.is \in {"number", "real"}
(* Value::as_u64 succeeds.                                                 *)
IsCount(value) == value.is = "number" /\ value.of[1] >= 0
IsPositive(value) == IsCount(value) /\ value.of[1] > 0
IsText(value) == value.is = "text"
IsBytes(value) == IsText(value) => \A i \in DOMAIN value.of : value.of[i] \in 0 .. 255
(* Spaces are the only blank the texts here use.                           *)
IsBlank(text) == \A i \in DOMAIN text.of : text.of[i] = 32

Has(fields, name) == name \in DOMAIN fields
Only(fields, names) == DOMAIN fields \subseteq names
Same(a, b) == a.is = b.is /\ a.of = b.of
Among(value, options) == \E option \in options : Same(value, option)

(* The kinds of input a binding may hold.  A calculation combines numeric  *)
(* literals and variables, a reading refers to the result of a step.  The  *)
(* value of a variable or a reading is the one it has when the step runs,  *)
(* that of an expression is an operator with its operands (Expressions).   *)
Expressions == {"calculation", "calculation-of-text", "calculation-of-reading", "comparison"}
Bound(kind, value) == [kind |-> kind, value |-> value]
=============================================================================
