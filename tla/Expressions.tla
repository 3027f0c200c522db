-------------------------- MODULE Expressions --------------------------
(***************************************************************************)
(* What an input of a step is worth when the step runs (DataContext), and  *)
(* the arguments a tool action is dispatched with.  Floating-point numbers *)
(* are counted in tenths; beyond MaxReal they are not finite.              *)
(***************************************************************************)
EXTENDS SerialTool

CONSTANT MaxReal

Failed == [is |-> "failed", of |-> <<>>]  \* ResolveError
Bool(truth) == [is |-> "bool", of |-> <<IF truth THEN 1 ELSE 0>>]

-----------------------------------------------------------------------------
Unary == {"round", "floor", "ceil", "trunc"}
Equalities == {"equal", "not-equal"}

(* Value::as_f64: any number, in tenths.                                   *)
as_f64(value) == IF value.is = "number" THEN 10 * value.of[1] ELSE value.of[1]

Floor(x) == 10 * (x \div 10)
Trunc(x) == IF x >= 0 THEN Floor(x) ELSE -Floor(-x)

(* Half a unit is rounded away from zero.                                  *)
Whole(operator, x) ==
    CASE operator = "floor" -> Floor(x)
      [] operator = "ceil" -> -Floor(-x)
      [] operator = "trunc" -> Trunc(x)
      [] operator = "round" -> IF x >= 0 THEN Floor(x + 5) ELSE -Floor(5 - x)

(* Number::from_f64: a result that is not finite is no number.             *)
from_f64(x) == IF x \in -MaxReal .. MaxReal THEN Tenths(x) ELSE Failed

Arithmetic(operator, x, y) ==
    CASE operator = "add" -> from_f64(x + y)
      [] operator = "subtract" -> from_f64(x - y)
      [] operator = "multiply" -> from_f64((x * y) \div 10)
      [] operator = "divide" -> IF y = 0 THEN Failed
                                ELSE from_f64(IF y > 0 THEN (10 * x) \div y ELSE (-10 * x) \div (-y))

Ordering(operator, x, y) ==
    CASE operator = "greater-than" -> x > y
      [] operator = "greater-than-or-equal" -> x >= y
      [] operator = "less-than" -> x < y
      [] operator = "less-than-or-equal" -> x <= y

(* An operand is a literal, a variable or a reading; an equality compares  *)
(* JSON values, in which the integer 1 differs from the real 1.0.          *)
Evaluate(expression) ==
    LET operator == expression.operator
        left == expression.left.value
        right == expression.right.value
    IN IF Failed \in {left} THEN Failed
       ELSE IF operator \in Unary
       THEN IF IsNumber(left) THEN from_f64(Whole(operator, as_f64(left))) ELSE Failed
       ELSE IF Failed \in {right} THEN Failed
       ELSE IF operator \in Equalities THEN Bool(Same(left, right) <=> operator = "equal")
       ELSE IF ~IsNumber(left) \/ ~IsNumber(right) THEN Failed
       ELSE IF operator \in {"add", "subtract", "multiply", "divide"}
       THEN Arithmetic(operator, as_f64(left), as_f64(right))
       ELSE Bool(Ordering(operator, as_f64(left), as_f64(right)))

(* Time since the run started is a real number, a timestamp is a text.     *)
resolve(input) ==
    CASE input.kind = "elapsed" -> Tenths(3)
      [] input.kind = "timestamp" -> Text(<<50, 48>>)
      [] input.kind \in Expressions -> Evaluate(input.value)
      [] OTHER -> input.value

-----------------------------------------------------------------------------
(* The arguments of a tool action.                                         *)

(* Texts are bytes: those an author writes, and those an input is worth.   *)
HasTextsOfBytes(step) ==
    /\ {"arguments", "bindings"} \subseteq DOMAIN step
    /\ \A name \in DOMAIN step.arguments : IsBytes(step.arguments[name])
    /\ \A name \in DOMAIN step.bindings :
          \/ step.bindings[name].kind \in {"elapsed", "timestamp"} \cup Expressions
          \/ IsBytes(step.bindings[name].value)

(* Every binding is resolved and takes the place of the fixed argument.    *)
resolve_tool_arguments(arguments, bindings) ==
    [name \in DOMAIN arguments \cup DOMAIN bindings |->
        IF Has(bindings, name) THEN resolve(bindings[name]) ELSE arguments[name]]

(* A hex byte that is computed loses its fraction and must then be a safe  *)
(* integer; -0.5 becomes 0.                                                *)
truncate_dynamic_integer_argument(arguments, bindings, tool, action) ==
    IF /\ Has(bindings, "tx_value") /\ action \in {"send", "query"} /\ tool = "serial"
       /\ Has(arguments, "tx_format") /\ Same(arguments.tx_format, AsHex)
    THEN LET value == arguments.tx_value
             whole == Trunc(as_f64(value)) \div 10
         IN [arguments EXCEPT !.tx_value =
                IF IsNumber(value) /\ whole \in 0 .. MaxSafeInteger THEN Number(whole) ELSE Failed]
    ELSE arguments

(* What a step is dispatched with; a failed argument fails the step.       *)
tool_arguments(step, tool) ==
    truncate_dynamic_integer_argument(resolve_tool_arguments(step.arguments, step.bindings),
                                      step.bindings, tool, step.action)

Refused(arguments) == \E name \in DOMAIN arguments : arguments[name].is = "failed"
=============================================================================
