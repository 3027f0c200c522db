----------------------------- MODULE MCExecutor -----------------------------
(***************************************************************************)
(*   set_x; outer: for v in 2 { o1 -> P; inner: while { if { set y;        *)
(*      sweep: for v in 1 { o2 -> Q } } else { o3 -> N }; o4 -> N };       *)
(*      set x }; act; wait; o5 -> R                                        *)
(***************************************************************************)
EXTENDS Executor

MCSteps == {"set_x", "outer", "o1", "inner", "if", "set_y", "sweep", "o2", "o3",
            "o4", "set_x2", "act", "wait", "o5"}
MCRoot == <<"set_x", "outer", "act", "wait", "o5">>
MCKind == [s \in MCSteps |->
    CASE s \in {"set_x", "set_y", "set_x2"} -> "set"
      [] s \in {"outer", "sweep"} -> "for"
      [] s = "inner" -> "while"
      [] s \in {"act", "if", "wait"} -> s
      [] OTHER -> "output"]
MCBody == [s \in MCSteps |->
    CASE s = "outer" -> <<"o1", "inner", "set_x2">>
      [] s = "inner" -> <<"if", "o4">>
      [] s = "if" -> <<"set_y", "sweep">>
      [] s = "sweep" -> <<"o2">>
      [] OTHER -> <<>>]
MCElse == [s \in MCSteps |-> IF s = "if" THEN <<"o3">> ELSE <<>>]
MCVariable == [s \in MCSteps |->
    CASE s \in {"set_x", "set_x2"} -> "x" [] s = "set_y" -> "y"
      [] OTHER -> "v"]
MCPage == [s \in MCSteps |->
    CASE s = "o1" -> "P" [] s = "o2" -> "Q" [] s \in {"o3", "o4"} -> "N" [] OTHER -> "R"]
MCLimit == [s \in MCSteps |-> IF s = "sweep" THEN 1 ELSE 2]
=============================================================================
