---------------------------- MODULE MCBackground ----------------------------
EXTENDS Background

CONSTANTS b1, b2, foreground

Config(kind, limit, csv, unruly, samples, actions) ==
    [kind |-> kind, limit |-> limit, csv |-> csv, unruly |-> unruly, samples |-> samples,
     actions |-> actions]
One(kind) == [b \in Backgrounds |-> kind]

(* A Custom source of two readings that may lose its place, in all that a   *)
(* workflow of four steps does with it; the others in fewer steps.          *)
Singles ==
    {Config(One("custom"), 2, TRUE, TRUE, 2, 4), Config(One("simple"), 1, FALSE, TRUE, 2, 2),
     Config(One("simple"), 0, FALSE, TRUE, 1, 2), Config(One("scopes"), 1, FALSE, TRUE, 2, 2),
     Config(One("scopes"), 0, FALSE, FALSE, 1, 2), Config(One("serial"), 0, TRUE, TRUE, 1, 2)}

(* A meter and a serial port side by side. *)
Pairs ==
    LET kinds == [b \in Backgrounds |-> IF b = b1 THEN "simple" ELSE "serial"]
    IN {Config(kinds, 0, FALSE, FALSE, 0, 2)}

Stopped == {Config(One("scopes"), 0, FALSE, FALSE, 1, 1)}
=============================================================================
