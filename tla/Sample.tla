------------------------------- MODULE Sample -------------------------------
(***************************************************************************)
(* The modules of pure functions (checks of configurations, parsers,       *)
(* encoders, prices) share one variable: an input, drawn from the bounded  *)
(* inputs of one of them, which is a record with the field "of".           *)
(***************************************************************************)
VARIABLE input

NoInput == [of |-> "none"]

\* The cases of an input that property p is about.
Given(of) == input.of = of
=============================================================================
