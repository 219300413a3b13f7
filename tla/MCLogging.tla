----------------------------- MODULE MCLogging ------------------------------
(* Logging with the recorder's limits scaled down, for command lines with   *)
(* every log level, recorder sizes at the limits, and options that fail.    *)
EXTENDS Logging

Num(n) == [number |-> n, rest |-> FALSE]
Flag(c) == [c |-> c, text |-> "none"]
With(c, n) == [c |-> c, text |-> Num(n)]
Named(c, t) == [c |-> c, text |-> t]

MCCommandLines ==
  {<<With("F", n)>> : n \in {0, MIN_FLIGHT_RECORDER - 1, MIN_FLIGHT_RECORDER, MAX_FLIGHT_RECORDER + 1}}
  \cup {<<Flag("v"), Flag("v"), With("F", MAX_FLIGHT_RECORDER)>>,
        <<Flag("v"), Flag("a"), Flag("v"), Flag("v"), Flag("v")>>,
        <<Flag("v"), Named("l", "unopenable"), With("F", MIN_FLIGHT_RECORDER)>>,
        <<Flag("v"), Flag("v"), Named("l", "file"), Flag("x")>>,
        <<Flag("x"), Flag("q")>>, <<Flag("h"), Flag("v")>>, <<Flag("e")>>,
        <<[c |-> "p", text |-> [number |-> 53, rest |-> TRUE]]>>, <<With("c", 63), Named("u", "unknown")>>}
=============================================================================
