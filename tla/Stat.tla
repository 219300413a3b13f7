-------------------------------- MODULE Stat --------------------------------
(***************************************************************************)
(* The statistics (src/stat.c): requests and responses are counted by      *)
(* protocol, printed by a repeating timer and once more at the end, and    *)
(* start again from zero after each print. Sizes and latencies are summed  *)
(* in the same places as the counts and are left out.                      *)
(*                                                                         *)
(* The operators are parts of the actions of the program that calls them.  *)
(***************************************************************************)
EXTENDS Integers

VARIABLES
  stats_interval,   \* option -s is given (not 0)
  stats_timer,      \* s->stats_timer is active
  counters,         \* the counters of stat_t
  printed           \* history: sum of what was printed

Counts == [requests : Nat, responses : Nat, tcp_requests : Nat, tcp_responses : Nat]

Zero == [requests |-> 0, responses |-> 0, tcp_requests |-> 0, tcp_responses |-> 0]

Plus(a, b) == [c \in DOMAIN Zero |-> a[c] + b[c]]

stat_init ==
  /\ stats_interval \in BOOLEAN
  /\ stats_timer = stats_interval
  /\ counters = Zero
  /\ printed = Zero

stat_request_begin(is_tcp) ==
  IF is_tcp THEN [counters EXCEPT !.tcp_requests = @ + 1]
  ELSE [counters EXCEPT !.requests = @ + 1]

stat_request_end(is_tcp) ==
  IF is_tcp THEN [counters EXCEPT !.tcp_responses = @ + 1]
  ELSE [counters EXCEPT !.responses = @ + 1]

(* The counters are printed and only then reset. *)
stat_print_ResetFirst ==
  /\ counters' = Zero
  /\ printed' = Plus(printed, counters')

stat_print ==
  /\ printed' = Plus(printed, counters)
  /\ counters' = Zero

stat_timer_cb ==
  /\ stats_timer
  /\ stat_print
  /\ UNCHANGED <<stats_interval, stats_timer>>

stat_stop ==
  /\ stats_timer' = FALSE
  /\ UNCHANGED <<stats_interval, counters, printed>>

stat_cleanup ==
  /\ IF stats_interval THEN stat_print ELSE UNCHANGED <<counters, printed>>
  /\ UNCHANGED <<stats_interval, stats_timer>>
=============================================================================
