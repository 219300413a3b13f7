----------------------------- MODULE ResetTimer -----------------------------
(***************************************************************************)
(* How long the HTTPS client tolerates timeouts before it resets itself    *)
(* (src/https_client.c, option -L): HttpsClient with the time of its       *)
(* reset_timer, in seconds.                                                *)
(*                                                                         *)
(* reset_timer is a one-shot libev timer that is initialised once. libev   *)
(* keeps its expiry in one field, w->at: relative while the timer is       *)
(* stopped, absolute while it runs. Starting adds the current time and     *)
(* stopping, or expiring, subtracts it. at is that field relative to now.  *)
(***************************************************************************)
EXTENDS HttpsClient

CONSTANT conn_loss_time   \* opt->conn_loss_time (option -L)

ASSUME ConnLossAssumption == conn_loss_time \in Nat \ {0}

VARIABLES
  at,        \* reset_timer's w->at, relative to now
  waited     \* history: seconds since the running timer was started

timedVars == <<vars, at, waited>>

(* https_client_init: ev_timer_init *)
TimedInit ==
  /\ Init
  /\ at = conn_loss_time
  /\ waited = 0

(* Neither the start of the timer by a message of a timeout nor its stop    *)
(* sets w->at again.                                                        *)
AtAfterStep_SetAgain ==
  IF \E r \in Reqs : handle[r] = "timedout" /\ check_multi_info(r) THEN conn_loss_time ELSE at

AtAfterStep == at

TimerStep ==
  /\ at' = AtAfterStep
  /\ waited' = IF reset_timer' THEN waited ELSE 0

Expired == reset_timer /\ at = 0

timed_reset_timer_cb == Expired /\ reset_timer_cb /\ TimerStep

(* libev's clock moves on between two rounds of the loop. *)
Second ==
  /\ ctl = "loop"
  /\ reset_timer /\ at > 0
  /\ at' = at - 1
  /\ waited' = waited + 1
  /\ UNCHANGED vars

TimedNext ==
  \/ ClientStep /\ TimerStep
  \/ timed_reset_timer_cb
  \/ Second

TimedSpec == TimedInit /\ [][TimedNext]_timedVars

TimedFairSpec == TimedSpec /\ Fairness

-----------------------------------------------------------------------------
(* Further timeouts do not put the reset off: it comes at most              *)
(* conn_loss_time seconds after the timeout that started the timer.         *)
ResetNotLate == reset_timer => at + waited <= conn_loss_time

(* "Time in seconds to tolerate connection timeouts": the reset does not    *)
(* come earlier than conn_loss_time seconds after the first timeout.        *)
ToleratesTimeouts == reset_timer => at + waited >= conn_loss_time
=============================================================================
