---------------------------- MODULE MCHttpsClient ---------------------------
(* A small instance of HttpsClient, with the time of its reset timer.       *)
EXTENDS ResetTimer
=============================================================================
