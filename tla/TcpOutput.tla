----------------------------- MODULE TcpOutput -----------------------------
(***************************************************************************)
(* How dns_server_tcp_respond (src/dns_server_tcp.c) writes a response to  *)
(* a non-blocking socket: the length prefix first, then the response in    *)
(* pieces, with a limited number of attempts. The event loop stands still  *)
(* meanwhile. One client that is sent one response after another.          *)
(***************************************************************************)
EXTENDS Integers

CONSTANTS
  MaxAttempts,     \* 50
  ResponseSizes    \* lengths of responses (those within the limits)

PrefixSize == 2    \* sizeof(uint16_t)

ASSUME AttemptsAssumption == MaxAttempts \in Nat \ {0}
ASSUME SizesAssumption == ResponseSizes \subseteq Nat \ {0}

VARIABLES
  status,      \* "idle", "sending"; "removed": remove_client closed the connection
  resp_len,
  sent,
  attempts,
  partial      \* history: bytes of an unfinished frame on the wire

tcpVars == <<status, resp_len, sent, attempts, partial>>

TcpInit ==
  /\ status = "idle"
  /\ resp_len = 0
  /\ sent = 0
  /\ attempts = 0
  /\ partial = 0

(* The length prefix goes out whole, or the client is removed. *)
PrefixSent_AnyLength(len) == len > 0

PrefixSent(len) == len = PrefixSize

send_prefix(size, len) ==
  /\ status = "idle"
  /\ resp_len' = IF PrefixSent(len) THEN size ELSE 0
  /\ status' = IF PrefixSent(len) THEN "sending" ELSE "removed"
  /\ partial' = IF PrefixSent(len) THEN len ELSE 0
  /\ UNCHANGED <<sent, attempts>>

BytesLeft == resp_len - sent

(* The function returns, and its variables end. *)
Ends(st) ==
  /\ status' = st
  /\ resp_len' = 0
  /\ sent' = 0
  /\ attempts' = 0

RemoveClient == Ends("removed") /\ partial' = 0

(* send() takes len bytes of the response; if some are left, the loop waits *)
(* and tries again.                                                         *)
send_some(len) ==
  /\ status = "sending"
  /\ attempts < MaxAttempts
  /\ len <= BytesLeft
  /\ \/ /\ sent + len = resp_len
        /\ Ends("idle")
        /\ partial' = partial + len - (PrefixSize + resp_len)
     \/ /\ sent + len # resp_len
        /\ sent' = sent + len
        /\ attempts' = attempts + 1
        /\ partial' = partial + len
        /\ UNCHANGED <<status, resp_len>>

(* EAGAIN or EWOULDBLOCK: "continue" goes straight to the next attempt. *)
send_would_block ==
  /\ status = "sending"
  /\ attempts < MaxAttempts
  /\ attempts' = attempts + 1
  /\ UNCHANGED <<status, resp_len, sent, partial>>

send_error ==
  /\ status = "sending"
  /\ attempts < MaxAttempts
  /\ RemoveClient

(* Out of attempts with bytes left: the client is removed. *)
send_gives_up ==
  /\ status = "sending"
  /\ attempts = MaxAttempts
  /\ RemoveClient

SendStep ==
  \/ \E len \in ResponseSizes : send_some(len)
  \/ send_would_block
  \/ send_error
  \/ send_gives_up

TcpRespond == \E size \in ResponseSizes, len \in 0..PrefixSize : send_prefix(size, len)

-----------------------------------------------------------------------------
(* A client that stays connected has received whole frames only: the next   *)
(* response never starts in the middle of an unfinished one.                *)
StreamStaysFramed == status = "idle" => partial = 0
=============================================================================
