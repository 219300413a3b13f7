----------------------------- MODULE DnsServer ------------------------------
(***************************************************************************)
(* The UDP server (src/dns_server.c): a query is received, and its         *)
(* response is sent as it is or, if it is larger than the client accepts,  *)
(* cut by c-ares record by record. The event loop stands still meanwhile.  *)
(*                                                                         *)
(* A response is a record: its length, whether c-ares can parse it, how    *)
(* many additional and authority records it has, its number of answers n,  *)
(* and written[k], the length c-ares needs for the question and the first  *)
(* k answers (c-ares may compress names better or worse than the sender).  *)
(***************************************************************************)
EXTENDS Integers

DNS_HEADER_LENGTH == 12
DNS_SIZE_LIMIT == 512
DNS_REQUEST_BUFFER_SIZE == 4096
UINT8_MAX == 255
QuestionMax == 255 + 4     \* the longest name, its type and its class

CONSTANTS
  Queries,     \* records [len, parses, udp_size]; udp_size = 0: no OPT record
  Responses    \* records [len, parses, additional, authority, n, written]

ASSUME QueriesAssumption ==
  \A q \in Queries : q.len \in Nat /\ q.parses \in BOOLEAN /\ q.udp_size \in Nat
ASSUME ResponsesAssumption ==
  \A r \in Responses :
    /\ r.len \in Nat /\ r.parses \in BOOLEAN /\ r.additional \in Nat /\ r.authority \in Nat
    /\ r.n \in Nat /\ r.n <= 65535 /\ r.written \in [0..r.n -> Nat]
    /\ r.written[0] <= DNS_HEADER_LENGTH + QuestionMax
    /\ \A j, k \in 0..r.n : j <= k => r.written[j] <= r.written[k]

VARIABLES
  step,        \* "idle", "asked"; "removing", "rewriting", "sending" in respond
  query,       \* the request held by request_t
  dns_resp,    \* the response, as received
  limit,       \* udp_size
  rest,        \* additional and authority records left in dnsrec
  answers,
  answers_to_keep,
  g,
  udp_sent,    \* what goes to sendto: its length, its answers and the TC flag
  del_failed,  \* history: c-ares failed to remove an answer,
  write_failed \*          or to write the response

respVars == <<query, dns_resp, limit>>
truncVars == <<rest, answers, answers_to_keep, g, del_failed, write_failed>>
udpVars == <<step, respVars, truncVars, udp_sent>>

NoQuery == [len |-> 0, parses |-> FALSE, udp_size |-> 0]
NoResponse == [len |-> 0, parses |-> FALSE, additional |-> 0, authority |-> 0, n |-> 0,
               written |-> [k \in {0} |-> 0]]

NothingSent == [len |-> 0, answers |-> 0, tc |-> FALSE]

UdpInit ==
  /\ step = "idle"
  /\ query = NoQuery /\ dns_resp = NoResponse /\ limit = DNS_SIZE_LIMIT
  /\ rest = 0 /\ answers = 0 /\ answers_to_keep = 0 /\ g = 0
  /\ del_failed = FALSE /\ write_failed = FALSE
  /\ udp_sent = NothingSent

-----------------------------------------------------------------------------
(* watcher_cb. A datagram that is too large or too short for a query, or    *)
(* that recvfrom fails to read, is dropped.                                 *)
watcher_cb(q) ==
  /\ step = "idle"
  /\ q.len \in DNS_HEADER_LENGTH..DNS_REQUEST_BUFFER_SIZE
  /\ step' = "asked"
  /\ query' = q
  /\ UNCHANGED <<dns_resp, limit, truncVars, udp_sent>>

get_edns_udp_size_AnyLarger(q) ==
  IF ~q.parses THEN DNS_SIZE_LIMIT
  ELSE IF q.udp_size = 0 THEN DNS_REQUEST_BUFFER_SIZE ELSE q.udp_size

get_edns_udp_size(q) ==
  IF q.parses /\ q.udp_size >= DNS_SIZE_LIMIT THEN q.udp_size ELSE DNS_SIZE_LIMIT

(* truncate_dns_response sets the flag before anything can fail. *)
TruncationFlag_AfterParsing(r) == r.parses

TruncationFlag(r) == TRUE

TooLarge(r, udp_size) == r.len > DNS_SIZE_LIMIT /\ r.len > udp_size

(* dns_server_respond, up to the loops of truncate_dns_response. *)
dns_server_respond(r) ==
  /\ step = "asked"
  /\ r.len >= DNS_HEADER_LENGTH
  /\ dns_resp' = r
  /\ limit' = get_edns_udp_size(query)
  /\ udp_sent' = [len |-> r.len, answers |-> r.n,
              tc |-> TooLarge(r, limit') /\ TruncationFlag(r)]
  /\ step' = IF TooLarge(r, limit') /\ r.parses THEN "removing" ELSE "sending"
  /\ rest' = r.additional + r.authority
  /\ UNCHANGED <<query, answers, answers_to_keep, g, del_failed, write_failed>>

(* https_resp_cb frees the request, and the variables of the functions end. *)
ForgetQuery ==
  /\ step' = "idle"
  /\ query' = NoQuery /\ dns_resp' = NoResponse /\ limit' = DNS_SIZE_LIMIT
  /\ rest' = 0 /\ answers' = 0 /\ answers_to_keep' = 0 /\ g' = 0
  /\ del_failed' = FALSE /\ write_failed' = FALSE
  /\ udp_sent' = NothingSent

(* The reply is not passed on: the client is not answered. *)
NoAnswer == step = "asked" /\ ForgetQuery

(* "remove every additional and authority record": these loops have no      *)
(* guard, a removal that fails is tried again.                              *)
remove_record ==
  /\ step = "removing"
  /\ rest > 0
  /\ rest' = rest - 1
  /\ UNCHANGED <<step, respVars, answers, answers_to_keep, g, del_failed, write_failed, udp_sent>>

(* "rough estimate to reach size limit" *)
AnswersToKeep_NoneIfFew == ((limit - DNS_HEADER_LENGTH) * dns_resp.n) \div dns_resp.len

AnswersToKeep ==
  LET estimate == ((limit - DNS_HEADER_LENGTH) * dns_resp.n) \div dns_resp.len
  IN IF estimate > 0 THEN estimate ELSE 1

estimate_answers ==
  /\ step = "removing"
  /\ rest = 0
  /\ step' = "rewriting"
  /\ answers' = dns_resp.n
  /\ answers_to_keep' = AnswersToKeep
  /\ UNCHANGED <<respVars, rest, g, del_failed, write_failed, udp_sent>>

-----------------------------------------------------------------------------
(* "remove answer records until fit size limit or running out of answers":  *)
(* one round of the loop that writes the response and removes answers.      *)
new_resp_len == dns_resp.written[answers]

SmallEnough == new_resp_len < limit \/ answers = 0

(* The result is used only if it is smaller than the original. *)
rewrite_fits ==
  /\ step = "rewriting"
  /\ g < UINT8_MAX
  /\ SmallEnough
  /\ step' = "sending"
  /\ udp_sent' = IF new_resp_len < dns_resp.len
             THEN [len |-> new_resp_len, answers |-> answers, tc |-> TRUE] ELSE udp_sent
  /\ UNCHANGED <<respVars, truncVars>>

rewrite_fails ==
  /\ step = "rewriting"
  /\ g < UINT8_MAX
  /\ step' = "sending"
  /\ write_failed' = TRUE
  /\ UNCHANGED <<respVars, rest, answers, answers_to_keep, g, del_failed, udp_sent>>

(* Answers are removed from the end until answers_to_keep are left or a     *)
(* removal fails.                                                           *)
NextRound_Restarts == (g + 1) % UINT8_MAX

NextRound == g + 1

remove_answers(left) ==
  /\ step = "rewriting"
  /\ g < UINT8_MAX
  /\ ~SmallEnough
  /\ \/ answers <= answers_to_keep /\ left = answers /\ UNCHANGED del_failed
     \/ answers > answers_to_keep /\ left = answers_to_keep /\ UNCHANGED del_failed
     \/ answers_to_keep < left /\ left <= answers /\ del_failed' = TRUE
  /\ answers' = left
  /\ answers_to_keep' = answers_to_keep \div 2
  /\ g' = NextRound
  /\ UNCHANGED <<step, respVars, rest, write_failed, udp_sent>>

(* "endless loop guard" *)
rounds_used_up ==
  /\ step = "rewriting"
  /\ g = UINT8_MAX
  /\ step' = "sending"
  /\ UNCHANGED <<respVars, truncVars, udp_sent>>

sendto == step = "sending" /\ ForgetQuery

Removals == \E left \in 0..answers : remove_answers(left)

UdpStep ==
  \/ estimate_answers \/ rewrite_fits \/ rewrite_fails \/ Removals
  \/ rounds_used_up \/ sendto

-----------------------------------------------------------------------------
Responding == step \in {"removing", "rewriting", "sending"}
Sent == step = "sending"

(* What the client said it accepts; RFC 6891 makes 512 the least. *)
ClientAccepts ==
  IF query.parses /\ query.udp_size > DNS_SIZE_LIMIT THEN query.udp_size ELSE DNS_SIZE_LIMIT

(* The response sent over UDP fits what the client accepts, whatever        *)
(* c-ares makes of its size and wherever the estimate of the answers to     *)
(* keep starts, unless c-ares failed to parse, to cut or to write it.       *)
UdpResponseFits ==
  Sent => \/ udp_sent.len <= ClientAccepts
          \/ ~dns_resp.parses \/ del_failed \/ write_failed

(* "try to keep 1 answer" and "remove answer records until fit size limit": *)
(* a response is cut down to none of its answers only if the first one      *)
(* alone is larger than the client accepts, however often the number to     *)
(* keep is halved.                                                          *)
KeepsAnAnswer ==
  Sent /\ dns_resp.n > 0 /\ udp_sent.answers = 0 =>
    del_failed \/ dns_resp.written[1] > ClientAccepts

(* KeepsAnAnswer but for a first answer that fits exactly: the comparison   *)
(* of SmallEnough is strict, and that answer is removed as well.            *)
KeepsAnAnswerBelowLimit ==
  Sent /\ dns_resp.n > 0 /\ udp_sent.answers = 0 =>
    del_failed \/ dns_resp.written[1] >= ClientAccepts

(* The client can tell: the truncation flag is set exactly if the response  *)
(* was larger than the client accepts, also if cutting it failed, and no    *)
(* record is missing without the flag.                                      *)
TruncationIsFlagged ==
  Sent => /\ udp_sent.tc <=> dns_resp.len > ClientAccepts
          /\ ~udp_sent.tc => udp_sent.len = dns_resp.len /\ udp_sent.answers = dns_resp.n
=============================================================================
