-------------------------- MODULE ResponsesProofs ---------------------------
(***************************************************************************)
(* Safety of the responses of both servers, for every set of queries and   *)
(* responses, every number of attempts and every size.                     *)
(***************************************************************************)
EXTENDS Responses, TLAPS

(* A bound of answers_to_keep in each round of the loop, as it is halved:   *)
(* a response has less than 2^16 answers.                                   *)
Halved(j) ==
  IF j <= 0 THEN 65536 ELSE IF j = 1 THEN 32768 ELSE IF j = 2 THEN 16384
  ELSE IF j = 3 THEN 8192 ELSE IF j = 4 THEN 4096 ELSE IF j = 5 THEN 2048
  ELSE IF j = 6 THEN 1024 ELSE IF j = 7 THEN 512 ELSE IF j = 8 THEN 256
  ELSE IF j = 9 THEN 128 ELSE IF j = 10 THEN 64 ELSE IF j = 11 THEN 32
  ELSE IF j = 12 THEN 16 ELSE IF j = 13 THEN 8 ELSE IF j = 14 THEN 4
  ELSE IF j = 15 THEN 2 ELSE 1

Original == [len |-> dns_resp.len, answers |-> dns_resp.n, tc |-> TRUE]

Untouched ==
  /\ answers = 0 /\ answers_to_keep = 0 /\ g = 0
  /\ del_failed = FALSE /\ write_failed = FALSE

(* What holds in the loop that writes the response and removes answers. *)
RoundInv ==
  /\ answers \in 0..dns_resp.n
  /\ answers_to_keep \in Nat
  /\ answers_to_keep < Halved(g)
  /\ g \in Nat
  /\ ~del_failed =>
       /\ g <= 17
       /\ g >= 1 => answers < Halved(g - 1)
       /\ answers >= 2 => answers_to_keep >= 1
       /\ answers = 0 /\ dns_resp.n > 0 => dns_resp.written[1] >= limit

UdpInv ==
  /\ step \in {"idle", "asked", "removing", "rewriting", "sending"}
  /\ step # "idle" => query \in Queries
  /\ step \in {"idle", "asked"} => Untouched
  /\ Responding => dns_resp \in Responses /\ limit = ClientAccepts
  /\ step \in {"removing", "rewriting"} =>
       dns_resp.parses /\ dns_resp.len > limit /\ udp_sent = Original
  /\ step = "removing" => Untouched /\ rest \in Nat
  /\ step = "rewriting" => RoundInv
  /\ Sent => UdpResponseFits /\ KeepsAnAnswerBelowLimit /\ TruncationIsFlagged

-----------------------------------------------------------------------------
(* A share of n that is not more than the whole. *)
LEMMA ShareBound ==
  ASSUME NEW a \in Nat, NEW b \in Nat \ {0}, NEW n \in Nat, a <= b
  PROVE  (a * n) \div b \in Nat /\ (a * n) \div b <= n
<1> DEFINE x == (a * n) \div b
<1>1. a * n \in Nat /\ a * n <= b * n
  BY SMT
<1>2. x \in Int /\ b * x <= a * n
  BY <1>1, SMT
<1>3. x \in Nat
  BY <1>1, <1>2, SMT
<1>4. x <= n
  <2>1. SUFFICES ASSUME x >= n + 1 PROVE FALSE
    BY <1>2, SMT
  <2> HIDE DEF x
  <2>2. b * x >= b * (n + 1)
    BY <2>1, <1>2, SMT
  <2>3. b * (n + 1) > b * n
    BY SMT
  <2> QED BY <2>2, <2>3, <1>1, <1>2, SMT
<1> QED BY <1>3, <1>4

(* get_edns_udp_size returns what the client accepts. *)
LEMMA SizeIsWhatClientAccepts ==
  ASSUME NEW q \in Queries
  PROVE  get_edns_udp_size(q) =
           IF q.parses /\ q.udp_size > DNS_SIZE_LIMIT THEN q.udp_size ELSE DNS_SIZE_LIMIT
<1>1. q.udp_size \in Int
  BY QueriesAssumption
<1>2. CASE q.parses
  BY <1>1, <1>2 DEF get_edns_udp_size, DNS_SIZE_LIMIT
<1>3. CASE ~q.parses
  BY <1>3 DEF get_edns_udp_size
<1> QED BY <1>2, <1>3

LEMMA LimitIsANumber ==
  ASSUME UdpInv, Responding
  PROVE  limit \in Nat /\ limit >= 512 /\ query \in Queries /\ dns_resp \in Responses
<1>1. query \in Queries /\ dns_resp \in Responses /\ limit = ClientAccepts
  BY DEF UdpInv, Responding
<1>2. query.udp_size \in Nat
  BY <1>1, QueriesAssumption
<1> QED BY <1>1, <1>2 DEF ClientAccepts, DNS_SIZE_LIMIT

LEMMA InitUdp == UdpInit => UdpInv
  BY DEF UdpInit, UdpInv, Untouched, Responding, Sent

LEMMA ForgetQueryKeeps == ASSUME ForgetQuery PROVE UdpInv'
  BY DEF ForgetQuery, UdpInv, Untouched, Responding, Sent

LEMMA WatcherKeeps ==
  ASSUME UdpInv, NEW q \in Queries, watcher_cb(q) PROVE UdpInv'
  BY DEF watcher_cb, UdpInv, Untouched, Responding, Sent, truncVars

(* A response that is sent as it is fits, and has all its answers.          *)
LEMMA RespondKeeps ==
  ASSUME UdpInv, NEW r \in Responses, dns_server_respond(r) PROVE UdpInv'
<1>1. /\ query \in Queries /\ query' = query /\ step = "asked" /\ Untouched
      /\ r.len \in Nat /\ r.parses \in BOOLEAN /\ r.additional + r.authority \in Nat
  BY ResponsesAssumption DEF UdpInv, dns_server_respond
<1>2. /\ dns_resp' = r /\ rest' = r.additional + r.authority
      /\ Untouched' /\ step' \in {"removing", "sending"}
  BY <1>1 DEF dns_server_respond, Untouched
<1>3. limit' = ClientAccepts' /\ limit' \in Nat /\ limit' >= 512
  <2>1. query.udp_size \in Nat
    BY <1>1, QueriesAssumption
  <2> QED BY <1>1, <2>1, SizeIsWhatClientAccepts DEF dns_server_respond, ClientAccepts, DNS_SIZE_LIMIT
<1>4. TooLarge(r, limit') <=> r.len > limit'
  BY <1>1, <1>3 DEF TooLarge, DNS_SIZE_LIMIT
<1>5. /\ udp_sent' = [len |-> r.len, answers |-> r.n, tc |-> r.len > limit']
      /\ step' = IF r.len > limit' /\ r.parses THEN "removing" ELSE "sending"
  BY <1>4 DEF dns_server_respond, TruncationFlag
<1>6. CASE step' = "removing"
  <2>1. r.len > limit' /\ r.parses
    BY <1>5, <1>6
  <2>2. udp_sent' = Original'
    BY <1>2, <1>5, <2>1 DEF Original
  <2> QED BY <1>1, <1>2, <1>3, <1>6, <2>1, <2>2 DEF UdpInv, Responding, Sent
<1>7. CASE step' = "sending"
  <2>1. UdpResponseFits'
    BY <1>1, <1>2, <1>3, <1>5, <1>7 DEF UdpResponseFits
  <2>2. KeepsAnAnswerBelowLimit'
    BY <1>2, <1>5, ResponsesAssumption DEF KeepsAnAnswerBelowLimit
  <2>3. TruncationIsFlagged'
    BY <1>2, <1>3, <1>5 DEF TruncationIsFlagged
  <2> QED BY <1>1, <1>2, <1>3, <1>7, <2>1, <2>2, <2>3 DEF UdpInv, Responding, Sent
<1> QED BY <1>2, <1>6, <1>7

LEMMA RemoveRecordKeeps ==
  ASSUME UdpInv, remove_record PROVE UdpInv'
<1>1. rest \in Nat /\ rest' \in Nat
  BY DEF UdpInv, remove_record
<1> QED BY <1>1 DEF UdpInv, remove_record, Untouched, Responding, Sent, respVars, Original,
                    ClientAccepts

(* The first estimate is at least one answer and at most all of them. *)
LEMMA EstimateKeeps ==
  ASSUME UdpInv, estimate_answers PROVE UdpInv'
<1>1. Responding /\ step' = "rewriting"
  BY DEF estimate_answers, Responding
<1>2. /\ query' = query /\ dns_resp' = dns_resp /\ limit' = limit /\ udp_sent' = udp_sent
      /\ g' = 0 /\ answers' = dns_resp.n /\ answers_to_keep' = AnswersToKeep
      /\ dns_resp.parses /\ dns_resp.len > limit /\ udp_sent = Original
      /\ limit = ClientAccepts
  BY <1>1 DEF estimate_answers, UdpInv, respVars, Untouched
<1>3. /\ limit \in Nat /\ limit >= 512 /\ query \in Queries /\ dns_resp \in Responses
  BY <1>1, LimitIsANumber
<1>4. dns_resp.len \in Nat /\ dns_resp.n \in Nat /\ dns_resp.n <= 65535
  BY <1>3, ResponsesAssumption
<1>5. AnswersToKeep \in Nat /\ AnswersToKeep >= 1 /\ AnswersToKeep < 65536
  <2> DEFINE a == limit - DNS_HEADER_LENGTH
             estimate == (a * dns_resp.n) \div dns_resp.len
  <2>1. a \in Nat /\ a <= dns_resp.len /\ dns_resp.len # 0
    BY <1>2, <1>3, <1>4 DEF DNS_HEADER_LENGTH
  <2>2. estimate \in Nat /\ estimate <= dns_resp.n
    <3> DEFINE len == dns_resp.len
               n == dns_resp.n
    <3>1. a \in Nat /\ len \in Nat \ {0} /\ n \in Nat /\ a <= len
      BY <2>1, <1>4
    <3>2. (a * n) \div len \in Nat /\ (a * n) \div len <= n
      <4> HIDE DEF a, len, n
      <4> QED BY <3>1, ShareBound, Zenon
    <3> QED BY <3>2, Zenon
  <2>3. AnswersToKeep = IF estimate > 0 THEN estimate ELSE 1
    BY DEF AnswersToKeep
  <2> HIDE DEF estimate
  <2> QED BY <2>2, <2>3, <1>4
<1>6. RoundInv'
  <2> HIDE DEF AnswersToKeep
  <2> QED BY <1>2, <1>4, <1>5 DEF RoundInv, Halved
<1> QED BY <1>1, <1>2, <1>3, <1>6 DEF UdpInv, Responding, Sent, Original, ClientAccepts

(* What every round of the loop starts from. *)
LEMMA InRound ==
  ASSUME UdpInv, step = "rewriting"
  PROVE  /\ limit \in Nat /\ limit >= 512 /\ limit = ClientAccepts
         /\ query \in Queries /\ dns_resp \in Responses
         /\ dns_resp.len \in Nat /\ dns_resp.len > limit /\ dns_resp.n \in Nat
         /\ dns_resp.written[answers] \in Nat
         /\ dns_resp.written[0] \in Nat /\ dns_resp.written[0] <= 271
         /\ answers \in Nat /\ answers <= dns_resp.n /\ RoundInv /\ udp_sent = Original
<1>1. Responding
  BY DEF Responding
<1>2. limit \in Nat /\ limit >= 512 /\ query \in Queries /\ dns_resp \in Responses
  BY <1>1, LimitIsANumber
<1>3. RoundInv /\ udp_sent = Original /\ dns_resp.len > limit /\ limit = ClientAccepts
  BY <1>1 DEF UdpInv
<1>4. /\ dns_resp.len \in Nat /\ dns_resp.n \in Nat
      /\ dns_resp.written \in [0..dns_resp.n -> Nat] /\ dns_resp.written[0] <= 271
  BY <1>2, ResponsesAssumption DEF DNS_HEADER_LENGTH, QuestionMax
<1>5. answers \in 0..dns_resp.n /\ 0 \in 0..dns_resp.n
  BY <1>3, <1>4 DEF RoundInv
<1> QED BY <1>2, <1>3, <1>4, <1>5

(* Every way out of the loop that leaves the original in place. *)
LEMMA LoopLeft ==
  ASSUME UdpInv, step = "rewriting", step' = "sending", UNCHANGED respVars, UNCHANGED udp_sent,
         write_failed' \/ del_failed'
  PROVE  UdpInv'
<1>1. /\ query \in Queries /\ dns_resp \in Responses /\ limit = ClientAccepts
      /\ dns_resp.len > limit /\ dns_resp.n \in Nat /\ udp_sent = Original
  BY InRound
<1>2. query' = query /\ dns_resp' = dns_resp /\ limit' = limit /\ udp_sent' = Original
  BY <1>1 DEF respVars
<1>3. UdpResponseFits'
  BY DEF UdpResponseFits
<1>4. KeepsAnAnswerBelowLimit'
  BY <1>1, <1>2 DEF KeepsAnAnswerBelowLimit, Original
<1>5. TruncationIsFlagged'
  BY <1>1, <1>2 DEF TruncationIsFlagged, Original, ClientAccepts
<1> QED BY <1>1, <1>2, <1>3, <1>4, <1>5 DEF UdpInv, Responding, Sent, ClientAccepts

(* The rewritten response is smaller than the limit, hence than the         *)
(* original, because the question alone always is.                          *)
LEMMA RewriteFitsKeeps ==
  ASSUME UdpInv, rewrite_fits PROVE UdpInv'
<1>1. step = "rewriting" /\ step' = "sending" /\ SmallEnough
  BY DEF rewrite_fits
<1>2. /\ limit \in Nat /\ limit >= 512 /\ limit = ClientAccepts
      /\ query \in Queries /\ dns_resp \in Responses
      /\ dns_resp.len \in Nat /\ dns_resp.len > limit /\ dns_resp.n \in Nat
      /\ new_resp_len \in Nat
      /\ dns_resp.written[0] \in Nat /\ dns_resp.written[0] <= 271
      /\ answers \in Nat /\ RoundInv
  BY <1>1, InRound DEF new_resp_len
<1>3. new_resp_len < limit
  BY <1>1, <1>2 DEF SmallEnough, new_resp_len
<1>4. /\ query' = query /\ dns_resp' = dns_resp /\ limit' = limit /\ del_failed' = del_failed
      /\ ClientAccepts' = ClientAccepts
      /\ udp_sent' = [len |-> new_resp_len, answers |-> answers, tc |-> TRUE]
  BY <1>2, <1>3 DEF rewrite_fits, respVars, truncVars, ClientAccepts
<1> HIDE DEF new_resp_len
<1>5. UdpResponseFits'
  BY <1>2, <1>3, <1>4 DEF UdpResponseFits
<1>6. KeepsAnAnswerBelowLimit'
  BY <1>2, <1>4 DEF KeepsAnAnswerBelowLimit, RoundInv
<1>7. TruncationIsFlagged'
  BY <1>2, <1>4 DEF TruncationIsFlagged
<1> QED BY <1>1, <1>2, <1>4, <1>5, <1>6, <1>7 DEF UdpInv, Responding, Sent

(* Halving the bound of one round gives the bound of the next. *)
LEMMA HalvedNext ==
  ASSUME NEW j \in Nat, NEW k \in Nat, k < Halved(j)
  PROVE  k \div 2 \in Nat /\ k \div 2 < Halved(j + 1)
<1>1. k \div 2 \in Nat /\ 2 * (k \div 2) <= k
  OBVIOUS
<1>2. j <= 15 => Halved(j) = 2 * Halved(j + 1) /\ Halved(j + 1) \in Nat
  BY DEF Halved
<1>3. j > 15 => Halved(j) = 1 /\ Halved(j + 1) = 1
  BY DEF Halved
<1> QED BY <1>1, <1>2, <1>3

LEMMA RemoveAnswersKeeps ==
  ASSUME UdpInv, NEW left \in 0..answers, remove_answers(left) PROVE UdpInv'
<1>1. step = "rewriting" /\ step' = "rewriting" /\ ~SmallEnough
  BY DEF remove_answers
<1>2. /\ limit \in Nat /\ limit = ClientAccepts
      /\ query \in Queries /\ dns_resp \in Responses
      /\ dns_resp.len > limit /\ dns_resp.n \in Nat
      /\ dns_resp.written[answers] \in Nat
      /\ answers \in Nat /\ answers <= dns_resp.n /\ RoundInv /\ udp_sent = Original
  BY <1>1, InRound
<1>3. dns_resp.written[answers] >= limit /\ answers >= 1
  BY <1>1, <1>2 DEF SmallEnough, new_resp_len
<1>4. /\ query' = query /\ dns_resp' = dns_resp /\ limit' = limit /\ udp_sent' = udp_sent
      /\ answers' = left /\ answers_to_keep' = answers_to_keep \div 2 /\ g' = g + 1
  BY DEF remove_answers, respVars, NextRound
<1>5. /\ answers_to_keep \in Nat /\ answers_to_keep < Halved(g) /\ g \in Nat
      /\ answers_to_keep' \in Nat /\ answers_to_keep' < Halved(g')
  BY <1>2, <1>4, HalvedNext DEF RoundInv
<1>6. left \in Nat /\ left <= dns_resp.n /\ g' \in Nat
  BY <1>2, <1>4, <1>5
<1>7. ASSUME ~del_failed'
      PROVE  /\ g' <= 17
             /\ answers' < Halved(g' - 1)
             /\ answers' >= 2 => answers_to_keep' >= 1
             /\ answers' = 0 /\ dns_resp'.n > 0 => dns_resp'.written[1] >= limit'
  <2>1. ~del_failed /\ \/ answers <= answers_to_keep /\ left = answers
                       \/ answers > answers_to_keep /\ left = answers_to_keep
    BY <1>7 DEF remove_answers
  <2>2. /\ g <= 17 /\ (g >= 1 => answers < Halved(g - 1))
        /\ (answers >= 2 => answers_to_keep >= 1)
    BY <1>2, <2>1 DEF RoundInv
  <2>3. g # 17
    BY <1>2, <1>3, <2>2 DEF Halved
  <2>4. g' <= 17
    BY <1>4, <1>5, <2>2, <2>3
  <2>5. answers' < Halved(g' - 1)
    <3>1. g' - 1 = g /\ Halved(g) \in Nat
      BY <1>4, <1>5 DEF Halved
    <3> QED BY <1>2, <1>4, <1>5, <2>1, <3>1
  <2>6. answers' >= 2 => answers_to_keep' >= 1
    <3>1. left <= answers_to_keep
      BY <1>5, <1>2, <2>1
    <3> QED BY <1>4, <1>5, <1>6, <3>1
  <2>7. answers' = 0 => dns_resp'.written[1] >= limit'
    <3>1. left = 0 => answers = 1
      BY <1>2, <1>3, <1>5, <2>1, <2>2
    <3> QED BY <1>3, <1>4, <3>1
  <2> QED BY <2>4, <2>5, <2>6, <2>7
<1>8. RoundInv'
  BY <1>2, <1>4, <1>5, <1>6, <1>7 DEF RoundInv
<1>9. ClientAccepts' = ClientAccepts /\ Original' = Original /\ dns_resp.parses
  BY <1>1, <1>4 DEF ClientAccepts, Original, UdpInv
<1> QED BY <1>1, <1>2, <1>4, <1>8, <1>9 DEF UdpInv, Responding, Sent

(* The guard of the loop ends it only after a removal failed. *)
LEMMA RoundsUsedUpKeeps ==
  ASSUME UdpInv, rounds_used_up PROVE UdpInv'
<1>1. step = "rewriting" /\ g = 255 /\ RoundInv
  BY DEF rounds_used_up, UdpInv, UINT8_MAX
<1>2. del_failed
  BY <1>1 DEF RoundInv
<1> QED BY <1>1, <1>2, LoopLeft DEF rounds_used_up, truncVars

-----------------------------------------------------------------------------
TcpInv ==
  /\ status \in {"idle", "sending", "removed"}
  /\ status = "idle" => partial = 0 /\ sent = 0
  /\ status = "sending" => /\ resp_len \in Nat /\ sent \in Nat
                           /\ partial = PrefixSize + sent

LEMMA TcpRespondKeeps ==
  ASSUME TcpInv, TcpRespond PROVE TcpInv'
<1>1. PICK size \in ResponseSizes, len \in 0..PrefixSize : send_prefix(size, len)
  BY DEF TcpRespond
<1>2. size \in Nat
  BY SizesAssumption
<1> QED BY <1>1, <1>2 DEF TcpInv, send_prefix, PrefixSent, PrefixSize

LEMMA SendStepKeeps ==
  ASSUME TcpInv, SendStep PROVE TcpInv'
<1>1. ASSUME NEW len \in ResponseSizes, send_some(len) PROVE TcpInv'
  <2>1. len \in Nat
    BY SizesAssumption
  <2> QED BY <1>1, <2>1 DEF TcpInv, send_some, Ends, PrefixSize
<1>2. CASE send_would_block
  BY <1>2 DEF TcpInv, send_would_block
<1>3. CASE send_error \/ send_gives_up
  BY <1>3 DEF TcpInv, send_error, send_gives_up, RemoveClient, Ends
<1> QED BY <1>1, <1>2, <1>3 DEF SendStep

-----------------------------------------------------------------------------
Inv == UdpInv /\ TcpInv

LEMMA UdpStepKeeps ==
  ASSUME UdpInv, remove_record \/ UdpStep PROVE UdpInv'
<1>1. CASE rewrite_fails
  BY <1>1, LoopLeft DEF rewrite_fails
<1>2. CASE Removals
  BY <1>2, RemoveAnswersKeeps DEF Removals
<1>3. CASE sendto
  BY <1>3, ForgetQueryKeeps DEF sendto
<1> QED BY <1>1, <1>2, <1>3, RemoveRecordKeeps, EstimateKeeps, RewriteFitsKeeps,
           RoundsUsedUpKeeps DEF UdpStep

(* No step of either server disturbs the other. *)
LEMMA NextKeeps ==
  ASSUME Inv, [Next]_vars PROVE Inv'
<1>1. UNCHANGED udpVars /\ UdpInv => UdpInv'
  BY DEF UdpInv, udpVars, respVars, truncVars, Untouched, Responding, Sent, Original, RoundInv,
         ClientAccepts, UdpResponseFits, KeepsAnAnswerBelowLimit, TruncationIsFlagged
<1>2. UNCHANGED tcpVars /\ TcpInv => TcpInv'
  BY DEF TcpInv, tcpVars
<1>3. CASE ReceiveQuery
  BY <1>2, <1>3, WatcherKeeps DEF ReceiveQuery, Inv
<1>4. CASE https_resp_cb_udp
  BY <1>2, <1>4, RespondKeeps, ForgetQueryKeeps DEF https_resp_cb_udp, Inv, NoAnswer
<1>5. CASE https_resp_cb_tcp
  BY <1>1, <1>5, TcpRespondKeeps DEF https_resp_cb_tcp, Inv
<1>6. CASE RespondStep
  BY <1>1, <1>2, <1>6, UdpStepKeeps, SendStepKeeps DEF RespondStep, Inv
<1>7. CASE UNCHANGED vars
  BY <1>1, <1>2, <1>7 DEF vars, Inv
<1> QED BY <1>3, <1>4, <1>5, <1>6, <1>7 DEF Next

LEMMA InvHolds == Spec => []Inv
<1>1. Init => Inv
  BY InitUdp DEF Init, Inv, TcpInit, TcpInv
<1>2. Inv /\ [Next]_vars => Inv'
  BY NextKeeps
<1> QED BY <1>1, <1>2, PTL DEF Spec

(* dns_server_respond sends no more than the client accepts, whatever the   *)
(* size the query announces and whatever the response, unless c-ares fails. *)
THEOREM ResponsesFit == Spec => []UdpResponseFits
<1>1. Inv => UdpResponseFits
  BY DEF Inv, UdpInv, UdpResponseFits
<1> QED BY <1>1, InvHolds, PTL

(* truncate_dns_response drops the first answer only if with it alone the   *)
(* response is as large as the client accepts or larger, for every number   *)
(* of answers a DNS message can have.                                       *)
THEOREM AnAnswerIsKept == Spec => []KeepsAnAnswerBelowLimit
<1>1. Inv => KeepsAnAnswerBelowLimit
  BY DEF Inv, UdpInv, KeepsAnAnswerBelowLimit
<1> QED BY <1>1, InvHolds, PTL

(* dns_server_respond and truncate_dns_response set the truncation flag     *)
(* exactly on the responses that do not fit.                                *)
THEOREM FlagIsRight == Spec => []TruncationIsFlagged
<1>1. Inv => TruncationIsFlagged
  BY DEF Inv, UdpInv, TruncationIsFlagged
<1> QED BY <1>1, InvHolds, PTL

(* dns_server_tcp_respond leaves whole frames on a connection it keeps, for *)
(* every number of attempts and every response length.                      *)
THEOREM FramesAreWhole == Spec => []StreamStaysFramed
<1>1. Inv => StreamStaysFramed
  BY DEF Inv, TcpInv, StreamStaysFramed
<1> QED BY <1>1, InvHolds, PTL

-----------------------------------------------------------------------------
(* How many steps the respond function under way can still take, at most:   *)
(* the records to remove, the rounds left to the endless loop guard, or the *)
(* attempts to send.                                                        *)
UdpStepsLeft ==
  IF step = "removing" THEN rest + UINT8_MAX + 3
  ELSE IF step = "rewriting" THEN UINT8_MAX - g + 2
  ELSE IF step = "sending" THEN 1 ELSE 0

TcpStepsLeft == IF status = "sending" THEN MaxAttempts - attempts + 1 ELSE 0

StepsLeft == UdpStepsLeft + TcpStepsLeft

(* What UdpInv and TcpInv leave open about the two counters. *)
CounterInv ==
  /\ step = "rewriting" => g <= UINT8_MAX
  /\ status = "idle" => attempts = 0
  /\ status = "sending" => attempts \in 0..MaxAttempts

LEMMA CountersKept ==
  ASSUME Inv, CounterInv, [Next]_vars PROVE CounterInv'
<1> USE DEF CounterInv
<1>1. CASE UNCHANGED udpVars /\ (TcpRespond \/ SendStep)
  <2>1. step' = step /\ g' = g
    BY <1>1 DEF udpVars, truncVars
  <2>2. CASE TcpRespond
    BY <2>1, <2>2, AttemptsAssumption DEF TcpRespond, send_prefix, PrefixSent
  <2>3. CASE SendStep
    <3>1. CASE \E len \in ResponseSizes : send_some(len)
      BY <2>1, <3>1, AttemptsAssumption DEF send_some, Ends
    <3>2. CASE send_would_block
      BY <2>1, <3>2, AttemptsAssumption DEF send_would_block
    <3>3. CASE send_error \/ send_gives_up
      BY <2>1, <3>3 DEF send_error, send_gives_up, RemoveClient, Ends
    <3> QED BY <2>3, <3>1, <3>2, <3>3 DEF SendStep
  <2> QED BY <1>1, <2>2, <2>3
<1>2. CASE UNCHANGED tcpVars /\ step' # "rewriting"
  BY <1>2 DEF tcpVars
<1>3. CASE UNCHANGED tcpVars /\ estimate_answers
  <2>1. g' = 0
    BY <1>3 DEF estimate_answers, Inv, UdpInv, Untouched
  <2> QED BY <1>3, <2>1 DEF tcpVars, UINT8_MAX
<1>4. CASE UNCHANGED tcpVars /\ Removals
  <2>1. g \in Nat /\ g < UINT8_MAX /\ g' = g + 1
    BY <1>4 DEF Removals, remove_answers, NextRound, Inv, UdpInv, RoundInv
  <2> QED BY <1>4, <2>1 DEF tcpVars, UINT8_MAX
<1>5. CASE UNCHANGED vars
  BY <1>5 DEF vars, udpVars, truncVars, tcpVars
<1> QED BY <1>1, <1>2, <1>3, <1>4, <1>5
        DEF Next, ReceiveQuery, https_resp_cb_udp, https_resp_cb_tcp, RespondStep, UdpStep,
            watcher_cb, NoAnswer, ForgetQuery, dns_server_respond, remove_record, rewrite_fits,
            rewrite_fails, rounds_used_up, sendto

LEMMA UdpStepsCount ==
  ASSUME Inv, CounterInv, remove_record \/ UdpStep
  PROVE  UdpStepsLeft \in Nat /\ UdpStepsLeft' \in Nat /\ UdpStepsLeft' < UdpStepsLeft
<1> USE DEF UdpStepsLeft, UINT8_MAX
<1>1. CASE remove_record
  BY <1>1 DEF remove_record, Inv, UdpInv
<1>2. CASE estimate_answers
  BY <1>2 DEF estimate_answers, Inv, UdpInv, Untouched
<1>3. step = "rewriting" => g \in Nat /\ g <= 255
  BY DEF Inv, UdpInv, RoundInv, CounterInv
<1>4. CASE step = "rewriting" /\ step' = "sending"
  BY <1>3, <1>4
<1>5. CASE Removals
  BY <1>3, <1>5 DEF Removals, remove_answers, NextRound
<1>6. CASE sendto
  BY <1>6 DEF sendto, ForgetQuery
<1> QED BY <1>1, <1>2, <1>4, <1>5, <1>6 DEF UdpStep, rewrite_fits, rewrite_fails, rounds_used_up

LEMMA SendStepsCount ==
  ASSUME CounterInv, SendStep
  PROVE  TcpStepsLeft \in Nat /\ TcpStepsLeft' \in Nat /\ TcpStepsLeft' < TcpStepsLeft
<1> USE AttemptsAssumption DEF TcpStepsLeft, CounterInv
<1>1. CASE \E len \in ResponseSizes : send_some(len)
  BY <1>1 DEF send_some, Ends
<1>2. CASE send_would_block
  BY <1>2 DEF send_would_block
<1>3. CASE send_error \/ send_gives_up
  BY <1>3 DEF send_error, send_gives_up, RemoveClient, Ends
<1> QED BY <1>1, <1>2, <1>3 DEF SendStep

LEMMA StepsLeftAreNumbers ==
  ASSUME Inv, CounterInv PROVE UdpStepsLeft \in Nat /\ TcpStepsLeft \in Nat
<1>1. TcpStepsLeft \in Nat
  BY AttemptsAssumption DEF CounterInv, TcpStepsLeft
<1>2. UdpStepsLeft \in Nat
  BY DEF Inv, UdpInv, RoundInv, CounterInv, UdpStepsLeft, UINT8_MAX
<1> QED BY <1>1, <1>2

(* The safety half of RespondReturns: dns_server_respond and                *)
(* dns_server_tcp_respond hold up the event loop for a bounded number of    *)
(* steps, for every response and every outcome of send(): each round of     *)
(* their loops uses up one of the steps left. A failed removal of an        *)
(* additional or authority record is no step, since it changes nothing.     *)
THEOREM RespondStepsAreBounded ==
  Spec => [][RespondStep => StepsLeft \in Nat /\ StepsLeft' \in Nat /\ StepsLeft' < StepsLeft]_vars
<1>1. Init => CounterInv
  BY AttemptsAssumption DEF Init, UdpInit, TcpInit, CounterInv
<1>2. Inv /\ CounterInv /\ [Next]_vars => CounterInv'
  BY CountersKept
<1>3. ASSUME Inv, CounterInv, RespondStep
      PROVE  StepsLeft \in Nat /\ StepsLeft' \in Nat /\ StepsLeft' < StepsLeft
  <2>1. UdpStepsLeft \in Nat /\ TcpStepsLeft \in Nat
    BY <1>3, StepsLeftAreNumbers
  <2> DEFINE u == UdpStepsLeft
             u2 == UdpStepsLeft'
             c == TcpStepsLeft
             c2 == TcpStepsLeft'
  <2>2. StepsLeft = u + c /\ StepsLeft' = u2 + c2
    BY DEF StepsLeft
  <2>3. CASE (remove_record \/ UdpStep) /\ UNCHANGED tcpVars
    <3>1. TcpStepsLeft' = TcpStepsLeft
      BY <2>3 DEF tcpVars, TcpStepsLeft
    <3>2. UdpStepsLeft' \in Nat /\ UdpStepsLeft' < UdpStepsLeft
      BY <1>3, <2>3, UdpStepsCount
    <3>3. u \in Nat /\ c \in Nat /\ u2 \in Nat /\ u2 < u /\ c2 = c
      BY <2>1, <3>1, <3>2
    <3> HIDE DEF u, u2, c, c2
    <3> QED BY <2>2, <3>3
  <2>4. CASE SendStep /\ UNCHANGED udpVars
    <3>1. UdpStepsLeft' = UdpStepsLeft
      BY <2>4 DEF udpVars, truncVars, UdpStepsLeft
    <3>2. TcpStepsLeft' \in Nat /\ TcpStepsLeft' < TcpStepsLeft
      BY <1>3, <2>4, SendStepsCount
    <3>3. u \in Nat /\ c \in Nat /\ c2 \in Nat /\ c2 < c /\ u2 = u
      BY <2>1, <3>1, <3>2
    <3> HIDE DEF u, u2, c, c2
    <3> QED BY <2>2, <3>3
  <2> QED BY <1>3, <2>3, <2>4 DEF RespondStep
<1> QED BY <1>1, <1>2, <1>3, InvHolds, PTL DEF Spec
=============================================================================
