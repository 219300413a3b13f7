---------------------------- MODULE ProxyProofs -----------------------------
(***************************************************************************)
(* Safety of the program (Proxy), for every set of requests, every set of  *)
(* answers of the poller and every bound.                                  *)
(***************************************************************************)
EXTENDS Proxy, AddrListProofs, FiniteSetTheorems

(* A request's memory follows its fetch. *)
RequestInv ==
  /\ status \in [Reqs -> Fetch!Status]
  /\ req \in [Reqs -> {"none", "held", "freed"}]
  /\ \A r \in Reqs : (req[r] = "held" <=> status[r] = "pending")
                     /\ (req[r] = "none" => status[r] = "new")
  /\ phase = "exit" => Fetch!Pending = {}

(* The lists are numbered in the order in which they are built: one that    *)
(* was freed is never the current one, until the shutdown frees that, too.  *)
ListInv ==
  /\ lists \in Nat
  /\ resolv \in 0..lists
  /\ list \in [Reqs -> Nat]
  /\ phase = "loop" =>
       /\ \A l \in freed_lists : l \in 1..lists /\ l # resolv
       /\ \A r \in Fetch!Pending : list[r] = resolv

ReadyInv ==
  /\ notified \in {0, 1}
  /\ notified = 1 => ~Bootstrapping \/ append_failed

Inv == RequestInv /\ ListInv /\ ReadyInv

-----------------------------------------------------------------------------
LEMMA InitInv == ASSUME Init PROVE Inv
<1>1. RequestInv
  BY DEF Init, RequestInv, Fetch!Init, Fetch!Status, Fetch!Pending
<1>2. Fetch!Pending = {}
  BY DEF Init, Fetch!Init, Fetch!Pending
<1>3. ListInv
  BY <1>2 DEF Init, ListInv
<1>4. ReadyInv
  BY DEF Init, ReadyInv, NotifiedAtStart, Bootstrapping, using_dns_poller
<1> QED BY <1>1, <1>3, <1>4 DEF Inv

(* The fetches of S end without a reply, whoever ends them.                 *)
Ended(S) ==
  /\ https_resp_cb_null(S)
  /\ \A r \in S : status[r] \in {"new", "pending"}
  /\ status' = [r \in Reqs |-> IF r \in S THEN "dropped" ELSE status[r]]

LEMMA DropEnds ==
  ASSUME NEW S, FetchesEnd(S) PROVE S \subseteq Fetch!Pending /\ Ended(S)
  BY DEF FetchesEnd, Fetch!Drop, Fetch!Become, Fetch!Pending, Ended

LEMMA ResetEnds ==
  ASSUME ResetClient PROVE Ended(Fetch!Pending) /\ Fetch!Pending' = {}
<1>1. Ended(Fetch!Pending)
  BY DEF ResetClient, Fetch!Reset, Fetch!Become, Ended
<1> QED BY <1>1 DEF Ended, Fetch!Pending

(* https_client_fetch submits the request, or ends it: alone or with all.   *)
LEMMA FetchSubmitsOrEnds ==
  ASSUME NEW r \in Reqs, https_client_fetch(r)
  PROVE  \/ /\ Fetch!Submit(r) /\ req' = [req EXCEPT ![r] = "held"]
            /\ list' = [list EXCEPT ![r] = resolv] /\ UNCHANGED <<started, answered>>
         \/ \E S \in {{r}, Fetch!Pending \cup {r}} : Ended(S)
<1>1. CASE Fetch!Refuse(r) /\ https_resp_cb_null({r})
  <2>1. Ended({r})
    BY <1>1 DEF Fetch!Refuse, Fetch!Become, Ended
  <2> QED BY <2>1
<1>2. CASE Fetch!Reset(Fetch!Pending \cup {r}) /\ https_resp_cb_null(Fetch!Pending \cup {r})
  <2>1. Ended(Fetch!Pending \cup {r})
    BY <1>2 DEF Fetch!Reset, Fetch!Become, Ended
  <2> QED BY <2>1
<1> QED BY <1>1, <1>2 DEF https_client_fetch

(* https_resp_cb_null frees the requests of the fetches it ends. *)
LEMMA NullKeeps ==
  ASSUME RequestInv, NEW S \in SUBSET Reqs, Ended(S), phase' = phase \/ Fetch!Pending' = {},
         \A r \in S : req[r] \in {"none", "held"}
  PROVE  RequestInv' /\ Fetch!Pending' \subseteq Fetch!Pending /\ list' = list
<1>1. /\ \A r \in S : status[r] \in {"new", "pending"}
      /\ status' = [r \in Reqs |-> IF r \in S THEN "dropped" ELSE status[r]]
      /\ req' = Free(S) /\ list' = list
  BY DEF Ended, https_resp_cb_null
<1>2. req' = [r \in Reqs |-> IF r \in S THEN "freed" ELSE req[r]]
  BY <1>1 DEF Free, RequestInv
<1>3. Fetch!Pending' \subseteq Fetch!Pending
  BY <1>1 DEF Fetch!Pending
<1> QED BY <1>1, <1>2, <1>3 DEF RequestInv, Fetch!Status

LEMMA PendingIsHeld ==
  ASSUME RequestInv
  PROVE  Fetch!Pending \subseteq Reqs /\ \A r \in Fetch!Pending : req[r] = "held"
  BY DEF RequestInv, Fetch!Pending

LEMMA ReplyKeeps ==
  ASSUME Inv, NEW r \in Reqs, https_resp_cb(r) PROVE Inv'
<1>1. /\ status[r] = "pending" /\ req[r] = "held" /\ phase \notin {"exit"}
      /\ status' = [x \in Reqs |-> IF x \in {r} THEN "replied" ELSE status[x]]
      /\ req' = [x \in Reqs |-> IF x \notin {r} THEN req[x] ELSE "freed"]
  BY DEF https_resp_cb, Fetch!Reply, Fetch!Become, Free, Inv, RequestInv, InLoop
<1>2. UNCHANGED <<phase, mode, list, notified, resolvVars>>
  BY DEF https_resp_cb
<1>3. RequestInv'
  BY <1>1, <1>2 DEF Inv, RequestInv, Fetch!Status, Fetch!Pending
<1>4. Fetch!Pending' \subseteq Fetch!Pending
  BY <1>1 DEF Fetch!Pending
<1> QED BY <1>2, <1>3, <1>4
        DEF Inv, ListInv, ReadyInv, Bootstrapping, using_dns_poller, resolvVars

LEMMA FetchesEndKeeps ==
  ASSUME Inv, NEW S, FetchesEnd(S) PROVE Inv'
<1>1. S \subseteq Fetch!Pending /\ Ended(S)
  BY DropEnds
<1>2. UNCHANGED <<phase, mode, notified, resolvVars>>
  BY DEF FetchesEnd
<1>3. RequestInv' /\ Fetch!Pending' \subseteq Fetch!Pending /\ list' = list
  BY <1>1, <1>2, PendingIsHeld, NullKeeps DEF Inv
<1> QED BY <1>2, <1>3 DEF Inv, ListInv, ReadyInv, Bootstrapping, using_dns_poller, resolvVars

(* A query is discarded before bootstrapping; otherwise the fetch gets the  *)
(* current list, or ends at once.                                           *)
LEMMA ServerKeeps ==
  ASSUME Inv, NEW r \in Reqs, dns_server_cb(r) PROVE Inv'
<1>1. /\ UNCHANGED <<phase, mode, notified, resolv, lists, append_failed, freed_lists>>
      /\ phase # "exit" /\ req[r] = "none"
  BY DEF dns_server_cb, resolvVars, InLoop
<1>2. ReadyInv'
  BY <1>1 DEF Inv, ReadyInv, Bootstrapping, using_dns_poller
<1>3. CASE Discard(r)
  <2>1. /\ req' = [x \in Reqs |-> IF x \notin {r} THEN req[x] ELSE "freed"]
        /\ status' = status /\ list' = list
    BY <1>1, <1>3 DEF Discard, Free, clientVars
  <2>2. Fetch!Pending' = Fetch!Pending
    BY <2>1 DEF Fetch!Pending
  <2>3. RequestInv'
    BY <1>1, <2>1, <2>2 DEF Inv, RequestInv, Fetch!Status
  <2> QED BY <1>1, <1>2, <2>1, <2>2, <2>3 DEF Inv, ListInv, using_dns_poller
<1>4. CASE Fetch!Submit(r) /\ req' = [req EXCEPT ![r] = "held"]
           /\ list' = [list EXCEPT ![r] = resolv]
  <2>1. status' = [x \in Reqs |-> IF x \in {r} THEN "pending" ELSE status[x]]
    BY <1>4 DEF Fetch!Submit, Fetch!Become
  <2>2. RequestInv'
    BY <1>1, <1>4, <2>1 DEF Inv, RequestInv, Fetch!Status, Fetch!Pending
  <2>3. Fetch!Pending' = Fetch!Pending \cup {r}
    BY <2>1 DEF Fetch!Pending
  <2>4. list' \in [Reqs -> Nat] /\ list'[r] = resolv
        /\ \A x \in Reqs : x # r => list'[x] = list[x]
    BY <1>4 DEF Inv, ListInv
  <2>5. Fetch!Pending \subseteq Reqs
    BY DEF Fetch!Pending
  <2>6. ListInv'
    BY <1>1, <1>4, <2>3, <2>4, <2>5 DEF Inv, ListInv, using_dns_poller, Bootstrapping
  <2> QED BY <1>2, <2>2, <2>6 DEF Inv
<1>5. ASSUME NEW S \in {{r}, Fetch!Pending \cup {r}}, Ended(S)
      PROVE  Inv'
  <2>1. S \subseteq Reqs /\ \A x \in S : req[x] \in {"none", "held"}
    BY <1>1, PendingIsHeld DEF Inv
  <2>2. RequestInv' /\ Fetch!Pending' \subseteq Fetch!Pending /\ list' = list
    BY <1>1, <1>5, <2>1, NullKeeps DEF Inv
  <2> QED BY <1>1, <1>2, <2>2 DEF Inv, ListInv, using_dns_poller
<1> QED BY <1>3, <1>4, <1>5, FetchSubmitsOrEnds DEF dns_server_cb

(* A new list ends every fetch that has the old one. *)
LEMMA PollKeeps ==
  ASSUME Inv, NEW nodes \in Answers, dns_poll_cb(nodes) PROVE Inv'
<1>1. /\ phase' = phase /\ mode' = mode /\ phase = "loop"
      /\ lists \in Nat /\ resolv \in 0..lists
      /\ notified' = NotifyReady /\ using_dns_poller
  BY DEF dns_poll_cb, Inv, ListInv
<1>2. CASE /\ KeepsList(Listing[nodes])
           /\ UNCHANGED <<resolv, lists, append_failed, addrs, freed_lists, fetchVars>>
  <2>1. resolv # 0 /\ notified' = notified
    BY <1>1, <1>2 DEF KeepsList, NotifyReady
  <2> QED BY <1>1, <1>2, <2>1 DEF Inv, RequestInv, ListInv, ReadyInv, fetchVars, clientVars,
             using_dns_poller, Bootstrapping, Fetch!Pending
<1>3. CASE ReplaceList(Listing[nodes])
  <2>1. /\ freed_lists' = freed_lists \cup ({resolv} \ {0})
        /\ \/ lists' = lists + 1 /\ resolv' = lists + 1
           \/ lists' = lists /\ resolv' = 0 /\ append_failed'
        /\ ResetClient
    BY <1>3 DEF ReplaceList, FreeList
  <2>2. \A l \in freed_lists' : l \in 1..lists' /\ l # resolv'
    <3>1. \A l \in freed_lists' : l \in 1..lists
      BY <1>1, <2>1 DEF Inv, ListInv
    <3> QED BY <1>1, <2>1, <3>1
  <2>3. RequestInv' /\ Fetch!Pending' = {} /\ list' = list
    <3>1. Ended(Fetch!Pending) /\ Fetch!Pending' = {}
      BY <2>1, ResetEnds
    <3> QED BY <1>1, <3>1, PendingIsHeld, NullKeeps DEF Inv
  <2>4. ListInv'
    BY <1>1, <2>1, <2>2, <2>3 DEF Inv, ListInv
  <2>5. ReadyInv'
    BY <1>1, <2>1 DEF Inv, ReadyInv, NotifyReady, Bootstrapping
  <2> QED BY <2>3, <2>4, <2>5 DEF Inv
<1> QED BY <1>2, <1>3 DEF dns_poll_cb

(* The other actions leave the requests and the readiness as they are.      *)
LEMMA NextKeeps ==
  ASSUME Inv, [Next]_vars PROVE Inv'
<1>1. ASSUME UNCHANGED <<mode, phase, resolvVars, list, status, req, notified>> PROVE Inv'
  BY <1>1 DEF resolvVars, Inv, RequestInv, ListInv, ReadyInv, using_dns_poller, Bootstrapping,
              Fetch!Pending
<1>2. CASE \E r \in Reqs : TransferStarts(r)
  BY <1>1, <1>2 DEF TransferStarts, clientVars
<1>3. CASE stat_timer_cb
  BY <1>1, <1>3 DEF stat_timer_cb, fetchVars, clientVars
<1>4. CASE signal_shutdown_cb
  BY <1>4 DEF signal_shutdown_cb, fetchVars, clientVars, Inv, RequestInv, ListInv, ReadyInv,
              using_dns_poller, Bootstrapping, Fetch!Pending
<1>5. CASE ForcedExit
  BY <1>5 DEF ForcedExit, fetchVars, clientVars, resolvVars, Inv, RequestInv, ListInv, ReadyInv,
              using_dns_poller, Bootstrapping, Fetch!Pending
<1>6. CASE main_returns
  <2>1. UNCHANGED <<mode, resolvVars, notified>> /\ phase' = "exit" /\ ResetClient
    BY <1>6 DEF main_returns
  <2>2. Ended(Fetch!Pending) /\ Fetch!Pending' = {}
    BY <2>1, ResetEnds
  <2>3. RequestInv' /\ list' = list
    BY <2>2, PendingIsHeld, NullKeeps DEF Inv
  <2> QED BY <2>1, <2>2, <2>3
          DEF Inv, ListInv, ReadyInv, using_dns_poller, Bootstrapping, resolvVars
<1>7. CASE UNCHANGED vars
  BY <1>1, <1>7 DEF vars, fetchVars, clientVars
<1> QED BY <1>2, <1>3, <1>4, <1>5, <1>6, <1>7, ServerKeeps, ReplyKeeps, FetchesEndKeeps, PollKeeps
        DEF Next, Finished

LEMMA InvHolds == Spec => []Inv
<1>1. Inv /\ [Next]_vars => Inv'
  BY NextKeeps
<1> QED BY <1>1, InitInv, PTL DEF Spec

(* Whatever ends a fetch, https_resp_cb frees its request once.             *)
THEOREM RequestsAreFreedOnce == Spec => []RequestFreedOnce
<1>1. Inv => RequestFreedOnce
  BY DEF Inv, RequestInv, RequestFreedOnce, Fetch!Pending
<1> QED BY <1>1, InvHolds, PTL

(* dns_poll_cb leaves no fetch with a list it has freed.                    *)
THEOREM ListsAreCurrent == Spec => []FetchesUseCurrentList
<1>1. Inv => FetchesUseCurrentList
  BY DEF Inv, ListInv, FetchesUseCurrentList
<1> QED BY <1>1, InvHolds, PTL

(* systemd_notify_ready sends one message, when queries are served; they    *)
(* are discarded later only if curl_slist_append fails.                     *)
THEOREM ReadyIsTrue == Spec => []ReadyMeansServing
<1>1. Inv => ReadyMeansServing
  BY DEF Inv, ReadyInv, ReadyMeansServing
<1> QED BY <1>1, InvHolds, PTL

(* Without an HTTP proxy systemd is told exactly when queries are served,   *)
(* be it at the start or with the poller's first answer (or would be, with  *)
(* memory for the list). With an HTTP proxy it is never told.               *)
ReadyIffServing ==
  IF mode = "proxy" THEN notified = 0
  ELSE notified = 1 <=> ~Bootstrapping \/ append_failed

ServingInv ==
  /\ mode \in {"poller", "literal", "proxy"}
  /\ mode = "proxy" => notified = 0
  /\ mode # "proxy" /\ (~Bootstrapping \/ append_failed) => notified = 1

LEMMA NextKeepsServing == ASSUME Inv, ServingInv, [Next]_vars PROVE ServingInv'
<1>1. CASE UNCHANGED <<mode, resolv, append_failed, notified>>
  BY <1>1 DEF ServingInv, Bootstrapping, using_dns_poller
<1>2. ASSUME NEW nodes \in Answers, dns_poll_cb(nodes) PROVE ServingInv'
  <2>1. notified' = NotifyReady /\ mode = "poller" /\ mode' = mode
    BY <1>2 DEF dns_poll_cb, using_dns_poller
  <2>2. resolv = 0 => notified' = 1
    BY <2>1 DEF NotifyReady, Inv, ReadyInv
  <2>3. resolv # 0 => notified' = 1
    BY <2>1 DEF NotifyReady, ServingInv, Bootstrapping
  <2> QED BY <2>1, <2>2, <2>3 DEF ServingInv
<1>3. CASE \E r \in Reqs : dns_server_cb(r) \/ TransferStarts(r) \/ https_resp_cb(r)
  BY <1>1, <1>3 DEF dns_server_cb, TransferStarts, https_resp_cb, resolvVars
<1>4. CASE \/ \E S \in SUBSET Fetch!Pending : FetchesEnd(S)
           \/ stat_timer_cb \/ signal_shutdown_cb \/ ForcedExit \/ main_returns
  BY <1>1, <1>4 DEF FetchesEnd, stat_timer_cb, signal_shutdown_cb, ForcedExit, main_returns,
     resolvVars
<1>5. CASE UNCHANGED vars
  BY <1>1, <1>5 DEF vars, resolvVars
<1> QED BY <1>2, <1>3, <1>4, <1>5 DEF Next, Finished

(* main() and systemd_notify_ready: the message is sent once in every mode  *)
(* but "proxy" (option -t), in which queries are served from the start.     *)
THEOREM ReadyIsExact == Spec => []ReadyIffServing
<1>1. Init => ServingInv
  BY DEF Init, NotifiedAtStart, ServingInv, Bootstrapping, using_dns_poller
<1>2. Inv /\ ServingInv /\ [Next]_vars => ServingInv'
  BY NextKeepsServing
<1>3. Inv /\ ServingInv => ReadyIffServing
  BY DEF Inv, ReadyInv, ServingInv, ReadyIffServing
<1> QED BY <1>1, <1>2, <1>3, InvHolds, PTL DEF Spec

(* A transfer that starts in the first ev_run finds the list dns_server_cb  *)
(* gave to it, although the poller may have replaced lists since.           *)
FindsListInLoop ==
  phase = "loop" => \A r \in started' \ started : list[r] \notin freed_lists

(* dns_poll_cb resets the client with every list it frees; only the         *)
(* shutdown frees a list that a transfer still needs.                       *)
THEOREM ListsAreFoundInLoop == Spec => [][FindsListInLoop]_vars
<1>1. ASSUME Inv, Next, phase = "loop", NEW r \in started' \ started PROVE list[r] \notin freed_lists
  <2>1. PICK x \in Reqs : TransferStarts(x)
    BY <1>1 DEF Next, dns_server_cb, Discard, https_client_fetch, https_resp_cb_null, https_resp_cb,
       FetchesEnd, dns_poll_cb, ReplaceList, ResetClient, stat_timer_cb, signal_shutdown_cb,
       ForcedExit, main_returns, Finished, vars, fetchVars
  <2>2. r \in Fetch!Pending
    BY <1>1, <2>1 DEF TransferStarts
  <2> QED BY <1>1, <2>2 DEF Inv, ListInv
<1>2. Inv /\ [Next]_vars => [FindsListInLoop]_vars
  BY <1>1 DEF FindsListInLoop
<1> QED BY <1>2, InvHolds, PTL DEF Spec

-----------------------------------------------------------------------------
(* The statistics. *)
Fetched == {r \in Reqs : status[r] # "new"}

Adds(field, n) == printed[field] + counters[field] = n

StatInv ==
  /\ counters \in Stats!Counts /\ printed \in Stats!Counts
  /\ answered \subseteq Reqs
  /\ \A r \in answered : status[r] = "replied"
  /\ stats_interval =>
       /\ Adds("requests", Cardinality(Fetched \ TcpReqs))
       /\ Adds("responses", Cardinality(answered \ TcpReqs))
       /\ Adds("tcp_requests", Cardinality(Fetched \cap TcpReqs))
       /\ Adds("tcp_responses", Cardinality(answered \cap TcpReqs))
       /\ phase = "exit" => counters = Stats!Zero

LEMMA CountOne ==
  ASSUME NEW S \in SUBSET Reqs, NEW r \in Reqs \ S
  PROVE  /\ Cardinality((S \cup {r}) \ TcpReqs) \in Nat
         /\ Cardinality((S \cup {r}) \cap TcpReqs) \in Nat
         /\ Cardinality(S \ TcpReqs) \in Nat /\ Cardinality(S \cap TcpReqs) \in Nat
         /\ Cardinality((S \cup {r}) \ TcpReqs) =
              Cardinality(S \ TcpReqs) + (IF r \in TcpReqs THEN 0 ELSE 1)
         /\ Cardinality((S \cup {r}) \cap TcpReqs) =
              Cardinality(S \cap TcpReqs) + (IF r \in TcpReqs THEN 1 ELSE 0)
<1> DEFINE U == S \ TcpReqs
           T == S \cap TcpReqs
           U2 == (S \cup {r}) \ TcpReqs
           T2 == (S \cup {r}) \cap TcpReqs
<1>1. IsFiniteSet(U) /\ IsFiniteSet(T) /\ r \notin U /\ r \notin T
  <2>1. IsFiniteSet(Reqs) /\ U \subseteq Reqs /\ T \subseteq Reqs
    BY ReqAssumption
  <2> QED BY <2>1, FS_Subset
<1>2. IF r \in TcpReqs THEN U2 = U /\ T2 = T \cup {r} ELSE U2 = U \cup {r} /\ T2 = T
  OBVIOUS
<1> SUFFICES /\ Cardinality(U2) \in Nat /\ Cardinality(T2) \in Nat
             /\ Cardinality(U) \in Nat /\ Cardinality(T) \in Nat
             /\ Cardinality(U2) = Cardinality(U) + (IF r \in TcpReqs THEN 0 ELSE 1)
             /\ Cardinality(T2) = Cardinality(T) + (IF r \in TcpReqs THEN 1 ELSE 0)
  OBVIOUS
<1> HIDE DEF U, T, U2, T2
<1>3. Cardinality(U) \in Nat /\ Cardinality(T) \in Nat
  BY <1>1, FS_CardinalityType
<1>4. /\ Cardinality(U \cup {r}) = Cardinality(U) + 1
      /\ Cardinality(T \cup {r}) = Cardinality(T) + 1
  BY <1>1, FS_AddElement
<1>5. CASE r \in TcpReqs
  <2>1. U2 = U /\ T2 = T \cup {r}
    BY <1>2, <1>5
  <2> QED BY <1>3, <1>4, <1>5, <2>1
<1>6. CASE r \notin TcpReqs
  <2>1. U2 = U \cup {r} /\ T2 = T
    BY <1>2, <1>6
  <2> QED BY <1>3, <1>4, <1>6, <2>1
<1> QED BY <1>5, <1>6

(* Printing moves the counters into what was printed.                       *)
LEMMA PrintKeeps ==
  ASSUME StatInv, Stats!stat_print, UNCHANGED <<stats_interval, answered>>,
         Fetched' = Fetched, \A x \in answered : status'[x] = "replied"
  PROVE  StatInv' /\ counters' = Stats!Zero
<1>1. /\ counters \in Stats!Counts /\ printed \in Stats!Counts
      /\ counters' = Stats!Zero /\ printed' = Stats!Plus(printed, counters)
  BY DEF StatInv, Stats!stat_print
<1>2. DOMAIN Stats!Zero = {"requests", "responses", "tcp_requests", "tcp_responses"}
  BY DEF Stats!Zero
<1>3. \A f \in DOMAIN Stats!Zero : counters[f] \in Nat /\ printed[f] \in Nat
  BY <1>1, <1>2 DEF Stats!Counts
<1>4. /\ \A f \in DOMAIN Stats!Zero : printed'[f] = printed[f] + counters[f]
      /\ \A f \in DOMAIN Stats!Zero : counters'[f] = 0
  BY <1>1, <1>2 DEF Stats!Plus, Stats!Zero
<1>5. \A f \in DOMAIN Stats!Zero : printed'[f] + counters'[f] = printed[f] + counters[f]
  BY <1>3, <1>4
<1>6. printed' \in Stats!Counts /\ counters' \in Stats!Counts
  <2>1. counters' \in Stats!Counts
    BY <1>1 DEF Stats!Counts, Stats!Zero
  <2>2. printed' = [requests |-> printed.requests + counters.requests,
                    responses |-> printed.responses + counters.responses,
                    tcp_requests |-> printed.tcp_requests + counters.tcp_requests,
                    tcp_responses |-> printed.tcp_responses + counters.tcp_responses]
    BY <1>1, <1>2 DEF Stats!Plus
  <2> QED BY <1>2, <1>3, <2>1, <2>2 DEF Stats!Counts
<1> QED BY <1>1, <1>2, <1>5, <1>6 DEF StatInv, Adds

(* A query that is handed to curl, or an answer that is passed on, is       *)
(* counted once.                                                            *)
LEMMA RequestCounted ==
  ASSUME StatInv, NEW r \in Reqs, CountRequest(r), r \notin Fetched, Fetched' = Fetched \cup {r},
         UNCHANGED <<stats_interval, printed, answered, phase>>, phase # "exit",
         \A x \in answered : status'[x] = "replied"
  PROVE  StatInv'
<1>1. CASE ~stats_interval
  BY <1>1 DEF StatInv, CountRequest
<1>2. CASE stats_interval
  <2> DEFINE u == Cardinality(Fetched \ TcpReqs)
             t == Cardinality(Fetched \cap TcpReqs)
             u2 == Cardinality(Fetched' \ TcpReqs)
             t2 == Cardinality(Fetched' \cap TcpReqs)
  <2>1. /\ u \in Nat /\ t \in Nat
        /\ u2 = u + (IF r \in TcpReqs THEN 0 ELSE 1) /\ t2 = t + (IF r \in TcpReqs THEN 1 ELSE 0)
    <3>1. Fetched \in SUBSET Reqs
      BY DEF Fetched
    <3> QED BY <3>1, CountOne
  <2>2. counters' = IF r \in TcpReqs THEN [counters EXCEPT !.tcp_requests = @ + 1]
                    ELSE [counters EXCEPT !.requests = @ + 1]
    BY <1>2 DEF CountRequest, Stats!stat_request_begin
  <2>3. counters \in Stats!Counts /\ printed \in Stats!Counts
    BY DEF StatInv
  <2>4. Adds("requests", u) /\ Adds("tcp_requests", t)
    BY <1>2 DEF StatInv
  <2> HIDE DEF u, t, u2, t2
  <2>5. CASE r \in TcpReqs
    <3>1. counters' = [counters EXCEPT !.tcp_requests = @ + 1] /\ u2 = u /\ t2 = t + 1
      BY <2>1, <2>2, <2>5
    <3>2. counters' \in Stats!Counts
      BY <2>3, <3>1 DEF Stats!Counts
    <3>3. /\ counters'["requests"] = counters["requests"]
          /\ counters'["responses"] = counters["responses"]
          /\ counters'["tcp_requests"] = counters["tcp_requests"] + 1
          /\ counters'["tcp_responses"] = counters["tcp_responses"]
      BY <2>3, <3>1 DEF Stats!Counts
    <3>4. /\ printed'["requests"] + counters'["requests"] = u2
          /\ printed'["tcp_requests"] + counters'["tcp_requests"] = t2
      BY <2>1, <2>3, <2>4, <3>1, <3>3 DEF Adds, Stats!Counts
    <3> QED BY <1>2, <2>3, <3>2, <3>3, <3>4 DEF StatInv, Adds, u2, t2
  <2>6. CASE r \notin TcpReqs
    <3>1. counters' = [counters EXCEPT !.requests = @ + 1] /\ u2 = u + 1 /\ t2 = t
      BY <2>1, <2>2, <2>6
    <3>2. counters' \in Stats!Counts
      BY <2>3, <3>1 DEF Stats!Counts
    <3>3. /\ counters'["requests"] = counters["requests"] + 1
          /\ counters'["responses"] = counters["responses"]
          /\ counters'["tcp_requests"] = counters["tcp_requests"]
          /\ counters'["tcp_responses"] = counters["tcp_responses"]
      BY <2>3, <3>1 DEF Stats!Counts
    <3>4. /\ printed'["requests"] + counters'["requests"] = u2
          /\ printed'["tcp_requests"] + counters'["tcp_requests"] = t2
      BY <2>1, <2>3, <2>4, <3>1, <3>3 DEF Adds, Stats!Counts
    <3> QED BY <1>2, <2>3, <3>2, <3>3, <3>4 DEF StatInv, Adds, u2, t2
  <2> QED BY <2>5, <2>6
<1> QED BY <1>1, <1>2
LEMMA AnswerCounted ==
  ASSUME StatInv, NEW r \in Reqs, CountAnswer(r), r \notin answered, answered' = answered \cup {r},
         Fetched' = Fetched, UNCHANGED <<stats_interval, printed, phase>>, phase # "exit",
         \A x \in answered' : status'[x] = "replied"
  PROVE  StatInv'
<1>1. CASE ~stats_interval
  BY <1>1 DEF StatInv, CountAnswer
<1>2. CASE stats_interval
  <2> DEFINE u == Cardinality(answered \ TcpReqs)
             t == Cardinality(answered \cap TcpReqs)
             u2 == Cardinality(answered' \ TcpReqs)
             t2 == Cardinality(answered' \cap TcpReqs)
  <2>1. /\ u \in Nat /\ t \in Nat
        /\ u2 = u + (IF r \in TcpReqs THEN 0 ELSE 1) /\ t2 = t + (IF r \in TcpReqs THEN 1 ELSE 0)
    <3>1. answered \in SUBSET Reqs
      BY DEF StatInv
    <3> QED BY <3>1, CountOne
  <2>2. counters' = IF r \in TcpReqs THEN [counters EXCEPT !.tcp_responses = @ + 1]
                    ELSE [counters EXCEPT !.responses = @ + 1]
    BY <1>2 DEF CountAnswer, Stats!stat_request_end
  <2>3. counters \in Stats!Counts /\ printed \in Stats!Counts
    BY DEF StatInv
  <2>4. Adds("responses", u) /\ Adds("tcp_responses", t)
    BY <1>2 DEF StatInv
  <2> HIDE DEF u, t, u2, t2
  <2>5. CASE r \in TcpReqs
    <3>1. counters' = [counters EXCEPT !.tcp_responses = @ + 1] /\ u2 = u /\ t2 = t + 1
      BY <2>1, <2>2, <2>5
    <3>2. counters' \in Stats!Counts
      BY <2>3, <3>1 DEF Stats!Counts
    <3>3. /\ counters'["responses"] = counters["responses"]
          /\ counters'["requests"] = counters["requests"]
          /\ counters'["tcp_responses"] = counters["tcp_responses"] + 1
          /\ counters'["tcp_requests"] = counters["tcp_requests"]
      BY <2>3, <3>1 DEF Stats!Counts
    <3>4. /\ printed'["responses"] + counters'["responses"] = u2
          /\ printed'["tcp_responses"] + counters'["tcp_responses"] = t2
      BY <2>1, <2>3, <2>4, <3>1, <3>3 DEF Adds, Stats!Counts
    <3> QED BY <1>2, <2>3, <3>2, <3>3, <3>4 DEF StatInv, Adds, u2, t2
  <2>6. CASE r \notin TcpReqs
    <3>1. counters' = [counters EXCEPT !.responses = @ + 1] /\ u2 = u + 1 /\ t2 = t
      BY <2>1, <2>2, <2>6
    <3>2. counters' \in Stats!Counts
      BY <2>3, <3>1 DEF Stats!Counts
    <3>3. /\ counters'["responses"] = counters["responses"] + 1
          /\ counters'["requests"] = counters["requests"]
          /\ counters'["tcp_responses"] = counters["tcp_responses"]
          /\ counters'["tcp_requests"] = counters["tcp_requests"]
      BY <2>3, <3>1 DEF Stats!Counts
    <3>4. /\ printed'["responses"] + counters'["responses"] = u2
          /\ printed'["tcp_responses"] + counters'["tcp_responses"] = t2
      BY <2>1, <2>3, <2>4, <3>1, <3>3 DEF Adds, Stats!Counts
    <3> QED BY <1>2, <2>3, <3>2, <3>3, <3>4 DEF StatInv, Adds, u2, t2
  <2> QED BY <2>5, <2>6
<1> QED BY <1>1, <1>2

LEMMA NothingCounted ==
  ASSUME StatInv, Fetched' = Fetched, UNCHANGED <<counters, printed, stats_interval, answered>>,
         \A x \in answered : status'[x] = "replied",
         phase' = "exit" => phase = "exit" \/ ~stats_interval
  PROVE  StatInv'
  BY DEF StatInv, Adds

(* Ending fetches does not change which of them were begun. *)
LEMMA NullFetched ==
  ASSUME StatInv, NEW S \in SUBSET Reqs, Ended(S)
  PROVE  /\ Fetched' = Fetched \cup S /\ answered' = answered
         /\ \A x \in answered : status'[x] = "replied"
<1>1. /\ \A r \in S : status[r] \in {"new", "pending"}
      /\ answered' = answered
      /\ status' = [r \in Reqs |-> IF r \in S THEN "dropped" ELSE status[r]]
  BY DEF Ended, https_resp_cb_null
<1>2. Fetched' = Fetched \cup S
  BY <1>1 DEF Fetched
<1>3. \A x \in answered : status'[x] = "replied"
  BY <1>1 DEF StatInv
<1> QED BY <1>1, <1>2, <1>3

LEMMA PendingIsFetched == Fetch!Pending \subseteq Fetched
  BY DEF Fetch!Pending, Fetched

LEMMA StatServer ==
  ASSUME Inv, StatInv, NEW r \in Reqs, dns_server_cb(r) PROVE StatInv'
<1>1. /\ phase' = phase /\ phase # "exit" /\ req[r] = "none"
      /\ stats_interval' = stats_interval /\ printed' = printed
  BY DEF dns_server_cb, InLoop
<1>2. r \notin Fetched
  BY <1>1 DEF Inv, RequestInv, Fetched
<1>3. CASE Discard(r)
  <2>1. UNCHANGED <<status, answered, counters>>
    BY <1>3 DEF Discard, clientVars
  <2>2. Fetched' = Fetched /\ \A x \in answered : status'[x] = "replied"
    BY <2>1 DEF Fetched, StatInv
  <2> QED BY <1>1, <2>1, <2>2, NothingCounted
<1>4. CASE Fetch!Submit(r) /\ UNCHANGED answered /\ CountRequest(r)
  <2>1. status' = [x \in Reqs |-> IF x \in {r} THEN "pending" ELSE status[x]] /\ status[r] = "new"
    BY <1>4 DEF Fetch!Submit, Fetch!Become
  <2>2. Fetched' = Fetched \cup {r} /\ \A x \in answered : status'[x] = "replied"
    BY <2>1 DEF Fetched, StatInv
  <2> QED BY <1>1, <1>2, <1>4, <2>2, RequestCounted
<1>5. ASSUME NEW S \in {{r}, Fetch!Pending \cup {r}}, Ended(S), CountRequest(r)
      PROVE  StatInv'
  <2>1. S \in SUBSET Reqs /\ Fetched \cup S = Fetched \cup {r}
    BY PendingIsFetched DEF Fetched
  <2>2. /\ Fetched' = Fetched \cup {r} /\ answered' = answered
        /\ \A x \in answered : status'[x] = "replied"
    BY <1>5, <2>1, NullFetched
  <2> QED BY <1>1, <1>2, <1>5, <2>2, RequestCounted
<1>6. CASE https_client_fetch(r)
  <2>1. CountRequest(r)
    BY <1>6 DEF https_client_fetch
  <2> QED BY <1>4, <1>5, <1>6, <2>1, FetchSubmitsOrEnds
<1> QED BY <1>3, <1>6 DEF dns_server_cb

LEMMA StatReply ==
  ASSUME StatInv, NEW r \in Reqs, https_resp_cb(r) PROVE StatInv'
<1>1. /\ phase' = phase /\ phase # "exit" /\ status[r] = "pending"
      /\ stats_interval' = stats_interval /\ printed' = printed
      /\ status' = [x \in Reqs |-> IF x \in {r} THEN "replied" ELSE status[x]]
  BY DEF https_resp_cb, InLoop, Fetch!Reply, Fetch!Become
<1>2. /\ Fetched' = Fetched /\ r \notin answered
      /\ \A x \in answered \cup {r} : status'[x] = "replied"
  BY <1>1 DEF Fetched, StatInv
<1>3. CASE answered' = answered \cup {r} /\ CountAnswer(r)
  BY <1>1, <1>2, <1>3, AnswerCounted
<1>4. CASE UNCHANGED <<answered, counters>>
  BY <1>1, <1>2, <1>4, NothingCounted
<1> QED BY <1>3, <1>4 DEF https_resp_cb

LEMMA StatNull ==
  ASSUME StatInv, NEW S \in SUBSET Fetch!Pending, Ended(S)
  PROVE  /\ Fetched' = Fetched /\ answered' = answered
         /\ \A x \in answered : status'[x] = "replied"
<1>1. S \in SUBSET Reqs /\ Fetched \cup S = Fetched
  BY PendingIsFetched DEF Fetched, Fetch!Pending
<1> QED BY <1>1, NullFetched

LEMMA StatSame ==
  ASSUME StatInv, UNCHANGED <<status, answered, statVars>>, phase' = "exit" => phase = "exit"
  PROVE  StatInv'
<1>1. Fetched' = Fetched /\ \A x \in answered : status'[x] = "replied"
  BY DEF Fetched, StatInv
<1> QED BY <1>1, NothingCounted DEF statVars

LEMMA StatNext ==
  ASSUME Inv, StatInv, [Next]_vars PROVE StatInv'
<1>1. CASE \E r \in Reqs : TransferStarts(r)
  BY <1>1, StatSame DEF TransferStarts, clientVars
<1>2. ASSUME NEW S \in SUBSET Fetch!Pending, FetchesEnd(S) PROVE StatInv'
  <2>1. phase' = phase /\ UNCHANGED statVars
    BY <1>2 DEF FetchesEnd
  <2> QED BY <1>2, <2>1, DropEnds, StatNull, NothingCounted DEF statVars
<1>3. ASSUME NEW nodes \in Answers, dns_poll_cb(nodes) PROVE StatInv'
  <2>1. phase' = phase /\ UNCHANGED statVars
    BY <1>3 DEF dns_poll_cb
  <2>2. UNCHANGED fetchVars \/ ResetClient
    BY <1>3 DEF dns_poll_cb, ReplaceList
  <2>3. CASE UNCHANGED fetchVars
    BY <2>1, <2>3, StatSame DEF fetchVars, clientVars
  <2>4. CASE ResetClient
    BY <2>1, <2>4, ResetEnds, StatNull, NothingCounted DEF statVars
  <2> QED BY <2>2, <2>3, <2>4
<1>4. CASE stat_timer_cb
  <2>1. /\ UNCHANGED <<status, answered, stats_interval, phase>> /\ Stats!stat_print
    BY <1>4 DEF stat_timer_cb, Stats!stat_timer_cb, fetchVars, clientVars
  <2>2. Fetched' = Fetched /\ \A x \in answered : status'[x] = "replied"
    BY <2>1 DEF Fetched, StatInv
  <2> QED BY <2>1, <2>2, PrintKeeps
<1>5. CASE signal_shutdown_cb
  <2>1. /\ UNCHANGED <<status, answered, counters, printed, stats_interval>>
        /\ phase' = "drain"
    BY <1>5 DEF signal_shutdown_cb, Stats!stat_stop, fetchVars, clientVars
  <2>2. Fetched' = Fetched /\ \A x \in answered : status'[x] = "replied"
    BY <2>1 DEF Fetched, StatInv
  <2> QED BY <2>1, <2>2, NothingCounted
<1>6. CASE ForcedExit
  BY <1>6, StatSame DEF ForcedExit, fetchVars, clientVars
<1>7. CASE main_returns
  <2>1. ResetClient /\ Stats!stat_cleanup /\ stats_interval' = stats_interval
    BY <1>7 DEF main_returns, Stats!stat_cleanup
  <2>2. /\ Fetched' = Fetched /\ answered' = answered
        /\ \A x \in answered : status'[x] = "replied"
    BY <2>1, ResetEnds, StatNull
  <2>3. CASE stats_interval
    BY <2>1, <2>2, <2>3, PrintKeeps DEF Stats!stat_cleanup
  <2>4. CASE ~stats_interval
    BY <2>1, <2>2, <2>4, NothingCounted DEF Stats!stat_cleanup
  <2> QED BY <2>3, <2>4
<1>8. CASE UNCHANGED vars
  BY <1>8, StatSame DEF vars, fetchVars, clientVars
<1> QED BY <1>1, <1>2, <1>3, <1>4, <1>5, <1>6, <1>7, <1>8, StatServer, StatReply
        DEF Next, Finished

(* Over any number of requests, prints and shutdowns nothing is counted     *)
(* twice and nothing is lost by stat_print.                                 *)
THEOREM StatisticsAddUp == Spec => []StatsAddUp
<1>1. Init => StatInv
  <2> SUFFICES ASSUME Init PROVE StatInv
    OBVIOUS
  <2>1. Fetched = {} /\ answered = {} /\ phase = "loop"
    BY DEF Init, Fetch!Init, Fetched
  <2>2. counters = Stats!Zero /\ printed = Stats!Zero
    BY DEF Init, Stats!stat_init
  <2>3. {} \ TcpReqs = {} /\ {} \cap TcpReqs = {} /\ Cardinality({}) = 0
    BY FS_EmptySet
  <2> QED BY <2>1, <2>2, <2>3 DEF StatInv, Adds, Stats!Zero, Stats!Counts
<1>2. Inv /\ StatInv /\ [Next]_vars => StatInv'
  BY StatNext
<1>3. StatInv => StatsAddUp
  <2> SUFFICES ASSUME StatInv, stats_interval
               PROVE  /\ Stats!Plus(printed, counters) =
                           [requests |-> Cardinality(Fetched \ TcpReqs),
                            responses |-> Cardinality(answered \ TcpReqs),
                            tcp_requests |-> Cardinality(Fetched \cap TcpReqs),
                            tcp_responses |-> Cardinality(answered \cap TcpReqs)]
                      /\ phase = "exit" => counters = Stats!Zero
    BY DEF StatsAddUp, Fetched
  <2>1. DOMAIN Stats!Zero = {"requests", "responses", "tcp_requests", "tcp_responses"}
    BY DEF Stats!Zero
  <2>2. Stats!Plus(printed, counters) =
          [requests |-> printed["requests"] + counters["requests"],
           responses |-> printed["responses"] + counters["responses"],
           tcp_requests |-> printed["tcp_requests"] + counters["tcp_requests"],
           tcp_responses |-> printed["tcp_responses"] + counters["tcp_responses"]]
    BY <2>1 DEF Stats!Plus
  <2> QED BY <2>2 DEF StatInv, Adds
<1> QED BY <1>1, <1>2, <1>3, InvHolds, PTL DEF Spec

-----------------------------------------------------------------------------
(* The stored text, and the answers it may be compared with. *)
AddrInv == addrs \in Texts /\ AddressesStillServed

LEMMA AnswersListed ==
  ASSUME NEW nodes \in Answers
  PROVE  /\ Listing[nodes] \in Texts /\ Listing[nodes] # <<>>
         /\ StoredListing(HostnameLen, Listing[nodes]) = Listing[nodes]
         /\ Addresses(Listing[nodes]) \subseteq Nodes(nodes)
<1>1. /\ nodes \in Seq(Seq(AddrChars)) /\ nodes # <<>>
      /\ \A i \in DOMAIN nodes : nodes[i] # Unhandled /\ AddressFits(<<>>, nodes[i])
  BY AnswersAssumption
<1>2. DOMAIN nodes = 1..Len(nodes) /\ 1 \in 1..Len(nodes)
  BY <1>1
<1>3. Listing[nodes] = get_addr_listing(nodes)
  BY DEF Listing
<1>4. get_addr_listing(nodes) \in Texts
  BY <1>1, <1>2, ListingIsJoined
<1>5. /\ StoredListing(HostnameLen, get_addr_listing(nodes)) = get_addr_listing(nodes)
      /\ get_addr_listing(nodes) # <<>>
      /\ Addresses(get_addr_listing(nodes)) \subseteq Nodes(nodes)
  BY <1>1, <1>2, NameAssumption, StoredAddressesAreAnswers
<1> QED BY <1>3, <1>4, <1>5

LEMMA NoAddresses == <<>> \in Texts /\ Addresses(<<>>) = {}
<1> DEFINE text == <<>>
<1>1. text \in Texts /\ Len(text) = 0
  BY EmptySeq DEF Texts
<1> HIDE DEF text
<1>2. 1..Len(text) = {}
  BY <1>1
<1>3. Addresses(text) = {}
  BY <1>2, Zenon DEF Addresses
<1> QED BY <1>1, <1>3 DEF text

LEMMA PollKeepsAddresses ==
  ASSUME AddrInv, NEW nodes \in Answers, dns_poll_cb(nodes)
  PROVE  AddrInv'
<1> DEFINE text == Listing[nodes]
<1>1. last_answer' = Nodes(nodes)
  BY DEF dns_poll_cb, Nodes
<1>2. /\ text \in Texts /\ text # <<>> /\ StoredListing(HostnameLen, text) = text
      /\ Addresses(text) \subseteq Nodes(nodes)
  BY AnswersListed
<1> HIDE DEF text
<1>3. CASE KeepsList(text) /\ addrs' = addrs
  <2>1. Addresses(addrs) \subseteq Addresses(text)
    BY <1>2, <1>3, KeptAddressesAreServed DEF KeepsList, AddrInv, Texts
  <2> QED BY <1>1, <1>2, <1>3, <2>1 DEF AddrInv, AddressesStillServed
<1>4. CASE ReplaceList(text)
  <2>1. CASE addrs' = text
    BY <1>1, <1>2, <2>1 DEF AddrInv, AddressesStillServed
  <2>2. CASE addrs' = <<>>
    BY <2>2, NoAddresses DEF AddrInv, AddressesStillServed
  <2> QED BY <1>2, <1>4, <2>1, <2>2 DEF ReplaceList
<1>5. (KeepsList(text) /\ addrs' = addrs) \/ ReplaceList(text)
  BY DEF dns_poll_cb, text
<1> QED BY <1>3, <1>4, <1>5

(* The addresses curl is given are always some of the poller's last answer, *)
(* for every size of the buffers, every host name and every answer: neither *)
(* get_addr_listing and dns_poll_cb nor the comparison of addr_list_reduced *)
(* cuts an address off or takes it for a part of another one.               *)
THEOREM AddressesAreServed == Spec => []AddressesStillServed
<1>1. Init => AddrInv
  <2> SUFFICES ASSUME addrs = <<>> PROVE AddrInv
    BY DEF Init
  <2> QED BY NoAddresses DEF AddrInv, AddressesStillServed
<1>2. AddrInv /\ [Next]_vars => AddrInv'
  <2> SUFFICES ASSUME AddrInv, [Next]_vars PROVE AddrInv'
    OBVIOUS
  <2>1. CASE \E nodes \in Answers : dns_poll_cb(nodes)
    BY <2>1, PollKeepsAddresses
  <2>2. CASE UNCHANGED <<addrs, last_answer>>
    BY <2>2 DEF AddrInv, AddressesStillServed
  <2>3. (\E nodes \in Answers : dns_poll_cb(nodes)) \/ UNCHANGED <<addrs, last_answer>>
    BY DEF Next, vars, resolvVars, dns_server_cb, TransferStarts, https_resp_cb, FetchesEnd,
           stat_timer_cb, signal_shutdown_cb, ForcedExit, main_returns, Finished
  <2> QED BY <2>1, <2>2, <2>3
<1>3. AddrInv => AddressesStillServed
  BY DEF AddrInv
<1> QED BY <1>1, <1>2, <1>3, PTL DEF Spec

-----------------------------------------------------------------------------
(* The shutdown. While a fetch is pending the client has a watcher, as      *)
(* FetchService promises, and main() does nothing that would change that.   *)
DrainInv ==
  /\ phase = "drain" => ~listening /\ ~stats_timer
  /\ Fetch!Watched

LEMMA ClientUnchanged ==
  ASSUME Fetch!Watched, UNCHANGED clientVars PROVE Fetch!Watched'
  BY DEF clientVars, Fetch!Watched, Fetch!Pending

LEMMA ServerKeepsWatched ==
  ASSUME Fetch!Watched, NEW r \in Reqs, dns_server_cb(r) PROVE Fetch!Watched'
<1>1. CASE Discard(r)
  BY <1>1, ClientUnchanged DEF Discard
<1>2. CASE Fetch!Submit(r)
  BY <1>2 DEF Fetch!Submit, Fetch!Watched
<1>3. CASE Fetch!Refuse(r)
  <2>1. Fetch!Pending' = Fetch!Pending
    BY <1>3 DEF Fetch!Refuse, Fetch!Become, Fetch!Pending
  <2> QED BY <1>3, <2>1 DEF Fetch!Refuse, Fetch!Watched
<1>4. CASE Fetch!Reset(Fetch!Pending \cup {r})
  <2>1. Fetch!Pending' = {}
    BY <1>4 DEF Fetch!Reset, Fetch!Become, Fetch!Pending
  <2> QED BY <2>1 DEF Fetch!Watched
<1> QED BY <1>1, <1>2, <1>3, <1>4 DEF dns_server_cb, https_client_fetch

LEMMA NextKeepsDrain == ASSUME DrainInv, [Next]_vars PROVE DrainInv'
<1>1. ASSUME ResetClient PROVE Fetch!Watched'
  BY <1>1, ResetEnds DEF Fetch!Watched
<1>2. CASE signal_shutdown_cb
  BY <1>2, ClientUnchanged
     DEF signal_shutdown_cb, ListeningAfterBreak, Stats!stat_stop, DrainInv, fetchVars
<1>3. CASE ForcedExit
  BY <1>3, ClientUnchanged DEF ForcedExit, DrainInv, fetchVars
<1>4. CASE main_returns
  BY <1>1, <1>4 DEF main_returns, DrainInv
<1>5. CASE stat_timer_cb
  BY <1>5, ClientUnchanged DEF stat_timer_cb, DrainInv, fetchVars
<1>6. ASSUME UNCHANGED <<phase, listening, stats_timer>>, Fetch!Watched' PROVE DrainInv'
  BY <1>6 DEF DrainInv
<1>7. CASE UNCHANGED vars
  BY <1>6, <1>7, ClientUnchanged DEF vars, statVars, fetchVars, DrainInv
<1>8. CASE \E r \in Reqs : dns_server_cb(r)
  BY <1>6, <1>8, ServerKeepsWatched DEF dns_server_cb, DrainInv
<1>9. CASE \E r \in Reqs : TransferStarts(r)
  BY <1>6, <1>9, ClientUnchanged DEF TransferStarts, statVars, DrainInv
<1>10. CASE \E r \in Reqs : https_resp_cb(r)
  BY <1>6, <1>10 DEF https_resp_cb, Fetch!Reply, Fetch!Works
<1>11. CASE \E S \in SUBSET Fetch!Pending : FetchesEnd(S)
  BY <1>6, <1>11 DEF FetchesEnd, Fetch!Drop, Fetch!Works, statVars
<1>12. CASE \E nodes \in Answers : dns_poll_cb(nodes)
  BY <1>1, <1>6, <1>12, ClientUnchanged DEF dns_poll_cb, ReplaceList, fetchVars, statVars, DrainInv
<1> QED BY <1>2, <1>3, <1>4, <1>5, <1>7, <1>8, <1>9, <1>10, <1>11, <1>12 DEF Next, Finished

LEMMA DrainInvHolds == Spec => []DrainInv
<1>1. Init => DrainInv
  BY DEF Init, DrainInv, Fetch!Init, Fetch!Watched, Fetch!Pending
<1>2. DrainInv /\ [Next]_vars => DrainInv'
  BY NextKeepsDrain
<1> QED BY <1>1, <1>2, PTL DEF Spec

(* The second ev_run in main() returns, for want of watchers, only when no  *)
(* fetch is pending or the multi handle has died: every other fetch that    *)
(* was under way at the signal gets its callback before the cleanups.       *)
THEOREM DrainIsComplete == Spec => DrainLosesNothing
<1>1. ASSUME DrainInv, Next, phase = "drain", phase' = "exit" PROVE Fetch!Pending = {} \/ dead
  <2>1. main_returns
    BY <1>1 DEF Next, dns_server_cb, TransferStarts, https_resp_cb, FetchesEnd, dns_poll_cb,
                stat_timer_cb, signal_shutdown_cb, ForcedExit, Finished
  <2> QED BY <1>1, <2>1 DEF main_returns, DrainDone, DrainInv, Fetch!Watched
<1>2. DrainInv /\ [Next]_vars =>
        [phase = "drain" /\ phase' = "exit" => Fetch!Pending = {} \/ dead]_vars
  BY <1>1
<1> QED BY <1>2, DrainInvHolds, PTL DEF Spec, DrainLosesNothing

(* Fetches that are to end, and transfers that are to start. *)
DrainLeft == Cardinality(Fetch!Pending) + Cardinality(Fetch!Pending \ started)

(* Every step in the drain ends it, brings its end nearer, or is one of the *)
(* client alone, which changes nothing but its watchers and multi handle.   *)
DrainShortens ==
  phase = "drain" =>
    \/ phase' \in {"exit", "killed"}
    \/ phase' = "drain" /\ DrainLeft' < DrainLeft
    \/ UNCHANGED <<phase, listening, resolvVars, list, started, status, req, answered, notified,
                   statVars>>

LEMMA SmallerSet ==
  ASSUME NEW S \in SUBSET Reqs, NEW T \in SUBSET S
  PROVE  /\ Cardinality(S) \in Nat /\ Cardinality(T) \in Nat
         /\ Cardinality(T) <= Cardinality(S)
         /\ T # S => Cardinality(T) < Cardinality(S)
<1>1. IsFiniteSet(S) /\ IsFiniteSet(T)
  BY ReqAssumption, FS_Subset
<1>2. Cardinality(S) \in Nat /\ Cardinality(T) \in Nat
  BY <1>1, FS_CardinalityType
<1>3. Cardinality(T) <= Cardinality(S) /\ (Cardinality(S) = Cardinality(T) => S = T)
  BY <1>1, FS_Subset
<1> QED BY <1>2, <1>3

LEMMA EndedShortens ==
  ASSUME NEW P \in SUBSET Reqs, NEW Q \in SUBSET P, Q # P, Fetch!Pending = P, Fetch!Pending' = Q,
         started' = started
  PROVE  DrainLeft' < DrainLeft
<1> DEFINE p == Cardinality(P)
           q == Cardinality(Q)
           m == Cardinality(P \ started)
           n == Cardinality(Q \ started)
<1>1. p \in Nat /\ q \in Nat /\ q < p
  BY SmallerSet
<1>2. m \in Nat /\ n \in Nat /\ n <= m
  <2>1. P \ started \in SUBSET Reqs /\ Q \ started \in SUBSET (P \ started)
    OBVIOUS
  <2> QED BY <2>1, SmallerSet
<1>3. DrainLeft = p + m /\ DrainLeft' = q + n
  BY DEF DrainLeft
<1> HIDE DEF p, q, m, n
<1> QED BY <1>1, <1>2, <1>3

LEMMA StartedShortens ==
  ASSUME NEW r \in Reqs, TransferStarts(r) PROVE DrainLeft' < DrainLeft
<1> DEFINE P == Fetch!Pending
           p == Cardinality(P)
           m == Cardinality(P \ started)
           n == Cardinality(P \ started')
<1>1. P \in SUBSET Reqs /\ Fetch!Pending' = P
  BY DEF TransferStarts, clientVars, Fetch!Pending
<1>2. p \in Nat
  BY <1>1, SmallerSet
<1>3. m \in Nat /\ n \in Nat /\ n < m
  <2>1. r \in P \ started /\ started' = started \cup {r}
    BY DEF TransferStarts
  <2> HIDE DEF P
  <2>2. /\ P \ started \in SUBSET Reqs /\ P \ started' \in SUBSET (P \ started)
        /\ P \ started' # P \ started
    BY <1>1, <2>1
  <2> QED BY <2>2, SmallerSet
<1>4. DrainLeft = p + m /\ DrainLeft' = p + n
  BY <1>1 DEF DrainLeft
<1> HIDE DEF P, p, m, n
<1> QED BY <1>2, <1>3, <1>4

LEMMA EndShortens ==
  ASSUME RequestInv, NEW S \in SUBSET Fetch!Pending, FetchesEnd(S), S # {}
  PROVE  DrainLeft' < DrainLeft
<1>1. /\ status' = [r \in Reqs |-> IF r \in S THEN "dropped" ELSE status[r]]
      /\ started' = started
  BY DropEnds DEF Ended, https_resp_cb_null
<1>2. /\ Fetch!Pending \in SUBSET Reqs /\ Fetch!Pending' \in SUBSET Fetch!Pending
      /\ Fetch!Pending' # Fetch!Pending
  BY <1>1 DEF Fetch!Pending
<1> QED BY <1>1, <1>2, EndedShortens

LEMMA NothingEnds ==
  ASSUME RequestInv, FetchesEnd({}) PROVE UNCHANGED <<list, started, status, req, answered>>
<1>1. Ended({})
  BY DropEnds
<1>2. status' = [r \in Reqs |-> status[r]] /\ req' = [r \in Reqs |-> req[r]]
  BY <1>1 DEF Ended, https_resp_cb_null, Free
<1> QED BY <1>1, <1>2 DEF RequestInv, Ended, https_resp_cb_null

LEMMA NextShortens ==
  ASSUME Inv, DrainInv, Next, phase = "drain" PROVE DrainShortens
<1>1. ASSUME NEW r \in Reqs, TransferStarts(r) PROVE DrainShortens
  BY <1>1, StartedShortens DEF TransferStarts, DrainShortens
<1>2. ASSUME NEW r \in Reqs, https_resp_cb(r) PROVE DrainShortens
  <2>1. /\ Fetch!Pending \in SUBSET Reqs /\ Fetch!Pending' \in SUBSET Fetch!Pending
        /\ Fetch!Pending' # Fetch!Pending
    BY <1>2 DEF https_resp_cb, Fetch!Reply, Fetch!Become, Fetch!Pending
  <2> QED BY <1>2, <2>1, EndedShortens DEF https_resp_cb, DrainShortens
<1>3. ASSUME NEW S \in SUBSET Fetch!Pending, FetchesEnd(S) PROVE DrainShortens
  <2>1. CASE S # {}
    BY <1>3, <2>1, EndShortens DEF Inv, FetchesEnd, DrainShortens
  <2>2. CASE S = {}
    BY <1>3, <2>2, NothingEnds DEF Inv, FetchesEnd, DrainShortens
  <2> QED BY <2>1, <2>2
<1>4. ~listening /\ ~(\E r \in Reqs : dns_server_cb(r))
  BY DEF DrainInv, dns_server_cb
<1>5. CASE ForcedExit \/ main_returns
  BY <1>5 DEF ForcedExit, main_returns, DrainShortens
<1> QED BY <1>1, <1>2, <1>3, <1>4, <1>5
        DEF Next, dns_poll_cb, stat_timer_cb, signal_shutdown_cb, Finished

(* In the second ev_run transfers start and fetches end, and no new ones    *)
(* come: besides the client's own work it takes at most two steps for each  *)
(* fetch that was pending when signal_shutdown_cb broke the loop.           *)
THEOREM DrainIsBounded == Spec => [][DrainShortens]_vars
<1>1. Inv /\ DrainInv /\ [Next]_vars => [DrainShortens]_vars
  BY NextShortens DEF DrainShortens
<1> QED BY <1>1, InvHolds, DrainInvHolds, PTL DEF Spec
=============================================================================
