------------------------------- MODULE Proxy -------------------------------
(***************************************************************************)
(* The program (src/main.c): it joins the DNS servers, the HTTPS client    *)
(* and the bootstrap poller. This module follows the life of a request     *)
(* (request_t), of the address list curl resolves the DoH server with      *)
(* (app.resolv), of the readiness message to systemd, of the statistics,   *)
(* and the shutdown that drains the event loop.                            *)
(*                                                                         *)
(* The HTTPS client is used through FetchService, which HttpsClient is     *)
(* shown to implement; its fatal errors end the program and are not        *)
(* followed here. The servers appear as what dns_server_cb and             *)
(* https_resp_cb see of them; DnsServerTcp has their inside. The answers   *)
(* of the poller come through get_addr_listing, as in DnsPoller.           *)
(***************************************************************************)
EXTENDS Integers, FiniteSets, AddrList

CONSTANTS
  Reqs,        \* requests arriving at the servers
  TcpReqs,     \* those that arrive over TCP
  Answers,     \* answers of the poller: sequences of addresses
  HostnameLen, \* length of the DoH server's name
  MaxLists     \* bound: address lists built

ASSUME ReqAssumption == IsFiniteSet(Reqs) /\ TcpReqs \subseteq Reqs
ASSUME ListAssumption == MaxLists \in Nat
ASSUME NameAssumption == HostnameLen \in 1..(HOSTNAME_SIZE - 1)
ASSUME AnswersAssumption ==
  \A nodes \in Answers :
    /\ nodes \in Seq(Seq(AddrChars))
    /\ nodes # <<>>
    /\ \A i \in DOMAIN nodes : nodes[i] # Unhandled /\ AddressFits(<<>>, nodes[i])

VARIABLES
  mode,         \* options: "poller"; "literal": the URL has an IP address;
                \*   "proxy": the HTTP proxy resolves the name
  phase,        \* "loop", "drain" (second ev_run), "exit", "killed"
  listening,    \* the servers' watchers are active
  resolv,       \* app.resolv: 0 is NULL, n the n-th list built
  lists,        \* history: number of lists built
  append_failed,\* history: the last curl_slist_append returned NULL
  addrs,        \* the text of the addresses in app.resolv
  freed_lists,  \* lists given to curl_slist_free_all
  last_answer,  \* history: the addresses of the poller's last answer
  list,         \* the list each fetch gave to curl (CURLOPT_RESOLVE)
  started,      \* curl: fetches whose transfer has started, reading list
  status, dead, active,   \* see FetchService
  req,          \* request_t and its dns_req: "none", "held", "freed", "twice"
  answered,     \* history: requests whose answer was passed on to a server
  notified,     \* number of READY=1 messages sent to systemd
  stats_interval, stats_timer, counters, printed   \* see Stat

resolvVars == <<resolv, lists, append_failed, addrs, freed_lists, last_answer>>
clientVars == <<status, dead, active>>
fetchVars == <<list, started, clientVars, req, answered>>
statVars == <<stats_interval, stats_timer, counters, printed>>
vars == <<mode, phase, listening, resolvVars, fetchVars, notified, statVars>>

Fetch == INSTANCE FetchService
Stats == INSTANCE Stat

(* The poller's text for each answer. *)
Listing == [nodes \in Answers |-> get_addr_listing(nodes)]

using_dns_poller == mode = "poller"
InLoop == phase \in {"loop", "drain"}

(* main() tells systemd at once only if there is nothing to look up. *)
NotifiedAtStart == mode = "literal"

(* main() up to ev_run *)
Init ==
  /\ mode \in {"poller", "literal", "proxy"}
  /\ phase = "loop"
  /\ listening = TRUE
  /\ resolv = 0
  /\ lists = 0
  /\ append_failed = FALSE
  /\ addrs = <<>>
  /\ freed_lists = {}
  /\ last_answer = {}
  /\ list = [r \in Reqs |-> 0]
  /\ started = {}
  /\ Fetch!Init
  /\ req = [r \in Reqs |-> "none"]
  /\ answered = {}
  /\ notified = IF NotifiedAtStart THEN 1 ELSE 0
  /\ Stats!stat_init

-----------------------------------------------------------------------------
(* The end of https_resp_cb, for every request of S. *)
Free_Kept(S) == req

Free(S) ==
  [r \in Reqs |-> IF r \notin S THEN req[r]
                  ELSE IF req[r] \in {"none", "held"} THEN "freed" ELSE "twice"]

(* https_resp_cb without a reply: the fetches of S failed, timed out or     *)
(* were ended by a reset of the client.                                     *)
https_resp_cb_null(S) ==
  /\ req' = Free(S)
  /\ UNCHANGED <<list, started, answered>>

(* https_resp_cb with a reply. Only one that is long enough and has the     *)
(* request's id is passed on to the server, and counted.                    *)
CountAnswer(r) ==
  counters' = IF stats_interval THEN Stats!stat_request_end(r \in TcpReqs) ELSE counters

https_resp_cb(r) ==
  /\ InLoop
  /\ r \in started
  /\ Fetch!Reply(r)
  /\ req' = Free({r})
  /\ \/ answered' = answered \cup {r} /\ CountAnswer(r)
     \/ UNCHANGED <<answered, counters>>
  /\ UNCHANGED <<mode, phase, listening, resolvVars, list, started, notified,
                 stats_interval, stats_timer, printed>>

(* A callback of the client that ends the fetches of S, which may be none   *)
(* or, when the client resets itself, all.                                  *)
FetchesEnd(S) ==
  /\ InLoop
  /\ Fetch!Drop(S)
  /\ https_resp_cb_null(S)
  /\ UNCHANGED <<mode, phase, listening, resolvVars, notified, statVars>>

(* Curl's timer starts the transfer in a later callback than the one that   *)
(* added it; only then the list is read.                                    *)
TransferStarts(r) ==
  /\ InLoop
  /\ active
  /\ r \in Fetch!Pending \ started
  /\ started' = started \cup {r}
  /\ UNCHANGED <<mode, phase, listening, resolvVars, list, clientVars, req, answered,
                 notified, statVars>>

-----------------------------------------------------------------------------
(* dns_server_cb. Before bootstrapping the query is discarded. Otherwise it *)
(* is handed to https_client_fetch, which may end it, alone or together     *)
(* with all others, before it returns.                                      *)
Bootstrapping == using_dns_poller /\ resolv = 0

Discard(r) ==
  /\ Bootstrapping
  /\ req' = Free({r})
  /\ UNCHANGED <<list, started, clientVars, answered, counters>>

CountRequest(r) ==
  counters' = IF stats_interval THEN Stats!stat_request_begin(r \in TcpReqs) ELSE counters

https_client_fetch(r) ==
  /\ ~Bootstrapping
  /\ CountRequest(r)
  /\ \/ /\ Fetch!Submit(r)
        /\ req' = [req EXCEPT ![r] = "held"]
        /\ list' = [list EXCEPT ![r] = resolv]
        /\ UNCHANGED <<started, answered>>
     \/ Fetch!Refuse(r) /\ https_resp_cb_null({r})
     \/ LET all == Fetch!Pending \cup {r} IN Fetch!Reset(all) /\ https_resp_cb_null(all)

dns_server_cb(r) ==
  /\ InLoop
  /\ listening
  /\ req[r] = "none"
  /\ Discard(r) \/ https_client_fetch(r)
  /\ UNCHANGED <<mode, phase, listening, resolvVars, notified,
                 stats_interval, stats_timer, printed>>

-----------------------------------------------------------------------------
(* https_client_reset, and https_client_cleanup: every fetch ends. *)
ResetClient_Forgotten == UNCHANGED fetchVars

ResetClient == Fetch!Reset(Fetch!Pending) /\ https_resp_cb_null(Fetch!Pending)

(* systemd_notify_ready, which sends its message only once. *)
NotifyReady_Repeats == IF resolv = 0 THEN notified + 1 ELSE notified

NotifyReady == IF resolv = 0 /\ notified = 0 THEN 1 ELSE notified

(* curl_slist_free_all(app.resolv), which ignores NULL. *)
FreeList == freed_lists \cup ({resolv} \ {0})

(* dns_poll_cb with the text of the addresses in nodes. The list in use is  *)
(* kept if the new one has all its addresses.                               *)
KeepsList(addr_list) == resolv # 0 /\ ~addr_list_reduced(addr_list, addrs)

(* Without memory for the new list app.resolv is NULL again. *)
ReplaceList(addr_list) ==
  /\ freed_lists' = FreeList
  /\ \/ /\ lists < MaxLists
        /\ lists' = lists + 1
        /\ resolv' = lists'
        /\ addrs' = StoredListing(HostnameLen, addr_list)
        /\ append_failed' = FALSE
     \/ /\ resolv' = 0
        /\ addrs' = <<>>
        /\ append_failed' = TRUE
        /\ UNCHANGED lists
  /\ ResetClient

dns_poll_cb(nodes) ==
  /\ using_dns_poller
  /\ phase = "loop"
  /\ notified' = NotifyReady
  /\ last_answer' = {nodes[i] : i \in DOMAIN nodes}
  /\ \/ /\ KeepsList(Listing[nodes])
        /\ UNCHANGED <<resolv, lists, append_failed, addrs, freed_lists, fetchVars>>
     \/ ~KeepsList(Listing[nodes]) /\ ReplaceList(Listing[nodes])
  /\ UNCHANGED <<mode, phase, listening, statVars>>

-----------------------------------------------------------------------------
stat_timer_cb ==
  /\ phase = "loop"
  /\ Stats!stat_timer_cb
  /\ UNCHANGED <<mode, phase, listening, resolvVars, fetchVars, notified>>

(* SIGINT or SIGTERM breaks the loop, and main() prepares the drain: the    *)
(* poller ends, the list is freed, the servers stop listening and the       *)
(* statistics' timer stops.                                                 *)
ListeningAfterBreak_Kept == listening

ListeningAfterBreak == FALSE

signal_shutdown_cb ==
  /\ phase = "loop"
  /\ phase' = "drain"
  /\ freed_lists' = FreeList
  /\ listening' = ListeningAfterBreak
  /\ Stats!stat_stop
  /\ UNCHANGED <<mode, resolv, lists, append_failed, addrs, last_answer, fetchVars, notified>>

(* "To force exit, send signal again." The handlers are gone by then. *)
ForcedExit ==
  /\ phase = "drain"
  /\ phase' = "killed"
  /\ UNCHANGED <<mode, listening, resolvVars, fetchVars, notified, statVars>>

(* The second ev_run returns when no watcher is active: those of the        *)
(* servers and the statistics are stopped, and the HTTPS client has neither *)
(* a timer nor a socket to poll left.                                       *)
DrainDone_OneRound == ~listening /\ ~stats_timer

DrainDone == ~listening /\ ~stats_timer /\ ~active

(* https_client_cleanup ends the fetches a dead multi handle has left, and  *)
(* stat_cleanup prints the last statistics.                                 *)
main_returns ==
  /\ phase = "drain"
  /\ DrainDone
  /\ phase' = "exit"
  /\ ResetClient
  /\ Stats!stat_cleanup
  /\ UNCHANGED <<mode, listening, resolvVars, notified>>

Finished ==
  /\ phase \in {"exit", "killed"}
  /\ UNCHANGED vars

Next ==
  \/ \E r \in Reqs : dns_server_cb(r) \/ TransferStarts(r) \/ https_resp_cb(r)
  \/ \E S \in SUBSET Fetch!Pending : FetchesEnd(S)
  \/ \E nodes \in Answers : dns_poll_cb(nodes)
  \/ stat_timer_cb
  \/ signal_shutdown_cb
  \/ ForcedExit
  \/ main_returns
  \/ Finished

Spec == Init /\ [][Next]_vars

(* As long as the multi handle is alive, every fetch ends (FetchAnswered of *)
(* HttpsClient). A client without fetches loses its last watcher: the reset *)
(* timer expires, and curl polls and waits only for transfers.              *)
SomeFetchEnds ==
  /\ ~dead
  /\ \/ \E r \in Reqs : https_resp_cb(r)
     \/ \E S \in SUBSET Fetch!Pending : S # {} /\ FetchesEnd(S)

ClientGoesIdle == Fetch!Pending = {} /\ FetchesEnd({}) /\ ~active'

DrainSpec ==
  /\ Spec
  /\ WF_vars(SomeFetchEnds)
  /\ WF_vars(ClientGoesIdle)
  /\ WF_vars(main_returns)

-----------------------------------------------------------------------------
(* A request's memory, which dns_server_cb hands to the fetch, is held      *)
(* exactly while the fetch is pending and never freed twice, whichever of   *)
(* reply, failure, reset or shutdown ends it; main() leaves none behind.    *)
RequestFreedOnce ==
  /\ \A r \in Reqs : req[r] # "twice" /\ (req[r] = "held" <=> status[r] = "pending")
  /\ phase = "exit" => \A r \in Reqs : req[r] # "held"

(* "Resets curl or it gets in a mess due to IP of streaming connection not  *)
(* matching that of configured DNS": while the program runs, every pending  *)
(* fetch has the current address list, which has not been freed.            *)
FetchesUseCurrentList ==
  phase = "loop" =>
    \A r \in Fetch!Pending : list[r] = resolv /\ list[r] \notin freed_lists

(* The addresses in use are some of the poller's last answer, although a    *)
(* list is kept as long as addr_list_reduced finds all of it in the new     *)
(* text: none is cut off or mistaken for a part of another one.             *)
AddressesStillServed == Addresses(addrs) \subseteq last_answer

(* The statistics lose and repeat nothing: what was printed and what        *)
(* is still counted add up to the requests handed to curl and the answers   *)
(* passed on, by protocol, although a request may be answered after the     *)
(* print that counted it or in the drain; after main() all is printed.      *)
StatsAddUp ==
  stats_interval =>
    LET fetched == {r \in Reqs : status[r] # "new"} IN
      /\ Stats!Plus(printed, counters) =
           [requests |-> Cardinality(fetched \ TcpReqs),
            responses |-> Cardinality(answered \ TcpReqs),
            tcp_requests |-> Cardinality(fetched \cap TcpReqs),
            tcp_responses |-> Cardinality(answered \cap TcpReqs)]
      /\ phase = "exit" => counters = Stats!Zero

(* systemd is told READY once, however often app.resolv becomes NULL, and   *)
(* only when requests are not discarded; after that they are discarded only *)
(* for want of memory for a new address list.                               *)
ReadyMeansServing ==
  /\ notified <= 1
  /\ notified = 1 => ~Bootstrapping \/ append_failed

(* "Shutting down gracefully": the drain waits for every fetch. Only those  *)
(* of a dead multi handle are given up.                                     *)
DrainLosesNothing ==
  [][phase = "drain" /\ phase' = "exit" => Fetch!Pending = {} \/ dead]_vars

(* After the signal the program ends by itself, unless the multi handle     *)
(* dies: no fetch comes that would revive it.                               *)
ShutdownEnds == phase = "drain" ~> (phase \in {"exit", "killed"} \/ dead)

(* "Shutting down gracefully": a transfer that starts in the drain still    *)
(* finds its address list.                                                  *)
TransfersFindTheirList ==
  [][\A r \in started' \ started : list[r] \notin freed_lists]_vars
=============================================================================
