---------------------------- MODULE HttpsClient ----------------------------
(***************************************************************************)
(* The DNS-over-HTTPS client (src/https_client.c): the list of fetches,    *)
(* the socket and timer watchers it lends to libcurl, the connection       *)
(* count, the reset timer, and the reset that starts over with a new curl  *)
(* multi handle.                                                           *)
(*                                                                         *)
(* libcurl does all its work inside calls this client makes. sock_cb and   *)
(* timer_cb therefore span several steps: they call                        *)
(* curl_multi_socket_action (ctl is "sock" or "timer"), which calls the    *)
(* client's callbacks in an order of its own choosing, returns, and then   *)
(* check_multi_info runs (ctl is "info"). Nothing else runs in between.    *)
(***************************************************************************)
EXTENDS Integers, FiniteSets

CONSTANTS
  Reqs,                \* requests handed to https_client_fetch
  Fds,                 \* descriptors opensocket_callback may return
  ExtraFds,            \* descriptors curl polls but opens by itself (resolver)
  NoFd,                \* 0, the fd of an unused slot of io_events
  HTTPS_SOCKET_LIMIT,
  DOH_MAX_RESPONSE_SIZE

ASSUME LimitAssumption == HTTPS_SOCKET_LIMIT \in Nat \ {0}
ASSUME SizeAssumption == DOH_MAX_RESPONSE_SIZE \in Nat \ {0}
ASSUME FdAssumption ==
  /\ IsFiniteSet(Fds)
  /\ Fds \cap ExtraFds = {}
  /\ NoFd \notin Fds \cup ExtraFds

VARIABLES
  ctl,           \* where the thread is: "loop", "sock", "timer", "info"; "exit", "closed"
  fetches,       \* client->fetches
  buflen,        \* ctx->buflen of each request
  handle,        \* ctx->curl: "none" (not in the multi handle), "live" or its result
  dead,          \* curl: a callback failed, the multi handle refuses new transfers
  aborted,       \* curl: the socket action under way will report that failure
  sockets,       \* kernel: descriptors open on behalf of opensocket_callback
  connections,   \* client->connections
  leaked,        \* history: number of close() calls that failed
  io_events,     \* client->io_events: the fd of each slot
  timer,         \* client->timer is active
  reset_timer,   \* client->reset_timer is active
  outcome        \* history: what each request's callback was called with

fetchVars == <<fetches, buflen, handle, outcome>>
socketVars == <<sockets, connections, leaked>>
curlVars == <<dead, aborted>>
vars == <<ctl, fetchVars, curlVars, socketVars, io_events, timer, reset_timer>>

Slots == 1..HTTPS_SOCKET_LIMIT

(* CURLcode, as far as https_fetch_ctx_process_response tells it apart.     *)
Results == {"ok", "timedout", "failed"}

(* "never": not handed over yet; "waiting": no callback yet; "twice": a     *)
(* second callback, which would use a freed request.                        *)
Outcomes == {"never", "waiting", "reply", "null", "twice"}

Live == {r \in Reqs : handle[r] = "live"}
InCurl == ctl \in {"sock", "timer"}

Init ==
  /\ ctl = "loop"
  /\ fetches = {}
  /\ buflen = [r \in Reqs |-> 0]
  /\ handle = [r \in Reqs |-> "none"]
  /\ dead = FALSE
  /\ aborted = FALSE
  /\ sockets = {}
  /\ connections = 0
  /\ leaked = 0
  /\ io_events = [i \in Slots |-> NoFd]
  /\ timer = FALSE
  /\ reset_timer = FALSE
  /\ outcome = [r \in Reqs |-> "never"]

-----------------------------------------------------------------------------
(* Callbacks curl makes while it transfers. *)

SocketLimitReached_OffByOne == connections > HTTPS_SOCKET_LIMIT

SocketLimitReached == connections >= HTTPS_SOCKET_LIMIT

opensocket_callback(s) ==
  /\ InCurl
  /\ s \notin sockets
  /\ ~SocketLimitReached
  /\ sockets' = sockets \cup {s}
  /\ connections' = connections + 1
  /\ UNCHANGED <<ctl, fetchVars, curlVars, leaked, io_events, timer, reset_timer>>

ConnectionsAfterClose_Kept == connections

ConnectionsAfterClose == connections - 1

ResetTimerAfterClose_LastButOne(conns) == reset_timer /\ conns > 1

ResetTimerAfterClose(conns) == reset_timer /\ conns > 0

(* Curl closes a socket after it has stopped polling it. A close() that     *)
(* fails still frees the descriptor, but is not counted.                    *)
closesocket_callback(s) ==
  /\ InCurl \/ ctl = "info"
  /\ s \in sockets
  /\ \A i \in Slots : io_events[i] # s
  /\ sockets' = sockets \ {s}
  /\ \/ /\ connections' = ConnectionsAfterClose
        /\ reset_timer' = ResetTimerAfterClose(connections')
        /\ UNCHANGED leaked
     \/ /\ leaked' = leaked + 1
        /\ UNCHANGED <<connections, reset_timer>>
  /\ UNCHANGED <<ctl, fetchVars, curlVars, io_events, timer>>

(* get_io_event: the first slot with that fd. *)
get_io_event(events, fd) ==
  CHOOSE i \in Slots : events[i] = fd /\ \A j \in Slots : events[j] = fd => i <= j

HasEvent(events, fd) == \E i \in Slots : events[i] = fd

ReleaseEvent_Kept(fd) == io_events

ReleaseEvent(fd) ==
  IF HasEvent(io_events, fd)
  THEN [io_events EXCEPT ![get_io_event(io_events, fd)] = NoFd]
  ELSE io_events

ReserveEvent(events, fd) == [events EXCEPT ![get_io_event(events, NoFd)] = fd]

multi_sock_cb_remove(fd) ==
  /\ InCurl \/ ctl = "info"
  /\ HasEvent(io_events, fd)
  /\ io_events' = ReleaseEvent(fd)
  /\ UNCHANGED <<ctl, fetchVars, curlVars, socketVars, timer, reset_timer>>

(* Poll fd for reading or writing. Without a free slot the callback returns *)
(* -1 and curl declares the multi handle dead.                              *)
multi_sock_cb_poll(fd) ==
  /\ InCurl
  /\ fd \in sockets \cup ExtraFds
  /\ \/ /\ HasEvent(ReleaseEvent(fd), NoFd)
        /\ io_events' = ReserveEvent(ReleaseEvent(fd), fd)
        /\ UNCHANGED curlVars
     \/ /\ ~HasEvent(ReleaseEvent(fd), NoFd)
        /\ io_events' = ReleaseEvent(fd)
        /\ dead' = TRUE
        /\ aborted' = TRUE
  /\ UNCHANGED <<ctl, fetchVars, socketVars, timer, reset_timer>>

(* Curl disarms its timer only when no transfer is left that could time     *)
(* out, and leaves it alone once the multi handle is dead.                  *)
multi_timer_cb(armed) ==
  /\ InCurl \/ ctl = "info"
  /\ timer' = armed
  /\ ~dead
  /\ armed \/ Live = {}
  /\ UNCHANGED <<ctl, fetchVars, curlVars, socketVars, io_events, reset_timer>>

Fits(r, size) == buflen[r] + size <= DOH_MAX_RESPONSE_SIZE

(* Response data for request r. Too much of it, or no memory for it, makes  *)
(* curl end the transfer (CURLE_WRITE_ERROR, a failure as any other).       *)
write_buffer(r, size) ==
  /\ InCurl
  /\ r \in Live
  /\ \/ /\ Fits(r, size)
        /\ buflen' = [buflen EXCEPT ![r] = @ + size]
        /\ UNCHANGED handle
     \/ /\ handle' = [handle EXCEPT ![r] = "failed"]
        /\ UNCHANGED buflen
  /\ UNCHANGED <<ctl, fetches, outcome, curlVars, socketVars, io_events, timer,
                 reset_timer>>

(* A transfer ends inside curl; curl queues a message with its result. All  *)
(* transfers of a dead multi handle fail.                                   *)
TransferDone(r, result) ==
  /\ InCurl
  /\ r \in Live
  /\ dead => result = "failed"
  /\ handle' = [handle EXCEPT ![r] = result]
  /\ UNCHANGED <<ctl, fetches, buflen, outcome, curlVars, socketVars, io_events, timer,
                 reset_timer>>

-----------------------------------------------------------------------------
(* https_fetch_ctx_cleanup for the requests of S. reply is the set of those *)
(* that keep their buffer; the others' callbacks get NULL.                  *)

HandlesLeft_NotRemoved(S) == handle

HandlesLeft(S) == [r \in Reqs |-> IF r \in S THEN "none" ELSE handle[r]]

CallbackArgument(r, reply) == IF r \in reply /\ buflen[r] > 0 THEN "reply" ELSE "null"

https_fetch_ctx_cleanup(S, reply) ==
  /\ handle' = HandlesLeft(S)
  /\ buflen' = [r \in Reqs |-> IF r \in S THEN 0 ELSE buflen[r]]
  /\ outcome' = [r \in Reqs |->
                   IF r \notin S THEN outcome[r]
                   ELSE IF outcome[r] \in {"never", "waiting"} THEN CallbackArgument(r, reply)
                   ELSE "twice"]
  /\ fetches' = fetches \ S

(* https_client_cleanup: every fetch is aborted, and curl_multi_cleanup     *)
(* releases every slot and closes every socket (unclosed: close() fails).   *)
https_client_cleanup(S) ==
  /\ https_fetch_ctx_cleanup(S, {})
  /\ \E unclosed \in SUBSET sockets :
       /\ connections' = connections - Cardinality(sockets \ unclosed)
       /\ leaked' = leaked + Cardinality(unclosed)
  /\ sockets' = {}
  /\ io_events' = [i \in Slots |-> NoFd]
  /\ dead' = FALSE
  /\ UNCHANGED aborted
  /\ timer' \in BOOLEAN
  /\ reset_timer' = FALSE

https_client_reset(S) == https_client_cleanup(S)

-----------------------------------------------------------------------------
(* https_client_fetch: the request goes on the list and to curl. If curl    *)
(* refuses it, either the client is reset, which ends this request and all  *)
(* others, or this request alone is dropped.                                *)

FetchStarts(r) ==
  /\ ~(dead /\ Live # {})
  /\ fetches' = fetches \cup {r}
  /\ handle' = [handle EXCEPT ![r] = "live"]
  /\ outcome' = [outcome EXCEPT ![r] = "waiting"]
  /\ dead' = FALSE
  /\ timer' = TRUE
  /\ UNCHANGED <<buflen, aborted, socketVars, io_events, reset_timer>>

FetchResetsClient(r) ==
  /\ dead /\ Live # {}
  /\ https_client_reset(fetches \cup {r})

FetchFails_KeptInCurl(r) ==
  /\ fetches' = fetches \cup {r}
  /\ handle' = [handle EXCEPT ![r] = "live"]
  /\ outcome' = [outcome EXCEPT ![r] = "null"]
  /\ UNCHANGED <<buflen, curlVars, socketVars, io_events, timer, reset_timer>>

FetchFails(r) ==
  /\ https_fetch_ctx_cleanup({r}, {})
  /\ UNCHANGED <<curlVars, socketVars, io_events, timer, reset_timer>>

https_client_fetch(r) ==
  /\ ctl = "loop"
  /\ outcome[r] = "never"
  /\ FetchStarts(r) \/ FetchResetsClient(r) \/ FetchFails(r)
  /\ UNCHANGED ctl

-----------------------------------------------------------------------------
(* The event loop's callbacks. *)

sock_cb ==
  /\ ctl = "loop"
  /\ \E i \in Slots : io_events[i] # NoFd
  /\ ctl' = "sock"
  /\ UNCHANGED <<fetchVars, curlVars, socketVars, io_events, timer, reset_timer>>

timer_cb ==
  /\ ctl = "loop"
  /\ timer
  /\ timer' = FALSE
  /\ ctl' = "timer"
  /\ UNCHANGED <<fetchVars, curlVars, socketVars, io_events, reset_timer>>

(* curl_multi_socket_action returns, with its timer armed while transfers   *)
(* are left. sock_cb logs an error as fatal, which ends the program, and    *)
(* never reaches the reset that follows; timer_cb carries on.               *)
AfterSocketAction_NoInfo == IF ctl = "sock" /\ aborted THEN "exit" ELSE "loop"

AfterSocketAction_InfoOnlyIfOk ==
  IF ~aborted THEN "info" ELSE IF ctl = "sock" THEN "exit" ELSE "loop"

AfterSocketAction == IF ctl = "sock" /\ aborted THEN "exit" ELSE "info"

SocketActionReturns ==
  /\ InCurl
  /\ Live # {} /\ ~dead => timer
  /\ ctl' = AfterSocketAction
  /\ aborted' = FALSE
  /\ UNCHANGED <<fetchVars, dead, socketVars, io_events, timer, reset_timer>>

(* A completed transfer keeps its reply if curl succeeded, the HTTP status  *)
(* is 200 and the content type is that of DNS-over-HTTPS.                   *)
https_fetch_ctx_process_response(r, status200, doh_type) ==
  IF handle[r] = "ok" /\ status200 /\ doh_type THEN {r} ELSE {}

check_multi_info(r) ==
  /\ ctl = "info"
  /\ handle[r] \in Results
  /\ \E status200, doh_type \in BOOLEAN :
       https_fetch_ctx_cleanup({r}, https_fetch_ctx_process_response(r, status200, doh_type))
  /\ reset_timer' = (reset_timer \/ handle[r] = "timedout")
  /\ UNCHANGED <<ctl, curlVars, socketVars, io_events, timer>>

check_multi_info_ends ==
  /\ ctl = "info"
  /\ \A r \in Reqs : handle[r] \notin Results
  /\ ctl' = "loop"
  /\ UNCHANGED <<fetchVars, curlVars, socketVars, io_events, timer, reset_timer>>

reset_timer_cb ==
  /\ ctl = "loop"
  /\ reset_timer
  /\ https_client_reset(fetches)
  /\ UNCHANGED ctl

(* dns_poll_cb resets the client when the resolver's addresses change. *)
ResetOnNewAddress ==
  /\ ctl = "loop"
  /\ https_client_reset(fetches)
  /\ UNCHANGED ctl

(* main() after the event loop has ended. *)
Cleanup ==
  /\ ctl = "loop"
  /\ https_client_cleanup(fetches)
  /\ ctl' = "closed"

Finished ==
  /\ ctl \in {"exit", "closed"}
  /\ UNCHANGED vars

CurlStep ==
  \/ \E s \in Fds : opensocket_callback(s) \/ closesocket_callback(s)
  \/ \E fd \in Fds \cup ExtraFds : multi_sock_cb_remove(fd) \/ multi_sock_cb_poll(fd)
  \/ \E armed \in BOOLEAN : multi_timer_cb(armed)
  \/ \E r \in Reqs, size \in 1..DOH_MAX_RESPONSE_SIZE : write_buffer(r, size)
  \/ \E r \in Reqs, result \in Results : TransferDone(r, result)

(* All but the reset timer, whose time is in ResetTimer. *)
ClientStep ==
  \/ CurlStep
  \/ SocketActionReturns
  \/ \E r \in Reqs : https_client_fetch(r) \/ check_multi_info(r)
  \/ check_multi_info_ends
  \/ sock_cb
  \/ timer_cb
  \/ ResetOnNewAddress
  \/ Cleanup
  \/ Finished

Next == ClientStep \/ reset_timer_cb

(* The loop runs an expired timer, a callback that was entered is finished, *)
(* and CURLOPT_TIMEOUT (5 or 10 seconds) ends a transfer sooner or later.   *)
Fairness ==
  /\ WF_vars(timer_cb)
  /\ WF_vars(multi_timer_cb(TRUE))
  /\ WF_vars(SocketActionReturns)
  /\ WF_vars(check_multi_info_ends \/ \E r \in Reqs : check_multi_info(r))
  /\ \A r \in Reqs : SF_vars(\E result \in Results : TransferDone(r, result))

Spec == Init /\ [][Next]_vars

FairSpec == Spec /\ Fairness

-----------------------------------------------------------------------------
(* The variables keep their types; in particular a response buffer never    *)
(* exceeds DOH_MAX_RESPONSE_SIZE and the connection count stays in range.   *)
TypeOK ==
  /\ ctl \in {"loop", "sock", "timer", "info", "exit", "closed"}
  /\ fetches \subseteq Reqs
  /\ buflen \in [Reqs -> 0..DOH_MAX_RESPONSE_SIZE]
  /\ handle \in [Reqs -> Results \cup {"none", "live"}]
  /\ dead \in BOOLEAN
  /\ aborted \in BOOLEAN
  /\ sockets \subseteq Fds
  /\ connections \in 0..HTTPS_SOCKET_LIMIT
  /\ leaked \in Nat
  /\ io_events \in [Slots -> Fds \cup ExtraFds \cup {NoFd}]
  /\ timer \in BOOLEAN
  /\ reset_timer \in BOOLEAN
  /\ outcome \in [Reqs -> Outcomes]

(* "callback must be called to avoid memleak": the fetches on the list are  *)
(* those still owed a callback, and no request's callback runs twice (it    *)
(* frees the request), whether it completes, fails as it starts or is       *)
(* aborted by a reset.                                                      *)
CallbackOnce ==
  \A r \in Reqs :
    /\ outcome[r] # "twice"
    /\ r \in fetches <=> outcome[r] = "waiting"

(* Curl holds the easy handle of a fetch exactly while the fetch is on the  *)
(* list: no handle writes into a freed context, and no fetch waits for a    *)
(* transfer curl does not know. Back in the loop every one of them is still *)
(* running, so no finished transfer is left unprocessed.                    *)
HandlesMatchFetches ==
  /\ \A r \in Reqs : r \in fetches <=> handle[r] # "none"
  /\ ctl = "loop" => \A r \in fetches : handle[r] = "live"

(* The hand-kept connection count is the number of open sockets, plus one   *)
(* for every close() that failed.                                           *)
ConnectionsAccounted == connections = Cardinality(sockets) + leaked

(* A slot in use polls a descriptor that is open, and no descriptor has two *)
(* slots: multi_sock_cb releases the old slot before it reserves a new one. *)
SlotsPollOpenSockets ==
  \A i \in Slots : io_events[i] # NoFd =>
    /\ io_events[i] \in sockets \cup ExtraFds
    /\ \A j \in Slots : io_events[j] = io_events[i] => i = j

(* The limit in opensocket_callback protects multi_sock_cb: as long as no   *)
(* slot polls a descriptor curl opened by itself, every open socket has a   *)
(* slot or finds a free one.                                                *)
SlotsNeverRunOut ==
  (\A i \in Slots : io_events[i] \notin ExtraFds) =>
    \A s \in sockets : HasEvent(io_events, s) \/ HasEvent(io_events, NoFd)

(* closesocket_callback and https_client_cleanup cancel the reset timer     *)
(* only when no socket is left: as long as one is open, a reset that is due *)
(* stays due, although the decision rests on a count kept by hand.          *)
CancelledForCause == reset_timer /\ ~reset_timer' => sockets' = {}

ResetStaysDue == [][CancelledForCause]_vars

(* Every fetch gets its callback, unless the program exits or the multi     *)
(* handle dies (then the next https_client_fetch resets the client).        *)
FetchAnswered ==
  \A r \in Reqs :
    outcome[r] = "waiting" ~> (outcome[r] # "waiting" \/ dead \/ ctl = "exit")

(* The client implements the service its user sees, in which there is no    *)
(* second callback. Inside a callback the loop cannot end.                  *)
FetchStatus(r) ==
  CASE outcome[r] = "never" -> "new"
    [] outcome[r] = "waiting" -> "pending"
    [] outcome[r] = "reply" -> "replied"
    [] outcome[r] = "null" -> "dropped"
    [] outcome[r] = "twice" -> "twice"

HasWatcher ==
  \/ ctl \in {"sock", "timer", "info", "exit"}
  \/ timer \/ reset_timer \/ \E i \in Slots : io_events[i] # NoFd

Service == INSTANCE FetchService
  WITH status <- [r \in Reqs |-> FetchStatus(r)], active <- HasWatcher

(* Every step of the client is a step of FetchService or invisible to it:   *)
(* in particular no fetch is left behind without a watcher that will end it *)
(* unless the multi handle has died.                                        *)
ImplementsFetchService == Service!Spec
=============================================================================
