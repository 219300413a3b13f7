----------------------------- MODULE DnsPoller -----------------------------
(***************************************************************************)
(* The bootstrap DNS poller (src/dns_poller.c): it asks the bootstrap name *)
(* servers for the resolver's addresses through c-ares, again and again.   *)
(* One timer serves three ends: the pause after an answer, the shorter one *)
(* after a failure, and c-ares' own timeouts while a query is under way.   *)
(*                                                                         *)
(* c-ares works only inside calls the poller makes (ctl is "timer", "sock" *)
(* or "destroy"), and then calls sock_state_cb and ares_cb as it sees fit. *)
(***************************************************************************)
EXTENDS Integers, FiniteSets, AddrList

CONSTANTS
  Fds,               \* sockets c-ares may open
  NoFd,              \* 0, the fd of an unused slot of io_events
  io_events_count,   \* number of bootstrap name servers
  MaxSockets,        \* sockets c-ares has open at most at one time
  Answers            \* answers of c-ares: sequences of addresses (nodes)

ASSUME CountAssumption == io_events_count \in Nat \ {0} /\ MaxSockets \in Nat
ASSUME FdAssumption == IsFiniteSet(Fds) /\ NoFd \notin Fds
ASSUME AnswersAssumption ==
  \A nodes \in Answers :
    /\ nodes \in Seq(Seq(AddrChars))
    /\ \E i \in DOMAIN nodes : nodes[i] # Unhandled
    /\ \A i \in DOMAIN nodes : AddressFits(<<>>, nodes[i])

VARIABLES
  ctl,              \* "loop", "timer", "sock", "destroy"; "fatal", "done"
  timer,            \* d->timer: "off", or what it was last set for
  request_ongoing,  \* d->request_ongoing
  query,            \* c-ares: it has a query whose callback is due
  sockets,          \* c-ares: its open sockets
  io_events,        \* d->io_events: the fd of each slot
  answer,           \* history: the nodes of the last answer
  addr_list         \* the text given to d->cb (dns_poll_cb) for it

aresVars == <<query, sockets>>
listVars == <<answer, addr_list>>
vars == <<ctl, timer, request_ongoing, aresVars, io_events, listVars>>

Slots == 1..io_events_count
Processing == ctl \in {"timer", "sock"}
InAres == Processing \/ ctl = "destroy"

(* The outcomes ares_cb tells apart: addresses, none (an error, or an       *)
(* answer without addresses), ARES_EDESTRUCTION.                            *)
Outcomes == {"addresses", "none", "destroyed"}

(* dns_poller_init *)
Init ==
  /\ ctl = "loop"
  /\ timer = "first"
  /\ request_ongoing = FALSE
  /\ query = FALSE
  /\ sockets = {}
  /\ io_events = [i \in Slots |-> NoFd]
  /\ answer = <<>>
  /\ addr_list = <<>>

-----------------------------------------------------------------------------
get_io_event(events, fd) ==
  CHOOSE i \in Slots : events[i] = fd /\ \A j \in Slots : events[j] = fd => i <= j

HasEvent(events, fd) == \E i \in Slots : events[i] = fd

ReleaseEvent_Kept(fd) == io_events

ReleaseEvent(fd) ==
  IF HasEvent(io_events, fd)
  THEN [io_events EXCEPT ![get_io_event(io_events, fd)] = NoFd]
  ELSE io_events

ReserveEvent(events, fd) == [events EXCEPT ![get_io_event(events, NoFd)] = fd]

(* sock_state_cb with read or write set. Without a free slot the program    *)
(* logs a fatal error and ends.                                             *)
sock_state_cb_poll(fd) ==
  /\ Processing
  /\ fd \in sockets \/ Cardinality(sockets) < MaxSockets
  /\ sockets' = sockets \cup {fd}
  /\ LET released == ReleaseEvent(fd) IN
       IF HasEvent(released, NoFd)
       THEN io_events' = ReserveEvent(released, fd) /\ UNCHANGED ctl
       ELSE io_events' = released /\ ctl' = "fatal"
  /\ UNCHANGED <<timer, request_ongoing, query, listVars>>

(* sock_state_cb with neither: c-ares is about to close the socket. *)
sock_state_cb_close(fd) ==
  /\ InAres
  /\ fd \in sockets
  /\ sockets' = sockets \ {fd}
  /\ io_events' = ReleaseEvent(fd)
  /\ UNCHANGED <<ctl, timer, request_ongoing, query, listVars>>

(* ares_cb: an answer is passed on to dns_poll_cb and the next poll is due  *)
(* after polling_interval; anything else is retried after five seconds, but *)
(* nothing is started while the channel is destroyed.                       *)
RequestAfterAnswer_Kept == request_ongoing

RequestAfterAnswer == FALSE

TimerAfterAnswer_FailureForgotten(status) == IF status = "addresses" THEN "poll" ELSE timer

TimerAfterAnswer_AlsoDestroyed(status) == IF status = "addresses" THEN "poll" ELSE "retry"

TimerAfterAnswer(status) ==
  CASE status = "addresses" -> "poll"
    [] status = "none" -> "retry"
    [] status = "destroyed" -> timer

ares_cb(status) ==
  /\ InAres
  /\ status = "destroyed" <=> ctl = "destroy"
  /\ query
  /\ query' = FALSE
  /\ request_ongoing' = RequestAfterAnswer
  /\ timer' = TimerAfterAnswer(status)
  /\ IF status = "addresses"
     THEN /\ answer' \in Answers
          /\ addr_list' = get_addr_listing(answer')
     ELSE UNCHANGED listVars
  /\ UNCHANGED <<ctl, sockets, io_events>>

-----------------------------------------------------------------------------
(* timer_cb: the one-shot timer has expired. While a query is under way     *)
(* c-ares looks at its timeouts; otherwise what is left in c-ares is        *)
(* cancelled and a new query starts.                                        *)
timer_cb ==
  /\ ctl = "loop"
  /\ timer # "off"
  /\ timer' = "off"
  /\ ctl' = "timer"
  /\ request_ongoing' = TRUE
  /\ query' = (query \/ ~request_ongoing)
  /\ UNCHANGED <<sockets, io_events, listVars>>

(* Its end: "need to re-check, it might change!" *)
TimerAtReturn_NoCheck == "query"

TimerAtReturn == IF request_ongoing THEN "query" ELSE timer

timer_cb_returns ==
  /\ ctl = "timer"
  /\ timer' = TimerAtReturn
  /\ ctl' = "loop"
  /\ UNCHANGED <<request_ongoing, aresVars, io_events, listVars>>

sock_cb ==
  /\ ctl = "loop"
  /\ \E i \in Slots : io_events[i] # NoFd
  /\ ctl' = "sock"
  /\ UNCHANGED <<timer, request_ongoing, aresVars, io_events, listVars>>

sock_cb_returns ==
  /\ ctl = "sock"
  /\ ctl' = "loop"
  /\ UNCHANGED <<timer, request_ongoing, aresVars, io_events, listVars>>

(* dns_poller_cleanup, after the event loop: first ares_destroy, which      *)
(* closes every socket and calls ares_cb for a query under way.             *)
dns_poller_cleanup ==
  /\ ctl = "loop"
  /\ ctl' = "destroy"
  /\ UNCHANGED <<timer, request_ongoing, aresVars, io_events, listVars>>

(* Then the timer is stopped and io_events freed. *)
ChannelIsDestroyed == ~query /\ sockets = {}

ares_destroy_returns ==
  /\ ctl = "destroy"
  /\ ChannelIsDestroyed
  /\ ctl' = "done"
  /\ timer' = "off"
  /\ UNCHANGED <<request_ongoing, aresVars, io_events, listVars>>

Finished ==
  /\ ctl \in {"fatal", "done"}
  /\ UNCHANGED vars

Next ==
  \/ \E fd \in Fds : sock_state_cb_poll(fd) \/ sock_state_cb_close(fd)
  \/ \E status \in Outcomes : ares_cb(status)
  \/ timer_cb
  \/ timer_cb_returns
  \/ sock_cb
  \/ sock_cb_returns
  \/ dns_poller_cleanup
  \/ ares_destroy_returns
  \/ Finished

Spec == Init /\ [][Next]_vars

(* libev runs an expired timer in the same round as the sockets that are    *)
(* ready, so these cannot starve it; a callback entered is left again.      *)
LoopFairness ==
  /\ SF_vars(timer_cb)
  /\ WF_vars(timer_cb_returns)
  /\ WF_vars(sock_cb_returns)

(* Nothing is assumed of c-ares: it need not ever call back. *)
FairSpec == Spec /\ LoopFairness

-----------------------------------------------------------------------------
(* Back in the loop the timer always runs, so the poller cannot fall asleep *)
(* for good, and it runs for c-ares' timeouts exactly while a query is      *)
(* under way, even if ares_getaddrinfo called ares_cb at once.              *)
TimerKeepsRunning ==
  ctl = "loop" =>
    /\ timer # "off"
    /\ timer = "query" <=> request_ongoing

(* request_ongoing tells whether c-ares owes a callback: there are never    *)
(* two queries, and ares_cancel never finds one to cancel.                  *)
OneQuery == request_ongoing <=> query

(* Every socket c-ares has open is polled by exactly one slot, and none     *)
(* that is closed: no answer goes unnoticed. With at most one socket per    *)
(* name server the poller never ends the program for want of a slot.        *)
SlotsFollowSockets ==
  /\ ctl # "fatal" =>
       /\ \A fd \in sockets : \E i \in Slots : io_events[i] = fd
       /\ \A i \in Slots : io_events[i] \in sockets \cup {NoFd}
       /\ \A i, j \in Slots : io_events[i] = io_events[j] => i = j \/ io_events[i] = NoFd
  /\ MaxSockets <= io_events_count => ctl # "fatal"

(* The callbacks made by ares_destroy, in whatever state the signal found   *)
(* the poller, start nothing: the timer is not set again, no slot is        *)
(* reserved and no address goes to dns_poll_cb. When dns_poller_cleanup     *)
(* frees io_events, no watcher is left for the final ev_run in main().      *)
CleanupOnlyStops ==
  [][ctl = "destroy" =>
       /\ timer' \in {timer, "off"}
       /\ \A i \in Slots : io_events'[i] \in {io_events[i], NoFd}
       /\ UNCHANGED listVars
       /\ ctl' = "done" => timer' = "off" /\ \A i \in Slots : io_events'[i] = NoFd]_vars

(* What curl will be told to connect to are addresses of the answer, each   *)
(* of them whole, in order and at least one. One is left out only where the *)
(* text with it would leave less than two bytes of the buffer, though the   *)
(* terminator needs one: of 64 addresses of 15 characters, which would fill *)
(* the 1024 bytes, the last is left out.                                    *)
ListingIsExact == answer # <<>> => IsExactListing(answer, addr_list)

(* "c-ares can't be depended on to execute ares_cb()": even so the          *)
(* resolver's name is looked up again and again. One query ends and another *)
(* one starts, for as long as the program runs.                             *)
PollsAgain ==
  \/ []<>request_ongoing /\ []<>~request_ongoing
  \/ <>(ctl \in {"fatal", "destroy"})

(* The same if c-ares does call back for every query: no outcome of one,    *)
(* and no call of ares_cb from inside ares_getaddrinfo, leaves the poller   *)
(* without its timer.                                                       *)
PollsAgainIfCalledBack == (query ~> ~query) => PollsAgain
=============================================================================
