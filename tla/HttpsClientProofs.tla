------------------------- MODULE HttpsClientProofs --------------------------
(***************************************************************************)
(* Safety of the HTTPS client (HttpsClient), with the time of its reset    *)
(* timer (ResetTimer), and that it implements FetchService, for every set  *)
(* of requests and descriptors and all limits.                             *)
(***************************************************************************)
EXTENDS ResetTimer, FiniteSetTheorems, WellFoundedInduction, TLAPS

(* The fetches, their handles in curl and their callbacks. *)
FetchInv ==
  /\ ctl \in {"loop", "sock", "timer", "info", "exit", "closed"}
  /\ fetches \subseteq Reqs
  /\ buflen \in [Reqs -> 0..DOH_MAX_RESPONSE_SIZE]
  /\ handle \in [Reqs -> Results \cup {"none", "live"}]
  /\ outcome \in [Reqs -> Outcomes]
  /\ CallbackOnce
  /\ HandlesMatchFetches

LEMMA InitFetch == Init => FetchInv
<1> SUFFICES ASSUME Init PROVE FetchInv
  OBVIOUS
<1>1. 0 \in 0..DOH_MAX_RESPONSE_SIZE
  BY SizeAssumption
<1> QED BY <1>1 DEF Init, FetchInv, Outcomes, CallbackOnce, HandlesMatchFetches

(* Only fetches on the list, and new ones, are cleaned up.                  *)
LEMMA CleanupKeeps ==
  ASSUME FetchInv, NEW S \in SUBSET Reqs, NEW reply, https_fetch_ctx_cleanup(S, reply),
         \A r \in S : r \in fetches \/ outcome[r] = "never",
         ctl' \in {"loop", "info", "closed"}, ctl' = "loop" => ctl = "loop"
  PROVE  FetchInv'
<1>1. /\ handle' = [r \in Reqs |-> IF r \in S THEN "none" ELSE handle[r]]
      /\ buflen' = [r \in Reqs |-> IF r \in S THEN 0 ELSE buflen[r]]
      /\ fetches' = fetches \ S
      /\ outcome' = [r \in Reqs |->
                       IF r \notin S THEN outcome[r] ELSE CallbackArgument(r, reply)]
  <2>1. \A r \in S : outcome[r] \in {"never", "waiting"}
    BY DEF FetchInv, CallbackOnce
  <2> QED BY <2>1 DEF https_fetch_ctx_cleanup, HandlesLeft
<1>2. \A r \in Reqs : CallbackArgument(r, reply) \in {"reply", "null"}
  BY DEF CallbackArgument
<1>3. buflen' \in [Reqs -> 0..DOH_MAX_RESPONSE_SIZE]
  <2>1. 0 \in 0..DOH_MAX_RESPONSE_SIZE
    BY SizeAssumption
  <2> QED BY <1>1, <2>1 DEF FetchInv
<1>4. /\ fetches' \subseteq Reqs /\ outcome' \in [Reqs -> Outcomes]
      /\ handle' \in [Reqs -> Results \cup {"none", "live"}]
  BY <1>1, <1>2 DEF FetchInv, Outcomes
<1>5. CallbackOnce'
  BY <1>1, <1>2 DEF FetchInv, CallbackOnce
<1>6. HandlesMatchFetches'
  BY <1>1 DEF FetchInv, HandlesMatchFetches
<1> QED BY <1>3, <1>4, <1>5, <1>6 DEF FetchInv

LEMMA ResetKeeps ==
  ASSUME FetchInv, NEW S \in SUBSET Reqs, https_client_cleanup(S),
         \A r \in S : r \in fetches \/ outcome[r] = "never",
         ctl' \in {"loop", "closed"}, ctl = "loop"
  PROVE  FetchInv'
  BY CleanupKeeps DEF https_client_cleanup

LEMMA FetchUnchanged ==
  ASSUME FetchInv, UNCHANGED fetchVars,
         ctl' \in {"loop", "sock", "timer", "info", "exit", "closed"}, ctl' = "loop" => ctl = "loop"
  PROVE  FetchInv'
  BY DEF FetchInv, fetchVars, CallbackOnce, HandlesMatchFetches

(* A transfer that ends keeps its handle until check_multi_info. *)
LEMMA HandleEnds ==
  ASSUME FetchInv, NEW r \in Live, NEW result \in Results, InCurl, ctl' = ctl,
         handle' = [handle EXCEPT ![r] = result], UNCHANGED <<fetches, buflen, outcome>>
  PROVE  FetchInv'
<1>1. r \in Reqs /\ handle[r] = "live" /\ result # "none" /\ ctl # "loop"
  BY DEF Live, InCurl, Results
<1>2. HandlesMatchFetches'
  BY <1>1 DEF FetchInv, HandlesMatchFetches
<1> QED BY <1>1, <1>2 DEF FetchInv, CallbackOnce

LEMMA CurlStepKeepsFetches ==
  ASSUME FetchInv, CurlStep PROVE FetchInv'
<1>1. ASSUME NEW s \in Fds, opensocket_callback(s) \/ closesocket_callback(s) PROVE FetchInv'
  BY <1>1, FetchUnchanged DEF opensocket_callback, closesocket_callback, FetchInv
<1>2. ASSUME NEW fd \in Fds \cup ExtraFds, multi_sock_cb_remove(fd) \/ multi_sock_cb_poll(fd)
      PROVE  FetchInv'
  BY <1>2, FetchUnchanged DEF multi_sock_cb_remove, multi_sock_cb_poll, FetchInv
<1>3. ASSUME NEW armed \in BOOLEAN, multi_timer_cb(armed) PROVE FetchInv'
  BY <1>3, FetchUnchanged DEF multi_timer_cb, FetchInv
<1>4. ASSUME NEW r \in Reqs, NEW size \in 1..DOH_MAX_RESPONSE_SIZE, write_buffer(r, size)
      PROVE  FetchInv'
  <2>1. r \in Live /\ InCurl /\ ctl' = ctl /\ UNCHANGED <<fetches, outcome>>
    BY <1>4 DEF write_buffer
  <2>2. CASE Fits(r, size) /\ buflen' = [buflen EXCEPT ![r] = @ + size] /\ UNCHANGED handle
    <3>1. buflen[r] + size \in 0..DOH_MAX_RESPONSE_SIZE
      BY <2>2, SizeAssumption DEF Fits, FetchInv
    <3>2. buflen' \in [Reqs -> 0..DOH_MAX_RESPONSE_SIZE]
      BY <2>2, <3>1 DEF FetchInv
    <3> QED BY <2>1, <2>2, <3>2 DEF FetchInv, CallbackOnce, HandlesMatchFetches
  <2>3. CASE handle' = [handle EXCEPT ![r] = "failed"] /\ UNCHANGED buflen
    BY <2>1, <2>3, HandleEnds DEF Results
  <2> QED BY <1>4, <2>2, <2>3 DEF write_buffer
<1>5. ASSUME NEW r \in Reqs, NEW result \in Results, TransferDone(r, result)
      PROVE  FetchInv'
  BY <1>5, HandleEnds DEF TransferDone
<1> QED BY <1>1, <1>2, <1>3, <1>4, <1>5 DEF CurlStep

(* A request is handed over once: it is new, and then waiting or ended. *)
LEMMA FetchKeeps ==
  ASSUME FetchInv, NEW r \in Reqs, https_client_fetch(r) PROVE FetchInv'
<1>1. ctl = "loop" /\ ctl' = "loop" /\ outcome[r] = "never" /\ r \notin fetches
  BY DEF https_client_fetch, FetchInv, CallbackOnce
<1>2. CASE FetchStarts(r)
  <2>1. /\ fetches' = fetches \cup {r} /\ handle' = [handle EXCEPT ![r] = "live"]
        /\ outcome' = [outcome EXCEPT ![r] = "waiting"] /\ buflen' = buflen
    BY <1>2 DEF FetchStarts
  <2>2. CallbackOnce'
    BY <2>1 DEF FetchInv, CallbackOnce
  <2>3. HandlesMatchFetches'
    BY <1>1, <2>1 DEF FetchInv, HandlesMatchFetches
  <2> QED BY <1>1, <2>1, <2>2, <2>3 DEF FetchInv, Outcomes
<1>3. CASE FetchResetsClient(r)
  <2>1. fetches \cup {r} \in SUBSET Reqs
    BY DEF FetchInv
  <2> QED BY <1>1, <1>3, <2>1, ResetKeeps DEF FetchResetsClient, https_client_reset
<1>4. CASE FetchFails(r)
  BY <1>1, <1>4, CleanupKeeps DEF FetchFails
<1> QED BY <1>2, <1>3, <1>4 DEF https_client_fetch

LEMMA NextKeepsFetches ==
  ASSUME FetchInv, [Next]_vars PROVE FetchInv'
<1>1. CASE SocketActionReturns
  BY <1>1, FetchUnchanged DEF SocketActionReturns, AfterSocketAction
<1>2. ASSUME NEW r \in Reqs, check_multi_info(r) PROVE FetchInv'
  <2>1. ctl = "info" /\ ctl' = "info" /\ r \in fetches /\ {r} \in SUBSET Reqs
    BY <1>2 DEF check_multi_info, FetchInv, HandlesMatchFetches, Results
  <2> QED BY <1>2, <2>1, CleanupKeeps DEF check_multi_info
<1>3. CASE check_multi_info_ends
  <2>1. ctl' = "loop" /\ UNCHANGED fetchVars /\ \A r \in Reqs : handle[r] \notin Results
    BY <1>3 DEF check_multi_info_ends
  <2>2. HandlesMatchFetches'
    BY <2>1 DEF FetchInv, HandlesMatchFetches, fetchVars
  <2> QED BY <2>1, <2>2 DEF FetchInv, CallbackOnce, fetchVars
<1>4. CASE sock_cb \/ timer_cb
  BY <1>4, FetchUnchanged DEF sock_cb, timer_cb
<1>5. CASE reset_timer_cb \/ ResetOnNewAddress \/ Cleanup
  <2>1. fetches \in SUBSET Reqs
    BY DEF FetchInv
  <2> QED BY <1>5, <2>1, ResetKeeps
          DEF reset_timer_cb, ResetOnNewAddress, Cleanup, https_client_reset
<1>6. CASE UNCHANGED vars
  BY <1>6, FetchUnchanged DEF vars, FetchInv
<1> QED BY <1>1, <1>2, <1>3, <1>4, <1>5, <1>6, CurlStepKeepsFetches, FetchKeeps
        DEF Next, ClientStep, Finished

LEMMA FetchInvHolds == Spec => []FetchInv
<1>1. FetchInv /\ [Next]_vars => FetchInv'
  BY NextKeepsFetches
<1> QED BY <1>1, InitFetch, PTL DEF Spec

(* https_fetch_ctx_cleanup runs once for each fetch, whoever calls it.      *)
THEOREM CallbacksRunOnce == Spec => []CallbackOnce
<1>1. FetchInv => CallbackOnce
  BY DEF FetchInv
<1> QED BY <1>1, FetchInvHolds, PTL

(* Curl and the client agree on the transfers under way.                    *)
THEOREM HandlesAgree == Spec => []HandlesMatchFetches
<1>1. FetchInv => HandlesMatchFetches
  BY DEF FetchInv
<1> QED BY <1>1, FetchInvHolds, PTL

-----------------------------------------------------------------------------
(* The slots of io_events. *)
SlotInv ==
  /\ sockets \subseteq Fds
  /\ io_events \in [Slots -> Fds \cup ExtraFds \cup {NoFd}]
  /\ SlotsPollOpenSockets

LEMMA Least ==
  ASSUME NEW T, T \subseteq Nat, T # {}
  PROVE  \E x \in T : \A y \in T : x <= y
<1> DEFINE R == OpToRel(<, Nat)
<1>1. IsWellFoundedOn(R, Nat)
  BY NatLessThanWellFounded
<1>2. \A x, y \in Nat : x < y => <<x, y>> \in R
  BY DEF OpToRel
<1> HIDE DEF R
<1>3. PICK x \in T : \A y \in T : ~(<<y, x>> \in R)
  BY <1>1, WFMin
<1>4. \A y \in T : ~(y < x)
  BY <1>2, <1>3, Zenon
<1>5. \A y \in T : x <= y
  <2>1. x \in Nat /\ \A y \in T : y \in Nat
    OBVIOUS
  <2> QED BY <1>4, <2>1, SMT
<1> QED BY <1>5

(* get_io_event finds a slot if there is one. *)
LEMMA EventFound ==
  ASSUME NEW events, NEW fd, HasEvent(events, fd)
  PROVE  get_io_event(events, fd) \in Slots /\ events[get_io_event(events, fd)] = fd
<1> DEFINE T == {i \in Slots : events[i] = fd}
<1>1. T \subseteq Nat /\ T # {}
  BY LimitAssumption DEF Slots, HasEvent
<1>2. PICK i \in T : \A j \in T : i <= j
  BY <1>1, Least
<1>3. \E x \in Slots : events[x] = fd /\ \A j \in Slots : events[j] = fd => x <= j
  BY <1>2
<1> QED BY <1>3, Zenon DEF get_io_event

(* multi_sock_cb releases the only slot of a descriptor. *)
LEMMA Released ==
  ASSUME SlotInv, NEW fd, fd # NoFd
  PROVE  /\ ReleaseEvent(fd) \in [Slots -> Fds \cup ExtraFds \cup {NoFd}]
         /\ \A i \in Slots : ReleaseEvent(fd)[i] = IF io_events[i] = fd THEN NoFd ELSE io_events[i]
<1>1. CASE ~HasEvent(io_events, fd)
  BY <1>1 DEF ReleaseEvent, HasEvent, SlotInv
<1>2. CASE HasEvent(io_events, fd)
  <2> DEFINE x == get_io_event(io_events, fd)
  <2>1. x \in Slots /\ io_events[x] = fd
    BY <1>2, EventFound
  <2>2. \A i \in Slots : io_events[i] = fd => i = x
    BY <2>1 DEF SlotInv, SlotsPollOpenSockets
  <2>3. ReleaseEvent(fd) = [io_events EXCEPT ![x] = NoFd]
    BY <1>2 DEF ReleaseEvent
  <2> HIDE DEF x
  <2> QED BY <2>1, <2>2, <2>3 DEF SlotInv
<1> QED BY <1>1, <1>2

LEMMA Reserved ==
  ASSUME NEW events \in [Slots -> Fds \cup ExtraFds \cup {NoFd}], NEW fd \in Fds \cup ExtraFds,
         HasEvent(events, NoFd)
  PROVE  \E x \in Slots :
           /\ events[x] = NoFd
           /\ ReserveEvent(events, fd) = [events EXCEPT ![x] = fd]
<1>1. get_io_event(events, NoFd) \in Slots /\ events[get_io_event(events, NoFd)] = NoFd
  BY EventFound
<1> QED BY <1>1 DEF ReserveEvent

LEMMA SlotUnchanged ==
  ASSUME SlotInv, UNCHANGED <<sockets, io_events>> PROVE SlotInv'
  BY DEF SlotInv, SlotsPollOpenSockets

(* Every slot is released before its socket is closed. *)
LEMMA AllReleased ==
  ASSUME sockets' = {}, io_events' = [i \in Slots |-> NoFd] PROVE SlotInv'
  BY DEF SlotInv, SlotsPollOpenSockets

LEMMA SocketKeepsSlots ==
  ASSUME SlotInv, NEW s \in Fds, opensocket_callback(s) \/ closesocket_callback(s)
  PROVE  SlotInv'
<1>1. CASE opensocket_callback(s)
  BY <1>1 DEF opensocket_callback, SlotInv, SlotsPollOpenSockets
<1>2. CASE closesocket_callback(s)
  BY <1>2 DEF closesocket_callback, SlotInv, SlotsPollOpenSockets
<1> QED BY <1>1, <1>2

LEMMA PollKeepsSlots ==
  ASSUME SlotInv, NEW fd \in Fds \cup ExtraFds, multi_sock_cb_remove(fd) \/ multi_sock_cb_poll(fd)
  PROVE  SlotInv'
<1> DEFINE events == ReleaseEvent(fd)
<1>1. fd # NoFd /\ sockets' = sockets
  BY FdAssumption DEF multi_sock_cb_remove, multi_sock_cb_poll, socketVars
<1>2. /\ events \in [Slots -> Fds \cup ExtraFds \cup {NoFd}]
      /\ \A i \in Slots : events[i] = IF io_events[i] = fd THEN NoFd ELSE io_events[i]
  BY <1>1, Released
<1> HIDE DEF events
<1>3. CASE io_events' = events
  BY <1>1, <1>2, <1>3 DEF SlotInv, SlotsPollOpenSockets
<1>4. CASE fd \in sockets \cup ExtraFds /\ HasEvent(events, NoFd)
           /\ io_events' = ReserveEvent(events, fd)
  <2>1. PICK x \in Slots : events[x] = NoFd /\ io_events' = [events EXCEPT ![x] = fd]
    BY <1>2, <1>4, Reserved
  <2>2. \A i \in Slots : io_events'[i] = IF i = x THEN fd ELSE events[i]
    BY <1>2, <2>1
  <2>3. \A i \in Slots : events[i] # fd
    BY <1>1, <1>2
  <2>4. SlotsPollOpenSockets'
    BY <1>1, <1>2, <1>4, <2>2, <2>3 DEF SlotInv, SlotsPollOpenSockets
  <2>5. io_events' \in [Slots -> Fds \cup ExtraFds \cup {NoFd}]
    BY <1>2, <2>1
  <2> QED BY <1>1, <2>4, <2>5 DEF SlotInv
<1> QED BY <1>3, <1>4 DEF multi_sock_cb_remove, multi_sock_cb_poll, events

LEMMA NextKeepsSlots ==
  ASSUME SlotInv, [Next]_vars PROVE SlotInv'
<1>1. CASE CurlStep
  <2>1. ASSUME NEW armed \in BOOLEAN, multi_timer_cb(armed) PROVE SlotInv'
    BY <2>1, SlotUnchanged DEF multi_timer_cb, socketVars
  <2>2. ASSUME NEW r \in Reqs, NEW size \in 1..DOH_MAX_RESPONSE_SIZE, write_buffer(r, size)
        PROVE  SlotInv'
    BY <2>2, SlotUnchanged DEF write_buffer, socketVars
  <2>3. ASSUME NEW r \in Reqs, NEW result \in Results, TransferDone(r, result)
        PROVE  SlotInv'
    BY <2>3, SlotUnchanged DEF TransferDone, socketVars
  <2> QED BY <1>1, <2>1, <2>2, <2>3, SocketKeepsSlots, PollKeepsSlots DEF CurlStep
<1>2. CASE SocketActionReturns
  BY <1>2, SlotUnchanged DEF SocketActionReturns, socketVars
<1>3. ASSUME NEW r \in Reqs, check_multi_info(r) PROVE SlotInv'
  BY <1>3, SlotUnchanged DEF check_multi_info, socketVars
<1>4. ASSUME NEW r \in Reqs, https_client_fetch(r) PROVE SlotInv'
  <2>1. CASE FetchStarts(r) \/ FetchFails(r)
    BY <2>1, SlotUnchanged DEF FetchStarts, FetchFails, socketVars
  <2>2. CASE FetchResetsClient(r)
    BY <2>2, AllReleased DEF FetchResetsClient, https_client_reset, https_client_cleanup
  <2> QED BY <1>4, <2>1, <2>2 DEF https_client_fetch
<1>5. CASE check_multi_info_ends \/ sock_cb \/ timer_cb
  BY <1>5, SlotUnchanged DEF check_multi_info_ends, sock_cb, timer_cb, socketVars
<1>6. CASE reset_timer_cb \/ ResetOnNewAddress \/ Cleanup
  BY <1>6, AllReleased
     DEF reset_timer_cb, ResetOnNewAddress, Cleanup, https_client_reset, https_client_cleanup
<1>7. CASE UNCHANGED vars
  BY <1>7, SlotUnchanged DEF vars, socketVars
<1> QED BY <1>1, <1>2, <1>3, <1>4, <1>5, <1>6, <1>7 DEF Next, ClientStep, Finished

LEMMA SlotInvHolds == Spec => []SlotInv
<1>1. Init => SlotInv
  BY DEF Init, SlotInv, SlotsPollOpenSockets
<1>2. SlotInv /\ [Next]_vars => SlotInv'
  BY NextKeepsSlots
<1> QED BY <1>1, <1>2, PTL DEF Spec

(* multi_sock_cb and get_io_event never give a descriptor two slots or      *)
(* leave a slot behind its socket.                                          *)
THEOREM SlotsAreSound == Spec => []SlotsPollOpenSockets
<1>1. SlotInv => SlotsPollOpenSockets
  BY DEF SlotInv
<1> QED BY <1>1, SlotInvHolds, PTL

-----------------------------------------------------------------------------
(* The connection count. *)
ConnInv ==
  /\ leaked \in Nat
  /\ connections \in Nat /\ connections <= HTTPS_SOCKET_LIMIT
  /\ ConnectionsAccounted

LEMMA SocketsFinite ==
  ASSUME SlotInv PROVE IsFiniteSet(sockets) /\ Cardinality(sockets) \in Nat
  BY FdAssumption, FS_Subset, FS_CardinalityType DEF SlotInv

LEMMA ConnUnchanged ==
  ASSUME ConnInv, UNCHANGED socketVars PROVE ConnInv'
  BY DEF ConnInv, socketVars, ConnectionsAccounted

LEMMA SocketKeepsCount ==
  ASSUME SlotInv, ConnInv, NEW s \in Fds, opensocket_callback(s) \/ closesocket_callback(s)
  PROVE  ConnInv'
<1> DEFINE c == Cardinality(sockets)
           c2 == Cardinality(sockets')
<1>1. IsFiniteSet(sockets) /\ c \in Nat
  BY SocketsFinite
<1>2. CASE opensocket_callback(s)
  <2>1. /\ s \notin sockets /\ sockets' = sockets \cup {s} /\ leaked' = leaked
        /\ connections' = connections + 1 /\ ~(connections >= HTTPS_SOCKET_LIMIT)
    BY <1>2 DEF opensocket_callback, SocketLimitReached
  <2>2. c2 = c + 1
    BY <1>1, <2>1, FS_AddElement
  <2> HIDE DEF c, c2
  <2>3. connections = c + leaked
    BY DEF ConnInv, ConnectionsAccounted, c
  <2>4. connections' = c2 + leaked'
    BY <1>1, <2>1, <2>2, <2>3 DEF ConnInv
  <2> QED BY <2>1, <2>4, LimitAssumption DEF ConnInv, ConnectionsAccounted, c2
<1>3. CASE closesocket_callback(s)
  <2>1. /\ s \in sockets /\ sockets' = sockets \ {s}
        /\ \/ connections' = connections - 1 /\ leaked' = leaked
           \/ connections' = connections /\ leaked' = leaked + 1
    BY <1>3 DEF closesocket_callback, ConnectionsAfterClose
  <2>2. c2 = c - 1 /\ c2 \in Nat
    BY <1>1, <2>1, FS_RemoveElement, FS_CardinalityType
  <2> HIDE DEF c, c2
  <2>3. connections = c + leaked
    BY DEF ConnInv, ConnectionsAccounted, c
  <2>4. connections' = c2 + leaked' /\ leaked' \in Nat /\ connections' <= connections
        /\ connections' \in Nat
    BY <1>1, <2>1, <2>2, <2>3 DEF ConnInv
  <2> QED BY <2>4, LimitAssumption DEF ConnInv, ConnectionsAccounted, c2
<1> QED BY <1>2, <1>3

(* The count goes down by the sockets closed, and what close() refused      *)
(* stays in it for good.                                                    *)
LEMMA ResetKeepsCount ==
  ASSUME SlotInv, ConnInv, NEW S, https_client_cleanup(S) PROVE ConnInv'
<1>1. IsFiniteSet(sockets) /\ Cardinality(sockets) \in Nat
  BY SocketsFinite
<1>2. PICK unclosed \in SUBSET sockets :
        /\ connections' = connections - Cardinality(sockets \ unclosed)
        /\ leaked' = leaked + Cardinality(unclosed)
  BY DEF https_client_cleanup
<1> DEFINE c == Cardinality(sockets)
           u == Cardinality(unclosed)
           d == Cardinality(sockets \ unclosed)
<1>3. u \in Nat /\ u <= c /\ d = c - u
  <2>1. sockets \cap unclosed = unclosed
    OBVIOUS
  <2>2. IsFiniteSet(unclosed) /\ u \in Nat /\ u <= c
    BY <1>1, FS_Subset, FS_CardinalityType
  <2>3. d = c - Cardinality(sockets \cap unclosed)
    BY <1>1, FS_Difference
  <2> QED BY <2>1, <2>2, <2>3
<1>4. connections = c + leaked /\ sockets' = {} /\ Cardinality({}) = 0
  BY FS_EmptySet DEF ConnInv, ConnectionsAccounted, https_client_cleanup
<1>5. connections' = connections - d /\ leaked' = leaked + u /\ c \in Nat
  BY <1>1, <1>2
<1> HIDE DEF c, u, d
<1>6. /\ connections' = leaked' /\ leaked' \in Nat /\ connections' <= connections
      /\ connections' \in Nat
  BY <1>3, <1>4, <1>5 DEF ConnInv
<1> QED BY <1>4, <1>6, LimitAssumption DEF ConnInv, ConnectionsAccounted

LEMMA NextKeepsCount ==
  ASSUME SlotInv, ConnInv, [Next]_vars PROVE ConnInv'
<1>1. CASE CurlStep
  <2>1. ASSUME NEW fd \in Fds \cup ExtraFds, multi_sock_cb_remove(fd) \/ multi_sock_cb_poll(fd)
        PROVE  ConnInv'
    BY <2>1, ConnUnchanged DEF multi_sock_cb_remove, multi_sock_cb_poll
  <2>2. ASSUME NEW armed \in BOOLEAN, multi_timer_cb(armed) PROVE ConnInv'
    BY <2>2, ConnUnchanged DEF multi_timer_cb
  <2>3. ASSUME NEW r \in Reqs, NEW size \in 1..DOH_MAX_RESPONSE_SIZE, write_buffer(r, size)
        PROVE  ConnInv'
    BY <2>3, ConnUnchanged DEF write_buffer
  <2>4. ASSUME NEW r \in Reqs, NEW result \in Results, TransferDone(r, result)
        PROVE  ConnInv'
    BY <2>4, ConnUnchanged DEF TransferDone
  <2> QED BY <1>1, <2>1, <2>2, <2>3, <2>4, SocketKeepsCount DEF CurlStep
<1>2. CASE SocketActionReturns
  BY <1>2, ConnUnchanged DEF SocketActionReturns
<1>3. ASSUME NEW r \in Reqs, check_multi_info(r) PROVE ConnInv'
  BY <1>3, ConnUnchanged DEF check_multi_info
<1>4. ASSUME NEW r \in Reqs, https_client_fetch(r) PROVE ConnInv'
  <2>1. CASE FetchStarts(r) \/ FetchFails(r)
    BY <2>1, ConnUnchanged DEF FetchStarts, FetchFails
  <2>2. CASE FetchResetsClient(r)
    BY <2>2, ResetKeepsCount DEF FetchResetsClient, https_client_reset
  <2> QED BY <1>4, <2>1, <2>2 DEF https_client_fetch
<1>5. CASE check_multi_info_ends \/ sock_cb \/ timer_cb
  BY <1>5, ConnUnchanged DEF check_multi_info_ends, sock_cb, timer_cb
<1>6. CASE reset_timer_cb \/ ResetOnNewAddress \/ Cleanup
  BY <1>6, ResetKeepsCount DEF reset_timer_cb, ResetOnNewAddress, Cleanup, https_client_reset
<1>7. CASE UNCHANGED vars
  BY <1>7, ConnUnchanged DEF vars
<1> QED BY <1>1, <1>2, <1>3, <1>4, <1>5, <1>6, <1>7 DEF Next, ClientStep, Finished

LEMMA ConnInvHolds == Spec => []ConnInv
<1>1. Init => ConnInv
  BY FS_EmptySet, LimitAssumption DEF Init, ConnInv, ConnectionsAccounted
<1>2. SlotInv /\ ConnInv /\ [Next]_vars => ConnInv'
  BY NextKeepsCount
<1> QED BY <1>1, <1>2, SlotInvHolds, PTL DEF Spec

(* opensocket_callback and closesocket_callback keep the count exact, over  *)
(* any number of resets.                                                    *)
THEOREM CountIsRight == Spec => []ConnectionsAccounted
<1>1. ConnInv => ConnectionsAccounted
  BY DEF ConnInv
<1> QED BY <1>1, ConnInvHolds, PTL

(* If no slot is free, the slots hold as many sockets as may be open, hence *)
(* all of them: multi_sock_cb finds a slot for every socket it is asked     *)
(* about.                                                                   *)
THEOREM SlotsSuffice == Spec => []SlotsNeverRunOut
<1>1. SlotInv /\ ConnInv => SlotsNeverRunOut
  <2> SUFFICES ASSUME SlotInv, ConnInv, \A i \in Slots : io_events[i] \notin ExtraFds,
                      NEW s \in sockets, ~HasEvent(io_events, NoFd)
               PROVE  HasEvent(io_events, s)
    BY DEF SlotsNeverRunOut
  <2>1. io_events \in Injection(Slots, sockets)
    <3>1. \A i \in Slots : io_events[i] \in sockets
      BY DEF SlotInv, SlotsPollOpenSockets, HasEvent
    <3>2. io_events \in [Slots -> sockets]
      BY <3>1 DEF SlotInv
    <3>3. \A i, j \in Slots : io_events[i] = io_events[j] => i = j
      BY DEF SlotInv, SlotsPollOpenSockets, HasEvent
    <3> QED BY <3>2, <3>3 DEF Injection, IsInjective
  <2>2. IsFiniteSet(sockets) /\ Cardinality(sockets) \in Nat
    BY SocketsFinite
  <2>3. Cardinality(Slots) = HTTPS_SOCKET_LIMIT
    BY LimitAssumption, FS_Interval DEF Slots
  <2>4. Cardinality(sockets) <= HTTPS_SOCKET_LIMIT
    <3> DEFINE c == Cardinality(sockets)
    <3> HIDE DEF c
    <3>1. connections = c + leaked /\ c \in Nat
      BY <2>2 DEF c, ConnInv, ConnectionsAccounted
    <3> QED BY <3>1, LimitAssumption DEF ConnInv, c
  <2>5. Cardinality(Slots) <= Cardinality(sockets)
    BY <2>1, <2>2, FS_Injection
  <2>6. Cardinality(Slots) = Cardinality(sockets)
    BY <2>2, <2>3, <2>4, <2>5, LimitAssumption
  <2>7. io_events \in Surjection(Slots, sockets)
    BY <2>1, <2>2, <2>6, FS_Injection
  <2> QED BY <2>7 DEF Surjection, HasEvent
<1> QED BY <1>1, SlotInvHolds, ConnInvHolds, PTL

-----------------------------------------------------------------------------
Flags ==
  dead \in BOOLEAN /\ aborted \in BOOLEAN /\ timer \in BOOLEAN /\ reset_timer \in BOOLEAN

LEMMA NextKeepsFlags ==
  ASSUME Flags, [Next]_vars PROVE Flags'
<1>1. CASE CurlStep
  BY <1>1, Zenon DEF Flags, CurlStep, opensocket_callback, closesocket_callback, multi_timer_cb,
     multi_sock_cb_remove, multi_sock_cb_poll, write_buffer, TransferDone, ResetTimerAfterClose,
     curlVars
<1>2. CASE SocketActionReturns \/ check_multi_info_ends \/ sock_cb \/ timer_cb
  BY <1>2, Zenon DEF Flags, SocketActionReturns, check_multi_info_ends, sock_cb, timer_cb, curlVars
<1>3. CASE \E r \in Reqs : https_client_fetch(r) \/ check_multi_info(r)
  BY <1>3, Zenon DEF Flags, https_client_fetch, check_multi_info, FetchStarts, FetchResetsClient,
     FetchFails, https_client_reset, https_client_cleanup, curlVars
<1>4. CASE reset_timer_cb \/ ResetOnNewAddress \/ Cleanup
  BY <1>4, Zenon DEF Flags, reset_timer_cb, ResetOnNewAddress, Cleanup, https_client_reset,
     https_client_cleanup
<1>5. CASE UNCHANGED vars
  BY <1>5, Zenon DEF Flags, vars, curlVars
<1> QED BY <1>1, <1>2, <1>3, <1>4, <1>5 DEF Next, ClientStep, Finished

LEMMA FlagsHold == Spec => []Flags
<1>1. Init => Flags
  BY DEF Init, Flags
<1>2. Flags /\ [Next]_vars => Flags'
  BY NextKeepsFlags
<1> QED BY <1>1, <1>2, PTL DEF Spec

(* write_buffer keeps every response within DOH_MAX_RESPONSE_SIZE, and      *)
(* opensocket_callback the count within HTTPS_SOCKET_LIMIT.                 *)
THEOREM ClientTypes == Spec => []TypeOK
<1>1. FetchInv /\ SlotInv /\ ConnInv /\ Flags => TypeOK
  BY LimitAssumption DEF FetchInv, SlotInv, ConnInv, Flags, TypeOK
<1> QED BY <1>1, FetchInvHolds, SlotInvHolds, ConnInvHolds, FlagsHold, PTL

-----------------------------------------------------------------------------
(* The safety half of FetchAnswered: a fetch that waits for its callback,   *)
(* with the thread back in the loop, has a transfer under way and the timer *)
(* that drives it. timer is a one-shot timer and has to be started again    *)
(* after each timer_cb.                                                     *)
WaitingIsTimed ==
  \A r \in Reqs :
    ctl = "loop" /\ outcome[r] = "waiting" => handle[r] = "live" /\ (timer \/ dead)

Armed == ctl \in {"loop", "info"} /\ ~dead /\ Live # {} => timer

LEMMA NothingLive ==
  ASSUME NEW S, FetchInv, fetches \subseteq S, https_client_cleanup(S) PROVE Live' = {}
<1>1. \A r \in Reqs : r \notin S => handle[r] = "none"
  BY DEF FetchInv, HandlesMatchFetches
<1>2. \A r \in Reqs : handle'[r] = "none"
  BY <1>1 DEF https_client_cleanup, https_fetch_ctx_cleanup, HandlesLeft
<1> QED BY <1>2 DEF Live

LEMMA CleanupKillsOnly ==
  ASSUME FetchInv, NEW S \in SUBSET Reqs, NEW reply, https_fetch_ctx_cleanup(S, reply)
  PROVE  Live' \subseteq Live
  BY DEF https_fetch_ctx_cleanup, HandlesLeft, Live

LEMMA NextKeepsArmed ==
  ASSUME FetchInv, Armed, [Next]_vars PROVE Armed'
<1>1. CASE CurlStep
  <2>1. ASSUME NEW s \in Fds, opensocket_callback(s) \/ closesocket_callback(s) PROVE Armed'
    BY <2>1 DEF opensocket_callback, closesocket_callback, Armed, Live, fetchVars, curlVars
  <2>2. ASSUME NEW fd \in Fds \cup ExtraFds, multi_sock_cb_remove(fd) \/ multi_sock_cb_poll(fd)
        PROVE  Armed'
    BY <2>2 DEF multi_sock_cb_remove, multi_sock_cb_poll, Armed, Live, InCurl, fetchVars, curlVars
  <2>3. ASSUME NEW armed \in BOOLEAN, multi_timer_cb(armed) PROVE Armed'
    BY <2>3 DEF multi_timer_cb, Armed, Live, fetchVars
  <2>4. ASSUME NEW r \in Reqs, NEW size \in 1..DOH_MAX_RESPONSE_SIZE, write_buffer(r, size)
        PROVE  Armed'
    BY <2>4 DEF write_buffer, Armed, InCurl
  <2>5. ASSUME NEW r \in Reqs, NEW result \in Results, TransferDone(r, result)
        PROVE  Armed'
    BY <2>5 DEF TransferDone, Armed, InCurl
  <2> QED BY <1>1, <2>1, <2>2, <2>3, <2>4, <2>5 DEF CurlStep
<1>2. CASE SocketActionReturns
  BY <1>2 DEF SocketActionReturns, Armed, Live, fetchVars
<1>3. ASSUME NEW r \in Reqs, check_multi_info(r) PROVE Armed'
  <2>1. Live' \subseteq Live
    BY <1>3, CleanupKillsOnly DEF check_multi_info
  <2> QED BY <1>3, <2>1 DEF check_multi_info, Armed, curlVars
<1>4. ASSUME NEW r \in Reqs, https_client_fetch(r) PROVE Armed'
  <2>1. CASE FetchStarts(r)
    BY <2>1 DEF FetchStarts, Armed
  <2>2. CASE FetchResetsClient(r)
    <3>1. Live' = {}
      BY <2>2, NothingLive DEF FetchResetsClient, https_client_reset
    <3> QED BY <3>1 DEF Armed
  <2>3. CASE FetchFails(r)
    <3>1. Live' \subseteq Live
      BY <2>3, CleanupKillsOnly DEF FetchFails
    <3> QED BY <1>4, <2>3, <3>1 DEF https_client_fetch, FetchFails, Armed, curlVars
  <2> QED BY <1>4, <2>1, <2>2, <2>3 DEF https_client_fetch
<1>5. CASE check_multi_info_ends \/ sock_cb \/ timer_cb
  BY <1>5 DEF check_multi_info_ends, sock_cb, timer_cb, Armed, Live, fetchVars, curlVars
<1>6. CASE reset_timer_cb \/ ResetOnNewAddress \/ Cleanup
  <2>1. Live' = {}
    BY <1>6, NothingLive DEF reset_timer_cb, ResetOnNewAddress, Cleanup, https_client_reset
  <2> QED BY <2>1 DEF Armed
<1>7. CASE UNCHANGED vars
  BY <1>7 DEF vars, Armed, Live, fetchVars, curlVars
<1> QED BY <1>1, <1>2, <1>3, <1>4, <1>5, <1>6, <1>7 DEF Next, ClientStep, Finished

LEMMA ArmedHolds == Spec => []Armed
<1>1. Init => Armed
  BY DEF Init, Armed, Live
<1>2. FetchInv /\ Armed /\ [Next]_vars => Armed'
  BY NextKeepsArmed
<1> QED BY <1>1, <1>2, FetchInvHolds, PTL DEF Spec

(* multi_timer_cb, timer_cb and https_client_fetch: no fetch is left in the *)
(* loop without a timer that takes curl on, unless the multi handle died.   *)
THEOREM WaitingFetchesAreTimed == Spec => []WaitingIsTimed
<1>1. FetchInv /\ Armed => WaitingIsTimed
  BY DEF FetchInv, CallbackOnce, HandlesMatchFetches, Armed, Live, WaitingIsTimed
<1> QED BY <1>1, FetchInvHolds, ArmedHolds, PTL

-----------------------------------------------------------------------------
(* The refinement: what FetchService sees of the client. *)
Seen == [r \in Reqs |-> FetchStatus(r)]

SeenVars == <<Seen, dead, HasWatcher>>

LEMMA SeenStatus ==
  ASSUME NEW r \in Reqs
  PROVE  /\ outcome[r] = "never" => Seen[r] = "new"
         /\ outcome[r] = "waiting" => Seen[r] = "pending"
         /\ outcome[r] = "reply" => Seen[r] = "replied"
         /\ outcome[r] = "null" => Seen[r] = "dropped"
         /\ outcome[r] = "twice" => Seen[r] = "twice"
  BY DEF Seen, FetchStatus

LEMMA SeenStatusPrime ==
  ASSUME NEW r \in Reqs
  PROVE  /\ outcome'[r] = "never" => Seen'[r] = "new"
         /\ outcome'[r] = "waiting" => Seen'[r] = "pending"
         /\ outcome'[r] = "reply" => Seen'[r] = "replied"
         /\ outcome'[r] = "null" => Seen'[r] = "dropped"
         /\ outcome'[r] = "twice" => Seen'[r] = "twice"
  BY DEF Seen, FetchStatus

LEMMA SeenSame ==
  ASSUME FetchInv, NEW r \in Reqs, outcome'[r] = outcome[r] PROVE Seen'[r] = Seen[r]
<1>1. outcome[r] \in Outcomes
  BY DEF FetchInv
<1> QED BY <1>1, SeenStatus, SeenStatusPrime DEF Outcomes

(* The requests of S, and no others, change in the service's eyes.          *)
LEMMA SeenBecomes ==
  ASSUME FetchInv, NEW S \in SUBSET Reqs, NEW s,
         \A r \in S : Seen'[r] = s, \A r \in Reqs : r \notin S => outcome'[r] = outcome[r]
  PROVE  Seen' = [r \in Reqs |-> IF r \in S THEN s ELSE Seen[r]]
<1>1. \A r \in Reqs : Seen'[r] = IF r \in S THEN s ELSE Seen[r]
  BY SeenSame
<1> QED BY <1>1, Zenon DEF Seen

LEMMA OneBecomes ==
  ASSUME FetchInv, NEW r \in Reqs, NEW s,
         Seen'[r] = s, \A x \in Reqs : x # r => outcome'[x] = outcome[x]
  PROVE  Seen' = [x \in Reqs |-> IF x \in {r} THEN s ELSE Seen[x]]
<1>1. \A x \in Reqs : Seen'[x] = IF x \in {r} THEN s ELSE Seen[x]
  BY SeenSame
<1> QED BY <1>1, Zenon DEF Seen

LEMMA SeenPending ==
  ASSUME FetchInv PROVE Service!Pending = fetches
<1>1. \A r \in Reqs : outcome[r] \in Outcomes /\ (r \in fetches <=> outcome[r] = "waiting")
  BY DEF FetchInv, CallbackOnce
<1>2. \A r \in Reqs : r \in fetches <=> Seen[r] = "pending"
  BY <1>1, SeenStatus DEF Outcomes
<1> QED BY <1>2 DEF Service!Pending, Seen, FetchInv

(* A fetch that is pending after a step keeps the client in the loop: its   *)
(* transfer is under way and timer runs (Armed), unless the handle is dead. *)
LEMMA SeenWatched ==
  ASSUME FetchInv', Armed', ctl' # "closed" PROVE Service!Watched'
<1> SUFFICES ASSUME NEW r \in Reqs, FetchStatus(r)' = "pending" PROVE HasWatcher' \/ dead'
  BY DEF Service!Watched, Service!Pending
<1>1. outcome'[r] \in Outcomes /\ (r \in fetches' <=> outcome'[r] = "waiting")
  BY DEF FetchInv, CallbackOnce
<1>2. r \in fetches'
  BY <1>1 DEF FetchStatus, Outcomes
<1>3. CASE ctl' = "loop"
  <2>1. handle'[r] = "live"
    BY <1>2, <1>3 DEF FetchInv, HandlesMatchFetches
  <2> QED BY <1>3, <2>1 DEF Armed, Live, HasWatcher
<1>4. CASE ctl' # "loop"
  BY <1>4 DEF FetchInv, HasWatcher
<1> QED BY <1>3, <1>4

(* What the client does in a callback of a watcher. *)
LEMMA WorksInCallback ==
  ASSUME FetchInv', Armed', Flags', HasWatcher, ctl' # "closed" PROVE Service!Works
<1>1. dead' \in BOOLEAN /\ HasWatcher' \in BOOLEAN
  BY DEF Flags, HasWatcher
<1> QED BY <1>1, SeenWatched DEF Service!Works

LEMMA SilentWork ==
  ASSUME FetchInv, FetchInv', Armed', Flags', HasWatcher, ctl' # "closed", UNCHANGED outcome
  PROVE  Service!Next
<1>1. \A r \in Reqs : Seen'[r] = IF r \in {} THEN "dropped" ELSE Seen[r]
  BY SeenSame
<1>2. Seen' = [r \in Reqs |-> IF r \in {} THEN "dropped" ELSE Seen[r]]
  BY <1>1, Zenon DEF Seen
<1>3. Service!Drop({})
  BY <1>2, WorksInCallback DEF Service!Drop, Service!Become, Seen
<1> QED BY <1>3 DEF Service!Next

(* A reset ends all fetches in one step of the service. *)
LEMMA CleanupResets ==
  ASSUME FetchInv, NEW S \in SUBSET Reqs, https_client_cleanup(S), fetches \subseteq S,
         \A r \in S : r \in fetches \/ outcome[r] = "never"
  PROVE  Service!Next
<1>1. /\ \A r \in S : outcome[r] \in {"never", "waiting"}
      /\ outcome' = [r \in Reqs |-> IF r \in S THEN "null" ELSE outcome[r]]
  BY DEF FetchInv, CallbackOnce, https_client_cleanup, https_fetch_ctx_cleanup, CallbackArgument
<1>2. \A r \in S : Seen[r] \in {"new", "pending"}
  BY <1>1, SeenStatus
<1>3. Seen' = [r \in Reqs |-> IF r \in S THEN "dropped" ELSE Seen[r]]
  BY <1>1, SeenBecomes, SeenStatusPrime
<1>4. Service!Pending \subseteq S /\ dead' = FALSE /\ HasWatcher' \in BOOLEAN
  BY SeenPending DEF https_client_cleanup, HasWatcher
<1>5. Service!Reset(S)
  BY <1>2, <1>3, <1>4 DEF Service!Reset, Service!Become, Seen
<1> QED BY <1>5 DEF Service!Next

LEMMA FetchImplements ==
  ASSUME FetchInv, NEW r \in Reqs, https_client_fetch(r)
  PROVE  Service!Next
<1>1. outcome[r] = "never" /\ Seen[r] = "new" /\ ctl' = ctl
  BY SeenStatus DEF https_client_fetch
<1>2. CASE FetchStarts(r)
  <2>1. outcome' = [outcome EXCEPT ![r] = "waiting"] /\ outcome \in [Reqs -> Outcomes]
    BY <1>2 DEF FetchStarts, FetchInv
  <2>2. Seen' = [x \in Reqs |-> IF x \in {r} THEN "pending" ELSE Seen[x]]
    <3>1. Seen'[r] = "pending"
      BY <2>1, SeenStatusPrime
    <3>2. \A x \in Reqs : x # r => outcome'[x] = outcome[x]
      BY <2>1
    <3> QED BY <3>1, <3>2, OneBecomes
  <2>3. dead' = FALSE /\ HasWatcher' = TRUE
    BY <1>2 DEF FetchStarts, HasWatcher
  <2>4. Service!Submit(r)
    BY <1>1, <2>2, <2>3 DEF Service!Submit, Service!Become, Seen
  <2> QED BY <2>4 DEF Service!Next
<1>3. CASE FetchResetsClient(r)
  <2>1. fetches \cup {r} \in SUBSET Reqs
    BY DEF FetchInv
  <2> QED BY <1>1, <1>3, <2>1, CleanupResets DEF FetchResetsClient, https_client_reset
<1>4. CASE FetchFails(r)
  <2>1. outcome' = [x \in Reqs |-> IF x \in {r} THEN "null" ELSE outcome[x]]
    BY <1>1, <1>4 DEF FetchFails, https_fetch_ctx_cleanup, CallbackArgument
  <2>2. Seen' = [x \in Reqs |-> IF x \in {r} THEN "dropped" ELSE Seen[x]]
    <3>1. Seen'[r] = "dropped"
      BY <2>1, SeenStatusPrime
    <3>2. \A x \in Reqs : x # r => outcome'[x] = outcome[x]
      BY <2>1
    <3> QED BY <3>1, <3>2, OneBecomes
  <2>3. UNCHANGED <<dead, HasWatcher>>
    BY <1>1, <1>4 DEF FetchFails, curlVars, HasWatcher
  <2>4. Service!Refuse(r)
    BY <1>1, <2>2, <2>3 DEF Service!Refuse, Service!Become, Seen
  <2> QED BY <2>4 DEF Service!Next
<1> QED BY <1>2, <1>3, <1>4 DEF https_client_fetch

LEMMA InfoImplements ==
  ASSUME FetchInv, FetchInv', Armed', Flags', NEW r \in Reqs, check_multi_info(r)
  PROVE  Service!Next
<1>1. PICK reply \in {{}, {r}} : https_fetch_ctx_cleanup({r}, reply)
  BY DEF check_multi_info, https_fetch_ctx_process_response
<1>2. r \in fetches /\ outcome[r] = "waiting" /\ Seen[r] = "pending"
  BY SeenStatus DEF check_multi_info, FetchInv, HandlesMatchFetches, CallbackOnce, Results
<1>3. \A x \in Reqs : outcome'[x] = IF x = r THEN CallbackArgument(r, reply) ELSE outcome[x]
  BY <1>1, <1>2 DEF https_fetch_ctx_cleanup
<1>4. Service!Works
  BY WorksInCallback DEF check_multi_info, HasWatcher
<1>5. CASE CallbackArgument(r, reply) = "reply"
  <2>1. Seen' = [x \in Reqs |-> IF x \in {r} THEN "replied" ELSE Seen[x]]
    <3>1. Seen'[r] = "replied"
      BY <1>3, <1>5, SeenStatusPrime
    <3>2. \A x \in Reqs : x # r => outcome'[x] = outcome[x]
      BY <1>3
    <3> QED BY <3>1, <3>2, OneBecomes
  <2>2. Service!Reply(r)
    BY <1>2, <1>4, <2>1 DEF Service!Reply, Service!Become, Seen
  <2> QED BY <2>2 DEF Service!Next
<1>6. CASE CallbackArgument(r, reply) = "null"
  <2>1. Seen' = [x \in Reqs |-> IF x \in {r} THEN "dropped" ELSE Seen[x]]
    <3>1. Seen'[r] = "dropped"
      BY <1>3, <1>6, SeenStatusPrime
    <3>2. \A x \in Reqs : x # r => outcome'[x] = outcome[x]
      BY <1>3
    <3> QED BY <3>1, <3>2, OneBecomes
  <2>2. Service!Drop({r})
    BY <1>2, <1>4, <2>1, SeenPending DEF Service!Drop, Service!Become, Seen
  <2> QED BY <2>2 DEF Service!Next
<1> QED BY <1>5, <1>6 DEF CallbackArgument

LEMMA NextImplements ==
  ASSUME FetchInv, FetchInv', Armed', Flags', [Next]_vars
  PROVE  UNCHANGED SeenVars \/ Service!Next
<1>1. CASE CurlStep
  <2>1. UNCHANGED outcome /\ HasWatcher /\ ctl' # "closed"
    BY <1>1 DEF CurlStep, opensocket_callback, closesocket_callback, multi_sock_cb_remove,
                multi_sock_cb_poll, multi_timer_cb, write_buffer, TransferDone, fetchVars,
                InCurl, HasWatcher
  <2> QED BY <2>1, SilentWork
<1>2. CASE SocketActionReturns \/ check_multi_info_ends \/ sock_cb \/ timer_cb
  <2>1. UNCHANGED outcome /\ HasWatcher /\ ctl' # "closed"
    BY <1>2 DEF SocketActionReturns, AfterSocketAction, check_multi_info_ends, sock_cb, timer_cb,
                fetchVars, InCurl, HasWatcher
  <2> QED BY <2>1, SilentWork
<1>3. CASE reset_timer_cb \/ ResetOnNewAddress \/ Cleanup
  <2>1. fetches \in SUBSET Reqs
    BY DEF FetchInv
  <2> QED BY <1>3, <2>1, CleanupResets
          DEF reset_timer_cb, ResetOnNewAddress, Cleanup, https_client_reset
<1>4. CASE UNCHANGED vars
  BY <1>4 DEF vars, fetchVars, curlVars, SeenVars, Seen, FetchStatus, HasWatcher
<1> QED BY <1>1, <1>2, <1>3, <1>4, FetchImplements, InfoImplements DEF Next, ClientStep, Finished

(* https_client.h's promise: every step of the client is one of the service *)
(* main() relies on, and a pending fetch keeps the event loop from ending   *)
(* (a watcher is active) unless the multi handle has died.                  *)
THEOREM ClientImplementsService == Spec => ImplementsFetchService
<1>1. Init => Service!Init
  <2> SUFFICES ASSUME Init PROVE Service!Init
    OBVIOUS
  <2>1. \A r \in Reqs : outcome[r] = "never"
    BY DEF Init
  <2>2. \A r \in Reqs : FetchStatus(r) = "new"
    BY <2>1 DEF FetchStatus
  <2>3. [r \in Reqs |-> FetchStatus(r)] = [r \in Reqs |-> "new"]
    BY <2>2, Zenon
  <2>4. dead = FALSE /\ HasWatcher = FALSE
    BY DEF Init, HasWatcher
  <2> QED BY <2>3, <2>4 DEF Service!Init
<1>2. FetchInv /\ FetchInv' /\ Armed' /\ Flags' /\ [Next]_vars => [Service!Next]_SeenVars
  BY NextImplements
<1> QED BY <1>1, <1>2, FetchInvHolds, ArmedHolds, FlagsHold, PTL
        DEF Spec, ImplementsFetchService, Service!Spec, Service!serviceVars, Seen, SeenVars

-----------------------------------------------------------------------------
LEMMA NothingLeftOpen ==
  ASSUME SlotInv', ConnInv', ~(connections' > 0) PROVE sockets' = {}
<1> DEFINE c == Cardinality(sockets')
<1>1. IsFiniteSet(sockets') /\ c \in Nat
  BY FdAssumption, FS_Subset, FS_CardinalityType DEF SlotInv
<1>2. connections' = c + leaked' /\ connections' \in Nat /\ leaked' \in Nat
  BY DEF ConnInv, ConnectionsAccounted
<1>3. \A m, n \in Nat : ~(m + n > 0) => m = 0
  OBVIOUS
<1>4. c = 0
  BY <1>1, <1>2, <1>3, Zenon
<1> QED BY <1>1, <1>4, FS_EmptySet

LEMMA NextCancelsForCause ==
  ASSUME SlotInv', ConnInv', [Next]_vars PROVE CancelledForCause
<1>1. ASSUME NEW S, https_client_cleanup(S) PROVE CancelledForCause
  BY <1>1 DEF https_client_cleanup, CancelledForCause
<1>2. ASSUME NEW s \in Fds, closesocket_callback(s) PROVE CancelledForCause
  BY <1>2, NothingLeftOpen
     DEF closesocket_callback, ResetTimerAfterClose, CancelledForCause
<1>3. CASE reset_timer' = reset_timer
  BY <1>3 DEF CancelledForCause
<1>4. CASE CurlStep
  BY <1>2, <1>3, <1>4 DEF CurlStep, opensocket_callback, multi_sock_cb_remove, multi_sock_cb_poll,
     multi_timer_cb, write_buffer, TransferDone
<1>5. CASE SocketActionReturns \/ check_multi_info_ends \/ sock_cb \/ timer_cb
  BY <1>3, <1>5 DEF SocketActionReturns, check_multi_info_ends, sock_cb, timer_cb
<1>6. ASSUME NEW r \in Reqs, check_multi_info(r) PROVE CancelledForCause
  BY <1>6 DEF check_multi_info, CancelledForCause
<1>7. ASSUME NEW r \in Reqs, https_client_fetch(r) PROVE CancelledForCause
  BY <1>1, <1>3, <1>7 DEF https_client_fetch, FetchStarts, FetchFails, FetchResetsClient,
     https_client_reset
<1>8. CASE reset_timer_cb \/ ResetOnNewAddress \/ Cleanup
  BY <1>1, <1>8 DEF reset_timer_cb, ResetOnNewAddress, Cleanup, https_client_reset
<1>9. CASE UNCHANGED vars
  BY <1>3, <1>9 DEF vars
<1> QED BY <1>4, <1>5, <1>6, <1>7, <1>8, <1>9 DEF Next, ClientStep, Finished

(* The reset timer is stopped by the close of the last socket only, since   *)
(* connections is never less than the number of open sockets.               *)
THEOREM ResetIsCancelledForCause == Spec => ResetStaysDue
<1>1. SlotInv' /\ ConnInv' /\ [Next]_vars => [CancelledForCause]_vars
  BY NextCancelsForCause
<1> QED BY <1>1, SlotInvHolds, ConnInvHolds, PTL DEF Spec, ResetStaysDue

-----------------------------------------------------------------------------
(* The time reset_timer takes (ResetTimer), for every conn_loss_time. *)

(* The timed client is the client: what holds of every run of HttpsClient   *)
(* holds with the time in which reset_timer_cb and the rest are called.     *)
THEOREM TimedClientIsClient == TimedSpec => Spec
<1>1. TimedInit => Init
  BY DEF TimedInit
<1>2. [TimedNext]_timedVars => [Next]_vars
  BY DEF TimedNext, timed_reset_timer_cb, Second, Next, timedVars
<1> QED BY <1>1, <1>2, PTL DEF TimedSpec, Spec

(* ResetNotLate is not inductive: the timer keeps w->at while it is         *)
(* stopped, so the bound holds for a stopped timer, too.                    *)
TimerInv == at \in Nat /\ waited \in Nat /\ at + waited <= conn_loss_time

LEMMA TimerKeeps == ASSUME TimerInv, [TimedNext]_timedVars PROVE TimerInv'
<1>1. CASE TimerStep
  BY <1>1, ConnLossAssumption DEF TimerStep, AtAfterStep, TimerInv
<1>2. CASE Second
  BY <1>2, ConnLossAssumption DEF Second, TimerInv
<1>3. CASE UNCHANGED timedVars
  BY <1>3 DEF timedVars, TimerInv
<1> QED BY <1>1, <1>2, <1>3 DEF TimedNext, timed_reset_timer_cb

LEMMA TimerInvHolds == TimedSpec => []TimerInv
<1>1. TimedInit => TimerInv
  BY ConnLossAssumption DEF TimedInit, TimerInv
<1>2. TimerInv /\ [TimedNext]_timedVars => TimerInv'
  BY TimerKeeps
<1> QED BY <1>1, <1>2, PTL DEF TimedSpec

(* A timeout that finds reset_timer running does not start it afresh: the   *)
(* reset follows at most conn_loss_time after the one that started it.      *)
THEOREM ResetIsNotLate == TimedSpec => []ResetNotLate
<1>1. TimerInv => ResetNotLate
  BY DEF TimerInv, ResetNotLate
<1> QED BY <1>1, TimerInvHolds, PTL

(* The time the client tolerates in all, what has passed and what is left,  *)
(* shrinks only when a running timer is stopped: the first reset keeps to   *)
(* -L, and ToleratesTimeouts is refuted only with a timer that was stopped  *)
(* before.                                                                  *)
ToleranceKept ==
  at' + waited' # at + waited => reset_timer /\ ~reset_timer' /\ at' = at

(* ev_timer_start takes w->at as the last ev_timer_stop left it.            *)
THEOREM OnlyStopsShorten == TimedSpec => [][ToleranceKept]_timedVars
<1> DEFINE Idle == ~reset_timer => waited = 0
<1>1. TimedInit => Idle
  BY DEF TimedInit
<1>2. Idle /\ [TimedNext]_timedVars => Idle'
  BY DEF TimedNext, timed_reset_timer_cb, TimerStep, Second, timedVars, vars
<1>3. TimerInv /\ Idle /\ [TimedNext]_timedVars => [ToleranceKept]_timedVars
  <2> SUFFICES ASSUME TimerInv, Idle, TimedNext PROVE ToleranceKept
    OBVIOUS
  <2>1. CASE TimerStep
    BY <2>1 DEF TimerStep, AtAfterStep, ToleranceKept
  <2>2. CASE Second
    BY <2>2 DEF Second, ToleranceKept, TimerInv
  <2> QED BY <2>1, <2>2 DEF TimedNext, timed_reset_timer_cb
<1> HIDE DEF Idle
<1> QED BY <1>1, <1>2, <1>3, TimerInvHolds, PTL DEF TimedSpec
=============================================================================
