-------------------------- MODULE DnsPollerProofs ---------------------------
(***************************************************************************)
(* Safety of the bootstrap poller (DnsPoller), for every number of name    *)
(* servers and every set of sockets.                                       *)
(***************************************************************************)
EXTENDS DnsPoller, AddrListProofs, FiniteSetTheorems

(* The timer and c-ares' query. Inside timer_cb the timer is off until      *)
(* ares_cb sets it or the callback returns.                                 *)
TimerInv ==
  /\ ctl \in {"loop", "timer", "sock", "destroy", "fatal", "done"}
  /\ request_ongoing \in BOOLEAN
  /\ query = request_ongoing
  /\ ctl \in {"loop", "sock"} => timer # "off" /\ (timer = "query" <=> request_ongoing)
  /\ ctl = "timer" /\ ~request_ongoing => timer \in {"poll", "retry"}
  /\ ctl = "done" => timer = "off"

LEMMA NextKeepsTimer ==
  ASSUME TimerInv, [Next]_vars PROVE TimerInv'
<1>1. ASSUME NEW fd \in Fds, sock_state_cb_poll(fd) PROVE TimerInv'
  <2>1. /\ UNCHANGED <<timer, request_ongoing, query>> /\ ctl \in {"timer", "sock"}
        /\ (ctl' = ctl \/ ctl' = "fatal")
    BY <1>1 DEF sock_state_cb_poll, Processing
  <2> QED BY <2>1 DEF TimerInv
<1>2. ASSUME NEW fd \in Fds, sock_state_cb_close(fd) PROVE TimerInv'
  BY <1>2 DEF TimerInv, sock_state_cb_close
<1>3. ASSUME NEW status \in Outcomes, ares_cb(status) PROVE TimerInv'
  <2>1. /\ query' = FALSE /\ request_ongoing' = FALSE
        /\ ctl' = ctl /\ ctl \in {"timer", "sock", "destroy"}
        /\ status = "destroyed" <=> ctl = "destroy"
        /\ timer' = TimerAfterAnswer(status)
    BY <1>3 DEF ares_cb, RequestAfterAnswer, InAres, Processing
  <2>2. ctl # "destroy" => timer' \in {"poll", "retry"}
    BY <2>1 DEF TimerAfterAnswer, Outcomes
  <2> QED BY <2>1, <2>2 DEF TimerInv
<1>4. CASE timer_cb
  BY <1>4 DEF TimerInv, timer_cb
<1>5. CASE timer_cb_returns
  BY <1>5 DEF TimerInv, timer_cb_returns, TimerAtReturn, aresVars
<1>6. CASE sock_cb
  BY <1>6 DEF TimerInv, sock_cb, aresVars
<1>7. CASE sock_cb_returns
  BY <1>7 DEF TimerInv, sock_cb_returns, aresVars
<1>8. CASE dns_poller_cleanup \/ ares_destroy_returns
  BY <1>8 DEF TimerInv, dns_poller_cleanup, ares_destroy_returns, aresVars
<1>9. CASE UNCHANGED vars
  BY <1>9 DEF TimerInv, vars, aresVars
<1> QED BY <1>1, <1>2, <1>3, <1>4, <1>5, <1>6, <1>7, <1>8, <1>9 DEF Next, Finished

LEMMA TimerInvHolds == Spec => []TimerInv
<1>1. Init => TimerInv
  BY DEF Init, TimerInv
<1>2. TimerInv /\ [Next]_vars => TimerInv'
  BY NextKeepsTimer
<1> QED BY <1>1, <1>2, PTL DEF Spec

(* timer_cb and ares_cb leave the timer running, for what it is needed for. *)
THEOREM TimerRuns == Spec => []TimerKeepsRunning
<1>1. TimerInv => TimerKeepsRunning
  BY DEF TimerInv, TimerKeepsRunning
<1> QED BY <1>1, TimerInvHolds, PTL

(* ares_getaddrinfo is never called while a callback of it is due.          *)
THEOREM QueriesDoNotOverlap == Spec => []OneQuery
<1>1. TimerInv => OneQuery
  BY DEF TimerInv, OneQuery
<1> QED BY <1>1, TimerInvHolds, PTL

-----------------------------------------------------------------------------
(* The slots of io_events. *)
SlotInv ==
  /\ ctl \in {"loop", "timer", "sock", "destroy", "fatal", "done"}
  /\ sockets \subseteq Fds
  /\ Cardinality(sockets) <= MaxSockets
  /\ io_events \in [Slots -> Fds \cup {NoFd}]
  /\ SlotsFollowSockets
  /\ ctl = "done" => sockets = {}

LEMMA EventFound ==
  ASSUME NEW events, NEW fd, HasEvent(events, fd)
  PROVE  get_io_event(events, fd) \in Slots /\ events[get_io_event(events, fd)] = fd
<1> DEFINE T == {i \in Slots : events[i] = fd}
<1>1. T \subseteq Nat /\ T # {}
  BY CountAssumption DEF Slots, HasEvent
<1>2. PICK i \in T : \A j \in T : i <= j
  BY <1>1, Least
<1>3. \E x \in Slots : events[x] = fd /\ \A j \in Slots : events[j] = fd => x <= j
  BY <1>2
<1> QED BY <1>3, Zenon DEF get_io_event

LEMMA Released ==
  ASSUME SlotInv, ctl # "fatal", NEW fd \in Fds
  PROVE  /\ ReleaseEvent(fd) \in [Slots -> Fds \cup {NoFd}]
         /\ \A i \in Slots : ReleaseEvent(fd)[i] = IF io_events[i] = fd THEN NoFd ELSE io_events[i]
<1>1. CASE ~HasEvent(io_events, fd)
  BY <1>1 DEF ReleaseEvent, HasEvent, SlotInv
<1>2. CASE HasEvent(io_events, fd)
  <2> DEFINE x == get_io_event(io_events, fd)
  <2>1. x \in Slots /\ io_events[x] = fd
    BY <1>2, EventFound
  <2>2. \A i \in Slots : io_events[i] = fd => i = x
    BY <2>1, FdAssumption DEF SlotInv, SlotsFollowSockets
  <2>3. ReleaseEvent(fd) = [io_events EXCEPT ![x] = NoFd]
    BY <1>2 DEF ReleaseEvent
  <2> HIDE DEF x
  <2> QED BY <2>1, <2>2, <2>3 DEF SlotInv
<1> QED BY <1>1, <1>2

(* If every slot holds another socket than fd, there are more sockets than  *)
(* MaxSockets allows.                                                       *)
LEMMA SlotsSuffice ==
  ASSUME SlotInv, ctl # "fatal", NEW fd \in Fds, fd \in sockets \/ Cardinality(sockets) < MaxSockets,
         MaxSockets <= io_events_count
  PROVE  HasEvent(ReleaseEvent(fd), NoFd)
<1> SUFFICES ASSUME ~HasEvent(ReleaseEvent(fd), NoFd) PROVE FALSE
  OBVIOUS
<1>1. \A i \in Slots : io_events[i] # fd /\ io_events[i] # NoFd
  BY Released DEF HasEvent
<1>2. fd \notin sockets
  BY <1>1 DEF SlotInv, SlotsFollowSockets
<1>3. io_events \in Injection(Slots, sockets)
  <2>1. \A i \in Slots : io_events[i] \in sockets
    BY <1>1 DEF SlotInv, SlotsFollowSockets
  <2>2. \A i, j \in Slots : io_events[i] = io_events[j] => i = j
    BY <1>1 DEF SlotInv, SlotsFollowSockets
  <2>3. io_events \in [Slots -> sockets]
    BY <2>1 DEF SlotInv
  <2> QED BY <2>2, <2>3 DEF Injection, IsInjective
<1>4. IsFiniteSet(sockets) /\ Cardinality(sockets) \in Nat
  BY FdAssumption, FS_Subset, FS_CardinalityType DEF SlotInv
<1>5. Cardinality(Slots) = io_events_count
  BY CountAssumption, FS_Interval DEF Slots
<1>6. Cardinality(Slots) <= Cardinality(sockets)
  BY <1>3, <1>4, FS_Injection
<1> QED BY <1>2, <1>4, <1>5, <1>6, CountAssumption

LEMMA PollKeepsSlots ==
  ASSUME SlotInv, NEW fd \in Fds, sock_state_cb_poll(fd) PROVE SlotInv'
<1> DEFINE released == ReleaseEvent(fd)
<1>1. ctl \in {"timer", "sock"} /\ ctl # "fatal" /\ sockets' = sockets \cup {fd}
  BY DEF sock_state_cb_poll, Processing
<1>2. /\ released \in [Slots -> Fds \cup {NoFd}]
      /\ \A i \in Slots : released[i] = IF io_events[i] = fd THEN NoFd ELSE io_events[i]
  BY <1>1, Released
<1>3. sockets' \subseteq Fds /\ Cardinality(sockets') <= MaxSockets
  <2>1. IsFiniteSet(sockets) /\ Cardinality(sockets) \in Nat
    BY FdAssumption, FS_Subset, FS_CardinalityType DEF SlotInv
  <2>2. Cardinality(sockets') = IF fd \in sockets THEN Cardinality(sockets) ELSE Cardinality(sockets) + 1
    BY <1>1, <2>1, FS_AddElement
  <2>3. fd \in sockets \/ Cardinality(sockets) < MaxSockets
    BY DEF sock_state_cb_poll
  <2>4. Cardinality(sockets') <= MaxSockets
    BY <2>1, <2>2, <2>3, CountAssumption DEF SlotInv
  <2> QED BY <1>1, <2>4 DEF SlotInv
<1>4. CASE HasEvent(released, NoFd)
  <2> DEFINE x == get_io_event(released, NoFd)
  <2>1. io_events' = [released EXCEPT ![x] = fd] /\ ctl' = ctl
    BY <1>4 DEF sock_state_cb_poll, ReserveEvent
  <2>2. x \in Slots /\ released[x] = NoFd
    BY <1>4, EventFound
  <2> HIDE DEF x, released
  <2>3. /\ io_events' \in [Slots -> Fds \cup {NoFd}]
        /\ \A i \in Slots : io_events'[i] = IF i = x THEN fd
                           ELSE IF io_events[i] = fd THEN NoFd ELSE io_events[i]
    BY <1>2, <2>1, <2>2
  <2>4. \A f \in sockets' : \E i \in Slots : io_events'[i] = f
    <3> SUFFICES ASSUME NEW f \in sockets' PROVE \E i \in Slots : io_events'[i] = f
      OBVIOUS
    <3>1. CASE f = fd
      BY <3>1, <2>2, <2>3
    <3>2. CASE f # fd
      <4>1. PICK i \in Slots : io_events[i] = f
        BY <3>2, <1>1 DEF SlotInv, SlotsFollowSockets
      <4>2. released[i] = f /\ f # NoFd
        BY <4>1, <1>1, <1>2, <1>3, <3>2, FdAssumption
      <4>3. i # x
        BY <4>2, <2>2
      <4> QED BY <4>1, <4>3, <3>2, <2>3
    <3> QED BY <3>1, <3>2
  <2>5. \A i \in Slots : io_events'[i] \in sockets' \cup {NoFd}
    BY <1>1, <2>3 DEF SlotInv, SlotsFollowSockets
  <2>6. \A i, j \in Slots : io_events'[i] = io_events'[j] => i = j \/ io_events'[i] = NoFd
    BY <1>1, <2>3, FdAssumption DEF SlotInv, SlotsFollowSockets
  <2> QED BY <1>1, <1>3, <2>1, <2>3, <2>4, <2>5, <2>6 DEF SlotInv, SlotsFollowSockets
<1>5. CASE ~HasEvent(released, NoFd)
  <2>1. io_events' = released /\ ctl' = "fatal"
    BY <1>5 DEF sock_state_cb_poll
  <2>2. ~(MaxSockets <= io_events_count)
    BY <1>1, <1>5, SlotsSuffice DEF sock_state_cb_poll
  <2> HIDE DEF released
  <2> QED BY <1>2, <1>3, <2>1, <2>2 DEF SlotInv, SlotsFollowSockets
<1> QED BY <1>4, <1>5

LEMMA CloseKeepsSlots ==
  ASSUME SlotInv, NEW fd \in Fds, sock_state_cb_close(fd) PROVE SlotInv'
<1> DEFINE released == ReleaseEvent(fd)
<1>1. /\ ctl \in {"timer", "sock", "destroy"} /\ ctl # "fatal" /\ ctl' = ctl
      /\ io_events' = released
      /\ fd \in sockets /\ sockets' = sockets \ {fd}
  BY DEF sock_state_cb_close, InAres, Processing
<1>2. /\ released \in [Slots -> Fds \cup {NoFd}]
      /\ \A i \in Slots : released[i] = IF io_events[i] = fd THEN NoFd ELSE io_events[i]
  BY <1>1, Released
<1>3. sockets' \subseteq Fds /\ Cardinality(sockets') <= MaxSockets
  <2>1. IsFiniteSet(sockets) /\ Cardinality(sockets) \in Nat
    BY FdAssumption, FS_Subset, FS_CardinalityType DEF SlotInv
  <2>2. Cardinality(sockets') = Cardinality(sockets) - 1
    BY <1>1, <2>1, FS_RemoveElement
  <2> QED BY <1>1, <2>1, <2>2, CountAssumption DEF SlotInv
<1> HIDE DEF released
<1>4. \A f \in sockets' : \E i \in Slots : io_events'[i] = f
  BY <1>1, <1>2 DEF SlotInv, SlotsFollowSockets
<1>5. \A i \in Slots : io_events'[i] \in sockets' \cup {NoFd}
  BY <1>1, <1>2 DEF SlotInv, SlotsFollowSockets
<1>6. \A i, j \in Slots : io_events'[i] = io_events'[j] => i = j \/ io_events'[i] = NoFd
  BY <1>1, <1>2 DEF SlotInv, SlotsFollowSockets
<1> QED BY <1>1, <1>2, <1>3, <1>4, <1>5, <1>6 DEF SlotInv, SlotsFollowSockets

LEMMA NextKeepsSlots ==
  ASSUME SlotInv, [Next]_vars PROVE SlotInv'
<1>1. CASE \E fd \in Fds : sock_state_cb_poll(fd) \/ sock_state_cb_close(fd)
  BY <1>1, PollKeepsSlots, CloseKeepsSlots
<1>2. ASSUME UNCHANGED <<io_events, sockets>>,
             (ctl # "fatal" /\ ctl' \in {"loop", "timer", "sock", "destroy"}) \/ ctl' = ctl
      PROVE  SlotInv'
  BY <1>2 DEF SlotInv, SlotsFollowSockets
<1>3. CASE \E status \in Outcomes : ares_cb(status)
  BY <1>2, <1>3 DEF ares_cb
<1>4. CASE timer_cb \/ timer_cb_returns \/ sock_cb \/ sock_cb_returns
  BY <1>2, <1>4 DEF timer_cb, timer_cb_returns, sock_cb, sock_cb_returns, aresVars
<1>5. CASE dns_poller_cleanup
  BY <1>2, <1>5 DEF dns_poller_cleanup, aresVars
<1>6. CASE ares_destroy_returns
  BY <1>6 DEF ares_destroy_returns, ChannelIsDestroyed, aresVars, SlotInv, SlotsFollowSockets
<1>7. CASE UNCHANGED vars
  BY <1>2, <1>7 DEF vars, aresVars
<1> QED BY <1>1, <1>3, <1>4, <1>5, <1>6, <1>7 DEF Next, Finished

LEMMA SlotInvHolds == Spec => []SlotInv
<1>1. Init => SlotInv
  BY FS_EmptySet, CountAssumption DEF Init, SlotInv, SlotsFollowSockets
<1>2. SlotInv /\ [Next]_vars => SlotInv'
  BY NextKeepsSlots
<1> QED BY <1>1, <1>2, PTL DEF Spec

(* sock_state_cb polls every open socket by one slot and no closed one, and *)
(* finds a slot whenever there are as many name servers as sockets.         *)
THEOREM SlotsAreSound == Spec => []SlotsFollowSockets
<1>1. SlotInv => SlotsFollowSockets
  BY DEF SlotInv
<1> QED BY <1>1, SlotInvHolds, PTL

(* What ares_destroy calls starts neither the timer nor a slot and passes   *)
(* no address on, from every state the signal may find the poller in. By    *)
(* the time io_events is freed, the close of every socket has released its  *)
(* slot.                                                                    *)
THEOREM CleanupIsQuiet == Spec => CleanupOnlyStops
<1> DEFINE Quiet ==
      ctl = "destroy" =>
        /\ timer' \in {timer, "off"}
        /\ \A i \in Slots : io_events'[i] \in {io_events[i], NoFd}
        /\ UNCHANGED listVars
        /\ ctl' = "done" => timer' = "off" /\ \A i \in Slots : io_events'[i] = NoFd
<1>1. ASSUME SlotInv, Next, ctl = "destroy" PROVE Quiet
  <2>1. ASSUME NEW fd \in Fds, sock_state_cb_close(fd) PROVE Quiet
    <3>1. timer' = timer /\ UNCHANGED <<ctl, listVars>> /\ io_events' = ReleaseEvent(fd)
      BY <2>1 DEF sock_state_cb_close
    <3>2. \A i \in Slots : ReleaseEvent(fd)[i] = IF io_events[i] = fd THEN NoFd ELSE io_events[i]
      BY <1>1, Released
    <3> QED BY <1>1, <3>1, <3>2
  <2>2. ASSUME NEW status \in Outcomes, ares_cb(status) PROVE Quiet
    <3>1. status = "destroyed" /\ UNCHANGED <<ctl, io_events, listVars>>
          /\ timer' = TimerAfterAnswer(status)
      BY <1>1, <2>2 DEF ares_cb
    <3>2. timer' = timer
      BY <3>1 DEF TimerAfterAnswer
    <3> QED BY <1>1, <3>1, <3>2
  <2>3. CASE ares_destroy_returns
    BY <1>1, <2>3 DEF ares_destroy_returns, ChannelIsDestroyed, SlotInv, SlotsFollowSockets
  <2> QED BY <1>1, <2>1, <2>2, <2>3
          DEF Next, Finished, sock_state_cb_poll, Processing, timer_cb, timer_cb_returns,
              sock_cb, sock_cb_returns, dns_poller_cleanup
<1>2. SlotInv /\ [Next]_vars => [Quiet]_vars
  BY <1>1 DEF Quiet
<1> QED BY <1>2, SlotInvHolds, PTL DEF Spec, CleanupOnlyStops

-----------------------------------------------------------------------------
(* The text given to dns_poll_cb is that of ListingIsJoined for the answer. *)
LEMMA AnswerKeepsListing ==
  ASSUME ListingIsExact, [Next]_vars
  PROVE  ListingIsExact'
<1>1. CASE UNCHANGED listVars
  BY <1>1 DEF ListingIsExact, listVars
<1>2. ASSUME answer' \in Answers, addr_list' = get_addr_listing(answer')
      PROVE  ListingIsExact'
  <2> DEFINE nodes == answer'
  <2>1. /\ nodes \in Seq(Seq(AddrChars))
        /\ \E i \in DOMAIN nodes : nodes[i] # Unhandled
        /\ \A i \in DOMAIN nodes : AddressFits(<<>>, nodes[i])
    BY <1>2, AnswersAssumption
  <2>2. DOMAIN nodes = 1..Len(nodes)
    BY <2>1
  <2>3. IsExactListing(nodes, get_addr_listing(nodes))
    BY <2>1, <2>2, ListingIsJoined
  <2> QED BY <1>2, <2>3 DEF ListingIsExact
<1>3. UNCHANGED listVars \/ (answer' \in Answers /\ addr_list' = get_addr_listing(answer'))
  BY DEF Next, vars, Finished, sock_state_cb_poll, sock_state_cb_close, ares_cb, timer_cb,
         timer_cb_returns, sock_cb, sock_cb_returns, dns_poller_cleanup, ares_destroy_returns
<1> QED BY <1>1, <1>2, <1>3

(* What ares_cb passes on are the addresses of the answer, whole and in     *)
(* order, for every size of the buffer: the last byte is never passed, and  *)
(* none is left out that would have left a byte free for a separator.       *)
THEOREM ListingsAreExact == Spec => []ListingIsExact
<1>1. Init => ListingIsExact
  BY DEF Init, ListingIsExact
<1>2. ListingIsExact /\ [Next]_vars => ListingIsExact'
  BY AnswerKeepsListing
<1> QED BY <1>1, <1>2, PTL DEF Spec
=============================================================================
