------------------------- MODULE DnsServerTcpProofs -------------------------
(***************************************************************************)
(* Proofs about DnsServerTcp, for every limit, every set of addresses and  *)
(* every bound.                                                            *)
(***************************************************************************)
EXTENDS DnsServerTcp, TLAPS, FiniteSetTheorems, WellFoundedInduction

(* What ties the list to the kernel: the backlog leaves an id for each      *)
(* connection in it, an established connection belongs to a listed client   *)
(* that really has a peer's address, and nothing is listed after the stop.  *)
ListMatchesKernel ==
  /\ IsFiniteSet(connecting)
  /\ client_id + Cardinality(connecting) <= MaxClients
  /\ up \subseteq clients
  /\ \A c \in up : raddr[c] \in Addrs
  /\ phase \in {"stopped", "closed"} => clients = {}

(* The inductive invariant. *)
IInv ==
  /\ TypeOK
  /\ CountIsExact
  /\ AcceptsIffRoom
  /\ WatchersOwned
  /\ StopLeavesNoWatcher
  /\ ListMatchesKernel

-----------------------------------------------------------------------------
(* A non-empty set of natural numbers has a smallest one. *)
LEMMA SmallestExists ==
  ASSUME NEW T, T \subseteq Nat, T # {}
  PROVE  \E m \in T : \A k \in T : m <= k
<1>1. \E R : /\ IsWellFoundedOn(R, Nat)
             /\ \A k \in Nat, l \in Nat : k < l => <<k, l>> \in R
  <2>1. \A k \in Nat, l \in Nat : k < l => <<k, l>> \in OpToRel(<, Nat)
    BY DEF OpToRel
  <2> QED BY <2>1, NatLessThanWellFounded
<1>2. PICK R : /\ IsWellFoundedOn(R, Nat)
               /\ \A k \in Nat, l \in Nat : k < l => <<k, l>> \in R
  BY <1>1
<1>3. PICK m \in T : \A k \in T : ~(<<k, m>> \in R)
  <2>1. IsWellFoundedOn(R, Nat)
    BY <1>2
  <2> QED BY <2>1, WFMin, Zenon
<1>4. \A k \in T : ~(k < m)
  BY <1>2, <1>3
<1> QED BY <1>4

(* A non-empty set of ids has a largest one: the head of the list. *)
LEMMA LargestId ==
  ASSUME NEW n \in Nat, NEW S, S \subseteq 1..n, S # {}
  PROVE  \E c \in S : \A other \in S : c >= other
<1> DEFINE T == {k \in Nat : \E c \in S : k = n - c}
<1>1. \A c \in S : c \in 1..n /\ n - c \in T
  OBVIOUS
<1>2. T \subseteq Nat /\ T # {}
  BY <1>1
<1>3. PICK m \in T : \A k \in T : m <= k
  <2> HIDE DEF T
  <2> QED BY <1>2, SmallestExists
<1>4. PICK c \in S : m = n - c
  OBVIOUS
<1>5. ASSUME NEW other \in S PROVE c >= other
  <2>1. m <= n - other
    BY <1>1, <1>3
  <2> QED BY <2>1, <1>1, <1>4
<1> QED BY <1>5

(* dns_server_tcp_respond picks a listed client with the request's address, *)
(* and no younger one has that address.                                     *)
LEMMA FindClientIsNewest ==
  ASSUME TypeOK, NEW q, Matching(q) # {}
  PROVE  /\ FindClient(q) \in Matching(q)
         /\ \A other \in Matching(q) : FindClient(q) >= other
<1>1. client_id \in Nat /\ Matching(q) \subseteq 1..client_id
  <2>1. client_id \in Nat /\ clients \subseteq 1..client_id
    BY BoundAssumption DEF TypeOK
  <2> QED BY <2>1 DEF Matching
<1>2. \E c \in Matching(q) : \A other \in Matching(q) : c >= other
  BY <1>1, LargestId
<1> QED BY <1>2 DEF FindClient

(* The list is finite and its length is a natural number. *)
LEMMA ListIsFinite ==
  ASSUME TypeOK
  PROVE  IsFiniteSet(clients) /\ Cardinality(clients) \in Nat
<1>1. client_id \in Int /\ clients \subseteq 1..client_id
  BY BoundAssumption DEF TypeOK
<1>2. IsFiniteSet(1..client_id)
  BY <1>1, FS_Interval
<1> QED BY <1>1, <1>2, FS_Subset, FS_CardinalityType

-----------------------------------------------------------------------------
(* The initial state satisfies the invariant. *)
LEMMA InitIInv == Init => IInv
<1> SUFFICES ASSUME Init PROVE IInv
  OBVIOUS
<1>1. IsFiniteSet({}) /\ Cardinality({}) = 0
  BY FS_EmptySet
<1>2. TypeOK
  BY BoundAssumption DEF Init, TypeOK, Ids
<1> QED
  BY <1>1, <1>2, LimitAssumption, BoundAssumption
  DEF Init, IInv, CountIsExact, AcceptsIffRoom, WatchersOwned, StopLeavesNoWatcher,
      ListMatchesKernel

(* remove_client keeps the invariant, whichever callback calls it. *)
LEMMA RemoveKeepsIInv ==
  ASSUME IInv, NEW c \in clients, remove_client(c),
         pending' \subseteq Requests, issued' \in 0..MaxRequests, sends' \subseteq Sends
  PROVE  IInv'
<1>1. IsFiniteSet(clients) /\ Cardinality(clients) \in Nat
  BY ListIsFinite DEF IInv
<1>2. Cardinality(clients \ {c}) = Cardinality(clients) - 1
  BY <1>1, FS_RemoveElement
<1>3. IsFiniteSet(clients \ {c}) /\ Cardinality(clients \ {c}) \in Nat
  BY <1>1, FS_RemoveElement, FS_CardinalityType
<1>4. TypeOK'
  BY <1>2, <1>3 DEF IInv, TypeOK, CountIsExact, remove_client, ResumeAccept, TimersLeft, Ids
<1>5. CountIsExact'
  BY <1>1, <1>2, LimitAssumption DEF IInv, CountIsExact, remove_client
<1>6. AcceptsIffRoom'
  <2>1. client_count' < client_limit /\ (client_count < client_limit \/ client_count = client_limit)
    BY <1>1, LimitAssumption DEF IInv, CountIsExact, remove_client
  <2>2. accept_watcher' = (accept_watcher \/ client_count = client_limit)
    BY DEF remove_client, ResumeAccept
  <2>3. phase = "serving" => (accept_watcher <=> client_count < client_limit)
    BY DEF IInv, AcceptsIffRoom
  <2>4. phase' = phase
    BY DEF remove_client
  <2> QED BY <2>1, <2>2, <2>3, <2>4, Zenon DEF AcceptsIffRoom
<1>7. WatchersOwned' /\ StopLeavesNoWatcher' /\ ListMatchesKernel'
  BY DEF IInv, TypeOK, WatchersOwned, StopLeavesNoWatcher, ListMatchesKernel, remove_client,
         TimersLeft
<1> QED BY <1>4, <1>5, <1>6, <1>7 DEF IInv

(* A new client keeps the invariant, whether accept() gave it a connection  *)
(* and the peer's address or neither.                                       *)
LEMMA AddKeepsIInv ==
  ASSUME IInv, NEW a, AcceptReady(a), NEW addr \in Addrs \cup {NoAddr}, AddClient(addr),
         \/ up' = up
         \/ up' = up \cup {client_id + 1} /\ addr \in Addrs,
         no_sock' \in SUBSET (no_sock \cup {client_id + 1}),
         UNCHANGED <<phase, requestVars>>
  PROVE  IInv'
<1>1. IsFiniteSet(clients) /\ Cardinality(clients) \in Nat
  BY ListIsFinite DEF IInv
<1>2. /\ IsFiniteSet(connecting')
      /\ Cardinality(connecting') = Cardinality(connecting) - 1
      /\ Cardinality(connecting') \in Nat
      /\ Cardinality(connecting) \in Nat
  BY FS_RemoveElement, FS_CardinalityType DEF IInv, ListMatchesKernel, AcceptReady
<1>3. client_id \in Nat /\ client_id + 1 \in Ids /\ client_id + 1 \notin clients
  BY <1>2, BoundAssumption DEF IInv, TypeOK, ListMatchesKernel, Ids
<1>4. Cardinality(clients') = Cardinality(clients) + 1
  BY <1>1, <1>3, FS_AddElement DEF AddClient
<1>5. phase = "serving" /\ client_count < client_limit
  BY DEF IInv, AcceptReady, AcceptsIffRoom, StopLeavesNoWatcher
<1>6. TypeOK'
  <2>1. clients' \subseteq 1..client_id' /\ client_id' \in 0..MaxClients
    BY <1>3, BoundAssumption DEF IInv, TypeOK, AddClient, Ids
  <2>2. raddr' \in [Ids -> Addrs \cup {NoAddr}]
    BY <1>3 DEF IInv, TypeOK, AddClient
  <2>3. client_count' \in Nat /\ accept_watcher' \in BOOLEAN
    BY DEF IInv, TypeOK, AddClient
  <2>4. connecting' \subseteq Addrs /\ up' \subseteq Ids /\ no_sock' \subseteq Ids
    BY <1>3 DEF IInv, TypeOK, AcceptReady
  <2>5. read_watcher' \subseteq Ids /\ timer_watcher' \subseteq Ids
    BY <1>3 DEF IInv, TypeOK, AddClient
  <2> QED BY <2>1, <2>2, <2>3, <2>4, <2>5 DEF IInv, TypeOK, requestVars
<1>7. CountIsExact' /\ AcceptsIffRoom'
  <2>1. CountIsExact'
    BY <1>1, <1>4, <1>5, LimitAssumption DEF IInv, CountIsExact, AddClient
  <2>2. SuspendAccept <=> ~(client_count' < client_limit)
    BY <1>5, LimitAssumption DEF IInv, TypeOK, AddClient, SuspendAccept
  <2>3. accept_watcher /\ accept_watcher' = (accept_watcher /\ ~SuspendAccept)
    BY DEF AddClient, AcceptReady
  <2>4. AcceptsIffRoom'
    BY <2>2, <2>3, Zenon DEF AcceptsIffRoom
  <2> QED BY <2>1, <2>4
<1>8. WatchersOwned' /\ StopLeavesNoWatcher'
  BY <1>5 DEF IInv, WatchersOwned, StopLeavesNoWatcher, AddClient
<1>9. ListMatchesKernel'
  <2>1. client_id' + Cardinality(connecting') <= MaxClients
    BY <1>2, <1>3, BoundAssumption DEF IInv, ListMatchesKernel, AddClient
  <2>2. up' \subseteq clients'
    BY DEF IInv, ListMatchesKernel, AddClient
  <2>3. \A c \in up' : raddr'[c] \in Addrs
    BY <1>3 DEF IInv, TypeOK, ListMatchesKernel, AddClient
  <2> QED BY <1>2, <1>5, <2>1, <2>2, <2>3 DEF ListMatchesKernel
<1> QED BY <1>6, <1>7, <1>8, <1>9 DEF IInv

(* A read hands on well-formed requests: their address is a real one,       *)
(* because only an established connection delivers data.                    *)
LEMMA ReadRequests ==
  ASSUME IInv, NEW c \in up, NEW k \in 0..MaxBatch, issued + k <= MaxRequests
  PROVE  /\ pending \cup NewRequests(c, k) \subseteq Requests
         /\ issued + k \in 0..MaxRequests
<1>1. c \in Ids /\ raddr[c] \in Addrs
  BY DEF IInv, TypeOK, ListMatchesKernel
<1>2. issued \in Nat /\ k \in Nat
  BY BoundAssumption DEF IInv, TypeOK
<1>3. NewRequests(c, k) \subseteq Requests
  <2> SUFFICES ASSUME NEW i \in 1..k
               PROVE  [id |-> issued + i, asker |-> c, addr |-> raddr[c]] \in Requests
    BY DEF NewRequests
  <2>1. issued + i \in 1..MaxRequests
    BY <1>2, BoundAssumption
  <2> QED BY <1>1, <2>1 DEF Requests
<1> QED BY <1>2, <1>3, BoundAssumption DEF IInv, TypeOK

(* Every step keeps the invariant. *)
LEMMA NextKeepsIInv == IInv /\ [Next]_vars => IInv'
<1> SUFFICES ASSUME IInv, [Next]_vars PROVE IInv'
  OBVIOUS
<1>1. ASSUME NEW a \in Addrs, Connect(a) PROVE IInv'
  <2>1. IsFiniteSet(connecting) /\ a \notin connecting
    BY <1>1 DEF IInv, ListMatchesKernel, Connect
  <2>2. /\ IsFiniteSet(connecting')
        /\ Cardinality(connecting') = Cardinality(connecting) + 1
        /\ Cardinality(connecting) \in Nat
    BY <1>1, <2>1, FS_AddElement, FS_CardinalityType DEF Connect
  <2>3. client_id' = client_id /\ client_id + Cardinality(connecting') <= MaxClients
    BY <1>1, <2>2, BoundAssumption DEF IInv, TypeOK, Connect, serverVars
  <2>4. TypeOK' /\ ListMatchesKernel'
    BY <1>1, <2>2, <2>3 DEF IInv, TypeOK, ListMatchesKernel, Connect, serverVars, requestVars
  <2> QED
    BY <1>1, <2>4 DEF IInv, CountIsExact, AcceptsIffRoom, WatchersOwned, StopLeavesNoWatcher,
                      Connect, serverVars
<1>2. ASSUME NEW a \in Addrs, accept_cb(a) PROVE IInv'
  <2>1. CASE accept_cb_ok(a)
    BY <2>1, AddKeepsIInv DEF accept_cb_ok
  <2>2. CASE accept_cb_failed(a)
    <3>1. IsFiniteSet(connecting') /\ Cardinality(connecting') = Cardinality(connecting) - 1
          /\ Cardinality(connecting) \in Nat
      BY <2>2, FS_RemoveElement, FS_CardinalityType
      DEF accept_cb_failed, AcceptReady, IInv, ListMatchesKernel
    <3>2. ListMatchesKernel'
      BY <2>2, <3>1, BoundAssumption
      DEF accept_cb_failed, AcceptReady, IInv, TypeOK, ListMatchesKernel, serverVars
    <3> QED
      BY <2>2, <3>2 DEF accept_cb_failed, AcceptReady, IInv, TypeOK, CountIsExact,
           AcceptsIffRoom, WatchersOwned, StopLeavesNoWatcher, serverVars, requestVars
  <2>3. CASE accept_cb_eagain(a)
    <3>1. CASE phase' = "abort" /\ UNCHANGED <<clients, client_id, client_count, raddr, no_sock,
                                               accept_watcher, read_watcher, timer_watcher>>
      <4>1. IsFiniteSet(connecting') /\ Cardinality(connecting') = Cardinality(connecting) - 1
            /\ Cardinality(connecting) \in Nat
        BY <2>3, FS_RemoveElement, FS_CardinalityType
        DEF accept_cb_eagain, AcceptReady, IInv, ListMatchesKernel
      <4>2. ListMatchesKernel'
        BY <2>3, <3>1, <4>1, BoundAssumption
        DEF accept_cb_eagain, AcceptReady, IInv, TypeOK, ListMatchesKernel
      <4> QED
        BY <2>3, <3>1, <4>2 DEF accept_cb_eagain, AcceptReady, IInv, TypeOK, CountIsExact,
             AcceptsIffRoom, WatchersOwned, StopLeavesNoWatcher, requestVars
    <3>2. ASSUME NEW garbage \in Addrs \cup {NoAddr}, AddClient(garbage),
                 no_sock' = no_sock \cup {client_id + 1}, UNCHANGED phase
          PROVE  IInv'
      BY <2>3, <3>2, AddKeepsIInv DEF accept_cb_eagain
    <3> QED BY <2>3, <3>1, <3>2 DEF accept_cb_eagain
  <2> QED BY <1>2, <2>1, <2>2, <2>3 DEF accept_cb
<1>3. ASSUME NEW c \in Ids, Reset(c) PROVE IInv'
  BY <1>3 DEF Reset, IInv, TypeOK, CountIsExact, AcceptsIffRoom, WatchersOwned,
              StopLeavesNoWatcher, ListMatchesKernel, serverVars, requestVars
<1>4. ASSUME NEW c \in Ids, read_cb(c) PROVE IInv'
  <2>1. CASE read_cb_removes(c)
    BY <2>1, RemoveKeepsIInv DEF read_cb_removes, requestVars, IInv, TypeOK, WatchersOwned
  <2>2. ASSUME NEW k \in 0..MaxBatch, read_cb_requests(c, k) PROVE IInv'
    <3>1. c \in up /\ c \in clients /\ sends' \subseteq Sends
      BY <2>2 DEF read_cb_requests, IInv, TypeOK, WatchersOwned
    <3>2. pending' \subseteq Requests /\ issued' \in 0..MaxRequests
      BY <2>2, <3>1, ReadRequests DEF read_cb_requests
    <3>3. CASE remove_client(c)
      BY <3>1, <3>2, <3>3, RemoveKeepsIInv
    <3>4. CASE UNCHANGED <<serverVars, kernelVars>>
      BY <3>1, <3>2, <3>4 DEF IInv, TypeOK, CountIsExact, AcceptsIffRoom, WatchersOwned,
              StopLeavesNoWatcher, ListMatchesKernel, serverVars, kernelVars
    <3> QED BY <2>2, <3>3, <3>4 DEF read_cb_requests
  <2> QED BY <1>4, <2>1, <2>2 DEF read_cb
<1>5. ASSUME NEW c \in Ids, timer_cb(c) PROVE IInv'
  BY <1>5, RemoveKeepsIInv DEF timer_cb, requestVars, IInv, TypeOK, WatchersOwned
<1>6. ASSUME NEW q \in pending, Respond(q) PROVE IInv'
  <2>1. pending' \subseteq Requests /\ issued' \in 0..MaxRequests
    BY <1>6 DEF Respond, IInv, TypeOK
  <2>2. CASE DropResponse
    BY <2>1, <2>2 DEF DropResponse, IInv, TypeOK, CountIsExact, AcceptsIffRoom, WatchersOwned,
            StopLeavesNoWatcher, ListMatchesKernel, serverVars, kernelVars
  <2>3. CASE Matching(q) # {} /\ SendTo(FindClient(q), q)
    <3> DEFINE c == FindClient(q)
    <3>1. c \in clients /\ c \in Ids
      <4>1. c \in Matching(q)
        BY <2>3, FindClientIsNewest DEF IInv
      <4>2. clients \subseteq Ids
        BY DEF IInv, TypeOK, WatchersOwned
      <4> QED BY <4>1, <4>2 DEF Matching
    <3>2. q.asker \in Ids
      BY DEF IInv, TypeOK, Requests
    <3> HIDE DEF c
    <3>3. sends' \subseteq Sends
      <4>1. sends' = sends \cup {[asker |-> q.asker, asker_up |-> q.asker \in up, to |-> c]}
        BY <2>3 DEF SendTo, c
      <4>2. (q.asker \in up) \in BOOLEAN
        OBVIOUS
      <4>3. [asker |-> q.asker, asker_up |-> q.asker \in up, to |-> c] \in Sends
        BY <3>1, <3>2, <4>2, Zenon DEF Sends
      <4>4. sends \subseteq Sends
        BY DEF IInv, TypeOK
      <4> QED BY <4>1, <4>3, <4>4, Zenon
    <3>4. CASE remove_client(c)
      BY <2>1, <3>1, <3>3, <3>4, RemoveKeepsIInv
    <3>5. CASE UNCHANGED <<serverVars, kernelVars>>
      BY <2>1, <3>3, <3>5 DEF IInv, TypeOK, CountIsExact, AcceptsIffRoom, WatchersOwned,
              StopLeavesNoWatcher, ListMatchesKernel, serverVars, kernelVars
    <3> QED BY <2>3, <3>4, <3>5 DEF SendTo, c
  <2> QED BY <1>6, <2>2, <2>3 DEF Respond, dns_server_tcp_respond
<1>7. ASSUME dns_server_tcp_stop PROVE IInv'
  <2>1. client_count' = 0 /\ Cardinality({}) = 0
    BY <1>7, ListIsFinite, FS_EmptySet DEF dns_server_tcp_stop, IInv, CountIsExact
  <2>2. read_watcher' = {} /\ timer_watcher' = {} /\ accept_watcher' = FALSE /\ clients' = {}
    BY <1>7 DEF dns_server_tcp_stop, AcceptAfterStop, IInv, WatchersOwned
  <2>2a. accept_watcher' \in BOOLEAN
    BY <2>2
  <2>3. TypeOK'
    BY <1>7, <2>1, <2>2, <2>2a, BoundAssumption
    DEF dns_server_tcp_stop, IInv, TypeOK, requestVars
  <2>4. CountIsExact'
    BY <2>1, <2>2, LimitAssumption DEF CountIsExact
  <2>5. up' = {}
    BY <1>7 DEF dns_server_tcp_stop, IInv, ListMatchesKernel
  <2>6. ListMatchesKernel'
    BY <1>7, <2>2, <2>5 DEF dns_server_tcp_stop, IInv, ListMatchesKernel
  <2> QED
    BY <1>7, <2>2, <2>3, <2>4, <2>6
    DEF dns_server_tcp_stop, IInv, AcceptsIffRoom, WatchersOwned, StopLeavesNoWatcher
<1>8. ASSUME dns_server_tcp_cleanup PROVE IInv'
  BY <1>8, FS_EmptySet, BoundAssumption
  DEF dns_server_tcp_cleanup, IInv, TypeOK, CountIsExact, AcceptsIffRoom,
      WatchersOwned, StopLeavesNoWatcher, ListMatchesKernel, requestVars
<1>9. ASSUME UNCHANGED vars PROVE IInv'
  BY <1>9 DEF vars, serverVars, kernelVars, requestVars, IInv, TypeOK, CountIsExact,
      AcceptsIffRoom, WatchersOwned, StopLeavesNoWatcher, ListMatchesKernel
<1> QED
  BY <1>1, <1>2, <1>3, <1>4, <1>5, <1>6, <1>7, <1>8, <1>9 DEF Next, Finished

(* The invariant holds in every reachable state. *)
THEOREM ServerInvariant == Spec => []IInv
<1>1. Init => IInv
  BY InitIInv
<1>2. IInv /\ [Next]_vars => IInv'
  BY NextKeepsIInv
<1> QED BY <1>1, <1>2, PTL DEF Spec

(* The server's variables always have their types. *)
THEOREM TypeCorrect == Spec => []TypeOK
<1>1. IInv => TypeOK
  BY DEF IInv
<1> QED BY <1>1, ServerInvariant, PTL

(* For every -T limit: client_count is the length of the list and never     *)
(* passes the limit.                                                        *)
THEOREM CountCorrect == Spec => []CountIsExact
<1>1. IInv => CountIsExact
  BY DEF IInv
<1> QED BY <1>1, ServerInvariant, PTL

(* For every -T limit: accept_cb is active exactly while there is room.     *)
THEOREM AcceptCorrect == Spec => []AcceptsIffRoom
<1>1. IInv => AcceptsIffRoom
  BY DEF IInv
<1> QED BY <1>1, ServerInvariant, PTL

(* No watcher outlives its client, and no client is without one. *)
THEOREM WatchersCorrect == Spec => []WatchersOwned
<1>1. IInv => WatchersOwned
  BY DEF IInv
<1> QED BY <1>1, ServerInvariant, PTL

(* dns_server_tcp_stop leaves nothing that keeps the loop running. *)
THEOREM StopCorrect == Spec => []StopLeavesNoWatcher
<1>1. IInv => StopLeavesNoWatcher
  BY DEF IInv
<1> QED BY <1>1, ServerInvariant, PTL

-----------------------------------------------------------------------------
(* Why the lookup by address is right: of the listed clients with the same  *)
(* address, those without a socket aside, only the youngest can be          *)
(* connected; an address in the backlog belongs to no connection; and a     *)
(* request keeps its asker's address.                                       *)
Routing ==
  /\ \A c \in up, d \in clients \ no_sock : raddr[d] = raddr[c] => d <= c
  /\ \A c \in up : raddr[c] \notin connecting
  /\ \A q \in pending : q.asker \in 1..client_id /\ q.addr = raddr[q.asker]
  /\ AskerGetsItsAnswer

(* A step that adds no client, connection or request and moves no id keeps  *)
(* the routing invariant if the history keeps its property.                 *)
LEMMA ShrinkKeepsRouting ==
  ASSUME Routing, up' \subseteq up, clients' \subseteq clients, connecting' \subseteq connecting,
         pending' \subseteq pending, UNCHANGED <<raddr, client_id, no_sock>>,
         AskerGetsItsAnswer'
  PROVE  Routing'
BY DEF Routing

(* A new client's address leaves those of the others alone. *)
LEMMA AddKeepsAddresses ==
  ASSUME IInv, IInv', NEW addr, AddClient(addr)
  PROVE  /\ client_id \in Nat /\ client_id' = client_id + 1
         /\ clients' = clients \cup {client_id + 1}
         /\ clients \subseteq 1..client_id /\ up \subseteq 1..client_id
         /\ \A c \in 1..client_id : c \in Int /\ c < client_id + 1
         /\ raddr'[client_id + 1] = addr
         /\ \A c \in 1..client_id : raddr'[c] = raddr[c]
<1>1. /\ client_id' = client_id + 1 /\ clients' = clients \cup {client_id + 1}
      /\ raddr' = [raddr EXCEPT ![client_id + 1] = addr]
  BY DEF AddClient
<1>2. client_id' \in 0..MaxClients /\ client_id \in 0..MaxClients
  BY DEF IInv, TypeOK
<1>3. client_id \in Nat /\ client_id + 1 \in Ids /\ 1..client_id \subseteq Ids
  BY <1>1, <1>2, BoundAssumption DEF Ids
<1>4. raddr \in [Ids -> Addrs \cup {NoAddr}]
  BY DEF IInv, TypeOK
<1>5. clients \subseteq 1..client_id /\ up \subseteq 1..client_id
  BY DEF IInv, TypeOK, ListMatchesKernel
<1>6. \A c \in 1..client_id : c \in Int /\ c < client_id + 1
  BY <1>3
<1>7. raddr'[client_id + 1] = addr
  BY <1>1, <1>3, <1>4
<1>8. \A c \in 1..client_id : raddr'[c] = raddr[c]
  BY <1>1, <1>3, <1>4, <1>6
<1> QED BY <1>1, <1>3, <1>5, <1>6, <1>7, <1>8

(* Requests keep their asker's address when a client is added. *)
LEMMA AddKeepsRequests ==
  ASSUME IInv, IInv', Routing, NEW addr, AddClient(addr), pending' = pending
  PROVE  \A q \in pending' : q.asker \in 1..client_id' /\ q.addr = raddr'[q.asker]
<1>1. 1..client_id \subseteq 1..client_id'
  BY AddKeepsAddresses
<1> QED BY <1>1, AddKeepsAddresses DEF Routing

(* Every step keeps the routing invariant. *)
LEMMA NextKeepsRouting ==
  ASSUME IInv, IInv', Routing, [Next]_vars
  PROVE  Routing'
<1> USE DEF AskerGetsItsAnswer
<1>1. ASSUME NEW a \in Addrs, Connect(a) PROVE Routing'
  BY <1>1 DEF Connect, Routing, serverVars, requestVars
<1>2. ASSUME NEW a \in Addrs, accept_cb(a) PROVE Routing'
  <2>1. CASE accept_cb_ok(a)
    <3>1. /\ AddClient(a) /\ up' = up \cup {client_id + 1} /\ no_sock' = no_sock
          /\ connecting' = connecting \ {a} /\ a \in connecting
          /\ pending' = pending /\ sends' = sends
      BY <2>1 DEF accept_cb_ok, AcceptReady, requestVars
    <3>2. ASSUME NEW c \in up', NEW d \in clients' \ no_sock', raddr'[d] = raddr'[c]
          PROVE  d <= c
      <4>1. CASE c = client_id + 1
        <5>1. d \in 1..client_id \/ d = client_id + 1
          BY <3>1, AddKeepsAddresses
        <5> QED BY <3>1, <4>1, <5>1, AddKeepsAddresses
      <4>2. CASE c \in up /\ d = client_id + 1
        <5>1. raddr[c] = a
          BY <3>1, <3>2, <4>2, AddKeepsAddresses
        <5> QED BY <3>1, <4>2, <5>1 DEF Routing
      <4>3. CASE c \in up /\ d \in clients \ no_sock
        <5>1. raddr[d] = raddr[c]
          BY <3>1, <3>2, <4>3, AddKeepsAddresses
        <5> QED BY <4>3, <5>1 DEF Routing
      <4> QED BY <3>1, <4>1, <4>2, <4>3, AddKeepsAddresses
    <3>3. \A c \in up' : raddr'[c] \notin connecting'
      BY <3>1, AddKeepsAddresses DEF Routing
    <3>4. \A q \in pending' : q.asker \in 1..client_id' /\ q.addr = raddr'[q.asker]
      BY <3>1, AddKeepsRequests
    <3> QED BY <3>1, <3>2, <3>3, <3>4 DEF Routing
  <2>2. CASE accept_cb_failed(a)
    BY <2>2, ShrinkKeepsRouting
    DEF accept_cb_failed, AcceptReady, Routing, serverVars, requestVars
  <2>3. ASSUME NEW garbage, AddClient(garbage), connecting' \subseteq connecting,
               no_sock' = no_sock \cup {client_id + 1}, UNCHANGED <<up, requestVars>>
        PROVE  Routing'
    <3>1. \A c \in up', d \in clients' \ no_sock' : raddr'[d] = raddr'[c] => d <= c
      BY <2>3, AddKeepsAddresses DEF Routing
    <3>2. \A c \in up' : raddr'[c] \notin connecting'
      BY <2>3, AddKeepsAddresses DEF Routing
    <3>3. \A q \in pending' : q.asker \in 1..client_id' /\ q.addr = raddr'[q.asker]
      BY <2>3, AddKeepsRequests DEF requestVars
    <3>4. AskerGetsItsAnswer'
      BY <2>3 DEF Routing, requestVars
    <3> QED BY <3>1, <3>2, <3>3, <3>4 DEF Routing
  <2>4. CASE accept_cb_eagain(a) /\ phase' = "abort" /\ UNCHANGED client_id
    BY <2>4, ShrinkKeepsRouting
    DEF accept_cb_eagain, AcceptReady, Routing, AddClient, requestVars
  <2>5. CASE accept_cb_eagain(a) /\ ~(phase' = "abort" /\ UNCHANGED client_id)
    <3>1. PICK garbage \in Addrs \cup {NoAddr} :
            AddClient(garbage) /\ no_sock' = no_sock \cup {client_id + 1}
      BY <2>5 DEF accept_cb_eagain
    <3> QED BY <2>3, <2>5, <3>1 DEF accept_cb_eagain, AcceptReady
  <2> QED BY <1>2, <2>1, <2>2, <2>4, <2>5 DEF accept_cb
<1>3. ASSUME NEW c \in Ids, Reset(c) PROVE Routing'
  BY <1>3, ShrinkKeepsRouting DEF Reset, Routing, serverVars, requestVars
<1>4. ASSUME NEW c \in Ids, read_cb(c) PROVE Routing'
  <2>1. CASE read_cb_removes(c)
    BY <2>1, ShrinkKeepsRouting DEF read_cb_removes, remove_client, Routing, requestVars
  <2>2. ASSUME NEW k \in 0..MaxBatch, read_cb_requests(c, k) PROVE Routing'
    <3>1. c \in 1..client_id
      BY <2>2 DEF read_cb_requests, IInv, TypeOK, ListMatchesKernel
    <3>2. /\ up' \subseteq up /\ clients' \subseteq clients
          /\ UNCHANGED <<raddr, client_id, connecting, no_sock, sends>>
      BY <2>2 DEF read_cb_requests, remove_client, serverVars, kernelVars
    <3>3. \A q \in NewRequests(c, k) : q.asker = c /\ q.addr = raddr[c]
      BY DEF NewRequests
    <3>4. \A q \in pending' : q.asker \in 1..client_id /\ q.addr = raddr[q.asker]
      BY <2>2, <3>1, <3>3 DEF read_cb_requests, Routing
    <3> QED BY <3>2, <3>4 DEF Routing
  <2> QED BY <1>4, <2>1, <2>2 DEF read_cb
<1>5. ASSUME NEW c \in Ids, timer_cb(c) PROVE Routing'
  BY <1>5, ShrinkKeepsRouting DEF timer_cb, remove_client, Routing, requestVars
<1>6. ASSUME NEW q \in pending, Respond(q) PROVE Routing'
  <2>1. pending' \subseteq pending
    BY <1>6 DEF Respond
  <2>2. CASE DropResponse
    BY <2>1, <2>2, ShrinkKeepsRouting DEF DropResponse, Routing, serverVars, kernelVars
  <2>3. CASE Matching(q) # {} /\ SendTo(FindClient(q), q)
    <3> DEFINE c == FindClient(q)
    <3>1. c \in Matching(q) /\ \A other \in Matching(q) : c >= other
      BY <2>3, FindClientIsNewest DEF IInv
    <3> HIDE DEF c
    <3>2. q.asker \in up => c = q.asker \/ c \in no_sock
      <4> SUFFICES ASSUME q.asker \in up, c \notin no_sock PROVE c = q.asker
        OBVIOUS
      <4>1. q.asker \in clients /\ q.addr = raddr[q.asker]
        BY DEF IInv, ListMatchesKernel, Routing
      <4>2. q.asker \in Matching(q) /\ c \in clients /\ raddr[c] = raddr[q.asker]
        BY <3>1, <4>1 DEF Matching
      <4>3. c >= q.asker /\ c <= q.asker
        BY <3>1, <4>2 DEF Routing
      <4>4. c \in Int /\ q.asker \in Int
        <5>1. client_id \in Int /\ clients \subseteq 1..client_id
          BY BoundAssumption DEF IInv, TypeOK
        <5>2. \A d \in clients : d \in Int
          BY <5>1
        <5> QED BY <4>1, <4>2, <5>2, Zenon
      <4> QED BY <4>3, <4>4
    <3>3. sends' = sends \cup {[asker |-> q.asker, asker_up |-> q.asker \in up, to |-> c]}
      BY <2>3 DEF SendTo, c
    <3>4. \A s \in sends' : s.asker_up => s.to = s.asker \/ s.to \in no_sock
      <4> SUFFICES ASSUME NEW s \in sends', s.asker_up
                   PROVE  s.to = s.asker \/ s.to \in no_sock
        OBVIOUS
      <4>1. CASE s \in sends
        BY <4>1 DEF Routing
      <4>2. CASE s = [asker |-> q.asker, asker_up |-> q.asker \in up, to |-> c]
        <5>1. s.asker = q.asker /\ s.to = c /\ s.asker_up = (q.asker \in up)
          BY <4>2
        <5> QED BY <3>2, <5>1, Zenon
      <4> QED BY <3>3, <4>1, <4>2
    <3>5. /\ up' \subseteq up /\ clients' \subseteq clients
          /\ UNCHANGED <<raddr, client_id, connecting, no_sock>>
      BY <2>3 DEF SendTo, remove_client, serverVars, kernelVars
    <3> QED BY <2>1, <3>4, <3>5, ShrinkKeepsRouting
  <2> QED BY <1>6, <2>2, <2>3 DEF Respond, dns_server_tcp_respond
<1>7. ASSUME dns_server_tcp_stop PROVE Routing'
  BY <1>7, ShrinkKeepsRouting DEF dns_server_tcp_stop, Routing, requestVars
<1>8. ASSUME dns_server_tcp_cleanup PROVE Routing'
  BY <1>8, ShrinkKeepsRouting DEF dns_server_tcp_cleanup, Routing, requestVars
<1>9. ASSUME UNCHANGED vars PROVE Routing'
  BY <1>9, ShrinkKeepsRouting DEF vars, serverVars, kernelVars, requestVars, Routing
<1> QED
  BY <1>1, <1>2, <1>3, <1>4, <1>5, <1>6, <1>7, <1>8, <1>9 DEF Next, Finished

(* For every list length and every mix of addresses: a response never goes  *)
(* to another peer while the one that asked is still connected.             *)
THEOREM RoutingCorrect == Spec => []AskerGetsItsAnswer
<1>1. Init => Routing
  BY DEF Init, Routing, AskerGetsItsAnswer
<1>2. IInv /\ IInv' /\ Routing /\ [Next]_vars => Routing'
  BY NextKeepsRouting
<1>3. Routing => AskerGetsItsAnswer
  BY DEF Routing
<1> QED BY <1>1, <1>2, <1>3, ServerInvariant, PTL DEF Spec
=============================================================================
