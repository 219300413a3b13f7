---------------------------- MODULE DnsServerTcp ----------------------------
(***************************************************************************)
(* The DNS-over-TCP front end (src/dns_server_tcp.c): the list of clients, *)
(* the client limit that suspends and resumes accept(), the idle timers,   *)
(* and the routing of responses to clients by remote address.              *)
(*                                                                         *)
(* libev runs one callback at a time, so every callback is one action.     *)
(* How read_cb cuts the byte stream into requests is module TcpInput; here *)
(* a read completes some number of requests, and may then find a short one.*)
(*                                                                         *)
(* The linked list d->clients is a set of client ids: accept_cb puts the   *)
(* client with the largest id at the head and removals keep the order, so  *)
(* the list is always sorted by descending id.                             *)
(***************************************************************************)
EXTENDS Integers, FiniteSets

CONSTANTS
  client_limit,    \* d->client_limit (option -T)
  Addrs,           \* remote socket addresses (IP and port)
  NoAddr,          \* bytes that are the address of no peer
  MaxClients,      \* bound: connections made to the listening socket
  MaxRequests,     \* bound: requests handed to d->cb
  MaxBatch         \* bound: requests completed by one read

ASSUME LimitAssumption == client_limit \in Nat \ {0}
ASSUME AddrAssumption == NoAddr \notin Addrs
ASSUME BoundAssumption ==
  /\ MaxClients \in Nat
  /\ MaxRequests \in Nat
  /\ MaxBatch \in Nat

VARIABLES
  phase,           \* "serving", "stopped", "closed"; "abort": libev assertion
  clients,         \* ids on the list d->clients
  client_id,       \* d->client_id, the last id given
  client_count,    \* d->client_count
  raddr,           \* client->raddr of each id given so far
  no_sock,         \* ids whose client->sock is -1
  accept_watcher,  \* d->accept_watcher is active
  read_watcher,    \* ids whose client->read_watcher is active
  timer_watcher,   \* ids whose client->timer_watcher is active
  connecting,      \* kernel: addresses in the listen backlog
  up,              \* kernel: ids whose connection is established
  pending,         \* requests handed to d->cb and not answered yet
  issued,          \* number of requests handed to d->cb
  sends            \* history: which client each response was sent to

serverVars == <<phase, clients, client_id, client_count, raddr, no_sock,
                accept_watcher, read_watcher, timer_watcher>>
kernelVars == <<connecting, up>>
requestVars == <<pending, issued, sends>>
vars == <<serverVars, kernelVars, requestVars>>

Ids == 1..MaxClients

(* What dns_server_cb keeps of a request is its raddr; asker, the client    *)
(* that sent it, is recorded for the properties only.                       *)
Requests == [id: 1..MaxRequests, asker: Ids, addr: Addrs]

Sends == [asker: Ids, asker_up: BOOLEAN, to: Ids]

Init ==
  /\ phase = "serving"
  /\ clients = {}
  /\ client_id = 0
  /\ client_count = 0
  /\ raddr = [c \in Ids |-> NoAddr]
  /\ no_sock = {}
  /\ accept_watcher = TRUE
  /\ read_watcher = {}
  /\ timer_watcher = {}
  /\ connecting = {}
  /\ up = {}
  /\ pending = {}
  /\ issued = 0
  /\ sends = {}

-----------------------------------------------------------------------------
(* The peers and the kernel. An address has one live connection at a time.  *)

Connect(a) ==
  /\ phase \in {"serving", "stopped"}
  /\ a \notin connecting
  /\ \A c \in up : raddr[c] # a
  /\ client_id + Cardinality(connecting) < MaxClients
  /\ connecting' = connecting \cup {a}
  /\ UNCHANGED <<serverVars, up, requestVars>>

(* The peer resets its connection, and may then connect from the same       *)
(* address again. The client stays on the list until a callback notices.    *)
Reset(c) ==
  /\ c \in up
  /\ up' = up \ {c}
  /\ UNCHANGED <<serverVars, connecting, requestVars>>

-----------------------------------------------------------------------------
(* remove_client. The operators with an underscore are mutated forms, used  *)
(* only to see that the properties notice them.                             *)

ResumeAccept_Never == accept_watcher

ResumeAccept_OffByOne == accept_watcher \/ client_count = client_limit - 1

ResumeAccept == accept_watcher \/ client_count = client_limit

TimersLeft_NotStopped(c) == timer_watcher

TimersLeft(c) == timer_watcher \ {c}

remove_client(c) ==
  /\ accept_watcher' = ResumeAccept
  /\ client_count' = client_count - 1
  /\ read_watcher' = read_watcher \ {c}
  /\ timer_watcher' = TimersLeft(c)
  /\ clients' = clients \ {c}
  /\ up' = up \ {c}
  /\ UNCHANGED <<phase, client_id, raddr, no_sock, connecting>>

-----------------------------------------------------------------------------
(* accept_cb *)

SuspendAccept_OffByOne == client_count + 1 > client_limit

SuspendAccept == client_count + 1 = client_limit

(* A new client at the head of the list, with both its watchers started.    *)
AddClient(addr) ==
  /\ client_id' = client_id + 1
  /\ client_count' = client_count + 1
  /\ accept_watcher' = (accept_watcher /\ ~SuspendAccept)
  /\ raddr' = [raddr EXCEPT ![client_id + 1] = addr]
  /\ clients' = clients \cup {client_id + 1}
  /\ read_watcher' = read_watcher \cup {client_id + 1}
  /\ timer_watcher' = timer_watcher \cup {client_id + 1}

AcceptReady(a) ==
  /\ phase \in {"serving", "stopped"}
  /\ accept_watcher
  /\ a \in connecting
  /\ connecting' = connecting \ {a}

accept_cb_ok(a) ==
  /\ AcceptReady(a)
  /\ AddClient(a)
  /\ up' = up \cup {client_id + 1}
  /\ UNCHANGED <<phase, no_sock, requestVars>>

(* accept() fails (ECONNABORTED and the like): logged, nothing changes.     *)
accept_cb_failed(a) ==
  /\ AcceptReady(a)
  /\ UNCHANGED <<serverVars, up, requestVars>>

(* accept() fails with EAGAIN because the connection is already gone. The   *)
(* code only returns for other errors: a client is added with sock -1 and   *)
(* an uninitialised address. ev_io_start() then fails its assertion, or, in *)
(* a libev built without assertions, goes on.                               *)
accept_cb_eagain(a) ==
  /\ AcceptReady(a)
  /\ \/ /\ phase' = "abort"
        /\ UNCHANGED <<clients, client_id, client_count, raddr, no_sock,
                       accept_watcher, read_watcher, timer_watcher>>
     \/ /\ \E garbage \in Addrs \cup {NoAddr} : AddClient(garbage)
        /\ no_sock' = no_sock \cup {client_id + 1}
        /\ UNCHANGED phase
  /\ UNCHANGED <<up, requestVars>>

accept_cb(a) == accept_cb_ok(a) \/ accept_cb_failed(a) \/ accept_cb_eagain(a)

-----------------------------------------------------------------------------
(* read_cb and timer_cb *)

NewRequests(c, k) ==
  {[id |-> issued + i, asker |-> c, addr |-> raddr[c]] : i \in 1..k}

(* End of stream, a read error, or more bytes than a request may have. A    *)
(* read that would block changes nothing.                                   *)
read_cb_removes(c) ==
  /\ c \in read_watcher
  /\ remove_client(c)
  /\ UNCHANGED requestVars

(* Data: the k requests it completes go to d->cb, one after the other, and  *)
(* restart the idle timer. If a request too short for a DNS header follows, *)
(* the client is removed.                                                   *)
read_cb_requests(c, k) ==
  /\ c \in read_watcher /\ c \in up
  /\ issued + k <= MaxRequests
  /\ pending' = pending \cup NewRequests(c, k)
  /\ issued' = issued + k
  /\ UNCHANGED sends
  /\ \/ remove_client(c)
     \/ k > 0 /\ UNCHANGED <<serverVars, kernelVars>>

read_cb(c) ==
  /\ phase \in {"serving", "stopped"}
  /\ read_cb_removes(c) \/ \E k \in 0..MaxBatch : read_cb_requests(c, k)

timer_cb(c) ==
  /\ phase \in {"serving", "stopped"}
  /\ c \in timer_watcher
  /\ remove_client(c)
  /\ UNCHANGED requestVars

-----------------------------------------------------------------------------
(* dns_server_tcp_respond *)

Matching(q) == {c \in clients : raddr[c] = q.addr}

(* The first match on the list is the newest one. *)
FindClient_Oldest(q) ==
  CHOOSE c \in Matching(q) : \A other \in Matching(q) : c <= other

FindClient(q) ==
  CHOOSE c \in Matching(q) : \A other \in Matching(q) : c >= other

(* The whole frame is written and the idle timer restarts, or a send fails  *)
(* or gives up after its 50 attempts and the client is removed. Sending on  *)
(* a connection that is gone always fails.                                  *)
SendTo(c, q) ==
  /\ sends' = sends \cup {[asker |-> q.asker, asker_up |-> q.asker \in up, to |-> c]}
  /\ \/ remove_client(c)
     \/ c \in up /\ UNCHANGED <<serverVars, kernelVars>>

(* A response of a length TCP cannot carry, or whose client is gone, is     *)
(* logged and dropped.                                                      *)
DropResponse == UNCHANGED <<serverVars, kernelVars, sends>>

dns_server_tcp_respond(q) ==
  \/ DropResponse
  \/ Matching(q) # {} /\ SendTo(FindClient(q), q)

Respond(q) ==
  /\ phase \in {"serving", "stopped"}
  /\ q \in pending
  /\ pending' = pending \ {q}
  /\ UNCHANGED issued
  /\ dns_server_tcp_respond(q)

-----------------------------------------------------------------------------
(* dns_server_tcp_stop: remove_client for every client, and only then stop  *)
(* accepting, because removing a client may have resumed it.                *)

AcceptAfterStop_StoppedFirst == client_count = client_limit /\ clients # {}

AcceptAfterStop == FALSE

dns_server_tcp_stop ==
  /\ phase = "serving"
  /\ phase' = "stopped"
  /\ clients' = {}
  /\ client_count' = client_count - Cardinality(clients)
  /\ read_watcher' = read_watcher \ clients
  /\ timer_watcher' = timer_watcher \ clients
  /\ accept_watcher' = AcceptAfterStop
  /\ up' = up \ clients
  /\ UNCHANGED <<client_id, raddr, no_sock, connecting, requestVars>>

dns_server_tcp_cleanup ==
  /\ phase = "stopped"
  /\ phase' = "closed"
  /\ connecting' = {}
  /\ UNCHANGED <<clients, client_id, client_count, raddr, no_sock,
                 accept_watcher, read_watcher, timer_watcher, up, requestVars>>

Finished ==
  /\ phase \in {"closed", "abort"}
  /\ UNCHANGED vars

Next ==
  \/ \E a \in Addrs : Connect(a) \/ accept_cb(a)
  \/ \E c \in Ids : Reset(c) \/ read_cb(c) \/ timer_cb(c)
  \/ \E q \in pending : Respond(q)
  \/ dns_server_tcp_stop
  \/ dns_server_tcp_cleanup
  \/ Finished

(* The loop serves a ready listening socket, and an idle timer that nothing *)
(* restarts runs out. The bound on requests makes every client idle at last.*)
Fairness ==
  /\ \A a \in Addrs : WF_vars(accept_cb(a))
  /\ \A c \in Ids : WF_vars(timer_cb(c))

Spec == Init /\ [][Next]_vars

FairSpec == Spec /\ Fairness

-----------------------------------------------------------------------------
(* The variables keep their types: ids are given in order, and every        *)
(* request waiting for an answer came from an address of some client.       *)
TypeOK ==
  /\ phase \in {"serving", "stopped", "closed", "abort"}
  /\ clients \subseteq 1..client_id
  /\ client_id \in 0..MaxClients
  /\ client_count \in Nat
  /\ raddr \in [Ids -> Addrs \cup {NoAddr}]
  /\ no_sock \subseteq Ids
  /\ accept_watcher \in BOOLEAN
  /\ read_watcher \subseteq Ids
  /\ timer_watcher \subseteq Ids
  /\ connecting \subseteq Addrs
  /\ up \subseteq Ids
  /\ pending \subseteq Requests
  /\ issued \in 0..MaxRequests
  /\ sends \subseteq Sends

(* client_count, which accept_cb and remove_client keep by hand, is the     *)
(* length of the list and never passes the limit.                           *)
CountIsExact ==
  /\ client_count = Cardinality(clients)
  /\ client_count <= client_limit

(* While serving, new connections are accepted exactly while there is room: *)
(* the suspend in accept_cb and the resume in remove_client never leave the *)
(* server deaf with free places, nor accepting past the limit.              *)
AcceptsIffRoom ==
  phase = "serving" => (accept_watcher <=> client_count < client_limit)

(* A watcher's data pointer is its client: the active read and idle-timer   *)
(* watchers are those of the listed clients, so none points to a freed one, *)
(* and every listed client will time out if it stays silent.                *)
WatchersOwned ==
  /\ read_watcher = clients
  /\ timer_watcher = clients

(* After dns_server_tcp_stop no TCP watcher keeps the event loop alive, so  *)
(* the final ev_run in main() can end.                                      *)
StopLeavesNoWatcher ==
  phase \in {"stopped", "closed"} =>
    ~accept_watcher /\ read_watcher = {} /\ timer_watcher = {}

(* While the connection that asked is established, the lookup by address in *)
(* dns_server_tcp_respond never picks another peer, even when a dead client *)
(* with the same address is still on the list. A client without a socket    *)
(* may get in the way, but nothing is sent to anybody then.                 *)
AskerGetsItsAnswer ==
  \A s \in sends : s.asker_up => s.to = s.asker \/ s.to \in no_sock

(* A connection in the backlog is accepted, even when it arrives while the  *)
(* server is full and accepting is suspended.                               *)
WaitingIsServed ==
  \A a \in Addrs : a \in connecting ~> (a \notin connecting \/ phase # "serving")
=============================================================================
