# A TLA+ model of https_dns_proxy

`https_dns_proxy` listens for DNS queries over UDP and TCP, sends each one to a
DNS-over-HTTPS resolver with libcurl, and returns the answer. It is one
single-threaded libev program: callbacks never run at the same time, but they run
in any order, and libcurl and c-ares call back into the program from inside the
calls it makes to them. The modules here model the parts that keep state across
callbacks, TLC checks them on small instances, and TLAPS proves every safety
property the passing runs check for every value of the constants.

## Inventory

| Part | Source | State it keeps | Operations |
|---|---|---|---|
| TCP server | `src/dns_server_tcp.c` | client list, `client_count`, `client_id`, accept/read/timer watchers, one input buffer per client | `accept_cb`, `read_cb`, `timer_cb`, `dns_server_tcp_respond`, `_stop`, `_cleanup` |
| UDP server | `src/dns_server.c` | socket and watcher | `watcher_cb`, `dns_server_respond` (with truncation), `_stop` |
| HTTPS client | `src/https_client.c` | list of fetches, 12 `io_events` slots, `connections`, `timer`, `reset_timer`, curl handles | `https_client_fetch`, `_reset`, `_cleanup`, `sock_cb`, `timer_cb`, `reset_timer_cb` and the curl callbacks |
| Bootstrap poller | `src/dns_poller.c` | `timer`, `request_ongoing`, one slot per name server | `timer_cb`, `sock_cb`, `sock_state_cb`, `ares_cb`, `_cleanup` |
| Main program | `src/main.c` | `app.resolv`, `using_dns_poller`, one `request_t` per query | `dns_server_cb`, `https_resp_cb`, `dns_poll_cb`, the signals, the two `ev_run`s |
| Statistics | `src/stat.c` | counters and their timer | counting calls, `stat_timer_cb`, stop, cleanup |
| Logging, flight recorder | `src/logging.c`, `src/ring_buffer.c` | level, file, ring buffer, flush timer, SIGUSR2 watcher | log, dump, init, cleanup |
| Options | `src/options.c` | the options | parse at start |

How they interact: a server hands a query to `dns_server_cb`, which allocates a
`request_t` and calls `https_client_fetch`; the client later calls `https_resp_cb`,
which answers through the server and frees the request. The poller calls
`dns_poll_cb`, which replaces the address list curl is given and resets the client.
On a signal `main` stops the poller and the servers and runs the loop a second time
until no watcher is left.

What is hard about it: the answer comes seconds after the query, when the TCP client
may be gone or have come back from the same port; a reset may end requests from
inside the call that submits one; counts and slots are kept by hand in pairs of
callbacks; one-shot timers must be started again on every path; TCP data comes in
pieces of any size; a response is shortened by estimates while c-ares may fail at
any step; addresses are compared as text; and the shutdown ends only if every part
gives up its watchers. `PROJECT.json` lists these hazards with the lines where they
bite.

## Modules

| Module | Models | State and actions |
|---|---|---|
| `DnsServerTcp` | TCP clients, limit, routing, stop | Variables carry the names of the fields. The linked list is a set of ids: new clients go to the head, so it is always sorted by descending id, and the first match is the largest id. One action per callback outcome. `connecting`, `up`, `Connect` and `Reset` are the kernel and the peers. |
| `TcpInput` | `read_cb` and `get_dns_request` on one client's byte stream | Byte counts and length prefixes, with the code's 16-bit arithmetic. The numbers are constants, so that a "byte" may have 4 values and TLC tries every stream and every way to cut it. One action per round of the loop that doubles the buffer and of the loop over `get_dns_request`. A request taken before it has arrived ends the model (`overread`), or, if its size has wrapped to 0, is taken again and again (`endless`). |
| `TcpOutput` | the send loop of `dns_server_tcp_respond` | One action per outcome of `send()`. |
| `DnsServer` | the UDP server: a query, its EDNS size, the response and its truncation | `step` says where `truncate_dns_response` is. A response has a length, numbers of records, and `written[k]`, the length c-ares needs for its first `k` answers. |
| `Responses` | `https_resp_cb` over `DnsServer` and `TcpOutput` | The two servers answer side by side; a respond function that has begun runs to its end before the loop goes on (`Busy`). |
| `HttpsClient` | fetches, slots, connections, timers, reset | `ctl` says where the thread is: in the loop, inside `curl_multi_socket_action`, or in `check_multi_info`. Inside curl, the client's callbacks come in any order curl may choose. |
| `FetchService` | what the HTTPS client promises | Each request is submitted once and then replied to or dropped, once; while one is pending the client has a watcher in the loop (`active`), unless the multi handle has died (`dead`). `HttpsClient` implements it; the actions of `Proxy` are made of its actions. |
| `ResetTimer` | the time until the client resets itself (`-L`) | Extends `HttpsClient`: every step of the client, with libev's `w->at` of `reset_timer` in seconds, and `Second`, in which time passes. |
| `AddrList` | `get_addr_listing` and `addr_list_reduced` | Texts are sequences of characters, since the code cuts and searches them; `Addresses` is the set a text stands for, `Joined` what a buffer without bound would hold. |
| `DnsPoller` | the bootstrap poller | `ctl` as above, for calls into c-ares; the text given to `dns_poll_cb`. `dns_poller_cleanup` is a call into c-ares too: `ares_destroy` closes sockets through `sock_state_cb` and calls `ares_cb` with `ARES_EDESTRUCTION`. |
| `Stat` | the counters of `stat.c` | Operators that the actions of `Proxy` use. |
| `Proxy` | `main.c` over `FetchService`, `AddrList` and `Stat` | Life of requests, address lists (with `curl_slist_append` failing), statistics and the systemd message; signal, drain and exit. |
| `Options` | the command line | `AfterArgs` takes the options `getopt` returns one after another; then the checks. |
| `RingBuffer` | the flight recorder's buffer | Operators on a record with the fields of `struct ring_buffer`. |
| `Logging` | logging from start to exit, over `Options` and `RingBuffer` | Messages are numbered. One action per message, flush, signal and dump, the one `multi_sock_cb` makes without a signal included; start, drain and end. |
| `DnsServerTcpProofs`, `TcpInputProofs`, `ResponsesProofs`, `HttpsClientProofs`, `AddrListProofs`, `DnsPollerProofs`, `ProxyProofs`, `LoggingProofs` | | The theorems about the module of that name. Those about `ResetTimer` are in `HttpsClientProofs`; those about `Options` and `RingBuffer` are in `LoggingProofs`. |

`MC*` modules are the small instances TLC runs. Definitions with an
underscore suffix (`ResumeAccept_OffByOne`) are mutated forms of the definition
they precede; no specification uses them. Replacing a definition by its mutated form
must break the property it is paired with in `PROJECT.json`.

Behaviour of code outside the repository is modelled from how the source uses it:
the kernel's sockets, libev (a timer's `at` field is relative while it is stopped,
and `ev_io_start` asserts a valid descriptor), libcurl (when a callback fails the
multi handle is dead until no transfer is left; the `CURLOPT_RESOLVE` list is not
copied and is read when the transfer starts) and c-ares (it works only inside calls
made to it; parsing, deleting and writing records may fail).

## Runs

Passing runs:

| Run | What it shows |
|---|---|
| `tcp_clients` | Count, accept watcher and client watchers agree with the list through every order of accept, read, timeout, response and stop; nothing is left after the stop. A response never goes to another peer while the asker is connected, though a peer may reconnect from its address while its old client is still listed. A connection waiting in the backlog is accepted. |
| `tcp_input` | The stream is reassembled in order however it is cut, nothing complete is held back, the buffer is always large enough, and a client is removed only for a request too short or too long. Announced lengths with the largest high byte are excluded from `WholeRequestsBelowLimit`; see below. |
| `responses` | A UDP response fits what the client accepts, keeps an answer if one fits with a byte to spare, and is flagged exactly if it was too large, with c-ares failing anywhere; a TCP client that stays connected has whole frames; and the event loop always gets control back. |
| `https_fetches` | Each callback runs at most once; curl's handles, the list, the slots and the connection count agree; the socket limit protects the slots as long as they poll only sockets opened through `opensocket_callback`; the client implements `FetchService`; each fetch gets its callback, unless the multi handle is dead (then the next fetch resets the client). The reset after a timeout is not put off by more timeouts, and is cancelled only when no socket is left open. |
| `dns_poller` | The timer always runs, there is one query at a time, slots follow sockets, the text of the addresses is exact up to the size of its buffer, the callbacks from `ares_destroy` start nothing, and if c-ares calls back for every query polling never ends. |
| `proxy_requests` | Requests are freed once; while the program runs no fetch keeps a freed list; the addresses in use are still served although lists are compared as text; the statistics lose and repeat nothing; systemd is told at most once and not too early, also if a list cannot be allocated; the drain waits for every fetch and ends, unless the multi handle is dead. |
| `logging` | For every log level, file and recorder size the command line leads to, the recorder holds the last messages, every line is flushed, and a SIGUSR2 in the loop is followed by a dump that ends with a newer message. |

Runs that end in a violation, each a disagreement between the code and what the
repository says of it (`findings` in `PROJECT.json` quotes both):

| Run | What happens |
|---|---|
| `tcp_input_whole` | Frame sizes are computed in 16 bits, and the prefix is read before both its bytes have arrived. A size that wraps to 0 takes nothing from the buffer, and the loop of `read_cb` does not end. |
| `responses_exact_fit` | The loop over the answers stops at `<` the limit, not `<=`: a response whose first answer fits exactly loses it, although the comment says "try to keep 1 answer". |
| `reset_timer_tolerance` | A restarted reset timer has only what was left of its time. This rests on libev's handling of `at`, which is not part of this repository. |
| `dns_poller_silent` | If c-ares does not call back for a query, `request_ongoing` stays set, and `ares_cancel`, which the comment above it means for this case, is never reached. No other query is made. |
| `proxy_resolv_list` | The address list is freed before the drain, in which a fetch may still start. |

Other points the model makes visible, and the properties allow for:

- `accept_cb` goes on when `accept()` fails with EAGAIN and lists a client with
  socket -1 and an uninitialised address (`no_sock`). It takes a place of the limit
  until its idle timer removes it.
- On EAGAIN the send loop of `dns_server_tcp_respond` runs into `continue`, which
  skips the `usleep`: the comments "retry after delay" and "25ms max wait" do not
  describe a full socket buffer, for which the 50 attempts follow at once.
- The loops that remove additional and authority records have no guard, unlike the
  one over the answers; `RespondReturns` assumes that c-ares removes a record that is
  there. The guard of the answers' loop (255 rounds)
  is reached only after a removal has failed.
- `get_addr_listing` leaves out an address that would leave one byte of the buffer
  behind it, although the terminator needs no more: of 64 addresses of 15 characters
  the last is left out. `ListingIsExact` says so.
- If `curl_slist_append` fails in `dns_poll_cb`, `app.resolv` is NULL again and queries
  are discarded until the next answer, after systemd has been told that the program
  is ready (`append_failed`).
- With an HTTP proxy that resolves names no READY message is ever sent, although
  queries are served (`ReadyIsExact`).
- A multi handle that dies in the drain is not revived, since no fetch comes. Fetches
  may then be left to `https_client_cleanup`, or the drain may not end by itself;
  `DrainLosesNothing` and `ShutdownEnds` except a dead handle.
- `addr_list_reduced` looks at the first place where an address occurs in the new
  text. If that is inside a longer address it reports a change although there is
  none, and the client is reset without need. It never misses a change.
- If the log file cannot be opened, `logging_init` sets neither the level nor the
  recorder, and lines go to standard output.
- After a failed `malloc` the ring buffer has an empty entry where the oldest one
  was; a dump at that moment (the fatal "Out of mem" message) prints it.
- SIGUSR2, before `logging_events_init` or in the drain, ends the process, since its
  watcher is not active; so do SIGINT and SIGTERM in the drain (`ForcedExit`).
- The option `-e` is accepted by `getopt` and then ends in a parsing error.
- In `sock_cb` the reset that is to recover from an error follows an `FLOG`, which
  ends the program (`ctl = "exit"`).
- A timeout message read after the last connection has closed starts the reset timer
  with no connection open.
- `multi_sock_cb` dumps the flight recorder when no slot is free. By
  `SlotsNeverRunOut` that takes a descriptor curl opens without
  `opensocket_callback`.

## Bounds

- `DnsServerTcp`: limit 2, three connections, two addresses, two requests. Three
  connections pass the limit once and let one address be used again while its first
  client is still listed.
- `TcpInput`: bytes of 4 values, so lengths 0..15, header 2, buffer from 2, `recv()`
  of at most 5, up to three requests. The wrap at the largest lengths, several
  requests in one read and every split of a prefix occur.
- `Responses`: the code's numbers (512, 4096, 50 attempts, 255 rounds). Queries
  without an OPT record, with sizes at and beside 512, and unparsable ones; responses
  at and beside the limits with 0 to 12 answers; TCP responses of up to three bytes.
- `HttpsClient`: two requests, limit 2 with three descriptors (so the limit is met),
  one descriptor curl opens by itself, one byte of response (so a second one is too
  large).
- `ResetTimer`: one second beside the bounds of `HttpsClient`, so that the timer is
  stopped before it and expires after it. `reset_timer_tolerance` has two sockets and
  three seconds, so that the timer is stopped with time left, too.
- `DnsPoller`: three name servers and up to three sockets; answers of up to three
  addresses of one to four characters, for a buffer of ten (so it overflows).
- `Proxy`: a UDP and a TCP request, up to three lists; answers in which an address is
  part of another one and comes alone, before, behind and without it; with and without
  statistics; all three configurations (poller, literal address, resolving proxy) are
  initial states.
- `Logging`: recorder sizes of 3 and 4 instead of 100 to 100000, seven messages (so
  the buffer wraps), two signals and two failures of `malloc`, at any time; command
  lines with every level, a file that cannot be opened, and every kind of error.

No run uses symmetry, as most check liveness too.

## Fairness

- libev runs a ready callback, and an expired timer in the same round as ready
  sockets: fairness of `timer_cb`, of the TCP server's callbacks, of the flush timer
  and of the recorder's dump.
- A callback that is entered returns: fairness of the `ctl` steps and of
  `RespondStep`. `RespondStep` includes the failures of `send()` and c-ares.
- `CURLOPT_TIMEOUT` ends every transfer: strong fairness of `TransferDone`, which can
  only happen inside curl.
- Nothing is assumed of c-ares: the source itself says that it "can't be depended on"
  to call back. `PollsAgain` fails for that reason (`dns_poller_silent`), and
  `PollsAgainIfCalledBack` has the callback as its premise. Nothing is assumed of the
  time of `reset_timer` either: it has safety properties only.
- In `Proxy`, a pending fetch ends as long as the multi handle is alive
  (`SomeFetchEnds`); `FetchAnswered` of `HttpsClient` is that fact. A client without
  fetches loses its last watcher (`ClientGoesIdle`); this is an assumption about
  libcurl, which polls sockets and sets its timer for transfers only, and about
  `reset_timer`, which is one-shot. In `Logging`, `main` reaches its end;
  `ShutdownEnds` of `Proxy` is that fact, for a multi handle that is alive.

## Proofs

Each theorem is named in `PROJECT.json`. They hold for every value of the constants
that meets the named assumptions in the modules, which say that bounds and counts
are natural numbers, that sets of requests and descriptors are finite, what a
response and an answer of c-ares look like, that a comma is no character of an
address, and that `strtoul` returns a number without sign.

**Induction.** The loops of the code are recursive functions here
(`f[n \in 0..N]`), and what they compute is proved by induction over `n`. The
induction lemma is `SetInduction`: a set that holds 0 and the successor of each of
its members holds every natural number, as the least number left out would
contradict it. Each function has a lemma that it satisfies its defining equation
(`WireSizeDef`, `AfterNodesDef`, `JoinedDef`, `AfterArgsDef`); its proof builds the
solution up to `n + 1` from the one up to `n`.

**Loops that end.** `ReadStepsAreBounded` and `RespondStepsAreBounded` are the safety
half of termination: every step of the loops decreases `StepsLeft`, a natural
number, so that they cannot go on for ever. That they do go on is fairness.
`ReadStepsAreBounded` holds for clients that announce no length with the largest high
byte (`BelowLimit`). For the others it would be false: a request whose size has wrapped
to 0 is met again (`same_request_again`).

**Safety halves of liveness.** What the prover cannot do is fairness; what it can do is
show that fairness has something to work on. For each liveness property there is a
theorem that whoever waits has the watcher, timer or step it waits for, or that each
step brings the end nearer:

| Property | Theorem |
|---|---|
| `WaitingIsServed` | `AcceptCorrect`: with room, the accept watcher is active |
| `FetchAnswered` | `WaitingFetchesAreTimed`: a waiting fetch has curl's timer, or the multi handle is dead |
| `PollsAgainIfCalledBack` | `TimerRuns`: in the loop the timer always runs, for the next poll or for the query under way |
| `ShutdownEnds` | `DrainIsBounded`: every step of the drain ends the program, leaves less, or changes only the client's watchers |
| `RespondReturns` | `RespondStepsAreBounded` |
| `LinesAreFlushed` | `NoLineIsForgotten`: a line in the buffer has the flush timer or the end of `main` |
| `SignalLeadsToDump` | `SignalsAreDumped`: a signal taken is not forgotten, and its dump ends with a newer message |

**Where the violations end.** Each violation is shown to be confined to the case
TLC found. `WholeRequestsBelowLimit`: below the largest high byte requests are whole.
`KeepsAnAnswerBelowLimit`: an answer that fits with a byte to spare is kept.
`OnlyStopsShorten`: the time tolerated shrinks only when a running timer is stopped.
`ListsAreFoundInLoop`: before the shutdown every transfer finds its list.
That every query is called back is all `PollsAgain` lacks is left to TLC
(`PollsAgainIfCalledBack`).

**`DnsServerTcpProofs`** proves `TypeOK`, `CountIsExact`, `AcceptsIffRoom`,
`WatchersOwned`, `StopLeavesNoWatcher` and `AskerGetsItsAnswer`.
These are not inductive alone. `IInv` adds `ListMatchesKernel`: an
established connection belongs to a listed client with a real address (otherwise a
read could hand on a request with no address), ids suffice for the backlog, and
nothing is listed after the stop (otherwise `remove_client` could start the accept
watcher again). `RemoveKeepsIInv` and `AddKeepsIInv` carry the argument for the two
functions that change the list, and each action cites one of them.
Routing needs a second invariant. A response goes to the listed client with the
largest id among those with its address; it is the asker because an established
connection's client is the youngest with its address (`Routing`): an address has one
live connection, so any later client with that address was accepted after the
earlier connection had ended. Clients listed by a failed `accept()` have an
uninitialised address and are left out of the argument: a response that meets one
of them is sent to nobody.

**`TcpInputProofs`** proves `BufferHolds`, `WholeRequestsBelowLimit`,
`NothingHeldBack` and `RemovedForCause`, for every size of a byte, of the buffers and
of the pieces. The core of its `Inv` is `NothingLost`: the bytes received
are those the requests handed on took on the wire (`WireSize`) and those in the
buffer. So the first two bytes of the buffer are the prefix of the next request,
once both are there. `PrefixRead` says what `get_dns_request` makes of them, and
`HighByteRead` of a prefix of which one byte has arrived, where the other byte is an
old one: with a high byte below the largest the size cannot wrap, and the request
counts as partial. `OverreadForCause` keeps track of the other case, the one
`tcp_input_whole` shows. `ReadStepsAreBounded` counts the bytes by which the buffer is
still too small and those `get_dns_request` has not looked at; that
`same_request_again` is out of its way follows from `NoOverreadBelowLimit`.

**`ResponsesProofs`** proves `UdpResponseFits`, `KeepsAnAnswerBelowLimit`,
`TruncationIsFlagged` and `StreamStaysFramed`. The hard one is the first: the loop
over the answers might be ended by its guard with a response that is still too
large. `RoundInv` bounds `answers_to_keep` in round `g` by a number halved `g`
times, and the answers left, unless a removal failed, by the round before; 16
halvings leave nothing of the at most 65535 answers, and a response without answers
has at most 271 bytes. So the guard is not what ends the loop.
`RespondStepsAreBounded` counts the records left to remove, the rounds up to the
guard, and the attempts to send. Like `RespondReturns` it assumes that c-ares removes
an additional or authority record that is there; a removal that fails is a stutter.

**`HttpsClientProofs`** proves `CallbackOnce`, `HandlesMatchFetches`,
`SlotsPollOpenSockets`, `ConnectionsAccounted`, `SlotsNeverRunOut`, `TypeOK`, and
that the client implements `FetchService` (`ClientImplementsService`). `FetchInv`
holds the list, the handles and the outcomes together; the slots (`SlotInv`) and,
on top of them, the connection count (`ConnInv`) need nothing of it. That a slot is free is a
counting argument: an injection of the slots into the other open sockets would
contradict the limit. For the refinement, every step changes the outcome of one
fetch as `FetchService` allows, ends all of them (reset), or leaves them alone; and
`active` is mapped to `HasWatcher`: a timer or a polled socket, or a thread that is in
a callback of one. That a pending fetch has one follows from `Armed`, below.

For `WaitingFetchesAreTimed` the invariant is `Armed`: with a live transfer `timer` is
active whenever the thread is in the loop or in `check_multi_info`. It may stop inside
curl, and it is curl's return that must find it started again. `ResetIsCancelledForCause`, which proves `ResetStaysDue`,
needs `ConnInv`: `closesocket_callback` stops `reset_timer` when `connections` is 0, and
only since the count is never below the number of open sockets does that mean that
none is open. A `close()` that failed stays counted, so that the timer may go on
although no socket is open, never the other way round.

Of `ResetTimer` the module proves `ResetNotLate` (`ResetIsNotLate`), for every
`conn_loss_time`, by extending its bound to a stopped timer (`TimerInv`).
`TimedClientIsClient` shows that the timed client implements the untimed one, so that
the theorems about `HttpsClient` hold with the time, too.

**`AddrListProofs`** is about texts of any length and characters. `ListingIsJoined`:
`get_addr_listing` writes the addresses of the first nodes, whole and joined by
commas, stops only where the next one does not fit, and stays within the buffer. Its
`LoopInv` says that the buffer holds the joined text and a separator until an address
does not fit, and what was there before that afterwards. `KeptAddressesAreServed`: if
`addr_list_reduced` reports no change, every address of the old text is one of the
new. `StoredAddressesAreAnswers` goes back from text to addresses: the pieces between
the commas of the text `dns_poll_cb` stores are addresses of the answer.

**`DnsPollerProofs`** proves `TimerKeepsRunning`, `OneQuery`, `SlotsFollowSockets`,
`CleanupOnlyStops` and, from `ListingIsJoined`, `ListingIsExact`. `TimerInv` says what
holds of the timer while c-ares has control, in particular between an `ares_cb` called
at once and the return of `timer_cb`. The slots are counted as above. That none is left
after `dns_poller_cleanup` follows from `SlotInv`: slots follow sockets, and
`ares_destroy` returns when c-ares has closed them all.

**`ProxyProofs`** proves `RequestFreedOnce`, `FetchesUseCurrentList`,
`ReadyMeansServing`, `StatsAddUp`, `AddressesStillServed` and `DrainLosesNothing`. `RequestInv` ties the
memory of a request to the state of its fetch; `ListInv` says that freed lists are
older than the current one and that pending fetches have the current one, which
is what the reset in `dns_poll_cb` is for. `AddressesAreServed` joins the theorems of
`AddrListProofs`: a new list holds addresses of the last answer, and a list that is
kept holds some of the new one. `ReadyIsExact` says when systemd has been told, in each
of the three configurations: exactly when queries are served or a list could not be
allocated, and never with an HTTP proxy that resolves names.
For the drain, `DrainInv` says that neither the servers' watchers nor the statistics'
timer are active in it, so that no request is added, and that pending fetches keep a
watcher active unless the multi handle is dead (`Watched` of `FetchService`).
`DrainIsComplete` follows: a loop without watchers has no fetch left to wait for.
`DrainLeft` counts the pending fetches and those whose transfer has not started.

**`LoggingProofs`** proves `RecorderHoldsTheLast`. `HoldsEnd` relates the buffer to
the sequence of all messages; `PushHolds` and `FailedPushHolds` show that
`ring_buffer_push_back` keeps the relation, with the wrap of `next` in
`SlotsRotate`, and `DumpShowsEnd` that `ring_buffer_dump` reads it off.
`RecorderIsBounded` follows the size from the command line to the buffer: whatever the
options and their order, a recorder has the size `-F` asked for, within the limits.
`LoopInv` says what holds in every round of the `getopt` loop: the size is a number,
the level is one that `-v` reaches, and nothing succeeds before the checks.
`NoLineIsForgotten` joins three places that have to agree on `LOG_FLUSH_LEVEL`
(`FlushInv`): `logging_events_init` leaves the timer out if no line can stay unflushed,
`_log` leaves only lines below that level unflushed, and a level that is written at
all is at least that of the file. `SignalsAreDumped` reads the end of the dump off
`HoldsEnd`.

Only model-checked, since the prover has no rules for fairness: that what the table
above shows to be possible does happen, which is what the liveness properties
`WaitingIsServed`, `FetchAnswered`, `PollsAgainIfCalledBack`, `ShutdownEnds`,
`RespondReturns`, `LinesAreFlushed` and `SignalLeadsToDump` say. The violations are
TLC's counterexamples.

## Not modelled

- `stat.c`: the counts of connections, the sizes and the latencies. They are summed
  in the same places as the counts that are modelled and nothing depends on them.
- `https_client.c`: request headers, HTTP version fallback, TLS options, the log
  output of `https_log_data` and `https_curl_debug`.
- Opening the listening sockets, the source address option, dropping privileges, the
  usage and version texts: done once at start, in a straight line, with an exit on
  failure.
- The text of log messages, the munin plugin, the build files and the test suite
  hold no state the properties could be about.
