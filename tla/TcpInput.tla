------------------------------ MODULE TcpInput ------------------------------
(***************************************************************************)
(* How read_cb and get_dns_request (src/dns_server_tcp.c) cut the byte     *)
(* stream of one TCP client into DNS requests: each is preceded by its     *)
(* length in two bytes, and recv() may return the bytes in pieces of any   *)
(* size. Only the number of bytes and the length prefixes matter here.     *)
(*                                                                         *)
(* The numbers of the code are constants, so that TLC can try every stream *)
(* and every way to cut it with bytes of fewer than 8 bits.                *)
(***************************************************************************)
EXTENDS Integers, Sequences

CONSTANTS
  Byte,                     \* values of a byte: 256
  DNS_HEADER_LENGTH,        \* 12
  DNS_REQUEST_BUFFER_SIZE,  \* 4096, the most one recv() returns
  FirstBufferSize,          \* 64, the size the input buffer starts from
  FrameSizes,               \* lengths a client may announce
  MaxFrames                 \* bound: requests a client sends

UINT16_MAX == Byte * Byte - 1
PrefixSize == 2                                 \* sizeof(uint16_t)
TCP_DNS_MAX_PAYLOAD == UINT16_MAX - PrefixSize

ASSUME SizesAssumption ==
  /\ Byte \in Nat /\ Byte >= 2
  /\ FrameSizes \subseteq 0..UINT16_MAX
  /\ FirstBufferSize \in Nat \ {0} /\ DNS_HEADER_LENGTH \in Nat \ {0}
  /\ DNS_REQUEST_BUFFER_SIZE \in 1..TCP_DNS_MAX_PAYLOAD
  /\ MaxFrames \in Nat

VARIABLES
  stream,            \* what the client sends: the announced lengths, in order
  received,          \* bytes of it that recv() has returned
  needed_space,      \* local variable of read_cb; 0 when it is not used
  input_buffer_used,
  input_buffer_size,
  forwarded,         \* lengths of the requests handed to d->cb, in order
  status             \* see Statuses

vars == <<stream, received, needed_space, input_buffer_used, input_buffer_size,
          forwarded, status>>

(* "open": between two callbacks; "growing", "splitting": in the two loops  *)
(* of read_cb, during which nothing else runs; "removed": remove_client has *)
(* been called; "fatal": FLOG; "overread", "endless": a request counts as   *)
(* whole that is not, see below.                                            *)
Statuses == {"open", "growing", "splitting", "removed", "fatal", "overread", "endless"}

(* Bytes the first n requests take on the wire. *)
WireSize[n \in 0..Len(stream)] ==
  IF n = 0 THEN 0 ELSE WireSize[n - 1] + PrefixSize + stream[n]

Init ==
  /\ stream \in UNION {[1..n -> FrameSizes] : n \in 1..MaxFrames}
  /\ received = 0
  /\ needed_space = 0
  /\ input_buffer_used = 0
  /\ input_buffer_size = 0
  /\ forwarded = <<>>
  /\ status = "open"

-----------------------------------------------------------------------------
(* read_cb up to the loops, when recv() returns len bytes. *)

TooLarge_Early(len) ==
  input_buffer_used + len + DNS_REQUEST_BUFFER_SIZE > TCP_DNS_MAX_PAYLOAD

TooLarge(len) == input_buffer_used + len > TCP_DNS_MAX_PAYLOAD

HasRoom_IgnoresUsed(len) == input_buffer_size >= len

HasRoom(len) == input_buffer_size - input_buffer_used >= len

read_cb_too_large(len) ==
  /\ TooLarge(len)
  /\ status' = "removed"
  /\ UNCHANGED <<needed_space, input_buffer_used, input_buffer_size>>

read_cb_fits(len) ==
  /\ ~TooLarge(len)
  /\ HasRoom(len)
  /\ input_buffer_used' = input_buffer_used + len
  /\ status' = "splitting"
  /\ UNCHANGED <<needed_space, input_buffer_size>>

read_cb_grows(len) ==
  /\ ~TooLarge(len)
  /\ ~HasRoom(len)
  /\ needed_space' = input_buffer_used + len
  /\ input_buffer_size' = FirstBufferSize
  /\ status' = "growing"
  /\ UNCHANGED input_buffer_used

read_cb(len) ==
  /\ status = "open"
  /\ received + len <= WireSize[Len(stream)]
  /\ received' = received + len
  /\ read_cb_too_large(len) \/ read_cb_fits(len) \/ read_cb_grows(len)
  /\ UNCHANGED <<stream, forwarded>>

-----------------------------------------------------------------------------
(* The loop that doubles input_buffer_size until needed_space fits. *)

TooBigToDouble(size) == size > TCP_DNS_MAX_PAYLOAD

double_buffer ==
  /\ input_buffer_size < needed_space
  /\ IF TooBigToDouble(input_buffer_size)
     THEN status' = "fatal" /\ UNCHANGED input_buffer_size
     ELSE input_buffer_size' = 2 * input_buffer_size /\ UNCHANGED status
  /\ UNCHANGED <<needed_space, input_buffer_used>>

resized ==
  /\ input_buffer_size >= needed_space
  /\ input_buffer_used' = needed_space
  /\ needed_space' = 0
  /\ status' = "splitting"
  /\ UNCHANGED input_buffer_size

grow_buffer ==
  /\ status = "growing"
  /\ double_buffer \/ resized
  /\ UNCHANGED <<stream, received, forwarded>>

-----------------------------------------------------------------------------
(* The loop over get_dns_request. The first two bytes of the buffer when n  *)
(* requests have been cut off and used bytes are left. get_dns_request      *)
(* reads them before it looks at used: bytes not received yet are those of  *)
(* the previous prefix, which memmove left in place, or, in a fresh buffer, *)
(* garbage.                                                                 *)
OldLowByte(n, garbage) == IF n = 0 THEN garbage ELSE stream[n] % Byte

ReadPrefix(n, used, garbage) ==
  CASE used >= 2 -> stream[n + 1]
    [] used = 1 -> (stream[n + 1] \div Byte) * Byte + OldLowByte(n, garbage)
    [] used = 0 -> stream[n]

(* uint16_t data_size *)
DataSize(req_size) == (PrefixSize + req_size) % (UINT16_MAX + 1)

IsPartial_WithoutPrefix(req_size, used) == req_size > used

IsPartial_OffByOne(req_size, used) == DataSize(req_size) >= used

IsPartial(req_size, used) == DataSize(req_size) > used

partial_request(req_size) ==
  /\ IsPartial(req_size, input_buffer_used)
  /\ status' = "open"
  /\ UNCHANGED <<input_buffer_used, forwarded>>

(* A request of which not all bytes have been received is copied from       *)
(* beyond them. If data_size has wrapped to 0 nothing is taken from the     *)
(* buffer, and the loop comes to the same request again; otherwise the      *)
(* model stops, since anything may follow.                                  *)
overread_request(req_size) ==
  /\ ~IsPartial(req_size, input_buffer_used)
  /\ PrefixSize + req_size > input_buffer_used
  /\ status' = IF DataSize(req_size) = 0 THEN "endless" ELSE "overread"
  /\ forwarded' = Append(forwarded, req_size)
  /\ UNCHANGED input_buffer_used

whole_request(req_size) ==
  /\ ~IsPartial(req_size, input_buffer_used)
  /\ PrefixSize + req_size <= input_buffer_used
  /\ input_buffer_used' = input_buffer_used - DataSize(req_size)
  /\ IF req_size < DNS_HEADER_LENGTH
     THEN status' = "removed" /\ UNCHANGED forwarded
     ELSE forwarded' = Append(forwarded, req_size) /\ UNCHANGED status

get_dns_request ==
  /\ status = "splitting"
  /\ \E garbage \in 0..(Byte - 1) :
       LET req_size == ReadPrefix(Len(forwarded), input_buffer_used, garbage)
       IN  \/ partial_request(req_size)
           \/ overread_request(req_size)
           \/ whole_request(req_size)
  /\ UNCHANGED <<stream, received, needed_space, input_buffer_size>>

(* The loop hands on the request that it did not take from the buffer, time *)
(* after time; forwarded records the first one only.                        *)
same_request_again ==
  /\ status = "endless"
  /\ UNCHANGED vars

(* The client has sent everything, or is gone. *)
Finished ==
  /\ \/ status \in {"removed", "fatal", "overread"}
     \/ status = "open" /\ received = WireSize[Len(stream)]
  /\ UNCHANGED vars

Next ==
  \/ \E len \in 1..DNS_REQUEST_BUFFER_SIZE : read_cb(len)
  \/ grow_buffer
  \/ get_dns_request
  \/ same_request_again
  \/ Finished

Spec == Init /\ [][Next]_vars

-----------------------------------------------------------------------------
(* memcpy appends within the buffer: it has been grown far enough, it never *)
(* holds more than the longest request, and the                             *)
(* "Unrealistic input buffer size" exit is never taken.                     *)
BufferHolds ==
  /\ status # "growing" => input_buffer_used <= input_buffer_size
  /\ input_buffer_used <= TCP_DNS_MAX_PAYLOAD
  /\ status # "fatal"

(* "check if whole request is available": the requests handed on are those  *)
(* the client sent, in order, each only when all its bytes have arrived.    *)
WholeRequests ==
  /\ status \notin {"overread", "endless"}
  /\ forwarded = SubSeq(stream, 1, Len(forwarded))

(* No length is announced whose high byte has its largest value (65280      *)
(* bytes and more).                                                         *)
BelowLimit == \A i \in DOMAIN stream : stream[i] < Byte * (Byte - 1)

(* WholeRequests for clients that announce no length with the largest high  *)
(* byte, of which get_dns_request may wrap the size.                        *)
WholeRequestsBelowLimit == BelowLimit => WholeRequests

(* However the stream is cut, the loop leaves no complete request in the    *)
(* buffer: a client is never kept waiting for a request that has arrived.   *)
NothingHeldBack ==
  status = "open" =>
    \A n \in 1..Len(stream) : WireSize[n] <= received => n <= Len(forwarded)

(* A client that is removed announced a request too short for a header, or  *)
(* one too long to be held beside what one recv() returns.                  *)
RemovedForCause ==
  status = "removed" =>
    \E i \in DOMAIN stream :
      \/ stream[i] < DNS_HEADER_LENGTH
      \/ PrefixSize + stream[i] + DNS_REQUEST_BUFFER_SIZE > TCP_DNS_MAX_PAYLOAD
=============================================================================
