--------------------------- MODULE TcpInputProofs ---------------------------
(***************************************************************************)
(* Proofs about TcpInput for every size of a byte and of the buffers, and  *)
(* for streams of any number of requests. What has been received is what   *)
(* the requests cut off took on the wire and what the buffer holds: that   *)
(* is the invariant from which the others follow.                          *)
(***************************************************************************)
EXTENDS TcpInput, WellFoundedInduction, SequenceTheorems, TLAPS

(* Induction with a set in place of the predicate: a set that holds 0 and   *)
(* the successor of each of its members holds every natural number. The     *)
(* least number left out would be the successor of one that is not.         *)
LEMMA SetInduction ==
  ASSUME NEW S, 0 \in S, \A n \in Nat : n \in S => n + 1 \in S
  PROVE  \A n \in Nat : n \in S
<1> DEFINE T == {n \in Nat : n \notin S}
           R == OpToRel(<, Nat)
<1>1. SUFFICES ASSUME T # {} PROVE FALSE
  OBVIOUS
<1>2. IsWellFoundedOn(R, Nat)
  BY NatLessThanWellFounded
<1>3. \A x, y \in Nat : x < y => <<x, y>> \in R
  BY DEF OpToRel
<1> HIDE DEF R
<1>4. PICK x \in T : \A y \in T : ~(<<y, x>> \in R)
  BY <1>1, <1>2, WFMin
<1>5. \A y \in T : ~(y < x)
  BY <1>3, <1>4, Zenon
<1>6. x # 0 /\ x \in Nat
  OBVIOUS
<1>7. x - 1 \in Nat /\ x - 1 < x /\ (x - 1) + 1 = x
  BY <1>6
<1>8. x - 1 \in S
  BY <1>5, <1>7
<1> QED BY <1>7, <1>8
-----------------------------------------------------------------------------
(* The sizes as plain numbers, without the product that defines them. *)
LEMMA SizesAreNumbers ==
  /\ UINT16_MAX \in Nat
  /\ UINT16_MAX >= 3
  /\ TCP_DNS_MAX_PAYLOAD = UINT16_MAX - 2
  /\ Byte * (Byte - 1) <= UINT16_MAX - 1
<1>1. Byte \in Nat /\ Byte >= 2
  BY SizesAssumption
<1>2. Byte * Byte >= 2 * Byte
  BY <1>1, SMT
<1>3. Byte * (Byte - 1) = Byte * Byte - Byte
  BY <1>1, SMT
<1>4. Byte * Byte \in Nat
  BY <1>1, SMT
<1> DEFINE b == Byte
           bb == Byte * Byte
           bc == Byte * (Byte - 1)
<1> SUFFICES /\ bb - 1 \in Nat
             /\ bb - 1 >= 3
             /\ bc <= bb - 1 - 1
  BY DEF UINT16_MAX, TCP_DNS_MAX_PAYLOAD, PrefixSize
<1>5. b \in Nat /\ b >= 2 /\ bb >= 2 * b /\ bc = bb - b /\ bb \in Nat
  BY <1>1, <1>2, <1>3, <1>4
<1> HIDE DEF b, bb, bc
<1> QED BY <1>5

(* The equation of WireSize: the recursive definition has a solution. *)
LEMMA WireSizeDef ==
  ASSUME stream \in Seq(0..UINT16_MAX)
  PROVE  WireSize = [n \in 0..Len(stream) |->
                       IF n = 0 THEN 0 ELSE WireSize[n - 1] + PrefixSize + stream[n]]
<1> DEFINE N == Len(stream)
           G(f, n) == IF n = 0 THEN 0 ELSE f[n - 1] + PrefixSize + stream[n]
           Solved(m) == \E f : f = [n \in 0..m |-> G(f, n)]
           S == {m \in Nat : Solved(m)}
<1>1. 0 \in S
  <2>1. [n \in 0..0 |-> 0] = [n \in 0..0 |-> G([i \in 0..0 |-> 0], n)]
    OBVIOUS
  <2> QED BY <2>1
<1>2. ASSUME NEW m \in Nat, m \in S PROVE m + 1 \in S
  <2>1. PICK f : f = [n \in 0..m |-> G(f, n)]
    BY <1>2
  <2> DEFINE g == [n \in 0..(m + 1) |-> IF n = m + 1 THEN G(f, n) ELSE f[n]]
  <2>2. \A n \in 0..(m + 1) : n # 0 => g[n - 1] = f[n - 1]
    OBVIOUS
  <2>3. \A n \in 0..(m + 1) : G(g, n) = G(f, n)
    BY <2>2
  <2>4. \A n \in 0..m : f[n] = G(f, n)
    BY <2>1
  <2>5. \A n \in 0..(m + 1) : g[n] = G(g, n)
    BY <2>3, <2>4
  <2>6. g = [n \in 0..(m + 1) |-> G(g, n)]
    BY <2>5
  <2>7. Solved(m + 1)
    <3> HIDE DEF g, G
    <3> QED BY <2>6
  <2> HIDE DEF Solved
  <2> QED BY <2>7
<1>3. N \in S
  <2> HIDE DEF S
  <2>1. \A m \in Nat : m \in S
    BY <1>1, <1>2, SetInduction
  <2> QED BY <2>1
<1>4. \E f : f = [n \in 0..N |-> G(f, n)]
  BY <1>3
<1> QED BY <1>4 DEF WireSize

(* WireSize of one request more. *)
LEMMA WireSizeStep ==
  ASSUME stream \in Seq(0..UINT16_MAX)
  PROVE  /\ WireSize[0] = 0
         /\ \A n \in 0..Len(stream) : WireSize[n] \in Nat
         /\ \A n \in 0..(Len(stream) - 1) :
              WireSize[n + 1] = WireSize[n] + PrefixSize + stream[n + 1]
<1> DEFINE W == WireSize
           N == Len(stream)
<1>1. W = [n \in 0..N |-> IF n = 0 THEN 0 ELSE W[n - 1] + PrefixSize + stream[n]]
  BY WireSizeDef
<1>2. N \in Nat /\ \A n \in 1..N : stream[n] \in Nat
  BY SizesAreNumbers
<1> HIDE DEF W, N
<1>3. W[0] = 0
  BY <1>1, <1>2
<1>4. \A n \in 0..(N - 1) : W[n + 1] = W[n] + PrefixSize + stream[n + 1]
  BY <1>1, <1>2
<1>5. \A n \in 0..N : W[n] \in Nat
  <2> DEFINE S == {n \in Nat : n <= N => W[n] \in Nat}
  <2>1. 0 \in S
    BY <1>3
  <2>2. ASSUME NEW n \in Nat, n \in S PROVE n + 1 \in S
    <3>1. SUFFICES ASSUME n + 1 <= N PROVE W[n + 1] \in Nat
      OBVIOUS
    <3>2. n \in 0..(N - 1) /\ n + 1 \in 1..N /\ W[n] \in Nat
      BY <1>2, <2>2, <3>1
    <3>3. W[n + 1] = W[n] + PrefixSize + stream[n + 1]
      BY <1>4, <3>2
    <3>4. stream[n + 1] \in Nat
      BY <1>2, <3>2
    <3> QED BY <3>2, <3>3, <3>4 DEF PrefixSize
  <2> HIDE DEF S
  <2>3. \A n \in Nat : n \in S
    BY <2>1, <2>2, SetInduction
  <2> QED BY <1>2, <2>3 DEF S
<1> QED BY <1>3, <1>4, <1>5 DEF W, N

(* More requests take more bytes. *)
LEMMA WireSizeGrows ==
  ASSUME stream \in Seq(0..UINT16_MAX),
         NEW m \in 0..Len(stream), NEW n \in 0..Len(stream), m <= n
  PROVE  WireSize[m] <= WireSize[n]
<1> DEFINE W == WireSize
           N == Len(stream)
           S == {k \in Nat : m + k <= N => W[m] <= W[m + k]}
<1>1. N \in Nat /\ \A i \in 1..N : stream[i] \in Nat
  BY SizesAreNumbers
<1>2. \A i \in 0..(N - 1) : W[i + 1] = W[i] + PrefixSize + stream[i + 1]
  BY WireSizeStep
<1>3. \A i \in 0..N : W[i] \in Nat
  BY WireSizeStep
<1> HIDE DEF W, N
<1>4. m \in 0..N /\ n \in 0..N
  BY DEF N
<1>5. 0 \in S
  BY <1>1, <1>3, <1>4
<1>6. ASSUME NEW k \in Nat, k \in S PROVE k + 1 \in S
  <2>1. SUFFICES ASSUME m + (k + 1) <= N PROVE W[m] <= W[m + (k + 1)]
    OBVIOUS
  <2>2. m + k \in 0..(N - 1) /\ (m + k) + 1 = m + (k + 1) /\ (m + k) + 1 \in 1..N
    BY <1>1, <1>4, <2>1
  <2>3. W[m] <= W[m + k]
    <3>1. m + k <= N
      BY <1>1, <1>4, <2>1
    <3> QED BY <1>6, <3>1
  <2>4. W[m + (k + 1)] = W[m + k] + PrefixSize + stream[(m + k) + 1]
    BY <1>2, <2>2
  <2>5. stream[(m + k) + 1] \in Nat /\ W[m] \in Nat /\ W[m + k] \in Nat
    BY <1>1, <1>3, <1>4, <2>2
  <2> QED BY <2>3, <2>4, <2>5, SMTT(30) DEF PrefixSize
<1> HIDE DEF S
<1>7. n - m \in S
  <2>1. n - m \in Nat
    BY <1>4
  <2> QED BY <1>5, <1>6, <2>1, SetInduction
<1>8. m + (n - m) = n
  BY <1>4
<1> QED BY <1>4, <1>7, <1>8 DEF S, W

-----------------------------------------------------------------------------
(* The inductive invariant. *)

Types ==
  /\ stream \in Seq(0..UINT16_MAX)
  /\ received \in Nat
  /\ needed_space \in Nat
  /\ input_buffer_used \in Nat
  /\ input_buffer_size \in Nat
  /\ forwarded \in Seq(Nat)
  /\ status \in Statuses

(* While the client is served, what has been received is what the requests  *)
(* handed on took and what is, or is about to be, in the buffer.            *)
Held == IF status = "growing" THEN needed_space ELSE input_buffer_used

NothingLost ==
  status \in {"open", "growing", "splitting"} =>
    /\ received = WireSize[Len(forwarded)] + Held
    /\ received <= WireSize[Len(stream)]

(* The requests handed on are the first ones, and each fitted the buffer,   *)
(* so that its size with the prefix did not wrap.                           *)
FirstOnes ==
  status \notin {"overread", "endless"} =>
    /\ Len(forwarded) <= Len(stream)
    /\ \A i \in 1..Len(forwarded) :
         forwarded[i] = stream[i] /\ PrefixSize + stream[i] <= TCP_DNS_MAX_PAYLOAD

(* Between two callbacks, and until new data is appended, the buffer holds  *)
(* less than a request.                                                     *)
NoneWaiting ==
  status \in {"open", "growing"} /\ Len(forwarded) < Len(stream) =>
    input_buffer_used < PrefixSize + stream[Len(forwarded) + 1]

(* The first request is looked for only once data is there. *)
HasPrefix ==
  status = "splitting" => input_buffer_used > 0 \/ Len(forwarded) > 0

(* needed_space passed the limit, so the doubling ends below it. *)
Growing ==
  status = "growing" => needed_space > 0 /\ needed_space <= TCP_DNS_MAX_PAYLOAD

(* A request counts as whole too early only when its size wraps. *)
OverreadForCause ==
  status \in {"overread", "endless"} => \E i \in DOMAIN stream : stream[i] >= Byte * (Byte - 1)

Inv ==
  /\ Types
  /\ NothingLost
  /\ FirstOnes
  /\ NoneWaiting
  /\ HasPrefix
  /\ Growing
  /\ BufferHolds
  /\ OverreadForCause
  /\ RemovedForCause

-----------------------------------------------------------------------------
(* data_size is the size with the prefix unless that does not fit 16 bits. *)
LEMMA DataSizeFacts ==
  ASSUME NEW req_size \in Nat
  PROVE  /\ DataSize(req_size) \in Nat
         /\ DataSize(req_size) <= PrefixSize + req_size
         /\ PrefixSize + req_size <= UINT16_MAX => DataSize(req_size) = PrefixSize + req_size
<1> DEFINE m == UINT16_MAX + 1
           x == PrefixSize + req_size
<1>1. m \in Nat /\ m > 0 /\ x \in Nat
  BY SizesAreNumbers DEF PrefixSize
<1>2. x <= UINT16_MAX <=> x < m
  BY SizesAreNumbers, <1>1
<1> HIDE DEF m, x
<1>3. x % m \in Nat /\ x % m <= x /\ (x < m => x % m = x)
  BY <1>1
<1> QED BY <1>2, <1>3 DEF DataSize, m, x

(* A prefix of which only the high byte has arrived: the low byte is one of *)
(* an earlier prefix, and with a high byte below the largest nothing wraps. *)
LEMMA HighByteRead ==
  ASSUME NEW len \in Nat, NEW low \in 0..(Byte - 1)
  PROVE  /\ (len \div Byte) * Byte + low \in Nat
         /\ len < Byte * (Byte - 1) => PrefixSize + ((len \div Byte) * Byte + low) <= UINT16_MAX
<1> DEFINE b == Byte
           q == len \div Byte
<1>1. b \in Nat /\ b >= 2
  BY SizesAssumption
<1>2. q \in Nat /\ q * b <= len
  BY <1>1
<1>3. low \in Nat /\ low <= b - 1
  BY <1>1
<1> HIDE DEF b, q
<1>4. q * b \in Nat
  BY <1>1, <1>2
<1>5. ASSUME len < b * (b - 1) PROVE 2 + (q * b + low) <= b * b - 1
  <2>1. q <= b - 2
    <3>1. SUFFICES ASSUME q >= b - 1 PROVE FALSE
      BY <1>1, <1>2
    <3>2. q * b >= (b - 1) * b
      BY <1>1, <1>2, <3>1
    <3>3. (b - 1) * b = b * (b - 1)
      BY <1>1
    <3> QED BY <1>1, <1>2, <1>4, <1>5, <3>2, <3>3
  <2>2. q * b <= (b - 2) * b
    BY <1>1, <1>2, <2>1
  <2>3. (b - 2) * b = b * b - 2 * b
    BY <1>1
  <2> DEFINE qb == q * b
             bb == b * b
  <2>4. qb \in Nat /\ bb \in Nat /\ qb <= bb - 2 * b
    BY <1>1, <1>4, <2>2, <2>3
  <2> HIDE DEF qb, bb
  <2>5. 2 + (qb + low) <= bb - 1
    BY <1>1, <1>3, <2>4
  <2> QED BY <2>5 DEF qb, bb
<1>6. q * b + low \in Nat
  BY <1>3, <1>4
<1> QED BY <1>5, <1>6 DEF b, q, UINT16_MAX, PrefixSize

(* Facts of the stream and the requests handed on, as the proofs use them. *)
LEMMA StreamFacts ==
  ASSUME Types
  PROVE  /\ Len(stream) \in Nat
         /\ Len(forwarded) \in Nat
         /\ DOMAIN stream = 1..Len(stream)
         /\ \A i \in 1..Len(stream) : stream[i] \in Nat /\ stream[i] <= UINT16_MAX
BY SizesAreNumbers DEF Types

(* All requests have been handed on: nothing is left in the buffer. *)
LEMMA EmptyAtTheEnd ==
  ASSUME Types, NothingLost, FirstOnes, status \in {"open", "splitting"},
         input_buffer_used > 0
  PROVE  Len(forwarded) < Len(stream)
<1>1. Len(forwarded) <= Len(stream)
  BY DEF FirstOnes
<1>2. received = WireSize[Len(forwarded)] + input_buffer_used /\ received <= WireSize[Len(stream)]
  BY DEF NothingLost, Held
<1>3. WireSize[Len(stream)] \in Nat
  BY StreamFacts, WireSizeStep DEF Types
<1>4. Len(forwarded) # Len(stream)
  BY <1>2, <1>3 DEF Types
<1> QED BY <1>1, <1>4, StreamFacts

(* What get_dns_request makes of the first two bytes of the buffer: a       *)
(* request is cut off only when it is all there, one that seems to be there *)
(* and is not had a size that wraps, and otherwise the buffer holds less    *)
(* than a request.                                                          *)
LEMMA PrefixRead ==
  ASSUME Inv, status = "splitting", NEW garbage \in 0..(Byte - 1),
         NEW req_size, req_size = ReadPrefix(Len(forwarded), input_buffer_used, garbage)
  PROVE  /\ req_size \in Nat
         /\ PrefixSize + req_size <= input_buffer_used =>
              /\ Len(forwarded) < Len(stream)
              /\ req_size = stream[Len(forwarded) + 1]
              /\ DataSize(req_size) = PrefixSize + req_size
         /\ ~IsPartial(req_size, input_buffer_used) /\ PrefixSize + req_size > input_buffer_used =>
              \E i \in DOMAIN stream : stream[i] >= Byte * (Byte - 1)
         /\ IsPartial(req_size, input_buffer_used) /\ Len(forwarded) < Len(stream) =>
              input_buffer_used < PrefixSize + stream[Len(forwarded) + 1]
<1> DEFINE n == Len(forwarded)
           used == input_buffer_used
           max == UINT16_MAX
<1>1. /\ Types /\ NothingLost /\ FirstOnes /\ HasPrefix
      /\ used \in Nat /\ used <= TCP_DNS_MAX_PAYLOAD
  BY DEF Inv, Types, BufferHolds
<1>2. n \in Nat /\ (used > 0 => n < Len(stream))
  BY <1>1, StreamFacts, EmptyAtTheEnd
<1>3. used > 0 => stream[n + 1] \in Nat /\ n + 1 \in DOMAIN stream
  BY <1>1, <1>2, StreamFacts
<1>4. max \in Nat /\ max >= 3 /\ used <= max - 2
  BY <1>1, SizesAreNumbers
<1>5. CASE used >= 2
  <2>1. req_size = stream[n + 1]
    BY <1>1, <1>5 DEF ReadPrefix
  <2>2. req_size \in Nat /\ n < Len(stream) /\ n + 1 \in DOMAIN stream
    BY <1>1, <1>2, <1>3, <1>5, <2>1
  <2>3. 2 + req_size <= used => DataSize(req_size) = 2 + req_size
    BY <1>1, <1>4, <2>2, DataSizeFacts, SMTT(30) DEF PrefixSize
  <2>4. DataSize(req_size) \in Nat /\ DataSize(req_size) <= 2 + req_size
    BY <2>2, DataSizeFacts DEF PrefixSize
  <2>5. ASSUME DataSize(req_size) <= used, 2 + req_size > used
        PROVE  stream[n + 1] >= Byte * (Byte - 1)
    <3>1. ~(2 + req_size <= max)
      BY <1>1, <2>2, <2>5, DataSizeFacts, SMTT(30) DEF PrefixSize
    <3>2. Byte * (Byte - 1) <= max - 1
      BY SizesAreNumbers
    <3>3. Byte * (Byte - 1) \in Int
      BY SizesAssumption
    <3> DEFINE bc == Byte * (Byte - 1)
    <3> HIDE DEF bc, max
    <3>4. req_size >= bc
      BY <1>4, <2>2, <3>1, <3>2, <3>3 DEF bc
    <3> QED BY <2>1, <3>4 DEF bc
  <2> QED BY <1>1, <2>1, <2>2, <2>3, <2>4, <2>5 DEF IsPartial, PrefixSize
<1>6. CASE used = 1
  <2> DEFINE low == OldLowByte(n, garbage)
             len == stream[n + 1]
  <2>1. req_size = (len \div Byte) * Byte + low
    BY <1>6 DEF ReadPrefix
  <2>2. low \in 0..(Byte - 1)
    <3>1. n > 0 => stream[n] \in Nat
      BY <1>1, <1>2, <1>6, StreamFacts
    <3>2. Byte \in Nat /\ Byte >= 2
      BY SizesAssumption
    <3> QED BY <1>2, <3>1, <3>2 DEF OldLowByte
  <2>3. len \in Nat
    BY <1>3, <1>6
  <2> HIDE DEF low, len
  <2>4. /\ req_size \in Nat
        /\ len < Byte * (Byte - 1) => PrefixSize + req_size <= max
    BY <2>1, <2>2, <2>3, HighByteRead
  <2>5. ~(PrefixSize + req_size <= used)
    BY <1>6, <2>4 DEF PrefixSize
  <2>6. ASSUME ~IsPartial(req_size, used) PROVE len >= Byte * (Byte - 1)
    <3>1. ~(PrefixSize + req_size <= max)
      <4>1. SUFFICES ASSUME PrefixSize + req_size <= max PROVE FALSE
        OBVIOUS
      <4>2. DataSize(req_size) = PrefixSize + req_size
        BY <2>4, <4>1, DataSizeFacts
      <4>3. 2 + req_size <= 1
        BY <1>6, <2>4, <2>6, <4>2 DEF IsPartial, PrefixSize
      <4> QED BY <2>4, <4>3
    <3>2. ~(len < Byte * (Byte - 1))
      BY <2>4, <3>1
    <3>3. Byte * (Byte - 1) \in Int
      BY SizesAssumption
    <3> QED BY <2>3, <3>2, <3>3
  <2>7. used < PrefixSize + len
    BY <1>6, <2>3 DEF PrefixSize
  <2> QED BY <1>3, <1>6, <2>4, <2>5, <2>6, <2>7 DEF len
<1>7. CASE used = 0
  <2>1. req_size = stream[n]
    BY <1>7 DEF ReadPrefix
  <2>2. n \in 1..n /\ n > 0
    BY <1>1, <1>2, <1>7 DEF HasPrefix
  <2>3. PrefixSize + stream[n] <= TCP_DNS_MAX_PAYLOAD /\ n <= Len(stream)
    BY <1>1, <2>2 DEF FirstOnes
  <2>4. req_size \in Nat
    BY <1>1, <1>2, <2>1, <2>2, <2>3, StreamFacts
  <2>5. DataSize(req_size) = PrefixSize + req_size
    <3>1. PrefixSize + req_size <= max
      BY <1>4, <2>1, <2>3, <2>4, SizesAreNumbers DEF PrefixSize
    <3> QED BY <2>4, <3>1, DataSizeFacts
  <2>6. IsPartial(req_size, used) /\ ~(PrefixSize + req_size <= used)
    BY <1>7, <2>4, <2>5 DEF IsPartial, PrefixSize
  <2>7. n < Len(stream) => stream[n + 1] \in Nat
    BY <1>1, <1>2, StreamFacts
  <2> QED BY <1>7, <2>4, <2>6, <2>7 DEF PrefixSize
<1>8. used >= 2 \/ used = 1 \/ used = 0
  BY <1>1
<1> QED BY <1>5, <1>6, <1>7, <1>8

-----------------------------------------------------------------------------
(* Every step preserves the invariant. *)

LEMMA WireSizeUnchanged ==
  ASSUME stream' = stream
  PROVE  WireSize' = WireSize
BY DEF WireSize

LEMMA InitHolds ==
  ASSUME Init
  PROVE  Inv
<1>1. PICK n \in 1..MaxFrames : stream \in [1..n -> FrameSizes]
  BY DEF Init
<1>2. n \in Nat /\ FrameSizes \subseteq 0..UINT16_MAX
  BY SizesAssumption
<1>3. stream \in Seq(0..UINT16_MAX)
  <2>1. stream \in [1..n -> 0..UINT16_MAX]
    BY <1>1, <1>2
  <2> QED BY <1>2, <2>1, SeqDef, Zenon
<1>4. Types
  BY <1>3 DEF Init, Types, Statuses
<1>5. WireSize[0] = 0 /\ WireSize[Len(stream)] \in Nat
  BY <1>3, <1>4, StreamFacts, WireSizeStep
<1>6. Len(forwarded) = 0 /\ Len(stream) \in Nat /\ (Len(stream) > 0 => stream[1] \in Nat)
  BY <1>4, StreamFacts DEF Init
<1>7. NothingLost
  BY <1>5, <1>6 DEF Init, NothingLost, Held
<1>8. FirstOnes
  BY <1>6 DEF Init, FirstOnes
<1>9. NoneWaiting
  BY <1>6 DEF Init, NoneWaiting, PrefixSize
<1>10. BufferHolds
  BY SizesAreNumbers DEF Init, BufferHolds
<1>11. HasPrefix /\ Growing /\ OverreadForCause /\ RemovedForCause
  BY DEF Init, HasPrefix, Growing, OverreadForCause, RemovedForCause
<1> QED BY <1>4, <1>7, <1>8, <1>9, <1>10, <1>11 DEF Inv

LEMMA ReadKeepsInv ==
  ASSUME Inv, NEW len \in 1..DNS_REQUEST_BUFFER_SIZE, read_cb(len)
  PROVE  Inv'
<1> DEFINE n == Len(forwarded)
           used == input_buffer_used
<1>1. /\ Types /\ NothingLost /\ FirstOnes /\ NoneWaiting /\ BufferHolds
      /\ used \in Nat /\ received \in Nat /\ input_buffer_size \in Nat
      /\ used <= input_buffer_size
  BY DEF Inv, Types, BufferHolds, read_cb
<1>2. /\ status = "open" /\ stream' = stream /\ forwarded' = forwarded
      /\ received' = received + len
      /\ received + len <= WireSize[Len(stream)]
  BY DEF read_cb
<1>3. len \in Nat /\ len > 0 /\ len <= DNS_REQUEST_BUFFER_SIZE
  BY SizesAssumption, SizesAreNumbers
<1>4. WireSize' = WireSize
  BY <1>2, WireSizeUnchanged
<1>5. received = WireSize[n] + used
  BY <1>1, <1>2 DEF NothingLost, Held
<1>6. n \in Nat /\ Len(stream) \in Nat /\ n <= Len(stream) /\ WireSize[n] \in Nat /\ WireSize[Len(stream)] \in Nat
  BY <1>1, <1>2, StreamFacts, WireSizeStep DEF FirstOnes, Types
<1>7. n < Len(stream)
  <2>1. n # Len(stream)
    BY <1>1, <1>2, <1>3, <1>5, <1>6
  <2> QED BY <1>6, <2>1
<1>8. FirstOnes'
  <2>1. status' \notin {"overread", "endless"}
    BY DEF read_cb, read_cb_too_large, read_cb_fits, read_cb_grows
  <2> QED BY <1>1, <1>2 DEF FirstOnes
<1>9. CASE read_cb_too_large(len)
  <2>1. /\ status' = "removed" /\ needed_space' = needed_space
        /\ input_buffer_used' = used /\ input_buffer_size' = input_buffer_size
        /\ used + len > TCP_DNS_MAX_PAYLOAD
    BY <1>9 DEF read_cb_too_large, TooLarge
  <2>2. Types'
    BY <1>1, <1>2, <1>3, <2>1 DEF Types, Statuses
  <2>3. BufferHolds'
    BY <1>1, <2>1 DEF BufferHolds
  <2>4. RemovedForCause'
    <3>1. used < 2 + stream[n + 1]
      BY <1>1, <1>2, <1>7 DEF NoneWaiting, PrefixSize
    <3>2. stream[n + 1] \in Nat /\ n + 1 \in DOMAIN stream
      BY <1>1, <1>6, <1>7, StreamFacts
    <3>3. DNS_REQUEST_BUFFER_SIZE \in Nat /\ TCP_DNS_MAX_PAYLOAD \in Nat
      BY SizesAssumption, SizesAreNumbers
    <3>4. 2 + stream[n + 1] + DNS_REQUEST_BUFFER_SIZE > TCP_DNS_MAX_PAYLOAD
      BY <1>1, <1>3, <2>1, <3>1, <3>2, <3>3
    <3> QED BY <1>2, <3>2, <3>4 DEF RemovedForCause, PrefixSize
  <2> QED BY <1>8, <2>1, <2>2, <2>3, <2>4
          DEF Inv, NothingLost, NoneWaiting, HasPrefix, Growing, OverreadForCause
<1>10. CASE read_cb_fits(len)
  <2>1. /\ status' = "splitting" /\ needed_space' = needed_space
        /\ input_buffer_used' = used + len /\ input_buffer_size' = input_buffer_size
        /\ ~(used + len > TCP_DNS_MAX_PAYLOAD)
        /\ input_buffer_size - used >= len
    BY <1>10 DEF read_cb_fits, TooLarge, HasRoom
  <2>2. Types'
    BY <1>1, <1>2, <1>3, <2>1 DEF Types, Statuses
  <2>3. BufferHolds'
    <3>1. TCP_DNS_MAX_PAYLOAD \in Nat
      BY SizesAreNumbers
    <3> QED BY <1>1, <1>3, <2>1, <3>1 DEF BufferHolds
  <2>4. NothingLost'
    BY <1>1, <1>2, <1>3, <1>4, <1>5, <1>6, <2>1 DEF NothingLost, Held
  <2>5. HasPrefix'
    BY <1>1, <1>3, <2>1 DEF HasPrefix
  <2> QED BY <1>8, <2>1, <2>2, <2>3, <2>4, <2>5
          DEF Inv, NoneWaiting, Growing, OverreadForCause, RemovedForCause
<1>11. CASE read_cb_grows(len)
  <2>1. /\ status' = "growing" /\ needed_space' = used + len
        /\ input_buffer_used' = used /\ input_buffer_size' = FirstBufferSize
        /\ ~(used + len > TCP_DNS_MAX_PAYLOAD)
    BY <1>11 DEF read_cb_grows, TooLarge
  <2>2. Types'
    BY <1>1, <1>2, <1>3, <2>1, SizesAssumption DEF Types, Statuses
  <2>3. BufferHolds'
    BY <1>1, <2>1 DEF BufferHolds
  <2>4. NothingLost'
    BY <1>1, <1>2, <1>3, <1>4, <1>5, <1>6, <2>1 DEF NothingLost, Held
  <2>5. NoneWaiting'
    BY <1>1, <1>2, <2>1 DEF NoneWaiting
  <2>6. Growing'
    <3>1. TCP_DNS_MAX_PAYLOAD \in Nat
      BY SizesAreNumbers
    <3> QED BY <1>1, <1>3, <2>1, <3>1 DEF Growing
  <2> QED BY <1>8, <2>1, <2>2, <2>3, <2>4, <2>5, <2>6
          DEF Inv, HasPrefix, OverreadForCause, RemovedForCause
<1> QED BY <1>9, <1>10, <1>11 DEF read_cb

LEMMA GrowKeepsInv ==
  ASSUME Inv, grow_buffer
  PROVE  Inv'
<1>1. /\ Types /\ NothingLost /\ FirstOnes /\ NoneWaiting /\ BufferHolds /\ Growing
      /\ input_buffer_used \in Nat /\ input_buffer_size \in Nat /\ needed_space \in Nat
  BY DEF Inv, Types
<1>2. /\ status = "growing" /\ stream' = stream /\ forwarded' = forwarded
      /\ received' = received /\ needed_space > 0 /\ needed_space <= TCP_DNS_MAX_PAYLOAD
  BY <1>1 DEF grow_buffer, Growing
<1>3. WireSize' = WireSize
  BY <1>2, WireSizeUnchanged
<1>4. CASE double_buffer
  <2>1. ~TooBigToDouble(input_buffer_size)
    <3>1. TCP_DNS_MAX_PAYLOAD \in Nat /\ input_buffer_size < needed_space
      BY <1>4, SizesAreNumbers DEF double_buffer
    <3> QED BY <1>1, <1>2, <3>1 DEF TooBigToDouble
  <2>2. /\ input_buffer_size' = 2 * input_buffer_size /\ status' = status
        /\ needed_space' = needed_space /\ input_buffer_used' = input_buffer_used
    BY <1>4, <2>1 DEF double_buffer
  <2>3. Types'
    BY <1>1, <1>2, <2>2 DEF Types
  <2>4. NothingLost' /\ FirstOnes' /\ NoneWaiting' /\ Growing' /\ BufferHolds'
    BY <1>1, <1>2, <1>3, <2>2 DEF NothingLost, Held, FirstOnes, NoneWaiting, Growing, BufferHolds
  <2> QED BY <1>2, <2>2, <2>3, <2>4
          DEF Inv, HasPrefix, OverreadForCause, RemovedForCause
<1>5. CASE resized
  <2>1. /\ input_buffer_used' = needed_space /\ needed_space' = 0
        /\ status' = "splitting" /\ input_buffer_size' = input_buffer_size
        /\ input_buffer_size >= needed_space
    BY <1>5 DEF resized
  <2>2. Types'
    BY <1>1, <1>2, <2>1 DEF Types, Statuses
  <2>3. NothingLost'
    BY <1>1, <1>2, <1>3, <2>1 DEF NothingLost, Held
  <2>4. FirstOnes'
    BY <1>1, <1>2, <2>1 DEF FirstOnes
  <2>5. BufferHolds'
    BY <1>1, <1>2, <2>1 DEF BufferHolds
  <2>6. HasPrefix'
    BY <1>2, <2>1 DEF HasPrefix
  <2> QED BY <1>2, <2>1, <2>2, <2>3, <2>4, <2>5, <2>6
          DEF Inv, NoneWaiting, Growing, OverreadForCause, RemovedForCause
<1> QED BY <1>4, <1>5 DEF grow_buffer

LEMMA SplitKeepsInv ==
  ASSUME Inv, get_dns_request
  PROVE  Inv'
<1> DEFINE n == Len(forwarded)
           used == input_buffer_used
<1>1. PICK garbage \in 0..(Byte - 1) :
        \/ partial_request(ReadPrefix(n, used, garbage))
        \/ overread_request(ReadPrefix(n, used, garbage))
        \/ whole_request(ReadPrefix(n, used, garbage))
  BY DEF get_dns_request
<1>2. PICK req_size : req_size = ReadPrefix(n, used, garbage)
  OBVIOUS
<1>3. /\ status = "splitting" /\ stream' = stream /\ received' = received
      /\ needed_space' = needed_space /\ input_buffer_size' = input_buffer_size
  BY DEF get_dns_request
<1>4. /\ req_size \in Nat
      /\ PrefixSize + req_size <= used =>
           n < Len(stream) /\ req_size = stream[n + 1] /\ DataSize(req_size) = PrefixSize + req_size
      /\ ~IsPartial(req_size, used) /\ PrefixSize + req_size > used =>
           \E i \in DOMAIN stream : stream[i] >= Byte * (Byte - 1)
      /\ IsPartial(req_size, used) /\ n < Len(stream) => used < PrefixSize + stream[n + 1]
  BY <1>2, <1>3, PrefixRead
<1>5. /\ Types /\ NothingLost /\ FirstOnes /\ BufferHolds
      /\ used \in Nat /\ input_buffer_size \in Nat /\ received \in Nat
      /\ used <= input_buffer_size /\ used <= TCP_DNS_MAX_PAYLOAD
  BY <1>3 DEF Inv, Types, BufferHolds
<1>6. WireSize' = WireSize
  BY <1>3, WireSizeUnchanged
<1>7. n \in Nat /\ TCP_DNS_MAX_PAYLOAD \in Nat
  BY <1>5, StreamFacts, SizesAreNumbers
<1>8. CASE partial_request(req_size)
  <2>1. /\ status' = "open" /\ input_buffer_used' = used /\ forwarded' = forwarded
        /\ IsPartial(req_size, used)
    BY <1>8 DEF partial_request
  <2>2. Types'
    BY <1>3, <1>5, <2>1 DEF Types, Statuses
  <2>3. NothingLost'
    BY <1>3, <1>5, <1>6, <2>1 DEF NothingLost, Held
  <2>4. FirstOnes'
    BY <1>3, <1>5, <2>1 DEF FirstOnes
  <2>5. NoneWaiting'
    BY <1>3, <1>4, <2>1 DEF NoneWaiting
  <2>6. BufferHolds'
    BY <1>3, <1>5, <2>1 DEF BufferHolds
  <2> QED BY <2>1, <2>2, <2>3, <2>4, <2>5, <2>6
          DEF Inv, HasPrefix, Growing, OverreadForCause, RemovedForCause
<1>9. CASE overread_request(req_size)
  <2>1. /\ status' \in {"overread", "endless"} /\ input_buffer_used' = used
        /\ forwarded' = Append(forwarded, req_size)
        /\ ~IsPartial(req_size, used) /\ PrefixSize + req_size > used
    BY <1>9 DEF overread_request
  <2>2. Types'
    BY <1>3, <1>4, <1>5, <2>1 DEF Types, Statuses
  <2>3. BufferHolds'
    BY <1>3, <1>5, <2>1 DEF BufferHolds
  <2>4. OverreadForCause'
    BY <1>3, <1>4, <2>1 DEF OverreadForCause
  <2> QED BY <2>1, <2>2, <2>3, <2>4
          DEF Inv, NothingLost, FirstOnes, NoneWaiting, HasPrefix, Growing, RemovedForCause
<1>10. CASE whole_request(req_size)
  <2>1. /\ n < Len(stream) /\ req_size = stream[n + 1] /\ DataSize(req_size) = 2 + req_size
        /\ 2 + req_size <= used
    BY <1>4, <1>10 DEF whole_request, PrefixSize
  <2>2. input_buffer_used' = used - (2 + req_size)
    BY <1>10, <2>1 DEF whole_request
  <2>3. BufferHolds' /\ input_buffer_used' \in Nat
    <3>1. status' # "fatal"
      BY <1>3, <1>10 DEF whole_request
    <3>2. input_buffer_used' \in Nat /\ input_buffer_used' <= used
      BY <1>4, <1>5, <2>1, <2>2, SMTT(30)
    <3>3. input_buffer_used' <= input_buffer_size' /\ input_buffer_used' <= TCP_DNS_MAX_PAYLOAD
      BY <1>3, <1>5, <1>7, <3>2
    <3> QED BY <3>1, <3>2, <3>3 DEF BufferHolds
  <2>4. n + 1 \in DOMAIN stream
    BY <1>5, <1>7, <2>1, StreamFacts
  <2>5. CASE req_size < DNS_HEADER_LENGTH
    <3>1. status' = "removed" /\ forwarded' = forwarded
      BY <1>10, <2>5 DEF whole_request
    <3>2. Types'
      BY <1>3, <1>5, <2>3, <3>1 DEF Types, Statuses
    <3>3. FirstOnes'
      BY <1>3, <1>5, <3>1 DEF FirstOnes
    <3>4. RemovedForCause'
      BY <1>3, <2>1, <2>4, <2>5 DEF RemovedForCause
    <3> QED BY <2>3, <3>1, <3>2, <3>3, <3>4
            DEF Inv, NothingLost, NoneWaiting, HasPrefix, Growing, OverreadForCause
  <2>6. CASE ~(req_size < DNS_HEADER_LENGTH)
    <3>1. status' = "splitting" /\ forwarded' = Append(forwarded, req_size)
      BY <1>3, <1>10, <2>6 DEF whole_request
    <3>2. Types'
      BY <1>3, <1>4, <1>5, <2>3, <3>1 DEF Types, Statuses
    <3>3. Len(forwarded') = n + 1
      BY <1>4, <1>5, <3>1 DEF Types
    <3>4. NothingLost'
      <4>1. n \in 0..(Len(stream) - 1)
        BY <1>5, <1>7, <2>1, StreamFacts
      <4>2. WireSize[n + 1] = WireSize[n] + 2 + req_size /\ WireSize[n] \in Nat
        <5>1. stream \in Seq(0..UINT16_MAX) /\ n \in 0..Len(stream)
          BY <1>5, <4>1 DEF Types
        <5> QED BY <2>1, <4>1, <5>1, WireSizeStep DEF PrefixSize
      <4>3. received = WireSize[n] + used /\ received <= WireSize[Len(stream)]
        BY <1>3, <1>5 DEF NothingLost, Held
      <4>4. received = WireSize[n + 1] + (used - (2 + req_size))
        BY <1>4, <1>5, <4>2, <4>3, SMTT(30)
      <4> QED BY <1>3, <1>6, <2>2, <3>1, <3>3, <4>3, <4>4 DEF NothingLost, Held
    <3>5. FirstOnes'
      <4>1. \A i \in 1..(n + 1) : i \in 1..n \/ i = n + 1
        BY <1>7
      <4>2. \A i \in 1..n : forwarded'[i] = forwarded[i]
        BY <1>5, <3>1 DEF Types
      <4>3. forwarded'[n + 1] = req_size
        BY <1>4, <1>5, <3>1 DEF Types
      <4>4. 2 + req_size <= TCP_DNS_MAX_PAYLOAD
        BY <1>4, <1>5, <1>7, <2>1
      <4>5. \A i \in 1..n : forwarded[i] = stream[i] /\ PrefixSize + stream[i] <= TCP_DNS_MAX_PAYLOAD
        BY <1>3, <1>5 DEF FirstOnes
      <4>6. \A i \in 1..(n + 1) :
              forwarded'[i] = stream[i] /\ PrefixSize + stream[i] <= TCP_DNS_MAX_PAYLOAD
        BY <2>1, <4>1, <4>2, <4>3, <4>4, <4>5 DEF PrefixSize
      <4>7. n + 1 <= Len(stream)
        BY <1>5, <1>7, <2>1, StreamFacts
      <4> QED BY <1>3, <3>3, <4>6, <4>7 DEF FirstOnes
    <3>6. HasPrefix'
      BY <1>7, <3>3 DEF HasPrefix
    <3> QED BY <2>3, <3>1, <3>2, <3>4, <3>5, <3>6
            DEF Inv, NoneWaiting, Growing, OverreadForCause, RemovedForCause
  <2> QED BY <2>5, <2>6
<1> QED BY <1>1, <1>2, <1>8, <1>9, <1>10

LEMMA StutterKeepsInv ==
  ASSUME Inv, UNCHANGED vars
  PROVE  Inv'
<1>1. WireSize' = WireSize
  BY WireSizeUnchanged DEF vars
<1> QED BY <1>1 DEF vars, Inv, Types, NothingLost, Held, FirstOnes, NoneWaiting, HasPrefix,
                Growing, BufferHolds, OverreadForCause, RemovedForCause

LEMMA InvHolds == Spec => []Inv
<1>1. Init => Inv
  BY InitHolds
<1>2. Inv /\ [Next]_vars => Inv'
  <2> SUFFICES ASSUME Inv, [Next]_vars PROVE Inv'
    OBVIOUS
  <2>1. ASSUME NEW len \in 1..DNS_REQUEST_BUFFER_SIZE, read_cb(len) PROVE Inv'
    BY <2>1, ReadKeepsInv
  <2>2. CASE grow_buffer
    BY <2>2, GrowKeepsInv
  <2>3. CASE get_dns_request
    BY <2>3, SplitKeepsInv
  <2>4. CASE same_request_again \/ Finished
    BY <2>4, StutterKeepsInv DEF same_request_again, Finished
  <2>5. CASE UNCHANGED vars
    BY <2>5, StutterKeepsInv
  <2> QED BY <2>1, <2>2, <2>3, <2>4, <2>5 DEF Next
<1> QED BY <1>1, <1>2, PTL DEF Spec

LEMMA NoOverreadBelowLimit ==
  ASSUME Inv, BelowLimit
  PROVE  status \notin {"overread", "endless"}
<1>1. Types /\ OverreadForCause
  BY DEF Inv
<1>2. \A i \in DOMAIN stream : ~(stream[i] >= Byte * (Byte - 1))
  <2>1. Byte * (Byte - 1) \in Int
    BY SizesAssumption
  <2>2. \A i \in DOMAIN stream : stream[i] \in Int
    BY <1>1, StreamFacts
  <2> QED BY <2>1, <2>2 DEF BelowLimit
<1> QED BY <1>1, <1>2 DEF OverreadForCause

-----------------------------------------------------------------------------
(* read_cb never writes behind the input buffer and never meets the         *)
(* "Unrealistic input buffer size" exit: for every limit and first size.    *)
THEOREM BufferIsLargeEnough == Spec => []BufferHolds
<1>1. Inv => BufferHolds
  BY DEF Inv
<1> QED BY <1>1, InvHolds, PTL

(* However recv() cuts the stream, get_dns_request hands on the requests    *)
(* that were sent, in order and whole, if no announced length has the       *)
(* largest high byte; the run tcp_input_whole shows why that is needed.     *)
THEOREM RequestsAreWhole == Spec => []WholeRequestsBelowLimit
<1>1. Inv => WholeRequestsBelowLimit
  <2> SUFFICES ASSUME Inv, BelowLimit
               PROVE  WholeRequests
    BY DEF WholeRequestsBelowLimit
  <2>1. Types /\ FirstOnes
    BY DEF Inv
  <2>3. status \notin {"overread", "endless"}
    BY NoOverreadBelowLimit
  <2>4. Len(forwarded) <= Len(stream) /\ \A i \in 1..Len(forwarded) : forwarded[i] = stream[i]
    BY <2>1, <2>3 DEF FirstOnes
  <2>5. forwarded = SubSeq(stream, 1, Len(forwarded))
    BY <2>1, <2>4, StreamFacts DEF Types
  <2> QED BY <2>3, <2>5 DEF WholeRequests
<1> QED BY <1>1, InvHolds, PTL

(* When read_cb returns to the event loop no complete request is left in    *)
(* the buffer, for streams of any length.                                   *)
THEOREM NoRequestIsHeldBack == Spec => []NothingHeldBack
<1>1. Inv => NothingHeldBack
  <2> SUFFICES ASSUME Inv, status = "open", NEW k \in 1..Len(stream), WireSize[k] <= received,
                      ~(k <= Len(forwarded))
               PROVE  FALSE
    BY DEF NothingHeldBack
  <2> DEFINE n == Len(forwarded)
             used == input_buffer_used
  <2>1. /\ Types /\ NothingLost /\ NoneWaiting /\ used \in Nat /\ received \in Nat
        /\ stream \in Seq(0..UINT16_MAX)
    BY DEF Inv, Types
  <2>2. n \in Nat /\ Len(stream) \in Nat /\ n < Len(stream) /\ n + 1 <= k
    BY <2>1, StreamFacts
  <2>3. used < 2 + stream[n + 1] /\ received = WireSize[n] + used
    BY <2>1, <2>2 DEF NoneWaiting, NothingLost, Held, PrefixSize
  <2>4. WireSize[n + 1] = WireSize[n] + 2 + stream[n + 1] /\ WireSize[n] \in Nat
    BY <2>1, <2>2, WireSizeStep DEF PrefixSize
  <2>5. WireSize[n + 1] <= WireSize[k]
    BY <2>1, <2>2, WireSizeGrows
  <2>6. stream[n + 1] \in Nat /\ WireSize[k] \in Nat
    BY <2>1, <2>2, StreamFacts, WireSizeStep
  <2> DEFINE before == WireSize[n]
             len == stream[n + 1]
             upto == WireSize[k]
  <2>7. /\ received = before + used /\ used < 2 + len
        /\ before + 2 + len <= upto /\ upto <= received
        /\ before \in Nat /\ len \in Nat /\ upto \in Nat
    BY <2>3, <2>4, <2>5, <2>6
  <2> HIDE DEF before, len, upto, used
  <2> QED BY <2>1, <2>7
<1> QED BY <1>1, InvHolds, PTL

(* remove_client is called by read_cb only for a request too short for a    *)
(* header or one that does not fit beside what one recv() returns.          *)
THEOREM ClientsAreRemovedForCause == Spec => []RemovedForCause
<1>1. Inv => RemovedForCause
  BY DEF Inv
<1> QED BY <1>1, InvHolds, PTL

-----------------------------------------------------------------------------
(* How many steps read_cb can still take, at most: the bytes the buffer is  *)
(* too small by, and those the loop over get_dns_request has to look at.    *)
TooSmallBy ==
  IF input_buffer_size < needed_space THEN needed_space - input_buffer_size ELSE 0

StepsLeft ==
  IF status = "growing" THEN needed_space + 2 + TooSmallBy
  ELSE IF status = "splitting" THEN input_buffer_used + 1
  ELSE 0

(* Doubling gets on only from a size that is not 0. *)
SizeInv == status = "growing" => input_buffer_size > 0

LEMMA SizeKept ==
  ASSUME Inv, SizeInv, [Next]_vars
  PROVE  SizeInv'
<1>1. CASE \E len \in 1..DNS_REQUEST_BUFFER_SIZE : read_cb(len)
  BY <1>1, SizesAssumption DEF SizeInv, read_cb, read_cb_too_large, read_cb_fits, read_cb_grows
<1>2. CASE grow_buffer
  <2>1. input_buffer_size \in Nat
    BY DEF Inv, Types
  <2> QED BY <1>2, <2>1 DEF SizeInv, grow_buffer, double_buffer, resized
<1>3. CASE get_dns_request
  BY <1>3 DEF SizeInv, get_dns_request, partial_request, overread_request, whole_request
<1>4. CASE UNCHANGED vars
  BY <1>4 DEF SizeInv, vars
<1> QED BY <1>1, <1>2, <1>3, <1>4 DEF Next, same_request_again, Finished

LEMMA GrowStepsCount ==
  ASSUME Inv, SizeInv, grow_buffer
  PROVE  StepsLeft \in Nat /\ StepsLeft' \in Nat /\ StepsLeft' < StepsLeft
<1>1. /\ status = "growing" /\ input_buffer_size \in Nat /\ input_buffer_size > 0
      /\ needed_space \in Nat
  BY DEF Inv, Types, SizeInv, grow_buffer
<1>2. CASE double_buffer
  BY <1>1, <1>2 DEF double_buffer, StepsLeft, TooSmallBy
<1>3. CASE resized
  BY <1>1, <1>3 DEF resized, StepsLeft, TooSmallBy
<1> QED BY <1>2, <1>3 DEF grow_buffer

LEMMA SplitStepsCount ==
  ASSUME Inv, get_dns_request
  PROVE  StepsLeft \in Nat /\ StepsLeft' \in Nat /\ StepsLeft' < StepsLeft
<1> DEFINE used == input_buffer_used
<1>1. PICK garbage \in 0..(Byte - 1) :
        \/ partial_request(ReadPrefix(Len(forwarded), used, garbage))
        \/ overread_request(ReadPrefix(Len(forwarded), used, garbage))
        \/ whole_request(ReadPrefix(Len(forwarded), used, garbage))
  BY DEF get_dns_request
<1>2. PICK req_size : req_size = ReadPrefix(Len(forwarded), used, garbage)
  OBVIOUS
<1>3. status = "splitting" /\ used \in Nat
  BY DEF get_dns_request, Inv, Types
<1>4. StepsLeft = used + 1
  BY <1>3 DEF StepsLeft
<1>5. CASE status' \in {"open", "overread", "endless", "removed"}
  BY <1>3, <1>4, <1>5 DEF StepsLeft
<1>6. CASE whole_request(req_size) /\ status' = status
  <2>1. req_size \in Nat /\ 2 + req_size <= used /\ DataSize(req_size) = 2 + req_size
    BY <1>2, <1>3, <1>6, PrefixRead DEF whole_request, PrefixSize
  <2>2. input_buffer_used' = used - (2 + req_size)
    BY <1>6, <2>1 DEF whole_request
  <2>3. StepsLeft' = input_buffer_used' + 1
    BY <1>3, <1>6 DEF StepsLeft
  <2> QED BY <1>3, <1>4, <2>1, <2>2, <2>3
<1> QED BY <1>1, <1>2, <1>5, <1>6 DEF partial_request, overread_request, whole_request

(* A round of either loop of read_cb. *)
LoopStep == grow_buffer \/ get_dns_request \/ same_request_again

(* read_cb returns to the event loop if no announced length has the largest *)
(* high byte: each doubling of the buffer and each round of the loop over   *)
(* get_dns_request uses up one of a bounded number of steps, and none of    *)
(* them comes to the same request again. Without that condition the loop    *)
(* need not end (the run tcp_input_whole).                                  *)
THEOREM ReadStepsAreBounded ==
  Spec => [][BelowLimit /\ LoopStep =>
               StepsLeft \in Nat /\ StepsLeft' \in Nat /\ StepsLeft' < StepsLeft]_vars
<1>1. Init => SizeInv
  BY DEF Init, SizeInv
<1>2. Inv /\ SizeInv /\ [Next]_vars => SizeInv'
  BY SizeKept
<1>3. Inv /\ SizeInv /\ BelowLimit /\ LoopStep =>
        StepsLeft \in Nat /\ StepsLeft' \in Nat /\ StepsLeft' < StepsLeft
  <2>1. Inv /\ BelowLimit => ~same_request_again
    BY NoOverreadBelowLimit DEF same_request_again
  <2> QED BY <2>1, GrowStepsCount, SplitStepsCount DEF LoopStep
<1> QED BY <1>1, <1>2, <1>3, InvHolds, PTL DEF Spec
=============================================================================
