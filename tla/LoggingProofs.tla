--------------------------- MODULE LoggingProofs ----------------------------
(***************************************************************************)
(* What the flight recorder holds (Logging, RingBuffer), for every size    *)
(* and every number of messages.                                           *)
(***************************************************************************)
EXTENDS Logging, SequenceTheorems, NaturalsInduction, WellFoundedInduction, TLAPS

LEMMA Least ==
  ASSUME NEW T, T \subseteq Nat, T # {}
  PROVE  \E x \in T : \A y \in T : x <= y
<1> DEFINE R == OpToRel(<, Nat)
<1>1. IsWellFoundedOn(R, Nat)
  BY NatLessThanWellFounded
<1>2. \A x, y \in Nat : x < y => <<x, y>> \in R
  BY DEF OpToRel
<1> HIDE DEF R
<1>3. PICK x \in T : \A y \in T : ~(<<y, x>> \in R)
  BY <1>1, WFMin
<1>4. \A y \in T : ~(y < x)
  BY <1>2, <1>3, Zenon
<1>5. \A y \in T : x <= y
  <2>1. x \in Nat /\ \A y \in T : y \in Nat
    OBVIOUS
  <2> QED BY <1>4, <2>1, SMT
<1> QED BY <1>5

(* Induction with a set in place of the predicate. *)
LEMMA SetInduction ==
  ASSUME NEW S, 0 \in S, \A n \in Nat : n \in S => n + 1 \in S
  PROVE  \A n \in Nat : n \in S
<1> DEFINE T == {n \in Nat : n \notin S}
<1>1. SUFFICES ASSUME T # {} PROVE FALSE
  OBVIOUS
<1>2. PICK x \in T : \A y \in T : x <= y
  BY <1>1, Least
<1>3. x \in Nat /\ x # 0
  OBVIOUS
<1>4. x - 1 \in Nat /\ ~(x <= x - 1) /\ (x - 1) + 1 = x
  BY <1>3
<1>5. x - 1 \in S
  BY <1>2, <1>4
<1> QED BY <1>4, <1>5

(* AfterArgs satisfies the equation it is defined by. *)
LEMMA AfterArgsDef ==
  ASSUME NEW args, Len(args) \in Nat
  PROVE  AfterArgs(args) =
           [n \in 0..Len(args) |->
              IF n = 0 THEN options_init ELSE TakeOption(AfterArgs(args)[n - 1], args[n])]
<1> DEFINE G(f, n) == IF n = 0 THEN options_init ELSE TakeOption(f[n - 1], args[n])
           Solved(m) == \E f : f = [n \in 0..m |-> G(f, n)]
           S == {m \in Nat : Solved(m)}
<1>1. 0 \in S
  <2> DEFINE f == [n \in 0..0 |-> options_init]
  <2>1. f = [n \in 0..0 |-> G(f, n)]
    OBVIOUS
  <2> HIDE DEF f, G
  <2> QED BY <2>1
<1>2. ASSUME NEW m \in Nat, m \in S PROVE m + 1 \in S
  <2>1. PICK f : f = [n \in 0..m |-> G(f, n)]
    BY <1>2
  <2> DEFINE g == [n \in 0..(m + 1) |-> IF n = m + 1 THEN G(f, n) ELSE f[n]]
  <2>2. \A n \in 0..(m + 1) : n # 0 => g[n - 1] = f[n - 1]
    OBVIOUS
  <2>3. \A n \in 0..(m + 1) : G(g, n) = G(f, n)
    BY <2>2
  <2> HIDE DEF G
  <2>4. \A n \in 0..m : f[n] = G(f, n)
    BY <2>1
  <2>5. \A n \in 0..(m + 1) : g[n] = G(g, n)
    BY <2>3, <2>4
  <2>6. g = [n \in 0..(m + 1) |-> G(g, n)]
    BY <2>5
  <2>7. Solved(m + 1)
    <3> HIDE DEF g
    <3> QED BY <2>6
  <2> HIDE DEF Solved
  <2> QED BY <2>7
<1>3. Solved(Len(args))
  <2> HIDE DEF S
  <2>1. \A m \in Nat : m \in S
    BY <1>1, <1>2, SetInduction
  <2> QED BY <2>1 DEF S
<1> QED BY <1>3 DEF AfterArgs

(* In the getopt loop the size of the recorder is a number: -F stores what  *)
(* parse_int returns, and no other option stores anything there. Only -v    *)
(* changes the level. Nothing succeeds before the checks behind the loop.   *)
LoopInv(o) ==
  /\ {"flight_recorder_size", "loglevel", "parsed", "dscp"} \subseteq DOMAIN o
  /\ o.flight_recorder_size \in Int
  /\ o.loglevel \in LOG_DEBUG..LOG_ERROR
  /\ o.parsed # "OPR_SUCCESS"

LEMMA StoreKeepsLoopInv ==
  ASSUME NEW o, LoopInv(o), NEW f, NEW v,
         f = "flight_recorder_size" => v \in Int,
         f = "loglevel" => v \in LOG_DEBUG..LOG_ERROR,
         f = "parsed" => v # "OPR_SUCCESS"
  PROVE  LoopInv([o EXCEPT ![f] = v])
<1> DEFINE p == [o EXCEPT ![f] = v]
<1>1. DOMAIN p = DOMAIN o
  OBVIOUS
<1>2. \A x \in DOMAIN o : p[x] = IF x = f THEN v ELSE o[x]
  OBVIOUS
<1> HIDE DEF p
<1>3. LoopInv(p)
  BY <1>1, <1>2 DEF LoopInv
<1> QED BY <1>3 DEF p

LEMMA TakeOptionKeepsLoopInv ==
  ASSUME NEW o, LoopInv(o), NEW arg, arg.c \in DOMAIN NumberField => arg.text.number \in Nat
  PROVE  LoopInv(TakeOption(o, arg))
<1>1. \A f, v : /\ f = "flight_recorder_size" => v \in Int
                /\ f = "loglevel" => v \in LOG_DEBUG..LOG_ERROR
                /\ f = "parsed" => v # "OPR_SUCCESS"
                => LoopInv([o EXCEPT ![f] = v])
  BY StoreKeepsLoopInv
<1>2. CASE o.parsed # "more"
  BY <1>2 DEF TakeOption
<1>3. CASE o.parsed = "more" /\ arg.c \in DOMAIN NumberField
  <2>1. parse_int(arg.text) \in Int
    BY <1>3 DEF parse_int
  <2>2. NumberField[arg.c] \notin {"parsed", "loglevel"}
    BY <1>3 DEF NumberField
  <2>3. LoopInv([o EXCEPT ![NumberField[arg.c]] = parse_int(arg.text)])
    BY <1>1, <2>1, <2>2
  <2> QED BY <1>3, <2>3 DEF TakeOption, NumberField, NameField, PassedOn, Result
<1>4. CASE o.parsed = "more" /\ arg.c \in DOMAIN NameField
  <2>1. NameField[arg.c] \notin {"flight_recorder_size", "loglevel", "parsed"}
    BY <1>4 DEF NameField
  <2>2. LoopInv([o EXCEPT ![NameField[arg.c]] = arg.text])
    BY <1>1, <2>1
  <2> QED BY <1>4, <2>2 DEF TakeOption, NumberField, NameField, PassedOn, Result
<1>5. CASE o.parsed = "more" /\ arg.c \in PassedOn
  BY <1>5 DEF TakeOption, NumberField, NameField, PassedOn, Result
<1>6. CASE o.parsed = "more" /\ arg.c = "v"
  <2>1. MoreVerbose(o.loglevel) \in LOG_DEBUG..LOG_ERROR
    BY DEF LoopInv, MoreVerbose, LOG_DEBUG, LOG_ERROR
  <2>2. LoopInv([o EXCEPT !.loglevel = MoreVerbose(o.loglevel)])
    BY <1>1, <2>1
  <2> QED BY <1>6, <2>2 DEF TakeOption, NumberField, NameField, PassedOn, Result
<1>7. CASE o.parsed = "more" /\ arg.c \in {"x", "q"}
  <2>1. LoopInv([o EXCEPT !.use_http_version = IF arg.c = "x" THEN 1 ELSE 3])
    BY <1>1
  <2>2. LoopInv([o EXCEPT !.parsed = "OPR_OPTION_ERROR"])
    BY <1>1
  <2> QED BY <1>7, <2>1, <2>2 DEF TakeOption, NumberField, NameField, PassedOn, Result
<1>8. CASE o.parsed = "more" /\ arg.c \in DOMAIN Result
  <2>1. Result[arg.c] # "OPR_SUCCESS"
    BY <1>8 DEF Result
  <2>2. LoopInv([o EXCEPT !.parsed = Result[arg.c]])
    BY <1>1, <2>1
  <2> QED BY <1>8, <2>2 DEF TakeOption, NumberField, NameField, PassedOn, Result
<1>9. CASE /\ o.parsed = "more"
           /\ arg.c \notin DOMAIN NumberField /\ arg.c \notin DOMAIN NameField
           /\ arg.c \notin PassedOn /\ arg.c # "v" /\ arg.c \notin {"x", "q"}
           /\ arg.c \notin DOMAIN Result
  <2>1. LoopInv([o EXCEPT !.parsed = "OPR_PARSING_ERROR"])
    BY <1>1
  <2> QED BY <1>9, <2>1 DEF TakeOption
<1> QED BY <1>2, <1>3, <1>4, <1>5, <1>6, <1>7, <1>8, <1>9

LEMMA LoopInvHolds ==
  ASSUME NEW args \in CommandLines
  PROVE  LoopInv(AfterArgs(args)[Len(args)])
<1> DEFINE S == {n \in Nat : n <= Len(args) => LoopInv(AfterArgs(args)[n])}
<1>1. Len(args) \in Nat
  BY CommandLinesAssumption
<1>2. 0 \in S
  BY <1>1, AfterArgsDef DEF LoopInv, options_init, LOG_DEBUG, LOG_ERROR
<1>3. ASSUME NEW n \in Nat, n \in S PROVE n + 1 \in S
  <2> SUFFICES ASSUME n + 1 <= Len(args) PROVE LoopInv(AfterArgs(args)[n + 1])
    OBVIOUS
  <2>1. n + 1 \in 1..Len(args) /\ n + 1 \in 0..Len(args) /\ (n + 1) - 1 = n /\ n <= Len(args)
    BY <1>1
  <2>2. AfterArgs(args)[n + 1] = TakeOption(AfterArgs(args)[n], args[n + 1])
    BY <1>1, <2>1, AfterArgsDef
  <2>3. LoopInv(AfterArgs(args)[n])
    BY <1>3, <2>1
  <2> QED BY <2>1, <2>2, <2>3, TakeOptionKeepsLoopInv, CommandLinesAssumption
<1> HIDE DEF S
<1>4. \A n \in Nat : n \in S
  BY <1>2, <1>3, SetInduction
<1> QED BY <1>1, <1>4 DEF S

(* What options_parse_args accepts has a recorder of a size it allows, and  *)
(* a level that -v can reach.                                               *)
LEMMA ParsedOptions ==
  ASSUME NEW args \in CommandLines
  PROVE  /\ options_parse_args(args).flight_recorder_size \in Int
         /\ options_parse_args(args).loglevel \in LOG_DEBUG..LOG_ERROR
         /\ options_parse_args(args).parsed = "OPR_SUCCESS" =>
              RecorderSizeOk(options_parse_args(args).flight_recorder_size)
<1> DEFINE o == AfterArgs(args)[Len(args)]
           done == [o EXCEPT !.parsed = "OPR_SUCCESS", !.dscp = @ * 4]
<1>1. LoopInv(o)
  BY LoopInvHolds
<1>2. options_parse_args(args) =
        IF o.parsed # "more" THEN o
        ELSE IF ~OptionsOk(o) THEN [o EXCEPT !.parsed = "OPR_OPTION_ERROR"] ELSE done
  BY DEF options_parse_args
<1> HIDE DEF o
<1>3. OptionsOk(o) => RecorderSizeOk(o.flight_recorder_size)
  BY PTL DEF OptionsOk
<1>4. done.flight_recorder_size = o.flight_recorder_size /\ done.loglevel = o.loglevel
  BY <1>1 DEF LoopInv
<1>5. LoopInv([o EXCEPT !.parsed = "OPR_OPTION_ERROR"])
  BY <1>1, StoreKeepsLoopInv
<1> HIDE DEF done
<1> QED BY <1>1, <1>2, <1>3, <1>4, <1>5 DEF LoopInv

-----------------------------------------------------------------------------

(* Where ring_buffer_dump finds the k-th entry of a full buffer. *)
SlotOf(next, size, k) == IF next + k <= size THEN next + k - 1 ELSE next + k - 1 - size

(* rb, of size n, holds the end of log, but for its oldest entry after a    *)
(* gap: a message there was no memory for.                                  *)
HoldsEnd(rb, n, log, gap) ==
  /\ n \in Nat \ {0}
  /\ rb \in [storage : [0..(n - 1) -> Nat], size : {n}, next : 0..(n - 1), full : BOOLEAN]
  /\ log \in Seq(Nat)
  /\ ~rb.full => Len(log) = rb.next /\ \A k \in 1..rb.next : rb.storage[k - 1] = log[k]
  /\ rb.full =>
       /\ Len(log) >= n
       /\ \A k \in 1..n : rb.storage[SlotOf(rb.next, n, k)] = log[Len(log) - n + k] \/ (k = 1 /\ gap)

LEMMA FreshHolds ==
  ASSUME NEW n \in Nat \ {0}, NEW gap PROVE HoldsEnd(ring_buffer_init(n), n, <<>>, gap)
BY DEF ring_buffer_init, HoldsEnd, Null

(* In a full buffer, what follows next is one place older after a push. *)
LEMMA SlotsRotate ==
  ASSUME NEW n \in Nat \ {0}, NEW p \in 0..(n - 1), NEW k \in 1..n, k < n,
         NEW q, q = IF p + 1 = n THEN 0 ELSE p + 1
  PROVE  /\ SlotOf(q, n, k) = SlotOf(p, n, k + 1)
         /\ SlotOf(p, n, k + 1) \in 0..(n - 1)
         /\ SlotOf(p, n, k + 1) # p
<1>1. CASE p + 1 = n
  BY <1>1 DEF SlotOf
<1>2. CASE p + 1 # n
  <2>1. q = p + 1
    BY <1>2
  <2> QED BY <2>1 DEF SlotOf
<1> QED BY <1>1, <1>2

(* Behind the last slot comes the first: the entry at next becomes the      *)
(* newest, and every other one is one place older.                          *)
LEMMA PushHolds ==
  ASSUME NEW rb, NEW n, NEW log, NEW gap, HoldsEnd(rb, n, log, gap), NEW entry \in Nat, NEW gap2
  PROVE  HoldsEnd(ring_buffer_push_back(rb, entry, TRUE), n, Append(log, entry), gap2)
<1> DEFINE new == ring_buffer_push_back(rb, entry, TRUE)
           log2 == Append(log, entry)
<1>1. /\ n \in Nat \ {0} /\ rb.size = n /\ rb.next \in 0..(n - 1) /\ rb.full \in BOOLEAN
      /\ rb.storage \in [0..(n - 1) -> Nat] /\ log \in Seq(Nat) /\ Len(log) \in Nat
      /\ rb = [storage |-> rb.storage, size |-> n, next |-> rb.next, full |-> rb.full]
  BY DEF HoldsEnd
<1>2. /\ new.storage = [rb.storage EXCEPT ![rb.next] = entry] /\ new.size = n
      /\ new.next = IF rb.next + 1 = n THEN 0 ELSE rb.next + 1
      /\ new.full = IF rb.next + 1 = n THEN TRUE ELSE rb.full
  BY <1>1 DEF ring_buffer_push_back, Advance
<1>3. new \in [storage : [0..(n - 1) -> Nat], size : {n}, next : 0..(n - 1), full : BOOLEAN]
  <2>1. new = [storage |-> [rb.storage EXCEPT ![rb.next] = entry], size |-> n,
               next |-> IF rb.next + 1 = n THEN 0 ELSE rb.next + 1,
               full |-> IF rb.next + 1 = n THEN TRUE ELSE rb.full]
    BY <1>1 DEF ring_buffer_push_back, Advance
  <2>2. (IF rb.next + 1 = n THEN 0 ELSE rb.next + 1) \in 0..(n - 1)
    BY <1>1
  <2>3. [rb.storage EXCEPT ![rb.next] = entry] \in [0..(n - 1) -> Nat]
    BY <1>1
  <2>4. (IF rb.next + 1 = n THEN TRUE ELSE rb.full) \in BOOLEAN
    BY <1>1
  <2> HIDE DEF new
  <2> QED BY <2>1, <2>2, <2>3, <2>4
<1>4. /\ log2 \in Seq(Nat) /\ Len(log2) = Len(log) + 1 /\ log2[Len(log) + 1] = entry
      /\ \A k \in 1..Len(log) : log2[k] = log[k]
  BY <1>1
<1> HIDE DEF new, log2
<1>5. ASSUME ~new.full
      PROVE  Len(log2) = new.next /\ \A k \in 1..new.next : new.storage[k - 1] = log2[k]
  <2>1. ~rb.full /\ rb.next + 1 # n /\ new.next = rb.next + 1
    BY <1>2, <1>5
  <2>2. Len(log) = rb.next /\ \A k \in 1..rb.next : rb.storage[k - 1] = log[k]
    BY <2>1 DEF HoldsEnd
  <2>3. ASSUME NEW k \in 1..new.next PROVE new.storage[k - 1] = log2[k]
    <3>1. CASE k = rb.next + 1
      <4>1. k - 1 = rb.next
        BY <1>1, <3>1
      <4>2. new.storage[k - 1] = entry
        BY <1>1, <1>2, <4>1
      <4> QED BY <1>4, <2>2, <3>1, <4>2
    <3>2. CASE k # rb.next + 1
      <4>1. k \in 1..rb.next /\ k - 1 \in 0..(n - 1) /\ k - 1 # rb.next
        BY <1>1, <2>1, <3>2
      <4>2. new.storage[k - 1] = log[k]
        BY <1>1, <1>2, <2>2, <4>1
      <4> QED BY <1>4, <2>2, <4>1, <4>2
    <3> QED BY <3>1, <3>2
  <2>4. Len(log2) = new.next
    BY <1>4, <2>1, <2>2
  <2> QED BY <2>3, <2>4
<1>6. ASSUME new.full
      PROVE  /\ Len(log2) >= n
             /\ \A k \in 1..n : new.storage[SlotOf(new.next, n, k)] = log2[Len(log2) - n + k]
  <2>1. CASE rb.full
    <3>1. Len(log) >= n
      BY <2>1 DEF HoldsEnd
    <3>2. ASSUME NEW k \in 1..n, k < n
          PROVE  new.storage[SlotOf(new.next, n, k)] = log2[Len(log2) - n + k]
      <4>1. SlotOf(new.next, n, k) = SlotOf(rb.next, n, k + 1) /\ SlotOf(rb.next, n, k + 1) \in 0..(n - 1)
            /\ SlotOf(rb.next, n, k + 1) # rb.next
        BY <1>1, <1>2, <3>2, SlotsRotate
      <4>2. rb.storage[SlotOf(rb.next, n, k + 1)] = log[Len(log) - n + (k + 1)]
        <5>1. k + 1 \in 1..n /\ k + 1 # 1
          BY <1>1, <3>2
        <5> QED BY <2>1, <5>1 DEF HoldsEnd
      <4>3. new.storage[SlotOf(new.next, n, k)] = rb.storage[SlotOf(rb.next, n, k + 1)]
        BY <1>1, <1>2, <4>1
      <4>4. log2[Len(log2) - n + k] = log[Len(log) - n + (k + 1)]
        <5>1. Len(log2) - n + k = Len(log) - n + (k + 1) /\ Len(log) - n + (k + 1) \in 1..Len(log)
          <6> DEFINE a == Len(log)
                     b == Len(log2)
          <6>0. n \in Nat /\ k \in Nat \ {0} /\ k < n
            BY <1>1, <3>2
          <6>1. a \in Nat /\ b = a + 1 /\ a >= n
            BY <1>1, <1>4, <3>1, Zenon
          <6> HIDE DEF a, b
          <6>2. b - n + k = a - n + (k + 1) /\ a - n + (k + 1) \in 1..a
            BY <6>0, <6>1
          <6> QED BY <6>2 DEF a, b
        <5> QED BY <1>4, <5>1
      <4> QED BY <4>2, <4>3, <4>4
    <3>3. new.storage[SlotOf(new.next, n, n)] = log2[Len(log2) - n + n]
      <4>1. SlotOf(new.next, n, n) = rb.next
        BY <1>1, <1>2 DEF SlotOf
      <4>2. Len(log2) - n + n = Len(log) + 1
        BY <1>1, <1>4
      <4> QED BY <1>1, <1>2, <1>4, <4>1, <4>2
    <3>4. \A k \in 1..n : k < n \/ k = n
      BY <1>1
    <3>5. Len(log2) >= n
      BY <1>1, <1>4, <3>1
    <3> QED BY <3>2, <3>3, <3>4, <3>5
  <2>2. CASE ~rb.full
    <3>1. rb.next + 1 = n /\ new.next = 0
      BY <1>2, <1>6, <2>2
    <3>2. Len(log) = rb.next /\ \A k \in 1..rb.next : rb.storage[k - 1] = log[k]
      BY <2>2 DEF HoldsEnd
    <3>3. Len(log2) = n
      BY <1>1, <1>4, <3>1, <3>2
    <3>4. ASSUME NEW k \in 1..n
          PROVE  new.storage[SlotOf(new.next, n, k)] = log2[Len(log2) - n + k]
      <4>1. SlotOf(new.next, n, k) = k - 1 /\ Len(log2) - n + k = k
        BY <1>1, <1>2, <3>1, <3>3 DEF SlotOf
      <4>2. CASE k = n
        <5>1. k - 1 = rb.next /\ k = Len(log) + 1
          BY <1>1, <3>1, <3>2, <4>2
        <5>2. new.storage[k - 1] = entry
          BY <1>1, <1>2, <5>1
        <5> QED BY <1>4, <4>1, <5>1, <5>2
      <4>3. CASE k # n
        <5>1. k \in 1..rb.next /\ k - 1 # rb.next /\ k - 1 \in 0..(n - 1)
          BY <1>1, <3>1, <4>3
        <5>2. new.storage[k - 1] = log[k]
          BY <1>1, <1>2, <3>2, <5>1
        <5> QED BY <1>4, <3>2, <4>1, <5>1, <5>2
      <4> QED BY <4>2, <4>3
    <3> QED BY <1>1, <3>3, <3>4
  <2> QED BY <2>1, <2>2
<1> QED BY <1>1, <1>3, <1>4, <1>5, <1>6 DEF HoldsEnd, new, log2

LEMMA FailedPushHolds ==
  ASSUME NEW rb, NEW n, NEW log, NEW gap, HoldsEnd(rb, n, log, gap), NEW entry
  PROVE  HoldsEnd(ring_buffer_push_back(rb, entry, FALSE), n, log, TRUE)
<1> DEFINE new == ring_buffer_push_back(rb, entry, FALSE)
<1>1. /\ n \in Nat \ {0} /\ rb.size = n /\ rb.next \in 0..(n - 1) /\ rb.full \in BOOLEAN
      /\ rb.storage \in [0..(n - 1) -> Nat] /\ log \in Seq(Nat) /\ Len(log) \in Nat
      /\ rb = [storage |-> rb.storage, size |-> n, next |-> rb.next, full |-> rb.full]
  BY DEF HoldsEnd
<1>2. new = [storage |-> [rb.storage EXCEPT ![rb.next] = 0], size |-> n,
             next |-> rb.next, full |-> rb.full]
  BY <1>1 DEF ring_buffer_push_back, Null
<1>3. [rb.storage EXCEPT ![rb.next] = 0] \in [0..(n - 1) -> Nat]
  BY <1>1
<1> HIDE DEF new
<1>4. new \in [storage : [0..(n - 1) -> Nat], size : {n}, next : 0..(n - 1), full : BOOLEAN]
  BY <1>1, <1>2, <1>3
<1>5. /\ new.next = rb.next /\ new.full = rb.full
      /\ \A i \in 0..(n - 1) : i # rb.next => new.storage[i] = rb.storage[i]
  BY <1>1, <1>2
<1>6. ASSUME ~new.full
      PROVE  Len(log) = new.next /\ \A k \in 1..new.next : new.storage[k - 1] = log[k]
  <2>1. Len(log) = rb.next /\ \A k \in 1..rb.next : rb.storage[k - 1] = log[k]
    BY <1>5, <1>6 DEF HoldsEnd
  <2>2. \A k \in 1..rb.next : k - 1 \in 0..(n - 1) /\ k - 1 # rb.next
    BY <1>1
  <2> QED BY <1>5, <2>1, <2>2
<1>7. ASSUME new.full
      PROVE  /\ Len(log) >= n
             /\ \A k \in 1..n : new.storage[SlotOf(new.next, n, k)] = log[Len(log) - n + k] \/ k = 1
  <2>1. /\ Len(log) >= n
        /\ \A k \in 1..n : rb.storage[SlotOf(rb.next, n, k)] = log[Len(log) - n + k] \/ k = 1
    BY <1>5, <1>7 DEF HoldsEnd
  <2>2. \A k \in 1..n : k # 1 => SlotOf(rb.next, n, k) \in 0..(n - 1) /\ SlotOf(rb.next, n, k) # rb.next
    BY <1>1 DEF SlotOf
  <2> QED BY <1>5, <2>1, <2>2
<1> QED BY <1>1, <1>4, <1>6, <1>7 DEF HoldsEnd, new

(* What RecorderHoldsTheLast asks of a dump. *)
ShowsEnd(dump, n, log, gap) ==
  /\ Len(dump) = IF Len(log) < n THEN Len(log) ELSE n
  /\ \A k \in 1..Len(dump) :
       dump[k] = log[Len(log) - Len(dump) + k] \/ (k = 1 /\ Len(dump) = n /\ gap)

LEMMA DumpShowsEnd ==
  ASSUME NEW rb, NEW n, NEW log, NEW gap, HoldsEnd(rb, n, log, gap)
  PROVE  ShowsEnd(ring_buffer_dump(rb), n, log, gap)
<1> DEFINE dump == ring_buffer_dump(rb)
           len == IF rb.full THEN n ELSE rb.next
<1>1. /\ n \in Nat \ {0} /\ rb.size = n /\ rb.next \in 0..(n - 1) /\ rb.full \in BOOLEAN
      /\ rb.storage \in [0..(n - 1) -> Nat] /\ Len(log) \in Nat
  BY DEF HoldsEnd
<1>2. len \in Nat
  BY <1>1
<1>3. dump = [k \in 1..len |-> rb.storage[SlotOf(DumpStart(rb), n, k)]]
  BY <1>1 DEF ring_buffer_dump, SlotOf
<1> HIDE DEF dump, len
<1>4. Len(dump) = len
  BY <1>2, <1>3
<1>5. CASE rb.full
  <2>1. len = n /\ DumpStart(rb) = rb.next
    BY <1>5 DEF len, DumpStart
  <2>2. /\ Len(log) >= n
        /\ \A k \in 1..n : rb.storage[SlotOf(rb.next, n, k)] = log[Len(log) - n + k] \/ (k = 1 /\ gap)
    BY <1>5 DEF HoldsEnd
  <2>3. n = IF Len(log) < n THEN Len(log) ELSE n
    BY <1>1, <2>2
  <2>4. \A k \in 1..n : dump[k] = log[Len(log) - n + k] \/ (k = 1 /\ gap)
    BY <1>3, <2>1, <2>2
  <2>5. Len(dump) = n
    BY <1>4, <2>1
  <2> QED BY <2>3, <2>4, <2>5 DEF dump, ShowsEnd
<1>6. CASE ~rb.full
  <2>1. len = rb.next /\ DumpStart(rb) = 0
    BY <1>6 DEF len, DumpStart
  <2>2. Len(log) = rb.next /\ \A k \in 1..rb.next : rb.storage[k - 1] = log[k]
    BY <1>6 DEF HoldsEnd
  <2>3. Len(log) < n
    BY <1>1, <2>2
  <2>4. \A k \in 1..rb.next : SlotOf(0, n, k) = k - 1 /\ Len(log) - rb.next + k = k
    BY <1>1, <2>2 DEF SlotOf
  <2>5. \A k \in 1..rb.next : dump[k] = log[Len(log) - rb.next + k]
    BY <1>3, <2>1, <2>2, <2>4
  <2> QED BY <1>4, <2>1, <2>2, <2>3, <2>5, Zenon DEF dump, ShowsEnd
<1> QED BY <1>1, <1>5, <1>6

-----------------------------------------------------------------------------
(* The recorder is set up once, before the first message. *)
Inv ==
  /\ count \in Nat
  /\ kept \in Seq(Nat)
  /\ phase = "options" => kept = <<>> /\ ~Recording /\ ~async_sent
  /\ Recording => HoldsEnd(flight_recorder, opt.flight_recorder_size, kept, lost = count)

LEMMA RecordKeepsInv ==
  ASSUME Inv, phase # "options", NEW has_memory \in BOOLEAN, Record(has_memory),
         opt' = opt, phase' # "options"
  PROVE  Inv'
<1>1. count \in Nat /\ count' = count + 1 /\ count' \in Nat
  BY DEF Inv, Record
<1>2. CASE ~Recording
  <2>1. kept' = kept /\ flight_recorder' = flight_recorder
    BY <1>2 DEF Record
  <2> QED BY <1>1, <1>2, <2>1 DEF Inv, Recording
<1>3. CASE Recording /\ has_memory
  <2>1. /\ kept' = Append(kept, count')
        /\ flight_recorder' = ring_buffer_push_back(flight_recorder, count', TRUE)
    BY <1>3 DEF Record
  <2>2. HoldsEnd(flight_recorder, opt.flight_recorder_size, kept, lost = count)
    BY <1>3 DEF Inv
  <2>3. HoldsEnd(flight_recorder', opt.flight_recorder_size, kept', lost' = count')
    BY <1>1, <2>1, <2>2, PushHolds
  <2>4. kept' \in Seq(Nat)
    BY <1>1, <2>1 DEF Inv
  <2> QED BY <1>1, <2>3, <2>4 DEF Inv
<1>4. CASE Recording /\ ~has_memory
  <2>1. /\ kept' = kept /\ lost' = count'
        /\ flight_recorder' = ring_buffer_push_back(flight_recorder, count', FALSE)
    BY <1>4 DEF Record
  <2>2. HoldsEnd(flight_recorder, opt.flight_recorder_size, kept, lost = count)
    BY <1>4 DEF Inv
  <2>3. HoldsEnd(flight_recorder', opt.flight_recorder_size, kept, TRUE)
    BY <2>1, <2>2, FailedPushHolds
  <2>4. HoldsEnd(flight_recorder', opt.flight_recorder_size, kept', lost' = count')
    BY <2>1, <2>3 DEF HoldsEnd
  <2> QED BY <1>1, <2>1, <2>4 DEF Inv
<1> QED BY <1>2, <1>3, <1>4

LEMMA StartKeepsInv ==
  ASSUME Inv, NEW args \in CommandLines, NEW opened \in BOOLEAN, NEW has_memory \in BOOLEAN,
         start(args, opened, has_memory)
  PROVE  Inv'
<1>1. /\ phase = "options" /\ kept = <<>> /\ ~Recording /\ count \in Nat
      /\ kept' = kept /\ count' = count /\ lost' = lost
      /\ phase' # "options" /\ opt' = options_parse_args(args)
  BY DEF start, Inv
<1>2. opt'.flight_recorder_size \in Int
  BY <1>1, ParsedOptions
<1>3. CASE flight_recorder' = NoBuffer
  BY <1>1, <1>3 DEF Inv, Recording
<1>4. CASE flight_recorder' = ring_buffer_init(opt'.flight_recorder_size) /\ opt'.flight_recorder_size >= 1
  <2>1. opt'.flight_recorder_size \in Nat \ {0}
    BY <1>2, <1>4
  <2>2. HoldsEnd(flight_recorder', opt'.flight_recorder_size, kept', lost' = count')
    BY <1>1, <1>4, <2>1, FreshHolds
  <2> QED BY <1>1, <2>2 DEF Inv
<1> QED BY <1>1, <1>3, <1>4 DEF start, Recording

LEMMA NextKeepsInv ==
  ASSUME Inv, [Next]_vars PROVE Inv'
<1>1. ASSUME NEW args \in CommandLines, NEW opened \in BOOLEAN, NEW has_memory \in BOOLEAN,
             start(args, opened, has_memory)
      PROVE  Inv'
  BY <1>1, StartKeepsInv
<1>2. ASSUME NEW severity \in LOG_DEBUG..LOG_FATAL, NEW has_memory \in BOOLEAN,
             Message(severity, has_memory)
      PROVE  Inv'
  <2>1. phase # "options" /\ phase' # "options" /\ Record(has_memory) /\ opt' = opt
    BY <1>2 DEF Message, Running
  <2> QED BY <2>1, RecordKeepsInv
<1>3. ASSUME UNCHANGED <<opt, recVars>>, phase' # "options" \/ (phase' = phase /\ (async_sent' => async_sent))
      PROVE  Inv'
  BY <1>3 DEF Inv, recVars, Recording
<1>4. CASE logging_events_init \/ logging_timer_cb \/ Sigusr2 \/ logging_events_cleanup
  <2>1. CASE logging_events_init \/ logging_events_cleanup
    BY <1>3, <2>1 DEF logging_events_init, logging_events_cleanup
  <2>2. CASE logging_timer_cb
    <3>1. UNCHANGED <<opt, recVars, phase, async_sent>>
      BY <2>2 DEF logging_timer_cb, eventVars
    <3> QED BY <1>3, <3>1
  <2>3. CASE Sigusr2
    <3>1. UNCHANGED <<opt, recVars>> /\ phase' # "options"
      BY <2>3 DEF Sigusr2, Running
    <3> QED BY <1>3, <3>1
  <2> QED BY <1>4, <2>1, <2>2, <2>3
<1>5. ASSUME NEW has_memory \in BOOLEAN,
             logging_flight_recorder_dump_async_cb(has_memory) \/ multi_sock_cb(has_memory)
      PROVE  Inv'
  <2>1. /\ phase # "options" /\ opt' = opt /\ phase' = phase
        /\ logging_flight_recorder_dump(has_memory)
    BY <1>5 DEF logging_flight_recorder_dump_async_cb, multi_sock_cb, logging_flight_recorder_dump
  <2>2. CASE Wanted(LOG_INFO)
    <3>1. Record(has_memory)
      BY <2>1, <2>2 DEF logging_flight_recorder_dump
    <3> QED BY <2>1, <3>1, RecordKeepsInv
  <2>3. CASE ~Wanted(LOG_INFO)
    BY <1>3, <2>1, <2>3 DEF logging_flight_recorder_dump
  <2> QED BY <2>2, <2>3
<1>6. CASE logging_cleanup
  BY <1>6 DEF Inv, logging_cleanup, Recording
<1>7. CASE UNCHANGED vars
  <2>1. UNCHANGED <<opt, recVars, phase, async_sent>>
    BY <1>7 DEF vars, eventVars
  <2> QED BY <1>3, <2>1
<1> QED BY <1>1, <1>2, <1>4, <1>5, <1>6, <1>7 DEF Next, Ended

LEMMA InvHolds == Spec => []Inv
<1>1. Init => Inv
  BY DEF Init, Inv, Recording
<1>2. Inv /\ [Next]_vars => Inv'
  BY NextKeepsInv
<1> QED BY <1>1, <1>2, PTL DEF Spec

(* ring_buffer_push_back and ring_buffer_dump: a dump shows the end of what *)
(* was logged, for every size of the recorder, wherever it wraps.           *)
THEOREM RecorderIsRight == Spec => []RecorderHoldsTheLast
<1>1. Inv => RecorderHoldsTheLast
  <2> SUFFICES ASSUME Inv, Recording PROVE RecorderHoldsTheLast
    BY DEF RecorderHoldsTheLast
  <2> DEFINE gap == lost = count
  <2>1. HoldsEnd(flight_recorder, opt.flight_recorder_size, kept, gap)
    BY DEF Inv
  <2> HIDE DEF gap
  <2>2. ShowsEnd(ring_buffer_dump(flight_recorder), opt.flight_recorder_size, kept, gap)
    BY <2>1, DumpShowsEnd
  <2> QED BY <2>2 DEF gap, ShowsEnd, RecorderHoldsTheLast
<1> QED BY <1>1, InvHolds, PTL

(* The memory of the recorder, from the command line to the buffer: its     *)
(* size is what -F asked for and within the limits options_parse_args sets. *)
RecorderSize ==
  Recording => /\ flight_recorder.size = opt.flight_recorder_size
               /\ flight_recorder.size \in MIN_FLIGHT_RECORDER..MAX_FLIGHT_RECORDER

SizeChecked == Recording => RecorderSizeOk(opt.flight_recorder_size)

LEMMA SizeStaysChecked ==
  ASSUME SizeChecked, Inv, [Next]_vars PROVE SizeChecked'
<1>1. CASE UNCHANGED opt /\ (Recording' => Recording)
  BY <1>1 DEF SizeChecked
<1>2. ASSUME NEW args \in CommandLines, NEW opened \in BOOLEAN, NEW has_memory \in BOOLEAN,
             start(args, opened, has_memory)
      PROVE  SizeChecked'
  <2>1. ~Recording
    BY <1>2 DEF start, Inv
  <2>2. CASE opt'.parsed = "OPR_SUCCESS"
    <3>1. RecorderSizeOk(opt'.flight_recorder_size)
      BY <1>2, <2>2, ParsedOptions DEF start
    <3> QED BY <3>1 DEF SizeChecked
  <2>3. CASE opt'.parsed # "OPR_SUCCESS"
    BY <1>2, <2>1, <2>3 DEF start, SizeChecked, Recording
  <2> QED BY <2>2, <2>3
<1>3. ASSUME NEW has_memory \in BOOLEAN, Record(has_memory) PROVE Recording' => Recording
  BY <1>3 DEF Record, Recording
<1>4. ASSUME NEW severity \in LOG_DEBUG..LOG_FATAL, NEW has_memory \in BOOLEAN,
             Message(severity, has_memory)
      PROVE  SizeChecked'
  BY <1>1, <1>3, <1>4 DEF Message
<1>5. ASSUME NEW has_memory \in BOOLEAN,
             logging_flight_recorder_dump_async_cb(has_memory) \/ multi_sock_cb(has_memory)
      PROVE  SizeChecked'
  BY <1>1, <1>3, <1>5 DEF logging_flight_recorder_dump_async_cb, multi_sock_cb,
                          logging_flight_recorder_dump, recVars, Recording
<1>6. CASE logging_events_init \/ logging_timer_cb \/ Sigusr2 \/ logging_events_cleanup
  BY <1>1, <1>6 DEF logging_events_init, logging_timer_cb, Sigusr2, logging_events_cleanup,
                    recVars, Recording
<1>7. CASE logging_cleanup
  BY <1>1, <1>7 DEF logging_cleanup, Recording
<1>8. CASE UNCHANGED vars
  BY <1>1, <1>8 DEF vars, recVars, Recording
<1> QED BY <1>2, <1>4, <1>5, <1>6, <1>7, <1>8 DEF Next, Ended

(* options_parse_args, logging_init and ring_buffer_init agree on the size  *)
(* of the recorder: no command line leads to a buffer larger than allowed.  *)
THEOREM RecorderIsBounded == Spec => []RecorderSize
<1>1. Init => SizeChecked
  BY DEF Init, SizeChecked, Recording
<1>2. Inv /\ SizeChecked /\ [Next]_vars => SizeChecked'
  BY SizeStaysChecked
<1>3. Inv /\ SizeChecked => RecorderSize
  <2> SUFFICES ASSUME Inv, SizeChecked, Recording PROVE RecorderSize
    BY DEF RecorderSize
  <2>1. HoldsEnd(flight_recorder, opt.flight_recorder_size, kept, lost = count)
    BY DEF Inv
  <2>2. flight_recorder.size = opt.flight_recorder_size /\ opt.flight_recorder_size # 0
    BY <2>1 DEF HoldsEnd
  <2> QED BY <2>2 DEF RecorderSize, SizeChecked, RecorderSizeOk
<1> QED BY <1>1, <1>2, <1>3, InvHolds, PTL DEF Spec

-----------------------------------------------------------------------------
(* Lines in the buffer of the file: the safety half of LinesAreFlushed.     *)

(* A line in the buffer of the file has someone to flush it: the timer in   *)
(* the loop, and outside it main(), which goes on to the loop or to         *)
(* logging_cleanup. Only a signal before or after the loop loses the line.  *)
LinesHaveAFlusher ==
  unflushed => \/ phase = "loop" /\ logging_timer
               \/ phase \in {"setup", "drain", "killed"}

(* The timer is left out if nothing below LOG_FLUSH_LEVEL is written, and a *)
(* line is left unflushed only if it is below.                              *)
FlushInv ==
  /\ loglevel \in LOG_DEBUG..LOG_ERROR
  /\ logging_timer \in BOOLEAN
  /\ phase = "loop" => logging_timer = NeedsTimer
  /\ unflushed => NeedsTimer /\ phase \in {"setup", "loop", "drain", "killed"}

LEMMA LineBelowLevel ==
  ASSUME NEW level \in LOG_DEBUG..LOG_ERROR, NEW severity \in LOG_DEBUG..LOG_FATAL,
         severity >= level, severity < LOG_FLUSH_LEVEL
  PROVE  level < LOG_FLUSH_LEVEL /\ severity # LOG_FATAL
  BY DEF LOG_DEBUG, LOG_ERROR, LOG_FATAL, LOG_FLUSH_LEVEL, LOG_WARNING

LEMMA FatalIsWritten ==
  ASSUME NEW level \in LOG_DEBUG..LOG_ERROR PROVE LOG_FATAL >= level /\ ~(LOG_FATAL < LOG_FLUSH_LEVEL)
  BY DEF LOG_DEBUG, LOG_ERROR, LOG_FATAL, LOG_FLUSH_LEVEL, LOG_WARNING

LEMMA InfoIsBelow ==
  ASSUME NEW level \in LOG_DEBUG..LOG_ERROR, LOG_INFO >= level PROVE level < LOG_FLUSH_LEVEL
  BY DEF LOG_DEBUG, LOG_INFO, LOG_ERROR, LOG_FLUSH_LEVEL, LOG_WARNING

LEMMA MessageKeepsFlush ==
  ASSUME FlushInv, NEW severity \in LOG_DEBUG..LOG_FATAL, NEW has_memory \in BOOLEAN,
         Message(severity, has_memory)
  PROVE  FlushInv'
<1>1. /\ UNCHANGED <<loglevel, logging_timer>> /\ phase \in {"setup", "loop", "drain"}
      /\ phase' = IF severity = LOG_FATAL THEN "fatal" ELSE phase
      /\ unflushed' = IF severity >= loglevel THEN severity < LOG_FLUSH_LEVEL ELSE unflushed
  BY DEF Message, Running, WriteLine, eventVars
<1>2. loglevel \in LOG_DEBUG..LOG_ERROR
  BY DEF FlushInv
<1>3. unflushed' => loglevel < LOG_FLUSH_LEVEL
  BY <1>1, <1>2, LineBelowLevel DEF FlushInv, NeedsTimer
<1>4. severity = LOG_FATAL => ~unflushed'
  BY <1>1, <1>2, FatalIsWritten
<1>5. unflushed' => phase' = phase
  BY <1>1, <1>4
<1>6. phase' = "loop" => phase = "loop"
  BY <1>1
<1> QED BY <1>1, <1>2, <1>3, <1>5, <1>6, Zenon DEF FlushInv, NeedsTimer

LEMMA NextKeepsFlush == ASSUME FlushInv, [Next]_vars PROVE FlushInv'
<1>1. ASSUME NEW args \in CommandLines, NEW opened \in BOOLEAN, NEW has_memory \in BOOLEAN,
             start(args, opened, has_memory)
      PROVE  FlushInv'
  <2>1. /\ phase = "options" /\ phase' \in {"setup", "exit"} /\ opt' = options_parse_args(args)
        /\ loglevel' = opt'.loglevel \/ loglevel' = loglevel
        /\ UNCHANGED <<unflushed, logging_timer>>
    BY <1>1 DEF start, eventVars
  <2>2. opt'.loglevel \in LOG_DEBUG..LOG_ERROR
    BY <2>1, ParsedOptions
  <2> QED BY <2>1, <2>2 DEF FlushInv
<1>2. ASSUME NEW severity \in LOG_DEBUG..LOG_FATAL, NEW has_memory \in BOOLEAN,
             Message(severity, has_memory)
      PROVE  FlushInv'
  BY <1>2, MessageKeepsFlush
<1>3. CASE logging_events_init
  <2>1. /\ phase = "setup" /\ phase' = "loop" /\ UNCHANGED <<loglevel, unflushed>>
        /\ logging_timer' = NeedsTimer
    BY <1>3 DEF logging_events_init, fileVars
  <2> QED BY <2>1 DEF FlushInv, NeedsTimer
<1>4. ASSUME NEW has_memory \in BOOLEAN,
             logging_flight_recorder_dump_async_cb(has_memory) \/ multi_sock_cb(has_memory)
      PROVE  FlushInv'
  <2>1. /\ phase \in {"loop", "drain"} /\ UNCHANGED <<phase, loglevel, logging_timer>>
        /\ unflushed' => unflushed \/ LOG_INFO >= loglevel
    BY <1>4 DEF logging_flight_recorder_dump_async_cb, multi_sock_cb, logging_flight_recorder_dump
  <2>2. unflushed' => NeedsTimer
    BY <2>1, InfoIsBelow DEF FlushInv, NeedsTimer
  <2> QED BY <2>1, <2>2, Zenon DEF FlushInv, NeedsTimer
<1>5. CASE logging_timer_cb \/ Sigusr2
  <2>1. /\ UNCHANGED <<loglevel, logging_timer>> /\ (unflushed' => unflushed)
        /\ phase' = phase \/ phase' = "killed"
    BY <1>5 DEF logging_timer_cb, Sigusr2, eventVars, fileVars
  <2> QED BY <2>1, Zenon DEF FlushInv, NeedsTimer
<1>6. CASE logging_events_cleanup \/ logging_cleanup
  <2>1. /\ loglevel' = loglevel /\ logging_timer' \in BOOLEAN
        /\ \/ phase' = "drain" /\ unflushed' = unflushed
           \/ phase' = "exit" /\ unflushed' = FALSE
    BY <1>6 DEF logging_events_cleanup, logging_cleanup, eventVars, fileVars, FlushInv
  <2> QED BY <2>1 DEF FlushInv, NeedsTimer
<1>7. CASE UNCHANGED vars
  <2>1. UNCHANGED <<phase, loglevel, logging_timer, unflushed>>
    BY <1>7 DEF vars, eventVars, fileVars
  <2> QED BY <2>1, Zenon DEF FlushInv, NeedsTimer
<1> QED BY <1>1, <1>2, <1>3, <1>4, <1>5, <1>6, <1>7 DEF Next, Ended

(* _log, logging_events_init and the command line agree: a level for which  *)
(* no flush timer is started leaves no line unflushed, in the loop or at a  *)
(* fatal end.                                                               *)
THEOREM NoLineIsForgotten == Spec => []LinesHaveAFlusher
<1>1. Init => FlushInv
  <2>1. LOG_ERROR \in LOG_DEBUG..LOG_ERROR
    BY DEF LOG_DEBUG, LOG_ERROR
  <2> QED BY <2>1 DEF Init, FlushInv
<1>2. FlushInv /\ [Next]_vars => FlushInv'
  BY NextKeepsFlush
<1>3. FlushInv => LinesHaveAFlusher
  <2> SUFFICES ASSUME FlushInv, unflushed PROVE LinesHaveAFlusher
    BY DEF LinesHaveAFlusher
  <2>1. NeedsTimer /\ phase \in {"setup", "loop", "drain", "killed"}
    BY DEF FlushInv
  <2>2. phase = "loop" => logging_timer
    BY <2>1 DEF FlushInv
  <2> QED BY <2>1, <2>2 DEF LinesHaveAFlusher
<1> QED BY <1>1, <1>2, <1>3, PTL DEF Spec

-----------------------------------------------------------------------------
(* The safety half of SignalLeadsToDump: a signal that was taken is not     *)
(* forgotten. Its dump ends with a message that is newer than all logged    *)
(* before, unless there was no memory for it or the loop is broken first.   *)
SignalIsDumped ==
  async_sent /\ ~async_sent' /\ Recording =>
    \/ phase' = "drain"
    \/ lost' = count'
    \/ dumped' # <<>> /\ count' = count + 1 /\ dumped'[Len(dumped')] = count'

(* The end of a buffer that holds the end of log is the end of log. *)
LEMMA DumpEnds ==
  ASSUME NEW rb, NEW n, NEW log, NEW gap, HoldsEnd(rb, n, log, gap), Len(log) \in Nat \ {0}
  PROVE  LET dump == ring_buffer_dump(rb)
         IN  dump # <<>> /\ (dump[Len(dump)] = log[Len(log)] \/ gap)
<1> DEFINE dump == ring_buffer_dump(rb)
<1>1. ShowsEnd(dump, n, log, gap) /\ n \in Nat \ {0}
  BY DumpShowsEnd DEF HoldsEnd
<1> HIDE DEF dump
<1>2. Len(dump) \in Nat \ {0} /\ Len(dump) \in 1..Len(dump)
  BY <1>1 DEF ShowsEnd
<1>3. dump[Len(dump)] = log[Len(log) - Len(dump) + Len(dump)] \/ gap
  BY <1>1, <1>2 DEF ShowsEnd
<1>4. Len(log) - Len(dump) + Len(dump) = Len(log)
  BY <1>2
<1>5. dump # <<>>
  BY <1>2
<1> QED BY <1>3, <1>4, <1>5 DEF dump

LEMMA DumpShowsItsMessage ==
  ASSUME Inv, NEW has_memory \in BOOLEAN, logging_flight_recorder_dump(has_memory), Recording
  PROVE  \/ lost' = count'
         \/ dumped' # <<>> /\ count' = count + 1 /\ dumped'[Len(dumped')] = count'
<1>1. /\ opt' = opt
      /\ Record(has_memory) /\ dumped' = ring_buffer_dump(flight_recorder')
  BY DEF logging_flight_recorder_dump, Wanted, Dump
<1>2. count' = count + 1 /\ count' \in Nat
  BY <1>1 DEF Record, Inv
<1>3. CASE ~has_memory
  BY <1>1, <1>3 DEF Record
<1>4. CASE has_memory
  <2>1. /\ kept' = Append(kept, count') /\ kept \in Seq(Nat)
        /\ flight_recorder' = ring_buffer_push_back(flight_recorder, count', TRUE)
    BY <1>1, <1>4 DEF Record, Inv
  <2>2. Len(kept') = Len(kept) + 1 /\ Len(kept) \in Nat /\ kept'[Len(kept')] = count'
    BY <1>2, <2>1
  <2> DEFINE gap == lost' = count'
  <2>3. HoldsEnd(flight_recorder', opt.flight_recorder_size, kept', gap)
    <3>1. HoldsEnd(flight_recorder, opt.flight_recorder_size, kept, lost = count)
      BY DEF Inv
    <3> QED BY <1>2, <2>1, <3>1, PushHolds
  <2> HIDE DEF gap
  <2>4. dumped' # <<>> /\ (dumped'[Len(dumped')] = kept'[Len(kept')] \/ gap)
    BY <1>1, <2>2, <2>3, DumpEnds
  <2> QED BY <1>2, <2>2, <2>4 DEF gap
<1> QED BY <1>3, <1>4

(* logging_flight_recorder_dump_cb defers to the loop: what it asks for is  *)
(* done with all that was logged until then, whatever was logged between.   *)
THEOREM SignalsAreDumped == Spec => [][SignalIsDumped]_vars
<1>1. Inv /\ [Next]_vars => [SignalIsDumped]_vars
  <2> SUFFICES ASSUME Inv, Next, async_sent, ~async_sent', Recording
               PROVE  \/ phase' = "drain"
                      \/ lost' = count'
                      \/ dumped' # <<>> /\ count' = count + 1 /\ dumped'[Len(dumped')] = count'
    BY DEF SignalIsDumped
  <2>1. CASE \E has_memory \in BOOLEAN : logging_flight_recorder_dump_async_cb(has_memory)
    BY <2>1, DumpShowsItsMessage DEF logging_flight_recorder_dump_async_cb
  <2>2. CASE logging_events_cleanup
    BY <2>2 DEF logging_events_cleanup
  <2>3. CASE Sigusr2
    BY <2>3 DEF Sigusr2
  <2>4. CASE UNCHANGED async_sent
    BY <2>4
  <2> QED BY <2>1, <2>2, <2>3, <2>4
          DEF Next, start, Message, logging_events_init, logging_timer_cb, multi_sock_cb,
              logging_cleanup, Ended,
              eventVars, vars
<1> QED BY <1>1, InvHolds, PTL DEF Spec
=============================================================================
