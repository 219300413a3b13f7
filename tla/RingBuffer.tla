----------------------------- MODULE RingBuffer -----------------------------
(***************************************************************************)
(* The ring buffer of the flight recorder (src/ring_buffer.c). An entry is *)
(* the number of a log message, or Null; its text is left out.             *)
(***************************************************************************)
EXTENDS Integers, Sequences

Null == 0
NoBuffer == [storage |-> <<>>, size |-> 0, next |-> 0, full |-> FALSE]

ring_buffer_init(size) ==
  [storage |-> [i \in 0..(size - 1) |-> Null], size |-> size, next |-> 0, full |-> FALSE]

(* The slot behind the last one used. *)
Advance(rb) ==
  IF rb.next + 1 = rb.size THEN [rb EXCEPT !.next = 0, !.full = TRUE]
  ELSE [rb EXCEPT !.next = @ + 1]

(* The old entry is freed first; without memory for the new one its slot    *)
(* stays empty and is used again.                                           *)
ring_buffer_push_back(rb, entry, has_memory) ==
  IF has_memory THEN Advance([rb EXCEPT !.storage[rb.next] = entry])
  ELSE [rb EXCEPT !.storage[rb.next] = Null]

(* From the oldest entry to the newest. *)
DumpStart_AtNext(rb) == rb.next

DumpStart(rb) == IF rb.full THEN rb.next ELSE 0

ring_buffer_dump(rb) ==
  LET len == IF rb.full THEN rb.size ELSE rb.next
      slot(k) == IF DumpStart(rb) + k <= rb.size THEN DumpStart(rb) + k - 1
                 ELSE DumpStart(rb) + k - 1 - rb.size
  IN [k \in 1..len |-> rb.storage[slot(k)]]
=============================================================================
