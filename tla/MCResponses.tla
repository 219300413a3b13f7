---------------------------- MODULE MCResponses -----------------------------
(* Queries with and without an OPT record, and responses with sizes around  *)
(* the limits: of few and of many answers, mostly of other records, with a  *)
(* first answer that does not fit, and written longer than they came.       *)
EXTENDS Responses

MCQueries ==
  [len : {12}, parses : {TRUE}, udp_size : {0, 511, 513, 1232}]
  \cup [len : {11, 4096, 4097}, parses : {FALSE}, udp_size : {1232}]

(* n answers of the given size behind a question of base bytes. *)
Answering(n, base, size, len) ==
  [len |-> len, parses |-> TRUE, additional |-> 1, authority |-> 1, n |-> n,
   written |-> [k \in 0..n |-> base + k * size]]

MCResponses ==
  {[Answering(0, 12, 0, len) EXCEPT !.parses = FALSE] : len \in {12, 512, 513, 1300}}
  \cup {Answering(0, 271, 0, len) : len \in {512, 513, 2000}}
  \cup {Answering(1, 30, size, 1300) : size \in {481, 482, 1201, 1202, 1400}}
  \cup {Answering(2, 30, 300, 1300)}
  \cup {Answering(3, 30, 160, len) : len \in {510, 514, 3000}}
  \cup {Answering(7, 112, 200, len) : len \in {1512, 1600}}
  \cup {Answering(12, 40, 400, 4840)}
=============================================================================
