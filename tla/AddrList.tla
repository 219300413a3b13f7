------------------------------ MODULE AddrList ------------------------------
(***************************************************************************)
(* The resolver's addresses as text: get_addr_listing (src/dns_poller.c)   *)
(* writes them into a buffer of fixed size, dns_poll_cb (src/main.c) puts  *)
(* the text behind "hostname:443:", and addr_list_reduced (src/main.c)     *)
(* looks for the old addresses in the new text. A text is a sequence of    *)
(* characters, because the comparison is one of substrings.                *)
(***************************************************************************)
EXTENDS Integers, Sequences

CONSTANTS
  POLLER_ADDR_LIST_SIZE,   \* size of the buffer of addresses
  AddrChars                \* characters ares_inet_ntop writes

ASSUME ListSizeAssumption == POLLER_ADDR_LIST_SIZE \in Nat \ {0}
ASSUME CharsAssumption == "," \notin AddrChars

Texts == Seq(AddrChars \cup {","})

CURRENT_SIZE == 50      \* sizeof(current), one address in addr_list_reduced
HOSTNAME_SIZE == 255    \* sizeof(hostname) in main(), and its part of buf
Infix == 5              \* sizeof(":443:") - 1

(* A node of a family other than AF_INET and AF_INET6. *)
Unhandled == <<>>

-----------------------------------------------------------------------------
(* get_addr_listing. ares_inet_ntop is given the space up to the last byte  *)
(* of the buffer and needs one byte more than it writes characters.         *)
Remaining_LastByteToo(text) == POLLER_ADDR_LIST_SIZE - Len(text)

Remaining(text) == POLLER_ADDR_LIST_SIZE - 1 - Len(text)

AddressFits(text, addr) == Remaining(text) > 0 /\ Len(addr) < Remaining(text)

AddNode(list, node) ==
  IF list.done \/ node = Unhandled THEN list
  ELSE IF ~AddressFits(list.text, node) THEN [list EXCEPT !.done = TRUE]
  ELSE IF Len(list.text \o node) >= POLLER_ADDR_LIST_SIZE - 1
  THEN [text |-> list.text \o node, done |-> TRUE]
  ELSE [list EXCEPT !.text = Append(@ \o node, ",")]

(* The list after the first n nodes. *)
AfterNodes(nodes) ==
  LET list[n \in 0..Len(nodes)] ==
        IF n = 0 THEN [text |-> <<>>, done |-> FALSE] ELSE AddNode(list[n - 1], nodes[n])
  IN  list

(* What was written last, the separator, is overwritten by the terminator.  *)
(* <<>> is NULL.                                                            *)
get_addr_listing(nodes) ==
  LET text == AfterNodes(nodes)[Len(nodes)].text
  IN  IF text = <<>> THEN <<>> ELSE SubSeq(text, 1, Len(text) - 1)

(* What a buffer without bound would hold: the addresses among the first n  *)
(* nodes, joined by commas.                                                 *)
Join(text, node) ==
  IF node = Unhandled THEN text
  ELSE IF text = <<>> THEN node
  ELSE Append(text, ",") \o node

Joined(nodes) ==
  LET joined[n \in 0..Len(nodes)] ==
        IF n = 0 THEN <<>> ELSE Join(joined[n - 1], nodes[n])
  IN  joined

(* The text is that of the first n nodes, and the next one would have left  *)
(* no byte for a separator: the buffer is used up to its last but one byte. *)
IsExactListing(nodes, text) ==
  \E n \in 1..Len(nodes) :
    /\ text = Joined(nodes)[n]
    /\ text # <<>>
    /\ n < Len(nodes) => Len(Joined(nodes)[n + 1]) + 1 >= POLLER_ADDR_LIST_SIZE

(* dns_poll_cb: what fits of the text behind the host name in buf. *)
RoomInBuf(hostname_len) ==
  HOSTNAME_SIZE + Infix + POLLER_ADDR_LIST_SIZE - 1 - (hostname_len + Infix)

StoredListing(hostname_len, text) ==
  IF Len(text) < RoomInBuf(hostname_len) THEN text
  ELSE SubSeq(text, 1, RoomInBuf(hostname_len) - 1)

-----------------------------------------------------------------------------
(* addr_list_reduced: the addresses between the commas of list are looked   *)
(* up in full_list one after another. Only the first match of each counts,  *)
(* and it has to begin and end where an address does.                       *)
BeginsAddress(text, i) == i = 1 \/ text[i - 1] = ","

EndsAddress_Anywhere(text, i) == TRUE

EndsAddress(text, i) == i = Len(text) \/ text[i + 1] = ","

Between(text, i, j) ==
  /\ BeginsAddress(text, i)
  /\ j = Len(text) \/ text[j + 1] = ","
  /\ \A k \in i..j : text[k] # ","

Addresses(text) ==
  {SubSeq(text, p[1], p[2]) :
     p \in {q \in (1..Len(text)) \X (0..Len(text)) :
              q[2] >= q[1] - 1 /\ Between(text, q[1], q[2])}}

strstr(text, addr) ==
  {i \in 1..(Len(text) - Len(addr) + 1) :
     \A k \in 1..Len(addr) : text[i + k - 1] = addr[k]}

Missing(full_list, addr) ==
  ~ \E i \in strstr(full_list, addr) :
      /\ \A j \in strstr(full_list, addr) : i <= j
      /\ BeginsAddress(full_list, i)
      /\ EndsAddress(full_list, i + Len(addr) - 1)

addr_list_reduced(full_list, list) ==
  \E addr \in Addresses(list) : Len(addr) >= CURRENT_SIZE \/ Missing(full_list, addr)
=============================================================================
