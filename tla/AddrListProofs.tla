--------------------------- MODULE AddrListProofs ---------------------------
(***************************************************************************)
(* What get_addr_listing (AddrList) writes, for every size of the buffer   *)
(* and every list of addresses.                                            *)
(***************************************************************************)
EXTENDS AddrList, WellFoundedInduction, SequenceTheorems, TLAPS

LEMMA Least ==
  ASSUME NEW T, T \subseteq Nat, T # {}
  PROVE  \E x \in T : \A y \in T : x <= y
<1> DEFINE R == OpToRel(<, Nat)
<1>1. IsWellFoundedOn(R, Nat)
  BY NatLessThanWellFounded
<1>2. \A x, y \in Nat : x < y => <<x, y>> \in R
  BY DEF OpToRel
<1> HIDE DEF R
<1>3. PICK x \in T : \A y \in T : ~(<<y, x>> \in R)
  BY <1>1, WFMin
<1>4. \A y \in T : ~(y < x)
  BY <1>2, <1>3, Zenon
<1>5. \A y \in T : x <= y
  <2>1. x \in Nat /\ \A y \in T : y \in Nat
    OBVIOUS
  <2> QED BY <1>4, <2>1, SMT
<1> QED BY <1>5

(* Induction with a set in place of the predicate. *)
LEMMA SetInduction ==
  ASSUME NEW S, 0 \in S, \A n \in Nat : n \in S => n + 1 \in S
  PROVE  \A n \in Nat : n \in S
<1> DEFINE T == {n \in Nat : n \notin S}
<1>1. SUFFICES ASSUME T # {} PROVE FALSE
  OBVIOUS
<1>2. PICK x \in T : \A y \in T : x <= y
  BY <1>1, Least
<1>3. x \in Nat /\ x # 0
  OBVIOUS
<1>4. x - 1 \in Nat /\ ~(x <= x - 1) /\ (x - 1) + 1 = x
  BY <1>3
<1>5. x - 1 \in S
  BY <1>2, <1>4
<1> QED BY <1>4, <1>5

-----------------------------------------------------------------------------
(* The equations of the two recursive functions. *)
LEMMA AfterNodesDef ==
  ASSUME NEW nodes, Len(nodes) \in Nat
  PROVE  AfterNodes(nodes) =
           [n \in 0..Len(nodes) |->
              IF n = 0 THEN [text |-> <<>>, done |-> FALSE]
              ELSE AddNode(AfterNodes(nodes)[n - 1], nodes[n])]
<1> DEFINE G(f, n) == IF n = 0 THEN [text |-> <<>>, done |-> FALSE]
                      ELSE AddNode(f[n - 1], nodes[n])
           Solved(m) == \E f : f = [n \in 0..m |-> G(f, n)]
           S == {m \in Nat : Solved(m)}
<1>1. 0 \in S
  <2> DEFINE f == [n \in 0..0 |-> [text |-> <<>>, done |-> FALSE]]
  <2>1. f = [n \in 0..0 |-> G(f, n)]
    OBVIOUS
  <2> HIDE DEF f, G
  <2> QED BY <2>1
<1>2. ASSUME NEW m \in Nat, m \in S PROVE m + 1 \in S
  <2>1. PICK f : f = [n \in 0..m |-> G(f, n)]
    BY <1>2
  <2> DEFINE g == [n \in 0..(m + 1) |-> IF n = m + 1 THEN G(f, n) ELSE f[n]]
  <2>2. \A n \in 0..(m + 1) : n # 0 => g[n - 1] = f[n - 1]
    OBVIOUS
  <2>3. \A n \in 0..(m + 1) : G(g, n) = G(f, n)
    BY <2>2
  <2> HIDE DEF G
  <2>4. \A n \in 0..m : f[n] = G(f, n)
    BY <2>1
  <2>5. \A n \in 0..(m + 1) : g[n] = G(g, n)
    BY <2>3, <2>4
  <2>6. g = [n \in 0..(m + 1) |-> G(g, n)]
    BY <2>5
  <2>7. Solved(m + 1)
    <3> HIDE DEF g
    <3> QED BY <2>6
  <2> HIDE DEF Solved
  <2> QED BY <2>7
<1>3. Solved(Len(nodes))
  <2> HIDE DEF S
  <2>1. \A m \in Nat : m \in S
    BY <1>1, <1>2, SetInduction
  <2> QED BY <2>1 DEF S
<1> QED BY <1>3 DEF AfterNodes

LEMMA JoinedDef ==
  ASSUME NEW nodes, Len(nodes) \in Nat
  PROVE  Joined(nodes) =
           [n \in 0..Len(nodes) |->
              IF n = 0 THEN <<>>
              ELSE Join(Joined(nodes)[n - 1], nodes[n])]
<1> DEFINE G(f, n) == IF n = 0 THEN <<>>
                      ELSE Join(f[n - 1], nodes[n])
           Solved(m) == \E f : f = [n \in 0..m |-> G(f, n)]
           S == {m \in Nat : Solved(m)}
<1>1. 0 \in S
  <2> DEFINE f == [n \in 0..0 |-> <<>>]
  <2>1. f = [n \in 0..0 |-> G(f, n)]
    OBVIOUS
  <2> HIDE DEF f, G
  <2> QED BY <2>1
<1>2. ASSUME NEW m \in Nat, m \in S PROVE m + 1 \in S
  <2>1. PICK f : f = [n \in 0..m |-> G(f, n)]
    BY <1>2
  <2> DEFINE g == [n \in 0..(m + 1) |-> IF n = m + 1 THEN G(f, n) ELSE f[n]]
  <2>2. \A n \in 0..(m + 1) : n # 0 => g[n - 1] = f[n - 1]
    OBVIOUS
  <2>3. \A n \in 0..(m + 1) : G(g, n) = G(f, n)
    BY <2>2
  <2> HIDE DEF G
  <2>4. \A n \in 0..m : f[n] = G(f, n)
    BY <2>1
  <2>5. \A n \in 0..(m + 1) : g[n] = G(g, n)
    BY <2>3, <2>4
  <2>6. g = [n \in 0..(m + 1) |-> G(g, n)]
    BY <2>5
  <2>7. Solved(m + 1)
    <3> HIDE DEF g
    <3> QED BY <2>6
  <2> HIDE DEF Solved
  <2> QED BY <2>7
<1>3. Solved(Len(nodes))
  <2> HIDE DEF S
  <2>1. \A m \in Nat : m \in S
    BY <1>1, <1>2, SetInduction
  <2> QED BY <2>1 DEF S
<1> QED BY <1>3 DEF Joined

(* Sequences of any characters. *)
LEMMA NoElements ==
  ASSUME NEW C, NEW s \in Seq(C)
  PROVE  Len(s) \in Nat /\ (s = <<>> <=> Len(s) = 0)
<1>1. Len(s) \in Nat
  OBVIOUS
<1>2. Len(<<>>) = 0 /\ (s # <<>> => Len(s) \in Nat \ {0})
  BY EmptySeq
<1> QED BY <1>1, <1>2

LEMMA AppendedFacts ==
  ASSUME NEW C, NEW s \in Seq(C), NEW c \in C
  PROVE  /\ Append(s, c) \in Seq(C)
         /\ Len(Append(s, c)) = Len(s) + 1
         /\ Append(s, c) # <<>>
         /\ SubSeq(Append(s, c), 1, Len(Append(s, c)) - 1) = s
<1>1. /\ Append(s, c) \in Seq(C) /\ Len(Append(s, c)) = Len(s) + 1
      /\ Append(s, c) # <<>>
  BY AppendProperties
<1>2. SubSeq(Append(s, c), 1, Len(Append(s, c)) - 1) = s
  OBVIOUS
<1> QED BY <1>1, <1>2

(* Addresses and separators are text. *)
LEMMA AddressIsText ==
  ASSUME NEW node \in Seq(AddrChars)
  PROVE  node \in Texts
BY SeqMonotonic DEF Texts

LEMMA SeparatorIsText ==
  ASSUME NEW text \in Texts
  PROVE  /\ Append(text, ",") \in Texts
         /\ Append(text, ",") # <<>>
         /\ Len(Append(text, ",")) = Len(text) + 1
         /\ SubSeq(Append(text, ","), 1, Len(Append(text, ",")) - 1) = text
<1> DEFINE comma == ","
           C == AddrChars \cup {comma}
           more == Append(text, comma)
<1>1. comma \in C /\ text \in Seq(C)
  BY DEF Texts
<1> HIDE DEF C, comma
<1>2. /\ more \in Seq(C) /\ Len(more) = Len(text) + 1 /\ more # <<>>
      /\ SubSeq(more, 1, Len(more) - 1) = text
  BY <1>1, AppendedFacts
<1> QED BY <1>2 DEF C, comma, Texts

(* Joined of one node more, and its type. *)
LEMMA JoinType ==
  ASSUME NEW text \in Texts, NEW node \in Seq(AddrChars)
  PROVE  Join(text, node) \in Texts
<1>1. node \in Texts
  BY AddressIsText
<1>2. Append(text, ",") \in Texts
  BY SeparatorIsText
<1>3. Append(text, ",") \o node \in Texts
  BY <1>1, <1>2, ConcatProperties DEF Texts
<1> QED BY <1>1, <1>3 DEF Join

LEMMA JoinedStep ==
  ASSUME NEW nodes \in Seq(Seq(AddrChars))
  PROVE  /\ Joined(nodes)[0] = <<>>
         /\ \A n \in 0..Len(nodes) : Joined(nodes)[n] \in Texts
         /\ \A n \in 1..Len(nodes) : Joined(nodes)[n] = Join(Joined(nodes)[n - 1], nodes[n])
<1> DEFINE J == Joined(nodes)
           N == Len(nodes)
<1>1. N \in Nat /\ \A n \in 1..N : nodes[n] \in Seq(AddrChars)
  OBVIOUS
<1>2. J = [n \in 0..N |-> IF n = 0 THEN <<>> ELSE Join(J[n - 1], nodes[n])]
  BY <1>1, JoinedDef
<1> HIDE DEF J, N
<1>3. J[0] = <<>>
  BY <1>1, <1>2
<1>4. \A n \in 1..N : J[n] = Join(J[n - 1], nodes[n])
  BY <1>1, <1>2
<1>5. \A n \in 0..N : J[n] \in Texts
  <2> DEFINE S == {n \in Nat : n <= N => J[n] \in Texts}
  <2>1. 0 \in S
    BY <1>3, EmptySeq DEF Texts
  <2>2. ASSUME NEW n \in Nat, n \in S PROVE n + 1 \in S
    <3>1. SUFFICES ASSUME n + 1 <= N PROVE J[n + 1] \in Texts
      OBVIOUS
    <3>2. n + 1 \in 1..N /\ (n + 1) - 1 = n /\ n <= N
      BY <1>1, <3>1
    <3>3. J[n + 1] = Join(J[n], nodes[n + 1])
      BY <1>4, <3>2
    <3>4. nodes[n + 1] \in Seq(AddrChars) /\ J[n] \in Texts
      BY <1>1, <2>2, <3>2
    <3> QED BY <3>3, <3>4, JoinType
  <2> HIDE DEF S
  <2>3. \A n \in Nat : n \in S
    BY <2>1, <2>2, SetInduction
  <2> QED BY <1>1, <2>3 DEF S
<1> QED BY <1>3, <1>4, <1>5 DEF J, N

(* One turn of the loop: an address is written, with a separator, if both   *)
(* fit before the last byte; otherwise the loop ends.                       *)
LEMMA AddNodeCases ==
  ASSUME NEW text \in Texts, NEW done \in BOOLEAN, NEW node \in Seq(AddrChars)
  PROVE  AddNode([text |-> text, done |-> done], node) =
           IF done \/ node = Unhandled THEN [text |-> text, done |-> done]
           ELSE IF Len(text) + Len(node) + 1 >= POLLER_ADDR_LIST_SIZE
           THEN [text |-> text, done |-> TRUE]
           ELSE [text |-> Append(text \o node, ","), done |-> FALSE]
<1> DEFINE list == [text |-> text, done |-> done]
<1>1. AddressFits(text, node) <=> ~(Len(text) + Len(node) + 1 >= POLLER_ADDR_LIST_SIZE)
  BY ListSizeAssumption DEF AddressFits, Remaining
<1>2. AddressFits(text, node) => ~(Len(text \o node) >= POLLER_ADDR_LIST_SIZE - 1)
  <2>1. Len(text \o node) = Len(text) + Len(node)
    OBVIOUS
  <2> QED BY <1>1, <2>1, ListSizeAssumption
<1>3. list.text = text /\ list.done = done
  OBVIOUS
<1>4. CASE done \/ node = Unhandled
  BY <1>3, <1>4 DEF AddNode
<1>5. CASE ~done /\ node # Unhandled /\ ~AddressFits(text, node)
  <2>1. AddNode(list, node) = [list EXCEPT !.done = TRUE]
    BY <1>3, <1>5 DEF AddNode
  <2> QED BY <1>1, <1>5, <2>1
<1>6. CASE ~done /\ node # Unhandled /\ AddressFits(text, node)
  <2>1. AddNode(list, node) = [list EXCEPT !.text = Append(@ \o node, ",")]
    BY <1>2, <1>3, <1>6 DEF AddNode
  <2> QED BY <1>1, <1>6, <2>1
<1> QED BY <1>4, <1>5, <1>6

-----------------------------------------------------------------------------
(* The loop invariant of get_addr_listing: as long as everything fitted,    *)
(* the buffer holds the joined addresses and a separator; afterwards, those *)
(* before the first address that did not fit.                               *)
Written(joined) == IF joined = <<>> THEN <<>> ELSE Append(joined, ",")

Stopped(nodes, n, text) ==
  \E m \in 0..(n - 1) :
    /\ text = Written(Joined(nodes)[m])
    /\ Joined(nodes)[m] # <<>>
    /\ Len(Joined(nodes)[m + 1]) + 1 >= POLLER_ADDR_LIST_SIZE

LoopInv(nodes, n) ==
  \E text \in Texts, done \in BOOLEAN :
    /\ AfterNodes(nodes)[n] = [text |-> text, done |-> done]
    /\ Len(text) < POLLER_ADDR_LIST_SIZE
    /\ ~done => text = Written(Joined(nodes)[n])
    /\ done => Stopped(nodes, n, text)

(* What one more address makes of the joined text, beside the buffer. *)
LEMMA JoinLength ==
  ASSUME NEW joined \in Texts, NEW node \in Seq(AddrChars), node # Unhandled
  PROVE  /\ Len(Join(joined, node)) + 1 = Len(Written(joined)) + Len(node) + 1
         /\ Written(Join(joined, node)) = Append(Written(joined) \o node, ",")
         /\ Join(joined, node) # <<>>
<1>1. node \in Texts /\ Append(joined, ",") \in Texts
  BY AddressIsText, SeparatorIsText
<1>2. CASE joined = <<>>
  <2>1. Join(joined, node) = node /\ Written(joined) = <<>>
    BY <1>2 DEF Join, Written, Unhandled
  <2>2. <<>> \o node = node
    BY ConcatEmptySeq
  <2>3. Written(node) = Append(node, ",") /\ node # <<>>
    BY DEF Written, Unhandled
  <2>4. Len(Written(joined)) = 0 /\ Len(node) \in Nat
    BY <1>2, <2>1, NoElements DEF Texts
  <2>5. Len(node) + 1 = Len(Written(joined)) + Len(node) + 1
    BY <2>4
  <2> QED BY <2>1, <2>2, <2>3, <2>5
<1>3. CASE joined # <<>>
  <2> DEFINE begun == Append(joined, ",")
  <2>1. Join(joined, node) = begun \o node /\ Written(joined) = begun
    BY <1>3 DEF Join, Written
  <2>2. /\ begun \o node \in Texts
        /\ Len(begun \o node) = Len(begun) + Len(node)
    BY <1>1, ConcatProperties DEF Texts
  <2>3. begun \in Texts /\ Len(begun) \in Nat /\ Len(node) \in Nat /\ Len(node) # 0
    BY <1>1, NoElements DEF Texts, Unhandled
  <2>4. begun \o node # <<>>
    <3> HIDE DEF begun
    <3>1. begun \o node \in Texts /\ Len(begun \o node) # 0
      BY <2>2, <2>3
    <3> QED BY <3>1, NoElements DEF Texts
  <2>5. Written(begun \o node) = Append(begun \o node, ",")
    BY <2>4 DEF Written
  <2> QED BY <2>1, <2>2, <2>3, <2>4, <2>5
<1> QED BY <1>2, <1>3

LEMMA LoopInvStep ==
  ASSUME NEW nodes \in Seq(Seq(AddrChars)), \A i \in 1..Len(nodes) : AddressFits(<<>>, nodes[i]),
         NEW n \in 0..(Len(nodes) - 1), LoopInv(nodes, n)
  PROVE  LoopInv(nodes, n + 1)
<1> DEFINE J == Joined(nodes)
           node == nodes[n + 1]
<1>1. PICK text \in Texts, done \in BOOLEAN :
        /\ AfterNodes(nodes)[n] = [text |-> text, done |-> done]
        /\ Len(text) < POLLER_ADDR_LIST_SIZE
        /\ ~done => text = Written(J[n])
        /\ done => Stopped(nodes, n, text)
  BY DEF LoopInv
<1>2. Len(nodes) \in Nat /\ n + 1 \in 1..Len(nodes) /\ (n + 1) - 1 = n /\ n \in 0..Len(nodes)
  OBVIOUS
<1>3. node \in Seq(AddrChars) /\ AddressFits(<<>>, node)
  BY <1>2
<1>4. AfterNodes(nodes)[n + 1] = AddNode([text |-> text, done |-> done], node)
  <2>1. n + 1 \in 0..Len(nodes) /\ n + 1 # 0
    BY <1>2
  <2>2. AfterNodes(nodes)[n + 1] = AddNode(AfterNodes(nodes)[(n + 1) - 1], node)
    BY <1>2, <2>1, AfterNodesDef
  <2> QED BY <1>1, <1>2, <2>2
<1>5. J[n] \in Texts /\ J[n + 1] = Join(J[n], node)
  BY <1>2, JoinedStep
<1>6. CASE done
  <2>1. AfterNodes(nodes)[n + 1] = [text |-> text, done |-> done]
    BY <1>3, <1>4, <1>6, AddNodeCases
  <2>2. Stopped(nodes, n + 1, text)
    <3>1. 0..(n - 1) \subseteq 0..((n + 1) - 1)
      BY <1>2
    <3> QED BY <1>1, <1>6, <3>1 DEF Stopped
  <2> QED BY <1>1, <1>6, <2>1, <2>2 DEF LoopInv
<1>7. CASE ~done /\ node = Unhandled
  <2>1. AfterNodes(nodes)[n + 1] = [text |-> text, done |-> done]
    BY <1>3, <1>4, <1>7, AddNodeCases
  <2>2. J[n + 1] = J[n]
    BY <1>5, <1>7 DEF Join
  <2> QED BY <1>1, <1>7, <2>1, <2>2 DEF LoopInv
<1>8. CASE ~done /\ node # Unhandled
  <2>1. text = Written(J[n])
    BY <1>1, <1>8
  <2>2. /\ Len(J[n + 1]) + 1 = Len(text) + Len(node) + 1
        /\ Written(J[n + 1]) = Append(text \o node, ",")
    BY <1>3, <1>5, <1>8, <2>1, JoinLength
  <2>3. CASE Len(text) + Len(node) + 1 >= POLLER_ADDR_LIST_SIZE
    <3>1. AfterNodes(nodes)[n + 1] = [text |-> text, done |-> TRUE]
      BY <1>3, <1>4, <1>8, <2>3, AddNodeCases
    <3>2. J[n] # <<>>
      <4>1. SUFFICES ASSUME J[n] = <<>> PROVE FALSE
        OBVIOUS
      <4>2. text = <<>>
        BY <2>1, <4>1 DEF Written
      <4>3. Len(text) = 0 /\ Len(<<>>) = 0 /\ Len(node) \in Nat
        BY <1>3, <4>2, NoElements, EmptySeq
      <4> QED BY <1>3, <2>3, <4>3, ListSizeAssumption DEF AddressFits, Remaining
    <3>3. Stopped(nodes, n + 1, text)
      <4>1. n \in 0..((n + 1) - 1)
        BY <1>2
      <4> QED BY <2>1, <2>2, <2>3, <3>2, <4>1 DEF Stopped
    <3> QED BY <1>1, <3>1, <3>3 DEF LoopInv
  <2>4. CASE ~(Len(text) + Len(node) + 1 >= POLLER_ADDR_LIST_SIZE)
    <3>1. AfterNodes(nodes)[n + 1] = [text |-> Append(text \o node, ","), done |-> FALSE]
      BY <1>3, <1>4, <1>8, <2>4, AddNodeCases
    <3>2. Append(text \o node, ",") \in Texts
      <4>1. text \o node \in Texts
        BY <1>3, AddressIsText, ConcatProperties DEF Texts
      <4> QED BY <4>1, SeparatorIsText
    <3>3. Len(Append(text \o node, ",")) < POLLER_ADDR_LIST_SIZE
      <4>1. text \o node \in Texts /\ Len(text \o node) = Len(text) + Len(node)
        BY <1>3, AddressIsText, ConcatProperties DEF Texts
      <4>2. Len(Append(text \o node, ",")) = Len(text \o node) + 1
        BY <4>1, SeparatorIsText
      <4>3. Len(text) \in Nat /\ Len(node) \in Nat
        BY <1>3, NoElements DEF Texts
      <4> QED BY <2>4, <4>1, <4>2, <4>3, ListSizeAssumption
    <3> QED BY <2>2, <3>1, <3>2, <3>3 DEF LoopInv
  <2> QED BY <2>3, <2>4
<1> QED BY <1>6, <1>7, <1>8

LEMMA LoopInvHolds ==
  ASSUME NEW nodes \in Seq(Seq(AddrChars)), \A i \in 1..Len(nodes) : AddressFits(<<>>, nodes[i])
  PROVE  LoopInv(nodes, Len(nodes))
<1> DEFINE N == Len(nodes)
           S == {n \in Nat : n <= N => LoopInv(nodes, n)}
<1>1. N \in Nat
  OBVIOUS
<1>2. LoopInv(nodes, 0)
  <2>1. AfterNodes(nodes)[0] = [text |-> <<>>, done |-> FALSE]
    <3>1. 0 \in 0..N
      BY <1>1
    <3> QED BY <1>1, <3>1, AfterNodesDef
  <2>2. <<>> \in Texts /\ Len(<<>>) = 0
    BY EmptySeq DEF Texts
  <2>3. Written(Joined(nodes)[0]) = <<>>
    BY JoinedStep DEF Written
  <2>4. Len(<<>>) < POLLER_ADDR_LIST_SIZE
    BY <2>2, ListSizeAssumption
  <2> QED BY <2>1, <2>2, <2>3, <2>4 DEF LoopInv
<1>3. 0 \in S
  BY <1>2
<1>4. ASSUME NEW n \in Nat, n \in S PROVE n + 1 \in S
  <2>1. SUFFICES ASSUME n + 1 <= N PROVE LoopInv(nodes, n + 1)
    OBVIOUS
  <2>2. n \in 0..(N - 1) /\ n <= N
    BY <1>1, <2>1
  <2> QED BY <1>4, <2>2, LoopInvStep
<1> HIDE DEF S
<1>5. N \in S
  BY <1>1, <1>3, <1>4, SetInduction
<1> QED BY <1>1, <1>5 DEF S

(* The joined text is empty only without an address. *)
LEMMA JoinedNotEmpty ==
  ASSUME NEW nodes \in Seq(Seq(AddrChars)), NEW i \in 1..Len(nodes), nodes[i] # Unhandled
  PROVE  Joined(nodes)[Len(nodes)] # <<>>
<1> DEFINE N == Len(nodes)
           S == {k \in Nat : i + k <= N => Joined(nodes)[i + k] # <<>>}
<1>1. N \in Nat /\ i \in 1..N
  OBVIOUS
<1>2. ASSUME NEW n \in 1..N, nodes[n] # Unhandled \/ Joined(nodes)[n - 1] # <<>>
      PROVE  Joined(nodes)[n] # <<>>
  <2>1. nodes[n] \in Seq(AddrChars) /\ n - 1 \in 0..N
    BY <1>1
  <2>2. Joined(nodes)[n - 1] \in Texts /\ Joined(nodes)[n] = Join(Joined(nodes)[n - 1], nodes[n])
    BY <2>1, JoinedStep
  <2>3. CASE nodes[n] # Unhandled
    BY <2>1, <2>2, <2>3, JoinLength
  <2>4. CASE nodes[n] = Unhandled
    BY <1>2, <2>2, <2>4 DEF Join
  <2> QED BY <2>3, <2>4
<1>3. 0 \in S
  <2>1. i + 0 = i
    BY <1>1
  <2> QED BY <1>1, <1>2, <2>1
<1>4. ASSUME NEW k \in Nat, k \in S PROVE k + 1 \in S
  <2>1. SUFFICES ASSUME i + (k + 1) <= N PROVE Joined(nodes)[i + (k + 1)] # <<>>
    OBVIOUS
  <2>2. i + (k + 1) \in 1..N /\ (i + (k + 1)) - 1 = i + k /\ i + k <= N
    BY <1>1, <2>1
  <2>3. Joined(nodes)[(i + (k + 1)) - 1] # <<>>
    BY <1>4, <2>2
  <2> QED BY <1>2, <2>2, <2>3
<1> HIDE DEF S
<1>5. N - i \in S
  <2>1. N - i \in Nat
    BY <1>1
  <2> QED BY <1>3, <1>4, <2>1, SetInduction
<1>6. i + (N - i) = N
  BY <1>1
<1> QED BY <1>1, <1>5, <1>6 DEF S

(* get_addr_listing writes the addresses of the first nodes, whole and      *)
(* joined by commas, and stops only where the next one with its separator   *)
(* would not fit; the text and its terminator fit the buffer.               *)
THEOREM ListingIsJoined ==
  ASSUME NEW nodes \in Seq(Seq(AddrChars)),
         \A i \in 1..Len(nodes) : AddressFits(<<>>, nodes[i]),
         NEW handled \in 1..Len(nodes), nodes[handled] # Unhandled
  PROVE  /\ IsExactListing(nodes, get_addr_listing(nodes))
         /\ get_addr_listing(nodes) \in Texts
         /\ Len(get_addr_listing(nodes)) + 1 < POLLER_ADDR_LIST_SIZE
<1> DEFINE J == Joined(nodes)
           N == Len(nodes)
<1>1. N \in Nat /\ N > 0
  OBVIOUS
<1>2. PICK text \in Texts, done \in BOOLEAN :
        /\ AfterNodes(nodes)[N] = [text |-> text, done |-> done]
        /\ Len(text) < POLLER_ADDR_LIST_SIZE
        /\ ~done => text = Written(J[N])
        /\ done => Stopped(nodes, N, text)
  BY LoopInvHolds DEF LoopInv
<1>3. PICK n \in 0..N :
        /\ text = Written(J[n])
        /\ J[n] # <<>>
        /\ n < N => Len(J[n + 1]) + 1 >= POLLER_ADDR_LIST_SIZE
  <2>1. CASE done
    <3>1. PICK m \in 0..(N - 1) :
            /\ text = Written(J[m])
            /\ J[m] # <<>>
            /\ Len(J[m + 1]) + 1 >= POLLER_ADDR_LIST_SIZE
      BY <1>2, <2>1 DEF Stopped
    <3>2. m \in 0..N
      BY <1>1
    <3> QED BY <3>1, <3>2
  <2>2. CASE ~done
    <3>1. J[N] # <<>>
      BY JoinedNotEmpty
    <3>2. N \in 0..N /\ ~(N < N)
      BY <1>1
    <3> QED BY <1>2, <2>2, <3>1, <3>2
  <2> QED BY <2>1, <2>2
<1>4. J[n] \in Texts /\ J[0] = <<>>
  BY JoinedStep
<1>5. n \in 1..N
  <2>1. n # 0
    BY <1>3, <1>4
  <2> QED BY <1>1, <2>1
<1>6. text = Append(J[n], ",")
  BY <1>3 DEF Written
<1>7. text # <<>> /\ SubSeq(text, 1, Len(text) - 1) = J[n] /\ Len(text) = Len(J[n]) + 1
  BY <1>4, <1>6, SeparatorIsText
<1>8. get_addr_listing(nodes) = J[n]
  <2>1. AfterNodes(nodes)[N].text = text
    BY <1>2
  <2> QED BY <1>7, <2>1 DEF get_addr_listing
<1>9. IsExactListing(nodes, J[n])
  BY <1>3, <1>5 DEF IsExactListing
<1>10. Len(J[n]) + 1 < POLLER_ADDR_LIST_SIZE
  BY <1>2, <1>7
<1> QED BY <1>4, <1>8, <1>9, <1>10

-----------------------------------------------------------------------------
(* addr_list_reduced compares texts, yet it finds addresses: if it reports  *)
(* none missing, every address of the old text is one of the new text, of   *)
(* whatever characters and length.                                          *)
THEOREM KeptAddressesAreServed ==
  ASSUME NEW C, NEW full \in Seq(C), NEW old \in Seq(C), full # <<>>,
         ~addr_list_reduced(full, old)
  PROVE  Addresses(old) \subseteq Addresses(full)
<1> SUFFICES ASSUME NEW addr \in Addresses(old) PROVE addr \in Addresses(full)
  OBVIOUS
<1>1. PICK i \in 1..Len(old), j \in 0..Len(old) :
        j >= i - 1 /\ Between(old, i, j) /\ addr = SubSeq(old, i, j)
  BY DEF Addresses
<1> DEFINE len == Len(addr)
           size == Len(full)
<1>2. /\ addr \in Seq(C) /\ len = j - i + 1
      /\ \A k \in 1..(j - i + 1) : addr[k] = old[i + k - 1]
  <2>1. Len(old) \in Nat /\ \A k \in 1..Len(old) : old[k] \in C
    OBVIOUS
  <2>2. \A k \in i..j : old[k] \in C
    BY <2>1
  <2>3. /\ SubSeq(old, i, j) \in Seq(C)
        /\ Len(SubSeq(old, i, j)) = IF i <= j THEN j - i + 1 ELSE 0
        /\ \A k \in 1..(j - i + 1) : SubSeq(old, i, j)[k] = old[i + k - 1]
    BY <2>1, <2>2, SubSeqProperties
  <2>4. (IF i <= j THEN j - i + 1 ELSE 0) = j - i + 1
    BY <1>1
  <2> QED BY <1>1, <2>3, <2>4
<1>3. len \in Nat /\ size \in Nat /\ size > 0
  BY <1>2, EmptySeq
<1>4. PICK m \in strstr(full, addr) :
        /\ \A x \in strstr(full, addr) : m <= x
        /\ BeginsAddress(full, m) /\ EndsAddress(full, m + len - 1)
  BY DEF addr_list_reduced, Missing
<1>5. /\ m \in 1..(size - len + 1) /\ \A k \in 1..len : full[m + k - 1] = addr[k]
      /\ \A x \in 1..(size - len + 1) : (\A k \in 1..len : full[x + k - 1] = addr[k]) => m <= x
  BY <1>4 DEF strstr
<1> DEFINE n == m + len - 1
<1>6. \A k \in 1..len : addr[k] # ","
  <2> SUFFICES ASSUME NEW k \in 1..len PROVE addr[k] # ","
    OBVIOUS
  <2> HIDE DEF len
  <2>1. k \in 1..(j - i + 1) /\ i + k - 1 \in i..j
    BY <1>2
  <2> QED BY <1>1, <1>2, <2>1 DEF Between
<1>7. EndsAddress(full, n) /\ BeginsAddress(full, m)
  BY <1>4
<1> HIDE DEF len, size
<1>8. m \in Int /\ m >= 1 /\ n \in Int /\ n <= size /\ n >= m - 1 /\ n >= 0
  BY <1>3, <1>5
<1>9. m <= size
  <2>1. CASE len > 0
    BY <1>3, <1>8, <2>1
  <2>2. CASE len = 0
    <3>1. 1 \in 1..(size - len + 1) /\ \A k \in 1..len : full[1 + k - 1] = addr[k]
      BY <1>3, <2>2
    <3>2. m <= 1
      BY <1>5, <3>1
    <3> QED BY <1>3, <1>8, <3>2
  <2> QED BY <1>3, <2>1, <2>2
<1>10. m \in 1..Len(full) /\ n \in 0..Len(full)
  BY <1>3, <1>8, <1>9 DEF size
<1>11. \A k \in m..n : full[k] # ","
  <2> SUFFICES ASSUME NEW k \in m..n PROVE full[k] # ","
    OBVIOUS
  <2>1. k - m + 1 \in 1..len /\ m + (k - m + 1) - 1 = k
    BY <1>3, <1>8
  <2> QED BY <1>5, <1>6, <2>1
<1>12. Between(full, m, n)
  BY <1>7, <1>11 DEF Between, EndsAddress
<1>13. SubSeq(full, m, n) = addr
  <2>1. n - m + 1 = len
    BY <1>3, <1>8
  <2>2. /\ SubSeq(full, m, n) \in Seq(C)
        /\ Len(SubSeq(full, m, n)) = IF m <= n THEN n - m + 1 ELSE 0
        /\ \A k \in 1..(n - m + 1) : SubSeq(full, m, n)[k] = full[m + k - 1]
    <3> HIDE DEF n
    <3>1. \A k \in m..n : full[k] \in C
      BY <1>8, <1>10
    <3> QED BY <1>8, <1>10, <3>1, SubSeqProperties
  <2>3. Len(SubSeq(full, m, n)) = Len(addr)
    <3>1. (IF m <= n THEN n - m + 1 ELSE 0) = len
      BY <1>3, <1>8, <2>1
    <3> QED BY <2>2, <3>1 DEF len
  <2>4. \A k \in 1..len : SubSeq(full, m, n)[k] = addr[k]
    <3> HIDE DEF n
    <3> QED BY <1>5, <2>1, <2>2
  <2> HIDE DEF n
  <2> QED BY <1>2, <2>2, <2>3, <2>4, SeqEqual DEF len
<1>14. <<m, n>> \in {q \in (1..Len(full)) \X (0..Len(full)) :
                      q[2] >= q[1] - 1 /\ Between(full, q[1], q[2])}
  <2> HIDE DEF n
  <2> QED BY <1>8, <1>10, <1>12
<1>15. SubSeq(full, <<m, n>>[1], <<m, n>>[2]) = addr
  BY <1>13
<1> QED BY <1>14, <1>15, Zenon DEF Addresses

-----------------------------------------------------------------------------
(* Back from the text to its pieces between separators, of any character.   *)
IsPiece(text, sep, i, j) ==
  /\ i = 1 \/ text[i - 1] = sep
  /\ j = Len(text) \/ text[j + 1] = sep
  /\ \A k \in i..j : text[k] # sep

Pieces(text, sep) ==
  {SubSeq(text, p[1], p[2]) :
     p \in {q \in (1..Len(text)) \X (0..Len(text)) :
              q[2] >= q[1] - 1 /\ IsPiece(text, sep, q[1], q[2])}}

LEMMA AddressesArePieces ==
  ASSUME NEW text
  PROVE  Addresses(text) = Pieces(text, ",")
<1>1. \A i, j : Between(text, i, j) <=> IsPiece(text, ",", i, j)
  BY Zenon DEF Between, BeginsAddress, IsPiece
<1> QED BY <1>1, Zenon DEF Addresses, Pieces

LEMMA PiecePlaces ==
  ASSUME NEW text, NEW sep, NEW addr \in Pieces(text, sep)
  PROVE  \E i \in 1..Len(text), j \in 0..Len(text) :
           j >= i - 1 /\ IsPiece(text, sep, i, j) /\ addr = SubSeq(text, i, j)
BY DEF Pieces

LEMMA PlacedPiece ==
  ASSUME NEW text, NEW sep, NEW i \in 1..Len(text), NEW j \in 0..Len(text), j >= i - 1,
         IsPiece(text, sep, i, j)
  PROVE  SubSeq(text, i, j) \in Pieces(text, sep)
<1>1. <<i, j>> \in {q \in (1..Len(text)) \X (0..Len(text)) :
                      q[2] >= q[1] - 1 /\ IsPiece(text, sep, q[1], q[2])}
  OBVIOUS
<1>2. SubSeq(text, <<i, j>>[1], <<i, j>>[2]) = SubSeq(text, i, j)
  OBVIOUS
<1> QED BY <1>1, <1>2, Zenon DEF Pieces

(* A text without a separator is one piece. *)
LEMMA OnePiece ==
  ASSUME NEW C, NEW node \in Seq(C), NEW sep, node # <<>>,
         \A k \in 1..Len(node) : node[k] # sep,
         NEW addr \in Pieces(node, sep)
  PROVE  addr = node
<1>1. PICK i \in 1..Len(node), j \in 0..Len(node) :
        j >= i - 1 /\ IsPiece(node, sep, i, j) /\ addr = SubSeq(node, i, j)
  BY PiecePlaces
<1>2. Len(node) \in Nat
  OBVIOUS
<1>3. i = 1
  <2>1. SUFFICES ASSUME i # 1 PROVE FALSE
    OBVIOUS
  <2>2. i - 1 \in 1..Len(node)
    BY <1>2, <2>1
  <2> QED BY <1>1, <2>1, <2>2 DEF IsPiece
<1>4. j = Len(node)
  <2>1. SUFFICES ASSUME j # Len(node) PROVE FALSE
    OBVIOUS
  <2>2. j + 1 \in 1..Len(node)
    BY <1>2, <2>1
  <2> QED BY <1>1, <2>1, <2>2 DEF IsPiece
<1> QED BY <1>1, <1>3, <1>4

(* An address behind a separator adds itself and nothing else, unless the   *)
(* text before it ended in a separator.                                     *)
LEMMA OnePieceMore ==
  ASSUME NEW C, NEW text \in Seq(C), NEW sep \in C, NEW node \in Seq(C),
         text # <<>>, text[Len(text)] # sep, node # <<>>,
         \A k \in 1..Len(node) : node[k] # sep,
         NEW addr \in Pieces(Append(text, sep) \o node, sep)
  PROVE  addr \in Pieces(text, sep) \/ addr = node
<1> DEFINE L == Len(text)
           M == Len(node)
           whole == Append(text, sep) \o node
<1>1. L \in Nat /\ L > 0 /\ M \in Nat /\ M > 0
  BY NoElements
<1>2. /\ whole \in Seq(C) /\ Len(whole) = L + 1 + M
      /\ \A k \in 1..L : whole[k] = text[k]
      /\ whole[L + 1] = sep
      /\ \A k \in 1..M : whole[L + 1 + k] = node[k]
  <2> DEFINE begun == Append(text, sep)
  <2>1. /\ begun \in Seq(C) /\ Len(begun) = L + 1
        /\ \A k \in 1..L : begun[k] = text[k]
        /\ begun[L + 1] = sep
    BY AppendProperties
  <2>2. /\ begun \o node \in Seq(C) /\ Len(begun \o node) = Len(begun) + M
        /\ \A k \in 1..(Len(begun) + M) :
             (begun \o node)[k] = IF k <= Len(begun) THEN begun[k] ELSE node[k - Len(begun)]
    <3> HIDE DEF begun
    <3> QED BY <2>1, ConcatProperties
  <2> HIDE DEF begun
  <2>3. \A k \in 1..L : k \in 1..(Len(begun) + M) /\ k <= Len(begun)
    BY <1>1, <2>1
  <2>4. L + 1 \in 1..(Len(begun) + M) /\ L + 1 <= Len(begun)
    BY <1>1, <2>1
  <2>5. \A k \in 1..M : /\ L + 1 + k \in 1..(Len(begun) + M)
                        /\ ~(L + 1 + k <= Len(begun)) /\ (L + 1 + k) - Len(begun) = k
    BY <1>1, <2>1
  <2>6. /\ \A k \in 1..L : (begun \o node)[k] = text[k]
        /\ (begun \o node)[L + 1] = sep
    BY <2>1, <2>2, <2>3, <2>4
  <2>7. \A k \in 1..M : (begun \o node)[L + 1 + k] = node[k]
    BY <2>2, <2>5
  <2> QED BY <2>1, <2>2, <2>6, <2>7 DEF begun
<1>3. PICK i \in 1..Len(whole), j \in 0..Len(whole) :
        j >= i - 1 /\ IsPiece(whole, sep, i, j) /\ addr = SubSeq(whole, i, j)
  <2>1. addr \in Pieces(whole, sep)
    OBVIOUS
  <2> HIDE DEF whole
  <2> QED BY <2>1, PiecePlaces
<1>4. /\ i = 1 \/ whole[i - 1] = sep
      /\ j = Len(whole) \/ whole[j + 1] = sep
      /\ \A k \in i..j : whole[k] # sep
  BY <1>3 DEF IsPiece
<1>5. addr \in Seq(C) /\ Len(addr) = j - i + 1 /\ \A k \in 1..(j - i + 1) : addr[k] = whole[i + k - 1]
  <2> HIDE DEF whole
  <2> QED BY <1>2, <1>3, SubSeqProperties, SMTT(30)
<1> HIDE DEF whole, L, M
<1>6. CASE i <= L
  <2>1. j <= L
    <3>1. SUFFICES ASSUME j > L PROVE FALSE
      BY <1>1, <1>2
    <3>2. L + 1 \in i..j
      BY <1>1, <1>6, <3>1
    <3> QED BY <1>2, <1>4, <3>2
  <2>2. i \in 1..L /\ j \in 0..L
    BY <1>1, <1>2, <1>6, <2>1
  <2>3. IsPiece(text, sep, i, j)
    <3>1. i = 1 \/ text[i - 1] = sep
      <4>1. i # 1 => i - 1 \in 1..L
        BY <1>1, <2>2
      <4> QED BY <1>2, <1>4, <4>1
    <3>2. j = L \/ text[j + 1] = sep
      <4>1. j # Len(whole)
        BY <1>1, <1>2, <2>2
      <4>2. j # L => j + 1 \in 1..L
        BY <1>1, <2>2
      <4> QED BY <1>2, <1>4, <4>1, <4>2
    <3>3. \A k \in i..j : text[k] # sep
      <4>1. \A k \in i..j : k \in 1..L
        BY <1>1, <2>2
      <4> QED BY <1>2, <1>4, <4>1
    <3> QED BY <3>1, <3>2, <3>3 DEF IsPiece, L
  <2>4. SubSeq(text, i, j) \in Pieces(text, sep)
    BY <1>3, <2>2, <2>3, PlacedPiece DEF L
  <2>5. /\ SubSeq(text, i, j) \in Seq(C) /\ Len(SubSeq(text, i, j)) = j - i + 1
        /\ \A k \in 1..(j - i + 1) : SubSeq(text, i, j)[k] = text[i + k - 1]
    BY <1>3, <2>2, SubSeqProperties DEF L
  <2>6. \A k \in 1..(j - i + 1) : i + k - 1 \in 1..L
    BY <1>1, <2>2
  <2>7. \A k \in 1..(j - i + 1) : addr[k] = SubSeq(text, i, j)[k]
    BY <1>2, <1>5, <2>5, <2>6
  <2>8. addr = SubSeq(text, i, j)
    BY <1>5, <2>5, <2>7, SeqEqual
  <2> QED BY <2>4, <2>8
<1>7. CASE i = L + 1
  <2>1. i # 1 /\ i - 1 = L /\ L \in 1..L
    BY <1>1, <1>7
  <2> QED BY <1>2, <1>4, <2>1 DEF L
<1>8. CASE i = L + 2
  <2>1. j = Len(whole)
    <3>1. SUFFICES ASSUME j # Len(whole) PROVE FALSE
      OBVIOUS
    <3>2. j - L \in 1..M /\ L + 1 + (j - L) = j + 1
      BY <1>1, <1>2, <1>3, <1>8, <3>1
    <3> QED BY <1>2, <1>4, <3>1, <3>2 DEF M
  <2>2. j - i + 1 = M
    BY <1>1, <1>2, <1>8, <2>1
  <2>3. \A k \in 1..M : i + k - 1 = L + 1 + k
    BY <1>1, <1>8
  <2>4. \A k \in 1..M : addr[k] = node[k]
    BY <1>2, <1>5, <2>2, <2>3
  <2>5. addr = node
    BY <1>5, <2>2, <2>4, SeqEqual DEF M
  <2> QED BY <2>5
<1>9. CASE i > L + 2
  <2>1. i - L - 2 \in 1..M /\ L + 1 + (i - L - 2) = i - 1 /\ i # 1
    BY <1>1, <1>2, <1>9
  <2> QED BY <1>2, <1>4, <2>1 DEF M
<1> QED BY <1>1, <1>6, <1>7, <1>8, <1>9

(* The pieces of the joined text are nodes, and it never ends in a          *)
(* separator.                                                               *)
Nodes(nodes) == {nodes[i] : i \in DOMAIN nodes}

Whole(text, sep, S) ==
  /\ text # <<>> => text[Len(text)] # sep
  /\ Pieces(text, sep) \subseteq S

LEMMA SeparatedPieces ==
  ASSUME NEW C, NEW text \in Seq(C), NEW sep \in C, NEW node \in Seq(C), NEW S,
         node # <<>>, \A k \in 1..Len(node) : node[k] # sep, node \in S,
         Whole(text, sep, S)
  PROVE  /\ Whole(node, sep, S)
         /\ text # <<>> => Whole(Append(text, sep) \o node, sep, S)
<1> DEFINE begun == Append(text, sep)
           M == Len(node)
<1>1. M \in Nat /\ M # 0
  BY NoElements
<1>2. M \in 1..M
  BY <1>1
<1>3. Whole(node, sep, S)
  <2>1. Pieces(node, sep) \subseteq S
    BY OnePiece
  <2> QED BY <1>2, <2>1 DEF Whole
<1>4. ASSUME text # <<>> PROVE Whole(begun \o node, sep, S)
  <2>1. text[Len(text)] # sep /\ Pieces(text, sep) \subseteq S
    BY <1>4 DEF Whole
  <2>2. Pieces(begun \o node, sep) \subseteq S
    <3> SUFFICES ASSUME NEW addr \in Pieces(begun \o node, sep) PROVE addr \in S
      OBVIOUS
    <3>1. addr \in Pieces(text, sep) \/ addr = node
      BY <1>4, <2>1, OnePieceMore
    <3> QED BY <2>1, <3>1
  <2>3. begun \in Seq(C) /\ Len(begun) \in Nat
    BY AppendProperties
  <2> HIDE DEF begun, M
  <2>4. /\ Len(begun \o node) = Len(begun) + M
        /\ \A k \in 1..(Len(begun) + M) :
             (begun \o node)[k] = IF k <= Len(begun) THEN begun[k] ELSE node[k - Len(begun)]
    BY <2>3, ConcatProperties DEF M
  <2>5. (begun \o node)[Len(begun \o node)] = node[M]
    <3> DEFINE whole == begun \o node
               last == Len(begun) + M
    <3>1. /\ Len(whole) = last
          /\ \A k \in 1..last :
               whole[k] = IF k <= Len(begun) THEN begun[k] ELSE node[k - Len(begun)]
      BY <2>4
    <3>2. last \in 1..last /\ ~(last <= Len(begun)) /\ last - Len(begun) = M
      BY <1>1, <2>3
    <3> HIDE DEF whole, last
    <3>3. whole[last] = node[last - Len(begun)]
      BY <3>1, <3>2, Zenon
    <3>4. whole[Len(whole)] = node[M]
      BY <3>1, <3>2, <3>3, Zenon
    <3> QED BY <3>4 DEF whole
  <2>6. (begun \o node)[Len(begun \o node)] # sep
    BY <1>2, <2>5 DEF M
  <2> QED BY <2>2, <2>6 DEF Whole
<1> QED BY <1>3, <1>4

WholeAddresses(text, S) == Whole(text, ",", S)

LEMMA JoinPieces ==
  ASSUME NEW text \in Texts, NEW node \in Seq(AddrChars), NEW S, node \in S,
         WholeAddresses(text, S)
  PROVE  WholeAddresses(Join(text, node), S)
<1> DEFINE comma == ","
           C == AddrChars \cup {comma}
           whole == Append(text, comma) \o node
<1>1. comma \in C /\ text \in Seq(C) /\ node \in Seq(C)
  BY AddressIsText DEF Texts
<1>2. \A k \in 1..Len(node) : node[k] # comma
  <2>1. \A k \in 1..Len(node) : node[k] \in AddrChars
    OBVIOUS
  <2> QED BY <2>1, CharsAssumption
<1>3. Join(text, node) = IF node = <<>> THEN text ELSE IF text = <<>> THEN node ELSE whole
  BY DEF Join, Unhandled
<1>4. \A x : WholeAddresses(x, S) <=> Whole(x, comma, S)
  BY DEF WholeAddresses
<1> HIDE DEF comma, C
<1>5. CASE node = <<>>
  BY <1>3, <1>5
<1>6. CASE node # <<>>
  <2>1. /\ Whole(node, comma, S)
        /\ text # <<>> => Whole(whole, comma, S)
    BY <1>1, <1>2, <1>4, <1>6, SeparatedPieces
  <2> QED BY <1>3, <1>4, <1>6, <2>1
<1> QED BY <1>5, <1>6

LEMMA JoinedPieces ==
  ASSUME NEW nodes \in Seq(Seq(AddrChars))
  PROVE  \A n \in 0..Len(nodes) : WholeAddresses(Joined(nodes)[n], Nodes(nodes))
<1> DEFINE N == Len(nodes)
           Holds(n) == WholeAddresses(Joined(nodes)[n], Nodes(nodes))
           S == {n \in Nat : n <= N => Holds(n)}
<1>1. N \in Nat
  OBVIOUS
<1>2. Holds(0)
  <2> DEFINE comma == ","
  <2>1. Joined(nodes)[0] = <<>> /\ Len(<<>>) = 0
    BY JoinedStep, EmptySeq
  <2> HIDE DEF comma
  <2>2. Pieces(<<>>, comma) = {}
    BY <2>1 DEF Pieces
  <2>3. Whole(<<>>, comma, Nodes(nodes))
    BY <2>2 DEF Whole
  <2> QED BY <2>1, <2>3 DEF comma, WholeAddresses
<1>3. ASSUME NEW n \in Nat, n + 1 <= N, Holds(n) PROVE Holds(n + 1)
  <2>1. n \in 0..N /\ n + 1 \in 1..N /\ (n + 1) - 1 = n
    BY <1>1, <1>3
  <2>2. nodes[n + 1] \in Seq(AddrChars) /\ nodes[n + 1] \in Nodes(nodes)
    <3> HIDE DEF Holds
    <3>1. n + 1 \in DOMAIN nodes
      BY <2>1
    <3> QED BY <3>1 DEF Nodes
  <2>3. Joined(nodes)[n] \in Texts /\ Joined(nodes)[n + 1] = Join(Joined(nodes)[n], nodes[n + 1])
    BY <2>1, JoinedStep
  <2> QED BY <1>3, <2>2, <2>3, JoinPieces
<1> HIDE DEF Holds
<1>4. 0 \in S
  BY <1>2
<1>5. ASSUME NEW n \in Nat, n \in S PROVE n + 1 \in S
  <2>1. n + 1 <= N => n <= N
    BY <1>1
  <2> QED BY <1>3, <1>5, <2>1
<1> HIDE DEF S
<1>6. \A n \in Nat : n \in S
  BY <1>4, <1>5, SetInduction
<1>7. \A n \in 0..N : Holds(n)
  BY <1>1, <1>6 DEF S
<1> QED BY <1>7 DEF Holds, N

(* dns_poll_cb stores addresses of the answer only: the text of             *)
(* get_addr_listing is not cut off behind a host name that main() accepts,  *)
(* and what stands between its commas are addresses of the answer.          *)
THEOREM StoredAddressesAreAnswers ==
  ASSUME NEW nodes \in Seq(Seq(AddrChars)),
         \A i \in 1..Len(nodes) : AddressFits(<<>>, nodes[i]),
         NEW handled \in 1..Len(nodes), nodes[handled] # Unhandled,
         NEW hostname_len \in 1..(HOSTNAME_SIZE - 1)
  PROVE  /\ StoredListing(hostname_len, get_addr_listing(nodes)) = get_addr_listing(nodes)
         /\ get_addr_listing(nodes) # <<>>
         /\ Addresses(get_addr_listing(nodes)) \subseteq Nodes(nodes)
<1> DEFINE text == get_addr_listing(nodes)
<1>1. /\ IsExactListing(nodes, text) /\ text \in Texts
      /\ Len(text) + 1 < POLLER_ADDR_LIST_SIZE
  BY ListingIsJoined
<1>2. PICK n \in 1..Len(nodes) : text = Joined(nodes)[n] /\ text # <<>>
  BY <1>1 DEF IsExactListing
<1>3. Addresses(text) \subseteq Nodes(nodes)
  <2>1. n \in 0..Len(nodes)
    OBVIOUS
  <2>2. Pieces(text, ",") \subseteq Nodes(nodes)
    BY <1>2, <2>1, JoinedPieces DEF Whole, WholeAddresses
  <2> QED BY <2>2, AddressesArePieces
<1>4. StoredListing(hostname_len, text) = text
  <2>1. Len(text) \in Nat
    BY <1>1, NoElements DEF Texts
  <2> HIDE DEF text
  <2>2. Len(text) < RoomInBuf(hostname_len)
    BY <1>1, <2>1, ListSizeAssumption DEF RoomInBuf, HOSTNAME_SIZE, Infix
  <2> QED BY <2>2 DEF StoredListing
<1> QED BY <1>2, <1>3, <1>4
=============================================================================
