----------------------------- MODULE MCDnsPoller ----------------------------
(* A small instance of DnsPoller for TLC: up to three addresses of one to   *)
(* four characters, for a buffer of ten.                                    *)
EXTENDS DnsPoller, SequencesExt

MCChars == {"1", "2", "."}

MCAddresses == {<<"1">>, <<"1", "2">>, <<"2", ".", "1", "2">>}

MCAnswers ==
  {nodes \in BoundedSeq(MCAddresses \cup {Unhandled}, 3) :
     \E i \in DOMAIN nodes : nodes[i] # Unhandled}
=============================================================================
