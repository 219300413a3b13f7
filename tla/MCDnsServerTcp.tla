--------------------------- MODULE MCDnsServerTcp ---------------------------
(* A small instance of DnsServerTcp for TLC. *)
EXTENDS DnsServerTcp
=============================================================================
