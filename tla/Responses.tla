----------------------------- MODULE Responses ------------------------------
(***************************************************************************)
(* The two servers answering side by side: https_resp_cb (src/main.c)      *)
(* hands a reply to the server its query came from, and that server's      *)
(* respond function (DnsServer, TcpOutput) runs to its end before the      *)
(* event loop turns to anything else.                                      *)
(***************************************************************************)
EXTENDS DnsServer, TcpOutput

vars == <<udpVars, tcpVars>>

Init == UdpInit /\ TcpInit

Busy == Responding \/ status = "sending"

https_resp_cb_udp ==
  /\ ~Busy
  /\ NoAnswer \/ \E r \in Responses : dns_server_respond(r)
  /\ UNCHANGED tcpVars

https_resp_cb_tcp ==
  /\ ~Busy
  /\ TcpRespond
  /\ UNCHANGED udpVars

ReceiveQuery ==
  /\ ~Busy
  /\ \E q \in Queries : watcher_cb(q)
  /\ UNCHANGED tcpVars

RespondStep ==
  \/ (remove_record \/ UdpStep) /\ UNCHANGED tcpVars
  \/ SendStep /\ UNCHANGED udpVars

Next ==
  \/ ReceiveQuery
  \/ https_resp_cb_udp
  \/ https_resp_cb_tcp
  \/ RespondStep

(* A function that has begun runs on; no event is waited for in it. *)
Spec == Init /\ [][Next]_vars /\ WF_vars(RespondStep)

-----------------------------------------------------------------------------
(* The event loop gets control back, whatever a client's socket does and    *)
(* whatever c-ares fails to do, provided it removes a record that is there. *)
RespondReturns == Busy ~> ~Busy
=============================================================================
