----------------------------- MODULE MCTcpInput -----------------------------
(* TcpInput with bytes of two bits: lengths of 0 to 15, every stream of up  *)
(* to MaxFrames requests, cut in every possible way.                        *)
EXTENDS TcpInput

AllSizes == 0..UINT16_MAX
=============================================================================
