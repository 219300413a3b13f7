------------------------------ MODULE MCProxy -------------------------------
(* A small instance of Proxy for TLC. An address that is part of another    *)
(* one comes alone, before, behind and without it.                          *)
EXTENDS Proxy

MCChars == {"1", "2"}

MCAnswers == {<< <<"1">> >>, << <<"1", "2">> >>, << <<"1", "2">>, <<"1">> >>,
              << <<"1">>, <<"2">> >>}
=============================================================================
