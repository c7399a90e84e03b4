---------------------------- MODULE MCSessionId ----------------------------
(* An instance of SessionId for TLC.                                        *)
EXTENDS SessionId

\* Zones with one '%', two, or its code; an address that ends like an escaped zone.
Zones ==
  {<<"%", "e">>, <<"%", "%", "e">>, <<"%", "2", "5", "e">>, <<"%", "e", "%">>,
   <<"%", "%", "2", "5">>, <<"2", "5", "e">>, <<>>}

MCEndpoints ==
  [host : {<<"f", ":">> \o z : z \in Zones}, v6 : {TRUE}, port : {<<"1">>, <<"2", "5">>}]
    \cup [host : {<<"9">>}, v6 : {FALSE}, port : {<<"1">>, <<"2", "5">>}]
=============================================================================
