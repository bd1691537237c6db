---------------------------- MODULE MCWatchHost ----------------------------
(***************************************************************************)
(* Small configurations of watchHost: one or two hosts with an address and *)
(* a watched port each.  Two hosts have addresses of their own or, as two  *)
(* hosts left at the defaults of args.cpp have, the same one.              *)
(***************************************************************************)
EXTENDS WatchHost, TLC

CONSTANTS h1, h2, a1, a2, c1, p1, p2

OwnAddresses  == h1 :> <<a1>> @@ h2 :> <<a2>>
SameAddresses == h1 :> <<a1>> @@ h2 :> <<a1>>
OwnPorts      == h1 :> <<p1>> @@ h2 :> <<p2>>

OneAddress == h1 :> <<a1>>
OnePort    == h1 :> <<p1>>
=============================================================================
