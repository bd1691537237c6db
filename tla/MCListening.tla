---------------------------- MODULE MCListening ----------------------------
(***************************************************************************)
(* One host with an IPv4 address, or with one of each family.              *)
(***************************************************************************)
EXTENDS Listening, TLC

TwoAddresses == <<"10.0.0.1", "fe80::1">>
OneAddress   == <<"10.0.0.1">>
=============================================================================
