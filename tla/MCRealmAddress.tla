--------------------------- MODULE MCRealmAddress ---------------------------
(***************************************************************************)
(* Addresses of five bits, two of which name the network; both are set in  *)
(* a loopback address.                                                     *)
(***************************************************************************)
EXTENDS RealmAddress, TLC

CONSTANTS lan, home, netmask, name

\* Addresses of two networks, one of them by name, a loopback address and a
\* mask of three bits.
MCHostIp ==
  lan :> {0, 3} @@ home :> {3, 4} @@ netmask :> {2, 3, 4} @@ name :> {1, 4}
=============================================================================
