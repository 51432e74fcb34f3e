---------------------------- MODULE RealmAddress ----------------------------
(***************************************************************************)
(* Which address of a realm a client is sent: the three host columns of a  *)
(* row are resolved when a snapshot is built (RealmList.cpp), and a realm  *)
(* list request picks one for the address its connection came from         *)
(* (AuthSocket::GetAddressForClient).  Resolving a name may fail; a dotted *)
(* quad needs no resolver.                                                 *)
(*                                                                         *)
(* An address is the set of the bits that are 1 in it, the code's bitwise  *)
(* AND an intersection and its 0 the empty set.  The code has 8 bits that  *)
(* are compared with 127 and 24 others.                                    *)
(***************************************************************************)
CONSTANTS
  NetBit, HostBit,
  LoopbackNet,    \* 127
  Dotted, Name,   \* hosts that are, and are not, dotted quads
  HostIp          \* the address each host stands for

ASSUME AddressAssumption ==
  /\ NetBit \cap HostBit = {}
  /\ LoopbackNet \in (SUBSET NetBit) \ {{}}
  /\ Dotted \cap Name = {}
  /\ HostIp \in [Dotted \cup Name -> (SUBSET (NetBit \cup HostBit)) \ {{}}]

VARIABLES
  realm,      \* the realm in the snapshot, and (history) its row
  client,     \* the address of the last request's peer
  sent        \* the address it was sent

vars == <<realm, client, sent>>

Host == Dotted \cup Name
Ip == SUBSET (NetBit \cup HostBit)
Zero == {}
Row == [external : Host, local : Host, mask : Host]

Loopback(ip) == ip \cap NetBit = LoopbackNet

\* What inet_pton, or else getaddrinfo, may make of a host: 0 where it fails.
ResolveRealmAddress(h) == {HostIp[h]} \cup {Zero : n \in {h} \cap Name}

\* UpdateRealm for each column; the port is the row's in all of them.
BuildSnapshot(r) ==
  [of : {r}, external : ResolveRealmAddress(r.external),
   local : ResolveRealmAddress(r.local), mask : ResolveRealmAddress(r.mask)]

IsIPAddrInNetwork(net, ip, mask) == net \cap mask = ip \cap mask

\* Mutation of GetAddressForClient: only the local address is asked whether
\* the realm is on this machine.
AddressByLocalLoopback(r, ip) ==
  IF Loopback(ip) THEN IF Loopback(r.local) THEN ip ELSE r.local
  ELSE IF IsIPAddrInNetwork(r.local, ip, r.mask) THEN r.local
  ELSE r.external

GetAddressForClient(r, ip) ==
  IF Loopback(ip)
  THEN IF Loopback(r.local) \/ Loopback(r.external) THEN ip ELSE r.local
  ELSE IF IsIPAddrInNetwork(r.local, ip, r.mask) THEN r.local
  ELSE r.external

-----------------------------------------------------------------------------

\* ParseClientIPv4 makes 0 of a peer that is no IPv4 address.
Init ==
  /\ \E r \in Row : realm \in BuildSnapshot(r)
  /\ client = Zero
  /\ sent = GetAddressForClient(realm, client)

\* A refresh after the row may have changed.
Refresh ==
  /\ \E r \in Row : realm' \in BuildSnapshot(r)
  /\ UNCHANGED <<client, sent>>

\* The entry LoadRealmlist writes for the realm.
LoadRealmlist ==
  /\ client' \in Ip
  /\ sent' = GetAddressForClient(realm, client')
  /\ UNCHANGED realm

Next == Refresh \/ LoadRealmlist

Spec == Init /\ [][Next]_vars

-----------------------------------------------------------------------------
(* Properties.                                                             *)

\* The peer is in the network the row describes, said bit by bit.
SameNetwork(r, ip) ==
  \A bit \in HostIp[r.mask] : bit \in HostIp[r.local] <=> bit \in ip

\* The resolver answered for every name in the row the realm was built from.
NamesResolved(r) ==
  /\ r.of.external \in Name => r.external = HostIp[r.of.external]
  /\ r.of.local \in Name => r.local = HostIp[r.of.local]
  /\ r.of.mask \in Name => r.mask = HostIp[r.of.mask]

\* Unless a name could not be resolved, a client on this machine is sent to
\* itself where the realm is on it too, a client of the realm's network to the
\* local address and any other to the external one (AuthSocket.cpp 1144-1173);
\* a row of dotted quads needs no resolver for that (RealmList.cpp 65-68).
BestAddress ==
  [][LoadRealmlist /\ NamesResolved(realm) =>
       LET of == realm.of
           here == \E h \in {of.local, of.external} : Loopback(HostIp[h])
       IN IF Loopback(client') /\ here THEN sent' = client'
          ELSE sent' = HostIp[IF SameNetwork(of, client') \/ Loopback(client')
                              THEN of.local ELSE of.external]]_vars
=============================================================================
