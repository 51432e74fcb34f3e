---------------------------- MODULE MCRealmList ----------------------------
(***************************************************************************)
(* Small instances of RealmList.                                           *)
(***************************************************************************)
EXTENDS RealmList, TLC

\* A realm for 1.12.1, one for two generations that only game masters may
\* enter, one that is offline and one whose column has no usable build.
OneBuild == [builds |-> <<5875>>, level |-> 0, offline |-> FALSE]
TwoBuilds == [builds |-> <<8606, 6141>>, level |-> 2, offline |-> FALSE]
Offline == [builds |-> <<5875, 6005>>, level |-> 0, offline |-> TRUE]
Truncated == [builds |-> <<65536, 70000>>, level |-> 0, offline |-> FALSE]
NoBuild == [builds |-> <<>>, level |-> 0, offline |-> FALSE]
Tbc == [builds |-> <<8606>>, level |-> 2, offline |-> FALSE]

EveryRow == {OneBuild, TwoBuilds, Offline, Truncated, NoBuild, Tbc}
ThreeRows == {OneBuild, TwoBuilds, Truncated}
TwoRows == {OneBuild, Offline}

VanillaPlayer == [build |-> 5875, level |-> 0]
VanillaMaster == [build |-> 6141, level |-> 3]
TbcPlayer == [build |-> 8606, level |-> 0]
TbcMaster == [build |-> 8606, level |-> 2]
UnknownPlayer == [build |-> 7000, level |-> 0]

EveryClient ==
  {VanillaPlayer, VanillaMaster, TbcPlayer, TbcMaster, UnknownPlayer}
TwoClients == {VanillaPlayer, TbcMaster}
OneClient == {VanillaPlayer}

Symmetry == Permutations(Thread) \cup Permutations(Realm)
=============================================================================
