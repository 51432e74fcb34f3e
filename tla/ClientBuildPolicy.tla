------------------------- MODULE ClientBuildPolicy -------------------------
(***************************************************************************)
(* The client builds realmd knows, the client generation each belongs to,  *)
(* and the decisions that depend on nothing but the build: whether it is   *)
(* supported, whether it has to be patched and how a locked account is     *)
(* refused (Realm/ClientBuildPolicy.cpp, Auth/PatchPolicy.h,               *)
(* Auth/AuthResultPolicy.cpp, RealmList::BelongsToVersion).                *)
(***************************************************************************)
EXTENDS Naturals

RealmVersion == {"VANILLA", "TBC", "WOTLK", "CATA", "MOP", "WOD", "LEGION",
                 "BFA", "SHADOWLANDS"}

SupportedClientBuilds ==
  { <<40000, "SHADOWLANDS">>, <<35662, "BFA">>, <<26972, "LEGION">>,
    <<21742, "WOD">>, <<18414, "MOP">>, <<18273, "MOP">>, <<15595, "CATA">>,
    <<12340, "WOTLK">>, <<8606, "TBC">>, <<6141, "VANILLA">>,
    <<6005, "VANILLA">>, <<5875, "VANILLA">> }

\* FindClientBuildPolicy(build) # nullptr, which is also what FindBuildInfo
\* answers.
Supported(build) == \E policy \in SupportedClientBuilds : policy[1] = build

\* A build nobody knows counts as VANILLA.
BelongsToVersion(build) ==
  IF Supported(build)
  THEN (CHOOSE policy \in SupportedClientBuilds : policy[1] = build)[2]
  ELSE "VANILLA"

\* PatchPolicy::ShouldPatch: enabled and forced are the two members of the
\* policy, Patch.Enable and Patch.ForceBuilds of the configuration.
ShouldPatch(enabled, forced, build) ==
  enabled /\ (~Supported(build) \/ build \in forced)

LockedAccountResultForBuild(build) ==
  IF ~Supported(build) \/ BelongsToVersion(build) = "VANILLA"
  THEN "FAIL_DB_BUSY"
  ELSE "FAIL_LOCKED_ENFORCED"
=============================================================================
