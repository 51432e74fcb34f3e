---------------------------- MODULE MCAuthServer ----------------------------
(***************************************************************************)
(* Small instances of AuthServer.  The database an instance starts from is *)
(* narrowed to what its question needs: which bans are in the tables, and  *)
(* whether accounts may be missing.                                        *)
(***************************************************************************)
EXTENDS AuthRefinement, TLC

CONSTANTS
  InitialBans,     \* sets of ban kinds an account or address may start with
  MayLackRow,      \* accounts that may have no row, or lose it
  Sweeping,        \* FALSE: the instance leaves the sweeps out
  Reconnecting     \* FALSE: the instance leaves the reconnects out

MCInit ==
  /\ Init
  /\ accountBanned \in [Account -> InitialBans]
  /\ ipBanned \in [Ip -> InitialBans]
  /\ Account \ MayLackRow \subseteq rows

\* State constraint.
Bounded ==
  /\ Account \ MayLackRow \subseteq rows
  /\ sweep = "holding" => Sweeping
  /\ Reconnecting \/ \A s \in Session : pc[s] # "session_key"

MCSpec == MCInit /\ [][Next]_vars
MCFairSpec == MCInit /\ [][Next]_vars /\ Fairness

\* Every session comes from the same address.
OneAddress == [s \in Session |-> CHOOSE ip \in Ip : TRUE]

\* The sessions come from two addresses.
TwoAddresses ==
  CHOOSE f \in [Session -> Ip] : \A ip \in Ip : \E s \in Session : f[s] = ip

PlayerLevel == [a \in Account |-> SEC_PLAYER]

\* Beyond SEC_ADMINISTRATOR.
ConsoleLevel == [a \in Account |-> SEC_ADMINISTRATOR + 1]

Symmetry == Permutations(Session)
=============================================================================
