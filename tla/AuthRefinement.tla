--------------------------- MODULE AuthRefinement ---------------------------
(***************************************************************************)
(* The sessions of AuthServer as a client sees them, and the claim that    *)
(* they implement AuthSession.                                             *)
(***************************************************************************)
EXTENDS AuthServer

Challenges == {"CHALLENGE", "RECONNECT_CHALLENGE"}
Welcomes == {"PROOF", "RECONNECT_PROOF"}
Offers == {"VERSION_UPDATE"}
Lists == {"REALM_LIST"}
Refusals == Reply \ (Challenges \cup Welcomes \cup Offers \cup Lists)

\* The verdict among the replies of a session.
Stage(s) ==
  IF sent[s] \cap Welcomes # {} THEN "welcomed"
  ELSE IF sent[s] \cap Offers # {} THEN "patch"
  ELSE IF sent[s] \cap Refusals # {} THEN "refused"
  ELSE IF sent[s] \cap Challenges # {} THEN "asked"
  ELSE "none"

\* The checked UPDATE has been executed for the session.
Granted(s) == status[s] = "AUTHED" \/ pc[s] \in {"prove", "re_prove"}

Client ==
  INSTANCE AuthSession
  WITH stage <- [s \in Session |-> Stage(s)],
       granted <- [s \in Session |-> Granted(s)],
       listed <- [s \in Session |-> sent[s] \cap Lists # {}],
       over <- closed,
       keys <- sessionkey

\* However handlers, sweeps and transport interleave, a client sees a session
\* of AuthSession: one challenge, then one verdict (AuthSocket.cpp 568, 783
\* and 1077 close the state machine before anything can fail), a welcome only
\* after the checked UPDATE (892, 1105), realm lists only after a welcome, no
\* reply after the close (258-272), and no other change of a session key.
KeepsPromises == Client!Spec
=============================================================================
