---------------------------- MODULE MCAuthStream ----------------------------
(***************************************************************************)
(* Streams of two to four frames for module AuthStream: every exchange the *)
(* protocol has, each handler's outcomes, and the frames the guard refuses *)
(* at their first byte, their header, their key count or their end.        *)
(***************************************************************************)
EXTENDS AuthStream

Plain(cmd) ==
  [cmd |-> cmd, body |-> 0, account |-> 0, nul |-> FALSE, keys |-> FALSE]
Challenge(cmd, account) ==
  [Plain(cmd) EXCEPT !.account = account,
                     !.body = ChallengeAccountPrefixBodySize + account]

To(wire, next, ok) ==
  [wire |-> wire, outcome |-> [next |-> next, ok |-> ok]]

Logon == Challenge("CMD_AUTH_LOGON_CHALLENGE", 2)
Recon == Challenge("CMD_AUTH_RECONNECT_CHALLENGE", MaxAccount)

\* The handlers' outcomes (module AuthSocket).
Openings ==
  {To(Logon, "LOGON_PROOF", TRUE), To(Logon, "CLOSED", TRUE),
   To(Logon, "CLOSED", FALSE), To(Recon, "RECON_PROOF", TRUE),
   To(Recon, "CLOSED", FALSE)}
ProofFrames ==
  {To(Plain("CMD_AUTH_LOGON_PROOF"), "AUTHED", TRUE),
   To(Plain("CMD_AUTH_LOGON_PROOF"), "PATCH", TRUE),
   To(Plain("CMD_AUTH_LOGON_PROOF"), "CLOSED", TRUE),
   To(Plain("CMD_AUTH_LOGON_PROOF"), "CLOSED", FALSE),
   To(Plain("CMD_AUTH_RECONNECT_PROOF"), "AUTHED", TRUE),
   To(Plain("CMD_AUTH_RECONNECT_PROOF"), "CLOSED", FALSE)}
Requests ==
  {To(Plain("CMD_REALM_LIST"), "AUTHED", TRUE),
   To(Plain("CMD_REALM_LIST"), "AUTHED", FALSE),
   To(Plain("CMD_XFER_ACCEPT"), "CLOSED", TRUE),
   To(Plain("CMD_XFER_RESUME"), "CLOSED", TRUE),
   To(Plain("CMD_XFER_RESUME"), "CLOSED", FALSE),
   To(Plain("CMD_XFER_CANCEL"), "PATCH", TRUE)}

\* Never handled, so the outcome is of no account.
Refused(wire) == To(wire, "CLOSED", FALSE)
BadOpenings ==
  {Refused(Plain(Unknown)),
   Refused([Logon EXCEPT !.body = AuthChallengeMinimumBodySize - 1]),
   Refused([Logon EXCEPT !.body = AuthChallengeMinimumBodySize]),
   Refused([Logon EXCEPT !.nul = TRUE]),
   Refused([Recon EXCEPT !.body = MaxBody])}
BadProofs ==
  {Refused([Plain("CMD_AUTH_LOGON_PROOF") EXCEPT !.keys = TRUE]),
   Refused([Plain("CMD_AUTH_RECONNECT_PROOF") EXCEPT !.keys = TRUE])}

MCStreams ==
  {<<f, g, h>> : f \in Openings, g \in ProofFrames \cup BadProofs,
                 h \in Requests}
    \cup {<<f, g>> : f \in BadOpenings \cup Requests, g \in Openings}
    \cup {<<f, g, h, h>> :
            f \in {To(Logon, "LOGON_PROOF", TRUE)},
            g \in {To(Plain("CMD_AUTH_LOGON_PROOF"), "AUTHED", TRUE)},
            h \in {To(Plain("CMD_REALM_LIST"), "AUTHED", TRUE)}}

\* Around every length the guard compares with.
MCCut == {0, 1, 3, 4, 5, 8, 9, 34, 35, 36, 57, 58, 73, 74, 75, 289,
          65250, 65538, 65539}

MCMaxPiece == MaxPendingInput - LongestChallenge + 1
=============================================================================
