------------------------- MODULE AuthProtocolGuard -------------------------
(***************************************************************************)
(* What InspectFrame decides about the bytes at the head of a session's    *)
(* input, and the limit on input that waits (Auth/AuthProtocolGuard).      *)
(*                                                                         *)
(* A frame is what a client puts on the wire, reduced to the bytes the     *)
(* guard reads: the command, the body length a challenge announces, the    *)
(* length of its account name, whether a zero byte is in that name, and    *)
(* whether a proof announces keys.  `size` is how much of it has arrived.  *)
(***************************************************************************)
EXTENDS Naturals

AuthChallengeHeaderSize == 4
AuthChallengeMinimumBodySize == 31
AuthLogonProofSize == 75
AuthReconnectProofSize == 58
AuthRealmListSize == 5
AuthXferAcceptSize == 1
AuthXferResumeSize == 9
AuthXferCancelSize == 1
MaxBody == 65535          \* std::uint16_t
MaxAccount == 255         \* std::uint8_t
MaxPendingInput == AuthChallengeHeaderSize + MaxBody

ChallengeAccountPrefixBodySize == 30
LogonProofKeyCountOffset == 73
ReconnectProofKeyCountOffset == 57

StreamState == {"CHALLENGE", "LOGON_PROOF", "RECON_PROOF", "PATCH", "AUTHED",
                "CLOSED"}

Challenges == {"CMD_AUTH_LOGON_CHALLENGE", "CMD_AUTH_RECONNECT_CHALLENGE"}
Proofs == {"CMD_AUTH_LOGON_PROOF", "CMD_AUTH_RECONNECT_PROOF"}
Command == Challenges \cup Proofs \cup
             {"CMD_REALM_LIST", "CMD_XFER_ACCEPT", "CMD_XFER_RESUME",
              "CMD_XFER_CANCEL"}

\* Every other first byte.
Unknown == "unknown"

\* The state InspectFrame expects a command in.
ExpectedState ==
  [c \in Command |->
     CASE c \in Challenges -> "CHALLENGE"
       [] c = "CMD_AUTH_LOGON_PROOF" -> "LOGON_PROOF"
       [] c = "CMD_AUTH_RECONNECT_PROOF" -> "RECON_PROOF"
       [] c = "CMD_REALM_LIST" -> "AUTHED"
       [] OTHER -> "PATCH"]

FixedSize ==
  [c \in Command \ Challenges |->
     CASE c = "CMD_AUTH_LOGON_PROOF" -> AuthLogonProofSize
       [] c = "CMD_AUTH_RECONNECT_PROOF" -> AuthReconnectProofSize
       [] c = "CMD_REALM_LIST" -> AuthRealmListSize
       [] c = "CMD_XFER_ACCEPT" -> AuthXferAcceptSize
       [] c = "CMD_XFER_RESUME" -> AuthXferResumeSize
       [] c = "CMD_XFER_CANCEL" -> AuthXferCancelSize]

KeyCountOffset ==
  [c \in Proofs |-> IF c = "CMD_AUTH_LOGON_PROOF"
                    THEN LogonProofKeyCountOffset
                    ELSE ReconnectProofKeyCountOffset]

Wire ==
  [cmd : Command \cup {Unknown}, body : 0 .. MaxBody, account : 0 .. MaxAccount,
   nul : BOOLEAN, keys : BOOLEAN]

Required(f) ==
  IF f.cmd \in Challenges THEN AuthChallengeHeaderSize + f.body
  ELSE IF f.cmd \in Command THEN FixedSize[f.cmd] ELSE 1

Unauthorized(state, f) ==
  f.cmd = Unknown \/ (f.cmd \in Command /\ ExpectedState[f.cmd] # state)

\* Each defect shows as soon as the byte it is in has arrived; the account
\* name is looked at when the challenge is complete.
Malformed(f, size) ==
  \/ /\ f.cmd \in Challenges
     /\ size >= AuthChallengeHeaderSize
     /\ f.body < AuthChallengeMinimumBodySize
  \/ /\ f.cmd \in Challenges
     /\ size >= Required(f)
     /\ f.body # ChallengeAccountPrefixBodySize + f.account \/ f.nul
  \/ f.cmd \in Proofs /\ size > KeyCountOffset[f.cmd] /\ f.keys

InspectFrame(state, f, size) ==
  IF size = 0 THEN "Incomplete"
  ELSE IF Unauthorized(state, f) \/ Malformed(f, size) THEN "Reject"
  ELSE IF size < Required(f) THEN "Incomplete" ELSE "Complete"

\* Mutation of CanAppendPending: only what is already there is looked at.
CanAppendAny(pending, incoming) == pending <= MaxPendingInput

CanAppendPending(pending, incoming) ==
  pending <= MaxPendingInput /\ incoming <= MaxPendingInput - pending
=============================================================================
