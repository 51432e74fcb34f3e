----------------------------- MODULE AuthStream -----------------------------
(***************************************************************************)
(* How a session turns bytes into handler calls: AuthSocket::onData with   *)
(* its buffer.  The transport delivers the client's stream cut anywhere; a *)
(* call of onData appends a piece, then inspects and handles what is       *)
(* complete, one frame per turn of its loop, and keeps the rest.  Between  *)
(* any two steps the housekeeping thread may close the session.            *)
(*                                                                         *)
(* The stream is fixed in the initial state: the frames a client sends,    *)
(* each with what its handler will make of it (module AuthSocket has the   *)
(* handlers).  The buffer is known by its size and by how much of the      *)
(* stream is in front of it.                                               *)
(***************************************************************************)
EXTENDS AuthProtocolGuard, Sequences, FiniteSets

CONSTANTS
  Streams,     \* the streams clients send
  Cut,         \* where a piece may end, counted from the start of a frame
  MaxPiece     \* the largest piece the transport delivers

Outcome == [next : StreamState, ok : BOOLEAN]
Frame == [wire : Wire, outcome : Outcome]

\* The longest challenge that is well formed.
LongestChallenge ==
  AuthChallengeHeaderSize + ChallengeAccountPrefixBodySize + MaxAccount

\* A piece never overflows a buffer that holds an incomplete valid frame.
ASSUME PieceAssumption ==
  /\ Streams \subseteq Seq(Frame)
  /\ Cut \subseteq Nat
  /\ MaxPiece \in Nat
  /\ MaxPiece < MaxPendingInput - LongestChallenge + 2

VARIABLES
  stream,      \* the client's frames
  given,       \* bytes delivered to onData
  pc,          \* onData: waiting for a call, at the top of its loop or in it
  pending,     \* m_readBuf.size()
  readPos,     \* m_readPos
  status,      \* _status
  closed,      \* m_closed
  expired,     \* history: the deadline closed the session
  handled,     \* history: frames given to a handler
  late,        \* history: those of them begun after the session was closed
  defence      \* history: a check behind the guard had to act

vars == <<stream, given, pc, pending, readPos, status, closed, expired,
          handled, late, defence>>

TypeOK ==
  /\ stream \in Streams
  /\ given \in Nat
  /\ pc \in {"wait", "loop", "frame"}
  /\ pending \in 0 .. MaxPendingInput
  /\ readPos \in 0 .. pending
  /\ status \in StreamState
  /\ closed \in BOOLEAN
  /\ expired \in BOOLEAN
  /\ handled \in 0 .. Len(stream)
  /\ late \in 0 .. handled
  /\ defence \in BOOLEAN

Init ==
  /\ stream \in Streams
  /\ given = 0
  /\ pc = "wait"
  /\ pending = 0
  /\ readPos = 0
  /\ status = "CHALLENGE"
  /\ closed = FALSE
  /\ expired = FALSE
  /\ handled = 0
  /\ late = 0
  /\ defence = FALSE

-----------------------------------------------------------------------------

\* Offset(st)[i]: where in the stream the first i frames end.
Offset(st) ==
  LET end[i \in 0 .. Len(st)] ==
        IF i = 0 THEN 0 ELSE end[i - 1] + Required(st[i].wire)
  IN end

\* The ends of pieces.
CutPoints(st) ==
  {Offset(st)[i - 1] + c : i \in DOMAIN st, c \in Cut}
    \cap 0 .. Offset(st)[Len(st)]

Clear == pending' = 0 /\ readPos' = 0

\* A call of onData: the piece is appended, or the session closed because it
\* does not fit.  A closed session ignores it.
OnData(n) ==
  /\ pc = "wait" /\ ~closed
  /\ n <= MaxPiece
  /\ given + n \in CutPoints(stream)
  /\ given' = given + n
  /\ \/ /\ CanAppendPending(pending, n)
        /\ pending' = pending + n
        /\ readPos' = 0
        /\ pc' = "loop"
        /\ UNCHANGED closed
     \/ /\ ~CanAppendPending(pending, n)
        /\ Clear
        /\ closed' = TRUE
        /\ UNCHANGED pc
  /\ UNCHANGED <<stream, status, expired, handled, late, defence>>

\* The bytes not yet consumed, the frame they begin with, and the verdict.
RecvLen == pending - readPos
HeadFrame == stream[handled + 1]
Decision ==
  IF RecvLen = 0 THEN "Incomplete"
  ELSE InspectFrame(status, HeadFrame.wire, RecvLen)

\* Mutation of Crunch: the consumed bytes stay in the buffer.
CrunchNothing == pending' = pending /\ readPos' = 0 /\ pc' = "wait"

\* Drop the bytes consumed in this call and return.
Crunch ==
  /\ pending' = IF readPos >= pending THEN 0 ELSE pending - readPos
  /\ readPos' = 0
  /\ pc' = "wait"

\* Mutation of WhileOpen: the loop does not look at m_closed.
WhileTrue ==
  /\ pc = "loop"
  /\ pc' = "frame"
  /\ UNCHANGED <<stream, given, pending, readPos, status, closed, expired,
                 handled, late, defence>>

\* The top of the loop, which a closed session leaves.
WhileOpen ==
  /\ pc = "loop"
  /\ \/ closed /\ Crunch
     \/ ~closed /\ pc' = "frame" /\ UNCHANGED <<pending, readPos>>
  /\ UNCHANGED <<stream, given, status, closed, expired, handled, late, defence>>

\* What is left is not a complete frame.
IncompleteFrame ==
  /\ pc = "frame"
  /\ Decision = "Incomplete"
  /\ Crunch
  /\ UNCHANGED <<stream, given, status, closed, expired, handled, late, defence>>

RejectFrame ==
  /\ pc = "frame"
  /\ Decision = "Reject"
  /\ Clear
  /\ closed' = TRUE
  /\ pc' = "wait"
  /\ UNCHANGED <<stream, given, status, expired, handled, late, defence>>

\* The state the dispatch table wants for a command.
HandlerStatus ==
  [c \in Command |->
     CASE c = "CMD_AUTH_LOGON_CHALLENGE" -> "CHALLENGE"
       [] c = "CMD_AUTH_LOGON_PROOF" -> "LOGON_PROOF"
       [] c = "CMD_AUTH_RECONNECT_CHALLENGE" -> "CHALLENGE"
       [] c = "CMD_AUTH_RECONNECT_PROOF" -> "RECON_PROOF"
       [] c = "CMD_REALM_LIST" -> "AUTHED"
       [] c = "CMD_XFER_ACCEPT" -> "PATCH"
       [] c = "CMD_XFER_RESUME" -> "PATCH"
       [] c = "CMD_XFER_CANCEL" -> "PATCH"]

\* What the proof handlers and resume read in one piece.
SizeofLogonProof == 1 + 32 + 20 + 20 + 1 + 1
SizeofReconnectProof == 1 + 16 + 20 + 20 + 1
SizeofStartPos == 8

\* Mutation of HandlerConsumes: a resume leaves the offset in the buffer.
ConsumesNoOffset ==
  [c \in Command \ Challenges |->
     CASE c = "CMD_AUTH_LOGON_PROOF" -> SizeofLogonProof
       [] c = "CMD_AUTH_RECONNECT_PROOF" -> SizeofReconnectProof
       [] c = "CMD_REALM_LIST" -> AuthRealmListSize
       [] c = "CMD_XFER_ACCEPT" -> AuthXferAcceptSize
       [] c = "CMD_XFER_RESUME" -> AuthXferResumeSize - SizeofStartPos
       [] c = "CMD_XFER_CANCEL" -> AuthXferCancelSize]

\* The bytes a handler takes, other than a challenge's: realm list, accept and
\* cancel skip the frame, and resume skips up to its offset and reads that.
HandlerConsumes ==
  [c \in Command \ Challenges |->
     CASE c = "CMD_AUTH_LOGON_PROOF" -> SizeofLogonProof
       [] c = "CMD_AUTH_RECONNECT_PROOF" -> SizeofReconnectProof
       [] c = "CMD_REALM_LIST" -> AuthRealmListSize
       [] c = "CMD_XFER_ACCEPT" -> AuthXferAcceptSize
       [] c = "CMD_XFER_RESUME" ->
            (AuthXferResumeSize - SizeofStartPos) + SizeofStartPos
       [] c = "CMD_XFER_CANCEL" -> AuthXferCancelSize]

\* A challenge handler reads the header and then what the header announces.
Consumed(w) ==
  IF w.cmd \in Challenges THEN 4 + w.body ELSE HandlerConsumes[w.cmd]

\* A complete frame: the table's state is compared, the handler called, the
\* bytes it took counted.  When any of this fails the session is closed.
HandleFrame ==
  /\ pc = "frame"
  /\ Decision = "Complete"
  /\ LET w == HeadFrame.wire
         expected == HandlerStatus[w.cmd] = status
         exact == Consumed(w) = Required(w)
         served == expected /\ HeadFrame.outcome.ok /\ exact
     IN /\ status' = IF expected THEN HeadFrame.outcome.next ELSE status
        /\ handled' = IF expected THEN handled + 1 ELSE handled
        /\ late' = IF expected /\ closed THEN late + 1 ELSE late
        /\ defence' = (defence \/ ~expected \/ (HeadFrame.outcome.ok /\ ~exact))
        /\ closed' = (closed \/ ~served \/ w.cmd = "CMD_XFER_CANCEL")
        /\ \/ /\ served
              /\ readPos' = readPos + Consumed(w)
              /\ pc' = "loop"
              /\ UNCHANGED pending
           \/ /\ ~served
              /\ Clear
              /\ pc' = "wait"
  /\ UNCHANGED <<stream, given, expired>>

\* ExpireAuthentication, from the housekeeping thread.
Expire ==
  /\ ~closed
  /\ closed' = TRUE
  /\ expired' = TRUE
  /\ UNCHANGED <<stream, given, pc, pending, readPos, status, handled, late,
                 defence>>

Next ==
  \/ \E point \in CutPoints(stream) : point > given /\ OnData(point - given)
  \/ WhileOpen \/ IncompleteFrame \/ RejectFrame \/ HandleFrame
  \/ Expire

Spec == Init /\ [][Next]_vars

-----------------------------------------------------------------------------
(* What a stream means, said without a buffer and without pieces.          *)

\* Frame f is handled in state st, if all of it arrives.
Served(f, st) ==
  /\ ~Unauthorized(st, f.wire)
  /\ ~Malformed(f.wire, Required(f.wire))

\* After(st)[i]: the session when the first i frames have arrived.
After(st) ==
  LET run[i \in 0 .. Len(st)] ==
        IF i = 0 THEN [status |-> "CHALLENGE", open |-> TRUE, served |-> 0]
        ELSE LET before == run[i - 1] IN
             IF before.open /\ Served(st[i], before.status)
             THEN [status |-> st[i].outcome.next,
                   open |-> /\ st[i].outcome.ok
                            /\ st[i].wire.cmd # "CMD_XFER_CANCEL",
                   served |-> i]
             ELSE [before EXCEPT !.open = FALSE]
  IN run

\* The number of frames that are whole in the first n bytes.
Whole(st, n) == Cardinality({i \in 1 .. Len(st) : Offset(st)[i] <= n})

\* The first n bytes close the session: with a whole frame, or with the frame
\* they end in, refused for what there is of it.
ClosedBy(st, n) ==
  LET k == Whole(st, n) IN
    \/ ~After(st)[k].open
    \/ /\ n > Offset(st)[k]
       /\ \/ Unauthorized(After(st)[k].status, st[k + 1].wire)
          \/ Malformed(st[k + 1].wire, n - Offset(st)[k])

\* How the transport cuts the stream makes no difference: whenever onData has
\* returned (AuthSocket.cpp 340-459), the frames handled, the session's state
\* and whether it was closed are those of the bytes delivered so far.  No
\* complete frame waits in the buffer for more input, no byte is read twice,
\* and the limit on pending input (347) closes no session that the frames
\* themselves would not close.
CutsDoNotMatter ==
  pc = "wait" /\ ~expired =>
    LET now == After(stream)[Whole(stream, given)] IN
      /\ handled = now.served
      /\ status = now.status
      /\ closed = ClosedBy(stream, given)

\* "Keep this table check as defense in depth against a future guard/dispatch
\* mismatch" (AuthSocket.cpp 411-412): neither that check nor the comparison
\* with the length a handler consumed (428) ever has to act.
GuardSuffices == ~defence

\* A session that the deadline closes while onData runs handles at most the
\* frame it had already found complete, however many more are in the buffer
\* (the test of m_closed at AuthSocket.cpp 379).
AtMostOneLate == late <= 1
=============================================================================
