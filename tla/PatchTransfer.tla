---------------------------- MODULE PatchTransfer ----------------------------
(***************************************************************************)
(* One patch transfer: the archive is opened and offered (PatchArtifact,   *)
(* AuthSocket::OfferPatch), the client accepts, resumes or cancels, and a  *)
(* detached thread streams the archive through the session's transport     *)
(* (PatchHandler), which writes at its client's pace.  Meanwhile archives  *)
(* are replaced at their path, reads fail, and the connection may end.     *)
(*                                                                         *)
(* An archive on disk is known by its name and its length; its i-th byte   *)
(* is <<archive, i>>.  The open stream keeps the file it was opened on     *)
(* when another is renamed over the path.  A file may also be resized      *)
(* where it stands, which realmd.conf.dist.in 54-56 asks operators not to  *)
(* do and after which its content is not promised.                         *)
(***************************************************************************)
EXTENDS Naturals, Sequences

CONSTANTS
  Archive,      \* the files that may stand at the path
  NoArchive,    \* none, a directory or an empty file stands there
  Size,         \* bytes of each archive as staged
  kChunkSize, kMaxOutstandingBytes,
  HeaderSize,   \* bytes of a frame around its payload
  OfferSize,    \* bytes of the replies up to the offer
  MaxLength     \* bound: files grow to this at most

ASSUME PatchAssumption ==
  /\ NoArchive \notin Archive
  /\ MaxLength \in Nat
  /\ Size \in [Archive -> 1 .. MaxLength]
  /\ kChunkSize \in Nat \ {0} /\ kChunkSize < 65536
  /\ kMaxOutstandingBytes \in Nat \ {0}
  /\ HeaderSize \in Nat
  /\ OfferSize \in 1 .. kMaxOutstandingBytes

VARIABLES
  path,         \* what stands at ./patches/<build><locale>.mpq
  length,       \* bytes of each archive on disk
  session,      \* OfferPatch and BeginPatchStream of the session
  file,         \* PatchArtifact: the file m_stream is open on,
  size,         \*   m_size,
  digest,       \*   how many bytes m_digest covers,
  pos,          \*   the position of m_stream,
  eof,          \*   its eofbit and failbit
  thread,       \* position of the streaming thread
  offset,       \* startOffset
  chunk,        \* the payload in its framing buffer
  flow,         \* the transport has given the session a FlowControl
  handed,       \* bytes handed to the transport
  written,      \* bytes it has written to the socket
  closeAsked,   \* the closer has been called
  gone,         \* the connection has ended
  wire,         \* history: the payload bytes handed over, in order
  late          \* history: frames handed over after the end

diskVars == <<path, length>>
artifactVars == <<file, size, digest>>
streamVars == <<pos, eof>>
transportVars == <<handed, written>>
vars == <<diskVars, session, artifactVars, streamVars, thread, offset, chunk,
          flow, transportVars, closeAsked, gone, wire, late>>

Byte == Archive \X (1 .. MaxLength)

TypeOK ==
  /\ path \in Archive \cup {NoArchive}
  /\ length \in [Archive -> 0 .. MaxLength]
  /\ session \in {"new", "opening", "offered", "begun", "refused"}
  /\ file \in Archive \cup {NoArchive}
  /\ size \in 0 .. MaxLength
  /\ digest \in 0 .. MaxLength
  /\ pos \in 0 .. MaxLength
  /\ eof \in BOOLEAN
  /\ thread \in {"none", "sleep", "await", "read", "send", "failed", "ended"}
  /\ offset \in 0 .. MaxLength
  /\ chunk \in Seq(Byte)
  /\ flow \in BOOLEAN
  /\ handed \in Nat
  /\ written \in 0 .. handed
  /\ closeAsked \in BOOLEAN
  /\ gone \in BOOLEAN
  /\ wire \in Seq(Byte)
  /\ late \in Nat

Init ==
  /\ path \in Archive \cup {NoArchive}
  /\ length = Size
  /\ session = "new"
  /\ file = NoArchive
  /\ size = 0
  /\ digest = 0
  /\ pos = 0
  /\ eof = FALSE
  /\ thread = "none"
  /\ offset = 0
  /\ chunk = <<>>
  /\ flow \in BOOLEAN
  /\ handed = 0
  /\ written = 0
  /\ closeAsked = FALSE
  /\ gone = FALSE
  /\ wire = <<>>
  /\ late = 0

Backlog == handed - written

-----------------------------------------------------------------------------
(* OfferPatch and PatchArtifact::Open, on the session's network thread.    *)

\* SendInvalidVersion: there is no archive to offer.
SendInvalidVersion ==
  /\ session' = "refused"
  /\ file' = NoArchive
  /\ UNCHANGED <<size, digest, handed>>

\* Open takes the size of a regular file that is not empty ...
OpenSize ==
  /\ session = "new" /\ ~gone
  /\ \/ SendInvalidVersion
     \/ /\ path # NoArchive
        /\ length[path] > 0
        /\ file' = path
        /\ size' = length[path]
        /\ session' = "opening"
        /\ UNCHANGED <<digest, handed>>
  /\ UNCHANGED <<diskVars, streamVars, thread, offset, chunk, flow, written,
                 closeAsked, gone, wire, late>>

\* ... and then reads it to its end for the digest; the offer is sent.
OpenDigest ==
  /\ session = "opening"
  /\ \/ SendInvalidVersion
     \/ /\ digest' = length[file]
        /\ handed' = IF gone THEN handed ELSE handed + OfferSize
        /\ session' = "offered"
        /\ UNCHANGED <<file, size>>
  /\ UNCHANGED <<diskVars, streamVars, thread, offset, chunk, flow, written,
                 closeAsked, gone, wire, late>>

-----------------------------------------------------------------------------
(* The client's answer.                                                    *)

\* Mutation of StartsFrom: an offset past the end is accepted.
StartsPastEnd(start) == start <= size + 1

\* StartPatchTransfer and PatchArtifact::Seek accept this offset.
StartsFrom(start) == start <= size

\* Mutation of BeginPatchStream: the archive is opened again by its path.
BeginFromPath(start) ==
  /\ session = "offered" /\ ~gone /\ ~closeAsked
  /\ session' = "begun"
  /\ StartsFrom(start)
  /\ file' = IF path = NoArchive THEN file ELSE path
  /\ pos' = start
  /\ offset' = start
  /\ eof' = FALSE
  /\ thread' = "sleep"
  /\ UNCHANGED <<diskVars, size, digest, chunk, flow, transportVars,
                 closeAsked, gone, wire, late>>

\* _HandleXferAccept (start 0) and _HandleXferResume: the thread is started,
\* or the connection closed when the offset lies behind the end or the
\* stream cannot be positioned.
BeginPatchStream(start) ==
  /\ session = "offered" /\ ~gone /\ ~closeAsked
  /\ session' = "begun"
  /\ \/ /\ StartsFrom(start)
        /\ pos' = start
        /\ offset' = start
        /\ eof' = FALSE
        /\ thread' = "sleep"
        /\ UNCHANGED closeAsked
     \/ closeAsked' = TRUE /\ UNCHANGED <<thread, offset, streamVars>>
  /\ UNCHANGED <<diskVars, artifactVars, chunk, flow, transportVars, gone,
                 wire, late>>

HandleXferCancel ==
  /\ session = "offered" /\ ~gone /\ ~closeAsked
  /\ closeAsked' = TRUE
  /\ UNCHANGED <<diskVars, session, artifactVars, streamVars, thread, offset,
                 chunk, flow, transportVars, gone, wire, late>>

-----------------------------------------------------------------------------
(* The streaming thread.                                                   *)

\* The pause before the first frame.
Settle ==
  /\ thread = "sleep"
  /\ thread' = "await"
  /\ UNCHANGED <<diskVars, session, artifactVars, streamVars, offset, chunk,
                 flow, transportVars, closeAsked, gone, wire, late>>

\* Mutations of Writable: the ceiling is not looked at, and neither is the
\* end of the connection.
WritableAlways == TRUE
WritableWhenDrained == Backlog < kMaxOutstandingBytes

\* FlowControl::awaitWritable can return true.
Writable == ~gone /\ Backlog < kMaxOutstandingBytes

\* Mutation of Abandoned: the thread waits on.
NeverAbandoned == FALSE

\* FlowControl::awaitWritable returns false.
Abandoned == flow /\ gone

\* The wait for the backlog to drain.
AwaitWritable ==
  /\ thread = "await"
  /\ \/ (flow => Writable) /\ thread' = "read"
     \/ Abandoned /\ thread' = "ended"
  /\ UNCHANGED <<diskVars, session, artifactVars, streamVars, offset, chunk,
                 flow, transportVars, closeAsked, gone, wire, late>>

\* What m_stream.read yields: nothing once it has met the end.
Got ==
  LET left == IF eof \/ length[file] <= pos THEN 0 ELSE length[file] - pos
  IN IF left < kChunkSize THEN left ELSE kChunkSize

\* PatchArtifact::Read.  An error leaves badbit and no bytes.
Read ==
  /\ thread = "read"
  /\ \/ /\ Got > 0
        /\ chunk' = [i \in 1 .. Got |-> <<file, pos + i>>]
        /\ pos' = pos + Got
        /\ eof' = (Got < kChunkSize)
        /\ thread' = "send"
     \/ /\ Got = 0
        /\ eof' = TRUE
        /\ thread' = "ended"
        /\ UNCHANGED <<chunk, pos>>
     \/ thread' = "failed" /\ UNCHANGED <<chunk, streamVars>>
  /\ UNCHANGED <<diskVars, session, artifactVars, offset, flow, transportVars,
                 closeAsked, gone, wire, late>>

\* The payload of the frame, as long as its 16-bit length field says.
Payload == SubSeq(chunk, 1, Len(chunk) % 65536)

\* The frame goes to the sender; a connection that has ended drops it.
SendChunk ==
  /\ thread = "send"
  /\ \/ /\ ~gone
        /\ handed' = handed + HeaderSize + Len(chunk)
        /\ wire' = wire \o Payload
        /\ UNCHANGED late
     \/ gone /\ late' = late + 1 /\ UNCHANGED <<handed, wire>>
  /\ chunk' = <<>>
  /\ thread' = "await"
  /\ UNCHANGED <<diskVars, session, artifactVars, streamVars, offset, flow,
                 written, closeAsked, gone>>

\* artifact->bad(): the closer is called.
ReadFailed ==
  /\ thread = "failed"
  /\ closeAsked' = TRUE
  /\ thread' = "ended"
  /\ UNCHANGED <<diskVars, session, artifactVars, streamVars, offset, chunk,
                 flow, transportVars, gone, wire, late>>

StreamingThread ==
  Settle \/ AwaitWritable \/ Read \/ SendChunk \/ ReadFailed

-----------------------------------------------------------------------------
(* The transport, the client and the disk.                                 *)

\* The transport writes some of what is queued.
Write ==
  /\ ~gone
  /\ \E upTo \in written + 1 .. handed : written' = upTo
  /\ UNCHANGED <<diskVars, session, artifactVars, streamVars, thread, offset,
                 chunk, flow, handed, closeAsked, gone, wire, late>>

\* The client, the transport or AuthServer::Stop ends the connection.
ConnectionEnds ==
  /\ ~gone
  /\ gone' = TRUE
  /\ UNCHANGED <<diskVars, session, artifactVars, streamVars, thread, offset,
                 chunk, flow, transportVars, closeAsked, wire, late>>

\* Another archive, or none, is renamed over the path.
Stage ==
  /\ path' \in (Archive \cup {NoArchive}) \ {path}
  /\ UNCHANGED <<length, session, artifactVars, streamVars, thread, offset,
                 chunk, flow, transportVars, closeAsked, gone, wire, late>>

\* An archive is truncated or extended where it stands; bound: one, once.
Resize ==
  /\ length = Size
  /\ \E a \in Archive, n \in 0 .. MaxLength :
       n # length[a] /\ length' = [length EXCEPT ![a] = n]
  /\ UNCHANGED <<path, session, artifactVars, streamVars, thread, offset,
                 chunk, flow, transportVars, closeAsked, gone, wire, late>>

Next ==
  \/ OpenSize \/ OpenDigest
  \/ \E start \in 0 .. MaxLength + 1 : BeginPatchStream(start)
  \/ HandleXferCancel
  \/ StreamingThread
  \/ Write \/ ConnectionEnds \/ Stage \/ Resize

Spec == Init /\ [][Next]_vars

\* A thread that can run does; nothing is assumed of transport and client.
FairSpec == Spec /\ WF_vars(StreamingThread)

-----------------------------------------------------------------------------
(* Properties.                                                             *)

\* "queued memory stays bounded regardless of archive size or client speed"
\* (PatchHandler.cpp 48-49): what the transport has not written yet exceeds
\* the ceiling by less than one frame, however slow the client.
BacklogBounded ==
  flow => Backlog < kMaxOutstandingBytes + HeaderSize + kChunkSize

\* The detached thread, which nobody joins (PatchHandler.cpp 112), uses a
\* connection that has ended for one frame at most.
AtMostOneLateFrame == flow => late <= 1

\* The thread is released by the end of its connection, also when it was
\* waiting for a client that had stopped reading (PatchHandler.cpp 86).
EndReleasesThread == gone ~> thread \in {"none", "ended"}

\* The transfer as its client sees it: before the offer there is none, and
\* once the connection has ended or is asked to, it is over.  A change of an
\* archive where it stands voids the promise.
Phase ==
  IF length # Size THEN "void"
  ELSE IF gone \/ closeAsked \/ session = "refused" THEN "over"
  ELSE IF session \in {"new", "opening"} THEN "none"
  ELSE IF session = "offered" THEN "offered"
  ELSE IF thread = "ended" THEN "complete" ELSE "sending"

\* The offer has left.
Offered == session \in {"offered", "begun"} /\ handed > 0

Delivery == INSTANCE PatchDelivery WITH
  phase <- Phase,
  archive <- IF Offered THEN file ELSE NoArchive

\* "Existing transfers retain the exact open artifact that was advertised."
\* (realmd.conf.dist.in 56): the transfer does what PatchDelivery promises,
\* whatever is staged at the path meanwhile, until a file is changed in place.
DeliversAdvertised == Delivery!Spec
=============================================================================
