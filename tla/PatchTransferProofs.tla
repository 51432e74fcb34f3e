------------------------- MODULE PatchTransferProofs -------------------------
(***************************************************************************)
(* Patch transfers, for any archives, chunk size, ceiling and header: the  *)
(* backlog is bounded, a connection that has ended is used for one frame   *)
(* at most, and, until an archive is changed where it stands, the transfer *)
(* delivers the archive that was advertised.                               *)
(***************************************************************************)
EXTENDS PatchTransfer, SequenceTheorems, TLAPS

Working == {"sleep", "await", "read", "send", "failed"}

\* The archive: once it is open, a file is read.
Opened ==
  /\ length \in [Archive -> Nat]
  /\ path \in Archive \cup {NoArchive}
  /\ session \in {"new", "opening", "offered", "begun", "refused"}
  /\ session \in {"opening", "offered", "begun"} => file \in Archive
  /\ pos \in Nat /\ offset \in Nat
  /\ thread \in Working \cup {"none", "ended"}
  /\ session # "begun" => thread = "none"
  /\ chunk \in Seq(Archive \X Nat) /\ Len(chunk) <= kChunkSize

\* The thread and its backlog.  Between the wait and the send the backlog is
\* below the ceiling, since only this thread adds to it; a frame is late only
\* when the connection ended in between, and the next wait notices.
Flow ==
  /\ handed \in Nat /\ written \in Nat /\ written <= handed
  /\ flow \in BOOLEAN /\ gone \in BOOLEAN
  /\ late \in Nat
  /\ session \in {"new", "opening"} => handed = 0
  /\ flow /\ thread \in {"read", "send", "failed"} =>
       Backlog < kMaxOutstandingBytes /\ late = 0
  /\ flow /\ ~gone => late = 0
  /\ BacklogBounded
  /\ AtMostOneLateFrame

\* Reading takes at most one chunk.
LEMMA GotBounds ==
  ASSUME length \in [Archive -> Nat], file \in Archive, pos \in Nat
  PROVE  Got \in Nat /\ Got <= kChunkSize
BY PatchAssumption DEF Got

\* What Read puts into the framing buffer.
LEMMA ChunkRead ==
  ASSUME NEW n \in Nat, NEW p \in Nat, NEW a \in Archive
  PROVE  LET c == [i \in 1 .. n |-> <<a, p + i>>]
         IN /\ c \in Seq(Archive \X Nat)
            /\ Len(c) = n
            /\ \A i \in 1 .. n : c[i] = <<a, p + i>>
OBVIOUS

\* Before the offer no file is open and no thread runs.
LEMMA OpenedInit ==
  Init => Opened
BY PatchAssumption DEF Init, Opened, Working

\* Every step of Next keeps an open file open and a chunk within its buffer.
LEMMA OpenedStep ==
  Opened /\ [Next]_vars => Opened'
<1> SUFFICES ASSUME Opened, [Next]_vars PROVE Opened'
  OBVIOUS
<1> USE PatchAssumption
    DEF Opened, Working, diskVars, artifactVars, streamVars, transportVars
<1>1. CASE OpenSize
  BY <1>1 DEF OpenSize, SendInvalidVersion
<1>2. CASE OpenDigest
  BY <1>2 DEF OpenDigest, SendInvalidVersion
<1>3. ASSUME NEW start \in 0 .. MaxLength + 1, BeginPatchStream(start)
      PROVE  Opened'
  <2>1. start \in Nat
    BY <1>3
  <2>2. CASE UNCHANGED <<thread, offset, streamVars>>
    BY <1>3, <2>2 DEF BeginPatchStream
  <2>3. CASE pos' = start /\ offset' = start /\ thread' = "sleep"
    BY <1>3, <2>1, <2>3 DEF BeginPatchStream
  <2> QED  BY <1>3, <2>2, <2>3 DEF BeginPatchStream
<1>4. CASE HandleXferCancel
  BY <1>4 DEF HandleXferCancel
<1>5. CASE Settle
  BY <1>5 DEF Settle
<1>6. CASE AwaitWritable
  BY <1>6 DEF AwaitWritable
<1>7. CASE Read
  <2>1. file \in Archive
    BY <1>7 DEF Read
  <2>2. Got \in Nat /\ Got <= kChunkSize
    BY <2>1, GotBounds
  <2>3. chunk' \in Seq(Archive \X Nat) /\ Len(chunk') <= kChunkSize
    <3>1. CASE UNCHANGED chunk
      BY <3>1
    <3>2. CASE chunk' = [i \in 1 .. Got |-> <<file, pos + i>>]
      BY <2>1, <2>2, <3>2, ChunkRead
    <3> QED  BY <1>7, <3>1, <3>2 DEF Read
  <2> QED  BY <1>7, <2>1, <2>2, <2>3 DEF Read
<1>8. CASE SendChunk
  BY <1>8 DEF SendChunk
<1>9. CASE ReadFailed
  BY <1>9 DEF ReadFailed
<1>10. CASE Write \/ ConnectionEnds \/ Stage
  BY <1>10, SMTT(15) DEF Write, ConnectionEnds, Stage
<1>11. CASE Resize
  BY <1>11 DEF Resize
<1>12. CASE UNCHANGED vars
  BY <1>12 DEF vars
<1> HIDE DEF Opened, Working, diskVars, artifactVars, streamVars,
             transportVars
<1> QED
  BY <1>1, <1>2, <1>3, <1>4, <1>5, <1>6, <1>7, <1>8, <1>9, <1>10, <1>11,
     <1>12 DEF Next, StreamingThread

\* Nothing has been handed over at first.
LEMMA FlowInit ==
  Init => Flow
<1> SUFFICES ASSUME Init PROVE Flow
  OBVIOUS
<1>1. /\ handed = 0 /\ written = 0 /\ late = 0 /\ thread = "none"
      /\ flow \in BOOLEAN /\ gone \in BOOLEAN
  BY DEF Init
<1>2. Backlog = 0
  BY <1>1 DEF Backlog
<1>3. BacklogBounded /\ AtMostOneLateFrame
  BY PatchAssumption, <1>1, <1>2 DEF BacklogBounded, AtMostOneLateFrame
<1> QED  BY <1>1, <1>2, <1>3 DEF Flow

\* Every step keeps the backlog below the ceiling between wait and send.
LEMMA FlowStep ==
  Opened /\ Flow /\ [Next]_vars => Flow'
<1> SUFFICES ASSUME Opened, Flow, [Next]_vars PROVE Flow'
  OBVIOUS
<1> USE PatchAssumption
    DEF Opened, Flow, Working, Backlog, BacklogBounded, AtMostOneLateFrame,
        diskVars, artifactVars, streamVars, transportVars
<1>1. CASE OpenSize
  BY <1>1 DEF OpenSize, SendInvalidVersion
<1>2. CASE OpenDigest
  BY <1>2 DEF OpenDigest, SendInvalidVersion
<1>3. ASSUME NEW start \in 0 .. MaxLength + 1, BeginPatchStream(start)
      PROVE  Flow'
  BY <1>3 DEF BeginPatchStream, StartsFrom
<1>4. CASE HandleXferCancel
  BY <1>4 DEF HandleXferCancel
<1>5. CASE Settle
  BY <1>5 DEF Settle
<1>6. CASE AwaitWritable
  BY <1>6 DEF AwaitWritable, Writable, Abandoned
<1>7. CASE Read
  BY <1>7 DEF Read
<1>8. CASE SendChunk
  <2>1. Len(chunk) \in Nat
    OBVIOUS
  <2> QED  BY <1>8, <2>1, SMTT(15) DEF SendChunk
<1>9. CASE ReadFailed
  BY <1>9 DEF ReadFailed
<1>10. CASE Write
  BY <1>10 DEF Write
<1>11. CASE ConnectionEnds
  BY <1>11 DEF ConnectionEnds
<1>12. CASE Stage \/ Resize
  <2>1. UNCHANGED <<session, thread, flow, gone, late, handed, written>>
    BY <1>12 DEF Stage, Resize
  <2> QED  BY <2>1
<1>13. CASE UNCHANGED vars
  BY <1>13 DEF vars
<1> HIDE DEF Opened, Flow, Working, Backlog, BacklogBounded,
             AtMostOneLateFrame, diskVars, artifactVars, streamVars,
             transportVars
<1> QED
  BY <1>1, <1>2, <1>3, <1>4, <1>5, <1>6, <1>7, <1>8, <1>9, <1>10, <1>11,
     <1>12, <1>13 DEF Next, StreamingThread

-----------------------------------------------------------------------------

\* The transport never holds a whole frame more than the ceiling, for any
\* chunk size, ceiling and header (PatchHandler.cpp 48-49).
THEOREM BacklogIsBounded == Spec => []BacklogBounded
<1>1. Opened /\ Flow /\ [Next]_vars => (Opened /\ Flow)'
  BY OpenedStep, FlowStep
<1>2. Flow => BacklogBounded
  BY DEF Flow
<1> QED  BY OpenedInit, FlowInit, <1>1, <1>2, PTL DEF Spec

\* The detached thread hands at most one frame to a connection that has ended
\* (PatchHandler.cpp 112).
THEOREM OneFrameIsLate == Spec => []AtMostOneLateFrame
<1>1. Opened /\ Flow /\ [Next]_vars => (Opened /\ Flow)'
  BY OpenedStep, FlowStep
<1>2. Flow => AtMostOneLateFrame
  BY DEF Flow
<1> QED  BY OpenedInit, FlowInit, <1>1, <1>2, PTL DEF Spec

-----------------------------------------------------------------------------
(* The archive advertised is the one delivered.                            *)

\* What is on the wire and in the framing buffer is the file that was
\* offered, from the offset on; the stream stands right behind it.
Advertised ==
  /\ length = Size
  /\ gone \in BOOLEAN /\ closeAsked \in BOOLEAN /\ eof \in BOOLEAN
  /\ session \in {"opening", "offered", "begun"} => size = Size[file]
  /\ session \in {"offered", "begun"} /\ ~gone => handed > 0
  /\ closeAsked =>
       thread \in {"none", "ended"} /\ session \in {"offered", "begun"}
  /\ wire \in Seq(Archive \X Nat)
  /\ thread # "send" => chunk = <<>>
  /\ thread = "none" => wire = <<>>
  /\ \A i \in 1 .. Len(wire) : wire[i] = <<file, offset + i>>
  /\ thread \in Working /\ ~gone =>
       /\ pos = offset + Len(wire) + Len(chunk)
       /\ pos <= Size[file]
       /\ eof => pos = Size[file]
       /\ \A i \in 1 .. Len(chunk) :
            chunk[i] = <<file, offset + Len(wire) + i>>
  /\ thread = "send" => Len(chunk) > 0

\* A payload is the whole chunk: its length fits the 16-bit field.
LEMMA PayloadIsChunk ==
  ASSUME Opened
  PROVE  Payload = chunk
<1>1. Len(chunk) \in Nat /\ Len(chunk) < 65536
  BY PatchAssumption DEF Opened
<1>2. Len(chunk) % 65536 = Len(chunk)
  BY <1>1
<1> QED  BY <1>2 DEF Payload, Opened

\* The bytes of an archive.
LEMMA WholeArchive ==
  ASSUME NEW n \in Nat, NEW a \in Archive
  PROVE  LET c == [i \in 1 .. n |-> <<a, i>>]
         IN /\ c \in Seq(Archive \X Nat)
            /\ Len(c) = n
            /\ \A i \in 1 .. n : c[i] = <<a, i>>
OBVIOUS

\* A part of an archive, named byte by byte.
LEMMA PartOfArchive ==
  ASSUME NEW a \in Archive, NEW o \in Nat, NEW s \in Seq(Archive \X Nat),
         o + Len(s) <= Size[a],
         \A i \in 1 .. Len(s) : s[i] = <<a, o + i>>
  PROVE  s = SubSeq(Delivery!Content(a), o + 1, o + Len(s))
<1> DEFINE c == Delivery!Content(a)
           p == SubSeq(c, o + 1, o + Len(s))
<1>1. Size[a] \in Nat /\ Len(s) \in Nat
  BY PatchAssumption
<1>2. c \in Seq(Archive \X Nat) /\ Len(c) = Size[a]
      /\ \A i \in 1 .. Size[a] : c[i] = <<a, i>>
  BY <1>1, WholeArchive DEF Delivery!Content
<1> HIDE DEF c
<1>3. p \in Seq(Archive \X Nat) /\ Len(p) = Len(s)
      /\ \A i \in 1 .. Len(s) : p[i] = c[o + i]
  <2> DEFINE m == o + 1
             n == o + Len(s)
  <2>1. /\ m \in Int /\ n \in Int /\ n - m + 1 = Len(s)
        /\ (IF m <= n THEN n - m + 1 ELSE 0) = Len(s)
        /\ \A i \in 1 .. Len(s) : m + i - 1 = o + i
    BY <1>1
  <2>2. \A i \in m .. n : c[i] \in Archive \X Nat
    <3> SUFFICES ASSUME NEW i \in m .. n PROVE c[i] \in Archive \X Nat
      OBVIOUS
    <3>1. i \in 1 .. Size[a] /\ i \in Nat
      BY <1>1
    <3> QED  BY <1>2, <3>1
  <2> HIDE DEF m, n
  <2>3. /\ SubSeq(c, m, n) \in Seq(Archive \X Nat)
        /\ Len(SubSeq(c, m, n)) = IF m <= n THEN n - m + 1 ELSE 0
        /\ \A i \in 1 .. n - m + 1 : SubSeq(c, m, n)[i] = c[m + i - 1]
    BY <2>1, <2>2, SubSeqProperties
  <2>4. p = SubSeq(c, m, n)
    BY DEF m, n
  <2> HIDE DEF p
  <2>5. \A i \in 1 .. Len(s) : p[i] = c[o + i]
    BY <2>1, <2>3, <2>4
  <2> QED  BY <2>1, <2>3, <2>4, <2>5
<1>4. \A i \in 1 .. Len(s) : p[i] = s[i]
  <2> SUFFICES ASSUME NEW i \in 1 .. Len(s) PROVE p[i] = s[i]
    OBVIOUS
  <2> HIDE DEF p
  <2>1. o + i \in 1 .. Size[a]
    BY <1>1
  <2> QED  BY <1>2, <1>3, <2>1
<1> HIDE DEF p
<1>5. s = p
  BY <1>3, <1>4, SeqEqual
<1> QED  BY <1>5 DEF p, c

\* Nothing is on the wire at first.
LEMMA AdvertisedInit ==
  Init => Advertised
<1> SUFFICES ASSUME Init PROVE Advertised
  OBVIOUS
<1>1. /\ length = Size /\ session = "new" /\ thread = "none"
      /\ gone = FALSE /\ closeAsked = FALSE /\ eof = FALSE
      /\ wire = <<>> /\ chunk = <<>>
  BY DEF Init
<1>2. wire \in Seq(Archive \X Nat) /\ Len(wire) = 0
  BY <1>1
<1>3. \A i \in 1 .. Len(wire) : wire[i] = <<file, offset + i>>
  BY <1>2
<1> QED  BY <1>1, <1>2, <1>3, Zenon DEF Advertised, Working

\* Sending a chunk appends the next bytes of the archive.
LEMMA SendAppends ==
  ASSUME Opened, Flow, Advertised, SendChunk, ~gone
  PROVE  /\ wire' \in Seq(Archive \X Nat)
         /\ Len(wire') = Len(wire) + Len(chunk)
         /\ Len(wire) \in Nat /\ Len(chunk) \in Nat /\ Len(chunk) > 0
         /\ \A i \in 1 .. Len(wire') : wire'[i] = <<file, offset + i>>
         /\ offset + Len(wire') <= Size[file]
<1>1. /\ wire' = wire \o chunk
      /\ wire \in Seq(Archive \X Nat) /\ chunk \in Seq(Archive \X Nat)
  BY PayloadIsChunk DEF SendChunk, Advertised, Opened
<1>2. /\ wire' \in Seq(Archive \X Nat)
      /\ Len(wire') = Len(wire) + Len(chunk)
      /\ Len(wire) \in Nat /\ Len(chunk) \in Nat
      /\ \A i \in 1 .. Len(wire) + Len(chunk) :
           wire'[i] = IF i <= Len(wire) THEN wire[i] ELSE chunk[i - Len(wire)]
  BY <1>1, ConcatProperties
<1>3. /\ thread = "send" /\ Len(chunk) > 0 /\ offset \in Nat
      /\ pos = offset + Len(wire) + Len(chunk) /\ pos <= Size[file]
      /\ \A i \in 1 .. Len(wire) : wire[i] = <<file, offset + i>>
      /\ \A i \in 1 .. Len(chunk) :
           chunk[i] = <<file, offset + Len(wire) + i>>
  BY DEF SendChunk, Advertised, Opened, Working
<1>4. ASSUME NEW i \in 1 .. Len(wire') PROVE wire'[i] = <<file, offset + i>>
  <2>1. CASE i <= Len(wire)
    <3>1. i \in 1 .. Len(wire) /\ i \in 1 .. Len(wire) + Len(chunk)
      BY <1>2, <2>1
    <3> QED  BY <1>2, <1>3, <2>1, <3>1
  <2>2. CASE ~(i <= Len(wire))
    <3>1. i - Len(wire) \in 1 .. Len(chunk)
      BY <1>2, <2>2
    <3>2. offset + Len(wire) + (i - Len(wire)) = offset + i
      BY <1>2, <1>3
    <3> QED  BY <1>2, <1>3, <2>2, <3>1, <3>2
  <2> QED  BY <2>1, <2>2
<1>5. offset + Len(wire') <= Size[file]
  BY <1>2, <1>3
<1> QED  BY <1>2, <1>3, <1>4, <1>5

\* A length is changed at most once.
LEMMA ChangedOnce ==
  ASSUME [Next]_vars, length # Size
  PROVE  length' # Size
BY DEF Next, StreamingThread, vars, diskVars, OpenSize, OpenDigest,
       BeginPatchStream, HandleXferCancel, Settle, AwaitWritable, Read,
       SendChunk, ReadFailed, Write, ConnectionEnds, Stage, Resize

\* A step that changes no archive where it stands keeps it.
LEMMA AdvertisedStep ==
  ASSUME Opened, Flow, Advertised, [Next]_vars, length' = Size
  PROVE  Advertised'
<1>1. CASE OpenSize
  <2>1. UNCHANGED <<length, gone, closeAsked, eof, wire, thread, chunk, offset,
                    pos, handed>>
    BY <1>1 DEF OpenSize, SendInvalidVersion, diskVars, streamVars
  <2>2. thread = "none" /\ wire = <<>> /\ closeAsked = FALSE
    BY <1>1 DEF OpenSize, Advertised, Opened
  <2>3. Len(wire) = 0
    BY <2>2
  <2>4. session' \in {"opening", "offered", "begun"} => size' = Size[file']
    BY <1>1 DEF OpenSize, SendInvalidVersion, Advertised
  <2>5. session' \notin {"offered", "begun"}
    BY <1>1 DEF OpenSize, SendInvalidVersion
  <2> QED  BY <2>1, <2>2, <2>3, <2>4, <2>5 DEF Advertised, Working
<1>2. CASE OpenDigest
  <2>1. UNCHANGED <<length, gone, closeAsked, eof, wire, thread, chunk, offset,
                    pos>>
    BY <1>2 DEF OpenDigest, SendInvalidVersion, diskVars, streamVars
  <2>2. thread = "none" /\ wire = <<>> /\ closeAsked = FALSE
    BY <1>2 DEF OpenDigest, Advertised, Opened
  <2>3. Len(wire) = 0
    BY <2>2
  <2>4. session' \in {"opening", "offered", "begun"} => size' = Size[file']
    BY <1>2 DEF OpenDigest, SendInvalidVersion, Advertised
  <2>5. session' \in {"offered", "begun"} /\ ~gone' => handed' > 0
    BY <1>2, PatchAssumption DEF OpenDigest, SendInvalidVersion, Flow
  <2> QED  BY <2>1, <2>2, <2>3, <2>4, <2>5 DEF Advertised, Working
<1>3. ASSUME NEW start \in 0 .. MaxLength + 1, BeginPatchStream(start)
      PROVE  Advertised'
  <2>1. /\ UNCHANGED <<length, gone, wire, chunk, handed, file, size>>
        /\ session = "offered" /\ session' = "begun" /\ ~closeAsked
    BY <1>3
    DEF BeginPatchStream, diskVars, artifactVars, transportVars
  <2>2. thread = "none" /\ wire = <<>> /\ chunk = <<>> /\ size = Size[file]
    BY <2>1 DEF Advertised, Opened
  <2>3. Len(wire) = 0 /\ Len(chunk) = 0 /\ start \in Nat
    BY <2>2
  <2>4. CASE closeAsked' = TRUE /\ UNCHANGED <<thread, offset, streamVars>>
    <3>1. eof' \in BOOLEAN /\ thread' = "none" /\ gone' \in BOOLEAN
      BY <2>1, <2>2, <2>4 DEF Advertised, streamVars
    <3>2. \A i \in 1 .. Len(wire') : wire'[i] = <<file', offset' + i>>
      BY <2>1, <2>3
    <3> QED  BY <2>1, <2>2, <2>4, <3>1, <3>2, Zenon DEF Advertised, Working
  <2>5. CASE /\ StartsFrom(start) /\ pos' = start /\ offset' = start
             /\ eof' = FALSE /\ thread' = "sleep" /\ UNCHANGED closeAsked
    <3>1. /\ pos' = offset' + Len(wire') + Len(chunk')
          /\ pos' <= Size[file']
      <4>1. start <= Size[file]
        BY <2>2, <2>5 DEF StartsFrom
      <4>2. start = start + 0 + 0
        BY <2>3
      <4>3. Len(wire') = 0 /\ Len(chunk') = 0
        BY <2>1, <2>3
      <4> QED  BY <2>1, <2>5, <4>1, <4>2, <4>3
    <3>2. /\ \A i \in 1 .. Len(wire') : FALSE
          /\ \A i \in 1 .. Len(chunk') : FALSE
      BY <2>1, <2>3
    <3> QED
      BY <2>1, <2>2, <2>5, <3>1, <3>2 DEF Advertised, Working
  <2> QED  BY <1>3, <2>4, <2>5 DEF BeginPatchStream
<1>4. CASE HandleXferCancel
  <2>1. /\ UNCHANGED <<length, gone, eof, session, file, size, handed, wire,
                        thread, chunk, offset, pos>>
        /\ session = "offered" /\ closeAsked' = TRUE
    BY <1>4
    DEF HandleXferCancel, diskVars, streamVars, artifactVars, transportVars
  <2>2. thread = "none"
    BY <2>1 DEF Opened
  <2> QED  BY <2>1, <2>2 DEF Advertised, Working
<1>5. CASE Settle \/ AwaitWritable
  <2>1. /\ UNCHANGED <<length, gone, eof, session, file, size, handed, wire,
                        closeAsked, chunk, offset, pos>>
        /\ thread \in {"sleep", "await"} /\ thread' \in {"await", "read", "ended"}
    BY <1>5
    DEF Settle, AwaitWritable, diskVars, streamVars, artifactVars,
        transportVars
  <2> QED  BY <2>1 DEF Advertised, Working
<1>6. CASE Read
  <2>1. /\ UNCHANGED <<length, gone, session, file, size, handed, wire,
                        closeAsked, offset>>
        /\ thread = "read"
    BY <1>6 DEF Read, diskVars, artifactVars, transportVars
  <2>2. /\ file \in Archive /\ pos \in Nat /\ offset \in Nat
        /\ length = Size /\ Size[file] \in Nat /\ ~closeAsked
        /\ chunk = <<>> /\ eof \in BOOLEAN
    BY <2>1, PatchAssumption DEF Opened, Advertised
  <2>3. Len(chunk) = 0 /\ Len(wire) \in Nat
    BY <2>2 DEF Advertised
  <2>4. CASE thread' = "failed" /\ UNCHANGED <<chunk, streamVars>>
    BY <2>1, <2>2, <2>3, <2>4 DEF Advertised, Working, streamVars
  <2>5. CASE /\ Got = 0 /\ eof' = TRUE /\ thread' = "ended"
             /\ UNCHANGED <<chunk, pos>>
    BY <2>1, <2>2, <2>3, <2>5 DEF Advertised, Working
  <2>6. CASE /\ Got > 0 /\ chunk' = [i \in 1 .. Got |-> <<file, pos + i>>]
             /\ pos' = pos + Got /\ eof' = (Got < kChunkSize)
             /\ thread' = "send"
    <3>1. /\ Got \in Nat
          /\ pos + Got <= Size[file]
          /\ Got < kChunkSize => pos + Got = Size[file]
      BY <2>2, <2>6, PatchAssumption DEF Got
    <3>2. /\ Len(chunk') = Got
          /\ \A i \in 1 .. Got : chunk'[i] = <<file, pos + i>>
      BY <2>2, <2>6, <3>1, ChunkRead
    <3>3. ~gone => pos = offset + Len(wire)
      BY <2>1, <2>2, <2>3 DEF Advertised, Working
    <3>4. ~gone' =>
            /\ pos' = offset' + Len(wire') + Len(chunk')
            /\ pos' <= Size[file']
            /\ eof' => pos' = Size[file']
            /\ \A i \in 1 .. Len(chunk') :
                 chunk'[i] = <<file', offset' + Len(wire') + i>>
      BY <2>1, <2>2, <2>3, <2>6, <3>1, <3>2, <3>3
    <3>5. eof' \in BOOLEAN /\ Len(chunk') > 0
      BY <2>6, <3>1, <3>2
    <3> QED  BY <2>1, <2>2, <2>6, <3>4, <3>5 DEF Advertised, Working
  <2> QED  BY <1>6, <2>4, <2>5, <2>6 DEF Read
<1>7. CASE SendChunk
  <2>1. /\ UNCHANGED <<length, gone, eof, session, file, size, closeAsked,
                        offset, pos>>
        /\ thread = "send" /\ thread' = "await" /\ chunk' = <<>>
    BY <1>7 DEF SendChunk, diskVars, artifactVars, streamVars
  <2>2. Len(chunk') = 0 /\ ~closeAsked /\ session = "begun"
    BY <2>1 DEF Advertised, Opened
  <2>3. CASE gone
    BY <1>7, <2>1, <2>2, <2>3 DEF SendChunk, Advertised, Working
  <2>4. CASE ~gone
    <3>1. handed > 0 => handed' > 0
      BY <1>7, <2>4, PatchAssumption DEF SendChunk, Flow, Opened
    <3>2. /\ pos = offset + Len(wire) + Len(chunk)
          /\ pos <= Size[file]
          /\ eof => pos = Size[file]
      BY <2>1, <2>4 DEF Advertised, Working
    <3>3. /\ wire' \in Seq(Archive \X Nat)
          /\ \A i \in 1 .. Len(wire') : wire'[i] = <<file', offset' + i>>
          /\ pos' = offset' + Len(wire') + Len(chunk')
      <4>1. offset \in Nat
        BY DEF Opened
      <4>2. /\ wire' \in Seq(Archive \X Nat)
            /\ Len(wire') = Len(wire) + Len(chunk)
            /\ Len(wire) \in Nat /\ Len(chunk) \in Nat
            /\ \A i \in 1 .. Len(wire') : wire'[i] = <<file, offset + i>>
        BY <1>7, <2>4, SendAppends
      <4>3. pos' = offset' + Len(wire') + Len(chunk')
        BY <2>1, <2>2, <3>2, <4>1, <4>2
      <4> QED  BY <2>1, <4>2, <4>3
    <3>4. \A i \in 1 .. Len(chunk') : FALSE
      BY <2>2
    <3> QED
      BY <2>1, <2>2, <2>4, <3>1, <3>2, <3>3, <3>4 DEF Advertised, Working
  <2> QED  BY <2>3, <2>4
<1>8. CASE ReadFailed
  <2>1. /\ UNCHANGED <<length, gone, eof, session, file, size, handed, wire,
                        chunk, offset, pos>>
        /\ thread = "failed" /\ thread' = "ended" /\ closeAsked' = TRUE
    BY <1>8
    DEF ReadFailed, diskVars, streamVars, artifactVars, transportVars
  <2> QED  BY <2>1 DEF Advertised, Working, Opened
<1>9. CASE Write \/ ConnectionEnds \/ Stage
  <2>1. /\ UNCHANGED <<length, eof, session, file, size, handed, wire, thread,
                        closeAsked, chunk, offset, pos>>
        /\ gone' = TRUE \/ gone' = gone
    BY <1>9
    DEF Write, ConnectionEnds, Stage, diskVars, streamVars, artifactVars,
        transportVars
  <2>2. CASE gone' = gone
    BY <2>1, <2>2, Zenon DEF Advertised
  <2>3. CASE gone' = TRUE
    BY <2>1, <2>3, Zenon DEF Advertised
  <2> QED  BY <2>1, <2>2, <2>3
<1>10. CASE Resize
  BY <1>10 DEF Resize, Opened
<1>11. CASE UNCHANGED vars
  BY <1>11
  DEF vars, Advertised, diskVars, streamVars, artifactVars, transportVars
<1> QED
  BY <1>1, <1>2, <1>3, <1>4, <1>5, <1>6, <1>7, <1>8, <1>9, <1>10, <1>11
  DEF Next, StreamingThread

\* A step that changes no archive where it stands is a step of the delivery,
\* or none its client sees.
LEMMA DeliveryStep ==
  ASSUME Opened, Flow, Advertised, [Next]_vars, length' = Size
  PROVE  [Delivery!Next]_(Delivery!vars)
<1>a. length = Size /\ length' = Size
  BY DEF Advertised
<1> USE <1>a
<1> DEFINE archive == IF Offered THEN file ELSE NoArchive
           Stutter == UNCHANGED <<Phase, archive, offset, wire>>
           Over == /\ Phase # "over" /\ Phase' = "over"
                   /\ UNCHANGED <<archive, offset, wire>>
<1>0. Stutter \/ Over => [Delivery!Next]_(Delivery!vars)
  BY DEF Delivery!Next, Delivery!End, Delivery!vars
<1>1. CASE OpenSize
  <2>1. /\ ~gone /\ ~closeAsked /\ session = "new"
        /\ ~gone' /\ ~closeAsked' /\ session' \in {"opening", "refused"}
        /\ UNCHANGED <<offset, wire>>
    BY <1>1 DEF OpenSize, SendInvalidVersion, Advertised
  <2>2. archive = NoArchive /\ archive' = NoArchive
    BY <2>1 DEF Offered
  <2> QED  BY <1>0, <2>1, <2>2 DEF Phase
<1>2. CASE OpenDigest
  <2>1. /\ ~closeAsked /\ session = "opening" /\ file \in Archive
        /\ UNCHANGED <<offset, wire, gone, closeAsked>>
    BY <1>2 DEF OpenDigest, Advertised, Opened
  <2>2. archive = NoArchive
    BY <2>1 DEF Offered
  <2>3. CASE session' = "refused"
    <3>1. archive' = NoArchive
      BY <2>3 DEF Offered
    <3> QED  BY <1>0, <2>1, <2>2, <2>3, <3>1 DEF Phase
  <2>4. CASE /\ session' = "offered" /\ file' = file
             /\ handed' = IF gone THEN handed ELSE handed + OfferSize
    <3>1. handed = 0
      BY <2>1 DEF Flow
    <3>2. CASE gone
      <4>1. archive' = NoArchive
        BY <2>4, <3>1, <3>2 DEF Offered
      <4> QED  BY <1>0, <2>1, <2>2, <3>2, <4>1 DEF Phase
    <3>3. CASE ~gone
      <4>1. handed' > 0
        BY <2>4, <3>1, <3>3, PatchAssumption
      <4>2. archive' = file
        BY <2>4, <4>1 DEF Offered
      <4>3. Phase = "none" /\ Phase' = "offered"
        BY <2>1, <2>4, <3>3 DEF Phase
      <4>4. Delivery!Offer
        BY <2>1, <4>2, <4>3 DEF Delivery!Offer
      <4> QED  BY <4>4 DEF Delivery!Next
    <3> QED  BY <3>2, <3>3
  <2> QED  BY <1>2, <2>3, <2>4 DEF OpenDigest, SendInvalidVersion
<1>3. ASSUME NEW start \in 0 .. MaxLength + 1, BeginPatchStream(start)
      PROVE  [Delivery!Next]_(Delivery!vars)
  <2>1. /\ session = "offered" /\ ~gone /\ ~closeAsked
        /\ session' = "begun" /\ ~gone'
        /\ UNCHANGED <<wire, file, handed>>
    BY <1>3 DEF BeginPatchStream, artifactVars, transportVars
  <2>2. archive = file /\ archive' = file /\ Phase = "offered"
    BY <2>1 DEF Offered, Advertised, Phase
  <2>3. CASE closeAsked' = TRUE /\ UNCHANGED offset
    BY <1>0, <2>1, <2>2, <2>3 DEF Phase
  <2>4. CASE /\ StartsFrom(start) /\ offset' = start /\ thread' = "sleep"
             /\ closeAsked' = closeAsked
    <3>1. Phase' = "sending"
      BY <2>1, <2>4 DEF Phase
    <3>2. offset' \in 0 .. Size[file]
      BY <2>1, <2>4, PatchAssumption DEF StartsFrom, Advertised, Opened
    <3>3. Delivery!Begin
      BY <2>1, <2>2, <3>1, <3>2 DEF Delivery!Begin
    <3> QED  BY <3>3 DEF Delivery!Next
  <2> QED  BY <1>3, <2>3, <2>4 DEF BeginPatchStream
<1>4. CASE HandleXferCancel
  <2>1. /\ session = "offered" /\ ~gone /\ ~closeAsked /\ closeAsked' = TRUE
        /\ UNCHANGED <<session, file, handed, offset, wire>>
    BY <1>4 DEF HandleXferCancel, artifactVars, transportVars
  <2> QED  BY <1>0, <2>1 DEF Phase, Offered
<1>5. CASE Settle \/ AwaitWritable
  <2>1. /\ UNCHANGED <<session, file, handed, offset, wire, gone, closeAsked>>
        /\ thread \in {"sleep", "await"}
        /\ thread' \in {"await", "read"} \/ (gone /\ thread' = "ended")
    BY <1>5
    DEF Settle, AwaitWritable, Abandoned, artifactVars, transportVars
  <2> QED  BY <1>0, <2>1 DEF Phase, Offered
<1>6. CASE Read
  <2>1. /\ UNCHANGED <<session, file, handed, offset, wire, gone, closeAsked>>
        /\ thread = "read" /\ session = "begun" /\ ~closeAsked
        /\ thread' \in {"send", "failed"} \/ (Got = 0 /\ thread' = "ended")
    BY <1>6 DEF Read, artifactVars, transportVars, Opened, Advertised
  <2>2. UNCHANGED archive
    BY <2>1 DEF Offered
  <2>3. CASE gone \/ thread' \in {"send", "failed"}
    BY <1>0, <2>1, <2>2, <2>3 DEF Phase
  <2>4. CASE ~gone /\ Got = 0 /\ thread' = "ended"
    <3>1. Phase = "sending" /\ Phase' = "complete" /\ archive = file
      BY <2>1, <2>4 DEF Phase, Offered, Advertised
    <3>2. /\ pos = offset + Len(wire) + Len(chunk) /\ pos <= Size[file]
          /\ eof => pos = Size[file]
          /\ chunk = <<>> /\ pos \in Nat /\ length = Size
          /\ file \in Archive /\ Size[file] \in Nat
          /\ wire \in Seq(Archive \X Nat) /\ offset \in Nat
      <4>1. thread \in Working /\ ~gone
        BY <2>1, <2>4 DEF Working
      <4>2. file \in Archive /\ pos \in Nat /\ offset \in Nat
        BY <2>1 DEF Opened
      <4>3. Size[file] \in Nat
        BY <4>2, PatchAssumption
      <4> QED  BY <2>1, <4>1, <4>2, <4>3, Zenon DEF Advertised
    <3>3. pos = Size[file]
      BY <2>4, <3>2, PatchAssumption DEF Got
    <3>4. offset + Len(wire) = Size[archive]
      <4>1. Len(chunk) = 0 /\ Len(wire) \in Nat
        BY <3>2
      <4> QED  BY <3>1, <3>2, <3>3, <4>1
    <3>5. Delivery!Complete
      BY <2>1, <2>2, <3>1, <3>4 DEF Delivery!Complete
    <3> QED  BY <3>5 DEF Delivery!Next
  <2> QED  BY <2>1, <2>3, <2>4
<1>7. CASE SendChunk
  <2>1. /\ UNCHANGED <<session, file, offset, gone, closeAsked>>
        /\ thread = "send" /\ thread' = "await"
        /\ session = "begun" /\ ~closeAsked /\ file \in Archive
    BY <1>7 DEF SendChunk, artifactVars, Opened, Advertised
  <2>2. CASE gone
    BY <1>0, <1>7, <2>1, <2>2 DEF SendChunk, Phase, Offered
  <2>3. CASE ~gone
    <3>1. handed > 0 /\ handed' > 0
      BY <1>7, <2>1, <2>3, PatchAssumption
      DEF SendChunk, Flow, Opened, Advertised
    <3>2. Phase = "sending" /\ Phase' = "sending" /\ archive = file
          /\ archive' = file
      BY <2>1, <2>3, <3>1 DEF Phase, Offered
    <3>3. /\ wire' \in Seq(Archive \X Nat)
          /\ Len(wire') = Len(wire) + Len(chunk)
          /\ Len(wire) \in Nat /\ Len(chunk) \in Nat /\ Len(chunk) > 0
          /\ \A i \in 1 .. Len(wire') : wire'[i] = <<file, offset + i>>
          /\ offset + Len(wire') <= Size[file]
      BY <1>7, <2>3, SendAppends
    <3>4. offset \in Nat /\ Size[file] \in Nat
      BY <2>1, PatchAssumption DEF Opened
    <3>5. wire' = SubSeq(Delivery!Content(file), offset + 1,
                         offset + Len(wire'))
      BY <2>1, <3>3, <3>4, PartOfArchive
    <3>6. offset + Len(wire') \in offset + Len(wire) + 1 .. Size[file]
      BY <3>3, <3>4
    <3>7. Delivery!Deliver
      BY <2>1, <3>2, <3>5, <3>6 DEF Delivery!Deliver
    <3> QED  BY <3>7 DEF Delivery!Next
  <2> QED  BY <2>2, <2>3
<1>8. CASE ReadFailed
  <2>1. /\ UNCHANGED <<session, file, handed, offset, wire, gone>>
        /\ thread = "failed" /\ closeAsked' = TRUE
        /\ session = "begun" /\ ~closeAsked
    BY <1>8 DEF ReadFailed, artifactVars, transportVars, Opened, Advertised
  <2> QED  BY <1>0, <2>1 DEF Phase, Offered
<1>9. CASE Write \/ ConnectionEnds \/ Stage
  <2>1. /\ UNCHANGED <<session, file, handed, offset, wire, thread, closeAsked>>
        /\ gone' = TRUE \/ gone' = gone
    BY <1>9 DEF Write, ConnectionEnds, Stage, artifactVars, transportVars
  <2> QED  BY <1>0, <2>1 DEF Phase, Offered
<1>10. CASE Resize
  BY <1>10 DEF Resize, Opened
<1>11. CASE UNCHANGED vars
  BY <1>0, <1>11 DEF vars, artifactVars, transportVars, Phase, Offered
<1> QED
  BY <1>1, <1>2, <1>3, <1>4, <1>5, <1>6, <1>7, <1>8, <1>9, <1>10, <1>11
  DEF Next, StreamingThread

\* "Existing transfers retain the exact open artifact that was advertised."
\* (realmd.conf.dist.in 56): for any archives and sizes, and whatever is
\* staged at the path meanwhile, until a file is changed in place.
THEOREM TransferDelivers ==
  Spec => DeliversAdvertised
<1> DEFINE Inv == Opened /\ Flow /\ (length = Size => Advertised)
<1>1. Init => Inv
  BY OpenedInit, FlowInit, AdvertisedInit
<1>2. Inv /\ [Next]_vars => Inv'
  BY OpenedStep, FlowStep, AdvertisedStep, ChangedOnce
<1>3. Init => Delivery!Init
  BY DEF Init, Delivery!Init, Phase, Offered
<1>4. Inv /\ [Next]_vars => [Delivery!Next]_(Delivery!vars)
  <2> SUFFICES ASSUME Inv, [Next]_vars
               PROVE  [Delivery!Next]_(Delivery!vars)
    OBVIOUS
  <2>1. CASE length' = Size
    BY <2>1, DeliveryStep, ChangedOnce
  <2>2. CASE length' # Size
    <3>1. Delivery!Void
      BY <2>2 DEF Delivery!Void, Phase
    <3> QED  BY <3>1 DEF Delivery!Next
  <2> QED  BY <2>1, <2>2
<1> HIDE DEF Inv
<1> QED  BY <1>1, <1>2, <1>3, <1>4, PTL DEF Spec, DeliversAdvertised, Delivery!Spec

-----------------------------------------------------------------------------
(* Types.                                                                  *)

Threads == {"none", "sleep", "await", "read", "send", "failed", "ended"}

\* What Read yields are bytes of the archive, and it stops at its end.
LEMMA ReadTypes ==
  ASSUME TypeOK, file \in Archive
  PROVE  /\ pos + Got \in 0 .. MaxLength
         /\ [i \in 1 .. Got |-> <<file, pos + i>>] \in Seq(Byte)
<1>1. /\ length[file] \in Nat /\ length[file] <= MaxLength
      /\ pos \in Nat /\ pos <= MaxLength /\ MaxLength \in Nat
  BY PatchAssumption DEF TypeOK
<1>2. Got \in Nat /\ pos + Got <= MaxLength
  BY <1>1, PatchAssumption, SMT DEF Got
<1> DEFINE n == Got
<1>3. n \in Nat /\ pos + n <= MaxLength
  BY <1>2
<1> HIDE DEF n
<1>4. \A i \in 1 .. n : <<file, pos + i>> \in Byte
  BY <1>1, <1>3 DEF Byte
<1>5. [i \in 1 .. n |-> <<file, pos + i>>] \in Seq(Byte)
  BY <1>3, <1>4
<1> QED  BY <1>1, <1>3, <1>5 DEF n

\* No archive is open at first.
LEMMA TypeInit ==
  Init => TypeOK
<1> SUFFICES ASSUME Init PROVE TypeOK
  OBVIOUS
<1>1. length \in [Archive -> 0 .. MaxLength] /\ 0 \in 0 .. MaxLength
  BY PatchAssumption DEF Init
<1>2. chunk \in Seq(Byte) /\ wire \in Seq(Byte)
  BY DEF Init
<1>3. /\ eof \in BOOLEAN /\ flow \in BOOLEAN /\ closeAsked \in BOOLEAN
      /\ gone \in BOOLEAN
  BY DEF Init
<1>4. handed \in Nat /\ written \in 0 .. handed /\ late \in Nat
  BY DEF Init
<1> QED  BY <1>1, <1>2, <1>3, <1>4 DEF Init, TypeOK

\* Every step keeps the types.
LEMMA TypeStep ==
  TypeOK /\ Opened /\ [Next]_vars => TypeOK'
<1> SUFFICES ASSUME TypeOK, Opened, [Next]_vars PROVE TypeOK'
  OBVIOUS
<1>0. MaxLength \in Nat /\ OfferSize \in Nat /\ HeaderSize \in Nat
  BY PatchAssumption
<1> USE DEF diskVars, artifactVars, streamVars, transportVars
<1>1. CASE OpenSize
  <2>1. /\ file' \in Archive \cup {NoArchive} /\ size' \in 0 .. MaxLength
        /\ session' \in {"opening", "refused"}
        /\ UNCHANGED <<digest, handed>>
    BY <1>1 DEF OpenSize, SendInvalidVersion, TypeOK
  <2> QED  BY <1>1, <2>1 DEF OpenSize, TypeOK
<1>2. CASE OpenDigest
  <2>1. /\ file' \in Archive \cup {NoArchive} /\ size' \in 0 .. MaxLength
        /\ session' \in {"offered", "refused"}
        /\ digest' \in 0 .. MaxLength
    BY <1>2 DEF OpenDigest, SendInvalidVersion, TypeOK, Opened
  <2>2. handed' \in Nat /\ handed <= handed'
    BY <1>0, <1>2 DEF OpenDigest, SendInvalidVersion, TypeOK
  <2>3. written' \in 0 .. handed'
    BY <1>2, <2>2 DEF OpenDigest, TypeOK
  <2> QED  BY <1>2, <2>1, <2>2, <2>3 DEF OpenDigest, TypeOK
<1>3. ASSUME NEW start \in 0 .. MaxLength + 1, BeginPatchStream(start)
      PROVE  TypeOK'
  <2>1. pos' \in 0 .. MaxLength /\ offset' \in 0 .. MaxLength
    BY <1>0, <1>3 DEF BeginPatchStream, StartsFrom, TypeOK
  <2>2. thread' \in Threads
    BY <1>3 DEF BeginPatchStream, TypeOK, Threads
  <2>3. eof' \in BOOLEAN /\ closeAsked' \in BOOLEAN
    BY <1>3 DEF BeginPatchStream, TypeOK
  <2> QED  BY <1>3, <2>1, <2>2, <2>3 DEF BeginPatchStream, TypeOK, Threads
<1>4. CASE HandleXferCancel
  BY <1>4 DEF HandleXferCancel, TypeOK
<1>5. CASE Settle \/ AwaitWritable
  <2>1. thread' \in Threads
    BY <1>5 DEF Settle, AwaitWritable, Threads
  <2>2. UNCHANGED <<diskVars, session, artifactVars, streamVars, offset, chunk,
                    flow, transportVars, closeAsked, gone, wire, late>>
    BY <1>5 DEF Settle, AwaitWritable
  <2> QED  BY <2>1, <2>2 DEF TypeOK, Threads
<1>6. CASE Read
  <2>1. file \in Archive
    BY <1>6 DEF Read, Opened
  <2>2. chunk' \in Seq(Byte) /\ pos' \in 0 .. MaxLength
    <3>1. CASE UNCHANGED <<chunk, pos>>
      BY <3>1 DEF TypeOK
    <3>2. CASE /\ chunk' = [i \in 1 .. Got |-> <<file, pos + i>>]
               /\ pos' = pos + Got
      BY <2>1, <3>2, ReadTypes
    <3> QED  BY <1>6, <3>1, <3>2 DEF Read
  <2>3. thread' \in Threads
    BY <1>6 DEF Read, Threads
  <2>4. eof' \in BOOLEAN
    <3>1. eof \in BOOLEAN
      BY DEF TypeOK
    <3>2. (Got < kChunkSize) \in BOOLEAN
      OBVIOUS
    <3> QED  BY <1>6, <3>1, <3>2, Zenon DEF Read
  <2> QED  BY <1>6, <2>2, <2>3, <2>4 DEF Read, TypeOK, Threads
<1>7. CASE SendChunk
  <2>1. Len(chunk) \in Nat /\ Payload = chunk
    BY PayloadIsChunk DEF TypeOK
  <2>2. wire' \in Seq(Byte)
    <3>1. wire \in Seq(Byte) /\ chunk \in Seq(Byte)
      BY DEF TypeOK
    <3>2. wire \o chunk \in Seq(Byte)
      BY <3>1, ConcatProperties
    <3> QED  BY <1>7, <2>1, <3>1, <3>2 DEF SendChunk
  <2>3. handed' \in Nat /\ handed <= handed'
    BY <1>0, <1>7, <2>1 DEF SendChunk, TypeOK
  <2>4. written' \in 0 .. handed'
    BY <1>7, <2>3 DEF SendChunk, TypeOK
  <2>5. late' \in Nat /\ chunk' \in Seq(Byte) /\ thread' \in Threads
    BY <1>7 DEF SendChunk, TypeOK, Threads
  <2> QED
    BY <1>7, <2>2, <2>3, <2>4, <2>5 DEF SendChunk, TypeOK, Threads
<1>8. CASE ReadFailed
  BY <1>8 DEF ReadFailed, TypeOK
<1>9. CASE Write
  <2>1. written' \in 0 .. handed
    BY <1>9 DEF Write, TypeOK
  <2> QED  BY <1>9, <2>1 DEF Write, TypeOK
<1>10. CASE ConnectionEnds
  BY <1>10 DEF ConnectionEnds, TypeOK
<1>11. CASE Stage
  BY <1>11 DEF Stage, TypeOK
<1>12. CASE Resize
  <2>1. length' \in [Archive -> 0 .. MaxLength]
    BY <1>12 DEF Resize, TypeOK
  <2> QED  BY <1>12, <2>1 DEF Resize, TypeOK
<1>13. CASE UNCHANGED vars
  BY <1>13 DEF vars, TypeOK
<1> QED
  BY <1>1, <1>2, <1>3, <1>4, <1>5, <1>6, <1>7, <1>8, <1>9, <1>10, <1>11,
     <1>12, <1>13 DEF Next, StreamingThread

\* No offset, position or digest of a transfer leaves its archive, the
\* transport never writes what it was not handed, and every byte sent is the
\* byte of an archive, whatever is renamed or resized on disk meanwhile
\* (PatchHandler.cpp 48-112).
THEOREM TransferTypes == Spec => []TypeOK
<1>1. TypeOK /\ Opened /\ [Next]_vars => (TypeOK /\ Opened)'
  BY TypeStep, OpenedStep
<1> QED  BY TypeInit, OpenedInit, <1>1, PTL DEF Spec

=============================================================================
