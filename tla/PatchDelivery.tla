---------------------------- MODULE PatchDelivery ----------------------------
(***************************************************************************)
(* What a patch transfer promises its client (Auth/PatchHandler.h,         *)
(* realmd.conf.dist.in 51-57), without files, threads, chunks or queues:   *)
(* one archive is offered; from the offset the client asks for on, its     *)
(* bytes are sent once each and in order; the transfer is complete when    *)
(* all of them are sent, and whatever else ends it ends the connection.    *)
(* An operator who changes an archive in place voids all this.             *)
(***************************************************************************)
EXTENDS Naturals, Sequences

CONSTANTS
  Archive,      \* the archives staged for the client's build and locale
  NoArchive,
  Size          \* bytes of each archive

VARIABLES
  phase,
  archive,      \* the archive that was offered
  offset,       \* where the client wants it from
  wire          \* the bytes sent

vars == <<phase, archive, offset, wire>>

\* The i-th byte of an archive is named by the archive and its place.
Content(a) == [i \in 1 .. Size[a] |-> <<a, i>>]

Init ==
  /\ phase = "none"
  /\ archive = NoArchive
  /\ offset = 0
  /\ wire = <<>>

Offer ==
  /\ phase = "none"
  /\ phase' = "offered"
  /\ archive' \in Archive
  /\ UNCHANGED <<offset, wire>>

Begin ==
  /\ phase = "offered"
  /\ phase' = "sending"
  /\ offset' \in 0 .. Size[archive]
  /\ UNCHANGED <<archive, wire>>

Deliver ==
  /\ phase = "sending"
  /\ \E end \in offset + Len(wire) + 1 .. Size[archive] :
       wire' = SubSeq(Content(archive), offset + 1, end)
  /\ UNCHANGED <<phase, archive, offset>>

Complete ==
  /\ phase = "sending"
  /\ offset + Len(wire) = Size[archive]
  /\ phase' = "complete"
  /\ UNCHANGED <<archive, offset, wire>>

\* The version is refused, the client cancels or asks for an offset behind
\* the end, a read fails, or the connection ends.
End ==
  /\ phase # "over"
  /\ phase' = "over"
  /\ UNCHANGED <<archive, offset, wire>>

\* An archive was changed where it stands: nothing more is promised.
Void == phase' = "void"

Next == Offer \/ Begin \/ Deliver \/ Complete \/ End \/ Void

Spec == Init /\ [][Next]_vars
=============================================================================
