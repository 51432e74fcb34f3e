----------------------------- MODULE MCMainLoop -----------------------------
(***************************************************************************)
(* Small instances of MainLoop.                                            *)
(***************************************************************************)
EXTENDS MainLoop

\* The second minute matches.
MCScheduled == {1}
=============================================================================
