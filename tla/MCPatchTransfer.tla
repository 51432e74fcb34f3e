--------------------------- MODULE MCPatchTransfer ---------------------------
(***************************************************************************)
(* Small instances of PatchTransfer.                                       *)
(***************************************************************************)
EXTENDS PatchTransfer

CONSTANTS Longer, Shorter

TwoArchives == {Longer, Shorter}

\* One archive ends within a chunk, the other with one.
MCSize == [a \in Archive |-> IF a = Longer THEN MaxLength ELSE MaxLength - 1]
=============================================================================
