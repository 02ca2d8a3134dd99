----------------------------- MODULE MCBlockDisk -----------------------------
(***************************************************************************)
(* A host with an image of two blocks, one that ends in the middle of its  *)
(* first, and a name nothing has.  Blocks have two units, and three host   *)
(* descriptors are enough to lose two and use one.                         *)
(***************************************************************************)
EXTENDS BlockDisk, TLC

CONSTANTS good, odd, none

MCPaths == {good, odd, none}
MCOutset == good :> <<1, 1, 0, 1>> @@ odd :> <<1>>
MCReplacements == {<<>>, <<0, 0>>, <<0, 0, 0>>}

\* No action reads the last answer.
ButForTheAnswer == <<files, disk, host, leaked, replaced>>
=============================================================================
