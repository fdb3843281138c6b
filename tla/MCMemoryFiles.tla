---------------------------- MODULE MCMemoryFiles ----------------------------
(***************************************************************************)
(* Instances of MemoryFiles for TLC.                                       *)
(***************************************************************************)
EXTENDS MemoryFiles

CONSTANTS c1, c2

\* A subject of the tests, and a point whose last byte is 0xBF.
Maths == <<230, 149, 176, 229, 173, 166>>
Line == <<231, 186, 191>>

MCPaths == {<<Maths>>, <<Maths, Line>>, <<Line, Maths>>}
MCOldEntries == {<<Maths, Line>>}
\* An old entry whose name is what base64url makes of Maths.
MCMisread == {<<Maths>>}
==============================================================================
