---------------------------- MODULE MCRequestLoop ----------------------------
(***************************************************************************)
(* An instance of RequestLoop for TLC.  A unit is about a minute or more;  *)
(* only the order of the durations matters and it is the code's: worker    *)
(* 180 s < compute::verify 200 s < budget 600 s.                           *)
(***************************************************************************)
EXTENDS RequestLoop

CONSTANTS verify

MCDeclared == [e \in Entries |-> 2]
\* compute::verify runs one program.
MCAskLimit == [e \in Entries |-> 1]
==============================================================================
