--------------------------- MODULE MCSwitchingProxy ---------------------------
(* Small instances of SwitchingProxy for TLC.                               *)
EXTENDS SwitchingProxy, TLC

\* Two calls may be admitted when one of them asks for no output.
MCLimit == [s \in Session |-> [calls |-> 2, input |-> 2, output |-> 1, perCall |-> 1]]
=============================================================================
