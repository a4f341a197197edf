----------------------------- MODULE MCAbUpdate -----------------------------
(* Small instances of AbUpdate for TLC. *)
EXTENDS AbUpdate

CONSTANTS v1, v2, p1, p2

MCImages == {v1, v2}
MCPids == {p1}
MCDeuxPids == {p1, p2}
MCToutes == {"A", "B", "RECOVERY"}
MCSansRecovery == {"A", "B"}

=============================================================================
