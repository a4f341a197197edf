------------------------------- MODULE MCNvme -------------------------------
(* Small instances of Nvme for TLC. *)
EXTENDS Nvme

CONSTANTS a, b

MCTaches == {a, b}

=============================================================================
