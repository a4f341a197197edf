----------------------------- MODULE MCServices -----------------------------
(* Small instances of Services for TLC: one service, or one and another    *)
(* that depends on it.                                                     *)
EXTENDS Services

MCDependDe == <<0, 1>>
MCSeul == <<0>>
MCModes == {"system", "qualify"}
MCSysteme == {"system"}

=============================================================================
