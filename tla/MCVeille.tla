------------------------------ MODULE MCVeille ------------------------------
(* Small instances of Veille for TLC. *)
EXTENDS Veille

MCEnsembles == {{"canal", "proc"}, {"evt", "proc"}, {"canal", "evt"}}
MCCanal == {{"canal"}}
MCService == {{"canal", "proc"}}

=============================================================================
