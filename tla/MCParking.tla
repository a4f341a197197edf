----------------------------- MODULE MCParking -----------------------------
(* Small instances of Parking for TLC. *)
EXTENDS Parking, TLC

CONSTANTS f1, f2, r1, r2

MCFile == {f1}
MCDeuxFiles == {f1, f2}
MCUnReveilleur == {r1}
MCReveilleurs == {r1, r2}
MCAucun == {}
MCUnFil == {1}
MCTous == {TRUE, FALSE}
MCNon == {FALSE}
MCOui == {TRUE}
MCSymetrie == Permutations(Reveilleurs)

=============================================================================
