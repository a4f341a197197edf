---------------------------- MODULE MCPersistance ----------------------------
(* Small instances of Persistance for TLC. *)
EXTENDS Persistance

MCFichiers == {1, 2}
MCValeurs == {"a", "b"}

(* a disk of every format; the one that starts as V1 writes its sectors whole *)
MCDeparts ==
    {[format |-> f, dechirable |-> TRUE] : f \in {"vierge", "v2"}}
    \cup {[format |-> f, dechirable |-> FALSE] : f \in {"v1", "v1grand"}}

(* a V1 disk that may tear the sector it is writing when the power goes *)
MCV1Dechirable == {[format |-> "v1", dechirable |-> TRUE]}

(* what may fail besides a write *)
MCAucune == {}
MCLecture == {"lecture"}
MCBarriere == {"barriere"}

=============================================================================
