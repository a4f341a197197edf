----------------------------- MODULE MCHandles -----------------------------
(* Small instances of Handles for TLC: a supervisor S and the service C it *)
(* launched, joined by the control channel k, on which S has said hello.  *)
(* S lends what it creates without WRITE and DUP; C passes on all it may.  *)
EXTENDS Handles

CONSTANTS S, C, s1, c1, c2, k, l

MCProcs == {S, C}
MCFils == {s1, c1, c2}
MCProcDe == [f \in MCFils |-> IF f = s1 THEN S ELSE C]
MCCanaux == {k, l}
MCMasques == [p \in MCProcs |-> IF p = S THEN {{"READ", "TRANSFER"}} ELSE {Droits}]
MCDonnes == [p \in MCProcs |->
    IF p = S THEN <<[objet |-> <<k, 0>>, droits |-> Droits]>>
    ELSE <<[objet |-> <<k, 1>>, droits |-> Droits], [objet |-> <<k, 1>>, droits |-> {"READ"}]>>]
MCAttendent == [e \in MCCanaux \X {0, 1} |->
    IF e = <<k, 1>> THEN <<[numero |-> 0, transfere |-> Nul]>> ELSE <<>>]
MCCrees == [c \in MCCanaux |-> IF c = k THEN S ELSE Nul]

MCSymetrie == Permutations({c1, c2})

=============================================================================
