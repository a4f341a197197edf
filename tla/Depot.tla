-------------------------------- MODULE Depot --------------------------------
(***************************************************************************)
(* What /persist promises, with no disk in sight.  The files live in       *)
(* memory; a synchronisation copies them; and a power cut brings back ONE  *)
(* of the images in restaurables: the last one acknowledged, or one that   *)
(* a synchronisation was trying to commit since.  Never a mixture, never   *)
(* nothing.  (src/fs/persistance.rs:59, "Une coupure laisse donc TOUJOURS  *)
(* soit l'ancien etat, soit le nouveau".)                                  *)
(***************************************************************************)
CONSTANTS Images,       \* what /persist may hold
          Rien          \* no image: the machine is off, no copy is being written

VARIABLES memoire,      \* the files in memory, Rien while the machine is off
          copie,        \* the image being committed, or Rien
          restaurables  \* what a mount may bring back after a power cut now

dvars == <<memoire, copie, restaurables>>

DInit == memoire = Rien /\ copie = Rien /\ \E im \in Images : restaurables = {im}

DModifie ==
    /\ memoire # Rien /\ memoire' \in Images
    /\ UNCHANGED <<copie, restaurables>>

DCopie ==
    /\ memoire # Rien /\ copie = Rien
    /\ copie' = memoire /\ UNCHANGED <<memoire, restaurables>>

(* from here on the new image may survive, and the old one may too *)
DTente ==
    /\ copie # Rien /\ restaurables' = restaurables \cup {copie}
    /\ UNCHANGED <<memoire, copie>>

(* fsync returns: the image it copied is the only one that can come back *)
DAcquitte ==
    /\ copie # Rien /\ restaurables' = {copie}
    /\ copie' = Rien /\ UNCHANGED memoire

(* fsync fails: what it attempted may come back or not *)
DEchoue ==
    /\ copie # Rien /\ copie' = Rien /\ UNCHANGED memoire
    /\ restaurables' \in {restaurables, restaurables \cup {copie}}

DCoupure ==
    /\ memoire # Rien /\ memoire' = Rien /\ copie' = Rien
    /\ \E im \in restaurables : restaurables' = {im}

DMonte ==
    /\ memoire = Rien /\ memoire' \in restaurables
    /\ UNCHANGED <<copie, restaurables>>

DNext == DModifie \/ DCopie \/ DTente \/ DAcquitte \/ DEchoue \/ DCoupure \/ DMonte

DSpec == DInit /\ [][DNext]_dvars

=============================================================================
