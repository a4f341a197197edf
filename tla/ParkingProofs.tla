---------------------------- MODULE ParkingProofs ----------------------------
(***************************************************************************)
(* What holds of Parking for every number of tasks, wait queues, wakers    *)
(* and calls: a dead task stays dead, a runnable one is never forgotten,   *)
(* a parked one keeps a source of wake-up, and neither a wake-up nor a     *)
(* condemnation is lost.                                                   *)
(***************************************************************************)
EXTENDS Parking, TLAPS

(* The caller of a queue holds a ticket, finds its condition true, and     *)
(* does not wait (wait_while, the re-read of a lock).                      *)
Renonce(t) == A(t, "ticket") /\ Revient(t) /\ UNCHANGED <<partage, file, temoins>>

(* Every step some client of the wait queue may take, without the bounds   *)
(* that Next adds for TLC: it covers Next, and SleepMutex's MNext.         *)
PasDe(t) ==
    \/ Renonce(t)
    \/ \E q \in Files, bornee \in BOOLEAN, int \in BOOLEAN : Ticket(t, q, bornee, int)
    \/ \E int \in BOOLEAN : Sommeille(t, int)
    \/ Avance(t) \/ Meurt(t) \/ Cede(t) \/ Preempte(t) \/ Passe(t) \/ Elit(t)
    \/ TempsPasse(t) \/ Condamne(t)

PasDuReveilleur(r) ==
    \/ \E q \in Files, tous \in BOOLEAN : Signale(r, q, tous)
    \/ \E t \in Taches : ReveilSignal(r, t) \/ LitEcheance(r, t)
    \/ ReveilAvance(r)

Pas ==
    /\ attentes' \in [Taches -> Nat]
    /\ \/ \E t \in Taches : PasDe(t)
       \/ \E r \in Reveilleurs : PasDuReveilleur(r)
       \/ TueurAvance
       \/ UNCHANGED vars

-----------------------------------------------------------------------------
(* The inductive invariant *)

(* the steps of a wait between Bloque and the end of the wait, and those   *)
(* in which the key is set                                                 *)
Gare == {"relit_condamnee", "relit", "dort", "annule"}
Region == Gare \cup {"efface"}

(* a task is Bloque only inside its wait, and what the wakers and the      *)
(* killer read of it is what the wait asked for                            *)
AttenteBonne(t) ==
    /\ etat[t] = "Bloque" => pc[t] \in Gare \cup {"meurt"}
    /\ pc[t] \in {"ticket", "inscrit", "relit"} => SurFile(t)
    /\ pc[t] \in Region \cup {"endort"} => SurFile(t) \/ voulue[t].bornee
    /\ pc[t] \in Gare => /\ voulue[t].bornee => echeance[t] # "aucune"
                         /\ interruptible[t] = voulue[t].interruptible
    /\ IF pc[t] \in Region THEN cle[t] = voulue[t].file ELSE cle[t] = Nulle
    /\ pc[t] \in Region \cup {"endort"} /\ SurFile(t) => t \in inscrits[voulue[t].file]
    /\ pc[t] \notin {"libre", "mort"} /\ SurFile(t) => ticket[t] <= generation[voulue[t].file]

(* only a condemned user task dies, and a user task leaves its core in     *)
(* user space, asleep or dead                                              *)
CoeurBon(t) ==
    /\ condamnee[t] => t \in Condamnables
    /\ pc[t] = "meurt" => condamnee[t]
    /\ t \notin FilsNoyau /\ pc[t] \notin {"libre", "dort", "mort"} => coeur[t] = "dedans"

TachesBonnes == \A t \in Taches : AttenteBonne(t) /\ CoeurBon(t)

(* a user task at the end of its wait never slept through a wake_all *)
Attardee(t) ==
    /\ t \notin FilsNoyau /\ pc[t] = "dort" /\ etat[t] = "Bloque" /\ SurFile(t)
    /\ ticket[t] < dernierTous[voulue[t].file]

Rattrapee(t) ==
    Attardee(t) => \E r \in Reveilleurs : rv[r].tous /\ Atteindra(r, voulue[t].file, t)

(* the last wake_all is a wake, and a scan starts at the first task *)
Anterieur ==
    /\ \A q \in Files : dernierTous[q] <= generation[q]
    /\ \A r \in Reveilleurs : rv[r].pc = "compte" => rv[r].i = 1

TousInv == Anterieur /\ \A t \in Taches : Rattrapee(t)

(* the killer has still to deal with t *)
Poursuivie(t) ==
    tueur.cible = t /\ tueur.pc \in {"lit_coeur", "lit_etat", "lit_attente", "tue", "reveille"}

(* past the second look at the condemnation, t counts on the killer *)
Survie(t) ==
    condamnee[t] /\ etat[t] = "Bloque" /\ pc[t] \in {"relit", "dort"} /\ voulue[t].interruptible
        => Poursuivie(t)

TueurInv == \A t \in Taches : Survie(t)

IInv == TypeOK /\ TachesBonnes /\ PasOrpheline /\ TousInv /\ TueurInv

(* a scan of q that will reach t, and whose next target, when it has read  *)
(* its key, is in the wait it will end                                     *)
Sonnera(r, q, t) ==
    /\ rv[r].file = q
    /\ \/ rv[r].pc = "compte"
       \/ rv[r].pc = "balaye" /\ rv[r].i <= t
       \/ rv[r].pc = "cas" /\ rv[r].i <= t /\ pc[rv[r].i] \in Region /\ voulue[rv[r].i].file = q
       \/ rv[r].pc = "publie" /\ rv[r].tous /\ rv[r].i < t

(* u waits on q and is awake: it will leave the queue *)
Quitte(u, q) == pc[u] \in Region /\ voulue[u].file = q /\ etat[u] # "Bloque"

(* u sleeps on q since before the last wake on q *)
Delaissee(u, q) ==
    u \notin FilsNoyau /\ pc[u] = "dort" /\ etat[u] = "Bloque" /\ voulue[u].file = q /\ ticket[u] < generation[q]

Relayee(u, q) ==
    Delaissee(u, q) => \/ sortie[q]
                       \/ \E r \in Reveilleurs : Sonnera(r, q, u)
                       \/ \E v \in Taches : Quitte(v, q)

UnInv == \A q \in Files, u \in Taches : Relayee(u, q)

-----------------------------------------------------------------------------
(* Types *)

EtatsReveilleur == [pc : {"repos", "compte", "balaye", "cas", "publie"},
                    file : Cles, tous : BOOLEAN, i : Taches]
EtatsTueur == [pc : {"repos", "lit_coeur", "lit_etat", "lit_attente", "tue", "reveille", "publie"},
               cible : Taches, surCoeur : BOOLEAN]

(* the moves of a waker keep its type *)
LEMMA MouvementsType ==
    ASSUME TypeOK, NEW r \in Reveilleurs
    PROVE  /\ rv[r].file \in Cles /\ rv[r].tous \in BOOLEAN /\ rv[r].i \in Taches
           /\ Suivant(r) => rv' \in [Reveilleurs -> EtatsReveilleur]
           /\ rv' = [rv EXCEPT ![r] = Repos] => rv' \in [Reveilleurs -> EtatsReveilleur]
           /\ \A p \in {"balaye", "cas", "publie"} :
                  VaA(r, p) => rv' \in [Reveilleurs -> EtatsReveilleur]
<1>1. rv \in [Reveilleurs -> EtatsReveilleur]
  BY DEF TypeOK, EtatsReveilleur
<1>2. rv[r].file \in Cles /\ rv[r].tous \in BOOLEAN /\ rv[r].i \in Taches
  BY <1>1 DEF EtatsReveilleur
<1>3. Repos \in EtatsReveilleur
  BY ParkingAssumption DEF Repos, EtatsReveilleur, Cles, Taches
<1>4. rv[r].i < N => rv[r].i + 1 \in Taches
  BY <1>2, ParkingAssumption DEF Taches
<1>5. Suivant(r) => rv' \in [Reveilleurs -> EtatsReveilleur]
  BY <1>1, <1>2, <1>3, <1>4 DEF Suivant, Rv, EtatsReveilleur
<1>6. ASSUME NEW p \in {"balaye", "cas", "publie"}, VaA(r, p)
      PROVE  rv' \in [Reveilleurs -> EtatsReveilleur]
  BY <1>1, <1>2, <1>6 DEF VaA, Rv, EtatsReveilleur
<1> QED BY <1>1, <1>2, <1>3, <1>5, <1>6

(* a waker that has chosen a task keeps its type *)
LEMMA VersTache ==
    ASSUME TypeOK, NEW r \in Reveilleurs, NEW t \in Taches, NEW p \in {"cas", "publie"},
           Rv(r, p, Nulle, FALSE, t)
    PROVE  rv' \in [Reveilleurs -> EtatsReveilleur]
<1>1. [pc |-> p, file |-> Nulle, tous |-> FALSE, i |-> t] \in EtatsReveilleur
  BY DEF EtatsReveilleur, Cles
<1> QED BY <1>1 DEF TypeOK, Rv, EtatsReveilleur

(* the moves of the killer keep its type *)
LEMMA TueurType ==
    ASSUME TypeOK
    PROVE  /\ tueur.cible \in Taches /\ tueur.surCoeur \in BOOLEAN
           /\ TueurRepos \in EtatsTueur
           /\ \A p \in {"lit_coeur", "lit_etat", "lit_attente", "tue", "reveille", "publie"},
                 t \in Taches, sc \in BOOLEAN : Tueur(p, t, sc) => tueur' \in EtatsTueur
BY ParkingAssumption, SMTT(30) DEF TypeOK, TueurRepos, EtatsTueur, Tueur, Taches

(* what a wait asks for, and what is left of it, is a wait *)
LEMMA AttenteType ==
    /\ SansAttente \in Attente
    /\ \A q \in Cles, b \in BOOLEAN, int \in BOOLEAN :
          [file |-> q, bornee |-> b, interruptible |-> int] \in Attente
BY DEF SansAttente, Attente, Cles

(* every step keeps the types *)
LEMMA TypePas ==
    ASSUME TypeOK, Pas
    PROVE  TypeOK'
<1> USE DEF TypeOK, partage, tache, file, temoins
<1>0. attentes' \in [Taches -> Nat]
  BY DEF Pas
<1>1. ASSUME NEW t \in Taches, Renonce(t) PROVE TypeOK'
  BY <1>1, AttenteType DEF Renonce, A, Revient, Vers, Etapes
<1>2. ASSUME NEW t \in Taches, NEW q \in Files, NEW b \in BOOLEAN, NEW int \in BOOLEAN, Ticket(t, q, b, int) PROVE TypeOK'
  BY <1>2, <1>0, AttenteType DEF Ticket, A, Vers, Cles, Etapes
<1>3. ASSUME NEW t \in Taches, NEW int \in BOOLEAN, Sommeille(t, int) PROVE TypeOK'
  BY <1>3, <1>0, AttenteType DEF Sommeille, A, Vers, Cles, Etapes
<1>4. ASSUME NEW t \in Taches, Attend(t) PROVE TypeOK'
  <2>1. CASE Revient(t)
    BY <1>4, <2>1, AttenteType DEF Attend, A, Vers, Revient, Etapes
  <2>2. CASE Vers(t, "inscrit") /\ Sauf
    BY <1>4, <2>2 DEF Attend, A, Vers, Sauf, Etapes
  <2> QED BY <1>4, <2>1, <2>2 DEF Attend
<1>5. ASSUME NEW t \in Taches, Inscrit(t) PROVE TypeOK'
  BY <1>5 DEF Inscrit, A, Vers, Sauf, Etapes
<1>6. ASSUME NEW t \in Taches, Endort(t) PROVE TypeOK'
  <2>1. voulue[t] \in Attente
    OBVIOUS
  <2>2. /\ voulue[t].file \in Cles /\ voulue[t].interruptible \in BOOLEAN
        /\ (IF voulue[t].bornee THEN "future" ELSE "aucune") \in {"aucune", "future", "passee"}
    BY <2>1 DEF Attente
  <2>3. /\ cle' \in [Taches -> Cles]
        /\ echeance' \in [Taches -> {"aucune", "future", "passee"}]
        /\ interruptible' \in [Taches -> BOOLEAN]
        /\ etat' \in [Taches -> {"Pret", "Bloque", "Zombie"}]
        /\ pc' \in [Taches -> Etapes]
    <3>1. CASE etat[t] = "Pret"
      <4>1. /\ etat' = [etat EXCEPT ![t] = "Bloque"] /\ pc' = [pc EXCEPT ![t] = "relit_condamnee"]
            /\ interruptible' = [interruptible EXCEPT ![t] = voulue[t].interruptible]
        BY <1>6, <3>1 DEF Endort, Vers, Endormie
      <4> QED BY <1>6, <2>2, <4>1 DEF Endort, Etapes
    <3>2. CASE etat[t] # "Pret"
      BY <1>6, <2>2, <3>2 DEF Endort, Vers, Etapes
    <3> QED BY <3>1, <3>2
  <2> QED BY <1>6, <2>3 DEF Endort, Sauf
<1>7. ASSUME NEW t \in Taches, RelitCondamnee(t) PROVE TypeOK'
  <2>1. pc' \in [Taches -> Etapes]
    BY <1>7 DEF RelitCondamnee, Vers, Etapes
  <2>2. cle' \in [Taches -> Cles] /\ inscrits' \in [Files -> SUBSET Taches]
    BY <1>7 DEF RelitCondamnee, Desinscrit, Cles
  <2>3. echeance' \in [Taches -> {"aucune", "future", "passee"}]
    BY <1>7 DEF RelitCondamnee
  <2> QED BY <1>7, <2>1, <2>2, <2>3 DEF RelitCondamnee, Sauf
<1>8. ASSUME NEW t \in Taches, Relit(t) PROVE TypeOK'
  BY <1>8 DEF Relit, A, Vers, Sauf, Etapes
<1>9. ASSUME NEW t \in Taches, Annule(t) PROVE TypeOK'
  BY <1>9 DEF Annule, A, Vers, Sauf, Reveillee, Etapes
<1>10. ASSUME NEW t \in Taches, FinAttente(t) PROVE TypeOK'
  BY <1>10 DEF FinAttente, A, Vers, Sauf, Etapes
<1>11. ASSUME NEW t \in Taches, Efface(t) PROVE TypeOK'
  BY <1>11, AttenteType DEF Efface, A, Vers, Desinscrit, Revient, Cles, Etapes
<1>12. ASSUME NEW t \in Taches, Meurt(t) PROVE TypeOK'
  BY <1>12 DEF Meurt, A, Vers, Sauf, Morte, Etapes
<1>13. ASSUME NEW t \in Taches, Cede(t) PROVE TypeOK'
  BY <1>13 DEF Cede
<1>14. ASSUME NEW t \in Taches, Preempte(t) PROVE TypeOK'
  BY <1>14 DEF Preempte
<1>15. ASSUME NEW t \in Taches, LibereCoeur(t) PROVE TypeOK'
  BY <1>15 DEF LibereCoeur
<1>16. ASSUME NEW t \in Taches, Repasse(t) PROVE TypeOK'
  BY <1>16 DEF Repasse, Publie, SurCoeur
<1>17. ASSUME NEW t \in Taches, Elit(t) PROVE TypeOK'
  BY <1>17 DEF Elit
<1>18. ASSUME NEW t \in Taches, TempsPasse(t) PROVE TypeOK'
  BY <1>18 DEF TempsPasse
<1>19. ASSUME NEW t \in Taches, Condamne(t) PROVE TypeOK'
  <2>1. tueur' \in EtatsTueur
    BY <1>19, TueurType DEF Condamne
  <2> QED BY <1>19, <2>1 DEF Condamne, EtatsTueur
<1>20. ASSUME NEW r \in Reveilleurs, NEW q \in Files, NEW tous \in BOOLEAN, Signale(r, q, tous) PROVE TypeOK'
  <2>1. rv' \in [Reveilleurs -> EtatsReveilleur]
    <3>1. [pc |-> "compte", file |-> q, tous |-> tous, i |-> 1] \in EtatsReveilleur
      BY ParkingAssumption DEF EtatsReveilleur, Cles, Taches
    <3>2. rv \in [Reveilleurs -> EtatsReveilleur]
      BY DEF EtatsReveilleur
    <3> QED BY <1>20, <3>1, <3>2 DEF Signale, Rv
  <2>2. generation' \in [Files -> Nat] /\ dernierTous' \in [Files -> Nat] /\ sortie' \in [Files -> BOOLEAN]
    BY <1>20 DEF Signale
  <2> QED BY <1>20, <2>1, <2>2 DEF Signale, EtatsReveilleur
<1>21. ASSUME NEW r \in Reveilleurs, NEW t \in Taches, ReveilSignal(r, t) PROVE TypeOK'
  <2>1. rv' \in [Reveilleurs -> EtatsReveilleur]
    BY <1>21, VersTache DEF ReveilSignal
  <2> QED BY <1>21, <2>1 DEF ReveilSignal, Reveillee, EtatsReveilleur
<1>22. ASSUME NEW r \in Reveilleurs, NEW t \in Taches, LitEcheance(r, t) PROVE TypeOK'
  <2>1. rv' \in [Reveilleurs -> EtatsReveilleur]
    BY <1>22, VersTache DEF LitEcheance
  <2> QED BY <1>22, <2>1 DEF LitEcheance, EtatsReveilleur
<1>23. ASSUME NEW r \in Reveilleurs, LitDormeurs(r) PROVE TypeOK'
  <2>1. rv' \in [Reveilleurs -> EtatsReveilleur]
    BY <1>23, MouvementsType DEF LitDormeurs
  <2> QED BY <1>23, <2>1 DEF LitDormeurs, EtatsReveilleur
<1>24. ASSUME NEW r \in Reveilleurs, LitCle(r) PROVE TypeOK'
  <2>1. rv' \in [Reveilleurs -> EtatsReveilleur]
    BY <1>24, MouvementsType DEF LitCle
  <2> QED BY <1>24, <2>1 DEF LitCle, EtatsReveilleur
<1>25. ASSUME NEW r \in Reveilleurs, Reveille(r) PROVE TypeOK'
  <2>1. rv' \in [Reveilleurs -> EtatsReveilleur]
    BY <1>25, MouvementsType DEF Reveille
  <2>2. etat' \in [Taches -> {"Pret", "Bloque", "Zombie"}]
    BY <1>25 DEF Reveille, Reveillee
  <2> QED BY <1>25, <2>1, <2>2 DEF Reveille, EtatsReveilleur
<1>26. ASSUME NEW r \in Reveilleurs, RvPublie(r) PROVE TypeOK'
  <2>1. rv' \in [Reveilleurs -> EtatsReveilleur]
    BY <1>26, MouvementsType DEF RvPublie
  <2>2. enFile' \in [Taches -> BOOLEAN]
    BY <1>26 DEF RvPublie, Publie
  <2> QED BY <1>26, <2>1, <2>2 DEF RvPublie, EtatsReveilleur
<1>27. CASE TueurLitCoeur
  <2>1. tueur' \in EtatsTueur
    BY <1>27, TueurType DEF TueurLitCoeur, SurCoeur
  <2> QED BY <1>27, <2>1 DEF TueurLitCoeur, EtatsTueur
<1>28. CASE TueurLitEtat
  <2>1. tueur' \in EtatsTueur
    BY <1>28, TueurType DEF TueurLitEtat
  <2> QED BY <1>28, <2>1 DEF TueurLitEtat, EtatsTueur
<1>29. CASE TueurLitAttente
  <2>1. tueur' \in EtatsTueur
    BY <1>29, TueurType DEF TueurLitAttente
  <2> QED BY <1>29, <2>1 DEF TueurLitAttente, EtatsTueur
<1>30. CASE TueurTue
  <2>1. tueur' \in EtatsTueur
    BY <1>30, TueurType DEF TueurTue
  <2>2. etat' \in [Taches -> {"Pret", "Bloque", "Zombie"}]
    <3>1. etat' = etat \/ etat' = [etat EXCEPT ![tueur.cible] = "Zombie"]
      BY <1>30 DEF TueurTue, Morte
    <3> QED BY <3>1
  <2> QED BY <1>30, <2>1, <2>2 DEF TueurTue, EtatsTueur
<1>31. CASE TueurReveille
  <2>1. tueur' \in EtatsTueur
    BY <1>31, TueurType DEF TueurReveille
  <2>2. etat' \in [Taches -> {"Pret", "Bloque", "Zombie"}]
    <3>1. etat' = etat \/ etat' = [etat EXCEPT ![tueur.cible] = "Pret"]
      BY <1>31 DEF TueurReveille, Reveillee
    <3> QED BY <3>1
  <2> QED BY <1>31, <2>1, <2>2 DEF TueurReveille, EtatsTueur
<1>32. CASE TueurPublie
  <2>1. tueur' \in EtatsTueur
    BY <1>32, TueurType DEF TueurPublie
  <2>2. enFile' \in [Taches -> BOOLEAN]
    BY <1>32 DEF TueurPublie, Publie
  <2> QED BY <1>32, <2>1, <2>2 DEF TueurPublie, EtatsTueur
<1>33. CASE UNCHANGED vars
  BY <1>33 DEF vars
<1>a. ASSUME NEW t \in Taches, PasDe(t) PROVE TypeOK'
  <2> HIDE DEF TypeOK
  <2> QED
    BY <1>a, <1>1, <1>2, <1>3, <1>4, <1>5, <1>6, <1>7, <1>8, <1>9, <1>10, <1>11,
       <1>12, <1>13, <1>14, <1>15, <1>16, <1>17, <1>18, <1>19
    DEF PasDe, Avance, Passe
<1>b. ASSUME NEW r \in Reveilleurs, PasDuReveilleur(r) PROVE TypeOK'
  <2> HIDE DEF TypeOK
  <2> QED
    BY <1>b, <1>20, <1>21, <1>22, <1>23, <1>24, <1>25, <1>26 DEF PasDuReveilleur, ReveilAvance
<1>c. CASE TueurAvance
  BY <1>c, <1>27, <1>28, <1>29, <1>30, <1>31, <1>32 DEF TueurAvance
<1> HIDE DEF TypeOK
<1> QED BY <1>a, <1>b, <1>c, <1>33 DEF Pas

-----------------------------------------------------------------------------
(* Fields of a task against its place in a wait *)

(* every step keeps what the fields of a waiting task say *)
LEMMA AttentePas ==
    ASSUME TypeOK, TachesBonnes, Pas, NEW u \in Taches
    PROVE  AttenteBonne(u)'
<1>u. AttenteBonne(u) /\ CoeurBon(u)
  BY DEF TachesBonnes
<1> USE ParkingAssumption, <1>u DEF TypeOK, AttenteBonne, CoeurBon, SurFile, Gare, Region, Attente, Cles, SansAttente, partage, tache, file, temoins
<1>1. ASSUME NEW t \in Taches, Renonce(t) PROVE AttenteBonne(u)'
  BY <1>1 DEF Renonce, A, Revient, Vers
<1>2. ASSUME NEW t \in Taches, NEW q \in Files, NEW b \in BOOLEAN, NEW int \in BOOLEAN, Ticket(t, q, b, int) PROVE AttenteBonne(u)'
  BY <1>2 DEF Ticket, A, Vers
<1>3. ASSUME NEW t \in Taches, NEW int \in BOOLEAN, Sommeille(t, int) PROVE AttenteBonne(u)'
  BY <1>3 DEF Sommeille, A, Vers
<1>4. ASSUME NEW t \in Taches, Attend(t) PROVE AttenteBonne(u)'
  <2>1. CASE Revient(t)
    BY <1>4, <2>1 DEF Attend, A, Vers, Revient
  <2>2. CASE Vers(t, "inscrit") /\ Sauf
    BY <1>4, <2>2 DEF Attend, A, Vers, Sauf
  <2> QED BY <1>4, <2>1, <2>2 DEF Attend
<1>5. ASSUME NEW t \in Taches, Inscrit(t) PROVE AttenteBonne(u)'
  BY <1>5 DEF Inscrit, A, Vers, Sauf
<1>6. ASSUME NEW t \in Taches, Endort(t) PROVE AttenteBonne(u)'
  BY <1>6 DEF Endort, A, Vers, Sauf, Endormie
<1>7. ASSUME NEW t \in Taches, RelitCondamnee(t) PROVE AttenteBonne(u)'
  <2>1. CASE condamnee[t] /\ voulue[t].interruptible
    <3>1. /\ pc[t] = "relit_condamnee" /\ pc' = [pc EXCEPT ![t] = "meurt"]
          /\ cle' = [cle EXCEPT ![t] = Nulle]
          /\ \A q \in Files : inscrits'[q] = IF q = voulue[t].file THEN inscrits[q] \ {t} ELSE inscrits[q]
          /\ u # t => echeance'[u] = echeance[u]
          /\ UNCHANGED <<etat, interruptible, voulue, ticket, generation>>
      BY <1>7, <2>1 DEF RelitCondamnee, A, Vers, Sauf, Desinscrit
    <3>2. CASE u = t
      BY <3>1, <3>2
    <3>3. CASE u # t
      <4>1. \A q \in Files : u \in inscrits[q] => u \in inscrits'[q]
        BY <3>1, <3>3, ZenonT(30)
      <4>2. SurFile(u) => voulue[u].file \in Files
        OBVIOUS
      <4>3. cle'[u] = cle[u] /\ pc'[u] = pc[u]
        BY <3>1, <3>3
      <4> QED BY <3>1, <3>3, <4>1, <4>2, <4>3
    <3> QED BY <3>2, <3>3
  <2>2. CASE ~(condamnee[t] /\ voulue[t].interruptible)
    BY <1>7, <2>2 DEF RelitCondamnee, A, Vers, Sauf
  <2> QED BY <2>1, <2>2
<1>8. ASSUME NEW t \in Taches, Relit(t) PROVE AttenteBonne(u)'
  BY <1>8 DEF Relit, A, Vers, Sauf
<1>9. ASSUME NEW t \in Taches, Annule(t) PROVE AttenteBonne(u)'
  BY <1>9 DEF Annule, A, Vers, Sauf, Reveillee
<1>10. ASSUME NEW t \in Taches, FinAttente(t) PROVE AttenteBonne(u)'
  BY <1>10 DEF FinAttente, A, Vers, Sauf
<1>11. ASSUME NEW t \in Taches, Efface(t) PROVE AttenteBonne(u)'
  BY <1>11 DEF Efface, A, Vers, Desinscrit, Revient
<1>12. ASSUME NEW t \in Taches, Meurt(t) PROVE AttenteBonne(u)'
  <2>1. pc[t] \in {"meurt", "libre"} /\ etat' = [etat EXCEPT ![t] = "Zombie"] /\ pc' = [pc EXCEPT ![t] = "mort"]
    BY <1>12 DEF Meurt, A, Vers, Morte
  <2>2. UNCHANGED <<cle, echeance, interruptible, voulue, ticket, generation, inscrits>>
    BY <1>12 DEF Meurt, Sauf
  <2>3. CASE u = t
    BY <2>1, <2>2, <2>3
  <2>4. CASE u # t
    BY <2>1, <2>2, <2>4
  <2> QED BY <2>3, <2>4
<1>13. ASSUME NEW t \in Taches, Cede(t) PROVE AttenteBonne(u)'
  BY <1>13 DEF Cede
<1>14. ASSUME NEW t \in Taches, Preempte(t) PROVE AttenteBonne(u)'
  BY <1>14 DEF Preempte
<1>15. ASSUME NEW t \in Taches, LibereCoeur(t) PROVE AttenteBonne(u)'
  BY <1>15 DEF LibereCoeur
<1>16. ASSUME NEW t \in Taches, Repasse(t) PROVE AttenteBonne(u)'
  BY <1>16 DEF Repasse, Publie, SurCoeur
<1>17. ASSUME NEW t \in Taches, Elit(t) PROVE AttenteBonne(u)'
  BY <1>17 DEF Elit
<1>18. ASSUME NEW t \in Taches, TempsPasse(t) PROVE AttenteBonne(u)'
  BY <1>18 DEF TempsPasse
<1>19. ASSUME NEW t \in Taches, Condamne(t) PROVE AttenteBonne(u)'
  BY <1>19 DEF Condamne, Tueur
<1>20. ASSUME NEW r \in Reveilleurs, NEW q \in Files, NEW tous \in BOOLEAN, Signale(r, q, tous) PROVE AttenteBonne(u)'
  BY <1>20 DEF Signale, Rv
<1>21. ASSUME NEW r \in Reveilleurs, NEW t \in Taches, ReveilSignal(r, t) PROVE AttenteBonne(u)'
  BY <1>21 DEF ReveilSignal, Reveillee, Rv
<1>22. ASSUME NEW r \in Reveilleurs, NEW t \in Taches, LitEcheance(r, t) PROVE AttenteBonne(u)'
  BY <1>22 DEF LitEcheance, Rv
<1>23. ASSUME NEW r \in Reveilleurs, LitDormeurs(r) PROVE AttenteBonne(u)'
  BY <1>23 DEF LitDormeurs, VaA, Rv
<1>24. ASSUME NEW r \in Reveilleurs, LitCle(r) PROVE AttenteBonne(u)'
  BY <1>24 DEF LitCle, VaA, Suivant, Rv
<1>25. ASSUME NEW r \in Reveilleurs, Reveille(r) PROVE AttenteBonne(u)'
  BY <1>25 DEF Reveille, Reveillee, VaA, Suivant, Rv
<1>26. ASSUME NEW r \in Reveilleurs, RvPublie(r) PROVE AttenteBonne(u)'
  BY <1>26 DEF RvPublie, Publie, Suivant, Rv, SurCoeur
<1>27. CASE TueurLitCoeur
  BY <1>27 DEF TueurLitCoeur, Tueur, SurCoeur
<1>28. CASE TueurLitEtat
  BY <1>28 DEF TueurLitEtat, Tueur
<1>29. CASE TueurLitAttente
  BY <1>29 DEF TueurLitAttente, Tueur
<1>30. CASE TueurTue
  BY <1>30 DEF TueurTue, Tueur, Morte
<1>31. CASE TueurReveille
  BY <1>31 DEF TueurReveille, Tueur, Reveillee
<1>32. CASE TueurPublie
  BY <1>32 DEF TueurPublie, Publie, SurCoeur
<1>33. CASE UNCHANGED vars
  BY <1>33 DEF vars
<1>a. ASSUME NEW t \in Taches, PasDe(t) PROVE AttenteBonne(u)'
  <2> HIDE DEF AttenteBonne
  <2> QED
    BY <1>a, <1>1, <1>2, <1>3, <1>4, <1>5, <1>6, <1>7, <1>8, <1>9, <1>10, <1>11,
       <1>12, <1>13, <1>14, <1>15, <1>16, <1>17, <1>18, <1>19
    DEF PasDe, Avance, Passe
<1>b. ASSUME NEW r \in Reveilleurs, PasDuReveilleur(r) PROVE AttenteBonne(u)'
  <2> HIDE DEF AttenteBonne
  <2> QED
    BY <1>b, <1>20, <1>21, <1>22, <1>23, <1>24, <1>25, <1>26 DEF PasDuReveilleur, ReveilAvance
<1>c. CASE TueurAvance
  BY <1>c, <1>27, <1>28, <1>29, <1>30, <1>31, <1>32 DEF TueurAvance
<1> HIDE DEF AttenteBonne
<1> QED BY <1>a, <1>b, <1>c, <1>33 DEF Pas

(* every step keeps a user task on its core inside a wait *)
LEMMA CoeurPas ==
    ASSUME TypeOK, TachesBonnes, Pas, NEW u \in Taches
    PROVE  CoeurBon(u)'
<1>u. AttenteBonne(u) /\ CoeurBon(u)
  BY DEF TachesBonnes
<1> USE ParkingAssumption, <1>u DEF TypeOK, CoeurBon, partage, tache, file, temoins
<1>1. ASSUME NEW t \in Taches, Renonce(t) PROVE CoeurBon(u)'
  BY <1>1 DEF Renonce, A, Revient, Vers
<1>2. ASSUME NEW t \in Taches, NEW q \in Files, NEW b \in BOOLEAN, NEW int \in BOOLEAN, Ticket(t, q, b, int) PROVE CoeurBon(u)'
  BY <1>2 DEF Ticket, A, Vers
<1>3. ASSUME NEW t \in Taches, NEW int \in BOOLEAN, Sommeille(t, int) PROVE CoeurBon(u)'
  BY <1>3 DEF Sommeille, A, Vers
<1>4. ASSUME NEW t \in Taches, Attend(t) PROVE CoeurBon(u)'
  BY <1>4 DEF Attend, A, Vers, Sauf, Revient
<1>5. ASSUME NEW t \in Taches, Inscrit(t) PROVE CoeurBon(u)'
  BY <1>5 DEF Inscrit, A, Vers, Sauf
<1>6. ASSUME NEW t \in Taches, Endort(t) PROVE CoeurBon(u)'
  BY <1>6 DEF Endort, A, Vers, Sauf, Endormie
<1>7. ASSUME NEW t \in Taches, RelitCondamnee(t) PROVE CoeurBon(u)'
  BY <1>7 DEF RelitCondamnee, A, Vers, Sauf, Desinscrit
<1>8. ASSUME NEW t \in Taches, Relit(t) PROVE CoeurBon(u)'
  BY <1>8 DEF Relit, A, Vers, Sauf
<1>9. ASSUME NEW t \in Taches, Annule(t) PROVE CoeurBon(u)'
  BY <1>9 DEF Annule, A, Vers, Sauf, Reveillee
<1>10. ASSUME NEW t \in Taches, FinAttente(t) PROVE CoeurBon(u)'
  BY <1>10 DEF FinAttente, A, Vers, Sauf
<1>11. ASSUME NEW t \in Taches, Efface(t) PROVE CoeurBon(u)'
  BY <1>11 DEF Efface, A, Vers, Desinscrit, Revient
<1>12. ASSUME NEW t \in Taches, Meurt(t) PROVE CoeurBon(u)'
  BY <1>12 DEF Meurt, A, Vers, Sauf, Morte
<1>13. ASSUME NEW t \in Taches, Cede(t) PROVE CoeurBon(u)'
  BY <1>13 DEF Cede
<1>14. ASSUME NEW t \in Taches, Preempte(t) PROVE CoeurBon(u)'
  BY <1>14 DEF Preempte
<1>15. ASSUME NEW t \in Taches, LibereCoeur(t) PROVE CoeurBon(u)'
  BY <1>15 DEF LibereCoeur
<1>16. ASSUME NEW t \in Taches, Repasse(t) PROVE CoeurBon(u)'
  BY <1>16 DEF Repasse, Publie, SurCoeur
<1>17. ASSUME NEW t \in Taches, Elit(t) PROVE CoeurBon(u)'
  BY <1>17 DEF Elit
<1>18. ASSUME NEW t \in Taches, TempsPasse(t) PROVE CoeurBon(u)'
  BY <1>18 DEF TempsPasse
<1>19. ASSUME NEW t \in Taches, Condamne(t) PROVE CoeurBon(u)'
  BY <1>19 DEF Condamne, Tueur
<1>20. ASSUME NEW r \in Reveilleurs, NEW q \in Files, NEW tous \in BOOLEAN, Signale(r, q, tous) PROVE CoeurBon(u)'
  BY <1>20 DEF Signale, Rv
<1>21. ASSUME NEW r \in Reveilleurs, NEW t \in Taches, ReveilSignal(r, t) PROVE CoeurBon(u)'
  BY <1>21 DEF ReveilSignal, Reveillee, Rv
<1>22. ASSUME NEW r \in Reveilleurs, NEW t \in Taches, LitEcheance(r, t) PROVE CoeurBon(u)'
  BY <1>22 DEF LitEcheance, Rv
<1>23. ASSUME NEW r \in Reveilleurs, LitDormeurs(r) PROVE CoeurBon(u)'
  BY <1>23 DEF LitDormeurs, VaA, Rv
<1>24. ASSUME NEW r \in Reveilleurs, LitCle(r) PROVE CoeurBon(u)'
  BY <1>24 DEF LitCle, VaA, Suivant, Rv
<1>25. ASSUME NEW r \in Reveilleurs, Reveille(r) PROVE CoeurBon(u)'
  BY <1>25 DEF Reveille, Reveillee, VaA, Suivant, Rv
<1>26. ASSUME NEW r \in Reveilleurs, RvPublie(r) PROVE CoeurBon(u)'
  BY <1>26 DEF RvPublie, Publie, Suivant, Rv, SurCoeur
<1>27. CASE TueurLitCoeur
  BY <1>27 DEF TueurLitCoeur, Tueur, SurCoeur
<1>28. CASE TueurLitEtat
  BY <1>28 DEF TueurLitEtat, Tueur
<1>29. CASE TueurLitAttente
  BY <1>29 DEF TueurLitAttente, Tueur
<1>30. CASE TueurTue
  BY <1>30 DEF TueurTue, Tueur, Morte
<1>31. CASE TueurReveille
  BY <1>31 DEF TueurReveille, Tueur, Reveillee
<1>32. CASE TueurPublie
  BY <1>32 DEF TueurPublie, Publie, SurCoeur
<1>33. CASE UNCHANGED vars
  BY <1>33 DEF vars
<1>a. ASSUME NEW t \in Taches, PasDe(t) PROVE CoeurBon(u)'
  <2> HIDE DEF CoeurBon
  <2> QED
    BY <1>a, <1>1, <1>2, <1>3, <1>4, <1>5, <1>6, <1>7, <1>8, <1>9, <1>10, <1>11,
       <1>12, <1>13, <1>14, <1>15, <1>16, <1>17, <1>18, <1>19
    DEF PasDe, Avance, Passe
<1>b. ASSUME NEW r \in Reveilleurs, PasDuReveilleur(r) PROVE CoeurBon(u)'
  <2> HIDE DEF CoeurBon
  <2> QED
    BY <1>b, <1>20, <1>21, <1>22, <1>23, <1>24, <1>25, <1>26 DEF PasDuReveilleur, ReveilAvance
<1>c. CASE TueurAvance
  BY <1>c, <1>27, <1>28, <1>29, <1>30, <1>31, <1>32 DEF TueurAvance
<1> HIDE DEF CoeurBon
<1> QED BY <1>a, <1>b, <1>c, <1>33 DEF Pas

-----------------------------------------------------------------------------
(* What is published, woken, killed *)

(* PasOrpheline of one task *)
Tenue(u) ==
    (etat[u] = "Pret" /\ coeur[u] = "dehors") =>
        \/ enFile[u] \/ passation[u]
        \/ \E r \in Reveilleurs : rv[r].pc = "publie" /\ rv[r].i = u
        \/ tueur.pc = "publie" /\ tueur.cible = u

(* whoever makes a task Pret, or frees its core, publishes it *)
LEMMA TenuePas ==
    ASSUME TypeOK, PasOrpheline, Pas, NEW u \in Taches
    PROVE  Tenue(u)'
<1>u. Tenue(u)
  BY DEF PasOrpheline, Tenue
<1> USE <1>u DEF TypeOK, Tenue, partage, tache, file, temoins
<1>1. ASSUME NEW t \in Taches, Renonce(t) PROVE Tenue(u)'
  BY <1>1 DEF Renonce, A, Revient, Vers
<1>2. ASSUME NEW t \in Taches, NEW q \in Files, NEW b \in BOOLEAN, NEW int \in BOOLEAN, Ticket(t, q, b, int) PROVE Tenue(u)'
  BY <1>2 DEF Ticket, A, Vers
<1>3. ASSUME NEW t \in Taches, NEW int \in BOOLEAN, Sommeille(t, int) PROVE Tenue(u)'
  BY <1>3 DEF Sommeille, A, Vers
<1>4. ASSUME NEW t \in Taches, Attend(t) PROVE Tenue(u)'
  BY <1>4 DEF Attend, A, Vers, Sauf, Revient
<1>5. ASSUME NEW t \in Taches, Inscrit(t) PROVE Tenue(u)'
  BY <1>5 DEF Inscrit, A, Vers, Sauf
<1>6. ASSUME NEW t \in Taches, Endort(t) PROVE Tenue(u)'
  BY <1>6 DEF Endort, A, Vers, Sauf, Endormie
<1>7. ASSUME NEW t \in Taches, RelitCondamnee(t) PROVE Tenue(u)'
  BY <1>7 DEF RelitCondamnee, A, Vers, Sauf, Desinscrit
<1>8. ASSUME NEW t \in Taches, Relit(t) PROVE Tenue(u)'
  BY <1>8 DEF Relit, A, Vers, Sauf
<1>9. ASSUME NEW t \in Taches, Annule(t) PROVE Tenue(u)'
  BY <1>9 DEF Annule, A, Vers, Sauf, Reveillee
<1>10. ASSUME NEW t \in Taches, FinAttente(t) PROVE Tenue(u)'
  BY <1>10 DEF FinAttente, A, Vers, Sauf
<1>11. ASSUME NEW t \in Taches, Efface(t) PROVE Tenue(u)'
  BY <1>11 DEF Efface, A, Vers, Desinscrit, Revient
<1>12. ASSUME NEW t \in Taches, Meurt(t) PROVE Tenue(u)'
  BY <1>12 DEF Meurt, A, Vers, Sauf, Morte
<1>13. ASSUME NEW t \in Taches, Cede(t) PROVE Tenue(u)'
  BY <1>13 DEF Cede
<1>14. ASSUME NEW t \in Taches, Preempte(t) PROVE Tenue(u)'
  BY <1>14 DEF Preempte
<1>15. ASSUME NEW t \in Taches, LibereCoeur(t) PROVE Tenue(u)'
  BY <1>15 DEF LibereCoeur
<1>16. ASSUME NEW t \in Taches, Repasse(t) PROVE Tenue(u)'
  BY <1>16 DEF Repasse, Publie, SurCoeur
<1>17. ASSUME NEW t \in Taches, Elit(t) PROVE Tenue(u)'
  BY <1>17 DEF Elit
<1>18. ASSUME NEW t \in Taches, TempsPasse(t) PROVE Tenue(u)'
  BY <1>18 DEF TempsPasse
<1>19. ASSUME NEW t \in Taches, Condamne(t) PROVE Tenue(u)'
  BY <1>19 DEF Condamne, Tueur
<1>20. ASSUME NEW r \in Reveilleurs, NEW q \in Files, NEW tous \in BOOLEAN, Signale(r, q, tous) PROVE Tenue(u)'
  BY <1>20 DEF Signale, Rv
<1>21. ASSUME NEW r \in Reveilleurs, NEW t \in Taches, ReveilSignal(r, t) PROVE Tenue(u)'
  BY <1>21 DEF ReveilSignal, Reveillee, Rv
<1>22. ASSUME NEW r \in Reveilleurs, NEW t \in Taches, LitEcheance(r, t) PROVE Tenue(u)'
  BY <1>22 DEF LitEcheance, Rv
<1>23. ASSUME NEW r \in Reveilleurs, LitDormeurs(r) PROVE Tenue(u)'
  BY <1>23 DEF LitDormeurs, VaA, Rv
<1>24. ASSUME NEW r \in Reveilleurs, LitCle(r) PROVE Tenue(u)'
  BY <1>24 DEF LitCle, VaA, Suivant, Rv
<1>25. ASSUME NEW r \in Reveilleurs, Reveille(r) PROVE Tenue(u)'
  <2>1. CASE etat[rv[r].i] = "Bloque"
    <3>1. /\ etat' = [etat EXCEPT ![rv[r].i] = "Pret"]
          /\ rv' = [rv EXCEPT ![r] = [pc |-> "publie", file |-> rv[r].file, tous |-> rv[r].tous, i |-> rv[r].i]]
          /\ UNCHANGED <<coeur, enFile, passation, tueur>>
      BY <1>25, <2>1 DEF Reveille, Reveillee, VaA, Rv
    <3>2. CASE u = rv[r].i
      BY <3>1, <3>2
    <3>3. CASE u # rv[r].i
      BY <1>25, <3>1, <3>3 DEF Reveille
    <3> QED BY <3>2, <3>3
  <2>2. CASE etat[rv[r].i] # "Bloque"
    BY <1>25, <2>2 DEF Reveille, Suivant, Rv, Repos
  <2> QED BY <2>1, <2>2
<1>26. ASSUME NEW r \in Reveilleurs, RvPublie(r) PROVE Tenue(u)'
  BY <1>26 DEF RvPublie, Publie, Suivant, Rv, SurCoeur
<1>27. CASE TueurLitCoeur
  BY <1>27 DEF TueurLitCoeur, Tueur, SurCoeur
<1>28. CASE TueurLitEtat
  BY <1>28 DEF TueurLitEtat, Tueur
<1>29. CASE TueurLitAttente
  BY <1>29 DEF TueurLitAttente, Tueur
<1>30. CASE TueurTue
  BY <1>30 DEF TueurTue, Tueur, Morte
<1>31. CASE TueurReveille
  BY <1>31 DEF TueurReveille, Tueur, Reveillee
<1>32. CASE TueurPublie
  BY <1>32 DEF TueurPublie, Publie, SurCoeur
<1>33. CASE UNCHANGED vars
  BY <1>33 DEF vars
<1>a. ASSUME NEW t \in Taches, PasDe(t) PROVE Tenue(u)'
  <2> HIDE DEF Tenue
  <2> QED
    BY <1>a, <1>1, <1>2, <1>3, <1>4, <1>5, <1>6, <1>7, <1>8, <1>9, <1>10, <1>11,
       <1>12, <1>13, <1>14, <1>15, <1>16, <1>17, <1>18, <1>19
    DEF PasDe, Avance, Passe
<1>b. ASSUME NEW r \in Reveilleurs, PasDuReveilleur(r) PROVE Tenue(u)'
  <2> HIDE DEF Tenue
  <2> QED
    BY <1>b, <1>20, <1>21, <1>22, <1>23, <1>24, <1>25, <1>26 DEF PasDuReveilleur, ReveilAvance
<1>c. CASE TueurAvance
  BY <1>c, <1>27, <1>28, <1>29, <1>30, <1>31, <1>32 DEF TueurAvance
<1> HIDE DEF Tenue
<1> QED BY <1>a, <1>b, <1>c, <1>33 DEF Pas

(* every step keeps a condemned sleeper before the killer *)
LEMMA TueurPas ==
    ASSUME TypeOK, TachesBonnes, TueurInv, Pas, NEW u \in Taches
    PROVE  Survie(u)'
<1>u. AttenteBonne(u) /\ CoeurBon(u)
  BY DEF TachesBonnes
<1>v. Survie(u)
  BY DEF TueurInv, Survie
<1> USE <1>u, <1>v DEF TypeOK, AttenteBonne, CoeurBon, Survie, Poursuivie, Gare, Attente, SurFile, SansAttente, partage, tache, file, temoins
<1>1. ASSUME NEW t \in Taches, Renonce(t) PROVE Survie(u)'
  BY <1>1 DEF Renonce, A, Revient, Vers
<1>2. ASSUME NEW t \in Taches, NEW q \in Files, NEW b \in BOOLEAN, NEW int \in BOOLEAN, Ticket(t, q, b, int) PROVE Survie(u)'
  BY <1>2 DEF Ticket, A, Vers
<1>3. ASSUME NEW t \in Taches, NEW int \in BOOLEAN, Sommeille(t, int) PROVE Survie(u)'
  BY <1>3 DEF Sommeille, A, Vers
<1>4. ASSUME NEW t \in Taches, Attend(t) PROVE Survie(u)'
  BY <1>4 DEF Attend, A, Vers, Sauf, Revient
<1>5. ASSUME NEW t \in Taches, Inscrit(t) PROVE Survie(u)'
  BY <1>5 DEF Inscrit, A, Vers, Sauf
<1>6. ASSUME NEW t \in Taches, Endort(t) PROVE Survie(u)'
  BY <1>6 DEF Endort, A, Vers, Sauf, Endormie
<1>7. ASSUME NEW t \in Taches, RelitCondamnee(t) PROVE Survie(u)'
  BY <1>7 DEF RelitCondamnee, A, Vers, Sauf, Desinscrit
<1>8. ASSUME NEW t \in Taches, Relit(t) PROVE Survie(u)'
  BY <1>8 DEF Relit, A, Vers, Sauf
<1>9. ASSUME NEW t \in Taches, Annule(t) PROVE Survie(u)'
  BY <1>9 DEF Annule, A, Vers, Sauf, Reveillee
<1>10. ASSUME NEW t \in Taches, FinAttente(t) PROVE Survie(u)'
  BY <1>10 DEF FinAttente, A, Vers, Sauf
<1>11. ASSUME NEW t \in Taches, Efface(t) PROVE Survie(u)'
  BY <1>11 DEF Efface, A, Vers, Desinscrit, Revient
<1>12. ASSUME NEW t \in Taches, Meurt(t) PROVE Survie(u)'
  BY <1>12 DEF Meurt, A, Vers, Sauf, Morte
<1>13. ASSUME NEW t \in Taches, Cede(t) PROVE Survie(u)'
  BY <1>13 DEF Cede
<1>14. ASSUME NEW t \in Taches, Preempte(t) PROVE Survie(u)'
  BY <1>14 DEF Preempte
<1>15. ASSUME NEW t \in Taches, LibereCoeur(t) PROVE Survie(u)'
  BY <1>15 DEF LibereCoeur
<1>16. ASSUME NEW t \in Taches, Repasse(t) PROVE Survie(u)'
  BY <1>16 DEF Repasse, Publie, SurCoeur
<1>17. ASSUME NEW t \in Taches, Elit(t) PROVE Survie(u)'
  BY <1>17 DEF Elit
<1>18. ASSUME NEW t \in Taches, TempsPasse(t) PROVE Survie(u)'
  BY <1>18 DEF TempsPasse
<1>19. ASSUME NEW t \in Taches, Condamne(t) PROVE Survie(u)'
  BY <1>19 DEF Condamne, Tueur
<1>20. ASSUME NEW r \in Reveilleurs, NEW q \in Files, NEW tous \in BOOLEAN, Signale(r, q, tous) PROVE Survie(u)'
  BY <1>20 DEF Signale, Rv
<1>21. ASSUME NEW r \in Reveilleurs, NEW t \in Taches, ReveilSignal(r, t) PROVE Survie(u)'
  BY <1>21 DEF ReveilSignal, Reveillee, Rv
<1>22. ASSUME NEW r \in Reveilleurs, NEW t \in Taches, LitEcheance(r, t) PROVE Survie(u)'
  BY <1>22 DEF LitEcheance, Rv
<1>23. ASSUME NEW r \in Reveilleurs, LitDormeurs(r) PROVE Survie(u)'
  BY <1>23 DEF LitDormeurs, VaA, Rv
<1>24. ASSUME NEW r \in Reveilleurs, LitCle(r) PROVE Survie(u)'
  BY <1>24 DEF LitCle, VaA, Suivant, Rv
<1>25. ASSUME NEW r \in Reveilleurs, Reveille(r) PROVE Survie(u)'
  BY <1>25 DEF Reveille, Reveillee, VaA, Suivant, Rv
<1>26. ASSUME NEW r \in Reveilleurs, RvPublie(r) PROVE Survie(u)'
  BY <1>26 DEF RvPublie, Publie, Suivant, Rv, SurCoeur
<1>27. CASE TueurLitCoeur
  BY <1>27 DEF TueurLitCoeur, Tueur, SurCoeur
<1>28. CASE TueurLitEtat
  BY <1>28 DEF TueurLitEtat, Tueur
<1>29. CASE TueurLitAttente
  <2>1. SUFFICES ASSUME condamnee[u], etat[u] = "Bloque", pc[u] \in {"relit", "dort"}, voulue[u].interruptible
                 PROVE  Poursuivie(u)'
    BY <1>29 DEF TueurLitAttente
  <2>2. tueur.cible = u /\ interruptible[u]
    BY <1>29, <2>1 DEF TueurLitAttente
  <2> QED BY <1>29, <2>2 DEF TueurLitAttente, Tueur
<1>30. CASE TueurTue
  BY <1>30 DEF TueurTue, Tueur, Morte
<1>31. CASE TueurReveille
  BY <1>31 DEF TueurReveille, Tueur, Reveillee
<1>32. CASE TueurPublie
  BY <1>32 DEF TueurPublie, Publie, SurCoeur
<1>33. CASE UNCHANGED vars
  BY <1>33 DEF vars
<1>a. ASSUME NEW t \in Taches, PasDe(t) PROVE Survie(u)'
  <2> HIDE DEF Survie
  <2> QED
    BY <1>a, <1>1, <1>2, <1>3, <1>4, <1>5, <1>6, <1>7, <1>8, <1>9, <1>10, <1>11,
       <1>12, <1>13, <1>14, <1>15, <1>16, <1>17, <1>18, <1>19
    DEF PasDe, Avance, Passe
<1>b. ASSUME NEW r \in Reveilleurs, PasDuReveilleur(r) PROVE Survie(u)'
  <2> HIDE DEF Survie
  <2> QED
    BY <1>b, <1>20, <1>21, <1>22, <1>23, <1>24, <1>25, <1>26 DEF PasDuReveilleur, ReveilAvance
<1>c. CASE TueurAvance
  BY <1>c, <1>27, <1>28, <1>29, <1>30, <1>31, <1>32 DEF TueurAvance
<1> HIDE DEF Survie
<1> QED BY <1>a, <1>b, <1>c, <1>33 DEF Pas

(* a step of a waker moves no other waker *)
LEMMA SeulR ==
    ASSUME TypeOK, NEW r \in Reveilleurs, NEW w \in Reveilleurs, w # r, ReveilAvance(r)
    PROVE  rv'[w] = rv[w]
<1>1. rv \in [Reveilleurs -> EtatsReveilleur]
  BY DEF TypeOK, EtatsReveilleur
<1>2. CASE rv' = [rv EXCEPT ![r] = Repos]
  BY <1>1, <1>2
<1>3. CASE Suivant(r)
  BY <1>1, <1>3 DEF Suivant, Rv
<1>4. ASSUME NEW p, VaA(r, p) PROVE rv'[w] = rv[w]
  BY <1>1, <1>4 DEF VaA, Rv
<1> QED BY <1>2, <1>3, <1>4 DEF ReveilAvance, LitDormeurs, LitCle, Reveille, RvPublie

(* the next index is still before u *)
LEMMA SuivantAvance ==
    ASSUME TypeOK, NEW r \in Reveilleurs, NEW u \in Taches, NEW q \in Files,
           rv[r].file = q, rv[r].i < u, Suivant(r)
    PROVE  rv'[r] = [pc |-> "balaye", file |-> q, tous |-> rv[r].tous, i |-> rv[r].i + 1] /\ rv[r].i + 1 <= u
<1>1. rv \in [Reveilleurs -> EtatsReveilleur] /\ rv[r].i \in Taches
  BY DEF TypeOK, EtatsReveilleur
<1>2. q # Nulle /\ rv[r].i < N /\ rv[r].i + 1 <= u
  BY <1>1, ParkingAssumption DEF Taches
<1> QED BY <1>1, <1>2 DEF Suivant, Rv

(* LitDormeurs sees u, which is counted *)
LEMMA LitDormeursAvance ==
    ASSUME TypeOK, Anterieur, NEW r \in Reveilleurs, NEW u \in Taches, NEW q \in Files,
           LitDormeurs(r), rv[r].file = q, u \in inscrits[q]
    PROVE  rv'[r] = [pc |-> "balaye", file |-> q, tous |-> rv[r].tous, i |-> rv[r].i] /\ rv[r].i <= u
<1>1. rv \in [Reveilleurs -> EtatsReveilleur]
  BY DEF TypeOK, EtatsReveilleur
<1>2. VaA(r, "balaye") /\ rv[r].i = 1
  BY DEF LitDormeurs, Anterieur
<1> QED BY <1>1, <1>2 DEF VaA, Rv, Taches

(* LitCle stops at u, whose key is the queue, or comes closer to it *)
LEMMA LitCleAvance ==
    ASSUME TypeOK, NEW r \in Reveilleurs, NEW u \in Taches, NEW q \in Files,
           LitCle(r), rv[r].file = q, rv[r].i <= u, cle[u] = q
    PROVE  \/ /\ rv'[r] = [pc |-> "cas", file |-> q, tous |-> rv[r].tous, i |-> rv[r].i]
              /\ cle[rv[r].i] = q
           \/ /\ rv'[r] = [pc |-> "balaye", file |-> q, tous |-> rv[r].tous, i |-> rv[r].i + 1]
              /\ rv[r].i + 1 <= u
<1>1. rv \in [Reveilleurs -> EtatsReveilleur] /\ rv[r].i \in Taches
  BY DEF TypeOK, EtatsReveilleur
<1>2. CASE cle[rv[r].i] = q
  <2>1. VaA(r, "cas")
    BY <1>2 DEF LitCle
  <2> QED BY <1>1, <1>2, <2>1 DEF VaA, Rv
<1>3. CASE cle[rv[r].i] # q
  <2>1. rv[r].i < u
    BY <1>1, <1>3 DEF Taches
  <2>2. Suivant(r)
    BY <1>3 DEF LitCle
  <2> QED BY <2>1, <2>2, SuivantAvance
<1> QED BY <1>2, <1>3

(* Reveille wakes its target, or finds it awake and comes closer to u *)
LEMMA ReveilleAvance ==
    ASSUME TypeOK, NEW r \in Reveilleurs, NEW u \in Taches, NEW q \in Files,
           Reveille(r), rv[r].file = q, rv[r].i <= u, rv[r].i # u
    PROVE  \/ /\ rv'[r] = [pc |-> "publie", file |-> q, tous |-> rv[r].tous, i |-> rv[r].i]
              /\ etat'[rv[r].i] = "Pret" /\ rv[r].i < u
           \/ /\ rv'[r] = [pc |-> "balaye", file |-> q, tous |-> rv[r].tous, i |-> rv[r].i + 1]
              /\ rv[r].i + 1 <= u /\ etat[rv[r].i] # "Bloque" /\ UNCHANGED etat
<1>1. rv \in [Reveilleurs -> EtatsReveilleur] /\ rv[r].i \in Taches
  BY DEF TypeOK, EtatsReveilleur
<1>2. rv[r].i < u
  BY <1>1 DEF Taches
<1>3. CASE etat[rv[r].i] = "Bloque"
  <2>1. VaA(r, "publie") /\ etat' = [etat EXCEPT ![rv[r].i] = "Pret"]
    BY <1>3 DEF Reveille, Reveillee
  <2> QED BY <1>1, <1>2, <2>1 DEF VaA, Rv, TypeOK
<1>4. CASE etat[rv[r].i] # "Bloque"
  <2>1. Suivant(r) /\ UNCHANGED etat
    BY <1>4 DEF Reveille
  <2> QED BY <1>2, <1>4, <2>1, SuivantAvance
<1> QED BY <1>3, <1>4

(* a wake_all goes on after it has woken a task *)
LEMMA RvPublieAvance ==
    ASSUME TypeOK, NEW r \in Reveilleurs, NEW u \in Taches, NEW q \in Files,
           RvPublie(r), rv[r].file = q, rv[r].tous, rv[r].i < u
    PROVE  rv'[r] = [pc |-> "balaye", file |-> q, tous |-> rv[r].tous, i |-> rv[r].i + 1] /\ rv[r].i + 1 <= u
<1>1. Suivant(r)
  BY DEF RvPublie
<1> QED BY <1>1, SuivantAvance

(* every step keeps the counters of the wake-ups *)
LEMMA AnterieurPas ==
    ASSUME TypeOK, TousInv, Pas
    PROVE  Anterieur'
<1>u. Anterieur
  BY DEF TousInv
<1> USE <1>u DEF TypeOK, Anterieur, Repos, partage, tache, file, temoins
<1>1. ASSUME NEW t \in Taches, Renonce(t) PROVE Anterieur'
  BY <1>1 DEF Renonce, A, Revient, Vers
<1>2. ASSUME NEW t \in Taches, NEW q \in Files, NEW b \in BOOLEAN, NEW int \in BOOLEAN, Ticket(t, q, b, int) PROVE Anterieur'
  BY <1>2 DEF Ticket, A, Vers
<1>3. ASSUME NEW t \in Taches, NEW int \in BOOLEAN, Sommeille(t, int) PROVE Anterieur'
  BY <1>3 DEF Sommeille, A, Vers
<1>4. ASSUME NEW t \in Taches, Attend(t) PROVE Anterieur'
  BY <1>4 DEF Attend, A, Vers, Sauf, Revient
<1>5. ASSUME NEW t \in Taches, Inscrit(t) PROVE Anterieur'
  BY <1>5 DEF Inscrit, A, Vers, Sauf
<1>6. ASSUME NEW t \in Taches, Endort(t) PROVE Anterieur'
  BY <1>6 DEF Endort, A, Vers, Sauf, Endormie
<1>7. ASSUME NEW t \in Taches, RelitCondamnee(t) PROVE Anterieur'
  BY <1>7 DEF RelitCondamnee, A, Vers, Sauf, Desinscrit
<1>8. ASSUME NEW t \in Taches, Relit(t) PROVE Anterieur'
  BY <1>8 DEF Relit, A, Vers, Sauf
<1>9. ASSUME NEW t \in Taches, Annule(t) PROVE Anterieur'
  BY <1>9 DEF Annule, A, Vers, Sauf, Reveillee
<1>10. ASSUME NEW t \in Taches, FinAttente(t) PROVE Anterieur'
  BY <1>10 DEF FinAttente, A, Vers, Sauf
<1>11. ASSUME NEW t \in Taches, Efface(t) PROVE Anterieur'
  BY <1>11 DEF Efface, A, Vers, Desinscrit, Revient
<1>12. ASSUME NEW t \in Taches, Meurt(t) PROVE Anterieur'
  BY <1>12 DEF Meurt, A, Vers, Sauf, Morte
<1>13. ASSUME NEW t \in Taches, Cede(t) PROVE Anterieur'
  BY <1>13 DEF Cede
<1>14. ASSUME NEW t \in Taches, Preempte(t) PROVE Anterieur'
  BY <1>14 DEF Preempte
<1>15. ASSUME NEW t \in Taches, LibereCoeur(t) PROVE Anterieur'
  BY <1>15 DEF LibereCoeur
<1>16. ASSUME NEW t \in Taches, Repasse(t) PROVE Anterieur'
  BY <1>16 DEF Repasse, Publie, SurCoeur
<1>17. ASSUME NEW t \in Taches, Elit(t) PROVE Anterieur'
  BY <1>17 DEF Elit
<1>18. ASSUME NEW t \in Taches, TempsPasse(t) PROVE Anterieur'
  BY <1>18 DEF TempsPasse
<1>19. ASSUME NEW t \in Taches, Condamne(t) PROVE Anterieur'
  BY <1>19 DEF Condamne, Tueur
<1>20. ASSUME NEW r \in Reveilleurs, NEW q \in Files, NEW tous \in BOOLEAN, Signale(r, q, tous) PROVE Anterieur'
  BY <1>20 DEF Signale, Rv
<1>21. ASSUME NEW r \in Reveilleurs, NEW t \in Taches, ReveilSignal(r, t) PROVE Anterieur'
  BY <1>21 DEF ReveilSignal, Reveillee, Rv
<1>22. ASSUME NEW r \in Reveilleurs, NEW t \in Taches, LitEcheance(r, t) PROVE Anterieur'
  BY <1>22 DEF LitEcheance, Rv
<1>23. ASSUME NEW r \in Reveilleurs, LitDormeurs(r) PROVE Anterieur'
  BY <1>23 DEF LitDormeurs, VaA, Rv
<1>24. ASSUME NEW r \in Reveilleurs, LitCle(r) PROVE Anterieur'
  <2>1. rv'[r].pc # "compte"
    BY <1>24 DEF LitCle, VaA, Suivant, Rv
  <2> QED BY <1>24, <2>1, SeulR DEF LitCle, ReveilAvance
<1>25. ASSUME NEW r \in Reveilleurs, Reveille(r) PROVE Anterieur'
  BY <1>25, SMTT(30) DEF Reveille, Reveillee, VaA, Suivant, Rv
<1>26. ASSUME NEW r \in Reveilleurs, RvPublie(r) PROVE Anterieur'
  <2>1. rv'[r].pc # "compte"
    BY <1>26 DEF RvPublie, Suivant, Rv
  <2> QED BY <1>26, <2>1, SeulR DEF RvPublie, ReveilAvance
<1>27. CASE TueurLitCoeur
  BY <1>27 DEF TueurLitCoeur, Tueur, SurCoeur
<1>28. CASE TueurLitEtat
  BY <1>28 DEF TueurLitEtat, Tueur
<1>29. CASE TueurLitAttente
  BY <1>29 DEF TueurLitAttente, Tueur
<1>30. CASE TueurTue
  BY <1>30 DEF TueurTue, Tueur, Morte
<1>31. CASE TueurReveille
  BY <1>31 DEF TueurReveille, Tueur, Reveillee
<1>32. CASE TueurPublie
  BY <1>32 DEF TueurPublie, Publie, SurCoeur
<1>33. CASE UNCHANGED vars
  BY <1>33 DEF vars
<1>a. ASSUME NEW t \in Taches, PasDe(t) PROVE Anterieur'
  <2> HIDE DEF Anterieur
  <2> QED
    BY <1>a, <1>1, <1>2, <1>3, <1>4, <1>5, <1>6, <1>7, <1>8, <1>9, <1>10, <1>11,
       <1>12, <1>13, <1>14, <1>15, <1>16, <1>17, <1>18, <1>19
    DEF PasDe, Avance, Passe
<1>b. ASSUME NEW r \in Reveilleurs, PasDuReveilleur(r) PROVE Anterieur'
  <2> HIDE DEF Anterieur
  <2> QED
    BY <1>b, <1>20, <1>21, <1>22, <1>23, <1>24, <1>25, <1>26 DEF PasDuReveilleur, ReveilAvance
<1>c. CASE TueurAvance
  BY <1>c, <1>27, <1>28, <1>29, <1>30, <1>31, <1>32 DEF TueurAvance
<1> HIDE DEF Anterieur
<1> QED BY <1>a, <1>b, <1>c, <1>33 DEF Pas

(* every step keeps a scan of wake_all in front of those it must wake *)
LEMMA RattrapeePas ==
    ASSUME TypeOK, TachesBonnes, TousInv, Pas, NEW u \in Taches
    PROVE  Rattrapee(u)'
<1>u. AttenteBonne(u) /\ Rattrapee(u) /\ Anterieur
  BY DEF TachesBonnes, TousInv
<1> USE DEF partage, tache, file, temoins
<1>1. ASSUME NEW t \in Taches, Renonce(t) PROVE Rattrapee(u)'
  BY <1>1, <1>u, ParkingAssumption
  DEF Renonce, A, Revient, Vers, Rattrapee, Attardee, Atteindra, AttenteBonne, Anterieur, SurFile, Gare, Region, Attente, Cles, SansAttente, TypeOK
<1>2. ASSUME NEW t \in Taches, NEW q \in Files, NEW b \in BOOLEAN, NEW int \in BOOLEAN, Ticket(t, q, b, int) PROVE Rattrapee(u)'
  BY <1>2, <1>u, ParkingAssumption
  DEF Ticket, A, Vers, Rattrapee, Attardee, Atteindra, AttenteBonne, Anterieur, SurFile, Gare, Region, Attente, Cles, SansAttente, TypeOK
<1>3. ASSUME NEW t \in Taches, NEW int \in BOOLEAN, Sommeille(t, int) PROVE Rattrapee(u)'
  BY <1>3, <1>u, ParkingAssumption
  DEF Sommeille, A, Vers, Rattrapee, Attardee, Atteindra, AttenteBonne, Anterieur, SurFile, Gare, Region, Attente, Cles, SansAttente, TypeOK
<1>4. ASSUME NEW t \in Taches, Attend(t) PROVE Rattrapee(u)'
  BY <1>4, <1>u, ParkingAssumption
  DEF Attend, A, Vers, Sauf, Revient, Rattrapee, Attardee, Atteindra, AttenteBonne, Anterieur, SurFile, Gare, Region, Attente, Cles, SansAttente, TypeOK
<1>5. ASSUME NEW t \in Taches, Inscrit(t) PROVE Rattrapee(u)'
  BY <1>5, <1>u, ParkingAssumption
  DEF Inscrit, A, Vers, Sauf, Rattrapee, Attardee, Atteindra, AttenteBonne, Anterieur, SurFile, Gare, Region, Attente, Cles, SansAttente, TypeOK
<1>6. ASSUME NEW t \in Taches, Endort(t) PROVE Rattrapee(u)'
  BY <1>6, <1>u, ParkingAssumption
  DEF Endort, A, Vers, Sauf, Endormie, Rattrapee, Attardee, Atteindra, AttenteBonne, Anterieur, SurFile, Gare, Region, Attente, Cles, SansAttente, TypeOK
<1>7. ASSUME NEW t \in Taches, RelitCondamnee(t) PROVE Rattrapee(u)'
  BY <1>7, <1>u, ParkingAssumption
  DEF RelitCondamnee, A, Vers, Sauf, Desinscrit, Rattrapee, Attardee, Atteindra, AttenteBonne, Anterieur, SurFile, Gare, Region, Attente, Cles, SansAttente, TypeOK
<1>8. ASSUME NEW t \in Taches, Relit(t) PROVE Rattrapee(u)'
  BY <1>8, <1>u, ParkingAssumption
  DEF Relit, A, Vers, Sauf, Rattrapee, Attardee, Atteindra, AttenteBonne, Anterieur, SurFile, Gare, Region, Attente, Cles, SansAttente, TypeOK
<1>9. ASSUME NEW t \in Taches, Annule(t) PROVE Rattrapee(u)'
  BY <1>9, <1>u, ParkingAssumption
  DEF Annule, A, Vers, Sauf, Reveillee, Rattrapee, Attardee, Atteindra, AttenteBonne, Anterieur, SurFile, Gare, Region, Attente, Cles, SansAttente, TypeOK
<1>10. ASSUME NEW t \in Taches, FinAttente(t) PROVE Rattrapee(u)'
  BY <1>10, <1>u, ParkingAssumption
  DEF FinAttente, A, Vers, Sauf, Rattrapee, Attardee, Atteindra, AttenteBonne, Anterieur, SurFile, Gare, Region, Attente, Cles, SansAttente, TypeOK
<1>11. ASSUME NEW t \in Taches, Efface(t) PROVE Rattrapee(u)'
  BY <1>11, <1>u, ParkingAssumption
  DEF Efface, A, Vers, Desinscrit, Revient, Rattrapee, Attardee, Atteindra, AttenteBonne, Anterieur, SurFile, Gare, Region, Attente, Cles, SansAttente, TypeOK
<1>12. ASSUME NEW t \in Taches, Meurt(t) PROVE Rattrapee(u)'
  BY <1>12, <1>u, ParkingAssumption
  DEF Meurt, A, Vers, Sauf, Morte, Rattrapee, Attardee, Atteindra, AttenteBonne, Anterieur, SurFile, Gare, Region, Attente, Cles, SansAttente, TypeOK
<1>13. ASSUME NEW t \in Taches, Cede(t) PROVE Rattrapee(u)'
  BY <1>13, <1>u, ParkingAssumption
  DEF Cede, Rattrapee, Attardee, Atteindra, AttenteBonne, Anterieur, SurFile, Gare, Region, Attente, Cles, SansAttente, TypeOK
<1>14. ASSUME NEW t \in Taches, Preempte(t) PROVE Rattrapee(u)'
  BY <1>14, <1>u, ParkingAssumption
  DEF Preempte, Rattrapee, Attardee, Atteindra, AttenteBonne, Anterieur, SurFile, Gare, Region, Attente, Cles, SansAttente, TypeOK
<1>15. ASSUME NEW t \in Taches, LibereCoeur(t) PROVE Rattrapee(u)'
  BY <1>15, <1>u, ParkingAssumption
  DEF LibereCoeur, Rattrapee, Attardee, Atteindra, AttenteBonne, Anterieur, SurFile, Gare, Region, Attente, Cles, SansAttente, TypeOK
<1>16. ASSUME NEW t \in Taches, Repasse(t) PROVE Rattrapee(u)'
  BY <1>16, <1>u, ParkingAssumption
  DEF Repasse, Publie, SurCoeur, Rattrapee, Attardee, Atteindra, AttenteBonne, Anterieur, SurFile, Gare, Region, Attente, Cles, SansAttente, TypeOK
<1>17. ASSUME NEW t \in Taches, Elit(t) PROVE Rattrapee(u)'
  BY <1>17, <1>u, ParkingAssumption
  DEF Elit, Rattrapee, Attardee, Atteindra, AttenteBonne, Anterieur, SurFile, Gare, Region, Attente, Cles, SansAttente, TypeOK
<1>18. ASSUME NEW t \in Taches, TempsPasse(t) PROVE Rattrapee(u)'
  BY <1>18, <1>u, ParkingAssumption
  DEF TempsPasse, Rattrapee, Attardee, Atteindra, AttenteBonne, Anterieur, SurFile, Gare, Region, Attente, Cles, SansAttente, TypeOK
<1>19. ASSUME NEW t \in Taches, Condamne(t) PROVE Rattrapee(u)'
  BY <1>19, <1>u, ParkingAssumption
  DEF Condamne, Tueur, Rattrapee, Attardee, Atteindra, AttenteBonne, Anterieur, SurFile, Gare, Region, Attente, Cles, SansAttente, TypeOK
<1>20. ASSUME NEW r \in Reveilleurs, NEW q \in Files, NEW tous \in BOOLEAN, Signale(r, q, tous) PROVE Rattrapee(u)'
  BY <1>20, <1>u, ParkingAssumption
  DEF Signale, Rv, Rattrapee, Attardee, Atteindra, AttenteBonne, Anterieur, SurFile, Gare, Region, Attente, Cles, SansAttente, TypeOK
<1>21. ASSUME NEW r \in Reveilleurs, NEW t \in Taches, ReveilSignal(r, t) PROVE Rattrapee(u)'
  BY <1>21, <1>u, ParkingAssumption
  DEF ReveilSignal, Reveillee, Rv, Rattrapee, Attardee, Atteindra, AttenteBonne, Anterieur, SurFile, Gare, Region, Attente, Cles, SansAttente, TypeOK
<1>22. ASSUME NEW r \in Reveilleurs, NEW t \in Taches, LitEcheance(r, t) PROVE Rattrapee(u)'
  BY <1>22, <1>u, ParkingAssumption
  DEF LitEcheance, Rv, Rattrapee, Attardee, Atteindra, AttenteBonne, Anterieur, SurFile, Gare, Region, Attente, Cles, SansAttente, TypeOK
<1>23. ASSUME NEW r \in Reveilleurs, LitDormeurs(r) PROVE Rattrapee(u)'
  <2>1. SUFFICES ASSUME Attardee(u)'
                 PROVE  \E w \in Reveilleurs : (rv[w].tous /\ Atteindra(w, voulue[u].file, u))'
    BY DEF Rattrapee
  <2>2. Attardee(u) /\ UNCHANGED <<pc, cle, voulue, ticket, inscrits>> /\ voulue[u].file \in Files
    BY <1>23, <2>1 DEF LitDormeurs, Attardee, SurFile, Attente, Cles, TypeOK
  <2>3. PICK w \in Reveilleurs : rv[w].tous /\ Atteindra(w, voulue[u].file, u)
    BY <2>2, <1>u DEF Rattrapee
  <2>4. CASE w # r
    <3>1. rv'[w] = rv[w]
      BY <1>23, <2>4, SeulR DEF ReveilAvance
    <3> QED BY <2>2, <2>3, <3>1 DEF Atteindra
  <2>5. CASE w = r
    <3>1. u \in inscrits[voulue[u].file] /\ rv[r].file = voulue[u].file
      BY <1>u, <2>2, <2>3, <2>5 DEF Attardee, AttenteBonne, Region, Gare, Atteindra
    <3>2. rv'[r] = [pc |-> "balaye", file |-> voulue[u].file, tous |-> rv[r].tous, i |-> rv[r].i] /\ rv[r].i <= u
      BY <1>23, <1>u, <2>2, <3>1, LitDormeursAvance
    <3> QED BY <2>2, <2>3, <2>5, <3>2 DEF Atteindra
  <2> QED BY <2>4, <2>5
<1>24. ASSUME NEW r \in Reveilleurs, LitCle(r) PROVE Rattrapee(u)'
  <2>1. SUFFICES ASSUME Attardee(u)'
                 PROVE  \E w \in Reveilleurs : (rv[w].tous /\ Atteindra(w, voulue[u].file, u))'
    BY DEF Rattrapee
  <2>2. Attardee(u) /\ UNCHANGED <<pc, cle, voulue, ticket, inscrits>> /\ voulue[u].file \in Files
    BY <1>24, <2>1 DEF LitCle, Attardee, SurFile, Attente, Cles, TypeOK
  <2>3. PICK w \in Reveilleurs : rv[w].tous /\ Atteindra(w, voulue[u].file, u)
    BY <2>2, <1>u DEF Rattrapee
  <2>4. CASE w # r
    <3>1. rv'[w] = rv[w]
      BY <1>24, <2>4, SeulR DEF ReveilAvance
    <3> QED BY <2>2, <2>3, <3>1 DEF Atteindra
  <2>5. CASE w = r
    <3>1. cle[u] = voulue[u].file /\ rv[r].file = voulue[u].file /\ rv[r].i <= u
      BY <1>24, <1>u, <2>2, <2>3, <2>5 DEF LitCle, Attardee, AttenteBonne, Region, Gare, Atteindra
    <3>2. \/ rv'[r] = [pc |-> "cas", file |-> voulue[u].file, tous |-> rv[r].tous, i |-> rv[r].i]
          \/ rv'[r] = [pc |-> "balaye", file |-> voulue[u].file, tous |-> rv[r].tous, i |-> rv[r].i + 1] /\ rv[r].i + 1 <= u
      BY <1>24, <2>2, <3>1, LitCleAvance
    <3> QED BY <2>2, <2>3, <2>5, <3>1, <3>2 DEF Atteindra
  <2> QED BY <2>4, <2>5
<1>25. ASSUME NEW r \in Reveilleurs, Reveille(r) PROVE Rattrapee(u)'
  <2>1. SUFFICES ASSUME Attardee(u)'
                 PROVE  \E w \in Reveilleurs : (rv[w].tous /\ Atteindra(w, voulue[u].file, u))'
    BY DEF Rattrapee
  <2>2. Attardee(u) /\ UNCHANGED <<pc, cle, voulue, ticket, inscrits>> /\ voulue[u].file \in Files
    BY <1>25, <2>1 DEF Reveille, Attardee, SurFile, Attente, Cles, TypeOK, Reveillee
  <2>3. PICK w \in Reveilleurs : rv[w].tous /\ Atteindra(w, voulue[u].file, u)
    BY <2>2, <1>u DEF Rattrapee
  <2>4. CASE w # r
    <3>1. rv'[w] = rv[w]
      BY <1>25, <2>4, SeulR DEF ReveilAvance
    <3> QED BY <2>2, <2>3, <3>1 DEF Atteindra
  <2>5. CASE w = r
    <3>1. rv[r].file = voulue[u].file /\ rv[r].i <= u
      BY <1>25, <2>3, <2>5 DEF Reveille, Atteindra
    <3>2. rv[r].i # u
      BY <1>25, <2>1, <2>2 DEF Reveille, Reveillee, Attardee, TypeOK
    <3>3. \/ rv'[r] = [pc |-> "publie", file |-> voulue[u].file, tous |-> rv[r].tous, i |-> rv[r].i] /\ rv[r].i < u
          \/ rv'[r] = [pc |-> "balaye", file |-> voulue[u].file, tous |-> rv[r].tous, i |-> rv[r].i + 1] /\ rv[r].i + 1 <= u
      BY <1>25, <2>2, <3>1, <3>2, ReveilleAvance
    <3> QED BY <2>2, <2>3, <2>5, <3>3 DEF Atteindra
  <2> QED BY <2>4, <2>5
<1>26. ASSUME NEW r \in Reveilleurs, RvPublie(r) PROVE Rattrapee(u)'
  <2>1. SUFFICES ASSUME Attardee(u)'
                 PROVE  \E w \in Reveilleurs : (rv[w].tous /\ Atteindra(w, voulue[u].file, u))'
    BY DEF Rattrapee
  <2>2. Attardee(u) /\ UNCHANGED <<pc, cle, voulue, ticket, inscrits>> /\ voulue[u].file \in Files
    BY <1>26, <2>1 DEF RvPublie, Attardee, SurFile, Attente, Cles, TypeOK
  <2>3. PICK w \in Reveilleurs : rv[w].tous /\ Atteindra(w, voulue[u].file, u)
    BY <2>2, <1>u DEF Rattrapee
  <2>4. CASE w # r
    <3>1. rv'[w] = rv[w]
      BY <1>26, <2>4, SeulR DEF ReveilAvance
    <3> QED BY <2>2, <2>3, <3>1 DEF Atteindra
  <2>5. CASE w = r
    <3>1. rv[r].file = voulue[u].file /\ rv[r].i < u
      BY <1>26, <2>3, <2>5 DEF RvPublie, Atteindra
    <3>2. rv'[r] = [pc |-> "balaye", file |-> voulue[u].file, tous |-> rv[r].tous, i |-> rv[r].i + 1] /\ rv[r].i + 1 <= u
      BY <1>26, <2>2, <2>3, <2>5, <3>1, RvPublieAvance
    <3> QED BY <2>2, <2>3, <2>5, <3>2 DEF Atteindra
  <2> QED BY <2>4, <2>5
<1>27. CASE TueurLitCoeur
  BY <1>27, <1>u, ParkingAssumption
  DEF TueurLitCoeur, Tueur, SurCoeur, Rattrapee, Attardee, Atteindra, AttenteBonne, Anterieur, SurFile, Gare, Region, Attente, Cles, SansAttente, TypeOK
<1>28. CASE TueurLitEtat
  BY <1>28, <1>u, ParkingAssumption
  DEF TueurLitEtat, Tueur, Rattrapee, Attardee, Atteindra, AttenteBonne, Anterieur, SurFile, Gare, Region, Attente, Cles, SansAttente, TypeOK
<1>29. CASE TueurLitAttente
  BY <1>29, <1>u, ParkingAssumption
  DEF TueurLitAttente, Tueur, Rattrapee, Attardee, Atteindra, AttenteBonne, Anterieur, SurFile, Gare, Region, Attente, Cles, SansAttente, TypeOK
<1>30. CASE TueurTue
  BY <1>30, <1>u, ParkingAssumption
  DEF TueurTue, Tueur, Morte, Rattrapee, Attardee, Atteindra, AttenteBonne, Anterieur, SurFile, Gare, Region, Attente, Cles, SansAttente, TypeOK
<1>31. CASE TueurReveille
  BY <1>31, <1>u, ParkingAssumption
  DEF TueurReveille, Tueur, Reveillee, Rattrapee, Attardee, Atteindra, AttenteBonne, Anterieur, SurFile, Gare, Region, Attente, Cles, SansAttente, TypeOK
<1>32. CASE TueurPublie
  BY <1>32, <1>u, ParkingAssumption
  DEF TueurPublie, Publie, SurCoeur, Rattrapee, Attardee, Atteindra, AttenteBonne, Anterieur, SurFile, Gare, Region, Attente, Cles, SansAttente, TypeOK
<1>33. CASE UNCHANGED vars
  BY <1>33, <1>u, ParkingAssumption
  DEF vars, Rattrapee, Attardee, Atteindra, AttenteBonne, Anterieur, SurFile, Gare, Region, Attente, Cles, SansAttente, TypeOK
<1>a. ASSUME NEW t \in Taches, PasDe(t) PROVE Rattrapee(u)'
  <2> QED
    BY <1>a, <1>1, <1>2, <1>3, <1>4, <1>5, <1>6, <1>7, <1>8, <1>9, <1>10, <1>11,
       <1>12, <1>13, <1>14, <1>15, <1>16, <1>17, <1>18, <1>19
    DEF PasDe, Avance, Passe
<1>b. ASSUME NEW r \in Reveilleurs, PasDuReveilleur(r) PROVE Rattrapee(u)'
  <2> QED
    BY <1>b, <1>20, <1>21, <1>22, <1>23, <1>24, <1>25, <1>26 DEF PasDuReveilleur, ReveilAvance
<1>c. CASE TueurAvance
  BY <1>c, <1>27, <1>28, <1>29, <1>30, <1>31, <1>32 DEF TueurAvance
<1> QED BY <1>a, <1>b, <1>c, <1>33 DEF Pas

(* every step keeps a wake_one useful, as long as nobody is condemned *)
LEMMA RelayeePas ==
    ASSUME TypeOK, TachesBonnes, TousInv, UnInv, Condamnables = {}, Pas, NEW z \in Files, NEW u \in Taches
    PROVE  Relayee(u, z)'
<1>u. AttenteBonne(u) /\ Relayee(u, z) /\ Anterieur
  BY DEF TachesBonnes, TousInv, UnInv
<1>v. \A t \in Taches : ~condamnee[t]
  BY DEF TachesBonnes, CoeurBon
<1>z. z # Nulle
  BY ParkingAssumption
<1> USE DEF partage, tache, file, temoins
<1>1. ASSUME NEW t \in Taches, Renonce(t) PROVE Relayee(u, z)'
  BY <1>1, <1>u, <1>v, <1>z
  DEF Renonce, A, Revient, Vers, Relayee, Delaissee, Sonnera, Quitte, Region, Gare, TypeOK
<1>2. ASSUME NEW t \in Taches, NEW q \in Files, NEW b \in BOOLEAN, NEW int \in BOOLEAN, Ticket(t, q, b, int) PROVE Relayee(u, z)'
  BY <1>2, <1>u, <1>v, <1>z
  DEF Ticket, A, Vers, Relayee, Delaissee, Sonnera, Quitte, Region, Gare, TypeOK
<1>3. ASSUME NEW t \in Taches, NEW int \in BOOLEAN, Sommeille(t, int) PROVE Relayee(u, z)'
  BY <1>3, <1>u, <1>v, <1>z
  DEF Sommeille, A, Vers, Relayee, Delaissee, Sonnera, Quitte, Region, Gare, TypeOK
<1>4. ASSUME NEW t \in Taches, Attend(t) PROVE Relayee(u, z)'
  <2>1. pc[t] = "ticket" /\ UNCHANGED <<etat, generation, rv, sortie>>
    BY <1>4 DEF Attend, A, Revient, Sauf
  <2>2. /\ pc'[t] \in {"libre", "inscrit"}
        /\ \A v \in Taches \ {t} : pc'[v] = pc[v] /\ voulue'[v] = voulue[v] /\ ticket'[v] = ticket[v]
    BY <1>4 DEF Attend, A, Revient, Sauf, Vers, TypeOK
  <2>3. Delaissee(u, z)' => Delaissee(u, z)
    BY <2>1, <2>2 DEF Delaissee
  <2>4. \A v \in Taches : Quitte(v, z) => Quitte(v, z)'
    BY <2>1, <2>2 DEF Quitte, Region, Gare
  <2>5. \A w \in Reveilleurs : Sonnera(w, z, u) => Sonnera(w, z, u)'
    BY <2>1, <2>2, MouvementsType DEF Sonnera, Region, Gare
  <2> QED BY <1>u, <2>1, <2>3, <2>4, <2>5 DEF Relayee
<1>5. ASSUME NEW t \in Taches, Inscrit(t) PROVE Relayee(u, z)'
  BY <1>5, <1>u, <1>v, <1>z
  DEF Inscrit, A, Vers, Sauf, Relayee, Delaissee, Sonnera, Quitte, Region, Gare, TypeOK
<1>6. ASSUME NEW t \in Taches, Endort(t) PROVE Relayee(u, z)'
  BY <1>6, <1>u, <1>v, <1>z
  DEF Endort, A, Vers, Sauf, Endormie, Relayee, Delaissee, Sonnera, Quitte, Region, Gare, TypeOK
<1>7. ASSUME NEW t \in Taches, RelitCondamnee(t) PROVE Relayee(u, z)'
  <2>1. /\ pc[t] = "relit_condamnee" /\ pc'[t] \in {"relit", "dort"} /\ (pc'[t] = "dort" => ~SurFile(t))
        /\ \A v \in Taches \ {t} : pc'[v] = pc[v]
        /\ UNCHANGED <<etat, generation, rv, sortie, voulue, ticket>>
    BY <1>7, <1>v DEF RelitCondamnee, A, Sauf, Vers, TypeOK
  <2> QED BY <1>u, <1>z, <2>1, SMTT(30) DEF Relayee, Delaissee, Sonnera, Quitte, Region, Gare, TypeOK, SurFile
<1>8. ASSUME NEW t \in Taches, Relit(t) PROVE Relayee(u, z)'
  BY <1>8, <1>u, <1>v, <1>z
  DEF Relit, A, Vers, Sauf, Relayee, Delaissee, Sonnera, Quitte, Region, Gare, TypeOK
<1>9. ASSUME NEW t \in Taches, Annule(t) PROVE Relayee(u, z)'
  BY <1>9, <1>u, <1>v, <1>z
  DEF Annule, A, Vers, Sauf, Reveillee, Relayee, Delaissee, Sonnera, Quitte, Region, Gare, TypeOK
<1>10. ASSUME NEW t \in Taches, FinAttente(t) PROVE Relayee(u, z)'
  BY <1>10, <1>u, <1>v, <1>z
  DEF FinAttente, A, Vers, Sauf, Relayee, Delaissee, Sonnera, Quitte, Region, Gare, TypeOK
<1>11. ASSUME NEW t \in Taches, Efface(t) PROVE Relayee(u, z)'
  BY <1>11, <1>u, <1>v, <1>z, ZenonT(30)
  DEF Efface, A, Vers, Desinscrit, Revient, Relayee, Delaissee, Sonnera, Quitte, Region, Gare, TypeOK
<1>12. ASSUME NEW t \in Taches, Meurt(t) PROVE Relayee(u, z)'
  BY <1>12, <1>u, <1>v, <1>z
  DEF Meurt, A, Vers, Sauf, Morte, Relayee, Delaissee, Sonnera, Quitte, Region, Gare, TypeOK
<1>13. ASSUME NEW t \in Taches, Cede(t) PROVE Relayee(u, z)'
  BY <1>13, <1>u, <1>v, <1>z
  DEF Cede, Relayee, Delaissee, Sonnera, Quitte, Region, Gare, TypeOK
<1>14. ASSUME NEW t \in Taches, Preempte(t) PROVE Relayee(u, z)'
  BY <1>14, <1>u, <1>v, <1>z
  DEF Preempte, Relayee, Delaissee, Sonnera, Quitte, Region, Gare, TypeOK
<1>15. ASSUME NEW t \in Taches, LibereCoeur(t) PROVE Relayee(u, z)'
  BY <1>15, <1>u, <1>v, <1>z
  DEF LibereCoeur, Relayee, Delaissee, Sonnera, Quitte, Region, Gare, TypeOK
<1>16. ASSUME NEW t \in Taches, Repasse(t) PROVE Relayee(u, z)'
  BY <1>16, <1>u, <1>v, <1>z
  DEF Repasse, Publie, SurCoeur, Relayee, Delaissee, Sonnera, Quitte, Region, Gare, TypeOK
<1>17. ASSUME NEW t \in Taches, Elit(t) PROVE Relayee(u, z)'
  BY <1>17, <1>u, <1>v, <1>z
  DEF Elit, Relayee, Delaissee, Sonnera, Quitte, Region, Gare, TypeOK
<1>18. ASSUME NEW t \in Taches, TempsPasse(t) PROVE Relayee(u, z)'
  BY <1>18, <1>u, <1>v, <1>z
  DEF TempsPasse, Relayee, Delaissee, Sonnera, Quitte, Region, Gare, TypeOK
<1>19. ASSUME NEW t \in Taches, Condamne(t) PROVE Relayee(u, z)'
  BY <1>19, <1>u, <1>v, <1>z
  DEF Condamne, Tueur, Relayee, Delaissee, Sonnera, Quitte, Region, Gare, TypeOK
<1>20. ASSUME NEW r \in Reveilleurs, NEW q \in Files, NEW tous \in BOOLEAN, Signale(r, q, tous) PROVE Relayee(u, z)'
  BY <1>20, <1>u, <1>v, <1>z
  DEF Signale, Rv, Relayee, Delaissee, Sonnera, Quitte, Region, Gare, TypeOK
<1>21. ASSUME NEW r \in Reveilleurs, NEW t \in Taches, ReveilSignal(r, t) PROVE Relayee(u, z)'
  <2>1. /\ etat' = [etat EXCEPT ![t] = "Pret"] /\ UNCHANGED <<pc, voulue, ticket, generation, sortie>>
        /\ rv[r].pc = "repos" /\ \A w \in Reveilleurs \ {r} : rv'[w] = rv[w]
    BY <1>21 DEF ReveilSignal, Reveillee, Rv, TypeOK
  <2>2. Delaissee(u, z)' => Delaissee(u, z)
    BY <2>1 DEF Delaissee, TypeOK
  <2>3. \A v \in Taches : Quitte(v, z) => Quitte(v, z)'
    BY <2>1 DEF Quitte, TypeOK
  <2>4. \A w \in Reveilleurs : Sonnera(w, z, u) => Sonnera(w, z, u)'
    BY <2>1 DEF Sonnera
  <2> QED BY <1>u, <2>1, <2>2, <2>3, <2>4 DEF Relayee
<1>22. ASSUME NEW r \in Reveilleurs, NEW t \in Taches, LitEcheance(r, t) PROVE Relayee(u, z)'
  BY <1>22, <1>u, <1>v, <1>z
  DEF LitEcheance, Rv, Relayee, Delaissee, Sonnera, Quitte, Region, Gare, TypeOK
<1>23. ASSUME NEW r \in Reveilleurs, LitDormeurs(r) PROVE Relayee(u, z)'
  <2>1. SUFFICES ASSUME Delaissee(u, z)'
                 PROVE  (sortie[z] \/ (\E w \in Reveilleurs : Sonnera(w, z, u)) \/ \E v \in Taches : Quitte(v, z))'
    BY DEF Relayee
  <2>2. Delaissee(u, z) /\ UNCHANGED <<pc, cle, voulue, sortie, inscrits>>
    BY <1>23, <2>1 DEF LitDormeurs, Delaissee, TypeOK
  <2>3. \A v \in Taches : Quitte(v, z) => Quitte(v, z)'
    BY <1>23, <2>2 DEF LitDormeurs, Quitte, TypeOK
  <2>4. ASSUME NEW w \in Reveilleurs, Sonnera(w, z, u), w # r PROVE Sonnera(w, z, u)'
    <3>1. rv'[w] = rv[w]
      BY <1>23, <2>4, SeulR DEF ReveilAvance
    <3> QED BY <2>2, <2>4, <3>1 DEF Sonnera
  <2>5. ASSUME Sonnera(r, z, u) PROVE (\E w \in Reveilleurs : Sonnera(w, z, u))' \/ \E v \in Taches : Quitte(v, z)'
    <3>1. u \in inscrits[z] /\ rv[r].file = z
      BY <1>u, <1>z, <2>2, <2>5 DEF Delaissee, AttenteBonne, Region, Gare, Sonnera, SurFile
    <3>2. rv'[r] = [pc |-> "balaye", file |-> z, tous |-> rv[r].tous, i |-> rv[r].i] /\ rv[r].i <= u
      BY <1>23, <1>u, <3>1, LitDormeursAvance
    <3> QED BY <3>2 DEF Sonnera
  <2> QED BY <2>2, <2>3, <2>4, <2>5, <1>u DEF Relayee
<1>24. ASSUME NEW r \in Reveilleurs, LitCle(r) PROVE Relayee(u, z)'
  <2>1. SUFFICES ASSUME Delaissee(u, z)'
                 PROVE  (sortie[z] \/ (\E w \in Reveilleurs : Sonnera(w, z, u)) \/ \E v \in Taches : Quitte(v, z))'
    BY DEF Relayee
  <2>2. Delaissee(u, z) /\ UNCHANGED <<pc, cle, voulue, sortie, inscrits>>
    BY <1>24, <2>1 DEF LitCle, Delaissee, TypeOK
  <2>3. \A v \in Taches : Quitte(v, z) => Quitte(v, z)'
    BY <1>24, <2>2 DEF LitCle, Quitte, TypeOK
  <2>4. ASSUME NEW w \in Reveilleurs, Sonnera(w, z, u), w # r PROVE Sonnera(w, z, u)'
    <3>1. rv'[w] = rv[w]
      BY <1>24, <2>4, SeulR DEF ReveilAvance
    <3> QED BY <2>2, <2>4, <3>1 DEF Sonnera
  <2>5. ASSUME Sonnera(r, z, u) PROVE (\E w \in Reveilleurs : Sonnera(w, z, u))' \/ \E v \in Taches : Quitte(v, z)'
    <3>1. cle[u] = z /\ rv[r].file = z /\ rv[r].i <= u
      BY <1>24, <1>u, <2>2, <2>5 DEF LitCle, Delaissee, AttenteBonne, Region, Gare, Sonnera
    <3>2. \/ rv'[r] = [pc |-> "cas", file |-> z, tous |-> rv[r].tous, i |-> rv[r].i] /\ cle[rv[r].i] = z
          \/ rv'[r] = [pc |-> "balaye", file |-> z, tous |-> rv[r].tous, i |-> rv[r].i + 1] /\ rv[r].i + 1 <= u
      BY <1>24, <3>1, LitCleAvance
    <3>3. cle[rv[r].i] = z => pc[rv[r].i] \in Region /\ voulue[rv[r].i].file = z
      BY <1>z, MouvementsType DEF TachesBonnes, AttenteBonne
    <3> QED BY <2>2, <3>1, <3>2, <3>3 DEF Sonnera
  <2> QED BY <2>2, <2>3, <2>4, <2>5, <1>u DEF Relayee
<1>25. ASSUME NEW r \in Reveilleurs, Reveille(r) PROVE Relayee(u, z)'
  <2>1. SUFFICES ASSUME Delaissee(u, z)'
                 PROVE  (sortie[z] \/ (\E w \in Reveilleurs : Sonnera(w, z, u)) \/ \E v \in Taches : Quitte(v, z))'
    BY DEF Relayee
  <2>2. Delaissee(u, z) /\ UNCHANGED <<pc, cle, voulue, sortie, inscrits>>
    BY <1>25, <2>1 DEF Reveille, Delaissee, TypeOK, Reveillee
  <2>3. \A v \in Taches : Quitte(v, z) => Quitte(v, z)'
    BY <1>25, <2>2 DEF Reveille, Quitte, TypeOK, Reveillee
  <2>4. ASSUME NEW w \in Reveilleurs, Sonnera(w, z, u), w # r PROVE Sonnera(w, z, u)'
    <3>1. rv'[w] = rv[w]
      BY <1>25, <2>4, SeulR DEF ReveilAvance
    <3> QED BY <2>2, <2>4, <3>1 DEF Sonnera
  <2>5. ASSUME Sonnera(r, z, u) PROVE (\E w \in Reveilleurs : Sonnera(w, z, u))' \/ \E v \in Taches : Quitte(v, z)'
    <3>1. rv[r].file = z /\ rv[r].i <= u /\ rv[r].i \in Taches /\ pc[rv[r].i] \in Region /\ voulue[rv[r].i].file = z
      BY <1>25, <2>5, MouvementsType DEF Reveille, Sonnera
    <3>2. rv[r].i # u
      BY <1>25, <2>1, <2>2 DEF Reveille, Reveillee, Delaissee, TypeOK
    <3>3. \/ etat'[rv[r].i] = "Pret"
          \/ rv'[r] = [pc |-> "balaye", file |-> z, tous |-> rv[r].tous, i |-> rv[r].i + 1] /\ rv[r].i + 1 <= u
      BY <1>25, <3>1, <3>2, ReveilleAvance
    <3>4. CASE etat'[rv[r].i] = "Pret"
      BY <2>2, <3>1, <3>4 DEF Quitte
    <3>5. CASE rv'[r] = [pc |-> "balaye", file |-> z, tous |-> rv[r].tous, i |-> rv[r].i + 1] /\ rv[r].i + 1 <= u
      BY <3>5 DEF Sonnera
    <3> QED BY <3>3, <3>4, <3>5
  <2> QED BY <2>2, <2>3, <2>4, <2>5, <1>u DEF Relayee
<1>26. ASSUME NEW r \in Reveilleurs, RvPublie(r) PROVE Relayee(u, z)'
  <2>1. SUFFICES ASSUME Delaissee(u, z)'
                 PROVE  (sortie[z] \/ (\E w \in Reveilleurs : Sonnera(w, z, u)) \/ \E v \in Taches : Quitte(v, z))'
    BY DEF Relayee
  <2>2. Delaissee(u, z) /\ UNCHANGED <<pc, cle, voulue, sortie, inscrits>>
    BY <1>26, <2>1 DEF RvPublie, Delaissee, TypeOK
  <2>3. \A v \in Taches : Quitte(v, z) => Quitte(v, z)'
    BY <1>26, <2>2 DEF RvPublie, Quitte, TypeOK
  <2>4. ASSUME NEW w \in Reveilleurs, Sonnera(w, z, u), w # r PROVE Sonnera(w, z, u)'
    <3>1. rv'[w] = rv[w]
      BY <1>26, <2>4, SeulR DEF ReveilAvance
    <3> QED BY <2>2, <2>4, <3>1 DEF Sonnera
  <2>5. ASSUME Sonnera(r, z, u) PROVE (\E w \in Reveilleurs : Sonnera(w, z, u))' \/ \E v \in Taches : Quitte(v, z)'
    <3>1. rv[r].file = z /\ rv[r].tous /\ rv[r].i < u
      BY <1>26, <2>5 DEF RvPublie, Sonnera
    <3>2. rv'[r] = [pc |-> "balaye", file |-> z, tous |-> rv[r].tous, i |-> rv[r].i + 1] /\ rv[r].i + 1 <= u
      BY <1>26, <3>1, RvPublieAvance
    <3> QED BY <3>2 DEF Sonnera
  <2> QED BY <2>2, <2>3, <2>4, <2>5, <1>u DEF Relayee
<1>27. CASE TueurLitCoeur
  BY <1>27, <1>u, <1>v, <1>z
  DEF TueurLitCoeur, Tueur, SurCoeur, Relayee, Delaissee, Sonnera, Quitte, Region, Gare, TypeOK
<1>28. CASE TueurLitEtat
  BY <1>28, <1>u, <1>v, <1>z
  DEF TueurLitEtat, Tueur, Relayee, Delaissee, Sonnera, Quitte, Region, Gare, TypeOK
<1>29. CASE TueurLitAttente
  BY <1>29, <1>u, <1>v, <1>z
  DEF TueurLitAttente, Tueur, Relayee, Delaissee, Sonnera, Quitte, Region, Gare, TypeOK
<1>30. CASE TueurTue
  BY <1>30, <1>u, <1>v, <1>z
  DEF TueurTue, Tueur, Morte, Relayee, Delaissee, Sonnera, Quitte, Region, Gare, TypeOK
<1>31. CASE TueurReveille
  BY <1>31, <1>u, <1>v, <1>z
  DEF TueurReveille, Tueur, Reveillee, Relayee, Delaissee, Sonnera, Quitte, Region, Gare, TypeOK
<1>32. CASE TueurPublie
  BY <1>32, <1>u, <1>v, <1>z
  DEF TueurPublie, Publie, SurCoeur, Relayee, Delaissee, Sonnera, Quitte, Region, Gare, TypeOK
<1>33. CASE UNCHANGED vars
  BY <1>33, <1>u, <1>v, <1>z
  DEF vars, Relayee, Delaissee, Sonnera, Quitte, Region, Gare, TypeOK
<1>a. ASSUME NEW t \in Taches, PasDe(t) PROVE Relayee(u, z)'
  <2> QED
    BY <1>a, <1>1, <1>2, <1>3, <1>4, <1>5, <1>6, <1>7, <1>8, <1>9, <1>10, <1>11,
       <1>12, <1>13, <1>14, <1>15, <1>16, <1>17, <1>18, <1>19
    DEF PasDe, Avance, Passe
<1>b. ASSUME NEW r \in Reveilleurs, PasDuReveilleur(r) PROVE Relayee(u, z)'
  <2> QED
    BY <1>b, <1>20, <1>21, <1>22, <1>23, <1>24, <1>25, <1>26 DEF PasDuReveilleur, ReveilAvance
<1>c. CASE TueurAvance
  BY <1>c, <1>27, <1>28, <1>29, <1>30, <1>31, <1>32 DEF TueurAvance
<1> QED BY <1>a, <1>b, <1>c, <1>33 DEF Pas

(* u is dead *)
EstZombie(u) == etat[u] = "Zombie"

(* the CAS of every waker starts from Bloque, that of a sleeper from Pret *)
LEMMA ZombiePas ==
    ASSUME TypeOK, Pas, NEW u \in Taches, EstZombie(u)
    PROVE  EstZombie(u)'
<1> USE DEF TypeOK, EstZombie, partage, tache, file, temoins
<1>1. ASSUME NEW t \in Taches, Renonce(t) PROVE EstZombie(u)'
  BY <1>1 DEF Renonce, A, Revient, Vers
<1>2. ASSUME NEW t \in Taches, NEW q \in Files, NEW b \in BOOLEAN, NEW int \in BOOLEAN, Ticket(t, q, b, int) PROVE EstZombie(u)'
  BY <1>2 DEF Ticket, A, Vers
<1>3. ASSUME NEW t \in Taches, NEW int \in BOOLEAN, Sommeille(t, int) PROVE EstZombie(u)'
  BY <1>3 DEF Sommeille, A, Vers
<1>4. ASSUME NEW t \in Taches, Attend(t) PROVE EstZombie(u)'
  BY <1>4 DEF Attend, A, Vers, Sauf, Revient
<1>5. ASSUME NEW t \in Taches, Inscrit(t) PROVE EstZombie(u)'
  BY <1>5 DEF Inscrit, A, Vers, Sauf
<1>6. ASSUME NEW t \in Taches, Endort(t) PROVE EstZombie(u)'
  BY <1>6 DEF Endort, A, Vers, Sauf, Endormie
<1>7. ASSUME NEW t \in Taches, RelitCondamnee(t) PROVE EstZombie(u)'
  BY <1>7 DEF RelitCondamnee, A, Vers, Sauf, Desinscrit
<1>8. ASSUME NEW t \in Taches, Relit(t) PROVE EstZombie(u)'
  BY <1>8 DEF Relit, A, Vers, Sauf
<1>9. ASSUME NEW t \in Taches, Annule(t) PROVE EstZombie(u)'
  BY <1>9 DEF Annule, A, Vers, Sauf, Reveillee
<1>10. ASSUME NEW t \in Taches, FinAttente(t) PROVE EstZombie(u)'
  BY <1>10 DEF FinAttente, A, Vers, Sauf
<1>11. ASSUME NEW t \in Taches, Efface(t) PROVE EstZombie(u)'
  BY <1>11 DEF Efface, A, Vers, Desinscrit, Revient
<1>12. ASSUME NEW t \in Taches, Meurt(t) PROVE EstZombie(u)'
  BY <1>12 DEF Meurt, A, Vers, Sauf, Morte
<1>13. ASSUME NEW t \in Taches, Cede(t) PROVE EstZombie(u)'
  BY <1>13 DEF Cede
<1>14. ASSUME NEW t \in Taches, Preempte(t) PROVE EstZombie(u)'
  BY <1>14 DEF Preempte
<1>15. ASSUME NEW t \in Taches, LibereCoeur(t) PROVE EstZombie(u)'
  BY <1>15 DEF LibereCoeur
<1>16. ASSUME NEW t \in Taches, Repasse(t) PROVE EstZombie(u)'
  BY <1>16 DEF Repasse, Publie, SurCoeur
<1>17. ASSUME NEW t \in Taches, Elit(t) PROVE EstZombie(u)'
  BY <1>17 DEF Elit
<1>18. ASSUME NEW t \in Taches, TempsPasse(t) PROVE EstZombie(u)'
  BY <1>18 DEF TempsPasse
<1>19. ASSUME NEW t \in Taches, Condamne(t) PROVE EstZombie(u)'
  BY <1>19 DEF Condamne, Tueur
<1>20. ASSUME NEW r \in Reveilleurs, NEW q \in Files, NEW tous \in BOOLEAN, Signale(r, q, tous) PROVE EstZombie(u)'
  BY <1>20 DEF Signale, Rv
<1>21. ASSUME NEW r \in Reveilleurs, NEW t \in Taches, ReveilSignal(r, t) PROVE EstZombie(u)'
  BY <1>21 DEF ReveilSignal, Reveillee, Rv
<1>22. ASSUME NEW r \in Reveilleurs, NEW t \in Taches, LitEcheance(r, t) PROVE EstZombie(u)'
  BY <1>22 DEF LitEcheance, Rv
<1>23. ASSUME NEW r \in Reveilleurs, LitDormeurs(r) PROVE EstZombie(u)'
  BY <1>23 DEF LitDormeurs, VaA, Rv
<1>24. ASSUME NEW r \in Reveilleurs, LitCle(r) PROVE EstZombie(u)'
  BY <1>24 DEF LitCle, VaA, Suivant, Rv
<1>25. ASSUME NEW r \in Reveilleurs, Reveille(r) PROVE EstZombie(u)'
  BY <1>25 DEF Reveille, Reveillee, VaA, Suivant, Rv
<1>26. ASSUME NEW r \in Reveilleurs, RvPublie(r) PROVE EstZombie(u)'
  BY <1>26 DEF RvPublie, Publie, Suivant, Rv, SurCoeur
<1>27. CASE TueurLitCoeur
  BY <1>27 DEF TueurLitCoeur, Tueur, SurCoeur
<1>28. CASE TueurLitEtat
  BY <1>28 DEF TueurLitEtat, Tueur
<1>29. CASE TueurLitAttente
  BY <1>29 DEF TueurLitAttente, Tueur
<1>30. CASE TueurTue
  BY <1>30 DEF TueurTue, Tueur, Morte
<1>31. CASE TueurReveille
  BY <1>31 DEF TueurReveille, Tueur, Reveillee
<1>32. CASE TueurPublie
  BY <1>32 DEF TueurPublie, Publie, SurCoeur
<1>33. CASE UNCHANGED vars
  BY <1>33 DEF vars
<1>a. ASSUME NEW t \in Taches, PasDe(t) PROVE EstZombie(u)'
  <2> HIDE DEF EstZombie
  <2> QED
    BY <1>a, <1>1, <1>2, <1>3, <1>4, <1>5, <1>6, <1>7, <1>8, <1>9, <1>10, <1>11,
       <1>12, <1>13, <1>14, <1>15, <1>16, <1>17, <1>18, <1>19
    DEF PasDe, Avance, Passe
<1>b. ASSUME NEW r \in Reveilleurs, PasDuReveilleur(r) PROVE EstZombie(u)'
  <2> HIDE DEF EstZombie
  <2> QED
    BY <1>b, <1>20, <1>21, <1>22, <1>23, <1>24, <1>25, <1>26 DEF PasDuReveilleur, ReveilAvance
<1>c. CASE TueurAvance
  BY <1>c, <1>27, <1>28, <1>29, <1>30, <1>31, <1>32 DEF TueurAvance
<1> HIDE DEF EstZombie
<1> QED BY <1>a, <1>b, <1>c, <1>33 DEF Pas

-----------------------------------------------------------------------------
(* The results *)

(* the initial state satisfies the invariant *)
LEMMA InitInv == Init => IInv /\ UnInv
<1> SUFFICES ASSUME Init PROVE IInv /\ UnInv
  OBVIOUS
<1>1. TypeOK
  <2>1. SansAttente \in Attente /\ Repos \in EtatsReveilleur /\ TueurRepos \in EtatsTueur
    BY ParkingAssumption
    DEF SansAttente, Attente, Repos, EtatsReveilleur, TueurRepos, EtatsTueur, Cles, Taches
  <2> QED BY <2>1 DEF Init, TypeOK, Cles, Etapes, EtatsReveilleur, EtatsTueur
<1>2. TachesBonnes
  BY DEF Init, TachesBonnes, AttenteBonne, CoeurBon, Gare, Region
<1>3. PasOrpheline
  BY DEF Init, PasOrpheline
<1>4. TousInv
  BY DEF Init, TousInv, Anterieur, Rattrapee, Attardee, Repos
<1>5. TueurInv /\ UnInv
  BY DEF Init, TueurInv, Survie, UnInv, Relayee, Delaissee
<1> QED BY <1>1, <1>2, <1>3, <1>4, <1>5 DEF IInv

(* every step of a client of the wait queue keeps the invariant *)
LEMMA PasInv ==
    ASSUME IInv, Pas
    PROVE  IInv'
<1>1. TypeOK'
  BY TypePas DEF IInv
<1>2. TachesBonnes'
  BY AttentePas, CoeurPas DEF IInv, TachesBonnes
<1>3. PasOrpheline'
  BY TenuePas DEF IInv, PasOrpheline, Tenue
<1>4. TousInv'
  BY AnterieurPas, RattrapeePas DEF IInv, TousInv
<1>5. TueurInv'
  BY TueurPas DEF IInv, TueurInv
<1> QED BY <1>1, <1>2, <1>3, <1>4, <1>5 DEF IInv

(* Next is such a step *)
LEMMA NextPas ==
    ASSUME TypeOK, [Next]_vars
    PROVE  Pas
<1>1. attentes' \in [Taches -> Nat]
  <2>1. CASE \E t \in Taches : Entre(t)
    BY <2>1 DEF Entre, TypeOK
  <2>2. CASE UNCHANGED attentes
    BY <2>2 DEF TypeOK
  <2>3. ASSUME NEW t \in Taches, Avance(t) \/ Meurt(t) \/ Cede(t) \/ Preempte(t) \/ Passe(t) \/ Elit(t)
                                 \/ TempsPasse(t) \/ Condamne(t)
        PROVE  UNCHANGED attentes
    BY <2>3 DEF Avance, Attend, Inscrit, Endort, RelitCondamnee, Relit, Annule, FinAttente, Efface, Sauf, Revient,
                Meurt, Cede, Preempte, Passe, LibereCoeur, Repasse, Elit, TempsPasse, Condamne, tache
  <2>4. ASSUME NEW r \in Reveilleurs, PasDuReveilleur(r) PROVE UNCHANGED attentes
    BY <2>4 DEF PasDuReveilleur, Signale, ReveilSignal, LitEcheance, ReveilAvance, LitDormeurs, LitCle, Reveille,
                RvPublie, tache
  <2>5. CASE TueurAvance
    BY <2>2, <2>5 DEF TueurAvance, TueurLitCoeur, TueurLitEtat, TueurLitAttente, TueurTue, TueurReveille,
                      TueurPublie, tache
  <2>6. CASE UNCHANGED vars
    BY <2>2, <2>6 DEF vars, tache
  <2> QED BY <2>1, <2>2, <2>3, <2>4, <2>5, <2>6 DEF Next, PasDuReveilleur
<1>2. ASSUME NEW t \in Taches, Entre(t) PROVE PasDe(t)
  BY <1>2, ParkingAssumption DEF Entre, PasDe
<1> QED BY <1>1, <1>2 DEF Next, Pas, PasDe, PasDuReveilleur

(* IInv holds in every reachable state *)
LEMMA InductionParking == Spec => []IInv
<1>1. IInv /\ [Next]_vars => IInv'
  BY PasInv, NextPas DEF IInv
<1> QED BY <1>1, InitInv, PTL DEF Spec

(* The shape of the state, for every registry, set of queues and wakers. *)
THEOREM ParkingTypes == Spec => []TypeOK
<1>1. IInv => TypeOK
  BY DEF IInv
<1> QED BY <1>1, InductionParking, PTL

(* courant.rs:437-444: a task that is Pret off its core is queued, or      *)
(* somebody has still to queue it; whatever the wakers, the killer and the *)
(* hand-offs that run at the same time.                                    *)
THEOREM JamaisOrpheline == Spec => []PasOrpheline
<1>1. IInv => PasOrpheline
  BY DEF IInv
<1> QED BY <1>1, InductionParking, PTL

(* sommeil.rs:216-233: a task that is Bloque off its core has a key or a   *)
(* deadline, kernel threads preempted anywhere in their wait included.     *)
THEOREM SourceGardee == Spec => []SourceDeReveil
<1>1. IInv => SourceDeReveil
  <2> SUFFICES ASSUME IInv, NEW t \in Taches, etat[t] = "Bloque", coeur[t] # "dedans"
               PROVE  cle[t] # Nulle \/ echeance[t] # "aucune"
    BY DEF SourceDeReveil
  <2>1. AttenteBonne(t) /\ CoeurBon(t)
    BY DEF IInv, TachesBonnes
  <2>2. pc[t] # "meurt"
    BY <2>1, ParkingAssumption DEF CoeurBon
  <2> QED BY <2>1, <2>2 DEF AttenteBonne, SurFile, Gare, Region
<1> QED BY <1>1, InductionParking, PTL

(* a user task that sleeps is at the end of the protocol *)
LEMMA ParqueeDort ==
    ASSUME IInv, NEW t \in Taches \ FilsNoyau, Parquee(t)
    PROVE  pc[t] = "dort" /\ etat[t] = "Bloque"
<1>1. AttenteBonne(t) /\ CoeurBon(t)
  BY DEF IInv, TachesBonnes
<1> QED BY <1>1 DEF AttenteBonne, CoeurBon, Parquee, SurCoeur, Gare

(* rendezvous.rs:33-39: no wake_all is lost by a user task, for every      *)
(* number of wakers that scan at the same time.                            *)
THEOREM TousReveilles == Spec => []ReveilTousArrive
<1>1. IInv => ReveilTousArrive
  <2> SUFFICES ASSUME IInv, NEW t \in Taches \ FilsNoyau,
                      Parquee(t), SurFile(t), ticket[t] < dernierTous[voulue[t].file]
               PROVE  \E r \in Reveilleurs : rv[r].tous /\ Atteindra(r, voulue[t].file, t)
    BY DEF ReveilTousArrive, ReveilArrive
  <2>1. Rattrapee(t)
    BY DEF IInv, TousInv
  <2> QED BY <2>1, ParqueeDort DEF Rattrapee, Attardee
<1> QED BY <1>1, InductionParking, PTL

(* cycle_vie.rs:42-49: a condemned task does not sleep in an interruptible *)
(* wait behind the back of its killer.                                     *)
THEOREM AucuneCondamneeOubliee == Spec => []CondamneeNeDortPas
<1>1. IInv => CondamneeNeDortPas
  <2> SUFFICES ASSUME IInv, NEW t \in Taches, condamnee[t], Parquee(t), voulue[t].interruptible
               PROVE  Poursuivie(t)
    BY DEF CondamneeNeDortPas, Poursuivie
  <2>1. t \notin FilsNoyau
    BY ParkingAssumption DEF IInv, TachesBonnes, CoeurBon
  <2>2. Survie(t)
    BY DEF IInv, TueurInv
  <2> QED BY <2>1, <2>2, ParqueeDort DEF Survie
<1> QED BY <1>1, InductionParking, PTL

(* blocage.rs:256-262: a wake_one is never wasted, as long as no waiter is *)
(* condemned (a condemned one may be chosen and die without looking).      *)
THEOREM UnReveilUtile ==
    ASSUME Condamnables = {}
    PROVE  Spec => []ReveilUnUtile
<1>1. IInv /\ UnInv => ReveilUnUtile
  <2> SUFFICES ASSUME IInv, UnInv, NEW q \in Files, NEW t \in Taches \ FilsNoyau,
                      Parquee(t), voulue[t].file = q, ticket[t] < generation[q]
               PROVE  \/ sortie[q]
                      \/ \E r \in Reveilleurs : rv[r].file = q /\ rv[r].pc # "repos"
                      \/ \E u \in inscrits[q] : etat[u] # "Bloque"
    BY DEF ReveilUnUtile
  <2>1. Delaissee(t, q) /\ Relayee(t, q)
    BY ParqueeDort DEF UnInv, Delaissee
  <2>2. \A u \in Taches : Quitte(u, q) => u \in inscrits[q] /\ etat[u] # "Bloque"
    BY ParkingAssumption DEF IInv, TachesBonnes, AttenteBonne, Quitte, SurFile
  <2>3. \A r \in Reveilleurs : Sonnera(r, q, t) => rv[r].file = q /\ rv[r].pc # "repos"
    BY DEF Sonnera
  <2> QED BY <2>1, <2>2, <2>3 DEF Relayee
<1>2. IInv /\ UnInv /\ [Next]_vars => UnInv'
  <2> SUFFICES ASSUME IInv, UnInv, [Next]_vars PROVE UnInv'
    OBVIOUS
  <2>1. Pas
    BY NextPas DEF IInv
  <2> QED BY <2>1, RelayeePas DEF IInv, UnInv
<1> QED BY <1>1, <1>2, InitInv, InductionParking, PTL DEF Spec

(* P1 of test_cycle_vie.rs: no step takes a task out of Zombie. *)
THEOREM ZombieDefinitif == Spec => ZombieAbsorbant
<1>1. ASSUME IInv, [Next]_vars, NEW u \in Taches, etat[u] = "Zombie" PROVE etat'[u] = "Zombie"
  BY <1>1, ZombiePas, NextPas DEF IInv, EstZombie
<1>2. IInv /\ [Next]_vars => (\A t \in Taches : etat[t] = "Zombie" => etat'[t] = "Zombie")
  BY <1>1
<1>3. Spec => [][Next]_vars /\ []IInv
  BY InductionParking, PTL DEF Spec
<1> QED BY <1>2, <1>3, PTL DEF ZombieAbsorbant

=============================================================================
