----------------------------- MODULE MutexProofs -----------------------------
(***************************************************************************)
(* What holds of SleepMutex for every number of contenders and of lock()   *)
(* calls: the guard is exclusive, and no contender is left asleep in front *)
(* of a free mutex.  The wait queue is the one ParkingProofs reasons       *)
(* about: its invariant is used as it stands.                              *)
(***************************************************************************)
EXTENDS SleepMutex, ParkingProofs

EtapesVerrou == {"hors", "essaie", "billet", "relit", "attend", "tient", "signale", "eveille"}

MTypes ==
    /\ locked \in BOOLEAN /\ mx \in [Taches -> EtapesVerrou] /\ prises \in Nat

(* where a task is in lock(), against where it is in the wait queue *)
LieuBon(t) ==
    /\ mx[t] \notin {"relit", "attend"} => pc[t] = "libre"
    /\ mx[t] = "relit" => pc[t] = "ticket"
    /\ pc[t] \notin {"meurt", "mort"}
    /\ pc[t] # "libre" => voulue[t].file = Mutex

(* only the drop of a guard scans the queue of the mutex *)
ReveilleursBons ==
    /\ \A t \in Taches : IF mx[t] = "eveille"
                         THEN rv[t].pc # "repos" /\ rv[t].file = Mutex /\ ~rv[t].tous
                         ELSE rv[t].pc = "repos"
    /\ rv[Bruit].pc \in {"repos", "publie"} /\ rv[Bruit].file = Nulle /\ ~rv[Bruit].tous

Unique ==
    \A t \in Taches : mx[t] = "tient" => locked /\ \A u \in Taches \ {t} : mx[u] # "tient"

(* somebody will pass through the drop of a guard, or has just begun it *)
Garde == locked \/ \E x \in Taches : mx[x] = "signale"

(* a contender saw the mutex taken after its ticket: it is still taken, or *)
(* the wake of its release is to come or has changed the generation        *)
BilletBon(t) ==
    mx[t] = "attend" /\ pc[t] \in {"ticket", "inscrit", "endort", "relit_condamnee", "relit"}
        => Garde \/ ticket[t] < generation[Mutex]

Dort(t) == pc[t] = "dort" /\ etat[t] = "Bloque"

(* a contender that goes back to the CAS *)
Reviendra(u) == mx[u] \in {"essaie", "billet", "relit", "attend"} /\ ~Dort(u)

(* a sleeper counts on a guard, on a scan that will reach it, or on a      *)
(* contender that is awake                                                 *)
SommeilBon(t) ==
    Dort(t) => \/ Garde
               \/ \E r \in Taches : Sonnera(r, Mutex, t)
               \/ \E u \in Taches : Reviendra(u)

MInv ==
    /\ IInv /\ MTypes /\ ReveilleursBons /\ Unique
    /\ \A t \in Taches : LieuBon(t) /\ BilletBon(t) /\ SommeilBon(t)

-----------------------------------------------------------------------------
(* Every step is a step of a client of the wait queue *)

LEMMA MNextPas ==
    ASSUME TypeOK, [MNext]_mvars
    PROVE  Pas
<1> USE MutexAssumption
<1>1. ASSUME UNCHANGED vars PROVE Pas
  BY <1>1 DEF Pas, TypeOK, vars, tache
<1>2. ASSUME NEW t \in Taches, PasDe(t), UNCHANGED attentes PROVE Pas
  BY <1>2 DEF Pas, TypeOK
<1>3. ASSUME NEW r \in Reveilleurs, PasDuReveilleur(r), UNCHANGED attentes PROVE Pas
  BY <1>3 DEF Pas, TypeOK
<1>4. ASSUME NEW t \in Taches, Demande(t) \/ Essaie(t) \/ Libere(t) PROVE Pas
  BY <1>1, <1>4 DEF Demande, Essaie, Cas, Libere
<1>5. ASSUME NEW t \in Taches, Billet(t) PROVE Pas
  BY <1>2, <1>5 DEF Billet, PasDe
<1>6. ASSUME NEW t \in Taches, RelitVerrou(t) PROVE Pas
  <2>1. CASE locked
    BY <1>1, <1>6, <2>1 DEF RelitVerrou
  <2>2. CASE ~locked
    <3>1. Renonce(t) /\ UNCHANGED attentes
      BY <1>6, <2>2 DEF RelitVerrou, Renonce, Revient
    <3> QED BY <1>2, <3>1 DEF PasDe
  <2> QED BY <2>1, <2>2
<1>7. ASSUME NEW t \in Taches, Patiente(t) PROVE Pas
  <2>1. Avance(t) /\ UNCHANGED attentes
    BY <1>7 DEF Patiente, Avance, Attend, Inscrit, Endort, RelitCondamnee, Relit, Annule, FinAttente, Efface, Sauf,
                Revient
  <2> QED BY <1>2, <2>1 DEF PasDe
<1>8. ASSUME NEW r \in Reveilleurs, ReveilAvance(r) PROVE Pas
  <2>1. UNCHANGED attentes
    BY <1>8 DEF ReveilAvance, LitDormeurs, LitCle, Reveille, RvPublie, tache
  <2> QED BY <1>3, <1>8, <2>1 DEF PasDuReveilleur
<1>9. ASSUME NEW t \in Taches, Eveille(t) PROVE Pas
  <2>1. CASE ReveilAvance(t)
    BY <1>8, <2>1
  <2>2. CASE Signale(t, Mutex, FALSE)
    <3>1. PasDuReveilleur(t) /\ UNCHANGED attentes
      BY <2>2 DEF PasDuReveilleur, Signale, tache
    <3> QED BY <1>3, <3>1
  <2> QED BY <1>9, <2>1, <2>2 DEF Eveille
<1>10. ASSUME NEW t \in Taches, Autour(t) PROVE Pas
  <2>1. CASE ReveilSignal(Bruit, t)
    <3>1. PasDuReveilleur(Bruit) /\ UNCHANGED attentes
      BY <2>1 DEF PasDuReveilleur, ReveilSignal, tache
    <3> QED BY <1>3, <3>1
  <2>2. CASE Cede(t) \/ Passe(t) \/ Elit(t)
    <3>1. PasDe(t) /\ UNCHANGED attentes
      BY <2>2 DEF PasDe, Cede, Passe, LibereCoeur, Repasse, Elit, tache
    <3> QED BY <1>2, <3>1
  <2> QED BY <1>10, <2>1, <2>2 DEF Autour
<1> QED
  BY <1>1, <1>4, <1>5, <1>6, <1>7, <1>8, <1>9, <1>10 DEF MNext, Verrou, mvars

(* one step of wait_noyau(): how far it goes, and what it leaves alone *)
LEMMA AvanceForme ==
    ASSUME MInv, NEW t \in Taches, pc[t] # "libre" => voulue[t].file = Mutex, Avance(t)
    PROVE  /\ \A u \in Taches \ {t} : /\ pc'[u] = pc[u] /\ etat'[u] = etat[u]
                                      /\ voulue'[u] = voulue[u] /\ ticket'[u] = ticket[u]
           /\ pc[t] \notin {"libre", "meurt", "mort"} /\ pc'[t] \notin {"ticket", "meurt", "mort"}
           /\ pc'[t] # "libre" => voulue'[t] = voulue[t] /\ ticket'[t] = ticket[t]
           /\ Dort(t)' => pc[t] = "relit" /\ generation[Mutex] = ticket[t]
           /\ pc'[t] \in {"inscrit", "endort", "relit_condamnee", "relit"} =>
                 pc[t] \in {"ticket", "inscrit", "endort", "relit_condamnee"}
           /\ UNCHANGED <<generation, rv>>
<1>1. TypeOK /\ ~condamnee[t] /\ Mutex # Nulle
  BY MutexAssumption, ParkingAssumption DEF MInv, IInv, TachesBonnes, CoeurBon
<1> USE <1>1 DEF TypeOK, A, Vers, Sauf, Dort, SurFile, file, partage
<1>2. CASE Attend(t)
  <2>1. CASE Revient(t)
    BY <1>2, <2>1 DEF Attend, Revient
  <2>2. CASE Vers(t, "inscrit") /\ Sauf
    BY <1>2, <2>2 DEF Attend
  <2> QED BY <1>2, <2>1, <2>2 DEF Attend
<1>3. CASE Inscrit(t)
  BY <1>3 DEF Inscrit
<1>4. CASE Endort(t)
  BY <1>4 DEF Endort, Endormie
<1>5. CASE RelitCondamnee(t)
  BY <1>5 DEF RelitCondamnee
<1>6. CASE Relit(t)
  BY <1>6 DEF Relit
<1>7. CASE Annule(t)
  BY <1>7 DEF Annule, Reveillee
<1>8. CASE FinAttente(t)
  BY <1>8 DEF FinAttente
<1>9. CASE Efface(t)
  BY <1>9 DEF Efface, Revient
<1> QED BY <1>2, <1>3, <1>4, <1>5, <1>6, <1>7, <1>8, <1>9 DEF Avance

-----------------------------------------------------------------------------
(* The lock and its queue, part by part *)

(* every step keeps the types of the lock *)
LEMMA MTypesPas ==
    ASSUME MInv, [MNext]_mvars
    PROVE  MTypes'
<1>t. TypeOK /\ MTypes /\ ReveilleursBons /\ Unique
  BY DEF MInv, IInv
<1>1. ASSUME NEW t \in Taches, Demande(t) PROVE MTypes'
  BY <1>1, <1>t
  DEF Demande, Cas, MVers, A, vars, tache, partage, file, TypeOK, MTypes, EtapesVerrou
<1>2. ASSUME NEW t \in Taches, Essaie(t) PROVE MTypes'
  BY <1>2, <1>t
  DEF Essaie, Cas, MVers, A, vars, tache, partage, file, TypeOK, MTypes, EtapesVerrou
<1>3. ASSUME NEW t \in Taches, Billet(t) PROVE MTypes'
  BY <1>3, <1>t
  DEF Billet, Ticket, A, Vers, MVers, partage, file, TypeOK, MTypes, EtapesVerrou
<1>4. ASSUME NEW t \in Taches, RelitVerrou(t) PROVE MTypes'
  BY <1>4, <1>t
  DEF RelitVerrou, A, Revient, Vers, MVers, vars, tache, partage, file, TypeOK, MTypes, EtapesVerrou
<1>5. ASSUME NEW t \in Taches, Patiente(t) PROVE MTypes'
  BY <1>5, <1>t DEF Patiente, MTypes
<1>6. ASSUME NEW t \in Taches, Libere(t) PROVE MTypes'
  BY <1>6, <1>t
  DEF Libere, A, MVers, vars, tache, partage, file, TypeOK, MTypes, EtapesVerrou
<1>7. ASSUME NEW t \in Taches, Eveille(t) PROVE MTypes'
  BY <1>7, <1>t DEF Eveille, MVers, MTypes, EtapesVerrou
<1>8. ASSUME NEW t \in Taches, Autour(t) PROVE MTypes'
  BY <1>8, <1>t DEF Autour, MTypes
<1>9. CASE ReveilAvance(Bruit) /\ UNCHANGED <<locked, mx, prises>>
  BY <1>9, <1>t DEF MTypes
<1>10. CASE UNCHANGED mvars
  BY <1>10, <1>t DEF mvars, vars, tache, partage, file, TypeOK, MTypes, EtapesVerrou
<1> QED BY <1>1, <1>2, <1>3, <1>4, <1>5, <1>6, <1>7, <1>8, <1>9, <1>10 DEF MNext, Verrou

(* every step keeps the guard exclusive: the CAS takes a free lock only *)
LEMMA UniquePas ==
    ASSUME MInv, [MNext]_mvars
    PROVE  Unique'
<1>t. TypeOK /\ MTypes /\ ReveilleursBons /\ Unique
  BY DEF MInv, IInv
<1>1. ASSUME NEW t \in Taches, Demande(t) PROVE Unique'
  BY <1>1, <1>t
  DEF Demande, Cas, MVers, A, vars, tache, partage, file, MTypes, EtapesVerrou, Unique
<1>2. ASSUME NEW t \in Taches, Essaie(t) PROVE Unique'
  BY <1>2, <1>t
  DEF Essaie, Cas, MVers, A, vars, tache, partage, file, MTypes, EtapesVerrou, Unique
<1>3. ASSUME NEW t \in Taches, Billet(t) PROVE Unique'
  BY <1>3, <1>t
  DEF Billet, Ticket, A, Vers, MVers, partage, file, MTypes, EtapesVerrou, Unique
<1>4. ASSUME NEW t \in Taches, RelitVerrou(t) PROVE Unique'
  BY <1>4, <1>t
  DEF RelitVerrou, A, Revient, Vers, MVers, vars, tache, partage, file, MTypes, EtapesVerrou, Unique
<1>5. ASSUME NEW t \in Taches, Patiente(t) PROVE Unique'
  BY <1>5, <1>t DEF Patiente, Unique
<1>6. ASSUME NEW t \in Taches, Libere(t) PROVE Unique'
  BY <1>6, <1>t
  DEF Libere, A, MVers, vars, tache, partage, file, MTypes, EtapesVerrou, Unique
<1>7. ASSUME NEW t \in Taches, Eveille(t) PROVE Unique'
  BY <1>7, <1>t DEF Eveille, MVers, MTypes, Unique
<1>8. ASSUME NEW t \in Taches, Autour(t) PROVE Unique'
  BY <1>8, <1>t DEF Autour, Unique
<1>9. CASE ReveilAvance(Bruit) /\ UNCHANGED <<locked, mx, prises>>
  BY <1>9, <1>t DEF Unique
<1>10. CASE UNCHANGED mvars
  BY <1>10, <1>t DEF mvars, vars, tache, partage, file, MTypes, EtapesVerrou, Unique
<1> QED BY <1>1, <1>2, <1>3, <1>4, <1>5, <1>6, <1>7, <1>8, <1>9, <1>10 DEF MNext, Verrou

(* every step keeps lock() and the wait queue in step *)
LEMMA LieuPas ==
    ASSUME MInv, [MNext]_mvars, NEW u \in Taches
    PROVE  LieuBon(u)'
<1>t. TypeOK /\ MTypes /\ ReveilleursBons
  BY DEF MInv, IInv
<1>u. LieuBon(u)
  BY DEF MInv
<1>1. ASSUME NEW t \in Taches, Demande(t) PROVE LieuBon(u)'
  BY <1>1, <1>t, <1>u
  DEF Demande, Cas, MVers, A, vars, tache, partage, file, TypeOK, MTypes, EtapesVerrou, LieuBon, SansAttente
<1>2. ASSUME NEW t \in Taches, Essaie(t) PROVE LieuBon(u)'
  BY <1>2, <1>t, <1>u
  DEF Essaie, Cas, MVers, A, vars, tache, partage, file, TypeOK, MTypes, EtapesVerrou, LieuBon, SansAttente
<1>3. ASSUME NEW t \in Taches, Billet(t) PROVE LieuBon(u)'
  BY <1>3, <1>t, <1>u
  DEF Billet, Ticket, A, Vers, MVers, partage, file, TypeOK, MTypes, EtapesVerrou, LieuBon, SansAttente
<1>4. ASSUME NEW t \in Taches, RelitVerrou(t) PROVE LieuBon(u)'
  BY <1>4, <1>t, <1>u
  DEF RelitVerrou, A, Revient, Vers, MVers, vars, tache, partage, file, TypeOK, MTypes, EtapesVerrou, LieuBon, SansAttente
<1>5. ASSUME NEW t \in Taches, Patiente(t) PROVE LieuBon(u)'
  <2>1. mx[t] = "attend" /\ Avance(t) /\ UNCHANGED mx /\ LieuBon(t)
    BY <1>5 DEF Patiente, MInv
  <2> QED BY <1>t, <1>u, <2>1, AvanceForme DEF LieuBon, TypeOK
<1>6. ASSUME NEW t \in Taches, Libere(t) PROVE LieuBon(u)'
  BY <1>6, <1>t, <1>u
  DEF Libere, A, MVers, vars, tache, partage, file, TypeOK, MTypes, EtapesVerrou, LieuBon, SansAttente
<1>7. ASSUME NEW t \in Taches, Eveille(t) PROVE LieuBon(u)'
  <2>1. UNCHANGED <<pc, voulue>> /\ pc[t] = "libre" /\ mx[t] \notin {"relit", "attend"}
    BY <1>7 DEF Eveille, A, Signale, ReveilAvance, LitDormeurs, LitCle, Reveille, RvPublie, tache
  <2>2. mx'[t] \notin {"relit", "attend"} /\ \A v \in Taches \ {t} : mx'[v] = mx[v]
    BY <1>7, <1>t DEF Eveille, MVers, MTypes
  <2> QED BY <1>u, <2>1, <2>2 DEF LieuBon
<1>8. ASSUME NEW t \in Taches, Autour(t) PROVE LieuBon(u)'
  BY <1>8, <1>t, <1>u
  DEF Autour, Cede, Passe, LibereCoeur, Repasse, Elit, ReveilSignal, Reveillee, Rv, tache, file, TypeOK, MTypes, EtapesVerrou, LieuBon, SansAttente
<1>9. CASE ReveilAvance(Bruit) /\ UNCHANGED <<locked, mx, prises>>
  BY <1>9, <1>t, <1>u
  DEF ReveilAvance, LitDormeurs, LitCle, Reveille, RvPublie, Repos, tache, file, TypeOK, MTypes, EtapesVerrou, LieuBon, SansAttente
<1>10. CASE UNCHANGED mvars
  BY <1>10, <1>t, <1>u DEF mvars, vars, tache, partage, file, TypeOK, MTypes, EtapesVerrou, LieuBon, SansAttente
<1> QED BY <1>1, <1>2, <1>3, <1>4, <1>5, <1>6, <1>7, <1>8, <1>9, <1>10 DEF MNext, Verrou

(* a scan keeps its queue and its kind until it ends *)
LEMMA BalayageForme ==
    ASSUME TypeOK, NEW r \in Reveilleurs, ReveilAvance(r)
    PROVE  /\ rv'[r] = Repos \/ (rv'[r].file = rv[r].file /\ rv'[r].tous = rv[r].tous)
           /\ rv[r].pc = "publie" /\ ~rv[r].tous => rv'[r] = Repos /\ UNCHANGED etat
           /\ UNCHANGED <<pc, voulue, ticket, generation, inscrits>>
<1>1. rv \in [Reveilleurs -> EtatsReveilleur]
  BY DEF TypeOK, EtatsReveilleur
<1>2. rv' = [rv EXCEPT ![r] = Repos] => rv'[r] = Repos
  BY <1>1
<1>3. Suivant(r) => rv'[r] = Repos \/ (rv'[r].file = rv[r].file /\ rv'[r].tous = rv[r].tous)
  BY <1>1 DEF Suivant, Rv
<1>4. ASSUME NEW p, VaA(r, p) PROVE rv'[r].file = rv[r].file /\ rv'[r].tous = rv[r].tous
  BY <1>1, <1>4 DEF VaA, Rv
<1>5. rv'[r] = Repos \/ (rv'[r].file = rv[r].file /\ rv'[r].tous = rv[r].tous)
  <2>1. rv' = [rv EXCEPT ![r] = Repos] \/ Suivant(r) \/ VaA(r, "balaye") \/ VaA(r, "cas") \/ VaA(r, "publie")
    BY DEF ReveilAvance, LitDormeurs, LitCle, Reveille, RvPublie
  <2> QED BY <1>2, <1>3, <1>4, <2>1
<1>6. rv[r].pc = "publie" /\ ~rv[r].tous => rv'[r] = Repos /\ UNCHANGED etat
  BY <1>1 DEF ReveilAvance, LitDormeurs, LitCle, Reveille, RvPublie
<1>7. UNCHANGED <<pc, voulue, ticket, generation, inscrits>>
  BY DEF ReveilAvance, LitDormeurs, LitCle, Reveille, RvPublie, tache, file
<1> QED BY <1>5, <1>6, <1>7

(* every step keeps the scans of the mutex to the drops of its guard *)
LEMMA ReveilleursPas ==
    ASSUME MInv, [MNext]_mvars
    PROVE  ReveilleursBons'
<1>t. TypeOK /\ MTypes /\ ReveilleursBons /\ Unique
  BY DEF MInv, IInv
<1>1. ASSUME NEW t \in Taches, Demande(t) PROVE ReveilleursBons'
  BY <1>1, <1>t
  DEF Demande, Cas, MVers, A, vars, tache, partage, file, MTypes, EtapesVerrou, ReveilleursBons
<1>2. ASSUME NEW t \in Taches, Essaie(t) PROVE ReveilleursBons'
  BY <1>2, <1>t
  DEF Essaie, Cas, MVers, A, vars, tache, partage, file, MTypes, EtapesVerrou, ReveilleursBons
<1>3. ASSUME NEW t \in Taches, Billet(t) PROVE ReveilleursBons'
  BY <1>3, <1>t
  DEF Billet, Ticket, A, Vers, MVers, partage, file, MTypes, EtapesVerrou, ReveilleursBons
<1>4. ASSUME NEW t \in Taches, RelitVerrou(t) PROVE ReveilleursBons'
  BY <1>4, <1>t
  DEF RelitVerrou, A, Revient, Vers, MVers, vars, tache, partage, file, MTypes, EtapesVerrou, ReveilleursBons
<1>5. ASSUME NEW t \in Taches, Patiente(t) PROVE ReveilleursBons'
  <2>1. UNCHANGED <<rv, mx>>
    BY <1>5, <1>t, AvanceForme DEF Patiente, MInv, LieuBon
  <2> QED BY <1>t, <2>1 DEF ReveilleursBons
<1>6. ASSUME NEW t \in Taches, Libere(t) PROVE ReveilleursBons'
  BY <1>6, <1>t
  DEF Libere, A, MVers, vars, tache, partage, file, MTypes, EtapesVerrou, ReveilleursBons
<1>7. ASSUME NEW t \in Taches, Eveille(t) PROVE ReveilleursBons'
  <2>1. Bruit # t /\ t \in Reveilleurs /\ Bruit \in Reveilleurs
    BY MutexAssumption
  <2>2. \A w \in Reveilleurs \ {t} : rv'[w] = rv[w]
    BY <1>7, <1>t, SeulR, <2>1 DEF Eveille, Signale, Rv, TypeOK
  <2>3. \A v \in Taches \ {t} : mx'[v] = mx[v] /\ v \in Reveilleurs
    BY <1>7, <1>t, MutexAssumption DEF Eveille, MVers, MTypes
  <2>4. rv'[t].pc # "repos" => rv'[t].file = Mutex /\ ~rv'[t].tous
    <3>1. CASE Signale(t, Mutex, FALSE)
      BY <1>t, <2>1, <3>1 DEF Signale, Rv, TypeOK
    <3>2. CASE mx[t] = "eveille" /\ ReveilAvance(t)
      BY <1>t, <2>1, <3>2, BalayageForme DEF ReveilleursBons, Repos
    <3> QED BY <1>7, <3>1, <3>2 DEF Eveille
  <2>5. mx'[t] = IF rv'[t].pc = "repos" THEN "hors" ELSE "eveille"
    BY <1>7, <1>t DEF Eveille, MVers, MTypes
  <2> QED BY <1>t, <2>1, <2>2, <2>3, <2>4, <2>5 DEF ReveilleursBons
<1>8. ASSUME NEW t \in Taches, Autour(t) PROVE ReveilleursBons'
  <2>1. CASE ReveilSignal(Bruit, t)
    <3>1. rv'[Bruit] = [pc |-> "publie", file |-> Nulle, tous |-> FALSE, i |-> t] /\ \A v \in Taches : rv'[v] = rv[v]
      BY <1>t, <2>1, MutexAssumption DEF ReveilSignal, Rv, TypeOK
    <3> QED BY <1>8, <1>t, <3>1 DEF Autour, ReveilleursBons
  <2>2. CASE Cede(t) \/ Passe(t) \/ Elit(t)
    BY <1>8, <1>t, <2>2 DEF Autour, Cede, Passe, LibereCoeur, Repasse, Elit, ReveilleursBons
  <2> QED BY <1>8, <2>1, <2>2 DEF Autour
<1>9. CASE ReveilAvance(Bruit) /\ UNCHANGED <<locked, mx, prises>>
  <2>1. Bruit \in Reveilleurs /\ rv[Bruit].pc # "repos"
    BY <1>9, MutexAssumption DEF ReveilAvance, LitDormeurs, LitCle, Reveille, RvPublie
  <2>2. rv'[Bruit] = Repos
    BY <1>9, <1>t, <2>1, BalayageForme DEF ReveilleursBons
  <2>3. \A v \in Taches : rv'[v] = rv[v]
    BY <1>9, <1>t, <2>1, SeulR, MutexAssumption
  <2> QED BY <1>9, <1>t, <2>2, <2>3 DEF ReveilleursBons, Repos
<1>10. CASE UNCHANGED mvars
  BY <1>10, <1>t DEF mvars, vars, tache, partage, file, MTypes, EtapesVerrou, ReveilleursBons
<1> QED BY <1>1, <1>2, <1>3, <1>4, <1>5, <1>6, <1>7, <1>8, <1>9, <1>10 DEF MNext, Verrou

(* every step keeps the ticket of a contender on the watch *)
LEMMA BilletPas ==
    ASSUME MInv, [MNext]_mvars, NEW u \in Taches
    PROVE  BilletBon(u)'
<1>t. TypeOK /\ MTypes /\ ReveilleursBons
  BY DEF MInv, IInv
<1>u. LieuBon(u) /\ BilletBon(u) /\ AttenteBonne(u) /\ Mutex \in Files /\ Mutex # Nulle
  BY MutexAssumption, ParkingAssumption DEF MInv, IInv, TachesBonnes
<1>1. ASSUME NEW t \in Taches, Demande(t) PROVE BilletBon(u)'
  BY <1>1, <1>t, <1>u
  DEF Demande, Cas, MVers, A, vars, tache, partage, file, TypeOK, MTypes, EtapesVerrou, BilletBon, LieuBon, Garde
<1>2. ASSUME NEW t \in Taches, Essaie(t) PROVE BilletBon(u)'
  BY <1>2, <1>t, <1>u
  DEF Essaie, Cas, MVers, A, vars, tache, partage, file, TypeOK, MTypes, EtapesVerrou, BilletBon, LieuBon, Garde
<1>3. ASSUME NEW t \in Taches, Billet(t) PROVE BilletBon(u)'
  BY <1>3, <1>t, <1>u
  DEF Billet, Ticket, A, Vers, MVers, partage, file, TypeOK, MTypes, EtapesVerrou, BilletBon, LieuBon, Garde
<1>4. ASSUME NEW t \in Taches, RelitVerrou(t) PROVE BilletBon(u)'
  BY <1>4, <1>t, <1>u
  DEF RelitVerrou, A, Revient, Vers, MVers, vars, tache, partage, file, TypeOK, MTypes, EtapesVerrou, BilletBon, LieuBon, Garde
<1>5. ASSUME NEW t \in Taches, Patiente(t) PROVE BilletBon(u)'
  <2>1. mx[t] = "attend" /\ Avance(t) /\ UNCHANGED <<mx, locked>> /\ LieuBon(t)
    BY <1>5 DEF Patiente, MInv
  <2> QED BY <1>t, <1>u, <2>1, AvanceForme DEF LieuBon, BilletBon, Garde
<1>6. ASSUME NEW t \in Taches, Libere(t) PROVE BilletBon(u)'
  BY <1>6, <1>t, <1>u
  DEF Libere, A, MVers, vars, tache, partage, file, TypeOK, MTypes, EtapesVerrou, BilletBon, LieuBon, Garde
<1>7. ASSUME NEW t \in Taches, Eveille(t) PROVE BilletBon(u)'
  <2>1. mx'[t] \in {"hors", "eveille"} /\ (\A v \in Taches \ {t} : mx'[v] = mx[v]) /\ UNCHANGED locked
    BY <1>7, <1>t DEF Eveille, MVers, MTypes
  <2>2. CASE mx[t] = "signale" /\ Signale(t, Mutex, FALSE)
    <3>1. generation'[Mutex] = generation[Mutex] + 1 /\ generation[Mutex] \in Nat /\ UNCHANGED <<pc, voulue, ticket>>
      BY <1>t, <1>u, <2>2 DEF Signale, TypeOK, tache
    <3>2. pc[u] \in {"ticket", "inscrit", "endort", "relit_condamnee", "relit"} => ticket[u] <= generation[Mutex]
      BY <1>u DEF AttenteBonne, LieuBon, SurFile
    <3> QED BY <1>t, <1>u, <2>1, <3>1, <3>2 DEF BilletBon, TypeOK
  <2>3. CASE mx[t] = "eveille" /\ ReveilAvance(t)
    BY <1>t, <1>u, <2>1, <2>3, BalayageForme, MutexAssumption DEF BilletBon, Garde
  <2> QED BY <1>7, <2>2, <2>3 DEF Eveille
<1>8. ASSUME NEW t \in Taches, Autour(t) PROVE BilletBon(u)'
  <2>1. UNCHANGED <<pc, ticket, generation, mx, locked>>
    BY <1>8 DEF Autour, Cede, Passe, LibereCoeur, Repasse, Elit, ReveilSignal, tache, file
  <2> QED BY <1>u, <2>1 DEF BilletBon, Garde
<1>9. CASE ReveilAvance(Bruit) /\ UNCHANGED <<locked, mx, prises>>
  BY <1>9, <1>t, <1>u, BalayageForme, MutexAssumption DEF BilletBon, Garde
<1>10. CASE UNCHANGED mvars
  BY <1>10, <1>t, <1>u DEF mvars, vars, tache, partage, file, TypeOK, MTypes, EtapesVerrou, BilletBon, LieuBon, Garde
<1> QED BY <1>1, <1>2, <1>3, <1>4, <1>5, <1>6, <1>7, <1>8, <1>9, <1>10 DEF MNext, Verrou

(* wake_one, one step: while u sleeps it is in front of the scan, or the   *)
(* scan has found a contender that is awake                                *)
LEMMA BalayageSommeil ==
    ASSUME MInv, NEW t \in Taches, mx[t] = "eveille", ReveilAvance(t), NEW u \in Taches, Dort(u)',
           mx'[t] \in {"hors", "eveille"}, \A v \in Taches \ {t} : mx'[v] = mx[v], UNCHANGED locked
    PROVE  \/ Garde'
           \/ \E r \in Taches : Sonnera(r, Mutex, u)'
           \/ \E v \in Taches : Reviendra(v)'
<1>t. TypeOK /\ MTypes /\ ReveilleursBons /\ Anterieur /\ Taches \subseteq Reveilleurs /\ Mutex \in Files
  BY MutexAssumption DEF MInv, IInv, TousInv
<1>u. SommeilBon(u) /\ AttenteBonne(u) /\ LieuBon(u) /\ Mutex # Nulle
  BY MutexAssumption, ParkingAssumption DEF MInv, IInv, TachesBonnes
<1>r. /\ rv[t].file = Mutex /\ ~rv[t].tous /\ rv[t].i \in Taches
      /\ UNCHANGED <<pc, voulue, ticket, generation, inscrits>>
  BY <1>t, BalayageForme, MouvementsType DEF ReveilleursBons
<1>1. UNCHANGED etat \/ Reveille(t)
  BY DEF ReveilAvance, LitDormeurs, LitCle, RvPublie, partage
<1>2. Dort(u) /\ \A v \in Taches : Dort(v)' => Dort(v)
  BY <1>t, <1>r, <1>1 DEF Dort, Reveille, Reveillee, TypeOK
<1>3. CASE Garde
  BY <1>3 DEF Garde
<1>4. CASE \E v \in Taches : Reviendra(v)
  BY <1>2, <1>4 DEF Reviendra
<1>5. ASSUME NEW r \in Taches, r # t, Sonnera(r, Mutex, u) PROVE Sonnera(r, Mutex, u)'
  <2>1. rv'[r] = rv[r]
    BY <1>t, <1>5, SeulR
  <2> QED BY <1>5, <1>r, <2>1 DEF Sonnera
<1>6. CASE Sonnera(t, Mutex, u)
  <2>1. CASE LitDormeurs(t)
    <3>1. u \in inscrits[Mutex]
      BY <1>u, <1>2 DEF Dort, AttenteBonne, LieuBon, SurFile, Gare, Region
    <3>2. rv'[t] = [pc |-> "balaye", file |-> Mutex, tous |-> rv[t].tous, i |-> rv[t].i] /\ rv[t].i <= u
      BY <1>t, <1>r, <2>1, <3>1, LitDormeursAvance
    <3> QED BY <3>2 DEF Sonnera
  <2>2. CASE LitCle(t)
    <3>1. cle[u] = Mutex /\ rv[t].i <= u
      BY <1>u, <1>2, <1>6, <2>2 DEF LitCle, Dort, AttenteBonne, LieuBon, Gare, Region, Sonnera
    <3>2. \/ rv'[t] = [pc |-> "cas", file |-> Mutex, tous |-> rv[t].tous, i |-> rv[t].i] /\ cle[rv[t].i] = Mutex
          \/ rv'[t] = [pc |-> "balaye", file |-> Mutex, tous |-> rv[t].tous, i |-> rv[t].i + 1] /\ rv[t].i + 1 <= u
      BY <1>t, <1>r, <2>2, <3>1, LitCleAvance
    <3>3. cle[rv[t].i] = Mutex => pc[rv[t].i] \in Region /\ voulue[rv[t].i].file = Mutex
      BY <1>r, <1>u DEF MInv, IInv, TachesBonnes, AttenteBonne
    <3> QED BY <1>r, <3>1, <3>2, <3>3 DEF Sonnera
  <2>3. CASE Reveille(t)
    <3>1. rv[t].i <= u /\ pc[rv[t].i] \in Region
      BY <1>6, <2>3 DEF Reveille, Sonnera
    <3>2. rv[t].i # u
      BY <1>t, <1>2, <2>3 DEF Reveille, Reveillee, Dort, TypeOK
    <3>3. \/ etat'[rv[t].i] = "Pret"
          \/ rv'[t] = [pc |-> "balaye", file |-> Mutex, tous |-> rv[t].tous, i |-> rv[t].i + 1] /\ rv[t].i + 1 <= u
      BY <1>t, <1>r, <2>3, <3>1, <3>2, ReveilleAvance
    <3>4. mx[rv[t].i] = "attend" /\ rv[t].i # t
      <4>1. LieuBon(rv[t].i)
        BY <1>r DEF MInv
      <4> QED BY <3>1, <4>1 DEF LieuBon, Region, Gare
    <3>5. CASE etat'[rv[t].i] = "Pret"
      BY <1>r, <3>4, <3>5 DEF Reviendra, Dort
    <3>6. CASE rv'[t] = [pc |-> "balaye", file |-> Mutex, tous |-> rv[t].tous, i |-> rv[t].i + 1] /\ rv[t].i + 1 <= u
      BY <3>6 DEF Sonnera
    <3> QED BY <3>3, <3>5, <3>6
  <2>4. CASE RvPublie(t)
    BY <1>6, <1>r, <2>4 DEF RvPublie, Sonnera
  <2> QED BY <2>1, <2>2, <2>3, <2>4 DEF ReveilAvance
<1> QED BY <1>u, <1>2, <1>3, <1>4, <1>5, <1>6 DEF SommeilBon

(* every step keeps what a sleeper counts on *)
LEMMA SommeilPas ==
    ASSUME MInv, [MNext]_mvars, NEW u \in Taches
    PROVE  SommeilBon(u)'
<1>t. TypeOK /\ MTypes /\ ReveilleursBons /\ Anterieur /\ Taches \subseteq Reveilleurs /\ Mutex \in Files
  BY MutexAssumption DEF MInv, IInv, TousInv
<1>u. LieuBon(u) /\ SommeilBon(u) /\ AttenteBonne(u)
  BY DEF MInv, IInv, TachesBonnes
<1>z. Mutex # Nulle
  BY MutexAssumption, ParkingAssumption
<1>g. Garde' => SommeilBon(u)'
  BY DEF SommeilBon
<1>1. ASSUME NEW t \in Taches, Demande(t) PROVE SommeilBon(u)'
  BY <1>1, <1>g DEF Demande, Cas, Garde
<1>2. ASSUME NEW t \in Taches, Essaie(t) PROVE SommeilBon(u)'
  BY <1>2, <1>g DEF Essaie, Cas, Garde
<1>3. ASSUME NEW t \in Taches, Billet(t) PROVE SommeilBon(u)'
  <2>1. Reviendra(t)'
    BY <1>3, <1>t DEF Billet, Ticket, A, Vers, MVers, Reviendra, Dort, MTypes, TypeOK
  <2> QED BY <2>1 DEF SommeilBon
<1>4. ASSUME NEW t \in Taches, RelitVerrou(t) PROVE SommeilBon(u)'
  <2>1. pc'[t] \in {"libre", "ticket"} /\ mx'[t] \in {"essaie", "attend"}
    BY <1>4, <1>t DEF RelitVerrou, Revient, A, Vers, MVers, MTypes, TypeOK, vars, tache
  <2> QED BY <2>1 DEF SommeilBon, Reviendra, Dort
<1>5. ASSUME NEW t \in Taches, Patiente(t) PROVE SommeilBon(u)'
  <2>1. mx[t] = "attend" /\ Avance(t) /\ UNCHANGED <<mx, locked>> /\ LieuBon(t) /\ BilletBon(t)
    BY <1>5 DEF Patiente, MInv
  <2>2. CASE Dort(t)'
    <3>1. pc[t] = "relit" /\ generation[Mutex] = ticket[t] /\ ticket[t] \in Nat
      BY <1>t, <2>1, <2>2, AvanceForme DEF LieuBon, TypeOK
    <3>2. Garde
      BY <2>1, <3>1 DEF BilletBon
    <3> QED BY <1>g, <2>1, <3>2 DEF Garde
  <2>3. CASE ~Dort(t)'
    BY <2>1, <2>3 DEF SommeilBon, Reviendra
  <2> QED BY <2>2, <2>3
<1>6. ASSUME NEW t \in Taches, Libere(t) PROVE SommeilBon(u)'
  BY <1>6, <1>g, <1>t DEF Libere, MVers, Garde, MTypes
<1>7. ASSUME NEW t \in Taches, Eveille(t) PROVE SommeilBon(u)'
  <2>1. mx'[t] \in {"hors", "eveille"} /\ (\A v \in Taches \ {t} : mx'[v] = mx[v]) /\ UNCHANGED locked
    BY <1>7, <1>t DEF Eveille, MVers, MTypes
  <2>2. CASE mx[t] = "signale" /\ Signale(t, Mutex, FALSE)
    <3>1. Sonnera(t, Mutex, u)'
      BY <1>t, <2>2 DEF Signale, Rv, Sonnera, TypeOK
    <3> QED BY <3>1 DEF SommeilBon
  <2>3. CASE mx[t] = "eveille" /\ ReveilAvance(t)
    BY <1>t, <1>u, <2>1, <2>3, BalayageSommeil DEF SommeilBon
  <2> QED BY <1>7, <2>2, <2>3 DEF Eveille
<1>8. ASSUME NEW t \in Taches, Autour(t) PROVE SommeilBon(u)'
  <2>1. CASE ReveilSignal(Bruit, t)
    <3>1. /\ etat' = [etat EXCEPT ![t] = "Pret"] /\ UNCHANGED <<pc, voulue, locked, mx>>
          /\ \A r \in Taches : rv'[r] = rv[r]
      BY <1>8, <1>t, <2>1, MutexAssumption DEF Autour, ReveilSignal, Reveillee, Rv, tache, TypeOK
    <3>2. (Dort(u)' => Dort(u)) /\ (Garde => Garde')
      BY <1>t, <3>1 DEF Dort, Garde, TypeOK
    <3>3. \A v \in Taches : Reviendra(v) => Reviendra(v)'
      BY <1>t, <3>1 DEF Reviendra, Dort, TypeOK
    <3>4. \A r \in Taches : Sonnera(r, Mutex, u) => Sonnera(r, Mutex, u)'
      BY <3>1 DEF Sonnera
    <3> QED BY <1>u, <3>2, <3>3, <3>4 DEF SommeilBon
  <2>2. CASE Cede(t) \/ Passe(t) \/ Elit(t)
    <3>1. UNCHANGED <<etat, pc, voulue, locked, mx, rv>>
      BY <1>8, <2>2 DEF Autour, Cede, Passe, LibereCoeur, Repasse, Elit, tache
    <3> QED BY <1>u, <3>1 DEF SommeilBon, Dort, Garde, Reviendra, Sonnera
  <2> QED BY <1>8, <2>1, <2>2 DEF Autour
<1>9. CASE ReveilAvance(Bruit) /\ UNCHANGED <<locked, mx, prises>>
  <2>1. Bruit \in Reveilleurs /\ rv[Bruit].pc # "repos"
    BY <1>9, MutexAssumption DEF ReveilAvance, LitDormeurs, LitCle, Reveille, RvPublie
  <2>2. UNCHANGED <<etat, pc, voulue, locked, mx>>
    BY <1>9, <1>t, <2>1, BalayageForme DEF ReveilleursBons
  <2>3. \A v \in Taches : rv'[v] = rv[v]
    BY <1>9, <1>t, <2>1, SeulR, MutexAssumption
  <2> QED BY <1>u, <2>2, <2>3 DEF SommeilBon, Dort, Garde, Reviendra, Sonnera
<1>10. CASE UNCHANGED mvars
  BY <1>10, <1>t, <1>u DEF mvars, vars, tache, partage, file, TypeOK, MTypes, SommeilBon, Dort, Garde, Reviendra, Sonnera
<1> QED BY <1>1, <1>2, <1>3, <1>4, <1>5, <1>6, <1>7, <1>8, <1>9, <1>10 DEF MNext, Verrou

-----------------------------------------------------------------------------
(* The results *)

(* MInv holds in every reachable state *)
LEMMA InductionMutex == MSpec => []MInv
<1>1. MInit => MInv
  <2> SUFFICES ASSUME MInit PROVE MInv
    OBVIOUS
  <2>1. IInv
    BY InitInv DEF MInit
  <2>2. MTypes /\ Unique
    BY DEF MInit, MTypes, Unique, EtapesVerrou
  <2>3. ReveilleursBons
    BY MutexAssumption DEF MInit, Init, ReveilleursBons, Repos
  <2>4. \A t \in Taches : LieuBon(t) /\ BilletBon(t) /\ SommeilBon(t)
    BY DEF MInit, Init, LieuBon, BilletBon, SommeilBon, Dort
  <2> QED BY <2>1, <2>2, <2>3, <2>4 DEF MInv
<1>2. MInv /\ [MNext]_mvars => MInv'
  <2> SUFFICES ASSUME MInv, [MNext]_mvars PROVE MInv'
    OBVIOUS
  <2>1. IInv'
    BY MNextPas, PasInv DEF MInv, IInv
  <2>2. MTypes' /\ ReveilleursBons' /\ Unique'
    BY MTypesPas, ReveilleursPas, UniquePas
  <2>3. \A t \in Taches : LieuBon(t)' /\ BilletBon(t)' /\ SommeilBon(t)'
    BY LieuPas, BilletPas, SommeilPas
  <2> QED BY <2>1, <2>2, <2>3 DEF MInv
<1> QED BY <1>1, <1>2, PTL DEF MSpec

(* sleep_mutex.rs: one task at a time holds the guard, whatever the number *)
(* of contenders and whoever wakes them.                                   *)
THEOREM GardeExclusive == MSpec => []Exclusion
<1>1. MInv => Exclusion
  BY DEF MInv, Unique, Exclusion
<1> QED BY <1>1, InductionMutex, PTL

(* sleep_mutex.rs, lock() and the drop of the guard: nobody is left asleep *)
(* in front of a free mutex, although a wake_one may be spent on a task    *)
(* that a signal has already woken.                                        *)
THEOREM PersonneNAttendEnVain == MSpec => []PasDAttenteVaine
<1>1. MInv => PasDAttenteVaine
  <2> SUFFICES ASSUME MInv, NEW t \in Taches, Parquee(t)
               PROVE  \/ locked
                      \/ \E x \in Taches : mx[x] \in {"signale", "eveille"}
                      \/ \E u \in Taches : mx[u] \in {"essaie", "billet", "relit", "attend"} /\ ~Parquee(u)
    BY DEF PasDAttenteVaine
  <2>1. \A u \in Taches : Parquee(u) => Dort(u)
    BY ParqueeDort, MutexAssumption DEF MInv, Dort
  <2>2. SommeilBon(t) /\ Dort(t)
    BY <2>1 DEF MInv
  <2>3. \A r \in Taches : Sonnera(r, Mutex, t) => mx[r] = "eveille"
    BY DEF MInv, ReveilleursBons, Sonnera
  <2> QED BY <2>1, <2>2, <2>3 DEF SommeilBon, Garde, Reviendra
<1> QED BY <1>1, InductionMutex, PTL

=============================================================================
