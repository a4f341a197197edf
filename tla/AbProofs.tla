------------------------------ MODULE AbProofs ------------------------------
(***************************************************************************)
(* What holds of AbUpdate for every number of images, processes, chunks,   *)
(* attempts, failures and power losses: the state keeps its shape, no      *)
(* order of calls writes a boot record that decode() would refuse, the     *)
(* record that persiste() acknowledged is never forgotten, the counter of  *)
(* unconfirmed boots bounds them, and the slots hold what the record says. *)
(*                                                                         *)
(* The argument of the second part: sante_ok and the installation never    *)
(* write META at the same time although they share no lock, so the copy    *)
(* that persiste() overwrites is still the older one when the write        *)
(* reaches the device; hence a write adds only its own record to those a   *)
(* power loss may leave, a flush removes all but the one the loader reads, *)
(* and a power loss chooses one.                                           *)
(***************************************************************************)
EXTENDS AbUpdate, FiniteSetTheorems, TLAPS

(* a record that decode() accepts: the active slot is Bon *)
Valide(e) == e \in Enregistrement /\ e.slots[e.actif].etat = "Bon"

-----------------------------------------------------------------------------
(* The transitions of ab.rs *)

(* Slot::autre is the other slot *)
LEMMA AutreType == \A s \in Slots : Autre(s) \in Slots /\ Autre(s) # s
BY DEF Autre, Slots

(* decode() accepts exactly the well-formed records whose active slot is   *)
(* Good                                                                    *)
LEMMA DecodableType ==
    ASSUME NEW c \in Copies
    PROVE  Decodable(c) <=> Valide(c)
BY CopieAssumption DEF Decodable, Valide, Copies

(* suivant() returns a well-formed record *)
LEMMA AvecSlotType ==
    ASSUME NEW e \in Enregistrement, NEW s \in Slots, NEW info \in InfoSlot
    PROVE  /\ AvecSlot(e, s, info) \in Enregistrement
           /\ AvecSlot(e, s, info).actif = e.actif
           /\ AvecSlot(e, s, info).slots = [e.slots EXCEPT ![s] = info]
<1>1. /\ e.sequence \in Nat /\ e.actif \in Slots /\ e.slots \in [Slots -> InfoSlot]
  BY DEF Enregistrement
<1>2. [e.slots EXCEPT ![s] = info] \in [Slots -> InfoSlot] /\ e.sequence + 1 \in Nat
  BY <1>1
<1> QED BY <1>1, <1>2 DEF AvecSlot, Enregistrement

(* suivant() on another slot than the active one keeps the record valid *)
LEMMA AutreSlotValide ==
    ASSUME NEW e, Valide(e), NEW s \in Slots, s # e.actif, NEW info \in InfoSlot
    PROVE  Valide(AvecSlot(e, s, info))
<1>1. e \in Enregistrement /\ e.actif \in Slots /\ e.slots \in [Slots -> InfoSlot]
  BY DEF Valide, Enregistrement
<1>2. [e.slots EXCEPT ![s] = info][e.actif] = e.slots[e.actif]
  BY <1>1
<1> QED BY <1>1, <1>2, AvecSlotType DEF Valide

(* the description of a slot is well formed *)
LEMMA InfoType ==
    ASSUME NEW e \in Enregistrement, NEW s \in Slots, NEW etat \in Etats, NEW essais \in 0..EssaisMax
    PROVE  /\ [etat |-> etat, essais |-> essais, image |-> e.slots[s].image] \in InfoSlot
           /\ e.slots[s] \in InfoSlot
<1>1. e.slots[s] \in InfoSlot
  BY DEF Enregistrement
<1> QED BY <1>1 DEF InfoSlot

(* commence_installation() keeps the record valid *)
LEMMA CommenceValide ==
    ASSUME NEW e, Valide(e), NEW cible \in Slots, NEW enCours, PeutCommencer(e, cible, enCours)
    PROVE  Valide(CommenceInstallation(e, cible))
<1>1. SlotVide \in InfoSlot
  BY CoreAssumption DEF SlotVide, InfoSlot, Etats
<1> QED BY <1>1, AutreSlotValide DEF PeutCommencer, CommenceInstallation

(* marque_candidat() keeps the record valid *)
LEMMA MarqueValide ==
    ASSUME NEW e, Valide(e), NEW cible \in Slots, NEW image \in Images, NEW essais \in 1..EssaisMax,
           cible # e.actif
    PROVE  Valide(MarqueCandidat(e, cible, image, essais))
<1>1. [etat |-> "Candidat", essais |-> essais, image |-> image] \in InfoSlot
  BY CoreAssumption DEF InfoSlot, Etats
<1> QED BY <1>1, AutreSlotValide DEF MarqueCandidat

(* choisit_boot() keeps the record valid and chooses a slot *)
LEMMA ChoisitValide ==
    ASSUME NEW e, Valide(e)
    PROVE  /\ Valide(ChoisitBoot(e).apres)
           /\ ChoisitBoot(e).slot \in Slots
<1> DEFINE autre == Autre(e.actif)
           info  == e.slots[autre]
<1>1. e \in Enregistrement /\ e.actif \in Slots
  BY DEF Valide, Enregistrement
<1>2. autre \in Slots /\ autre # e.actif
  BY <1>1, AutreType
<1>3. info \in InfoSlot /\ info.essais \in 0..EssaisMax
  BY <1>1, <1>2 DEF Enregistrement, InfoSlot
<1>4. Valide(AvecEtat(e, autre, "Mauvais", 0))
  <2>1. [etat |-> "Mauvais", essais |-> 0, image |-> e.slots[autre].image] \in InfoSlot
    BY <1>1, <1>2, InfoType, CoreAssumption DEF Etats
  <2> QED BY <2>1, <1>2, AutreSlotValide DEF AvecEtat
<1>5. ASSUME info.essais > 0
      PROVE  Valide(AvecEtat(e, autre, "Candidat", info.essais - 1))
  <2>1. info.essais - 1 \in 0..EssaisMax
    BY <1>3, <1>5, CoreAssumption
  <2>2. [etat |-> "Candidat", essais |-> info.essais - 1, image |-> e.slots[autre].image] \in InfoSlot
    BY <1>1, <1>2, <2>1, InfoType DEF Etats
  <2> QED BY <2>2, <1>2, AutreSlotValide DEF AvecEtat
<1> QED BY <1>1, <1>2, <1>4, <1>5 DEF ChoisitBoot

(* sante_ok() keeps the record valid: the new active slot is Good *)
LEMMA SanteValide ==
    ASSUME NEW e, Valide(e), NEW s \in Slots
    PROVE  Valide(SanteOk(e, s))
<1>1. e \in Enregistrement
  BY DEF Valide
<1> DEFINE info == [etat |-> "Bon", essais |-> 0, image |-> e.slots[s].image]
<1>2. info \in InfoSlot
  BY <1>1, InfoType, CoreAssumption DEF Etats
<1>3. AvecSlot(e, s, info) \in Enregistrement /\ AvecSlot(e, s, info).slots = [e.slots EXCEPT ![s] = info]
  BY <1>1, <1>2, AvecSlotType
<1>4. [AvecSlot(e, s, info) EXCEPT !.actif = s] \in Enregistrement
  BY <1>3 DEF Enregistrement
<1>5. [e.slots EXCEPT ![s] = info][s] = info
  BY <1>1 DEF Enregistrement
<1>6. [AvecSlot(e, s, info) EXCEPT !.actif = s].slots[s] = info
  BY <1>3, <1>5 DEF Enregistrement
<1>7. [AvecSlot(e, s, info) EXCEPT !.actif = s].actif = s
  BY <1>3 DEF Enregistrement
<1> HIDE DEF info
<1>8. Valide([AvecSlot(e, s, info) EXCEPT !.actif = s])
  BY <1>4, <1>6, <1>7 DEF Valide, info
<1> QED BY <1>8 DEF SanteOk, AvecEtat, info

(* revient() keeps the record valid: it only goes back to a Good slot *)
LEMMA RevientValide ==
    ASSUME NEW e, Valide(e), PeutRevenir(e)
    PROVE  Valide(Revient(e))
<1>1. e \in Enregistrement /\ e.actif \in Slots /\ Autre(e.actif) \in Slots
  BY AutreType DEF Valide, Enregistrement
<1> QED BY <1>1 DEF Revient, PeutRevenir, Valide, Enregistrement

(* the record of a freshly delivered machine is valid *)
LEMMA InitialValide == Valide(Initial("A", ImageInitiale)) /\ Initial("A", ImageInitiale).sequence = 1
BY CoreAssumption, UpdateAssumption
   DEF Initial, Valide, Enregistrement, InfoSlot, Slots, Etats, SlotVide


-----------------------------------------------------------------------------
(* The inductive invariant.  A record reaches the disk only through n, the *)
(* record a call in flight carries, so validity must hold of n as well.    *)

DisqueInv ==
    /\ copie \in [0..1 -> Copies]
    /\ copieApres \in [0..1 -> SUBSET Copies]
    /\ compteur \in Nat /\ compteurApres \subseteq Nat
    /\ contenu \in [Slots -> [Morceaux -> ImagesLues]]
    /\ contenuApres \in [Slots -> [Morceaux -> SUBSET ImagesLues]]
    /\ CopiesValides

AppelBon(f, a) ==
    /\ a \in Appel
    /\ a.n = Illisible \/ Valide(a.n)
    /\ a.pc \in {"persiste", "ecrit", "vidange", "relit", "persiste_ok"} => a.n # Illisible
    /\ f = "chargeur" /\ a.pc # "repos" => a.n # Illisible

FilInv == /\ fil \in [Fils -> Appel]
          /\ \A f \in Fils : AppelBon(f, fil[f])

ResteInv == /\ phase \in {"chargeur", "noyau", "recovery", "arret"}
            /\ passage \in Passage \cup {Aucun}
            /\ session \in Installation \cup {Aucun}

IInv == DisqueInv /\ FilInv /\ ResteInv

(* the inductive invariant implies what the theorems state *)
LEMMA InvImplique == IInv => TypeOK /\ CopiesValides
<1> SUFFICES ASSUME IInv PROVE TypeOK /\ CopiesValides
  OBVIOUS
<1>1. \A f \in Fils : /\ fil[f].n \in Copies
                      /\ fil[f].n # Illisible => fil[f].n \in Enregistrement
  BY DEF IInv, FilInv, AppelBon, Valide, Appel
<1>2. "chargeur" \in Fils
  BY DEF Fils
<1>3. \A f \in Fils : fil[f].pc \in {"persiste", "ecrit", "vidange", "relit", "persiste_ok"}
                      => fil[f].n \in Enregistrement
  BY <1>1 DEF IInv, FilInv, AppelBon
<1>4. fil["chargeur"].pc # "repos" => fil["chargeur"].n \in Enregistrement
  BY <1>1, <1>2 DEF IInv, FilInv, AppelBon
<1> QED BY <1>3, <1>4 DEF IInv, DisqueInv, FilInv, ResteInv, TypeOK

-----------------------------------------------------------------------------
(* The disk *)

(* selectionne() returns a valid record whenever it returns one *)
LEMMA LuValide ==
    ASSUME DisqueInv, Lisible
    PROVE  Valide(Lu)
<1>1. copie[0] \in Copies /\ copie[1] \in Copies
  BY DEF DisqueInv
<1>2. Decodable(copie[0]) \/ Decodable(copie[1])
  BY DEF Lisible, AucunEnregistrement
<1>3. Decodable(Lu)
  BY <1>2 DEF Lu, Selectionne
<1>4. Lu \in Copies
  BY <1>1 DEF Lu, Selectionne
<1> QED BY <1>3, <1>4, DecodableType

(* the write of a valid record keeps the disk invariant *)
LEMMA EcritMetaInv ==
    ASSUME DisqueInv, NEW i \in 0..1, NEW e, Valide(e), EcritBlocMeta(i, e)
    PROVE  DisqueInv'
<1>1. e \in Copies /\ Decodable(e)
  <2>1. e \in Copies
    BY DEF Valide, Copies
  <2> QED BY <2>1, DecodableType
<1>2. copie' \in [0..1 -> Copies] /\ copieApres' \in [0..1 -> SUBSET Copies]
  BY <1>1 DEF DisqueInv, EcritBlocMeta
<1>3. \A j \in 0..1 : copie'[j] \in {copie[j], e} /\ copieApres'[j] \subseteq copieApres[j] \cup {e}
  BY DEF DisqueInv, EcritBlocMeta
<1>4. CopiesValides'
  BY <1>1, <1>3 DEF DisqueInv, CopiesValides, Decodable
<1> QED BY <1>2, <1>4 DEF DisqueInv, EcritBlocMeta

(* the write of the counter keeps the disk invariant *)
LEMMA EcritCompteurInv ==
    ASSUME DisqueInv, NEW n \in Nat, EcritBlocCompteur(n)
    PROVE  DisqueInv'
BY DEF DisqueInv, EcritBlocCompteur, CopiesValides

(* the write of an image chunk keeps the disk invariant *)
LEMMA EcritMorceauInv ==
    ASSUME DisqueInv, NEW s \in Slots, NEW k \in Morceaux, NEW img \in Images, EcritMorceau(s, k, img)
    PROVE  DisqueInv'
<1>1. img \in ImagesLues
  BY DEF ImagesLues
<1>2. contenu' \in [Slots -> [Morceaux -> ImagesLues]]
  <2>1. [contenu[s] EXCEPT ![k] = img] \in [Morceaux -> ImagesLues]
    BY <1>1 DEF DisqueInv
  <2> QED BY <2>1 DEF DisqueInv, EcritMorceau
<1>3. contenuApres' \in [Slots -> [Morceaux -> SUBSET ImagesLues]]
  <2> DEFINE ligne == [contenuApres[s] EXCEPT ![k] = contenuApres[s][k] \cup {img}]
  <2>1. ligne \in [Morceaux -> SUBSET ImagesLues]
    BY <1>1 DEF DisqueInv
  <2>2. contenuApres' = [contenuApres EXCEPT ![s] = ligne]
    BY DEF EcritMorceau
  <2> HIDE DEF ligne
  <2> QED BY <2>1, <2>2 DEF DisqueInv
<1> QED BY <1>2, <1>3 DEF DisqueInv, EcritMorceau, CopiesValides

(* a flush keeps the disk invariant *)
LEMMA VidangeInv ==
    ASSUME DisqueInv, Vidange
    PROVE  DisqueInv'
<1>1. copieApres' \in [0..1 -> SUBSET Copies] /\ compteurApres' \subseteq Nat
  BY DEF DisqueInv, Vidange
<1>2. contenuApres' \in [Slots -> [Morceaux -> SUBSET ImagesLues]]
  BY DEF DisqueInv, Vidange
<1>3. CopiesValides'
  BY DEF DisqueInv, Vidange, CopiesValides
<1> QED BY <1>1, <1>2, <1>3 DEF DisqueInv, Vidange

(* a step that leaves the disk alone keeps the disk invariant *)
LEMMA InchangeInv ==
    ASSUME DisqueInv, UNCHANGED disque
    PROVE  DisqueInv'
BY DEF DisqueInv, disque, CopiesValides

-----------------------------------------------------------------------------
(* The calls in flight *)

(* a call that has not started is well formed *)
LEMMA ReposBon == \A f \in Fils : AppelBon(f, Repos)
BY CopieAssumption DEF AppelBon, Repos, Demande, Appel, Etapes, Copies, Slots, Raisons

(* a step that replaces one call by a well-formed one keeps FilInv *)
LEMMA MajFil ==
    ASSUME FilInv, NEW f \in Fils, NEW a, AppelBon(f, a), fil' = [fil EXCEPT ![f] = a]
    PROVE  FilInv'
<1>1. a \in Appel
  BY DEF AppelBon
<1>2. fil' \in [Fils -> Appel]
  BY <1>1 DEF FilInv
<1>3. \A g \in Fils : AppelBon(g, fil'[g])
  BY DEF FilInv
<1> QED BY <1>2, <1>3 DEF FilInv

(* a step that only moves one call keeps FilInv *)
LEMMA MajPc ==
    ASSUME FilInv, NEW f \in Fils, NEW pc \in Etapes, Vers(f, pc),
           fil[f].n # Illisible \/ (f # "chargeur" /\ pc \notin {"persiste", "ecrit", "vidange", "relit", "persiste_ok"})
    PROVE  FilInv'
<1> DEFINE a == [fil[f] EXCEPT !.pc = pc]
<1>1. AppelBon(f, fil[f]) /\ fil[f] \in Appel
  BY DEF FilInv
<1>2. /\ a \in Appel /\ a.n = fil[f].n /\ a.pc = pc
  BY <1>1 DEF Appel
<1>3. AppelBon(f, a)
  BY <1>1, <1>2 DEF AppelBon
<1>4. fil' = [fil EXCEPT ![f] = a]
  BY DEF Vers
<1> QED BY <1>3, <1>4, MajFil

(* a call that starts with a valid record is well formed *)
LEMMA NouvelAppel ==
    ASSUME NEW f \in Fils, NEW pc \in Etapes, NEW n, Valide(n),
           NEW inst \in Installation \cup {Aucun}
    PROVE  AppelBon(f, Demande(pc, n, inst))
<1>1. n \in Copies /\ n # Illisible
  BY CopieAssumption DEF Valide, Copies
<1>2. Demande(pc, n, inst) \in Appel /\ Demande(pc, n, inst).n = n
  BY <1>1 DEF Demande, Appel, Slots, Raisons
<1> QED BY <1>1, <1>2 DEF AppelBon

(* one request of persiste() or ecrit_compteur() *)
LEMMA EntreeSortieInv ==
    ASSUME IInv, NEW f \in Fils, EntreeSortie(f)
    PROVE  IInv'
<1> USE DEF IInv
<1>0. /\ AppelBon(f, fil[f]) /\ fil[f] \in Appel
      /\ fil[f].i \in 0..1 /\ fil[f].val \in Nat
  BY DEF FilInv, Appel
<1>1. ResteInv'
  BY DEF EntreeSortie, ResteInv
<1>2. \A i \in 0..1 : Decodable(copie[i]) \in BOOLEAN
  BY DEF Decodable
<1>3. fil[f].pc \in {"persiste", "ecrit", "vidange", "relit", "persiste_ok"}
        => fil[f].n # Illisible /\ Valide(fil[f].n)
  BY <1>0 DEF AppelBon
<1>4. f = "chargeur" /\ fil[f].pc # "repos" => fil[f].n # Illisible
  BY <1>0 DEF AppelBon
<1>5. CASE LitCopies(f)
  <2>1. DisqueInv'
    BY <1>5, InchangeInv DEF LitCopies, DisqueInchange
  <2>2. CASE Vers(f, "echec")
    BY <2>1, <2>2, <1>1, <1>3, <1>5, MajPc DEF LitCopies, Etapes
  <2>3. CASE fil' = [fil EXCEPT ![f].pc = "ecrit", ![f].i = CopieAEcrire(copie[0], copie[1])]
    <3> DEFINE i == CopieAEcrire(copie[0], copie[1])
               a == [fil[f] EXCEPT !.pc = "ecrit", !.i = i]
    <3>1. i \in 0..1
      BY DEF CopieAEcrire
    <3> HIDE DEF i
    <3>2. fil[f].n # Illisible /\ Valide(fil[f].n)
      BY <1>3, <1>5 DEF LitCopies
    <3>3. a \in Appel /\ a.n = fil[f].n /\ a.pc = "ecrit"
      BY <1>0, <3>1 DEF Appel, Etapes
    <3>4. AppelBon(f, a)
      BY <3>2, <3>3 DEF AppelBon
    <3>5. fil' = [fil EXCEPT ![f] = a]
      BY <2>3, <1>0 DEF FilInv, i
    <3> QED BY <3>4, <3>5, <2>1, <1>1, MajFil
  <2> QED BY <1>5, <2>2, <2>3 DEF LitCopies
<1>6. CASE EcritCopie(f)
  <2>1. fil[f].n # Illisible /\ Valide(fil[f].n)
    BY <1>3, <1>6 DEF EcritCopie
  <2>2. DisqueInv'
    <3>1. CASE EcritBlocMeta(fil[f].i, fil[f].n)
      BY <3>1, <2>1, <1>0, EcritMetaInv
    <3>2. CASE DisqueInchange
      BY <3>2, InchangeInv DEF DisqueInchange
    <3> QED BY <3>1, <3>2, <1>6 DEF EcritCopie
  <2>3. FilInv'
    BY <1>6, <2>1, MajPc DEF EcritCopie, Etapes
  <2> QED BY <2>2, <2>3, <1>1
<1>7. CASE VideCopie(f)
  <2>1. fil[f].n # Illisible
    BY <1>3, <1>7 DEF VideCopie
  <2>2. DisqueInv'
    BY <1>7, VidangeInv, InchangeInv DEF VideCopie, DisqueInchange
  <2>3. FilInv'
    BY <1>7, <2>1, MajPc DEF VideCopie, Etapes
  <2> QED BY <2>2, <2>3, <1>1
<1>8. CASE RelitCopie(f)
  <2>1. fil[f].n # Illisible
    BY <1>3, <1>8 DEF RelitCopie
  <2>2. DisqueInv'
    BY <1>8, InchangeInv DEF RelitCopie, DisqueInchange
  <2>3. FilInv'
    BY <1>8, <2>1, MajPc DEF RelitCopie, Etapes
  <2> QED BY <2>2, <2>3, <1>1
<1>9. CASE EcritCompteur(f)
  <2>1. f = "chargeur" => fil[f].n # Illisible
    BY <1>4, <1>9 DEF EcritCompteur
  <2>2. DisqueInv'
    BY <1>9, <1>0, EcritCompteurInv, InchangeInv DEF EcritCompteur, DisqueInchange
  <2>3. FilInv'
    BY <1>9, <2>1, MajPc DEF EcritCompteur, Etapes
  <2> QED BY <2>2, <2>3, <1>1
<1>10. CASE VideCompteur(f)
  <2>1. f = "chargeur" => fil[f].n # Illisible
    BY <1>4, <1>10 DEF VideCompteur
  <2>2. DisqueInv'
    BY <1>10, VidangeInv, InchangeInv DEF VideCompteur, DisqueInchange
  <2>3. FilInv'
    BY <1>10, <2>1, MajPc DEF VideCompteur, Etapes
  <2> QED BY <2>2, <2>3, <1>1
<1> QED BY <1>5, <1>6, <1>7, <1>8, <1>9, <1>10 DEF EntreeSortie

(* what most kernel and console steps do: one call changes, the disk and   *)
(* the handoff do not                                                      *)
LEMMA AppelSeul ==
    ASSUME IInv, NEW f \in Fils, NEW a, AppelBon(f, a), fil' = [fil EXCEPT ![f] = a],
           DisqueInchange, UNCHANGED <<phase, passage, session>>
    PROVE  IInv'
<1>1. DisqueInv'
  BY InchangeInv DEF IInv, DisqueInchange
<1>2. FilInv'
  BY MajFil DEF IInv
<1>3. ResteInv'
  BY DEF IInv, ResteInv
<1> QED BY <1>1, <1>2, <1>3 DEF IInv

(* entering recovery keeps the invariant *)
LEMMA RecoveryInv ==
    ASSUME IInv, NEW raison \in Raisons, NEW slot \in Slots, NEW seq \in Nat,
           EntreRecovery(raison, slot, seq), DisqueInchange, UNCHANGED session
    PROVE  IInv'
<1>1. "chargeur" \in Fils /\ AppelBon("chargeur", Repos)
  BY ReposBon DEF Fils
<1>2. FilInv'
  BY <1>1, MajFil DEF IInv, EntreRecovery
<1>3. DisqueInv'
  BY InchangeInv DEF IInv, DisqueInchange
<1>4. [slot |-> slot, raison |-> raison, sequence_meta |-> seq] \in Passage
  BY DEF Passage
<1>5. ResteInv'
  BY <1>4 DEF IInv, ResteInv, EntreRecovery
<1> QED BY <1>2, <1>3, <1>5 DEF IInv

(* every step of the loader's decision keeps the invariant *)
LEMMA ChargeurInv ==
    ASSUME IInv, Chargeur
    PROVE  IInv'
<1>0. "chargeur" \in Fils
  BY DEF Fils
<1> DEFINE c == fil["chargeur"]
<1>1. /\ c \in Appel /\ AppelBon("chargeur", c)
      /\ c.slot \in Slots /\ c.raison \in Raisons /\ c.seq \in Nat
  BY <1>0 DEF IInv, FilInv, Appel
<1>2. c.pc # "repos" => /\ c.n # Illisible /\ Valide(c.n) /\ c.n \in Copies
                       /\ c.n.actif \in Slots /\ c.n.sequence \in Nat
  BY <1>1 DEF AppelBon, Valide, Enregistrement, Copies
<1>3. Lisible => Valide(Lu) /\ Lu.actif \in Slots /\ Lu.sequence \in Nat
  BY LuValide DEF IInv, Valide, Enregistrement
<1> HIDE DEF c
<1>4. CASE DecideRecovery
  <2>1. {"RecoveryRequise", "RecoveryDemandee"} \subseteq Raisons /\ "A" \in Slots /\ 0 \in Nat
    BY DEF Raisons, RaisonsRecovery, Slots
  <2>2. CASE Lisible /\ EntreRecovery("RecoveryDemandee", Lu.actif, Lu.sequence)
    BY <1>3, <1>4, <2>1, <2>2, RecoveryInv DEF DecideRecovery
  <2>3. CASE \E r \in {"RecoveryDemandee", "RecoveryRequise"} : EntreRecovery(r, "A", 0)
    BY <1>4, <2>1, <2>3, RecoveryInv DEF DecideRecovery
  <2> QED BY <1>4, <2>2, <2>3 DEF DecideRecovery
<1>5. CASE Choisit
  <2> DEFINE ch == ChoisitBoot(Lu)
             pc == IF ch.apres = Lu THEN "decide" ELSE "persiste"
             a  == [c EXCEPT !.pc = pc, !.n = ch.apres, !.slot = ch.slot, !.raison = "Actif",
                             !.seq = Lu.sequence]
  <2>1. /\ Valide(ch.apres) /\ ch.slot \in Slots /\ Lu.sequence \in Nat
    BY <1>3, <1>5, ChoisitValide DEF Choisit
  <2>2. ch.apres \in Copies /\ ch.apres # Illisible
    BY <2>1, CopieAssumption DEF Valide, Copies
  <2>3. fil' = [fil EXCEPT !["chargeur"] = a]
    BY <1>5, Zenon DEF Choisit, c
  <2>4. pc \in Etapes /\ "Actif" \in Raisons
    BY DEF Etapes, Raisons
  <2> HIDE DEF pc, ch
  <2>5. a \in Appel /\ a.n = ch.apres
    BY <1>1, <2>1, <2>2, <2>4 DEF Appel
  <2>6. AppelBon("chargeur", a)
    BY <2>1, <2>2, <2>5 DEF AppelBon
  <2> QED BY <1>0, <1>5, <2>3, <2>6, AppelSeul DEF Choisit
<1>6. CASE Raisonne
  <2> DEFINE candidat == c.n.actif # c.slot
             a1 == [c EXCEPT !.pc = "decide", !.seq = c.n.sequence,
                             !.raison = IF candidat THEN "CandidatEssaiConsomme"
                                                    ELSE "RollbackCandidatEpuise"]
             a2 == [c EXCEPT !.pc = "decide", !.slot = c.n.actif,
                             !.raison = IF candidat THEN "PersistanceImpossibleReplieActif"
                                                    ELSE "RollbackNonPersiste"]
  <2>1. c.pc # "repos"
    BY <1>6 DEF Raisonne, c
  <2>2. AppelBon("chargeur", a1) /\ AppelBon("chargeur", a2)
    <3>1. a1 \in Appel /\ a1.n = c.n
      BY <1>1, <1>2, <2>1 DEF Appel, Etapes, Raisons
    <3>2. a2 \in Appel /\ a2.n = c.n
      BY <1>1, <1>2, <2>1 DEF Appel, Etapes, Raisons
    <3> QED BY <1>2, <2>1, <3>1, <3>2 DEF AppelBon
  <2>3. fil' = [fil EXCEPT !["chargeur"] = IF c.pc = "persiste_ok" THEN a1 ELSE a2]
    BY <1>6, Zenon DEF Raisonne, c
  <2> HIDE DEF a1, a2
  <2>4. CASE c.pc = "persiste_ok"
    BY <1>0, <1>6, <2>2, <2>3, <2>4, AppelSeul DEF Raisonne
  <2>5. CASE c.pc # "persiste_ok"
    BY <1>0, <1>6, <2>2, <2>3, <2>5, AppelSeul DEF Raisonne
  <2> QED BY <2>4, <2>5
<1>7. CASE Compte
  <2>1. PICK lu \in {compteur, 0} :
          /\ IF VersRecovery(lu, c.raison)
             THEN EntreRecovery("RecoveryEchecsRepetes", c.n.actif, c.seq)
             ELSE /\ fil' = [fil EXCEPT !["chargeur"] =
                       [@ EXCEPT !.pc = IF CompteurAvantBoot(lu, c.raison) = lu
                                        THEN "compte_ok" ELSE "compte",
                                 !.val = CompteurAvantBoot(lu, c.raison)]]
                  /\ UNCHANGED <<phase, passage>>
    BY <1>7 DEF Compte, c
  <2>2. c.pc # "repos" /\ lu \in Nat
    BY <1>7, <2>1 DEF Compte, c, IInv, DisqueInv
  <2>3. CASE VersRecovery(lu, c.raison)
    <3>1. "RecoveryEchecsRepetes" \in Raisons
      BY DEF Raisons, RaisonsRecovery
    <3> QED BY <1>1, <1>2, <1>7, <2>1, <2>2, <2>3, <3>1, RecoveryInv DEF Compte
  <2>4. CASE ~VersRecovery(lu, c.raison)
    <3> DEFINE v == CompteurAvantBoot(lu, c.raison)
               pc == IF v = lu THEN "compte_ok" ELSE "compte"
               a == [c EXCEPT !.pc = pc, !.val = v]
    <3>1. v \in Nat /\ pc \in Etapes
      BY <2>2 DEF CompteurAvantBoot, Etapes
    <3>2. fil' = [fil EXCEPT !["chargeur"] = a] /\ UNCHANGED <<phase, passage>>
      BY <2>1, <2>4, Zenon DEF c
    <3> HIDE DEF v, pc
    <3>3. a \in Appel /\ a.n = c.n
      BY <1>1, <3>1 DEF Appel
    <3>4. AppelBon("chargeur", a)
      BY <1>2, <2>2, <3>3 DEF AppelBon
    <3> QED BY <1>0, <1>7, <3>2, <3>4, AppelSeul DEF Compte
  <2> QED BY <2>3, <2>4
<1>8. CASE Saute
  <2>1. c.pc # "repos" /\ "RecoveryRequise" \in Raisons
    BY <1>8 DEF Saute, c, Raisons, RaisonsRecovery
  <2>2. CASE c.slot \in Presentes
    <3>1. FilInv'
      BY <1>0, <1>8, <2>2, ReposBon, MajFil DEF Saute, IInv, c
    <3>2. DisqueInv'
      BY <1>8, InchangeInv DEF Saute, IInv, DisqueInchange
    <3>3. [slot |-> c.slot, raison |-> c.raison, sequence_meta |-> c.seq] \in Passage
      BY <1>1 DEF Passage
    <3>4. ResteInv'
      BY <1>8, <2>2, <3>3 DEF Saute, IInv, ResteInv, c
    <3> QED BY <3>1, <3>2, <3>4 DEF IInv
  <2>3. CASE c.slot \notin Presentes
    BY <1>1, <1>2, <1>8, <2>1, <2>3, RecoveryInv DEF Saute, c
  <2> QED BY <2>2, <2>3
<1> QED BY <1>4, <1>5, <1>6, <1>7, <1>8 DEF Chargeur

(* a call that returns keeps the invariant *)
LEMMA RendInv ==
    ASSUME IInv, NEW f \in Fils, fil' = [fil EXCEPT ![f] = Repos], DisqueInchange,
           UNCHANGED <<phase, passage>>, session' \in Installation \cup {Aucun}
    PROVE  IInv'
<1>1. FilInv'
  BY ReposBon, MajFil DEF IInv
<1>2. DisqueInv'
  BY InchangeInv DEF IInv, DisqueInchange
<1>3. ResteInv'
  BY DEF IInv, ResteInv
<1> QED BY <1>1, <1>2, <1>3 DEF IInv

(* the reset of the counter is a well-formed call *)
LEMMA RemiseBonne == \A f \in Fils \ {"chargeur"} : AppelBon(f, Demande("compte", Illisible, Aucun))
BY CopieAssumption DEF AppelBon, Demande, Appel, Etapes, Copies, Slots, Raisons

(* every step of commit_sante() keeps the invariant *)
LEMMA SanteInv ==
    ASSUME IInv, Sante
    PROVE  IInv'
<1>0. "sante" \in Fils \ {"chargeur"} /\ "compte" \in Etapes
  BY DEF Fils, Etapes
<1>1. CASE DeclareSain
  <2>1. CASE fil' = [fil EXCEPT !["sante"] = Demande("compte", Illisible, Aucun)]
    BY <1>0, <1>1, <2>1, RemiseBonne, AppelSeul DEF DeclareSain
  <2>2. CASE fil' = [fil EXCEPT !["sante"] = Demande("persiste", SanteOk(Lu, passage.slot), Aucun)]
    <3>1. passage.slot \in Slots
      BY <1>1 DEF DeclareSain, NoyauPret, IInv, ResteInv, Passage
    <3>2. Valide(SanteOk(Lu, passage.slot))
      BY <1>1, <3>1, LuValide, SanteValide DEF DeclareSain, IInv
    <3>3. AppelBon("sante", Demande("persiste", SanteOk(Lu, passage.slot), Aucun))
      BY <1>0, <3>2, NouvelAppel DEF Etapes
    <3> QED BY <1>0, <1>1, <2>2, <3>3, AppelSeul DEF DeclareSain
  <2> QED BY <1>1, <2>1, <2>2 DEF DeclareSain
<1>2. CASE SantePersiste
  <2>1. FilInv'
    BY <1>0, <1>2, MajPc DEF SantePersiste, IInv
  <2>2. DisqueInv' /\ ResteInv'
    BY <1>2, InchangeInv DEF SantePersiste, IInv, DisqueInchange, ResteInv
  <2> QED BY <2>1, <2>2 DEF IInv
<1>3. CASE SanteRend
  BY <1>0, <1>3, RendInv DEF SanteRend, IInv, ResteInv
<1> QED BY <1>1, <1>2, <1>3 DEF Sante

(* every step of the recovery console keeps the invariant *)
LEMMA ConsoleInv ==
    ASSUME IInv, Console
    PROVE  IInv'
<1>0. "console" \in Fils \ {"chargeur"} /\ "compte" \in Etapes
  BY DEF Fils, Etapes
<1>1. CASE RollbackManuel
  <2>1. Valide(Revient(Lu))
    BY <1>1, LuValide, RevientValide DEF RollbackManuel, IInv
  <2>2. AppelBon("console", Demande("persiste", Revient(Lu), Aucun))
    BY <1>0, <2>1, NouvelAppel DEF Etapes
  <2> QED BY <1>0, <1>1, <2>2, AppelSeul DEF RollbackManuel
<1>2. CASE RollbackPersiste
  <2>1. FilInv'
    BY <1>0, <1>2, MajPc DEF RollbackPersiste, IInv
  <2>2. DisqueInv' /\ ResteInv'
    BY <1>2, InchangeInv DEF RollbackPersiste, IInv, DisqueInchange, ResteInv
  <2> QED BY <2>1, <2>2 DEF IInv
<1>3. CASE RemetCompteur
  BY <1>0, <1>3, RemiseBonne, AppelSeul DEF RemetCompteur
<1>4. CASE ConsoleRend
  BY <1>0, <1>4, RendInv DEF ConsoleRend, IInv, ResteInv
<1> QED BY <1>1, <1>2, <1>3, <1>4 DEF Console

(* every step of the installation calls keeps the invariant *)
LEMMA InstalleInv ==
    ASSUME IInv, Installe
    PROVE  IInv'
<1>0. "installe" \in Fils /\ "persiste" \in Etapes
  BY DEF Fils, Etapes
<1>s. session # Aucun => /\ session \in Installation /\ session.cible \in Slots
                        /\ session.attendu \in Images /\ session.essais \in 1..EssaisMax
                        /\ session.relue \in Seq(ImagesLues)
  BY DEF IInv, ResteInv, Installation
<1>1. ASSUME NEW pid \in Pids, NEW cible \in Slots, NEW image \in Images, NEW essais \in 1..EssaisMax,
             Commence(pid, cible, image, essais)
      PROVE  IInv'
  <2> DEFINE inst == NouvelleSession(pid, cible, image, essais)
             n    == CommenceInstallation(Lu, cible)
  <2>1. Valide(n)
    BY <1>1, LuValide, CommenceValide DEF Commence, IInv
  <2>2. inst \in Installation
    BY DEF NouvelleSession, Installation
  <2>3. AppelBon("installe", Demande("persiste", n, inst))
    BY <1>0, <2>1, <2>2, NouvelAppel
  <2> QED BY <1>0, <1>1, <2>3, AppelSeul DEF Commence
<1>2. ASSUME NEW pid \in Pids, NEW k \in Morceaux, NEW image \in Images, Ecrit(pid, k, image)
      PROVE  IInv'
  <2>1. session # Aucun
    BY <1>2 DEF Ecrit, EnSession
  <2>2. DisqueInv'
    BY <1>2, <1>s, <2>1, EcritMorceauInv, InchangeInv DEF Ecrit, IInv, DisqueInchange
  <2>3. session' \in Installation
    <3>1. session' = [session EXCEPT !.relue = <<>>]
      BY <1>2 DEF Ecrit
    <3>2. <<>> \in Seq(ImagesLues)
      OBVIOUS
    <3> QED BY <1>s, <2>1, <3>1, <3>2 DEF Installation
  <2>4. FilInv' /\ ResteInv'
    BY <1>2, <2>3 DEF Ecrit, IInv, FilInv, ResteInv
  <2> QED BY <2>2, <2>4 DEF IInv
<1>3. ASSUME NEW pid \in Pids, Verifie(pid)
      PROVE  IInv'
  <2>1. session # Aucun
    BY <1>3 DEF Verifie, EnSession
  <2>2. DisqueInv'
    BY <1>3, VidangeInv, InchangeInv DEF Verifie, IInv, DisqueInchange
  <2>3. session' \in Installation
    <3>1. Len(session.relue) \in Nat /\ Len(session.relue) + 1 \in Morceaux
      BY <1>3, <1>s, <2>1, UpdateAssumption DEF Verifie, Morceaux
    <3>2. contenu[session.cible][Len(session.relue) + 1] \in ImagesLues
      BY <1>s, <2>1, <3>1 DEF IInv, DisqueInv
    <3>3. Append(session.relue, contenu[session.cible][Len(session.relue) + 1]) \in Seq(ImagesLues)
      BY <1>s, <2>1, <3>2
    <3> QED BY <1>3, <1>s, <2>1, <3>3 DEF Verifie, Installation
  <2>4. FilInv' /\ ResteInv'
    BY <1>3, <2>3 DEF Verifie, IInv, FilInv, ResteInv
  <2> QED BY <2>2, <2>4 DEF IInv
<1>4. ASSUME NEW pid \in Pids, Termine(pid)
      PROVE  IInv'
  <2>1. session # Aucun
    BY <1>4 DEF Termine, EnSession
  <2> DEFINE n == MarqueCandidat(Lu, session.cible, session.attendu, session.essais)
  <2>2. Valide(n)
    BY <1>4, <1>s, <2>1, LuValide, MarqueValide DEF Termine, PeutMarquer, IInv
  <2>3. AppelBon("installe", Demande("persiste", n, Aucun))
    BY <1>0, <2>2, NouvelAppel
  <2>4. FilInv'
    BY <1>0, <1>4, <2>3, MajFil DEF Termine, IInv
  <2>5. session' \in Installation
    BY <1>4, <1>s, <2>1 DEF Termine, Installation
  <2>6. DisqueInv' /\ ResteInv'
    BY <1>4, <2>5, InchangeInv DEF Termine, IInv, DisqueInchange, ResteInv
  <2> QED BY <2>4, <2>6 DEF IInv
<1>5. CASE DebutSession
  <2>1. fil["installe"].inst \in Installation
    BY <1>0, <1>5 DEF DebutSession, IInv, FilInv, Appel
  <2> QED BY <1>0, <1>5, <2>1, RendInv DEF DebutSession
<1>6. CASE FinSession
  BY <1>0, <1>6, RendInv DEF FinSession
<1>7. CASE InstalleEchoue
  BY <1>0, <1>7, RendInv DEF InstalleEchoue, IInv, ResteInv
<1> QED BY <1>1, <1>2, <1>3, <1>4, <1>5, <1>6, <1>7 DEF Installe

-----------------------------------------------------------------------------
(* Reset and power loss: what is left of a META block is what it held, one *)
(* of the unflushed writes, or a block that does not decode.               *)

LEMMA EnvironnementInv ==
    ASSUME IInv, Redemarre \/ Coupure
    PROVE  IInv'
<1>1. RamPerdue => FilInv' /\ ResteInv'
  BY ReposBon DEF RamPerdue, FilInv, ResteInv, AppelBon
<1>2. CASE Redemarre
  BY <1>1, <1>2, InchangeInv DEF Redemarre, IInv, DisqueInchange
<1>3. CASE Coupure
  <2>1. PICK c0 \in Issues(copieApres[0], Illisible), c1 \in Issues(copieApres[1], Illisible),
             cpt \in Issues(compteurApres, 0) :
          /\ copie' = [i \in 0..1 |-> IF i = 0 THEN c0 ELSE c1]
          /\ copieApres' = [i \in 0..1 |-> {copie'[i]}]
          /\ compteur' = cpt /\ compteurApres' = {cpt}
    BY <1>3 DEF Coupure
  <2>2. /\ c0 \in copieApres[0] \cup {Illisible}
        /\ c1 \in copieApres[1] \cup {Illisible}
        /\ cpt \in compteurApres \cup {0}
    BY <2>1 DEF Issues
  <2>3. /\ c0 \in Copies /\ c1 \in Copies /\ cpt \in Nat
        /\ c0 = Illisible \/ Decodable(c0)
        /\ c1 = Illisible \/ Decodable(c1)
    BY <2>2 DEF IInv, DisqueInv, CopiesValides, Copies
  <2>4. /\ copie' \in [0..1 -> Copies] /\ copieApres' \in [0..1 -> SUBSET Copies]
        /\ compteur' \in Nat /\ compteurApres' \subseteq Nat
    BY <2>1, <2>3
  <2>5. CopiesValides'
    BY <2>1, <2>3 DEF CopiesValides, Decodable
  <2>6. contenu' \in [Slots -> [Morceaux -> ImagesLues]]
    BY <1>3 DEF Coupure
  <2>7. contenuApres' \in [Slots -> [Morceaux -> SUBSET ImagesLues]]
    BY <1>3, <2>6 DEF Coupure
  <2>8. DisqueInv'
    BY <2>4, <2>5, <2>6, <2>7 DEF DisqueInv
  <2> QED BY <1>1, <1>3, <2>8 DEF Coupure, IInv
<1> QED BY <1>2, <1>3

(* the delivered machine satisfies the invariant *)
LEMMA InitInv == Init => IInv
<1> SUFFICES ASSUME Init PROVE IInv
  OBVIOUS
<1>1. Initial("A", ImageInitiale) \in Copies /\ Decodable(Initial("A", ImageInitiale))
  <2>1. Initial("A", ImageInitiale) \in Copies
    BY InitialValide DEF Valide, Copies
  <2> QED BY <2>1, InitialValide, DecodableType
<1>2. /\ copie \in [0..1 -> Copies] /\ copieApres \in [0..1 -> SUBSET Copies] /\ CopiesValides
  BY <1>1 DEF Init, CopiesValides
<1>3. /\ contenu \in [Slots -> [Morceaux -> ImagesLues]]
      /\ contenuApres \in [Slots -> [Morceaux -> SUBSET ImagesLues]]
  BY UpdateAssumption DEF Init, ImagesLues, ImagePleine
<1>4. FilInv
  BY ReposBon DEF Init, FilInv, AppelBon
<1> QED BY <1>2, <1>3, <1>4 DEF Init, IInv, DisqueInv, ResteInv

(* every step keeps the invariant *)
LEMMA NextInv == IInv /\ [Next]_vars => IInv'
<1> SUFFICES ASSUME IInv, [Next]_vars PROVE IInv'
  OBVIOUS
<1>1. CASE Next
  BY <1>1, ChargeurInv, SanteInv, InstalleInv, ConsoleInv, EntreeSortieInv, EnvironnementInv DEF Next
<1>2. CASE UNCHANGED vars
  <2>1. DisqueInv'
    BY <1>2, InchangeInv DEF IInv, vars
  <2>2. FilInv' /\ ResteInv'
    BY <1>2 DEF IInv, FilInv, ResteInv, vars
  <2> QED BY <2>1, <2>2 DEF IInv
<1> QED BY <1>1, <1>2

(* The state of the update keeps its shape: every call in flight carries a *)
(* well-formed record, session and handoff (loader ab.rs, update/mod.rs).  *)
THEOREM TypeCorrect == Spec => []TypeOK
<1>1. Spec => []IInv
  BY InitInv, NextInv, PTL DEF Spec
<1> QED BY <1>1, InvImplique, PTL

(* No interleaving of the loader, the health commit, the installation and  *)
(* the console, with any I/O failure or power loss, writes a META record   *)
(* that decode() (ab.rs:246-267) refuses for its active slot.              *)
THEOREM EnregistrementsValides == Spec => []CopiesValides
<1>1. Spec => []IInv
  BY InitInv, NextInv, PTL DEF Spec
<1> QED BY <1>1, InvImplique, PTL

-----------------------------------------------------------------------------
(* What a power loss may leave of the record *)

(* every record that a META block may hold after a power loss *)
Sur == (copieApres[0] \cup copieApres[1]) \ {Illisible}

(* what the loader makes of two blocks *)
Resultat(c0, c1) == IF AucunEnregistrement(c0, c1) THEN Illisible ELSE Selectionne(c0, c1)

(* a read returns one of the values that may survive *)
ApresInv == \A i \in 0..1 : copie[i] \in copieApres[i] /\ IsFiniteSet(copieApres[i])

(* each call runs in one phase of the machine *)
PhaseInv ==
    /\ fil["chargeur"].pc # "repos" => phase = "chargeur"
    /\ fil["sante"].pc # "repos" => phase = "noyau"
    /\ fil["installe"].pc # "repos" => phase = "noyau"
    /\ fil["console"].pc # "repos" => phase = "recovery"
    /\ session # Aucun => phase = "noyau"

(* the record the device returns is the newest of all *)
RecentInv == Lisible => \A c \in Sur : c.sequence <= Lu.sequence

(* one record per sequence number *)
EgauxInv == \A c, d \in Sur : c.sequence = d.sequence => c = d

(* A call that is going to write holds the successor of the current        *)
(* record, in the copy that is not it; once it wrote, and flushed, its     *)
(* copy holds its record durably or another call replaced it.              *)
EcrivainBon(f) ==
    /\ fil[f].pc \in {"persiste", "ecrit"} => Lisible /\ fil[f].n.sequence = Lu.sequence + 1
    /\ fil[f].pc = "ecrit" => Lu = copie[1 - fil[f].i]
    /\ fil[f].pc \in {"vidange", "relit"} => Lisible /\ fil[f].n.sequence <= Lu.sequence
    /\ (fil[f].pc = "relit" /\ copie[fil[f].i] = fil[f].n) => copieApres[fil[f].i] = {fil[f].n}

(* An installation runs only while the running slot is the active one, a   *)
(* promotion only while it is not: the two never write META together.      *)
SerieInv ==
    /\ (session # Aucun \/ fil["installe"].pc # "repos")
          => passage # Aucun /\ Lisible /\ Lu.actif = passage.slot
    /\ fil["installe"].pc \in {"persiste", "ecrit"} => fil["installe"].n.actif = passage.slot
    /\ fil["sante"].pc \in {"persiste", "ecrit"}
          => passage # Aucun /\ Lisible /\ Lu.actif # passage.slot

MetaInv == ApresInv /\ RecentInv /\ EgauxInv

DurInv == /\ MetaInv /\ PhaseInv /\ SerieInv
          /\ \A f \in Fils : EcrivainBon(f)
          /\ accuse \in Nat /\ AccuseDurable

-----------------------------------------------------------------------------
(* The two copies *)

(* a block that holds a valid record decodes, Illisible does not *)
LEMMA Decode ==
    ASSUME NEW c, c = Illisible \/ Valide(c)
    PROVE  Decodable(c) <=> c # Illisible
BY CopieAssumption DEF Decodable, Valide

(* what the loader makes of two blocks that are valid or unreadable *)
LEMMA Selection ==
    ASSUME NEW c0, NEW c1, c0 = Illisible \/ Valide(c0), c1 = Illisible \/ Valide(c1)
    PROVE  /\ AucunEnregistrement(c0, c1) <=> (c0 = Illisible /\ c1 = Illisible)
           /\ (c0 # Illisible /\ c1 = Illisible) => Selectionne(c0, c1) = c0 /\ CopieAEcrire(c0, c1) = 1
           /\ (c0 = Illisible /\ c1 # Illisible) => Selectionne(c0, c1) = c1 /\ CopieAEcrire(c0, c1) = 0
           /\ (c0 # Illisible /\ c1 # Illisible)
                => /\ Selectionne(c0, c1) = (IF c1.sequence > c0.sequence THEN c1 ELSE c0)
                   /\ CopieAEcrire(c0, c1) = (IF c0.sequence <= c1.sequence THEN 0 ELSE 1)
           /\ Resultat(c0, c1) \in {c0, c1}
           /\ Resultat(c0, c1) = Illisible <=> (c0 = Illisible /\ c1 = Illisible)
<1>1. (Decodable(c0) <=> c0 # Illisible) /\ (Decodable(c1) <=> c1 # Illisible)
  BY Decode
<1>2. AucunEnregistrement(c0, c1) <=> (c0 = Illisible /\ c1 = Illisible)
  BY <1>1 DEF AucunEnregistrement
<1>3. (c0 # Illisible /\ c1 = Illisible) => Selectionne(c0, c1) = c0 /\ CopieAEcrire(c0, c1) = 1
  BY <1>1 DEF Selectionne, CopieAEcrire
<1>4. (c0 = Illisible /\ c1 # Illisible) => Selectionne(c0, c1) = c1 /\ CopieAEcrire(c0, c1) = 0
  BY <1>1 DEF Selectionne, CopieAEcrire
<1>5. (c0 # Illisible /\ c1 # Illisible)
         => /\ Selectionne(c0, c1) = (IF c1.sequence > c0.sequence THEN c1 ELSE c0)
            /\ CopieAEcrire(c0, c1) = (IF c0.sequence <= c1.sequence THEN 0 ELSE 1)
  BY <1>1 DEF Selectionne, CopieAEcrire
<1>6. Resultat(c0, c1) \in {c0, c1} /\ (Resultat(c0, c1) = Illisible <=> (c0 = Illisible /\ c1 = Illisible))
  BY <1>2, <1>3, <1>4, <1>5 DEF Resultat
<1> QED BY <1>2, <1>3, <1>4, <1>5, <1>6

(* the loader takes the newest of two blocks *)
LEMMA Maximum ==
    ASSUME NEW c0, NEW c1, c0 = Illisible \/ Valide(c0), c1 = Illisible \/ Valide(c1)
    PROVE  /\ c0 # Illisible => c0.sequence <= Resultat(c0, c1).sequence
           /\ c1 # Illisible => c1.sequence <= Resultat(c0, c1).sequence
<1>1. (c0 # Illisible => c0.sequence \in Nat) /\ (c1 # Illisible => c1.sequence \in Nat)
  BY DEF Valide, Enregistrement
<1>2. CASE c0 # Illisible /\ c1 # Illisible
  BY <1>1, <1>2, Selection DEF Resultat
<1>3. CASE c0 = Illisible \/ c1 = Illisible
  BY <1>1, <1>3, Selection DEF Resultat
<1> QED BY <1>2, <1>3

(* the blocks of the disk are valid or unreadable *)
LEMMA BlocsValides ==
    ASSUME DisqueInv
    PROVE  /\ \A i \in 0..1 : copie[i] = Illisible \/ Valide(copie[i])
           /\ \A i \in 0..1 : \A c \in copieApres[i] : c = Illisible \/ Valide(c)
           /\ \A c \in Sur : Valide(c) /\ c.sequence \in Nat /\ c.actif \in Slots
           /\ Lisible <=> (copie[0] # Illisible \/ copie[1] # Illisible)
           /\ Lisible => Lu = Resultat(copie[0], copie[1]) /\ Valide(Lu) /\ Lu.sequence \in Nat
                         /\ Lu.actif \in Slots /\ Lu # Illisible
           /\ ~Lisible => Resultat(copie[0], copie[1]) = Illisible
<1>1. \A i \in 0..1 : copie[i] \in Copies /\ copieApres[i] \subseteq Copies
  BY DEF DisqueInv
<1>2. \A i \in 0..1 : copie[i] = Illisible \/ Valide(copie[i])
  BY <1>1, DecodableType DEF DisqueInv, CopiesValides
<1>3. \A i \in 0..1 : \A c \in copieApres[i] : c = Illisible \/ Valide(c)
  BY <1>1, DecodableType DEF DisqueInv, CopiesValides
<1>4. \A c \in Sur : Valide(c) /\ c.sequence \in Nat /\ c.actif \in Slots
  BY <1>3 DEF Sur, Valide, Enregistrement
<1>5. Lisible <=> (copie[0] # Illisible \/ copie[1] # Illisible)
  BY <1>2, Selection DEF Lisible
<1>6. Lisible => Valide(Lu) /\ Lu.sequence \in Nat /\ Lu.actif \in Slots /\ Lu # Illisible
  BY LuValide, CopieAssumption DEF Valide, Enregistrement
<1>7. Lisible => Lu = Resultat(copie[0], copie[1])
  BY DEF Lisible, Lu, Resultat
<1>8. ~Lisible => Resultat(copie[0], copie[1]) = Illisible
  BY DEF Lisible, Resultat
<1> QED BY <1>2, <1>3, <1>4, <1>5, <1>6, <1>7, <1>8

(* the copy that persiste() overwrites is not the current record *)
LEMMA CopieChoisie ==
    ASSUME DisqueInv, MetaInv, Lisible
    PROVE  /\ CopieAEcrire(copie[0], copie[1]) \in 0..1
           /\ Lu = copie[1 - CopieAEcrire(copie[0], copie[1])]
<1>1. /\ copie[0] = Illisible \/ (Valide(copie[0]) /\ copie[0].sequence \in Nat)
      /\ copie[1] = Illisible \/ (Valide(copie[1]) /\ copie[1].sequence \in Nat)
  BY BlocsValides DEF Valide, Enregistrement
<1>2. CASE copie[0] # Illisible /\ copie[1] # Illisible
  <2>1. copie[0] \in Sur /\ copie[1] \in Sur
    BY <1>2 DEF MetaInv, ApresInv, Sur
  <2>2. copie[0].sequence = copie[1].sequence => copie[0] = copie[1]
    BY <2>1 DEF MetaInv, EgauxInv
  <2>3. /\ Lu = (IF copie[1].sequence > copie[0].sequence THEN copie[1] ELSE copie[0])
        /\ CopieAEcrire(copie[0], copie[1]) = (IF copie[0].sequence <= copie[1].sequence THEN 0 ELSE 1)
    BY <1>1, <1>2, Selection DEF Lu
  <2>4. copie[0].sequence \in Nat /\ copie[1].sequence \in Nat
    BY <1>1, <1>2
  <2>5. CASE copie[0].sequence <= copie[1].sequence
    <3>1. CopieAEcrire(copie[0], copie[1]) = 0
      BY <2>3, <2>5
    <3>2. Lu = copie[1]
      BY <2>2, <2>3, <2>4, <2>5
    <3> QED BY <3>1, <3>2
  <2>6. CASE ~(copie[0].sequence <= copie[1].sequence)
    <3>1. CopieAEcrire(copie[0], copie[1]) = 1
      BY <2>3, <2>6
    <3>2. Lu = copie[0]
      BY <2>3, <2>4, <2>6
    <3> QED BY <3>1, <3>2
  <2> QED BY <2>5, <2>6
<1>3. CASE copie[0] = Illisible \/ copie[1] = Illisible
  BY <1>1, <1>3, BlocsValides, Selection DEF Lu
<1> QED BY <1>2, <1>3

-----------------------------------------------------------------------------
(* What a power loss may leave *)

(* a block keeps one of its values, or is torn when it has several *)
LEMMA IssuesBornes ==
    ASSUME NEW S, NEW d
    PROVE  S \subseteq Issues(S, d) /\ Issues(S, d) \subseteq S \cup {d}
BY DEF Issues

(* a block that was flushed survives *)
LEMMA IssuesUn ==
    ASSUME NEW x, NEW d
    PROVE  Issues({x}, d) = {x}
<1>1. Cardinality({x}) = 1
  BY FS_Singleton
<1> QED BY <1>1 DEF Issues

(* a disk that does not tear sectors keeps one of the values written *)
LEMMA IssuesEntieres ==
    ASSUME NEW S, NEW d, ~Dechirable
    PROVE  Issues(S, d) = S
BY DEF Issues

(* the records a power loss may leave, block by block *)
LEMMA PossiblesDe ==
    ASSUME ApresInv, NEW e
    PROVE  e \in EnregistrementsPossibles <=>
              \E c0 \in Issues(copieApres[0], Illisible), c1 \in Issues(copieApres[1], Illisible) :
                 e = Resultat(c0, c1)
<1>1. /\ Issues(copieApres[0], Illisible) \cup {copie[0]} = Issues(copieApres[0], Illisible)
      /\ Issues(copieApres[1], Illisible) \cup {copie[1]} = Issues(copieApres[1], Illisible)
  BY IssuesBornes DEF ApresInv
<1> QED BY <1>1 DEF EnregistrementsPossibles, Resultat

(* the same after a step *)
LEMMA PossiblesApresDe ==
    ASSUME ApresInv', NEW e
    PROVE  e \in EnregistrementsPossibles' <=>
              \E c0 \in Issues(copieApres'[0], Illisible), c1 \in Issues(copieApres'[1], Illisible) :
                 e = Resultat(c0, c1)
<1>1. /\ Issues(copieApres'[0], Illisible) \cup {copie'[0]} = Issues(copieApres'[0], Illisible)
      /\ Issues(copieApres'[1], Illisible) \cup {copie'[1]} = Issues(copieApres'[1], Illisible)
  BY IssuesBornes DEF ApresInv
<1> QED BY <1>1 DEF EnregistrementsPossibles, Resultat, Issues

(* each of them is unreadable or a record that META may hold; the current  *)
(* one is among them                                                       *)
LEMMA PossiblesSur ==
    ASSUME DisqueInv, ApresInv
    PROVE  /\ EnregistrementsPossibles \subseteq Sur \cup {Illisible}
           /\ Resultat(copie[0], copie[1]) \in EnregistrementsPossibles
           /\ Lisible => Lu \in EnregistrementsPossibles /\ Lu \in Sur
<1>1. ASSUME NEW e \in EnregistrementsPossibles PROVE e \in Sur \cup {Illisible}
  <2>1. PICK c0 \in Issues(copieApres[0], Illisible), c1 \in Issues(copieApres[1], Illisible) :
           e = Resultat(c0, c1)
    BY <1>1, PossiblesDe
  <2>2. c0 \in copieApres[0] \cup {Illisible} /\ c1 \in copieApres[1] \cup {Illisible}
    BY IssuesBornes
  <2>3. (c0 = Illisible \/ Valide(c0)) /\ (c1 = Illisible \/ Valide(c1))
    BY <2>2, BlocsValides
  <2>4. e \in {c0, c1}
    BY <2>1, <2>3, Selection
  <2> QED BY <2>2, <2>4 DEF Sur
<1>2. copie[0] \in Issues(copieApres[0], Illisible) /\ copie[1] \in Issues(copieApres[1], Illisible)
  BY IssuesBornes DEF ApresInv
<1>3. Resultat(copie[0], copie[1]) \in EnregistrementsPossibles
  BY <1>2, PossiblesDe
<1>4. Lisible => Lu \in EnregistrementsPossibles /\ Lu # Illisible
  BY <1>3, BlocsValides
<1>5. Lisible => Lu \in Sur
  BY <1>1, <1>4
<1> QED BY <1>1, <1>3, <1>4, <1>5

-----------------------------------------------------------------------------
(* How a step changes what a power loss may leave *)

(* a step that leaves META alone *)
LEMMA MetaInchange ==
    ASSUME UNCHANGED <<copie, copieApres>>
    PROVE  /\ Lu' = Lu /\ (Lisible' <=> Lisible) /\ Sur' = Sur
           /\ EnregistrementsPossibles' = EnregistrementsPossibles
           /\ MetaInv => MetaInv'
<1>1. Lu' = Lu /\ (Lisible' <=> Lisible) /\ Sur' = Sur
  BY DEF Lu, Lisible, Sur
<1>2. EnregistrementsPossibles' = EnregistrementsPossibles
  BY DEF EnregistrementsPossibles
<1>3. MetaInv => MetaInv'
  BY <1>1 DEF MetaInv, ApresInv, RecentInv, EgauxInv
<1> QED BY <1>1, <1>2, <1>3

(* The write of a successor of the current record, in the other copy: the  *)
(* device now returns it, and a power loss leaves it or what it could      *)
(* leave before, unless both copies may tear.                              *)
LEMMA MetaEcrit ==
    ASSUME DisqueInv, MetaInv, Lisible, NEW i \in 0..1, NEW n, Valide(n),
           n.sequence = Lu.sequence + 1, Lu = copie[1 - i], EcritBlocMeta(i, n)
    PROVE  /\ Lisible' /\ Lu' = n /\ MetaInv'
           /\ Sur' \subseteq Sur \cup {n}
           /\ ~expose' => (~expose /\ EnregistrementsPossibles' \subseteq EnregistrementsPossibles \cup {n})
<1> DEFINE o == 1 - i
<1>0. o \in 0..1 /\ o # i /\ {i, o} = 0..1 /\ ((i = 0 /\ o = 1) \/ (i = 1 /\ o = 0))
  BY SMT
<1>1. /\ copie \in [0..1 -> Copies] /\ copieApres \in [0..1 -> SUBSET Copies]
      /\ copie'[i] = n /\ copie'[o] = copie[o] /\ copie[o] = Lu
      /\ copieApres'[i] = copieApres[i] \cup {n} /\ copieApres'[o] = copieApres[o]
  BY <1>0 DEF DisqueInv, EcritBlocMeta
<1>2. /\ n # Illisible /\ n.sequence \in Nat /\ Lu # Illisible /\ Valide(Lu) /\ Lu.sequence \in Nat
      /\ n.sequence > Lu.sequence
  <2>1. Valide(Lu) /\ Lu.sequence \in Nat /\ Lu # Illisible
    BY BlocsValides
  <2>2. n # Illisible /\ n.sequence \in Nat
    BY CopieAssumption DEF Valide, Enregistrement
  <2> QED BY <2>1, <2>2
<1>3. \A c \in Sur : Valide(c) /\ c.sequence \in Nat /\ c.sequence <= Lu.sequence
  BY BlocsValides DEF MetaInv, RecentInv
<1>4. Sur' = Sur \cup {n}
  BY <1>0, <1>1, <1>2 DEF Sur
<1>5. ASSUME NEW c, c = Illisible \/ c \in Sur
      PROVE  /\ i = 0 => Resultat(n, c) = n
             /\ i = 1 => Resultat(c, n) = n
  <2>1. CASE c = Illisible
    BY <1>2, <2>1, Selection DEF Resultat
  <2>2. CASE c \in Sur
    <3>1. Valide(c) /\ c # Illisible /\ c.sequence \in Nat /\ c.sequence < n.sequence
      BY <1>2, <1>3, <2>2 DEF Sur
    <3> QED BY <1>2, <3>1, Selection DEF Resultat
  <2> QED BY <1>5, <2>1, <2>2
<1>6. Lisible' /\ Lu' = n
  <2>1. Lu \in Sur
    BY PossiblesSur DEF MetaInv
  <2>2. CASE i = 0
    <3>1. copie'[0] = n /\ copie'[1] = Lu
      BY <1>0, <1>1, <2>2
    <3>2. Resultat(n, Lu) = n
      BY <1>5, <2>1, <2>2
    <3>3. ~AucunEnregistrement(n, Lu)
      BY <1>2, Selection
    <3> QED BY <3>1, <3>2, <3>3 DEF Lisible, Lu, Resultat
  <2>3. CASE i = 1
    <3>1. copie'[1] = n /\ copie'[0] = Lu
      BY <1>0, <1>1, <2>3
    <3>2. Resultat(Lu, n) = n
      BY <1>5, <2>1, <2>3
    <3>3. ~AucunEnregistrement(Lu, n)
      BY <1>2, Selection
    <3> QED BY <3>1, <3>2, <3>3 DEF Lisible, Lu, Resultat
  <2> QED BY <1>0, <2>2, <2>3
<1>7. ApresInv'
  <2>1. \A j \in {i, o} : copie'[j] \in copieApres'[j] /\ IsFiniteSet(copieApres'[j])
    BY <1>0, <1>1, FS_AddElement DEF MetaInv, ApresInv
  <2> QED BY <1>0, <2>1 DEF ApresInv
<1>8. RecentInv' /\ EgauxInv'
  <2>1. \A c \in Sur' : c.sequence <= n.sequence
    BY <1>2, <1>3, <1>4
  <2>2. \A c \in Sur : c.sequence # n.sequence
    BY <1>2, <1>3
  <2> QED BY <1>4, <1>6, <2>1, <2>2 DEF RecentInv, EgauxInv, MetaInv
<1>9. ASSUME ~expose' PROVE ~expose /\ EnregistrementsPossibles' \subseteq EnregistrementsPossibles \cup {n}
  <2>1. ~expose /\ ~(Dechirable /\ \A j \in 0..1 : Cardinality(copieApres'[j]) > 1)
    BY <1>9 DEF EcritBlocMeta
  <2> DEFINE Ii == Issues(copieApres[i], Illisible)
             Io == Issues(copieApres[o], Illisible)
  <2>2. /\ Issues(copieApres'[o], Illisible) = Io
        /\ \A c \in Issues(copieApres'[i], Illisible) :
              c \in Ii \/ c = n \/ (c = Illisible /\ Io = {Lu})
    <3>1. CASE ~Dechirable
      BY <1>1, <3>1, IssuesEntieres
    <3>2. CASE Dechirable
      <4>1. n \notin copieApres[i] /\ copieApres[i] # {} /\ IsFiniteSet(copieApres[i])
        <5>1. copie[i] \in copieApres[i] /\ IsFiniteSet(copieApres[i])
          BY DEF MetaInv, ApresInv
        <5>2. n \notin Sur
          BY <1>2, <1>3
        <5> QED BY <1>0, <1>2, <5>1, <5>2 DEF Sur
      <4>2. Cardinality(copieApres[i]) \in Nat /\ Cardinality(copieApres[i]) # 0
        BY <4>1, FS_CardinalityType, FS_EmptySet
      <4>3. Cardinality(copieApres'[i]) = Cardinality(copieApres[i]) + 1
        <5>1. Cardinality(copieApres[i] \cup {n})
                 = (IF n \in copieApres[i] THEN Cardinality(copieApres[i]) ELSE Cardinality(copieApres[i]) + 1)
          BY <4>1, FS_AddElement
        <5> QED BY <1>1, <4>1, <5>1
      <4>4. ~(Cardinality(copieApres[o]) > 1)
        <5>1. Cardinality(copieApres'[i]) > 1
          BY <4>2, <4>3
        <5>2. \E j \in {i, o} : ~(Cardinality(copieApres'[j]) > 1)
          BY <1>0, <2>1, <3>2
        <5> QED BY <1>1, <5>1, <5>2
      <4>5. IsFiniteSet(copieApres[o]) /\ Lu \in copieApres[o]
        BY <1>0, <1>1 DEF MetaInv, ApresInv
      <4>6. Cardinality(copieApres[o]) = 1
        BY <4>4, <4>5, FS_CardinalityType, FS_EmptySet
      <4>7. copieApres[o] = {Lu}
        BY <4>5, <4>6, FS_Singleton
      <4>8. Io = {Lu}
        BY <4>7, IssuesUn
      <4>9. \A c \in Issues(copieApres'[i], Illisible) : c \in copieApres[i] \/ c = n \/ c = Illisible
        BY <1>1, IssuesBornes
      <4> QED BY <1>1, <4>8, <4>9, IssuesBornes
    <3> QED BY <3>1, <3>2
  <2>3. \A c \in Io : c = Illisible \/ c \in Sur
    BY <1>0, IssuesBornes DEF Sur
  <2>4. \A c \in Ii : c = Illisible \/ c \in Sur
    BY <1>0, IssuesBornes DEF Sur
  <2>5. copie[i] \in Ii /\ (copie[i] = Illisible \/ copie[i] \in Sur)
    BY <2>4, IssuesBornes DEF MetaInv, ApresInv
  <2>6. /\ Resultat(Lu, Illisible) = Lu
        /\ Resultat(Illisible, Lu) = Lu
    BY <1>2, Selection DEF Resultat
  <2>7. Lu \in EnregistrementsPossibles
    BY PossiblesSur DEF MetaInv
  <2> HIDE DEF Ii, Io
  <2>8. ASSUME NEW e \in EnregistrementsPossibles'
        PROVE  e \in EnregistrementsPossibles \cup {n}
    <3>1. PICK c0 \in Issues(copieApres'[0], Illisible), c1 \in Issues(copieApres'[1], Illisible) :
             e = Resultat(c0, c1)
      BY <1>7, <2>8, PossiblesApresDe
    <3>2. CASE i = 0
      <4>1. c1 \in Io /\ (c0 \in Ii \/ c0 = n \/ (c0 = Illisible /\ Io = {Lu}))
        BY <1>0, <2>2, <3>1, <3>2
      <4>2. CASE c0 \in Ii
        BY <1>0, <3>1, <3>2, <4>1, <4>2, PossiblesDe DEF MetaInv, Ii, Io
      <4>3. CASE c0 = n
        BY <1>5, <2>3, <3>1, <3>2, <4>1, <4>3
      <4>4. CASE c0 = Illisible /\ Io = {Lu}
        BY <2>6, <2>7, <3>1, <4>1, <4>4
      <4> QED BY <4>1, <4>2, <4>3, <4>4
    <3>3. CASE i = 1
      <4>1. c0 \in Io /\ (c1 \in Ii \/ c1 = n \/ (c1 = Illisible /\ Io = {Lu}))
        BY <1>0, <2>2, <3>1, <3>3
      <4>2. CASE c1 \in Ii
        BY <1>0, <3>1, <3>3, <4>1, <4>2, PossiblesDe DEF MetaInv, Ii, Io
      <4>3. CASE c1 = n
        BY <1>5, <2>3, <3>1, <3>3, <4>1, <4>3
      <4>4. CASE c1 = Illisible /\ Io = {Lu}
        BY <2>6, <2>7, <3>1, <4>1, <4>4
      <4> QED BY <4>1, <4>2, <4>3, <4>4
    <3> QED BY <1>0, <3>2, <3>3
  <2> QED BY <2>1, <2>8
<1> QED BY <1>4, <1>6, <1>7, <1>8, <1>9 DEF MetaInv

(* a flush leaves only what the device returns *)
LEMMA MetaVide ==
    ASSUME DisqueInv, MetaInv, Vidange
    PROVE  /\ Lu' = Lu /\ (Lisible' <=> Lisible) /\ MetaInv' /\ (expose' <=> expose)
           /\ \A i \in 0..1 : copieApres'[i] = {copie'[i]}
           /\ Sur' \subseteq Sur
           /\ EnregistrementsPossibles' \subseteq EnregistrementsPossibles
           /\ Lisible => EnregistrementsPossibles' = {Lu}
<1>1. Lu' = Lu /\ (Lisible' <=> Lisible) /\ (expose' <=> expose) /\ copie' = copie
  BY DEF Vidange, Lu, Lisible
<1>2. copieApres'[0] = {copie[0]} /\ copieApres'[1] = {copie[1]}
  BY DEF Vidange
<1>3. \A i \in 0..1 : copieApres'[i] = {copie'[i]}
  BY DEF Vidange
<1>4. ApresInv'
  BY <1>3, FS_Singleton DEF ApresInv
<1>5. Sur' \subseteq Sur
  BY <1>2 DEF Sur, MetaInv, ApresInv
<1>6. RecentInv' /\ EgauxInv'
  BY <1>1, <1>5 DEF RecentInv, EgauxInv, MetaInv
<1>7. EnregistrementsPossibles' = {Resultat(copie[0], copie[1])}
  <2>1. /\ Issues(copieApres'[0], Illisible) = {copie[0]}
        /\ Issues(copieApres'[1], Illisible) = {copie[1]}
    BY <1>2, IssuesUn
  <2>2. \A e : e \in EnregistrementsPossibles' <=> e = Resultat(copie[0], copie[1])
    BY <1>4, <2>1, PossiblesApresDe
  <2> QED BY <2>2
<1>8. EnregistrementsPossibles' \subseteq EnregistrementsPossibles
  BY <1>7, PossiblesSur DEF MetaInv
<1>9. Lisible => EnregistrementsPossibles' = {Lu}
  BY <1>7, BlocsValides
<1> QED BY <1>1, <1>3, <1>4, <1>5, <1>6, <1>8, <1>9 DEF MetaInv

(* a power loss leaves one of the records it could leave *)
LEMMA MetaCoupe ==
    ASSUME DisqueInv, MetaInv, Coupure
    PROVE  /\ MetaInv' /\ (expose' <=> expose)
           /\ Sur' \subseteq Sur
           /\ EnregistrementsPossibles' \subseteq EnregistrementsPossibles
<1>1. PICK c0 \in Issues(copieApres[0], Illisible), c1 \in Issues(copieApres[1], Illisible) :
         copie' = [i \in 0..1 |-> IF i = 0 THEN c0 ELSE c1] /\ copieApres' = [i \in 0..1 |-> {copie'[i]}]
  BY DEF Coupure
<1>2. /\ copie'[0] = c0 /\ copie'[1] = c1 /\ copieApres'[0] = {c0} /\ copieApres'[1] = {c1}
      /\ \A i \in 0..1 : copieApres'[i] = {copie'[i]}
  BY <1>1
<1>3. ApresInv'
  BY <1>2, FS_Singleton DEF ApresInv
<1>4. c0 \in copieApres[0] \cup {Illisible} /\ c1 \in copieApres[1] \cup {Illisible}
  BY IssuesBornes
<1>5. Sur' \subseteq Sur /\ Sur' = {c0, c1} \ {Illisible}
  BY <1>2, <1>4 DEF Sur
<1>6. (c0 = Illisible \/ Valide(c0)) /\ (c1 = Illisible \/ Valide(c1))
  BY <1>4, BlocsValides
<1>7. RecentInv'
  <2>1. Lisible' => Lu' = Resultat(c0, c1)
    BY <1>2 DEF Lisible, Lu, Resultat
  <2>2. (c0 # Illisible => c0.sequence <= Resultat(c0, c1).sequence)
        /\ (c1 # Illisible => c1.sequence <= Resultat(c0, c1).sequence)
    BY <1>6, Maximum
  <2> QED BY <1>5, <2>1, <2>2 DEF RecentInv
<1>8. EgauxInv'
  BY <1>5 DEF EgauxInv, MetaInv
<1>9. EnregistrementsPossibles' \subseteq EnregistrementsPossibles
  <2>1. /\ Issues(copieApres'[0], Illisible) = {c0}
        /\ Issues(copieApres'[1], Illisible) = {c1}
    BY <1>2, IssuesUn
  <2>2. \A e \in EnregistrementsPossibles' : e = Resultat(c0, c1)
    BY <1>3, <2>1, PossiblesApresDe
  <2>3. Resultat(c0, c1) \in EnregistrementsPossibles
    BY PossiblesDe DEF MetaInv
  <2> QED BY <2>2, <2>3
<1> QED BY <1>3, <1>5, <1>7, <1>8, <1>9 DEF MetaInv, Coupure

-----------------------------------------------------------------------------
(* The calls in flight *)

(* moving one call changes nothing else *)
LEMMA VersFaits ==
    ASSUME FilInv, NEW f \in Fils, NEW pc, Vers(f, pc)
    PROVE  /\ fil'[f].pc = pc /\ fil'[f].n = fil[f].n /\ fil'[f].i = fil[f].i /\ fil'[f].val = fil[f].val
           /\ fil'[f].slot = fil[f].slot /\ fil'[f].raison = fil[f].raison
           /\ fil'[f].inst = fil[f].inst
           /\ \A g \in Fils \ {f} : fil'[g] = fil[g]
<1>1. fil \in [Fils -> Appel] /\ fil[f] \in Appel
  BY DEF FilInv
<1>2. fil' = [fil EXCEPT ![f] = [fil[f] EXCEPT !.pc = pc]]
  BY DEF Vers
<1>3. fil'[f] = [fil[f] EXCEPT !.pc = pc] /\ \A g \in Fils \ {f} : fil'[g] = fil[g]
  BY <1>1, <1>2
<1> QED BY <1>1, <1>3 DEF Appel

(* replacing one call changes no other *)
LEMMA MajFaits ==
    ASSUME FilInv, NEW f \in Fils, NEW a, fil' = [fil EXCEPT ![f] = a]
    PROVE  fil'[f] = a /\ \A g \in Fils \ {f} : fil'[g] = fil[g]
BY DEF FilInv

(* the fields of a fresh call *)
LEMMA DemandeFaits ==
    ASSUME NEW pc, NEW n, NEW inst
    PROVE  /\ Demande(pc, n, inst).pc = pc /\ Demande(pc, n, inst).n = n
           /\ Demande(pc, n, inst).inst = inst /\ Demande(pc, n, inst).val = 0
           /\ Repos.pc = "repos" /\ Repos.n = Illisible /\ Repos.inst = Aucun
BY DEF Demande, Repos

(* every writer of META holds the successor of the record it read *)
LEMMA SuccesseurChoisi ==
    ASSUME NEW e, Valide(e)
    PROVE  /\ ChoisitBoot(e).apres # e => ChoisitBoot(e).apres.sequence = e.sequence + 1
           /\ ChoisitBoot(e).apres.actif = e.actif
BY DEF ChoisitBoot, AvecEtat, AvecSlot

(* the only writers that could meet are the two of the kernel, and they do not *)
LEMMA EcrivainSeul ==
    ASSUME DurInv, NEW f \in Fils, fil[f].pc \in {"persiste", "ecrit"}, NEW g \in Fils \ {f}
    PROVE  fil[g].pc \notin {"persiste", "ecrit"}
BY DEF DurInv, PhaseInv, SerieInv, Fils

(* the calls in flight, when META does not change *)
LEMMA EcrivainsMaj ==
    ASSUME DurInv, NEW f \in Fils, \A g \in Fils \ {f} : fil'[g] = fil[g],
           UNCHANGED <<copie, copieApres>>, EcrivainBon(f)'
    PROVE  \A g \in Fils : EcrivainBon(g)'
<1>1. Lu' = Lu /\ (Lisible' <=> Lisible)
  BY MetaInchange
<1>2. ASSUME NEW g \in Fils \ {f} PROVE EcrivainBon(g)'
  <2>1. EcrivainBon(g) /\ fil'[g] = fil[g]
    BY DEF DurInv
  <2> QED BY <1>1, <2>1 DEF EcrivainBon
<1> QED BY <1>2

(* a call that neither writes nor flushes META has nothing to show *)
LEMMA HorsMeta ==
    ASSUME NEW f, fil'[f].pc \notin {"persiste", "ecrit", "vidange", "relit"}
    PROVE  EcrivainBon(f)'
BY DEF EcrivainBon

(* what persiste() acknowledged survives a step that adds no record *)
LEMMA AccuseGarde ==
    ASSUME AccuseDurable, accuse' = accuse, ~expose' => ~expose,
           EnregistrementsPossibles' \subseteq EnregistrementsPossibles
    PROVE  AccuseDurable'
BY DEF AccuseDurable

(* a request that leaves the current record alone keeps the calls apart *)
LEMMA RequeteSerie ==
    ASSUME DurInv, NEW f \in Fils, fil[f].pc # "repos", fil'[f].n = fil[f].n,
           fil'[f].pc \in {"persiste", "ecrit"} => fil[f].pc \in {"persiste", "ecrit"},
           \A g \in Fils \ {f} : fil'[g] = fil[g],
           UNCHANGED <<phase, passage, session>>, Lu' = Lu, Lisible' <=> Lisible
    PROVE  PhaseInv' /\ SerieInv'
<1>1. \A g \in Fils : /\ fil'[g].n = fil[g].n
                      /\ fil'[g].pc # "repos" => fil[g].pc # "repos"
                      /\ fil'[g].pc \in {"persiste", "ecrit"} => fil[g].pc \in {"persiste", "ecrit"}
  OBVIOUS
<1>2. {"chargeur", "sante", "installe", "console"} = Fils
  BY DEF Fils
<1>3. PhaseInv'
  BY <1>1, <1>2 DEF DurInv, PhaseInv
<1>4. SerieInv'
  BY <1>1, <1>2 DEF DurInv, SerieInv
<1> QED BY <1>3, <1>4

(* persiste() reads the copies and chooses the one to overwrite *)
LEMMA LitCopiesDur ==
    ASSUME IInv, DurInv, NEW f \in Fils, LitCopies(f), UNCHANGED <<phase, passage, session>>
    PROVE  DurInv'
<1>1. FilInv /\ DisqueInv /\ MetaInv /\ EcrivainBon(f) /\ fil[f].pc = "persiste"
  BY DEF IInv, DurInv, LitCopies
<1>2. UNCHANGED <<copie, copieApres, expose, accuse>>
  BY DEF LitCopies, DisqueInchange, disque, histoire
<1>3. /\ Lu' = Lu /\ (Lisible' <=> Lisible) /\ MetaInv'
      /\ EnregistrementsPossibles' = EnregistrementsPossibles
  BY <1>1, <1>2, MetaInchange
<1>4. AccuseDurable' /\ accuse' \in Nat
  BY <1>2, <1>3, AccuseGarde DEF DurInv
<1>5. CASE Vers(f, "echec")
  <2>1. fil'[f].pc = "echec" /\ fil'[f].n = fil[f].n /\ \A g \in Fils \ {f} : fil'[g] = fil[g]
    BY <1>1, <1>5, VersFaits
  <2>2. PhaseInv' /\ SerieInv'
    BY <1>1, <1>3, <2>1, RequeteSerie
  <2>3. EcrivainBon(f)'
    BY <2>1, HorsMeta
  <2>4. \A g \in Fils : EcrivainBon(g)'
    BY <1>2, <2>1, <2>3, EcrivainsMaj
  <2> QED BY <1>3, <1>4, <2>2, <2>4 DEF DurInv
<1>6. CASE fil' = [fil EXCEPT ![f].pc = "ecrit", ![f].i = CopieAEcrire(copie[0], copie[1])]
  <2> DEFINE i == CopieAEcrire(copie[0], copie[1])
  <2>1. fil'[f] = [fil[f] EXCEPT !.pc = "ecrit", !.i = i] /\ \A g \in Fils \ {f} : fil'[g] = fil[g]
    BY <1>1, <1>6 DEF FilInv
  <2>2. i \in 0..1 /\ Lu = copie[1 - i] /\ Lisible
    BY <1>1, CopieChoisie DEF EcrivainBon
  <2> HIDE DEF i
  <2>3. fil'[f].pc = "ecrit" /\ fil'[f].n = fil[f].n /\ fil'[f].i = i
    BY <1>1, <2>1 DEF FilInv, Appel
  <2>4. EcrivainBon(f)'
    BY <1>1, <1>2, <1>3, <2>2, <2>3 DEF EcrivainBon
  <2>5. \A g \in Fils : EcrivainBon(g)'
    BY <1>2, <2>1, <2>4, EcrivainsMaj
  <2>6. PhaseInv' /\ SerieInv'
    BY <1>1, <1>3, <2>1, <2>3, RequeteSerie
  <2> QED BY <1>3, <1>4, <2>5, <2>6 DEF DurInv
<1> QED BY <1>5, <1>6 DEF LitCopies

(* persiste() writes its record over the other copy: no other call is      *)
(* between its choice and its write                                        *)
LEMMA EcritCopieDur ==
    ASSUME IInv, DurInv, NEW f \in Fils, EcritCopie(f), UNCHANGED <<phase, passage, session>>
    PROVE  DurInv'
<1>1. FilInv /\ DisqueInv /\ MetaInv /\ EcrivainBon(f) /\ fil[f].pc = "ecrit"
  BY DEF IInv, DurInv, EcritCopie
<1>2. /\ Valide(fil[f].n) /\ fil[f].i \in 0..1 /\ Lisible /\ Lu = copie[1 - fil[f].i]
      /\ fil[f].n.sequence = Lu.sequence + 1 /\ Lu.sequence \in Nat
  <2>1. Valide(fil[f].n) /\ fil[f].i \in 0..1
    BY <1>1 DEF FilInv, AppelBon, Appel
  <2> QED BY <1>1, <2>1, BlocsValides DEF EcrivainBon
<1>3. accuse' = accuse /\ accuse \in Nat
  BY DEF EcritCopie, histoire, DurInv
<1>4. PICK pc \in {"vidange", "echec"} : Vers(f, pc)
  BY DEF EcritCopie
<1>5. /\ fil'[f].pc = pc /\ fil'[f].n = fil[f].n /\ fil'[f].i = fil[f].i
      /\ \A g \in Fils \ {f} : fil'[g] = fil[g]
  BY <1>1, <1>4, VersFaits
<1>6. CASE EcritBlocMeta(fil[f].i, fil[f].n)
  <2> DEFINE n == fil[f].n
             i == fil[f].i
  <2>1. /\ Lisible' /\ Lu' = n /\ MetaInv'
        /\ ~expose' => (~expose /\ EnregistrementsPossibles' \subseteq EnregistrementsPossibles \cup {n})
    BY <1>1, <1>2, <1>6, MetaEcrit
  <2>2. AccuseDurable'
    <3> SUFFICES ASSUME ~expose', NEW e \in EnregistrementsPossibles'
                 PROVE  e # Illisible /\ e.sequence >= accuse
      BY <1>3 DEF AccuseDurable
    <3>1. CASE e \in EnregistrementsPossibles
      BY <2>1, <3>1 DEF DurInv, AccuseDurable
    <3>2. CASE e = n
      <4>1. Lu \in EnregistrementsPossibles
        BY <1>1, <1>2, PossiblesSur DEF MetaInv
      <4>2. Lu.sequence >= accuse
        BY <2>1, <4>1 DEF DurInv, AccuseDurable
      <4>3. n # Illisible
        BY <1>2, CopieAssumption DEF Valide
      <4> QED BY <1>2, <1>3, <3>2, <4>2, <4>3
    <3> QED BY <2>1, <3>1, <3>2
  <2>3. EcrivainBon(f)'
    BY <1>2, <1>5, <2>1 DEF EcrivainBon
  <2>4. ASSUME NEW g \in Fils \ {f} PROVE EcrivainBon(g)'
    <3>1. EcrivainBon(g) /\ fil'[g] = fil[g] /\ fil[g].pc \notin {"persiste", "ecrit"}
      BY <1>1, <1>5, EcrivainSeul DEF DurInv
    <3>2. fil[g].pc \in {"vidange", "relit"}
            => fil[g].i \in 0..1 /\ fil[g].n.sequence \in Nat /\ fil[g].n.sequence <= Lu.sequence
      BY <1>1, <3>1 DEF FilInv, AppelBon, Appel, Valide, Enregistrement, EcrivainBon
    <3>3. fil[g].pc \in {"vidange", "relit"} => fil[g].n.sequence < n.sequence
      BY <1>2, <3>2
    <3>4. ASSUME fil[g].pc = "relit", copie'[fil[g].i] = fil[g].n
          PROVE  copieApres'[fil[g].i] = {fil[g].n}
      <4>1. fil[g].i # i
        <5> SUFFICES ASSUME fil[g].i = i PROVE FALSE
          OBVIOUS
        <5>1. copie'[i] = n
          BY <1>2, <1>6, <1>1 DEF EcritBlocMeta, DisqueInv
        <5> QED BY <1>2, <3>2, <3>3, <3>4, <5>1
      <4>2. copie'[fil[g].i] = copie[fil[g].i] /\ copieApres'[fil[g].i] = copieApres[fil[g].i]
        BY <1>1, <1>2, <1>6, <3>2, <3>4, <4>1 DEF EcritBlocMeta, DisqueInv
      <4> QED BY <3>1, <3>4, <4>2 DEF EcrivainBon
    <3>5. fil[g].pc \in {"vidange", "relit"} => fil[g].n.sequence <= Lu'.sequence
      BY <1>2, <2>1, <3>2, <3>3
    <3> QED BY <2>1, <3>1, <3>4, <3>5 DEF EcrivainBon
  <2>5. PhaseInv'
    <3>1. \A g \in Fils : fil'[g].pc # "repos" => fil[g].pc # "repos"
      BY <1>1, <1>5
    <3> QED BY <3>1 DEF DurInv, PhaseInv, Fils
  <2>6. SerieInv'
    <3>1. f \in {"chargeur", "sante", "installe", "console"}
      BY DEF Fils
    <3>2. \A g \in Fils : /\ fil'[g].pc # "repos" => fil[g].pc # "repos"
                          /\ fil'[g].pc \notin {"persiste", "ecrit"}
      BY <1>1, <1>5, EcrivainSeul
    <3>3. fil'["installe"].pc \notin {"persiste", "ecrit"} /\ fil'["sante"].pc \notin {"persiste", "ecrit"}
          /\ (fil'["installe"].pc # "repos" => fil["installe"].pc # "repos")
      BY <3>2 DEF Fils
    <3>4. ASSUME session # Aucun \/ fil["installe"].pc # "repos"
          PROVE  passage # Aucun /\ n.actif = passage.slot
      <4>1. f = "installe"
        BY <1>1, <3>1, <3>4 DEF DurInv, PhaseInv, SerieInv
      <4> QED BY <1>1, <4>1 DEF DurInv, SerieInv
    <3> QED BY <2>1, <3>3, <3>4 DEF SerieInv
  <2> QED BY <1>3, <2>1, <2>2, <2>3, <2>4, <2>5, <2>6 DEF DurInv
<1>7. CASE DisqueInchange /\ pc = "echec"
  <2>1. UNCHANGED <<copie, copieApres, expose>>
    BY <1>7 DEF DisqueInchange, disque
  <2>2. /\ Lu' = Lu /\ (Lisible' <=> Lisible) /\ MetaInv'
        /\ EnregistrementsPossibles' = EnregistrementsPossibles
    BY <1>1, <2>1, MetaInchange
  <2>3. EcrivainBon(f)'
    BY <1>5, <1>7, HorsMeta
  <2>4. \A g \in Fils : EcrivainBon(g)'
    BY <1>5, <2>1, <2>3, EcrivainsMaj
  <2>5. PhaseInv' /\ SerieInv'
    BY <1>1, <1>5, <2>2, RequeteSerie
  <2>6. AccuseDurable'
    BY <1>3, <2>1, <2>2, AccuseGarde DEF DurInv
  <2> QED BY <1>3, <2>2, <2>4, <2>5, <2>6 DEF DurInv
<1> QED
  <2>1. pc = "echec" => Vers(f, "echec")
    BY <1>4
  <2>2. EcritBlocMeta(fil[f].i, fil[f].n) \/ (Vers(f, "echec") /\ DisqueInchange)
    BY DEF EcritCopie
  <2>3. Vers(f, "echec") => fil'[f].pc = "echec"
    BY <1>1, VersFaits
  <2> QED BY <1>5, <1>6, <1>7, <2>2, <2>3

(* a call that a step leaves where it was in persiste(), or takes out of it *)
Meta == {"persiste", "ecrit", "vidange", "relit"}

Reste(g) == /\ fil'[g].pc # "repos" => fil[g].pc # "repos"
            /\ fil'[g].pc \in Meta =>
                  fil'[g].pc = fil[g].pc /\ fil'[g].n = fil[g].n /\ fil'[g].i = fil[g].i

(* a step that starts nothing, and leaves META alone *)
LEMMA CalmeDur ==
    ASSUME IInv, DurInv, UNCHANGED <<copie, copieApres, expose, accuse, phase, passage>>,
           session' # Aucun => (session # Aucun \/ fil["installe"].pc # "repos"),
           \A g \in Fils : Reste(g)
    PROVE  DurInv'
<1>1. /\ Lu' = Lu /\ (Lisible' <=> Lisible) /\ MetaInv'
      /\ EnregistrementsPossibles' = EnregistrementsPossibles
  BY MetaInchange DEF DurInv
<1>2. AccuseDurable' /\ accuse' \in Nat
  BY <1>1, AccuseGarde DEF DurInv
<1>3. ASSUME NEW g \in Fils PROVE EcrivainBon(g)'
  <2>1. EcrivainBon(g) /\ Reste(g)
    BY DEF DurInv
  <2> QED BY <1>1, <2>1 DEF EcrivainBon, Reste, Meta
<1>4. "chargeur" \in Fils /\ "sante" \in Fils /\ "installe" \in Fils /\ "console" \in Fils
  BY DEF Fils
<1>5. Reste("chargeur") /\ Reste("sante") /\ Reste("installe") /\ Reste("console")
  BY <1>4
<1>6. PhaseInv'
  BY <1>5 DEF DurInv, PhaseInv, Reste
<1>7. SerieInv'
  BY <1>1, <1>5 DEF DurInv, SerieInv, Reste, Meta
<1> QED BY <1>1, <1>2, <1>3, <1>6, <1>7 DEF DurInv

(* a flush, whoever asked for it *)
LEMMA VideDur ==
    ASSUME IInv, DurInv, Vidange, UNCHANGED <<accuse, phase, passage>>,
           session' # Aucun => session # Aucun,
           \A g \in Fils : \/ Reste(g)
                           \/ /\ fil[g].pc = "vidange" /\ fil'[g].pc = "relit"
                              /\ fil'[g].n = fil[g].n /\ fil'[g].i = fil[g].i
    PROVE  DurInv'
<1>1. /\ Lu' = Lu /\ (Lisible' <=> Lisible) /\ MetaInv' /\ (expose' <=> expose) /\ copie' = copie
      /\ \A i \in 0..1 : copieApres'[i] = {copie'[i]}
      /\ EnregistrementsPossibles' \subseteq EnregistrementsPossibles
  BY MetaVide DEF DurInv, IInv, Vidange
<1>2. AccuseDurable' /\ accuse' \in Nat
  BY <1>1, AccuseGarde DEF DurInv
<1>3. ASSUME NEW g \in Fils PROVE EcrivainBon(g)'
  <2>1. EcrivainBon(g) /\ fil[g].i \in 0..1
    BY DEF DurInv, IInv, FilInv, Appel
  <2>2. CASE Reste(g)
    <3>1. fil'[g].pc \in Meta => fil'[g].pc = fil[g].pc /\ fil'[g].n = fil[g].n /\ fil'[g].i = fil[g].i
      BY <2>2 DEF Reste
    <3>2. (fil'[g].pc = "relit" /\ copie'[fil'[g].i] = fil'[g].n) => copieApres'[fil'[g].i] = {fil'[g].n}
      BY <1>1, <2>1, <3>1 DEF Meta
    <3> QED BY <1>1, <2>1, <3>1, <3>2 DEF EcrivainBon, Meta
  <2>3. CASE fil[g].pc = "vidange" /\ fil'[g].pc = "relit" /\ fil'[g].n = fil[g].n /\ fil'[g].i = fil[g].i
    BY <1>1, <2>1, <2>3 DEF EcrivainBon
  <2> QED BY <2>2, <2>3
<1>4. "chargeur" \in Fils /\ "sante" \in Fils /\ "installe" \in Fils /\ "console" \in Fils
  BY DEF Fils
<1>5. \A g \in Fils : /\ fil'[g].pc # "repos" => fil[g].pc # "repos"
                      /\ fil'[g].pc \in {"persiste", "ecrit"} => fil'[g].pc = fil[g].pc /\ fil'[g].n = fil[g].n
  BY DEF Reste, Meta
<1>6. PhaseInv'
  BY <1>4, <1>5 DEF DurInv, PhaseInv
<1>7. SerieInv'
  BY <1>1, <1>4, <1>5 DEF DurInv, SerieInv
<1> QED BY <1>1, <1>2, <1>3, <1>6, <1>7 DEF DurInv

(* a call that moves out of persiste() *)
LEMMA VersReste ==
    ASSUME FilInv, NEW f \in Fils, NEW pc, Vers(f, pc), pc \notin Meta, fil[f].pc # "repos"
    PROVE  \A g \in Fils : Reste(g)
<1>1. fil'[f].pc = pc /\ \A g \in Fils \ {f} : fil'[g] = fil[g]
  BY VersFaits
<1> QED BY <1>1 DEF Reste

(* a call that returns *)
LEMMA ReposReste ==
    ASSUME FilInv, NEW f \in Fils, fil' = [fil EXCEPT ![f] = Repos]
    PROVE  \A g \in Fils : Reste(g)
<1>1. fil'[f] = Repos /\ \A g \in Fils \ {f} : fil'[g] = fil[g]
  BY MajFaits
<1>2. Repos.pc = "repos" /\ "repos" \notin Meta
  BY DEF Repos, Demande, Meta
<1> QED BY <1>1, <1>2 DEF Reste

(* persiste() reads its record back: what it acknowledges is durable *)
LEMMA RelitCopieDur ==
    ASSUME IInv, DurInv, NEW f \in Fils, RelitCopie(f), UNCHANGED <<phase, passage, session>>
    PROVE  DurInv'
<1>1. FilInv /\ DisqueInv /\ MetaInv /\ EcrivainBon(f) /\ fil[f].pc = "relit"
  BY DEF IInv, DurInv, RelitCopie
<1>2. UNCHANGED <<copie, copieApres, expose>>
  BY DEF RelitCopie, DisqueInchange, disque
<1>3. \A g \in Fils : Reste(g)
  <2>1. PICK pc \in {"persiste_ok", "echec"} : Vers(f, pc)
    BY DEF RelitCopie
  <2> QED BY <1>1, <2>1, VersReste DEF Meta
<1>4. CASE accuse' = accuse
  BY <1>2, <1>3, <1>4, CalmeDur
<1>5. CASE /\ copie[fil[f].i] = fil[f].n
           /\ accuse' = IF fil[f].n.sequence > accuse THEN fil[f].n.sequence ELSE accuse
  <2> DEFINE n == fil[f].n
             i == fil[f].i
  <2>1. /\ Lu' = Lu /\ (Lisible' <=> Lisible) /\ MetaInv'
        /\ EnregistrementsPossibles' = EnregistrementsPossibles
    BY <1>1, <1>2, MetaInchange
  <2>2. Valide(n) /\ i \in 0..1 /\ n.sequence \in Nat /\ n # Illisible /\ accuse \in Nat
    BY <1>1, CopieAssumption DEF FilInv, AppelBon, Appel, Valide, Enregistrement, DurInv
  <2>3. copieApres[i] = {n}
    BY <1>1, <1>5 DEF EcrivainBon
  <2>4. Issues(copieApres[i], Illisible) = {n}
    BY <2>3, IssuesUn
  <2>5. ASSUME NEW e \in EnregistrementsPossibles PROVE e.sequence \in Nat /\ e.sequence >= n.sequence
    <3>1. PICK c0 \in Issues(copieApres[0], Illisible), c1 \in Issues(copieApres[1], Illisible) :
             e = Resultat(c0, c1)
      BY <1>1, <2>5, PossiblesDe DEF MetaInv
    <3>2. (c0 = Illisible \/ Valide(c0)) /\ (c1 = Illisible \/ Valide(c1))
      BY <1>1, IssuesBornes, BlocsValides
    <3>3. (i = 0 /\ c0 = n) \/ (i = 1 /\ c1 = n)
      BY <2>2, <2>4
    <3>4. n.sequence <= e.sequence
      BY <2>2, <3>1, <3>2, <3>3, Maximum
    <3>5. e \in {c0, c1} /\ e # Illisible
      BY <2>2, <3>1, <3>2, <3>3, Selection
    <3>6. Valide(e)
      BY <3>2, <3>5
    <3>7. e.sequence \in Nat
      BY <3>6 DEF Valide, Enregistrement
    <3> QED BY <2>2, <3>4, <3>7
  <2>6. accuse' \in Nat /\ AccuseDurable'
    <3>1. accuse' \in Nat /\ (accuse' = accuse \/ accuse' = n.sequence)
      BY <1>5, <2>2
    <3>2. AccuseDurable
      BY DEF DurInv
    <3> QED BY <1>2, <2>1, <2>5, <3>1, <3>2 DEF AccuseDurable
  <2>7. /\ \A g \in Fils : EcrivainBon(g)'
    <3> SUFFICES ASSUME NEW g \in Fils PROVE EcrivainBon(g)'
      OBVIOUS
    <3>1. EcrivainBon(g) /\ Reste(g)
      BY <1>3 DEF DurInv
    <3> QED BY <1>2, <2>1, <3>1 DEF EcrivainBon, Reste, Meta
  <2>8. PhaseInv' /\ SerieInv'
    <3>1. "chargeur" \in Fils /\ "sante" \in Fils /\ "installe" \in Fils /\ "console" \in Fils
      BY DEF Fils
    <3>2. Reste("chargeur") /\ Reste("sante") /\ Reste("installe") /\ Reste("console")
      BY <1>3, <3>1
    <3>3. PhaseInv'
      BY <3>2 DEF DurInv, PhaseInv, Reste
    <3>4. SerieInv'
      BY <2>1, <3>2 DEF DurInv, SerieInv, Reste, Meta
    <3> QED BY <3>3, <3>4
  <2> QED BY <2>1, <2>6, <2>7, <2>8 DEF DurInv
<1> QED BY <1>4, <1>5 DEF RelitCopie

(* one request of persiste() or ecrit_compteur() *)
LEMMA EntreeSortieDur ==
    ASSUME IInv, DurInv, NEW f \in Fils, EntreeSortie(f)
    PROVE  DurInv'
<1>0. UNCHANGED <<phase, passage, session>> /\ FilInv
  BY DEF EntreeSortie, IInv
<1>1. CASE LitCopies(f)
  BY <1>0, <1>1, LitCopiesDur
<1>2. CASE EcritCopie(f)
  BY <1>0, <1>2, EcritCopieDur
<1>3. CASE VideCopie(f)
  <2>0. accuse' = accuse /\ fil[f].pc = "vidange"
    BY <1>3 DEF VideCopie, histoire
  <2>1. CASE Vidange /\ Vers(f, "relit")
    <3>1. /\ fil'[f].pc = "relit" /\ fil'[f].n = fil[f].n /\ fil'[f].i = fil[f].i
          /\ \A g \in Fils \ {f} : fil'[g] = fil[g]
      BY <1>0, <2>1, VersFaits
    <3>2. \A g \in Fils \ {f} : Reste(g)
      BY <3>1 DEF Reste
    <3> QED BY <1>0, <2>0, <2>1, <3>1, <3>2, VideDur
  <2>2. CASE Vers(f, "echec") /\ DisqueInchange
    <3>1. \A g \in Fils : Reste(g)
      BY <1>0, <2>0, <2>2, VersReste DEF Meta
    <3> QED BY <1>0, <2>0, <2>2, <3>1, CalmeDur DEF DisqueInchange, disque
  <2> QED BY <1>3, <2>1, <2>2 DEF VideCopie
<1>4. CASE RelitCopie(f)
  BY <1>0, <1>4, RelitCopieDur
<1>5. CASE EcritCompteur(f)
  <2>1. UNCHANGED <<copie, copieApres, expose, accuse>>
    BY <1>5 DEF EcritCompteur, EcritBlocCompteur, DisqueInchange, disque
  <2>2. PICK pc \in {"compte_vidange", "compte_echec"} : Vers(f, pc)
    BY <1>5 DEF EcritCompteur
  <2>3. \A g \in Fils : Reste(g)
    BY <1>0, <1>5, <2>2, VersReste DEF Meta, EcritCompteur
  <2> QED BY <1>0, <2>1, <2>3, CalmeDur
<1>6. CASE VideCompteur(f)
  <2>0. accuse' = accuse
    BY <1>6 DEF VideCompteur
  <2>1. PICK pc \in {"compte_ok", "compte_echec"} : Vers(f, pc)
    BY <1>6 DEF VideCompteur
  <2>2. \A g \in Fils : Reste(g)
    BY <1>0, <1>6, <2>1, VersReste DEF Meta, VideCompteur
  <2>3. CASE Vidange
    BY <1>0, <2>0, <2>2, <2>3, VideDur
  <2>4. CASE DisqueInchange
    BY <1>0, <2>0, <2>2, <2>4, CalmeDur DEF DisqueInchange, disque
  <2> QED BY <1>6, <2>3, <2>4 DEF VideCompteur
<1> QED BY <1>1, <1>2, <1>3, <1>4, <1>5, <1>6 DEF EntreeSortie

-----------------------------------------------------------------------------
(* The steps of the loader, the kernel and the console *)

(* The loader is alone: no other call runs in its phase.                   *)
LEMMA PasDuChargeur ==
    ASSUME IInv, DurInv, phase = "chargeur",
           UNCHANGED <<copie, copieApres, expose, accuse, session>>,
           \A g \in Fils \ {"chargeur"} : fil'[g] = fil[g],
           EcrivainBon("chargeur")',
           fil'["chargeur"].pc # "repos" => phase' = "chargeur"
    PROVE  DurInv'
<1>1. "chargeur" \in Fils /\ {"sante", "installe", "console"} = Fils \ {"chargeur"}
  BY DEF Fils
<1>2. \A g \in Fils : EcrivainBon(g)'
  BY <1>1, EcrivainsMaj
<1>3. /\ fil'["sante"].pc = "repos" /\ fil'["installe"].pc = "repos" /\ fil'["console"].pc = "repos"
      /\ session' = Aucun
  BY <1>1 DEF DurInv, PhaseInv
<1>4. PhaseInv' /\ SerieInv'
  BY <1>3 DEF PhaseInv, SerieInv
<1>5. MetaInv' /\ EnregistrementsPossibles' = EnregistrementsPossibles
  BY MetaInchange DEF DurInv
<1>6. AccuseDurable' /\ accuse' \in Nat
  BY <1>5, AccuseGarde DEF DurInv
<1> QED BY <1>2, <1>4, <1>5, <1>6 DEF DurInv

(* every step of the loader's decision *)
LEMMA ChargeurDur ==
    ASSUME IInv, DurInv, Chargeur
    PROVE  DurInv'
<1>0. "chargeur" \in Fils /\ FilInv /\ fil["chargeur"] \in Appel
  BY DEF Fils, IInv, FilInv
<1>1. phase = "chargeur" /\ UNCHANGED <<copie, copieApres, expose, accuse, session>>
  BY DEF Chargeur, DecideRecovery, Choisit, Raisonne, Compte, Saute, DisqueInchange, disque, histoire
<1>2. ASSUME fil' = [fil EXCEPT !["chargeur"] = Repos] PROVE DurInv'
  <2>1. fil'["chargeur"] = Repos /\ \A g \in Fils \ {"chargeur"} : fil'[g] = fil[g]
    BY <1>0, <1>2, MajFaits
  <2>2. fil'["chargeur"].pc = "repos"
    BY <2>1 DEF Repos, Demande
  <2> QED BY <1>1, <2>1, <2>2, HorsMeta, PasDuChargeur
<1>3. ASSUME NEW a, fil' = [fil EXCEPT !["chargeur"] = a], a.pc \notin Meta, phase' = phase PROVE DurInv'
  <2>1. fil'["chargeur"] = a /\ \A g \in Fils \ {"chargeur"} : fil'[g] = fil[g]
    BY <1>0, <1>3, MajFaits
  <2> QED BY <1>1, <1>3, <2>1, HorsMeta, PasDuChargeur DEF Meta
<1>4. CASE DecideRecovery
  BY <1>2, <1>4 DEF DecideRecovery, EntreRecovery
<1>5. CASE Choisit
  <2> DEFINE ch == ChoisitBoot(Lu)
             pc == IF ch.apres = Lu THEN "decide" ELSE "persiste"
             a  == [fil["chargeur"] EXCEPT !.pc = pc, !.n = ch.apres, !.slot = ch.slot,
                                           !.raison = "Actif", !.seq = Lu.sequence]
  <2>1. fil' = [fil EXCEPT !["chargeur"] = a] /\ phase' = phase /\ Lisible
    BY <1>5, Zenon DEF Choisit
  <2>2. Valide(Lu)
    BY <2>1, LuValide DEF IInv
  <2>3. ch.apres # Lu => ch.apres.sequence = Lu.sequence + 1
    BY <2>2, SuccesseurChoisi
  <2>4. pc \in {"decide", "persiste"} /\ (pc = "persiste" => ch.apres # Lu)
    OBVIOUS
  <2> HIDE DEF pc, ch
  <2>5. a.pc = pc /\ a.n = ch.apres
    BY <1>0 DEF Appel
  <2> HIDE DEF a
  <2>6. fil'["chargeur"] = a /\ \A g \in Fils \ {"chargeur"} : fil'[g] = fil[g]
    BY <1>0, <2>1, MajFaits
  <2>7. Lu' = Lu /\ (Lisible' <=> Lisible)
    BY <1>1, MetaInchange
  <2>8. EcrivainBon("chargeur")'
    BY <2>1, <2>3, <2>4, <2>5, <2>6, <2>7 DEF EcrivainBon
  <2> QED BY <1>1, <2>1, <2>6, <2>8, PasDuChargeur
<1>6. CASE Raisonne
  <2> DEFINE c == fil["chargeur"]
             candidat == c.n.actif # c.slot
             a1 == [c EXCEPT !.pc = "decide", !.seq = c.n.sequence,
                             !.raison = IF candidat THEN "CandidatEssaiConsomme"
                                                    ELSE "RollbackCandidatEpuise"]
             a2 == [c EXCEPT !.pc = "decide", !.slot = c.n.actif,
                             !.raison = IF candidat THEN "PersistanceImpossibleReplieActif"
                                                    ELSE "RollbackNonPersiste"]
  <2>1. a1.pc = "decide" /\ a2.pc = "decide"
    BY <1>0 DEF Appel
  <2>2. fil' = [fil EXCEPT !["chargeur"] = IF c.pc = "persiste_ok" THEN a1 ELSE a2] /\ phase' = phase
    BY <1>6, Zenon DEF Raisonne
  <2> HIDE DEF a1, a2
  <2> QED BY <1>3, <2>1, <2>2 DEF Meta
<1>7. CASE Compte
  <2>1. PICK lu \in {compteur, 0} :
          IF VersRecovery(lu, fil["chargeur"].raison)
          THEN EntreRecovery("RecoveryEchecsRepetes", fil["chargeur"].n.actif, fil["chargeur"].seq)
          ELSE /\ fil' = [fil EXCEPT !["chargeur"] =
                    [@ EXCEPT !.pc = IF CompteurAvantBoot(lu, fil["chargeur"].raison) = lu
                                     THEN "compte_ok" ELSE "compte",
                              !.val = CompteurAvantBoot(lu, fil["chargeur"].raison)]]
               /\ UNCHANGED <<phase, passage>>
    BY <1>7 DEF Compte
  <2>2. CASE VersRecovery(lu, fil["chargeur"].raison)
    BY <1>2, <2>1, <2>2 DEF EntreRecovery
  <2>3. CASE ~VersRecovery(lu, fil["chargeur"].raison)
    <3> DEFINE v == CompteurAvantBoot(lu, fil["chargeur"].raison)
               pc == IF v = lu THEN "compte_ok" ELSE "compte"
               a == [fil["chargeur"] EXCEPT !.pc = pc, !.val = v]
    <3>1. pc \notin Meta
      BY DEF Meta
    <3>2. fil' = [fil EXCEPT !["chargeur"] = a] /\ phase' = phase
      BY <2>1, <2>3, Zenon
    <3> HIDE DEF v, pc
    <3>3. a.pc = pc
      BY <1>0 DEF Appel
    <3> HIDE DEF a
    <3> QED BY <1>3, <3>1, <3>2, <3>3
  <2> QED BY <2>2, <2>3
<1>8. CASE Saute
  BY <1>2, <1>8 DEF Saute, EntreRecovery
<1> QED BY <1>4, <1>5, <1>6, <1>7, <1>8 DEF Chargeur

(* A call of the kernel or the console starts.                             *)
LEMMA DebutDAppel ==
    ASSUME IInv, DurInv, NEW f \in Fils, NEW a, fil' = [fil EXCEPT ![f] = a],
           UNCHANGED <<copie, copieApres, expose, accuse, phase, passage>>,
           session' # Aucun => session # Aucun,
           a.pc \notin Meta \/ (a.pc = "persiste" /\ Lisible /\ a.n.sequence = Lu.sequence + 1),
           \/ f = "sante" /\ phase = "noyau"
              /\ (a.pc \in Meta => passage # Aucun /\ Lu.actif # passage.slot)
           \/ f = "installe" /\ phase = "noyau"
              /\ passage # Aucun /\ Lisible /\ Lu.actif = passage.slot /\ a.n.actif = passage.slot
           \/ f = "console" /\ phase = "recovery"
    PROVE  DurInv'
<1>1. /\ Lu' = Lu /\ (Lisible' <=> Lisible) /\ MetaInv'
      /\ EnregistrementsPossibles' = EnregistrementsPossibles
  BY MetaInchange DEF DurInv
<1>2. AccuseDurable' /\ accuse' \in Nat
  BY <1>1, AccuseGarde DEF DurInv
<1>3. fil'[f] = a /\ \A g \in Fils \ {f} : fil'[g] = fil[g]
  BY MajFaits DEF IInv
<1>4. EcrivainBon(f)'
  BY <1>1, <1>3 DEF EcrivainBon, Meta
<1>5. \A g \in Fils : EcrivainBon(g)'
  BY <1>3, <1>4, EcrivainsMaj
<1>6. "chargeur" \in Fils /\ "sante" \in Fils /\ "installe" \in Fils /\ "console" \in Fils
  BY DEF Fils
<1>7. PhaseInv' /\ SerieInv'
  <2>1. CASE f = "sante"
    <3>1. /\ fil'["chargeur"] = fil["chargeur"] /\ fil'["installe"] = fil["installe"]
          /\ fil'["console"] = fil["console"] /\ fil'["sante"] = a
      BY <1>3, <1>6, <2>1
    <3>2. PhaseInv'
      BY <2>1, <3>1 DEF DurInv, PhaseInv
    <3> QED BY <1>1, <2>1, <3>1, <3>2 DEF DurInv, SerieInv, Meta
  <2>2. CASE f = "installe"
    <3>1. /\ fil'["chargeur"] = fil["chargeur"] /\ fil'["sante"] = fil["sante"]
          /\ fil'["console"] = fil["console"] /\ fil'["installe"] = a
      BY <1>3, <1>6, <2>2
    <3>2. PhaseInv'
      BY <2>2, <3>1 DEF DurInv, PhaseInv
    <3> QED BY <1>1, <2>2, <3>1, <3>2 DEF DurInv, SerieInv, Meta
  <2>3. CASE f = "console"
    <3>1. /\ fil'["chargeur"] = fil["chargeur"] /\ fil'["sante"] = fil["sante"]
          /\ fil'["installe"] = fil["installe"] /\ fil'["console"] = a
      BY <1>3, <1>6, <2>3
    <3>2. PhaseInv'
      BY <2>3, <3>1 DEF DurInv, PhaseInv
    <3> QED BY <1>1, <2>3, <3>1, <3>2 DEF DurInv, SerieInv, Meta
  <2> QED BY <2>1, <2>2, <2>3
<1> QED BY <1>1, <1>2, <1>5, <1>7 DEF DurInv

(* the health commit: a promotion runs only while the running slot is not  *)
(* the active one                                                          *)
LEMMA SanteDur ==
    ASSUME IInv, DurInv, Sante
    PROVE  DurInv'
<1>0. "sante" \in Fils /\ FilInv
  BY DEF Fils, IInv
<1>1. CASE DeclareSain
  <2>0. /\ UNCHANGED <<copie, copieApres, expose, accuse, phase, passage, session>>
        /\ phase = "noyau" /\ passage # Aucun /\ Lisible
    BY <1>1 DEF DeclareSain, NoyauPret, DisqueInchange, disque
  <2>1. CASE fil' = [fil EXCEPT !["sante"] = Demande("compte", Illisible, Aucun)]
    <3>1. Demande("compte", Illisible, Aucun).pc = "compte" /\ "compte" \notin Meta
      BY DEF Demande, Meta
    <3> QED BY <1>0, <2>0, <2>1, <3>1, DebutDAppel
  <2>2. CASE /\ PeutPromouvoir(passage, Lu)
             /\ fil' = [fil EXCEPT !["sante"] = Demande("persiste", SanteOk(Lu, passage.slot), Aucun)]
    <3> DEFINE n == SanteOk(Lu, passage.slot)
               a == Demande("persiste", n, Aucun)
    <3>1. Valide(Lu) /\ passage.slot \in Slots
      BY <2>0, LuValide DEF IInv, ResteInv, Passage
    <3>2. Lu.slots[passage.slot].etat = "Candidat" /\ Lu.actif # passage.slot
      BY <2>2, <3>1 DEF PeutPromouvoir, Valide
    <3>3. n.sequence = Lu.sequence + 1
      BY <3>1, <3>2 DEF SanteOk, AvecEtat, AvecSlot
    <3>4. a.pc = "persiste" /\ a.n = n
      BY DEF Demande
    <3> HIDE DEF a, n
    <3>5. fil' = [fil EXCEPT !["sante"] = a]
      BY <2>2 DEF a, n
    <3> QED BY <1>0, <2>0, <3>2, <3>3, <3>4, <3>5, DebutDAppel
  <2> QED BY <1>1, <2>1, <2>2 DEF DeclareSain
<1>2. CASE SantePersiste
  <2>1. \A g \in Fils : Reste(g)
    BY <1>0, <1>2, VersReste DEF SantePersiste, Meta
  <2> QED BY <1>2, <2>1, CalmeDur DEF SantePersiste, DisqueInchange, disque
<1>3. CASE SanteRend
  <2>1. \A g \in Fils : Reste(g)
    BY <1>0, <1>3, ReposReste DEF SanteRend
  <2> QED BY <1>3, <2>1, CalmeDur DEF SanteRend, DisqueInchange, disque, histoire
<1> QED BY <1>1, <1>2, <1>3 DEF Sante

(* the recovery console *)
LEMMA ConsoleDur ==
    ASSUME IInv, DurInv, Console
    PROVE  DurInv'
<1>0. "console" \in Fils /\ FilInv
  BY DEF Fils, IInv
<1>1. CASE RollbackManuel
  <2> DEFINE a == Demande("persiste", Revient(Lu), Aucun)
  <2>0. /\ UNCHANGED <<copie, copieApres, expose, accuse, phase, passage, session>>
        /\ phase = "recovery" /\ Lisible
    BY <1>1 DEF RollbackManuel, ConsolePrete, DisqueInchange, disque, histoire
  <2>1. a.pc = "persiste" /\ a.n.sequence = Lu.sequence + 1
    BY DEF Demande, Revient
  <2>2. fil' = [fil EXCEPT !["console"] = a]
    BY <1>1 DEF RollbackManuel
  <2> HIDE DEF a
  <2> QED BY <1>0, <2>0, <2>1, <2>2, DebutDAppel
<1>2. CASE RollbackPersiste
  <2>1. \A g \in Fils : Reste(g)
    BY <1>0, <1>2, VersReste DEF RollbackPersiste, Meta
  <2> QED BY <1>2, <2>1, CalmeDur DEF RollbackPersiste, DisqueInchange, disque
<1>3. CASE RemetCompteur
  <2> DEFINE a == Demande("compte", Illisible, Aucun)
  <2>0. /\ UNCHANGED <<copie, copieApres, expose, accuse, phase, passage, session>>
        /\ phase = "recovery"
    BY <1>3 DEF RemetCompteur, ConsolePrete, DisqueInchange, disque
  <2>1. a.pc \notin Meta
    BY DEF Demande, Meta
  <2>2. fil' = [fil EXCEPT !["console"] = a]
    BY <1>3 DEF RemetCompteur
  <2> HIDE DEF a
  <2> QED BY <1>0, <2>0, <2>1, <2>2, DebutDAppel
<1>4. CASE ConsoleRend
  <2>1. \A g \in Fils : Reste(g)
    BY <1>0, <1>4, ReposReste DEF ConsoleRend
  <2> QED BY <1>4, <2>1, CalmeDur DEF ConsoleRend, DisqueInchange, disque, histoire
<1> QED BY <1>1, <1>2, <1>3, <1>4 DEF Console

(* the installation calls *)
LEMMA InstalleDur ==
    ASSUME IInv, DurInv, Installe
    PROVE  DurInv'
<1>0. "installe" \in Fils /\ FilInv
  BY DEF Fils, IInv
<1>1. ASSUME NEW pid \in Pids, NEW cible \in Slots, NEW image \in Images, NEW essais \in 1..EssaisMax,
             Commence(pid, cible, image, essais)
      PROVE  DurInv'
  <2> DEFINE n == CommenceInstallation(Lu, cible)
             a == Demande("persiste", n, NouvelleSession(pid, cible, image, essais))
  <2>0. /\ UNCHANGED <<copie, copieApres, expose, accuse, phase, passage, session>>
        /\ phase = "noyau" /\ passage # Aucun /\ Lisible
        /\ PeutCommencer(Lu, cible, passage.slot)
    BY <1>1 DEF Commence, NoyauPret, DisqueInchange, disque, histoire
  <2>1. Lu.actif \in Slots /\ passage.slot \in Slots
    BY <2>0, BlocsValides DEF IInv, ResteInv, Passage
  <2>2. Lu.actif = passage.slot
    BY <2>0, <2>1 DEF PeutCommencer, Slots
  <2>3. a.pc = "persiste" /\ a.n.sequence = Lu.sequence + 1 /\ a.n.actif = Lu.actif
    BY DEF Demande, CommenceInstallation, AvecSlot
  <2>4. fil' = [fil EXCEPT !["installe"] = a]
    BY <1>1 DEF Commence
  <2> HIDE DEF a
  <2> QED BY <1>0, <2>0, <2>2, <2>3, <2>4, DebutDAppel
<1>2. ASSUME NEW pid \in Pids, NEW k \in Morceaux, NEW image \in Images, Ecrit(pid, k, image)
      PROVE  DurInv'
  <2>1. /\ UNCHANGED <<copie, copieApres, expose, accuse, phase, passage>> /\ session # Aucun
    BY <1>2 DEF Ecrit, EnSession, EcritMorceau, DisqueInchange, disque, histoire
  <2>2. \A g \in Fils : Reste(g)
    BY <1>2 DEF Ecrit, Reste
  <2> QED BY <2>1, <2>2, CalmeDur
<1>3. ASSUME NEW pid \in Pids, Verifie(pid)
      PROVE  DurInv'
  <2>1. UNCHANGED <<accuse, phase, passage>> /\ session # Aucun
    BY <1>3 DEF Verifie, EnSession, histoire
  <2>2. \A g \in Fils : Reste(g)
    BY <1>3 DEF Verifie, Reste
  <2>3. CASE Vidange
    BY <2>1, <2>2, <2>3, VideDur
  <2>4. CASE DisqueInchange
    BY <2>1, <2>2, <2>4, CalmeDur DEF DisqueInchange, disque
  <2> QED BY <1>3, <2>3, <2>4 DEF Verifie
<1>4. ASSUME NEW pid \in Pids, Termine(pid)
      PROVE  DurInv'
  <2> DEFINE n == MarqueCandidat(Lu, session.cible, session.attendu, session.essais)
             a == Demande("persiste", n, Aucun)
  <2>0. /\ UNCHANGED <<copie, copieApres, expose, accuse, phase, passage>>
        /\ phase = "noyau" /\ passage # Aucun /\ Lisible /\ session # Aucun
    BY <1>4 DEF Termine, EnSession, NoyauPret, DisqueInchange, disque
  <2>1. Lu.actif = passage.slot
    BY <2>0 DEF DurInv, SerieInv
  <2>2. a.pc = "persiste" /\ a.n.sequence = Lu.sequence + 1 /\ a.n.actif = Lu.actif
    BY DEF Demande, MarqueCandidat, AvecSlot
  <2>3. fil' = [fil EXCEPT !["installe"] = a]
    BY <1>4 DEF Termine
  <2> HIDE DEF a
  <2> QED BY <1>0, <2>0, <2>1, <2>2, <2>3, DebutDAppel
<1>5. CASE DebutSession
  <2>1. \A g \in Fils : Reste(g)
    BY <1>0, <1>5, ReposReste DEF DebutSession
  <2> QED BY <1>5, <2>1, CalmeDur DEF DebutSession, DisqueInchange, disque, histoire
<1>6. CASE FinSession
  <2>1. \A g \in Fils : Reste(g)
    BY <1>0, <1>6, ReposReste DEF FinSession
  <2> QED BY <1>6, <2>1, CalmeDur DEF FinSession, DisqueInchange, disque, histoire
<1>7. CASE InstalleEchoue
  <2>1. \A g \in Fils : Reste(g)
    BY <1>0, <1>7, ReposReste DEF InstalleEchoue
  <2> QED BY <1>7, <2>1, CalmeDur DEF InstalleEchoue, DisqueInchange, disque, histoire
<1> QED BY <1>1, <1>2, <1>3, <1>4, <1>5, <1>6, <1>7 DEF Installe

(* reset and power loss: nothing is in flight, and one of the records that *)
(* could be left is                                                        *)
LEMMA EnvironnementDur ==
    ASSUME IInv, DurInv, Redemarre \/ Coupure
    PROVE  DurInv'
<1>1. RamPerdue /\ accuse' = accuse
  BY DEF Redemarre, Coupure
<1>2. /\ \A f \in Fils : fil'[f] = Repos /\ fil'[f].pc = "repos"
      /\ session' = Aucun
  BY <1>1 DEF RamPerdue, Repos, Demande
<1>3. \A f \in Fils : EcrivainBon(f)'
  BY <1>2, HorsMeta
<1>4. PhaseInv' /\ SerieInv'
  BY <1>2 DEF PhaseInv, SerieInv, Fils
<1>5. CASE Redemarre
  <2>1. MetaInv' /\ EnregistrementsPossibles' = EnregistrementsPossibles /\ expose' = expose
    BY <1>5, MetaInchange DEF Redemarre, DisqueInchange, disque, DurInv
  <2> QED BY <1>1, <1>3, <1>4, <2>1, AccuseGarde DEF DurInv
<1>6. CASE Coupure
  BY <1>1, <1>3, <1>4, <1>6, MetaCoupe, AccuseGarde DEF DurInv, IInv
<1> QED BY <1>5, <1>6

(* the delivered machine *)
LEMMA InitDur == Init => DurInv
<1> SUFFICES ASSUME Init PROVE DurInv
  OBVIOUS
<1> DEFINE e == Initial("A", ImageInitiale)
<1>1. Valide(e) /\ e.sequence = 1 /\ e # Illisible
  BY InitialValide, CopieAssumption DEF Valide
<1>2. /\ copie[0] = e /\ copie[1] = e /\ copieApres[0] = {e} /\ copieApres[1] = {e}
      /\ \A i \in 0..1 : copie[i] = e /\ copieApres[i] = {e}
  BY DEF Init
<1> HIDE DEF e
<1>3. ApresInv /\ Sur = {e}
  <2>1. IsFiniteSet({e})
    BY FS_Singleton
  <2>2. ApresInv
    BY <1>2, <2>1 DEF ApresInv
  <2> QED BY <1>1, <1>2, <2>2 DEF Sur
<1>4. Lisible /\ Lu = e
  BY <1>1, <1>2, Selection DEF Lisible, Lu
<1>5. MetaInv
  BY <1>1, <1>3, <1>4 DEF MetaInv, RecentInv, EgauxInv
<1>6. \A f \in Fils : fil[f].pc = "repos"
  BY DEF Init, Repos, Demande
<1>7. (\A f \in Fils : EcrivainBon(f)) /\ session = Aucun
  BY <1>6 DEF EcrivainBon, Init
<1>8. PhaseInv /\ SerieInv
  BY <1>6, <1>7 DEF PhaseInv, SerieInv, Fils
<1>9. \A x \in EnregistrementsPossibles : x = e
  <2>1. Issues(copieApres[0], Illisible) = {e} /\ Issues(copieApres[1], Illisible) = {e}
    BY <1>2, IssuesUn
  <2>2. Resultat(e, e) = e
    BY <1>1, Selection DEF Resultat
  <2> QED BY <1>3, <2>1, <2>2, PossiblesDe
<1>10. accuse \in Nat /\ AccuseDurable
  BY <1>1, <1>9 DEF Init, AccuseDurable
<1> QED BY <1>5, <1>7, <1>8, <1>10 DEF DurInv

(* every step keeps the invariant *)
LEMMA NextDur == IInv /\ DurInv /\ [Next]_vars => DurInv'
<1> SUFFICES ASSUME IInv, DurInv, [Next]_vars PROVE DurInv'
  OBVIOUS
<1>1. CASE Next
  BY <1>1, ChargeurDur, SanteDur, InstalleDur, ConsoleDur, EntreeSortieDur, EnvironnementDur DEF Next
<1>2. CASE UNCHANGED vars
  <2>1. \A g \in Fils : Reste(g)
    BY <1>2 DEF vars, Reste
  <2> QED BY <1>2, <2>1, CalmeDur DEF vars, disque, histoire
<1> QED BY <1>1, <1>2

(* I1 and I4 of ab.rs: whatever the interleaving of the loader, the health *)
(* commit and the installation, the failed requests and the power losses,  *)
(* the loader finds a valid record, never older than the last one that     *)
(* persiste() acknowledged.                                                *)
THEOREM AccusePermanent == Spec => []AccuseDurable
<1>1. IInv /\ DurInv /\ [Next]_vars => IInv' /\ DurInv'
  BY NextInv, NextDur
<1>2. Init => IInv /\ DurInv
  BY InitInv, InitDur
<1>3. DurInv => AccuseDurable
  BY DEF DurInv
<1> QED BY <1>1, <1>2, <1>3, PTL DEF Spec

-----------------------------------------------------------------------------
(* The counter of unconfirmed boots.  What the boots that really happened  *)
(* exceed the counter by is paid for by the times the loader lost count,   *)
(* SEUIL each, whatever value a power loss leaves in the block; and the    *)
(* loader writes the next value before it jumps, or loses count.           *)

Compteurs == compteurApres \cup {compteur}

(* an active boot counts *)
Normal(a) == IF a.raison = "Actif" THEN 1 ELSE 0

(* the boots the losses of count allow *)
Marge == SEUIL * perdus

(* the loader is past the reading of the counter *)
AvantSaut == {"compte", "compte_vidange", "compte_ok", "compte_echec"}

ChargeurCompte ==
    LET a == fil["chargeur"] IN
    /\ a.pc = "decide" /\ a.raison = "RollbackCandidatEpuise" => deSuite = 0
    /\ a.pc \in {"compte", "compte_vidange"} => deSuite + Normal(a) <= Marge + a.val
    /\ a.pc = "compte_vidange" => compteur = a.val
    /\ a.pc \in AvantSaut => deSuite + Normal(a) <= Marge + SEUIL
    /\ a.pc \in {"compte_ok", "compte_echec"} => \A v \in Compteurs : deSuite + Normal(a) <= Marge + v

CompteInv ==
    /\ deSuite \in Nat /\ perdus \in Nat
    /\ deSuite <= Marge + SEUIL
    /\ \A v \in Compteurs : deSuite <= Marge + v
    /\ ChargeurCompte
    /\ fil["sante"].pc # "repos" => deSuite = 0
    /\ fil["console"].pc \in {"compte", "compte_vidange"} => deSuite = 0
    /\ fil["installe"].pc \notin {"compte", "compte_vidange"}

(* the four calls *)
LEMMA QuatreFils ==
    /\ "chargeur" \in Fils /\ "sante" \in Fils /\ "installe" \in Fils /\ "console" \in Fils
    /\ \A f \in Fils : f \in {"chargeur", "sante", "installe", "console"}
BY DEF Fils

(* the counter and its possible values are numbers *)
LEMMA CompteursNat ==
    ASSUME IInv
    PROVE  compteur \in Nat /\ Compteurs \subseteq Nat /\ fil["chargeur"].val \in Nat
           /\ Normal(fil["chargeur"]) \in 0..1
BY QuatreFils DEF IInv, DisqueInv, FilInv, Appel, Compteurs, Normal

(* a loss of count pays for SEUIL boots *)
LEMMA MargeFaits ==
    ASSUME CompteInv
    PROVE  /\ Marge \in Nat /\ SEUIL \in Nat \ {0} /\ deSuite \in Nat /\ perdus \in Nat
           /\ perdus' = perdus => Marge' = Marge
           /\ perdus' = perdus + 1 => perdus' \in Nat /\ Marge' = Marge + SEUIL /\ Marge' \in Nat
<1>1. SEUIL \in Nat \ {0} /\ perdus \in Nat /\ deSuite \in Nat
  BY CoreAssumption DEF CompteInv
<1>2. ASSUME NEW s \in Nat, NEW p \in Nat PROVE s * p \in Nat /\ s * (p + 1) = s * p + s
  OBVIOUS
<1>3. Marge \in Nat
  BY <1>1, <1>2 DEF Marge
<1>4. perdus' = perdus => Marge' = Marge
  BY DEF Marge
<1>5. perdus' = perdus + 1 => perdus' \in Nat /\ Marge' = Marge + SEUIL /\ Marge' \in Nat
  BY <1>1, <1>2, <1>3 DEF Marge
<1> QED BY <1>1, <1>3, <1>4, <1>5

(* a step that does not touch the counter, and lets no boot happen *)
LEMMA CalmeCompte ==
    ASSUME IInv, CompteInv, compteur' = compteur, Compteurs' \subseteq Compteurs,
           deSuite' \in {deSuite, 0}, perdus' = perdus,
           \/ fil'["chargeur"] = fil["chargeur"]
           \/ /\ fil'["chargeur"].pc \notin AvantSaut
              /\ (fil'["chargeur"].pc = "decide" /\ fil'["chargeur"].raison = "RollbackCandidatEpuise")
                    => deSuite' = 0,
           fil'["sante"].pc # "repos" => (fil["sante"].pc # "repos" \/ deSuite' = 0),
           fil'["console"].pc \in {"compte", "compte_vidange"}
              => (fil["console"].pc \in {"compte", "compte_vidange"} \/ deSuite' = 0),
           fil'["installe"].pc \notin {"compte", "compte_vidange"}
    PROVE  CompteInv'
<1>1. /\ compteur \in Nat /\ Compteurs \subseteq Nat /\ fil["chargeur"].val \in Nat
      /\ Normal(fil["chargeur"]) \in 0..1
  BY CompteursNat
<1>m. /\ SEUIL \in Nat /\ deSuite \in Nat /\ perdus \in Nat /\ Marge \in Nat /\ Marge' = Marge
  BY MargeFaits
<1>p. deSuite' \in Nat /\ deSuite' <= deSuite
  BY <1>m
<1>2. /\ deSuite' \in Nat /\ perdus' \in Nat
      /\ deSuite' <= Marge' + SEUIL /\ \A v \in Compteurs' : deSuite' <= Marge' + v
  <2>1. deSuite <= Marge + SEUIL /\ \A v \in Compteurs : deSuite <= Marge + v
    BY DEF CompteInv
  <2> QED BY <1>1, <1>m, <2>1
<1>3. ChargeurCompte'
  <2>1. CASE fil'["chargeur"] = fil["chargeur"]
    <3> DEFINE a == fil["chargeur"]
               d == Normal(a)
    <3>1. d' = d /\ a' = a
      BY <2>1 DEF Normal
    <3>2. /\ a.pc = "decide" /\ a.raison = "RollbackCandidatEpuise" => deSuite = 0
          /\ a.pc \in {"compte", "compte_vidange"} => deSuite + d <= Marge + a.val
          /\ a.pc = "compte_vidange" => compteur = a.val
          /\ a.pc \in AvantSaut => deSuite + d <= Marge + SEUIL
          /\ a.pc \in {"compte_ok", "compte_echec"} => \A v \in Compteurs : deSuite + d <= Marge + v
      BY DEF CompteInv, ChargeurCompte
    <3>3. d \in Nat /\ a.val \in Nat
      BY <1>1
    <3> HIDE DEF a, d
    <3>4. \A b \in Nat : deSuite + d <= b => deSuite' + d <= b
      <4> SUFFICES ASSUME NEW b \in Nat, deSuite + d <= b PROVE deSuite' + d <= b
        OBVIOUS
      <4>1. deSuite \in Nat
        BY <1>m
      <4>2. CASE deSuite' = deSuite
        BY <4>2
      <4>3. CASE deSuite' = 0
        BY <3>3, <4>1, <4>3
      <4> QED BY <4>2, <4>3
    <3>5. a.pc = "decide" /\ a.raison = "RollbackCandidatEpuise" => deSuite' = 0
      BY <3>2
    <3>n. Marge + a.val \in Nat /\ Marge + SEUIL \in Nat /\ \A v \in Compteurs : Marge + v \in Nat
      BY <1>1, <1>m, <3>3
    <3>6. a.pc \in {"compte", "compte_vidange"} => deSuite' + d <= Marge' + a.val
      BY <1>m, <3>2, <3>4, <3>n
    <3>7. a.pc \in AvantSaut => deSuite' + d <= Marge' + SEUIL
      BY <1>m, <3>2, <3>4, <3>n
    <3>8. a.pc \in {"compte_ok", "compte_echec"} => \A v \in Compteurs' : deSuite' + d <= Marge' + v
      BY <1>m, <3>2, <3>4, <3>n
    <3> QED BY <3>1, <3>2, <3>5, <3>6, <3>7, <3>8 DEF ChargeurCompte, a, d
  <2>2. CASE /\ fil'["chargeur"].pc \notin AvantSaut
             /\ (fil'["chargeur"].pc = "decide" /\ fil'["chargeur"].raison = "RollbackCandidatEpuise")
                   => deSuite' = 0
    BY <2>2 DEF ChargeurCompte, AvantSaut
  <2> QED BY <2>1, <2>2
<1> QED BY <1>2, <1>3 DEF CompteInv

(* a flush leaves the value the device returns *)
LEMMA VidangeCompte ==
    ASSUME Vidange
    PROVE  compteur' = compteur /\ compteurApres' = {compteur} /\ Compteurs' \subseteq Compteurs
BY DEF Vidange, Compteurs

(* a step that leaves the counter alone *)
LEMMA CompteurInchange ==
    ASSUME UNCHANGED <<compteur, compteurApres>>
    PROVE  Compteurs' = Compteurs
BY DEF Compteurs

(* the loader's request on the counter block fails: the next boot may not  *)
(* be counted, and the loss pays for it                                    *)
LEMMA PerteCompte ==
    ASSUME IInv, CompteInv, PerdLeCompte("chargeur"), deSuite' = deSuite,
           NEW val \in Nat, Compteurs' \subseteq Compteurs \cup {val},
           deSuite + Normal(fil["chargeur"]) <= Marge + SEUIL,
           fil'["chargeur"].pc = "compte_echec", fil'["chargeur"].raison = fil["chargeur"].raison,
           fil'["sante"].pc = fil["sante"].pc, fil'["console"].pc = fil["console"].pc,
           fil'["installe"].pc = fil["installe"].pc
    PROVE  CompteInv'
<1>1. /\ Compteurs \subseteq Nat /\ Normal(fil["chargeur"]) \in 0..1
      /\ SEUIL \in Nat /\ deSuite \in Nat /\ Marge \in Nat
      /\ perdus' \in Nat /\ Marge' = Marge + SEUIL
  BY CompteursNat, MargeFaits DEF PerdLeCompte
<1>2. Normal(fil["chargeur"])' = Normal(fil["chargeur"])
  BY DEF Normal
<1>3. /\ \A v \in Compteurs' : v \in Nat
      /\ deSuite + Normal(fil["chargeur"]) <= Marge'
      /\ Marge' \in Nat
  BY <1>1
<1>4. \A v \in Compteurs' : deSuite' + Normal(fil["chargeur"]) <= Marge' + v /\ deSuite' <= Marge' + v
  BY <1>1, <1>3
<1>5. deSuite' \in Nat /\ deSuite' <= Marge' + SEUIL /\ deSuite' + Normal(fil["chargeur"]) <= Marge' + SEUIL
  BY <1>1, <1>3
<1>6. ChargeurCompte'
  BY <1>2, <1>4, <1>5 DEF ChargeurCompte, Normal
<1> QED BY <1>1, <1>4, <1>5, <1>6 DEF CompteInv

(* one request of persiste() or ecrit_compteur() *)
LEMMA EntreeSortieCompte ==
    ASSUME IInv, DurInv, CompteInv, NEW f \in Fils, EntreeSortie(f)
    PROVE  CompteInv'
<1>0. /\ FilInv /\ f \in {"chargeur", "sante", "installe", "console"}
      /\ "chargeur" \in Fils /\ "sante" \in Fils /\ "installe" \in Fils /\ "console" \in Fils
      /\ compteur \in Nat /\ Compteurs \subseteq Nat /\ fil["chargeur"].val \in Nat /\ fil[f].val \in Nat
      /\ Normal(fil["chargeur"]) \in 0..1
      /\ SEUIL \in Nat /\ deSuite \in Nat /\ perdus \in Nat /\ Marge \in Nat
  BY QuatreFils, CompteursNat, MargeFaits DEF IInv, FilInv, Appel
<1>m. ASSUME NEW pc, Vers(f, pc), fil[f].pc # "repos", pc \notin AvantSaut \cup {"decide"},
             compteur' = compteur, Compteurs' \subseteq Compteurs, deSuite' = deSuite, perdus' = perdus
      PROVE  CompteInv'
  <2>1. fil'[f].pc = pc /\ \A g \in Fils \ {f} : fil'[g] = fil[g]
    BY <1>0, <1>m, VersFaits
  <2>2. \A g \in Fils : fil'[g] = fil[g] \/ (fil[g].pc # "repos" /\ fil'[g].pc = pc)
    BY <1>m, <2>1
  <2>3. \/ fil'["chargeur"] = fil["chargeur"]
        \/ fil'["chargeur"].pc \notin AvantSaut \cup {"decide"}
    BY <1>0, <1>m, <2>2
  <2>4. fil'["sante"].pc # "repos" => fil["sante"].pc # "repos"
    BY <1>0, <1>m, <2>2
  <2>5. fil'["console"].pc \in {"compte", "compte_vidange"} => fil["console"].pc \in {"compte", "compte_vidange"}
    BY <1>0, <1>m, <2>2 DEF AvantSaut
  <2>6. fil'["installe"].pc \notin {"compte", "compte_vidange"}
    BY <1>0, <1>m, <2>2 DEF CompteInv, AvantSaut
  <2> QED BY <1>m, <2>3, <2>4, <2>5, <2>6, CalmeCompte
<1>f. ASSUME NEW pc, Vers(f, pc), fil[f].pc # "repos"
      PROVE  /\ fil'[f].pc = pc /\ fil'[f].val = fil[f].val /\ fil'[f].raison = fil[f].raison
             /\ \A g \in Fils \ {f} : fil'[g] = fil[g]
             /\ f # "chargeur" => fil'["chargeur"].pc = "repos"
             /\ f # "sante" => fil'["sante"].pc = fil["sante"].pc
             /\ f # "console" => fil'["console"].pc = fil["console"].pc
             /\ f # "installe" => fil'["installe"].pc = fil["installe"].pc
  <2>1. /\ fil'[f].pc = pc /\ fil'[f].val = fil[f].val /\ fil'[f].raison = fil[f].raison
        /\ \A g \in Fils \ {f} : fil'[g] = fil[g]
    BY <1>0, <1>f, VersFaits
  <2>2. f # "chargeur" => fil["chargeur"].pc = "repos"
    BY <1>0, <1>f DEF DurInv, PhaseInv
  <2> QED BY <1>0, <2>1, <2>2
<1>1. CASE LitCopies(f)
  <2>0. /\ fil[f].pc = "persiste" /\ deSuite' = deSuite /\ perdus' = perdus
        /\ compteur' = compteur /\ Compteurs' = Compteurs
    BY <1>1 DEF LitCopies, DisqueInchange, disque, histoire, Compteurs
  <2>1. CASE Vers(f, "echec")
    BY <1>m, <2>0, <2>1 DEF AvantSaut
  <2>2. CASE fil' = [fil EXCEPT ![f].pc = "ecrit", ![f].i = CopieAEcrire(copie[0], copie[1])]
    <3> DEFINE i == CopieAEcrire(copie[0], copie[1])
               a == [fil[f] EXCEPT !.pc = "ecrit", !.i = i]
    <3>1. fil' = [fil EXCEPT ![f] = a]
      BY <1>0, <2>2 DEF FilInv
    <3> HIDE DEF i
    <3>2. a.pc = "ecrit"
      BY <1>0 DEF FilInv, Appel
    <3> HIDE DEF a
    <3>3. fil'[f].pc = "ecrit" /\ \A g \in Fils \ {f} : fil'[g] = fil[g]
      BY <1>0, <3>1, <3>2, MajFaits
    <3>4. \/ fil'["chargeur"] = fil["chargeur"]
          \/ fil'["chargeur"].pc \notin AvantSaut \cup {"decide"}
      BY <1>0, <3>3 DEF AvantSaut
    <3>5. fil'["sante"].pc # "repos" => fil["sante"].pc # "repos"
      BY <1>0, <2>0, <3>3
    <3>6. fil'["console"].pc \in {"compte", "compte_vidange"} => fil["console"].pc \in {"compte", "compte_vidange"}
      BY <1>0, <3>3
    <3>7. fil'["installe"].pc \notin {"compte", "compte_vidange"}
      BY <1>0, <3>3 DEF CompteInv
    <3> QED BY <2>0, <3>4, <3>5, <3>6, <3>7, CalmeCompte
  <2> QED BY <1>1, <2>1, <2>2 DEF LitCopies
<1>2. CASE EcritCopie(f)
  <2>0. /\ fil[f].pc = "ecrit" /\ deSuite' = deSuite /\ perdus' = perdus
        /\ compteur' = compteur /\ Compteurs' = Compteurs
    BY <1>2 DEF EcritCopie, EcritBlocMeta, DisqueInchange, disque, histoire, Compteurs
  <2>1. PICK pc \in {"vidange", "echec"} : Vers(f, pc)
    BY <1>2 DEF EcritCopie
  <2> QED BY <1>m, <2>0, <2>1 DEF AvantSaut
<1>3. CASE VideCopie(f)
  <2>0. /\ fil[f].pc = "vidange" /\ deSuite' = deSuite /\ perdus' = perdus
        /\ compteur' = compteur /\ Compteurs' \subseteq Compteurs
    BY <1>3, VidangeCompte DEF VideCopie, DisqueInchange, disque, histoire, Compteurs
  <2>1. PICK pc \in {"relit", "echec"} : Vers(f, pc)
    BY <1>3 DEF VideCopie
  <2> QED BY <1>m, <2>0, <2>1 DEF AvantSaut
<1>4. CASE RelitCopie(f)
  <2>0. /\ fil[f].pc = "relit" /\ deSuite' = deSuite /\ perdus' = perdus
        /\ compteur' = compteur /\ Compteurs' = Compteurs
    BY <1>4 DEF RelitCopie, DisqueInchange, disque, Compteurs
  <2>1. PICK pc \in {"persiste_ok", "echec"} : Vers(f, pc)
    BY <1>4 DEF RelitCopie
  <2> QED BY <1>m, <2>0, <2>1 DEF AvantSaut
<1>5. CASE EcritCompteur(f)
  <2>0. fil[f].pc = "compte" /\ (f # "chargeur" => deSuite = 0) /\ f # "installe"
    BY <1>0, <1>5 DEF EcritCompteur, CompteInv
  <2>v. /\ deSuite <= Marge + fil[f].val
        /\ f = "chargeur" => /\ deSuite + Normal(fil["chargeur"]) <= Marge + fil["chargeur"].val
                             /\ deSuite + Normal(fil["chargeur"]) <= Marge + SEUIL
    <3>1. CASE f = "chargeur"
      <4>1. /\ deSuite + Normal(fil["chargeur"]) <= Marge + fil["chargeur"].val
            /\ deSuite + Normal(fil["chargeur"]) <= Marge + SEUIL
        BY <2>0, <3>1 DEF CompteInv, ChargeurCompte, AvantSaut
      <4> QED BY <1>0, <3>1, <4>1
    <3>2. CASE f # "chargeur"
      BY <1>0, <2>0, <3>2
    <3> QED BY <3>1, <3>2
  <2>1. CASE EcritBlocCompteur(fil[f].val) /\ Vers(f, "compte_vidange") /\ UNCHANGED perdus
    <3>1. /\ compteur' = fil[f].val /\ Compteurs' \subseteq Compteurs \cup {fil[f].val}
          /\ deSuite' = deSuite /\ perdus' = perdus /\ Marge' = Marge
      BY <1>5, <2>1, MargeFaits DEF EcritBlocCompteur, EcritCompteur, Compteurs
    <3>2. \A v \in Compteurs' : deSuite' <= Marge' + v
      BY <2>v, <3>1 DEF CompteInv
    <3>3. /\ fil'[f].pc = "compte_vidange" /\ fil'[f].val = fil[f].val /\ fil'[f].raison = fil[f].raison
          /\ f # "chargeur" => fil'["chargeur"].pc = "repos"
          /\ f # "sante" => fil'["sante"].pc = fil["sante"].pc
          /\ f # "console" => fil'["console"].pc = fil["console"].pc
          /\ f # "installe" => fil'["installe"].pc = fil["installe"].pc
      BY <1>f, <2>0, <2>1
    <3>4. ChargeurCompte'
      <4>1. CASE f = "chargeur"
        <5>1. Normal(fil["chargeur"])' = Normal(fil["chargeur"])
          BY <3>3, <4>1 DEF Normal
        <5> QED BY <2>v, <3>1, <3>3, <4>1, <5>1 DEF ChargeurCompte, Normal
      <4>2. CASE f # "chargeur"
        BY <3>3, <4>2 DEF ChargeurCompte, AvantSaut
      <4> QED BY <4>1, <4>2
    <3>5. deSuite' \in Nat /\ perdus' \in Nat /\ deSuite' <= Marge' + SEUIL
      BY <1>0, <3>1 DEF CompteInv
    <3> QED BY <1>0, <2>0, <3>1, <3>2, <3>3, <3>4, <3>5 DEF CompteInv
  <2>2. CASE Vers(f, "compte_echec") /\ PerdLeCompte(f)
    <3>1. /\ fil'[f].pc = "compte_echec" /\ fil'[f].val = fil[f].val /\ fil'[f].raison = fil[f].raison
          /\ f # "chargeur" => fil'["chargeur"].pc = "repos"
          /\ f # "sante" => fil'["sante"].pc = fil["sante"].pc
          /\ f # "console" => fil'["console"].pc = fil["console"].pc
          /\ f # "installe" => fil'["installe"].pc = fil["installe"].pc
      BY <1>f, <2>0, <2>2
    <3>2. Compteurs' \subseteq Compteurs \cup {fil[f].val} /\ deSuite' = deSuite
      BY <1>0, <1>5 DEF EcritCompteur, EcritBlocCompteur, DisqueInchange, disque, Compteurs
    <3>3. CASE f = "chargeur"
      BY <1>0, <2>0, <2>2, <2>v, <3>1, <3>2, <3>3, PerteCompte
    <3>4. CASE f # "chargeur"
      <4>1. perdus' = perdus /\ Marge' = Marge /\ deSuite' = 0
        BY <2>0, <2>2, <3>2, <3>4, MargeFaits DEF PerdLeCompte
      <4>2. /\ deSuite' \in Nat /\ perdus' \in Nat /\ deSuite' <= Marge' + SEUIL
            /\ \A v \in Compteurs' : deSuite' <= Marge' + v
        BY <1>0, <3>2, <4>1
      <4>3. ChargeurCompte'
        BY <3>1, <3>4 DEF ChargeurCompte, AvantSaut
      <4> QED BY <1>0, <2>0, <3>1, <3>4, <4>1, <4>2, <4>3 DEF CompteInv
    <3> QED BY <3>3, <3>4
  <2> QED BY <1>5, <2>1, <2>2 DEF EcritCompteur
<1>6. CASE VideCompteur(f)
  <2>0. /\ fil[f].pc = "compte_vidange" /\ f # "installe" /\ compteur' = compteur /\ Compteurs' \subseteq Compteurs
        /\ (f # "chargeur" => deSuite = 0) /\ deSuite' = deSuite
    BY <1>0, <1>6, VidangeCompte DEF VideCompteur, CompteInv, DisqueInchange, disque, Compteurs
  <2>v. f = "chargeur" => /\ deSuite + Normal(fil["chargeur"]) <= Marge + fil["chargeur"].val
                          /\ deSuite + Normal(fil["chargeur"]) <= Marge + SEUIL
                          /\ compteur = fil["chargeur"].val
    BY <2>0 DEF CompteInv, ChargeurCompte, AvantSaut
  <2>1. CASE Vidange /\ Vers(f, "compte_ok") /\ UNCHANGED perdus
    <3>1. Compteurs' = {compteur} /\ perdus' = perdus /\ Marge' = Marge
      BY <2>1, VidangeCompte, MargeFaits DEF Compteurs
    <3>2. \A v \in Compteurs' : deSuite' <= Marge' + v
      BY <2>0, <3>1 DEF CompteInv
    <3>3. /\ fil'[f].pc = "compte_ok" /\ fil'[f].val = fil[f].val /\ fil'[f].raison = fil[f].raison
          /\ f # "chargeur" => fil'["chargeur"].pc = "repos"
          /\ f # "sante" => fil'["sante"].pc = fil["sante"].pc
          /\ f # "console" => fil'["console"].pc = fil["console"].pc
          /\ f # "installe" => fil'["installe"].pc = fil["installe"].pc
      BY <1>f, <2>0, <2>1
    <3>4. ChargeurCompte'
      <4>1. CASE f = "chargeur"
        <5>1. Normal(fil["chargeur"])' = Normal(fil["chargeur"])
          BY <3>3, <4>1 DEF Normal
        <5> QED BY <2>0, <2>v, <3>1, <3>3, <4>1, <5>1 DEF ChargeurCompte, Normal
      <4>2. CASE f # "chargeur"
        BY <3>3, <4>2 DEF ChargeurCompte, AvantSaut
      <4> QED BY <4>1, <4>2
    <3>5. deSuite' \in Nat /\ perdus' \in Nat /\ deSuite' <= Marge' + SEUIL
      BY <1>0, <2>0, <3>1 DEF CompteInv
    <3> QED BY <1>0, <2>0, <3>1, <3>2, <3>3, <3>4, <3>5 DEF CompteInv
  <2>2. CASE Vers(f, "compte_echec") /\ PerdLeCompte(f)
    <3>1. /\ fil'[f].pc = "compte_echec" /\ fil'[f].val = fil[f].val /\ fil'[f].raison = fil[f].raison
          /\ f # "chargeur" => fil'["chargeur"].pc = "repos"
          /\ f # "sante" => fil'["sante"].pc = fil["sante"].pc
          /\ f # "console" => fil'["console"].pc = fil["console"].pc
          /\ f # "installe" => fil'["installe"].pc = fil["installe"].pc
      BY <1>f, <2>0, <2>2
    <3>3. CASE f = "chargeur"
      BY <1>0, <2>0, <2>2, <2>v, <3>1, <3>3, PerteCompte
    <3>4. CASE f # "chargeur"
      <4>1. perdus' = perdus
        BY <2>2, <3>4 DEF PerdLeCompte
      <4>2. fil'["chargeur"].pc = "repos" /\ "repos" \notin AvantSaut
        BY <3>1, <3>4 DEF AvantSaut
      <4>3. fil'["sante"].pc # "repos" => fil["sante"].pc # "repos"
        BY <1>0, <2>0, <3>1
      <4>4. /\ fil'["console"].pc \in {"compte", "compte_vidange"} => fil["console"].pc \in {"compte", "compte_vidange"}
            /\ fil'["installe"].pc \notin {"compte", "compte_vidange"}
        BY <1>0, <2>0, <3>1 DEF CompteInv
      <4> QED BY <2>0, <4>1, <4>2, <4>3, <4>4, CalmeCompte
    <3> QED BY <3>3, <3>4
  <2> QED BY <1>6, <2>1, <2>2 DEF VideCompteur
<1> QED BY <1>1, <1>2, <1>3, <1>4, <1>5, <1>6 DEF EntreeSortie

(* the loader decides, counts and jumps *)
LEMMA ChargeurCompteInv ==
    ASSUME IInv, DurInv, CompteInv, Chargeur
    PROVE  CompteInv'
<1> DEFINE c == fil["chargeur"]
<1>0. /\ FilInv /\ "chargeur" \in Fils /\ "sante" \in Fils /\ "installe" \in Fils /\ "console" \in Fils
      /\ c \in Appel
      /\ compteur \in Nat /\ Compteurs \subseteq Nat /\ c.val \in Nat
      /\ Normal(c) \in 0..1 /\ SEUIL \in Nat \ {0} /\ deSuite \in Nat /\ perdus \in Nat /\ Marge \in Nat
  BY QuatreFils, CompteursNat, MargeFaits DEF IInv, FilInv
<1>1. /\ phase = "chargeur" /\ compteur' = compteur /\ Compteurs' = Compteurs
      /\ fil["sante"].pc = "repos" /\ fil["installe"].pc = "repos" /\ fil["console"].pc = "repos"
  <2>1. phase = "chargeur" /\ UNCHANGED <<compteur, compteurApres>>
    BY DEF Chargeur, DecideRecovery, Choisit, Raisonne, Compte, Saute, DisqueInchange, disque, histoire
  <2> QED BY <2>1 DEF Compteurs, DurInv, PhaseInv
<1>2. ASSUME NEW a, fil' = [fil EXCEPT !["chargeur"] = a]
      PROVE  /\ fil'["chargeur"] = a /\ fil'["sante"].pc = "repos"
             /\ fil'["installe"].pc = "repos" /\ fil'["console"].pc = "repos"
  BY <1>0, <1>1, <1>2, MajFaits, ZenonT(30)
<1>3. ASSUME fil' = [fil EXCEPT !["chargeur"] = Repos],
             \/ deSuite' = deSuite /\ perdus' = perdus
             \/ deSuite' = deSuite /\ PerdLeCompte("chargeur")
             \/ deSuite' = deSuite + Normal(c) /\ perdus' = perdus /\ c.pc \in {"compte_ok", "compte_echec"}
      PROVE  CompteInv'
  <2>1. fil'["chargeur"].pc = "repos" /\ "repos" \notin AvantSaut
    BY <1>2, <1>3 DEF Repos, Demande, AvantSaut
  <2>2. ChargeurCompte'
    BY <2>1 DEF ChargeurCompte, AvantSaut
  <2>3. deSuite <= Marge + SEUIL /\ \A v \in Compteurs : deSuite <= Marge + v
    BY DEF CompteInv
  <2>4. c.pc \in {"compte_ok", "compte_echec"} => /\ deSuite + Normal(c) <= Marge + SEUIL
                                                /\ \A v \in Compteurs : deSuite + Normal(c) <= Marge + v
    BY DEF CompteInv, ChargeurCompte, AvantSaut
  <2>5. /\ deSuite' \in Nat /\ perdus' \in Nat
        /\ deSuite' <= Marge' + SEUIL /\ \A v \in Compteurs' : deSuite' <= Marge' + v
    <3>1. CASE perdus' = perdus
      <4>1. Marge' = Marge
        BY <3>1, MargeFaits
      <4> HIDE DEF c
      <4>2. deSuite' = deSuite \/ (deSuite' = deSuite + Normal(c) /\ c.pc \in {"compte_ok", "compte_echec"})
        BY <1>3
      <4> QED BY <1>0, <1>1, <2>3, <2>4, <3>1, <4>1, <4>2
    <3>2. CASE deSuite' = deSuite /\ PerdLeCompte("chargeur")
      <4>1. perdus' \in Nat /\ Marge' = Marge + SEUIL
        BY <3>2, MargeFaits DEF PerdLeCompte
      <4> QED BY <1>0, <1>1, <2>3, <3>2, <4>1
    <3> QED BY <1>3, <3>1, <3>2
  <2> QED BY <1>2, <1>3, <2>2, <2>5 DEF CompteInv
<1>4. CASE DecideRecovery
  BY <1>3, <1>4 DEF DecideRecovery, EntreRecovery, histoire
<1>5. CASE Choisit
  <2> DEFINE ch == ChoisitBoot(Lu)
             pc == IF ch.apres = Lu THEN "decide" ELSE "persiste"
             a  == [c EXCEPT !.pc = pc, !.n = ch.apres, !.slot = ch.slot,
                             !.raison = "Actif", !.seq = Lu.sequence]
  <2>1. fil' = [fil EXCEPT !["chargeur"] = a]
    BY <1>5, Zenon DEF Choisit
  <2>2. pc \in {"decide", "persiste"}
    OBVIOUS
  <2> HIDE DEF pc, ch
  <2>3. a.pc = pc /\ a.raison = "Actif"
    BY <1>0 DEF Appel
  <2> HIDE DEF a
  <2>4. deSuite' = deSuite /\ perdus' = perdus
    BY <1>5 DEF Choisit, histoire
  <2>5. pc \notin AvantSaut
    BY <2>2 DEF AvantSaut
  <2> QED BY <1>1, <1>2, <2>1, <2>3, <2>4, <2>5, CalmeCompte
<1>6. CASE Raisonne
  <2> DEFINE candidat == c.n.actif # c.slot
             a1 == [c EXCEPT !.pc = "decide", !.seq = c.n.sequence,
                             !.raison = IF candidat THEN "CandidatEssaiConsomme"
                                                    ELSE "RollbackCandidatEpuise"]
             a2 == [c EXCEPT !.pc = "decide", !.slot = c.n.actif,
                             !.raison = IF candidat THEN "PersistanceImpossibleReplieActif"
                                                    ELSE "RollbackNonPersiste"]
  <2>1. /\ a1.pc = "decide" /\ a2.pc = "decide"
        /\ a1.raison = "RollbackCandidatEpuise" => ~candidat
        /\ a2.raison # "RollbackCandidatEpuise"
    BY <1>0 DEF Appel
  <2>2. fil' = [fil EXCEPT !["chargeur"] = IF c.pc = "persiste_ok" THEN a1 ELSE a2]
    BY <1>6, Zenon DEF Raisonne
  <2>3. deSuite' = (IF c.pc = "persiste_ok" /\ ~candidat THEN 0 ELSE deSuite) /\ perdus' = perdus
    BY <1>6 DEF Raisonne
  <2>d. "decide" \notin AvantSaut
    BY DEF AvantSaut
  <2> HIDE DEF a1, a2, candidat
  <2>4. CASE c.pc = "persiste_ok"
    BY <1>1, <1>2, <2>1, <2>2, <2>3, <2>d, <2>4, CalmeCompte
  <2>5. CASE c.pc # "persiste_ok"
    BY <1>1, <1>2, <2>1, <2>2, <2>3, <2>d, <2>5, CalmeCompte
  <2> QED BY <2>4, <2>5
<1>7. CASE Compte
  <2>1. PICK lu \in {compteur, 0} :
          /\ IF VersRecovery(lu, c.raison)
             THEN EntreRecovery("RecoveryEchecsRepetes", c.n.actif, c.seq)
             ELSE /\ fil' = [fil EXCEPT !["chargeur"] =
                       [@ EXCEPT !.pc = IF CompteurAvantBoot(lu, c.raison) = lu
                                        THEN "compte_ok" ELSE "compte",
                                 !.val = CompteurAvantBoot(lu, c.raison)]]
                  /\ UNCHANGED <<phase, passage>>
          /\ IF lu = compteur THEN UNCHANGED perdus ELSE PerdLeCompte("chargeur")
    BY <1>7 DEF Compte
  <2>d. deSuite' = deSuite
    BY <1>7 DEF Compte
  <2>2. CASE VersRecovery(lu, c.raison)
    BY <1>3, <2>1, <2>d, <2>2 DEF EntreRecovery
  <2>3. CASE ~VersRecovery(lu, c.raison)
    <3> DEFINE v == CompteurAvantBoot(lu, c.raison)
               pc == IF v = lu THEN "compte_ok" ELSE "compte"
               a == [c EXCEPT !.pc = pc, !.val = v]
    <3>1. fil' = [fil EXCEPT !["chargeur"] = a]
      BY <2>1, <2>3, Zenon
    <3>2. pc \in {"compte_ok", "compte"} /\ (pc = "compte_ok" => v = lu)
      OBVIOUS
    <3>3. /\ lu \in Nat /\ v \in Nat
          /\ c.raison = "RollbackCandidatEpuise" => v = 0
          /\ c.raison = "Actif" => v = lu + 1 /\ lu < SEUIL
          /\ c.raison \notin {"RollbackCandidatEpuise", "Actif"} => v = lu
      BY <1>0, <2>3 DEF CompteurAvantBoot, VersRecovery
    <3> HIDE DEF v, pc
    <3>4. a.pc = pc /\ a.val = v /\ a.raison = c.raison
      BY <1>0 DEF Appel
    <3> HIDE DEF a
    <3>5. /\ deSuite' \in Nat /\ perdus' \in Nat /\ Marge' \in Nat
          /\ deSuite' <= Marge' + lu /\ deSuite' <= Marge' + SEUIL
          /\ \A w \in Compteurs' : deSuite' <= Marge' + w
      <4>1. /\ deSuite <= Marge + compteur /\ deSuite <= Marge + SEUIL
            /\ \A w \in Compteurs : deSuite <= Marge + w
        BY DEF CompteInv, Compteurs
      <4>2. CASE lu = compteur
        <5>1. perdus' = perdus /\ Marge' = Marge
          BY <2>1, <4>2, MargeFaits
        <5> QED BY <1>0, <1>1, <2>d, <4>1, <4>2, <5>1
      <4>3. CASE lu # compteur
        <5>1. perdus' \in Nat /\ Marge' = Marge + SEUIL
          BY <2>1, <4>3, MargeFaits DEF PerdLeCompte
        <5> QED BY <1>0, <1>1, <2>d, <3>3, <4>1, <5>1
      <4> QED BY <4>2, <4>3
    <3>6. c.pc = "decide" /\ c.raison = "RollbackCandidatEpuise" => deSuite' = 0
      BY <2>d DEF CompteInv, ChargeurCompte
    <3>7. c.pc = "decide"
      BY <1>7 DEF Compte
    <3>9. /\ fil'["chargeur"] = a /\ fil'["sante"].pc = "repos"
          /\ fil'["installe"].pc = "repos" /\ fil'["console"].pc = "repos"
      BY <1>2, <3>1
    <3>10. Normal(a) = (IF c.raison = "Actif" THEN 1 ELSE 0)
      BY <3>4 DEF Normal
    <3>11. /\ deSuite' + Normal(a) <= Marge' + v
           /\ deSuite' + Normal(a) <= Marge' + SEUIL
      <4>1. /\ deSuite' \in Nat /\ Marge' \in Nat /\ SEUIL \in Nat \ {0} /\ v \in Nat /\ lu \in Nat
            /\ deSuite' <= Marge' + lu /\ deSuite' <= Marge' + SEUIL
        BY <1>0, <3>3, <3>5
      <4>2. CASE c.raison = "Actif"
        BY <3>3, <3>10, <4>1, <4>2
      <4>3. CASE c.raison = "RollbackCandidatEpuise"
        <5>1. deSuite' = 0 /\ v = 0 /\ Normal(a) = 0
          BY <3>3, <3>6, <3>7, <3>10, <4>3
        <5>2. ASSUME NEW m \in Nat, NEW t \in Nat, NEW x, NEW d, NEW w, x = 0, d = 0, w = 0
              PROVE  x + d <= m + w /\ x + d <= m + t
          BY <5>2
        <5> QED BY <4>1, <5>1, <5>2
      <4>4. CASE c.raison \notin {"RollbackCandidatEpuise", "Actif"}
        BY <3>3, <3>10, <4>1, <4>4
      <4> QED BY <4>2, <4>3, <4>4
    <3>12. pc = "compte_ok" => Normal(a) = 0
      BY <3>2, <3>3, <3>10
    <3>13. ChargeurCompte'
      BY <3>2, <3>4, <3>5, <3>9, <3>11, <3>12 DEF ChargeurCompte
    <3> QED BY <1>0, <3>5, <3>9, <3>13 DEF CompteInv
  <2> QED BY <2>2, <2>3
<1>8. CASE Saute
  <2>1. CASE c.slot \in Presentes
    <3>1. /\ fil' = [fil EXCEPT !["chargeur"] = Repos]
          /\ deSuite' = deSuite + Normal(c) /\ perdus' = perdus
          /\ c.pc \in {"compte_ok", "compte_echec"}
      BY <1>8, <2>1 DEF Saute, Normal
    <3> QED BY <1>3, <3>1
  <2>2. CASE c.slot \notin Presentes
    BY <1>3, <1>8, <2>2 DEF Saute, EntreRecovery
  <2> QED BY <2>1, <2>2
<1> QED BY <1>4, <1>5, <1>6, <1>7, <1>8 DEF Chargeur

(* the kernel and the console *)
LEMMA AppelsCompte ==
    ASSUME IInv, DurInv, CompteInv, Sante \/ Installe \/ Console
    PROVE  CompteInv'
<1>0. /\ FilInv /\ "chargeur" \in Fils /\ "sante" \in Fils /\ "installe" \in Fils /\ "console" \in Fils
  BY QuatreFils DEF IInv
<1>1. compteur' = compteur /\ Compteurs' \subseteq Compteurs /\ deSuite' \in {deSuite, 0} /\ perdus' = perdus
  <2>1. CASE Vidange
    BY <2>1, VidangeCompte DEF Sante, Installe, Console, DeclareSain, SantePersiste, SanteRend, Commence, Ecrit,
         Verifie, Termine, DebutSession, FinSession, InstalleEchoue, RollbackManuel, RollbackPersiste,
         RemetCompteur, ConsoleRend, histoire
  <2>2. CASE UNCHANGED <<compteur, compteurApres>>
    BY <2>2, CompteurInchange DEF Sante, Installe, Console, DeclareSain, SantePersiste, SanteRend, Commence, Ecrit,
         Verifie, Termine, DebutSession, FinSession, InstalleEchoue, RollbackManuel, RollbackPersiste,
         RemetCompteur, ConsoleRend, histoire
  <2> QED BY <2>1, <2>2 DEF Sante, Installe, Console, DeclareSain, SantePersiste, SanteRend, Commence, Ecrit,
         Verifie, Termine, DebutSession, FinSession, InstalleEchoue, RollbackManuel, RollbackPersiste,
         RemetCompteur, ConsoleRend, DisqueInchange, disque, EcritMorceau
<1>2. fil'["installe"].pc \in {fil["installe"].pc, "persiste", "repos"}
      /\ fil'["chargeur"] = fil["chargeur"]
      /\ (fil'["sante"].pc # "repos" => (fil["sante"].pc # "repos" \/ deSuite' = 0))
      /\ (fil'["console"].pc \in {"compte", "compte_vidange"}
              => (fil["console"].pc \in {"compte", "compte_vidange"} \/ deSuite' = 0))
  <2>1. CASE Sante
    <3>1. \A g \in Fils \ {"sante"} : fil'[g] = fil[g]
      BY <1>0, <2>1, MajFaits, VersFaits DEF Sante, DeclareSain, SantePersiste, SanteRend
    <3>2. fil'["sante"].pc # "repos" => (fil["sante"].pc # "repos" \/ deSuite' = 0)
      <4>1. CASE DeclareSain
        BY <4>1 DEF DeclareSain
      <4>2. CASE SantePersiste
        BY <4>2 DEF SantePersiste
      <4>3. CASE SanteRend
        BY <4>3 DEF SanteRend
      <4> QED BY <2>1, <4>1, <4>2, <4>3 DEF Sante
    <3> QED BY <1>0, <3>1, <3>2
  <2>2. CASE Installe
    <3>1. \A g \in Fils \ {"installe"} : fil'[g] = fil[g]
      BY <1>0, <2>2, MajFaits DEF Installe, Commence, Ecrit, Verifie, Termine, DebutSession, FinSession, InstalleEchoue
    <3>2. fil' = fil \/ \E pc \in {"persiste", "repos"} : \E n, inst : fil' = [fil EXCEPT !["installe"] = Demande(pc, n, inst)]
      BY <2>2 DEF Installe, Commence, Ecrit, Verifie, Termine, DebutSession, FinSession, InstalleEchoue, Repos
    <3>3. fil'["installe"].pc \in {fil["installe"].pc, "persiste", "repos"}
      BY <1>0, <3>2, MajFaits, DemandeFaits
    <3> QED BY <1>0, <3>1, <3>3
  <2>3. CASE Console
    <3>1. \A g \in Fils \ {"console"} : fil'[g] = fil[g]
      BY <1>0, <2>3, MajFaits, VersFaits DEF Console, RollbackManuel, RollbackPersiste, RemetCompteur, ConsoleRend
    <3>2. fil'["console"].pc \in {"compte", "compte_vidange"} => deSuite' = 0
      <4>1. CASE RollbackManuel
        <5>1. fil'["console"] = Demande("persiste", Revient(Lu), Aucun)
          BY <1>0, <4>1, MajFaits DEF RollbackManuel
        <5> QED BY <5>1, DemandeFaits
      <4>2. CASE RollbackPersiste
        BY <4>2 DEF RollbackPersiste
      <4>3. CASE RemetCompteur
        BY <4>3 DEF RemetCompteur
      <4>4. CASE ConsoleRend
        <5>1. fil'["console"] = Repos
          BY <1>0, <4>4, MajFaits DEF ConsoleRend
        <5> QED BY <5>1, DemandeFaits
      <4> QED BY <2>3, <4>1, <4>2, <4>3, <4>4 DEF Console
    <3> QED BY <1>0, <3>1, <3>2
  <2> QED BY <2>1, <2>2, <2>3
<1>3. fil'["installe"].pc \notin {"compte", "compte_vidange"}
  BY <1>2 DEF CompteInv
<1> QED BY <1>1, <1>2, <1>3, CalmeCompte

(* reset and power loss *)
LEMMA EnvironnementCompte ==
    ASSUME IInv, CompteInv, Redemarre \/ Coupure
    PROVE  CompteInv'
<1>1. \A f \in Fils : fil'[f].pc = "repos"
  BY DEF Redemarre, Coupure, RamPerdue, Repos, Demande
<1>2. /\ fil'["chargeur"].pc = "repos" /\ fil'["sante"].pc = "repos"
      /\ fil'["installe"].pc = "repos" /\ fil'["console"].pc = "repos"
  BY <1>1, QuatreFils
<1>3. ChargeurCompte'
  BY <1>2 DEF ChargeurCompte, AvantSaut
<1>4. CASE Redemarre
  <2>1. compteur' = compteur /\ Compteurs' = Compteurs /\ deSuite' = deSuite /\ perdus' = perdus
    BY <1>4 DEF Redemarre, DisqueInchange, disque, Compteurs
  <2> QED BY <1>2, <2>1, CalmeCompte DEF AvantSaut
<1>5. CASE Coupure
  <2>1. PICK cpt \in Issues(compteurApres, 0) :
           /\ compteur' = cpt /\ compteurApres' = {cpt}
           /\ IF cpt \in compteurApres THEN UNCHANGED perdus ELSE PerdLeCompte("chargeur")
    BY <1>5 DEF Coupure
  <2>2. deSuite' = deSuite /\ Compteurs' = {cpt}
    BY <1>5, <2>1 DEF Coupure, Compteurs
  <2>3. /\ SEUIL \in Nat /\ deSuite \in Nat /\ Marge \in Nat /\ deSuite <= Marge + SEUIL
        /\ cpt \in compteurApres => cpt \in Nat /\ deSuite <= Marge + cpt
        /\ cpt \notin compteurApres => cpt = 0
    BY CompteursNat, MargeFaits DEF CompteInv, Compteurs, Issues
  <2>4. /\ deSuite' \in Nat /\ perdus' \in Nat /\ deSuite' <= Marge' + SEUIL
        /\ \A v \in Compteurs' : deSuite' <= Marge' + v
    <3>1. CASE cpt \in compteurApres
      <4>1. perdus' = perdus /\ perdus' \in Nat /\ Marge' = Marge
        BY <2>1, <3>1, MargeFaits
      <4> QED BY <2>2, <2>3, <3>1, <4>1
    <3>2. CASE cpt \notin compteurApres
      <4>1. perdus' \in Nat /\ Marge' = Marge + SEUIL
        BY <2>1, <3>2, MargeFaits DEF PerdLeCompte
      <4> QED BY <2>2, <2>3, <3>2, <4>1
    <3> QED BY <3>1, <3>2
  <2> QED BY <1>2, <1>3, <2>4 DEF CompteInv
<1> QED BY <1>4, <1>5

(* the delivered machine *)
LEMMA InitCompte == Init => CompteInv
<1> SUFFICES ASSUME Init PROVE CompteInv
  OBVIOUS
<1>1. \A f \in Fils : fil[f].pc = "repos"
  BY DEF Init, Repos, Demande
<1>2. /\ fil["chargeur"].pc = "repos" /\ fil["sante"].pc = "repos"
      /\ fil["installe"].pc = "repos" /\ fil["console"].pc = "repos"
  BY <1>1, QuatreFils
<1>3. SEUIL \in Nat /\ perdus = 0 /\ Marge = 0
  BY CoreAssumption DEF Init, Marge
<1> QED BY <1>2, <1>3 DEF Init, CompteInv, ChargeurCompte, Compteurs, AvantSaut

(* every step keeps the counter invariant *)
LEMMA NextCompte == IInv /\ DurInv /\ CompteInv /\ [Next]_vars => CompteInv'
<1> SUFFICES ASSUME IInv, DurInv, CompteInv, [Next]_vars PROVE CompteInv'
  OBVIOUS
<1>1. CASE Next
  BY <1>1, ChargeurCompteInv, AppelsCompte, EntreeSortieCompte, EnvironnementCompte DEF Next
<1>2. CASE UNCHANGED vars
  <2>1. /\ compteur' = compteur /\ Compteurs' = Compteurs /\ deSuite' = deSuite
        /\ perdus' = perdus /\ fil' = fil
    BY <1>2 DEF vars, disque, histoire, Compteurs
  <2> QED BY <2>1, CalmeCompte DEF CompteInv
<1> QED BY <1>1, <1>2

(* echecs.rs: an active slot that never confirms health is booted at most  *)
(* SEUIL times in a row before the loader goes to recovery, and at most    *)
(* SEUIL times more for each power loss that tears the counter block and   *)
(* each failed request on it: these restart the count, and their number is *)
(* the only thing that lets the boots go on.                               *)
THEOREM EchecsToujoursBornes == Spec => []EchecsBornes
<1>1. IInv /\ DurInv /\ CompteInv /\ [Next]_vars => IInv' /\ DurInv' /\ CompteInv'
  BY NextInv, NextDur, NextCompte
<1>2. Init => IInv /\ DurInv /\ CompteInv
  BY InitInv, InitDur, InitCompte
<1>3. CompteInv => EchecsBornes
  <2> SUFFICES ASSUME CompteInv PROVE EchecsBornes
    OBVIOUS
  <2>1. SEUIL \in Nat /\ perdus \in Nat /\ deSuite \in Nat
    BY MargeFaits
  <2>2. SEUIL * (perdus + 1) = SEUIL * perdus + SEUIL
    BY <2>1
  <2> QED BY <2>2 DEF CompteInv, Marge, EchecsBornes
<1> QED BY <1>1, <1>2, <1>3, PTL DEF Spec

-----------------------------------------------------------------------------
(***************************************************************************)
(* What the A/B update does to the slots, for every number of images,      *)
(* chunks, attempts, failed requests and power losses: a candidate is      *)
(* booted at most as often as its manifest grants, a Good slot holds an    *)
(* image that ran and was declared healthy, a slot that a record names     *)
(* holds exactly the image recorded, and nothing is written in the slot    *)
(* that runs nor in the active one.                                        *)
(*                                                                         *)
(* The argument: an installation first makes its Empty record durable, so  *)
(* while it writes no record that META may hold calls its target anything  *)
(* else (Prets); every other record is copied from the current one by a    *)
(* transition of ab.rs, which keeps what is said of a slot or checked it.  *)
(***************************************************************************)
(* the states in which a slot must hold its image *)
Garde == {"Bon", "Candidat"}

(* slots that an installation may overwrite: whatever a power loss leaves, *)
(* the record neither boots them nor counts on their contents              *)
Prets ==
    {t \in Slots :
        /\ Lisible /\ Lu.slots[t].etat \notin Garde
        /\ \A c \in Sur : c.actif # t /\ c.slots[t].etat # "Candidat"
        /\ ~expose => \A e \in EnregistrementsPossibles : e.slots[t].etat \notin Garde}

(* as long as its candidate is not in META, a session may write its target *)
SessionInv ==
    session # Aucun =>
        /\ session.cible # passage.slot
        /\ (~session.fini \/ Lu.slots[session.cible].etat # "Candidat") => session.cible \in Prets

(* installation_commence() on its way: after its flush the target is ready *)
CommenceInv ==
    LET a == fil["installe"]
        t == a.inst.cible
    IN  (a.pc # "repos" /\ a.inst # Aucun) =>
          /\ t # passage.slot
          /\ a.pc \in {"persiste", "ecrit"} => a.n.slots[t].etat = "Vide" /\ Lu.slots[t].etat # "Candidat"
          /\ a.pc = "vidange" =>
                /\ Lu.slots[t].etat = "Vide"
                /\ \A j \in 0..1 : copie[j] # Illisible => copie[j].actif # t /\ copie[j].slots[t].etat # "Candidat"
          /\ a.pc \in {"relit", "persiste_ok"} => t \in Prets

(* installation_termine() on its way *)
TermineInv ==
    LET a == fil["installe"]
    IN  (a.pc # "repos" /\ a.inst = Aucun) =>
          /\ session # Aucun /\ session.fini
          /\ a.pc \in {"persiste", "ecrit"} => a.n.slots[session.cible].etat = "Candidat"

PretInv == SessionInv /\ CommenceInv /\ TermineInv

-----------------------------------------------------------------------------
(* Steps that add no record to META *)

MetaCalme ==
    /\ copie' = copie /\ Lu' = Lu /\ (Lisible' <=> Lisible) /\ (expose' <=> expose)
    /\ Sur' \subseteq Sur
    /\ EnregistrementsPossibles' \subseteq EnregistrementsPossibles

(* a step that leaves the META blocks alone, and a flush, are calm *)
LEMMA StepCalme ==
    ASSUME DisqueInv, MetaInv, UNCHANGED <<copie, copieApres, expose>> \/ Vidange
    PROVE  MetaCalme
<1>1. CASE UNCHANGED <<copie, copieApres, expose>>
  BY <1>1, MetaInchange DEF MetaCalme
<1>2. CASE Vidange
  BY <1>2, MetaVide DEF MetaCalme, Vidange
<1> QED BY <1>1, <1>2

(* a calm step leaves every ready slot ready *)
LEMMA CalmePrets ==
    ASSUME MetaCalme
    PROVE  Prets \subseteq Prets'
BY DEF MetaCalme, Prets

(* nothing to show while nothing is installed *)
LEMMA SansInstallation ==
    ASSUME session' = Aucun, fil'["installe"].pc = "repos"
    PROVE  PretInv'
BY DEF PretInv, SessionInv, CommenceInv, TermineInv

(* a calm step that leaves the installation where it is, or ends its call *)
LEMMA CalmePret ==
    ASSUME PretInv, MetaCalme, passage' = passage,
           session' = session,
           \/ fil'["installe"].pc = "repos"
           \/ /\ fil'["installe"].n = fil["installe"].n /\ fil'["installe"].inst = fil["installe"].inst
              /\ fil["installe"].pc # "repos"
              /\ fil'["installe"].pc \in {"persiste", "ecrit"} => fil["installe"].pc \in {"persiste", "ecrit"}
              /\ fil'["installe"].pc = "vidange" => fil["installe"].pc = "vidange"
              /\ fil'["installe"].pc \in {"relit", "persiste_ok"} =>
                    \/ fil["installe"].pc \in {"relit", "persiste_ok"}
                    \/ fil["installe"].inst # Aucun => fil["installe"].inst.cible \in Prets'
    PROVE  PretInv'
<1>1. Prets \subseteq Prets'
  BY CalmePrets
<1>2. SessionInv'
  BY <1>1 DEF PretInv, SessionInv, MetaCalme
<1>3. CommenceInv'
  BY <1>1 DEF PretInv, CommenceInv, MetaCalme
<1>4. TermineInv'
  BY DEF PretInv, TermineInv
<1> QED BY <1>2, <1>3, <1>4 DEF PretInv

(* while an installation runs, the running slot is the active one and the  *)
(* only other writer of META is idle                                       *)
LEMMA PendantInstallation ==
    ASSUME IInv, DurInv, session # Aucun \/ fil["installe"].pc # "repos"
    PROVE  /\ phase = "noyau" /\ passage # Aucun /\ passage.slot \in Slots
           /\ Lisible /\ Lu.actif = passage.slot /\ Valide(Lu) /\ Lu \in Sur
           /\ fil["chargeur"].pc = "repos" /\ fil["console"].pc = "repos"
           /\ fil["sante"].pc \notin {"persiste", "ecrit"}
           /\ session # Aucun => session \in Installation
           /\ fil["installe"].inst # Aucun => fil["installe"].inst \in Installation
<1>1. phase = "noyau" /\ passage # Aucun /\ Lisible /\ Lu.actif = passage.slot
  BY DEF DurInv, PhaseInv, SerieInv
<1>2. passage.slot \in Slots /\ Valide(Lu) /\ Lu \in Sur
  BY <1>1, LuValide, PossiblesSur DEF IInv, ResteInv, Passage, DurInv, MetaInv
<1>3. /\ fil["chargeur"].pc = "repos" /\ fil["console"].pc = "repos"
      /\ fil["sante"].pc \notin {"persiste", "ecrit"}
  BY <1>1 DEF DurInv, PhaseInv, SerieInv
<1>4. /\ session # Aucun => session \in Installation
      /\ fil["installe"].inst # Aucun => fil["installe"].inst \in Installation
  BY QuatreFils DEF IInv, ResteInv, FilInv, Appel
<1> QED BY <1>1, <1>2, <1>3, <1>4

-----------------------------------------------------------------------------
(* The requests of persiste() and ecrit_compteur() *)

(* a request moves one call and touches META only when it writes a copy *)
LEMMA RequeteFaits ==
    ASSUME IInv, DurInv, NEW f \in Fils, EntreeSortie(f)
    PROVE  /\ fil[f].pc # "repos" /\ fil'[f].pc # "repos"
           /\ fil'[f].n = fil[f].n /\ fil'[f].inst = fil[f].inst /\ fil'[f].slot = fil[f].slot
           /\ fil'[f].raison = fil[f].raison
           /\ \A g \in Fils \ {f} : fil'[g] = fil[g]
           /\ UNCHANGED <<phase, passage, session, tourne, saines, demarrages, budget>>
           /\ fil[f].pc # "ecrit" => MetaCalme
           /\ fil'[f].pc \in {"persiste", "ecrit"} => fil[f].pc = "persiste" /\ fil'[f].pc = "ecrit"
           /\ fil'[f].pc = "vidange" => fil[f].pc = "ecrit"
           /\ fil'[f].pc = "relit" => fil[f].pc = "vidange" /\ Vidange
           /\ fil'[f].pc = "persiste_ok" => fil[f].pc = "relit"
<1>0. FilInv /\ DisqueInv /\ MetaInv /\ fil[f] \in Appel
  BY DEF IInv, DurInv, FilInv
<1>1. UNCHANGED <<phase, passage, session>>
  BY DEF EntreeSortie
<1>2. UNCHANGED <<tourne, saines, demarrages, budget>>
  BY DEF EntreeSortie, LitCopies, EcritCopie, VideCopie, RelitCopie, EcritCompteur, VideCompteur, histoire
<1>3. \/ UNCHANGED <<copie, copieApres, expose>> \/ Vidange \/ fil[f].pc = "ecrit"
  BY DEF EntreeSortie, LitCopies, EcritCopie, VideCopie, RelitCopie, EcritCompteur, VideCompteur,
         EcritBlocCompteur, DisqueInchange, disque
<1>4. fil[f].pc # "ecrit" => MetaCalme
  BY <1>0, <1>3, StepCalme
<1>5. CASE LitCopies(f) /\ fil' = [fil EXCEPT ![f].pc = "ecrit", ![f].i = CopieAEcrire(copie[0], copie[1])]
  <2> DEFINE i == CopieAEcrire(copie[0], copie[1])
  <2>1. fil'[f] = [fil[f] EXCEPT !.pc = "ecrit", !.i = i] /\ \A g \in Fils \ {f} : fil'[g] = fil[g]
    BY <1>0, <1>5 DEF FilInv
  <2> HIDE DEF i
  <2>2. /\ fil'[f].pc = "ecrit" /\ fil'[f].n = fil[f].n /\ fil'[f].inst = fil[f].inst
        /\ fil'[f].slot = fil[f].slot /\ fil'[f].raison = fil[f].raison
    BY <1>0, <2>1 DEF Appel
  <2> QED BY <1>1, <1>2, <1>4, <1>5, <2>1, <2>2 DEF LitCopies
<1>6. ASSUME NEW pc, Vers(f, pc)
      PROVE  /\ fil'[f].pc = pc
             /\ fil'[f].n = fil[f].n /\ fil'[f].inst = fil[f].inst /\ fil'[f].slot = fil[f].slot
             /\ fil'[f].raison = fil[f].raison
             /\ \A g \in Fils \ {f} : fil'[g] = fil[g]
  BY <1>0, <1>6, VersFaits
<1>7. CASE LitCopies(f) /\ Vers(f, "echec")
  BY <1>1, <1>2, <1>4, <1>6, <1>7 DEF LitCopies
<1>8. CASE EcritCopie(f)
  <2>1. PICK pc \in {"vidange", "echec"} : Vers(f, pc)
    BY <1>8 DEF EcritCopie
  <2> QED BY <1>1, <1>2, <1>4, <1>6, <1>8, <2>1 DEF EcritCopie
<1>9. CASE VideCopie(f)
  <2>1. PICK pc \in {"relit", "echec"} : Vers(f, pc) /\ (pc = "relit" => Vidange)
    BY <1>9 DEF VideCopie
  <2> QED BY <1>1, <1>2, <1>4, <1>6, <1>9, <2>1 DEF VideCopie
<1>10. CASE RelitCopie(f)
  <2>1. PICK pc \in {"persiste_ok", "echec"} : Vers(f, pc)
    BY <1>10 DEF RelitCopie
  <2> QED BY <1>1, <1>2, <1>4, <1>6, <1>10, <2>1 DEF RelitCopie
<1>11. CASE EcritCompteur(f)
  <2>1. PICK pc \in {"compte_vidange", "compte_echec"} : Vers(f, pc)
    BY <1>11 DEF EcritCompteur
  <2> QED BY <1>1, <1>2, <1>4, <1>6, <1>11, <2>1 DEF EcritCompteur
<1>12. CASE VideCompteur(f)
  <2>1. PICK pc \in {"compte_ok", "compte_echec"} : Vers(f, pc)
    BY <1>12 DEF VideCompteur
  <2> QED BY <1>1, <1>2, <1>4, <1>6, <1>12, <2>1 DEF VideCompteur
<1> QED BY <1>5, <1>7, <1>8, <1>9, <1>10, <1>11, <1>12 DEF EntreeSortie, LitCopies

(* the write of a copy either reaches the device or does nothing *)
LEMMA EcritureFaits ==
    ASSUME IInv, DurInv, NEW f \in Fils, EntreeSortie(f), fil[f].pc = "ecrit"
    PROVE  \/ MetaCalme /\ fil'[f].pc = "echec"
           \/ /\ EcritBlocMeta(fil[f].i, fil[f].n) /\ fil[f].i \in 0..1
              /\ fil'[f].pc \in {"vidange", "echec"}
              /\ Valide(fil[f].n) /\ Lisible /\ Lu = copie[1 - fil[f].i]
              /\ copie'[fil[f].i] = fil[f].n /\ copie'[1 - fil[f].i] = Lu
              /\ Lisible' /\ Lu' = fil[f].n
              /\ Sur' \subseteq Sur \cup {fil[f].n}
              /\ ~expose' => (~expose /\ EnregistrementsPossibles' \subseteq EnregistrementsPossibles \cup {fil[f].n})
<1>0. FilInv /\ DisqueInv /\ MetaInv /\ EcritCopie(f) /\ EcrivainBon(f)
  BY DEF IInv, DurInv, EntreeSortie, LitCopies, VideCopie, RelitCopie, EcritCompteur, VideCompteur
<1>1. /\ Valide(fil[f].n) /\ fil[f].i \in 0..1 /\ Lisible /\ Lu = copie[1 - fil[f].i]
      /\ fil[f].n.sequence = Lu.sequence + 1
  BY <1>0 DEF FilInv, AppelBon, Appel, EcrivainBon
<1>2. CASE EcritBlocMeta(fil[f].i, fil[f].n)
  <2>1. PICK pc \in {"vidange", "echec"} : Vers(f, pc)
    BY <1>0 DEF EcritCopie
  <2>2. fil'[f].pc \in {"vidange", "echec"}
    BY <1>0, <2>1, VersFaits
  <2>3. copie'[fil[f].i] = fil[f].n /\ copie'[1 - fil[f].i] = copie[1 - fil[f].i]
    BY <1>0, <1>1, <1>2 DEF EcritBlocMeta, DisqueInv
  <2> QED BY <1>0, <1>1, <1>2, <2>2, <2>3, MetaEcrit
<1>3. CASE DisqueInchange /\ Vers(f, "echec")
  <2>1. MetaCalme
    BY <1>0, <1>3, StepCalme DEF DisqueInchange, disque
  <2> QED BY <1>0, <1>3, <2>1, VersFaits
<1> QED BY <1>0, <1>2, <1>3 DEF EcritCopie

(* the flush of installation_commence(): its target is ready *)
LEMMA ViderPrepare ==
    ASSUME IInv, DurInv, PretInv, Vidange, fil["installe"].pc = "vidange", fil["installe"].inst # Aucun
    PROVE  fil["installe"].inst.cible \in Prets'
<1> DEFINE t == fil["installe"].inst.cible
<1>1. Lisible /\ t \in Slots
  BY PendantInstallation DEF Installation
<1>2. Lu' = Lu /\ Lisible' /\ EnregistrementsPossibles' = {Lu}
  BY <1>1, MetaVide DEF IInv, DurInv
<1>3. copieApres'[0] = {copie[0]} /\ copieApres'[1] = {copie[1]}
  BY DEF Vidange
<1>4. Lu.slots[t].etat = "Vide" /\ \A j \in 0..1 : copie[j] # Illisible => copie[j].actif # t /\ copie[j].slots[t].etat # "Candidat"
  BY DEF PretInv, CommenceInv
<1>5. \A c \in Sur' : c.actif # t /\ c.slots[t].etat # "Candidat"
  BY <1>3, <1>4 DEF Sur
<1> HIDE DEF t
<1>6. t \in Prets'
  BY <1>1, <1>2, <1>4, <1>5 DEF Prets, Garde
<1> QED BY <1>6 DEF t

(* one request *)
LEMMA EntreeSortiePret ==
    ASSUME IInv, DurInv, PretInv, NEW f \in Fils, EntreeSortie(f)
    PROVE  PretInv'
<1>0. "installe" \in Fils /\ f \in {"chargeur", "sante", "installe", "console"}
  BY QuatreFils
<1>1. /\ fil[f].pc # "repos" /\ UNCHANGED <<passage, session>>
      /\ fil[f].pc # "ecrit" => MetaCalme
      /\ \A g \in Fils \ {f} : fil'[g] = fil[g]
  BY RequeteFaits
<1>2. CASE f # "installe"
  <2>1. fil'["installe"] = fil["installe"]
    BY <1>0, <1>1, <1>2
  <2>2. CASE session = Aucun /\ fil["installe"].pc = "repos"
    BY <1>1, <2>1, <2>2, SansInstallation
  <2>3. CASE session # Aucun \/ fil["installe"].pc # "repos"
    <3>1. MetaCalme
      BY <1>0, <1>1, <1>2, <2>3, PendantInstallation
    <3> QED BY <1>1, <2>1, <3>1, CalmePret
  <2> QED BY <2>2, <2>3
<1>3. CASE f = "installe"
  <2> DEFINE a == fil["installe"]
             b == fil'["installe"]
  <2>0. /\ b.n = a.n /\ b.inst = a.inst /\ a.pc # "repos"
        /\ b.pc \in {"persiste", "ecrit"} => a.pc = "persiste" /\ b.pc = "ecrit"
        /\ b.pc = "vidange" => a.pc = "ecrit"
        /\ b.pc = "relit" => a.pc = "vidange" /\ Vidange
        /\ b.pc = "persiste_ok" => a.pc = "relit"
    BY <1>3, RequeteFaits
  <2>1. CASE MetaCalme /\ a.pc # "ecrit"
    <3>1. b.pc = "relit" => (a.inst # Aucun => a.inst.cible \in Prets')
      BY <2>0, ViderPrepare
    <3> QED BY <1>1, <2>0, <2>1, <3>1, CalmePret
  <2>2. CASE MetaCalme /\ b.pc = "echec"
    BY <1>1, <2>0, <2>2, CalmePret
  <2>3. CASE /\ b.pc \in {"vidange", "echec"} /\ a.pc = "ecrit" /\ a.i \in 0..1
             /\ copie'[a.i] = a.n /\ copie'[1 - a.i] = Lu
             /\ Lisible' /\ Lu' = a.n
             /\ Sur' \subseteq Sur \cup {a.n}
             /\ ~expose' => (~expose /\ EnregistrementsPossibles' \subseteq EnregistrementsPossibles \cup {a.n})
    <3>0. /\ Lu.actif = passage.slot /\ passage.slot \in Slots
          /\ session # Aucun => session.cible \in Slots
          /\ a.inst # Aucun => a.inst.cible \in Slots
      BY <2>0, PendantInstallation DEF Installation
    <3>1. a.n.actif = passage.slot
      BY <2>3 DEF DurInv, SerieInv
    <3>2. ASSUME NEW t \in Prets, a.n.slots[t].etat \notin Garde, a.n.actif # t PROVE t \in Prets'
      BY <2>3, <3>2 DEF Prets, Garde
    <3>3. SessionInv'
      <4> SUFFICES ASSUME session # Aucun, ~session.fini \/ Lu'.slots[session.cible].etat # "Candidat"
                   PROVE  session.cible \in Prets'
        BY <1>1 DEF PretInv, SessionInv
      <4>1. a.inst # Aucun
        BY <2>0, <2>3 DEF PretInv, TermineInv
      <4>2. /\ a.inst.cible # passage.slot /\ session.cible # passage.slot
            /\ a.n.slots[a.inst.cible].etat = "Vide" /\ Lu.slots[a.inst.cible].etat # "Candidat"
        BY <2>0, <2>3, <4>1 DEF PretInv, CommenceInv, SessionInv
      <4>3. a.inst.cible = session.cible
        BY <3>0, <4>1, <4>2 DEF Slots
      <4>4. session.cible \in Prets
        BY <4>2, <4>3 DEF PretInv, SessionInv
      <4> QED BY <3>1, <3>2, <4>2, <4>3, <4>4 DEF Garde
    <3>4. CommenceInv'
      <4> SUFFICES ASSUME a.inst # Aucun
                   PROVE  /\ a.inst.cible # passage.slot
                          /\ a.n.slots[a.inst.cible].etat = "Vide"
                          /\ \A j \in 0..1 : copie'[j] # Illisible =>
                                copie'[j].actif # a.inst.cible /\ copie'[j].slots[a.inst.cible].etat # "Candidat"
        BY <1>1, <2>0, <2>3 DEF CommenceInv
      <4>1. /\ a.inst.cible # passage.slot
            /\ a.n.slots[a.inst.cible].etat = "Vide" /\ Lu.slots[a.inst.cible].etat # "Candidat"
        BY <2>0, <2>3 DEF PretInv, CommenceInv
      <4>2. ASSUME NEW j \in 0..1 PROVE copie'[j] = a.n \/ copie'[j] = Lu
        <5>1. j = a.i \/ j = 1 - a.i
          BY <2>3
        <5> QED BY <2>3, <5>1
      <4> QED BY <3>0, <3>1, <4>1, <4>2
    <3>5. TermineInv'
      BY <1>1, <2>0, <2>3 DEF PretInv, TermineInv
    <3> QED BY <3>3, <3>4, <3>5 DEF PretInv
  <2> QED BY <1>1, <1>3, <2>1, <2>2, <2>3, EcritureFaits
<1> QED BY <1>2, <1>3

-----------------------------------------------------------------------------
(* The calls *)

(* an installation call starts, ends or goes on; META keeps its records *)
LEMMA InstallePret ==
    ASSUME IInv, DurInv, PretInv, Installe
    PROVE  PretInv'
<1>0. "installe" \in Fils /\ FilInv /\ DisqueInv /\ MetaInv
  BY QuatreFils DEF IInv, DurInv
<1>1. ASSUME NEW pid \in Pids, NEW cible \in Slots, NEW image \in Images, NEW essais \in 1..EssaisMax,
             Commence(pid, cible, image, essais)
      PROVE  PretInv'
  <2> DEFINE n == CommenceInstallation(Lu, cible)
             inst == NouvelleSession(pid, cible, image, essais)
             a == Demande("persiste", n, inst)
  <2>0. /\ UNCHANGED <<copie, copieApres, expose, passage, session>>
        /\ passage # Aucun /\ Lisible /\ PeutCommencer(Lu, cible, passage.slot)
        /\ fil' = [fil EXCEPT !["installe"] = a]
    BY <1>1 DEF Commence, NoyauPret, DisqueInchange, disque, histoire
  <2>1. MetaCalme /\ Prets \subseteq Prets'
    BY <1>0, <2>0, StepCalme, CalmePrets
  <2>2. n.slots[cible].etat = "Vide"
    <3>1. Lu \in Enregistrement
      BY <2>0, LuValide DEF IInv, Valide
    <3> QED BY <3>1 DEF CommenceInstallation, AvecSlot, SlotVide, Enregistrement
  <2>3. a.pc = "persiste" /\ a.n = n /\ a.inst = inst
    BY DEF Demande
  <2>4. inst.cible = cible
    BY DEF NouvelleSession
  <2>5. inst # Aucun => inst.cible # passage.slot /\ Lu.slots[inst.cible].etat # "Candidat"
    BY <2>0, <2>4 DEF PeutCommencer
  <2> HIDE DEF a, n, inst
  <2>6. fil'["installe"] = a
    BY <1>0, <2>0, MajFaits
  <2>7. SessionInv'
    BY <2>0, <2>1 DEF PretInv, SessionInv, MetaCalme
  <2>8. CommenceInv'
    BY <2>0, <2>1, <2>2, <2>3, <2>4, <2>5, <2>6 DEF CommenceInv, MetaCalme
  <2>9. inst # Aucun
    <3>1. inst \in Installation
      BY <1>1 DEF inst, NouvelleSession, Installation
    <3> QED BY <3>1, AucunAssumption
  <2>10. TermineInv'
    BY <2>3, <2>6, <2>9 DEF TermineInv
  <2> QED BY <2>7, <2>8, <2>10 DEF PretInv
<1>2. ASSUME NEW pid \in Pids, NEW k \in Morceaux, NEW image \in Images, Ecrit(pid, k, image)
      PROVE  PretInv'
  <2>1. /\ UNCHANGED <<copie, copieApres, expose, passage, fil>> /\ session # Aucun
        /\ fil["installe"].pc = "repos" /\ session' = [session EXCEPT !.relue = <<>>]
    BY <1>2 DEF Ecrit, EnSession, NoyauPret, EcritMorceau, DisqueInchange, disque
  <2>2. session'.cible = session.cible /\ session'.fini = session.fini
    <3>1. session \in Installation
      BY <2>1 DEF IInv, ResteInv
    <3> QED BY <2>1, <3>1 DEF Installation
  <2>3. MetaCalme /\ Prets \subseteq Prets'
    BY <1>0, <2>1, StepCalme, CalmePrets
  <2>4. SessionInv'
    BY <2>1, <2>2, <2>3 DEF PretInv, SessionInv, MetaCalme
  <2> QED BY <2>1, <2>4 DEF PretInv, CommenceInv, TermineInv
<1>3. ASSUME NEW pid \in Pids, Verifie(pid)
      PROVE  PretInv'
  <2>1. /\ UNCHANGED <<copie, copieApres, expose>> \/ Vidange
        /\ UNCHANGED <<passage, fil>> /\ session # Aucun /\ session \in Installation
        /\ fil["installe"].pc = "repos"
    BY <1>3 DEF Verifie, EnSession, NoyauPret, DisqueInchange, disque, IInv, ResteInv
  <2>2. session'.cible = session.cible /\ session'.fini = session.fini
    <3> DEFINE r == Append(session.relue, contenu[session.cible][Len(session.relue) + 1])
    <3>1. session' = session \/ session' = [session EXCEPT !.relue = r]
      BY <1>3 DEF Verifie
    <3> HIDE DEF r
    <3> QED BY <2>1, <3>1 DEF Installation
  <2>3. MetaCalme /\ Prets \subseteq Prets'
    BY <1>0, <2>1, StepCalme, CalmePrets
  <2>4. SessionInv'
    BY <2>1, <2>2, <2>3 DEF PretInv, SessionInv, MetaCalme
  <2> QED BY <2>1, <2>4 DEF PretInv, CommenceInv, TermineInv
<1>4. ASSUME NEW pid \in Pids, Termine(pid)
      PROVE  PretInv'
  <2> DEFINE n == MarqueCandidat(Lu, session.cible, session.attendu, session.essais)
             a == Demande("persiste", n, Aucun)
  <2>0. /\ UNCHANGED <<copie, copieApres, expose, passage>>
        /\ Lisible /\ session # Aucun /\ session \in Installation
        /\ fil' = [fil EXCEPT !["installe"] = a]
        /\ session' = [session EXCEPT !.fini = TRUE]
        /\ PeutMarquer(Lu, session.cible, ImagePleine(session.attendu), session.relue, session.essais)
    BY <1>4 DEF Termine, EnSession, NoyauPret, DisqueInchange, disque, IInv, ResteInv
  <2>1. MetaCalme /\ Prets \subseteq Prets'
    BY <1>0, <2>0, StepCalme, CalmePrets
  <2>2. session' \in Installation /\ session'.cible = session.cible /\ session'.fini = TRUE /\ session' # Aucun
    BY <2>0, AucunAssumption DEF Installation
  <2>3. Lu.slots[session.cible].etat # "Candidat"
    BY <2>0 DEF PeutMarquer
  <2>4. SessionInv'
    BY <2>0, <2>1, <2>2, <2>3 DEF PretInv, SessionInv, MetaCalme
  <2>5. n.slots[session.cible].etat = "Candidat"
    <3>1. Lu \in Enregistrement /\ session.cible \in Slots
      BY <2>0, LuValide DEF IInv, Valide, Installation
    <3> QED BY <3>1 DEF MarqueCandidat, AvecSlot, Enregistrement
  <2>6. a.pc = "persiste" /\ a.n = n /\ a.inst = Aucun
    BY DEF Demande
  <2> HIDE DEF a, n
  <2>7. fil'["installe"] = a
    BY <1>0, <2>0, MajFaits
  <2>8. CommenceInv' /\ TermineInv'
    BY <2>2, <2>5, <2>6, <2>7 DEF CommenceInv, TermineInv
  <2> QED BY <2>4, <2>8 DEF PretInv
<1>5. ASSUME UNCHANGED <<copie, copieApres, expose, passage>>, fil' = [fil EXCEPT !["installe"] = Repos],
             \/ session' = session \/ session' = Aucun
             \/ session' = fil["installe"].inst /\ fil["installe"].pc = "persiste_ok"
      PROVE  PretInv'
  <2>1. fil'["installe"].pc = "repos"
    <3>1. fil'["installe"] = Repos
      BY <1>0, <1>5, MajFaits
    <3> QED BY <3>1, DemandeFaits
  <2>2. MetaCalme /\ Prets \subseteq Prets'
    BY <1>0, <1>5, StepCalme, CalmePrets
  <2>3. SessionInv'
    BY <1>5, <2>2 DEF PretInv, SessionInv, CommenceInv, MetaCalme
  <2> QED BY <2>1, <2>3 DEF PretInv, CommenceInv, TermineInv
<1>6. CASE DebutSession \/ FinSession \/ InstalleEchoue
  BY <1>5, <1>6 DEF DebutSession, FinSession, InstalleEchoue, DisqueInchange, disque
<1> QED BY <1>1, <1>2, <1>3, <1>4, <1>6 DEF Installe

(* the loader and the console run while nothing is installed, and the      *)
(* health commit starts no write of META while something is                *)
LEMMA AutresPret ==
    ASSUME IInv, DurInv, PretInv, Chargeur \/ Sante \/ Console \/ Redemarre \/ Coupure
    PROVE  PretInv'
<1>0. FilInv /\ DisqueInv /\ MetaInv /\ "installe" \in Fils /\ "sante" \in Fils
      /\ "chargeur" \in Fils /\ "console" \in Fils
  BY QuatreFils DEF IInv, DurInv
<1>1. CASE Chargeur
  <2>1. phase = "chargeur" /\ session' = session
    BY <1>1 DEF Chargeur, DecideRecovery, Choisit, Raisonne, Compte, Saute
  <2>2. fil'["installe"] = fil["installe"]
    BY <1>0, <1>1 DEF Chargeur, DecideRecovery, Choisit, Raisonne, Compte, Saute, EntreRecovery, FilInv
  <2> QED BY <2>1, <2>2, SansInstallation DEF DurInv, PhaseInv
<1>2. CASE Console
  <2>1. phase = "recovery" /\ session' = session
    BY <1>2 DEF Console, RollbackManuel, RollbackPersiste, RemetCompteur, ConsoleRend, ConsolePrete
  <2>2. fil'["installe"] = fil["installe"]
    BY <1>0, <1>2 DEF Console, RollbackManuel, RollbackPersiste, RemetCompteur, ConsoleRend, Vers, FilInv
  <2> QED BY <2>1, <2>2, SansInstallation DEF DurInv, PhaseInv
<1>3. CASE Sante
  <2>1. UNCHANGED <<copie, copieApres, expose, passage, session>>
    BY <1>3 DEF Sante, DeclareSain, SantePersiste, SanteRend, DisqueInchange, disque
  <2>2. fil'["installe"] = fil["installe"]
    BY <1>0, <1>3 DEF Sante, DeclareSain, SantePersiste, SanteRend, Vers, FilInv
  <2>3. MetaCalme
    BY <1>0, <2>1, StepCalme
  <2> QED BY <2>1, <2>2, <2>3, CalmePret
<1>4. CASE Redemarre \/ Coupure
  <2>1. session' = Aucun /\ fil'["installe"].pc = "repos"
    BY <1>0, <1>4, DemandeFaits DEF Redemarre, Coupure, RamPerdue
  <2> QED BY <2>1, SansInstallation
<1> QED BY <1>1, <1>2, <1>3, <1>4

(* the delivered machine installs nothing *)
LEMMA InitPret == Init => PretInv
<1> SUFFICES ASSUME Init PROVE PretInv
  OBVIOUS
<1>1. session = Aucun /\ fil["installe"].pc = "repos"
  BY QuatreFils, DemandeFaits DEF Init
<1> QED BY <1>1 DEF PretInv, SessionInv, CommenceInv, TermineInv

(* an installation writes only a slot that no record depends on *)
LEMMA NextPret == IInv /\ DurInv /\ PretInv /\ [Next]_vars => PretInv'
<1> SUFFICES ASSUME IInv, DurInv, PretInv, [Next]_vars PROVE PretInv'
  OBVIOUS
<1>1. CASE Next
  BY <1>1, EntreeSortiePret, InstallePret, AutresPret DEF Next
<1>2. CASE UNCHANGED vars
  <2>1. UNCHANGED <<copie, copieApres, expose, passage, session, fil>>
    BY <1>2 DEF vars, disque
  <2>2. MetaCalme
    BY <2>1, StepCalme DEF IInv, DurInv
  <2> QED BY <2>1, <2>2, CalmePret
<1> QED BY <1>1, <1>2

-----------------------------------------------------------------------------
(* What the transitions of ab.rs say of each slot *)

(* choisit_boot(): nothing to do, an attempt consumed, or a rollback *)
LEMMA ChoisitSlots ==
    ASSUME NEW e, Valide(e)
    PROVE  LET r == ChoisitBoot(e)
               autre == Autre(e.actif)
           IN  /\ r.apres.actif = e.actif
               /\ \/ r.apres = e /\ r.slot = e.actif
                  \/ /\ r.slot = autre
                     /\ e.slots[autre].etat = "Candidat" /\ e.slots[autre].essais > 0
                     /\ r.apres.slots = [e.slots EXCEPT ![autre] =
                           [etat |-> "Candidat", essais |-> e.slots[autre].essais - 1, image |-> e.slots[autre].image]]
                  \/ /\ r.slot = e.actif
                     /\ r.apres.slots = [e.slots EXCEPT ![autre] =
                           [etat |-> "Mauvais", essais |-> 0, image |-> e.slots[autre].image]]
BY DEF ChoisitBoot, AvecEtat, AvecSlot

(* a record has two slots, and the active one is Good *)
LEMMA DeuxSlots ==
    ASSUME NEW e, Valide(e)
    PROVE  /\ e.actif \in Slots /\ e.slots \in [Slots -> InfoSlot]
           /\ Autre(e.actif) \in Slots /\ Autre(e.actif) # e.actif
           /\ \A s \in Slots : s = e.actif \/ s = Autre(e.actif)
           /\ e.slots[e.actif].etat = "Bon"
           /\ \A s \in Slots : e.slots[s].essais \in Nat /\ e.slots[s].image \in ImagesLues
<1>1. e \in Enregistrement /\ e.slots[e.actif].etat = "Bon"
  BY DEF Valide
<1>2. e.actif \in Slots /\ e.slots \in [Slots -> InfoSlot]
  BY <1>1 DEF Enregistrement
<1>3. \A s \in Slots : e.slots[s] \in InfoSlot
  BY <1>2
<1>4. \A s \in Slots : e.slots[s].essais \in Nat /\ e.slots[s].image \in ImagesLues
  BY <1>3, CoreAssumption DEF InfoSlot, ImagesLues
<1> QED BY <1>1, <1>2, <1>4, AutreType DEF Slots, Autre

-----------------------------------------------------------------------------
(* The attempts of a candidate *)

(* records whose candidate may still be booted as often as they say *)
Accordes == {e \in Enregistrement : \A s \in Slots :
    e.slots[s].etat = "Candidat" => demarrages + e.slots[s].essais <= budget}

(* the same with the boot that is being decided *)
Restants == {e \in Enregistrement : \A s \in Slots :
    e.slots[s].etat = "Candidat" => demarrages + 1 + e.slots[s].essais <= budget}

Comptant == {"decide", "compte", "compte_vidange", "compte_ok", "compte_echec"}

(* the loader between its choice of a candidate and the jump *)
EssaiChargeur ==
    LET c == fil["chargeur"]
    IN  /\ (c.pc \in {"persiste", "ecrit", "vidange", "relit", "persiste_ok"} /\ c.n.actif # c.slot)
              => c.n \in Restants /\ demarrages + 1 <= budget
        /\ c.pc = "vidange" => Lu = c.n
        /\ c.pc \in {"relit", "persiste_ok"} => EnregistrementsPossibles \subseteq {c.n}
        /\ (c.pc \in Comptant /\ c.raison = "CandidatEssaiConsomme")
              => EnregistrementsPossibles \subseteq Restants /\ demarrages + 1 <= budget

(* An attempt is counted in every record a power loss may leave before the *)
(* candidate is booted.                                                    *)
EssaisInv ==
    ~expose =>
        /\ demarrages \in Nat /\ budget \in Nat /\ demarrages <= budget
        /\ EnregistrementsPossibles \subseteq Accordes
        /\ \A f \in Fils : fil[f].pc \in {"persiste", "ecrit"} => fil[f].n \in Accordes
        /\ EssaiChargeur

(* a transition that gives no candidate more attempts *)
LEMMA AccordeDerive ==
    ASSUME NEW e \in Accordes, NEW n \in Enregistrement, demarrages \in Nat, budget \in Nat, Valide(e),
           \A s \in Slots : /\ n.slots[s].essais \in Nat
                            /\ n.slots[s].etat = "Candidat" =>
                                e.slots[s].etat = "Candidat" /\ n.slots[s].essais <= e.slots[s].essais
    PROVE  n \in Accordes
<1>1. \A s \in Slots : e.slots[s].essais \in Nat
  BY DeuxSlots
<1>2. \A s \in Slots : e.slots[s].etat = "Candidat" => demarrages + e.slots[s].essais <= budget
  BY DEF Accordes
<1>3. ASSUME NEW s \in Slots, n.slots[s].etat = "Candidat" PROVE demarrages + n.slots[s].essais <= budget
  BY <1>1, <1>2, <1>3
<1> QED BY <1>3 DEF Accordes

(* the current record is one of those *)
LEMMA LuAccorde ==
    ASSUME IInv, DurInv, EssaisInv, ~expose, Lisible
    PROVE  Lu \in Accordes /\ Valide(Lu) /\ Lu \in EnregistrementsPossibles
<1>1. Lu \in EnregistrementsPossibles /\ Valide(Lu)
  BY PossiblesSur, LuValide DEF IInv, DurInv, MetaInv
<1> QED BY <1>1 DEF EssaisInv

(* one request *)
LEMMA EntreeSortieEssais ==
    ASSUME IInv, DurInv, EssaisInv, NEW f \in Fils, EntreeSortie(f)
    PROVE  EssaisInv'
<1>0. "chargeur" \in Fils
  BY QuatreFils
<1>1. /\ fil[f].pc # "repos" /\ fil'[f].n = fil[f].n /\ fil'[f].slot = fil[f].slot
      /\ fil'[f].raison = fil[f].raison
      /\ \A g \in Fils \ {f} : fil'[g] = fil[g]
      /\ UNCHANGED <<demarrages, budget>>
      /\ fil[f].pc # "ecrit" => MetaCalme
      /\ fil'[f].pc \in {"persiste", "ecrit"} => fil[f].pc = "persiste" /\ fil'[f].pc = "ecrit"
      /\ fil'[f].pc = "vidange" => fil[f].pc = "ecrit"
      /\ fil'[f].pc = "relit" => fil[f].pc = "vidange" /\ Vidange
      /\ fil'[f].pc = "persiste_ok" => fil[f].pc = "relit"
  BY RequeteFaits
<1>2. Accordes' = Accordes /\ Restants' = Restants
  BY <1>1 DEF Accordes, Restants
<1>3. f # "chargeur" => fil["chargeur"].pc = "repos" /\ fil'["chargeur"] = fil["chargeur"]
  BY <1>0, <1>1, QuatreFils DEF DurInv, PhaseInv
<1>4. fil'[f].pc \in Comptant => fil[f].pc \in Comptant
  BY DEF EntreeSortie, LitCopies, EcritCopie, VideCopie, RelitCopie, EcritCompteur, VideCompteur,
         Comptant, Vers, IInv, FilInv, Appel
<1>5. \A g \in Fils : fil'[g].pc \in {"persiste", "ecrit"} => fil[g].pc \in {"persiste", "ecrit"} /\ fil'[g].n = fil[g].n
  BY <1>1
<1>6. CASE MetaCalme
  <2> SUFFICES ASSUME ~expose'
               PROVE  /\ EnregistrementsPossibles' \subseteq Accordes /\ EssaiChargeur'
                      /\ \A g \in Fils : fil'[g].pc \in {"persiste", "ecrit"} => fil'[g].n \in Accordes
    BY <1>1, <1>2, <1>6 DEF EssaisInv, MetaCalme
  <2>1. ~expose /\ EnregistrementsPossibles' \subseteq EnregistrementsPossibles /\ Lu' = Lu
    BY <1>6 DEF MetaCalme
  <2>2. EssaiChargeur
    BY <2>1 DEF EssaisInv
  <2>3. CASE f = "chargeur"
    <3> DEFINE c == fil["chargeur"]
               d == fil'["chargeur"]
    <3>1. ASSUME d.pc = "relit" PROVE EnregistrementsPossibles' \subseteq {d.n}
      <4>1. Vidange /\ Lu = c.n /\ d.n = c.n
        BY <1>1, <2>2, <2>3, <3>1 DEF EssaiChargeur
      <4>2. Lisible
        BY <1>0, <1>1, <2>3, <3>1 DEF DurInv, EcrivainBon
      <4> QED BY <4>1, <4>2, MetaVide DEF IInv, DurInv
    <3>2. d.pc = "persiste_ok" => EnregistrementsPossibles' \subseteq {d.n}
      BY <1>1, <2>1, <2>2, <2>3 DEF EssaiChargeur
    <3>3. d.pc = "vidange" => Lu' = d.n
      BY <1>1, <2>3, EcritureFaits
    <3>4. d.n = c.n /\ d.slot = c.slot /\ d.raison = c.raison /\ (d.pc \in Comptant => c.pc \in Comptant)
          /\ (d.pc \in {"persiste", "ecrit", "vidange", "relit", "persiste_ok"}
                => c.pc \in {"persiste", "ecrit", "vidange", "relit", "persiste_ok"})
      BY <1>1, <1>4, <2>3
    <3>5. EssaiChargeur'
      BY <1>1, <1>2, <2>1, <2>2, <3>1, <3>2, <3>3, <3>4 DEF EssaiChargeur
    <3> QED BY <1>5, <2>1, <3>5 DEF EssaisInv
  <2>4. CASE f # "chargeur"
    <3>1. EssaiChargeur'
      BY <1>3, <2>4 DEF EssaiChargeur, Comptant
    <3> QED BY <1>5, <2>1, <3>1 DEF EssaisInv
  <2> QED BY <2>3, <2>4
<1>7. CASE ~MetaCalme
  <2>1. /\ fil[f].pc = "ecrit" /\ fil'[f].pc \in {"vidange", "echec"} /\ Lu' = fil[f].n
        /\ ~expose' => (~expose /\ EnregistrementsPossibles' \subseteq EnregistrementsPossibles \cup {fil[f].n})
    BY <1>1, <1>7, EcritureFaits
  <2> SUFFICES ASSUME ~expose'
               PROVE  /\ EnregistrementsPossibles' \subseteq Accordes /\ EssaiChargeur'
                      /\ \A g \in Fils : fil'[g].pc \in {"persiste", "ecrit"} => fil'[g].n \in Accordes
    BY <1>1, <1>2, <2>1 DEF EssaisInv
  <2>2. ~expose /\ fil[f].n \in Accordes /\ EnregistrementsPossibles \subseteq Accordes /\ EssaiChargeur
    BY <2>1 DEF EssaisInv
  <2>3. CASE f = "chargeur"
    <3>1. EssaiChargeur'
      BY <1>1, <1>2, <2>1, <2>2, <2>3 DEF EssaiChargeur, Comptant
    <3> QED BY <1>5, <2>1, <2>2, <3>1 DEF EssaisInv
  <2>4. CASE f # "chargeur"
    <3>1. EssaiChargeur'
      BY <1>3, <2>4 DEF EssaiChargeur, Comptant
    <3> QED BY <1>5, <2>1, <2>2, <3>1 DEF EssaisInv
  <2> QED BY <2>3, <2>4
<1> QED BY <1>6, <1>7

(* the loader: it consumes an attempt, writes it, and boots *)
LEMMA ChargeurEssais ==
    ASSUME IInv, DurInv, EssaisInv, Chargeur
    PROVE  EssaisInv'
<1> DEFINE c == fil["chargeur"]
<1>0. "chargeur" \in Fils /\ FilInv /\ c \in Appel /\ (c.pc # "repos" => Valide(c.n))
  BY QuatreFils DEF IInv, FilInv, AppelBon
<1>1. phase = "chargeur" /\ UNCHANGED <<copie, copieApres, expose, budget>>
  BY DEF Chargeur, DecideRecovery, Choisit, Raisonne, Compte, Saute, DisqueInchange, disque, histoire
<1>2. Lu' = Lu /\ EnregistrementsPossibles' = EnregistrementsPossibles /\ expose' = expose
  BY <1>1, MetaInchange
<1>3. \A g \in Fils \ {"chargeur"} : fil[g].pc = "repos"
  BY <1>1, QuatreFils DEF DurInv, PhaseInv
<1>4. ASSUME NEW a, fil' = [fil EXCEPT !["chargeur"] = a], UNCHANGED demarrages,
             ~expose => \/ a.pc = "repos"
                        \/ /\ a.pc = "persiste" /\ a.n \in Accordes
                           /\ a.n.actif # a.slot => a.n \in Restants /\ demarrages + 1 <= budget
                        \/ /\ a.pc \in Comptant
                           /\ a.raison = "CandidatEssaiConsomme" =>
                                 EnregistrementsPossibles \subseteq Restants /\ demarrages + 1 <= budget
      PROVE  EssaisInv'
  <2>1. fil'["chargeur"] = a /\ \A g \in Fils \ {"chargeur"} : fil'[g].pc = "repos"
    BY <1>0, <1>3, <1>4, MajFaits, ZenonT(30)
  <2>2. Accordes' = Accordes /\ Restants' = Restants
    BY <1>1, <1>4 DEF Accordes, Restants
  <2>3. ~expose => EssaiChargeur'
    BY <1>1, <1>2, <1>4, <2>1, <2>2 DEF EssaiChargeur, Comptant
  <2>4. ~expose => \A g \in Fils : fil'[g].pc \in {"persiste", "ecrit"} => fil'[g].n \in Accordes
    BY <1>4, <2>1 DEF Comptant
  <2> QED BY <1>1, <1>2, <1>4, <2>2, <2>3, <2>4 DEF EssaisInv
<1>5. CASE DecideRecovery
  BY <1>4, <1>5, DemandeFaits DEF DecideRecovery, EntreRecovery, histoire
<1>6. CASE Choisit
  <2> DEFINE ch == ChoisitBoot(Lu)
             pc == IF ch.apres = Lu THEN "decide" ELSE "persiste"
             a  == [fil["chargeur"] EXCEPT !.pc = pc, !.n = ch.apres, !.slot = ch.slot,
                                           !.raison = "Actif", !.seq = Lu.sequence]
  <2>1. fil' = [fil EXCEPT !["chargeur"] = a] /\ Lisible /\ UNCHANGED demarrages
    BY <1>6, Zenon DEF Choisit, histoire
  <2>2. pc \in {"decide", "persiste"}
    OBVIOUS
  <2> HIDE DEF pc
  <2>3. Valide(Lu) /\ Valide(ch.apres)
    BY <2>1, LuValide, ChoisitValide DEF IInv
  <2>4. ASSUME ~expose
        PROVE  /\ ch.apres \in Accordes
               /\ ch.apres.actif # ch.slot => ch.apres \in Restants /\ demarrages + 1 <= budget
    <3> DEFINE autre == Autre(Lu.actif)
    <3>0. Lu \in Accordes /\ demarrages \in Nat /\ budget \in Nat
      BY <2>1, <2>4, LuAccorde DEF EssaisInv
    <3>1. /\ autre \in Slots /\ autre # Lu.actif /\ \A s \in Slots : s = Lu.actif \/ s = autre
          /\ Lu.slots[Lu.actif].etat = "Bon" /\ Lu.slots \in [Slots -> InfoSlot] /\ Lu.actif \in Slots
          /\ \A s \in Slots : Lu.slots[s].essais \in Nat
      BY <2>3, DeuxSlots
    <3>2. ch.apres \in Enregistrement /\ ch.apres.actif = Lu.actif
      BY <2>3, ChoisitSlots DEF Valide
    <3>3. CASE ch.apres = Lu /\ ch.slot = Lu.actif
      BY <3>0, <3>3
    <3>4. CASE /\ ch.slot = autre
               /\ Lu.slots[autre].etat = "Candidat" /\ Lu.slots[autre].essais > 0
               /\ ch.apres.slots = [Lu.slots EXCEPT ![autre] =
                     [etat |-> "Candidat", essais |-> Lu.slots[autre].essais - 1, image |-> Lu.slots[autre].image]]
      <4>1. /\ ch.apres.slots[autre].essais = Lu.slots[autre].essais - 1
            /\ ch.apres.slots[Lu.actif] = Lu.slots[Lu.actif]
        BY <3>1, <3>4
      <4>2. demarrages + Lu.slots[autre].essais <= budget
        BY <3>0, <3>1, <3>4 DEF Accordes
      <4>3. /\ demarrages + 1 + ch.apres.slots[autre].essais <= budget
            /\ demarrages + ch.apres.slots[autre].essais <= budget
            /\ demarrages + 1 <= budget
        BY <3>0, <3>1, <3>4, <4>1, <4>2
      <4> HIDE DEF autre, ch
      <4>4. ch.apres \in Restants /\ ch.apres \in Accordes
        BY <3>1, <3>2, <4>1, <4>3 DEF Restants, Accordes
      <4> QED BY <4>3, <4>4
    <3>5. CASE /\ ch.slot = Lu.actif
               /\ ch.apres.slots = [Lu.slots EXCEPT ![autre] =
                     [etat |-> "Mauvais", essais |-> 0, image |-> Lu.slots[autre].image]]
      <4>1. /\ ch.apres.slots[autre].etat = "Mauvais"
            /\ ch.apres.slots[Lu.actif] = Lu.slots[Lu.actif]
        BY <3>1, <3>5
      <4> HIDE DEF autre, ch
      <4> QED BY <3>1, <3>2, <3>5, <4>1 DEF Accordes
    <3> QED BY <2>3, <3>3, <3>4, <3>5, ChoisitSlots
  <2> HIDE DEF ch
  <2>5. a.pc = pc /\ a.n = ch.apres /\ a.slot = ch.slot /\ a.raison = "Actif"
    BY <1>0 DEF Appel
  <2> HIDE DEF a
  <2> QED BY <1>4, <2>1, <2>2, <2>4, <2>5 DEF Comptant
<1>7. CASE Raisonne
  <2> DEFINE candidat == c.n.actif # c.slot
             r1 == IF candidat THEN "CandidatEssaiConsomme" ELSE "RollbackCandidatEpuise"
             r2 == IF candidat THEN "PersistanceImpossibleReplieActif" ELSE "RollbackNonPersiste"
             a1 == [c EXCEPT !.pc = "decide", !.seq = c.n.sequence, !.raison = r1]
             a2 == [c EXCEPT !.pc = "decide", !.slot = c.n.actif, !.raison = r2]
  <2>1. /\ fil' = [fil EXCEPT !["chargeur"] = IF c.pc = "persiste_ok" THEN a1 ELSE a2]
        /\ UNCHANGED demarrages
    BY <1>7, Zenon DEF Raisonne
  <2>2. a1.pc = "decide" /\ a2.pc = "decide" /\ a1.raison = r1 /\ a2.raison = r2
    BY <1>0 DEF Appel
  <2>3. r2 # "CandidatEssaiConsomme" /\ (r1 = "CandidatEssaiConsomme" => candidat)
    OBVIOUS
  <2>4. ASSUME ~expose, c.pc = "persiste_ok", candidat
        PROVE  EnregistrementsPossibles \subseteq Restants /\ demarrages + 1 <= budget
    BY <2>4 DEF EssaisInv, EssaiChargeur
  <2> HIDE DEF a1, a2, r1, r2, candidat
  <2>5. CASE c.pc = "persiste_ok"
    BY <1>4, <2>1, <2>2, <2>3, <2>4, <2>5 DEF Comptant
  <2>6. CASE c.pc # "persiste_ok"
    BY <1>4, <2>1, <2>2, <2>3, <2>6 DEF Comptant
  <2> QED BY <2>5, <2>6
<1>8. CASE Compte
  <2>0. UNCHANGED demarrages /\ c.pc = "decide"
    BY <1>8 DEF Compte
  <2>1. PICK lu \in {compteur, 0} :
          IF VersRecovery(lu, c.raison)
          THEN EntreRecovery("RecoveryEchecsRepetes", c.n.actif, c.seq)
          ELSE fil' = [fil EXCEPT !["chargeur"] =
                    [@ EXCEPT !.pc = IF CompteurAvantBoot(lu, c.raison) = lu
                                     THEN "compte_ok" ELSE "compte",
                              !.val = CompteurAvantBoot(lu, c.raison)]]
    BY <1>8 DEF Compte
  <2>2. CASE VersRecovery(lu, c.raison)
    BY <1>4, <2>0, <2>1, <2>2, DemandeFaits DEF EntreRecovery
  <2>3. CASE ~VersRecovery(lu, c.raison)
    <3> DEFINE v == CompteurAvantBoot(lu, c.raison)
               pc == IF v = lu THEN "compte_ok" ELSE "compte"
               a == [fil["chargeur"] EXCEPT !.pc = pc, !.val = v]
    <3>1. pc \in Comptant
      BY DEF Comptant
    <3>2. fil' = [fil EXCEPT !["chargeur"] = a]
      BY <2>1, <2>3, Zenon
    <3> HIDE DEF v, pc
    <3>3. a.pc = pc /\ a.raison = c.raison
      BY <1>0 DEF Appel
    <3>4. ~expose => (c.raison = "CandidatEssaiConsomme" =>
                         EnregistrementsPossibles \subseteq Restants /\ demarrages + 1 <= budget)
      BY <2>0 DEF EssaisInv, EssaiChargeur, Comptant
    <3> HIDE DEF a
    <3> QED BY <1>4, <2>0, <3>1, <3>2, <3>3, <3>4
  <2> QED BY <2>2, <2>3
<1>9. CASE Saute
  <2>1. fil' = [fil EXCEPT !["chargeur"] = Repos] /\ c.pc \in {"compte_ok", "compte_echec"}
        /\ demarrages' \in {demarrages, IF c.raison = "CandidatEssaiConsomme" THEN demarrages + 1 ELSE demarrages}
    BY <1>9 DEF Saute, EntreRecovery
  <2>2. CASE demarrages' = demarrages
    BY <1>4, <2>1, <2>2, DemandeFaits
  <2>3. CASE c.raison = "CandidatEssaiConsomme" /\ demarrages' = demarrages + 1
    <3>1. fil'["chargeur"] = Repos /\ \A g \in Fils \ {"chargeur"} : fil'[g].pc = "repos"
      BY <1>0, <1>3, <2>1, MajFaits, ZenonT(30)
    <3>2. \A g \in Fils : fil'[g].pc = "repos"
      BY <3>1, DemandeFaits
    <3>3. ~expose => EnregistrementsPossibles \subseteq Restants /\ demarrages + 1 <= budget
                     /\ demarrages \in Nat /\ budget \in Nat
      BY <2>1, <2>3 DEF EssaisInv, EssaiChargeur, Comptant
    <3>4. Restants = Accordes'
      BY <1>1, <2>3 DEF Restants, Accordes
    <3>5. EssaiChargeur'
      BY <1>0, <3>2 DEF EssaiChargeur, Comptant
    <3> QED BY <1>1, <1>2, <2>3, <3>2, <3>3, <3>4, <3>5 DEF EssaisInv
  <2> QED BY <2>1, <2>2, <2>3
<1> QED BY <1>5, <1>6, <1>7, <1>8, <1>9 DEF Chargeur

(* a call returns *)
LEMMA RetourFaits ==
    ASSUME FilInv, NEW f \in Fils, fil' = [fil EXCEPT ![f] = Repos]
    PROVE  fil'[f].pc = "repos" /\ \A g \in Fils \ {f} : fil'[g] = fil[g]
<1>1. fil'[f] = Repos /\ \A g \in Fils \ {f} : fil'[g] = fil[g]
  BY MajFaits
<1> QED BY <1>1, DemandeFaits

(* a call of the kernel or the console, which grants no attempt *)
LEMMA AppelEssais ==
    ASSUME IInv, DurInv, EssaisInv, MetaCalme, phase # "chargeur", UNCHANGED <<demarrages, budget>>,
           NEW f \in Fils \ {"chargeur"},
           \A g \in Fils \ {f} : fil'[g] = fil[g],
           ~expose => (fil'[f].pc \in {"persiste", "ecrit"} => fil'[f].n \in Accordes)
    PROVE  EssaisInv'
<1>1. fil'["chargeur"].pc = "repos"
  BY QuatreFils DEF DurInv, PhaseInv
<1>2. EssaiChargeur'
  BY <1>1 DEF EssaiChargeur, Comptant
<1>3. Accordes' = Accordes
  BY DEF Accordes
<1>4. ~expose => \A g \in Fils : fil'[g].pc \in {"persiste", "ecrit"} => fil'[g].n \in Accordes
  BY DEF EssaisInv
<1> QED BY <1>2, <1>3, <1>4 DEF EssaisInv, MetaCalme

(* the health commit *)
LEMMA SanteEssais ==
    ASSUME IInv, DurInv, EssaisInv, Sante
    PROVE  EssaisInv'
<1>0. "sante" \in Fils \ {"chargeur"} /\ FilInv /\ DisqueInv /\ MetaInv
  BY QuatreFils DEF IInv, DurInv
<1>1. /\ UNCHANGED <<copie, copieApres, expose, demarrages, budget>> /\ phase = "noyau"
      /\ \A g \in Fils \ {"sante"} : fil'[g] = fil[g]
  BY <1>0 DEF Sante, DeclareSain, SantePersiste, SanteRend, NoyauPret, Vers, DisqueInchange, disque, histoire, FilInv
<1>2. MetaCalme
  BY <1>0, <1>1, StepCalme
<1>3. CASE fil'["sante"].pc \notin {"persiste", "ecrit"}
  BY <1>0, <1>1, <1>2, <1>3, AppelEssais
<1>4. CASE DeclareSain /\ PeutPromouvoir(passage, Lu)
           /\ fil' = [fil EXCEPT !["sante"] = Demande("persiste", SanteOk(Lu, passage.slot), Aucun)]
  <2> DEFINE n == SanteOk(Lu, passage.slot)
  <2>1. fil'["sante"].n = n
    <3>1. fil'["sante"] = Demande("persiste", n, Aucun)
      BY <1>0, <1>4, MajFaits
    <3> QED BY <3>1, DemandeFaits
  <2>2. Lisible /\ passage.slot \in Slots /\ Lu.slots[passage.slot].etat = "Candidat"
    BY <1>4 DEF DeclareSain, NoyauPret, PeutPromouvoir, IInv, ResteInv, Passage
  <2>3. Valide(Lu) /\ Valide(n)
    BY <2>2, LuValide, SanteValide DEF IInv
  <2>4. ASSUME ~expose PROVE n \in Accordes
    <3>1. Lu \in Accordes /\ demarrages \in Nat /\ budget \in Nat
      BY <2>2, <2>4, LuAccorde DEF EssaisInv
    <3>2. n.slots = [Lu.slots EXCEPT ![passage.slot] =
                [etat |-> "Bon", essais |-> 0, image |-> Lu.slots[passage.slot].image]]
      BY <2>2 DEF SanteOk, AvecEtat, AvecSlot
    <3>3. /\ \A s \in Slots : Lu.slots[s].essais \in Nat
          /\ Lu.slots \in [Slots -> InfoSlot] /\ n \in Enregistrement
          /\ \A s \in Slots : n.slots[s].essais \in Nat
      BY <2>3, DeuxSlots DEF Valide
    <3> HIDE DEF n
    <3>4. \A s \in Slots : n.slots[s].etat = "Candidat" => n.slots[s] = Lu.slots[s]
      BY <2>2, <3>2, <3>3
    <3> QED BY <2>3, <3>1, <3>3, <3>4, AccordeDerive
  <2> HIDE DEF n
  <2> QED BY <1>0, <1>1, <1>2, <2>1, <2>4, AppelEssais
<1>5. CASE ~(fil'["sante"].pc \notin {"persiste", "ecrit"})
  <2>1. ~SantePersiste /\ ~SanteRend
    <3>1. SantePersiste => fil'["sante"].pc = "compte"
      BY <1>0, VersFaits DEF SantePersiste
    <3>2. SanteRend => fil'["sante"].pc = "repos"
      BY <1>0, RetourFaits DEF SanteRend
    <3> QED BY <1>5, <3>1, <3>2
  <2>2. DeclareSain
    BY <2>1 DEF Sante
  <2>3. fil' # [fil EXCEPT !["sante"] = Demande("compte", Illisible, Aucun)]
    BY <1>0, <1>5, MajFaits, DemandeFaits
  <2> QED BY <1>4, <2>2, <2>3 DEF DeclareSain
<1> QED BY <1>3, <1>5

(* the console *)
LEMMA ConsoleEssais ==
    ASSUME IInv, DurInv, EssaisInv, Console
    PROVE  EssaisInv'
<1>0. "console" \in Fils \ {"chargeur"} /\ FilInv /\ DisqueInv /\ MetaInv
  BY QuatreFils DEF IInv, DurInv
<1>1. /\ UNCHANGED <<copie, copieApres, expose, demarrages, budget>> /\ phase = "recovery"
      /\ \A g \in Fils \ {"console"} : fil'[g] = fil[g]
  BY <1>0 DEF Console, RollbackManuel, RollbackPersiste, RemetCompteur, ConsoleRend, ConsolePrete, Vers,
              DisqueInchange, disque, histoire, FilInv
<1>2. MetaCalme
  BY <1>0, <1>1, StepCalme
<1>3. CASE RollbackManuel
  <2> DEFINE n == Revient(Lu)
  <2>1. fil'["console"] = Demande("persiste", n, Aucun) /\ Lisible /\ PeutRevenir(Lu)
    BY <1>0, <1>3, MajFaits DEF RollbackManuel
  <2>2. fil'["console"].n = n
    BY <2>1, DemandeFaits
  <2>3. Valide(Lu) /\ Valide(n) /\ n.slots = Lu.slots
    BY <2>1, LuValide, RevientValide DEF IInv, Revient
  <2>4. ASSUME ~expose PROVE n \in Accordes
    <3>1. Lu \in Accordes /\ demarrages \in Nat /\ budget \in Nat
      BY <2>1, <2>4, LuAccorde DEF EssaisInv
    <3> HIDE DEF n
    <3>2. n \in Enregistrement
      BY <2>3 DEF Valide
    <3> QED BY <2>3, <3>1, <3>2 DEF Accordes
  <2> HIDE DEF n
  <2> QED BY <1>0, <1>1, <1>2, <2>2, <2>4, AppelEssais
<1>4. CASE ~RollbackManuel
  <2>1. RollbackPersiste => fil'["console"].pc = "compte"
    BY <1>0, VersFaits DEF RollbackPersiste
  <2>2. RemetCompteur => fil'["console"].pc = "compte"
    <3>1. RemetCompteur => fil'["console"] = Demande("compte", Illisible, Aucun)
      BY <1>0, MajFaits DEF RemetCompteur
    <3> QED BY <3>1, DemandeFaits
  <2>3. ConsoleRend => fil'["console"].pc = "repos"
    BY <1>0, RetourFaits DEF ConsoleRend
  <2> QED BY <1>0, <1>1, <1>2, <1>4, <2>1, <2>2, <2>3, AppelEssais DEF Console
<1> QED BY <1>3, <1>4

(* The installation: when it grants attempts, no record that META may hold *)
(* has a candidate.                                                        *)
LEMMA InstalleEssais ==
    ASSUME IInv, DurInv, PretInv, EssaisInv, Installe
    PROVE  EssaisInv'
<1>0. "installe" \in Fils \ {"chargeur"} /\ FilInv /\ DisqueInv /\ MetaInv
  BY QuatreFils DEF IInv, DurInv
<1>1. ASSUME NEW pid \in Pids, NEW cible \in Slots, NEW image \in Images, NEW essais \in 1..EssaisMax,
             Commence(pid, cible, image, essais)
      PROVE  EssaisInv'
  <2> DEFINE n == CommenceInstallation(Lu, cible)
             inst == NouvelleSession(pid, cible, image, essais)
  <2>0. /\ UNCHANGED <<copie, copieApres, expose, demarrages, budget>>
        /\ Lisible /\ phase = "noyau" /\ PeutCommencer(Lu, cible, passage.slot)
        /\ fil' = [fil EXCEPT !["installe"] = Demande("persiste", n, inst)]
    BY <1>1 DEF Commence, NoyauPret, DisqueInchange, disque, histoire
  <2>1. MetaCalme
    BY <1>0, <2>0, StepCalme
  <2>2. fil'["installe"].n = n /\ \A g \in Fils \ {"installe"} : fil'[g] = fil[g]
    <3>1. fil'["installe"] = Demande("persiste", n, inst) /\ \A g \in Fils \ {"installe"} : fil'[g] = fil[g]
      BY <1>0, <2>0, MajFaits
    <3> QED BY <3>1, DemandeFaits
  <2>3. Valide(Lu) /\ Valide(n)
    BY <2>0, LuValide, CommenceValide DEF IInv
  <2>4. ASSUME ~expose PROVE n \in Accordes
    <3>1. Lu \in Accordes /\ demarrages \in Nat /\ budget \in Nat
      BY <2>0, <2>4, LuAccorde DEF EssaisInv
    <3>2. n.slots = [Lu.slots EXCEPT ![cible] = SlotVide]
      BY DEF CommenceInstallation, AvecSlot
    <3>3. /\ \A s \in Slots : Lu.slots[s].essais \in Nat
          /\ Lu.slots \in [Slots -> InfoSlot] /\ n \in Enregistrement
          /\ \A s \in Slots : n.slots[s].essais \in Nat
      BY <2>3, DeuxSlots DEF Valide
    <3> HIDE DEF n
    <3>4. \A s \in Slots : n.slots[s].etat = "Candidat" => n.slots[s] = Lu.slots[s]
      BY <3>2, <3>3 DEF SlotVide
    <3> QED BY <2>3, <3>1, <3>3, <3>4, AccordeDerive
  <2> HIDE DEF n
  <2> QED BY <1>0, <2>0, <2>1, <2>2, <2>4, AppelEssais
<1>2. ASSUME NEW pid \in Pids, Termine(pid)
      PROVE  EssaisInv'
  <2> DEFINE t == session.cible
             n == MarqueCandidat(Lu, t, session.attendu, session.essais)
  <2>0. /\ UNCHANGED <<copie, copieApres, expose>> /\ phase = "noyau"
        /\ Lisible /\ session # Aucun /\ session \in Installation
        /\ fil' = [fil EXCEPT !["installe"] = Demande("persiste", n, Aucun)]
        /\ PeutMarquer(Lu, t, ImagePleine(session.attendu), session.relue, session.essais)
        /\ demarrages' = 0 /\ budget' = session.essais
    BY <1>2 DEF Termine, EnSession, NoyauPret, DisqueInchange, disque, IInv, ResteInv
  <2>1. /\ Lu' = Lu /\ EnregistrementsPossibles' = EnregistrementsPossibles
    BY <2>0, MetaInchange
  <2>2. /\ t \in Slots /\ session.essais \in 1..EssaisMax /\ session.attendu \in Images
        /\ budget' \in Nat /\ t # Lu.actif
    BY <2>0, CoreAssumption DEF Installation, PeutMarquer
  <2>3. t \in Prets
    BY <2>0 DEF PretInv, SessionInv, PeutMarquer
  <2>4. Valide(Lu) /\ Valide(n)
    BY <2>0, <2>2, LuValide, MarqueValide DEF IInv
  <2>5. ASSUME ~expose, NEW e \in EnregistrementsPossibles PROVE e \in Accordes'
    <3>1. e \in Sur
      BY <1>0, <2>5, PossiblesSur DEF DurInv, AccuseDurable, MetaInv
    <3>2. Valide(e) /\ e.actif # t /\ e.slots[t].etat # "Candidat"
      BY <1>0, <2>3, <3>1, BlocsValides DEF Prets
    <3>3. \A s \in Slots : s = t \/ s = e.actif
      BY <2>2, <3>2, DeuxSlots DEF Slots
    <3>4. \A s \in Slots : e.slots[s].etat # "Candidat"
      BY <3>2, <3>3, DeuxSlots
    <3> QED BY <3>2, <3>4 DEF Accordes, Valide
  <2>6. n \in Accordes'
    <3>1. n.slots = [Lu.slots EXCEPT ![t] =
                [etat |-> "Candidat", essais |-> session.essais, image |-> session.attendu]]
      BY DEF MarqueCandidat, AvecSlot
    <3>2. /\ Lu.slots \in [Slots -> InfoSlot] /\ n \in Enregistrement /\ Lu.actif \in Slots
          /\ Lu.slots[Lu.actif].etat = "Bon"
      BY <2>4, DeuxSlots DEF Valide
    <3>3. \A s \in Slots : s = t \/ s = Lu.actif
      BY <2>2, <3>2 DEF Slots
    <3> HIDE DEF n, t
    <3>4. n.slots[t].essais = session.essais /\ n.slots[Lu.actif].etat = "Bon"
      BY <2>2, <3>1, <3>2
    <3>5. demarrages' + n.slots[t].essais <= budget'
      BY <2>0, <2>2, <3>4
    <3> QED BY <3>2, <3>3, <3>4, <3>5 DEF Accordes
  <2>7. fil'["installe"].n = n /\ \A g \in Fils \ {"installe"} : fil'[g] = fil[g]
    <3>1. fil'["installe"] = Demande("persiste", n, Aucun) /\ \A g \in Fils \ {"installe"} : fil'[g] = fil[g]
      BY <1>0, <2>0, MajFaits
    <3> QED BY <3>1, DemandeFaits
  <2>8. \A g \in Fils \ {"installe"} : fil'[g].pc \notin {"persiste", "ecrit"}
    BY <2>0, <2>7, QuatreFils, PendantInstallation
  <2>9. fil'["chargeur"].pc = "repos"
    BY <2>0, <2>7, QuatreFils, PendantInstallation
  <2>10. EssaiChargeur'
    BY <2>9 DEF EssaiChargeur, Comptant
  <2>11. \A g \in Fils : fil'[g].pc \in {"persiste", "ecrit"} => fil'[g].n \in Accordes'
    BY <2>6, <2>7, <2>8
  <2> HIDE DEF n
  <2> QED BY <2>0, <2>1, <2>2, <2>5, <2>10, <2>11 DEF EssaisInv
<1>3. ASSUME UNCHANGED <<copie, copieApres, expose>> \/ Vidange, UNCHANGED <<demarrages, budget>>,
             phase = "noyau", fil' = fil \/ fil' = [fil EXCEPT !["installe"] = Repos]
      PROVE  EssaisInv'
  <2>1. MetaCalme
    BY <1>0, <1>3, StepCalme
  <2>2. CASE fil' = fil
    BY <1>0, <1>3, <2>1, <2>2, AppelEssais DEF EssaisInv
  <2>3. CASE fil' = [fil EXCEPT !["installe"] = Repos]
    <3>1. fil'["installe"].pc = "repos" /\ \A g \in Fils \ {"installe"} : fil'[g] = fil[g]
      BY <1>0, <2>3, RetourFaits
    <3> QED BY <1>0, <1>3, <2>1, <3>1, AppelEssais
  <2> QED BY <1>3, <2>2, <2>3
<1>4. ASSUME NEW pid \in Pids, NEW k \in Morceaux, NEW image \in Images, Ecrit(pid, k, image)
      PROVE  EssaisInv'
  BY <1>3, <1>4 DEF Ecrit, EnSession, NoyauPret, EcritMorceau, DisqueInchange, disque, histoire
<1>5. ASSUME NEW pid \in Pids, Verifie(pid) PROVE EssaisInv'
  BY <1>3, <1>5 DEF Verifie, EnSession, NoyauPret, DisqueInchange, disque, histoire
<1>6. CASE DebutSession \/ FinSession \/ InstalleEchoue
  BY <1>3, <1>6 DEF DebutSession, FinSession, InstalleEchoue, DisqueInchange, disque, histoire
<1> QED BY <1>1, <1>2, <1>4, <1>5, <1>6 DEF Installe

(* reset and power loss *)
LEMMA EnvironnementEssais ==
    ASSUME IInv, DurInv, EssaisInv, Redemarre \/ Coupure
    PROVE  EssaisInv'
<1>1. /\ \A f \in Fils : fil'[f].pc = "repos"
      /\ UNCHANGED <<demarrages, budget>>
  BY DemandeFaits DEF Redemarre, Coupure, RamPerdue
<1>2. EssaiChargeur'
  BY <1>1, QuatreFils DEF EssaiChargeur, Comptant
<1>3. Accordes' = Accordes
  BY <1>1 DEF Accordes
<1>4. (expose' <=> expose) /\ EnregistrementsPossibles' \subseteq EnregistrementsPossibles
  BY MetaCoupe, MetaInchange DEF Redemarre, DisqueInchange, disque, IInv, DurInv
<1> QED BY <1>1, <1>2, <1>3, <1>4 DEF EssaisInv

(* the delivered machine has no candidate *)
LEMMA InitEssais == Init => EssaisInv
<1> SUFFICES ASSUME Init PROVE EssaisInv
  OBVIOUS
<1> DEFINE e0 == Initial("A", ImageInitiale)
<1>1. demarrages = 0 /\ budget = 0 /\ \A f \in Fils : fil[f].pc = "repos"
  BY DemandeFaits DEF Init
<1>2. EnregistrementsPossibles \subseteq {e0}
  <2>1. copie[0] = e0 /\ copie[1] = e0 /\ copieApres[0] = {e0} /\ copieApres[1] = {e0}
    BY DEF Init
  <2>2. ApresInv /\ Valide(e0) /\ e0 # Illisible
    BY InitDur, InitialValide, CopieAssumption DEF DurInv, MetaInv, Valide
  <2>3. Issues({e0}, Illisible) = {e0}
    BY IssuesUn
  <2> HIDE DEF e0
  <2>4. \A e \in EnregistrementsPossibles : e = Resultat(e0, e0)
    BY <2>1, <2>2, <2>3, PossiblesDe
  <2> QED BY <2>2, <2>4, Selection
<1>3. e0 \in Accordes
  <2>1. e0 \in Enregistrement
    BY InitialValide DEF Valide
  <2>2. \A s \in Slots : e0.slots[s].etat # "Candidat"
    BY DEF Initial, SlotVide, Slots
  <2> HIDE DEF e0
  <2> QED BY <2>1, <2>2 DEF Accordes
<1>4. EssaiChargeur
  BY <1>1, QuatreFils DEF EssaiChargeur, Comptant
<1> HIDE DEF e0
<1> QED BY <1>1, <1>2, <1>3, <1>4 DEF EssaisInv

(* every attempt is counted *)
LEMMA NextEssais == IInv /\ DurInv /\ PretInv /\ EssaisInv /\ [Next]_vars => EssaisInv'
<1> SUFFICES ASSUME IInv, DurInv, PretInv, EssaisInv, [Next]_vars PROVE EssaisInv'
  OBVIOUS
<1>1. CASE Next
  BY <1>1, ChargeurEssais, SanteEssais, InstalleEssais, ConsoleEssais, EntreeSortieEssais, EnvironnementEssais DEF Next
<1>2. CASE UNCHANGED vars
  <2>1. UNCHANGED <<copie, copieApres, expose, fil, demarrages, budget>>
    BY <1>2 DEF vars, disque, histoire
  <2>2. Lu' = Lu /\ EnregistrementsPossibles' = EnregistrementsPossibles
    BY <2>1, MetaInchange
  <2> QED BY <2>1, <2>2 DEF EssaisInv, EssaiChargeur, Accordes, Restants
<1> QED BY <1>1, <1>2

(* I3 of ab.rs: a candidate is booted at most `essais` times without a     *)
(* health commit, whatever requests fail and wherever power is lost,       *)
(* because its attempt is durable before the jump.                         *)
THEOREM EssaisToujoursBornes == Spec => []EssaisBornes
<1>1. /\ IInv /\ DurInv /\ PretInv /\ EssaisInv /\ [Next]_vars
            => IInv' /\ DurInv' /\ PretInv' /\ EssaisInv'
  BY NextInv, NextDur, NextPret, NextEssais
<1>2. Init => IInv /\ DurInv /\ PretInv /\ EssaisInv
  BY InitInv, InitDur, InitPret, InitEssais
<1>3. EssaisInv => EssaisBornes
  BY DEF EssaisInv, EssaisBornes
<1> QED BY <1>1, <1>2, <1>3, PTL DEF Spec

-----------------------------------------------------------------------------
(* The contents of the slots *)

(* the image a slot durably holds, chunk by chunk *)
Conformes == [s \in Slots |-> {img \in ImagesLues : \A k \in Morceaux : contenuApres[s][k] = {img}}]

(* slots with a chunk that was written and not flushed *)
Sales == {s \in Slots : \E k \in Morceaux : contenuApres[s][k] # {contenu[s][k]}}

(* records about to be written, or that the loader is going to boot from *)
EnJeu(f) == fil[f].pc \in {"persiste", "ecrit"} \/ (f = "chargeur" /\ fil[f].pc # "repos")

Joues == {fil[f].n : f \in {g \in Fils : EnJeu(g)}}

(* Good slots were healthy, candidates hold their image, the active slot   *)
(* is not being written                                                    *)
Sains == {c \in Enregistrement :
    /\ c.actif \notin Sales
    /\ \A s \in Slots : /\ c.slots[s].etat = "Bon" => c.slots[s].image \in saines
                        /\ c.slots[s].etat = "Candidat" => c.slots[s].image \in Conformes[s]}

(* nothing is being written in a slot they name *)
Nets == {c \in Enregistrement : \A s \in Sales : c.slots[s].etat \notin Garde}

(* every slot they name holds its image *)
Fideles == {c \in Enregistrement :
    \A s \in Slots : c.slots[s].etat \in Garde => c.slots[s].image \in Conformes[s]}

ContenuInv == \A s \in Slots : \A k \in Morceaux : contenu[s][k] \in contenuApres[s][k]

DisqueSur ==
    /\ ContenuInv
    /\ Sur \subseteq Sains
    /\ Joues \subseteq Sains \cap Nets
    /\ Lisible => \A s \in Sales : Lu.slots[s].etat \notin Garde
    /\ ~expose => EnregistrementsPossibles \cup Joues \subseteq Fideles

(* the system that runs is in a slot nobody writes *)
TourneInv ==
    /\ tourne # Aucun => phase = "noyau"
    /\ phase = "noyau" => /\ tourne.slot \in Slots \ Sales
                          /\ tourne.image = contenu[tourne.slot]
                          /\ passage # Aucun => tourne.slot = passage.slot

(* the loader boots the active slot or a candidate *)
SautInv ==
    LET c == fil["chargeur"]
    IN  c.pc # "repos" => c.slot = c.n.actif \/ c.n.slots[c.slot].etat = "Candidat"

(* what was read back is what the device durably holds *)
RelueInv ==
    /\ (session # Aucun /\ session.relue # <<>>) =>
          /\ session.cible \notin Sales
          /\ \A k \in 1..Len(session.relue) : session.relue[k] = contenu[session.cible][k]
    /\ (fil["installe"].pc # "repos" /\ fil["installe"].inst # Aucun) => fil["installe"].inst.relue = <<>>

SurInv == DisqueSur /\ TourneInv /\ SautInv /\ RelueInv

-----------------------------------------------------------------------------
(* A step that writes no chunk only settles the contents.                  *)

ContenuDoux ==
    /\ ContenuInv'
    /\ \A s \in Slots : Conformes[s] \subseteq Conformes'[s]
    /\ Sales' \subseteq Sales

(* nothing written *)
LEMMA DouxInchange ==
    ASSUME ContenuInv, UNCHANGED <<contenu, contenuApres>>
    PROVE  ContenuDoux /\ Conformes' = Conformes /\ Sales' = Sales
<1>1. Conformes' = Conformes /\ Sales' = Sales
  BY DEF Conformes, Sales
<1> QED BY <1>1 DEF ContenuDoux, ContenuInv

(* a flush *)
LEMMA DouxVide ==
    ASSUME ContenuInv, Vidange
    PROVE  ContenuDoux /\ Sales' = {} /\ contenu' = contenu
<1>1. contenu' = contenu /\ \A s \in Slots : \A k \in Morceaux : contenuApres'[s][k] = {contenu[s][k]}
  BY DEF Vidange
<1>2. Sales' = {} /\ ContenuInv'
  BY <1>1 DEF Sales, ContenuInv
<1>3. ASSUME NEW s \in Slots, NEW img \in Conformes[s] PROVE img \in Conformes'[s]
  <2>1. img \in ImagesLues /\ \A k \in Morceaux : contenuApres[s][k] = {img}
    BY <1>3 DEF Conformes
  <2>2. \A k \in Morceaux : contenuApres'[s][k] = {img}
    BY <1>1, <2>1 DEF ContenuInv
  <2> QED BY <2>1, <2>2 DEF Conformes
<1> QED BY <1>1, <1>2, <1>3 DEF ContenuDoux

(* a power loss: what was flushed stays *)
LEMMA DouxCoupe ==
    ASSUME DisqueInv, ContenuInv, Coupure
    PROVE  /\ ContenuDoux /\ Sales' = {}
           /\ \A s \in Slots : contenu'[s] # contenu[s] => s \in Sales
<1>1. /\ \A s \in Slots : \A k \in Morceaux : contenu'[s][k] \in Issues(contenuApres[s][k], AucuneImage)
      /\ \A s \in Slots : \A k \in Morceaux : contenuApres'[s][k] = {contenu'[s][k]}
      /\ contenu' \in [Slots -> [Morceaux -> ImagesLues]]
  BY DEF Coupure
<1>2. Sales' = {} /\ ContenuInv'
  BY <1>1 DEF Sales, ContenuInv
<1>3. ASSUME NEW s \in Slots, NEW k \in Morceaux, NEW img, contenuApres[s][k] = {img}
      PROVE  contenu'[s][k] = img
  <2>1. Issues(contenuApres[s][k], AucuneImage) = {img}
    BY <1>3, IssuesUn
  <2> QED BY <1>1, <2>1
<1>4. ASSUME NEW s \in Slots, NEW img \in Conformes[s] PROVE img \in Conformes'[s]
  <2>1. img \in ImagesLues /\ \A k \in Morceaux : contenuApres[s][k] = {img}
    BY <1>4 DEF Conformes
  <2>2. ASSUME NEW k \in Morceaux PROVE contenuApres'[s][k] = {img}
    <3>1. contenu'[s][k] = img
      BY <1>3, <2>1
    <3> QED BY <1>1, <3>1
  <2> QED BY <2>1, <2>2 DEF Conformes
<1>5. ASSUME NEW s \in Slots, s \notin Sales PROVE contenu'[s] = contenu[s]
  <2>1. \A k \in Morceaux : contenuApres[s][k] = {contenu[s][k]}
    BY <1>5 DEF Sales
  <2>2. \A k \in Morceaux : contenu'[s][k] = contenu[s][k]
    BY <1>3, <2>1
  <2>3. contenu[s] \in [Morceaux -> ImagesLues] /\ contenu'[s] \in [Morceaux -> ImagesLues]
    BY <1>1 DEF DisqueInv
  <2> QED BY <2>2, <2>3
<1> QED BY <1>2, <1>4, <1>5 DEF ContenuDoux

(* what is said of a record stays true when contents settle *)
LEMMA DouxGarde ==
    ASSUME ContenuDoux, saines \subseteq saines'
    PROVE  Sains \subseteq Sains' /\ Nets \subseteq Nets' /\ Fideles \subseteq Fideles'
<1>1. Nets \subseteq Nets'
  BY DEF ContenuDoux, Nets
<1>2. Fideles \subseteq Fideles'
  BY DEF ContenuDoux, Fideles
<1>3. Sains \subseteq Sains'
  BY DEF ContenuDoux, Sains
<1> QED BY <1>1, <1>2, <1>3

(* A step that writes no chunk, and whose new records J are right.         *)
LEMMA DisqueGarde ==
    ASSUME DisqueSur, ContenuDoux, saines \subseteq saines',
           NEW J, J \subseteq Sains' \cap Nets', ~expose' => J \subseteq Fideles',
           Sur' \subseteq Sur \cup Joues, Joues' \subseteq Joues \cup J,
           Sales' = {} \/ (Lisible' => (Lisible /\ Lu' = Lu) \/ Lu' \in Joues),
           ~expose' => (~expose /\ EnregistrementsPossibles' \subseteq EnregistrementsPossibles \cup Joues)
    PROVE  DisqueSur'
<1>1. Sains \subseteq Sains' /\ Nets \subseteq Nets' /\ Fideles \subseteq Fideles'
  BY DouxGarde
<1>2. Sur' \subseteq Sains' /\ Joues' \subseteq Sains' \cap Nets'
  BY <1>1 DEF DisqueSur
<1>3. ~expose' => (EnregistrementsPossibles \cup Joues)' \subseteq Fideles'
  BY <1>1 DEF DisqueSur
<1>4. Lisible' => \A s \in Sales' : Lu'.slots[s].etat \notin Garde
  <2>1. Sales' \subseteq Sales
    BY DEF ContenuDoux
  <2>2. \A c \in Joues : \A s \in Sales' : c.slots[s].etat \notin Garde
    BY <2>1 DEF DisqueSur, Nets
  <2> QED BY <2>1, <2>2 DEF DisqueSur
<1> QED BY <1>2, <1>3, <1>4 DEF DisqueSur, ContenuDoux

(* a record copied from the current one, except for slots it stops naming *)
LEMMA Derive ==
    ASSUME NEW e \in Sains, NEW n \in Enregistrement, n.actif = e.actif,
           \A s \in Slots : n.slots[s].etat \in Garde =>
                n.slots[s].etat = e.slots[s].etat /\ n.slots[s].image = e.slots[s].image
    PROVE  /\ n \in Sains
           /\ (\A s \in Sales : e.slots[s].etat \notin Garde) => n \in Nets
           /\ e \in Fideles => n \in Fideles
<1>1. n \in Sains
  BY DEF Sains, Garde
<1>2. (\A s \in Sales : e.slots[s].etat \notin Garde) => n \in Nets
  BY DEF Nets, Sales
<1>3. e \in Fideles => n \in Fideles
  BY DEF Fideles
<1> QED BY <1>1, <1>2, <1>3

(* the current record *)
LEMMA LuSain ==
    ASSUME IInv, DurInv, DisqueSur, Lisible
    PROVE  /\ Lu \in Sains /\ Valide(Lu) /\ Lu \in Enregistrement
           /\ \A s \in Sales : Lu.slots[s].etat \notin Garde
           /\ ~expose => Lu \in Fideles
<1>1. Lu \in Sur /\ Lu \in EnregistrementsPossibles /\ Valide(Lu)
  BY PossiblesSur, LuValide DEF IInv, DurInv, MetaInv
<1> QED BY <1>1 DEF DisqueSur, Valide

-----------------------------------------------------------------------------
(* The steps *)

(* what does not depend on the records: the system that runs, the loader's *)
(* choice and the read-back, when nothing of them changes                  *)
LEMMA ResteGarde ==
    ASSUME SurInv, ContenuDoux, contenu' = contenu, UNCHANGED <<phase, passage, tourne>>,
           session' = session,
           \/ fil'["chargeur"].pc = "repos"
           \/ /\ fil["chargeur"].pc # "repos" /\ fil'["chargeur"].n = fil["chargeur"].n
              /\ fil'["chargeur"].slot \in {fil["chargeur"].slot, fil["chargeur"].n.actif},
           \/ fil'["installe"].pc = "repos"
           \/ fil["installe"].pc # "repos" /\ fil'["installe"].inst = fil["installe"].inst
    PROVE  TourneInv' /\ SautInv' /\ RelueInv'
<1>1. Sales' \subseteq Sales
  BY DEF ContenuDoux
<1>2. TourneInv'
  BY <1>1 DEF SurInv, TourneInv
<1>3. SautInv'
  BY DEF SurInv, SautInv
<1>4. RelueInv'
  BY <1>1 DEF SurInv, RelueInv
<1> QED BY <1>2, <1>3, <1>4

(* one request *)
LEMMA EntreeSortieSur ==
    ASSUME IInv, DurInv, SurInv, NEW f \in Fils, EntreeSortie(f)
    PROVE  SurInv'
<1>0. "chargeur" \in Fils /\ "installe" \in Fils
  BY QuatreFils
<1>1. /\ fil[f].pc # "repos" /\ fil'[f].n = fil[f].n /\ fil'[f].inst = fil[f].inst
      /\ fil'[f].slot = fil[f].slot
      /\ \A g \in Fils \ {f} : fil'[g] = fil[g]
      /\ UNCHANGED <<phase, passage, session, tourne, saines>>
      /\ fil[f].pc # "ecrit" => MetaCalme
      /\ fil'[f].pc \in {"persiste", "ecrit"} => fil[f].pc = "persiste"
  BY RequeteFaits
<1>2. UNCHANGED <<contenu, contenuApres>> \/ Vidange
  BY DEF EntreeSortie, LitCopies, EcritCopie, VideCopie, RelitCopie, EcritCompteur, VideCompteur,
         EcritBlocMeta, EcritBlocCompteur, DisqueInchange, disque
<1>3. ContenuDoux /\ contenu' = contenu
  BY <1>2, DouxInchange, DouxVide DEF SurInv, DisqueSur
<1>4. Joues' \subseteq Joues
  <2>1. \A g \in Fils : EnJeu(g)' => EnJeu(g) /\ fil'[g].n = fil[g].n
    BY <1>1 DEF EnJeu
  <2> QED BY <2>1 DEF Joues
<1>5. /\ Sur' \subseteq Sur \cup Joues
      /\ Lisible' => (Lisible /\ Lu' = Lu) \/ Lu' \in Joues
      /\ ~expose' => (~expose /\ EnregistrementsPossibles' \subseteq EnregistrementsPossibles \cup Joues)
  <2>1. CASE MetaCalme
    BY <2>1 DEF MetaCalme
  <2>2. CASE ~MetaCalme
    <3>1. fil[f].pc = "ecrit"
      BY <1>1, <2>2
    <3>2. fil[f].n \in Joues
      BY <3>1 DEF Joues, EnJeu
    <3> QED BY <2>2, <3>1, <3>2, EcritureFaits
  <2> QED BY <2>1, <2>2
<1>6. DisqueSur'
  <2> DEFINE J == {}
  <2>1. J \subseteq Sains' \cap Nets' /\ (~expose' => J \subseteq Fideles')
    OBVIOUS
  <2>2. Joues' \subseteq Joues \cup J /\ saines \subseteq saines'
    BY <1>1, <1>4
  <2> HIDE DEF J
  <2> QED BY <1>3, <1>5, <2>1, <2>2, DisqueGarde DEF SurInv
<1>7. TourneInv' /\ SautInv' /\ RelueInv'
  BY <1>0, <1>1, <1>3, ResteGarde
<1> QED BY <1>6, <1>7 DEF SurInv

(* A step that touches neither META nor the slots, and in which one call   *)
(* takes up a right record or none.                                        *)
LEMMA AppelSur ==
    ASSUME IInv, DurInv, SurInv, NEW f \in Fils,
           UNCHANGED <<contenu, contenuApres>>, MetaCalme, saines \subseteq saines',
           \A g \in Fils \ {f} : fil'[g] = fil[g],
           \/ ~EnJeu(f)'
           \/ fil'[f].n \in Sains' \cap Nets' /\ (~expose => fil'[f].n \in Fideles')
    PROVE  DisqueSur'
<1>1. ContenuDoux
  BY DouxInchange DEF SurInv, DisqueSur
<1> DEFINE J == IF EnJeu(f)' THEN {fil'[f].n} ELSE {}
<1>2. Joues' \subseteq Joues \cup J
  <2>1. \A g \in Fils \ {f} : EnJeu(g)' => EnJeu(g)
    BY DEF EnJeu
  <2> QED BY <2>1 DEF Joues
<1>3. J \subseteq Sains' \cap Nets' /\ (~expose' => J \subseteq Fideles')
  BY DEF MetaCalme
<1> HIDE DEF J
<1> QED BY <1>1, <1>2, <1>3, DisqueGarde DEF SurInv, MetaCalme

(* the loader *)
LEMMA ChargeurSur ==
    ASSUME IInv, DurInv, SurInv, Chargeur
    PROVE  SurInv'
<1> DEFINE c == fil["chargeur"]
<1>0. /\ "chargeur" \in Fils /\ "installe" \in Fils /\ FilInv /\ c \in Appel
      /\ (c.pc # "repos" => Valide(c.n) /\ c.n \in Joues) /\ DisqueInv /\ MetaInv
  BY QuatreFils DEF IInv, FilInv, AppelBon, DurInv, Joues, EnJeu
<1>1. phase = "chargeur" /\ UNCHANGED <<copie, copieApres, contenu, contenuApres, expose, saines, session>>
  BY DEF Chargeur, DecideRecovery, Choisit, Raisonne, Compte, Saute, DisqueInchange, disque, histoire
<1>2. MetaCalme
  BY <1>0, <1>1, StepCalme
<1>3. ContenuDoux /\ Sains' = Sains /\ Nets' = Nets /\ Fideles' = Fideles /\ Sales' = Sales
  <2>1. ContenuDoux /\ Conformes' = Conformes /\ Sales' = Sales
    BY <1>1, DouxInchange DEF SurInv, DisqueSur
  <2> QED BY <1>1, <2>1 DEF Sains, Nets, Fideles
<1>4. session' = Aucun /\ fil["installe"].pc = "repos" /\ tourne = Aucun
  BY <1>1 DEF DurInv, PhaseInv, SurInv, TourneInv
<1>5. ASSUME fil' = [fil EXCEPT !["chargeur"] = Repos],
             \/ phase' # "noyau" /\ tourne' = tourne
             \/ /\ c.pc # "repos" /\ phase' = "noyau"
                /\ tourne' = [slot |-> c.slot, image |-> contenu[c.slot]]
                /\ (passage' # Aucun => passage'.slot = c.slot)
      PROVE  SurInv'
  <2>1. fil'["chargeur"].pc = "repos" /\ \A g \in Fils \ {"chargeur"} : fil'[g] = fil[g]
    BY <1>0, <1>5, RetourFaits
  <2>2. ~EnJeu("chargeur")'
    BY <2>1 DEF EnJeu
  <2>3. DisqueSur'
    BY <1>0, <1>1, <1>2, <2>1, <2>2, AppelSur
  <2>4. SautInv' /\ RelueInv'
    BY <1>0, <1>4, <2>1 DEF SautInv, RelueInv
  <2>5. TourneInv'
    <3>1. CASE phase' # "noyau" /\ tourne' = tourne
      BY <1>4, <3>1 DEF TourneInv
    <3>2. CASE /\ c.pc # "repos" /\ phase' = "noyau"
               /\ tourne' = [slot |-> c.slot, image |-> contenu[c.slot]]
               /\ (passage' # Aucun => passage'.slot = c.slot)
      <4>1. c.n \in Sains /\ c.n \in Nets /\ c.slot \in Slots
        BY <1>0, <3>2 DEF SurInv, DisqueSur, Appel
      <4>2. c.slot \notin Sales
        BY <3>2, <4>1 DEF SurInv, SautInv, Sains, Nets, Garde
      <4>3. tourne'.slot = c.slot /\ tourne'.image = contenu[c.slot]
        BY <3>2
      <4> QED BY <1>1, <1>3, <3>2, <4>1, <4>2, <4>3 DEF TourneInv
    <3> QED BY <1>5, <3>1, <3>2
  <2> QED BY <2>3, <2>4, <2>5 DEF SurInv
<1>6. ASSUME NEW a, fil' = [fil EXCEPT !["chargeur"] = a], UNCHANGED <<phase, passage, tourne>>,
             a.n \in Sains \cap Nets, ~expose => a.n \in Fideles,
             a.slot = a.n.actif \/ a.n.slots[a.slot].etat = "Candidat"
      PROVE  SurInv'
  <2>1. fil'["chargeur"] = a /\ \A g \in Fils \ {"chargeur"} : fil'[g] = fil[g]
    BY <1>0, <1>6, MajFaits
  <2>2. DisqueSur'
    BY <1>0, <1>1, <1>2, <1>3, <1>6, <2>1, AppelSur
  <2>3. SautInv' /\ RelueInv'
    BY <1>0, <1>4, <1>6, <2>1 DEF SautInv, RelueInv
  <2>4. TourneInv'
    BY <1>1, <1>4, <1>6 DEF TourneInv
  <2> QED BY <2>2, <2>3, <2>4 DEF SurInv
<1>7. c.pc # "repos" => /\ c.n \in Sains \cap Nets /\ (~expose => c.n \in Fideles)
                        /\ c.slot = c.n.actif \/ c.n.slots[c.slot].etat = "Candidat"
  BY <1>0 DEF SurInv, DisqueSur, SautInv
<1>8. CASE DecideRecovery
  <2>1. fil' = [fil EXCEPT !["chargeur"] = Repos] /\ phase' # "noyau" /\ tourne' = tourne
    BY <1>8 DEF DecideRecovery, EntreRecovery, histoire
  <2> QED BY <1>5, <2>1
<1>9. CASE Choisit
  <2> DEFINE ch == ChoisitBoot(Lu)
             pc == IF ch.apres = Lu THEN "decide" ELSE "persiste"
             a  == [fil["chargeur"] EXCEPT !.pc = pc, !.n = ch.apres, !.slot = ch.slot,
                                           !.raison = "Actif", !.seq = Lu.sequence]
             autre == Autre(Lu.actif)
  <2>1. fil' = [fil EXCEPT !["chargeur"] = a] /\ Lisible /\ UNCHANGED <<phase, passage, tourne>>
    BY <1>9, Zenon DEF Choisit, histoire
  <2> HIDE DEF pc
  <2>2. /\ Lu \in Sains /\ Valide(Lu) /\ (\A s \in Sales : Lu.slots[s].etat \notin Garde)
        /\ ~expose => Lu \in Fideles
    BY <2>1, LuSain DEF SurInv
  <2>3. Valide(ch.apres) /\ ch.apres \in Enregistrement /\ ch.apres.actif = Lu.actif
    BY <2>2, ChoisitValide, ChoisitSlots DEF Valide
  <2>4. /\ autre \in Slots /\ autre # Lu.actif /\ \A s \in Slots : s = Lu.actif \/ s = autre
        /\ Lu.slots \in [Slots -> InfoSlot] /\ Lu.actif \in Slots
    BY <2>2, DeuxSlots
  <2>5. /\ \A s \in Slots : ch.apres.slots[s].etat \in Garde =>
                ch.apres.slots[s].etat = Lu.slots[s].etat /\ ch.apres.slots[s].image = Lu.slots[s].image
        /\ ch.slot = ch.apres.actif \/ ch.apres.slots[ch.slot].etat = "Candidat"
    <3>1. CASE ch.apres = Lu /\ ch.slot = Lu.actif
      BY <3>1
    <3>2. CASE /\ ch.slot = autre
               /\ Lu.slots[autre].etat = "Candidat" /\ Lu.slots[autre].essais > 0
               /\ ch.apres.slots = [Lu.slots EXCEPT ![autre] =
                     [etat |-> "Candidat", essais |-> Lu.slots[autre].essais - 1, image |-> Lu.slots[autre].image]]
      <4>1. /\ ch.apres.slots[autre].etat = "Candidat" /\ ch.apres.slots[autre].image = Lu.slots[autre].image
            /\ ch.apres.slots[Lu.actif] = Lu.slots[Lu.actif]
        BY <2>4, <3>2
      <4> HIDE DEF autre, ch
      <4> QED BY <2>4, <3>2, <4>1
    <3>3. CASE /\ ch.slot = Lu.actif
               /\ ch.apres.slots = [Lu.slots EXCEPT ![autre] =
                     [etat |-> "Mauvais", essais |-> 0, image |-> Lu.slots[autre].image]]
      <4>1. /\ ch.apres.slots[autre].etat = "Mauvais"
            /\ ch.apres.slots[Lu.actif] = Lu.slots[Lu.actif]
        BY <2>4, <3>3
      <4> HIDE DEF autre, ch
      <4> QED BY <2>3, <2>4, <3>3, <4>1 DEF Garde
    <3> QED BY <2>2, <3>1, <3>2, <3>3, ChoisitSlots
  <2> HIDE DEF ch
  <2>6. /\ ch.apres \in Sains \cap Nets
        /\ ~expose => ch.apres \in Fideles
    BY <2>2, <2>3, <2>5, Derive
  <2>7. a.n = ch.apres /\ a.slot = ch.slot
    BY <1>0 DEF Appel
  <2> HIDE DEF a
  <2> QED BY <1>6, <2>1, <2>5, <2>6, <2>7
<1>10. CASE Raisonne
  <2> DEFINE candidat == c.n.actif # c.slot
             r1 == IF candidat THEN "CandidatEssaiConsomme" ELSE "RollbackCandidatEpuise"
             r2 == IF candidat THEN "PersistanceImpossibleReplieActif" ELSE "RollbackNonPersiste"
             a1 == [c EXCEPT !.pc = "decide", !.seq = c.n.sequence, !.raison = r1]
             a2 == [c EXCEPT !.pc = "decide", !.slot = c.n.actif, !.raison = r2]
  <2>1. /\ fil' = [fil EXCEPT !["chargeur"] = IF c.pc = "persiste_ok" THEN a1 ELSE a2]
        /\ UNCHANGED <<phase, passage, tourne>> /\ c.pc # "repos"
    BY <1>10, Zenon DEF Raisonne
  <2>2. a1.n = c.n /\ a2.n = c.n /\ a1.slot = c.slot /\ a2.slot = c.n.actif
    BY <1>0 DEF Appel
  <2> HIDE DEF a1, a2
  <2>3. CASE c.pc = "persiste_ok"
    BY <1>6, <1>7, <2>1, <2>2, <2>3
  <2>4. CASE c.pc # "persiste_ok"
    BY <1>6, <1>7, <2>1, <2>2, <2>4
  <2> QED BY <2>3, <2>4
<1>11. CASE Compte
  <2>0. tourne' = tourne /\ c.pc = "decide"
    BY <1>11 DEF Compte
  <2>1. PICK lu \in {compteur, 0} :
          IF VersRecovery(lu, c.raison)
          THEN EntreRecovery("RecoveryEchecsRepetes", c.n.actif, c.seq)
          ELSE /\ fil' = [fil EXCEPT !["chargeur"] =
                    [@ EXCEPT !.pc = IF CompteurAvantBoot(lu, c.raison) = lu
                                     THEN "compte_ok" ELSE "compte",
                              !.val = CompteurAvantBoot(lu, c.raison)]]
               /\ UNCHANGED <<phase, passage>>
    BY <1>11 DEF Compte
  <2>2. CASE VersRecovery(lu, c.raison)
    <3>1. fil' = [fil EXCEPT !["chargeur"] = Repos] /\ phase' # "noyau"
      BY <2>1, <2>2 DEF EntreRecovery
    <3> QED BY <1>5, <2>0, <3>1
  <2>3. CASE ~VersRecovery(lu, c.raison)
    <3> DEFINE v == CompteurAvantBoot(lu, c.raison)
               pc == IF v = lu THEN "compte_ok" ELSE "compte"
               a == [fil["chargeur"] EXCEPT !.pc = pc, !.val = v]
    <3>1. fil' = [fil EXCEPT !["chargeur"] = a] /\ UNCHANGED <<phase, passage>>
      BY <2>1, <2>3, Zenon
    <3> HIDE DEF v, pc
    <3>2. a.n = c.n /\ a.slot = c.slot
      BY <1>0 DEF Appel
    <3> HIDE DEF a
    <3> QED BY <1>6, <1>7, <2>0, <3>1, <3>2
  <2> QED BY <2>2, <2>3
<1>12. CASE Saute
  <2>1. c.pc # "repos" /\ fil' = [fil EXCEPT !["chargeur"] = Repos]
    BY <1>12 DEF Saute, EntreRecovery
  <2>2. CASE c.slot \in Presentes
    <3>1. /\ phase' = "noyau" /\ tourne' = [slot |-> c.slot, image |-> contenu[c.slot]]
          /\ \/ passage' = [slot |-> c.slot, raison |-> c.raison, sequence_meta |-> c.seq]
             \/ passage' = Aucun
      BY <1>12, <2>2 DEF Saute
    <3>2. passage' # Aucun => passage'.slot = c.slot
      BY <3>1
    <3> QED BY <1>5, <2>1, <3>1, <3>2
  <2>3. CASE c.slot \notin Presentes
    <3>1. phase' # "noyau" /\ tourne' = tourne
      BY <1>12, <2>3 DEF Saute, EntreRecovery
    <3> QED BY <1>5, <2>1, <3>1
  <2> QED BY <2>2, <2>3
<1> QED BY <1>8, <1>9, <1>10, <1>11, <1>12 DEF Chargeur

(* a health commit: what it promotes ran, and the slot holds what ran *)
LEMMA SanteSur ==
    ASSUME IInv, DurInv, SurInv, Sante
    PROVE  SurInv'
<1>0. "sante" \in Fils /\ "chargeur" \in Fils \ {"sante"} /\ "installe" \in Fils \ {"sante"}
      /\ FilInv /\ DisqueInv /\ MetaInv
  BY QuatreFils DEF IInv, DurInv
<1>1. /\ UNCHANGED <<copie, copieApres, expose, contenu, contenuApres, phase, passage, session, tourne>>
      /\ saines \subseteq saines' /\ \A g \in Fils \ {"sante"} : fil'[g] = fil[g]
  BY <1>0 DEF Sante, DeclareSain, SantePersiste, SanteRend, Vers, DisqueInchange, disque, histoire, FilInv
<1>2. MetaCalme
  BY <1>0, <1>1, StepCalme
<1>3. ContenuDoux /\ Conformes' = Conformes /\ Sales' = Sales
  BY <1>1, DouxInchange DEF SurInv, DisqueSur
<1>4. TourneInv' /\ SautInv' /\ RelueInv'
  BY <1>0, <1>1, <1>3, ResteGarde
<1>5. CASE fil'["sante"].pc \notin {"persiste", "ecrit"}
  <2>1. ~EnJeu("sante")'
    BY <1>5 DEF EnJeu
  <2> QED BY <1>0, <1>1, <1>2, <1>4, <2>1, AppelSur DEF SurInv
<1>6. CASE DeclareSain /\ PeutPromouvoir(passage, Lu)
           /\ fil' = [fil EXCEPT !["sante"] = Demande("persiste", SanteOk(Lu, passage.slot), Aucun)]
  <2> DEFINE n == SanteOk(Lu, passage.slot)
             s == passage.slot
             img == Lu.slots[s].image
  <2>1. fil'["sante"].n = n
    <3>1. fil'["sante"] = Demande("persiste", n, Aucun)
      BY <1>0, <1>6, MajFaits
    <3> QED BY <3>1, DemandeFaits
  <2>2. /\ Lisible /\ s \in Slots /\ Lu.slots[s].etat = "Candidat" /\ phase = "noyau" /\ passage # Aucun
        /\ saines' = saines \cup {tourne.image[k] : k \in Morceaux}
    BY <1>6 DEF DeclareSain, NoyauPret, PeutPromouvoir, IInv, ResteInv, Passage
  <2>3. /\ Lu \in Sains /\ Valide(Lu) /\ (\A t \in Sales : Lu.slots[t].etat \notin Garde)
        /\ ~expose => Lu \in Fideles
    BY <2>2, LuSain DEF SurInv
  <2>4. /\ n.actif = s /\ n \in Enregistrement
        /\ n.slots = [Lu.slots EXCEPT ![s] = [etat |-> "Bon", essais |-> 0, image |-> img]]
        /\ Lu.slots \in [Slots -> InfoSlot]
    <3>1. Valide(n)
      BY <2>2, <2>3, SanteValide
    <3> QED BY <2>2, <2>3, <3>1, DeuxSlots DEF Valide, SanteOk, AvecEtat, AvecSlot
  <2>5. s \notin Sales /\ img \in Conformes[s]
    BY <2>2, <2>3 DEF Sains, Garde
  <2>6. img \in saines'
    <3>1. tourne.image = contenu[s]
      BY <2>2 DEF SurInv, TourneInv
    <3>2. 1 \in Morceaux
      BY UpdateAssumption DEF Morceaux
    <3>3. contenu[s][1] \in contenuApres[s][1] /\ contenuApres[s][1] = {img}
      BY <2>2, <2>5, <3>2 DEF SurInv, DisqueSur, ContenuInv, Conformes
    <3> QED BY <2>2, <3>1, <3>2, <3>3
  <2> HIDE DEF n, s, img
  <2>7. /\ n.slots[s].etat = "Bon" /\ n.slots[s].image = img
        /\ \A t \in Slots \ {s} : n.slots[t] = Lu.slots[t]
    BY <2>2, <2>4
  <2>8. n \in Sains'
    BY <1>1, <1>3, <2>2, <2>3, <2>4, <2>5, <2>6, <2>7 DEF Sains
  <2>9. n \in Nets'
    <3>1. \A t \in Sales : t \in Slots /\ t # s /\ n.slots[t].etat \notin Garde
      BY <2>3, <2>5, <2>7 DEF Sales
    <3> QED BY <1>3, <2>4, <3>1 DEF Nets
  <2>10. ~expose => n \in Fideles'
    BY <1>3, <2>3, <2>4, <2>5, <2>7 DEF Fideles
  <2>11. DisqueSur'
    BY <1>0, <1>1, <1>2, <2>1, <2>8, <2>9, <2>10, AppelSur
  <2> QED BY <1>4, <2>11 DEF SurInv
<1>7. CASE ~(fil'["sante"].pc \notin {"persiste", "ecrit"})
  <2>1. ~SantePersiste /\ ~SanteRend
    <3>1. SantePersiste => fil'["sante"].pc = "compte"
      BY <1>0, VersFaits DEF SantePersiste
    <3>2. SanteRend => fil'["sante"].pc = "repos"
      BY <1>0, RetourFaits DEF SanteRend
    <3> QED BY <1>7, <3>1, <3>2
  <2>2. DeclareSain
    BY <2>1 DEF Sante
  <2>3. fil' # [fil EXCEPT !["sante"] = Demande("compte", Illisible, Aucun)]
    BY <1>0, <1>7, MajFaits, DemandeFaits
  <2> QED BY <1>6, <2>2, <2>3 DEF DeclareSain
<1> QED BY <1>5, <1>7

(* the console: the slot it makes active is Good *)
LEMMA ConsoleSur ==
    ASSUME IInv, DurInv, SurInv, Console
    PROVE  SurInv'
<1>0. "console" \in Fils /\ "chargeur" \in Fils \ {"console"} /\ "installe" \in Fils \ {"console"}
      /\ FilInv /\ DisqueInv /\ MetaInv
  BY QuatreFils DEF IInv, DurInv
<1>1. /\ UNCHANGED <<copie, copieApres, expose, contenu, contenuApres, phase, passage, session, tourne, saines>>
      /\ \A g \in Fils \ {"console"} : fil'[g] = fil[g]
  BY <1>0 DEF Console, RollbackManuel, RollbackPersiste, RemetCompteur, ConsoleRend, ConsolePrete, Vers,
              DisqueInchange, disque, histoire, FilInv
<1>2. MetaCalme
  BY <1>0, <1>1, StepCalme
<1>3. ContenuDoux /\ Conformes' = Conformes /\ Sales' = Sales
  BY <1>1, DouxInchange DEF SurInv, DisqueSur
<1>4. TourneInv' /\ SautInv' /\ RelueInv'
  BY <1>0, <1>1, <1>3, ResteGarde
<1>5. CASE RollbackManuel
  <2> DEFINE n == Revient(Lu)
  <2>1. fil'["console"] = Demande("persiste", n, Aucun) /\ Lisible /\ PeutRevenir(Lu)
    BY <1>0, <1>5, MajFaits DEF RollbackManuel
  <2>2. fil'["console"].n = n
    BY <2>1, DemandeFaits
  <2>3. /\ Lu \in Sains /\ Valide(Lu) /\ (\A t \in Sales : Lu.slots[t].etat \notin Garde)
        /\ ~expose => Lu \in Fideles
    BY <2>1, LuSain DEF SurInv
  <2>4. Valide(n) /\ n.slots = Lu.slots /\ n.actif = Autre(Lu.actif) /\ Lu.slots[n.actif].etat = "Bon"
    BY <2>1, <2>3, RevientValide DEF Revient, PeutRevenir
  <2> HIDE DEF n
  <2>5. n \in Enregistrement /\ n.actif \notin Sales
    BY <2>3, <2>4 DEF Valide, Garde
  <2>6. n \in Sains' \cap Nets' /\ (~expose => n \in Fideles')
    BY <1>1, <1>3, <2>3, <2>4, <2>5 DEF Sains, Nets, Fideles
  <2>7. DisqueSur'
    BY <1>0, <1>1, <1>2, <2>2, <2>6, AppelSur
  <2> QED BY <1>4, <2>7 DEF SurInv
<1>6. CASE ~RollbackManuel
  <2>1. RollbackPersiste => fil'["console"].pc = "compte"
    BY <1>0, VersFaits DEF RollbackPersiste
  <2>2. RemetCompteur => fil'["console"].pc = "compte"
    <3>1. RemetCompteur => fil'["console"] = Demande("compte", Illisible, Aucun)
      BY <1>0, MajFaits DEF RemetCompteur
    <3> QED BY <3>1, DemandeFaits
  <2>3. ConsoleRend => fil'["console"].pc = "repos"
    BY <1>0, RetourFaits DEF ConsoleRend
  <2>4. ~EnJeu("console")'
    BY <1>6, <2>1, <2>2, <2>3 DEF Console, EnJeu
  <2> QED BY <1>0, <1>1, <1>2, <1>4, <2>4, AppelSur DEF SurInv
<1> QED BY <1>5, <1>6

(* nothing written, META calm, every call where it was *)
LEMMA ImmobileSur ==
    ASSUME SurInv, ContenuDoux, MetaCalme, fil' = fil, saines' = saines
    PROVE  DisqueSur'
<1> DEFINE J == {}
<1>1. J \subseteq Sains' \cap Nets' /\ (~expose' => J \subseteq Fideles')
  OBVIOUS
<1>2. Joues' \subseteq Joues \cup J /\ saines \subseteq saines'
  BY DEF Joues, EnJeu
<1> HIDE DEF J
<1> QED BY <1>1, <1>2, DisqueGarde DEF SurInv, MetaCalme

(* the system that runs and the loader's choice, when neither moves *)
LEMMA TourneGarde ==
    ASSUME SurInv, ContenuDoux, contenu' = contenu, UNCHANGED <<phase, passage, tourne>>,
           fil'["chargeur"] = fil["chargeur"]
    PROVE  TourneInv' /\ SautInv'
<1>1. TourneInv'
  BY DEF ContenuDoux, SurInv, TourneInv
<1>2. SautInv'
  BY DEF SurInv, SautInv
<1> QED BY <1>1, <1>2

(* A chunk written by a session that has not asked to finish: its target   *)
(* is ready, no record is in flight, the running slot is another one.      *)
LEMMA MorceauSur ==
    ASSUME IInv, DurInv, PretInv, SurInv, session # Aucun, ~session.fini, fil["installe"].pc = "repos",
           NEW k \in Morceaux, NEW image \in Images, EcritMorceau(session.cible, k, image),
           UNCHANGED <<phase, passage, tourne, saines, fil>>
    PROVE  DisqueSur' /\ TourneInv' /\ SautInv'
<1> DEFINE t == session.cible
<1>1. /\ t \in Slots /\ phase = "noyau" /\ passage # Aucun /\ Lisible
      /\ fil["chargeur"].pc = "repos" /\ fil["console"].pc = "repos"
      /\ fil["sante"].pc \notin {"persiste", "ecrit"}
  BY PendantInstallation DEF Installation
<1>2. t \in Prets /\ t # passage.slot
  BY DEF PretInv, SessionInv
<1>3. /\ Lu' = Lu /\ (Lisible' <=> Lisible) /\ Sur' = Sur /\ expose' = expose
      /\ EnregistrementsPossibles' = EnregistrementsPossibles
  BY MetaInchange DEF EcritMorceau
<1>4. Joues' = {}
  <2>1. \A g \in Fils : ~EnJeu(g)'
    BY <1>1 DEF EnJeu, Fils
  <2> QED BY <2>1 DEF Joues
<1>5. /\ contenu \in [Slots -> [Morceaux -> ImagesLues]]
      /\ contenuApres \in [Slots -> [Morceaux -> SUBSET ImagesLues]]
  BY DEF IInv, DisqueInv
<1>6. /\ \A s \in Slots \ {t} : contenu'[s] = contenu[s] /\ contenuApres'[s] = contenuApres[s]
      /\ contenu'[t] = [contenu[t] EXCEPT ![k] = image]
      /\ contenuApres'[t] = [contenuApres[t] EXCEPT ![k] = contenuApres[t][k] \cup {image}]
  BY <1>1, <1>5 DEF EcritMorceau
<1> HIDE DEF t
<1>7. ContenuInv'
  <2>1. ASSUME NEW j \in Morceaux PROVE contenu'[t][j] \in contenuApres'[t][j]
    <3>1. contenu[t][j] \in contenuApres[t][j]
      BY <1>1 DEF SurInv, DisqueSur, ContenuInv
    <3> QED BY <1>1, <1>5, <1>6, <3>1
  <2>2. ASSUME NEW s \in Slots \ {t}, NEW j \in Morceaux PROVE contenu'[s][j] \in contenuApres'[s][j]
    BY <1>6 DEF SurInv, DisqueSur, ContenuInv
  <2> QED BY <2>1, <2>2 DEF ContenuInv
<1>8. Sales' \subseteq Sales \cup {t} /\ \A s \in Slots \ {t} : Conformes'[s] = Conformes[s]
  BY <1>6 DEF Sales, Conformes
<1>9. Sur' \subseteq Sains'
  <2> SUFFICES ASSUME NEW c \in Sur PROVE c \in Sains'
    BY <1>3
  <2>1. c \in Sains /\ c.actif # t /\ c.slots[t].etat # "Candidat"
    BY <1>2 DEF Prets, SurInv, DisqueSur
  <2> QED BY <1>8, <2>1 DEF Sains
<1>10. \A s \in Sales' : Lu.slots[s].etat \notin Garde
  BY <1>1, <1>2, <1>8 DEF Prets, SurInv, DisqueSur
<1>11. ~expose' => EnregistrementsPossibles' \subseteq Fideles'
  <2> SUFFICES ASSUME ~expose, NEW e \in EnregistrementsPossibles PROVE e \in Fideles'
    BY <1>3
  <2>1. e \in Fideles /\ e.slots[t].etat \notin Garde
    BY <1>2 DEF Prets, SurInv, DisqueSur
  <2> QED BY <1>8, <2>1 DEF Fideles
<1>12. DisqueSur'
  BY <1>3, <1>4, <1>7, <1>9, <1>10, <1>11 DEF DisqueSur
<1>13. TourneInv'
  <2>1. /\ tourne.slot \in Slots \ Sales /\ tourne.image = contenu[tourne.slot] /\ tourne.slot = passage.slot
    BY <1>1 DEF SurInv, TourneInv
  <2>2. tourne.slot \in Slots \ Sales' /\ contenu'[tourne.slot] = contenu[tourne.slot]
    BY <1>2, <1>6, <1>8, <2>1
  <2> QED BY <1>1, <2>1, <2>2 DEF TourneInv
<1>14. SautInv'
  BY <1>1 DEF SautInv
<1> QED BY <1>12, <1>13, <1>14

(* An installation call.  The caller does not write once it has asked to   *)
(* finish, as updated.c.                                                   *)
LEMMA InstalleSur ==
    ASSUME ~AppelantLibre, IInv, DurInv, PretInv, SurInv, Installe
    PROVE  SurInv'
<1>0. /\ "installe" \in Fils /\ "chargeur" \in Fils \ {"installe"}
      /\ FilInv /\ DisqueInv /\ MetaInv
  BY QuatreFils DEF IInv, DurInv
<1>1. ASSUME UNCHANGED <<copie, copieApres, expose, contenu, contenuApres>>,
             UNCHANGED <<phase, passage, tourne, saines>>
      PROVE  /\ MetaCalme /\ ContenuDoux /\ Conformes' = Conformes /\ Sales' = Sales
             /\ Sains' = Sains /\ Nets' = Nets /\ Fideles' = Fideles
             /\ fil'["chargeur"] = fil["chargeur"] => TourneInv' /\ SautInv'
  <2>1. MetaCalme
    BY <1>0, <1>1, StepCalme
  <2>2. ContenuDoux /\ Conformes' = Conformes /\ Sales' = Sales
    BY <1>1, DouxInchange DEF SurInv, DisqueSur
  <2>3. fil'["chargeur"] = fil["chargeur"] => TourneInv' /\ SautInv'
    BY <1>1, <2>2, TourneGarde
  <2> QED BY <1>1, <2>1, <2>2, <2>3 DEF Sains, Nets, Fideles
<1>2. ASSUME NEW pid \in Pids, NEW cible \in Slots, NEW image \in Images, NEW essais \in 1..EssaisMax,
             Commence(pid, cible, image, essais)
      PROVE  SurInv'
  <2> DEFINE n == CommenceInstallation(Lu, cible)
             inst == NouvelleSession(pid, cible, image, essais)
  <2>0. /\ UNCHANGED <<copie, copieApres, expose, contenu, contenuApres>>
        /\ UNCHANGED <<phase, passage, tourne, saines, session>>
        /\ Lisible /\ PeutCommencer(Lu, cible, passage.slot)
        /\ fil' = [fil EXCEPT !["installe"] = Demande("persiste", n, inst)]
    BY <1>2 DEF Commence, NoyauPret, DisqueInchange, disque, histoire
  <2>1. /\ MetaCalme /\ Sains' = Sains /\ Nets' = Nets /\ Fideles' = Fideles /\ Sales' = Sales
        /\ fil'["chargeur"] = fil["chargeur"] => TourneInv' /\ SautInv'
    BY <1>1, <2>0
  <2>2. fil'["installe"].n = n /\ fil'["installe"].inst = inst /\ \A g \in Fils \ {"installe"} : fil'[g] = fil[g]
    <3>1. fil'["installe"] = Demande("persiste", n, inst) /\ \A g \in Fils \ {"installe"} : fil'[g] = fil[g]
      BY <1>0, <2>0, MajFaits
    <3> QED BY <3>1, DemandeFaits
  <2>3. /\ Lu \in Sains /\ Valide(Lu) /\ (\A t \in Sales : Lu.slots[t].etat \notin Garde)
        /\ ~expose => Lu \in Fideles
    BY <2>0, LuSain DEF SurInv
  <2>4. Valide(n) /\ n.actif = Lu.actif /\ n.slots = [Lu.slots EXCEPT ![cible] = SlotVide]
    BY <2>0, <2>3, CommenceValide DEF CommenceInstallation, AvecSlot
  <2>5. inst.relue = <<>>
    BY DEF NouvelleSession
  <2> HIDE DEF n, inst
  <2>6. n \in Enregistrement /\ Lu.slots \in [Slots -> InfoSlot]
    BY <2>3, <2>4, DeuxSlots DEF Valide
  <2>7. n.slots[cible].etat = "Vide" /\ \A s \in Slots \ {cible} : n.slots[s] = Lu.slots[s]
    BY <2>4, <2>6 DEF SlotVide
  <2>8. \A s \in Slots : n.slots[s].etat \in Garde =>
            n.slots[s].etat = Lu.slots[s].etat /\ n.slots[s].image = Lu.slots[s].image
    BY <2>7 DEF Garde
  <2>9. n \in Sains' \cap Nets' /\ (~expose => n \in Fideles')
    BY <2>1, <2>3, <2>4, <2>6, <2>8, Derive
  <2>10. DisqueSur'
    BY <1>0, <2>0, <2>1, <2>2, <2>9, AppelSur
  <2>11. RelueInv'
    BY <2>0, <2>1, <2>2, <2>5 DEF SurInv, RelueInv
  <2> QED BY <1>0, <2>1, <2>2, <2>10, <2>11 DEF SurInv
<1>3. ASSUME NEW pid \in Pids, Termine(pid)
      PROVE  SurInv'
  <2> DEFINE t == session.cible
             img == session.attendu
             n == MarqueCandidat(Lu, t, img, session.essais)
  <2>0. /\ UNCHANGED <<copie, copieApres, expose, contenu, contenuApres>>
        /\ UNCHANGED <<phase, passage, tourne, saines>>
        /\ Lisible /\ session # Aucun /\ session \in Installation
        /\ fil' = [fil EXCEPT !["installe"] = Demande("persiste", n, Aucun)]
        /\ session' = [session EXCEPT !.fini = TRUE]
        /\ Len(session.relue) = NbMorceaux
        /\ PeutMarquer(Lu, t, ImagePleine(img), session.relue, session.essais)
    BY <1>3 DEF Termine, EnSession, NoyauPret, DisqueInchange, disque, IInv, ResteInv
  <2>1. /\ MetaCalme /\ Sains' = Sains /\ Nets' = Nets /\ Fideles' = Fideles /\ Sales' = Sales
        /\ fil'["chargeur"] = fil["chargeur"] => TourneInv' /\ SautInv'
    BY <1>1, <2>0
  <2>2. fil'["installe"].n = n /\ fil'["installe"].inst = Aucun /\ \A g \in Fils \ {"installe"} : fil'[g] = fil[g]
    <3>1. fil'["installe"] = Demande("persiste", n, Aucun) /\ \A g \in Fils \ {"installe"} : fil'[g] = fil[g]
      BY <1>0, <2>0, MajFaits
    <3> QED BY <3>1, DemandeFaits
  <2>3. /\ Lu \in Sains /\ Valide(Lu) /\ (\A s \in Sales : Lu.slots[s].etat \notin Garde)
        /\ ~expose => Lu \in Fideles
    BY <2>0, LuSain DEF SurInv
  <2>4. t \in Slots /\ session.essais \in 1..EssaisMax /\ img \in Images
    BY <2>0 DEF Installation
  <2>5. /\ n.actif = Lu.actif
        /\ n.slots = [Lu.slots EXCEPT ![t] = [etat |-> "Candidat", essais |-> session.essais, image |-> img]]
    BY DEF MarqueCandidat, AvecSlot
  <2>6. n \in Enregistrement /\ Lu.slots \in [Slots -> InfoSlot]
    <3>1. Valide(n)
      BY <2>0, <2>3, <2>4, MarqueValide DEF PeutMarquer
    <3> QED BY <2>3, <3>1, DeuxSlots DEF Valide
  <2>7. t \notin Sales /\ img \in Conformes[t]
    <3>1. session.relue = [k \in Morceaux |-> img] /\ 1 \in Morceaux /\ Morceaux = 1..Len(session.relue)
      BY <2>0, UpdateAssumption DEF PeutMarquer, ImagePleine, Morceaux
    <3>2. session.relue # <<>>
      BY <2>0, UpdateAssumption
    <3>3. t \notin Sales /\ \A k \in Morceaux : session.relue[k] = contenu[t][k]
      BY <2>0, <3>1, <3>2 DEF SurInv, RelueInv
    <3>4. \A k \in Morceaux : contenuApres[t][k] = {img}
      BY <2>4, <3>1, <3>3 DEF Sales
    <3> QED BY <2>4, <3>3, <3>4 DEF Conformes, ImagesLues
  <2>8. session'.cible = session.cible /\ session'.relue = session.relue /\ session' # Aucun
    <3>1. session' \in Installation
      BY <2>0 DEF Installation
    <3>2. session'.cible = session.cible /\ session'.relue = session.relue
      BY <2>0 DEF Installation
    <3> QED BY <3>1, <3>2, AucunAssumption
  <2> HIDE DEF n, t, img
  <2>9. /\ n.slots[t].etat = "Candidat" /\ n.slots[t].image = img
        /\ \A s \in Slots \ {t} : n.slots[s] = Lu.slots[s]
    BY <2>4, <2>5, <2>6
  <2>10. n \in Sains'
    BY <2>1, <2>3, <2>5, <2>6, <2>7, <2>9 DEF Sains
  <2>11. n \in Nets'
    <3>1. \A s \in Sales : s \in Slots /\ s # t /\ n.slots[s].etat \notin Garde
      BY <2>3, <2>7, <2>9 DEF Sales
    <3> QED BY <2>1, <2>6, <3>1 DEF Nets
  <2>12. ~expose => n \in Fideles'
    BY <2>1, <2>3, <2>6, <2>7, <2>9 DEF Fideles
  <2>13. DisqueSur'
    BY <1>0, <2>0, <2>1, <2>2, <2>10, <2>11, <2>12, AppelSur
  <2>14. RelueInv'
    BY <2>0, <2>1, <2>2, <2>8 DEF SurInv, RelueInv
  <2> QED BY <1>0, <2>1, <2>2, <2>13, <2>14 DEF SurInv
<1>4. ASSUME NEW pid \in Pids, NEW k \in Morceaux, NEW image \in Images, Ecrit(pid, k, image)
      PROVE  SurInv'
  <2>0. /\ UNCHANGED <<phase, passage, tourne, saines, fil>> /\ session # Aucun /\ fil["installe"].pc = "repos"
        /\ ~session.fini /\ session' = [session EXCEPT !.relue = <<>>] /\ session \in Installation
    BY <1>4 DEF Ecrit, EnSession, NoyauPret, histoire, IInv, ResteInv
  <2>1. RelueInv'
    <3>1. session'.relue = <<>>
      BY <2>0 DEF Installation
    <3> QED BY <2>0, <3>1 DEF SurInv, RelueInv
  <2>2. CASE EcritMorceau(session.cible, k, image)
    BY <2>0, <2>1, <2>2, MorceauSur DEF SurInv
  <2>3. CASE DisqueInchange
    <3>1. UNCHANGED <<copie, copieApres, expose, contenu, contenuApres>>
      BY <2>3 DEF DisqueInchange, disque
    <3> QED BY <1>1, <2>0, <2>1, <3>1, ImmobileSur DEF SurInv
  <2> QED BY <1>4, <2>2, <2>3 DEF Ecrit
<1>5. ASSUME NEW pid \in Pids, Verifie(pid)
      PROVE  SurInv'
  <2> DEFINE t == session.cible
             r == session.relue
  <2>0. /\ UNCHANGED <<phase, passage, tourne, saines, fil>> /\ session # Aucun
        /\ session \in Installation /\ r \in Seq(ImagesLues) /\ Len(r) \in Nat
    <3>1. /\ UNCHANGED <<phase, passage, tourne, saines, fil>> /\ session # Aucun
          /\ session \in Installation
      BY <1>5 DEF Verifie, EnSession, NoyauPret, histoire, IInv, ResteInv
    <3> QED BY <3>1 DEF Installation
  <2>1. Vidange \/ DisqueInchange
    BY <1>5 DEF Verifie
  <2>2. MetaCalme /\ ContenuDoux /\ contenu' = contenu /\ (Vidange => Sales' = {})
    BY <1>0, <2>1, StepCalme, DouxInchange, DouxVide DEF SurInv, DisqueSur, DisqueInchange, disque
  <2>3. DisqueSur' /\ TourneInv' /\ SautInv'
    BY <2>0, <2>2, ImmobileSur, TourneGarde
  <2>4. RelueInv'
    <3>1. CASE UNCHANGED session
      BY <2>0, <2>2, <3>1 DEF SurInv, RelueInv, ContenuDoux
    <3>2. CASE /\ session' = [session EXCEPT !.relue = Append(@, contenu[session.cible][Len(@) + 1])]
               /\ IF session.relue = <<>> THEN Vidange ELSE DisqueInchange
      <4> DEFINE x == contenu[t][Len(r) + 1]
      <4>1. session'.cible = t /\ session'.relue = Append(r, x)
        BY <2>0, <3>2 DEF Installation
      <4>2. t \notin Sales'
        <5>1. CASE r = <<>>
          BY <2>2, <3>2, <5>1
        <5>2. CASE r # <<>>
          BY <2>0, <2>2, <5>2 DEF SurInv, RelueInv, ContenuDoux
        <5> QED BY <5>1, <5>2
      <4>3. \A j \in 1..Len(r) : r[j] = contenu[t][j]
        <5>1. CASE r = <<>>
          BY <5>1
        <5>2. CASE r # <<>>
          BY <2>0, <5>2 DEF SurInv, RelueInv
        <5> QED BY <5>1, <5>2
      <4>4. \A j \in 1..Len(Append(r, x)) : Append(r, x)[j] = contenu[t][j]
        <5>1. Len(Append(r, x)) = Len(r) + 1 /\ Append(r, x)[Len(r) + 1] = x
          BY <2>0
        <5>2. \A j \in 1..Len(r) : Append(r, x)[j] = r[j]
          BY <2>0
        <5> HIDE DEF r
        <5>3. ASSUME NEW j \in 1..Len(Append(r, x)) PROVE Append(r, x)[j] = contenu[t][j]
          <6>1. j = Len(r) + 1 \/ j \in 1..Len(r)
            BY <2>0, <5>1
          <6> QED BY <4>3, <5>1, <5>2, <6>1
        <5> QED BY <5>3
      <4> QED BY <2>0, <2>2, <4>1, <4>2, <4>4 DEF SurInv, RelueInv
    <3> QED BY <1>5, <3>1, <3>2 DEF Verifie
  <2> QED BY <2>3, <2>4 DEF SurInv
<1>6. CASE DebutSession \/ FinSession \/ InstalleEchoue
  <2>0. /\ UNCHANGED <<copie, copieApres, expose, contenu, contenuApres>>
        /\ UNCHANGED <<phase, passage, tourne, saines>>
        /\ fil' = [fil EXCEPT !["installe"] = Repos]
    BY <1>6 DEF DebutSession, FinSession, InstalleEchoue, DisqueInchange, disque, histoire
  <2>1. fil'["installe"].pc = "repos" /\ \A g \in Fils \ {"installe"} : fil'[g] = fil[g]
    BY <1>0, <2>0, RetourFaits
  <2>2. MetaCalme /\ Sales' = Sales /\ (fil'["chargeur"] = fil["chargeur"] => TourneInv' /\ SautInv')
    BY <1>1, <2>0
  <2>3. ~EnJeu("installe")'
    BY <2>1 DEF EnJeu
  <2>4. DisqueSur'
    BY <1>0, <2>0, <2>1, <2>2, <2>3, AppelSur
  <2>5. session' \in {session, Aucun} \/ session'.relue = <<>>
    BY <1>6 DEF DebutSession, FinSession, InstalleEchoue, SurInv, RelueInv
  <2>6. RelueInv'
    BY <2>0, <2>1, <2>2, <2>5 DEF SurInv, RelueInv
  <2> QED BY <1>0, <2>1, <2>2, <2>4, <2>6 DEF SurInv
<1> QED BY <1>2, <1>3, <1>4, <1>5, <1>6 DEF Installe

(* reset and power loss *)
LEMMA EnvironnementSur ==
    ASSUME IInv, DurInv, SurInv, Redemarre \/ Coupure
    PROVE  SurInv'
<1>0. DisqueInv /\ MetaInv /\ ContenuInv
  BY DEF IInv, DurInv, SurInv, DisqueSur
<1>1. /\ \A f \in Fils : fil'[f].pc = "repos"
      /\ saines' = saines /\ tourne' = Aucun /\ phase' = "chargeur" /\ session' = Aucun
  BY DemandeFaits DEF Redemarre, Coupure, RamPerdue
<1>2. TourneInv' /\ SautInv' /\ RelueInv'
  BY <1>1, QuatreFils DEF TourneInv, SautInv, RelueInv
<1> DEFINE J == {}
<1>3. J \subseteq Sains' \cap Nets' /\ (~expose' => J \subseteq Fideles')
  OBVIOUS
<1>4. Joues' \subseteq Joues \cup J
  BY <1>1 DEF Joues, EnJeu
<1> HIDE DEF J
<1>5. CASE Redemarre
  <2>1. UNCHANGED <<copie, copieApres, expose, contenu, contenuApres>>
    BY <1>5 DEF Redemarre, DisqueInchange, disque
  <2>2. MetaCalme /\ ContenuDoux
    BY <1>0, <2>1, StepCalme, DouxInchange
  <2> QED BY <1>1, <1>2, <1>3, <1>4, <2>2, DisqueGarde DEF SurInv, MetaCalme
<1>6. CASE Coupure
  <2>1. ContenuDoux /\ Sales' = {}
    BY <1>0, <1>6, DouxCoupe
  <2>2. (expose' <=> expose) /\ Sur' \subseteq Sur /\ EnregistrementsPossibles' \subseteq EnregistrementsPossibles
    BY <1>0, <1>6, MetaCoupe
  <2> QED BY <1>1, <1>2, <1>3, <1>4, <2>1, <2>2, DisqueGarde DEF SurInv
<1> QED BY <1>5, <1>6

(* the delivered machine *)
LEMMA InitSur == Init => SurInv
<1> SUFFICES ASSUME Init PROVE SurInv
  OBVIOUS
<1> DEFINE e0 == Initial("A", ImageInitiale)
<1>1. \A f \in Fils : fil[f].pc = "repos"
  BY DemandeFaits DEF Init
<1>2. TourneInv /\ SautInv /\ RelueInv
  BY <1>1, QuatreFils DEF Init, TourneInv, SautInv, RelueInv
<1>3. Joues = {}
  BY <1>1 DEF Joues, EnJeu
<1>4. Sales = {} /\ ContenuInv
  BY DEF Init, Sales, ContenuInv
<1>5. ImageInitiale \in Conformes["A"]
  <2>1. \A k \in Morceaux : contenuApres["A"][k] = {ImageInitiale}
    BY DEF Init, ImagePleine, Slots
  <2> QED BY <2>1, UpdateAssumption DEF Conformes, ImagesLues, Slots
<1>6. e0 \in Sains /\ e0 \in Fideles
  <2>1. e0 \in Enregistrement
    BY InitialValide DEF Valide
  <2>2. e0.slots["A"].etat = "Bon" /\ e0.slots["A"].image = ImageInitiale /\ e0.slots["B"].etat = "Vide"
    BY DEF Initial, SlotVide, Slots
  <2>3. ImageInitiale \in saines
    BY DEF Init
  <2> HIDE DEF e0
  <2> QED BY <1>4, <1>5, <2>1, <2>2, <2>3 DEF Sains, Fideles, Garde, Slots
<1>7. Sur \subseteq {e0}
  BY DEF Init, Sur
<1>8. ~expose => EnregistrementsPossibles \subseteq Sur
  BY InitInv, InitDur, PossiblesSur DEF IInv, DurInv, MetaInv, AccuseDurable
<1> HIDE DEF e0
<1>9. DisqueSur
  BY <1>3, <1>4, <1>6, <1>7, <1>8 DEF DisqueSur
<1> QED BY <1>2, <1>9 DEF SurInv

(* every step *)
LEMMA NextSur ==
    ASSUME ~AppelantLibre, IInv, DurInv, PretInv, SurInv, [Next]_vars
    PROVE  SurInv'
<1>1. CASE Next
  BY <1>1, ChargeurSur, SanteSur, InstalleSur, ConsoleSur, EntreeSortieSur, EnvironnementSur DEF Next
<1>2. CASE UNCHANGED vars
  <2>1. /\ UNCHANGED <<copie, copieApres, expose, contenu, contenuApres>>
        /\ UNCHANGED <<phase, passage, tourne, saines, fil, session>>
    BY <1>2 DEF vars, disque, histoire
  <2>2. MetaCalme /\ ContenuDoux
    BY <2>1, StepCalme, DouxInchange DEF IInv, DurInv, SurInv, DisqueSur
  <2> QED BY <2>1, <2>2, ImmobileSur, ResteGarde DEF SurInv
<1> QED BY <1>1, <1>2

-----------------------------------------------------------------------------
(* What is promised of the slots *)

(* SurInv says it of every record META may hold *)
LEMMA SurImplique ==
    ASSUME IInv, DurInv, SurInv
    PROVE  ImageConforme /\ BonAEteSain
<1>1. EnregistrementsPossibles \subseteq Sur \cup {Illisible}
  BY PossiblesSur DEF IInv, DurInv, MetaInv
<1>2. ImageConforme
  <2> SUFFICES ASSUME ~expose, NEW e \in EnregistrementsPossibles, NEW s \in Slots,
                      e # Illisible, e.slots[s].etat \in {"Bon", "Candidat"}
               PROVE  \A k \in Morceaux : contenuApres[s][k] = {e.slots[s].image}
    BY DEF ImageConforme
  <2>1. e.slots[s].image \in Conformes[s]
    BY DEF SurInv, DisqueSur, Fideles, Garde
  <2> QED BY <2>1 DEF Conformes
<1>3. BonAEteSain
  BY <1>1 DEF BonAEteSain, SurInv, DisqueSur, Sains
<1> QED BY <1>2, <1>3

(* the invariant of the whole update, for a caller that keeps updated.c's order *)
LEMMA ToutesLesEtapes ==
    ASSUME ~AppelantLibre
    PROVE  Spec => [](IInv /\ DurInv /\ PretInv /\ SurInv)
<1>1. IInv /\ DurInv /\ PretInv /\ SurInv /\ [Next]_vars
            => IInv' /\ DurInv' /\ PretInv' /\ SurInv'
  BY NextInv, NextDur, NextPret, NextSur
<1>2. Init => IInv /\ DurInv /\ PretInv /\ SurInv
  BY InitInv, InitDur, InitPret, InitSur
<1> QED BY <1>1, <1>2, PTL DEF Spec

(* Unless both META copies were exposed to a tear, a slot that any record  *)
(* the next boot may select calls Bon or Candidat holds durably, in every  *)
(* chunk, the image whose digest that record gives.  updated.c writes      *)
(* nothing after installation_termine(): ~AppelantLibre.                   *)
THEOREM ImagesConformes ==
    ASSUME ~AppelantLibre
    PROVE  Spec => []ImageConforme
<1>1. IInv /\ DurInv /\ PretInv /\ SurInv => ImageConforme
  BY SurImplique
<1> QED BY <1>1, ToutesLesEtapes, PTL

(* A slot that any record the next boot may select calls Bon holds an      *)
(* image that ran and was declared healthy, even after META was torn.      *)
THEOREM BonsSains ==
    ASSUME ~AppelantLibre
    PROVE  Spec => []BonAEteSain
<1>1. IInv /\ DurInv /\ PretInv /\ SurInv => BonAEteSain
  BY SurImplique
<1> QED BY <1>1, ToutesLesEtapes, PTL

(* I2, I5 and I6 of ab.rs: no chunk changes in the slot that runs nor in   *)
(* the active slot of the current record, by a write of an installation    *)
(* (only its target changes) or by what a power loss leaves of the cache   *)
(* (only a slot with unflushed writes changes).                            *)
THEOREM SlotsVivantsIntacts ==
    ASSUME ~AppelantLibre
    PROVE  Spec => SlotVivantIntact
<1> DEFINE Intact == \A s \in Slots :
                        contenu'[s] # contenu[s] =>
                           /\ tourne # Aucun => tourne.slot # s
                           /\ Lisible => Lu.actif # s
<1>1. ASSUME IInv, DurInv, PretInv, SurInv, Next PROVE Intact
  <2> SUFFICES ASSUME NEW s \in Slots, contenu'[s] # contenu[s]
               PROVE  (tourne # Aucun => tourne.slot # s) /\ (Lisible => Lu.actif # s)
    OBVIOUS
  <2>1. CASE Coupure
    <3>1. s \in Sales
      BY <1>1, <2>1, DouxCoupe DEF IInv, SurInv, DisqueSur
    <3>2. tourne # Aucun => tourne.slot # s
      BY <1>1, <3>1 DEF SurInv, TourneInv
    <3>3. Lisible => Lu.actif # s
      BY <1>1, <3>1, LuSain DEF SurInv, Sains
    <3> QED BY <3>2, <3>3
  <2>2. ASSUME NEW pid \in Pids, NEW k \in Morceaux, NEW image \in Images, Ecrit(pid, k, image)
        PROVE  (tourne # Aucun => tourne.slot # s) /\ (Lisible => Lu.actif # s)
    <3>1. session # Aucun /\ passage # Aucun /\ phase = "noyau"
      BY <2>2 DEF Ecrit, EnSession, NoyauPret
    <3>2. session.cible # passage.slot /\ Lu.actif = passage.slot /\ tourne.slot = passage.slot
      BY <1>1, <3>1, PendantInstallation DEF PretInv, SessionInv, SurInv, TourneInv
    <3>3. s = session.cible
      BY <1>1, <2>2 DEF Ecrit, EcritMorceau, DisqueInchange, disque, IInv, DisqueInv
    <3> QED BY <3>2, <3>3
  <2>3. CASE Installe
    <3>1. contenu' # contenu
      OBVIOUS
    <3> QED BY <2>2, <2>3, <3>1 DEF Installe, Commence, DebutSession, Verifie, Vidange, Termine,
                FinSession, InstalleEchoue, DisqueInchange, disque
  <2>4. Chargeur \/ Sante \/ Console \/ Redemarre => contenu' = contenu
    BY DEF Chargeur, DecideRecovery, Choisit, Raisonne, Compte, Saute, Sante, DeclareSain, SantePersiste,
           SanteRend, Console, RollbackManuel, RollbackPersiste, RemetCompteur, ConsoleRend, Redemarre,
           DisqueInchange, disque
  <2>5. ASSUME NEW f \in Fils, EntreeSortie(f) PROVE contenu' = contenu
    BY <2>5 DEF EntreeSortie, LitCopies, EcritCopie, VideCopie, RelitCopie, EcritCompteur, VideCompteur,
                EcritBlocMeta, EcritBlocCompteur, Vidange, DisqueInchange, disque
  <2> QED BY <1>1, <2>1, <2>3, <2>4, <2>5 DEF Next
<1>2. IInv /\ DurInv /\ PretInv /\ SurInv /\ [Next]_vars => [Intact]_vars
  BY <1>1
<1> QED BY <1>2, ToutesLesEtapes, PTL DEF Spec, SlotVivantIntact

=============================================================================
