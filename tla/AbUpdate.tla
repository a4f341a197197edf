------------------------------ MODULE AbUpdate ------------------------------
(***************************************************************************)
(* The A/B update of Bouchaud OS end to end: the UEFI loader's decision    *)
(* (tools/reference/uefi-preboot-probe/src/ab.rs), the kernel's health     *)
(* commit and installation calls (src/kernel/update/mod.rs) and the        *)
(* recovery console, over a disk with a volatile write cache that may lose *)
(* power between any two I/O requests.                                     *)
(*                                                                         *)
(* For every block the model keeps what a read returns now (copie,         *)
(* compteur, contenu) and the set of values a power loss may leave         *)
(* (...Apres): the durable value and every write since the last flush, as  *)
(* the disk of tools/update/test_durabilite.rs.  A block is dirty when     *)
(* that set has more than one element.                                     *)
(***************************************************************************)
EXTENDS AbCore, FiniteSets, Sequences

CONSTANTS Pids,          \* processes that hold the install capability
          NbMorceaux,    \* read-back chunks per slot
          ImageInitiale, \* the image slot A is delivered with
          Presentes,     \* partitions on the disk: slots, "RECOVERY"
          Dechirable,    \* can a power loss tear a sector?
          AppelantLibre, \* may the caller write again after its finish?
          Aucun,         \* no handoff, no session, no running system
          MaxSequence,   \* bound: no installation or rollback past this record
          MaxPannes,     \* bound: failed I/O requests
          MaxCoupures    \* bound: power losses

ASSUME UpdateAssumption ==
    /\ NbMorceaux \in Nat \ {0}
    /\ ImageInitiale \in Images
    /\ Dechirable \in BOOLEAN /\ AppelantLibre \in BOOLEAN
    /\ MaxSequence \in Nat /\ MaxPannes \in Nat /\ MaxCoupures \in Nat

VARIABLES
    copie, copieApres,       \* META blocks 0 and 1
    compteur, compteurApres, \* META block 2, decoded
    contenu, contenuApres,   \* slot -> chunk -> image the chunk belongs to
    phase,                   \* what the machine runs
    passage,                 \* PASSAGE: the handoff the kernel found
    fil,                     \* the calls in flight
    committe,                \* COMMITTE: this boot promoted its candidate
    session,                 \* INSTALLATION and VERIFICATION
    pannes, coupures,        \* I/O failures and power losses so far
    (* history, read by the properties only *)
    tourne,                  \* the system that really runs
    saines,                  \* images declared healthy while they ran
    demarrages, budget,      \* boots of the pending candidate, and its grant
    deSuite,                 \* active boots since health was last declared or
                             \* the operator or a rollback asked for a new count
    perdus,                  \* times the loader lost count: the counter block was
                             \* torn, or its request to read or write it failed
    bootsActif,              \* active boots decided since this slot was made active
    accuse,                  \* newest sequence persiste() acknowledged
    expose                   \* both META copies were dirty and may tear

disque  == <<copie, copieApres, compteur, compteurApres, contenu, contenuApres>>
histoire == <<tourne, saines, demarrages, budget, deSuite, perdus, bootsActif, accuse>>
vars == <<disque, phase, passage, fil, committe, session, pannes, coupures, histoire, expose>>

Morceaux == 1..NbMorceaux
ImagesLues == Images \cup {AucuneImage}
ImagePleine(i) == [k \in Morceaux |-> i]

(* The loader, serviced (health), updated (install calls, one at a time    *)
(* under SERIALISE) and the recovery console.                              *)
Fils == {"chargeur", "sante", "installe", "console"}

(* a call at step pc that carries the record n and the new session inst *)
Demande(pc, n, inst) ==
    [pc |-> pc, n |-> n, i |-> 0, val |-> 0,
     slot |-> "A", raison |-> "Actif", seq |-> 0, inst |-> inst]

Repos == Demande("repos", Illisible, Aucun)

Lu == Selectionne(copie[0], copie[1])
Lisible == ~AucunEnregistrement(copie[0], copie[1])

Init ==
    /\ copie = [i \in 0..1 |-> Initial("A", ImageInitiale)]
    /\ copieApres = [i \in 0..1 |-> {copie[i]}]
    /\ compteur = 0 /\ compteurApres = {0}
    /\ contenu = [s \in Slots |-> ImagePleine(IF s = "A" THEN ImageInitiale ELSE AucuneImage)]
    /\ contenuApres = [s \in Slots |-> [k \in Morceaux |-> {contenu[s][k]}]]
    /\ phase = "chargeur" /\ passage = Aucun /\ committe = FALSE
    /\ fil = [f \in Fils |-> Repos]
    /\ session = Aucun
    /\ pannes = 0 /\ coupures = 0
    /\ tourne = Aucun /\ saines = {ImageInitiale}
    /\ demarrages = 0 /\ budget = 0 /\ deSuite = 0 /\ perdus = 0
    /\ bootsActif = 0 /\ accuse = 1 /\ expose = FALSE

-----------------------------------------------------------------------------
(* The disk *)

Panne == pannes < MaxPannes /\ pannes' = pannes + 1
SansPanne == UNCHANGED pannes

EcritBlocMeta(i, e) ==
    /\ copie' = [copie EXCEPT ![i] = e]
    /\ copieApres' = [copieApres EXCEPT ![i] = @ \cup {e}]
    /\ expose' = (expose \/ (Dechirable /\ \A j \in 0..1 : Cardinality(copieApres'[j]) > 1))
    /\ UNCHANGED <<compteur, compteurApres, contenu, contenuApres>>

EcritBlocCompteur(n) ==
    /\ compteur' = n
    /\ compteurApres' = compteurApres \cup {n}
    /\ UNCHANGED <<copie, copieApres, contenu, contenuApres, expose>>

EcritMorceau(s, k, img) ==
    /\ contenu' = [contenu EXCEPT ![s][k] = img]
    /\ contenuApres' = [contenuApres EXCEPT ![s][k] = @ \cup {img}]
    /\ UNCHANGED <<copie, copieApres, compteur, compteurApres, expose>>

(* a flush makes every cached write of the device durable *)
Vidange ==
    /\ copieApres' = [i \in 0..1 |-> {copie[i]}]
    /\ compteurApres' = {compteur}
    /\ contenuApres' = [s \in Slots |-> [k \in Morceaux |-> {contenu[s][k]}]]
    /\ UNCHANGED <<copie, compteur, contenu, expose>>

DisqueInchange == UNCHANGED <<disque, expose>>

(* what a power loss may leave of a block *)
Issues(valeurs, dechire) ==
    valeurs \cup (IF Dechirable /\ Cardinality(valeurs) > 1 THEN {dechire} ELSE {})

-----------------------------------------------------------------------------
(* persiste(): older copy <- n, FLUSH, read back.  The loader and the      *)
(* kernel share the algorithm; each step is one request to the device.     *)

Vers(f, pc) == fil' = [fil EXCEPT ![f].pc = pc]

LitCopies(f) ==
    /\ fil[f].pc = "persiste"
    /\ \/ /\ fil' = [fil EXCEPT ![f].pc = "ecrit", ![f].i = CopieAEcrire(copie[0], copie[1])]
          /\ SansPanne
       \/ Panne /\ Vers(f, "echec")
    /\ DisqueInchange /\ UNCHANGED histoire

(* a failed write may still have reached the device *)
EcritCopie(f) ==
    /\ fil[f].pc = "ecrit"
    /\ \/ EcritBlocMeta(fil[f].i, fil[f].n) /\ Vers(f, "vidange") /\ SansPanne
       \/ Panne /\ Vers(f, "echec") /\ (EcritBlocMeta(fil[f].i, fil[f].n) \/ DisqueInchange)
    /\ UNCHANGED histoire

VideCopie(f) ==
    /\ fil[f].pc = "vidange"
    /\ \/ Vidange /\ Vers(f, "relit") /\ SansPanne
       \/ Panne /\ Vers(f, "echec") /\ DisqueInchange
    /\ UNCHANGED histoire

RelitCopie(f) ==
    /\ fil[f].pc = "relit"
    /\ \/ /\ copie[fil[f].i] = fil[f].n
          /\ Vers(f, "persiste_ok") /\ SansPanne
          /\ accuse' = IF fil[f].n.sequence > accuse THEN fil[f].n.sequence ELSE accuse
       \/ /\ copie[fil[f].i] # fil[f].n
          /\ Vers(f, "echec") /\ SansPanne /\ UNCHANGED accuse
       \/ Panne /\ Vers(f, "echec") /\ UNCHANGED accuse
    /\ DisqueInchange
    /\ UNCHANGED <<tourne, saines, demarrages, budget, deSuite, perdus, bootsActif>>

(* the loader goes on without knowing whether this boot was counted *)
PerdLeCompte(f) == perdus' = IF f = "chargeur" THEN perdus + 1 ELSE perdus

(* ecrit_compteur(): write, flush; best effort *)
EcritCompteur(f) ==
    /\ fil[f].pc = "compte"
    /\ \/ EcritBlocCompteur(fil[f].val) /\ Vers(f, "compte_vidange") /\ SansPanne /\ UNCHANGED perdus
       \/ /\ Panne /\ Vers(f, "compte_echec") /\ PerdLeCompte(f)
          /\ EcritBlocCompteur(fil[f].val) \/ DisqueInchange
    /\ UNCHANGED <<tourne, saines, demarrages, budget, deSuite, bootsActif, accuse>>

VideCompteur(f) ==
    /\ fil[f].pc = "compte_vidange"
    /\ \/ Vidange /\ Vers(f, "compte_ok") /\ SansPanne /\ UNCHANGED perdus
       \/ Panne /\ Vers(f, "compte_echec") /\ DisqueInchange /\ PerdLeCompte(f)
    /\ UNCHANGED <<tourne, saines, demarrages, budget, deSuite, bootsActif, accuse>>

EntreeSortie(f) ==
    /\ \/ LitCopies(f) \/ EcritCopie(f) \/ VideCopie(f) \/ RelitCopie(f)
       \/ EcritCompteur(f) \/ VideCompteur(f)
    /\ UNCHANGED <<phase, passage, committe, session, coupures>>

-----------------------------------------------------------------------------
(* The loader: decide() *)

(* recovery(): boot RECOVERY when it exists, otherwise stop.  A recovery   *)
(* system whose handoff page was lost can change nothing either.           *)
EntreRecovery(raison, slot, seq) ==
    /\ fil' = [fil EXCEPT !["chargeur"] = Repos]
    /\ \/ /\ "RECOVERY" \in Presentes
          /\ phase' = "recovery"
          /\ passage' = [slot |-> slot, raison |-> raison, sequence_meta |-> seq]
       \/ phase' = "arret" /\ UNCHANGED passage

(* 'r' pressed, two invalid copies, or META unreadable *)
DecideRecovery ==
    /\ phase = "chargeur" /\ fil["chargeur"].pc = "repos"
    /\ \/ SansPanne /\ Lisible /\ EntreRecovery("RecoveryDemandee", Lu.actif, Lu.sequence)
       \/ /\ Panne \/ (SansPanne /\ ~Lisible)
          /\ \E r \in {"RecoveryDemandee", "RecoveryRequise"} : EntreRecovery(r, "A", 0)
    /\ DisqueInchange /\ UNCHANGED <<committe, session, coupures, histoire>>

Choisit ==
    /\ phase = "chargeur" /\ fil["chargeur"].pc = "repos" /\ Lisible
    /\ LET c == ChoisitBoot(Lu)
       IN  fil' = [fil EXCEPT !["chargeur"] =
                     [@ EXCEPT !.pc = IF c.apres = Lu THEN "decide" ELSE "persiste",
                               !.n = c.apres, !.slot = c.slot, !.raison = "Actif",
                               !.seq = Lu.sequence]]
    /\ DisqueInchange /\ UNCHANGED <<phase, passage, committe, session, pannes, coupures, histoire>>

(* wrong variant: boots the candidate although its attempt is not durable *)
RaisonneTetu ==
    LET c == fil["chargeur"]
        candidat == c.n.actif # c.slot
    IN  /\ c.pc \in {"persiste_ok", "echec"}
        /\ phase = "chargeur"
        /\ fil' = [fil EXCEPT !["chargeur"] =
             [@ EXCEPT !.pc = "decide", !.seq = c.n.sequence,
                       !.raison = IF candidat THEN "CandidatEssaiConsomme"
                                              ELSE "RollbackCandidatEpuise"]]
        /\ deSuite' = IF c.pc = "persiste_ok" /\ ~candidat THEN 0 ELSE deSuite
        /\ DisqueInchange
        /\ UNCHANGED <<phase, passage, committe, session, pannes, coupures,
                       tourne, saines, demarrages, budget, perdus, bootsActif, accuse>>

(* The outcome of persiste() names the reason.  A candidate whose consumed *)
(* attempt is not durable is not booted; seq is sur_disque.sequence.       *)
Raisonne ==
    LET c == fil["chargeur"]
        candidat == c.n.actif # c.slot
    IN  /\ c.pc \in {"persiste_ok", "echec"}
        /\ phase = "chargeur"
        /\ fil' = [fil EXCEPT !["chargeur"] =
             IF c.pc = "persiste_ok"
             THEN [@ EXCEPT !.pc = "decide", !.seq = c.n.sequence,
                            !.raison = IF candidat THEN "CandidatEssaiConsomme"
                                                   ELSE "RollbackCandidatEpuise"]
             ELSE [@ EXCEPT !.pc = "decide", !.slot = c.n.actif,
                            !.raison = IF candidat THEN "PersistanceImpossibleReplieActif"
                                                   ELSE "RollbackNonPersiste"]]
        /\ deSuite' = IF c.pc = "persiste_ok" /\ ~candidat THEN 0 ELSE deSuite
        /\ DisqueInchange
        /\ UNCHANGED <<phase, passage, committe, session, pannes, coupures,
                       tourne, saines, demarrages, budget, perdus, bootsActif, accuse>>

(* echecs::avant_boot; lit_compteur reads 0 when the block is unreadable *)
Compte ==
    LET c == fil["chargeur"]
    IN  /\ phase = "chargeur" /\ c.pc = "decide"
        /\ \E lu \in {compteur, 0} :
             /\ IF lu = compteur THEN SansPanne ELSE Panne
             /\ IF VersRecovery(lu, c.raison)
                THEN EntreRecovery("RecoveryEchecsRepetes", c.n.actif, c.seq)
                ELSE /\ fil' = [fil EXCEPT !["chargeur"] =
                          [@ EXCEPT !.pc = IF CompteurAvantBoot(lu, c.raison) = lu
                                           THEN "compte_ok" ELSE "compte",
                                    !.val = CompteurAvantBoot(lu, c.raison)]]
                     /\ UNCHANGED <<phase, passage>>
             /\ IF lu = compteur THEN UNCHANGED perdus ELSE PerdLeCompte("chargeur")
             /\ bootsActif' = IF c.raison = "Actif" /\ bootsActif < SEUIL THEN bootsActif + 1 ELSE bootsActif
        /\ DisqueInchange
        /\ UNCHANGED <<committe, session, coupures, tourne, saines, demarrages, budget, deSuite, accuse>>

(* depose_passage() is best effort: the kernel may find no handoff *)
Saute ==
    LET c == fil["chargeur"]
        candidat == c.raison = "CandidatEssaiConsomme"
        normal == IF c.raison = "Actif" THEN 1 ELSE 0
    IN  /\ phase = "chargeur" /\ c.pc \in {"compte_ok", "compte_echec"}
        /\ IF c.slot \in Presentes
           THEN /\ fil' = [fil EXCEPT !["chargeur"] = Repos]
                /\ phase' = "noyau"
                /\ \/ /\ passage' = [slot |-> c.slot, raison |-> c.raison, sequence_meta |-> c.seq]
                      /\ SansPanne
                   \/ passage' = Aucun /\ Panne
                /\ tourne' = [slot |-> c.slot, image |-> contenu[c.slot]]
                /\ demarrages' = IF candidat THEN demarrages + 1 ELSE demarrages
                /\ deSuite' = deSuite + normal
           ELSE /\ EntreRecovery("RecoveryRequise", c.n.actif, c.seq)
                /\ SansPanne /\ UNCHANGED <<tourne, demarrages, deSuite>>
        /\ DisqueInchange /\ UNCHANGED <<committe, session, coupures, saines, budget, perdus, bootsActif, accuse>>

-----------------------------------------------------------------------------
(* The kernel: commit_sante().  It does not take SERIALISE. *)

NoyauPret(f) == phase = "noyau" /\ passage # Aucun /\ fil[f].pc = "repos"

DeclareSain ==
    /\ NoyauPret("sante") /\ Lisible /\ ~committe
    /\ \/ /\ DejaActif(passage, Lu)
          /\ fil' = [fil EXCEPT !["sante"] = Demande("compte", Illisible, Aucun)]
       \/ /\ PeutPromouvoir(passage, Lu)
          /\ fil' = [fil EXCEPT !["sante"] = Demande("persiste", SanteOk(Lu, passage.slot), Aucun)]
    /\ saines' = saines \cup {tourne.image[k] : k \in Morceaux}
    /\ deSuite' = 0
    /\ DisqueInchange
    /\ UNCHANGED <<phase, passage, committe, session, pannes, coupures,
                   tourne, demarrages, budget, perdus, bootsActif, accuse>>

SantePersiste ==
    /\ phase = "noyau" /\ fil["sante"].pc = "persiste_ok"
    /\ Vers("sante", "compte")
    /\ bootsActif' = 0
    /\ DisqueInchange
    /\ UNCHANGED <<phase, passage, committe, session, pannes, coupures,
                   tourne, saines, demarrages, budget, deSuite, perdus, accuse>>

(* the call returns; n is set when it promoted a candidate *)
SanteRend ==
    /\ phase = "noyau" /\ fil["sante"].pc \in {"echec", "compte_ok", "compte_echec"}
    /\ fil' = [fil EXCEPT !["sante"] = Repos]
    /\ committe' = (committe \/ (fil["sante"].pc = "compte_ok" /\ fil["sante"].n # Illisible))
    /\ DisqueInchange /\ UNCHANGED <<phase, passage, session, pannes, coupures, histoire>>

-----------------------------------------------------------------------------
(* The kernel: installation into the inactive slot.  SERIALISE makes each  *)
(* call exclude the others: one thread, whoever the caller is.             *)

NouvelleSession(pid, cible, image, essais) ==
    [proprietaire |-> pid, cible |-> cible, attendu |-> image, essais |-> essais,
     relue |-> <<>>, fini |-> FALSE]

(* installation_commence(): the manifest is signed, the target acceptable; *)
(* the session itself starts when the Vide record is durable.              *)
Commence(pid, cible, image, essais) ==
    /\ NoyauPret("installe") /\ Lisible
    /\ Lu.sequence <= MaxSequence
    /\ PeutCommencer(Lu, cible, passage.slot)
    /\ cible \in Presentes
    /\ fil' = [fil EXCEPT !["installe"] =
                 Demande("persiste", CommenceInstallation(Lu, cible),
                         NouvelleSession(pid, cible, image, essais))]
    /\ DisqueInchange /\ UNCHANGED <<phase, passage, committe, session, pannes, coupures, histoire>>

DebutSession ==
    /\ phase = "noyau" /\ fil["installe"].pc = "persiste_ok" /\ fil["installe"].inst # Aucun
    /\ session' = fil["installe"].inst
    /\ fil' = [fil EXCEPT !["installe"] = Repos]
    /\ DisqueInchange /\ UNCHANGED <<phase, passage, committe, pannes, coupures, histoire>>

EnSession(pid) == NoyauPret("installe") /\ session # Aucun /\ session.proprietaire = pid

(* wrong variant: a write leaves the read-back in progress as it was *)
EcritSansOublier(pid, k, image) ==
    /\ EnSession(pid)
    /\ AppelantLibre \/ ~session.fini
    /\ \/ EcritMorceau(session.cible, k, image) /\ SansPanne
       \/ Panne /\ (EcritMorceau(session.cible, k, image) \/ DisqueInchange)
    /\ UNCHANGED <<phase, passage, committe, fil, session, coupures, histoire>>

(* installation_ecrit(): the read-back in progress is void before the      *)
(* write.  updated.c never writes once it has asked to finish; the kernel  *)
(* does not depend on it, hence AppelantLibre.                             *)
Ecrit(pid, k, image) ==
    /\ EnSession(pid)
    /\ AppelantLibre \/ ~session.fini
    /\ session' = [session EXCEPT !.relue = <<>>]
    /\ \/ EcritMorceau(session.cible, k, image) /\ SansPanne
       \/ Panne /\ (EcritMorceau(session.cible, k, image) \/ DisqueInchange)
    /\ UNCHANGED <<phase, passage, committe, fil, coupures, histoire>>

(* wrong variant: reads back from the device cache *)
VerifieSansVidange(pid) ==
    /\ EnSession(pid)
    /\ Len(session.relue) < NbMorceaux
    /\ \/ /\ session' = [session EXCEPT !.relue = Append(@, contenu[session.cible][Len(@) + 1])]
          /\ SansPanne
       \/ Panne /\ UNCHANGED session
    /\ DisqueInchange
    /\ UNCHANGED <<phase, passage, committe, fil, coupures, histoire>>

(* installation_verifie(): a flush before the first chunk, then one chunk  *)
(* per call.  verifie is Len(relue), the running SHA-256 is relue.         *)
Verifie(pid) ==
    /\ EnSession(pid)
    /\ Len(session.relue) < NbMorceaux
    /\ \/ /\ session' = [session EXCEPT !.relue = Append(@, contenu[session.cible][Len(@) + 1])]
          /\ IF session.relue = <<>> THEN Vidange ELSE DisqueInchange
          /\ SansPanne
       \/ /\ Panne /\ UNCHANGED session
          /\ DisqueInchange \/ (session.relue = <<>> /\ Vidange)
    /\ UNCHANGED <<phase, passage, committe, fil, coupures, histoire>>

(* installation_termine(): what the disk returned is the signed image *)
Termine(pid) ==
    /\ EnSession(pid) /\ Lisible
    /\ Len(session.relue) = NbMorceaux
    /\ PeutMarquer(Lu, session.cible, ImagePleine(session.attendu), session.relue, session.essais)
    /\ fil' = [fil EXCEPT !["installe"] =
                 Demande("persiste",
                         MarqueCandidat(Lu, session.cible, session.attendu, session.essais), Aucun)]
    /\ session' = [session EXCEPT !.fini = TRUE]
    /\ demarrages' = 0 /\ budget' = session.essais
    /\ DisqueInchange
    /\ UNCHANGED <<phase, passage, committe, pannes, coupures,
                   tourne, saines, deSuite, perdus, bootsActif, accuse>>

FinSession ==
    /\ phase = "noyau" /\ fil["installe"].pc = "persiste_ok" /\ fil["installe"].inst = Aucun
    /\ session' = Aucun
    /\ fil' = [fil EXCEPT !["installe"] = Repos]
    /\ DisqueInchange /\ UNCHANGED <<phase, passage, committe, pannes, coupures, histoire>>

(* an I/O error of begin or finish leaves the session as it was *)
InstalleEchoue ==
    /\ phase = "noyau" /\ fil["installe"].pc = "echec"
    /\ fil' = [fil EXCEPT !["installe"] = Repos]
    /\ DisqueInchange /\ UNCHANGED <<phase, passage, committe, session, pannes, coupures, histoire>>

-----------------------------------------------------------------------------
(* The recovery console: rollback_manuel() and remet_compteur() *)

ConsolePrete == phase = "recovery" /\ fil["console"].pc = "repos"

RollbackManuel ==
    /\ ConsolePrete /\ Lisible /\ PeutRevenir(Lu)
    /\ Lu.sequence <= MaxSequence
    /\ fil' = [fil EXCEPT !["console"] = Demande("persiste", Revient(Lu), Aucun)]
    /\ DisqueInchange /\ UNCHANGED <<phase, passage, committe, session, pannes, coupures, histoire>>

RollbackPersiste ==
    /\ phase = "recovery" /\ fil["console"].pc = "persiste_ok"
    /\ Vers("console", "compte")
    /\ bootsActif' = 0 /\ deSuite' = 0
    /\ DisqueInchange
    /\ UNCHANGED <<phase, passage, committe, session, pannes, coupures,
                   tourne, saines, demarrages, budget, perdus, accuse>>

RemetCompteur ==
    /\ ConsolePrete
    /\ fil' = [fil EXCEPT !["console"] = Demande("compte", Illisible, Aucun)]
    /\ deSuite' = 0
    /\ DisqueInchange
    /\ UNCHANGED <<phase, passage, committe, session, pannes, coupures,
                   tourne, saines, demarrages, budget, perdus, bootsActif, accuse>>

ConsoleRend ==
    /\ phase = "recovery" /\ fil["console"].pc \in {"echec", "compte_ok", "compte_echec"}
    /\ fil' = [fil EXCEPT !["console"] = Repos]
    /\ DisqueInchange /\ UNCHANGED <<phase, passage, committe, session, pannes, coupures, histoire>>

-----------------------------------------------------------------------------
(* The environment: reset (the device keeps its cache) and power loss *)

RamPerdue == /\ fil' = [f \in Fils |-> Repos]
             /\ phase' = "chargeur" /\ passage' = Aucun /\ committe' = FALSE
             /\ session' = Aucun /\ tourne' = Aucun

Redemarre ==
    /\ IF phase = "chargeur" THEN coupures < MaxCoupures /\ coupures' = coupures + 1
                             ELSE UNCHANGED coupures
    /\ RamPerdue /\ DisqueInchange
    /\ UNCHANGED <<pannes, saines, demarrages, budget, deSuite, perdus, bootsActif, accuse>>

Coupure ==
    /\ coupures < MaxCoupures /\ coupures' = coupures + 1
    /\ RamPerdue
    /\ \E c0 \in Issues(copieApres[0], Illisible), c1 \in Issues(copieApres[1], Illisible),
          cpt \in Issues(compteurApres, 0) :
         /\ copie' = [i \in 0..1 |-> IF i = 0 THEN c0 ELSE c1]
         /\ copieApres' = [i \in 0..1 |-> {copie'[i]}]
         /\ compteur' = cpt /\ compteurApres' = {cpt}
         /\ IF cpt \in compteurApres THEN UNCHANGED perdus ELSE PerdLeCompte("chargeur")
    /\ contenu' \in {c \in [Slots -> [Morceaux -> ImagesLues]] :
                      \A s \in Slots : \A k \in Morceaux :
                         c[s][k] \in Issues(contenuApres[s][k], AucuneImage)}
    /\ contenuApres' = [s \in Slots |-> [k \in Morceaux |-> {contenu'[s][k]}]]
    /\ UNCHANGED <<pannes, saines, demarrages, budget, deSuite, bootsActif, accuse, expose>>

-----------------------------------------------------------------------------

Chargeur == DecideRecovery \/ Choisit \/ Raisonne \/ Compte \/ Saute

Sante == DeclareSain \/ SantePersiste \/ SanteRend

Installe ==
    \/ \E pid \in Pids : \/ \E cible \in Slots, image \in Images, essais \in 1..EssaisMax :
                               Commence(pid, cible, image, essais)
                        \/ \E k \in Morceaux, image \in Images : Ecrit(pid, k, image)
                        \/ Verifie(pid)
                        \/ Termine(pid)
    \/ DebutSession \/ FinSession \/ InstalleEchoue

Console == RollbackManuel \/ RollbackPersiste \/ RemetCompteur \/ ConsoleRend

Next == \/ Chargeur \/ Sante \/ Installe \/ Console
        \/ \E f \in Fils : EntreeSortie(f)
        \/ Redemarre \/ Coupure

Spec == Init /\ [][Next]_vars

(* The loader runs its own program and its device answers; the operator    *)
(* does not press 'r' at every boot (strong fairness of Choisit); a system *)
(* that does not answer is reset in the end.  Neither health nor updated   *)
(* owes anything.                                                          *)
Equite ==
    /\ SF_vars(Choisit)
    /\ WF_vars(Raisonne \/ Compte \/ Saute)
    /\ WF_vars(EntreeSortie("chargeur"))
    /\ WF_vars(phase # "chargeur" /\ Redemarre)

SpecEquitable == Spec /\ Equite

-----------------------------------------------------------------------------
(* Properties *)

Copies == Enregistrement \cup {Illisible}

Etapes == {"repos", "persiste", "ecrit", "vidange", "relit", "persiste_ok", "echec",
           "decide", "compte", "compte_vidange", "compte_ok", "compte_echec"}

Installation == [proprietaire : Pids, cible : Slots, attendu : Images, essais : 1..EssaisMax,
                 relue : Seq(ImagesLues), fini : BOOLEAN]

ASSUME AucunAssumption == Aucun \notin Installation

Appel == [pc : Etapes, n : Copies, i : 0..1, val : Nat, slot : Slots, raison : Raisons,
          seq : Nat, inst : Installation \cup {Aucun}]

(* The shape of the state.  A call that is going to write a record holds   *)
(* one, and so does the loader from the moment it has chosen a slot.       *)
TypeOK ==
    /\ copie \in [0..1 -> Copies]
    /\ copieApres \in [0..1 -> SUBSET Copies]
    /\ compteur \in Nat /\ compteurApres \subseteq Nat
    /\ contenu \in [Slots -> [Morceaux -> ImagesLues]]
    /\ contenuApres \in [Slots -> [Morceaux -> SUBSET ImagesLues]]
    /\ phase \in {"chargeur", "noyau", "recovery", "arret"}
    /\ passage \in Passage \cup {Aucun}
    /\ fil \in [Fils -> Appel]
    /\ session \in Installation \cup {Aucun}
    /\ \A f \in Fils : fil[f].pc \in {"persiste", "ecrit", "vidange", "relit", "persiste_ok"}
                       => fil[f].n \in Enregistrement
    /\ fil["chargeur"].pc # "repos" => fil["chargeur"].n \in Enregistrement

(* decode() refuses a record whose active slot is not Bon.  No transition  *)
(* of ab.rs produces one, whatever the order of calls: a block the loader  *)
(* or the kernel wrote decodes unless a power loss tore it.                *)
CopiesValides ==
    \A i \in 0..1 : \A c \in copieApres[i] \cup {copie[i]} : c = Illisible \/ Decodable(c)

(* Every record a power loss now, or no power loss at all, would let the   *)
(* loader select; Illisible stands for two invalid copies.                 *)
EnregistrementsPossibles ==
    {IF AucunEnregistrement(c0, c1) THEN Illisible ELSE Selectionne(c0, c1) :
        c0 \in Issues(copieApres[0], Illisible) \cup {copie[0]},
        c1 \in Issues(copieApres[1], Illisible) \cup {copie[1]}}

(* I1 and I4 of ab.rs: whatever a power loss leaves, the loader finds a    *)
(* valid record with a Bon active slot, and never an older one than the    *)
(* last that persiste() acknowledged.  `expose` excludes the window in     *)
(* which both copies are unflushed at once (see RecoveryJamaisRequise).    *)
AccuseDurable ==
    ~expose => \A e \in EnregistrementsPossibles :
                  /\ e # Illisible
                  /\ e.sequence >= accuse

(* A slot that a record calls Bon or Candidat holds, durably, exactly the  *)
(* image whose digest the record gives: commence_installation empties the  *)
(* slot before the first byte is written, installation_verifie flushes     *)
(* before it reads back, and every write voids the read-back.              *)
ImageConforme ==
    ~expose => \A e \in EnregistrementsPossibles : \A s \in Slots :
                  (e # Illisible /\ e.slots[s].etat \in {"Bon", "Candidat"}) =>
                     \A k \in Morceaux : contenuApres[s][k] = {e.slots[s].image}

(* A slot is Bon only if the very image it records ran and was declared    *)
(* healthy: never one that the loader did not boot (passage.rs:3-7).       *)
BonAEteSain ==
    \A e \in EnregistrementsPossibles : \A s \in Slots :
       (e # Illisible /\ e.slots[s].etat = "Bon") => e.slots[s].image \in saines

(* I3: a candidate is booted at most `essais` times without a health       *)
(* commit, because its attempt is durable before the jump.                 *)
EssaisBornes == ~expose => demarrages <= budget

(* echecs.rs: at most SEUIL boots in a row of an active slot that never    *)
(* confirms health, and at most SEUIL more each time the loader loses      *)
(* count: a counter that a power loss tore, or that cannot be read, reads  *)
(* as 0 (echecs.rs:15-16), and a boot that cannot be counted happens all   *)
(* the same (ecrit_compteur is best effort).                               *)
EchecsBornes == deSuite <= SEUIL * (perdus + 1)

(* I2, I5, I6: an image block never changes in the slot that runs nor in   *)
(* the slot the current record calls active, whether by a write or by what *)
(* a power loss leaves.                                                    *)
SlotVivantIntact ==
    [][\A s \in Slots :
          contenu'[s] # contenu[s] =>
             /\ tourne # Aucun => tourne.slot # s
             /\ Lisible => Lu.actif # s]_vars

(* What test_durabilite.rs:20-21 promises without reservation: after a     *)
(* power loss the next boot is never RECOVERY_REQUIRED.                    *)
RecoveryJamaisRequise ==
    passage # Aucun => passage.raison # "RecoveryRequise"

(* What passage.rs:53-54 says of RecoveryEchecsRepetes: the active slot    *)
(* failed to confirm health SEUIL boots in a row.                          *)
EchecsReels ==
    (passage # Aucun /\ passage.raison = "RecoveryEchecsRepetes") => bootsActif >= SEUIL

(* The contract of ab.rs:13-15: a candidate never stays pending.  It is    *)
(* promoted, or the loader runs out of attempts and rolls it back.         *)
EnEssai(s) == Lisible /\ Lu.slots[s].etat = "Candidat"

CandidatTranche == \A s \in Slots : EnEssai(s) ~> ~EnEssai(s)

=============================================================================
