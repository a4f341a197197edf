------------------------------- MODULE AbCore -------------------------------
(***************************************************************************)
(* The pure decisions of an A/B update: the boot record and its            *)
(* transitions (system/update-core/src/ab.rs), the health commit           *)
(* (passage.rs) and the counter of unconfirmed boots (echecs.rs).  Both    *)
(* the UEFI loader and the kernel call these operators.                    *)
(*                                                                         *)
(* A Rust function that returns a Result is a pair here: Peut... is the    *)
(* conjunction of its early returns, the operator beside it what Ok holds. *)
(* A 96-byte copy is the record it decodes to, or Illisible when the magic *)
(* or the CRC is wrong.  The u64 sequence is a natural number: it would    *)
(* wrap after 2^64 updates.                                                *)
(***************************************************************************)
EXTENDS Naturals

CONSTANTS Images,        \* SHA-256 digests of whole images
          AucuneImage,   \* [0; 32], the digest field of an empty slot
          Illisible,     \* a META block that does not decode
          EssaisMax,     \* largest number of attempts a manifest may grant
          SEUIL          \* unconfirmed active boots before recovery

ASSUME CoreAssumption ==
    /\ EssaisMax \in Nat \ {0}
    /\ SEUIL \in Nat \ {0}
    /\ AucuneImage \notin Images

-----------------------------------------------------------------------------
(* The boot record *)

Slots == {"A", "B"}

Autre(s) == IF s = "A" THEN "B" ELSE "A"

Etats == {"Vide", "Candidat", "Bon", "Mauvais"}

(* essais is meaningful for a Candidat only; encode_etat writes 0 otherwise *)
InfoSlot == [etat : Etats, essais : 0..EssaisMax, image : Images \cup {AucuneImage}]

Enregistrement == [sequence : Nat, actif : Slots, slots : [Slots -> InfoSlot]]

ASSUME CopieAssumption == Illisible \notin Enregistrement

SlotVide == [etat |-> "Vide", essais |-> 0, image |-> AucuneImage]

Initial(actif, image) ==
    [sequence |-> 1, actif |-> actif,
     slots |-> [s \in Slots |->
                  IF s = actif THEN [etat |-> "Bon", essais |-> 0, image |-> image]
                               ELSE SlotVide]]

(* suivant() followed by one assignment to a slot *)
AvecSlot(e, s, info) ==
    [sequence |-> e.sequence + 1, actif |-> e.actif, slots |-> [e.slots EXCEPT ![s] = info]]

(* the state of slot s becomes `etat`, its digest is kept *)
AvecEtat(e, s, etat, essais) ==
    AvecSlot(e, s, [etat |-> etat, essais |-> essais, image |-> e.slots[s].image])

(* wrong variant: only the running slot is protected *)
PeutCommencerSurActif(e, cible, enCours) ==
    /\ cible # enCours
    /\ e.slots[cible].etat # "Candidat"

PeutCommencer(e, cible, enCours) ==
    /\ cible # enCours                          \* CibleEnCoursDExecution (I6)
    /\ cible # e.actif                          \* CibleActive (I5)
    /\ e.slots[cible].etat # "Candidat"         \* CandidatEnCours

CommenceInstallation(e, cible) == AvecSlot(e, cible, SlotVide)

PeutMarquer(e, cible, image, relue, essais) ==
    /\ cible # e.actif
    /\ e.slots[cible].etat = "Vide"
    /\ image = relue                            \* ImageNonVerifiee
    /\ essais # 0                               \* EssaisNuls

MarqueCandidat(e, cible, image, essais) ==
    AvecSlot(e, cible, [etat |-> "Candidat", essais |-> essais, image |-> image])

(* wrong variants: the attempt is not consumed; it is consumed without a   *)
(* floor; an exhausted candidate is kept pending; or is marked Bon         *)
ChoisitBootGratuit(e) ==
    LET autre == Autre(e.actif)
        info  == e.slots[autre]
    IN  IF info.etat # "Candidat" THEN [slot |-> e.actif, apres |-> e]
        ELSE [slot |-> autre, apres |-> AvecEtat(e, autre, "Candidat", info.essais)]

ChoisitBootSansPlancher(e) ==
    LET autre == Autre(e.actif)
        info  == e.slots[autre]
    IN  IF info.etat # "Candidat" THEN [slot |-> e.actif, apres |-> e]
        ELSE [slot |-> autre, apres |-> AvecEtat(e, autre, "Candidat", info.essais - 1)]

ChoisitBootSansFin(e) ==
    LET autre == Autre(e.actif)
        info  == e.slots[autre]
    IN  IF info.etat # "Candidat" \/ info.essais = 0 THEN [slot |-> e.actif, apres |-> e]
        ELSE [slot |-> autre, apres |-> AvecEtat(e, autre, "Candidat", info.essais - 1)]

ChoisitBootEpuiseBon(e) ==
    LET autre == Autre(e.actif)
        info  == e.slots[autre]
    IN  IF info.etat # "Candidat" THEN [slot |-> e.actif, apres |-> e]
        ELSE IF info.essais > 0
             THEN [slot  |-> autre,
                   apres |-> AvecEtat(e, autre, "Candidat", info.essais - 1)]
             ELSE [slot  |-> e.actif, apres |-> AvecEtat(e, autre, "Bon", 0)]

(* which slot to boot, and the record to write BEFORE booting it *)
ChoisitBoot(e) ==
    LET autre == Autre(e.actif)
        info  == e.slots[autre]
    IN  IF info.etat # "Candidat" THEN [slot |-> e.actif, apres |-> e]
        ELSE IF info.essais > 0
             THEN [slot  |-> autre,
                   apres |-> AvecEtat(e, autre, "Candidat", info.essais - 1)]
             ELSE [slot  |-> e.actif, apres |-> AvecEtat(e, autre, "Mauvais", 0)]

(* wrong variant: the slot becomes active but stays a candidate *)
SanteOkSansBon(e, s) ==
    IF e.slots[s].etat = "Candidat"
    THEN [e EXCEPT !.sequence = @ + 1, !.actif = s]
    ELSE e

SanteOk(e, s) ==
    IF e.slots[s].etat = "Candidat"
    THEN [AvecEtat(e, s, "Bon", 0) EXCEPT !.actif = s]
    ELSE e

PeutRevenir(e) == e.slots[Autre(e.actif)].etat = "Bon"

Revient(e) == [sequence |-> e.sequence + 1, actif |-> Autre(e.actif), slots |-> e.slots]

-----------------------------------------------------------------------------
(* The two copies on disk *)

(* decode(): CRC and structure, and the active slot must be Bon *)
Decodable(c) == /\ c # Illisible
                /\ c.slots[c.actif].etat = "Bon"

AucunEnregistrement(c0, c1) == ~Decodable(c0) /\ ~Decodable(c1)

(* the newest valid copy; defined when one copy decodes *)
Selectionne(c0, c1) ==
    IF Decodable(c0) /\ Decodable(c1)
    THEN IF c1.sequence > c0.sequence THEN c1 ELSE c0
    ELSE IF Decodable(c0) THEN c0 ELSE c1

(* wrong variant: overwrites the newest copy *)
CopieAEcrireRecente(c0, c1) ==
    IF Decodable(c0) /\ Decodable(c1)
    THEN IF c0.sequence > c1.sequence THEN 0 ELSE 1
    ELSE IF Decodable(c0) THEN 0 ELSE 1

(* the copy to overwrite: never the newest valid one *)
CopieAEcrire(c0, c1) ==
    IF Decodable(c0) /\ Decodable(c1)
    THEN IF c0.sequence <= c1.sequence THEN 0 ELSE 1
    ELSE IF Decodable(c0) THEN 1 ELSE 0

-----------------------------------------------------------------------------
(* Loader -> kernel handoff, health commit, unconfirmed boots *)

RaisonsRecovery == {"RecoveryRequise", "RecoveryDemandee", "RecoveryEchecsRepetes"}

Raisons == RaisonsRecovery \cup
    {"Actif", "CandidatEssaiConsomme", "RollbackCandidatEpuise",
     "RollbackNonPersiste", "PersistanceImpossibleReplieActif"}

Passage == [slot : Slots, raison : Raisons, sequence_meta : Nat]

(* Ok(None): the booted slot is already the good active slot *)
DejaActif(p, e) == /\ p.raison \notin RaisonsRecovery
                   /\ e.actif = p.slot
                   /\ e.slots[p.slot].etat = "Bon"

(* Ok(Some(sante_ok)): the booted candidate may be promoted *)
PeutPromouvoir(p, e) == /\ p.raison \notin RaisonsRecovery
                        /\ ~DejaActif(p, e)
                        /\ e.sequence = p.sequence_meta      \* MetaChangee
                        /\ e.slots[p.slot].etat = "Candidat"
                        /\ p.raison = "CandidatEssaiConsomme"

(* avant_boot(): too many unconfirmed boots of the active slot *)
VersRecovery(compteur, raison) == raison = "Actif" /\ compteur >= SEUIL

(* wrong variant: an active boot is not counted *)
CompteurJamais(compteur, raison) ==
    IF raison = "RollbackCandidatEpuise" THEN 0 ELSE compteur

(* avant_boot(): the value to write before booting *)
CompteurAvantBoot(compteur, raison) ==
    CASE raison = "RollbackCandidatEpuise" -> 0
      [] raison = "Actif"                  -> compteur + 1
      [] OTHER                             -> compteur

=============================================================================
