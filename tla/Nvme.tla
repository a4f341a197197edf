-------------------------------- MODULE Nvme --------------------------------
(***************************************************************************)
(* I/O commands of the NVMe driver (src/drivers/block/nvme.rs and          *)
(* nvme/suivi.rs): four DMA slots, command identifiers with a quarantine,  *)
(* a submission and a completion ring shared by every task, and a          *)
(* controller that answers late, out of order, or never.  The lock of the  *)
(* rings and the lock of the tracking table are never held together: a     *)
(* completion is read in one step and filed in another.                    *)
(***************************************************************************)
EXTENDS Integers, FiniteSets, Sequences, SequencesExt

CONSTANTS Taches,
          NbEmplacements,  \* EMPLACEMENTS_ES
          NbCid,           \* CID_MAX - 1
          EntreesSq, EntreesCq,   \* ENTREES_ES of each ring
          Lot,             \* LOT_ACHEVEMENTS
          DelaisMax,       \* DELAIS_AVANT_HORS_SERVICE
          MaxCommandes,    \* bound: commands
          Aucun

ASSUME NvmeAssumption ==
    /\ {NbEmplacements, NbCid, EntreesSq, EntreesCq, Lot, DelaisMax} \subseteq Nat \ {0}
    /\ MaxCommandes \in Nat
    /\ EntreesSq > NbEmplacements
    /\ Aucun \notin Nat

VARIABLES
    libres,       \* EMPLACEMENTS_LIBRES
    cid,          \* Suivi: per identifier, its state, its slot, whose status it holds
    curseur,
    sq, queue, tete,       \* submission ring: entries, our tail, the head we know
    cq, cqTete, phase,     \* completion ring: entries, our head, the phase expected
    suite, hors,           \* DELAIS_SUITE, HORS_SERVICE
    tache,        \* per task: step, slot, identifier, command, batch being filed
    numero,       \* names a command for good
    ctl           \* the controller: what it fetched, its positions in both rings

vars == <<libres, cid, curseur, sq, queue, tete, cq, cqTete, phase, suite, hors, tache, numero, ctl>>
suivi == <<cid, curseur>>
anneaux == <<sq, queue, tete, cq, cqTete, phase>>

Emplacements == 0..(NbEmplacements - 1)
Cids == 1..NbCid
Repos == [pas |-> "repos", emplacement |-> Aucun, cid |-> Aucun, commande |-> Aucun, lot |-> <<>>]

Init ==
    /\ libres = Emplacements
    /\ cid = [c \in Cids |-> [etat |-> "libre", emplacement |-> 0, statut |-> 0]]
    /\ curseur = 1
    /\ sq = [i \in 0..(EntreesSq - 1) |-> Aucun] /\ queue = 0 /\ tete = 0
    /\ cq = [i \in 0..(EntreesCq - 1) |-> [phase |-> FALSE, cid |-> 0, commande |-> 0, tete |-> 0]]
    /\ cqTete = 0 /\ phase = TRUE
    /\ suite = 0 /\ hors = FALSE
    /\ tache = [t \in Taches |-> Repos]
    /\ numero = 0
    /\ ctl = [tete |-> 0, enCours |-> {}, cqQueue |-> 0, phase |-> TRUE, cqTete |-> 0, sonnee |-> 0]

Pas(t, p) == tache[t].pas = p
Met(t, r) == tache' = [tache EXCEPT ![t] = r]

----------------------------------------------------------------------------
(* Suivi *)

Allouables == {c \in Cids : cid[c].etat = "libre"}

ApresCid(c) == (c % NbCid) + 1

(* the first free identifier from the cursor, once around *)
Alloue == CHOOSE c \in Allouables : \A d \in Allouables :
            (c - curseur + NbCid) % NbCid <= (d - curseur + NbCid) % NbCid

(* wrong variant: a late completion is handed to whoever owns the identifier *)
RangeTardif(s, a) ==
    IF s.etat \in {"vol", "quarantaine"} THEN [s EXCEPT !.etat = "acheve", !.statut = a.commande] ELSE s

(* what filing a completion does to its identifier; the rejects change nothing *)
RangeUn(s, a) ==
    CASE s.etat = "vol" -> [s EXCEPT !.etat = "acheve", !.statut = a.commande]
      [] s.etat = "quarantaine" -> [s EXCEPT !.etat = "libre"]
      [] OTHER -> s

(* A batch is filed in order.  The first completion of an identifier leaves *)
(* it Acheve or Libre, so that range rejects the others of the batch.       *)
Premier(lot, c) == lot[CHOOSE i \in DOMAIN lot : lot[i].cid = c /\ \A j \in 1..(i - 1) : lot[j].cid # c]

Rangee(lot) ==
    [c \in Cids |-> IF \E i \in DOMAIN lot : lot[i].cid = c THEN RangeUn(cid[c], Premier(lot, c)) ELSE cid[c]]

(* the slots that the late completions of a batch give back *)
Rendus(lot) == {cid[a.cid].emplacement : a \in {a \in ToSet(lot) : cid[a.cid].etat = "quarantaine"}}

----------------------------------------------------------------------------
(* The rings *)

Places == (tete + EntreesSq - queue - 1) % EntreesSq

(* wrong variant: the phase does not flip when the head wraps *)
ApresSansPhase(i) == [tete |-> (cqTete + i) % EntreesCq, phase |-> phase]

(* AnneauAchevement::avance, i times: the phase flips at each turn *)
Apres(i) == [tete |-> (cqTete + i) % EntreesCq,
             phase |-> IF ((cqTete + i) \div EntreesCq) % 2 = 0 THEN phase ELSE ~phase]

Neuve(i) == cq[Apres(i).tete].phase = Apres(i).phase

(* how many entries are new, a batch at most *)
Lues == CHOOSE n \in 0..Lot : (\A i \in 0..(n - 1) : Neuve(i)) /\ (n = Lot \/ ~Neuve(n))

(* A task empties the completion ring, under the lock of the rings ... *)
Draine(t) ==
    /\ tache[t].pas \in {"prend", "attend"} /\ tache[t].lot = <<>>
    /\ Pas(t, "prend") => libres = {}
    /\ Pas(t, "attend") => cid[tache[t].cid].etat # "acheve"
    /\ Lues # 0
    /\ Met(t, [tache[t] EXCEPT !.lot = [i \in 1..Lues |-> cq[Apres(i - 1).tete]]])
    /\ tete' = cq[Apres(Lues - 1).tete].tete
    /\ cqTete' = Apres(Lues).tete /\ phase' = Apres(Lues).phase
    /\ ctl' = [ctl EXCEPT !.cqTete = cqTete']
    /\ UNCHANGED <<libres, suivi, sq, queue, cq, suite, hors, numero>>

(* ... and files the batch afterwards, under the lock of the table *)
RangeLeLot(t) ==
    /\ tache[t].lot # <<>>
    /\ cid' = Rangee(tache[t].lot)
    /\ libres' = libres \cup Rendus(tache[t].lot)
    /\ Met(t, [tache[t] EXCEPT !.lot = <<>>])
    /\ UNCHANGED <<curseur, anneaux, suite, hors, numero, ctl>>

----------------------------------------------------------------------------
(* A request *)

Demande(t) ==
    /\ Pas(t, "repos") /\ ~hors /\ numero < MaxCommandes
    /\ Met(t, [tache[t] EXCEPT !.pas = "prend", !.commande = numero + 1])
    /\ numero' = numero + 1
    /\ UNCHANGED <<libres, suivi, anneaux, suite, hors, ctl>>

(* the lowest free slot; a slot whose buffer is in quarantine is kept out of the pot *)
Prend(t) ==
    /\ Pas(t, "prend") /\ tache[t].lot = <<>> /\ libres # {}
    /\ LET e == CHOOSE e \in libres : \A f \in libres : e <= f
       IN /\ libres' = libres \ {e}
          /\ IF \E c \in Cids : cid[c].etat = "quarantaine" /\ cid[c].emplacement = e
             THEN Met(t, Repos)
             ELSE Met(t, [tache[t] EXCEPT !.pas = "pret", !.emplacement = e])
    /\ UNCHANGED <<suivi, anneaux, suite, hors, numero, ctl>>

(* wrong variant: the wait for a slot has no deadline *)
RenonceJamais(t) == FALSE /\ UNCHANGED vars

(* no slot within LIMITE_JETON_MS *)
Renonce(t) ==
    /\ Pas(t, "prend") /\ tache[t].lot = <<>> /\ libres = {}
    /\ Met(t, Repos)
    /\ UNCHANGED <<libres, suivi, anneaux, suite, hors, numero, ctl>>

Identifie(t) ==
    /\ Pas(t, "pret")
    /\ IF Allouables = {}
       THEN Met(t, Repos) /\ libres' = libres \cup {tache[t].emplacement} /\ UNCHANGED suivi
       ELSE /\ cid' = [cid EXCEPT ![Alloue] = [etat |-> "vol", emplacement |-> tache[t].emplacement, statut |-> 0]]
            /\ curseur' = ApresCid(Alloue)
            /\ Met(t, [tache[t] EXCEPT !.pas = "soumet", !.cid = Alloue])
            /\ UNCHANGED libres
    /\ UNCHANGED <<anneaux, suite, hors, numero, ctl>>

(* pose and doorbell; a full ring refuses, and the identifier stays taken *)
Soumet(t) ==
    /\ Pas(t, "soumet")
    /\ IF Places = 0
       THEN /\ Met(t, Repos) /\ libres' = libres \cup {tache[t].emplacement}
            /\ UNCHANGED <<sq, queue, ctl>>
       ELSE /\ sq' = [sq EXCEPT ![queue] = [cid |-> tache[t].cid, commande |-> tache[t].commande,
                                            emplacement |-> tache[t].emplacement]]
            /\ queue' = (queue + 1) % EntreesSq
            /\ ctl' = [ctl EXCEPT !.sonnee = queue']
            /\ Met(t, [tache[t] EXCEPT !.pas = "attend"])
            /\ UNCHANGED libres
    /\ UNCHANGED <<suivi, tete, cq, cqTete, phase, suite, hors, numero>>

(* the status is collected; the request goes on with its next batch, or ends *)
Recolte(t) ==
    /\ Pas(t, "attend") /\ tache[t].lot = <<>> /\ cid[tache[t].cid].etat = "acheve"
    /\ cid' = [cid EXCEPT ![tache[t].cid] = [@ EXCEPT !.etat = "libre", !.statut = 0]]
    /\ \/ /\ numero < MaxCommandes /\ numero' = numero + 1
          /\ Met(t, [tache[t] EXCEPT !.pas = "pret", !.cid = Aucun, !.commande = numero + 1])
          /\ UNCHANGED <<libres, suite>>
       \/ /\ Met(t, Repos) /\ libres' = libres \cup {tache[t].emplacement}
          /\ suite' \in {0, suite} /\ UNCHANGED numero
    /\ UNCHANGED <<curseur, anneaux, hors, ctl>>

(* wrong variant: only the identifier is kept, the slot goes back to the pot *)
ExpireRend(t) ==
    /\ Pas(t, "attend") /\ tache[t].lot = <<>> /\ cid[tache[t].cid].etat = "vol"
    /\ cid' = [cid EXCEPT ![tache[t].cid].etat = "quarantaine"]
    /\ libres' = libres \cup {tache[t].emplacement}
    /\ suite' = suite + 1
    /\ hors' = (hors \/ suite' >= DelaisMax)
    /\ Met(t, Repos)
    /\ UNCHANGED <<curseur, anneaux, numero, ctl>>

(* The deadline passes: quarantine, and the slot stays out of the pot.  When  *)
(* the completion was filed in between, expire refuses and Recolte goes on.   *)
Expire(t) ==
    /\ Pas(t, "attend") /\ tache[t].lot = <<>> /\ cid[tache[t].cid].etat = "vol"
    /\ cid' = [cid EXCEPT ![tache[t].cid].etat = "quarantaine"]
    /\ suite' = suite + 1
    /\ \E fatal \in BOOLEAN : hors' = (hors \/ fatal \/ suite' >= DelaisMax)
    /\ Met(t, Repos)
    /\ UNCHANGED <<libres, curseur, anneaux, numero, ctl>>

----------------------------------------------------------------------------
(* The controller (external) *)

Lit ==
    /\ ctl.tete # ctl.sonnee
    /\ ctl' = [ctl EXCEPT !.tete = (@ + 1) % EntreesSq, !.enCours = @ \cup {sq[ctl.tete]}]
    /\ UNCHANGED <<libres, suivi, anneaux, suite, hors, tache, numero>>

(* any command it fetched, in any order, while the completion ring has room *)
Repond ==
    /\ (ctl.cqQueue + 1) % EntreesCq # ctl.cqTete
    /\ \E c \in ctl.enCours :
        /\ cq' = [cq EXCEPT ![ctl.cqQueue] =
                    [phase |-> ctl.phase, cid |-> c.cid, commande |-> c.commande, tete |-> ctl.tete]]
        /\ ctl' = [ctl EXCEPT !.enCours = @ \ {c}, !.cqQueue = (@ + 1) % EntreesCq,
                              !.phase = IF ctl.cqQueue + 1 = EntreesCq THEN ~@ ELSE @]
    /\ UNCHANGED <<libres, suivi, sq, queue, tete, cqTete, phase, suite, hors, tache, numero>>

Tache(t) ==
    \/ Demande(t) \/ Prend(t) \/ Renonce(t) \/ Identifie(t) \/ Soumet(t)
    \/ Draine(t) \/ RangeLeLot(t) \/ Recolte(t) \/ Expire(t)

Next == (\E t \in Taches : Tache(t)) \/ Lit \/ Repond

Spec == Init /\ [][Next]_vars

(* the waits of the driver are bounded: a task that has begun goes on *)
Avance(t) == Prend(t) \/ Renonce(t) \/ Identifie(t) \/ Soumet(t) \/ RangeLeLot(t) \/ Recolte(t) \/ Expire(t)
FairSpec == Spec /\ \A t \in Taches : WF_vars(Avance(t))

----------------------------------------------------------------------------
(* commands the controller may still execute: rung and unread, or fetched *)
AuControleur ==
    ctl.enCours \cup
    {sq[i] : i \in {i \in 0..(EntreesSq - 1) :
        (i - ctl.tete + EntreesSq) % EntreesSq < (ctl.sonnee - ctl.tete + EntreesSq) % EntreesSq}}

(* Types; the cursor, the tail and the heads stay within their rings.           *)
Commandes == 1..MaxCommandes
Ordres == [cid : Cids, commande : Commandes, emplacement : Emplacements]
Reponses == [phase : BOOLEAN, cid : 0..NbCid, commande : 0..MaxCommandes, tete : 0..(EntreesSq - 1)]

TypeOK ==
    /\ libres \subseteq Emplacements
    /\ cid \in [Cids -> [etat : {"libre", "vol", "acheve", "quarantaine"}, emplacement : Emplacements,
                         statut : 0..MaxCommandes]]
    /\ curseur \in Cids
    /\ sq \in [0..(EntreesSq - 1) -> Ordres \cup {Aucun}]
    /\ queue \in 0..(EntreesSq - 1) /\ tete \in 0..(EntreesSq - 1)
    /\ cq \in [0..(EntreesCq - 1) -> Reponses]
    /\ cqTete \in 0..(EntreesCq - 1) /\ phase \in BOOLEAN
    /\ suite \in Nat /\ hors \in BOOLEAN
    /\ tache \in [Taches -> [pas : {"repos", "prend", "pret", "soumet", "attend"},
                             emplacement : Emplacements \cup {Aucun}, cid : Cids \cup {Aucun},
                             commande : Commandes \cup {Aucun}, lot : Seq(Reponses)]]
    /\ numero \in 0..MaxCommandes
    /\ ctl \in [tete : 0..(EntreesSq - 1), enCours : SUBSET Ordres, cqQueue : 0..(EntreesCq - 1),
                phase : BOOLEAN, cqTete : 0..(EntreesCq - 1), sonnee : 0..(EntreesSq - 1)]

(* What an emitter collects is the completion of ITS command: neither the late  *)
(* answer to a command abandoned under the same identifier, nor an entry of the *)
(* previous turn of the ring.                                                   *)
AchevementASonEmetteur ==
    \A t \in Taches : (Pas(t, "attend") /\ cid[tache[t].cid].etat = "acheve")
                        => cid[tache[t].cid].statut = tache[t].commande

(* A DMA buffer belongs to one command: as long as the controller may execute a *)
(* command, its slot is not in the pot and nobody else fills or reads it.       *)
TamponSur ==
    \A c \in AuControleur :
        /\ c.emplacement \notin libres
        /\ \A t \in Taches : tache[t].emplacement = c.emplacement => tache[t].commande = c.commande

(* No slot is lost nor lent twice: it is in the pot, or held by one task, or    *)
(* retained by one abandoned command.                                           *)
EmplacementsConserves ==
    \A e \in Emplacements :
        Cardinality({t \in Taches : tache[t].emplacement = e})
        + Cardinality({c \in Cids : cid[c].etat = "quarantaine" /\ cid[c].emplacement = e})
        + (IF e \in libres THEN 1 ELSE 0) = 1

(* No identifier is lost either: one that is taken is waited for by its task,   *)
(* or is retained by a command whose completion is still to come.  (A full      *)
(* submission ring would lose one: it never is, being longer than the slots.)   *)
SansFuite ==
    /\ EmplacementsConserves
    /\ \A c \in Cids :
        /\ cid[c].etat \in {"vol", "acheve"} => \E t \in Taches : tache[t].cid = c
        /\ cid[c].etat = "quarantaine" =>
            \/ \E x \in AuControleur : x.cid = c
            \/ \E t \in Taches : \E a \in ToSet(tache[t].lot) : a.cid = c
            \/ \E i \in DOMAIN cq : /\ cq[i].cid = c
                                    /\ (i - cqTete + EntreesCq) % EntreesCq
                                        < (ctl.cqQueue - cqTete + EntreesCq) % EntreesCq

(* A request ends, even on a controller that answers nothing. *)
RequeteFinit == \A t \in Taches : Pas(t, "prend") ~> Pas(t, "repos")

=============================================================================
