----------------------------- MODULE NvmeProofs -----------------------------
(***************************************************************************)
(* What holds of Nvme for any number of tasks, slots, identifiers, ring    *)
(* entries and commands: an emitter collects the completion of its own     *)
(* command (AchevementASonEmetteur), the buffer of a command the           *)
(* controller may still execute is nobody else's (TamponSur), and neither  *)
(* a slot nor an identifier is lost (SansFuite).                           *)
(*                                                                         *)
(* The argument: a command that was rung and not filed is at exactly one   *)
(* place, the submission ring, the controller, the completion ring or a    *)
(* batch; `ou` says which, per identifier, and `com` which command it is.  *)
(* Hence its identifier is in flight or in quarantine.  The head that the  *)
(* controller publishes never passes a command whose completion was not    *)
(* drained, so the commands between that head and our tail hold distinct   *)
(* slots, and the submission ring, longer than the slots, is never full.   *)
(***************************************************************************)
EXTENDS Nvme, FiniteSetTheorems, SequenceTheorems, WellFoundedInduction, TLAPS

Sq == 0..(EntreesSq - 1)
Cq == 0..(EntreesCq - 1)

(* how far i is after h on a ring of n entries *)
Ecart(i, h, n) == IF i >= h THEN i - h ELSE i - h + n

(* the entry d after h *)
Entree(h, d, n) == IF h + d < n THEN h + d ELSE h + d - n

DSq(i) == Ecart(i, tete, EntreesSq)
DCq(i) == Ecart(i, cqTete, EntreesCq)

(* from the head the driver knows: fetched, rung and not fetched *)
Lue(i) == DSq(i) < DSq(ctl.tete)
Posee(i) == DSq(ctl.tete) <= DSq(i) /\ DSq(i) < DSq(queue)

(* posted and not drained; the phase that such an entry has *)
Achevee(i) == DCq(i) < DCq(ctl.cqQueue)
Attendue(i) == IF i >= cqTete THEN phase ELSE ~phase

(* the places of a command *)
Hors == <<"nul", 0, 0>>
EnSq(i) == <<"sq", i, 0>>
AuCtl == <<"ctl", 0, 0>>
EnCq(i) == <<"cq", i, 0>>
EnLot(t, k) == <<"lot", t, k>>

Lieux == {Hors, AuCtl} \cup {EnSq(i) : i \in Sq} \cup {EnCq(i) : i \in Cq}
         \cup {EnLot(t, k) : t \in Taches, k \in Nat}

(* what a place holds is what ou and com say of its identifier *)
Porte(ou, com) ==
    /\ \A i \in Sq : Posee(i) => /\ sq[i] \in Ordres /\ ou[sq[i].cid] = EnSq(i)
                                 /\ sq[i].commande = com[sq[i].cid]
                                 /\ sq[i].emplacement = cid[sq[i].cid].emplacement
    /\ \A x \in ctl.enCours : /\ ou[x.cid] = AuCtl /\ x.commande = com[x.cid]
                              /\ x.emplacement = cid[x.cid].emplacement
    /\ \A i \in Cq : Achevee(i) => /\ cq[i].cid \in Cids /\ ou[cq[i].cid] = EnCq(i)
                                   /\ cq[i].commande = com[cq[i].cid]
    /\ \A t \in Taches : \A k \in 1..Len(tache[t].lot) :
          LET a == tache[t].lot[k] IN a.cid \in Cids /\ ou[a.cid] = EnLot(t, k) /\ a.commande = com[a.cid]

(* and an identifier that is somewhere is there *)
Occupe(ou) ==
    \A c \in Cids :
        \/ ou[c] = Hors
        \/ \E i \in Sq : Posee(i) /\ sq[i].cid = c
        \/ \E x \in ctl.enCours : x.cid = c
        \/ \E i \in Cq : Achevee(i) /\ cq[i].cid = c
        \/ \E t \in Taches : \E k \in 1..Len(tache[t].lot) : tache[t].lot[k].cid = c

(* where the controller is with it: fetched, or posted after distance d *)
Suivi(ou, c, d) == ou[c] = AuCtl \/ \E j \in Cq : Achevee(j) /\ d < DCq(j) /\ ou[c] = EnCq(j)

(* the submission ring *)
SqInv(ou) ==
    /\ ctl.sonnee = queue /\ DSq(ctl.tete) <= DSq(queue)
    /\ \A i \in Sq : Lue(i) => sq[i] \in Ordres /\ Suivi(ou, sq[i].cid, -1)
    /\ \A i, j \in Sq : DSq(i) < DSq(queue) /\ DSq(j) < DSq(queue) /\ sq[i].cid = sq[j].cid => i = j
    /\ \A j \in Cq : Achevee(j) =>
          /\ DSq(cq[j].tete) <= DSq(ctl.tete)
          /\ \A i \in Sq : Lue(i) /\ DSq(cq[j].tete) <= DSq(i) => Suivi(ou, sq[i].cid, DCq(j))
    /\ \A j, k \in Cq : Achevee(j) /\ Achevee(k) /\ DCq(j) <= DCq(k) => DSq(cq[j].tete) <= DSq(cq[k].tete)

(* the completion ring: the phase tells what is new *)
PhaseInv ==
    /\ ctl.cqTete = cqTete /\ ctl.phase = Attendue(ctl.cqQueue)
    /\ \A i \in Cq : cq[i].phase = Attendue(i) <=> Achevee(i)

(* what a task holds at each step *)
PasInv ==
    \A t \in Taches :
        /\ tache[t].cid # Aucun <=> tache[t].pas \in {"soumet", "attend"}
        /\ tache[t].emplacement # Aucun <=> tache[t].pas \in {"pret", "soumet", "attend"}
        /\ tache[t].commande # Aucun <=> tache[t].pas # "repos"
        /\ tache[t].pas \notin {"prend", "attend"} => tache[t].lot = <<>>

(* the table of identifiers *)
TableInv(ou, com) ==
    /\ \A c \in Cids :
          /\ cid[c].etat \in {"libre", "acheve"} => ou[c] = Hors
          /\ cid[c].etat = "quarantaine" => ou[c] # Hors
          /\ cid[c].etat \in {"vol", "acheve"} <=> \E t \in Taches : tache[t].cid = c
    /\ \A t \in Taches : LET c == tache[t].cid IN
          /\ tache[t].pas = "soumet" => cid[c].etat = "vol" /\ ou[c] = Hors
          /\ tache[t].pas = "attend" /\ cid[c].etat = "vol" => ou[c] # Hors /\ com[c] = tache[t].commande
          /\ tache[t].pas = "attend" /\ cid[c].etat = "acheve" => cid[c].statut = tache[t].commande
          /\ c # Aucun => cid[c].emplacement = tache[t].emplacement
    /\ \A t, u \in Taches : t # u /\ tache[t].cid # Aucun => tache[t].cid # tache[u].cid

(* the slots *)
SlotInv ==
    /\ \A t, u \in Taches : t # u /\ tache[t].emplacement # Aucun => tache[t].emplacement # tache[u].emplacement
    /\ \A t \in Taches : tache[t].emplacement \notin libres
    /\ \A c \in Cids : cid[c].etat = "quarantaine" =>
          cid[c].emplacement \notin libres /\ \A t \in Taches : tache[t].emplacement # cid[c].emplacement
    /\ \A c, d \in Cids : cid[c].etat = "quarantaine" /\ cid[d].etat = "quarantaine"
                            /\ cid[c].emplacement = cid[d].emplacement => c = d
    /\ \A e \in Emplacements : \/ e \in libres
                               \/ \E t \in Taches : tache[t].emplacement = e
                               \/ \E c \in Cids : cid[c].etat = "quarantaine" /\ cid[c].emplacement = e

Suivies == [Cids -> Lieux] \X [Cids -> 0..MaxCommandes]

Inv(ou, com) == Porte(ou, com) /\ Occupe(ou) /\ SqInv(ou) /\ TableInv(ou, com)

IInv == TypeOK /\ PhaseInv /\ PasInv /\ SlotInv /\ \E s \in Suivies : Inv(s[1], s[2])

----------------------------------------------------------------------------
(* Arithmetic of the rings *)

(* a remainder within two turns *)
LEMMA ModPetit ==
    ASSUME NEW n \in Nat \ {0}, NEW x \in 0..(2 * n - 1)
    PROVE  /\ x % n = IF x < n THEN x ELSE x - n
           /\ x \div n = IF x < n THEN 0 ELSE 1
<1> DEFINE q == x \div n
           r == x % n
<1>1. q \in Int /\ r \in 0..(n - 1) /\ x = n * q + r
  OBVIOUS
<1> HIDE DEF q, r
<1>2. q >= 0
  <2>1. SUFFICES ASSUME q <= -1 PROVE FALSE
    BY <1>1
  <2>2. n * q <= n * (-1)
    BY <1>1, <2>1
  <2> QED BY <1>1, <2>2
<1>3. q <= 1
  <2>1. SUFFICES ASSUME q >= 2 PROVE FALSE
    BY <1>1
  <2>2. n * q >= n * 2
    BY <1>1, <2>1
  <2> QED BY <1>1, <2>2
<1>4. q = 0 \/ q = 1
  BY <1>1, <1>2, <1>3
<1>5. CASE q = 0
  <2>1. x = r
    BY <1>1, <1>5
  <2> QED BY <1>1, <1>5, <2>1 DEF q, r
<1>6. CASE q = 1
  <2>1. x = n + r
    BY <1>1, <1>6
  <2> QED BY <1>1, <1>6, <2>1 DEF q, r
<1> QED BY <1>4, <1>5, <1>6

(* how far an entry is, as the properties compute it *)
LEMMA EcartMod ==
    ASSUME NEW n \in Nat \ {0}, NEW h \in 0..(n - 1), NEW i \in 0..(n - 1)
    PROVE  (i - h + n) % n = Ecart(i, h, n)
<1> DEFINE x == i - h + n
<1>1. x \in 0..(2 * n - 1)
  OBVIOUS
<1> HIDE DEF x
<1>2. x % n = IF x < n THEN x ELSE x - n
  BY <1>1, ModPetit
<1> QED BY <1>2 DEF x, Ecart

(* distances on a ring, in linear form *)
LEMMA EcartFaits ==
    ASSUME NEW n \in Nat \ {0}, NEW h \in 0..(n - 1)
    PROVE  /\ \A i \in 0..(n - 1) : Ecart(i, h, n) \in 0..(n - 1) /\ Entree(h, Ecart(i, h, n), n) = i
           /\ \A d \in 0..(n - 1) : Entree(h, d, n) \in 0..(n - 1) /\ Ecart(Entree(h, d, n), h, n) = d
           /\ Ecart(h, h, n) = 0
           /\ \A i, j \in 0..(n - 1) : Ecart(i, h, n) = Ecart(j, h, n) => i = j
BY DEF Ecart, Entree

(* the next entry *)
LEMMA SuivantFaits ==
    ASSUME NEW n \in Nat \ {0}, NEW h \in 0..(n - 1), NEW i \in 0..(n - 1)
    PROVE  /\ (i + 1) % n \in 0..(n - 1)
           /\ (i + 1) % n # h => Ecart((i + 1) % n, h, n) = Ecart(i, h, n) + 1
           /\ (i + 1) % n = h => Ecart(i, h, n) = n - 1
           /\ (i + 1) % n = IF i + 1 = n THEN 0 ELSE i + 1
<1> DEFINE x == i + 1
<1>1. x \in 0..(2 * n - 1)
  OBVIOUS
<1> HIDE DEF x
<1>2. x % n = IF x < n THEN x ELSE x - n
  BY <1>1, ModPetit
<1>3. (i + 1) % n = IF i + 1 = n THEN 0 ELSE i + 1
  BY <1>2 DEF x
<1> QED BY <1>3 DEF Ecart

(* the distances from a later head *)
LEMMA EcartDecale ==
    ASSUME NEW n \in Nat \ {0}, NEW h \in 0..(n - 1), NEW g \in 0..(n - 1), NEW i \in 0..(n - 1)
    PROVE  Ecart(i, g, n) = IF Ecart(g, h, n) <= Ecart(i, h, n) THEN Ecart(i, h, n) - Ecart(g, h, n)
                            ELSE Ecart(i, h, n) - Ecart(g, h, n) + n
BY DEF Ecart

(* the places of a command are distinct *)
LEMMA LieuxDistincts ==
    /\ \A i : EnSq(i) # Hors /\ EnSq(i) # AuCtl /\ EnCq(i) # Hors /\ EnCq(i) # AuCtl
    /\ AuCtl # Hors
    /\ \A t, k : EnLot(t, k) # Hors /\ EnLot(t, k) # AuCtl
    /\ \A i, j : /\ EnSq(i) # EnCq(j) /\ (EnSq(i) = EnSq(j) => i = j) /\ (EnCq(i) = EnCq(j) => i = j)
    /\ \A i, t, k : EnSq(i) # EnLot(t, k) /\ EnCq(i) # EnLot(t, k)
    /\ \A t, k, u, l : EnLot(t, k) = EnLot(u, l) => t = u /\ k = l
BY DEF EnSq, EnCq, EnLot, Hors, AuCtl

(* and they are places *)
LEMMA LieuxTypes ==
    /\ Hors \in Lieux /\ AuCtl \in Lieux
    /\ \A i \in Sq : EnSq(i) \in Lieux
    /\ \A i \in Cq : EnCq(i) \in Lieux
    /\ \A t \in Taches, k \in Nat : EnLot(t, k) \in Lieux
BY DEF Lieux

(* the sizes of the rings *)
LEMMA Tailles ==
    /\ EntreesSq \in Nat \ {0} /\ EntreesCq \in Nat \ {0} /\ NbCid \in Nat \ {0} /\ NbEmplacements \in Nat \ {0}
    /\ Lot \in Nat \ {0} /\ EntreesSq > NbEmplacements /\ MaxCommandes \in Nat
    /\ Aucun \notin Cids /\ Aucun \notin Emplacements /\ Aucun \notin Commandes
BY NvmeAssumption DEF Cids, Emplacements, Commandes

(* a set of naturals that is not empty has a least element *)
LEMMA Minimum ==
    ASSUME NEW S \in SUBSET Nat, S # {}
    PROVE  \E m \in S : \A x \in S : m <= x
<1>1. \E m \in S : \A x \in S : ~(<<x, m>> \in OpToRel(<, Nat))
  BY NatLessThanWellFounded, WFMin, Zenon
<1>2. \A x, m \in Nat : ~(<<x, m>> \in OpToRel(<, Nat)) => m <= x
  BY DEF OpToRel
<1> QED BY <1>1, <1>2, Zenon

(* alloue returns a free identifier when there is one *)
LEMMA AlloueFaits ==
    ASSUME TypeOK, Allouables # {}
    PROVE  Alloue \in Cids /\ cid[Alloue].etat = "libre" /\ ApresCid(Alloue) \in Cids
<1> DEFINE d(c) == (c - curseur + NbCid) % NbCid
           S == {d(c) : c \in Allouables}
<1>1. \A c \in Cids : d(c) \in Nat
  BY Tailles DEF TypeOK, Cids
<1>2. S \in SUBSET Nat /\ S # {}
  BY <1>1 DEF Allouables
<1>3. PICK m \in S : \A x \in S : m <= x
  BY <1>2, Minimum
<1>4. PICK c \in Allouables : m = d(c)
  OBVIOUS
<1>5. \A e \in Allouables : d(c) <= d(e)
  BY <1>3, <1>4
<1>6. Alloue \in Allouables
  BY <1>4, <1>5 DEF Alloue
<1>7. Alloue \in Cids /\ cid[Alloue].etat = "libre"
  BY <1>6 DEF Allouables
<1>8. \A e \in Cids : e % NbCid \in 0..(NbCid - 1)
  BY Tailles DEF Cids
<1> QED BY <1>7, <1>8, Tailles DEF ApresCid, Cids

----------------------------------------------------------------------------
(* What the invariant says *)

(* distances from the heads are within the rings *)
LEMMA Distances ==
    ASSUME TypeOK
    PROVE  /\ \A i \in Sq : DSq(i) \in Sq
           /\ \A i \in Cq : DCq(i) \in Cq
           /\ \A i, j \in Sq : DSq(i) = DSq(j) => i = j
           /\ \A i, j \in Cq : DCq(i) = DCq(j) => i = j
           /\ tete \in Sq /\ queue \in Sq /\ ctl.tete \in Sq /\ ctl.sonnee \in Sq
           /\ cqTete \in Cq /\ ctl.cqQueue \in Cq /\ ctl.cqTete \in Cq
           /\ \A i \in Sq : sq[i] \in Ordres => sq[i].cid \in Cids
BY Tailles, EcartFaits DEF TypeOK, Sq, Cq, DSq, DCq, Ordres

(* the range the properties read is the commands rung and not fetched *)
LEMMA PoseesFaits ==
    ASSUME TypeOK, ctl.sonnee = queue, DSq(ctl.tete) <= DSq(queue), NEW i \in Sq
    PROVE  /\ (i - ctl.tete + EntreesSq) % EntreesSq < (ctl.sonnee - ctl.tete + EntreesSq) % EntreesSq <=> Posee(i)
           /\ Ecart(i, ctl.tete, EntreesSq) < Ecart(queue, ctl.tete, EntreesSq) <=> Posee(i)
<1>1. tete \in Sq /\ queue \in Sq /\ ctl.tete \in Sq
  BY Distances
<1>2. /\ (i - ctl.tete + EntreesSq) % EntreesSq = Ecart(i, ctl.tete, EntreesSq)
      /\ (ctl.sonnee - ctl.tete + EntreesSq) % EntreesSq = Ecart(queue, ctl.tete, EntreesSq)
  BY <1>1, Tailles, EcartMod DEF Sq
<1>3. Ecart(i, ctl.tete, EntreesSq) < Ecart(queue, ctl.tete, EntreesSq) <=> Posee(i)
  BY <1>1, Tailles DEF Posee, DSq, Ecart, Sq
<1> QED BY <1>2, <1>3

(* a command at the controller holds its identifier, and its number is known *)
LEMMA AuControleurFaits ==
    ASSUME TypeOK, NEW ou, NEW com, Porte(ou, com), SqInv(ou), NEW x \in AuControleur
    PROVE  /\ x \in Ordres /\ ou[x.cid] # Hors /\ x.commande = com[x.cid]
           /\ x.emplacement = cid[x.cid].emplacement
<1>1. CASE x \in ctl.enCours
  BY <1>1, LieuxDistincts DEF Porte, TypeOK
<1>2. CASE x \notin ctl.enCours
  <2>1. PICK i \in Sq : /\ x = sq[i]
                        /\ (i - ctl.tete + EntreesSq) % EntreesSq
                            < (ctl.sonnee - ctl.tete + EntreesSq) % EntreesSq
    BY <1>2 DEF AuControleur, Sq
  <2>2. Posee(i)
    BY <2>1, PoseesFaits DEF SqInv
  <2> QED BY <2>1, <2>2, LieuxDistincts DEF Porte
<1> QED BY <1>1, <1>2

(* a taken identifier has its slot for itself *)
LEMMA EmplacementsDesCids ==
    ASSUME TypeOK, PasInv, SlotInv, NEW ou, NEW com, TableInv(ou, com),
           NEW c \in Cids, cid[c].etat # "libre"
    PROVE  /\ cid[c].emplacement \in Emplacements /\ cid[c].emplacement \notin libres
           /\ \A t \in Taches : tache[t].emplacement = cid[c].emplacement => tache[t].cid = c
           /\ \A d \in Cids : cid[d].etat # "libre" /\ cid[d].emplacement = cid[c].emplacement => d = c
<1>1. \A d \in Cids : /\ cid[d].emplacement \in Emplacements
                      /\ cid[d].etat \in {"libre", "vol", "acheve", "quarantaine"}
  BY DEF TypeOK
<1>2. \A d \in Cids : cid[d].etat \in {"vol", "acheve"} =>
          \E t \in Taches : tache[t].cid = d /\ tache[t].emplacement = cid[d].emplacement
  BY Tailles DEF TableInv
<1>3. CASE cid[c].etat = "quarantaine"
  <2>1. \A t \in Taches : tache[t].emplacement # cid[c].emplacement
    BY <1>3 DEF SlotInv
  <2> QED BY <1>1, <1>2, <1>3, <2>1 DEF SlotInv
<1>4. CASE cid[c].etat \in {"vol", "acheve"}
  <2>1. PICK t \in Taches : tache[t].cid = c /\ tache[t].emplacement = cid[c].emplacement
    BY <1>2, <1>4
  <2>2. tache[t].emplacement # Aucun
    BY <1>1, <2>1, Tailles
  <2>3. \A u \in Taches : tache[u].emplacement = cid[c].emplacement => u = t
    BY <2>1, <2>2 DEF SlotInv
  <2>4. \A d \in Cids : cid[d].etat = "quarantaine" => cid[d].emplacement # cid[c].emplacement
    BY <2>1 DEF SlotInv
  <2> QED BY <1>1, <1>2, <2>1, <2>3, <2>4 DEF SlotInv
<1> QED BY <1>1, <1>3, <1>4

(* a set with no element, with one *)
LEMMA AuPlusUn ==
    ASSUME NEW S, \A x, y \in S : x = y
    PROVE  /\ S = {} => Cardinality(S) = 0
           /\ S # {} => Cardinality(S) = 1
<1>1. Cardinality({}) = 0
  BY FS_EmptySet
<1>2. ASSUME NEW x \in S PROVE Cardinality(S) = 1
  <2>1. S = {x}
    OBVIOUS
  <2> QED BY <2>1, FS_Singleton
<1> QED BY <1>1, <1>2

(* What an emitter collects is its own command: the table says so. *)
LEMMA AchevementSuit ==
    ASSUME IInv
    PROVE  AchevementASonEmetteur
<1>1. PICK s \in Suivies : Inv(s[1], s[2])
  BY DEF IInv
<1> QED BY <1>1 DEF Inv, TableInv, AchevementASonEmetteur, Pas

(* A command at the controller has its identifier, hence its slot, for itself. *)
LEMMA TamponSuit ==
    ASSUME IInv
    PROVE  TamponSur
<1>1. PICK s \in Suivies : Inv(s[1], s[2])
  BY DEF IInv
<1> DEFINE ou == s[1]
           com == s[2]
<1>2. TypeOK /\ PasInv /\ SlotInv /\ Porte(ou, com) /\ SqInv(ou) /\ TableInv(ou, com)
  BY <1>1 DEF IInv, Inv
<1> HIDE DEF ou, com
<1>3. SUFFICES ASSUME NEW x \in AuControleur
               PROVE  /\ x.emplacement \notin libres
                      /\ \A t \in Taches : tache[t].emplacement = x.emplacement => tache[t].commande = x.commande
  BY DEF TamponSur
<1>4. x \in Ordres /\ ou[x.cid] # Hors /\ x.commande = com[x.cid] /\ x.emplacement = cid[x.cid].emplacement
  BY <1>2, AuControleurFaits
<1>5. x.cid \in Cids /\ cid[x.cid].etat \in {"vol", "quarantaine"}
  BY <1>2, <1>4 DEF TableInv, TypeOK, Ordres
<1>6. x.emplacement \notin libres /\ \A t \in Taches : tache[t].emplacement = x.emplacement => tache[t].cid = x.cid
  BY <1>2, <1>4, <1>5, EmplacementsDesCids
<1>7. ASSUME NEW t \in Taches, tache[t].emplacement = x.emplacement PROVE tache[t].commande = x.commande
  <2>1. tache[t].cid = x.cid /\ tache[t].cid # Aucun
    BY <1>5, <1>6, <1>7, Tailles
  <2>2. tache[t].pas \in {"soumet", "attend"} /\ cid[x.cid].etat = "vol"
    BY <1>2, <1>5, <2>1 DEF PasInv, TableInv
  <2> QED BY <1>2, <1>4, <2>1, <2>2 DEF TableInv
<1> QED BY <1>6, <1>7

(* Slots are held once, and a retained identifier is somewhere. *)
LEMMA FuiteSuit ==
    ASSUME IInv
    PROVE  SansFuite
<1>1. PICK s \in Suivies : Inv(s[1], s[2])
  BY DEF IInv
<1> DEFINE ou == s[1]
           com == s[2]
<1>2. TypeOK /\ SlotInv /\ Occupe(ou) /\ SqInv(ou) /\ TableInv(ou, com)
  BY <1>1 DEF IInv, Inv
<1> HIDE DEF ou, com
<1>3. ASSUME NEW e \in Emplacements
      PROVE  Cardinality({t \in Taches : tache[t].emplacement = e})
             + Cardinality({c \in Cids : cid[c].etat = "quarantaine" /\ cid[c].emplacement = e})
             + (IF e \in libres THEN 1 ELSE 0) = 1
  <2> DEFINE A == {t \in Taches : tache[t].emplacement = e}
             B == {c \in Cids : cid[c].etat = "quarantaine" /\ cid[c].emplacement = e}
  <2>1. e # Aucun
    BY Tailles
  <2>2. \A t, u \in A : t = u
    BY <1>2, <2>1 DEF SlotInv
  <2>3. \A c, d \in B : c = d
    BY <1>2 DEF SlotInv
  <2>4. /\ A # {} => B = {} /\ e \notin libres
        /\ B # {} => e \notin libres
        /\ A # {} \/ B # {} \/ e \in libres
    BY <1>2 DEF SlotInv
  <2> HIDE DEF A, B
  <2>5. (A = {} => Cardinality(A) = 0) /\ (A # {} => Cardinality(A) = 1)
    BY <2>2, AuPlusUn
  <2>6. (B = {} => Cardinality(B) = 0) /\ (B # {} => Cardinality(B) = 1)
    BY <2>3, AuPlusUn
  <2>7. Cardinality(A) + Cardinality(B) + (IF e \in libres THEN 1 ELSE 0) = 1
    BY <2>4, <2>5, <2>6
  <2> QED BY <2>7 DEF A, B
<1>4. ASSUME NEW c \in Cids, cid[c].etat = "quarantaine"
      PROVE  \/ \E x \in AuControleur : x.cid = c
             \/ \E t \in Taches : \E a \in ToSet(tache[t].lot) : a.cid = c
             \/ \E i \in DOMAIN cq : /\ cq[i].cid = c
                                     /\ (i - cqTete + EntreesCq) % EntreesCq
                                         < (ctl.cqQueue - cqTete + EntreesCq) % EntreesCq
  <2>1. ou[c] # Hors
    BY <1>2, <1>4 DEF TableInv
  <2>2. CASE \E i \in Sq : Posee(i) /\ sq[i].cid = c
    <3>1. PICK i \in Sq : Posee(i) /\ sq[i].cid = c
      BY <2>2
    <3>2. sq[i] \in AuControleur
      BY <1>2, <3>1, PoseesFaits DEF AuControleur, Sq, SqInv
    <3> QED BY <3>1, <3>2
  <2>3. CASE \E x \in ctl.enCours : x.cid = c
    BY <2>3 DEF AuControleur
  <2>4. CASE \E i \in Cq : Achevee(i) /\ cq[i].cid = c
    <3>1. PICK i \in Cq : Achevee(i) /\ cq[i].cid = c
      BY <2>4
    <3>2. cqTete \in Cq /\ ctl.cqQueue \in Cq /\ DOMAIN cq = Cq
      BY <1>2 DEF TypeOK, Cq
    <3>3. /\ (i - cqTete + EntreesCq) % EntreesCq = DCq(i)
          /\ (ctl.cqQueue - cqTete + EntreesCq) % EntreesCq = DCq(ctl.cqQueue)
      BY <3>2, Tailles, EcartMod DEF DCq, Cq
    <3> QED BY <3>1, <3>2, <3>3 DEF Achevee
  <2>5. CASE \E t \in Taches : \E k \in 1..Len(tache[t].lot) : tache[t].lot[k].cid = c
    <3>0. PICK t \in Taches : \E k \in 1..Len(tache[t].lot) : tache[t].lot[k].cid = c
      BY <2>5
    <3>1. PICK k \in 1..Len(tache[t].lot) : tache[t].lot[k].cid = c
      BY <3>0
    <3>2. tache[t].lot \in Seq(Reponses)
      BY <1>2 DEF TypeOK
    <3>3. tache[t].lot[k] \in ToSet(tache[t].lot)
      BY <3>2, LenProperties DEF ToSet
    <3> QED BY <3>1, <3>3
  <2> QED BY <1>2, <2>1, <2>2, <2>3, <2>4, <2>5 DEF Occupe
<1> QED BY <1>2, <1>3, <1>4 DEF SansFuite, EmplacementsConserves, TableInv

----------------------------------------------------------------------------
(* The initial state *)

(* the type of a task *)
Fiches == [pas : {"repos", "prend", "pret", "soumet", "attend"},
           emplacement : Emplacements \cup {Aucun}, cid : Cids \cup {Aucun},
           commande : Commandes \cup {Aucun}, lot : Seq(Reponses)]

(* The driver starts with every slot and identifier free. *)
LEMMA InitInv == Init => IInv
<1> SUFFICES ASSUME Init PROVE IInv
  OBVIOUS
<1> DEFINE ou == [c \in Cids |-> Hors]
           com == [c \in Cids |-> 0]
<1>1. <<ou, com>> \in Suivies
  BY LieuxTypes, Tailles DEF Suivies
<1>2. TypeOK
  <2>1. tache \in [Taches -> Fiches]
    BY DEF Init, Repos, Fiches
  <2>2. cid \in [Cids -> [etat : {"libre", "vol", "acheve", "quarantaine"}, emplacement : Emplacements,
                          statut : 0..MaxCommandes]]
    BY Tailles DEF Init, Emplacements
  <2>3. cq \in [0..(EntreesCq - 1) -> Reponses]
    BY Tailles DEF Init, Reponses
  <2>4. ctl \in [tete : 0..(EntreesSq - 1), enCours : SUBSET Ordres, cqQueue : 0..(EntreesCq - 1),
                 phase : BOOLEAN, cqTete : 0..(EntreesCq - 1), sonnee : 0..(EntreesSq - 1)]
    BY Tailles DEF Init
  <2>5. curseur \in Cids /\ libres \subseteq Emplacements /\ sq \in [0..(EntreesSq - 1) -> Ordres \cup {Aucun}]
    BY Tailles DEF Init, Cids
  <2> QED BY <2>1, <2>2, <2>3, <2>4, <2>5, Tailles DEF Init, TypeOK, Fiches
<1>3. DSq(queue) = 0 /\ DSq(ctl.tete) = 0 /\ DCq(ctl.cqQueue) = 0
  BY DEF Init, DSq, DCq, Ecart
<1>4. (\A i \in Sq : ~Posee(i) /\ ~Lue(i) /\ ~(DSq(i) < DSq(queue))) /\ (\A i \in Cq : ~Achevee(i))
  BY <1>2, <1>3, Distances DEF Posee, Lue, Achevee, Sq, Cq
<1>5. PhaseInv
  <2>1. ctl.phase = TRUE /\ phase = TRUE /\ cqTete = 0 /\ ctl.cqQueue = 0 /\ ctl.cqTete = 0
    BY DEF Init
  <2>2. Attendue(0) = TRUE /\ \A i \in Cq : Attendue(i) = TRUE /\ cq[i].phase = FALSE
    BY <2>1, Tailles DEF Init, Attendue, Cq
  <2> QED BY <1>4, <2>1, <2>2 DEF PhaseInv
<1>6. PasInv /\ SlotInv
  BY Tailles DEF Init, PasInv, SlotInv, Repos
<1>7. Porte(ou, com) /\ Occupe(ou)
  BY <1>4 DEF Init, Porte, Occupe, Repos
<1>8. SqInv(ou)
  BY <1>3, <1>4 DEF Init, SqInv
<1>9. TableInv(ou, com)
  BY Tailles DEF Init, TableInv, Repos
<1>10. \E s \in Suivies : Inv(s[1], s[2])
  BY <1>1, <1>7, <1>8, <1>9 DEF Inv
<1> QED BY <1>2, <1>5, <1>6, <1>10 DEF IInv

----------------------------------------------------------------------------
(* The steps of a task that leave the rings alone *)

(* the places of the commands do not change *)
LEMMA AnneauxFixes ==
    ASSUME TypeOK, PhaseInv, NEW ou, NEW com, Porte(ou, com), Occupe(ou), SqInv(ou),
           UNCHANGED <<anneaux, ctl>>, \A t \in Taches : tache'[t].lot = tache[t].lot,
           \A c \in Cids : ou[c] # Hors => cid'[c].emplacement = cid[c].emplacement
    PROVE  Porte(ou, com)' /\ Occupe(ou)' /\ SqInv(ou)' /\ PhaseInv'
<1>1. /\ sq' = sq /\ queue' = queue /\ tete' = tete /\ cq' = cq /\ cqTete' = cqTete /\ phase' = phase /\ ctl' = ctl
      /\ \A i : DSq(i)' = DSq(i) /\ DCq(i)' = DCq(i) /\ Attendue(i)' = Attendue(i)
  BY DEF anneaux, DSq, DCq, Attendue
<1>2. \A i : (Posee(i)' <=> Posee(i)) /\ (Lue(i)' <=> Lue(i)) /\ (Achevee(i)' <=> Achevee(i))
  BY <1>1 DEF Posee, Lue, Achevee
<1>3. \A c, d : Suivi(ou, c, d)' <=> Suivi(ou, c, d)
  BY <1>1, <1>2 DEF Suivi
<1>4. \A x \in Ordres : x.cid \in Cids
  BY DEF Ordres
<1>5. Porte(ou, com)'
  <2>1. \A i \in Sq : Posee(i)' => /\ sq'[i] \in Ordres /\ ou[sq'[i].cid] = EnSq(i)
                                   /\ sq'[i].commande = com[sq'[i].cid]
                                   /\ sq'[i].emplacement = cid'[sq'[i].cid].emplacement
    <3> TAKE i \in Sq
    <3> HAVE Posee(i)'
    <3>1. /\ sq[i] \in Ordres /\ ou[sq[i].cid] = EnSq(i) /\ sq[i].commande = com[sq[i].cid]
          /\ sq[i].emplacement = cid[sq[i].cid].emplacement
      BY <1>2 DEF Porte
    <3> QED BY <1>1, <1>4, <3>1, LieuxDistincts
  <2>2. \A x \in ctl'.enCours : /\ ou[x.cid] = AuCtl /\ x.commande = com[x.cid]
                                /\ x.emplacement = cid'[x.cid].emplacement
    <3> TAKE x \in ctl'.enCours
    <3>1. /\ x \in Ordres /\ ou[x.cid] = AuCtl /\ x.commande = com[x.cid]
          /\ x.emplacement = cid[x.cid].emplacement
      BY <1>1 DEF Porte, TypeOK
    <3> QED BY <1>4, <3>1, LieuxDistincts
  <2>3. \A i \in Cq : Achevee(i)' => /\ cq'[i].cid \in Cids /\ ou[cq'[i].cid] = EnCq(i)
                                     /\ cq'[i].commande = com[cq'[i].cid]
    BY <1>1, <1>2 DEF Porte
  <2>4. \A t \in Taches : \A k \in 1..Len(tache'[t].lot) :
           LET a == tache'[t].lot[k] IN a.cid \in Cids /\ ou[a.cid] = EnLot(t, k) /\ a.commande = com[a.cid]
    BY DEF Porte
  <2> QED BY <2>1, <2>2, <2>3, <2>4 DEF Porte
<1>6. Occupe(ou)'
  BY <1>1, <1>2 DEF Occupe
<1>7. SqInv(ou)'
  BY <1>1, <1>2, <1>3 DEF SqInv
<1> QED BY <1>1, <1>2, <1>5, <1>6, <1>7 DEF PhaseInv

(* a task changes alone *)
LEMMA MetFaits ==
    ASSUME TypeOK, NEW t \in Taches, NEW r, Met(t, r)
    PROVE  tache'[t] = r /\ \A u \in Taches : u # t => tache'[u] = tache[u]
BY DEF TypeOK, Met

(* and keeps its type *)
LEMMA MetType ==
    ASSUME TypeOK, NEW t \in Taches, NEW r \in Fiches, Met(t, r)
    PROVE  tache' \in [Taches -> Fiches]
BY DEF TypeOK, Met, Fiches

(* the tasks are typed *)
LEMMA FichesFaits ==
    ASSUME TypeOK
    PROVE  /\ tache \in [Taches -> Fiches] /\ Repos \in Fiches
           /\ \A t \in Taches : tache[t].lot \in Seq(Reponses)
BY DEF TypeOK, Fiches, Repos

(* A request begins: it has a command and holds nothing. *)
LEMMA DemandeInv ==
    ASSUME IInv, NEW t \in Taches, Demande(t)
    PROVE  IInv'
<1>1. PICK s \in Suivies : Inv(s[1], s[2])
  BY DEF IInv
<1> DEFINE ou == s[1]
           com == s[2]
           r == [tache[t] EXCEPT !.pas = "prend", !.commande = numero + 1]
<1>2. TypeOK /\ PhaseInv /\ PasInv /\ SlotInv /\ Porte(ou, com) /\ Occupe(ou) /\ SqInv(ou) /\ TableInv(ou, com)
  BY <1>1 DEF IInv, Inv
<1>3. tache[t].pas = "repos" /\ numero < MaxCommandes /\ Met(t, r) /\ numero' = numero + 1
      /\ UNCHANGED <<libres, cid, curseur, anneaux, suite, hors, ctl>>
  BY DEF Demande, Pas, suivi
<1>4. r \in Fiches /\ r.pas = "prend" /\ r.cid = tache[t].cid /\ r.emplacement = tache[t].emplacement
      /\ r.lot = tache[t].lot /\ r.commande # Aucun
  <2>1. tache[t] \in Fiches
    BY <1>2, FichesFaits
  <2>2. numero \in 0..MaxCommandes /\ numero < MaxCommandes
    BY <1>2 DEF TypeOK, Demande
  <2>3. numero + 1 \in Commandes
    BY <2>2, Tailles DEF Commandes
  <2> QED BY <2>1, <2>3, Tailles DEF Fiches
<1> HIDE DEF r, ou, com
<1>5. tache'[t] = r /\ \A u \in Taches : u # t => tache'[u] = tache[u]
  BY <1>2, <1>3, MetFaits
<1>6. TypeOK'
  <2>1. tache' \in [Taches -> Fiches]
    BY <1>2, <1>3, <1>4, MetType
  <2> QED BY <1>2, <1>3, <2>1, Tailles DEF TypeOK, Fiches, anneaux
<1>7. PasInv'
  BY <1>2, <1>3, <1>4, <1>5 DEF PasInv
<1>8. \A u \in Taches : /\ tache'[u].cid = tache[u].cid /\ tache'[u].emplacement = tache[u].emplacement
                        /\ tache'[u].lot = tache[u].lot
  BY <1>4, <1>5
<1>9. SlotInv'
  BY <1>2, <1>3, <1>8 DEF SlotInv
<1>10. \A u \in Taches : tache'[u].pas \in {"soumet", "attend"} => u # t
  BY <1>4, <1>5
<1>11. TableInv(ou, com)'
  BY <1>2, <1>3, <1>5, <1>8, <1>10 DEF TableInv
<1>12. PhaseInv' /\ Porte(ou, com)' /\ Occupe(ou)' /\ SqInv(ou)'
  BY <1>2, <1>3, <1>8, AnneauxFixes
<1>13. \E z \in Suivies : Inv(z[1], z[2])'
  BY <1>11, <1>12 DEF Inv, ou, com
<1> QED BY <1>6, <1>7, <1>9, <1>12, <1>13 DEF IInv

(* prend_un_emplacement takes the lowest free slot, which nobody retains. *)
LEMMA PrendInv ==
    ASSUME IInv, NEW t \in Taches, Prend(t)
    PROVE  IInv'
<1>1. PICK s \in Suivies : Inv(s[1], s[2])
  BY DEF IInv
<1> DEFINE ou == s[1]
           com == s[2]
           e == CHOOSE e \in libres : \A f \in libres : e <= f
           r == [tache[t] EXCEPT !.pas = "pret", !.emplacement = e]
<1>2. TypeOK /\ PhaseInv /\ PasInv /\ SlotInv /\ Porte(ou, com) /\ Occupe(ou) /\ SqInv(ou) /\ TableInv(ou, com)
  BY <1>1 DEF IInv, Inv
<1>3. e \in libres
  <2>1. libres \in SUBSET Nat
    BY <1>2, Tailles DEF TypeOK, Emplacements
  <2>2. \E m \in libres : \A x \in libres : m <= x
    BY <2>1, Minimum DEF Prend
  <2> QED BY <2>2
<1>4. tache[t].pas = "prend" /\ tache[t].lot = <<>> /\ libres' = libres \ {e}
      /\ UNCHANGED <<cid, curseur, anneaux, suite, hors, numero, ctl>>
  BY DEF Prend, Pas, suivi
<1>5. Met(t, r)
  <2>1. ~ \E c \in Cids : cid[c].etat = "quarantaine" /\ cid[c].emplacement = e
    BY <1>2, <1>3 DEF SlotInv
  <2> QED BY <2>1 DEF Prend
<1> HIDE DEF e
<1>6. tache[t].emplacement = Aucun /\ tache[t].cid = Aucun /\ tache[t].commande # Aucun
  BY <1>2, <1>4 DEF PasInv
<1>7. e \in Emplacements /\ e # Aucun
  BY <1>2, <1>3, Tailles DEF TypeOK
<1>8. r \in Fiches /\ r.pas = "pret" /\ r.cid = Aucun /\ r.emplacement = e
      /\ r.lot = tache[t].lot /\ r.commande = tache[t].commande
  <2>1. tache[t] \in Fiches
    BY <1>2, FichesFaits
  <2> QED BY <1>6, <1>7, <2>1 DEF Fiches
<1> HIDE DEF r, ou, com
<1>9. tache'[t] = r /\ \A u \in Taches : u # t => tache'[u] = tache[u]
  BY <1>2, <1>5, MetFaits
<1>10. TypeOK'
  <2>1. tache' \in [Taches -> Fiches]
    BY <1>2, <1>5, <1>8, MetType
  <2> QED BY <1>2, <1>4, <2>1, Tailles DEF TypeOK, Fiches, anneaux
<1>11. PasInv'
  BY <1>2, <1>4, <1>6, <1>7, <1>8, <1>9 DEF PasInv
<1>12. \A u \in Taches : tache'[u].cid = tache[u].cid /\ tache'[u].lot = tache[u].lot
  BY <1>6, <1>8, <1>9
<1>13. SlotInv'
  <2>1. \A u \in Taches : u # t => tache'[u].emplacement = tache[u].emplacement /\ tache[u].emplacement # e
    BY <1>2, <1>3, <1>9 DEF SlotInv
  <2>2. tache'[t].emplacement = e
    BY <1>8, <1>9
  <2>3. \A c \in Cids : cid'[c] = cid[c] /\ (cid[c].etat = "quarantaine" => cid[c].emplacement # e)
    BY <1>2, <1>3, <1>4 DEF SlotInv
  <2>4. \A f \in Emplacements : f # e /\ (\E u \in Taches : tache[u].emplacement = f)
                                            => \E u \in Taches : tache'[u].emplacement = f
    BY <1>6, <2>1, Tailles
  <2> QED BY <1>2, <1>4, <1>7, <2>1, <2>2, <2>3, <2>4 DEF SlotInv
<1>14. \A u \in Taches : tache'[u].pas \in {"soumet", "attend"} \/ tache'[u].cid # Aucun => u # t
  BY <1>8, <1>9
<1>15. TableInv(ou, com)'
  BY <1>2, <1>4, <1>9, <1>12, <1>14 DEF TableInv
<1>16. PhaseInv' /\ Porte(ou, com)' /\ Occupe(ou)' /\ SqInv(ou)'
  BY <1>2, <1>4, <1>12, AnneauxFixes
<1>17. \E z \in Suivies : Inv(z[1], z[2])'
  BY <1>15, <1>16 DEF Inv, ou, com
<1> QED BY <1>10, <1>11, <1>13, <1>16, <1>17 DEF IInv

(* A task without slot nor identifier goes back to rest. *)
LEMMA RenonceInv ==
    ASSUME IInv, NEW t \in Taches, Renonce(t)
    PROVE  IInv'
<1>1. PICK s \in Suivies : Inv(s[1], s[2])
  BY DEF IInv
<1> DEFINE ou == s[1]
           com == s[2]
<1>2. TypeOK /\ PhaseInv /\ PasInv /\ SlotInv /\ Porte(ou, com) /\ Occupe(ou) /\ SqInv(ou) /\ TableInv(ou, com)
  BY <1>1 DEF IInv, Inv
<1>3. tache[t].pas = "prend" /\ tache[t].lot = <<>> /\ Met(t, Repos)
      /\ UNCHANGED <<libres, cid, curseur, anneaux, suite, hors, numero, ctl>>
  BY DEF Renonce, Pas, suivi
<1> HIDE DEF ou, com
<1>4. tache'[t] = Repos /\ \A u \in Taches : u # t => tache'[u] = tache[u]
  BY <1>2, <1>3, MetFaits
<1>5. TypeOK'
  <2>1. tache' \in [Taches -> Fiches]
    BY <1>2, <1>3, FichesFaits, MetType
  <2> QED BY <1>2, <1>3, <2>1, Tailles DEF TypeOK, Fiches, anneaux
<1>6. PasInv'
  BY <1>2, <1>3, <1>4 DEF PasInv, Repos
<1>7. \A u \in Taches : /\ tache'[u].cid = tache[u].cid /\ tache'[u].lot = tache[u].lot
                        /\ tache'[u].emplacement = tache[u].emplacement
  BY <1>2, <1>3, <1>4 DEF PasInv, Repos
<1>8. SlotInv'
  BY <1>2, <1>3, <1>7 DEF SlotInv
<1>9. \A u \in Taches : tache'[u].pas \in {"soumet", "attend"} => u # t
  BY <1>4 DEF Repos
<1>10. TableInv(ou, com)'
  BY <1>2, <1>3, <1>4, <1>7, <1>9 DEF TableInv
<1>11. PhaseInv' /\ Porte(ou, com)' /\ Occupe(ou)' /\ SqInv(ou)'
  BY <1>2, <1>3, <1>7, AnneauxFixes
<1>12. \E z \in Suivies : Inv(z[1], z[2])'
  BY <1>10, <1>11 DEF Inv, ou, com
<1> QED BY <1>5, <1>6, <1>8, <1>11, <1>12 DEF IInv

(* alloue: the identifier was free, so no command is under it. *)
LEMMA IdentifieInv ==
    ASSUME IInv, NEW t \in Taches, Identifie(t)
    PROVE  IInv'
<1>1. PICK s \in Suivies : Inv(s[1], s[2])
  BY DEF IInv
<1> DEFINE ou == s[1]
           com == s[2]
<1>2. TypeOK /\ PhaseInv /\ PasInv /\ SlotInv /\ Porte(ou, com) /\ Occupe(ou) /\ SqInv(ou) /\ TableInv(ou, com)
  BY <1>1 DEF IInv, Inv
<1>3. tache[t].pas = "pret" /\ UNCHANGED <<anneaux, suite, hors, numero, ctl>>
  BY DEF Identifie, Pas
<1>4. tache[t].emplacement # Aucun /\ tache[t].cid = Aucun /\ tache[t].commande # Aucun /\ tache[t].lot = <<>>
  BY <1>2, <1>3 DEF PasInv
<1>5. tache[t] \in Fiches /\ tache[t].emplacement \in Emplacements
  BY <1>2, <1>4, FichesFaits DEF Fiches
<1>6. CASE Allouables = {}
  <2>1. Met(t, Repos) /\ libres' = libres \cup {tache[t].emplacement} /\ UNCHANGED <<cid, curseur>>
    BY <1>6 DEF Identifie, suivi
  <2> HIDE DEF ou, com
  <2>2. tache'[t] = Repos /\ \A u \in Taches : u # t => tache'[u] = tache[u]
    BY <1>2, <2>1, MetFaits
  <2>3. TypeOK'
    <3>1. tache' \in [Taches -> Fiches]
      BY <1>2, <2>1, FichesFaits, MetType
    <3> QED BY <1>2, <1>3, <1>5, <2>1, <3>1, Tailles DEF TypeOK, Fiches, anneaux
  <2>4. PasInv'
    BY <1>2, <2>2 DEF PasInv, Repos
  <2>5. \A u \in Taches : tache'[u].cid = tache[u].cid /\ tache'[u].lot = tache[u].lot
    BY <1>4, <2>2 DEF Repos
  <2>6. SlotInv'
    <3>1. \A u \in Taches : u # t => /\ tache'[u].emplacement = tache[u].emplacement
                                     /\ tache[u].emplacement # tache[t].emplacement
      BY <1>2, <1>4, <2>2 DEF SlotInv
    <3>2. tache'[t].emplacement = Aucun /\ Aucun \notin libres'
      BY <1>2, <1>4, <2>1, <2>2, Tailles DEF Repos, TypeOK
    <3>3. \A c \in Cids : /\ cid'[c] = cid[c]
                          /\ (cid[c].etat = "quarantaine" => cid[c].emplacement # tache[t].emplacement)
                          /\ cid[c].emplacement # Aucun
      BY <1>2, <2>1, Tailles DEF SlotInv, TypeOK
    <3> QED BY <1>2, <2>1, <3>1, <3>2, <3>3 DEF SlotInv
  <2>7. \A u \in Taches : tache'[u].pas \in {"soumet", "attend"} \/ tache'[u].cid # Aucun => u # t
    BY <2>2 DEF Repos
  <2>8. TableInv(ou, com)'
    BY <1>2, <2>1, <2>2, <2>5, <2>7 DEF TableInv
  <2>9. PhaseInv' /\ Porte(ou, com)' /\ Occupe(ou)' /\ SqInv(ou)'
    BY <1>2, <1>3, <2>1, <2>5, AnneauxFixes
  <2>10. \E z \in Suivies : Inv(z[1], z[2])'
    BY <2>8, <2>9 DEF Inv, ou, com
  <2> QED BY <2>3, <2>4, <2>6, <2>9, <2>10 DEF IInv
<1>7. CASE Allouables # {}
  <2> DEFINE c == Alloue
             r == [tache[t] EXCEPT !.pas = "soumet", !.cid = c]
             n == [etat |-> "vol", emplacement |-> tache[t].emplacement, statut |-> 0]
  <2>1. /\ cid' = [cid EXCEPT ![c] = n] /\ curseur' = ApresCid(c) /\ Met(t, r) /\ UNCHANGED libres
    BY <1>7 DEF Identifie
  <2>2. c \in Cids /\ cid[c].etat = "libre" /\ ApresCid(c) \in Cids /\ c # Aucun
    BY <1>2, <1>7, AlloueFaits, Tailles
  <2> HIDE DEF c
  <2>3. r \in Fiches /\ r.pas = "soumet" /\ r.cid = c /\ r.emplacement = tache[t].emplacement
        /\ r.lot = tache[t].lot /\ r.commande = tache[t].commande
    BY <1>5, <2>2 DEF Fiches
  <2>4. cid'[c] = n /\ \A d \in Cids : d # c => cid'[d] = cid[d]
    BY <1>2, <2>1, <2>2 DEF TypeOK
  <2>5. n.etat = "vol" /\ n.emplacement = tache[t].emplacement
    OBVIOUS
  <2>6. TypeOK'
    <3>1. tache' \in [Taches -> Fiches]
      BY <1>2, <2>1, <2>3, MetType
    <3>2. cid' \in [Cids -> [etat : {"libre", "vol", "acheve", "quarantaine"}, emplacement : Emplacements,
                             statut : 0..MaxCommandes]]
      BY <1>2, <1>5, <2>1, <2>2, Tailles DEF TypeOK
    <3> QED BY <1>2, <1>3, <2>1, <2>2, <3>1, <3>2, Tailles DEF TypeOK, Fiches, anneaux
  <2> HIDE DEF r, ou, com, n
  <2>7. tache'[t] = r /\ \A u \in Taches : u # t => tache'[u] = tache[u]
    BY <1>2, <2>1, MetFaits
  <2>8. PasInv'
    BY <1>2, <1>3, <1>4, <2>2, <2>3, <2>7 DEF PasInv
  <2>9. \A u \in Taches : tache'[u].emplacement = tache[u].emplacement /\ tache'[u].lot = tache[u].lot
    BY <2>3, <2>7
  <2>10. SlotInv'
    <3>1. \A d \in Cids : /\ cid'[d].etat = "quarantaine" <=> cid[d].etat = "quarantaine"
                          /\ cid[d].etat = "quarantaine" => cid'[d] = cid[d]
      BY <2>2, <2>4, <2>5
    <3> QED BY <1>2, <2>1, <2>9, <3>1 DEF SlotInv
  <2>11. ou[c] = Hors /\ \A u \in Taches : tache[u].cid # c
    BY <1>2, <2>2 DEF TableInv
  <2>12. TableInv(ou, com)'
    <3>1. \A d \in Cids : /\ cid'[d].etat \in {"libre", "acheve"} => ou[d] = Hors
                          /\ cid'[d].etat = "quarantaine" => ou[d] # Hors
      BY <1>2, <2>4, <2>5 DEF TableInv
    <3>2. \A d \in Cids : cid'[d].etat \in {"vol", "acheve"} <=> \E u \in Taches : tache'[u].cid = d
      <4> TAKE d \in Cids
      <4>1. CASE d = c
        BY <2>3, <2>4, <2>5, <2>7, <4>1
      <4>2. CASE d # c
        <5>1. \A u \in Taches : tache'[u].cid = d <=> tache[u].cid = d
          BY <1>4, <2>3, <2>7, <4>2, Tailles
        <5> QED BY <1>2, <2>4, <4>2, <5>1 DEF TableInv
      <4> QED BY <4>1, <4>2
    <3>3. \A u \in Taches : LET d == tache'[u].cid IN
              /\ tache'[u].pas = "soumet" => cid'[d].etat = "vol" /\ ou[d] = Hors
              /\ tache'[u].pas = "attend" /\ cid'[d].etat = "vol" => ou[d] # Hors /\ com[d] = tache'[u].commande
              /\ tache'[u].pas = "attend" /\ cid'[d].etat = "acheve" => cid'[d].statut = tache'[u].commande
              /\ d # Aucun => cid'[d].emplacement = tache'[u].emplacement
      <4> TAKE u \in Taches
      <4>1. CASE u = t
        BY <2>3, <2>4, <2>5, <2>7, <2>11, <4>1
      <4>2. CASE u # t
        <5>1. tache'[u] = tache[u] /\ tache[u].cid # c /\ tache[u] \in Fiches
          BY <1>2, <2>7, <2>11, <4>2, FichesFaits
        <5>2. tache[u].cid # Aucun => tache[u].cid \in Cids /\ cid'[tache[u].cid] = cid[tache[u].cid]
          BY <2>4, <5>1 DEF Fiches
        <5>3. tache[u].pas \in {"soumet", "attend"} => tache[u].cid # Aucun
          BY <1>2 DEF PasInv
        <5> QED BY <1>2, <5>1, <5>2, <5>3 DEF TableInv
      <4> QED BY <4>1, <4>2
    <3>4. \A u, v \in Taches : u # v /\ tache'[u].cid # Aucun => tache'[u].cid # tache'[v].cid
      BY <1>2, <2>3, <2>7, <2>11 DEF TableInv
    <3> QED BY <3>1, <3>2, <3>3, <3>4 DEF TableInv
  <2>13. PhaseInv' /\ Porte(ou, com)' /\ Occupe(ou)' /\ SqInv(ou)'
    <3>1. \A d \in Cids : ou[d] # Hors => cid'[d].emplacement = cid[d].emplacement
      BY <2>4, <2>11
    <3> QED BY <1>2, <1>3, <2>9, <3>1, AnneauxFixes
  <2>14. \E z \in Suivies : Inv(z[1], z[2])'
    BY <2>12, <2>13 DEF Inv, ou, com
  <2> QED BY <2>6, <2>8, <2>10, <2>13, <2>14 DEF IInv
<1> QED BY <1>6, <1>7

(* the type of an entry of the table, and a change of one entry *)
Etats == [etat : {"libre", "vol", "acheve", "quarantaine"}, emplacement : Emplacements, statut : 0..MaxCommandes]

LEMMA CidMis ==
    ASSUME TypeOK, NEW c \in Cids, NEW r \in Etats, cid' = [cid EXCEPT ![c] = r]
    PROVE  cid'[c] = r /\ (\A d \in Cids : d # c => cid'[d] = cid[d]) /\ cid' \in [Cids -> Etats]
BY DEF TypeOK, Etats

(* A task leaves its identifier, which is free, or retained. *)
LEMMA CidLaisse ==
    ASSUME TypeOK, PasInv, NEW ou, NEW com, TableInv(ou, com), NEW t \in Taches, NEW c \in Cids, tache[t].cid = c,
           tache'[t].cid = Aucun, tache'[t].pas \in {"repos", "pret"},
           \A u \in Taches : u # t => tache'[u] = tache[u],
           \/ cid'[c].etat = "libre" /\ ou[c] = Hors
           \/ cid'[c].etat = "quarantaine" /\ ou[c] # Hors,
           \A d \in Cids : d # c => cid'[d] = cid[d]
    PROVE  TableInv(ou, com)'
<1>1. c # Aucun /\ \A u \in Taches : u # t => tache[u].cid # c
  BY Tailles DEF TableInv
<1>2. \A d \in Cids : /\ cid'[d].etat \in {"libre", "acheve"} => ou[d] = Hors
                      /\ cid'[d].etat = "quarantaine" => ou[d] # Hors
  BY DEF TableInv
<1>3. \A d \in Cids : cid'[d].etat \in {"vol", "acheve"} <=> \E u \in Taches : tache'[u].cid = d
  <2> TAKE d \in Cids
  <2>1. CASE d = c
    BY <1>1, <2>1
  <2>2. CASE d # c
    <3>1. \A u \in Taches : tache'[u].cid = d <=> tache[u].cid = d
      BY <2>2, Tailles
    <3> QED BY <2>2, <3>1 DEF TableInv
  <2> QED BY <2>1, <2>2
<1>4. \A u \in Taches : LET d == tache'[u].cid IN
          /\ tache'[u].pas = "soumet" => cid'[d].etat = "vol" /\ ou[d] = Hors
          /\ tache'[u].pas = "attend" /\ cid'[d].etat = "vol" => ou[d] # Hors /\ com[d] = tache'[u].commande
          /\ tache'[u].pas = "attend" /\ cid'[d].etat = "acheve" => cid'[d].statut = tache'[u].commande
          /\ d # Aucun => cid'[d].emplacement = tache'[u].emplacement
  <2> TAKE u \in Taches
  <2>1. CASE u = t
    BY <2>1
  <2>2. CASE u # t
    <3>1. tache'[u] = tache[u] /\ tache[u].cid # c /\ tache[u] \in Fiches
      BY <1>1, <2>2, FichesFaits
    <3>2. tache[u].cid # Aucun => tache[u].cid \in Cids /\ cid'[tache[u].cid] = cid[tache[u].cid]
      BY <3>1 DEF Fiches
    <3>3. tache[u].pas \in {"soumet", "attend"} => tache[u].cid # Aucun
      BY DEF PasInv
    <3> QED BY <3>1, <3>2, <3>3 DEF TableInv
  <2> QED BY <2>1, <2>2
<1>5. \A u, v \in Taches : u # v /\ tache'[u].cid # Aucun => tache'[u].cid # tache'[v].cid
  BY DEF TableInv
<1> QED BY <1>2, <1>3, <1>4, <1>5 DEF TableInv

(* recolte: the identifier goes back to the pot, and the slot with it or not. *)
LEMMA RecolteInv ==
    ASSUME IInv, NEW t \in Taches, Recolte(t)
    PROVE  IInv'
<1>1. PICK s \in Suivies : Inv(s[1], s[2])
  BY DEF IInv
<1> DEFINE ou == s[1]
           com == s[2]
           c == tache[t].cid
<1>2. TypeOK /\ PhaseInv /\ PasInv /\ SlotInv /\ Porte(ou, com) /\ Occupe(ou) /\ SqInv(ou) /\ TableInv(ou, com)
  BY <1>1 DEF IInv, Inv
<1> HIDE DEF ou, com
<1>3. /\ tache[t].pas = "attend" /\ tache[t].lot = <<>> /\ cid[c].etat = "acheve"
      /\ cid' = [cid EXCEPT ![c] = [cid[c] EXCEPT !.etat = "libre", !.statut = 0]]
      /\ UNCHANGED <<curseur, anneaux, hors, ctl>>
  BY DEF Recolte, Pas
<1>4. c # Aucun /\ tache[t].emplacement # Aucun /\ tache[t].commande # Aucun
  BY <1>2, <1>3 DEF PasInv
<1>5. tache[t] \in Fiches
  BY <1>2, FichesFaits
<1>6. c \in Cids /\ tache[t].emplacement \in Emplacements
  BY <1>4, <1>5 DEF Fiches
<1>7. /\ cid'[c].etat = "libre" /\ cid'[c].emplacement = cid[c].emplacement
      /\ \A d \in Cids : d # c => cid'[d] = cid[d]
      /\ cid' \in [Cids -> Etats]
  <2> DEFINE n == [cid[c] EXCEPT !.etat = "libre", !.statut = 0]
  <2>1. cid[c] \in Etats
    BY <1>2, <1>6 DEF TypeOK, Etats
  <2>0. 0 \in 0..MaxCommandes
    BY Tailles
  <2>2. n \in Etats /\ n.etat = "libre" /\ n.emplacement = cid[c].emplacement
    BY <2>0, <2>1 DEF Etats
  <2>3. cid' = [cid EXCEPT ![c] = n]
    BY <1>3
  <2> HIDE DEF n
  <2> QED BY <1>2, <1>6, <2>2, <2>3, CidMis
<1>8. ou[c] = Hors
  BY <1>2, <1>3, <1>6 DEF TableInv
<1>9. \A d \in Cids : /\ cid'[d].etat = "quarantaine" <=> cid[d].etat = "quarantaine"
                      /\ cid'[d].emplacement = cid[d].emplacement
  BY <1>3, <1>7
<1> DEFINE r == [tache[t] EXCEPT !.pas = "pret", !.cid = Aucun, !.commande = numero + 1]
<1>10. CASE /\ numero < MaxCommandes /\ numero' = numero + 1
            /\ Met(t, r) /\ UNCHANGED <<libres, suite>>
  <2>1. numero + 1 \in Commandes /\ numero + 1 \in 0..MaxCommandes
    <3>1. numero \in 0..MaxCommandes /\ numero < MaxCommandes
      BY <1>2, <1>10 DEF TypeOK
    <3> QED BY <3>1, Tailles DEF Commandes
  <2>2. r \in Fiches /\ r.pas = "pret" /\ r.cid = Aucun /\ r.emplacement = tache[t].emplacement
        /\ r.lot = tache[t].lot /\ r.commande # Aucun
    BY <1>5, <2>1, Tailles DEF Fiches
  <2> HIDE DEF r
  <2>3. tache'[t] = r /\ \A u \in Taches : u # t => tache'[u] = tache[u]
    BY <1>2, <1>10, MetFaits
  <2>4. TypeOK'
    <3>1. tache' \in [Taches -> Fiches]
      BY <1>2, <1>10, <2>2, MetType
    <3> QED BY <1>2, <1>3, <1>7, <1>10, <2>1, <3>1, Tailles DEF TypeOK, Fiches, Etats, anneaux
  <2>5. PasInv'
    BY <1>2, <1>3, <1>4, <2>2, <2>3 DEF PasInv
  <2>6. \A u \in Taches : tache'[u].emplacement = tache[u].emplacement /\ tache'[u].lot = tache[u].lot
    BY <2>2, <2>3
  <2>7. SlotInv'
    BY <1>2, <1>9, <1>10, <2>6 DEF SlotInv
  <2>8. TableInv(ou, com)'
    BY <1>2, <1>6, <1>7, <1>8, <2>2, <2>3, CidLaisse
  <2>9. PhaseInv' /\ Porte(ou, com)' /\ Occupe(ou)' /\ SqInv(ou)'
    BY <1>2, <1>3, <1>9, <2>6, AnneauxFixes
  <2>10. \E z \in Suivies : Inv(z[1], z[2])'
    BY <2>8, <2>9 DEF Inv, ou, com
  <2> QED BY <2>4, <2>5, <2>7, <2>9, <2>10 DEF IInv
<1>11. CASE /\ Met(t, Repos) /\ libres' = libres \cup {tache[t].emplacement}
            /\ suite' \in {0, suite} /\ UNCHANGED numero
  <2>3. tache'[t] = Repos /\ \A u \in Taches : u # t => tache'[u] = tache[u]
    BY <1>2, <1>11, MetFaits
  <2>4. TypeOK'
    <3>1. tache' \in [Taches -> Fiches]
      BY <1>2, <1>11, FichesFaits, MetType
    <3>2. suite' \in Nat /\ libres' \subseteq Emplacements
      BY <1>2, <1>6, <1>11 DEF TypeOK
    <3> QED BY <1>2, <1>3, <1>7, <1>11, <3>1, <3>2, Tailles DEF TypeOK, Fiches, Etats, anneaux
  <2>5. PasInv'
    BY <1>2, <2>3 DEF PasInv, Repos
  <2>6. \A u \in Taches : tache'[u].lot = tache[u].lot
    BY <1>3, <2>3 DEF Repos
  <2>7. SlotInv'
    <3>1. \A u \in Taches : u # t => /\ tache'[u].emplacement = tache[u].emplacement
                                     /\ tache[u].emplacement # tache[t].emplacement
      BY <1>2, <1>4, <2>3 DEF SlotInv
    <3>2. tache'[t].emplacement = Aucun /\ Aucun \notin libres'
      BY <1>2, <1>4, <1>11, <2>3, Tailles DEF Repos, TypeOK
    <3>3. \A d \in Cids : /\ (cid[d].etat = "quarantaine" => cid[d].emplacement # tache[t].emplacement)
                          /\ cid[d].emplacement # Aucun
      BY <1>2, Tailles DEF SlotInv, TypeOK
    <3> QED BY <1>2, <1>9, <1>11, <3>1, <3>2, <3>3 DEF SlotInv
  <2>8. TableInv(ou, com)'
    <3>1. tache'[t].cid = Aucun /\ tache'[t].pas = "repos"
      BY <2>3 DEF Repos
    <3> QED BY <1>2, <1>6, <1>7, <1>8, <2>3, <3>1, CidLaisse
  <2>9. PhaseInv' /\ Porte(ou, com)' /\ Occupe(ou)' /\ SqInv(ou)'
    BY <1>2, <1>3, <1>9, <2>6, AnneauxFixes
  <2>10. \E z \in Suivies : Inv(z[1], z[2])'
    BY <2>8, <2>9 DEF Inv, ou, com
  <2> QED BY <2>4, <2>5, <2>7, <2>9, <2>10 DEF IInv
<1> QED BY <1>10, <1>11 DEF Recolte

(* expire: the identifier and the slot stay with the command. *)
LEMMA ExpireInv ==
    ASSUME IInv, NEW t \in Taches, Expire(t)
    PROVE  IInv'
<1>1. PICK s \in Suivies : Inv(s[1], s[2])
  BY DEF IInv
<1> DEFINE ou == s[1]
           com == s[2]
           c == tache[t].cid
<1>2. TypeOK /\ PhaseInv /\ PasInv /\ SlotInv /\ Porte(ou, com) /\ Occupe(ou) /\ SqInv(ou) /\ TableInv(ou, com)
  BY <1>1 DEF IInv, Inv
<1> HIDE DEF ou, com
<1>3. /\ tache[t].pas = "attend" /\ tache[t].lot = <<>> /\ cid[c].etat = "vol"
      /\ cid' = [cid EXCEPT ![c] = [cid[c] EXCEPT !.etat = "quarantaine"]] /\ Met(t, Repos)
      /\ suite' = suite + 1 /\ \E fatal \in BOOLEAN : hors' = (hors \/ fatal \/ suite' >= DelaisMax)
      /\ UNCHANGED <<libres, curseur, anneaux, numero, ctl>>
  BY DEF Expire, Pas
<1>4. c # Aucun /\ tache[t].emplacement # Aucun
  BY <1>2, <1>3 DEF PasInv
<1>5. tache[t] \in Fiches
  BY <1>2, FichesFaits
<1>6. c \in Cids /\ cid[c].emplacement = tache[t].emplacement /\ ou[c] # Hors
  BY <1>2, <1>3, <1>4, <1>5 DEF Fiches, TableInv
<1>7. /\ cid'[c].etat = "quarantaine" /\ cid'[c].emplacement = cid[c].emplacement
      /\ \A d \in Cids : d # c => cid'[d] = cid[d]
      /\ cid' \in [Cids -> Etats]
  <2> DEFINE n == [cid[c] EXCEPT !.etat = "quarantaine"]
  <2>1. cid[c] \in Etats
    BY <1>2, <1>6 DEF TypeOK, Etats
  <2>2. n \in Etats /\ n.etat = "quarantaine" /\ n.emplacement = cid[c].emplacement
    BY <2>1, Tailles DEF Etats
  <2>3. cid' = [cid EXCEPT ![c] = n]
    BY <1>3
  <2> HIDE DEF n
  <2> QED BY <1>2, <1>6, <2>2, <2>3, CidMis
<1>8. tache'[t] = Repos /\ \A u \in Taches : u # t => tache'[u] = tache[u]
  BY <1>2, <1>3, MetFaits
<1>9. TypeOK'
  <2>1. tache' \in [Taches -> Fiches]
    BY <1>2, <1>3, FichesFaits, MetType
  <2>2. suite' \in Nat /\ hors' \in BOOLEAN
    BY <1>2, <1>3 DEF TypeOK
  <2> QED BY <1>2, <1>3, <1>7, <2>1, <2>2, Tailles DEF TypeOK, Fiches, Etats, anneaux
<1>10. PasInv'
  BY <1>2, <1>8 DEF PasInv, Repos
<1>11. \A u \in Taches : tache'[u].lot = tache[u].lot
  BY <1>3, <1>8 DEF Repos
<1>12. SlotInv'
  <2>1. \A u \in Taches : u # t => /\ tache'[u].emplacement = tache[u].emplacement
                                   /\ tache[u].emplacement # tache[t].emplacement
    BY <1>2, <1>4, <1>8 DEF SlotInv
  <2>2. tache'[t].emplacement = Aucun /\ Aucun \notin libres
    BY <1>2, <1>8, Tailles DEF Repos, TypeOK
  <2>3. \A d \in Cids : /\ cid'[d].emplacement = cid[d].emplacement /\ cid[d].emplacement # Aucun
                        /\ cid[d].etat = "quarantaine" => /\ cid[d].emplacement # tache[t].emplacement
                                                          /\ cid'[d].etat = "quarantaine"
                        /\ cid'[d].etat = "quarantaine" => d = c \/ cid[d].etat = "quarantaine"
    BY <1>2, <1>7, Tailles DEF SlotInv, TypeOK
  <2>4. tache[t].emplacement \notin libres
    BY <1>2 DEF SlotInv
  <2> QED BY <1>2, <1>3, <1>6, <1>7, <2>1, <2>2, <2>3, <2>4 DEF SlotInv
<1>13. TableInv(ou, com)'
  <2>1. tache'[t].cid = Aucun /\ tache'[t].pas = "repos"
    BY <1>8 DEF Repos
  <2> QED BY <1>2, <1>6, <1>7, <1>8, <2>1, CidLaisse
<1>14. PhaseInv' /\ Porte(ou, com)' /\ Occupe(ou)' /\ SqInv(ou)'
  <2>1. \A d \in Cids : ou[d] # Hors => cid'[d].emplacement = cid[d].emplacement
    BY <1>7
  <2> QED BY <1>2, <1>3, <1>11, <2>1, AnneauxFixes
<1>15. \E z \in Suivies : Inv(z[1], z[2])'
  BY <1>13, <1>14 DEF Inv, ou, com
<1> QED BY <1>9, <1>10, <1>12, <1>14, <1>15 DEF IInv

----------------------------------------------------------------------------
(* The submission *)

(* what stands between the head we know and our tail is under way *)
LEMMA SqCids ==
    ASSUME TypeOK, NEW ou, NEW com, Porte(ou, com), SqInv(ou), NEW i \in Sq, DSq(i) < DSq(queue)
    PROVE  sq[i] \in Ordres /\ sq[i].cid \in Cids /\ ou[sq[i].cid] # Hors
<1>1. DSq(i) \in Sq /\ DSq(ctl.tete) \in Sq
  BY Distances
<1>2. CASE DSq(i) < DSq(ctl.tete)
  <2>1. sq[i] \in Ordres /\ Suivi(ou, sq[i].cid, -1)
    BY <1>2 DEF SqInv, Lue
  <2> QED BY <2>1, Distances, LieuxDistincts DEF Suivi
<1>3. CASE DSq(ctl.tete) <= DSq(i)
  <2>1. sq[i] \in Ordres /\ ou[sq[i].cid] = EnSq(i)
    BY <1>3 DEF Porte, Posee
  <2> QED BY <2>1, Distances, LieuxDistincts
<1> QED BY <1>1, <1>2, <1>3 DEF Sq

(* The room left, as pose counts it. *)
LEMMA PlacesFaits ==
    ASSUME TypeOK
    PROVE  Places = EntreesSq - 1 - DSq(queue)
<1> DEFINE x == tete + EntreesSq - queue - 1
<1>1. tete \in Sq /\ queue \in Sq
  BY Distances
<1>2. x \in 0..(2 * EntreesSq - 1)
  BY <1>1, Tailles DEF Sq
<1> HIDE DEF x
<1>3. x % EntreesSq = IF x < EntreesSq THEN x ELSE x - EntreesSq
  BY <1>2, Tailles, ModPetit
<1> QED BY <1>1, <1>3, Tailles DEF x, Places, DSq, Ecart, Sq

(* The submission ring never refuses: its commands hold distinct slots, and  *)
(* the task that submits holds one more.                                     *)
LEMMA SqPasPleine ==
    ASSUME TypeOK, PasInv, SlotInv, NEW ou, NEW com, Porte(ou, com), SqInv(ou), TableInv(ou, com),
           NEW t \in Taches, tache[t].pas = "soumet"
    PROVE  DSq(queue) < EntreesSq - 1 /\ Places # 0
<1> DEFINE d == DSq(queue)
           p(k) == Entree(tete, k, EntreesSq)
           e == tache[t].emplacement
           S == Emplacements \ {e}
           f == [k \in 0..(d - 1) |-> cid[sq[p(k)].cid].emplacement]
<1>1. d \in Sq /\ tete \in Sq /\ queue \in Sq
  BY Distances
<1>2. tache[t].cid # Aucun /\ e # Aucun
  BY DEF PasInv
<1>3. tache[t] \in Fiches
  BY FichesFaits
<1>4. tache[t].cid \in Cids /\ e \in Emplacements
  BY <1>2, <1>3 DEF Fiches
<1>5. ou[tache[t].cid] = Hors
  BY DEF TableInv
<1>6. ASSUME NEW k \in 0..(d - 1)
      PROVE  /\ p(k) \in Sq /\ DSq(p(k)) = k /\ sq[p(k)].cid \in Cids /\ ou[sq[p(k)].cid] # Hors
             /\ cid[sq[p(k)].cid].etat # "libre"
  <2>1. k \in 0..(EntreesSq - 1)
    BY <1>1, Tailles DEF Sq
  <2>2. p(k) \in Sq /\ DSq(p(k)) = k
    BY <1>1, <2>1, Tailles, EcartFaits DEF Sq, DSq
  <2>3. DSq(p(k)) < DSq(queue)
    BY <1>1, <2>2 DEF Sq
  <2> HIDE DEF p
  <2>4. sq[p(k)].cid \in Cids /\ ou[sq[p(k)].cid] # Hors
    BY <2>2, <2>3, SqCids
  <2> QED BY <2>2, <2>4 DEF TableInv
<1>7. ASSUME NEW k \in 0..(d - 1)
      PROVE  cid[sq[p(k)].cid].emplacement \in S
  <2> DEFINE c == sq[p(k)].cid
  <2>1. c \in Cids /\ cid[c].etat # "libre" /\ ou[c] # Hors
    BY <1>6
  <2> HIDE DEF c
  <2>2. /\ cid[c].emplacement \in Emplacements
        /\ \A u \in Taches : tache[u].emplacement = cid[c].emplacement => tache[u].cid = c
    BY <2>1, EmplacementsDesCids
  <2>3. cid[c].emplacement # e
    BY <1>5, <2>1, <2>2
  <2> QED BY <2>2, <2>3 DEF c
<1>8. ASSUME NEW k \in 0..(d - 1), NEW l \in 0..(d - 1), f[k] = f[l]
      PROVE  k = l
  <2> DEFINE c == sq[p(k)].cid
             b == sq[p(l)].cid
  <2>1. c \in Cids /\ cid[c].etat # "libre" /\ b \in Cids /\ cid[b].etat # "libre"
    BY <1>6
  <2>2. cid[c].emplacement = cid[b].emplacement
    BY <1>8
  <2>3. c = b
    <3> HIDE DEF c, b
    <3> QED BY <2>1, <2>2, EmplacementsDesCids
  <2>4. p(k) \in Sq /\ p(l) \in Sq /\ DSq(p(k)) = k /\ DSq(p(l)) = l
    BY <1>6
  <2>5. DSq(p(k)) < DSq(queue) /\ DSq(p(l)) < DSq(queue)
    BY <1>1, <2>4 DEF Sq
  <2> HIDE DEF p
  <2>6. p(k) = p(l)
    BY <2>3, <2>4, <2>5 DEF SqInv
  <2> QED BY <2>4, <2>6
<1>9. f \in [0..(d - 1) -> S]
  BY <1>7
<1>10. f \in Injection(0..(d - 1), S)
  <2> HIDE DEF f, S, p
  <2>1. DOMAIN f = 0..(d - 1)
    BY <1>9
  <2> QED BY <1>8, <1>9, <2>1 DEF Injection, IsInjective
<1>11. IsFiniteSet(Emplacements) /\ Cardinality(Emplacements) = NbEmplacements
  BY FS_Interval, Tailles DEF Emplacements
<1>12. IsFiniteSet(S) /\ Cardinality(S) = NbEmplacements - 1
  BY <1>4, <1>11, FS_RemoveElement
<1>13. IsFiniteSet(0..(d - 1)) /\ Cardinality(0..(d - 1)) = d
  <2>1. d \in Nat
    BY <1>1 DEF Sq
  <2> HIDE DEF d
  <2> QED BY <2>1, FS_Interval
<1>14. d <= NbEmplacements - 1
  <2> HIDE DEF f, S
  <2>1. Cardinality(0..(d - 1)) <= Cardinality(S)
    BY <1>10, <1>12, FS_Injection
  <2> QED BY <1>12, <1>13, <2>1
<1> QED BY <1>1, <1>14, PlacesFaits, Tailles DEF Sq

(* pose and the doorbell: the command is in the ring, under its identifier. *)
LEMMA SoumetInv ==
    ASSUME IInv, NEW t \in Taches, Soumet(t)
    PROVE  IInv'
<1>1. PICK s \in Suivies : Inv(s[1], s[2])
  BY DEF IInv
<1> DEFINE ou == s[1]
           com == s[2]
           c == tache[t].cid
           e == tache[t].emplacement
           o == [cid |-> c, commande |-> tache[t].commande, emplacement |-> e]
           r == [tache[t] EXCEPT !.pas = "attend"]
<1>2. /\ TypeOK /\ PhaseInv /\ PasInv /\ SlotInv /\ Porte(ou, com) /\ Occupe(ou) /\ SqInv(ou) /\ TableInv(ou, com)
      /\ ou \in [Cids -> Lieux] /\ com \in [Cids -> 0..MaxCommandes]
  BY <1>1 DEF IInv, Inv, Suivies
<1> HIDE DEF ou, com
<1>3. tache[t].pas = "soumet" /\ UNCHANGED <<cid, curseur, tete, cq, cqTete, phase, suite, hors, numero>>
  BY DEF Soumet, Pas, suivi
<1>4. DSq(queue) < EntreesSq - 1 /\ Places # 0
  BY <1>2, <1>3, SqPasPleine
<1>5. /\ sq' = [sq EXCEPT ![queue] = o] /\ queue' = (queue + 1) % EntreesSq
      /\ ctl' = [ctl EXCEPT !.sonnee = queue'] /\ Met(t, r) /\ UNCHANGED libres
  BY <1>4 DEF Soumet
<1>6. c # Aucun /\ e # Aucun /\ tache[t].commande # Aucun /\ tache[t].lot = <<>>
  BY <1>2, <1>3 DEF PasInv
<1>7. tache[t] \in Fiches
  BY <1>2, FichesFaits
<1>8. c \in Cids /\ e \in Emplacements /\ tache[t].commande \in Commandes
  BY <1>6, <1>7 DEF Fiches
<1>9. cid[c].etat = "vol" /\ ou[c] = Hors /\ cid[c].emplacement = e /\ \A u \in Taches : u # t => tache[u].cid # c
  BY <1>2, <1>3, <1>6 DEF TableInv
<1>10. o \in Ordres /\ o.cid = c /\ o.commande = tache[t].commande /\ o.emplacement = e
  BY <1>8 DEF Ordres
<1>11. r \in Fiches /\ r.pas = "attend" /\ r.cid = c /\ r.emplacement = e /\ r.commande = tache[t].commande
       /\ r.lot = tache[t].lot
  BY <1>7 DEF Fiches
<1>12. PICK ou2 \in [Cids -> Lieux], com2 \in [Cids -> 0..MaxCommandes] :
          /\ ou2[c] = EnSq(queue) /\ \A x \in Cids : x # c => ou2[x] = ou[x]
          /\ com2[c] = tache[t].commande /\ \A x \in Cids : x # c => com2[x] = com[x]
  <2> DEFINE o2 == [ou EXCEPT ![c] = EnSq(queue)]
             m2 == [com EXCEPT ![c] = tache[t].commande]
  <2>1. EnSq(queue) \in Lieux
    BY <1>2, LieuxTypes, Distances
  <2>2. tache[t].commande \in 0..MaxCommandes
    BY <1>8, Tailles DEF Commandes
  <2>3. o2 \in [Cids -> Lieux] /\ o2[c] = EnSq(queue) /\ \A x \in Cids : x # c => o2[x] = ou[x]
    BY <1>2, <1>8, <2>1
  <2>4. m2 \in [Cids -> 0..MaxCommandes] /\ m2[c] = tache[t].commande /\ \A x \in Cids : x # c => m2[x] = com[x]
    BY <1>2, <1>8, <2>2
  <2> HIDE DEF o2, m2
  <2> QED BY <2>3, <2>4
<1>13. /\ ctl'.tete = ctl.tete /\ ctl'.enCours = ctl.enCours /\ ctl'.cqQueue = ctl.cqQueue /\ ctl'.phase = ctl.phase
       /\ ctl'.cqTete = ctl.cqTete /\ ctl'.sonnee = queue'
  BY <1>2, <1>5 DEF TypeOK
<1>14. /\ queue \in Sq /\ queue' \in Sq /\ DSq(queue)' = DSq(queue) + 1 /\ DSq(queue) \in Sq
       /\ \A i : DSq(i)' = DSq(i) /\ DCq(i)' = DCq(i) /\ Attendue(i)' = Attendue(i)
  <2>1. tete \in Sq /\ queue \in Sq /\ DSq(queue) \in Sq
    BY <1>2, Distances
  <2>2. (queue + 1) % EntreesSq # tete
    BY <1>4, <2>1, Tailles, SuivantFaits DEF DSq, Sq
  <2>3. queue' \in Sq /\ Ecart(queue', tete, EntreesSq) = Ecart(queue, tete, EntreesSq) + 1
    BY <1>5, <2>1, <2>2, Tailles, SuivantFaits DEF Sq
  <2> QED BY <1>3, <2>1, <2>3 DEF DSq, DCq, Attendue
<1>15. /\ sq'[queue] = o /\ \A i \in Sq : i # queue => sq'[i] = sq[i]
  BY <1>2, <1>5, <1>14 DEF TypeOK, Sq
<1>16. TypeOK'
  <2>1. tache' \in [Taches -> Fiches]
    BY <1>2, <1>5, <1>11, MetType
  <2>2. sq' \in [0..(EntreesSq - 1) -> Ordres \cup {Aucun}]
    BY <1>2, <1>5, <1>10, <1>14 DEF TypeOK, Sq
  <2>3. ctl' \in [tete : 0..(EntreesSq - 1), enCours : SUBSET Ordres, cqQueue : 0..(EntreesCq - 1),
                  phase : BOOLEAN, cqTete : 0..(EntreesCq - 1), sonnee : 0..(EntreesSq - 1)]
    BY <1>2, <1>5, <1>14 DEF TypeOK, Sq
  <2>4. queue' \in 0..(EntreesSq - 1)
    BY <1>14 DEF Sq
  <2> HIDE DEF r, o
  <2> QED BY <1>2, <1>3, <1>5, <2>1, <2>2, <2>3, <2>4 DEF TypeOK, Fiches
<1> HIDE DEF c, e, o, r
<1>17. tache'[t] = r /\ \A u \in Taches : u # t => tache'[u] = tache[u]
  BY <1>2, <1>5, MetFaits
<1>18. PasInv'
  BY <1>2, <1>6, <1>11, <1>17 DEF PasInv, c, e
<1>19. \A u \in Taches : /\ tache'[u].emplacement = tache[u].emplacement /\ tache'[u].lot = tache[u].lot
                         /\ tache'[u].cid = tache[u].cid /\ tache'[u].commande = tache[u].commande
  BY <1>11, <1>17 DEF c, e
<1>20. SlotInv'
  BY <1>2, <1>3, <1>5, <1>19 DEF SlotInv
<1>21. /\ \A i \in Sq : DSq(i) < DSq(queue) => sq[i] \in Ordres /\ sq[i].cid \in Cids /\ sq[i].cid # c /\ sq'[i] = sq[i]
       /\ \A i \in Sq : DSq(i) < DSq(queue) + 1 <=> DSq(i) < DSq(queue) \/ i = queue
  <2>1. \A i \in Sq : DSq(i) < DSq(queue) => sq[i] \in Ordres /\ sq[i].cid \in Cids /\ sq[i].cid # c
    BY <1>2, <1>9, SqCids
  <2>2. \A i \in Sq : DSq(i) < DSq(queue) => i # queue
    BY <1>14 DEF Sq
  <2>3. \A i \in Sq : DSq(i) < DSq(queue) + 1 <=> DSq(i) < DSq(queue) \/ i = queue
    BY <1>2, <1>14, Distances DEF Sq
  <2> QED BY <1>15, <2>1, <2>2, <2>3
<1>22. /\ \A i \in Sq : Posee(i)' <=> Posee(i) \/ i = queue
       /\ \A i : Lue(i)' <=> Lue(i)
       /\ \A i : Achevee(i)' <=> Achevee(i)
  <2>1. \A i \in Sq : Posee(i)' <=> DSq(ctl.tete) <= DSq(i) /\ DSq(i) < DSq(queue) + 1
    BY <1>13, <1>14 DEF Posee
  <2>2. DSq(ctl.tete) <= DSq(queue)
    BY <1>2 DEF SqInv
  <2> QED BY <1>13, <1>14, <1>21, <2>1, <2>2 DEF Posee, Lue, Achevee
<1>23. \A x \in Cids : \A d : x # c => (Suivi(ou, x, d) => \/ ou2[x] = AuCtl
                                                           \/ \E j \in Cq : Achevee(j)' /\ d < DCq(j)' /\ ou2[x] = EnCq(j))
  BY <1>12, <1>14, <1>22 DEF Suivi
<1>24. Porte(ou2, com2)'
  <2>1. \A i \in Sq : Posee(i)' => /\ sq'[i] \in Ordres /\ ou2[sq'[i].cid] = EnSq(i)
                                   /\ sq'[i].commande = com2[sq'[i].cid]
                                   /\ sq'[i].emplacement = cid'[sq'[i].cid].emplacement
    <3> TAKE i \in Sq
    <3> HAVE Posee(i)'
    <3>1. CASE i = queue
      BY <1>3, <1>9, <1>10, <1>12, <1>15, <3>1
    <3>2. CASE i # queue
      <4>1. Posee(i)
        BY <1>22, <3>2
      <4>2. /\ sq[i] \in Ordres /\ ou[sq[i].cid] = EnSq(i) /\ sq[i].commande = com[sq[i].cid]
            /\ sq[i].emplacement = cid[sq[i].cid].emplacement
        BY <1>2, <4>1 DEF Porte
      <4>3. sq[i].cid \in Cids /\ sq[i].cid # c /\ sq'[i] = sq[i]
        BY <1>21, <4>1 DEF Posee
      <4> QED BY <1>3, <1>12, <4>2, <4>3
    <3> QED BY <3>1, <3>2
  <2>2. \A x \in ctl'.enCours : /\ ou2[x.cid] = AuCtl /\ x.commande = com2[x.cid]
                                /\ x.emplacement = cid'[x.cid].emplacement
    <3> TAKE x \in ctl'.enCours
    <3>1. /\ x \in Ordres /\ ou[x.cid] = AuCtl /\ x.commande = com[x.cid]
          /\ x.emplacement = cid[x.cid].emplacement
      BY <1>2, <1>13 DEF Porte, TypeOK
    <3>2. x.cid \in Cids /\ x.cid # c
      BY <1>9, <3>1, LieuxDistincts DEF Ordres
    <3> QED BY <1>3, <1>12, <3>1, <3>2
  <2>3. \A i \in Cq : Achevee(i)' => /\ cq'[i].cid \in Cids /\ ou2[cq'[i].cid] = EnCq(i)
                                     /\ cq'[i].commande = com2[cq'[i].cid]
    <3> TAKE i \in Cq
    <3> HAVE Achevee(i)'
    <3>1. cq[i].cid \in Cids /\ ou[cq[i].cid] = EnCq(i) /\ cq[i].commande = com[cq[i].cid]
      BY <1>2, <1>22 DEF Porte
    <3> QED BY <1>3, <1>9, <1>12, <3>1, LieuxDistincts
  <2>4. \A u \in Taches : \A k \in 1..Len(tache'[u].lot) :
           LET a == tache'[u].lot[k] IN a.cid \in Cids /\ ou2[a.cid] = EnLot(u, k) /\ a.commande = com2[a.cid]
    <3> TAKE u \in Taches
    <3> TAKE k \in 1..Len(tache'[u].lot)
    <3> DEFINE a == tache[u].lot[k]
    <3>1. a.cid \in Cids /\ ou[a.cid] = EnLot(u, k) /\ a.commande = com[a.cid]
      BY <1>2, <1>19 DEF Porte
    <3> HIDE DEF a
    <3>2. a.cid \in Cids /\ ou2[a.cid] = EnLot(u, k) /\ a.commande = com2[a.cid]
      BY <1>9, <1>12, <3>1, LieuxDistincts
    <3> QED BY <1>19, <3>2 DEF a
  <2> QED BY <2>1, <2>2, <2>3, <2>4 DEF Porte
<1>25. Occupe(ou2)'
  <2> SUFFICES ASSUME NEW x \in Cids
               PROVE  \/ ou2[x] = Hors
                      \/ \E i \in Sq : Posee(i)' /\ sq'[i].cid = x
                      \/ \E y \in ctl'.enCours : y.cid = x
                      \/ \E i \in Cq : Achevee(i)' /\ cq'[i].cid = x
                      \/ \E u \in Taches : \E k \in 1..Len(tache'[u].lot) : tache'[u].lot[k].cid = x
    BY DEF Occupe
  <2>1. CASE x = c
    BY <1>10, <1>14, <1>15, <1>22, <2>1
  <2>2. CASE x # c
    <3>1. CASE \E i \in Sq : Posee(i) /\ sq[i].cid = x
      BY <1>21, <1>22, <3>1 DEF Posee
    <3>2. CASE ou[x] = Hors
      BY <1>12, <2>2, <3>2
    <3>3. CASE \/ \E y \in ctl.enCours : y.cid = x
               \/ \E i \in Cq : Achevee(i) /\ cq[i].cid = x
               \/ \E u \in Taches : \E k \in 1..Len(tache[u].lot) : tache[u].lot[k].cid = x
      BY <1>3, <1>13, <1>19, <1>22, <3>3
    <3> QED BY <1>2, <3>1, <3>2, <3>3 DEF Occupe
  <2> QED BY <2>1, <2>2
<1>26. SqInv(ou2)'
  <2>1. ctl'.sonnee = queue' /\ DSq(ctl.tete)' <= DSq(queue)'
    <3>1. DSq(ctl.tete) <= DSq(queue) /\ DSq(ctl.tete) \in Sq
      BY <1>2, Distances DEF SqInv
    <3> QED BY <1>13, <1>14, <3>1 DEF Sq
  <2>2. \A i \in Sq : Lue(i) => DSq(i) < DSq(queue)
    <3>1. DSq(ctl.tete) <= DSq(queue) /\ DSq(ctl.tete) \in Sq /\ \A i \in Sq : DSq(i) \in Sq
      BY <1>2, Distances DEF SqInv
    <3> QED BY <1>14, <3>1 DEF Lue, Sq
  <2>3. \A i \in Sq : Lue(i)' => sq'[i] \in Ordres /\ Suivi(ou2, sq[i].cid, -1)'
    <3> TAKE i \in Sq
    <3> HAVE Lue(i)'
    <3>1. sq[i] \in Ordres /\ Suivi(ou, sq[i].cid, -1) /\ sq[i].cid \in Cids /\ sq[i].cid # c /\ sq'[i] = sq[i]
      BY <1>2, <1>21, <1>22, <2>2 DEF SqInv
    <3> QED BY <1>23, <3>1 DEF Suivi
  <2>4. \A i, j \in Sq : DSq(i)' < DSq(queue)' /\ DSq(j)' < DSq(queue)' /\ sq'[i].cid = sq'[j].cid => i = j
    BY <1>2, <1>10, <1>14, <1>15, <1>21 DEF SqInv
  <2>5. \A j \in Cq : Achevee(j)' =>
          /\ DSq(cq[j].tete)' <= DSq(ctl.tete)'
          /\ \A i \in Sq : Lue(i)' /\ DSq(cq[j].tete)' <= DSq(i)' => Suivi(ou2, sq[i].cid, DCq(j))'
    <3> TAKE j \in Cq
    <3> HAVE Achevee(j)'
    <3>1. /\ DSq(cq[j].tete) <= DSq(ctl.tete)
          /\ \A i \in Sq : Lue(i) /\ DSq(cq[j].tete) <= DSq(i) => Suivi(ou, sq[i].cid, DCq(j))
      BY <1>2, <1>22 DEF SqInv
    <3>2. DSq(cq[j].tete)' = DSq(cq[j].tete) /\ DSq(ctl.tete)' = DSq(ctl.tete)
      BY <1>3, <1>13, <1>14
    <3>3. ASSUME NEW i \in Sq, Lue(i)', DSq(cq[j].tete)' <= DSq(i)'
          PROVE  Suivi(ou2, sq[i].cid, DCq(j))'
      <4>1. Suivi(ou, sq[i].cid, DCq(j)) /\ sq[i].cid \in Cids /\ sq[i].cid # c /\ sq'[i] = sq[i]
        BY <1>14, <1>21, <1>22, <2>2, <3>1, <3>2, <3>3
      <4> QED BY <1>14, <1>23, <4>1 DEF Suivi
    <3> QED BY <3>1, <3>2, <3>3
  <2>6. \A j, k \in Cq : Achevee(j)' /\ Achevee(k)' /\ DCq(j)' <= DCq(k)' => DSq(cq[j].tete)' <= DSq(cq[k].tete)'
    BY <1>2, <1>3, <1>14, <1>22 DEF SqInv
  <2> QED BY <2>1, <2>3, <2>4, <2>5, <2>6 DEF SqInv
<1>27. TableInv(ou2, com2)'
  <2>1. \A x \in Cids : /\ cid'[x].etat \in {"libre", "acheve"} => ou2[x] = Hors
                        /\ cid'[x].etat = "quarantaine" => ou2[x] # Hors
                        /\ cid'[x].etat \in {"vol", "acheve"} <=> \E u \in Taches : tache'[u].cid = x
    BY <1>2, <1>3, <1>9, <1>12, <1>19 DEF TableInv
  <2>2. \A u \in Taches : LET x == tache'[u].cid IN
            /\ tache'[u].pas = "soumet" => cid'[x].etat = "vol" /\ ou2[x] = Hors
            /\ tache'[u].pas = "attend" /\ cid'[x].etat = "vol" => ou2[x] # Hors /\ com2[x] = tache'[u].commande
            /\ tache'[u].pas = "attend" /\ cid'[x].etat = "acheve" => cid'[x].statut = tache'[u].commande
            /\ x # Aucun => cid'[x].emplacement = tache'[u].emplacement
    <3> TAKE u \in Taches
    <3>1. CASE u = t
      BY <1>3, <1>9, <1>11, <1>12, <1>17, <3>1, LieuxDistincts
    <3>2. CASE u # t
      <4>1. tache'[u] = tache[u] /\ tache[u].cid # c /\ tache[u] \in Fiches
        BY <1>2, <1>9, <1>17, <3>2, FichesFaits
      <4>2. tache[u].pas \in {"soumet", "attend"} => tache[u].cid \in Cids
        BY <1>2, <4>1 DEF PasInv, Fiches
      <4> QED BY <1>2, <1>3, <1>12, <4>1, <4>2 DEF TableInv
    <3> QED BY <3>1, <3>2
  <2>3. \A u, v \in Taches : u # v /\ tache'[u].cid # Aucun => tache'[u].cid # tache'[v].cid
    BY <1>2, <1>19 DEF TableInv
  <2> QED BY <2>1, <2>2, <2>3 DEF TableInv
<1>28. PhaseInv'
  BY <1>2, <1>3, <1>13, <1>14, <1>22 DEF PhaseInv
<1>29. \E z \in Suivies : Inv(z[1], z[2])'
  <2>1. <<ou2, com2>> \in Suivies
    BY <1>12 DEF Suivies
  <2> QED BY <1>24, <1>25, <1>26, <1>27, <2>1 DEF Inv
<1> QED BY <1>16, <1>18, <1>20, <1>28, <1>29 DEF IInv

----------------------------------------------------------------------------
(* The steps that move commands *)

(* a command that moves leaves the table, the tasks and the slots alone *)
LEMMA TableGardee ==
    ASSUME TypeOK, PasInv, SlotInv, NEW ou, NEW com, TableInv(ou, com), NEW ou2,
           UNCHANGED <<cid, libres>>, \A x \in Cids : ou2[x] = Hors <=> ou[x] = Hors,
           \A u \in Taches : /\ tache'[u].emplacement = tache[u].emplacement /\ tache'[u].pas = tache[u].pas
                             /\ tache'[u].cid = tache[u].cid /\ tache'[u].commande = tache[u].commande
    PROVE  TableInv(ou2, com)' /\ SlotInv'
<1>1. SlotInv'
  BY DEF SlotInv
<1>2. \A x \in Cids : /\ cid'[x].etat \in {"libre", "acheve"} => ou2[x] = Hors
                      /\ cid'[x].etat = "quarantaine" => ou2[x] # Hors
                      /\ cid'[x].etat \in {"vol", "acheve"} <=> \E u \in Taches : tache'[u].cid = x
  BY DEF TableInv
<1>3. \A u \in Taches : LET x == tache'[u].cid IN
          /\ tache'[u].pas = "soumet" => cid'[x].etat = "vol" /\ ou2[x] = Hors
          /\ tache'[u].pas = "attend" /\ cid'[x].etat = "vol" => ou2[x] # Hors /\ com[x] = tache'[u].commande
          /\ tache'[u].pas = "attend" /\ cid'[x].etat = "acheve" => cid'[x].statut = tache'[u].commande
          /\ x # Aucun => cid'[x].emplacement = tache'[u].emplacement
  <2> TAKE u \in Taches
  <2>1. tache[u] \in Fiches
    BY FichesFaits
  <2>2. tache[u].pas \in {"soumet", "attend"} => tache[u].cid \in Cids
    BY <2>1 DEF PasInv, Fiches
  <2> QED BY <2>2 DEF TableInv
<1>4. \A u, v \in Taches : u # v /\ tache'[u].cid # Aucun => tache'[u].cid # tache'[v].cid
  BY DEF TableInv
<1> QED BY <1>1, <1>2, <1>3, <1>4 DEF TableInv

(* one identifier is somewhere else *)
LEMMA Deplace ==
    ASSUME NEW ou \in [Cids -> Lieux], NEW c \in Cids, NEW l \in Lieux
    PROVE  \E ou2 \in [Cids -> Lieux] : ou2[c] = l /\ \A x \in Cids : x # c => ou2[x] = ou[x]
<1> DEFINE o2 == [ou EXCEPT ![c] = l]
<1>1. o2 \in [Cids -> Lieux] /\ o2[c] = l /\ \A x \in Cids : x # c => o2[x] = ou[x]
  OBVIOUS
<1> QED BY <1>1

(* The controller fetches the next command. *)
LEMMA LitInv ==
    ASSUME IInv, Lit
    PROVE  IInv'
<1>1. PICK s \in Suivies : Inv(s[1], s[2])
  BY DEF IInv
<1> DEFINE ou == s[1]
           com == s[2]
           h == ctl.tete
           c == sq[h].cid
<1>2. /\ TypeOK /\ PhaseInv /\ PasInv /\ SlotInv /\ Porte(ou, com) /\ Occupe(ou) /\ SqInv(ou) /\ TableInv(ou, com)
      /\ ou \in [Cids -> Lieux] /\ com \in [Cids -> 0..MaxCommandes]
  BY <1>1 DEF IInv, Inv, Suivies
<1> HIDE DEF ou, com
<1>3. /\ h # ctl.sonnee
      /\ UNCHANGED <<libres, cid, curseur, sq, queue, tete, cq, cqTete, phase, suite, hors, tache, numero>>
      /\ ctl' = [ctl EXCEPT !.tete = (h + 1) % EntreesSq, !.enCours = ctl.enCours \cup {sq[h]}]
  BY DEF Lit, suivi, anneaux
<1>4. /\ h \in Sq /\ tete \in Sq /\ queue \in Sq /\ DSq(h) \in Sq /\ DSq(queue) \in Sq
      /\ ctl.sonnee = queue /\ DSq(h) <= DSq(queue)
  BY <1>2, Distances DEF SqInv
<1>5. DSq(h) < DSq(queue) /\ Posee(h)
  <2>1. DSq(h) # DSq(queue)
    BY <1>2, <1>3, <1>4, Distances
  <2> QED BY <1>4, <2>1 DEF Posee, Sq
<1>6. /\ sq[h] \in Ordres /\ c \in Cids /\ ou[c] = EnSq(h) /\ sq[h].commande = com[c]
      /\ sq[h].emplacement = cid[c].emplacement
  BY <1>2, <1>4, <1>5 DEF Porte, Ordres
<1>7. /\ ctl'.tete = (h + 1) % EntreesSq /\ ctl'.enCours = ctl.enCours \cup {sq[h]} /\ ctl'.cqQueue = ctl.cqQueue
      /\ ctl'.phase = ctl.phase /\ ctl'.cqTete = ctl.cqTete /\ ctl'.sonnee = ctl.sonnee
  BY <1>2, <1>3 DEF TypeOK
<1>8. /\ ctl'.tete \in Sq /\ DSq(ctl.tete)' = DSq(h) + 1
      /\ \A i : DSq(i)' = DSq(i) /\ DCq(i)' = DCq(i) /\ Attendue(i)' = Attendue(i)
  <2>1. DSq(h) # EntreesSq - 1
    BY <1>4, <1>5, Tailles DEF Sq
  <2>2. (h + 1) % EntreesSq # tete
    BY <1>4, <2>1, Tailles, SuivantFaits, SMTT(30) DEF DSq, Sq
  <2>3. (h + 1) % EntreesSq \in Sq /\ Ecart((h + 1) % EntreesSq, tete, EntreesSq) = Ecart(h, tete, EntreesSq) + 1
    <3> HIDE DEF h
    <3>1. h \in 0..(EntreesSq - 1) /\ tete \in 0..(EntreesSq - 1) /\ EntreesSq \in Nat \ {0}
      BY <1>4, Tailles DEF Sq
    <3>2. /\ (h + 1) % EntreesSq \in 0..(EntreesSq - 1)
          /\ (h + 1) % EntreesSq # tete => Ecart((h + 1) % EntreesSq, tete, EntreesSq) = Ecart(h, tete, EntreesSq) + 1
      BY <3>1, SuivantFaits
    <3> QED BY <2>2, <3>2 DEF Sq
  <2> QED BY <1>3, <1>7, <2>3 DEF DSq, DCq, Attendue
<1>9. TypeOK'
  <2>1. ctl' \in [tete : 0..(EntreesSq - 1), enCours : SUBSET Ordres, cqQueue : 0..(EntreesCq - 1),
                  phase : BOOLEAN, cqTete : 0..(EntreesCq - 1), sonnee : 0..(EntreesSq - 1)]
    <3>1. (h + 1) % EntreesSq \in 0..(EntreesSq - 1)
      BY <1>7, <1>8 DEF Sq
    <3>2. ctl.enCours \cup {sq[h]} \in SUBSET Ordres
      BY <1>2, <1>6 DEF TypeOK
    <3> QED BY <1>2, <1>3, <3>1, <3>2 DEF TypeOK
  <2> QED BY <1>2, <1>3, <2>1 DEF TypeOK
<1>10. PICK ou2 \in [Cids -> Lieux] : ou2[c] = AuCtl /\ \A x \in Cids : x # c => ou2[x] = ou[x]
  BY <1>2, <1>6, LieuxTypes, Deplace
<1> DEFINE o == sq[h]
<1>11. o \in Ordres /\ o.cid = c /\ o.commande = com[c] /\ o.emplacement = cid[c].emplacement
  BY <1>6
<1>12. /\ \A i \in Sq : Posee(i)' <=> Posee(i) /\ i # h
       /\ \A i \in Sq : Lue(i)' <=> Lue(i) \/ i = h
       /\ \A i : Achevee(i)' <=> Achevee(i)
  <2>1. \A i \in Sq : DSq(i) \in Sq /\ (DSq(i) = DSq(h) => i = h)
    BY <1>2, <1>4, Distances
  <2>2. \A i \in Sq : (Posee(i)' <=> DSq(h) + 1 <= DSq(i) /\ DSq(i) < DSq(queue)) /\ (Lue(i)' <=> DSq(i) < DSq(h) + 1)
    BY <1>3, <1>8 DEF Posee, Lue
  <2>3. \A i : Achevee(i)' <=> Achevee(i)
    BY <1>7, <1>8 DEF Achevee
  <2> QED BY <1>4, <2>1, <2>2, <2>3 DEF Posee, Lue, Sq
<1> HIDE DEF c, o, h
<1>13. \A x \in Cids : \A d : Suivi(ou, x, d) => \/ ou2[x] = AuCtl
                                                 \/ \E j \in Cq : Achevee(j)' /\ d < DCq(j)' /\ ou2[x] = EnCq(j)
  BY <1>8, <1>10, <1>12 DEF Suivi
<1>14. Porte(ou2, com)'
  <2>1. \A i \in Sq : Posee(i)' => /\ sq'[i] \in Ordres /\ ou2[sq'[i].cid] = EnSq(i)
                                   /\ sq'[i].commande = com[sq'[i].cid]
                                   /\ sq'[i].emplacement = cid'[sq'[i].cid].emplacement
    <3> TAKE i \in Sq
    <3> HAVE Posee(i)'
    <3>1. Posee(i) /\ i # h
      BY <1>12
    <3>2. /\ sq[i] \in Ordres /\ ou[sq[i].cid] = EnSq(i) /\ sq[i].commande = com[sq[i].cid]
          /\ sq[i].emplacement = cid[sq[i].cid].emplacement
      BY <1>2, <3>1 DEF Porte
    <3>3. sq[i].cid \in Cids /\ sq[i].cid # c
      BY <1>6, <3>1, <3>2, LieuxDistincts DEF Ordres
    <3> QED BY <1>3, <1>10, <3>2, <3>3
  <2>2. \A x \in ctl'.enCours : /\ ou2[x.cid] = AuCtl /\ x.commande = com[x.cid]
                                /\ x.emplacement = cid'[x.cid].emplacement
    <3> TAKE x \in ctl'.enCours
    <3>1. CASE x = o
      BY <1>3, <1>10, <1>11, <3>1
    <3>2. CASE x \in ctl.enCours
      <4>1. /\ x \in Ordres /\ ou[x.cid] = AuCtl /\ x.commande = com[x.cid]
            /\ x.emplacement = cid[x.cid].emplacement
        BY <1>2, <3>2 DEF Porte, TypeOK
      <4>2. x.cid \in Cids
        BY <4>1 DEF Ordres
      <4> QED BY <1>3, <1>10, <4>1, <4>2
    <3> QED BY <1>7, <3>1, <3>2 DEF o
  <2>3. \A i \in Cq : Achevee(i)' => /\ cq'[i].cid \in Cids /\ ou2[cq'[i].cid] = EnCq(i)
                                     /\ cq'[i].commande = com[cq'[i].cid]
    <3> TAKE i \in Cq
    <3> HAVE Achevee(i)'
    <3>1. cq[i].cid \in Cids /\ ou[cq[i].cid] = EnCq(i) /\ cq[i].commande = com[cq[i].cid]
      BY <1>2, <1>12 DEF Porte
    <3> QED BY <1>3, <1>6, <1>10, <3>1, LieuxDistincts
  <2>4. \A u \in Taches : \A k \in 1..Len(tache'[u].lot) :
           LET a == tache'[u].lot[k] IN a.cid \in Cids /\ ou2[a.cid] = EnLot(u, k) /\ a.commande = com[a.cid]
    <3> TAKE u \in Taches
    <3> TAKE k \in 1..Len(tache'[u].lot)
    <3> DEFINE a == tache[u].lot[k]
    <3>1. a.cid \in Cids /\ ou[a.cid] = EnLot(u, k) /\ a.commande = com[a.cid]
      BY <1>2, <1>3 DEF Porte
    <3> HIDE DEF a
    <3>2. a.cid \in Cids /\ ou2[a.cid] = EnLot(u, k) /\ a.commande = com[a.cid]
      BY <1>6, <1>10, <3>1, LieuxDistincts
    <3> QED BY <1>3, <3>2 DEF a
  <2> QED BY <2>1, <2>2, <2>3, <2>4 DEF Porte
<1>15. Occupe(ou2)'
  <2> SUFFICES ASSUME NEW x \in Cids
               PROVE  \/ ou2[x] = Hors
                      \/ \E i \in Sq : Posee(i)' /\ sq'[i].cid = x
                      \/ \E y \in ctl'.enCours : y.cid = x
                      \/ \E i \in Cq : Achevee(i)' /\ cq'[i].cid = x
                      \/ \E u \in Taches : \E k \in 1..Len(tache'[u].lot) : tache'[u].lot[k].cid = x
    BY DEF Occupe
  <2>1. CASE x = c
    BY <1>7, <1>11, <2>1 DEF o
  <2>2. CASE x # c
    <3>1. CASE \E i \in Sq : Posee(i) /\ sq[i].cid = x
      BY <1>3, <1>12, <2>2, <3>1 DEF c
    <3>2. CASE ou[x] = Hors
      BY <1>10, <2>2, <3>2
    <3>3. CASE \/ \E y \in ctl.enCours : y.cid = x
               \/ \E i \in Cq : Achevee(i) /\ cq[i].cid = x
               \/ \E u \in Taches : \E k \in 1..Len(tache[u].lot) : tache[u].lot[k].cid = x
      BY <1>3, <1>7, <1>12, <3>3
    <3> QED BY <1>2, <3>1, <3>2, <3>3 DEF Occupe
  <2> QED BY <2>1, <2>2
<1>16. SqInv(ou2)'
  <2>1. ctl'.sonnee = queue' /\ DSq(ctl.tete)' <= DSq(queue)'
    BY <1>3, <1>4, <1>5, <1>7, <1>8 DEF Sq
  <2>2. \A i \in Sq : Lue(i)' => sq'[i] \in Ordres /\ Suivi(ou2, sq[i].cid, -1)'
    <3> TAKE i \in Sq
    <3> HAVE Lue(i)'
    <3>1. CASE i = h
      BY <1>3, <1>10, <1>11, <3>1 DEF Suivi, o, c
    <3>2. CASE Lue(i)
      <4>1. sq[i] \in Ordres /\ Suivi(ou, sq[i].cid, -1)
        BY <1>2, <3>2 DEF SqInv
      <4> QED BY <1>3, <1>13, <4>1 DEF Suivi, Ordres
    <3> QED BY <1>12, <3>1, <3>2
  <2>3. \A i, j \in Sq : DSq(i)' < DSq(queue)' /\ DSq(j)' < DSq(queue)' /\ sq'[i].cid = sq'[j].cid => i = j
    BY <1>2, <1>3, <1>8 DEF SqInv
  <2>4. \A j \in Cq : Achevee(j)' =>
          /\ DSq(cq[j].tete)' <= DSq(ctl.tete)'
          /\ \A i \in Sq : Lue(i)' /\ DSq(cq[j].tete)' <= DSq(i)' => Suivi(ou2, sq[i].cid, DCq(j))'
    <3> TAKE j \in Cq
    <3> HAVE Achevee(j)'
    <3>1. /\ DSq(cq[j].tete) <= DSq(h)
          /\ \A i \in Sq : Lue(i) /\ DSq(cq[j].tete) <= DSq(i) => sq[i] \in Ordres /\ Suivi(ou, sq[i].cid, DCq(j))
      BY <1>2, <1>12 DEF SqInv, h
    <3>2. DSq(cq[j].tete)' = DSq(cq[j].tete) /\ DSq(cq[j].tete) \in Sq
      <4>1. cq[j].tete \in Sq
        BY <1>2 DEF TypeOK, Sq, Cq, Reponses
      <4> QED BY <1>2, <1>3, <1>8, <4>1, Distances
    <3>3. ASSUME NEW i \in Sq, Lue(i)', DSq(cq[j].tete)' <= DSq(i)'
          PROVE  Suivi(ou2, sq[i].cid, DCq(j))'
      <4>1. CASE i = h
        BY <1>3, <1>10, <4>1 DEF Suivi, c
      <4>2. CASE Lue(i)
        <5>1. Suivi(ou, sq[i].cid, DCq(j)) /\ sq[i].cid \in Cids
          BY <1>8, <3>1, <3>2, <3>3, <4>2 DEF Ordres
        <5> QED BY <1>3, <1>8, <1>13, <5>1 DEF Suivi
      <4> QED BY <1>12, <3>3, <4>1, <4>2
    <3> QED BY <1>4, <1>8, <3>1, <3>2, <3>3 DEF Sq
  <2>5. \A j, k \in Cq : Achevee(j)' /\ Achevee(k)' /\ DCq(j)' <= DCq(k)' => DSq(cq[j].tete)' <= DSq(cq[k].tete)'
    BY <1>2, <1>3, <1>8, <1>12 DEF SqInv
  <2> QED BY <2>1, <2>2, <2>3, <2>4, <2>5 DEF SqInv
<1>17. TableInv(ou2, com)' /\ SlotInv'
  <2>1. \A x \in Cids : ou2[x] = Hors <=> ou[x] = Hors
    BY <1>6, <1>10, LieuxDistincts
  <2> QED BY <1>2, <1>3, <2>1, TableGardee
<1>18. PhaseInv' /\ PasInv'
  BY <1>2, <1>3, <1>7, <1>8, <1>12 DEF PhaseInv, PasInv
<1>19. \E z \in Suivies : Inv(z[1], z[2])'
  <2>1. <<ou2, com>> \in Suivies
    BY <1>2, <1>10 DEF Suivies
  <2> QED BY <1>14, <1>15, <1>16, <1>17, <2>1 DEF Inv
<1> QED BY <1>9, <1>17, <1>18, <1>19 DEF IInv

(* The controller posts a completion, with the head it has reached. *)
LEMMA RepondInv ==
    ASSUME IInv, Repond
    PROVE  IInv'
<1>1. PICK s \in Suivies : Inv(s[1], s[2])
  BY DEF IInv
<1>0. PICK o \in ctl.enCours :
          /\ cq' = [cq EXCEPT ![ctl.cqQueue] =
                      [phase |-> ctl.phase, cid |-> o.cid, commande |-> o.commande, tete |-> ctl.tete]]
          /\ ctl' = [ctl EXCEPT !.enCours = @ \ {o}, !.cqQueue = (@ + 1) % EntreesCq,
                                !.phase = IF ctl.cqQueue + 1 = EntreesCq THEN ~@ ELSE @]
  BY DEF Repond
<1> DEFINE ou == s[1]
           com == s[2]
           q == ctl.cqQueue
           c == o.cid
           a == [phase |-> ctl.phase, cid |-> c, commande |-> o.commande, tete |-> ctl.tete]
<1>2. /\ TypeOK /\ PhaseInv /\ PasInv /\ SlotInv /\ Porte(ou, com) /\ Occupe(ou) /\ SqInv(ou) /\ TableInv(ou, com)
      /\ ou \in [Cids -> Lieux] /\ com \in [Cids -> 0..MaxCommandes]
  BY <1>1 DEF IInv, Inv, Suivies
<1> HIDE DEF ou, com
<1>3. /\ (q + 1) % EntreesCq # ctl.cqTete /\ cq' = [cq EXCEPT ![q] = a]
      /\ UNCHANGED <<libres, cid, curseur, sq, queue, tete, cqTete, phase, suite, hors, tache, numero>>
  BY <1>0 DEF Repond, suivi
<1>4. /\ ctl'.enCours = ctl.enCours \ {o} /\ ctl'.cqQueue = (q + 1) % EntreesCq /\ ctl'.tete = ctl.tete
      /\ ctl'.phase = (IF q + 1 = EntreesCq THEN ~ctl.phase ELSE ctl.phase)
      /\ ctl'.cqTete = ctl.cqTete /\ ctl'.sonnee = ctl.sonnee
  BY <1>0, <1>2 DEF TypeOK
<1>5. /\ q \in Cq /\ cqTete \in Cq /\ ctl.cqTete = cqTete /\ DCq(q) \in Cq /\ \A i \in Cq : DCq(i) \in Cq
      /\ ctl.tete \in Sq /\ DSq(ctl.tete) \in Sq /\ (\A i \in Sq : DSq(i) \in Sq)
  BY <1>2, Distances DEF PhaseInv
<1>6. /\ o \in Ordres /\ c \in Cids /\ ou[c] = AuCtl /\ o.commande = com[c] /\ o.emplacement = cid[c].emplacement
  BY <1>2 DEF Porte, TypeOK, Ordres
<1>7. \A y \in ctl.enCours : y # o => y.cid \in Cids /\ y.cid # c
  <2> SUFFICES ASSUME NEW y \in ctl.enCours PROVE y.cid \in Cids /\ (y.cid = c => y = o)
    OBVIOUS
  <2>1. y \in Ordres /\ y.commande = com[y.cid] /\ y.emplacement = cid[y.cid].emplacement
    BY <1>2 DEF Porte, TypeOK
  <2> QED BY <1>6, <2>1 DEF Ordres
<1>8. ctl'.cqQueue \in Cq /\ Ecart((q + 1) % EntreesCq, cqTete, EntreesCq) = DCq(q) + 1
      /\ (q + 1) % EntreesCq = (IF q + 1 = EntreesCq THEN 0 ELSE q + 1)
  <2> HIDE DEF q
  <2>1. q \in 0..(EntreesCq - 1) /\ cqTete \in 0..(EntreesCq - 1) /\ EntreesCq \in Nat \ {0}
    BY <1>5, Tailles DEF Cq
  <2>2. /\ (q + 1) % EntreesCq \in 0..(EntreesCq - 1)
        /\ (q + 1) % EntreesCq # cqTete => Ecart((q + 1) % EntreesCq, cqTete, EntreesCq) = Ecart(q, cqTete, EntreesCq) + 1
        /\ (q + 1) % EntreesCq = IF q + 1 = EntreesCq THEN 0 ELSE q + 1
    BY <2>1, SuivantFaits, ZenonT(30)
  <2> QED BY <1>3, <1>4, <1>5, <2>2 DEF Cq, DCq
<1>9. /\ DCq(ctl.cqQueue)' = DCq(q) + 1
      /\ \A i : DSq(i)' = DSq(i) /\ DCq(i)' = DCq(i) /\ Attendue(i)' = Attendue(i)
  BY <1>3, <1>4, <1>8 DEF DSq, DCq, Attendue
<1>10. a \in Reponses /\ a.phase = ctl.phase /\ a.cid = c /\ a.commande = com[c] /\ a.tete = ctl.tete
  <2>1. c \in 0..NbCid /\ o.commande \in 0..MaxCommandes /\ ctl.tete \in 0..(EntreesSq - 1) /\ ctl.phase \in BOOLEAN
    <3> HIDE DEF c
    <3>1. o.commande \in Commandes /\ c \in Cids
      BY <1>6 DEF Ordres
    <3>2. c \in 0..NbCid /\ o.commande \in 0..MaxCommandes
      BY <3>1, Tailles DEF Cids, Commandes
    <3> QED BY <1>2, <3>2 DEF TypeOK
  <2> QED BY <1>6, <2>1 DEF Reponses
<1> HIDE DEF a, c
<1>11. cq' \in [Cq -> Reponses] /\ cq'[q] = a /\ \A i \in Cq : i # q => cq'[i] = cq[i]
  BY <1>2, <1>3, <1>5, <1>10 DEF TypeOK, Cq
<1>12. TypeOK'
  <2>1. ctl' \in [tete : 0..(EntreesSq - 1), enCours : SUBSET Ordres, cqQueue : 0..(EntreesCq - 1),
                  phase : BOOLEAN, cqTete : 0..(EntreesCq - 1), sonnee : 0..(EntreesSq - 1)]
    <3>1. (q + 1) % EntreesCq \in 0..(EntreesCq - 1)
      BY <1>4, <1>8 DEF Cq
    <3> DEFINE p == IF q + 1 = EntreesCq THEN ~ctl.phase ELSE ctl.phase
    <3>2. ctl' = [ctl EXCEPT !.enCours = ctl.enCours \ {o}, !.cqQueue = (q + 1) % EntreesCq, !.phase = p]
      BY <1>0
    <3>3. p \in BOOLEAN /\ ctl.enCours \ {o} \in SUBSET Ordres
      BY <1>2 DEF TypeOK
    <3> HIDE DEF p
    <3> QED BY <1>2, <3>1, <3>2, <3>3 DEF TypeOK
  <2> QED BY <1>2, <1>3, <1>11, <2>1 DEF TypeOK, Cq
<1>13. PICK ou2 \in [Cids -> Lieux] : ou2[c] = EnCq(q) /\ \A x \in Cids : x # c => ou2[x] = ou[x]
  BY <1>2, <1>5, <1>6, LieuxTypes, Deplace, ZenonT(30)
<1>14. /\ \A i : Posee(i)' <=> Posee(i)
       /\ \A i : Lue(i)' <=> Lue(i)
       /\ \A i \in Cq : Achevee(i)' <=> Achevee(i) \/ i = q
       /\ ~Achevee(q)
  <2>1. \A i : Achevee(i)' <=> DCq(i) < DCq(q) + 1
    BY <1>9 DEF Achevee
  <2>2. \A i \in Cq : DCq(i) = DCq(q) => i = q
    BY <1>2, <1>5, Distances
  <2>3. ~Achevee(q)
    BY <1>5 DEF Achevee, Cq
  <2>4. \A i \in Cq : Achevee(i)' <=> Achevee(i) \/ i = q
    BY <1>5, <2>1, <2>2 DEF Achevee, Cq
  <2> QED BY <1>3, <1>4, <1>9, <2>3, <2>4 DEF Posee, Lue
<1>15. PhaseInv'
  <2>1. ctl.phase = Attendue(q) /\ phase \in BOOLEAN /\ ctl.phase \in BOOLEAN
    BY <1>2 DEF PhaseInv, TypeOK
  <2>2. ctl'.phase = Attendue((q + 1) % EntreesCq)
    <3>1. CASE q + 1 = EntreesCq
      <4>1. (q + 1) % EntreesCq = 0 /\ cqTete # 0 /\ q >= cqTete /\ ~(0 >= cqTete)
        BY <1>3, <1>5, <1>8, <3>1 DEF Cq
      <4>2. Attendue(q) = phase /\ Attendue(0) = ~phase
        BY <4>1 DEF Attendue
      <4> QED BY <1>4, <2>1, <3>1, <4>1, <4>2, Zenon
    <3>2. CASE q + 1 # EntreesCq
      <4>1. (q + 1) % EntreesCq = q + 1 /\ (q >= cqTete <=> q + 1 >= cqTete)
        BY <1>3, <1>5, <1>8, <3>2 DEF Cq
      <4>2. Attendue(q) = Attendue(q + 1)
        BY <4>1 DEF Attendue
      <4> QED BY <1>4, <2>1, <3>2, <4>1, <4>2
    <3> QED BY <3>1, <3>2
  <2>3. ctl'.phase = Attendue(ctl.cqQueue)'
    BY <1>4, <1>9, <2>2
  <2>4. \A i \in Cq : cq'[i].phase = Attendue(i)' <=> Achevee(i)'
    <3> TAKE i \in Cq
    <3>1. CASE i = q
      BY <1>9, <1>10, <1>11, <1>14, <2>1, <3>1
    <3>2. CASE i # q
      BY <1>2, <1>9, <1>11, <1>14, <3>2 DEF PhaseInv
    <3> QED BY <3>1, <3>2
  <2> QED BY <1>3, <1>4, <1>5, <2>3, <2>4 DEF PhaseInv
<1> HIDE DEF q
<1>16. \A x \in Cids : \A d : Suivi(ou, x, d) /\ d < DCq(q) =>
           \/ ou2[x] = AuCtl
           \/ \E j \in Cq : Achevee(j)' /\ d < DCq(j)' /\ ou2[x] = EnCq(j)
  <2> SUFFICES ASSUME NEW x \in Cids, NEW d, Suivi(ou, x, d), d < DCq(q)
               PROVE  \/ ou2[x] = AuCtl
                      \/ \E j \in Cq : Achevee(j)' /\ d < DCq(j)' /\ ou2[x] = EnCq(j)
    OBVIOUS
  <2>1. CASE x = c
    BY <1>5, <1>9, <1>13, <1>14, <2>1
  <2>2. CASE x # c
    BY <1>9, <1>13, <1>14, <2>2 DEF Suivi
  <2> QED BY <2>1, <2>2
<1>17. Porte(ou2, com)'
  <2>1. \A i \in Sq : Posee(i)' => /\ sq'[i] \in Ordres /\ ou2[sq'[i].cid] = EnSq(i)
                                   /\ sq'[i].commande = com[sq'[i].cid]
                                   /\ sq'[i].emplacement = cid'[sq'[i].cid].emplacement
    <3> TAKE i \in Sq
    <3> HAVE Posee(i)'
    <3>1. /\ sq[i] \in Ordres /\ ou[sq[i].cid] = EnSq(i) /\ sq[i].commande = com[sq[i].cid]
          /\ sq[i].emplacement = cid[sq[i].cid].emplacement
      BY <1>2, <1>14 DEF Porte
    <3>2. sq[i].cid \in Cids /\ sq[i].cid # c
      BY <1>6, <3>1, LieuxDistincts DEF Ordres
    <3> QED BY <1>3, <1>13, <3>1, <3>2
  <2>2. \A x \in ctl'.enCours : /\ ou2[x.cid] = AuCtl /\ x.commande = com[x.cid]
                                /\ x.emplacement = cid'[x.cid].emplacement
    <3> TAKE x \in ctl'.enCours
    <3>1. x \in ctl.enCours /\ x # o
      BY <1>4
    <3>2. ou[x.cid] = AuCtl /\ x.commande = com[x.cid] /\ x.emplacement = cid[x.cid].emplacement
      BY <1>2, <3>1 DEF Porte
    <3> QED BY <1>3, <1>7, <1>13, <3>1, <3>2
  <2>3. \A i \in Cq : Achevee(i)' => /\ cq'[i].cid \in Cids /\ ou2[cq'[i].cid] = EnCq(i)
                                     /\ cq'[i].commande = com[cq'[i].cid]
    <3> TAKE i \in Cq
    <3> HAVE Achevee(i)'
    <3>1. CASE i = q
      BY <1>6, <1>10, <1>11, <1>13, <3>1
    <3>2. CASE i # q
      <4>1. cq[i].cid \in Cids /\ ou[cq[i].cid] = EnCq(i) /\ cq[i].commande = com[cq[i].cid]
        BY <1>2, <1>14, <3>2 DEF Porte
      <4> QED BY <1>6, <1>11, <1>13, <3>2, <4>1, LieuxDistincts
    <3> QED BY <3>1, <3>2
  <2>4. \A u \in Taches : \A k \in 1..Len(tache'[u].lot) :
           LET b == tache'[u].lot[k] IN b.cid \in Cids /\ ou2[b.cid] = EnLot(u, k) /\ b.commande = com[b.cid]
    <3> TAKE u \in Taches
    <3> TAKE k \in 1..Len(tache'[u].lot)
    <3> DEFINE b == tache[u].lot[k]
    <3>1. b.cid \in Cids /\ ou[b.cid] = EnLot(u, k) /\ b.commande = com[b.cid]
      BY <1>2, <1>3 DEF Porte
    <3> HIDE DEF b
    <3>2. b.cid \in Cids /\ ou2[b.cid] = EnLot(u, k) /\ b.commande = com[b.cid]
      BY <1>6, <1>13, <3>1, LieuxDistincts
    <3> QED BY <1>3, <3>2 DEF b
  <2> QED BY <2>1, <2>2, <2>3, <2>4 DEF Porte
<1>18. Occupe(ou2)'
  <2> SUFFICES ASSUME NEW x \in Cids
               PROVE  \/ ou2[x] = Hors
                      \/ \E i \in Sq : Posee(i)' /\ sq'[i].cid = x
                      \/ \E y \in ctl'.enCours : y.cid = x
                      \/ \E i \in Cq : Achevee(i)' /\ cq'[i].cid = x
                      \/ \E u \in Taches : \E k \in 1..Len(tache'[u].lot) : tache'[u].lot[k].cid = x
    BY DEF Occupe
  <2>1. CASE x = c
    BY <1>5, <1>10, <1>11, <1>14, <2>1
  <2>2. CASE x # c
    <3>1. CASE \E y \in ctl.enCours : y.cid = x
      BY <1>4, <2>2, <3>1 DEF c
    <3>2. CASE ou[x] = Hors
      BY <1>13, <2>2, <3>2
    <3>3. CASE \E i \in Cq : Achevee(i) /\ cq[i].cid = x
      BY <1>11, <1>14, <3>3
    <3>4. CASE \/ \E i \in Sq : Posee(i) /\ sq[i].cid = x
               \/ \E u \in Taches : \E k \in 1..Len(tache[u].lot) : tache[u].lot[k].cid = x
      BY <1>3, <1>14, <3>4
    <3> QED BY <1>2, <3>1, <3>2, <3>3, <3>4 DEF Occupe
  <2> QED BY <2>1, <2>2
<1>19. SqInv(ou2)'
  <2>1. ctl'.sonnee = queue' /\ DSq(ctl.tete)' <= DSq(queue)'
    BY <1>2, <1>3, <1>4, <1>9 DEF SqInv
  <2>2. \A i \in Sq : Lue(i)' => sq'[i] \in Ordres /\ Suivi(ou2, sq[i].cid, -1)'
    <3> TAKE i \in Sq
    <3> HAVE Lue(i)'
    <3>1. sq[i] \in Ordres /\ Suivi(ou, sq[i].cid, -1)
      BY <1>2, <1>14 DEF SqInv
    <3>2. -1 < DCq(q) /\ sq[i].cid \in Cids
      BY <1>5, <3>1 DEF Cq, Ordres
    <3> QED BY <1>3, <1>16, <3>1, <3>2 DEF Suivi
  <2>3. \A i, j \in Sq : DSq(i)' < DSq(queue)' /\ DSq(j)' < DSq(queue)' /\ sq'[i].cid = sq'[j].cid => i = j
    BY <1>2, <1>3, <1>9 DEF SqInv
  <2>4. \A j \in Cq : Achevee(j) => /\ cq'[j] = cq[j] /\ DSq(cq[j].tete)' = DSq(cq[j].tete)
                                    /\ DSq(cq[j].tete) <= DSq(ctl.tete) /\ DCq(j) < DCq(q)
    BY <1>2, <1>9, <1>11, <1>14 DEF SqInv, Achevee, q
  <2>5. DSq(ctl.tete)' = DSq(ctl.tete)
    BY <1>4, <1>9
  <2>6. \A j \in Cq : Achevee(j)' =>
          /\ DSq(cq[j].tete)' <= DSq(ctl.tete)'
          /\ \A i \in Sq : Lue(i)' /\ DSq(cq[j].tete)' <= DSq(i)' => Suivi(ou2, sq[i].cid, DCq(j))'
    <3> TAKE j \in Cq
    <3> HAVE Achevee(j)'
    <3>1. CASE j = q
      <4>1. DSq(cq'[q].tete) = DSq(ctl.tete)
        BY <1>10, <1>11
      <4>2. DSq(cq[j].tete)' = DSq(ctl.tete)
        BY <1>9, <3>1, <4>1
      <4>3. \A i \in Sq : ~(Lue(i)' /\ DSq(ctl.tete) <= DSq(i))
        BY <1>5, <1>14 DEF Lue, Sq
      <4> QED BY <1>5, <1>9, <2>5, <4>2, <4>3 DEF Sq
    <3>2. CASE j # q
      <4>1. Achevee(j)
        BY <1>14, <3>2
      <4>2. DSq(cq[j].tete)' = DSq(cq[j].tete) /\ DCq(j)' = DCq(j)
        BY <1>9, <2>4, <4>1
      <4>3. ASSUME NEW i \in Sq, Lue(i)', DSq(cq[j].tete)' <= DSq(i)'
            PROVE  Suivi(ou2, sq[i].cid, DCq(j))'
        <5>1. Suivi(ou, sq[i].cid, DCq(j)) /\ sq[i].cid \in Cids
          BY <1>2, <1>9, <1>14, <4>1, <4>2, <4>3 DEF SqInv, Ordres
        <5> QED BY <1>3, <1>16, <2>4, <4>1, <4>2, <5>1 DEF Suivi
      <4> QED BY <2>4, <2>5, <4>1, <4>2, <4>3
    <3> QED BY <3>1, <3>2
  <2>7. \A j, k \in Cq : Achevee(j)' /\ Achevee(k)' /\ DCq(j)' <= DCq(k)' => DSq(cq[j].tete)' <= DSq(cq[k].tete)'
    <3> SUFFICES ASSUME NEW j \in Cq, NEW k \in Cq, Achevee(j)', Achevee(k)', DCq(j) <= DCq(k)
                 PROVE  DSq(cq[j].tete)' <= DSq(cq[k].tete)'
      BY <1>9
    <3>0. \A i \in Cq : i = q => DSq(cq[i].tete)' = DSq(ctl.tete)
      BY <1>9, <1>10, <1>11
    <3>1. CASE k = q
      <4>1. CASE j = q
        BY <1>5, <3>0, <3>1, <4>1 DEF Sq
      <4>2. CASE j # q
        BY <1>14, <2>4, <3>0, <3>1, <4>2
      <4> QED BY <4>1, <4>2
    <3>2. CASE k # q
      <4>1. Achevee(k) /\ DCq(k) < DCq(q)
        BY <1>14, <2>4, <3>2
      <4>2. j # q
        BY <1>5, <4>1 DEF Cq
      <4> QED BY <1>2, <1>14, <2>4, <4>1, <4>2 DEF SqInv
    <3> QED BY <3>1, <3>2
  <2> QED BY <2>1, <2>2, <2>3, <2>6, <2>7 DEF SqInv
<1>20. TableInv(ou2, com)' /\ SlotInv'
  <2>1. \A x \in Cids : ou2[x] = Hors <=> ou[x] = Hors
    BY <1>6, <1>13, LieuxDistincts
  <2> QED BY <1>2, <1>3, <2>1, TableGardee
<1>21. PasInv'
  BY <1>2, <1>3 DEF PasInv
<1>22. \E z \in Suivies : Inv(z[1], z[2])'
  <2>1. <<ou2, com>> \in Suivies
    BY <1>2, <1>13 DEF Suivies
  <2> QED BY <1>17, <1>18, <1>19, <1>20, <2>1 DEF Inv
<1> QED BY <1>12, <1>15, <1>20, <1>21, <1>22 DEF IInv

(* range, on the completions of a batch: each is the only one of its          *)
(* identifier, which is in flight, and takes the status of its own command,   *)
(* or in quarantine, and gives its slot back.                                 *)
LEMMA RangeInv ==
    ASSUME IInv, NEW t \in Taches, RangeLeLot(t)
    PROVE  IInv'
<1>1. PICK s \in Suivies : Inv(s[1], s[2])
  BY DEF IInv
<1> DEFINE ou == s[1]
           com == s[2]
           L == tache[t].lot
           r == [tache[t] EXCEPT !.lot = <<>>]
           Dans(x) == \E i \in DOMAIN L : L[i].cid = x
<1>2. /\ TypeOK /\ PhaseInv /\ PasInv /\ SlotInv /\ Porte(ou, com) /\ Occupe(ou) /\ SqInv(ou) /\ TableInv(ou, com)
      /\ ou \in [Cids -> Lieux] /\ com \in [Cids -> 0..MaxCommandes]
  BY <1>1 DEF IInv, Inv, Suivies
<1> HIDE DEF ou, com
<1>3. /\ L # <<>> /\ cid' = Rangee(L) /\ libres' = libres \cup Rendus(L) /\ Met(t, r)
      /\ UNCHANGED <<curseur, anneaux, suite, hors, numero, ctl>>
  BY DEF RangeLeLot
<1>4. L \in Seq(Reponses) /\ DOMAIN L = 1..Len(L) /\ tache[t] \in Fiches
  BY <1>2, FichesFaits
<1>5. r \in Fiches /\ r.lot = <<>> /\ r.pas = tache[t].pas /\ r.cid = tache[t].cid /\ r.commande = tache[t].commande
      /\ r.emplacement = tache[t].emplacement
  <2>1. <<>> \in Seq(Reponses)
    OBVIOUS
  <2>2. tache[t] \in Fiches
    BY <1>4
  <2> QED BY <2>1, <2>2 DEF Fiches
<1>6. \A k \in DOMAIN L : L[k].cid \in Cids /\ ou[L[k].cid] = EnLot(t, k) /\ L[k].commande = com[L[k].cid]
  BY <1>2, <1>4 DEF Porte
<1>7. tache'[t] = r /\ \A u \in Taches : u # t => tache'[u] = tache[u]
  BY <1>2, <1>3, MetFaits
<1>8. tache' \in [Taches -> Fiches]
  BY <1>2, <1>3, <1>5, MetType
<1> HIDE DEF r, L
<1>9. \A x \in Cids : Dans(x) => /\ \E k \in DOMAIN L : ou[x] = EnLot(t, k)
                                 /\ ou[x] # Hors /\ Premier(L, x).commande = com[x]
                                 /\ cid[x].etat \in {"vol", "quarantaine"}
  <2> SUFFICES ASSUME NEW x \in Cids, Dans(x)
               PROVE  /\ \E k \in DOMAIN L : ou[x] = EnLot(t, k)
                      /\ ou[x] # Hors /\ Premier(L, x).commande = com[x]
                      /\ cid[x].etat \in {"vol", "quarantaine"}
    OBVIOUS
  <2>1. PICK i \in DOMAIN L : L[i].cid = x
    OBVIOUS
  <2>2. ou[x] = EnLot(t, i) /\ ou[x] # Hors
    BY <1>6, <2>1, LieuxDistincts
  <2>3. \A j \in 1..(i - 1) : L[j].cid # x
    <3> SUFFICES ASSUME NEW j \in 1..(i - 1), L[j].cid = x PROVE FALSE
      OBVIOUS
    <3>1. i \in 1..Len(L) /\ Len(L) \in Nat
      BY <1>4, LenProperties
    <3>2. j \in DOMAIN L /\ j # i
      BY <1>4, <3>1
    <3> QED BY <1>6, <2>2, <3>2, LieuxDistincts
  <2> DEFINE k == CHOOSE i2 \in DOMAIN L : L[i2].cid = x /\ \A j \in 1..(i2 - 1) : L[j].cid # x
  <2>4. k \in DOMAIN L /\ L[k].cid = x
    BY <2>1, <2>3
  <2>5. Premier(L, x) = L[k]
    BY DEF Premier
  <2> HIDE DEF k
  <2>6. Premier(L, x).commande = com[x]
    BY <1>6, <2>4, <2>5
  <2>7. cid[x].etat \in {"libre", "vol", "acheve", "quarantaine"}
    BY <1>2 DEF TypeOK
  <2> QED BY <1>2, <2>2, <2>6, <2>7 DEF TableInv
<1>10. \A x \in Cids : cid[x] \in Etats
  BY <1>2 DEF TypeOK, Etats
<1>11. \A x \in Cids : cid'[x] = IF Dans(x) THEN RangeUn(cid[x], Premier(L, x)) ELSE cid[x]
  BY <1>3 DEF Rangee
<1> HIDE DEF Dans
<1>12. ASSUME NEW x \in Cids
       PROVE  /\ cid'[x] \in Etats /\ cid'[x].emplacement = cid[x].emplacement
              /\ ~Dans(x) => cid'[x] = cid[x]
              /\ Dans(x) /\ cid[x].etat = "vol" => cid'[x].etat = "acheve" /\ cid'[x].statut = com[x]
              /\ Dans(x) /\ cid[x].etat = "quarantaine" => cid'[x].etat = "libre"
  <2>1. CASE ~Dans(x)
    BY <1>10, <1>11, <2>1
  <2>2. CASE Dans(x) /\ cid[x].etat = "vol"
    <3> DEFINE a == Premier(L, x)
    <3>1. a.commande = com[x] /\ com[x] \in 0..MaxCommandes
      BY <1>2, <1>9, <2>2
    <3> HIDE DEF a
    <3>2. cid'[x] = [cid[x] EXCEPT !.etat = "acheve", !.statut = com[x]]
      BY <1>11, <2>2, <3>1 DEF RangeUn, a
    <3>3. cid[x] \in Etats
      BY <1>10
    <3> QED BY <2>2, <3>1, <3>2, <3>3 DEF Etats
  <2>3. CASE Dans(x) /\ cid[x].etat = "quarantaine"
    <3>1. cid'[x] = [cid[x] EXCEPT !.etat = "libre"]
      BY <1>11, <2>3 DEF RangeUn
    <3>2. cid[x] \in Etats
      BY <1>10
    <3> QED BY <2>3, <3>1, <3>2 DEF Etats
  <2> QED BY <1>9, <2>1, <2>2, <2>3
<1>13. \A e : e \in Rendus(L) <=> \E x \in Cids : Dans(x) /\ cid[x].etat = "quarantaine" /\ cid[x].emplacement = e
  <2>1. ToSet(L) = {L[i] : i \in DOMAIN L}
    BY DEF ToSet
  <2> QED BY <1>6, <2>1 DEF Rendus, Dans
<1>14. TypeOK'
  <2>1. cid' \in [Cids -> Etats]
    <3>1. cid' = [x \in Cids |-> cid'[x]]
      BY <1>3 DEF Rangee
    <3> QED BY <1>12, <3>1
  <2>2. libres' \subseteq Emplacements
    BY <1>2, <1>3, <1>10, <1>13 DEF TypeOK, Etats
  <2> QED BY <1>2, <1>3, <1>8, <2>1, <2>2 DEF TypeOK, Etats, Fiches, anneaux
<1>15. PasInv'
  BY <1>2, <1>5, <1>7 DEF PasInv
<1>16. \A u \in Taches : /\ tache'[u].emplacement = tache[u].emplacement /\ tache'[u].pas = tache[u].pas
                         /\ tache'[u].cid = tache[u].cid /\ tache'[u].commande = tache[u].commande
  BY <1>5, <1>7
<1>17. \A x \in Cids : /\ cid'[x].etat = "quarantaine" <=> cid[x].etat = "quarantaine" /\ ~Dans(x)
                       /\ cid'[x].etat \in {"vol", "acheve"} <=> cid[x].etat \in {"vol", "acheve"}
                       /\ cid'[x].etat = "vol" <=> cid[x].etat = "vol" /\ ~Dans(x)
  BY <1>9, <1>12
<1>18. SlotInv'
  <2>1. \A u \in Taches : tache'[u].emplacement \notin libres'
    BY <1>2, <1>3, <1>13, <1>16 DEF SlotInv
  <2>2. \A x \in Cids : cid'[x].etat = "quarantaine" =>
          cid'[x].emplacement \notin libres' /\ \A u \in Taches : tache'[u].emplacement # cid'[x].emplacement
    BY <1>2, <1>3, <1>12, <1>13, <1>16, <1>17 DEF SlotInv
  <2>3. \A x, y \in Cids : cid'[x].etat = "quarantaine" /\ cid'[y].etat = "quarantaine"
                             /\ cid'[x].emplacement = cid'[y].emplacement => x = y
    BY <1>2, <1>12, <1>17 DEF SlotInv
  <2>4. \A e \in Emplacements : \/ e \in libres'
                                \/ \E u \in Taches : tache'[u].emplacement = e
                                \/ \E x \in Cids : cid'[x].etat = "quarantaine" /\ cid'[x].emplacement = e
    <3> TAKE e \in Emplacements
    <3>1. CASE \E x \in Cids : cid[x].etat = "quarantaine" /\ cid[x].emplacement = e
      BY <1>3, <1>12, <1>13, <1>17, <3>1
    <3> QED BY <1>2, <1>3, <1>16, <3>1 DEF SlotInv
  <2>5. \A u, v \in Taches : u # v /\ tache'[u].emplacement # Aucun => tache'[u].emplacement # tache'[v].emplacement
    BY <1>2, <1>16 DEF SlotInv
  <2> QED BY <2>1, <2>2, <2>3, <2>4, <2>5 DEF SlotInv
<1>19. PICK ou2 \in [Cids -> Lieux] : \A x \in Cids : ou2[x] = IF Dans(x) THEN Hors ELSE ou[x]
  <2> DEFINE o2 == [x \in Cids |-> IF Dans(x) THEN Hors ELSE ou[x]]
  <2>1. o2 \in [Cids -> Lieux] /\ \A x \in Cids : o2[x] = IF Dans(x) THEN Hors ELSE ou[x]
    BY <1>2, LieuxTypes
  <2> QED BY <2>1
<1>20. \A x \in Cids : ou[x] = AuCtl \/ (\E i : ou[x] = EnSq(i) \/ ou[x] = EnCq(i)) \/ (\E u, k : u # t /\ ou[x] = EnLot(u, k))
                       => ou2[x] = ou[x] /\ ~Dans(x)
  BY <1>9, <1>19, LieuxDistincts
<1>21. /\ sq' = sq /\ queue' = queue /\ tete' = tete /\ cq' = cq /\ cqTete' = cqTete /\ phase' = phase /\ ctl' = ctl
       /\ \A i : DSq(i)' = DSq(i) /\ DCq(i)' = DCq(i) /\ Attendue(i)' = Attendue(i)
  BY <1>3 DEF anneaux, DSq, DCq, Attendue
<1>22. \A i : (Posee(i)' <=> Posee(i)) /\ (Lue(i)' <=> Lue(i)) /\ (Achevee(i)' <=> Achevee(i))
  BY <1>21 DEF Posee, Lue, Achevee
<1>23. Porte(ou2, com)'
  <2>1. \A i \in Sq : Posee(i)' => /\ sq'[i] \in Ordres /\ ou2[sq'[i].cid] = EnSq(i)
                                   /\ sq'[i].commande = com[sq'[i].cid]
                                   /\ sq'[i].emplacement = cid'[sq'[i].cid].emplacement
    <3> TAKE i \in Sq
    <3> HAVE Posee(i)'
    <3>1. /\ sq[i] \in Ordres /\ ou[sq[i].cid] = EnSq(i) /\ sq[i].commande = com[sq[i].cid]
          /\ sq[i].emplacement = cid[sq[i].cid].emplacement /\ sq[i].cid \in Cids
      BY <1>2, <1>22 DEF Porte, Ordres
    <3> QED BY <1>12, <1>20, <1>21, <3>1
  <2>2. \A x \in ctl'.enCours : /\ ou2[x.cid] = AuCtl /\ x.commande = com[x.cid]
                                /\ x.emplacement = cid'[x.cid].emplacement
    <3> TAKE x \in ctl'.enCours
    <3>1. /\ ou[x.cid] = AuCtl /\ x.commande = com[x.cid] /\ x.emplacement = cid[x.cid].emplacement /\ x.cid \in Cids
      BY <1>2, <1>21 DEF Porte, TypeOK, Ordres
    <3> QED BY <1>12, <1>20, <3>1
  <2>3. \A i \in Cq : Achevee(i)' => /\ cq'[i].cid \in Cids /\ ou2[cq'[i].cid] = EnCq(i)
                                     /\ cq'[i].commande = com[cq'[i].cid]
    <3> TAKE i \in Cq
    <3> HAVE Achevee(i)'
    <3>1. cq[i].cid \in Cids /\ ou[cq[i].cid] = EnCq(i) /\ cq[i].commande = com[cq[i].cid]
      BY <1>2, <1>22 DEF Porte
    <3> QED BY <1>20, <1>21, <3>1
  <2>4. \A u \in Taches : \A k \in 1..Len(tache'[u].lot) :
           LET a == tache'[u].lot[k] IN a.cid \in Cids /\ ou2[a.cid] = EnLot(u, k) /\ a.commande = com[a.cid]
    <3> TAKE u \in Taches
    <3> TAKE k \in 1..Len(tache'[u].lot)
    <3>0. u # t
      BY <1>5, <1>7
    <3> DEFINE a == tache[u].lot[k]
    <3>1. a.cid \in Cids /\ ou[a.cid] = EnLot(u, k) /\ a.commande = com[a.cid]
      BY <1>2, <1>7, <3>0 DEF Porte
    <3> HIDE DEF a
    <3>2. a.cid \in Cids /\ ou2[a.cid] = EnLot(u, k) /\ a.commande = com[a.cid]
      BY <1>20, <3>0, <3>1
    <3> QED BY <1>7, <3>0, <3>2 DEF a
  <2> QED BY <2>1, <2>2, <2>3, <2>4 DEF Porte
<1>24. Occupe(ou2)'
  <2> SUFFICES ASSUME NEW x \in Cids
               PROVE  \/ ou2[x] = Hors
                      \/ \E i \in Sq : Posee(i)' /\ sq'[i].cid = x
                      \/ \E y \in ctl'.enCours : y.cid = x
                      \/ \E i \in Cq : Achevee(i)' /\ cq'[i].cid = x
                      \/ \E u \in Taches : \E k \in 1..Len(tache'[u].lot) : tache'[u].lot[k].cid = x
    BY DEF Occupe
  <2>1. CASE Dans(x)
    BY <1>19, <2>1
  <2>2. CASE ~Dans(x)
    <3>1. CASE ou[x] = Hors
      BY <1>19, <2>2, <3>1
    <3>2. CASE \/ \E i \in Sq : Posee(i) /\ sq[i].cid = x
               \/ \E y \in ctl.enCours : y.cid = x
               \/ \E i \in Cq : Achevee(i) /\ cq[i].cid = x
      BY <1>21, <1>22, <3>2
    <3>3. CASE \E u \in Taches : \E k \in 1..Len(tache[u].lot) : tache[u].lot[k].cid = x
      <4>1. PICK u \in Taches : \E k \in 1..Len(tache[u].lot) : tache[u].lot[k].cid = x
        BY <3>3
      <4>2. u # t
        BY <1>4, <2>2, <4>1 DEF Dans, L
      <4> QED BY <1>7, <4>1, <4>2
    <3> QED BY <1>2, <3>1, <3>2, <3>3 DEF Occupe
  <2> QED BY <2>1, <2>2
<1>25. SqInv(ou2)'
  <2>1. \A x \in Cids : \A d : Suivi(ou, x, d) => \/ ou2[x] = AuCtl
                                                  \/ \E j \in Cq : Achevee(j)' /\ d < DCq(j)' /\ ou2[x] = EnCq(j)
    BY <1>20, <1>21, <1>22 DEF Suivi
  <2>2. \A i \in Sq : Lue(i)' => sq'[i] \in Ordres /\ Suivi(ou2, sq[i].cid, -1)'
    <3> TAKE i \in Sq
    <3> HAVE Lue(i)'
    <3>1. sq[i] \in Ordres /\ Suivi(ou, sq[i].cid, -1) /\ sq[i].cid \in Cids
      BY <1>2, <1>22 DEF SqInv, Ordres
    <3> QED BY <1>21, <2>1, <3>1 DEF Suivi
  <2>3. \A j \in Cq : Achevee(j)' =>
          /\ DSq(cq[j].tete)' <= DSq(ctl.tete)'
          /\ \A i \in Sq : Lue(i)' /\ DSq(cq[j].tete)' <= DSq(i)' => Suivi(ou2, sq[i].cid, DCq(j))'
    <3> TAKE j \in Cq
    <3> HAVE Achevee(j)'
    <3>1. /\ DSq(cq[j].tete) <= DSq(ctl.tete) /\ DSq(cq[j].tete)' = DSq(cq[j].tete) /\ DSq(ctl.tete)' = DSq(ctl.tete)
          /\ \A i \in Sq : Lue(i) /\ DSq(cq[j].tete) <= DSq(i) => Suivi(ou, sq[i].cid, DCq(j)) /\ sq[i].cid \in Cids
      BY <1>2, <1>21, <1>22 DEF SqInv, Ordres
    <3>2. ASSUME NEW i \in Sq, Lue(i)', DSq(cq[j].tete)' <= DSq(i)'
          PROVE  Suivi(ou2, sq[i].cid, DCq(j))'
      <4>1. Suivi(ou, sq[i].cid, DCq(j)) /\ sq[i].cid \in Cids
        BY <1>21, <1>22, <3>1, <3>2
      <4> QED BY <1>21, <2>1, <4>1 DEF Suivi
    <3> QED BY <3>1, <3>2
  <2> QED BY <1>2, <1>21, <1>22, <2>2, <2>3 DEF SqInv
<1>26. TableInv(ou2, com)'
  <2>1. \A x \in Cids : /\ cid'[x].etat \in {"libre", "acheve"} => ou2[x] = Hors
                        /\ cid'[x].etat = "quarantaine" => ou2[x] # Hors
                        /\ cid'[x].etat \in {"vol", "acheve"} <=> \E u \in Taches : tache'[u].cid = x
    <3> TAKE x \in Cids
    <3>1. CASE Dans(x)
      BY <1>2, <1>16, <1>17, <1>19, <3>1 DEF TableInv
    <3>2. CASE ~Dans(x)
      BY <1>2, <1>12, <1>16, <1>19, <3>2 DEF TableInv
    <3> QED BY <3>1, <3>2
  <2>2. \A u \in Taches : LET x == tache'[u].cid IN
            /\ tache'[u].pas = "soumet" => cid'[x].etat = "vol" /\ ou2[x] = Hors
            /\ tache'[u].pas = "attend" /\ cid'[x].etat = "vol" => ou2[x] # Hors /\ com[x] = tache'[u].commande
            /\ tache'[u].pas = "attend" /\ cid'[x].etat = "acheve" => cid'[x].statut = tache'[u].commande
            /\ x # Aucun => cid'[x].emplacement = tache'[u].emplacement
    <3> TAKE u \in Taches
    <3> DEFINE x == tache[u].cid
    <3>0. tache[u] \in Fiches
      BY <1>2, FichesFaits
    <3>1. /\ x # Aucun => x \in Cids
          /\ tache[u].pas \in {"soumet", "attend"} => x # Aucun
          /\ tache'[u].cid = x /\ tache'[u].pas = tache[u].pas /\ tache'[u].commande = tache[u].commande
          /\ tache'[u].emplacement = tache[u].emplacement
      BY <1>2, <1>16, <3>0 DEF PasInv, Fiches
    <3>2. /\ tache[u].pas = "soumet" => cid[x].etat = "vol" /\ ou[x] = Hors
          /\ tache[u].pas = "attend" /\ cid[x].etat = "vol" => ou[x] # Hors /\ com[x] = tache[u].commande
          /\ tache[u].pas = "attend" /\ cid[x].etat = "acheve" => cid[x].statut = tache[u].commande
          /\ x # Aucun => cid[x].emplacement = tache[u].emplacement
      BY <1>2 DEF TableInv
    <3> HIDE DEF x
    <3>3. CASE x = Aucun
      BY <3>1, <3>3
    <3>4. CASE x \in Cids /\ Dans(x)
      BY <1>9, <1>12, <3>1, <3>2, <3>4
    <3>5. CASE x \in Cids /\ ~Dans(x)
      BY <1>12, <1>19, <3>1, <3>2, <3>5
    <3> QED BY <3>1, <3>3, <3>4, <3>5
  <2>3. \A u, v \in Taches : u # v /\ tache'[u].cid # Aucun => tache'[u].cid # tache'[v].cid
    BY <1>2, <1>16 DEF TableInv
  <2> QED BY <2>1, <2>2, <2>3 DEF TableInv
<1>27. PhaseInv'
  BY <1>2, <1>21, <1>22 DEF PhaseInv
<1>28. \E z \in Suivies : Inv(z[1], z[2])'
  <2>1. <<ou2, com>> \in Suivies
    BY <1>2, <1>19 DEF Suivies
  <2> QED BY <1>23, <1>24, <1>25, <1>26, <2>1 DEF Inv
<1> QED BY <1>14, <1>15, <1>18, <1>27, <1>28 DEF IInv

(* The entries that a drain reads: the i-th after our head, with the phase it *)
(* is expected to have.  It is new when the controller has posted it.         *)
LEMMA ApresFaits ==
    ASSUME TypeOK, PhaseInv, NEW i \in Cq
    PROVE  /\ Apres(i).tete = Entree(cqTete, i, EntreesCq) /\ Apres(i).tete \in Cq /\ DCq(Apres(i).tete) = i
           /\ Apres(i).phase = Attendue(Apres(i).tete)
           /\ Neuve(i) <=> i < DCq(ctl.cqQueue)
<1> DEFINE x == cqTete + i
           p == Entree(cqTete, i, EntreesCq)
<1>1. cqTete \in 0..(EntreesCq - 1) /\ i \in 0..(EntreesCq - 1) /\ EntreesCq \in Nat \ {0}
  BY Tailles DEF Cq, TypeOK
<1>2. x \in 0..(2 * EntreesCq - 1)
  BY <1>1
<1>3. /\ x % EntreesCq = IF x < EntreesCq THEN x ELSE x - EntreesCq
      /\ x \div EntreesCq = IF x < EntreesCq THEN 0 ELSE 1
  <2> HIDE DEF x
  <2> QED BY <1>1, <1>2, ModPetit
<1>4. x % EntreesCq = p
  <2>1. p = IF x < EntreesCq THEN x ELSE x - EntreesCq
    BY <1>1 DEF Entree
  <2> HIDE DEF x, p
  <2> QED BY <1>3, <2>1
<1>5. p \in Cq /\ DCq(p) = i
  BY <1>1, EcartFaits DEF Cq, DCq
<1>6. (p >= cqTete) <=> x < EntreesCq
  BY <1>1 DEF Entree
<1>7. ((x \div EntreesCq) % 2 = 0) <=> x < EntreesCq
  <2>1. 0 % 2 = 0 /\ 1 % 2 = 1
    OBVIOUS
  <2> HIDE DEF x
  <2> QED BY <1>3, <2>1
<1>8. Apres(i) = [tete |-> p, phase |-> IF p >= cqTete THEN phase ELSE ~phase]
  <2> HIDE DEF p
  <2> QED BY <1>4, <1>6, <1>7 DEF Apres, x
<1> HIDE DEF p
<1>9. Apres(i).tete = p /\ Apres(i).phase = Attendue(p)
  BY <1>8 DEF Attendue
<1>10. Neuve(i) <=> Achevee(p)
  BY <1>5, <1>9 DEF Neuve, PhaseInv
<1>11. Neuve(i) <=> i < DCq(ctl.cqQueue)
  BY <1>5, <1>10 DEF Achevee
<1> QED BY <1>5, <1>9, <1>11 DEF p

(* A drain reads entries that the controller has posted, and no others. *)
LEMMA LuesFaits ==
    ASSUME TypeOK, PhaseInv
    PROVE  Lues \in 0..Lot /\ Lues <= DCq(ctl.cqQueue)
<1> DEFINE D == DCq(ctl.cqQueue)
           m == IF D <= Lot THEN D ELSE Lot
           P(n) == (\A i \in 0..(n - 1) : Neuve(i)) /\ (n = Lot \/ ~Neuve(n))
<1>1. D \in Cq /\ Lot \in Nat /\ EntreesCq \in Nat
  BY Distances, Tailles
<1>2. \A i \in Cq : Neuve(i) <=> i < D
  BY ApresFaits
<1> HIDE DEF D
<1>3. m \in 0..Lot /\ P(m)
  <2>1. m \in 0..Lot /\ m <= D
    BY <1>1 DEF Cq
  <2>2. \A i \in 0..(m - 1) : i \in Cq /\ i < D
    BY <1>1, <2>1 DEF Cq
  <2>3. m = Lot \/ (m \in Cq /\ ~(m < D))
    BY <1>1 DEF Cq
  <2> HIDE DEF m
  <2> QED BY <1>2, <2>1, <2>2, <2>3
<1>4. Lues = CHOOSE n \in 0..Lot : P(n)
  BY DEF Lues
<1> HIDE DEF m
<1>5. Lues \in 0..Lot /\ P(Lues)
  <2> HIDE DEF P
  <2> QED BY <1>3, <1>4
<1>6. Lues <= D
  <2> SUFFICES ASSUME ~(Lues <= D) PROVE FALSE
    OBVIOUS
  <2>1. D \in 0..(Lues - 1) /\ ~(D < D)
    BY <1>1, <1>5 DEF Cq
  <2> QED BY <1>1, <1>2, <1>5, <2>1
<1> QED BY <1>5, <1>6 DEF D

(* When a head moves along its ring up to b, what was between it and b, and is *)
(* not passed, is still between them.                                          *)
LEMMA Fenetre ==
    ASSUME NEW n \in Nat \ {0}, NEW h \in 0..(n - 1), NEW g \in 0..(n - 1), NEW b \in 0..(n - 1),
           Ecart(g, h, n) <= Ecart(b, h, n)
    PROVE  /\ Ecart(b, g, n) = Ecart(b, h, n) - Ecart(g, h, n)
           /\ \A i \in 0..(n - 1) : Ecart(i, g, n) < Ecart(b, g, n)
                                      <=> Ecart(g, h, n) <= Ecart(i, h, n) /\ Ecart(i, h, n) < Ecart(b, h, n)
BY DEF Ecart

(* The phase expected flips for the entries that the head has passed. *)
LEMMA PhaseDecale ==
    ASSUME TypeOK, NEW g \in Cq, NEW i \in Cq
    PROVE  LET f == IF g >= cqTete THEN phase ELSE ~phase
               a == IF i >= g THEN f ELSE ~f
           IN  IF DCq(g) <= DCq(i) THEN a = Attendue(i) ELSE a # Attendue(i)
<1>1. phase \in BOOLEAN /\ cqTete \in 0..(EntreesCq - 1) /\ EntreesCq \in Nat \ {0}
      /\ g \in 0..(EntreesCq - 1) /\ i \in 0..(EntreesCq - 1)
  BY Tailles DEF TypeOK, Cq
<1>2. DCq(g) <= DCq(i) <=> \/ g >= cqTete /\ i >= g
                           \/ g >= cqTete /\ i < cqTete
                           \/ g < cqTete /\ i >= g /\ i < cqTete
  BY <1>1 DEF DCq, Ecart
<1>3. (g >= cqTete <=> ~(g < cqTete)) /\ (i >= cqTete <=> ~(i < cqTete)) /\ (i >= g /\ g >= cqTete => i >= cqTete)
      /\ (i < cqTete /\ g >= cqTete => ~(i >= g))  /\ (i >= cqTete /\ g < cqTete => i >= g)
  BY <1>1
<1> QED BY <1>1, <1>2, <1>3 DEF Attendue

(* A drain: what it reads goes from the ring to the batch of the task, and    *)
(* the head it learns passes only commands whose completion is drained.       *)
LEMMA DraineInv ==
    ASSUME IInv, NEW t \in Taches, Draine(t)
    PROVE  IInv'
<1>1. PICK s \in Suivies : Inv(s[1], s[2])
  BY DEF IInv
<1> DEFINE ou == s[1]
           com == s[2]
           n == Lues
           g == Apres(n).tete
           P(k) == Apres(k - 1).tete
           h == cq[P(n)].tete
           l == [k \in 1..n |-> cq[P(k)]]
           r == [tache[t] EXCEPT !.lot = l]
           D == DCq(ctl.cqQueue)
<1>2. /\ TypeOK /\ PhaseInv /\ PasInv /\ SlotInv /\ Porte(ou, com) /\ Occupe(ou) /\ SqInv(ou) /\ TableInv(ou, com)
      /\ ou \in [Cids -> Lieux] /\ com \in [Cids -> 0..MaxCommandes]
  BY <1>1 DEF IInv, Inv, Suivies
<1> HIDE DEF ou, com
<1>3. /\ tache[t].pas \in {"prend", "attend"} /\ tache[t].lot = <<>> /\ n # 0 /\ Met(t, r) /\ tete' = h
      /\ cqTete' = g /\ phase' = Apres(n).phase /\ ctl' = [ctl EXCEPT !.cqTete = g]
      /\ UNCHANGED <<libres, cid, curseur, sq, queue, cq, suite, hors, numero>>
  BY DEF Draine, suivi
<1>4. n \in 1..Lot /\ n <= D /\ D \in Cq /\ n \in Cq /\ Lot \in Nat
  <2>1. Lues \in 0..Lot /\ Lues <= D /\ D \in Cq /\ Lot \in Nat
    BY <1>2, LuesFaits, Distances, Tailles
  <2> HIDE DEF n, D
  <2> QED BY <1>3, <2>1, Tailles DEF n, Cq
<1> HIDE DEF n
<1>5. g \in Cq /\ DCq(g) = n /\ Apres(n).phase = Attendue(g)
  BY <1>2, <1>4, ApresFaits
<1>6. \A k \in 1..n : P(k) \in Cq /\ DCq(P(k)) = k - 1 /\ Achevee(P(k))
  <2> TAKE k \in 1..n
  <2>1. k - 1 \in Cq /\ k - 1 < D
    <3> HIDE DEF D
    <3>1. D \in Nat /\ n \in Nat /\ EntreesCq \in Nat /\ D <= EntreesCq - 1
      BY <1>4, Tailles DEF Cq
    <3> QED BY <1>4, <3>1 DEF Cq
  <2>2. P(k) \in Cq /\ DCq(P(k)) = k - 1
    BY <1>2, <2>1, ApresFaits
  <2> QED BY <2>1, <2>2 DEF Achevee
<1> HIDE DEF P, g
<1>7. \A k \in 1..n : cq[P(k)] \in Reponses
  BY <1>2, <1>6 DEF TypeOK, Cq
<1>8. /\ n \in 1..n /\ P(n) \in Cq /\ DCq(P(n)) = n - 1 /\ Achevee(P(n)) /\ h \in Sq
  <2>1. n \in 1..n
    BY <1>4
  <2>2. cq[P(n)] \in Reponses
    BY <1>7, <2>1
  <2> QED BY <1>6, <2>1, <2>2 DEF Reponses, Sq
<1>9. /\ DSq(h) <= DSq(ctl.tete) /\ DSq(ctl.tete) <= DSq(queue) /\ ctl.sonnee = queue
      /\ \A i \in Sq : Lue(i) /\ DSq(h) <= DSq(i) => Suivi(ou, sq[i].cid, n - 1)
      /\ \A j \in Cq : Achevee(j) /\ n - 1 <= DCq(j) => DSq(h) <= DSq(cq[j].tete)
  <2>1. /\ DSq(cq[P(n)].tete) <= DSq(ctl.tete)
        /\ \A i \in Sq : Lue(i) /\ DSq(cq[P(n)].tete) <= DSq(i) => Suivi(ou, sq[i].cid, DCq(P(n)))
    BY <1>2, <1>8 DEF SqInv
  <2>2. \A j \in Cq : Achevee(j) /\ DCq(P(n)) <= DCq(j) => DSq(cq[P(n)].tete) <= DSq(cq[j].tete)
    BY <1>2, <1>8 DEF SqInv
  <2>3. DSq(ctl.tete) <= DSq(queue) /\ ctl.sonnee = queue
    BY <1>2 DEF SqInv
  <2> QED BY <1>8, <2>1, <2>2, <2>3
<1>10. l \in Seq(Reponses) /\ Len(l) = n /\ \A k \in 1..n : l[k] = cq[P(k)]
  <2>1. l \in [1..n -> Reponses] /\ n \in Nat
    BY <1>4, <1>7
  <2>2. \A k \in 1..n : l[k] = cq[P(k)]
    OBVIOUS
  <2> HIDE DEF l
  <2>3. l \in Seq(Reponses)
    BY <2>1, IsASeq
  <2>4. DOMAIN l = 1..n /\ DOMAIN l = 1..Len(l) /\ Len(l) \in Nat
    BY <2>1, <2>3, LenProperties
  <2>5. Len(l) = n
    BY <2>1, <2>4
  <2> QED BY <2>2, <2>3, <2>5
<1> HIDE DEF l
<1>11. r \in Fiches /\ r.lot = l /\ r.pas = tache[t].pas /\ r.cid = tache[t].cid /\ r.commande = tache[t].commande
       /\ r.emplacement = tache[t].emplacement
  <2>1. tache[t] \in Fiches
    BY <1>2, FichesFaits
  <2> QED BY <1>10, <2>1 DEF Fiches
<1> HIDE DEF r, h
<1>12. tache'[t] = r /\ \A u \in Taches : u # t => tache'[u] = tache[u]
  BY <1>2, <1>3, MetFaits
<1>13. \A u \in Taches : /\ tache'[u].emplacement = tache[u].emplacement /\ tache'[u].pas = tache[u].pas
                         /\ tache'[u].cid = tache[u].cid /\ tache'[u].commande = tache[u].commande
  BY <1>11, <1>12
<1>14. /\ ctl'.tete = ctl.tete /\ ctl'.enCours = ctl.enCours /\ ctl'.cqQueue = ctl.cqQueue /\ ctl'.phase = ctl.phase
       /\ ctl'.cqTete = g /\ ctl'.sonnee = ctl.sonnee
  BY <1>2, <1>3 DEF TypeOK
<1>15. TypeOK'
  <2>1. tache' \in [Taches -> Fiches]
    BY <1>2, <1>3, <1>11, MetType
  <2>2. ctl' \in [tete : 0..(EntreesSq - 1), enCours : SUBSET Ordres, cqQueue : 0..(EntreesCq - 1),
                  phase : BOOLEAN, cqTete : 0..(EntreesCq - 1), sonnee : 0..(EntreesSq - 1)]
    BY <1>2, <1>3, <1>5 DEF TypeOK, Cq
  <2>3. phase' \in BOOLEAN /\ tete' \in 0..(EntreesSq - 1) /\ cqTete' \in 0..(EntreesCq - 1)
    BY <1>2, <1>3, <1>5, <1>8 DEF TypeOK, Attendue, Sq, Cq
  <2> QED BY <1>2, <1>3, <2>1, <2>2, <2>3 DEF TypeOK, Fiches
<1>16. PasInv'
  BY <1>2, <1>3, <1>12, <1>13 DEF PasInv
<1>17. /\ ctl.tete \in Sq /\ queue \in Sq /\ tete \in Sq /\ cqTete \in Cq /\ ctl.cqQueue \in Cq
       /\ (\A i \in Sq : DSq(i) \in Sq) /\ (\A i \in Cq : DCq(i) \in Cq)
       /\ (\A i, j \in Cq : DCq(i) = DCq(j) => i = j)
  BY <1>2, Distances
<1>18. /\ \A i \in Sq : DSq(h) <= DSq(i) => DSq(i)' = DSq(i) - DSq(h)
       /\ \A i, b \in Sq : DSq(h) <= DSq(b) => (DSq(i)' < DSq(b)' <=> DSq(h) <= DSq(i) /\ DSq(i) < DSq(b))
  <2>1. \A i : DSq(i)' = Ecart(i, h, EntreesSq)
    BY <1>3 DEF DSq
  <2>2. ASSUME NEW b \in Sq, DSq(h) <= DSq(b)
        PROVE  /\ Ecart(b, h, EntreesSq) = DSq(b) - DSq(h)
               /\ \A i \in Sq : Ecart(i, h, EntreesSq) < Ecart(b, h, EntreesSq) <=> DSq(h) <= DSq(i) /\ DSq(i) < DSq(b)
    BY <1>8, <1>17, <2>2, Tailles, Fenetre DEF DSq, Sq
  <2> QED BY <2>1, <2>2
<1>19. /\ \A i \in Cq : n <= DCq(i) => DCq(i)' = DCq(i) - n
       /\ \A i \in Cq : Achevee(i)' <=> n <= DCq(i) /\ Achevee(i)
       /\ \A i \in Cq : IF n <= DCq(i) THEN Attendue(i)' = Attendue(i) ELSE Attendue(i)' # Attendue(i)
  <2>1. \A i : DCq(i)' = Ecart(i, g, EntreesCq)
    BY <1>3 DEF DCq
  <2>2. ASSUME NEW b \in Cq, n <= DCq(b)
        PROVE  /\ Ecart(b, g, EntreesCq) = DCq(b) - n
               /\ \A i \in Cq : Ecart(i, g, EntreesCq) < Ecart(b, g, EntreesCq) <=> n <= DCq(i) /\ DCq(i) < DCq(b)
    BY <1>5, <1>17, <2>2, Tailles, Fenetre DEF DCq, Cq
  <2>3. \A i \in Cq : Achevee(i)' <=> n <= DCq(i) /\ Achevee(i)
    BY <1>4, <1>14, <1>17, <2>1, <2>2 DEF Achevee
  <2>4. \A i \in Cq : IF n <= DCq(i) THEN Attendue(i)' = Attendue(i) ELSE Attendue(i)' # Attendue(i)
    <3> TAKE i \in Cq
    <3>1. Attendue(i)' = IF i >= g THEN (IF g >= cqTete THEN phase ELSE ~phase)
                                   ELSE ~(IF g >= cqTete THEN phase ELSE ~phase)
      BY <1>3, <1>5 DEF Attendue
    <3> QED BY <1>2, <1>5, <3>1, PhaseDecale
  <2> QED BY <2>1, <2>2, <2>3, <2>4
<1>20. /\ \A i \in Sq : Posee(i)' <=> Posee(i)
       /\ \A i \in Sq : Lue(i)' <=> DSq(h) <= DSq(i) /\ Lue(i)
       /\ \A i \in Sq : DSq(i)' < DSq(queue)' <=> DSq(h) <= DSq(i) /\ DSq(i) < DSq(queue)
       /\ DSq(ctl.tete)' = DSq(ctl.tete) - DSq(h) /\ DSq(queue)' = DSq(queue) - DSq(h)
  <2>1. DSq(h) \in Sq /\ DSq(ctl.tete) \in Sq /\ DSq(queue) \in Sq /\ DSq(h) <= DSq(queue)
    BY <1>8, <1>9, <1>17 DEF Sq
  <2>2. DSq(ctl.tete)' = DSq(ctl.tete) - DSq(h) /\ DSq(queue)' = DSq(queue) - DSq(h)
    BY <1>3, <1>9, <1>14, <1>17, <1>18, <2>1
  <2>3. \A i \in Sq : Lue(i)' <=> DSq(h) <= DSq(i) /\ Lue(i)
    BY <1>9, <1>14, <1>17, <1>18 DEF Lue
  <2>4. \A i \in Sq : DSq(i)' < DSq(queue)' <=> DSq(h) <= DSq(i) /\ DSq(i) < DSq(queue)
    BY <1>3, <1>17, <1>18, <2>1
  <2>5. \A i \in Sq : DSq(ctl.tete)' <= DSq(i)' <=> ~Lue(i)'
    <3>1. \A i \in Sq : DSq(i)' \in Sq
      BY <1>3, <1>8, Tailles, EcartFaits DEF DSq, Sq
    <3> QED BY <1>14, <1>17, <3>1 DEF Lue, Sq
  <2>6. ASSUME NEW i \in Sq PROVE Posee(i)' <=> Posee(i)
    <3>1. Posee(i)' <=> ~Lue(i)' /\ DSq(i)' < DSq(queue)'
      BY <2>5 DEF Posee
    <3>2. DSq(i) \in Sq
      BY <1>17
    <3> QED BY <1>9, <2>1, <2>3, <2>4, <3>1, <3>2 DEF Posee, Lue, Sq
  <2> QED BY <2>2, <2>3, <2>4, <2>6
<1>21. PhaseInv'
  <2>1. \A i \in Cq : cq'[i].phase = Attendue(i)' <=> Achevee(i)'
    <3> TAKE i \in Cq
    <3>1. (cq[i].phase = Attendue(i) <=> Achevee(i)) /\ cq[i].phase \in BOOLEAN
      BY <1>2 DEF PhaseInv, TypeOK, Reponses, Cq
    <3>2. Attendue(i) \in BOOLEAN /\ Attendue(i)' \in BOOLEAN
      BY <1>2, <1>15 DEF Attendue, TypeOK
    <3>3. CASE n <= DCq(i)
      BY <1>3, <1>19, <3>1, <3>3
    <3>4. CASE ~(n <= DCq(i))
      <4>1. DCq(i) < DCq(ctl.cqQueue)
        BY <1>4, <1>17, <3>4 DEF Cq
      <4>2. Achevee(i) /\ ~Achevee(i)' /\ Attendue(i)' # Attendue(i) /\ cq'[i] = cq[i]
        BY <1>3, <1>19, <3>4, <4>1 DEF Achevee
      <4> QED BY <3>1, <3>2, <4>2, Zenon
    <3> QED BY <3>3, <3>4
  <2>2. ctl'.phase = Attendue(ctl.cqQueue)'
    <3>1. Attendue(ctl.cqQueue)' = Attendue(ctl.cqQueue)
      BY <1>4, <1>14, <1>17, <1>19
    <3> QED BY <1>2, <1>14, <3>1 DEF PhaseInv
  <2> QED BY <1>3, <1>14, <2>1, <2>2 DEF PhaseInv
<1>22. PICK ou2 \in [Cids -> Lieux] :
          \A x \in Cids : /\ \A k \in 1..n : ou[x] = EnCq(P(k)) => ou2[x] = EnLot(t, k)
                          /\ (\A k \in 1..n : ou[x] # EnCq(P(k))) => ou2[x] = ou[x]
  <2> DEFINE Q(x, k) == k \in 1..n /\ ou[x] = EnCq(P(k))
             o2 == [x \in Cids |-> IF \E k : Q(x, k) THEN EnLot(t, CHOOSE k : Q(x, k)) ELSE ou[x]]
  <2>1. ASSUME NEW x \in Cids, NEW k, Q(x, k)
        PROVE  o2[x] = EnLot(t, k) /\ EnLot(t, k) \in Lieux
    <3>1. ASSUME NEW j, Q(x, j) PROVE j = k
      <4>1. P(j) = P(k) /\ j \in 1..n /\ k \in 1..n
        BY <2>1, <3>1, LieuxDistincts
      <4>2. j - 1 = k - 1
        BY <1>6, <4>1
      <4> QED BY <1>4, <4>1, <4>2
    <3>2. (CHOOSE j : Q(x, j)) = k
      <4> HIDE DEF Q
      <4> QED BY <2>1, <3>1
    <3>3. k \in Nat
      BY <2>1
    <3>4. EnLot(t, k) \in Lieux
      BY <3>3, LieuxTypes
    <3> HIDE DEF Q
    <3> QED BY <2>1, <3>2, <3>4
  <2>2. ASSUME NEW x \in Cids, \A k : ~Q(x, k)
        PROVE  o2[x] = ou[x]
    <3> HIDE DEF Q
    <3> QED BY <2>2
  <2>3. \A x \in Cids : o2[x] \in Lieux
    <3> TAKE x \in Cids
    <3> HIDE DEF Q, o2
    <3>1. CASE \E k : Q(x, k)
      BY <2>1, <3>1
    <3>2. CASE \A k : ~Q(x, k)
      BY <1>2, <2>2, <3>2
    <3> QED BY <3>1, <3>2
  <2>4. o2 \in [Cids -> Lieux]
    <3>1. o2 = [x \in Cids |-> o2[x]]
      OBVIOUS
    <3> HIDE DEF o2
    <3> QED BY <2>3, <3>1
  <2>5. \A x \in Cids : /\ \A k \in 1..n : ou[x] = EnCq(P(k)) => o2[x] = EnLot(t, k)
                        /\ (\A k \in 1..n : ou[x] # EnCq(P(k))) => o2[x] = ou[x]
    <3> TAKE x \in Cids
    <3> HIDE DEF o2
    <3> QED BY <2>1, <2>2
  <2> HIDE DEF o2
  <2> QED BY <2>4, <2>5
<1>23. \A x \in Cids : ou[x] = AuCtl \/ (\E i : ou[x] = EnSq(i)) \/ (\E u, k : ou[x] = EnLot(u, k))
                         \/ (\E j \in Cq : n <= DCq(j) /\ ou[x] = EnCq(j)) => ou2[x] = ou[x]
  <2>1. \A j \in Cq : n <= DCq(j) => \A k \in 1..n : EnCq(P(k)) # EnCq(j)
    <3> SUFFICES ASSUME NEW j \in Cq, n <= DCq(j), NEW k \in 1..n, P(k) = j PROVE FALSE
      BY LieuxDistincts
    <3>1. DCq(j) = k - 1
      BY <1>6
    <3> QED BY <1>4, <3>1
  <2> QED BY <1>22, <2>1, LieuxDistincts
<1>24. \A x \in Cids : \A d, b \in Int : Suivi(ou, x, d) /\ n - 1 <= d /\ b < d - n + 1 =>
           \/ ou2[x] = AuCtl
           \/ \E j \in Cq : Achevee(j)' /\ b < DCq(j)' /\ ou2[x] = EnCq(j)
  <2> SUFFICES ASSUME NEW x \in Cids, NEW d \in Int, NEW b \in Int, Suivi(ou, x, d), n - 1 <= d, b < d - n + 1
               PROVE  \/ ou2[x] = AuCtl
                      \/ \E j \in Cq : Achevee(j)' /\ b < DCq(j)' /\ ou2[x] = EnCq(j)
    OBVIOUS
  <2> QED BY <1>4, <1>17, <1>19, <1>23 DEF Suivi, Cq
<1>25. Porte(ou2, com)'
  <2>1. \A i \in Sq : Posee(i)' => /\ sq'[i] \in Ordres /\ ou2[sq'[i].cid] = EnSq(i)
                                   /\ sq'[i].commande = com[sq'[i].cid]
                                   /\ sq'[i].emplacement = cid'[sq'[i].cid].emplacement
    <3> TAKE i \in Sq
    <3> HAVE Posee(i)'
    <3>1. /\ sq[i] \in Ordres /\ ou[sq[i].cid] = EnSq(i) /\ sq[i].commande = com[sq[i].cid]
          /\ sq[i].emplacement = cid[sq[i].cid].emplacement /\ sq[i].cid \in Cids
      BY <1>2, <1>20 DEF Porte, Ordres
    <3> QED BY <1>3, <1>23, <3>1
  <2>2. \A x \in ctl'.enCours : /\ ou2[x.cid] = AuCtl /\ x.commande = com[x.cid]
                                /\ x.emplacement = cid'[x.cid].emplacement
    <3> TAKE x \in ctl'.enCours
    <3>1. /\ ou[x.cid] = AuCtl /\ x.commande = com[x.cid] /\ x.emplacement = cid[x.cid].emplacement /\ x.cid \in Cids
      BY <1>2, <1>14 DEF Porte, TypeOK, Ordres
    <3> QED BY <1>3, <1>23, <3>1
  <2>3. \A i \in Cq : Achevee(i)' => /\ cq'[i].cid \in Cids /\ ou2[cq'[i].cid] = EnCq(i)
                                     /\ cq'[i].commande = com[cq'[i].cid]
    <3> TAKE i \in Cq
    <3> HAVE Achevee(i)'
    <3>1. cq[i].cid \in Cids /\ ou[cq[i].cid] = EnCq(i) /\ cq[i].commande = com[cq[i].cid] /\ n <= DCq(i)
      BY <1>2, <1>19 DEF Porte
    <3> QED BY <1>3, <1>23, <3>1
  <2>4. \A u \in Taches : \A k \in 1..Len(tache'[u].lot) :
           LET a == tache'[u].lot[k] IN a.cid \in Cids /\ ou2[a.cid] = EnLot(u, k) /\ a.commande = com[a.cid]
    <3> TAKE u \in Taches
    <3> TAKE k \in 1..Len(tache'[u].lot)
    <3>1. CASE u = t
      <4> DEFINE a == cq[P(k)]
      <4>1. k \in 1..n /\ tache'[u].lot[k] = a
        BY <1>10, <1>11, <1>12, <3>1
      <4>2. a.cid \in Cids /\ ou[a.cid] = EnCq(P(k)) /\ a.commande = com[a.cid]
        BY <1>2, <1>6, <4>1 DEF Porte
      <4> HIDE DEF a
      <4>3. ou2[a.cid] = EnLot(t, k)
        BY <1>22, <4>1, <4>2
      <4> QED BY <3>1, <4>1, <4>2, <4>3
    <3>2. CASE u # t
      <4> DEFINE a == tache[u].lot[k]
      <4>1. a.cid \in Cids /\ ou[a.cid] = EnLot(u, k) /\ a.commande = com[a.cid]
        BY <1>2, <1>12, <3>2 DEF Porte
      <4> HIDE DEF a
      <4>2. a.cid \in Cids /\ ou2[a.cid] = EnLot(u, k) /\ a.commande = com[a.cid]
        BY <1>23, <4>1
      <4> QED BY <1>12, <3>2, <4>2 DEF a
    <3> QED BY <3>1, <3>2
  <2> QED BY <2>1, <2>2, <2>3, <2>4 DEF Porte
<1>26. Occupe(ou2)'
  <2> SUFFICES ASSUME NEW x \in Cids
               PROVE  \/ ou2[x] = Hors
                      \/ \E i \in Sq : Posee(i)' /\ sq'[i].cid = x
                      \/ \E y \in ctl'.enCours : y.cid = x
                      \/ \E i \in Cq : Achevee(i)' /\ cq'[i].cid = x
                      \/ \E u \in Taches : \E k \in 1..Len(tache'[u].lot) : tache'[u].lot[k].cid = x
    BY DEF Occupe
  <2>1. CASE ou[x] = Hors
    BY <1>22, <2>1, LieuxDistincts
  <2>2. CASE \E i \in Cq : Achevee(i) /\ cq[i].cid = x
    <3>1. PICK i \in Cq : Achevee(i) /\ cq[i].cid = x
      BY <2>2
    <3>2. CASE n <= DCq(i)
      BY <1>3, <1>19, <3>1, <3>2
    <3>3. CASE ~(n <= DCq(i))
      <4> DEFINE k == DCq(i) + 1
      <4>1. k \in 1..n /\ k - 1 = DCq(i)
        BY <1>4, <1>17, <3>3 DEF Cq
      <4>2. P(k) = i
        <5> HIDE DEF k
        <5> QED BY <1>6, <1>17, <4>1
      <4>3. tache'[t].lot = l /\ k \in 1..Len(l) /\ l[k] = cq[i]
        <5> HIDE DEF k
        <5> QED BY <1>10, <1>11, <1>12, <4>1, <4>2
      <4> QED BY <3>1, <4>3
    <3> QED BY <3>2, <3>3
  <2>3. CASE \/ \E i \in Sq : Posee(i) /\ sq[i].cid = x
             \/ \E y \in ctl.enCours : y.cid = x
    BY <1>3, <1>14, <1>20, <2>3
  <2>4. CASE \E u \in Taches : \E k \in 1..Len(tache[u].lot) : tache[u].lot[k].cid = x
    <3>1. PICK u \in Taches : \E k \in 1..Len(tache[u].lot) : tache[u].lot[k].cid = x
      BY <2>4
    <3>2. u # t
      BY <1>3, <3>1
    <3> QED BY <1>12, <3>1, <3>2
  <2> QED BY <1>2, <2>1, <2>2, <2>3, <2>4 DEF Occupe
<1>27. SqInv(ou2)'
  <2>1. ctl'.sonnee = queue' /\ DSq(ctl.tete)' <= DSq(queue)'
    <3>1. DSq(h) \in Sq /\ DSq(ctl.tete) \in Sq /\ DSq(queue) \in Sq
      BY <1>8, <1>17
    <3> QED BY <1>3, <1>9, <1>14, <1>20, <3>1 DEF Sq
  <2>2. \A i \in Sq : Lue(i)' => sq'[i] \in Ordres /\ Suivi(ou2, sq[i].cid, -1)'
    <3> TAKE i \in Sq
    <3> HAVE Lue(i)'
    <3>1. sq[i] \in Ordres /\ Suivi(ou, sq[i].cid, n - 1) /\ sq[i].cid \in Cids
      BY <1>2, <1>9, <1>20 DEF SqInv, Ordres
    <3>2. n - 1 \in Int /\ n - 1 <= n - 1 /\ -1 < (n - 1) - n + 1
      BY <1>4
    <3>3. \/ ou2[sq[i].cid] = AuCtl
          \/ \E j \in Cq : Achevee(j)' /\ -1 < DCq(j)' /\ ou2[sq[i].cid] = EnCq(j)
      BY <1>24, <3>1, <3>2
    <3> QED BY <1>3, <3>1, <3>3 DEF Suivi
  <2>3. \A i, j \in Sq : DSq(i)' < DSq(queue)' /\ DSq(j)' < DSq(queue)' /\ sq'[i].cid = sq'[j].cid => i = j
    BY <1>2, <1>3, <1>20 DEF SqInv
  <2>4. \A j \in Cq : Achevee(j)' => /\ Achevee(j) /\ n <= DCq(j) /\ DCq(j)' = DCq(j) - n /\ cq[j].tete \in Sq
                                     /\ DSq(h) <= DSq(cq[j].tete) /\ DSq(cq[j].tete) <= DSq(ctl.tete)
                                     /\ DSq(cq[j].tete)' = DSq(cq[j].tete) - DSq(h)
    <3> TAKE j \in Cq
    <3> HAVE Achevee(j)'
    <3>1. Achevee(j) /\ n <= DCq(j) /\ DCq(j)' = DCq(j) - n
      BY <1>19
    <3>2. cq[j].tete \in Sq
      BY <1>2 DEF TypeOK, Reponses, Sq, Cq
    <3>3. n - 1 <= DCq(j)
      BY <1>4, <1>17, <3>1 DEF Cq
    <3>4. DSq(h) <= DSq(cq[j].tete) /\ DSq(cq[j].tete) <= DSq(ctl.tete)
      BY <1>2, <1>9, <3>1, <3>3 DEF SqInv
    <3>5. DSq(cq[j].tete)' = DSq(cq[j].tete) - DSq(h)
      BY <1>3, <1>18, <3>2, <3>4
    <3> QED BY <3>1, <3>2, <3>4, <3>5
  <2>5. DSq(h) \in Sq /\ DSq(ctl.tete) \in Sq
    BY <1>8, <1>17
  <2>6. \A j \in Cq : Achevee(j)' =>
          /\ DSq(cq[j].tete)' <= DSq(ctl.tete)'
          /\ \A i \in Sq : Lue(i)' /\ DSq(cq[j].tete)' <= DSq(i)' => Suivi(ou2, sq[i].cid, DCq(j))'
    <3> TAKE j \in Cq
    <3> HAVE Achevee(j)'
    <3>1. DSq(cq[j].tete)' <= DSq(ctl.tete)'
      <4>1. DSq(cq[j].tete) \in Sq
        BY <1>17, <2>4
      <4> QED BY <1>20, <2>4, <2>5, <4>1 DEF Sq
    <3>2. ASSUME NEW i \in Sq, Lue(i)', DSq(cq[j].tete)' <= DSq(i)'
          PROVE  Suivi(ou2, sq[i].cid, DCq(j))'
      <4>1. DSq(h) <= DSq(i) /\ Lue(i) /\ DSq(i)' = DSq(i) - DSq(h)
        BY <1>18, <1>20, <3>2
      <4>2. DSq(cq[j].tete) <= DSq(i)
        <5>1. DSq(cq[j].tete) \in Sq /\ DSq(i) \in Sq
          BY <1>17, <2>4
        <5> QED BY <2>4, <2>5, <3>2, <4>1, <5>1 DEF Sq
      <4>3. sq[i].cid \in Cids /\ Suivi(ou, sq[i].cid, DCq(j))
        BY <1>2, <2>4, <4>1, <4>2 DEF SqInv, Ordres
      <4>4. DCq(j) \in Int /\ n - 1 <= DCq(j) /\ DCq(j) - n < DCq(j) - n + 1 /\ DCq(j) - n \in Int
        BY <1>4, <1>17, <2>4 DEF Cq
      <4>5. \/ ou2[sq[i].cid] = AuCtl
            \/ \E b \in Cq : Achevee(b)' /\ DCq(j) - n < DCq(b)' /\ ou2[sq[i].cid] = EnCq(b)
        BY <1>24, <4>3, <4>4
      <4> QED BY <1>3, <2>4, <4>5 DEF Suivi
    <3> QED BY <3>1, <3>2
  <2>7. \A j, k \in Cq : Achevee(j)' /\ Achevee(k)' /\ DCq(j)' <= DCq(k)' => DSq(cq[j].tete)' <= DSq(cq[k].tete)'
    <3> SUFFICES ASSUME NEW j \in Cq, NEW k \in Cq, Achevee(j)', Achevee(k)', DCq(j)' <= DCq(k)'
                 PROVE  DSq(cq[j].tete)' <= DSq(cq[k].tete)'
      OBVIOUS
    <3>1. DCq(j) <= DCq(k)
      BY <1>4, <1>17, <2>4 DEF Cq
    <3>2. DSq(cq[j].tete) <= DSq(cq[k].tete)
      BY <1>2, <2>4, <3>1 DEF SqInv
    <3>3. DSq(cq[j].tete) \in Sq /\ DSq(cq[k].tete) \in Sq
      BY <1>17, <2>4
    <3> QED BY <2>4, <2>5, <3>2, <3>3 DEF Sq
  <2> QED BY <2>1, <2>2, <2>3, <2>6, <2>7 DEF SqInv
<1>28. TableInv(ou2, com)' /\ SlotInv'
  <2>1. \A x \in Cids : ou2[x] = Hors <=> ou[x] = Hors
    BY <1>22, LieuxDistincts
  <2> QED BY <1>2, <1>3, <1>13, <2>1, TableGardee
<1>29. \E z \in Suivies : Inv(z[1], z[2])'
  <2>1. <<ou2, com>> \in Suivies
    BY <1>2, <1>22 DEF Suivies
  <2> QED BY <1>25, <1>26, <1>27, <1>28, <2>1 DEF Inv
<1> QED BY <1>15, <1>16, <1>21, <1>28, <1>29 DEF IInv

----------------------------------------------------------------------------
(* The theorems *)

(* Every step keeps the invariant. *)
LEMMA NextInv == IInv /\ [Next]_vars => IInv'
<1> SUFFICES ASSUME IInv, [Next]_vars PROVE IInv'
  OBVIOUS
<1>1. CASE UNCHANGED vars
  <2>1. PICK s \in Suivies : Inv(s[1], s[2])
    BY DEF IInv
  <2> DEFINE ou == s[1]
             com == s[2]
  <2>2. TypeOK /\ PhaseInv /\ PasInv /\ SlotInv /\ Porte(ou, com) /\ Occupe(ou) /\ SqInv(ou) /\ TableInv(ou, com)
    BY <2>1 DEF IInv, Inv
  <2> HIDE DEF ou, com
  <2>3. Porte(ou, com)' /\ Occupe(ou)' /\ SqInv(ou)' /\ PhaseInv'
    BY <1>1, <2>2, AnneauxFixes DEF vars, anneaux
  <2>4. TypeOK' /\ PasInv'
    BY <1>1, <2>2 DEF vars, TypeOK, PasInv
  <2>5. SlotInv' /\ TableInv(ou, com)'
    BY <1>1, <2>2 DEF vars, SlotInv, TableInv
  <2>6. \E z \in Suivies : Inv(z[1], z[2])'
    BY <2>3, <2>5 DEF Inv, ou, com
  <2> QED BY <2>3, <2>4, <2>5, <2>6 DEF IInv
<1>2. ASSUME NEW t \in Taches, Tache(t) PROVE IInv'
  BY <1>2, DemandeInv, PrendInv, RenonceInv, IdentifieInv, SoumetInv, DraineInv, RangeInv, RecolteInv, ExpireInv
     DEF Tache
<1> QED BY <1>1, <1>2, LitInv, RepondInv DEF Next

(* The invariant holds throughout. *)
THEOREM InvariantNvme == Spec => []IInv
<1> QED BY InitInv, NextInv, PTL DEF Spec

(* What an emitter collects is the completion of its own command, whatever    *)
(* the controller answers late or out of order, and for any sizes of the      *)
(* rings, of the table and of a batch.                                        *)
THEOREM AchevementsAuxEmetteurs == Spec => []AchevementASonEmetteur
<1>1. IInv => AchevementASonEmetteur
  BY AchevementSuit
<1> QED BY <1>1, InvariantNvme, PTL

(* The DMA buffer of a command that the controller may execute is in nobody   *)
(* else's hands, abandoned commands included.                                 *)
THEOREM TamponsSurs == Spec => []TamponSur
<1>1. IInv => TamponSur
  BY TamponSuit
<1> QED BY <1>1, InvariantNvme, PTL

(* No slot and no identifier is lost, nor lent twice: with more entries than  *)
(* slots, the submission ring never refuses a command.                        *)
THEOREM AucuneFuite == Spec => []SansFuite
<1>1. IInv => SansFuite
  BY FuiteSuit
<1> QED BY <1>1, InvariantNvme, PTL

=============================================================================
