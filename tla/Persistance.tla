----------------------------- MODULE Persistance -----------------------------
(***************************************************************************)
(* The persistent zone of /persist (src/fs/persistance/): two superblocks, *)
(* two half zones, one synchronisation at a time, a mount at boot, and the *)
(* thread that writes deferred modifications (src/fs/ecriture_differee).   *)
(* Paths, lengths and metadata are the table; contents are values; a file  *)
(* takes one sector; the checksum of a table is the table.                 *)
(***************************************************************************)
EXTENDS Integers, FiniteSets

CONSTANTS Fichiers,     \* file names, ordered: a set of integers
          Valeurs,      \* contents
          Absent, Dechire, Vierge, EnteteV1, TableV1, Rien,
          Departs,      \* the disks to start from: [format, dechirable]
          EchecEcrit,   \* a write reported as failed may have been done
          Fautes,       \* what may fail besides a write: "lecture", "barriere"
          MaxModifs, MaxFsync, MaxCoupures, MaxEchecs   \* bounds

ASSUME PersistanceAssumption ==
    /\ Fichiers \subseteq Int /\ IsFiniteSet(Fichiers)
    /\ {MaxModifs, MaxFsync, MaxCoupures, MaxEchecs} \subseteq Nat
    /\ Departs \subseteq [format : {"vierge", "v2", "v1", "v1grand"}, dechirable : BOOLEAN]
    /\ EchecEcrit \in BOOLEAN
    /\ Fautes \subseteq {"lecture", "barriere"}

VARIABLES
    vu,           \* the disk as a read shows it (cache of the device included)
    survivants,   \* for each sector, the values it may have after a power cut
    support,      \* what the disk is: may it tear a sector, how far did V1 reach
    memoire,      \* /persist in the RAMFS, or Rien while the machine is off
    generation,   \* GENERATION: modifications under /persist since the boot
    v1Fin,        \* V1_FIN_SECTEUR: how many half zones the live V1 state covers
    disque,       \* DISQUE: the last image committed and its half zone, or Rien
    tx,           \* the synchronisation that holds TRANSACTION
    fil,          \* the deferred writer: generation written, generation captured
    fait          \* what happened so far, against the bounds

vars == <<vu, survivants, support, memoire, generation, v1Fin, disque, tx, fil, fait>>
plateau == <<vu, survivants, support>>

Demis == {0, 1}
Deux(a, b) == [e \in Demis |-> IF e = 0 THEN a ELSE b]
N == Cardinality(Fichiers)
Images == [Fichiers -> Valeurs \cup {Absent}]
Vide == [f \in Fichiers |-> Absent]
Illisible == [f \in Fichiers |-> Dechire]

----------------------------------------------------------------------------
(* The format *)

(* the entries of the table, and where the content of each one lies *)
Table(im) == {f \in Fichiers : im[f] # Absent}
Rang(f, t) == Cardinality({g \in t : g <= f})

Superblocs == [gen : Nat, demi : Demis, somme : SUBSET Fichiers]

(* a sector says what it is: none passes for another, nor a mark for an image *)
ASSUME SecteursAssumption ==
    /\ Valeurs # {} /\ Rien \notin Nat
    /\ \A im \in Images : im # Rien
    /\ \A t \in SUBSET Fichiers : t # Dechire
    /\ EnteteV1 \notin {Vierge, Dechire}
    /\ \A s \in {Vierge, Dechire, EnteteV1, TableV1} : s \notin Superblocs

Decode(s) == s \notin {Vierge, Dechire, EnteteV1, TableV1}

(* which of the two superblocks to mount: no slot, or one *)
Choisit(a, b) ==
    IF Decode(a) /\ Decode(b) THEN {IF b.gen > a.gen THEN 1 ELSE 0}
    ELSE {e \in Demis : Decode(Deux(a, b)[e])}

(* superbloc_courant: a sector that cannot be read counts as no superblock *)
LitSb(rates) == [e \in Demis |-> IF e \in rates /\ Decode(vu.sb[e]) THEN Dechire ELSE vu.sb[e]]
Courant(lus) == Choisit(lus[0], lus[1])

(* wrong variant: commits in the half zone that is active *)
ProchainMemeDemi(sb, courant) ==
    IF courant = {} THEN [emplacement |-> 0, demi |-> 0, gen |-> 1]
    ELSE LET e == CHOOSE e \in courant : TRUE
         IN [emplacement |-> 1 - e, demi |-> sb[e].demi, gen |-> sb[e].gen + 1]

Prochain(sb, courant) ==
    IF courant = {} THEN [emplacement |-> 0, demi |-> 0, gen |-> 1]
    ELSE LET e == CHOOSE e \in courant : TRUE
         IN [emplacement |-> 1 - e, demi |-> 1 - sb[e].demi, gen |-> sb[e].gen + 1]

DemiSure(prevue) ==
    LET sures == {d \in Demis : v1Fin <= d}
    IN IF prevue \in sures THEN {prevue} ELSE sures

(* the images that a table and the contents of its half zone may give *)
Deplie(t, contenu) ==
    {im \in [Fichiers -> Valeurs \cup {Absent, Dechire}] :
        \A f \in Fichiers : IF f \in t THEN im[f] \in contenu[Rang(f, t)] ELSE im[f] = Absent}

(* a mount, from what each sector may hold: V2, else V1, else nothing *)
MonteV2(s, sb) ==
    UNION {IF t # sb.somme THEN {Vide} ELSE Deplie(t, s.contenu[sb.demi]) : t \in s.table[sb.demi]}

MonteV1(s, b) ==
    UNION {IF b # TableV1 \/ t = Dechire THEN {Illisible} ELSE Deplie(t, s.contenu[0]) : t \in s.table[0]}

MonteDepuis(s, a, b) ==
    LET c == Choisit(a, b)
    IN IF c # {} THEN MonteV2(s, Deux(a, b)[CHOOSE e \in c : TRUE])
       ELSE IF a = EnteteV1 THEN MonteV1(s, b) ELSE {Vide}

Montages(s) == UNION {MonteDepuis(s, a, b) : a \in s.sb[0], b \in s.sb[1]}

Restaurables == Montages(survivants)

----------------------------------------------------------------------------
(* The device: a write is volatile until a barrier *)

Lu(d) == [sb |-> [e \in Demis |-> {d.sb[e]}], table |-> [e \in Demis |-> {d.table[e]}],
          contenu |-> [e \in Demis |-> [k \in 1..N |-> {d.contenu[e][k]}]]]

EcritSb(e, v) ==
    /\ vu' = [vu EXCEPT !.sb[e] = v]
    /\ survivants' = [survivants EXCEPT !.sb[e] = @ \cup {v} \cup (IF support.dechirable THEN {Dechire} ELSE {})]
    /\ UNCHANGED support

EcritTable(d, v) ==
    /\ vu' = [vu EXCEPT !.table[d] = v]
    /\ survivants' = [survivants EXCEPT !.table[d] = @ \cup {v, Dechire}]
    /\ UNCHANGED support

EcritContenu(d, k, v) ==
    /\ vu' = [vu EXCEPT !.contenu[d][k] = v]
    /\ survivants' = [survivants EXCEPT !.contenu[d][k] = @ \cup {v, Dechire}]
    /\ UNCHANGED support

Barriere == survivants' = Lu(vu) /\ UNCHANGED <<vu, support>>

(* the sets of requests, out of q, that the device may fail *)
Ratees(faute, q) == IF faute \in Fautes THEN SUBSET q ELSE {{}}

(* what a write leaves behind, according to what it reports *)
Issues(ok, ancien, nouveau) ==
    IF ok THEN {nouveau}
    ELSE {ancien} \cup (IF EchecEcrit THEN {nouveau} ELSE {})

(* a write of several sectors may also stop half way *)
IssuesDechirees(ok, ancien, nouveau) ==
    Issues(ok, ancien, nouveau) \cup (IF ok THEN {} ELSE {Dechire})

----------------------------------------------------------------------------
TxLibre == [phase |-> "libre", qui |-> Rien, image |-> Rien,
            k |-> 0, emplacement |-> 0, demi |-> 0, gen |-> 0]
Arret == [ecrite |-> 0, g |-> Rien]

(* the disk a machine is first booted with *)
Support(format, im) ==
    LET Posee == [k \in 1..N |-> IF \E f \in Table(im) : Rang(f, Table(im)) = k
                                    THEN im[CHOOSE f \in Table(im) : Rang(f, Table(im)) = k]
                                    ELSE Vierge]
        Nue == [k \in 1..N |-> Vierge]
        Avec(a, b) == [sb |-> Deux(a, b), table |-> Deux(Table(im), Vierge), contenu |-> Deux(Posee, Nue)]
    IN CASE format = "vierge" -> [sb |-> [e \in Demis |-> Vierge], table |-> [e \in Demis |-> Vierge],
                                  contenu |-> [e \in Demis |-> Nue]]
         [] format = "v2" -> Avec([gen |-> 1, demi |-> 0, somme |-> Table(im)], Vierge)
         [] OTHER -> Avec(EnteteV1, TableV1)

Init ==
    /\ \E d \in Departs :
        /\ vu = Support(d.format, [f \in Fichiers |-> CHOOSE v \in Valeurs : TRUE])
        /\ support = [dechirable |-> d.dechirable, etendue |-> IF d.format = "v1grand" THEN 2 ELSE 1]
    /\ survivants = Lu(vu)
    /\ memoire = Rien /\ generation = 0 /\ v1Fin = 0 /\ disque = Rien
    /\ tx = TxLibre /\ fil = Arret
    /\ fait = [modifs |-> 0, fsync |-> 0, coupures |-> 0, echecs |-> 0]

Compte(quoi, max) == fait[quoi] < max /\ fait' = [fait EXCEPT ![quoi] = @ + 1]

(* the outcome of a request: done, or failed while failures remain *)
Essai(ok) == IF ok THEN UNCHANGED fait ELSE Compte("echecs", MaxEchecs)

----------------------------------------------------------------------------
(* The mount, at boot *)

(* what a mount restores when reads fail: no header or no table, no file; a  *)
(* content that cannot be read, no such file                                 *)
MonteLu(lus, autres, contenus) ==
    IF "table" \in autres \/ (Courant(lus) = {} /\ "entete" \in autres) THEN {Vide}
    ELSE {[f \in Fichiers |-> IF f \in contenus THEN Absent ELSE im[f]] :
             im \in MonteDepuis(Lu(vu), lus[0], lus[1])}

Monte ==
    /\ memoire = Rien
    /\ \E sb \in Ratees("lecture", Demis), autres \in Ratees("lecture", {"entete", "table"}),
          contenus \in Ratees("lecture", Fichiers) :
        LET lus == LitSb(sb)
        IN /\ memoire' \in MonteLu(lus, autres, contenus)
           /\ v1Fin' = IF Courant(lus) = {} /\ vu.sb[0] = EnteteV1 /\ autres = {} THEN support.etendue ELSE 0
           /\ Essai(sb = {} /\ autres = {} /\ contenus = {})
    /\ disque' = Rien /\ generation' = 0
    /\ fil' = Arret /\ UNCHANGED <<plateau, tx>>

(* A file is written, created or removed under /persist: the RAMFS lock covers *)
(* the change and the count of it.                                             *)
Modifie ==
    /\ memoire # Rien /\ Compte("modifs", MaxModifs)
    /\ \E f \in Fichiers, v \in Valeurs \cup {Absent} :
        v # memoire[f] /\ memoire' = [memoire EXCEPT ![f] = v]
    /\ generation' = generation + 1
    /\ UNCHANGED <<plateau, v1Fin, disque, tx, fil>>

(* wrong variant: the deferred writer records the generation it finds at the end *)
TermineTard(ok) ==
    /\ tx' = TxLibre
    /\ fil' = IF tx.qui = "fil"
              THEN [ecrite |-> IF ok THEN generation ELSE fil.ecrite, g |-> Rien] ELSE fil


(* TRANSACTION is released; the deferred writer notes the generation it captured *)
Termine(ok) ==
    /\ tx' = TxLibre
    /\ fil' = IF tx.qui = "fil"
              THEN [ecrite |-> IF ok THEN fil.g ELSE fil.ecrite, g |-> Rien] ELSE fil

(* every failure forgets what the disk holds *)
Rate == disque' = Rien /\ Termine(FALSE) /\ UNCHANGED <<memoire, generation, v1Fin>>

Suit(suite) == tx' = suite /\ UNCHANGED <<memoire, generation, v1Fin, disque, fil>>

(* decide(): something is not written and the wait is over (calm, ceiling, back-off) *)
Decide ==
    /\ memoire # Rien /\ fil.g = Rien /\ generation # fil.ecrite
    /\ fil' = [fil EXCEPT !.g = generation]
    /\ UNCHANGED <<plateau, memoire, generation, v1Fin, disque, tx, fait>>

(* TRANSACTION is taken, the RAMFS is copied under its lock *)
Copie(qui) ==
    /\ memoire # Rien /\ tx.phase = "libre"
    /\ tx' = [TxLibre EXCEPT !.phase = "copie", !.qui = qui, !.image = memoire]
    /\ UNCHANGED <<plateau, memoire, generation, v1Fin, disque, fil>>

Fsync == Copie("fsync") /\ Compte("fsync", MaxFsync)
CopieFil == fil.g # Rien /\ Copie("fil") /\ UNCHANGED fait

(* the superblocks are read; the slot, the half zone and the generation are chosen *)
LitSuperblocs ==
    /\ tx.phase = "copie"
    /\ \E rates \in Ratees("lecture", Demis) :
        LET lus == LitSb(rates)
            p == Prochain(lus, Courant(lus))
            sure == DemiSure(p.demi)
        IN /\ IF sure = {} THEN Rate
              ELSE Suit([tx EXCEPT !.phase = "contenu", !.k = 1, !.emplacement = p.emplacement,
                                   !.demi = CHOOSE d \in sure : TRUE, !.gen = p.gen])
           /\ Essai(rates = {})
    /\ UNCHANGED plateau

(* deja_ecrite: same path at the same index, same sector, same seal *)
DejaEcrite(f) ==
    /\ disque # Rien /\ disque.demi = tx.demi
    /\ f \in Table(disque.image) /\ Rang(f, Table(disque.image)) = tx.k
    /\ disque.image[f] = tx.image[f]

ContenuSuivant ==
    /\ tx.phase = "contenu" /\ tx.k <= Cardinality(Table(tx.image))
    /\ LET f == CHOOSE f \in Table(tx.image) : Rang(f, Table(tx.image)) = tx.k
       IN IF DejaEcrite(f) THEN Suit([tx EXCEPT !.k = @ + 1]) /\ UNCHANGED <<plateau, fait>>
          ELSE \E ok \in BOOLEAN :
                \E v \in IssuesDechirees(ok, vu.contenu[tx.demi][tx.k], tx.image[f]) :
                    /\ EcritContenu(tx.demi, tx.k, v) /\ Essai(ok)
                    /\ IF ok THEN Suit([tx EXCEPT !.k = @ + 1]) ELSE Rate

(* no entry, no table *)
EcritLaTable ==
    /\ tx.phase = "contenu" /\ tx.k > Cardinality(Table(tx.image))
    /\ IF Table(tx.image) = {} THEN Suit([tx EXCEPT !.phase = "barriere"]) /\ UNCHANGED <<plateau, fait>>
       ELSE \E ok \in BOOLEAN :
             \E v \in IssuesDechirees(ok, vu.table[tx.demi], Table(tx.image)) :
                 /\ EcritTable(tx.demi, v) /\ Essai(ok)
                 /\ IF ok THEN Suit([tx EXCEPT !.phase = "barriere"]) ELSE Rate

(* volume_barriere(): its answer is counted and nothing else, so a flush that *)
(* fails is a disk without a barrier                                          *)
BarriereOuRien ==
    \E rates \in Ratees("barriere", {"vidange"}) :
        /\ IF rates = {} THEN Barriere ELSE UNCHANGED plateau
        /\ Essai(rates = {})

PremiereBarriere ==
    /\ tx.phase = "barriere" /\ BarriereOuRien
    /\ Suit([tx EXCEPT !.phase = "superbloc"])

(* THE COMMIT: one sector, in the slot the mount does not use *)
EcritLeSuperbloc ==
    /\ tx.phase = "superbloc"
    /\ \E ok \in BOOLEAN :
        \E v \in Issues(ok, vu.sb[tx.emplacement],
                        [gen |-> tx.gen, demi |-> tx.demi, somme |-> Table(tx.image)]) :
            /\ EcritSb(tx.emplacement, v) /\ Essai(ok)
            /\ IF ok THEN Suit([tx EXCEPT !.phase = "fin"]) ELSE Rate

(* the second barrier; V1 is replaced; the index of the disk is the new image *)
Acheve ==
    /\ tx.phase = "fin" /\ BarriereOuRien
    /\ v1Fin' = 0 /\ disque' = [demi |-> tx.demi, image |-> tx.image]
    /\ Termine(TRUE) /\ UNCHANGED <<memoire, generation>>

(* The power goes: each sector keeps one of the values it may have *)
ContenuSurvivant(d) ==
    {c \in [1..N -> Valeurs \cup {Vierge, Dechire}] : \A k \in 1..N : c[k] \in survivants.contenu[d][k]}

Coupure ==
    /\ memoire # Rien /\ Compte("coupures", MaxCoupures)
    /\ \E a \in survivants.sb[0], b \in survivants.sb[1],
          t \in survivants.table[0], u \in survivants.table[1],
          c \in ContenuSurvivant(0), d \in ContenuSurvivant(1) :
        vu' = [sb |-> Deux(a, b), table |-> Deux(t, u), contenu |-> Deux(c, d)]
    /\ survivants' = Lu(vu')
    /\ memoire' = Rien /\ tx' = TxLibre /\ fil' = Arret
    /\ generation' = 0 /\ disque' = Rien /\ v1Fin' = 0
    /\ UNCHANGED support

Fil == Decide \/ CopieFil
Synchro == LitSuperblocs \/ ContenuSuivant \/ EcritLaTable \/ PremiereBarriere \/ EcritLeSuperbloc \/ Acheve
Next == Monte \/ Modifie \/ Fsync \/ Fil \/ Synchro \/ Coupure

(* Boot mounts, the scheduler runs the thread and the task that synchronises. *)
(* Weak fairness of CopieFil: the thread gets TRANSACTION when it is free for *)
(* good; against fsync callers the mutex promises nothing.                    *)
Equite == WF_vars(Monte) /\ WF_vars(Synchro) /\ WF_vars(Decide) /\ WF_vars(CopieFil)
Spec == Init /\ [][Next]_vars
FairSpec == Spec /\ Equite

----------------------------------------------------------------------------
(* On a disk whose reads and flushes succeed (Fautes = {}; writes may fail),   *)
(* the zone implements the depot: what a power cut may bring back changes only *)
(* at the commit sector and when fsync returns; contents, table, failed writes *)
(* and the passage from V1 never show.  A superblock that cannot be read, or a *)
(* flush that fails, breaks it (persist_lecture.cfg, persist_barriere.cfg).    *)
Depot == INSTANCE Depot WITH copie <- tx.image, restaurables <- Restaurables

Implemente == Depot!DSpec

(* The deferred writer believes it is up to date only when it is: the         *)
(* generation written is the current one, and every power cut restores what   *)
(* is in memory.  (A modification between the capture of the generation and   *)
(* the copy of the files must not be counted as written.)  Again on a disk    *)
(* whose reads and flushes succeed: io.rs:143 drops the answer of the flush.  *)
DiffereeDurable ==
    (memoire # Rien /\ fil.ecrite = generation) => Restaurables = {memoire}


(* Types; and what a read shows is one of the values a power cut may leave.   *)
TypeOK ==
    /\ memoire \in Images \cup {Rien}
    /\ generation \in 0..MaxModifs /\ v1Fin \in 0..2
    /\ tx.phase \in {"libre", "copie", "contenu", "barriere", "superbloc", "fin"}
    /\ tx.qui \in {Rien, "fsync", "fil"}
    /\ fil.g \in 0..MaxModifs \cup {Rien}
    /\ \A e \in Demis : vu.sb[e] \in survivants.sb[e] /\ vu.table[e] \in survivants.table[e]

=============================================================================
