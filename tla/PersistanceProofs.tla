-------------------------- MODULE PersistanceProofs --------------------------
(***************************************************************************)
(* Proofs about Persistance, for every set of files and contents, every    *)
(* number of modifications, synchronisations, failures and power cuts:     *)
(* the two half zones implement the depot, and the deferred writer never   *)
(* believes it is up to date when it is not.                               *)
(*                                                                         *)
(* The inductive invariant says that the sectors a commit does not touch   *)
(* (Base) restore ONE image (Sain), and where the commit in progress       *)
(* writes: in the slot the mount does not choose and in the half zone the  *)
(* image does not use.                                                     *)
(***************************************************************************)
EXTENDS Persistance, FiniteSetTheorems, TLAPS

Marques == {Vierge, Dechire, EnteteV1, TableV1}
Tables == (SUBSET Fichiers) \cup {Vierge, Dechire}
Octets == Valeurs \cup {Vierge, Dechire}

Plateaux == [sb : [Demis -> Superblocs \cup Marques], table : [Demis -> Tables],
             contenu : [Demis -> [1..N -> Octets]]]
Possibles == [sb : [Demis -> SUBSET (Superblocs \cup Marques)], table : [Demis -> SUBSET Tables],
              contenu : [Demis -> [1..N -> SUBSET Octets]]]

(* s2 keeps, for each sector, some of the values of s *)
Dans(s2, s) ==
    \A e \in Demis :
        /\ s2.sb[e] # {} /\ s2.sb[e] \subseteq s.sb[e]
        /\ s2.table[e] # {} /\ s2.table[e] \subseteq s.table[e]
        /\ \A k \in 1..N : s2.contenu[e][k] # {} /\ s2.contenu[e][k] \subseteq s.contenu[e][k]

(* half zone d holds im, whatever survives *)
Porte(s, d, im) ==
    /\ s.table[d] # {} /\ (Table(im) # {} => s.table[d] = {Table(im)})
    /\ \A f \in Table(im) : s.contenu[d][Rang(f, Table(im))] = {im[f]}

Bloc(g, d, t) == [gen |-> g, demi |-> d, somme |-> t]

(* what a slot may hold that a superblock of generation g makes a mount forget *)
Vieux(g) == Marques \cup {y \in Superblocs : y.gen < g}

(* s restores im, and a commit in slot e, half zone d, generation g leaves the  *)
(* sectors that restore it alone                                                *)
SainV2(s, im, e, d, g) ==
    /\ g > 0 /\ s.sb[1 - e] = {Bloc(g - 1, 1 - d, Table(im))}
    /\ s.sb[e] # {} /\ s.sb[e] \subseteq Vieux(g - 1)
    /\ Porte(s, 1 - d, im)
SainV1(s, im, e, d, g) ==
    /\ e = 0 /\ d = 1 /\ g = 1
    /\ s.sb[0] = {EnteteV1} /\ s.sb[1] = {TableV1}
    /\ s.table[0] = {Table(im)} /\ Porte(s, 0, im)
SainVierge(s, im, e, d, g) ==
    /\ e = 0 /\ d = 0 /\ g = 1 /\ im = Vide
    /\ \A i \in Demis : s.sb[i] # {} /\ s.sb[i] \subseteq {Vierge, Dechire}
Sain(s, im, e, d, g, v1) ==
    IF v1 THEN SainV1(s, im, e, d, g) ELSE SainV2(s, im, e, d, g) \/ SainVierge(s, im, e, d, g)

Engage == tx.phase \in {"contenu", "barriere", "superbloc", "fin"}
Neuf == Bloc(tx.gen, tx.demi, Table(tx.image))

(* the disk without the superblock being committed *)
Base == IF tx.phase = "fin" THEN [survivants EXCEPT !.sb[tx.emplacement] = @ \ {Neuf}] ELSE survivants

Zone(im, e, d, g, v1) ==
    /\ Sain(Base, im, e, d, g, v1)
    /\ v1 => ~support.dechirable
    /\ memoire # Rien => v1Fin = IF v1 THEN support.etendue ELSE 0
    /\ disque # Rien => disque.demi # d
    /\ Engage => tx.emplacement = e /\ tx.demi = d /\ tx.gen = g

ZoneInv == \E im \in Images, e \in Demis, d \in Demis, g \in Nat, v1 \in BOOLEAN : Zone(im, e, d, g, v1)

Types ==
    /\ vu \in Plateaux /\ survivants \in Possibles /\ Dans(Lu(vu), survivants)
    /\ support \in [dechirable : BOOLEAN, etendue : {1, 2}]
    /\ memoire \in Images \cup {Rien} /\ v1Fin \in 0..2
    /\ tx \in [phase : {"libre", "copie", "contenu", "barriere", "superbloc", "fin"},
               qui : {Rien, "fsync", "fil"}, image : Images \cup {Rien}, k : Nat,
               emplacement : Demis, demi : Demis, gen : Nat]

(* how far the synchronisation is, and what it has written *)
TxInv ==
    /\ memoire = Rien => survivants = Lu(vu) /\ tx = TxLibre
    /\ tx.phase = "libre" => tx = TxLibre
    /\ tx.phase # "libre" => tx.image \in Images
    /\ tx.phase = "contenu" =>
        /\ tx.k \in 1..(Cardinality(Table(tx.image)) + 1)
        /\ \A f \in Table(tx.image) : Rang(f, Table(tx.image)) < tx.k =>
                vu.contenu[tx.demi][Rang(f, Table(tx.image))] = tx.image[f]
    /\ tx.phase = "barriere" => Porte(Lu(vu), tx.demi, tx.image)
    /\ tx.phase \in {"superbloc", "fin"} => Porte(survivants, tx.demi, tx.image)
    /\ tx.phase = "fin" => vu.sb[tx.emplacement] = Neuf

DiffInv ==
    memoire # Rien =>
        /\ generation \in Nat
        /\ fil \in [ecrite : 0..generation, g : (0..generation) \cup {Rien}]
        /\ fil.ecrite = generation => Restaurables = {memoire} /\ (tx.phase # "libre" => tx.image = memoire)
        /\ tx.phase # "libre" /\ tx.qui = "fil" =>
            fil.g # Rien /\ (fil.g = generation => tx.image = memoire)

IInv == Types /\ TxInv /\ ZoneInv

----------------------------------------------------------------------------
(* Ranks *)

(* The entries of a table are stored one per sector, in the order of the names: *)
(* their ranks are the numbers 1 to the number of entries, without a gap and    *)
(* without two entries in one sector.                                           *)
LEMMA RangFaits ==
    ASSUME NEW t \in SUBSET Fichiers
    PROVE  /\ Cardinality(t) \in Nat /\ Cardinality(t) <= N /\ N \in Nat
           /\ \A f \in t : Rang(f, t) \in 1..Cardinality(t)
           /\ \A f, g \in t : Rang(f, t) = Rang(g, t) => f = g
           /\ \A k \in 1..Cardinality(t) : \E f \in t : Rang(f, t) = k
<1> DEFINE Avant(f) == {g \in t : g <= f}
<1>1. IsFiniteSet(t) /\ Cardinality(t) \in Nat /\ Cardinality(t) <= N /\ N \in Nat
  BY FS_Subset, FS_CardinalityType, PersistanceAssumption DEF N
<1>2. \A f \in t : IsFiniteSet(Avant(f)) /\ Cardinality(Avant(f)) \in Nat /\ Cardinality(Avant(f)) <= Cardinality(t)
  <2> TAKE f \in t
  <2>1. Avant(f) \in SUBSET t
    OBVIOUS
  <2> QED BY <1>1, <2>1, FS_Subset, FS_CardinalityType
<1>3. \A f \in t : Rang(f, t) \in 1..Cardinality(t)
  <2> TAKE f \in t
  <2>1. f \in Avant(f)
    BY PersistanceAssumption
  <2>2. Cardinality(Avant(f)) # 0
    BY <1>2, <2>1, FS_EmptySet
  <2> QED BY <1>1, <1>2, <2>2 DEF Rang
<1>4. ASSUME NEW f \in t, NEW g \in t, f < g
      PROVE  Rang(f, t) # Rang(g, t)
  <2>0. f \in Int /\ g \in Int /\ \A h \in t : h \in Int
    BY PersistanceAssumption
  <2>1. Avant(f) \in SUBSET Avant(g)
    <3> SUFFICES ASSUME NEW h \in t, h <= f PROVE h <= g
      OBVIOUS
    <3>1. h \in Int /\ f \in Int /\ g \in Int
      BY <2>0
    <3> QED BY <1>4, <3>1
  <2>2. g \in Avant(g) /\ g \notin Avant(f)
    BY <1>4, PersistanceAssumption
  <2>3. Avant(f) # Avant(g)
    BY <2>2
  <2>4. IsFiniteSet(Avant(g))
    BY <1>2
  <2> HIDE DEF Avant
  <2>5. Cardinality(Avant(g)) # Cardinality(Avant(f))
    BY <2>1, <2>3, <2>4, FS_Subset
  <2> QED BY <2>5 DEF Rang, Avant
<1>5. \A f, g \in t : Rang(f, t) = Rang(g, t) => f = g
  <2> SUFFICES ASSUME NEW f \in t, NEW g \in t, f # g PROVE Rang(f, t) # Rang(g, t)
    OBVIOUS
  <2>1. f < g \/ g < f
    BY PersistanceAssumption
  <2> QED BY <2>1, <1>4
<1>6. \A k \in 1..Cardinality(t) : \E f \in t : Rang(f, t) = k
  <2> DEFINE r == [f \in t |-> Rang(f, t)]
             I == 1..Cardinality(t)
  <2>1. r \in Injection(t, I)
    BY <1>3, <1>5 DEF Injection, IsInjective
  <2>2. IsFiniteSet(I) /\ Cardinality(I) = Cardinality(t)
    BY <1>1, FS_Interval
  <2>3. r \in Surjection(t, I)
    BY <2>1, <2>2, FS_Injection
  <2> QED BY <2>3 DEF Surjection
<1> QED BY <1>1, <1>3, <1>5, <1>6

----------------------------------------------------------------------------
(* What a mount finds *)

(* A half zone whose content sectors are known gives one image. *)
LEMMA DeplieUn ==
    ASSUME NEW im \in Images, NEW c,
           \A f \in Table(im) : c[Rang(f, Table(im))] = {im[f]}
    PROVE  Deplie(Table(im), c) = {im}
<1> DEFINE T == [Fichiers -> Valeurs \cup {Absent, Dechire}]
<1>1. im \in T
  BY DEF Images
<1>2. \A f \in Fichiers : f \notin Table(im) => im[f] = Absent
  BY DEF Table
<1>3. im \in Deplie(Table(im), c)
  BY <1>1, <1>2 DEF Deplie
<1>4. ASSUME NEW j \in Deplie(Table(im), c)
      PROVE  j = im
  <2>1. j \in T /\ \A f \in Fichiers : j[f] = im[f]
    BY <1>2 DEF Deplie
  <2> QED BY <2>1, <1>1
<1> QED BY <1>3, <1>4

(* A half zone that holds an image gives it, when the superblock says so; an    *)
(* empty image is mounted whatever table the half zone holds.                   *)
LEMMA MonteV2Un ==
    ASSUME NEW im \in Images, NEW s, NEW x, x.somme = Table(im), Porte(s, x.demi, im)
    PROVE  MonteV2(s, x) = {im}
<1> DEFINE M(t) == IF t # x.somme THEN {Vide} ELSE Deplie(t, s.contenu[x.demi])
<1>1. M(Table(im)) = {im}
  BY DeplieUn DEF Porte
<1>2. CASE Table(im) # {}
  <2>1. s.table[x.demi] = {Table(im)}
    BY <1>2 DEF Porte
  <2> QED BY <1>1, <2>1 DEF MonteV2
<1>3. CASE Table(im) = {}
  <2>1. im = Vide
    BY <1>3 DEF Table, Images, Vide
  <2>2. \A t : M(t) = {im}
    BY <1>1, <2>1
  <2>3. s.table[x.demi] # {}
    BY DEF Porte
  <2> HIDE DEF M
  <2>4. UNION {M(t) : t \in s.table[x.demi]} = {im}
    BY <2>2, <2>3
  <2> QED BY <2>4 DEF MonteV2, M
<1> QED BY <1>2, <1>3

(* The V1 state gives the image its table and its half zone hold. *)
LEMMA MonteV1Un ==
    ASSUME NEW im \in Images, NEW s, s.table[0] = {Table(im)}, Porte(s, 0, im)
    PROVE  MonteV1(s, TableV1) = {im}
<1>1. Table(im) # Dechire
  BY SecteursAssumption DEF Table
<1>2. Deplie(Table(im), s.contenu[0]) = {im}
  BY DeplieUn DEF Porte
<1> QED BY <1>1, <1>2 DEF MonteV1

(* The choice between two superblocks: the one that makes the other old, or none *)
(* when neither decodes.                                                         *)
LEMMA ChoisitFaits ==
    ASSUME NEW a, NEW b
    PROVE  /\ a \in Marques /\ b \in Marques => Choisit(a, b) = {}
           /\ \A g \in Nat : /\ a \in Superblocs /\ a.gen = g /\ b \in Vieux(g) => Choisit(a, b) = {0}
                             /\ b \in Superblocs /\ b.gen = g /\ a \in Vieux(g) => Choisit(a, b) = {1}
<1>1. \A x \in Marques : ~Decode(x)
  BY DEF Decode, Marques
<1>2. \A x \in Superblocs : Decode(x) /\ x.gen \in Nat
  BY SecteursAssumption DEF Decode, Superblocs
<1>3. Deux(a, b)[0] = a /\ Deux(a, b)[1] = b
  BY DEF Deux, Demis
<1>4. a \in Marques /\ b \in Marques => Choisit(a, b) = {}
  BY <1>1, <1>3 DEF Choisit, Demis
<1>5. ASSUME NEW g \in Nat, a \in Superblocs, a.gen = g, b \in Vieux(g)
      PROVE  Choisit(a, b) = {0}
  <2>1. CASE b \in Marques
    BY <1>1, <1>2, <1>3, <1>5, <2>1 DEF Choisit, Demis
  <2>2. CASE b \in Superblocs /\ b.gen < g
    BY <1>2, <1>5, <2>2 DEF Choisit
  <2> QED BY <1>5, <2>1, <2>2 DEF Vieux
<1>6. ASSUME NEW g \in Nat, b \in Superblocs, b.gen = g, a \in Vieux(g)
      PROVE  Choisit(a, b) = {1}
  <2>1. CASE a \in Marques
    BY <1>1, <1>2, <1>3, <1>6, <2>1 DEF Choisit, Demis
  <2>2. CASE a \in Superblocs /\ a.gen < g
    BY <1>2, <1>6, <2>2 DEF Choisit
  <2> QED BY <1>6, <2>1, <2>2 DEF Vieux
<1> QED BY <1>4, <1>5, <1>6

(* A superblock that is one, and its slot, as Bloc writes it. *)
LEMMA BlocFaits ==
    ASSUME NEW g \in Nat, NEW d \in Demis, NEW im \in Images
    PROVE  /\ Bloc(g, d, Table(im)) \in Superblocs
           /\ Bloc(g, d, Table(im)).gen = g /\ Bloc(g, d, Table(im)).demi = d
           /\ Bloc(g, d, Table(im)).somme = Table(im)
BY DEF Bloc, Superblocs, Table

(* A sound disk is mounted on its image, whichever of the possible values its   *)
(* sectors keep.                                                                *)
LEMMA SainMonte ==
    ASSUME NEW s, NEW im \in Images, NEW e \in Demis, NEW d \in Demis, NEW g \in Nat, NEW v1 \in BOOLEAN,
           Sain(s, im, e, d, g, v1)
    PROVE  Montages(s) = {im} /\ s.sb[0] # {} /\ s.sb[1] # {}
<1>1. /\ s.sb[0] # {} /\ s.sb[1] # {}
      /\ \A a \in s.sb[0], b \in s.sb[1] : MonteDepuis(s, a, b) = {im}
  <2>1. CASE SainV2(s, im, e, d, g)
    <3> DEFINE x == Bloc(g - 1, 1 - d, Table(im))
    <3>1. g - 1 \in Nat /\ 1 - d \in Demis
      BY <2>1 DEF SainV2, Demis
    <3>2. x \in Superblocs /\ x.gen = g - 1 /\ x.demi = 1 - d /\ x.somme = Table(im)
      BY <3>1, BlocFaits
    <3>3. s.sb[1 - e] = {x} /\ s.sb[e] # {} /\ s.sb[e] \subseteq Vieux(g - 1)
      BY <2>1 DEF SainV2
    <3> HIDE DEF x
    <3>4. MonteV2(s, x) = {im}
      BY <2>1, <3>2, MonteV2Un DEF SainV2
    <3>5. CASE e = 1
      <4>1. s.sb[0] = {x} /\ s.sb[1] # {} /\ s.sb[1] \subseteq Vieux(g - 1)
        BY <3>3, <3>5
      <4> SUFFICES ASSUME NEW b \in s.sb[1] PROVE MonteDepuis(s, x, b) = {im}
        BY <4>1
      <4>2. Choisit(x, b) = {0}
        BY <3>1, <3>2, <4>1, ChoisitFaits
      <4>3. Deux(x, b)[0] = x
        BY DEF Deux, Demis
      <4> QED BY <3>4, <4>2, <4>3 DEF MonteDepuis
    <3>6. CASE e = 0
      <4>1. s.sb[1] = {x} /\ s.sb[0] # {} /\ s.sb[0] \subseteq Vieux(g - 1)
        BY <3>3, <3>6
      <4> SUFFICES ASSUME NEW a \in s.sb[0] PROVE MonteDepuis(s, a, x) = {im}
        BY <4>1
      <4>2. Choisit(a, x) = {1}
        BY <3>1, <3>2, <4>1, ChoisitFaits
      <4>3. Deux(a, x)[1] = x
        BY DEF Deux, Demis
      <4> QED BY <3>4, <4>2, <4>3 DEF MonteDepuis
    <3> QED BY <3>5, <3>6 DEF Demis
  <2>2. CASE SainV1(s, im, e, d, g)
    <3>1. s.sb[0] = {EnteteV1} /\ s.sb[1] = {TableV1} /\ MonteV1(s, TableV1) = {im}
      BY <2>2, MonteV1Un DEF SainV1
    <3>2. Choisit(EnteteV1, TableV1) = {}
      BY ChoisitFaits DEF Marques
    <3> QED BY <3>1, <3>2 DEF MonteDepuis
  <2>3. CASE SainVierge(s, im, e, d, g)
    <3>1. \A i \in Demis : s.sb[i] # {} /\ s.sb[i] \subseteq {Vierge, Dechire}
      BY <2>3 DEF SainVierge
    <3>2. s.sb[0] # {} /\ s.sb[0] \subseteq {Vierge, Dechire} /\ s.sb[1] # {} /\ s.sb[1] \subseteq {Vierge, Dechire}
      BY <3>1 DEF Demis
    <3> SUFFICES ASSUME NEW a \in s.sb[0], NEW b \in s.sb[1] PROVE MonteDepuis(s, a, b) = {im}
      BY <3>2
    <3>3. Choisit(a, b) = {} /\ a # EnteteV1
      BY <3>2, ChoisitFaits, SecteursAssumption DEF Marques
    <3> QED BY <2>3, <3>3 DEF MonteDepuis, SainVierge
  <2> QED BY <2>1, <2>2, <2>3 DEF Sain
<1> QED BY <1>1 DEF Montages

(* What a mount may find when one slot holds the values of two disks. *)
LEMMA MonteUnion ==
    ASSUME NEW s, NEW s1, NEW s2, NEW e \in Demis,
           s.sb[e] = s1.sb[e] \cup s2.sb[e],
           s1.sb[1 - e] = s.sb[1 - e], s2.sb[1 - e] = s.sb[1 - e],
           s1.table = s.table, s2.table = s.table, s1.contenu = s.contenu, s2.contenu = s.contenu
    PROVE  Montages(s) = Montages(s1) \cup Montages(s2)
<1>1. \A a, b : /\ MonteDepuis(s1, a, b) = MonteDepuis(s, a, b)
                /\ MonteDepuis(s2, a, b) = MonteDepuis(s, a, b)
  BY DEF MonteDepuis, MonteV2, MonteV1
<1>2. CASE e = 0
  <2>1. s.sb[0] = s1.sb[0] \cup s2.sb[0] /\ s1.sb[1] = s.sb[1] /\ s2.sb[1] = s.sb[1]
    BY <1>2
  <2> QED BY <1>1, <2>1 DEF Montages
<1>3. CASE e = 1
  <2>1. s.sb[1] = s1.sb[1] \cup s2.sb[1] /\ s1.sb[0] = s.sb[0] /\ s2.sb[0] = s.sb[0]
    BY <1>3
  <2> QED BY <1>1, <2>1 DEF Montages
<1> QED BY <1>2, <1>3 DEF Demis

----------------------------------------------------------------------------
(* What a write, a barrier and a power cut do to a sound disk *)

(* A half zone that holds an image still does when some values are gone. *)
LEMMA PorteDans ==
    ASSUME NEW s, NEW s2, Dans(s2, s), NEW d \in Demis, NEW im \in Images, Porte(s, d, im)
    PROVE  Porte(s2, d, im)
<1>1. s2.table[d] # {} /\ s2.table[d] \subseteq s.table[d]
  BY DEF Dans
<1>2. ASSUME NEW f \in Table(im) PROVE s2.contenu[d][Rang(f, Table(im))] = {im[f]}
  <2>1. Rang(f, Table(im)) \in 1..N
    BY RangFaits DEF Table
  <2>2. s2.contenu[d][Rang(f, Table(im))] # {} /\ s2.contenu[d][Rang(f, Table(im))] \subseteq s.contenu[d][Rang(f, Table(im))]
    BY <2>1 DEF Dans
  <2>3. s.contenu[d][Rang(f, Table(im))] = {im[f]}
    BY DEF Porte
  <2> QED BY <2>2, <2>3
<1>3. Table(im) # {} => s2.table[d] = {Table(im)}
  BY <1>1 DEF Porte
<1> QED BY <1>1, <1>2, <1>3 DEF Porte

(* A barrier or a power cut leaves a sound disk sound, with the same image. *)
LEMMA SainDans ==
    ASSUME NEW s, NEW s2, Dans(s2, s), NEW im \in Images, NEW e \in Demis, NEW d \in Demis,
           NEW g \in Nat, NEW v1 \in BOOLEAN, Sain(s, im, e, d, g, v1)
    PROVE  Sain(s2, im, e, d, g, v1)
<1>0. 1 - e \in Demis /\ 1 - d \in Demis /\ 0 \in Demis /\ 1 \in Demis
  BY DEF Demis
<1>1. \A i \in Demis : s2.sb[i] # {} /\ s2.sb[i] \subseteq s.sb[i] /\ s2.table[i] # {} /\ s2.table[i] \subseteq s.table[i]
  BY DEF Dans
<1>2. ASSUME SainV2(s, im, e, d, g) PROVE SainV2(s2, im, e, d, g)
  <2>1. Porte(s2, 1 - d, im)
    BY <1>0, <1>2, PorteDans DEF SainV2
  <2> QED BY <1>0, <1>1, <1>2, <2>1 DEF SainV2
<1>3. ASSUME SainV1(s, im, e, d, g) PROVE SainV1(s2, im, e, d, g)
  <2>1. Porte(s2, 0, im)
    BY <1>0, <1>3, PorteDans DEF SainV1
  <2> QED BY <1>0, <1>1, <1>3, <2>1 DEF SainV1
<1>4. ASSUME SainVierge(s, im, e, d, g) PROVE SainVierge(s2, im, e, d, g)
  BY <1>1, <1>4 DEF SainVierge
<1> QED BY <1>2, <1>3, <1>4 DEF Sain

(* What a commit writes before its superblock is in sectors the mount does not  *)
(* read.                                                                        *)
LEMMA SainAilleurs ==
    ASSUME NEW s, NEW s2, NEW im \in Images, NEW e \in Demis, NEW d \in Demis,
           NEW g \in Nat, NEW v1 \in BOOLEAN, Sain(s, im, e, d, g, v1),
           s2.sb = s.sb,
           s2.table[1 - d] = s.table[1 - d], s2.contenu[1 - d] = s.contenu[1 - d]
    PROVE  Sain(s2, im, e, d, g, v1)
<1>1. SainV2(s, im, e, d, g) => SainV2(s2, im, e, d, g)
  BY DEF SainV2, Porte
<1>2. SainV1(s, im, e, d, g) => SainV1(s2, im, e, d, g)
  <2> SUFFICES ASSUME SainV1(s, im, e, d, g) PROVE SainV1(s2, im, e, d, g)
    OBVIOUS
  <2>1. 1 - d = 0
    BY DEF SainV1
  <2>2. s2.table[0] = s.table[0] /\ s2.contenu[0] = s.contenu[0]
    BY <2>1
  <2> QED BY <2>2 DEF SainV1, Porte
<1>3. SainVierge(s, im, e, d, g) => SainVierge(s2, im, e, d, g)
  BY DEF SainVierge
<1> QED BY <1>1, <1>2, <1>3 DEF Sain

(* A commit sector that is torn, in the slot the mount does not choose, changes *)
(* nothing; a V1 header would, which is why V1 asks for whole sectors.          *)
LEMMA SainDechire ==
    ASSUME NEW s, NEW s2, NEW im \in Images, NEW e \in Demis, NEW d \in Demis,
           NEW g \in Nat, Sain(s, im, e, d, g, FALSE),
           s2.sb[1 - e] = s.sb[1 - e], s2.sb[e] # {}, s2.sb[e] \subseteq s.sb[e] \cup {Dechire},
           s2.table = s.table, s2.contenu = s.contenu
    PROVE  Sain(s2, im, e, d, g, FALSE)
<1>1. SainV2(s, im, e, d, g) => SainV2(s2, im, e, d, g)
  BY DEF SainV2, Porte, Vieux, Marques
<1>2. SainVierge(s, im, e, d, g) => SainVierge(s2, im, e, d, g)
  <2> SUFFICES ASSUME SainVierge(s, im, e, d, g) PROVE SainVierge(s2, im, e, d, g)
    OBVIOUS
  <2>1. s2.sb[0] # {} /\ s2.sb[0] \subseteq s.sb[0] \cup {Dechire} /\ s2.sb[1] = s.sb[1]
    BY DEF SainVierge
  <2> QED BY <2>1 DEF SainVierge, Demis
<1> QED BY <1>1, <1>2 DEF Sain

(* Once the commit sector is the only value of its slot, the disk is sound with *)
(* the new image, and the next commit goes to the other slot and half zone.     *)
LEMMA SainNeuf ==
    ASSUME NEW s, NEW s2, NEW im \in Images, NEW e \in Demis, NEW d \in Demis,
           NEW g \in Nat, NEW v1 \in BOOLEAN, Sain(s, im, e, d, g, v1),
           NEW jm \in Images, Porte(s2, d, jm), s2.sb[e] = {Bloc(g, d, Table(jm))},
           s2.sb[1 - e] # {}, s2.sb[1 - e] \subseteq s.sb[1 - e]
    PROVE  Sain(s2, jm, 1 - e, 1 - d, g + 1, FALSE)
<1>0. 1 - (1 - e) = e /\ 1 - (1 - d) = d /\ (g + 1) - 1 = g /\ g + 1 > 0
  BY DEF Demis
<1>1. s.sb[1 - e] \subseteq Vieux(g)
  <2>1. CASE SainV2(s, im, e, d, g)
    <3>1. g - 1 \in Nat /\ 1 - d \in Demis /\ g - 1 < g
      BY <2>1 DEF SainV2, Demis
    <3> QED BY <2>1, <3>1, BlocFaits DEF SainV2, Vieux
  <2>2. CASE SainV1(s, im, e, d, g)
    BY <2>2 DEF SainV1, Vieux, Marques
  <2>3. CASE SainVierge(s, im, e, d, g)
    BY <2>3 DEF SainVierge, Vieux, Marques, Demis
  <2> QED BY <2>1, <2>2, <2>3 DEF Sain
<1> QED BY <1>0, <1>1 DEF Sain, SainV2

(* While the commit sector may or may not survive, a mount finds the old image  *)
(* or the new one.                                                              *)
LEMMA MonteDeux ==
    ASSUME NEW s \in Possibles, NEW im \in Images, NEW e \in Demis, NEW d \in Demis,
           NEW g \in Nat, NEW v1 \in BOOLEAN, NEW jm \in Images,
           Bloc(g, d, Table(jm)) \in s.sb[e], Porte(s, d, jm),
           Sain([s EXCEPT !.sb[e] = @ \ {Bloc(g, d, Table(jm))}], im, e, d, g, v1)
    PROVE  Montages(s) = {im, jm}
<1> DEFINE x == Bloc(g, d, Table(jm))
           s1 == [s EXCEPT !.sb[e] = @ \ {x}]
           s2 == [s EXCEPT !.sb[e] = {x}]
<1> HIDE DEF x
<1>0. 1 - e \in Demis /\ 1 - e # e /\ 1 - d \in Demis /\ g + 1 \in Nat
  BY DEF Demis
<1>1. /\ s1.sb[e] = s.sb[e] \ {x} /\ s1.sb[1 - e] = s.sb[1 - e] /\ s1.table = s.table /\ s1.contenu = s.contenu
      /\ s2.sb[e] = {x} /\ s2.sb[1 - e] = s.sb[1 - e] /\ s2.table = s.table /\ s2.contenu = s.contenu
  BY <1>0 DEF Possibles
<1>2. Sain(s1, im, e, d, g, v1) /\ x \in s.sb[e]
  BY DEF x
<1> HIDE DEF s1, s2
<1>3. Montages(s1) = {im} /\ s1.sb[1 - e] # {}
  BY <1>2, SainMonte DEF Demis
<1>4. Porte(s2, d, jm)
  BY <1>1 DEF Porte
<1>5. Sain(s2, jm, 1 - e, 1 - d, g + 1, FALSE)
  <2>1. s2.sb[e] = {Bloc(g, d, Table(jm))}
    BY <1>1 DEF x
  <2>2. s2.sb[1 - e] # {} /\ s2.sb[1 - e] \subseteq s1.sb[1 - e]
    BY <1>1, <1>3
  <2> QED BY <1>2, <1>4, <2>1, <2>2, SainNeuf
<1>6. Montages(s2) = {jm}
  BY <1>0, <1>5, SainMonte
<1>7. Montages(s) = Montages(s1) \cup Montages(s2)
  BY <1>1, <1>2, MonteUnion
<1> QED BY <1>3, <1>6, <1>7

(* What a read of the disk gives, sector by sector. *)
LEMMA LuFaits ==
    ASSUME NEW w \in Plateaux
    PROVE  /\ Lu(w) \in Possibles
           /\ \A e \in Demis : /\ Lu(w).sb[e] = {w.sb[e]} /\ Lu(w).table[e] = {w.table[e]}
                               /\ \A k \in 1..N : Lu(w).contenu[e][k] = {w.contenu[e][k]}
<1>1. /\ w.sb \in [Demis -> Superblocs \cup Marques] /\ w.table \in [Demis -> Tables]
      /\ w.contenu \in [Demis -> [1..N -> Octets]]
  BY DEF Plateaux
<1>2. /\ Lu(w).sb = [e \in Demis |-> {w.sb[e]}] /\ Lu(w).table = [e \in Demis |-> {w.table[e]}]
      /\ Lu(w).contenu = [e \in Demis |-> [k \in 1..N |-> {w.contenu[e][k]}]]
  BY DEF Lu
<1>3. \A e \in Demis : /\ Lu(w).sb[e] = {w.sb[e]} /\ Lu(w).table[e] = {w.table[e]}
                       /\ \A k \in 1..N : Lu(w).contenu[e][k] = {w.contenu[e][k]}
  BY <1>2
<1>4. /\ Lu(w).sb \in [Demis -> SUBSET (Superblocs \cup Marques)] /\ Lu(w).table \in [Demis -> SUBSET Tables]
      /\ Lu(w).contenu \in [Demis -> [1..N -> SUBSET Octets]]
  <2>1. \A e \in Demis : w.sb[e] \in Superblocs \cup Marques /\ w.table[e] \in Tables
    BY <1>1
  <2>2. \A e \in Demis : [k \in 1..N |-> {w.contenu[e][k]}] \in [1..N -> SUBSET Octets]
    <3> TAKE e \in Demis
    <3>1. w.contenu[e] \in [1..N -> Octets]
      BY <1>1
    <3>2. \A k \in 1..N : {w.contenu[e][k]} \in SUBSET Octets
      BY <3>1
    <3> QED BY <3>2
  <2> QED BY <1>2, <2>1, <2>2
<1>5. Lu(w) = [sb |-> Lu(w).sb, table |-> Lu(w).table, contenu |-> Lu(w).contenu]
  BY DEF Lu
<1>6. Lu(w) \in Possibles
  BY <1>4, <1>5 DEF Possibles
<1> QED BY <1>3, <1>6

(* The superblocks as they read decide where the next commit goes; the V1 state *)
(* is recognised, and only it.                                                  *)
LEMMA ProchainFaits ==
    ASSUME NEW s, NEW a, NEW b, a \in s.sb[0], b \in s.sb[1], NEW sb, sb[0] = a, sb[1] = b,
           NEW im \in Images, NEW e \in Demis, NEW d \in Demis, NEW g \in Nat, NEW v1 \in BOOLEAN,
           Sain(s, im, e, d, g, v1)
    PROVE  /\ Prochain(sb, Choisit(a, b)) = [emplacement |-> e, demi |-> IF v1 THEN 0 ELSE d, gen |-> g]
           /\ v1 <=> Choisit(a, b) = {} /\ a = EnteteV1
<1>1. ASSUME SainV2(s, im, e, d, g)
      PROVE  Choisit(a, b) = {1 - e} /\ Prochain(sb, {1 - e}) = [emplacement |-> e, demi |-> d, gen |-> g]
  <2> DEFINE x == Bloc(g - 1, 1 - d, Table(im))
  <2>1. g - 1 \in Nat /\ 1 - d \in Demis /\ 1 - (1 - d) = d /\ 1 - (1 - e) = e /\ (g - 1) + 1 = g
    BY <1>1 DEF SainV2, Demis
  <2>2. x \in Superblocs /\ x.gen = g - 1 /\ x.demi = 1 - d
    BY <2>1, BlocFaits
  <2>3. s.sb[1 - e] = {x} /\ s.sb[e] \subseteq Vieux(g - 1)
    BY <1>1 DEF SainV2
  <2> HIDE DEF x
  <2>4. CASE e = 1
    <3>1. a = x /\ b \in Vieux(g - 1)
      BY <2>3, <2>4
    <3>2. Choisit(a, b) = {0}
      BY <2>1, <2>2, <3>1, ChoisitFaits
    <3>3. sb[1 - e] = x
      BY <2>4, <3>1
    <3> QED BY <2>1, <2>2, <2>4, <3>2, <3>3 DEF Prochain
  <2>5. CASE e = 0
    <3>1. b = x /\ a \in Vieux(g - 1)
      BY <2>3, <2>5
    <3>2. Choisit(a, b) = {1}
      BY <2>1, <2>2, <3>1, ChoisitFaits
    <3>3. sb[1 - e] = x
      BY <2>5, <3>1
    <3> QED BY <2>1, <2>2, <2>5, <3>2, <3>3 DEF Prochain
  <2> QED BY <2>4, <2>5 DEF Demis
<1>2. ASSUME SainV1(s, im, e, d, g)
      PROVE  Choisit(a, b) = {} /\ a = EnteteV1 /\ e = 0 /\ g = 1
  BY <1>2, ChoisitFaits DEF SainV1, Marques
<1>3. ASSUME SainVierge(s, im, e, d, g)
      PROVE  Choisit(a, b) = {} /\ a # EnteteV1 /\ e = 0 /\ d = 0 /\ g = 1
  BY <1>3, ChoisitFaits, SecteursAssumption DEF SainVierge, Marques, Demis
<1>4. CASE v1
  BY <1>2, <1>4 DEF Sain, Prochain
<1>5. CASE ~v1 /\ SainV2(s, im, e, d, g)
  BY <1>1, <1>5
<1>6. CASE ~v1 /\ SainVierge(s, im, e, d, g)
  BY <1>3, <1>6 DEF Prochain
<1> QED BY <1>4, <1>5, <1>6 DEF Sain

----------------------------------------------------------------------------
(* The first boot *)

Premiere == [f \in Fichiers |-> CHOOSE v \in Valeurs : TRUE]

(* The disks a machine is first booted with are sound: blank, V2 or V1. *)
LEMMA SupportSain ==
    ASSUME NEW format \in {"vierge", "v2", "v1", "v1grand"}
    PROVE  /\ Support(format, Premiere) \in Plateaux
           /\ \E im \in Images, e \in Demis, d \in Demis, g \in Nat, v1 \in BOOLEAN :
                 /\ Sain(Lu(Support(format, Premiere)), im, e, d, g, v1)
                 /\ v1 => format \in {"v1", "v1grand"}
<1> DEFINE w == Support(format, Premiere)
           t == Table(Premiere)
           Posee == [k \in 1..N |-> IF \E f \in t : Rang(f, t) = k
                                    THEN Premiere[CHOOSE f \in t : Rang(f, t) = k] ELSE Vierge]
           Nue == [k \in 1..N |-> Vierge]
<1>1. Premiere \in Images /\ Vide \in Images /\ Premiere \in [Fichiers -> Valeurs] /\ t \in SUBSET Fichiers
  BY SecteursAssumption DEF Premiere, Images, Vide, Table
<1>2. Nue \in [1..N -> Octets] /\ Posee \in [1..N -> Octets]
  <2>1. ASSUME NEW k \in 1..N, \E f \in t : Rang(f, t) = k
        PROVE  Premiere[CHOOSE f \in t : Rang(f, t) = k] \in Valeurs
    <3>1. (CHOOSE f \in t : Rang(f, t) = k) \in Fichiers
      BY <1>1, <2>1
    <3> QED BY <1>1, <3>1
  <2>2. \A k \in 1..N : Posee[k] \in Octets
    BY <2>1 DEF Octets
  <2> QED BY <2>2 DEF Octets
<1>3. \A f \in t : Posee[Rang(f, t)] = Premiere[f]
  <2> TAKE f \in t
  <2>1. Rang(f, t) \in 1..N /\ \A g \in t : Rang(g, t) = Rang(f, t) => g = f
    BY <1>1, RangFaits
  <2>2. (CHOOSE g \in t : Rang(g, t) = Rang(f, t)) = f
    BY <2>1
  <2> QED BY <2>1, <2>2
<1>4. 0 \in Demis /\ 1 \in Demis /\ 1 \in Nat /\ 2 \in Nat /\ {} # {Vierge}
  BY DEF Demis
<1>5. ASSUME NEW x \in Superblocs \cup Marques, NEW y \in Superblocs \cup Marques,
             w = [sb |-> Deux(x, y), table |-> Deux(t, Vierge), contenu |-> Deux(Posee, Nue)]
      PROVE  /\ w \in Plateaux /\ Lu(w).sb[0] = {x} /\ Lu(w).sb[1] = {y} /\ Lu(w).table[0] = {t}
             /\ Porte(Lu(w), 0, Premiere)
  <2> HIDE DEF w, Posee, Nue
  <2>1. /\ w.sb = Deux(x, y) /\ w.table = Deux(t, Vierge) /\ w.contenu = Deux(Posee, Nue)
        /\ w = [sb |-> w.sb, table |-> w.table, contenu |-> w.contenu]
    BY <1>5
  <2>2. /\ w.sb \in [Demis -> Superblocs \cup Marques] /\ w.table \in [Demis -> Tables]
        /\ w.contenu \in [Demis -> [1..N -> Octets]]
    <3>1. Deux(x, y) \in [Demis -> Superblocs \cup Marques]
      BY DEF Deux
    <3>2. t \in Tables /\ Vierge \in Tables
      BY <1>1 DEF Tables
    <3>3. Deux(t, Vierge) \in [Demis -> Tables]
      BY <3>2 DEF Deux
    <3>4. Deux(Posee, Nue) \in [Demis -> [1..N -> Octets]]
      BY <1>2 DEF Deux
    <3> QED BY <2>1, <3>1, <3>3, <3>4
  <2>3. w \in Plateaux
    BY <2>1, <2>2 DEF Plateaux
  <2>4. w.sb[0] = x /\ w.sb[1] = y /\ w.table[0] = t /\ w.contenu[0] = Posee
    BY <2>1 DEF Deux, Demis
  <2>5. /\ Lu(w).sb[0] = {x} /\ Lu(w).sb[1] = {y} /\ Lu(w).table[0] = {t}
        /\ \A k \in 1..N : Lu(w).contenu[0][k] = {Posee[k]}
    BY <1>4, <2>3, <2>4, LuFaits
  <2>6. \A f \in t : Lu(w).contenu[0][Rang(f, t)] = {Premiere[f]}
    <3>1. \A f \in t : Rang(f, t) \in 1..N
      BY <1>1, RangFaits
    <3> QED BY <1>3, <2>5, <3>1
  <2> QED BY <2>3, <2>5, <2>6 DEF Porte
<1>6. CASE format = "vierge"
  <2>1. w = [sb |-> [e \in Demis |-> Vierge], table |-> [e \in Demis |-> Vierge], contenu |-> [e \in Demis |-> Nue]]
    BY <1>6 DEF Support
  <2> HIDE DEF w, Nue
  <2>2. w \in Plateaux /\ \A i \in Demis : w.sb[i] = Vierge
    <3>1. /\ [e \in Demis |-> Vierge] \in [Demis -> Superblocs \cup Marques]
          /\ [e \in Demis |-> Vierge] \in [Demis -> Tables]
          /\ [e \in Demis |-> Nue] \in [Demis -> [1..N -> Octets]]
      BY <1>2 DEF Tables, Marques
    <3> QED BY <2>1, <3>1 DEF Plateaux
  <2>3. SainVierge(Lu(w), Vide, 0, 0, 1)
    BY <2>2, LuFaits DEF SainVierge
  <2> QED BY <1>1, <1>4, <2>2, <2>3 DEF Sain, w
<1>7. CASE format = "v2"
  <2> DEFINE x == Bloc(1, 0, t)
  <2>1. w = [sb |-> Deux(x, Vierge), table |-> Deux(t, Vierge), contenu |-> Deux(Posee, Nue)]
    BY <1>7 DEF Support, Bloc
  <2>2. x \in Superblocs
    BY <1>1, <1>4, BlocFaits
  <2> HIDE DEF w, x, Posee, Nue
  <2>3. w \in Plateaux /\ Lu(w).sb[0] = {x} /\ Lu(w).sb[1] = {Vierge} /\ Porte(Lu(w), 0, Premiere)
    BY <1>5, <2>1, <2>2 DEF Marques
  <2>4. SainV2(Lu(w), Premiere, 1, 1, 2)
    BY <2>3 DEF SainV2, x, Vieux, Marques
  <2> QED BY <1>1, <1>4, <2>3, <2>4 DEF Sain, w
<1>8. CASE format \in {"v1", "v1grand"}
  <2>1. w = [sb |-> Deux(EnteteV1, TableV1), table |-> Deux(t, Vierge), contenu |-> Deux(Posee, Nue)]
    BY <1>8 DEF Support
  <2> HIDE DEF w, Posee, Nue
  <2>2. /\ w \in Plateaux /\ Lu(w).sb[0] = {EnteteV1} /\ Lu(w).sb[1] = {TableV1}
        /\ Lu(w).table[0] = {t} /\ Porte(Lu(w), 0, Premiere)
    BY <1>5, <2>1 DEF Marques
  <2>3. SainV1(Lu(w), Premiere, 0, 1, 1)
    BY <2>2 DEF SainV1
  <2> QED BY <1>1, <1>4, <1>8, <2>2, <2>3 DEF Sain, w
<1> QED BY <1>6, <1>7, <1>8

(* A read shows values that may survive, if each sector does. *)
LEMMA DansParSecteur ==
    ASSUME NEW w \in Plateaux, NEW s,
           \A e \in Demis : /\ w.sb[e] \in s.sb[e] /\ w.table[e] \in s.table[e]
                            /\ \A j \in 1..N : w.contenu[e][j] \in s.contenu[e][j]
    PROVE  Dans(Lu(w), s)
<1> SUFFICES ASSUME NEW e \in Demis
             PROVE  /\ Lu(w).sb[e] # {} /\ Lu(w).sb[e] \subseteq s.sb[e]
                    /\ Lu(w).table[e] # {} /\ Lu(w).table[e] \subseteq s.table[e]
                    /\ \A k \in 1..N : Lu(w).contenu[e][k] # {} /\ Lu(w).contenu[e][k] \subseteq s.contenu[e][k]
  BY DEF Dans
<1>1. /\ Lu(w).sb[e] = {w.sb[e]} /\ Lu(w).table[e] = {w.table[e]}
      /\ \A k \in 1..N : Lu(w).contenu[e][k] = {w.contenu[e][k]}
  BY LuFaits
<1>2. Lu(w).sb[e] # {} /\ Lu(w).sb[e] \subseteq s.sb[e] /\ Lu(w).table[e] # {} /\ Lu(w).table[e] \subseteq s.table[e]
  BY <1>1
<1>3. \A k \in 1..N : Lu(w).contenu[e][k] # {} /\ Lu(w).contenu[e][k] \subseteq s.contenu[e][k]
  <2> TAKE k \in 1..N
  <2>1. Lu(w).contenu[e][k] = {w.contenu[e][k]}
    BY <1>1
  <2>2. w.contenu[e][k] \in s.contenu[e][k]
    OBVIOUS
  <2> QED BY <2>1, <2>2
<1> QED BY <1>2, <1>3

(* What a read shows survives, when everything is on the platter. *)
LEMMA LuDansLu ==
    ASSUME NEW w \in Plateaux
    PROVE  Dans(Lu(w), Lu(w))
<1>1. \A e \in Demis : /\ w.sb[e] \in Lu(w).sb[e] /\ w.table[e] \in Lu(w).table[e]
                       /\ \A j \in 1..N : w.contenu[e][j] \in Lu(w).contenu[e][j]
  BY LuFaits
<1> QED BY <1>1, DansParSecteur

(* The invariant holds when the machine is first plugged in. *)
LEMMA InitInv ==
    ASSUME \A d \in Departs : d.format \in {"v1", "v1grand"} => ~d.dechirable, Init
    PROVE  IInv
<1>1. PICK q \in Departs :
        /\ vu = Support(q.format, Premiere)
        /\ support = [dechirable |-> q.dechirable, etendue |-> IF q.format = "v1grand" THEN 2 ELSE 1]
  BY DEF Init, Premiere
<1>2. q.format \in {"vierge", "v2", "v1", "v1grand"} /\ q.dechirable \in BOOLEAN
  BY PersistanceAssumption
<1>3. vu \in Plateaux
  BY <1>1, <1>2, SupportSain
<1>4. PICK im \in Images, e \in Demis, d \in Demis, g \in Nat, v1 \in BOOLEAN :
        Sain(Lu(vu), im, e, d, g, v1) /\ (v1 => q.format \in {"v1", "v1grand"})
  BY <1>1, <1>2, SupportSain
<1>5. survivants = Lu(vu) /\ memoire = Rien /\ v1Fin = 0 /\ disque = Rien /\ tx = TxLibre /\ tx.phase = "libre"
  BY DEF Init, TxLibre
<1>6. Types
  <2>1. tx \in [phase : {"libre", "copie", "contenu", "barriere", "superbloc", "fin"},
               qui : {Rien, "fsync", "fil"}, image : Images \cup {Rien}, k : Nat,
               emplacement : Demis, demi : Demis, gen : Nat]
    BY <1>5 DEF TxLibre, Demis
  <2>2. support \in [dechirable : BOOLEAN, etendue : {1, 2}]
    BY <1>1, <1>2
  <2> QED BY <1>3, <1>5, <2>1, <2>2, LuFaits, LuDansLu DEF Types
<1>7. TxInv
  BY <1>5 DEF TxInv
<1>8. Zone(im, e, d, g, v1)
  <2>1. Base = survivants /\ ~Engage
    BY <1>5 DEF Base, Engage
  <2>2. v1 => ~support.dechirable
    BY <1>1, <1>4
  <2> QED BY <1>4, <1>5, <2>1, <2>2 DEF Zone
<1> QED BY <1>6, <1>7, <1>8 DEF IInv, ZoneInv

----------------------------------------------------------------------------
(* The device *)

(* A content sector is written: one sector of one half zone, now uncertain. *)
LEMMA EcritContenuFaits ==
    ASSUME vu \in Plateaux, survivants \in Possibles, Dans(Lu(vu), survivants),
           NEW d \in Demis, NEW k \in 1..N, NEW v \in Octets, EcritContenu(d, k, v)
    PROVE  /\ vu' \in Plateaux /\ survivants' \in Possibles /\ Dans(Lu(vu'), survivants')
           /\ survivants'.sb = survivants.sb /\ survivants'.table = survivants.table
           /\ survivants'.contenu[1 - d] = survivants.contenu[1 - d]
           /\ vu'.contenu[d][k] = v /\ \A j \in 1..N : j # k => vu'.contenu[d][j] = vu.contenu[d][j]
           /\ support' = support
<1> DEFINE S == survivants.contenu[d][k] \cup {v, Dechire}
<1>0. 1 - d \in Demis /\ 1 - d # d /\ support' = support
  BY DEF Demis, EcritContenu
<1>1. /\ vu.sb \in [Demis -> Superblocs \cup Marques] /\ vu.table \in [Demis -> Tables]
      /\ vu.contenu \in [Demis -> [1..N -> Octets]] /\ vu.contenu[d] \in [1..N -> Octets]
  BY DEF Plateaux
<1>2. /\ survivants.sb \in [Demis -> SUBSET (Superblocs \cup Marques)] /\ survivants.table \in [Demis -> SUBSET Tables]
      /\ survivants.contenu \in [Demis -> [1..N -> SUBSET Octets]] /\ survivants.contenu[d] \in [1..N -> SUBSET Octets]
  BY DEF Possibles
<1>3. /\ vu'.sb = vu.sb /\ vu'.table = vu.table
      /\ vu'.contenu = [vu.contenu EXCEPT ![d] = [vu.contenu[d] EXCEPT ![k] = v]]
      /\ vu' = [sb |-> vu'.sb, table |-> vu'.table, contenu |-> vu'.contenu]
  BY <1>1 DEF EcritContenu, Plateaux
<1>4. /\ survivants'.sb = survivants.sb /\ survivants'.table = survivants.table
      /\ survivants'.contenu = [survivants.contenu EXCEPT ![d] = [survivants.contenu[d] EXCEPT ![k] = S]]
      /\ survivants' = [sb |-> survivants'.sb, table |-> survivants'.table, contenu |-> survivants'.contenu]
  BY <1>2 DEF EcritContenu, Possibles
<1>5. S \in SUBSET Octets /\ v \in S
  BY <1>2 DEF Octets
<1> HIDE DEF S
<1>6. [vu.contenu[d] EXCEPT ![k] = v] \in [1..N -> Octets] /\ [survivants.contenu[d] EXCEPT ![k] = S] \in [1..N -> SUBSET Octets]
  BY <1>1, <1>2, <1>5
<1>7. vu'.contenu \in [Demis -> [1..N -> Octets]] /\ survivants'.contenu \in [Demis -> [1..N -> SUBSET Octets]]
  BY <1>1, <1>2, <1>3, <1>4, <1>6
<1>8. vu' \in Plateaux /\ survivants' \in Possibles
  BY <1>1, <1>2, <1>3, <1>4, <1>7 DEF Plateaux, Possibles
<1>9. /\ vu'.contenu[d] = [vu.contenu[d] EXCEPT ![k] = v] /\ survivants'.contenu[d] = [survivants.contenu[d] EXCEPT ![k] = S]
      /\ vu'.contenu[1 - d] = vu.contenu[1 - d] /\ survivants'.contenu[1 - d] = survivants.contenu[1 - d]
  BY <1>0, <1>1, <1>2, <1>3, <1>4
<1>10. /\ vu'.contenu[d][k] = v /\ \A j \in 1..N : j # k => vu'.contenu[d][j] = vu.contenu[d][j]
       /\ survivants'.contenu[d][k] = S /\ \A j \in 1..N : j # k => survivants'.contenu[d][j] = survivants.contenu[d][j]
  BY <1>1, <1>2, <1>9
<1>11. \A e \in Demis : vu.sb[e] \in survivants.sb[e] /\ vu.table[e] \in survivants.table[e]
                        /\ \A j \in 1..N : vu.contenu[e][j] \in survivants.contenu[e][j]
  BY LuFaits DEF Dans
<1>12. \A e \in Demis : vu'.sb[e] \in survivants'.sb[e] /\ vu'.table[e] \in survivants'.table[e]
                        /\ \A j \in 1..N : vu'.contenu[e][j] \in survivants'.contenu[e][j]
  <2> TAKE e \in Demis
  <2>1. vu'.sb[e] \in survivants'.sb[e] /\ vu'.table[e] \in survivants'.table[e]
    BY <1>3, <1>4, <1>11
  <2>2. CASE e = d
    BY <1>5, <1>10, <1>11, <2>1, <2>2
  <2>3. CASE e = 1 - d
    BY <1>0, <1>9, <1>11, <2>1, <2>3
  <2> QED BY <2>2, <2>3 DEF Demis
<1>13. Dans(Lu(vu'), survivants')
  BY <1>8, <1>12, DansParSecteur
<1> QED BY <1>0, <1>4, <1>8, <1>9, <1>10, <1>13

(* The table of a half zone is written. *)
LEMMA EcritTableFaits ==
    ASSUME vu \in Plateaux, survivants \in Possibles, Dans(Lu(vu), survivants),
           NEW d \in Demis, NEW v \in Tables, EcritTable(d, v)
    PROVE  /\ vu' \in Plateaux /\ survivants' \in Possibles /\ Dans(Lu(vu'), survivants')
           /\ survivants'.sb = survivants.sb /\ survivants'.contenu = survivants.contenu
           /\ survivants'.table[1 - d] = survivants.table[1 - d]
           /\ vu'.table[d] = v /\ vu'.contenu = vu.contenu
           /\ support' = support
<1> DEFINE S == survivants.table[d] \cup {v, Dechire}
<1>0. 1 - d \in Demis /\ 1 - d # d /\ support' = support
  BY DEF Demis, EcritTable
<1>1. /\ vu.sb \in [Demis -> Superblocs \cup Marques] /\ vu.table \in [Demis -> Tables]
      /\ vu.contenu \in [Demis -> [1..N -> Octets]]
  BY DEF Plateaux
<1>2. /\ survivants.sb \in [Demis -> SUBSET (Superblocs \cup Marques)] /\ survivants.table \in [Demis -> SUBSET Tables]
      /\ survivants.contenu \in [Demis -> [1..N -> SUBSET Octets]]
  BY DEF Possibles
<1>3. /\ vu'.sb = vu.sb /\ vu'.contenu = vu.contenu /\ vu'.table = [vu.table EXCEPT ![d] = v]
      /\ vu' = [sb |-> vu'.sb, table |-> vu'.table, contenu |-> vu'.contenu]
  BY <1>1 DEF EcritTable, Plateaux
<1>4. /\ survivants'.sb = survivants.sb /\ survivants'.contenu = survivants.contenu
      /\ survivants'.table = [survivants.table EXCEPT ![d] = S]
      /\ survivants' = [sb |-> survivants'.sb, table |-> survivants'.table, contenu |-> survivants'.contenu]
  BY <1>2 DEF EcritTable, Possibles
<1>5. S \in SUBSET Tables /\ v \in S
  BY <1>2 DEF Tables
<1> HIDE DEF S
<1>6. /\ vu'.table \in [Demis -> Tables] /\ survivants'.table \in [Demis -> SUBSET Tables]
      /\ vu'.table[d] = v /\ survivants'.table[d] = S
      /\ vu'.table[1 - d] = vu.table[1 - d] /\ survivants'.table[1 - d] = survivants.table[1 - d]
  BY <1>0, <1>1, <1>2, <1>3, <1>4, <1>5
<1>7. vu' \in Plateaux /\ survivants' \in Possibles
  BY <1>1, <1>2, <1>3, <1>4, <1>6 DEF Plateaux, Possibles
<1>8. \A e \in Demis : vu.sb[e] \in survivants.sb[e] /\ vu.table[e] \in survivants.table[e]
                       /\ \A j \in 1..N : vu.contenu[e][j] \in survivants.contenu[e][j]
  BY LuFaits DEF Dans
<1>9. \A e \in Demis : vu'.sb[e] \in survivants'.sb[e] /\ vu'.table[e] \in survivants'.table[e]
                       /\ \A j \in 1..N : vu'.contenu[e][j] \in survivants'.contenu[e][j]
  <2> TAKE e \in Demis
  <2>1. /\ vu'.sb[e] \in survivants'.sb[e]
        /\ \A j \in 1..N : vu'.contenu[e][j] \in survivants'.contenu[e][j]
    BY <1>3, <1>4, <1>8
  <2>2. vu'.table[e] \in survivants'.table[e]
    BY <1>5, <1>6, <1>8 DEF Demis
  <2> QED BY <2>1, <2>2
<1>10. Dans(Lu(vu'), survivants')
  BY <1>7, <1>9, DansParSecteur
<1> QED BY <1>0, <1>3, <1>4, <1>6, <1>7, <1>10

(* A superblock is written: on a disk that writes sectors whole, the slot keeps *)
(* its old value or takes the new one.                                          *)
LEMMA EcritSbFaits ==
    ASSUME vu \in Plateaux, survivants \in Possibles, Dans(Lu(vu), survivants),
           NEW e \in Demis, NEW v \in Superblocs \cup Marques, EcritSb(e, v)
    PROVE  /\ vu' \in Plateaux /\ survivants' \in Possibles /\ Dans(Lu(vu'), survivants')
           /\ survivants'.sb[e] = survivants.sb[e] \cup {v} \cup (IF support.dechirable THEN {Dechire} ELSE {})
           /\ survivants'.sb[1 - e] = survivants.sb[1 - e]
           /\ survivants'.table = survivants.table /\ survivants'.contenu = survivants.contenu
           /\ vu'.sb[e] = v /\ vu'.sb[1 - e] = vu.sb[1 - e] /\ vu.sb[e] \in survivants.sb[e]
           /\ support' = support
<1> DEFINE S == survivants.sb[e] \cup {v} \cup (IF support.dechirable THEN {Dechire} ELSE {})
<1>0. 1 - e \in Demis /\ 1 - e # e /\ support' = support
  BY DEF Demis, EcritSb
<1>1. /\ vu.sb \in [Demis -> Superblocs \cup Marques] /\ vu.table \in [Demis -> Tables]
      /\ vu.contenu \in [Demis -> [1..N -> Octets]]
  BY DEF Plateaux
<1>2. /\ survivants.sb \in [Demis -> SUBSET (Superblocs \cup Marques)] /\ survivants.table \in [Demis -> SUBSET Tables]
      /\ survivants.contenu \in [Demis -> [1..N -> SUBSET Octets]]
  BY DEF Possibles
<1>3. /\ vu'.table = vu.table /\ vu'.contenu = vu.contenu /\ vu'.sb = [vu.sb EXCEPT ![e] = v]
      /\ vu' = [sb |-> vu'.sb, table |-> vu'.table, contenu |-> vu'.contenu]
  BY <1>1 DEF EcritSb, Plateaux
<1>4. /\ survivants'.table = survivants.table /\ survivants'.contenu = survivants.contenu
      /\ survivants'.sb = [survivants.sb EXCEPT ![e] = S]
      /\ survivants' = [sb |-> survivants'.sb, table |-> survivants'.table, contenu |-> survivants'.contenu]
  BY <1>2 DEF EcritSb, Possibles
<1>5. S \in SUBSET (Superblocs \cup Marques) /\ v \in S
  BY <1>2 DEF Marques
<1> HIDE DEF S
<1>6. /\ vu'.sb \in [Demis -> Superblocs \cup Marques] /\ survivants'.sb \in [Demis -> SUBSET (Superblocs \cup Marques)]
      /\ vu'.sb[e] = v /\ survivants'.sb[e] = S
      /\ vu'.sb[1 - e] = vu.sb[1 - e] /\ survivants'.sb[1 - e] = survivants.sb[1 - e]
  BY <1>0, <1>1, <1>2, <1>3, <1>4, <1>5
<1>7. vu' \in Plateaux /\ survivants' \in Possibles
  BY <1>1, <1>2, <1>3, <1>4, <1>6 DEF Plateaux, Possibles
<1>8. \A i \in Demis : vu.sb[i] \in survivants.sb[i] /\ vu.table[i] \in survivants.table[i]
                       /\ \A j \in 1..N : vu.contenu[i][j] \in survivants.contenu[i][j]
  BY LuFaits DEF Dans
<1>9. \A i \in Demis : vu'.sb[i] \in survivants'.sb[i] /\ vu'.table[i] \in survivants'.table[i]
                       /\ \A j \in 1..N : vu'.contenu[i][j] \in survivants'.contenu[i][j]
  <2> TAKE i \in Demis
  <2>1. /\ vu'.table[i] \in survivants'.table[i]
        /\ \A j \in 1..N : vu'.contenu[i][j] \in survivants'.contenu[i][j]
    BY <1>3, <1>4, <1>8
  <2>2. vu'.sb[i] \in survivants'.sb[i]
    BY <1>5, <1>6, <1>8 DEF Demis
  <2> QED BY <2>1, <2>2
<1>10. Dans(Lu(vu'), survivants')
  BY <1>7, <1>9, DansParSecteur
<1> QED BY <1>0, <1>4, <1>6, <1>7, <1>8, <1>10 DEF S

----------------------------------------------------------------------------
(* What a power cut may bring back *)

(* Outside the last phase of a commit, one image. *)
LEMMA RestaurableUn ==
    ASSUME tx.phase # "fin", NEW im \in Images, NEW e \in Demis, NEW d \in Demis, NEW g \in Nat,
           NEW v1 \in BOOLEAN, Zone(im, e, d, g, v1)
    PROVE  Sain(survivants, im, e, d, g, v1) /\ Restaurables = {im}
<1>1. Sain(survivants, im, e, d, g, v1)
  BY DEF Zone, Base
<1> QED BY <1>1, SainMonte DEF Restaurables

(* In the last phase, the old image and the one being committed. *)
LEMMA RestaurableDeux ==
    ASSUME Types, TxInv, tx.phase = "fin", NEW im \in Images, NEW e \in Demis, NEW d \in Demis,
           NEW g \in Nat, NEW v1 \in BOOLEAN, Zone(im, e, d, g, v1)
    PROVE  /\ tx.emplacement = e /\ tx.demi = d /\ tx.gen = g /\ tx.image \in Images
           /\ Neuf = Bloc(g, d, Table(tx.image)) /\ Neuf \in survivants.sb[e]
           /\ Sain([survivants EXCEPT !.sb[e] = @ \ {Neuf}], im, e, d, g, v1)
           /\ Restaurables = {im, tx.image}
<1>1. tx.emplacement = e /\ tx.demi = d /\ tx.gen = g /\ tx.image \in Images /\ Neuf = Bloc(g, d, Table(tx.image))
  BY DEF Zone, Engage, TxInv, Neuf
<1>2. Neuf \in survivants.sb[e]
  <2>1. vu.sb[e] = Neuf /\ Lu(vu).sb[e] = {vu.sb[e]} /\ Lu(vu).sb[e] \subseteq survivants.sb[e]
    BY <1>1, LuFaits DEF Types, TxInv, Dans
  <2> QED BY <2>1
<1>3. Sain([survivants EXCEPT !.sb[e] = @ \ {Neuf}], im, e, d, g, v1)
  BY <1>1 DEF Zone, Base
<1>4. Porte(survivants, d, tx.image)
  BY <1>1 DEF TxInv
<1>5. Montages(survivants) = {im, tx.image}
  BY <1>1, <1>2, <1>3, <1>4, MonteDeux, SMTT(30) DEF Types
<1> QED BY <1>1, <1>2, <1>3, <1>5 DEF Restaurables

(* A step that leaves the disk sound with the same image changes nothing of what *)
(* a power cut may bring back.                                                   *)
LEMMA ZonePas ==
    ASSUME NEW im \in Images, NEW e \in Demis, NEW d \in Demis, NEW g \in Nat, NEW v1 \in BOOLEAN,
           Zone(im, e, d, g, v1), tx.phase # "fin", tx'.phase # "fin",
           Sain(survivants', im, e, d, g, v1), support' = support, memoire # Rien, v1Fin' = v1Fin,
           disque' = disque \/ disque' = Rien,
           Engage' => tx'.emplacement = e /\ tx'.demi = d /\ tx'.gen = g
    PROVE  ZoneInv' /\ Restaurables' = Restaurables
<1>1. Base' = survivants'
  BY DEF Base
<1>2. Zone(im, e, d, g, v1)'
  BY <1>1 DEF Zone
<1>3. Restaurables' = {im}
  BY SainMonte DEF Restaurables
<1> QED BY <1>2, <1>3, RestaurableUn DEF ZoneInv

(* Nothing of the synchronisation moves: the memory is modified, or the thread  *)
(* captures the generation.                                                     *)
LEMMA CalmeInv ==
    ASSUME IInv, UNCHANGED <<plateau, v1Fin, disque, tx>>, memoire # Rien, memoire' \in Images
    PROVE  IInv' /\ Restaurables' = Restaurables
<1> USE DEF plateau
<1>1. memoire' # Rien
  BY SecteursAssumption
<1>2. Types'
  BY DEF IInv, Types
<1>3. TxInv'
  BY <1>1 DEF IInv, TxInv, Neuf
<1>4. ZoneInv'
  <2>1. PICK im \in Images, e \in Demis, d \in Demis, g \in Nat, v1 \in BOOLEAN : Zone(im, e, d, g, v1)
    BY DEF IInv, ZoneInv
  <2>2. Base' = Base /\ (Engage' <=> Engage)
    BY DEF Base, Engage, Neuf
  <2>3. Zone(im, e, d, g, v1)'
    BY <2>1, <2>2 DEF Zone
  <2> QED BY <2>3 DEF ZoneInv
<1>5. Restaurables' = Restaurables
  BY DEF Restaurables
<1> QED BY <1>2, <1>3, <1>4, <1>5 DEF IInv

(* A synchronisation takes TRANSACTION and copies the files. *)
LEMMA CopieInv ==
    ASSUME IInv, NEW qui \in {"fsync", "fil"}, Copie(qui)
    PROVE  IInv' /\ Restaurables' = Restaurables
<1> USE DEF plateau
<1>1. /\ tx'.phase = "copie" /\ tx'.qui = qui /\ tx'.image = memoire /\ memoire # Rien /\ tx.phase = "libre"
      /\ tx' = [phase |-> "copie", qui |-> qui, image |-> memoire, k |-> 0, emplacement |-> 0, demi |-> 0, gen |-> 0]
  BY DEF Copie, TxLibre
<1>2. UNCHANGED <<vu, survivants, support, memoire, v1Fin, disque>>
  BY DEF Copie
<1>3. Types'
  <2>1. tx' \in [phase : {"libre", "copie", "contenu", "barriere", "superbloc", "fin"},
               qui : {Rien, "fsync", "fil"}, image : Images \cup {Rien}, k : Nat,
               emplacement : Demis, demi : Demis, gen : Nat]
    BY <1>1 DEF IInv, Types, Demis
  <2> QED BY <1>2, <2>1 DEF IInv, Types
<1>4. TxInv'
  BY <1>1, <1>2 DEF IInv, TxInv, Types
<1>5. ZoneInv' /\ Restaurables' = Restaurables
  <2>1. PICK im \in Images, e \in Demis, d \in Demis, g \in Nat, v1 \in BOOLEAN : Zone(im, e, d, g, v1)
    BY DEF IInv, ZoneInv
  <2>2. Sain(survivants', im, e, d, g, v1)
    BY <1>1, <1>2, <2>1, RestaurableUn
  <2>3. ~Engage'
    BY <1>1 DEF Engage
  <2> QED BY <1>1, <1>2, <2>1, <2>2, <2>3, ZonePas
<1> QED BY <1>3, <1>4, <1>5 DEF IInv

(* On a disk whose reads succeed, what is read is what the disk shows. *)
LEMMA LectureSure ==
    ASSUME Fautes = {}, Types
    PROVE  /\ \A faute, q : Ratees(faute, q) = {{}}
           /\ LitSb({}) = vu.sb
<1>1. \A faute, q : Ratees(faute, q) = {{}}
  BY DEF Ratees
<1>2. vu.sb = [e \in Demis |-> vu.sb[e]]
  BY DEF Types, Plateaux
<1>3. LitSb({}) = [e \in Demis |-> vu.sb[e]]
  BY DEF LitSb
<1> QED BY <1>1, <1>2, <1>3

(* Such a mount takes what the sectors say, all of it. *)
LEMMA MonteSur ==
    ASSUME Fautes = {}, Types, Monte
    PROVE  /\ \E im \in Montages(Lu(vu)) : memoire' = [f \in Fichiers |-> im[f]]
           /\ v1Fin' = IF Choisit(vu.sb[0], vu.sb[1]) = {} /\ vu.sb[0] = EnteteV1 THEN support.etendue ELSE 0
<1>1. /\ memoire' \in MonteLu(vu.sb, {}, {})
      /\ v1Fin' = IF Courant(vu.sb) = {} /\ vu.sb[0] = EnteteV1 THEN support.etendue ELSE 0
  <2>1. PICK sb \in Ratees("lecture", Demis), autres \in Ratees("lecture", {"entete", "table"}),
             contenus \in Ratees("lecture", Fichiers) :
            /\ memoire' \in MonteLu(LitSb(sb), autres, contenus)
            /\ v1Fin' = IF Courant(LitSb(sb)) = {} /\ vu.sb[0] = EnteteV1 /\ autres = {} THEN support.etendue ELSE 0
    BY DEF Monte
  <2>2. sb = {} /\ autres = {} /\ contenus = {} /\ LitSb(sb) = vu.sb
    BY <2>1, LectureSure
  <2> QED BY <2>1, <2>2
<1>2. \E im \in MonteDepuis(Lu(vu), vu.sb[0], vu.sb[1]) : memoire' = [f \in Fichiers |-> im[f]]
  BY <1>1 DEF MonteLu
<1>3. MonteDepuis(Lu(vu), vu.sb[0], vu.sb[1]) \subseteq Montages(Lu(vu))
  <2>1. Lu(vu).sb[0] = {vu.sb[0]} /\ Lu(vu).sb[1] = {vu.sb[1]}
    BY LuFaits DEF Types, Demis
  <2> QED BY <2>1 DEF Montages
<1> QED BY <1>1, <1>2, <1>3 DEF Courant

(* And a barrier empties the cache. *)
LEMMA BarriereSure ==
    ASSUME Fautes = {}, Types, BarriereOuRien
    PROVE  Barriere
<1>1. PICK rates \in Ratees("barriere", {"vidange"}) : IF rates = {} THEN Barriere ELSE UNCHANGED plateau
  BY DEF BarriereOuRien
<1>2. rates = {}
  BY <1>1, LectureSure
<1> QED BY <1>1, <1>2

(* The mount brings back the image the disk restores. *)
LEMMA MonteInv ==
    ASSUME IInv, Monte, Fautes = {}
    PROVE  IInv' /\ Restaurables' = Restaurables /\ memoire' \in Images /\ Restaurables = {memoire'} /\ tx' = TxLibre
<1> USE DEF plateau
<1>0. UNCHANGED <<vu, survivants, support, tx>> /\ memoire = Rien /\ disque' = Rien /\ survivants = Lu(vu)
      /\ tx = TxLibre /\ tx.phase = "libre"
  BY DEF Monte, IInv, TxInv, TxLibre
<1>1. PICK im \in Images, e \in Demis, d \in Demis, g \in Nat, v1 \in BOOLEAN : Zone(im, e, d, g, v1)
  BY DEF IInv, ZoneInv
<1>2. Sain(survivants, im, e, d, g, v1) /\ Restaurables = {im}
  BY <1>0, <1>1, RestaurableUn
<1>3. memoire' = im /\ memoire' # Rien
  <2>1. \E jm \in {im} : memoire' = [f \in Fichiers |-> jm[f]]
    BY <1>0, <1>2, MonteSur DEF IInv, Restaurables
  <2>2. im = [f \in Fichiers |-> im[f]]
    BY DEF Images
  <2> QED BY <2>1, <2>2, SecteursAssumption
<1>4. v1Fin' = IF v1 THEN support.etendue ELSE 0
  <2>1. vu.sb[0] \in survivants.sb[0] /\ vu.sb[1] \in survivants.sb[1]
    BY <1>0, LuFaits DEF IInv, Types, Demis
  <2>2. v1 <=> Choisit(vu.sb[0], vu.sb[1]) = {} /\ vu.sb[0] = EnteteV1
    BY <1>2, <2>1, ProchainFaits
  <2> QED BY <2>2, MonteSur DEF IInv
<1>5. Types'
  <2>1. v1Fin' \in 0..2
    BY <1>4 DEF IInv, Types
  <2> QED BY <1>0, <1>3, <2>1 DEF IInv, Types
<1>6. TxInv'
  BY <1>0, <1>3 DEF IInv, TxInv
<1>7. Zone(im, e, d, g, v1)'
  <2>1. Base' = survivants /\ ~Engage'
    BY <1>0 DEF Base, Engage
  <2> QED BY <1>0, <1>1, <1>2, <1>4, <2>1 DEF Zone
<1> QED BY <1>0, <1>2, <1>3, <1>5, <1>6, <1>7 DEF IInv, ZoneInv, Restaurables

----------------------------------------------------------------------------
(* The synchronisation *)

TxForme == [phase : {"libre", "copie", "contenu", "barriere", "superbloc", "fin"},
            qui : {Rien, "fsync", "fil"}, image : Images \cup {Rien}, k : Nat,
            emplacement : Demis, demi : Demis, gen : Nat]

(* A synchronisation that fails leaves the disk sound if its last write did, and *)
(* is forgotten.                                                                 *)
LEMMA RateInv ==
    ASSUME Types, TxInv, tx.phase \notin {"libre", "fin"}, Rate,
           NEW im \in Images, NEW e \in Demis, NEW d \in Demis, NEW g \in Nat, NEW v1 \in BOOLEAN,
           Zone(im, e, d, g, v1), Sain(survivants', im, e, d, g, v1), support' = support,
           vu' \in Plateaux, survivants' \in Possibles, Dans(Lu(vu'), survivants')
    PROVE  /\ IInv' /\ Restaurables' = Restaurables
           /\ tx' = TxLibre /\ memoire' = memoire /\ generation' = generation /\ memoire # Rien
<1>1. memoire # Rien /\ UNCHANGED <<memoire, generation, v1Fin>> /\ disque' = Rien /\ tx' = TxLibre /\ tx'.phase = "libre"
  BY DEF TxInv, TxLibre, Rate, Termine
<1>2. Types'
  <2>1. tx' \in TxForme
    BY <1>1 DEF TxLibre, TxForme, Demis
  <2> QED BY <1>1, <2>1 DEF Types, TxForme
<1>3. TxInv'
  BY <1>1 DEF TxInv
<1>4. ~Engage'
  BY <1>1 DEF Engage
<1>5. ZoneInv' /\ Restaurables' = Restaurables
  BY <1>1, <1>4, ZonePas
<1> QED BY <1>1, <1>2, <1>3, <1>5 DEF IInv

(* A synchronisation that goes on, before its commit sector. *)
LEMMA SuitInv ==
    ASSUME Types, TxInv, tx.phase \notin {"libre", "fin"},
           UNCHANGED <<memoire, v1Fin, disque>>, support' = support,
           tx' \in TxForme, tx'.phase \in {"contenu", "barriere", "superbloc"},
           NEW im \in Images, NEW e \in Demis, NEW d \in Demis, NEW g \in Nat, NEW v1 \in BOOLEAN,
           Zone(im, e, d, g, v1), Sain(survivants', im, e, d, g, v1),
           tx'.emplacement = e, tx'.demi = d, tx'.gen = g,
           vu' \in Plateaux, survivants' \in Possibles, Dans(Lu(vu'), survivants'), TxInv'
    PROVE  IInv' /\ Restaurables' = Restaurables /\ memoire # Rien
<1>1. memoire # Rien
  BY DEF TxInv, TxLibre
<1>2. Types'
  BY DEF Types, TxForme
<1>3. tx'.phase # "fin"
  OBVIOUS
<1>4. ZoneInv' /\ Restaurables' = Restaurables
  BY <1>1, <1>3, ZonePas
<1> QED BY <1>1, <1>2, <1>4 DEF IInv

(* The slot, the half zone and the generation of the commit: those the sound    *)
(* disk leaves free; none when the V1 state covers both half zones.             *)
LEMMA LitSuperblocsInv ==
    ASSUME IInv, LitSuperblocs, Fautes = {}
    PROVE  /\ IInv' /\ Restaurables' = Restaurables /\ memoire' = memoire /\ memoire # Rien
           /\ (Rate /\ tx' = TxLibre) \/ (tx'.image = tx.image /\ tx'.qui = tx.qui /\ tx'.phase # "libre" /\ UNCHANGED fil)
           /\ UNCHANGED <<generation, survivants>>
<1> USE DEF plateau
<1>0. tx.phase = "copie" /\ UNCHANGED <<vu, survivants, support>> /\ Types /\ TxInv /\ tx \in TxForme /\ tx.image \in Images
  BY DEF LitSuperblocs, IInv, Types, TxForme, TxInv
<1>1. PICK im \in Images, e \in Demis, d \in Demis, g \in Nat, v1 \in BOOLEAN : Zone(im, e, d, g, v1)
  BY DEF IInv, ZoneInv
<1>2. Sain(survivants, im, e, d, g, v1) /\ memoire # Rien
  BY <1>0, <1>1, RestaurableUn DEF TxInv, TxLibre
<1> DEFINE p == Prochain(vu.sb, Courant(vu.sb))
           sure == DemiSure(p.demi)
<1>3. p = [emplacement |-> e, demi |-> IF v1 THEN 0 ELSE d, gen |-> g]
  <2>1. vu.sb[0] \in survivants.sb[0] /\ vu.sb[1] \in survivants.sb[1]
    <3>1. \A i \in Demis : Lu(vu).sb[i] = {vu.sb[i]} /\ Lu(vu).sb[i] \subseteq survivants.sb[i]
      BY <1>0, LuFaits DEF Types, Dans
    <3> QED BY <3>1 DEF Demis
  <2>2. Prochain(vu.sb, Choisit(vu.sb[0], vu.sb[1])) = [emplacement |-> e, demi |-> IF v1 THEN 0 ELSE d, gen |-> g]
    BY <1>2, <2>1, ProchainFaits
  <2> QED BY <2>2 DEF Courant
<1>4. sure # {} => (CHOOSE x \in sure : TRUE) = d
  <2>1. v1Fin = IF v1 THEN support.etendue ELSE 0
    BY <1>1, <1>2 DEF Zone
  <2>2. CASE v1
    <3>1. d = 1 /\ v1Fin \in {1, 2} /\ p.demi = 0
      BY <1>0, <1>2, <1>3, <2>1, <2>2 DEF Sain, SainV1, Types
    <3>2. sure \subseteq {1}
      BY <3>1 DEF DemiSure, Demis
    <3> QED BY <3>1, <3>2
  <2>3. CASE ~v1
    <3>1. v1Fin = 0 /\ p.demi = d
      BY <1>3, <2>1, <2>3
    <3>2. sure = {d}
      BY <3>1 DEF DemiSure, Demis
    <3> QED BY <3>2
  <2> QED BY <2>2, <2>3
<1>4a. IF sure = {} THEN Rate
       ELSE Suit([tx EXCEPT !.phase = "contenu", !.k = 1, !.emplacement = p.emplacement,
                            !.demi = CHOOSE x \in sure : TRUE, !.gen = p.gen])
  <2>1. Ratees("lecture", Demis) = {{}} /\ LitSb({}) = vu.sb
    BY <1>0, LectureSure
  <2> QED BY <2>1 DEF LitSuperblocs
<1>5. CASE sure = {}
  <2>1. Rate
    BY <1>4a, <1>5
  <2> QED BY <1>0, <1>1, <1>2, <2>1, RateInv DEF Types
<1>6. CASE sure # {}
  <2>1. /\ tx' = [tx EXCEPT !.phase = "contenu", !.k = 1, !.emplacement = e, !.demi = d, !.gen = g]
        /\ UNCHANGED <<memoire, generation, v1Fin, disque, fil>>
    <3>1. Suit([tx EXCEPT !.phase = "contenu", !.k = 1, !.emplacement = p.emplacement,
                          !.demi = CHOOSE x \in sure : TRUE, !.gen = p.gen])
      BY <1>4a, <1>6
    <3> HIDE DEF p, sure
    <3>2. p.emplacement = e /\ p.gen = g /\ (CHOOSE x \in sure : TRUE) = d
      BY <1>3, <1>4, <1>6
    <3> QED BY <3>1, <3>2 DEF Suit
  <2>2. /\ tx'.phase = "contenu" /\ tx'.k = 1 /\ tx'.emplacement = e /\ tx'.demi = d /\ tx'.gen = g
        /\ tx'.image = tx.image /\ tx'.qui = tx.qui /\ tx' \in TxForme
    BY <1>0, <2>1 DEF TxForme
  <2>3. TxInv'
    <3>1. Table(tx.image) \in SUBSET Fichiers
      BY DEF Table
    <3>2. /\ Cardinality(Table(tx.image)) \in Nat
          /\ \A f \in Table(tx.image) : Rang(f, Table(tx.image)) \in 1..Cardinality(Table(tx.image))
      BY <3>1, RangFaits
    <3>3. \A f \in Table(tx.image) : ~(Rang(f, Table(tx.image)) < 1)
      BY <3>2
    <3> QED BY <1>0, <1>2, <2>1, <2>2, <3>2, <3>3 DEF TxInv
  <2>4. IInv' /\ Restaurables' = Restaurables
    BY <1>0, <1>1, <1>2, <2>1, <2>2, <2>3, SuitInv DEF Types
  <2> QED BY <1>0, <1>2, <2>1, <2>2, <2>4
<1> QED BY <1>5, <1>6

(* A content goes to the half zone the mount does not read, and the disk's index *)
(* never lets one be skipped: it is always about the other half zone.            *)
LEMMA ContenuInv ==
    ASSUME IInv, ContenuSuivant, ~EchecEcrit
    PROVE  /\ IInv' /\ Restaurables' = Restaurables /\ memoire' = memoire /\ memoire # Rien
           /\ (Rate /\ tx' = TxLibre) \/ (tx'.image = tx.image /\ tx'.qui = tx.qui /\ tx'.phase # "libre" /\ UNCHANGED fil)
           /\ UNCHANGED generation
<1> DEFINE t == Table(tx.image)
           f == CHOOSE h \in t : Rang(h, t) = tx.k
<1>0. tx.phase = "contenu" /\ Types /\ TxInv /\ tx \in TxForme /\ tx.image \in Images /\ t \in SUBSET Fichiers
      /\ memoire # Rien /\ tx.k \in Nat
  BY DEF ContenuSuivant, IInv, Types, TxForme, TxInv, TxLibre, Table
<1>1. PICK im \in Images, e \in Demis, d \in Demis, g \in Nat, v1 \in BOOLEAN : Zone(im, e, d, g, v1)
  BY DEF IInv, ZoneInv
<1>2. Sain(survivants, im, e, d, g, v1) /\ tx.emplacement = e /\ tx.demi = d /\ tx.gen = g
  BY <1>0, <1>1, RestaurableUn DEF Zone, Engage
<1>3. /\ Cardinality(t) \in Nat /\ Cardinality(t) <= N /\ N \in Nat
      /\ \A h \in t : Rang(h, t) \in 1..Cardinality(t)
      /\ \A h, j \in t : Rang(h, t) = Rang(j, t) => h = j
      /\ \A k \in 1..Cardinality(t) : \E h \in t : Rang(h, t) = k
  BY <1>0, RangFaits
<1>4. tx.k \in 1..Cardinality(t) /\ tx.k \in 1..N
  BY <1>0, <1>3 DEF TxInv, ContenuSuivant
<1>5. f \in t /\ Rang(f, t) = tx.k
  BY <1>3, <1>4
<1>6. tx.image[f] \in Valeurs
  BY <1>0, <1>5 DEF Table, Images
<1>7. ~DejaEcrite(f)
  BY <1>1, <1>2 DEF DejaEcrite, Zone
<1>8a. PICK ok \in BOOLEAN : \E v \in IssuesDechirees(ok, vu.contenu[tx.demi][tx.k], tx.image[f]) :
        /\ EcritContenu(tx.demi, tx.k, v)
        /\ IF ok THEN Suit([tx EXCEPT !.k = @ + 1]) ELSE Rate
  BY <1>7 DEF ContenuSuivant
<1>8. PICK v \in IssuesDechirees(ok, vu.contenu[tx.demi][tx.k], tx.image[f]) :
        /\ EcritContenu(tx.demi, tx.k, v)
        /\ IF ok THEN Suit([tx EXCEPT !.k = @ + 1]) ELSE Rate
  BY <1>8a
<1> HIDE DEF f, t
<1>9. v \in Octets /\ (ok => v = tx.image[f])
  <2>1. vu.contenu[d][tx.k] \in Octets
    <3>1. vu.contenu[d] \in [1..N -> Octets]
      BY <1>0 DEF Types, Plateaux
    <3> QED BY <1>4, <3>1
  <2> QED BY <1>2, <1>6, <1>8, <2>1 DEF IssuesDechirees, Issues, Octets
<1>10. /\ vu' \in Plateaux /\ survivants' \in Possibles /\ Dans(Lu(vu'), survivants')
       /\ survivants'.sb = survivants.sb /\ survivants'.table = survivants.table
       /\ survivants'.contenu[1 - d] = survivants.contenu[1 - d]
       /\ vu'.contenu[d][tx.k] = v /\ \A j \in 1..N : j # tx.k => vu'.contenu[d][j] = vu.contenu[d][j]
       /\ support' = support
  BY <1>0, <1>2, <1>4, <1>8, <1>9, EcritContenuFaits DEF Types
<1>11. Sain(survivants', im, e, d, g, v1)
  BY <1>2, <1>10, SainAilleurs
<1>12. CASE ~ok
  <2>1. Rate
    BY <1>8, <1>12
  <2> QED BY <1>0, <1>1, <1>10, <1>11, <2>1, RateInv
<1>13. CASE ok
  <2>1. tx' = [tx EXCEPT !.k = @ + 1] /\ UNCHANGED <<memoire, generation, v1Fin, disque, fil>>
    BY <1>8, <1>13 DEF Suit
  <2>2. /\ tx'.phase = "contenu" /\ tx'.k = tx.k + 1 /\ tx'.emplacement = e /\ tx'.demi = d /\ tx'.gen = g
        /\ tx'.image = tx.image /\ tx'.qui = tx.qui /\ tx' \in TxForme
    BY <1>0, <1>2, <2>1 DEF TxForme
  <2>3. TxInv'
    <3>1. ASSUME NEW h \in t, Rang(h, t) < tx.k + 1
          PROVE  vu'.contenu[d][Rang(h, t)] = tx.image[h]
      <4>1. CASE Rang(h, t) = tx.k
        <5>1. h = f
          BY <1>3, <1>5, <4>1
        <5> QED BY <1>9, <1>10, <1>13, <4>1, <5>1
      <4>2. CASE Rang(h, t) # tx.k
        <5>1. Rang(h, t) \in 1..N /\ Rang(h, t) < tx.k
          BY <1>0, <1>3, <3>1, <4>2
        <5>2. vu.contenu[d][Rang(h, t)] = tx.image[h]
          BY <1>0, <1>2, <5>1 DEF TxInv, t
        <5> QED BY <1>10, <4>2, <5>1, <5>2
      <4> QED BY <4>1, <4>2
    <3>2. tx'.k \in 1..(Cardinality(t) + 1)
      BY <1>3, <1>4, <2>2
    <3> QED BY <1>0, <2>1, <2>2, <3>1, <3>2 DEF TxInv, t
  <2>4. IInv' /\ Restaurables' = Restaurables
    BY <1>0, <1>1, <1>10, <1>11, <2>1, <2>2, <2>3, SuitInv
  <2> QED BY <1>0, <2>1, <2>2, <2>4
<1> QED BY <1>12, <1>13

(* A half zone that reads as an image holds it once it is flushed. *)
LEMMA PorteLu ==
    ASSUME NEW w \in Plateaux, NEW d \in Demis, NEW im \in Images,
           Table(im) # {} => w.table[d] = Table(im),
           \A f \in Table(im) : w.contenu[d][Rang(f, Table(im))] = im[f]
    PROVE  Porte(Lu(w), d, im)
<1>1. Lu(w).table[d] = {w.table[d]} /\ \A k \in 1..N : Lu(w).contenu[d][k] = {w.contenu[d][k]}
  BY LuFaits
<1>2. ASSUME NEW f \in Table(im) PROVE Lu(w).contenu[d][Rang(f, Table(im))] = {im[f]}
  <2>1. Rang(f, Table(im)) \in 1..N
    BY RangFaits DEF Table
  <2>2. Lu(w).contenu[d][Rang(f, Table(im))] = {w.contenu[d][Rang(f, Table(im))]}
    BY <1>1, <2>1
  <2> QED BY <2>2
<1> QED BY <1>1, <1>2 DEF Porte

(* The table is written after the contents, in the same half zone. *)
LEMMA TableInv ==
    ASSUME IInv, EcritLaTable, ~EchecEcrit
    PROVE  /\ IInv' /\ Restaurables' = Restaurables /\ memoire' = memoire /\ memoire # Rien
           /\ (Rate /\ tx' = TxLibre) \/ (tx'.image = tx.image /\ tx'.qui = tx.qui /\ tx'.phase # "libre" /\ UNCHANGED fil)
           /\ UNCHANGED generation
<1> DEFINE t == Table(tx.image)
<1>0. tx.phase = "contenu" /\ Types /\ TxInv /\ tx \in TxForme /\ tx.image \in Images /\ t \in SUBSET Fichiers
      /\ memoire # Rien /\ tx.k \in Nat /\ tx.k > Cardinality(t)
  BY DEF EcritLaTable, IInv, Types, TxForme, TxInv, TxLibre, Table
<1>1. PICK im \in Images, e \in Demis, d \in Demis, g \in Nat, v1 \in BOOLEAN : Zone(im, e, d, g, v1)
  BY DEF IInv, ZoneInv
<1>2. Sain(survivants, im, e, d, g, v1) /\ tx.emplacement = e /\ tx.demi = d /\ tx.gen = g
  BY <1>0, <1>1, RestaurableUn DEF Zone, Engage
<1>3. \A f \in t : vu.contenu[d][Rang(f, t)] = tx.image[f]
  <2> TAKE f \in t
  <2>1. Cardinality(t) \in Nat /\ Rang(f, t) \in 1..Cardinality(t)
    BY <1>0, RangFaits
  <2>2. Rang(f, t) < tx.k
    BY <1>0, <2>1
  <2> QED BY <1>0, <1>2, <2>2 DEF TxInv
<1>4. ASSUME Suit([tx EXCEPT !.phase = "barriere"]), support' = support,
             vu' \in Plateaux, survivants' \in Possibles, Dans(Lu(vu'), survivants'),
             Sain(survivants', im, e, d, g, v1),
             vu'.contenu = vu.contenu, t # {} => vu'.table[d] = t
      PROVE  /\ IInv' /\ Restaurables' = Restaurables /\ UNCHANGED <<memoire, generation, fil>>
             /\ tx'.image = tx.image /\ tx'.qui = tx.qui /\ tx'.phase # "libre"
  <2>1. tx' = [tx EXCEPT !.phase = "barriere"] /\ UNCHANGED <<memoire, generation, v1Fin, disque, fil>>
    BY <1>4 DEF Suit
  <2>2. /\ tx'.phase = "barriere" /\ tx'.emplacement = e /\ tx'.demi = d /\ tx'.gen = g
        /\ tx'.image = tx.image /\ tx'.qui = tx.qui /\ tx' \in TxForme
    BY <1>0, <1>2, <2>1 DEF TxForme
  <2>3. Porte(Lu(vu'), d, tx.image)
    BY <1>0, <1>3, <1>4, PorteLu
  <2>4. TxInv'
    BY <1>0, <2>1, <2>2, <2>3 DEF TxInv
  <2>5. IInv' /\ Restaurables' = Restaurables
    BY <1>0, <1>1, <1>4, <2>1, <2>2, <2>4, SuitInv
  <2> QED BY <2>1, <2>2, <2>5
<1>5. CASE t = {}
  <2>1. Suit([tx EXCEPT !.phase = "barriere"]) /\ UNCHANGED <<vu, survivants, support>>
    BY <1>5 DEF EcritLaTable, plateau
  <2>2. vu' \in Plateaux /\ survivants' \in Possibles /\ Dans(Lu(vu'), survivants') /\ Sain(survivants', im, e, d, g, v1)
    BY <1>0, <1>2, <2>1 DEF Types
  <2> HIDE DEF t
  <2> QED BY <1>0, <1>4, <1>5, <2>1, <2>2
<1>6. CASE t # {}
  <2>1. PICK ok \in BOOLEAN : \E v \in IssuesDechirees(ok, vu.table[tx.demi], t) :
          EcritTable(tx.demi, v) /\ IF ok THEN Suit([tx EXCEPT !.phase = "barriere"]) ELSE Rate
    BY <1>6 DEF EcritLaTable
  <2>2. PICK v \in IssuesDechirees(ok, vu.table[tx.demi], t) :
          EcritTable(tx.demi, v) /\ IF ok THEN Suit([tx EXCEPT !.phase = "barriere"]) ELSE Rate
    BY <2>1
  <2> HIDE DEF t
  <2>3. v \in Tables /\ (ok => v = t)
    <3>1. vu.table[d] \in Tables
      BY <1>0 DEF Types, Plateaux
    <3> QED BY <1>0, <1>2, <2>2, <3>1 DEF IssuesDechirees, Issues, Tables
  <2>4. /\ vu' \in Plateaux /\ survivants' \in Possibles /\ Dans(Lu(vu'), survivants')
        /\ survivants'.sb = survivants.sb /\ survivants'.contenu = survivants.contenu
        /\ survivants'.table[1 - d] = survivants.table[1 - d]
        /\ vu'.table[d] = v /\ vu'.contenu = vu.contenu /\ support' = support
    BY <1>0, <1>2, <2>2, <2>3, EcritTableFaits DEF Types
  <2>5. Sain(survivants', im, e, d, g, v1)
    BY <1>2, <2>4, SainAilleurs
  <2>6. CASE ok
    BY <1>0, <1>4, <2>2, <2>3, <2>4, <2>5, <2>6
  <2>7. CASE ~ok
    <3>1. Rate
      BY <2>2, <2>7
    <3> QED BY <1>0, <1>1, <2>4, <2>5, <3>1, RateInv
  <2> QED BY <2>6, <2>7
<1> QED BY <1>5, <1>6

(* The first barrier: the new half zone is on the platter before its superblock. *)
LEMMA BarriereInv ==
    ASSUME IInv, PremiereBarriere, Fautes = {}
    PROVE  /\ IInv' /\ Restaurables' = Restaurables /\ memoire' = memoire /\ memoire # Rien
           /\ tx'.image = tx.image /\ tx'.qui = tx.qui /\ tx'.phase # "libre" /\ UNCHANGED <<generation, fil>>
<1>0. /\ tx.phase = "barriere" /\ Types /\ TxInv /\ tx \in TxForme /\ tx.image \in Images /\ memoire # Rien
      /\ survivants' = Lu(vu) /\ UNCHANGED <<vu, support>>
      /\ tx' = [tx EXCEPT !.phase = "superbloc"] /\ UNCHANGED <<memoire, generation, v1Fin, disque, fil>>
  <2>1. Barriere
    BY BarriereSure DEF PremiereBarriere, IInv
  <2> QED BY <2>1 DEF PremiereBarriere, IInv, Types, TxForme, TxInv, TxLibre, Barriere, Suit
<1>1. PICK im \in Images, e \in Demis, d \in Demis, g \in Nat, v1 \in BOOLEAN : Zone(im, e, d, g, v1)
  BY DEF IInv, ZoneInv
<1>2. Sain(survivants, im, e, d, g, v1) /\ tx.emplacement = e /\ tx.demi = d /\ tx.gen = g
  BY <1>0, <1>1, RestaurableUn DEF Zone, Engage
<1>3. /\ tx'.phase = "superbloc" /\ tx'.emplacement = e /\ tx'.demi = d /\ tx'.gen = g
      /\ tx'.image = tx.image /\ tx'.qui = tx.qui /\ tx' \in TxForme
  BY <1>0, <1>2 DEF TxForme
<1>4. vu' \in Plateaux /\ survivants' \in Possibles /\ Dans(Lu(vu'), survivants')
  BY <1>0, LuFaits, LuDansLu DEF Types
<1>5. Dans(survivants', survivants)
  BY <1>0 DEF Types
<1>6. Sain(survivants', im, e, d, g, v1)
  BY <1>2, <1>5, SainDans
<1>7. Porte(survivants', d, tx.image)
  BY <1>0, <1>2 DEF TxInv
<1>8. TxInv'
  BY <1>0, <1>3, <1>7 DEF TxInv
<1>9. IInv' /\ Restaurables' = Restaurables
  BY <1>0, <1>1, <1>3, <1>4, <1>6, <1>8, SuitInv
<1> QED BY <1>0, <1>3, <1>9

(* The superblock being committed is newer than anything its slot holds. *)
LEMMA NeufAbsent ==
    ASSUME NEW s, NEW im \in Images, NEW e \in Demis, NEW d \in Demis, NEW g \in Nat, NEW v1 \in BOOLEAN,
           Sain(s, im, e, d, g, v1), NEW jm \in Images
    PROVE  Bloc(g, d, Table(jm)) \notin s.sb[e] /\ Bloc(g, d, Table(jm)) # Dechire
<1> DEFINE x == Bloc(g, d, Table(jm))
<1>1. x \in Superblocs /\ x.gen = g
  BY BlocFaits
<1> HIDE DEF x
<1>2. x \notin Marques
  BY <1>1, SecteursAssumption DEF Marques
<1>3. ASSUME SainV2(s, im, e, d, g) PROVE x \notin s.sb[e]
  <2>1. s.sb[e] \subseteq Vieux(g - 1)
    BY <1>3 DEF SainV2
  <2>2. ~(x.gen < g - 1)
    BY <1>1
  <2> QED BY <1>2, <2>1, <2>2 DEF Vieux
<1>4. ASSUME SainV1(s, im, e, d, g) PROVE x \notin s.sb[e]
  BY <1>2, <1>4 DEF SainV1, Marques
<1>5. ASSUME SainVierge(s, im, e, d, g) PROVE x \notin s.sb[e]
  BY <1>2, <1>5 DEF SainVierge, Marques
<1>6. x \notin s.sb[e] /\ x # Dechire
  BY <1>2, <1>3, <1>4, <1>5 DEF Sain, Marques
<1> QED BY <1>6 DEF x

(* A commit sector that may be torn, except on a V1 disk. *)
LEMMA SainSb ==
    ASSUME NEW s, NEW s2, NEW im \in Images, NEW e \in Demis, NEW d \in Demis, NEW g \in Nat,
           NEW v1 \in BOOLEAN, Sain(s, im, e, d, g, v1), NEW dechirable \in BOOLEAN, v1 => ~dechirable,
           s2.sb[1 - e] = s.sb[1 - e], s2.sb[e] = s.sb[e] \cup (IF dechirable THEN {Dechire} ELSE {}),
           s2.table = s.table, s2.contenu = s.contenu
    PROVE  Sain(s2, im, e, d, g, v1)
<1>1. CASE v1
  <2>1. SainV1(s, im, e, d, g) /\ s2.sb[e] = s.sb[e]
    BY <1>1 DEF Sain
  <2>2. s2.sb[0] = s.sb[0] /\ s2.sb[1] = s.sb[1]
    BY <2>1 DEF SainV1
  <2>3. SainV1(s2, im, e, d, g)
    BY <2>1, <2>2 DEF SainV1, Porte
  <2> QED BY <1>1, <2>3 DEF Sain
<1>2. CASE ~v1
  <2>1. v1 = FALSE
    BY <1>2
  <2>2. s.sb[e] # {}
    <3>1. s.sb[0] # {} /\ s.sb[1] # {}
      BY SainMonte
    <3> QED BY <3>1 DEF Demis
  <2>3. s2.sb[e] # {} /\ s2.sb[e] \subseteq s.sb[e] \cup {Dechire}
    BY <2>2
  <2> QED BY <2>1, <2>3, SainDechire
<1> QED BY <1>1, <1>2

(* THE COMMIT: from this write to the second barrier, a power cut brings back   *)
(* the old image or the new one; if the write fails, the old one.               *)
LEMMA SuperblocInv ==
    ASSUME IInv, EcritLeSuperbloc, ~EchecEcrit
    PROVE  /\ IInv' /\ memoire' = memoire /\ memoire # Rien /\ tx.image \in Images /\ UNCHANGED generation
           /\ \/ Rate /\ tx' = TxLibre /\ Restaurables' = Restaurables
              \/ /\ tx'.image = tx.image /\ tx'.qui = tx.qui /\ tx'.phase # "libre" /\ UNCHANGED fil
                 /\ Restaurables' = Restaurables \cup {tx.image}
<1>0. /\ tx.phase = "superbloc" /\ Types /\ TxInv /\ tx \in TxForme /\ tx.image \in Images /\ memoire # Rien
      /\ support.dechirable \in BOOLEAN
  BY DEF EcritLeSuperbloc, IInv, Types, TxForme, TxInv, TxLibre
<1>1. PICK im \in Images, e \in Demis, d \in Demis, g \in Nat, v1 \in BOOLEAN : Zone(im, e, d, g, v1)
  BY DEF IInv, ZoneInv
<1>2. Sain(survivants, im, e, d, g, v1) /\ tx.emplacement = e /\ tx.demi = d /\ tx.gen = g /\ (v1 => ~support.dechirable)
      /\ Restaurables = {im}
  BY <1>0, <1>1, RestaurableUn DEF Zone, Engage
<1> DEFINE x == Bloc(g, d, Table(tx.image))
           D == IF support.dechirable THEN {Dechire} ELSE {}
<1>3. x \in Superblocs /\ x \notin survivants.sb[e] /\ x # Dechire
  <2>1. x \in Superblocs
    BY <1>0, BlocFaits
  <2>2. x \notin survivants.sb[e] /\ x # Dechire
    <3>1. tx.image \in Images
      BY <1>0
    <3>2. Sain(survivants, im, e, d, g, v1)
      BY <1>2
    <3> QED BY <3>1, <3>2, NeufAbsent
  <2> QED BY <2>1, <2>2
<1>4. PICK ok \in BOOLEAN : \E v \in Issues(ok, vu.sb[e], x) :
        EcritSb(e, v) /\ IF ok THEN Suit([tx EXCEPT !.phase = "fin"]) ELSE Rate
  BY <1>2 DEF EcritLeSuperbloc, Bloc
<1> HIDE DEF x
<1>5. PICK v \in Issues(ok, vu.sb[e], x) :
        EcritSb(e, v) /\ IF ok THEN Suit([tx EXCEPT !.phase = "fin"]) ELSE Rate
  BY <1>4
<1>6. (ok => v = x) /\ (~ok => v = vu.sb[e]) /\ v \in Superblocs \cup Marques
  <2>1. vu.sb[e] \in Superblocs \cup Marques
    BY <1>0 DEF Types, Plateaux
  <2> QED BY <1>3, <1>5, <2>1 DEF Issues
<1>7. /\ vu' \in Plateaux /\ survivants' \in Possibles /\ Dans(Lu(vu'), survivants')
      /\ survivants'.sb[e] = survivants.sb[e] \cup {v} \cup D
      /\ survivants'.sb[1 - e] = survivants.sb[1 - e]
      /\ survivants'.table = survivants.table /\ survivants'.contenu = survivants.contenu
      /\ vu'.sb[e] = v /\ vu.sb[e] \in survivants.sb[e] /\ support' = support
  BY <1>0, <1>5, <1>6, EcritSbFaits DEF Types
<1>8. CASE ~ok
  <2>1. survivants'.sb[e] = survivants.sb[e] \cup D
    BY <1>6, <1>7, <1>8
  <2>2. Sain(survivants', im, e, d, g, v1)
    BY <1>0, <1>2, <1>7, <2>1, SainSb
  <2>3. Rate
    BY <1>5, <1>8
  <2> QED BY <1>0, <1>1, <1>7, <2>2, <2>3, RateInv
<1>9. CASE ok
  <2>1. tx' = [tx EXCEPT !.phase = "fin"] /\ UNCHANGED <<memoire, generation, v1Fin, disque, fil>>
    BY <1>5, <1>9 DEF Suit
  <2>2. /\ tx'.phase = "fin" /\ tx'.emplacement = e /\ tx'.demi = d /\ tx'.gen = g
        /\ tx'.image = tx.image /\ tx'.qui = tx.qui /\ tx' \in TxForme
    BY <1>0, <1>2, <2>1 DEF TxForme
  <2>3. Neuf' = x
    BY <2>2 DEF Neuf, x
  <2> DEFINE b == [survivants' EXCEPT !.sb[e] = @ \ {x}]
  <2>4. Base' = b
    BY <2>2, <2>3 DEF Base
  <2>5. /\ b.sb[e] = survivants'.sb[e] \ {x} /\ b.sb[1 - e] = survivants'.sb[1 - e]
        /\ b.table = survivants'.table /\ b.contenu = survivants'.contenu
    <3>1. 1 - e # e /\ 1 - e \in Demis
      BY DEF Demis
    <3> QED BY <1>7, <3>1 DEF Possibles
  <2> HIDE DEF b
  <2>6. b.sb[e] = survivants.sb[e] \cup D
    BY <1>3, <1>6, <1>7, <1>9, <2>5
  <2>7. Sain(b, im, e, d, g, v1)
    BY <1>0, <1>2, <1>7, <2>5, <2>6, SainSb
  <2>8. Porte(survivants', d, tx.image)
    <3>1. Porte(survivants, d, tx.image)
      BY <1>0, <1>2 DEF TxInv
    <3> QED BY <1>7, <3>1 DEF Porte
  <2>9. Types'
    BY <1>0, <1>7, <2>1, <2>2 DEF Types, TxForme
  <2>10. TxInv'
    BY <1>0, <1>6, <1>7, <1>9, <2>1, <2>2, <2>3, <2>8 DEF TxInv
  <2>11. Zone(im, e, d, g, v1)'
    BY <1>0, <1>1, <1>7, <2>1, <2>2, <2>4, <2>7 DEF Zone
  <2>12. Montages(survivants') = {im, tx.image}
    <3>1. x \in survivants'.sb[e]
      BY <1>6, <1>7, <1>9
    <3> QED BY <1>0, <1>7, <2>7, <2>8, <3>1, MonteDeux, SMTT(30) DEF x, b
  <2>13. Restaurables' = Restaurables \cup {tx.image}
    BY <1>2, <2>12 DEF Restaurables
  <2> QED BY <1>0, <2>1, <2>2, <2>9, <2>10, <2>11, <2>13 DEF IInv, ZoneInv
<1> QED BY <1>8, <1>9

(* The second barrier: only the new image can come back. *)
LEMMA AcheveInv ==
    ASSUME IInv, Acheve, Fautes = {}
    PROVE  /\ IInv' /\ Restaurables' = {tx.image} /\ memoire' = memoire /\ memoire # Rien
           /\ tx.image \in Images /\ tx' = TxLibre /\ UNCHANGED generation
<1>0. /\ tx.phase = "fin" /\ Types /\ TxInv /\ memoire # Rien /\ tx.image \in Images
      /\ survivants' = Lu(vu) /\ UNCHANGED <<vu, support, memoire, generation>> /\ v1Fin' = 0
      /\ disque' = [demi |-> tx.demi, image |-> tx.image] /\ tx' = TxLibre /\ tx'.phase = "libre"
  <2>1. Barriere
    BY BarriereSure DEF Acheve, IInv
  <2> QED BY <2>1 DEF Acheve, IInv, TxInv, TxLibre, Barriere, Termine
<1>1. PICK im \in Images, e \in Demis, d \in Demis, g \in Nat, v1 \in BOOLEAN : Zone(im, e, d, g, v1)
  BY DEF IInv, ZoneInv
<1> DEFINE b == [survivants EXCEPT !.sb[e] = @ \ {Neuf}]
<1>2. /\ tx.demi = d /\ Neuf = Bloc(g, d, Table(tx.image)) /\ Sain(b, im, e, d, g, v1) /\ tx.emplacement = e
  BY <1>0, <1>1, RestaurableDeux
<1>2a. PICK jm \in Images : jm = tx.image
  BY <1>0
<1>3. 1 - e \in Demis /\ 1 - e # e /\ 1 - d \in Demis /\ 1 - d # d /\ g + 1 \in Nat
  BY DEF Demis
<1>4. b.sb[1 - e] = survivants.sb[1 - e]
  BY <1>0, <1>3 DEF Types, Possibles
<1> HIDE DEF b
<1>5. Porte(survivants', d, tx.image)
  <2>1. Dans(survivants', survivants) /\ Porte(survivants, d, tx.image)
    BY <1>0, <1>2 DEF Types, TxInv
  <2> QED BY <1>0, <2>1, PorteDans
<1>6. survivants'.sb[e] = {Bloc(g, d, Table(tx.image))} /\ survivants'.sb[1 - e] # {} /\ survivants'.sb[1 - e] \subseteq b.sb[1 - e]
  <2>1. vu.sb[e] = Neuf
    BY <1>0, <1>2 DEF TxInv
  <2>2. Lu(vu).sb[e] = {vu.sb[e]}
    BY <1>0, LuFaits DEF Types
  <2>3. Lu(vu).sb[1 - e] # {} /\ Lu(vu).sb[1 - e] \subseteq survivants.sb[1 - e]
    BY <1>0, <1>3 DEF Types, Dans
  <2> QED BY <1>0, <1>2, <1>4, <2>1, <2>2, <2>3
<1>7. Sain(survivants', jm, 1 - e, 1 - d, g + 1, FALSE)
  <2>1. Porte(survivants', d, jm) /\ survivants'.sb[e] = {Bloc(g, d, Table(jm))}
    BY <1>2a, <1>5, <1>6
  <2>2. survivants'.sb[1 - e] # {} /\ survivants'.sb[1 - e] \subseteq b.sb[1 - e]
    BY <1>6
  <2>3. Sain(b, im, e, d, g, v1)
    BY <1>2
  <2> QED BY <2>1, <2>2, <2>3, SainNeuf
<1>8. Types'
  <2>1. tx' \in TxForme
    BY <1>0 DEF TxLibre, TxForme, Demis
  <2> QED BY <1>0, <2>1, LuFaits, LuDansLu DEF Types, TxForme
<1>9. TxInv'
  BY <1>0 DEF TxInv
<1>10. Zone(jm, 1 - e, 1 - d, g + 1, FALSE)'
  <2>1. Base' = survivants' /\ ~Engage' /\ disque'.demi # 1 - d
    BY <1>0, <1>2, <1>3 DEF Base, Engage
  <2> QED BY <1>0, <1>7, <2>1 DEF Zone
<1>11. Restaurables' = {tx.image}
  BY <1>2a, <1>3, <1>7, SainMonte DEF Restaurables
<1> QED BY <1>0, <1>3, <1>8, <1>9, <1>10, <1>11 DEF IInv, ZoneInv

----------------------------------------------------------------------------
(* The power cut *)

(* Each sector keeps one of its values: the disk is sound, with an image that   *)
(* could come back before.                                                      *)
LEMMA CoupureInv ==
    ASSUME IInv, Coupure
    PROVE  /\ IInv' /\ memoire # Rien /\ memoire' = Rien /\ tx' = TxLibre
           /\ \E im \in Restaurables : Restaurables' = {im}
<1>0. /\ Types /\ TxInv /\ memoire # Rien /\ memoire' = Rien /\ tx' = TxLibre /\ tx'.phase = "libre"
      /\ survivants' = Lu(vu') /\ disque' = Rien /\ v1Fin' = 0 /\ support' = support
  BY DEF Coupure, IInv, TxLibre
<1>1. vu' \in Plateaux /\ Dans(Lu(vu'), survivants)
  <2>1. PICK a \in survivants.sb[0], b \in survivants.sb[1],
             t \in survivants.table[0], u \in survivants.table[1],
             c \in ContenuSurvivant(0), d \in ContenuSurvivant(1) :
          vu' = [sb |-> Deux(a, b), table |-> Deux(t, u), contenu |-> Deux(c, d)]
    BY DEF Coupure
  <2>2. 0 \in Demis /\ 1 \in Demis /\ survivants \in Possibles
    BY <1>0 DEF Types, Demis
  <2>3. /\ a \in Superblocs \cup Marques /\ b \in Superblocs \cup Marques /\ t \in Tables /\ u \in Tables
        /\ c \in [1..N -> Octets] /\ d \in [1..N -> Octets]
        /\ \A k \in 1..N : c[k] \in survivants.contenu[0][k] /\ d[k] \in survivants.contenu[1][k]
    <3>1. a \in Superblocs \cup Marques /\ b \in Superblocs \cup Marques /\ t \in Tables /\ u \in Tables
      BY <2>2 DEF Possibles
    <3>2. c \in [1..N -> Octets] /\ \A k \in 1..N : c[k] \in survivants.contenu[0][k]
      BY DEF ContenuSurvivant, Octets
    <3>3. d \in [1..N -> Octets] /\ \A k \in 1..N : d[k] \in survivants.contenu[1][k]
      BY DEF ContenuSurvivant, Octets
    <3> QED BY <3>1, <3>2, <3>3
  <2>4. /\ vu'.sb \in [Demis -> Superblocs \cup Marques] /\ vu'.sb[0] = a /\ vu'.sb[1] = b
        /\ vu'.table \in [Demis -> Tables] /\ vu'.table[0] = t /\ vu'.table[1] = u
        /\ vu'.contenu \in [Demis -> [1..N -> Octets]] /\ vu'.contenu[0] = c /\ vu'.contenu[1] = d
    BY <2>1, <2>3 DEF Deux, Demis
  <2>5. vu' \in Plateaux
    BY <2>1, <2>4 DEF Plateaux
  <2>6. \A i \in Demis : /\ vu'.sb[i] \in survivants.sb[i] /\ vu'.table[i] \in survivants.table[i]
                         /\ \A j \in 1..N : vu'.contenu[i][j] \in survivants.contenu[i][j]
    BY <2>3, <2>4 DEF Demis
  <2> QED BY <2>5, <2>6, DansParSecteur
<1>2. survivants' \in Possibles /\ Dans(Lu(vu'), survivants') /\ Dans(survivants', survivants)
  BY <1>0, <1>1, LuFaits, LuDansLu
<1>3. Types'
  <2>1. tx' \in TxForme
    BY <1>0 DEF TxLibre, TxForme, Demis
  <2> QED BY <1>0, <1>1, <1>2, <2>1 DEF Types, TxForme
<1>4. TxInv'
  BY <1>0 DEF TxInv
<1>5. ASSUME NEW im \in Images, NEW e \in Demis, NEW d \in Demis, NEW g \in Nat, NEW v1 \in BOOLEAN,
             Sain(survivants', im, e, d, g, v1), v1 => ~support.dechirable
      PROVE  ZoneInv' /\ Restaurables' = {im}
  <2>1. Base' = survivants' /\ ~Engage'
    BY <1>0 DEF Base, Engage
  <2>2. Zone(im, e, d, g, v1)'
    BY <1>0, <1>5, <2>1 DEF Zone
  <2> QED BY <1>5, <2>2, SainMonte DEF ZoneInv, Restaurables
<1>6. PICK im \in Images, e \in Demis, d \in Demis, g \in Nat, v1 \in BOOLEAN : Zone(im, e, d, g, v1)
  BY DEF IInv, ZoneInv
<1>7. v1 => ~support.dechirable
  BY <1>6 DEF Zone
<1>8. CASE tx.phase # "fin"
  <2>1. Sain(survivants, im, e, d, g, v1) /\ Restaurables = {im}
    BY <1>6, <1>8, RestaurableUn
  <2>2. Sain(survivants', im, e, d, g, v1)
    BY <1>2, <2>1, SainDans
  <2> QED BY <1>0, <1>3, <1>4, <1>5, <1>7, <2>1, <2>2 DEF IInv
<1>9. CASE tx.phase = "fin"
  <2> DEFINE b == [survivants EXCEPT !.sb[e] = @ \ {Neuf}]
  <2>1. /\ tx.demi = d /\ tx.image \in Images /\ Neuf = Bloc(g, d, Table(tx.image))
        /\ Sain(b, im, e, d, g, v1) /\ Restaurables = {im, tx.image}
    BY <1>0, <1>6, <1>9, RestaurableDeux
  <2>2. PICK jm \in Images : jm = tx.image
    BY <2>1
  <2>3. 1 - e \in Demis /\ 1 - e # e /\ 1 - d \in Demis /\ g + 1 \in Nat
    BY DEF Demis
  <2>4. /\ b.sb[e] = survivants.sb[e] \ {Neuf} /\ b.sb[1 - e] = survivants.sb[1 - e]
        /\ b.table = survivants.table /\ b.contenu = survivants.contenu
    BY <1>0, <2>3 DEF Types, Possibles
  <2> HIDE DEF b
  <2>5. survivants'.sb[e] = {vu'.sb[e]}
    BY <1>0, <1>1, LuFaits
  <2>6. CASE vu'.sb[e] = Neuf
    <3>1. survivants'.sb[e] = {Bloc(g, d, Table(jm))}
      BY <2>1, <2>2, <2>5, <2>6
    <3>2. Porte(survivants, d, jm)
      BY <1>0, <1>9, <2>1, <2>2 DEF TxInv
    <3>3. Porte(survivants', d, jm)
      BY <1>2, <3>2, PorteDans
    <3>4. survivants'.sb[1 - e] # {} /\ survivants'.sb[1 - e] \subseteq b.sb[1 - e]
      BY <1>2, <2>3, <2>4 DEF Dans
    <3>5. Sain(b, im, e, d, g, v1)
      BY <2>1
    <3>6. Sain(survivants', jm, 1 - e, 1 - d, g + 1, FALSE)
      BY <3>1, <3>3, <3>4, <3>5, SainNeuf
    <3>7. ZoneInv' /\ Restaurables' = {jm}
      BY <1>5, <2>3, <3>6
    <3> QED BY <1>0, <1>3, <1>4, <2>1, <2>2, <3>7 DEF IInv
  <2>7. CASE vu'.sb[e] # Neuf
    <3>1. Dans(survivants', b)
      <4>1. survivants'.sb[e] \subseteq b.sb[e]
        BY <1>2, <2>4, <2>5, <2>7 DEF Dans
      <4>2. survivants'.sb[1 - e] \subseteq b.sb[1 - e]
        BY <1>2, <2>3, <2>4 DEF Dans
      <4>3. \A i \in Demis : survivants'.sb[i] \subseteq b.sb[i]
        BY <4>1, <4>2 DEF Demis
      <4> QED BY <1>2, <2>4, <4>3 DEF Dans
    <3>2. Sain(b, im, e, d, g, v1)
      BY <2>1
    <3>3. Sain(survivants', im, e, d, g, v1)
      BY <3>1, <3>2, SainDans
    <3>4. ZoneInv' /\ Restaurables' = {im}
      BY <1>5, <1>7, <3>3
    <3> QED BY <1>0, <1>3, <1>4, <2>1, <3>4 DEF IInv
  <2> QED BY <2>6, <2>7
<1> QED BY <1>8, <1>9

(* Nothing at all moves. *)
LEMMA ImmobileInv ==
    ASSUME IInv, UNCHANGED vars
    PROVE  IInv' /\ Restaurables' = Restaurables
<1> USE DEF vars
<1>1. Types' /\ Restaurables' = Restaurables
  BY DEF IInv, Types, Restaurables
<1>2. TxInv'
  BY DEF IInv, TxInv, Neuf
<1>3. ZoneInv'
  <2>1. PICK im \in Images, e \in Demis, d \in Demis, g \in Nat, v1 \in BOOLEAN : Zone(im, e, d, g, v1)
    BY DEF IInv, ZoneInv
  <2>2. Base' = Base /\ (Engage' <=> Engage)
    BY DEF Base, Engage, Neuf
  <2>3. Zone(im, e, d, g, v1)'
    BY <2>1, <2>2 DEF Zone
  <2> QED BY <2>3 DEF ZoneInv
<1> QED BY <1>1, <1>2, <1>3 DEF IInv

(* Every modification keeps the files among the images. *)
LEMMA ModifieInv ==
    ASSUME IInv, Modifie
    PROVE  IInv' /\ Restaurables' = Restaurables /\ memoire # Rien /\ memoire' \in Images /\ tx' = tx
<1>1. memoire \in Images /\ memoire # Rien
  BY DEF IInv, Types, Modifie
<1>2. memoire' \in Images
  BY <1>1 DEF Modifie, Images
<1>3. UNCHANGED <<plateau, v1Fin, disque, tx>>
  BY DEF Modifie
<1> QED BY <1>1, <1>2, <1>3, CalmeInv

(* The capture of the generation touches neither the files nor the disk. *)
LEMMA DecideInv ==
    ASSUME IInv, Decide
    PROVE  IInv' /\ Restaurables' = Restaurables /\ memoire # Rien /\ memoire' = memoire /\ tx' = tx
<1>1. memoire' \in Images /\ memoire # Rien /\ memoire' = memoire /\ UNCHANGED <<plateau, v1Fin, disque, tx>>
  BY DEF IInv, Types, Decide
<1> QED BY <1>1, CalmeInv

----------------------------------------------------------------------------
(* The refinement *)

(* A step of a synchronisation before its end: it fails and what it attempted    *)
(* does not come back, or it goes on and the new image may come back as well.    *)
AvanceSynchro ==
    /\ memoire' = memoire /\ memoire # Rien /\ generation' = generation /\ tx.image \in Images /\ tx.phase # "libre"
    /\ \/ Rate /\ tx' = TxLibre /\ Restaurables' = Restaurables
       \/ /\ tx'.image = tx.image /\ tx'.qui = tx.qui /\ tx'.phase # "libre" /\ UNCHANGED fil
          /\ Restaurables' \in {Restaurables, Restaurables \cup {tx.image}}

(* The steps of a synchronisation, each with what it shows. *)
LEMMA SynchroInv ==
    ASSUME IInv, Synchro, ~EchecEcrit, Fautes = {}
    PROVE  IInv' /\ (Acheve \/ AvanceSynchro)
<1>1. tx.phase # "libre" => tx.image \in Images
  BY DEF IInv, TxInv
<1>2. CASE LitSuperblocs
  BY <1>1, <1>2, LitSuperblocsInv DEF AvanceSynchro, LitSuperblocs
<1>3. CASE ContenuSuivant
  BY <1>1, <1>3, ContenuInv DEF AvanceSynchro, ContenuSuivant
<1>4. CASE EcritLaTable
  BY <1>1, <1>4, TableInv DEF AvanceSynchro, EcritLaTable
<1>5. CASE PremiereBarriere
  BY <1>1, <1>5, BarriereInv DEF AvanceSynchro, PremiereBarriere
<1>6. CASE EcritLeSuperbloc
  BY <1>1, <1>6, SuperblocInv DEF AvanceSynchro, EcritLeSuperbloc
<1>7. CASE Acheve
  BY <1>7, AcheveInv
<1> QED BY <1>2, <1>3, <1>4, <1>5, <1>6, <1>7 DEF Synchro

(* Every step keeps the invariant and is a step of the depot, or changes nothing *)
(* the depot shows.                                                              *)
LEMMA PasDepot ==
    ASSUME IInv, [Next]_vars, ~EchecEcrit, Fautes = {}
    PROVE  IInv' /\ [Depot!DNext]_(Depot!dvars)
<1> USE DEF Depot!DNext, Depot!dvars
<1>0. TxLibre.image = Rien /\ (tx.phase = "libre" => tx.image = Rien) /\ \A im \in Images : im # Rien
  BY SecteursAssumption DEF TxLibre, IInv, TxInv
<1>1. CASE Monte
  <2>1. IInv' /\ Restaurables' = Restaurables /\ Restaurables = {memoire'} /\ memoire = Rien /\ tx' = tx
    BY <1>1, MonteInv DEF Monte
  <2> QED BY <2>1 DEF Depot!DMonte
<1>2. CASE Modifie
  <2>1. IInv' /\ Restaurables' = Restaurables /\ memoire # Rien /\ memoire' \in Images /\ tx' = tx
    BY <1>2, ModifieInv
  <2> QED BY <2>1 DEF Depot!DModifie
<1>3. ASSUME NEW qui \in {"fsync", "fil"}, Copie(qui)
      PROVE  IInv' /\ Depot!DCopie
  <2>1. IInv' /\ Restaurables' = Restaurables
    BY <1>3, CopieInv
  <2>2. memoire # Rien /\ tx.image = Rien /\ tx'.image = memoire /\ memoire' = memoire
    BY <1>0, <1>3 DEF Copie, TxLibre
  <2> QED BY <2>1, <2>2 DEF Depot!DCopie
<1>4. CASE Fsync \/ CopieFil
  BY <1>3, <1>4 DEF Fsync, CopieFil
<1>5. CASE Decide
  <2>1. IInv' /\ Restaurables' = Restaurables /\ memoire' = memoire /\ tx' = tx
    BY <1>5, DecideInv
  <2> QED BY <2>1
<1>6. CASE Synchro
  <2>1. IInv' /\ (Acheve \/ AvanceSynchro)
    BY <1>6, SynchroInv
  <2>2. CASE Acheve
    <3>1. Restaurables' = {tx.image} /\ memoire' = memoire /\ tx.image # Rien /\ tx'.image = Rien
      BY <1>0, <2>2, AcheveInv
    <3> QED BY <2>1, <3>1 DEF Depot!DAcquitte
  <2>3. CASE AvanceSynchro
    <3>1. memoire' = memoire /\ tx.image # Rien
      BY <1>0, <2>3 DEF AvanceSynchro
    <3>2. CASE tx' = TxLibre /\ Restaurables' = Restaurables
      BY <1>0, <2>1, <3>1, <3>2 DEF Depot!DEchoue
    <3>3. CASE tx'.image = tx.image /\ Restaurables' = Restaurables
      BY <2>1, <3>1, <3>3
    <3>4. CASE tx'.image = tx.image /\ Restaurables' = Restaurables \cup {tx.image}
      BY <2>1, <3>1, <3>4 DEF Depot!DTente
    <3> QED BY <2>3, <3>2, <3>3, <3>4 DEF AvanceSynchro
  <2> QED BY <2>1, <2>2, <2>3
<1>7. CASE Coupure
  <2>1. IInv' /\ memoire # Rien /\ memoire' = Rien /\ tx'.image = Rien /\ \E im \in Restaurables : Restaurables' = {im}
    BY <1>0, <1>7, CoupureInv
  <2> QED BY <2>1 DEF Depot!DCoupure
<1>8. CASE UNCHANGED vars
  <2>1. IInv' /\ Restaurables' = Restaurables /\ memoire' = memoire /\ tx' = tx
    BY <1>8, ImmobileInv DEF vars
  <2> QED BY <2>1
<1> QED BY <1>1, <1>2, <1>4, <1>5, <1>6, <1>7, <1>8 DEF Next, Fil

(* The first boot is the depot's: one image can come back. *)
LEMMA InitDepot ==
    ASSUME IInv, Init
    PROVE  Depot!DInit
<1>1. PICK im \in Images, e \in Demis, d \in Demis, g \in Nat, v1 \in BOOLEAN : Zone(im, e, d, g, v1)
  BY DEF IInv, ZoneInv
<1>2. memoire = Rien /\ tx.image = Rien /\ tx.phase = "libre"
  BY DEF Init, TxLibre
<1>3. Restaurables = {im}
  BY <1>1, <1>2, RestaurableUn
<1> QED BY <1>2, <1>3 DEF Depot!DInit

(* The persistent zone implements the depot (src/fs/persistance/ against          *)
(* Depot.tla) on a disk whose reads and flushes succeed, on which a write that    *)
(* reports a failure has not been done, and which, while it holds the V1 state,   *)
(* writes its sectors whole.  There, for any files, contents and number of        *)
(* modifications, synchronisations, failed writes and power cuts, a power cut     *)
(* brings back the last image acknowledged or one attempted since, never a        *)
(* mixture and never nothing.  None of the three hypotheses is checked by the     *)
(* code: format.rs:142 takes an unreadable superblock for none, io.rs:112 and 143 *)
(* drop the answer of the flush.                                                  *)
THEOREM ZoneImplementeDepot ==
    ASSUME ~EchecEcrit, Fautes = {}, \A d \in Departs : d.format \in {"v1", "v1grand"} => ~d.dechirable
    PROVE  Spec => Implemente
<1>1. Init => IInv
  BY InitInv
<1>2. Init => Depot!DInit
  BY <1>1, InitDepot
<1>3. IInv /\ [Next]_vars => IInv' /\ [Depot!DNext]_(Depot!dvars)
  BY PasDepot
<1> QED BY <1>1, <1>2, <1>3, PTL DEF Spec, Implemente, Depot!DSpec

----------------------------------------------------------------------------
(* The deferred writer *)

(* A step of a synchronisation keeps what the deferred writer knows true. *)
LEMMA DiffSynchro ==
    ASSUME DiffInv, AvanceSynchro
    PROVE  DiffInv'
<1>1. /\ generation \in Nat /\ generation' = generation /\ memoire' = memoire
      /\ fil \in [ecrite : 0..generation, g : (0..generation) \cup {Rien}]
      /\ fil.ecrite = generation => Restaurables = {memoire} /\ tx.image = memoire
      /\ tx.qui = "fil" => fil.g # Rien /\ (fil.g = generation => tx.image = memoire)
  BY DEF DiffInv, AvanceSynchro
<1>2. CASE Rate /\ tx' = TxLibre /\ Restaurables' = Restaurables
  <2>1. /\ tx'.phase = "libre" /\ fil'.ecrite = fil.ecrite
        /\ fil' \in [ecrite : 0..generation, g : (0..generation) \cup {Rien}]
    BY <1>1, <1>2 DEF Rate, Termine, TxLibre
  <2> QED BY <1>1, <1>2, <2>1 DEF DiffInv
<1>3. CASE /\ tx'.image = tx.image /\ tx'.qui = tx.qui /\ tx'.phase # "libre" /\ UNCHANGED fil
           /\ Restaurables' \in {Restaurables, Restaurables \cup {tx.image}}
  <2>1. fil.ecrite = generation => Restaurables' = {memoire}
    BY <1>1, <1>3
  <2> QED BY <1>1, <1>3, <2>1 DEF DiffInv
<1> QED BY <1>2, <1>3 DEF AvanceSynchro

(* Every step keeps it: a modification makes the generation written an old one,  *)
(* and a synchronisation is credited with the generation captured before its     *)
(* copy.                                                                         *)
LEMMA PasDiff ==
    ASSUME IInv, DiffInv, [Next]_vars, ~EchecEcrit, Fautes = {}
    PROVE  DiffInv'
<1>0. Rien \notin Nat
  BY SecteursAssumption
<1>1. CASE Monte
  <2>1. Restaurables' = {memoire'} /\ tx' = TxLibre /\ generation' = 0 /\ fil' = Arret
    BY <1>1, MonteInv DEF Monte
  <2>2. tx'.phase = "libre" /\ fil' \in [ecrite : 0..0, g : (0..0) \cup {Rien}]
    BY <2>1 DEF TxLibre, Arret
  <2> QED BY <2>1, <2>2 DEF DiffInv
<1>2. CASE Modifie
  <2>1. /\ memoire # Rien /\ generation' = generation + 1 /\ fil' = fil /\ tx' = tx
        /\ generation \in Nat /\ fil \in [ecrite : 0..generation, g : (0..generation) \cup {Rien}]
        /\ tx.phase # "libre" /\ tx.qui = "fil" => fil.g # Rien
    BY <1>2 DEF Modifie, DiffInv
  <2>2. /\ fil.ecrite # generation + 1 /\ fil.g # generation + 1
        /\ fil \in [ecrite : 0..(generation + 1), g : (0..(generation + 1)) \cup {Rien}]
    <3>1. fil.ecrite \in 0..generation /\ fil.g \in (0..generation) \cup {Rien} /\ fil = [ecrite |-> fil.ecrite, g |-> fil.g]
      BY <2>1
    <3>2. fil.ecrite \in 0..(generation + 1) /\ fil.g \in (0..(generation + 1)) \cup {Rien}
      BY <2>1, <3>1
    <3>3. fil.ecrite # generation + 1 /\ fil.g # generation + 1
      BY <1>0, <2>1, <3>1
    <3> QED BY <3>1, <3>2, <3>3
  <2> QED BY <2>1, <2>2 DEF DiffInv
<1>3. CASE Decide
  <2>1. /\ memoire # Rien /\ memoire' = memoire /\ generation' = generation /\ tx' = tx /\ Restaurables' = Restaurables
        /\ fil.g = Rien /\ fil' = [fil EXCEPT !.g = generation]
    BY <1>3, DecideInv DEF Decide
  <2>2. /\ generation \in Nat /\ fil \in [ecrite : 0..generation, g : (0..generation) \cup {Rien}]
        /\ fil.ecrite = generation => Restaurables = {memoire} /\ (tx.phase # "libre" => tx.image = memoire)
        /\ ~(tx.phase # "libre" /\ tx.qui = "fil")
    BY <2>1 DEF DiffInv
  <2>3. fil' \in [ecrite : 0..generation, g : (0..generation) \cup {Rien}] /\ fil'.ecrite = fil.ecrite
    BY <2>1, <2>2
  <2> QED BY <2>1, <2>2, <2>3 DEF DiffInv
<1>4. ASSUME NEW qui \in {"fsync", "fil"}, Copie(qui), qui = "fil" => fil.g # Rien
      PROVE  DiffInv'
  <2>1. /\ memoire # Rien /\ memoire' = memoire /\ generation' = generation /\ fil' = fil
        /\ tx'.image = memoire /\ tx'.qui = qui /\ Restaurables' = Restaurables
    BY <1>4, CopieInv DEF Copie, TxLibre
  <2> QED BY <1>4, <2>1 DEF DiffInv
<1>5. CASE Fsync
  BY <1>4, <1>5 DEF Fsync
<1>6. CASE CopieFil
  BY <1>4, <1>6 DEF CopieFil
<1>7. CASE Synchro
  <2>1. CASE AvanceSynchro
    BY <2>1, DiffSynchro
  <2>2. CASE Acheve
    <3>1. /\ Restaurables' = {tx.image} /\ memoire' = memoire /\ memoire # Rien /\ tx' = TxLibre /\ generation' = generation
          /\ tx.phase = "fin" /\ fil' = IF tx.qui = "fil" THEN [ecrite |-> fil.g, g |-> Rien] ELSE fil
      BY <2>2, AcheveInv DEF Acheve, Termine
    <3>2. /\ generation \in Nat /\ fil \in [ecrite : 0..generation, g : (0..generation) \cup {Rien}]
          /\ fil.ecrite = generation => tx.image = memoire
          /\ tx.qui = "fil" => fil.g # Rien /\ (fil.g = generation => tx.image = memoire)
      BY <3>1 DEF DiffInv
    <3>3. tx'.phase = "libre"
      BY <3>1 DEF TxLibre
    <3>4. fil' \in [ecrite : 0..generation, g : (0..generation) \cup {Rien}] /\ (fil'.ecrite = generation => tx.image = memoire)
      BY <3>1, <3>2
    <3> QED BY <3>1, <3>2, <3>3, <3>4 DEF DiffInv
  <2> QED BY <1>7, <2>1, <2>2, SynchroInv
<1>8. CASE Coupure
  BY <1>8, CoupureInv DEF DiffInv
<1>9. CASE UNCHANGED vars
  BY <1>9 DEF DiffInv, vars, Restaurables
<1> QED BY <1>1, <1>2, <1>3, <1>5, <1>6, <1>7, <1>8, <1>9 DEF Next, Fil

(* The deferred writer never believes it is up to date when it is not             *)
(* (src/fs/ecriture_differee): when the generation it noted as written is the     *)
(* current one, every power cut brings back what is in memory, whatever was       *)
(* modified between the capture and the copy, and whatever write failed; under    *)
(* the three hypotheses above (a flush that fails is noted as written).           *)
THEOREM DiffereeToujoursDurable ==
    ASSUME ~EchecEcrit, Fautes = {}, \A d \in Departs : d.format \in {"v1", "v1grand"} => ~d.dechirable
    PROVE  Spec => []DiffereeDurable
<1>1. Init => IInv /\ DiffInv
  BY InitInv DEF DiffInv, Init
<1>2. IInv /\ DiffInv /\ [Next]_vars => (IInv /\ DiffInv)'
  BY PasDepot, PasDiff
<1>3. DiffInv => DiffereeDurable
  BY DEF DiffInv, DiffereeDurable
<1> QED BY <1>1, <1>2, <1>3, PTL DEF Spec

=============================================================================
