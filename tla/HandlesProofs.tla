---------------------------- MODULE HandlesProofs ----------------------------
(***************************************************************************)
(* Proofs about Handles, for any processes, threads, channels, table and   *)
(* queue sizes and number of calls: an id designates its object or nothing *)
(* (HandlesFideles), no chain of duplications and transfers widens the     *)
(* rights a creator lent (DroitsBornes), no message is lost or doubled     *)
(* (MessagesConserves), they arrive in order (OrdreDeReception), and a     *)
(* right only travels: no step makes one up (DroitsHerites).               *)
(*                                                                         *)
(* The invariant of the ids is a register: an id is never older than the   *)
(* generation of its slot, an entry is under an id that was installed for  *)
(* its object and was not closed, and the id of a receive under way is     *)
(* nobody else's.  It stands because the generations do not wrap: each one *)
(* is paid by a call, a receive under way included.                        *)
(*                                                                         *)
(* The invariant of the messages, MessInv: a number is at one place, in a  *)
(* queue, with a receive or delivered, and on an endpoint that one thread  *)
(* at a time received from these three are in that order.                  *)
(*                                                                         *)
(* The invariant of the lives, VieInv: the endpoints that live are those   *)
(* that a table, a call or a message of a living channel holds, and no     *)
(* message is in, or was taken from, the channel of what it carries.       *)
(***************************************************************************)
EXTENDS Handles, FiniteSetTheorems, SequenceTheorems, WellFoundedInduction, TLAPS

Identifiants == Slots \X (1..GenMax)
Cases == [gen : 0..GenMax, entree : Entrees \cup {Nul}]
Tables == [Slots -> Cases]

(* what a message may carry, and what process p may hold, au being the authors *)
Permis(x, au) ==
    /\ au[x.objet[1]] # Nul
    /\ Crees[x.objet[1]] = Nul => x.droits \subseteq UNION Masques[au[x.objet[1]]]
PermisA(x, p, au) ==
    /\ au[x.objet[1]] # Nul
    /\ Crees[x.objet[1]] = Nul /\ au[x.objet[1]] # p => x.droits \subseteq UNION Masques[au[x.objet[1]]]

Courrier(au) == {m \in Messages : m.transfere # Nul => Permis(m.transfere, au)}
Recepteurs(au) ==
    [pas : {"repos", "prend", "verifie", "copie", "remet"}, sur : Extremites \cup {Nul}, place : {0, 1},
     message : Courrier(au) \cup {Nul}, id : Identifiants \cup {Nul}]

Types ==
    /\ table \in [Procs -> Tables]
    /\ auteur \in [Canaux -> Procs \cup {Nul}] /\ \A c \in Canaux : Crees[c] # Nul => auteur[c] = Crees[c]
    /\ file \in [Extremites -> Seq(Courrier(auteur))]
    /\ fil \in [Fils -> Recepteurs(auteur)]
    /\ \A f \in Fils : /\ fil[f].pas # "repos" => fil[f].sur # Nul
                       /\ fil[f].pas \in {"verifie", "copie", "remet"} => fil[f].message # Nul
                       /\ fil[f].id # Nul => fil[f].pas = "copie"
    /\ appels \in 0..MaxAppels /\ morts \subseteq Procs
    /\ emis \in [Procs -> SUBSET (Identifiants \X Extremites)]
    /\ rendus \in [Procs -> SUBSET Identifiants] /\ clos \in [Procs -> SUBSET Identifiants]

DroitsInv == \A p \in Procs, s \in Slots : table[p][s].entree # Nul => PermisA(table[p][s].entree, p, auteur)

(* the id designates something *)
Vivant(t, id) == t[id[1]].gen = id[2] /\ t[id[1]].entree # Nul

(* a table t agrees with the ids installed em, closed cl and returned rd *)
Registre(t, em, cl, rd) ==
    /\ \A x \in em : x[1][2] <= t[x[1][1]].gen
    /\ \A x, y \in em : x[1] = y[1] => x[2] = y[2]
    /\ \A s \in Slots : t[s].entree # Nul =>
          <<<<s, t[s].gen>>, t[s].entree.objet>> \in em /\ <<s, t[s].gen>> \notin cl
    /\ \A id \in cl \cup rd : \E x \in em : x[1] = id

RegistreInv == \A p \in Procs : Registre(table[p], emis[p], clos[p], rendus[p])

(* the ids of the receives under way *)
EnCoursInv ==
    /\ \A f \in Fils : fil[f].id # Nul => /\ fil[f].id \notin rendus[ProcDe[f]]
                                          /\ \E x \in emis[ProcDe[f]] : x[1] = fil[f].id
    /\ \A f, g \in Fils : f # g /\ ProcDe[f] = ProcDe[g] /\ fil[f].id # Nul => fil[f].id # fil[g].id

VivantsInv ==
    /\ \A p \in Procs \ morts : \A id \in rendus[p] \ clos[p] : Vivant(table[p], id)
    /\ \A f \in Fils : fil[f].id # Nul /\ ProcDe[f] \notin morts /\ fil[f].id \notin clos[ProcDe[f]]
                         => Vivant(table[ProcDe[f]], fil[f].id)

(* the receives that may still install something *)
Vol(th, p) == {f \in Fils : ProcDe[f] = p /\ th[f].pas \in {"prend", "verifie"}}

(* every generation is paid by a call *)
GenInv == \A p \in Procs, s \in Slots : table[p][s].gen + Cardinality(Vol(fil, p)) <= appels + 1

IInv == Types /\ DroitsInv /\ GenInv /\ RegistreInv /\ EnCoursInv /\ VivantsInv

----------------------------------------------------------------------------
(* The table *)

(* insert_locked takes a free slot when there is one. *)
LEMMA PremierLibre ==
    ASSUME NEW t, Libres(t) # {}
    PROVE  Premier(t) \in Libres(t)
<1>1. Libres(t) \subseteq Nat
  BY HandlesAssumption DEF Libres, Slots
<1>2. \E s \in Libres(t) : \A r \in Libres(t) : ~(<<r, s>> \in OpToRel(<, Nat))
  BY <1>1, NatLessThanWellFounded, WFMin, Zenon
<1>3. \A r, s \in Nat : ~(<<r, s>> \in OpToRel(<, Nat)) => s <= r
  BY DEF OpToRel
<1>4. \E s \in Libres(t) : \A r \in Libres(t) : s <= r
  BY <1>1, <1>2, <1>3, Zenon
<1> QED BY <1>4 DEF Premier

(* An insertion fills that slot under the next generation and leaves the others. *)
LEMMA InsereFaits ==
    ASSUME NEW t \in Tables, Libres(t) # {}, NEW e \in Entrees, t[Premier(t)].gen < GenMax
    PROVE  /\ Premier(t) \in Slots /\ t[Premier(t)].entree = Nul
           /\ Insere(t, e) \in Tables
           /\ Insere(t, e)[Premier(t)] = [gen |-> t[Premier(t)].gen + 1, entree |-> e]
           /\ \A s \in Slots : s # Premier(t) => Insere(t, e)[s] = t[s]
           /\ IdPose(t) = <<Premier(t), t[Premier(t)].gen + 1>> /\ IdPose(t) \in Identifiants
<1>1. Premier(t) \in Slots /\ t[Premier(t)].entree = Nul
  BY PremierLibre DEF Libres
<1>2. t[Premier(t)].gen \in 0..GenMax /\ GenMax \in Nat
  BY <1>1, HandlesAssumption DEF Tables, Cases
<1>3. NextGeneration(t[Premier(t)].gen) = t[Premier(t)].gen + 1 /\ t[Premier(t)].gen + 1 \in 1..GenMax
  BY <1>2 DEF NextGeneration
<1>4. Insere(t, e) = [t EXCEPT ![Premier(t)] = [gen |-> t[Premier(t)].gen + 1, entree |-> e]]
  BY <1>3 DEF Insere
<1>5. [gen |-> t[Premier(t)].gen + 1, entree |-> e] \in Cases
  BY <1>3 DEF Cases
<1>6. /\ Insere(t, e) \in Tables /\ Insere(t, e)[Premier(t)] = [gen |-> t[Premier(t)].gen + 1, entree |-> e]
      /\ \A s \in Slots : s # Premier(t) => Insere(t, e)[s] = t[s]
  BY <1>1, <1>4, <1>5 DEF Tables
<1>7. IdPose(t) = <<Premier(t), t[Premier(t)].gen + 1>> /\ IdPose(t) \in Identifiants
  BY <1>1, <1>3 DEF IdPose, Identifiants
<1> QED BY <1>1, <1>6, <1>7

(* A removal empties the slot of its id, if the generation is still the id's. *)
LEMMA RetireFaits ==
    ASSUME NEW t \in Tables, NEW id \in Identifiants
    PROVE  /\ Retire(t, id) \in Tables
           /\ \A s \in Slots : Retire(t, id)[s].gen = t[s].gen
           /\ \A s \in Slots : Retire(t, id)[s].entree =
                 IF s = id[1] /\ t[s].gen = id[2] THEN Nul ELSE t[s].entree
<1>1. id[1] \in Slots /\ t[id[1]] \in Cases
  BY DEF Identifiants, Tables
<1>2. CASE t[id[1]].gen = id[2]
  <2>1. Retire(t, id) = [t EXCEPT ![id[1]] = [t[id[1]] EXCEPT !.entree = Nul]]
    BY <1>2 DEF Retire
  <2>2. /\ [t[id[1]] EXCEPT !.entree = Nul] \in Cases /\ [t[id[1]] EXCEPT !.entree = Nul].gen = t[id[1]].gen
        /\ [t[id[1]] EXCEPT !.entree = Nul].entree = Nul
    BY <1>1 DEF Cases
  <2> QED BY <1>1, <1>2, <2>1, <2>2 DEF Tables
<1>3. CASE t[id[1]].gen # id[2]
  BY <1>3 DEF Retire
<1> QED BY <1>2, <1>3

----------------------------------------------------------------------------
(* The register *)

(* An insertion is registered under a new id, and takes nothing away. *)
LEMMA InsereRegistre ==
    ASSUME NEW t \in Tables, Libres(t) # {}, NEW e \in Entrees, t[Premier(t)].gen < GenMax,
           NEW em \in SUBSET (Identifiants \X Extremites), NEW cl, NEW rd, Registre(t, em, cl, rd)
    PROVE  /\ Registre(Insere(t, e), em \cup {<<IdPose(t), e.objet>>}, cl, rd)
           /\ \A x \in em : x[1] # IdPose(t)
           /\ \A id \in Identifiants : Vivant(t, id) => Vivant(Insere(t, e), id) /\ id # IdPose(t)
           /\ Vivant(Insere(t, e), IdPose(t)) /\ IdPose(t) \notin cl \cup rd
<1> DEFINE p == Premier(t)
           g == t[p].gen + 1
           u == Insere(t, e)
           n == <<<<p, g>>, e.objet>>
<1>1. /\ p \in Slots /\ t[p].entree = Nul /\ u \in Tables /\ u[p] = [gen |-> g, entree |-> e]
      /\ \A s \in Slots : s # p => u[s] = t[s]
      /\ IdPose(t) = <<p, g>> /\ <<p, g>> \in Identifiants
  BY InsereFaits
<1>2. t[p].gen \in Nat /\ g > t[p].gen /\ \A s \in Slots : t[s].gen \in Nat
  BY <1>1, HandlesAssumption DEF Tables, Cases
<1>3. \A x \in em : x[1] \in Identifiants /\ x[1][1] \in Slots /\ x[1][2] \in Nat
  BY HandlesAssumption DEF Identifiants
<1>4. /\ \A x \in em : x[1][2] <= t[x[1][1]].gen
      /\ \A x, y \in em : x[1] = y[1] => x[2] = y[2]
      /\ \A s \in Slots : t[s].entree # Nul =>
            <<<<s, t[s].gen>>, t[s].entree.objet>> \in em /\ <<s, t[s].gen>> \notin cl
      /\ \A id \in cl \cup rd : \E x \in em : x[1] = id
  BY DEF Registre
<1> HIDE DEF p, g, u
<1>5. u[p].gen = g /\ u[p].entree = e /\ e # Nul
  BY <1>1, DepartAssumption
<1>6. \A x \in em : x[1] # <<p, g>>
  BY <1>2, <1>3, <1>4
<1>7. <<p, g>> \notin cl \cup rd
  BY <1>4, <1>6
<1>8. \A x \in em \cup {n} : x[1][2] <= u[x[1][1]].gen
  <2>1. n[1][2] <= u[n[1][1]].gen
    BY <1>2, <1>5 DEF g
  <2>2. ASSUME NEW x \in em PROVE x[1][2] <= u[x[1][1]].gen
    <3>1. CASE x[1][1] = p
      BY <1>2, <1>3, <1>4, <1>5, <3>1 DEF g
    <3>2. CASE x[1][1] # p
      BY <1>1, <1>3, <1>4, <3>2
    <3> QED BY <3>1, <3>2
  <2> QED BY <2>1, <2>2
<1>9. \A x, y \in em \cup {n} : x[1] = y[1] => x[2] = y[2]
  BY <1>4, <1>6
<1>10. \A s \in Slots : u[s].entree # Nul =>
          <<<<s, u[s].gen>>, u[s].entree.objet>> \in em \cup {n} /\ <<s, u[s].gen>> \notin cl
  <2> TAKE s \in Slots
  <2>1. CASE s = p
    BY <1>5, <1>7, <2>1
  <2>2. CASE s # p
    BY <1>1, <1>4, <2>2
  <2> QED BY <2>1, <2>2
<1>11. \A id \in cl \cup rd : \E x \in em \cup {n} : x[1] = id
  BY <1>4
<1>12. Registre(u, em \cup {n}, cl, rd)
  BY <1>8, <1>9, <1>10, <1>11 DEF Registre
<1>13. ASSUME NEW id \in Identifiants, Vivant(t, id) PROVE Vivant(u, id) /\ id # <<p, g>>
  <2>1. id[1] \in Slots /\ id[1] # p
    BY <1>1, <1>13 DEF Identifiants, Vivant
  <2>2. u[id[1]] = t[id[1]]
    BY <1>1, <2>1
  <2> QED BY <1>13, <2>1, <2>2 DEF Vivant
<1>14. Vivant(u, <<p, g>>)
  BY <1>5 DEF Vivant
<1> QED BY <1>1, <1>6, <1>7, <1>12, <1>13, <1>14 DEF u, n

(* A removal keeps the register, whether the id is closed for its holder or the  *)
(* installation is rolled back; the other ids designate what they did.           *)
LEMMA RetireRegistre ==
    ASSUME NEW t \in Tables, NEW id \in Identifiants, NEW em, NEW cl, NEW rd, Registre(t, em, cl, rd),
           \E x \in em : x[1] = id
    PROVE  /\ Registre(Retire(t, id), em, cl, rd)
           /\ Registre(Retire(t, id), em, cl \cup {id}, rd)
           /\ \A j \in Identifiants : j # id /\ Vivant(t, j) => Vivant(Retire(t, id), j)
<1> DEFINE u == Retire(t, id)
<1>1. /\ \A s \in Slots : u[s].gen = t[s].gen
      /\ \A s \in Slots : u[s].entree = IF s = id[1] /\ t[s].gen = id[2] THEN Nul ELSE t[s].entree
  BY RetireFaits
<1>2. id = <<id[1], id[2]>> /\ id[1] \in Slots
  BY DEF Identifiants
<1> HIDE DEF u
<1>3. \A x \in em : x[1][2] <= u[x[1][1]].gen
  <2>1. \A s : s \notin Slots => Retire(t, id)[s] = t[s]
    BY <1>2 DEF Retire, Tables
  <2> QED BY <1>1, <2>1 DEF Registre, u
<1>4. \A s \in Slots : u[s].entree # Nul =>
          /\ <<<<s, u[s].gen>>, u[s].entree.objet>> \in em
          /\ <<s, u[s].gen>> \notin cl /\ <<s, u[s].gen>> # id
  BY <1>1, <1>2 DEF Registre
<1>5. \A j \in Identifiants : j # id /\ Vivant(t, j) => Vivant(u, j)
  <2> SUFFICES ASSUME NEW j \in Identifiants, j # id, Vivant(t, j) PROVE Vivant(u, j)
    OBVIOUS
  <2>1. j = <<j[1], j[2]>> /\ j[1] \in Slots /\ t[j[1]].gen = j[2] /\ t[j[1]].entree # Nul
    BY DEF Identifiants, Vivant
  <2>2. ~(j[1] = id[1] /\ j[2] = id[2])
    BY <1>2, <2>1
  <2> QED BY <1>1, <2>1, <2>2 DEF Vivant
<1>6. Registre(u, em, cl, rd) /\ Registre(u, em, cl \cup {id}, rd)
  BY <1>3, <1>4 DEF Registre
<1> QED BY <1>5, <1>6 DEF u

(* Generations that were skipped in free slots harm nothing. *)
LEMMA SautRegistre ==
    ASSUME NEW t \in Tables, NEW u \in Tables,
           NEW em \in SUBSET (Identifiants \X Extremites), NEW cl, NEW rd, Registre(t, em, cl, rd),
           \A s \in Slots : u[s] = t[s] \/ (t[s].entree = Nul /\ u[s].entree = Nul /\ u[s].gen >= t[s].gen)
    PROVE  /\ Registre(u, em, cl, rd)
           /\ \A j \in Identifiants : Vivant(t, j) => Vivant(u, j)
<1>1. \A x \in em : x[1][1] \in Slots /\ x[1][2] \in Nat
  BY HandlesAssumption DEF Identifiants
<1>2. \A s \in Slots : t[s].gen \in Nat /\ u[s].gen \in Nat
  BY HandlesAssumption DEF Tables, Cases
<1>3. \A x \in em : x[1][2] <= u[x[1][1]].gen
  <2> TAKE x \in em
  <2>1. x[1][2] <= t[x[1][1]].gen /\ t[x[1][1]].gen <= u[x[1][1]].gen
    BY <1>1, <1>2 DEF Registre
  <2> QED BY <1>1, <1>2, <2>1
<1>4. Registre(u, em, cl, rd)
  BY <1>3 DEF Registre
<1>5. ASSUME NEW j \in Identifiants, Vivant(t, j) PROVE Vivant(u, j)
  <2>1. j[1] \in Slots
    BY DEF Identifiants
  <2> QED BY <1>5, <2>1 DEF Vivant
<1> QED BY <1>4, <1>5

----------------------------------------------------------------------------
(* The receives under way *)

(* How a step of one receive changes the number of those that may install. *)
LEMMA VolSuite ==
    ASSUME NEW th, NEW th2, NEW f \in Fils, NEW p, \A g \in Fils : g # f => th2[g].pas = th[g].pas
    PROVE  /\ Cardinality(Vol(th, p)) \in Nat /\ Cardinality(Vol(th2, p)) \in Nat
           /\ Cardinality(Vol(th2, p)) <= Cardinality(Vol(th, p)) + 1
           /\ th2[f].pas \notin {"prend", "verifie"} \/ th[f].pas \in {"prend", "verifie"}
                => Cardinality(Vol(th2, p)) <= Cardinality(Vol(th, p))
           /\ ProcDe[f] = p /\ th2[f].pas \notin {"prend", "verifie"} /\ th[f].pas \in {"prend", "verifie"}
                => Cardinality(Vol(th2, p)) = Cardinality(Vol(th, p)) - 1
<1> DEFINE A == Vol(th, p)
           B == Vol(th2, p)
<1>1. IsFiniteSet(A) /\ IsFiniteSet(B) /\ Cardinality(A) \in Nat /\ Cardinality(B) \in Nat
  BY DepartAssumption, FS_Subset, FS_CardinalityType DEF Vol
<1>2. B \subseteq A \cup {f}
  BY DEF Vol
<1>3. /\ th2[f].pas \notin {"prend", "verifie"} \/ th[f].pas \in {"prend", "verifie"} => B \subseteq A
      /\ ProcDe[f] = p /\ th2[f].pas \notin {"prend", "verifie"} /\ th[f].pas \in {"prend", "verifie"}
           => B = A \ {f} /\ f \in A
  BY DEF Vol
<1> HIDE DEF A, B
<1>4. IsFiniteSet(A \cup {f}) /\ Cardinality(A \cup {f}) <= Cardinality(A) + 1 /\ Cardinality(A \cup {f}) \in Nat
  <2>1. /\ IsFiniteSet(A \cup {f})
        /\ Cardinality(A \cup {f}) = IF f \in A THEN Cardinality(A) ELSE Cardinality(A) + 1
    BY <1>1, FS_AddElement
  <2> QED BY <1>1, <2>1
<1>5. Cardinality(B) <= Cardinality(A \cup {f})
  BY <1>2, <1>4, FS_Subset
<1>6. B \subseteq A => Cardinality(B) <= Cardinality(A)
  BY <1>1, FS_Subset
<1>7. B = A \ {f} /\ f \in A => Cardinality(B) = Cardinality(A) - 1
  BY <1>1, FS_RemoveElement
<1>8. Cardinality(B) <= Cardinality(A) + 1
  BY <1>1, <1>4, <1>5
<1> QED BY <1>1, <1>3, <1>6, <1>7, <1>8 DEF A, B

(* A call takes one step: its record changes, the others do not. *)
LEMMA PasFaits ==
    ASSUME Types, auteur' = auteur, NEW f \in Fils, NEW r \in Recepteurs(auteur), Pas(f, r),
           r.pas # "repos" => r.sur # Nul,
           r.pas \in {"verifie", "copie", "remet"} => r.message # Nul,
           r.id # Nul => r.pas = "copie"
    PROVE  /\ fil' \in [Fils -> Recepteurs(auteur')]
           /\ \A g \in Fils : /\ fil'[g].pas # "repos" => fil'[g].sur # Nul
                              /\ fil'[g].pas \in {"verifie", "copie", "remet"} => fil'[g].message # Nul
                              /\ fil'[g].id # Nul => fil'[g].pas = "copie"
           /\ fil'[f] = r /\ \A g \in Fils : g # f => fil'[g] = fil[g]
<1>1. fil \in [Fils -> Recepteurs(auteur)]
  BY DEF Types
<1>2. fil' \in [Fils -> Recepteurs(auteur')] /\ fil'[f] = r /\ \A g \in Fils : g # f => fil'[g] = fil[g]
  BY <1>1 DEF Pas
<1> QED BY <1>2 DEF Types

(* A step that leaves the tables and the ids alone keeps the register. *)
LEMMA RegistreFixe ==
    ASSUME IInv, UNCHANGED <<table, emis, clos, rendus>>, morts \subseteq morts',
           \A f \in Fils : fil'[f].id = fil[f].id
    PROVE  RegistreInv' /\ EnCoursInv' /\ VivantsInv'
<1>1. RegistreInv'
  BY DEF IInv, RegistreInv
<1>2. EnCoursInv'
  BY DEF IInv, EnCoursInv
<1>3. VivantsInv'
  BY DEF IInv, VivantsInv
<1> QED BY <1>1, <1>2, <1>3

(* What an id found by lookup is worth. *)
LEMMA LookupFaits ==
    ASSUME Types, DroitsInv, NEW p \in Procs, NEW id, Lookup(p, id) # Nul
    PROVE  /\ id \in Identifiants /\ Lookup(p, id) = table[p][id[1]].entree /\ Lookup(p, id) \in Entrees
           /\ Lookup(p, id).objet \in Extremites /\ Lookup(p, id).droits \in SUBSET Droits
           /\ PermisA(Lookup(p, id), p, auteur)
<1>1. id \in Identifiants /\ Lookup(p, id) = table[p][id[1]].entree /\ id[1] \in Slots
  BY DEF Lookup, Identifiants
<1>2. table[p][id[1]].entree \in Entrees \cup {Nul}
  BY <1>1 DEF Types, Tables, Cases
<1>3. Lookup(p, id) \in Entrees
  BY <1>1, <1>2
<1>4. Lookup(p, id).objet \in Extremites /\ Lookup(p, id).droits \in SUBSET Droits
  BY <1>3 DEF Entrees
<1>5. PermisA(Lookup(p, id), p, auteur)
  BY <1>1 DEF DroitsInv
<1> QED BY <1>1, <1>3, <1>4, <1>5

(* The invariant holds at the start. *)
LEMMA InitInv ==
    ASSUME Init
    PROVE  IInv
<1>1. /\ auteur = Crees /\ file = Attendent /\ fil = [f \in Fils |-> Repos] /\ morts = {} /\ appels = 0
      /\ table = [p \in Procs |-> [s \in Slots |->
            IF s <= Len(Donnes[p]) THEN [gen |-> 1, entree |-> Donnes[p][s]] ELSE [gen |-> 0, entree |-> Nul]]]
      /\ emis = [p \in Procs |-> {<<<<s, 1>>, Donnes[p][s].objet>> : s \in 1..Len(Donnes[p])}]
      /\ rendus = [p \in Procs |-> {<<s, 1>> : s \in 1..Len(Donnes[p])}] /\ clos = [p \in Procs |-> {}]
  BY DEF Init
<1>2. \A p \in Procs : /\ Len(Donnes[p]) \in Nat /\ 1..Len(Donnes[p]) \subseteq Slots
                       /\ \A s \in 1..Len(Donnes[p]) : /\ Donnes[p][s] \in Entrees /\ Donnes[p][s].objet \in Extremites
                                                       /\ Crees[Donnes[p][s].objet[1]] # Nul /\ <<s, 1>> \in Identifiants
  <2> TAKE p \in Procs
  <2>1. Donnes[p] \in Seq(Entrees) /\ Len(Donnes[p]) <= NbSlots
    BY DepartAssumption
  <2>2. Len(Donnes[p]) \in Nat /\ 1..Len(Donnes[p]) \subseteq Slots
    BY <2>1, HandlesAssumption DEF Slots
  <2>3. \A s \in 1..Len(Donnes[p]) : Donnes[p][s] \in Entrees /\ Donnes[p][s].objet \in Extremites /\ <<s, 1>> \in Identifiants
    <3> TAKE s \in 1..Len(Donnes[p])
    <3>1. Donnes[p][s] \in Entrees
      BY <2>1, ElementOfSeq
    <3>2. Donnes[p][s].objet \in Extremites
      BY <3>1 DEF Entrees
    <3>3. s \in Slots /\ 1 \in 1..GenMax
      BY <2>2, HandlesAssumption
    <3> QED BY <3>1, <3>2, <3>3 DEF Identifiants
  <2> QED BY <2>2, <2>3, DepartAssumption
<1>3. \A p \in Procs, s \in Slots :
          /\ s \in 1..Len(Donnes[p]) => table[p][s] = [gen |-> 1, entree |-> Donnes[p][s]]
          /\ s \notin 1..Len(Donnes[p]) => table[p][s] = [gen |-> 0, entree |-> Nul]
  BY <1>1, <1>2 DEF Slots
<1>4. Types
  <2>1. table \in [Procs -> Tables]
    <3>1. \A p \in Procs, s \in Slots : table[p][s] \in Cases
      <4> TAKE p \in Procs, s \in Slots
      <4>1. 0 \in 0..GenMax /\ 1 \in 0..GenMax
        BY HandlesAssumption
      <4>2. CASE s \in 1..Len(Donnes[p])
        <5>1. Donnes[p][s] \in Entrees
          BY <1>2, <4>2
        <5>2. table[p][s] = [gen |-> 1, entree |-> Donnes[p][s]]
          BY <1>3, <4>2
        <5> QED BY <4>1, <5>1, <5>2 DEF Cases
      <4>3. CASE s \notin 1..Len(Donnes[p])
        <5>1. table[p][s] = [gen |-> 0, entree |-> Nul]
          BY <1>3, <4>3
        <5> QED BY <4>1, <5>1 DEF Cases
      <4> QED BY <4>2, <4>3
    <3>2. \A p \in Procs : table[p] \in Tables
      BY <1>1, <3>1 DEF Tables
    <3> QED BY <1>1, <3>2
  <2>2. auteur \in [Canaux -> Procs \cup {Nul}] /\ \A c \in Canaux : Crees[c] # Nul => auteur[c] = Crees[c]
    BY <1>1, DepartAssumption
  <2>3. file \in [Extremites -> Seq(Courrier(auteur))]
    <3>1. ASSUME NEW e \in Extremites PROVE Attendent[e] \in Seq(Courrier(Crees))
      <4>1. Attendent[e] \in Seq(Messages)
        BY DepartAssumption
      <4>2. ASSUME NEW i \in 1..Len(Attendent[e]) PROVE Attendent[e][i] \in Courrier(Crees)
        <5>1. Attendent[e][i] \in Messages
          BY <4>1
        <5>2. Attendent[e][i].transfere # Nul => Crees[Attendent[e][i].transfere.objet[1]] # Nul
          BY DepartAssumption
        <5> QED BY <5>1, <5>2 DEF Courrier, Permis
      <4> QED BY <4>1, <4>2
    <3> QED BY <1>1, <3>1, DepartAssumption
  <2>4. Repos \in Recepteurs(auteur)
    BY DEF Repos, Recepteurs
  <2>5. fil \in [Fils -> Recepteurs(auteur)] /\ \A f \in Fils : fil[f] = Repos
    BY <1>1, <2>4
  <2>6. \A p \in Procs : emis[p] \in SUBSET (Identifiants \X Extremites) /\ rendus[p] \in SUBSET Identifiants /\ clos[p] = {}
    BY <1>1, <1>2
  <2>7. /\ emis \in [Procs -> SUBSET (Identifiants \X Extremites)]
        /\ rendus \in [Procs -> SUBSET Identifiants] /\ clos \in [Procs -> SUBSET Identifiants]
    BY <1>1, <2>6
  <2> QED BY <1>1, <2>1, <2>2, <2>3, <2>5, <2>7, HandlesAssumption DEF Types, Repos
<1>5. DroitsInv
  BY <1>1, <1>2, <1>3, ZenonT(30) DEF DroitsInv, PermisA
<1>6. GenInv
  <2>1. ASSUME NEW p \in Procs PROVE Cardinality(Vol(fil, p)) = 0
    <3>1. Vol(fil, p) = {}
      BY <1>1 DEF Vol, Repos
    <3> QED BY <3>1, FS_EmptySet
  <2> QED BY <1>1, <1>3, <2>1 DEF GenInv
<1>7. RegistreInv
  <2> SUFFICES ASSUME NEW p \in Procs PROVE Registre(table[p], emis[p], clos[p], rendus[p])
    BY DEF RegistreInv
  <2>1. /\ emis[p] = {<<<<s, 1>>, Donnes[p][s].objet>> : s \in 1..Len(Donnes[p])}
        /\ rendus[p] = {<<s, 1>> : s \in 1..Len(Donnes[p])} /\ clos[p] = {}
    BY <1>1
  <2>2. \A s \in 1..Len(Donnes[p]) : s \in Slots /\ table[p][s].gen = 1 /\ table[p][s].entree = Donnes[p][s]
    <3> TAKE s \in 1..Len(Donnes[p])
    <3>1. s \in Slots
      BY <1>2
    <3>2. table[p][s] = [gen |-> 1, entree |-> Donnes[p][s]]
      BY <1>3, <3>1
    <3> QED BY <3>1, <3>2
  <2>3. \A s \in Slots : table[p][s].entree # Nul => s \in 1..Len(Donnes[p])
    <3> TAKE s \in Slots
    <3>1. s \notin 1..Len(Donnes[p]) => table[p][s] = [gen |-> 0, entree |-> Nul]
      BY <1>3
    <3> QED BY <3>1
  <2>4. ASSUME NEW x \in emis[p] PROVE \E s \in 1..Len(Donnes[p]) : x = <<<<s, 1>>, Donnes[p][s].objet>>
    BY <2>1
  <2>5. \A x \in emis[p] : x[1][2] <= table[p][x[1][1]].gen
    BY <2>2, <2>4
  <2>6. \A x, y \in emis[p] : x[1] = y[1] => x[2] = y[2]
    BY <2>4
  <2>7. \A s \in Slots : table[p][s].entree # Nul =>
            <<<<s, table[p][s].gen>>, table[p][s].entree.objet>> \in emis[p] /\ <<s, table[p][s].gen>> \notin clos[p]
    BY <2>1, <2>2, <2>3
  <2>8. ASSUME NEW id \in clos[p] \cup rendus[p] PROVE \E x \in emis[p] : x[1] = id
    <3>1. PICK s \in 1..Len(Donnes[p]) : id = <<s, 1>>
      BY <2>1
    <3>2. <<<<s, 1>>, Donnes[p][s].objet>> \in emis[p]
      BY <2>1
    <3>3. <<<<s, 1>>, Donnes[p][s].objet>>[1] = <<s, 1>>
      OBVIOUS
    <3> QED BY <3>1, <3>2, <3>3
  <2> QED BY <2>5, <2>6, <2>7, <2>8 DEF Registre
<1>8. EnCoursInv
  BY <1>1 DEF EnCoursInv, Repos
<1>9. VivantsInv
  <2>1. ASSUME NEW p \in Procs, NEW id \in rendus[p] PROVE Vivant(table[p], id)
    <3>1. PICK s \in 1..Len(Donnes[p]) : id = <<s, 1>>
      BY <1>1
    <3>2. s \in Slots /\ table[p][s] = [gen |-> 1, entree |-> Donnes[p][s]] /\ Donnes[p][s] # Nul
      BY <1>2, <1>3, DepartAssumption, SMTT(30)
    <3> QED BY <3>1, <3>2 DEF Vivant
  <2> QED BY <1>1, <2>1 DEF VivantsInv, Repos
<1> QED BY <1>4, <1>5, <1>6, <1>7, <1>8, <1>9 DEF IInv

----------------------------------------------------------------------------
(* Steps *)

(* A channel that gets its author changes nothing of what the others carry. *)
LEMMA PermisMonte ==
    ASSUME NEW au, NEW bu, \A c \in Canaux : au[c] # Nul => bu[c] = au[c]
    PROVE  /\ \A x \in Entrees, p \in Procs : PermisA(x, p, au) => PermisA(x, p, bu)
           /\ Courrier(au) \subseteq Courrier(bu)
           /\ Recepteurs(au) \subseteq Recepteurs(bu)
           /\ Seq(Courrier(au)) \subseteq Seq(Courrier(bu))
<1>1. \A x \in Entrees : x.objet[1] \in Canaux
  BY DEF Entrees, Extremites
<1>2. \A x \in Entrees, p \in Procs : PermisA(x, p, au) => PermisA(x, p, bu)
  BY <1>1 DEF PermisA
<1>3. \A x \in Entrees : Permis(x, au) => Permis(x, bu)
  BY <1>1 DEF Permis
<1>4. \A m \in Messages : m.transfere \in Entrees \cup {Nul}
  BY DEF Messages
<1>5. Courrier(au) \subseteq Courrier(bu)
  BY <1>3, <1>4 DEF Courrier
<1>6. Recepteurs(au) \subseteq Recepteurs(bu)
  BY <1>5 DEF Recepteurs
<1>7. Seq(Courrier(au)) \subseteq Seq(Courrier(bu))
  <2> DEFINE A == Courrier(au)
             B == Courrier(bu)
  <2>1. A \subseteq B
    BY <1>5
  <2> HIDE DEF A, B
  <2>2. Seq(A) \subseteq Seq(B)
    BY <2>1
  <2> QED BY <2>2 DEF A, B
<1> QED BY <1>2, <1>5, <1>6, <1>7

(* A step that leaves the tables, the ids and the authors alone. *)
LEMMA Calme ==
    ASSUME IInv, UNCHANGED <<table, auteur, morts, emis, rendus, clos>>,
           file' \in [Extremites -> Seq(Courrier(auteur))],
           NEW f \in Fils, NEW r \in Recepteurs(auteur), Pas(f, r),
           r.pas # "repos" => r.sur # Nul,
           r.pas \in {"verifie", "copie", "remet"} => r.message # Nul,
           r.id # Nul => r.pas = "copie", r.id = fil[f].id,
           \/ appels' = appels /\ (r.pas \notin {"prend", "verifie"} \/ fil[f].pas \in {"prend", "verifie"})
           \/ appels' = appels + 1 /\ appels < MaxAppels
    PROVE  IInv'
<1>1. Types /\ GenInv /\ DroitsInv
  BY DEF IInv
<1>2. /\ fil' \in [Fils -> Recepteurs(auteur')]
      /\ \A g \in Fils : /\ fil'[g].pas # "repos" => fil'[g].sur # Nul
                         /\ fil'[g].pas \in {"verifie", "copie", "remet"} => fil'[g].message # Nul
                         /\ fil'[g].id # Nul => fil'[g].pas = "copie"
      /\ fil'[f] = r /\ \A g \in Fils : g # f => fil'[g] = fil[g]
  BY <1>1, PasFaits
<1>3. appels \in 0..MaxAppels /\ appels' \in 0..MaxAppels
  BY <1>1, HandlesAssumption DEF Types
<1>4. Types'
  BY <1>1, <1>2, <1>3 DEF Types
<1>5. DroitsInv'
  BY <1>1 DEF DroitsInv
<1>6. \A g \in Fils : fil'[g].id = fil[g].id
  BY <1>2
<1>7. RegistreInv' /\ EnCoursInv' /\ VivantsInv'
  BY <1>6, RegistreFixe
<1>8. GenInv'
  <2> SUFFICES ASSUME NEW p \in Procs, NEW s \in Slots
               PROVE  table[p][s].gen + Cardinality(Vol(fil', p)) <= appels' + 1
    BY DEF GenInv
  <2>1. table[p][s].gen + Cardinality(Vol(fil, p)) <= appels + 1 /\ table[p][s].gen \in Nat
    BY <1>1, HandlesAssumption DEF GenInv, Types, Tables, Cases
  <2>2. \A g \in Fils : g # f => fil'[g].pas = fil[g].pas
    BY <1>2
  <2>3. /\ Cardinality(Vol(fil, p)) \in Nat /\ Cardinality(Vol(fil', p)) \in Nat
        /\ Cardinality(Vol(fil', p)) <= Cardinality(Vol(fil, p)) + 1
        /\ (fil'[f].pas \notin {"prend", "verifie"} \/ fil[f].pas \in {"prend", "verifie"})
             => Cardinality(Vol(fil', p)) <= Cardinality(Vol(fil, p))
    BY <2>2, VolSuite
  <2> HIDE DEF Vol
  <2> QED BY <1>2, <1>3, <2>1, <2>3, SMTT(30)
<1> QED BY <1>4, <1>5, <1>7, <1>8 DEF IInv

(* What a step on the table and the ids of process p has to show: of the threads th, *)
FilsDe(p, th) ==
    /\ th \in [Fils -> Recepteurs(auteur)]
    /\ \A g \in Fils : /\ th[g].pas # "repos" => th[g].sur # Nul
                       /\ th[g].pas \in {"verifie", "copie", "remet"} => th[g].message # Nul
                       /\ th[g].id # Nul => th[g].pas = "copie"
    /\ \A g \in Fils : ProcDe[g] # p => th[g] = fil[g]

(* of the table tp, au being the authors and n the calls begun, *)
TableDe(p, tp, th, au, n) ==
    /\ tp \in Tables
    /\ \A s \in Slots : tp[s].entree # Nul => PermisA(tp[s].entree, p, au)
    /\ \A s \in Slots : tp[s].gen + Cardinality(Vol(th, p)) <= n + 1

(* of the ids installed ep, closed cp and returned rp, md being the dead processes, *)
IdsDe(p, tp, ep, cp, rp, th, md) ==
    /\ ep \in SUBSET (Identifiants \X Extremites) /\ cp \in SUBSET Identifiants /\ rp \in SUBSET Identifiants
    /\ Registre(tp, ep, cp, rp)
    /\ \A g \in Fils : ProcDe[g] = p /\ th[g].id # Nul =>
           /\ th[g].id \notin rp /\ \E x \in ep : x[1] = th[g].id
           /\ p \notin md /\ th[g].id \notin cp => Vivant(tp, th[g].id)
    /\ \A g, h \in Fils : g # h /\ ProcDe[g] = p /\ ProcDe[h] = p /\ th[g].id # Nul => th[g].id # th[h].id
    /\ p \notin md => \A id \in rp \ cp : Vivant(tp, id)

(* and of the rest. *)
ResteDe(au, md, n) ==
    /\ au \in [Canaux -> Procs \cup {Nul}] /\ \A c \in Canaux : auteur[c] # Nul => au[c] = auteur[c]
    /\ morts \subseteq md /\ md \subseteq Procs /\ n \in 0..MaxAppels /\ appels <= n

(* Then it keeps the invariant. *)
LEMMA UnProcessus ==
    ASSUME IInv, NEW p \in Procs, NEW tp, NEW ep, NEW cp, NEW rp,
           table' = [table EXCEPT ![p] = tp], emis' = [emis EXCEPT ![p] = ep],
           clos' = [clos EXCEPT ![p] = cp], rendus' = [rendus EXCEPT ![p] = rp], file' = file,
           FilsDe(p, fil'), TableDe(p, tp, fil', auteur', appels'),
           IdsDe(p, tp, ep, cp, rp, fil', morts'), ResteDe(auteur', morts', appels')
    PROVE  IInv'
<1> USE DEF FilsDe, TableDe, IdsDe, ResteDe
<1>1. /\ table \in [Procs -> Tables] /\ emis \in [Procs -> SUBSET (Identifiants \X Extremites)]
      /\ rendus \in [Procs -> SUBSET Identifiants] /\ clos \in [Procs -> SUBSET Identifiants]
      /\ fil \in [Fils -> Recepteurs(auteur)] /\ file \in [Extremites -> Seq(Courrier(auteur))]
      /\ appels \in Nat
  BY HandlesAssumption DEF IInv, Types
<1>2. table'[p] = tp /\ emis'[p] = ep /\ clos'[p] = cp /\ rendus'[p] = rp
  BY <1>1
<1>3. \A q \in Procs : q # p => table'[q] = table[q] /\ emis'[q] = emis[q] /\ clos'[q] = clos[q] /\ rendus'[q] = rendus[q]
  BY <1>1
<1>4. Types'
  <2>1. table' \in [Procs -> Tables]
    BY <1>1
  <2>2. /\ emis' \in [Procs -> SUBSET (Identifiants \X Extremites)]
        /\ rendus' \in [Procs -> SUBSET Identifiants] /\ clos' \in [Procs -> SUBSET Identifiants]
    BY <1>1
  <2>3. \A c \in Canaux : Crees[c] # Nul => auteur'[c] = Crees[c]
    BY DEF IInv, Types
  <2>4. Seq(Courrier(auteur)) \subseteq Seq(Courrier(auteur')) /\ Recepteurs(auteur) \subseteq Recepteurs(auteur')
    BY PermisMonte
  <2>5. file' \in [Extremites -> Seq(Courrier(auteur'))]
    BY <1>1, <2>4
  <2>6. fil' \in [Fils -> Recepteurs(auteur')]
    BY <2>4
  <2> QED BY <2>1, <2>2, <2>3, <2>5, <2>6 DEF Types
<1>5. DroitsInv'
  <2> SUFFICES ASSUME NEW q \in Procs, NEW s \in Slots, table'[q][s].entree # Nul
               PROVE  PermisA(table'[q][s].entree, q, auteur')
    BY DEF DroitsInv
  <2>1. CASE q = p
    BY <1>2, <2>1
  <2>2. CASE q # p
    <3>1. table'[q][s].entree = table[q][s].entree
      BY <1>3, <2>2
    <3>2. table[q][s].entree \in Entrees /\ PermisA(table[q][s].entree, q, auteur)
      BY <1>1, <3>1 DEF IInv, DroitsInv, Tables, Cases
    <3> QED BY <3>1, <3>2, PermisMonte
  <2> QED BY <2>1, <2>2
<1>6. GenInv'
  <2> SUFFICES ASSUME NEW q \in Procs, NEW s \in Slots
               PROVE  table'[q][s].gen + Cardinality(Vol(fil', q)) <= appels' + 1
    BY DEF GenInv
  <2>1. CASE q = p
    BY <1>2, <2>1
  <2>2. CASE q # p
    <3>1. Vol(fil', q) = Vol(fil, q)
      BY <2>2 DEF Vol
    <3>2. table[q][s].gen + Cardinality(Vol(fil, q)) <= appels + 1
      BY DEF IInv, GenInv
    <3>3. table[q][s].gen \in Nat /\ Cardinality(Vol(fil, q)) \in Nat
      <4>1. IsFiniteSet(Vol(fil, q))
        BY DepartAssumption, FS_Subset DEF Vol
      <4>2. Cardinality(Vol(fil, q)) \in Nat
        BY <4>1, FS_CardinalityType
      <4> QED BY <1>1, <4>2, HandlesAssumption DEF Tables, Cases
    <3>4. table'[q][s].gen = table[q][s].gen
      BY <1>3, <2>2
    <3> HIDE DEF Vol
    <3>5. appels' \in Nat
      BY HandlesAssumption
    <3> QED BY <1>1, <3>1, <3>2, <3>3, <3>4, <3>5
  <2> QED BY <2>1, <2>2
<1>7. RegistreInv'
  <2> SUFFICES ASSUME NEW q \in Procs PROVE Registre(table'[q], emis'[q], clos'[q], rendus'[q])
    BY DEF RegistreInv
  <2> QED BY <1>2, <1>3 DEF IInv, RegistreInv
<1>8. \A g \in Fils : ProcDe[g] \in Procs
  BY HandlesAssumption
<1>9. EnCoursInv'
  <2>1. ASSUME NEW g \in Fils, fil'[g].id # Nul
        PROVE  fil'[g].id \notin rendus'[ProcDe[g]] /\ \E x \in emis'[ProcDe[g]] : x[1] = fil'[g].id
    <3>1. CASE ProcDe[g] = p
      BY <1>2, <2>1, <3>1
    <3>2. CASE ProcDe[g] # p
      BY <1>3, <1>8, <2>1, <3>2 DEF IInv, EnCoursInv
    <3> QED BY <3>1, <3>2
  <2>2. ASSUME NEW g \in Fils, NEW h \in Fils, g # h, ProcDe[g] = ProcDe[h], fil'[g].id # Nul
        PROVE  fil'[g].id # fil'[h].id
    <3>1. CASE ProcDe[g] = p
      BY <2>2, <3>1
    <3>2. CASE ProcDe[g] # p
      BY <2>2, <3>2 DEF IInv, EnCoursInv
    <3> QED BY <3>1, <3>2
  <2> QED BY <2>1, <2>2 DEF EnCoursInv
<1>10. VivantsInv'
  <2>1. ASSUME NEW q \in Procs \ morts', NEW id \in rendus'[q] \ clos'[q] PROVE Vivant(table'[q], id)
    <3>1. CASE q = p
      BY <1>2, <2>1, <3>1
    <3>2. CASE q # p
      BY <1>3, <2>1, <3>2 DEF IInv, VivantsInv
    <3> QED BY <3>1, <3>2
  <2>2. ASSUME NEW g \in Fils, fil'[g].id # Nul, ProcDe[g] \notin morts', fil'[g].id \notin clos'[ProcDe[g]]
        PROVE  Vivant(table'[ProcDe[g]], fil'[g].id)
    <3>1. CASE ProcDe[g] = p
      BY <1>2, <2>2, <3>1
    <3>2. CASE ProcDe[g] # p
      BY <1>3, <1>8, <2>2, <3>2 DEF IInv, VivantsInv
    <3> QED BY <3>1, <3>2
  <2> QED BY <2>1, <2>2 DEF VivantsInv
<1> QED BY <1>4, <1>5, <1>6, <1>7, <1>9, <1>10 DEF IInv

----------------------------------------------------------------------------
(* The calls that leave the tables alone *)

(* channel_send passes on what its mask and the author's allow. *)
LEMMA EnvoisPermis ==
    ASSUME Types, DroitsInv, NEW p \in Procs, NEW e, NEW x \in Envois(p, e), x # Nul
    PROVE  x \in Entrees /\ Permis(x, auteur)
<1>1. PICK y \in Ids(p) \X Masques[p] :
          /\ Detient(p, y[1], "TRANSFER")
          /\ x = [objet |-> Lookup(p, y[1]).objet, droits |-> VerifieTransfert(Lookup(p, y[1]).droits, y[2])]
  BY DEF Envois
<1> DEFINE l == Lookup(p, y[1])
<1>2. l \in Entrees /\ l.objet \in Extremites /\ l.droits \in SUBSET Droits /\ PermisA(l, p, auteur)
  BY <1>1, LookupFaits DEF Detient
<1> HIDE DEF l
<1>3. x.objet = l.objet /\ x.droits = l.droits \cap y[2]
  BY <1>1 DEF l, VerifieTransfert
<1>4. x \in Entrees
  BY <1>1, <1>2 DEF l, VerifieTransfert, Entrees
<1>5. auteur[x.objet[1]] # Nul
  BY <1>2, <1>3 DEF PermisA
<1>6. ASSUME Crees[x.objet[1]] = Nul PROVE x.droits \subseteq UNION Masques[auteur[x.objet[1]]]
  <2>1. CASE auteur[x.objet[1]] = p
    BY <1>1, <1>3, <2>1
  <2>2. CASE auteur[x.objet[1]] # p
    BY <1>2, <1>3, <1>6, <2>2 DEF PermisA
  <2> QED BY <2>1, <2>2
<1> QED BY <1>4, <1>5, <1>6 DEF Permis

(* The other end of an end is an end. *)
LEMMA PairExtremite ==
    ASSUME NEW e \in Extremites
    PROVE  Pair(e) \in Extremites
  BY DEF Pair, Extremites

(* peer is its own inverse. *)
LEMMA PairDePair ==
    ASSUME NEW e \in Extremites
    PROVE  Pair(Pair(e)) = e
  BY DEF Pair, Extremites

(* A queue that gains or loses a message. *)
LEMMA UneFile ==
    ASSUME Types, NEW e \in Extremites, NEW q \in Seq(Courrier(auteur)), file' = [file EXCEPT ![e] = q]
    PROVE  file' \in [Extremites -> Seq(Courrier(auteur))]
  BY DEF Types

(* The thread of a call and its record. *)
LEMMA FilFaits ==
    ASSUME Types, NEW f \in Fils
    PROVE  /\ ProcDe[f] \in Procs /\ fil[f] \in Recepteurs(auteur)
           /\ fil[f].pas \in {"repos", "prend", "verifie", "copie", "remet"} /\ fil[f].sur \in Extremites \cup {Nul}
           /\ fil[f].place \in {0, 1} /\ fil[f].message \in Courrier(auteur) \cup {Nul}
           /\ fil[f].id \in Identifiants \cup {Nul}
           /\ fil[f].pas # "repos" => fil[f].sur \in Extremites
           /\ fil[f].pas \in {"verifie", "copie", "remet"} => fil[f].message \in Courrier(auteur)
           /\ fil[f].id # Nul => fil[f].pas = "copie"
<1>1. ProcDe[f] \in Procs /\ fil[f] \in Recepteurs(auteur)
  BY HandlesAssumption DEF Types
<1>2. /\ fil[f].pas \in {"repos", "prend", "verifie", "copie", "remet"} /\ fil[f].sur \in Extremites \cup {Nul}
      /\ fil[f].place \in {0, 1} /\ fil[f].message \in Courrier(auteur) \cup {Nul}
      /\ fil[f].id \in Identifiants \cup {Nul}
  BY <1>1 DEF Recepteurs
<1>3. /\ fil[f].pas # "repos" => fil[f].sur # Nul
      /\ fil[f].pas \in {"verifie", "copie", "remet"} => fil[f].message # Nul
      /\ fil[f].id # Nul => fil[f].pas = "copie"
  BY DEF Types
<1> QED BY <1>1, <1>2, <1>3

(* Between two calls a thread has no receive. *)
LEMMA ReposFaits ==
    /\ \A au : Repos \in Recepteurs(au)
    /\ Repos.pas = "repos" /\ Repos.id = Nul
  BY DEF Repos, Recepteurs

(* A send. *)
LEMMA SendInv ==
    ASSUME IInv, NEW f \in Fils, Send(f)
    PROVE  IInv'
<1> DEFINE p == ProcDe[f]
<1>1. Types /\ DroitsInv
  BY DEF IInv
<1>2. p \in Procs /\ fil[f] \in Recepteurs(auteur)
  BY <1>1, FilFaits
<1>3. appels < MaxAppels /\ appels' = appels + 1 /\ fil[f].pas = "repos"
  BY DEF Send, Appelle
<1>4. UNCHANGED <<table, auteur, fil, morts, emis, rendus, clos>>
  BY DEF Send
<1>5. PICK id \in Ids(p) :
          /\ Detient(p, id, "WRITE")
          /\ \E x \in Envois(p, Lookup(p, id).objet) :
                file' = [file EXCEPT ![Pair(Lookup(p, id).objet)] = Append(@, [numero |-> appels', transfere |-> x])]
  BY DEF Send
<1> DEFINE e == Lookup(p, id).objet
           d == Pair(e)
<1>6. PICK x \in Envois(p, e) : file' = [file EXCEPT ![d] = Append(@, [numero |-> appels', transfere |-> x])]
  BY <1>5
<1>7. e \in Extremites /\ d \in Extremites
  BY <1>1, <1>2, <1>5, LookupFaits, PairExtremite DEF Detient
<1>8. [numero |-> appels', transfere |-> x] \in Courrier(auteur)
  <2>1. appels' \in Numeros
    BY <1>1, <1>3, HandlesAssumption DEF Types, Numeros
  <2>2. x # Nul => x \in Entrees /\ Permis(x, auteur)
    BY <1>1, <1>2, EnvoisPermis
  <2> QED BY <2>1, <2>2 DEF Courrier, Messages
<1> HIDE DEF e, d
<1>9. file[d] \in Seq(Courrier(auteur))
  BY <1>1, <1>7 DEF Types
<1>10. Append(file[d], [numero |-> appels', transfere |-> x]) \in Seq(Courrier(auteur))
  BY <1>8, <1>9, AppendProperties
<1>11. file' \in [Extremites -> Seq(Courrier(auteur))]
  BY <1>1, <1>6, <1>7, <1>10, UneFile
<1>12. Pas(f, fil[f])
  BY <1>1, <1>4 DEF Pas, Types
<1>13. fil[f].id = Nul
  BY <1>1, <1>3, FilFaits
<1> QED BY <1>2, <1>3, <1>4, <1>11, <1>12, <1>13, Calme

(* The start of a receive. *)
LEMMA RecvDebutInv ==
    ASSUME IInv, NEW f \in Fils, RecvDebut(f)
    PROVE  IInv'
<1> DEFINE p == ProcDe[f]
<1>1. Types /\ DroitsInv
  BY DEF IInv
<1>2. p \in Procs
  BY <1>1, FilFaits
<1>3. appels < MaxAppels /\ appels' = appels + 1 /\ fil[f].pas = "repos"
  BY DEF RecvDebut, Appelle
<1>4. UNCHANGED <<table, file, auteur, morts, emis, rendus, clos>>
  BY DEF RecvDebut
<1>5. PICK id \in Ids(p) : \E place \in {0, 1} :
          /\ Detient(p, id, "READ")
          /\ Pas(f, [Repos EXCEPT !.pas = "prend", !.sur = Lookup(p, id).objet, !.place = place])
  BY DEF RecvDebut
<1>6. PICK place \in {0, 1} :
          /\ Detient(p, id, "READ")
          /\ Pas(f, [Repos EXCEPT !.pas = "prend", !.sur = Lookup(p, id).objet, !.place = place])
  BY <1>5
<1>7. Lookup(p, id).objet \in Extremites
  BY <1>1, <1>2, <1>6, LookupFaits DEF Detient
<1> DEFINE r == [Repos EXCEPT !.pas = "prend", !.sur = Lookup(p, id).objet, !.place = place]
<1>8. r \in Recepteurs(auteur) /\ r.pas = "prend" /\ r.sur \in Extremites /\ r.id = Nul
  BY <1>7 DEF Repos, Recepteurs
<1>9. r.sur # Nul
  BY <1>8, DepartAssumption
<1>10. Pas(f, r)
  BY <1>6
<1>11. fil[f].id = Nul
  BY <1>1, <1>3, FilFaits
<1>12. file' \in [Extremites -> Seq(Courrier(auteur))]
  BY <1>1, <1>4 DEF Types
<1> HIDE DEF r
<1> QED BY <1>3, <1>4, <1>8, <1>9, <1>10, <1>11, <1>12, Calme

(* Taking the front of the queue. *)
LEMMA RecvPrendInv ==
    ASSUME IInv, NEW f \in Fils, RecvPrend(f)
    PROVE  IInv'
<1> DEFINE e == fil[f].sur
<1>1. Types /\ fil[f].pas = "prend" /\ UNCHANGED <<table, auteur, morts, appels, emis, rendus, clos>>
  BY DEF IInv, RecvPrend, histoire
<1>2. /\ e \in Extremites /\ e # Nul /\ fil[f].id = Nul /\ fil[f] \in Recepteurs(auteur) /\ fil[f].place \in {0, 1}
  BY <1>1, FilFaits, DepartAssumption
<1>3. file \in [Extremites -> Seq(Courrier(auteur))] /\ file[e] \in Seq(Courrier(auteur))
  BY <1>1, <1>2 DEF Types
<1>4. CASE file[e] = <<>>
  <2>1. Pas(f, Repos) /\ file' = file
    BY <1>4 DEF RecvPrend
  <2> QED BY <1>1, <1>2, <1>3, <2>1, ReposFaits, Calme
<1>5. CASE file[e] # <<>>
  <2> DEFINE m == Head(file[e])
             k == IF TropGrand(m, fil[f].place) THEN "remet" ELSE "verifie"
             r == [fil[f] EXCEPT !.message = m, !.pas = k]
  <2>1. file' = [file EXCEPT ![e] = Tail(@)] /\ Pas(f, r)
    BY <1>5 DEF RecvPrend
  <2>2. m \in Courrier(auteur) /\ Tail(file[e]) \in Seq(Courrier(auteur))
    BY <1>3, <1>5, HeadTailProperties
  <2>3. file' \in [Extremites -> Seq(Courrier(auteur))]
    BY <1>1, <1>2, <2>1, <2>2, UneFile
  <2>4. k \in {"remet", "verifie"} /\ m # Nul
    BY <2>2, DepartAssumption DEF Courrier
  <2> HIDE DEF m, k
  <2>5. r \in Recepteurs(auteur) /\ r.pas = k /\ r.sur = e /\ r.message = m /\ r.id = fil[f].id
    BY <1>2, <2>2, <2>4 DEF Recepteurs
  <2> HIDE DEF r, e
  <2> QED BY <1>1, <1>2, <2>1, <2>3, <2>4, <2>5, Calme
<1> QED BY <1>4, <1>5

(* The preflight refuses. *)
LEMMA RecvRefuseInv ==
    ASSUME IInv, NEW f \in Fils, RecvRefuse(f)
    PROVE  IInv'
<1>1. /\ Types /\ fil[f].pas = "verifie" /\ UNCHANGED <<table, file, auteur, morts, appels, emis, rendus, clos>>
      /\ Pas(f, [fil[f] EXCEPT !.pas = "remet"])
  BY DEF IInv, RecvRefuse, histoire
<1>2. /\ fil[f].sur \in Extremites /\ fil[f].message \in Courrier(auteur) /\ fil[f].id = Nul
      /\ fil[f] \in Recepteurs(auteur)
  BY <1>1, FilFaits
<1>3. fil[f].sur # Nul /\ fil[f].message # Nul
  BY <1>2, DepartAssumption DEF Courrier
<1> DEFINE r == [fil[f] EXCEPT !.pas = "remet"]
<1>4. /\ r \in Recepteurs(auteur) /\ r.pas = "remet" /\ r.sur = fil[f].sur
      /\ r.message = fil[f].message /\ r.id = fil[f].id
  BY <1>2 DEF Recepteurs
<1>5. file' \in [Extremites -> Seq(Courrier(auteur))] /\ Pas(f, r)
  BY <1>1 DEF Types
<1> HIDE DEF r
<1> QED BY <1>1, <1>2, <1>3, <1>4, <1>5, Calme

(* The message given back. *)
LEMMA RequeueFrontInv ==
    ASSUME IInv, NEW f \in Fils, RequeueFront(f)
    PROVE  IInv'
<1> DEFINE e == fil[f].sur
           m == fil[f].message
<1>1. /\ Types /\ fil[f].pas = "remet" /\ UNCHANGED <<table, auteur, morts, appels, emis, rendus, clos>>
      /\ Pas(f, Repos) /\ file' = [file EXCEPT ![e] = <<m>> \o @]
  BY DEF IInv, RequeueFront, histoire, Devant
<1>2. e \in Extremites /\ m \in Courrier(auteur) /\ fil[f].id = Nul
  BY <1>1, FilFaits
<1>3. file[e] \in Seq(Courrier(auteur))
  BY <1>1, <1>2 DEF Types
<1>4. <<m>> \in Seq(Courrier(auteur))
  BY <1>2
<1>5. <<m>> \o file[e] \in Seq(Courrier(auteur))
  BY <1>3, <1>4, ConcatProperties
<1>6. file' \in [Extremites -> Seq(Courrier(auteur))]
  BY <1>1, <1>2, <1>5, UneFile
<1> QED BY <1>1, <1>2, <1>6, ReposFaits, Calme

----------------------------------------------------------------------------
(* The calls that change a table *)

(* What the invariant says of one process. *)
LEMMA DuProcessus ==
    ASSUME IInv, NEW p \in Procs
    PROVE  /\ table[p] \in Tables /\ emis[p] \in SUBSET (Identifiants \X Extremites)
           /\ clos[p] \in SUBSET Identifiants /\ rendus[p] \in SUBSET Identifiants
           /\ Registre(table[p], emis[p], clos[p], rendus[p])
           /\ \A s \in Slots : table[p][s].entree # Nul => PermisA(table[p][s].entree, p, auteur)
           /\ \A g \in Fils : ProcDe[g] = p /\ fil[g].id # Nul =>
                 /\ fil[g].id \in Identifiants /\ fil[g].id \notin rendus[p]
                 /\ \E x \in emis[p] : x[1] = fil[g].id
                 /\ p \notin morts /\ fil[g].id \notin clos[p] => Vivant(table[p], fil[g].id)
           /\ \A g, h \in Fils : g # h /\ ProcDe[g] = p /\ ProcDe[h] = p /\ fil[g].id # Nul => fil[g].id # fil[h].id
           /\ p \notin morts => \A id \in rendus[p] \ clos[p] : Vivant(table[p], id)
           /\ \A id \in Ids(p) : id \in Identifiants /\ \E x \in emis[p] : x[1] = id
<1>1. Types /\ DroitsInv /\ RegistreInv /\ EnCoursInv /\ VivantsInv
  BY DEF IInv
<1>2. /\ table[p] \in Tables /\ emis[p] \in SUBSET (Identifiants \X Extremites)
      /\ clos[p] \in SUBSET Identifiants /\ rendus[p] \in SUBSET Identifiants
  BY <1>1 DEF Types
<1>3. \A id \in Ids(p) : id \in Identifiants /\ \E x \in emis[p] : x[1] = id
  BY <1>2 DEF Ids
<1>4. \A g \in Fils : fil[g].id # Nul => fil[g].id \in Identifiants
  BY <1>1, FilFaits
<1> QED BY <1>1, <1>2, <1>3, <1>4 DEF DroitsInv, RegistreInv, EnCoursInv, VivantsInv

(* What it says of the records of the threads. *)
LEMMA DesFils ==
    ASSUME IInv
    PROVE  /\ fil \in [Fils -> Recepteurs(auteur)] /\ morts \subseteq Procs /\ appels \in 0..MaxAppels /\ appels \in Nat
           /\ auteur \in [Canaux -> Procs \cup {Nul}]
           /\ table \in [Procs -> Tables] /\ emis \in [Procs -> SUBSET (Identifiants \X Extremites)]
           /\ rendus \in [Procs -> SUBSET Identifiants] /\ clos \in [Procs -> SUBSET Identifiants]
           /\ \A g \in Fils : /\ fil[g].pas # "repos" => fil[g].sur # Nul
                              /\ fil[g].pas \in {"verifie", "copie", "remet"} => fil[g].message # Nul
                              /\ fil[g].id # Nul => fil[g].pas = "copie"
  BY HandlesAssumption DEF IInv, Types

(* The generations of a process and the receives that may still install. *)
LEMMA DesGenerations ==
    ASSUME IInv, NEW p \in Procs
    PROVE  /\ Cardinality(Vol(fil, p)) \in Nat
           /\ \A s \in Slots : /\ table[p][s].gen \in Nat
                               /\ table[p][s].gen + Cardinality(Vol(fil, p)) <= appels + 1
<1>1. IsFiniteSet(Vol(fil, p))
  BY DepartAssumption, FS_Subset DEF Vol
<1>2. Cardinality(Vol(fil, p)) \in Nat
  BY <1>1, FS_CardinalityType
<1>3. \A s \in Slots : table[p][s].gen \in Nat
  BY HandlesAssumption DEF IInv, Types, Tables, Cases
<1> QED BY <1>2, <1>3 DEF IInv, GenInv

(* handle_close: the other ids of the process still designate what they did. *)
LEMMA FermeInv ==
    ASSUME IInv, NEW f \in Fils, Ferme(f)
    PROVE  IInv'
<1> DEFINE p == ProcDe[f]
<1>1. appels < MaxAppels /\ appels' = appels + 1 /\ UNCHANGED <<file, auteur, fil, morts, emis, rendus>>
  BY DEF Ferme, Appelle
<1>2. PICK id \in Ids(p) : /\ table' = [table EXCEPT ![p] = Retire(@, id)]
                           /\ clos' = [clos EXCEPT ![p] = @ \cup {id}]
  BY DEF Ferme
<1>3. p \in Procs
  BY HandlesAssumption
<1> HIDE DEF p
<1> DEFINE tp == Retire(table[p], id)
           cp == clos[p] \cup {id}
<1>4. /\ table[p] \in Tables /\ id \in Identifiants /\ \E x \in emis[p] : x[1] = id
      /\ Registre(table[p], emis[p], clos[p], rendus[p])
      /\ emis[p] \in SUBSET (Identifiants \X Extremites) /\ rendus[p] \in SUBSET Identifiants
      /\ clos[p] \in SUBSET Identifiants
  BY <1>3, DuProcessus
<1>5. /\ tp \in Tables /\ \A s \in Slots : tp[s].gen = table[p][s].gen
      /\ \A s \in Slots : tp[s].entree # Nul => tp[s].entree = table[p][s].entree
  BY <1>4, RetireFaits
<1>6. Registre(tp, emis[p], cp, rendus[p]) /\ \A j \in Identifiants : j # id /\ Vivant(table[p], j) => Vivant(tp, j)
  BY <1>4, RetireRegistre
<1>7. cp \in SUBSET Identifiants
  BY <1>4
<1>8. /\ table' = [table EXCEPT ![p] = tp] /\ clos' = [clos EXCEPT ![p] = cp]
      /\ emis' = [emis EXCEPT ![p] = emis[p]] /\ rendus' = [rendus EXCEPT ![p] = rendus[p]]
  BY <1>1, <1>2, <1>3, DesFils
<1> HIDE DEF tp
<1>9. \A s \in Slots : tp[s].entree # Nul => PermisA(tp[s].entree, p, auteur')
  BY <1>1, <1>3, <1>5, DuProcessus
<1>10. \A s \in Slots : tp[s].gen + Cardinality(Vol(fil', p)) <= appels' + 1
  BY <1>1, <1>3, <1>5, DesGenerations, DesFils
<1>11. ASSUME NEW g \in Fils, ProcDe[g] = p, fil'[g].id # Nul
       PROVE  /\ fil'[g].id \notin rendus[p] /\ \E x \in emis[p] : x[1] = fil'[g].id
              /\ p \notin morts' /\ fil'[g].id \notin cp => Vivant(tp, fil'[g].id)
  BY <1>1, <1>3, <1>6, <1>11, DuProcessus
<1>12. \A g, h \in Fils : g # h /\ ProcDe[g] = p /\ ProcDe[h] = p /\ fil'[g].id # Nul => fil'[g].id # fil'[h].id
  BY <1>1, <1>3, DuProcessus
<1>13. p \notin morts' => \A j \in rendus[p] \ cp : Vivant(tp, j)
  BY <1>1, <1>3, <1>6, DuProcessus
<1>14. /\ auteur' = auteur /\ auteur' \in [Canaux -> Procs \cup {Nul}] /\ file' = file /\ morts \subseteq morts'
       /\ morts' \subseteq Procs /\ appels' \in 0..MaxAppels /\ appels <= appels'
       /\ fil' \in [Fils -> Recepteurs(auteur)] /\ fil' = fil
       /\ \A g \in Fils : /\ fil'[g].pas # "repos" => fil'[g].sur # Nul
                          /\ fil'[g].pas \in {"verifie", "copie", "remet"} => fil'[g].message # Nul
                          /\ fil'[g].id # Nul => fil'[g].pas = "copie"
  BY <1>1, DesFils, HandlesAssumption
<1> HIDE DEF cp
<1>15. FilsDe(p, fil') /\ TableDe(p, tp, fil', auteur', appels')
  BY <1>5, <1>9, <1>10, <1>14 DEF FilsDe, TableDe
<1>16. IdsDe(p, tp, emis[p], cp, rendus[p], fil', morts')
  BY <1>4, <1>6, <1>7, <1>11, <1>12, <1>13 DEF IdsDe
<1>17. ResteDe(auteur', morts', appels') /\ file' = file
  BY <1>14 DEF ResteDe
<1> QED BY <1>3, <1>8, <1>15, <1>16, <1>17, UnProcessus

(* The delivery: the id of the receive becomes one the process was given. *)
LEMMA RecvRendInv ==
    ASSUME IInv, NEW f \in Fils, RecvRend(f)
    PROVE  IInv'
<1> DEFINE p == ProcDe[f]
           rp == IF fil[f].id = Nul THEN rendus[p] ELSE rendus[p] \cup {fil[f].id}
<1>1. /\ fil[f].pas = "copie" /\ Pas(f, Repos)
      /\ UNCHANGED <<table, file, auteur, morts, appels, emis, clos>>
      /\ rendus' = [rendus EXCEPT ![p] = rp]
  BY DEF RecvRend
<1>2. p \in Procs
  BY HandlesAssumption
<1> HIDE DEF p
<1>3. /\ table[p] \in Tables /\ Registre(table[p], emis[p], clos[p], rendus[p])
      /\ emis[p] \in SUBSET (Identifiants \X Extremites) /\ rendus[p] \in SUBSET Identifiants
      /\ clos[p] \in SUBSET Identifiants
  BY <1>2, DuProcessus
<1>4. fil[f].id # Nul => /\ fil[f].id \in Identifiants /\ \E x \in emis[p] : x[1] = fil[f].id
                         /\ p \notin morts /\ fil[f].id \notin clos[p] => Vivant(table[p], fil[f].id)
  BY <1>2, DuProcessus DEF p
<1>5. rp \in SUBSET Identifiants /\ Registre(table[p], emis[p], clos[p], rp)
  BY <1>3, <1>4 DEF Registre
<1>6. /\ fil' \in [Fils -> Recepteurs(auteur')] /\ fil'[f] = Repos
      /\ \A g \in Fils : /\ fil'[g].pas # "repos" => fil'[g].sur # Nul
                         /\ fil'[g].pas \in {"verifie", "copie", "remet"} => fil'[g].message # Nul
                         /\ fil'[g].id # Nul => fil'[g].pas = "copie"
      /\ \A g \in Fils : g # f => fil'[g] = fil[g]
  <2>1. Types /\ auteur' = auteur
    BY <1>1 DEF IInv
  <2> QED BY <1>1, <2>1, ReposFaits, PasFaits
<1>7. fil'[f].id = Nul /\ fil'[f].pas = "repos"
  BY <1>6, ReposFaits
<1>8. ASSUME NEW g \in Fils, ProcDe[g] = p, fil'[g].id # Nul
      PROVE  /\ fil'[g].id \notin rp /\ \E x \in emis[p] : x[1] = fil'[g].id
             /\ p \notin morts' /\ fil'[g].id \notin clos[p] => Vivant(table[p], fil'[g].id)
  <2>1. g # f /\ fil'[g].id = fil[g].id
    BY <1>6, <1>7, <1>8
  <2>2. fil[g].id \notin rendus[p] /\ fil[g].id # fil[f].id /\ \E x \in emis[p] : x[1] = fil[g].id
    BY <1>2, <1>8, <2>1, DuProcessus DEF p
  <2>3. p \notin morts' /\ fil[g].id \notin clos[p] => Vivant(table[p], fil[g].id)
    BY <1>1, <1>2, <1>8, <2>1, DuProcessus
  <2> QED BY <2>1, <2>2, <2>3
<1>9. ASSUME NEW g \in Fils, NEW h \in Fils, g # h, ProcDe[g] = p, ProcDe[h] = p, fil'[g].id # Nul
      PROVE  fil'[g].id # fil'[h].id
  <2>1. g # f /\ fil'[g].id = fil[g].id
    BY <1>6, <1>7, <1>9
  <2>2. CASE h = f
    BY <1>7, <1>9, <2>2
  <2>3. CASE h # f
    BY <1>2, <1>6, <1>9, <2>1, <2>3, DuProcessus
  <2> QED BY <2>2, <2>3
<1>10. p \notin morts' => \A j \in rp \ clos[p] : Vivant(table[p], j)
  BY <1>1, <1>2, <1>4, DuProcessus
<1>11. \A s \in Slots : table[p][s].gen + Cardinality(Vol(fil', p)) <= appels' + 1
  <2>1. \A g \in Fils : g # f => fil'[g].pas = fil[g].pas
    BY <1>6
  <2>2. Cardinality(Vol(fil', p)) \in Nat /\ Cardinality(Vol(fil', p)) <= Cardinality(Vol(fil, p))
    <3>1. fil'[f].pas \notin {"prend", "verifie"}
      BY <1>7
    <3> QED BY <2>1, <3>1, VolSuite
  <2> QED BY <1>1, <1>2, <2>2, DesGenerations, DesFils
<1>12. /\ table' = [table EXCEPT ![p] = table[p]] /\ clos' = [clos EXCEPT ![p] = clos[p]]
       /\ emis' = [emis EXCEPT ![p] = emis[p]]
  BY <1>1, <1>2, DesFils
<1>13. \A s \in Slots : table[p][s].entree # Nul => PermisA(table[p][s].entree, p, auteur')
  BY <1>1, <1>2, DuProcessus
<1>14. /\ auteur' = auteur /\ auteur' \in [Canaux -> Procs \cup {Nul}] /\ file' = file /\ morts \subseteq morts'
       /\ morts' \subseteq Procs /\ appels' \in 0..MaxAppels /\ appels <= appels'
       /\ fil' \in [Fils -> Recepteurs(auteur)]
       /\ \A g \in Fils : ProcDe[g] # p => fil'[g] = fil[g]
  BY <1>1, <1>6, DesFils DEF p
<1> HIDE DEF rp
<1>15. FilsDe(p, fil') /\ TableDe(p, table[p], fil', auteur', appels')
  BY <1>3, <1>6, <1>11, <1>13, <1>14 DEF FilsDe, TableDe
<1>16. IdsDe(p, table[p], emis[p], clos[p], rp, fil', morts')
  BY <1>3, <1>5, <1>8, <1>9, <1>10 DEF IdsDe
<1>17. ResteDe(auteur', morts', appels') /\ file' = file
  BY <1>14 DEF ResteDe
<1> QED BY <1>1, <1>2, <1>12, <1>15, <1>16, <1>17, UnProcessus

(* The roll-back: it closes the id this receive installed, and no other. *)
LEMMA RecvAnnuleInv ==
    ASSUME IInv, NEW f \in Fils, RecvAnnule(f)
    PROVE  IInv'
<1> DEFINE p == ProcDe[f]
           i == fil[f].id
           tp == IF i = Nul THEN table[p] ELSE Retire(table[p], i)
           r == [fil[f] EXCEPT !.pas = "remet", !.id = Nul]
<1>1. /\ fil[f].pas = "copie" /\ Pas(f, r)
      /\ UNCHANGED <<file, auteur, morts, appels, emis, clos, rendus>>
      /\ table' = [table EXCEPT ![p] = tp]
  BY DEF RecvAnnule, histoire
<1>2. p \in Procs
  BY HandlesAssumption
<1>3. /\ fil[f].sur \in Extremites /\ fil[f].message \in Courrier(auteur) /\ fil[f] \in Recepteurs(auteur)
  BY <1>1, FilFaits DEF IInv
<1>4. fil[f].sur # Nul /\ fil[f].message # Nul
  BY <1>3, DepartAssumption DEF Courrier
<1>5. r \in Recepteurs(auteur) /\ r.pas = "remet" /\ r.sur # Nul /\ r.message # Nul /\ r.id = Nul
  BY <1>3, <1>4 DEF Recepteurs
<1> HIDE DEF r, p
<1>6. /\ fil' \in [Fils -> Recepteurs(auteur')] /\ fil'[f] = r
      /\ \A g \in Fils : /\ fil'[g].pas # "repos" => fil'[g].sur # Nul
                         /\ fil'[g].pas \in {"verifie", "copie", "remet"} => fil'[g].message # Nul
                         /\ fil'[g].id # Nul => fil'[g].pas = "copie"
      /\ \A g \in Fils : g # f => fil'[g] = fil[g]
  <2>1. Types /\ auteur' = auteur
    BY <1>1 DEF IInv
  <2> QED BY <1>1, <1>5, <2>1, PasFaits
<1>7. /\ table[p] \in Tables /\ Registre(table[p], emis[p], clos[p], rendus[p])
      /\ emis[p] \in SUBSET (Identifiants \X Extremites) /\ rendus[p] \in SUBSET Identifiants
      /\ clos[p] \in SUBSET Identifiants
      /\ i # Nul => i \in Identifiants /\ i \notin rendus[p] /\ \E x \in emis[p] : x[1] = i
  BY <1>2, DuProcessus DEF p
<1>8. /\ tp \in Tables /\ Registre(tp, emis[p], clos[p], rendus[p])
      /\ \A s \in Slots : tp[s].gen = table[p][s].gen
      /\ \A s \in Slots : tp[s].entree # Nul => tp[s].entree = table[p][s].entree
      /\ \A j \in Identifiants : j # i /\ Vivant(table[p], j) => Vivant(tp, j)
  <2>1. CASE i = Nul
    BY <1>7, <2>1
  <2>2. CASE i # Nul
    <3>1. tp = Retire(table[p], i)
      BY <2>2
    <3>2. /\ Retire(table[p], i) \in Tables /\ \A s \in Slots : Retire(table[p], i)[s].gen = table[p][s].gen
          /\ \A s \in Slots : Retire(table[p], i)[s].entree # Nul => Retire(table[p], i)[s].entree = table[p][s].entree
      BY <1>7, <2>2, RetireFaits
    <3>3. /\ Registre(Retire(table[p], i), emis[p], clos[p], rendus[p])
          /\ \A j \in Identifiants : j # i /\ Vivant(table[p], j) => Vivant(Retire(table[p], i), j)
      BY <1>7, <2>2, RetireRegistre
    <3> HIDE DEF tp
    <3> QED BY <3>1, <3>2, <3>3
  <2> QED BY <2>1, <2>2
<1> HIDE DEF tp
<1>9. fil'[f].id = Nul
  BY <1>5, <1>6
<1>10. ASSUME NEW g \in Fils, ProcDe[g] = p, fil'[g].id # Nul
       PROVE  /\ fil'[g].id \notin rendus[p] /\ \E x \in emis[p] : x[1] = fil'[g].id
              /\ p \notin morts' /\ fil'[g].id \notin clos[p] => Vivant(tp, fil'[g].id)
  <2>1. g # f /\ fil'[g].id = fil[g].id
    BY <1>6, <1>9, <1>10
  <2>2. /\ fil[g].id \in Identifiants /\ fil[g].id \notin rendus[p] /\ fil[g].id # i
        /\ \E x \in emis[p] : x[1] = fil[g].id
    BY <1>2, <1>10, <2>1, DuProcessus DEF p
  <2>3. p \notin morts' /\ fil[g].id \notin clos[p] => Vivant(table[p], fil[g].id)
    BY <1>1, <1>2, <1>10, <2>1, DuProcessus
  <2> QED BY <1>8, <2>1, <2>2, <2>3
<1>11. ASSUME NEW g \in Fils, NEW h \in Fils, g # h, ProcDe[g] = p, ProcDe[h] = p, fil'[g].id # Nul
       PROVE  fil'[g].id # fil'[h].id
  <2>1. g # f /\ fil'[g].id = fil[g].id
    BY <1>6, <1>9, <1>11
  <2>2. CASE h = f
    BY <1>9, <1>11, <2>2
  <2>3. CASE h # f
    BY <1>2, <1>6, <1>11, <2>1, <2>3, DuProcessus
  <2> QED BY <2>2, <2>3
<1>12. p \notin morts' => \A j \in rendus[p] \ clos[p] : Vivant(tp, j)
  <2> SUFFICES ASSUME p \notin morts', NEW j \in rendus[p] \ clos[p] PROVE Vivant(tp, j)
    OBVIOUS
  <2>1. Vivant(table[p], j)
    BY <1>1, <1>2, DuProcessus
  <2>2. j # i /\ j \in Identifiants
    BY <1>7, DepartAssumption DEF Identifiants
  <2> QED BY <1>8, <2>1, <2>2
<1>13. \A s \in Slots : tp[s].gen + Cardinality(Vol(fil', p)) <= appels' + 1
  <2>1. \A g \in Fils : g # f => fil'[g].pas = fil[g].pas
    BY <1>6
  <2>2. Cardinality(Vol(fil', p)) \in Nat /\ Cardinality(Vol(fil', p)) <= Cardinality(Vol(fil, p))
    <3>1. fil'[f].pas \notin {"prend", "verifie"}
      BY <1>5, <1>6
    <3> QED BY <2>1, <3>1, VolSuite
  <2> QED BY <1>1, <1>2, <1>8, <2>2, DesGenerations, DesFils
<1>14. /\ clos' = [clos EXCEPT ![p] = clos[p]]
       /\ emis' = [emis EXCEPT ![p] = emis[p]] /\ rendus' = [rendus EXCEPT ![p] = rendus[p]]
  BY <1>1, <1>2, DesFils
<1>15. \A s \in Slots : tp[s].entree # Nul => PermisA(tp[s].entree, p, auteur')
  BY <1>1, <1>2, <1>8, DuProcessus
<1>16. /\ auteur' = auteur /\ auteur' \in [Canaux -> Procs \cup {Nul}] /\ file' = file /\ morts \subseteq morts'
       /\ morts' \subseteq Procs /\ appels' \in 0..MaxAppels /\ appels <= appels'
       /\ fil' \in [Fils -> Recepteurs(auteur)]
       /\ \A g \in Fils : ProcDe[g] # p => fil'[g] = fil[g]
  BY <1>1, <1>6, DesFils DEF p
<1>17. FilsDe(p, fil') /\ TableDe(p, tp, fil', auteur', appels')
  BY <1>6, <1>8, <1>13, <1>15, <1>16 DEF FilsDe, TableDe
<1>18. IdsDe(p, tp, emis[p], clos[p], rendus[p], fil', morts')
  BY <1>7, <1>8, <1>10, <1>11, <1>12 DEF IdsDe
<1>19. ResteDe(auteur', morts', appels') /\ file' = file
  BY <1>16 DEF ResteDe
<1> QED BY <1>1, <1>2, <1>14, <1>17, <1>18, <1>19, UnProcessus

(* The death of a process empties its table: its ids designate nothing any more. *)
LEMMA MeurtInv ==
    ASSUME IInv, NEW p \in Procs, Meurt(p)
    PROVE  IInv'
<1> DEFINE tp == [s \in Slots |-> [table[p][s] EXCEPT !.entree = Nul]]
<1>1. /\ morts' = morts \cup {p} /\ table' = [table EXCEPT ![p] = tp]
      /\ UNCHANGED <<file, auteur, fil, appels, emis, clos, rendus>>
  <2>1. table \in [Procs -> Tables]
    BY DesFils
  <2> QED BY <2>1 DEF Meurt, histoire
<1>2. /\ table[p] \in Tables /\ Registre(table[p], emis[p], clos[p], rendus[p])
      /\ emis[p] \in SUBSET (Identifiants \X Extremites) /\ rendus[p] \in SUBSET Identifiants
      /\ clos[p] \in SUBSET Identifiants
  BY DuProcessus
<1>3. \A s \in Slots : tp[s] \in Cases /\ tp[s].gen = table[p][s].gen /\ tp[s].entree = Nul
  BY <1>2 DEF Tables, Cases
<1>4. tp \in Tables
  BY <1>3 DEF Tables
<1> HIDE DEF tp
<1>5. \A x \in emis[p] : x[1][1] \in Slots
  BY <1>2 DEF Identifiants
<1>6. Registre(tp, emis[p], clos[p], rendus[p])
  BY <1>2, <1>3, <1>5 DEF Registre
<1>7. /\ clos' = [clos EXCEPT ![p] = clos[p]]
      /\ emis' = [emis EXCEPT ![p] = emis[p]] /\ rendus' = [rendus EXCEPT ![p] = rendus[p]]
  BY <1>1, DesFils
<1>8. \A s \in Slots : tp[s].gen + Cardinality(Vol(fil', p)) <= appels' + 1
  BY <1>1, <1>3, DesGenerations
<1>9. ASSUME NEW g \in Fils, ProcDe[g] = p, fil'[g].id # Nul
      PROVE  /\ fil'[g].id \notin rendus[p] /\ \E x \in emis[p] : x[1] = fil'[g].id
             /\ p \notin morts' /\ fil'[g].id \notin clos[p] => Vivant(tp, fil'[g].id)
  BY <1>1, <1>9, DuProcessus
<1>10. \A g, h \in Fils : g # h /\ ProcDe[g] = p /\ ProcDe[h] = p /\ fil'[g].id # Nul => fil'[g].id # fil'[h].id
  BY <1>1, DuProcessus
<1>11. /\ auteur' = auteur /\ auteur' \in [Canaux -> Procs \cup {Nul}] /\ file' = file /\ morts \subseteq morts'
       /\ morts' \subseteq Procs /\ appels' \in 0..MaxAppels /\ appels <= appels'
       /\ fil' \in [Fils -> Recepteurs(auteur)] /\ fil' = fil /\ p \in morts'
       /\ \A g \in Fils : /\ fil'[g].pas # "repos" => fil'[g].sur # Nul
                          /\ fil'[g].pas \in {"verifie", "copie", "remet"} => fil'[g].message # Nul
                          /\ fil'[g].id # Nul => fil'[g].pas = "copie"
  BY <1>1, DesFils
<1>12. \A s \in Slots : tp[s].entree # Nul => PermisA(tp[s].entree, p, auteur')
  BY <1>3
<1>13. FilsDe(p, fil') /\ TableDe(p, tp, fil', auteur', appels')
  BY <1>4, <1>8, <1>11, <1>12 DEF FilsDe, TableDe
<1>14. IdsDe(p, tp, emis[p], clos[p], rendus[p], fil', morts')
  BY <1>2, <1>6, <1>9, <1>10, <1>11 DEF IdsDe
<1>15. ResteDe(auteur', morts', appels') /\ file' = file
  BY <1>11 DEF ResteDe
<1> QED BY <1>1, <1>7, <1>13, <1>14, <1>15, UnProcessus

(* handle_dup *)
LEMMA DupliqueInv ==
    ASSUME IInv, NEW f \in Fils, Duplique(f)
    PROVE  IInv'
<1> DEFINE p == ProcDe[f]
           t == table[p]
           n == IdPose(t)
           l(id) == Lookup(p, id)
<1>1. /\ appels < MaxAppels /\ appels' = appels + 1 /\ Libres(t) # {}
      /\ UNCHANGED <<file, auteur, fil, morts, clos>>
  BY DEF Duplique, Appelle
<1>2. PICK id \in Ids(p) : \E d \in {Droits, {"READ", "DUP"}} :
          /\ l(id) # Nul /\ VerifieDuplication(l(id).droits, d)
          /\ table' = [table EXCEPT ![p] = Insere(@, [objet |-> l(id).objet, droits |-> d])]
          /\ emis' = [emis EXCEPT ![p] = @ \cup {<<n, l(id).objet>>}]
          /\ rendus' = [rendus EXCEPT ![p] = @ \cup {n}]
  BY DEF Duplique, Note
<1>3. PICK d \in {Droits, {"READ", "DUP"}} :
          /\ l(id) # Nul /\ VerifieDuplication(l(id).droits, d)
          /\ table' = [table EXCEPT ![p] = Insere(@, [objet |-> l(id).objet, droits |-> d])]
          /\ emis' = [emis EXCEPT ![p] = @ \cup {<<n, l(id).objet>>}]
          /\ rendus' = [rendus EXCEPT ![p] = @ \cup {n}]
  BY <1>2
<1> DEFINE e == [objet |-> l(id).objet, droits |-> d]
           u == Insere(t, e)
           ep == emis[p] \cup {<<n, e.objet>>}
           rp == rendus[p] \cup {n}
<1>4. p \in Procs
  BY HandlesAssumption
<1>5. /\ table' = [table EXCEPT ![p] = u] /\ emis' = [emis EXCEPT ![p] = ep]
      /\ rendus' = [rendus EXCEPT ![p] = rp] /\ clos' = [clos EXCEPT ![p] = clos[p]]
  BY <1>1, <1>3, <1>4, DesFils
<1>6. e \in Entrees /\ PermisA(e, p, auteur)
  <2>1. /\ l(id).objet \in Extremites /\ l(id).droits \in SUBSET Droits /\ PermisA(l(id), p, auteur)
    BY <1>3, <1>4, LookupFaits DEF IInv
  <2>2. d \subseteq l(id).droits
    BY <1>3 DEF VerifieDuplication
  <2> HIDE DEF l
  <2>3. d \in SUBSET Droits
    BY <2>1, <2>2
  <2> QED BY <2>1, <2>2, <2>3 DEF Entrees, PermisA
<1> HIDE DEF p, e, l
<1>7. /\ t \in Tables /\ Registre(t, emis[p], clos[p], rendus[p])
      /\ emis[p] \in SUBSET (Identifiants \X Extremites) /\ rendus[p] \in SUBSET Identifiants
      /\ clos[p] \in SUBSET Identifiants
  BY <1>4, DuProcessus
<1>8. Premier(t) \in Slots
  BY <1>1, PremierLibre DEF Libres
<1>9. /\ \A s \in Slots : t[s].gen \in Nat /\ t[s].gen + Cardinality(Vol(fil, p)) <= appels + 1
      /\ Cardinality(Vol(fil, p)) \in Nat /\ appels \in Nat
  BY <1>4, DesGenerations, DesFils
<1>10. t[Premier(t)].gen < GenMax
  BY <1>1, <1>8, <1>9, HandlesAssumption
<1> HIDE DEF t
<1>11. /\ t[Premier(t)].entree = Nul /\ u \in Tables
       /\ u[Premier(t)] = [gen |-> t[Premier(t)].gen + 1, entree |-> e]
       /\ \A s \in Slots : s # Premier(t) => u[s] = t[s]
       /\ n \in Identifiants
  BY <1>1, <1>6, <1>7, <1>10, InsereFaits
<1>12. /\ Registre(u, ep, clos[p], rendus[p])
       /\ \A x \in emis[p] : x[1] # n
       /\ \A j \in Identifiants : Vivant(t, j) => Vivant(u, j) /\ j # n
       /\ Vivant(u, n) /\ n \notin clos[p] \cup rendus[p]
  BY <1>1, <1>6, <1>7, <1>10, InsereRegistre
<1> HIDE DEF u, n
<1>13. Registre(u, ep, clos[p], rp)
  <2>1. <<n, e.objet>> \in ep /\ <<n, e.objet>>[1] = n
    OBVIOUS
  <2> HIDE DEF ep
  <2> QED BY <1>12, <2>1 DEF Registre
<1>14. e.objet \in Extremites
  BY <1>6 DEF Entrees
<1>15. ep \in SUBSET (Identifiants \X Extremites) /\ rp \in SUBSET Identifiants /\ clos[p] \in SUBSET Identifiants
  BY <1>7, <1>11, <1>14
<1>16. ASSUME NEW g \in Fils, ProcDe[g] = p, fil'[g].id # Nul
       PROVE  /\ fil'[g].id \notin rp /\ \E x \in ep : x[1] = fil'[g].id
              /\ p \notin morts' /\ fil'[g].id \notin clos[p] => Vivant(u, fil'[g].id)
  <2>1. fil'[g].id = fil[g].id /\ morts' = morts
    BY <1>1
  <2>2. /\ fil[g].id \in Identifiants /\ fil[g].id \notin rendus[p]
        /\ \E x \in emis[p] : x[1] = fil[g].id
        /\ p \notin morts /\ fil[g].id \notin clos[p] => Vivant(t, fil[g].id)
    BY <1>4, <1>16, <2>1, DuProcessus DEF t
  <2> QED BY <1>12, <2>1, <2>2
<1>17. \A g, h \in Fils : g # h /\ ProcDe[g] = p /\ ProcDe[h] = p /\ fil'[g].id # Nul => fil'[g].id # fil'[h].id
  BY <1>1, <1>4, DuProcessus
<1>18. p \notin morts' => \A j \in rp \ clos[p] : Vivant(u, j)
  <2>1. p \notin morts' => \A j \in rendus[p] \ clos[p] : Vivant(t, j)
    BY <1>1, <1>4, DuProcessus DEF t
  <2> QED BY <1>7, <1>12, <2>1
<1>19. IdsDe(p, u, ep, clos[p], rp, fil', morts')
  BY <1>13, <1>15, <1>16, <1>17, <1>18 DEF IdsDe
<1>20. TableDe(p, u, fil', auteur', appels')
  <2>1. ASSUME NEW s \in Slots, u[s].entree # Nul PROVE PermisA(u[s].entree, p, auteur')
    <3>1. CASE s = Premier(t)
      BY <1>1, <1>6, <1>11, <3>1
    <3>2. CASE s # Premier(t)
      BY <1>1, <1>4, <1>11, <2>1, <3>2, DuProcessus DEF t
    <3> QED BY <3>1, <3>2
  <2>2. ASSUME NEW s \in Slots PROVE u[s].gen + Cardinality(Vol(fil', p)) <= appels' + 1
    <3>1. Vol(fil', p) = Vol(fil, p)
      BY <1>1
    <3>2. u[s].gen = t[s].gen \/ u[s].gen = t[s].gen + 1
      BY <1>11
    <3> HIDE DEF Vol
    <3> QED BY <1>1, <1>9, <3>1, <3>2
  <2> QED BY <1>11, <2>1, <2>2 DEF TableDe
<1>21. FilsDe(p, fil') /\ ResteDe(auteur', morts', appels') /\ file' = file
  BY <1>1, DesFils, HandlesAssumption DEF FilsDe, ResteDe
<1> QED BY <1>4, <1>5, <1>19, <1>20, <1>21, UnProcessus

(* insert_many: the receive pays the generation with its own call. *)
LEMMA RecvInstalleInv ==
    ASSUME IInv, NEW f \in Fils, RecvInstalle(f)
    PROVE  IInv'
<1> DEFINE p == ProcDe[f]
           t == table[p]
           n == IdPose(t)
           e == fil[f].message.transfere
           u == Insere(t, e)
           ep == emis[p] \cup {<<n, e.objet>>}
<1>1. fil[f].pas = "verifie" /\ UNCHANGED <<file, auteur, morts, appels, rendus, clos>>
  BY DEF RecvInstalle
<1>2. /\ fil[f].sur \in Extremites /\ fil[f].message \in Courrier(auteur) /\ fil[f].id = Nul
      /\ fil[f] \in Recepteurs(auteur)
  BY <1>1, FilFaits DEF IInv
<1>3. fil[f].sur # Nul /\ fil[f].message # Nul
  BY <1>2, DepartAssumption DEF Courrier
<1>4. file' \in [Extremites -> Seq(Courrier(auteur))]
  BY <1>1 DEF IInv, Types
<1>5. ASSUME NEW k \in {"copie", "remet"}, NEW j \in Identifiants \cup {Nul}
      PROVE  LET r == [fil[f] EXCEPT !.pas = k, !.id = j] IN
             /\ r \in Recepteurs(auteur) /\ r.pas = k /\ r.sur = fil[f].sur
             /\ r.message = fil[f].message /\ r.id = j
  BY <1>2 DEF Recepteurs
<1>6. ASSUME NEW k \in {"copie", "remet"}
      PROVE  [fil[f] EXCEPT !.pas = k] = [fil[f] EXCEPT !.pas = k, !.id = Nul]
  BY <1>2 DEF Recepteurs
<1>7. ASSUME NEW k \in {"copie", "remet"}, Pas(f, [fil[f] EXCEPT !.pas = k]), table' = table, emis' = emis
      PROVE  IInv'
  <2> DEFINE r == [fil[f] EXCEPT !.pas = k, !.id = Nul]
  <2>1. /\ r \in Recepteurs(auteur) /\ r.pas = k /\ r.sur = fil[f].sur
        /\ r.message = fil[f].message /\ r.id = Nul
    BY <1>2 DEF Recepteurs
  <2>2. Pas(f, r)
    BY <1>6, <1>7
  <2> HIDE DEF r
  <2> QED BY <1>1, <1>2, <1>3, <1>4, <1>7, <2>1, <2>2, Calme
<1>8. CASE e = Nul
  <2>1. Pas(f, [fil[f] EXCEPT !.pas = "copie"]) /\ table' = table /\ emis' = emis
    BY <1>8 DEF RecvInstalle
  <2> QED BY <1>7, <2>1
<1>9. CASE e # Nul /\ Libres(t) = {}
  <2>1. Pas(f, [fil[f] EXCEPT !.pas = "remet"]) /\ table' = table /\ emis' = emis
    BY <1>9 DEF RecvInstalle, Echec
  <2> QED BY <1>7, <2>1
<1>10. CASE e # Nul /\ Libres(t) # {}
  <2> DEFINE r == [fil[f] EXCEPT !.pas = "copie", !.id = n]
  <2>1. /\ table' = [table EXCEPT ![p] = u] /\ emis' = [emis EXCEPT ![p] = ep] /\ Pas(f, r)
    BY <1>10 DEF RecvInstalle, Note
  <2>2. p \in Procs
    BY HandlesAssumption
  <2>3. e \in Entrees /\ PermisA(e, p, auteur)
    BY <1>2, <1>10 DEF Courrier, Messages, Permis, PermisA
  <2> HIDE DEF e
  <2>4. /\ t \in Tables /\ Registre(t, emis[p], clos[p], rendus[p])
        /\ emis[p] \in SUBSET (Identifiants \X Extremites) /\ rendus[p] \in SUBSET Identifiants
        /\ clos[p] \in SUBSET Identifiants
    BY <2>2, DuProcessus
  <2>5. Premier(t) \in Slots
    BY <1>10, PremierLibre DEF Libres
  <2>6. /\ \A s \in Slots : t[s].gen \in Nat /\ t[s].gen + Cardinality(Vol(fil, p)) <= appels + 1
        /\ Cardinality(Vol(fil, p)) \in Nat /\ appels \in Nat /\ appels \in 0..MaxAppels
    BY <2>2, DesGenerations, DesFils
  <2>7. Cardinality(Vol(fil, p)) # 0
    <3>1. IsFiniteSet(Vol(fil, p)) /\ f \in Vol(fil, p)
      BY <1>1, DepartAssumption, FS_Subset DEF Vol
    <3> QED BY <3>1, FS_EmptySet
  <2>8. t[Premier(t)].gen < GenMax
    BY <2>5, <2>6, <2>7, HandlesAssumption
  <2> HIDE DEF t
  <2>9. /\ t[Premier(t)].entree = Nul /\ u \in Tables
        /\ u[Premier(t)] = [gen |-> t[Premier(t)].gen + 1, entree |-> e]
        /\ \A s \in Slots : s # Premier(t) => u[s] = t[s]
        /\ n \in Identifiants
    BY <1>10, <2>3, <2>4, <2>8, InsereFaits
  <2>10. /\ Registre(u, ep, clos[p], rendus[p])
         /\ \A x \in emis[p] : x[1] # n
         /\ \A j \in Identifiants : Vivant(t, j) => Vivant(u, j) /\ j # n
         /\ Vivant(u, n) /\ n \notin clos[p] \cup rendus[p]
    BY <1>10, <2>3, <2>4, <2>8, InsereRegistre
  <2>11. /\ r \in Recepteurs(auteur) /\ r.pas = "copie" /\ r.sur = fil[f].sur
         /\ r.message = fil[f].message /\ r.id = n
    <3> HIDE DEF n
    <3> QED BY <1>5, <2>9
  <2> HIDE DEF u, n, r
  <2>12. /\ fil' \in [Fils -> Recepteurs(auteur')] /\ fil'[f] = r
         /\ \A g \in Fils : /\ fil'[g].pas # "repos" => fil'[g].sur # Nul
                            /\ fil'[g].pas \in {"verifie", "copie", "remet"} => fil'[g].message # Nul
                            /\ fil'[g].id # Nul => fil'[g].pas = "copie"
         /\ \A g \in Fils : g # f => fil'[g] = fil[g]
    <3>1. Types /\ auteur' = auteur
      BY <1>1 DEF IInv
    <3> QED BY <1>3, <2>1, <2>11, <3>1, PasFaits
  <2>13. e.objet \in Extremites
    BY <2>3 DEF Entrees
  <2>14. ep \in SUBSET (Identifiants \X Extremites)
    BY <2>4, <2>9, <2>13
  <2>15. ASSUME NEW g \in Fils, ProcDe[g] = p, fil'[g].id # Nul
         PROVE  /\ fil'[g].id \notin rendus[p] /\ \E x \in ep : x[1] = fil'[g].id
                /\ p \notin morts' /\ fil'[g].id \notin clos[p] => Vivant(u, fil'[g].id)
    <3>1. CASE g = f
      <4>1. fil'[g].id = n
        BY <2>11, <2>12, <3>1
      <4>2. <<n, e.objet>> \in ep /\ <<n, e.objet>>[1] = n
        OBVIOUS
      <4> QED BY <2>10, <4>1, <4>2
    <3>2. CASE g # f
      <4>1. fil'[g].id = fil[g].id /\ morts' = morts
        BY <1>1, <2>12, <3>2
      <4>2. /\ fil[g].id \in Identifiants /\ fil[g].id \notin rendus[p]
            /\ \E x \in emis[p] : x[1] = fil[g].id
            /\ p \notin morts /\ fil[g].id \notin clos[p] => Vivant(t, fil[g].id)
        BY <2>2, <2>15, <4>1, DuProcessus DEF t
      <4> QED BY <2>10, <4>1, <4>2
    <3> QED BY <3>1, <3>2
  <2>16. ASSUME NEW g \in Fils, NEW h \in Fils, g # h, ProcDe[g] = p, ProcDe[h] = p, fil'[g].id # Nul
         PROVE  fil'[g].id # fil'[h].id
    <3>1. fil'[f].id = n
      BY <2>11, <2>12
    <3>2. ASSUME NEW k \in Fils, k # f, ProcDe[k] = p PROVE fil'[k].id = fil[k].id /\ fil[k].id # n
      <4>1. fil'[k].id = fil[k].id
        BY <2>12, <3>2
      <4>2. fil[k].id # Nul => \E x \in emis[p] : x[1] = fil[k].id
        BY <2>2, <3>2, DuProcessus
      <4>3. n # Nul
        BY <2>9, DepartAssumption DEF Identifiants
      <4> QED BY <2>10, <4>1, <4>2, <4>3
    <3>3. CASE g = f
      BY <2>16, <3>1, <3>2, <3>3
    <3>4. CASE h = f
      BY <2>16, <3>1, <3>2, <3>4
    <3>5. CASE g # f /\ h # f
      BY <2>2, <2>16, <3>2, <3>5, DuProcessus
    <3> QED BY <3>3, <3>4, <3>5
  <2>17. p \notin morts' => \A j \in rendus[p] \ clos[p] : Vivant(u, j)
    <3>1. p \notin morts' => \A j \in rendus[p] \ clos[p] : Vivant(t, j)
      BY <1>1, <2>2, DuProcessus DEF t
    <3> QED BY <2>4, <2>10, <3>1
  <2>18. IdsDe(p, u, ep, clos[p], rendus[p], fil', morts')
    BY <2>4, <2>10, <2>14, <2>15, <2>16, <2>17 DEF IdsDe
  <2>19. TableDe(p, u, fil', auteur', appels')
    <3>1. ASSUME NEW s \in Slots, u[s].entree # Nul PROVE PermisA(u[s].entree, p, auteur')
      <4>1. CASE s = Premier(t)
        BY <1>1, <2>3, <2>9, <4>1
      <4>2. CASE s # Premier(t)
        BY <1>1, <2>2, <2>9, <3>1, <4>2, DuProcessus DEF t
      <4> QED BY <4>1, <4>2
    <3>2. Cardinality(Vol(fil', p)) = Cardinality(Vol(fil, p)) - 1
      <4>1. \A g \in Fils : g # f => fil'[g].pas = fil[g].pas
        BY <2>12
      <4>2. fil'[f].pas \notin {"prend", "verifie"} /\ fil[f].pas \in {"prend", "verifie"} /\ ProcDe[f] = p
        BY <1>1, <2>11, <2>12
      <4> QED BY <4>1, <4>2, VolSuite
    <3>3. ASSUME NEW s \in Slots PROVE u[s].gen + Cardinality(Vol(fil', p)) <= appels' + 1
      <4>1. u[s].gen = t[s].gen \/ u[s].gen = t[s].gen + 1
        BY <2>9
      <4> HIDE DEF Vol
      <4> QED BY <1>1, <2>6, <3>2, <4>1
    <3> QED BY <2>9, <3>1, <3>3 DEF TableDe
  <2>20. FilsDe(p, fil') /\ ResteDe(auteur', morts', appels') /\ file' = file
    BY <1>1, <2>12, DesFils, HandlesAssumption DEF FilsDe, ResteDe
  <2>21. clos' = [clos EXCEPT ![p] = clos[p]] /\ rendus' = [rendus EXCEPT ![p] = rendus[p]]
    BY <1>1, <2>2, DesFils
  <2> HIDE DEF p, ep
  <2> QED BY <2>1, <2>2, <2>18, <2>19, <2>20, <2>21, UnProcessus
<1> QED BY <1>8, <1>9, <1>10

(* After a first insertion into a table with two free slots, another is free. *)
LEMMA DeuxLibres ==
    ASSUME NEW t \in Tables, Libres(t) # {}, Cardinality(Libres(t)) > 1, NEW a \in Entrees, \A s \in Slots : t[s].gen < GenMax
    PROVE  LET u == Insere(t, a) IN
           /\ u \in Tables /\ Libres(u) # {} /\ Premier(u) \in Slots /\ Premier(u) # Premier(t)
           /\ u[Premier(u)] = t[Premier(u)] /\ u[Premier(u)].gen < GenMax
<1> DEFINE u == Insere(t, a)
<1>1. Premier(t) \in Slots
  BY PremierLibre DEF Libres
<1>2. /\ u \in Tables /\ u[Premier(t)] = [gen |-> t[Premier(t)].gen + 1, entree |-> a]
      /\ \A s \in Slots : s # Premier(t) => u[s] = t[s]
  BY <1>1, InsereFaits
<1>3. Libres(t) # {Premier(t)}
  BY FS_Singleton
<1>4. PICK s \in Libres(t) : s # Premier(t)
  BY <1>3
<1>5. s \in Libres(u)
  BY <1>2, <1>4 DEF Libres
<1> HIDE DEF u
<1>6. Premier(u) \in Slots /\ u[Premier(u)].entree = Nul
  BY <1>5, PremierLibre DEF Libres
<1>7. Premier(u) # Premier(t)
  BY <1>2, <1>6, DepartAssumption
<1> QED BY <1>2, <1>5, <1>6, <1>7 DEF u

(* A creation that fails leaves the table as it was, but for the generations. *)
LEMMA CreationAnnulee ==
    ASSUME NEW t \in Tables, Libres(t) # {}, NEW a \in Entrees, NEW b \in Entrees, \A s \in Slots : t[s].gen < GenMax
    PROVE  LET u == Insere(t, a)
               v == Insere(u, b)
               w == IF Cardinality(Libres(t)) > 1 THEN Retire(Retire(v, IdPose(t)), IdPose(u)) ELSE Retire(u, IdPose(t))
           IN  /\ w \in Tables
               /\ \A s \in Slots : w[s] = t[s] \/ (t[s].entree = Nul /\ w[s].entree = Nul /\ w[s].gen = t[s].gen + 1)
<1> DEFINE u == Insere(t, a)
           v == Insere(u, b)
           p == Premier(t)
           q == Premier(u)
           x == Retire(v, IdPose(t))
           y == Retire(x, IdPose(u))
           z == Retire(u, IdPose(t))
<1>1. p \in Slots
  BY PremierLibre DEF Libres
<1>2. /\ t[p].entree = Nul /\ u \in Tables /\ u[p] = [gen |-> t[p].gen + 1, entree |-> a]
      /\ \A s \in Slots : s # p => u[s] = t[s]
      /\ IdPose(t) = <<p, t[p].gen + 1>> /\ IdPose(t) \in Identifiants
  BY <1>1, InsereFaits
<1>3. \A c, d \in Cases : c.gen = d.gen /\ c.entree = d.entree => c = d
  BY DEF Cases
<1>4. CASE Cardinality(Libres(t)) > 1
  <2>1. Libres(u) # {} /\ q \in Slots /\ q # p /\ u[q] = t[q] /\ u[q].gen < GenMax
    BY <1>4, DeuxLibres
  <2> HIDE DEF u
  <2>2. /\ u[q].entree = Nul /\ v \in Tables /\ v[q] = [gen |-> u[q].gen + 1, entree |-> b]
        /\ \A s \in Slots : s # q => v[s] = u[s]
        /\ IdPose(u) = <<q, u[q].gen + 1>> /\ IdPose(u) \in Identifiants
    BY <1>2, <2>1, InsereFaits
  <2> HIDE DEF v
  <2>3. /\ x \in Tables /\ \A s \in Slots : x[s].gen = v[s].gen
        /\ \A s \in Slots : x[s].entree = IF s = IdPose(t)[1] /\ v[s].gen = IdPose(t)[2] THEN Nul ELSE v[s].entree
    BY <1>2, <2>2, RetireFaits
  <2> HIDE DEF x
  <2>4. /\ y \in Tables /\ \A s \in Slots : y[s].gen = x[s].gen
        /\ \A s \in Slots : y[s].entree = IF s = IdPose(u)[1] /\ x[s].gen = IdPose(u)[2] THEN Nul ELSE x[s].entree
    BY <2>2, <2>3, RetireFaits
  <2> HIDE DEF y, p, q
  <2>5. \A s \in Slots : y[s] \in Cases /\ t[s] \in Cases
    BY <2>4 DEF Tables
  <2>6. ASSUME NEW s \in Slots
        PROVE  y[s] = t[s] \/ (t[s].entree = Nul /\ y[s].entree = Nul /\ y[s].gen = t[s].gen + 1)
    <3>1. CASE s = p
      <4>1. v[s] = u[s] /\ v[s].gen = t[p].gen + 1
        BY <1>2, <2>1, <2>2, <3>1
      <4>2. x[s].entree = Nul /\ x[s].gen = t[p].gen + 1
        BY <1>2, <2>3, <3>1, <4>1
      <4> QED BY <1>2, <2>4, <3>1, <4>2
    <3>2. CASE s = q
      <4>1. v[s].gen = u[q].gen + 1 /\ x[s].gen = u[q].gen + 1
        BY <2>2, <2>3, <3>2
      <4>2. y[s].entree = Nul /\ y[s].gen = u[q].gen + 1
        BY <2>2, <2>4, <3>2, <4>1
      <4> QED BY <2>1, <2>2, <3>2, <4>2
    <3>3. CASE s # p /\ s # q
      <4>1. v[s] = t[s]
        BY <1>2, <2>2, <3>3
      <4>2. y[s].gen = t[s].gen /\ y[s].entree = t[s].entree
        BY <1>2, <2>2, <2>3, <2>4, <3>3, <4>1
      <4> QED BY <1>3, <2>5, <4>2
    <3> QED BY <3>1, <3>2, <3>3
  <2> QED BY <1>4, <2>4, <2>6 DEF x, y, u, v
<1>5. CASE ~(Cardinality(Libres(t)) > 1)
  <2>1. /\ z \in Tables /\ \A s \in Slots : z[s].gen = u[s].gen
        /\ \A s \in Slots : z[s].entree = IF s = IdPose(t)[1] /\ u[s].gen = IdPose(t)[2] THEN Nul ELSE u[s].entree
    BY <1>2, RetireFaits
  <2> HIDE DEF z, u, p
  <2>2. \A s \in Slots : z[s] \in Cases /\ t[s] \in Cases
    BY <2>1 DEF Tables
  <2>3. ASSUME NEW s \in Slots
        PROVE  z[s] = t[s] \/ (t[s].entree = Nul /\ z[s].entree = Nul /\ z[s].gen = t[s].gen + 1)
    <3>1. CASE s = p
      BY <1>2, <2>1, <3>1
    <3>2. CASE s # p
      <4>1. z[s].gen = t[s].gen /\ z[s].entree = t[s].entree
        BY <1>2, <2>1, <3>2
      <4> QED BY <1>3, <2>2, <4>1
    <3> QED BY <3>1, <3>2
  <2> QED BY <1>5, <2>1, <2>3 DEF z, u
<1> QED BY <1>4, <1>5

(* channel_create: both ends under two new ids, or nothing. *)
LEMMA CreeInv ==
    ASSUME IInv, NEW f \in Fils, Cree(f)
    PROVE  IInv'
<1> DEFINE p == ProcDe[f]
           t == table[p]
           a(c) == [objet |-> <<c, 0>>, droits |-> Droits]
           b(c) == [objet |-> <<c, 1>>, droits |-> Droits]
           un(c) == Insere(t, a(c))
           deux(c) == Insere(un(c), b(c))
<1>1. /\ appels < MaxAppels /\ appels' = appels + 1 /\ Libres(t) # {} /\ UNCHANGED <<file, fil, morts, clos>>
  BY DEF Cree, Appelle
<1>2. PICK c \in {d \in Canaux : auteur[d] = Nul} :
          \/ /\ Cardinality(Libres(t)) > 1
             /\ table' = [table EXCEPT ![p] = deux(c)]
             /\ auteur' = [auteur EXCEPT ![c] = p]
             /\ emis' = [emis EXCEPT ![p] = @ \cup {<<IdPose(t), <<c, 0>>>>, <<IdPose(un(c)), <<c, 1>>>>}]
             /\ rendus' = [rendus EXCEPT ![p] = @ \cup {IdPose(t), IdPose(un(c))}]
          \/ /\ table' = [table EXCEPT ![p] =
                   IF Cardinality(Libres(@)) > 1
                   THEN Retire(Retire(deux(c), IdPose(@)), IdPose(un(c)))
                   ELSE Retire(un(c), IdPose(@))]
             /\ UNCHANGED <<auteur, emis, rendus>>
  BY DEF Cree
<1>3. p \in Procs /\ c \in Canaux /\ auteur[c] = Nul
  BY HandlesAssumption
<1>4. a(c) \in Entrees /\ b(c) \in Entrees
  BY <1>3 DEF Entrees, Extremites
<1>5. /\ t \in Tables /\ Registre(t, emis[p], clos[p], rendus[p])
      /\ emis[p] \in SUBSET (Identifiants \X Extremites) /\ rendus[p] \in SUBSET Identifiants
      /\ clos[p] \in SUBSET Identifiants
  BY <1>3, DuProcessus
<1>6. /\ \A s \in Slots : t[s].gen \in Nat /\ t[s].gen + Cardinality(Vol(fil, p)) <= appels + 1
      /\ Cardinality(Vol(fil, p)) \in Nat /\ appels \in Nat
  BY <1>3, DesGenerations, DesFils
<1>7. \A s \in Slots : t[s].gen < GenMax
  BY <1>1, <1>6, HandlesAssumption
<1>8. clos' = [clos EXCEPT ![p] = clos[p]] /\ Vol(fil', p) = Vol(fil, p) /\ FilsDe(p, fil') /\ file' = file
  BY <1>1, <1>3, DesFils DEF FilsDe
<1>9. morts \subseteq morts' /\ morts' \subseteq Procs /\ appels' \in 0..MaxAppels /\ appels <= appels'
  BY <1>1, DesFils, HandlesAssumption
<1>10. /\ \A g \in Fils : ProcDe[g] = p /\ fil'[g].id # Nul =>
             /\ fil'[g].id \in Identifiants /\ fil'[g].id \notin rendus[p]
             /\ \E x \in emis[p] : x[1] = fil'[g].id
             /\ p \notin morts' /\ fil'[g].id \notin clos[p] => Vivant(t, fil'[g].id)
       /\ \A g, h \in Fils : g # h /\ ProcDe[g] = p /\ ProcDe[h] = p /\ fil'[g].id # Nul => fil'[g].id # fil'[h].id
       /\ p \notin morts' => \A j \in rendus[p] \ clos[p] : Vivant(t, j)
  BY <1>1, <1>3, DuProcessus
<1>11. \A s \in Slots : t[s].entree # Nul => PermisA(t[s].entree, p, auteur)
  BY <1>3, DuProcessus
<1> DEFINE u == un(c)
           v == deux(c)
           i == IdPose(t)
           j == IdPose(u)
           ep == emis[p] \cup {<<i, <<c, 0>>>>, <<j, <<c, 1>>>>}
           rp == rendus[p] \cup {i, j}
           w == IF Cardinality(Libres(t)) > 1 THEN Retire(Retire(v, i), j) ELSE Retire(u, i)
<1>12. CASE /\ Cardinality(Libres(t)) > 1
            /\ table' = [table EXCEPT ![p] = v] /\ auteur' = [auteur EXCEPT ![c] = p]
            /\ emis' = [emis EXCEPT ![p] = ep] /\ rendus' = [rendus EXCEPT ![p] = rp]
  <2>1. /\ Premier(t) \in Slots /\ u \in Tables /\ u[Premier(t)] = [gen |-> t[Premier(t)].gen + 1, entree |-> a(c)]
        /\ \A s \in Slots : s # Premier(t) => u[s] = t[s]
        /\ i \in Identifiants
    <3>1. Premier(t) \in Slots
      BY <1>1, PremierLibre DEF Libres
    <3> QED BY <1>1, <1>4, <1>5, <1>7, <3>1, InsereFaits
  <2>2. /\ Libres(u) # {} /\ Premier(u) \in Slots /\ Premier(u) # Premier(t)
        /\ u[Premier(u)] = t[Premier(u)] /\ u[Premier(u)].gen < GenMax
    <3> HIDE DEF a, t
    <3> QED BY <1>1, <1>4, <1>5, <1>7, <1>12, DeuxLibres
  <2>3. a(c).objet = <<c, 0>> /\ b(c).objet = <<c, 1>> /\ <<c, 0>> \in Extremites /\ <<c, 1>> \in Extremites
    BY <1>3 DEF Extremites
  <2> DEFINE e1 == emis[p] \cup {<<i, <<c, 0>>>>}
  <2>4. /\ Registre(u, e1, clos[p], rendus[p])
        /\ \A k \in Identifiants : Vivant(t, k) => Vivant(u, k) /\ k # i
        /\ Vivant(u, i) /\ i \notin clos[p] \cup rendus[p] /\ \A x \in emis[p] : x[1] # i
    <3>1. /\ Registre(u, emis[p] \cup {<<i, a(c).objet>>}, clos[p], rendus[p])
          /\ \A k \in Identifiants : Vivant(t, k) => Vivant(u, k) /\ k # i
          /\ Vivant(u, i) /\ i \notin clos[p] \cup rendus[p] /\ \A x \in emis[p] : x[1] # i
      <4> HIDE DEF a, t
      <4> QED BY <1>1, <1>4, <1>5, <1>7, <2>1, InsereRegistre
    <3> QED BY <2>3, <3>1
  <2>5. e1 \in SUBSET (Identifiants \X Extremites)
    BY <1>5, <2>1, <2>3
  <2> HIDE DEF u
  <2>6. /\ v \in Tables /\ v[Premier(u)] = [gen |-> u[Premier(u)].gen + 1, entree |-> b(c)]
        /\ \A s \in Slots : s # Premier(u) => v[s] = u[s]
        /\ j \in Identifiants
    <3>1. v = Insere(u, b(c))
      BY DEF u
    <3> HIDE DEF v, b
    <3> QED BY <1>4, <2>1, <2>2, <3>1, InsereFaits
  <2>7. /\ Registre(v, e1 \cup {<<j, <<c, 1>>>>}, clos[p], rendus[p])
        /\ \A k \in Identifiants : Vivant(u, k) => Vivant(v, k) /\ k # j
        /\ Vivant(v, j) /\ j \notin clos[p] \cup rendus[p] /\ \A x \in e1 : x[1] # j
    <3>1. v = Insere(u, b(c))
      BY DEF u
    <3> HIDE DEF v, b, e1
    <3>2. /\ Registre(v, e1 \cup {<<j, b(c).objet>>}, clos[p], rendus[p])
          /\ \A k \in Identifiants : Vivant(u, k) => Vivant(v, k) /\ k # j
          /\ Vivant(v, j) /\ j \notin clos[p] \cup rendus[p] /\ \A x \in e1 : x[1] # j
      BY <1>4, <2>1, <2>2, <2>4, <2>5, <3>1, InsereRegistre
    <3> QED BY <2>3, <3>2
  <2> HIDE DEF v, i, j
  <2>8. ep = e1 \cup {<<j, <<c, 1>>>>}
    OBVIOUS
  <2>9. Registre(v, ep, clos[p], rp)
    <3>1. \E x \in ep : x[1] = i
      <4>1. <<i, <<c, 0>>>> \in ep /\ <<i, <<c, 0>>>>[1] = i
        OBVIOUS
      <4> QED BY <4>1
    <3>2. \E x \in ep : x[1] = j
      <4>1. <<j, <<c, 1>>>> \in ep /\ <<j, <<c, 1>>>>[1] = j
        OBVIOUS
      <4> QED BY <4>1
    <3>3. Registre(v, ep, clos[p], rendus[p])
      BY <2>7, <2>8
    <3> HIDE DEF ep
    <3> QED BY <3>1, <3>2, <3>3 DEF Registre
  <2>10. ep \in SUBSET (Identifiants \X Extremites) /\ rp \in SUBSET Identifiants /\ clos[p] \in SUBSET Identifiants
    BY <1>5, <2>1, <2>3, <2>6
  <2>11. Vivant(v, i) /\ Vivant(v, j) /\ \A k \in Identifiants : Vivant(t, k) => Vivant(v, k)
    BY <2>1, <2>4, <2>7
  <2>12. \A x \in emis[p] : x[1] # i /\ x[1] # j /\ x \in ep
    BY <2>4, <2>7
  <2>13. ASSUME NEW g \in Fils, ProcDe[g] = p, fil'[g].id # Nul
         PROVE  /\ fil'[g].id \notin rp /\ \E x \in ep : x[1] = fil'[g].id
                /\ p \notin morts' /\ fil'[g].id \notin clos[p] => Vivant(v, fil'[g].id)
    <3>1. PICK x \in emis[p] : x[1] = fil'[g].id
      BY <1>10, <2>13
    <3> QED BY <1>10, <2>11, <2>12, <2>13, <3>1
  <2>14. p \notin morts' => \A k \in rp \ clos[p] : Vivant(v, k)
    BY <1>5, <1>10, <2>11
  <2>15. IdsDe(p, v, ep, clos[p], rp, fil', morts')
    BY <1>10, <2>9, <2>10, <2>13, <2>14 DEF IdsDe
  <2>16. /\ auteur' \in [Canaux -> Procs \cup {Nul}] /\ auteur'[c] = p /\ p # Nul
         /\ \A d \in Canaux : auteur[d] # Nul => auteur'[d] = auteur[d]
    BY <1>3, <1>12, DesFils, DepartAssumption
  <2>17. ASSUME NEW s \in Slots, v[s].entree # Nul PROVE PermisA(v[s].entree, p, auteur')
    <3>1. PermisA(a(c), p, auteur') /\ PermisA(b(c), p, auteur')
      BY <2>16 DEF PermisA
    <3>2. CASE s = Premier(u)
      BY <2>6, <3>1, <3>2
    <3>3. CASE s = Premier(t)
      BY <2>1, <2>2, <2>6, <3>1, <3>3
    <3>4. CASE s # Premier(u) /\ s # Premier(t)
      <4>1. v[s] = t[s] /\ t[s].entree # Nul
        BY <2>1, <2>6, <2>17, <3>4
      <4>2. t[s].entree \in Entrees
        BY <1>5, <4>1 DEF Tables, Cases
      <4>3. PermisA(t[s].entree, p, auteur)
        BY <1>11, <4>1
      <4> HIDE DEF t
      <4> QED BY <1>3, <2>16, <4>1, <4>2, <4>3, PermisMonte
    <3> QED BY <3>2, <3>3, <3>4
  <2>18. ASSUME NEW s \in Slots PROVE v[s].gen + Cardinality(Vol(fil', p)) <= appels' + 1
    <3>1. v[s].gen = t[s].gen \/ v[s].gen = t[s].gen + 1
      <4> HIDE DEF a, b, t
      <4> QED BY <2>1, <2>2, <2>6
    <3> HIDE DEF Vol
    <3> QED BY <1>1, <1>6, <1>8, <3>1
  <2>19. TableDe(p, v, fil', auteur', appels')
    BY <2>6, <2>17, <2>18 DEF TableDe
  <2>20. ResteDe(auteur', morts', appels')
    BY <1>9, <2>16 DEF ResteDe
  <2> HIDE DEF p, ep, rp
  <2> QED BY <1>3, <1>8, <1>12, <2>15, <2>19, <2>20, UnProcessus
<1>13. CASE table' = [table EXCEPT ![p] = w] /\ UNCHANGED <<auteur, emis, rendus>>
  <2>1. /\ w \in Tables
        /\ \A s \in Slots : w[s] = t[s] \/ (t[s].entree = Nul /\ w[s].entree = Nul /\ w[s].gen = t[s].gen + 1)
    <3> HIDE DEF a, b, t
    <3> QED BY <1>1, <1>4, <1>5, <1>7, CreationAnnulee
  <2> HIDE DEF w
  <2>2. \A s \in Slots : w[s] = t[s] \/ (t[s].entree = Nul /\ w[s].entree = Nul /\ w[s].gen >= t[s].gen)
    BY <1>6, <2>1
  <2>3. Registre(w, emis[p], clos[p], rendus[p]) /\ \A k \in Identifiants : Vivant(t, k) => Vivant(w, k)
    BY <1>5, <2>1, <2>2, SautRegistre
  <2>4. IdsDe(p, w, emis[p], clos[p], rendus[p], fil', morts')
    <3> HIDE DEF t
    <3> QED BY <1>5, <1>10, <2>3 DEF IdsDe
  <2>5. TableDe(p, w, fil', auteur', appels')
    <3>1. ASSUME NEW s \in Slots, w[s].entree # Nul PROVE PermisA(w[s].entree, p, auteur')
      BY <1>11, <1>13, <2>1, <3>1
    <3>2. ASSUME NEW s \in Slots PROVE w[s].gen + Cardinality(Vol(fil', p)) <= appels' + 1
      <4>1. w[s].gen = t[s].gen \/ w[s].gen = t[s].gen + 1
        BY <2>1
      <4> HIDE DEF Vol
      <4> QED BY <1>1, <1>6, <1>8, <4>1
    <3> QED BY <2>1, <3>1, <3>2 DEF TableDe
  <2>6. ResteDe(auteur', morts', appels')
    BY <1>9, <1>13, DesFils DEF ResteDe
  <2>7. emis' = [emis EXCEPT ![p] = emis[p]] /\ rendus' = [rendus EXCEPT ![p] = rendus[p]]
    BY <1>3, <1>13, DesFils
  <2> HIDE DEF p
  <2> QED BY <1>3, <1>8, <1>13, <2>4, <2>5, <2>6, <2>7, UnProcessus
<1> QED BY <1>2, <1>3, <1>12, <1>13, DesFils

----------------------------------------------------------------------------
(* Every step keeps the invariant. *)
LEMMA SuiteInv ==
    ASSUME IInv, [Next]_vars
    PROVE  IInv'
<1>1. ASSUME NEW f \in Fils,
             \/ Ferme(f) \/ Duplique(f) \/ Cree(f) \/ Send(f)
             \/ RecvDebut(f) \/ RecvPrend(f) \/ RecvRefuse(f) \/ RecvInstalle(f)
             \/ RecvRend(f) \/ RecvAnnule(f) \/ RequeueFront(f)
      PROVE  IInv'
  BY <1>1, FermeInv, DupliqueInv, CreeInv, SendInv, RecvDebutInv, RecvPrendInv, RecvRefuseInv,
     RecvInstalleInv, RecvRendInv, RecvAnnuleInv, RequeueFrontInv
<1>2. ASSUME NEW p \in Procs, Meurt(p) PROVE IInv'
  BY <1>2, MeurtInv
<1>3. ASSUME UNCHANGED vars PROVE IInv'
  <2>1. UNCHANGED <<table, file, auteur, fil, morts, appels, emis, rendus, clos>>
    BY <1>3 DEF vars, noyau, histoire
  <2> QED BY <2>1 DEF IInv, Types, DroitsInv, GenInv, RegistreInv, EnCoursInv, VivantsInv
<1> QED BY <1>1, <1>2, <1>3 DEF Next

(* Whatever the threads of a process and its peers do, an id that was closed        *)
(* designates nothing any more, and an id that was returned designates its object   *)
(* until the process closes it: no other thread's late close and no roll-back of a  *)
(* receive takes it away or gives it another object (table.rs, dispatch.rs).        *)
THEOREM HandlesToujoursFideles == Spec => []HandlesFideles
<1>1. Init => IInv
  BY InitInv
<1>2. IInv /\ [Next]_vars => IInv'
  BY SuiteInv
<1>3. IInv => HandlesFideles
  <2> SUFFICES ASSUME IInv, NEW p \in Procs \ morts, NEW x \in emis[p]
               PROVE  /\ Lookup(p, x[1]) # Nul => Lookup(p, x[1]).objet = x[2] /\ x[1] \notin clos[p]
                      /\ x[1] \in rendus[p] \ clos[p] => Lookup(p, x[1]) # Nul
    BY DEF HandlesFideles
  <2>1. /\ Registre(table[p], emis[p], clos[p], rendus[p]) /\ emis[p] \in SUBSET (Identifiants \X Extremites)
        /\ \A id \in rendus[p] \ clos[p] : Vivant(table[p], id)
    BY DuProcessus
  <2>2. x[1] \in Identifiants /\ x[1] = <<x[1][1], x[1][2]>> /\ x[1][1] \in Slots
    BY <2>1 DEF Identifiants
  <2>3. ASSUME Lookup(p, x[1]) # Nul PROVE Lookup(p, x[1]).objet = x[2] /\ x[1] \notin clos[p]
    <3> DEFINE s == x[1][1]
    <3>1. table[p][s].gen = x[1][2] /\ Lookup(p, x[1]) = table[p][s].entree
      BY <2>3 DEF Lookup
    <3>2. x[1] = <<s, table[p][s].gen>>
      BY <2>2, <3>1
    <3>3. <<x[1], table[p][s].entree.objet>> \in emis[p] /\ x[1] \notin clos[p]
      BY <2>1, <2>2, <2>3, <3>1, <3>2 DEF Registre
    <3>4. table[p][s].entree.objet = x[2]
      <4>1. \A y, z \in emis[p] : y[1] = z[1] => y[2] = z[2]
        BY <2>1 DEF Registre
      <4> QED BY <3>3, <4>1
    <3> QED BY <3>1, <3>3, <3>4
  <2>4. ASSUME x[1] \in rendus[p] \ clos[p] PROVE Lookup(p, x[1]) # Nul
    BY <2>1, <2>2, <2>4 DEF Lookup, Vivant, Identifiants
  <2> QED BY <2>3, <2>4
<1> QED BY <1>1, <1>2, <1>3, PTL DEF Spec

(* Whatever the chain of duplications, transfers, receives given up and messages    *)
(* put back, a process holds on a channel another created only rights that some     *)
(* mask of the creator let through (politique_corps.rs).                            *)
THEOREM DroitsToujoursBornes == Spec => []DroitsBornes
<1>1. Init => IInv
  BY InitInv
<1>2. IInv /\ [Next]_vars => IInv'
  BY SuiteInv
<1>3. IInv => DroitsBornes
  BY DEF IInv, DroitsInv, PermisA, DroitsBornes
<1> QED BY <1>1, <1>2, <1>3, PTL DEF Spec

----------------------------------------------------------------------------
(* The messages *)

(* the receives that hold a message of e *)
Tiennent(e, th) == {f \in Fils : th[f].sur = e /\ th[f].message # Nul}
Numero(th, f) == th[f].message.numero

(* queue q, holders T, deliveries r: no number is at two places, those sent, env, are at one, *)
(* and none is above n *)
Ranges(q, T, th, r, env, n) ==
    /\ \A i, j \in 1..Len(q) : q[i].numero = q[j].numero => i = j
    /\ \A i, j \in 1..Len(r) : r[i] = r[j] => i = j
    /\ \A f, g \in T : Numero(th, f) = Numero(th, g) => f = g
    /\ \A i \in 1..Len(q) : /\ q[i].numero <= n
                            /\ \A f \in T : q[i].numero # Numero(th, f)
                            /\ \A j \in 1..Len(r) : q[i].numero # r[j]
    /\ \A f \in T : Numero(th, f) <= n /\ \A j \in 1..Len(r) : Numero(th, f) # r[j]
    /\ \A j \in 1..Len(r) : r[j] <= n
    /\ \A k \in env : \/ \E i \in 1..Len(q) : q[i].numero = k
                      \/ \E f \in T : Numero(th, f) = k
                      \/ \E j \in 1..Len(r) : r[j] = k

(* delivered, then held, then queued *)
Ordonnes(q, T, th, r) ==
    /\ \A i, j \in 1..Len(q) : i < j => q[i].numero < q[j].numero
    /\ EnOrdre(r)
    /\ \A i \in 1..Len(r), j \in 1..Len(q) : r[i] < q[j].numero
    /\ \A f \in T : /\ \A i \in 1..Len(r) : r[i] < Numero(th, f)
                    /\ \A j \in 1..Len(q) : Numero(th, f) < q[j].numero

(* recv moves the front of the queue to the receive. *)
LEMMA PrendRange ==
    ASSUME NEW q \in Seq(Messages), q # <<>>, NEW r \in Seq(Int), NEW T, NEW f, f \notin T, NEW th, NEW th2,
           \A g \in T : Numero(th2, g) = Numero(th, g), Numero(th2, f) = Head(q).numero, NEW env, NEW n
    PROVE  /\ Ranges(q, T, th, r, env, n) => Ranges(Tail(q), T \cup {f}, th2, r, env, n)
           /\ Ordonnes(q, T, th, r) /\ T = {} => Ordonnes(Tail(q), T \cup {f}, th2, r)
<1> DEFINE u == Tail(q)
<1>1. /\ Len(u) = Len(q) - 1 /\ Len(q) \in Nat /\ Len(u) \in Nat /\ \A i \in 1..Len(u) : u[i] = q[i + 1]
  BY HeadTailProperties, LenProperties
<1>2. Head(q) = q[1] /\ 1 \in 1..Len(q)
  BY EmptySeq, LenProperties
<1> HIDE DEF u
<1>3. \A i \in 1..Len(u) : i + 1 \in 1..Len(q) /\ i + 1 # 1
  BY <1>1
<1>4. \A i \in 1..Len(q) : i # 1 => i - 1 \in 1..Len(u) /\ u[i - 1] = q[i]
  BY <1>1
<1>5. ASSUME Ranges(q, T, th, r, env, n) PROVE Ranges(u, T \cup {f}, th2, r, env, n)
  <2>1. \A i, j \in 1..Len(u) : u[i].numero = u[j].numero => i = j
    BY <1>1, <1>3, <1>5 DEF Ranges
  <2>2. \A g, h \in T \cup {f} : Numero(th2, g) = Numero(th2, h) => g = h
    BY <1>2, <1>5 DEF Ranges
  <2>3. \A i \in 1..Len(u) : /\ u[i].numero <= n
                             /\ \A g \in T \cup {f} : u[i].numero # Numero(th2, g)
                             /\ \A j \in 1..Len(r) : u[i].numero # r[j]
    <3> TAKE i \in 1..Len(u)
    <3>1. i + 1 \in 1..Len(q) /\ i + 1 # 1 /\ u[i] = q[i + 1]
      BY <1>1, <1>3
    <3>2. q[i + 1].numero <= n /\ \A j \in 1..Len(r) : q[i + 1].numero # r[j]
      BY <1>5, <3>1 DEF Ranges
    <3>3. \A g \in T : q[i + 1].numero # Numero(th2, g)
      BY <1>5, <3>1 DEF Ranges
    <3>4. q[i + 1].numero # Numero(th2, f)
      BY <1>2, <1>5, <3>1 DEF Ranges
    <3> QED BY <3>1, <3>2, <3>3, <3>4
  <2>4. \A g \in T \cup {f} : Numero(th2, g) <= n /\ \A j \in 1..Len(r) : Numero(th2, g) # r[j]
    BY <1>2, <1>5 DEF Ranges
  <2>5. ASSUME NEW k \in env
        PROVE  \/ \E i \in 1..Len(u) : u[i].numero = k
               \/ \E g \in T \cup {f} : Numero(th2, g) = k
               \/ \E j \in 1..Len(r) : r[j] = k
    <3>1. CASE \E i \in 1..Len(q) : q[i].numero = k
      <4>1. PICK i \in 1..Len(q) : q[i].numero = k
        BY <3>1
      <4>2. CASE i = 1
        BY <1>2, <4>1, <4>2
      <4>3. CASE i # 1
        BY <1>4, <4>1, <4>3
      <4> QED BY <4>2, <4>3
    <3>2. CASE \E g \in T : Numero(th, g) = k
      BY <3>2
    <3> QED BY <1>5, <3>1, <3>2 DEF Ranges
  <2> QED BY <1>5, <2>1, <2>2, <2>3, <2>4, <2>5 DEF Ranges
<1>6. ASSUME Ordonnes(q, T, th, r), T = {} PROVE Ordonnes(u, T \cup {f}, th2, r)
  <2>1. \A i, j \in 1..Len(u) : i < j => u[i].numero < u[j].numero
    <3> TAKE i, j \in 1..Len(u)
    <3>1. i < j => i + 1 < j + 1
      BY <1>1
    <3> QED BY <1>1, <1>3, <1>6, <3>1 DEF Ordonnes
  <2>2. \A i \in 1..Len(r), j \in 1..Len(u) : r[i] < u[j].numero
    BY <1>1, <1>3, <1>6 DEF Ordonnes
  <2>3. \A i \in 1..Len(r) : r[i] < Numero(th2, f)
    BY <1>2, <1>6 DEF Ordonnes
  <2>4. \A j \in 1..Len(u) : Numero(th2, f) < u[j].numero
    <3> TAKE j \in 1..Len(u)
    <3>1. 1 < j + 1
      BY <1>1
    <3> QED BY <1>1, <1>2, <1>3, <1>6, <3>1 DEF Ordonnes
  <2> QED BY <1>6, <2>1, <2>2, <2>3, <2>4 DEF Ordonnes
<1> QED BY <1>5, <1>6 DEF u

(* requeue_front moves it back. *)
LEMMA RemetRange ==
    ASSUME NEW q \in Seq(Messages), NEW r \in Seq(Int), NEW T, NEW f \in T, NEW th, NEW th2,
           \A g \in T \ {f} : Numero(th2, g) = Numero(th, g), th[f].message \in Messages, NEW env, NEW n
    PROVE  /\ Ranges(q, T, th, r, env, n) => Ranges(<<th[f].message>> \o q, T \ {f}, th2, r, env, n)
           /\ Ordonnes(q, T, th, r) /\ T = {f} => Ordonnes(<<th[f].message>> \o q, T \ {f}, th2, r)
<1> DEFINE m == th[f].message
           u == <<m>> \o q
<1>1. Numero(th, f) = m.numero
  BY DEF Numero
<1>2. <<m>> \in Seq(Messages) /\ Len(<<m>>) = 1 /\ <<m>>[1] = m
  OBVIOUS
<1> HIDE DEF m
<1>3. /\ Len(u) = 1 + Len(q)
      /\ \A i \in 1..1 + Len(q) : u[i] = IF i <= 1 THEN <<m>>[i] ELSE q[i - 1]
  BY <1>2, ConcatProperties
<1>4. Len(q) \in Nat
  BY LenProperties
<1> HIDE DEF u
<1>5. /\ Len(u) \in Nat /\ 1 \in 1..Len(u) /\ u[1] = m
      /\ \A i \in 1..Len(u) : i # 1 => i - 1 \in 1..Len(q) /\ u[i] = q[i - 1]
      /\ \A i \in 1..Len(q) : i + 1 \in 1..Len(u) /\ u[i + 1] = q[i]
  BY <1>2, <1>3, <1>4
<1>6. ASSUME Ranges(q, T, th, r, env, n) PROVE Ranges(u, T \ {f}, th2, r, env, n)
  <2>1. \A i, j \in 1..Len(u) : u[i].numero = u[j].numero => i = j
    <3> TAKE i, j \in 1..Len(u)
    <3>1. \A k \in 1..Len(q) : q[k].numero # m.numero
      BY <1>1, <1>6 DEF Ranges
    <3>2. \A k, z \in 1..Len(q) : q[k].numero = q[z].numero => k = z
      BY <1>6 DEF Ranges
    <3>3. \A k \in 1..Len(u) : k # 1 => k - 1 \in 1..Len(q) /\ u[k] = q[k - 1] /\ u[k].numero # m.numero
      <4> TAKE k \in 1..Len(u)
      <4>1. k # 1 => k - 1 \in 1..Len(q) /\ u[k] = q[k - 1]
        BY <1>5
      <4>2. k - 1 \in 1..Len(q) => q[k - 1].numero # m.numero
        BY <3>1
      <4> QED BY <4>1, <4>2
    <3>4. CASE i = 1 \/ j = 1
      BY <1>5, <3>3, <3>4
    <3>5. ASSUME i # 1, j # 1, u[i].numero = u[j].numero PROVE i = j
      <4>1. /\ i - 1 \in 1..Len(q) /\ j - 1 \in 1..Len(q)
            /\ q[i - 1].numero = q[j - 1].numero
        BY <3>3, <3>5
      <4>2. i - 1 = j - 1
        BY <3>2, <4>1
      <4> QED BY <1>5, <4>2
    <3> QED BY <3>4, <3>5
  <2>2. \A g, h \in T \ {f} : Numero(th2, g) = Numero(th2, h) => g = h
    BY <1>6 DEF Ranges
  <2>3. \A i \in 1..Len(u) : /\ u[i].numero <= n
                             /\ \A g \in T \ {f} : u[i].numero # Numero(th2, g)
                             /\ \A j \in 1..Len(r) : u[i].numero # r[j]
    <3> TAKE i \in 1..Len(u)
    <3>1. CASE i = 1
      BY <1>1, <1>5, <1>6, <3>1 DEF Ranges
    <3>2. CASE i # 1
      <4>1. i - 1 \in 1..Len(q) /\ u[i] = q[i - 1]
        BY <1>5, <3>2
      <4>2. q[i - 1].numero <= n /\ \A j \in 1..Len(r) : q[i - 1].numero # r[j]
        BY <1>6, <4>1 DEF Ranges
      <4>3. \A g \in T \ {f} : q[i - 1].numero # Numero(th2, g)
        <5>1. \A g \in T : q[i - 1].numero # Numero(th, g)
          BY <1>6, <4>1 DEF Ranges
        <5> QED BY <5>1
      <4> QED BY <4>1, <4>2, <4>3
    <3> QED BY <3>1, <3>2
  <2>4. \A g \in T \ {f} : Numero(th2, g) <= n /\ \A j \in 1..Len(r) : Numero(th2, g) # r[j]
    BY <1>6 DEF Ranges
  <2>5. ASSUME NEW k \in env
        PROVE  \/ \E i \in 1..Len(u) : u[i].numero = k
               \/ \E g \in T \ {f} : Numero(th2, g) = k
               \/ \E j \in 1..Len(r) : r[j] = k
    <3>1. CASE \E i \in 1..Len(q) : q[i].numero = k
      BY <1>5, <3>1
    <3>2. CASE \E g \in T : Numero(th, g) = k
      BY <1>1, <1>5, <3>2
    <3> QED BY <1>6, <3>1, <3>2 DEF Ranges
  <2> QED BY <1>6, <2>1, <2>2, <2>3, <2>4, <2>5 DEF Ranges
<1>7. ASSUME Ordonnes(q, T, th, r), T = {f} PROVE Ordonnes(u, T \ {f}, th2, r)
  <2>1. \A i, j \in 1..Len(u) : i < j => u[i].numero < u[j].numero
    <3> SUFFICES ASSUME NEW i \in 1..Len(u), NEW j \in 1..Len(u), i < j PROVE u[i].numero < u[j].numero
      OBVIOUS
    <3>1. j # 1 /\ j - 1 \in 1..Len(q) /\ u[j] = q[j - 1]
      BY <1>5
    <3>2. CASE i = 1
      BY <1>1, <1>5, <1>7, <3>1, <3>2 DEF Ordonnes
    <3>3. CASE i # 1
      <4>1. i - 1 < j - 1 /\ i - 1 \in 1..Len(q) /\ u[i] = q[i - 1]
        BY <1>5, <3>3
      <4> QED BY <1>7, <3>1, <4>1 DEF Ordonnes
    <3> QED BY <3>2, <3>3
  <2>2. \A i \in 1..Len(r), j \in 1..Len(u) : r[i] < u[j].numero
    <3> TAKE i \in 1..Len(r), j \in 1..Len(u)
    <3>1. CASE j = 1
      BY <1>1, <1>5, <1>7, <3>1 DEF Ordonnes
    <3>2. CASE j # 1
      BY <1>5, <1>7, <3>2 DEF Ordonnes
    <3> QED BY <3>1, <3>2
  <2> QED BY <1>7, <2>1, <2>2 DEF Ordonnes
<1> QED BY <1>6, <1>7 DEF u, m

(* The delivery moves the message out of the receive. *)
LEMMA RendRange ==
    ASSUME NEW q \in Seq(Messages), NEW r \in Seq(Int), NEW T, NEW f \in T, NEW th, NEW th2,
           \A g \in T \ {f} : Numero(th2, g) = Numero(th, g), Numero(th, f) \in Int, NEW env, NEW n
    PROVE  /\ Ranges(q, T, th, r, env, n) => Ranges(q, T \ {f}, th2, Append(r, Numero(th, f)), env, n)
           /\ Ordonnes(q, T, th, r) /\ T = {f} => Ordonnes(q, T \ {f}, th2, Append(r, Numero(th, f)))
<1> DEFINE m == Numero(th, f)
           u == Append(r, m)
           l == Len(r) + 1
<1> HIDE DEF m
<1>1. /\ Len(u) = l /\ \A i \in 1..Len(r) : u[i] = r[i]
      /\ u[l] = m /\ Len(r) \in Nat
  BY AppendProperties, LenProperties DEF m
<1> HIDE DEF u
<1>2. /\ Len(u) \in Nat /\ l \in 1..Len(u) /\ u[l] = m
      /\ \A i \in 1..Len(u) : i # l => i \in 1..Len(r) /\ u[i] = r[i]
      /\ \A i \in 1..Len(r) : i \in 1..Len(u) /\ i < l /\ u[i] = r[i]
      /\ \A i \in 1..Len(u) : ~(l < i)
  BY <1>1
<1> HIDE DEF l
<1>3. ASSUME Ranges(q, T, th, r, env, n) PROVE Ranges(q, T \ {f}, th2, u, env, n)
  <2>1. \A i, j \in 1..Len(u) : u[i] = u[j] => i = j
    <3> TAKE i, j \in 1..Len(u)
    <3>1. \A k \in 1..Len(r) : r[k] # m
      BY <1>3 DEF Ranges, m
    <3>2. \A k, z \in 1..Len(r) : r[k] = r[z] => k = z
      BY <1>3 DEF Ranges
    <3> QED BY <1>2, <3>1, <3>2
  <2>2. \A g, h \in T \ {f} : Numero(th2, g) = Numero(th2, h) => g = h
    BY <1>3 DEF Ranges
  <2>3. \A i \in 1..Len(q) : /\ q[i].numero <= n
                             /\ \A g \in T \ {f} : q[i].numero # Numero(th2, g)
                             /\ \A j \in 1..Len(u) : q[i].numero # u[j]
    <3> TAKE i \in 1..Len(q)
    <3>1. \A j \in 1..Len(u) : q[i].numero # u[j]
      BY <1>2, <1>3 DEF Ranges, m
    <3> QED BY <1>3, <3>1 DEF Ranges
  <2>4. \A g \in T \ {f} : Numero(th2, g) <= n /\ \A j \in 1..Len(u) : Numero(th2, g) # u[j]
    <3> TAKE g \in T \ {f}
    <3>1. Numero(th2, g) # m
      BY <1>3 DEF Ranges, m
    <3> QED BY <1>2, <1>3, <3>1 DEF Ranges
  <2>5. \A j \in 1..Len(u) : u[j] <= n
    BY <1>2, <1>3 DEF Ranges, m
  <2>6. ASSUME NEW k \in env
        PROVE  \/ \E i \in 1..Len(q) : q[i].numero = k
               \/ \E g \in T \ {f} : Numero(th2, g) = k
               \/ \E j \in 1..Len(u) : u[j] = k
    <3>1. CASE \E g \in T : Numero(th, g) = k
      BY <1>2, <3>1 DEF m
    <3>2. CASE \E j \in 1..Len(r) : r[j] = k
      BY <1>2, <3>2
    <3> QED BY <1>3, <3>1, <3>2 DEF Ranges
  <2> QED BY <1>3, <2>1, <2>2, <2>3, <2>4, <2>5, <2>6 DEF Ranges
<1>4. ASSUME Ordonnes(q, T, th, r), T = {f} PROVE Ordonnes(q, T \ {f}, th2, u)
  <2>1. EnOrdre(u)
    <3> SUFFICES ASSUME NEW i \in 1..Len(u), NEW j \in 1..Len(u), i < j PROVE u[i] < u[j]
      BY DEF EnOrdre
    <3>1. i # l /\ i \in 1..Len(r) /\ u[i] = r[i]
      BY <1>2
    <3>2. CASE j = l
      BY <1>2, <1>4, <3>1, <3>2 DEF Ordonnes, m
    <3>3. CASE j # l
      BY <1>2, <1>4, <3>1, <3>3 DEF Ordonnes, EnOrdre
    <3> QED BY <3>2, <3>3
  <2>2. \A i \in 1..Len(u), j \in 1..Len(q) : u[i] < q[j].numero
    BY <1>2, <1>4 DEF Ordonnes, m
  <2> QED BY <1>4, <2>1, <2>2 DEF Ordonnes
<1> QED BY <1>3, <1>4 DEF u, m

(* A send appends a message with a new number. *)
LEMMA EnvoieRange ==
    ASSUME NEW q \in Seq(Messages), NEW r \in Seq(Int), NEW T, NEW th, NEW env, NEW n \in Int,
           \A f \in T : Numero(th, f) \in Int,
           NEW m \in Messages, m.numero = n + 1, Ranges(q, T, th, r, env, n)
    PROVE  /\ Ranges(Append(q, m), T, th, r, env \cup {n + 1}, n + 1)
           /\ Ordonnes(q, T, th, r) => Ordonnes(Append(q, m), T, th, r)
<1> DEFINE u == Append(q, m)
           l == Len(q) + 1
<1>1. /\ Len(u) = l /\ \A i \in 1..Len(q) : u[i] = q[i]
      /\ u[l] = m /\ Len(q) \in Nat /\ Len(r) \in Nat
  BY AppendProperties, LenProperties
<1>2. \A i \in 1..Len(q) : q[i].numero \in Int
  <2> TAKE i \in 1..Len(q)
  <2>1. q[i] \in Messages
    BY ElementOfSeq
  <2> QED BY <2>1, HandlesAssumption DEF Messages, Numeros
<1>3. \A i \in 1..Len(r) : r[i] \in Int
  BY ElementOfSeq
<1> HIDE DEF u
<1>4. /\ Len(u) \in Nat /\ l \in 1..Len(u) /\ u[l] = m
      /\ \A i \in 1..Len(u) : i # l => i \in 1..Len(q) /\ u[i] = q[i]
      /\ \A i \in 1..Len(q) : i \in 1..Len(u) /\ i < l /\ u[i] = q[i]
      /\ \A i \in 1..Len(u) : ~(l < i)
  BY <1>1
<1> HIDE DEF l
<1>5. /\ \A i \in 1..Len(q) : q[i].numero < n + 1
      /\ \A f \in T : Numero(th, f) < n + 1
      /\ \A j \in 1..Len(r) : r[j] < n + 1
  BY <1>2, <1>3 DEF Ranges
<1>6. \A i \in 1..Len(u) : u[i].numero = n + 1 \/ (i \in 1..Len(q) /\ u[i] = q[i])
  BY <1>4
<1>7. Ranges(u, T, th, r, env \cup {n + 1}, n + 1)
  <2>1. \A i, j \in 1..Len(u) : u[i].numero = u[j].numero => i = j
    <3> TAKE i, j \in 1..Len(u)
    <3>1. \A k \in 1..Len(q) : q[k].numero # n + 1
      BY <1>2, <1>5
    <3>2. \A k, z \in 1..Len(q) : q[k].numero = q[z].numero => k = z
      BY DEF Ranges
    <3> QED BY <1>4, <3>1, <3>2
  <2>2. \A i \in 1..Len(u) : /\ u[i].numero <= n + 1
                             /\ \A f \in T : u[i].numero # Numero(th, f)
                             /\ \A j \in 1..Len(r) : u[i].numero # r[j]
    <3> TAKE i \in 1..Len(u)
    <3>1. CASE u[i].numero = n + 1
      BY <1>3, <1>5, <3>1
    <3>2. CASE i \in 1..Len(q) /\ u[i] = q[i]
      BY <1>2, <1>5, <3>2 DEF Ranges
    <3> QED BY <1>6, <3>1, <3>2
  <2>3. \A f \in T : Numero(th, f) <= n + 1 /\ \A j \in 1..Len(r) : Numero(th, f) # r[j]
    BY <1>5 DEF Ranges
  <2>4. \A j \in 1..Len(r) : r[j] <= n + 1
    BY <1>3, <1>5
  <2>5. ASSUME NEW k \in env \cup {n + 1}
        PROVE  \/ \E i \in 1..Len(u) : u[i].numero = k
               \/ \E f \in T : Numero(th, f) = k
               \/ \E j \in 1..Len(r) : r[j] = k
    <3>1. CASE k = n + 1
      BY <1>4, <3>1
    <3>2. CASE k \in env
      BY <1>4, <3>2 DEF Ranges
    <3> QED BY <3>1, <3>2
  <2> QED BY <2>1, <2>2, <2>3, <2>4, <2>5 DEF Ranges
<1>8. ASSUME Ordonnes(q, T, th, r) PROVE Ordonnes(u, T, th, r)
  <2>1. \A i, j \in 1..Len(u) : i < j => u[i].numero < u[j].numero
    <3> SUFFICES ASSUME NEW i \in 1..Len(u), NEW j \in 1..Len(u), i < j PROVE u[i].numero < u[j].numero
      OBVIOUS
    <3>1. i # l /\ i \in 1..Len(q) /\ u[i] = q[i]
      BY <1>4
    <3>2. CASE j = l
      BY <1>4, <1>5, <3>1, <3>2
    <3>3. CASE j # l
      BY <1>4, <1>8, <3>1, <3>3 DEF Ordonnes
    <3> QED BY <3>2, <3>3
  <2>2. \A i \in 1..Len(r), j \in 1..Len(u) : r[i] < u[j].numero
    BY <1>5, <1>6, <1>8 DEF Ordonnes
  <2>3. \A f \in T : \A j \in 1..Len(u) : Numero(th, f) < u[j].numero
    BY <1>5, <1>6, <1>8 DEF Ordonnes
  <2> QED BY <1>8, <2>1, <2>2, <2>3 DEF Ordonnes
<1> QED BY <1>7, <1>8 DEF u

(* Nothing moves. *)
LEMMA RangeFixe ==
    ASSUME NEW q \in Seq(Messages), NEW r \in Seq(Int), NEW T, NEW th, NEW th2, NEW env, NEW n \in Int, NEW n2 \in Int,
           n <= n2, \A f \in T : Numero(th, f) \in Int /\ Numero(th2, f) = Numero(th, f),
           Ranges(q, T, th, r, env, n)
    PROVE  /\ Ranges(q, T, th2, r, env, n2)
           /\ Ordonnes(q, T, th, r) => Ordonnes(q, T, th2, r)
<1>1. \A i \in 1..Len(q) : q[i].numero \in Int
  <2> TAKE i \in 1..Len(q)
  <2>1. q[i] \in Messages
    BY ElementOfSeq
  <2> QED BY <2>1, HandlesAssumption DEF Messages, Numeros
<1>2. \A i \in 1..Len(r) : r[i] \in Int
  BY ElementOfSeq
<1>3. /\ \A i \in 1..Len(q) : q[i].numero <= n2
      /\ \A f \in T : Numero(th2, f) <= n2
      /\ \A j \in 1..Len(r) : r[j] <= n2
  BY <1>1, <1>2 DEF Ranges
<1>4. Ranges(q, T, th2, r, env, n2)
  BY <1>3 DEF Ranges
<1>5. Ordonnes(q, T, th, r) => Ordonnes(q, T, th2, r)
  BY DEF Ordonnes
<1> QED BY <1>4, <1>5

(* one receive at a time *)
Seul(e, th) == \A f, g \in Fils : th[f].sur = e /\ th[g].sur = e => f = g

MessInv ==
    /\ recus \in [Extremites -> Seq(Int)] /\ envoyes \in [Extremites -> SUBSET Int]
    /\ \A f \in Fils : /\ fil[f].pas = "repos" => fil[f].sur = Nul
                       /\ fil[f].pas \in {"repos", "prend"} => fil[f].message = Nul
    /\ \A e \in Extremites : Ranges(file[e], Tiennent(e, fil), fil, recus[e], envoyes[e], appels)
    /\ \A e \in Extremites \ chevauche : Seul(e, fil) /\ Ordonnes(file[e], Tiennent(e, fil), fil, recus[e])

(* What the invariants say of an endpoint. *)
LEMMA DuPoint ==
    ASSUME IInv, MessInv, NEW e \in Extremites
    PROVE  /\ file[e] \in Seq(Messages) /\ recus[e] \in Seq(Int) /\ envoyes[e] \in SUBSET Int /\ appels \in Int /\ appels \in Nat
           /\ \A f \in Tiennent(e, fil) : fil[f].message \in Messages /\ Numero(fil, f) \in Int
           /\ Ranges(file[e], Tiennent(e, fil), fil, recus[e], envoyes[e], appels)
           /\ e \notin chevauche => Seul(e, fil) /\ Ordonnes(file[e], Tiennent(e, fil), fil, recus[e])
<1>1. Types
  BY DEF IInv
<1>2. Courrier(auteur) \subseteq Messages
  BY DEF Courrier
<1>3. file[e] \in Seq(Messages)
  <2>1. file[e] \in Seq(Courrier(auteur))
    BY <1>1 DEF Types
  <2> QED BY <1>2, <2>1
<1>4. \A f \in Tiennent(e, fil) : fil[f].message \in Messages
  BY <1>1, <1>2, FilFaits DEF Tiennent
<1>5. \A f \in Tiennent(e, fil) : Numero(fil, f) \in Int
  BY <1>4, HandlesAssumption DEF Messages, Numeros, Numero
<1>6. appels \in Int /\ appels \in Nat
  BY DesFils
<1> QED BY <1>3, <1>4, <1>5, <1>6 DEF MessInv

(* An endpoint that a step does not touch. *)
LEMMA AutrePoint ==
    ASSUME IInv, MessInv, NEW e \in Extremites, file'[e] = file[e], recus'[e] = recus[e], envoyes'[e] = envoyes[e],
           Tiennent(e, fil') = Tiennent(e, fil), \A g \in Tiennent(e, fil) : fil'[g].message = fil[g].message,
           appels' \in Int, appels <= appels'
    PROVE  /\ Ranges(file'[e], Tiennent(e, fil'), fil', recus'[e], envoyes'[e], appels')
           /\ e \notin chevauche => Ordonnes(file'[e], Tiennent(e, fil'), fil', recus'[e])
<1> DEFINE T == Tiennent(e, fil)
<1>1. \A g \in T : Numero(fil, g) \in Int /\ Numero(fil', g) = Numero(fil, g)
  BY DuPoint DEF Numero
<1>2. /\ file[e] \in Seq(Messages) /\ recus[e] \in Seq(Int) /\ appels \in Int
      /\ Ranges(file[e], T, fil, recus[e], envoyes[e], appels)
      /\ e \notin chevauche => Ordonnes(file[e], T, fil, recus[e])
  BY DuPoint
<1> HIDE DEF T
<1>3. /\ Ranges(file[e], T, fil', recus[e], envoyes[e], appels')
      /\ Ordonnes(file[e], T, fil, recus[e]) => Ordonnes(file[e], T, fil', recus[e])
  BY <1>1, <1>2, RangeFixe
<1> QED BY <1>2, <1>3 DEF T

(* A step that moves no message and starts no receive. *)
LEMMA Muet ==
    ASSUME IInv, MessInv, UNCHANGED <<file, recus, envoyes, chevauche>>, appels' \in Int, appels <= appels',
           \A g \in Fils : /\ fil'[g].sur = fil[g].sur /\ fil'[g].message = fil[g].message
                           /\ fil'[g].pas = "repos" => fil[g].pas = "repos"
                           /\ fil'[g].pas \in {"repos", "prend"} => fil[g].pas \in {"repos", "prend"}
    PROVE  MessInv'
<1>1. \A e : Tiennent(e, fil') = Tiennent(e, fil) /\ (Seul(e, fil) => Seul(e, fil'))
  BY DEF Tiennent, Seul
<1>2. \A e : \A g \in Tiennent(e, fil) : fil'[g].message = fil[g].message
  BY DEF Tiennent
<1>3. ASSUME NEW e \in Extremites
      PROVE  /\ Ranges(file'[e], Tiennent(e, fil'), fil', recus'[e], envoyes'[e], appels')
             /\ e \notin chevauche => Ordonnes(file'[e], Tiennent(e, fil'), fil', recus'[e])
  BY <1>1, <1>2, AutrePoint
<1>4. \A e \in Extremites \ chevauche' :
          Seul(e, fil') /\ Ordonnes(file'[e], Tiennent(e, fil'), fil', recus'[e])
  BY <1>1, <1>3, DuPoint
<1>5. recus' \in [Extremites -> Seq(Int)] /\ envoyes' \in [Extremites -> SUBSET Int]
  BY DEF MessInv
<1>6. \A f \in Fils : /\ fil'[f].pas = "repos" => fil'[f].sur = Nul
                      /\ fil'[f].pas \in {"repos", "prend"} => fil'[f].message = Nul
  BY DEF MessInv
<1> QED BY <1>3, <1>4, <1>5, <1>6 DEF MessInv

(* The steps of that kind. *)
LEMMA MuetsInv ==
    ASSUME IInv, MessInv, NEW f \in Fils,
           Ferme(f) \/ Duplique(f) \/ Cree(f) \/ RecvRefuse(f) \/ RecvInstalle(f) \/ RecvAnnule(f)
    PROVE  MessInv'
<1>1. appels \in Nat /\ fil \in [Fils -> Recepteurs(auteur)] /\ fil[f] \in Recepteurs(auteur)
  BY DesFils
<1>2. UNCHANGED <<file, recus, envoyes, chevauche>>
  BY DEF Ferme, Duplique, Cree, RecvRefuse, RecvInstalle, RecvAnnule, histoire
<1>3. appels' = appels \/ appels' = appels + 1
  BY DEF Ferme, Duplique, Cree, RecvRefuse, RecvInstalle, RecvAnnule, Appelle
<1>4. appels' \in Int /\ appels <= appels'
  BY <1>1, <1>3
<1>5. \/ fil' = fil
      \/ \E r : /\ fil' = [fil EXCEPT ![f] = r] /\ fil[f].pas \notin {"repos", "prend"}
                /\ r.sur = fil[f].sur /\ r.message = fil[f].message /\ r.pas \notin {"repos", "prend"}
  <2>1. CASE Ferme(f) \/ Duplique(f) \/ Cree(f)
    BY <2>1 DEF Ferme, Duplique, Cree
  <2>2. CASE RecvRefuse(f)
    <3> DEFINE r == [fil[f] EXCEPT !.pas = "remet"]
    <3>1. fil' = [fil EXCEPT ![f] = r] /\ fil[f].pas = "verifie"
      BY <2>2 DEF RecvRefuse, Pas
    <3>2. r.sur = fil[f].sur /\ r.message = fil[f].message /\ r.pas = "remet"
      BY <1>1 DEF Recepteurs
    <3> HIDE DEF r
    <3> QED BY <3>1, <3>2
  <2>3. CASE RecvAnnule(f)
    <3> DEFINE r == [fil[f] EXCEPT !.pas = "remet", !.id = Nul]
    <3>1. fil' = [fil EXCEPT ![f] = r] /\ fil[f].pas = "copie"
      BY <2>3 DEF RecvAnnule, Pas
    <3>2. r.sur = fil[f].sur /\ r.message = fil[f].message /\ r.pas = "remet"
      BY <1>1 DEF Recepteurs
    <3> HIDE DEF r
    <3> QED BY <3>1, <3>2
  <2>4. CASE RecvInstalle(f)
    <3> DEFINE r1 == [fil[f] EXCEPT !.pas = "copie"]
               r2 == [fil[f] EXCEPT !.pas = "remet"]
               r3 == [fil[f] EXCEPT !.pas = "copie", !.id = IdPose(table[ProcDe[f]])]
    <3>1. fil[f].pas = "verifie" /\ \E r \in {r1, r2, r3} : fil' = [fil EXCEPT ![f] = r]
      BY <2>4 DEF RecvInstalle, Pas, Echec
    <3>2. \A r \in {r1, r2, r3} : r.sur = fil[f].sur /\ r.message = fil[f].message /\ r.pas \in {"remet", "copie"}
      BY <1>1 DEF Recepteurs
    <3> HIDE DEF r1, r2, r3
    <3> QED BY <3>1, <3>2
  <2> QED BY <2>1, <2>2, <2>3, <2>4
<1>6. \A g \in Fils : /\ fil'[g].sur = fil[g].sur /\ fil'[g].message = fil[g].message
                      /\ fil'[g].pas = "repos" => fil[g].pas = "repos"
                      /\ fil'[g].pas \in {"repos", "prend"} => fil[g].pas \in {"repos", "prend"}
  <2>1. CASE fil' = fil
    BY <2>1
  <2>2. ASSUME NEW r, fil' = [fil EXCEPT ![f] = r], fil[f].pas \notin {"repos", "prend"},
               r.sur = fil[f].sur, r.message = fil[f].message, r.pas \notin {"repos", "prend"},
               NEW g \in Fils
        PROVE  /\ fil'[g].sur = fil[g].sur /\ fil'[g].message = fil[g].message
               /\ fil'[g].pas = "repos" => fil[g].pas = "repos"
               /\ fil'[g].pas \in {"repos", "prend"} => fil[g].pas \in {"repos", "prend"}
    <3>1. CASE g = f
      BY <1>1, <2>2, <3>1
    <3>2. CASE g # f
      BY <1>1, <2>2, <3>2
    <3> QED BY <3>1, <3>2
  <2> QED BY <1>5, <2>1, <2>2
<1> QED BY <1>2, <1>4, <1>6, Muet

(* The death of a process neither. *)
LEMMA MeurtMess ==
    ASSUME IInv, MessInv, NEW p \in Procs, Meurt(p)
    PROVE  MessInv'
<1>1. UNCHANGED <<file, fil, appels, recus, envoyes, chevauche>>
  BY DEF Meurt, histoire
<1>2. appels' \in Int /\ appels <= appels'
  BY <1>1, DesFils
<1> QED BY <1>1, <1>2, Muet

(* The start. *)
LEMMA InitMess ==
    ASSUME Init
    PROVE  MessInv
<1>1. /\ file = Attendent /\ appels = 0 /\ recus = [e \in Extremites |-> <<>>]
      /\ envoyes = [e \in Extremites |-> {m.numero : m \in ToSet(file[e])}] /\ fil = [f \in Fils |-> Repos]
  BY DEF Init
<1>2. \A f \in Fils : fil[f].pas = "repos" /\ fil[f].sur = Nul /\ fil[f].message = Nul
  BY <1>1 DEF Repos
<1>3. \A e : Tiennent(e, fil) = {}
  BY <1>2 DEF Tiennent
<1>4. ASSUME NEW e \in Extremites
      PROVE  /\ envoyes[e] \in SUBSET Int
             /\ Ranges(file[e], Tiennent(e, fil), fil, recus[e], envoyes[e], appels)
             /\ Seul(e, fil) /\ Ordonnes(file[e], Tiennent(e, fil), fil, recus[e])
  <2> DEFINE q == file[e]
  <2>1. q \in Seq(Messages) /\ recus[e] = <<>> /\ Len(recus[e]) = 0
    BY <1>1, DepartAssumption
  <2>2. Len(q) \in Nat /\ DOMAIN q = 1..Len(q) /\ \A i \in 1..Len(q) : q[i] \in Messages
    BY <2>1, LenProperties, ElementOfSeq
  <2>3. \A i \in 1..Len(q) : q[i].numero \in Int
    BY <2>2, HandlesAssumption DEF Messages, Numeros
  <2>4. \A i, j \in 1..Len(q) : q[i].numero <= 0 /\ (i < j => q[i].numero < q[j].numero)
    BY <1>1, DepartAssumption
  <2>5. envoyes[e] = {m.numero : m \in ToSet(q)}
    BY <1>1
  <2>6. \A k \in envoyes[e] : \E i \in 1..Len(q) : q[i].numero = k
    BY <2>2, <2>5 DEF ToSet
  <2> HIDE DEF q
  <2>7. \A i, j \in 1..Len(q) : q[i].numero = q[j].numero => i = j
    BY <2>2, <2>3, <2>4
  <2>8. envoyes[e] \in SUBSET Int
    BY <2>3, <2>6
  <2>9. Ranges(q, {}, fil, recus[e], envoyes[e], appels)
    BY <1>1, <2>1, <2>4, <2>6, <2>7 DEF Ranges
  <2>10. Ordonnes(q, {}, fil, recus[e])
    BY <2>1, <2>4 DEF Ordonnes, EnOrdre
  <2>11. Seul(e, fil)
    BY <1>2, DepartAssumption DEF Seul
  <2> QED BY <1>3, <2>8, <2>9, <2>10, <2>11 DEF q
<1>5. recus \in [Extremites -> Seq(Int)] /\ envoyes \in [Extremites -> SUBSET Int]
  <2>1. <<>> \in Seq(Int)
    OBVIOUS
  <2>2. recus \in [Extremites -> Seq(Int)]
    BY <1>1, <2>1
  <2>3. \A e \in Extremites : envoyes[e] \in SUBSET Int
    BY <1>4
  <2>4. envoyes = [e \in Extremites |-> envoyes[e]]
    BY <1>1
  <2>5. envoyes \in [Extremites -> SUBSET Int]
    BY <2>3, <2>4
  <2> QED BY <2>2, <2>5
<1> QED BY <1>2, <1>4, <1>5 DEF MessInv

(* The start of a receive: it holds nothing yet, and it is alone or noted as not alone. *)
LEMMA RecvDebutMess ==
    ASSUME IInv, MessInv, NEW f \in Fils, RecvDebut(f)
    PROVE  MessInv'
<1> DEFINE p == ProcDe[f]
           e(id) == Lookup(p, id).objet
           r(id, place) == [Repos EXCEPT !.pas = "prend", !.sur = e(id), !.place = place]
<1>1. /\ fil[f].pas = "repos" /\ appels' = appels + 1 /\ UNCHANGED <<file, envoyes, recus>>
  BY DEF RecvDebut, Appelle
<1>2. PICK id \in Ids(p) : \E place \in {0, 1} :
          /\ Pas(f, r(id, place))
          /\ chevauche' = IF \E g \in Fils : fil[g].sur = e(id) THEN chevauche \cup {e(id)} ELSE chevauche
  BY DEF RecvDebut
<1>3. PICK place \in {0, 1} :
          /\ Pas(f, r(id, place))
          /\ chevauche' = IF \E g \in Fils : fil[g].sur = e(id) THEN chevauche \cup {e(id)} ELSE chevauche
  BY <1>2
<1> DEFINE o == e(id)
           s == r(id, place)
<1>4. s.pas = "prend" /\ s.sur = o /\ s.message = Nul
  BY DEF Repos
<1> HIDE DEF o, s
<1>5. fil'[f] = s /\ \A g \in Fils : g # f => fil'[g] = fil[g]
  BY <1>3, DesFils DEF Pas, o, s
<1>6. fil[f].sur = Nul /\ fil[f].message = Nul /\ fil'[f].message = Nul /\ fil'[f].pas = "prend" /\ fil'[f].sur = o
  BY <1>1, <1>4, <1>5 DEF MessInv
<1>7. \A c : Tiennent(c, fil') = Tiennent(c, fil) /\ f \notin Tiennent(c, fil)
  BY <1>5, <1>6 DEF Tiennent
<1>8. \A c : \A g \in Tiennent(c, fil) : fil'[g].message = fil[g].message
  BY <1>5, <1>6 DEF Tiennent
<1>9. appels' \in Int /\ appels <= appels'
  BY <1>1, DesFils
<1>10. ASSUME NEW c \in Extremites
       PROVE  /\ Ranges(file'[c], Tiennent(c, fil'), fil', recus'[c], envoyes'[c], appels')
              /\ c \notin chevauche => Ordonnes(file'[c], Tiennent(c, fil'), fil', recus'[c])
  <2>1. file'[c] = file[c] /\ recus'[c] = recus[c] /\ envoyes'[c] = envoyes[c]
    BY <1>1
  <2> QED BY <1>7, <1>8, <1>9, <2>1, AutrePoint
<1>11. ASSUME NEW c \in Extremites \ chevauche'
       PROVE  Seul(c, fil') /\ c \notin chevauche
  <2>1. c \notin chevauche /\ (c = o => \A g \in Fils : fil[g].sur # o)
    BY <1>3 DEF o
  <2>2. Seul(c, fil)
    BY <2>1, DuPoint
  <2>3. CASE c = o
    BY <1>5, <1>6, <2>1, <2>3 DEF Seul
  <2>4. CASE c # o
    <3>1. \A g \in Fils : fil'[g].sur = c => fil[g].sur = c
      BY <1>5, <1>6, <2>4
    <3>2. \A g, h \in Fils : fil[g].sur = c /\ fil[h].sur = c => g = h
      BY <2>2 DEF Seul
    <3>3. \A g, h \in Fils : fil'[g].sur = c /\ fil'[h].sur = c => g = h
      BY <3>1, <3>2
    <3> QED BY <2>1, <3>3 DEF Seul
  <2> QED BY <2>1, <2>3, <2>4
<1>12. recus' \in [Extremites -> Seq(Int)] /\ envoyes' \in [Extremites -> SUBSET Int]
  BY <1>1 DEF MessInv
<1>13. \A g \in Fils : /\ fil'[g].pas = "repos" => fil'[g].sur = Nul
                       /\ fil'[g].pas \in {"repos", "prend"} => fil'[g].message = Nul
  BY <1>5, <1>6 DEF MessInv
<1> QED BY <1>10, <1>11, <1>12, <1>13 DEF MessInv

(* What a step of thread f that keeps or ends its receive on o leaves alone. *)
LEMMA UnPoint ==
    ASSUME IInv, MessInv, NEW f \in Fils, NEW o \in Extremites, NEW qo, NEW ro, NEW r,
           fil[f].sur = o, r.sur \in {o, Nul}, Pas(f, r),
           r.pas = "repos" => r.sur = Nul, r.pas \in {"repos", "prend"} => r.message = Nul,
           file' = [file EXCEPT ![o] = qo], recus' = [recus EXCEPT ![o] = ro], ro \in Seq(Int),
           UNCHANGED <<envoyes, chevauche, appels>>,
           Ranges(qo, Tiennent(o, fil'), fil', ro, envoyes[o], appels),
           o \notin chevauche => Ordonnes(qo, Tiennent(o, fil'), fil', ro)
    PROVE  MessInv'
<1>1. fil'[f] = r /\ \A g \in Fils : g # f => fil'[g] = fil[g]
  BY DesFils DEF Pas
<1>2. o # Nul
  BY DepartAssumption
<1>3. file \in [Extremites -> Seq(Courrier(auteur))] /\ recus \in [Extremites -> Seq(Int)]
  BY DEF IInv, Types, MessInv
<1>4. \A c \in Extremites : /\ c # o => file'[c] = file[c] /\ recus'[c] = recus[c]
                            /\ file'[o] = qo /\ recus'[o] = ro
  BY <1>3
<1>5. ASSUME NEW c \in Extremites, c # o
      PROVE  /\ Ranges(file'[c], Tiennent(c, fil'), fil', recus'[c], envoyes'[c], appels')
             /\ c \notin chevauche => Ordonnes(file'[c], Tiennent(c, fil'), fil', recus'[c])
  <2>1. c # Nul
    BY DepartAssumption
  <2>2. Tiennent(c, fil') = Tiennent(c, fil) /\ f \notin Tiennent(c, fil)
    BY <1>1, <1>5, <2>1 DEF Tiennent
  <2>3. \A g \in Tiennent(c, fil) : fil'[g].message = fil[g].message
    BY <1>1, <2>2 DEF Tiennent
  <2>4. file'[c] = file[c] /\ recus'[c] = recus[c] /\ envoyes'[c] = envoyes[c]
    BY <1>4, <1>5
  <2>5. appels' \in Int /\ appels <= appels'
    BY DesFils
  <2> QED BY <2>2, <2>3, <2>4, <2>5, AutrePoint
<1>6. \A c \in Extremites : /\ Ranges(file'[c], Tiennent(c, fil'), fil', recus'[c], envoyes'[c], appels')
                            /\ c \notin chevauche => Ordonnes(file'[c], Tiennent(c, fil'), fil', recus'[c])
  BY <1>4, <1>5
<1>7. ASSUME NEW c \in Extremites, Seul(c, fil) PROVE Seul(c, fil')
  <2>1. \A g \in Fils : fil'[g].sur = c => fil[g].sur = c
    BY <1>1, <1>2, DepartAssumption
  <2> QED BY <1>7, <2>1 DEF Seul
<1>8. \A c \in Extremites \ chevauche' : Seul(c, fil')
  BY <1>7, DuPoint
<1>9. recus' \in [Extremites -> Seq(Int)] /\ envoyes' \in [Extremites -> SUBSET Int]
  BY <1>3 DEF MessInv
<1>10. \A g \in Fils : /\ fil'[g].pas = "repos" => fil'[g].sur = Nul
                       /\ fil'[g].pas \in {"repos", "prend"} => fil'[g].message = Nul
  BY <1>1 DEF MessInv
<1> QED BY <1>6, <1>8, <1>9, <1>10 DEF MessInv

(* Taking the front. *)
LEMMA RecvPrendMess ==
    ASSUME IInv, MessInv, NEW f \in Fils, RecvPrend(f)
    PROVE  MessInv'
<1> DEFINE o == fil[f].sur
           T == Tiennent(o, fil)
<1>1. fil[f].pas = "prend" /\ UNCHANGED <<appels, envoyes, recus, chevauche>>
  BY DEF RecvPrend, histoire
<1>2. o \in Extremites /\ o # Nul /\ fil[f].message = Nul /\ f \notin T /\ fil[f] \in Recepteurs(auteur)
  BY <1>1, FilFaits, DepartAssumption DEF IInv, MessInv, Tiennent
<1>3. /\ file[o] \in Seq(Messages) /\ recus[o] \in Seq(Int)
      /\ Ranges(file[o], T, fil, recus[o], envoyes[o], appels)
      /\ o \notin chevauche => Seul(o, fil) /\ Ordonnes(file[o], T, fil, recus[o])
  BY <1>2, DuPoint
<1>4. recus' = [recus EXCEPT ![o] = recus[o]]
  BY <1>1, <1>2 DEF MessInv
<1>5. \A r : Pas(f, r) => fil'[f] = r /\ \A g \in Fils : g # f => fil'[g] = fil[g]
  BY DesFils DEF Pas
<1>6. CASE file[o] = <<>>
  <2>1. Pas(f, Repos) /\ file' = file
    BY <1>6 DEF RecvPrend
  <2>2. Repos.sur = Nul /\ Repos.message = Nul
    BY DEF Repos
  <2>3. fil'[f].message = Nul /\ \A g \in Fils : g # f => fil'[g] = fil[g]
    BY <1>5, <2>1, <2>2
  <2>4. Tiennent(o, fil') = T
    BY <1>2, <2>3 DEF Tiennent
  <2>5. \A g \in T : fil'[g].message = fil[g].message
    BY <1>2, <2>3 DEF Tiennent
  <2>6. file'[o] = file[o] /\ recus'[o] = recus[o] /\ envoyes'[o] = envoyes[o] /\ appels' \in Int /\ appels <= appels' /\ appels' = appels
    BY <1>1, <2>1, DesFils
  <2>7. /\ Ranges(file[o], Tiennent(o, fil'), fil', recus[o], envoyes[o], appels)
        /\ o \notin chevauche => Ordonnes(file[o], Tiennent(o, fil'), fil', recus[o])
    BY <1>2, <2>4, <2>5, <2>6, AutrePoint
  <2>8. file' = [file EXCEPT ![o] = file[o]]
    BY <1>2, <2>1 DEF IInv, Types
  <2> HIDE DEF T, o
  <2> QED BY <1>1, <1>2, <1>3, <1>4, <2>1, <2>2, <2>7, <2>8, UnPoint DEF o
<1>7. CASE file[o] # <<>>
  <2> DEFINE m == Head(file[o])
             k == IF TropGrand(m, fil[f].place) THEN "remet" ELSE "verifie"
             r == [fil[f] EXCEPT !.message = m, !.pas = k]
  <2>1. file' = [file EXCEPT ![o] = Tail(file[o])] /\ Pas(f, r)
    BY <1>7 DEF RecvPrend
  <2>2. m \in Messages /\ m # Nul
    BY <1>3, <1>7, HeadTailProperties, DepartAssumption
  <2>3. k \in {"remet", "verifie"}
    OBVIOUS
  <2> HIDE DEF k
  <2>4. r.sur = o /\ r.message = m /\ r.pas = k
    BY <1>2 DEF Recepteurs
  <2> HIDE DEF r, m
  <2>5. fil'[f] = r /\ \A g \in Fils : g # f => fil'[g] = fil[g]
    BY <1>5, <2>1
  <2>6. Tiennent(o, fil') = T \cup {f}
    BY <2>2, <2>4, <2>5 DEF Tiennent
  <2>7. \A g \in T : Numero(fil', g) = Numero(fil, g)
    BY <1>2, <2>5 DEF Tiennent, Numero
  <2>8. Numero(fil', f) = Head(file[o]).numero
    BY <2>4, <2>5 DEF Numero, m
  <2>9. o \notin chevauche => T = {}
    BY <1>2, <1>3 DEF Seul, Tiennent
  <2> HIDE DEF T, o
  <2>10. /\ Ranges(file[o], T, fil, recus[o], envoyes[o], appels) => Ranges(Tail(file[o]), T \cup {f}, fil', recus[o], envoyes[o], appels)
         /\ Ordonnes(file[o], T, fil, recus[o]) /\ T = {} => Ordonnes(Tail(file[o]), T \cup {f}, fil', recus[o])
    BY <1>2, <1>3, <1>7, <2>7, <2>8, PrendRange
  <2>11. /\ Ranges(Tail(file[o]), Tiennent(o, fil'), fil', recus[o], envoyes[o], appels)
         /\ o \notin chevauche => Ordonnes(Tail(file[o]), Tiennent(o, fil'), fil', recus[o])
    BY <1>3, <2>6, <2>9, <2>10
  <2> QED BY <1>1, <1>2, <1>3, <1>4, <2>1, <2>3, <2>4, <2>11, UnPoint DEF o
<1> QED BY <1>6, <1>7

(* The end of a receive takes its thread out of the holders. *)
LEMMA FinFaits ==
    ASSUME IInv, MessInv, NEW f \in Fils, fil[f].pas \in {"copie", "remet"}, Pas(f, Repos)
    PROVE  LET o == fil[f].sur
               T == Tiennent(o, fil) IN
           /\ o \in Extremites /\ f \in T /\ fil[f].message \in Messages /\ Numero(fil, f) \in Int
           /\ Tiennent(o, fil') = T \ {f} /\ \A g \in T \ {f} : Numero(fil', g) = Numero(fil, g)
           /\ o \notin chevauche => T = {f}
<1> DEFINE o == fil[f].sur
           T == Tiennent(o, fil)
<1>1. o \in Extremites /\ fil[f].message \in Courrier(auteur)
  BY FilFaits DEF IInv
<1>2. o # Nul /\ fil[f].message \in Messages /\ fil[f].message # Nul
  BY <1>1, DepartAssumption DEF Courrier
<1>3. f \in T
  BY <1>2 DEF Tiennent
<1>4. Numero(fil, f) \in Int
  BY <1>1, <1>3, DuPoint
<1>5. fil'[f] = Repos /\ \A g \in Fils : g # f => fil'[g] = fil[g]
  BY DesFils DEF Pas
<1>6. fil'[f].message = Nul
  BY <1>5 DEF Repos
<1>7. Tiennent(o, fil') = T \ {f} /\ \A g \in T \ {f} : Numero(fil', g) = Numero(fil, g)
  BY <1>5, <1>6 DEF Tiennent, Numero
<1>8. o \notin chevauche => T = {f}
  <2>1. o \notin chevauche => Seul(o, fil)
    BY <1>1, DuPoint
  <2> QED BY <1>3, <2>1 DEF Seul, Tiennent
<1> QED BY <1>1, <1>2, <1>3, <1>4, <1>7, <1>8

(* The delivery. *)
LEMMA RecvRendMess ==
    ASSUME IInv, MessInv, NEW f \in Fils, RecvRend(f)
    PROVE  MessInv'
<1> DEFINE o == fil[f].sur
           T == Tiennent(o, fil)
           ro == Append(recus[o], Numero(fil, f))
<1>1. /\ fil[f].pas = "copie" /\ Pas(f, Repos) /\ UNCHANGED <<file, appels, envoyes, chevauche>>
      /\ recus' = [recus EXCEPT ![o] = ro]
  BY DEF RecvRend, Numero
<1>2. /\ o \in Extremites /\ f \in T /\ Numero(fil, f) \in Int
      /\ Tiennent(o, fil') = T \ {f} /\ \A g \in T \ {f} : Numero(fil', g) = Numero(fil, g)
      /\ o \notin chevauche => T = {f}
  BY <1>1, FinFaits
<1>3. /\ file[o] \in Seq(Messages) /\ recus[o] \in Seq(Int)
      /\ Ranges(file[o], T, fil, recus[o], envoyes[o], appels)
      /\ o \notin chevauche => Ordonnes(file[o], T, fil, recus[o])
  BY <1>2, DuPoint
<1>4. file' = [file EXCEPT ![o] = file[o]]
  BY <1>1, <1>2 DEF IInv, Types
<1>5. ro \in Seq(Int)
  BY <1>2, <1>3, AppendProperties
<1>6. Repos.sur = Nul /\ Repos.message = Nul
  BY DEF Repos
<1> HIDE DEF T, o
<1>7. /\ Ranges(file[o], T, fil, recus[o], envoyes[o], appels) => Ranges(file[o], T \ {f}, fil', ro, envoyes[o], appels)
      /\ Ordonnes(file[o], T, fil, recus[o]) /\ T = {f} => Ordonnes(file[o], T \ {f}, fil', ro)
  BY <1>2, <1>3, RendRange
<1>8. /\ Ranges(file[o], Tiennent(o, fil'), fil', ro, envoyes[o], appels)
      /\ o \notin chevauche => Ordonnes(file[o], Tiennent(o, fil'), fil', ro)
  BY <1>2, <1>3, <1>7
<1> HIDE DEF ro
<1> QED BY <1>1, <1>2, <1>4, <1>5, <1>6, <1>8, UnPoint DEF o

(* The message given back. *)
LEMMA RequeueFrontMess ==
    ASSUME IInv, MessInv, NEW f \in Fils, RequeueFront(f)
    PROVE  MessInv'
<1> DEFINE o == fil[f].sur
           T == Tiennent(o, fil)
           qo == <<fil[f].message>> \o file[o]
<1>1. /\ fil[f].pas = "remet" /\ Pas(f, Repos) /\ UNCHANGED <<recus, appels, envoyes, chevauche>>
      /\ file' = [file EXCEPT ![o] = qo]
  BY DEF RequeueFront, histoire, Devant
<1>2. /\ o \in Extremites /\ f \in T /\ fil[f].message \in Messages
      /\ Tiennent(o, fil') = T \ {f} /\ \A g \in T \ {f} : Numero(fil', g) = Numero(fil, g)
      /\ o \notin chevauche => T = {f}
  BY <1>1, FinFaits
<1>3. /\ file[o] \in Seq(Messages) /\ recus[o] \in Seq(Int)
      /\ Ranges(file[o], T, fil, recus[o], envoyes[o], appels)
      /\ o \notin chevauche => Ordonnes(file[o], T, fil, recus[o])
  BY <1>2, DuPoint
<1>4. recus' = [recus EXCEPT ![o] = recus[o]]
  BY <1>1, <1>2 DEF MessInv
<1>6. Repos.sur = Nul /\ Repos.message = Nul
  BY DEF Repos
<1> HIDE DEF T, o
<1>7. /\ Ranges(file[o], T, fil, recus[o], envoyes[o], appels) => Ranges(qo, T \ {f}, fil', recus[o], envoyes[o], appels)
      /\ Ordonnes(file[o], T, fil, recus[o]) /\ T = {f} => Ordonnes(qo, T \ {f}, fil', recus[o])
  BY <1>2, <1>3, RemetRange
<1>8. /\ Ranges(qo, Tiennent(o, fil'), fil', recus[o], envoyes[o], appels)
      /\ o \notin chevauche => Ordonnes(qo, Tiennent(o, fil'), fil', recus[o])
  BY <1>2, <1>3, <1>7
<1> HIDE DEF qo
<1> QED BY <1>1, <1>2, <1>3, <1>4, <1>6, <1>8, UnPoint DEF o

(* A send. *)
LEMMA SendMess ==
    ASSUME IInv, MessInv, NEW f \in Fils, Send(f)
    PROVE  MessInv'
<1> DEFINE p == ProcDe[f]
           o(id) == Pair(Lookup(p, id).objet)
           m(x) == [numero |-> appels', transfere |-> x]
<1>1. appels < MaxAppels /\ appels' = appels + 1 /\ UNCHANGED <<fil, recus, chevauche>>
  BY DEF Send, Appelle
<1>2. PICK id \in Ids(p) :
          /\ Detient(p, id, "WRITE")
          /\ \E x \in Envois(p, Lookup(p, id).objet) : file' = [file EXCEPT ![o(id)] = Append(@, m(x))]
          /\ envoyes' = [envoyes EXCEPT ![o(id)] = @ \cup {appels'}]
  BY DEF Send
<1>3. PICK x \in Envois(p, Lookup(p, id).objet) : file' = [file EXCEPT ![o(id)] = Append(@, m(x))]
  BY <1>2
<1> DEFINE d == o(id)
<1>4. p \in Procs
  BY HandlesAssumption
<1>5. d \in Extremites
  BY <1>2, <1>4, LookupFaits, PairExtremite DEF IInv, Detient
<1>6. m(x) \in Messages /\ m(x).numero = appels + 1
  <2>1. appels' \in Numeros
    BY <1>1, DesFils, HandlesAssumption DEF Numeros
  <2>2. x # Nul => x \in Entrees
    BY <1>4, EnvoisPermis DEF IInv
  <2> QED BY <1>1, <2>1, <2>2 DEF Messages
<1> DEFINE q == Append(file[d], m(x))
           T == Tiennent(d, fil)
           env == envoyes[d] \cup {appels + 1}
<1>7. file' = [file EXCEPT ![d] = q] /\ envoyes' = [envoyes EXCEPT ![d] = env]
  BY <1>1, <1>2, <1>3
<1> HIDE DEF d, m
<1>8. /\ file[d] \in Seq(Messages) /\ recus[d] \in Seq(Int) /\ appels \in Int /\ envoyes[d] \in SUBSET Int
      /\ \A g \in T : Numero(fil, g) \in Int
      /\ Ranges(file[d], T, fil, recus[d], envoyes[d], appels)
      /\ d \notin chevauche => Ordonnes(file[d], T, fil, recus[d])
  BY <1>5, DuPoint
<1> HIDE DEF T
<1>9. /\ Ranges(q, T, fil, recus[d], env, appels + 1)
      /\ Ordonnes(file[d], T, fil, recus[d]) => Ordonnes(q, T, fil, recus[d])
  BY <1>6, <1>8, EnvoieRange
<1> HIDE DEF q
<1>10. file \in [Extremites -> Seq(Courrier(auteur))] /\ envoyes \in [Extremites -> SUBSET Int]
  BY DEF IInv, Types, MessInv
<1>11. /\ file'[d] = q /\ envoyes'[d] = env
       /\ \A c \in Extremites : c # d => file'[c] = file[c] /\ envoyes'[c] = envoyes[c]
  BY <1>5, <1>7, <1>10
<1>12. ASSUME NEW c \in Extremites
       PROVE  /\ Ranges(file'[c], Tiennent(c, fil'), fil', recus'[c], envoyes'[c], appels')
              /\ c \notin chevauche => Ordonnes(file'[c], Tiennent(c, fil'), fil', recus'[c])
  <2>1. CASE c = d
    BY <1>1, <1>8, <1>9, <1>11, <2>1 DEF T
  <2>2. CASE c # d
    <3>1. /\ file'[c] = file[c] /\ recus'[c] = recus[c] /\ envoyes'[c] = envoyes[c]
          /\ Tiennent(c, fil') = Tiennent(c, fil) /\ \A g \in Tiennent(c, fil) : fil'[g].message = fil[g].message
          /\ appels' \in Int /\ appels <= appels'
      BY <1>1, <1>8, <1>11, <2>2
    <3> QED BY <3>1, AutrePoint
  <2> QED BY <2>1, <2>2
<1>13. \A c \in Extremites \ chevauche' : Seul(c, fil')
  BY <1>1, DuPoint
<1>14. env \in SUBSET Int
  BY <1>8
<1>15. recus' \in [Extremites -> Seq(Int)] /\ envoyes' \in [Extremites -> SUBSET Int]
  BY <1>1, <1>7, <1>10, <1>14 DEF MessInv
<1>16. \A g \in Fils : /\ fil'[g].pas = "repos" => fil'[g].sur = Nul
                       /\ fil'[g].pas \in {"repos", "prend"} => fil'[g].message = Nul
  BY <1>1 DEF MessInv
<1> QED BY <1>1, <1>12, <1>13, <1>15, <1>16 DEF MessInv

(* Every step keeps it. *)
LEMMA SuiteMess ==
    ASSUME IInv, MessInv, [Next]_vars
    PROVE  MessInv'
<1>1. ASSUME NEW f \in Fils,
             \/ Ferme(f) \/ Duplique(f) \/ Cree(f) \/ Send(f)
             \/ RecvDebut(f) \/ RecvPrend(f) \/ RecvRefuse(f) \/ RecvInstalle(f)
             \/ RecvRend(f) \/ RecvAnnule(f) \/ RequeueFront(f)
      PROVE  MessInv'
  BY <1>1, MuetsInv, SendMess, RecvDebutMess, RecvPrendMess, RecvRendMess, RequeueFrontMess
<1>2. ASSUME NEW p \in Procs, Meurt(p) PROVE MessInv'
  BY <1>2, MeurtMess
<1>3. ASSUME UNCHANGED vars PROVE MessInv'
  <2>1. UNCHANGED <<file, fil, appels, recus, envoyes, chevauche>>
    BY <1>3 DEF vars, noyau, histoire
  <2> QED BY <2>1 DEF MessInv
<1> QED BY <1>1, <1>2, <1>3 DEF Next

(* A set of at most one element, counted. *)
LEMMA AuPlusUn ==
    ASSUME NEW S, \A x, y \in S : x = y
    PROVE  /\ S = {} => Cardinality(S) = 0
           /\ S # {} => Cardinality(S) = 1
<1>1. S = {} => Cardinality(S) = 0
  BY FS_EmptySet
<1>2. ASSUME NEW x \in S PROVE Cardinality(S) = 1
  <2>1. S = {x}
    OBVIOUS
  <2> QED BY <2>1, FS_Singleton
<1> QED BY <1>1, <1>2

(* A message that was sent is queued, held by one receive or delivered, once and at *)
(* one place only, whatever step of its receives fails and whoever dies: what       *)
(* channel_recv promises (dispatch.rs, channel.rs).                                 *)
THEOREM MessagesToujoursConserves == Spec => []MessagesConserves
<1>1. Init => IInv /\ MessInv
  BY InitInv, InitMess
<1>2. IInv /\ MessInv /\ [Next]_vars => (IInv /\ MessInv)'
  BY SuiteInv, SuiteMess
<1>3. IInv /\ MessInv => MessagesConserves
  <2> SUFFICES ASSUME IInv, MessInv, NEW e \in Extremites, NEW n \in envoyes[e] PROVE Places(e, n) = 1
    BY DEF MessagesConserves
  <2> DEFINE A == {i \in 1..Len(file[e]) : file[e][i].numero = n}
             B == {f \in Fils : fil[f].sur = e /\ fil[f].message # Nul /\ fil[f].message.numero = n}
             C == {i \in 1..Len(recus[e]) : recus[e][i] = n}
  <2>1. Ranges(file[e], Tiennent(e, fil), fil, recus[e], envoyes[e], appels)
    BY DuPoint
  <2>2. B = {f \in Tiennent(e, fil) : Numero(fil, f) = n}
    BY DEF Tiennent, Numero
  <2>3. (\A x, y \in A : x = y) /\ (\A x, y \in B : x = y) /\ (\A x, y \in C : x = y)
    BY <2>1, <2>2 DEF Ranges
  <2>4. /\ A # {} => B = {} /\ C = {}
        /\ B # {} => C = {}
    BY <2>1, <2>2 DEF Ranges
  <2>5. A # {} \/ B # {} \/ C # {}
    BY <2>1, <2>2 DEF Ranges
  <2>6. Places(e, n) = Cardinality(A) + Cardinality(B) + Cardinality(C)
    BY DEF Places
  <2> HIDE DEF A, B, C
  <2>7. /\ A = {} => Cardinality(A) = 0
        /\ A # {} => Cardinality(A) = 1
    BY <2>3, AuPlusUn
  <2>8. /\ B = {} => Cardinality(B) = 0
        /\ B # {} => Cardinality(B) = 1
    BY <2>3, AuPlusUn
  <2>9. /\ C = {} => Cardinality(C) = 0
        /\ C # {} => Cardinality(C) = 1
    BY <2>3, AuPlusUn
  <2> QED BY <2>4, <2>5, <2>6, <2>7, <2>8, <2>9
<1> QED BY <1>1, <1>2, <1>3, PTL DEF Spec

(* Two sequences in order, the first below the second. *)
LEMMA OrdreConcat ==
    ASSUME NEW s \in Seq(Int), NEW t \in Seq(Int), EnOrdre(s), EnOrdre(t),
           \A i \in 1..Len(s), j \in 1..Len(t) : s[i] < t[j]
    PROVE  EnOrdre(s \o t)
<1> DEFINE u == s \o t
<1>1. /\ Len(u) = Len(s) + Len(t) /\ Len(s) \in Nat /\ Len(t) \in Nat
      /\ \A i \in 1..Len(s) + Len(t) : u[i] = IF i <= Len(s) THEN s[i] ELSE t[i - Len(s)]
  BY ConcatProperties, LenProperties
<1> HIDE DEF u
<1>2. SUFFICES ASSUME NEW i \in 1..Len(u), NEW j \in 1..Len(u), i < j PROVE u[i] < u[j]
  BY DEF EnOrdre, u
<1>3. \A k \in 1..Len(u) : /\ k <= Len(s) => k \in 1..Len(s) /\ u[k] = s[k]
                           /\ ~(k <= Len(s)) => k - Len(s) \in 1..Len(t) /\ u[k] = t[k - Len(s)]
  BY <1>1
<1>4. CASE i <= Len(s) /\ j <= Len(s)
  <2>1. i \in 1..Len(s) /\ j \in 1..Len(s) /\ u[i] = s[i] /\ u[j] = s[j] /\ i < j
    BY <1>2, <1>3, <1>4
  <2>2. \A a, b \in 1..Len(s) : a < b => s[a] < s[b]
    BY DEF EnOrdre
  <2> QED BY <2>1, <2>2
<1>5. CASE i <= Len(s) /\ ~(j <= Len(s))
  BY <1>2, <1>3, <1>5
<1>6. CASE ~(i <= Len(s))
  <2>1. ~(j <= Len(s)) /\ i - Len(s) < j - Len(s)
    BY <1>1, <1>2, <1>6
  <2>2. /\ i - Len(s) \in 1..Len(t) /\ u[i] = t[i - Len(s)]
        /\ j - Len(s) \in 1..Len(t) /\ u[j] = t[j - Len(s)]
    BY <1>2, <1>3, <1>6, <2>1
  <2>3. \A a, b \in 1..Len(t) : a < b => t[a] < t[b]
    BY DEF EnOrdre
  <2> QED BY <2>1, <2>2, <2>3
<1> QED BY <1>4, <1>5, <1>6

(* The sequence of a set of at most one element. *)
LEMMA SuiteDUn ==
    /\ SetToSeq({}) = <<>>
    /\ \A x : SetToSeq({x}) = <<x>>
<1>1. SetToSeq({}) = <<>>
  <2>1. Cardinality({}) = 0 /\ 1..0 = {}
    BY FS_EmptySet
  <2>2. \A g \in [{} -> {}] : g = <<>>
    OBVIOUS
  <2>3. <<>> \in [{} -> {}] /\ IsInjective(<<>>)
    BY DEF IsInjective
  <2> QED BY <2>1, <2>2, <2>3 DEF SetToSeq
<1>2. ASSUME NEW x PROVE SetToSeq({x}) = <<x>>
  <2>1. Cardinality({x}) = 1 /\ 1..1 = {1}
    BY FS_Singleton
  <2>2. <<x>> \in [{1} -> {x}] /\ IsInjective(<<x>>)
    BY DEF IsInjective
  <2>3. \A g \in [{1} -> {x}] : g = <<x>>
    BY <2>2
  <2> QED BY <2>1, <2>2, <2>3 DEF SetToSeq
<1> QED BY <1>1, <1>2

(* An endpoint that no two threads received from at once delivers in the order of   *)
(* the sends, through any number of receives given up: requeue_front puts a message *)
(* back before everything that was sent after it (channel.rs).                      *)
THEOREM ReceptionToujoursEnOrdre == Spec => []OrdreDeReception
<1>1. Init => IInv /\ MessInv
  BY InitInv, InitMess
<1>2. IInv /\ MessInv /\ [Next]_vars => (IInv /\ MessInv)'
  BY SuiteInv, SuiteMess
<1>3. IInv /\ MessInv => OrdreDeReception
  <2> SUFFICES ASSUME IInv, MessInv, NEW e \in Extremites \ chevauche
               PROVE  EnOrdre(recus[e]
                         \o SetToSeq({fil[f].message.numero : f \in {g \in Fils : fil[g].sur = e /\ fil[g].message # Nul}})
                         \o [i \in 1..Len(file[e]) |-> file[e][i].numero])
    BY DEF OrdreDeReception
  <2> DEFINE T == Tiennent(e, fil)
             N == {fil[f].message.numero : f \in {g \in Fils : fil[g].sur = e /\ fil[g].message # Nul}}
             r == recus[e]
             q == file[e]
             a == [i \in 1..Len(q) |-> q[i].numero]
  <2>1. /\ q \in Seq(Messages) /\ r \in Seq(Int) /\ Seul(e, fil) /\ Ordonnes(q, T, fil, r)
        /\ \A f \in T : Numero(fil, f) \in Int
    BY DuPoint
  <2>2. N = {Numero(fil, f) : f \in T}
    BY DEF Tiennent, Numero
  <2>3. \A f, g \in T : f = g
    BY <2>1 DEF Seul, Tiennent
  <2>4. Len(q) \in Nat /\ \A i \in 1..Len(q) : q[i].numero \in Int
    <3>1. Len(q) \in Nat /\ \A i \in 1..Len(q) : q[i] \in Messages
      BY <2>1, LenProperties, ElementOfSeq
    <3> QED BY <3>1, HandlesAssumption DEF Messages, Numeros
  <2> HIDE DEF T, N, q, r
  <2>5. a \in Seq(Int) /\ Len(a) = Len(q) /\ \A i \in 1..Len(q) : a[i] = q[i].numero
    BY <2>4
  <2> HIDE DEF a
  <2>6. EnOrdre(a) /\ EnOrdre(r) /\ \A i \in 1..Len(r), j \in 1..Len(a) : r[i] < a[j]
    BY <2>1, <2>5 DEF Ordonnes, EnOrdre
  <2>7. ASSUME T = {} PROVE EnOrdre(r \o SetToSeq(N) \o a)
    <3>1. SetToSeq(N) = <<>>
      BY <2>2, <2>7, SuiteDUn
    <3>2. r \o <<>> = r
      BY <2>1, ConcatEmptySeq
    <3>3. EnOrdre(r \o a)
      BY <2>1, <2>5, <2>6, OrdreConcat
    <3>4. EnOrdre(r \o SetToSeq(N) \o a)
      BY <3>1, <3>2, <3>3
    <3> QED BY <3>4
  <2>8. ASSUME NEW f \in T PROVE EnOrdre(r \o SetToSeq(N) \o a)
    <3> DEFINE n == Numero(fil, f)
    <3>1. N = {n} /\ n \in Int
      BY <2>1, <2>2, <2>3
    <3>2. SetToSeq(N) = <<n>>
      BY <3>1, SuiteDUn
    <3>3. (\A i \in 1..Len(r) : r[i] < n) /\ (\A j \in 1..Len(a) : n < a[j])
      BY <2>1, <2>5 DEF Ordonnes
    <3> HIDE DEF n
    <3>4. <<n>> \in Seq(Int) /\ Len(<<n>>) = 1 /\ <<n>>[1] = n
      BY <3>1
    <3>5. EnOrdre(<<n>>)
      BY <3>4 DEF EnOrdre
    <3>6. \A i \in 1..Len(r), j \in 1..Len(<<n>>) : r[i] < <<n>>[j]
      BY <3>3, <3>4
    <3>7. EnOrdre(r \o <<n>>)
      BY <2>1, <2>6, <3>4, <3>5, <3>6, OrdreConcat
    <3> DEFINE s == r \o <<n>>
    <3>8. /\ s \in Seq(Int) /\ Len(s) = Len(r) + 1 /\ Len(r) \in Nat
          /\ \A i \in 1..Len(r) + 1 : s[i] = IF i <= Len(r) THEN r[i] ELSE <<n>>[i - Len(r)]
      BY <2>1, <3>4, ConcatProperties, LenProperties
    <3>9. EnOrdre(s)
      BY <3>7
    <3> HIDE DEF s
    <3>10. \A i \in 1..Len(s), j \in 1..Len(a) : s[i] < a[j]
      <4> TAKE i \in 1..Len(s), j \in 1..Len(a)
      <4>1. CASE i <= Len(r)
        <5>1. i \in 1..Len(r) /\ s[i] = r[i]
          BY <3>8, <4>1
        <5> QED BY <2>6, <5>1
      <4>2. CASE ~(i <= Len(r))
        <5>1. i - Len(r) = 1 /\ s[i] = n
          BY <3>4, <3>8, <4>2
        <5> QED BY <3>3, <5>1
      <4> QED BY <4>1, <4>2
    <3>11. EnOrdre(s \o a)
      BY <2>5, <2>6, <3>8, <3>9, <3>10, OrdreConcat
    <3> QED BY <3>2, <3>11 DEF s
  <2>9. EnOrdre(r \o SetToSeq(N) \o a)
    BY <2>7, <2>8
  <2> QED BY <2>9 DEF N, r, q, a
<1> QED BY <1>1, <1>2, <1>3, PTL DEF Spec

----------------------------------------------------------------------------
(* The endpoints that live *)

(* the table of p is still held, by the registry or by a call *)
Tenue(p, th, md) == p \notin md \/ \E f \in Fils : ProcDe[f] = p /\ th[f].pas # "repos"

(* V has every endpoint that a table, a call or a message of a channel of V holds *)
Couvre(t, q, th, md, V) ==
    /\ \A p \in Procs, s \in Slots : Tenue(p, th, md) /\ t[p][s].entree # Nul => t[p][s].entree.objet \in V
    /\ \A f \in Fils : th[f].sur # Nul => th[f].sur \in V
    /\ \A f \in Fils : th[f].message # Nul /\ th[f].message.transfere # Nul => th[f].message.transfere.objet \in V
    /\ \A x \in Extremites : x \in V \/ Pair(x) \in V =>
          \A i \in 1..Len(q[x]) : q[x][i].transfere # Nul => q[x][i].transfere.objet \in V

(* a message never carries an end of the channel it is in, or was taken from *)
Etranger(m, e) == m.transfere # Nul => m.transfere.objet[1] # e[1]
Etrangers(q, th) ==
    /\ \A x \in Extremites : \A i \in 1..Len(q[x]) : Etranger(q[x][i], x)
    /\ \A f \in Fils : th[f].message # Nul => Etranger(th[f].message, th[f].sur)

VieInv ==
    /\ vivants \subseteq {e \in Extremites : auteur[e[1]] # Nul}
    /\ \A x \in Extremites : auteur[x[1]] = Nul => file[x] = <<>>
    /\ vivants \subseteq Racines(table, fil, morts) \cup PorteesPar(file, vivants)
    /\ Couvre(table, file, fil, morts, vivants)
    /\ Etrangers(file, fil)

(* The endpoints the messages of q hold, one by one. *)
LEMMA PorteesFaits ==
    ASSUME NEW S, NEW q \in [Extremites -> Seq(S)], NEW V, NEW o
    PROVE  o \in PorteesPar(q, V) <=>
              \E x \in Extremites : /\ x \in V \/ Pair(x) \in V
                                    /\ \E i \in 1..Len(q[x]) : q[x][i].transfere # Nul /\ o = q[x][i].transfere.objet
<1>1. ASSUME NEW x \in Extremites
      PROVE  o \in EnFile(q, x) <=> \E i \in 1..Len(q[x]) : q[x][i].transfere # Nul /\ o = q[x][i].transfere.objet
  <2>1. DOMAIN q[x] = 1..Len(q[x])
    OBVIOUS
  <2> QED BY <2>1 DEF EnFile, ToSet
<1>2. \A x : {x, Pair(x)} \cap V # {} <=> x \in V \/ Pair(x) \in V
  OBVIOUS
<1>3. o \in PorteesPar(q, V) <=> \E x \in Extremites : {x, Pair(x)} \cap V # {} /\ o \in EnFile(q, x)
  BY DEF PorteesPar
<1> QED BY <1>1, <1>2, <1>3

(* The endpoints the tables and the calls hold, one by one. *)
LEMMA RacinesFaits ==
    ASSUME NEW t, NEW th, NEW md, NEW o
    PROVE  o \in Racines(t, th, md) <=>
              \/ \E p \in Procs, s \in Slots : Tenue(p, th, md) /\ t[p][s].entree # Nul /\ o = t[p][s].entree.objet
              \/ \E f \in Fils : th[f].sur # Nul /\ o = th[f].sur
              \/ \E f \in Fils : th[f].message # Nul /\ th[f].message.transfere # Nul /\ o = th[f].message.transfere.objet
<1> DEFINE A == {y \in Procs \X Slots :
                    /\ t[y[1]][y[2]].entree # Nul
                    /\ y[1] \notin md \/ \E f \in Fils : ProcDe[f] = y[1] /\ th[f].pas # "repos"}
           T == {t[x[1]][x[2]].entree.objet : x \in A}
           U == {th[f].sur : f \in {g \in Fils : th[g].sur # Nul}}
           W == {th[f].message.transfere.objet : f \in {g \in Fils : th[g].message # Nul /\ th[g].message.transfere # Nul}}
<1>1. o \in T <=> \E p \in Procs, s \in Slots : Tenue(p, th, md) /\ t[p][s].entree # Nul /\ o = t[p][s].entree.objet
  <2>1. ASSUME o \in T
        PROVE  \E p \in Procs, s \in Slots : Tenue(p, th, md) /\ t[p][s].entree # Nul /\ o = t[p][s].entree.objet
    <3>1. PICK x \in A : o = t[x[1]][x[2]].entree.objet
      BY <2>1
    <3>2. x[1] \in Procs /\ x[2] \in Slots /\ Tenue(x[1], th, md) /\ t[x[1]][x[2]].entree # Nul
      BY <3>1 DEF Tenue
    <3> QED BY <3>1, <3>2
  <2>2. ASSUME NEW p \in Procs, NEW s \in Slots, Tenue(p, th, md), t[p][s].entree # Nul, o = t[p][s].entree.objet
        PROVE  o \in T
    <3>1. <<p, s>> \in A
      BY <2>2 DEF Tenue
    <3>2. <<p, s>>[1] = p /\ <<p, s>>[2] = s
      OBVIOUS
    <3> HIDE DEF A
    <3> QED BY <2>2, <3>1, <3>2
  <2> QED BY <2>1, <2>2
<1>2. o \in U <=> \E f \in Fils : th[f].sur # Nul /\ o = th[f].sur
  OBVIOUS
<1>3. o \in W <=> \E f \in Fils : th[f].message # Nul /\ th[f].message.transfere # Nul /\ o = th[f].message.transfere.objet
  OBVIOUS
<1>4. Racines(t, th, md) = T \cup U \cup W
  BY DEF Racines
<1> HIDE DEF T, U, W
<1> QED BY <1>1, <1>2, <1>3, <1>4

(* What a message of a channel of a smaller set holds, one of a larger set holds. *)
LEMMA PorteesCroit ==
    ASSUME NEW q, NEW A, NEW B, A \subseteq B
    PROVE  PorteesPar(q, A) \subseteq PorteesPar(q, B)
  BY DEF PorteesPar

(* A set that has all that is held, one by one and as a whole. *)
LEMMA CouvreFaits ==
    ASSUME NEW S, NEW q \in [Extremites -> Seq(S)], NEW t, NEW th, NEW md, NEW V
    PROVE  Couvre(t, q, th, md, V) <=> Racines(t, th, md) \cup PorteesPar(q, V) \subseteq V
<1>1. ASSUME Couvre(t, q, th, md, V), NEW o \in Racines(t, th, md) PROVE o \in V
  BY <1>1, RacinesFaits DEF Couvre
<1>2. ASSUME Couvre(t, q, th, md, V), NEW o \in PorteesPar(q, V) PROVE o \in V
  <2>1. PICK x \in Extremites : /\ x \in V \/ Pair(x) \in V
                                /\ \E i \in 1..Len(q[x]) : q[x][i].transfere # Nul /\ o = q[x][i].transfere.objet
    BY <1>2, PorteesFaits
  <2> QED BY <1>2, <2>1 DEF Couvre
<1>3. ASSUME Racines(t, th, md) \cup PorteesPar(q, V) \subseteq V PROVE Couvre(t, q, th, md, V)
  <2>1. ASSUME NEW p \in Procs, NEW s \in Slots, Tenue(p, th, md), t[p][s].entree # Nul PROVE t[p][s].entree.objet \in V
    <3>1. t[p][s].entree.objet \in Racines(t, th, md)
      BY <2>1, RacinesFaits
    <3> QED BY <1>3, <3>1
  <2>2. ASSUME NEW f \in Fils, th[f].sur # Nul PROVE th[f].sur \in V
    <3>1. th[f].sur \in Racines(t, th, md)
      BY <2>2, RacinesFaits
    <3> QED BY <1>3, <3>1
  <2>3. ASSUME NEW f \in Fils, th[f].message # Nul, th[f].message.transfere # Nul PROVE th[f].message.transfere.objet \in V
    <3>1. th[f].message.transfere.objet \in Racines(t, th, md)
      BY <2>3, RacinesFaits
    <3> QED BY <1>3, <3>1
  <2>4. ASSUME NEW x \in Extremites, x \in V \/ Pair(x) \in V, NEW i \in 1..Len(q[x]), q[x][i].transfere # Nul
        PROVE  q[x][i].transfere.objet \in V
    <3>1. q[x][i].transfere.objet \in PorteesPar(q, V)
      BY <2>4, PorteesFaits
    <3> QED BY <1>3, <3>1
  <2> QED BY <2>1, <2>2, <2>3, <2>4 DEF Couvre
<1> QED BY <1>1, <1>2, <1>3

(* A cascade of drops that starts from a set having all that is held ends in such a *)
(* set, of which every endpoint is held.                                            *)
LEMMA RestentFaits ==
    ASSUME NEW S, NEW q \in [Extremites -> Seq(S)], NEW t, NEW th, NEW md, NEW V, Couvre(t, q, th, md, V)
    PROVE  LET W == Restent(V, t, q, th, md) IN
           /\ W \subseteq V /\ Couvre(t, q, th, md, W)
           /\ W \subseteq Racines(t, th, md) \cup PorteesPar(q, W)
<1> DEFINE W == Restent(V, t, q, th, md)
           R == Racines(t, th, md)
           G(A) == R \cup PorteesPar(q, A)
<1>1. G(V) \subseteq V
  BY CouvreFaits
<1>2. ASSUME NEW A, NEW B, A \subseteq B PROVE G(A) \subseteq G(B)
  BY <1>2, PorteesCroit
<1>3. CASE V \subseteq R
  <2>1. W = V
    BY <1>3 DEF Restent
  <2> QED BY <1>3, <2>1
<1>4. CASE ~(V \subseteq R)
  <2>1. W = UNION {A \in SUBSET V : A \subseteq G(A)}
    BY <1>4 DEF Restent
  <2> HIDE DEF W, G
  <2>2. W \subseteq V
    BY <2>1
  <2>3. W \subseteq G(W)
    <3> SUFFICES ASSUME NEW o \in W PROVE o \in G(W)
      OBVIOUS
    <3>1. PICK A \in SUBSET V : A \subseteq G(A) /\ o \in A
      BY <2>1
    <3>2. A \subseteq W
      BY <2>1, <3>1
    <3> QED BY <1>2, <3>1, <3>2
  <2>4. G(W) \subseteq W
    <3>1. G(W) \subseteq V
      BY <1>1, <1>2, <2>2
    <3>2. G(W) \subseteq G(G(W))
      BY <1>2, <2>3
    <3> QED BY <2>1, <3>1, <3>2
  <2>5. Couvre(t, q, th, md, W)
    BY <2>4, CouvreFaits DEF G
  <2> QED BY <2>2, <2>3, <2>5 DEF W, G
<1> QED BY <1>3, <1>4

(* An endpoint that a held table has lives. *)
LEMMA EntreeVit ==
    ASSUME VieInv, NEW p \in Procs, NEW s \in Slots, Tenue(p, fil, morts), table[p][s].entree # Nul
    PROVE  table[p][s].entree.objet \in vivants
  BY DEF VieInv, Couvre

(* So does what an id of a running call designates. *)
LEMMA LookupVit ==
    ASSUME IInv, VieInv, NEW f \in Fils, fil[f].pas = "repos" => ProcDe[f] \notin morts, NEW id, Lookup(ProcDe[f], id) # Nul
    PROVE  Lookup(ProcDe[f], id).objet \in vivants /\ Lookup(ProcDe[f], id).objet \in Extremites
<1>1. ProcDe[f] \in Procs
  BY HandlesAssumption
<1>2. id[1] \in Slots /\ Lookup(ProcDe[f], id) = table[ProcDe[f]][id[1]].entree
  BY DEF Lookup
<1>3. Tenue(ProcDe[f], fil, morts)
  BY DEF Tenue
<1>4. Lookup(ProcDe[f], id).objet \in Extremites
  BY <1>1, LookupFaits DEF IInv
<1> QED BY <1>1, <1>2, <1>3, <1>4, EntreeVit

(* What a step leaves, once the drops it causes are done. *)
LEMMA VieLibere ==
    ASSUME VieInv, Types', auteur' = auteur, Libere,
           Couvre(table', file', fil', morts', vivants), Etrangers(file', fil'),
           \A x \in Extremites : auteur[x[1]] = Nul => file'[x] = <<>>
    PROVE  VieInv'
<1>1. file' \in [Extremites -> Seq(Courrier(auteur'))]
  BY DEF Types
<1>2. vivants' = Restent(vivants, table', file', fil', morts')
  BY DEF Libere
<1>3. /\ vivants' \subseteq vivants /\ Couvre(table', file', fil', morts', vivants')
      /\ vivants' \subseteq Racines(table', fil', morts') \cup PorteesPar(file', vivants')
  BY <1>1, <1>2, RestentFaits
<1> QED BY <1>3 DEF VieInv

(* A message that may be in e: what it carries lives and is of another channel. *)
Sain(m, e) == m.transfere # Nul => m.transfere.objet \in vivants /\ m.transfere.objet[1] # e[1]

(* A step of thread f: its process may lose handles or gain some on endpoints that *)
(* live, the queues may lose messages or gain sound ones.                          *)
LEMMA VieFil ==
    ASSUME IInv, VieInv, IInv', NEW f \in Fils, NEW r, Pas(f, r), UNCHANGED <<auteur, morts>>, Libere,
           fil[f].pas = "repos" => ProcDe[f] \notin morts,
           r.sur # Nul => r.sur \in vivants,
           r.message # Nul => Sain(r.message, r.sur),
           \A s \in Slots : table'[ProcDe[f]][s].entree # Nul => table'[ProcDe[f]][s].entree.objet \in vivants,
           \A p \in Procs : p # ProcDe[f] => table'[p] = table[p],
           \A x \in Extremites : file'[x] # file[x] => /\ x \in vivants \/ Pair(x) \in vivants
                                                       /\ \A i \in 1..Len(file'[x]) : Sain(file'[x][i], x)
    PROVE  VieInv'
<1>1. Types /\ Types' /\ fil \in [Fils -> Recepteurs(auteur)]
  BY DEF IInv, Types
<1>2. fil'[f] = r /\ \A g \in Fils : g # f => fil'[g] = fil[g]
  BY <1>1 DEF Pas
<1>3. Tenue(ProcDe[f], fil, morts)
  BY DEF Tenue
<1>4. ASSUME NEW p \in Procs, p # ProcDe[f], Tenue(p, fil', morts') PROVE Tenue(p, fil, morts)
  BY <1>2, <1>4 DEF Tenue
<1>5. ASSUME NEW p \in Procs, NEW s \in Slots, Tenue(p, fil', morts'), table'[p][s].entree # Nul
      PROVE  table'[p][s].entree.objet \in vivants
  <2>1. CASE p = ProcDe[f]
    BY <1>5, <2>1
  <2>2. CASE p # ProcDe[f]
    <3>1. table'[p] = table[p] /\ Tenue(p, fil, morts)
      BY <1>4, <1>5, <2>2
    <3> QED BY <1>5, <3>1, EntreeVit
  <2> QED BY <2>1, <2>2
<1>6. \A g \in Fils : fil'[g].sur # Nul => fil'[g].sur \in vivants
  BY <1>2 DEF VieInv, Couvre
<1>7. ASSUME NEW g \in Fils, fil'[g].message # Nul PROVE Sain(fil'[g].message, fil'[g].sur)
  <2>1. CASE g = f
    BY <1>2, <1>7, <2>1
  <2>2. CASE g # f
    <3>1. fil'[g] = fil[g]
      BY <1>2, <2>2
    <3> QED BY <1>7, <3>1 DEF VieInv, Couvre, Etrangers, Etranger, Sain
  <2> QED BY <2>1, <2>2
<1>8. ASSUME NEW x \in Extremites, NEW i \in 1..Len(file'[x])
      PROVE  /\ Etranger(file'[x][i], x)
             /\ x \in vivants \/ Pair(x) \in vivants => Sain(file'[x][i], x)
  <2>1. CASE file'[x] = file[x]
    BY <1>8, <2>1 DEF VieInv, Couvre, Etrangers, Etranger, Sain
  <2>2. CASE file'[x] # file[x]
    <3>1. Sain(file'[x][i], x)
      BY <1>8, <2>2
    <3> QED BY <3>1 DEF Sain, Etranger
  <2> QED BY <2>1, <2>2
<1>9. Etrangers(file', fil')
  BY <1>7, <1>8 DEF Etrangers, Etranger, Sain
<1>10. Couvre(table', file', fil', morts', vivants)
  BY <1>5, <1>6, <1>7, <1>8 DEF Couvre, Sain
<1>11. ASSUME NEW x \in Extremites, auteur[x[1]] = Nul PROVE file'[x] = <<>>
  <2>1. Pair(x)[1] = x[1]
    BY DEF Pair
  <2>2. x \notin vivants /\ Pair(x) \notin vivants
    BY <1>11, <2>1 DEF VieInv
  <2>3. file'[x] = file[x]
    BY <2>2
  <2> QED BY <1>11, <2>3 DEF VieInv
<1> QED BY <1>1, <1>9, <1>10, <1>11, VieLibere

(* A table that changes at one process. *)
LEMMA TableAutre ==
    ASSUME IInv, NEW p \in Procs, NEW u, table' = [table EXCEPT ![p] = u]
    PROVE  table'[p] = u /\ \A k \in Procs : k # p => table'[k] = table[k]
  BY DEF IInv, Types

(* A queue that changes at one endpoint. *)
LEMMA FileAutre ==
    ASSUME IInv, NEW x \in Extremites, NEW u, file' = [file EXCEPT ![x] = u]
    PROVE  file'[x] = u /\ \A k \in Extremites : k # x => file'[k] = file[k]
  BY DEF IInv, Types

(* The record of a thread: what it has lives. *)
LEMMA FilSain ==
    ASSUME IInv, VieInv, NEW f \in Fils
    PROVE  /\ fil[f].sur # Nul => fil[f].sur \in vivants
           /\ fil[f].message # Nul => Sain(fil[f].message, fil[f].sur)
  BY DEF VieInv, Couvre, Etrangers, Etranger, Sain

(* The messages of a channel that lives are sound. *)
LEMMA FileSaine ==
    ASSUME VieInv, NEW x \in Extremites, x \in vivants \/ Pair(x) \in vivants, NEW i \in 1..Len(file[x])
    PROVE  Sain(file[x][i], x)
  BY DEF VieInv, Couvre, Etrangers, Etranger, Sain

(* A table that only loses entries. *)
LEMMA TableMoins ==
    ASSUME IInv, VieInv, NEW f \in Fils, fil[f].pas = "repos" => ProcDe[f] \notin morts, NEW u,
           \A s \in Slots : u[s].entree # Nul => u[s].entree = table[ProcDe[f]][s].entree
    PROVE  \A s \in Slots : u[s].entree # Nul => u[s].entree.objet \in vivants
<1>1. ProcDe[f] \in Procs /\ Tenue(ProcDe[f], fil, morts)
  BY HandlesAssumption DEF Tenue
<1> QED BY <1>1, EntreeVit

(* A table that gains a handle on an endpoint that lives. *)
LEMMA TablePlus ==
    ASSUME IInv, VieInv, NEW f \in Fils, fil[f].pas = "repos" => ProcDe[f] \notin morts, Libres(table[ProcDe[f]]) # {},
           NEW e \in Entrees, e.objet \in vivants
    PROVE  \A s \in Slots : Insere(table[ProcDe[f]], e)[s].entree # Nul =>
                               Insere(table[ProcDe[f]], e)[s].entree.objet \in vivants
<1> DEFINE t == table[ProcDe[f]]
<1>1. ProcDe[f] \in Procs /\ Tenue(ProcDe[f], fil, morts)
  BY HandlesAssumption DEF Tenue
<1>2. t \in Tables /\ Premier(t) \in Slots
  BY <1>1, DuProcessus, PremierLibre DEF Libres
<1>3. \A s \in Slots : t[s].entree # Nul => t[s].entree.objet \in vivants
  BY <1>1, EntreeVit
<1> HIDE DEF t
<1>4. Insere(t, e) = [t EXCEPT ![Premier(t)] = [gen |-> NextGeneration(t[Premier(t)].gen), entree |-> e]]
  BY DEF Insere
<1>5. /\ Insere(t, e)[Premier(t)].entree = e
      /\ \A s \in Slots : s # Premier(t) => Insere(t, e)[s] = t[s]
  BY <1>2, <1>4 DEF Tables
<1>6. \A s \in Slots : Insere(t, e)[s].entree # Nul => Insere(t, e)[s].entree.objet \in vivants
  BY <1>3, <1>5
<1> QED BY <1>6 DEF t

(* handle_close. *)
LEMMA FermeVie ==
    ASSUME IInv, VieInv, IInv', NEW f \in Fils, Ferme(f)
    PROVE  VieInv'
<1>1. ProcDe[f] \notin morts /\ UNCHANGED <<file, auteur, fil, morts>> /\ Libere
  BY DEF Ferme, Appelle
<1>2. PICK id \in Ids(ProcDe[f]) : table' = [table EXCEPT ![ProcDe[f]] = Retire(@, id)]
  BY DEF Ferme
<1>3. ProcDe[f] \in Procs
  BY HandlesAssumption
<1>4. table[ProcDe[f]] \in Tables /\ id \in Identifiants
  BY <1>3, DuProcessus
<1> DEFINE u == Retire(table[ProcDe[f]], id)
<1>5. table'[ProcDe[f]] = u /\ \A k \in Procs : k # ProcDe[f] => table'[k] = table[k]
  BY <1>2, <1>3, TableAutre
<1>6. \A s \in Slots : u[s].entree # Nul => u[s].entree = table[ProcDe[f]][s].entree
  BY <1>4, RetireFaits
<1> HIDE DEF u
<1>7. \A s \in Slots : u[s].entree # Nul => u[s].entree.objet \in vivants
  BY <1>1, <1>6, TableMoins
<1>8. Pas(f, fil[f])
  BY <1>1 DEF Pas, IInv, Types
<1> QED BY <1>1, <1>5, <1>7, <1>8, FilSain, VieFil

(* handle_dup. *)
LEMMA DupliqueVie ==
    ASSUME IInv, VieInv, IInv', NEW f \in Fils, Duplique(f)
    PROVE  VieInv'
<1>1. ProcDe[f] \notin morts /\ UNCHANGED <<file, auteur, fil, morts>> /\ Libere /\ Libres(table[ProcDe[f]]) # {}
  BY DEF Duplique, Appelle
<1>2. PICK id \in Ids(ProcDe[f]), d \in {Droits, {"READ", "DUP"}} :
          /\ Lookup(ProcDe[f], id) # Nul
          /\ table' = [table EXCEPT ![ProcDe[f]] = Insere(@, [objet |-> Lookup(ProcDe[f], id).objet, droits |-> d])]
  BY DEF Duplique
<1>3. ProcDe[f] \in Procs
  BY HandlesAssumption
<1>4. Lookup(ProcDe[f], id).objet \in vivants /\ Lookup(ProcDe[f], id).objet \in Extremites
  BY <1>1, <1>2, LookupVit
<1> DEFINE e == [objet |-> Lookup(ProcDe[f], id).objet, droits |-> d]
           u == Insere(table[ProcDe[f]], e)
<1>5. e \in Entrees /\ e.objet \in vivants
  BY <1>4 DEF Entrees, Droits
<1>6. table'[ProcDe[f]] = u /\ \A k \in Procs : k # ProcDe[f] => table'[k] = table[k]
  BY <1>2, <1>3, TableAutre
<1> HIDE DEF e
<1>7. \A s \in Slots : u[s].entree # Nul => u[s].entree.objet \in vivants
  BY <1>1, <1>5, TablePlus
<1> HIDE DEF u
<1>8. Pas(f, fil[f])
  BY <1>1 DEF Pas, IInv, Types
<1> QED BY <1>1, <1>6, <1>7, <1>8, FilSain, VieFil

(* channel_send: what it queues is another channel's, and its sender has it. *)
LEMMA SendVie ==
    ASSUME IInv, VieInv, IInv', NEW f \in Fils, Send(f)
    PROVE  VieInv'
<1> DEFINE p == ProcDe[f]
<1>1. p \notin morts /\ UNCHANGED <<table, auteur, fil, morts>> /\ Libere
  BY DEF Send, Appelle
<1>2. PICK id \in Ids(p) :
          /\ Detient(p, id, "WRITE") /\ Pair(Lookup(p, id).objet) \in vivants
          /\ \E x \in Envois(p, Lookup(p, id).objet) :
                file' = [file EXCEPT ![Pair(Lookup(p, id).objet)] = Append(@, [numero |-> appels', transfere |-> x])]
  BY DEF Send
<1> DEFINE e == Lookup(p, id).objet
           d == Pair(e)
<1>3. PICK x \in Envois(p, e) : file' = [file EXCEPT ![d] = Append(@, [numero |-> appels', transfere |-> x])]
  BY <1>2
<1>4. p \in Procs /\ e \in Extremites /\ d \in Extremites /\ d \in vivants /\ d[1] = e[1]
  <2>1. p \in Procs
    BY HandlesAssumption
  <2>2. e \in Extremites
    BY <2>1, <1>2, LookupFaits DEF IInv, Detient
  <2>3. d \in Extremites
    BY <2>2, PairExtremite
  <2>4. d[1] = e[1]
    BY DEF Pair
  <2> QED BY <1>2, <2>1, <2>2, <2>3, <2>4
<1>5. ASSUME x # Nul PROVE x.objet \in vivants /\ x.objet[1] # e[1]
  <2>1. PICK y \in Ids(p) \X Masques[p] :
            /\ Detient(p, y[1], "TRANSFER") /\ ~MemeCanal(e, Lookup(p, y[1]).objet)
            /\ x = [objet |-> Lookup(p, y[1]).objet, droits |-> VerifieTransfert(Lookup(p, y[1]).droits, y[2])]
    BY <1>5 DEF Envois
  <2>2. x.objet = Lookup(p, y[1]).objet /\ Lookup(p, y[1]) # Nul
    BY <2>1 DEF Detient
  <2>3. Lookup(p, y[1]).objet \in vivants
    BY <1>1, <2>2, LookupVit
  <2> QED BY <2>1, <2>2, <2>3 DEF MemeCanal
<1> DEFINE m == [numero |-> appels', transfere |-> x]
           q == Append(file[d], m)
<1>6. Sain(m, d)
  BY <1>4, <1>5 DEF Sain
<1> HIDE DEF e, d, m
<1>7. file[d] \in Seq(Courrier(auteur))
  BY <1>4 DEF IInv, Types
<1>8. Len(q) = Len(file[d]) + 1 /\ \A i \in 1..Len(q) : q[i] = IF i <= Len(file[d]) THEN file[d][i] ELSE m
  BY <1>7
<1>9. \A i \in 1..Len(q) : Sain(q[i], d)
  <2> TAKE i \in 1..Len(q)
  <2>1. CASE i <= Len(file[d])
    <3>1. i \in 1..Len(file[d]) /\ q[i] = file[d][i]
      BY <1>7, <1>8, <2>1
    <3> QED BY <1>4, <3>1, FileSaine
  <2>2. CASE ~(i <= Len(file[d]))
    <3>1. q[i] = m
      BY <1>8, <2>2
    <3> QED BY <1>6, <3>1
  <2> QED BY <2>1, <2>2
<1>10. file' = [file EXCEPT ![d] = q]
  BY <1>3 DEF m
<1> HIDE DEF q
<1>11. file'[d] = q /\ \A k \in Extremites : k # d => file'[k] = file[k]
  BY <1>4, <1>10, FileAutre
<1>12. \A k \in Extremites : file'[k] # file[k] => /\ k \in vivants \/ Pair(k) \in vivants
                                                   /\ \A i \in 1..Len(file'[k]) : Sain(file'[k][i], k)
  BY <1>4, <1>9, <1>11
<1>13. Pas(f, fil[f])
  BY <1>1 DEF Pas, IInv, Types
<1>14. \A s \in Slots : table'[p][s].entree # Nul => table'[p][s].entree.objet \in vivants
  BY <1>1, TableMoins
<1> QED BY <1>1, <1>12, <1>13, <1>14, FilSain, VieFil

(* A step of a receive that leaves its table and the queues alone. *)
LEMMA ReceptionVie ==
    ASSUME IInv, VieInv, IInv', NEW f \in Fils, NEW r, Pas(f, r), UNCHANGED <<table, file, auteur, morts>>, Libere,
           fil[f].pas = "repos" => ProcDe[f] \notin morts,
           r.sur # Nul => r.sur \in vivants, r.message # Nul => Sain(r.message, r.sur)
    PROVE  VieInv'
<1>1. \A s \in Slots : table'[ProcDe[f]][s].entree # Nul => table'[ProcDe[f]][s].entree.objet \in vivants
  BY TableMoins
<1> QED BY <1>1, VieFil

(* The start of a receive. *)
LEMMA RecvDebutVie ==
    ASSUME IInv, VieInv, IInv', NEW f \in Fils, RecvDebut(f)
    PROVE  VieInv'
<1>1. ProcDe[f] \notin morts /\ UNCHANGED <<table, file, auteur, morts>> /\ Libere
  BY DEF RecvDebut, Appelle
<1>2. PICK id \in Ids(ProcDe[f]), place \in {0, 1} :
          /\ Detient(ProcDe[f], id, "READ")
          /\ Pas(f, [Repos EXCEPT !.pas = "prend", !.sur = Lookup(ProcDe[f], id).objet, !.place = place])
  BY DEF RecvDebut
<1>3. Lookup(ProcDe[f], id).objet \in vivants
  BY <1>1, <1>2, LookupVit DEF Detient
<1> DEFINE r == [Repos EXCEPT !.pas = "prend", !.sur = Lookup(ProcDe[f], id).objet, !.place = place]
<1>4. r.sur \in vivants /\ r.message = Nul
  BY <1>3 DEF Repos
<1> HIDE DEF r
<1>5. Pas(f, r)
  BY <1>2 DEF r
<1> QED BY <1>1, <1>4, <1>5, ReceptionVie

(* Taking the front of the queue: its endpoint lives, the call holds it. *)
LEMMA RecvPrendVie ==
    ASSUME IInv, VieInv, IInv', NEW f \in Fils, RecvPrend(f)
    PROVE  VieInv'
<1> DEFINE e == fil[f].sur
<1>1. fil[f].pas = "prend" /\ UNCHANGED <<table, auteur, morts>> /\ Libere
  BY DEF RecvPrend
<1>2. fil[f] \in Recepteurs(auteur) /\ e \in Extremites /\ e # Nul
  BY <1>1, FilFaits, DepartAssumption DEF IInv
<1>3. e \in vivants
  BY <1>2, FilSain
<1>4. file[e] \in Seq(Courrier(auteur))
  BY <1>2 DEF IInv, Types
<1>5. CASE file[e] = <<>>
  <2>1. Pas(f, Repos) /\ file' = file
    BY <1>5 DEF RecvPrend
  <2>2. Repos.sur = Nul /\ Repos.message = Nul
    BY DEF Repos
  <2> QED BY <1>1, <2>1, <2>2, ReceptionVie
<1>6. CASE file[e] # <<>>
  <2> DEFINE m == Head(file[e])
             k == IF TropGrand(m, fil[f].place) THEN "remet" ELSE "verifie"
             r == [fil[f] EXCEPT !.message = m, !.pas = k]
             q == Tail(file[e])
  <2>1. file' = [file EXCEPT ![e] = q] /\ Pas(f, r)
    BY <1>6 DEF RecvPrend
  <2>2. /\ Len(file[e]) \in Nat \ {0} /\ m = file[e][1]
        /\ Len(q) = Len(file[e]) - 1 /\ \A i \in 1..Len(q) : q[i] = file[e][i + 1]
    BY <1>4, <1>6
  <2> HIDE DEF m, k, q
  <2>3. r.sur = e /\ r.message = m
    BY <1>2 DEF Recepteurs
  <2> HIDE DEF r
  <2>4. Sain(m, e)
    <3>1. 1 \in 1..Len(file[e])
      BY <2>2
    <3> QED BY <1>2, <1>3, <2>2, <3>1, FileSaine
  <2>5. \A i \in 1..Len(q) : Sain(q[i], e)
    <3> TAKE i \in 1..Len(q)
    <3>1. i + 1 \in 1..Len(file[e]) /\ q[i] = file[e][i + 1]
      BY <2>2
    <3> QED BY <1>2, <1>3, <3>1, FileSaine
  <2> HIDE DEF e
  <2>6. file'[e] = q /\ \A x \in Extremites : x # e => file'[x] = file[x]
    BY <1>2, <2>1, FileAutre
  <2>7. \A x \in Extremites : file'[x] # file[x] => /\ x \in vivants \/ Pair(x) \in vivants
                                                    /\ \A i \in 1..Len(file'[x]) : Sain(file'[x][i], x)
    BY <1>3, <2>5, <2>6
  <2>8. \A s \in Slots : table'[ProcDe[f]][s].entree # Nul => table'[ProcDe[f]][s].entree.objet \in vivants
    BY <1>1, TableMoins
  <2> QED BY <1>1, <1>3, <2>1, <2>3, <2>4, <2>7, <2>8, VieFil
<1> QED BY <1>5, <1>6

(* The preflight refuses. *)
LEMMA RecvRefuseVie ==
    ASSUME IInv, VieInv, IInv', NEW f \in Fils, RecvRefuse(f)
    PROVE  VieInv'
<1> DEFINE r == [fil[f] EXCEPT !.pas = "remet"]
<1>1. fil[f].pas = "verifie" /\ UNCHANGED <<table, file, auteur, morts>> /\ Libere /\ Pas(f, r)
  BY DEF RecvRefuse
<1>2. r.sur = fil[f].sur /\ r.message = fil[f].message
  BY FilFaits DEF IInv, Recepteurs
<1> HIDE DEF r
<1> QED BY <1>1, <1>2, FilSain, ReceptionVie

(* insert_many: the table of the call is held, dead or not. *)
LEMMA RecvInstalleVie ==
    ASSUME IInv, VieInv, IInv', NEW f \in Fils, RecvInstalle(f)
    PROVE  VieInv'
<1> DEFINE p == ProcDe[f]
           m == fil[f].message
<1>1. fil[f].pas = "verifie" /\ UNCHANGED <<file, auteur, morts>> /\ Libere
  BY DEF RecvInstalle
<1>2. p \in Procs /\ fil[f] \in Recepteurs(auteur) /\ m \in Courrier(auteur) /\ m # Nul
  BY <1>1, FilFaits DEF IInv, Types
<1>3. ASSUME NEW k, NEW j PROVE LET r == [fil[f] EXCEPT !.pas = k, !.id = j] IN r.sur = fil[f].sur /\ r.message = m
  BY <1>2 DEF Recepteurs
<1>4. ASSUME NEW k PROVE LET r == [fil[f] EXCEPT !.pas = k] IN r.sur = fil[f].sur /\ r.message = m
  BY <1>2 DEF Recepteurs
<1>5. ASSUME NEW k, Pas(f, [fil[f] EXCEPT !.pas = k]), table' = table PROVE VieInv'
  <2> DEFINE r == [fil[f] EXCEPT !.pas = k]
  <2>1. r.sur = fil[f].sur /\ r.message = fil[f].message /\ Pas(f, r)
    BY <1>4, <1>5
  <2> HIDE DEF r
  <2> QED BY <1>1, <1>5, <2>1, FilSain, ReceptionVie
<1>6. ASSUME m.transfere # Nul, Libres(table[p]) # {}, table' = [table EXCEPT ![p] = Insere(@, m.transfere)],
             Pas(f, [fil[f] EXCEPT !.pas = "copie", !.id = IdPose(table[p])])
      PROVE  VieInv'
  <2> DEFINE r == [fil[f] EXCEPT !.pas = "copie", !.id = IdPose(table[p])]
             u == Insere(table[p], m.transfere)
  <2>1. r.sur = fil[f].sur /\ r.message = fil[f].message /\ Pas(f, r)
    BY <1>3, <1>6
  <2> HIDE DEF r
  <2>2. m.transfere \in Entrees
    BY <1>2, <1>6 DEF Courrier, Messages
  <2>3. m.transfere.objet \in vivants
    BY <1>2, <1>6, FilSain DEF Sain
  <2>4. \A s \in Slots : u[s].entree # Nul => u[s].entree.objet \in vivants
    BY <1>1, <1>6, <2>2, <2>3, TablePlus
  <2> HIDE DEF u
  <2>5. table'[p] = u /\ \A k \in Procs : k # p => table'[k] = table[k]
    BY <1>2, <1>6, TableAutre DEF u
  <2> QED BY <1>1, <2>1, <2>4, <2>5, FilSain, VieFil
<1> QED BY <1>5, <1>6 DEF RecvInstalle, Echec

(* The delivery: the call lets go. *)
LEMMA RecvRendVie ==
    ASSUME IInv, VieInv, IInv', NEW f \in Fils, RecvRend(f)
    PROVE  VieInv'
<1>1. fil[f].pas = "copie" /\ UNCHANGED <<table, file, auteur, morts>> /\ Libere /\ Pas(f, Repos)
  BY DEF RecvRend
<1>2. Repos.sur = Nul /\ Repos.message = Nul
  BY DEF Repos
<1> QED BY <1>1, <1>2, ReceptionVie

(* The roll-back of a receive. *)
LEMMA RecvAnnuleVie ==
    ASSUME IInv, VieInv, IInv', NEW f \in Fils, RecvAnnule(f)
    PROVE  VieInv'
<1> DEFINE p == ProcDe[f]
           i == fil[f].id
           u == IF i = Nul THEN table[p] ELSE Retire(table[p], i)
           r == [fil[f] EXCEPT !.pas = "remet", !.id = Nul]
<1>1. fil[f].pas = "copie" /\ UNCHANGED <<file, auteur, morts>> /\ Libere /\ Pas(f, r) /\ table' = [table EXCEPT ![p] = u]
  BY DEF RecvAnnule
<1>2. p \in Procs /\ fil[f] \in Recepteurs(auteur) /\ i \in Identifiants \cup {Nul} /\ table[p] \in Tables
  BY FilFaits DEF IInv, Types
<1>3. r.sur = fil[f].sur /\ r.message = fil[f].message
  BY <1>2 DEF Recepteurs
<1>4. \A s \in Slots : u[s].entree # Nul => u[s].entree = table[p][s].entree
  BY <1>2, RetireFaits
<1> HIDE DEF u, r
<1>5. \A s \in Slots : u[s].entree # Nul => u[s].entree.objet \in vivants
  BY <1>1, <1>4, TableMoins
<1>6. table'[p] = u /\ \A k \in Procs : k # p => table'[k] = table[k]
  BY <1>1, <1>2, TableAutre
<1> QED BY <1>1, <1>3, <1>5, <1>6, FilSain, VieFil

(* The message given back is sound: it was taken from that channel. *)
LEMMA RequeueFrontVie ==
    ASSUME IInv, VieInv, IInv', NEW f \in Fils, RequeueFront(f)
    PROVE  VieInv'
<1> DEFINE e == fil[f].sur
           m == fil[f].message
           q == <<m>> \o file[e]
<1>1. fil[f].pas = "remet" /\ UNCHANGED <<table, auteur, morts>> /\ Libere /\ Pas(f, Repos) /\ file' = [file EXCEPT ![e] = q]
  BY DEF RequeueFront, Devant
<1>2. e \in Extremites /\ e # Nul /\ m \in Courrier(auteur) /\ m # Nul
  BY <1>1, FilFaits, DepartAssumption DEF IInv, Types
<1>3. e \in vivants /\ Sain(m, e)
  BY <1>2, FilSain
<1>4. file[e] \in Seq(Courrier(auteur))
  BY <1>2 DEF IInv, Types
<1> HIDE DEF e, m
<1>5. Len(q) = Len(file[e]) + 1 /\ q[1] = m /\ \A i \in 2..Len(q) : q[i] = file[e][i - 1]
  BY <1>2, <1>4
<1> HIDE DEF q
<1>6. \A i \in 1..Len(q) : Sain(q[i], e)
  <2> TAKE i \in 1..Len(q)
  <2>1. CASE i = 1
    BY <1>3, <1>5, <2>1
  <2>2. CASE i # 1
    <3>1. i - 1 \in 1..Len(file[e]) /\ q[i] = file[e][i - 1]
      BY <1>4, <1>5, <2>2
    <3> QED BY <1>2, <1>3, <3>1, FileSaine
  <2> QED BY <2>1, <2>2
<1>7. file'[e] = q /\ \A x \in Extremites : x # e => file'[x] = file[x]
  BY <1>1, <1>2, FileAutre
<1>8. \A x \in Extremites : file'[x] # file[x] => /\ x \in vivants \/ Pair(x) \in vivants
                                                  /\ \A i \in 1..Len(file'[x]) : Sain(file'[x][i], x)
  BY <1>3, <1>6, <1>7
<1>9. \A s \in Slots : table'[ProcDe[f]][s].entree # Nul => table'[ProcDe[f]][s].entree.objet \in vivants
  BY <1>1, TableMoins
<1>10. Repos.sur = Nul /\ Repos.message = Nul
  BY DEF Repos
<1> QED BY <1>1, <1>8, <1>9, <1>10, VieFil

(* The death of a process. *)
LEMMA MeurtVie ==
    ASSUME IInv, VieInv, IInv', NEW p \in Procs, Meurt(p)
    PROVE  VieInv'
<1>1. /\ UNCHANGED <<file, auteur, fil>> /\ morts' = morts \cup {p} /\ Libere
      /\ table' = [table EXCEPT ![p] = [s \in Slots |-> [table[p][s] EXCEPT !.entree = Nul]]]
  BY DEF Meurt, IInv, Types
<1>2. /\ table'[p] = [s \in Slots |-> [table[p][s] EXCEPT !.entree = Nul]]
      /\ \A k \in Procs : k # p => table'[k] = table[k]
  BY <1>1, TableAutre
<1>3. ASSUME NEW s \in Slots PROVE table'[p][s].entree = Nul
  <2>1. table[p][s] \in Cases
    BY DEF IInv, Types, Tables
  <2> QED BY <1>2, <2>1 DEF Cases
<1>4. \A k \in Procs : Tenue(k, fil', morts') => Tenue(k, fil, morts)
  BY <1>1 DEF Tenue
<1>5. ASSUME NEW k \in Procs, NEW s \in Slots, Tenue(k, fil', morts'), table'[k][s].entree # Nul
      PROVE  table'[k][s].entree.objet \in vivants
  <2>1. table'[k] = table[k] /\ Tenue(k, fil, morts)
    BY <1>2, <1>3, <1>4, <1>5
  <2> QED BY <1>5, <2>1, EntreeVit
<1>6. Couvre(table', file', fil', morts', vivants)
  BY <1>1, <1>5 DEF VieInv, Couvre
<1>7. Etrangers(file', fil') /\ \A x \in Extremites : auteur[x[1]] = Nul => file'[x] = <<>>
  BY <1>1 DEF VieInv
<1> QED BY <1>1, <1>6, <1>7, VieLibere DEF IInv

(* The same entries as before hold what they held. *)
LEMMA MemesEntrees ==
    ASSUME IInv, VieInv, UNCHANGED <<file, auteur, fil, morts, vivants>>,
           \A k \in Procs, s \in Slots : table'[k][s].entree = table[k][s].entree
    PROVE  VieInv'
<1>1. ASSUME NEW o PROVE o \in Racines(table, fil, morts) <=> o \in Racines(table', fil', morts')
  <2> DEFINE T(t) == \E k \in Procs, s \in Slots : Tenue(k, fil, morts) /\ t[k][s].entree # Nul /\ o = t[k][s].entree.objet
             U == \E f \in Fils : fil[f].sur # Nul /\ o = fil[f].sur
             M == \E f \in Fils : fil[f].message # Nul /\ fil[f].message.transfere # Nul /\ o = fil[f].message.transfere.objet
  <2>1. o \in Racines(table, fil, morts) <=> T(table) \/ U \/ M
    BY RacinesFaits
  <2>2. o \in Racines(table', fil, morts) <=> T(table') \/ U \/ M
    BY RacinesFaits
  <2>3. T(table) <=> T(table')
    OBVIOUS
  <2> HIDE DEF T, U, M
  <2> QED BY <2>1, <2>2, <2>3
<1>2. vivants' \subseteq Racines(table', fil', morts') \cup PorteesPar(file', vivants')
  BY <1>1 DEF VieInv
<1>3. Couvre(table', file', fil', morts', vivants')
  BY DEF VieInv, Couvre
<1> QED BY <1>2, <1>3 DEF VieInv

(* channel_create: two endpoints that its process holds, of an empty channel. *)
LEMMA CreeVie ==
    ASSUME IInv, VieInv, IInv', NEW f \in Fils, Cree(f)
    PROVE  VieInv'
<1> DEFINE p == ProcDe[f]
           t == table[p]
           a(c) == [objet |-> <<c, 0>>, droits |-> Droits]
           b(c) == [objet |-> <<c, 1>>, droits |-> Droits]
           un(c) == Insere(t, a(c))
           deux(c) == Insere(un(c), b(c))
<1>1. p \notin morts /\ appels < MaxAppels /\ Libres(t) # {} /\ UNCHANGED <<file, fil, morts>>
  BY DEF Cree, Appelle
<1>2. PICK c \in {d \in Canaux : auteur[d] = Nul} :
          \/ /\ Cardinality(Libres(t)) > 1
             /\ table' = [table EXCEPT ![p] = deux(c)]
             /\ auteur' = [auteur EXCEPT ![c] = p]
             /\ vivants' = vivants \cup {<<c, 0>>, <<c, 1>>}
          \/ /\ table' = [table EXCEPT ![p] =
                   IF Cardinality(Libres(@)) > 1
                   THEN Retire(Retire(deux(c), IdPose(@)), IdPose(un(c)))
                   ELSE Retire(un(c), IdPose(@))]
             /\ UNCHANGED <<auteur, vivants>>
  BY DEF Cree
<1>3. p \in Procs /\ c \in Canaux /\ auteur[c] = Nul
  BY HandlesAssumption
<1>4. a(c) \in Entrees /\ b(c) \in Entrees
  BY <1>3 DEF Entrees, Extremites
<1>5. t \in Tables /\ \A s \in Slots : t[s].gen < GenMax
  <2>1. \A s \in Slots : t[s].gen \in Nat /\ t[s].gen + Cardinality(Vol(fil, p)) <= appels + 1
    BY <1>3, DesGenerations
  <2>2. Cardinality(Vol(fil, p)) \in Nat /\ appels \in Nat
    BY <1>3, DesGenerations, DesFils
  <2> QED BY <1>1, <1>3, <2>1, <2>2, DuProcessus, HandlesAssumption
<1> DEFINE u == un(c)
           v == deux(c)
           w == IF Cardinality(Libres(t)) > 1 THEN Retire(Retire(v, IdPose(t)), IdPose(u)) ELSE Retire(u, IdPose(t))
<1>6. ASSUME table' = [table EXCEPT ![p] = w], UNCHANGED <<auteur, vivants>> PROVE VieInv'
  <2>1. \A s \in Slots : w[s].entree = t[s].entree
    <3>1. \A s \in Slots : w[s] = t[s] \/ (t[s].entree = Nul /\ w[s].entree = Nul /\ w[s].gen = t[s].gen + 1)
      BY <1>1, <1>4, <1>5, CreationAnnulee
    <3> HIDE DEF w
    <3> QED BY <3>1
  <2>2. UNCHANGED <<file, auteur, fil, morts, vivants>>
    BY <1>1, <1>6
  <2>3. \A s \in Slots : w[s].entree = table[p][s].entree
    BY <2>1
  <2> HIDE DEF w
  <2>4. table'[p] = w /\ \A k \in Procs : k # p => table'[k] = table[k]
    BY <1>3, <1>6, TableAutre
  <2>5. \A k \in Procs, s \in Slots : table'[k][s].entree = table[k][s].entree
    BY <2>3, <2>4
  <2> QED BY <2>2, <2>5, MemesEntrees
<1>7. ASSUME Cardinality(Libres(t)) > 1, table' = [table EXCEPT ![p] = v], auteur' = [auteur EXCEPT ![c] = p],
             vivants' = vivants \cup {<<c, 0>>, <<c, 1>>}
      PROVE  VieInv'
  <2> DEFINE i == Premier(t)
             j == Premier(u)
  <2>1. /\ i \in Slots /\ t[i].entree = Nul /\ u \in Tables /\ u[i].entree = a(c)
        /\ \A s \in Slots : s # i => u[s] = t[s]
    <3>1. i \in Slots
      BY <1>1, PremierLibre DEF Libres
    <3>2. /\ t[i].entree = Nul /\ u \in Tables /\ u[i] = [gen |-> t[i].gen + 1, entree |-> a(c)]
          /\ \A s \in Slots : s # i => u[s] = t[s]
      BY <1>1, <1>4, <1>5, <3>1, InsereFaits
    <3> HIDE DEF u, t, i
    <3> QED BY <3>1, <3>2
  <2>2. Libres(u) # {} /\ j \in Slots /\ j # i /\ u[j] = t[j] /\ u[j].gen < GenMax
    BY <1>1, <1>4, <1>5, <1>7, DeuxLibres
  <2> HIDE DEF u
  <2>3. /\ u[j].entree = Nul /\ v[j].entree = b(c) /\ \A s \in Slots : s # j => v[s] = u[s]
    <3>1. /\ u[j].entree = Nul /\ v[j] = [gen |-> u[j].gen + 1, entree |-> b(c)]
          /\ \A s \in Slots : s # j => v[s] = u[s]
      BY <1>4, <2>1, <2>2, InsereFaits DEF u
    <3> HIDE DEF v, j
    <3> QED BY <3>1
  <2> HIDE DEF v, i, j
  <2>4. /\ v[i].entree = a(c) /\ v[j].entree = b(c)
        /\ \A s \in Slots : t[s].entree # Nul => v[s].entree = t[s].entree
        /\ \A s \in Slots : v[s].entree # Nul =>
              v[s].entree = t[s].entree \/ v[s].entree = a(c) \/ v[s].entree = b(c)
    BY <2>1, <2>2, <2>3
  <2>5. table'[p] = v /\ \A k \in Procs : k # p => table'[k] = table[k]
    BY <1>3, <1>7, TableAutre
  <2>6. Tenue(p, fil, morts) /\ \A k \in Procs : Tenue(k, fil', morts') <=> Tenue(k, fil, morts)
    BY <1>1 DEF Tenue
  <2>7. a(c).objet = <<c, 0>> /\ b(c).objet = <<c, 1>> /\ a(c) # Nul /\ b(c) # Nul
    BY <1>4, DepartAssumption
  <2> HIDE DEF a, b, t
  <2>8. /\ auteur \in [Canaux -> Procs \cup {Nul}] /\ p # Nul
        /\ auteur'[c] = p /\ \A d \in Canaux : d # c => auteur'[d] = auteur[d]
    BY <1>3, <1>7, DesFils, DepartAssumption
  <2>9. /\ <<c, 0>> \in Extremites /\ <<c, 1>> \in Extremites /\ <<c, 0>>[1] = c /\ <<c, 1>>[1] = c
        /\ \A x \in Extremites : x[1] \in Canaux
    BY <1>3 DEF Extremites
  <2>10. vivants' \subseteq {e \in Extremites : auteur'[e[1]] # Nul}
    <3> SUFFICES ASSUME NEW e \in vivants' PROVE e \in Extremites /\ auteur'[e[1]] # Nul
      OBVIOUS
    <3>1. CASE e \in vivants
      <4>1. e \in Extremites /\ auteur[e[1]] # Nul /\ e[1] \in Canaux
        BY <3>1, <2>9 DEF VieInv
      <4>2. e[1] # c
        BY <1>3, <4>1
      <4> QED BY <2>8, <4>1, <4>2
    <3>2. CASE e = <<c, 0>> \/ e = <<c, 1>>
      BY <2>8, <2>9, <3>2
    <3> QED BY <1>7, <3>1, <3>2
  <2>11. \A x \in Extremites : auteur'[x[1]] = Nul => file'[x] = <<>>
    <3> SUFFICES ASSUME NEW x \in Extremites, auteur'[x[1]] = Nul PROVE file'[x] = <<>>
      OBVIOUS
    <3>1. auteur[x[1]] = Nul
      BY <1>3, <2>8, <2>9
    <3> QED BY <1>1, <3>1 DEF VieInv
  <2>12. Etrangers(file', fil')
    BY <1>1 DEF VieInv
  <2>13. Couvre(table', file', fil', morts', vivants')
    <3>1. ASSUME NEW k \in Procs, NEW s \in Slots, Tenue(k, fil', morts'), table'[k][s].entree # Nul
          PROVE  table'[k][s].entree.objet \in vivants'
      <4>1. CASE table'[k][s].entree = table[k][s].entree
        <5>1. table[k][s].entree.objet \in vivants
          BY <2>6, <3>1, <4>1, EntreeVit
        <5> QED BY <1>7, <4>1, <5>1
      <4>2. CASE k = p /\ (v[s].entree = a(c) \/ v[s].entree = b(c))
        <5>1. table'[k][s].entree = a(c) \/ table'[k][s].entree = b(c)
          BY <2>5, <4>2
        <5>2. table'[k][s].entree.objet \in {<<c, 0>>, <<c, 1>>}
          BY <2>7, <5>1
        <5> QED BY <1>7, <5>2
      <4> QED BY <2>4, <2>5, <3>1, <4>1, <4>2 DEF t
    <3>2. \A g \in Fils : fil'[g].sur # Nul => fil'[g].sur \in vivants'
      BY <1>1, <1>7 DEF VieInv, Couvre
    <3>3. \A g \in Fils : fil'[g].message # Nul /\ fil'[g].message.transfere # Nul => fil'[g].message.transfere.objet \in vivants'
      BY <1>1, <1>7 DEF VieInv, Couvre
    <3>4. ASSUME NEW x \in Extremites, x \in vivants' \/ Pair(x) \in vivants', NEW n \in 1..Len(file'[x]), file'[x][n].transfere # Nul
          PROVE  file'[x][n].transfere.objet \in vivants'
      <4>1. Pair(x)[1] = x[1]
        BY DEF Pair
      <4>2. CASE x[1] = c
        <5>1. file[x] = <<>>
          BY <1>3, <4>2 DEF VieInv
        <5>2. 1..Len(file'[x]) = {}
          BY <1>1, <5>1
        <5> QED BY <3>4, <5>2
      <4>3. CASE x[1] # c
        <5>1. x \in vivants \/ Pair(x) \in vivants
          BY <1>7, <2>9, <3>4, <4>1, <4>3
        <5>2. file[x][n].transfere.objet \in vivants
          BY <1>1, <3>4, <5>1 DEF VieInv, Couvre
        <5> QED BY <1>1, <1>7, <5>2
      <4> QED BY <4>2, <4>3
    <3> QED BY <3>1, <3>2, <3>3, <3>4 DEF Couvre
  <2>14. vivants' \subseteq Racines(table', fil', morts') \cup PorteesPar(file', vivants')
    <3> SUFFICES ASSUME NEW o \in vivants' PROVE o \in Racines(table', fil', morts') \cup PorteesPar(file', vivants')
      OBVIOUS
    <3>1. CASE o \in {<<c, 0>>, <<c, 1>>}
      <4>1. \E s \in Slots : table'[p][s].entree # Nul /\ o = table'[p][s].entree.objet
        BY <2>1, <2>2, <2>4, <2>5, <2>7, <3>1
      <4>2. Tenue(p, fil', morts')
        BY <1>3, <2>6
      <4> QED BY <1>3, <4>1, <4>2, RacinesFaits
    <3>2. CASE o \in PorteesPar(file, vivants)
      BY <1>1, <1>7, <3>2, PorteesCroit
    <3>3. CASE o \in Racines(table, fil, morts)
      <4>1. \A k \in Procs, s \in Slots : table[k][s].entree # Nul => table'[k][s].entree = table[k][s].entree
        BY <2>4, <2>5 DEF t
      <4>2. o \in Racines(table', fil, morts)
        BY <3>3, <4>1, RacinesFaits
      <4> QED BY <1>1, <4>2
    <3> QED BY <1>7, <3>1, <3>2, <3>3 DEF VieInv
  <2> QED BY <2>10, <2>11, <2>12, <2>13, <2>14 DEF VieInv
<1>8. \/ /\ Cardinality(Libres(t)) > 1 /\ table' = [table EXCEPT ![p] = v] /\ auteur' = [auteur EXCEPT ![c] = p]
         /\ vivants' = vivants \cup {<<c, 0>>, <<c, 1>>}
      \/ table' = [table EXCEPT ![p] = w] /\ UNCHANGED <<auteur, vivants>>
  BY <1>2
<1> HIDE DEF v, w
<1> QED BY <1>6, <1>7, <1>8

(* The start: an endpoint that nothing holds is not there. *)
LEMMA InitVie ==
    ASSUME Init
    PROVE  VieInv
<1> DEFINE V == {e \in Extremites : auteur[e[1]] # Nul}
<1>1. IInv
  BY InitInv
<1>2. auteur = Crees /\ file = Attendent /\ fil = [f \in Fils |-> Repos] /\ vivants = Restent(V, table, file, fil, morts)
  BY DEF Init
<1>3. file \in [Extremites -> Seq(Courrier(auteur))]
  BY <1>1 DEF IInv, Types
<1>4. \A f \in Fils : fil[f].sur = Nul /\ fil[f].message = Nul
  BY <1>2 DEF Repos
<1>5. \A e \in Extremites : \A i \in 1..Len(file[e]) :
          /\ Crees[e[1]] # Nul
          /\ file[e][i].transfere # Nul => /\ Crees[file[e][i].transfere.objet[1]] # Nul
                                           /\ file[e][i].transfere.objet[1] # e[1]
  BY <1>2, DepartAssumption
<1>6. ASSUME NEW e \in Extremites, NEW i \in 1..Len(file[e]), file[e][i].transfere # Nul
      PROVE  file[e][i].transfere.objet \in V
  <2>1. file[e][i] \in Messages
    BY <1>3, ElementOfSeq DEF Courrier
  <2>2. file[e][i].transfere \in Entrees
    BY <1>6, <2>1 DEF Messages
  <2>3. file[e][i].transfere.objet \in Extremites
    BY <2>2 DEF Entrees
  <2> QED BY <1>2, <1>5, <1>6, <2>3
<1>7. ASSUME NEW p \in Procs, NEW s \in Slots, table[p][s].entree # Nul PROVE table[p][s].entree.objet \in V
  <2>1. table[p][s].entree \in Entrees
    BY <1>1, <1>7 DEF IInv, Types, Tables, Cases
  <2>2. table[p][s].entree.objet \in Extremites
    BY <2>1 DEF Entrees
  <2>3. auteur[table[p][s].entree.objet[1]] # Nul
    BY <1>1, <1>7 DEF IInv, DroitsInv, PermisA
  <2> QED BY <2>2, <2>3
<1>8. Couvre(table, file, fil, morts, V)
  BY <1>4, <1>6, <1>7 DEF Couvre
<1>9. Etrangers(file, fil)
  BY <1>4, <1>5 DEF Etrangers, Etranger
<1>10. /\ vivants \subseteq V /\ Couvre(table, file, fil, morts, vivants)
       /\ vivants \subseteq Racines(table, fil, morts) \cup PorteesPar(file, vivants)
  <2> HIDE DEF V
  <2> QED BY <1>2, <1>3, <1>8, RestentFaits
<1>11. ASSUME NEW x \in Extremites, auteur[x[1]] = Nul PROVE file[x] = <<>>
  <2>1. file[x] \in Seq(Courrier(auteur))
    BY <1>3
  <2>2. 1 \notin 1..Len(file[x])
    BY <1>2, <1>5, <1>11
  <2> QED BY <2>1, <2>2
<1> QED BY <1>9, <1>10, <1>11 DEF VieInv

(* Every step keeps it. *)
LEMMA SuiteVie ==
    ASSUME IInv, VieInv, [Next]_vars
    PROVE  VieInv'
<1>1. IInv'
  BY SuiteInv
<1>2. ASSUME NEW f \in Fils,
             \/ Ferme(f) \/ Duplique(f) \/ Cree(f) \/ Send(f)
             \/ RecvDebut(f) \/ RecvPrend(f) \/ RecvRefuse(f) \/ RecvInstalle(f)
             \/ RecvRend(f) \/ RecvAnnule(f) \/ RequeueFront(f)
      PROVE  VieInv'
  BY <1>1, <1>2, FermeVie, DupliqueVie, CreeVie, SendVie, RecvDebutVie, RecvPrendVie, RecvRefuseVie,
     RecvInstalleVie, RecvRendVie, RecvAnnuleVie, RequeueFrontVie
<1>3. ASSUME NEW p \in Procs, Meurt(p) PROVE VieInv'
  BY <1>1, <1>3, MeurtVie
<1>4. ASSUME UNCHANGED vars PROVE VieInv'
  <2>1. UNCHANGED <<table, file, auteur, fil, morts, vivants>>
    BY <1>4 DEF vars, noyau
  <2> QED BY <2>1 DEF VieInv, Couvre, Etrangers, Etranger, Tenue, Racines, PorteesPar, EnFile
<1> QED BY <1>2, <1>3, <1>4 DEF Next

----------------------------------------------------------------------------
(* Where the rights come from *)

(* An insertion adds the entry it is given and no other. *)
LEMMA PoseEntrees ==
    ASSUME NEW t \in Tables, NEW e \in Entrees
    PROVE  Insere(t, e) \in Tables /\ \A s \in Slots : Insere(t, e)[s].entree \in {t[s].entree, e}
<1> DEFINE c == [gen |-> NextGeneration(t[Premier(t)].gen), entree |-> e]
<1>1. Insere(t, e) = [t EXCEPT ![Premier(t)] = c]
  BY DEF Insere
<1>2. Premier(t) \in Slots => c \in Cases /\ c.entree = e
  <2>1. Premier(t) \in Slots => t[Premier(t)].gen \in 0..GenMax /\ GenMax \in Nat \ {0}
    BY HandlesAssumption DEF Tables, Cases
  <2>2. Premier(t) \in Slots => NextGeneration(t[Premier(t)].gen) \in 0..GenMax
    BY <2>1 DEF NextGeneration
  <2> QED BY <2>2 DEF Cases
<1> HIDE DEF c
<1>3. CASE Premier(t) \in Slots
  BY <1>1, <1>2, <1>3 DEF Tables
<1>4. CASE Premier(t) \notin Slots
  <2>1. [t EXCEPT ![Premier(t)] = c] = t
    BY <1>4 DEF Tables
  <2> QED BY <1>1, <2>1
<1> QED BY <1>3, <1>4

(* What changes in the tables when only the one of p does, and gains at most    *)
(* entries that p may have.                                                     *)
TablesLegitimes ==
    \A p \in Procs, s \in Slots :
        table'[p][s].entree \notin {Nul, table[p][s].entree} => EntreeLegitime(p, table'[p][s].entree)

LEMMA TableLegitime ==
    ASSUME IInv, NEW p \in Procs, NEW u, table' = [table EXCEPT ![p] = u],
           \A s \in Slots : u[s].entree \in {Nul, table[p][s].entree} \/ EntreeLegitime(p, u[s].entree)
    PROVE  TablesLegitimes
<1>1. table'[p] = u /\ \A k \in Procs : k # p => table'[k] = table[k]
  BY TableAutre
<1> QED BY <1>1 DEF TablesLegitimes

(* handle_close, and the roll-back of a receive. *)
LEMMA RetraitLegitime ==
    ASSUME IInv, NEW p \in Procs, NEW id \in Identifiants, table' = [table EXCEPT ![p] = Retire(@, id)]
    PROVE  TablesLegitimes
<1> DEFINE u == Retire(table[p], id)
<1>1. \A s \in Slots : u[s].entree \in {Nul, table[p][s].entree}
  BY DuProcessus, RetireFaits
<1>2. table' = [table EXCEPT ![p] = u]
  OBVIOUS
<1> HIDE DEF u
<1> QED BY <1>1, <1>2, TableLegitime

(* handle_dup. *)
LEMMA DupliqueLegitime ==
    ASSUME IInv, NEW f \in Fils, Duplique(f)
    PROVE  TablesLegitimes
<1> DEFINE p == ProcDe[f]
<1>1. p \in Procs /\ table[p] \in Tables
  BY HandlesAssumption, DuProcessus
<1>2. PICK id \in Ids(p), d \in {Droits, {"READ", "DUP"}} :
          /\ Lookup(p, id) # Nul /\ VerifieDuplication(Lookup(p, id).droits, d)
          /\ table' = [table EXCEPT ![p] = Insere(@, [objet |-> Lookup(p, id).objet, droits |-> d])]
  BY DEF Duplique
<1> DEFINE e == [objet |-> Lookup(p, id).objet, droits |-> d]
           u == Insere(table[p], e)
           y == Lookup(p, id)
<1>3. y = table[p][id[1]].entree /\ id[1] \in Slots /\ y.objet \in Extremites
  BY <1>1, <1>2, LookupFaits DEF IInv, Identifiants
<1>4. e \in Entrees /\ e.objet = y.objet /\ e.droits = d
  BY <1>3 DEF Entrees, Droits
<1>5. Herite(e, y, "DUP")
  BY <1>2, <1>4 DEF Herite, VerifieDuplication
<1>6. EntreeLegitime(p, e)
  BY <1>3, <1>5 DEF EntreeLegitime
<1>7. table' = [table EXCEPT ![p] = u]
  BY <1>2
<1> HIDE DEF e, y
<1>8. \A s \in Slots : u[s].entree \in {table[p][s].entree, e}
  BY <1>1, <1>4, PoseEntrees
<1> HIDE DEF u, p
<1>9. \A s \in Slots : u[s].entree \in {Nul, table[p][s].entree} \/ EntreeLegitime(p, u[s].entree)
  BY <1>6, <1>8 DEF EntreeLegitime
<1> QED BY <1>1, <1>7, <1>9, TableLegitime

(* channel_create: two entries on a channel that did not exist, or none. *)
LEMMA CreeLegitime ==
    ASSUME IInv, NEW f \in Fils, Cree(f)
    PROVE  TablesLegitimes
<1> DEFINE p == ProcDe[f]
           t == table[p]
           a(c) == [objet |-> <<c, 0>>, droits |-> Droits]
           b(c) == [objet |-> <<c, 1>>, droits |-> Droits]
           un(c) == Insere(t, a(c))
           deux(c) == Insere(un(c), b(c))
<1>1. appels < MaxAppels /\ Libres(t) # {}
  BY DEF Cree, Appelle
<1>2. PICK c \in {d \in Canaux : auteur[d] = Nul} :
          \/ /\ table' = [table EXCEPT ![p] = deux(c)]
             /\ auteur' = [auteur EXCEPT ![c] = p]
          \/ table' = [table EXCEPT ![p] =
                   IF Cardinality(Libres(@)) > 1
                   THEN Retire(Retire(deux(c), IdPose(@)), IdPose(un(c)))
                   ELSE Retire(un(c), IdPose(@))]
  BY DEF Cree
<1>3. p \in Procs /\ c \in Canaux /\ auteur[c] = Nul
  BY HandlesAssumption
<1>4. a(c) \in Entrees /\ b(c) \in Entrees /\ a(c).objet[1] = c /\ b(c).objet[1] = c
  BY <1>3 DEF Entrees, Extremites
<1>5. t \in Tables /\ \A s \in Slots : t[s].gen < GenMax
  <2>1. \A s \in Slots : t[s].gen \in Nat /\ t[s].gen + Cardinality(Vol(fil, p)) <= appels + 1
    BY <1>3, DesGenerations
  <2>2. Cardinality(Vol(fil, p)) \in Nat /\ appels \in Nat
    BY <1>3, DesGenerations, DesFils
  <2> QED BY <1>1, <1>3, <2>1, <2>2, DuProcessus, HandlesAssumption
<1> DEFINE u == un(c)
           v == deux(c)
           w == IF Cardinality(Libres(t)) > 1 THEN Retire(Retire(v, IdPose(t)), IdPose(u)) ELSE Retire(u, IdPose(t))
<1>6. ASSUME table' = [table EXCEPT ![p] = w] PROVE TablesLegitimes
  <2>1. \A s \in Slots : w[s] = t[s] \/ w[s].entree = Nul
    BY <1>1, <1>4, <1>5, CreationAnnulee
  <2> HIDE DEF w
  <2>2. \A s \in Slots : w[s].entree \in {Nul, table[p][s].entree} \/ EntreeLegitime(p, w[s].entree)
    BY <2>1
  <2> HIDE DEF p
  <2> QED BY <1>3, <1>6, <2>2, TableLegitime
<1>7. ASSUME table' = [table EXCEPT ![p] = v], auteur' = [auteur EXCEPT ![c] = p] PROVE TablesLegitimes
  <2>1. auteur'[c] = p
    BY <1>3, <1>7, DesFils
  <2>2. EntreeLegitime(p, a(c)) /\ EntreeLegitime(p, b(c))
    BY <1>3, <1>4, <2>1 DEF EntreeLegitime
  <2> HIDE DEF a, b
  <2>3. u \in Tables /\ \A s \in Slots : u[s].entree \in {t[s].entree, a(c)}
    BY <1>4, <1>5, PoseEntrees
  <2> HIDE DEF u
  <2>4. \A s \in Slots : v[s].entree \in {u[s].entree, b(c)}
    BY <1>4, <2>3, PoseEntrees DEF u
  <2> HIDE DEF v
  <2>5. \A s \in Slots : v[s].entree \in {Nul, table[p][s].entree} \/ EntreeLegitime(p, v[s].entree)
    BY <2>2, <2>3, <2>4 DEF EntreeLegitime
  <2> HIDE DEF p
  <2> QED BY <1>3, <1>7, <2>5, TableLegitime
<1> QED BY <1>2, <1>6, <1>7

(* A receive installs what its own message carries. *)
LEMMA RecvInstalleLegitime ==
    ASSUME IInv, NEW f \in Fils, RecvInstalle(f)
    PROVE  TablesLegitimes
<1> DEFINE p == ProcDe[f]
           m == fil[f].message
           u == Insere(table[p], m.transfere)
<1>1. p \in Procs /\ table[p] \in Tables /\ m \in Courrier(auteur)
  BY FilFaits, DuProcessus DEF IInv, RecvInstalle
<1>2. m # Nul
  BY <1>1, DepartAssumption DEF Courrier
<1>3. CASE UNCHANGED table
  BY <1>3 DEF TablesLegitimes
<1>4. CASE m.transfere # Nul /\ table' = [table EXCEPT ![p] = u]
  <2>1. m.transfere \in Entrees
    BY <1>1, <1>4 DEF Courrier, Messages
  <2>2. \A s \in Slots : u[s].entree \in {table[p][s].entree, m.transfere}
    BY <1>1, <2>1, PoseEntrees
  <2>3. EntreeLegitime(p, m.transfere)
    BY <1>2 DEF EntreeLegitime
  <2> HIDE DEF u, p, m
  <2>4. \A s \in Slots : u[s].entree \in {Nul, table[p][s].entree} \/ EntreeLegitime(p, u[s].entree)
    BY <2>2, <2>3 DEF EntreeLegitime
  <2> QED BY <1>1, <1>4, <2>4, TableLegitime
<1> QED BY <1>3, <1>4 DEF RecvInstalle

(* The tables of a step. *)
LEMMA SuiteTables ==
    ASSUME IInv, [Next]_vars
    PROVE  TablesLegitimes
<1>1. ASSUME NEW f \in Fils, Ferme(f) PROVE TablesLegitimes
  <2>1. ProcDe[f] \in Procs /\ \A id \in Ids(ProcDe[f]) : id \in Identifiants
    BY HandlesAssumption, DuProcessus
  <2> QED BY <1>1, <2>1, RetraitLegitime DEF Ferme
<1>2. ASSUME NEW f \in Fils, RecvAnnule(f) PROVE TablesLegitimes
  <2>1. ProcDe[f] \in Procs /\ (fil[f].id # Nul => fil[f].id \in Identifiants)
    BY FilFaits DEF IInv
  <2>2. CASE fil[f].id = Nul
    <3>1. table' = table
      BY <1>2, <2>1, <2>2, DesFils DEF RecvAnnule
    <3> QED BY <3>1 DEF TablesLegitimes
  <2>3. CASE fil[f].id # Nul
    BY <1>2, <2>1, <2>3, RetraitLegitime DEF RecvAnnule
  <2> QED BY <2>2, <2>3
<1>3. ASSUME NEW p \in Procs, Meurt(p) PROVE TablesLegitimes
  <2> DEFINE u == [s \in Slots |-> [table[p][s] EXCEPT !.entree = Nul]]
  <2>1. table' = [table EXCEPT ![p] = u]
    BY <1>3 DEF Meurt
  <2>2. \A s \in Slots : u[s].entree = Nul
    BY DuProcessus DEF Tables, Cases
  <2> HIDE DEF u
  <2> QED BY <2>1, <2>2, TableLegitime
<1>4. ASSUME UNCHANGED table PROVE TablesLegitimes
  BY <1>4 DEF TablesLegitimes
<1>5. ASSUME NEW f \in Fils, \/ Send(f) \/ RecvDebut(f) \/ RecvPrend(f) \/ RecvRefuse(f) \/ RecvRend(f) \/ RequeueFront(f)
      PROVE  UNCHANGED table
  <2>1. CASE Send(f)
    BY <2>1 DEF Send
  <2>2. CASE RecvDebut(f)
    BY <2>2 DEF RecvDebut
  <2>3. CASE RecvPrend(f)
    BY <2>3 DEF RecvPrend
  <2>4. CASE RecvRefuse(f)
    BY <2>4 DEF RecvRefuse
  <2>5. CASE RecvRend(f)
    BY <2>5 DEF RecvRend
  <2>6. CASE RequeueFront(f)
    BY <2>6 DEF RequeueFront
  <2> QED BY <1>5, <2>1, <2>2, <2>3, <2>4, <2>5, <2>6
<1>6. ASSUME UNCHANGED vars PROVE UNCHANGED table
  BY <1>6 DEF vars, noyau
<1> QED BY <1>1, <1>2, <1>3, <1>4, <1>5, <1>6, DupliqueLegitime, CreeLegitime, RecvInstalleLegitime DEF Next

(* The queues: what is new in one. *)
FilesLegitimes ==
    \A e \in Extremites : \A m \in ToSet(file'[e]) \ ToSet(file[e]) :
        \/ m.transfere = Nul \/ EnvoiLegitime(e, m.transfere)
        \/ \E f \in Fils : fil[f].sur = e /\ fil[f].message = m

(* channel_send: its process may write there, and gives no more than it has. *)
LEMMA SendLegitime ==
    ASSUME IInv, NEW f \in Fils, Send(f)
    PROVE  FilesLegitimes
<1> DEFINE p == ProcDe[f]
<1>1. p \in Procs \ morts
  BY HandlesAssumption DEF Send, Appelle
<1>2. PICK id \in Ids(p) :
          /\ Detient(p, id, "WRITE")
          /\ \E x \in Envois(p, Lookup(p, id).objet) :
                file' = [file EXCEPT ![Pair(Lookup(p, id).objet)] = Append(@, [numero |-> appels', transfere |-> x])]
  BY DEF Send
<1> DEFINE e == Lookup(p, id).objet
           d == Pair(e)
<1>3. PICK x \in Envois(p, e) : file' = [file EXCEPT ![d] = Append(@, [numero |-> appels', transfere |-> x])]
  BY <1>2
<1>4. /\ e \in Extremites /\ Lookup(p, id) # Nul /\ "WRITE" \in Lookup(p, id).droits
      /\ id[1] \in Slots /\ Lookup(p, id) = table[p][id[1]].entree
  BY <1>1, <1>2, LookupFaits DEF IInv, Detient, Identifiants
<1>5. d \in Extremites /\ Pair(d) = e
  BY <1>4, PairExtremite, PairDePair
<1>6. x # Nul => EnvoiLegitime(d, x)
  <2> SUFFICES ASSUME x # Nul PROVE EnvoiLegitime(d, x)
    OBVIOUS
  <2>1. PICK y \in Ids(p) \X Masques[p] :
            /\ Detient(p, y[1], "TRANSFER")
            /\ x = [objet |-> Lookup(p, y[1]).objet, droits |-> VerifieTransfert(Lookup(p, y[1]).droits, y[2])]
    BY DEF Envois
  <2>2. /\ Lookup(p, y[1]) # Nul /\ "TRANSFER" \in Lookup(p, y[1]).droits
        /\ y[1][1] \in Slots /\ Lookup(p, y[1]) = table[p][y[1][1]].entree
    BY <1>1, <2>1, LookupFaits DEF IInv, Detient, Identifiants
  <2> DEFINE z == Lookup(p, y[1])
  <2> HIDE DEF z
  <2>3. x.objet = z.objet /\ x.droits = z.droits \cap y[2]
    BY <2>1 DEF z, VerifieTransfert
  <2>4. Herite(x, z, "TRANSFER") /\ x.droits \subseteq y[2] /\ y[2] \in Masques[p]
    <3>1. z # Nul /\ "TRANSFER" \in z.droits /\ y[2] \in Masques[p]
      BY <2>1, <2>2 DEF z
    <3> QED BY <2>3, <3>1 DEF Herite
  <2>5. Herite(x, table[p][y[1][1]].entree, "TRANSFER")
    BY <2>2, <2>4 DEF z
  <2>6. /\ table[p][id[1]].entree # Nul /\ table[p][id[1]].entree.objet = Pair(d)
        /\ "WRITE" \in table[p][id[1]].entree.droits
    BY <1>4, <1>5
  <2> HIDE DEF d, p, e
  <2> QED BY <1>1, <1>4, <2>2, <2>4, <2>5, <2>6 DEF EnvoiLegitime
<1>7. file'[d] = Append(file[d], [numero |-> appels', transfere |-> x]) /\ \A k \in Extremites : k # d => file'[k] = file[k]
  BY <1>3, <1>5, FileAutre
<1> HIDE DEF d, p, e
<1>8. file[d] \in Seq(Courrier(auteur))
  BY <1>5 DEF IInv, Types
<1>9. \A m \in ToSet(file'[d]) : m \in ToSet(file[d]) \/ m = [numero |-> appels', transfere |-> x]
  BY <1>7, <1>8 DEF ToSet
<1> DEFINE n == [numero |-> appels', transfere |-> x]
<1>10. n.transfere = x
  OBVIOUS
<1> HIDE DEF n
<1>11. \A m \in ToSet(file'[d]) \ ToSet(file[d]) : m.transfere = x
  BY <1>9, <1>10 DEF n
<1>12. ASSUME NEW k \in Extremites, NEW m \in ToSet(file'[k]) \ ToSet(file[k])
       PROVE  m.transfere = Nul \/ EnvoiLegitime(k, m.transfere)
  <2>1. k = d
    BY <1>7, <1>12
  <2>2. m.transfere = x
    BY <1>11, <1>12, <2>1
  <2> QED BY <1>6, <2>1, <2>2
<1> QED BY <1>12 DEF FilesLegitimes

(* The queues of a step. *)
LEMMA SuiteFiles ==
    ASSUME IInv, [Next]_vars
    PROVE  FilesLegitimes
<1>1. ASSUME UNCHANGED file PROVE FilesLegitimes
  BY <1>1 DEF FilesLegitimes
<1>2. ASSUME NEW f \in Fils, RecvPrend(f) PROVE FilesLegitimes
  <2> DEFINE e == fil[f].sur
  <2>1. e \in Extremites /\ file[e] \in Seq(Courrier(auteur))
    BY <1>2, FilFaits DEF RecvPrend, IInv, Types
  <2>2. CASE UNCHANGED file
    BY <1>1, <2>2
  <2>3. CASE file[e] # <<>> /\ file' = [file EXCEPT ![e] = Tail(@)]
    <3>1. file'[e] = Tail(file[e]) /\ \A k \in Extremites : k # e => file'[k] = file[k]
      BY <2>1, <2>3, FileAutre
    <3>2. ToSet(Tail(file[e])) \subseteq ToSet(file[e])
      BY <2>1, <2>3 DEF ToSet
    <3> QED BY <3>1, <3>2 DEF FilesLegitimes
  <2> QED BY <1>2, <2>2, <2>3 DEF RecvPrend
<1>3. ASSUME NEW f \in Fils, RequeueFront(f) PROVE FilesLegitimes
  <2> DEFINE e == fil[f].sur
             m == fil[f].message
  <2>1. e \in Extremites /\ file[e] \in Seq(Courrier(auteur)) /\ m \in Courrier(auteur)
    BY <1>3, FilFaits DEF RequeueFront, IInv, Types
  <2>2. file'[e] = <<m>> \o file[e] /\ \A k \in Extremites : k # e => file'[k] = file[k]
    BY <1>3, <2>1, FileAutre DEF RequeueFront, Devant
  <2>3. \A n \in ToSet(file'[e]) : n = m \/ n \in ToSet(file[e])
    BY <2>1, <2>2 DEF ToSet
  <2> QED BY <2>2, <2>3 DEF FilesLegitimes
<1>4. ASSUME NEW f \in Fils,
             \/ Ferme(f) \/ Duplique(f) \/ Cree(f) \/ RecvDebut(f) \/ RecvRefuse(f)
             \/ RecvInstalle(f) \/ RecvRend(f) \/ RecvAnnule(f)
      PROVE  UNCHANGED file
  <2>1. CASE Ferme(f)
    BY <2>1 DEF Ferme
  <2>2. CASE Duplique(f)
    BY <2>2 DEF Duplique
  <2>3. CASE Cree(f)
    BY <2>3 DEF Cree
  <2>4. CASE RecvDebut(f)
    BY <2>4 DEF RecvDebut
  <2>5. CASE RecvRefuse(f)
    BY <2>5 DEF RecvRefuse
  <2>6. CASE RecvInstalle(f)
    BY <2>6 DEF RecvInstalle
  <2>7. CASE RecvRend(f)
    BY <2>7 DEF RecvRend
  <2>8. CASE RecvAnnule(f)
    BY <2>8 DEF RecvAnnule
  <2> QED BY <1>4, <2>1, <2>2, <2>3, <2>4, <2>5, <2>6, <2>7, <2>8
<1>5. ASSUME NEW p \in Procs, Meurt(p) PROVE UNCHANGED file
  BY <1>5 DEF Meurt
<1>6. ASSUME UNCHANGED vars PROVE UNCHANGED file
  BY <1>6 DEF vars, noyau
<1> QED BY <1>1, <1>2, <1>3, <1>4, <1>5, <1>6, SendLegitime DEF Next

(* The receives: what is new in the hands of one. *)
FilsLegitimes ==
    \A f \in Fils : fil'[f].message \notin {Nul, fil[f].message} => fil'[f].message \in ToSet(file[fil[f].sur])

LEMMA FilLegitime ==
    ASSUME IInv, NEW f \in Fils, NEW r, Pas(f, r),
           r.message \in {Nul, fil[f].message} \/ r.message \in ToSet(file[fil[f].sur])
    PROVE  FilsLegitimes
<1>1. fil'[f] = r /\ \A g \in Fils : g # f => fil'[g] = fil[g]
  BY DesFils DEF Pas
<1> QED BY <1>1 DEF FilsLegitimes

(* A receive begins with nothing in hand. *)
LEMMA DebutVide ==
    ASSUME NEW f \in Fils, RecvDebut(f)
    PROVE  \E r : Pas(f, r) /\ r.message = Nul
<1> DEFINE p == ProcDe[f]
<1>1. PICK id \in Ids(p) : \E place \in {0, 1} :
          /\ Detient(p, id, "READ")
          /\ Pas(f, [Repos EXCEPT !.pas = "prend", !.sur = Lookup(p, id).objet, !.place = place])
  BY DEF RecvDebut
<1>2. PICK place \in {0, 1} :
          /\ Detient(p, id, "READ")
          /\ Pas(f, [Repos EXCEPT !.pas = "prend", !.sur = Lookup(p, id).objet, !.place = place])
  BY <1>1
<1> DEFINE r == [Repos EXCEPT !.pas = "prend", !.sur = Lookup(p, id).objet, !.place = place]
<1>3. r.message = Nul /\ Pas(f, r)
  BY <1>2 DEF Repos
<1> HIDE DEF r
<1> QED BY <1>3

(* The receives of a step. *)
LEMMA SuiteFils ==
    ASSUME IInv, [Next]_vars
    PROVE  FilsLegitimes
<1>0. Repos.message = Nul
  BY DEF Repos
<1>1. ASSUME UNCHANGED fil PROVE FilsLegitimes
  BY <1>1 DEF FilsLegitimes
<1>2. ASSUME NEW f \in Fils, RecvPrend(f) PROVE FilsLegitimes
  <2> DEFINE e == fil[f].sur
             m == Head(file[e])
             k == IF TropGrand(m, fil[f].place) THEN "remet" ELSE "verifie"
             r == [fil[f] EXCEPT !.message = m, !.pas = k]
  <2>1. e \in Extremites /\ file[e] \in Seq(Courrier(auteur)) /\ fil[f] \in Recepteurs(auteur)
    BY <1>2, FilFaits DEF RecvPrend, IInv, Types
  <2>2. CASE Pas(f, Repos)
    BY <1>0, <2>2, FilLegitime
  <2>3. CASE file[e] # <<>> /\ Pas(f, r)
    <3>1. m \in ToSet(file[e])
      BY <2>1, <2>3 DEF ToSet
    <3>2. r.message = m
      BY <2>1 DEF Recepteurs
    <3> HIDE DEF r, m
    <3> QED BY <2>3, <3>1, <3>2, FilLegitime
  <2> QED BY <1>2, <2>2, <2>3 DEF RecvPrend
<1>3. ASSUME NEW f \in Fils, RecvDebut(f) PROVE FilsLegitimes
  <2>1. PICK r : Pas(f, r) /\ r.message = Nul
    BY <1>3, DebutVide
  <2> QED BY <2>1, FilLegitime
<1>4. ASSUME NEW f \in Fils, RecvRend(f) \/ RequeueFront(f) PROVE FilsLegitimes
  BY <1>0, <1>4, FilLegitime DEF RecvRend, RequeueFront
<1>5. ASSUME NEW f \in Fils, NEW k, Pas(f, [fil[f] EXCEPT !.pas = k])
      PROVE  FilsLegitimes
  <2> DEFINE r == [fil[f] EXCEPT !.pas = k]
  <2>1. r.message = fil[f].message /\ Pas(f, r)
    BY <1>5, FilFaits DEF IInv, Recepteurs
  <2> HIDE DEF r
  <2> QED BY <2>1, FilLegitime
<1>6. ASSUME NEW f \in Fils, RecvRefuse(f) \/ RecvInstalle(f) \/ RecvAnnule(f) PROVE FilsLegitimes
  <2>1. CASE RecvRefuse(f)
    <3>1. Pas(f, [fil[f] EXCEPT !.pas = "remet"])
      BY <2>1 DEF RecvRefuse
    <3> QED BY <1>5, <3>1
  <2>2. CASE RecvInstalle(f)
    <3>1. CASE Pas(f, [fil[f] EXCEPT !.pas = "copie"])
      BY <1>5, <3>1
    <3>2. CASE Pas(f, [fil[f] EXCEPT !.pas = "remet"])
      BY <1>5, <3>2
    <3>3. CASE Pas(f, [fil[f] EXCEPT !.pas = "copie", !.id = IdPose(table[ProcDe[f]])])
      <4> DEFINE r == [fil[f] EXCEPT !.pas = "copie", !.id = IdPose(table[ProcDe[f]])]
      <4>1. r.message = fil[f].message /\ Pas(f, r)
        BY <3>3, FilFaits DEF IInv, Recepteurs
      <4> HIDE DEF r
      <4> QED BY <4>1, FilLegitime
    <3> QED BY <2>2, <3>1, <3>2, <3>3 DEF RecvInstalle, Echec
  <2>3. CASE RecvAnnule(f)
    <3> DEFINE r == [fil[f] EXCEPT !.pas = "remet", !.id = Nul]
    <3>1. Pas(f, r)
      BY <2>3 DEF RecvAnnule
    <3>2. r.message = fil[f].message
      BY FilFaits DEF IInv, Recepteurs
    <3> HIDE DEF r
    <3> QED BY <3>1, <3>2, FilLegitime
  <2> QED BY <1>6, <2>1, <2>2, <2>3
<1>7. ASSUME NEW f \in Fils, Ferme(f) \/ Duplique(f) \/ Cree(f) \/ Send(f) PROVE UNCHANGED fil
  BY <1>7 DEF Ferme, Duplique, Cree, Send
<1>8. ASSUME NEW p \in Procs, Meurt(p) PROVE UNCHANGED fil
  BY <1>8 DEF Meurt
<1>9. ASSUME UNCHANGED vars PROVE UNCHANGED fil
  BY <1>9 DEF vars, noyau
<1> QED BY <1>1, <1>2, <1>3, <1>4, <1>6, <1>7, <1>8, <1>9 DEF Next

(* A right on a channel only travels (table.rs, politique_corps.rs, dispatch.rs): a *)
(* process gets an entry by creating its channel, by duplicating one of its own, or *)
(* from the message one of its threads took from a queue; and what enters a queue   *)
(* comes from a process that may write there, cut by its mask, or was taken from    *)
(* there.  No duplication, receive, roll-back or requeue gives back a right that a  *)
(* link of the chain removed.                                                       *)
THEOREM DroitsToujoursHerites == Spec => DroitsHerites
<1>1. Init => IInv
  BY InitInv
<1>2. IInv /\ [Next]_vars => IInv'
  BY SuiteInv
<1>3. IInv /\ [Next]_vars => TablesLegitimes /\ FilesLegitimes /\ FilsLegitimes
  BY SuiteTables, SuiteFiles, SuiteFils
<1> QED BY <1>1, <1>2, <1>3, PTL DEF Spec, DroitsHerites, TablesLegitimes, FilesLegitimes, FilsLegitimes

----------------------------------------------------------------------------
(* The bound of the queues *)

(* the receives that hold a message of e have a place left for it *)
Comble(q, T) == Len(q) + Cardinality(T) <= MaxFile + Cardinality(Fils)
FileInv == \A e \in Extremites : Comble(file[e], Tiennent(e, fil))

(* The holders are threads. *)
LEMMA TiennentFaits ==
    ASSUME NEW e, NEW th
    PROVE  /\ IsFiniteSet(Tiennent(e, th)) /\ Cardinality(Tiennent(e, th)) \in Nat
           /\ Cardinality(Fils) \in Nat /\ Cardinality(Tiennent(e, th)) <= Cardinality(Fils)
<1>1. Tiennent(e, th) \subseteq Fils /\ IsFiniteSet(Fils)
  BY DepartAssumption DEF Tiennent
<1> QED BY <1>1, FS_Subset, FS_CardinalityType

(* Fewer holders fill a queue less. *)
LEMMA ComblePerd ==
    ASSUME IInv, FileInv, file' = file, \A g \in Fils : fil'[g].message # Nul => fil'[g].sur = fil[g].sur /\ fil[g].message # Nul
    PROVE  FileInv'
<1> SUFFICES ASSUME NEW e \in Extremites PROVE Comble(file'[e], Tiennent(e, fil'))
  BY DEF FileInv
<1>1. Tiennent(e, fil') \subseteq Tiennent(e, fil)
  BY DEF Tiennent
<1>2. Cardinality(Tiennent(e, fil')) <= Cardinality(Tiennent(e, fil)) /\ Cardinality(Tiennent(e, fil')) \in Nat
  BY <1>1, TiennentFaits, FS_Subset
<1>3. file[e] \in Seq(Courrier(auteur)) /\ Comble(file[e], Tiennent(e, fil)) /\ Cardinality(Tiennent(e, fil)) \in Nat /\ Cardinality(Fils) \in Nat
  BY TiennentFaits DEF IInv, Types, FileInv
<1>4. Len(file[e]) \in Nat
  BY <1>3
<1> QED BY <1>2, <1>3, <1>4, HandlesAssumption DEF Comble

(* One queue and its holders change. *)
LEMMA CombleUn ==
    ASSUME IInv, FileInv, NEW o \in Extremites, NEW q, file' = [file EXCEPT ![o] = q], Comble(q, Tiennent(o, fil')),
           \A e \in Extremites : e # o => Tiennent(e, fil') = Tiennent(e, fil)
    PROVE  FileInv'
<1>1. file'[o] = q /\ \A e \in Extremites : e # o => file'[e] = file[e]
  BY FileAutre
<1> QED BY <1>1 DEF FileInv

(* Every step keeps the bound. *)
LEMMA SuiteFile ==
    ASSUME IInv, MessInv, FileInv, [Next]_vars
    PROVE  FileInv'
<1>1. fil \in [Fils -> Recepteurs(auteur)] /\ file \in [Extremites -> Seq(Courrier(auteur))] /\ MaxFile \in Nat
  BY HandlesAssumption DEF IInv, Types
<1>2. \A f \in Fils : \A r : Pas(f, r) => fil'[f] = r /\ \A g \in Fils : g # f => fil'[g] = fil[g]
  BY <1>1 DEF Pas
<1>3. Repos.sur = Nul /\ Repos.message = Nul
  BY DEF Repos
<1>4. ASSUME NEW f \in Fils, file' = file, NEW r, Pas(f, r), r.message # Nul => r.sur = fil[f].sur /\ fil[f].message # Nul
      PROVE  FileInv'
  <2>1. \A g \in Fils : fil'[g].message # Nul => fil'[g].sur = fil[g].sur /\ fil[g].message # Nul
    BY <1>2, <1>4
  <2> QED BY <1>4, <2>1, ComblePerd
<1>5. ASSUME NEW f \in Fils, Ferme(f) \/ Duplique(f) \/ Cree(f) PROVE FileInv'
  <2>1. UNCHANGED <<file, fil>>
    BY <1>5 DEF Ferme, Duplique, Cree
  <2> QED BY <2>1, ComblePerd
<1>6. ASSUME NEW f \in Fils, Send(f) PROVE FileInv'
  <2> DEFINE o(id) == Pair(Lookup(ProcDe[f], id).objet)
             m(x) == [numero |-> appels', transfere |-> x]
  <2>1. PICK id \in Ids(ProcDe[f]) :
            /\ Detient(ProcDe[f], id, "WRITE") /\ Len(file[o(id)]) < MaxFile
            /\ \E x \in Envois(ProcDe[f], Lookup(ProcDe[f], id).objet) : file' = [file EXCEPT ![o(id)] = Append(@, m(x))]
    BY <1>6 DEF Send
  <2>2. PICK x : file' = [file EXCEPT ![o(id)] = Append(@, m(x))]
    BY <2>1
  <2>3. fil' = fil /\ o(id) \in Extremites
    <3>1. ProcDe[f] \in Procs
      BY HandlesAssumption
    <3>2. Lookup(ProcDe[f], id).objet \in Extremites
      BY <2>1, <3>1, LookupFaits DEF IInv, Detient
    <3> QED BY <1>6, <3>2, PairExtremite DEF Send
  <2> DEFINE d == o(id)
             q == Append(file[d], m(x))
  <2>4. file[d] \in Seq(Courrier(auteur)) /\ Len(file[d]) < MaxFile
    BY <1>1, <2>1, <2>3
  <2>5. file' = [file EXCEPT ![d] = q]
    BY <2>2
  <2> HIDE DEF d, m, o
  <2>6. Len(q) = Len(file[d]) + 1 /\ Len(file[d]) \in Nat
    BY <2>4
  <2> HIDE DEF q
  <2>7. Comble(q, Tiennent(d, fil'))
    BY <1>1, <2>4, <2>6, TiennentFaits DEF Comble
  <2> QED BY <2>3, <2>5, <2>7, CombleUn DEF d
<1>7. ASSUME NEW f \in Fils, RecvDebut(f) PROVE FileInv'
  <2>1. \E r : Pas(f, r) /\ r.message = Nul
    <3>1. PICK id, place : Pas(f, [Repos EXCEPT !.pas = "prend", !.sur = Lookup(ProcDe[f], id).objet, !.place = place])
      BY <1>7 DEF RecvDebut
    <3>2. [Repos EXCEPT !.pas = "prend", !.sur = Lookup(ProcDe[f], id).objet, !.place = place].message = Nul
      BY DEF Repos
    <3> QED BY <3>1, <3>2
  <2>2. file' = file
    BY <1>7 DEF RecvDebut
  <2> QED BY <1>4, <2>1, <2>2
<1>8. ASSUME NEW f \in Fils, RecvPrend(f) PROVE FileInv'
  <2> DEFINE o == fil[f].sur
             T == Tiennent(o, fil)
  <2>1. o \in Extremites /\ o # Nul /\ fil[f].message = Nul /\ f \notin T /\ fil[f] \in Recepteurs(auteur)
    BY <1>8, FilFaits, DepartAssumption DEF RecvPrend, IInv, MessInv, Tiennent
  <2>2. CASE file[o] = <<>>
    <3>1. Pas(f, Repos) /\ file' = file
      BY <1>8, <2>2 DEF RecvPrend
    <3> QED BY <1>3, <1>4, <3>1
  <2>3. CASE file[o] # <<>>
    <3> DEFINE k == IF TropGrand(Head(file[o]), fil[f].place) THEN "remet" ELSE "verifie"
               r == [fil[f] EXCEPT !.message = Head(file[o]), !.pas = k]
               q == Tail(file[o])
    <3>1. file' = [file EXCEPT ![o] = q] /\ Pas(f, r)
      BY <1>8, <2>3 DEF RecvPrend
    <3>2. r.sur = o
      BY <2>1 DEF Recepteurs
    <3>3. Len(q) = Len(file[o]) - 1 /\ Len(file[o]) \in Nat
      BY <1>1, <2>1, <2>3
    <3> HIDE DEF r, q
    <3>4. fil'[f].sur = o /\ \A g \in Fils : g # f => fil'[g] = fil[g]
      BY <1>2, <3>1, <3>2
    <3>5. Tiennent(o, fil') \subseteq T \cup {f}
      BY <3>4 DEF Tiennent
    <3>6. \A e \in Extremites : e # o => Tiennent(e, fil') = Tiennent(e, fil)
      BY <3>4 DEF Tiennent
    <3> HIDE DEF o
    <3>7. IsFiniteSet(T) /\ Cardinality(T) \in Nat /\ Comble(file[o], T)
      BY <2>1, TiennentFaits DEF FileInv
    <3>8. IsFiniteSet(T \cup {f}) /\ Cardinality(T \cup {f}) = Cardinality(T) + 1
      BY <2>1, <3>7, FS_AddElement DEF o
    <3>9. Cardinality(Tiennent(o, fil')) <= Cardinality(T) + 1 /\ Cardinality(Tiennent(o, fil')) \in Nat /\ Cardinality(Fils) \in Nat
      BY <3>5, <3>8, FS_Subset, TiennentFaits
    <3>10. Comble(q, Tiennent(o, fil'))
      BY <1>1, <3>3, <3>7, <3>9 DEF Comble
    <3> QED BY <2>1, <3>1, <3>6, <3>10, CombleUn
  <2> QED BY <2>2, <2>3
<1>9. ASSUME NEW f \in Fils, RecvRefuse(f) \/ RecvInstalle(f) \/ RecvAnnule(f) \/ RecvRend(f) PROVE FileInv'
  <2>1. file' = file /\ fil[f] \in Recepteurs(auteur)
    BY <1>1, <1>9 DEF RecvRefuse, RecvInstalle, RecvAnnule, RecvRend
  <2>2. \E r : Pas(f, r) /\ (r.message = Nul \/ (r.sur = fil[f].sur /\ r.message = fil[f].message))
    <3> DEFINE r1 == [fil[f] EXCEPT !.pas = "copie"]
               r2 == [fil[f] EXCEPT !.pas = "remet"]
               r3 == [fil[f] EXCEPT !.pas = "copie", !.id = IdPose(table[ProcDe[f]])]
               r4 == [fil[f] EXCEPT !.pas = "remet", !.id = Nul]
    <3>1. \E r \in {r1, r2, r3, r4, Repos} : Pas(f, r)
      BY <1>9 DEF RecvRefuse, RecvInstalle, RecvAnnule, RecvRend, Echec
    <3>2. \A r \in {r1, r2, r3, r4} : r.sur = fil[f].sur /\ r.message = fil[f].message
      BY <2>1 DEF Recepteurs
    <3> HIDE DEF r1, r2, r3, r4
    <3> QED BY <1>3, <3>1, <3>2
  <2> QED BY <1>4, <2>1, <2>2
<1>10. ASSUME NEW f \in Fils, RequeueFront(f) PROVE FileInv'
  <2> DEFINE o == fil[f].sur
             T == Tiennent(o, fil)
             q == <<fil[f].message>> \o file[o]
  <2>1. fil[f].pas = "remet" /\ Pas(f, Repos) /\ file' = [file EXCEPT ![o] = q]
    BY <1>10 DEF RequeueFront, Devant
  <2>2. o \in Extremites /\ f \in T /\ Tiennent(o, fil') = T \ {f}
    BY <2>1, FinFaits
  <2>3. fil'[f].message = Nul /\ \A g \in Fils : g # f => fil'[g] = fil[g]
    BY <1>2, <1>3, <2>1
  <2>4. \A e \in Extremites : e # o => Tiennent(e, fil') = Tiennent(e, fil)
    BY <2>3 DEF Tiennent
  <2> HIDE DEF o
  <2>5. IsFiniteSet(T) /\ Cardinality(T) \in Nat /\ Comble(file[o], T) /\ Cardinality(Fils) \in Nat
    BY <2>2, TiennentFaits DEF FileInv
  <2>6. Cardinality(T \ {f}) = Cardinality(T) - 1
    BY <2>2, <2>5, FS_RemoveElement
  <2>7. Len(q) = Len(file[o]) + 1 /\ Len(file[o]) \in Nat
    BY <1>1, <2>2
  <2> HIDE DEF T, q
  <2>8. Comble(q, Tiennent(o, fil'))
    BY <1>1, <2>2, <2>5, <2>6, <2>7 DEF Comble
  <2> QED BY <2>1, <2>2, <2>4, <2>8, CombleUn
<1>11. ASSUME NEW p \in Procs, Meurt(p) PROVE FileInv'
  <2>1. UNCHANGED <<file, fil>>
    BY <1>11 DEF Meurt
  <2> QED BY <2>1, ComblePerd
<1>12. ASSUME UNCHANGED vars PROVE FileInv'
  <2>1. UNCHANGED <<file, fil>>
    BY <1>12 DEF vars, noyau
  <2> QED BY <2>1, ComblePerd
<1> QED BY <1>5, <1>6, <1>7, <1>8, <1>9, <1>10, <1>11, <1>12 DEF Next

(* A queue passes MAX_QUEUED_MESSAGES only by messages that receives gave back,    *)
(* never by more than there are threads (channel.rs, requeue_front); a receive     *)
(* under way keeps its endpoint alive; and the tables, the queues and the records  *)
(* of the calls keep their types.                                                  *)
THEOREM TypesToujours == Spec => []TypeOK
<1> DEFINE J == IInv /\ MessInv /\ VieInv /\ FileInv
<1>1. Init => J
  <2> SUFFICES ASSUME Init PROVE FileInv
    BY InitInv, InitMess, InitVie
  <2> SUFFICES ASSUME NEW e \in Extremites PROVE Comble(file[e], Tiennent(e, fil))
    BY DEF FileInv
  <2>1. file = Attendent /\ fil = [f \in Fils |-> Repos]
    BY DEF Init
  <2>2. Tiennent(e, fil) = {}
    BY <2>1 DEF Tiennent, Repos
  <2>3. Len(file[e]) <= MaxFile /\ Len(file[e]) \in Nat /\ MaxFile \in Nat
    BY <2>1, DepartAssumption, HandlesAssumption, LenProperties
  <2>4. Cardinality(Tiennent(e, fil)) = 0 /\ Cardinality(Fils) \in Nat
    BY <2>2, FS_EmptySet, TiennentFaits
  <2> QED BY <2>3, <2>4 DEF Comble
<1>2. J /\ [Next]_vars => J'
  BY SuiteInv, SuiteMess, SuiteVie, SuiteFile
<1>3. J => TypeOK
  <2> SUFFICES ASSUME J PROVE TypeOK
    OBVIOUS
  <2>1. table \in [Procs -> [Slots -> [gen : 0..GenMax, entree : Entrees \cup {Nul}]]]
    BY DEF IInv, Types, Tables, Cases
  <2>2. ASSUME NEW p \in Procs, NEW s \in Slots, table[p][s].entree # Nul PROVE table[p][s].gen # 0
    <3>1. <<<<s, table[p][s].gen>>, table[p][s].entree.objet>> \in emis[p]
      BY <2>2, DuProcessus DEF Registre
    <3>2. <<s, table[p][s].gen>> \in Identifiants
      BY <3>1, DuProcessus
    <3> QED BY <3>2, HandlesAssumption DEF Identifiants
  <2>3. ASSUME NEW e \in Extremites PROVE ToSet(file[e]) \subseteq Messages /\ Len(file[e]) <= MaxFile + Cardinality(Fils)
    <3>1. file[e] \in Seq(Messages)
      BY DuPoint
    <3>2. ToSet(file[e]) \subseteq Messages
      BY <3>1 DEF ToSet
    <3>3. Len(file[e]) \in Nat /\ Cardinality(Tiennent(e, fil)) \in Nat /\ Cardinality(Fils) \in Nat /\ MaxFile \in Nat
      BY <3>1, TiennentFaits, HandlesAssumption, LenProperties
    <3> QED BY <3>2, <3>3 DEF FileInv, Comble
  <2>4. ASSUME NEW f \in Fils
        PROVE  /\ fil[f].sur \in Extremites \cup {Nul} /\ fil[f].message \in Messages \cup {Nul}
               /\ fil[f].sur # Nul => fil[f].sur \in vivants
    BY FilFaits, FilSain DEF IInv, Courrier
  <2>5. vivants \subseteq {e \in Extremites : auteur[e[1]] # Nul} /\ morts \subseteq Procs /\ appels \in 0..MaxAppels
    BY DEF IInv, Types, VieInv
  <2> QED BY <2>1, <2>2, <2>3, <2>4, <2>5 DEF TypeOK
<1> QED BY <1>1, <1>2, <1>3, PTL DEF Spec

============================================================================
