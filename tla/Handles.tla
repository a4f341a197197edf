------------------------------- MODULE Handles -------------------------------
(***************************************************************************)
(* Native handles and the channels that carry them (src/kernel/native:     *)
(* handle/table.rs, handle/politique_corps.rs, ipc/channel.rs and the      *)
(* channel calls of abi/dispatch.rs).  A table is shared by the threads of *)
(* a process; a receive takes the channel's lock twice and the table's     *)
(* lock once or more, and gives the message back when a later step fails.  *)
(* Objects are counted references: an endpoint is dropped when the last    *)
(* table entry, queued message or running call that holds it lets go.      *)
(* Channel endpoints are the only objects here.  A wait set, which holds   *)
(* references too and may be sent through the channel it watches, is not   *)
(* one: what keeps an endpoint alive is modelled for processes that pass   *)
(* channels only.                                                          *)
(***************************************************************************)
EXTENDS Integers, Sequences, SequencesExt, FiniteSets

CONSTANTS Procs, Fils,
          ProcDe,        \* the process of each thread
          Canaux,
          NbSlots,       \* MAX_HANDLES_PER_PROCESS
          GenMax,        \* the last generation, 0x7fffffff
          MaxFile,       \* MAX_QUEUED_MESSAGES
          Masques,       \* the masks each process puts on what it sends
          Donnes,        \* the entries each process starts with (bootstrap handles)
          Attendent,     \* the messages queued at the start
          Crees,         \* the channels that exist at the start, and who created them
          MaxAppels,     \* bound: calls that change something
          Nul

ASSUME HandlesAssumption ==
    /\ ProcDe \in [Fils -> Procs]
    /\ {NbSlots, GenMax, MaxFile} \subseteq Nat \ {0} /\ MaxAppels \in Nat
    /\ MaxAppels < GenMax

VARIABLES
    table,     \* per process and slot: its generation, what it holds
    file,      \* per endpoint: the messages it has to receive, ChannelInner.queues
    vivants,   \* the endpoints not dropped: closed[side] = ~(side \in vivants)
    auteur,    \* per channel: the process that created it, Nul before
    fil,       \* per thread: the step of its receive, the endpoint and the message it holds
    morts,     \* the processes whose table release_process has taken
    appels,    \* calls begun; names a message for good
    emis, rendus, clos,      \* history: ids installed and for what, returned, closed
    envoyes, recus, chevauche  \* history: messages sent, delivered; endpoints two threads received from at once

noyau == <<table, file, vivants, auteur, fil, morts>>
histoire == <<emis, rendus, clos, envoyes, recus, chevauche>>
vars == <<noyau, appels, histoire>>

Droits == {"READ", "WRITE", "TRANSFER", "DUP"}   \* the rights these calls check
Extremites == Canaux \X {0, 1}
Pair(e) == <<e[1], 1 - e[2]>>
Slots == 1..NbSlots
Entrees == [objet : Extremites, droits : SUBSET Droits]
Numeros == (1 - MaxFile)..MaxAppels    \* a message sent has the number of its call, one queued at the start none above 0
Messages == [numero : Numeros, transfere : Entrees \cup {Nul}]

(* what a machine may start with: handles on, and in, channels that exist; *)
(* channel_send queued nothing in its own channel                          *)
ASSUME DepartAssumption ==
    /\ IsFiniteSet(Fils)
    /\ Nul \notin Procs /\ Nul \notin Entrees /\ Nul \notin Messages
    /\ Nul \notin Extremites /\ Nul \notin Slots \X (1..GenMax)
    /\ Crees \in [Canaux -> Procs \cup {Nul}]
    /\ Donnes \in [Procs -> Seq(Entrees)] /\ Attendent \in [Extremites -> Seq(Messages)]
    /\ \A p \in Procs : /\ Len(Donnes[p]) <= NbSlots
                        /\ \A s \in 1..Len(Donnes[p]) : Crees[Donnes[p][s].objet[1]] # Nul
    /\ \A e \in Extremites : \A i \in 1..Len(Attendent[e]) :
          LET x == Attendent[e][i].transfere IN
          Crees[e[1]] # Nul /\ (x # Nul => Crees[x.objet[1]] # Nul /\ x.objet[1] # e[1])
    /\ \A e \in Extremites : Len(Attendent[e]) <= MaxFile /\ \A i, j \in 1..Len(Attendent[e]) :
          /\ Attendent[e][i].numero <= 0
          /\ i < j => Attendent[e][i].numero < Attendent[e][j].numero

Repos == [pas |-> "repos", sur |-> Nul, place |-> 0, message |-> Nul, id |-> Nul]

----------------------------------------------------------------------------
(* The handle table.  An id is a slot and a generation.                    *)

NextGeneration(g) == IF g = GenMax THEN 1 ELSE g + 1

(* insert_locked: the first free slot, under its next generation *)
Libres(t) == {s \in Slots : t[s].entree = Nul}
Premier(t) == CHOOSE s \in Libres(t) : \A r \in Libres(t) : s <= r
Insere(t, e) == [t EXCEPT ![Premier(t)] = [gen |-> NextGeneration(@.gen), entree |-> e]]
IdPose(t) == <<Premier(t), NextGeneration(t[Premier(t)].gen)>>

(* lookup: the entry the id still designates, or Nul *)
Lookup(p, id) ==
    IF id \in Slots \X (1..GenMax) /\ table[p][id[1]].gen = id[2]
    THEN table[p][id[1]].entree ELSE Nul

Detient(p, id, d) == Lookup(p, id) # Nul /\ d \in Lookup(p, id).droits

(* wrong variant: closes whatever the slot holds by now *)
RetireSansGeneration(t, id) == [t EXCEPT ![id[1]].entree = Nul]

(* close_locked: takes the entry, keeps the generation *)
Retire(t, id) ==
    IF t[id[1]].gen = id[2] THEN [t EXCEPT ![id[1]].entree = Nul] ELSE t

(* wrong variant: a copy may be given any right *)
VerifieDuplicationSansBorne(source, demandes) == "DUP" \in source

VerifieDuplication(source, demandes) == "DUP" \in source /\ demandes \subseteq source

(* wrong variant: the mask of the sender is ignored *)
VerifieTransfertSansMasque(source, masque) == source

VerifieTransfert(source, masque) == source \cap masque

----------------------------------------------------------------------------
(* Reference counting.  When references go, the endpoints that stay are    *)
(* the largest set in which each is held by a table, by a call, or by a    *)
(* message of a channel one of whose endpoints stays: what a cascade of    *)
(* drops leaves, cycles included.                                          *)

EnFile(f, e) == {m.transfere.objet : m \in {n \in ToSet(f[e]) : n.transfere # Nul}}

Racines(t, th, md) ==
    {t[x[1]][x[2]].entree.objet : x \in {y \in Procs \X Slots :
        /\ t[y[1]][y[2]].entree # Nul
        /\ y[1] \notin md \/ \E f \in Fils : ProcDe[f] = y[1] /\ th[f].pas # "repos"}}
    \cup {th[f].sur : f \in {g \in Fils : th[g].sur # Nul}}
    \cup {th[f].message.transfere.objet : f \in {g \in Fils :
             th[g].message # Nul /\ th[g].message.transfere # Nul}}

PorteesPar(f, A) == UNION {EnFile(f, e) : e \in {x \in Extremites : {x, Pair(x)} \cap A # {}}}

Restent(viv, t, f, th, md) ==
    LET R == Racines(t, th, md) IN
    IF viv \subseteq R THEN viv
    ELSE UNION {A \in SUBSET viv : A \subseteq R \cup PorteesPar(f, A)}

(* every action ends with the drops its releases cause *)
Libere == vivants' = Restent(vivants, table', file', fil', morts')

----------------------------------------------------------------------------
Init ==
    /\ auteur = Crees
    /\ table = [p \in Procs |-> [s \in Slots |->
          IF s <= Len(Donnes[p]) THEN [gen |-> 1, entree |-> Donnes[p][s]]
                                 ELSE [gen |-> 0, entree |-> Nul]]]
    /\ file = Attendent
    /\ fil = [f \in Fils |-> Repos]
    /\ morts = {} /\ appels = 0
    /\ vivants = Restent({e \in Extremites : auteur[e[1]] # Nul}, table, file, fil, morts)
    /\ emis = [p \in Procs |-> {<<<<s, 1>>, Donnes[p][s].objet>> : s \in 1..Len(Donnes[p])}]
    /\ rendus = [p \in Procs |-> {<<s, 1>> : s \in 1..Len(Donnes[p])}]
    /\ clos = [p \in Procs |-> {}]
    /\ envoyes = [e \in Extremites |-> {m.numero : m \in ToSet(file[e])}]
    /\ recus = [e \in Extremites |-> <<>>] /\ chevauche = {}

(* the ids a process may present: those its table ever installed *)
Ids(p) == {x[1] : x \in emis[p]}

Appelle(f) ==
    /\ fil[f].pas = "repos" /\ ProcDe[f] \notin morts
    /\ appels < MaxAppels /\ appels' = appels + 1

Note(p, t, e) == emis' = [emis EXCEPT ![p] = @ \cup {<<IdPose(t), e.objet>>}]

----------------------------------------------------------------------------
(* handle_close *)
Ferme(f) == LET p == ProcDe[f] IN
    /\ Appelle(f)
    /\ \E id \in Ids(p) :
          /\ Retire(table[p], id) # table[p]
          /\ table' = [table EXCEPT ![p] = Retire(@, id)]
          /\ clos' = [clos EXCEPT ![p] = @ \cup {id}]
    /\ UNCHANGED <<file, auteur, fil, morts, emis, rendus, envoyes, recus, chevauche>> /\ Libere

(* handle_dup: lookup, then insert *)
Duplique(f) == LET p == ProcDe[f] IN
    /\ Appelle(f) /\ Libres(table[p]) # {}
    /\ \E id \in Ids(p), d \in {Droits, {"READ", "DUP"}} :
          LET e == [objet |-> Lookup(p, id).objet, droits |-> d] IN
          /\ Lookup(p, id) # Nul /\ VerifieDuplication(Lookup(p, id).droits, d)
          /\ table' = [table EXCEPT ![p] = Insere(@, e)]
          /\ Note(p, table[p], e)
          /\ rendus' = [rendus EXCEPT ![p] = @ \cup {IdPose(table[p])}]
    /\ UNCHANGED <<file, auteur, fil, morts, clos, envoyes, recus, chevauche>> /\ Libere

(* channel_create: both ends inserted; without room for the second, or if  *)
(* the ids cannot be copied out, what was inserted is closed again         *)
Cree(f) == LET p == ProcDe[f]
               bout(c, n) == [objet |-> <<c, n>>, droits |-> Droits]
               un(c) == Insere(table[p], bout(c, 0))
               deux(c) == Insere(un(c), bout(c, 1)) IN
    /\ Appelle(f) /\ Libres(table[p]) # {}
    /\ \E c \in {d \in Canaux : auteur[d] = Nul} :
          \/ /\ Cardinality(Libres(table[p])) > 1
             /\ table' = [table EXCEPT ![p] = deux(c)]
             /\ auteur' = [auteur EXCEPT ![c] = p]
             /\ vivants' = vivants \cup {<<c, 0>>, <<c, 1>>}
             /\ emis' = [emis EXCEPT ![p] = @ \cup
                   {<<IdPose(table[p]), <<c, 0>>>>, <<IdPose(un(c)), <<c, 1>>>>}]
             /\ rendus' = [rendus EXCEPT ![p] = @ \cup {IdPose(table[p]), IdPose(un(c))}]
          \/ /\ table' = [table EXCEPT ![p] =
                   IF Cardinality(Libres(@)) > 1
                   THEN Retire(Retire(deux(c), IdPose(@)), IdPose(un(c)))
                   ELSE Retire(un(c), IdPose(@))]
             /\ UNCHANGED <<auteur, vivants, emis, rendus>>
    /\ UNCHANGED <<file, fil, morts, clos, envoyes, recus, chevauche>>

----------------------------------------------------------------------------
(* channel_send: with a handle, which must be transferable and not belong  *)
(* to the channel it would travel through, or with bytes only; the code    *)
(* looks at channels only, never into a wait set                           *)
MemeCanal(e, objet) == e[1] = objet[1]

Envois(p, e) ==
    {Nul} \cup {[objet |-> Lookup(p, x[1]).objet, droits |-> VerifieTransfert(Lookup(p, x[1]).droits, x[2])] :
        x \in {y \in Ids(p) \X Masques[p] :
                  Detient(p, y[1], "TRANSFER") /\ ~MemeCanal(e, Lookup(p, y[1]).objet)}}

Send(f) == LET p == ProcDe[f] IN
    /\ Appelle(f)
    /\ \E id \in Ids(p) :
          LET e == Lookup(p, id).objet IN
          /\ Detient(p, id, "WRITE")
          /\ Pair(e) \in vivants /\ Len(file[Pair(e)]) < MaxFile
          /\ \E x \in Envois(p, e) :
                file' = [file EXCEPT ![Pair(e)] = Append(@, [numero |-> appels', transfere |-> x])]
          /\ envoyes' = [envoyes EXCEPT ![Pair(e)] = @ \cup {appels'}]
    /\ UNCHANGED <<table, auteur, fil, morts, emis, rendus, clos, recus, chevauche>> /\ Libere

----------------------------------------------------------------------------
(* channel_recv, one step per lock it takes *)
Tient(m) == IF m.transfere = Nul THEN 0 ELSE 1

Pas(f, suite) == fil' = [fil EXCEPT ![f] = suite]

(* lookup, then front_sizes: the front must fit the capacity given *)
RecvDebut(f) == LET p == ProcDe[f] IN
    /\ Appelle(f)
    /\ \E id \in Ids(p), place \in {0, 1} :
          LET e == Lookup(p, id).objet IN
          /\ Detient(p, id, "READ")
          /\ file[e] # <<>> /\ Tient(Head(file[e])) <= place
          /\ Pas(f, [Repos EXCEPT !.pas = "prend", !.sur = e, !.place = place])
          /\ chevauche' = IF \E g \in Fils : fil[g].sur = e THEN chevauche \cup {e} ELSE chevauche
    /\ UNCHANGED <<table, file, auteur, morts, emis, rendus, clos, envoyes, recus>> /\ Libere

(* recv: the front may have changed since front_sizes *)
TropGrand(m, place) == Tient(m) > place

RecvPrend(f) == LET e == fil[f].sur IN
    /\ fil[f].pas = "prend"
    /\ IF file[e] = <<>> THEN Pas(f, Repos) /\ UNCHANGED file
       ELSE /\ file' = [file EXCEPT ![e] = Tail(@)]
            /\ Pas(f, [fil[f] EXCEPT !.message = Head(file[e]),
                  !.pas = IF TropGrand(Head(file[e]), fil[f].place) THEN "remet" ELSE "verifie"])
    /\ UNCHANGED <<table, auteur, morts, appels, histoire>> /\ Libere

(* the copy-out preflight refuses the caller's buffers *)
RecvRefuse(f) ==
    /\ fil[f].pas = "verifie"
    /\ Pas(f, [fil[f] EXCEPT !.pas = "remet"])
    /\ UNCHANGED <<table, file, auteur, morts, appels, histoire>> /\ Libere

(* wrong variant: the message of a receive that fails is dropped *)
EchecPerdu(r) == Repos

(* insert_many; no room: the message goes back *)
Echec(r) == [r EXCEPT !.pas = "remet"]

RecvInstalle(f) == LET p == ProcDe[f]
                       m == fil[f].message IN
    /\ fil[f].pas = "verifie"
    /\ IF m.transfere = Nul THEN
            Pas(f, [fil[f] EXCEPT !.pas = "copie"]) /\ UNCHANGED <<table, emis>>
       ELSE IF Libres(table[p]) = {} THEN
            Pas(f, Echec(fil[f])) /\ UNCHANGED <<table, emis>>
       ELSE /\ table' = [table EXCEPT ![p] = Insere(@, m.transfere)]
            /\ Note(p, table[p], m.transfere)
            /\ Pas(f, [fil[f] EXCEPT !.pas = "copie", !.id = IdPose(table[p])])
    /\ UNCHANGED <<file, auteur, morts, appels, rendus, clos, envoyes, recus, chevauche>> /\ Libere

(* the copies to the caller succeed: the message is delivered *)
RecvRend(f) == LET p == ProcDe[f] IN
    /\ fil[f].pas = "copie"
    /\ recus' = [recus EXCEPT ![fil[f].sur] = Append(@, fil[f].message.numero)]
    /\ rendus' = [rendus EXCEPT ![p] = IF fil[f].id = Nul THEN @ ELSE @ \cup {fil[f].id}]
    /\ Pas(f, Repos)
    /\ UNCHANGED <<table, file, auteur, morts, appels, emis, clos, envoyes, chevauche>> /\ Libere

(* a copy fails: what was installed is closed, then the message goes back *)
RecvAnnule(f) == LET p == ProcDe[f] IN
    /\ fil[f].pas = "copie"
    /\ table' = [table EXCEPT ![p] = IF fil[f].id = Nul THEN @ ELSE Retire(@, fil[f].id)]
    /\ Pas(f, [fil[f] EXCEPT !.pas = "remet", !.id = Nul])
    /\ UNCHANGED <<file, auteur, morts, appels, histoire>> /\ Libere

(* wrong variant: given back at the tail *)
DevantDerriere(s, m) == Append(s, m)

(* requeue_front: at the front, whatever the queue holds by now *)
Devant(s, m) == <<m>> \o s

RequeueFront(f) ==
    /\ fil[f].pas = "remet"
    /\ file' = [file EXCEPT ![fil[f].sur] = Devant(@, fil[f].message)]
    /\ Pas(f, Repos)
    /\ UNCHANGED <<table, auteur, morts, appels, histoire>> /\ Libere

----------------------------------------------------------------------------
(* release_process at the death of a process: the registry lets go of the  *)
(* table, which is cleared; a thread still in a call keeps its reference   *)
Meurt(p) ==
    /\ p \notin morts /\ morts' = morts \cup {p}
    /\ table' = [table EXCEPT ![p] = [s \in Slots |-> [@[s] EXCEPT !.entree = Nul]]]
    /\ UNCHANGED <<file, auteur, fil, appels, histoire>> /\ Libere

Next ==
    \/ \E f \in Fils :
          \/ Ferme(f) \/ Duplique(f) \/ Cree(f) \/ Send(f)
          \/ RecvDebut(f) \/ RecvPrend(f) \/ RecvRefuse(f) \/ RecvInstalle(f)
          \/ RecvRend(f) \/ RecvAnnule(f) \/ RequeueFront(f)
    \/ \E p \in Procs : Meurt(p)

Spec == Init /\ [][Next]_vars

----------------------------------------------------------------------------
(* Types.  A queue may pass its limit, by the messages given back to it:   *)
(* never by more than the receives under way.                              *)
TypeOK ==
    /\ table \in [Procs -> [Slots -> [gen : 0..GenMax, entree : Entrees \cup {Nul}]]]
    /\ \A p \in Procs, s \in Slots : table[p][s].entree # Nul => table[p][s].gen # 0
    /\ \A e \in Extremites :
          /\ ToSet(file[e]) \subseteq Messages
          /\ Len(file[e]) <= MaxFile + Cardinality(Fils)
    /\ vivants \subseteq {e \in Extremites : auteur[e[1]] # Nul}
    /\ \A f \in Fils : /\ fil[f].sur \in Extremites \cup {Nul}
                       /\ fil[f].message \in Messages \cup {Nul}
                       /\ fil[f].sur # Nul => fil[f].sur \in vivants
    /\ morts \subseteq Procs /\ appels \in 0..MaxAppels

(* NATIVE_ABI.md section 3, "pas d'ABA".  An id, once closed, never        *)
(* designates anything else; and one that was returned keeps designating   *)
(* its object until the process closes it: neither a stale id given by     *)
(* another thread nor the roll-back of a receive takes it away.            *)
HandlesFideles ==
    \A p \in Procs \ morts : \A x \in emis[p] :
        /\ Lookup(p, x[1]) # Nul => Lookup(p, x[1]).objet = x[2] /\ x[1] \notin clos[p]
        /\ x[1] \in rendus[p] \ clos[p] => Lookup(p, x[1]) # Nul

(* politique_corps.rs, borne_par: whatever the chain of duplications,      *)
(* transfers and receives given up, a process never holds, on a channel    *)
(* that another created after it was launched, a right that all the masks  *)
(* of the creator withhold.                                                *)
DroitsBornes ==
    \A p \in Procs, s \in Slots :
        LET e == table[p][s].entree
            q == auteur[e.objet[1]] IN
        (e # Nul /\ Crees[e.objet[1]] = Nul /\ q # p) => e.droits \subseteq UNION Masques[q]

(* channel_recv's contract.  While its channel has an endpoint alive, a    *)
(* message sent is in exactly one place: queued, held by one receive, or   *)
(* delivered; whatever step of the receive failed.                         *)
Places(e, n) ==
    Cardinality({i \in 1..Len(file[e]) : file[e][i].numero = n})
  + Cardinality({f \in Fils : fil[f].sur = e /\ fil[f].message # Nul /\ fil[f].message.numero = n})
  + Cardinality({i \in 1..Len(recus[e]) : recus[e][i] = n})

MessagesConserves ==
    \A e \in Extremites : {e, Pair(e)} \cap vivants # {} =>
        \A n \in envoyes[e] : Places(e, n) = 1

(* PRODUCT_M12_QUALIFICATION.md:33, "remise en file FIFO".  An endpoint    *)
(* that no two threads received from at once delivers in the order of the  *)
(* sends, through any number of receives given up.                         *)
EnOrdre(s) == \A i, j \in 1..Len(s) : i < j => s[i] < s[j]

OrdreDeReception ==
    \A e \in Extremites \ chevauche :
        LET tenus == {fil[f].message.numero : f \in {g \in Fils : fil[g].sur = e /\ fil[g].message # Nul}}
            attente == [i \in 1..Len(file[e]) |-> file[e][i].numero] IN
        EnOrdre(recus[e] \o SetToSeq(tenus) \o attente)

(* politique_corps.rs, table.rs: authority only travels.  A step that puts  *)
(* an entry in a table takes it from the creation of its channel, from an  *)
(* entry of the SAME process with DUP, or from the message one of its own  *)
(* threads holds; a message that enters a queue comes from a process that  *)
(* may write there and holds, with TRANSFER, at least what it gives, cut   *)
(* by a mask of its own, or is given back by the receive that took it      *)
(* there; a receive holds what that queue held.  So a right that one link  *)
(* of a chain removed is not given back by any later duplication, receive, *)
(* roll-back or requeue.                                                   *)
Herite(x, y, d) == y # Nul /\ d \in y.droits /\ x.objet = y.objet /\ x.droits \subseteq y.droits

EntreeLegitime(p, x) ==
    \/ auteur[x.objet[1]] = Nul /\ auteur'[x.objet[1]] = p
    \/ \E r \in Slots : Herite(x, table[p][r].entree, "DUP")
    \/ \E f \in Fils : ProcDe[f] = p /\ fil[f].message # Nul /\ fil[f].message.transfere = x

EnvoiLegitime(e, x) ==
    \E p \in Procs \ morts : \E w \in Slots, r \in Slots, masque \in Masques[p] :
        /\ table[p][w].entree # Nul /\ table[p][w].entree.objet = Pair(e) /\ "WRITE" \in table[p][w].entree.droits
        /\ Herite(x, table[p][r].entree, "TRANSFER") /\ x.droits \subseteq masque

DroitsHerites ==
    [][/\ \A p \in Procs, s \in Slots :
             table'[p][s].entree \notin {Nul, table[p][s].entree} => EntreeLegitime(p, table'[p][s].entree)
       /\ \A e \in Extremites : \A m \in ToSet(file'[e]) \ ToSet(file[e]) :
             \/ m.transfere = Nul \/ EnvoiLegitime(e, m.transfere)
             \/ \E f \in Fils : fil[f].sur = e /\ fil[f].message = m
       /\ \A f \in Fils : fil'[f].message \notin {Nul, fil[f].message} =>
             fil'[f].message \in ToSet(file[fil[f].sur])]_vars

=============================================================================
