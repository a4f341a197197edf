------------------------------ MODULE Parking ------------------------------
(***************************************************************************)
(* Parking and waking a task without a lock: the wait queue                *)
(* (src/kernel/sync/wait_queue, rendezvous.rs), the publication of Bloque  *)
(* and the scan of the wakers (src/kernel/process/thread/blocage.rs), the  *)
(* timed sleep (sommeil.rs), the condemnation of a task by a killer        *)
(* (src/kernel/scheduler/cycle_vie.rs, comptabilite.rs) and the hand-off   *)
(* of a task that leaves its core (courant.rs, ordonnancement.rs).         *)
(*                                                                         *)
(* One step is one access to shared state.  Every crossing in this code is *)
(* a locked instruction or is fenced on both sides, so the steps           *)
(* interleave in a single order.  Writes that no other actor can tell      *)
(* apart share a step.                                                     *)
(***************************************************************************)
EXTENDS Naturals, FiniteSets

CONSTANTS N,             \* length of the task registry
          FilsNoyau,     \* registry indices of kernel threads
          Condamnables,  \* user tasks that a killer may condemn
          Files,         \* wait queues
          Nulle,         \* the null wait-queue key
          Reveilleurs,   \* contexts that call wake_one, wake_all, a sweep...
          Modes,         \* are the waits interruptible?  subset of BOOLEAN
          Bornes,        \* do they have a deadline?  subset of BOOLEAN
          MaxSignaux,    \* bound: wake_one and wake_all calls on one queue
          MaxAttentes    \* bound: waits of one task

ASSUME ParkingAssumption ==
    /\ N \in Nat \ {0}
    /\ FilsNoyau \subseteq 1..N
    /\ Condamnables \subseteq 1..N \ FilsNoyau
    /\ Nulle \notin Files
    /\ Modes \subseteq BOOLEAN /\ Bornes \subseteq BOOLEAN
    /\ MaxSignaux \in Nat /\ MaxAttentes \in Nat

Taches == 1..N

VARIABLES
    (* the fields of a Task that others read *)
    etat,            \* state
    cle,             \* wait_queue_key
    echeance,        \* wake_deadline_ns: none, to come, or past
    interruptible,   \* attente_interruptible
    condamnee,       \* condamnee
    coeur,           \* on_cpu and switching_out
    enFile,          \* has an entry in a run queue
    passation,       \* a hand-off has freed its core and has not read its state yet
    (* the program of a task: where it is, the wait it asked for *)
    pc, voulue, ticket, attentes,
    (* a wait queue: its generation and who is counted in `dormeurs` *)
    generation, inscrits,
    rv,              \* the wakers
    tueur,           \* the killer
    (* history, read by the properties only *)
    dernierTous,     \* generation of the last wake_all on the queue
    sortie           \* somebody left the queue since the last wake_one on it

partage == <<etat, cle, echeance, interruptible, condamnee, coeur, enFile, passation>>
tache   == <<pc, voulue, ticket, attentes>>
file    == <<generation, inscrits>>
temoins == <<dernierTous, sortie>>
vars    == <<partage, tache, file, rv, tueur, temoins>>

Cles == Files \cup {Nulle}

Attente == [file : Cles, bornee : BOOLEAN, interruptible : BOOLEAN]

(* a task waits for a queue, or for a deadline only (file = Nulle) *)
SurFile(t) == voulue[t].file # Nulle

SansAttente == [file |-> Nulle, bornee |-> FALSE, interruptible |-> FALSE]
Repos == [pc |-> "repos", file |-> Nulle, tous |-> FALSE, i |-> 1]
TueurRepos == [pc |-> "repos", cible |-> 1, surCoeur |-> FALSE]

Init ==
    /\ etat = [t \in Taches |-> "Pret"]
    /\ cle = [t \in Taches |-> Nulle]
    /\ echeance = [t \in Taches |-> "aucune"]
    /\ interruptible = [t \in Taches |-> FALSE]
    /\ condamnee = [t \in Taches |-> FALSE]
    /\ coeur = [t \in Taches |-> "dedans"]
    /\ enFile = [t \in Taches |-> FALSE]
    /\ passation = [t \in Taches |-> FALSE]
    /\ pc = [t \in Taches |-> "libre"]
    /\ voulue = [t \in Taches |-> SansAttente]
    /\ ticket = [t \in Taches |-> 0]
    /\ attentes = [t \in Taches |-> 0]
    /\ generation = [q \in Files |-> 1]
    /\ inscrits = [q \in Files |-> {}]
    /\ rv = [r \in Reveilleurs |-> Repos]
    /\ tueur = TueurRepos
    /\ dernierTous = [q \in Files |-> 0]
    /\ sortie = [q \in Files |-> FALSE]

-----------------------------------------------------------------------------
(* Transitions of the state word (EtatAtomique): each is one CAS *)

Endormie(t)  == etat' = [etat EXCEPT ![t] = "Bloque"]
Reveillee(t) == etat' = [etat EXCEPT ![t] = "Pret"]
Morte(t)     == etat' = [etat EXCEPT ![t] = "Zombie"]

SurCoeur(t) == coeur[t] # "dehors"

(* publish_ready(): a task still on its core is published by its hand-off *)
Publie(t) ==
    enFile' = [enFile EXCEPT ![t] = @ \/ (etat[t] = "Pret" /\ ~SurCoeur(t))]

(* a task advances only while it holds a core *)
A(t, p) == pc[t] = p /\ coeur[t] = "dedans"
Vers(t, p) == pc' = [pc EXCEPT ![t] = p]

(* what the steps of a wait leave alone, and its return to the caller *)
Sauf == UNCHANGED <<voulue, ticket, attentes, rv, tueur>>
Revient(t) == /\ Vers(t, "libre")
              /\ voulue' = [voulue EXCEPT ![t] = SansAttente]
              /\ ticket' = [ticket EXCEPT ![t] = 0]
              /\ UNCHANGED <<attentes, rv, tueur>>

-----------------------------------------------------------------------------
(* The task: WaitQueue::wait and its variants *)

(* the caller reads the ticket, then checks its condition *)
Ticket(t, q, bornee, int) ==
    /\ A(t, "libre")
    /\ Vers(t, "ticket")
    /\ voulue' = [voulue EXCEPT ![t] = [file |-> q, bornee |-> bornee, interruptible |-> int]]
    /\ ticket' = [ticket EXCEPT ![t] = generation[q]]
    /\ UNCHANGED <<partage, file, rv, tueur, temoins>>

(* dort_jusqua(): no queue, a deadline *)
Sommeille(t, int) ==
    /\ A(t, "libre")
    /\ Vers(t, "endort")
    /\ voulue' = [voulue EXCEPT ![t] = [file |-> Nulle, bornee |-> TRUE, interruptible |-> int]]
    /\ UNCHANGED <<partage, ticket, file, rv, tueur, temoins>>

(* attend(): a wake since the ticket, and the wait is over before it starts *)
Attend(t) ==
    /\ A(t, "ticket")
    /\ IF generation[voulue[t].file] = ticket[t] THEN Vers(t, "inscrit") /\ Sauf ELSE Revient(t)
    /\ UNCHANGED <<partage, file, temoins>>

Inscrit(t) ==
    /\ A(t, "inscrit")
    /\ inscrits' = [inscrits EXCEPT ![voulue[t].file] = @ \cup {t}]
    /\ Vers(t, "endort")
    /\ Sauf /\ UNCHANGED <<partage, generation, temoins>>

(* prepare_park sets the key and the deadline, publie_parking the          *)
(* interruptibility, then Pret -> Bloque, refused when the task is not     *)
(* Pret any more.  Only a reader that sees Bloque can use what was set.    *)
Endort(t) ==
    /\ A(t, "endort")
    /\ cle' = [cle EXCEPT ![t] = voulue[t].file]
    /\ echeance' = [echeance EXCEPT ![t] = IF voulue[t].bornee THEN "future" ELSE "aucune"]
    /\ \/ /\ etat[t] = "Pret"
          /\ interruptible' = [interruptible EXCEPT ![t] = voulue[t].interruptible]
          /\ Endormie(t) /\ Vers(t, "relit_condamnee")
       \/ etat[t] # "Pret" /\ UNCHANGED <<etat, interruptible>> /\ Vers(t, "efface")
    /\ Sauf /\ UNCHANGED <<condamnee, coeur, enFile, passation, file, temoins>>

Desinscrit(t) ==
    inscrits' = [q \in Files |-> IF q = voulue[t].file THEN inscrits[q] \ {t} ELSE inscrits[q]]

(* wrong variant: parks without looking at the condemnation again *)
RelitCondamneeJamais(t) ==
    /\ A(t, "relit_condamnee")
    /\ Vers(t, IF SurFile(t) THEN "relit" ELSE "dort")
    /\ Sauf /\ UNCHANGED <<partage, file, temoins>>

(* publie_parking re-reads the condemnation AFTER it published Bloque *)
RelitCondamnee(t) ==
    /\ A(t, "relit_condamnee")
    /\ IF condamnee[t] /\ voulue[t].interruptible
       THEN /\ Vers(t, "meurt")
            /\ cle' = [cle EXCEPT ![t] = Nulle]
            /\ echeance' = [echeance EXCEPT ![t] = IF SurFile(t) THEN "aucune" ELSE @]
            /\ Desinscrit(t)
       ELSE /\ Vers(t, IF SurFile(t) THEN "relit" ELSE "dort")
            /\ UNCHANGED <<cle, echeance, inscrits>>
    /\ Sauf /\ UNCHANGED <<etat, interruptible, condamnee, coeur, enFile, passation, generation, temoins>>

(* wrong variant: trusts the check made before Bloque was published *)
RelitJamais(t) ==
    /\ A(t, "relit") /\ Vers(t, "dort")
    /\ Sauf /\ UNCHANGED <<partage, file, temoins>>

(* wrong variant: clears the key and the deadline while still Bloque *)
RelitEfface(t) ==
    /\ A(t, "relit")
    /\ \/ generation[voulue[t].file] = ticket[t] /\ Vers(t, "dort") /\ UNCHANGED <<cle, echeance>>
       \/ /\ generation[voulue[t].file] # ticket[t] /\ Vers(t, "annule")
          /\ cle' = [cle EXCEPT ![t] = Nulle] /\ echeance' = [echeance EXCEPT ![t] = "aucune"]
    /\ Sauf /\ UNCHANGED <<etat, interruptible, condamnee, coeur, enFile, passation, file, temoins>>

(* the generation is re-read AFTER Bloque is published *)
Relit(t) ==
    /\ A(t, "relit")
    /\ Vers(t, IF generation[voulue[t].file] = ticket[t] THEN "dort" ELSE "annule")
    /\ Sauf /\ UNCHANGED <<partage, file, temoins>>

(* wrong variant: a store in place of the CAS *)
AnnuleEcrit(t) ==
    /\ A(t, "annule") /\ Reveillee(t) /\ Vers(t, "efface")
    /\ Sauf /\ UNCHANGED <<cle, echeance, interruptible, condamnee, coeur, enFile, passation, file, temoins>>

(* annule_park_courant(), and termine_attente() of a timed sleep: Bloque   *)
(* -> Pret before the key and the deadline are cleared                     *)
Annule(t) ==
    /\ A(t, "annule")
    /\ IF etat[t] = "Bloque" THEN Reveillee(t) ELSE UNCHANGED etat
    /\ interruptible' = [interruptible EXCEPT ![t] = SurFile(t) /\ @]
    /\ Vers(t, "efface")
    /\ Sauf /\ UNCHANGED <<cle, echeance, condamnee, coeur, enFile, passation, file, temoins>>

(* finish_park: the loop ends when the task is not Bloque; a timed sleep   *)
(* also ends when its deadline is past, still Bloque perhaps               *)
FinAttente(t) ==
    /\ A(t, "dort")
    /\ \/ SurFile(t) /\ etat[t] # "Bloque" /\ Vers(t, "efface")
       \/ ~SurFile(t) /\ (etat[t] = "Pret" \/ echeance[t] = "passee") /\ Vers(t, "annule")
    /\ Sauf /\ UNCHANGED <<partage, file, temoins>>

(* the wait clears its own fields and drops its Inscription; the caller    *)
(* checks its condition again                                              *)
Efface(t) ==
    /\ A(t, "efface")
    /\ cle' = [cle EXCEPT ![t] = Nulle]
    /\ echeance' = [echeance EXCEPT ![t] = "aucune"]
    /\ interruptible' = [interruptible EXCEPT ![t] = FALSE]
    /\ Desinscrit(t)
    /\ sortie' = [q \in Files |-> sortie[q] \/ q = voulue[t].file]
    /\ Revient(t)
    /\ UNCHANGED <<etat, condamnee, coeur, enFile, passation, generation, dernierTous>>

(* meurt_au_parking(), or meurt_a_la_frontiere() of a condemned task *)
Meurt(t) ==
    /\ A(t, "meurt") \/ (A(t, "libre") /\ condamnee[t])
    /\ Morte(t) /\ Vers(t, "mort")
    /\ Sauf /\ UNCHANGED <<cle, echeance, interruptible, condamnee, coeur, enFile, passation, file, temoins>>

-----------------------------------------------------------------------------
(* Cores *)

(* schedule(): the task that waits, or that is dead, gives its core away.  *)
(* A sleeper woken before its first schedule() yields once more in the     *)
(* code, and comes back as it left: that yield is left out.                *)
Cede(t) ==
    /\ coeur[t] = "dedans"
    /\ \/ pc[t] = "dort" /\ (etat[t] = "Bloque" \/ (~SurFile(t) /\ etat[t] = "Zombie"))
       \/ pc[t] = "mort"
    /\ coeur' = [coeur EXCEPT ![t] = "sort"]
    /\ UNCHANGED <<etat, cle, echeance, interruptible, condamnee, enFile, passation, tache, file, rv, tueur, temoins>>

(* preempt_from_irq(): a user task in user space only, where it dies if it *)
(* is condemned (Meurt), a kernel thread wherever a targeted request finds *)
(* it without a lock                                                       *)
Preempte(t) ==
    /\ coeur[t] = "dedans" /\ pc[t] # "mort"
    /\ (pc[t] = "libre" /\ ~condamnee[t]) \/ t \in FilsNoyau
    /\ coeur' = [coeur EXCEPT ![t] = "sort"]
    /\ UNCHANGED <<etat, cle, echeance, interruptible, condamnee, enFile, passation, tache, file, rv, tueur, temoins>>

(* wrong variant: forgets a task that was woken while it left its core *)
LibereCoeurMuet(t) ==
    /\ coeur[t] = "sort"
    /\ coeur' = [coeur EXCEPT ![t] = "dehors"]
    /\ UNCHANGED <<etat, cle, echeance, interruptible, condamnee, enFile, passation, tache, file, rv, tueur, temoins>>

(* complete_switch_handoff(), run by the next context on that core: the    *)
(* task is off its core ... (bound: one such hand-off of a task at a time) *)
LibereCoeur(t) ==
    /\ coeur[t] = "sort" /\ ~passation[t]
    /\ coeur' = [coeur EXCEPT ![t] = "dehors"]
    /\ passation' = [passation EXCEPT ![t] = TRUE]
    /\ UNCHANGED <<etat, cle, echeance, interruptible, condamnee, enFile, tache, file, rv, tueur, temoins>>

(* ... and only then its state is read, to publish it if it was woken *)
Repasse(t) ==
    /\ passation[t]
    /\ passation' = [passation EXCEPT ![t] = FALSE]
    /\ Publie(t)
    /\ UNCHANGED <<etat, cle, echeance, interruptible, condamnee, coeur, tache, file, rv, tueur, temoins>>

Passe(t) == LibereCoeur(t) \/ Repasse(t)

(* pick_next(): the entry is consumed; a task that is not eligible is dropped *)
Elit(t) ==
    /\ enFile[t]
    /\ enFile' = [enFile EXCEPT ![t] = FALSE]
    /\ coeur' = [coeur EXCEPT ![t] = IF etat[t] = "Pret" /\ @ = "dehors" THEN "dedans" ELSE @]
    /\ UNCHANGED <<etat, cle, echeance, interruptible, condamnee, passation, tache, file, rv, tueur, temoins>>

(* the clock reaches the deadline of t *)
TempsPasse(t) ==
    /\ echeance[t] = "future"
    /\ echeance' = [echeance EXCEPT ![t] = "passee"]
    /\ UNCHANGED <<etat, cle, interruptible, condamnee, coeur, enFile, passation, tache, file, rv, tueur, temoins>>

-----------------------------------------------------------------------------
(* Wakers *)

Rv(r, p, q, tous, i) == rv' = [rv EXCEPT ![r] = [pc |-> p, file |-> q, tous |-> tous, i |-> i]]
VaA(r, p) == Rv(r, p, rv[r].file, rv[r].tous, rv[r].i)

(* the next index of the scan, or the end of the call *)
Suivant(r) == IF rv[r].file # Nulle /\ rv[r].i < N
              THEN Rv(r, "balaye", rv[r].file, rv[r].tous, rv[r].i + 1)
              ELSE rv' = [rv EXCEPT ![r] = Repos]

(* wake_one(), wake_all(): the generation moves first *)
Signale(r, q, tous) ==
    /\ rv[r].pc = "repos"
    /\ generation' = [generation EXCEPT ![q] = @ + 1]
    /\ dernierTous' = [dernierTous EXCEPT ![q] = IF tous THEN generation[q] + 1 ELSE @]
    /\ sortie' = [sortie EXCEPT ![q] = tous /\ @]
    /\ Rv(r, "compte", q, tous, 1)
    /\ UNCHANGED <<partage, tache, inscrits, tueur>>

(* ... then the count of sleepers is read *)
LitDormeurs(r) ==
    /\ rv[r].pc = "compte"
    /\ IF inscrits[rv[r].file] = {}
       THEN rv' = [rv EXCEPT ![r] = Repos] ELSE VaA(r, "balaye")
    /\ UNCHANGED <<partage, tache, file, tueur, temoins>>

(* wake_wait_queue(): the key of the next task *)
LitCle(r) ==
    /\ rv[r].pc = "balaye"
    /\ IF cle[rv[r].i] = rv[r].file THEN VaA(r, "cas") ELSE Suivant(r)
    /\ UNCHANGED <<partage, tache, file, tueur, temoins>>

(* wake_for_signal(): any sleeping task of the process *)
ReveilSignal(r, t) ==
    /\ rv[r].pc = "repos" /\ t \notin FilsNoyau /\ etat[t] = "Bloque"
    /\ Reveillee(t) /\ Rv(r, "publie", Nulle, FALSE, t)
    /\ UNCHANGED <<cle, echeance, interruptible, condamnee, coeur, enFile, passation, tache, file, tueur, temoins>>

(* wake_sleepers(): a deadline that is past *)
LitEcheance(r, t) ==
    /\ rv[r].pc = "repos" /\ echeance[t] = "passee"
    /\ Rv(r, "cas", Nulle, FALSE, t)
    /\ UNCHANGED <<partage, tache, file, tueur, temoins>>

(* Bloque -> Pret: exactly one winner *)
Reveille(r) ==
    /\ rv[r].pc = "cas"
    /\ IF etat[rv[r].i] = "Bloque"
       THEN Reveillee(rv[r].i) /\ VaA(r, "publie")
       ELSE UNCHANGED etat /\ Suivant(r)
    /\ UNCHANGED <<cle, echeance, interruptible, condamnee, coeur, enFile, passation, tache, file, tueur, temoins>>

(* wrong variant: a wake_all that stops at the first task it woke *)
RvPublieUn(r) ==
    /\ rv[r].pc = "publie" /\ Publie(rv[r].i)
    /\ rv' = [rv EXCEPT ![r] = Repos]
    /\ UNCHANGED <<etat, cle, echeance, interruptible, condamnee, coeur, passation, tache, file, tueur, temoins>>

(* wake_one stops at the first task it woke, wake_all goes on *)
RvPublie(r) ==
    /\ rv[r].pc = "publie"
    /\ Publie(rv[r].i)
    /\ IF rv[r].tous THEN Suivant(r) ELSE rv' = [rv EXCEPT ![r] = Repos]
    /\ UNCHANGED <<etat, cle, echeance, interruptible, condamnee, coeur, passation, tache, file, tueur, temoins>>

-----------------------------------------------------------------------------
(* The killer: condamne() *)

Tueur(p, t, sc) == tueur' = [pc |-> p, cible |-> t, surCoeur |-> sc]

Condamne(t) ==
    /\ tueur.pc = "repos" /\ t \in Condamnables
    /\ condamnee' = [condamnee EXCEPT ![t] = TRUE]
    /\ Tueur("lit_coeur", t, FALSE)
    /\ UNCHANGED <<etat, cle, echeance, interruptible, coeur, enFile, passation, tache, file, rv, temoins>>

TueurLitCoeur ==
    /\ tueur.pc = "lit_coeur"
    /\ Tueur("lit_etat", tueur.cible, SurCoeur(tueur.cible))
    /\ UNCHANGED <<partage, tache, file, rv, temoins>>

(* action_tueur(): a task that is Pret dies at its frontier *)
TueurLitEtat ==
    /\ tueur.pc = "lit_etat"
    /\ IF etat[tueur.cible] # "Bloque" THEN tueur' = TueurRepos
       ELSE Tueur(IF tueur.surCoeur THEN "reveille" ELSE "lit_attente", tueur.cible, tueur.surCoeur)
    /\ UNCHANGED <<partage, tache, file, rv, temoins>>

(* TueSurPlace, or AttendSonEvenement *)
TueurLitAttente ==
    /\ tueur.pc = "lit_attente"
    /\ IF interruptible[tueur.cible] THEN Tueur("tue", tueur.cible, FALSE) ELSE tueur' = TueurRepos
    /\ UNCHANGED <<partage, tache, file, rv, temoins>>

(* tue_parquee(): Bloque -> Zombie, or decide again *)
TueurTue ==
    /\ tueur.pc = "tue"
    /\ IF etat[tueur.cible] = "Bloque"
       THEN Morte(tueur.cible) /\ tueur' = TueurRepos
       ELSE UNCHANGED etat /\ Tueur("lit_coeur", tueur.cible, FALSE)
    /\ UNCHANGED <<cle, echeance, interruptible, condamnee, coeur, enFile, passation, tache, file, rv, temoins>>

TueurReveille ==
    /\ tueur.pc = "reveille"
    /\ IF etat[tueur.cible] = "Bloque"
       THEN Reveillee(tueur.cible) /\ Tueur("publie", tueur.cible, TRUE)
       ELSE UNCHANGED etat /\ Tueur("lit_coeur", tueur.cible, FALSE)
    /\ UNCHANGED <<cle, echeance, interruptible, condamnee, coeur, enFile, passation, tache, file, rv, temoins>>

TueurPublie ==
    /\ tueur.pc = "publie"
    /\ Publie(tueur.cible) /\ tueur' = TueurRepos
    /\ UNCHANGED <<etat, cle, echeance, interruptible, condamnee, coeur, passation, tache, file, rv, temoins>>

-----------------------------------------------------------------------------

(* the steps of a task that is in a wait *)
Avance(t) == \/ Attend(t) \/ Inscrit(t) \/ Endort(t) \/ RelitCondamnee(t)
             \/ Relit(t) \/ Annule(t) \/ FinAttente(t) \/ Efface(t)

(* a caller that waits, bounded by MaxAttentes *)
Entre(t) ==
    /\ attentes[t] < MaxAttentes /\ attentes' = [attentes EXCEPT ![t] = @ + 1]
    /\ \E int \in Modes, bornee \in Bornes :
          \/ \E q \in Files : Ticket(t, q, bornee, int)
          \/ bornee /\ Sommeille(t, int)

ReveilAvance(r) == LitDormeurs(r) \/ LitCle(r) \/ Reveille(r) \/ RvPublie(r)

TueurAvance == \/ TueurLitCoeur \/ TueurLitEtat \/ TueurLitAttente
               \/ TueurTue \/ TueurReveille \/ TueurPublie

Next == \/ \E t \in Taches : \/ Entre(t) \/ Avance(t) \/ Meurt(t) \/ Cede(t) \/ Preempte(t)
                             \/ Passe(t) \/ Elit(t) \/ TempsPasse(t) \/ Condamne(t)
        \/ \E r \in Reveilleurs : \/ \E q \in Files, tous \in BOOLEAN :
                                        generation[q] <= MaxSignaux /\ Signale(r, q, tous)
                                  \/ \E t \in Taches : ReveilSignal(r, t) \/ LitEcheance(r, t)
                                  \/ ReveilAvance(r)
        \/ TueurAvance

Spec == Init /\ [][Next]_vars

(* A core executes what it holds, a hand-off is finished by the context    *)
(* that follows it, a queued task is elected, and a condemned task is      *)
(* brought to its frontier by the IPI of the killer.                       *)
Equite ==
    /\ \A t \in Taches : WF_vars(Avance(t) \/ Meurt(t) \/ Passe(t) \/ Elit(t))
    /\ \A r \in Reveilleurs : WF_vars(ReveilAvance(r))
    /\ WF_vars(TueurAvance)

SpecEquitable == Spec /\ Equite

-----------------------------------------------------------------------------
(* Properties *)

Etapes == {"libre", "ticket", "inscrit", "endort", "relit_condamnee", "relit",
           "dort", "annule", "efface", "meurt", "mort"}

(* The shape of the state. *)
TypeOK ==
    /\ etat \in [Taches -> {"Pret", "Bloque", "Zombie"}]
    /\ cle \in [Taches -> Cles]
    /\ echeance \in [Taches -> {"aucune", "future", "passee"}]
    /\ interruptible \in [Taches -> BOOLEAN] /\ condamnee \in [Taches -> BOOLEAN]
    /\ coeur \in [Taches -> {"dedans", "sort", "dehors"}]
    /\ enFile \in [Taches -> BOOLEAN] /\ passation \in [Taches -> BOOLEAN]
    /\ pc \in [Taches -> Etapes] /\ voulue \in [Taches -> Attente]
    /\ ticket \in [Taches -> Nat] /\ attentes \in [Taches -> Nat]
    /\ generation \in [Files -> Nat] /\ inscrits \in [Files -> SUBSET Taches]
    /\ rv \in [Reveilleurs -> [pc : {"repos", "compte", "balaye", "cas", "publie"},
                               file : Cles, tous : BOOLEAN, i : Taches]]
    /\ tueur \in [pc : {"repos", "lit_coeur", "lit_etat", "lit_attente", "tue", "reveille", "publie"},
                  cible : Taches, surCoeur : BOOLEAN]
    /\ dernierTous \in [Files -> Nat] /\ sortie \in [Files -> BOOLEAN]

(* t sleeps: it will not look at anything before somebody makes it Pret *)
Parquee(t) == etat[t] = "Bloque" /\ (pc[t] = "dort" \/ SurCoeur(t) = FALSE)

(* a waker on queue q has still to try task t *)
Atteindra(r, q, t) ==
    /\ rv[r].file = q
    /\ \/ rv[r].pc = "compte"
       \/ rv[r].pc \in {"balaye", "cas"} /\ rv[r].i <= t
       \/ rv[r].pc = "publie" /\ rv[r].i < t

(* t does not sleep through a wake_all *)
ReveilArrive(t) ==
    (Parquee(t) /\ SurFile(t) /\ ticket[t] < dernierTous[voulue[t].file]) =>
        \E r \in Reveilleurs : rv[r].tous /\ Atteindra(r, voulue[t].file, t)

(* No wake_all is lost (rendezvous.rs:33-39, attente.rs:23-27): a user task *)
(* that sleeps with a ticket older than the last wake_all on its queue is  *)
(* still ahead of a scan that will wake it, whatever the kernel threads    *)
(* that share the queue do.                                                *)
ReveilTousArrive == \A t \in Taches \ FilsNoyau : ReveilArrive(t)

(* The same of every task, kernel threads included, as attente.rs:26-27    *)
(* states it: "Aucun des deux chemins ne perd le reveil."                  *)
AucunReveilPerdu == \A t \in Taches : ReveilArrive(t)

(* Every parked task keeps a source of wake-up, its key or its deadline    *)
(* (sommeil.rs:216-233, P13_SOMMEIL_SANS_SOURCE_V1), wherever a preemption *)
(* took it off its core.                                                   *)
SourceDeReveil ==
    \A t \in Taches :
        (etat[t] = "Bloque" /\ coeur[t] # "dedans") => (cle[t] # Nulle \/ echeance[t] # "aucune")

(* A condemnation is never lost (cycle_vie.rs:42-49, test_cycle_vie.rs:33): *)
(* a condemned task does not sleep in an interruptible wait unless the     *)
(* killer has not finished with it.                                        *)
CondamneeNeDortPas ==
    \A t \in Taches :
        (condamnee[t] /\ Parquee(t) /\ voulue[t].interruptible) =>
            (tueur.cible = t /\ tueur.pc \in {"lit_coeur", "lit_etat", "lit_attente", "tue", "reveille"})

(* A task that is Pret off its core is in a run queue, or whoever made it  *)
(* Pret, or the hand-off that freed its core, has still to publish it (no  *)
(* [SCHED-ORPHELINE], courant.rs:437-444).                                 *)
PasOrpheline ==
    \A t \in Taches :
        (etat[t] = "Pret" /\ coeur[t] = "dehors") =>
            \/ enFile[t] \/ passation[t]
            \/ \E r \in Reveilleurs : rv[r].pc = "publie" /\ rv[r].i = t
            \/ tueur.pc = "publie" /\ tueur.cible = t

(* blocage.rs:256-262: a wake_one spent on a task that has just changed    *)
(* queue does no harm.  When wake_one is over and a user task that was     *)
(* waiting then still sleeps on the queue, another waiter has left the     *)
(* queue since the signal, or is about to, and checks the condition again. *)
ReveilUnUtile ==
    \A q \in Files :
        (\E t \in Taches \ FilsNoyau : Parquee(t) /\ voulue[t].file = q /\ ticket[t] < generation[q]) =>
            \/ sortie[q]
            \/ \E r \in Reveilleurs : rv[r].file = q /\ rv[r].pc # "repos"
            \/ \E t \in inscrits[q] : etat[t] # "Bloque"

(* cycle_vie.rs:39-40: the killer itself writes Zombie only to a task      *)
(* parked in an interruptible wait, one that holds nothing.                *)
TueeSurPlace ==
    \A t \in Taches :
        (etat[t] = "Zombie" /\ pc[t] = "dort") => voulue[t].interruptible

(* P1 of test_cycle_vie.rs: Zombie is absorbing, although a killed task    *)
(* may still be executing the end of its wait.                             *)
ZombieAbsorbant == [][\A t \in Taches : etat[t] = "Zombie" => etat'[t] = "Zombie"]_vars

(* P3 of test_cycle_vie.rs: a condemned task dies in the end, unless it    *)
(* sleeps in a wait that is not interruptible, which its event must end    *)
(* first (AttendSonEvenement).                                             *)
CondamneeMeurt ==
    \A t \in Taches :
        condamnee[t] ~> (etat[t] = "Zombie" \/ (Parquee(t) /\ ~voulue[t].interruptible))

(* A waiter that a wake_all finds asleep leaves its wait, or dies in it. *)
ReveilTousAboutit ==
    \A t \in Taches :
        (Parquee(t) /\ SurFile(t) /\ ticket[t] < dernierTous[voulue[t].file])
            ~> (pc[t] = "libre" \/ etat[t] = "Zombie")

=============================================================================
