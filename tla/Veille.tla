-------------------------------- MODULE Veille --------------------------------
(***************************************************************************)
(* Waiting on native objects, and the death of a process they watch        *)
(* (src/kernel/native: waitset.rs, activite.rs, event.rs, process.rs,      *)
(* waitset_wait and process_spawn of abi/dispatch.rs; the exit path of     *)
(* process/thread/lifecycle.rs).  A supervisor launches a child, watches   *)
(* its channel, its process object and an event, and waits; the child      *)
(* talks, then dies by itself or is killed while it is in a call.  Every   *)
(* object has a lock of its own; a signal is raised under it and published *)
(* on ONE wait source afterwards.  The wait queue under that source is the *)
(* one of module Parking: here it is its contract, that a wake_all issued  *)
(* after the ticket was taken is not missed.                               *)
(***************************************************************************)
EXTENDS Naturals, FiniteSets

CONSTANTS Ensembles,     \* what the wait set may hold: sets of "canal", "evt", "proc"
          MaxFile,       \* MAX_QUEUED_MESSAGES
          MaxMontees     \* bound: sends and event signals

ASSUME VeilleAssumption ==
    /\ Ensembles \subseteq SUBSET {"canal", "evt", "proc"}
    /\ MaxFile \in Nat \ {0} /\ MaxMontees \in Nat

VARIABLES
    gen, file,     \* WaitSource: its generation, the generation of its queue
    surveilles,    \* WaitSet.watches
    att,           \* the supervisor: step, ticket, objects still to poll, signals found
    recu, envoye,  \* messages queued for the supervisor, for the child
    ferme,         \* the child's endpoint is dropped
    evt,           \* Event.signaled
    vie,           \* the child: lifecycle, then how far its death has gone
    enfant,        \* the child's thread: in a call it holds its endpoint
    registre, touche, termine,  \* WATCHED holds the ProcessState; note_exit found it; its flag
    pub,           \* per actor: how far its last publication is
    montees

objets == <<recu, envoye, ferme, evt>>
mort == <<vie, registre, touche, termine>>
vars == <<surveilles, gen, file, att, objets, mort, enfant, pub, montees>>

Acteurs == {"enfant", "autre", "mort"}

Init ==
    /\ surveilles \in Ensembles
    /\ gen = 0 /\ file = 0
    /\ att = [pas |-> "lance", gen |-> 0, file |-> 0, reste |-> {}, vus |-> {}]
    /\ recu = 0 /\ envoye = 0 /\ ferme = FALSE /\ evt = FALSE
    /\ vie = "absent" /\ enfant = "repos"
    /\ registre = FALSE /\ touche = FALSE /\ termine = FALSE
    /\ pub = [a \in Acteurs |-> "faite"] /\ montees = 0

Pas(p) == att.pas = p
Va(p) == att' = [att EXCEPT !.pas = p]

----------------------------------------------------------------------------
(* activite::publie, WaitSource::signal_all: the generation, then the      *)
(* queue.  An actor publishes after it has released the object's lock.     *)
Publie(a) == pub' = [pub EXCEPT ![a] = "due"]

AvanceGeneration(a) ==
    /\ pub[a] = "due" /\ pub' = [pub EXCEPT ![a] = "avancee"]
    /\ gen' = gen + 1
    /\ UNCHANGED <<surveilles, file, att, objets, mort, enfant, montees>>

WakeAll(a) ==
    /\ pub[a] = "avancee" /\ pub' = [pub EXCEPT ![a] = "faite"]
    /\ file' = file + 1
    /\ att' = [att EXCEPT !.pas = IF @ = "garee" THEN "ticket" ELSE @]
    /\ UNCHANGED <<surveilles, gen, objets, mort, enfant, montees>>

(* Object::signals *)
Signaux(o) ==
    CASE o = "canal" -> {s \in {"READABLE", "WRITABLE", "PEER_CLOSED"} :
                            \/ s = "READABLE" /\ recu > 0
                            \/ s = "WRITABLE" /\ ~ferme /\ envoye < MaxFile
                            \/ s = "PEER_CLOSED" /\ ferme}
      [] o = "evt"  -> {s \in {"SIGNALED"} : evt}
      [] o = "proc" -> {s \in {"TERMINATED"} : termine}

----------------------------------------------------------------------------
(* process_spawn: the child runs before its process object exists; suit    *)
(* registers the object first, then reads whether the child is dead.       *)
Lance ==
    /\ Pas("lance") /\ Va("suit") /\ vie' = "vivant"
    /\ UNCHANGED <<surveilles, gen, file, objets, registre, touche, termine, enfant, pub, montees>>

Lu == termine \/ vie # "vivant"

Suit ==
    /\ Pas("suit") /\ Va("lit") /\ registre' = TRUE
    /\ UNCHANGED <<surveilles, gen, file, objets, vie, touche, termine, enfant, pub, montees>>

SuitLit ==
    /\ Pas("lit") /\ Va("repos") /\ termine' = Lu
    /\ UNCHANGED <<surveilles, gen, file, objets, vie, registre, touche, enfant, pub, montees>>

----------------------------------------------------------------------------
(* waitset_wait: ticket, poll, and only then sleep *)
Attend ==
    /\ Pas("repos") /\ Va("ticket")
    /\ UNCHANGED <<surveilles, gen, file, objets, mort, enfant, pub, montees>>

PrendTicket ==
    /\ Pas("ticket")
    /\ att' = [pas |-> "sonde", gen |-> gen, file |-> file, reste |-> surveilles, vus |-> {}]
    /\ UNCHANGED <<surveilles, gen, file, objets, mort, enfant, pub, montees>>

(* WaitSet::poll, one object and its lock at a time *)
Sonde ==
    /\ Pas("sonde")
    /\ \E o \in att.reste :
          att' = [att EXCEPT !.reste = @ \ {o}, !.vus = @ \cup Signaux(o)]
    /\ UNCHANGED <<surveilles, gen, file, objets, mort, enfant, pub, montees>>

(* wrong variant: the ticket is taken after the poll *)
SondeFiniRetarde ==
    /\ Pas("sonde") /\ att.reste = {}
    /\ att' = [att EXCEPT !.pas = IF att.vus # {} THEN "rend" ELSE "verifie", !.gen = gen, !.file = file]
    /\ UNCHANGED <<surveilles, gen, file, objets, mort, enfant, pub, montees>>

SondeFini ==
    /\ Pas("sonde") /\ att.reste = {}
    /\ Va(IF att.vus # {} THEN "rend" ELSE "verifie")
    /\ UNCHANGED <<surveilles, gen, file, objets, mort, enfant, pub, montees>>

(* WaitSource::wait_until: the generation is read again, then the queue's  *)
Verifie ==
    /\ Pas("verifie") /\ Va(IF gen # att.gen THEN "ticket" ELSE "gare")
    /\ UNCHANGED <<surveilles, gen, file, objets, mort, enfant, pub, montees>>

Gare ==
    /\ Pas("gare") /\ Va(IF file # att.file THEN "ticket" ELSE "garee")
    /\ UNCHANGED <<surveilles, gen, file, objets, mort, enfant, pub, montees>>

(* the 20 ms slice ends: another turn, the deadline, or a POSIX signal *)
Tranche ==
    /\ Pas("garee") /\ att' \in {[att EXCEPT !.pas = p, !.vus = {}] : p \in {"ticket", "rend"}}
    /\ UNCHANGED <<surveilles, gen, file, objets, mort, enfant, pub, montees>>

(* the supervisor handles what it was told: it drains its channel *)
Rend ==
    /\ Pas("rend") /\ Va("repos")
    /\ recu' = IF "READABLE" \in att.vus THEN 0 ELSE recu
    /\ UNCHANGED <<surveilles, gen, file, envoye, ferme, evt, mort, enfant, pub, montees>>

----------------------------------------------------------------------------
(* Another thread of the supervisor: sends to the child, sets the event.   *)
Monte(a) == /\ pub[a] = "faite" /\ montees < MaxMontees /\ montees' = montees + 1

EnvoieAEnfant ==
    /\ Monte("autre") /\ ~ferme /\ envoye < MaxFile
    /\ envoye' = envoye + 1 /\ Publie("autre")
    /\ UNCHANGED <<surveilles, gen, file, att, recu, ferme, evt, mort, enfant>>

Signale ==
    /\ Monte("autre") /\ evt' = TRUE /\ Publie("autre")
    /\ UNCHANGED <<surveilles, gen, file, att, recu, envoye, ferme, mort, enfant>>

Reset ==
    /\ pub["autre"] = "faite" /\ evt /\ evt' = FALSE
    /\ UNCHANGED <<surveilles, gen, file, att, recu, envoye, ferme, mort, enfant, pub, montees>>

----------------------------------------------------------------------------
(* The child's thread.  A call looks its endpoint up and holds it.         *)
EnfantEntre ==
    /\ vie = "vivant" /\ enfant = "repos" /\ pub["enfant"] = "faite"
    /\ enfant' = "appel"
    /\ UNCHANGED <<surveilles, gen, file, att, objets, mort, pub, montees>>

EnfantEnvoie ==
    /\ enfant = "appel" /\ Monte("enfant") /\ recu < MaxFile
    /\ recu' = recu + 1 /\ enfant' = "sort" /\ Publie("enfant")
    /\ UNCHANGED <<surveilles, gen, file, att, envoye, ferme, evt, mort>>

(* recv makes room in the queue, and publishes nothing *)
EnfantRecoit ==
    /\ enfant = "appel" /\ envoye > 0
    /\ envoye' = envoye - 1 /\ enfant' = "sort"
    /\ UNCHANGED <<surveilles, gen, file, att, recu, ferme, evt, mort, pub, montees>>

(* the call returns, done or refused; if the table is gone meanwhile, the  *)
(* endpoint it held was the last reference, and is dropped here            *)
EnfantSort ==
    /\ enfant \in {"appel", "sort"} /\ pub["enfant"] = "faite" /\ enfant' = "repos"
    /\ IF vie \in {"absent", "vivant", "zombie"} THEN UNCHANGED <<ferme, pub>>
       ELSE ferme' = TRUE /\ Publie("enfant")
    /\ UNCHANGED <<surveilles, gen, file, att, recu, envoye, evt, mort, montees>>

----------------------------------------------------------------------------
(* The death, by exit (outside a call) or by tue_processus (anywhere):     *)
(* zombie, then the handles, then the process objects.                     *)
MortZombie ==
    /\ vie = "vivant" /\ vie' = "zombie"
    /\ UNCHANGED <<surveilles, gen, file, att, objets, registre, touche, termine, enfant, pub, montees>>

(* wrong variant: the handles are not released before the notice *)
MortLibereRien ==
    /\ vie = "zombie" /\ vie' = "libere"
    /\ UNCHANGED <<surveilles, gen, file, att, objets, registre, touche, termine, enfant, pub, montees>>

(* release_process *)
MortLibere ==
    /\ vie = "zombie" /\ vie' = "libere"
    /\ IF enfant = "repos" THEN ferme' = TRUE /\ Publie("mort") ELSE UNCHANGED <<ferme, pub>>
    /\ UNCHANGED <<surveilles, gen, file, att, recu, envoye, evt, registre, touche, termine, enfant, montees>>

(* note_exit: the scan of WATCHED under its lock, then the mark *)
MortCherche ==
    /\ vie = "libere" /\ pub["mort"] = "faite" /\ vie' = "cherche" /\ touche' = registre
    /\ UNCHANGED <<surveilles, gen, file, att, objets, registre, termine, enfant, pub, montees>>

(* wrong variant: the mark is not published *)
MortNoteMuette ==
    /\ vie = "cherche" /\ vie' = "notee"
    /\ termine' = (termine \/ touche)
    /\ UNCHANGED <<surveilles, gen, file, att, objets, registre, touche, enfant, pub, montees>>

MortNote ==
    /\ vie = "cherche" /\ vie' = "notee"
    /\ termine' = (termine \/ touche)
    /\ IF touche THEN Publie("mort") ELSE UNCHANGED pub
    /\ UNCHANGED <<surveilles, gen, file, att, objets, registre, touche, enfant, montees>>

Attente == PrendTicket \/ Sonde \/ SondeFini \/ Verifie \/ Gare \/ Rend
Mort == MortZombie \/ MortLibere \/ MortCherche \/ MortNote
Publication == \E a \in Acteurs : AvanceGeneration(a) \/ WakeAll(a)

Next == \/ Lance \/ Suit \/ SuitLit \/ Attend \/ Attente \/ Tranche
        \/ EnvoieAEnfant \/ Signale \/ Reset
        \/ EnfantEntre \/ EnfantEnvoie \/ EnfantRecoit \/ EnfantSort
        \/ Mort \/ Publication

Spec == Init /\ [][Next]_vars

(* Threads run: the supervisor, the publications and a death begun go on.  *)
(* Nothing is assumed of the slice: the wake-ups must do without it.       *)
FairSpec ==
    /\ Spec
    /\ WF_vars(Lance \/ Suit \/ SuitLit) /\ WF_vars(Attend \/ Attente)
    /\ \A a \in Acteurs : WF_vars(AvanceGeneration(a) \/ WakeAll(a))
    /\ WF_vars(MortLibere \/ MortCherche \/ MortNote) /\ WF_vars(EnfantSort)

----------------------------------------------------------------------------
(* Types; a queue never passes its limit and a ticket is never ahead of    *)
(* the source it was taken from.                                           *)
TypeOK ==
    /\ surveilles \in Ensembles
    /\ gen \in Nat /\ file \in 0..gen
    /\ att \in [pas : {"lance", "suit", "lit", "repos", "ticket", "sonde", "verifie", "gare", "garee", "rend"},
                gen : 0..gen, file : 0..file, reste : SUBSET surveilles,
                vus : SUBSET {"READABLE", "WRITABLE", "PEER_CLOSED", "SIGNALED", "TERMINATED"}]
    /\ recu \in 0..MaxFile /\ envoye \in 0..MaxFile
    /\ vie \in {"absent", "vivant", "zombie", "libere", "cherche", "notee"}
    /\ enfant \in {"repos", "appel", "sort"}
    /\ {ferme, evt, registre, touche, termine} \subseteq BOOLEAN
    /\ pub \in [Acteurs -> {"due", "avancee", "faite"}] /\ montees \in 0..MaxMontees

(* activite.rs:10-15.  A waiter sleeps only while no signal that some      *)
(* operation publishes is up, unless its publication is still under way.   *)
(* WRITABLE is not one of them: the receive that raises it is silent.      *)
PasDeReveilPerdu ==
    (Pas("garee") /\ \A a \in Acteurs : pub[a] = "faite")
        => UNION {Signaux(o) : o \in surveilles} \subseteq {"WRITABLE"}

(* lifecycle.rs:1060-1062, as far as the code keeps it: a supervisor told  *)
(* TERMINATED finds the channel of the dead closed, but while a thread of  *)
(* the dead finishes a call on it, or when spawn itself read the death     *)
(* between the zombie mark and the release of the handles.                 *)
FermeAvantTermine == (termine /\ ~ferme) => (vie = "zombie" \/ enfant # "repos")

(* process.rs:10-15, the lost-exit rule.  Whatever the order in which       *)
(* spawn's registration and the death met, and without the help of the     *)
(* slice, a supervisor that keeps waiting on the process object is told    *)
(* TERMINATED.                                                             *)
MortRapportee == (vie = "notee" /\ "proc" \in surveilles) ~> ("TERMINATED" \in att.vus)

(* docs/current/NATIVE_ABI.md section 5, lifecycle.rs:1061: "quand         *)
(* TERMINATED est visible, les canaux du mort sont deja fermes".           *)
TermineVeutDireFerme == termine => ferme

(* userland/services/healthd/healthd.c:19, "healthd never busy-waits: it   *)
(* blocks in bo_waitset_wait": a wait that returns found something to do.  *)
NeTournePas == (Pas("rend") /\ att.vus # {}) => att.vus # {"WRITABLE"}

=============================================================================
