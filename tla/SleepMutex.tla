----------------------------- MODULE SleepMutex -----------------------------
(***************************************************************************)
(* The task-blocking mutex (src/kernel/sync/sleep_mutex.rs) on top of the  *)
(* wait queue of Parking: lock() is a CAS, then a non-interruptible wait   *)
(* on the queue of the mutex; dropping the guard frees the mutex and then  *)
(* calls wake_one.  The task that unlocks is the waker.                    *)
(***************************************************************************)
EXTENDS Parking

CONSTANTS Mutex,        \* the wait queue of the mutex
          Bruit,        \* a context that delivers signals to sleeping tasks
          MaxPrises     \* bound: lock() calls

ASSUME MutexAssumption ==
    /\ Files = {Mutex}
    /\ Reveilleurs = Taches \cup {Bruit}
    /\ Bruit \notin Taches
    /\ FilsNoyau = {} /\ Condamnables = {}   \* user tasks, which only die outside lock()
    /\ MaxPrises \in Nat

VARIABLES locked,       \* AtomicBool
          mx,           \* where a task is in lock() or in the drop of its guard
          prises        \* lock() calls so far

mvars == <<vars, locked, mx, prises>>

MInit == Init /\ locked = FALSE /\ mx = [t \in Taches |-> "hors"] /\ prises = 0

MVers(t, p) == mx' = [mx EXCEPT ![t] = p]

(* the CAS at the head of the loop *)
Cas(t) ==
    /\ A(t, "libre")
    /\ locked' = TRUE
    /\ MVers(t, IF locked THEN "billet" ELSE "tient")
    /\ UNCHANGED vars

(* lock() is called *)
Demande(t) ==
    /\ mx[t] = "hors" /\ prises < MaxPrises /\ Cas(t)
    /\ prises' = prises + 1

(* the lock was seen free, or wait_noyau() has returned: the CAS again *)
Essaie(t) == mx[t] \in {"essaie", "attend"} /\ Cas(t) /\ UNCHANGED prises

Billet(t) ==
    /\ mx[t] = "billet"
    /\ Ticket(t, Mutex, FALSE, FALSE) /\ MVers(t, "relit")
    /\ UNCHANGED <<attentes, locked, prises>>

(* wrong variant: waits without looking at the lock again *)
RelitVerrouJamais(t) ==
    /\ A(t, "ticket") /\ mx[t] = "relit"
    /\ MVers(t, "attend") /\ UNCHANGED vars
    /\ UNCHANGED <<locked, prises>>

(* wrong variant: takes a lock it saw free, without the CAS *)
RelitVerrouPrend(t) ==
    /\ A(t, "ticket") /\ mx[t] = "relit"
    /\ IF locked THEN MVers(t, "attend") /\ UNCHANGED vars
                 ELSE MVers(t, "tient") /\ Revient(t) /\ UNCHANGED <<partage, file, temoins>>
    /\ UNCHANGED <<locked, prises>>

(* the lock is read again AFTER the ticket: free, the wait is skipped *)
RelitVerrou(t) ==
    /\ A(t, "ticket") /\ mx[t] = "relit"
    /\ IF locked THEN MVers(t, "attend") /\ UNCHANGED vars
                 ELSE /\ MVers(t, "essaie") /\ Revient(t)
                      /\ UNCHANGED <<partage, file, temoins>>
    /\ UNCHANGED <<locked, prises>>

(* wait_noyau() *)
Patiente(t) == mx[t] = "attend" /\ Avance(t) /\ UNCHANGED <<mx, locked, prises>>

(* wrong variant: frees the mutex and wakes nobody *)
LibereMuet(t) ==
    /\ A(t, "libre") /\ mx[t] = "tient"
    /\ locked' = FALSE /\ MVers(t, "hors")
    /\ UNCHANGED <<vars, prises>>

(* the guard is dropped: the store ... *)
Libere(t) ==
    /\ A(t, "libre") /\ mx[t] = "tient"
    /\ locked' = FALSE /\ MVers(t, "signale")
    /\ UNCHANGED <<vars, prises>>

(* ... then wake_one *)
Eveille(t) ==
    /\ A(t, "libre")
    /\ \/ mx[t] = "signale" /\ Signale(t, Mutex, FALSE)
       \/ mx[t] = "eveille" /\ ReveilAvance(t)
    /\ MVers(t, IF rv'[t].pc = "repos" THEN "hors" ELSE "eveille")
    /\ UNCHANGED <<locked, prises>>

(* cores, and signals, which may wake a contender at any point.  A user    *)
(* task is preempted and dies in user space only, outside lock(); to a     *)
(* contender in lock(), a killer is one more spurious wake-up.             *)
Autour(t) ==
    /\ Cede(t) \/ Passe(t) \/ Elit(t) \/ ReveilSignal(Bruit, t)
    /\ UNCHANGED <<locked, mx, prises>>

Verrou(t) == Essaie(t) \/ Billet(t) \/ RelitVerrou(t) \/ Patiente(t) \/ Libere(t) \/ Eveille(t)

MNext == \/ \E t \in Taches : Demande(t) \/ Verrou(t) \/ Autour(t)
         \/ ReveilAvance(Bruit) /\ UNCHANGED <<locked, mx, prises>>

MSpec == MInit /\ [][MNext]_mvars

(* What a task has to do next is done: its core executes it, the context   *)
(* that follows it ends its hand-off, it is elected when it is queued.     *)
MEquite ==
    /\ \A t \in Taches :
          WF_mvars(Verrou(t) \/ ((Passe(t) \/ Elit(t)) /\ UNCHANGED <<locked, mx, prises>>))
    /\ WF_mvars(ReveilAvance(Bruit) /\ UNCHANGED <<locked, mx, prises>>)

MSpecEquitable == MSpec /\ MEquite

-----------------------------------------------------------------------------

(* Nobody sleeps in front of a free mutex: while a task is parked on it,   *)
(* the mutex is held, or an unlock has still to wake somebody, or a        *)
(* contender is awake and goes back to the CAS (its own unlock will wake   *)
(* the next one).  This holds although wake_one may be spent on a task     *)
(* that a signal woke first.                                               *)
PasDAttenteVaine ==
    (\E t \in Taches : Parquee(t)) =>
        \/ locked
        \/ \E t \in Taches : mx[t] \in {"signale", "eveille"}
        \/ \E t \in Taches : mx[t] \in {"essaie", "billet", "relit", "attend"} /\ ~Parquee(t)

(* The guard is exclusive, and the lock is held exactly by its owner. *)
Exclusion ==
    \A t \in Taches : mx[t] = "tient" => locked /\ \A u \in Taches \ {t} : mx[u] # "tient"

(* A lock() that found the mutex taken gets it once the tasks stop calling *)
(* lock().  Stated for the last task of the registry, which every scan of  *)
(* wake_one reaches after all the others.  Nothing is promised while the   *)
(* calls go on: the mutex is taken by whoever runs the CAS first, and a    *)
(* task that locks in a loop may overtake a woken contender each time      *)
(* (sleep_mutex.rs:33-47 keeps no order).                                  *)
PlusDAppels == <>[][\A t \in Taches : ~Demande(t)]_mvars

VerrouObtenu == PlusDAppels => (mx[N] = "billet" ~> mx[N] = "tient")

=============================================================================
