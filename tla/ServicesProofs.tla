--------------------------- MODULE ServicesProofs ---------------------------
(***************************************************************************)
(* Proofs about serviced (module Services): its types with the rule of the *)
(* handles, the crash budget and the health contract, for any number of    *)
(* services, any dependencies and any constants.                           *)
(*                                                                         *)
(* The first part says what each half of a turn makes of one service; a    *)
(* turn is that, service by service.  The three invariants follow:         *)
(* FichesInv, the records; SanteInv, what an open health window says of    *)
(* the services; BudgetInv, how the ring of deaths reflects the deaths     *)
(* that really happened within the window.                                 *)
(***************************************************************************)
EXTENDS Services, FiniteSetTheorems, FunctionTheorems, SequenceTheorems, WellFoundedInduction, TLAPS

Enfants == {"absent", "vivant", "pendu", "condamne", "mort"}
Tenues == {"Starting", "Running", "Degraded", "Stopping"}
Phases == {"StartingServices", "Healthy", "Degraded", "RecoveryRequired"}
Fiches == [state : Etats, tenu : BOOLEAN, deaths : [Ring -> -1..BUDGET_WINDOW], indice : Ring,
           backoff : 0..BACKOFF_MAX, restart : Int, stop : Int, ping : Int, pong : Int,
           missed : 0..HEARTBEAT_MISSES, killed : BOOLEAN, want : BOOLEAN]

(* a service that was not killed may still miss a ping *)
FicheOK(r) ==
    /\ r \in Fiches /\ (r.tenu <=> r.state \in Tenues)
    /\ ~r.killed => r.missed < HEARTBEAT_MISSES

FichesInv ==
    /\ svc \in [Tous -> Fiches] /\ enfant \in [Tous -> Enfants]
    /\ \A s \in Tous : FicheOK(svc[s]) /\ (svc[s].tenu <=> enfant[s] # "absent")
    /\ sys \in Phases /\ committed \in BOOLEAN /\ fautes \in 0..MaxFautes

(* how many deaths ago slot i of the ring was written, n being the next to be *)
Recul(i, n) == IF i < n THEN n - 1 - i ELSE n + BUDGET_RESTARTS - i

(* the ring holds the deaths p of the window, the last one just behind indice *)
Anneau(r, p) ==
    /\ p \in Seq(0..BUDGET_WINDOW) /\ Len(p) <= BUDGET_RESTARTS + 1
    /\ \A i, j \in 1..Len(p) : i < j => p[j] <= p[i]
    /\ \A i \in Ring : r.deaths[i] = IF Recul(i, r.indice) < Len(p) THEN p[Len(p) - Recul(i, r.indice)] ELSE Aucun
    /\ Len(p) > BUDGET_RESTARTS => r.state = "Failed" \/ (r.state = "Stopped" /\ ~r.want)

BudgetInv == passees \in [Tous -> Seq(0..BUDGET_WINDOW)] /\ \A s \in Tous : Anneau(svc[s], passees[s])

(* while the health window is open every service runs, and has for at least as long *)
SanteInv ==
    /\ tourne \in [Tous -> -1..HEALTH_WINDOW] /\ healthy_since \in -1..HEALTH_WINDOW
    /\ \A s \in Tous : svc[s].state = "Running" => tourne[s] # Aucun
    /\ mode = "system" /\ sys # "RecoveryRequired" /\ healthy_since # Aucun =>
          \A s \in Tous : svc[s].state = "Running" /\ healthy_since <= tourne[s]

----------------------------------------------------------------------------
(* What the parts of a turn do to a service *)

LEMMA Constantes ==
    /\ N \in Nat \ {0} /\ DependDe \in [Tous -> 0..N] /\ MaxFautes \in Nat
    /\ BUDGET_RESTARTS \in Nat \ {0} /\ BUDGET_WINDOW \in Nat \ {0} /\ BACKOFF_MIN \in Nat \ {0} /\ BACKOFF_MAX \in Nat \ {0}
    /\ HEARTBEAT_PERIOD \in Nat \ {0} /\ HEARTBEAT_MISSES \in Nat \ {0} /\ STOP_GRACE \in Nat \ {0}
    /\ HEALTH_WINDOW \in Nat \ {0} /\ HEALTH_DEADLINE \in Nat \ {0}
  BY ServicesAssumption DEF Tous

(* on_message: Running, or what it was. *)
LEMMA OnMessageFaits ==
    ASSUME NEW s, FicheOK(svc[s])
    PROVE  LET r == svc[s]
               m == OnMessage(s) IN
           /\ FicheOK(m) /\ m.tenu = r.tenu /\ m.deaths = r.deaths /\ m.indice = r.indice /\ m.want = r.want
           /\ m.state = r.state \/ (m.state = "Running" /\ r.state \in {"Starting", "Degraded"})
<1> DEFINE r == svc[s]
           a == [r EXCEPT !.state = "Running", !.pong = 0, !.backoff = 0]
           c == IF r.state = "Degraded" THEN "Running" ELSE r.state
           b == [r EXCEPT !.ping = Aucun, !.pong = 0, !.missed = 0, !.state = c]
           Bien(m) == /\ FicheOK(m) /\ m.tenu = r.tenu /\ m.deaths = r.deaths /\ m.indice = r.indice /\ m.want = r.want
                      /\ m.state = r.state \/ (m.state = "Running" /\ r.state \in {"Starting", "Degraded"})
<1>1. \/ r.state = "Starting" /\ OnMessage(s) = a
      \/ OnMessage(s) = b
      \/ OnMessage(s) = r
  BY DEF OnMessage
<1>2. r \in Fiches /\ (r.tenu <=> r.state \in Tenues) /\ (~r.killed => r.missed < HEARTBEAT_MISSES)
  BY DEF FicheOK
<1> HIDE DEF r
<1>3. ASSUME r.state = "Starting" PROVE Bien(a)
  <2>1. a \in Fiches
    <3>1. "Running" \in Etats /\ 0 \in Int /\ 0 \in 0..BACKOFF_MAX
      BY Constantes DEF Etats
    <3> QED BY <1>2, <3>1 DEF Fiches
  <2>2. /\ a.state = "Running" /\ a.tenu = r.tenu /\ a.deaths = r.deaths /\ a.indice = r.indice /\ a.want = r.want
        /\ a.killed = r.killed /\ a.missed = r.missed
    BY <1>2 DEF Fiches
  <2> HIDE DEF a
  <2> QED BY <1>2, <1>3, <2>1, <2>2 DEF FicheOK, Tenues
<1>4. Bien(b)
  <2>1. c \in Etats
    BY <1>2 DEF Fiches, Etats
  <2>2. (c \in Tenues <=> r.state \in Tenues) /\ (c = r.state \/ (c = "Running" /\ r.state \in {"Starting", "Degraded"}))
    BY DEF Tenues
  <2> HIDE DEF c
  <2>3. b \in Fiches
    <3>1. Aucun \in Int /\ 0 \in Int /\ 0 \in 0..HEARTBEAT_MISSES
      BY Constantes DEF Aucun
    <3> QED BY <1>2, <2>1, <3>1 DEF Fiches
  <2>4. /\ b.state = c /\ b.tenu = r.tenu /\ b.deaths = r.deaths /\ b.indice = r.indice /\ b.want = r.want
        /\ b.killed = r.killed /\ b.missed = 0
    BY <1>2 DEF Fiches
  <2> HIDE DEF b
  <2> QED BY <1>2, <2>2, <2>3, <2>4, Constantes DEF FicheOK
<1>5. Bien(r)
  BY <1>2 DEF FicheOK
<1> HIDE DEF a, b
<1>6. Bien(OnMessage(s))
  <2> HIDE DEF Bien
  <2> QED BY <1>1, <1>3, <1>4, <1>5
<1> QED BY <1>6 DEF r

(* A remainder, at the end of the ring. *)
LEMMA IndiceFaits ==
    ASSUME NEW i \in Ring
    PROVE  IndiceSuivant(i) = (IF i = BUDGET_RESTARTS THEN 0 ELSE i + 1) /\ IndiceSuivant(i) \in Ring
<1> DEFINE n == BUDGET_RESTARTS + 1
           q == (i + 1) \div n
           r == (i + 1) % n
<1>1. n \in Nat \ {0} /\ i \in 0..(n - 1)
  BY Constantes DEF Ring
<1> HIDE DEF n
<1>2. q \in Int /\ r \in 0..(n - 1) /\ i + 1 = n * q + r
  BY <1>1
<1> HIDE DEF q, r
<1>3. q >= 0
  <2>1. SUFFICES ASSUME q <= -1 PROVE FALSE
    BY <1>2
  <2>2. n * q <= n * (-1)
    BY <1>1, <1>2, <2>1
  <2> QED BY <1>1, <1>2, <2>2
<1>4. q <= 1
  <2>1. SUFFICES ASSUME q >= 2 PROVE FALSE
    BY <1>2
  <2>2. n * q >= n * 2
    BY <1>1, <1>2, <2>1
  <2> QED BY <1>1, <1>2, <2>2
<1>5. IndiceSuivant(i) = r /\ n = BUDGET_RESTARTS + 1
  BY DEF IndiceSuivant, n, r
<1>6. CASE q = 0
  <2>1. i + 1 = r
    BY <1>1, <1>2, <1>6
  <2> QED BY <1>1, <1>2, <1>5, <2>1, Constantes DEF Ring
<1>7. CASE q = 1
  <2>1. r = 0 /\ i + 1 = n
    BY <1>1, <1>2, <1>7
  <2> QED BY <1>1, <1>2, <1>5, <2>1, Constantes DEF Ring
<1> QED BY <1>2, <1>3, <1>4, <1>6, <1>7

(* budget_spent. *)
LEMMA NoteMortFaits ==
    ASSUME NEW r \in Fiches
    PROVE  LET d == NoteMort(r) IN
           /\ d \in Fiches /\ d.deaths = [r.deaths EXCEPT ![r.indice] = 0] /\ d.indice = IndiceSuivant(r.indice)
           /\ d.state = r.state /\ d.tenu = r.tenu /\ d.backoff = r.backoff /\ d.missed = r.missed
           /\ d.killed = r.killed /\ d.want = r.want
<1> DEFINE d == NoteMort(r)
           m == [r.deaths EXCEPT ![r.indice] = 0]
           n == IndiceSuivant(r.indice)
<1>1. r.indice \in Ring /\ r.deaths \in [Ring -> -1..BUDGET_WINDOW]
  BY DEF Fiches
<1>2. n \in Ring
  BY <1>1, IndiceFaits
<1>3. m \in [Ring -> -1..BUDGET_WINDOW]
  BY <1>1, Constantes
<1>4. d = [[r EXCEPT !.deaths = m] EXCEPT !.indice = n]
  BY DEF NoteMort, Fiches
<1> HIDE DEF m, n
<1>5. [r EXCEPT !.deaths = m] \in Fiches
  BY <1>3 DEF Fiches
<1>6. d \in Fiches /\ d.deaths = m /\ d.indice = n /\ d.state = r.state /\ d.tenu = r.tenu /\ d.backoff = r.backoff
      /\ d.missed = r.missed /\ d.killed = r.killed /\ d.want = r.want
  BY <1>2, <1>3, <1>4 DEF Fiches
<1> QED BY <1>6 DEF m, n

(* The wait before a restart. *)
LEMMA DoubleFaits ==
    ASSUME NEW b \in 0..BACKOFF_MAX
    PROVE  Double(b) \in 0..BACKOFF_MAX /\ Double(b) # 0 /\ Double(b) \in Int
  BY Constantes DEF Double

(* on_death: the handles go; Stopped if it was asked to, else Failed or Restarting, *)
(* according to the deaths in the ring.                                             *)
LEMMA OnDeathFaits ==
    ASSUME NEW r, FicheOK(r)
    PROVE  LET d == OnDeath(r) IN
           /\ FicheOK(d) /\ d.tenu = FALSE /\ d.want = r.want
           /\ ~Voulue(r) => d.state = "Stopped" /\ d.deaths = r.deaths /\ d.indice = r.indice
           /\ Voulue(r) => /\ d.deaths = [r.deaths EXCEPT ![r.indice] = 0] /\ d.indice = IndiceSuivant(r.indice)
                           /\ Recentes(d) > BUDGET_RESTARTS => d.state = "Failed"
                           /\ ~(Recentes(d) > BUDGET_RESTARTS) => d.state = "Restarting" /\ d.restart # 0
<1> DEFINE q == Relache(r)
           n == NoteMort(q)
           d == OnDeath(r)
<1>1. r \in Fiches /\ (~r.killed => r.missed < HEARTBEAT_MISSES)
  BY DEF FicheOK
<1>2. /\ q \in Fiches /\ q.tenu = FALSE /\ q.want = r.want /\ q.deaths = r.deaths /\ q.indice = r.indice
      /\ q.missed = r.missed /\ q.killed = r.killed /\ q.backoff = r.backoff /\ q.state = r.state
  BY <1>1 DEF Relache, Fiches
<1> HIDE DEF q
<1>3. /\ n \in Fiches /\ n.deaths = [q.deaths EXCEPT ![q.indice] = 0] /\ n.indice = IndiceSuivant(q.indice)
      /\ n.tenu = q.tenu /\ n.backoff = q.backoff /\ n.missed = q.missed /\ n.killed = q.killed /\ n.want = q.want
  BY <1>2, NoteMortFaits
<1> HIDE DEF n
<1>4. CASE ~Voulue(r)
  <2>1. d = [q EXCEPT !.state = "Stopped"]
    BY <1>4 DEF OnDeath, q
  <2>2. /\ d \in Fiches /\ d.state = "Stopped" /\ d.tenu = q.tenu /\ d.want = q.want /\ d.deaths = q.deaths /\ d.indice = q.indice
        /\ d.missed = q.missed /\ d.killed = q.killed
    BY <1>2, <2>1 DEF Fiches, Etats
  <2> HIDE DEF d
  <2> QED BY <1>1, <1>2, <1>4, <2>2 DEF FicheOK, Tenues, d
<1>5. CASE Voulue(r) /\ Recentes(n) > BUDGET_RESTARTS
  <2>1. d = [n EXCEPT !.state = "Failed"]
    BY <1>5 DEF OnDeath, q, n
  <2>2. /\ d \in Fiches /\ d.state = "Failed" /\ d.tenu = n.tenu /\ d.want = n.want /\ d.deaths = n.deaths /\ d.indice = n.indice
        /\ d.missed = n.missed /\ d.killed = n.killed
    BY <1>3, <2>1 DEF Fiches, Etats
  <2>3. Recentes(d) = Recentes(n)
    BY <2>2 DEF Recentes
  <2> HIDE DEF d
  <2> QED BY <1>1, <1>2, <1>3, <1>5, <2>2, <2>3 DEF FicheOK, Tenues, d
<1>6. CASE Voulue(r) /\ ~(Recentes(n) > BUDGET_RESTARTS)
  <2> DEFINE b == Double(n.backoff)
  <2>1. d = [n EXCEPT !.state = "Restarting", !.backoff = b, !.restart = b]
    BY <1>3, <1>6 DEF OnDeath, q, n, Fiches
  <2>2. n.backoff \in 0..BACKOFF_MAX
    BY <1>3 DEF Fiches
  <2>3. b \in 0..BACKOFF_MAX /\ b # 0 /\ b \in Int
    BY <2>2, DoubleFaits
  <2> HIDE DEF b
  <2>4. /\ d \in Fiches /\ d.state = "Restarting" /\ d.tenu = n.tenu /\ d.want = n.want /\ d.deaths = n.deaths /\ d.indice = n.indice
        /\ d.missed = n.missed /\ d.killed = n.killed /\ d.restart = b
    BY <1>3, <2>1, <2>3 DEF Fiches, Etats
  <2>5. Recentes(d) = Recentes(n)
    BY <2>4 DEF Recentes
  <2> HIDE DEF d
  <2> QED BY <1>1, <1>2, <1>3, <1>6, <2>3, <2>4, <2>5 DEF FicheOK, Tenues, d
<1> QED BY <1>4, <1>5, <1>6

(* heartbeat: a service that runs may become Degraded, killed; nothing else changes. *)
LEMMA HeartbeatFaits ==
    ASSUME NEW r, FicheOK(r), NEW n \in Enfants, r.tenu <=> n # "absent", NEW o, NEW p
    PROVE  LET x == [svc |-> r, enfant |-> n, ordres |-> o, reponses |-> p]
               h == Heartbeat(x) IN
           /\ FicheOK(h.svc) /\ h.enfant \in Enfants /\ (h.svc.tenu <=> h.enfant # "absent")
           /\ h.svc.tenu = r.tenu /\ h.svc.deaths = r.deaths /\ h.svc.indice = r.indice /\ h.svc.want = r.want
           /\ h.svc.state = r.state \/ (h.svc.state = "Degraded" /\ r.state = "Running")
<1> DEFINE x == [svc |-> r, enfant |-> n, ordres |-> o, reponses |-> p]
           h == Heartbeat(x)
           m == Manques(r)
<1>1. r \in Fiches /\ (r.tenu <=> r.state \in Tenues) /\ (~r.killed => r.missed < HEARTBEAT_MISSES)
  BY DEF FicheOK
<1>2. x.svc = r /\ x.enfant = n
  OBVIOUS
<1>3. CASE ~(Veillee(r) /\ Echue(r))
  <2>1. h = x
    BY <1>2, <1>3 DEF Heartbeat
  <2> HIDE DEF h, x
  <2> QED BY <1>2, <2>1 DEF h, x
<1>4. CASE Veillee(r) /\ Echue(r)
  <2>1. ~r.killed /\ r.state \in {"Running", "Degraded"} /\ r.missed \in 0..(HEARTBEAT_MISSES - 1) /\ r.tenu /\ n # "absent"
    BY <1>1, <1>4, Constantes DEF Veillee, Fiches, Tenues
  <2>2. m \in 0..HEARTBEAT_MISSES
    BY <2>1, Constantes DEF Manques
  <2>3. CASE TropDePertes(r)
    <3> DEFINE v == [r EXCEPT !.missed = m, !.state = "Degraded", !.killed = TRUE]
    <3>1. h.svc = v /\ h.enfant = IF n = "mort" THEN n ELSE "condamne"
      BY <1>1, <1>4, <2>3 DEF Heartbeat, Tue, Fiches
    <3>2. h.enfant \in Enfants /\ h.enfant # "absent"
      BY <2>1, <3>1 DEF Enfants
    <3> HIDE DEF m
    <3>3. v \in Fiches
      <4>1. "Degraded" \in Etats /\ TRUE \in BOOLEAN
        BY DEF Etats
      <4> QED BY <1>1, <2>2, <4>1 DEF Fiches
    <3>4. v.state = "Degraded" /\ v.killed = TRUE /\ v.tenu = r.tenu /\ v.deaths = r.deaths /\ v.indice = r.indice /\ v.want = r.want
      BY <1>1 DEF Fiches
    <3> HIDE DEF v, h
    <3>5. FicheOK(v)
      BY <2>1, <3>3, <3>4 DEF FicheOK, Tenues
    <3> QED BY <2>1, <3>1, <3>2, <3>4, <3>5 DEF h
  <2>4. CASE ~TropDePertes(r)
    <3> DEFINE v == [r EXCEPT !.missed = m, !.ping = 0]
    <3>1. h.svc = v /\ h.enfant = n
      BY <1>1, <1>4, <2>4 DEF Heartbeat, Fiches
    <3>2. m < HEARTBEAT_MISSES
      BY <2>1, <2>4, Constantes DEF TropDePertes, Manques
    <3> HIDE DEF m
    <3>3. v \in Fiches
      <4>1. 0 \in Int
        OBVIOUS
      <4> QED BY <1>1, <2>2, <4>1 DEF Fiches
    <3>4. v.state = r.state /\ v.missed = m /\ v.tenu = r.tenu /\ v.deaths = r.deaths /\ v.indice = r.indice /\ v.want = r.want
      BY <1>1 DEF Fiches
    <3> HIDE DEF v, h
    <3>5. FicheOK(v)
      BY <1>1, <3>2, <3>3, <3>4 DEF FicheOK
    <3> QED BY <2>1, <3>1, <3>4, <3>5 DEF h
  <2> QED BY <2>3, <2>4
<1> QED BY <1>3, <1>4

(* start: a process again, for a service that had none. *)
LEMMA StartFaits ==
    ASSUME NEW r, FicheOK(r)
    PROVE  LET y == Start(r) IN
           /\ FicheOK(y.svc) /\ y.enfant = "vivant" /\ y.svc.tenu = TRUE /\ y.svc.state = "Starting"
           /\ y.svc.deaths = r.deaths /\ y.svc.indice = r.indice /\ y.svc.want = r.want
<1> DEFINE v == [r EXCEPT !.state = "Starting", !.tenu = TRUE, !.ping = Aucun, !.missed = 0, !.killed = FALSE, !.restart = Aucun]
<1>1. r \in Fiches
  BY DEF FicheOK
<1>2. Start(r).svc = v /\ Start(r).enfant = "vivant"
  BY DEF Start
<1>3. v \in Fiches
  <2>1. "Starting" \in Etats /\ TRUE \in BOOLEAN /\ FALSE \in BOOLEAN /\ Aucun \in Int /\ 0 \in 0..HEARTBEAT_MISSES
    BY Constantes DEF Etats, Aucun
  <2> QED BY <1>1, <2>1 DEF Fiches
<1>4. /\ v.state = "Starting" /\ v.tenu = TRUE /\ v.missed = 0 /\ v.deaths = r.deaths /\ v.indice = r.indice /\ v.want = r.want
  BY <1>1 DEF Fiches
<1> HIDE DEF v
<1>5. FicheOK(v)
  BY <1>3, <1>4, Constantes DEF FicheOK, Tenues
<1> QED BY <1>2, <1>4, <1>5

(* The second half of a turn, on one service. *)
Entretenue(r, y, dep) ==
    /\ FicheOK(y.svc) /\ y.enfant \in Enfants /\ (y.svc.tenu <=> y.enfant # "absent")
    /\ y.svc.deaths = r.deaths /\ y.svc.indice = r.indice /\ y.svc.want = r.want
    /\ \/ y.svc.tenu = r.tenu /\ y.svc.state = r.state
       \/ y.svc.tenu = r.tenu /\ y.svc.state = "Degraded" /\ r.state = "Running"
       \/ y.svc.tenu = TRUE /\ y.svc.state = "Starting" /\ Lance(r, dep)

LEMMA EntretienFaits ==
    ASSUME NEW r, FicheOK(r), NEW n \in Enfants, r.tenu <=> n # "absent", NEW o, NEW p, NEW dep \in BOOLEAN, NEW ech \in BOOLEAN
    PROVE  Entretenue(r, Entretien([svc |-> r, enfant |-> n, ordres |-> o, reponses |-> p], dep, ech), dep)
<1> DEFINE x == [svc |-> r, enfant |-> n, ordres |-> o, reponses |-> p]
           y == Entretien(x, dep, ech)
<1>1. x.svc = r /\ x.enfant = n
  OBVIOUS
<1>2. CASE Lance(r, dep)
  <2>1. y = IF ech THEN x ELSE Start(r)
    <3>1. ~Presse(r)
      BY <1>2 DEF Lance, Redemarre, Demarrable, Presse
    <3> QED BY <1>1, <1>2, <3>1 DEF Entretien
  <2> HIDE DEF x, y
  <2>2. CASE ech
    BY <1>1, <2>1, <2>2 DEF x, y, Entretenue
  <2>3. CASE ~ech
    <3>1. y = Start(r)
      BY <2>1, <2>3
    <3> QED BY <1>2, <3>1, StartFaits DEF x, y, Enfants, Entretenue
  <2> QED BY <2>2, <2>3
<1>3. CASE ~Lance(r, dep) /\ Presse(r)
  <2> DEFINE v == [r EXCEPT !.stop = STOP_GRACE]
  <2>1. r \in Fiches /\ (r.tenu <=> r.state \in Tenues) /\ (~r.killed => r.missed < HEARTBEAT_MISSES)
    BY DEF FicheOK
  <2>2. y.svc = v /\ y.enfant = IF n = "mort" THEN n ELSE "condamne"
    BY <1>1, <1>3, <2>1 DEF Entretien, Tue, Fiches
  <2>3. /\ v \in Fiches /\ v.state = r.state /\ v.tenu = r.tenu /\ v.missed = r.missed /\ v.killed = r.killed
        /\ v.deaths = r.deaths /\ v.indice = r.indice /\ v.want = r.want
    BY <2>1, Constantes DEF Fiches
  <2>4. y.enfant \in Enfants /\ y.enfant # "absent" /\ r.tenu
    BY <1>3, <2>2 DEF Enfants, Presse
  <2> HIDE DEF v, y
  <2>5. FicheOK(v)
    BY <2>1, <2>3 DEF FicheOK
  <2> QED BY <2>2, <2>3, <2>4, <2>5 DEF y, Entretenue
<1>4. CASE ~Lance(r, dep) /\ ~Presse(r)
  <2>1. y = Heartbeat(x)
    BY <1>1, <1>4 DEF Entretien
  <2> HIDE DEF y
  <2> QED BY <2>1, HeartbeatFaits DEF y, Entretenue
<1> QED BY <1>2, <1>3, <1>4

(* The first half of a turn: on_message, then on_death if the process is dead. *)
LEMMA EvenementsFaits ==
    ASSUME NEW s \in Tous, FichesInv
    PROVE  LET x == Evenements(s) IN
           /\ x = [svc |-> x.svc, enfant |-> x.enfant, ordres |-> x.ordres, reponses |-> x.reponses]
           /\ FicheOK(x.svc) /\ x.enfant \in Enfants /\ (x.svc.tenu <=> x.enfant # "absent")
           /\ Termine(s) => x.svc = OnDeath(OnMessage(s))
           /\ ~Termine(s) => x.svc = OnMessage(s)
<1> DEFINE m == OnMessage(s)
           d == OnDeath(m)
<1>1. FicheOK(svc[s]) /\ (svc[s].tenu <=> enfant[s] # "absent") /\ enfant[s] \in Enfants
  BY DEF FichesInv
<1>2. FicheOK(m) /\ m.tenu = svc[s].tenu
  BY <1>1, OnMessageFaits
<1> HIDE DEF m
<1>3. FicheOK(d) /\ d.tenu = FALSE
  BY <1>2, OnDeathFaits
<1> HIDE DEF d
<1>4. CASE Termine(s)
  <2>1. Evenements(s) = [svc |-> d, enfant |-> "absent", ordres |-> <<>>, reponses |-> <<>>]
    BY <1>4 DEF Evenements, m, d
  <2> QED BY <1>3, <1>4, <2>1 DEF Enfants, m, d
<1>5. CASE ~Termine(s)
  <2>1. Evenements(s) = [svc |-> m, enfant |-> enfant[s], ordres |-> ordres[s], reponses |-> <<>>]
    BY <1>5 DEF Evenements, m
  <2> QED BY <1>1, <1>2, <1>5, <2>1 DEF m
<1> QED BY <1>4, <1>5

(* A death that the budget counts. *)
Compte(s) == Termine(s) /\ Voulue(OnMessage(s))

(* What a turn makes of a service. *)
Suite(r, q, s) ==
    /\ FicheOK(q) /\ q.want = r.want
    /\ Compte(s) => /\ r.tenu /\ q.tenu = FALSE
                    /\ q.deaths = [r.deaths EXCEPT ![r.indice] = 0] /\ q.indice = IndiceSuivant(r.indice)
                    /\ q.state \in {"Failed", "Restarting"}
                    /\ q.state = "Failed" <=> Recentes(q) > BUDGET_RESTARTS
    /\ ~Compte(s) => /\ q.deaths = r.deaths /\ q.indice = r.indice
                     /\ r.state = "Failed" => q.state = "Failed"
                     /\ r.state = "Stopped" /\ ~r.want => q.state = "Stopped"
                     /\ r.tenu /\ ~q.tenu => q.state = "Stopped"

(* A turn, for one service: a death that counts writes the ring and leads to *)
(* Failed or Restarting, which the same turn does not launch; nothing else   *)
(* writes the ring, nor takes a service out of Failed.                       *)
LEMMA TourFaits ==
    ASSUME NEW s \in Tous, FichesInv, NEW dep \in BOOLEAN, NEW ech \in BOOLEAN
    PROVE  LET y == Entretien(Evenements(s), dep, ech) IN
           /\ Suite(svc[s], y.svc, s) /\ y.enfant \in Enfants /\ (y.svc.tenu <=> y.enfant # "absent")
<1> DEFINE r == svc[s]
           m == OnMessage(s)
           d == OnDeath(m)
           x == Evenements(s)
           y == Entretien(x, dep, ech)
<1>1. /\ x = [svc |-> x.svc, enfant |-> x.enfant, ordres |-> x.ordres, reponses |-> x.reponses]
      /\ FicheOK(x.svc) /\ x.enfant \in Enfants /\ (x.svc.tenu <=> x.enfant # "absent")
      /\ Termine(s) => x.svc = d
      /\ ~Termine(s) => x.svc = m
  BY EvenementsFaits
<1>2. FicheOK(r) /\ (Termine(s) => r.tenu)
  BY DEF FichesInv, Termine
<1>3. /\ FicheOK(m) /\ m.tenu = r.tenu /\ m.deaths = r.deaths /\ m.indice = r.indice /\ m.want = r.want
      /\ m.state = r.state \/ (m.state = "Running" /\ r.state \in {"Starting", "Degraded"})
  BY <1>2, OnMessageFaits
<1>4. /\ FicheOK(d) /\ d.tenu = FALSE /\ d.want = m.want
      /\ ~Voulue(m) => d.state = "Stopped" /\ d.deaths = m.deaths /\ d.indice = m.indice
      /\ Voulue(m) => /\ d.deaths = [m.deaths EXCEPT ![m.indice] = 0] /\ d.indice = IndiceSuivant(m.indice)
                      /\ Recentes(d) > BUDGET_RESTARTS => d.state = "Failed"
                      /\ ~(Recentes(d) > BUDGET_RESTARTS) => d.state = "Restarting" /\ d.restart # 0
  <2> HIDE DEF m
  <2> QED BY <1>3, OnDeathFaits
<1> HIDE DEF x
<1>5. /\ FicheOK(y.svc) /\ y.enfant \in Enfants /\ (y.svc.tenu <=> y.enfant # "absent")
      /\ y.svc.deaths = x.svc.deaths /\ y.svc.indice = x.svc.indice /\ y.svc.want = x.svc.want
      /\ \/ y.svc.tenu = x.svc.tenu /\ y.svc.state = x.svc.state
         \/ y.svc.tenu = x.svc.tenu /\ y.svc.state = "Degraded" /\ x.svc.state = "Running"
         \/ y.svc.tenu = TRUE /\ y.svc.state = "Starting" /\ Lance(x.svc, dep)
  <2> DEFINE f == x.svc
             n == x.enfant
             o == x.ordres
             p == x.reponses
  <2>1. x = [svc |-> f, enfant |-> n, ordres |-> o, reponses |-> p] /\ FicheOK(f) /\ n \in Enfants /\ (f.tenu <=> n # "absent")
    BY <1>1
  <2> HIDE DEF f, n, o, p
  <2>2. Entretenue(f, Entretien([svc |-> f, enfant |-> n, ordres |-> o, reponses |-> p], dep, ech), dep)
    <3>1. FicheOK(f) /\ n \in Enfants /\ (f.tenu <=> n # "absent")
      BY <2>1
    <3> QED BY <3>1, EntretienFaits
  <2>3. Entretenue(f, y, dep)
    BY <2>1, <2>2
  <2> QED BY <2>3 DEF f, Entretenue
<1> HIDE DEF y, d, m, r
<1>6. CASE Compte(s)
  <2>1. Termine(s) /\ Voulue(m) /\ x.svc = d
    BY <1>1, <1>6 DEF Compte, m
  <2>2. d.state \in {"Failed", "Restarting"} /\ (d.state = "Failed" <=> Recentes(d) > BUDGET_RESTARTS)
    BY <1>4, <2>1
  <2>3. ~Lance(d, dep)
    BY <1>4, <2>1 DEF Lance, Redemarre, Demarrable
  <2>4. y.svc.tenu = FALSE /\ y.svc.state = d.state
    BY <1>4, <1>5, <2>1, <2>2, <2>3
  <2>5. Recentes(y.svc) = Recentes(d)
    BY <1>5, <2>1 DEF Recentes
  <2>6. Suite(r, y.svc, s)
    BY <1>2, <1>3, <1>4, <1>5, <1>6, <2>1, <2>2, <2>4, <2>5 DEF Suite
  <2> QED BY <1>5, <2>6 DEF y, x, r
<1>7. CASE ~Compte(s)
  <2>1. /\ x.svc.deaths = r.deaths /\ x.svc.indice = r.indice /\ x.svc.want = r.want
        /\ x.svc.state = m.state \/ (x.svc.state = "Stopped" /\ r.tenu)
        /\ r.tenu /\ ~x.svc.tenu => x.svc.state = "Stopped"
    BY <1>1, <1>2, <1>3, <1>4, <1>7 DEF Compte, m
  <2>2. r.tenu <=> r.state \in Tenues
    BY <1>2 DEF FicheOK
  <2>3. r.state = "Failed" => y.svc.state = "Failed"
    <3>1. SUFFICES ASSUME r.state = "Failed" PROVE y.svc.state = "Failed"
      OBVIOUS
    <3>2. x.svc.state = "Failed"
      BY <1>3, <2>1, <2>2, <3>1 DEF Tenues
    <3> QED BY <1>5, <3>2 DEF Lance, Redemarre, Demarrable
  <2>4. r.state = "Stopped" /\ ~r.want => y.svc.state = "Stopped"
    <3>1. SUFFICES ASSUME r.state = "Stopped", ~r.want PROVE y.svc.state = "Stopped"
      OBVIOUS
    <3>2. x.svc.state = "Stopped" /\ ~x.svc.want
      BY <1>3, <2>1, <2>2, <3>1 DEF Tenues
    <3> QED BY <1>5, <3>2 DEF Lance, Redemarre, Demarrable
  <2>5. r.tenu /\ ~y.svc.tenu => y.svc.state = "Stopped"
    <3>1. SUFFICES ASSUME r.tenu, ~y.svc.tenu PROVE y.svc.state = "Stopped"
      OBVIOUS
    <3>2. ~x.svc.tenu
      BY <1>5, <3>1
    <3>3. x.svc.state = "Stopped"
      BY <2>1, <3>1, <3>2
    <3> QED BY <1>5, <3>1, <3>3
  <2>6. Suite(r, y.svc, s)
    BY <1>5, <1>7, <2>1, <2>3, <2>4, <2>5 DEF Suite
  <2> QED BY <1>5, <2>6 DEF y, x, r
<1> QED BY <1>6, <1>7

(* Pas, service by service. *)
LEMMA PasFaits ==
    ASSUME FichesInv, Pas
    PROVE  /\ svc' \in [Tous -> Fiches] /\ enfant' \in [Tous -> Enfants]
           /\ \A s \in Tous : Suite(svc[s], svc'[s], s) /\ (svc'[s].tenu <=> enfant'[s] # "absent")
           /\ fautes' \in 0..MaxFautes /\ Sante /\ Histoire /\ mode' = mode
<1>1. PICK ech \in SUBSET Tous :
          LET ev == [s \in Tous |-> Evenements(s)]
              e == Tour(ev, ech) IN
          /\ fautes + Cardinality(ech) <= MaxFautes /\ fautes' = fautes + Cardinality(ech)
          /\ svc' = [s \in Tous |-> e[s].svc]
          /\ enfant' = [s \in Tous |-> e[s].enfant]
          /\ Sante /\ Histoire /\ mode' = mode
  BY DEF Pas
<1> DEFINE ev == [s \in Tous |-> Evenements(s)]
           y(s) == Entretien(Evenements(s), Dependance(s, ev), s \in ech)
<1>2. \A s \in Tous : svc'[s] = y(s).svc /\ enfant'[s] = y(s).enfant
  BY <1>1 DEF Tour
<1>3. \A s \in Tous : Suite(svc[s], y(s).svc, s) /\ y(s).enfant \in Enfants /\ (y(s).svc.tenu <=> y(s).enfant # "absent")
  <2> TAKE s \in Tous
  <2> DEFINE dep == Dependance(s, ev)
             t == s \in ech
  <2>1. dep \in BOOLEAN /\ t \in BOOLEAN
    BY DEF Dependance
  <2> HIDE DEF dep, t
  <2>2. LET z == Entretien(Evenements(s), dep, t) IN
        Suite(svc[s], z.svc, s) /\ z.enfant \in Enfants /\ (z.svc.tenu <=> z.enfant # "absent")
    BY <2>1, TourFaits
  <2> QED BY <2>2 DEF dep, t
<1>4. \A s \in Tous : Suite(svc[s], svc'[s], s) /\ enfant'[s] \in Enfants /\ (svc'[s].tenu <=> enfant'[s] # "absent")
  <2> HIDE DEF y
  <2> QED BY <1>2, <1>3
<1>5. \A s \in Tous : svc'[s] \in Fiches
  BY <1>4 DEF Suite, FicheOK
<1>6. svc' \in [Tous -> Fiches] /\ enfant' \in [Tous -> Enfants]
  BY <1>1, <1>4, <1>5 DEF Tour
<1>7. Cardinality(ech) \in Nat
  <2>1. IsFiniteSet(Tous)
    BY Constantes, FS_Interval DEF Tous
  <2>2. IsFiniteSet(ech)
    BY <2>1, FS_Subset
  <2> QED BY <2>2, FS_CardinalityType
<1>8. fautes' \in 0..MaxFautes
  BY <1>1, <1>7, Constantes DEF FichesInv
<1> QED BY <1>1, <1>4, <1>6, <1>8

----------------------------------------------------------------------------
(* The record of a service, in every state *)

(* A tick, for one service. *)
Tic(r) == [r EXCEPT
    !.deaths = [i \in Ring |-> IF @[i] = BUDGET_WINDOW THEN Aucun ELSE Vieillit(@[i], BUDGET_WINDOW)],
    !.restart = Decompte(@), !.stop = Decompte(@),
    !.ping = Vieillit(@, HEARTBEAT_PERIOD), !.pong = Vieillit(@, HEARTBEAT_PERIOD)]

LEMMA TicFaits ==
    ASSUME NEW r, FicheOK(r)
    PROVE  /\ FicheOK(Tic(r)) /\ Tic(r).state = r.state /\ Tic(r).tenu = r.tenu /\ Tic(r).want = r.want
           /\ Tic(r).indice = r.indice
           /\ Tic(r).deaths = [i \in Ring |-> IF r.deaths[i] = BUDGET_WINDOW THEN Aucun ELSE Vieillit(r.deaths[i], BUDGET_WINDOW)]
<1> DEFINE d == [i \in Ring |-> IF r.deaths[i] = BUDGET_WINDOW THEN Aucun ELSE Vieillit(r.deaths[i], BUDGET_WINDOW)]
           a == Decompte(r.restart)
           b == Decompte(r.stop)
           c == Vieillit(r.ping, HEARTBEAT_PERIOD)
           e == Vieillit(r.pong, HEARTBEAT_PERIOD)
<1>1. r \in Fiches /\ (r.tenu <=> r.state \in Tenues) /\ (~r.killed => r.missed < HEARTBEAT_MISSES)
  BY DEF FicheOK
<1>2. Tic(r) = [r EXCEPT !.deaths = d, !.restart = a, !.stop = b, !.ping = c, !.pong = e]
  BY <1>1 DEF Tic, Fiches
<1>3. d \in [Ring -> -1..BUDGET_WINDOW]
  <2>1. \A i \in Ring : r.deaths[i] \in -1..BUDGET_WINDOW
    BY <1>1 DEF Fiches
  <2>2. \A i \in Ring : (IF r.deaths[i] = BUDGET_WINDOW THEN Aucun ELSE Vieillit(r.deaths[i], BUDGET_WINDOW)) \in -1..BUDGET_WINDOW
    BY <2>1, Constantes DEF Vieillit, Aucun
  <2> QED BY <2>2
<1>4. a \in Int /\ b \in Int /\ c \in Int /\ e \in Int
  <2>1. r.restart \in Int /\ r.stop \in Int /\ r.ping \in Int /\ r.pong \in Int
    BY <1>1 DEF Fiches
  <2> QED BY <2>1 DEF Decompte, Vieillit, Aucun
<1> HIDE DEF d, a, b, c, e
<1>5. /\ Tic(r) \in Fiches /\ Tic(r).deaths = d /\ Tic(r).state = r.state /\ Tic(r).tenu = r.tenu /\ Tic(r).want = r.want
      /\ Tic(r).indice = r.indice /\ Tic(r).missed = r.missed /\ Tic(r).killed = r.killed
  BY <1>1, <1>2, <1>3, <1>4 DEF Fiches
<1>6. FicheOK(Tic(r))
  BY <1>1, <1>5 DEF FicheOK
<1> QED BY <1>5, <1>6 DEF d

LEMMA TempsFaits ==
    ASSUME Temps
    PROVE  \A s \in Tous : svc'[s] = Tic(svc[s])
  BY DEF Temps, Tic

(* stop, for one service. *)
LEMMA StopFaits ==
    ASSUME NEW r, FicheOK(r)
    PROVE  /\ FicheOK(Stop(r)) /\ Stop(r).tenu = r.tenu /\ Stop(r).want = FALSE
           /\ Stop(r).indice = r.indice /\ Stop(r).deaths = r.deaths
           /\ Stop(r).state = IF r.tenu THEN "Stopping" ELSE "Stopped"
<1> DEFINE a == IF r.tenu THEN "Stopping" ELSE "Stopped"
           b == IF r.tenu THEN STOP_GRACE ELSE r.stop
<1>1. r \in Fiches /\ (r.tenu <=> r.state \in Tenues) /\ (~r.killed => r.missed < HEARTBEAT_MISSES)
  BY DEF FicheOK
<1>2. Stop(r) = [r EXCEPT !.want = FALSE, !.state = a, !.stop = b]
  BY DEF Stop
<1>3. a \in Etats /\ (a \in Tenues <=> r.tenu) /\ b \in Int
  BY <1>1, Constantes DEF Etats, Tenues, Fiches
<1> HIDE DEF a, b
<1>4. /\ Stop(r) \in Fiches /\ Stop(r).tenu = r.tenu /\ Stop(r).want = FALSE /\ Stop(r).state = a
      /\ Stop(r).indice = r.indice /\ Stop(r).deaths = r.deaths /\ Stop(r).missed = r.missed /\ Stop(r).killed = r.killed
  BY <1>1, <1>2, <1>3 DEF Fiches
<1>5. FicheOK(Stop(r))
  BY <1>1, <1>3, <1>4 DEF FicheOK
<1> QED BY <1>4, <1>5 DEF a

(* The health sampling, on its variables. *)
LEMMA SanteTypes ==
    ASSUME Sante, sys \in Phases, committed \in BOOLEAN
    PROVE  sys' \in Phases /\ committed' \in BOOLEAN
<1>1. CASE UNCHANGED sante
  BY <1>1 DEF sante
<1>2. CASE UnEchoue /\ sys' = "RecoveryRequired" /\ UNCHANGED <<healthy_since, committed>>
  BY <1>2 DEF Phases
<1>3. CASE /\ UNCHANGED committed
           /\ sys' = CASE sys = "Healthy" -> "Degraded"
                       [] sys = "StartingServices" /\ uptime > HEALTH_DEADLINE -> "RecoveryRequired"
                       [] OTHER -> sys
  BY <1>3 DEF Phases
<1>4. CASE IF healthy_since' < HEALTH_WINDOW THEN UNCHANGED <<sys, committed>>
           ELSE sys' = "Healthy" /\ committed' = TRUE
  BY <1>4 DEF Phases
<1> QED BY <1>1, <1>2, <1>3, <1>4 DEF Sante

LEMMA FichesInit == Init => FichesInv
<1> SUFFICES ASSUME Init PROVE FichesInv
  OBVIOUS
<1>1. FicheOK(Neuf)
  <2>1. Neuf \in Fiches
    <3>1. "Stopped" \in Etats /\ 0 \in Ring /\ 0 \in 0..BACKOFF_MAX /\ 0 \in 0..HEARTBEAT_MISSES /\ Aucun \in Int
      BY Constantes DEF Etats, Ring, Aucun
    <3>2. [i \in Ring |-> Aucun] \in [Ring -> -1..BUDGET_WINDOW]
      BY Constantes DEF Aucun
    <3> QED BY <3>1, <3>2 DEF Neuf, Fiches
  <2>2. Neuf.state = "Stopped" /\ Neuf.tenu = FALSE /\ Neuf.missed = 0
    BY DEF Neuf
  <2> QED BY <2>1, <2>2, Constantes DEF FicheOK, Tenues
<1>2. svc = [s \in Tous |-> Neuf] /\ enfant = [s \in Tous |-> "absent"] /\ Neuf.tenu = FALSE
  BY DEF Init, Neuf
<1>3. svc \in [Tous -> Fiches] /\ enfant \in [Tous -> Enfants]
  BY <1>1, <1>2 DEF FicheOK, Enfants
<1>4. \A s \in Tous : FicheOK(svc[s]) /\ (svc[s].tenu <=> enfant[s] # "absent")
  BY <1>1, <1>2
<1>5. sys \in Phases /\ committed \in BOOLEAN /\ fautes \in 0..MaxFautes
  <2>1. sys = "StartingServices" /\ committed = FALSE /\ fautes = 0
    BY DEF Init
  <2>2. fautes \in 0..MaxFautes
    BY <2>1, Constantes
  <2>3. sys \in Phases /\ committed \in BOOLEAN
    BY <2>1 DEF Phases
  <2> QED BY <2>2, <2>3
<1> QED BY <1>3, <1>4, <1>5 DEF FichesInv

LEMMA FichesPas == FichesInv /\ [Next]_vars => FichesInv'
<1> SUFFICES ASSUME FichesInv, [Next]_vars PROVE FichesInv'
  OBVIOUS
<1> USE DEF FichesInv
<1>1. CASE Temps
  <2>1. \A s \in Tous : svc'[s] = Tic(svc[s]) /\ svc' = [t \in Tous |-> svc'[t]]
    BY <1>1, TempsFaits DEF Temps
  <2>2. \A s \in Tous : FicheOK(svc'[s]) /\ svc'[s].tenu = svc[s].tenu
    BY <2>1, TicFaits
  <2>3. svc' \in [Tous -> Fiches]
    <3>1. \A s \in Tous : svc'[s] \in Fiches
      BY <2>2 DEF FicheOK
    <3>2. svc' = [t \in Tous |-> svc'[t]]
      BY <1>1 DEF Temps
    <3> QED BY <3>1, <3>2
  <2>4. UNCHANGED <<enfant, sys, committed, fautes>>
    BY <1>1 DEF Temps
  <2> QED BY <2>2, <2>3, <2>4
<1>2. CASE Pas
  <2>1. /\ svc' \in [Tous -> Fiches] /\ enfant' \in [Tous -> Enfants]
        /\ \A s \in Tous : Suite(svc[s], svc'[s], s) /\ (svc'[s].tenu <=> enfant'[s] # "absent")
        /\ fautes' \in 0..MaxFautes /\ Sante
    BY <1>2, PasFaits
  <2>2. \A s \in Tous : FicheOK(svc'[s])
    BY <2>1 DEF Suite
  <2>3. sys' \in Phases /\ committed' \in BOOLEAN
    BY <2>1, SanteTypes
  <2> QED BY <2>1, <2>2, <2>3
<1>3. CASE Arrete
  <2>1. svc' = [s \in Tous |-> Stop(svc[s])] /\ UNCHANGED <<enfant, sys, committed, fautes>>
    BY <1>3 DEF Arrete, sante
  <2>2. \A s \in Tous : FicheOK(svc'[s]) /\ svc'[s].tenu = svc[s].tenu
    BY <2>1, StopFaits
  <2>3. svc' \in [Tous -> Fiches]
    BY <2>1, <2>2 DEF FicheOK
  <2> QED BY <2>1, <2>2, <2>3
<1>4. ASSUME NEW s \in Tous, Repond(s) PROVE FichesInv'
  <2>1. UNCHANGED <<svc, sys, committed, fautes>> /\ enfant[s] # "absent"
    BY <1>4 DEF Repond, sante
  <2>2. enfant' = enfant \/ enfant' = [enfant EXCEPT ![s] = "mort"]
    BY <1>4 DEF Repond
  <2>3. enfant' \in [Tous -> Enfants] /\ \A t \in Tous : enfant'[t] # "absent" <=> enfant[t] # "absent"
    BY <2>1, <2>2 DEF Enfants
  <2> QED BY <2>1, <2>3
<1>5. ASSUME NEW s \in Tous, Meurt(s) \/ Plante(s) \/ Pend(s) PROVE FichesInv'
  <2>1. UNCHANGED <<svc, sys, committed>> /\ enfant[s] # "absent" /\ fautes' \in 0..MaxFautes
    BY <1>5, Constantes DEF Meurt, Plante, Pend, sante
  <2>2. enfant' = [enfant EXCEPT ![s] = "pendu"] \/ enfant' = [enfant EXCEPT ![s] = "mort"]
    BY <1>5 DEF Meurt, Plante, Pend
  <2>3. enfant' \in [Tous -> Enfants] /\ \A t \in Tous : enfant'[t] # "absent" <=> enfant[t] # "absent"
    BY <2>1, <2>2 DEF Enfants
  <2> QED BY <2>1, <2>3
<1>6. CASE UNCHANGED vars
  <2>1. UNCHANGED <<svc, enfant, sys, committed, fautes>>
    BY <1>6 DEF vars, sante
  <2> QED BY <2>1
<1> QED BY <1>1, <1>2, <1>3, <1>4, <1>5, <1>6 DEF Next

LEMMA FichesToujours == Spec => []FichesInv
  BY FichesInit, FichesPas, PTL DEF Spec

(* TypeOK holds of serviced, whatever the number of services, their        *)
(* dependencies and the constants: in particular a service holds its       *)
(* channel and its process object exactly while it has a process, however  *)
(* crashes, hangs, kills, failed spawns and stops interleave with turns.   *)
THEOREM TypesDesServices == Spec => []TypeOK
<1>1. FichesInv => TypeOK
  <2> SUFFICES ASSUME FichesInv PROVE TypeOK
    OBVIOUS
  <2>1. ASSUME NEW s \in Tous
        PROVE  /\ svc[s].state \in Etats /\ svc[s].missed \in 0..HEARTBEAT_MISSES
               /\ svc[s].backoff \in 0..BACKOFF_MAX /\ svc[s].indice \in Ring
               /\ svc[s].deaths \in [Ring -> -1..BUDGET_WINDOW]
               /\ enfant[s] \in {"absent", "vivant", "pendu", "condamne", "mort"}
               /\ svc[s].tenu <=> svc[s].state \in {"Starting", "Running", "Degraded", "Stopping"}
               /\ svc[s].tenu <=> enfant[s] # "absent"
    <3>1. FicheOK(svc[s]) /\ (svc[s].tenu <=> enfant[s] # "absent") /\ enfant[s] \in Enfants
      BY <2>1 DEF FichesInv
    <3>2. svc[s] \in Fiches /\ (svc[s].tenu <=> svc[s].state \in Tenues)
      BY <3>1 DEF FicheOK
    <3> QED BY <3>1, <3>2 DEF Fiches, Tenues, Enfants
  <2> QED BY <2>1 DEF TypeOK, FichesInv, Phases
<1> QED BY <1>1, FichesToujours, PTL

----------------------------------------------------------------------------
(* The health of the boot *)

LEMMA VieillitFaits ==
    ASSUME NEW cap \in Nat, NEW a \in -1..cap, NEW b \in -1..cap
    PROVE  /\ Vieillit(a, cap) \in -1..cap /\ (Vieillit(a, cap) = Aucun <=> a = Aucun)
           /\ a # Aucun /\ a <= b => Vieillit(a, cap) <= Vieillit(b, cap)
  BY DEF Vieillit, Aucun

LEMMA SanteInit == Init => SanteInv
<1> SUFFICES ASSUME Init PROVE SanteInv
  OBVIOUS
<1>1. svc = [s \in Tous |-> Neuf] /\ healthy_since = Aucun /\ tourne = [s \in Tous |-> Aucun]
  BY DEF Init
<1>2. Neuf.state = "Stopped"
  BY DEF Neuf
<1>3. Aucun \in -1..HEALTH_WINDOW
  BY Constantes DEF Aucun
<1>4. tourne \in [Tous -> -1..HEALTH_WINDOW] /\ healthy_since \in -1..HEALTH_WINDOW
  BY <1>1, <1>3
<1>5. \A s \in Tous : svc[s].state # "Running"
  BY <1>1, <1>2
<1> QED BY <1>1, <1>4, <1>5 DEF SanteInv

(* The window and the histories, over a turn. *)
LEMMA DepuisFaits ==
    ASSUME SanteInv, Histoire
    PROVE  /\ tourne' \in [Tous -> -1..HEALTH_WINDOW] /\ Depuis \in -1..HEALTH_WINDOW
           /\ \A s \in Tous : svc'[s].state = "Running" => tourne'[s] # Aucun
           /\ \A s \in Tous : svc'[s].state = "Running" /\ svc[s].state = "Running" => tourne'[s] = tourne[s]
<1>1. /\ tourne \in [Tous -> -1..HEALTH_WINDOW] /\ healthy_since \in -1..HEALTH_WINDOW
      /\ \A s \in Tous : svc[s].state = "Running" => tourne[s] # Aucun
  BY DEF SanteInv
<1>2. tourne' = [s \in Tous |-> CASE svc'[s].state # "Running" -> Aucun
                                  [] svc'[s].state = "Running" /\ svc[s].state = "Running" -> tourne[s]
                                  [] OTHER -> 0]
  BY DEF Histoire
<1>3. ASSUME NEW s \in Tous
      PROVE  /\ tourne'[s] \in -1..HEALTH_WINDOW /\ (svc'[s].state = "Running" => tourne'[s] # Aucun)
             /\ svc'[s].state = "Running" /\ svc[s].state = "Running" => tourne'[s] = tourne[s]
  <2>1. tourne'[s] = CASE svc'[s].state # "Running" -> Aucun
                       [] svc'[s].state = "Running" /\ svc[s].state = "Running" -> tourne[s]
                       [] OTHER -> 0
    BY <1>2, <1>3
  <2>2. \/ svc'[s].state # "Running" /\ tourne'[s] = Aucun
        \/ svc'[s].state = "Running" /\ svc[s].state = "Running" /\ tourne'[s] = tourne[s]
        \/ svc'[s].state = "Running" /\ svc[s].state # "Running" /\ tourne'[s] = 0
    BY <2>1
  <2>3. tourne[s] \in -1..HEALTH_WINDOW /\ 0 \in -1..HEALTH_WINDOW /\ Aucun \in -1..HEALTH_WINDOW /\ 0 # Aucun
    BY <1>1, Constantes DEF Aucun
  <2> QED BY <1>1, <2>2, <2>3
<1>4. tourne' \in [Tous -> -1..HEALTH_WINDOW]
  <2>1. tourne' = [s \in Tous |-> tourne'[s]]
    BY <1>2
  <2> QED BY <1>3, <2>1
<1>5. Depuis \in -1..HEALTH_WINDOW
  BY <1>1, Constantes DEF Depuis, Aucun
<1> QED BY <1>3, <1>4, <1>5

(* A turn keeps the window open only while every service runs on. *)
LEMMA SanteTour ==
    ASSUME SanteInv, FichesInv, Pas
    PROVE  SanteInv' /\ (~committed /\ committed' => \A s \in Tous : tourne[s] = HEALTH_WINDOW)
<1>1. Sante /\ Histoire /\ mode' = mode
  BY PasFaits
<1>2. /\ tourne' \in [Tous -> -1..HEALTH_WINDOW] /\ Depuis \in -1..HEALTH_WINDOW
      /\ \A s \in Tous : svc'[s].state = "Running" => tourne'[s] # Aucun
      /\ \A s \in Tous : svc'[s].state = "Running" /\ svc[s].state = "Running" => tourne'[s] = tourne[s]
  BY <1>1, DepuisFaits
<1>3. /\ tourne \in [Tous -> -1..HEALTH_WINDOW] /\ healthy_since \in -1..HEALTH_WINDOW
      /\ mode = "system" /\ sys # "RecoveryRequired" /\ healthy_since # Aucun =>
            \A s \in Tous : svc[s].state = "Running" /\ healthy_since <= tourne[s]
  BY DEF SanteInv
<1>4. CASE (mode # "system" \/ sys = "RecoveryRequired") /\ UNCHANGED sante
  <2>1. UNCHANGED <<sys, healthy_since, committed>>
    BY <1>4 DEF sante
  <2> QED BY <1>1, <1>2, <1>3, <1>4, <2>1 DEF SanteInv
<1>5. CASE sys' = "RecoveryRequired" /\ UNCHANGED <<healthy_since, committed>>
  BY <1>2, <1>3, <1>5 DEF SanteInv
<1>6. CASE ~ToutTourne /\ healthy_since' = Depuis /\ UNCHANGED committed
  <2>1. healthy_since' = Aucun
    BY <1>6 DEF Depuis
  <2> QED BY <1>2, <1>6, <2>1 DEF SanteInv
<1>7. CASE /\ mode = "system" /\ sys # "RecoveryRequired" /\ ToutTourne /\ healthy_since' = Depuis
           /\ IF healthy_since' < HEALTH_WINDOW THEN UNCHANGED <<sys, committed>>
              ELSE sys' = "Healthy" /\ committed' = TRUE
  <2>1. \A s \in Tous : svc'[s].state = "Running"
    BY <1>7 DEF ToutTourne
  <2>2. healthy_since' = IF healthy_since = Aucun THEN 0 ELSE healthy_since
    BY <1>7 DEF Depuis
  <2>3. ASSUME NEW s \in Tous PROVE healthy_since' <= tourne'[s]
    <3>1. tourne'[s] \in -1..HEALTH_WINDOW /\ tourne'[s] # Aucun
      BY <1>2, <2>1, <2>3
    <3>2. CASE healthy_since = Aucun
      BY <2>2, <3>1, <3>2, Constantes DEF Aucun
    <3>3. CASE healthy_since # Aucun
      <4>1. svc[s].state = "Running" /\ healthy_since <= tourne[s]
        BY <1>3, <1>7, <2>3, <3>3
      <4>2. tourne'[s] = tourne[s]
        BY <1>2, <2>1, <2>3, <4>1
      <4> QED BY <2>2, <3>3, <4>1, <4>2
    <3> QED BY <3>2, <3>3
  <2>4. SanteInv'
    BY <1>2, <1>7, <2>1, <2>3 DEF SanteInv
  <2>5. ASSUME ~committed, committed' PROVE \A s \in Tous : tourne[s] = HEALTH_WINDOW
    <3>1. ~(healthy_since' < HEALTH_WINDOW)
      BY <1>7, <2>5
    <3>2. healthy_since # Aucun /\ healthy_since = HEALTH_WINDOW
      BY <1>3, <2>2, <3>1, Constantes
    <3>3. \A s \in Tous : HEALTH_WINDOW <= tourne[s] /\ tourne[s] \in -1..HEALTH_WINDOW
      BY <1>3, <1>7, <3>2
    <3> QED BY <3>3, Constantes
  <2> QED BY <2>4, <2>5
<1> QED BY <1>1, <1>4, <1>5, <1>6, <1>7 DEF Sante

LEMMA SantePas ==
    ASSUME SanteInv, FichesInv, [Next]_vars
    PROVE  SanteInv' /\ (~committed /\ committed' => \A s \in Tous : tourne[s] = HEALTH_WINDOW)
<1>1. CASE Temps
  <2>1. \A s \in Tous : svc'[s].state = svc[s].state
    <3>1. \A s \in Tous : FicheOK(svc[s])
      BY DEF FichesInv
    <3> QED BY <1>1, <3>1, TempsFaits, TicFaits
  <2>2. /\ healthy_since' = Vieillit(healthy_since, HEALTH_WINDOW) /\ UNCHANGED <<mode, sys, committed>>
        /\ tourne' = [s \in Tous |-> Vieillit(tourne[s], HEALTH_WINDOW)]
    BY <1>1 DEF Temps
  <2>3. healthy_since \in -1..HEALTH_WINDOW /\ \A s \in Tous : tourne[s] \in -1..HEALTH_WINDOW
    BY DEF SanteInv
  <2>4. HEALTH_WINDOW \in Nat
    BY Constantes
  <2>5. healthy_since' \in -1..HEALTH_WINDOW /\ (healthy_since' = Aucun <=> healthy_since = Aucun)
    BY <2>2, <2>3, <2>4, VieillitFaits
  <2>6. ASSUME NEW s \in Tous
        PROVE  /\ tourne'[s] \in -1..HEALTH_WINDOW /\ (tourne'[s] = Aucun <=> tourne[s] = Aucun)
               /\ healthy_since # Aucun /\ healthy_since <= tourne[s] => healthy_since' <= tourne'[s]
    <3>1. tourne'[s] = Vieillit(tourne[s], HEALTH_WINDOW) /\ tourne[s] \in -1..HEALTH_WINDOW
      BY <2>2, <2>3, <2>6
    <3> QED BY <2>2, <2>3, <2>4, <3>1, VieillitFaits
  <2>7. tourne' \in [Tous -> -1..HEALTH_WINDOW]
    BY <2>2, <2>6
  <2> QED BY <2>1, <2>2, <2>5, <2>6, <2>7 DEF SanteInv
<1>2. CASE Pas
  BY <1>2, SanteTour
<1>3. CASE Arrete
  <2>1. svc' = [s \in Tous |-> Stop(svc[s])] /\ mode = "qualify" /\ mode' = mode /\ tourne' = [s \in Tous |-> Aucun]
        /\ UNCHANGED <<healthy_since, committed>>
    BY <1>3 DEF Arrete, sante
  <2>2. \A s \in Tous : svc'[s].state # "Running"
    BY <2>1, StopFaits DEF FichesInv
  <2>3. tourne' \in [Tous -> -1..HEALTH_WINDOW]
    BY <2>1, Constantes DEF Aucun
  <2> QED BY <2>1, <2>2, <2>3 DEF SanteInv
<1>4. CASE (\E s \in Tous : Repond(s) \/ Meurt(s) \/ Plante(s) \/ Pend(s)) \/ UNCHANGED vars
  <2>1. UNCHANGED <<svc, mode, sys, healthy_since, committed, tourne>>
    BY <1>4 DEF Repond, Meurt, Plante, Pend, vars, sante, histoire
  <2> QED BY <2>1 DEF SanteInv
<1> QED BY <1>1, <1>2, <1>3, <1>4 DEF Next

LEMMA SanteToujours == Spec => []SanteInv
<1>1. FichesInv /\ SanteInv /\ [Next]_vars => SanteInv'
  BY SantePas
<1> QED BY <1>1, SanteInit, FichesToujours, PTL DEF Spec

(* The boot is committed only when every critical service has been Running, *)
(* without a death, for the whole window (serviced.c:667), for any number   *)
(* of services and any window: while the window is open every service has   *)
(* run at least as long, since a turn closes it on the first that does not. *)
THEOREM CommitToujoursSain == Spec => CommitSain
<1>1. FichesInv /\ SanteInv /\ [Next]_vars => [~committed /\ committed' => \A s \in Tous : tourne[s] = HEALTH_WINDOW]_vars
  BY SantePas
<1> QED BY <1>1, FichesToujours, SanteToujours, PTL DEF Spec, CommitSain

----------------------------------------------------------------------------
(* The crash budget *)

(* Counting back in the ring is its own inverse, and one death further once indice has moved. *)
LEMMA ReculFaits ==
    ASSUME NEW n \in Ring, NEW i \in Ring
    PROVE  /\ Recul(i, n) \in Ring /\ Recul(Recul(i, n), n) = i /\ IndiceSuivant(n) \in Ring
           /\ Recul(i, IndiceSuivant(n)) = IF i = n THEN 0 ELSE Recul(i, n) + 1
<1>1. IndiceSuivant(n) \in Ring /\ IndiceSuivant(n) = (IF n = BUDGET_RESTARTS THEN 0 ELSE n + 1)
  BY IndiceFaits
<1>2. n \in 0..BUDGET_RESTARTS /\ i \in 0..BUDGET_RESTARTS /\ BUDGET_RESTARTS \in Nat
  BY Constantes DEF Ring
<1>3. Recul(i, n) \in Ring
  BY <1>2 DEF Recul, Ring
<1>4. Recul(Recul(i, n), n) = i
  BY <1>2 DEF Recul
<1>5. Recul(i, IndiceSuivant(n)) = IF i = n THEN 0 ELSE Recul(i, n) + 1
  BY <1>1, <1>2 DEF Recul
<1> QED BY <1>1, <1>3, <1>4, <1>5

(* The deaths p are those the ring d tells, indice being n. *)
Reflete(d, n, p) ==
    /\ p \in Seq(0..BUDGET_WINDOW) /\ Len(p) <= BUDGET_RESTARTS + 1
    /\ \A i, j \in 1..Len(p) : i < j => p[j] <= p[i]
    /\ \A i \in Ring : d[i] = IF Recul(i, n) < Len(p) THEN p[Len(p) - Recul(i, n)] ELSE Aucun

LEMMA AnneauFaits ==
    ASSUME NEW r, NEW p
    PROVE  Anneau(r, p) <=> /\ Reflete(r.deaths, r.indice, p)
                            /\ Len(p) > BUDGET_RESTARTS => r.state = "Failed" \/ (r.state = "Stopped" /\ ~r.want)
  BY DEF Anneau, Reflete

(* The ring then has as many entries in the window as there were deaths. *)
LEMMA CompteExact ==
    ASSUME NEW r, NEW p, r.indice \in Ring, Reflete(r.deaths, r.indice, p)
    PROVE  Recentes(r) = Len(p)
<1> DEFINE n == r.indice
           L == Len(p)
           S == {i \in Ring : r.deaths[i] # Aucun}
           f == [j \in 1..L |-> Recul(j - 1, n)]
<1>1. /\ p \in Seq(0..BUDGET_WINDOW) /\ L \in Nat /\ L <= BUDGET_RESTARTS + 1 /\ n \in Ring
      /\ \A i \in Ring : r.deaths[i] = IF Recul(i, n) < L THEN p[L - Recul(i, n)] ELSE Aucun
  BY DEF Reflete
<1>a. \A k \in 1..L : p[k] \in 0..BUDGET_WINDOW
  <2>1. p \in Seq(0..BUDGET_WINDOW)
    BY DEF Reflete
  <2> QED BY <2>1, ElementOfSeq
<1> HIDE DEF L, n
<1>2. ASSUME NEW i \in Ring PROVE i \in S <=> Recul(i, n) < L
  <2>1. Recul(i, n) \in Ring
    BY <1>1, <1>2, ReculFaits
  <2>2. CASE Recul(i, n) < L
    <3>1. L - Recul(i, n) \in 1..L
      BY <1>1, <2>1, <2>2, Constantes DEF Ring
    <3>2. p[L - Recul(i, n)] \in 0..BUDGET_WINDOW
      BY <1>a, <3>1
    <3> QED BY <1>1, <1>2, <2>2, <3>2, Constantes DEF Aucun
  <2>3. CASE ~(Recul(i, n) < L)
    BY <1>1, <1>2, <2>3
  <2> QED BY <2>2, <2>3
<1>3. ASSUME NEW j \in 1..L PROVE f[j] \in S /\ Recul(f[j], n) = j - 1 /\ f[j] = Recul(j - 1, n)
  <2>1. j - 1 \in Ring /\ j - 1 < L
    BY <1>1, <1>3, Constantes DEF Ring
  <2>2. f[j] = Recul(j - 1, n)
    BY <1>3
  <2>3. Recul(j - 1, n) \in Ring /\ Recul(Recul(j - 1, n), n) = j - 1
    BY <1>1, <2>1, ReculFaits
  <2> QED BY <1>2, <2>1, <2>2, <2>3
<1>4. f \in [1..L -> S]
  BY <1>3
<1>5. \A a, b \in 1..L : f[a] = f[b] => a = b
  <2> SUFFICES ASSUME NEW a \in 1..L, NEW b \in 1..L, f[a] = f[b] PROVE a = b
    OBVIOUS
  <2>1. a - 1 = b - 1
    BY <1>3
  <2> QED BY <1>1, <2>1
<1>6. \A t \in S : \E j \in 1..L : f[j] = t
  <2> SUFFICES ASSUME NEW t \in S PROVE \E j \in 1..L : f[j] = t
    OBVIOUS
  <2>1. t \in Ring /\ Recul(t, n) < L
    BY <1>2
  <2>2. Recul(t, n) \in Ring /\ Recul(Recul(t, n), n) = t
    BY <1>1, <2>1, ReculFaits
  <2>3. Recul(t, n) + 1 \in 1..L /\ (Recul(t, n) + 1) - 1 = Recul(t, n)
    BY <1>1, <2>1, <2>2, Constantes DEF Ring
  <2>4. f[Recul(t, n) + 1] = t
    BY <2>2, <2>3
  <2> QED BY <2>3, <2>4
<1> HIDE DEF f, S
<1>7. f \in Bijection(1..L, S)
  BY <1>4, <1>5, <1>6, Fun_IsBij
<1>8. ExistsBijection(1..L, S)
  BY <1>7, Fun_ExistsBij
<1>9. Cardinality(S) = L
  BY <1>1, <1>8, FS_CountingElements
<1> QED BY <1>9 DEF Recentes, S, L

(* A death is written at the slot of the oldest, which has left the window if the budget is not spent. *)
LEMMA MortReflete ==
    ASSUME NEW d \in [Ring -> -1..BUDGET_WINDOW], NEW n \in Ring, NEW p, Reflete(d, n, p), Len(p) <= BUDGET_RESTARTS
    PROVE  Reflete([d EXCEPT ![n] = 0], IndiceSuivant(n), Append(p, 0)) /\ Len(Append(p, 0)) = Len(p) + 1
<1> DEFINE L == Len(p)
           q == Append(p, 0)
           e == [d EXCEPT ![n] = 0]
           m == IndiceSuivant(n)
<1>1. /\ p \in Seq(0..BUDGET_WINDOW) /\ L \in Nat /\ L <= BUDGET_RESTARTS
      /\ \A i, j \in 1..L : i < j => p[j] <= p[i]
      /\ \A i \in Ring : d[i] = IF Recul(i, n) < L THEN p[L - Recul(i, n)] ELSE Aucun
  BY DEF Reflete
<1>2. /\ q \in Seq(0..BUDGET_WINDOW) /\ Len(q) = L + 1
      /\ q[L + 1] = 0 /\ \A i \in 1..L : q[i] = p[i] /\ p[i] \in 0..BUDGET_WINDOW
  BY <1>1, Constantes
<1> HIDE DEF L, q
<1>3. \A i, j \in 1..(L + 1) : i < j => q[j] <= q[i]
  <2> SUFFICES ASSUME NEW i \in 1..(L + 1), NEW j \in 1..(L + 1), i < j PROVE q[j] <= q[i]
    OBVIOUS
  <2>1. i \in 1..L /\ (j \in 1..L \/ j = L + 1)
    BY <1>1
  <2>2. CASE j \in 1..L
    BY <1>1, <1>2, <2>1, <2>2
  <2>3. CASE j = L + 1
    BY <1>2, <2>1, <2>3, Constantes
  <2> QED BY <2>1, <2>2, <2>3
<1>4. ASSUME NEW i \in Ring PROVE e[i] = IF Recul(i, m) < L + 1 THEN q[L + 1 - Recul(i, m)] ELSE Aucun
  <2>1. Recul(i, n) \in Ring /\ Recul(i, m) = IF i = n THEN 0 ELSE Recul(i, n) + 1
    BY <1>4, ReculFaits
  <2>2. CASE i = n
    <3>1. e[i] = 0 /\ Recul(i, m) = 0 /\ L + 1 - 0 = L + 1 /\ 0 < L + 1
      BY <1>1, <1>4, <2>1, <2>2
    <3> QED BY <1>2, <3>1
  <2>3. CASE i # n
    <3> DEFINE c == Recul(i, n)
    <3>1. e[i] = d[i] /\ Recul(i, m) = c + 1 /\ c \in Nat
      BY <1>4, <2>1, <2>3, Constantes DEF Ring
    <3>2. d[i] = IF c < L THEN p[L - c] ELSE Aucun
      BY <1>1, <1>4
    <3> HIDE DEF c
    <3>3. CASE c < L
      <4>1. L - c \in 1..L /\ L + 1 - (c + 1) = L - c /\ c + 1 < L + 1
        BY <1>1, <3>1, <3>3
      <4> QED BY <1>2, <3>1, <3>2, <3>3, <4>1
    <3>4. CASE ~(c < L)
      <4>1. ~(c + 1 < L + 1)
        BY <1>1, <3>1, <3>4
      <4> QED BY <3>1, <3>2, <3>4, <4>1
    <3> QED BY <3>3, <3>4
  <2> QED BY <2>2, <2>3
<1> HIDE DEF e, m
<1>5. Reflete(e, m, q)
  <2>1. Len(q) <= BUDGET_RESTARTS + 1
    BY <1>1, <1>2, Constantes
  <2>2. \A i, j \in 1..Len(q) : i < j => q[j] <= q[i]
    BY <1>2, <1>3
  <2>3. \A i \in Ring : e[i] = IF Recul(i, m) < Len(q) THEN q[Len(q) - Recul(i, m)] ELSE Aucun
    <3>1. Len(q) = L + 1
      BY <1>2
    <3> TAKE i \in Ring
    <3>2. e[i] = IF Recul(i, m) < L + 1 THEN q[L + 1 - Recul(i, m)] ELSE Aucun
      BY <1>4
    <3>3. L \in Nat /\ m \in Ring /\ Recul(i, m) \in Int
      <4>1. m \in Ring
        BY ReculFaits DEF m
      <4>2. Recul(i, m) \in Ring
        BY <4>1, ReculFaits
      <4> QED BY <1>1, <4>1, <4>2, Constantes DEF Ring
    <3> QED BY <3>1, <3>2, <3>3
  <2>4. q \in Seq(0..BUDGET_WINDOW)
    BY <1>2
  <2> QED BY <2>1, <2>2, <2>3, <2>4 DEF Reflete
<1> QED BY <1>2, <1>5 DEF e, m, q, L

(* A tick takes the deaths at the front out of the window: they are the oldest. *)
LEMMA SortiesFaits ==
    ASSUME NEW p \in Seq(0..BUDGET_WINDOW), \A i, j \in 1..Len(p) : i < j => p[j] <= p[i]
    PROVE  Sorties(p) \in 0..Len(p) /\ \A i \in 1..Len(p) : p[i] = BUDGET_WINDOW <=> i <= Sorties(p)
<1> DEFINE L == Len(p)
           A == {i \in 1..L : p[i] = BUDGET_WINDOW}
           U == {i \in 1..(L + 1) : i \notin A}
<1>1. L \in Nat /\ \A i \in 1..L : p[i] \in 0..BUDGET_WINDOW
  <2>1. \A i \in 1..L : p[i] \in 0..BUDGET_WINDOW
    BY ElementOfSeq
  <2>2. L \in Nat
    BY LenProperties
  <2> QED BY <2>1, <2>2
<1>2. \A i, j \in 1..L : i < j => p[j] <= p[i]
  OBVIOUS
<1> HIDE DEF L
<1>3. L + 1 \in U /\ U \subseteq Nat
  BY <1>1
<1>4. PICK u \in U : \A v \in U : u <= v
  <2> HIDE DEF U
  <2>1. U # {} /\ U \subseteq Nat
    BY <1>3
  <2>2. \E s \in U : \A r \in U : ~(<<r, s>> \in OpToRel(<, Nat))
    BY <2>1, NatLessThanWellFounded, WFMin, Zenon
  <2>3. \A r, s \in Nat : ~(<<r, s>> \in OpToRel(<, Nat)) => s <= r
    BY DEF OpToRel
  <2> QED BY <2>1, <2>2, <2>3, Zenon
<1>5. u \in 1..(L + 1) /\ u \notin A
  BY <1>4
<1>6. ASSUME NEW i \in 1..L PROVE i \in A <=> i <= u - 1
  <2>1. CASE i <= u - 1
    <3>1. i \notin U
      BY <1>1, <1>4, <1>5, <2>1
    <3> QED BY <1>1, <2>1, <3>1
  <2>2. CASE i = u
    BY <1>1, <1>5, <2>2
  <2>3. CASE i > u
    <3>1. u \in 1..L /\ p[u] # BUDGET_WINDOW /\ p[u] \in 0..BUDGET_WINDOW /\ p[i] <= p[u] /\ p[i] \in 0..BUDGET_WINDOW
      BY <1>1, <1>2, <1>5, <2>3
    <3>2. p[i] # BUDGET_WINDOW
      BY <3>1, Constantes
    <3> QED BY <1>1, <1>5, <2>3, <3>2
  <2> QED BY <1>1, <1>5, <2>1, <2>2, <2>3
<1>7. A = 1..(u - 1)
  BY <1>1, <1>5, <1>6
<1>8. Cardinality(1..(u - 1)) = u - 1
  <2>1. u - 1 \in Int /\ 1 \in Int /\ u \in Int /\ u >= 1
    BY <1>1, <1>5
  <2>2. Cardinality(1..(u - 1)) = IF 1 > u - 1 THEN 0 ELSE (u - 1) - 1 + 1
    BY <2>1, FS_Interval
  <2> QED BY <2>1, <2>2
<1>9. Sorties(p) = Cardinality(A)
  BY DEF Sorties, L
<1>10. Sorties(p) = u - 1 /\ u - 1 \in 0..L
  <2>1. Sorties(p) = u - 1
    BY <1>7, <1>8, <1>9
  <2> QED BY <1>1, <1>5, <2>1
<1>11. \A i \in 1..L : p[i] = BUDGET_WINDOW <=> i <= Sorties(p)
  BY <1>6, <1>10
<1> QED BY <1>10, <1>11 DEF L

(* The deaths of the window, a tick later. *)
Restantes(p) == [i \in 1..(Len(p) - Sorties(p)) |-> p[i + Sorties(p)] + 1]

LEMMA TicReflete ==
    ASSUME NEW d \in [Ring -> -1..BUDGET_WINDOW], NEW n \in Ring, NEW p, Reflete(d, n, p)
    PROVE  LET e == [i \in Ring |-> IF d[i] = BUDGET_WINDOW THEN Aucun ELSE Vieillit(d[i], BUDGET_WINDOW)] IN
           Reflete(e, n, Restantes(p)) /\ Len(Restantes(p)) <= Len(p)
<1> DEFINE e == [i \in Ring |-> IF d[i] = BUDGET_WINDOW THEN Aucun ELSE Vieillit(d[i], BUDGET_WINDOW)]
           L == Len(p)
           k == Sorties(p)
           q == Restantes(p)
<1>1. /\ p \in Seq(0..BUDGET_WINDOW) /\ L \in Nat /\ L <= BUDGET_RESTARTS + 1
      /\ \A i, j \in 1..L : i < j => p[j] <= p[i]
      /\ \A i \in Ring : d[i] = IF Recul(i, n) < L THEN p[L - Recul(i, n)] ELSE Aucun
  BY DEF Reflete
<1>2. k \in 0..L /\ \A i \in 1..L : p[i] = BUDGET_WINDOW <=> i <= k
  BY <1>1, SortiesFaits
<1>3. \A i \in 1..L : p[i] \in 0..BUDGET_WINDOW
  <2>1. p \in Seq(0..BUDGET_WINDOW)
    BY <1>1
  <2> QED BY <2>1, ElementOfSeq
<1>4. q = [i \in 1..(L - k) |-> p[i + k] + 1]
  BY DEF Restantes
<1> HIDE DEF L, k, q
<1>5. ASSUME NEW i \in 1..(L - k)
      PROVE  i + k \in 1..L /\ p[i + k] \in 0..(BUDGET_WINDOW - 1) /\ q[i] = p[i + k] + 1 /\ q[i] \in 0..BUDGET_WINDOW
  <2>1. i + k \in 1..L /\ ~(i + k <= k)
    BY <1>1, <1>2, <1>5
  <2>2. p[i + k] \in 0..BUDGET_WINDOW /\ p[i + k] # BUDGET_WINDOW
    BY <1>2, <1>3, <2>1
  <2>3. q[i] = p[i + k] + 1
    BY <1>4, <1>5
  <2> QED BY <2>1, <2>2, <2>3, Constantes
<1>6. L - k \in Nat /\ L - k <= L
  BY <1>1, <1>2
<1>7. q \in [1..(L - k) -> 0..BUDGET_WINDOW]
  BY <1>4, <1>5
<1>8. q \in Seq(0..BUDGET_WINDOW) /\ Len(q) = L - k
  <2>1. q \in Seq(0..BUDGET_WINDOW)
    BY <1>6, <1>7, SeqDef
  <2>2. Len(q) \in Nat /\ DOMAIN q = 1..Len(q)
    BY <2>1, LenProperties
  <2>3. DOMAIN q = 1..(L - k)
    BY <1>7
  <2>4. Len(q) = L - k
    BY <1>6, <2>2, <2>3
  <2> QED BY <2>1, <2>4
<1>9. \A i, j \in 1..(L - k) : i < j => q[j] <= q[i]
  <2> SUFFICES ASSUME NEW i \in 1..(L - k), NEW j \in 1..(L - k), i < j PROVE q[j] <= q[i]
    OBVIOUS
  <2>1. /\ i + k \in 1..L /\ p[i + k] \in 0..(BUDGET_WINDOW - 1) /\ q[i] = p[i + k] + 1
        /\ j + k \in 1..L /\ p[j + k] \in 0..(BUDGET_WINDOW - 1) /\ q[j] = p[j + k] + 1
    BY <1>5
  <2>2. i + k < j + k
    BY <1>1, <1>2
  <2>3. p[j + k] <= p[i + k]
    BY <1>1, <2>1, <2>2
  <2> QED BY <2>1, <2>3, Constantes
<1>10. ASSUME NEW i \in Ring PROVE e[i] = IF Recul(i, n) < L - k THEN q[L - k - Recul(i, n)] ELSE Aucun
  <2> DEFINE c == Recul(i, n)
  <2>1. c \in Ring
    BY <1>10, ReculFaits
  <2>2. c \in Nat
    BY <2>1, Constantes DEF Ring
  <2>3. d[i] = IF c < L THEN p[L - c] ELSE Aucun
    BY <1>1, <1>10
  <2>4. e[i] = IF d[i] = BUDGET_WINDOW THEN Aucun ELSE Vieillit(d[i], BUDGET_WINDOW)
    BY <1>10
  <2> HIDE DEF c, e
  <2>5. CASE c < L - k
    <3>1. L - k - c \in 1..(L - k) /\ (L - k - c) + k = L - c /\ c < L
      BY <1>1, <1>2, <2>2, <2>5
    <3>2. p[L - c] \in 0..(BUDGET_WINDOW - 1) /\ q[L - k - c] = p[L - c] + 1
      BY <1>5, <3>1
    <3>3. d[i] = p[L - c]
      BY <2>3, <3>1
    <3>4. e[i] = d[i] + 1
      BY <2>4, <3>2, <3>3, Constantes DEF Vieillit, Aucun
    <3> QED BY <2>5, <3>2, <3>3, <3>4 DEF c
  <2>6. CASE ~(c < L - k) /\ c < L
    <3>1. L - c \in 1..L /\ L - c <= k
      BY <1>1, <1>2, <2>2, <2>6
    <3>2. d[i] = BUDGET_WINDOW
      BY <1>2, <2>3, <2>6, <3>1
    <3> QED BY <2>4, <2>6, <3>2 DEF c
  <2>7. CASE ~(c < L)
    <3>1. ~(c < L - k)
      BY <1>1, <1>2, <2>2, <2>7
    <3>2. d[i] = Aucun /\ Aucun # BUDGET_WINDOW
      BY <2>3, <2>7, Constantes DEF Aucun
    <3>3. e[i] = Aucun
      BY <2>4, <3>2 DEF Vieillit
    <3> QED BY <3>1, <3>3 DEF c
  <2> QED BY <2>5, <2>6, <2>7
<1> HIDE DEF e
<1>11. Reflete(e, n, q)
  <2>1. Len(q) <= BUDGET_RESTARTS + 1
    BY <1>1, <1>6, <1>8, Constantes
  <2>2. \A i, j \in 1..Len(q) : i < j => q[j] <= q[i]
    BY <1>8, <1>9
  <2>3. \A i \in Ring : e[i] = IF Recul(i, n) < Len(q) THEN q[Len(q) - Recul(i, n)] ELSE Aucun
    <3> TAKE i \in Ring
    <3>1. Recul(i, n) \in Int
      <4>1. Recul(i, n) \in Ring
        BY ReculFaits
      <4> QED BY <4>1, Constantes DEF Ring
    <3>2. Len(q) = L - k /\ L - k \in Nat /\ L \in Int /\ k \in Int
      BY <1>1, <1>2, <1>6, <1>8
    <3>3. e[i] = IF Recul(i, n) < L - k THEN q[L - k - Recul(i, n)] ELSE Aucun
      BY <1>10
    <3> QED BY <3>1, <3>2, <3>3
  <2> QED BY <1>8, <2>1, <2>2, <2>3 DEF Reflete
<1> QED BY <1>6, <1>8, <1>11 DEF e, q, L

LEMMA BudgetInit == Init => BudgetInv
<1> SUFFICES ASSUME Init PROVE BudgetInv
  OBVIOUS
<1>1. svc = [s \in Tous |-> Neuf] /\ passees = [s \in Tous |-> <<>>]
  BY DEF Init
<1>2. Neuf.deaths = [i \in Ring |-> Aucun] /\ Neuf.indice = 0
  BY DEF Neuf
<1>3. <<>> \in Seq(0..BUDGET_WINDOW) /\ Len(<<>>) = 0
  BY EmptySeq
<1>4. ASSUME NEW i \in Ring PROVE Neuf.deaths[i] = Aucun /\ ~(Recul(i, 0) < 0)
  <2>1. 0 \in Ring
    BY Constantes DEF Ring
  <2>2. Recul(i, 0) \in Ring
    BY <1>4, <2>1, ReculFaits
  <2> QED BY <1>2, <1>4, <2>2, Constantes DEF Ring
<1>5. Anneau(Neuf, <<>>)
  BY <1>2, <1>3, <1>4, Constantes DEF Anneau
<1> QED BY <1>1, <1>3, <1>5 DEF BudgetInv

(* A turn: the deaths that count, and what they lead to. *)
LEMMA BudgetTour ==
    ASSUME BudgetInv, FichesInv, Pas, NEW s \in Tous
    PROVE  /\ passees'[s] \in Seq(0..BUDGET_WINDOW) /\ Anneau(svc'[s], passees'[s])
           /\ svc[s].tenu /\ ~svc'[s].tenu /\ svc'[s].state # "Stopped" =>
                 (svc'[s].state = "Failed" <=> Len(passees'[s]) > BUDGET_RESTARTS)
<1> DEFINE r == svc[s]
           q == svc'[s]
           p == passees[s]
           n == r.indice
<1>1. Suite(r, q, s) /\ Histoire
  BY PasFaits
<1>2. FicheOK(r) /\ Anneau(r, p)
  BY DEF FichesInv, BudgetInv
<1>3. passees'[s] = IF Compte(s) THEN Append(p, 0) ELSE p
  BY <1>1 DEF Histoire, Compte
<1>4. r.deaths \in [Ring -> -1..BUDGET_WINDOW] /\ n \in Ring /\ (r.tenu <=> r.state \in Tenues)
  BY <1>2 DEF FicheOK, Fiches
<1> HIDE DEF r, q, p
<1>5. /\ Reflete(r.deaths, n, p)
      /\ Len(p) > BUDGET_RESTARTS => r.state = "Failed" \/ (r.state = "Stopped" /\ ~r.want)
  BY <1>2, AnneauFaits
<1>6. p \in Seq(0..BUDGET_WINDOW) /\ Len(p) \in Nat
  BY <1>5 DEF Reflete
<1>7. CASE Compte(s)
  <2>1. /\ r.tenu /\ q.tenu = FALSE
        /\ q.deaths = [r.deaths EXCEPT ![n] = 0] /\ q.indice = IndiceSuivant(n)
        /\ q.state \in {"Failed", "Restarting"}
        /\ q.state = "Failed" <=> Recentes(q) > BUDGET_RESTARTS
    BY <1>1, <1>7 DEF Suite
  <2>2. Len(p) <= BUDGET_RESTARTS
    BY <1>4, <1>5, <1>6, <2>1, Constantes DEF Tenues
  <2> DEFINE p1 == Append(p, 0)
  <2>3. Reflete(q.deaths, q.indice, p1)
    <3>1. Reflete([r.deaths EXCEPT ![n] = 0], IndiceSuivant(n), p1)
      <4> HIDE DEF n
      <4> QED BY <1>4, <1>5, <2>2, MortReflete
    <3> QED BY <2>1, <3>1
  <2>4. q.indice \in Ring
    BY <1>4, <2>1, IndiceFaits
  <2> HIDE DEF p1
  <2>5. Recentes(q) = Len(p1)
    BY <2>3, <2>4, CompteExact
  <2>6. q.state = "Failed" <=> Len(p1) > BUDGET_RESTARTS
    BY <2>1, <2>5
  <2>7. Anneau(q, p1)
    BY <2>3, <2>6, AnneauFaits
  <2>8. p1 \in Seq(0..BUDGET_WINDOW) /\ passees'[s] = p1
    BY <1>3, <1>7, <2>3 DEF Reflete, p1
  <2> QED BY <2>6, <2>7, <2>8 DEF r, q
<1>8. CASE ~Compte(s)
  <2>1. /\ q.deaths = r.deaths /\ q.indice = r.indice /\ q.want = r.want
        /\ r.state = "Failed" => q.state = "Failed"
        /\ r.state = "Stopped" /\ ~r.want => q.state = "Stopped"
        /\ r.tenu /\ ~q.tenu => q.state = "Stopped"
    BY <1>1, <1>8 DEF Suite
  <2>2. Anneau(q, p)
    BY <1>5, <2>1, AnneauFaits
  <2>3. passees'[s] = p
    BY <1>3, <1>8
  <2> QED BY <1>6, <2>1, <2>2, <2>3 DEF r, q
<1> QED BY <1>7, <1>8

LEMMA BudgetPas ==
    ASSUME BudgetInv, FichesInv, [Next]_vars
    PROVE  /\ BudgetInv'
           /\ \A s \in Tous : svc[s].tenu /\ ~svc'[s].tenu /\ svc'[s].state # "Stopped" =>
                 (svc'[s].state = "Failed" <=> Len(passees'[s]) > BUDGET_RESTARTS)
<1>1. CASE Temps
  <2>1. passees' = [s \in Tous |-> Restantes(passees[s])]
    BY <1>1 DEF Temps, Restantes
  <2>2. ASSUME NEW s \in Tous
        PROVE  /\ passees'[s] \in Seq(0..BUDGET_WINDOW) /\ Anneau(svc'[s], passees'[s])
               /\ svc'[s].tenu = svc[s].tenu
    <3> DEFINE r == svc[s]
               q == svc'[s]
               p == passees[s]
    <3>1. FicheOK(r) /\ Anneau(r, p) /\ q = Tic(r) /\ passees'[s] = Restantes(p)
      BY <1>1, <2>1, <2>2, TempsFaits DEF FichesInv, BudgetInv
    <3> HIDE DEF r, q, p
    <3>2. /\ q.state = r.state /\ q.tenu = r.tenu /\ q.want = r.want /\ q.indice = r.indice
          /\ q.deaths = [i \in Ring |-> IF r.deaths[i] = BUDGET_WINDOW THEN Aucun ELSE Vieillit(r.deaths[i], BUDGET_WINDOW)]
      BY <3>1, TicFaits
    <3>3. /\ Reflete(r.deaths, r.indice, p)
          /\ Len(p) > BUDGET_RESTARTS => r.state = "Failed" \/ (r.state = "Stopped" /\ ~r.want)
      BY <3>1, AnneauFaits
    <3>4. r.deaths \in [Ring -> -1..BUDGET_WINDOW] /\ r.indice \in Ring
      BY <3>1 DEF FicheOK, Fiches
    <3>5. Reflete(q.deaths, q.indice, Restantes(p)) /\ Len(Restantes(p)) <= Len(p)
      <4> DEFINE d == r.deaths
                 n == r.indice
      <4>1. d \in [Ring -> -1..BUDGET_WINDOW] /\ n \in Ring /\ Reflete(d, n, p)
        BY <3>3, <3>4
      <4> HIDE DEF d, n
      <4>2. LET e == [i \in Ring |-> IF d[i] = BUDGET_WINDOW THEN Aucun ELSE Vieillit(d[i], BUDGET_WINDOW)] IN
            Reflete(e, n, Restantes(p)) /\ Len(Restantes(p)) <= Len(p)
        BY <4>1, TicReflete
      <4> QED BY <3>2, <4>2 DEF d, n
    <3>6. Restantes(p) \in Seq(0..BUDGET_WINDOW) /\ p \in Seq(0..BUDGET_WINDOW)
      BY <3>3, <3>5 DEF Reflete
    <3>7. Len(Restantes(p)) > BUDGET_RESTARTS => Len(p) > BUDGET_RESTARTS
      <4>1. Len(Restantes(p)) \in Nat /\ Len(p) \in Nat
        BY <3>6, LenProperties
      <4> QED BY <3>5, <4>1, Constantes
    <3>8. Anneau(q, Restantes(p))
      BY <3>2, <3>3, <3>5, <3>7, AnneauFaits
    <3> QED BY <3>1, <3>2, <3>6, <3>8 DEF r, q
  <2>3. passees' \in [Tous -> Seq(0..BUDGET_WINDOW)]
    BY <2>1, <2>2
  <2> QED BY <2>2, <2>3 DEF BudgetInv
<1>2. CASE Pas
  <2>1. \A s \in Tous :
           /\ passees'[s] \in Seq(0..BUDGET_WINDOW) /\ Anneau(svc'[s], passees'[s])
           /\ svc[s].tenu /\ ~svc'[s].tenu /\ svc'[s].state # "Stopped" =>
                 (svc'[s].state = "Failed" <=> Len(passees'[s]) > BUDGET_RESTARTS)
    BY <1>2, BudgetTour
  <2>2. passees' = [s \in Tous |-> passees'[s]]
    <3>1. Histoire
      BY <1>2, PasFaits
    <3> QED BY <3>1 DEF Histoire
  <2>3. passees' \in [Tous -> Seq(0..BUDGET_WINDOW)]
    BY <2>1, <2>2
  <2> QED BY <2>1, <2>3 DEF BudgetInv
<1>3. CASE Arrete
  <2>1. svc' = [s \in Tous |-> Stop(svc[s])] /\ passees' = passees
    BY <1>3 DEF Arrete
  <2>2. ASSUME NEW s \in Tous PROVE Anneau(svc'[s], passees[s]) /\ svc'[s].tenu = svc[s].tenu
    <3>1. FicheOK(svc[s]) /\ Anneau(svc[s], passees[s]) /\ svc'[s] = Stop(svc[s])
      BY <2>1, <2>2 DEF FichesInv, BudgetInv
    <3>2. /\ svc'[s].tenu = svc[s].tenu /\ svc'[s].want = FALSE
          /\ svc'[s].indice = svc[s].indice /\ svc'[s].deaths = svc[s].deaths
          /\ svc'[s].state = IF svc[s].tenu THEN "Stopping" ELSE "Stopped"
      BY <3>1, StopFaits
    <3>3. svc[s].tenu <=> svc[s].state \in Tenues
      BY <3>1 DEF FicheOK
    <3>4. Len(passees[s]) > BUDGET_RESTARTS => svc'[s].state = "Stopped" /\ ~svc'[s].want
      BY <3>1, <3>2, <3>3, AnneauFaits DEF Tenues
    <3>5. Anneau(svc'[s], passees[s])
      BY <3>1, <3>2, <3>4, AnneauFaits
    <3> QED BY <3>2, <3>5
  <2> QED BY <2>1, <2>2 DEF BudgetInv
<1>4. CASE (\E s \in Tous : Repond(s) \/ Meurt(s) \/ Plante(s) \/ Pend(s)) \/ UNCHANGED vars
  <2>1. UNCHANGED <<svc, passees>>
    BY <1>4 DEF Repond, Meurt, Plante, Pend, vars, histoire
  <2> QED BY <2>1 DEF BudgetInv
<1> QED BY <1>1, <1>2, <1>3, <1>4 DEF Next

LEMMA BudgetToujours == Spec => []BudgetInv
<1>1. FichesInv /\ BudgetInv /\ [Next]_vars => BudgetInv'
  BY BudgetPas
<1> QED BY <1>1, BudgetInit, FichesToujours, PTL DEF Spec

(* The crash budget is exact (serviced.c:17-19) for every size of the ring *)
(* and of the window: a death leads to Failed exactly when it is one more  *)
(* than BUDGET_RESTARTS within BUDGET_WINDOW.  The ring of BUDGET_RESTARTS *)
(* + 1 slots never loses a death of the window, since the one it overwrites *)
(* has left it as long as the budget is not spent.                         *)
THEOREM BudgetToujoursExact == Spec => BudgetExact
<1>1. FichesInv /\ BudgetInv /\ [Next]_vars =>
         [\A s \in Tous : svc[s].tenu /\ ~svc'[s].tenu /\ svc'[s].state # "Stopped" =>
             (svc'[s].state = "Failed" <=> Len(passees'[s]) > BUDGET_RESTARTS)]_vars
  BY BudgetPas
<1> QED BY <1>1, FichesToujours, BudgetToujours, PTL DEF Spec, BudgetExact

============================================================================
