------------------------------- MODULE Services -------------------------------
(***************************************************************************)
(* serviced, the native supervisor (userland/services/serviced/serviced.c):*)
(* services launched with a control channel and watched through a process  *)
(* object; heartbeat, restart with backoff, crash budget, dependencies;    *)
(* and, as the system supervisor, the health of the boot, which it commits *)
(* once to the A/B update (module AbUpdate, commit_sante).                 *)
(*                                                                         *)
(* Time is kept as ages: how long ago a ping, a pong, a death was, each    *)
(* capped where the code stops telling the difference.  The supervisor is  *)
(* one thread: a turn of its loop is one action, since all it shares with  *)
(* the services is their channels and their deaths, which the wait reads   *)
(* once a turn.  Services answer, hang, crash and die between two turns.   *)
(***************************************************************************)
EXTENDS Integers, Sequences, FiniteSets

CONSTANTS N,               \* services, in the order they were added
          DependDe,        \* depends_on: the service each one needs, 0 for none
          BUDGET_RESTARTS, BUDGET_WINDOW, BACKOFF_MIN, BACKOFF_MAX,
          HEARTBEAT_PERIOD, HEARTBEAT_MISSES, STOP_GRACE,
          HEALTH_WINDOW, HEALTH_DEADLINE,
          Modes,           \* "system", and "qualify", where services are also stopped
          MaxFautes        \* bound: crashes, hangs, spawns that fail

ASSUME ServicesAssumption ==
    /\ N \in Nat \ {0} /\ DependDe \in [1..N -> 0..N] /\ \A s \in 1..N : DependDe[s] < s
    /\ {BUDGET_RESTARTS, BUDGET_WINDOW, BACKOFF_MIN, BACKOFF_MAX, HEARTBEAT_PERIOD,
        HEARTBEAT_MISSES, STOP_GRACE, HEALTH_WINDOW, HEALTH_DEADLINE} \subseteq Nat \ {0}
    /\ MaxFautes \in Nat

VARIABLES
    svc,      \* per service: struct service
    enfant,   \* per service: its process, seen from outside
    ordres, reponses,   \* per service: the two queues of its control channel
    mode,
    sys, healthy_since, committed, uptime,   \* system_mode
    fautes,
    passees, tourne   \* history: per service, the ages of its deaths within the window,
                      \* and for how long it has been Running

canal == <<ordres, reponses>>
sante == <<sys, healthy_since, committed>>
histoire == <<passees, tourne>>
vars == <<svc, enfant, canal, mode, sante, uptime, fautes, histoire>>

Tous == 1..N
Ring == 0..BUDGET_RESTARTS
Aucun == -1                     \* a time that is not running
Vieillit(a, cap) == IF a = Aucun \/ a = cap THEN a ELSE a + 1
Decompte(a) == IF a = Aucun \/ a = 0 THEN a ELSE a - 1

(* add_service *)
Neuf == [state |-> "Stopped", tenu |-> FALSE, deaths |-> [i \in Ring |-> Aucun],
         indice |-> 0, backoff |-> 0, restart |-> Aucun, stop |-> Aucun,
         ping |-> Aucun, pong |-> 0, missed |-> 0, killed |-> FALSE, want |-> TRUE]

Init ==
    /\ svc = [s \in Tous |-> Neuf]
    /\ enfant = [s \in Tous |-> "absent"]
    /\ ordres = [s \in Tous |-> <<>>] /\ reponses = [s \in Tous |-> <<>>]
    /\ mode \in Modes
    /\ sys = "StartingServices" /\ healthy_since = Aucun /\ committed = FALSE /\ uptime = 0
    /\ fautes = 0
    /\ passees = [s \in Tous |-> <<>>] /\ tourne = [s \in Tous |-> Aucun]

(* A tick takes the oldest deaths out of the window. *)
Sorties(p) == Cardinality({i \in 1..Len(p) : p[i] = BUDGET_WINDOW})

(* One tick of the clock. *)
Temps ==
    /\ svc' = [s \in Tous |-> [svc[s] EXCEPT
          !.deaths = [i \in Ring |-> IF @[i] = BUDGET_WINDOW THEN Aucun ELSE Vieillit(@[i], BUDGET_WINDOW)],
          !.restart = Decompte(@), !.stop = Decompte(@),
          !.ping = Vieillit(@, HEARTBEAT_PERIOD), !.pong = Vieillit(@, HEARTBEAT_PERIOD)]]
    /\ healthy_since' = Vieillit(healthy_since, HEALTH_WINDOW)
    /\ uptime' = IF mode = "system" /\ sys = "StartingServices"
                 THEN Vieillit(uptime, HEALTH_DEADLINE + 1) ELSE uptime
    /\ passees' = [s \in Tous |-> [i \in 1..(Len(passees[s]) - Sorties(passees[s])) |->
                                      passees[s][i + Sorties(passees[s])] + 1]]
    /\ tourne' = [s \in Tous |-> Vieillit(tourne[s], HEALTH_WINDOW)]
    /\ UNCHANGED <<enfant, canal, mode, sys, committed, fautes>>

----------------------------------------------------------------------------
(* The services (healthd.c): a line in, a line out, in order.  A message   *)
(* about a ping that a later ping replaced is old.  A killed service dies  *)
(* at its next return to user space, and may answer until then.            *)
Repond(s) ==
    /\ enfant[s] \in {"vivant", "condamne"} /\ ordres[s] # <<>>
    /\ ordres' = [ordres EXCEPT ![s] = Tail(@)]
    /\ LET o == Head(ordres[s]) IN
          /\ reponses' = [reponses EXCEPT ![s] = Append(@,
                CASE o = "hello" -> "ready" [] o = "stop" -> "bye" [] OTHER -> o)]
          /\ enfant' = IF o = "stop" THEN [enfant EXCEPT ![s] = "mort"] ELSE enfant
    /\ UNCHANGED <<svc, mode, sante, uptime, fautes, histoire>>

Meurt(s) ==
    /\ enfant[s] = "condamne" /\ enfant' = [enfant EXCEPT ![s] = "mort"]
    /\ UNCHANGED <<svc, canal, mode, sante, uptime, fautes, histoire>>

Plante(s) ==
    /\ enfant[s] = "vivant" /\ fautes < MaxFautes /\ fautes' = fautes + 1
    /\ enfant' = [enfant EXCEPT ![s] = "mort"]
    /\ UNCHANGED <<svc, canal, mode, sante, uptime, histoire>>

Pend(s) ==
    /\ enfant[s] = "vivant" /\ fautes < MaxFautes /\ fautes' = fautes + 1
    /\ enfant' = [enfant EXCEPT ![s] = "pendu"]
    /\ UNCHANGED <<svc, canal, mode, sante, uptime, histoire>>

----------------------------------------------------------------------------
(* on_message drains the channel; no ping is in flight before "ready". *)
OnMessage(s) ==
    LET r == svc[s]
        recu == {reponses[s][i] : i \in DOMAIN reponses[s]} IN
    CASE "ready" \in recu /\ r.state = "Starting" ->
             [r EXCEPT !.state = "Running", !.pong = 0, !.backoff = 0]
      [] "ping" \in recu /\ r.ping # Aucun ->
             [r EXCEPT !.ping = Aucun, !.pong = 0, !.missed = 0,
                       !.state = IF @ = "Degraded" THEN "Running" ELSE @]
      [] OTHER -> r

(* wrong variant: the ring does not advance *)
IndiceFixe(i) == i

(* budget_spent: writes the ring, then counts; indice is death_count modulo its size *)
IndiceSuivant(i) == (i + 1) % (BUDGET_RESTARTS + 1)

NoteMort(r) == [r EXCEPT !.deaths[r.indice] = 0, !.indice = IndiceSuivant(@)]

Recentes(r) == Cardinality({i \in Ring : r.deaths[i] # Aucun})

(* wrong variant: the handles of the dead are kept *)
RelacheJamais(r) == r

Relache(r) == [r EXCEPT !.tenu = FALSE]

(* on_death: handles released, then Stopped, Failed or Restarting *)
Voulue(r) == r.state # "Stopping" /\ r.want

Double(b) == LET d == IF b = 0 THEN BACKOFF_MIN ELSE 2 * b IN
             IF d > BACKOFF_MAX THEN BACKOFF_MAX ELSE d

OnDeath(r) ==
    LET q == Relache(r)
        d == NoteMort(q) IN
    CASE ~Voulue(r) -> [q EXCEPT !.state = "Stopped"]
      [] Voulue(r) /\ Recentes(d) > BUDGET_RESTARTS -> [d EXCEPT !.state = "Failed"]
      [] OTHER -> [d EXCEPT !.state = "Restarting", !.backoff = Double(@), !.restart = Double(d.backoff)]

(* The first half of step: the events of the wait.  TERMINATED drains the  *)
(* channel too, before on_death.                                           *)
Termine(s) == svc[s].tenu /\ enfant[s] = "mort"

Evenements(s) ==
    IF Termine(s)
    THEN [svc |-> OnDeath(OnMessage(s)), enfant |-> "absent", ordres |-> <<>>, reponses |-> <<>>]
    ELSE [svc |-> OnMessage(s), enfant |-> enfant[s], ordres |-> ordres[s], reponses |-> <<>>]

----------------------------------------------------------------------------
(* The second half, on a service x: restart, first start, overdue stop,    *)
(* heartbeat.                                                              *)
Redemarre(r) == r.state = "Restarting" /\ r.restart = 0

Demarrable(r, dependance) == r.state = "Stopped" /\ r.want /\ dependance

Lance(r, dependance) == Redemarre(r) \/ Demarrable(r, dependance)

(* wrong variant: the new process inherits the mark of the killed one *)
StartDejaTuee(r) == [svc |-> [r EXCEPT !.state = "Starting", !.tenu = TRUE, !.ping = Aucun,
                                       !.missed = 0, !.restart = Aucun],
                     enfant |-> "vivant", ordres |-> <<"hello">>, reponses |-> <<>>]

(* start, on a new channel *)
Start(r) == [svc |-> [r EXCEPT !.state = "Starting", !.tenu = TRUE, !.ping = Aucun, !.missed = 0,
                               !.killed = FALSE, !.restart = Aucun],
             enfant |-> "vivant", ordres |-> <<"hello">>, reponses |-> <<>>]

(* wrong variant: a stop is never enforced *)
PresseJamais(r) == FALSE

Presse(r) == r.state = "Stopping" /\ r.stop = 0 /\ r.tenu

(* bo_process_kill *)
Tue(x) == [x EXCEPT !.enfant = IF @ = "mort" THEN @ ELSE "condamne"]

(* heartbeat *)
Veillee(r) == r.state \in {"Running", "Degraded"} /\ ~r.killed

Echue(r) == HEARTBEAT_PERIOD = IF r.ping # Aucun THEN r.ping ELSE r.pong

Manques(r) == r.missed + (IF r.ping # Aucun THEN 1 ELSE 0)

TropDePertes(r) == r.ping # Aucun /\ Manques(r) >= HEARTBEAT_MISSES

Vieux(q) == [i \in DOMAIN q |-> IF q[i] = "ping" THEN "vieux" ELSE q[i]]

Heartbeat(x) ==
    LET r == x.svc IN
    CASE ~(Veillee(r) /\ Echue(r)) -> x
      [] Veillee(r) /\ Echue(r) /\ TropDePertes(r) ->
            Tue([x EXCEPT !.svc.missed = Manques(r), !.svc.state = "Degraded", !.svc.killed = TRUE])
      [] OTHER ->
            [x EXCEPT !.svc.missed = Manques(r), !.svc.ping = 0,
                      !.ordres = Append(Vieux(@), "ping"), !.reponses = Vieux(@)]

(* The service s depends on runs.  It comes before s in the turn: only its *)
(* heartbeat may have made it Degraded, a launch leaves it Starting.       *)
Dependance(s, ev) == DependDe[s] # 0 => Heartbeat(ev[DependDe[s]]).svc.state = "Running"

(* echoue: its spawn fails *)
Entretien(x, dependance, echoue) ==
    CASE Lance(x.svc, dependance) -> IF echoue THEN x ELSE Start(x.svc)
      [] Presse(x.svc) -> Tue([x EXCEPT !.svc.stop = STOP_GRACE])
      [] OTHER -> Heartbeat(x)

----------------------------------------------------------------------------
(* system_mode, after each step; every service is critical. *)
ToutTourne == \A s \in Tous : svc'[s].state = "Running"
UnEchoue == \E s \in Tous : svc'[s].state = "Failed"

(* wrong variant: the window survives a death *)
DepuisPerdu == IF ToutTourne /\ healthy_since = Aucun THEN 0 ELSE healthy_since

Depuis == IF ~ToutTourne THEN Aucun ELSE IF healthy_since = Aucun THEN 0 ELSE healthy_since

Sante ==
    \/ (mode # "system" \/ sys = "RecoveryRequired") /\ UNCHANGED sante
    \/ /\ mode = "system" /\ sys # "RecoveryRequired"
       /\ \/ UnEchoue /\ sys' = "RecoveryRequired" /\ UNCHANGED <<healthy_since, committed>>
          \/ /\ ~UnEchoue /\ ~ToutTourne
             /\ healthy_since' = Depuis /\ UNCHANGED committed
             /\ sys' = CASE sys = "Healthy" -> "Degraded"
                         [] sys = "StartingServices" /\ uptime > HEALTH_DEADLINE -> "RecoveryRequired"
                         [] OTHER -> sys
          \/ /\ ~UnEchoue /\ ToutTourne
             /\ healthy_since' = Depuis
             /\ IF healthy_since' < HEALTH_WINDOW THEN UNCHANGED <<sys, committed>>
                ELSE sys' = "Healthy" /\ committed' = TRUE

(* A service is Running since it last became so; a death counts unless asked for. *)
Histoire ==
    /\ tourne' = [s \in Tous |-> CASE svc'[s].state # "Running" -> Aucun
                                   [] svc'[s].state = "Running" /\ svc[s].state = "Running" -> tourne[s]
                                   [] OTHER -> 0]
    /\ passees' = [s \in Tous |-> IF Termine(s) /\ Voulue(OnMessage(s))
                                  THEN Append(passees[s], 0) ELSE passees[s]]

(* A turn of the loop; the second half takes the services in order. *)
Tour(ev, echoue) == [s \in Tous |-> Entretien(ev[s], Dependance(s, ev), s \in echoue)]

Pas == \E ev \in {[s \in Tous |-> Evenements(s)]}, echoue \in SUBSET Tous : \E e \in {Tour(ev, echoue)} :
    /\ \A s \in echoue : Lance(ev[s].svc, Dependance(s, ev))
    /\ fautes + Cardinality(echoue) <= MaxFautes /\ fautes' = fautes + Cardinality(echoue)
    /\ svc' = [s \in Tous |-> e[s].svc]
    /\ enfant' = [s \in Tous |-> e[s].enfant]
    /\ ordres' = [s \in Tous |-> e[s].ordres]
    /\ reponses' = [s \in Tous |-> e[s].reponses]
    /\ Sante /\ Histoire
    /\ UNCHANGED <<mode, uptime>>

(* stop, of every service: the qualification asks for it, between two turns *)
Stop(r) == [r EXCEPT !.want = FALSE, !.state = IF r.tenu THEN "Stopping" ELSE "Stopped",
                     !.stop = IF r.tenu THEN STOP_GRACE ELSE @]

Arrete ==
    /\ mode = "qualify" /\ \A s \in Tous : svc[s].want
    /\ svc' = [s \in Tous |-> Stop(svc[s])]
    /\ ordres' = [s \in Tous |-> IF svc[s].tenu THEN Append(ordres[s], "stop") ELSE ordres[s]]
    /\ tourne' = [s \in Tous |-> Aucun]
    /\ UNCHANGED <<enfant, reponses, mode, sante, uptime, fautes, passees>>

Next == Temps \/ Pas \/ Arrete \/ \E s \in Tous : Repond(s) \/ Meurt(s) \/ Plante(s) \/ Pend(s)

Spec == Init /\ [][Next]_vars

(* Time passes, the supervisor's loop turns, and a service that neither    *)
(* hangs nor crashes answers, or dies when it is killed.                   *)
FairSpec ==
    /\ Spec /\ WF_vars(Temps) /\ WF_vars(Pas)
    /\ \A s \in Tous : WF_vars(Repond(s) \/ Meurt(s))

----------------------------------------------------------------------------
Etats == {"Stopped", "Starting", "Running", "Degraded", "Restarting", "Stopping", "Failed"}

(* Types; and the handles: a service holds its channel and its process     *)
(* object exactly while it has a process, from start to on_death, whatever *)
(* failed in between (serviced.c, "no handle leak across a crash/restart").*)
TypeOK ==
    /\ \A s \in Tous :
          /\ svc[s].state \in Etats /\ svc[s].missed \in 0..HEARTBEAT_MISSES
          /\ svc[s].backoff \in 0..BACKOFF_MAX /\ svc[s].indice \in Ring
          /\ svc[s].deaths \in [Ring -> -1..BUDGET_WINDOW]
          /\ enfant[s] \in {"absent", "vivant", "pendu", "condamne", "mort"}
          /\ svc[s].tenu <=> svc[s].state \in {"Starting", "Running", "Degraded", "Stopping"}
          /\ svc[s].tenu <=> enfant[s] # "absent"
    /\ sys \in {"StartingServices", "Healthy", "Degraded", "RecoveryRequired"}
    /\ committed \in BOOLEAN /\ fautes \in 0..MaxFautes

(* serviced.c:17-19, the crash budget: a death leads to Failed exactly     *)
(* when it is one more than BUDGET_RESTARTS within BUDGET_WINDOW.          *)
BudgetExact ==
    [][\A s \in Tous : svc[s].tenu /\ ~svc'[s].tenu /\ svc'[s].state # "Stopped" =>
          (svc'[s].state = "Failed" <=> Len(passees'[s]) > BUDGET_RESTARTS)]_vars

(* serviced.c:667, the health contract: the boot is committed only when    *)
(* every critical service has been Running, without a death, for the whole *)
(* window, however deaths, restarts and samples interleaved.               *)
CommitSain ==
    [][~committed /\ committed' => \A s \in Tous : tourne[s] = HEALTH_WINDOW]_vars

(* serviced.c, stop: a service asked to stop ends Stopped, its process     *)
(* collected, whatever it was doing: starting, hung, crashing, backing off.*)
ArretAboutit == \A s \in Tous :
    ~svc[s].want ~> [](svc[s].state = "Stopped" /\ enfant[s] = "absent")

(* serviced.c:387-389, the heartbeat: a service that hangs once Running is *)
(* found out, killed and collected.                                        *)
PenduTrouve == \A s \in Tous :
    (svc[s].state = "Running" /\ enfant[s] = "pendu") ~> (enfant[s] = "absent")

(* serviced.c:19-20, "A dependency is started only once the service it     *)
(* depends on is Running".                                                 *)
DependanceDAbord ==
    [][\A s \in Tous : svc[s].state # "Starting" /\ svc'[s].state = "Starting" =>
          (DependDe[s] # 0 => svc'[DependDe[s]].state = "Running")]_vars

=============================================================================
