----------------------------- MODULE VeilleProofs -----------------------------
(***************************************************************************)
(* What holds of Veille for every watched set, queue limit and number of   *)
(* signals: no wake-up is lost between the ticket and the sleep, and the   *)
(* death of a child closes its channel before it is announced.             *)
(***************************************************************************)
EXTENDS Veille, TLAPS

(* publications whose generation is counted and whose wake is not *)
EnCours(a) == IF pub[a] = "avancee" THEN 1 ELSE 0

(* o shows a signal that some operation publishes *)
Leve(o) ==
    \/ o = "canal" /\ (recu > 0 \/ ferme)
    \/ o = "evt" /\ evt
    \/ o = "proc" /\ termine

(* an object already polled by this turn, which found nothing, has a       *)
(* signal up now                                                           *)
Manque == att.vus = {} /\ \E o \in surveilles \ att.reste : Leve(o)

-----------------------------------------------------------------------------
(* The inductive invariant *)

(* the queue counts the wake-ups the generation announced, and no more *)
Comptes ==
    /\ file + EnCours("enfant") + EnCours("autre") + EnCours("mort") <= gen
    /\ Pas("lance") <=> vie = "absent"

(* what the supervisor missed since its ticket is due, or shows in the     *)
(* counter its next check reads                                            *)
Ticket ==
    /\ att.pas \in {"verifie", "gare", "garee"} => att.vus = {} /\ att.reste = {}
    /\ att.pas \in {"sonde", "verifie"} /\ Manque
          => gen # att.gen \/ \E a \in Acteurs : pub[a] = "due"
    /\ Pas("gare") /\ Manque
          => file # att.file \/ \E a \in Acteurs : pub[a] # "faite"
    /\ Pas("garee") /\ Manque => \E a \in Acteurs : pub[a] # "faite"

(* the channel of the dead is closed once its handles are released and no  *)
(* thread of it is in a call                                               *)
Deces ==
    /\ vie \in {"libere", "cherche", "notee"} /\ enfant = "repos" => ferme
    /\ termine => vie \notin {"absent", "vivant"}
    /\ touche => vie \in {"cherche", "notee"}

IInv == TypeOK /\ Comptes /\ Ticket /\ Deces

-----------------------------------------------------------------------------
(* the signals of an object, as the poll collects them *)
LEMMA SignauxType ==
    ASSUME NEW o \in {"canal", "evt", "proc"}
    PROVE  /\ Signaux(o) \subseteq {"READABLE", "WRITABLE", "PEER_CLOSED", "SIGNALED", "TERMINATED"}
           /\ Leve(o) <=> ~(Signaux(o) \subseteq {"WRITABLE"})
BY DEF Signaux, Leve

(* the supervisor's state after a step that keeps its ticket *)
Apres(p, reste, vus) == [pas |-> p, gen |-> att.gen, file |-> att.file, reste |-> reste, vus |-> vus]

(* Sonde polls one object *)
LEMMA SondeForme ==
    ASSUME TypeOK, Sonde
    PROVE  /\ Pas("sonde")
           /\ UNCHANGED <<surveilles, gen, file, objets, mort, enfant, pub, montees>>
           /\ \E o \in att.reste : att' = Apres(att.pas, att.reste \ {o}, att.vus \cup Signaux(o))
<1>1. PICK o \in att.reste : att' = [att EXCEPT !.reste = @ \ {o}, !.vus = @ \cup Signaux(o)]
  BY DEF Sonde
<1>2. att' = Apres(att.pas, att.reste \ {o}, att.vus \cup Signaux(o))
  BY <1>1, Zenon DEF TypeOK, Apres
<1> QED BY <1>2 DEF Sonde

(* Tranche ends the sleep, and keeps the ticket *)
LEMMA TrancheForme ==
    ASSUME TypeOK, Tranche
    PROVE  /\ Pas("garee")
           /\ UNCHANGED <<surveilles, gen, file, objets, mort, enfant, pub, montees>>
           /\ \E p \in {"ticket", "rend"} : att' = Apres(p, att.reste, {})
<1>1. PICK p \in {"ticket", "rend"} : att' = [att EXCEPT !.pas = p, !.vus = {}]
  BY DEF Tranche
<1>2. att' = Apres(p, att.reste, {})
  BY <1>1, Zenon DEF TypeOK, Apres
<1> QED BY <1>2 DEF Tranche

(* every step keeps the types; the wake-ups done stay behind the generation *)
LEMMA TypePas ==
    ASSUME IInv, [Next]_vars
    PROVE  TypeOK'
<1> USE VeilleAssumption DEF IInv, TypeOK, Comptes, EnCours, Acteurs, objets, mort
<1>1. CASE Lance
  BY <1>1 DEF Lance, Pas, Va
<1>2. CASE Suit
  BY <1>2 DEF Suit, Pas, Va
<1>3. CASE SuitLit
  BY <1>3 DEF SuitLit, Pas, Va, Lu
<1>4. CASE Attend
  BY <1>4 DEF Attend, Pas, Va
<1>5. CASE PrendTicket
  BY <1>5 DEF PrendTicket, Pas
<1>6. CASE Sonde
  <2>1. PICK o \in att.reste : att' = Apres(att.pas, att.reste \ {o}, att.vus \cup Signaux(o))
    BY <1>6, SondeForme
  <2>2. Signaux(o) \subseteq {"READABLE", "WRITABLE", "PEER_CLOSED", "SIGNALED", "TERMINATED"}
    BY SignauxType
  <2> QED BY <1>6, <2>1, <2>2, SondeForme DEF Apres
<1>7. CASE SondeFini
  BY <1>7 DEF SondeFini, Pas, Va
<1>8. CASE Verifie
  BY <1>8 DEF Verifie, Pas, Va
<1>9. CASE Gare
  BY <1>9 DEF Gare, Pas, Va
<1>10. CASE Rend
  BY <1>10 DEF Rend, Pas, Va
<1>11. CASE Tranche
  BY <1>11, TrancheForme DEF Apres
<1>12. CASE EnvoieAEnfant
  BY <1>12 DEF EnvoieAEnfant, Monte, Publie
<1>13. CASE Signale
  BY <1>13 DEF Signale, Monte, Publie
<1>14. CASE Reset
  BY <1>14 DEF Reset
<1>15. CASE EnfantEntre
  BY <1>15 DEF EnfantEntre
<1>16. CASE EnfantEnvoie
  BY <1>16 DEF EnfantEnvoie, Monte, Publie
<1>17. CASE EnfantRecoit
  BY <1>17 DEF EnfantRecoit
<1>18. CASE EnfantSort
  <2>1. CASE vie \in {"absent", "vivant", "zombie"}
    BY <1>18, <2>1 DEF EnfantSort
  <2>2. CASE vie \notin {"absent", "vivant", "zombie"}
    BY <1>18, <2>2 DEF EnfantSort, Publie
  <2> QED BY <2>1, <2>2
<1>19. CASE MortZombie
  BY <1>19 DEF MortZombie
<1>20. CASE MortLibere
  <2>1. CASE enfant = "repos"
    BY <1>20, <2>1 DEF MortLibere, Publie
  <2>2. CASE enfant # "repos"
    BY <1>20, <2>2 DEF MortLibere
  <2> QED BY <2>1, <2>2
<1>21. CASE MortCherche
  BY <1>21 DEF MortCherche
<1>22. CASE MortNote
  BY <1>22 DEF MortNote, Publie
<1>23. ASSUME NEW a \in Acteurs, AvanceGeneration(a) PROVE TypeOK'
  BY <1>23 DEF AvanceGeneration
<1>24. ASSUME NEW a \in Acteurs, WakeAll(a) PROVE TypeOK'
  BY <1>24 DEF WakeAll
<1>25. CASE UNCHANGED vars
  BY <1>25 DEF vars
<1> QED
  BY <1>1, <1>2, <1>3, <1>4, <1>5, <1>6, <1>7, <1>8, <1>9, <1>10, <1>11, <1>12, <1>13, <1>14, <1>15, <1>16, <1>17, <1>18, <1>19, <1>20, <1>21, <1>22, <1>23, <1>24, <1>25
  DEF Next, Attente, Mort, Publication

(* every step keeps the two counters of the source in step *)
LEMMA ComptesPas ==
    ASSUME IInv, [Next]_vars
    PROVE  Comptes'
<1> USE VeilleAssumption DEF IInv, TypeOK, Comptes, EnCours, Acteurs, Pas, objets, mort
<1>1. CASE Lance
  BY <1>1 DEF Lance, Va
<1>2. CASE Suit
  BY <1>2 DEF Suit, Va
<1>3. CASE SuitLit
  BY <1>3 DEF SuitLit, Va, Lu
<1>4. CASE Attend
  BY <1>4 DEF Attend, Va
<1>5. CASE PrendTicket
  BY <1>5 DEF PrendTicket
<1>6. CASE Sonde
  BY <1>6 DEF Sonde
<1>7. CASE SondeFini
  BY <1>7 DEF SondeFini, Va
<1>8. CASE Verifie
  BY <1>8 DEF Verifie, Va
<1>9. CASE Gare
  BY <1>9 DEF Gare, Va
<1>10. CASE Rend
  BY <1>10 DEF Rend, Va
<1>11. CASE Tranche
  BY <1>11, TrancheForme DEF Apres
<1>12. CASE EnvoieAEnfant
  BY <1>12 DEF EnvoieAEnfant, Monte, Publie
<1>13. CASE Signale
  BY <1>13 DEF Signale, Monte, Publie
<1>14. CASE Reset
  BY <1>14 DEF Reset
<1>15. CASE EnfantEntre
  BY <1>15 DEF EnfantEntre
<1>16. CASE EnfantEnvoie
  BY <1>16 DEF EnfantEnvoie, Monte, Publie
<1>17. CASE EnfantRecoit
  BY <1>17 DEF EnfantRecoit
<1>18. CASE EnfantSort
  BY <1>18 DEF EnfantSort, Publie
<1>19. CASE MortZombie
  BY <1>19 DEF MortZombie
<1>20. CASE MortLibere
  BY <1>20 DEF MortLibere, Publie
<1>21. CASE MortCherche
  BY <1>21 DEF MortCherche
<1>22. CASE MortNote
  BY <1>22 DEF MortNote, Publie
<1>23. ASSUME NEW a \in Acteurs, AvanceGeneration(a) PROVE Comptes'
  BY <1>23 DEF AvanceGeneration
<1>24. ASSUME NEW a \in Acteurs, WakeAll(a) PROVE Comptes'
  BY <1>24 DEF WakeAll
<1>25. CASE UNCHANGED vars
  BY <1>25 DEF vars
<1> QED
  BY <1>1, <1>2, <1>3, <1>4, <1>5, <1>6, <1>7, <1>8, <1>9, <1>10, <1>11, <1>12, <1>13, <1>14, <1>15, <1>16, <1>17, <1>18, <1>19, <1>20, <1>21, <1>22, <1>23, <1>24, <1>25
  DEF Next, Attente, Mort, Publication

(* every step keeps the order of a death *)
LEMMA DecesPas ==
    ASSUME IInv, [Next]_vars
    PROVE  Deces'
<1> USE VeilleAssumption DEF IInv, TypeOK, Comptes, Deces, Pas, Acteurs, objets, mort
<1>1. CASE Lance
  BY <1>1 DEF Lance, Va
<1>2. CASE Suit
  BY <1>2 DEF Suit, Va
<1>3. CASE SuitLit
  BY <1>3 DEF SuitLit, Va, Lu
<1>4. CASE Attend
  BY <1>4 DEF Attend, Va
<1>5. CASE PrendTicket
  BY <1>5 DEF PrendTicket
<1>6. CASE Sonde
  BY <1>6 DEF Sonde
<1>7. CASE SondeFini
  BY <1>7 DEF SondeFini, Va
<1>8. CASE Verifie
  BY <1>8 DEF Verifie, Va
<1>9. CASE Gare
  BY <1>9 DEF Gare, Va
<1>10. CASE Rend
  BY <1>10 DEF Rend, Va
<1>11. CASE Tranche
  BY <1>11, TrancheForme DEF Apres
<1>12. CASE EnvoieAEnfant
  BY <1>12 DEF EnvoieAEnfant, Monte, Publie
<1>13. CASE Signale
  BY <1>13 DEF Signale, Monte, Publie
<1>14. CASE Reset
  BY <1>14 DEF Reset
<1>15. CASE EnfantEntre
  BY <1>15 DEF EnfantEntre
<1>16. CASE EnfantEnvoie
  BY <1>16 DEF EnfantEnvoie, Monte, Publie
<1>17. CASE EnfantRecoit
  BY <1>17 DEF EnfantRecoit
<1>18. CASE EnfantSort
  BY <1>18 DEF EnfantSort, Publie
<1>19. CASE MortZombie
  BY <1>19 DEF MortZombie
<1>20. CASE MortLibere
  BY <1>20 DEF MortLibere, Publie
<1>21. CASE MortCherche
  BY <1>21 DEF MortCherche
<1>22. CASE MortNote
  BY <1>22 DEF MortNote, Publie
<1>23. ASSUME NEW a \in Acteurs, AvanceGeneration(a) PROVE Deces'
  BY <1>23 DEF AvanceGeneration
<1>24. ASSUME NEW a \in Acteurs, WakeAll(a) PROVE Deces'
  BY <1>24 DEF WakeAll
<1>25. CASE UNCHANGED vars
  BY <1>25 DEF vars
<1> QED
  BY <1>1, <1>2, <1>3, <1>4, <1>5, <1>6, <1>7, <1>8, <1>9, <1>10, <1>11, <1>12, <1>13, <1>14, <1>15, <1>16, <1>17, <1>18, <1>19, <1>20, <1>21, <1>22, <1>23, <1>24, <1>25
  DEF Next, Attente, Mort, Publication

(* every step keeps what the ticket protects *)
LEMMA TicketPas ==
    ASSUME IInv, [Next]_vars
    PROVE  Ticket'
<1> USE VeilleAssumption DEF IInv, TypeOK, Ticket, Manque, Leve, Pas, Acteurs, objets, mort
<1>1. CASE Lance
  BY <1>1 DEF Lance, Va
<1>2. CASE Suit
  BY <1>2 DEF Suit, Va
<1>3. CASE SuitLit
  BY <1>3 DEF SuitLit, Va, Lu
<1>4. CASE Attend
  BY <1>4 DEF Attend, Va
<1>5. CASE PrendTicket
  BY <1>5 DEF PrendTicket
<1>6. CASE Sonde
  <2>1. PICK o \in att.reste : att' = Apres(att.pas, att.reste \ {o}, att.vus \cup Signaux(o))
    BY <1>6, SondeForme
  <2>2. att'.vus = {} => ~Leve(o)
    BY <2>1, SignauxType DEF Apres
  <2> QED BY <1>6, <2>1, <2>2, SondeForme DEF Apres
<1>7. CASE SondeFini
  BY <1>7 DEF SondeFini, Va
<1>8. CASE Verifie
  BY <1>8 DEF Verifie, Va
<1>9. CASE Gare
  BY <1>9 DEF Gare, Va
<1>10. CASE Rend
  BY <1>10 DEF Rend, Va
<1>11. CASE Tranche
  BY <1>11, TrancheForme DEF Apres
<1>12. CASE EnvoieAEnfant
  BY <1>12 DEF EnvoieAEnfant, Monte, Publie
<1>13. CASE Signale
  BY <1>13 DEF Signale, Monte, Publie
<1>14. CASE Reset
  BY <1>14 DEF Reset
<1>15. CASE EnfantEntre
  BY <1>15 DEF EnfantEntre
<1>16. CASE EnfantEnvoie
  BY <1>16 DEF EnfantEnvoie, Monte, Publie
<1>17. CASE EnfantRecoit
  BY <1>17 DEF EnfantRecoit
<1>18. CASE EnfantSort
  BY <1>18 DEF EnfantSort, Publie
<1>19. CASE MortZombie
  BY <1>19 DEF MortZombie
<1>20. CASE MortLibere
  BY <1>20 DEF MortLibere, Publie
<1>21. CASE MortCherche
  BY <1>21 DEF MortCherche
<1>22. CASE MortNote
  BY <1>22 DEF MortNote, Publie
<1>23. ASSUME NEW a \in Acteurs, AvanceGeneration(a) PROVE Ticket'
  BY <1>23 DEF AvanceGeneration
<1>24. ASSUME NEW a \in Acteurs, WakeAll(a) PROVE Ticket'
  BY <1>24 DEF WakeAll
<1>25. CASE UNCHANGED vars
  BY <1>25 DEF vars
<1> QED
  BY <1>1, <1>2, <1>3, <1>4, <1>5, <1>6, <1>7, <1>8, <1>9, <1>10, <1>11, <1>12, <1>13, <1>14, <1>15, <1>16, <1>17, <1>18, <1>19, <1>20, <1>21, <1>22, <1>23, <1>24, <1>25
  DEF Next, Attente, Mort, Publication

-----------------------------------------------------------------------------
(* IInv holds at the start and every step keeps it *)
LEMMA InductionVeille == Spec => []IInv
<1>1. Init => IInv
  <2> SUFFICES ASSUME Init PROVE IInv
    OBVIOUS
  <2>1. TypeOK
    <3>1. {ferme, evt, registre, touche, termine} \subseteq BOOLEAN
      BY DEF Init
    <3>2. pub \in [Acteurs -> {"due", "avancee", "faite"}]
      BY DEF Init
    <3>3. 0 \in 0..0 /\ 0 \in 0..MaxFile /\ 0 \in 0..MaxMontees
      BY VeilleAssumption
    <3> QED BY <3>1, <3>2, <3>3 DEF Init, TypeOK
  <2>2. Comptes
    BY DEF Init, Comptes, EnCours, Pas, Acteurs
  <2>3. Ticket /\ Deces
    BY DEF Init, Ticket, Deces, Pas
  <2> QED BY <2>1, <2>2, <2>3 DEF IInv
<1>2. IInv /\ [Next]_vars => IInv'
  BY TypePas, ComptesPas, TicketPas, DecesPas DEF IInv
<1> QED BY <1>1, <1>2, PTL DEF Spec

(* The queues of the channel stay within their limit and a ticket is never *)
(* ahead of the source it was taken from (activite.rs), whatever the       *)
(* watched set.                                                            *)
THEOREM VeilleTypes == Spec => []TypeOK
<1>1. IInv => TypeOK
  BY DEF IInv
<1> QED BY <1>1, InductionVeille, PTL

(* activite.rs:10-15, waitset_wait: a supervisor that sleeps has nothing   *)
(* published to see, or the publication that will wake it is under way;    *)
(* for every watched set and any number of sends, signals and deaths.      *)
THEOREM AucunReveilPerdu == Spec => []PasDeReveilPerdu
<1>1. IInv => PasDeReveilPerdu
  <2> SUFFICES ASSUME IInv, Pas("garee"), \A a \in Acteurs : pub[a] = "faite",
                      NEW o \in surveilles
               PROVE  Signaux(o) \subseteq {"WRITABLE"}
    BY DEF PasDeReveilPerdu
  <2>1. o \in {"canal", "evt", "proc"}
    BY VeilleAssumption DEF IInv, TypeOK
  <2>2. ~Leve(o)
    BY DEF IInv, Ticket, Manque, Pas
  <2> QED BY <2>1, <2>2, SignauxType
<1> QED BY <1>1, InductionVeille, PTL

(* lifecycle.rs:1060-1062: TERMINATED shows a closed channel, but for a    *)
(* death that spawn itself read early or a call still being left.          *)
THEOREM FermetureDAbord == Spec => []FermeAvantTermine
<1>1. IInv => FermeAvantTermine
  BY DEF IInv, TypeOK, Deces, FermeAvantTermine
<1> QED BY <1>1, InductionVeille, PTL

=============================================================================
