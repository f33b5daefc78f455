----------------------------- MODULE ConvoysProofs -----------------------------
(***************************************************************************)
(* Proofs about Convoys for any convoys, lines and schedules: the types, that  *)
(* convoys and lines know each other, that the stops know who serves them, *)
(* and that a copy of a line's schedule is current or about to be.          *)
(***************************************************************************)
EXTENDS Convoys, FiniteSetTheorems, TLAPS

(* A convoy that is not there is blank, and so is a line *)
Blank ==
  /\ \A c \in Convoys : ~Exists(c) => schedule[c] = {} /\ line[c] = None /\ pending[c] = None
  /\ \A l \in Lines : l \notin lineExists => members[l] = {}

-----------------------------------------------------------------------------
(* Operators *)

(* What a step makes of a state is a state *)
LEMMA AfterStates ==
  ASSUME NEW s \in States, NEW stops, NEW home, NEW edit
  PROVE  After(s, stops, home, edit) \subseteq States
BY DEF After, States

(* A convoy stays what it is or is edited: none is made, none is ended *)
LEMMA AfterExists ==
  ASSUME NEW s \in States, NEW stops, NEW home, NEW edit,
         NEW t \in After(s, stops, home, edit)
  PROVE  /\ t = "NONE" <=> s = "NONE"
         /\ t = "INITIAL" <=> s = "INITIAL"
         /\ t = "SELF_DESTRUCT" <=> s = "SELF_DESTRUCT"
BY DEF After, States

(* A schedule's stops are stops *)
LEMMA StopsOf == \A s \in Schedules : s \subseteq Stops
BY DEF Stops

(* The lists of the lines stay lists of convoys *)
LEMMA RejoinTypes ==
  ASSUME TypeOK, NEW c \in Convoys, NEW l \in Lines \cup {None}, Rejoin(c, l)
  PROVE  /\ line' \in [Convoys -> Lines \cup {None}]
         /\ members' \in [Lines -> SUBSET Convoys]
         /\ lineAt' \in [Lines -> SUBSET Stops]
         /\ lineExists' = lineExists /\ lineStops' = lineStops
<1>1. line' \in [Convoys -> Lines \cup {None}]
  BY DEF Rejoin, TypeOK
<1>2. Without(c) \in [Lines -> SUBSET Convoys]
  BY DEF Without, TypeOK
<1>3. members' \in [Lines -> SUBSET Convoys]
  BY <1>2 DEF Rejoin, With
<1>4. \A k \in Lines : lineStops[k] \subseteq Stops /\ lineAt[k] \subseteq Stops
  BY DEF TypeOK, Stops
<1>5. lineAt' \in [Lines -> SUBSET Stops]
  BY <1>4 DEF Rejoin, Announced
<1> QED BY <1>1, <1>3, <1>5 DEF Rejoin

(* A convoy that is destroyed leaves states that are states behind *)
LEMMA DestroyTypes ==
  ASSUME TypeOK, NEW c \in Convoys, Destroy(c), parked' \subseteq Convoys
  PROVE  TypeOK'
<1>1. /\ line' \in [Convoys -> Lines \cup {None}]
      /\ members' \in [Lines -> SUBSET Convoys]
      /\ lineAt' \in [Lines -> SUBSET Stops]
      /\ lineExists' = lineExists /\ lineStops' = lineStops
  BY RejoinTypes DEF Destroy
<1>2. /\ state' \in [Convoys -> States] /\ schedule' \in [Convoys -> Schedules]
      /\ homing' \in [Convoys -> BOOLEAN] /\ editing' \in [Convoys -> BOOLEAN]
      /\ pending' \in [Convoys -> Lines \cup {None}]
  BY SchedulesAssumption DEF Destroy, TypeOK, States, Cleared
<1>3. sync' \in [Convoys -> 0..2]
  BY DEF Destroy, TypeOK, Less
<1>4. convoyAt' \in [Convoys -> SUBSET Stops]
  BY DEF Destroy, TypeOK, Unregistered
<1> QED BY <1>1, <1>2, <1>3, <1>4 DEF TypeOK

(* A start is one of two: off to a state, or nothing but the entry *)
LEMMA StartFacts ==
  ASSUME TypeOK, NEW c \in Convoys, Start(c)
  PROVE  /\ \E t \in States :
              /\ state' = [state EXCEPT ![c] = t]
              /\ t = "NONE" <=> state[c] = "NONE"
              /\ t = "SELF_DESTRUCT" <=> state[c] = "SELF_DESTRUCT"
         /\ sync' \in [Convoys -> 0..2] /\ parked' \subseteq Convoys
<1>1. state[c] \in States
  BY DEF TypeOK
<1>2. CASE UNCHANGED <<state, parked, sync>>
  BY <1>1, <1>2 DEF TypeOK
<1>3. CASE ~ UNCHANGED <<state, parked, sync>>
  <2>1. PICK s \in IF state[c] = "EDIT_SCHEDULE" THEN After(state[c], schedule[c], FALSE, editing[c]) ELSE {state[c]} :
          /\ parked' = parked \ {c}
          /\ IF s \in {"INITIAL", "ROUTING_1"}
             THEN /\ state' = [state EXCEPT ![c] = "ROUTING_1"]
                  /\ sync' = [sync EXCEPT ![c] = @ + 1]
             ELSE state' = [state EXCEPT ![c] = s] /\ UNCHANGED sync
    BY <1>3 DEF Start
  <2>2. /\ s \in States
        /\ s = "NONE" <=> state[c] = "NONE"
        /\ s = "SELF_DESTRUCT" <=> state[c] = "SELF_DESTRUCT"
    BY <1>1, <2>1, AfterStates, AfterExists
  <2>3. sync[c] \in 0..1 /\ parked \subseteq Convoys /\ sync \in [Convoys -> 0..2]
    BY DEF Start, TypeOK
  <2> QED BY <2>1, <2>2, <2>3 DEF States
<1> QED BY <1>2, <1>3

(* A step ends a convoy, or takes it to a state with what its line has for it *)
LEMMA StepFacts ==
  ASSUME TypeOK, NEW c \in Convoys, Step(c)
  PROVE  /\ Exists(c)
         /\ \/ Destroy(c) /\ UNCHANGED parked
            \/ /\ \E t \in States :
                    /\ state' = [state EXCEPT ![c] = t]
                    /\ t # "NONE"
                    /\ pending[c] = None => state[c] # "SELF_DESTRUCT"
                    /\ state[c] = "INITIAL" => t = "INITIAL"
                    /\ parked' = IF t = "INITIAL" /\ state[c] # "INITIAL" THEN parked \cup {c} ELSE parked
                    /\ sync' = [sync EXCEPT ![c] = IF t = "INITIAL" THEN Less(@) ELSE @]
               /\ schedule' = [schedule EXCEPT ![c] = IF pending[c] # None THEN lineStops[pending[c]] ELSE @]
               /\ homing' \in [Convoys -> BOOLEAN] /\ sync' \in [Convoys -> 0..2] /\ parked' \subseteq Convoys
               /\ pending' = Cleared({c})
               /\ UNCHANGED <<editing, line, lineVars, convoyAt>>
<1> DEFINE l == pending[c]
           update == l # None
           stops == IF update THEN lineStops[l] ELSE schedule[c]
           home == IF update THEN KeepsDepot(c, l) ELSE homing[c]
<1>1. PICK same \in IF update THEN Same(c, l) ELSE {TRUE} :
        LET s == TakenState(c, same)
            arrives == IF s = "EDIT_SCHEDULE" /\ ~editing[c] /\ home THEN {"INITIAL"} ELSE {}
        IN  \/ s \in {"SELF_DESTRUCT", "LOADING"} /\ Destroy(c) /\ UNCHANGED parked
            \/ \E t \in After(s, stops, home, editing[c]) \cup arrives :
                 /\ s # "SELF_DESTRUCT"
                 /\ state' = [state EXCEPT ![c] = t]
                 /\ schedule' = [schedule EXCEPT ![c] = stops]
                 /\ homing' = [homing EXCEPT ![c] = home /\ t # "INITIAL"]
                 /\ pending' = Cleared({c})
                 /\ parked' = IF t \in arrives THEN parked \cup {c} ELSE parked
                 /\ sync' = [sync EXCEPT ![c] = IF t = "INITIAL" THEN Less(@) ELSE @]
                 /\ UNCHANGED <<editing, line, lineVars, convoyAt>>
  BY DEF Step
<1> DEFINE s == TakenState(c, same)
           arrives == IF s = "EDIT_SCHEDULE" /\ ~editing[c] /\ home THEN {"INITIAL"} ELSE {}
<1>2. Exists(c) /\ state[c] \in States /\ home \in BOOLEAN
  BY DEF Step, TypeOK, KeepsDepot
<1>3. /\ s \in States /\ s # "NONE"
      /\ pending[c] = None => s = state[c]
      /\ s = "INITIAL" <=> state[c] = "INITIAL"
  BY <1>1, <1>2 DEF TakenState, States, Exists
<1>4. CASE Destroy(c) /\ UNCHANGED parked
  BY <1>2, <1>4
<1>5. ASSUME NEW t \in After(s, stops, home, editing[c]) \cup arrives,
             s # "SELF_DESTRUCT",
             state' = [state EXCEPT ![c] = t],
             schedule' = [schedule EXCEPT ![c] = stops],
             homing' = [homing EXCEPT ![c] = home /\ t # "INITIAL"],
             pending' = Cleared({c}),
             parked' = IF t \in arrives THEN parked \cup {c} ELSE parked,
             sync' = [sync EXCEPT ![c] = IF t = "INITIAL" THEN Less(@) ELSE @],
             UNCHANGED <<editing, line, lineVars, convoyAt>>
      PROVE  /\ \E u \in States :
                   /\ state' = [state EXCEPT ![c] = u]
                   /\ u # "NONE"
                   /\ pending[c] = None => state[c] # "SELF_DESTRUCT"
                   /\ state[c] = "INITIAL" => u = "INITIAL"
                   /\ parked' = IF u = "INITIAL" /\ state[c] # "INITIAL" THEN parked \cup {c} ELSE parked
                   /\ sync' = [sync EXCEPT ![c] = IF u = "INITIAL" THEN Less(@) ELSE @]
             /\ schedule' = [schedule EXCEPT ![c] = IF pending[c] # None THEN lineStops[pending[c]] ELSE @]
             /\ homing' \in [Convoys -> BOOLEAN] /\ sync' \in [Convoys -> 0..2] /\ parked' \subseteq Convoys
  <2>1. /\ t \in States /\ t # "NONE"
        /\ state[c] = "INITIAL" => t = "INITIAL"
        /\ parked' = IF t = "INITIAL" /\ state[c] # "INITIAL" THEN parked \cup {c} ELSE parked
    <3>1. CASE t \in arrives
      BY <1>3, <1>5, <3>1 DEF States
    <3>2. CASE t \in After(s, stops, home, editing[c])
      <4>1. t \in States /\ t # "NONE" /\ (t = "INITIAL" <=> s = "INITIAL")
        <5> HIDE DEF s, stops, home
        <5> QED BY <1>3, <3>2, AfterStates, AfterExists
      <4>2. s = "INITIAL" => arrives = {}
        OBVIOUS
      <4> QED BY <1>3, <1>5, <4>1, <4>2
    <3> QED BY <1>5, <3>1, <3>2
  <2>2. pending[c] = None => state[c] # "SELF_DESTRUCT"
    BY <1>3, <1>5
  <2>3. homing' \in [Convoys -> BOOLEAN]
    BY <1>2, <1>5 DEF TypeOK
  <2>4. sync' \in [Convoys -> 0..2]
    BY <1>5 DEF TypeOK, Less
  <2>5. parked' \subseteq Convoys
    BY <1>5 DEF TypeOK
  <2>6. schedule' = [schedule EXCEPT ![c] = IF pending[c] # None THEN lineStops[pending[c]] ELSE @]
    BY <1>5 DEF TypeOK
  <2> HIDE DEF s, arrives, stops, home
  <2> QED BY <1>5, <2>1, <2>2, <2>3, <2>4, <2>5, <2>6
<1> HIDE DEF home, stops
<1>6. \/ s \in {"SELF_DESTRUCT", "LOADING"} /\ Destroy(c) /\ UNCHANGED parked
      \/ \E t \in After(s, stops, home, editing[c]) \cup arrives :
           /\ s # "SELF_DESTRUCT"
           /\ state' = [state EXCEPT ![c] = t]
           /\ schedule' = [schedule EXCEPT ![c] = stops]
           /\ homing' = [homing EXCEPT ![c] = home /\ t # "INITIAL"]
           /\ pending' = Cleared({c})
           /\ parked' = IF t \in arrives THEN parked \cup {c} ELSE parked
           /\ sync' = [sync EXCEPT ![c] = IF t = "INITIAL" THEN Less(@) ELSE @]
           /\ UNCHANGED <<editing, line, lineVars, convoyAt>>
  BY <1>1
<1> HIDE DEF s, arrives
<1> QED BY <1>2, <1>4, <1>5, <1>6

LEMMA TypeStep ==
  ASSUME TypeOK, PendingIsOwn, [Next]_vars
  PROVE  TypeOK'
<1> USE DEF TypeOK, States
<1>1. ASSUME NEW c \in Convoys, Buy(c) PROVE TypeOK'
  BY <1>1, SchedulesAssumption, StopsOf DEF Buy, lineVars
<1>2. ASSUME NEW c \in Convoys, NEW o \in Convoys, Copy(c, o) PROVE TypeOK'
  BY <1>2, SchedulesAssumption, StopsOf, RejoinTypes DEF Copy
<1>3. ASSUME NEW c \in Convoys, Start(c) PROVE TypeOK'
  BY <1>3, StartFacts DEF Start, lineVars
<1>4. ASSUME NEW c \in Convoys, SelfDestruct(c) PROVE TypeOK'
  <2>1. CASE state[c] = "INITIAL"
    BY <1>4, <2>1, DestroyTypes DEF SelfDestruct
  <2>2. CASE state[c] # "INITIAL"
    BY <1>4, <2>2 DEF SelfDestruct, lineVars, Cleared
  <2> QED BY <2>1, <2>2
<1>5. ASSUME NEW c \in Convoys, EditSchedule(c) PROVE TypeOK'
  BY <1>5, SchedulesAssumption, StopsOf DEF EditSchedule, lineVars
<1>6. ASSUME NEW c \in Convoys, NEW s \in Schedules, ChangeSchedule(c, s) PROVE TypeOK'
  <2>1. line' \in [Convoys -> Lines \cup {None}] /\ members' \in [Lines -> SUBSET Convoys]
        /\ lineAt' \in [Lines -> SUBSET Stops] /\ lineExists' = lineExists /\ lineStops' = lineStops
        /\ pending' \in [Convoys -> Lines \cup {None}]
    BY <1>6, RejoinTypes DEF ChangeSchedule, SetSchedule, lineVars, Cleared
  <2> QED BY <1>6, <2>1, StopsOf DEF ChangeSchedule, SetSchedule
<1>7. ASSUME NEW c \in Convoys, SendToDepot(c) PROVE TypeOK'
  <2>1. line' \in [Convoys -> Lines \cup {None}] /\ members' \in [Lines -> SUBSET Convoys]
        /\ lineAt' \in [Lines -> SUBSET Stops] /\ lineExists' = lineExists /\ lineStops' = lineStops
        /\ pending' \in [Convoys -> Lines \cup {None}]
    BY <1>7, RejoinTypes DEF SendToDepot, SetSchedule, lineVars, Cleared
  <2> QED BY <1>7, <2>1, StopsOf DEF SendToDepot, SetSchedule
<1>8. ASSUME NEW c \in Convoys, NEW l \in Lines, SetLine(c, l) PROVE TypeOK'
  BY <1>8, SchedulesAssumption, StopsOf, RejoinTypes DEF SetLine, TakeSchedule, TakenState, Unregistered, KeepsDepot, Cleared
<1>9. ASSUME NEW l \in Lines, NEW s \in Schedules, CreateLine(l, s) PROVE TypeOK'
  BY <1>9, SchedulesAssumption, StopsOf DEF CreateLine, cnvVars
<1>10. ASSUME NEW l \in Lines, DeleteLine(l) PROVE TypeOK'
  BY <1>10, SchedulesAssumption, StopsOf DEF DeleteLine, Cleared
<1>11. ASSUME NEW l \in Lines, NEW s \in Schedules, ChangeLine(l, s) PROVE TypeOK'
  BY <1>11, SchedulesAssumption, StopsOf DEF ChangeLine
<1>12. ASSUME NEW l \in Lines, NEW S \in SUBSET Convoys, Withdraw(l, S) PROVE TypeOK'
  <2>1. ASSUME NEW c \in Convoys, Destroy(c), UNCHANGED parked PROVE TypeOK'
    BY <2>1, DestroyTypes
  <2>2. CASE {c \in S : state[c] = "INITIAL"} = {}
    BY <1>12, <2>2 DEF Withdraw, lineVars, Cleared
  <2> QED BY <1>12, <2>1, <2>2 DEF Withdraw
<1>13. ASSUME NEW l \in Lines, Unite(l) PROVE TypeOK'
  BY <1>13, SchedulesAssumption, StopsOf DEF Unite
<1>14. ASSUME NEW c \in Convoys, Step(c) PROVE TypeOK'
  <2>1. CASE Destroy(c) /\ UNCHANGED parked
    BY <2>1, DestroyTypes
  <2>2. CASE ~(Destroy(c) /\ UNCHANGED parked)
    <3>1. lineStops \in [Lines -> Schedules] /\ pending[c] \in Lines \cup {None} /\ schedule \in [Convoys -> Schedules]
      OBVIOUS
    <3>2. schedule' \in [Convoys -> Schedules]
      <4>1. schedule' = [schedule EXCEPT ![c] = IF pending[c] # None THEN lineStops[pending[c]] ELSE @]
        BY <1>14, <2>2, StepFacts
      <4> QED BY <3>1, <4>1
    <3>3. PICK t \in States : state' = [state EXCEPT ![c] = t]
      BY <1>14, <2>2, StepFacts
    <3>4. /\ homing' \in [Convoys -> BOOLEAN] /\ sync' \in [Convoys -> 0..2] /\ parked' \subseteq Convoys
          /\ pending' = Cleared({c})
          /\ UNCHANGED <<editing, line, lineVars, convoyAt>>
      BY <1>14, <2>2, StepFacts
    <3> QED BY <3>2, <3>3, <3>4 DEF Cleared, lineVars
  <2> QED BY <2>1, <2>2
<1>15. ASSUME NEW c \in Convoys, Loaded(c) PROVE TypeOK'
  BY <1>15, SchedulesAssumption, StopsOf DEF Loaded, Cleared, lineVars
<1>16. ASSUME NEW c \in Convoys, Arrive(c) PROVE TypeOK'
  BY <1>16, SchedulesAssumption, StopsOf DEF Arrive, lineVars
<1>17. ASSUME NEW c \in Convoys, Leave(c) PROVE TypeOK'
  BY <1>17, SchedulesAssumption, StopsOf DEF Leave, cnvVars, lineVars, Less
<1>18. ASSUME Load PROVE TypeOK'
  <2>1. line' \in [Convoys -> Lines \cup {None}] /\ members' \in [Lines -> SUBSET Convoys] /\ lineAt' \in [Lines -> SUBSET Stops]
    BY <1>18, StopsOf DEF Load
  <2>2. schedule' \in [Convoys -> Schedules]
    BY <1>18 DEF Load, PendingIsOwn
  <2>3. convoyAt' \in [Convoys -> SUBSET Stops]
    BY <1>18, <2>2, StopsOf DEF Load
  <2>4. state' \in [Convoys -> States]
    <3>1. ASSUME NEW c \in Convoys, NEW same PROVE TakenState(c, same) \in States
      BY DEF TakenState
    <3> QED BY <1>18, <3>1 DEF Load
  <2>5. /\ homing' \in [Convoys -> BOOLEAN] /\ editing' \in [Convoys -> BOOLEAN]
        /\ pending' \in [Convoys -> Lines \cup {None}] /\ parked' \subseteq Convoys
        /\ sync' \in [Convoys -> 0..2]
    BY <1>18 DEF Load, Cleared
  <2> QED BY <1>18, <2>1, <2>2, <2>3, <2>4, <2>5 DEF Load
<1>19. CASE UNCHANGED vars
  BY <1>19 DEF vars, cnvVars, lineVars
<1> QED BY <1>1, <1>2, <1>3, <1>4, <1>5, <1>6, <1>7, <1>8, <1>9, <1>10,
           <1>11, <1>12, <1>13, <1>14, <1>15, <1>16, <1>17, <1>18, <1>19
           DEF Next, Command, LineCommand, Clock

-----------------------------------------------------------------------------
(* Lines and convoys *)

(* What is proved to hold together *)
Sound ==
  /\ TypeOK /\ Members /\ Blank /\ LineRegistered
  /\ RegistrationsTrue /\ PendingIsOwn

(* A convoy that goes to a line that is there leaves the other *)
LEMMA RejoinMembers ==
  ASSUME TypeOK, Members, NEW c \in Convoys, NEW l \in Lines \cup {None}, Rejoin(c, l)
  PROVE  Members'
<1>1. line' \in [Convoys -> Lines \cup {None}] /\ line' = [line EXCEPT ![c] = l]
  BY RejoinTypes DEF Rejoin
<1>2. \A o \in Convoys, k \in Lines : o \in Without(c)[k] <=> o # c /\ line[o] = k
  BY NoneAssumption DEF Without, TypeOK, Members
<1>3. Without(c) \in [Lines -> SUBSET Convoys]
  BY DEF Without, TypeOK
<1>4. \A o \in Convoys, k \in Lines : o \in members'[k] <=> (o # c /\ line[o] = k) \/ (o = c /\ l = k)
  BY <1>2, <1>3, NoneAssumption DEF Rejoin, With
<1> QED BY <1>1, <1>4 DEF Members, TypeOK

(* and both lines are registered for the convoys they have now *)
LEMMA RejoinRegistered ==
  ASSUME TypeOK, LineRegistered, NEW c \in Convoys, NEW l \in Lines \cup {None}, Rejoin(c, l)
  PROVE  LineRegistered'
BY RejoinTypes DEF Rejoin, LineRegistered, Announced, TypeOK

LEMMA RejoinBlank ==
  ASSUME TypeOK, Members, Blank, NEW c \in Convoys, NEW l \in lineExists \cup {None}, Rejoin(c, l)
  PROVE  \A k \in Lines : k \notin lineExists' => members'[k] = {}
<1>1. l \in Lines \cup {None}
  BY DEF TypeOK
<1>2. \A k \in Lines : k \notin lineExists => Without(c)[k] = {}
  BY DEF Blank, Without, TypeOK
<1>3. Without(c) \in [Lines -> SUBSET Convoys]
  BY DEF Without, TypeOK
<1>4. \A k \in Lines : k \notin lineExists => members'[k] = {}
  BY <1>2, <1>3, NoneAssumption DEF Rejoin, With
<1> QED BY <1>4 DEF Rejoin

(* A convoy's line is there *)
LEMMA LineThere ==
  ASSUME TypeOK, Members, Blank, NEW c \in Convoys
  PROVE  line[c] \in lineExists \cup {None}
BY DEF TypeOK, Members, Blank

(* The end of a convoy leaves no trace in a line, and none at a stop *)
LEMMA DestroySound ==
  ASSUME Sound, NEW c \in Convoys, Destroy(c)
  PROVE  Members' /\ Blank' /\ LineRegistered' /\ RegistrationsTrue' /\ PendingIsOwn'
<1>1. Rejoin(c, None) /\ lineExists' = lineExists /\ line' = [line EXCEPT ![c] = None]
  BY DEF Destroy, Rejoin
<1>2. Members' /\ LineRegistered'
  BY <1>1, RejoinMembers, RejoinRegistered DEF Sound
<1>3. Blank'
  <2>1. \A k \in Lines : k \notin lineExists' => members'[k] = {}
    BY <1>1, RejoinBlank DEF Sound
  <2>2. \A o \in Convoys : ~Exists(o)' => schedule'[o] = {} /\ line'[o] = None /\ pending'[o] = None
    BY <1>1 DEF Sound, TypeOK, Destroy, Blank, Exists, Cleared
  <2> QED BY <2>1, <2>2 DEF Blank
<1>4. RegistrationsTrue'
  BY <1>1 DEF Sound, TypeOK, Destroy, RegistrationsTrue, Unregistered, Exists
<1>5. PendingIsOwn'
  BY <1>1 DEF Sound, TypeOK, Destroy, PendingIsOwn, Cleared
<1> QED BY <1>2, <1>3, <1>4, <1>5

LEMMA MembersStep ==
  ASSUME Sound, [Next]_vars
  PROVE  Members'
<1>1. ASSUME NEW c \in Convoys, Buy(c) PROVE Members'
  BY <1>1 DEF Buy, lineVars, Sound, TypeOK, Members
<1>2. ASSUME NEW c \in Convoys, NEW o \in Convoys, Copy(c, o) PROVE Members'
  BY <1>2, RejoinMembers DEF Copy, Sound, TypeOK, Members
<1>3. ASSUME NEW c \in Convoys, Start(c) PROVE Members'
  BY <1>3 DEF Start, lineVars, Sound, TypeOK, Members
<1>4. ASSUME NEW c \in Convoys, SelfDestruct(c) PROVE Members'
  <2>1. CASE state[c] = "INITIAL"
    BY <1>4, <2>1, DestroySound DEF SelfDestruct
  <2>2. CASE state[c] # "INITIAL"
    BY <1>4, <2>2 DEF SelfDestruct, lineVars, Cleared, Sound, TypeOK, Members
  <2> QED BY <2>1, <2>2
<1>5. ASSUME NEW c \in Convoys, EditSchedule(c) PROVE Members'
  BY <1>5 DEF EditSchedule, lineVars, Sound, TypeOK, Members
<1>6. ASSUME NEW c \in Convoys, NEW s \in Schedules, ChangeSchedule(c, s) PROVE Members'
  BY <1>6, RejoinMembers DEF ChangeSchedule, SetSchedule, lineVars, Sound, TypeOK, Members
<1>7. ASSUME NEW c \in Convoys, SendToDepot(c) PROVE Members'
  BY <1>7, RejoinMembers DEF SendToDepot, SetSchedule, lineVars, Sound, TypeOK, Members
<1>8. ASSUME NEW c \in Convoys, NEW l \in Lines, SetLine(c, l) PROVE Members'
  BY <1>8, RejoinMembers DEF SetLine, Sound, TypeOK, Members
<1>9. ASSUME NEW l \in Lines, NEW s \in Schedules, CreateLine(l, s) PROVE Members'
  BY <1>9 DEF CreateLine, cnvVars, Sound, TypeOK, Members
<1>10. ASSUME NEW l \in Lines, DeleteLine(l) PROVE Members'
  BY <1>10, NoneAssumption DEF DeleteLine, Sound, TypeOK, Members
<1>11. ASSUME NEW l \in Lines, NEW s \in Schedules, ChangeLine(l, s) PROVE Members'
  BY <1>11 DEF ChangeLine, Sound, TypeOK, Members
<1>12. ASSUME NEW l \in Lines, NEW S \in SUBSET Convoys, Withdraw(l, S) PROVE Members'
  <2>1. ASSUME NEW c \in Convoys, Destroy(c) PROVE Members'
    BY <2>1, DestroySound
  <2>2. CASE {c \in S : state[c] = "INITIAL"} = {}
    BY <1>12, <2>2 DEF Withdraw, lineVars, Cleared, Sound, TypeOK, Members
  <2> QED BY <1>12, <2>1, <2>2 DEF Withdraw
<1>13. ASSUME NEW l \in Lines, Unite(l) PROVE Members'
  BY <1>13, NoneAssumption DEF Unite, Blank, Sound, TypeOK, Members
<1>14. ASSUME NEW c \in Convoys, Step(c) PROVE Members'
  <2>1. CASE Destroy(c) /\ UNCHANGED parked
    BY <2>1, DestroySound
  <2>2. CASE ~(Destroy(c) /\ UNCHANGED parked)
    <3>1. PICK t \in States : state' = [state EXCEPT ![c] = t] /\ t # "NONE"
      BY <1>14, <2>2, StepFacts DEF Sound
    <3>2. /\ schedule' = [schedule EXCEPT ![c] = IF pending[c] # None THEN lineStops[pending[c]] ELSE @]
          /\ pending' = Cleared({c})
          /\ UNCHANGED <<line, lineVars, convoyAt>>
      BY <1>14, <2>2, StepFacts DEF Sound
    <3> QED BY <3>1, <3>2 DEF Cleared, lineVars, Sound, TypeOK, Members
  <2> QED BY <2>1, <2>2
<1>15. ASSUME NEW c \in Convoys, Loaded(c) PROVE Members'
  BY <1>15 DEF Loaded, Cleared, lineVars, Sound, TypeOK, Members
<1>16. ASSUME NEW c \in Convoys, Arrive(c) PROVE Members'
  BY <1>16 DEF Arrive, lineVars, Sound, TypeOK, Members
<1>17. ASSUME NEW c \in Convoys, Leave(c) PROVE Members'
  BY <1>17 DEF Leave, cnvVars, lineVars, Less, Sound, TypeOK, Members
<1>18. ASSUME Load PROVE Members'
  BY <1>18 DEF Load, Sound, TypeOK, Members
<1>19. CASE UNCHANGED vars
  BY <1>19 DEF vars, cnvVars, lineVars, Sound, TypeOK, Members
<1> QED BY <1>1, <1>2, <1>3, <1>4, <1>5, <1>6, <1>7, <1>8, <1>9, <1>10,
           <1>11, <1>12, <1>13, <1>14, <1>15, <1>16, <1>17, <1>18, <1>19
           DEF Next, Command, LineCommand, Clock

LEMMA BlankStep ==
  ASSUME Sound, [Next]_vars
  PROVE  Blank'
<1>1. ASSUME NEW c \in Convoys, Buy(c) PROVE Blank'
  BY <1>1 DEF Buy, lineVars, Sound, TypeOK, Members, Blank, Exists
<1>2. ASSUME NEW c \in Convoys, NEW o \in Convoys, Copy(c, o) PROVE Blank'
  <2>1. lineExists' = lineExists /\ \A k \in Lines : k \notin lineExists => members'[k] = {}
    BY <1>2, RejoinBlank, LineThere DEF Copy, Rejoin, Sound
  <2>2. \A x \in Convoys \ {c} : state'[x] = state[x] /\ schedule'[x] = schedule[x] /\ line'[x] = line[x] /\ pending'[x] = pending[x]
    BY <1>2 DEF Copy, Rejoin, Sound, TypeOK
  <2>3. Exists(c)'
    BY <1>2 DEF Copy, Sound, TypeOK, Exists
  <2> QED BY <2>1, <2>2, <2>3 DEF Blank, Sound, Exists
<1>3. ASSUME NEW c \in Convoys, Start(c) PROVE Blank'
  <2>1. PICK t \in States : state' = [state EXCEPT ![c] = t] /\ (t = "NONE" <=> state[c] = "NONE")
    BY <1>3, StartFacts DEF Sound
  <2> QED BY <1>3, <2>1 DEF Start, lineVars, Sound, TypeOK, Blank, Exists
<1>4. ASSUME NEW c \in Convoys, SelfDestruct(c) PROVE Blank'
  <2>1. CASE state[c] = "INITIAL"
    BY <1>4, <2>1, DestroySound DEF SelfDestruct
  <2>2. CASE state[c] # "INITIAL"
    <3>1. /\ Exists(c) /\ state' = [state EXCEPT ![c] = "SELF_DESTRUCT"]
          /\ \A o \in Convoys : pending'[o] = IF o = c THEN None ELSE pending[o]
          /\ UNCHANGED <<schedule, line, lineVars>>
      BY <1>4, <2>2 DEF SelfDestruct, Cleared
    <3> QED BY <3>1 DEF lineVars, Sound, TypeOK, Blank, Exists
  <2> QED BY <2>1, <2>2
<1>5. ASSUME NEW c \in Convoys, EditSchedule(c) PROVE Blank'
  BY <1>5 DEF EditSchedule, lineVars, Sound, TypeOK, Members, Blank, Exists
<1>6. ASSUME NEW c \in Convoys, NEW s \in Schedules, ChangeSchedule(c, s) PROVE Blank'
  <2>1. Exists(c) /\ lineExists' = lineExists /\ \A k \in Lines : k \notin lineExists => members'[k] = {}
    BY <1>6, RejoinBlank DEF ChangeSchedule, SetSchedule, Rejoin, lineVars, Blank, Sound
  <2>2. \A x \in Convoys \ {c} : state'[x] = state[x] /\ schedule'[x] = schedule[x] /\ line'[x] = line[x] /\ pending'[x] = pending[x]
    BY <1>6 DEF ChangeSchedule, SetSchedule, Rejoin, Cleared, lineVars, Sound, TypeOK
  <2>3. Exists(c)'
    BY <1>6 DEF ChangeSchedule, SetSchedule, Sound, TypeOK, Exists
  <2> QED BY <2>1, <2>2, <2>3 DEF Blank, Sound, Exists
<1>7. ASSUME NEW c \in Convoys, SendToDepot(c) PROVE Blank'
  <2>1. Exists(c) /\ lineExists' = lineExists /\ \A k \in Lines : k \notin lineExists => members'[k] = {}
    BY <1>7, RejoinBlank DEF SendToDepot, SetSchedule, Rejoin, lineVars, Blank, Sound
  <2>2. \A x \in Convoys \ {c} : state'[x] = state[x] /\ schedule'[x] = schedule[x] /\ line'[x] = line[x] /\ pending'[x] = pending[x]
    BY <1>7 DEF SendToDepot, SetSchedule, Rejoin, Cleared, lineVars, Sound, TypeOK
  <2>3. Exists(c)'
    BY <1>7 DEF SendToDepot, SetSchedule, Sound, TypeOK, Exists
  <2> QED BY <2>1, <2>2, <2>3 DEF Blank, Sound, Exists
<1>8. ASSUME NEW c \in Convoys, NEW l \in Lines, SetLine(c, l) PROVE Blank'
  <2>1. lineExists' = lineExists /\ \A k \in Lines : k \notin lineExists => members'[k] = {}
    BY <1>8, RejoinBlank DEF SetLine, Rejoin, Sound
  <2>2. \A x \in Convoys \ {c} : state'[x] = state[x] /\ schedule'[x] = schedule[x] /\ line'[x] = line[x] /\ pending'[x] = pending[x]
    BY <1>8 DEF SetLine, TakeSchedule, Rejoin, Cleared, Sound, TypeOK
  <2>3. Exists(c)'
    BY <1>8 DEF SetLine, TakenState, Sound, TypeOK, Exists
  <2> QED BY <2>1, <2>2, <2>3 DEF Blank, Sound, Exists
<1>9. ASSUME NEW l \in Lines, NEW s \in Schedules, CreateLine(l, s) PROVE Blank'
  BY <1>9 DEF CreateLine, cnvVars, Sound, TypeOK, Members, Blank, Exists
<1>10. ASSUME NEW l \in Lines, DeleteLine(l) PROVE Blank'
  BY <1>10, NoneAssumption DEF DeleteLine, Cleared, Sound, TypeOK, Members, Blank, Exists
<1>11. ASSUME NEW l \in Lines, NEW s \in Schedules, ChangeLine(l, s) PROVE Blank'
  BY <1>11, NoneAssumption DEF ChangeLine, Sound, TypeOK, Members, Blank, Exists
<1>12. ASSUME NEW l \in Lines, NEW S \in SUBSET Convoys, Withdraw(l, S) PROVE Blank'
  <2>1. ASSUME NEW c \in Convoys, Destroy(c) PROVE Blank'
    BY <2>1, DestroySound
  <2>2. CASE {c \in S : state[c] = "INITIAL"} = {}
    BY <1>12, <2>2 DEF Withdraw, lineVars, Cleared, Sound, TypeOK, Members, Blank, Exists
  <2> QED BY <1>12, <2>1, <2>2 DEF Withdraw
<1>13. ASSUME NEW l \in Lines, Unite(l) PROVE Blank'
  <2>1. PICK C \in SUBSET Convoys :
          /\ \A c \in C : Exists(c)
          /\ \A c \in Convoys \ C : line'[c] = line[c]
          /\ members' = [members EXCEPT ![l] = C]
    <3>1. PICK s \in Schedules \ {{}} :
            LET C == {c \in Convoys : Exists(c) /\ line[c] = None /\ schedule[c] = s}
            IN  /\ line' = [c \in Convoys |-> IF c \in C THEN l ELSE line[c]]
                /\ members' = [members EXCEPT ![l] = C]
      BY <1>13 DEF Unite
    <3> DEFINE C == {c \in Convoys : Exists(c) /\ line[c] = None /\ schedule[c] = s}
    <3> WITNESS C \in SUBSET Convoys
    <3> QED BY <3>1
  <2>2. \A c \in Convoys : Exists(c) <=> Exists(c)'
    BY <1>13 DEF Unite, Exists, Sound, TypeOK
  <2>3. UNCHANGED <<schedule, pending>> /\ lineExists' = lineExists \cup {l}
    BY <1>13 DEF Unite
  <2> QED BY <2>1, <2>2, <2>3 DEF Blank, Sound, TypeOK
<1>14. ASSUME NEW c \in Convoys, Step(c) PROVE Blank'
  <2>1. CASE Destroy(c) /\ UNCHANGED parked
    BY <2>1, DestroySound
  <2>2. CASE ~(Destroy(c) /\ UNCHANGED parked)
    <3>1. PICK t \in States : state' = [state EXCEPT ![c] = t] /\ t # "NONE"
      BY <1>14, <2>2, StepFacts DEF Sound
    <3>2. /\ schedule' = [schedule EXCEPT ![c] = IF pending[c] # None THEN lineStops[pending[c]] ELSE @]
          /\ pending' = Cleared({c})
          /\ UNCHANGED <<line, lineVars, convoyAt>>
      BY <1>14, <2>2, StepFacts DEF Sound
    <3> QED BY <3>1, <3>2 DEF Cleared, lineVars, Sound, TypeOK, Members, Blank, Exists
  <2> QED BY <2>1, <2>2
<1>15. ASSUME NEW c \in Convoys, Loaded(c) PROVE Blank'
  BY <1>15 DEF Loaded, Cleared, lineVars, Sound, TypeOK, Members, Blank, Exists
<1>16. ASSUME NEW c \in Convoys, Arrive(c) PROVE Blank'
  BY <1>16 DEF Arrive, lineVars, Sound, TypeOK, Members, Blank, Exists
<1>17. ASSUME NEW c \in Convoys, Leave(c) PROVE Blank'
  BY <1>17 DEF Leave, cnvVars, lineVars, Less, Sound, TypeOK, Members, Blank, Exists
<1>18. ASSUME Load PROVE Blank'
  <2>1. \A c \in Convoys : Exists(c)' => Exists(c)
    BY <1>18 DEF Load, TakenState, Exists, Blank, Sound, TypeOK
  <2>2. \A c \in Convoys : Exists(c) => Exists(c)'
    BY <1>18 DEF Load, TakenState, Exists, Blank, Sound, TypeOK
  <2>3. ASSUME NEW c \in Convoys, ~Exists(c) PROVE schedule'[c] = {} /\ line'[c] = None /\ pending'[c] = None
    <3>1. schedule[c] = {} /\ line[c] = None /\ pending[c] = None
      BY <2>3 DEF Sound, Blank
    <3> QED BY <1>18, <3>1 DEF Load, Cleared
  <2>4. \A c \in Convoys : line'[c] \in lineExists \cup {None}
    <3>1. \A c \in Convoys : line[c] \in lineExists \cup {None}
      BY LineThere DEF Sound
    <3> QED BY <1>18, <3>1 DEF Load
  <2>5. \A l \in Lines : l \notin lineExists' => members'[l] = {}
    BY <1>18, <2>4, NoneAssumption DEF Load
  <2>6. \A c \in Convoys : ~Exists(c)' => schedule'[c] = {} /\ line'[c] = None /\ pending'[c] = None
    BY <2>2, <2>3, Zenon
  <2> QED BY <2>5, <2>6 DEF Blank
<1>19. CASE UNCHANGED vars
  BY <1>19 DEF vars, cnvVars, lineVars, Sound, TypeOK, Members, Blank, Exists
<1> QED BY <1>1, <1>2, <1>3, <1>4, <1>5, <1>6, <1>7, <1>8, <1>9, <1>10,
           <1>11, <1>12, <1>13, <1>14, <1>15, <1>16, <1>17, <1>18, <1>19
           DEF Next, Command, LineCommand, Clock

LEMMA LineRegisteredStep ==
  ASSUME Sound, [Next]_vars
  PROVE  LineRegistered'
<1>1. ASSUME NEW c \in Convoys, Buy(c) PROVE LineRegistered'
  BY <1>1 DEF Buy, lineVars, Sound, TypeOK, LineRegistered
<1>2. ASSUME NEW c \in Convoys, NEW o \in Convoys, Copy(c, o) PROVE LineRegistered'
  BY <1>2, RejoinRegistered DEF Copy, Sound, TypeOK
<1>3. ASSUME NEW c \in Convoys, Start(c) PROVE LineRegistered'
  BY <1>3 DEF Start, lineVars, Sound, TypeOK, LineRegistered
<1>4. ASSUME NEW c \in Convoys, SelfDestruct(c) PROVE LineRegistered'
  <2>1. CASE state[c] = "INITIAL"
    BY <1>4, <2>1, DestroySound DEF SelfDestruct
  <2>2. CASE state[c] # "INITIAL"
    BY <1>4, <2>2 DEF SelfDestruct, lineVars, Cleared, Sound, TypeOK, LineRegistered
  <2> QED BY <2>1, <2>2
<1>5. ASSUME NEW c \in Convoys, EditSchedule(c) PROVE LineRegistered'
  BY <1>5 DEF EditSchedule, lineVars, Sound, TypeOK, LineRegistered
<1>6. ASSUME NEW c \in Convoys, NEW s \in Schedules, ChangeSchedule(c, s) PROVE LineRegistered'
  <2>1. CASE Rejoin(c, None)
    BY <2>1, RejoinRegistered DEF Sound
  <2>2. CASE UNCHANGED lineVars
    BY <2>2 DEF lineVars, Sound, LineRegistered
  <2> QED BY <1>6, <2>1, <2>2 DEF ChangeSchedule, SetSchedule
<1>7. ASSUME NEW c \in Convoys, SendToDepot(c) PROVE LineRegistered'
  <2>1. CASE Rejoin(c, None)
    BY <2>1, RejoinRegistered DEF Sound
  <2>2. CASE UNCHANGED lineVars
    BY <2>2 DEF lineVars, Sound, LineRegistered
  <2> QED BY <1>7, <2>1, <2>2 DEF SendToDepot, SetSchedule
<1>8. ASSUME NEW c \in Convoys, NEW l \in Lines, SetLine(c, l) PROVE LineRegistered'
  BY <1>8, RejoinRegistered DEF SetLine, Sound
<1>9. ASSUME NEW l \in Lines, NEW s \in Schedules, CreateLine(l, s) PROVE LineRegistered'
  BY <1>9 DEF CreateLine, cnvVars, Blank, Sound, TypeOK, LineRegistered
<1>10. ASSUME NEW l \in Lines, DeleteLine(l) PROVE LineRegistered'
  BY <1>10 DEF DeleteLine, Cleared, Sound, TypeOK, LineRegistered
<1>11. ASSUME NEW l \in Lines, NEW s \in Schedules, ChangeLine(l, s) PROVE LineRegistered'
  BY <1>11 DEF ChangeLine, Sound, TypeOK, LineRegistered
<1>12. ASSUME NEW l \in Lines, NEW S \in SUBSET Convoys, Withdraw(l, S) PROVE LineRegistered'
  <2>1. ASSUME NEW c \in Convoys, Destroy(c) PROVE LineRegistered'
    BY <2>1, DestroySound
  <2>2. CASE {c \in S : state[c] = "INITIAL"} = {}
    BY <1>12, <2>2 DEF Withdraw, lineVars, Cleared, Sound, TypeOK, LineRegistered
  <2> QED BY <1>12, <2>1, <2>2 DEF Withdraw
<1>13. ASSUME NEW l \in Lines, Unite(l) PROVE LineRegistered'
  <2>1. PICK s \in Schedules :
          LET C == {c \in Convoys : Exists(c) /\ line[c] = None /\ schedule[c] = s}
          IN  /\ Cardinality(C) > 1
              /\ members' = [members EXCEPT ![l] = C]
              /\ lineStops' = [lineStops EXCEPT ![l] = s]
              /\ lineAt' = [lineAt EXCEPT ![l] = s]
    BY <1>13 DEF Unite
  <2> DEFINE C == {c \in Convoys : Exists(c) /\ line[c] = None /\ schedule[c] = s}
  <2>2. C # {}
    BY <2>1, FS_EmptySet
  <2> QED BY <2>1, <2>2 DEF Sound, TypeOK, LineRegistered
<1>14. ASSUME NEW c \in Convoys, Step(c) PROVE LineRegistered'
  <2>1. CASE Destroy(c) /\ UNCHANGED parked
    BY <2>1, DestroySound
  <2>2. CASE ~(Destroy(c) /\ UNCHANGED parked)
    <3>1. PICK t \in States : state' = [state EXCEPT ![c] = t] /\ t # "NONE"
      BY <1>14, <2>2, StepFacts DEF Sound
    <3>2. /\ schedule' = [schedule EXCEPT ![c] = IF pending[c] # None THEN lineStops[pending[c]] ELSE @]
          /\ pending' = Cleared({c})
          /\ UNCHANGED <<line, lineVars, convoyAt>>
      BY <1>14, <2>2, StepFacts DEF Sound
    <3> QED BY <3>1, <3>2 DEF Cleared, lineVars, Sound, TypeOK, LineRegistered
  <2> QED BY <2>1, <2>2
<1>15. ASSUME NEW c \in Convoys, Loaded(c) PROVE LineRegistered'
  BY <1>15 DEF Loaded, Cleared, lineVars, Sound, TypeOK, LineRegistered
<1>16. ASSUME NEW c \in Convoys, Arrive(c) PROVE LineRegistered'
  BY <1>16 DEF Arrive, lineVars, Sound, TypeOK, LineRegistered
<1>17. ASSUME NEW c \in Convoys, Leave(c) PROVE LineRegistered'
  BY <1>17 DEF Leave, cnvVars, lineVars, Less, Sound, TypeOK, LineRegistered
<1>18. ASSUME Load PROVE LineRegistered'
  BY <1>18 DEF Load, Sound, TypeOK, LineRegistered
<1>19. CASE UNCHANGED vars
  BY <1>19 DEF vars, cnvVars, lineVars, Sound, TypeOK, LineRegistered
<1> QED BY <1>1, <1>2, <1>3, <1>4, <1>5, <1>6, <1>7, <1>8, <1>9, <1>10,
           <1>11, <1>12, <1>13, <1>14, <1>15, <1>16, <1>17, <1>18, <1>19
           DEF Next, Command, LineCommand, Clock

LEMMA RegistrationsStep ==
  ASSUME Sound, [Next]_vars
  PROVE  RegistrationsTrue'
<1>1. ASSUME NEW c \in Convoys, Buy(c) PROVE RegistrationsTrue'
  BY <1>1 DEF Buy, lineVars, Sound, TypeOK, RegistrationsTrue, Exists
<1>2. ASSUME NEW c \in Convoys, NEW o \in Convoys, Copy(c, o) PROVE RegistrationsTrue'
  BY <1>2, RejoinTypes DEF Copy, Rejoin, Sound, TypeOK, RegistrationsTrue, Exists
<1>3. ASSUME NEW c \in Convoys, Start(c) PROVE RegistrationsTrue'
  <2>1. PICK t \in States : state' = [state EXCEPT ![c] = t] /\ (t = "NONE" <=> state[c] = "NONE")
    BY <1>3, StartFacts DEF Sound
  <2> QED BY <1>3, <2>1 DEF Start, lineVars, Sound, TypeOK, RegistrationsTrue, Exists
<1>4. ASSUME NEW c \in Convoys, SelfDestruct(c) PROVE RegistrationsTrue'
  <2>1. CASE state[c] = "INITIAL"
    BY <1>4, <2>1, DestroySound DEF SelfDestruct
  <2>2. CASE state[c] # "INITIAL"
    <3>1. /\ Exists(c) /\ state' = [state EXCEPT ![c] = "SELF_DESTRUCT"]
          /\ UNCHANGED <<schedule, line, convoyAt>>
      BY <1>4, <2>2 DEF SelfDestruct, lineVars
    <3> QED BY <3>1 DEF Sound, TypeOK, RegistrationsTrue, Exists
  <2> QED BY <2>1, <2>2
<1>5. ASSUME NEW c \in Convoys, EditSchedule(c) PROVE RegistrationsTrue'
  BY <1>5 DEF EditSchedule, lineVars, Sound, TypeOK, RegistrationsTrue, Exists
<1>6. ASSUME NEW c \in Convoys, NEW s \in Schedules, ChangeSchedule(c, s) PROVE RegistrationsTrue'
  <2>1. line' = line \/ line' = [line EXCEPT ![c] = None]
    BY <1>6 DEF ChangeSchedule, SetSchedule, Rejoin, lineVars
  <2>2. \A x \in Convoys \ {c} : state'[x] = state[x] /\ schedule'[x] = schedule[x] /\ convoyAt'[x] = convoyAt[x] /\ line'[x] = line[x]
    BY <1>6, <2>1 DEF ChangeSchedule, SetSchedule, Sound, TypeOK
  <2>3. Exists(c)'
    BY <1>6 DEF ChangeSchedule, SetSchedule, Sound, TypeOK, Exists
  <2>4. convoyAt'[c] # {} => line'[c] = None /\ convoyAt'[c] \subseteq schedule'[c]
    BY <1>6, <2>1 DEF ChangeSchedule, SetSchedule, Matches, Rejoin, lineVars, Sound, TypeOK, RegistrationsTrue
  <2> QED BY <2>2, <2>3, <2>4 DEF RegistrationsTrue, Sound, Exists
<1>7. ASSUME NEW c \in Convoys, SendToDepot(c) PROVE RegistrationsTrue'
  <2>1. line' = line \/ line' = [line EXCEPT ![c] = None]
    BY <1>7 DEF SendToDepot, SetSchedule, Rejoin, lineVars
  <2>2. \A x \in Convoys \ {c} : state'[x] = state[x] /\ schedule'[x] = schedule[x] /\ convoyAt'[x] = convoyAt[x] /\ line'[x] = line[x]
    BY <1>7, <2>1 DEF SendToDepot, SetSchedule, Sound, TypeOK
  <2>3. Exists(c)'
    BY <1>7 DEF SendToDepot, SetSchedule, Sound, TypeOK, Exists
  <2>4. convoyAt'[c] # {} => line'[c] = None /\ convoyAt'[c] \subseteq schedule'[c]
    BY <1>7, <2>1 DEF SendToDepot, SetSchedule, Matches, Rejoin, lineVars, Sound, TypeOK, RegistrationsTrue
  <2> QED BY <2>2, <2>3, <2>4 DEF RegistrationsTrue, Sound, Exists
<1>8. ASSUME NEW c \in Convoys, NEW l \in Lines, SetLine(c, l) PROVE RegistrationsTrue'
  <2>1. line' = [line EXCEPT ![c] = l] /\ l # None
    BY <1>8, NoneAssumption DEF SetLine, Rejoin
  <2>2. \A x \in Convoys \ {c} : state'[x] = state[x] /\ schedule'[x] = schedule[x] /\ convoyAt'[x] = convoyAt[x] /\ line'[x] = line[x]
    BY <1>8, <2>1 DEF SetLine, TakeSchedule, Sound, TypeOK
  <2>3. convoyAt'[c] = {}
    BY <1>8 DEF SetLine, Unregistered, Sound, TypeOK, RegistrationsTrue
  <2> QED BY <2>2, <2>3 DEF RegistrationsTrue, Sound, Exists
<1>9. ASSUME NEW l \in Lines, NEW s \in Schedules, CreateLine(l, s) PROVE RegistrationsTrue'
  BY <1>9 DEF CreateLine, cnvVars, Sound, TypeOK, RegistrationsTrue, Exists
<1>10. ASSUME NEW l \in Lines, DeleteLine(l) PROVE RegistrationsTrue'
  <2>1. \A c \in members[l] : line[c] = l /\ convoyAt[c] = {}
    BY NoneAssumption DEF Sound, TypeOK, Members, RegistrationsTrue
  <2> QED BY <1>10, <2>1 DEF DeleteLine, Sound, TypeOK, RegistrationsTrue, Exists
<1>11. ASSUME NEW l \in Lines, NEW s \in Schedules, ChangeLine(l, s) PROVE RegistrationsTrue'
  <2>1. \A c \in members[l] : line[c] = l /\ convoyAt[c] = {}
    BY NoneAssumption DEF Sound, TypeOK, Members, RegistrationsTrue
  <2> QED BY <1>11, <2>1 DEF ChangeLine, Sound, TypeOK, RegistrationsTrue, Exists
<1>12. ASSUME NEW l \in Lines, NEW S \in SUBSET Convoys, Withdraw(l, S) PROVE RegistrationsTrue'
  <2>1. ASSUME NEW c \in Convoys, Destroy(c) PROVE RegistrationsTrue'
    BY <2>1, DestroySound
  <2>2. CASE {c \in S : state[c] = "INITIAL"} = {}
    BY <1>12, <2>2 DEF Withdraw, lineVars, Cleared, Sound, TypeOK, RegistrationsTrue, Exists
  <2> QED BY <1>12, <2>1, <2>2 DEF Withdraw
<1>13. ASSUME NEW l \in Lines, Unite(l) PROVE RegistrationsTrue'
  <2>1. PICK s \in Schedules :
          LET C == {c \in Convoys : Exists(c) /\ line[c] = None /\ schedule[c] = s}
          IN  /\ line' = [c \in Convoys |-> IF c \in C THEN l ELSE line[c]]
              /\ convoyAt' = [c \in Convoys |-> IF c \in C THEN convoyAt[c] \ s ELSE convoyAt[c]]
    BY <1>13 DEF Unite
  <2>2. \A c \in Convoys : Exists(c) => Exists(c)'
    BY <1>13 DEF Unite, Exists, Sound, TypeOK
  <2>3. UNCHANGED schedule
    BY <1>13 DEF Unite
  <2> QED BY <2>1, <2>2, <2>3 DEF RegistrationsTrue, Sound, TypeOK
<1>14. ASSUME NEW c \in Convoys, Step(c) PROVE RegistrationsTrue'
  <2>1. CASE Destroy(c) /\ UNCHANGED parked
    BY <2>1, DestroySound
  <2>2. CASE ~(Destroy(c) /\ UNCHANGED parked)
    <3>1. PICK t \in States : state' = [state EXCEPT ![c] = t] /\ t # "NONE"
      BY <1>14, <2>2, StepFacts DEF Sound
    <3>2. /\ schedule' = [schedule EXCEPT ![c] = IF pending[c] # None THEN lineStops[pending[c]] ELSE @]
          /\ pending' = Cleared({c})
          /\ UNCHANGED <<line, lineVars, convoyAt>>
      BY <1>14, <2>2, StepFacts DEF Sound
    <3> QED BY <3>1, <3>2 DEF Cleared, lineVars, PendingIsOwn, Sound, TypeOK, RegistrationsTrue, Exists
  <2> QED BY <2>1, <2>2
<1>15. ASSUME NEW c \in Convoys, Loaded(c) PROVE RegistrationsTrue'
  BY <1>15 DEF Loaded, Cleared, lineVars, Sound, TypeOK, RegistrationsTrue, Exists
<1>16. ASSUME NEW c \in Convoys, Arrive(c) PROVE RegistrationsTrue'
  BY <1>16 DEF Arrive, lineVars, Sound, TypeOK, RegistrationsTrue, Exists
<1>17. ASSUME NEW c \in Convoys, Leave(c) PROVE RegistrationsTrue'
  BY <1>17 DEF Leave, cnvVars, lineVars, Less, Sound, TypeOK, RegistrationsTrue, Exists
<1>18. ASSUME Load PROVE RegistrationsTrue'
  <2>1. \A c \in Convoys : Exists(c) => Exists(c)'
    BY <1>18 DEF Load, TakenState, Exists, Sound, TypeOK
  <2>2. \A c \in Convoys : convoyAt'[c] # {} => line'[c] = None /\ convoyAt'[c] \subseteq schedule'[c]
    BY <1>18 DEF Load
  <2>3. \A c \in Convoys : ~Exists(c) => schedule'[c] = {}
    BY <1>18 DEF Load, Sound, Blank
  <2> QED BY <2>1, <2>2, <2>3 DEF RegistrationsTrue
<1>19. CASE UNCHANGED vars
  BY <1>19 DEF vars, cnvVars, lineVars, Sound, TypeOK, RegistrationsTrue, Exists
<1> QED BY <1>1, <1>2, <1>3, <1>4, <1>5, <1>6, <1>7, <1>8, <1>9, <1>10,
           <1>11, <1>12, <1>13, <1>14, <1>15, <1>16, <1>17, <1>18, <1>19
           DEF Next, Command, LineCommand, Clock

LEMMA PendingStep ==
  ASSUME Sound, [Next]_vars
  PROVE  PendingIsOwn'
<1>1. ASSUME NEW c \in Convoys, Buy(c) PROVE PendingIsOwn'
  BY <1>1 DEF Buy, lineVars, Sound, TypeOK, PendingIsOwn
<1>2. ASSUME NEW c \in Convoys, NEW o \in Convoys, Copy(c, o) PROVE PendingIsOwn'
  BY <1>2 DEF Copy, Rejoin, Blank, Sound, TypeOK, PendingIsOwn
<1>3. ASSUME NEW c \in Convoys, Start(c) PROVE PendingIsOwn'
  BY <1>3 DEF Start, lineVars, Sound, TypeOK, PendingIsOwn
<1>4. ASSUME NEW c \in Convoys, SelfDestruct(c) PROVE PendingIsOwn'
  <2>1. CASE state[c] = "INITIAL"
    BY <1>4, <2>1, DestroySound DEF SelfDestruct
  <2>2. CASE state[c] # "INITIAL"
    BY <1>4, <2>2 DEF SelfDestruct, lineVars, Cleared, Sound, TypeOK, PendingIsOwn
  <2> QED BY <2>1, <2>2
<1>5. ASSUME NEW c \in Convoys, EditSchedule(c) PROVE PendingIsOwn'
  BY <1>5 DEF EditSchedule, lineVars, Sound, TypeOK, PendingIsOwn
<1>6. ASSUME NEW c \in Convoys, NEW s \in Schedules, ChangeSchedule(c, s) PROVE PendingIsOwn'
  <2>1. CASE UNCHANGED <<line, pending, lineVars>>
    BY <2>1 DEF lineVars, Sound, PendingIsOwn
  <2>2. CASE Rejoin(c, None) /\ pending' = Cleared({c})
    BY <2>2 DEF Rejoin, Cleared, Sound, TypeOK, PendingIsOwn
  <2> QED BY <1>6, <2>1, <2>2 DEF ChangeSchedule, SetSchedule
<1>7. ASSUME NEW c \in Convoys, SendToDepot(c) PROVE PendingIsOwn'
  <2>1. CASE UNCHANGED <<line, pending, lineVars>>
    BY <2>1 DEF lineVars, Sound, PendingIsOwn
  <2>2. CASE Rejoin(c, None) /\ pending' = Cleared({c})
    BY <2>2 DEF Rejoin, Cleared, Sound, TypeOK, PendingIsOwn
  <2> QED BY <1>7, <2>1, <2>2 DEF SendToDepot, SetSchedule
<1>8. ASSUME NEW c \in Convoys, NEW l \in Lines, SetLine(c, l) PROVE PendingIsOwn'
  BY <1>8 DEF SetLine, Rejoin, Cleared, Sound, TypeOK, PendingIsOwn
<1>9. ASSUME NEW l \in Lines, NEW s \in Schedules, CreateLine(l, s) PROVE PendingIsOwn'
  BY <1>9 DEF CreateLine, cnvVars, Sound, TypeOK, PendingIsOwn
<1>10. ASSUME NEW l \in Lines, DeleteLine(l) PROVE PendingIsOwn'
  BY <1>10, NoneAssumption DEF DeleteLine, Cleared, Members, Sound, TypeOK, PendingIsOwn
<1>11. ASSUME NEW l \in Lines, NEW s \in Schedules, ChangeLine(l, s) PROVE PendingIsOwn'
  BY <1>11, NoneAssumption DEF ChangeLine, Members, Sound, TypeOK, PendingIsOwn
<1>12. ASSUME NEW l \in Lines, NEW S \in SUBSET Convoys, Withdraw(l, S) PROVE PendingIsOwn'
  <2>1. ASSUME NEW c \in Convoys, Destroy(c) PROVE PendingIsOwn'
    BY <2>1, DestroySound
  <2>2. CASE {c \in S : state[c] = "INITIAL"} = {}
    BY <1>12, <2>2 DEF Withdraw, lineVars, Cleared, Sound, TypeOK, PendingIsOwn
  <2> QED BY <1>12, <2>1, <2>2 DEF Withdraw
<1>13. ASSUME NEW l \in Lines, Unite(l) PROVE PendingIsOwn'
  BY <1>13 DEF Unite, Sound, TypeOK, PendingIsOwn
<1>14. ASSUME NEW c \in Convoys, Step(c) PROVE PendingIsOwn'
  <2>1. CASE Destroy(c) /\ UNCHANGED parked
    BY <2>1, DestroySound
  <2>2. CASE ~(Destroy(c) /\ UNCHANGED parked)
    <3>1. PICK t \in States : state' = [state EXCEPT ![c] = t] /\ t # "NONE"
      BY <1>14, <2>2, StepFacts DEF Sound
    <3>2. /\ schedule' = [schedule EXCEPT ![c] = IF pending[c] # None THEN lineStops[pending[c]] ELSE @]
          /\ pending' = Cleared({c})
          /\ UNCHANGED <<line, lineVars, convoyAt>>
      BY <1>14, <2>2, StepFacts DEF Sound
    <3> QED BY <3>1, <3>2 DEF Cleared, lineVars, Sound, TypeOK, PendingIsOwn
  <2> QED BY <2>1, <2>2
<1>15. ASSUME NEW c \in Convoys, Loaded(c) PROVE PendingIsOwn'
  BY <1>15 DEF Loaded, Cleared, lineVars, Sound, TypeOK, PendingIsOwn
<1>16. ASSUME NEW c \in Convoys, Arrive(c) PROVE PendingIsOwn'
  BY <1>16 DEF Arrive, lineVars, Sound, TypeOK, PendingIsOwn
<1>17. ASSUME NEW c \in Convoys, Leave(c) PROVE PendingIsOwn'
  BY <1>17 DEF Leave, cnvVars, lineVars, Less, Sound, TypeOK, PendingIsOwn
<1>18. ASSUME Load PROVE PendingIsOwn'
  BY <1>18 DEF Load, Cleared, Sound, TypeOK, PendingIsOwn
<1>19. CASE UNCHANGED vars
  BY <1>19 DEF vars, cnvVars, lineVars, Sound, TypeOK, PendingIsOwn
<1> QED BY <1>1, <1>2, <1>3, <1>4, <1>5, <1>6, <1>7, <1>8, <1>9, <1>10,
           <1>11, <1>12, <1>13, <1>14, <1>15, <1>16, <1>17, <1>18, <1>19
           DEF Next, Command, LineCommand, Clock

-----------------------------------------------------------------------------
(* The theorems *)

LEMMA SoundInit == Init => Sound
<1> SUFFICES ASSUME Init PROVE Sound
  OBVIOUS
<1>1. TypeOK
  BY SchedulesAssumption DEF Init, TypeOK, States
<1>2. Members /\ Blank /\ LineRegistered /\ RegistrationsTrue /\ PendingIsOwn
  BY NoneAssumption DEF Init, Members, Blank, LineRegistered, RegistrationsTrue, PendingIsOwn, Exists
<1> QED BY <1>1, <1>2 DEF Sound

LEMMA SoundStep == Sound /\ [Next]_vars => Sound'
BY TypeStep, MembersStep, BlankStep, LineRegisteredStep, RegistrationsStep, PendingStep DEF Sound

(* What the other theorems rest on, for every set of convoys, lines and schedules *)
THEOREM ConvoysSound == Spec => []Sound
BY SoundInit, SoundStep, PTL DEF Spec

(* The variables have their types *)
THEOREM ConvoysType == Spec => []TypeOK
<1>1. Sound => TypeOK
  BY DEF Sound
<1> QED BY <1>1, ConvoysSound, PTL

(* A line knows its convoys and they know it, whatever commands come in whatever order *)
THEOREM ConvoysMembers == Spec => []Members
<1>1. Sound => Members
  BY DEF Sound
<1> QED BY <1>1, ConvoysSound, PTL

(* A line is registered at its stops as long as it has a convoy *)
THEOREM ConvoysLineRegistered == Spec => []LineRegistered
<1>1. Sound => LineRegistered
  BY DEF Sound
<1> QED BY <1>1, ConvoysSound, PTL

(* A convoy is registered at stops of its own schedule only, and without a line only *)
THEOREM ConvoysRegistrations == Spec => []RegistrationsTrue
<1>1. Sound => RegistrationsTrue
  BY DEF Sound
<1> QED BY <1>1, ConvoysSound, PTL

(* No convoy waits for an update of a line that is not its own, or gone *)
THEOREM ConvoysPending == Spec => []PendingIsOwn
<1>1. Sound => PendingIsOwn
  BY DEF Sound
<1> QED BY <1>1, ConvoysSound, PTL


-----------------------------------------------------------------------------
(* The copies of the schedules *)

LEMMA DestroyCopy ==
  ASSUME Sound, CopyIsCurrent, NEW c \in Convoys, Destroy(c)
  PROVE  CopyIsCurrent'
<1>1. /\ line' = [line EXCEPT ![c] = None] /\ lineStops' = lineStops
      /\ \A x \in Convoys \ {c} : state'[x] = state[x] /\ schedule'[x] = schedule[x] /\ pending'[x] = pending[x]
  BY DEF Destroy, Rejoin, Cleared, Sound, TypeOK
<1> QED BY <1>1 DEF CopyIsCurrent, Sound, TypeOK

LEMMA CopyStep ==
  ASSUME Sound, "late" \notin Overtaking, CopyIsCurrent, [Next]_vars
  PROVE  CopyIsCurrent'
<1>1. ASSUME NEW c \in Convoys, Buy(c) PROVE CopyIsCurrent'
  BY <1>1 DEF Buy, Blank, Exists, lineVars, Sound, TypeOK, CopyIsCurrent
<1>2. ASSUME NEW c \in Convoys, NEW o \in Convoys, Copy(c, o) PROVE CopyIsCurrent'
  <2>1. /\ line' = [line EXCEPT ![c] = line[o]] /\ UNCHANGED <<lineStops, pending>>
        /\ line[o] # None => schedule'[c] = lineStops[line[o]]
        /\ \A x \in Convoys \ {c} : state'[x] = state[x] /\ schedule'[x] = schedule[x]
    BY <1>2 DEF Copy, Rejoin, Sound, TypeOK
  <2> QED BY <2>1 DEF Sound, TypeOK, CopyIsCurrent
<1>3. ASSUME NEW c \in Convoys, Start(c) PROVE CopyIsCurrent'
  <2>1. PICK t \in States : state' = [state EXCEPT ![c] = t] /\ (t = "SELF_DESTRUCT" <=> state[c] = "SELF_DESTRUCT")
    BY <1>3, StartFacts DEF Sound
  <2> QED BY <1>3, <2>1 DEF Start, lineVars, Sound, TypeOK, CopyIsCurrent
<1>4. ASSUME NEW c \in Convoys, SelfDestruct(c) PROVE CopyIsCurrent'
  <2>1. CASE state[c] = "INITIAL"
    BY <1>4, <2>1, DestroyCopy DEF SelfDestruct
  <2>2. CASE state[c] # "INITIAL"
    <3>1. /\ state' = [state EXCEPT ![c] = "SELF_DESTRUCT"]
          /\ \A o \in Convoys \ {c} : pending'[o] = pending[o]
          /\ UNCHANGED <<schedule, line, lineStops>>
      BY <1>4, <2>2 DEF SelfDestruct, Cleared, lineVars
    <3> QED BY <3>1 DEF Sound, TypeOK, CopyIsCurrent
  <2> QED BY <2>1, <2>2
<1>5. ASSUME NEW c \in Convoys, EditSchedule(c) PROVE CopyIsCurrent'
  BY <1>5 DEF EditSchedule, lineVars, Sound, TypeOK, CopyIsCurrent
<1>6. ASSUME NEW c \in Convoys, NEW s \in Schedules, ChangeSchedule(c, s) PROVE CopyIsCurrent'
  <2>1. CASE Rejoin(c, None) /\ pending' = Cleared({c})
    <3>1. /\ line' = [line EXCEPT ![c] = None] /\ lineStops' = lineStops
          /\ \A x \in Convoys \ {c} : state'[x] = state[x] /\ schedule'[x] = schedule[x] /\ pending'[x] = pending[x]
      BY <1>6, <2>1 DEF Rejoin, Cleared, ChangeSchedule, SetSchedule, Sound, TypeOK
    <3> QED BY <3>1 DEF Sound, TypeOK, CopyIsCurrent
  <2>2. CASE UNCHANGED <<line, pending, lineVars>> /\ (line[c] = None \/ schedule'[c] = lineStops[line[c]])
    <3>1. \A x \in Convoys \ {c} : state'[x] = state[x] /\ schedule'[x] = schedule[x]
      BY <1>6 DEF ChangeSchedule, SetSchedule, Sound, TypeOK
    <3> QED BY <2>2, <3>1 DEF lineVars, Sound, TypeOK, CopyIsCurrent
  <2> QED BY <1>6, <2>1, <2>2 DEF ChangeSchedule, SetSchedule, Matches, Sound, TypeOK
<1>7. ASSUME NEW c \in Convoys, SendToDepot(c) PROVE CopyIsCurrent'
  <2>1. CASE Rejoin(c, None) /\ pending' = Cleared({c})
    <3>1. /\ line' = [line EXCEPT ![c] = None] /\ lineStops' = lineStops
          /\ \A x \in Convoys \ {c} : state'[x] = state[x] /\ schedule'[x] = schedule[x] /\ pending'[x] = pending[x]
      BY <1>7, <2>1 DEF Rejoin, Cleared, SendToDepot, SetSchedule, Sound, TypeOK
    <3> QED BY <3>1 DEF Sound, TypeOK, CopyIsCurrent
  <2>2. CASE UNCHANGED <<line, pending, lineVars>> /\ (line[c] = None \/ schedule'[c] = lineStops[line[c]])
    <3>1. \A x \in Convoys \ {c} : state'[x] = state[x] /\ schedule'[x] = schedule[x]
      BY <1>7 DEF SendToDepot, SetSchedule, Sound, TypeOK
    <3> QED BY <2>2, <3>1 DEF lineVars, Sound, TypeOK, CopyIsCurrent
  <2> QED BY <1>7, <2>1, <2>2 DEF SendToDepot, SetSchedule, Matches, Sound, TypeOK
<1>8. ASSUME NEW c \in Convoys, NEW l \in Lines, SetLine(c, l) PROVE CopyIsCurrent'
  <2>1. /\ line' = [line EXCEPT ![c] = l] /\ lineStops' = lineStops /\ schedule'[c] = lineStops[l]
        /\ \A x \in Convoys \ {c} : state'[x] = state[x] /\ schedule'[x] = schedule[x] /\ pending'[x] = pending[x]
    BY <1>8 DEF SetLine, TakeSchedule, Rejoin, Cleared, Sound, TypeOK
  <2> QED BY <2>1 DEF Sound, TypeOK, CopyIsCurrent
<1>9. ASSUME NEW l \in Lines, NEW s \in Schedules, CreateLine(l, s) PROVE CopyIsCurrent'
  <2>1. \A c \in Convoys : line[c] # l
    BY <1>9, LineThere, NoneAssumption DEF CreateLine, Sound
  <2> QED BY <1>9, <2>1 DEF CreateLine, cnvVars, Sound, TypeOK, CopyIsCurrent
<1>10. ASSUME NEW l \in Lines, DeleteLine(l) PROVE CopyIsCurrent'
  BY <1>10, NoneAssumption DEF DeleteLine, Cleared, Members, Sound, TypeOK, CopyIsCurrent
<1>11. ASSUME NEW l \in Lines, NEW s \in Schedules, ChangeLine(l, s) PROVE CopyIsCurrent'
  BY <1>11, NoneAssumption DEF ChangeLine, Members, Sound, TypeOK, CopyIsCurrent
<1>12. ASSUME NEW l \in Lines, NEW S \in SUBSET Convoys, Withdraw(l, S) PROVE CopyIsCurrent'
  <2>1. ASSUME NEW c \in Convoys, Destroy(c) PROVE CopyIsCurrent'
    BY <2>1, DestroyCopy
  <2>2. CASE {c \in S : state[c] = "INITIAL"} = {}
    BY <1>12, <2>2 DEF Withdraw, lineVars, Cleared, Sound, TypeOK, CopyIsCurrent
  <2> QED BY <1>12, <2>1, <2>2 DEF Withdraw
<1>13. ASSUME NEW l \in Lines, Unite(l) PROVE CopyIsCurrent'
  <2>1. PICK s \in Schedules :
          LET C == {c \in Convoys : Exists(c) /\ line[c] = None /\ schedule[c] = s}
          IN  /\ line' = [c \in Convoys |-> IF c \in C THEN l ELSE line[c]]
              /\ lineStops' = [lineStops EXCEPT ![l] = s]
    BY <1>13 DEF Unite
  <2>2. \A c \in Convoys : state[c] = "SELF_DESTRUCT" => state'[c] = "SELF_DESTRUCT" \/ line[c] = None
    BY <1>13 DEF Unite, Sound, TypeOK
  <2>3. UNCHANGED <<schedule, pending>> /\ \A c \in Convoys : line[c] # l
    BY <1>13, LineThere, NoneAssumption DEF Unite, Sound
  <2> QED BY <2>1, <2>2, <2>3 DEF Sound, TypeOK, CopyIsCurrent
<1>14. ASSUME NEW c \in Convoys, Step(c) PROVE CopyIsCurrent'
  <2>1. CASE Destroy(c) /\ UNCHANGED parked
    BY <2>1, DestroyCopy
  <2>2. CASE ~(Destroy(c) /\ UNCHANGED parked)
    <3>1. PICK t \in States : /\ state' = [state EXCEPT ![c] = t]
                              /\ pending[c] = None => state[c] # "SELF_DESTRUCT"
      BY <1>14, <2>2, StepFacts DEF Sound
    <3>2. /\ schedule' = [schedule EXCEPT ![c] = IF pending[c] # None THEN lineStops[pending[c]] ELSE @]
          /\ pending' = Cleared({c})
          /\ UNCHANGED <<line, lineVars, convoyAt>>
      BY <1>14, <2>2, StepFacts DEF Sound
    <3>3. /\ line' = line /\ lineStops' = lineStops
          /\ \A x \in Convoys \ {c} : state'[x] = state[x] /\ schedule'[x] = schedule[x] /\ pending'[x] = pending[x]
      BY <3>1, <3>2 DEF Cleared, lineVars, Sound, TypeOK
    <3>4. line[c] # None => schedule'[c] = lineStops[line[c]]
      BY <3>1, <3>2 DEF PendingIsOwn, Sound, TypeOK, CopyIsCurrent
    <3> QED BY <3>3, <3>4 DEF Sound, TypeOK, CopyIsCurrent
  <2> QED BY <2>1, <2>2
<1>15. ASSUME NEW c \in Convoys, Loaded(c) PROVE CopyIsCurrent'
  <2>1. /\ UNCHANGED <<schedule, line, lineStops>> /\ state[c] = "LOADING"
        /\ \A x \in Convoys \ {c} : state'[x] = state[x] /\ pending'[x] = pending[x]
    BY <1>15 DEF Loaded, Cleared, lineVars, Sound, TypeOK
  <2>2. pending' = pending \/ state'[c] = "SELF_DESTRUCT"
    BY <1>15 DEF Loaded, Cleared, lineVars, Sound, TypeOK
  <2> QED BY <2>1, <2>2 DEF Sound, TypeOK, CopyIsCurrent
<1>16. ASSUME NEW c \in Convoys, Arrive(c) PROVE CopyIsCurrent'
  BY <1>16 DEF Arrive, lineVars, Sound, TypeOK, CopyIsCurrent
<1>17. ASSUME NEW c \in Convoys, Leave(c) PROVE CopyIsCurrent'
  BY <1>17 DEF Leave, cnvVars, lineVars, Less, Sound, TypeOK, CopyIsCurrent
<1>18. ASSUME Load PROVE CopyIsCurrent'
  <2>1. lineStops' = lineStops /\ line' \in [Convoys -> Lines \cup {None}]
    BY <1>18 DEF Load
  <2>2. \A c \in Convoys : line'[c] # None => Matches(schedule'[c], lineStops[line'[c]])
    BY <1>18 DEF Load
  <2> QED BY <2>1, <2>2 DEF Matches, Sound, TypeOK, CopyIsCurrent
<1>19. CASE UNCHANGED vars
  BY <1>19 DEF vars, cnvVars, lineVars, Sound, TypeOK, CopyIsCurrent
<1> QED BY <1>1, <1>2, <1>3, <1>4, <1>5, <1>6, <1>7, <1>8, <1>9, <1>10,
           <1>11, <1>12, <1>13, <1>14, <1>15, <1>16, <1>17, <1>18, <1>19
           DEF Next, Command, LineCommand, Clock

(* A convoy with a line goes by the line's schedule or has the update ahead, if no *)
(* command reaches it when it is to be destroyed                             *)
THEOREM ConvoysCopyIsCurrent ==
  ASSUME "late" \notin Overtaking
  PROVE  Spec => []CopyIsCurrent
<1>1. Init => CopyIsCurrent
  BY DEF Init, CopyIsCurrent
<1>2. Sound /\ CopyIsCurrent /\ [Next]_vars => CopyIsCurrent'
  BY CopyStep
<1> QED BY <1>1, <1>2, ConvoysSound, PTL DEF Spec


-----------------------------------------------------------------------------
(* Who is moved *)

(* KeptTrack, and one in its depot may still be in the list of what is moved, once *)
Kept ==
  \A c \in Convoys :
    /\ c \in parked <=> state[c] = "INITIAL"
    /\ state[c] # "INITIAL" => sync[c] = IF Exists(c) THEN 1 ELSE 0
    /\ sync[c] <= 1

(* A step ends no convoy in its depot *)
LEMMA StepEnds ==
  ASSUME TypeOK, NEW c \in Convoys, Step(c), Destroy(c)
  PROVE  state[c] # "INITIAL"
<1> SUFFICES ASSUME state[c] = "INITIAL" PROVE FALSE
  OBVIOUS
<1>1. \A same : TakenState(c, same) = "INITIAL"
  BY DEF TakenState
<1>2. \A stops, home, edit : After("INITIAL", stops, home, edit) = {"INITIAL"}
  BY DEF After
<1>3. state' = [state EXCEPT ![c] = "INITIAL"]
  BY <1>1, <1>2 DEF Step
<1>4. state' = [state EXCEPT ![c] = "NONE"]
  BY DEF Destroy
<1> QED BY <1>3, <1>4 DEF TypeOK

LEMMA KeptStep ==
  ASSUME Sound, Overtaking = {}, Kept, [Next]_vars
  PROVE  Kept'
<1>1. ASSUME NEW c \in Convoys, Buy(c) PROVE Kept'
  BY <1>1 DEF Buy, lineVars, Kept, Sound, TypeOK, Exists
<1>2. ASSUME NEW c \in Convoys, NEW o \in Convoys, Copy(c, o) PROVE Kept'
  BY <1>2, RejoinMembers DEF Copy, Kept, Sound, TypeOK, Exists
<1>3. ASSUME NEW c \in Convoys, Start(c) PROVE Kept'
  <2>1. state[c] = "INITIAL" /\ sync[c] = 0
    BY <1>3 DEF Start, Kept
  <2>2. CASE UNCHANGED <<state, parked, sync>>
    BY <2>2 DEF Kept, Sound, TypeOK, Exists
  <2>3. CASE /\ parked' = parked \ {c}
             /\ state' = [state EXCEPT ![c] = "ROUTING_1"]
             /\ sync' = [sync EXCEPT ![c] = @ + 1]
    BY <2>1, <2>3 DEF Kept, Sound, TypeOK, Exists
  <2> QED BY <1>3, <2>1, <2>2, <2>3 DEF Start
<1>4. ASSUME NEW c \in Convoys, SelfDestruct(c) PROVE Kept'
  <2>1. CASE state[c] = "INITIAL"
    BY <1>4, <2>1 DEF SelfDestruct, Destroy, Less, Kept, Sound, TypeOK, Exists
  <2>2. CASE state[c] # "INITIAL"
    BY <1>4, <2>2 DEF SelfDestruct, Kept, Sound, TypeOK, Exists
  <2> QED BY <2>1, <2>2
<1>5. ASSUME NEW c \in Convoys, EditSchedule(c) PROVE Kept'
  BY <1>5 DEF EditSchedule, lineVars, Kept, Sound, TypeOK, Exists
<1>6. ASSUME NEW c \in Convoys, NEW s \in Schedules, ChangeSchedule(c, s) PROVE Kept'
  BY <1>6 DEF ChangeSchedule, SetSchedule, Kept, Sound, TypeOK, Exists
<1>7. ASSUME NEW c \in Convoys, SendToDepot(c) PROVE Kept'
  BY <1>7 DEF SendToDepot, SetSchedule, Kept, Sound, TypeOK, Exists
<1>8. ASSUME NEW c \in Convoys, NEW l \in Lines, SetLine(c, l) PROVE Kept'
  BY <1>8 DEF SetLine, TakenState, Kept, Sound, TypeOK, Exists
<1>9. ASSUME NEW l \in Lines, NEW s \in Schedules, CreateLine(l, s) PROVE Kept'
  BY <1>9 DEF CreateLine, cnvVars, Kept, Sound, TypeOK, Exists
<1>10. ASSUME NEW l \in Lines, DeleteLine(l) PROVE Kept'
  BY <1>10 DEF DeleteLine, Cleared, Kept, Sound, TypeOK, Exists
<1>11. ASSUME NEW l \in Lines, NEW s \in Schedules, ChangeLine(l, s) PROVE Kept'
  BY <1>11 DEF ChangeLine, Kept, Sound, TypeOK, Exists
<1>12. ASSUME NEW l \in Lines, NEW S \in SUBSET Convoys, Withdraw(l, S) PROVE Kept'
  <2>1. {c \in S : state[c] = "INITIAL"} = {} /\ UNCHANGED <<parked, sync>>
    BY <1>12 DEF Withdraw
  <2>2. \A c \in S : Exists(c)
    BY <1>12, NoneAssumption DEF Withdraw, Members, Blank, Sound, TypeOK
  <2>3. state' = [c \in Convoys |-> IF c \in S THEN "SELF_DESTRUCT" ELSE state[c]]
    BY <1>12, <2>1 DEF Withdraw
  <2> QED BY <2>1, <2>2, <2>3 DEF Kept, Sound, TypeOK, Exists
<1>13. ASSUME NEW l \in Lines, Unite(l) PROVE Kept'
  <2>1. UNCHANGED <<parked, sync>>
    BY <1>13 DEF Unite
  <2>2. \A c \in Convoys : state'[c] = state[c] \/ (Exists(c) /\ state[c] # "INITIAL" /\ state'[c] = "EDIT_SCHEDULE")
    BY <1>13 DEF Unite, Sound, TypeOK
  <2> QED BY <2>1, <2>2 DEF Kept, Sound, TypeOK, Exists
<1>14. ASSUME NEW c \in Convoys, Step(c) PROVE Kept'
  <2>1. CASE Destroy(c) /\ UNCHANGED parked
    <3>1. state[c] # "INITIAL" /\ Exists(c)
      BY <1>14, <2>1, StepEnds DEF Sound, Step
    <3> QED BY <2>1, <3>1 DEF Destroy, Less, Kept, Sound, TypeOK, Exists
  <2>2. CASE ~(Destroy(c) /\ UNCHANGED parked)
    <3>1. Exists(c)
      BY <1>14 DEF Step
    <3>2. PICK t \in States :
            /\ state' = [state EXCEPT ![c] = t]
            /\ t # "NONE"
            /\ state[c] = "INITIAL" => t = "INITIAL"
            /\ parked' = IF t = "INITIAL" /\ state[c] # "INITIAL" THEN parked \cup {c} ELSE parked
            /\ sync' = [sync EXCEPT ![c] = IF t = "INITIAL" THEN Less(@) ELSE @]
      BY <1>14, <2>2, StepFacts DEF Sound
    <3> QED BY <3>1, <3>2 DEF Less, Kept, Sound, TypeOK, Exists
  <2> QED BY <2>1, <2>2
<1>15. ASSUME NEW c \in Convoys, Loaded(c) PROVE Kept'
  BY <1>15 DEF Loaded, Cleared, lineVars, Kept, Sound, TypeOK, Exists
<1>16. ASSUME NEW c \in Convoys, Arrive(c) PROVE Kept'
  BY <1>16 DEF Arrive, lineVars, Kept, Sound, TypeOK, Exists
<1>17. ASSUME NEW c \in Convoys, Leave(c) PROVE Kept'
  BY <1>17 DEF Leave, cnvVars, lineVars, Less, Kept, Sound, TypeOK, Exists
<1>18. ASSUME Load PROVE Kept'
  <2>1. PICK R \in SUBSET Convoys : state' = [c \in Convoys |-> TakenState(c, c \notin R)] /\ \A c \in R : pending[c] # None
    BY <1>18 DEF Load
  <2>2. \A c \in Convoys : (state'[c] = "INITIAL" <=> state[c] = "INITIAL") /\ (state'[c] = "NONE" <=> state[c] = "NONE")
    <3> SUFFICES ASSUME NEW c \in Convoys
                 PROVE  (state'[c] = "INITIAL" <=> state[c] = "INITIAL") /\ (state'[c] = "NONE" <=> state[c] = "NONE")
      OBVIOUS
    <3>1. state[c] = "NONE" => c \notin R
      BY <2>1 DEF Sound, Blank, Exists
    <3>2. state'[c] = TakenState(c, c \notin R)
      BY <2>1
    <3>3. CASE c \in R
      <4>1. state'[c] \in {state[c], "EDIT_SCHEDULE"} /\ (state[c] = "INITIAL" => state'[c] = "INITIAL")
        BY <3>2 DEF TakenState
      <4> QED BY <3>1, <3>3, <4>1
    <3>4. CASE c \notin R
      BY <3>2, <3>4 DEF TakenState
    <3> QED BY <3>3, <3>4
  <2>3. /\ parked' = {c \in Convoys : state[c] = "INITIAL"}
        /\ sync' = [c \in Convoys |-> IF state[c] \in {"NONE", "INITIAL"} THEN 0 ELSE 1]
    BY <1>18 DEF Load
  <2> QED BY <2>2, <2>3 DEF Kept, Exists
<1>19. CASE UNCHANGED vars
  BY <1>19 DEF vars, cnvVars, lineVars, Kept, Sound, TypeOK, Exists
<1> QED BY <1>1, <1>2, <1>3, <1>4, <1>5, <1>6, <1>7, <1>8, <1>9, <1>10,
           <1>11, <1>12, <1>13, <1>14, <1>15, <1>16, <1>17, <1>18, <1>19
           DEF Next, Command, LineCommand, Clock

(* If nothing comes between, no convoy is lost, moved twice or moved after its end *)
THEOREM ConvoysKeptTrack ==
  ASSUME Overtaking = {}
  PROVE  Spec => []KeptTrack
<1>1. Init => Kept
  BY DEF Init, Kept, Exists
<1>2. Sound /\ Kept /\ [Next]_vars => Kept'
  BY KeptStep
<1>3. Kept => KeptTrack
  BY DEF Kept, KeptTrack
<1> QED BY <1>1, <1>2, <1>3, ConvoysSound, PTL DEF Spec

(* Who serves a stop is who goods may wait for there                         *)
THEOREM ConvoysRegistered == Spec => []Registrations
BY ConvoysLineRegistered, ConvoysRegistrations, PTL DEF Registrations
=============================================================================
