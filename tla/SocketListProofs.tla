-------------------------- MODULE SocketListProofs --------------------------
(***************************************************************************)
(* Proofs about SocketList for every set of sockets and tools and every     *)
(* bound: a socket has one entry, the counters never fall below what they   *)
(* count (and agree with it where no tool logs in), the pending client will *)
(* be served, and nobody is connected from a banned address.               *)
(*                                                                         *)
(* The counters need the inequality: where administration tools log in they *)
(* do not agree with the list, and only "at least" is inductive; it is what *)
(* keeps the unsigned counters of the code from wrapping below zero.        *)
(***************************************************************************)
EXTENDS SocketList, TLAPS, SequenceTheorems, FiniteSetTheorems

ListInv == list \in Seq(Entry) /\ OneEntryPerSocket

CountInv ==
  /\ connected \in Nat /\ connected >= Cardinality(In("connected"))
  /\ playing \in Nat /\ playing >= Cardinality(In("playing"))
  /\ Admins = {} => CountersAgree

OrdersInv == \* only tools log in and give orders
  \A k \in DOMAIN received :
    received[k].cmd \in {"login", "kick", "ban"} => received[k].from \in Admins

RestInv ==
  /\ last \in Int
  /\ pending \in Sockets \cup {NoSocket}
  /\ syncs \in Seq(Nat \ {0})
  /\ received \in Seq(Command)
  /\ blacklist \in SUBSET Hosts
  /\ asked \in SUBSET Sockets
  /\ stage \in {"activity", "execute", "run"}

IInv == /\ ListInv /\ CountInv /\ OrdersInv /\ RestInv
        /\ PendingWillBeServed /\ BannedAreOut

-----------------------------------------------------------------------------
(* Lists *)

(* A function on the indices of a list is a list of the same length *)
LEMMA MapIsSeq ==
  ASSUME NEW S, NEW T, NEW q \in Seq(S), NEW f, f = [i \in DOMAIN q |-> f[i]],
         \A i \in DOMAIN q : f[i] \in T
  PROVE  f \in Seq(T) /\ DOMAIN f = DOMAIN q /\ Len(f) = Len(q)
<1>1. DOMAIN q = 1..Len(q) /\ Len(q) \in Nat
  BY LenProperties
<1>2. f \in [1..Len(q) -> T]
  BY <1>1
<1>3. f \in Seq(T)
  BY <1>1, <1>2, SeqDef
<1> QED BY <1>1, <1>2, <1>3, LenProperties

(* The indices of the entries in some state are finitely many *)
LEMMA InIsFinite ==
  ASSUME list \in Seq(Entry), NEW state
  PROVE  /\ In(state) \subseteq 1..Len(list)
         /\ IsFiniteSet(In(state))
         /\ Cardinality(In(state)) \in Nat
<1>1. DOMAIN list = 1..Len(list) /\ Len(list) \in Nat
  BY LenProperties
<1>2. In(state) \subseteq 1..Len(list)
  BY <1>1 DEF In
<1>3. IsFiniteSet(1..Len(list))
  BY <1>1, FS_Interval
<1>4. IsFiniteSet(In(state))
  BY <1>2, <1>3, FS_Subset
<1> QED BY <1>2, <1>4, FS_CardinalityType

LEMMA InIsFiniteNext ==
  ASSUME list' \in Seq(Entry), NEW state
  PROVE  Cardinality(In(state)') \in Nat
<1>1. DOMAIN list' = 1..Len(list') /\ Len(list') \in Nat
  BY LenProperties
<1>2. In(state)' \subseteq 1..Len(list')
  BY <1>1 DEF In
<1>3. IsFiniteSet(1..Len(list'))
  BY <1>1, FS_Interval
<1> QED BY <1>2, <1>3, FS_Subset, FS_CardinalityType

(* A client id of an open socket is unique and in use *)
LEMMA ClientIdsUnique ==
  ASSUME ListInv, NEW s \in Sockets, NEW i \in ClientIds(s)
  PROVE  ClientIds(s) = {i} /\ i \in Nat \ {0} /\ i \in DOMAIN list
<1>1. s # NoSocket
  BY SocketsAssumption
<1>2. DOMAIN list = 1..Len(list) /\ Len(list) \in Nat
  BY LenProperties DEF ListInv
<1>3. \A j \in ClientIds(s) : j = i
  BY <1>1 DEF ClientIds, ListInv, OneEntryPerSocket
<1> QED BY <1>2, <1>3 DEF ClientIds

(* add_client takes an entry that is not in use *)
LEMMA EnteredList ==
  ASSUME ListInv, NEW s \in Sockets, NEW f \in Nat, IsFree(f), Enter(s, f)
  PROVE  /\ list' \in Seq(Entry)
         /\ DOMAIN list' = DOMAIN list \cup {f}
         /\ list'[f] = [socket |-> s, state |-> "connected"]
         /\ \A i \in DOMAIN list \ {f} : list'[i] = list[i]
         /\ f \in DOMAIN list => list[f].state = "inactive"
<1> DEFINE new == [socket |-> s, state |-> "connected"]
<1>1. new \in Entry
  BY DEF Entry, States
<1>2. list \in Seq(Entry) /\ DOMAIN list = 1..Len(list) /\ Len(list) \in Nat
  BY LenProperties DEF ListInv
<1>3. CASE In("inactive") = {} /\ f = Len(list) + 1
  <2>1. f \notin DOMAIN list
    BY <1>2, <1>3
  <2>2. list' = Append(list, new)
    BY <2>1 DEF Enter
  <2>3. list' \in Seq(Entry) /\ Len(list') = Len(list) + 1
        /\ \A i \in 1..Len(list) : list'[i] = list[i]
    <3> HIDE DEF new
    <3> QED BY <1>1, <1>2, <2>2, AppendProperties
  <2>4. DOMAIN list' = 1..(Len(list) + 1)
    BY <2>3, LenProperties
  <2>5. 1..(Len(list) + 1) = 1..Len(list) \cup {Len(list) + 1}
    BY <1>2
  <2>6. DOMAIN list' = DOMAIN list \cup {f}
    BY <1>2, <1>3, <2>4, <2>5
  <2>7. list'[f] = new
    <3> HIDE DEF new
    <3>1. Append(list, new)[Len(list) + 1] = new
      BY <1>1, <1>2, AppendProperties
    <3> QED BY <1>3, <2>2, <3>1
  <2>8. \A i \in DOMAIN list \ {f} : list'[i] = list[i]
    BY <1>2, <2>3
  <2> QED BY <2>1, <2>3, <2>6, <2>7, <2>8
<1>4. CASE f \in In("inactive")
  <2>1. f \in DOMAIN list /\ list[f].state = "inactive"
    BY <1>4 DEF In
  <2>2. list' = [list EXCEPT ![f] = new]
    BY <2>1 DEF Enter
  <2>3. list' \in Seq(Entry)
    BY <1>1, <1>2, <2>1, <2>2, ExceptSeq
  <2>4. DOMAIN list' = DOMAIN list \cup {f}
    BY <2>1, <2>2
  <2>5. list'[f] = new /\ \A i \in DOMAIN list \ {f} : list'[i] = list[i]
    BY <2>1, <2>2
  <2> QED BY <2>1, <2>3, <2>4, <2>5
<1> QED BY <1>3, <1>4 DEF IsFree

LEMMA AcceptKeeps ==
  ASSUME ListInv, CountInv, NEW s \in Sockets, NEW f \in Nat, IsFree(f), Enter(s, f),
         connected' = connected + 1, playing' = playing
  PROVE  ListInv' /\ CountInv'
<1>1. /\ list' \in Seq(Entry)
      /\ DOMAIN list' = DOMAIN list \cup {f}
      /\ list'[f] = [socket |-> s, state |-> "connected"]
      /\ \A i \in DOMAIN list \ {f} : list'[i] = list[i]
      /\ f \in DOMAIN list => list[f].state = "inactive"
  BY EnteredList
<1>2. s # NoSocket
  BY SocketsAssumption
<1>3. \A i \in DOMAIN list : list[i].socket # s
  BY <1>2 DEF Enter, HasClient, ClientIds, ListInv, OneEntryPerSocket
<1>4. OneEntryPerSocket'
  <2>1. \A i \in DOMAIN list' :
          list'[i].socket = NoSocket <=> list'[i].state \in {"inactive", "has_left"}
    BY <1>1, <1>2 DEF ListInv, OneEntryPerSocket
  <2>2. ASSUME NEW i \in DOMAIN list', NEW j \in DOMAIN list',
               list'[i].socket = list'[j].socket, list'[i].socket # NoSocket
        PROVE  i = j
    BY <1>1, <1>3, <2>2 DEF ListInv, OneEntryPerSocket
  <2> QED BY <2>1, <2>2 DEF OneEntryPerSocket
<1>5. In("connected")' = In("connected") \cup {f} /\ f \notin In("connected")
  BY <1>1 DEF In
<1>6. In("playing")' = In("playing")
  BY <1>1 DEF In
<1>7. IsFiniteSet(In("connected")) /\ Cardinality(In("connected")) \in Nat
  BY InIsFinite DEF ListInv
<1>8. Cardinality(In("connected")') = Cardinality(In("connected")) + 1
  BY <1>5, <1>7, FS_AddElement
<1>9. CountInv'
  BY <1>6, <1>7, <1>8 DEF CountInv, CountersAgree
<1> QED BY <1>1, <1>4, <1>9 DEF ListInv

(* remove_client *)
LEMMA RemoveKeeps ==
  ASSUME ListInv, CountInv, NEW gone \in SUBSET Sockets, RemoveEntries(gone)
  PROVE  /\ ListInv' /\ CountInv'
         /\ DOMAIN list' = DOMAIN list
         /\ \A i \in DOMAIN list :
              list'[i] = IF list[i].socket \in gone THEN Removed(list[i]) ELSE list[i]
<1> DEFINE ids == UNION {ClientIds(s) : s \in gone}
<1>1. list \in Seq(Entry) /\ DOMAIN list = 1..Len(list) /\ Len(list) \in Nat
      /\ \A i \in DOMAIN list : list[i] \in Entry
  BY LenProperties, ElementOfSeq DEF ListInv
<1>2. list' = [i \in DOMAIN list |-> IF i \in ids THEN Removed(list[i]) ELSE list[i]]
  BY DEF RemoveEntries
<1>3. \A i \in DOMAIN list : i \in ids <=> list[i].socket \in gone
  <2>1. \A i \in DOMAIN list : i \in ids => list[i].socket \in gone
    BY DEF ClientIds
  <2>2. \A i \in DOMAIN list : list[i].socket \in gone => i \in ClientIds(list[i].socket)
    BY SocketsAssumption DEF ClientIds, ListInv, OneEntryPerSocket
  <2> QED BY <2>1, <2>2
<1> HIDE DEF ids
<1>4. \A i \in DOMAIN list :
        list'[i] = IF list[i].socket \in gone THEN Removed(list[i]) ELSE list[i]
  BY <1>2, <1>3
<1>5. list' \in Seq(Entry) /\ DOMAIN list' = DOMAIN list
  <2>1. list' = [i \in DOMAIN list |-> list'[i]]
    BY <1>2
  <2>2. \A e \in Entry : Removed(e) \in Entry
    BY DEF Removed, Entry, States
  <2>3. \A i \in DOMAIN list : list'[i] \in Entry
    BY <1>1, <1>4, <2>2
  <2> QED BY <1>1, <2>1, <2>3, MapIsSeq
<1>6. OneEntryPerSocket'
  <2>1. \A i \in DOMAIN list : list'[i] = Removed(list[i]) \/ list'[i] = list[i]
    BY <1>4
  <2>2. \A e : /\ Removed(e).socket = NoSocket
               /\ Removed(e).state \in {"inactive", "has_left"}
    BY DEF Removed
  <2> QED BY <1>5, <2>1, <2>2 DEF ListInv, OneEntryPerSocket
<1>7. ASSUME NEW state \in {"connected", "playing"}
      PROVE  /\ In(state)' = In(state) \ ids
             /\ Cardinality(In(state)') = Cardinality(In(state)) - Cardinality(ids \cap In(state))
             /\ Cardinality(In(state)) \in Nat
             /\ Cardinality(In(state)') \in Nat
             /\ Cardinality(ids \cap In(state)) \in Nat
  <2>1. In(state)' = In(state) \ ids
    BY <1>2, <1>5, <1>7 DEF In, Removed
  <2>2. IsFiniteSet(In(state)) /\ Cardinality(In(state)) \in Nat
    BY <1>1, InIsFinite
  <2>3. /\ IsFiniteSet(In(state) \ ids)
        /\ Cardinality(In(state) \ ids)
             = Cardinality(In(state)) - Cardinality(In(state) \cap ids)
    BY <2>2, FS_Difference
  <2>4. IsFiniteSet(In(state) \cap ids)
    BY <2>2, FS_Intersection
  <2>5. In(state) \cap ids = ids \cap In(state)
    OBVIOUS
  <2> QED BY <2>1, <2>2, <2>3, <2>4, <2>5, FS_CardinalityType
<1>8. /\ connected' = connected - Cardinality(ids \cap In("connected"))
      /\ playing' = playing - Cardinality(ids \cap In("playing"))
  BY DEF RemoveEntries, ids
<1>9. CountInv'
  <2>1. connected' \in Nat /\ connected' >= Cardinality(In("connected")')
    BY <1>7, <1>8 DEF CountInv
  <2>2. playing' \in Nat /\ playing' >= Cardinality(In("playing")')
    BY <1>7, <1>8 DEF CountInv
  <2>3. Admins = {} => CountersAgree'
    BY <1>7, <1>8 DEF CountInv, CountersAgree
  <2> QED BY <2>1, <2>2, <2>3 DEF CountInv
<1> QED BY <1>4, <1>5, <1>6, <1>9 DEF ListInv

(* The sync: a connection becomes a player through change_state *)
LEMMA ChangeStateKeeps ==
  ASSUME ListInv, CountInv, NEW id \in DOMAIN list, list[id].socket # NoSocket,
         ChangeState(id, "playing")
  PROVE  ListInv' /\ CountInv'
<1>1. list \in Seq(Entry) /\ DOMAIN list = 1..Len(list) /\ Len(list) \in Nat
      /\ list[id] \in Entry
  BY LenProperties, ElementOfSeq DEF ListInv
<1> DEFINE new == [list[id] EXCEPT !.state = "playing"]
<1>2. new \in Entry /\ new.socket = list[id].socket /\ new.state = "playing"
  BY <1>1 DEF Entry, States
<1> HIDE DEF new
<1>3. list' = [list EXCEPT ![id] = new]
  BY DEF ChangeState, new
<1>4. list' \in Seq(Entry)
  BY <1>1, <1>2, <1>3, ExceptSeq
<1>5. /\ DOMAIN list' = DOMAIN list
      /\ list'[id] = new
      /\ \A i \in DOMAIN list \ {id} : list'[i] = list[i]
  BY <1>3
<1>6. OneEntryPerSocket'
  <2>1. \A i \in DOMAIN list : list'[i].socket = list[i].socket
    BY <1>2, <1>5
  <2>2. \A i \in DOMAIN list' :
          list'[i].socket = NoSocket <=> list'[i].state \in {"inactive", "has_left"}
    BY <1>2, <1>5 DEF ListInv, OneEntryPerSocket
  <2> QED BY <1>5, <2>1, <2>2 DEF ListInv, OneEntryPerSocket
<1>7. /\ In("connected")' = In("connected") \ {id}
      /\ In("playing")' = In("playing") \cup {id}
  BY <1>2, <1>5 DEF In
<1>8. /\ IsFiniteSet(In("connected")) /\ Cardinality(In("connected")) \in Nat
      /\ IsFiniteSet(In("playing")) /\ Cardinality(In("playing")) \in Nat
  BY <1>1, InIsFinite
<1>9. id \in In("connected") <=> list[id].state = "connected"
  BY DEF In
<1>10. id \in In("playing") <=> list[id].state = "playing"
  BY DEF In
<1>11. CASE list[id].state = "connected"
  <2>1. connected' = connected - 1 /\ playing' = playing + 1
    BY <1>11 DEF ChangeState, Book, CountInv
  <2>2. Cardinality(In("connected")') = Cardinality(In("connected")) - 1
    BY <1>7, <1>8, <1>9, <1>11, FS_RemoveElement
  <2>3. Cardinality(In("playing")') = Cardinality(In("playing")) + 1
    BY <1>7, <1>8, <1>10, <1>11, FS_AddElement
  <2>4. Cardinality(In("connected")') \in Nat
    BY <1>4, InIsFiniteNext
  <2> QED BY <1>4, <1>6, <1>8, <2>1, <2>2, <2>3, <2>4 DEF ListInv, CountInv, CountersAgree
<1>12. CASE list[id].state = "playing"
  <2>1. connected' = connected /\ playing' = playing
    BY <1>12 DEF ChangeState, Book, CountInv
  <2>2. In("connected")' = In("connected") /\ In("playing")' = In("playing")
    BY <1>7, <1>9, <1>10, <1>12
  <2> QED BY <1>4, <1>6, <2>1, <2>2 DEF ListInv, CountInv, CountersAgree
<1>13. CASE list[id].state \notin {"connected", "playing"}
  <2>1. connected' = connected /\ playing' = playing + 1
    BY <1>13 DEF ChangeState, Book, CountInv
  <2>2. In("connected")' = In("connected")
    BY <1>7, <1>9, <1>13
  <2>3. Cardinality(In("playing")') = Cardinality(In("playing")) + 1
    BY <1>7, <1>8, <1>10, <1>13, FS_AddElement
  <2> QED BY <1>4, <1>6, <1>8, <2>1, <2>2, <2>3 DEF ListInv, CountInv, CountersAgree
<1> QED BY <1>11, <1>12, <1>13

(* The login of a tool: the state is assigned, and the counters stay.  There *)
(* is none where Admins is empty.                                            *)
LEMMA LoginKeeps ==
  ASSUME ListInv, CountInv, NEW s \in Admins, UNCHANGED <<connected, playing>>,
         list' = [i \in DOMAIN list |->
                    IF i \in ClientIds(s) THEN [list[i] EXCEPT !.state = "admin"] ELSE list[i]]
  PROVE  /\ ListInv' /\ CountInv' /\ DOMAIN list' = DOMAIN list
         /\ \A i \in DOMAIN list :
              list'[i].socket = list[i].socket
              /\ (list[i].state # "inactive" => list'[i].state # "inactive")
<1>1. list \in Seq(Entry) /\ DOMAIN list = 1..Len(list) /\ Len(list) \in Nat
      /\ \A i \in DOMAIN list : list[i] \in Entry
  BY LenProperties, ElementOfSeq DEF ListInv
<1>2. \A i \in DOMAIN list :
        /\ list'[i] \in Entry
        /\ list'[i].socket = list[i].socket
        /\ list'[i].state = IF i \in ClientIds(s) THEN "admin" ELSE list[i].state
  BY <1>1 DEF Entry, States
<1>3. list' \in Seq(Entry) /\ DOMAIN list' = DOMAIN list
  <2>1. list' = [i \in DOMAIN list |-> list'[i]]
    OBVIOUS
  <2> QED BY <1>1, <1>2, <2>1, MapIsSeq
<1>4. \A i \in ClientIds(s) : list[i].socket # NoSocket
  BY SocketsAssumption DEF ClientIds
<1>5. OneEntryPerSocket'
  <2>1. \A i \in DOMAIN list' :
          list'[i].socket = NoSocket <=> list'[i].state \in {"inactive", "has_left"}
    BY <1>2, <1>3, <1>4 DEF ListInv, OneEntryPerSocket
  <2> QED BY <1>2, <1>3, <2>1 DEF ListInv, OneEntryPerSocket
<1>6. ASSUME NEW state \in {"connected", "playing"}
      PROVE  /\ Cardinality(In(state)') \in Nat /\ Cardinality(In(state)) \in Nat
             /\ Cardinality(In(state)') <= Cardinality(In(state))
  <2>1. In(state)' \subseteq In(state)
    BY <1>2, <1>3, <1>6 DEF In
  <2>2. IsFiniteSet(In(state)) /\ Cardinality(In(state)) \in Nat
    BY <1>1, InIsFinite
  <2> QED BY <2>1, <2>2, FS_Subset, FS_CardinalityType
<1>7. CountInv'
  BY <1>6 DEF CountInv
<1> QED BY <1>2, <1>3, <1>5, <1>7 DEF ListInv

(* Entries without a socket change to another state without one: the step    *)
LEMMA RecycleKeeps ==
  ASSUME ListInv, CountInv, UNCHANGED <<connected, playing>>,
         list' = [i \in DOMAIN list |->
                    IF list[i].state = "has_left"
                    THEN [list[i] EXCEPT !.state = "inactive"] ELSE list[i]]
  PROVE  /\ ListInv' /\ CountInv' /\ DOMAIN list' = DOMAIN list
         /\ \A i \in DOMAIN list : \/ list'[i] = list[i]
                                   \/ list[i].socket = NoSocket /\ list'[i].socket = NoSocket
<1>1. list \in Seq(Entry) /\ DOMAIN list = 1..Len(list) /\ Len(list) \in Nat
      /\ \A i \in DOMAIN list : list[i] \in Entry
  BY LenProperties, ElementOfSeq DEF ListInv
<1>2. \A i \in DOMAIN list :
        /\ list'[i] \in Entry
        /\ list'[i].socket = list[i].socket
        /\ list'[i].state = IF list[i].state = "has_left" THEN "inactive" ELSE list[i].state
        /\ list'[i] = list[i] \/ list[i].state = "has_left"
  BY <1>1 DEF Entry, States
<1>3. list' \in Seq(Entry) /\ DOMAIN list' = DOMAIN list
  <2>1. list' = [i \in DOMAIN list |-> list'[i]]
    OBVIOUS
  <2> QED BY <1>1, <1>2, <2>1, MapIsSeq
<1>4. OneEntryPerSocket'
  <2>1. \A i \in DOMAIN list' :
          list'[i].socket = NoSocket <=> list'[i].state \in {"inactive", "has_left"}
    BY <1>2, <1>3 DEF ListInv, OneEntryPerSocket
  <2> QED BY <1>2, <1>3, <2>1 DEF ListInv, OneEntryPerSocket
<1>5. In("connected")' = In("connected") /\ In("playing")' = In("playing")
  BY <1>2, <1>3 DEF In
<1>6. CountInv'
  BY <1>5 DEF CountInv, CountersAgree
<1>7. \A i \in DOMAIN list : list[i].state = "has_left" => list[i].socket = NoSocket
  BY DEF ListInv, OneEntryPerSocket
<1> QED BY <1>2, <1>3, <1>4, <1>6, <1>7 DEF ListInv

(* network_reset_server: every socket is closed, and nothing counts *)
LEMMA ResetKeeps ==
  ASSUME ListInv, connected' = 0, playing' = 0,
         list' = [i \in DOMAIN list |->
                    [socket |-> NoSocket,
                     state |-> IF list[i].state = "has_left" THEN "has_left" ELSE "inactive"]]
  PROVE  ListInv' /\ CountInv' /\ \A i \in DOMAIN list' : list'[i].socket = NoSocket
<1>1. list \in Seq(Entry) /\ DOMAIN list = 1..Len(list) /\ Len(list) \in Nat
  BY LenProperties DEF ListInv
<1>2. \A i \in DOMAIN list : /\ list'[i] \in Entry
                             /\ list'[i].socket = NoSocket
                             /\ list'[i].state \in {"inactive", "has_left"}
  BY DEF Entry, States
<1>3. list' \in Seq(Entry) /\ DOMAIN list' = DOMAIN list
  <2>1. list' = [i \in DOMAIN list |-> list'[i]]
    OBVIOUS
  <2> QED BY <1>1, <1>2, <2>1, MapIsSeq
<1>4. OneEntryPerSocket'
  BY <1>2, <1>3 DEF OneEntryPerSocket
<1>5. In("connected")' = {} /\ In("playing")' = {}
  BY <1>2, <1>3 DEF In
<1>6. Cardinality({}) = 0
  BY FS_EmptySet
<1>7. CountInv'
  BY <1>5, <1>6 DEF CountInv, CountersAgree
<1> QED BY <1>2, <1>3, <1>4, <1>7 DEF ListInv

-----------------------------------------------------------------------------
(* Actions.  What an action does to the list decides what becomes of the     *)
(* pending client and of the banned addresses.                               *)

(* Sockets stay where they are, are closed, or one that is not banned opens  *)
LEMMA BannedKeeps ==
  ASSUME BannedAreOut, blacklist' = blacklist, NEW s \in Sockets,
         \A i \in DOMAIN list' :
           \/ i \in DOMAIN list /\ list'[i].socket = list[i].socket
           \/ list'[i].socket = NoSocket
           \/ list'[i].socket = s /\ Host[s] \notin blacklist
  PROVE  BannedAreOut'
BY DEF BannedAreOut

(* The entry of the pending client stays, and its sync *)
LEMMA PendingKeeps ==
  ASSUME ListInv, PendingWillBeServed, syncs' = syncs,
         pending \in Sockets \cup {NoSocket},
         pending' # NoSocket => pending' = pending,
         DOMAIN list \subseteq DOMAIN list',
         \A i \in DOMAIN list :
           pending' # NoSocket /\ list[i].socket = pending /\ list[i].state # "inactive" =>
             list'[i].socket = list[i].socket /\ list'[i].state # "inactive"
  PROVE  PendingWillBeServed'
<1> SUFFICES ASSUME pending' # NoSocket
             PROVE  \E id \in ClientIds(pending)' : \E k \in DOMAIN syncs' : syncs'[k] = id
  BY DEF PendingWillBeServed
<1>1. PICK id \in ClientIds(pending) : \E k \in DOMAIN syncs : syncs[k] = id
  BY DEF PendingWillBeServed
<1>2. id \in ClientIds(pending)'
  BY <1>1 DEF ClientIds
<1> QED BY <1>1, <1>2

LEMMA AcceptInv ==
  ASSUME IInv, NEW s \in Sockets, Accept(s)
  PROVE  IInv'
<1>1. PICK f \in 1..MaxEntries : IsFree(f) /\ Enter(s, f)
  BY DEF Accept
<1>2. f \in Nat
  BY SocketsAssumption
<1>3. ListInv' /\ CountInv'
  BY <1>1, <1>2, AcceptKeeps DEF Accept, IInv
<1>4. /\ DOMAIN list' = DOMAIN list \cup {f}
      /\ list'[f] = [socket |-> s, state |-> "connected"]
      /\ \A i \in DOMAIN list \ {f} : list'[i] = list[i]
      /\ f \in DOMAIN list => list[f].state = "inactive"
  BY <1>1, <1>2, EnteredList DEF IInv
<1>5. RestInv' /\ OrdersInv'
  BY DEF Accept, IInv, RestInv, OrdersInv
<1>6. PendingWillBeServed'
  BY <1>4, PendingKeeps DEF Accept, IInv, RestInv
<1>7. BannedAreOut'
  BY <1>4, BannedKeeps DEF Accept, IInv
<1> QED BY <1>3, <1>5, <1>6, <1>7 DEF IInv

(* remove_client of some sockets, with nothing banned *)
LEMMA RemoveInv ==
  ASSUME IInv, NEW gone \in SUBSET Sockets, RemoveClients(gone), UNCHANGED <<syncs, blacklist>>
  PROVE  /\ ListInv' /\ CountInv' /\ PendingWillBeServed' /\ BannedAreOut'
         /\ pending' \in Sockets \cup {NoSocket}
<1>1. RemoveEntries(gone) /\ pending' = IF pending \in gone THEN NoSocket ELSE pending
  BY DEF RemoveClients
<1>2. /\ ListInv' /\ CountInv'
      /\ DOMAIN list' = DOMAIN list
      /\ \A i \in DOMAIN list :
           list'[i] = IF list[i].socket \in gone THEN Removed(list[i]) ELSE list[i]
  BY <1>1, RemoveKeeps DEF IInv
<1>3. \A e : Removed(e).socket = NoSocket
  BY DEF Removed
<1>4. pending' \in Sockets \cup {NoSocket}
  BY <1>1 DEF IInv, RestInv
<1>5. PendingWillBeServed'
  BY <1>1, <1>2, PendingKeeps DEF IInv, RestInv
<1>6. BannedAreOut'
  BY <1>2, <1>3 DEF BannedAreOut, IInv
<1> QED BY <1>2, <1>4, <1>5, <1>6

(* What an executed command leaves of the queue *)
LEMMA HandleKeeps ==
  ASSUME IInv, NEW cmd, Handle(cmd)
  PROVE  /\ received' \in Seq(Command) /\ OrdersInv'
         /\ Sender \in Sockets
         /\ cmd \in {"login", "kick", "ban"} => Sender \in Admins
         /\ UNCHANGED <<last, stage, asked>>
<1>1. received \in Seq(Command) /\ received # <<>> /\ received' = Tail(received)
      /\ Head(received).cmd = cmd
  BY DEF Handle, IInv, RestInv
<1>2. /\ received' \in Seq(Command) /\ Head(received) \in Command
      /\ Len(received') = Len(received) - 1
      /\ \A k \in 1..Len(received') : received'[k] = received[k + 1]
      /\ Head(received) = received[1]
      /\ Len(received) \in Nat \ {0}
  BY <1>1, HeadTailProperties
<1>3. DOMAIN received = 1..Len(received) /\ DOMAIN received' = 1..Len(received')
  BY <1>1, <1>2, LenProperties
<1>4. Sender \in Sockets
  BY <1>2 DEF Sender, Command
<1>5. OrdersInv'
  <2>1. \A k \in DOMAIN received' : k + 1 \in DOMAIN received /\ received'[k] = received[k + 1]
    BY <1>2, <1>3
  <2> QED BY <2>1 DEF OrdersInv, IInv
<1>6. cmd \in {"login", "kick", "ban"} => Sender \in Admins
  BY <1>1, <1>2, <1>3 DEF OrdersInv, IInv, Sender
<1> QED BY <1>2, <1>4, <1>5, <1>6 DEF Handle

LEMMA ReceiveInv ==
  ASSUME IInv, NEW s \in Sockets, Receive(s)
  PROVE  IInv'
<1>1. PICK cmd \in MaySay(s) : received' = Append(received, [from |-> s, cmd |-> cmd])
  BY DEF Receive
<1> DEFINE new == [from |-> s, cmd |-> cmd]
<1>2. new \in Command /\ (cmd \in {"login", "kick", "ban"} => s \in Admins)
  BY <1>1 DEF MaySay, Command
<1>3. received \in Seq(Command)
  BY DEF IInv, RestInv
<1>4. /\ received' \in Seq(Command) /\ Len(received') = Len(received) + 1
      /\ \A k \in 1..Len(received) : received'[k] = received[k]
      /\ received'[Len(received) + 1] = new
  BY <1>1, <1>2, <1>3, AppendProperties
<1>5. DOMAIN received' = 1..(Len(received) + 1) /\ DOMAIN received = 1..Len(received)
      /\ Len(received) \in Nat
  BY <1>3, <1>4, LenProperties
<1>6. OrdersInv'
  <2>1. ASSUME NEW k \in DOMAIN received', received'[k].cmd \in {"login", "kick", "ban"}
        PROVE  received'[k].from \in Admins
    <3>1. CASE k \in DOMAIN received
      BY <1>4, <1>5, <2>1, <3>1 DEF IInv, OrdersInv
    <3>2. CASE k = Len(received) + 1
      BY <1>2, <1>4, <2>1, <3>2
    <3> QED BY <1>5, <3>1, <3>2
  <2> QED BY <2>1 DEF OrdersInv
<1>7. UNCHANGED <<list, connected, playing, last, pending, syncs, blacklist, stage>>
      /\ asked' = asked \cup {s}
  BY DEF Receive
<1>8. RestInv'
  BY <1>4, <1>7 DEF IInv, RestInv
<1>9. ListInv' /\ CountInv' /\ PendingWillBeServed' /\ BannedAreOut'
  BY <1>7 DEF IInv, ListInv, OneEntryPerSocket, CountInv, CountersAgree, In,
              PendingWillBeServed, ClientIds, BannedAreOut
<1> QED BY <1>6, <1>8, <1>9 DEF IInv

LEMMA LoseInv ==
  ASSUME IInv, NEW s \in Sockets, Lose(s)
  PROVE  IInv'
<1>1. RemoveClients({s}) /\ {s} \in SUBSET Sockets
      /\ UNCHANGED <<last, syncs, received, blacklist, stage, asked>>
  BY DEF Lose
<1>2. /\ ListInv' /\ CountInv' /\ PendingWillBeServed' /\ BannedAreOut'
      /\ pending' \in Sockets \cup {NoSocket}
  BY <1>1, RemoveInv
<1> QED BY <1>1, <1>2 DEF IInv, RestInv, OrdersInv

(* The stage of the loop, and nothing else *)
LEMMA StageInv ==
  ASSUME IInv, stage' \in {"activity", "execute", "run"},
         UNCHANGED <<list, connected, playing, last, pending, syncs, received, blacklist, asked>>
  PROVE  IInv'
BY DEF IInv, ListInv, OneEntryPerSocket, CountInv, CountersAgree, In, RestInv, OrdersInv,
       PendingWillBeServed, ClientIds, BannedAreOut

-----------------------------------------------------------------------------
(* Commands *)

(* A command that closes some connections and changes nothing else *)
LEMMA RemoveCommandInv ==
  ASSUME IInv, NEW cmd, Handle(cmd), UNCHANGED <<syncs, blacklist>>,
         NEW gone \in SUBSET Sockets, RemoveClients(gone)
  PROVE  IInv'
<1>1. /\ received' \in Seq(Command) /\ OrdersInv'
      /\ UNCHANGED <<last, stage, asked>>
  BY HandleKeeps
<1>2. /\ ListInv' /\ CountInv' /\ PendingWillBeServed' /\ BannedAreOut'
      /\ pending' \in Sockets \cup {NoSocket}
  BY RemoveInv
<1> QED BY <1>1, <1>2 DEF IInv, RestInv

(* A command that leaves everything but the queue alone *)
LEMMA IdleCommandInv ==
  ASSUME IInv, NEW cmd, Handle(cmd),
         UNCHANGED <<list, connected, playing, pending, syncs, blacklist>>
  PROVE  IInv'
<1>1. /\ received' \in Seq(Command) /\ OrdersInv'
      /\ UNCHANGED <<last, stage, asked>>
  BY HandleKeeps
<1>2. ListInv' /\ CountInv' /\ PendingWillBeServed' /\ BannedAreOut' /\ RestInv'
  BY <1>1 DEF IInv, ListInv, OneEntryPerSocket, CountInv, CountersAgree, In, RestInv,
              PendingWillBeServed, ClientIds, BannedAreOut
<1> QED BY <1>1, <1>2 DEF IInv

LEMMA ExecuteJoinInv ==
  ASSUME IInv, ExecuteJoin
  PROVE  IInv'
<1>1. Handle("join") /\ UNCHANGED <<list, connected, playing, blacklist>>
  BY DEF ExecuteJoin
<1>2. CASE UNCHANGED <<pending, syncs>>
  BY <1>1, <1>2, IdleCommandInv
<1>3. CASE /\ pending' = Sender
           /\ \E id \in ClientIds(Sender) : syncs' = Append(syncs, id)
  <2>1. PICK id \in ClientIds(Sender) : syncs' = Append(syncs, id)
    BY <1>3
  <2>2. /\ received' \in Seq(Command) /\ OrdersInv' /\ Sender \in Sockets
        /\ UNCHANGED <<last, stage, asked>>
    BY <1>1, HandleKeeps
  <2>3. id \in Nat \ {0}
    BY <2>2, ClientIdsUnique DEF IInv
  <2>4. syncs \in Seq(Nat \ {0})
    BY DEF IInv, RestInv
  <2>5. /\ syncs' \in Seq(Nat \ {0}) /\ Len(syncs') = Len(syncs) + 1
        /\ syncs'[Len(syncs) + 1] = id
    BY <2>1, <2>3, <2>4, AppendProperties
  <2>6. Len(syncs) + 1 \in DOMAIN syncs'
    <3>1. DOMAIN syncs' = 1..(Len(syncs) + 1) /\ Len(syncs) \in Nat
      BY <2>4, <2>5, LenProperties
    <3> QED BY <3>1
  <2>7. PendingWillBeServed'
    <3>1. id \in ClientIds(pending)'
      BY <1>1, <1>3 DEF ClientIds
    <3> QED BY <2>5, <2>6, <3>1 DEF PendingWillBeServed
  <2>8. ListInv' /\ CountInv' /\ BannedAreOut'
    BY <1>1 DEF IInv, ListInv, OneEntryPerSocket, CountInv, CountersAgree, In, BannedAreOut
  <2>9. RestInv'
    BY <1>1, <1>3, <2>2, <2>5 DEF IInv, RestInv
  <2> QED BY <2>2, <2>7, <2>8, <2>9 DEF IInv
<1> QED BY <1>2, <1>3 DEF ExecuteJoin

LEMMA ExecuteLoginInv ==
  ASSUME IInv, ExecuteLogin
  PROVE  IInv'
<1>1. Handle("login") /\ UNCHANGED <<connected, playing, pending, syncs, blacklist>>
  BY DEF ExecuteLogin
<1>2. /\ received' \in Seq(Command) /\ OrdersInv' /\ Sender \in Admins
      /\ UNCHANGED <<last, stage, asked>>
  BY <1>1, HandleKeeps
<1>3. list' = [i \in DOMAIN list |->
                 IF i \in ClientIds(Sender) THEN [list[i] EXCEPT !.state = "admin"] ELSE list[i]]
  BY DEF ExecuteLogin
<1>4. ListInv /\ CountInv /\ UNCHANGED <<connected, playing>>
  BY <1>1 DEF IInv
<1> HIDE DEF Sender
<1>5. /\ ListInv' /\ CountInv' /\ DOMAIN list' = DOMAIN list
      /\ \A i \in DOMAIN list :
           list'[i].socket = list[i].socket
           /\ (list[i].state # "inactive" => list'[i].state # "inactive")
  BY <1>2, <1>3, <1>4, LoginKeeps
<1>6. PendingWillBeServed'
  BY <1>1, <1>5, PendingKeeps DEF IInv, RestInv
<1>7. BannedAreOut'
  BY <1>1, <1>5 DEF IInv, BannedAreOut
<1>8. RestInv'
  BY <1>1, <1>2 DEF IInv, RestInv
<1> QED BY <1>2, <1>5, <1>6, <1>7, <1>8 DEF IInv

LEMMA ExecuteKickInv ==
  ASSUME IInv, ExecuteKick
  PROVE  IInv'
<1>1. Handle("kick") /\ UNCHANGED <<syncs, blacklist>>
  BY DEF ExecuteKick
<1>2. CASE UNCHANGED <<list, connected, playing, pending>>
  BY <1>1, <1>2, IdleCommandInv
<1>3. ASSUME NEW id \in In("playing"), RemoveClients({list[id].socket})
      PROVE  IInv'
  <2>1. list[id] \in Entry /\ id \in DOMAIN list /\ list[id].state = "playing"
    BY <1>3, ElementOfSeq DEF IInv, ListInv, In
  <2>2. list[id].socket \in Sockets
    BY <2>1 DEF IInv, ListInv, OneEntryPerSocket, Entry
  <2> QED BY <1>1, <1>3, <2>2, RemoveCommandInv
<1> QED BY <1>2, <1>3 DEF ExecuteKick

LEMMA ExecuteBanInv ==
  ASSUME IInv, ExecuteBan
  PROVE  IInv'
<1>1. Handle("ban") /\ UNCHANGED syncs
  BY DEF ExecuteBan
<1>2. CASE UNCHANGED <<list, connected, playing, pending, blacklist>>
  BY <1>1, <1>2, IdleCommandInv
<1>3. ASSUME NEW id \in DOMAIN list, GetSocket(id) # NoSocket,
             RemoveClients({s \in Sockets : Host[s] = Host[GetSocket(id)]}),
             blacklist' = blacklist \cup {Host[GetSocket(id)]}
      PROVE  IInv'
  <2> DEFINE host == Host[GetSocket(id)]
             gone == {s \in Sockets : Host[s] = host}
  <2>1. /\ received' \in Seq(Command) /\ OrdersInv'
        /\ UNCHANGED <<last, stage, asked>>
    BY <1>1, HandleKeeps
  <2>2. host \in Hosts
    <3>1. list[id] \in Entry
      BY <1>3, ElementOfSeq DEF IInv, ListInv
    <3>2. GetSocket(id) \in Sockets
      BY <1>3, <3>1 DEF GetSocket, Entry
    <3> QED BY <3>2, SocketsAssumption
  <2>3. RemoveEntries(gone) /\ pending' = IF pending \in gone THEN NoSocket ELSE pending
    BY <1>3 DEF RemoveClients
  <2>4. /\ ListInv' /\ CountInv'
        /\ DOMAIN list' = DOMAIN list
        /\ \A i \in DOMAIN list :
             list'[i] = IF list[i].socket \in gone THEN Removed(list[i]) ELSE list[i]
    BY <2>3, RemoveKeeps DEF IInv
  <2>5. PendingWillBeServed'
    BY <1>1, <2>3, <2>4, PendingKeeps DEF IInv, RestInv
  <2>6. BannedAreOut'
    <3>1. \A e : Removed(e).socket = NoSocket
      BY DEF Removed
    <3>2. \A i \in DOMAIN list : list[i].socket \in Sockets \cup {NoSocket}
      <4>1. \A i \in DOMAIN list : list[i] \in Entry
        BY ElementOfSeq DEF IInv, ListInv
      <4> QED BY <4>1 DEF Entry
    <3>3. ASSUME NEW i \in DOMAIN list, list'[i].socket # NoSocket
          PROVE  Host[list'[i].socket] \notin blacklist \cup {host}
      <4>1. list[i].socket \notin gone /\ list'[i] = list[i]
        BY <2>4, <3>1, <3>3
      <4>2. list[i].socket \in Sockets
        BY <3>2, <3>3, <4>1
      <4>3. Host[list[i].socket] # host
        BY <4>1, <4>2
      <4>4. Host[list[i].socket] \notin blacklist
        BY <3>3, <4>1 DEF IInv, BannedAreOut
      <4> QED BY <4>1, <4>3, <4>4
    <3> QED BY <1>3, <2>4, <3>3 DEF BannedAreOut
  <2>7. RestInv'
    BY <1>1, <1>3, <2>1, <2>2, <2>3 DEF IInv, RestInv
  <2> QED BY <2>1, <2>4, <2>5, <2>6, <2>7 DEF IInv
<1> QED BY <1>2, <1>3 DEF ExecuteBan

LEMMA ExecuteInv ==
  ASSUME IInv, Execute
  PROVE  IInv'
<1>1. CASE ExecuteInfo
  BY <1>1, HandleKeeps, RemoveCommandInv DEF ExecuteInfo
<1>2. CASE ExecuteOutOfSync
  BY <1>2, HandleKeeps, RemoveCommandInv DEF ExecuteOutOfSync
<1>3. CASE ExecuteOther
  BY <1>3, IdleCommandInv DEF ExecuteOther
<1> QED BY <1>1, <1>2, <1>3, ExecuteJoinInv, ExecuteLoginInv, ExecuteKickInv, ExecuteBanInv
        DEF Execute

-----------------------------------------------------------------------------
(* The world's command queue, and the step *)

LEMMA SyncInv ==
  ASSUME IInv, Sync
  PROVE  IInv'
<1> DEFINE id == Head(syncs)
           s  == GetSocket(id)
<1>1. /\ syncs' = <<>> /\ pending' = NoSocket
      /\ UNCHANGED <<last, received, blacklist, stage, asked>>
      /\ \/ s # NoSocket /\ ChangeState(id, "playing")
         \/ s # NoSocket /\ RemoveEntries({s})
         \/ UNCHANGED <<list, connected, playing>>
  BY DEF Sync
<1>2. PendingWillBeServed' /\ RestInv' /\ OrdersInv'
  <2>1. <<>> \in Seq(Nat \ {0})
    BY EmptySeq
  <2> QED BY <1>1, <2>1 DEF IInv, RestInv, OrdersInv, PendingWillBeServed
<1>3. s # NoSocket => id \in DOMAIN list /\ s = list[id].socket
  BY DEF GetSocket
<1>4. \A i \in DOMAIN list : list[i] \in Entry
  BY ElementOfSeq DEF IInv, ListInv
<1> HIDE DEF id, s
<1>5. CASE s # NoSocket /\ ChangeState(id, "playing")
  <2>1. ListInv' /\ CountInv'
    BY <1>3, <1>5, ChangeStateKeeps DEF IInv
  <2>2. BannedAreOut'
    BY <1>1, <1>3, <1>4, <1>5 DEF IInv, BannedAreOut, ChangeState, Entry
  <2> QED BY <1>2, <2>1, <2>2 DEF IInv
<1>6. CASE s # NoSocket /\ RemoveEntries({s})
  <2>1. s \in Sockets
    BY <1>3, <1>4, <1>6 DEF Entry
  <2>2. /\ ListInv' /\ CountInv'
        /\ DOMAIN list' = DOMAIN list
        /\ \A i \in DOMAIN list :
             list'[i] = IF list[i].socket \in {s} THEN Removed(list[i]) ELSE list[i]
    BY <1>6, <2>1, RemoveKeeps DEF IInv
  <2>3. \A e : Removed(e).socket = NoSocket
    BY DEF Removed
  <2>4. BannedAreOut'
    BY <1>1, <2>2, <2>3 DEF IInv, BannedAreOut
  <2> QED BY <1>2, <2>2, <2>4 DEF IInv
<1>7. CASE UNCHANGED <<list, connected, playing>>
  BY <1>1, <1>2, <1>7 DEF IInv, ListInv, OneEntryPerSocket, CountInv, CountersAgree, In,
                          BannedAreOut
<1> QED BY <1>1, <1>5, <1>6, <1>7

LEMMA StepInv ==
  ASSUME IInv, Step
  PROVE  IInv'
<1>1. /\ last' = playing /\ stage' = "activity"
      /\ UNCHANGED <<connected, playing, pending, syncs, received, blacklist, asked>>
  BY DEF Step
<1>2. RestInv' /\ OrdersInv'
  BY <1>1 DEF IInv, RestInv, OrdersInv, CountInv
<1>3. CASE list' = list
  BY <1>1, <1>2, <1>3 DEF IInv, ListInv, OneEntryPerSocket, CountInv, CountersAgree, In,
                          PendingWillBeServed, ClientIds, BannedAreOut
<1>4. CASE list' = [i \in DOMAIN list |->
                      IF list[i].state = "has_left"
                      THEN [list[i] EXCEPT !.state = "inactive"] ELSE list[i]]
  <2>1. UNCHANGED <<connected, playing>>
    BY <1>1
  <2>2. /\ ListInv' /\ CountInv' /\ DOMAIN list' = DOMAIN list
        /\ \A i \in DOMAIN list : \/ list'[i] = list[i]
                                  \/ list[i].socket = NoSocket /\ list'[i].socket = NoSocket
    BY <1>4, <2>1, RecycleKeeps DEF IInv
  <2>3. PendingWillBeServed'
    BY <1>1, <2>2, PendingKeeps DEF IInv, RestInv
  <2>4. BannedAreOut'
    BY <1>1, <2>2 DEF IInv, BannedAreOut
  <2> QED BY <1>2, <2>2, <2>3, <2>4 DEF IInv
<1> QED BY <1>3, <1>4 DEF Step

LEMMA ResetServerInv ==
  ASSUME IInv, ResetServer
  PROVE  IInv'
<1>1. /\ received' = <<>> /\ connected' = 0 /\ playing' = 0
      /\ pending' = IF HasClient(pending) THEN NoSocket ELSE pending
      /\ UNCHANGED <<last, syncs, blacklist, stage, asked>>
  BY DEF ResetServer
<1>2. pending' = NoSocket
  BY <1>1 DEF IInv, PendingWillBeServed, HasClient
<1>3. ListInv' /\ CountInv' /\ \A i \in DOMAIN list' : list'[i].socket = NoSocket
  BY <1>1, ResetKeeps DEF ResetServer, IInv
<1>4. OrdersInv' /\ RestInv'
  <2>1. <<>> \in Seq(Command) /\ DOMAIN <<>> = {}
    BY EmptySeq
  <2> QED BY <1>1, <1>2, <2>1 DEF OrdersInv, RestInv, IInv
<1>5. PendingWillBeServed' /\ BannedAreOut'
  BY <1>2, <1>3 DEF PendingWillBeServed, BannedAreOut
<1> QED BY <1>3, <1>4, <1>5 DEF IInv

LEMMA InitInv ==
  ASSUME Init
  PROVE  IInv
<1>1. <<>> \in Seq(Entry) /\ <<>> \in Seq(Nat \ {0}) /\ <<>> \in Seq(Command)
  BY EmptySeq
<1>2. In("connected") = {} /\ In("playing") = {} /\ Cardinality({}) = 0
  BY FS_EmptySet DEF Init, In
<1>3. ListInv
  BY <1>1 DEF Init, ListInv, OneEntryPerSocket
<1>4. CountInv
  <2>1. connected = 0 /\ playing = 0
    BY DEF Init
  <2>2. Cardinality(In("connected")) = 0 /\ Cardinality(In("playing")) = 0
    BY <1>2, Zenon
  <2> QED BY <2>1, <2>2 DEF CountInv, CountersAgree
<1>5. RestInv
  <2>1. last \in Int /\ pending \in Sockets \cup {NoSocket}
    <3>1. last = -1 /\ pending = NoSocket
      BY DEF Init
    <3>2. -1 \in Int
      OBVIOUS
    <3> QED BY <3>1, <3>2
  <2>2. syncs \in Seq(Nat \ {0}) /\ received \in Seq(Command)
    BY <1>1, Zenon DEF Init
  <2>4. blacklist \in SUBSET Hosts
    BY DEF Init
  <2>3. asked \in SUBSET Sockets /\ stage \in {"activity", "execute", "run"}
    BY DEF Init
  <2> QED BY <2>1, <2>2, <2>3, <2>4 DEF RestInv
<1>6. OrdersInv
  BY <1>1 DEF Init, OrdersInv
<1>7. PendingWillBeServed /\ BannedAreOut
  BY DEF Init, PendingWillBeServed, BannedAreOut
<1> QED BY <1>3, <1>4, <1>5, <1>6, <1>7 DEF IInv

LEMMA NextInv ==
  ASSUME IInv, [Next]_vars
  PROVE  IInv'
<1>1. CASE UNCHANGED vars
  BY <1>1 DEF vars, IInv, ListInv, OneEntryPerSocket, CountInv, CountersAgree, In, RestInv,
              OrdersInv, PendingWillBeServed, ClientIds, BannedAreOut
<1>2. CASE EndActivity \/ EndExecute \/ Loop
  BY <1>2, StageInv DEF EndActivity, EndExecute, Loop
<1> QED BY <1>1, <1>2, AcceptInv, ReceiveInv, LoseInv, ExecuteInv, SyncInv, StepInv,
           ResetServerInv DEF Next

(* Every reachable state of the server's list satisfies IInv *)
THEOREM Invariance == Spec => []IInv
BY InitInv, NextInv, PTL DEF Spec

(* The state keeps to its types; with it, the unsigned counters connected    *)
(* and playing of socket_list_t never wrap below zero                        *)
THEOREM TypeCorrect == Spec => []TypeOK
<1>1. IInv => TypeOK
  BY DEF IInv, ListInv, CountInv, RestInv, TypeOK
<1> QED BY <1>1, Invariance, PTL

(* get_client_id and remove_client find the only entry of a socket           *)
THEOREM OneEntry == Spec => []OneEntryPerSocket
<1>1. IInv => OneEntryPerSocket
  BY DEF IInv, ListInv
<1> QED BY <1>1, Invariance, PTL

(* The counters are never smaller than what they count, tools or not         *)
THEOREM Covered == Spec => []CountersCover
<1>1. IInv => CountersCover
  BY DEF IInv, CountInv, CountersCover
<1> QED BY <1>1, Invariance, PTL

(* Where no tool logs in the counters count the list                         *)
THEOREM Counted == ASSUME Admins = {} PROVE Spec => []CountersAgree
<1>1. IInv => CountersAgree
  BY DEF IInv, CountInv
<1> QED BY <1>1, Invariance, PTL

(* The sync that ends a join is queued as long as the join is pending        *)
THEOREM PendingServed == Spec => []PendingWillBeServed
<1>1. IInv => PendingWillBeServed
  BY DEF IInv
<1> QED BY <1>1, Invariance, PTL

(* SRVC_BAN_CLIENT leaves nobody connected from the address, nor lets one in *)
THEOREM Banned == Spec => []BannedAreOut
<1>1. IInv => BannedAreOut
  BY DEF IInv
<1> QED BY <1>1, Invariance, PTL

(* Closing sockets does not touch the entry of a player who has left: it has no socket *)
LEMMA LeaversStay ==
  ASSUME ListInv, NEW gone, NoSocket \notin gone, RemoveEntries(gone)
  PROVE  \A i \in In("has_left") : list'[i] = list[i]
<1> SUFFICES ASSUME NEW i \in In("has_left") PROVE list'[i] = list[i]
  OBVIOUS
<1>1. i \in DOMAIN list /\ list[i].socket = NoSocket
  BY DEF In, ListInv, OneEntryPerSocket
<1>2. \A s \in gone : i \notin ClientIds(s)
  BY <1>1 DEF ClientIds
<1> QED BY <1>1, <1>2 DEF RemoveEntries

LEMMA LeaverStep ==
  ASSUME IInv, [Next]_vars
  PROVE  \A i \in In("has_left") : list'[i] # list[i] => stage = "run" /\ stage' = "activity"
<1> DEFINE Kept == \A i \in In("has_left") : list'[i] = list[i]
<1>0. /\ ListInv /\ NoSocket \notin Sockets /\ Admins \subseteq Sockets
      /\ \A i \in In("has_left") : i \in DOMAIN list /\ list[i].socket = NoSocket /\ list[i].state = "has_left"
  BY SocketsAssumption DEF IInv, ListInv, OneEntryPerSocket, In
<1>1. CASE UNCHANGED list
  BY <1>1
<1>2. ASSUME NEW s \in Sockets, Accept(s) PROVE Kept
  <2>1. PICK f \in 1..MaxEntries : IsFree(f) /\ Enter(s, f)
    BY <1>2 DEF Accept
  <2>2. /\ \A i \in DOMAIN list \ {f} : list'[i] = list[i]
        /\ f \in DOMAIN list => list[f].state = "inactive"
    <3>1. f \in Nat
      OBVIOUS
    <3> QED BY <1>0, <2>1, <3>1, EnteredList
  <2> QED BY <1>0, <2>2
<1>3. ASSUME NEW gone, NoSocket \notin gone, RemoveEntries(gone) PROVE Kept
  BY <1>0, <1>3, LeaversStay
<1>4. ASSUME NEW s \in Sockets, Lose(s) PROVE Kept
  BY <1>0, <1>3, <1>4 DEF Lose, RemoveClients
<1>5. ASSUME received # <<>> PROVE Sender \in Sockets
  <2>1. received \in Seq(Command)
    BY DEF IInv, RestInv
  <2>2. Head(received) \in Command
    BY <1>5, <2>1, HeadTailProperties
  <2> QED BY <2>2 DEF Sender, Command
<1>6. CASE ExecuteInfo \/ ExecuteOutOfSync
  BY <1>0, <1>3, <1>5, <1>6 DEF ExecuteInfo, ExecuteOutOfSync, Handle, RemoveClients
<1>7. CASE ExecuteLogin
  <2>1. Sender \in Sockets /\ list' = [i \in DOMAIN list |->
           IF i \in ClientIds(Sender) THEN [list[i] EXCEPT !.state = "admin"] ELSE list[i]]
    BY <1>5, <1>7 DEF ExecuteLogin, Handle
  <2> QED BY <1>0, <2>1 DEF ClientIds
<1>8. CASE ExecuteKick
  <2>1. ASSUME NEW id \in In("playing") PROVE list[id].socket # NoSocket
    BY <1>0 DEF In, ListInv, OneEntryPerSocket
  <2> QED BY <1>3, <1>8, <2>1 DEF ExecuteKick, RemoveClients
<1>9. CASE ExecuteBan
  <2>1. ASSUME NEW id \in DOMAIN list, RemoveClients({s \in Sockets : Host[s] = Host[GetSocket(id)]}) PROVE Kept
    BY <1>0, <1>3, <2>1 DEF RemoveClients
  <2> QED BY <1>9, <2>1 DEF ExecuteBan
<1>10. CASE Sync
  <2> DEFINE id == Head(syncs)
             s == GetSocket(id)
  <2>1. \/ s # NoSocket /\ ChangeState(id, "playing")
        \/ s # NoSocket /\ RemoveEntries({s})
        \/ UNCHANGED list
    BY <1>10 DEF Sync
  <2>2. CASE s # NoSocket /\ ChangeState(id, "playing")
    <3>1. id \in DOMAIN list /\ list[id].socket # NoSocket
      BY <2>2 DEF GetSocket
    <3>2. list' = [list EXCEPT ![id].state = "playing"]
      BY <2>2 DEF ChangeState
    <3> HIDE DEF id
    <3> QED BY <1>0, <3>1, <3>2
  <2> QED BY <1>3, <2>1, <2>2
<1>11. CASE ResetServer
  <2>1. list' = [i \in DOMAIN list |->
                [socket |-> NoSocket,
                 state |-> IF list[i].state = "has_left" THEN "has_left" ELSE "inactive"]]
    BY <1>11 DEF ResetServer
  <2>2. \A i \in In("has_left") : list[i] \in Entry
    BY <1>0, ElementOfSeq DEF ListInv
  <2> QED BY <1>0, <2>1, <2>2 DEF Entry
<1>12. CASE Step \/ Loop
  BY <1>12 DEF Step, Loop
<1> QED BY <1>1, <1>2, <1>4, <1>6, <1>7, <1>8, <1>9, <1>10, <1>11, <1>12
        DEF Next, Execute, vars, Receive, EndActivity, EndExecute, ExecuteJoin, ExecuteOther

(* The entry of a player who left is kept until karte_t::step reports it *)
THEOREM LeaverKept == Spec => LeaverKeepsEntry
<1>1. IInv /\ [Next]_vars =>
        [\A i \in In("has_left") : list'[i] # list[i] => stage = "run" /\ stage' = "activity"]_vars
  BY LeaverStep
<1> QED BY <1>1, Invariance, PTL DEF Spec, LeaverKeepsEntry
=============================================================================
