--------------------------- MODULE LockstepSyncProofs ---------------------------
(***************************************************************************)
(* Nobody loses synchronisation with the server of Lockstep, when nothing   *)
(* goes wrong outside of the game: sockets take their data, nobody leaves   *)
(* and no sync is forced.  Why: clients know of a command before they may   *)
(* reach its step (TimeOk), so they execute it in time and have the world   *)
(* of the server (SameWorld); so the checklists that they and the server    *)
(* send are the same (CheckedOk).  A client reports ready only once for a   *)
(* sync that the server has executed before it hears of it (ReadyOk,        *)
(* LateOk), and then the map counter is still known (CountersOk).           *)
(***************************************************************************)
EXTENDS LockstepProofs

(* What the theorem is about: no congestion, nobody leaves, no forced sync, and a server that        *)
(* remembers a map counter for as many syncs as may come behind one that a client answers            *)
Orderly ==
  /\ Congested = {} /\ MayLeave = {} /\ ~AdminSync
  /\ Cardinality(Clients) <= MaxMapCounters + 1

-----------------------------------------------------------------------------
(* The invariant *)

Elements(s) == {s[i] : i \in DOMAIN s}
InGame(c) == phase[c] \in {"pause", "run"}
(* What c has said, what it has not read or executed, and what the server has not executed *)
Claims(c) == {rcvd[i].msg : i \in From(c)}
Sent(c) == Elements(up[c]) \cup Claims(c)
Waiting(c) == Elements(cmdQ[c]) \cup Elements(down[c]) \cup Elements(sendq[c])
ToDo == Elements(cmdQ[Server]) \cup {rcvd[i].msg : i \in DOMAIN rcvd}

(* The messages that let a client run on, and how far *)
IsNews(m) == m.type \in {"STEP", "CHECK", "READY"}
Told(m) == IF m.type = "CHECK" THEN m.step - 1 ELSE m.step

SlotsOk == \A c, d \in Clients : Open(c) /\ Open(d) /\ slot[c] = slot[d] => c = d

(* Where a client is, and what it and the server can have said to each other there *)
PlaceOk(c) ==
  /\ phase[c] # "desync" /\ sock[c] # "kicked"
  /\ sock[c] = "none" => phase[c] = "out"
  /\ sock[c] = "backlog" => phase[c] = "join" /\ Claims(c) = {} /\ Asking(c)
  /\ sock[c] = "playing" => phase[c] # "out"
  /\ InGame(c) => sock[c] = "playing"
  /\ sock[c] = "connected" /\ pending # c => phase[c] \in {"join", "out"}
  /\ pending = c => sock[c] = "connected" /\ phase[c] \in {"join", "sync", "game"}
  /\ Asking(c) => phase[c] = "join" /\ sock[c] # "playing" /\ pending # c
  /\ \A m \in Sent(c) : m.type \in {"READY", "REQUEST"} => sock[c] = "playing"
  /\ \A m \in Elements(up[c]) : m.type = "EOF" => phase[c] = "out"
  /\ \A m \in Elements(down[c]) :
       /\ m.type # "EOF"
       /\ m.type = "JOIN" => phase[c] = "join" /\ ~Asking(c)
       /\ m = JoinReply(FALSE) => sock[c] # "playing" /\ pending # c
       /\ m = JoinReply(TRUE) => sock[c] = "playing" \/ pending = c

(* The map counter with which c comes into the game, when it is under way to it *)
Joins(c, k) ==
  /\ pending = c => k = lastMc
  /\ \A i \in DOMAIN down[c] : down[c][i].type = "GAME" => down[c][i + 1].mc = k

(* A reply is followed by the sync and a game by the word that c may go on *)
JoinOk(c) ==
  /\ \A i \in DOMAIN down[c] : down[c][i] = JoinReply(TRUE) =>
       /\ \A j \in DOMAIN down[c] : down[c][j] = JoinReply(TRUE) => j = i
       /\ i + 1 \in DOMAIN down[c] /\ down[c][i + 1].type = "SYNC" /\ Joins(c, down[c][i + 1].new)
  /\ phase[c] = "sync" => down[c] # <<>> /\ down[c][1].type = "SYNC" /\ Joins(c, down[c][1].new)
  /\ phase[c] = "game" => Joins(c, mc[c])
  /\ pending = c /\ phase[c] = "join" => \E i \in DOMAIN down[c] : down[c][i] = JoinReply(TRUE)
  /\ \A i \in DOMAIN down[c] : down[c][i].type = "GAME" =>
       /\ i + 1 \in DOMAIN down[c] /\ down[c][i + 1].type = "READY"
       /\ phase[c] \in {"join", "sync", "game"} /\ sock[c] = "playing"
       /\ phase[c] = "join" => \E j \in 1..(i - 1) : down[c][j] = JoinReply(TRUE)

(* Word that c is ready, or may go on: there is one, and c waits for it *)
ReadyOk(c) ==
  /\ \A i \in DOMAIN down[c] : down[c][i].type = "READY" =>
       /\ \A j \in DOMAIN down[c] : down[c][j].type = "READY" => j = i
       /\ \A m \in Sent(c) : m.type # "READY"
       /\ sock[c] = "playing"
       /\ \/ phase[c] \in {"join", "sync", "game"} /\ i > 1 /\ down[c][i - 1].type = "GAME"
          \/ /\ phase[c] = "pause" /\ down[c][i].mc = mc[c]
             /\ down[c][i].step = sync[c] \/ (i = 1 /\ cmdQ[c] = <<>>)
  /\ \A m \in Sent(c) : m.type = "READY" => phase[c] = "pause" /\ m.mc = mc[c] /\ m.step = sync[c]
  /\ \A i \in DOMAIN up[c] : up[c][i].type = "READY" =>
       /\ \A j \in DOMAIN up[c] : up[c][j].type = "READY" => j = i
       /\ \A m \in Claims(c) : m.type # "READY"

(* A client hears of a command before it is told to go on to its step *)
TimeOk(c) ==
  /\ \A i, j \in DOMAIN down[c] :
       i < j /\ IsNews(down[c][i]) /\ Acts(down[c][j]) => Told(down[c][i]) < down[c][j].step
  /\ \A m \in Elements(sendq[c]) : Acts(m) => m.step = sync[Server] + 1
  /\ stage = "run" => sendq[c] = <<>>
  /\ InGame(c) =>
       /\ sync[c] <= barrier[c]
       /\ \A m \in Elements(down[c]) : Acts(m) => barrier[c] < m.step
       /\ \A m \in Elements(cmdQ[c]) : Acts(m) => sync[c] <= m.step
  /\ phase[c] = "pause" => \A m \in Waiting(c) : m.type = "SYNC" /\ m.mc = mc[c] => sync[c] < m.step

(* When the server receives although a command is due, clients have not heard of its step *)
LateOk == stage # "run" /\ Due(Server) => \A c \in Clients :
  /\ InGame(c) => barrier[c] < sync[Server]
  /\ \A m \in Elements(down[c]) : IsNews(m) => Told(m) < sync[Server]

(* The syncs that a client knows of *)
SyncsOk(c) ==
  \A m \in Waiting(c) : m.type = "SYNC" =>
    /\ m.mc < m.new /\ m.new <= lastMc
    /\ m.new <= mc[Server] => m.step <= sync[Server]
    /\ m.new > mc[Server] => \E z \in ToDo : z.type = "SYNC" /\ z.step = m.step
    /\ \A x \in Waiting(c) : x.type = "SYNC" /\ x.mc = m.new => m.step < x.step

(* There is one sync to do while a client waits for its game, else none *)
PendingOk ==
  /\ pending = NoClient => lastMc = mc[Server]
  /\ pending # NoClient => lastMc = mc[Server] + 1 /\ \E z \in ToDo : z.type = "SYNC"
  /\ \A z \in ToDo : z.type = "SYNC" =>
       /\ pending # NoClient /\ z.mc = mc[Server] /\ z.new = lastMc /\ z.id = slot[pending]
       /\ \A y \in ToDo : y.type = "SYNC" => y.step = z.step

(* The checklists that are under way are those of the world of the server *)
Checked(m) == m.type \in {"CHECK", "TOOL"} =>
  0 < m.step /\ m.step <= sync[Server] + 1 /\ m.chk = ChecklistAt(world[Server], m.step - 1)
CheckedOk(c) ==
  /\ sock[c] = "playing" => \A m \in Elements(cmdQ[c]) \cup Elements(sendq[c]) : Checked(m)
  /\ \A i \in DOMAIN down[c] :
       (InGame(c) \/ \E g \in 1..(i - 1) : down[c][g].type = "GAME") => Checked(down[c][i])
  /\ \A m \in Sent(c) : m.type \in {"READY", "REQUEST"} =>
       m.step <= sync[Server] /\ m.chk = ChecklistAt(world[Server], m.step)

(* Every client that plays came with a map counter of its own *)
CountersOk ==
  /\ mc[Server] = Cardinality({c \in Clients : sock[c] = "playing"})
  /\ Len(mapCounters) = (IF mc[Server] < MaxMapCounters THEN mc[Server] ELSE MaxMapCounters)
  /\ \A i \in DOMAIN mapCounters : mapCounters[i] = mc[Server] + 1 - i
(* The server is about to do the sync *)
SyncDue == stage = "run" /\ \E z \in Elements(cmdQ[Server]) : z.type = "SYNC" /\ z.step <= sync[Server]
KnownOk(c) ==
  /\ phase[c] \in {"game", "pause", "run"} => 1 <= mc[c]
  /\ \A m \in Sent(c) : m.type = "READY" => 2 <= m.mc /\ m.mc <= lastMc
  /\ \A m \in Claims(c) : m.type = "READY" => m.mc <= mc[Server]
  /\ \A m \in Elements(up[c]) : m.type = "READY" => m.mc <= mc[Server] \/ SyncDue

ClientFine(c) ==
  PlaceOk(c) /\ JoinOk(c) /\ ReadyOk(c) /\ TimeOk(c) /\ SyncsOk(c) /\ CheckedOk(c) /\ KnownOk(c)
InSync == SlotsOk /\ LateOk /\ PendingOk /\ CountersOk /\ \A c \in Clients : ClientFine(c)

-----------------------------------------------------------------------------
(* Elements of sequences *)

LEMMA ElementsOf ==
  ASSUME NEW S, NEW s \in Seq(S)
  PROVE  Elements(s) \subseteq S /\ Elements(<<>>) = {}
BY DEF Elements

LEMMA ElementsConcat ==
  ASSUME NEW S, NEW s \in Seq(S), NEW u \in Seq(S)
  PROVE  Elements(s \o u) = Elements(s) \cup Elements(u)
<1>1. ASSUME NEW i \in DOMAIN (s \o u) PROVE (s \o u)[i] \in Elements(s) \cup Elements(u)
  BY ConcatElements DEF Elements
<1>2. \A i \in DOMAIN s : i \in DOMAIN (s \o u) /\ (s \o u)[i] = s[i]
  OBVIOUS
<1>3. \A i \in DOMAIN u : Len(s) + i \in DOMAIN (s \o u) /\ (s \o u)[Len(s) + i] = u[i]
  OBVIOUS
<1> DEFINE t == s \o u
<1> HIDE DEF t
<1>4. Elements(t) \subseteq Elements(s) \cup Elements(u)
  BY <1>1 DEF Elements, t
<1>5. Elements(s) \subseteq Elements(t)
  BY <1>2 DEF Elements, t
<1>6. Elements(u) \subseteq Elements(t)
  BY <1>3 DEF Elements, t
<1> QED BY <1>4, <1>5, <1>6 DEF t

LEMMA ElementsAppend ==
  ASSUME NEW S, NEW s \in Seq(S), NEW x
  PROVE  Elements(Append(s, x)) = Elements(s) \cup {x}
<1>1. ASSUME NEW i \in DOMAIN Append(s, x) PROVE Append(s, x)[i] \in Elements(s) \cup {x}
  BY AppendElements DEF Elements
<1>2. \A i \in DOMAIN s : i \in DOMAIN Append(s, x) /\ Append(s, x)[i] = s[i]
  OBVIOUS
<1>3. Len(s) + 1 \in DOMAIN Append(s, x) /\ Append(s, x)[Len(s) + 1] = x
  OBVIOUS
<1> QED BY <1>1, <1>2, <1>3 DEF Elements

LEMMA ElementsFirst ==
  ASSUME NEW S, NEW s \in Seq(S), s # <<>>
  PROVE  /\ Head(s) = s[1] /\ 1 \in DOMAIN s /\ Tail(s) \in Seq(S)
         /\ \A i \in DOMAIN Tail(s) : i \in Nat /\ i + 1 \in DOMAIN s /\ Tail(s)[i] = s[i + 1]
         /\ \A i \in DOMAIN s : i \in Nat /\ (i # 1 => i - 1 \in DOMAIN Tail(s) /\ s[i] = Tail(s)[i - 1])
         /\ Head(s) \in Elements(s) /\ Elements(Tail(s)) \subseteq Elements(s)
         /\ Elements(s) = Elements(Tail(s)) \cup {Head(s)}
<1>1. Head(s) = s[1] /\ 1 \in DOMAIN s /\ Tail(s) \in Seq(S)
      /\ \A i \in DOMAIN Tail(s) : i \in Nat /\ i + 1 \in DOMAIN s /\ Tail(s)[i] = s[i + 1]
  OBVIOUS
<1>2. \A i \in DOMAIN s : i \in Nat /\ (i # 1 => i - 1 \in DOMAIN Tail(s) /\ s[i] = Tail(s)[i - 1])
  OBVIOUS
<1> DEFINE t == Tail(s)
           h == Head(s)
<1> HIDE DEF t, h
<1>3. h \in Elements(s) /\ Elements(t) \subseteq Elements(s)
  BY <1>1 DEF Elements, t, h
<1>4. Elements(s) \subseteq Elements(t) \cup {h}
  <2> SUFFICES ASSUME NEW i \in DOMAIN s PROVE s[i] \in Elements(t) \cup {h}
    BY DEF Elements
  <2>1. CASE i = 1
    BY <1>1, <2>1 DEF h
  <2>2. CASE i # 1
    BY <1>2, <2>2 DEF t, Elements
  <2> QED BY <2>1, <2>2
<1> QED BY <1>1, <1>2, <1>3, <1>4 DEF t, h

LEMMA ElementsInserted ==
  ASSUME NEW q \in Seq(WorldCommand), NEW m \in WorldCommand
  PROVE  Elements(Insert(q, m)) = Elements(q) \cup {m}
<1> DEFINE k == Cardinality({i \in DOMAIN q : \A j \in 1..i : q[j].step <= m.step})
<1>1. k \in 0..Len(q)
  <2>1. Len(q) \in Nat /\ DOMAIN q = 1..Len(q)
    OBVIOUS
  <2>2. IsFiniteSet(1..Len(q)) /\ Cardinality(1..Len(q)) = Len(q)
    BY <2>1, FS_Interval
  <2>3. {i \in DOMAIN q : \A j \in 1..i : q[j].step <= m.step} \subseteq 1..Len(q)
    BY <2>1
  <2> QED BY <2>1, <2>2, <2>3, FS_Subset, FS_CardinalityType
<1> DEFINE a == SubSeq(q, 1, k)
           b == SubSeq(q, k + 1, Len(q))
<1>2. Insert(q, m) = (a \o <<m>>) \o b
  BY DEF Insert
<1> HIDE DEF k
<1>3. a \in Seq(WorldCommand) /\ b \in Seq(WorldCommand) /\ <<m>> \in Seq(WorldCommand)
  BY <1>1
<1>4. Elements(q) = Elements(a) \cup Elements(b)
  <2>1. DOMAIN a = 1..k /\ \A i \in 1..k : a[i] = q[i]
    BY <1>1
  <2>2. DOMAIN b = 1..(Len(q) - k) /\ \A i \in 1..(Len(q) - k) : b[i] = q[k + i]
    BY <1>1
  <2>3. \A i \in DOMAIN q : i \in 1..k \/ (i - k \in 1..(Len(q) - k) /\ k + (i - k) = i)
    BY <1>1
  <2>4. \A i \in 1..(Len(q) - k) : k + i \in DOMAIN q
    BY <1>1
  <2>5. \A i \in 1..k : i \in DOMAIN q
    BY <1>1
  <2> HIDE DEF a, b
  <2> QED BY <2>1, <2>2, <2>3, <2>4, <2>5 DEF Elements
<1> HIDE DEF a, b
<1>5. Elements(<<m>>) = {m}
  BY DEF Elements
<1>6. Elements(Insert(q, m)) = Elements(a) \cup {m} \cup Elements(b)
  <2> DEFINE e == <<m>>
             h == a \o e
  <2>1. e \in Seq(WorldCommand) /\ h \in Seq(WorldCommand)
    BY <1>3
  <2>2. Elements(h) = Elements(a) \cup Elements(e)
    BY <1>3, <2>1, ElementsConcat
  <2> HIDE DEF e, h
  <2>3. Elements(h \o b) = Elements(h) \cup Elements(b)
    BY <1>3, <2>1, ElementsConcat
  <2> QED BY <1>2, <1>5, <2>2, <2>3 DEF e, h
<1> QED BY <1>4, <1>6

(* The types of what waits somewhere *)
LEMMA WaitingTypes ==
  ASSUME IInv, NEW c \in Clients
  PROVE  /\ Elements(down[c]) \subseteq DownMsgTo(sync[Server])
         /\ Elements(sendq[c]) \subseteq BroadcastTo(sync[Server])
         /\ Elements(cmdQ[c]) \subseteq WorldCommand /\ Elements(cmdQ[Server]) \subseteq WorldCommand
         /\ Elements(up[c]) \subseteq UpMsgTo(sync[Server])
         /\ \A m \in Claims(c) : m \in Ready \cup Request \cup {JoinMsg} /\ Reached(m, sync[Server])
         /\ Claims(c) \subseteq UpMsgTo(sync[Server]) /\ Sent(c) \subseteq UpMsgTo(sync[Server])
<1>1. /\ down[c] \in Seq(DownMsgTo(sync[Server])) /\ sendq[c] \in Seq(BroadcastTo(sync[Server]))
      /\ cmdQ[c] \in Seq(WorldCommand) /\ cmdQ[Server] \in Seq(WorldCommand)
      /\ up[c] \in Seq(UpMsgTo(sync[Server])) /\ rcvd \in Seq(ReceivedTo(sync[Server]))
  BY NodesFacts DEF IInv, NodeInv, SockInv, ServerInv
<1>2. ASSUME NEW m \in Claims(c) PROVE m \in Ready \cup Request \cup {JoinMsg} /\ Reached(m, sync[Server])
  <2>1. PICK i \in DOMAIN rcvd : rcvd[i].from = c /\ m = rcvd[i].msg
    BY DEF Claims, From
  <2>2. rcvd[i] \in ReceivedTo(sync[Server])
    BY <1>1
  <2> QED BY <2>1, <2>2, NodesFacts DEF ReceivedTo, Received
<1>3. Claims(c) \subseteq UpMsgTo(sync[Server])
  BY <1>2 DEF UpMsgTo, UpMsg
<1> QED BY <1>1, <1>2, <1>3, ElementsOf DEF Sent

-----------------------------------------------------------------------------
(* A client in the game has the world of the server up to its sync step *)

(* Commands for step t and later leave what was before it *)
LEMMA EarlierKept ==
  ASSUME NEW s \in Seq(Message), NEW a \in Game, NEW t \in Nat,
         \A m \in Elements(s) : m.type = "TOOL" => t <= m.step /\ m.step \in Nat
  PROVE  ChecklistAt(Outcome(s, a).world, t) = ChecklistAt(a.world, t)
<1> DEFINE w == Outcome(s, a).world
           v == a.world
<1>1. /\ Len(v) <= Len(w) /\ SubSeq(w, 1, Len(v)) = v
      /\ \A i \in DOMAIN w : i > Len(v) =>
           \E j \in DOMAIN s : s[j].type = "TOOL" /\ w[i].step = s[j].step
  BY OutcomeGrows
<1>2. v \in Seq(Entry) /\ w \in Seq(Entry)
  BY PlaysOnce DEF Game, World
<1> HIDE DEF w, v
<1>3. \A i \in DOMAIN v : i \in DOMAIN w /\ w[i] = v[i]
  BY <1>1, <1>2
<1>4. \A i \in DOMAIN w : w[i].step < t => i \in DOMAIN v
  <2> SUFFICES ASSUME NEW i \in DOMAIN w, w[i].step < t, i \notin DOMAIN v PROVE FALSE
    OBVIOUS
  <2>1. i > Len(v)
    BY <1>2
  <2>2. PICK j \in DOMAIN s : s[j].type = "TOOL" /\ w[i].step = s[j].step
    BY <1>1, <2>1
  <2> QED BY <2>2 DEF Elements
<1>5. ChecklistAt(w, t) = ChecklistAt(v, t)
  BY <1>3, <1>4 DEF ChecklistAt
<1> QED BY <1>5 DEF w, v

(* TimeOk and Agreement: the world of a client in the game is that of the server, up to the step of  *)
(* the client                                                                                        *)
LEMMA SameWorld ==
  ASSUME IInv, Agreement, NEW c \in Clients, InGame(c), PlaceOk(c), ReadyOk(c), TimeOk(c),
         NEW t \in Nat, t <= sync[c]
  PROVE  ChecklistAt(world[c], t) = ChecklistAt(world[Server], t)
<1>1. sock[c] = "playing" /\ ViewOk(c) /\ ServerOk
  BY DEF PlaceOk, Agreement
<1>2. ~Doomed(c)
  <2> SUFFICES ASSUME Doomed(c) PROVE FALSE
    OBVIOUS
  <2>1. down[c] # <<>> /\ Head(down[c]).type = "READY" /\ Head(down[c]).mc # mc[c] /\ down[c] \in Seq(DownMsg)
    BY DownTypes DEF Doomed
  <2>2. 1 \in DOMAIN down[c] /\ Head(down[c]) = down[c][1]
    BY <2>1
  <2> QED BY <2>1, <2>2 DEF ReadyOk, InGame
<1>3. Outcome(Stream(c), St(c)) = ServerEnd
  BY <1>1, <1>2, RunFollows DEF InGame, Follows
<1>4. sync[c] <= sync[Server] /\ sync[c] \in Nat /\ sync[Server] \in Nat /\ barrier[c] \in Nat
      /\ barrier[c] <= sync[Server]
  BY NodesFacts DEF IInv, NodeInv
<1>5. /\ cmdQ[c] \in Seq(Message) /\ down[c] \in Seq(Message) /\ sendq[c] \in Seq(Message)
      /\ cmdQ[c] \o down[c] \in Seq(Message) /\ Stream(c) \in Seq(Message) /\ St(c) \in Game /\ St(Server) \in Game
      /\ ServerStream \in Seq(Message)
  BY StreamTypes, NodesFacts DEF Stream
<1>6. \A m \in Elements(Stream(c)) : m.type = "TOOL" => t <= m.step /\ m.step \in Nat
  <2> SUFFICES ASSUME NEW m \in Elements(Stream(c)), m.type = "TOOL" PROVE t <= m.step /\ m.step \in Nat
    OBVIOUS
  <2>1. Elements(Stream(c)) = Elements(cmdQ[c]) \cup Elements(down[c]) \cup Elements(sendq[c])
    <3>1. Elements(cmdQ[c] \o down[c]) = Elements(cmdQ[c]) \cup Elements(down[c])
      BY <1>5, ElementsConcat
    <3> DEFINE h == cmdQ[c] \o down[c]
    <3>3. h \in Seq(Message)
      BY <1>5
    <3> HIDE DEF h
    <3>2. Elements(h \o sendq[c]) = Elements(h) \cup Elements(sendq[c])
      BY <1>5, <3>3, ElementsConcat
    <3> QED BY <3>1, <3>2 DEF Stream, h
  <2>2. m \in Message /\ IsWorldCommand(m) /\ Acts(m)
    BY <1>5, ElementsOf DEF IsWorldCommand, Acts
  <2>3. m.step \in Nat
    BY <2>2, MessageStep
  <2> QED BY <1>4, <2>1, <2>2, <2>3 DEF TimeOk
<1>7. \A m \in Elements(ServerStream) : m.type = "TOOL" => t <= m.step /\ m.step \in Nat
  <2> SUFFICES ASSUME NEW m \in Elements(ServerStream), m.type = "TOOL" PROVE t <= m.step /\ m.step \in Nat
    OBVIOUS
  <2>1. Acts(m)
    BY DEF Acts
  <2>2. Elements(ServerStream) = Elements(cmdQ[Server]) \cup Elements(Msgs(rcvd))
    BY StreamTypes, NodesFacts, ElementsConcat DEF ServerStream
  <2>3. CASE m \in Elements(cmdQ[Server])
    <3>1. PICK i \in DOMAIN cmdQ[Server] : m = cmdQ[Server][i]
      BY <2>3 DEF Elements
    <3>2. m \in WorldCommand /\ Queued(m, sync[Server], mc[Server], world[Server], lastMc)
      BY <1>1, <3>1, OfQueue
    <3>3. m.step \in Nat
      BY <3>2 DEF WorldCommand
    <3> QED BY <1>4, <3>2, <3>3 DEF Queued
  <2>4. CASE m \in Elements(Msgs(rcvd))
    <3>1. PICK i \in DOMAIN rcvd : m = rcvd[i].msg
      BY <2>4 DEF Elements, Msgs
    <3>2. Expected(m, sync[Server], mc[Server], world[Server], lastMc)
      BY <1>1, <3>1, OfReceived
    <3> QED BY <1>4, <2>1, <3>2 DEF Expected
  <2> QED BY <2>2, <2>3, <2>4
<1>8. ChecklistAt(ServerEnd.world, t) = ChecklistAt(world[c], t)
  BY <1>3, <1>5, <1>6, EarlierKept DEF St
<1>9. ChecklistAt(ServerEnd.world, t) = ChecklistAt(world[Server], t)
  BY <1>5, <1>7, EarlierKept DEF St, ServerEnd
<1> QED BY <1>8, <1>9

-----------------------------------------------------------------------------
(* What keeps the parts of the invariant for a client d *)

LEMMA AskingIsSent ==
  ASSUME NEW d \in Clients
  PROVE  Asking(d) <=> \E m \in Sent(d) : m.type = "JOIN"
BY DEF Asking, Sent, Claims, Elements

(* The server takes nothing more from d *)
LEMMA ClaimsShrink ==
  ASSUME IInv, IInv', NEW d \in Clients, NothingReceived
  PROVE  /\ Claims(d)' \subseteq Claims(d)
         /\ up'[d] = up[d] => Sent(d)' \subseteq Sent(d)
<1>1. PICK k \in {0, 1} : \A i \in DOMAIN rcvd' :
        rcvd'[i].from \in Clients => i + k \in DOMAIN rcvd /\ rcvd'[i] = rcvd[i + k]
  BY DEF NothingReceived
<1>2. \A i \in From(d)' : i + k \in From(d) /\ rcvd'[i].msg = rcvd[i + k].msg
  BY <1>1 DEF From
<1>3. Claims(d)' \subseteq Claims(d)
  BY <1>2 DEF Claims
<1> QED BY <1>3 DEF Sent

LEMMA PlaceStays ==
  ASSUME NEW d \in Clients, PlaceOk(d), phase'[d] = phase[d], sock'[d] = sock[d], pending' = d <=> pending = d,
         Elements(up[d])' \subseteq Elements(up[d]), Sent(d)' \subseteq Sent(d),
         sock[d] = "backlog" => Claims(d)' = Claims(d) /\ up'[d] = up[d],
         \A m \in Elements(down[d])' : m \in Elements(down[d]) \/ m.type \notin {"EOF", "JOIN"}
  PROVE  PlaceOk(d)'
<1>1. Asking(d)' => Asking(d)
  <2>1. Asking(d)' <=> \E m \in Sent(d)' : m.type = "JOIN"
    BY DEF Asking, Sent, Claims, Elements
  <2> QED BY <2>1, AskingIsSent
<1>8. sock[d] = "backlog" => Claims(d)' = {} /\ Asking(d)'
  <2> SUFFICES ASSUME sock[d] = "backlog" PROVE Claims(d)' = {} /\ Asking(d)'
    OBVIOUS
  <2>1. Sent(d)' = Sent(d) /\ Claims(d)' = Claims(d)
    BY DEF Sent, Elements
  <2>2. Asking(d)' <=> \E m \in Sent(d)' : m.type = "JOIN"
    BY DEF Asking, Sent, Claims, Elements
  <2>3. Asking(d) /\ Claims(d) = {}
    BY DEF PlaceOk
  <2> QED BY <2>1, <2>2, <2>3, AskingIsSent
<1>2. \A a \in BOOLEAN : JoinReply(a).type = "JOIN"
  BY DEF JoinReply
<1>3. \A m \in Elements(down[d])' :
       /\ m.type # "EOF"
       /\ m.type = "JOIN" => phase'[d] = "join" /\ ~Asking(d)'
       /\ m = JoinReply(FALSE) => sock'[d] # "playing" /\ pending' # d
       /\ m = JoinReply(TRUE) => sock'[d] = "playing" \/ pending' = d
  BY <1>1, <1>2 DEF PlaceOk
<1>4. Asking(d)' => phase'[d] = "join" /\ sock'[d] # "playing" /\ pending' # d
  BY <1>1 DEF PlaceOk
<1>5. \A m \in Sent(d)' : m.type \in {"READY", "REQUEST"} => sock'[d] = "playing"
  BY DEF PlaceOk
<1>6. \A m \in Elements(up[d])' : m.type = "EOF" => phase'[d] = "out"
  BY DEF PlaceOk
<1>7. /\ phase'[d] # "desync" /\ sock'[d] # "kicked"
      /\ sock'[d] = "none" => phase'[d] = "out"
      /\ sock'[d] = "backlog" => phase'[d] = "join" /\ Claims(d)' = {} /\ Asking(d)'
      /\ sock'[d] = "playing" => phase'[d] # "out"
      /\ InGame(d)' => sock'[d] = "playing"
      /\ sock'[d] = "connected" /\ pending' # d => phase'[d] \in {"join", "out"}
      /\ pending' = d => sock'[d] = "connected" /\ phase'[d] \in {"join", "sync", "game"}
  BY <1>8 DEF PlaceOk, InGame
<1> HIDE DEF PlaceOk
<1> QED BY <1>3, <1>4, <1>5, <1>6, <1>7 DEF PlaceOk

(* What d is sent at once, behind what it has not read: indices of a longer sequence *)
LEMMA LongerIndices ==
  ASSUME NEW S, NEW s \in Seq(S), NEW u \in Seq(S)
  PROVE  /\ \A i \in DOMAIN s : i \in Nat /\ i \in DOMAIN (s \o u) /\ (s \o u)[i] = s[i]
         /\ \A i \in DOMAIN (s \o u) : i \in Nat /\ i \notin DOMAIN s =>
               i > Len(s) /\ \E k \in DOMAIN u : i = Len(s) + k /\ (s \o u)[i] = u[k]
         /\ DOMAIN s = 1..Len(s) /\ Len(s) \in Nat
<1>1. \A i \in DOMAIN s : i \in Nat /\ i \in DOMAIN (s \o u) /\ (s \o u)[i] = s[i]
  OBVIOUS
<1>2. DOMAIN s = 1..Len(s) /\ Len(s) \in Nat
  OBVIOUS
<1>3. ASSUME NEW i \in DOMAIN (s \o u), i \notin DOMAIN s
      PROVE i > Len(s) /\ \E k \in DOMAIN u : i = Len(s) + k /\ (s \o u)[i] = u[k]
  <2>1. i \in 1..(Len(s) + Len(u)) /\ i > Len(s) /\ Len(u) \in Nat /\ DOMAIN u = 1..Len(u)
    BY <1>3
  <2>2. i - Len(s) \in DOMAIN u /\ i = Len(s) + (i - Len(s)) /\ (s \o u)[i] = u[i - Len(s)]
    BY <2>1
  <2> QED BY <2>1, <2>2
<1> QED BY <1>1, <1>2, <1>3

LEMMA JoinStays ==
  ASSUME IInv, NEW d \in Clients, JoinOk(d), phase'[d] = phase[d], mc'[d] = mc[d],
         sock[d] = "playing" => sock'[d] = "playing",
         pending' = d <=> pending = d, pending = d => lastMc' = lastMc,
         NEW u \in Seq(DownMsg), down'[d] = down[d] \o u, \A m \in Elements(u) : m # JoinReply(TRUE) /\ m.type # "GAME"
  PROVE  JoinOk(d)'
<1>1. down[d] \in Seq(DownMsg)
  BY DownTypes
<1> DEFINE s == down[d]
           t == s \o u
<1>2. /\ \A i \in DOMAIN s : i \in Nat /\ i \in DOMAIN t /\ t[i] = s[i]
      /\ \A i \in DOMAIN t : t[i] = JoinReply(TRUE) \/ t[i].type = "GAME" => i \in DOMAIN s /\ i \in Nat
      /\ DOMAIN s = 1..Len(s) /\ Len(s) \in Nat
  <2>1. /\ \A i \in DOMAIN s : i \in Nat /\ i \in DOMAIN (s \o u) /\ (s \o u)[i] = s[i]
        /\ \A i \in DOMAIN (s \o u) : i \in Nat /\ i \notin DOMAIN s =>
              i > Len(s) /\ \E k \in DOMAIN u : i = Len(s) + k /\ (s \o u)[i] = u[k]
        /\ DOMAIN s = 1..Len(s) /\ Len(s) \in Nat
    BY <1>1, LongerIndices
  <2>4. \A k \in DOMAIN u : u[k] # JoinReply(TRUE) /\ u[k].type # "GAME"
    BY DEF Elements
  <2>5. DOMAIN t \subseteq Nat
    BY <1>1
  <2> QED BY <2>1, <2>4, <2>5
<1> HIDE DEF t
<1>0. down'[d] = t
  BY DEF t
<1>4. \A i \in DOMAIN t : t[i].type = "GAME" =>
        i \in DOMAIN s /\ t[i] = s[i] /\ i + 1 \in DOMAIN s /\ t[i + 1] = s[i + 1]
  BY <1>2 DEF JoinOk
<1> DEFINE Brings(k) == /\ pending' = d => k = lastMc'
                        /\ \A i \in DOMAIN t : t[i].type = "GAME" => t[i + 1].mc = k
<1>5. ASSUME NEW k, Joins(d, k) PROVE Brings(k)
  BY <1>4, <1>5 DEF Joins
<1>6. \A i \in DOMAIN t : t[i] = JoinReply(TRUE) =>
       /\ \A j \in DOMAIN t : t[j] = JoinReply(TRUE) => j = i
       /\ i + 1 \in DOMAIN t /\ t[i + 1].type = "SYNC" /\ Brings(t[i + 1].new)
  <2> SUFFICES ASSUME NEW i \in DOMAIN t, t[i] = JoinReply(TRUE)
               PROVE  /\ \A j \in DOMAIN t : t[j] = JoinReply(TRUE) => j = i
                      /\ i + 1 \in DOMAIN t /\ t[i + 1].type = "SYNC" /\ Brings(t[i + 1].new)
    OBVIOUS
  <2>1. \A j \in DOMAIN t : t[j] = JoinReply(TRUE) => j \in DOMAIN s /\ s[j] = JoinReply(TRUE)
    BY <1>2
  <2>2. i + 1 \in DOMAIN s /\ s[i + 1].type = "SYNC" /\ Joins(d, s[i + 1].new)
    BY <2>1 DEF JoinOk
  <2>4. i + 1 \in DOMAIN t /\ t[i + 1] = s[i + 1]
    BY <1>2, <2>2
  <2>3. \A j \in DOMAIN t : t[j] = JoinReply(TRUE) => j = i
    BY <2>1 DEF JoinOk
  <2> QED BY <1>5, <2>2, <2>3, <2>4
<1>7. phase[d] = "sync" => t # <<>> /\ t[1].type = "SYNC" /\ Brings(t[1].new)
  <2> SUFFICES ASSUME phase[d] = "sync" PROVE t # <<>> /\ t[1].type = "SYNC" /\ Brings(t[1].new)
    OBVIOUS
  <2>1. s # <<>> /\ s[1].type = "SYNC" /\ Joins(d, s[1].new)
    BY DEF JoinOk
  <2>2. 1 \in DOMAIN s
    BY <1>1, <2>1
  <2>3. 1 \in DOMAIN t /\ t[1] = s[1]
    BY <1>2, <2>2
  <2>4. t # <<>>
    BY <2>3
  <2> QED BY <1>5, <2>1, <2>3, <2>4
<1>8. phase[d] = "game" => Brings(mc[d])
  BY <1>5 DEF JoinOk
<1>9. pending = d /\ phase[d] = "join" => \E i \in DOMAIN t : t[i] = JoinReply(TRUE)
  <2>1. \A i \in DOMAIN s : s[i] = JoinReply(TRUE) => i \in DOMAIN t /\ t[i] = JoinReply(TRUE)
    BY <1>2
  <2> QED BY <2>1 DEF JoinOk
<1>10. \A i \in DOMAIN t : t[i].type = "GAME" =>
         /\ i + 1 \in DOMAIN t /\ t[i + 1].type = "READY"
         /\ phase[d] \in {"join", "sync", "game"} /\ sock[d] = "playing"
         /\ phase[d] = "join" => \E j \in 1..(i - 1) : t[j] = JoinReply(TRUE)
  <2> SUFFICES ASSUME NEW i \in DOMAIN t, t[i].type = "GAME"
               PROVE  /\ i + 1 \in DOMAIN t /\ t[i + 1].type = "READY"
                      /\ phase[d] \in {"join", "sync", "game"} /\ sock[d] = "playing"
                      /\ phase[d] = "join" => \E j \in 1..(i - 1) : t[j] = JoinReply(TRUE)
    OBVIOUS
  <2>1. i \in DOMAIN s /\ s[i].type = "GAME" /\ i \in Nat
    BY <1>2
  <2>5. \A j \in 1..(i - 1) : j \in DOMAIN s
    BY <1>1, <2>1
  <2>2. \A j \in 1..(i - 1) : j \in DOMAIN s /\ t[j] = s[j]
    BY <1>2, <2>5
  <2>3. /\ i + 1 \in DOMAIN s /\ s[i + 1].type = "READY"
        /\ phase[d] \in {"join", "sync", "game"} /\ sock[d] = "playing"
        /\ phase[d] = "join" => \E j \in 1..(i - 1) : s[j] = JoinReply(TRUE)
    BY <2>1 DEF JoinOk
  <2>4. i + 1 \in DOMAIN t /\ t[i + 1] = s[i + 1]
    BY <1>2, <2>3
  <2> QED BY <2>2, <2>3, <2>4
<1>11. \A i \in DOMAIN down'[d] : down'[d][i] = JoinReply(TRUE) =>
         /\ \A j \in DOMAIN down'[d] : down'[d][j] = JoinReply(TRUE) => j = i
         /\ i + 1 \in DOMAIN down'[d] /\ down'[d][i + 1].type = "SYNC" /\ Joins(d, down[d][i + 1].new)'
  BY <1>0, <1>6 DEF Joins
<1>12. phase'[d] = "sync" => down'[d] # <<>> /\ down'[d][1].type = "SYNC" /\ Joins(d, down[d][1].new)'
  BY <1>0, <1>7 DEF Joins
<1>13. phase'[d] = "game" => Joins(d, mc[d])'
  BY <1>0, <1>8 DEF Joins
<1>14. /\ pending' = d /\ phase'[d] = "join" => \E i \in DOMAIN down'[d] : down'[d][i] = JoinReply(TRUE)
       /\ \A i \in DOMAIN down'[d] : down'[d][i].type = "GAME" =>
            /\ i + 1 \in DOMAIN down'[d] /\ down'[d][i + 1].type = "READY"
            /\ phase'[d] \in {"join", "sync", "game"} /\ sock'[d] = "playing"
            /\ phase'[d] = "join" => \E j \in 1..(i - 1) : down'[d][j] = JoinReply(TRUE)
  BY <1>0, <1>9, <1>10
<1> QED BY <1>11, <1>12, <1>13, <1>14 DEF JoinOk

LEMMA ReadyStays ==
  ASSUME IInv, NEW d \in Clients, ReadyOk(d), phase'[d] = phase[d], mc'[d] = mc[d],
         sock[d] = "playing" => sock'[d] = "playing",
         sync'[d] = sync[d], cmdQ'[d] = cmdQ[d], Sent(d)' \subseteq Sent(d),
         \A i \in DOMAIN up'[d] : up'[d][i].type = "READY" =>
           /\ \A j \in DOMAIN up'[d] : up'[d][j].type = "READY" => j = i
           /\ \A m \in Claims(d)' : m.type # "READY",
         NEW u \in Seq(DownMsg), down'[d] = down[d] \o u, \A m \in Elements(u) : m.type # "READY"
  PROVE  ReadyOk(d)'
<1>1. down[d] \in Seq(DownMsg)
  BY DownTypes
<1> DEFINE s == down[d]
           t == s \o u
<1>2. /\ \A i \in DOMAIN s : i \in Nat /\ i \in DOMAIN t /\ t[i] = s[i]
      /\ \A i \in DOMAIN t : t[i].type = "READY" => i \in DOMAIN s /\ i \in Nat
      /\ DOMAIN s = 1..Len(s) /\ Len(s) \in Nat
  BY <1>1, LongerIndices DEF Elements
<1> HIDE DEF t
<1>0. down'[d] = t
  BY DEF t
<1>3. ASSUME NEW i \in DOMAIN t, t[i].type = "READY"
      PROVE  /\ \A j \in DOMAIN t : t[j].type = "READY" => j = i
             /\ \A m \in Sent(d)' : m.type # "READY"
             /\ sock[d] = "playing"
             /\ \/ phase[d] \in {"join", "sync", "game"} /\ i > 1 /\ t[i - 1].type = "GAME"
                \/ /\ phase[d] = "pause" /\ t[i].mc = mc[d]
                   /\ t[i].step = sync[d] \/ (i = 1 /\ cmdQ[d] = <<>>)
  <2>1. i \in DOMAIN s /\ s[i].type = "READY" /\ i \in Nat /\ s[i] = t[i]
    BY <1>2, <1>3
  <2>2. \A j \in DOMAIN t : t[j].type = "READY" => j = i
    BY <1>2, <2>1 DEF ReadyOk
  <2>3. i > 1 => i - 1 \in DOMAIN s
    BY <1>2, <2>1
  <2>4. \A m \in Sent(d)' : m.type # "READY"
    BY <2>1 DEF ReadyOk
  <2> QED BY <1>2, <2>1, <2>2, <2>3, <2>4 DEF ReadyOk
<1>4. \A m \in Sent(d)' : m.type = "READY" => phase[d] = "pause" /\ m.mc = mc[d] /\ m.step = sync[d]
  BY DEF ReadyOk
<1> QED BY <1>0, <1>3, <1>4 DEF ReadyOk

(* What waits for d and acts on a world is a command; news are of steps that the server has reached *)
LEMMA WaitingForms ==
  ASSUME IInv, NEW d \in Clients, NEW m \in Waiting(d)
  PROVE  /\ m \in Message /\ (IsWorldCommand(m) => m \in WorldCommand)
         /\ Acts(m) \/ m.type = "CHECK" => m.step \in Nat
         /\ m.type = "SYNC" => m.new \in Nat /\ m.mc \in Nat /\ m.id \in Nat
<1>1. m \in WorldCommand \/ m \in DownMsg \/ m \in Broadcast
  BY WaitingTypes DEF Waiting, DownMsgTo, BroadcastTo
<1>2. IsWorldCommand(m) => m \in WorldCommand
  BY <1>1 DEF IsWorldCommand, DownMsg, Broadcast, WorldCommand, Ready, EofMsg
<1>3. \A x \in WorldCommand : x.step \in Nat /\ (x.type = "SYNC" => x.new \in Nat /\ x.mc \in Nat /\ x.id \in Nat)
  BY DEF WorldCommand
<1> QED BY <1>1, <1>2, <1>3, MessagesAre DEF IsWorldCommand, Acts

LEMMA NewsReached ==
  ASSUME NEW m \in DownMsg, IsNews(m), NEW n \in Nat, Reached(m, n)
  PROVE  Told(m) \in Int /\ Told(m) <= n
<1>1. m.step \in Nat
  BY DEF IsNews, DownMsg, Broadcast, WorldCommand, Ready, EofMsg
<1> QED BY <1>1 DEF IsNews, Told, Reached

LEMMA TimeStays ==
  ASSUME IInv, IInv', NEW d \in Clients, TimeOk(d), phase'[d] = phase[d], sync'[d] = sync[d],
         barrier'[d] = barrier[d], mc'[d] = mc[d], cmdQ'[d] = cmdQ[d],
         NEW u \in Seq(DownMsg), down'[d] = down[d] \o u,
         \A m \in Elements(u) : Acts(m) => m.step = sync[Server] + 1,
         \A i, j \in DOMAIN u : i < j /\ IsNews(u[i]) /\ Acts(u[j]) => Told(u[i]) < u[j].step,
         \A m \in Elements(sendq[d])' : Acts(m) => m.step = sync'[Server] + 1,
         stage' = "run" => sendq'[d] = <<>>
  PROVE  TimeOk(d)'
<1>1. down[d] \in Seq(DownMsg)
  BY DownTypes
<1>2. /\ sync[Server] \in Nat /\ sync'[Server] \in Nat /\ sync[d] \in Nat /\ barrier[d] \in Nat
      /\ sync[d] <= sync[Server] /\ barrier[d] <= sync[Server] /\ sync'[d] <= sync'[Server]
  BY NodesFacts DEF IInv, NodeInv
<1> DEFINE s == down[d]
           t == s \o u
<1>3. /\ \A i \in DOMAIN s : i \in Nat /\ i \in DOMAIN t /\ t[i] = s[i]
      /\ \A i \in DOMAIN t : i \in Nat /\ i \notin DOMAIN s =>
           i > Len(s) /\ \E k \in DOMAIN u : i = Len(s) + k /\ t[i] = u[k]
      /\ DOMAIN s = 1..Len(s) /\ Len(s) \in Nat /\ DOMAIN t \subseteq Nat /\ DOMAIN u \subseteq Nat
  <2>1. u \in Seq(DownMsg) /\ t \in Seq(DownMsg)
    BY <1>1
  <2>2. DOMAIN t \subseteq Nat /\ DOMAIN u \subseteq Nat
    BY <2>1
  <2> QED BY <1>1, <2>2, LongerIndices
<1>4. Elements(t) = Elements(s) \cup Elements(u)
  BY <1>1, ElementsConcat
<1> HIDE DEF t
<1>0. down'[d] = t
  BY DEF t
<1>5. ASSUME NEW i \in DOMAIN t, NEW j \in DOMAIN t, i < j, IsNews(t[i]), Acts(t[j])
      PROVE  Told(t[i]) < t[j].step
  <2>1. CASE j \in DOMAIN s
    <3>1. i \in DOMAIN s
      BY <1>3, <1>5, <2>1
    <3> QED BY <1>3, <1>5, <2>1, <3>1 DEF TimeOk
  <2>2. CASE i \notin DOMAIN s
    <3>1. j \notin DOMAIN s
      BY <1>3, <1>5, <2>2
    <3>2. PICK k \in DOMAIN u : i = Len(s) + k /\ t[i] = u[k]
      BY <1>3, <2>2
    <3>3. PICK l \in DOMAIN u : j = Len(s) + l /\ t[j] = u[l]
      BY <1>3, <3>1
    <3>4. k < l
      BY <1>3, <1>5, <3>2, <3>3
    <3> QED BY <1>5, <3>2, <3>3, <3>4
  <2>3. CASE i \in DOMAIN s /\ j \notin DOMAIN s
    <3>1. t[j] \in Elements(u)
      BY <1>3, <2>3 DEF Elements
    <3>2. t[i] \in DownMsg /\ Reached(t[i], sync[Server])
      <4>1. t[i] \in Elements(s)
        BY <1>3, <2>3 DEF Elements
      <4> QED BY <4>1, WaitingTypes DEF DownMsgTo
    <3>3. Told(t[i]) \in Int /\ Told(t[i]) <= sync[Server]
      BY <1>2, <1>5, <3>2, NewsReached
    <3> QED BY <1>2, <1>5, <3>1, <3>3
  <2> QED BY <2>1, <2>2, <2>3
<1>6. InGame(d) =>
       /\ sync[d] <= barrier[d]
       /\ \A m \in Elements(t) : Acts(m) => barrier[d] < m.step
       /\ \A m \in Elements(cmdQ[d]) : Acts(m) => sync[d] <= m.step
  <2>1. \A m \in Elements(u) : Acts(m) => barrier[d] < m.step
    BY <1>2
  <2> QED BY <1>4, <2>1 DEF TimeOk
<1>7. phase[d] = "pause" => \A m \in Waiting(d)' : m.type = "SYNC" /\ m.mc = mc[d] => sync[d] < m.step
  <2> SUFFICES ASSUME phase[d] = "pause", NEW m \in Waiting(d)', m.type = "SYNC", m.mc = mc[d]
               PROVE  sync[d] < m.step
    OBVIOUS
  <2>1. Acts(m)
    BY DEF Acts
  <2>2. CASE m \in Waiting(d)
    BY <2>2 DEF TimeOk
  <2>3. CASE m \in Elements(u)
    BY <1>2, <2>1, <2>3
  <2>4. CASE m \in Elements(sendq[d])'
    BY <1>2, <2>1, <2>4
  <2> QED BY <1>0, <1>4, <2>2, <2>3, <2>4 DEF Waiting
<1>8. InGame(d)' <=> InGame(d)
  BY DEF InGame
<1>9. \A i, j \in DOMAIN down'[d] :
        i < j /\ IsNews(down'[d][i]) /\ Acts(down'[d][j]) => Told(down'[d][i]) < down'[d][j].step
  BY <1>0, <1>5
<1>10. /\ \A m \in Elements(sendq[d])' : Acts(m) => m.step = sync'[Server] + 1
       /\ stage' = "run" => sendq'[d] = <<>>
       /\ InGame(d)' =>
            /\ sync'[d] <= barrier'[d]
            /\ \A m \in Elements(down[d])' : Acts(m) => barrier'[d] < m.step
            /\ \A m \in Elements(cmdQ[d])' : Acts(m) => sync'[d] <= m.step
       /\ phase'[d] = "pause" => \A m \in Waiting(d)' : m.type = "SYNC" /\ m.mc = mc'[d] => sync'[d] < m.step
  BY <1>0, <1>6, <1>7, <1>8
<1> QED BY <1>9, <1>10 DEF TimeOk

(* No other sync comes to d, and those that the server has to do stay *)
LEMMA SyncsStay ==
  ASSUME IInv, IInv', NEW d \in Clients, SyncsOk(d), \A m \in Waiting(d)' : m \in Waiting(d) \/ m.type # "SYNC",
         mc'[Server] = mc[Server], lastMc <= lastMc', sync[Server] <= sync'[Server],
         \A z \in ToDo : z.type = "SYNC" => \E y \in ToDo' : y.type = "SYNC" /\ y.step = z.step
  PROVE  SyncsOk(d)'
<1>1. lastMc \in Nat /\ lastMc' \in Nat /\ sync[Server] \in Nat /\ sync'[Server] \in Nat
  BY NodesFacts DEF IInv, UserInv, NodeInv
<1> SUFFICES ASSUME NEW m \in Waiting(d)', m.type = "SYNC"
             PROVE  /\ m.mc < m.new /\ m.new <= lastMc'
                    /\ m.new <= mc'[Server] => m.step <= sync'[Server]
                    /\ m.new > mc'[Server] => \E z \in ToDo' : z.type = "SYNC" /\ z.step = m.step
                    /\ \A x \in Waiting(d)' : x.type = "SYNC" /\ x.mc = m.new => m.step < x.step
  BY DEF SyncsOk
<1>2. m \in Waiting(d)
  OBVIOUS
<1>3. m.step \in Nat /\ m.new \in Nat
  BY <1>2, WaitingForms DEF Acts
<1>4. /\ m.mc < m.new /\ m.new <= lastMc
      /\ m.new <= mc[Server] => m.step <= sync[Server]
      /\ m.new > mc[Server] => \E z \in ToDo : z.type = "SYNC" /\ z.step = m.step
      /\ \A x \in Waiting(d) : x.type = "SYNC" /\ x.mc = m.new => m.step < x.step
  BY <1>2 DEF SyncsOk
<1> QED BY <1>1, <1>3, <1>4

(* What the server has checked stays right *)
WorldKept(t) == ChecklistAt(world[Server], t)' = ChecklistAt(world[Server], t)

LEMMA CheckedLater ==
  ASSUME IInv, IInv', sync[Server] <= sync'[Server], \A t \in Int : t <= sync[Server] => WorldKept(t),
         NEW m, m.type \in {"CHECK", "TOOL"} => m.step \in Nat, Checked(m)
  PROVE  Checked(m)'
<1>1. sync[Server] \in Nat /\ sync'[Server] \in Nat
  BY NodesFacts DEF IInv, NodeInv
<1> SUFFICES ASSUME m.type \in {"CHECK", "TOOL"}
             PROVE  0 < m.step /\ m.step <= sync'[Server] + 1 /\ m.chk = ChecklistAt(world'[Server], m.step - 1)
  BY DEF Checked
<1>2. 0 < m.step /\ m.step <= sync[Server] + 1 /\ m.chk = ChecklistAt(world[Server], m.step - 1) /\ m.step \in Nat
  BY DEF Checked
<1>3. WorldKept(m.step - 1)
  BY <1>1, <1>2
<1> QED BY <1>1, <1>2, <1>3 DEF WorldKept

LEMMA CheckedStays ==
  ASSUME IInv, IInv', NEW d \in Clients, CheckedOk(d), PlaceOk(d), JoinOk(d), phase'[d] = phase[d],
         sock'[d] = "playing" => sock[d] = "playing", cmdQ'[d] = cmdQ[d], sync[Server] <= sync'[Server],
         sock[d] = "playing" => \A t \in Int : t <= sync[Server] => WorldKept(t),
         NEW u \in Seq(DownMsg), down'[d] = down[d] \o u,
         \A m \in Elements(u) : m.type # "GAME" /\ (sock[d] = "playing" => Checked(m)'),
         \A m \in Elements(sendq[d])' : m \in Elements(sendq[d]) \/ (sock[d] = "playing" => Checked(m)'),
         Sent(d)' \subseteq Sent(d)
  PROVE  CheckedOk(d)'
<1>1. down[d] \in Seq(DownMsg)
  BY DownTypes
<1>2. sync[Server] \in Nat /\ sync'[Server] \in Nat
  BY NodesFacts DEF IInv, NodeInv
<1> DEFINE s == down[d]
           t == s \o u
<1>3. /\ \A i \in DOMAIN s : i \in Nat /\ i \in DOMAIN t /\ t[i] = s[i]
      /\ \A i \in DOMAIN t : i \in DOMAIN s \/ t[i] \in Elements(u)
      /\ DOMAIN s = 1..Len(s) /\ Len(s) \in Nat /\ DOMAIN t \subseteq Nat
  <2>1. t \in Seq(DownMsg)
    BY <1>1
  <2>2. DOMAIN t \subseteq Nat
    BY <2>1
  <2> QED BY <1>1, <2>2, LongerIndices DEF Elements
<1> HIDE DEF t
<1>0. down'[d] = t
  BY DEF t
<1> DEFINE Right(m) == m.type \in {"CHECK", "TOOL"} =>
             0 < m.step /\ m.step <= sync'[Server] + 1 /\ m.chk = ChecklistAt(world'[Server], m.step - 1)
<1>10. \A m : Checked(m)' <=> Right(m)
  BY DEF Checked
<1> HIDE DEF Right
<1>4. ASSUME sock[d] = "playing", NEW m \in Waiting(d), Checked(m) PROVE Right(m)
  <2>1. m.type \in {"CHECK", "TOOL"} => m.step \in Nat
    BY WaitingForms DEF Acts
  <2>2. Checked(m)'
    BY <1>4, <2>1, CheckedLater
  <2> QED BY <1>10, <2>2
<1>5. ASSUME sock'[d] = "playing", NEW m \in Elements(cmdQ[d])' \cup Elements(sendq[d])' PROVE Right(m)
  <2>1. CASE m \in Elements(cmdQ[d]) \cup Elements(sendq[d])
    BY <1>4, <1>5, <2>1 DEF CheckedOk, Waiting
  <2> QED BY <1>5, <1>10, <2>1
<1>6. ASSUME NEW i \in DOMAIN t, InGame(d) \/ \E g \in 1..(i - 1) : t[g].type = "GAME"
      PROVE  Right(t[i])
  <2>1. \A g \in 1..(i - 1) : g \in DOMAIN t /\ t[g].type = "GAME" => g \in DOMAIN s /\ t[g] = s[g]
    BY <1>3
  <2>2. \A g \in 1..(i - 1) : g \in DOMAIN t
    <3>1. i \in Nat /\ t \in Seq(DownMsg)
      BY <1>1, <1>3 DEF t
    <3> QED BY <3>1
  <2>3. sock[d] = "playing"
    BY <1>6, <2>1, <2>2 DEF PlaceOk, JoinOk
  <2>4. CASE i \in DOMAIN s
    <3>1. InGame(d) \/ \E g \in 1..(i - 1) : s[g].type = "GAME"
      BY <1>6, <2>1, <2>2
    <3>2. Checked(s[i])
      BY <2>4, <3>1 DEF CheckedOk
    <3>3. s[i] \in Waiting(d)
      BY <2>4 DEF Waiting, Elements
    <3> QED BY <1>3, <1>4, <2>3, <2>4, <3>2, <3>3
  <2>5. CASE i \notin DOMAIN s
    BY <1>3, <1>10, <2>3, <2>5
  <2> QED BY <2>4, <2>5
<1>7. ASSUME NEW m \in Sent(d)', m.type \in {"READY", "REQUEST"}
      PROVE  m.step <= sync'[Server] /\ m.chk = ChecklistAt(world[Server], m.step)'
  <2>1. m \in Sent(d) /\ m.step <= sync[Server] /\ m.chk = ChecklistAt(world[Server], m.step) /\ sock[d] = "playing"
    BY <1>7 DEF CheckedOk, PlaceOk
  <2>2. m.step \in Nat
    <3>1. m \in UpMsg
      BY <2>1, WaitingTypes DEF UpMsgTo
    <3> QED BY <1>7, <3>1 DEF UpMsg, Ready, Request, JoinMsg, EofMsg
  <2>3. WorldKept(m.step)
    BY <2>1, <2>2
  <2> QED BY <1>2, <2>1, <2>2, <2>3 DEF WorldKept
<1>8. InGame(d)' <=> InGame(d)
  BY DEF InGame
<1>9. \A i \in DOMAIN down'[d] :
        (InGame(d)' \/ \E g \in 1..(i - 1) : down'[d][g].type = "GAME") => Right(down'[d][i])
  BY <1>0, <1>6, <1>8
<1>11. \A i \in DOMAIN down'[d] :
        (InGame(d)' \/ \E g \in 1..(i - 1) : down'[d][g].type = "GAME") => Checked(down[d][i])'
  BY <1>9 DEF Checked, Right
<1>12. sock'[d] = "playing" => \A m \in Elements(cmdQ[d])' \cup Elements(sendq[d])' : Checked(m)'
  BY <1>5, <1>10
<1> QED BY <1>7, <1>11, <1>12 DEF CheckedOk

LEMMA KnownStays ==
  ASSUME IInv, IInv', NEW d \in Clients, KnownOk(d), phase'[d] = phase[d], mc'[d] = mc[d],
         Sent(d)' \subseteq Sent(d), \A m \in Claims(d)' : m \in Claims(d) \/ (m \in Elements(up[d]) /\ stage # "run"),
         Elements(up[d])' \subseteq Elements(up[d]),
         lastMc <= lastMc', mc[Server] <= mc'[Server],
         SyncDue => SyncDue' \/ lastMc <= mc'[Server]
  PROVE  KnownOk(d)'
<1>1. /\ lastMc \in Nat /\ lastMc' \in Nat /\ mc[Server] \in Nat /\ mc'[Server] \in Nat
  BY NodesFacts DEF IInv, UserInv, NodeInv
<1>2. \A m \in Sent(d) : m.type = "READY" => m.mc \in Nat
  <2>1. Sent(d) \subseteq UpMsg
    BY WaitingTypes DEF UpMsgTo
  <2> QED BY <2>1 DEF UpMsg, Ready, Request, JoinMsg, EofMsg
<1>3. \A m \in Sent(d)' : m.type = "READY" => 2 <= m.mc /\ m.mc <= lastMc'
  BY <1>1, <1>2 DEF KnownOk
<1>4. \A m \in Claims(d)' : m.type = "READY" => m.mc <= mc'[Server]
  BY <1>1, <1>2 DEF KnownOk, Sent, SyncDue
<1>5. \A m \in Elements(up[d])' : m.type = "READY" => m.mc <= mc'[Server] \/ SyncDue'
  BY <1>1, <1>2 DEF KnownOk, Sent
<1> QED BY <1>3, <1>4, <1>5 DEF KnownOk


(* What the server sends to all is no reply, and news in it come before the commands of the next step *)
LEMMA SentToAll ==
  ASSUME IInv, NEW d \in Clients, TimeOk(d), NEW u \in Seq(DownMsg), Elements(u) \subseteq Elements(sendq[d])
  PROVE  /\ \A m \in Elements(u) : m.type \in {"STEP", "CHECK", "TOOL", "SYNC"}
         /\ \A m \in Elements(u) : Acts(m) => m.step = sync[Server] + 1
         /\ \A m \in Elements(u) : IsNews(m) => Told(m) \in Int /\ Told(m) <= sync[Server]
         /\ \A i, j \in DOMAIN u : i < j /\ IsNews(u[i]) /\ Acts(u[j]) => Told(u[i]) < u[j].step
<1>1. \A m \in Elements(u) : m \in Broadcast /\ Reached(m, sync[Server])
  BY WaitingTypes DEF BroadcastTo
<1>2. \A m \in Elements(u) : m.type \in {"STEP", "CHECK", "TOOL", "SYNC"} /\ m \in DownMsg
  BY <1>1 DEF Broadcast, WorldCommand, DownMsg
<1>3. \A m \in Elements(u) : Acts(m) => m.step = sync[Server] + 1
  BY DEF TimeOk
<1>4. sync[Server] \in Nat
  BY NodesFacts DEF IInv, NodeInv
<1>5. \A m \in Elements(u) : IsNews(m) => Told(m) \in Int /\ Told(m) <= sync[Server]
  BY <1>1, <1>2, <1>4, NewsReached
<1>6. ASSUME NEW i \in DOMAIN u, NEW j \in DOMAIN u, IsNews(u[i]), Acts(u[j]) PROVE Told(u[i]) < u[j].step
  <2>1. u[i] \in Elements(u) /\ u[j] \in Elements(u)
    BY DEF Elements
  <2> QED BY <1>3, <1>4, <1>5, <1>6, <2>1
<1> QED BY <1>2, <1>3, <1>5, <1>6

(* A step that is not about d: d is sent at most what waited for it *)
LEMMA FineStays ==
  ASSUME IInv, IInv', NEW d \in Clients, ClientFine(d), SyncsOk(d)', Claims(d)' \subseteq Claims(d),
         phase'[d] = phase[d], sync'[d] = sync[d], barrier'[d] = barrier[d], mc'[d] = mc[d], cmdQ'[d] = cmdQ[d],
         sock'[d] = sock[d], up'[d] = up[d], pending' = d <=> pending = d, pending = d => lastMc' = lastMc,
         lastMc <= lastMc', mc[Server] <= mc'[Server], sync[Server] <= sync'[Server],
         SyncDue => SyncDue' \/ lastMc <= mc'[Server],
         sock[d] = "playing" => \A t \in Int : t <= sync[Server] => WorldKept(t),
         NEW u \in Seq(DownMsg), down'[d] = down[d] \o u, Elements(u) \subseteq Elements(sendq[d]),
         \A m \in Elements(sendq[d])' : m \in Elements(sendq[d]) \/ (sock[d] = "playing" => Checked(m)'),
         \A m \in Elements(sendq[d])' : Acts(m) => m.step = sync'[Server] + 1,
         stage' = "run" => sendq'[d] = <<>>
  PROVE  ClientFine(d)'
<1>1. PlaceOk(d) /\ JoinOk(d) /\ ReadyOk(d) /\ TimeOk(d) /\ CheckedOk(d) /\ KnownOk(d)
  BY DEF ClientFine
<1>2. Claims(d)' \subseteq Claims(d) /\ Sent(d)' \subseteq Sent(d) /\ Elements(up[d])' \subseteq Elements(up[d])
  <2>1. Elements(up[d])' = Elements(up[d])
    BY DEF Elements
  <2> QED BY <2>1 DEF Sent
<1>3. sock[d] = "backlog" => Claims(d)' = Claims(d) /\ up'[d] = up[d]
  BY <1>1, <1>2 DEF PlaceOk
<1>4. /\ \A m \in Elements(u) : m.type \in {"STEP", "CHECK", "TOOL", "SYNC"}
      /\ \A m \in Elements(u) : Acts(m) => m.step = sync[Server] + 1
      /\ \A i, j \in DOMAIN u : i < j /\ IsNews(u[i]) /\ Acts(u[j]) => Told(u[i]) < u[j].step
  BY <1>1, SentToAll
<1>5. down[d] \in Seq(DownMsg) /\ JoinReply(TRUE).type = "JOIN"
  BY DownTypes DEF JoinReply
<1>6. Elements(down[d])' = Elements(down[d]) \cup Elements(u)
  <2>1. Elements(down[d] \o u) = Elements(down[d]) \cup Elements(u)
    BY <1>5, ElementsConcat
  <2>2. Elements(down[d])' = Elements(down'[d])
    BY DEF Elements
  <2> QED BY <2>1, <2>2
<1>7. PlaceOk(d)'
  BY <1>1, <1>2, <1>3, <1>4, <1>6, PlaceStays
<1>8. \A m \in Elements(u) : m # JoinReply(TRUE) /\ m.type # "GAME" /\ m.type # "READY"
  BY <1>4, <1>5
<1>9. JoinOk(d)'
  BY <1>1, <1>8, JoinStays
<1>15. \A i \in DOMAIN up'[d] : up'[d][i].type = "READY" =>
         /\ \A j \in DOMAIN up'[d] : up'[d][j].type = "READY" => j = i
         /\ \A m \in Claims(d)' : m.type # "READY"
  BY <1>1, <1>2 DEF ReadyOk
<1>10. ReadyOk(d)'
  BY <1>1, <1>2, <1>8, <1>15, ReadyStays
<1>11. TimeOk(d)'
  BY <1>1, <1>4, TimeStays
<1>12. \A m \in Elements(u) : m.type # "GAME" /\ (sock[d] = "playing" => Checked(m)')
  <2> SUFFICES ASSUME NEW m \in Elements(u), sock[d] = "playing" PROVE Checked(m)'
    BY <1>8
  <2>1. Checked(m)
    BY <1>1 DEF CheckedOk
  <2>2. m.type \in {"CHECK", "TOOL"} => m.step \in Nat
    BY WaitingForms DEF Waiting, Acts
  <2> QED BY <2>1, <2>2, CheckedLater
<1>13. CheckedOk(d)'
  BY <1>1, <1>2, <1>12, CheckedStays
<1>14. KnownOk(d)'
  BY <1>1, <1>2, KnownStays
<1> QED BY <1>7, <1>9, <1>10, <1>11, <1>13, <1>14 DEF ClientFine

-----------------------------------------------------------------------------
(* Steps that are not about a client that joins, gets ready or goes *)

LEMMA ToDoForms ==
  ASSUME IInv, NEW x, cmdQ'[Server] = cmdQ[Server]
  PROVE  /\ rcvd' = rcvd => ToDo' = ToDo
         /\ rcvd' = Append(rcvd, x) => ToDo' = ToDo \cup {x.msg}
         /\ rcvd # <<>> /\ rcvd' = Tail(rcvd) => ToDo = ToDo' \cup {Head(rcvd).msg}
         /\ rcvd # <<>> /\ rcvd' = Append(Tail(rcvd), x) => ToDo' \cup {Head(rcvd).msg} = ToDo \cup {x.msg}
<1> DEFINE Texts(r) == {r[i].msg : i \in DOMAIN r}
<1>1. rcvd \in Seq(ReceivedTo(sync[Server]))
  BY DEF IInv, ServerInv
<1>2. \A r : Texts(r) = {y.msg : y \in Elements(r)}
  BY DEF Elements
<1> HIDE DEF Texts
<1>3. Elements(Append(rcvd, x)) = Elements(rcvd) \cup {x}
  BY <1>1, ElementsAppend
<1>4. rcvd # <<>> => /\ Elements(rcvd) = Elements(Tail(rcvd)) \cup {Head(rcvd)}
                     /\ Tail(rcvd) \in Seq(ReceivedTo(sync[Server]))
  BY <1>1, ElementsFirst
<1>5. rcvd # <<>> => Elements(Append(Tail(rcvd), x)) = Elements(Tail(rcvd)) \cup {x}
  BY <1>4, ElementsAppend
<1>6. Texts(Append(rcvd, x)) = Texts(rcvd) \cup {x.msg}
  BY <1>2, <1>3
<1>7. rcvd # <<>> => Texts(rcvd) = Texts(Tail(rcvd)) \cup {Head(rcvd).msg}
  BY <1>2, <1>4
<1>8. rcvd # <<>> => Texts(Append(Tail(rcvd), x)) = Texts(Tail(rcvd)) \cup {x.msg}
  BY <1>2, <1>5
<1>9. ToDo = Elements(cmdQ[Server]) \cup Texts(rcvd) /\ ToDo' = Elements(cmdQ[Server]) \cup Texts(rcvd')
  BY DEF ToDo, Elements, Texts
<1> QED BY <1>6, <1>7, <1>8, <1>9

LEMMA SlotsStay ==
  ASSUME SlotsOk, \A c \in Clients : Open(c)' => Open(c) /\ slot'[c] = slot[c]
  PROVE  SlotsOk'
BY DEF SlotsOk

LEMMA CountersStay ==
  ASSUME CountersOk, mc'[Server] = mc[Server], mapCounters' = mapCounters,
         \A c \in Clients : sock'[c] = "playing" <=> sock[c] = "playing"
  PROVE  CountersOk'
<1>1. {c \in Clients : sock'[c] = "playing"} = {c \in Clients : sock[c] = "playing"}
  OBVIOUS
<1> QED BY <1>1 DEF CountersOk

LEMMA PendingStays ==
  ASSUME PendingOk, pending' = pending, pending # NoClient => slot'[pending] = slot[pending], lastMc' = lastMc,
         mc'[Server] = mc[Server], \A z : z.type = "SYNC" => (z \in ToDo' <=> z \in ToDo)
  PROVE  PendingOk'
BY DEF PendingOk

LEMMA LateStays ==
  ASSUME LateOk, stage' # "run" /\ Due(Server)' => stage # "run" /\ Due(Server), sync'[Server] = sync[Server],
         \A c \in Clients :
           /\ InGame(c)' => InGame(c) /\ (LateOk /\ stage # "run" /\ Due(Server) => barrier'[c] < sync[Server])
           /\ \A m \in Elements(down[c])' :
                \/ m \in Elements(down[c]) \/ ~IsNews(m)
                \/ stage # "run" /\ Due(Server) => Told(m) < sync[Server]
  PROVE  LateOk'
<1> SUFFICES ASSUME stage' # "run", Due(Server)', NEW c \in Clients
             PROVE  /\ InGame(c)' => barrier'[c] < sync'[Server]
                    /\ \A m \in Elements(down[c])' : IsNews(m) => Told(m) < sync'[Server]
  BY DEF LateOk
<1> QED BY DEF LateOk

LEMMA SyncDueIsDue ==
  ASSUME IInv, Agreement, SyncDue
  PROVE  stage = "run" /\ Due(Server)
<1>1. PICK i \in DOMAIN cmdQ[Server] : cmdQ[Server][i].step <= sync[Server]
  BY DEF SyncDue, Elements
<1>2. cmdQ[Server] \in Seq(WorldCommand) /\ sync[Server] \in Nat /\ Sorted(cmdQ[Server])
  BY NodesFacts DEF IInv, NodeInv, Agreement
<1>3. cmdQ[Server] # <<>> /\ Head(cmdQ[Server]) = cmdQ[Server][1] /\ 1 \in DOMAIN cmdQ[Server]
      /\ cmdQ[Server][1].step \in Nat /\ cmdQ[Server][i].step \in Nat /\ i \in Nat /\ 1 <= i
  BY <1>1, <1>2 DEF WorldCommand
<1>4. cmdQ[Server][1].step <= cmdQ[Server][i].step
  BY <1>2, <1>3 DEF Sorted
<1> QED BY <1>1, <1>2, <1>3, <1>4 DEF Due, SyncDue

(* Nothing happens to d, but that it is sent what waited and that something more waits for it *)
QuietFor(d) ==
  /\ phase'[d] = phase[d] /\ sync'[d] = sync[d] /\ barrier'[d] = barrier[d] /\ mc'[d] = mc[d]
  /\ cmdQ'[d] = cmdQ[d] /\ up'[d] = up[d] /\ sock'[d] = sock[d]
  /\ \E u \in Seq(DownMsg) : down'[d] = down[d] \o u /\ Elements(u) \subseteq Elements(sendq[d])
  /\ \A m \in Elements(sendq[d])' :
       /\ m \in Elements(sendq[d]) \/ (m.type # "SYNC" /\ (sock[d] = "playing" => Checked(m)'))
       /\ Acts(m) => m.step = sync'[Server] + 1
  /\ stage' = "run" => sendq'[d] = <<>>

(* The server goes on without a new map counter *)
GoesOn ==
  /\ pending' = pending /\ lastMc' = lastMc
  /\ mc'[Server] = mc[Server] /\ sync[Server] <= sync'[Server] /\ mapCounters' = mapCounters
  /\ \A z : z.type = "SYNC" => (z \in ToDo' <=> z \in ToDo)
  /\ SyncDue => SyncDue'
  /\ \A t \in Int : t <= sync[Server] => WorldKept(t)

LEMMA QuietFine ==
  ASSUME IInv, IInv', GoesOn, NEW d \in Clients, ClientFine(d), QuietFor(d), Claims(d)' \subseteq Claims(d)
  PROVE  ClientFine(d)'
<1>1. PICK u \in Seq(DownMsg) : down'[d] = down[d] \o u /\ Elements(u) \subseteq Elements(sendq[d])
  BY DEF QuietFor
<1>2. lastMc \in Nat /\ mc[Server] \in Nat /\ sync[Server] \in Nat
  BY NodesFacts DEF IInv, UserInv, NodeInv
<1>3. \A m \in Waiting(d)' : m \in Waiting(d) \/ m.type # "SYNC"
  <2>1. Elements(down[d] \o u) = Elements(down[d]) \cup Elements(u)
    BY <1>1, DownTypes, ElementsConcat
  <2>2. Elements(down[d])' = Elements(down'[d]) /\ Elements(cmdQ[d])' = Elements(cmdQ[d])
    BY DEF Elements, QuietFor
  <2> QED BY <1>1, <2>1, <2>2 DEF Waiting, QuietFor
<1>4. SyncsOk(d)'
  BY <1>2, <1>3, SyncsStay DEF GoesOn, ClientFine
<1>5. /\ pending' = pending /\ lastMc' = lastMc /\ lastMc <= lastMc'
      /\ mc[Server] <= mc'[Server] /\ sync[Server] <= sync'[Server]
      /\ SyncDue => SyncDue' \/ lastMc <= mc'[Server]
      /\ sock[d] = "playing" => \A t \in Int : t <= sync[Server] => WorldKept(t)
  BY <1>2 DEF GoesOn
<1>6. /\ phase'[d] = phase[d] /\ sync'[d] = sync[d] /\ barrier'[d] = barrier[d] /\ mc'[d] = mc[d]
      /\ cmdQ'[d] = cmdQ[d] /\ up'[d] = up[d] /\ sock'[d] = sock[d]
      /\ \A m \in Elements(sendq[d])' : m \in Elements(sendq[d]) \/ (sock[d] = "playing" => Checked(m)')
      /\ \A m \in Elements(sendq[d])' : Acts(m) => m.step = sync'[Server] + 1
      /\ stage' = "run" => sendq'[d] = <<>>
  BY DEF QuietFor
<1> QED BY <1>1, <1>4, <1>5, <1>6, FineStays

LEMMA QuietStep ==
  ASSUME IInv, IInv', InSync, GoesOn, NothingReceived, sock' = sock, slot' = slot, \A d \in Clients : QuietFor(d), LateOk'
  PROVE  InSync'
<1>1. SlotsOk'
  BY SlotsStay DEF InSync, GoesOn, Open
<1>2. CountersOk'
  BY CountersStay DEF InSync, GoesOn
<1>3. PendingOk'
  BY PendingStays DEF InSync, GoesOn
<1>4. \A d \in Clients : ClientFine(d)'
  BY QuietFine, ClaimsShrink DEF InSync
<1> QED BY <1>1, <1>2, <1>3, <1>4 DEF InSync

(* A client that nobody sends anything *)
LEMMA UntouchedQuiet ==
  ASSUME IInv, NEW d \in Clients, TimeOk(d),
         phase'[d] = phase[d], sync'[d] = sync[d], barrier'[d] = barrier[d], mc'[d] = mc[d],
         cmdQ'[d] = cmdQ[d], up'[d] = up[d], sock'[d] = sock[d], down'[d] = down[d], sendq'[d] = sendq[d],
         sync'[Server] = sync[Server], stage' = "run" => stage = "run"
  PROVE  QuietFor(d)
<1>1. <<>> \in Seq(DownMsg) /\ down[d] \o <<>> = down[d] /\ Elements(<<>>) = {}
  BY DownTypes, NothingAtEnd DEF Elements
<1>2. Elements(sendq[d])' = Elements(sendq[d])
  BY DEF Elements
<1>3. \E u \in Seq(DownMsg) : down'[d] = down[d] \o u /\ Elements(u) \subseteq Elements(sendq[d])
  BY <1>1
<1> QED BY <1>2, <1>3 DEF QuietFor, TimeOk

(* A client that hears of a command for the next step, or of a step *)
LEMMA ToldQuiet ==
  ASSUME IInv, NEW d \in Clients, TimeOk(d),
         phase'[d] = phase[d], sync'[d] = sync[d], barrier'[d] = barrier[d], mc'[d] = mc[d],
         cmdQ'[d] = cmdQ[d], up'[d] = up[d], sock'[d] = sock[d], down'[d] = down[d],
         NEW m, SendAll(m), m.type # "SYNC", Checked(m)', Acts(m) => m.step = sync'[Server] + 1,
         sync'[Server] = sync[Server] \/ sendq[d] = <<>>, stage' # "run"
  PROVE  QuietFor(d)
<1>1. <<>> \in Seq(DownMsg) /\ down[d] \o <<>> = down[d] /\ Elements(<<>>) = {}
  BY DownTypes, NothingAtEnd DEF Elements
<1>2. Elements(sendq[d])' \subseteq Elements(sendq[d]) \cup {m}
  <2>1. Elements(Append(sendq[d], m)) = Elements(sendq[d]) \cup {m}
    BY DownTypes, ElementsAppend
  <2>2. Elements(sendq[d])' = Elements(sendq'[d]) /\ sendq'[d] \in {sendq[d], Append(sendq[d], m)}
    BY DEF Elements, SendAll
  <2> QED BY <2>1, <2>2
<1>3. \E u \in Seq(DownMsg) : down'[d] = down[d] \o u /\ Elements(u) \subseteq Elements(sendq[d])
  BY <1>1
<1>4. \A x \in Elements(sendq[d]) : Acts(x) => x.step = sync'[Server] + 1
  BY <1>1 DEF TimeOk
<1>5. \A x \in Elements(sendq[d])' :
        /\ x \in Elements(sendq[d]) \/ (x.type # "SYNC" /\ (sock[d] = "playing" => Checked(x)'))
        /\ Acts(x) => x.step = sync'[Server] + 1
  <2> SUFFICES ASSUME NEW x \in Elements(sendq[d])', x \notin Elements(sendq[d])
               PROVE  /\ x.type # "SYNC" /\ (sock[d] = "playing" => Checked(x)')
                      /\ Acts(x) => x.step = sync'[Server] + 1
    BY <1>4
  <2>1. x = m
    BY <1>2
  <2>2. Checked(x)'
    BY <2>1 DEF Checked
  <2> QED BY <2>1, <2>2
<1> QED BY <1>3, <1>5 DEF QuietFor

LEMMA WorldIsKept ==
  ASSUME world'[Server] = world[Server]
  PROVE  \A t \in Int : t <= sync[Server] => WorldKept(t)
BY DEF WorldKept, ChecklistAt

LEMMA FineTimes ==
  ASSUME InSync, NEW d \in Clients
  PROVE  /\ PlaceOk(d) /\ JoinOk(d) /\ ReadyOk(d) /\ TimeOk(d) /\ SyncsOk(d) /\ CheckedOk(d) /\ KnownOk(d)
         /\ SlotsOk /\ LateOk /\ PendingOk /\ CountersOk
BY DEF InSync, ClientFine

LEMMA ToolSync ==
  ASSUME IInv, IInv', Agreement, InSync, SrvTool
  PROVE  InSync'
<1> DEFINE m == RequestMsg(sync[Server], mc[Server], lastCmd + 1, ChecklistAt(world[Server], sync[Server]))
<1>1. /\ rcvd' = Append(rcvd, FromServer(m)) /\ FromServer(m).msg = m /\ m.type = "REQUEST"
      /\ UNCHANGED <<nodeVars, stage, pending, mapCounters, sockVars, lastMc>>
  BY DEF SrvTool, FromServer, RequestMsg
<1> HIDE DEF m
<1>2. ToDo' = ToDo \cup {m}
  BY <1>1, ToDoForms DEF nodeVars
<1>3. \A z : z.type = "SYNC" => (z \in ToDo' <=> z \in ToDo)
  BY <1>1, <1>2
<1>4. NothingReceived
  BY <1>1, ReceivedForms
<1>5. GoesOn
  <2>1. sync[Server] <= sync'[Server] /\ (SyncDue => SyncDue')
    BY <1>1, NodesFacts DEF nodeVars, SyncDue, IInv, NodeInv
  <2> QED BY <1>1, <1>3, <1>4, <2>1, WorldIsKept DEF GoesOn, nodeVars, sockVars
<1>6. \A d \in Clients : QuietFor(d)
  BY <1>1, FineTimes, UntouchedQuiet DEF nodeVars, sockVars
<1>7. LateOk'
  BY <1>1, FineTimes DEF LateOk, nodeVars, sockVars, Due, InGame
<1> QED BY <1>1, <1>4, <1>5, <1>6, <1>7, QuietStep DEF sockVars

LEMMA LoopSync ==
  ASSUME IInv, IInv', Agreement, InSync, SrvLoop
  PROVE  InSync'
<1>1. /\ UNCHANGED <<nodeVars, pending, mapCounters, rcvd, sockVars, lastMc>> /\ stage = "run"
      /\ stage' = "receive" /\ ~Due(Server)
  BY DEF SrvLoop, userVars
<1>2. ToDo' = ToDo /\ NothingReceived
  BY <1>1, ToDoForms, ReceivedForms DEF nodeVars
<1>5. GoesOn
  <2>1. sync[Server] <= sync'[Server] /\ ~SyncDue
    BY <1>1, SyncDueIsDue, NodesFacts DEF nodeVars, IInv, NodeInv
  <2> QED BY <1>1, <1>2, <2>1, WorldIsKept DEF GoesOn, nodeVars, sockVars
<1>6. \A d \in Clients : QuietFor(d)
  BY <1>1, FineTimes, UntouchedQuiet DEF nodeVars, sockVars
<1>7. LateOk'
  BY <1>1 DEF LateOk, nodeVars, Due
<1> QED BY <1>1, <1>2, <1>5, <1>6, <1>7, QuietStep DEF sockVars

LEMMA SendSync ==
  ASSUME Orderly, IInv, IInv', Agreement, InSync, SrvSend
  PROVE  InSync'
<1>1. /\ UNCHANGED <<nodeVars, pending, mapCounters, rcvd, sock, slot, up, lastMc>> /\ stage # "run"
      /\ stage' = "run"
  BY DEF SrvSend, userVars
<1>2. ToDo' = ToDo /\ NothingReceived
  BY <1>1, ToDoForms, ReceivedForms DEF nodeVars
<1>5. GoesOn
  <2>1. sync[Server] <= sync'[Server] /\ ~SyncDue
    BY <1>1, NodesFacts DEF nodeVars, IInv, NodeInv, SyncDue
  <2> QED BY <1>1, <1>2, <2>1, WorldIsKept DEF GoesOn, nodeVars
<1>6. ASSUME NEW d \in Clients PROVE QuietFor(d)
  <2>1. PICK some \in SUBSET Congested : Flush(some \cup (Clients \ Congested))
    BY DEF SrvSend
  <2>2. sendq'[d] = <<>> /\ down'[d] = (IF ~Gone(d) THEN down[d] \o sendq[d] ELSE down[d])
    BY <2>1 DEF Orderly, Flush
  <2>3. <<>> \in Seq(DownMsg) /\ down[d] \o <<>> = down[d] /\ Elements(<<>>) = {} /\ sendq[d] \in Seq(DownMsg)
    BY DownTypes, NothingAtEnd DEF Elements
  <2>4. \E u \in Seq(DownMsg) : down'[d] = down[d] \o u /\ Elements(u) \subseteq Elements(sendq[d])
    <3>1. CASE Gone(d)
      BY <2>2, <2>3, <3>1
    <3>2. CASE ~Gone(d)
      BY <2>2, <2>3, <3>2
    <3> QED BY <3>1, <3>2
  <2>5. Elements(sendq[d])' = {}
    BY <2>2, <2>3 DEF Elements
  <2> QED BY <1>1, <2>2, <2>4, <2>5 DEF QuietFor, nodeVars
<1>7. LateOk'
  BY <1>1 DEF LateOk
<1> QED BY <1>1, <1>2, <1>5, <1>6, <1>7, QuietStep

LEMMA StepSync ==
  ASSUME IInv, IInv', Agreement, InSync, SrvStep
  PROVE  InSync'
<1> DEFINE s == sync[Server] + 1
<1>1. /\ UNCHANGED <<phase, mc, world, cmdQ, barrier, pending, mapCounters, rcvd, sock, slot, up, down, lastMc>>
      /\ stage = "run" /\ stage' = "receive" /\ ~Due(Server) /\ sync' = [sync EXCEPT ![Server] = s]
  BY DEF SrvStep, userVars
<1>2. ToDo' = ToDo /\ NothingReceived
  BY <1>1, ToDoForms, ReceivedForms
<1>3. sync[Server] \in Nat /\ sync'[Server] = s /\ \A d \in Clients : sync'[d] = sync[d] /\ barrier[d] <= sync[Server]
                                                                   /\ barrier[d] \in Nat
  BY <1>1, NodesFacts DEF IInv, NodeInv
<1>5. GoesOn
  <2>1. ~SyncDue
    BY <1>1, SyncDueIsDue
  <2> QED BY <1>1, <1>2, <1>3, <2>1, WorldIsKept DEF GoesOn
<1> DEFINE Right(x) == x.type \in {"CHECK", "TOOL"} =>
             0 < x.step /\ x.step <= sync'[Server] + 1 /\ x.chk = ChecklistAt(world'[Server], x.step - 1)
<1>4. PICK m : SendAll(m) /\ m.type \in {"CHECK", "STEP"} /\ Right(m)
  <2>1. CASE SendAll(CheckMsg(s + 1, mc[Server], ChecklistAt(world[Server], s)))
    <3> DEFINE k == CheckMsg(s + 1, mc[Server], ChecklistAt(world[Server], s))
    <3>1. k.type = "CHECK" /\ k.step = s + 1 /\ k.chk = ChecklistAt(world[Server], s)
      BY DEF CheckMsg
    <3>2. k.step - 1 = s /\ 0 < k.step /\ k.step <= sync'[Server] + 1
      BY <1>3, <3>1
    <3>3. k.chk = ChecklistAt(world'[Server], k.step - 1)
      BY <1>1, <3>1, <3>2
    <3> HIDE DEF k
    <3>4. Right(k) /\ SendAll(k)
      BY <2>1, <3>2, <3>3 DEF k
    <3> QED BY <3>1, <3>4
  <2>2. CASE SendAll(StepMsg(s))
    BY <2>2 DEF StepMsg
  <2> QED BY <2>1, <2>2 DEF SrvStep
<1>6. SendAll(m) /\ m.type \in {"CHECK", "STEP"} /\ Checked(m)'
  BY <1>4 DEF Checked
<1>7. ASSUME NEW d \in Clients PROVE QuietFor(d)
  <2>1. sendq[d] = <<>> /\ TimeOk(d)
    BY <1>1, FineTimes DEF TimeOk
  <2> QED BY <1>1, <1>3, <1>6, <2>1, ToldQuiet DEF Acts
<1>8. LateOk'
  <2> SUFFICES ASSUME NEW c \in Clients
               PROVE  /\ barrier'[c] < sync'[Server]
                      /\ \A x \in Elements(down[c])' : IsNews(x) => Told(x) < sync'[Server]
    BY DEF LateOk
  <2>1. barrier'[c] < sync'[Server]
    BY <1>1, <1>3
  <2>2. \A x \in Elements(down[c]) : x \in DownMsg /\ Reached(x, sync[Server])
    BY WaitingTypes DEF DownMsgTo
  <2>3. \A x \in Elements(down[c]) : IsNews(x) => Told(x) \in Int /\ Told(x) <= sync[Server]
    BY <1>3, <2>2, NewsReached
  <2>4. Elements(down[c])' = Elements(down[c])
    BY <1>1 DEF Elements
  <2> QED BY <1>3, <2>1, <2>3, <2>4
<1> QED BY <1>1, <1>2, <1>5, <1>7, <1>8, QuietStep

(* What the server executes is something that its sender has said *)
LEMMA HeadIsClaim ==
  ASSUME IInv, rcvd # <<>>
  PROVE  /\ Head(rcvd) = rcvd[1] /\ 1 \in DOMAIN rcvd
         /\ \A c \in Clients : Head(rcvd).from = c => Head(rcvd).msg \in Claims(c) /\ Head(rcvd).msg \in Sent(c)
         /\ Head(rcvd).msg \in ToDo
<1>1. rcvd \in Seq(ReceivedTo(sync[Server]))
  BY DEF IInv, ServerInv
<1>2. Head(rcvd) = rcvd[1] /\ 1 \in DOMAIN rcvd
  BY <1>1
<1> QED BY <1>2 DEF Claims, From, Sent, ToDo

LEMMA RequestSync ==
  ASSUME IInv, IInv', Agreement, InSync, rcvd # <<>>, Head(rcvd).msg.type = "REQUEST", stage # "run",
         stage' = "execute", ExecuteRequest(Head(rcvd).from, Head(rcvd).msg)
  PROVE  InSync'
<1> DEFINE m == Head(rcvd).msg
           tool == ToolMsg(sync[Server] + 1, m.mc, m.cmd, ChecklistAt(world[Server], sync[Server]))
<1>1. Head(rcvd).from \in Clients => m.chk = ChecklistAt(world[Server], m.step)
  BY HeadIsClaim, FineTimes DEF CheckedOk
<1>2. Head(rcvd).from \in Clients \cup {Server}
  BY HeadOfReceived
<1>3. /\ UNCHANGED <<nodeVars, pending, mapCounters, sock, slot, up, down, lastMc>>
      /\ \/ rcvd' = Tail(rcvd) /\ sendq' = sendq
         \/ SendAll(tool) /\ rcvd' = Append(Tail(rcvd), FromServer(tool))
  BY <1>1, <1>2 DEF ExecuteRequest, userVars
<1>4. tool.type = "TOOL" /\ tool.step = sync[Server] + 1 /\ tool.chk = ChecklistAt(world[Server], sync[Server])
      /\ FromServer(tool).msg = tool
  BY DEF ToolMsg, FromServer
<1>5. sync[Server] \in Nat
  BY NodesFacts DEF IInv, NodeInv
<1> HIDE DEF tool
<1>6. NothingReceived
  BY <1>3, ReceivedForms
<1>7. \A z : z.type = "SYNC" => (z \in ToDo' <=> z \in ToDo)
  <2>1. CASE rcvd' = Tail(rcvd)
    <3>1. ToDo = ToDo' \cup {m}
      BY <1>3, <2>1, ToDoForms DEF nodeVars
    <3> QED BY <3>1
  <2>2. CASE rcvd' = Append(Tail(rcvd), FromServer(tool))
    <3>1. ToDo' \cup {m} = ToDo \cup {tool}
      BY <1>3, <1>4, <2>2, ToDoForms DEF nodeVars
    <3> QED BY <1>4, <3>1
  <2> QED BY <1>3, <2>1, <2>2
<1>8. GoesOn
  <2>1. sync[Server] <= sync'[Server] /\ ~SyncDue
    BY <1>3, <1>5 DEF nodeVars, SyncDue
  <2> QED BY <1>3, <1>6, <1>7, <2>1, WorldIsKept DEF GoesOn, nodeVars
<1> DEFINE Right(x) == x.type \in {"CHECK", "TOOL"} =>
             0 < x.step /\ x.step <= sync'[Server] + 1 /\ x.chk = ChecklistAt(world'[Server], x.step - 1)
<1>9. Right(tool)
  <2>1. tool.step - 1 = sync[Server] /\ 0 < tool.step /\ sync'[Server] = sync[Server] /\ world' = world
    <3>1. sync' = sync /\ world' = world
      BY <1>3 DEF nodeVars
    <3> QED BY <1>4, <1>5, <3>1
  <2> QED BY <1>4, <1>5, <2>1
<1>10. \/ sendq' = sendq
       \/ \E x : SendAll(x) /\ x.type = "TOOL" /\ x.step = sync[Server] + 1 /\ Right(x)
  BY <1>3, <1>4, <1>9
<1>11. ASSUME NEW d \in Clients PROVE QuietFor(d)
  <2>1. CASE sendq' = sendq
    BY <1>3, <2>1, FineTimes, UntouchedQuiet DEF nodeVars
  <2>2. CASE sendq' # sendq
    <3>1. PICK x : SendAll(x) /\ x.type = "TOOL" /\ x.step = sync[Server] + 1 /\ Right(x)
      BY <1>10, <2>2
    <3>2. Checked(x)'
      BY <3>1 DEF Checked
    <3>3. sync'[Server] = sync[Server]
      BY <1>3 DEF nodeVars
    <3> QED BY <1>3, <3>1, <3>2, <3>3, FineTimes, ToldQuiet DEF nodeVars
  <2> QED BY <2>1, <2>2
<1>12. LateOk'
  BY <1>3, FineTimes DEF LateOk, nodeVars, Due, InGame
<1> QED BY <1>3, <1>6, <1>8, <1>11, <1>12, QuietStep

LEMMA WorldCommandSync ==
  ASSUME IInv, IInv', Agreement, InSync, rcvd # <<>>, Acts(Head(rcvd).msg), stage # "run",
         stage' = "execute", ExecuteWorldCommand(Head(rcvd).msg)
  PROVE  InSync'
<1> DEFINE m == Head(rcvd).msg
           q == cmdQ[Server]
<1>1. /\ UNCHANGED <<sync, mc, world, barrier, pending, mapCounters, sockVars, lastMc>>
      /\ rcvd' = Tail(rcvd) /\ phase' = phase
      /\ m.mc = mc[Server] => cmdQ'[Server] = Append(q, m)
      /\ m.mc # mc[Server] => cmdQ' = cmdQ
      /\ \A d \in Clients : cmdQ'[d] = cmdQ[d]
  <2>1. ServerOk
    BY DEF Agreement
  <2>2. ~(m.step < sync[Server]) /\ sync[Server] \in Nat
    <3>1. m.step = sync[Server] + 1
      BY <2>1, HeadExpected DEF Expected
    <3> QED BY <3>1, NodesFacts DEF IInv, NodeInv
  <2>3. \A d \in Clients : cmdQ'[d] = cmdQ[d]
    BY <2>2, NodesFacts DEF ExecuteWorldCommand, IInv, NodeInv
  <2> QED BY <2>1, <2>3, WorldCommandEffect DEF ExecuteWorldCommand, userVars
<1>2. m \in WorldCommand /\ m.step = sync[Server] + 1 /\ sync[Server] \in Nat /\ q \in Seq(WorldCommand)
  BY HeadExpected, NodesFacts DEF Agreement, Expected, IInv, NodeInv
<1>3. NothingReceived
  BY <1>1, ReceivedForms
<1>4. m.type = "SYNC" => m.mc = mc[Server]
  BY HeadIsClaim DEF InSync, PendingOk
<1>5. \A z : z.type = "SYNC" => (z \in ToDo' <=> z \in ToDo)
  <2> DEFINE rest == {rcvd'[i].msg : i \in DOMAIN rcvd'}
             all == {rcvd[i].msg : i \in DOMAIN rcvd}
  <2>1. all = rest \cup {m}
    <3>1. all = {y.msg : y \in Elements(rcvd)} /\ rest = {y.msg : y \in Elements(Tail(rcvd))}
      BY <1>1 DEF Elements
    <3>2. Elements(rcvd) = Elements(Tail(rcvd)) \cup {Head(rcvd)}
      BY ElementsFirst DEF IInv, ServerInv
    <3> QED BY <3>1, <3>2
  <2>2. ToDo = Elements(q) \cup all /\ ToDo' = Elements(cmdQ'[Server]) \cup rest
    BY DEF ToDo, Elements
  <2>3. Elements(Append(q, m)) = Elements(q) \cup {m}
    BY <1>2, ElementsAppend
  <2> HIDE DEF rest, all
  <2>4. CASE m.mc = mc[Server]
    BY <1>1, <2>1, <2>2, <2>3, <2>4
  <2>5. CASE m.mc # mc[Server]
    BY <1>1, <1>4, <2>1, <2>2, <2>5
  <2> QED BY <2>4, <2>5
<1>6. GoesOn
  <2>1. sync[Server] <= sync'[Server] /\ ~SyncDue
    BY <1>1, <1>2 DEF SyncDue
  <2> QED BY <1>1, <1>3, <1>5, <2>1, WorldIsKept DEF GoesOn, sockVars
<1>7. \A d \in Clients : QuietFor(d)
  BY <1>1, FineTimes, UntouchedQuiet DEF sockVars
<1>8. Due(Server)' => Due(Server)
  <2> SUFFICES ASSUME Due(Server)' PROVE Due(Server)
    OBVIOUS
  <2>1. cmdQ'[Server] # <<>> /\ Head(cmdQ'[Server]).step <= sync[Server]
    BY <1>1 DEF Due
  <2>2. CASE q = <<>>
    <3>1. Head(Append(q, m)) = m
      BY <1>2, <2>2
    <3> QED BY <1>1, <1>2, <2>1, <2>2, <3>1
  <2>3. CASE q # <<>>
    <3>1. Head(Append(q, m)) = Head(q)
      BY <1>2, <2>3
    <3> QED BY <1>1, <2>1, <2>3, <3>1 DEF Due
  <2> QED BY <2>2, <2>3
<1>9. LateOk'
  BY <1>1, <1>8, FineTimes DEF LateOk, sockVars, InGame
<1> QED BY <1>1, <1>3, <1>6, <1>7, <1>9, QuietStep DEF sockVars

(* The server executes a tool *)
LEMMA DrainToolSync ==
  ASSUME IInv, IInv', Agreement, InSync, stage = "run", Due(Server), Head(cmdQ[Server]).type = "TOOL",
         Execute(Server, Head(cmdQ[Server])), cmdQ' = [cmdQ EXCEPT ![Server] = Tail(@)],
         UNCHANGED <<phase, sync, mc, barrier, serverVars, sockVars, userVars>>
  PROVE  InSync'
<1> DEFINE m == Head(cmdQ[Server])
           e == [cmd |-> m.cmd, step |-> sync[Server]]
<1>1. /\ UNCHANGED <<phase, sync, mc, barrier, stage, pending, mapCounters, rcvd, sockVars, lastMc>>
      /\ cmdQ'[Server] = Tail(cmdQ[Server]) /\ \A d \in Clients : cmdQ'[d] = cmdQ[d]
      /\ world'[Server] = Append(world[Server], e)
  BY NodesFacts DEF serverVars, userVars, Execute, IInv, NodeInv
<1>2. cmdQ[Server] \in Seq(WorldCommand) /\ cmdQ[Server] # <<>> /\ sync[Server] \in Nat /\ world[Server] \in World
      /\ m.cmd \in Nat
  BY HeadOfQueue, NodesFacts DEF IInv, NodeInv, Due
<1>3. Elements(cmdQ[Server]) = Elements(cmdQ'[Server]) \cup {m}
  BY <1>1, <1>2, ElementsFirst
<1>4. NothingReceived
  BY <1>1, ReceivedForms
<1>5. \A z : z.type = "SYNC" => (z \in Elements(cmdQ'[Server]) <=> z \in Elements(cmdQ[Server]))
  BY <1>3
<1>6. \A z : z.type = "SYNC" => (z \in ToDo' <=> z \in ToDo)
  <2>1. ToDo = Elements(cmdQ[Server]) \cup {rcvd[i].msg : i \in DOMAIN rcvd}
        /\ ToDo' = Elements(cmdQ'[Server]) \cup {rcvd[i].msg : i \in DOMAIN rcvd}
    BY <1>1 DEF ToDo, Elements
  <2> QED BY <1>5, <2>1
<1>7. SyncDue => SyncDue'
  <2>1. Elements(cmdQ[Server])' = Elements(cmdQ'[Server])
    BY DEF Elements
  <2> QED BY <1>1, <1>5, <2>1 DEF SyncDue
<1>8. \A t \in Int : t <= sync[Server] => WorldKept(t)
  <2>1. e \in Entry /\ e.step = sync[Server]
    BY <1>2 DEF Entry
  <2>2. \A t \in Int : t <= sync[Server] => ChecklistAt(Append(world[Server], e), t) = ChecklistAt(world[Server], t)
    BY <1>2, <2>1, ChecklistKept
  <2> QED BY <1>1, <2>2 DEF WorldKept, ChecklistAt
<1>9. GoesOn
  BY <1>1, <1>2, <1>4, <1>6, <1>7, <1>8 DEF GoesOn, sockVars
<1>10. \A d \in Clients : QuietFor(d)
  BY <1>1, FineTimes, UntouchedQuiet DEF sockVars
<1>11. LateOk'
  BY <1>1 DEF LateOk
<1> QED BY <1>1, <1>4, <1>9, <1>10, <1>11, QuietStep DEF sockVars

-----------------------------------------------------------------------------
(* The server accepts and reads *)

(* A client that gets at most an answer keeps the parts of the invariant that do not speak of its     *)
(* socket                                                                                            *)
LEMMA AnsweredFine ==
  ASSUME IInv, IInv', GoesOn, NEW d \in Clients, ClientFine(d),
         phase'[d] = phase[d], sync'[d] = sync[d], barrier'[d] = barrier[d], mc'[d] = mc[d],
         cmdQ'[d] = cmdQ[d], sendq'[d] = sendq[d], Sent(d)' \subseteq Sent(d),
         sync'[Server] = sync[Server], stage' = "run" => stage = "run",
         sock'[d] = "playing" <=> sock[d] = "playing",
         NEW u \in Seq(DownMsg), down'[d] = down[d] \o u,
         \A m \in Elements(u) : m # JoinReply(TRUE) /\ m.type \in {"JOIN", "READY"}
  PROVE  JoinOk(d)' /\ TimeOk(d)' /\ SyncsOk(d)' /\ CheckedOk(d)'
<1>1. PlaceOk(d) /\ JoinOk(d) /\ ReadyOk(d) /\ TimeOk(d) /\ SyncsOk(d) /\ CheckedOk(d) /\ KnownOk(d)
  BY DEF ClientFine
<1>2. Elements(down[d])' = Elements(down[d]) \cup Elements(u)
  <2>1. Elements(down[d] \o u) = Elements(down[d]) \cup Elements(u)
    BY DownTypes, ElementsConcat
  <2>2. Elements(down[d])' = Elements(down'[d])
    BY DEF Elements
  <2> QED BY <2>1, <2>2
<1>3. Elements(sendq[d])' = Elements(sendq[d]) /\ \A m \in Waiting(d)' : m \in Waiting(d) \/ m.type # "SYNC"
  <2>1. Elements(sendq[d])' = Elements(sendq[d]) /\ Elements(cmdQ[d])' = Elements(cmdQ[d])
    BY DEF Elements
  <2> QED BY <1>2, <2>1 DEF Waiting
<1>4. \A m \in Elements(u) : m # JoinReply(TRUE) /\ m.type # "GAME" /\ ~Acts(m) /\ m.type \notin {"CHECK", "TOOL"}
  BY DEF Acts
<1>5. JoinOk(d)'
  BY <1>1, <1>4, JoinStays DEF GoesOn
<1>6. TimeOk(d)'
  <2>1. \A m \in Elements(sendq[d])' : Acts(m) => m.step = sync'[Server] + 1
    BY <1>1, <1>3 DEF TimeOk
  <2>2. stage' = "run" => sendq'[d] = <<>>
    BY <1>1 DEF TimeOk
  <2>3. \A i \in DOMAIN u : ~Acts(u[i])
    BY <1>4 DEF Elements
  <2>4. \A i, j \in DOMAIN u : i < j /\ IsNews(u[i]) /\ Acts(u[j]) => Told(u[i]) < u[j].step
    BY <2>3
  <2> QED BY <1>1, <1>4, <2>1, <2>2, <2>4, TimeStays
<1>7. SyncsOk(d)'
  <2>1. lastMc <= lastMc' /\ \A z \in ToDo : z.type = "SYNC" => \E y \in ToDo' : y.type = "SYNC" /\ y.step = z.step
    BY DEF GoesOn, IInv, UserInv
  <2> QED BY <1>1, <1>3, <2>1, SyncsStay DEF GoesOn
<1>8. CheckedOk(d)'
  <2>1. \A m \in Elements(u) : m.type # "GAME" /\ (sock[d] = "playing" => Checked(m)')
    BY <1>4 DEF Checked
  <2> QED BY <1>1, <1>3, <2>1, CheckedStays DEF GoesOn
<1> QED BY <1>5, <1>6, <1>7, <1>8

LEMMA UntoldFine ==
  ASSUME IInv, IInv', GoesOn, NEW d \in Clients, ClientFine(d),
         phase'[d] = phase[d], sync'[d] = sync[d], barrier'[d] = barrier[d], mc'[d] = mc[d],
         cmdQ'[d] = cmdQ[d], down'[d] = down[d], sendq'[d] = sendq[d], Sent(d)' \subseteq Sent(d),
         sync'[Server] = sync[Server], stage' = "run" => stage = "run",
         sock'[d] = "playing" <=> sock[d] = "playing"
  PROVE  /\ JoinOk(d)' /\ TimeOk(d)' /\ SyncsOk(d)' /\ CheckedOk(d)'
         /\ <<>> \in Seq(DownMsg) /\ down'[d] = down[d] \o <<>> /\ \A m \in Elements(<<>>) : m.type # "READY"
<1>1. <<>> \in Seq(DownMsg) /\ down'[d] = down[d] \o <<>> /\ \A m : m \notin Elements(<<>>)
  BY DownTypes, NothingAtEnd DEF Elements
<1> QED BY <1>1, AnsweredFine

LEMMA AcceptSync ==
  ASSUME IInv, IInv', Agreement, InSync, NEW c \in Clients, SrvAccept(c)
  PROVE  InSync'
<1>1. /\ UNCHANGED <<nodeVars, stage, pending, mapCounters, rcvd, sendq, up, down, lastMc>>
      /\ sock[c] = "backlog" /\ sock' = [sock EXCEPT ![c] = "connected"]
      /\ \E n \in Nat : n \notin {slot[d] : d \in {e \in Clients : Open(e)}} /\ slot' = [slot EXCEPT ![c] = n]
  <2>1. PICK n \in 1..MaxSlot : n \notin left \cup {slot[d] : d \in {e \in Clients : Open(e)}}
                                /\ slot' = [slot EXCEPT ![c] = n]
    BY DEF SrvAccept
  <2>2. n \in Nat
    BY <2>1, BoundsAssumption
  <2> QED BY <2>1, <2>2 DEF SrvAccept, serverVars, userVars
<1>2. ToDo' = ToDo /\ NothingReceived
  BY <1>1, ToDoForms, ReceivedForms DEF nodeVars
<1>3. GoesOn
  <2>1. sync[Server] <= sync'[Server] /\ (SyncDue => SyncDue')
    BY <1>1, NodesFacts DEF nodeVars, SyncDue, IInv, NodeInv
  <2> QED BY <1>1, <1>2, <2>1, WorldIsKept DEF GoesOn, nodeVars
<1>4. PlaceOk(c) /\ pending # c
  BY <1>1, FineTimes DEF PlaceOk
<1>5. sock \in [Clients -> {"none", "backlog", "connected", "playing", "kicked"}] /\ slot \in [Clients -> Nat]
  BY DEF IInv, SockInv
<1>6. SlotsOk'
  <2>1. PICK n \in Nat : n \notin {slot[d] : d \in {e \in Clients : Open(e)}} /\ slot' = [slot EXCEPT ![c] = n]
    BY <1>1
  <2>2. slot'[c] = n /\ \A d \in Clients : d # c => slot'[d] = slot[d] /\ (Open(d)' <=> Open(d))
    BY <1>1, <1>5, <2>1 DEF Open
  <2>3. \A d \in Clients : Open(d) => slot[d] # n
    BY <2>1
  <2> QED BY <2>2, <2>3 DEF InSync, SlotsOk
<1>7. CountersOk'
  BY <1>1, <1>5, CountersStay DEF InSync, nodeVars
<1>8. PendingOk'
  <2>1. pending # NoClient => slot'[pending] = slot[pending]
    BY <1>1, <1>4, <1>5
  <2> QED BY <1>1, <1>2, <2>1, PendingStays DEF InSync, nodeVars
<1>9. LateOk'
  BY <1>1, FineTimes DEF LateOk, nodeVars, Due, InGame
<1>10. ASSUME NEW d \in Clients, d # c PROVE ClientFine(d)'
  <2>1. QuietFor(d)
    BY <1>1, <1>5, <1>10, FineTimes, UntouchedQuiet DEF nodeVars
  <2> QED BY <1>2, <1>3, <2>1, QuietFine, ClaimsShrink DEF InSync
<1>11. ClientFine(c)'
  <2>1. Claims(c)' = Claims(c) /\ Sent(c)' = Sent(c) /\ Waiting(c)' = Waiting(c) /\ (Asking(c)' <=> Asking(c))
        /\ Elements(up[c])' = Elements(up[c]) /\ Elements(down[c])' = Elements(down[c])
    BY <1>1 DEF Claims, Sent, Waiting, Asking, From, Elements, nodeVars
  <2>2. sock'[c] = "connected" /\ phase'[c] = phase[c] /\ phase[c] = "join" /\ pending' = pending
    BY <1>1, <1>4, <1>5 DEF PlaceOk, nodeVars
  <2>3. PlaceOk(c)'
    BY <1>1, <1>4, <2>1, <2>2 DEF PlaceOk, InGame
  <2>4. /\ JoinOk(c)' /\ TimeOk(c)' /\ SyncsOk(c)' /\ CheckedOk(c)'
        /\ <<>> \in Seq(DownMsg) /\ down'[c] = down[c] \o <<>> /\ \A m \in Elements(<<>>) : m.type # "READY"
    BY <1>1, <1>3, <2>1, <2>2, UntoldFine DEF InSync, nodeVars
  <2>5. ReadyOk(c) /\ KnownOk(c)
    BY FineTimes
  <2>6. ReadyOk(c)'
    <3>1. \A i \in DOMAIN up'[c] : up'[c][i].type = "READY" =>
            /\ \A j \in DOMAIN up'[c] : up'[c][j].type = "READY" => j = i
            /\ \A m \in Claims(c)' : m.type # "READY"
      BY <1>1, <2>1, <2>5 DEF ReadyOk
    <3> QED BY <1>1, <2>1, <2>4, <2>5, <3>1, ReadyStays DEF nodeVars
  <2>7. KnownOk(c)'
    <3>1. lastMc <= lastMc' /\ mc[Server] <= mc'[Server]
      BY <1>1, NodesFacts DEF nodeVars, IInv, NodeInv, UserInv
    <3> QED BY <1>1, <1>3, <2>1, <2>5, <3>1, KnownStays DEF nodeVars, GoesOn
  <2> QED BY <2>3, <2>4, <2>6, <2>7 DEF ClientFine
<1> QED BY <1>6, <1>7, <1>8, <1>9, <1>10, <1>11 DEF InSync

(* Nothing is left of a client that has gone *)
LEMMA GoneFine ==
  ASSUME IInv', NEW c \in Clients, phase'[c] = "out", sock'[c] = "none", up'[c] = <<>>, down'[c] = <<>>,
         sendq'[c] = <<>>, cmdQ'[c] = <<>>, From(c)' = {}, pending' # c
  PROVE  ClientFine(c)'
<1>1. Elements(up[c])' = {} /\ Elements(down[c])' = {} /\ Elements(sendq[c])' = {} /\ Elements(cmdQ[c])' = {}
      /\ DOMAIN down'[c] = {} /\ DOMAIN up'[c] = {}
  BY DEF Elements
<1>2. Claims(c)' = {} /\ Sent(c)' = {} /\ Waiting(c)' = {} /\ ~Asking(c)' /\ ~InGame(c)'
  BY <1>1 DEF Claims, Sent, Waiting, Asking, InGame
<1>3. PlaceOk(c)' /\ JoinOk(c)' /\ ReadyOk(c)'
  BY <1>1, <1>2 DEF PlaceOk, JoinOk, ReadyOk
<1>4. TimeOk(c)' /\ SyncsOk(c)' /\ CheckedOk(c)' /\ KnownOk(c)'
  BY <1>1, <1>2 DEF TimeOk, SyncsOk, CheckedOk, KnownOk
<1> QED BY <1>3, <1>4 DEF ClientFine

LEMMA ReceiveSync ==
  ASSUME IInv, IInv', Agreement, Agreement', InSync, NEW c \in Clients, SrvReceive(c)
  PROVE  InSync'
<1>1. /\ UNCHANGED <<nodeVars, stage, mapCounters, slot, lastMc>> /\ stage = "receive"
      /\ Open(c) /\ up[c] # <<>> /\ From(c) = {}
  BY DEF SrvReceive, userVars, From
<1>2. sock \in [Clients -> {"none", "backlog", "connected", "playing", "kicked"}] /\ up \in [Clients -> Seq(UpMsgTo(sync[Server]))]
      /\ sync[Server] \in Nat /\ mc[Server] \in Nat /\ lastMc \in Nat
  BY NodesFacts DEF IInv, SockInv, NodeInv, UserInv
<1>3. /\ PlaceOk(c) /\ ReadyOk(c) /\ TimeOk(c) /\ KnownOk(c) /\ SockFine(c)
  BY FineTimes DEF Agreement
<1>4. Head(up[c]) = up[c][1] /\ 1 \in DOMAIN up[c] /\ Head(up[c]) \in Elements(up[c]) /\ Head(up[c]) \in UpMsgTo(sync[Server])
      /\ Tail(up[c]) \in Seq(UpMsgTo(sync[Server])) /\ Elements(up[c]) = Elements(Tail(up[c])) \cup {Head(up[c])}
      /\ \A i \in DOMAIN Tail(up[c]) : i \in Nat /\ i + 1 \in DOMAIN up[c] /\ Tail(up[c])[i] = up[c][i + 1]
  <2>1. up[c] \in Seq(UpMsgTo(sync[Server]))
    BY <1>2
  <2>2. Elements(up[c]) \subseteq UpMsgTo(sync[Server])
    BY <2>1, ElementsOf
  <2>3. /\ Head(up[c]) = up[c][1] /\ 1 \in DOMAIN up[c] /\ Tail(up[c]) \in Seq(UpMsgTo(sync[Server]))
        /\ \A i \in DOMAIN Tail(up[c]) : i \in Nat /\ i + 1 \in DOMAIN up[c] /\ Tail(up[c])[i] = up[c][i + 1]
        /\ Head(up[c]) \in Elements(up[c]) /\ Elements(up[c]) = Elements(Tail(up[c])) \cup {Head(up[c])}
    BY <1>1, <2>1, ElementsFirst
  <2> QED BY <2>2, <2>3
<1>5. CASE Head(up[c]) = EofMsg
  <2>1. phase[c] = "out" /\ sock[c] = "connected" /\ pending # c
    BY <1>1, <1>3, <1>4, <1>5 DEF PlaceOk, EofMsg, Open
  <2>2. RemoveClient(c, "none") /\ rcvd' = rcvd
    BY <1>5 DEF SrvReceive
  <2>3. pending' = pending /\ sock' = [sock EXCEPT ![c] = "none"] /\ sendq' = [sendq EXCEPT ![c] = <<>>]
        /\ up' = [up EXCEPT ![c] = <<>>] /\ down' = down
    <3>1. down \in [Clients -> Seq(DownMsgTo(sync[Server]))]
      BY DEF IInv, SockInv
    <3> QED BY <2>1, <2>2, <3>1 DEF RemoveClient, Direct, Gone
  <2>4. ToDo' = ToDo /\ NothingReceived
    BY <1>1, <2>2, ToDoForms, ReceivedForms DEF nodeVars
  <2>5. GoesOn
    <3>1. sync[Server] <= sync'[Server] /\ ~SyncDue
      BY <1>1, <1>2 DEF nodeVars, SyncDue
    <3> QED BY <1>1, <2>3, <2>4, <3>1, WorldIsKept DEF GoesOn, nodeVars
  <2>6. SlotsOk'
    BY <1>1, <1>2, <2>3, SlotsStay DEF InSync, Open
  <2>7. CountersOk'
    BY <1>1, <1>2, <2>1, <2>3, CountersStay DEF InSync, nodeVars
  <2>8. PendingOk'
    BY <1>1, <2>3, <2>4, PendingStays DEF InSync, nodeVars
  <2>9. LateOk'
    BY <1>1, <2>3, FineTimes DEF LateOk, nodeVars, Due, InGame
  <2>10. ASSUME NEW d \in Clients, d # c PROVE ClientFine(d)'
    <3>1. QuietFor(d)
      BY <1>1, <1>2, <2>3, <2>10, FineTimes, UntouchedQuiet DEF nodeVars, IInv, SockInv
    <3> QED BY <2>4, <2>5, <3>1, QuietFine, ClaimsShrink DEF InSync
  <2>11. ClientFine(c)'
    <3>1. phase'[c] = "out" /\ cmdQ'[c] = <<>> /\ down'[c] = <<>> /\ From(c)' = {}
      BY <1>1, <1>3, <2>1, <2>2, <2>3 DEF SockFine, Gone, nodeVars, From
    <3>2. sock'[c] = "none" /\ up'[c] = <<>> /\ sendq'[c] = <<>> /\ pending' # c
      BY <1>2, <2>1, <2>3 DEF IInv, SockInv
    <3> QED BY <3>1, <3>2, GoneFine
  <2> QED BY <2>6, <2>7, <2>8, <2>9, <2>10, <2>11 DEF InSync
<1>6. CASE Head(up[c]) # EofMsg
  <2> DEFINE m == Head(up[c])
             r == [from |-> c, msg |-> m]
  <2>1. /\ rcvd' = Append(rcvd, r) /\ up' = [up EXCEPT ![c] = Tail(@)] /\ r.msg = m /\ r.from = c
        /\ UNCHANGED <<pending, sock, sendq, down>>
    BY <1>6 DEF SrvReceive
  <2>2. m.type # "SYNC"
    BY <1>4, ClientMessages DEF UpMsgTo, Acts
  <2>3. ToDo' = ToDo \cup {m}
    <3> HIDE DEF r, m
    <3> QED BY <1>1, <2>1, ToDoForms DEF nodeVars
  <2>4. \A z : z.type = "SYNC" => (z \in ToDo' <=> z \in ToDo)
    BY <2>2, <2>3
  <2>5. GoesOn
    <3>1. sync[Server] <= sync'[Server] /\ ~SyncDue
      BY <1>1, <1>2 DEF nodeVars, SyncDue
    <3> QED BY <1>1, <2>1, <2>4, <3>1, WorldIsKept DEF GoesOn, nodeVars
  <2>6. SlotsOk'
    BY <1>1, <2>1, SlotsStay DEF InSync, Open
  <2>7. CountersOk'
    BY <1>1, <2>1, CountersStay DEF InSync, nodeVars
  <2>8. PendingOk'
    BY <1>1, <2>1, <2>4, PendingStays DEF InSync, nodeVars
  <2>9. LateOk'
    BY <1>1, <2>1, FineTimes DEF LateOk, nodeVars, Due, InGame
  <2>12. \A i \in DOMAIN rcvd' : (i \in DOMAIN rcvd /\ rcvd'[i] = rcvd[i]) \/ rcvd'[i] = r
    <3>1. rcvd \in Seq(ReceivedTo(sync[Server]))
      BY DEF IInv, ServerInv
    <3> HIDE DEF r
    <3> QED BY <2>1, <3>1, AppendElements
  <2>10. ASSUME NEW d \in Clients, d # c PROVE ClientFine(d)'
    <3>1. QuietFor(d)
      BY <1>1, <1>2, <2>1, <2>10, FineTimes, UntouchedQuiet DEF nodeVars
    <3>2. Claims(d)' \subseteq Claims(d)
      <4>1. \A i \in From(d)' : i \in From(d) /\ rcvd'[i] = rcvd[i]
        BY <2>1, <2>10, <2>12 DEF From
      <4> QED BY <4>1 DEF Claims
    <3> QED BY <2>5, <3>1, <3>2, QuietFine DEF InSync
  <2>11. ClientFine(c)'
    <3>1. Claims(c)' \subseteq {m}
      <4>1. \A i \in From(c)' : rcvd'[i] = r
        BY <1>1, <2>12 DEF From
      <4> QED BY <2>1, <4>1 DEF Claims
    <3>2. up'[c] = Tail(up[c]) /\ Elements(up[c])' = Elements(Tail(up[c]))
      BY <1>2, <2>1 DEF Elements
    <3>3. Elements(up[c])' \subseteq Elements(up[c]) /\ Sent(c)' \subseteq Sent(c)
      BY <1>4, <3>1, <3>2 DEF Sent
    <3>4. /\ JoinOk(c)' /\ TimeOk(c)' /\ SyncsOk(c)' /\ CheckedOk(c)'
          /\ <<>> \in Seq(DownMsg) /\ down'[c] = down[c] \o <<>> /\ \A x \in Elements(<<>>) : x.type # "READY"
      BY <1>1, <2>1, <2>5, <3>3, UntoldFine DEF InSync, nodeVars
    <3>5. PlaceOk(c)'
      <4>1. Elements(down[c])' = Elements(down[c]) /\ sock[c] # "backlog"
        BY <1>1, <2>1 DEF Elements, Open
      <4> QED BY <1>1, <1>3, <2>1, <3>3, <4>1, PlaceStays DEF nodeVars
    <3>6. ReadyOk(c)'
      <4>1. ASSUME NEW i \in DOMAIN Tail(up[c]), Tail(up[c])[i].type = "READY"
            PROVE  /\ \A j \in DOMAIN Tail(up[c]) : Tail(up[c])[j].type = "READY" => j = i
                   /\ \A x \in Claims(c)' : x.type # "READY"
        <5>1. i + 1 \in DOMAIN up[c] /\ up[c][i + 1].type = "READY" /\ i \in Nat
          BY <1>4, <4>1
        <5>2. \A j \in DOMAIN up[c] : up[c][j].type = "READY" => j = i + 1
          BY <1>3, <5>1 DEF ReadyOk
        <5>3. ASSUME NEW j \in DOMAIN Tail(up[c]), Tail(up[c])[j].type = "READY" PROVE j = i
          <6>1. j + 1 \in DOMAIN up[c] /\ up[c][j + 1].type = "READY" /\ j \in Nat
            BY <1>4, <5>3
          <6>2. j + 1 = i + 1
            BY <5>2, <6>1
          <6> QED BY <5>1, <6>1, <6>2
        <5>4. m.type # "READY"
          <6>1. i + 1 # 1
            BY <5>1, <1>4
          <6> QED BY <1>4, <5>2, <6>1
        <5> QED BY <3>1, <5>3, <5>4
      <4>2. \A i \in DOMAIN up'[c] : up'[c][i].type = "READY" =>
              /\ \A j \in DOMAIN up'[c] : up'[c][j].type = "READY" => j = i
              /\ \A x \in Claims(c)' : x.type # "READY"
        BY <3>2, <4>1
      <4>3. phase'[c] = phase[c] /\ mc'[c] = mc[c] /\ sync'[c] = sync[c] /\ cmdQ'[c] = cmdQ[c] /\ sock' = sock
        BY <1>1, <2>1 DEF nodeVars
      <4> HIDE DEF m, r
      <4> QED BY <1>3, <3>3, <3>4, <4>2, <4>3, ReadyStays
    <3>7. KnownOk(c)'
      <4>1. lastMc <= lastMc' /\ mc[Server] <= mc'[Server]
        BY <1>1, <1>2 DEF nodeVars
      <4> QED BY <1>1, <1>3, <1>4, <2>5, <3>1, <3>3, <4>1, KnownStays DEF nodeVars, GoesOn
    <3> QED BY <3>4, <3>5, <3>6, <3>7 DEF ClientFine
  <2> QED BY <2>6, <2>7, <2>8, <2>9, <2>10, <2>11 DEF InSync
<1> QED BY <1>5, <1>6

-----------------------------------------------------------------------------
(* The server answers a client that wants to join *)

LEMMA ElementsOne ==
  ASSUME NEW x
  PROVE  Elements(<<x>>) = {x}
BY DEF Elements

LEMMA ElementsTwo ==
  ASSUME NEW x, NEW y
  PROVE  Elements(<<x, y>>) = {x, y}
<1>1. DOMAIN <<x, y>> = {1, 2} /\ <<x, y>>[1] = x /\ <<x, y>>[2] = y
  OBVIOUS
<1> QED BY <1>1 DEF Elements

(* The one who asks is connected, asks once and waits for the reply *)
LEMMA Asker ==
  ASSUME IInv, Agreement, InSync, rcvd # <<>>, Head(rcvd).msg.type = "JOIN", NEW c \in Clients, Head(rcvd).from = c,
         rcvd' = Tail(rcvd) \/ \E m : rcvd' = Append(Tail(rcvd), FromServer(m)), up'[c] = up[c]
  PROVE  /\ Asking(c) /\ phase[c] = "join" /\ sock[c] = "connected" /\ pending # c
         /\ \A m \in Elements(down[c]) : m.type # "JOIN" /\ m.type # "GAME"
         /\ From(c)' = {} /\ Claims(c)' = {} /\ ~Asking(c)'
<1>1. PlaceOk(c) /\ JoinOk(c) /\ SockFine(c)
  BY FineTimes DEF Agreement
<1>2. Head(rcvd).msg \in Claims(c) /\ Head(rcvd).msg \in Sent(c)
  BY HeadIsClaim
<1>3. Asking(c)
  BY <1>2, AskingIsSent
<1>4. phase[c] = "join" /\ sock[c] = "connected" /\ pending # c
  <2>1. sock[c] \in {"none", "backlog", "connected", "playing", "kicked"}
    BY DEF IInv, SockInv
  <2> QED BY <1>1, <1>2, <1>3, <2>1 DEF PlaceOk
<1>5. \A m \in Elements(down[c]) : m.type # "JOIN" /\ m.type # "GAME"
  BY <1>1, <1>3, <1>4 DEF PlaceOk, JoinOk, Elements
<1>6. From(c)' = {} /\ 1 \in From(c) /\ rcvd[1] = Head(rcvd)
  BY <1>1, HeadIsAlone
<1>7. \A i \in DOMAIN up[c] : up[c][i].type # "JOIN"
  BY <1>1, <1>6 DEF SockFine
<1>8. Claims(c)' = {} /\ ~Asking(c)'
  BY <1>6, <1>7 DEF Claims, Asking
<1> QED BY <1>3, <1>4, <1>5, <1>6, <1>8

(* What stays of the invariant when c, which nobody has sent a game, is told u *)
LEMMA ReadyUntold ==
  ASSUME IInv, IInv', NEW c \in Clients, ReadyOk(c), KnownOk(c), phase'[c] = phase[c], mc'[c] = mc[c],
         sync'[c] = sync[c], cmdQ'[c] = cmdQ[c], up'[c] = up[c], Claims(c)' \subseteq Claims(c),
         sock[c] = "playing" => sock'[c] = "playing", lastMc <= lastMc', mc[Server] <= mc'[Server],
         SyncDue => SyncDue' \/ lastMc <= mc'[Server],
         NEW u \in Seq(DownMsg), down'[c] = down[c] \o u
  PROVE  KnownOk(c)' /\ ((\A m \in Elements(u) : m.type # "READY") => ReadyOk(c)')
<1>1. Elements(up[c])' = Elements(up[c]) /\ Sent(c)' \subseteq Sent(c)
  BY DEF Elements, Sent
<1>2. KnownOk(c)'
  BY <1>1, KnownStays
<1>3. \A i \in DOMAIN up'[c] : up'[c][i].type = "READY" =>
        /\ \A j \in DOMAIN up'[c] : up'[c][j].type = "READY" => j = i
        /\ \A x \in Claims(c)' : x.type # "READY"
  BY DEF ReadyOk
<1>4. (\A m \in Elements(u) : m.type # "READY") => ReadyOk(c)'
  BY <1>1, <1>3, ReadyStays
<1> QED BY <1>2, <1>4

LEMMA RefusedSync ==
  ASSUME IInv, IInv', Agreement, InSync, rcvd # <<>>, Head(rcvd).msg.type = "JOIN", stage # "run", stage' = "execute",
         NEW c \in Clients, Head(rcvd).from = c, ExecuteJoin(c), ~JoinPossible
  PROVE  InSync'
<1> DEFINE no == JoinReply(FALSE)
           u == <<no>>
<1>1. /\ Direct(c, u) /\ rcvd' = Tail(rcvd)
      /\ UNCHANGED <<nodeVars, pending, mapCounters, sock, slot, sendq, up, lastMc>>
  BY DEF ExecuteJoin, userVars
<1>2. /\ Asking(c) /\ phase[c] = "join" /\ sock[c] = "connected" /\ pending # c
      /\ \A m \in Elements(down[c]) : m.type # "JOIN" /\ m.type # "GAME"
      /\ From(c)' = {} /\ Claims(c)' = {} /\ ~Asking(c)'
  BY <1>1, Asker
<1>3. no.type = "JOIN" /\ no # JoinReply(TRUE) /\ no # EofMsg /\ u \in Seq(DownMsg)
      /\ \A m \in Elements(u) : m = no
  <2>1. \A m \in Elements(u) : m = no
    <3> HIDE DEF no
    <3> QED BY ElementsOne
  <2>2. no # JoinReply(TRUE) /\ no.type = "JOIN" /\ no # EofMsg
    <3>1. no.answer # JoinReply(TRUE).answer /\ no.type = "JOIN" /\ EofMsg.type = "EOF"
      BY DEF JoinReply, EofMsg
    <3> HIDE DEF no
    <3> QED BY <3>1
  <2>3. no \in DownMsg
    BY ReplyTypes
  <2>4. u \in Seq(DownMsg)
    <3> HIDE DEF no
    <3> QED BY <2>3
  <2> QED BY <2>1, <2>2, <2>4
<1> HIDE DEF no
<1>4. \A d \in Clients : down'[d] = down[d] \o (IF d = c /\ ~Gone(d) THEN u ELSE <<>>)
  BY <1>1, <1>3, DirectTells
<1>5. down'[c] = down[c] \o u /\ \A d \in Clients : d # c => down'[d] = down[d]
  <2>1. ~Gone(c)
    BY <1>2 DEF Gone
  <2>2. \A d \in Clients : down[d] \o <<>> = down[d]
    BY DownTypes, NothingAtEnd
  <2> QED BY <1>4, <2>1, <2>2
<1>6. NothingReceived
  BY <1>1, ReceivedForms
<1>7. \A z : z.type = "SYNC" => (z \in ToDo' <=> z \in ToDo)
  <2>1. ToDo = ToDo' \cup {Head(rcvd).msg}
    BY <1>1, ToDoForms DEF nodeVars
  <2> QED BY <2>1
<1>8. GoesOn
  <2>1. sync[Server] <= sync'[Server] /\ ~SyncDue
    BY <1>1, NodesFacts DEF nodeVars, SyncDue, IInv, NodeInv
  <2> QED BY <1>1, <1>7, <2>1, WorldIsKept DEF GoesOn, nodeVars
<1>9. SlotsOk'
  BY <1>1, SlotsStay DEF InSync, Open
<1>10. CountersOk'
  BY <1>1, CountersStay DEF InSync, nodeVars
<1>11. PendingOk'
  BY <1>1, <1>7, PendingStays DEF InSync, nodeVars
<1>12. Elements(down[c])' = Elements(down[c]) \cup {no}
  <2>1. Elements(down[c] \o u) = Elements(down[c]) \cup Elements(u)
    <3>1. down[c] \in Seq(DownMsg) /\ u \in Seq(DownMsg)
      BY <1>3, DownTypes
    <3> HIDE DEF u
    <3> QED BY <3>1, ElementsConcat
  <2>3. Elements(u) = {no}
    BY ElementsOne
  <2>2. Elements(down[c])' = Elements(down'[c])
    BY DEF Elements
  <2> QED BY <1>5, <2>1, <2>2, <2>3
<1>13. LateOk'
  <2>1. \A d \in Clients : \A m \in Elements(down[d])' : m \in Elements(down[d]) \/ ~IsNews(m)
    BY <1>3, <1>5, <1>12 DEF Elements, IsNews
  <2>2. \A d \in Clients : InGame(d)' => InGame(d) /\ (LateOk /\ stage # "run" /\ Due(Server) => barrier'[d] < sync[Server])
    BY <1>1 DEF LateOk, nodeVars, InGame
  <2> QED BY <1>1, <2>1, <2>2, LateStays DEF InSync, nodeVars, Due
<1>14. ASSUME NEW d \in Clients, d # c PROVE ClientFine(d)'
  <2>1. QuietFor(d)
    BY <1>1, <1>5, <1>14, FineTimes, UntouchedQuiet DEF nodeVars
  <2> QED BY <1>6, <1>8, <2>1, QuietFine, ClaimsShrink DEF InSync
<1>15. ClientFine(c)'
  <2>1. Sent(c)' \subseteq Sent(c) /\ Claims(c)' \subseteq Claims(c) /\ Elements(up[c])' = Elements(up[c])
    BY <1>1, <1>2 DEF Sent, Elements
  <2>2. JoinOk(c)' /\ TimeOk(c)' /\ SyncsOk(c)' /\ CheckedOk(c)'
    BY <1>1, <1>3, <1>5, <1>8, <2>1, AnsweredFine DEF InSync, nodeVars
  <2>3. lastMc <= lastMc' /\ mc[Server] <= mc'[Server]
    BY <1>1, NodesFacts DEF nodeVars, IInv, NodeInv, UserInv
  <2>4. ReadyOk(c)' /\ KnownOk(c)'
    BY <1>1, <1>3, <1>5, <1>8, <2>1, <2>3, FineTimes, ReadyUntold DEF nodeVars, GoesOn
  <2>5. PlaceOk(c)'
    <3>1. PlaceOk(c) /\ sock' = sock /\ pending' = pending /\ phase' = phase
      BY <1>1, FineTimes DEF nodeVars
    <3>2. \A m \in Elements(down[c])' :
            /\ m.type # "EOF"
            /\ m.type = "JOIN" => phase'[c] = "join" /\ ~Asking(c)'
            /\ m = JoinReply(FALSE) => sock'[c] # "playing" /\ pending' # c
            /\ m = JoinReply(TRUE) => sock'[c] = "playing" \/ pending' = c
      BY <1>2, <1>3, <1>12, <3>1 DEF PlaceOk
    <3> QED BY <1>2, <2>1, <3>1, <3>2 DEF PlaceOk, InGame
  <2> QED BY <2>2, <2>4, <2>5 DEF ClientFine
<1> QED BY <1>9, <1>10, <1>11, <1>13, <1>14, <1>15 DEF InSync

(* The syncs a client knows of, when it is told that of one who joins *)
LEMMA OrderedKnown ==
  ASSUME IInv, IInv', PendingOk, pending = NoClient, NEW d \in Clients, SyncsOk(d), NEW id \in Nat,
         NEW x, x = SyncMsg(sync[Server] + 1, mc[Server], id, lastMc + 1), x \in ToDo',
         lastMc' = lastMc + 1, mc'[Server] = mc[Server], sync'[Server] = sync[Server],
         \A m \in Waiting(d)' : m.type = "SYNC" => m \in Waiting(d) \/ m = x
  PROVE  SyncsOk(d)'
<1>1. sync[Server] \in Nat /\ mc[Server] \in Nat /\ lastMc \in Nat /\ lastMc = mc[Server]
  BY NodesFacts DEF IInv, NodeInv, UserInv, PendingOk
<1>2. x.type = "SYNC" /\ x.step = sync[Server] + 1 /\ x.mc = mc[Server] /\ x.new = mc[Server] + 1
  BY <1>1 DEF SyncMsg
<1>3. \A m \in Waiting(d) : m.type = "SYNC" =>
        m.step \in Nat /\ m.new \in Nat /\ m.mc \in Nat /\ m.mc < m.new /\ m.new <= mc[Server] /\ m.step <= sync[Server]
  BY <1>1, WaitingForms DEF SyncsOk, Acts
<1>4. SUFFICES ASSUME NEW m \in Waiting(d)', m.type = "SYNC"
               PROVE  /\ m.mc < m.new /\ m.new <= lastMc'
                      /\ m.new <= mc'[Server] => m.step <= sync'[Server]
                      /\ m.new > mc'[Server] => \E z \in ToDo' : z.type = "SYNC" /\ z.step = m.step
                      /\ \A y \in Waiting(d)' : y.type = "SYNC" /\ y.mc = m.new => m.step < y.step
  BY DEF SyncsOk
<1>5. CASE m \in Waiting(d)
  <2>1. m.mc < m.new /\ m.new <= mc[Server] /\ m.step <= sync[Server] /\ m.step \in Nat /\ m.new \in Nat
    BY <1>3, <1>4, <1>5
  <2>2. \A y \in Waiting(d)' : y.type = "SYNC" /\ y.mc = m.new => m.step < y.step
    <3>1. ASSUME NEW y \in Waiting(d)', y.type = "SYNC", y.mc = m.new PROVE m.step < y.step
      <4>1. CASE y \in Waiting(d)
        BY <1>4, <1>5, <3>1, <4>1 DEF SyncsOk
      <4>2. CASE y = x
        BY <1>1, <1>2, <2>1, <4>2
      <4> QED BY <3>1, <4>1, <4>2
    <3> QED BY <3>1
  <2> QED BY <1>1, <2>1, <2>2
<1>6. CASE m = x
  <2>1. \A y \in Waiting(d)' : y.type = "SYNC" => y.mc # m.new
    BY <1>1, <1>2, <1>3, <1>6
  <2> QED BY <1>1, <1>2, <1>6, <2>1
<1> QED BY <1>4, <1>5, <1>6

LEMMA JoinedSync ==
  ASSUME IInv, IInv', Agreement, InSync, rcvd # <<>>, Head(rcvd).msg.type = "JOIN", stage # "run", stage' = "execute",
         NEW c \in Clients, Head(rcvd).from = c, ExecuteJoin(c), JoinPossible
  PROVE  InSync'
<1> DEFINE nws == SyncMsg(sync[Server] + 1, mc[Server], slot[c], lastMc + 1)
           yes == JoinReply(TRUE)
           u == <<yes, nws>>
<1>1. /\ Direct(c, u) /\ SendAll(nws) /\ rcvd' = Append(Tail(rcvd), FromServer(nws))
      /\ pending' = c /\ lastMc' = lastMc + 1 /\ pending = NoClient
      /\ UNCHANGED <<nodeVars, mapCounters, sock, slot, up>>
  BY DEF ExecuteJoin, JoinPossible
<1>2. /\ sync' = sync /\ mc' = mc /\ world' = world /\ cmdQ' = cmdQ /\ barrier' = barrier /\ phase' = phase
      /\ sync[Server] \in Nat /\ mc[Server] \in Nat /\ lastMc \in Nat /\ slot[c] \in Nat /\ lastMc = mc[Server]
      /\ PendingOk /\ c # NoClient
  BY <1>1, FineTimes, NodesFacts, NodesAssumption DEF IInv, NodeInv, UserInv, SockInv, PendingOk, nodeVars
<1>3. nws \in WorldCommand /\ nws.type = "SYNC" /\ nws.step = sync[Server] + 1 /\ nws.mc = mc[Server]
      /\ nws.new = lastMc + 1 /\ nws.id = slot[c] /\ yes.type = "JOIN" /\ yes # JoinReply(FALSE) /\ u \in Seq(DownMsg)
      /\ nws \in DownMsg /\ nws \in Broadcast /\ u[1] = yes /\ u[2] = nws /\ Len(u) = 2
  <2>1. nws \in WorldCommand
    <3>1. sync[Server] + 1 \in Nat
      BY <1>2
    <3> QED BY <1>2, <3>1, OrderedSync
  <2>2. nws.type = "SYNC" /\ nws.step = sync[Server] + 1 /\ nws.mc = mc[Server] /\ nws.new = lastMc + 1 /\ nws.id = slot[c]
    BY DEF SyncMsg
  <2>3. yes.type = "JOIN" /\ yes # JoinReply(FALSE)
    <3>1. yes.answer # JoinReply(FALSE).answer /\ yes.type = "JOIN"
      BY DEF JoinReply
    <3> HIDE DEF yes
    <3> QED BY <3>1
  <2>4. yes \in DownMsg /\ nws \in DownMsg /\ nws \in Broadcast
    BY <2>1, ReplyTypes DEF Broadcast
  <2>5. u \in Seq(DownMsg) /\ u[1] = yes /\ u[2] = nws /\ Len(u) = 2
    <3> HIDE DEF yes, nws
    <3> QED BY <2>4, ShortSequences
  <2> QED BY <2>1, <2>2, <2>3, <2>4, <2>5
<1>4. \A z \in Elements(u) : z = yes \/ z = nws
  <2> HIDE DEF yes, nws
  <2> QED BY ElementsTwo
<1>5. /\ Asking(c) /\ phase[c] = "join" /\ sock[c] = "connected" /\ pending # c
      /\ \A m \in Elements(down[c]) : m.type # "JOIN" /\ m.type # "GAME"
      /\ From(c)' = {} /\ Claims(c)' = {} /\ ~Asking(c)'
  <2>1. \E m : rcvd' = Append(Tail(rcvd), FromServer(m))
    BY <1>1
  <2> QED BY <1>1, <2>1, Asker
<1> HIDE DEF u, nws, yes
<1>6. NothingReceived
  BY <1>1, ReceivedForms
<1>7. ToDo' \cup {Head(rcvd).msg} = ToDo \cup {nws} /\ nws \in ToDo'
  <2>1. ToDo' \cup {Head(rcvd).msg} = ToDo \cup {FromServer(nws).msg} /\ FromServer(nws).msg = nws
    BY <1>1, <1>2, ToDoForms DEF FromServer
  <2> QED BY <1>3, <2>1
<1>8. \A d \in Clients : down'[d] = down[d] \o (IF d = c /\ ~Gone(d) THEN u ELSE <<>>)
  BY <1>1, <1>3, DirectTells
<1>9. down'[c] = down[c] \o u /\ \A d \in Clients : d # c => down'[d] = down[d]
  <2>1. ~Gone(c)
    BY <1>5 DEF Gone
  <2>2. \A d \in Clients : down[d] \o <<>> = down[d]
    BY DownTypes, NothingAtEnd
  <2> QED BY <1>8, <2>1, <2>2
<1>10. \A d \in Clients : \A m \in Elements(sendq[d])' : m \in Elements(sendq[d]) \/ m = nws
  <2>1. ASSUME NEW d \in Clients PROVE \A m \in Elements(sendq[d])' : m \in Elements(sendq[d]) \/ m = nws
    <3>1. sendq'[d] = sendq[d] \/ sendq'[d] = Append(sendq[d], nws)
      BY <1>1 DEF SendAll
    <3>2. Elements(Append(sendq[d], nws)) = Elements(sendq[d]) \cup {nws}
      BY DownTypes, ElementsAppend
    <3>3. Elements(sendq[d])' = Elements(sendq'[d])
      BY DEF Elements
    <3> QED BY <3>1, <3>2, <3>3
  <2> QED BY <2>1
<1>11. Elements(down[c])' = Elements(down[c]) \cup Elements(u)
  <2>1. down[c] \in Seq(DownMsg) /\ Elements(down[c])' = Elements(down'[c])
    BY DownTypes DEF Elements
  <2> QED BY <1>3, <1>9, <2>1, ElementsConcat
<1>12. SlotsOk' /\ CountersOk'
  <2>1. SlotsOk'
    BY <1>1, SlotsStay DEF InSync, Open
  <2>2. CountersOk'
    BY <1>1, <1>2, CountersStay DEF InSync
  <2> QED BY <2>1, <2>2
<1>13. PendingOk'
  <2>1. \A z \in ToDo' : z.type = "SYNC" => z = nws
    BY <1>1, <1>2, <1>7 DEF PendingOk
  <2>2. pending' # NoClient /\ lastMc' = mc'[Server] + 1 /\ \E z \in ToDo' : z.type = "SYNC"
    BY <1>1, <1>2, <1>3, <1>7
  <2>3. nws.mc = mc'[Server] /\ nws.new = lastMc' /\ nws.id = slot'[pending']
    BY <1>1, <1>2, <1>3
  <2> QED BY <2>1, <2>2, <2>3 DEF PendingOk
<1>14. LateOk'
  <2>1. \A d \in Clients : \A m \in Elements(down[d])' : m \in Elements(down[d]) \/ ~IsNews(m)
    <3>1. ~IsNews(nws) /\ ~IsNews(yes)
      BY <1>3 DEF IsNews
    <3>2. \A d \in Clients : d # c => Elements(down[d])' = Elements(down[d])
      BY <1>9 DEF Elements
    <3> QED BY <1>4, <1>11, <3>1, <3>2
  <2>2. \A d \in Clients : InGame(d)' => InGame(d) /\ (LateOk /\ stage # "run" /\ Due(Server) => barrier'[d] < sync[Server])
    BY <1>2 DEF LateOk, InGame
  <2> QED BY <1>1, <1>2, <2>1, <2>2, LateStays DEF InSync, Due
<1>15. lastMc <= lastMc' /\ mc[Server] <= mc'[Server] /\ sync[Server] <= sync'[Server] /\ ~SyncDue
       /\ \A t \in Int : t <= sync[Server] => WorldKept(t)
  BY <1>1, <1>2, WorldIsKept DEF SyncDue
<1>16. ASSUME NEW d \in Clients
       PROVE  /\ SyncsOk(d)' /\ stage' # "run"
              /\ \A m \in Elements(sendq[d])' :
                   m \in Elements(sendq[d]) \/ (sock[d] = "playing" => Checked(m)')
              /\ \A m \in Elements(sendq[d])' : Acts(m) => m.step = sync'[Server] + 1
  <2>1. \A m \in Waiting(d)' : m.type = "SYNC" => m \in Waiting(d) \/ m = nws
    <3>1. Elements(cmdQ[d])' = Elements(cmdQ[d])
      BY <1>2 DEF Elements
    <3>2. \A m \in Elements(down[d])' : m.type = "SYNC" => m \in Elements(down[d]) \/ m = nws
      <4>1. d # c => Elements(down[d])' = Elements(down[d])
        BY <1>9 DEF Elements
      <4> QED BY <1>3, <1>4, <1>11, <4>1
    <3> QED BY <1>10, <3>1, <3>2 DEF Waiting
  <2>2. SyncsOk(d)'
    BY <1>1, <1>2, <1>7, <2>1, FineTimes, OrderedKnown DEF nws
  <2>4. \A m \in Elements(sendq[d]) : Acts(m) => m.step = sync[Server] + 1
    BY FineTimes DEF TimeOk
  <2>5. \A m \in Elements(sendq[d])' : Acts(m) => m.step = sync'[Server] + 1
    BY <1>2, <1>3, <1>10, <2>4
  <2>6. \A m \in Elements(sendq[d])' : m \in Elements(sendq[d]) \/ (sock[d] = "playing" => Checked(m)')
    <3>1. ASSUME NEW m, m = nws PROVE Checked(m)'
      BY <1>3, <3>1 DEF Checked
    <3> QED BY <1>10, <3>1
  <2> QED BY <2>2, <2>5, <2>6
<1>17. ASSUME NEW d \in Clients, d # c PROVE ClientFine(d)'
  <2>1. down'[d] = down[d] \o <<>> /\ <<>> \in Seq(DownMsg) /\ Elements(<<>>) \subseteq Elements(sendq[d])
    BY <1>9, <1>17, DownTypes, NothingAtEnd, ElementsOf
  <2>2. Claims(d)' \subseteq Claims(d)
    BY <1>6, ClaimsShrink
  <2>3. (pending' = d <=> pending = d) /\ pending # d
    BY <1>1, <1>17, NodesAssumption
  <2>4. ClientFine(d)
    BY DEF InSync
  <2> QED BY <1>1, <1>2, <1>15, <1>16, <2>1, <2>2, <2>3, <2>4, FineStays
<1>18. ClientFine(c)'
  <2>1. /\ PlaceOk(c) /\ JoinOk(c) /\ ReadyOk(c) /\ TimeOk(c) /\ CheckedOk(c) /\ KnownOk(c)
        /\ Sent(c)' \subseteq Sent(c) /\ Elements(up[c])' = Elements(up[c]) /\ Claims(c)' \subseteq Claims(c)
    BY <1>1, <1>5, FineTimes DEF Sent, Elements
  <2>2. ReadyOk(c)' /\ KnownOk(c)'
    <3>1. \A m \in Elements(u) : m.type # "READY"
      BY <1>3, <1>4
    <3> QED BY <1>1, <1>2, <1>3, <1>9, <1>15, <2>1, <3>1, ReadyUntold
  <2>3. TimeOk(c)'
    <3>1. \A m \in Elements(u) : ~IsNews(m) /\ (Acts(m) => m.step = sync[Server] + 1)
      BY <1>3, <1>4 DEF IsNews, Acts
    <3>2. \A i, j \in DOMAIN u : i < j /\ IsNews(u[i]) /\ Acts(u[j]) => Told(u[i]) < u[j].step
      BY <3>1 DEF Elements
    <3> QED BY <1>2, <1>3, <1>9, <1>16, <2>1, <3>1, <3>2, TimeStays
  <2>4. CheckedOk(c)'
    <3>1. \A m \in Elements(u) : m.type # "GAME" /\ m.type \notin {"CHECK", "TOOL"}
      BY <1>3, <1>4
    <3>2. \A m \in Elements(u) : m.type # "GAME" /\ (sock[c] = "playing" => Checked(m)')
      BY <3>1 DEF Checked
    <3> QED BY <1>1, <1>2, <1>3, <1>9, <1>15, <1>16, <2>1, <3>2, CheckedStays
  <2>5. PlaceOk(c)'
    <3>1. \A m \in Elements(down[c])' :
            /\ m.type # "EOF"
            /\ m.type = "JOIN" => phase'[c] = "join" /\ ~Asking(c)'
            /\ m = JoinReply(FALSE) => sock'[c] # "playing" /\ pending' # c
            /\ m = JoinReply(TRUE) => sock'[c] = "playing" \/ pending' = c
      <4>1. ASSUME NEW m \in Elements(down[c])', m \in Elements(down[c])
            PROVE  m.type # "EOF" /\ m.type # "JOIN"
        BY <1>5, <2>1, <4>1 DEF PlaceOk
      <4>2. \A a : JoinReply(a).type = "JOIN"
        BY DEF JoinReply
      <4>3. \A m \in Elements(down[c])' : m \in Elements(down[c]) \/ m = yes \/ m = nws
        BY <1>4, <1>11
      <4> QED BY <1>1, <1>2, <1>3, <1>5, <4>1, <4>2, <4>3
    <3>2. \A m \in Elements(up[c])' : m \in Elements(up[c])
      BY <2>1
    <3> QED BY <1>1, <1>2, <1>5, <2>1, <3>1, <3>2 DEF PlaceOk, InGame
  <2>6. JoinOk(c)'
    <3> DEFINE n == Len(down[c])
    <3>1. /\ n \in Nat /\ DOMAIN down'[c] = 1..(n + 2) /\ down'[c][n + 1] = yes /\ down'[c][n + 2] = nws
          /\ \A i \in 1..(n + 2) : i = n + 1 \/ i = n + 2 \/ (i \in DOMAIN down[c] /\ down'[c][i] = down[c][i])
      <4>1. down[c] \in Seq(DownMsg)
        BY DownTypes
      <4>2. n \in Nat /\ DOMAIN down'[c] = 1..(n + 2) /\ down'[c][n + 1] = yes /\ down'[c][n + 2] = nws
        BY <1>3, <1>9, <4>1, TwoMore
      <4>3. DOMAIN down[c] = 1..n /\ \A i \in 1..n : down'[c][i] = down[c][i]
        BY <1>3, <1>9, <4>1, <4>2, LongerIndices
      <4> HIDE DEF n
      <4> QED BY <4>2, <4>3
    <3> HIDE DEF n
    <3>2. \A i \in DOMAIN down[c] : down[c][i].type # "JOIN" /\ down[c][i].type # "GAME"
      BY <1>5 DEF Elements
    <3>3. \A i \in DOMAIN down'[c] : down'[c][i].type # "GAME" /\ (down'[c][i].type = "JOIN" => i = n + 1)
      BY <1>3, <3>1, <3>2
    <3>4. JoinReply(TRUE).type = "JOIN" /\ yes = JoinReply(TRUE)
      BY DEF JoinReply, yes
    <3>5. \A i \in DOMAIN down'[c] : down'[c][i] = JoinReply(TRUE) => i = n + 1
      BY <3>3, <3>4
    <3>6. n + 1 \in DOMAIN down'[c] /\ n + 2 \in DOMAIN down'[c] /\ (n + 1) + 1 = n + 2
      BY <3>1
    <3>7. \A i \in DOMAIN down'[c] : down'[c][i] = JoinReply(TRUE) =>
            /\ \A j \in DOMAIN down'[c] : down'[c][j] = JoinReply(TRUE) => j = i
            /\ i + 1 \in DOMAIN down'[c] /\ down'[c][i + 1].type = "SYNC" /\ down'[c][i + 1].new = lastMc'
      <4>1. down'[c][(n + 1) + 1] = nws /\ nws.type = "SYNC" /\ nws.new = lastMc' /\ (n + 1) + 1 \in DOMAIN down'[c]
        BY <1>1, <1>3, <3>1, <3>6
      <4> QED BY <3>5, <4>1
    <3>8. \E i \in DOMAIN down'[c] : down'[c][i] = JoinReply(TRUE)
      BY <3>1, <3>4, <3>6
    <3> QED BY <1>1, <1>2, <1>5, <3>3, <3>7, <3>8 DEF JoinOk, Joins
  <2> QED BY <1>16, <2>2, <2>3, <2>4, <2>5, <2>6 DEF ClientFine
<1> QED BY <1>12, <1>13, <1>14, <1>17, <1>18 DEF InSync

(* Who reports ready has the world of the server and a map counter that it remembers *)
LEMMA ReadyIsRight ==
  ASSUME Orderly, IInv, Agreement, InSync, rcvd # <<>>, Head(rcvd).msg.type = "READY", NEW c \in Clients,
         Head(rcvd).from = c, ExecuteReady(c, Head(rcvd).msg)
  PROVE  LET m == Head(rcvd).msg IN
         /\ Direct(c, <<m>>) /\ UNCHANGED <<pending, sock, left, sendq, up>>
         /\ m \in Claims(c) /\ m \in Sent(c) /\ m.mc = mc[c] /\ m.step = sync[c]
         /\ phase[c] = "pause" /\ sock[c] = "playing"
<1> DEFINE m == Head(rcvd).msg
<1>1. m \in Claims(c) /\ m \in Sent(c) /\ m.type = "READY"
  BY HeadIsClaim
<1>2. PlaceOk(c) /\ ReadyOk(c) /\ CheckedOk(c) /\ KnownOk(c) /\ CountersOk
  BY FineTimes
<1> HIDE DEF m
<1>3. m.mc = mc[c] /\ m.step = sync[c] /\ phase[c] = "pause" /\ sock[c] = "playing"
  BY <1>1, <1>2 DEF ReadyOk, PlaceOk
<1>4. m.chk = ChecklistAt(world[Server], m.step)
  BY <1>1, <1>2 DEF CheckedOk
<1>5. 2 <= m.mc /\ m.mc <= mc[Server] /\ m.mc \in Nat /\ mc[Server] \in Nat
  BY <1>1, <1>2, <1>3, NodesFacts DEF KnownOk, IInv, NodeInv
<1>6. mc[Server] <= MaxMapCounters + 1
  <2> DEFINE S == {d \in Clients : sock[d] = "playing"}
  <2>1. IsFiniteSet(Clients) /\ S \subseteq Clients
    BY NodesAssumption
  <2>2. Cardinality(S) <= Cardinality(Clients) /\ Cardinality(S) \in Nat /\ Cardinality(Clients) \in Nat
    BY <2>1, FS_Subset, FS_CardinalityType
  <2>3. mc[Server] = Cardinality(S)
    BY <1>2 DEF CountersOk
  <2> QED BY <2>2, <2>3, BoundsAssumption DEF Orderly
<1>7. \E i \in DOMAIN mapCounters : mapCounters[i] = m.mc
  <2> DEFINE i == mc[Server] + 1 - m.mc
  <2>1. i \in 1..Len(mapCounters) /\ DOMAIN mapCounters = 1..Len(mapCounters)
    <3>1. mapCounters \in Seq(Nat) /\ DOMAIN mapCounters = 1..Len(mapCounters) /\ Len(mapCounters) \in Nat
      BY DEF IInv, ServerInv
    <3>2. Len(mapCounters) = (IF mc[Server] < MaxMapCounters THEN mc[Server] ELSE MaxMapCounters)
      BY <1>2 DEF CountersOk
    <3>3. MaxMapCounters \in Nat
      BY BoundsAssumption
    <3>4. i \in 1..Len(mapCounters)
      BY <1>5, <1>6, <3>2, <3>3
    <3> QED BY <3>1, <3>4
  <2>2. mapCounters[i] = mc[Server] + 1 - i
    BY <1>2, <2>1 DEF CountersOk
  <2>3. mapCounters[i] = m.mc
    BY <1>5, <2>2
  <2> QED BY <2>1, <2>3
<1>8. Direct(c, <<m>>) /\ UNCHANGED <<pending, sock, left, sendq, up>>
  BY <1>4, <1>7 DEF ExecuteReady, m
<1> QED BY <1>1, <1>3, <1>8 DEF m

LEMMA ReadySync ==
  ASSUME Orderly, IInv, IInv', Agreement, InSync, rcvd # <<>>, Head(rcvd).msg.type = "READY", stage # "run",
         stage' = "execute", NEW c \in Clients, Head(rcvd).from = c, ExecuteReady(c, Head(rcvd).msg)
  PROVE  InSync'
<1> DEFINE m == Head(rcvd).msg
           u == <<m>>
<1>1. /\ Direct(c, u) /\ rcvd' = Tail(rcvd)
      /\ UNCHANGED <<nodeVars, pending, mapCounters, sock, slot, sendq, up, lastMc>>
      /\ m \in Claims(c) /\ m \in Sent(c) /\ m.mc = mc[c] /\ m.step = sync[c] /\ phase[c] = "pause" /\ sock[c] = "playing"
  BY ReadyIsRight DEF ExecuteReady, userVars
<1>2. m.type = "READY" /\ m # EofMsg /\ m # JoinReply(TRUE) /\ m \in DownMsg /\ u \in Seq(DownMsg) /\ Told(m) = sync[c]
  <2>1. m.type = "READY" /\ EofMsg.type = "EOF" /\ JoinReply(TRUE).type = "JOIN"
    BY DEF EofMsg, JoinReply
  <2>2. m \in DownMsg
    BY HeadOfReceived DEF DownMsgTo
  <2> HIDE DEF m
  <2>3. u \in Seq(DownMsg)
    BY <2>2
  <2> QED BY <1>1, <2>1, <2>2, <2>3 DEF Told
<1>3. From(c)' = {} /\ Claims(c)' = {} /\ Claims(c)' \subseteq Claims(c) /\ Sent(c)' \subseteq Sent(c)
      /\ Elements(up[c])' = Elements(up[c])
  <2>1. From(c)' = {}
    BY <1>1, HeadIsAlone DEF Agreement
  <2>2. Claims(c)' = {} /\ Elements(up[c])' = Elements(up[c])
    BY <1>1, <2>1 DEF Claims, Elements
  <2> QED BY <2>1, <2>2 DEF Sent
<1>4. \A x \in Elements(u) : x = m
  <2> HIDE DEF m
  <2> QED BY ElementsOne
<1> HIDE DEF m, u
<1>5. \A d \in Clients : down'[d] = down[d] \o (IF d = c /\ ~Gone(d) THEN u ELSE <<>>)
  BY <1>1, <1>2, DirectTells
<1>6. down'[c] = down[c] \o u /\ \A d \in Clients : d # c => down'[d] = down[d]
  <2>1. ~Gone(c)
    BY <1>1 DEF Gone
  <2>2. \A d \in Clients : down[d] \o <<>> = down[d]
    BY DownTypes, NothingAtEnd
  <2> QED BY <1>5, <2>1, <2>2
<1>7. NothingReceived
  BY <1>1, ReceivedForms
<1>8. \A z : z.type = "SYNC" => (z \in ToDo' <=> z \in ToDo)
  <2>1. ToDo = ToDo' \cup {m}
    BY <1>1, ToDoForms DEF nodeVars, m
  <2> QED BY <1>2, <2>1
<1>9. GoesOn
  <2>1. sync[Server] <= sync'[Server] /\ ~SyncDue
    BY <1>1, NodesFacts DEF nodeVars, SyncDue, IInv, NodeInv
  <2> QED BY <1>1, <1>8, <2>1, WorldIsKept DEF GoesOn, nodeVars
<1>10. SlotsOk' /\ CountersOk' /\ PendingOk'
  <2>1. SlotsOk'
    BY <1>1, SlotsStay DEF InSync, Open
  <2>2. CountersOk'
    BY <1>1, CountersStay DEF InSync, nodeVars
  <2>3. PendingOk'
    BY <1>1, <1>8, PendingStays DEF InSync, nodeVars
  <2> QED BY <2>1, <2>2, <2>3
<1>11. Elements(down[c])' = Elements(down[c]) \cup Elements(u)
  <2>1. down[c] \in Seq(DownMsg) /\ Elements(down[c])' = Elements(down'[c])
    BY DownTypes DEF Elements
  <2> QED BY <1>2, <1>6, <2>1, ElementsConcat
<1>12. LateOk'
  <2>1. stage # "run" /\ Due(Server) => Told(m) < sync[Server]
    <3>1. sync[c] <= barrier[c] /\ sync[c] \in Nat /\ barrier[c] \in Nat /\ sync[Server] \in Nat
      BY <1>1, FineTimes, NodesFacts DEF TimeOk, InGame, IInv, NodeInv
    <3>2. stage # "run" /\ Due(Server) => barrier[c] < sync[Server]
      BY <1>1, FineTimes DEF LateOk, InGame
    <3> QED BY <1>2, <3>1, <3>2
  <2>2. \A d \in Clients : \A x \in Elements(down[d])' :
          \/ x \in Elements(down[d]) \/ ~IsNews(x)
          \/ stage # "run" /\ Due(Server) => Told(x) < sync[Server]
    <3>1. \A d \in Clients : d # c => Elements(down[d])' = Elements(down[d])
      BY <1>6 DEF Elements
    <3> QED BY <1>4, <1>11, <2>1, <3>1
  <2>3. \A d \in Clients : InGame(d)' => InGame(d) /\ (LateOk /\ stage # "run" /\ Due(Server) => barrier'[d] < sync[Server])
    BY <1>1 DEF LateOk, nodeVars, InGame
  <2> QED BY <1>1, <2>2, <2>3, LateStays DEF InSync, nodeVars, Due
<1>13. ASSUME NEW d \in Clients, d # c PROVE ClientFine(d)'
  <2>1. QuietFor(d)
    BY <1>1, <1>6, <1>13, FineTimes, UntouchedQuiet DEF nodeVars
  <2> QED BY <1>7, <1>9, <2>1, QuietFine, ClaimsShrink DEF InSync
<1>14. ClientFine(c)'
  <2>1. JoinOk(c)' /\ TimeOk(c)' /\ SyncsOk(c)' /\ CheckedOk(c)'
    BY <1>1, <1>2, <1>3, <1>4, <1>6, <1>9, AnsweredFine DEF InSync, nodeVars
  <2>2. KnownOk(c)'
    <3>1. lastMc <= lastMc' /\ mc[Server] <= mc'[Server]
      BY <1>1, NodesFacts DEF nodeVars, IInv, NodeInv, UserInv
    <3> QED BY <1>1, <1>3, <1>9, <3>1, FineTimes, KnownStays DEF nodeVars, GoesOn
  <2>3. PlaceOk(c)'
    <3>1. \A x \in Elements(down[c])' : x \in Elements(down[c]) \/ x.type \notin {"EOF", "JOIN"}
      BY <1>2, <1>4, <1>11
    <3> QED BY <1>1, <1>3, <3>1, FineTimes, PlaceStays DEF nodeVars
  <2>4. ReadyOk(c)'
    <3> DEFINE n == Len(down[c])
    <3>1. ReadyOk(c) /\ sock' = sock /\ phase' = phase /\ mc' = mc /\ sync' = sync /\ up' = up
      BY <1>1, FineTimes DEF nodeVars
    <3>2. \A x \in Sent(c)' : x.type # "READY"
      <4>1. \A i \in DOMAIN up[c] : up[c][i].type # "READY"
        BY <1>1, <1>2, <3>1 DEF ReadyOk
      <4>2. \A x \in Elements(up[c]) : x.type # "READY"
        BY <4>1 DEF Elements
      <4> QED BY <1>3, <4>2 DEF Sent
    <3>3. \A i \in DOMAIN down[c] : down[c][i].type # "READY"
      BY <1>1, <1>2, <3>1 DEF ReadyOk
    <3>4. down'[c] = Append(down[c], m) /\ n \in Nat /\ DOMAIN down'[c] = 1..(n + 1) /\ down'[c][n + 1] = m
          /\ \A i \in 1..(n + 1) : i = n + 1 \/ (i \in DOMAIN down[c] /\ down'[c][i] = down[c][i])
      <4>1. down[c] \in Seq(DownMsg)
        BY DownTypes
      <4>2. down'[c] = Append(down[c], m)
        BY <1>2, <1>6, <4>1 DEF u
      <4> QED BY <1>2, <4>1, <4>2
    <3> HIDE DEF n
    <3>5. \A i \in DOMAIN down'[c] : down'[c][i].type = "READY" => i = n + 1
      BY <3>3, <3>4
    <3>6. \A i \in DOMAIN down'[c] : down'[c][i].type = "READY" =>
            /\ \A j \in DOMAIN down'[c] : down'[c][j].type = "READY" => j = i
            /\ phase'[c] = "pause" /\ down'[c][i].mc = mc'[c] /\ down'[c][i].step = sync'[c] /\ sock'[c] = "playing"
      BY <1>1, <3>1, <3>4, <3>5
    <3>7. \A i \in DOMAIN up'[c] : up'[c][i].type # "READY"
      BY <3>2 DEF Sent, Elements
    <3> QED BY <3>2, <3>6, <3>7 DEF ReadyOk
  <2> QED BY <2>1, <2>2, <2>3, <2>4 DEF ClientFine
<1> QED BY <1>10, <1>12, <1>13, <1>14 DEF InSync

(* The server executes the sync: the game goes to the client that waits for it, and to nobody else *)
LEMMA SyncDone ==
  ASSUME IInv, IInv', Agreement, InSync, SrvDrain, Head(cmdQ[Server]).type = "SYNC"
  PROVE  /\ pending \in Clients /\ pending' = NoClient /\ lastMc' = lastMc /\ stage = "run" /\ stage' = "run"
         /\ mc[Server] \in Nat /\ lastMc = mc[Server] + 1 /\ mc'[Server] = lastMc /\ AppendMapCounter(lastMc)
         /\ cmdQ'[Server] = <<>> /\ sync' = sync /\ phase' = phase /\ barrier' = barrier /\ slot' = slot
         /\ sendq' = sendq /\ up' = up /\ rcvd' = rcvd
         /\ \A d \in Clients : mc'[d] = mc[d] /\ cmdQ'[d] = cmdQ[d]
         /\ \A d \in Clients : d # pending => sock'[d] = sock[d] /\ down'[d] = down[d]
         /\ sock[pending] = "connected" /\ sock'[pending] = "playing"
         /\ phase[pending] \in {"join", "sync", "game"}
         /\ \E g \in DownMsg, r \in DownMsg :
              /\ g.type = "GAME" /\ r.type = "READY" /\ r.mc = lastMc
              /\ down'[pending] = down[pending] \o <<g, r>>
         /\ SomePlaying => world'[Server] = world[Server]
         /\ \A z \in ToDo : z.type = "SYNC" => z.step = sync[Server]
         /\ \A z \in ToDo' : z.type # "SYNC"
<1> DEFINE m == Head(cmdQ[Server])
           p == pending
           file == NetworkSave
           g == GameMsg(file)
           r == ReadyMsg(sync[Server], m.new, ChecklistAt(file, sync[Server]))
<1>1. /\ SyncServer(m.id, m.new) /\ UNCHANGED userVars /\ stage = "run" /\ Due(Server) /\ ServerOk /\ SaveInv
      /\ m.new \in Nat
  BY DrainEffect DEF Agreement, SrvDrain
<1>2. m \in ToDo /\ m.type = "SYNC" /\ m.step = sync[Server]
  <2>1. m = cmdQ[Server][1] /\ cmdQ[Server] # <<>> /\ m.step = sync[Server]
    BY <1>1, DueAtServer
  <2>2. 1 \in DOMAIN cmdQ[Server]
    BY <2>1, NodesFacts DEF IInv, NodeInv
  <2> QED BY <2>1, <2>2 DEF ToDo, Elements
<1>3. /\ PendingOk /\ SlotsOk /\ p \in Clients /\ lastMc = mc[Server] + 1 /\ m.new = lastMc /\ m.id = slot[p]
      /\ \A z \in ToDo : z.type = "SYNC" => z.step = sync[Server]
  <2>1. PendingOk /\ SlotsOk /\ p \in Clients \cup {NoClient}
    BY DEF InSync, IInv, ServerInv
  <2> HIDE DEF m
  <2> QED BY <1>2, <2>1 DEF PendingOk
<1>4. sock[p] = "connected" /\ phase[p] \in {"join", "sync", "game"}
  BY <1>3, FineTimes DEF PlaceOk
<1>5. Occupant(m.id) = {p}
  <2> HIDE DEF m, p
  <2>1. p \in Occupant(m.id)
    BY <1>3, <1>4 DEF Occupant, Open
  <2>2. \A d \in Occupant(m.id) : d = p
    BY <1>3, <1>4 DEF Occupant, Open, SlotsOk
  <2> QED BY <2>1, <2>2
<1>6. g \in DownMsg /\ r \in DownMsg /\ g.type = "GAME" /\ r.type = "READY" /\ r.mc = lastMc /\ file \in World
  <2>1. file \in World /\ sync[Server] \in Nat
    BY NodesFacts DEF NetworkSave, IInv, NodeInv, ServerInv
  <2>2. ChecklistAt(file, sync[Server]) \in Checklist
    BY <2>1, ChecklistType
  <2>3. r \in Ready /\ r.type = "READY" /\ r.mc = lastMc
    <3> HIDE DEF m, file
    <3> QED BY <1>1, <1>3, <2>1, <2>2 DEF Ready, ReadyMsg
  <2>4. g \in DownMsg /\ g.type = "GAME"
    <3> HIDE DEF file
    <3> QED BY <2>1 DEF GameMsg, DownMsg
  <2> QED BY <2>1, <2>3, <2>4, ReplyTypes
<1>7. p \in Occupant(m.id) /\ ~Gone(p) /\ \A d \in Clients : d # p => d \notin Occupant(m.id)
  BY <1>4, <1>5 DEF Gone
<1> HIDE DEF m, p
<1>8. down'[p] = down[p] \o <<g, r>> /\ sock'[p] = "playing"
      /\ \A d \in Clients : d # p => sock'[d] = sock[d] /\ down'[d] = down[d]
  <2>1. down' = [c \in Clients |-> IF c \in Occupant(m.id) /\ ~Gone(c) THEN down[c] \o <<g, r>> ELSE down[c]]
    BY <1>1 DEF SyncServer
  <2>2. sock' = [c \in Clients |-> IF c \in Occupant(m.id) THEN "playing" ELSE sock[c]]
    BY <1>1 DEF SyncServer
  <2> HIDE DEF g, r
  <2> QED BY <1>3, <1>7, <2>1, <2>2
<1>9. /\ mc' = [mc EXCEPT ![Server] = m.new] /\ AppendMapCounter(m.new) /\ pending' = NoClient
      /\ world' = [world EXCEPT ![Server] = file] /\ cmdQ' = [cmdQ EXCEPT ![Server] = <<>>]
      /\ UNCHANGED <<phase, sync, barrier, stage, saved, rcvd, slot, left, sendq, up>>
  BY <1>1 DEF SyncServer, LoadServer
<1>10. mc'[Server] = lastMc /\ cmdQ'[Server] = <<>> /\ mc[Server] \in Nat
       /\ \A d \in Clients : mc'[d] = mc[d] /\ cmdQ'[d] = cmdQ[d]
  BY <1>3, <1>9, NodesFacts DEF IInv, NodeInv
<1>11. SomePlaying => world'[Server] = world[Server]
  BY <1>1, <1>9, NodesFacts DEF SomePlaying, SaveInv, NetworkSave, IInv, NodeInv
<1>12. \A z \in ToDo' : z.type # "SYNC"
  <2>1. \A i \in DOMAIN rcvd : rcvd[i].msg.type # "SYNC"
    BY <1>1 DEF ServerOk, Acts
  <2>2. Elements(cmdQ[Server])' = {}
    BY <1>10 DEF Elements
  <2> QED BY <1>9, <2>1, <2>2 DEF ToDo
<1>13. AppendMapCounter(lastMc) /\ lastMc' = lastMc
  BY <1>1, <1>3, <1>9 DEF userVars
<1>14. \E x \in DownMsg, y \in DownMsg :
         x.type = "GAME" /\ y.type = "READY" /\ y.mc = lastMc /\ down'[p] = down[p] \o <<x, y>>
  <2> HIDE DEF g, r
  <2> QED BY <1>6, <1>8
<1> QED BY <1>1, <1>3, <1>4, <1>8, <1>9, <1>10, <1>11, <1>12, <1>13, <1>14 DEF p

LEMMA CountersSync ==
  ASSUME IInv, IInv', CountersOk, NEW p \in Clients, sock[p] # "playing", sock'[p] = "playing",
         \A d \in Clients : d # p => sock'[d] = sock[d],
         mc'[Server] = mc[Server] + 1, AppendMapCounter(mc[Server] + 1)
  PROVE  CountersOk'
<1> DEFINE S == {d \in Clients : sock[d] = "playing"}
           k == IF Len(mapCounters) = MaxMapCounters THEN MaxMapCounters - 1 ELSE Len(mapCounters)
           new == mc[Server] + 1
<1>1. mc'[Server] = Cardinality({d \in Clients : sock'[d] = "playing"})
  <2>1. IsFiniteSet(S) /\ p \notin S
    BY NodesAssumption, FS_Subset
  <2>2. Cardinality(S \cup {p}) = Cardinality(S) + 1
    BY <2>1, FS_AddElement
  <2>3. {d \in Clients : sock'[d] = "playing"} = S \cup {p}
    OBVIOUS
  <2> QED BY <2>2, <2>3 DEF CountersOk
<1>2. /\ mapCounters \in Seq(Nat) /\ Len(mapCounters) \in Nat /\ DOMAIN mapCounters = 1..Len(mapCounters)
      /\ MaxMapCounters \in Nat /\ MaxMapCounters > 0 /\ mc[Server] \in Nat
      /\ Len(mapCounters) = (IF mc[Server] < MaxMapCounters THEN mc[Server] ELSE MaxMapCounters)
      /\ \A i \in 1..Len(mapCounters) : mapCounters[i] = mc[Server] + 1 - i
  <2>1. mapCounters \in Seq(Nat) /\ Len(mapCounters) \in Nat /\ DOMAIN mapCounters = 1..Len(mapCounters)
    BY DEF IInv, ServerInv
  <2>2. MaxMapCounters \in Nat /\ MaxMapCounters > 0 /\ mc[Server] \in Nat
    BY NodesFacts, BoundsAssumption DEF IInv, NodeInv
  <2>3. Len(mapCounters) = (IF mc[Server] < MaxMapCounters THEN mc[Server] ELSE MaxMapCounters)
    BY DEF CountersOk
  <2>4. \A i \in 1..Len(mapCounters) : mapCounters[i] = mc[Server] + 1 - i
    BY <2>1 DEF CountersOk
  <2> QED BY <2>1, <2>2, <2>3, <2>4
<1>3. k \in Nat /\ k <= Len(mapCounters)
      /\ k + 1 = (IF mc[Server] + 1 < MaxMapCounters THEN mc[Server] + 1 ELSE MaxMapCounters)
  BY <1>2
<1>4. mapCounters' = <<new>> \o SubSeq(mapCounters, 1, k)
  BY DEF AppendMapCounter
<1> HIDE DEF k
<1>5. /\ Len(mapCounters') = k + 1 /\ DOMAIN mapCounters' = 1..(k + 1)
      /\ mapCounters'[1] = new /\ \A i \in 2..(k + 1) : mapCounters'[i] = mapCounters[i - 1]
  <2> DEFINE t == SubSeq(mapCounters, 1, k)
  <2>1. t \in Seq(Nat) /\ Len(t) = k /\ \A i \in 1..k : t[i] = mapCounters[i]
    <3>1. k \in 0..Len(mapCounters) /\ mapCounters \in Seq(Nat)
      BY <1>2, <1>3
    <3> QED BY <3>1, SplitAt
  <2>2. new \in Nat
    BY <1>2
  <2> HIDE DEF t, new
  <2>3. /\ Len(<<new>> \o t) = k + 1 /\ DOMAIN (<<new>> \o t) = 1..(k + 1) /\ (<<new>> \o t)[1] = new
        /\ \A i \in 2..(k + 1) : (<<new>> \o t)[i] = t[i - 1]
    BY <1>3, <2>1, <2>2
  <2>4. \A i \in 2..(k + 1) : i - 1 \in 1..k
    BY <1>3
  <2> QED BY <1>4, <2>1, <2>3, <2>4 DEF t
<1>6. \A i \in DOMAIN mapCounters' : mapCounters'[i] = mc'[Server] + 1 - i
  <2>1. ASSUME NEW i \in 1..(k + 1) PROVE mapCounters'[i] = mc'[Server] + 1 - i
    <3>1. CASE i = 1
      BY <1>2, <1>5, <3>1
    <3>2. CASE i # 1
      <4>1. i \in 2..(k + 1) /\ i - 1 \in 1..Len(mapCounters)
        BY <1>2, <1>3, <3>2
      <4>2. mapCounters'[i] = mc[Server] + 1 - (i - 1)
        BY <1>2, <1>5, <4>1
      <4>3. mc'[Server] = mc[Server] + 1 /\ mc[Server] \in Nat /\ i \in Int
        BY <1>2, <1>3
      <4> QED BY <4>2, <4>3
    <3> QED BY <3>1, <3>2
  <2> QED BY <1>5, <2>1
<1> QED BY <1>1, <1>2, <1>3, <1>5, <1>6 DEF CountersOk

(* The syncs that a client knows of when the server has done all that there are *)
LEMMA SyncsDone ==
  ASSUME IInv, IInv', NEW d \in Clients, SyncsOk(d), \A m \in Waiting(d)' : m.type = "SYNC" => m \in Waiting(d),
         lastMc' = lastMc, mc'[Server] = lastMc, sync' = sync,
         \A z \in ToDo : z.type = "SYNC" => z.step = sync[Server]
  PROVE  SyncsOk(d)'
<1>1. SUFFICES ASSUME NEW m \in Waiting(d), m.type = "SYNC"
               PROVE  /\ m.mc < m.new /\ m.new <= lastMc' /\ m.step <= sync'[Server] /\ ~(m.new > mc'[Server])
                      /\ \A y \in Waiting(d) : y.type = "SYNC" /\ y.mc = m.new => m.step < y.step
  BY DEF SyncsOk
<1>2. m.step \in Nat /\ m.new \in Nat /\ m.mc \in Nat /\ sync[Server] \in Nat /\ mc[Server] \in Nat /\ lastMc \in Nat
  BY <1>1, WaitingForms, NodesFacts DEF Acts, IInv, NodeInv, UserInv
<1>3. m.mc < m.new /\ m.new <= lastMc /\ \A y \in Waiting(d) : y.type = "SYNC" /\ y.mc = m.new => m.step < y.step
  BY <1>1 DEF SyncsOk
<1>4. m.step <= sync[Server]
  <2>1. CASE m.new <= mc[Server]
    BY <1>1, <2>1 DEF SyncsOk
  <2>2. CASE m.new > mc[Server]
    <3>1. PICK z \in ToDo : z.type = "SYNC" /\ z.step = m.step
      BY <1>1, <2>2 DEF SyncsOk
    <3> QED BY <1>2, <3>1
  <2> QED BY <1>2, <2>1, <2>2
<1> QED BY <1>2, <1>3, <1>4

(* The client that gets its game *)
LEMMA ServedFine ==
  ASSUME IInv, IInv', Agreement, NEW p \in Clients, ClientFine(p), p = pending, pending' # p,
         SyncsOk(p)', phase'[p] = phase[p], phase[p] \in {"join", "sync", "game"}, sock[p] = "connected", sock'[p] = "playing",
         sync' = sync, barrier'[p] = barrier[p], mc'[p] = mc[p], cmdQ'[p] = cmdQ[p], sendq' = sendq, up' = up, rcvd' = rcvd,
         stage = "run", stage' = "run", lastMc' = lastMc, mc[Server] <= mc'[Server], lastMc <= mc'[Server],
         NEW g \in DownMsg, NEW r \in DownMsg, g.type = "GAME", r.type = "READY", r.mc = lastMc,
         down'[p] = down[p] \o <<g, r>>
  PROVE  ClientFine(p)'
<1> DEFINE n == Len(down[p])
           u == <<g, r>>
<1>1. /\ PlaceOk(p) /\ JoinOk(p) /\ ReadyOk(p) /\ TimeOk(p) /\ CheckedOk(p) /\ KnownOk(p) /\ SockFine(p)
      /\ ~Asking(p) /\ sendq[p] = <<>> /\ cmdQ[p] = <<>>
  BY DEF ClientFine, Agreement, PlaceOk, TimeOk, SockFine
<1>2. /\ Claims(p)' = Claims(p) /\ Sent(p)' = Sent(p) /\ ~Asking(p)' /\ Elements(up[p])' = Elements(up[p])
      /\ From(p)' = From(p)
  BY <1>1 DEF Claims, Sent, Elements, From, Asking
<1>3. \A m \in Sent(p) : m.type # "READY" /\ m.type # "REQUEST"
  BY <1>1 DEF PlaceOk
<1>4. /\ u \in Seq(DownMsg) /\ Elements(u) = {g, r} /\ Len(u) = 2 /\ u[1] = g /\ u[2] = r /\ down[p] \in Seq(DownMsg)
  BY ElementsTwo, ShortSequences, DownTypes
<1>5. /\ n \in Nat /\ DOMAIN down[p] = 1..n /\ DOMAIN down'[p] = 1..(n + 2) /\ down'[p][n + 1] = g /\ down'[p][n + 2] = r
      /\ \A i \in 1..n : down'[p][i] = down[p][i] /\ i \in DOMAIN down[p]
      /\ \A i \in 1..(n + 2) : i \in Int /\ (i \in 1..n \/ i = n + 1 \/ i = n + 2)
  <2> HIDE DEF u
  <2>1. down'[p] = down[p] \o u
    BY DEF u
  <2>2. n \in Nat /\ DOMAIN down'[p] = 1..(n + 2) /\ down'[p][n + 1] = g /\ down'[p][n + 2] = r
    BY <1>4, <2>1, TwoMore
  <2>3. DOMAIN down[p] = 1..n /\ \A i \in 1..n : down'[p][i] = down[p][i]
    BY <1>4, <2>1, LongerIndices
  <2>4. \A i \in 1..(n + 2) : i \in Int /\ (i \in 1..n \/ i = n + 1 \/ i = n + 2)
    BY <2>2
  <2> QED BY <2>2, <2>3, <2>4
<1>6. Elements(down[p])' = Elements(down[p]) \cup {g, r}
  <2>1. Elements(down[p])' = Elements(down'[p])
    BY DEF Elements
  <2> HIDE DEF u
  <2>2. Elements(down[p] \o u) = Elements(down[p]) \cup Elements(u)
    BY <1>4, ElementsConcat
  <2>3. down'[p] = down[p] \o u
    BY DEF u
  <2> QED BY <1>4, <2>1, <2>2, <2>3
<1>7. \A i \in 1..n : down[p][i].type # "GAME" /\ down[p][i].type # "READY"
  BY <1>1, <1>5 DEF SockFine, ReadyOk
<1>8. PlaceOk(p)'
  <2>1. \A m \in Elements(down[p]) :
          /\ m.type # "EOF" /\ (m.type = "JOIN" => phase[p] = "join") /\ m # JoinReply(FALSE)
    BY <1>1 DEF PlaceOk
  <2>2. JoinReply(FALSE).type = "JOIN"
    BY DEF JoinReply
  <2>3. \A m \in Elements(down[p])' :
          /\ m.type # "EOF"
          /\ m.type = "JOIN" => phase'[p] = "join" /\ ~Asking(p)'
          /\ m = JoinReply(FALSE) => sock'[p] # "playing" /\ pending' # p
          /\ m = JoinReply(TRUE) => sock'[p] = "playing" \/ pending' = p
    BY <1>2, <1>6, <2>1, <2>2
  <2>4. \A m \in Elements(up[p])' : m.type = "EOF" => phase'[p] = "out"
    BY <1>1, <1>2 DEF PlaceOk
  <2> QED BY <1>2, <1>3, <2>3, <2>4 DEF PlaceOk, InGame
<1> HIDE DEF n, u
<1>9. JoinOk(p)'
  <2> DEFINE J(k) == \A i \in DOMAIN down'[p] : down'[p][i].type = "GAME" => down'[p][i + 1].mc = k
  <2>1. \A i \in DOMAIN down'[p] : down'[p][i].type = "GAME" => i = n + 1
    BY <1>5, <1>7
  <2>2. J(lastMc) /\ (n + 1) + 1 = n + 2
    BY <1>5, <2>1
  <2>3. JoinReply(TRUE).type = "JOIN"
    BY DEF JoinReply
  <2>4. \A i \in DOMAIN down'[p] : down'[p][i] = JoinReply(TRUE) => i \in DOMAIN down[p] /\ down[p][i] = JoinReply(TRUE)
    BY <1>5, <2>3
  <2>5. ASSUME NEW i \in DOMAIN down'[p], down'[p][i] = JoinReply(TRUE)
        PROVE  /\ \A j \in DOMAIN down'[p] : down'[p][j] = JoinReply(TRUE) => j = i
               /\ i + 1 \in DOMAIN down'[p] /\ down'[p][i + 1].type = "SYNC" /\ J(down'[p][i + 1].new)
    <3>1. i \in DOMAIN down[p] /\ down[p][i] = JoinReply(TRUE)
      BY <2>4, <2>5
    <3>2. i + 1 \in DOMAIN down[p] /\ down[p][i + 1].type = "SYNC" /\ down[p][i + 1].new = lastMc
      BY <1>1, <3>1 DEF JoinOk, Joins
    <3>3. \A j \in DOMAIN down'[p] : down'[p][j] = JoinReply(TRUE) => j = i
      BY <1>1, <2>4, <3>1 DEF JoinOk
    <3>4. i + 1 \in 1..n /\ i + 1 \in DOMAIN down'[p]
      BY <1>5, <3>2
    <3>5. down'[p][i + 1] = down[p][i + 1] /\ J(down'[p][i + 1].new)
      <4> HIDE DEF J
      <4> QED BY <1>5, <2>2, <3>2, <3>4
    <3> QED BY <3>2, <3>3, <3>4, <3>5
  <2>6. phase[p] = "sync" => down'[p] # <<>> /\ down'[p][1].type = "SYNC" /\ J(down'[p][1].new)
    <3>1. ASSUME phase[p] = "sync" PROVE down[p] # <<>> /\ down[p][1].type = "SYNC" /\ down[p][1].new = lastMc
      BY <1>1, <3>1 DEF JoinOk, Joins
    <3>2. ASSUME phase[p] = "sync" PROVE 1 \in DOMAIN down[p]
      BY <1>4, <3>1, <3>2
    <3>3. ASSUME phase[p] = "sync" PROVE 1 \in 1..n /\ down'[p][1] = down[p][1] /\ down'[p] # <<>>
      BY <1>5, <3>2, <3>3
    <3> QED BY <2>2, <3>1, <3>3
  <2>7. phase[p] = "game" => J(mc[p])
    BY <1>1, <2>2 DEF JoinOk, Joins
  <2>8. \A i \in DOMAIN down'[p] : down'[p][i].type = "GAME" =>
          /\ i + 1 \in DOMAIN down'[p] /\ down'[p][i + 1].type = "READY"
          /\ phase[p] = "join" => \E j \in 1..(i - 1) : down'[p][j] = JoinReply(TRUE)
    <3>1. n + 2 \in DOMAIN down'[p] /\ (n + 1) - 1 = n
      BY <1>5
    <3>2. phase[p] = "join" => \E j \in 1..n : down'[p][j] = JoinReply(TRUE)
      <4>1. ASSUME phase[p] = "join" PROVE \E j \in DOMAIN down[p] : down[p][j] = JoinReply(TRUE)
        BY <1>1, <4>1 DEF JoinOk
      <4> QED BY <1>5, <4>1
    <3>3. n + 1 + 1 \in DOMAIN down'[p] /\ down'[p][n + 1 + 1].type = "READY"
      BY <1>5, <2>2, <3>1
    <3> HIDE DEF J
    <3> QED BY <2>1, <3>1, <3>2, <3>3
  <2> HIDE DEF J
  <2>9. \A k : J(k) => Joins(p, k)'
    BY DEF J, Joins
  <2>10. \A i \in DOMAIN down'[p] : down'[p][i] = JoinReply(TRUE) => Joins(p, down[p][i + 1].new)'
    BY <2>5, <2>9
  <2>11. (phase[p] = "sync" => Joins(p, down[p][1].new)') /\ (phase[p] = "game" => Joins(p, mc[p])')
    BY <2>6, <2>7, <2>9
  <2> QED BY <2>5, <2>6, <2>8, <2>10, <2>11 DEF JoinOk
<1>10. ReadyOk(p)'
  <2>1. \A i \in DOMAIN down'[p] : down'[p][i].type = "READY" => i = n + 2
    BY <1>5, <1>7
  <2>2. \A i \in DOMAIN down'[p] : down'[p][i].type = "READY" =>
          /\ \A j \in DOMAIN down'[p] : down'[p][j].type = "READY" => j = i
          /\ i > 1 /\ down'[p][i - 1].type = "GAME"
    <3>1. (n + 2) - 1 = n + 1 /\ n + 2 > 1
      BY <1>5
    <3> QED BY <1>5, <2>1, <3>1
  <2>3. \A i \in DOMAIN up'[p] : up'[p][i].type # "READY"
    BY <1>3 DEF Sent, Elements
  <2>4. \A m \in Sent(p)' : m.type # "READY"
    BY <1>2, <1>3
  <2> QED BY <2>2, <2>3, <2>4 DEF ReadyOk
<1>11. TimeOk(p)'
  <2>1. \A m \in Elements(u) : ~Acts(m)
    BY <1>4 DEF Acts
  <2>2. \A i, j \in DOMAIN u : i < j /\ IsNews(u[i]) /\ Acts(u[j]) => Told(u[i]) < u[j].step
    BY <2>1 DEF Elements
  <2>3. \A m \in Elements(sendq[p])' : Acts(m) => m.step = sync'[Server] + 1
    BY <1>1 DEF Elements
  <2> QED BY <1>1, <1>4, <2>1, <2>2, <2>3, TimeStays DEF u
<1>12. CheckedOk(p)'
  <2>1. \A i \in DOMAIN down'[p] : \A k \in 1..(i - 1) : down'[p][k].type = "GAME" => i = n + 2
    BY <1>5, <1>7
  <2>2. down'[p][n + 2].type \notin {"CHECK", "TOOL"}
    BY <1>5
  <2>3. \A i \in DOMAIN down'[p] : (InGame(p)' \/ \E k \in 1..(i - 1) : down'[p][k].type = "GAME") => Checked(down[p][i])'
    BY <2>1, <2>2 DEF Checked, InGame
  <2>4. Elements(cmdQ[p])' = {} /\ Elements(sendq[p])' = {}
    BY <1>1 DEF Elements
  <2> QED BY <1>2, <1>3, <2>3, <2>4 DEF CheckedOk
<1>13. KnownOk(p)'
  <2>1. lastMc <= lastMc'
    BY DEF IInv, UserInv
  <2> QED BY <1>1, <1>2, <2>1, KnownStays
<1> QED BY <1>8, <1>9, <1>10, <1>11, <1>12, <1>13 DEF ClientFine

LEMMA DrainSync ==
  ASSUME IInv, IInv', Agreement, InSync, SrvDrain
  PROVE  InSync'
<1>1. CASE Head(cmdQ[Server]).type = "TOOL"
  <2>1. /\ Execute(Server, Head(cmdQ[Server])) /\ cmdQ' = [cmdQ EXCEPT ![Server] = Tail(@)]
        /\ UNCHANGED <<phase, sync, mc, barrier, serverVars, sockVars, userVars>>
        /\ stage = "run" /\ Due(Server)
    BY <1>1, DrainEffect DEF Agreement, SrvDrain
  <2> QED BY <1>1, <2>1, DrainToolSync
<1>2. CASE Head(cmdQ[Server]).type = "SYNC"
  <2>1. /\ pending \in Clients /\ pending' = NoClient /\ lastMc' = lastMc /\ stage = "run" /\ stage' = "run"
        /\ mc[Server] \in Nat /\ lastMc = mc[Server] + 1 /\ mc'[Server] = lastMc /\ AppendMapCounter(lastMc)
        /\ cmdQ'[Server] = <<>> /\ sync' = sync /\ phase' = phase /\ barrier' = barrier /\ slot' = slot
        /\ sendq' = sendq /\ up' = up /\ rcvd' = rcvd
        /\ \A d \in Clients : mc'[d] = mc[d] /\ cmdQ'[d] = cmdQ[d]
        /\ \A d \in Clients : d # pending => sock'[d] = sock[d] /\ down'[d] = down[d]
        /\ sock[pending] = "connected" /\ sock'[pending] = "playing"
        /\ phase[pending] \in {"join", "sync", "game"}
        /\ SomePlaying => world'[Server] = world[Server]
        /\ \A z \in ToDo : z.type = "SYNC" => z.step = sync[Server]
        /\ \A z \in ToDo' : z.type # "SYNC"
    BY <1>2, SyncDone
  <2>7. PICK p \in Clients : p = pending /\ p # NoClient
    BY <2>1, NodesAssumption
  <2>2. PICK g \in DownMsg, r \in DownMsg :
          /\ g.type = "GAME" /\ r.type = "READY" /\ r.mc = lastMc
          /\ down'[p] = down[p] \o <<g, r>>
    BY <1>2, <2>7, SyncDone
  <2>3. SlotsOk'
    <3>1. \A c \in Clients : Open(c)' => Open(c) /\ slot'[c] = slot[c]
      BY <2>1 DEF Open
    <3> QED BY <3>1, SlotsStay DEF InSync
  <2>4. CountersOk'
    BY <2>1, CountersSync DEF InSync
  <2>5. PendingOk'
    BY <2>1 DEF PendingOk
  <2>6. LateOk'
    BY <2>1 DEF LateOk
  <2>8. ASSUME NEW d \in Clients PROVE SyncsOk(d)'
    <3>1. Elements(cmdQ[d])' = Elements(cmdQ[d]) /\ Elements(sendq[d])' = Elements(sendq[d])
      BY <2>1 DEF Elements
    <3>2. \A m \in Elements(down[d])' : m.type = "SYNC" => m \in Elements(down[d])
      <4>1. CASE d = p
        <5>1. down[d] \in Seq(DownMsg) /\ <<g, r>> \in Seq(DownMsg) /\ Elements(down[d])' = Elements(down'[d])
          BY <2>2, DownTypes, ShortSequences DEF Elements
        <5>2. Elements(down[d] \o <<g, r>>) = Elements(down[d]) \cup {g, r}
          <6> DEFINE u == <<g, r>>
          <6>1. Elements(u) = {g, r} /\ u \in Seq(DownMsg)
            BY <5>1, ElementsTwo
          <6> HIDE DEF u
          <6>2. Elements(down[d] \o u) = Elements(down[d]) \cup Elements(u)
            BY <5>1, <6>1, ElementsConcat
          <6> QED BY <6>1, <6>2 DEF u
        <5> QED BY <2>2, <4>1, <5>1, <5>2
      <4>2. CASE d # p
        BY <2>1, <2>7, <4>2 DEF Elements
      <4> QED BY <4>1, <4>2
    <3>3. \A m \in Waiting(d)' : m.type = "SYNC" => m \in Waiting(d)
      BY <3>1, <3>2 DEF Waiting
    <3> QED BY <2>1, <3>3, FineTimes, SyncsDone
  <2>9. mc[Server] <= mc'[Server] /\ lastMc <= mc'[Server] /\ lastMc <= lastMc' /\ sync[Server] <= sync'[Server]
    BY <2>1, NodesFacts DEF IInv, NodeInv
  <2>10. ASSUME NEW d \in Clients, d # p PROVE ClientFine(d)'
    <3>1. /\ down'[d] = down[d] \o <<>> /\ <<>> \in Seq(DownMsg) /\ Elements(<<>>) \subseteq Elements(sendq[d])
      BY <2>1, <2>7, <2>10, DownTypes, NothingAtEnd, ElementsOf
    <3>2. NothingReceived
      BY <2>1, ReceivedForms
    <3>3. Claims(d)' \subseteq Claims(d)
      BY <3>2, ClaimsShrink
    <3>4. pending # d /\ pending' # d
      BY <2>1, <2>7, <2>10, NodesAssumption
    <3>5. sock[d] = "playing" => \A t \in Int : t <= sync[Server] => WorldKept(t)
      BY <2>1, WorldIsKept DEF SomePlaying
    <3>6. sendq[d] = <<>> /\ \A m \in Elements(sendq[d])' : m \in Elements(sendq[d])
      BY <2>1, FineTimes DEF TimeOk, Elements
    <3>7. \A m \in Elements(sendq[d])' : Acts(m) => m.step = sync'[Server] + 1
      BY <2>1, <3>6 DEF Elements
    <3>8. \A m \in Elements(sendq[d])' : m \in Elements(sendq[d]) \/ (sock[d] = "playing" => Checked(m)')
      BY <3>6
    <3>9. ClientFine(d)
      BY DEF InSync
    <3> QED BY <2>1, <2>7, <2>8, <2>9, <2>10, <3>1, <3>3, <3>4, <3>5, <3>6, <3>7, <3>8, <3>9, FineStays
  <2>11. ClientFine(p)'
    <3>1. ClientFine(p) /\ SyncsOk(p)' /\ pending' # p
      BY <2>1, <2>7, <2>8 DEF InSync
    <3> QED BY <2>1, <2>2, <2>7, <2>9, <3>1, ServedFine
  <2> QED BY <2>3, <2>4, <2>5, <2>6, <2>10, <2>11 DEF InSync
<1>3. Head(cmdQ[Server]).type \in {"TOOL", "SYNC"}
  BY DrainEffect DEF Agreement
<1> QED BY <1>1, <1>2, <1>3

LEMMA ExecuteSync ==
  ASSUME Orderly, IInv, IInv', Agreement, InSync, SrvExecute
  PROVE  InSync'
<1>1. rcvd # <<>> /\ stage # "run" /\ stage' = "execute"
  BY DEF SrvExecute
<1>2. CASE Head(rcvd).msg.type = "JOIN" /\ ExecuteJoin(Head(rcvd).from)
  <2>1. Head(rcvd).from \in Clients
    BY <1>1, <1>2, HeadOfReceived
  <2> QED BY <1>1, <1>2, <2>1, JoinedSync, RefusedSync
<1>3. CASE Head(rcvd).msg.type = "READY" /\ ExecuteReady(Head(rcvd).from, Head(rcvd).msg)
  <2>1. Head(rcvd).from \in Clients
    BY <1>1, <1>3, HeadOfReceived
  <2> QED BY <1>1, <1>3, <2>1, ReadySync
<1>4. CASE Head(rcvd).msg.type = "REQUEST" /\ ExecuteRequest(Head(rcvd).from, Head(rcvd).msg)
  BY <1>1, <1>4, RequestSync
<1>5. CASE Head(rcvd).msg.type \in {"TOOL", "SYNC"} /\ ExecuteWorldCommand(Head(rcvd).msg)
  BY <1>1, <1>5, WorldCommandSync DEF Acts
<1> QED BY <1>2, <1>3, <1>4, <1>5 DEF SrvExecute

LEMMA ServerSync ==
  ASSUME Orderly, IInv, IInv', Agreement, Agreement', InSync, ServerNext
  PROVE  InSync'
<1>1. ~SrvForceSync
  BY DEF SrvForceSync, Orderly
<1> QED BY <1>1, ExecuteSync, SendSync, DrainSync, StepSync, LoopSync, ToolSync, AcceptSync, ReceiveSync DEF ServerNext

-----------------------------------------------------------------------------
(* The clients *)

LEMMA ClientTouches ==
  ASSUME IInv, NEW c \in Clients, ClientNext(c)
  PROVE  /\ UNCHANGED <<serverVars, slot, sendq, lastMc>>
         /\ sock' = sock \/ (sock[c] = "none" /\ sock' = [sock EXCEPT ![c] = "backlog"])
         /\ \A d \in Clients : d # c => sync'[d] = sync[d] /\ barrier'[d] = barrier[d]
<1> DEFINE Only(f, g) == \E x : g = [f EXCEPT ![c] = x]
<1>0. /\ sync' = sync \/ Only(sync, sync')
      /\ barrier' = barrier \/ Only(barrier, barrier')
      => \A d \in Clients : d # c => sync'[d] = sync[d] /\ barrier'[d] = barrier[d]
  BY NodesFacts DEF IInv, NodeInv
<1>1. CASE CliConnect(c)
  BY <1>1 DEF CliConnect, userVars
<1>2. CASE CliReceive(c)
  <2>1. UNCHANGED <<serverVars, sock, slot, sendq, lastMc>>
    BY <1>2 DEF CliReceive, userVars
  <2>2. CASE JoinStep(c, Head(down[c]))
    <3> DEFINE m == Head(down[c])
    <3>1. (sync' = sync \/ Only(sync, sync')) /\ (barrier' = barrier \/ Only(barrier, barrier'))
      <4>1. JoinStep(c, m)
        BY <2>2
      <4> HIDE DEF m
      <4> QED BY <4>1 DEF JoinStep
    <3> HIDE DEF Only
    <3> QED BY <1>0, <2>1, <3>1
  <2>3. CASE GameStep(c, Head(down[c]))
    <3> DEFINE m == Head(down[c])
    <3>1. (sync' = sync \/ Only(sync, sync')) /\ (barrier' = barrier \/ Only(barrier, barrier'))
      <4>1. GameStep(c, m)
        BY <2>3
      <4> HIDE DEF m
      <4> QED BY <4>1 DEF GameStep, RaiseBarrier
    <3> HIDE DEF Only
    <3> QED BY <1>0, <2>1, <3>1
  <2> QED BY <1>2, <2>2, <2>3 DEF CliReceive
<1>3. CASE CliDrain(c)
  <2>1. UNCHANGED <<serverVars, sock, slot, sendq, lastMc>>
    BY <1>3 DEF CliDrain, userVars
  <2>2. (sync' = sync \/ Only(sync, sync')) /\ (barrier' = barrier \/ Only(barrier, barrier'))
    BY <1>3 DEF CliDrain, SyncClient
  <2> HIDE DEF Only
  <2> QED BY <1>0, <2>1, <2>2
<1>4. CASE CliStep(c)
  BY <1>4 DEF CliStep, sockVars, userVars, IInv, NodeInv
<1>5. CASE CliTool(c)
  BY <1>5 DEF CliTool, nodeVars
<1>6. CASE CliLeave(c)
  BY <1>6 DEF CliLeave, Disconnect, userVars
<1> QED BY <1>1, <1>2, <1>3, <1>4, <1>5, <1>6 DEF ClientNext

(* What a step of a client leaves as it is *)
ClientFrame(c) ==
  /\ GoesOn /\ Claims(c)' = Claims(c) /\ ToDo' = ToDo
  /\ stage' = stage /\ sync'[Server] = sync[Server] /\ world'[Server] = world[Server] /\ cmdQ'[Server] = cmdQ[Server]
  /\ mc'[Server] = mc[Server] /\ pending' = pending /\ lastMc' = lastMc /\ sendq' = sendq /\ rcvd' = rcvd
  /\ SlotsOk' /\ CountersOk' /\ PendingOk'
  /\ \A d \in Clients : d # c => ClientFine(d)' /\ InGame(d)' = InGame(d) /\ barrier'[d] = barrier[d] /\ down'[d] = down[d]
LEMMA ClientFramed ==
  ASSUME IInv, IInv', Agreement, InSync, NEW c \in Clients, ClientNext(c)
  PROVE  ClientFrame(c)
<1>1. /\ stage' = stage /\ pending' = pending /\ mapCounters' = mapCounters /\ rcvd' = rcvd /\ slot' = slot
      /\ sendq' = sendq /\ lastMc' = lastMc
      /\ sock' = sock \/ (sock[c] = "none" /\ sock' = [sock EXCEPT ![c] = "backlog"])
      /\ \A d \in Clients : d # c => sync'[d] = sync[d] /\ barrier'[d] = barrier[d]
  BY ClientTouches DEF serverVars
<1>2. /\ phase'[Server] = phase[Server] /\ sync'[Server] = sync[Server] /\ mc'[Server] = mc[Server]
      /\ world'[Server] = world[Server] /\ cmdQ'[Server] = cmdQ[Server]
  BY ClientKeepsServer
<1>3. ToDo' = ToDo /\ Claims(c)' = Claims(c) /\ NothingReceived
  BY <1>1, <1>2, ToDoForms, ReceivedForms DEF Claims, From
<1>4. GoesOn
  <2>1. sync[Server] <= sync'[Server] /\ (SyncDue => SyncDue')
    BY <1>1, <1>2, NodesFacts DEF SyncDue, IInv, NodeInv, Elements
  <2> QED BY <1>1, <1>2, <1>3, <2>1, WorldIsKept DEF GoesOn
<1>5. \A d \in Clients : sock'[d] = sock[d] \/ (sock[d] = "none" /\ sock'[d] = "backlog")
  BY <1>1 DEF IInv, SockInv
<1>6. SlotsOk' /\ CountersOk' /\ PendingOk'
  <2>1. SlotsOk'
    <3>1. \A d \in Clients : Open(d)' => Open(d) /\ slot'[d] = slot[d]
      BY <1>1, <1>5 DEF Open
    <3> QED BY <3>1, SlotsStay DEF InSync
  <2>2. CountersOk'
    BY <1>1, <1>2, <1>5, CountersStay DEF InSync
  <2>3. PendingOk'
    BY <1>1, <1>2, <1>3, PendingStays DEF InSync
  <2> QED BY <2>1, <2>2, <2>3
<1>7. ASSUME NEW d \in Clients, d # c
      PROVE  ClientFine(d)' /\ InGame(d)' = InGame(d) /\ barrier'[d] = barrier[d] /\ down'[d] = down[d]
  <2>1. /\ phase'[d] = phase[d] /\ cmdQ'[d] = cmdQ[d] /\ world'[d] = world[d] /\ mc'[d] = mc[d]
        /\ sock'[d] = sock[d] /\ slot'[d] = slot[d] /\ up'[d] = up[d] /\ down'[d] = down[d]
    BY <1>7, ClientTouchesNobody
  <2>2. QuietFor(d)
    BY <1>1, <1>2, <1>7, <2>1, FineTimes, UntouchedQuiet
  <2>3. ClientFine(d)'
    BY <1>3, <1>4, <2>2, QuietFine, ClaimsShrink DEF InSync
  <2> QED BY <1>1, <1>7, <2>1, <2>3 DEF InGame
<1> QED BY <1>1, <1>2, <1>3, <1>4, <1>6, <1>7 DEF ClientFrame

LEMMA ClientLate ==
  ASSUME IInv, InSync, NEW c \in Clients, ClientFrame(c), Elements(down[c])' \subseteq Elements(down[c]),
         InGame(c)' => (LateOk /\ stage # "run" /\ Due(Server) => barrier'[c] < sync[Server]),
         ClientFine(c)'
  PROVE  InSync'
<1>1. LateOk'
  <2>1. LateOk /\ stage' = stage /\ sync'[Server] = sync[Server] /\ Due(Server)' = Due(Server)
    BY DEF InSync, ClientFrame, Due
  <2>2. SUFFICES ASSUME stage # "run", Due(Server), NEW d \in Clients
                 PROVE  /\ InGame(d)' => barrier'[d] < sync[Server]
                        /\ \A m \in Elements(down[d])' : IsNews(m) => Told(m) < sync[Server]
    BY <2>1 DEF LateOk
  <2>3. CASE d = c
    BY <2>1, <2>2, <2>3 DEF LateOk
  <2>4. CASE d # c
    <3>1. InGame(d)' = InGame(d) /\ barrier'[d] = barrier[d] /\ Elements(down[d])' = Elements(down[d])
      BY <2>4 DEF ClientFrame, Elements
    <3> QED BY <2>1, <2>2, <3>1 DEF LateOk
  <2> QED BY <2>3, <2>4
<1> QED BY <1>1 DEF InSync, ClientFrame

(* The syncs that a client knows of grow no more *)
LEMMA ClientSyncs ==
  ASSUME IInv, IInv', InSync, NEW c \in Clients, ClientFrame(c), Waiting(c)' \subseteq Waiting(c)
  PROVE  SyncsOk(c)'
<1>1. SyncsOk(c) /\ lastMc <= lastMc' /\ sync[Server] <= sync'[Server]
  BY FineTimes, NodesFacts DEF ClientFrame, IInv, UserInv, NodeInv
<1> QED BY <1>1, SyncsStay DEF ClientFrame

LEMMA ConnectSync ==
  ASSUME IInv, IInv', Agreement, InSync, NEW c \in Clients, CliConnect(c)
  PROVE  InSync'
<1>1. ClientFrame(c)
  BY ClientFramed DEF ClientNext
<1>2. /\ phase[c] = "out" /\ sock[c] = "none" /\ phase'[c] = "join" /\ sock'[c] = "backlog"
      /\ up'[c] = <<JoinMsg>> /\ UNCHANGED <<sync, mc, world, cmdQ, barrier, down>>
  BY NodesFacts DEF CliConnect, IInv, NodeInv, SockInv
<1>3. SockFine(c) /\ PlaceOk(c) /\ TimeOk(c) /\ CheckedOk(c)
  BY FineTimes DEF Agreement
<1>4. down[c] = <<>> /\ cmdQ[c] = <<>> /\ From(c) = {} /\ pending # c
  BY <1>2, <1>3 DEF SockFine, PlaceOk, Gone
<1>5. Claims(c)' = {} /\ Elements(up[c])' = {JoinMsg} /\ JoinMsg.type = "JOIN" /\ Elements(down[c])' = {}
      /\ down'[c] = <<>> /\ pending' # c /\ Sent(c)' = {JoinMsg}
  <2>1. Claims(c)' = {} /\ pending' # c /\ down'[c] = <<>>
    BY <1>1, <1>2, <1>4 DEF ClientFrame, Claims
  <2>2. Elements(up[c])' = {JoinMsg} /\ Elements(down[c])' = {}
    BY <1>2, <1>4, <2>1 DEF Elements
  <2> QED BY <2>1, <2>2 DEF JoinMsg, Sent
<1>6. Asking(c)'
  BY <1>2, <1>5 DEF Asking
<1>7. PlaceOk(c)'
  BY <1>2, <1>5, <1>6 DEF PlaceOk, InGame
<1>8. JoinOk(c)' /\ ReadyOk(c)' /\ CheckedOk(c)' /\ KnownOk(c)'
  <2>1. JoinOk(c)'
    BY <1>2, <1>5 DEF JoinOk
  <2>2. \A i \in DOMAIN up'[c] : up'[c][i].type # "READY"
    BY <1>2, <1>5
  <2>3. ReadyOk(c)'
    BY <1>2, <1>5, <2>2 DEF ReadyOk
  <2>4. CheckedOk(c)'
    BY <1>2, <1>5 DEF CheckedOk
  <2>5. KnownOk(c)'
    BY <1>2, <1>5 DEF KnownOk
  <2> QED BY <2>1, <2>3, <2>4, <2>5
<1>9. TimeOk(c)'
  <2>1. Elements(sendq[c])' = Elements(sendq[c])
    BY <1>1 DEF ClientFrame, Elements
  <2> QED BY <1>1, <1>2, <1>3, <1>5, <2>1 DEF TimeOk, ClientFrame, InGame
<1>10. SyncsOk(c)'
  <2>1. Waiting(c)' \subseteq Waiting(c)
    BY <1>1, <1>2 DEF ClientFrame, Waiting, Elements
  <2> QED BY <1>1, <2>1, ClientSyncs
<1>11. ClientFine(c)'
  BY <1>7, <1>8, <1>9, <1>10 DEF ClientFine
<1> QED BY <1>1, <1>2, <1>5, <1>11, ClientLate DEF InGame

(* A client whose join is refused gives up *)
LEMMA GivesUpFine ==
  ASSUME IInv, IInv', Agreement, InSync, NEW c \in Clients, ClientFrame(c), phase[c] = "join",
         down[c] # <<>>, Head(down[c]) = JoinReply(FALSE), Disconnect(c, "out"), sock' = sock
  PROVE  ClientFine(c)'
<1>1. /\ PlaceOk(c) /\ SockFine(c) /\ TimeOk(c) /\ CheckedOk(c) /\ KnownOk(c)
  BY FineTimes DEF Agreement
<1>2. Head(down[c]) \in Elements(down[c]) /\ JoinReply(FALSE).type = "JOIN"
  BY DownTypes, ElementsFirst DEF JoinReply
<1>3. sock[c] = "connected" /\ pending # c /\ ~Asking(c)
  <2>1. sock[c] \in {"none", "backlog", "connected", "playing", "kicked"}
    BY DEF IInv, SockInv
  <2>2. sock[c] # "playing" /\ pending # c /\ ~Asking(c)
    BY <1>1, <1>2 DEF PlaceOk
  <2> QED BY <1>1, <2>1, <2>2 DEF PlaceOk
<1>4. /\ phase'[c] = "out" /\ cmdQ'[c] = <<>> /\ down'[c] = <<>> /\ up'[c] = Append(up[c], EofMsg) /\ EofMsg.type = "EOF"
  BY <1>3, NodesFacts DEF Disconnect, SendServer, Open, IInv, NodeInv, SockInv, EofMsg
<1>5. Elements(up[c])' = Elements(up[c]) \cup {EofMsg} /\ Claims(c)' = Claims(c) /\ Sent(c)' = Sent(c) \cup {EofMsg}
  <2>1. Elements(Append(up[c], EofMsg)) = Elements(up[c]) \cup {EofMsg}
    BY DownTypes, ElementsAppend
  <2>2. Elements(up[c])' = Elements(up'[c])
    BY DEF Elements
  <2> QED BY <1>4, <2>1, <2>2 DEF ClientFrame, Sent
<1>6. ~Asking(c)'
  <2>1. \A m \in Sent(c)' : m.type # "JOIN"
    BY <1>3, <1>4, <1>5, AskingIsSent
  <2> QED BY <2>1 DEF Asking, Sent, Elements, Claims
<1>7. \A m \in Sent(c)' : m.type # "READY" /\ m.type # "REQUEST"
  BY <1>1, <1>3, <1>4, <1>5 DEF PlaceOk
<1>8. Elements(down[c])' = {} /\ Elements(cmdQ[c])' = {} /\ Elements(sendq[c])' = Elements(sendq[c])
  BY <1>4 DEF ClientFrame, Elements
<1>9. PlaceOk(c)'
  BY <1>3, <1>4, <1>6, <1>7, <1>8 DEF PlaceOk, InGame, ClientFrame
<1>10. JoinOk(c)' /\ ReadyOk(c)' /\ CheckedOk(c)' /\ KnownOk(c)'
  <2>1. JoinOk(c)'
    BY <1>3, <1>4 DEF JoinOk, ClientFrame
  <2>2. \A i \in DOMAIN up'[c] : up'[c][i].type # "READY"
    BY <1>7 DEF Sent, Elements
  <2>3. ReadyOk(c)'
    BY <1>4, <1>7, <2>2 DEF ReadyOk
  <2>4. CheckedOk(c)'
    BY <1>3, <1>4, <1>7 DEF CheckedOk
  <2>5. KnownOk(c)'
    BY <1>4, <1>7 DEF KnownOk, Sent
  <2> QED BY <2>1, <2>3, <2>4, <2>5
<1>11. TimeOk(c)'
  BY <1>1, <1>4, <1>8 DEF TimeOk, ClientFrame, InGame
<1>12. SyncsOk(c)'
  BY <1>8, ClientSyncs DEF Waiting
<1> QED BY <1>9, <1>10, <1>11, <1>12 DEF ClientFine

(* A joining client reads one message *)
LEMMA ReadShift ==
  ASSUME IInv, NEW c \in Clients, down[c] # <<>>, down'[c] = Tail(down[c])
  PROVE  /\ Head(down[c]) = down[c][1] /\ 1 \in DOMAIN down[c] /\ Head(down[c]) \in Elements(down[c])
         /\ \A i \in DOMAIN down'[c] : i \in Nat /\ i > 0 /\ i + 1 \in DOMAIN down[c] /\ down'[c][i] = down[c][i + 1]
         /\ \A i \in DOMAIN down[c] :
              i \in Nat /\ i > 0 /\ (i # 1 => i - 1 \in DOMAIN down'[c] /\ down[c][i] = down'[c][i - 1])
         /\ Elements(down[c])' \subseteq Elements(down[c])
<1>1. down[c] \in Seq(DownMsg)
  BY DownTypes
<1>2. Elements(down[c])' = Elements(Tail(down[c]))
  BY DEF Elements
<1>3. \A i \in DOMAIN down[c] : i > 0
  BY <1>1
<1>4. Tail(down[c]) \in Seq(DownMsg)
  BY <1>1, ElementsFirst
<1>5. \A i \in DOMAIN Tail(down[c]) : i > 0
  BY <1>4
<1> QED BY <1>1, <1>2, <1>3, <1>5, ElementsFirst

LEMMA JoiningFine ==
  ASSUME IInv, IInv', Agreement, InSync, NEW c \in Clients, ClientFrame(c),
         phase[c] \in {"join", "sync", "game"}, phase'[c] \in {"join", "sync", "game"},
         down[c] # <<>>, down'[c] = Tail(down[c]), up' = up, sock' = sock, cmdQ'[c] = cmdQ[c],
         Head(down[c]).type # "GAME", JoinOk(c)',
         phase'[c] # "join" => \A m \in Elements(down[c])' : m.type # "JOIN",
         phase'[c] # "join" => sock[c] = "playing" \/ pending = c,
         phase'[c] = "join" => phase[c] = "join", phase'[c] = "game" => 1 <= mc'[c]
  PROVE  ClientFine(c)'
<1>1. /\ PlaceOk(c) /\ ReadyOk(c) /\ TimeOk(c) /\ CheckedOk(c) /\ KnownOk(c) /\ SockFine(c)
  BY FineTimes DEF Agreement
<1>2. /\ Claims(c)' = Claims(c) /\ Elements(up[c])' = Elements(up[c]) /\ Sent(c)' = Sent(c)
      /\ Asking(c)' = Asking(c) /\ Elements(cmdQ[c])' = Elements(cmdQ[c]) /\ Elements(sendq[c])' = Elements(sendq[c])
      /\ pending' = pending /\ lastMc' = lastMc
  BY DEF ClientFrame, Elements, Sent, Asking, From
<1>3. /\ Head(down[c]) = down[c][1] /\ 1 \in DOMAIN down[c] /\ Head(down[c]) \in Elements(down[c])
      /\ \A i \in DOMAIN down'[c] : i \in Nat /\ i > 0 /\ i + 1 \in DOMAIN down[c] /\ down'[c][i] = down[c][i + 1]
      /\ Elements(down[c])' \subseteq Elements(down[c])
      /\ \A i \in DOMAIN down[c] : i \in Nat /\ (i # 1 => i - 1 \in DOMAIN down'[c] /\ down[c][i] = down'[c][i - 1])
  BY ReadShift
<1>4. \A m \in Sent(c) : m.type # "READY"
  BY <1>1 DEF ReadyOk
<1>5. PlaceOk(c)'
  <2>1. \A m \in Elements(down[c])' :
          /\ m.type # "EOF"
          /\ m.type = "JOIN" => phase'[c] = "join" /\ ~Asking(c)'
          /\ m = JoinReply(FALSE) => sock'[c] # "playing" /\ pending' # c
          /\ m = JoinReply(TRUE) => sock'[c] = "playing" \/ pending' = c
    BY <1>1, <1>2, <1>3 DEF PlaceOk
  <2>2. sock[c] \in {"none", "backlog", "connected", "playing", "kicked"}
    BY DEF IInv, SockInv
  <2>3. Asking(c) => phase'[c] = "join"
    BY <1>1 DEF PlaceOk
  <2> QED BY <1>1, <1>2, <2>1, <2>2, <2>3 DEF PlaceOk, InGame
<1>6. ReadyOk(c)'
  <2>1. \A i \in DOMAIN down'[c] : down'[c][i].type = "READY" =>
          /\ \A j \in DOMAIN down'[c] : down'[c][j].type = "READY" => j = i
          /\ sock[c] = "playing" /\ i > 1 /\ down'[c][i - 1].type = "GAME"
    <3>1. ASSUME NEW i \in DOMAIN down'[c], down'[c][i].type = "READY"
          PROVE  /\ \A j \in DOMAIN down'[c] : down'[c][j].type = "READY" => j = i
                 /\ sock[c] = "playing" /\ i > 1 /\ down'[c][i - 1].type = "GAME"
      <4>1. i + 1 \in DOMAIN down[c] /\ down[c][i + 1].type = "READY" /\ i \in Nat /\ i > 0
        BY <1>3, <3>1
      <4>2. \A j \in DOMAIN down'[c] : down'[c][j].type = "READY" => j + 1 = i + 1 /\ j \in Nat
        BY <1>1, <1>3, <4>1 DEF ReadyOk
      <4>3. sock[c] = "playing" /\ down[c][(i + 1) - 1].type = "GAME"
        BY <1>1, <4>1 DEF ReadyOk
      <4>4. down[c][i].type = "GAME" /\ i \in DOMAIN down[c]
        <5>1. DOMAIN down[c] = 1..Len(down[c]) /\ Len(down[c]) \in Nat
          BY DownTypes
        <5> QED BY <4>1, <4>3, <5>1
      <4>5. i # 1
        BY <1>3, <4>4
      <4> QED BY <1>3, <4>1, <4>2, <4>3, <4>4, <4>5
    <3> QED BY <3>1
  <2>2. \A i \in DOMAIN up'[c] : up'[c][i].type # "READY"
    BY <1>2, <1>4 DEF Sent, Elements
  <2> QED BY <1>2, <1>4, <2>1, <2>2 DEF ReadyOk
<1>7. TimeOk(c)'
  <2>1. \A i, j \in DOMAIN down'[c] :
          i < j /\ IsNews(down'[c][i]) /\ Acts(down'[c][j]) => Told(down'[c][i]) < down'[c][j].step
    <3>1. ASSUME NEW i \in DOMAIN down'[c], NEW j \in DOMAIN down'[c], i < j, IsNews(down'[c][i]), Acts(down'[c][j])
          PROVE  Told(down'[c][i]) < down'[c][j].step
      <4>1. i + 1 < j + 1 /\ i + 1 \in DOMAIN down[c] /\ j + 1 \in DOMAIN down[c]
            /\ down'[c][i] = down[c][i + 1] /\ down'[c][j] = down[c][j + 1]
        BY <1>3, <3>1
      <4> QED BY <1>1, <3>1, <4>1 DEF TimeOk
    <3> QED BY <3>1
  <2> QED BY <1>1, <1>2, <2>1 DEF TimeOk, InGame, ClientFrame
<1>8. CheckedOk(c)'
  <2>1. \A m : Checked(m)' <=> Checked(m)
    BY DEF Checked, ClientFrame
  <2>2. ASSUME NEW i \in DOMAIN down'[c], NEW g \in 1..(i - 1), down'[c][g].type = "GAME" PROVE Checked(down'[c][i])
    <3>1. i + 1 \in DOMAIN down[c] /\ down'[c][i] = down[c][i + 1] /\ g + 1 \in 1..((i + 1) - 1)
          /\ g \in DOMAIN down'[c]
      <4>1. DOMAIN down'[c] = 1..Len(down'[c]) /\ Len(down'[c]) \in Nat
        BY DownTypes, ElementsFirst
      <4>2. i \in 1..Len(down'[c]) /\ g \in 1..(i - 1)
        BY <2>2, <4>1
      <4>3. g \in 1..Len(down'[c]) /\ g + 1 \in 1..((i + 1) - 1)
        BY <4>1, <4>2
      <4> QED BY <1>3, <4>1, <4>2, <4>3
    <3>2. down[c][g + 1].type = "GAME"
      BY <1>3, <2>2, <3>1
    <3> QED BY <1>1, <3>1, <3>2 DEF CheckedOk
  <2>3. \A i \in DOMAIN down'[c] : (InGame(c)' \/ \E g \in 1..(i - 1) : down'[c][g].type = "GAME") => Checked(down[c][i])'
    <3>1. ~InGame(c)'
      BY DEF InGame
    <3>2. \A i \in DOMAIN down'[c] : \A m : m = down'[c][i] /\ Checked(m) => Checked(down[c][i])'
      BY DEF Checked, ClientFrame
    <3> QED BY <2>2, <3>1, <3>2
  <2>4. sock'[c] = "playing" => \A m \in Elements(cmdQ[c])' \cup Elements(sendq[c])' : Checked(m)'
    BY <1>1, <1>2, <2>1 DEF CheckedOk
  <2>5. \A m \in Sent(c)' : m.type \in {"READY", "REQUEST"} =>
          m.step <= sync'[Server] /\ m.chk = ChecklistAt(world'[Server], m.step)
    BY <1>1, <1>2 DEF CheckedOk, ClientFrame
  <2> QED BY <2>3, <2>4, <2>5 DEF CheckedOk
<1>9. KnownOk(c)'
  BY <1>2, <1>4 DEF KnownOk, Sent
<1>10. SyncsOk(c)'
  BY <1>2, <1>3, ClientSyncs DEF Waiting
<1> QED BY <1>5, <1>6, <1>7, <1>8, <1>9, <1>10 DEF ClientFine

(* What a joining client makes of the first message that it has not read *)
LEMMA JoinStepFine ==
  ASSUME IInv, IInv', Agreement, InSync, NEW c \in Clients, ClientFrame(c), down[c] # <<>>,
         phase[c] \in {"join", "sync", "game"}, JoinStep(c, Head(down[c])), sock' = sock
  PROVE  \/ ClientFine(c)'
         \/ /\ phase[c] = "game" /\ Head(down[c]).type = "GAME" /\ phase'[c] = "pause" /\ sync'[c] = 0
            /\ barrier'[c] = 0 /\ down'[c] = Tail(down[c]) /\ up' = up /\ mc' = mc /\ cmdQ' = cmdQ
<1> DEFINE m == Head(down[c])
<1>1. /\ PlaceOk(c) /\ JoinOk(c) /\ ReadyOk(c) /\ TimeOk(c) /\ CheckedOk(c) /\ KnownOk(c) /\ SockFine(c)
  BY FineTimes DEF Agreement
<1>2. m = down[c][1] /\ 1 \in DOMAIN down[c] /\ m \in Elements(down[c]) /\ down[c] \in Seq(DownMsg)
  <2>1. down[c] \in Seq(DownMsg)
    BY DownTypes
  <2> QED BY <2>1, ElementsFirst
<1>3. /\ phase \in [Nodes -> {"out", "join", "sync", "game", "pause", "run", "desync"}]
      /\ mc \in [Nodes -> Nat] /\ c \in Nodes
      /\ down \in [Clients -> Seq(DownMsgTo(sync[Server]))]
      /\ sync \in [Nodes -> Nat] /\ barrier \in [Nodes -> Nat] /\ world \in [Nodes -> World]
      /\ cmdQ \in [Nodes -> Seq(WorldCommand)]
  BY NodesFacts DEF IInv, NodeInv, SockInv
<1>4. m.type # "EOF" /\ JoinReply(TRUE).type = "JOIN" /\ JoinReply(FALSE).type = "JOIN"
  BY <1>1, <1>2 DEF PlaceOk, JoinReply
<1>5. JoinStep(c, m)
  OBVIOUS
<1> HIDE DEF m
<1>6. CASE phase[c] = "join" /\ m = JoinReply(FALSE)
  BY <1>5, <1>6, GivesUpFine DEF JoinStep, m
<1>7. CASE ~(phase[c] = "join" /\ m = JoinReply(FALSE))
  <2>1. /\ down' = [down EXCEPT ![c] = Tail(@)] /\ up' = up
        /\ CASE phase[c] = "join" /\ m = JoinReply(TRUE) ->
                 /\ phase' = [phase EXCEPT ![c] = "sync"]
                 /\ UNCHANGED <<sync, mc, world, cmdQ, barrier>>
            [] phase[c] = "sync" /\ m.type = "SYNC" ->
                 /\ phase' = [phase EXCEPT ![c] = "game"]
                 /\ mc' = [mc EXCEPT ![c] = m.new]
                 /\ UNCHANGED <<sync, world, cmdQ, barrier>>
            [] phase[c] = "game" /\ m.type = "GAME" ->
                 /\ phase' = [phase EXCEPT ![c] = "pause"]
                 /\ world' = [world EXCEPT ![c] = m.world]
                 /\ sync' = [sync EXCEPT ![c] = 0]
                 /\ barrier' = [barrier EXCEPT ![c] = 0]
                 /\ UNCHANGED <<mc, cmdQ>>
            [] OTHER -> UNCHANGED <<phase, sync, mc, world, cmdQ, barrier>>
    BY <1>4, <1>5, <1>7 DEF JoinStep
  <2>2. down'[c] = Tail(down[c]) /\ pending' = pending /\ lastMc' = lastMc
    BY <1>3, <2>1 DEF ClientFrame
  <2>3. /\ \A i \in DOMAIN down'[c] : i \in Nat /\ i > 0 /\ i + 1 \in DOMAIN down[c] /\ down'[c][i] = down[c][i + 1]
        /\ \A i \in DOMAIN down[c] :
             i \in Nat /\ i > 0 /\ (i # 1 => i - 1 \in DOMAIN down'[c] /\ down[c][i] = down'[c][i - 1])
        /\ Elements(down[c])' \subseteq Elements(down[c])
    BY <2>2, ReadShift
  <2> DEFINE Comes(k) == \A i \in DOMAIN down'[c] : down'[c][i].type = "GAME" => down'[c][i + 1].mc = k
  (* Joins survives the reading of a message *)
  <2>4. ASSUME NEW k, Joins(c, k) PROVE (pending' = c => k = lastMc') /\ Comes(k)
    <3>1. pending' = c => k = lastMc'
      BY <2>2, <2>4 DEF Joins
    <3>2. ASSUME NEW i \in DOMAIN down'[c], down'[c][i].type = "GAME" PROVE down'[c][i + 1].mc = k
      <4>1. i \in Nat /\ i > 0 /\ i + 1 \in DOMAIN down[c] /\ down[c][i + 1].type = "GAME"
        BY <2>3, <3>2
      <4>2. down[c][(i + 1) + 1].mc = k /\ (i + 1) + 1 \in DOMAIN down[c]
        BY <1>1, <2>4, <4>1 DEF Joins, JoinOk
      <4>3. (i + 1) + 1 # 1 /\ ((i + 1) + 1) - 1 = i + 1
        BY <4>1
      <4> QED BY <2>3, <4>2, <4>3
    <3> QED BY <3>1, <3>2
  <2>5. ASSUME NEW k, Joins(c, k) PROVE Joins(c, k)'
    BY <2>4, <2>5 DEF Joins
  (* and so does what JoinOk says of the replies and of the games that are not read *)
  <2>6. ASSUME NEW i \in DOMAIN down'[c], down'[c][i] = JoinReply(TRUE)
        PROVE  /\ \A j \in DOMAIN down'[c] : down'[c][j] = JoinReply(TRUE) => j = i
               /\ i + 1 \in DOMAIN down'[c] /\ down'[c][i + 1].type = "SYNC" /\ Joins(c, down[c][i + 1].new)'
    <3>1. i \in Nat /\ i > 0 /\ i + 1 \in DOMAIN down[c] /\ down[c][i + 1] = JoinReply(TRUE)
      BY <2>3, <2>6
    <3>2. /\ \A j \in DOMAIN down[c] : down[c][j] = JoinReply(TRUE) => j = i + 1
          /\ (i + 1) + 1 \in DOMAIN down[c] /\ down[c][(i + 1) + 1].type = "SYNC" /\ Joins(c, down[c][(i + 1) + 1].new)
      BY <1>1, <3>1 DEF JoinOk
    <3>3. (i + 1) + 1 # 1 /\ ((i + 1) + 1) - 1 = i + 1
      BY <3>1
    <3>4. i + 1 \in DOMAIN down'[c] /\ down'[c][i + 1] = down[c][(i + 1) + 1]
      BY <2>3, <3>2, <3>3
    <3>5. \A j \in DOMAIN down'[c] : down'[c][j] = JoinReply(TRUE) => j = i
      <4>1. ASSUME NEW j \in DOMAIN down'[c], down'[c][j] = JoinReply(TRUE) PROVE j = i
        <5>1. j \in Nat /\ j + 1 \in DOMAIN down[c] /\ down[c][j + 1] = JoinReply(TRUE)
          BY <2>3, <4>1
        <5>2. j + 1 = i + 1
          BY <3>2, <5>1
        <5> QED BY <3>1, <5>1, <5>2
      <4> QED BY <4>1
    <3>6. PICK k : k = down'[c][i + 1].new /\ Joins(c, k)
      BY <3>2, <3>4
    <3>7. Joins(c, k)'
      BY <2>5, <3>6
    <3>8. Joins(c, down[c][i + 1].new)'
      BY <3>6, <3>7 DEF Joins
    <3> QED BY <3>2, <3>4, <3>5, <3>8
  <2>7. ASSUME NEW i \in DOMAIN down'[c], down'[c][i].type = "GAME"
        PROVE  /\ i + 1 \in DOMAIN down'[c] /\ down'[c][i + 1].type = "READY" /\ sock'[c] = "playing"
               /\ phase[c] = "join" /\ m # JoinReply(TRUE) => \E j \in 1..(i - 1) : down'[c][j] = JoinReply(TRUE)
    <3>1. i \in Nat /\ i > 0 /\ i + 1 \in DOMAIN down[c] /\ down[c][i + 1].type = "GAME"
      BY <2>3, <2>7
    <3>2. /\ (i + 1) + 1 \in DOMAIN down[c] /\ down[c][(i + 1) + 1].type = "READY" /\ sock[c] = "playing"
          /\ phase[c] = "join" => \E j \in 1..((i + 1) - 1) : down[c][j] = JoinReply(TRUE)
      BY <1>1, <3>1 DEF JoinOk
    <3>3. (i + 1) + 1 # 1 /\ ((i + 1) + 1) - 1 = i + 1
      BY <3>1
    <3>4. ASSUME phase[c] = "join", m # JoinReply(TRUE) PROVE \E j \in 1..(i - 1) : down'[c][j] = JoinReply(TRUE)
      <4>1. PICK j \in 1..((i + 1) - 1) : down[c][j] = JoinReply(TRUE)
        BY <3>2, <3>4
      <4>2. j # 1 /\ j \in DOMAIN down[c]
        <5>1. DOMAIN down[c] = 1..Len(down[c]) /\ Len(down[c]) \in Nat
          BY <1>2
        <5>2. (i + 1) - 1 = i /\ i + 1 <= Len(down[c])
          BY <3>1, <5>1
        <5>3. j \in 1..Len(down[c])
          BY <3>1, <4>1, <5>1, <5>2
        <5>4. j # 1
          BY <1>2, <3>4, <4>1
        <5> QED BY <5>1, <5>3, <5>4
      <4>3. j \in Nat /\ j > 0 /\ down[c][j] = down'[c][j - 1]
        BY <2>3, <4>2
      <4>4. (i + 1) - 1 = i
        BY <3>1
      <4>5. j - 1 \in 1..(i - 1)
        BY <3>1, <4>1, <4>2, <4>3, <4>4
      <4>6. down'[c][j - 1] = JoinReply(TRUE)
        BY <4>1, <4>3
      <4> QED BY <4>5, <4>6
    <3> QED BY <2>3, <3>2, <3>3, <3>4
  <2> HIDE DEF Comes
  <2>8. CASE phase[c] = "join" /\ m = JoinReply(TRUE)
    <3>1. phase'[c] = "sync" /\ mc' = mc /\ cmdQ' = cmdQ
      BY <1>3, <2>1, <2>8
    <3>2. /\ \A j \in DOMAIN down[c] : down[c][j] = JoinReply(TRUE) => j = 1
          /\ 1 + 1 \in DOMAIN down[c] /\ down[c][1 + 1].type = "SYNC" /\ Joins(c, down[c][1 + 1].new)
      BY <1>1, <1>2, <2>8 DEF JoinOk
    <3>3. 1 \in DOMAIN down'[c] /\ down'[c][1] = down[c][1 + 1] /\ down'[c] # <<>>
      <4>1. 1 + 1 # 1 /\ (1 + 1) - 1 = 1
        OBVIOUS
      <4> QED BY <2>3, <3>2, <4>1
    <3>4. PICK k : k = down'[c][1].new /\ Joins(c, k)
      BY <3>2, <3>3
    <3>5. Joins(c, k)'
      BY <2>5, <3>4
    <3>6. Joins(c, down[c][1].new)'
      BY <3>4, <3>5 DEF Joins
    <3>7. \A i \in DOMAIN down'[c] : down'[c][i] # JoinReply(TRUE)
      <4>1. ASSUME NEW i \in DOMAIN down'[c], down'[c][i] = JoinReply(TRUE) PROVE FALSE
        <5>1. i \in Nat /\ i > 0 /\ i + 1 \in DOMAIN down[c] /\ down[c][i + 1] = JoinReply(TRUE)
          BY <2>3, <4>1
        <5>2. i + 1 = 1
          BY <3>2, <5>1
        <5> QED BY <5>1, <5>2
      <4> QED BY <4>1
    <3>8. JoinOk(c)'
      BY <2>7, <3>1, <3>2, <3>3, <3>6, <3>7 DEF JoinOk
    <3>9. sock[c] = "playing" \/ pending = c
      BY <1>1, <1>2, <2>8 DEF PlaceOk
    <3>10. \A x \in Elements(down[c])' : x.type # "JOIN"
      <4>1. \A x \in Elements(down[c])' : x # JoinReply(TRUE)
        BY <3>7 DEF Elements
      <4>2. \A x \in Elements(down[c]) : x # JoinReply(FALSE)
        BY <1>1, <3>9 DEF PlaceOk
      <4>3. \A x \in Elements(down[c]) : x \in DownMsg
        BY <1>2, ElementsOf
      <4>4. \A x \in DownMsg : x.type = "JOIN" => x = JoinReply(TRUE) \/ x = JoinReply(FALSE)
        BY DEF DownMsg, Broadcast, WorldCommand, Ready, EofMsg, JoinReply
      <4> QED BY <2>3, <4>1, <4>2, <4>3, <4>4
    <3>11. m.type # "GAME"
      BY <1>4, <2>8
    <3> QED BY <2>1, <2>2, <2>8, <3>1, <3>8, <3>9, <3>10, <3>11, JoiningFine DEF m
  <2>9. CASE phase[c] = "sync"
    <3>1. m.type = "SYNC" /\ Joins(c, m.new)
      BY <1>1, <1>2, <2>9 DEF JoinOk
    <3>2. phase'[c] = "game" /\ mc'[c] = m.new /\ cmdQ' = cmdQ
      BY <1>3, <2>1, <2>9, <3>1
    <3>3. PICK k : k = m.new /\ Joins(c, k)
      BY <3>1
    <3>4. Joins(c, k)'
      BY <2>5, <3>3
    <3>5. Joins(c, mc[c])'
      BY <3>2, <3>3, <3>4 DEF Joins
    <3>6. \A x \in Elements(down[c]) : x.type # "JOIN"
      BY <1>1, <2>9 DEF PlaceOk
    <3>7. \A i \in DOMAIN down'[c] : down'[c][i] # JoinReply(TRUE)
      BY <1>4, <2>3, <3>6 DEF Elements
    <3>8. JoinOk(c)'
      BY <2>7, <3>2, <3>5, <3>7 DEF JoinOk
    <3>9. sock[c] = "playing" \/ pending = c
      <4>1. sock[c] \in {"none", "backlog", "connected", "playing", "kicked"}
        BY DEF IInv, SockInv
      <4> QED BY <1>1, <2>9, <4>1 DEF PlaceOk
    <3>10. 1 <= mc'[c]
      <4>1. m \in Waiting(c)
        BY <1>2 DEF Waiting
      <4>2. m.new \in Nat /\ m.mc \in Nat
        BY <3>1, <4>1, WaitingForms
      <4>3. m.mc < m.new
        BY <3>1, <4>1, FineTimes DEF SyncsOk
      <4> QED BY <3>2, <4>2, <4>3
    <3> QED BY <2>1, <2>2, <2>3, <2>9, <3>1, <3>2, <3>6, <3>8, <3>9, <3>10, JoiningFine DEF m
  <2>10. CASE phase[c] = "game" /\ m.type = "GAME"
    BY <1>3, <2>1, <2>2, <2>10 DEF m
  <2>11. CASE phase[c] \in {"join", "game"} /\ m.type # "GAME" /\ m # JoinReply(TRUE)
    <3>1. UNCHANGED <<phase, sync, mc, world, cmdQ, barrier>>
      BY <2>1, <2>11
    <3>2. phase[c] = "game" => \A x \in Elements(down[c]) : x.type # "JOIN"
      BY <1>1 DEF PlaceOk
    <3>3. phase[c] = "game" => sock[c] = "playing" \/ pending = c
      <4>1. sock[c] \in {"none", "backlog", "connected", "playing", "kicked"}
        BY DEF IInv, SockInv
      <4> QED BY <1>1, <4>1 DEF PlaceOk
    <3>4. phase[c] = "game" => Joins(c, mc[c])'
      <4>1. PICK k : k = mc[c]
        OBVIOUS
      <4>2. phase[c] = "game" => Joins(c, k)
        BY <1>1, <4>1 DEF JoinOk
      <4>3. phase[c] = "game" => Joins(c, k)'
        BY <2>5, <4>2
      <4> QED BY <3>1, <4>1, <4>3 DEF Joins
    <3>5. pending = c /\ phase[c] = "join" => \E i \in DOMAIN down'[c] : down'[c][i] = JoinReply(TRUE)
      <4>1. ASSUME pending = c, phase[c] = "join" PROVE \E i \in DOMAIN down'[c] : down'[c][i] = JoinReply(TRUE)
        <5>1. PICK i \in DOMAIN down[c] : down[c][i] = JoinReply(TRUE)
          BY <1>1, <4>1 DEF JoinOk
        <5>2. i # 1
          BY <1>2, <2>11, <5>1
        <5>3. i - 1 \in DOMAIN down'[c] /\ down'[c][i - 1] = JoinReply(TRUE)
          BY <2>3, <5>1, <5>2
        <5> QED BY <5>3
      <4> QED BY <4>1
    <3>6. JoinOk(c)'
      BY <2>2, <2>6, <2>7, <2>11, <3>1, <3>4, <3>5 DEF JoinOk
    <3>7. phase[c] = "game" => 1 <= mc[c]
      BY <1>1 DEF KnownOk
    <3> QED BY <2>1, <2>2, <2>3, <2>11, <3>1, <3>2, <3>3, <3>6, <3>7, JoiningFine DEF m
  <2>12. phase[c] = "join" => m.type # "GAME"
    <3>1. 1..(1 - 1) = {}
      OBVIOUS
    <3> QED BY <1>1, <1>2, <3>1 DEF JoinOk
  <2>13. phase[c] = "game" => m # JoinReply(TRUE)
    BY <1>1, <1>2, <1>4 DEF PlaceOk
  <2> QED BY <2>8, <2>9, <2>10, <2>11, <2>12, <2>13
<1> QED BY <1>6, <1>7

(* The first step of the game is one that the server is not about to play, when it receives *)
LEMMA DueIsLater ==
  ASSUME IInv, Agreement, Due(Server)
  PROVE  0 < sync[Server]
<1>1. ServerOk /\ sync[Server] \in Nat
  BY NodesFacts DEF Agreement, IInv, NodeInv
<1>2. Queued(Head(cmdQ[Server]), sync[Server], mc[Server], world[Server], lastMc) /\ Head(cmdQ[Server]).step = sync[Server]
  BY <1>1, DueAtServer
<1> QED BY <1>1, <1>2 DEF Queued

(* A client loads the game that it waited for *)
LEMMA GameLoadFine ==
  ASSUME IInv, IInv', Agreement, InSync, NEW c \in Clients, ClientFrame(c), sock' = sock,
         phase[c] = "game", down[c] # <<>>, Head(down[c]).type = "GAME", phase'[c] = "pause", sync'[c] = 0,
         barrier'[c] = 0, down'[c] = Tail(down[c]), up' = up, mc' = mc, cmdQ' = cmdQ
  PROVE  ClientFine(c)'
<1>1. /\ PlaceOk(c) /\ JoinOk(c) /\ ReadyOk(c) /\ TimeOk(c) /\ CheckedOk(c) /\ KnownOk(c) /\ SockFine(c)
  BY FineTimes DEF Agreement
<1>2. /\ Claims(c)' = Claims(c) /\ Elements(up[c])' = Elements(up[c]) /\ Sent(c)' = Sent(c)
      /\ Asking(c)' = Asking(c) /\ Elements(cmdQ[c])' = Elements(cmdQ[c]) /\ Elements(sendq[c])' = Elements(sendq[c])
      /\ pending' = pending /\ lastMc' = lastMc
  BY DEF ClientFrame, Elements, Sent, Asking, From
<1>3. /\ Head(down[c]) = down[c][1] /\ 1 \in DOMAIN down[c]
      /\ \A i \in DOMAIN down'[c] : i \in Nat /\ i > 0 /\ i + 1 \in DOMAIN down[c] /\ down'[c][i] = down[c][i + 1]
      /\ Elements(down[c])' \subseteq Elements(down[c])
      /\ \A i \in DOMAIN down[c] : i \in Nat
  BY ReadShift
<1>4. /\ 1 + 1 \in DOMAIN down[c] /\ down[c][1 + 1].type = "READY" /\ sock[c] = "playing"
      /\ down[c][1 + 1].mc = mc[c]
  BY <1>1, <1>3 DEF JoinOk, Joins
<1>5. /\ \A j \in DOMAIN down[c] : down[c][j].type = "READY" => j = 1 + 1
      /\ \A m \in Sent(c) : m.type # "READY"
  BY <1>1, <1>4 DEF ReadyOk
<1>6. \A i \in DOMAIN down'[c] : down'[c][i].type # "GAME"
  <2>1. ASSUME NEW i \in DOMAIN down'[c], down'[c][i].type = "GAME" PROVE FALSE
    <3>1. i \in Nat /\ i > 0 /\ i + 1 \in DOMAIN down[c] /\ down[c][i + 1].type = "GAME"
      BY <1>3, <2>1
    <3>2. (i + 1) + 1 \in DOMAIN down[c] /\ down[c][(i + 1) + 1].type = "READY"
      BY <1>1, <3>1 DEF JoinOk
    <3>3. (i + 1) + 1 = 1 + 1
      BY <1>5, <3>2
    <3> QED BY <3>1, <3>3
  <2> QED BY <2>1
<1>7. pending # c /\ ~Asking(c) /\ \A m \in Elements(up[c]) : m.type # "EOF"
  BY <1>1, <1>4 DEF PlaceOk
<1>8. cmdQ[c] = <<>> /\ Elements(cmdQ[c]) = {}
  BY <1>1 DEF SockFine, Elements
<1>9. \A m \in Elements(down[c])' : m.type # "EOF" /\ m.type # "JOIN" /\ m.type # "GAME"
  <2>1. \A m \in Elements(down[c])' : m.type # "GAME"
    BY <1>6 DEF Elements
  <2> QED BY <1>1, <1>3, <2>1 DEF PlaceOk
<1>10. PlaceOk(c)'
  BY <1>1, <1>2, <1>4, <1>7, <1>9 DEF PlaceOk, InGame, JoinReply
<1>11. JoinOk(c)'
  <2>1. \A i \in DOMAIN down'[c] : down'[c][i] # JoinReply(TRUE)
    BY <1>9 DEF Elements, JoinReply
  <2> QED BY <1>2, <1>6, <1>7, <2>1 DEF JoinOk
<1>12. ReadyOk(c)'
  <2>1. ASSUME NEW i \in DOMAIN down'[c], down'[c][i].type = "READY"
        PROVE  i = 1 /\ down'[c][i].mc = mc'[c]
    <3>1. i \in Nat /\ i + 1 \in DOMAIN down[c] /\ down'[c][i] = down[c][i + 1]
      BY <1>3
    <3>2. i + 1 = 1 + 1
      BY <1>5, <2>1, <3>1
    <3> QED BY <1>4, <3>1, <3>2
  <2>2. \A i \in DOMAIN up'[c] : up'[c][i].type # "READY"
    BY <1>2, <1>5 DEF Sent, Elements
  <2> QED BY <1>2, <1>4, <1>5, <1>8, <2>1, <2>2 DEF ReadyOk
<1>13. ASSUME NEW m \in Elements(down[c])', Acts(m) PROVE 0 < m.step
  <2>1. PICK i \in DOMAIN down'[c] : m = down'[c][i]
    BY <1>13 DEF Elements
  <2>2. i \in Nat /\ i > 0 /\ i + 1 \in DOMAIN down[c] /\ m = down[c][i + 1]
    BY <1>3, <2>1
  <2>3. i + 1 # 1 + 1
    BY <1>4, <1>13, <2>2 DEF Acts
  <2>4. 1 + 1 < i + 1
    BY <2>2, <2>3
  <2>5. Told(down[c][1 + 1]) < m.step
    BY <1>1, <1>4, <1>13, <2>2, <2>4 DEF TimeOk, IsNews
  <2>6. down[c][1 + 1] \in Ready
    <3>1. down[c][1 + 1] \in Elements(down[c])
      BY <1>4 DEF Elements
    <3>2. down[c][1 + 1] \in DownMsgTo(sync[Server])
      BY <3>1, WaitingTypes
    <3> QED BY <1>4, <3>2, MessageCases, NodesFacts DEF IInv, NodeInv
  <2>7. Told(down[c][1 + 1]) \in Nat
    BY <2>6 DEF Ready, Told
  <2>8. m.step \in Nat
    BY <1>3, <1>13, WaitingForms DEF Waiting
  <2> QED BY <2>5, <2>7, <2>8
<1>14. sync[Server] \in Nat /\ sync'[Server] = sync[Server] /\ sendq' = sendq /\ stage' = stage
  BY NodesFacts DEF IInv, NodeInv, ClientFrame
<1>15. TimeOk(c)'
  <2>1. ASSUME NEW i \in DOMAIN down'[c], NEW j \in DOMAIN down'[c], i < j, IsNews(down'[c][i]), Acts(down'[c][j])
        PROVE  Told(down'[c][i]) < down'[c][j].step
    <3>1. i + 1 < j + 1 /\ i + 1 \in DOMAIN down[c] /\ j + 1 \in DOMAIN down[c]
          /\ down'[c][i] = down[c][i + 1] /\ down'[c][j] = down[c][j + 1]
      BY <1>3, <2>1
    <3> QED BY <1>1, <2>1, <3>1 DEF TimeOk
  <2>2. \A m \in Elements(sendq[c])' : Acts(m) => m.step = sync'[Server] + 1
    BY <1>1, <1>2, <1>14 DEF TimeOk
  <2>3. \A m \in Waiting(c)' : m.type = "SYNC" => sync'[c] < m.step
    <3>1. Waiting(c)' = Elements(down[c])' \cup Elements(sendq[c])'
      BY <1>2, <1>8 DEF Waiting
    <3>2. \A m \in Elements(sendq[c])' : m.type = "SYNC" => 0 < m.step
      BY <1>14, <2>2 DEF Acts
    <3>3. \A m \in Elements(down[c])' : m.type = "SYNC" => 0 < m.step
      BY <1>13 DEF Acts
    <3> QED BY <3>1, <3>2, <3>3
  <2>4. /\ stage' = "run" => sendq'[c] = <<>>
        /\ sync'[c] <= barrier'[c]
        /\ \A m \in Elements(down[c])' : Acts(m) => barrier'[c] < m.step
        /\ \A m \in Elements(cmdQ[c])' : FALSE
    BY <1>1, <1>2, <1>8, <1>13, <1>14 DEF TimeOk
  <2> QED BY <2>1, <2>2, <2>3, <2>4 DEF TimeOk
<1>16. CheckedOk(c)'
  <2>1. \A m : Checked(m)' <=> Checked(m)
    BY DEF Checked, ClientFrame
  <2>2. ASSUME NEW i \in DOMAIN down'[c] PROVE Checked(down[c][i])'
    <3>1. i + 1 \in DOMAIN down[c] /\ down'[c][i] = down[c][i + 1] /\ 1 \in 1..((i + 1) - 1)
      BY <1>3
    <3>2. Checked(down'[c][i])
      BY <1>1, <1>3, <3>1 DEF CheckedOk
    <3> QED BY <3>2 DEF Checked, ClientFrame
  <2>3. sock'[c] = "playing" => \A m \in Elements(cmdQ[c])' \cup Elements(sendq[c])' : Checked(m)'
    BY <1>1, <1>2, <2>1 DEF CheckedOk
  <2>4. \A m \in Sent(c)' : m.type \in {"READY", "REQUEST"} =>
          m.step <= sync'[Server] /\ m.chk = ChecklistAt(world'[Server], m.step)
    BY <1>1, <1>2 DEF CheckedOk, ClientFrame
  <2> QED BY <2>2, <2>3, <2>4 DEF CheckedOk
<1>17. KnownOk(c)'
  BY <1>1, <1>2, <1>5 DEF KnownOk, Sent
<1>18. SyncsOk(c)'
  BY <1>2, <1>3, ClientSyncs DEF Waiting
<1> QED BY <1>10, <1>11, <1>12, <1>15, <1>16, <1>17, <1>18 DEF ClientFine

(* What nearly every step of a client in the game keeps *)
LEMMA InGameFine ==
  ASSUME IInv, IInv', InSync, NEW c \in Clients, ClientFrame(c), sock' = sock, InGame(c), InGame(c)',
         Elements(down[c])' \subseteq Elements(down[c]),
         Elements(cmdQ[c])' \subseteq Elements(cmdQ[c]) \cup Elements(down[c]),
         \A m \in Elements(up[c])' : m \in Elements(up[c]) \/
           (/\ m.type \in {"READY", "REQUEST"} /\ m.step <= sync[Server]
            /\ m.chk = ChecklistAt(world[Server], m.step))
  PROVE  PlaceOk(c)' /\ JoinOk(c)' /\ SyncsOk(c)' /\ CheckedOk(c)'
<1>1. PlaceOk(c) /\ JoinOk(c) /\ CheckedOk(c)
  BY FineTimes
<1>2. /\ Claims(c)' = Claims(c) /\ Elements(sendq[c])' = Elements(sendq[c]) /\ pending' = pending /\ lastMc' = lastMc
      /\ sync'[Server] = sync[Server] /\ world'[Server] = world[Server]
  BY DEF ClientFrame, Elements
<1>3. sock[c] = "playing" /\ pending # c /\ ~Asking(c) /\ phase[c] # "out" /\ phase[c] # "join"
  BY <1>1 DEF PlaceOk, InGame
<1>4. \A m \in Sent(c)' : m \in Sent(c) \/
           (/\ m.type \in {"READY", "REQUEST"} /\ m.step <= sync[Server]
            /\ m.chk = ChecklistAt(world[Server], m.step))
  BY <1>2 DEF Sent
<1>5. ~Asking(c)'
  <2>1. \A m \in Sent(c)' : m.type # "JOIN"
    BY <1>3, <1>4, AskingIsSent
  <2> QED BY <2>1 DEF Asking, Sent, Elements, Claims
<1>6. \A m \in Elements(down[c]) : m.type # "EOF" /\ m.type # "JOIN" /\ m.type # "GAME"
  <2>1. \A m \in Elements(down[c]) : m.type # "GAME"
    BY <1>1 DEF JoinOk, InGame, Elements
  <2> QED BY <1>1, <1>3, <2>1 DEF PlaceOk
<1>7. \A m \in Elements(up[c])' : m.type # "EOF"
  BY <1>1, <1>3 DEF PlaceOk
<1>8. PlaceOk(c)'
  <2>1. \A m : m.type # "JOIN" => m # JoinReply(TRUE) /\ m # JoinReply(FALSE)
    BY DEF JoinReply
  <2>2. phase'[c] # "desync" /\ phase'[c] # "out"
    BY DEF InGame
  <2> QED BY <1>2, <1>3, <1>5, <1>6, <1>7, <2>1, <2>2 DEF PlaceOk
<1>9. JoinOk(c)'
  <2>1. \A i \in DOMAIN down'[c] : down'[c][i] # JoinReply(TRUE) /\ down'[c][i].type # "GAME"
    BY <1>6 DEF Elements, JoinReply
  <2> QED BY <1>2, <1>3, <2>1 DEF JoinOk, InGame
<1>10. SyncsOk(c)'
  BY <1>2, ClientSyncs DEF Waiting
<1>11. CheckedOk(c)'
  <2>1. \A m : Checked(m)' <=> Checked(m)
    BY <1>2 DEF Checked
  <2>2. \A m \in Elements(down[c]) \cup Elements(cmdQ[c]) \cup Elements(sendq[c]) : Checked(m)
    BY <1>1, <1>3 DEF CheckedOk, Elements
  <2>3. ASSUME NEW i \in DOMAIN down'[c] PROVE Checked(down[c][i])'
    <3>1. Checked(down'[c][i])
      BY <2>2, <2>3 DEF Elements
    <3> QED BY <1>2, <3>1 DEF Checked
  <2>4. \A m \in Elements(cmdQ[c])' \cup Elements(sendq[c])' : Checked(m)'
    BY <1>2, <2>1, <2>2
  <2>5. \A m \in Sent(c)' : m.type \in {"READY", "REQUEST"} =>
          m.step <= sync'[Server] /\ m.chk = ChecklistAt(world'[Server], m.step)
    BY <1>1, <1>2, <1>4 DEF CheckedOk
  <2> QED BY <2>3, <2>4, <2>5 DEF CheckedOk
<1> QED BY <1>8, <1>9, <1>10, <1>11

(* A client in the game reads a message that does not let it go on from a pause *)
LEMMA GameReadFine ==
  ASSUME IInv, IInv', Agreement, InSync, NEW c \in Clients, ClientFrame(c), sock' = sock, InGame(c), down[c] # <<>>,
         down'[c] = Tail(down[c]), up' = up, phase' = phase, sync' = sync, mc' = mc,
         Elements(cmdQ[c])' \subseteq Elements(cmdQ[c]) \cup {Head(down[c])},
         \/ barrier'[c] = barrier[c]
         \/ barrier[c] <= barrier'[c] /\ IsNews(Head(down[c])) /\ barrier'[c] = Told(Head(down[c]))
  PROVE  ClientFine(c)'
<1>1. ReadyOk(c) /\ TimeOk(c) /\ KnownOk(c)
  BY FineTimes
<1>2. /\ Claims(c)' = Claims(c) /\ Elements(up[c])' = Elements(up[c]) /\ Sent(c)' = Sent(c)
      /\ Elements(sendq[c])' = Elements(sendq[c]) /\ sendq' = sendq /\ stage' = stage /\ lastMc' = lastMc
  BY DEF ClientFrame, Elements, Sent, From
<1>3. /\ Head(down[c]) = down[c][1] /\ 1 \in DOMAIN down[c] /\ Head(down[c]) \in Elements(down[c])
      /\ \A i \in DOMAIN down'[c] : i \in Nat /\ i > 0 /\ i + 1 \in DOMAIN down[c] /\ down'[c][i] = down[c][i + 1]
      /\ Elements(down[c])' \subseteq Elements(down[c])
  BY ReadShift
<1>4. PlaceOk(c)' /\ JoinOk(c)' /\ SyncsOk(c)' /\ CheckedOk(c)'
  BY <1>2, <1>3, InGameFine DEF InGame
<1>5. KnownOk(c)'
  BY <1>1, <1>2 DEF KnownOk, ClientFrame, GoesOn
<1>6. ReadyOk(c)'
  <2>1. ASSUME NEW i \in DOMAIN down'[c], down'[c][i].type = "READY"
        PROVE  /\ \A j \in DOMAIN down'[c] : down'[c][j].type = "READY" => j = i
               /\ \A m \in Sent(c) : m.type # "READY"
               /\ sock[c] = "playing" /\ phase[c] = "pause" /\ down'[c][i].mc = mc[c] /\ down'[c][i].step = sync[c]
    <3>1. i \in Nat /\ i > 0 /\ i + 1 \in DOMAIN down[c] /\ down'[c][i] = down[c][i + 1]
      BY <1>3
    <3>2. i + 1 # 1
      BY <3>1
    <3>3. /\ \A j \in DOMAIN down[c] : down[c][j].type = "READY" => j = i + 1
          /\ \A m \in Sent(c) : m.type # "READY"
          /\ sock[c] = "playing" /\ phase[c] = "pause" /\ down[c][i + 1].mc = mc[c] /\ down[c][i + 1].step = sync[c]
      BY <1>1, <2>1, <3>1, <3>2 DEF ReadyOk, InGame
    <3>4. ASSUME NEW j \in DOMAIN down'[c], down'[c][j].type = "READY" PROVE j = i
      <4>1. j \in Nat /\ j + 1 \in DOMAIN down[c] /\ down'[c][j] = down[c][j + 1]
        BY <1>3
      <4>2. j + 1 = i + 1
        BY <3>3, <3>4, <4>1
      <4> QED BY <3>1, <4>1, <4>2
    <3> QED BY <3>1, <3>3, <3>4
  <2> QED BY <1>1, <1>2, <2>1 DEF ReadyOk
<1>7. TimeOk(c)'
  <2>1. ASSUME NEW i \in DOMAIN down'[c], NEW j \in DOMAIN down'[c], i < j, IsNews(down'[c][i]), Acts(down'[c][j])
        PROVE  Told(down'[c][i]) < down'[c][j].step
    <3>1. i + 1 < j + 1 /\ i + 1 \in DOMAIN down[c] /\ j + 1 \in DOMAIN down[c]
          /\ down'[c][i] = down[c][i + 1] /\ down'[c][j] = down[c][j + 1]
      BY <1>3, <2>1
    <3> QED BY <1>1, <2>1, <3>1 DEF TimeOk
  <2>2. ASSUME NEW m \in Elements(down[c])', Acts(m) PROVE barrier'[c] < m.step
    <3>1. barrier[c] < m.step
      BY <1>1, <1>3, <2>2 DEF TimeOk
    <3>2. PICK i \in DOMAIN down'[c] : m = down'[c][i]
      BY <2>2 DEF Elements
    <3>3. i + 1 \in DOMAIN down[c] /\ m = down[c][i + 1] /\ 1 < i + 1
      BY <1>3, <3>2
    <3>4. IsNews(Head(down[c])) => Told(Head(down[c])) < m.step
      BY <1>1, <1>3, <2>2, <3>3 DEF TimeOk
    <3> QED BY <3>1, <3>4
  <2>3. sync[c] \in Nat /\ barrier[c] \in Nat /\ barrier'[c] \in Nat /\ sync[c] <= barrier[c]
    BY <1>1, NodesFacts DEF TimeOk, IInv, NodeInv
  <2>4. ASSUME NEW m \in Elements(cmdQ[c])', Acts(m) PROVE sync[c] <= m.step
    <3>1. CASE m \in Elements(cmdQ[c])
      BY <1>1, <2>4, <3>1 DEF TimeOk
    <3>2. CASE m \in Elements(down[c])
      <4>1. barrier[c] < m.step
        BY <1>1, <2>4, <3>2 DEF TimeOk
      <4>2. m.step \in Nat
        BY <2>4, <3>2, WaitingForms DEF Waiting
      <4> QED BY <2>3, <4>1, <4>2
    <3> QED BY <1>3, <3>1, <3>2
  <2>5. Waiting(c)' \subseteq Waiting(c)
    BY <1>2, <1>3 DEF Waiting
  <2>6. phase'[c] = "pause" => \A m \in Waiting(c)' : m.type = "SYNC" /\ m.mc = mc'[c] => sync'[c] < m.step
    BY <1>1, <2>5 DEF TimeOk
  <2>7. sync'[c] <= barrier'[c]
    BY <2>3
  <2>8. (\A m \in Elements(sendq[c])' : Acts(m) => m.step = sync'[Server] + 1) /\ (stage' = "run" => sendq'[c] = <<>>)
    BY <1>1, <1>2 DEF TimeOk
  <2> QED BY <2>1, <2>2, <2>4, <2>6, <2>7, <2>8 DEF TimeOk
<1> QED BY <1>4, <1>5, <1>6, <1>7 DEF ClientFine

(* A client hears that it may go on *)
LEMMA ResumeFine ==
  ASSUME IInv, IInv', Agreement, InSync, NEW c \in Clients, ClientFrame(c), sock' = sock, InGame(c), down[c] # <<>>,
         Head(down[c]).type = "READY", down'[c] = Tail(down[c]), up' = up, phase'[c] = "run", mc' = mc, cmdQ' = cmdQ,
         sync'[c] = Head(down[c]).step, barrier'[c] = Head(down[c]).step
  PROVE  ClientFine(c)'
<1>1. ReadyOk(c) /\ TimeOk(c) /\ KnownOk(c)
  BY FineTimes
<1>2. /\ Claims(c)' = Claims(c) /\ Elements(up[c])' = Elements(up[c]) /\ Sent(c)' = Sent(c)
      /\ Elements(cmdQ[c])' = Elements(cmdQ[c])
      /\ Elements(sendq[c])' = Elements(sendq[c]) /\ sendq' = sendq /\ stage' = stage /\ lastMc' = lastMc
  BY DEF ClientFrame, Elements, Sent, From
<1>3. /\ Head(down[c]) = down[c][1] /\ 1 \in DOMAIN down[c] /\ Head(down[c]) \in Elements(down[c])
      /\ \A i \in DOMAIN down'[c] : i \in Nat /\ i > 0 /\ i + 1 \in DOMAIN down[c] /\ down'[c][i] = down[c][i + 1]
      /\ Elements(down[c])' \subseteq Elements(down[c])
  BY ReadShift
<1>4. PlaceOk(c)' /\ JoinOk(c)' /\ SyncsOk(c)' /\ CheckedOk(c)'
  BY <1>2, <1>3, InGameFine DEF InGame
<1>5. KnownOk(c)'
  BY <1>1, <1>2 DEF KnownOk, ClientFrame, GoesOn, InGame
<1>6. /\ \A j \in DOMAIN down[c] : down[c][j].type = "READY" => j = 1
      /\ \A m \in Sent(c) : m.type # "READY"
      /\ Head(down[c]).step = sync[c] \/ cmdQ[c] = <<>>
  BY <1>1, <1>3 DEF ReadyOk, InGame
<1>7. ReadyOk(c)'
  <2>1. ASSUME NEW i \in DOMAIN down'[c], down'[c][i].type = "READY" PROVE FALSE
    <3>1. i \in Nat /\ i > 0 /\ i + 1 \in DOMAIN down[c] /\ down[c][i + 1].type = "READY"
      BY <1>3, <2>1
    <3>2. i + 1 = 1
      BY <1>6, <3>1
    <3> QED BY <3>1, <3>2
  <2>2. \A i \in DOMAIN up'[c] : up'[c][i].type # "READY"
    BY <1>2, <1>6 DEF Sent, Elements
  <2> QED BY <1>2, <1>6, <2>1, <2>2 DEF ReadyOk
<1>8. TimeOk(c)'
  <2>1. ASSUME NEW i \in DOMAIN down'[c], NEW j \in DOMAIN down'[c], i < j, IsNews(down'[c][i]), Acts(down'[c][j])
        PROVE  Told(down'[c][i]) < down'[c][j].step
    <3>1. i + 1 < j + 1 /\ i + 1 \in DOMAIN down[c] /\ j + 1 \in DOMAIN down[c]
          /\ down'[c][i] = down[c][i + 1] /\ down'[c][j] = down[c][j + 1]
      BY <1>3, <2>1
    <3> QED BY <1>1, <2>1, <3>1 DEF TimeOk
  <2>2. ASSUME NEW m \in Elements(down[c])', Acts(m) PROVE barrier'[c] < m.step
    <3>1. PICK i \in DOMAIN down'[c] : m = down'[c][i]
      BY <2>2 DEF Elements
    <3>2. i + 1 \in DOMAIN down[c] /\ m = down[c][i + 1] /\ 1 < i + 1
      BY <1>3, <3>1
    <3>3. Told(Head(down[c])) < m.step
      BY <1>1, <1>3, <2>2, <3>2 DEF TimeOk, IsNews
    <3> QED BY <3>3 DEF Told
  <2>3. sync'[c] \in Nat /\ sync'[c] <= barrier'[c]
    BY NodesFacts DEF IInv, NodeInv
  <2>4. ASSUME NEW m \in Elements(cmdQ[c])', Acts(m) PROVE sync'[c] <= m.step
    <3>1. sync'[c] = sync[c]
      BY <1>2, <1>6, <2>4 DEF Elements
    <3> QED BY <1>1, <1>2, <2>4, <3>1 DEF TimeOk
  <2>5. (\A m \in Elements(sendq[c])' : Acts(m) => m.step = sync'[Server] + 1) /\ (stage' = "run" => sendq'[c] = <<>>)
    BY <1>1, <1>2 DEF TimeOk, ClientFrame
  <2> QED BY <2>1, <2>2, <2>3, <2>4, <2>5 DEF TimeOk
<1> QED BY <1>4, <1>5, <1>7, <1>8 DEF ClientFine

(* A client in the game reads a message, whatever it is *)
LEMMA GameStepFine ==
  ASSUME IInv, IInv', Agreement, InSync, NEW c \in Clients, ClientFrame(c), sock' = sock, InGame(c), down[c] # <<>>,
         GameStep(c, Head(down[c]))
  PROVE  /\ ClientFine(c)' /\ Elements(down[c])' \subseteq Elements(down[c])
         /\ LateOk /\ stage # "run" /\ Due(Server) => barrier'[c] < sync[Server]
<1> DEFINE m == Head(down[c])
<1>1. /\ phase \in [Nodes -> {"out", "join", "sync", "game", "pause", "run", "desync"}]
      /\ mc \in [Nodes -> Nat] /\ c \in Nodes
      /\ down \in [Clients -> Seq(DownMsgTo(sync[Server]))]
      /\ sync \in [Nodes -> Nat] /\ barrier \in [Nodes -> Nat]
      /\ cmdQ \in [Nodes -> Seq(WorldCommand)]
  BY NodesFacts DEF IInv, NodeInv, SockInv
<1>2. PlaceOk(c) /\ JoinOk(c) /\ ReadyOk(c) /\ TimeOk(c)
  BY FineTimes
<1>3. m = down[c][1] /\ 1 \in DOMAIN down[c] /\ m \in Elements(down[c]) /\ down[c] \in Seq(DownMsg)
  <2>1. down[c] \in Seq(DownMsg)
    BY DownTypes
  <2> QED BY <2>1, ElementsFirst
<1>4. GameStep(c, m)
  OBVIOUS
<1>5. /\ LateOk /\ stage # "run" /\ Due(Server) => barrier[c] < sync[Server]
      /\ LateOk /\ stage # "run" /\ Due(Server) /\ IsNews(m) => Told(m) < sync[Server]
  BY <1>3 DEF LateOk
<1>6. m \in DownMsgTo(sync[Server]) /\ m \in Waiting(c)
  BY <1>3, WaitingTypes DEF Waiting
<1>7. m.type # "EOF" /\ m.type # "JOIN" /\ m.type # "GAME"
  BY <1>2, <1>3 DEF PlaceOk, JoinOk, InGame
<1>8. Acts(m) => m.step \in Nat /\ sync[c] <= m.step
  <2>1. Acts(m) => m.step \in Nat /\ barrier[c] < m.step /\ sync[c] <= barrier[c]
    BY <1>2, <1>3, <1>6, WaitingForms DEF TimeOk
  <2> QED BY <1>1, <2>1
<1>9. m.type = "READY" => m.mc = mc[c]
  BY <1>2, <1>3 DEF ReadyOk, InGame
<1>10. IsNews(m) => Told(m) \in Int /\ Told(m) <= sync[Server]
  BY <1>1, <1>6, NewsReached, NodesFacts DEF DownMsgTo
<1> HIDE DEF m
<1>11. ASSUME NEW s \in Int, RaiseBarrier(c, s) PROVE barrier'[c] = barrier[c] \/ (barrier[c] <= barrier'[c] /\ barrier'[c] = s)
  BY <1>1, <1>11 DEF RaiseBarrier
<1>12. Elements(Insert(cmdQ[c], m))  = Elements(cmdQ[c]) \cup {m} \/ ~IsWorldCommand(m)
  BY <1>1, <1>6, ElementsInserted, WaitingForms
<1>13. CASE m.type = "STEP"
  <2>1. RaiseBarrier(c, m.step) /\ down' = [down EXCEPT ![c] = Tail(@)] /\ UNCHANGED <<phase, sync, mc, world, cmdQ, up>>
    BY <1>4, <1>13 DEF GameStep
  <2>2. IsNews(m) /\ Told(m) = m.step /\ m.step \in Int
    BY <1>10, <1>13 DEF IsNews, Told
  <2>3. barrier'[c] = barrier[c] \/ (barrier[c] <= barrier'[c] /\ barrier'[c] = Told(m))
    BY <1>11, <2>1, <2>2
  <2>4. down'[c] = Tail(down[c]) /\ Elements(cmdQ[c])' = Elements(cmdQ[c])
    BY <1>1, <2>1 DEF Elements
  <2>5. ClientFine(c)'
    BY <2>1, <2>2, <2>3, <2>4, GameReadFine DEF m
  <2> QED BY <1>5, <2>2, <2>3, <2>4, <2>5, ReadShift
<1>14. CASE m.type = "CHECK"
  <2>1. RaiseBarrier(c, m.step - 1) /\ down' = [down EXCEPT ![c] = Tail(@)] /\ UNCHANGED <<phase, sync, mc, world, up>>
        /\ cmdQ' = [cmdQ EXCEPT ![c] = IF m.step < sync[c] THEN @ ELSE Insert(@, m)]
    BY <1>4, <1>14 DEF GameStep
  <2>2. IsNews(m) /\ Told(m) = m.step - 1 /\ m.step - 1 \in Int /\ IsWorldCommand(m)
    BY <1>10, <1>14 DEF IsNews, Told, IsWorldCommand
  <2>3. barrier'[c] = barrier[c] \/ (barrier[c] <= barrier'[c] /\ barrier'[c] = Told(m))
    BY <1>11, <2>1, <2>2
  <2> DEFINE q == Insert(cmdQ[c], m)
  <2>4. Elements(q) = Elements(cmdQ[c]) \cup {m} /\ cmdQ' = [cmdQ EXCEPT ![c] = IF m.step < sync[c] THEN cmdQ[c] ELSE q]
    BY <1>12, <2>1, <2>2
  <2> HIDE DEF q
  <2>5. down'[c] = Tail(down[c]) /\ cmdQ'[c] \in {cmdQ[c], q}
    BY <1>1, <2>1, <2>4
  <2>6. Elements(cmdQ[c])' = Elements(cmdQ'[c])
    BY DEF Elements
  <2>7. Elements(cmdQ[c])' \subseteq Elements(cmdQ[c]) \cup {m}
    BY <2>4, <2>5, <2>6
  <2>8. ClientFine(c)'
    BY <2>1, <2>2, <2>3, <2>5, <2>7, GameReadFine DEF m
  <2> QED BY <1>5, <2>2, <2>3, <2>5, <2>8, ReadShift
<1>15. CASE Acts(m)
  <2>1. cmdQ' = [cmdQ EXCEPT ![c] = Insert(@, m)] /\ down' = [down EXCEPT ![c] = Tail(@)]
        /\ UNCHANGED <<phase, sync, mc, world, barrier, up>>
    <3>1. m.type \in {"TOOL", "SYNC"} /\ ~(m.step < sync[c])
      BY <1>1, <1>8, <1>15 DEF Acts
    <3> QED BY <1>4, <3>1 DEF GameStep
  <2> DEFINE q == Insert(cmdQ[c], m)
  <2>2. Elements(q) = Elements(cmdQ[c]) \cup {m} /\ cmdQ' = [cmdQ EXCEPT ![c] = q]
    BY <1>12, <1>15, <2>1 DEF Acts, IsWorldCommand
  <2> HIDE DEF q
  <2>3. down'[c] = Tail(down[c]) /\ cmdQ'[c] = q /\ barrier'[c] = barrier[c]
    BY <1>1, <2>1, <2>2
  <2>4. Elements(cmdQ[c])' = Elements(cmdQ'[c])
    BY DEF Elements
  <2>5. Elements(cmdQ[c])' \subseteq Elements(cmdQ[c]) \cup {m}
    BY <2>2, <2>3, <2>4
  <2>6. ClientFine(c)'
    BY <2>1, <2>3, <2>5, GameReadFine DEF m
  <2> QED BY <1>5, <2>3, <2>6, ReadShift
<1>16. CASE m.type = "READY"
  <2>1. /\ phase' = [phase EXCEPT ![c] = "run"] /\ sync' = [sync EXCEPT ![c] = m.step]
        /\ barrier' = [barrier EXCEPT ![c] = m.step] /\ down' = [down EXCEPT ![c] = Tail(@)]
        /\ UNCHANGED <<mc, world, cmdQ, up>>
    BY <1>4, <1>9, <1>16 DEF GameStep
  <2>2. phase'[c] = "run" /\ sync'[c] = m.step /\ barrier'[c] = m.step /\ down'[c] = Tail(down[c])
    BY <1>1, <2>1
  <2>3. ClientFine(c)'
    BY <1>16, <2>1, <2>2, ResumeFine DEF m
  <2>4. IsNews(m) /\ Told(m) = m.step
    BY <1>16 DEF IsNews, Told
  <2> QED BY <1>5, <2>2, <2>3, <2>4, ReadShift
<1> QED BY <1>4, <1>7, <1>13, <1>14, <1>15, <1>16 DEF GameStep, Acts

LEMMA ReceivingSync ==
  ASSUME IInv, IInv', Agreement, InSync, NEW c \in Clients, CliReceive(c)
  PROVE  InSync'
<1>1. ClientFrame(c) /\ sock' = sock
  BY ClientFramed DEF ClientNext, CliReceive
<1>2. CASE InGame(c)
  <2>1. down[c] # <<>> /\ GameStep(c, Head(down[c]))
    BY <1>2 DEF CliReceive, InGame
  <2> QED BY <1>1, <1>2, <2>1, GameStepFine, ClientLate
<1>3. CASE phase[c] \in {"join", "sync", "game"}
  <2>1. down[c] # <<>> /\ JoinStep(c, Head(down[c]))
    BY <1>3 DEF CliReceive
  <2>2. Elements(down[c])' \subseteq Elements(down[c])
    <3>1. down'[c] = Tail(down[c]) \/ down'[c] = <<>>
      BY <2>1 DEF JoinStep, Disconnect, IInv, SockInv
    <3>2. CASE down'[c] = <<>>
      BY <3>2 DEF Elements
    <3> QED BY <2>1, <3>1, <3>2, ReadShift
  <2>3. CASE /\ phase[c] = "game" /\ Head(down[c]).type = "GAME" /\ phase'[c] = "pause" /\ sync'[c] = 0
             /\ barrier'[c] = 0 /\ down'[c] = Tail(down[c]) /\ up' = up /\ mc' = mc /\ cmdQ' = cmdQ
    <3>1. ClientFine(c)'
      BY <1>1, <2>1, <2>3, GameLoadFine
    <3> QED BY <1>1, <2>2, <2>3, <3>1, DueIsLater, ClientLate
  <2>4. CASE ClientFine(c)' /\ ~InGame(c)'
    BY <1>1, <2>2, <2>4, ClientLate
  <2>5. c \in Nodes /\ phase \in [Nodes -> {"out", "join", "sync", "game", "pause", "run", "desync"}]
        /\ sync \in [Nodes -> Nat] /\ barrier \in [Nodes -> Nat] /\ down \in [Clients -> Seq(DownMsgTo(sync[Server]))]
    BY NodesFacts DEF IInv, NodeInv, SockInv
  <2>6. ClientFine(c)' \/ /\ phase[c] = "game" /\ Head(down[c]).type = "GAME" /\ phase'[c] = "pause" /\ sync'[c] = 0
                          /\ barrier'[c] = 0 /\ down'[c] = Tail(down[c]) /\ up' = up /\ mc' = mc /\ cmdQ' = cmdQ
    BY <1>1, <1>3, <2>1, JoinStepFine
  <2>7. CASE phase[c] = "game" /\ Head(down[c]).type = "GAME"
    BY <2>1, <2>3, <2>5, <2>7 DEF JoinStep
  <2>8. CASE ~(phase[c] = "game" /\ Head(down[c]).type = "GAME")
    <3>1. ~InGame(c)'
      BY <1>3, <2>1, <2>5, <2>8 DEF JoinStep, Disconnect, InGame
    <3> QED BY <2>4, <2>6, <2>8, <3>1
  <2> QED BY <2>7, <2>8
<1> QED BY <1>2, <1>3 DEF CliReceive, InGame

(* A client in the game takes a command out of its queue, or asks for one *)
LEMMA PlayFine ==
  ASSUME IInv, IInv', InSync, NEW c \in Clients, ClientFrame(c), sock' = sock, InGame(c),
         phase' = phase, sync' = sync, mc' = mc, barrier' = barrier, down' = down,
         Elements(cmdQ[c])' \subseteq Elements(cmdQ[c]), cmdQ[c] = <<>> => cmdQ'[c] = <<>>,
         \/ up' = up
         \/ \E x : /\ up'[c] = Append(up[c], x) /\ x.type = "REQUEST" /\ x.step <= sync[Server]
                   /\ x.chk = ChecklistAt(world[Server], x.step)
  PROVE  ClientFine(c)'
<1>1. ReadyOk(c) /\ TimeOk(c) /\ KnownOk(c)
  BY FineTimes
<1>2. /\ Claims(c)' = Claims(c) /\ Elements(sendq[c])' = Elements(sendq[c]) /\ sendq' = sendq /\ stage' = stage /\ lastMc' = lastMc
      /\ Elements(down[c])' = Elements(down[c])
  BY DEF ClientFrame, Elements
<1>3. /\ \A m \in Elements(up[c])' : m \in Elements(up[c]) \/
           (/\ m.type = "REQUEST" /\ m.step <= sync[Server]
            /\ m.chk = ChecklistAt(world[Server], m.step))
      /\ \A i \in DOMAIN up'[c] : up'[c][i].type = "READY" => i \in DOMAIN up[c] /\ up'[c][i] = up[c][i]
  <2>1. CASE up' = up
    BY <2>1 DEF Elements
  <2>2. CASE \E x : /\ up'[c] = Append(up[c], x) /\ x.type = "REQUEST" /\ x.step <= sync[Server]
                    /\ x.chk = ChecklistAt(world[Server], x.step)
    <3>1. PICK x : /\ up'[c] = Append(up[c], x) /\ x.type = "REQUEST" /\ x.step <= sync[Server]
                   /\ x.chk = ChecklistAt(world[Server], x.step)
      BY <2>2
    <3>2. Elements(Append(up[c], x)) = Elements(up[c]) \cup {x}
      BY DownTypes, ElementsAppend
    <3>3. Elements(up[c])' = Elements(up'[c])
      BY DEF Elements
    <3>4. \A i \in DOMAIN up'[c] : up'[c][i].type = "READY" => i \in DOMAIN up[c] /\ up'[c][i] = up[c][i]
      BY <3>1, DownTypes, AppendElements
    <3> QED BY <3>1, <3>2, <3>3, <3>4
  <2> QED BY <2>1, <2>2
<1>4. PlaceOk(c)' /\ JoinOk(c)' /\ SyncsOk(c)' /\ CheckedOk(c)'
  <2>1. InGame(c)'
    BY DEF InGame
  <2> QED BY <1>2, <1>3, <2>1, InGameFine
<1>5. \A m \in Sent(c)' : m.type = "READY" => m \in Sent(c) /\ (m \in Elements(up[c])' => m \in Elements(up[c]))
  BY <1>2, <1>3 DEF Sent
<1>6. KnownOk(c)'
  <2>1. SyncDue => SyncDue'
    BY DEF ClientFrame, GoesOn
  <2>2. \A m \in Elements(up[c])' : m.type = "READY" => m \in Elements(up[c])
    BY <1>5 DEF Sent
  <2> QED BY <1>1, <1>2, <1>5, <2>1, <2>2 DEF KnownOk, ClientFrame
<1>7. ReadyOk(c)'
  <2>1. \A i \in DOMAIN up'[c] : up'[c][i].type = "READY" =>
          /\ \A j \in DOMAIN up'[c] : up'[c][j].type = "READY" => j = i
          /\ \A m \in Claims(c)' : m.type # "READY"
    BY <1>1, <1>2, <1>3 DEF ReadyOk
  <2>2. \A m \in Sent(c)' : m.type = "READY" => phase'[c] = "pause" /\ m.mc = mc'[c] /\ m.step = sync'[c]
    BY <1>1, <1>5 DEF ReadyOk
  <2>3. ASSUME NEW i \in DOMAIN down'[c], down'[c][i].type = "READY"
        PROVE  /\ \A j \in DOMAIN down'[c] : down'[c][j].type = "READY" => j = i
               /\ \A m \in Sent(c)' : m.type # "READY"
               /\ sock'[c] = "playing"
               /\ phase'[c] = "pause" /\ down'[c][i].mc = mc'[c]
               /\ down'[c][i].step = sync'[c] \/ (i = 1 /\ cmdQ'[c] = <<>>)
    BY <1>1, <1>5, <2>3 DEF ReadyOk, InGame
  <2> QED BY <2>1, <2>2, <2>3 DEF ReadyOk
<1>8. TimeOk(c)'
  <2>1. Waiting(c)' \subseteq Waiting(c)
    BY <1>2 DEF Waiting
  <2>2. /\ sync'[c] <= barrier'[c]
        /\ \A m \in Elements(down[c])' : Acts(m) => barrier'[c] < m.step
        /\ \A m \in Elements(cmdQ[c])' : Acts(m) => sync'[c] <= m.step
    BY <1>1, <1>2 DEF TimeOk
  <2>3. phase'[c] = "pause" => \A m \in Waiting(c)' : m.type = "SYNC" /\ m.mc = mc'[c] => sync'[c] < m.step
    BY <1>1, <2>1 DEF TimeOk
  <2>4. (\A m \in Elements(sendq[c])' : Acts(m) => m.step = sync'[Server] + 1) /\ (stage' = "run" => sendq'[c] = <<>>)
    BY <1>1, <1>2 DEF TimeOk
  <2>5. \A i, j \in DOMAIN down'[c] :
          i < j /\ IsNews(down'[c][i]) /\ Acts(down'[c][j]) => Told(down'[c][i]) < down'[c][j].step
    BY <1>1 DEF TimeOk
  <2> QED BY <2>2, <2>3, <2>4, <2>5 DEF TimeOk
<1> QED BY <1>4, <1>6, <1>7, <1>8 DEF ClientFine

(* The user of a client uses a tool *)
LEMMA UsingSync ==
  ASSUME IInv, IInv', Agreement, InSync, NEW c \in Clients, CliTool(c)
  PROVE  InSync'
<1>1. ClientFrame(c) /\ InGame(c) /\ phase[c] = "run"
  BY ClientFramed DEF ClientNext, CliTool, InGame
<1>2. /\ UNCHANGED <<phase, sync, mc, barrier, cmdQ, down, sock>>
      /\ SendServer(c, RequestMsg(sync[c], mc[c], lastCmd + 1, ChecklistAt(world[c], sync[c])))
  BY DEF CliTool, nodeVars
<1>3. PlaceOk(c) /\ ReadyOk(c) /\ TimeOk(c) /\ LateOk
  BY FineTimes
<1>4. sync[c] \in Nat /\ sync[c] <= sync[Server]
  BY NodesFacts DEF IInv, NodeInv
<1>5. ChecklistAt(world[c], sync[c]) = ChecklistAt(world[Server], sync[c])
  BY <1>1, <1>3, <1>4, SameWorld
<1>6. sock[c] = "playing"
  BY <1>1, <1>3 DEF PlaceOk
<1> DEFINE x == RequestMsg(sync[c], mc[c], lastCmd + 1, ChecklistAt(world[c], sync[c]))
<1>7. x.type = "REQUEST" /\ x.step = sync[c] /\ x.chk = ChecklistAt(world[Server], x.step) /\ SendServer(c, x)
  BY <1>2, <1>5 DEF RequestMsg
<1> HIDE DEF x
<1>8. up'[c] = Append(up[c], x)
  BY <1>6, <1>7 DEF SendServer, Open, IInv, SockInv
<1>9. x.step <= sync[Server]
  BY <1>4, <1>7
<1>10. Elements(cmdQ[c])' = Elements(cmdQ[c]) /\ Elements(down[c])' = Elements(down[c])
  BY <1>2 DEF Elements
<1>11. ClientFine(c)'
  BY <1>1, <1>2, <1>7, <1>8, <1>9, <1>10, PlayFine
<1>12. LateOk /\ stage # "run" /\ Due(Server) => barrier'[c] < sync[Server]
  BY <1>1, <1>2 DEF LateOk
<1> QED BY <1>1, <1>10, <1>11, <1>12, ClientLate

(* A client takes a step: it has executed what it had to execute before *)
LEMMA SteppingSync ==
  ASSUME IInv, IInv', Agreement, InSync, NEW c \in Clients, CliStep(c), Sorted(cmdQ[c])
  PROVE  InSync'
<1>1. ClientFrame(c) /\ InGame(c) /\ phase[c] = "run" /\ sync[c] < barrier[c] /\ ~Due(c)
  BY ClientFramed DEF ClientNext, CliStep, InGame
<1>2. /\ UNCHANGED <<phase, mc, barrier, cmdQ, down, up, sock>>
      /\ sync'[c] = sync[c] + 1
  BY NodesFacts DEF CliStep, sockVars, IInv, NodeInv
<1>3. PlaceOk(c) /\ ReadyOk(c) /\ TimeOk(c) /\ KnownOk(c) /\ LateOk
  BY FineTimes
<1>4. /\ Claims(c)' = Claims(c) /\ Elements(up[c])' = Elements(up[c]) /\ Sent(c)' = Sent(c)
      /\ Elements(cmdQ[c])' = Elements(cmdQ[c]) /\ Elements(down[c])' = Elements(down[c])
      /\ Elements(sendq[c])' = Elements(sendq[c]) /\ sendq' = sendq /\ stage' = stage /\ lastMc' = lastMc
  BY <1>1, <1>2 DEF ClientFrame, Elements, Sent
<1>5. PlaceOk(c)' /\ JoinOk(c)' /\ SyncsOk(c)' /\ CheckedOk(c)'
  <2>1. InGame(c)'
    BY <1>1, <1>2 DEF InGame
  <2> QED BY <1>1, <1>2, <1>4, <2>1, InGameFine
<1>6. KnownOk(c)'
  BY <1>1, <1>2, <1>3, <1>4 DEF KnownOk, ClientFrame, GoesOn
<1>7. ReadyOk(c)'
  BY <1>1, <1>2, <1>3, <1>4 DEF ReadyOk
<1>8. TimeOk(c)'
  <2>1. sync[c] \in Nat /\ barrier[c] \in Nat /\ sync'[c] <= barrier'[c] /\ cmdQ[c] \in Seq(WorldCommand)
    BY <1>1, <1>2, NodesFacts DEF IInv, NodeInv
  <2>2. ASSUME NEW m \in Elements(cmdQ[c]) PROVE sync[c] + 1 <= m.step
    <3>1. PICK i \in DOMAIN cmdQ[c] : m = cmdQ[c][i]
      BY <2>2 DEF Elements
    <3>2. cmdQ[c] # <<>> /\ 1 \in DOMAIN cmdQ[c] /\ Head(cmdQ[c]) = cmdQ[c][1] /\ i \in Nat /\ i > 0
      BY <2>1, <3>1
    <3>3. cmdQ[c][1] \in WorldCommand /\ m \in WorldCommand
      BY <2>1, <3>1, <3>2
    <3>4. cmdQ[c][1].step \in Nat /\ m.step \in Nat
      BY <3>3 DEF WorldCommand
    <3>5. sync[c] < cmdQ[c][1].step
      BY <1>1, <2>1, <3>2, <3>4 DEF Due
    <3>6. cmdQ[c][1].step <= m.step
      BY <3>1, <3>2, <3>4 DEF Sorted
    <3> QED BY <2>1, <3>4, <3>5, <3>6
  <2>3. \A m \in Elements(down[c])' : Acts(m) => barrier'[c] < m.step
    BY <1>1, <1>2, <1>3, <1>4 DEF TimeOk
  <2>4. \A m \in Elements(cmdQ[c])' : Acts(m) => sync'[c] <= m.step
    BY <1>2, <1>4, <2>2
  <2>5. (\A m \in Elements(sendq[c])' : Acts(m) => m.step = sync'[Server] + 1) /\ (stage' = "run" => sendq'[c] = <<>>)
    BY <1>1, <1>3, <1>4 DEF TimeOk, ClientFrame
  <2>6. \A i, j \in DOMAIN down'[c] :
          i < j /\ IsNews(down'[c][i]) /\ Acts(down'[c][j]) => Told(down'[c][i]) < down'[c][j].step
    BY <1>2, <1>3 DEF TimeOk
  <2>7. phase'[c] # "pause"
    BY <1>1, <1>2
  <2> QED BY <2>1, <2>3, <2>4, <2>5, <2>6, <2>7 DEF TimeOk
<1>9. ClientFine(c)'
  BY <1>5, <1>6, <1>7, <1>8 DEF ClientFine
<1>10. LateOk /\ stage # "run" /\ Due(Server) => barrier'[c] < sync[Server]
  BY <1>1, <1>2 DEF LateOk
<1> QED BY <1>1, <1>4, <1>9, <1>10, ClientLate

(* A command that is due at a client is for this step, and its checklist is right *)
LEMMA DueAtClient ==
  ASSUME IInv, Agreement, InSync, NEW c \in Clients, InGame(c), Due(c)
  PROVE  LET m == Head(cmdQ[c]) IN
         /\ m = cmdQ[c][1] /\ m \in Elements(cmdQ[c]) /\ m \in WorldCommand /\ cmdQ[c] # <<>>
         /\ Elements(Tail(cmdQ[c])) \subseteq Elements(cmdQ[c])
         /\ Acts(m) => m.step = sync[c]
         /\ ~Late(c, m) /\ ~Foreign(c, m) => ~WrongChecklist(c, m)
<1> DEFINE m == Head(cmdQ[c])
<1>1. cmdQ[c] \in Seq(WorldCommand) /\ sync[c] \in Nat /\ sync[c] <= sync[Server] /\ cmdQ[c] # <<>>
      /\ m.step <= sync[c]
  BY NodesFacts DEF IInv, NodeInv, Due
<1>2. m = cmdQ[c][1] /\ m \in Elements(cmdQ[c]) /\ Elements(Tail(cmdQ[c])) \subseteq Elements(cmdQ[c])
  BY <1>1, ElementsFirst
<1>3. m \in WorldCommand
  BY <1>2, WaitingTypes
<1>4. PlaceOk(c) /\ ReadyOk(c) /\ TimeOk(c) /\ CheckedOk(c)
  BY FineTimes
<1> HIDE DEF m
<1>5. m.step \in Nat
  BY <1>3 DEF WorldCommand
<1>6. Acts(m) => m.step = sync[c]
  <2>1. Acts(m) => sync[c] <= m.step
    BY <1>2, <1>4 DEF TimeOk
  <2> QED BY <1>1, <1>5, <2>1
<1>7. ASSUME m.type \in {"CHECK", "TOOL"} PROVE m.chk = ChecklistAt(world[c], m.step - 1)
  <2>1. Checked(m) /\ 0 < m.step
    BY <1>2, <1>4, <1>7 DEF CheckedOk, PlaceOk, Checked
  <2>2. m.step - 1 \in Nat /\ m.step - 1 <= sync[c]
    BY <1>1, <1>5, <2>1
  <2>3. ChecklistAt(world[c], m.step - 1) = ChecklistAt(world[Server], m.step - 1)
    BY <1>4, <2>2, SameWorld
  <2> QED BY <1>7, <2>1, <2>3 DEF Checked
<1>8. ~WrongChecklist(c, m)
  BY <1>7 DEF WrongChecklist
<1> QED BY <1>1, <1>2, <1>3, <1>6, <1>8 DEF m

(* When a client comes to a sync, the server has done it or is about to do it *)
LEMMA SyncIsAtServer ==
  ASSUME IInv, Agreement, InSync, NEW c \in Clients, InGame(c), NEW m \in Elements(cmdQ[c]), m.type = "SYNC", m.step = sync[c]
  PROVE  m.new <= mc[Server] \/ SyncDue
<1>1. SyncsOk(c) /\ TimeOk(c) /\ LateOk /\ ServerOk /\ Sorted(cmdQ[Server])
  BY FineTimes DEF Agreement
<1>2. sync[Server] \in Nat /\ sync[c] \in Nat /\ barrier[c] \in Nat /\ sync[c] <= sync[Server] /\ mc[Server] \in Nat
      /\ cmdQ[Server] \in Seq(WorldCommand)
  BY NodesFacts DEF IInv, NodeInv
<1>3. m \in Waiting(c) /\ m.new \in Nat
  BY WaitingForms DEF Waiting
<1>4. SUFFICES ASSUME m.new > mc[Server] PROVE SyncDue
  BY <1>2, <1>3
<1>5. PICK z \in ToDo : z.type = "SYNC" /\ z.step = m.step
  BY <1>1, <1>3, <1>4 DEF SyncsOk
<1>6. z \in Elements(cmdQ[Server])
  <2>1. SUFFICES ASSUME z \in {rcvd[i].msg : i \in DOMAIN rcvd} PROVE FALSE
    BY <1>5 DEF ToDo
  <2>2. PICK i \in DOMAIN rcvd : z = rcvd[i].msg
    BY <2>1
  <2>3. z.step = sync[Server] + 1
    BY <1>1, <1>5, <2>2, OfReceived DEF Expected, Acts
  <2> QED BY <1>2, <1>5, <2>3
<1>7. PICK i \in DOMAIN cmdQ[Server] : z = cmdQ[Server][i]
  BY <1>6 DEF Elements
<1>8. sync[Server] <= z.step /\ z.step = sync[Server]
  <2>1. sync[Server] <= z.step
    BY <1>1, <1>7, OfQueue DEF Queued
  <2> QED BY <1>2, <1>5, <2>1
<1>9. Due(Server)
  <2>1. cmdQ[Server] # <<>> /\ 1 \in DOMAIN cmdQ[Server] /\ Head(cmdQ[Server]) = cmdQ[Server][1] /\ i \in Nat /\ i > 0
    BY <1>2, <1>7
  <2>2. i = 1 \/ cmdQ[Server][1].step <= z.step
    BY <1>1, <1>7, <2>1 DEF Sorted
  <2>3. cmdQ[Server][1].step <= sync[Server]
    BY <1>2, <1>7, <1>8, <2>2
  <2> QED BY <2>1, <2>3 DEF Due
<1>10. stage = "run"
  <2>1. stage # "run" => barrier[c] < sync[Server]
    BY <1>1, <1>9 DEF LateOk
  <2>2. sync[c] <= barrier[c] /\ sync[c] = sync[Server]
    BY <1>1, <1>5, <1>8 DEF TimeOk
  <2> QED BY <1>2, <2>1, <2>2
<1> QED BY <1>2, <1>5, <1>6, <1>8, <1>10 DEF SyncDue

(* A client saves, loads, pauses and reports that it is ready *)
LEMMA ReportFine ==
  ASSUME IInv, IInv', Agreement, InSync, NEW c \in Clients, ClientFrame(c), sock' = sock, InGame(c), Due(c),
         Head(cmdQ[c]).type = "SYNC", ~Foreign(c, Head(cmdQ[c])), SyncClient(c, Head(cmdQ[c]))
  PROVE  ClientFine(c)' /\ barrier'[c] <= barrier[c]
<1> DEFINE m == Head(cmdQ[c])
<1>1. /\ m = cmdQ[c][1] /\ m \in Elements(cmdQ[c]) /\ m \in WorldCommand /\ cmdQ[c] # <<>>
      /\ Elements(Tail(cmdQ[c])) \subseteq Elements(cmdQ[c]) /\ m.step = sync[c] /\ m.mc = mc[c]
  BY DueAtClient DEF Acts, Foreign
<1>2. PlaceOk(c) /\ ReadyOk(c) /\ TimeOk(c) /\ SyncsOk(c) /\ KnownOk(c)
  BY FineTimes
<1>3. /\ sync[c] \in Nat /\ barrier[c] \in Nat /\ sync[c] <= sync[Server] /\ mc[c] \in Nat /\ c \in Nodes
      /\ sync[Server] \in Nat /\ mc[Server] \in Nat /\ lastMc \in Nat
      /\ phase \in [Nodes -> {"out", "join", "sync", "game", "pause", "run", "desync"}]
      /\ barrier \in [Nodes -> Nat] /\ mc \in [Nodes -> Nat] /\ cmdQ \in [Nodes -> Seq(WorldCommand)]
  BY NodesFacts DEF IInv, NodeInv, UserInv
<1>4. SyncClient(c, m) /\ m.type = "SYNC"
  OBVIOUS
<1> HIDE DEF m
<1>5. m \in Waiting(c) /\ m.new \in Nat
  BY <1>1, <1>4, WaitingForms DEF Waiting
<1>6. phase[c] = "run"
  <2>1. phase[c] = "pause" => sync[c] < m.step
    BY <1>1, <1>2, <1>4, <1>5 DEF TimeOk
  <2> QED BY <1>1, <1>3, <2>1 DEF InGame
<1>7. m.mc < m.new /\ m.new <= lastMc /\ \A x \in Waiting(c) : x.type = "SYNC" /\ x.mc = m.new => m.step < x.step
  BY <1>2, <1>4, <1>5 DEF SyncsOk
<1>8. 2 <= m.new /\ 1 <= m.new
  BY <1>1, <1>2, <1>3, <1>5, <1>6, <1>7 DEF KnownOk
<1>9. sock[c] = "playing"
  BY <1>2 DEF PlaceOk
<1> DEFINE r == ReadyMsg(sync[c], m.new, ChecklistAt(world[c], sync[c]))
<1>10. r.type = "READY" /\ r.step = sync[c] /\ r.mc = m.new /\ r.chk = ChecklistAt(world[Server], r.step)
  <2>1. ChecklistAt(world[c], sync[c]) = ChecklistAt(world[Server], sync[c])
    BY <1>2, <1>3, SameWorld
  <2> QED BY <2>1 DEF ReadyMsg
<1>11. SendServer(c, r)
  BY <1>4 DEF SyncClient
<1> HIDE DEF r
<1>12. up'[c] = Append(up[c], r)
  BY <1>9, <1>11 DEF SendServer, Open, IInv, SockInv
<1>13. /\ phase'[c] = "pause" /\ barrier'[c] = sync[c] /\ mc'[c] = m.new /\ cmdQ'[c] = Tail(cmdQ[c])
       /\ sync' = sync /\ down' = down
  BY <1>3, <1>4 DEF SyncClient
<1>14. /\ Claims(c)' = Claims(c) /\ Elements(down[c])' = Elements(down[c]) /\ Elements(cmdQ[c])' = Elements(Tail(cmdQ[c]))
       /\ Elements(sendq[c])' = Elements(sendq[c]) /\ sendq' = sendq /\ stage' = stage /\ lastMc' = lastMc
  BY <1>13 DEF ClientFrame, Elements
<1>15. Elements(up[c])' = Elements(up[c]) \cup {r} /\ Sent(c)' = Sent(c) \cup {r}
  <2>1. Elements(Append(up[c], r)) = Elements(up[c]) \cup {r}
    BY DownTypes, ElementsAppend
  <2>2. Elements(up[c])' = Elements(up'[c])
    BY DEF Elements
  <2> QED BY <1>12, <1>14, <2>1, <2>2 DEF Sent
<1>16. PlaceOk(c)' /\ JoinOk(c)' /\ SyncsOk(c)' /\ CheckedOk(c)'
  <2>1. InGame(c)'
    BY <1>13 DEF InGame
  <2>2. r.step <= sync[Server]
    BY <1>3, <1>10
  <2> QED BY <1>1, <1>10, <1>14, <1>15, <2>1, <2>2, InGameFine
<1>17. /\ \A i \in DOMAIN down[c] : down[c][i].type # "READY"
       /\ \A x \in Sent(c) : x.type # "READY"
  BY <1>2, <1>6 DEF ReadyOk
<1>18. ReadyOk(c)'
  <2>1. ASSUME NEW i \in DOMAIN up'[c], up'[c][i].type = "READY" PROVE i = Len(up[c]) + 1
    <3>1. \A k \in DOMAIN up[c] : up[c][k].type # "READY"
      BY <1>17 DEF Sent, Elements
    <3> QED BY <1>12, <2>1, <3>1, DownTypes, AppendElements
  <2>2. \A x \in Claims(c)' : x.type # "READY"
    BY <1>14, <1>17 DEF Sent
  <2>3. \A x \in Sent(c)' : x.type = "READY" => phase'[c] = "pause" /\ x.mc = mc'[c] /\ x.step = sync'[c]
    BY <1>10, <1>13, <1>15, <1>17
  <2> QED BY <1>13, <1>17, <2>1, <2>2, <2>3 DEF ReadyOk
<1>19. sync[c] <= barrier[c] /\ \A x \in Elements(down[c]) : Acts(x) => barrier[c] < x.step /\ x.step \in Nat
  <2>1. \A x \in Elements(down[c]) : Acts(x) => x.step \in Nat
    BY WaitingForms DEF Waiting
  <2> QED BY <1>2, <2>1 DEF TimeOk
<1>20. TimeOk(c)'
  <2>1. Waiting(c)' \subseteq Waiting(c)
    BY <1>1, <1>14 DEF Waiting
  <2>2. \A x \in Elements(down[c])' : Acts(x) => barrier'[c] < x.step
    BY <1>3, <1>13, <1>14, <1>19
  <2>3. \A x \in Elements(cmdQ[c])' : Acts(x) => sync'[c] <= x.step
    BY <1>1, <1>2, <1>13, <1>14 DEF TimeOk
  <2>4. \A x \in Waiting(c)' : x.type = "SYNC" /\ x.mc = mc'[c] => sync'[c] < x.step
    BY <1>1, <1>7, <1>13, <2>1
  <2>5. (\A x \in Elements(sendq[c])' : Acts(x) => x.step = sync'[Server] + 1) /\ (stage' = "run" => sendq'[c] = <<>>)
    BY <1>2, <1>13, <1>14 DEF TimeOk
  <2>6. \A i, j \in DOMAIN down'[c] :
          i < j /\ IsNews(down'[c][i]) /\ Acts(down'[c][j]) => Told(down'[c][i]) < down'[c][j].step
    BY <1>2, <1>13 DEF TimeOk
  <2>7. sync'[c] <= barrier'[c]
    BY <1>3, <1>13
  <2> QED BY <2>2, <2>3, <2>4, <2>5, <2>6, <2>7 DEF TimeOk
<1>21. KnownOk(c)'
  <2>1. m.new <= mc[Server] \/ SyncDue'
    <3>1. m.new <= mc[Server] \/ SyncDue
      BY <1>1, <1>4, SyncIsAtServer
    <3> QED BY <3>1 DEF ClientFrame, GoesOn
  <2>2. mc'[Server] = mc[Server]
    BY DEF ClientFrame
  <2>3. \A x \in Claims(c)' : x.type # "READY"
    BY <1>14, <1>17 DEF Sent
  <2>4. \A x \in Sent(c)' : x.type = "READY" => x = r
    BY <1>15, <1>17
  <2>5. \A x \in Elements(up[c])' : x.type = "READY" => x = r
    BY <2>4 DEF Sent
  <2>6. 1 <= mc'[c]
    BY <1>8, <1>13
  <2> QED BY <1>7, <1>8, <1>10, <1>14, <2>1, <2>2, <2>3, <2>4, <2>5, <2>6 DEF KnownOk
<1>22. barrier'[c] <= barrier[c]
  BY <1>13, <1>19
<1> QED BY <1>16, <1>18, <1>20, <1>21, <1>22 DEF ClientFine

LEMMA DrainingSync ==
  ASSUME IInv, IInv', Agreement, InSync, NEW c \in Clients, CliDrain(c)
  PROVE  InSync'
<1> DEFINE m == Head(cmdQ[c])
<1>1. ClientFrame(c) /\ InGame(c) /\ Due(c) /\ sock' = sock
  BY ClientFramed DEF ClientNext, CliDrain, InGame
<1>2. /\ m \in Elements(cmdQ[c]) /\ m \in WorldCommand /\ cmdQ[c] # <<>>
      /\ Elements(Tail(cmdQ[c])) \subseteq Elements(cmdQ[c]) /\ (Acts(m) => m.step = sync[c])
      /\ (~Late(c, m) /\ ~Foreign(c, m) => ~WrongChecklist(c, m))
  BY <1>1, DueAtClient
<1>3. sync[c] \in Nat /\ c \in Nodes /\ cmdQ \in [Nodes -> Seq(WorldCommand)] /\ barrier[c] \in Nat /\ barrier'[c] \in Nat
      /\ sync[Server] \in Nat
  BY NodesFacts DEF IInv, NodeInv
<1>4. m.type \in {"CHECK", "TOOL", "SYNC"}
  BY <1>2 DEF WorldCommand
<1>5. Acts(m) => ~Late(c, m)
  BY <1>2, <1>3 DEF Late
<1>6. \/ cmdQ' = [cmdQ EXCEPT ![c] = Tail(@)] /\ UNCHANGED <<phase, sync, mc, barrier, up, down>>
      \/ m.type = "SYNC" /\ ~Foreign(c, m) /\ SyncClient(c, m)
  BY <1>2, <1>4, <1>5 DEF CliDrain, Acts
<1>7. LateOk => (stage # "run" /\ Due(Server) => barrier[c] < sync[Server])
  BY <1>1 DEF LateOk
<1>8. Elements(down[c])' \subseteq Elements(down[c])
  BY <1>6 DEF SyncClient, Elements
<1>9. CASE cmdQ' = [cmdQ EXCEPT ![c] = Tail(@)] /\ UNCHANGED <<phase, sync, mc, barrier, up, down>>
  <2>1. cmdQ'[c] = Tail(cmdQ[c])
    BY <1>3, <1>9
  <2>2. Elements(cmdQ[c])' \subseteq Elements(cmdQ[c])
    BY <1>2, <2>1 DEF Elements
  <2>3. Elements(down[c])' \subseteq Elements(down[c])
    BY <1>9 DEF Elements
  <2>4. ClientFine(c)'
    BY <1>1, <1>2, <1>9, <2>2, PlayFine
  <2> QED BY <1>1, <1>7, <1>9, <2>3, <2>4, ClientLate
<1>10. CASE m.type = "SYNC" /\ ~Foreign(c, m) /\ SyncClient(c, m)
  <2>1. ClientFine(c)' /\ barrier'[c] <= barrier[c]
    BY <1>1, <1>10, ReportFine
  <2>2. LateOk => (stage # "run" /\ Due(Server) => barrier'[c] < sync[Server])
    BY <1>3, <1>7, <2>1
  <2> QED BY <1>1, <1>8, <2>1, <2>2, ClientLate
<1> QED BY <1>6, <1>9, <1>10

LEMMA ClientSync ==
  ASSUME Orderly, IInv, IInv', Agreement, InSync, NEW c \in Clients, ClientNext(c), Sorted(cmdQ[c])
  PROVE  InSync'
<1>1. ~CliLeave(c)
  BY DEF CliLeave, Orderly
<1> QED BY <1>1, ConnectSync, ReceivingSync, DrainingSync, SteppingSync, UsingSync DEF ClientNext

LEMMA InSyncStays ==
  ASSUME Orderly, IInv, IInv', Agreement, Agreement', InSync, QueueIsSorted, [Next]_vars
  PROVE  InSync'
<1>1. CASE ServerNext
  BY <1>1, ServerSync
<1>2. ASSUME NEW c \in Clients, ClientNext(c) PROVE InSync'
  <2>1. Sorted(cmdQ[c])
    BY NodesFacts DEF QueueIsSorted, Sorted
  <2> QED BY <1>2, <2>1, ClientSync
<1>3. CASE UNCHANGED vars
  <2>1. sock' = sock /\ slot' = slot /\ stage' = stage
    BY <1>3 DEF vars, sockVars, serverVars
  <2>2. SlotsOk' /\ LateOk' /\ PendingOk' /\ CountersOk'
    BY <1>3 DEF InSync, vars, nodeVars, serverVars, sockVars, userVars, SlotsOk, Open, LateOk, Due, InGame, Elements,
                PendingOk, ToDo, CountersOk
  <2>3. NothingReceived /\ GoesOn
    <3>1. UNCHANGED rcvd /\ world'[Server] = world[Server] /\ ToDo' = ToDo /\ sync[Server] <= sync'[Server]
          /\ (SyncDue => SyncDue')
      BY <1>3, NodesFacts DEF vars, nodeVars, serverVars, ToDo, Elements, SyncDue, IInv, NodeInv
    <3>2. NothingReceived
      BY <3>1, ReceivedForms
    <3>3. pending' = pending /\ lastMc' = lastMc /\ mc'[Server] = mc[Server] /\ mapCounters' = mapCounters
      BY <1>3 DEF vars, nodeVars, serverVars, userVars
    <3> QED BY <3>1, <3>2, <3>3, WorldIsKept DEF GoesOn
  <2>4. ASSUME NEW d \in Clients PROVE QuietFor(d)
    <3>1. TimeOk(d)
      BY FineTimes
    <3> QED BY <1>3, <3>1, UntouchedQuiet DEF vars, nodeVars, serverVars, sockVars
  <2> QED BY <2>1, <2>2, <2>3, <2>4, QuietStep
<1> QED BY <1>1, <1>2, <1>3 DEF Next

LEMMA InitInSync ==
  ASSUME Init, IInv
  PROVE  InSync
<1>1. /\ phase[Server] = "run" /\ mc[Server] = 0 /\ cmdQ[Server] = <<>> /\ sync[Server] = 0
      /\ \A c \in Clients : phase[c] = "out" /\ sock[c] = "none" /\ cmdQ[c] = <<>> /\ down[c] = <<>> /\ up[c] = <<>>
                            /\ sendq[c] = <<>>
      /\ rcvd = <<>> /\ pending = NoClient /\ lastMc = 0 /\ mapCounters = <<>>
  BY NodesFacts DEF Init
<1>2. ToDo = {} /\ \A c \in Clients : /\ From(c) = {} /\ Claims(c) = {} /\ ~Asking(c) /\ Elements(up[c]) = {} /\ Elements(down[c]) = {}
                                      /\ Elements(sendq[c]) = {} /\ Elements(cmdQ[c]) = {} /\ Sent(c) = {} /\ Waiting(c) = {}
  BY <1>1 DEF ToDo, From, Claims, Asking, Elements, Sent, Waiting
<1>3. SlotsOk /\ LateOk
  BY <1>1 DEF SlotsOk, LateOk, Open, Due
<1>4. PendingOk
  BY <1>1, <1>2 DEF PendingOk
<1>5. CountersOk
  <2>1. {c \in Clients : sock[c] = "playing"} = {}
    BY <1>1
  <2>2. Cardinality({}) = 0
    BY FS_EmptySet
  <2>3. Len(mapCounters) = 0 /\ DOMAIN mapCounters = {} /\ MaxMapCounters \in Nat \ {0}
    BY <1>1, BoundsAssumption
  <2>4. mc[Server] = Cardinality({c \in Clients : sock[c] = "playing"})
    BY <1>1, <2>1, <2>2
  <2>5. Len(mapCounters) = (IF mc[Server] < MaxMapCounters THEN mc[Server] ELSE MaxMapCounters)
    BY <1>1, <2>3
  <2> QED BY <2>3, <2>4, <2>5 DEF CountersOk
<1>6. ASSUME NEW c \in Clients PROVE ClientFine(c)
  <2>1. pending # c
    BY <1>1, NodesAssumption
  <2>2. DOMAIN down[c] = {} /\ DOMAIN up[c] = {} /\ ~InGame(c)
    BY <1>1 DEF InGame
  <2> QED BY <1>1, <1>2, <2>1, <2>2
        DEF ClientFine, PlaceOk, JoinOk, ReadyOk, TimeOk, SyncsOk, CheckedOk, KnownOk
<1> QED BY <1>3, <1>4, <1>5, <1>6 DEF InSync

(* The result: if sockets take their data, nobody leaves and no sync is forced, and there are at most *)
(* as many clients as map counters are remembered, and one more, then nobody is thrown out of the     *)
(* game: nwc_ready_t, nwc_check_t and the tools find no wrong checklist, no command comes too late    *)
(* (network_world_command_t::execute, do_network_world_command) and no map counter is unknown         *)
THEOREM KeptInSync ==
  ASSUME Orderly
  PROVE  Spec => []NobodyDesyncs
<1>1. Init => IInv
  BY InitKeeps
<1>2. Init /\ IInv => InSync
  BY InitInSync
<1>3. /\ IInv /\ IInv' /\ Agreement /\ Agreement' /\ InSync /\ QueueIsSorted /\ [Next]_vars => InSync'
  BY InSyncStays
<1>4. InSync /\ Agreement => NobodyDesyncs
  <2> SUFFICES ASSUME InSync, Agreement PROVE NobodyDesyncs
    OBVIOUS
  <2>1. phase[Server] = "run"
    BY DEF Agreement, ServerOk
  <2>2. \A c \in Clients : phase[c] # "desync" /\ sock[c] # "kicked"
    BY FineTimes DEF PlaceOk
  <2> QED BY <2>1, <2>2 DEF NobodyDesyncs, Nodes
<1>5. Spec => []IInv /\ [](Agreement /\ WorldsOk) /\ []QueueIsSorted
  BY Invariance, AllAgree, QueuesAreSorted
<1> QED BY <1>1, <1>2, <1>3, <1>4, <1>5, PTL DEF Spec
=============================================================================
