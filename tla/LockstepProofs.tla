--------------------------- MODULE LockstepProofs ---------------------------
(***************************************************************************)
(* Proofs about Lockstep for every set of clients, every switch and every   *)
(* bound: type correctness, that no client runs ahead of the server, what   *)
(* may happen to the server's world, its pauses and the queues, and that    *)
(* the clients that play hold copies of one log (ReplicatedLog).            *)
(*                                                                         *)
(* NeverAheadOfServer is not inductive: a client trusts the step that a     *)
(* message announces, so the invariant has to speak of every message that   *)
(* waits anywhere between the two programs.  IInv types the queues with the *)
(* messages that announce no step beyond the server's, which are the same   *)
(* queues as in TypeOK.                                                     *)
(*                                                                         *)
(* For the log, worlds are compared through what is still to be executed.   *)
(* A stream of messages makes of a game (world and map counter) another     *)
(* one, its Outcome.  What the server will be when it has executed its      *)
(* queue and what it has received is ServerEnd; Agreement says that the     *)
(* stream of every client that plays, and the rest of the stream behind a   *)
(* game that it will load, has the same outcome.  A step of the server that *)
(* tells its clients something moves both ends alike (the lemmas ...Tells). *)
(* From Agreement follows that every copy is a beginning of the log, and    *)
(* each step of Lockstep is then a step of the log or none.                 *)
(***************************************************************************)
EXTENDS LockstepLog, TLAPS, SequenceTheorems, FiniteSetTheorems

BroadcastTo(s) == {m \in Broadcast : Reached(m, s)}
DownMsgTo(s)   == {m \in DownMsg : Reached(m, s)}
UpMsgTo(s)     == {m \in UpMsg : Reached(m, s)}
ReceivedTo(s)  == {r \in Received : Reached(r.msg, s)}

NodeInv ==
  /\ phase \in [Nodes -> {"out", "join", "sync", "game", "pause", "run", "desync"}]
  /\ sync \in [Nodes -> Nat]
  /\ mc \in [Nodes -> Nat]
  /\ world \in [Nodes -> World]
  /\ cmdQ \in [Nodes -> Seq(WorldCommand)]
  /\ barrier \in [Nodes -> Nat]
  /\ \A c \in Clients : sync[c] <= sync[Server] /\ barrier[c] <= sync[Server]

ServerInv ==
  /\ stage \in {"receive", "execute", "run"}
  /\ paused \in BOOLEAN
  /\ hasSave \in BOOLEAN
  /\ saved \in World
  /\ pending \in Clients \cup {NoClient}
  /\ mapCounters \in Seq(Nat) /\ Len(mapCounters) <= MaxMapCounters
  /\ rcvd \in Seq(ReceivedTo(sync[Server]))

SockInv ==
  /\ sock \in [Clients -> {"none", "backlog", "connected", "playing", "kicked"}]
  /\ slot \in [Clients -> Nat]
  /\ left \in SUBSET Nat
  /\ sendq \in [Clients -> Seq(BroadcastTo(sync[Server]))]
  /\ up \in [Clients -> Seq(UpMsgTo(sync[Server]))]
  /\ down \in [Clients -> Seq(DownMsgTo(sync[Server]))]

UserInv == lastMc \in Nat /\ lastCmd \in Nat

IInv == NodeInv /\ ServerInv /\ SockInv /\ UserInv

-----------------------------------------------------------------------------
(* The operators of the model keep to their types *)

LEMMA ChecklistType ==
  ASSUME NEW w \in World, NEW s
  PROVE  ChecklistAt(w, s) \in Checklist
<1>1. \A i \in DOMAIN w : i \in Nat /\ w[i] \in Entry
  BY ElementOfSeq DEF World
<1> QED BY <1>1 DEF ChecklistAt, Checklist

LEMMA MessageTypes ==
  ASSUME NEW n \in Nat, NEW s \in Nat, NEW m \in Nat, NEW k \in Nat, NEW new \in Nat,
         NEW chk \in Checklist, NEW w \in World
  PROVE  /\ s <= n => StepMsg(s) \in BroadcastTo(n)
         /\ s <= n => CheckMsg(s + 1, m, chk) \in BroadcastTo(n)
         /\ ToolMsg(s, m, k, chk) \in BroadcastTo(n) \cap WorldCommand
         /\ SyncMsg(s, m, k, new) \in BroadcastTo(n) \cap WorldCommand \cap DownMsgTo(n)
         /\ s <= n => ReadyMsg(s, m, chk) \in DownMsgTo(n) \cap UpMsgTo(n)
         /\ RequestMsg(s, m, k, chk) \in Request \cap UpMsgTo(n)
         /\ JoinReply(TRUE) \in DownMsgTo(n)
         /\ JoinReply(FALSE) \in DownMsgTo(n)
         /\ GameMsg(w) \in DownMsgTo(n)
         /\ EofMsg \in DownMsgTo(n) \cap UpMsgTo(n)
         /\ JoinMsg \in UpMsgTo(n)
<1>1. StepMsg(s) \in Broadcast /\ StepMsg(s).type = "STEP" /\ StepMsg(s).step = s
  BY DEF StepMsg, Broadcast
<1>2. s + 1 \in Nat
  OBVIOUS
<1>3. CheckMsg(s + 1, m, chk) \in Broadcast /\ CheckMsg(s + 1, m, chk).type = "CHECK"
      /\ CheckMsg(s + 1, m, chk).step = s + 1
  BY <1>2 DEF CheckMsg, Broadcast, WorldCommand
<1>4. ToolMsg(s, m, k, chk) \in WorldCommand /\ ToolMsg(s, m, k, chk).type = "TOOL"
  BY DEF ToolMsg, WorldCommand
<1>5. SyncMsg(s, m, k, new) \in WorldCommand /\ SyncMsg(s, m, k, new).type = "SYNC"
  BY DEF SyncMsg, WorldCommand
<1>6. ReadyMsg(s, m, chk) \in Ready /\ ReadyMsg(s, m, chk).type = "READY"
      /\ ReadyMsg(s, m, chk).step = s
  BY DEF ReadyMsg, Ready
<1>7. RequestMsg(s, m, k, chk) \in Request /\ RequestMsg(s, m, k, chk).type = "REQUEST"
  BY DEF RequestMsg, Request
<1>8. \A a \in BOOLEAN : JoinReply(a) \in DownMsg /\ JoinReply(a).type = "JOIN"
  BY DEF JoinReply, DownMsg
<1>9. GameMsg(w) \in DownMsg /\ GameMsg(w).type = "GAME"
  BY DEF GameMsg, DownMsg
<1>10. EofMsg \in DownMsg \cap UpMsg /\ EofMsg.type = "EOF"
  BY DEF EofMsg, DownMsg, UpMsg
<1>11. JoinMsg \in UpMsg /\ JoinMsg.type = "JOIN"
  BY DEF JoinMsg, UpMsg
<1>12. WorldCommand \subseteq Broadcast /\ Broadcast \subseteq DownMsg
       /\ Ready \subseteq DownMsg \cap UpMsg /\ Request \subseteq UpMsg
  BY DEF Broadcast, DownMsg, UpMsg
<1>13. s <= n => StepMsg(s) \in BroadcastTo(n)
  BY <1>1 DEF BroadcastTo, Reached
<1>14. s <= n => CheckMsg(s + 1, m, chk) \in BroadcastTo(n)
  BY <1>3 DEF BroadcastTo, Reached
<1>15. ToolMsg(s, m, k, chk) \in BroadcastTo(n)
  BY <1>4, <1>12 DEF BroadcastTo, Reached
<1>16. SyncMsg(s, m, k, new) \in BroadcastTo(n) \cap DownMsgTo(n)
  BY <1>5, <1>12 DEF BroadcastTo, DownMsgTo, Reached
<1>17. s <= n => ReadyMsg(s, m, chk) \in DownMsgTo(n) \cap UpMsgTo(n)
  BY <1>6, <1>12 DEF DownMsgTo, UpMsgTo, Reached
<1>18. RequestMsg(s, m, k, chk) \in UpMsgTo(n)
  BY <1>7, <1>12 DEF UpMsgTo, Reached
<1>19. JoinReply(TRUE) \in DownMsgTo(n) /\ JoinReply(FALSE) \in DownMsgTo(n)
  BY <1>8 DEF DownMsgTo, Reached
<1>20. GameMsg(w) \in DownMsgTo(n)
  BY <1>9 DEF DownMsgTo, Reached
<1>21. EofMsg \in DownMsgTo(n) \cap UpMsgTo(n) /\ JoinMsg \in UpMsgTo(n)
  BY <1>10, <1>11 DEF DownMsgTo, UpMsgTo, Reached
<1> QED
  BY <1>4, <1>5, <1>7, <1>13, <1>14, <1>15, <1>16, <1>17, <1>18, <1>19, <1>20, <1>21

(* What the type of a message says about it *)
LEMMA MessageCases ==
  ASSUME NEW n \in Nat
  PROVE  /\ \A m \in UpMsgTo(n) : m.type = "READY" => m \in Ready /\ m.step <= n
         /\ \A m \in UpMsgTo(n) : m.type = "REQUEST" => m \in Request
         /\ \A m \in UpMsgTo(n) : m # EofMsg => m \in Ready \cup Request \cup {JoinMsg}
         /\ \A m \in DownMsgTo(n) : m.type = "STEP" => m.step \in Nat /\ m.step <= n
         /\ \A m \in DownMsgTo(n) : m.type = "CHECK" => m.step <= n + 1
         /\ \A m \in DownMsgTo(n) : m.type = "READY" => m \in Ready /\ m.step <= n
         /\ \A m \in DownMsgTo(n) : m.type = "GAME" => m.world \in World
         /\ \A m \in DownMsgTo(n) :
              m.type \in {"CHECK", "TOOL", "SYNC"} => m \in WorldCommand
<1> USE DEF Ready, Request, JoinMsg, EofMsg
<1>1. \A m \in UpMsgTo(n) : m \in UpMsg /\ Reached(m, n)
  BY DEF UpMsgTo
<1>2. \A m \in DownMsgTo(n) : m \in DownMsg /\ Reached(m, n)
  BY DEF DownMsgTo
<1>3. \A m \in UpMsg : /\ m.type = "READY" => m \in Ready
                       /\ m.type = "REQUEST" => m \in Request
                       /\ m # EofMsg => m \in Ready \cup Request \cup {JoinMsg}
  BY DEF UpMsg
<1>4. \A m \in DownMsg : /\ m.type = "READY" => m \in Ready
                         /\ m.type = "GAME" => m.world \in World
                         /\ m.type = "STEP" => m.step \in Nat
                         /\ m.type \in {"CHECK", "TOOL", "SYNC"} => m \in WorldCommand
  BY DEF DownMsg, Broadcast, WorldCommand
<1> QED BY <1>1, <1>2, <1>3, <1>4 DEF Reached

LEMMA InsertType ==
  ASSUME NEW q \in Seq(WorldCommand), NEW m \in WorldCommand
  PROVE  Insert(q, m) \in Seq(WorldCommand)
<1> DEFINE before == {i \in DOMAIN q : \A j \in 1..i : q[j].step <= m.step}
           k == Cardinality(before)
<1>1. Len(q) \in Nat /\ DOMAIN q = 1..Len(q)
  OBVIOUS
<1>2. k \in Nat /\ k <= Len(q)
  <2>1. IsFiniteSet(1..Len(q)) /\ Cardinality(1..Len(q)) = Len(q)
    BY <1>1, FS_Interval
  <2>2. before \in SUBSET (1..Len(q))
    BY <1>1
  <2>3. IsFiniteSet(before) /\ Cardinality(before) <= Cardinality(1..Len(q))
    BY <2>1, <2>2, FS_Subset
  <2> QED BY <2>1, <2>3, FS_CardinalityType
<1> HIDE DEF k
<1>3. SubSeq(q, 1, k) \in Seq(WorldCommand)
  <2>1. \A i \in 1..k : q[i] \in WorldCommand
    BY <1>1, <1>2, ElementOfSeq
  <2> QED BY <1>2, <2>1, SubSeqProperties
<1>4. SubSeq(q, k + 1, Len(q)) \in Seq(WorldCommand)
  <2>1. \A i \in (k + 1)..Len(q) : q[i] \in WorldCommand
    BY <1>1, <1>2, ElementOfSeq
  <2> QED BY <1>1, <1>2, <2>1, SubSeqProperties
<1>5. Insert(q, m) = SubSeq(q, 1, k) \o <<m>> \o SubSeq(q, k + 1, Len(q))
  BY DEF Insert, k
<1>6. SubSeq(q, 1, k) \o <<m>> \in Seq(WorldCommand)
  BY <1>3, ConcatProperties
<1> QED BY <1>4, <1>5, <1>6, ConcatProperties

-----------------------------------------------------------------------------
(* Parts of actions *)

LEMMA NodesFacts == Server \in Nodes /\ Clients \subseteq Nodes /\ Server \notin Clients
BY NodesAssumption DEF Nodes

LEMMA ShortSequences ==
  ASSUME NEW S, NEW a \in S, NEW b \in S
  PROVE  <<a>> \in Seq(S) /\ <<a, b>> \in Seq(S)
OBVIOUS

LEMMA DirectKeeps ==
  ASSUME NEW n, down \in [Clients -> Seq(DownMsgTo(n))],
         NEW c \in Clients, NEW msgs \in Seq(DownMsgTo(n)), Direct(c, msgs)
  PROVE  down' \in [Clients -> Seq(DownMsgTo(n))]
<1>1. down[c] \o msgs \in Seq(DownMsgTo(n))
  BY ConcatProperties
<1> QED BY <1>1 DEF Direct

LEMMA SendAllKeeps ==
  ASSUME NEW n, sendq \in [Clients -> Seq(BroadcastTo(n))],
         NEW m \in BroadcastTo(n), SendAll(m)
  PROVE  sendq' \in [Clients -> Seq(BroadcastTo(n))]
<1>1. \A c \in Clients : Append(sendq[c], m) \in Seq(BroadcastTo(n))
  BY AppendProperties
<1> QED BY <1>1 DEF SendAll

LEMMA SendServerKeeps ==
  ASSUME NEW n, up \in [Clients -> Seq(UpMsgTo(n))],
         NEW c \in Clients, NEW m \in UpMsgTo(n), SendServer(c, m)
  PROVE  up' \in [Clients -> Seq(UpMsgTo(n))]
<1>1. Append(up[c], m) \in Seq(UpMsgTo(n))
  BY AppendProperties
<1> QED BY <1>1 DEF SendServer

(* What the end of a connection leaves is typed: the server's view *)
LEMMA RemoveClientKeeps ==
  ASSUME IInv, NEW c \in Clients, NEW how \in {"none", "kicked"}, RemoveClient(c, how),
         UNCHANGED <<sync, slot>>
  PROVE  SockInv' /\ pending' \in Clients \cup {NoClient}
<1> USE DEF IInv, SockInv, ServerInv, NodeInv, RemoveClient
<1>1. sync[Server] \in Nat
  BY NodesFacts
<1>2. <<EofMsg>> \in Seq(DownMsgTo(sync[Server]))
  <2>1. EofMsg \in DownMsgTo(sync[Server])
    BY <1>1 DEF EofMsg, DownMsgTo, DownMsg, Reached
  <2> QED BY <2>1
<1>3. down' \in [Clients -> Seq(DownMsgTo(sync[Server]))]
  BY <1>2, DirectKeeps
<1>4. left' \in SUBSET Nat
  OBVIOUS
<1>5. sendq' \in [Clients -> Seq(BroadcastTo(sync[Server]))]
  OBVIOUS
<1>6. up' \in [Clients -> Seq(UpMsgTo(sync[Server]))]
  OBVIOUS
<1>7. sock' \in [Clients -> {"none", "backlog", "connected", "playing", "kicked"}]
  OBVIOUS
<1> QED BY <1>3, <1>4, <1>5, <1>6, <1>7

(* ... and the client's *)
LEMMA DisconnectKeeps ==
  ASSUME IInv, NEW c \in Clients, NEW to \in {"out", "desync"}, Disconnect(c, to),
         UNCHANGED <<sync, mc, world, barrier, sock, slot, left, sendq>>
  PROVE  NodeInv' /\ SockInv'
<1> USE DEF IInv, SockInv, NodeInv, Disconnect
<1>1. EofMsg \in UpMsgTo(sync[Server])
  BY DEF EofMsg, UpMsgTo, UpMsg, Reached
<1>2. up' \in [Clients -> Seq(UpMsgTo(sync[Server]))]
  BY <1>1, SendServerKeeps
<1>3. down' \in [Clients -> Seq(DownMsgTo(sync[Server]))]
  OBVIOUS
<1>4. NodeInv'
  BY NodesFacts
<1> QED BY <1>2, <1>3, <1>4

(* Nothing changes for a part of the state *)
LEMMA Unchanged ==
  ASSUME IInv, sync'[Server] = sync[Server]
  PROVE  /\ UNCHANGED nodeVars => NodeInv'
         /\ UNCHANGED serverVars => ServerInv'
         /\ UNCHANGED sockVars => SockInv'
         /\ UNCHANGED userVars => UserInv'
BY DEF IInv, NodeInv, ServerInv, SockInv, UserInv, nodeVars, serverVars, sockVars, userVars

-----------------------------------------------------------------------------
(* The actions of the server *)

LEMMA AcceptKeeps ==
  ASSUME IInv, NEW c \in Clients, SrvAccept(c)
  PROVE  IInv'
<1> USE DEF SrvAccept
<1>1. UNCHANGED nodeVars /\ UNCHANGED serverVars /\ UNCHANGED userVars
  OBVIOUS
<1>2. sync'[Server] = sync[Server]
  BY <1>1 DEF nodeVars
<1>3. slot' \in [Clients -> Nat]
  BY BoundsAssumption DEF IInv, SockInv
<1>4. SockInv'
  BY <1>2, <1>3 DEF IInv, SockInv
<1> QED BY <1>1, <1>2, <1>4, Unchanged DEF IInv

LEMMA ReceiveKeeps ==
  ASSUME IInv, NEW c \in Clients, SrvReceive(c)
  PROVE  IInv'
<1> USE DEF SrvReceive
<1> DEFINE n == sync[Server]
<1>1. UNCHANGED nodeVars /\ UNCHANGED userVars
  OBVIOUS
<1>2. sync' = sync /\ slot' = slot
  BY <1>1 DEF nodeVars
<1>3. n \in Nat
  BY NodesFacts DEF IInv, NodeInv
<1>4. CASE Head(up[c]) = EofMsg
  <2>1. SockInv' /\ pending' \in Clients \cup {NoClient}
    BY <1>2, <1>4, RemoveClientKeeps
  <2>2. ServerInv'
    BY <1>2, <1>4, <2>1 DEF IInv, ServerInv
  <2> QED BY <1>1, <1>2, <2>1, <2>2, Unchanged DEF IInv
<1>5. CASE Head(up[c]) # EofMsg
  <2> DEFINE r == [from |-> c, msg |-> Head(up[c])]
  <2>1. up[c] \in Seq(UpMsgTo(n)) /\ up[c] # <<>>
    BY DEF IInv, SockInv
  <2>2. Head(up[c]) \in UpMsgTo(n) /\ Tail(up[c]) \in Seq(UpMsgTo(n))
    BY <2>1, HeadTailProperties
  <2>3. r \in ReceivedTo(n)
    <3>1. Head(up[c]) \in Ready \cup Request \cup {JoinMsg}
      BY <1>3, <1>5, <2>2, MessageCases
    <3>2. Reached(Head(up[c]), n)
      BY <2>2 DEF UpMsgTo
    <3>3. r \in Received
      BY <3>1 DEF Received
    <3> QED BY <3>2, <3>3 DEF ReceivedTo
  <2>4. Append(rcvd, r) \in Seq(ReceivedTo(n))
    BY <2>3, AppendProperties DEF IInv, ServerInv
  <2>5. ServerInv'
    BY <1>2, <1>5, <2>4 DEF IInv, ServerInv
  <2>6. SockInv'
    BY <1>2, <1>5, <2>2 DEF IInv, SockInv
  <2> QED BY <1>1, <1>2, <2>5, <2>6, Unchanged DEF IInv
<1> QED BY <1>4, <1>5

(* A command the server has received *)
LEMMA HeadOfReceived ==
  ASSUME IInv, rcvd # <<>>
  PROVE  /\ Head(rcvd) \in ReceivedTo(sync[Server])
         /\ Tail(rcvd) \in Seq(ReceivedTo(sync[Server]))
         /\ Head(rcvd).msg.type \in {"JOIN", "READY"} => Head(rcvd).from \in Clients
         /\ Head(rcvd).msg.type = "READY" =>
              Head(rcvd).msg \in DownMsgTo(sync[Server])
         /\ Head(rcvd).msg.type = "REQUEST" =>
              /\ Head(rcvd).msg \in Request
              /\ Head(rcvd).from \in Clients \cup {Server}
         /\ Head(rcvd).msg.type \in {"TOOL", "SYNC"} => Head(rcvd).msg \in WorldCommand
<1>1. Head(rcvd) \in ReceivedTo(sync[Server]) /\ Tail(rcvd) \in Seq(ReceivedTo(sync[Server]))
  BY HeadTailProperties DEF IInv, ServerInv
<1>2. Head(rcvd) \in Received /\ Reached(Head(rcvd).msg, sync[Server])
  BY <1>1 DEF ReceivedTo
<1>3. ASSUME NEW r \in Received
      PROVE  /\ r.msg.type \in {"JOIN", "READY"} => r.from \in Clients
             /\ r.msg.type = "READY" => r.msg \in Ready
             /\ r.msg.type = "REQUEST" => r.msg \in Request
             /\ r.msg.type \in {"TOOL", "SYNC"} => r.msg \in WorldCommand
             /\ r.from \in Clients \cup {Server}
  <2>1. CASE r \in [from : Clients, msg : Ready \cup Request \cup {JoinMsg}]
    BY <2>1 DEF Ready, Request, JoinMsg
  <2>2. CASE r \in [from : {Server}, msg : WorldCommand \cup Request]
    BY <2>2 DEF Request, WorldCommand
  <2> QED BY <2>1, <2>2 DEF Received
<1>4. Head(rcvd).msg.type = "READY" => Head(rcvd).msg \in DownMsgTo(sync[Server])
  BY <1>2, <1>3 DEF DownMsgTo, DownMsg
<1> QED BY <1>1, <1>2, <1>3, <1>4

LEMMA FromServerType ==
  ASSUME NEW n, NEW m \in WorldCommand \cup Request, Reached(m, n)
  PROVE  FromServer(m) \in ReceivedTo(n)
BY DEF FromServer, ReceivedTo, Received

LEMMA JoinKeeps ==
  ASSUME IInv, rcvd # <<>>, NEW c \in Clients, ExecuteJoin(c),
         stage' \in {"receive", "execute", "run"}
  PROVE  IInv'
<1> DEFINE n == sync[Server]
           nws == SyncMsg(n + 1, mc[Server], slot[c], lastMc + 1)
<1>1. UNCHANGED nodeVars /\ sync' = sync
  BY DEF ExecuteJoin, nodeVars
<1>2. n \in Nat /\ n + 1 \in Nat /\ mc[Server] \in Nat /\ slot[c] \in Nat
      /\ lastMc \in Nat /\ lastMc + 1 \in Nat
  BY NodesFacts DEF IInv, NodeInv, SockInv, UserInv
<1>3. <<>> \in World /\ {} \in Checklist
  BY DEF World, Checklist
<1>4. nws \in WorldCommand /\ nws \in BroadcastTo(n) /\ nws \in DownMsgTo(n)
      /\ JoinReply(TRUE) \in DownMsgTo(n) /\ JoinReply(FALSE) \in DownMsgTo(n)
  BY <1>2, <1>3, MessageTypes
<1> HIDE DEF nws
<1>5. Tail(rcvd) \in Seq(ReceivedTo(n))
  BY HeadOfReceived
<1>6. CASE JoinPossible
  <2>1. Append(Tail(rcvd), FromServer(nws)) \in Seq(ReceivedTo(n))
    <3>1. Reached(nws, n)
      BY <1>4 DEF BroadcastTo
    <3> QED BY <1>4, <1>5, <3>1, FromServerType, AppendProperties
  <2>2. ServerInv'
    BY <1>1, <1>6, <2>1 DEF ExecuteJoin, IInv, ServerInv, Unpause, nws
  <2>3. sendq' \in [Clients -> Seq(BroadcastTo(n))]
    BY <1>4, <1>6, SendAllKeeps DEF ExecuteJoin, IInv, SockInv, nws
  <2>4. down' \in [Clients -> Seq(DownMsgTo(n))]
    <3>1. <<JoinReply(TRUE), nws>> \in Seq(DownMsgTo(n))
      BY <1>4, ShortSequences
    <3>2. Direct(c, <<JoinReply(TRUE), nws>>)
      BY <1>6 DEF ExecuteJoin, nws
    <3> QED BY <3>1, <3>2, DirectKeeps DEF IInv, SockInv
  <2>5. SockInv'
    BY <1>1, <1>6, <2>3, <2>4 DEF ExecuteJoin, IInv, SockInv
  <2>6. UserInv'
    BY <1>2, <1>6 DEF ExecuteJoin, IInv, UserInv
  <2> QED BY <1>1, <2>2, <2>5, <2>6, Unchanged DEF IInv
<1>7. CASE ~JoinPossible
  <2>1. ServerInv'
    BY <1>1, <1>5, <1>7 DEF ExecuteJoin, IInv, ServerInv
  <2>2. down' \in [Clients -> Seq(DownMsgTo(n))]
    <3>1. <<JoinReply(FALSE)>> \in Seq(DownMsgTo(n))
      BY <1>4, ShortSequences
    <3>2. Direct(c, <<JoinReply(FALSE)>>)
      BY <1>7 DEF ExecuteJoin
    <3> QED BY <3>1, <3>2, DirectKeeps DEF IInv, SockInv
  <2>3. SockInv'
    BY <1>1, <1>7, <2>2 DEF ExecuteJoin, IInv, SockInv
  <2>4. UNCHANGED userVars
    BY <1>7 DEF ExecuteJoin
  <2> QED BY <1>1, <2>1, <2>3, <2>4, Unchanged DEF IInv
<1> QED BY <1>6, <1>7

LEMMA ReadyKeeps ==
  ASSUME IInv, rcvd # <<>>, Head(rcvd).msg.type = "READY",
         ExecuteReady(Head(rcvd).from, Head(rcvd).msg),
         stage' \in {"receive", "execute", "run"}
  PROVE  IInv'
<1> DEFINE n == sync[Server]
           c == Head(rcvd).from
           m == Head(rcvd).msg
<1>1. c \in Clients /\ m \in DownMsgTo(n) /\ Tail(rcvd) \in Seq(ReceivedTo(n))
  BY HeadOfReceived
<1>2. UNCHANGED nodeVars /\ UNCHANGED userVars /\ rcvd' = Tail(rcvd)
      /\ UNCHANGED <<paused, hasSave, saved, mapCounters, slot>>
      /\ \/ Direct(c, <<m>>) /\ UNCHANGED <<pending, sock, left, sendq, up>>
         \/ RemoveClient(c, "kicked")
  BY DEF ExecuteReady
<1>3. sync' = sync
  BY <1>2 DEF nodeVars
<1> HIDE DEF c, m
<1>4. SockInv' /\ pending' \in Clients \cup {NoClient}
  <2>1. CASE Direct(c, <<m>>) /\ UNCHANGED <<pending, sock, left, sendq, up>>
    <3>1. <<m>> \in Seq(DownMsgTo(n))
      BY <1>1
    <3>2. down' \in [Clients -> Seq(DownMsgTo(n))]
      BY <1>1, <2>1, <3>1, DirectKeeps DEF IInv, SockInv
    <3> QED BY <1>2, <1>3, <2>1, <3>2 DEF IInv, SockInv, ServerInv
  <2>2. CASE RemoveClient(c, "kicked")
    BY <1>1, <1>2, <1>3, <2>2, RemoveClientKeeps
  <2> QED BY <1>2, <2>1, <2>2
<1>5. ServerInv'
  BY <1>1, <1>2, <1>3, <1>4 DEF IInv, ServerInv
<1> QED BY <1>2, <1>3, <1>4, <1>5, Unchanged DEF IInv

LEMMA RequestKeeps ==
  ASSUME IInv, rcvd # <<>>, Head(rcvd).msg.type = "REQUEST",
         ExecuteRequest(Head(rcvd).from, Head(rcvd).msg),
         stage' \in {"receive", "execute", "run"}
  PROVE  IInv'
<1> DEFINE n == sync[Server]
           c == Head(rcvd).from
           m == Head(rcvd).msg
           tool == ToolMsg(n + 1, m.mc, m.cmd, ChecklistAt(world[Server], n))
<1>1. c \in Clients \cup {Server} /\ m \in Request /\ Tail(rcvd) \in Seq(ReceivedTo(n))
  BY HeadOfReceived
<1>2. UNCHANGED nodeVars /\ UNCHANGED userVars /\ sync' = sync
      /\ UNCHANGED <<paused, hasSave, saved, mapCounters, slot>>
  BY DEF ExecuteRequest, nodeVars
<1>3. \/ rcvd' = Tail(rcvd) /\ UNCHANGED <<pending, sock, left, sendq, up, down>>
      \/ c # Server /\ rcvd' = Tail(rcvd) /\ RemoveClient(c, "kicked")
      \/ /\ SendAll(tool) /\ rcvd' = Append(Tail(rcvd), FromServer(tool))
         /\ UNCHANGED <<pending, sock, left, up, down>>
  BY DEF ExecuteRequest
<1>4. tool \in WorldCommand /\ tool \in BroadcastTo(n)
  <2>1. n \in Nat /\ n + 1 \in Nat /\ world[Server] \in World
    BY NodesFacts DEF IInv, NodeInv
  <2>2. m.mc \in Nat /\ m.cmd \in Nat
    BY <1>1 DEF Request
  <2>3. ChecklistAt(world[Server], n) \in Checklist
    BY <2>1, ChecklistType
  <2>4. 0 \in Nat /\ <<>> \in World
    BY DEF World
  <2> QED BY <2>1, <2>2, <2>3, <2>4, MessageTypes
<1> HIDE DEF c, m, tool
<1>5. CASE rcvd' = Tail(rcvd) /\ UNCHANGED <<pending, sock, left, sendq, up, down>>
  BY <1>1, <1>2, <1>5, Unchanged DEF IInv, ServerInv, SockInv
<1>6. CASE c # Server /\ rcvd' = Tail(rcvd) /\ RemoveClient(c, "kicked")
  <2>1. SockInv' /\ pending' \in Clients \cup {NoClient}
    BY <1>1, <1>2, <1>6, RemoveClientKeeps
  <2>2. ServerInv'
    BY <1>1, <1>2, <1>6, <2>1 DEF IInv, ServerInv
  <2> QED BY <1>2, <2>1, <2>2, Unchanged DEF IInv
<1>7. CASE /\ SendAll(tool) /\ rcvd' = Append(Tail(rcvd), FromServer(tool))
           /\ UNCHANGED <<pending, sock, left, up, down>>
  <2>1. Append(Tail(rcvd), FromServer(tool)) \in Seq(ReceivedTo(n))
    <3>1. Reached(tool, n)
      BY <1>4 DEF BroadcastTo
    <3> QED BY <1>1, <1>4, <3>1, FromServerType, AppendProperties
  <2>2. ServerInv'
    BY <1>2, <1>7, <2>1 DEF IInv, ServerInv
  <2>3. SockInv'
    BY <1>2, <1>4, <1>7, SendAllKeeps DEF IInv, SockInv
  <2> QED BY <1>2, <2>2, <2>3, Unchanged DEF IInv
<1> QED BY <1>3, <1>5, <1>6, <1>7

LEMMA WorldCommandKeeps ==
  ASSUME IInv, rcvd # <<>>, Head(rcvd).msg.type \in {"TOOL", "SYNC"},
         ExecuteWorldCommand(Head(rcvd).msg),
         stage' \in {"receive", "execute", "run"}
  PROVE  IInv'
<1> DEFINE m == Head(rcvd).msg
<1>1. m \in WorldCommand /\ Tail(rcvd) \in Seq(ReceivedTo(sync[Server]))
  BY HeadOfReceived
<1>2. UNCHANGED sockVars /\ UNCHANGED userVars /\ rcvd' = Tail(rcvd)
      /\ UNCHANGED <<sync, mc, world, barrier, paused, hasSave, saved, pending, mapCounters>>
  BY DEF ExecuteWorldCommand
<1>3. ServerInv'
  BY <1>1, <1>2 DEF IInv, ServerInv
<1>4. cmdQ' \in [Nodes -> Seq(WorldCommand)]
  <2>1. Insert(cmdQ[Server], m) \in Seq(WorldCommand)
    BY <1>1, InsertType, NodesFacts DEF IInv, NodeInv
  <2>2. \/ cmdQ' = [cmdQ EXCEPT ![Server] = <<>>]
        \/ cmdQ' = [cmdQ EXCEPT ![Server] = Insert(cmdQ[Server], m)]
        \/ cmdQ' = cmdQ
    BY DEF ExecuteWorldCommand
  <2>3. cmdQ \in [Nodes -> Seq(WorldCommand)] /\ Server \in Nodes
    BY NodesFacts DEF IInv, NodeInv
  <2> DEFINE i == Insert(cmdQ[Server], m)
  <2> HIDE DEF i
  <2>4. CASE cmdQ' = [cmdQ EXCEPT ![Server] = <<>>]
    BY <2>3, <2>4
  <2>5. CASE cmdQ' = [cmdQ EXCEPT ![Server] = i]
    BY <2>1, <2>3, <2>5 DEF i
  <2> QED BY <2>2, <2>3, <2>4, <2>5 DEF i
<1>5. phase' \in [Nodes -> {"out", "join", "sync", "game", "pause", "run", "desync"}]
  BY DEF ExecuteWorldCommand, IInv, NodeInv
<1>6. NodeInv'
  BY <1>2, <1>4, <1>5 DEF IInv, NodeInv
<1> QED BY <1>2, <1>3, <1>6, Unchanged DEF IInv

LEMMA ExecuteKeeps ==
  ASSUME IInv, SrvExecute
  PROVE  IInv'
<1> DEFINE from == Head(rcvd).from
           m == Head(rcvd).msg
<1>1. rcvd # <<>> /\ stage' \in {"receive", "execute", "run"}
  BY DEF SrvExecute
<1>2. CASE m.type = "JOIN" /\ ExecuteJoin(from)
  BY <1>1, <1>2, HeadOfReceived, JoinKeeps
<1>3. CASE m.type = "READY" /\ ExecuteReady(from, m)
  BY <1>1, <1>3, ReadyKeeps
<1>4. CASE m.type = "REQUEST" /\ ExecuteRequest(from, m)
  BY <1>1, <1>4, RequestKeeps
<1>5. CASE m.type \in {"TOOL", "SYNC"} /\ ExecuteWorldCommand(m)
  BY <1>1, <1>5, WorldCommandKeeps
<1> QED BY <1>2, <1>3, <1>4, <1>5 DEF SrvExecute

LEMMA SendKeeps ==
  ASSUME IInv, SrvSend
  PROVE  IInv'
<1> DEFINE n == sync[Server]
<1>1. UNCHANGED nodeVars /\ UNCHANGED userVars /\ sync' = sync
      /\ UNCHANGED <<paused, hasSave, saved, pending, mapCounters, rcvd, sock, slot, left, up>>
  BY DEF SrvSend, nodeVars
<1>2. ServerInv'
  BY <1>1 DEF SrvSend, IInv, ServerInv
<1>3. \A c \in Clients : /\ sendq[c] \in Seq(DownMsgTo(n))
                         /\ down[c] \o sendq[c] \in Seq(DownMsgTo(n))
  <2>1. BroadcastTo(n) \subseteq DownMsgTo(n)
    BY DEF BroadcastTo, DownMsgTo, DownMsg
  <2>2. \A c \in Clients : sendq[c] \in Seq(DownMsgTo(n))
    BY <2>1, SeqMonotonic DEF IInv, SockInv
  <2> QED BY <2>2, ConcatProperties DEF IInv, SockInv
<1>4. down' \in [Clients -> Seq(DownMsgTo(n))] /\ sendq' \in [Clients -> Seq(BroadcastTo(n))]
  <2>1. PICK writable : Flush(writable)
    BY DEF SrvSend
  <2>2. down' \in [Clients -> Seq(DownMsgTo(n))]
    BY <1>3, <2>1 DEF Flush, IInv, SockInv
  <2>3. sendq' \in [Clients -> Seq(BroadcastTo(n))]
    <3>1. sendq \in [Clients -> Seq(BroadcastTo(n))] /\ <<>> \in Seq(BroadcastTo(n))
      BY DEF IInv, SockInv
    <3> QED BY <2>1, <3>1 DEF Flush
  <2> QED BY <2>2, <2>3
<1>5. SockInv'
  BY <1>1, <1>4 DEF IInv, SockInv
<1> QED BY <1>1, <1>2, <1>5, Unchanged DEF IInv

LEMMA SyncServerKeeps ==
  ASSUME IInv, NEW id, NEW new \in Nat, SyncServer(id, new)
  PROVE  NodeInv' /\ ServerInv' /\ SockInv'
<1> DEFINE n == sync[Server]
           file == NetworkSave
           ready == ReadyMsg(n, new, ChecklistAt(file, n))
<1>1. UNCHANGED <<phase, sync, barrier, stage, saved, rcvd, slot, left, sendq, up>>
  BY DEF SyncServer
<1>2. n \in Nat /\ file \in World
  BY NodesFacts DEF NetworkSave, IInv, NodeInv, ServerInv
<1>3. NodeInv'
  <2>1. world' \in [Nodes -> World] /\ cmdQ' \in [Nodes -> Seq(WorldCommand)]
    <3>1. world' = [world EXCEPT ![Server] = file]
          /\ cmdQ' = [cmdQ EXCEPT ![Server] = <<>>]
      BY DEF SyncServer, LoadServer
    <3> HIDE DEF file
    <3>2. world' \in [Nodes -> World]
      BY <1>2, <3>1 DEF IInv, NodeInv
    <3>3. cmdQ' \in [Nodes -> Seq(WorldCommand)]
      <4>1. cmdQ \in [Nodes -> Seq(WorldCommand)] /\ <<>> \in Seq(WorldCommand)
        BY DEF IInv, NodeInv
      <4> QED BY <3>1, <4>1
    <3> QED BY <3>2, <3>3
  <2>2. mc' \in [Nodes -> Nat]
    BY DEF SyncServer, IInv, NodeInv
  <2> QED BY <1>1, <2>1, <2>2 DEF IInv, NodeInv
<1>4. mapCounters' \in Seq(Nat) /\ Len(mapCounters') <= MaxMapCounters
  <2> DEFINE kept == IF Len(mapCounters) = MaxMapCounters THEN MaxMapCounters - 1
                     ELSE Len(mapCounters)
             rest == SubSeq(mapCounters, 1, kept)
  <2>1. mapCounters \in Seq(Nat) /\ Len(mapCounters) \in Nat
        /\ Len(mapCounters) <= MaxMapCounters /\ MaxMapCounters \in Nat \ {0}
    BY BoundsAssumption, LenProperties DEF IInv, ServerInv
  <2>2. kept \in Nat /\ kept <= Len(mapCounters) /\ kept + 1 <= MaxMapCounters
    BY <2>1
  <2> HIDE DEF kept
  <2>3. \A i \in 1..kept : mapCounters[i] \in Nat
    BY <2>1, <2>2, ElementOfSeq
  <2>4. rest \in Seq(Nat) /\ Len(rest) = kept
    BY <2>2, <2>3, SubSeqProperties
  <2> HIDE DEF rest
  <2>5. <<new>> \in Seq(Nat) /\ Len(<<new>>) = 1
    OBVIOUS
  <2>6. <<new>> \o rest \in Seq(Nat) /\ Len(<<new>> \o rest) = 1 + kept
    BY <2>4, <2>5, ConcatProperties
  <2>7. mapCounters' = <<new>> \o rest
    BY DEF SyncServer, AppendMapCounter, rest, kept
  <2> QED BY <2>2, <2>6, <2>7
<1>5. ServerInv'
  BY <1>1, <1>4 DEF SyncServer, LoadServer, IInv, ServerInv
<1>6. down' \in [Clients -> Seq(DownMsgTo(n))]
  <2>1. GameMsg(file) \in DownMsgTo(n) /\ ready \in DownMsgTo(n)
    <3> HIDE DEF file, n
    <3>1. ChecklistAt(file, n) \in Checklist
      BY <1>2, ChecklistType
    <3>2. n <= n /\ 0 \in Nat
      BY <1>2
    <3> QED BY <1>2, <3>1, <3>2, MessageTypes
  <2>2. <<GameMsg(file), ready>> \in Seq(DownMsgTo(n))
    BY <2>1, ShortSequences
  <2> HIDE DEF file, ready, n
  <2>3. \A c \in Clients : down[c] \o <<GameMsg(file), ready>> \in Seq(DownMsgTo(n))
    BY <2>2, ConcatProperties DEF IInv, SockInv, n
  <2>4. down' = [c \in Clients |->
                   IF c \in Occupant(id) /\ ~Gone(c)
                   THEN down[c] \o <<GameMsg(file), ready>> ELSE down[c]]
    BY DEF SyncServer, file, ready, n
  <2> QED BY <2>3, <2>4 DEF IInv, SockInv, n
<1>7. sock' \in [Clients -> {"none", "backlog", "connected", "playing", "kicked"}]
  BY DEF SyncServer, IInv, SockInv
<1>8. SockInv'
  BY <1>1, <1>6, <1>7 DEF IInv, SockInv
<1> QED BY <1>3, <1>5, <1>8

LEMMA HeadOfQueue ==
  ASSUME IInv, NEW p \in Nodes, cmdQ[p] # <<>>
  PROVE  /\ Head(cmdQ[p]) \in WorldCommand
         /\ Tail(cmdQ[p]) \in Seq(WorldCommand)
         /\ Head(cmdQ[p]).type = "SYNC" => Head(cmdQ[p]).new \in Nat
         /\ Head(cmdQ[p]).type = "TOOL" => Head(cmdQ[p]).cmd \in Nat
<1>1. Head(cmdQ[p]) \in WorldCommand /\ Tail(cmdQ[p]) \in Seq(WorldCommand)
  BY HeadTailProperties DEF IInv, NodeInv
<1> QED BY <1>1 DEF WorldCommand

LEMMA ExecuteTypes ==
  ASSUME IInv, NEW p \in Nodes, NEW m, m.cmd \in Nat, Execute(p, m)
  PROVE  world' \in [Nodes -> World]
<1> DEFINE e == [cmd |-> m.cmd, step |-> sync[p]]
<1>1. e \in Entry /\ world[p] \in Seq(Entry)
  BY DEF Entry, World, IInv, NodeInv
<1>2. Append(world[p], e) \in World
  BY <1>1, AppendProperties DEF World
<1> QED BY <1>2 DEF Execute, IInv, NodeInv

LEMMA DrainKeeps ==
  ASSUME IInv, SrvDrain
  PROVE  IInv'
<1> DEFINE m == Head(cmdQ[Server])
           rest == [cmdQ EXCEPT ![Server] = Tail(@)]
<1>1. UNCHANGED userVars /\ cmdQ[Server] # <<>> /\ Server \in Nodes
  BY NodesFacts DEF SrvDrain, Due
<1>2. rest \in [Nodes -> Seq(WorldCommand)]
  BY <1>1, HeadOfQueue DEF IInv, NodeInv
<1> HIDE DEF rest
<1>3. CASE /\ phase' = [phase EXCEPT ![Server] = "desync"]
           /\ cmdQ' = [cmdQ EXCEPT ![Server] = <<>>]
           /\ UNCHANGED <<sync, mc, world, barrier, serverVars, sockVars>>
  <2>1. NodeInv'
    BY <1>1, <1>3 DEF IInv, NodeInv
  <2> QED BY <1>1, <1>3, <2>1, Unchanged DEF IInv
<1>4. CASE cmdQ' = rest /\ UNCHANGED <<phase, sync, mc, world, barrier, serverVars, sockVars>>
  <2>1. NodeInv'
    BY <1>2, <1>4 DEF IInv, NodeInv
  <2> QED BY <1>1, <1>4, <2>1, Unchanged DEF IInv
<1>5. CASE /\ m.type = "TOOL" /\ Execute(Server, m) /\ cmdQ' = rest
           /\ UNCHANGED <<phase, sync, mc, barrier, serverVars, sockVars>>
  <2>1. world' \in [Nodes -> World]
    BY <1>1, <1>5, HeadOfQueue, ExecuteTypes
  <2>2. NodeInv'
    BY <1>2, <1>5, <2>1 DEF IInv, NodeInv
  <2> QED BY <1>1, <1>5, <2>2, Unchanged DEF IInv
<1>6. CASE m.type = "SYNC" /\ SyncServer(m.id, m.new)
  <2>1. m.new \in Nat
    BY <1>1, <1>6, HeadOfQueue
  <2>2. sync' = sync
    BY <1>6 DEF SyncServer
  <2> QED BY <1>1, <1>6, <2>1, <2>2, SyncServerKeeps, Unchanged DEF IInv
<1> QED BY <1>3, <1>4, <1>5, <1>6 DEF SrvDrain, rest

-----------------------------------------------------------------------------
(* Steps of the server.  What was announced stays announced.  *)

LEMMA Monotone ==
  ASSUME NEW n \in Nat
  PROVE  /\ Seq(BroadcastTo(n)) \subseteq Seq(BroadcastTo(n + 1))
         /\ Seq(DownMsgTo(n)) \subseteq Seq(DownMsgTo(n + 1))
         /\ Seq(UpMsgTo(n)) \subseteq Seq(UpMsgTo(n + 1))
         /\ Seq(ReceivedTo(n)) \subseteq Seq(ReceivedTo(n + 1))
<1>1. ASSUME NEW m \in DownMsg \cup UpMsg \cup Ready \cup Request \cup {JoinMsg} \cup WorldCommand, Reached(m, n)
      PROVE  Reached(m, n + 1)
  <2>1. m.type \in {"STEP", "READY", "CHECK"} => m.step \in Nat
    BY DEF DownMsg, UpMsg, Ready, Request, JoinMsg, EofMsg, Broadcast, WorldCommand
  <2> QED BY <1>1, <2>1 DEF Reached
<1>2. BroadcastTo(n) \subseteq BroadcastTo(n + 1)
  BY <1>1 DEF BroadcastTo, DownMsg
<1>3. DownMsgTo(n) \subseteq DownMsgTo(n + 1)
  BY <1>1 DEF DownMsgTo
<1>4. UpMsgTo(n) \subseteq UpMsgTo(n + 1)
  BY <1>1 DEF UpMsgTo
<1>5. ReceivedTo(n) \subseteq ReceivedTo(n + 1)
  <2>1. \A r \in Received : r.msg \in Ready \cup Request \cup {JoinMsg} \cup WorldCommand
    BY DEF Received
  <2> QED BY <1>1, <2>1 DEF ReceivedTo
<1> QED BY <1>2, <1>3, <1>4, <1>5, SeqMonotonic

LEMMA StepKeeps ==
  ASSUME IInv, SrvStep
  PROVE  IInv'
<1> DEFINE n == sync[Server]
           news == {StepMsg(n + 1), CheckMsg(n + 2, mc[Server], ChecklistAt(world[Server], n + 1))}
<1>1. n \in Nat /\ n + 1 \in Nat /\ mc[Server] \in Nat /\ world[Server] \in World
  BY NodesFacts DEF IInv, NodeInv
<1>2. sync' = [sync EXCEPT ![Server] = n + 1]
  BY DEF SrvStep
<1>3. sync'[Server] = n + 1 /\ sync' \in [Nodes -> Nat]
  BY <1>1, <1>2, NodesFacts DEF IInv, NodeInv
<1>4. NodeInv'
  <2>1. \A c \in Clients : sync'[c] = sync[c] /\ sync[c] \in Nat /\ barrier[c] \in Nat
    BY <1>2, NodesFacts DEF IInv, NodeInv
  <2>2. \A c \in Clients : sync'[c] <= n + 1 /\ barrier[c] <= n + 1
    BY <1>1, <2>1 DEF IInv, NodeInv
  <2> QED BY <1>3, <2>2 DEF SrvStep, IInv, NodeInv
<1>5. ServerInv'
  <2>1. rcvd \in Seq(ReceivedTo(n + 1))
    BY <1>1, Monotone DEF IInv, ServerInv
  <2>2. saved' \in World /\ hasSave' \in BOOLEAN /\ paused' \in BOOLEAN
    BY <1>1 DEF SrvStep, Idle, IInv, ServerInv
  <2> QED BY <1>3, <2>1, <2>2 DEF SrvStep, IInv, ServerInv
<1>6. news \subseteq BroadcastTo(n + 1)
  <2>1. ChecklistAt(world[Server], n + 1) \in Checklist
    BY <1>1, ChecklistType
  <2> DEFINE k == n + 1
             chk == ChecklistAt(world[Server], n + 1)
  <2>2. k \in Nat /\ k <= k /\ n + 2 = k + 1 /\ 0 \in Nat
    BY <1>1
  <2> HIDE DEF n, k, chk
  <2>3. StepMsg(k) \in BroadcastTo(k) /\ CheckMsg(k + 1, mc[Server], chk) \in BroadcastTo(k)
    BY <1>1, <2>1, <2>2, MessageTypes DEF chk
  <2> QED BY <2>2, <2>3 DEF k, chk
<1>7. \E m \in news : SendAll(m)
  BY <1>1 DEF SrvStep
<1>8. sendq' \in [Clients -> Seq(BroadcastTo(n + 1))]
  <2>1. PICK m \in BroadcastTo(n + 1) : SendAll(m)
    BY <1>6, <1>7
  <2>2. sendq \in [Clients -> Seq(BroadcastTo(n + 1))]
    BY <1>1, Monotone DEF IInv, SockInv
  <2> QED BY <2>1, <2>2, SendAllKeeps
<1>9. SockInv'
  <2>1. /\ up \in [Clients -> Seq(UpMsgTo(n + 1))]
        /\ down \in [Clients -> Seq(DownMsgTo(n + 1))]
    BY <1>1, Monotone DEF IInv, SockInv
  <2>2. left' \in SUBSET Nat
    BY DEF SrvStep, IInv, SockInv
  <2> QED BY <1>3, <1>8, <2>1, <2>2 DEF SrvStep, IInv, SockInv
<1>10. UserInv'
  BY DEF SrvStep, userVars, IInv, UserInv
<1> QED BY <1>4, <1>5, <1>9, <1>10 DEF IInv

LEMMA LoopKeeps ==
  ASSUME IInv, SrvLoop
  PROVE  IInv'
<1>1. UNCHANGED nodeVars /\ UNCHANGED sockVars /\ UNCHANGED userVars /\ sync' = sync
  BY DEF SrvLoop, nodeVars
<1>2. ServerInv'
  BY <1>1 DEF SrvLoop, IInv, ServerInv
<1> QED BY <1>1, <1>2, Unchanged DEF IInv

LEMMA ForceSyncKeeps ==
  ASSUME IInv, SrvForceSync
  PROVE  IInv'
<1> DEFINE n == sync[Server]
           nws == SyncMsg(n + 1, mc[Server], 0, lastMc + 1)
<1>1. n \in Nat /\ n + 1 \in Nat /\ mc[Server] \in Nat /\ lastMc + 1 \in Nat
  BY NodesFacts DEF IInv, NodeInv, UserInv
<1>2. UserInv'
  BY <1>1 DEF SrvForceSync, IInv, UserInv
<1>3. CASE SyncServer(0, lastMc + 1)
  BY <1>1, <1>2, <1>3, SyncServerKeeps DEF IInv
<1>4. CASE /\ SendAll(nws) /\ rcvd' = Append(rcvd, FromServer(nws))
           /\ UNCHANGED <<nodeVars, stage, paused, hasSave, saved, pending, mapCounters,
                          sock, slot, left, up, down>>
  <2>1. sync' = sync /\ UNCHANGED nodeVars
    BY <1>4 DEF nodeVars
  <2>2. nws \in WorldCommand /\ nws \in BroadcastTo(n)
    <3>1. <<>> \in World /\ {} \in Checklist /\ 0 \in Nat
      BY DEF World, Checklist
    <3> QED BY <1>1, <3>1, MessageTypes
  <2> HIDE DEF nws
  <2>3. Append(rcvd, FromServer(nws)) \in Seq(ReceivedTo(n))
    <3>1. Reached(nws, n)
      BY <2>2 DEF BroadcastTo
    <3> QED BY <2>2, <3>1, FromServerType, AppendProperties DEF IInv, ServerInv
  <2>4. ServerInv'
    BY <1>4, <2>1, <2>3 DEF IInv, ServerInv
  <2>5. SockInv'
    BY <1>4, <2>1, <2>2, SendAllKeeps DEF IInv, SockInv
  <2> QED BY <1>2, <2>1, <2>4, <2>5, Unchanged DEF IInv
<1> QED BY <1>3, <1>4 DEF SrvForceSync

(* The request of a user of node p *)
LEMMA OwnRequestType ==
  ASSUME IInv, NEW p \in Nodes
  PROVE  /\ lastCmd + 1 \in Nat
         /\ RequestMsg(sync[p], mc[p], lastCmd + 1, ChecklistAt(world[p], sync[p]))
              \in Request \cap UpMsgTo(sync[Server])
<1>1. sync[p] \in Nat /\ mc[p] \in Nat /\ world[p] \in World /\ sync[Server] \in Nat
      /\ lastCmd + 1 \in Nat
  BY NodesFacts DEF IInv, NodeInv, UserInv
<1>2. ChecklistAt(world[p], sync[p]) \in Checklist /\ 0 \in Nat /\ <<>> \in World
  BY <1>1, ChecklistType DEF World
<1> QED BY <1>1, <1>2, MessageTypes

LEMMA SrvToolKeeps ==
  ASSUME IInv, SrvTool
  PROVE  IInv'
<1> DEFINE m == RequestMsg(sync[Server], mc[Server], lastCmd + 1,
                           ChecklistAt(world[Server], sync[Server]))
<1>1. UNCHANGED nodeVars /\ UNCHANGED sockVars /\ sync' = sync
  BY DEF SrvTool, nodeVars
<1>2. m \in Request /\ Reached(m, sync[Server]) /\ lastCmd + 1 \in Nat
  BY NodesFacts, OwnRequestType DEF UpMsgTo
<1>3. rcvd' = Append(rcvd, FromServer(m))
  BY DEF SrvTool
<1> HIDE DEF m
<1>4. Append(rcvd, FromServer(m)) \in Seq(ReceivedTo(sync[Server]))
  BY <1>2, FromServerType, AppendProperties DEF IInv, ServerInv
<1>5. ServerInv'
  BY <1>1, <1>3, <1>4 DEF SrvTool, IInv, ServerInv
<1>6. UserInv'
  BY <1>2 DEF SrvTool, IInv, UserInv
<1> QED BY <1>1, <1>5, <1>6, Unchanged DEF IInv

-----------------------------------------------------------------------------
(* The actions of a client *)

LEMMA ConnectKeeps ==
  ASSUME IInv, NEW c \in Clients, CliConnect(c)
  PROVE  IInv'
<1>1. UNCHANGED serverVars /\ UNCHANGED userVars /\ sync' = sync
  BY DEF CliConnect
<1>2. NodeInv'
  BY <1>1 DEF CliConnect, IInv, NodeInv
<1>3. up' \in [Clients -> Seq(UpMsgTo(sync[Server]))]
  <2>1. <<JoinMsg>> \in Seq(UpMsgTo(sync[Server]))
    <3>1. JoinMsg \in UpMsgTo(sync[Server])
      BY DEF JoinMsg, UpMsgTo, UpMsg, Reached
    <3> QED BY <3>1
  <2>2. up \in [Clients -> Seq(UpMsgTo(sync[Server]))] /\ up' = [up EXCEPT ![c] = <<JoinMsg>>]
    BY DEF CliConnect, IInv, SockInv
  <2> QED BY <2>1, <2>2
<1>4. SockInv'
  BY <1>1, <1>3 DEF CliConnect, IInv, SockInv
<1> QED BY <1>1, <1>2, <1>4, Unchanged DEF IInv

(* The message a client reads *)
LEMMA HeadOfDown ==
  ASSUME IInv, NEW c \in Clients, down[c] # <<>>
  PROVE  /\ Head(down[c]) \in DownMsgTo(sync[Server])
         /\ [down EXCEPT ![c] = Tail(@)] \in [Clients -> Seq(DownMsgTo(sync[Server]))]
<1>1. down[c] \in Seq(DownMsgTo(sync[Server])) /\ down[c] # <<>>
  BY DEF IInv, SockInv
<1>2. Head(down[c]) \in DownMsgTo(sync[Server]) /\ Tail(down[c]) \in Seq(DownMsgTo(sync[Server]))
  BY <1>1, HeadTailProperties
<1> QED BY <1>2 DEF IInv, SockInv

(* A client reads: sockets keep their types when it does not disconnect *)
LEMMA ReadKeeps ==
  ASSUME IInv, NEW c \in Clients, down[c] # <<>>, down' = [down EXCEPT ![c] = Tail(@)],
         UNCHANGED <<sock, slot, left, sendq, up>>, sync'[Server] = sync[Server]
  PROVE  SockInv'
BY HeadOfDown DEF IInv, SockInv

(* A client takes over a step that the server has reached *)
LEMMA RaiseBarrierKeeps ==
  ASSUME IInv, NEW c \in Clients, NEW s \in Int, s <= sync[Server], RaiseBarrier(c, s),
         UNCHANGED sync
  PROVE  /\ barrier' \in [Nodes -> Nat]
         /\ \A d \in Clients : barrier'[d] <= sync[Server]
<1>1. barrier[c] \in Nat /\ barrier[c] <= sync[Server] /\ c \in Nodes
      /\ barrier \in [Nodes -> Nat] /\ \A d \in Clients : barrier[d] <= sync[Server]
  BY NodesFacts DEF IInv, NodeInv
<1> DEFINE b == IF barrier[c] < s THEN s ELSE barrier[c]
<1>2. b \in Nat /\ b <= sync[Server]
  BY <1>1
<1>3. barrier' = [barrier EXCEPT ![c] = b]
  BY DEF RaiseBarrier
<1> HIDE DEF b
<1> QED BY <1>1, <1>2, <1>3, NodesFacts

LEMMA JoinStepKeeps ==
  ASSUME IInv, NEW c \in Clients, down[c] # <<>>, JoinStep(c, Head(down[c])),
         UNCHANGED <<sock, slot, left, sendq>>
  PROVE  NodeInv' /\ SockInv'
<1> DEFINE m == Head(down[c])
           n == sync[Server]
<1>1. m \in DownMsgTo(n) /\ n \in Nat /\ c \in Nodes /\ c # Server
  BY HeadOfDown, NodesFacts DEF IInv, NodeInv
<1>2. CASE Disconnect(c, "out") /\ UNCHANGED <<sync, mc, world, barrier>>
  BY <1>2, DisconnectKeeps
<1>3. CASE /\ down' = [down EXCEPT ![c] = Tail(@)] /\ UNCHANGED up
           /\ UNCHANGED <<sync, world, cmdQ, barrier>>
           /\ \/ phase' = [phase EXCEPT ![c] = "sync"] /\ UNCHANGED mc
              \/ /\ phase' = [phase EXCEPT ![c] = "game"]
                 /\ m.type = "SYNC" /\ mc' = [mc EXCEPT ![c] = m.new]
              \/ UNCHANGED <<phase, mc>>
  <2>1. m.type = "SYNC" => m.new \in Nat
    <3>1. m.type = "SYNC" => m \in WorldCommand
      BY <1>1, MessageCases
    <3> QED BY <3>1 DEF WorldCommand
  <2>2. NodeInv'
    BY <1>3, <2>1 DEF IInv, NodeInv
  <2> QED BY <1>3, <2>2, ReadKeeps
<1>4. CASE /\ m.type = "GAME"
           /\ down' = [down EXCEPT ![c] = Tail(@)] /\ UNCHANGED <<up, mc, cmdQ>>
           /\ phase' = [phase EXCEPT ![c] = "pause"]
           /\ world' = [world EXCEPT ![c] = m.world]
           /\ sync' = [sync EXCEPT ![c] = 0]
           /\ barrier' = [barrier EXCEPT ![c] = 0]
  <2>1. m.world \in World
    BY <1>1, <1>4, MessageCases
  <2>2. sync'[Server] = sync[Server]
    BY <1>1, <1>4, NodesFacts DEF IInv, NodeInv
  <2>3. \A d \in Clients : sync'[d] <= n /\ barrier'[d] <= n
    BY <1>1, <1>4, NodesFacts DEF IInv, NodeInv
  <2>4. NodeInv'
    BY <1>4, <2>1, <2>2, <2>3 DEF IInv, NodeInv
  <2> QED BY <1>4, <2>2, <2>4, ReadKeeps
<1> QED BY <1>2, <1>3, <1>4 DEF JoinStep

LEMMA GameStepKeeps ==
  ASSUME IInv, NEW c \in Clients, down[c] # <<>>, GameStep(c, Head(down[c])),
         UNCHANGED <<sock, slot, left, sendq>>
  PROVE  NodeInv' /\ SockInv'
<1> DEFINE m == Head(down[c])
           n == sync[Server]
<1>1. m \in DownMsgTo(n) /\ n \in Nat /\ c \in Nodes /\ c # Server
  BY HeadOfDown, NodesFacts DEF IInv, NodeInv
<1>2. CASE \E to \in {"out", "desync"} : Disconnect(c, to) /\ UNCHANGED <<sync, mc, world, barrier>>
  BY <1>2, DisconnectKeeps
<1>3. CASE /\ \E s \in Int : s <= n /\ RaiseBarrier(c, s)
           /\ down' = [down EXCEPT ![c] = Tail(@)]
           /\ cmdQ' \in [Nodes -> Seq(WorldCommand)]
           /\ UNCHANGED <<phase, sync, mc, world, up>>
  <2>1. barrier' \in [Nodes -> Nat] /\ \A d \in Clients : barrier'[d] <= n
    BY <1>3, RaiseBarrierKeeps
  <2>2. NodeInv'
    BY <1>3, <2>1 DEF IInv, NodeInv
  <2> QED BY <1>3, <2>2, ReadKeeps
<1>4. CASE /\ down' = [down EXCEPT ![c] = Tail(@)]
           /\ cmdQ' \in [Nodes -> Seq(WorldCommand)]
           /\ UNCHANGED <<phase, sync, mc, world, barrier, up>>
  <2>1. NodeInv'
    BY <1>4 DEF IInv, NodeInv
  <2> QED BY <1>4, <2>1, ReadKeeps
<1>5. CASE /\ m.type = "READY"
           /\ phase' = [phase EXCEPT ![c] = "run"]
           /\ sync' = [sync EXCEPT ![c] = m.step]
           /\ barrier' = [barrier EXCEPT ![c] = m.step]
           /\ down' = [down EXCEPT ![c] = Tail(@)]
           /\ UNCHANGED <<mc, world, cmdQ, up>>
  <2>1. m.step \in Nat /\ m.step <= n
    <3>1. m \in Ready /\ m.step <= n
      BY <1>1, <1>5, MessageCases
    <3> QED BY <3>1 DEF Ready
  <2>2. sync'[Server] = sync[Server]
    BY <1>1, <1>5, NodesFacts DEF IInv, NodeInv
  <2>3. \A d \in Clients : sync'[d] <= n /\ barrier'[d] <= n
    BY <1>5, <2>1, NodesFacts DEF IInv, NodeInv
  <2>4. NodeInv'
    BY <1>5, <2>1, <2>2, <2>3 DEF IInv, NodeInv
  <2> QED BY <1>5, <2>2, <2>4, ReadKeeps
<1>6. cmdQ \in [Nodes -> Seq(WorldCommand)]
      /\ (m.type \in {"CHECK", "TOOL", "SYNC"} =>
            [cmdQ EXCEPT ![c] = Insert(cmdQ[c], m)] \in [Nodes -> Seq(WorldCommand)])
  <2>1. m.type \in {"CHECK", "TOOL", "SYNC"} => m \in WorldCommand
    BY <1>1, MessageCases
  <2>2. m \in WorldCommand => Insert(cmdQ[c], m) \in Seq(WorldCommand)
    BY <1>1, InsertType DEF IInv, NodeInv
  <2> QED BY <2>1, <2>2 DEF IInv, NodeInv
<1>7. m.type = "STEP" => m.step \in Int /\ m.step <= n
  BY <1>1, MessageCases
<1>8. m.type = "CHECK" => m.step - 1 \in Int /\ m.step - 1 <= n
  <2>1. m.type = "CHECK" => m.step <= n + 1 /\ m \in WorldCommand
    BY <1>1, MessageCases
  <2>2. m \in WorldCommand => m.step \in Nat
    BY DEF WorldCommand
  <2> QED BY <1>1, <2>1, <2>2
<1> HIDE DEF m, n
<1>9. CASE m.type = "STEP"
  BY <1>1, <1>3, <1>6, <1>7, <1>9 DEF GameStep, m
<1>10. CASE m.type = "CHECK"
  <2>1. /\ RaiseBarrier(c, m.step - 1)
        /\ down' = [down EXCEPT ![c] = Tail(@)]
        /\ cmdQ' = [cmdQ EXCEPT ![c] = IF m.step < sync[c] THEN @ ELSE Insert(@, m)]
        /\ UNCHANGED <<phase, sync, mc, world, up>>
    BY <1>10 DEF GameStep, m
  <2>2. cmdQ' = cmdQ \/ cmdQ' = [cmdQ EXCEPT ![c] = Insert(cmdQ[c], m)]
    BY <1>1, <1>6, <2>1
  <2> QED BY <1>3, <1>6, <1>8, <1>10, <2>1, <2>2
<1>11. CASE m.type \in {"TOOL", "SYNC"}
  BY <1>2, <1>4, <1>6, <1>11 DEF GameStep, m
<1>12. CASE m.type = "READY"
  BY <1>2, <1>5, <1>12 DEF GameStep, m
<1>13. CASE m.type \in {"JOIN", "GAME"}
  BY <1>4, <1>6, <1>13 DEF GameStep, m
<1>14. CASE m.type = "EOF"
  BY <1>2, <1>14 DEF GameStep, m
<1> QED BY <1>9, <1>10, <1>11, <1>12, <1>13, <1>14 DEF GameStep, m

LEMMA CliReceiveKeeps ==
  ASSUME IInv, NEW c \in Clients, CliReceive(c)
  PROVE  IInv'
<1>1. down[c] # <<>> /\ UNCHANGED <<sock, slot, left, sendq>>
      /\ UNCHANGED serverVars /\ UNCHANGED userVars
  BY DEF CliReceive
<1>2. NodeInv' /\ SockInv'
  BY <1>1, JoinStepKeeps, GameStepKeeps DEF CliReceive
<1>3. sync'[Server] = sync[Server]
  BY NodesFacts DEF CliReceive, JoinStep, GameStep, Disconnect, IInv, NodeInv
<1> QED BY <1>1, <1>2, <1>3, Unchanged DEF IInv

LEMMA SyncClientKeeps ==
  ASSUME IInv, NEW c \in Clients, NEW m, m.new \in Nat, cmdQ[c] # <<>>, SyncClient(c, m),
         UNCHANGED <<sock, slot, left, sendq>>
  PROVE  NodeInv' /\ SockInv'
<1> DEFINE n == sync[Server]
           ready == ReadyMsg(sync[c], m.new, ChecklistAt(world[c], sync[c]))
<1>1. c \in Nodes /\ sync[c] \in Nat /\ sync[c] <= n /\ n \in Nat /\ world[c] \in World
  BY NodesFacts DEF IInv, NodeInv
<1>2. ready \in UpMsgTo(n)
  <2>1. ChecklistAt(world[c], sync[c]) \in Checklist /\ 0 \in Nat
    BY <1>1, ChecklistType
  <2> QED BY <1>1, <2>1, MessageTypes
<1>3. SendServer(c, ready) /\ UNCHANGED <<sync, down>>
  BY DEF SyncClient
<1> HIDE DEF ready
<1>4. SockInv'
  <2>1. up' \in [Clients -> Seq(UpMsgTo(n))]
    BY <1>2, <1>3, SendServerKeeps DEF IInv, SockInv
  <2> QED BY <1>3, <2>1 DEF IInv, SockInv
<1>5. NodeInv'
  <2>1. cmdQ' \in [Nodes -> Seq(WorldCommand)]
    BY <1>1, HeadOfQueue DEF SyncClient, IInv, NodeInv
  <2>2. barrier' \in [Nodes -> Nat] /\ \A d \in Clients : barrier'[d] <= n
    BY <1>1 DEF SyncClient, IInv, NodeInv
  <2> QED BY <1>1, <2>1, <2>2 DEF SyncClient, IInv, NodeInv
<1> QED BY <1>4, <1>5

LEMMA CliDrainKeeps ==
  ASSUME IInv, NEW c \in Clients, CliDrain(c)
  PROVE  IInv'
<1> DEFINE m == Head(cmdQ[c])
           rest == [cmdQ EXCEPT ![c] = Tail(@)]
<1>1. cmdQ[c] # <<>> /\ c \in Nodes /\ sync' = sync /\ UNCHANGED <<sock, slot, left, sendq>>
      /\ UNCHANGED serverVars /\ UNCHANGED userVars
  BY NodesFacts DEF CliDrain, Due, SyncClient
<1>2. rest \in [Nodes -> Seq(WorldCommand)]
  BY <1>1, HeadOfQueue DEF IInv, NodeInv
<1> HIDE DEF rest
<1>3. NodeInv' /\ SockInv'
  <2>1. CASE Disconnect(c, "desync") /\ UNCHANGED <<sync, mc, world, barrier>>
    BY <1>1, <2>1, DisconnectKeeps
  <2>2. CASE cmdQ' = rest /\ UNCHANGED <<phase, sync, mc, world, barrier, up, down>>
    BY <1>1, <1>2, <2>2 DEF IInv, NodeInv, SockInv
  <2>3. CASE /\ m.type = "TOOL" /\ Execute(c, m) /\ cmdQ' = rest
             /\ UNCHANGED <<phase, sync, mc, barrier, up, down>>
    <3>1. world' \in [Nodes -> World]
      BY <1>1, <2>3, HeadOfQueue, ExecuteTypes
    <3> QED BY <1>1, <1>2, <2>3, <3>1 DEF IInv, NodeInv, SockInv
  <2>4. CASE m.type = "SYNC" /\ SyncClient(c, m)
    BY <1>1, <2>4, HeadOfQueue, SyncClientKeeps
  <2> QED BY <2>1, <2>2, <2>3, <2>4 DEF CliDrain, rest
<1> QED BY <1>1, <1>3, Unchanged DEF IInv

LEMMA CliStepKeeps ==
  ASSUME IInv, NEW c \in Clients, CliStep(c)
  PROVE  IInv'
<1>1. /\ sync' = [sync EXCEPT ![c] = sync[c] + 1] /\ sync[c] < barrier[c]
      /\ UNCHANGED <<phase, mc, world, cmdQ, barrier>>
      /\ UNCHANGED serverVars /\ UNCHANGED sockVars /\ UNCHANGED userVars
  BY DEF CliStep, userVars
<1>2. c \in Nodes /\ c # Server /\ sync \in [Nodes -> Nat] /\ sync[Server] \in Nat
      /\ barrier \in [Nodes -> Nat] /\ barrier[c] <= sync[Server]
  BY NodesFacts DEF IInv, NodeInv
<1>3. sync'[Server] = sync[Server] /\ sync' \in [Nodes -> Nat]
  BY <1>1, <1>2, NodesFacts
<1>4. \A d \in Clients : sync'[d] <= sync[Server]
  BY <1>1, <1>2, NodesFacts DEF IInv, NodeInv
<1>5. NodeInv'
  BY <1>1, <1>3, <1>4 DEF IInv, NodeInv
<1> QED BY <1>1, <1>3, <1>5, Unchanged DEF IInv

LEMMA CliToolKeeps ==
  ASSUME IInv, NEW c \in Clients, CliTool(c)
  PROVE  IInv'
<1> DEFINE m == RequestMsg(sync[c], mc[c], lastCmd + 1, ChecklistAt(world[c], sync[c]))
<1>1. UNCHANGED nodeVars /\ UNCHANGED serverVars /\ sync' = sync
      /\ UNCHANGED <<sock, slot, left, sendq, down>>
  BY DEF CliTool, nodeVars
<1>2. m \in UpMsgTo(sync[Server]) /\ lastCmd + 1 \in Nat
  BY NodesFacts, OwnRequestType
<1>3. SendServer(c, m)
  BY DEF CliTool
<1> HIDE DEF m
<1>4. SockInv'
  BY <1>1, <1>2, <1>3, SendServerKeeps DEF IInv, SockInv
<1>5. UserInv'
  BY <1>2 DEF CliTool, IInv, UserInv
<1> QED BY <1>1, <1>4, <1>5, Unchanged DEF IInv

LEMMA LeaveKeeps ==
  ASSUME IInv, NEW c \in Clients, CliLeave(c)
  PROVE  IInv'
<1>1. /\ Disconnect(c, "out")
      /\ UNCHANGED <<sync, mc, world, barrier, sock, slot, left, sendq>>
      /\ UNCHANGED serverVars /\ UNCHANGED userVars
  BY DEF CliLeave
<1>2. NodeInv' /\ SockInv'
  BY <1>1, DisconnectKeeps
<1> QED BY <1>1, <1>2, Unchanged DEF IInv

-----------------------------------------------------------------------------
(* The invariant *)

LEMMA InitKeeps == Init => IInv
<1> SUFFICES ASSUME Init PROVE IInv
  OBVIOUS
<1> USE DEF Init
<1>1. <<>> \in World /\ <<>> \in Seq(WorldCommand) /\ <<>> \in Seq(ReceivedTo(0))
      /\ <<>> \in Seq(BroadcastTo(0)) /\ <<>> \in Seq(UpMsgTo(0)) /\ <<>> \in Seq(DownMsgTo(0))
      /\ <<>> \in Seq(Nat) /\ Len(<<>>) = 0
  BY DEF World
<1>2. sync[Server] = 0
  BY NodesFacts
<1>3. NodeInv
  BY <1>1, <1>2, NodesFacts DEF NodeInv
<1>4. ServerInv
  <2>1. paused \in BOOLEAN /\ hasSave \in BOOLEAN
    BY FlagsAssumption
  <2>2. mapCounters \in Seq(Nat) /\ Len(mapCounters) <= MaxMapCounters
    BY <1>1, BoundsAssumption
  <2> QED BY <1>1, <1>2, <2>1, <2>2 DEF ServerInv
<1>5. SockInv
  BY <1>1, <1>2 DEF SockInv
<1> QED BY <1>3, <1>4, <1>5 DEF IInv, UserInv

LEMMA ServerKeeps ==
  ASSUME IInv, ServerNext
  PROVE  IInv'
BY AcceptKeeps, ReceiveKeeps, ExecuteKeeps, SendKeeps, DrainKeeps, StepKeeps, LoopKeeps,
   ForceSyncKeeps, SrvToolKeeps DEF ServerNext

LEMMA ClientKeeps ==
  ASSUME IInv, NEW c \in Clients, ClientNext(c)
  PROVE  IInv'
BY ConnectKeeps, CliReceiveKeeps, CliDrainKeeps, CliStepKeeps, CliToolKeeps, LeaveKeeps
   DEF ClientNext

LEMMA StutterKeeps ==
  ASSUME IInv, UNCHANGED vars
  PROVE  IInv'
<1>1. UNCHANGED nodeVars /\ UNCHANGED serverVars /\ UNCHANGED sockVars /\ UNCHANGED userVars
      /\ sync' = sync
  BY DEF vars, nodeVars
<1> QED BY <1>1, Unchanged DEF IInv

(* What the network code keeps in every reachable state *)
THEOREM Invariance == Spec => []IInv
<1>1. IInv /\ [Next]_vars => IInv'
  BY ServerKeeps, ClientKeeps, StutterKeeps DEF Next
<1> QED BY InitKeeps, <1>1, PTL DEF Spec

(* Every variable has its type: in particular the map counters never exceed *)
(* MaxMapCounters and no queue holds a command it cannot execute            *)
THEOREM TypeCorrect == Spec => []TypeOK
<1>1. IInv => TypeOK
  <2> SUFFICES ASSUME IInv PROVE TypeOK
    OBVIOUS
  <2> DEFINE n == sync[Server]
  <2>1. /\ Seq(ReceivedTo(n)) \subseteq Seq(Received)
        /\ Seq(BroadcastTo(n)) \subseteq Seq(Broadcast)
        /\ Seq(UpMsgTo(n)) \subseteq Seq(UpMsg)
        /\ Seq(DownMsgTo(n)) \subseteq Seq(DownMsg)
    BY SeqMonotonic DEF ReceivedTo, BroadcastTo, UpMsgTo, DownMsgTo
  <2>2. rcvd \in Seq(Received)
    BY <2>1 DEF IInv, ServerInv
  <2>3. /\ sendq \in [Clients -> Seq(Broadcast)]
        /\ up \in [Clients -> Seq(UpMsg)]
        /\ down \in [Clients -> Seq(DownMsg)]
    BY <2>1 DEF IInv, SockInv
  <2> QED BY <2>2, <2>3 DEF IInv, NodeInv, ServerInv, SockInv, UserInv, TypeOK
<1> QED BY <1>1, Invariance, PTL

(* No client runs ahead of the server, for any number of clients, whatever *)
(* is in flight, and with any of the switches of the server                *)
THEOREM NeverAhead == Spec => []NeverAheadOfServer
<1>1. IInv => NeverAheadOfServer
  BY DEF IInv, NodeInv, NeverAheadOfServer
<1> QED BY <1>1, Invariance, PTL

(* A step that is announced anywhere is one that the server has reached *)
THEOREM AnnouncedReached == Spec => []AnnouncedStepsReached
<1>1. IInv => AnnouncedStepsReached
  <2> SUFFICES ASSUME IInv PROVE AnnouncedStepsReached
    OBVIOUS
  <2> DEFINE n == sync[Server]
  <2>1. ASSUME NEW c \in Clients
        PROVE  /\ barrier[c] <= n
               /\ \A i \in DOMAIN sendq[c] : Reached(sendq[c][i], n)
               /\ \A i \in DOMAIN down[c] : Reached(down[c][i], n)
               /\ \A i \in DOMAIN up[c] : Reached(up[c][i], n)
    <3>1. barrier[c] <= n
      BY DEF IInv, NodeInv
    <3>2. /\ sendq[c] \in Seq(BroadcastTo(n))
          /\ up[c] \in Seq(UpMsgTo(n))
          /\ down[c] \in Seq(DownMsgTo(n))
      BY DEF IInv, SockInv
    <3>3. \A i \in DOMAIN sendq[c] : sendq[c][i] \in BroadcastTo(n)
      BY <3>2
    <3>4. \A i \in DOMAIN down[c] : down[c][i] \in DownMsgTo(n)
      BY <3>2
    <3>5. \A i \in DOMAIN up[c] : up[c][i] \in UpMsgTo(n)
      BY <3>2
    <3> QED BY <3>1, <3>3, <3>4, <3>5 DEF BroadcastTo, DownMsgTo, UpMsgTo
  <2>2. \A i \in DOMAIN rcvd : Reached(rcvd[i].msg, n)
    <3>1. \A i \in DOMAIN rcvd : rcvd[i] \in ReceivedTo(n)
      BY DEF IInv, ServerInv
    <3> QED BY <3>1 DEF ReceivedTo
  <2> QED BY <2>1, <2>2 DEF AnnouncedStepsReached
<1> QED BY <1>1, Invariance, PTL

-----------------------------------------------------------------------------
(* What the server has executed is not undone while a client plays *)

(* A save in advance is there only while nobody plays *)
SaveInv == hasSave => \A c \in Clients : sock[c] # "playing"

(* Most steps neither make a save nor let a client play nor touch the server's world *)
Calm ==
  /\ hasSave' => hasSave
  /\ \A c \in Clients : sock'[c] = "playing" => sock[c] = "playing"
  /\ world'[Server] = world[Server]

Grows == /\ Len(world[Server]) <= Len(world'[Server])
         /\ SubSeq(world'[Server], 1, Len(world[Server])) = world[Server]

LEMMA WholeIsItself ==
  ASSUME NEW w \in World
  PROVE  SubSeq(w, 1, Len(w)) = w /\ Len(w) \in Nat
BY DEF World

LEMMA AppendGrows ==
  ASSUME NEW w \in World, NEW e \in Entry
  PROVE  Len(Append(w, e)) = Len(w) + 1 /\ SubSeq(Append(w, e), 1, Len(w)) = w
BY DEF World

LEMMA NobodyPlays ==
  /\ NumPlaying = 0 => \A c \in Clients : sock[c] # "playing"
  /\ (\A c \in Clients : sock[c] # "playing") => NumPlaying = 0
<1> DEFINE P == {c \in Clients : sock[c] = "playing"}
<1>1. IsFiniteSet(P)
  BY NodesAssumption, FS_Subset
<1>2. NumPlaying = Cardinality(P)
  BY DEF NumPlaying
<1>3. Cardinality(P) = 0 <=> P = {}
  BY <1>1, FS_EmptySet
<1> QED BY <1>2, <1>3

LEMMA CalmHolds ==
  ASSUME IInv, SaveInv, Calm
  PROVE  SaveInv' /\ Grows
<1>1. world[Server] \in World
  BY NodesFacts DEF IInv, NodeInv
<1>2. SaveInv'
  BY DEF SaveInv, Calm
<1>3. Grows
  BY <1>1, WholeIsItself DEF Calm, Grows
<1> QED BY <1>2, <1>3

LEMMA ServerIsCalm ==
  ASSUME IInv,
         \/ SrvExecute \/ SrvSend \/ SrvLoop \/ SrvTool
         \/ \E c \in Clients : SrvAccept(c) \/ SrvReceive(c)
  PROVE  Calm
<1>1. sock \in [Clients -> {"none", "backlog", "connected", "playing", "kicked"}]
  BY DEF IInv, SockInv
<1>2. ASSUME NEW c \in Clients, NEW how \in {"none", "kicked"}, RemoveClient(c, how)
      PROVE  \A d \in Clients : sock'[d] = "playing" => sock[d] = "playing"
  BY <1>1, <1>2 DEF RemoveClient
<1>3. CASE SrvExecute
  <2>1. rcvd # <<>>
    BY <1>3 DEF SrvExecute
  <2> DEFINE from == Head(rcvd).from
             m == Head(rcvd).msg
  <2>2. /\ m.type \in {"JOIN", "READY"} => from \in Clients
        /\ m.type = "REQUEST" => from \in Clients \cup {Server}
    BY <2>1, HeadOfReceived
  <2>3. CASE m.type = "JOIN" /\ ExecuteJoin(from)
    BY <2>3 DEF ExecuteJoin, Calm, nodeVars
  <2>4. CASE m.type = "READY" /\ ExecuteReady(from, m)
    BY <1>2, <2>2, <2>4 DEF ExecuteReady, Calm, nodeVars
  <2>5. CASE m.type = "REQUEST" /\ ExecuteRequest(from, m)
    BY <1>2, <2>2, <2>5 DEF ExecuteRequest, Calm, nodeVars
  <2>6. CASE m.type \in {"TOOL", "SYNC"} /\ ExecuteWorldCommand(m)
    BY <2>6 DEF ExecuteWorldCommand, Calm, sockVars
  <2> HIDE DEF from, m
  <2> QED BY <1>3, <2>3, <2>4, <2>5, <2>6 DEF SrvExecute, from, m
<1>4. CASE SrvSend \/ SrvLoop \/ SrvTool
  BY <1>4 DEF SrvSend, SrvLoop, SrvTool, Calm, nodeVars, sockVars
<1>5. ASSUME NEW c \in Clients, SrvAccept(c) PROVE Calm
  BY <1>1, <1>5 DEF SrvAccept, Calm, nodeVars, serverVars
<1>6. ASSUME NEW c \in Clients, SrvReceive(c) PROVE Calm
  BY <1>2, <1>6 DEF SrvReceive, Calm, nodeVars
<1> QED BY <1>3, <1>4, <1>5, <1>6

LEMMA ClientIsCalm ==
  ASSUME IInv, NEW c \in Clients, ClientNext(c)
  PROVE  Calm
<1>1. /\ sock \in [Clients -> {"none", "backlog", "connected", "playing", "kicked"}]
      /\ world \in [Nodes -> World] /\ c # Server /\ Server \in Nodes
  BY NodesFacts DEF IInv, SockInv, NodeInv
<1>2. CASE CliConnect(c)
  BY <1>1, <1>2 DEF CliConnect, Calm, serverVars
<1>3. CASE CliReceive(c)
  <2>1. UNCHANGED <<hasSave, sock>>
    BY <1>3 DEF CliReceive, serverVars
  <2> DEFINE m == Head(down[c])
  <2>2. CASE JoinStep(c, m)
    <3> HIDE DEF m
    <3>1. world' = world \/ world' = [world EXCEPT ![c] = m.world]
      BY <2>2 DEF JoinStep
    <3> QED BY <1>1, <2>1, <3>1 DEF Calm
  <2>3. CASE GameStep(c, m)
    <3> HIDE DEF m
    <3>1. world' = world
      BY <2>3 DEF GameStep
    <3> QED BY <2>1, <3>1 DEF Calm
  <2> HIDE DEF m
  <2> QED BY <1>3, <2>2, <2>3 DEF CliReceive, m
<1>4. CASE CliDrain(c)
  <2>1. UNCHANGED <<hasSave, sock>>
    BY <1>4 DEF CliDrain, serverVars
  <2> DEFINE m == Head(cmdQ[c])
  <2>2. world' = world \/ Execute(c, m)
    BY <1>4 DEF CliDrain, SyncClient
  <2> HIDE DEF m
  <2> QED BY <1>1, <2>1, <2>2 DEF Calm, Execute
<1>5. CASE CliStep(c) \/ CliTool(c) \/ CliLeave(c)
  BY <1>5 DEF CliStep, CliTool, CliLeave, Calm, nodeVars, serverVars, sockVars
<1> QED BY <1>2, <1>3, <1>4, <1>5 DEF ClientNext

LEMMA SyncIsSafe ==
  ASSUME IInv, SaveInv, NEW id, NEW new, SyncServer(id, new)
  PROVE  SaveInv' /\ (NumPlaying > 0 => Grows)
<1>1. /\ world \in [Nodes -> World] /\ Server \in Nodes /\ world[Server] \in World
  BY NodesFacts DEF IInv, NodeInv
<1>2. hasSave' = FALSE /\ world' = [world EXCEPT ![Server] = NetworkSave]
  BY DEF SyncServer, LoadServer
<1>3. CASE hasSave
  <2>1. NumPlaying = 0
    BY <1>3, NobodyPlays DEF SaveInv
  <2> QED BY <1>2, <2>1 DEF SaveInv
<1>4. CASE ~hasSave
  <2>1. world'[Server] = world[Server]
    BY <1>1, <1>2, <1>4 DEF NetworkSave
  <2>2. Grows
    BY <1>1, <2>1, WholeIsItself DEF Grows
  <2> QED BY <1>2, <2>2 DEF SaveInv
<1> QED BY <1>3, <1>4

LEMMA SaveStep ==
  ASSUME IInv, SaveInv, [Next]_vars
  PROVE  SaveInv' /\ (NumPlaying > 0 => Grows)
<1>1. CASE SrvDrain
  <2> DEFINE m == Head(cmdQ[Server])
  <2>1. Due(Server)
    BY <1>1 DEF SrvDrain
  <2>2. CASE m.type = "SYNC" /\ SyncServer(m.id, m.new)
    BY <2>2, SyncIsSafe
  <2>3. CASE m.type = "TOOL" /\ Execute(Server, m) /\ UNCHANGED <<serverVars, sockVars>>
    <3> DEFINE e == [cmd |-> m.cmd, step |-> sync[Server]]
    <3>1. m \in WorldCommand /\ Server \in Nodes /\ world[Server] \in World /\ sync[Server] \in Nat
      BY <2>1, HeadOfQueue, NodesFacts DEF Due, IInv, NodeInv
    <3>2. e \in Entry
      BY <2>3, <3>1 DEF WorldCommand, Entry
    <3>3. world'[Server] = Append(world[Server], e)
      BY <2>3, <3>1 DEF Execute, IInv, NodeInv
    <3> HIDE DEF e, m
    <3>4. Grows
      BY <3>1, <3>2, <3>3, AppendGrows, WholeIsItself DEF Grows
    <3>5. SaveInv'
      BY <2>3 DEF SaveInv, serverVars, sockVars
    <3> QED BY <3>4, <3>5
  <2>4. CASE UNCHANGED <<world, serverVars, sockVars>>
    <3>1. Calm
      BY <2>4 DEF Calm, serverVars, sockVars
    <3> QED BY <3>1, CalmHolds
  <2> HIDE DEF m
  <2> QED BY <1>1, <2>2, <2>3, <2>4 DEF SrvDrain, m
<1>2. CASE SrvStep
  <2>1. UNCHANGED <<world, sock>> /\ hasSave' = (hasSave \/ Idle)
    BY <1>2 DEF SrvStep
  <2>2. Idle => \A c \in Clients : sock[c] # "playing"
    BY NobodyPlays DEF Idle
  <2>3. SaveInv'
    BY <2>1, <2>2 DEF SaveInv
  <2>4. world[Server] \in World
    BY NodesFacts DEF IInv, NodeInv
  <2> QED BY <2>1, <2>3, <2>4, WholeIsItself DEF Grows
<1>3. CASE SrvForceSync
  <2>1. CASE SyncServer(0, lastMc + 1)
    BY <2>1, SyncIsSafe
  <2>2. CASE UNCHANGED <<nodeVars, hasSave, sock>>
    <3>1. Calm
      BY <2>2 DEF Calm, nodeVars
    <3> QED BY <3>1, CalmHolds
  <2> QED BY <1>3, <2>1, <2>2 DEF SrvForceSync
<1>4. CASE Calm
  BY <1>4, CalmHolds
<1>5. CASE UNCHANGED vars
  <2>1. Calm
    BY <1>5 DEF Calm, vars, nodeVars, serverVars, sockVars
  <2> QED BY <2>1, CalmHolds
<1> QED BY <1>1, <1>2, <1>3, <1>4, <1>5, ServerIsCalm, ClientIsCalm DEF Next, ServerNext

(* Nothing the server has executed is undone while a client plays, although a stale save may be   *)
(* loaded: a save in advance is used up by the sync that lets the first client play               *)
THEOREM NeverSetBack == Spec => ServerNeverSetBack
<1>1. Init => SaveInv
  BY DEF Init, SaveInv
<1>2. IInv /\ SaveInv /\ [Next]_vars => SaveInv' /\ [NumPlaying > 0 =>
       /\ Len(world[Server]) <= Len(world'[Server])
       /\ SubSeq(world'[Server], 1, Len(world[Server])) = world[Server]]_vars
  BY SaveStep DEF Grows
<1> QED BY <1>1, <1>2, Invariance, PTL DEF Spec, ServerNeverSetBack

-----------------------------------------------------------------------------
(* A paused server is alone *)

Alone == paused => pending = NoClient /\ \A c \in Clients : sock[c] # "playing"

(* Most steps neither pause the server nor let a client play or join *)
Lonely ==
  /\ paused' => paused
  /\ \A c \in Clients : sock'[c] = "playing" => sock[c] = "playing"
  /\ pending' \in {pending, NoClient}

LEMMA AloneStep ==
  ASSUME IInv, Alone, [Next]_vars
  PROVE  Alone'
<1>1. sock \in [Clients -> {"none", "backlog", "connected", "playing", "kicked"}]
  BY DEF IInv, SockInv
<1>2. Lonely => Alone'
  BY DEF Lonely, Alone
<1>3. ASSUME NEW c \in Clients, NEW how \in {"none", "kicked"}, RemoveClient(c, how),
             UNCHANGED paused
      PROVE  Lonely
  BY <1>1, <1>3 DEF RemoveClient, Lonely
<1>4. CASE SrvExecute
  <2>1. rcvd # <<>>
    BY <1>4 DEF SrvExecute
  <2> DEFINE from == Head(rcvd).from
             m == Head(rcvd).msg
  <2>2. /\ m.type \in {"JOIN", "READY"} => from \in Clients
        /\ m.type = "REQUEST" => from \in Clients \cup {Server}
    BY <2>1, HeadOfReceived
  <2>3. CASE m.type = "JOIN" /\ ExecuteJoin(from)
    BY <1>2, <2>3 DEF ExecuteJoin, Unpause, Lonely, Alone
  <2>4. CASE m.type = "READY" /\ ExecuteReady(from, m)
    BY <1>2, <1>3, <2>2, <2>4 DEF ExecuteReady, Lonely
  <2>5. CASE m.type = "REQUEST" /\ ExecuteRequest(from, m)
    BY <1>2, <1>3, <2>2, <2>5 DEF ExecuteRequest, Lonely
  <2>6. CASE m.type \in {"TOOL", "SYNC"} /\ ExecuteWorldCommand(m)
    BY <1>2, <2>6 DEF ExecuteWorldCommand, Lonely, sockVars
  <2> HIDE DEF from, m
  <2> QED BY <1>4, <2>3, <2>4, <2>5, <2>6 DEF SrvExecute, from, m
<1>5. CASE SrvStep
  BY <1>5, NobodyPlays DEF SrvStep, Idle, Alone
<1>6. CASE SrvDrain \/ SrvForceSync
  <2>1. ASSUME NEW id, NEW new, SyncServer(id, new) PROVE Alone'
    BY <2>1 DEF SyncServer, Alone
  <2>2. CASE UNCHANGED <<paused, pending, sock>>
    BY <1>2, <2>2 DEF Lonely
  <2> QED BY <1>6, <2>1, <2>2 DEF SrvDrain, SrvForceSync, serverVars, sockVars
<1>7. CASE SrvSend \/ SrvLoop \/ SrvTool
  BY <1>2, <1>7 DEF SrvSend, SrvLoop, SrvTool, Lonely, sockVars
<1>8. ASSUME NEW c \in Clients, SrvAccept(c) \/ SrvReceive(c) PROVE Alone'
  <2>1. CASE SrvAccept(c)
    BY <1>1, <1>2, <2>1 DEF SrvAccept, Lonely, serverVars
  <2>2. CASE SrvReceive(c)
    BY <1>2, <1>3, <2>2 DEF SrvReceive, Lonely
  <2> QED BY <1>8, <2>1, <2>2
<1>9. ASSUME NEW c \in Clients, ClientNext(c) PROVE Alone'
  <2>1. UNCHANGED serverVars
    BY <1>9 DEF ClientNext, CliConnect, CliReceive, CliDrain, CliStep, CliTool, CliLeave
  <2>2. UNCHANGED sock \/ sock' = [sock EXCEPT ![c] = "backlog"]
    BY <1>9 DEF ClientNext, CliConnect, CliReceive, CliDrain, CliStep, CliTool, CliLeave, sockVars
  <2> QED BY <1>1, <1>2, <2>1, <2>2 DEF Lonely, serverVars
<1>10. CASE UNCHANGED vars
  BY <1>2, <1>10 DEF vars, serverVars, sockVars, Lonely
<1> QED BY <1>4, <1>5, <1>6, <1>7, <1>8, <1>9, <1>10 DEF Next, ServerNext

(* The server pauses only when nobody plays or joins, and whoever joins wakes it                  *)
(* (nwc_join_t::execute), so nobody waits for steps that are not taken                            *)
THEOREM PausedIsAlone == Spec => []PausedAlone
<1>1. Init => Alone
  BY DEF Init, Alone
<1>2. Alone => PausedAlone
  BY NobodyPlays DEF Alone, PausedAlone
<1> QED BY <1>1, <1>2, AloneStep, Invariance, PTL DEF Spec

-----------------------------------------------------------------------------
(* Commands wait in the order of their sync steps *)

Sorted(q) == \A i, j \in DOMAIN q : i < j => q[i].step <= q[j].step

(* What is not later than the new command is the beginning of a sorted queue *)
LEMMA InsertSorts ==
  ASSUME NEW q \in Seq(WorldCommand), Sorted(q), NEW m \in WorldCommand
  PROVE  Sorted(Insert(q, m))
<1> DEFINE before == {i \in DOMAIN q : \A j \in 1..i : q[j].step <= m.step}
           k == Cardinality(before)
<1>0. Len(q) \in Nat /\ DOMAIN q = 1..Len(q)
  OBVIOUS
<1>1. Len(q) \in Nat /\ DOMAIN q = 1..Len(q) /\ m.step \in Nat /\ \A i \in 1..Len(q) : q[i].step \in Nat
  <2>1. \A i \in 1..Len(q) : q[i] \in WorldCommand
    BY ElementOfSeq
  <2> QED BY <1>0, <2>1 DEF WorldCommand
<1>2. k \in Nat /\ k <= Len(q) /\ before = 1..k
  <2>1. IsFiniteSet(before) /\ k \in Nat /\ k <= Len(q) /\ before \subseteq 1..Len(q)
    <3>1. IsFiniteSet(1..Len(q)) /\ Cardinality(1..Len(q)) = Len(q)
      BY <1>0, FS_Interval
    <3>2. before \in SUBSET (1..Len(q))
      BY <1>1
    <3>3. IsFiniteSet(before) /\ Cardinality(before) <= Cardinality(1..Len(q))
      BY <3>1, <3>2, FS_Subset
    <3> QED BY <3>1, <3>2, <3>3, FS_CardinalityType
  <2>2. before \subseteq 1..k
    <3> SUFFICES ASSUME NEW i \in before PROVE i <= k
      BY <1>1, <2>1
    <3>1. 1..i \subseteq before
      BY <1>1
    <3>2. Cardinality(1..i) = i
      BY <1>1, FS_Interval
    <3> QED BY <2>1, <3>1, <3>2, FS_Subset
  <2>3. IsFiniteSet(1..k) /\ Cardinality(1..k) = k
    BY <2>1, FS_Interval
  <2>4. before = 1..k
    BY <2>2, <2>3, FS_Subset
  <2> QED BY <2>1, <2>4
<1>3. Insert(q, m) = SubSeq(q, 1, k) \o <<m>> \o SubSeq(q, k + 1, Len(q))
  BY DEF Insert
<1>4. \A i \in 1..Len(q) : (\A j \in 1..i : q[j].step <= m.step) <=> i \in 1..k
  BY <1>1, <1>2
<1> HIDE DEF before, k
<1>5. \A a, b \in 1..Len(q) : a < b => q[a].step <= q[b].step
  BY <1>1 DEF Sorted
<1>6. \A i \in 1..k : q[i].step <= m.step
  BY <1>1, <1>2, <1>4
<1>7. ASSUME NEW i \in (k + 1)..Len(q) PROVE q[i].step >= m.step
  <2>1. PICK j \in 1..i : ~(q[j].step <= m.step)
    BY <1>1, <1>2, <1>4
  <2>2. j \in 1..Len(q) /\ i \in 1..Len(q) /\ j <= i
    BY <1>1, <1>2
  <2>3. q[j].step <= q[i].step
    BY <1>1, <1>5, <2>2
  <2> QED BY <1>1, <2>1, <2>2, <2>3
<1> DEFINE l == SubSeq(q, 1, k)
           r == SubSeq(q, k + 1, Len(q))
<1>8. /\ l \in Seq(WorldCommand) /\ Len(l) = k /\ \A i \in 1..k : l[i] = q[i]
      /\ r \in Seq(WorldCommand) /\ Len(r) = Len(q) - k /\ \A i \in 1..(Len(q) - k) : r[i] = q[k + i]
  <2>1. \A i \in 1..Len(q) : q[i] \in WorldCommand
    BY ElementOfSeq
  <2>2. /\ \A i \in 1..k : q[i] \in WorldCommand
        /\ \A i \in (k + 1)..Len(q) : q[i] \in WorldCommand
    BY <1>1, <1>2, <2>1
  <2>3. l \in Seq(WorldCommand) /\ Len(l) = k /\ \A i \in 1..k : l[i] = q[i]
    BY <1>2, <2>2, SubSeqProperties
  <2>4. r \in Seq(WorldCommand) /\ Len(r) = Len(q) - k /\ \A i \in 1..(Len(q) - k) : r[i] = q[k + i]
    <3>1. k + 1 \in Int /\ Len(q) \in Int
      BY <1>1, <1>2
    <3>2. /\ r \in Seq(WorldCommand)
          /\ Len(r) = IF k + 1 <= Len(q) THEN Len(q) - (k + 1) + 1 ELSE 0
          /\ \A i \in 1..(Len(q) - (k + 1) + 1) : r[i] = q[(k + 1) + i - 1]
      BY <2>2, <3>1, SubSeqProperties
    <3> HIDE DEF r
    <3>3. k <= Len(q) /\ k \in Nat /\ Len(q) \in Nat
      BY <1>1, <1>2
    <3>4. Len(q) - (k + 1) + 1 = Len(q) - k /\ \A i \in Nat : (k + 1) + i - 1 = k + i
      BY <3>3
    <3>5. \A i \in 1..(Len(q) - k) : r[i] = q[k + i]
      BY <3>2, <3>4
    <3>6. Len(r) = Len(q) - k
      <4>1. Len(r) = IF k + 1 <= Len(q) THEN Len(q) - (k + 1) + 1 ELSE 0
        BY <3>2
      <4>2. k + 1 <= Len(q) \/ k = Len(q)
        BY <3>3
      <4> QED BY <3>3, <4>1, <4>2
    <3>7. r \in Seq(WorldCommand)
      BY <3>2
    <3> QED BY <3>5, <3>6, <3>7
  <2> QED BY <2>3, <2>4
<1> HIDE DEF l, r
<1>9. /\ <<m>> \in Seq(WorldCommand) /\ l \o <<m>> \in Seq(WorldCommand) /\ Len(l \o <<m>>) = k + 1
      /\ \A i \in 1..(k + 1) : (l \o <<m>>)[i] = IF i <= k THEN l[i] ELSE m
  <2>1. <<m>> \in Seq(WorldCommand) /\ Len(<<m>>) = 1 /\ <<m>>[1] = m
    OBVIOUS
  <2>2. /\ l \o <<m>> \in Seq(WorldCommand) /\ Len(l \o <<m>>) = Len(l) + Len(<<m>>)
        /\ \A i \in 1..(Len(l) + Len(<<m>>)) :
             (l \o <<m>>)[i] = IF i <= Len(l) THEN l[i] ELSE <<m>>[i - Len(l)]
    BY <1>8, <2>1, ConcatProperties
  <2> DEFINE f == l \o <<m>>
  <2> HIDE DEF f
  <2>3. f \in Seq(WorldCommand) /\ Len(f) = k + 1
    BY <1>2, <1>8, <2>1, <2>2 DEF f
  <2>4. ASSUME NEW i \in 1..(k + 1) PROVE f[i] = IF i <= k THEN l[i] ELSE m
    <3>1. f[i] = IF i <= k THEN l[i] ELSE <<m>>[i - k]
      BY <1>2, <1>8, <2>1, <2>2 DEF f
    <3>2. ~(i <= k) => i - k = 1
      BY <1>2
    <3> QED BY <2>1, <3>1, <3>2
  <2> QED BY <2>1, <2>3, <2>4 DEF f
<1>10. Insert(q, m) = l \o <<m>> \o r
  BY <1>3 DEF l, r
<1>11. /\ Insert(q, m) \in Seq(WorldCommand) /\ Len(Insert(q, m)) = Len(q) + 1
       /\ \A i \in 1..(Len(q) + 1) :
            Insert(q, m)[i] = IF i <= k THEN q[i] ELSE IF i = k + 1 THEN m ELSE q[i - 1]
  <2> DEFINE f == l \o <<m>>
  <2>1. /\ f \in Seq(WorldCommand) /\ Len(f) = k + 1
        /\ \A i \in 1..(k + 1) : f[i] = IF i <= k THEN l[i] ELSE m
    BY <1>9
  <2>2. Insert(q, m) = f \o r
    BY <1>10
  <2> HIDE DEF f
  <2>3. /\ f \o r \in Seq(WorldCommand) /\ Len(f \o r) = Len(f) + Len(r)
        /\ \A i \in 1..(Len(f) + Len(r)) : (f \o r)[i] = IF i <= Len(f) THEN f[i] ELSE r[i - Len(f)]
    BY <1>8, <2>1, ConcatProperties
  <2>4. Len(f) + Len(r) = Len(q) + 1
    BY <1>1, <1>2, <1>8, <2>1
  <2>5. ASSUME NEW i \in 1..(Len(q) + 1)
        PROVE  (f \o r)[i] = IF i <= k THEN q[i] ELSE IF i = k + 1 THEN m ELSE q[i - 1]
    <3>1. (f \o r)[i] = IF i <= k + 1 THEN f[i] ELSE r[i - (k + 1)]
      BY <2>1, <2>3, <2>4
    <3>2. CASE i <= k + 1
      BY <1>2, <1>8, <2>1, <3>1, <3>2
    <3>3. CASE i > k + 1
      <4>1. i - (k + 1) \in 1..(Len(q) - k) /\ k + (i - (k + 1)) = i - 1
        BY <1>1, <1>2, <3>3
      <4>2. r[i - (k + 1)] = q[i - 1]
        BY <1>8, <4>1
      <4> QED BY <1>2, <3>1, <3>3, <4>2
    <3>4. i <= k + 1 \/ i > k + 1
      BY <1>1, <1>2
    <3> QED BY <3>2, <3>3, <3>4
  <2> QED BY <2>2, <2>3, <2>4, <2>5
<1> QED
  <2>1. DOMAIN Insert(q, m) = 1..(Len(q) + 1)
    BY <1>1, <1>11
  <2>2. ASSUME NEW i \in 1..(Len(q) + 1), NEW j \in 1..(Len(q) + 1), i < j
        PROVE  Insert(q, m)[i].step <= Insert(q, m)[j].step
    <3> DEFINE s(n) == IF n <= k THEN q[n] ELSE IF n = k + 1 THEN m ELSE q[n - 1]
    <3>1. Insert(q, m)[i] = s(i) /\ Insert(q, m)[j] = s(j)
      BY <1>11
    <3>2. CASE j <= k
      BY <1>1, <1>2, <1>5, <2>2, <3>1, <3>2
    <3>3. CASE j = k + 1
      BY <1>1, <1>2, <1>6, <2>2, <3>1, <3>3
    <3>4. CASE j > k + 1
      <4>1. j - 1 \in (k + 1)..Len(q) /\ j - 1 \in 1..Len(q)
        BY <1>1, <1>2, <3>4
      <4>2. i = k + 1 => s(i) = m
        BY <1>2
      <4>3. i <= k => i \in 1..Len(q) /\ i < j - 1
        BY <1>1, <1>2, <3>4
      <4>4. i > k + 1 => i - 1 \in 1..Len(q) /\ i - 1 < j - 1
        BY <1>1, <1>2, <2>2
      <4>5. i <= k \/ i = k + 1 \/ i > k + 1
        BY <1>2
      <4>6. s(j) = q[j - 1]
        BY <1>2, <3>4
      <4> QED BY <1>2, <1>5, <1>7, <3>1, <4>1, <4>2, <4>3, <4>4, <4>5, <4>6
    <3> QED BY <1>2, <3>2, <3>3, <3>4
  <2> QED BY <2>1, <2>2 DEF Sorted

LEMMA TailSorts ==
  ASSUME NEW q \in Seq(WorldCommand), q # <<>>, Sorted(q)
  PROVE  Sorted(Tail(q))
<1>1. /\ Len(q) \in Nat /\ DOMAIN q = 1..Len(q) /\ DOMAIN Tail(q) = 1..(Len(q) - 1)
      /\ \A i \in 1..(Len(q) - 1) : Tail(q)[i] = q[i + 1]
  OBVIOUS
<1>2. \A a, b \in 1..Len(q) : a < b => q[a].step <= q[b].step
  BY <1>1 DEF Sorted
<1>3. \A i \in 1..(Len(q) - 1) : i + 1 \in 1..Len(q)
  BY <1>1
<1> QED BY <1>1, <1>2, <1>3 DEF Sorted

(* A step inserts into one queue, takes the first off or deletes all *)
QueueStep(p) ==
  \/ UNCHANGED cmdQ
  \/ cmdQ' = [cmdQ EXCEPT ![p] = <<>>]
  \/ cmdQ[p] # <<>> /\ cmdQ' = [cmdQ EXCEPT ![p] = Tail(@)]
  \/ \E m \in WorldCommand : cmdQ' = [cmdQ EXCEPT ![p] = Insert(@, m)]

LEMMA QueueStepSorts ==
  ASSUME IInv, \A p \in Nodes : Sorted(cmdQ[p]), NEW p \in Nodes, QueueStep(p)
  PROVE  \A n \in Nodes : Sorted(cmdQ'[n])
<1>1. cmdQ \in [Nodes -> Seq(WorldCommand)]
  BY DEF IInv, NodeInv
<1>2. CASE UNCHANGED cmdQ
  BY <1>2
<1>3. CASE cmdQ' = [cmdQ EXCEPT ![p] = <<>>]
  <2>1. Sorted(<<>>)
    BY DEF Sorted
  <2> QED BY <1>1, <1>3, <2>1
<1>4. CASE cmdQ[p] # <<>> /\ cmdQ' = [cmdQ EXCEPT ![p] = Tail(@)]
  <2>1. Sorted(Tail(cmdQ[p]))
    BY <1>1, <1>4, TailSorts
  <2> QED BY <1>1, <1>4, <2>1
<1>5. ASSUME NEW m \in WorldCommand, cmdQ' = [cmdQ EXCEPT ![p] = Insert(@, m)]
      PROVE  \A n \in Nodes : Sorted(cmdQ'[n])
  <2> DEFINE q == Insert(cmdQ[p], m)
  <2>1. Sorted(q)
    BY <1>1, InsertSorts
  <2>2. cmdQ' = [cmdQ EXCEPT ![p] = q]
    BY <1>5
  <2> HIDE DEF q
  <2> QED BY <1>1, <2>1, <2>2
<1> QED BY <1>2, <1>3, <1>4, <1>5 DEF QueueStep

LEMMA ServerQueueStep ==
  ASSUME IInv, ServerNext
  PROVE  QueueStep(Server)
<1>1. CASE SrvExecute
  <2> DEFINE from == Head(rcvd).from
             m == Head(rcvd).msg
  <2>1. m.type \in {"TOOL", "SYNC"} => m \in WorldCommand
    BY <1>1, HeadOfReceived DEF SrvExecute
  <2>2. CASE UNCHANGED nodeVars
    BY <2>2 DEF QueueStep, nodeVars
  <2>3. CASE m.type \in {"TOOL", "SYNC"} /\ ExecuteWorldCommand(m)
    <3>1. \/ UNCHANGED cmdQ
          \/ cmdQ' = [cmdQ EXCEPT ![Server] = <<>>]
          \/ cmdQ' = [cmdQ EXCEPT ![Server] = Insert(@, m)]
      BY <2>3 DEF ExecuteWorldCommand
    <3> HIDE DEF m
    <3> QED BY <2>1, <2>3, <3>1 DEF QueueStep
  <2> HIDE DEF from, m
  <2> QED BY <1>1, <2>2, <2>3 DEF SrvExecute, from, m, ExecuteJoin, ExecuteReady, ExecuteRequest
<1>2. CASE SrvDrain
  <2> DEFINE m == Head(cmdQ[Server])
  <2>1. CASE cmdQ' = [cmdQ EXCEPT ![Server] = Tail(@)]
    BY <1>2, <2>1 DEF SrvDrain, Due, QueueStep
  <2>2. CASE cmdQ' = [cmdQ EXCEPT ![Server] = <<>>]
    BY <2>2 DEF QueueStep
  <2>3. CASE SyncServer(m.id, m.new)
    BY <2>3 DEF SyncServer, LoadServer, QueueStep
  <2> HIDE DEF m
  <2> QED BY <1>2, <2>1, <2>2, <2>3 DEF SrvDrain, m
<1>3. CASE SrvForceSync
  BY <1>3 DEF SrvForceSync, SyncServer, LoadServer, QueueStep, nodeVars
<1>4. CASE SrvSend \/ SrvStep \/ SrvLoop \/ SrvTool
  BY <1>4 DEF SrvSend, SrvStep, SrvLoop, SrvTool, QueueStep, nodeVars
<1>5. ASSUME NEW c \in Clients, SrvAccept(c) \/ SrvReceive(c) PROVE QueueStep(Server)
  BY <1>5 DEF SrvAccept, SrvReceive, QueueStep, nodeVars
<1> QED BY <1>1, <1>2, <1>3, <1>4, <1>5 DEF ServerNext

LEMMA ClientQueueStep ==
  ASSUME IInv, NEW c \in Clients, ClientNext(c)
  PROVE  QueueStep(c)
<1>1. \A to : Disconnect(c, to) => QueueStep(c)
  BY DEF Disconnect, QueueStep
<1>2. CASE CliReceive(c)
  <2> DEFINE m == Head(down[c])
  <2>1. m.type \in {"CHECK", "TOOL", "SYNC"} => m \in WorldCommand
    BY <1>2, HeadOfDown, MessageCases, NodesFacts DEF CliReceive, IInv, NodeInv
  <2> HIDE DEF m
  <2>2. CASE JoinStep(c, m)
    <3>1. Disconnect(c, "out") \/ UNCHANGED cmdQ
      BY <2>2 DEF JoinStep
    <3> QED BY <1>1, <3>1 DEF QueueStep
  <2>3. CASE GameStep(c, m)
    <3>1. CASE m.type = "CHECK"
      <4>1. cmdQ' = [cmdQ EXCEPT ![c] = IF m.step < sync[c] THEN @ ELSE Insert(@, m)]
        BY <2>3, <3>1 DEF GameStep
      <4>2. cmdQ = [cmdQ EXCEPT ![c] = @]
        BY NodesFacts DEF IInv, NodeInv
      <4>3. cmdQ' = cmdQ \/ cmdQ' = [cmdQ EXCEPT ![c] = Insert(@, m)]
        BY <4>1, <4>2
      <4> QED BY <2>1, <3>1, <4>3 DEF QueueStep
    <3>2. CASE m.type \in {"TOOL", "SYNC"}
      <4>1. Disconnect(c, "desync") \/ cmdQ' = [cmdQ EXCEPT ![c] = Insert(@, m)]
        BY <2>3, <3>2 DEF GameStep
      <4> QED BY <1>1, <2>1, <3>2, <4>1 DEF QueueStep
    <3>3. CASE m.type \notin {"CHECK", "TOOL", "SYNC"}
      <4>1. (\E to \in {"out", "desync"} : Disconnect(c, to)) \/ UNCHANGED cmdQ
        BY <2>3, <3>3 DEF GameStep
      <4> QED BY <1>1, <4>1 DEF QueueStep
    <3> QED BY <3>1, <3>2, <3>3
  <2> QED BY <1>2, <2>2, <2>3 DEF CliReceive, m
<1>3. CASE CliDrain(c)
  <2> DEFINE m == Head(cmdQ[c])
  <2>1. cmdQ[c] # <<>>
    BY <1>3 DEF CliDrain, Due
  <2>2. (\E to : Disconnect(c, to)) \/ cmdQ' = [cmdQ EXCEPT ![c] = Tail(@)]
    BY <1>3 DEF CliDrain, SyncClient
  <2> QED BY <1>1, <2>1, <2>2 DEF QueueStep
<1>4. CASE CliLeave(c)
  BY <1>1, <1>4 DEF CliLeave
<1>5. CASE CliConnect(c) \/ CliStep(c) \/ CliTool(c)
  BY <1>5 DEF CliConnect, CliStep, CliTool, QueueStep, nodeVars
<1> QED BY <1>2, <1>3, <1>4, <1>5 DEF ClientNext

(* Every node has its commands in the order of their sync steps, in whatever order they come in   *)
(* (command_queue_append): the first is the next one to execute                                   *)
THEOREM QueuesAreSorted == Spec => []QueueIsSorted
<1> DEFINE Inv == \A p \in Nodes : Sorted(cmdQ[p])
<1>1. Init => Inv
  BY DEF Init, Sorted
<1>2. IInv /\ Inv /\ [Next]_vars => Inv'
  <2> SUFFICES ASSUME IInv, Inv, [Next]_vars PROVE Inv'
    OBVIOUS
  <2>1. \E p \in Nodes : QueueStep(p)
    <3>1. UNCHANGED vars => QueueStep(Server)
      BY DEF vars, nodeVars, QueueStep
    <3> QED BY <3>1, ServerQueueStep, ClientQueueStep, NodesFacts DEF Next
  <2> QED BY <2>1, QueueStepSorts
<1>3. Inv => QueueIsSorted
  BY DEF Sorted, QueueIsSorted
<1> QED BY <1>1, <1>2, <1>3, Invariance, PTL DEF Spec

-----------------------------------------------------------------------------
(* What the messages of a stream make of a world *)

(* The messages that change a world or its map counter are tools and syncs, and only those that were   *)
(* made for this map counter                                                                          *)
Acts(m) == m.type \in {"TOOL", "SYNC"}
Message == WorldCommand \cup {m \in DownMsg \cup UpMsg : ~Acts(m)}
Game == [world : World, mc : Nat]
PlayedOn(a, m) ==
  [world |-> IF m.type = "TOOL" /\ m.mc = a.mc
             THEN Append(a.world, [cmd |-> m.cmd, step |-> m.step]) ELSE a.world,
   mc |-> IF m.type = "SYNC" /\ m.mc = a.mc THEN m.new ELSE a.mc]

(* The messages s, one after the other, make b of the game a *)
Plays(s, a, b) ==
  \E r \in [0..Len(s) -> Game] :
    /\ r[0] = a /\ r[Len(s)] = b
    /\ \A i \in 1..Len(s) : r[i] = PlayedOn(r[i - 1], s[i])

(* Induction over the numbers, from the finiteness of what would be missed *)
LEMMA NatInductive ==
  ASSUME NEW P, 0 \in P, \A n \in Nat : n \in P => n + 1 \in P
  PROVE  \A n \in Nat : n \in P
<1> SUFFICES ASSUME NEW n \in Nat, n \notin P PROVE FALSE
  OBVIOUS
<1> DEFINE S == {m \in 0..n : m \notin P}
           f == [m \in S |-> m - 1]
<1>1. IsFiniteSet(S)
  <2>1. IsFiniteSet(0..n)
    BY FS_Interval
  <2> QED BY <2>1, FS_Subset
<1>2. f \in [S -> S]
  <2> SUFFICES ASSUME NEW m \in S PROVE m - 1 \in S
    OBVIOUS
  <2>1. m # 0 /\ m - 1 \in 0..n
    OBVIOUS
  <2>2. m - 1 \in P => (m - 1) + 1 \in P
    BY <2>1
  <2> QED BY <2>1, <2>2
<1>3. n \in S
  OBVIOUS
<1>4. f \in Injection(S, S)
  BY <1>2 DEF Injection, IsInjective
<1>5. f \in Surjection(S, S)
  BY <1>1, <1>4, FS_Injection
<1>6. PICK m \in S : f[m] = n
  BY <1>3, <1>5 DEF Surjection
<1> QED BY <1>6

LEMMA PlayedType ==
  ASSUME NEW a \in Game, NEW m \in Message
  PROVE  PlayedOn(a, m) \in Game
<1>1. m.type = "TOOL" => m \in WorldCommand /\ [cmd |-> m.cmd, step |-> m.step] \in Entry
  BY DEF Message, Acts, WorldCommand, Entry
<1>2. m.type = "SYNC" => m.new \in Nat
  BY DEF Message, Acts, WorldCommand
<1>3. a.world \in Seq(Entry) /\ a.mc \in Nat
  BY DEF Game, World
<1>4. m.type = "TOOL" => Append(a.world, [cmd |-> m.cmd, step |-> m.step]) \in Seq(Entry)
  BY <1>1, <1>3
<1> QED BY <1>1, <1>2, <1>3, <1>4 DEF PlayedOn, Game, World

LEMMA PlaysNothing ==
  ASSUME NEW a \in Game, NEW b, NEW s, Len(s) = 0
  PROVE  Plays(s, a, b) <=> a = b
<1>1. Plays(s, a, b) => a = b
  BY DEF Plays
<1>2. ASSUME a = b PROVE Plays(s, a, b)
  <2> DEFINE r == [i \in 0..0 |-> a]
  <2>1. r \in [0..Len(s) -> Game] /\ r[0] = a /\ r[Len(s)] = b
    BY <1>2
  <2>2. 1..Len(s) = {}
    OBVIOUS
  <2> HIDE DEF r
  <2> QED BY <2>1, <2>2 DEF Plays
<1> QED BY <1>1, <1>2

LEMMA PlaysFirst ==
  ASSUME NEW s \in Seq(Message), NEW m \in Message, NEW a \in Game, NEW b
  PROVE  Plays(<<m>> \o s, a, b) <=> Plays(s, PlayedOn(a, m), b)
<1> DEFINE t == <<m>> \o s
<1>1. /\ Len(t) = Len(s) + 1 /\ Len(s) \in Nat /\ t[1] = m
      /\ \A i \in 1..Len(s) : t[i + 1] = s[i]
  OBVIOUS
<1> HIDE DEF t
<1>2. ASSUME Plays(t, a, b) PROVE Plays(s, PlayedOn(a, m), b)
  <2> PICK r \in [0..Len(t) -> Game] : /\ r[0] = a /\ r[Len(t)] = b
                                        /\ \A i \in 1..Len(t) : r[i] = PlayedOn(r[i - 1], t[i])
    BY <1>2 DEF Plays
  <2> DEFINE q == [i \in 0..Len(s) |-> r[i + 1]]
  <2>1. q \in [0..Len(s) -> Game]
    BY <1>1
  <2>2. 1 \in 1..Len(t) /\ 1 - 1 = 0
    BY <1>1
  <2>3. q[0] = PlayedOn(a, m) /\ q[Len(s)] = b
    BY <1>1, <2>2
  <2>4. ASSUME NEW i \in 1..Len(s) PROVE q[i] = PlayedOn(q[i - 1], s[i])
    <3>1. i + 1 \in 1..Len(t) /\ (i + 1) - 1 = i /\ i \in 0..Len(s) /\ i - 1 \in 0..Len(s) /\ (i - 1) + 1 = i
      BY <1>1
    <3> QED BY <1>1, <3>1
  <2> HIDE DEF q
  <2> QED BY <2>1, <2>3, <2>4 DEF Plays
<1>3. ASSUME Plays(s, PlayedOn(a, m), b) PROVE Plays(t, a, b)
  <2> PICK q \in [0..Len(s) -> Game] : /\ q[0] = PlayedOn(a, m) /\ q[Len(s)] = b
                                        /\ \A i \in 1..Len(s) : q[i] = PlayedOn(q[i - 1], s[i])
    BY <1>3 DEF Plays
  <2> DEFINE r == [i \in 0..Len(t) |-> IF i = 0 THEN a ELSE q[i - 1]]
  <2>1. r \in [0..Len(t) -> Game]
    BY <1>1
  <2>2. r[0] = a /\ r[Len(t)] = b
    BY <1>1
  <2>3. ASSUME NEW i \in 1..Len(t) PROVE r[i] = PlayedOn(r[i - 1], t[i])
    <3>1. i \in 0..Len(t) /\ i - 1 \in 0..Len(t)
      BY <1>1
    <3>2. CASE i = 1
      BY <1>1, <3>1, <3>2
    <3>3. CASE i # 1
      <4>1. i - 1 \in 1..Len(s) /\ t[i] = s[i - 1] /\ r[i] = q[i - 1] /\ r[i - 1] = q[(i - 1) - 1]
        <5>1. i - 1 \in 1..Len(s) /\ (i - 1) + 1 = i
          BY <1>1, <3>3
        <5> QED BY <1>1, <3>1, <3>3, <5>1
      <4> QED BY <4>1
    <3> QED BY <3>2, <3>3
  <2> HIDE DEF r
  <2> QED BY <2>1, <2>2, <2>3 DEF Plays
<1> QED BY <1>2, <1>3 DEF t

(* Every sequence is empty or begins with a message *)
LEMMA Beginning ==
  ASSUME NEW s \in Seq(Message), s # <<>>
  PROVE  /\ Head(s) \in Message /\ Tail(s) \in Seq(Message)
         /\ s = <<Head(s)>> \o Tail(s) /\ Len(Tail(s)) + 1 = Len(s) /\ Len(Tail(s)) \in Nat
OBVIOUS

LEMMA Regroup ==
  ASSUME NEW s \in Seq(Message), NEW t \in Seq(Message), NEW u \in Seq(Message)
  PROVE  (s \o t) \o u = s \o (t \o u)
OBVIOUS

(* What a stream makes of a game: the one outcome that Plays has *)
Outcome(s, a) == CHOOSE b : Plays(s, a, b)

LEMMA PlaysOnce ==
  ASSUME NEW s \in Seq(Message), NEW a \in Game
  PROVE  /\ Outcome(s, a) \in Game
         /\ \A b : Plays(s, a, b) <=> b = Outcome(s, a)
<1> DEFINE One(s1, a1) == \E d \in Game : \A b : Plays(s1, a1, b) <=> b = d
           P == {n \in Nat : \A s1 \in Seq(Message), a1 \in Game : Len(s1) = n => One(s1, a1)}
<1>1. 0 \in P
  <2> SUFFICES ASSUME NEW s1 \in Seq(Message), NEW a1 \in Game, Len(s1) = 0 PROVE One(s1, a1)
    OBVIOUS
  <2> QED BY PlaysNothing
<1>2. ASSUME NEW n \in Nat, n \in P PROVE n + 1 \in P
  <2> SUFFICES ASSUME NEW s1 \in Seq(Message), NEW a1 \in Game, Len(s1) = n + 1 PROVE One(s1, a1)
    OBVIOUS
  <2>1. s1 # <<>>
    OBVIOUS
  <2>2. Len(Tail(s1)) = n /\ Tail(s1) \in Seq(Message) /\ Head(s1) \in Message
        /\ s1 = <<Head(s1)>> \o Tail(s1)
    BY <2>1, Beginning
  <2>3. PlayedOn(a1, Head(s1)) \in Game
    BY <2>2, PlayedType
  <2>4. One(Tail(s1), PlayedOn(a1, Head(s1)))
    BY <1>2, <2>2, <2>3
  <2>5. \A b : Plays(s1, a1, b) <=> Plays(Tail(s1), PlayedOn(a1, Head(s1)), b)
    <3> TAKE b
    <3>1. Plays(<<Head(s1)>> \o Tail(s1), a1, b) <=> Plays(Tail(s1), PlayedOn(a1, Head(s1)), b)
      BY <2>2, PlaysFirst
    <3> QED BY <2>2, <3>1
  <2> QED BY <2>4, <2>5
<1>3. \A n \in Nat : n \in P
  <2> HIDE DEF P
  <2> QED BY <1>1, <1>2, NatInductive
<1>4. One(s, a)
  <2>1. Len(s) \in P
    BY <1>3
  <2> QED BY <2>1
<1> QED BY <1>4 DEF Outcome

LEMMA OutcomeNothing ==
  ASSUME NEW a \in Game
  PROVE  Outcome(<<>>, a) = a
<1>1. Plays(<<>>, a, a)
  BY PlaysNothing
<1>2. <<>> \in Seq(Message)
  OBVIOUS
<1> QED BY <1>1, <1>2, PlaysOnce

LEMMA OutcomeFirst ==
  ASSUME NEW s \in Seq(Message), NEW m \in Message, NEW a \in Game
  PROVE  Outcome(<<m>> \o s, a) = Outcome(s, PlayedOn(a, m))
<1>1. PlayedOn(a, m) \in Game /\ <<m>> \o s \in Seq(Message)
  BY PlayedType
<1>2. Plays(s, PlayedOn(a, m), Outcome(s, PlayedOn(a, m)))
  BY <1>1, PlaysOnce
<1>3. Plays(<<m>> \o s, a, Outcome(s, PlayedOn(a, m)))
  BY <1>2, PlaysFirst
<1> QED BY <1>1, <1>3, PlaysOnce

(* One stream after the other *)
LEMMA OutcomeConcat ==
  ASSUME NEW s \in Seq(Message), NEW t \in Seq(Message), NEW a \in Game
  PROVE  Outcome(s \o t, a) = Outcome(t, Outcome(s, a))
<1> DEFINE Goes(s1, a1) == Outcome(s1 \o t, a1) = Outcome(t, Outcome(s1, a1))
           P == {n \in Nat : \A s1 \in Seq(Message), a1 \in Game : Len(s1) = n => Goes(s1, a1)}
<1>1. 0 \in P
  <2> SUFFICES ASSUME NEW s1 \in Seq(Message), NEW a1 \in Game, Len(s1) = 0 PROVE Goes(s1, a1)
    OBVIOUS
  <2>1. s1 = <<>> /\ s1 \o t = t
    OBVIOUS
  <2> QED BY <2>1, OutcomeNothing
<1>2. ASSUME NEW n \in Nat, n \in P PROVE n + 1 \in P
  <2> SUFFICES ASSUME NEW s1 \in Seq(Message), NEW a1 \in Game, Len(s1) = n + 1 PROVE Goes(s1, a1)
    OBVIOUS
  <2>1. s1 # <<>>
    OBVIOUS
  <2> DEFINE m == Head(s1)
             u == Tail(s1)
  <2>2. Len(u) = n /\ u \in Seq(Message) /\ m \in Message /\ s1 = <<m>> \o u
    BY <2>1, Beginning
  <2> HIDE DEF m, u
  <2>3. PlayedOn(a1, m) \in Game
    BY <2>2, PlayedType
  <2>4. Goes(u, PlayedOn(a1, m))
    BY <1>2, <2>2, <2>3
  <2>5. s1 \o t = <<m>> \o (u \o t) /\ u \o t \in Seq(Message)
    BY <2>2
  <2>6. Outcome(s1 \o t, a1) = Outcome(u \o t, PlayedOn(a1, m))
    BY <2>2, <2>5, OutcomeFirst, ZenonT(60)
  <2>7. Outcome(s1, a1) = Outcome(u, PlayedOn(a1, m))
    BY <2>2, OutcomeFirst
  <2> QED BY <2>4, <2>6, <2>7
<1>3. \A n \in Nat : n \in P
  <2> HIDE DEF P
  <2> QED BY <1>1, <1>2, NatInductive
<1>4. Len(s) \in P
  BY <1>3
<1> QED BY <1>4

LEMMA OutcomeLast ==
  ASSUME NEW s \in Seq(Message), NEW m \in Message, NEW a \in Game
  PROVE  Outcome(Append(s, m), a) = PlayedOn(Outcome(s, a), m)
<1>1. Append(s, m) = s \o <<m>> /\ <<m>> \in Seq(Message) /\ <<m>> \o <<>> = <<m>>
      /\ <<>> \in Seq(Message)
  OBVIOUS
<1>2. Outcome(s, a) \in Game
  BY PlaysOnce
<1>3. PlayedOn(Outcome(s, a), m) \in Game
  BY <1>2, PlayedType
<1>4. Outcome(<<m>> \o <<>>, Outcome(s, a)) = Outcome(<<>>, PlayedOn(Outcome(s, a), m))
  BY <1>1, <1>2, OutcomeFirst
<1>5. Outcome(<<>>, PlayedOn(Outcome(s, a), m)) = PlayedOn(Outcome(s, a), m)
  BY <1>3, OutcomeNothing
<1> DEFINE t == <<m>>
<1>6. t \in Seq(Message) /\ t \o <<>> = t
  BY <1>1
<1>7. Outcome(t, Outcome(s, a)) = PlayedOn(Outcome(s, a), m)
  BY <1>4, <1>5, <1>6
<1>8. Append(s, m) = s \o t
  BY <1>1
<1> HIDE DEF t
<1> QED BY <1>6, <1>7, <1>8, OutcomeConcat

(* Messages that change nothing, one after the other *)
LEMMA OutcomeSame ==
  ASSUME NEW s \in Seq(Message), NEW a \in Game, \A i \in DOMAIN s : PlayedOn(a, s[i]) = a
  PROVE  Outcome(s, a) = a
<1> DEFINE r == [i \in 0..Len(s) |-> a]
<1>1. r \in [0..Len(s) -> Game] /\ r[0] = a /\ r[Len(s)] = a
  OBVIOUS
<1>2. \A i \in 1..Len(s) : r[i] = PlayedOn(r[i - 1], s[i])
  OBVIOUS
<1> HIDE DEF r
<1>3. Plays(s, a, a)
  BY <1>1, <1>2 DEF Plays
<1> QED BY <1>3, PlaysOnce

(* A world only grows, by tools of the stream *)
LEMMA OutcomeGrows ==
  ASSUME NEW s \in Seq(Message), NEW a \in Game
  PROVE  LET w == Outcome(s, a).world IN
         /\ Len(a.world) <= Len(w) /\ SubSeq(w, 1, Len(a.world)) = a.world
         /\ \A i \in DOMAIN w : i > Len(a.world) =>
              \E j \in DOMAIN s : s[j].type = "TOOL" /\ w[i].step = s[j].step
<1> DEFINE Grown(s1, a1) ==
             LET w == Outcome(s1, a1).world IN
             /\ Len(a1.world) <= Len(w) /\ SubSeq(w, 1, Len(a1.world)) = a1.world
             /\ \A i \in DOMAIN w : i > Len(a1.world) =>
                  \E j \in DOMAIN s1 : s1[j].type = "TOOL" /\ w[i].step = s1[j].step
           P == {n \in Nat : \A s1 \in Seq(Message), a1 \in Game : Len(s1) = n => Grown(s1, a1)}
<1>1. 0 \in P
  <2> SUFFICES ASSUME NEW s1 \in Seq(Message), NEW a1 \in Game, Len(s1) = 0 PROVE Grown(s1, a1)
    OBVIOUS
  <2>1. s1 = <<>>
    OBVIOUS
  <2>2. Outcome(s1, a1).world = a1.world /\ a1.world \in Seq(Entry)
    BY <2>1, OutcomeNothing DEF Game, World
  <2> QED BY <2>2
<1>2. ASSUME NEW n \in Nat, n \in P PROVE n + 1 \in P
  <2> SUFFICES ASSUME NEW s1 \in Seq(Message), NEW a1 \in Game, Len(s1) = n + 1 PROVE Grown(s1, a1)
    OBVIOUS
  <2>1. s1 # <<>>
    OBVIOUS
  <2> DEFINE m == Head(s1)
             u == Tail(s1)
             a2 == PlayedOn(a1, m)
             w == Outcome(s1, a1).world
  <2>2. Len(u) = n /\ u \in Seq(Message) /\ m \in Message /\ s1 = <<m>> \o u
    BY <2>1, Beginning
  <2>3. s1[1] = m /\ 1 \in DOMAIN s1 /\ \A j \in DOMAIN u : j + 1 \in DOMAIN s1 /\ s1[j + 1] = u[j]
    BY <2>1
  <2> HIDE DEF m, u
  <2>4. a2 \in Game
    BY <2>2, PlayedType
  <2>5. Outcome(s1, a1) = Outcome(u, a2)
    BY <2>2, OutcomeFirst
  <2>6. Grown(u, a2)
    BY <1>2, <2>2, <2>4
  <2>7. \/ a2.world = a1.world
        \/ m.type = "TOOL" /\ a2.world = Append(a1.world, [cmd |-> m.cmd, step |-> m.step])
    BY DEF PlayedOn
  <2>8. a1.world \in Seq(Entry) /\ a2.world \in Seq(Entry) /\ w \in Seq(Entry)
    <3>1. Outcome(s1, a1) \in Game
      BY PlaysOnce
    <3> QED BY <2>4, <3>1 DEF Game, World
  <2>9. /\ Len(a2.world) <= Len(w) /\ SubSeq(w, 1, Len(a2.world)) = a2.world
        /\ \A i \in DOMAIN w : i > Len(a2.world) =>
              \E j \in DOMAIN u : u[j].type = "TOOL" /\ w[i].step = u[j].step
    BY <2>5, <2>6
  <2> HIDE DEF a2, w
  <2>10. CASE a2.world = a1.world
    <3>1. \A i \in DOMAIN w : i > Len(a1.world) =>
              \E j \in DOMAIN s1 : s1[j].type = "TOOL" /\ w[i].step = s1[j].step
      BY <2>3, <2>9, <2>10
    <3> QED BY <2>9, <2>10, <3>1 DEF w
  <2>11. CASE m.type = "TOOL" /\ a2.world = Append(a1.world, [cmd |-> m.cmd, step |-> m.step])
    <3> DEFINE e == [cmd |-> m.cmd, step |-> m.step]
    <3>1. e.step = m.step
      OBVIOUS
    <3> HIDE DEF e
    <3>2. Len(a2.world) = Len(a1.world) + 1 /\ a2.world[Len(a1.world) + 1] = e
          /\ SubSeq(a2.world, 1, Len(a1.world)) = a1.world
      BY <2>8, <2>11 DEF e
    <3>3. Len(a1.world) <= Len(w) /\ SubSeq(w, 1, Len(a1.world)) = a1.world
          /\ w[Len(a1.world) + 1] = e
      <4>1. \A i \in 1..Len(a2.world) : w[i] = a2.world[i]
        BY <2>8, <2>9
      <4> QED BY <2>8, <2>9, <3>2, <4>1
    <3>4. ASSUME NEW i \in DOMAIN w, i > Len(a1.world)
          PROVE  \E j \in DOMAIN s1 : s1[j].type = "TOOL" /\ w[i].step = s1[j].step
      <4>1. CASE i = Len(a1.world) + 1
        BY <2>3, <2>11, <3>1, <3>3, <4>1
      <4>2. CASE i # Len(a1.world) + 1
        <5>1. i > Len(a2.world)
          BY <2>8, <3>2, <3>4, <4>2
        <5>2. PICK j \in DOMAIN u : u[j].type = "TOOL" /\ w[i].step = u[j].step
          BY <2>9, <5>1
        <5> QED BY <2>3, <5>2
      <4> QED BY <4>1, <4>2
    <3> QED BY <3>3, <3>4 DEF w
  <2> QED BY <2>7, <2>10, <2>11
<1>3. \A n \in Nat : n \in P
  <2> HIDE DEF P
  <2> QED BY <1>1, <1>2, NatInductive
<1>4. Len(s) \in P
  BY <1>3
<1> QED BY <1>4

-----------------------------------------------------------------------------
(* Streams that are in the order of their steps and make of a game what is expected *)

IsWorldCommand(m) == m.type \in {"CHECK", "TOOL", "SYNC"}

(* World commands come in the order of their steps, and for no step beyond the next one of n *)
Stamped(s, n) ==
  /\ \A i \in DOMAIN s : IsWorldCommand(s[i]) => s[i].step \in Nat /\ 0 < s[i].step /\ s[i].step <= n + 1
  /\ \A i, j \in DOMAIN s :
       i < j /\ IsWorldCommand(s[i]) /\ IsWorldCommand(s[j]) => s[i].step <= s[j].step

Follows(s, a, n, b) == Stamped(s, n) /\ Outcome(s, a) = b

(* Messages that are no world commands *)
Silent(s) == \A i \in DOMAIN s : ~IsWorldCommand(s[i])

LEMMA MessageStep ==
  ASSUME NEW m \in Message, IsWorldCommand(m)
  PROVE  m.step \in Nat
<1>1. CASE m \in WorldCommand
  BY <1>1 DEF WorldCommand
<1>2. CASE m \notin WorldCommand
  <2>1. m \in DownMsg \/ m \in UpMsg
    BY <1>2 DEF Message
  <2>2. m.type = "CHECK"
    BY <1>2 DEF Message, Acts, IsWorldCommand
  <2>3. m \in WorldCommand
    BY <2>1, <2>2 DEF DownMsg, UpMsg, Broadcast, WorldCommand, Ready, Request, JoinMsg, EofMsg
  <2> QED BY <1>2, <2>3
<1> QED BY <1>1, <1>2

LEMMA InertChangesNothing ==
  ASSUME NEW a \in Game, NEW m, ~Acts(m)
  PROVE  PlayedOn(a, m) = a
BY DEF PlayedOn, Game, Acts

(* A message of another map counter, too *)
LEMMA ForeignChangesNothing ==
  ASSUME NEW a \in Game, NEW m, m.mc # a.mc
  PROVE  PlayedOn(a, m) = a
BY DEF PlayedOn, Game

LEMMA IdleChangesNothing ==
  ASSUME NEW s \in Seq(Message), NEW a \in Game, Silent(s)
  PROVE  Outcome(s, a) = a
<1>1. \A i \in DOMAIN s : PlayedOn(a, s[i]) = a
  BY InertChangesNothing DEF Silent, IsWorldCommand, Acts
<1> QED BY <1>1, OutcomeSame

LEMMA StampedSplit ==
  ASSUME NEW s \in Seq(Message), NEW t \in Seq(Message), NEW n \in Nat
  PROVE  Stamped(s \o t, n) <=>
           /\ Stamped(s, n) /\ Stamped(t, n)
           /\ \A i \in DOMAIN s, j \in DOMAIN t :
                IsWorldCommand(s[i]) /\ IsWorldCommand(t[j]) => s[i].step <= t[j].step
<1> DEFINE u == s \o t
<1>1. /\ Len(s) \in Nat /\ Len(t) \in Nat /\ DOMAIN s = 1..Len(s) /\ DOMAIN t = 1..Len(t)
      /\ DOMAIN u = 1..(Len(s) + Len(t))
      /\ \A i \in 1..Len(s) : u[i] = s[i]
      /\ \A j \in 1..Len(t) : u[Len(s) + j] = t[j]
  OBVIOUS
<1>2. \A k \in 1..(Len(s) + Len(t)) : k \in 1..Len(s) \/ \E j \in 1..Len(t) : k = Len(s) + j
  <2> TAKE k \in 1..(Len(s) + Len(t))
  <2>1. CASE k <= Len(s)
    BY <1>1, <2>1
  <2>2. CASE k > Len(s)
    <3>1. k - Len(s) \in 1..Len(t) /\ k = Len(s) + (k - Len(s))
      BY <1>1, <2>2
    <3> QED BY <3>1
  <2> QED BY <1>1, <2>1, <2>2
<1> HIDE DEF u
<1>3. ASSUME Stamped(u, n)
      PROVE  /\ Stamped(s, n) /\ Stamped(t, n)
             /\ \A i \in DOMAIN s, j \in DOMAIN t :
                IsWorldCommand(s[i]) /\ IsWorldCommand(t[j]) => s[i].step <= t[j].step
  <2>1. \A i \in 1..Len(s) : i \in DOMAIN u
    BY <1>1
  <2>2. \A j \in 1..Len(t) : Len(s) + j \in DOMAIN u
    BY <1>1
  <2>3. \A i \in 1..Len(s), j \in 1..Len(t) : i < Len(s) + j
    BY <1>1
  <2>4. \A i, j \in 1..Len(t) : i < j => Len(s) + i < Len(s) + j
    BY <1>1
  <2>5. Stamped(s, n)
    BY <1>1, <1>3, <2>1 DEF Stamped
  <2>6. Stamped(t, n)
    BY <1>1, <1>3, <2>2, <2>4 DEF Stamped
  <2> QED BY <1>1, <1>3, <2>1, <2>2, <2>3, <2>5, <2>6 DEF Stamped
<1>4. ASSUME Stamped(s, n), Stamped(t, n),
             \A i \in DOMAIN s, j \in DOMAIN t :
                IsWorldCommand(s[i]) /\ IsWorldCommand(t[j]) => s[i].step <= t[j].step
      PROVE  Stamped(u, n)
  <2>1. ASSUME NEW k \in DOMAIN u, IsWorldCommand(u[k])
        PROVE  u[k].step \in Nat /\ 0 < u[k].step /\ u[k].step <= n + 1
    <3>1. CASE k \in 1..Len(s)
      BY <1>1, <1>4, <2>1, <3>1 DEF Stamped
    <3>2. ASSUME NEW j \in 1..Len(t), k = Len(s) + j
          PROVE  u[k].step \in Nat /\ 0 < u[k].step /\ u[k].step <= n + 1
      BY <1>1, <1>4, <2>1, <3>2 DEF Stamped
    <3> QED BY <1>1, <1>2, <3>1, <3>2
  <2>2. ASSUME NEW k \in DOMAIN u, NEW l \in DOMAIN u, k < l, IsWorldCommand(u[k]), IsWorldCommand(u[l])
        PROVE  u[k].step <= u[l].step
    <3>1. CASE k \in 1..Len(s) /\ l \in 1..Len(s)
      BY <1>1, <1>4, <2>2, <3>1 DEF Stamped
    <3>2. CASE k \notin 1..Len(s)
      <4>1. PICK i \in 1..Len(t) : k = Len(s) + i
        BY <1>1, <1>2, <3>2
      <4>2. l \notin 1..Len(s)
        BY <1>1, <2>2, <4>1
      <4>3. PICK j \in 1..Len(t) : l = Len(s) + j
        BY <1>1, <1>2, <4>2
      <4>4. i < j
        BY <1>1, <2>2, <4>1, <4>3
      <4> QED BY <1>1, <1>4, <2>2, <4>1, <4>3, <4>4 DEF Stamped
    <3>3. CASE k \in 1..Len(s) /\ l \notin 1..Len(s)
      <4>1. PICK j \in 1..Len(t) : l = Len(s) + j
        BY <1>1, <1>2, <3>3
      <4> QED BY <1>1, <1>4, <2>2, <3>3, <4>1
    <3> QED BY <3>1, <3>2, <3>3
  <2> QED BY <2>1, <2>2 DEF Stamped
<1> QED BY <1>3, <1>4 DEF u

LEMMA IdleStamped ==
  ASSUME NEW s \in Seq(Message), Silent(s), NEW n \in Nat
  PROVE  Stamped(s, n)
BY DEF Stamped, Silent

(* What is stamped stays so when the server steps *)
LEMMA StampedLater ==
  ASSUME NEW s, NEW n \in Nat, NEW k \in Nat, n <= k, Stamped(s, n)
  PROVE  Stamped(s, k)
<1>1. \A i \in DOMAIN s : IsWorldCommand(s[i]) => s[i].step <= k + 1
  BY DEF Stamped
<1> QED BY <1>1 DEF Stamped

(* A stream goes on: messages that do nothing come between, and one for the next step at the end *)
LEMMA FollowsOn ==
  ASSUME NEW x \in Seq(Message), NEW u \in Seq(Message), NEW y \in Seq(Message),
         NEW v \in Seq(Message), NEW a \in Game, NEW n \in Nat, NEW k \in Nat, n <= k, NEW b,
         Follows(x \o y, a, n, b), Silent(u),
         \A i \in DOMAIN v : i = 1 /\ (IsWorldCommand(v[i]) => v[i].step = k + 1)
  PROVE  Follows((x \o u) \o (y \o v), a, k, Outcome(v, b))
<1>1. Stamped(x \o y, k)
  BY StampedLater DEF Follows
<1>2. Stamped(x, k) /\ Stamped(y, k)
      /\ \A i \in DOMAIN x, j \in DOMAIN y :
            IsWorldCommand(x[i]) /\ IsWorldCommand(y[j]) => x[i].step <= y[j].step
  BY <1>1, StampedSplit
<1>3. Stamped(v, k)
  <2>1. \A i \in DOMAIN v : IsWorldCommand(v[i]) => v[i].step \in Nat /\ v[i].step = k + 1
    BY MessageStep, ElementOfSeq
  <2>2. \A i, j \in DOMAIN v : ~(i < j)
    OBVIOUS
  <2> QED BY <2>1, <2>2 DEF Stamped
<1>4. Stamped(y \o v, k)
  <2>1. \A i \in DOMAIN y, j \in DOMAIN v :
            IsWorldCommand(y[i]) /\ IsWorldCommand(v[j]) => y[i].step <= v[j].step
    BY <1>2 DEF Stamped
  <2> QED BY <1>2, <1>3, <2>1, StampedSplit
<1>5. Stamped(x \o u, k)
  <2>1. Stamped(u, k)
    BY IdleStamped
  <2> QED BY <1>2, <2>1, StampedSplit DEF Silent
<1>6. Stamped((x \o u) \o (y \o v), k)
  <2>1. x \o u \in Seq(Message) /\ y \o v \in Seq(Message)
    OBVIOUS
  <2>2. ASSUME NEW i \in DOMAIN (x \o u), NEW j \in DOMAIN (y \o v),
               IsWorldCommand((x \o u)[i]), IsWorldCommand((y \o v)[j])
        PROVE  (x \o u)[i].step <= (y \o v)[j].step
    <3>1. \/ i \in DOMAIN x /\ (x \o u)[i] = x[i]
          \/ \E l \in DOMAIN u : (x \o u)[i] = u[l]
      <4>1. CASE i <= Len(x)
        BY <4>1
      <4>2. CASE i > Len(x)
        <5>1. i - Len(x) \in DOMAIN u /\ (x \o u)[i] = u[i - Len(x)]
          BY <4>2
        <5> QED BY <5>1
      <4> QED BY <4>1, <4>2
    <3>2. \/ j \in DOMAIN y /\ (y \o v)[j] = y[j]
          \/ \E l \in DOMAIN v : (y \o v)[j] = v[l]
      <4>1. CASE j <= Len(y)
        BY <4>1
      <4>2. CASE j > Len(y)
        <5>1. j - Len(y) \in DOMAIN v /\ (y \o v)[j] = v[j - Len(y)]
          BY <4>2
        <5> QED BY <5>1
      <4> QED BY <4>1, <4>2
    <3>3. i \in DOMAIN x /\ (x \o u)[i] = x[i]
      BY <2>2, <3>1 DEF Silent
    <3> HIDE DEF Follows
    <3>4. CASE j \in DOMAIN y /\ (y \o v)[j] = y[j]
      BY <1>2, <2>2, <3>3, <3>4
    <3>5. ASSUME NEW l \in DOMAIN v, (y \o v)[j] = v[l] PROVE (x \o u)[i].step <= (y \o v)[j].step
      <4>1. x[i].step <= k + 1
        BY <1>2, <2>2, <3>3 DEF Stamped
      <4> QED BY <2>2, <3>3, <3>5, <4>1
    <3> QED BY <3>2, <3>4, <3>5
  <2> QED BY <1>4, <1>5, <2>1, <2>2, StampedSplit
<1>7. Outcome((x \o u) \o (y \o v), a) = Outcome(v, b)
  <2>1. Outcome(x, a) \in Game
    BY PlaysOnce
  <2>2. Outcome(x \o u, a) = Outcome(x, a)
    BY <2>1, OutcomeConcat, IdleChangesNothing
  <2>3. x \o u \in Seq(Message) /\ y \o v \in Seq(Message)
    OBVIOUS
  <2> DEFINE p == x \o u
             q == y \o v
  <2> HIDE DEF p, q
  <2>7. Outcome(p \o q, a) = Outcome(q, Outcome(p, a))
    BY <2>3, OutcomeConcat DEF p, q
  <2>4. Outcome((x \o u) \o (y \o v), a) = Outcome(y \o v, Outcome(x, a))
    BY <2>2, <2>7 DEF p, q
  <2>5. Outcome(y \o v, Outcome(x, a)) = Outcome(v, Outcome(y, Outcome(x, a)))
    BY <2>1, OutcomeConcat
  <2>6. Outcome(x \o y, a) = Outcome(y, Outcome(x, a))
    BY OutcomeConcat
  <2> QED BY <2>4, <2>5, <2>6 DEF Follows
<1> QED BY <1>6, <1>7 DEF Follows

(* A command that is not before the others of a queue goes to its end *)
LEMMA InsertLast ==
  ASSUME NEW q \in Seq(WorldCommand), NEW m \in WorldCommand,
         \A i \in DOMAIN q : q[i].step <= m.step
  PROVE  Insert(q, m) = Append(q, m)
<1>1. Len(q) \in Nat /\ DOMAIN q = 1..Len(q)
  OBVIOUS
<1>2. {i \in DOMAIN q : \A j \in 1..i : q[j].step <= m.step} = 1..Len(q)
  <2>1. \A i \in DOMAIN q : \A j \in 1..i : j \in DOMAIN q
    BY <1>1
  <2> QED BY <1>1, <2>1
<1>3. Cardinality(1..Len(q)) = Len(q)
  BY <1>1, FS_Interval
<1>4. Insert(q, m) = SubSeq(q, 1, Len(q)) \o <<m>> \o SubSeq(q, Len(q) + 1, Len(q))
  BY <1>2, <1>3 DEF Insert
<1>5. SubSeq(q, 1, Len(q)) = q /\ SubSeq(q, Len(q) + 1, Len(q)) = <<>>
  BY <1>1
<1>6. q \o <<m>> \o <<>> = Append(q, m)
  OBVIOUS
<1> QED BY <1>4, <1>5, <1>6

-----------------------------------------------------------------------------
(* A client that joins: what its socket, its phase and the messages under way say about each other *)

From(c) == {i \in DOMAIN rcvd : rcvd[i].from = c}

(* The request to join is still on its way *)
Asking(c) ==
  \/ \E i \in DOMAIN up[c] : up[c][i].type = "JOIN"
  \/ \E i \in From(c) : rcvd[i].msg.type = "JOIN"

SockFine(c) ==
  /\ Gone(c) => down[c] = <<>>
  /\ phase[c] \notin {"pause", "run"} => cmdQ[c] = <<>>
  /\ sock[c] \in {"backlog", "connected"} =>
       /\ phase[c] \notin {"pause", "run"}
       /\ \A i \in DOMAIN down[c] : down[c][i].type # "GAME"
  /\ Open(c) => slot[c] > 0
  /\ sock[c] \in {"none", "kicked"} => up[c] = <<>> /\ From(c) = {}
  /\ \A i \in DOMAIN up[c] : up[c][i].type = "JOIN" =>
       i = 1 /\ \A j \in From(c) : rcvd[j].msg.type # "JOIN"
  /\ \A i, j \in From(c) : i = j
  /\ Asking(c) => /\ phase[c] \in {"join", "out", "desync"}
                  /\ \A i \in DOMAIN down[c] : down[c][i] # JoinReply(TRUE)

(* Nothing is received from a client: entries only leave at the head, or the server adds its own *)
NothingReceived ==
  \E k \in {0, 1} : \A i \in DOMAIN rcvd' :
    rcvd'[i].from \in Clients => i + k \in DOMAIN rcvd /\ rcvd'[i] = rcvd[i + k]

LEMMA ReceivedForms ==
  ASSUME IInv
  PROVE  /\ UNCHANGED rcvd => NothingReceived
         /\ \A m : rcvd' = Append(rcvd, FromServer(m)) => NothingReceived
         /\ rcvd # <<>> /\ rcvd' = Tail(rcvd) => NothingReceived
         /\ \A m : rcvd # <<>> /\ rcvd' = Append(Tail(rcvd), FromServer(m)) => NothingReceived
<1> DEFINE R == ReceivedTo(sync[Server])
<1>1. rcvd \in Seq(R)
  BY DEF IInv, ServerInv
<1>2. Len(rcvd) \in Nat /\ DOMAIN rcvd = 1..Len(rcvd)
  BY <1>1
<1>3. Server \notin Clients
  BY NodesFacts
<1> HIDE DEF R
<1>4. UNCHANGED rcvd => NothingReceived
  <2> SUFFICES ASSUME UNCHANGED rcvd
               PROVE  \A i \in DOMAIN rcvd' : rcvd'[i].from \in Clients => i + 0 \in DOMAIN rcvd /\ rcvd'[i] = rcvd[i + 0]
    BY DEF NothingReceived
  <2> QED BY <1>2
<1>5. ASSUME NEW m, rcvd' = Append(rcvd, FromServer(m)) PROVE NothingReceived
  <2> SUFFICES ASSUME NEW i \in DOMAIN rcvd', rcvd'[i].from \in Clients
               PROVE  i + 0 \in DOMAIN rcvd /\ rcvd'[i] = rcvd[i + 0]
    BY DEF NothingReceived
  <2>1. i \in 1..(Len(rcvd) + 1)
    BY <1>1, <1>5
  <2>2. i # Len(rcvd) + 1
    BY <1>1, <1>3, <1>5 DEF FromServer
  <2> QED BY <1>1, <1>2, <1>5, <2>1, <2>2
<1>6. ASSUME rcvd # <<>>, rcvd' = Tail(rcvd) PROVE NothingReceived
  <2> SUFFICES ASSUME NEW i \in DOMAIN rcvd', rcvd'[i].from \in Clients
               PROVE  i + 1 \in DOMAIN rcvd /\ rcvd'[i] = rcvd[i + 1]
    BY DEF NothingReceived
  <2> QED BY <1>1, <1>2, <1>6
<1>7. ASSUME NEW m, rcvd # <<>>, rcvd' = Append(Tail(rcvd), FromServer(m)) PROVE NothingReceived
  <2> SUFFICES ASSUME NEW i \in DOMAIN rcvd', rcvd'[i].from \in Clients
               PROVE  i + 1 \in DOMAIN rcvd /\ rcvd'[i] = rcvd[i + 1]
    BY DEF NothingReceived
  <2> DEFINE t == Tail(rcvd)
  <2>1. t \in Seq(R) /\ Len(t) = Len(rcvd) - 1 /\ \A j \in 1..Len(t) : t[j] = rcvd[j + 1]
    BY <1>1, <1>7
  <2> HIDE DEF t
  <2>2. rcvd' = Append(t, FromServer(m))
    BY <1>7 DEF t
  <2>3. i \in 1..(Len(t) + 1) /\ (i # Len(t) + 1 => rcvd'[i] = t[i])
    BY <2>1, <2>2
  <2>4. i # Len(t) + 1
    BY <1>3, <2>1, <2>2 DEF FromServer
  <2> QED BY <1>2, <2>1, <2>3, <2>4
<1> QED BY <1>4, <1>5, <1>6, <1>7

(* Bytes on the way to a client *)
LEMMA DownTypes ==
  ASSUME IInv, NEW d \in Clients
  PROVE  /\ down[d] \in Seq(DownMsg) /\ up[d] \in Seq(UpMsg) /\ rcvd \in Seq(Received)
         /\ sendq[d] \in Seq(Broadcast) /\ sendq[d] \in Seq(DownMsg)
<1>1. /\ DownMsgTo(sync[Server]) \subseteq DownMsg /\ UpMsgTo(sync[Server]) \subseteq UpMsg
      /\ ReceivedTo(sync[Server]) \subseteq Received /\ BroadcastTo(sync[Server]) \subseteq Broadcast
      /\ Broadcast \subseteq DownMsg
  BY DEF DownMsgTo, UpMsgTo, ReceivedTo, BroadcastTo, DownMsg
<1> QED BY <1>1, SeqMonotonic DEF IInv, SockInv, ServerInv

LEMMA ConcatElements ==
  ASSUME NEW S, NEW s \in Seq(S), NEW u \in Seq(S), NEW i \in DOMAIN (s \o u)
  PROVE  \/ i \in DOMAIN s /\ (s \o u)[i] = s[i]
         \/ \E j \in DOMAIN u : i = Len(s) + j /\ (s \o u)[i] = u[j]
<1>1. CASE i <= Len(s)
  BY <1>1
<1>2. CASE i > Len(s)
  <2>1. i - Len(s) \in DOMAIN u /\ i = Len(s) + (i - Len(s)) /\ (s \o u)[i] = u[i - Len(s)]
    BY <1>2
  <2> QED BY <2>1
<1> QED BY <1>1, <1>2

(* A client that still has its connection is told something *)
LEMMA SockTold ==
  ASSUME IInv, IInv', NEW d \in Clients, SockFine(d), NothingReceived,
         phase'[d] = phase[d], cmdQ'[d] = cmdQ[d], slot'[d] = slot[d], up'[d] = up[d],
         sock'[d] = sock[d] \/ (Open(d) /\ sock'[d] = "playing"),
         NEW u \in Seq(DownMsg), down'[d] = down[d] \o u, Gone(d) => u = <<>>,
         \A i \in DOMAIN u : u[i].type = "GAME" => sock'[d] = "playing",
         \A i \in DOMAIN u : u[i] = JoinReply(TRUE) => ~Asking(d)'
  PROVE  SockFine(d)'
<1>1. PICK k \in {0, 1} : \A i \in DOMAIN rcvd' :
        rcvd'[i].from \in Clients => i + k \in DOMAIN rcvd /\ rcvd'[i] = rcvd[i + k]
  BY DEF NothingReceived
<1>2. \A i \in From(d)' : i + k \in From(d) /\ rcvd'[i] = rcvd[i + k] /\ i \in Nat
  <2> SUFFICES ASSUME NEW i \in From(d)' PROVE i + k \in From(d) /\ rcvd'[i] = rcvd[i + k] /\ i \in Nat
    OBVIOUS
  <2>1. rcvd' \in Seq(ReceivedTo(sync'[Server]))
    BY DEF IInv, ServerInv
  <2>2. i \in DOMAIN rcvd' /\ rcvd'[i].from = d /\ i \in Nat
    BY <2>1 DEF From
  <2> QED BY <1>1, <2>2 DEF From
<1>3. Asking(d)' => Asking(d)
  BY <1>2 DEF Asking
<1>4. \A i \in DOMAIN down'[d] : (i \in DOMAIN down[d] /\ down'[d][i] = down[d][i])
                                  \/ \E j \in DOMAIN u : down'[d][i] = u[j]
  BY DownTypes, ConcatElements
<1>5. (Gone(d) => down[d] = <<>>)' /\ (phase[d] \notin {"pause", "run"} => cmdQ[d] = <<>>)'
  <2>1. Gone(d) => down[d] \o u = <<>>
    BY DEF SockFine
  <2> QED BY <2>1 DEF SockFine, Gone
<1>6. (sock[d] \in {"backlog", "connected"} =>
       /\ phase[d] \notin {"pause", "run"}
       /\ \A i \in DOMAIN down[d] : down[d][i].type # "GAME")'
  BY <1>4 DEF SockFine
<1>7. (Open(d) => slot[d] > 0)' /\ (sock[d] \in {"none", "kicked"} => up[d] = <<>> /\ From(d) = {})'
  BY <1>2 DEF SockFine, Open
<1>8. (\A i \in DOMAIN up[d] : up[d][i].type = "JOIN" =>
       i = 1 /\ \A j \in From(d) : rcvd[j].msg.type # "JOIN")'
  BY <1>2 DEF SockFine
<1>9. (\A i, j \in From(d) : i = j)'
  <2> SUFFICES ASSUME NEW i \in From(d)', NEW j \in From(d)' PROVE i = j
    OBVIOUS
  <2>1. i + k = j + k /\ i \in Nat /\ j \in Nat
    BY <1>2 DEF SockFine
  <2> QED BY <2>1
<1>10. (Asking(d) => /\ phase[d] \in {"join", "out", "desync"}
                     /\ \A i \in DOMAIN down[d] : down[d][i] # JoinReply(TRUE))'
  BY <1>3, <1>4 DEF SockFine, JoinReply
<1> QED BY <1>5, <1>6, <1>7, <1>8, <1>9, <1>10 DEF SockFine

(* A client loses its connection *)
LEMMA SockLost ==
  ASSUME IInv, NEW c \in Clients, NEW how \in {"none", "kicked"}, RemoveClient(c, how),
         NEW d \in Clients, SockFine(d), phase'[d] = phase[d], cmdQ'[d] = cmdQ[d], slot'[d] = slot[d]
  PROVE  /\ d # c => /\ sock'[d] = sock[d] /\ up'[d] = up[d] /\ down'[d] = down[d] /\ sendq'[d] = sendq[d]
         /\ d = c /\ From(d)' = {} => SockFine(d)'
<1>1. /\ sock \in [Clients -> {"none", "backlog", "connected", "playing", "kicked"}]
      /\ up \in [Clients -> Seq(UpMsgTo(sync[Server]))]
      /\ down \in [Clients -> Seq(DownMsgTo(sync[Server]))]
      /\ sendq \in [Clients -> Seq(BroadcastTo(sync[Server]))]
  BY DEF IInv, SockInv
<1>2. d # c => /\ sock'[d] = sock[d] /\ up'[d] = up[d] /\ down'[d] = down[d] /\ sendq'[d] = sendq[d]
  BY <1>1 DEF RemoveClient, Direct
<1>3. ASSUME d = c, From(d)' = {} PROVE SockFine(d)'
  <2>1. sock'[d] = how /\ up'[d] = <<>> /\ down'[d] = IF Gone(d) THEN down[d] ELSE down[d] \o <<EofMsg>>
    BY <1>1, <1>3 DEF RemoveClient, Direct
  <2>2. ~Asking(d)'
    BY <1>3, <2>1 DEF Asking
  <2>3. (Gone(d) => down[d] = <<>>)' /\ (phase[d] \notin {"pause", "run"} => cmdQ[d] = <<>>)'
    BY <2>1 DEF SockFine, Gone
  <2>4. how \notin {"backlog", "connected"} /\ ~Open(d)'
    BY <2>1 DEF Open
  <2>5. \A i \in DOMAIN up'[d] : FALSE
    BY <2>1
  <2> HIDE DEF Open
  <2> QED BY <1>3, <2>1, <2>2, <2>3, <2>4, <2>5 DEF SockFine
<1> QED BY <1>2, <1>3

-----------------------------------------------------------------------------
(* The server does not reach into the programs of its clients *)
LEMMA ServerTouchesNoClient ==
  ASSUME IInv, ServerNext, NEW d \in Clients
  PROVE  /\ phase'[d] = phase[d] /\ cmdQ'[d] = cmdQ[d] /\ world'[d] = world[d] /\ mc'[d] = mc[d]
         /\ sync'[d] = sync[d]
<1>1. d \in Nodes /\ d # Server /\ Server \in Nodes
  BY NodesFacts
<1>2. /\ phase \in [Nodes -> {"out", "join", "sync", "game", "pause", "run", "desync"}]
      /\ sync \in [Nodes -> Nat] /\ mc \in [Nodes -> Nat] /\ world \in [Nodes -> World]
      /\ cmdQ \in [Nodes -> Seq(WorldCommand)]
  BY DEF IInv, NodeInv
<1>3. CASE UNCHANGED nodeVars
  BY <1>3 DEF nodeVars
<1>4. ASSUME NEW m, ExecuteWorldCommand(m)
      PROVE  /\ phase'[d] = phase[d] /\ cmdQ'[d] = cmdQ[d] /\ world' = world /\ mc' = mc /\ sync' = sync
  <2>1. phase'[d] = phase[d]
    BY <1>1, <1>2, <1>4 DEF ExecuteWorldCommand
  <2> DEFINE q == Insert(cmdQ[Server], m)
  <2>2. \/ cmdQ' = [cmdQ EXCEPT ![Server] = <<>>]
        \/ cmdQ' = [cmdQ EXCEPT ![Server] = q]
        \/ cmdQ' = cmdQ
    BY <1>4 DEF ExecuteWorldCommand
  <2> HIDE DEF q
  <2>3. cmdQ'[d] = cmdQ[d]
    BY <1>1, <1>2, <2>2
  <2> QED BY <1>4, <2>1, <2>3 DEF ExecuteWorldCommand
<1>5. ASSUME NEW id, NEW new, SyncServer(id, new)
      PROVE  /\ phase' = phase /\ cmdQ'[d] = cmdQ[d] /\ world'[d] = world[d] /\ mc'[d] = mc[d] /\ sync' = sync
  BY <1>1, <1>2, <1>5 DEF SyncServer, LoadServer
<1>6. CASE SrvExecute
  BY <1>1, <1>2, <1>3, <1>4, <1>6 DEF SrvExecute, ExecuteJoin, ExecuteReady, ExecuteRequest
<1>7. CASE SrvDrain
  BY <1>1, <1>2, <1>5, <1>7 DEF SrvDrain, Execute
<1>8. CASE SrvForceSync
  BY <1>1, <1>2, <1>3, <1>5, <1>8 DEF SrvForceSync
<1>9. CASE SrvStep
  BY <1>1, <1>2, <1>9 DEF SrvStep
<1>10. CASE SrvSend \/ SrvLoop \/ SrvTool \/ \E c \in Clients : SrvAccept(c) \/ SrvReceive(c)
  BY <1>3, <1>10 DEF SrvSend, SrvLoop, SrvTool, SrvAccept, SrvReceive
<1> QED BY <1>6, <1>7, <1>8, <1>9, <1>10 DEF ServerNext

(* Nothing of the socket and of what is under way changes for a client *)
LEMMA SockSame ==
  ASSUME IInv, IInv', NEW d \in Clients, SockFine(d), NothingReceived,
         phase'[d] = phase[d], cmdQ'[d] = cmdQ[d], slot'[d] = slot[d], up'[d] = up[d],
         sock'[d] = sock[d], down'[d] = down[d]
  PROVE  SockFine(d)'
<1>1. <<>> \in Seq(DownMsg) /\ down[d] \o <<>> = down[d]
  BY DownTypes
<1> DEFINE u == <<>>
<1>2. u \in Seq(DownMsg) /\ down'[d] = down[d] \o u /\ \A i \in DOMAIN u : FALSE
  BY <1>1
<1>3. Gone(d) => u = <<>>
  OBVIOUS
<1> HIDE DEF u
<1> QED BY <1>2, <1>3, SockTold

LEMMA AcceptSock ==
  ASSUME IInv, IInv', NEW c \in Clients, SrvAccept(c), NEW d \in Clients, SockFine(d),
         phase'[d] = phase[d], cmdQ'[d] = cmdQ[d]
  PROVE  SockFine(d)'
<1>1. /\ sock \in [Clients -> {"none", "backlog", "connected", "playing", "kicked"}]
      /\ slot \in [Clients -> Nat]
  BY DEF IInv, SockInv
<1>2. UNCHANGED <<rcvd, up, down>>
  BY DEF SrvAccept, serverVars
<1>3. CASE d # c
  <2>1. slot'[d] = slot[d] /\ sock'[d] = sock[d]
    BY <1>1, <1>3 DEF SrvAccept
  <2>2. NothingReceived
    BY <1>2, ReceivedForms
  <2> QED BY <1>2, <2>1, <2>2, SockSame
<1>4. CASE d = c
  <2>1. PICK n \in 1..MaxSlot : slot' = [slot EXCEPT ![c] = n]
    BY DEF SrvAccept
  <2>2. sock[d] = "backlog" /\ sock'[d] = "connected" /\ slot'[d] > 0
    BY <1>1, <1>4, <2>1, BoundsAssumption DEF SrvAccept
  <2>3. From(d)' = From(d) /\ Asking(d)' = Asking(d) /\ Gone(d)' = Gone(d)
    BY <1>2 DEF From, Asking, Gone
  <2> QED BY <1>2, <2>2, <2>3 DEF SockFine
<1> QED BY <1>3, <1>4

LEMMA ReceiveSock ==
  ASSUME IInv, IInv', NEW c \in Clients, SrvReceive(c), NEW d \in Clients, SockFine(d),
         phase'[d] = phase[d], cmdQ'[d] = cmdQ[d]
  PROVE  SockFine(d)'
<1>1. slot' = slot /\ From(c) = {} /\ Open(c) /\ up[c] # <<>>
  BY DEF SrvReceive, From
<1>2. CASE RemoveClient(c, "none") /\ UNCHANGED rcvd
  <2>1. NothingReceived /\ From(c)' = {}
    BY <1>1, <1>2, ReceivedForms DEF From
  <2>2. CASE d = c
    BY <1>1, <1>2, <2>1, <2>2, SockLost
  <2>3. CASE d # c
    <3>1. /\ sock'[d] = sock[d] /\ up'[d] = up[d] /\ down'[d] = down[d]
      BY <1>1, <1>2, <2>3, SockLost
    <3> QED BY <1>1, <2>1, <3>1, SockSame
  <2> QED BY <2>2, <2>3
<1>3. CASE /\ rcvd' = Append(rcvd, [from |-> c, msg |-> Head(up[c])])
           /\ up' = [up EXCEPT ![c] = Tail(@)]
           /\ UNCHANGED <<sock, down>>
  <2>1. rcvd \in Seq(Received) /\ up[c] \in Seq(UpMsg) /\ up \in [Clients -> Seq(UpMsgTo(sync[Server]))]
    BY DownTypes DEF IInv, SockInv
  <2>2. /\ Len(rcvd) \in Nat /\ DOMAIN rcvd = 1..Len(rcvd) /\ DOMAIN rcvd' = 1..(Len(rcvd) + 1)
        /\ \A i \in 1..Len(rcvd) : rcvd'[i] = rcvd[i]
        /\ rcvd'[Len(rcvd) + 1] = [from |-> c, msg |-> Head(up[c])]
    BY <1>3, <2>1
  <2>3. CASE d # c
    <3>1. From(d)' = From(d) /\ \A i \in From(d) : rcvd'[i] = rcvd[i]
      <4>1. Len(rcvd) + 1 \notin From(d)'
        BY <2>2, <2>3 DEF From
      <4>2. \A i \in 1..(Len(rcvd) + 1) : i \in 1..Len(rcvd) \/ i = Len(rcvd) + 1
        BY <2>2
      <4> QED BY <2>2, <4>1, <4>2 DEF From
    <3>2. up'[d] = up[d]
      BY <1>3, <2>1, <2>3
    <3>3. Asking(d)' = Asking(d) /\ Gone(d)' = Gone(d) /\ Open(d)' = Open(d)
      BY <1>3, <3>1, <3>2 DEF Asking, Gone, Open
    <3> HIDE DEF From, Asking, Gone, Open
    <3> QED BY <1>1, <1>3, <3>1, <3>2, <3>3, ZenonT(60) DEF SockFine
  <2>4. CASE d = c
    <3>1. From(d)' = {Len(rcvd) + 1}
      <4>1. \A i \in 1..Len(rcvd) : rcvd[i].from # c
        BY <1>1, <2>2 DEF From
      <4>2. \A i \in 1..(Len(rcvd) + 1) : i \in 1..Len(rcvd) \/ i = Len(rcvd) + 1
        BY <2>2
      <4> QED BY <2>2, <2>4, <4>1, <4>2 DEF From
    <3>2. /\ up'[d] = Tail(up[d]) /\ Head(up[d]) = up[d][1] /\ 1 \in DOMAIN up[d]
          /\ \A i \in DOMAIN Tail(up[d]) : i + 1 \in DOMAIN up[d] /\ i + 1 # 1 /\ Tail(up[d])[i] = up[d][i + 1]
      BY <1>1, <1>3, <2>1, <2>4
    <3>3. \A i \in DOMAIN up'[d] : up'[d][i].type # "JOIN"
      BY <3>2 DEF SockFine
    <3>4. Asking(d)' => up[d][1].type = "JOIN" /\ Asking(d)
      BY <2>2, <2>4, <3>1, <3>2, <3>3 DEF Asking
    <3>5. sock'[d] \notin {"none", "kicked"} /\ Gone(d)' = Gone(d) /\ Open(d)' = Open(d)
      BY <1>1, <1>3, <2>4 DEF Open, Gone
    <3>6. \A i, j \in From(d)' : i = j
      BY <3>1
    <3> HIDE DEF From, Asking, Gone, Open
    <3> QED BY <1>1, <1>3, <3>3, <3>4, <3>5, <3>6 DEF SockFine
  <2> QED BY <2>3, <2>4
<1> QED BY <1>2, <1>3 DEF SrvReceive

-----------------------------------------------------------------------------
(* A direct send appends to what is on the way, unless the client has closed *)
LEMMA DirectTells ==
  ASSUME IInv, NEW c \in Clients, NEW msgs \in Seq(DownMsg), Direct(c, msgs), NEW d \in Clients
  PROVE  /\ down'[d] = down[d] \o (IF d = c /\ ~Gone(d) THEN msgs ELSE <<>>)
         /\ (IF d = c /\ ~Gone(d) THEN msgs ELSE <<>>) \in Seq(DownMsg)
<1>1. down \in [Clients -> Seq(DownMsgTo(sync[Server]))] /\ down[d] \in Seq(DownMsg)
  BY DownTypes DEF IInv, SockInv
<1>2. down[d] \o <<>> = down[d]
  BY <1>1
<1> QED BY <1>1, <1>2 DEF Direct

(* The request that is executed is the only one of its client *)
LEMMA HeadIsAlone ==
  ASSUME IInv, rcvd # <<>>, NEW c \in Clients, c = Head(rcvd).from, SockFine(c),
         rcvd' = Tail(rcvd) \/ \E m : rcvd' = Append(Tail(rcvd), FromServer(m))
  PROVE  From(c)' = {} /\ 1 \in From(c) /\ rcvd[1] = Head(rcvd)
<1> DEFINE R == ReceivedTo(sync[Server])
<1>1. rcvd \in Seq(R) /\ Server \notin Clients
  BY NodesFacts DEF IInv, ServerInv
<1>2. 1 \in From(c) /\ rcvd[1] = Head(rcvd)
  BY <1>1 DEF From
<1> HIDE DEF R
<1>3. \A i \in From(c) : i = 1
  BY <1>2 DEF SockFine
<1>4. ASSUME NEW i \in DOMAIN rcvd', rcvd'[i].from = c PROVE FALSE
  <2> DEFINE t == Tail(rcvd)
  <2>1. /\ t \in Seq(R) /\ Len(t) \in Nat /\ DOMAIN t = 1..Len(t)
        /\ \A j \in 1..Len(t) : t[j] = rcvd[j + 1] /\ j + 1 \in DOMAIN rcvd
    BY <1>1
  <2>2. \A j \in 1..Len(t) : t[j].from # c
    BY <1>3, <2>1 DEF From
  <2> HIDE DEF t
  <2>3. CASE rcvd' = t
    BY <1>4, <2>1, <2>2, <2>3
  <2>4. ASSUME NEW m, rcvd' = Append(t, FromServer(m)) PROVE FALSE
    <3>1. FromServer(m).from # c
      BY <1>1 DEF FromServer
    <3>2. i \in 1..(Len(t) + 1) /\ (i \in 1..Len(t) => rcvd'[i] = t[i]) /\ rcvd'[Len(t) + 1] = FromServer(m)
      BY <1>4, <2>1, <2>4
    <3> QED BY <1>4, <2>1, <2>2, <3>1, <3>2
  <2> QED BY <2>3, <2>4 DEF t
<1> QED BY <1>2, <1>4 DEF From

LEMMA ReplyTypes ==
  /\ \A a \in BOOLEAN : JoinReply(a) \in DownMsg
  /\ EofMsg \in DownMsg
  /\ WorldCommand \subseteq DownMsg /\ Ready \subseteq DownMsg
BY DEF JoinReply, EofMsg, DownMsg, Broadcast

LEMMA OrderedSync ==
  ASSUME IInv, NEW id \in Nat, NEW n \in Nat, NEW m \in Nat
  PROVE  SyncMsg(n, m, id, lastMc + 1) \in WorldCommand
<1>1. lastMc + 1 \in Nat
  BY DEF IInv, UserInv
<1> QED BY <1>1 DEF SyncMsg, WorldCommand

LEMMA JoinSock ==
  ASSUME IInv, IInv', rcvd # <<>>, NEW c \in Clients, c = Head(rcvd).from,
         Head(rcvd).msg.type = "JOIN", ExecuteJoin(c),
         \A e \in Clients : SockFine(e), NEW d \in Clients
  PROVE  SockFine(d)'
<1> DEFINE nws == SyncMsg(sync[Server] + 1, mc[Server], slot[c], lastMc + 1)
<1>1. c \in Clients
  OBVIOUS
<1>2. UNCHANGED nodeVars /\ sock' = sock /\ slot' = slot /\ up' = up
  BY DEF ExecuteJoin
<1>3. nws \in WorldCommand
  <2>1. sync[Server] + 1 \in Nat /\ mc[Server] \in Nat /\ slot[c] \in Nat
    <3>1. Server \in Nodes /\ sync \in [Nodes -> Nat] /\ mc \in [Nodes -> Nat] /\ slot \in [Clients -> Nat]
      BY NodesFacts DEF IInv, NodeInv, SockInv
    <3> QED BY <3>1
  <2> QED BY <2>1, OrderedSync
<1>4. /\ <<JoinReply(TRUE), nws>> \in Seq(DownMsg) /\ <<JoinReply(FALSE)>> \in Seq(DownMsg)
      /\ JoinReply(TRUE).type = "JOIN" /\ JoinReply(FALSE).type = "JOIN" /\ nws.type = "SYNC"
      /\ JoinReply(FALSE) # JoinReply(TRUE)
  <2>1. nws.type = "SYNC" /\ JoinReply(TRUE).type = "JOIN" /\ JoinReply(FALSE).type = "JOIN"
        /\ JoinReply(FALSE).answer # JoinReply(TRUE).answer
    BY DEF JoinReply, SyncMsg
  <2>2. JoinReply(TRUE) \in DownMsg /\ JoinReply(FALSE) \in DownMsg /\ nws \in DownMsg
    BY <1>3, ReplyTypes
  <2> HIDE DEF nws
  <2> QED BY <2>1, <2>2, ShortSequences
<1>5. /\ rcvd' = Tail(rcvd) \/ \E m : rcvd' = Append(Tail(rcvd), FromServer(m))
      /\ NothingReceived
  <2>1. rcvd' = Tail(rcvd) \/ rcvd' = Append(Tail(rcvd), FromServer(nws))
    BY DEF ExecuteJoin
  <2> HIDE DEF nws
  <2> QED BY <2>1, ReceivedForms
<1>6. ~Asking(c)'
  <2>1. From(c)' = {} /\ 1 \in From(c) /\ rcvd[1].msg.type = "JOIN"
    BY <1>1, <1>5, HeadIsAlone
  <2>2. \A i \in DOMAIN up[c] : up[c][i].type # "JOIN"
    BY <1>1, <2>1 DEF SockFine
  <2> QED BY <1>2, <2>1, <2>2 DEF Asking
<1> DEFINE yes == <<JoinReply(TRUE), nws>>
           no == <<JoinReply(FALSE)>>
<1>7. /\ \A i \in DOMAIN yes : yes[i].type # "GAME"
      /\ \A i \in DOMAIN no : no[i].type # "GAME" /\ no[i] # JoinReply(TRUE)
  <2> HIDE DEF nws
  <2>1. DOMAIN yes = 1..2 /\ yes[1] = JoinReply(TRUE) /\ yes[2] = nws
        /\ DOMAIN no = 1..1 /\ no[1] = JoinReply(FALSE)
    OBVIOUS
  <2>2. \A i \in 1..2 : i = 1 \/ i = 2
    OBVIOUS
  <2>3. \A i \in 1..1 : i = 1
    OBVIOUS
  <2> HIDE DEF yes, no
  <2>4. \A i \in DOMAIN yes : yes[i].type # "GAME"
    BY <1>4, <2>1, <2>2
  <2>5. \A i \in DOMAIN no : no[i].type # "GAME" /\ no[i] # JoinReply(TRUE)
    BY <1>4, <2>1, <2>3
  <2> QED BY <2>4, <2>5
<1>8. Direct(c, yes) \/ Direct(c, no)
  BY DEF ExecuteJoin
<1>9. yes \in Seq(DownMsg) /\ no \in Seq(DownMsg)
  BY <1>4
<1> HIDE DEF yes, no, nws
<1>10. phase'[d] = phase[d] /\ cmdQ'[d] = cmdQ[d]
  BY <1>2 DEF nodeVars
<1>11. ASSUME NEW msgs \in Seq(DownMsg), Direct(c, msgs), \A i \in DOMAIN msgs : msgs[i].type # "GAME",
              \A i \in DOMAIN msgs : msgs[i] = JoinReply(TRUE) => ~Asking(c)'
       PROVE  SockFine(d)'
  <2> DEFINE u == IF d = c /\ ~Gone(d) THEN msgs ELSE <<>>
  <2>1. down'[d] = down[d] \o u /\ u \in Seq(DownMsg)
    BY <1>1, <1>11, DirectTells
  <2>2. u = <<>> \/ (u = msgs /\ d = c /\ ~Gone(d))
    OBVIOUS
  <2> HIDE DEF u
  <2>3. \A i \in DOMAIN u : u[i].type # "GAME" /\ (u[i] = JoinReply(TRUE) => ~Asking(d)')
    <3>1. CASE u = <<>>
      BY <3>1
    <3>2. CASE u = msgs /\ d = c
      BY <1>11, <3>2
    <3> QED BY <2>2, <3>1, <3>2
  <2>4. Gone(d) => u = <<>>
    BY <2>2
  <2> QED BY <1>2, <1>5, <1>10, <2>1, <2>3, <2>4, SockTold
<1> QED BY <1>6, <1>7, <1>8, <1>9, <1>11

LEMMA ReadySock ==
  ASSUME IInv, IInv', rcvd # <<>>, NEW c \in Clients, c = Head(rcvd).from,
         Head(rcvd).msg.type = "READY", ExecuteReady(c, Head(rcvd).msg),
         \A e \in Clients : SockFine(e), NEW d \in Clients
  PROVE  SockFine(d)'
<1> DEFINE m == Head(rcvd).msg
<1>1. c \in Clients /\ m \in DownMsg
  BY HeadOfReceived DEF DownMsgTo
<1>2. UNCHANGED nodeVars /\ slot' = slot /\ rcvd' = Tail(rcvd)
  BY DEF ExecuteReady
<1>3. NothingReceived
  BY <1>2, ReceivedForms
<1>4. \/ Direct(c, <<m>>) /\ UNCHANGED <<sock, up>>
      \/ RemoveClient(c, "kicked")
  BY DEF ExecuteReady
<1>5. m.type # "GAME" /\ m # JoinReply(TRUE)
  BY DEF JoinReply
<1>6. From(c)' = {}
  BY <1>1, <1>2, HeadIsAlone
<1>7. phase'[d] = phase[d] /\ cmdQ'[d] = cmdQ[d]
  BY <1>2 DEF nodeVars
<1> HIDE DEF m
<1>8. CASE RemoveClient(c, "kicked")
  <2>1. CASE d = c
    BY <1>1, <1>2, <1>6, <1>7, <1>8, <2>1, SockLost
  <2>2. CASE d # c
    <3>1. sock'[d] = sock[d] /\ up'[d] = up[d] /\ down'[d] = down[d]
      BY <1>1, <1>2, <1>7, <1>8, <2>2, SockLost
    <3> QED BY <1>2, <1>3, <1>7, <3>1, SockSame
  <2> QED BY <2>1, <2>2
<1>9. CASE Direct(c, <<m>>) /\ UNCHANGED <<sock, up>>
  <2> DEFINE u == IF d = c /\ ~Gone(d) THEN <<m>> ELSE <<>>
  <2>1. down'[d] = down[d] \o u /\ u \in Seq(DownMsg)
    BY <1>1, <1>9, DirectTells, ShortSequences
  <2>2. \A i \in DOMAIN u : u[i] = m
    OBVIOUS
  <2>3. Gone(d) => u = <<>>
    OBVIOUS
  <2> HIDE DEF u
  <2> QED BY <1>2, <1>3, <1>5, <1>7, <1>9, <2>1, <2>2, <2>3, SockTold
<1> QED BY <1>4, <1>8, <1>9

LEMMA RequestSock ==
  ASSUME IInv, IInv', rcvd # <<>>, NEW c \in Clients \cup {Server}, c = Head(rcvd).from,
         Head(rcvd).msg.type = "REQUEST", ExecuteRequest(c, Head(rcvd).msg),
         \A e \in Clients : SockFine(e), NEW d \in Clients
  PROVE  SockFine(d)'
<1> DEFINE m == Head(rcvd).msg
           tool == ToolMsg(sync[Server] + 1, m.mc, m.cmd, ChecklistAt(world[Server], sync[Server]))
<1>1. c \in Clients \cup {Server}
  OBVIOUS
<1>2. UNCHANGED nodeVars /\ slot' = slot
  BY DEF ExecuteRequest
<1>3. \/ c # Server /\ rcvd' = Tail(rcvd) /\ RemoveClient(c, "kicked")
      \/ /\ rcvd' = Tail(rcvd) \/ rcvd' = Append(Tail(rcvd), FromServer(tool))
         /\ UNCHANGED <<sock, up, down>>
  BY DEF ExecuteRequest
<1> HIDE DEF tool
<1>4. NothingReceived
  BY <1>3, ReceivedForms
<1>5. phase'[d] = phase[d] /\ cmdQ'[d] = cmdQ[d]
  BY <1>2 DEF nodeVars
<1>6. c # Server /\ rcvd' = Tail(rcvd) => From(c)' = {}
  BY <1>1, HeadIsAlone
<1> HIDE DEF m
<1>7. CASE c # Server /\ rcvd' = Tail(rcvd) /\ RemoveClient(c, "kicked")
  <2>1. CASE d = c
    BY <1>1, <1>2, <1>5, <1>6, <1>7, <2>1, SockLost
  <2>2. CASE d # c
    <3>1. sock'[d] = sock[d] /\ up'[d] = up[d] /\ down'[d] = down[d]
      BY <1>1, <1>2, <1>5, <1>7, <2>2, SockLost
    <3> QED BY <1>2, <1>4, <1>5, <3>1, SockSame
  <2> QED BY <2>1, <2>2
<1>8. CASE UNCHANGED <<sock, up, down>>
  BY <1>2, <1>4, <1>5, <1>8, SockSame
<1> QED BY <1>3, <1>7, <1>8

LEMMA SyncSock ==
  ASSUME IInv, IInv', NEW id, NEW new \in Nat, SyncServer(id, new), NEW d \in Clients, SockFine(d),
         phase'[d] = phase[d], cmdQ'[d] = cmdQ[d]
  PROVE  SockFine(d)'
<1> DEFINE file == NetworkSave
           ready == ReadyMsg(sync[Server], new, ChecklistAt(file, sync[Server]))
           u == IF d \in Occupant(id) /\ ~Gone(d) THEN <<GameMsg(file), ready>> ELSE <<>>
<1>1. slot' = slot /\ up' = up /\ rcvd' = rcvd
  BY DEF SyncServer
<1>2. sock'[d] = IF d \in Occupant(id) THEN "playing" ELSE sock[d]
  BY DEF SyncServer
<1>3. down'[d] = down[d] \o u
  <2>1. down[d] \o <<>> = down[d]
    BY DownTypes
  <2>2. down'[d] = IF d \in Occupant(id) /\ ~Gone(d)
                    THEN down[d] \o <<GameMsg(file), ready>> ELSE down[d]
    BY DEF SyncServer
  <2> QED BY <2>1, <2>2
<1>4. u \in Seq(DownMsg)
  <2>1. file \in World /\ sync[Server] \in Nat
    BY NodesFacts DEF NetworkSave, IInv, NodeInv, ServerInv
  <2>2. ChecklistAt(file, sync[Server]) \in Checklist
    BY <2>1, ChecklistType
  <2>3. ready \in Ready
    BY <2>1, <2>2 DEF ReadyMsg, Ready
  <2>4. GameMsg(file) \in DownMsg /\ ready \in DownMsg
    BY <2>1, <2>3, ReplyTypes DEF GameMsg, DownMsg
  <2> QED BY <2>4, ShortSequences
<1>5. \A i \in DOMAIN u : d \in Occupant(id) /\ u[i].type \in {"GAME", "READY"}
  BY DEF GameMsg, ReadyMsg
<1>6. Gone(d) => u = <<>>
  OBVIOUS
<1>7. NothingReceived
  BY <1>1, ReceivedForms
<1>8. d \in Occupant(id) => Open(d)
  BY DEF Occupant
<1> HIDE DEF u
<1>9. \A i \in DOMAIN u : u[i] # JoinReply(TRUE)
  BY <1>5 DEF JoinReply
<1> QED BY <1>1, <1>2, <1>3, <1>4, <1>5, <1>6, <1>7, <1>8, <1>9, SockTold

LEMMA SendSock ==
  ASSUME IInv, IInv', SrvSend, NEW d \in Clients, SockFine(d),
         phase'[d] = phase[d], cmdQ'[d] = cmdQ[d]
  PROVE  SockFine(d)'
<1>1. PICK writable : Flush(writable)
  BY DEF SrvSend
<1> DEFINE u == IF d \in writable /\ ~Gone(d) THEN sendq[d] ELSE <<>>
<1>2. down'[d] = down[d] \o u
  <2>1. down[d] \o <<>> = down[d]
    BY DownTypes
  <2> QED BY <1>1, <2>1 DEF Flush
<1>3. u \in Seq(DownMsg) /\ u \in Seq(Broadcast)
  BY DownTypes
<1>4. Gone(d) => u = <<>>
  OBVIOUS
<1> HIDE DEF u
<1>5. \A i \in DOMAIN u : u[i].type # "GAME" /\ u[i] # JoinReply(TRUE)
  <2>1. \A i \in DOMAIN u : u[i] \in Broadcast
    BY <1>3, ElementOfSeq
  <2> QED BY <2>1 DEF Broadcast, WorldCommand, JoinReply
<1>6. UNCHANGED <<sock, slot, up, rcvd>>
  BY DEF SrvSend
<1>7. NothingReceived
  BY <1>6, ReceivedForms
<1> QED BY <1>2, <1>3, <1>4, <1>5, <1>6, <1>7, SockTold

-----------------------------------------------------------------------------
(* The steps of the server keep what sockets and phases say of each other *)

LEMMA ServerSock ==
  ASSUME IInv, IInv', ServerNext, \A e \in Clients : SockFine(e), NEW d \in Clients
  PROVE  SockFine(d)'
<1>1. phase'[d] = phase[d] /\ cmdQ'[d] = cmdQ[d]
  BY ServerTouchesNoClient
<1>2. ASSUME NothingReceived, UNCHANGED <<sock, slot, up, down>> PROVE SockFine(d)'
  BY <1>1, <1>2, SockSame
<1>3. CASE SrvExecute
  <2> DEFINE from == Head(rcvd).from
             m == Head(rcvd).msg
  <2>1. rcvd # <<>>
    BY <1>3 DEF SrvExecute
  <2>2. CASE m.type = "JOIN" /\ ExecuteJoin(from)
    BY <2>1, <2>2, HeadOfReceived, JoinSock
  <2>3. CASE m.type = "READY" /\ ExecuteReady(from, m)
    BY <2>1, <2>3, HeadOfReceived, ReadySock
  <2>4. CASE m.type = "REQUEST" /\ ExecuteRequest(from, m)
    BY <2>1, <2>4, HeadOfReceived, RequestSock
  <2>5. CASE m.type \in {"TOOL", "SYNC"} /\ ExecuteWorldCommand(m)
    <3>1. rcvd' = Tail(rcvd) /\ UNCHANGED <<sock, slot, up, down>>
      BY <2>5 DEF ExecuteWorldCommand, sockVars
    <3> QED BY <1>2, <2>1, <3>1, ReceivedForms
  <2> HIDE DEF from, m
  <2> QED BY <1>3, <2>2, <2>3, <2>4, <2>5 DEF SrvExecute, from, m
<1>4. ASSUME NEW id, NEW new \in Nat, SyncServer(id, new) PROVE SockFine(d)'
  BY <1>1, <1>4, SyncSock
<1>5. CASE SrvDrain
  <2> DEFINE m == Head(cmdQ[Server])
  <2>1. m.type = "SYNC" => m.new \in Nat
    BY <1>5, HeadOfQueue, NodesFacts DEF SrvDrain, Due
  <2>2. (m.type = "SYNC" /\ SyncServer(m.id, m.new)) \/ UNCHANGED <<serverVars, sockVars>>
    BY <1>5 DEF SrvDrain
  <2> HIDE DEF m
  <2>3. CASE UNCHANGED <<serverVars, sockVars>>
    BY <1>2, <2>3, ReceivedForms DEF serverVars, sockVars
  <2> QED BY <1>4, <2>1, <2>2, <2>3
<1>6. CASE SrvForceSync
  <2>1. lastMc + 1 \in Nat
    BY DEF IInv, UserInv
  <2>2. CASE SyncServer(0, lastMc + 1)
    BY <1>4, <2>1, <2>2
  <2>3. ASSUME NEW m, rcvd' = Append(rcvd, FromServer(m)), UNCHANGED <<sock, slot, up, down>> PROVE SockFine(d)'
    BY <1>2, <2>3, ReceivedForms
  <2> QED BY <1>6, <2>2, <2>3 DEF SrvForceSync
<1>7. CASE SrvSend
  BY <1>1, <1>7, SendSock
<1>8. CASE SrvStep \/ SrvLoop
  BY <1>2, <1>8, ReceivedForms DEF SrvStep, SrvLoop, sockVars
<1>9. CASE SrvTool
  BY <1>2, <1>9, ReceivedForms DEF SrvTool, sockVars
<1>10. ASSUME NEW c \in Clients, SrvAccept(c) \/ SrvReceive(c) PROVE SockFine(d)'
  BY <1>1, <1>10, AcceptSock, ReceiveSock
<1> QED BY <1>3, <1>5, <1>6, <1>7, <1>8, <1>9, <1>10 DEF ServerNext

-----------------------------------------------------------------------------
(* What a client does *)

(* A client does not reach into the other programs *)
LEMMA ClientTouchesNobody ==
  ASSUME IInv, NEW c \in Clients, ClientNext(c), NEW d \in Clients, d # c
  PROVE  /\ phase'[d] = phase[d] /\ cmdQ'[d] = cmdQ[d] /\ world'[d] = world[d] /\ mc'[d] = mc[d]
         /\ sock'[d] = sock[d] /\ slot'[d] = slot[d] /\ up'[d] = up[d] /\ down'[d] = down[d]
<1>1. /\ phase \in [Nodes -> {"out", "join", "sync", "game", "pause", "run", "desync"}]
      /\ mc \in [Nodes -> Nat] /\ world \in [Nodes -> World]
      /\ cmdQ \in [Nodes -> Seq(WorldCommand)]
      /\ sock \in [Clients -> {"none", "backlog", "connected", "playing", "kicked"}]
      /\ up \in [Clients -> Seq(UpMsgTo(sync[Server]))]
      /\ down \in [Clients -> Seq(DownMsgTo(sync[Server]))]
      /\ d \in Nodes /\ c \in Nodes
  BY NodesFacts DEF IInv, NodeInv, SockInv
<1>2. \A m : SendServer(c, m) => up'[d] = up[d]
  BY <1>1 DEF SendServer
<1>3. \A to : Disconnect(c, to) => /\ phase'[d] = phase[d] /\ cmdQ'[d] = cmdQ[d]
                                    /\ down'[d] = down[d] /\ up'[d] = up[d]
  BY <1>1, <1>2 DEF Disconnect
<1>4. CASE CliConnect(c)
  BY <1>1, <1>4 DEF CliConnect
<1>5. CASE CliReceive(c)
  <2> DEFINE m == Head(down[c])
  <2>1. CASE JoinStep(c, m)
    <3> HIDE DEF m
    <3> QED BY <1>1, <1>3, <1>5, <2>1 DEF CliReceive, JoinStep
  <2>2. CASE GameStep(c, m)
    <3> DEFINE q == IF m.step < sync[c] THEN cmdQ[c] ELSE Insert(cmdQ[c], m)
               q2 == Insert(cmdQ[c], m)
    <3>1. \/ \E to : Disconnect(c, to)
          \/ down' = [down EXCEPT ![c] = Tail(@)] /\ up' = up /\ cmdQ' = cmdQ /\ phase' = phase
          \/ down' = [down EXCEPT ![c] = Tail(@)] /\ up' = up /\ cmdQ' = cmdQ /\ phase' = [phase EXCEPT ![c] = "run"]
          \/ down' = [down EXCEPT ![c] = Tail(@)] /\ up' = up /\ phase' = phase /\ cmdQ' = [cmdQ EXCEPT ![c] = q]
          \/ down' = [down EXCEPT ![c] = Tail(@)] /\ up' = up /\ phase' = phase /\ cmdQ' = [cmdQ EXCEPT ![c] = q2]
      BY <2>2 DEF GameStep
    <3>2. UNCHANGED <<mc, world>> /\ UNCHANGED <<sock, slot>>
      BY <1>5, <2>2 DEF GameStep, CliReceive
    <3> HIDE DEF m, q, q2
    <3> QED BY <1>1, <1>3, <3>1, <3>2
  <2> HIDE DEF m
  <2> QED BY <1>5, <2>1, <2>2 DEF CliReceive, m
<1>6. CASE CliDrain(c)
  <2>1. UNCHANGED <<sock, slot>>
    BY <1>6 DEF CliDrain
  <2>2. \/ \E to : Disconnect(c, to) /\ UNCHANGED <<mc, world>>
        \/ cmdQ' = [cmdQ EXCEPT ![c] = Tail(@)] /\ UNCHANGED <<phase, mc, world, up, down>>
        \/ cmdQ' = [cmdQ EXCEPT ![c] = Tail(@)] /\ UNCHANGED <<phase, mc, up, down>> /\ \E m : Execute(c, m)
        \/ \E m : SyncClient(c, m)
    BY <1>6 DEF CliDrain
  <2> QED BY <1>1, <1>2, <1>3, <2>1, <2>2 DEF Execute, SyncClient
<1>7. CASE CliStep(c) \/ CliTool(c) \/ CliLeave(c)
  BY <1>2, <1>3, <1>7 DEF CliStep, CliTool, CliLeave, nodeVars, sockVars
<1> QED BY <1>4, <1>5, <1>6, <1>7 DEF ClientNext

LEMMA AppendElements ==
  ASSUME NEW S, NEW s \in Seq(S), NEW m, NEW i \in DOMAIN Append(s, m)
  PROVE  \/ i \in DOMAIN s /\ Append(s, m)[i] = s[i]
         \/ i = Len(s) + 1 /\ Append(s, m)[i] = m
OBVIOUS

(* The connection ends at the client *)
LEMMA DisconnectSock ==
  ASSUME IInv, NEW c \in Clients, SockFine(c), NEW to \in {"out", "desync"}, Disconnect(c, to),
         UNCHANGED <<sock, slot, rcvd>>
  PROVE  SockFine(c)'
<1>1. /\ phase \in [Nodes -> {"out", "join", "sync", "game", "pause", "run", "desync"}]
      /\ cmdQ \in [Nodes -> Seq(WorldCommand)] /\ c \in Nodes
      /\ up \in [Clients -> Seq(UpMsgTo(sync[Server]))] /\ up[c] \in Seq(UpMsg)
      /\ down \in [Clients -> Seq(DownMsgTo(sync[Server]))]
  BY NodesFacts, DownTypes DEF IInv, NodeInv, SockInv
<1>2. phase'[c] = to /\ cmdQ'[c] = <<>> /\ down'[c] = <<>>
  <2>1. cmdQ' = [cmdQ EXCEPT ![c] = <<>>] /\ down' = [down EXCEPT ![c] = <<>>] /\ phase' = [phase EXCEPT ![c] = to]
    BY DEF Disconnect
  <2> QED BY <1>1, <2>1
<1>3. /\ up'[c] = up[c] \/ up'[c] = Append(up[c], EofMsg)
      /\ sock[c] \in {"none", "kicked"} => up'[c] = up[c]
  BY <1>1 DEF Disconnect, SendServer, Open
<1>4. \A i \in DOMAIN up'[c] : up'[c][i].type = "JOIN" => i \in DOMAIN up[c] /\ up[c][i] = up'[c][i]
  <2>1. EofMsg.type = "EOF"
    BY DEF EofMsg
  <2>2. \A i \in DOMAIN Append(up[c], EofMsg) :
          (i \in DOMAIN up[c] /\ Append(up[c], EofMsg)[i] = up[c][i]) \/ Append(up[c], EofMsg)[i] = EofMsg
    BY <1>1, AppendElements
  <2> QED BY <1>3, <2>1, <2>2
<1>5. From(c)' = From(c) /\ Open(c)' = Open(c)
  BY DEF From, Open
<1>6. \A i \in DOMAIN down'[c] : FALSE
  BY <1>2
<1> HIDE DEF From, Open
<1> QED BY <1>2, <1>3, <1>4, <1>5, <1>6 DEF SockFine

(* A message is taken off the wire *)
LEMMA TailElements ==
  ASSUME NEW S, NEW s \in Seq(S), s # <<>>
  PROVE  /\ Head(s) = s[1] /\ 1 \in DOMAIN s /\ Tail(s) \in Seq(S)
         /\ \A i \in DOMAIN Tail(s) : i + 1 \in DOMAIN s /\ Tail(s)[i] = s[i + 1]
OBVIOUS

LEMMA ConnectSock ==
  ASSUME IInv, NEW c \in Clients, CliConnect(c), SockFine(c)
  PROVE  SockFine(c)'
<1>1. /\ phase \in [Nodes -> {"out", "join", "sync", "game", "pause", "run", "desync"}]
      /\ sock \in [Clients -> {"none", "backlog", "connected", "playing", "kicked"}]
      /\ up \in [Clients -> Seq(UpMsgTo(sync[Server]))] /\ c \in Nodes
  BY NodesFacts DEF IInv, NodeInv, SockInv
<1>2. phase'[c] = "join" /\ sock'[c] = "backlog" /\ up'[c] = <<JoinMsg>>
  BY <1>1 DEF CliConnect
<1>3. UNCHANGED <<down, cmdQ, slot, rcvd>> /\ Gone(c) /\ sock[c] = "none"
  BY DEF CliConnect, serverVars, Gone
<1>4. down'[c] = <<>> /\ cmdQ'[c] = <<>> /\ From(c)' = {}
  <2>1. phase[c] \notin {"pause", "run"} /\ From(c)' = From(c)
    BY <1>3 DEF Gone, From
  <2> HIDE DEF From
  <2> QED BY <1>3, <2>1 DEF SockFine
<1>5. (\A i \in DOMAIN down'[c] : FALSE) /\ (\A i \in DOMAIN up'[c] : i = 1) /\ ~Open(c)'
  BY <1>2, <1>4 DEF Open
<1> HIDE DEF From, Open
<1> QED BY <1>2, <1>4, <1>5 DEF SockFine

(* A client takes a message off the wire and stays connected *)
LEMMA TakenSock ==
  ASSUME IInv, NEW c \in Clients, SockFine(c), down[c] # <<>>, down'[c] = Tail(down[c]),
         UNCHANGED <<sock, slot, rcvd>>, up'[c] = up[c],
         \/ /\ phase[c] \notin {"pause", "run"} /\ cmdQ'[c] = cmdQ[c]
            /\ \/ phase'[c] = phase[c]
               \/ phase[c] = "join" /\ Head(down[c]) = JoinReply(TRUE) /\ phase'[c] = "sync"
               \/ phase[c] = "sync" /\ phase'[c] = "game"
               \/ phase[c] = "game" /\ Head(down[c]).type = "GAME" /\ phase'[c] = "pause"
         \/ phase[c] \in {"pause", "run"} /\ phase'[c] \in {"pause", "run"}
  PROVE  SockFine(c)'
<1>1. /\ down[c][1] = Head(down[c]) /\ 1 \in DOMAIN down[c]
      /\ \A i \in DOMAIN down'[c] : i + 1 \in DOMAIN down[c] /\ down'[c][i] = down[c][i + 1]
  BY DownTypes, TailElements
<1>2. ~Gone(c)
  BY <1>1 DEF SockFine
<1>3. From(c)' = From(c) /\ Open(c)' = Open(c) /\ Asking(c)' = Asking(c) /\ ~Gone(c)'
  <2>1. From(c)' = From(c) /\ Open(c)' = Open(c) /\ ~Gone(c)'
    BY <1>2 DEF From, Open, Gone
  <2> HIDE DEF From
  <2> QED BY <2>1 DEF Asking
<1>4. phase'[c] \notin {"pause", "run"} => cmdQ'[c] = <<>>
  BY DEF SockFine
<1>5. sock[c] \in {"backlog", "connected"} => phase'[c] \notin {"pause", "run"}
  BY <1>1 DEF SockFine
<1>6. Asking(c) => phase'[c] \in {"join", "out", "desync"}
  BY <1>1, <1>2 DEF SockFine, Gone
<1> HIDE DEF From, Open, Gone, Asking
<1> QED BY <1>1, <1>3, <1>4, <1>5, <1>6 DEF SockFine

LEMMA ReceivingSock ==
  ASSUME IInv, NEW c \in Clients, CliReceive(c), SockFine(c)
  PROVE  SockFine(c)'
<1> DEFINE m == Head(down[c])
<1>1. UNCHANGED <<sock, slot, rcvd>> /\ down[c] # <<>>
  BY DEF CliReceive, serverVars
<1>2. /\ phase \in [Nodes -> {"out", "join", "sync", "game", "pause", "run", "desync"}]
      /\ cmdQ \in [Nodes -> Seq(WorldCommand)] /\ c \in Nodes
      /\ down \in [Clients -> Seq(DownMsgTo(sync[Server]))]
  BY NodesFacts DEF IInv, NodeInv, SockInv
<1>3. CASE \E to \in {"out", "desync"} : Disconnect(c, to)
  BY <1>1, <1>3, DisconnectSock
<1>4. CASE JoinStep(c, m) /\ phase[c] \in {"join", "sync", "game"} /\ ~Disconnect(c, "out")
  <2> HIDE DEF m
  <2>1. /\ down' = [down EXCEPT ![c] = Tail(@)] /\ up' = up /\ cmdQ' = cmdQ
        /\ \/ phase' = phase
           \/ phase[c] = "join" /\ m = JoinReply(TRUE) /\ phase' = [phase EXCEPT ![c] = "sync"]
           \/ phase[c] = "sync" /\ phase' = [phase EXCEPT ![c] = "game"]
           \/ phase[c] = "game" /\ m.type = "GAME" /\ phase' = [phase EXCEPT ![c] = "pause"]
    BY <1>4 DEF JoinStep
  <2>2. down'[c] = Tail(down[c])
    BY <1>2, <2>1
  <2>3. \/ phase'[c] = phase[c]
        \/ phase[c] = "join" /\ m = JoinReply(TRUE) /\ phase'[c] = "sync"
        \/ phase[c] = "sync" /\ phase'[c] = "game"
        \/ phase[c] = "game" /\ m.type = "GAME" /\ phase'[c] = "pause"
    BY <1>2, <2>1
  <2> QED BY <1>1, <1>4, <2>1, <2>2, <2>3, TakenSock DEF m
<1>5. CASE GameStep(c, m) /\ phase[c] \in {"pause", "run"} /\ \A to \in {"out", "desync"} : ~Disconnect(c, to)
  <2> HIDE DEF m
  <2>1. /\ down' = [down EXCEPT ![c] = Tail(@)] /\ up' = up
        /\ phase' = phase \/ phase' = [phase EXCEPT ![c] = "run"]
    BY <1>5 DEF GameStep
  <2>2. down'[c] = Tail(down[c]) /\ phase'[c] \in {"pause", "run"} /\ up'[c] = up[c]
    BY <1>2, <1>5, <2>1
  <2> QED BY <1>1, <1>5, <2>2, TakenSock
<1> HIDE DEF m
<1> QED BY <1>3, <1>4, <1>5 DEF CliReceive, m

(* A client writes to the server, which is not a request to join *)
LEMMA WritingSock ==
  ASSUME IInv, NEW c \in Clients, SockFine(c), NEW m, m.type # "JOIN",
         SendServer(c, m) \/ up' = up, UNCHANGED <<sock, slot, rcvd, down>>,
         phase[c] \in {"pause", "run"}, phase'[c] \in {"pause", "run"}
  PROVE  SockFine(c)'
<1>1. /\ up \in [Clients -> Seq(UpMsgTo(sync[Server]))] /\ up[c] \in Seq(UpMsg)
  BY DownTypes DEF IInv, SockInv
<1>2. /\ up'[c] = up[c] \/ up'[c] = Append(up[c], m)
      /\ sock[c] \in {"none", "kicked"} => up'[c] = up[c]
  BY <1>1 DEF SendServer, Open
<1>3. \A i \in DOMAIN up'[c] : up'[c][i].type = "JOIN" => i \in DOMAIN up[c] /\ up[c][i] = up'[c][i]
  <2>1. \A i \in DOMAIN Append(up[c], m) :
          (i \in DOMAIN up[c] /\ Append(up[c], m)[i] = up[c][i]) \/ Append(up[c], m)[i] = m
    BY <1>1, AppendElements
  <2> QED BY <1>2, <2>1
<1>4. From(c)' = From(c) /\ Open(c)' = Open(c)
  BY DEF From, Open
<1>5. Asking(c)' => Asking(c)
  BY <1>3, <1>4 DEF Asking
<1>6. ~Gone(c) /\ ~Gone(c)'
  BY DEF Gone
<1> HIDE DEF From, Open, Asking, Gone
<1> QED BY <1>2, <1>3, <1>4, <1>5, <1>6 DEF SockFine

LEMMA ClientSock ==
  ASSUME IInv, IInv', NEW c \in Clients, ClientNext(c), NEW d \in Clients, SockFine(d)
  PROVE  SockFine(d)'
<1>1. UNCHANGED rcvd
  BY DEF ClientNext, CliConnect, CliReceive, CliDrain, CliStep, CliTool, CliLeave, serverVars
<1>2. CASE d # c
  <2>1. NothingReceived
    BY <1>1, ReceivedForms
  <2> QED BY <1>2, <2>1, ClientTouchesNobody, SockSame
<1>3. CASE d = c
  <2>1. CASE CliConnect(c) \/ CliReceive(c)
    BY <1>3, <2>1, ConnectSock, ReceivingSock
  <2>2. CASE CliDrain(c)
    <3>1. UNCHANGED <<sock, slot, rcvd>> /\ phase[c] \in {"pause", "run"}
      BY <2>2 DEF CliDrain, serverVars
    <3>2. \/ Disconnect(c, "desync")
          \/ phase' = phase /\ up' = up /\ down' = down
          \/ \E m : SyncClient(c, m)
      BY <2>2 DEF CliDrain
    <3>3. CASE Disconnect(c, "desync")
      BY <1>3, <3>1, <3>3, DisconnectSock
    <3>4. CASE phase' = phase /\ up' = up /\ down' = down
      <4>1. EofMsg.type # "JOIN"
        BY DEF EofMsg
      <4> QED BY <1>3, <3>1, <3>4, <4>1, WritingSock
    <3>5. ASSUME NEW m, SyncClient(c, m) PROVE SockFine(c)'
      <4> DEFINE r == ReadyMsg(sync[c], m.new, ChecklistAt(world[c], sync[c]))
      <4>1. r.type # "JOIN"
        BY DEF ReadyMsg
      <4>2. SendServer(c, r) /\ down' = down /\ phase'[c] = "pause"
        BY <3>5, NodesFacts DEF SyncClient, IInv, NodeInv
      <4> HIDE DEF r
      <4> QED BY <1>3, <3>1, <4>1, <4>2, WritingSock
    <3> QED BY <1>3, <3>2, <3>3, <3>4, <3>5
  <2>3. CASE CliStep(c)
    <3>1. NothingReceived /\ phase' = phase /\ cmdQ' = cmdQ /\ UNCHANGED sockVars
      BY <1>1, <2>3, ReceivedForms DEF CliStep
    <3> QED BY <3>1, SockSame DEF sockVars
  <2>4. CASE CliTool(c)
    <3> DEFINE r == RequestMsg(sync[c], mc[c], lastCmd + 1, ChecklistAt(world[c], sync[c]))
    <3>1. r.type # "JOIN" /\ SendServer(c, r) /\ UNCHANGED <<sock, slot, rcvd, down>>
      BY <1>1, <2>4 DEF CliTool, RequestMsg
    <3>2. phase[c] \in {"pause", "run"} /\ phase'[c] \in {"pause", "run"}
      BY <2>4 DEF CliTool, nodeVars
    <3> HIDE DEF r
    <3> QED BY <1>3, <3>1, <3>2, WritingSock
  <2>5. CASE CliLeave(c)
    <3>1. UNCHANGED <<sock, slot, rcvd>> /\ Disconnect(c, "out")
      BY <2>5 DEF CliLeave, serverVars
    <3> QED BY <1>3, <3>1, DisconnectSock
  <2> QED BY <2>1, <2>2, <2>3, <2>4, <2>5 DEF ClientNext
<1> QED BY <1>2, <1>3

LEMMA SockStep ==
  ASSUME IInv, IInv', \A e \in Clients : SockFine(e), [Next]_vars, NEW d \in Clients
  PROVE  SockFine(d)'
<1>1. CASE UNCHANGED vars
  <2>1. NothingReceived
    BY <1>1, ReceivedForms DEF vars, serverVars
  <2> QED BY <1>1, <2>1, SockSame DEF vars, nodeVars, sockVars
<1> QED BY <1>1, ServerSock, ClientSock DEF Next

-----------------------------------------------------------------------------
(* What waits at the server *)

SomePlaying == \E c \in Clients : sock[c] = "playing"

(* A command in the queue of a server at step n, with map counter k and world w *)
Queued(m, n, k, w, last) ==
  /\ Acts(m) /\ m.mc = k
  /\ n <= m.step /\ m.step <= n + 1 /\ 0 < m.step
  /\ m.type = "TOOL" => m.chk = ChecklistAt(w, m.step - 1)
  /\ m.type = "SYNC" => m.mc < m.new /\ m.new <= last

(* A command that the server has made for the next step and not yet queued.  It may be for an earlier *)
(* map counter, but not while a client plays                                                          *)
Expected(m, n, k, w, last) ==
  Acts(m) =>
    /\ m.step = n + 1 /\ m.mc <= k
    /\ m.type = "TOOL" /\ m.mc = k => m.chk = ChecklistAt(w, m.step - 1)
    /\ m.type = "SYNC" => m.mc < m.new /\ m.new <= last

ServerOk ==
  /\ phase[Server] = "run" /\ mc[Server] <= lastMc
  /\ \A i \in DOMAIN cmdQ[Server] :
       Queued(cmdQ[Server][i], sync[Server], mc[Server], world[Server], lastMc)
  /\ \A i \in DOMAIN rcvd :
       /\ rcvd[i].msg.type # "CHECK"
       /\ Expected(rcvd[i].msg, sync[Server], mc[Server], world[Server], lastMc)
       /\ Acts(rcvd[i].msg) => stage # "run" /\ (SomePlaying => rcvd[i].msg.mc = mc[Server])

LEMMA ReceivedElements ==
  ASSUME IInv, NEW r,
         \/ rcvd' = rcvd
         \/ rcvd' = Append(rcvd, r)
         \/ rcvd # <<>> /\ rcvd' = Tail(rcvd)
         \/ rcvd # <<>> /\ rcvd' = Append(Tail(rcvd), r)
  PROVE  \A i \in DOMAIN rcvd' :
           (\E j \in DOMAIN rcvd : rcvd'[i] = rcvd[j])
             \/ (rcvd'[i] = r /\ rcvd' # rcvd /\ ~(rcvd # <<>> /\ rcvd' = Tail(rcvd)))
<1> DEFINE R == ReceivedTo(sync[Server])
           t == Tail(rcvd)
<1>1. rcvd \in Seq(R)
  BY DEF IInv, ServerInv
<1>2. CASE rcvd' = rcvd
  BY <1>2
<1>3. CASE rcvd' = Append(rcvd, r) /\ rcvd' # rcvd
  <2>1. ~(rcvd # <<>> /\ rcvd' = Tail(rcvd))
    BY <1>1, <1>3
  <2> QED BY <1>1, <1>3, <2>1, AppendElements
<1>4. CASE rcvd # <<>> /\ rcvd' = t
  BY <1>1, <1>4, TailElements
<1>5. CASE rcvd # <<>> /\ rcvd' = Append(t, r) /\ rcvd' # rcvd
  <2>1. t \in Seq(R) /\ \A i \in DOMAIN t : i + 1 \in DOMAIN rcvd /\ t[i] = rcvd[i + 1]
    BY <1>1, <1>5, TailElements
  <2>2. rcvd' # t
    BY <1>5, <2>1
  <2> HIDE DEF t
  <2> QED BY <1>5, <2>1, <2>2, AppendElements DEF t
<1> QED BY <1>2, <1>3, <1>4, <1>5

(* Most steps only add to what was received, and what they add fits *)
LEMMA QuietServer ==
  ASSUME IInv, IInv', ServerOk,
         phase'[Server] = phase[Server], sync'[Server] = sync[Server], mc'[Server] = mc[Server],
         world'[Server] = world[Server], cmdQ'[Server] = cmdQ[Server], lastMc <= lastMc',
         \A c \in Clients : sock'[c] = "playing" => sock[c] = "playing",
         \A i \in DOMAIN rcvd' :
           \/ \E j \in DOMAIN rcvd : rcvd'[i] = rcvd[j]
           \/ /\ rcvd'[i].msg.type # "CHECK"
              /\ Expected(rcvd'[i].msg, sync[Server], mc[Server], world[Server], lastMc')
              /\ Acts(rcvd'[i].msg) => rcvd'[i].msg.mc = mc[Server],
         stage' = "run" => \A i \in DOMAIN rcvd' : ~Acts(rcvd'[i].msg)
  PROVE  ServerOk'
<1>1. lastMc \in Nat /\ lastMc' \in Nat /\ mc[Server] \in Nat
  BY NodesFacts DEF IInv, UserInv, NodeInv
<1>2. \A i \in DOMAIN cmdQ[Server] : cmdQ[Server][i].type = "SYNC" => cmdQ[Server][i].new \in Nat
  <2>1. \A i \in DOMAIN cmdQ[Server] : cmdQ[Server][i] \in WorldCommand
    BY NodesFacts, ElementOfSeq DEF IInv, NodeInv
  <2> QED BY <2>1 DEF WorldCommand
<1>3. \A i \in DOMAIN rcvd : rcvd[i].msg.type = "SYNC" => rcvd[i].msg.new \in Nat
  <2>1. \A i \in DOMAIN rcvd : rcvd[i] \in Received
    BY DEF IInv, ServerInv, ReceivedTo
  <2>2. \A m \in Ready \cup Request \cup {JoinMsg} : m.type # "SYNC"
    BY DEF Ready, Request, JoinMsg
  <2>3. \A m \in WorldCommand \cup Request : m.type = "SYNC" => m.new \in Nat
    BY DEF Request, WorldCommand
  <2>4. \A i \in DOMAIN rcvd : \/ rcvd[i].msg \in Ready \cup Request \cup {JoinMsg}
                               \/ rcvd[i].msg \in WorldCommand \cup Request
    BY <2>1 DEF Received
  <2> QED BY <2>2, <2>3, <2>4
<1>4. ASSUME NEW m, NEW k, NEW w, NEW s, m.type = "SYNC" => m.new \in Nat
      PROVE  /\ Queued(m, s, k, w, lastMc) => Queued(m, s, k, w, lastMc')
             /\ Expected(m, s, k, w, lastMc) => Expected(m, s, k, w, lastMc')
  BY <1>1, <1>4 DEF Queued, Expected
<1>5. SomePlaying' => SomePlaying
  BY DEF SomePlaying
<1>6. \A i \in DOMAIN cmdQ[Server] :
       Queued(cmdQ[Server][i], sync[Server], mc[Server], world[Server], lastMc')
  BY <1>2, <1>4 DEF ServerOk
<1>7. \A i \in DOMAIN rcvd' :
       /\ rcvd'[i].msg.type # "CHECK"
       /\ Expected(rcvd'[i].msg, sync[Server], mc[Server], world[Server], lastMc')
       /\ Acts(rcvd'[i].msg) => stage' # "run" /\ (SomePlaying' => rcvd'[i].msg.mc = mc[Server])
  BY <1>3, <1>4, <1>5 DEF ServerOk
<1>8. mc[Server] <= lastMc'
  BY <1>1 DEF ServerOk
<1> QED BY <1>6, <1>7, <1>8 DEF ServerOk

LEMMA RemovedDoNotPlay ==
  ASSUME IInv, NEW c \in Clients, NEW how \in {"none", "kicked"}, RemoveClient(c, how), NEW d \in Clients
  PROVE  sock'[d] = "playing" => sock[d] = "playing"
BY DEF RemoveClient, IInv, SockInv

(* Messages that a client sends are no world commands *)
LEMMA ClientMessages ==
  ASSUME NEW m \in UpMsg
  PROVE  ~IsWorldCommand(m) /\ ~Acts(m)
BY DEF UpMsg, Ready, Request, JoinMsg, EofMsg, IsWorldCommand, Acts

LEMMA ReceiveServer ==
  ASSUME IInv, IInv', ServerOk, NEW c \in Clients, SrvReceive(c)
  PROVE  ServerOk'
<1>1. UNCHANGED nodeVars /\ UNCHANGED userVars /\ stage' = "receive"
  BY DEF SrvReceive
<1>2. UNCHANGED <<phase, sync, mc, world, cmdQ, lastMc>>
  BY <1>1 DEF nodeVars, userVars
<1>3. up[c] \in Seq(UpMsg) /\ up[c] # <<>>
  BY DownTypes DEF SrvReceive
<1> DEFINE r == [from |-> c, msg |-> Head(up[c])]
<1>4. r.msg \in UpMsg
  BY <1>3
<1>5. r.msg.type # "CHECK" /\ ~Acts(r.msg)
  BY <1>4, ClientMessages DEF IsWorldCommand
<1>6. rcvd' = rcvd \/ rcvd' = Append(rcvd, r)
  BY DEF SrvReceive
<1>7. \A d \in Clients : sock'[d] = "playing" => sock[d] = "playing"
  BY RemovedDoNotPlay DEF SrvReceive
<1> HIDE DEF r
<1>8. \A i \in DOMAIN rcvd' : (\E j \in DOMAIN rcvd : rcvd'[i] = rcvd[j]) \/ rcvd'[i] = r
  BY <1>6, ReceivedElements
<1>9. lastMc <= lastMc'
  BY <1>2 DEF IInv, UserInv
<1> QED BY <1>1, <1>2, <1>5, <1>7, <1>8, <1>9, QuietServer DEF Expected

LEMMA ExecuteServer ==
  ASSUME IInv, IInv', ServerOk, SrvExecute, ~Acts(Head(rcvd).msg)
  PROVE  ServerOk'
<1> DEFINE c == Head(rcvd).from
           m == Head(rcvd).msg
           n == sync[Server]
           nws == SyncMsg(n + 1, mc[Server], slot[c], lastMc + 1)
           tool == ToolMsg(n + 1, m.mc, m.cmd, ChecklistAt(world[Server], n))
<1>1. rcvd # <<>> /\ stage' = "execute"
  BY DEF SrvExecute
<1>2. UNCHANGED nodeVars /\ lastMc' \in {lastMc, lastMc + 1}
  BY DEF SrvExecute, Acts, ExecuteJoin, ExecuteReady, ExecuteRequest, userVars
<1>3. UNCHANGED <<phase, sync, mc, world, cmdQ>>
  BY <1>2 DEF nodeVars
<1>4. lastMc \in Nat /\ lastMc <= lastMc' /\ mc[Server] \in Nat /\ mc[Server] <= lastMc /\ n \in Nat
  BY <1>2, NodesFacts DEF IInv, UserInv, NodeInv, ServerOk
<1>5. \A d \in Clients : sock'[d] = "playing" => sock[d] = "playing"
  BY <1>1, HeadOfReceived, RemovedDoNotPlay DEF SrvExecute, Acts, ExecuteJoin, ExecuteReady, ExecuteRequest
<1>6. \/ rcvd' = Tail(rcvd)
      \/ rcvd' = Append(Tail(rcvd), FromServer(nws)) /\ lastMc' = lastMc + 1
      \/ m.mc = mc[Server] /\ rcvd' = Append(Tail(rcvd), FromServer(tool))
  BY DEF SrvExecute, Acts, ExecuteJoin, ExecuteReady, ExecuteRequest
<1>7. /\ nws.type = "SYNC" /\ nws.step = n + 1 /\ nws.mc = mc[Server] /\ nws.new = lastMc + 1
      /\ tool.type = "TOOL" /\ tool.step = n + 1 /\ tool.mc = m.mc
      /\ tool.chk = ChecklistAt(world[Server], n)
  BY DEF SyncMsg, ToolMsg
<1> HIDE DEF nws, tool, m, c
<1>8. FromServer(nws).msg = nws /\ FromServer(tool).msg = tool
  BY DEF FromServer
<1>9. CASE rcvd' = Tail(rcvd)
  <2>1. \A i \in DOMAIN rcvd' : \E j \in DOMAIN rcvd : rcvd'[i] = rcvd[j]
    BY <1>1, <1>9, ReceivedElements
  <2> QED BY <1>1, <1>3, <1>4, <1>5, <2>1, QuietServer
<1>10. CASE rcvd' = Append(Tail(rcvd), FromServer(nws)) /\ lastMc' = lastMc + 1
  <2>1. \A i \in DOMAIN rcvd' : (\E j \in DOMAIN rcvd : rcvd'[i] = rcvd[j]) \/ rcvd'[i].msg = nws
    BY <1>1, <1>8, <1>10, ReceivedElements
  <2>2. Expected(nws, n, mc[Server], world[Server], lastMc')
    BY <1>4, <1>7, <1>10 DEF Expected
  <2> QED BY <1>1, <1>3, <1>4, <1>5, <1>7, <2>1, <2>2, QuietServer
<1>11. CASE m.mc = mc[Server] /\ rcvd' = Append(Tail(rcvd), FromServer(tool))
  <2>1. \A i \in DOMAIN rcvd' : (\E j \in DOMAIN rcvd : rcvd'[i] = rcvd[j]) \/ rcvd'[i].msg = tool
    BY <1>1, <1>8, <1>11, ReceivedElements
  <2>2. Expected(tool, n, mc[Server], world[Server], lastMc')
    <3>1. (n + 1) - 1 = n
      BY <1>4
    <3> QED BY <1>4, <1>7, <1>11, <3>1 DEF Expected
  <2> QED BY <1>1, <1>3, <1>4, <1>5, <1>7, <1>11, <2>1, <2>2, QuietServer
<1> QED BY <1>6, <1>9, <1>10, <1>11

-----------------------------------------------------------------------------
(* What every message that was received says *)

LEMMA OfReceived ==
  ASSUME IInv, ServerOk, NEW i \in DOMAIN rcvd
  PROVE  /\ rcvd[i] \in Received
         /\ rcvd[i].msg.type # "CHECK"
         /\ Expected(rcvd[i].msg, sync[Server], mc[Server], world[Server], lastMc)
         /\ Acts(rcvd[i].msg) => /\ stage # "run" /\ (SomePlaying => rcvd[i].msg.mc = mc[Server])
                                 /\ rcvd[i].msg \in WorldCommand
<1>1. rcvd[i] \in Received
  BY DownTypes, ElementOfSeq DEF IInv, ServerInv, ReceivedTo
<1>2. \A m \in Ready \cup Request \cup {JoinMsg} : ~Acts(m)
  BY DEF Ready, Request, JoinMsg, Acts
<1>3. Acts(rcvd[i].msg) => rcvd[i].msg \in WorldCommand
  BY <1>1, <1>2 DEF Received
<1> QED BY <1>1, <1>3 DEF ServerOk

(* The head of the received commands *)
LEMMA HeadExpected ==
  ASSUME IInv, ServerOk, rcvd # <<>>
  PROVE  /\ Head(rcvd) = rcvd[1] /\ 1 \in DOMAIN rcvd
         /\ Head(rcvd).msg.type # "CHECK"
         /\ Expected(Head(rcvd).msg, sync[Server], mc[Server], world[Server], lastMc)
         /\ Acts(Head(rcvd).msg) => /\ stage # "run" /\ (SomePlaying => Head(rcvd).msg.mc = mc[Server])
                                    /\ Head(rcvd).msg \in WorldCommand
<1>1. Head(rcvd) = rcvd[1] /\ 1 \in DOMAIN rcvd
  BY DEF IInv, ServerInv
<1> QED BY <1>1, OfReceived

(* What the server has in its queue *)
LEMMA OfQueue ==
  ASSUME IInv, ServerOk, NEW i \in DOMAIN cmdQ[Server]
  PROVE  /\ cmdQ[Server][i] \in WorldCommand
         /\ Queued(cmdQ[Server][i], sync[Server], mc[Server], world[Server], lastMc)
<1>1. cmdQ[Server][i] \in WorldCommand
  BY NodesFacts, ElementOfSeq DEF IInv, NodeInv
<1> QED BY <1>1 DEF ServerOk

(* The world command at the head is not late; it goes to the end of the queue, if it is for the map *)
(* counter of the server                                                                           *)
LEMMA WorldCommandEffect ==
  ASSUME IInv, ServerOk, rcvd # <<>>, Acts(Head(rcvd).msg), ExecuteWorldCommand(Head(rcvd).msg)
  PROVE  /\ rcvd' = Tail(rcvd) /\ phase' = phase
         /\ Head(rcvd).msg.mc = mc[Server] => cmdQ'[Server] = Append(cmdQ[Server], Head(rcvd).msg)
         /\ Head(rcvd).msg.mc # mc[Server] => cmdQ' = cmdQ
<1> DEFINE m == Head(rcvd).msg
           q == cmdQ[Server]
<1>1. m \in WorldCommand /\ Expected(m, sync[Server], mc[Server], world[Server], lastMc) /\ Acts(m)
  BY HeadExpected
<1>2. /\ sync[Server] \in Nat /\ q \in Seq(WorldCommand) /\ Server \in Nodes
      /\ cmdQ \in [Nodes -> Seq(WorldCommand)]
  BY NodesFacts DEF IInv, NodeInv
<1>3. m.step = sync[Server] + 1
  BY <1>1 DEF Expected
<1>4. ~(m.step < sync[Server])
  BY <1>2, <1>3
<1>5. \A i \in DOMAIN q : q[i].step <= m.step
  BY <1>3, OfQueue DEF Queued
<1>6. Insert(q, m) = Append(q, m)
  BY <1>1, <1>2, <1>5, InsertLast
<1> HIDE DEF m
<1>7. /\ rcvd' = Tail(rcvd) /\ phase' = phase
      /\ cmdQ' = IF m.mc = mc[Server] THEN [cmdQ EXCEPT ![Server] = Insert(@, m)] ELSE cmdQ
  BY <1>4 DEF ExecuteWorldCommand, m
<1> QED BY <1>2, <1>6, <1>7 DEF m

LEMMA WorldCommandServer ==
  ASSUME IInv, IInv', ServerOk, rcvd # <<>>, Acts(Head(rcvd).msg), ExecuteWorldCommand(Head(rcvd).msg),
         stage' = "execute"
  PROVE  ServerOk'
<1> DEFINE m == Head(rcvd).msg
           q == cmdQ[Server]
<1>1. UNCHANGED <<sync, mc, world, sock, lastMc>>
  BY DEF ExecuteWorldCommand, sockVars, userVars
<1>2. m \in WorldCommand /\ Expected(m, sync[Server], mc[Server], world[Server], lastMc) /\ Acts(m)
  BY HeadExpected
<1>3. sync[Server] \in Nat /\ q \in Seq(WorldCommand)
  BY NodesFacts DEF IInv, NodeInv
<1>4. m.mc = mc[Server] => Queued(m, sync[Server], mc[Server], world[Server], lastMc)
  BY <1>2, <1>3 DEF Expected, Queued
<1>5. \A i \in DOMAIN q : Queued(q[i], sync[Server], mc[Server], world[Server], lastMc)
  BY OfQueue
<1>6. /\ rcvd' = Tail(rcvd) /\ phase' = phase
      /\ m.mc = mc[Server] => cmdQ'[Server] = Append(q, m)
      /\ m.mc # mc[Server] => cmdQ' = cmdQ
  BY WorldCommandEffect
<1> HIDE DEF m, q
<1>7. \A i \in DOMAIN cmdQ'[Server] :
         Queued(cmdQ'[Server][i], sync[Server], mc[Server], world[Server], lastMc)
  <2>1. CASE m.mc = mc[Server]
    <3>1. \A i \in DOMAIN Append(q, m) : (i \in DOMAIN q /\ Append(q, m)[i] = q[i]) \/ Append(q, m)[i] = m
      BY <1>3, AppendElements
    <3> QED BY <1>4, <1>5, <1>6, <2>1, <3>1
  <2>2. CASE m.mc # mc[Server]
    BY <1>5, <1>6, <2>2 DEF q
  <2> QED BY <2>1, <2>2
<1>8. \A i \in DOMAIN rcvd' : \E j \in DOMAIN rcvd : rcvd'[i] = rcvd[j]
  BY <1>6, ReceivedElements
<1>9. SomePlaying' = SomePlaying
  BY <1>1 DEF SomePlaying
<1>10. \A i \in DOMAIN rcvd' :
       /\ rcvd'[i].msg.type # "CHECK"
       /\ Expected(rcvd'[i].msg, sync[Server], mc[Server], world[Server], lastMc)
       /\ Acts(rcvd'[i].msg) => stage' # "run" /\ (SomePlaying' => rcvd'[i].msg.mc = mc[Server])
  BY <1>8, <1>9 DEF ServerOk
<1>11. phase[Server] = "run" /\ mc[Server] <= lastMc
  BY DEF ServerOk
<1> QED BY <1>1, <1>6, <1>7, <1>10, <1>11 DEF ServerOk

(* A sync at the server, when nothing waits that it has to forget *)
LEMMA SyncIsOk ==
  ASSUME IInv, IInv', ServerOk, NEW id, NEW new \in Nat, SyncServer(id, new),
         mc[Server] < new, new <= lastMc', lastMc <= lastMc', stage = "run" \/ SomePlaying' = FALSE
  PROVE  ServerOk'
<1>1. UNCHANGED <<phase, sync, stage, rcvd>>
  BY DEF SyncServer
<1>2. cmdQ'[Server] = <<>> /\ mc'[Server] = new
  BY NodesFacts DEF SyncServer, LoadServer, IInv, NodeInv
<1>3. lastMc \in Nat /\ lastMc' \in Nat /\ mc[Server] \in Nat
  BY NodesFacts DEF IInv, UserInv, NodeInv
<1>4. ASSUME NEW i \in DOMAIN rcvd
      PROVE  /\ rcvd[i].msg.type # "CHECK"
             /\ Expected(rcvd[i].msg, sync[Server], new, world'[Server], lastMc')
             /\ Acts(rcvd[i].msg) => stage # "run"
  <2> DEFINE m == rcvd[i].msg
  <2>1. /\ m.type # "CHECK" /\ Expected(m, sync[Server], mc[Server], world[Server], lastMc)
        /\ Acts(m) => m \in WorldCommand /\ stage # "run"
    BY OfReceived
  <2>2. ASSUME Acts(m) PROVE m.mc \in Nat /\ (m.type = "SYNC" => m.new \in Nat)
    BY <2>1, <2>2 DEF WorldCommand
  <2> HIDE DEF m
  <2>3. Acts(m) => m.step = sync[Server] + 1 /\ m.mc <= new /\ m.mc # new
                   /\ (m.type = "SYNC" => m.mc < m.new /\ m.new <= lastMc')
    BY <1>3, <2>1, <2>2 DEF Expected
  <2> QED BY <2>1, <2>3 DEF Expected, m
<1>5. \A i \in DOMAIN cmdQ'[Server] : FALSE
  BY <1>2
<1>6. phase[Server] = "run" /\ \A i \in DOMAIN rcvd : Acts(rcvd[i].msg) => ~SomePlaying'
  BY <1>4 DEF ServerOk
<1> QED BY <1>1, <1>2, <1>4, <1>5, <1>6 DEF ServerOk

(* The checklist of a step does not change with what is executed in it *)
LEMMA ChecklistKept ==
  ASSUME NEW w \in World, NEW e \in Entry, NEW s \in Int, s <= e.step
  PROVE  ChecklistAt(Append(w, e), s) = ChecklistAt(w, s)
<1>1. w \in Seq(Entry)
  BY DEF World
<1>2. e.step \in Nat
  BY DEF Entry
<1> DEFINE v == Append(w, e)
<1>3. /\ DOMAIN w = 1..Len(w) /\ DOMAIN v = 1..(Len(w) + 1) /\ Len(w) \in Nat
      /\ v[Len(w) + 1] = e /\ \A i \in 1..Len(w) : v[i] = w[i]
  BY <1>1
<1>4. \A i \in 1..(Len(w) + 1) : i \in 1..Len(w) \/ i = Len(w) + 1
  BY <1>3
<1> HIDE DEF v
<1>5. {j \in DOMAIN v : v[j].step < s} = {j \in DOMAIN w : w[j].step < s}
  BY <1>2, <1>3, <1>4
<1>6. \A j \in {j \in DOMAIN w : w[j].step < s} : v[j] = w[j]
  BY <1>3
<1> QED BY <1>5, <1>6 DEF ChecklistAt, v

(* The command that is due at the server is for its map counter and for this very step, so it is *)
(* executed: nothing is dropped and the server never loses synchronisation with itself           *)
LEMMA DueAtServer ==
  ASSUME IInv, ServerOk, Due(Server)
  PROVE  LET m == Head(cmdQ[Server]) IN
         /\ m \in WorldCommand /\ m = cmdQ[Server][1] /\ cmdQ[Server] # <<>>
         /\ m.step = sync[Server] /\ m.mc = mc[Server] /\ Acts(m)
         /\ Queued(m, sync[Server], mc[Server], world[Server], lastMc)
         /\ ~Late(Server, m) /\ ~Foreign(Server, m) /\ ~WrongChecklist(Server, m)
<1> DEFINE m == Head(cmdQ[Server])
<1>1. cmdQ[Server] # <<>> /\ m.step <= sync[Server]
  BY DEF Due
<1>2. m = cmdQ[Server][1] /\ 1 \in DOMAIN cmdQ[Server]
  BY <1>1, NodesFacts DEF IInv, NodeInv
<1>3. m \in WorldCommand /\ Queued(m, sync[Server], mc[Server], world[Server], lastMc)
  BY <1>2, OfQueue
<1>4. m.step \in Nat /\ sync[Server] \in Nat
  BY <1>3, NodesFacts DEF WorldCommand, IInv, NodeInv
<1> HIDE DEF m
<1>5. m.step = sync[Server] /\ m.mc = mc[Server] /\ Acts(m)
  BY <1>1, <1>3, <1>4 DEF Queued
<1>6. ~Late(Server, m) /\ ~Foreign(Server, m) /\ ~WrongChecklist(Server, m)
  BY <1>3, <1>4, <1>5 DEF Late, Foreign, WrongChecklist, Queued, Acts
<1> QED BY <1>1, <1>2, <1>3, <1>5, <1>6 DEF m

(* What the server executes *)
LEMMA DrainEffect ==
  ASSUME IInv, ServerOk, SrvDrain
  PROVE  LET m == Head(cmdQ[Server]) IN
         \/ /\ m.type = "TOOL" /\ Execute(Server, m) /\ cmdQ' = [cmdQ EXCEPT ![Server] = Tail(@)]
            /\ UNCHANGED <<phase, sync, mc, barrier, serverVars, sockVars, userVars>>
         \/ /\ m.type = "SYNC" /\ SyncServer(m.id, m.new) /\ UNCHANGED userVars
            /\ m.new \in Nat /\ mc[Server] < m.new /\ m.new <= lastMc
<1> DEFINE m == Head(cmdQ[Server])
<1>1. /\ m \in WorldCommand /\ Queued(m, sync[Server], mc[Server], world[Server], lastMc)
      /\ ~Late(Server, m) /\ ~Foreign(Server, m) /\ ~WrongChecklist(Server, m)
  BY DueAtServer DEF SrvDrain
<1>2. m.type = "SYNC" => m.new \in Nat
  BY <1>1 DEF WorldCommand
<1> HIDE DEF m
<1>3. m.type = "SYNC" => mc[Server] < m.new /\ m.new <= lastMc
  BY <1>1 DEF Queued
<1> QED BY <1>1, <1>2, <1>3 DEF SrvDrain, m

LEMMA DrainServer ==
  ASSUME IInv, IInv', ServerOk, SrvDrain
  PROVE  ServerOk'
<1> DEFINE m == Head(cmdQ[Server])
           q == cmdQ[Server]
<1>1. /\ m \in WorldCommand /\ q # <<>> /\ m.step = sync[Server] /\ stage = "run"
      /\ q \in Seq(WorldCommand) /\ Server \in Nodes /\ world[Server] \in World
      /\ sync[Server] \in Nat /\ lastMc \in Nat /\ cmdQ \in [Nodes -> Seq(WorldCommand)]
      /\ world \in [Nodes -> World]
  BY DueAtServer, NodesFacts DEF SrvDrain, IInv, NodeInv, UserInv
<1>2. CASE m.type = "SYNC" /\ SyncServer(m.id, m.new) /\ UNCHANGED userVars
  <2>1. m.new \in Nat /\ mc[Server] < m.new /\ m.new <= lastMc
    BY <1>2, DrainEffect
  <2>2. lastMc' = lastMc /\ lastMc <= lastMc'
    BY <1>1, <1>2 DEF userVars
  <2> HIDE DEF m
  <2> QED BY <1>1, <1>2, <2>1, <2>2, SyncIsOk
<1>3. CASE /\ m.type = "TOOL" /\ Execute(Server, m) /\ cmdQ' = [cmdQ EXCEPT ![Server] = Tail(@)]
           /\ UNCHANGED <<phase, sync, mc, barrier, serverVars, sockVars, userVars>>
  <2> DEFINE e == [cmd |-> m.cmd, step |-> sync[Server]]
             w == Append(world[Server], e)
  <2>1. e \in Entry /\ e.step = sync[Server]
    BY <1>1, <1>3 DEF WorldCommand, Entry
  <2>2. world'[Server] = w /\ cmdQ'[Server] = Tail(q)
    BY <1>1, <1>3 DEF Execute
  <2>3. \A i \in DOMAIN Tail(q) : i + 1 \in DOMAIN q /\ Tail(q)[i] = q[i + 1]
    BY <1>1
  <2>4. ASSUME NEW i \in DOMAIN q PROVE Queued(q[i], sync[Server], mc[Server], w, lastMc)
    <3>1. q[i] \in WorldCommand /\ Queued(q[i], sync[Server], mc[Server], world[Server], lastMc)
      BY OfQueue
    <3>2. q[i].step \in Nat /\ q[i].step - 1 \in Int /\ q[i].step - 1 <= e.step
      BY <1>1, <2>1, <3>1 DEF WorldCommand, Queued
    <3> HIDE DEF e
    <3>3. ChecklistAt(w, q[i].step - 1) = ChecklistAt(world[Server], q[i].step - 1)
      BY <1>1, <2>1, <3>2, ChecklistKept
    <3> QED BY <3>1, <3>3 DEF Queued
  <2>5. UNCHANGED <<rcvd, stage, sock, lastMc>>
    BY <1>3 DEF serverVars, sockVars, userVars
  <2>6. SomePlaying' = SomePlaying
    BY <2>5 DEF SomePlaying
  <2> HIDE DEF w, e, m, q
  <2>7. \A i \in DOMAIN cmdQ'[Server] : Queued(cmdQ'[Server][i], sync[Server], mc[Server], w, lastMc)
    BY <2>2, <2>3, <2>4
  <2>8. \A i \in DOMAIN rcvd : rcvd[i].msg.type # "CHECK" /\ ~Acts(rcvd[i].msg)
    BY <1>1 DEF ServerOk
  <2> QED BY <1>3, <2>2, <2>5, <2>7, <2>8 DEF ServerOk, Expected
<1> QED BY <1>2, <1>3, DrainEffect

LEMMA StepServer ==
  ASSUME IInv, IInv', ServerOk, Sorted(cmdQ[Server]), SrvStep
  PROVE  /\ ServerOk' /\ \A i \in DOMAIN cmdQ[Server] : cmdQ[Server][i].step = sync[Server] + 1
         /\ \A i \in DOMAIN rcvd : ~Acts(rcvd[i].msg)
<1> DEFINE q == cmdQ[Server]
           n == sync[Server]
<1>1. /\ stage = "run" /\ ~Due(Server) /\ sync' = [sync EXCEPT ![Server] = n + 1]
      /\ UNCHANGED <<phase, mc, world, cmdQ, rcvd, sock, lastMc>>
  BY DEF SrvStep, userVars
<1>2. n \in Nat /\ sync'[Server] = n + 1 /\ q \in Seq(WorldCommand)
  BY <1>1, NodesFacts DEF IInv, NodeInv
<1>3. ASSUME NEW i \in DOMAIN q PROVE q[i].step = n + 1 /\ Queued(q[i], n + 1, mc[Server], world[Server], lastMc)
  <2>1. /\ q[i] \in WorldCommand /\ Queued(q[i], n, mc[Server], world[Server], lastMc)
        /\ q # <<>> /\ Head(q) = q[1] /\ 1 \in DOMAIN q /\ q[1] \in WorldCommand
    BY <1>2, OfQueue, ElementOfSeq
  <2>2. q[i].step \in Nat /\ q[1].step \in Nat
    BY <2>1 DEF WorldCommand
  <2>3. ~(q[1].step <= n)
    BY <1>1, <2>1 DEF Due
  <2>4. q[1].step <= q[i].step
    <3>1. i = 1 \/ 1 < i
      BY <1>2
    <3> QED BY <2>1, <2>2, <3>1 DEF Sorted
  <2>5. q[i].step = n + 1
    BY <1>2, <2>1, <2>2, <2>3, <2>4 DEF Queued
  <2> QED BY <1>2, <2>1, <2>5 DEF Queued
<1>4. \A i \in DOMAIN rcvd : rcvd[i].msg.type # "CHECK" /\ ~Acts(rcvd[i].msg)
  BY <1>1 DEF ServerOk
<1>5. phase[Server] = "run" /\ mc[Server] <= lastMc
  BY DEF ServerOk
<1> HIDE DEF q
<1> QED BY <1>1, <1>2, <1>3, <1>4, <1>5 DEF ServerOk, Expected, q

LEMMA NobodyAtSlotZero ==
  ASSUME IInv, \A e \in Clients : SockFine(e)
  PROVE  Occupant(0) = {}
<1>1. ASSUME NEW c \in Clients, Open(c) PROVE slot[c] # 0
  <2>1. SockFine(c)
    OBVIOUS
  <2>2. slot[c] > 0
    BY <1>1, <2>1 DEF SockFine
  <2> QED BY <2>2
<1> QED BY <1>1 DEF Occupant

(* A sync that an administrator forces on a paused server *)
LEMMA ForcedSyncAlone ==
  ASSUME IInv, \A e \in Clients : SockFine(e), NEW new, SyncServer(0, new), NumPlaying = 0
  PROVE  ~SomePlaying /\ SomePlaying' = FALSE /\ sock' = sock /\ down' = down
<1>1. Occupant(0) = {}
  BY NobodyAtSlotZero
<1>2. ~SomePlaying
  BY NobodyPlays DEF SomePlaying
<1>3. sock \in [Clients -> {"none", "backlog", "connected", "playing", "kicked"}]
      /\ down \in [Clients -> Seq(DownMsgTo(sync[Server]))]
  BY DEF IInv, SockInv
<1>4. sock' = sock
  BY <1>1, <1>3 DEF SyncServer
<1>5. down' = down
  <2> DEFINE more == <<GameMsg(NetworkSave), ReadyMsg(sync[Server], new, ChecklistAt(NetworkSave, sync[Server]))>>
  <2>1. down' = [c \in Clients |-> IF c \in Occupant(0) /\ ~Gone(c) THEN down[c] \o more ELSE down[c]]
    BY DEF SyncServer
  <2> HIDE DEF more
  <2> QED BY <1>1, <1>3, <2>1
<1>6. SomePlaying' = SomePlaying
  BY <1>4 DEF SomePlaying
<1> QED BY <1>2, <1>4, <1>5, <1>6 DEF SomePlaying

LEMMA ForceServer ==
  ASSUME IInv, IInv', ServerOk, \A e \in Clients : SockFine(e), SrvForceSync
  PROVE  ServerOk'
<1> DEFINE nws == SyncMsg(sync[Server] + 1, mc[Server], 0, lastMc + 1)
<1>1. lastMc' = lastMc + 1 /\ lastMc \in Nat /\ mc[Server] \in Nat /\ mc[Server] <= lastMc
  BY NodesFacts DEF SrvForceSync, IInv, UserInv, NodeInv, ServerOk
<1>2. CASE SyncServer(0, lastMc + 1) /\ NumPlaying = 0
  <2>1. SomePlaying' = FALSE
    BY <1>2, ForcedSyncAlone
  <2>2. lastMc + 1 \in Nat /\ mc[Server] < lastMc + 1 /\ lastMc + 1 <= lastMc' /\ lastMc <= lastMc'
    BY <1>1
  <2> QED BY <1>2, <2>1, <2>2, SyncIsOk
<1>3. CASE rcvd' = Append(rcvd, FromServer(nws)) /\ UNCHANGED <<nodeVars, stage, sock>>
  <2>1. UNCHANGED <<phase, sync, mc, world, cmdQ, stage, sock>> /\ stage # "run"
    BY <1>3 DEF nodeVars, SrvForceSync
  <2>2. /\ nws.type = "SYNC" /\ nws.step = sync[Server] + 1 /\ nws.mc = mc[Server] /\ nws.new = lastMc + 1
    BY DEF SyncMsg
  <2>3. FromServer(nws).msg = nws
    BY DEF FromServer
  <2> HIDE DEF nws
  <2>4. Expected(nws, sync[Server], mc[Server], world[Server], lastMc')
    BY <1>1, <2>2 DEF Expected
  <2>5. \A i \in DOMAIN rcvd' : (\E j \in DOMAIN rcvd : rcvd'[i] = rcvd[j]) \/ rcvd'[i].msg = nws
    BY <1>3, <2>3, ReceivedElements
  <2>6. lastMc <= lastMc'
    BY <1>1
  <2> QED BY <2>1, <2>2, <2>4, <2>5, <2>6, QuietServer
<1> QED BY <1>2, <1>3 DEF SrvForceSync

LEMMA ToolServer ==
  ASSUME IInv, IInv', ServerOk, SrvTool
  PROVE  ServerOk'
<1> DEFINE r == RequestMsg(sync[Server], mc[Server], lastCmd + 1, ChecklistAt(world[Server], sync[Server]))
<1>1. UNCHANGED <<phase, sync, mc, world, cmdQ, stage, sock, lastMc>> /\ rcvd' = Append(rcvd, FromServer(r))
  BY DEF SrvTool, nodeVars, sockVars
<1>2. r.type = "REQUEST" /\ FromServer(r).msg = r
  BY DEF RequestMsg, FromServer
<1> HIDE DEF r
<1>3. \A i \in DOMAIN rcvd' : (\E j \in DOMAIN rcvd : rcvd'[i] = rcvd[j]) \/ rcvd'[i].msg = r
  BY <1>1, <1>2, ReceivedElements
<1>4. ~Acts(r) /\ r.type # "CHECK"
  BY <1>2 DEF Acts
<1>5. stage' = "run" => \A i \in DOMAIN rcvd' : ~Acts(rcvd'[i].msg)
  BY <1>1, <1>3, <1>4 DEF ServerOk
<1>6. lastMc <= lastMc'
  BY <1>1 DEF IInv, UserInv
<1> QED BY <1>1, <1>3, <1>4, <1>5, <1>6, QuietServer DEF Expected

(* The programs of the clients do not reach into the server *)
LEMMA ClientKeepsServer ==
  ASSUME IInv, NEW c \in Clients, ClientNext(c)
  PROVE  /\ phase'[Server] = phase[Server] /\ sync'[Server] = sync[Server] /\ mc'[Server] = mc[Server]
         /\ world'[Server] = world[Server] /\ cmdQ'[Server] = cmdQ[Server]
<1>1. /\ phase \in [Nodes -> {"out", "join", "sync", "game", "pause", "run", "desync"}]
      /\ sync \in [Nodes -> Nat] /\ mc \in [Nodes -> Nat] /\ world \in [Nodes -> World]
      /\ cmdQ \in [Nodes -> Seq(WorldCommand)] /\ c \in Nodes /\ Server \in Nodes /\ c # Server
  BY NodesFacts DEF IInv, NodeInv
<1>2. \A to : Disconnect(c, to) => phase'[Server] = phase[Server] /\ cmdQ'[Server] = cmdQ[Server]
  BY <1>1 DEF Disconnect
<1>3. CASE CliConnect(c)
  BY <1>1, <1>3 DEF CliConnect
<1>4. CASE CliReceive(c)
  <2> DEFINE m == Head(down[c])
  <2>1. CASE JoinStep(c, m)
    <3> HIDE DEF m
    <3>1. \/ \E to : Disconnect(c, to) /\ UNCHANGED <<sync, mc, world>>
          \/ cmdQ' = cmdQ /\ (phase' = phase \/ \E p : phase' = [phase EXCEPT ![c] = p])
             /\ (mc' = mc \/ mc' = [mc EXCEPT ![c] = m.new])
             /\ (world' = world \/ world' = [world EXCEPT ![c] = m.world])
             /\ (sync' = sync \/ sync' = [sync EXCEPT ![c] = 0])
      BY <2>1 DEF JoinStep
    <3> QED BY <1>1, <1>2, <3>1
  <2>2. CASE GameStep(c, m)
    <3> DEFINE q == IF m.step < sync[c] THEN cmdQ[c] ELSE Insert(cmdQ[c], m)
               q2 == Insert(cmdQ[c], m)
    <3>1. \/ \E to : Disconnect(c, to) /\ sync' = sync
          \/ cmdQ' = cmdQ /\ phase' = phase /\ sync' = sync
          \/ cmdQ' = cmdQ /\ phase' = [phase EXCEPT ![c] = "run"] /\ sync' = [sync EXCEPT ![c] = m.step]
          \/ phase' = phase /\ sync' = sync /\ cmdQ' = [cmdQ EXCEPT ![c] = q]
          \/ phase' = phase /\ sync' = sync /\ cmdQ' = [cmdQ EXCEPT ![c] = q2]
      BY <2>2 DEF GameStep
    <3>2. UNCHANGED <<mc, world>>
      BY <2>2 DEF GameStep
    <3> HIDE DEF m, q, q2
    <3> QED BY <1>1, <1>2, <3>1, <3>2
  <2> HIDE DEF m
  <2> QED BY <1>4, <2>1, <2>2 DEF CliReceive, m
<1>5. CASE CliDrain(c)
  <2>1. \/ \E to : Disconnect(c, to) /\ UNCHANGED <<sync, mc, world>>
        \/ cmdQ' = [cmdQ EXCEPT ![c] = Tail(@)] /\ UNCHANGED <<phase, sync, mc, world>>
        \/ cmdQ' = [cmdQ EXCEPT ![c] = Tail(@)] /\ UNCHANGED <<phase, sync, mc>> /\ \E m : Execute(c, m)
        \/ \E m : SyncClient(c, m)
    BY <1>5 DEF CliDrain
  <2> QED BY <1>1, <1>2, <2>1 DEF Execute, SyncClient
<1>6. CASE CliStep(c) \/ CliTool(c) \/ CliLeave(c)
  BY <1>1, <1>2, <1>6 DEF CliStep, CliTool, CliLeave, nodeVars
<1> QED BY <1>3, <1>4, <1>5, <1>6 DEF ClientNext

LEMMA ServerOkStep ==
  ASSUME IInv, IInv', ServerOk, \A e \in Clients : SockFine(e), Sorted(cmdQ[Server]), [Next]_vars
  PROVE  ServerOk'
<1>1. lastMc <= lastMc
  BY DEF IInv, UserInv
<1>2. CASE SrvExecute
  <2>1. rcvd # <<>> /\ stage' = "execute"
    BY <1>2 DEF SrvExecute
  <2>2. CASE ~Acts(Head(rcvd).msg)
    BY <1>2, <2>2, ExecuteServer
  <2>3. CASE Acts(Head(rcvd).msg)
    <3>1. ExecuteWorldCommand(Head(rcvd).msg)
      BY <1>2, <2>3 DEF SrvExecute, Acts
    <3> QED BY <2>1, <2>3, <3>1, WorldCommandServer
  <2> QED BY <2>2, <2>3
<1>3. CASE SrvSend \/ SrvLoop
  <2>1. UNCHANGED <<phase, sync, mc, world, cmdQ, rcvd, sock, lastMc>>
    BY <1>3 DEF SrvSend, SrvLoop, nodeVars, sockVars, userVars
  <2>2. stage' = "run" => \A i \in DOMAIN rcvd : ~Acts(rcvd[i].msg)
    BY <1>3 DEF SrvSend, SrvLoop, AllExecuted, Acts
  <2>3. \A i \in DOMAIN rcvd' : \E j \in DOMAIN rcvd : rcvd'[i] = rcvd[j]
    BY <2>1
  <2> QED BY <1>1, <2>1, <2>2, <2>3, QuietServer
<1>4. ASSUME NEW c \in Clients, SrvAccept(c) PROVE ServerOk'
  <2>1. UNCHANGED <<phase, sync, mc, world, cmdQ, rcvd, stage, lastMc>> /\ stage = "receive"
    BY <1>4 DEF SrvAccept, nodeVars, serverVars, userVars
  <2>2. \A d \in Clients : sock'[d] = "playing" => sock[d] = "playing"
    BY <1>4 DEF SrvAccept, IInv, SockInv
  <2> QED BY <1>1, <2>1, <2>2, QuietServer
<1>5. ASSUME NEW c \in Clients, ClientNext(c) PROVE ServerOk'
  <2>1. UNCHANGED serverVars
    BY <1>5 DEF ClientNext, CliConnect, CliReceive, CliDrain, CliStep, CliTool, CliLeave
  <2>2. sock' = sock \/ sock' = [sock EXCEPT ![c] = "backlog"]
    BY <1>5 DEF ClientNext, CliConnect, CliReceive, CliDrain, CliStep, CliTool, CliLeave, sockVars
  <2>3. \A d \in Clients : sock'[d] = "playing" => sock[d] = "playing"
    BY <2>2 DEF IInv, SockInv
  <2>4. UNCHANGED lastMc
    BY <1>5 DEF ClientNext, CliConnect, CliReceive, CliDrain, CliStep, CliTool, CliLeave, userVars
  <2>5. /\ phase'[Server] = phase[Server] /\ sync'[Server] = sync[Server] /\ mc'[Server] = mc[Server]
        /\ world'[Server] = world[Server] /\ cmdQ'[Server] = cmdQ[Server]
    BY <1>5, ClientKeepsServer
  <2>6. stage' = "run" => \A i \in DOMAIN rcvd' : ~Acts(rcvd'[i].msg)
    BY <2>1 DEF serverVars, ServerOk
  <2> QED BY <1>1, <2>1, <2>3, <2>4, <2>5, <2>6, QuietServer DEF serverVars
<1>6. CASE UNCHANGED vars
  <2>1. UNCHANGED <<phase, sync, mc, world, cmdQ, rcvd, stage, sock, lastMc>>
    BY <1>6 DEF vars, nodeVars, serverVars, sockVars, userVars
  <2>2. stage' = "run" => \A i \in DOMAIN rcvd' : ~Acts(rcvd'[i].msg)
    BY <2>1 DEF ServerOk
  <2> QED BY <1>1, <2>1, <2>2, QuietServer
<1> QED BY <1>2, <1>3, <1>4, <1>5, <1>6, ReceiveServer, DrainServer, StepServer, ForceServer, ToolServer
    DEF Next, ServerNext

-----------------------------------------------------------------------------
(* What the server will have made of its world when everything it knows of is executed *)

Msgs(r) == [i \in DOMAIN r |-> r[i].msg]
St(p) == [world |-> world[p], mc |-> mc[p]]
ServerStream == cmdQ[Server] \o Msgs(rcvd)
ServerEnd == Outcome(ServerStream, St(Server))

LEMMA MessagesAre ==
  /\ WorldCommand \subseteq Message /\ DownMsg \subseteq Message /\ UpMsg \subseteq Message
  /\ Broadcast \subseteq Message
  /\ \A r \in Received : r.msg \in Message
<1>1. \A m \in DownMsg \cup UpMsg : Acts(m) => m \in WorldCommand
  BY DEF DownMsg, UpMsg, Broadcast, WorldCommand, Ready, Request, JoinMsg, EofMsg, Acts
<1>2. WorldCommand \subseteq Message /\ DownMsg \subseteq Message /\ UpMsg \subseteq Message
  BY <1>1 DEF Message
<1>3. Broadcast \subseteq DownMsg /\ Ready \cup Request \cup {JoinMsg} \subseteq UpMsg
  BY DEF DownMsg, UpMsg
<1>4. \A r \in Received : r.msg \in Ready \cup Request \cup {JoinMsg} \cup WorldCommand
  BY DEF Received
<1> QED BY <1>2, <1>3, <1>4

LEMMA StreamTypes ==
  ASSUME IInv
  PROVE  /\ \A p \in Nodes : cmdQ[p] \in Seq(Message) /\ St(p) \in Game
         /\ \A c \in Clients : down[c] \in Seq(Message) /\ sendq[c] \in Seq(Message)
         /\ rcvd \in Seq(Received) /\ Msgs(rcvd) \in Seq(Message) /\ Len(Msgs(rcvd)) = Len(rcvd)
         /\ ServerStream \in Seq(Message) /\ ServerEnd \in Game
<1>1. \A p \in Nodes : cmdQ[p] \in Seq(Message)
  BY MessagesAre, SeqMonotonic DEF IInv, NodeInv
<1>2. \A p \in Nodes : St(p) \in Game
  BY DEF St, Game, IInv, NodeInv
<1>3. \A c \in Clients : down[c] \in Seq(Message) /\ sendq[c] \in Seq(Message)
  BY DownTypes, MessagesAre, SeqMonotonic
<1>4. rcvd \in Seq(Received)
  BY SeqMonotonic DEF IInv, ServerInv, ReceivedTo
<1>5. Msgs(rcvd) \in Seq(Message) /\ Len(Msgs(rcvd)) = Len(rcvd)
  <2>1. \A i \in 1..Len(rcvd) : rcvd[i].msg \in Message
    BY <1>4, MessagesAre
  <2>2. DOMAIN rcvd = 1..Len(rcvd) /\ Len(rcvd) \in Nat
    BY <1>4
  <2> QED BY <2>1, <2>2 DEF Msgs
<1>6. ServerStream \in Seq(Message)
  BY <1>1, <1>5, NodesFacts, SMTT(40) DEF ServerStream
<1> QED BY <1>1, <1>2, <1>3, <1>4, <1>5, <1>6, NodesFacts, PlaysOnce DEF ServerEnd

LEMMA MsgsForms ==
  ASSUME NEW r \in Seq(Received)
  PROVE  /\ Msgs(r) \in Seq(Message)
         /\ \A x \in Received : Msgs(Append(r, x)) = Append(Msgs(r), x.msg)
         /\ r # <<>> => Msgs(r) = <<Head(r).msg>> \o Msgs(Tail(r)) /\ Head(r).msg \in Message
                        /\ Tail(r) \in Seq(Received)
<1>1. \A i \in 1..Len(r) : r[i].msg \in Message
  BY MessagesAre
<1>2. DOMAIN r = 1..Len(r) /\ Len(r) \in Nat
  OBVIOUS
<1>3. Msgs(r) \in Seq(Message) /\ Len(Msgs(r)) = Len(r) /\ DOMAIN Msgs(r) = 1..Len(r)
  BY <1>1, <1>2 DEF Msgs
<1>4. ASSUME NEW x \in Received PROVE Msgs(Append(r, x)) = Append(Msgs(r), x.msg)
  <2> DEFINE a == Append(r, x)
  <2>1. DOMAIN a = 1..(Len(r) + 1) /\ a[Len(r) + 1] = x /\ \A i \in 1..Len(r) : a[i] = r[i]
    OBVIOUS
  <2> HIDE DEF a
  <2>2. x.msg \in Message
    BY MessagesAre
  <2>3. Append(Msgs(r), x.msg) = [i \in 1..(Len(r) + 1) |-> IF i = Len(r) + 1 THEN x.msg ELSE r[i].msg]
    BY <1>2, <1>3, <2>2 DEF Msgs
  <2>4. Msgs(a) = [i \in 1..(Len(r) + 1) |-> a[i].msg]
    BY <2>1 DEF Msgs
  <2>5. \A i \in 1..(Len(r) + 1) : a[i].msg = IF i = Len(r) + 1 THEN x.msg ELSE r[i].msg
    BY <1>2, <2>1
  <2> QED BY <2>3, <2>4, <2>5 DEF a
<1>5. ASSUME r # <<>>
      PROVE  Msgs(r) = <<Head(r).msg>> \o Msgs(Tail(r)) /\ Head(r).msg \in Message
             /\ Tail(r) \in Seq(Received)
  <2> DEFINE t == Tail(r)
             h == Head(r)
  <2>1. t \in Seq(Received) /\ Len(t) = Len(r) - 1 /\ h = r[1] /\ \A i \in 1..Len(t) : t[i] = r[i + 1]
    BY <1>5
  <2>2. h.msg \in Message
    BY <1>1, <1>2, <1>5, <2>1
  <2> HIDE DEF t, h
  <2>3. Msgs(t) \in Seq(Message) /\ Len(Msgs(t)) = Len(t) /\ \A i \in 1..Len(t) : Msgs(t)[i] = t[i].msg
    <3>1. \A i \in 1..Len(t) : t[i].msg \in Message
      BY <2>1, MessagesAre
    <3>2. DOMAIN t = 1..Len(t) /\ Len(t) \in Nat
      BY <2>1
    <3> QED BY <3>1, <3>2 DEF Msgs
  <2> DEFINE u == <<h.msg>> \o Msgs(t)
  <2>4. u \in Seq(Message) /\ Len(u) = Len(t) + 1 /\ u[1] = h.msg /\ \A i \in 1..Len(t) : u[i + 1] = Msgs(t)[i]
    BY <2>2, <2>3
  <2> HIDE DEF u
  <2>5. \A i \in 1..Len(r) : u[i] = Msgs(r)[i]
    <3> TAKE i \in 1..Len(r)
    <3>1. Msgs(r)[i] = r[i].msg
      BY <1>2 DEF Msgs
    <3>2. CASE i = 1
      BY <2>1, <2>4, <3>1, <3>2
    <3>3. CASE i # 1
      <4>1. i - 1 \in 1..Len(t) /\ (i - 1) + 1 = i
        BY <1>2, <2>1, <3>3
      <4> QED BY <2>1, <2>3, <2>4, <3>1, <4>1
    <3> QED BY <3>2, <3>3
  <2>6. Len(u) = Len(r)
    BY <1>2, <2>1, <2>4
  <2>7. u = Msgs(r)
    BY <1>3, <2>4, <2>5, <2>6
  <2> QED BY <2>1, <2>2, <2>7 DEF u, t, h
<1> QED BY <1>3, <1>4, <1>5, ZenonT(60)

(* The head of what was received leaves without effect, and one message may join at the end *)
LEMMA EndStep ==
  ASSUME IInv, IInv', cmdQ'[Server] = cmdQ[Server], world'[Server] = world[Server], mc'[Server] = mc[Server],
         NEW rest, rest = rcvd \/ (rcvd # <<>> /\ ~Acts(Head(rcvd).msg) /\ rest = Tail(rcvd)), NEW x
  PROVE  /\ rcvd' = rest => ServerEnd' = ServerEnd
         /\ rcvd' = Append(rest, x) /\ x \in Received => ServerEnd' = PlayedOn(ServerEnd, x.msg)
<1> DEFINE q == cmdQ[Server]
           a == St(Server)
<1>1. q \in Seq(Message) /\ a \in Game /\ rcvd \in Seq(Received) /\ ServerEnd \in Game
  BY StreamTypes, NodesFacts
<1>2. ServerEnd = Outcome(Msgs(rcvd), Outcome(q, a)) /\ Outcome(q, a) \in Game
  <2>1. Msgs(rcvd) \in Seq(Message)
    BY <1>1, MsgsForms
  <2> QED BY <1>1, <2>1, OutcomeConcat, PlaysOnce DEF ServerEnd, ServerStream
<1>3. ServerEnd' = Outcome(q \o Msgs(rcvd'), a)
  BY DEF ServerEnd, ServerStream, St, Msgs
<1> HIDE DEF q, a
<1>4. rest \in Seq(Received) /\ Outcome(Msgs(rest), Outcome(q, a)) = ServerEnd
  <2>1. CASE rest = rcvd
    BY <1>1, <1>2, <2>1
  <2>2. CASE rcvd # <<>> /\ ~Acts(Head(rcvd).msg) /\ rest = Tail(rcvd)
    <3>1. /\ Msgs(rcvd) = <<Head(rcvd).msg>> \o Msgs(rest) /\ Head(rcvd).msg \in Message
          /\ rest \in Seq(Received) /\ Msgs(rest) \in Seq(Message)
      BY <1>1, <2>2, MsgsForms
    <3>2. Outcome(Msgs(rcvd), Outcome(q, a)) = Outcome(Msgs(rest), PlayedOn(Outcome(q, a), Head(rcvd).msg))
      BY <1>2, <3>1, OutcomeFirst
    <3> QED BY <1>2, <2>2, <3>1, <3>2, InertChangesNothing
  <2> QED BY <2>1, <2>2
<1>5. Msgs(rest) \in Seq(Message)
  BY <1>4, MsgsForms
<1>6. ASSUME rcvd' = rest PROVE ServerEnd' = ServerEnd
  BY <1>1, <1>3, <1>4, <1>5, <1>6, OutcomeConcat
<1>7. ASSUME rcvd' = Append(rest, x), x \in Received PROVE ServerEnd' = PlayedOn(ServerEnd, x.msg)
  <2>1. Msgs(rcvd') = Append(Msgs(rest), x.msg) /\ x.msg \in Message
    BY <1>4, <1>7, MsgsForms, MessagesAre
  <2> DEFINE s == Msgs(rcvd')
  <2>2. s \in Seq(Message)
    BY <1>5, <2>1
  <2> HIDE DEF s
  <2>3. Outcome(q \o s, a) = Outcome(s, Outcome(q, a))
    BY <1>1, <2>2, OutcomeConcat
  <2>4. Outcome(s, Outcome(q, a)) = PlayedOn(Outcome(Msgs(rest), Outcome(q, a)), x.msg)
    BY <1>2, <1>5, <2>1, OutcomeLast DEF s
  <2> QED BY <1>3, <1>4, <2>3, <2>4 DEF s
<1> QED BY <1>6, <1>7

(* The command at the head goes to the end of the queue *)
LEMMA EndQueued ==
  ASSUME IInv, IInv', world'[Server] = world[Server], mc'[Server] = mc[Server],
         rcvd # <<>>, rcvd' = Tail(rcvd), cmdQ'[Server] = Append(cmdQ[Server], Head(rcvd).msg)
  PROVE  ServerEnd' = ServerEnd
<1> DEFINE q == cmdQ[Server]
           m == Head(rcvd).msg
           s == Msgs(Tail(rcvd))
<1>1. /\ q \in Seq(Message) /\ m \in Message /\ s \in Seq(Message)
      /\ Msgs(rcvd) = <<m>> \o s
  BY StreamTypes, NodesFacts, MsgsForms
<1>2. ServerStream' = Append(q, m) \o s
  BY DEF ServerStream, Msgs
<1>3. ServerStream = q \o (<<m>> \o s)
  BY <1>1 DEF ServerStream
<1> HIDE DEF q, m, s
<1>4. Append(q, m) \o s = q \o (<<m>> \o s)
  BY <1>1
<1>5. ServerStream' = ServerStream
  BY <1>2, <1>3, <1>4
<1> QED BY <1>5 DEF ServerEnd, St

(* The server executes a tool of its queue *)
LEMMA EndExecuted ==
  ASSUME IInv, IInv', cmdQ[Server] # <<>>, cmdQ'[Server] = Tail(cmdQ[Server]), UNCHANGED <<mc, rcvd>>,
         Head(cmdQ[Server]).type = "TOOL", Head(cmdQ[Server]).mc = mc[Server],
         Head(cmdQ[Server]).step = sync[Server], Execute(Server, Head(cmdQ[Server]))
  PROVE  ServerEnd' = ServerEnd
<1> DEFINE q == cmdQ[Server]
           m == Head(q)
           s == Msgs(rcvd)
           t == Tail(q)
           a == St(Server)
<1>1. /\ q \in Seq(Message) /\ m \in Message /\ s \in Seq(Message) /\ t \in Seq(Message) /\ q = <<m>> \o t
      /\ a \in Game
  BY StreamTypes, NodesFacts, Beginning
<1>2. ServerStream' = t \o s
  BY DEF ServerStream, Msgs
<1>3. ServerStream = <<m>> \o (t \o s)
  <2>2. ServerStream = q \o s
    BY DEF ServerStream
  <2> HIDE DEF q, m, s, t
  <2>1. (<<m>> \o t) \o s = <<m>> \o (t \o s)
    <3>1. <<m>> \in Seq(Message)
      BY <1>1
    <3> QED BY <1>1, <3>1, Regroup
  <2> QED BY <1>1, <2>1, <2>2
<1>4. St(Server)' = PlayedOn(a, m)
  <2>1. world \in [Nodes -> World] /\ Server \in Nodes
    BY NodesFacts DEF IInv, NodeInv
  <2>2. world'[Server] = Append(world[Server], [cmd |-> m.cmd, step |-> sync[Server]])
    BY <2>1 DEF Execute
  <2> QED BY <2>2 DEF St, PlayedOn
<1> HIDE DEF q, m, s, t, a
<1>5. t \o s \in Seq(Message)
  BY <1>1
<1>6. Outcome(<<m>> \o (t \o s), a) = Outcome(t \o s, PlayedOn(a, m))
  BY <1>1, <1>5, OutcomeFirst
<1> QED BY <1>2, <1>3, <1>4, <1>6 DEF ServerEnd, a

(* Nothing that the server knows of acts: its world stays what it is *)
LEMMA EndSettled ==
  ASSUME NEW q, NEW r \in Seq(Received), NEW a \in Game, q = <<>>, \A i \in DOMAIN r : ~Acts(r[i].msg)
  PROVE  Outcome(q \o Msgs(r), a) = a
<1>1. Msgs(r) \in Seq(Message) /\ q \o Msgs(r) = Msgs(r)
  <2> DEFINE u == Msgs(r)
  <2>1. u \in Seq(Message)
    BY MsgsForms
  <2> HIDE DEF u
  <2>2. <<>> \o u = u
    BY <2>1
  <2> QED BY <2>1, <2>2 DEF u
<1>2. \A i \in DOMAIN Msgs(r) : PlayedOn(a, Msgs(r)[i]) = a
  BY InertChangesNothing DEF Msgs
<1> QED BY <1>1, <1>2, OutcomeSame

(* A sync at the head of the queue: the rest is for a map counter that is over *)
LEMMA EndOfSync ==
  ASSUME IInv, ServerOk, SrvDrain, Head(cmdQ[Server]).type = "SYNC"
  PROVE  ServerEnd = [world |-> world[Server], mc |-> Head(cmdQ[Server]).new]
<1> DEFINE q == cmdQ[Server]
           m == Head(q)
           s == Msgs(rcvd)
           t == Tail(q)
           a == St(Server)
           b == [world |-> world[Server], mc |-> m.new]
<1>1. /\ q \in Seq(Message) /\ m \in Message /\ s \in Seq(Message) /\ t \in Seq(Message) /\ q = <<m>> \o t
      /\ a \in Game /\ q # <<>> /\ m.mc = mc[Server]
  BY StreamTypes, NodesFacts, Beginning, DueAtServer DEF SrvDrain
<1>2. m.new \in Nat /\ mc[Server] < m.new /\ mc[Server] \in Nat
  BY DrainEffect, NodesFacts DEF IInv, NodeInv
<1>3. b = PlayedOn(a, m) /\ b \in Game
  <2>1. b = PlayedOn(a, m)
    BY <1>1 DEF PlayedOn, St
  <2> QED BY <1>1, <2>1, PlayedType
<1>4. Outcome(t, b) = b
  <2>1. \A i \in DOMAIN t : i + 1 \in DOMAIN q /\ t[i] = q[i + 1]
    BY <1>1
  <2>2. \A i \in DOMAIN t : t[i].mc = mc[Server]
    BY <2>1, OfQueue DEF Queued
  <2>3. \A i \in DOMAIN t : PlayedOn(b, t[i]) = b
    BY <1>2, <1>3, <2>2, ForeignChangesNothing
  <2> HIDE DEF b, t
  <2> QED BY <1>1, <1>3, <2>3, OutcomeSame
<1>5. Outcome(s, b) = b
  <2>1. \A i \in DOMAIN rcvd : ~Acts(rcvd[i].msg)
    BY DEF SrvDrain, ServerOk
  <2>2. \A i \in DOMAIN s : PlayedOn(b, s[i]) = b
    BY <1>3, <2>1, InertChangesNothing DEF Msgs
  <2> HIDE DEF b, s
  <2> QED BY <1>1, <1>3, <2>2, OutcomeSame
<1>6. ServerEnd = Outcome(q \o s, a)
  BY DEF ServerEnd, ServerStream
<1> HIDE DEF q, m, s, t, a, b
<1>7. Outcome(q \o s, a) = Outcome(s, Outcome(q, a))
  BY <1>1, OutcomeConcat
<1>8. Outcome(q, a) = Outcome(t, b)
  BY <1>1, <1>3, OutcomeFirst
<1> QED BY <1>4, <1>5, <1>6, <1>7, <1>8 DEF b, q, m

-----------------------------------------------------------------------------
(* What a step of the server does to what client d will hear of it *)

Tells(d) ==
  \E v \in Seq(Broadcast), u \in Seq(DownMsg) :
    /\ \A i \in DOMAIN v :
         /\ i = 1
         /\ IsWorldCommand(v[i]) => v[i].step = sync'[Server] + 1
         /\ Acts(v[i]) => v[i].mc <= mc[Server]
    /\ sock[d] = "playing" => ServerEnd' = Outcome(v, ServerEnd)
    /\ sendq'[d] = sendq[d] \o v \/ (~Open(d) /\ sendq'[d] = sendq[d])
    /\ down'[d] = down[d] \o u
    /\ sock'[d] = "playing" => sock[d] = "playing"
    /\ Silent(u) \/ Asking(d)
    /\ \A i \in DOMAIN u : u[i].type # "GAME"

Flushes(d) ==
  /\ ServerEnd' = ServerEnd /\ sock'[d] = sock[d] /\ sync'[Server] = sync[Server]
  /\ down'[d] = down[d] \o sendq[d] \/ Gone(d)
  /\ sendq'[d] = <<>>

Loses(d) == sock'[d] # "playing" /\ sendq'[d] = <<>>

Syncs(d) ==
  \E file \in World, new \in Nat :
    /\ file = NetworkSave
    /\ ServerEnd' = [world |-> file, mc |-> new] /\ mc[Server] < new /\ sync'[Server] = sync[Server]
    /\ sock[d] = "playing" => ServerEnd' = ServerEnd
    /\ sock[d] \in {"connected", "playing"}
    /\ sendq'[d] = sendq[d]
    /\ \/ Gone(d)
       \/ \E m \in Ready : m.mc = new /\ down'[d] = down[d] \o <<GameMsg(file), m>>

LEMMA OutcomeOne ==
  ASSUME NEW m \in Message, NEW a \in Game
  PROVE  Outcome(<<m>>, a) = PlayedOn(a, m)
<1>1. <<>> \in Seq(Message) /\ Append(<<>>, m) = <<m>>
  OBVIOUS
<1>2. Outcome(Append(<<>>, m), a) = PlayedOn(Outcome(<<>>, a), m)
  BY <1>1, OutcomeLast
<1> QED BY <1>1, <1>2, OutcomeNothing

LEMMA NothingAtEnd ==
  ASSUME NEW S, NEW s \in Seq(S)
  PROVE  s \o <<>> = s
OBVIOUS

(* A step that sends nothing to d *)
LEMMA TellsNothing ==
  ASSUME IInv, NEW d \in Clients, sock'[d] = "playing" => sock[d] = "playing",
         down'[d] = down[d], sendq'[d] = sendq[d], sock[d] = "playing" => ServerEnd' = ServerEnd
  PROVE  Tells(d)
<1>1. <<>> \in Seq(Broadcast) /\ <<>> \in Seq(DownMsg)
  OBVIOUS
<1>2. down[d] \o <<>> = down[d] /\ sendq[d] \o <<>> = sendq[d]
  BY DownTypes, NothingAtEnd
<1>3. Outcome(<<>>, ServerEnd) = ServerEnd
  BY StreamTypes, OutcomeNothing
<1>4. \A i \in DOMAIN <<>> : FALSE
  OBVIOUS
<1>5. Silent(<<>>)
  BY <1>4 DEF Silent
<1> QED BY <1>1, <1>2, <1>3, <1>4, <1>5 DEF Tells

(* A step that sends nothing to d but replies *)
LEMMA TellsReply ==
  ASSUME IInv, NEW d \in Clients, sock'[d] = "playing" => sock[d] = "playing",
         NEW u \in Seq(DownMsg), down'[d] = down[d] \o u, sendq'[d] = sendq[d],
         sock[d] = "playing" => ServerEnd' = ServerEnd,
         \A i \in DOMAIN u : u[i].type # "GAME" /\ ~IsWorldCommand(u[i])
  PROVE  Tells(d)
<1>1. <<>> \in Seq(Broadcast)
  OBVIOUS
<1>2. sendq[d] \o <<>> = sendq[d]
  BY DownTypes, NothingAtEnd
<1>3. Outcome(<<>>, ServerEnd) = ServerEnd
  BY StreamTypes, OutcomeNothing
<1>4. \A i \in DOMAIN <<>> : FALSE
  OBVIOUS
<1>5. Silent(u)
  BY DEF Silent
<1> QED BY <1>1, <1>2, <1>3, <1>4, <1>5 DEF Tells

(* A step that sends m to everybody, and queues it at the server *)
LEMMA TellsAll ==
  ASSUME IInv, IInv', NEW d \in Clients, sock'[d] = "playing" => sock[d] = "playing",
         NEW u \in Seq(DownMsg), down'[d] = down[d] \o u, Silent(u) \/ Asking(d),
         \A i \in DOMAIN u : u[i].type # "GAME",
         NEW m \in Broadcast, SendAll(m),
         IsWorldCommand(m) => m.step = sync'[Server] + 1, Acts(m) => m.mc <= mc[Server],
         sock[d] = "playing" => ServerEnd' = PlayedOn(ServerEnd, m)
  PROVE  Tells(d)
<1>1. <<m>> \in Seq(Broadcast)
  OBVIOUS
<1>2. sendq'[d] = sendq[d] \o <<m>> \/ (~Open(d) /\ sendq'[d] = sendq[d])
  <2>1. Append(sendq[d], m) = sendq[d] \o <<m>>
    BY DownTypes
  <2> QED BY <2>1 DEF SendAll
<1>3. Outcome(<<m>>, ServerEnd) = PlayedOn(ServerEnd, m)
  BY StreamTypes, OutcomeOne, MessagesAre
<1>4. \A i \in DOMAIN <<m>> : i = 1 /\ <<m>>[i] = m
  OBVIOUS
<1> QED BY <1>1, <1>2, <1>3, <1>4 DEF Tells

(* A client is thrown out or leaves *)
LEMMA TellsLost ==
  ASSUME IInv, NEW c \in Clients, NEW how \in {"none", "kicked"}, RemoveClient(c, how), NEW d \in Clients,
         sock[d] = "playing" => ServerEnd' = ServerEnd
  PROVE  Tells(d) \/ Loses(d)
<1>1. CASE d = c
  <2>1. sock'[c] = how /\ sendq'[c] = <<>>
    BY DEF RemoveClient, IInv, SockInv
  <2> QED BY <1>1, <2>1 DEF Loses
<1>2. CASE d # c
  <2>1. sock'[d] = sock[d] /\ sendq'[d] = sendq[d] /\ down'[d] = down[d]
    BY <1>2 DEF RemoveClient, Direct, IInv, SockInv
  <2> QED BY <2>1, TellsNothing
<1> QED BY <1>1, <1>2

LEMMA AcceptTells ==
  ASSUME IInv, IInv', NEW c \in Clients, SrvAccept(c), NEW d \in Clients
  PROVE  Tells(d)
<1>1. sock'[d] = "playing" => sock[d] = "playing"
  BY DEF SrvAccept, IInv, SockInv
<1>2. down'[d] = down[d] /\ sendq'[d] = sendq[d] /\ UNCHANGED <<cmdQ, world, mc, rcvd>>
  BY DEF SrvAccept, nodeVars, serverVars
<1>3. ServerEnd' = ServerEnd
  BY <1>2, EndStep
<1> QED BY <1>1, <1>2, <1>3, TellsNothing

LEMMA ReceiveTells ==
  ASSUME IInv, IInv', NEW c \in Clients, SrvReceive(c), NEW d \in Clients
  PROVE  Tells(d) \/ Loses(d)
<1>1. UNCHANGED <<cmdQ, world, mc>>
  BY DEF SrvReceive, nodeVars
<1>2. CASE Head(up[c]) = EofMsg
  <2>1. RemoveClient(c, "none") /\ UNCHANGED rcvd
    BY <1>2 DEF SrvReceive
  <2>2. ServerEnd' = ServerEnd
    BY <1>1, <2>1, EndStep
  <2> QED BY <2>1, <2>2, TellsLost
<1>3. CASE Head(up[c]) # EofMsg
  <2>1. /\ rcvd' = Append(rcvd, [from |-> c, msg |-> Head(up[c])])
        /\ UNCHANGED <<sock, sendq, down>>
    BY <1>3 DEF SrvReceive
  <2>2. Head(up[c]) \in UpMsg /\ up[c] # <<>>
    BY DownTypes DEF SrvReceive
  <2>3. Head(up[c]) \in Ready \cup Request \cup {JoinMsg}
    BY <1>3, <2>2 DEF UpMsg
  <2> DEFINE r == [from |-> c, msg |-> Head(up[c])]
  <2>4. r \in Received
    BY <2>3 DEF Received
  <2>5. r.msg = Head(up[c])
    OBVIOUS
  <2>6. rcvd' = Append(rcvd, r)
    BY <2>1
  <2> HIDE DEF r
  <2>7. ServerEnd' = PlayedOn(ServerEnd, r.msg)
    BY <1>1, <2>4, <2>6, EndStep
  <2>8. ServerEnd' = ServerEnd
    BY <2>2, <2>5, <2>7, ClientMessages, InertChangesNothing, StreamTypes
  <2> QED BY <2>1, <2>8, TellsNothing
<1> QED BY <1>2, <1>3

(* The head of what was received is a join, a ready or a request *)
LEMMA ExecutedEnd ==
  ASSUME IInv, IInv', rcvd # <<>>, ~Acts(Head(rcvd).msg), UNCHANGED nodeVars
  PROVE  /\ rcvd' = Tail(rcvd) => ServerEnd' = ServerEnd
         /\ \A m \in WorldCommand : rcvd' = Append(Tail(rcvd), FromServer(m)) =>
              ServerEnd' = PlayedOn(ServerEnd, m)
<1>1. UNCHANGED <<cmdQ, world, mc>>
  BY DEF nodeVars
<1>2. rcvd' = Tail(rcvd) => ServerEnd' = ServerEnd
  BY <1>1, EndStep
<1>3. ASSUME NEW m \in WorldCommand, rcvd' = Append(Tail(rcvd), FromServer(m))
      PROVE  ServerEnd' = PlayedOn(ServerEnd, m)
  <2>1. FromServer(m) \in Received /\ FromServer(m).msg = m
    BY DEF FromServer, Received
  <2> QED BY <1>1, <1>3, <2>1, EndStep
<1> QED BY <1>2, <1>3

LEMMA JoinTells ==
  ASSUME IInv, IInv', rcvd # <<>>, NEW c \in Clients, c = Head(rcvd).from,
         Head(rcvd).msg.type = "JOIN", ExecuteJoin(c), NEW d \in Clients
  PROVE  Tells(d)
<1>1. ~Acts(Head(rcvd).msg)
  BY DEF Acts
<1>2. UNCHANGED nodeVars /\ UNCHANGED sock
  BY DEF ExecuteJoin
<1>3. CASE ~JoinPossible
  <2>1. Direct(c, <<JoinReply(FALSE)>>) /\ rcvd' = Tail(rcvd) /\ UNCHANGED sendq
    BY <1>3 DEF ExecuteJoin
  <2> DEFINE msgs == <<JoinReply(FALSE)>>
             u == IF d = c /\ ~Gone(d) THEN msgs ELSE <<>>
  <2>2. msgs \in Seq(DownMsg)
    <3> DEFINE j == JoinReply(FALSE)
    <3>1. j \in DownMsg
      BY ReplyTypes
    <3> HIDE DEF j
    <3>2. <<j>> \in Seq(DownMsg)
      BY <3>1
    <3> QED BY <3>2 DEF j
  <2>3. down'[d] = down[d] \o u /\ u \in Seq(DownMsg)
    BY <2>1, <2>2, DirectTells
  <2>4. \A i \in DOMAIN u : u[i].type # "GAME" /\ ~IsWorldCommand(u[i])
    BY DEF JoinReply, IsWorldCommand
  <2> HIDE DEF u
  <2>5. ServerEnd' = ServerEnd
    BY <1>1, <1>2, <2>1, ExecutedEnd
  <2> QED BY <1>2, <2>1, <2>3, <2>4, <2>5, TellsReply
<1>4. CASE JoinPossible
  <2> DEFINE nws == SyncMsg(sync[Server] + 1, mc[Server], slot[c], lastMc + 1)
  <2>1. /\ Direct(c, <<JoinReply(TRUE), nws>>) /\ SendAll(nws)
        /\ rcvd' = Append(Tail(rcvd), FromServer(nws))
    BY <1>4 DEF ExecuteJoin
  <2>2. nws \in WorldCommand /\ nws.step = sync[Server] + 1 /\ nws.mc = mc[Server] /\ nws.type = "SYNC"
    <3>1. sync[Server] \in Nat /\ mc[Server] \in Nat /\ slot[c] \in Nat
      BY NodesFacts DEF IInv, NodeInv, SockInv
    <3>2. sync[Server] + 1 \in Nat
      BY <3>1
    <3> QED BY <3>1, <3>2, OrderedSync DEF SyncMsg
  <2> HIDE DEF nws
  <2> DEFINE msgs == <<JoinReply(TRUE), nws>>
             u == IF d = c /\ ~Gone(d) THEN msgs ELSE <<>>
  <2>3. msgs \in Seq(DownMsg) /\ \A i \in DOMAIN msgs : msgs[i].type # "GAME"
    <3> DEFINE j == JoinReply(TRUE)
    <3>1. j \in DownMsg /\ nws \in DownMsg
      BY <2>2, ReplyTypes
    <3>2. j.type # "GAME"
      BY DEF JoinReply
    <3> HIDE DEF j
    <3>3. <<j, nws>> \in Seq(DownMsg) /\ \A i \in DOMAIN <<j, nws>> : <<j, nws>>[i].type # "GAME"
      BY <2>2, <3>1, <3>2
    <3> QED BY <3>3 DEF j
  <2>4. down'[d] = down[d] \o u /\ u \in Seq(DownMsg)
    BY <2>1, <2>3, DirectTells
  <2>5. \A i \in DOMAIN u : u[i].type # "GAME"
    <3>1. \A i \in DOMAIN <<>> : FALSE
      OBVIOUS
    <3> HIDE DEF msgs
    <3> QED BY <2>3, <3>1
  <2>6. Silent(u) \/ Asking(d)
    <3>1. CASE d = c
      <4>1. 1 \in DOMAIN rcvd /\ rcvd[1] = Head(rcvd)
        BY ReceivedForms DEF IInv, ServerInv
      <4> QED BY <3>1, <4>1 DEF Asking, From
    <3>2. CASE d # c
      BY <3>2 DEF Silent
    <3> QED BY <3>1, <3>2
  <2> HIDE DEF u
  <2>7. ServerEnd' = PlayedOn(ServerEnd, nws)
    BY <1>1, <1>2, <2>1, <2>2, ExecutedEnd
  <2>8. nws \in Broadcast /\ nws.step = sync'[Server] + 1 /\ nws.mc <= mc[Server]
    <3>1. mc[Server] \in Nat
      BY NodesFacts DEF IInv, NodeInv
    <3> QED BY <1>2, <2>2, <3>1 DEF Broadcast, nodeVars
  <2> QED BY <1>2, <2>1, <2>4, <2>5, <2>6, <2>7, <2>8, TellsAll
<1> QED BY <1>3, <1>4

LEMMA ReadyTells ==
  ASSUME IInv, IInv', rcvd # <<>>, NEW c \in Clients, c = Head(rcvd).from,
         Head(rcvd).msg.type = "READY", ExecuteReady(c, Head(rcvd).msg), NEW d \in Clients
  PROVE  Tells(d) \/ Loses(d)
<1>1. ~Acts(Head(rcvd).msg)
  BY DEF Acts
<1>2. UNCHANGED nodeVars /\ rcvd' = Tail(rcvd)
  BY DEF ExecuteReady
<1>3. ServerEnd' = ServerEnd
  BY <1>1, <1>2, ExecutedEnd
<1>4. CASE RemoveClient(c, "kicked")
  BY <1>3, <1>4, TellsLost
<1>5. CASE Direct(c, <<Head(rcvd).msg>>) /\ UNCHANGED <<sock, sendq>>
  <2> DEFINE m == Head(rcvd).msg
             u == IF d = c /\ ~Gone(d) THEN <<m>> ELSE <<>>
  <2>1. m \in DownMsg
    <3>1. Head(rcvd) \in Received
      BY DownTypes
    <3> QED BY <3>1, ReplyTypes DEF Received, WorldCommand, Request, JoinMsg
  <2>2. <<m>> \in Seq(DownMsg)
    BY <2>1
  <2>3. down'[d] = down[d] \o u /\ u \in Seq(DownMsg)
    BY <1>5, <2>2, DirectTells
  <2>4. \A i \in DOMAIN u : u[i].type # "GAME" /\ ~IsWorldCommand(u[i])
    BY DEF IsWorldCommand
  <2> HIDE DEF u
  <2> QED BY <1>3, <1>5, <2>3, <2>4, TellsReply
<1> QED BY <1>4, <1>5 DEF ExecuteReady

-----------------------------------------------------------------------------
(* A command that a client asked for is told to everybody *)

LEMMA RequestTells ==
  ASSUME IInv, IInv', rcvd # <<>>, NEW c \in Clients \cup {Server}, c = Head(rcvd).from,
         Head(rcvd).msg.type = "REQUEST", ExecuteRequest(c, Head(rcvd).msg), NEW d \in Clients
  PROVE  Tells(d) \/ Loses(d)
<1> DEFINE n == sync[Server]
           m == Head(rcvd).msg
           tool == ToolMsg(n + 1, m.mc, m.cmd, ChecklistAt(world[Server], n))
<1>1. ~Acts(m) /\ m \in Request
  <2>1. Head(rcvd) \in Received
    BY DownTypes
  <2> QED BY <2>1 DEF Acts, Received, WorldCommand, Ready, JoinMsg
<1>2. UNCHANGED nodeVars
  BY DEF ExecuteRequest
<1>3. \/ rcvd' = Tail(rcvd) /\ UNCHANGED <<sock, sendq, down>>
      \/ c # Server /\ rcvd' = Tail(rcvd) /\ RemoveClient(c, "kicked")
      \/ /\ SendAll(tool) /\ rcvd' = Append(Tail(rcvd), FromServer(tool)) /\ m.mc = mc[Server]
         /\ UNCHANGED <<sock, down>>
  BY DEF ExecuteRequest
<1>4. rcvd' = Tail(rcvd) => ServerEnd' = ServerEnd
  BY <1>1, <1>2, ExecutedEnd
<1>5. CASE rcvd' = Tail(rcvd) /\ UNCHANGED <<sock, sendq, down>>
  BY <1>4, <1>5, TellsNothing
<1>6. CASE c # Server /\ rcvd' = Tail(rcvd) /\ RemoveClient(c, "kicked")
  <2>1. c \in Clients
    BY <1>6
  <2> QED BY <1>4, <1>6, <2>1, TellsLost
<1>7. CASE /\ SendAll(tool) /\ rcvd' = Append(Tail(rcvd), FromServer(tool)) /\ m.mc = mc[Server]
           /\ UNCHANGED <<sock, down>>
  <2>1. tool \in WorldCommand /\ tool.step = n + 1 /\ tool.mc = m.mc
    <3>1. n \in Nat /\ world[Server] \in World /\ 0 \in Nat /\ <<>> \in World
      BY NodesFacts DEF IInv, NodeInv, World
    <3>2. m.mc \in Nat /\ m.cmd \in Nat
      BY <1>1 DEF Request
    <3>3. ChecklistAt(world[Server], n) \in Checklist
      BY <3>1, ChecklistType
    <3>4. n + 1 \in Nat
      BY <3>1
    <3>5. tool \in WorldCommand
      BY <3>1, <3>2, <3>3, <3>4, MessageTypes
    <3> QED BY <3>5 DEF ToolMsg
  <2> HIDE DEF tool
  <2>2. ServerEnd' = PlayedOn(ServerEnd, tool)
    BY <1>1, <1>2, <1>7, <2>1, ExecutedEnd
  <2>3. tool \in Broadcast /\ tool.step = sync'[Server] + 1 /\ tool.mc <= mc[Server]
    <3>1. mc[Server] \in Nat
      BY NodesFacts DEF IInv, NodeInv
    <3> QED BY <1>2, <1>7, <2>1, <3>1 DEF Broadcast, nodeVars
  <2>4. <<>> \in Seq(DownMsg) /\ Silent(<<>>) /\ \A i \in DOMAIN <<>> : FALSE
    BY DEF Silent
  <2>5. down'[d] = down[d] \o <<>>
    BY <1>7, DownTypes, NothingAtEnd
  <2> QED BY <1>7, <2>2, <2>3, <2>4, <2>5, TellsAll
<1> QED BY <1>3, <1>5, <1>6, <1>7

LEMMA WorldCommandTells ==
  ASSUME IInv, IInv', ServerOk, rcvd # <<>>, Acts(Head(rcvd).msg), ExecuteWorldCommand(Head(rcvd).msg),
         NEW d \in Clients
  PROVE  Tells(d)
<1>1. UNCHANGED <<sock, sendq, down, world, mc>>
  BY DEF ExecuteWorldCommand, sockVars
<1>2. ASSUME sock[d] = "playing" PROVE ServerEnd' = ServerEnd
  <2>1. Head(rcvd).msg.mc = mc[Server]
    BY <1>2, HeadExpected DEF SomePlaying
  <2>2. rcvd' = Tail(rcvd) /\ cmdQ'[Server] = Append(cmdQ[Server], Head(rcvd).msg)
    BY <2>1, WorldCommandEffect
  <2> QED BY <1>1, <2>2, EndQueued
<1> QED BY <1>1, <1>2, TellsNothing

LEMMA ExecuteTells ==
  ASSUME IInv, IInv', ServerOk, SrvExecute, NEW d \in Clients
  PROVE  Tells(d) \/ Loses(d)
<1> DEFINE c == Head(rcvd).from
           m == Head(rcvd).msg
<1>1. rcvd # <<>> /\ Head(rcvd) \in Received
  BY DownTypes DEF SrvExecute
<1>2. c \in Clients \cup {Server} /\ (m.type \in {"JOIN", "READY"} => c \in Clients)
  BY <1>1 DEF Received, WorldCommand, Request
<1>3. CASE m.type = "JOIN" /\ ExecuteJoin(c)
  BY <1>1, <1>2, <1>3, JoinTells
<1>4. CASE m.type = "READY" /\ ExecuteReady(c, m)
  BY <1>1, <1>2, <1>4, ReadyTells
<1>5. CASE m.type = "REQUEST" /\ ExecuteRequest(c, m)
  BY <1>1, <1>2, <1>5, RequestTells
<1>6. CASE m.type \in {"TOOL", "SYNC"} /\ ExecuteWorldCommand(m)
  BY <1>1, <1>6, WorldCommandTells DEF Acts
<1> QED BY <1>3, <1>4, <1>5, <1>6 DEF SrvExecute

LEMMA SendTells ==
  ASSUME IInv, IInv', SrvSend, NEW d \in Clients
  PROVE  Tells(d) \/ Flushes(d)
<1>1. UNCHANGED <<cmdQ, world, mc, rcvd, sock, sync>>
  BY DEF SrvSend, nodeVars
<1>2. ServerEnd' = ServerEnd
  BY <1>1, EndStep
<1>3. PICK some \in SUBSET Clients : Flush(some)
  BY NodesAssumption DEF SrvSend
<1>4. CASE d \in some
  BY <1>1, <1>2, <1>3, <1>4 DEF Flush, Flushes
<1>5. CASE d \notin some
  <2>1. down'[d] = down[d] /\ sendq'[d] = sendq[d]
    BY <1>3, <1>5 DEF Flush
  <2> QED BY <1>1, <1>2, <2>1, TellsNothing
<1> QED BY <1>4, <1>5

(* The server loads its save and nothing else is left that acts *)
LEMMA SyncEnd ==
  ASSUME IInv, IInv', NEW id, NEW new \in Nat, SyncServer(id, new), \A i \in DOMAIN rcvd : ~Acts(rcvd[i].msg)
  PROVE  ServerEnd' = [world |-> NetworkSave, mc |-> new]
<1>1. NetworkSave \in World
  BY NodesFacts DEF NetworkSave, IInv, NodeInv, ServerInv
<1>2. cmdQ'[Server] = <<>> /\ world'[Server] = NetworkSave /\ mc'[Server] = new /\ rcvd' = rcvd
  BY NodesFacts DEF SyncServer, LoadServer, IInv, NodeInv
<1>3. St(Server)' = [world |-> NetworkSave, mc |-> new]
  BY <1>2 DEF St
<1>4. ServerStream' = cmdQ'[Server] \o Msgs(rcvd)
  BY <1>2 DEF ServerStream, Msgs
<1>5. rcvd \in Seq(Received) /\ [world |-> NetworkSave, mc |-> new] \in Game
  BY <1>1, DownTypes, StreamTypes DEF Game
<1>6. Outcome(cmdQ'[Server] \o Msgs(rcvd), [world |-> NetworkSave, mc |-> new]) = [world |-> NetworkSave, mc |-> new]
  BY <1>2, <1>5, EndSettled
<1> QED BY <1>3, <1>4, <1>6 DEF ServerEnd

LEMMA DrainTells ==
  ASSUME IInv, IInv', ServerOk, SaveInv, SrvDrain, NEW d \in Clients
  PROVE  Tells(d) \/ Syncs(d)
<1> DEFINE m == Head(cmdQ[Server])
<1>1. /\ cmdQ[Server] # <<>> /\ m.step = sync[Server] /\ m.mc = mc[Server]
  BY DueAtServer DEF SrvDrain
<1>2. CASE /\ m.type = "TOOL" /\ Execute(Server, m) /\ cmdQ' = [cmdQ EXCEPT ![Server] = Tail(@)]
           /\ UNCHANGED <<phase, sync, mc, barrier, serverVars, sockVars, userVars>>
  <2>1. UNCHANGED <<sock, down, sendq, mc, rcvd>> /\ cmdQ'[Server] = Tail(cmdQ[Server])
    BY <1>2, NodesFacts DEF serverVars, sockVars, IInv, NodeInv
  <2>2. ServerEnd' = ServerEnd
    BY <1>1, <1>2, <2>1, EndExecuted
  <2> QED BY <2>1, <2>2, TellsNothing
<1>3. CASE /\ m.type = "SYNC" /\ SyncServer(m.id, m.new)
           /\ m.new \in Nat /\ mc[Server] < m.new /\ m.new <= lastMc
  <2> DEFINE file == NetworkSave
             ready == ReadyMsg(sync[Server], m.new, ChecklistAt(file, sync[Server]))
  <2>1. \A i \in DOMAIN rcvd : ~Acts(rcvd[i].msg)
    BY DEF SrvDrain, ServerOk
  <2>2. ServerEnd' = [world |-> file, mc |-> m.new]
    BY <1>3, <2>1, SyncEnd
  <2>3. ASSUME sock[d] = "playing" PROVE ServerEnd' = ServerEnd
    <3>1. file = world[Server]
      BY <2>3 DEF SaveInv, NetworkSave
    <3>2. ServerEnd = [world |-> world[Server], mc |-> m.new]
      BY <1>3, EndOfSync
    <3> QED BY <2>2, <3>1, <3>2
  <2>4. CASE d \in Occupant(m.id)
    <3>1. file \in World /\ sync[Server] \in Nat
      BY NodesFacts DEF NetworkSave, IInv, NodeInv, ServerInv
    <3>2. ready \in Ready /\ ready.mc = m.new
      <4>1. ChecklistAt(file, sync[Server]) \in Checklist
        BY <3>1, ChecklistType
      <4> HIDE DEF file
      <4> QED BY <1>3, <3>1, <4>1 DEF ReadyMsg, Ready
    <3>3. sendq'[d] = sendq[d] /\ sync'[Server] = sync[Server]
      BY <1>3 DEF SyncServer
    <3>4. Gone(d) \/ down'[d] = down[d] \o <<GameMsg(file), ready>>
      BY <1>3, <2>4 DEF SyncServer
    <3>5. sock[d] \in {"connected", "playing"}
      BY <2>4 DEF Occupant, Open
    <3>6. file = NetworkSave
      OBVIOUS
    <3> HIDE DEF m, file, ready
    <3> QED BY <3>6, <1>3, <2>2, <2>3, <3>1, <3>2, <3>3, <3>4, <3>5 DEF Syncs
  <2>5. CASE d \notin Occupant(m.id)
    <3>1. sendq'[d] = sendq[d] /\ down'[d] = down[d] /\ sock'[d] = sock[d]
      BY <1>3, <2>5 DEF SyncServer
    <3> QED BY <2>3, <3>1, TellsNothing
  <2> QED BY <2>4, <2>5
<1> QED BY <1>2, <1>3, DrainEffect

-----------------------------------------------------------------------------
(* A step is announced to everybody *)

LEMMA StepTells ==
  ASSUME IInv, IInv', SrvStep, NEW d \in Clients
  PROVE  Tells(d)
<1> DEFINE s == sync[Server] + 1
           chk == ChecklistAt(world[Server], s)
           mk == mc[Server]
<1>1. UNCHANGED <<cmdQ, world, mc, rcvd, sock, down>> /\ sync'[Server] = s
  BY NodesFacts DEF SrvStep, IInv, NodeInv
<1>2. ServerEnd' = ServerEnd /\ ServerEnd \in Game
  BY <1>1, EndStep, StreamTypes
<1>3. sync[Server] \in Nat /\ mk \in Nat /\ world[Server] \in World /\ s \in Nat
  <2>1. sync[Server] \in Nat /\ mk \in Nat /\ world[Server] \in World
    BY NodesFacts DEF IInv, NodeInv
  <2> QED BY <2>1
<1>4. chk \in Checklist
  BY <1>3, ChecklistType
<1>5. SendAll(CheckMsg(s + 1, mk, chk)) \/ SendAll(StepMsg(s))
  BY DEF SrvStep
<1> HIDE DEF s, chk, mk
<1>6. PICK m \in Broadcast : SendAll(m) /\ ~Acts(m) /\ (IsWorldCommand(m) => m.step = s + 1)
  <2>1. s + 1 \in Nat
    BY <1>3
  <2>2. CheckMsg(s + 1, mk, chk) \in Broadcast /\ StepMsg(s) \in Broadcast
    BY <1>3, <1>4, <2>1 DEF CheckMsg, StepMsg, Broadcast, WorldCommand
  <2>3. /\ CheckMsg(s + 1, mk, chk).type = "CHECK" /\ CheckMsg(s + 1, mk, chk).step = s + 1
        /\ StepMsg(s).type = "STEP"
    BY DEF CheckMsg, StepMsg
  <2> QED BY <1>5, <2>2, <2>3 DEF Acts, IsWorldCommand
<1>7. ServerEnd' = PlayedOn(ServerEnd, m)
  BY <1>2, <1>6, InertChangesNothing
<1>8. <<>> \in Seq(DownMsg) /\ Silent(<<>>) /\ \A i \in DOMAIN <<>> : FALSE
  BY DEF Silent
<1>9. down'[d] = down[d] \o <<>>
  BY <1>1, DownTypes, NothingAtEnd
<1> QED BY <1>1, <1>6, <1>7, <1>8, <1>9, TellsAll

LEMMA ForceTells ==
  ASSUME IInv, IInv', \A e \in Clients : SockFine(e), SrvForceSync, NEW d \in Clients
  PROVE  Tells(d)
<1> DEFINE nws == SyncMsg(sync[Server] + 1, mc[Server], 0, lastMc + 1)
<1>1. CASE SyncServer(0, lastMc + 1) /\ NumPlaying = 0
  <2>1. ~SomePlaying /\ sock' = sock /\ down' = down
    BY <1>1, ForcedSyncAlone
  <2>2. sendq' = sendq
    BY <1>1 DEF SyncServer
  <2> QED BY <2>1, <2>2, TellsNothing DEF SomePlaying
<1>2. CASE SendAll(nws) /\ rcvd' = Append(rcvd, FromServer(nws)) /\ UNCHANGED <<nodeVars, sock, down>>
  <2>1. nws \in WorldCommand /\ nws.step = sync[Server] + 1 /\ nws.mc = mc[Server]
    <3>1. sync[Server] \in Nat /\ mc[Server] \in Nat /\ 0 \in Nat
      BY NodesFacts DEF IInv, NodeInv
    <3>2. sync[Server] + 1 \in Nat
      BY <3>1
    <3> QED BY <3>1, <3>2, OrderedSync DEF SyncMsg
  <2> HIDE DEF nws
  <2>2. FromServer(nws) \in Received /\ FromServer(nws).msg = nws
    BY <2>1 DEF FromServer, Received
  <2>3. UNCHANGED <<cmdQ, world, mc, sync>>
    BY <1>2 DEF nodeVars
  <2>4. ServerEnd' = PlayedOn(ServerEnd, nws)
    BY <1>2, <2>2, <2>3, EndStep
  <2>5. nws \in Broadcast /\ nws.step = sync'[Server] + 1 /\ nws.mc <= mc[Server]
    <3>1. mc[Server] \in Nat
      BY NodesFacts DEF IInv, NodeInv
    <3> QED BY <2>1, <2>3, <3>1 DEF Broadcast
  <2>6. <<>> \in Seq(DownMsg) /\ Silent(<<>>) /\ \A i \in DOMAIN <<>> : FALSE
    BY DEF Silent
  <2>7. down'[d] = down[d] \o <<>>
    BY <1>2, DownTypes, NothingAtEnd
  <2> QED BY <1>2, <2>4, <2>5, <2>6, <2>7, TellsAll
<1> QED BY <1>1, <1>2 DEF SrvForceSync

LEMMA ToolTells ==
  ASSUME IInv, IInv', SrvTool, NEW d \in Clients
  PROVE  Tells(d)
<1> DEFINE r == RequestMsg(sync[Server], mc[Server], lastCmd + 1, ChecklistAt(world[Server], sync[Server]))
<1>1. UNCHANGED <<cmdQ, world, mc, sock, sendq, down>> /\ rcvd' = Append(rcvd, FromServer(r))
  BY DEF SrvTool, nodeVars, sockVars
<1>2. r.type = "REQUEST" /\ FromServer(r).msg = r
  BY DEF RequestMsg, FromServer
<1>3. FromServer(r) \in Received
  <2>1. sync[Server] \in Nat /\ mc[Server] \in Nat /\ world[Server] \in World /\ lastCmd + 1 \in Nat
    BY NodesFacts DEF IInv, NodeInv, UserInv
  <2>2. ChecklistAt(world[Server], sync[Server]) \in Checklist
    BY <2>1, ChecklistType
  <2>3. r \in Request
    BY <2>1, <2>2 DEF RequestMsg, Request
  <2> QED BY <2>3 DEF FromServer, Received
<1> HIDE DEF r
<1>4. ServerEnd' = PlayedOn(ServerEnd, r)
  BY <1>1, <1>2, <1>3, EndStep
<1>5. ServerEnd' = ServerEnd
  BY <1>2, <1>4, StreamTypes, InertChangesNothing DEF Acts
<1> QED BY <1>1, <1>5, TellsNothing

(* What a client hears of a step of the server *)
LEMMA ServerTells ==
  ASSUME IInv, IInv', ServerOk, SaveInv, \A e \in Clients : SockFine(e), ServerNext, NEW d \in Clients
  PROVE  Tells(d) \/ Flushes(d) \/ Loses(d) \/ Syncs(d)
<1>1. CASE SrvLoop
  <2>1. UNCHANGED <<cmdQ, world, mc, rcvd, sock, sendq, down>>
    BY <1>1 DEF SrvLoop, nodeVars, sockVars
  <2>2. ServerEnd' = ServerEnd
    BY <2>1, EndStep
  <2> QED BY <2>1, <2>2, TellsNothing
<1> QED BY <1>1, AcceptTells, ReceiveTells, ExecuteTells, SendTells, DrainTells, StepTells, ForceTells,
           ToolTells DEF ServerNext

-----------------------------------------------------------------------------
(* What waits for a client takes it where the server will be *)

(* What is on the way into the send queue of d *)
SendOk(d) ==
  /\ Stamped(sendq[d], sync[Server])
  /\ \A i \in DOMAIN sendq[d] : Acts(sendq[d][i]) => sendq[d][i].mc <= mc[Server]

Stream(c) == (cmdQ[c] \o down[c]) \o sendq[c]

(* The next message ends the game for c: it is let go on with another map counter *)
Doomed(c) ==
  cmdQ[c] = <<>> /\ down[c] # <<>> /\ Head(down[c]).type = "READY" /\ Head(down[c]).mc # mc[c]

RunOk(c) ==
  phase[c] \in {"pause", "run"} =>
    /\ Stamped(Stream(c), sync[Server])
    /\ Outcome(Stream(c), St(c)) = ServerEnd \/ Doomed(c)

(* The game at place i of what c will read is one that c will load *)
Acceptable(c, i) ==
  /\ down[c][i].type = "GAME"
  /\ \/ phase[c] \in {"sync", "game"}
     \/ phase[c] = "join" /\ \E j \in 1..(i - 1) : down[c][j] = JoinReply(TRUE)
Snapshot(c, i) == [world |-> down[c][i].world, mc |-> down[c][i + 1].mc]
Rest(c, i) == SubSeq(down[c], i + 2, Len(down[c])) \o sendq[c]

GameOk(c) ==
  \A i \in DOMAIN down[c] : Acceptable(c, i) =>
    /\ i + 1 \in DOMAIN down[c] /\ down[c][i + 1] \in Ready
    /\ Follows(Rest(c, i), Snapshot(c, i), sync[Server], ServerEnd)

ViewOk(c) == sock[c] = "playing" => RunOk(c) /\ GameOk(c)

LEMMA RestOfConcat ==
  ASSUME NEW S, NEW s \in Seq(S), NEW u \in Seq(S), NEW i \in 1..(Len(s) + 1)
  PROVE  /\ SubSeq(s \o u, i, Len(s \o u)) = SubSeq(s, i, Len(s)) \o u
         /\ SubSeq(s, i, Len(s)) \in Seq(S)
<1>1. Len(s) \in Nat /\ Len(u) \in Nat /\ Len(s \o u) = Len(s) + Len(u) /\ s \o u \in Seq(S)
  OBVIOUS
<1>2. SubSeq(s, i, Len(s)) \in Seq(S) /\ Len(SubSeq(s, i, Len(s))) = Len(s) - i + 1
      /\ \A k \in 1..(Len(s) - i + 1) : SubSeq(s, i, Len(s))[k] = s[i + k - 1]
  BY <1>1
<1> DEFINE a == SubSeq(s \o u, i, Len(s \o u))
           h == SubSeq(s, i, Len(s))
           b == h \o u
<1>3. a \in Seq(S) /\ Len(a) = Len(s) + Len(u) - i + 1
      /\ \A k \in 1..(Len(s) + Len(u) - i + 1) : a[k] = (s \o u)[i + k - 1]
  BY <1>1
<1> HIDE DEF a, h
<1>4. b \in Seq(S) /\ Len(b) = Len(s) - i + 1 + Len(u)
      /\ \A k \in 1..Len(b) : b[k] = IF k <= Len(s) - i + 1 THEN h[k] ELSE u[k - (Len(s) - i + 1)]
  BY <1>1, <1>2 DEF h
<1>5. \A k \in 1..(Len(s) + Len(u)) : (s \o u)[k] = IF k <= Len(s) THEN s[k] ELSE u[k - Len(s)]
  BY <1>1
<1>6. \A k \in 1..Len(a) : a[k] = b[k]
  <2> TAKE k \in 1..Len(a)
  <2>1. i + k - 1 \in 1..(Len(s) + Len(u)) /\ k \in 1..Len(b) /\ k \in 1..(Len(s) + Len(u) - i + 1)
    BY <1>1, <1>3, <1>4
  <2>2. CASE k <= Len(s) - i + 1
    <3>1. k \in 1..(Len(s) - i + 1) /\ i + k - 1 <= Len(s)
      BY <1>1, <2>1, <2>2
    <3> QED BY <1>2, <1>3, <1>4, <1>5, <2>1, <2>2, <3>1 DEF h
  <2>3. CASE ~(k <= Len(s) - i + 1)
    <3>1. ~(i + k - 1 <= Len(s)) /\ i + k - 1 - Len(s) = k - (Len(s) - i + 1)
      BY <1>1, <2>1, <2>3
    <3> QED BY <1>3, <1>4, <1>5, <2>1, <2>3, <3>1
  <2> QED BY <2>2, <2>3
<1>7. Len(a) = Len(b)
  BY <1>1, <1>3, <1>4
<1> HIDE DEF b
<1>8. a = b
  BY <1>3, <1>4, <1>6, <1>7
<1> QED BY <1>2, <1>8 DEF a, b, h

LEMMA StampedOn ==
  ASSUME NEW s \in Seq(Message), NEW v \in Seq(Message), NEW n \in Nat, NEW k \in Nat, n <= k, Stamped(s, n),
         \A i \in DOMAIN v : i = 1 /\ (IsWorldCommand(v[i]) => v[i].step = k + 1)
  PROVE  Stamped(s \o v, k)
<1>1. Stamped(s, k)
  BY StampedLater
<1>2. k + 1 \in Nat /\ 0 < k + 1 /\ DOMAIN v \subseteq Nat
  OBVIOUS
<1>3. Stamped(v, k)
  BY <1>2 DEF Stamped
<1>4. \A i \in DOMAIN s, j \in DOMAIN v :
        IsWorldCommand(s[i]) /\ IsWorldCommand(v[j]) => s[i].step <= v[j].step
  BY <1>1 DEF Stamped
<1> QED BY <1>1, <1>3, <1>4, StampedSplit

(* Time and the map counter of the server do not go back *)
LEMMA ServerForward ==
  ASSUME IInv, IInv', ServerOk, ServerNext
  PROVE  /\ sync[Server] \in Nat /\ sync'[Server] \in Nat /\ sync[Server] <= sync'[Server]
         /\ mc[Server] \in Nat /\ mc'[Server] \in Nat /\ mc[Server] <= mc'[Server]
<1>1. sync[Server] \in Nat /\ sync'[Server] \in Nat /\ mc[Server] \in Nat /\ mc'[Server] \in Nat
  BY NodesFacts DEF IInv, NodeInv
<1>2. CASE UNCHANGED <<sync, mc>>
  BY <1>1, <1>2
<1>3. CASE SrvDrain
  <2>1. CASE UNCHANGED <<sync, mc>>
    BY <1>2, <2>1
  <2> DEFINE new == Head(cmdQ[Server]).new
  <2>2. CASE SyncServer(Head(cmdQ[Server]).id, new) /\ new \in Nat /\ mc[Server] < new
    <3> HIDE DEF new
    <3>1. sync' = sync /\ mc'[Server] = new
      BY <2>2, NodesFacts DEF SyncServer, IInv, NodeInv
    <3> QED BY <1>1, <2>2, <3>1
  <2> QED BY <1>3, <2>1, <2>2, DrainEffect
<1>4. CASE SrvStep
  <2>1. sync'[Server] = sync[Server] + 1 /\ mc' = mc
    BY <1>4, NodesFacts DEF SrvStep, IInv, NodeInv
  <2> QED BY <1>1, <2>1
<1>5. CASE SrvForceSync
  <2>1. CASE UNCHANGED nodeVars
    BY <1>2, <2>1 DEF nodeVars
  <2>2. CASE SyncServer(0, lastMc + 1)
    <3>1. sync' = sync /\ mc'[Server] = lastMc + 1
      BY <2>2, NodesFacts DEF SyncServer, IInv, NodeInv
    <3>2. lastMc \in Nat /\ mc[Server] <= lastMc
      BY DEF IInv, UserInv, ServerOk
    <3> QED BY <1>1, <3>1, <3>2
  <2> QED BY <1>5, <2>1, <2>2 DEF SrvForceSync
<1>6. CASE SrvExecute
  BY <1>2, <1>6 DEF SrvExecute, ExecuteJoin, ExecuteReady, ExecuteRequest, ExecuteWorldCommand, nodeVars
<1>7. CASE \/ SrvSend \/ SrvLoop \/ SrvTool \/ \E c \in Clients : SrvAccept(c) \/ SrvReceive(c)
  BY <1>2, <1>7 DEF SrvSend, SrvLoop, SrvTool, SrvAccept, SrvReceive, nodeVars
<1> QED BY <1>3, <1>4, <1>5, <1>6, <1>7 DEF ServerNext

LEMMA SendStepOk ==
  ASSUME IInv, IInv', ServerOk, SaveInv, \A e \in Clients : SockFine(e), ServerNext,
         NEW d \in Clients, SendOk(d)
  PROVE  SendOk(d)'
<1>1. /\ sync[Server] \in Nat /\ sync'[Server] \in Nat /\ sync[Server] <= sync'[Server]
      /\ mc[Server] \in Nat /\ mc'[Server] \in Nat /\ mc[Server] <= mc'[Server]
  BY ServerForward
<1>2. sendq[d] \in Seq(Message) /\ Broadcast \subseteq Message
  BY StreamTypes, MessagesAre
<1>3. \A i \in DOMAIN sendq[d] : Acts(sendq[d][i]) => sendq[d][i].mc \in Nat
  <2>1. \A m \in Broadcast : Acts(m) => m.mc \in Nat
    BY DEF Broadcast, WorldCommand, Acts
  <2>2. \A i \in DOMAIN sendq[d] : sendq[d][i] \in Broadcast
    BY DownTypes
  <2> QED BY <2>1, <2>2
<1>4. CASE sendq'[d] = sendq[d]
  <2>1. Stamped(sendq[d], sync'[Server])
    BY <1>1, StampedLater DEF SendOk
  <2>2. \A i \in DOMAIN sendq[d] : Acts(sendq[d][i]) => sendq[d][i].mc <= mc'[Server]
    BY <1>1, <1>3 DEF SendOk
  <2> QED BY <1>4, <2>1, <2>2 DEF SendOk
<1>5. CASE sendq'[d] = <<>>
  BY <1>5 DEF SendOk, Stamped
<1>6. ASSUME NEW v \in Seq(Broadcast), sendq'[d] = sendq[d] \o v,
             \A i \in DOMAIN v : /\ i = 1
                                 /\ IsWorldCommand(v[i]) => v[i].step = sync'[Server] + 1
                                 /\ Acts(v[i]) => v[i].mc <= mc[Server]
      PROVE  SendOk(d)'
  <2>1. v \in Seq(Message)
    BY <1>2, SeqMonotonic
  <2>2. Stamped(sendq[d] \o v, sync'[Server])
    BY <1>1, <1>2, <1>6, <2>1, StampedOn DEF SendOk
  <2>3. \A i \in DOMAIN v : Acts(v[i]) => v[i].mc \in Nat
    <3>1. \A m \in Broadcast : Acts(m) => m.mc \in Nat
      BY DEF Broadcast, WorldCommand, Acts
    <3> QED BY <3>1
  <2>4. \A i \in DOMAIN (sendq[d] \o v) : Acts((sendq[d] \o v)[i]) => (sendq[d] \o v)[i].mc <= mc'[Server]
    <3> TAKE i \in DOMAIN (sendq[d] \o v)
    <3>1. \/ i \in DOMAIN sendq[d] /\ (sendq[d] \o v)[i] = sendq[d][i]
          \/ \E j \in DOMAIN v : (sendq[d] \o v)[i] = v[j]
      BY <1>2, <2>1, ConcatElements
    <3>2. \A m, k, l \in Nat : m <= k /\ k <= l => m <= l
      OBVIOUS
    <3>3. CASE i \in DOMAIN sendq[d] /\ (sendq[d] \o v)[i] = sendq[d][i]
      BY <1>1, <1>3, <3>2, <3>3 DEF SendOk
    <3>4. ASSUME NEW j \in DOMAIN v, (sendq[d] \o v)[i] = v[j]
          PROVE  Acts((sendq[d] \o v)[i]) => (sendq[d] \o v)[i].mc <= mc'[Server]
      BY <1>1, <1>6, <2>3, <3>2, <3>4
    <3> QED BY <3>1, <3>3, <3>4
  <2> QED BY <1>6, <2>2, <2>4 DEF SendOk
<1>8. /\ Flushes(d) \/ Loses(d) => sendq'[d] = <<>>
      /\ Syncs(d) => sendq'[d] = sendq[d]
  BY DEF Flushes, Loses, Syncs
<1>9. CASE Tells(d)
  <2>1. PICK v \in Seq(Broadcast) :
          /\ \A i \in DOMAIN v : /\ i = 1
                                 /\ IsWorldCommand(v[i]) => v[i].step = sync'[Server] + 1
                                 /\ Acts(v[i]) => v[i].mc <= mc[Server]
          /\ sendq'[d] = sendq[d] \o v \/ sendq'[d] = sendq[d]
    BY <1>9 DEF Tells
  <2>2. CASE sendq'[d] = sendq[d] \o v
    BY <1>6, <2>1, <2>2
  <2> QED BY <1>4, <2>1, <2>2
<1>10. Tells(d) \/ Flushes(d) \/ Loses(d) \/ Syncs(d)
  BY ServerTells
<1> QED BY <1>4, <1>5, <1>8, <1>9, <1>10

-----------------------------------------------------------------------------
(* A step of the server keeps what a client will hear of it true *)

LEMMA ViewTypes ==
  ASSUME IInv, NEW c \in Clients
  PROVE  /\ cmdQ[c] \in Seq(Message) /\ down[c] \in Seq(Message) /\ sendq[c] \in Seq(Message)
         /\ Stream(c) \in Seq(Message) /\ St(c) \in Game /\ ServerEnd \in Game
         /\ down[c] \in Seq(DownMsg)
         /\ \A i \in DOMAIN down[c] : down[c][i].type = "GAME" /\ i + 1 \in DOMAIN down[c]
                                        /\ down[c][i + 1] \in Ready => Snapshot(c, i) \in Game
<1>1. cmdQ[c] \in Seq(Message) /\ down[c] \in Seq(Message) /\ sendq[c] \in Seq(Message)
      /\ St(c) \in Game /\ ServerEnd \in Game /\ down[c] \in Seq(DownMsg)
  BY StreamTypes, NodesFacts, DownTypes
<1>2. Stream(c) \in Seq(Message)
  BY <1>1 DEF Stream
<1>3. ASSUME NEW i \in DOMAIN down[c], down[c][i].type = "GAME", down[c][i + 1] \in Ready
      PROVE  Snapshot(c, i) \in Game
  <2>1. down[c][i] \in DownMsg
    BY <1>1
  <2>2. down[c][i].world \in World
    BY <1>3, <2>1 DEF DownMsg, Broadcast, WorldCommand, Ready, EofMsg
  <2>3. down[c][i + 1].mc \in Nat
    BY <1>3 DEF Ready
  <2> QED BY <2>2, <2>3 DEF Snapshot, Game
<1> QED BY <1>1, <1>2, <1>3

(* A message v to everybody, after what was on the way, behind a reply u *)
LEMMA RunLater ==
  ASSUME IInv, IInv', NEW d \in Clients, RunOk(d),
         phase'[d] = phase[d], cmdQ'[d] = cmdQ[d], world'[d] = world[d], mc'[d] = mc[d],
         sync[Server] <= sync'[Server], NEW u \in Seq(DownMsg), Silent(u), NEW v \in Seq(Broadcast),
         \A i \in DOMAIN v : i = 1 /\ (IsWorldCommand(v[i]) => v[i].step = sync'[Server] + 1),
         down'[d] = down[d] \o u, sendq'[d] = sendq[d] \o v, ServerEnd' = Outcome(v, ServerEnd)
  PROVE  RunOk(d)'
<1> SUFFICES ASSUME phase[d] \in {"pause", "run"}
             PROVE  /\ Stamped(Stream(d)', sync'[Server])
                    /\ Outcome(Stream(d)', St(d)') = ServerEnd' \/ Doomed(d)'
  BY DEF RunOk
<1> DEFINE q == cmdQ[d]
           b == Outcome(Stream(d), St(d))
<1>1. u \in Seq(Message) /\ v \in Seq(Message)
  BY MessagesAre, SeqMonotonic
<1>2. /\ q \in Seq(Message) /\ down[d] \in Seq(Message) /\ sendq[d] \in Seq(Message) /\ St(d) \in Game
      /\ sync[Server] \in Nat /\ sync'[Server] \in Nat
  BY ViewTypes, NodesFacts DEF IInv, NodeInv
<1>3. Stream(d)' = ((q \o down[d]) \o u) \o (sendq[d] \o v)
  <2>1. (q \o down[d]) \o u = q \o (down[d] \o u)
    BY <1>1, <1>2, Regroup
  <2> QED BY <2>1 DEF Stream
<1>4. q \o down[d] \in Seq(Message) /\ Stream(d) = (q \o down[d]) \o sendq[d]
  BY <1>2 DEF Stream
<1>5. Follows((q \o down[d]) \o sendq[d], St(d), sync[Server], b)
  BY <1>4 DEF Follows, RunOk
<1> HIDE DEF q, b
<1>6. Follows(((q \o down[d]) \o u) \o (sendq[d] \o v), St(d), sync'[Server], Outcome(v, b))
  <2> DEFINE x == q \o down[d]
  <2>1. x \in Seq(Message) /\ Follows(x \o sendq[d], St(d), sync[Server], b)
    BY <1>4, <1>5
  <2> HIDE DEF x
  <2>2. Follows((x \o u) \o (sendq[d] \o v), St(d), sync'[Server], Outcome(v, b))
    BY <1>1, <1>2, <2>1, FollowsOn
  <2> QED BY <2>2 DEF x
<1>7. St(d)' = St(d)
  BY DEF St
<1>8. b = ServerEnd \/ Doomed(d)
  BY DEF b, RunOk
<1>9. Doomed(d) => Doomed(d)'
  <2>1. down[d] # <<>> => down'[d] # <<>> /\ Head(down'[d]) = Head(down[d])
    BY <1>1, <1>2
  <2> QED BY <2>1 DEF Doomed
<1> QED BY <1>3, <1>6, <1>7, <1>8, <1>9 DEF Follows

(* The same for a game that is on the way *)
LEMMA GameLater ==
  ASSUME IInv, IInv', NEW d \in Clients, NEW i \in DOMAIN down[d], down[d][i].type = "GAME",
         i + 1 \in DOMAIN down[d], down[d][i + 1] \in Ready,
         Follows(Rest(d, i), Snapshot(d, i), sync[Server], ServerEnd),
         sync[Server] <= sync'[Server], NEW u \in Seq(DownMsg), Silent(u), NEW v \in Seq(Broadcast),
         \A k \in DOMAIN v : k = 1 /\ (IsWorldCommand(v[k]) => v[k].step = sync'[Server] + 1),
         down'[d] = down[d] \o u, sendq'[d] = sendq[d] \o v, ServerEnd' = Outcome(v, ServerEnd)
  PROVE  /\ i + 1 \in DOMAIN down'[d] /\ down'[d][i + 1] \in Ready
         /\ Follows(Rest(d, i)', Snapshot(d, i)', sync'[Server], ServerEnd')
<1>1. u \in Seq(Message) /\ v \in Seq(Message)
  BY MessagesAre, SeqMonotonic
<1>2. /\ down[d] \in Seq(Message) /\ sendq[d] \in Seq(Message) /\ Snapshot(d, i) \in Game
      /\ sync[Server] \in Nat /\ sync'[Server] \in Nat
  BY ViewTypes, NodesFacts DEF IInv, NodeInv
<1>3. i \in Nat /\ i + 1 \in DOMAIN down'[d] /\ down'[d][i + 1] = down[d][i + 1] /\ down'[d][i] = down[d][i]
      /\ i + 2 \in 1..(Len(down[d]) + 1)
  <2> DEFINE s == down[d]
  <2>1. s \in Seq(Message) /\ i \in DOMAIN s /\ i + 1 \in DOMAIN s /\ down'[d] = s \o u
    BY <1>2
  <2> HIDE DEF s
  <2>2. DOMAIN s = 1..Len(s) /\ Len(s) \in Nat /\ \A k \in DOMAIN s : k \in DOMAIN (s \o u) /\ (s \o u)[k] = s[k]
    BY <1>1, <2>1
  <2>3. i \in Nat /\ i + 2 \in 1..(Len(s) + 1)
    BY <2>1, <2>2
  <2> QED BY <2>1, <2>2, <2>3 DEF s
<1> DEFINE x == SubSeq(down[d], i + 2, Len(down[d]))
<1>4. SubSeq(down'[d], i + 2, Len(down'[d])) = x \o u /\ x \in Seq(Message)
  <2> DEFINE s == down[d]
  <2>1. s \in Seq(Message) /\ down'[d] = s \o u
    BY <1>2
  <2> HIDE DEF s
  <2>2. /\ SubSeq(s \o u, i + 2, Len(s \o u)) = SubSeq(s, i + 2, Len(s)) \o u
        /\ SubSeq(s, i + 2, Len(s)) \in Seq(Message)
    <3>1. i + 2 \in 1..(Len(s) + 1)
      BY <1>3 DEF s
    <3> QED BY <1>1, <2>1, <3>1, RestOfConcat, ZenonT(60)
  <2> QED BY <2>1, <2>2 DEF s
<1>5. Rest(d, i)' = (x \o u) \o (sendq[d] \o v) /\ Rest(d, i) = x \o sendq[d]
  BY <1>4 DEF Rest
<1> HIDE DEF x
<1>6. Follows((x \o u) \o (sendq[d] \o v), Snapshot(d, i), sync'[Server], Outcome(v, ServerEnd))
  BY <1>1, <1>2, <1>4, <1>5, FollowsOn
<1>7. Snapshot(d, i)' = Snapshot(d, i)
  BY <1>3 DEF Snapshot
<1> QED BY <1>3, <1>5, <1>6, <1>7

(* A game that can still be loaded was acceptable before, unless the reply is new *)
LEMMA AcceptableLater ==
  ASSUME IInv, NEW d \in Clients, phase'[d] = phase[d], NEW u \in Seq(DownMsg), down'[d] = down[d] \o u,
         NEW i \in DOMAIN down'[d], Acceptable(d, i)', SockFine(d)
  PROVE  i \in DOMAIN down[d] => Acceptable(d, i) /\ ~Asking(d)
<1> SUFFICES ASSUME i \in DOMAIN down[d] PROVE Acceptable(d, i) /\ ~Asking(d)
  OBVIOUS
<1>1. down[d] \in Seq(DownMsg)
  BY DownTypes
<1>2. \A j \in 1..i : j \in DOMAIN down[d] /\ down'[d][j] = down[d][j]
  BY <1>1
<1>3. i \in 1..i /\ \A j \in 1..(i - 1) : j \in 1..i
  BY <1>1
<1>4. Acceptable(d, i)
  BY <1>2, <1>3 DEF Acceptable
<1>5. ~Asking(d)
  BY <1>2, <1>3, <1>4 DEF Acceptable, SockFine
<1> QED BY <1>4, <1>5

LEMMA TellsView ==
  ASSUME IInv, IInv', NEW d \in Clients, SockFine(d), ViewOk(d), Tells(d),
         phase'[d] = phase[d], cmdQ'[d] = cmdQ[d], world'[d] = world[d], mc'[d] = mc[d],
         sync[Server] <= sync'[Server]
  PROVE  ViewOk(d)'
<1> SUFFICES ASSUME sock'[d] = "playing" PROVE RunOk(d)' /\ GameOk(d)'
  BY DEF ViewOk
<1>1. PICK v \in Seq(Broadcast), u \in Seq(DownMsg) :
        /\ \A i \in DOMAIN v : i = 1 /\ (IsWorldCommand(v[i]) => v[i].step = sync'[Server] + 1)
        /\ sock[d] = "playing" /\ ServerEnd' = Outcome(v, ServerEnd)
        /\ sendq'[d] = sendq[d] \o v
        /\ down'[d] = down[d] \o u
        /\ Silent(u) \/ Asking(d)
        /\ \A i \in DOMAIN u : u[i].type # "GAME"
  BY DEF Tells, Open
<1>2. RunOk(d)'
  <2>1. CASE phase[d] \in {"pause", "run"}
    <3>1. Silent(u) /\ RunOk(d)
      BY <1>1, <2>1 DEF SockFine, ViewOk
    <3> QED BY <1>1, <3>1, RunLater
  <2>2. CASE phase[d] \notin {"pause", "run"}
    BY <2>2 DEF RunOk
  <2> QED BY <2>1, <2>2
<1>3. GameOk(d)'
  <2> SUFFICES ASSUME NEW i \in DOMAIN down'[d], Acceptable(d, i)'
               PROVE  /\ i + 1 \in DOMAIN down'[d] /\ down'[d][i + 1] \in Ready
                      /\ Follows(Rest(d, i)', Snapshot(d, i)', sync'[Server], ServerEnd')
    BY DEF GameOk
  <2>1. down'[d][i].type = "GAME"
    BY DEF Acceptable
  <2>2. i \in DOMAIN down[d] /\ down'[d][i] = down[d][i]
    BY <1>1, <2>1, DownTypes, ConcatElements
  <2>3. Acceptable(d, i) /\ ~Asking(d)
    BY <1>1, <2>2, AcceptableLater
  <2>4. /\ i + 1 \in DOMAIN down[d] /\ down[d][i + 1] \in Ready
        /\ Follows(Rest(d, i), Snapshot(d, i), sync[Server], ServerEnd)
    BY <1>1, <2>2, <2>3 DEF ViewOk, GameOk
  <2> QED BY <1>1, <2>1, <2>2, <2>3, <2>4, GameLater
<1> QED BY <1>2, <1>3

-----------------------------------------------------------------------------
(* The send queue goes out, or the client reads: nothing in a send queue is a game *)

LEMMA NoGameOnTheWay ==
  ASSUME NEW s \in Seq(Broadcast)
  PROVE  \A i \in DOMAIN s : s[i].type # "GAME" /\ s[i].type # "READY" /\ s[i].type # "JOIN"
<1>1. \A m \in Broadcast : m.type # "GAME" /\ m.type # "READY" /\ m.type # "JOIN"
  BY DEF Broadcast, WorldCommand
<1> QED BY <1>1

LEMMA FlushesView ==
  ASSUME IInv, IInv', NEW d \in Clients, SockFine(d), ViewOk(d), Flushes(d),
         phase'[d] = phase[d], cmdQ'[d] = cmdQ[d], world'[d] = world[d], mc'[d] = mc[d]
  PROVE  ViewOk(d)'
<1> DEFINE s == down[d]
           y == sendq[d]
           q == cmdQ[d]
<1>1. CASE Gone(d)
  BY <1>1 DEF Gone, ViewOk, RunOk, GameOk, Acceptable
<1>2. CASE ~Gone(d)
  <2> SUFFICES ASSUME sock'[d] = "playing" PROVE RunOk(d)' /\ GameOk(d)'
    BY DEF ViewOk
  <2>1. /\ RunOk(d) /\ GameOk(d) /\ ServerEnd' = ServerEnd /\ sync'[Server] = sync[Server]
        /\ down'[d] = s \o y /\ sendq'[d] = <<>>
    BY <1>2 DEF Flushes, ViewOk
  <2>2. /\ s \in Seq(Message) /\ y \in Seq(Message) /\ q \in Seq(Message) /\ y \in Seq(Broadcast)
        /\ s \in Seq(DownMsg) /\ y \in Seq(DownMsg)
    BY ViewTypes, DownTypes
  <2>3. Stream(d)' = (q \o (s \o y)) \o <<>> /\ Stream(d) = (q \o s) \o y /\ St(d)' = St(d)
    BY <2>1 DEF Stream, St
  <2>4. Doomed(d) => q = <<>> /\ s # <<>> /\ Head(s).type = "READY" /\ Head(s).mc # mc[d]
    BY DEF Doomed
  <2>5. q = <<>> /\ s \o y # <<>> /\ Head(s \o y).type = "READY" /\ Head(s \o y).mc # mc[d] => Doomed(d)'
    BY <2>1 DEF Doomed
  <2>6. \A i \in DOMAIN s : down'[d][i] = s[i] /\ i \in DOMAIN down'[d]
    <3> HIDE DEF s, y
    <3> QED BY <2>1, <2>2
  <2>7. ASSUME NEW i \in DOMAIN down'[d], Acceptable(d, i)'
        PROVE  /\ i + 1 \in DOMAIN down'[d] /\ down'[d][i + 1] \in Ready
               /\ Follows(Rest(d, i)', Snapshot(d, i)', sync'[Server], ServerEnd')
    <3>1. i \in DOMAIN s
      <4>1. down'[d][i].type = "GAME"
        BY <2>7 DEF Acceptable
      <4> HIDE DEF s, y
      <4>2. i \in DOMAIN (s \o y) /\ (s \o y)[i].type = "GAME"
        BY <2>1, <2>7, <4>1
      <4>3. i \in DOMAIN s \/ \E j \in DOMAIN y : (s \o y)[i] = y[j]
        BY <2>2, <4>2, ConcatElements
      <4> QED BY <2>2, <4>2, <4>3, NoGameOnTheWay
    <3>2. Acceptable(d, i)
      BY <2>1, <2>2, <2>7, <3>1, AcceptableLater
    <3>3. /\ i + 1 \in DOMAIN s /\ s[i + 1] \in Ready
          /\ Follows(Rest(d, i), Snapshot(d, i), sync[Server], ServerEnd)
      BY <2>1, <3>1, <3>2 DEF GameOk
    <3>4. Snapshot(d, i)' = Snapshot(d, i)
      BY <2>6, <3>1, <3>3 DEF Snapshot
    <3>5. Rest(d, i)' = SubSeq(s \o y, i + 2, Len(s \o y)) \o <<>> /\ Rest(d, i) = SubSeq(s, i + 2, Len(s)) \o y
      BY <2>1 DEF Rest
    <3> HIDE DEF s, y
    <3>6. i + 2 \in 1..(Len(s) + 1)
      BY <2>2, <3>1, <3>3
    <3>7. SubSeq(s \o y, i + 2, Len(s \o y)) = SubSeq(s, i + 2, Len(s)) \o y /\ SubSeq(s, i + 2, Len(s)) \in Seq(Message)
      BY <2>2, <3>6, RestOfConcat, ZenonT(60)
    <3>8. SubSeq(s \o y, i + 2, Len(s \o y)) \o <<>> = SubSeq(s, i + 2, Len(s)) \o y
      <4> DEFINE x == SubSeq(s, i + 2, Len(s))
      <4>1. x \in Seq(Message)
        BY <3>7
      <4> HIDE DEF x
      <4>2. (x \o y) \o <<>> = x \o y
        BY <2>2, <4>1
      <4> QED BY <3>7, <4>2 DEF x
    <3> QED BY <2>1, <2>6, <3>1, <3>3, <3>4, <3>5, <3>8
  <2> HIDE DEF s, y, q
  <2>8. (q \o (s \o y)) \o <<>> = (q \o s) \o y
    <3> DEFINE t == s \o y
    <3>1. t \in Seq(Message)
      BY <2>2
    <3>2. (q \o s) \o y = q \o t
      BY <2>2, Regroup
    <3> HIDE DEF t
    <3>3. (q \o t) \o <<>> = q \o t
      BY <2>2, <3>1
    <3> QED BY <3>2, <3>3 DEF t
  <2>9. Doomed(d) => Doomed(d)'
    <3>1. s # <<>> => s \o y # <<>> /\ Head(s \o y) = Head(s)
      BY <2>2
    <3> QED BY <2>4, <2>5, <3>1
  <2>10. RunOk(d)'
    BY <2>1, <2>3, <2>8, <2>9 DEF RunOk
  <2> QED BY <2>7, <2>10 DEF GameOk
<1> QED BY <1>1, <1>2

LEMMA TwoMore ==
  ASSUME NEW S, NEW s \in Seq(S), NEW u \in Seq(S), Len(u) = 2
  PROVE  /\ Len(s) \in Nat /\ Len(s \o u) = Len(s) + 2 /\ DOMAIN (s \o u) = 1..(Len(s) + 2)
         /\ (s \o u)[Len(s) + 1] = u[1] /\ (s \o u)[Len(s) + 2] = u[2]
<1>1. /\ s \o u \in Seq(S) /\ Len(s) \in Nat /\ Len(s \o u) = Len(s) + 2
      /\ \A k \in 1..(Len(s) + 2) : (s \o u)[k] = IF k <= Len(s) THEN s[k] ELSE u[k - Len(s)]
  <2>1. /\ s \o u \in Seq(S) /\ Len(s) \in Nat /\ Len(s \o u) = Len(s) + Len(u)
        /\ \A k \in 1..(Len(s) + Len(u)) : (s \o u)[k] = IF k <= Len(s) THEN s[k] ELSE u[k - Len(s)]
    BY ConcatProperties, LenProperties
  <2> QED BY <2>1
<1>2. DOMAIN (s \o u) = 1..(Len(s) + 2)
  BY <1>1
<1> QED BY <1>1, <1>2

(* A game is sent: what waits in the send queue is for a map counter that is over *)
LEMMA FreshGame ==
  ASSUME IInv, NEW d \in Clients, SendOk(d), NEW file \in World, NEW new \in Nat, mc[Server] < new
  PROVE  Follows(sendq[d], [world |-> file, mc |-> new], sync[Server], [world |-> file, mc |-> new])
<1> DEFINE a == [world |-> file, mc |-> new]
           y == sendq[d]
<1>1. a \in Game /\ a.mc = new
  BY DEF Game
<1>2. y \in Seq(Message) /\ \A i \in DOMAIN y : Acts(y[i]) => y[i].mc <= mc[Server] /\ y[i].mc \in Nat
  <2>1. \A m \in Broadcast : Acts(m) => m.mc \in Nat
    BY DEF Broadcast, WorldCommand, Acts
  <2> QED BY <2>1, ViewTypes, DownTypes DEF SendOk
<1>3. mc[Server] \in Nat
  BY NodesFacts DEF IInv, NodeInv
<1> HIDE DEF a, y
<1>4. \A i \in DOMAIN y : Acts(y[i]) => y[i].mc # a.mc
  BY <1>1, <1>2, <1>3
<1>5. \A i \in DOMAIN y : PlayedOn(a, y[i]) = a
  BY <1>1, <1>4, ForeignChangesNothing, InertChangesNothing
<1>6. Outcome(y, a) = a
  BY <1>1, <1>2, <1>5, OutcomeSame
<1> QED BY <1>6 DEF Follows, SendOk, a, y

LEMMA SyncsView ==
  ASSUME IInv, IInv', NEW d \in Clients, SockFine(d), ViewOk(d), SendOk(d), Syncs(d),
         phase'[d] = phase[d], cmdQ'[d] = cmdQ[d], world'[d] = world[d], mc'[d] = mc[d]
  PROVE  ViewOk(d)'
<1>1. CASE Gone(d)
  BY <1>1 DEF Gone, ViewOk, RunOk, GameOk, Acceptable
<1>2. CASE ~Gone(d)
  <2>1. PICK file \in World, new \in Nat, m \in Ready :
          /\ ServerEnd' = [world |-> file, mc |-> new] /\ mc[Server] < new /\ sync'[Server] = sync[Server]
          /\ sock[d] = "playing" => ServerEnd' = ServerEnd
          /\ sock[d] \in {"connected", "playing"}
          /\ sendq'[d] = sendq[d]
          /\ m.mc = new /\ down'[d] = down[d] \o <<GameMsg(file), m>>
    BY <1>2 DEF Syncs
  <2> DEFINE g == GameMsg(file)
             u == <<g, m>>
             s == down[d]
             n == sync[Server]
  <2>2. g \in DownMsg /\ g.type = "GAME" /\ g.world = file /\ m \in DownMsg /\ m.type = "READY"
    BY ReplyTypes DEF GameMsg, DownMsg, Ready
  <2>3. s \in Seq(DownMsg) /\ s \in Seq(Message) /\ n \in Nat
    BY ViewTypes, NodesFacts DEF IInv, NodeInv
  <2> HIDE DEF g
  <2>4. u \in Seq(DownMsg) /\ DOMAIN u = {1, 2} /\ Len(u) = 2 /\ u[1] = g /\ u[2] = m
    BY <2>2
  <2>5. Silent(u)
    BY <2>2, <2>4 DEF Silent, IsWorldCommand
  <2>6. down'[d] = s \o u
    BY <2>1 DEF g
  <2> HIDE DEF u
  <2>7. <<>> \in Seq(Broadcast) /\ \A i \in DOMAIN <<>> : FALSE
    OBVIOUS
  <2>8. sendq'[d] = sendq[d] \o <<>>
    BY <2>1, DownTypes, NothingAtEnd
  <2>9. sock[d] = "playing" => ServerEnd' = Outcome(<<>>, ServerEnd)
    BY <2>1, OutcomeNothing, ViewTypes
  <2>10. sync[Server] <= sync'[Server]
    BY <2>1, <2>3
  <2>11. RunOk(d)'
    <3>1. CASE phase[d] \in {"pause", "run"}
      <4>1. sock[d] = "playing" /\ RunOk(d)
        BY <2>1, <3>1 DEF SockFine, ViewOk
      <4> QED BY <2>4, <2>5, <2>6, <2>7, <2>8, <2>9, <2>10, <4>1, RunLater
    <3>2. CASE phase[d] \notin {"pause", "run"}
      BY <3>2 DEF RunOk
    <3> QED BY <3>1, <3>2
  <2>12. ASSUME NEW i \in DOMAIN down'[d], Acceptable(d, i)'
         PROVE  /\ i + 1 \in DOMAIN down'[d] /\ down'[d][i + 1] \in Ready
                /\ Follows(Rest(d, i)', Snapshot(d, i)', sync'[Server], ServerEnd')
    <3>1. down'[d][i].type = "GAME"
      BY <2>12 DEF Acceptable
    <3>2. \/ i \in DOMAIN s /\ down'[d][i] = s[i]
          \/ i = Len(s) + 1
      <4>1. \/ i \in DOMAIN s /\ (s \o u)[i] = s[i]
            \/ \E j \in DOMAIN u : i = Len(s) + j /\ (s \o u)[i] = u[j]
        BY <2>3, <2>4, <2>6, ConcatElements
      <4> QED BY <2>2, <2>4, <2>6, <3>1, <4>1
    <3>3. CASE i \in DOMAIN s /\ down'[d][i] = s[i]
      <4>1. sock[d] = "playing"
        BY <2>1, <3>1, <3>3 DEF SockFine
      <4>2. Acceptable(d, i)
        BY <2>4, <2>6, <2>12, <3>3, AcceptableLater
      <4>3. /\ i + 1 \in DOMAIN down[d] /\ down[d][i + 1] \in Ready
            /\ Follows(Rest(d, i), Snapshot(d, i), sync[Server], ServerEnd)
        BY <3>3, <4>1, <4>2 DEF ViewOk, GameOk
      <4> QED BY <2>4, <2>5, <2>6, <2>7, <2>8, <2>9, <2>10, <3>1, <3>3, <4>1, <4>3, GameLater
    <3>4. CASE i = Len(s) + 1
      <4> HIDE DEF s
      <4>1. /\ i + 1 \in DOMAIN down'[d] /\ down'[d][i] = g /\ down'[d][i + 1] = m
            /\ i + 2 = Len(down'[d]) + 1 /\ Len(down'[d]) \in Nat
        <5>1. Len(s \o u) = Len(s) + 2 /\ Len(s) \in Nat /\ DOMAIN (s \o u) = 1..(Len(s) + 2)
              /\ (s \o u)[Len(s) + 1] = g /\ (s \o u)[Len(s) + 2] = m
          <6>1. s \in Seq(DownMsg) /\ u \in Seq(DownMsg) /\ Len(u) = 2
            BY <2>3, <2>4
          <6> QED BY <2>4, <6>1, TwoMore
        <5>2. i + 1 = Len(s) + 2 /\ i + 2 = Len(s) + 3
          BY <3>4, <5>1
        <5> QED BY <2>6, <3>4, <5>1, <5>2
      <4>2. SubSeq(down'[d], i + 2, Len(down'[d])) = <<>>
        <5>1. s \o u \in Seq(DownMsg)
          BY <2>3, <2>4
        <5> DEFINE t == down'[d]
        <5>2. t \in Seq(DownMsg) /\ i + 2 = Len(t) + 1 /\ Len(t) \in Nat
          BY <2>6, <4>1, <5>1
        <5> HIDE DEF t
        <5>3. SubSeq(t, Len(t) + 1, Len(t)) = <<>>
          BY <5>2
        <5> QED BY <5>2, <5>3 DEF t
      <4>3. Rest(d, i)' = sendq[d]
        <5>1. <<>> \o sendq[d] = sendq[d]
          BY DownTypes
        <5> QED BY <2>1, <4>2, <5>1 DEF Rest
      <4>4. Snapshot(d, i)' = [world |-> file, mc |-> new]
        BY <2>1, <2>2, <4>1 DEF Snapshot
      <4> QED BY <2>1, <4>1, <4>3, <4>4, FreshGame
    <3> QED BY <3>2, <3>3, <3>4
  <2> QED BY <2>11, <2>12 DEF ViewOk, GameOk
<1> QED BY <1>1, <1>2

LEMMA ViewServerStep ==
  ASSUME IInv, IInv', ServerOk, SaveInv, \A e \in Clients : SockFine(e), ServerNext,
         NEW d \in Clients, SendOk(d), ViewOk(d)
  PROVE  ViewOk(d)'
<1>1. phase'[d] = phase[d] /\ cmdQ'[d] = cmdQ[d] /\ world'[d] = world[d] /\ mc'[d] = mc[d]
  BY ServerTouchesNoClient
<1>2. sync[Server] <= sync'[Server]
  BY ServerForward
<1>3. Loses(d) => ViewOk(d)'
  BY DEF Loses, ViewOk
<1> QED BY <1>1, <1>2, <1>3, ServerTells, TellsView, FlushesView, SyncsView

-----------------------------------------------------------------------------
(* Messages without effect leave a stream, others move to the command queue *)

LEMMA FollowsTypes ==
  ASSUME NEW x \in Seq(Message), NEW y \in Seq(Message), NEW m \in Message
  PROVE  /\ <<m>> \in Seq(Message) /\ <<m>> \o y \in Seq(Message) /\ x \o y \in Seq(Message)
         /\ x \o (<<m>> \o y) = Append(x, m) \o y /\ Append(x, m) \in Seq(Message)
<1>1. <<m>> \in Seq(Message) /\ Append(x, m) = x \o <<m>> /\ Append(x, m) \in Seq(Message)
  OBVIOUS
<1>2. (x \o <<m>>) \o y = x \o (<<m>> \o y)
  BY <1>1, Regroup
<1>3. <<m>> \o y \in Seq(Message) /\ x \o y \in Seq(Message)
  BY <1>1
<1> QED BY <1>1, <1>2, <1>3

LEMMA FollowsDropped ==
  ASSUME NEW x \in Seq(Message), NEW y \in Seq(Message), NEW m \in Message, NEW a \in Game, NEW n \in Nat, NEW b,
         Follows(x \o (<<m>> \o y), a, n, b), ~Acts(m)
  PROVE  Follows(x \o y, a, n, b)
<1>1. <<m>> \in Seq(Message) /\ <<m>> \o y \in Seq(Message)
  BY FollowsTypes
<1>2. /\ Stamped(x, n) /\ Stamped(<<m>> \o y, n)
      /\ \A i \in DOMAIN x, j \in DOMAIN (<<m>> \o y) :
           IsWorldCommand(x[i]) /\ IsWorldCommand((<<m>> \o y)[j]) => x[i].step <= (<<m>> \o y)[j].step
  BY <1>1, StampedSplit DEF Follows
<1>3. Stamped(y, n)
  BY <1>1, <1>2, StampedSplit
<1>4. \A j \in DOMAIN y : j + 1 \in DOMAIN (<<m>> \o y) /\ (<<m>> \o y)[j + 1] = y[j]
  OBVIOUS
<1>5. Stamped(x \o y, n)
  BY <1>2, <1>3, <1>4, StampedSplit
<1>6. Outcome(x \o (<<m>> \o y), a) = Outcome(x \o y, a)
  <2>1. Outcome(x, a) \in Game
    BY PlaysOnce
  <2>2. Outcome(x \o (<<m>> \o y), a) = Outcome(<<m>> \o y, Outcome(x, a))
    BY <1>1, OutcomeConcat
  <2>3. Outcome(<<m>> \o y, Outcome(x, a)) = Outcome(y, PlayedOn(Outcome(x, a), m))
    BY <2>1, OutcomeFirst
  <2>4. PlayedOn(Outcome(x, a), m) = Outcome(x, a)
    BY <2>1, InertChangesNothing
  <2>5. Outcome(x \o y, a) = Outcome(y, Outcome(x, a))
    BY OutcomeConcat
  <2> QED BY <2>2, <2>3, <2>4, <2>5
<1> QED BY <1>5, <1>6 DEF Follows

LEMMA FollowsHead ==
  ASSUME NEW y \in Seq(Message), NEW m \in Message, NEW a \in Game, NEW n \in Nat, NEW b,
         Follows(<<m>> \o y, a, n, b)
  PROVE  /\ Follows(y, PlayedOn(a, m), n, b)
         /\ IsWorldCommand(m) => 0 < m.step /\ m.step <= n + 1
<1>1. <<m>> \in Seq(Message) /\ DOMAIN <<m>> = {1} /\ <<m>>[1] = m
  OBVIOUS
<1>2. Stamped(<<m>>, n) /\ Stamped(y, n)
  BY <1>1, StampedSplit DEF Follows
<1>3. Outcome(<<m>> \o y, a) = Outcome(y, PlayedOn(a, m))
  BY OutcomeFirst
<1> QED BY <1>1, <1>2, <1>3 DEF Follows, Stamped

LEMMA FollowsSorted ==
  ASSUME NEW x \in Seq(Message), NEW y \in Seq(Message), NEW m \in Message, NEW n \in Nat,
         Stamped(x \o (<<m>> \o y), n), IsWorldCommand(m)
  PROVE  \A i \in DOMAIN x : IsWorldCommand(x[i]) => x[i].step <= m.step
<1>1. <<m>> \o y \in Seq(Message) /\ 1 \in DOMAIN (<<m>> \o y) /\ (<<m>> \o y)[1] = m
  OBVIOUS
<1> QED BY <1>1, StampedSplit

LEMMA Piece ==
  ASSUME NEW S, NEW s \in Seq(S), NEW i \in 1..(Len(s) + 1)
  PROVE  LET h == SubSeq(s, i, Len(s)) IN
         /\ h \in Seq(S) /\ Len(h) = Len(s) - i + 1 /\ \A k \in 1..Len(h) : h[k] = s[i + k - 1]
<1>1. Len(s) \in Nat
  OBVIOUS
<1> QED BY <1>1

LEMMA RestOfTail ==
  ASSUME NEW S, NEW s \in Seq(S), s # <<>>, NEW i \in Nat, i + 2 \in DOMAIN s
  PROVE  SubSeq(Tail(s), i + 2, Len(Tail(s))) = SubSeq(s, i + 3, Len(s))
<1>1. Len(s) \in Nat /\ Len(Tail(s)) = Len(s) - 1 /\ Tail(s) \in Seq(S) /\ DOMAIN s = 1..Len(s)
      /\ \A k \in 1..(Len(s) - 1) : Tail(s)[k] = s[k + 1]
  BY SMTT(40)
<1> DEFINE a == SubSeq(Tail(s), i + 2, Len(Tail(s)))
           b == SubSeq(s, i + 3, Len(s))
<1>2. a \in Seq(S) /\ Len(a) = Len(s) - i - 2 /\ \A k \in 1..(Len(s) - i - 2) : a[k] = Tail(s)[i + 2 + k - 1]
  <2> DEFINE t == Tail(s)
  <2>1. t \in Seq(S) /\ Len(t) = Len(s) - 1 /\ i + 2 \in 1..(Len(t) + 1) /\ Len(t) \in Nat
    BY <1>1
  <2> HIDE DEF t
  <2>2. LET h == SubSeq(t, i + 2, Len(t)) IN
        h \in Seq(S) /\ Len(h) = Len(t) - (i + 2) + 1 /\ \A k \in 1..Len(h) : h[k] = t[i + 2 + k - 1]
    BY <2>1, Piece
  <2>3. Len(t) - (i + 2) + 1 = Len(s) - i - 2
    BY <1>1, <2>1, SMTT(40)
  <2> QED BY <2>2, <2>3, ZenonT(60) DEF t
<1>3. b \in Seq(S) /\ Len(b) = Len(s) - i - 2 /\ \A k \in 1..(Len(s) - i - 2) : b[k] = s[i + 3 + k - 1]
  <2>1. i + 3 \in 1..(Len(s) + 1)
    BY <1>1
  <2>2. b \in Seq(S) /\ Len(b) = Len(s) - (i + 3) + 1 /\ \A k \in 1..Len(b) : b[k] = s[i + 3 + k - 1]
    BY <2>1, Piece
  <2>3. Len(s) - (i + 3) + 1 = Len(s) - i - 2
    BY <1>1
  <2> QED BY <2>2, <2>3, ZenonT(60)
<1> HIDE DEF a, b
<1>4. \A k \in 1..(Len(s) - i - 2) : a[k] = b[k]
  <2> TAKE k \in 1..(Len(s) - i - 2)
  <2>1. i + 2 + k - 1 \in 1..(Len(s) - 1) /\ (i + 2 + k - 1) + 1 = i + 3 + k - 1
    BY <1>1
  <2> QED BY <1>1, <1>2, <1>3, <2>1
<1>5. a = b
  BY <1>2, <1>3, <1>4
<1> QED BY <1>5 DEF a, b

(* The programs of the clients do not reach the send queues and the future of the server *)
LEMMA ClientKeepsEnd ==
  ASSUME IInv, IInv', NEW c \in Clients, ClientNext(c)
  PROVE  /\ ServerEnd' = ServerEnd /\ sync'[Server] = sync[Server] /\ mc'[Server] = mc[Server]
         /\ sendq' = sendq /\ rcvd' = rcvd
<1>1. rcvd' = rcvd /\ sendq' = sendq
  BY DEF ClientNext, CliConnect, CliReceive, CliDrain, CliStep, CliTool, CliLeave, serverVars, sockVars
<1>2. /\ sync'[Server] = sync[Server] /\ mc'[Server] = mc[Server]
      /\ world'[Server] = world[Server] /\ cmdQ'[Server] = cmdQ[Server]
  BY ClientKeepsServer
<1>3. ServerEnd' = ServerEnd
  BY <1>1, <1>2 DEF ServerEnd, ServerStream, Msgs, St
<1> QED BY <1>1, <1>2, <1>3

LEMMA ViewSame ==
  ASSUME NEW d \in Clients, ViewOk(d), sock'[d] = sock[d],
         phase'[d] = phase[d], cmdQ'[d] = cmdQ[d], world'[d] = world[d], mc'[d] = mc[d], down'[d] = down[d],
         sendq' = sendq, ServerEnd' = ServerEnd, sync'[Server] = sync[Server]
  PROVE  ViewOk(d)'
<1>1. /\ Stream(d)' = Stream(d) /\ St(d)' = St(d) /\ Doomed(d)' = Doomed(d)
  BY DEF Stream, St, Doomed
<1>2. RunOk(d) => RunOk(d)'
  BY <1>1 DEF RunOk
<1>3. \A i : Acceptable(d, i)' = Acceptable(d, i) /\ Snapshot(d, i)' = Snapshot(d, i) /\ Rest(d, i)' = Rest(d, i)
  BY DEF Acceptable, Snapshot, Rest
<1>4. GameOk(d) => GameOk(d)'
  BY <1>3 DEF GameOk
<1> QED BY <1>2, <1>4 DEF ViewOk

LEMMA ViewOut ==
  ASSUME NEW c \in Clients, phase'[c] \in {"out", "desync"} \/ sock'[c] # "playing"
  PROVE  ViewOk(c)'
BY DEF ViewOk, RunOk, GameOk, Acceptable

LEMMA DisconnectOut ==
  ASSUME IInv, NEW c \in Clients, NEW to \in {"out", "desync"}, Disconnect(c, to)
  PROVE  phase'[c] = to /\ ViewOk(c)'
<1>1. phase'[c] = to
  BY NodesFacts DEF Disconnect, IInv, NodeInv
<1> QED BY <1>1, ViewOut

(* What is next of the stream, at the head of what is read *)
LEMMA StreamRead ==
  ASSUME IInv, NEW c \in Clients, down[c] # <<>>
  PROVE  LET m == Head(down[c])
             y == Tail(down[c]) \o sendq[c]
         IN  /\ m \in DownMsg /\ m \in Message /\ y \in Seq(Message)
             /\ Stream(c) = cmdQ[c] \o (<<m>> \o y)
             /\ down'[c] = Tail(down[c]) /\ sendq'[c] = sendq[c] => Stream(c)' = cmdQ'[c] \o y \/ cmdQ'[c] \notin Seq(Message)
<1> DEFINE m == Head(down[c])
           t == Tail(down[c])
           z == sendq[c]
           y == t \o z
<1>1. /\ cmdQ[c] \in Seq(Message) /\ down[c] \in Seq(Message) /\ z \in Seq(Message)
      /\ m \in DownMsg /\ m \in Message /\ t \in Seq(Message) /\ down[c] = <<m>> \o t
  BY ViewTypes, Beginning
<1>2. Stream(c) = (cmdQ[c] \o (<<m>> \o t)) \o z
  BY <1>1 DEF Stream
<1>3. ASSUME down'[c] = Tail(down[c]), sendq'[c] = sendq[c] PROVE Stream(c)' = (cmdQ'[c] \o t) \o z
  BY <1>3 DEF Stream
<1> HIDE DEF m, t, z
<1>4. <<m>> \in Seq(Message) /\ <<m>> \o t \in Seq(Message) /\ y \in Seq(Message)
  BY <1>1
<1>5. (cmdQ[c] \o (<<m>> \o t)) \o z = cmdQ[c] \o (<<m>> \o y)
  <2> DEFINE q == cmdQ[c]
             x == <<m>> \o t
             o == <<m>>
  <2>1. q \in Seq(Message) /\ x \in Seq(Message) /\ z \in Seq(Message) /\ o \in Seq(Message) /\ x = o \o t
    BY <1>1, <1>4
  <2> HIDE DEF q, x, o
  <2>2. (q \o x) \o z = q \o (x \o z)
    BY <2>1, Regroup, ZenonT(60)
  <2>3. (o \o t) \o z = o \o (t \o z)
    <3>1. o \in Seq(Message) /\ t \in Seq(Message) /\ z \in Seq(Message)
      BY <1>1, <2>1
    <3> HIDE DEF y
    <3> QED BY <3>1, Regroup
  <2> QED BY <2>1, <2>2, <2>3 DEF q, x, o
<1>6. \A q \in Seq(Message) : (q \o t) \o z = q \o y
  BY <1>1, Regroup
<1> QED BY <1>1, <1>2, <1>3, <1>4, <1>5, <1>6 DEF m, t, z

-----------------------------------------------------------------------------
(* What a step of client c leaves of the rest of the system *)
Elsewhere(c) ==
  /\ ServerEnd' = ServerEnd /\ sync'[Server] = sync[Server] /\ sendq' = sendq
  /\ sock'[c] = sock[c]

LEMMA RunningView ==
  ASSUME NEW c \in Clients, Elsewhere(c), phase'[c] \in {"pause", "run"},
         sock[c] = "playing" => Follows(Stream(c)', St(c)', sync[Server], ServerEnd)
  PROVE  ViewOk(c)'
BY DEF Elsewhere, ViewOk, RunOk, GameOk, Acceptable, Follows

LEMMA RunFollows ==
  ASSUME IInv, NEW c \in Clients, ViewOk(c), sock[c] = "playing", phase[c] \in {"pause", "run"}, ~Doomed(c)
  PROVE  Follows(Stream(c), St(c), sync[Server], ServerEnd)
BY DEF ViewOk, RunOk, Follows

LEMMA ReadingView ==
  ASSUME IInv, NEW c \in Clients, ViewOk(c), Elsewhere(c), down[c] # <<>>,
         phase[c] \in {"pause", "run"}, phase'[c] \in {"pause", "run"}, ~Doomed(c),
         ~Acts(Head(down[c])), down'[c] = Tail(down[c]),
         cmdQ'[c] = cmdQ[c], world'[c] = world[c], mc'[c] = mc[c]
  PROVE  ViewOk(c)'
<1> SUFFICES ASSUME sock[c] = "playing" PROVE Follows(Stream(c)', St(c)', sync[Server], ServerEnd)
  BY RunningView
<1> DEFINE m == Head(down[c])
           y == Tail(down[c]) \o sendq[c]
           q == cmdQ[c]
<1>1. Follows(Stream(c), St(c), sync[Server], ServerEnd)
  BY RunFollows
<1>2. q \in Seq(Message) /\ St(c) \in Game /\ sync[Server] \in Nat /\ sendq'[c] = sendq[c]
  BY ViewTypes, NodesFacts DEF IInv, NodeInv, Elsewhere
<1>3. m \in Message /\ y \in Seq(Message) /\ Stream(c) = q \o (<<m>> \o y) /\ Stream(c)' = q \o y
  BY <1>2, StreamRead
<1>4. St(c)' = St(c)
  BY DEF St
<1> HIDE DEF y, q
<1>5. Follows(q \o y, St(c), sync[Server], ServerEnd)
  BY <1>1, <1>2, <1>3, FollowsDropped
<1> QED BY <1>3, <1>4, <1>5

LEMMA QueueingView ==
  ASSUME IInv, NEW c \in Clients, ViewOk(c), Elsewhere(c), down[c] # <<>>,
         phase[c] \in {"pause", "run"}, phase'[c] \in {"pause", "run"},
         Head(down[c]) \in WorldCommand, down'[c] = Tail(down[c]),
         cmdQ'[c] = Insert(cmdQ[c], Head(down[c])), world'[c] = world[c], mc'[c] = mc[c]
  PROVE  ViewOk(c)'
<1> SUFFICES ASSUME sock[c] = "playing" PROVE Follows(Stream(c)', St(c)', sync[Server], ServerEnd)
  BY RunningView
<1> DEFINE m == Head(down[c])
           y == Tail(down[c]) \o sendq[c]
           q == cmdQ[c]
<1>1. Follows(Stream(c), St(c), sync[Server], ServerEnd)
  <2>1. m.type # "READY"
    BY DEF WorldCommand
  <2> QED BY <2>1, RunFollows DEF Doomed
<1>2. q \in Seq(Message) /\ sync[Server] \in Nat /\ sendq'[c] = sendq[c] /\ q \in Seq(WorldCommand)
  BY ViewTypes, NodesFacts DEF IInv, NodeInv, Elsewhere
<1>3. m \in Message /\ y \in Seq(Message) /\ Stream(c) = q \o (<<m>> \o y)
      /\ (cmdQ'[c] \in Seq(Message) => Stream(c)' = cmdQ'[c] \o y)
  BY <1>2, StreamRead
<1>4. St(c)' = St(c)
  BY DEF St
<1>5. m \in WorldCommand /\ IsWorldCommand(m) /\ \A x \in WorldCommand : IsWorldCommand(x)
  BY DEF WorldCommand, IsWorldCommand
<1>6. cmdQ'[c] = Insert(q, m)
  OBVIOUS
<1> HIDE DEF y, q, m
<1>7. cmdQ'[c] = Append(q, m)
  <2>1. \A i \in DOMAIN q : IsWorldCommand(q[i]) => q[i].step <= m.step
    BY <1>1, <1>2, <1>3, <1>5, FollowsSorted DEF Follows
  <2>2. \A i \in DOMAIN q : q[i] \in WorldCommand
    BY <1>2
  <2>3. \A i \in DOMAIN q : q[i].step <= m.step
    BY <1>5, <2>1, <2>2
  <2> QED BY <1>2, <1>5, <1>6, <2>3, InsertLast
<1>8. Append(q, m) \in Seq(Message) /\ q \o (<<m>> \o y) = Append(q, m) \o y
  BY <1>2, <1>3, FollowsTypes
<1> QED BY <1>1, <1>3, <1>4, <1>7, <1>8

(* The head of the queue of a client that plays comes next on the way to the server's world *)
LEMMA ExecutingFollows ==
  ASSUME IInv, NEW c \in Clients, ViewOk(c), sock[c] = "playing", cmdQ[c] # <<>>, phase[c] \in {"pause", "run"}
  PROVE  LET r == (Tail(cmdQ[c]) \o down[c]) \o sendq[c] IN
         /\ r \in Seq(Message) /\ Head(cmdQ[c]) \in WorldCommand /\ Head(cmdQ[c]) \in Message
         /\ 0 < Head(cmdQ[c]).step
         /\ Follows(r, PlayedOn(St(c), Head(cmdQ[c])), sync[Server], ServerEnd)
<1> DEFINE m == Head(cmdQ[c])
           t == Tail(cmdQ[c])
<1>1. Follows(Stream(c), St(c), sync[Server], ServerEnd)
  BY RunFollows DEF Doomed
<1>2. /\ down[c] \in Seq(Message) /\ sendq[c] \in Seq(Message) /\ m \in Message /\ t \in Seq(Message)
      /\ cmdQ[c] = <<m>> \o t /\ St(c) \in Game /\ sync[Server] \in Nat
      /\ m \in WorldCommand /\ IsWorldCommand(m)
  <2>1. m \in WorldCommand
    BY NodesFacts DEF IInv, NodeInv
  <2> QED BY <2>1, ViewTypes, Beginning, NodesFacts DEF IInv, NodeInv, WorldCommand, IsWorldCommand
<1>3. Stream(c) = ((<<m>> \o t) \o down[c]) \o sendq[c]
  BY <1>2 DEF Stream
<1> HIDE DEF m, t
<1>4. /\ ((<<m>> \o t) \o down[c]) \o sendq[c] = <<m>> \o ((t \o down[c]) \o sendq[c])
      /\ (t \o down[c]) \o sendq[c] \in Seq(Message)
  <2> DEFINE o == <<m>>
             d == down[c]
             z == sendq[c]
  <2>1. o \in Seq(Message) /\ d \in Seq(Message) /\ z \in Seq(Message) /\ t \in Seq(Message)
    BY <1>2
  <2> HIDE DEF o, d, z
  <2>2. (o \o t) \o d = o \o (t \o d)
    BY <2>1, Regroup
  <2> DEFINE e == t \o d
  <2>3. e \in Seq(Message)
    BY <2>1
  <2> HIDE DEF e
  <2>4. (o \o e) \o z = o \o (e \o z)
    BY <2>1, <2>3, Regroup
  <2>5. e \o z \in Seq(Message)
    BY <2>1, <2>3
  <2> QED BY <2>2, <2>4, <2>5 DEF e, o, d, z
<1> DEFINE r == (t \o down[c]) \o sendq[c]
<1>5. r \in Seq(Message) /\ Follows(<<m>> \o r, St(c), sync[Server], ServerEnd)
  BY <1>1, <1>3, <1>4
<1> HIDE DEF r
<1>6. Follows(r, PlayedOn(St(c), m), sync[Server], ServerEnd) /\ 0 < m.step
  BY <1>2, <1>5, FollowsHead
<1> QED BY <1>2, <1>5, <1>6 DEF r, m, t

(* The head of the queue is executed or thrown away *)
LEMMA ExecutingView ==
  ASSUME IInv, NEW c \in Clients, ViewOk(c), Elsewhere(c), cmdQ[c] # <<>>,
         phase[c] \in {"pause", "run"}, phase'[c] \in {"pause", "run"},
         cmdQ'[c] = Tail(cmdQ[c]), down'[c] = down[c],
         sock[c] = "playing" /\ 0 < Head(cmdQ[c]).step => St(c)' = PlayedOn(St(c), Head(cmdQ[c]))
  PROVE  ViewOk(c)'
<1> SUFFICES ASSUME sock[c] = "playing" PROVE Follows(Stream(c)', St(c)', sync[Server], ServerEnd)
  BY RunningView
<1>1. Stream(c)' = (Tail(cmdQ[c]) \o down[c]) \o sendq[c]
  BY DEF Stream, Elsewhere
<1> QED BY <1>1, ExecutingFollows

(* A client that has not loaded its game reads on *)
LEMMA JoiningView ==
  ASSUME IInv, NEW c \in Clients, ViewOk(c), Elsewhere(c), down[c] # <<>>, down'[c] = Tail(down[c]),
         phase'[c] \notin {"pause", "run"},
         \/ phase'[c] = phase[c]
         \/ phase[c] = "join" /\ Head(down[c]) = JoinReply(TRUE) /\ phase'[c] = "sync"
         \/ phase[c] = "sync" /\ phase'[c] = "game"
  PROVE  ViewOk(c)'
<1> SUFFICES ASSUME sock[c] = "playing" PROVE GameOk(c)'
  BY DEF ViewOk, RunOk, Elsewhere
<1> DEFINE s == down[c]
<1>1. s \in Seq(DownMsg) /\ s # <<>> /\ GameOk(c)
  BY ViewTypes DEF ViewOk
<1> SUFFICES ASSUME NEW i \in DOMAIN down'[c], Acceptable(c, i)'
             PROVE  /\ i + 1 \in DOMAIN down'[c] /\ down'[c][i + 1] \in Ready
                    /\ Follows(Rest(c, i)', Snapshot(c, i)', sync[Server], ServerEnd)
  BY DEF GameOk, Elsewhere
<1>2. \A k \in DOMAIN Tail(s) : k \in Nat /\ k + 1 \in DOMAIN s /\ Tail(s)[k] = s[k + 1]
  BY <1>1
<1>3. i \in Nat /\ i + 1 \in DOMAIN s /\ down'[c][i] = s[i + 1]
  BY <1>2
<1>4. Acceptable(c, i + 1)
  <2>1. s[i + 1].type = "GAME"
    BY <1>3 DEF Acceptable
  <2>2. CASE phase'[c] = phase[c]
    <3>1. ASSUME NEW j \in 1..(i - 1), down'[c][j] = JoinReply(TRUE)
          PROVE  \E k \in 1..((i + 1) - 1) : s[k] = JoinReply(TRUE)
      <4>1. j \in DOMAIN Tail(s)
        BY <1>1, <1>3
      <4>2. s[j + 1] = JoinReply(TRUE) /\ j + 1 \in 1..((i + 1) - 1)
        <5>1. j + 1 \in 1..((i + 1) - 1)
          BY <1>3
        <5>2. s[j + 1] = Tail(s)[j] /\ Tail(s)[j] = JoinReply(TRUE)
          BY <1>2, <3>1, <4>1
        <5> QED BY <5>1, <5>2
      <4> QED BY <4>2
    <3> QED BY <2>1, <2>2, <3>1 DEF Acceptable
  <2>3. CASE phase[c] = "join" /\ Head(s) = JoinReply(TRUE)
    <3>1. s[1] = JoinReply(TRUE) /\ 1 \in 1..((i + 1) - 1)
      <4>1. 1 \in DOMAIN down'[c]
        BY <1>1
      <4>2. i >= 1
        BY <1>1
      <4>3. 1 \in 1..((i + 1) - 1)
        BY <1>3, <4>2
      <4>4. s[1] = Head(s)
        BY <1>1
      <4> QED BY <2>3, <4>3, <4>4
    <3> QED BY <2>1, <2>3, <3>1 DEF Acceptable
  <2>4. CASE phase[c] = "sync"
    BY <2>1, <2>4 DEF Acceptable
  <2> QED BY <2>2, <2>3, <2>4
<1>5. /\ (i + 1) + 1 \in DOMAIN s /\ s[(i + 1) + 1] \in Ready
      /\ Follows(Rest(c, i + 1), Snapshot(c, i + 1), sync[Server], ServerEnd)
  BY <1>1, <1>3, <1>4 DEF GameOk
<1>6. (i + 1) + 1 = i + 2 /\ (i + 1) + 2 = i + 3
  BY <1>3
<1>7. i + 1 \in DOMAIN Tail(s) /\ Tail(s)[i + 1] = s[i + 2]
  BY <1>1, <1>3, <1>5, <1>6
<1>8. SubSeq(Tail(s), i + 2, Len(Tail(s))) = SubSeq(s, i + 3, Len(s))
  BY <1>1, <1>3, <1>5, <1>6, RestOfTail
<1>9. Rest(c, i)' = Rest(c, i + 1)
  BY <1>6, <1>8 DEF Rest, Elsewhere
<1>10. Snapshot(c, i)' = Snapshot(c, i + 1)
  BY <1>3, <1>6, <1>7 DEF Snapshot
<1> QED BY <1>5, <1>6, <1>7, <1>9, <1>10

-----------------------------------------------------------------------------
(* What is behind a game follows it, whatever the client reads before *)

LEMMA FollowsBehind ==
  ASSUME NEW y \in Seq(Message), NEW m \in Message, NEW a \in Game, NEW n \in Nat, NEW b,
         Follows(y, a, n, b), ~IsWorldCommand(m)
  PROVE  Follows(<<m>> \o y, a, n, b)
<1>1. <<m>> \in Seq(Message) /\ DOMAIN <<m>> = {1} /\ <<m>>[1] = m
  OBVIOUS
<1>2. Stamped(<<m>>, n) /\ Stamped(y, n)
  BY <1>1 DEF Follows, Stamped
<1>3. Stamped(<<m>> \o y, n)
  BY <1>1, <1>2, StampedSplit
<1>4. Outcome(<<m>> \o y, a) = Outcome(y, PlayedOn(a, m))
  BY OutcomeFirst
<1>5. PlayedOn(a, m) = a
  BY InertChangesNothing DEF IsWorldCommand, Acts
<1> QED BY <1>3, <1>4, <1>5 DEF Follows

LEMMA SecondOnward ==
  ASSUME NEW S, NEW s \in Seq(S), 2 \in DOMAIN s
  PROVE  Tail(s) = <<s[2]>> \o SubSeq(s, 3, Len(s)) /\ SubSeq(s, 3, Len(s)) \in Seq(S)
<1>1. Len(s) \in Nat /\ Len(s) >= 2 /\ Len(Tail(s)) = Len(s) - 1 /\ Tail(s) \in Seq(S) /\ s[2] \in S
      /\ \A k \in 1..(Len(s) - 1) : Tail(s)[k] = s[k + 1]
  OBVIOUS
<1> DEFINE h == SubSeq(s, 3, Len(s))
           b == <<s[2]>> \o h
<1>2. h \in Seq(S) /\ Len(h) = Len(s) - 2 /\ \A k \in 1..(Len(s) - 2) : h[k] = s[k + 2]
  <2>1. 3 \in 1..(Len(s) + 1)
    BY <1>1
  <2>2. h \in Seq(S) /\ Len(h) = Len(s) - 3 + 1 /\ \A k \in 1..Len(h) : h[k] = s[3 + k - 1]
    BY <2>1, Piece
  <2>3. Len(s) - 3 + 1 = Len(s) - 2 /\ \A k \in 1..(Len(s) - 2) : 3 + k - 1 = k + 2
    BY <1>1
  <2> QED BY <2>2, <2>3
<1> HIDE DEF h
<1>3. b \in Seq(S) /\ Len(b) = Len(s) - 1 /\ b[1] = s[2] /\ \A k \in 1..Len(h) : b[k + 1] = h[k]
  <2> DEFINE e == s[2]
  <2>1. e \in S /\ h \in Seq(S) /\ Len(h) = Len(s) - 2 /\ Len(s) \in Nat
    BY <1>1, <1>2
  <2> HIDE DEF e
  <2>2. <<e>> \in Seq(S) /\ Len(<<e>>) = 1 /\ <<e>>[1] = e
    BY <2>1
  <2> DEFINE o == <<e>>
  <2>3. o \in Seq(S) /\ Len(o) = 1
    BY <2>2
  <2> HIDE DEF o
  <2>4. o \o h \in Seq(S) /\ Len(o \o h) = 1 + Len(h) /\ Len(h) \in Nat
        /\ \A k \in 1..(1 + Len(h)) : (o \o h)[k] = IF k <= 1 THEN o[k] ELSE h[k - 1]
    <3>1. /\ o \o h \in Seq(S) /\ Len(o \o h) = Len(o) + Len(h) /\ Len(h) \in Nat
          /\ \A k \in 1..(Len(o) + Len(h)) : (o \o h)[k] = IF k <= Len(o) THEN o[k] ELSE h[k - Len(o)]
      BY <2>1, <2>3, ConcatProperties, LenProperties
    <3> QED BY <2>3, <3>1
  <2>5. (o \o h)[1] = o[1]
    BY <2>4
  <2>6. \A k \in 1..Len(h) : (o \o h)[k + 1] = h[k]
    <3> TAKE k \in 1..Len(h)
    <3>1. k + 1 \in 1..(1 + Len(h)) /\ ~(k + 1 <= 1) /\ (k + 1) - 1 = k
      BY <2>4
    <3> QED BY <2>4, <3>1
  <2>7. 1 + Len(h) = Len(s) - 1
    BY <2>1
  <2> QED BY <2>2, <2>4, <2>5, <2>6, <2>7 DEF o, e
<1>4. \A k \in 1..(Len(s) - 1) : b[k] = s[k + 1]
  <2> TAKE k \in 1..(Len(s) - 1)
  <2> HIDE DEF b
  <2>1. CASE k = 1
    BY <1>3, <2>1
  <2>2. CASE k # 1
    <3>1. k - 1 \in 1..(Len(s) - 2) /\ (k - 1) + 1 = k /\ (k - 1) + 2 = k + 1
      BY <1>1, <2>2
    <3> QED BY <1>2, <1>3, <3>1
  <2> QED BY <2>1, <2>2
<1> HIDE DEF b
<1>5. Tail(s) = b
  BY <1>1, <1>3, <1>4
<1> QED BY <1>2, <1>5 DEF b, h

(* The game that a client loads *)
LEMMA LoadedFollows ==
  ASSUME IInv, NEW c \in Clients, ViewOk(c), sock[c] = "playing", phase[c] = "game", down[c] # <<>>,
         Head(down[c]).type = "GAME"
  PROVE  /\ Head(down[c]) = down[c][1] /\ 1 \in DOMAIN down[c]
         /\ 2 \in DOMAIN down[c] /\ down[c][2] \in Ready
         /\ Follows(Rest(c, 1), Snapshot(c, 1), sync[Server], ServerEnd)
<1>1. Head(down[c]) = down[c][1] /\ 1 \in DOMAIN down[c] /\ 1 + 1 = 2
  BY ViewTypes
<1>2. Acceptable(c, 1)
  BY <1>1 DEF Acceptable
<1>3. GameOk(c)
  BY DEF ViewOk
<1> QED BY <1>1, <1>2, <1>3 DEF GameOk

LEMMA LoadingView ==
  ASSUME IInv, NEW c \in Clients, ViewOk(c), SockFine(c), Elsewhere(c), phase[c] = "game", down[c] # <<>>,
         Head(down[c]).type = "GAME", phase'[c] = "pause", down'[c] = Tail(down[c]),
         cmdQ'[c] = cmdQ[c], world'[c] = Head(down[c]).world, mc'[c] = mc[c]
  PROVE  ViewOk(c)'
<1> SUFFICES ASSUME sock[c] = "playing"
             PROVE  /\ Stamped(Stream(c)', sync[Server])
                    /\ Outcome(Stream(c)', St(c)') = ServerEnd \/ Doomed(c)'
  BY DEF Elsewhere, ViewOk, RunOk, GameOk, Acceptable
<1> DEFINE s == down[c]
           z == sendq[c]
           r == s[2]
           h == SubSeq(s, 3, Len(s))
           a == Snapshot(c, 1)
<1>1. /\ Head(s) = s[1] /\ 1 \in DOMAIN s /\ 2 \in DOMAIN s /\ r \in Ready
      /\ Follows(Rest(c, 1), a, sync[Server], ServerEnd)
  BY LoadedFollows
<1>2. s \in Seq(Message) /\ z \in Seq(Message) /\ sync[Server] \in Nat
  BY ViewTypes, NodesFacts DEF IInv, NodeInv
<1>3. a \in Game
  <2>1. 1 + 1 = 2
    OBVIOUS
  <2> QED BY <1>1, <2>1, ViewTypes
<1>4. cmdQ'[c] = <<>> /\ sendq'[c] = z
  BY DEF SockFine, Elsewhere
<1>5. Tail(s) = <<r>> \o h /\ h \in Seq(Message) /\ r \in Message
  BY <1>1, <1>2, SecondOnward
<1>6. Rest(c, 1) = h \o z
  BY DEF Rest
<1>7. Stream(c)' = (<<>> \o Tail(s)) \o z
  BY <1>4 DEF Stream
<1>8. Doomed(c)' <=> (cmdQ'[c] = <<>> /\ Tail(s) # <<>> /\ Head(Tail(s)).type = "READY" /\ Head(Tail(s)).mc # mc[c])
  BY DEF Doomed
<1>9. St(c)' = [world |-> s[1].world, mc |-> mc[c]] /\ a = [world |-> s[1].world, mc |-> r.mc]
  BY <1>1 DEF St, Snapshot
<1>10. r.type = "READY"
  BY <1>1 DEF Ready
<1> HIDE DEF s, z, r, h, a
<1>11. (<<>> \o Tail(s)) \o z = <<r>> \o (h \o z) /\ h \o z \in Seq(Message)
  <2> DEFINE o == <<r>>
  <2>1. o \in Seq(Message)
    BY <1>5
  <2> HIDE DEF o
  <2>2. (o \o h) \o z = o \o (h \o z)
    BY <1>2, <1>5, <2>1, Regroup
  <2> DEFINE t == o \o h
  <2>3. t \in Seq(Message)
    BY <1>5, <2>1
  <2> HIDE DEF t
  <2>4. <<>> \o t = t
    BY <2>3
  <2>5. Tail(s) = t
    BY <1>5 DEF t, o
  <2>6. h \o z \in Seq(Message)
    BY <1>2, <1>5
  <2> QED BY <2>2, <2>4, <2>5, <2>6 DEF t, o
<1> DEFINE y == h \o z
<1>12. Follows(y, a, sync[Server], ServerEnd) /\ y \in Seq(Message)
  BY <1>1, <1>6, <1>11
<1> HIDE DEF y
<1>13. Follows(<<r>> \o y, a, sync[Server], ServerEnd)
  BY <1>2, <1>3, <1>5, <1>10, <1>12, FollowsBehind DEF IsWorldCommand
<1>14. Stream(c)' = <<r>> \o y
  BY <1>7, <1>11 DEF y
<1>15. CASE mc[c] = r.mc
  BY <1>9, <1>13, <1>14, <1>15 DEF Follows
<1>16. CASE mc[c] # r.mc
  <2>1. Tail(s) # <<>> /\ Head(Tail(s)) = r
    <3> DEFINE o == <<r>>
    <3>1. o \in Seq(Message) /\ Len(o) = 1 /\ o[1] = r
      BY <1>5
    <3> HIDE DEF o
    <3>2. o \o h \in Seq(Message) /\ Len(o \o h) # 0 /\ (o \o h)[1] = o[1]
      <4>1. /\ o \o h \in Seq(Message) /\ Len(o \o h) = Len(o) + Len(h) /\ Len(h) \in Nat
            /\ \A k \in 1..(Len(o) + Len(h)) : (o \o h)[k] = IF k <= Len(o) THEN o[k] ELSE h[k - Len(o)]
        BY <1>5, <3>1, ConcatProperties, LenProperties
      <4>2. Len(o \o h) # 0 /\ 1 \in 1..(Len(o) + Len(h)) /\ 1 <= Len(o)
        BY <3>1, <4>1
      <4> QED BY <4>1, <4>2
    <3>3. Tail(s) = o \o h
      BY <1>5 DEF o
    <3> QED BY <3>1, <3>2, <3>3
  <2>2. Doomed(c)'
    BY <1>4, <1>8, <1>10, <1>16, <2>1
  <2> QED BY <1>13, <1>14, <2>2 DEF Follows
<1> QED BY <1>15, <1>16

LEMMA JoinStepView ==
  ASSUME IInv, NEW c \in Clients, ViewOk(c), SockFine(c), Elsewhere(c), down[c] # <<>>,
         phase[c] \in {"join", "sync", "game"}, JoinStep(c, Head(down[c]))
  PROVE  ViewOk(c)'
<1> DEFINE m == Head(down[c])
<1>1. CASE Disconnect(c, "out")
  BY <1>1, DisconnectOut
<1>2. CASE ~(m.type = "EOF" \/ (phase[c] = "join" /\ m = JoinReply(FALSE)))
  <2>1. c \in Nodes /\ phase \in [Nodes -> {"out", "join", "sync", "game", "pause", "run", "desync"}]
        /\ world \in [Nodes -> World] /\ mc \in [Nodes -> Nat]
    BY NodesFacts DEF IInv, NodeInv
  <2>2. down'[c] = Tail(down[c])
    BY <1>2 DEF JoinStep, IInv, SockInv
  <2>3. CASE /\ phase[c] = "game" /\ m.type = "GAME" /\ phase' = [phase EXCEPT ![c] = "pause"]
             /\ world' = [world EXCEPT ![c] = m.world] /\ UNCHANGED <<mc, cmdQ>>
    BY <2>1, <2>2, <2>3, LoadingView
  <2>4. CASE \/ phase' = phase
             \/ phase[c] = "join" /\ m = JoinReply(TRUE) /\ phase' = [phase EXCEPT ![c] = "sync"]
             \/ phase[c] = "sync" /\ phase' = [phase EXCEPT ![c] = "game"]
    <3>1. /\ phase'[c] \notin {"pause", "run"}
          /\ \/ phase'[c] = phase[c]
             \/ phase[c] = "join" /\ m = JoinReply(TRUE) /\ phase'[c] = "sync"
             \/ phase[c] = "sync" /\ phase'[c] = "game"
      BY <2>1, <2>4
    <3> QED BY <2>2, <3>1, JoiningView
  <2> QED BY <1>2, <2>3, <2>4 DEF JoinStep
<1> QED BY <1>1, <1>2 DEF JoinStep

-----------------------------------------------------------------------------
(* A client that plays reads a message *)

LEMMA GameStepView ==
  ASSUME IInv, NEW c \in Clients, ViewOk(c), Elsewhere(c), down[c] # <<>>,
         phase[c] \in {"pause", "run"}, GameStep(c, Head(down[c]))
  PROVE  ViewOk(c)'
<1> DEFINE m == Head(down[c])
<1>1. /\ c \in Nodes /\ phase \in [Nodes -> {"out", "join", "sync", "game", "pause", "run", "desync"}]
      /\ cmdQ \in [Nodes -> Seq(WorldCommand)] /\ down \in [Clients -> Seq(DownMsgTo(sync[Server]))]
      /\ m \in DownMsg
  <2>1. m \in DownMsg
    BY ViewTypes
  <2> QED BY <2>1, NodesFacts DEF IInv, NodeInv, SockInv
<1>2. CASE \E to \in {"out", "desync"} : Disconnect(c, to)
  BY <1>2, DisconnectOut
<1>3. CASE /\ m.type = "STEP" \/ m.type \in {"JOIN", "GAME"} \/ m.type = "CHECK"
           /\ down' = [down EXCEPT ![c] = Tail(@)] /\ UNCHANGED <<phase, world, mc, cmdQ>>
  <2>1. phase'[c] \in {"pause", "run"} /\ down'[c] = Tail(down[c]) /\ cmdQ'[c] = cmdQ[c]
        /\ world'[c] = world[c] /\ mc'[c] = mc[c] /\ ~Acts(m) /\ ~Doomed(c)
    BY <1>1, <1>3 DEF Acts, Doomed
  <2> QED BY <2>1, ReadingView
<1>4. CASE /\ m.type \in {"CHECK", "TOOL", "SYNC"} /\ cmdQ' = [cmdQ EXCEPT ![c] = Insert(@, m)]
           /\ down' = [down EXCEPT ![c] = Tail(@)] /\ UNCHANGED <<phase, world, mc>>
  <2>1. m \in WorldCommand
    BY <1>1, <1>4 DEF DownMsg, Broadcast, Ready, EofMsg
  <2>2. phase'[c] \in {"pause", "run"} /\ down'[c] = Tail(down[c]) /\ cmdQ'[c] = Insert(cmdQ[c], m)
        /\ world'[c] = world[c] /\ mc'[c] = mc[c]
    BY <1>1, <1>4
  <2> QED BY <2>1, <2>2, QueueingView
<1>5. CASE /\ m.type = "READY" /\ m.mc = mc[c] /\ phase' = [phase EXCEPT ![c] = "run"]
           /\ down' = [down EXCEPT ![c] = Tail(@)] /\ UNCHANGED <<mc, world, cmdQ>>
  <2>1. phase'[c] \in {"pause", "run"} /\ down'[c] = Tail(down[c]) /\ cmdQ'[c] = cmdQ[c]
        /\ world'[c] = world[c] /\ mc'[c] = mc[c] /\ ~Acts(m) /\ ~Doomed(c)
    BY <1>1, <1>5 DEF Acts, Doomed
  <2> QED BY <2>1, ReadingView
<1>6. \/ \E to \in {"out", "desync"} : Disconnect(c, to)
      \/ /\ m.type = "STEP" \/ m.type \in {"JOIN", "GAME"} \/ m.type = "CHECK"
         /\ down' = [down EXCEPT ![c] = Tail(@)] /\ UNCHANGED <<phase, world, mc, cmdQ>>
      \/ /\ m.type \in {"CHECK", "TOOL", "SYNC"} /\ cmdQ' = [cmdQ EXCEPT ![c] = Insert(@, m)]
         /\ down' = [down EXCEPT ![c] = Tail(@)] /\ UNCHANGED <<phase, world, mc>>
      \/ /\ m.type = "READY" /\ m.mc = mc[c] /\ phase' = [phase EXCEPT ![c] = "run"]
         /\ down' = [down EXCEPT ![c] = Tail(@)] /\ UNCHANGED <<mc, world, cmdQ>>
  <2>1. [cmdQ EXCEPT ![c] = cmdQ[c]] = cmdQ
    BY <1>1
  <2>2. CASE m.type = "CHECK" /\ m.step < sync[c] /\ cmdQ' = [cmdQ EXCEPT ![c] = IF m.step < sync[c] THEN @ ELSE Insert(@, m)]
             /\ down' = [down EXCEPT ![c] = Tail(@)] /\ UNCHANGED <<phase, world, mc>>
    BY <2>1, <2>2
  <2>3. CASE m.type = "CHECK" /\ ~(m.step < sync[c]) /\ cmdQ' = [cmdQ EXCEPT ![c] = IF m.step < sync[c] THEN @ ELSE Insert(@, m)]
             /\ down' = [down EXCEPT ![c] = Tail(@)] /\ UNCHANGED <<phase, world, mc>>
    BY <2>3
  <2> HIDE DEF m
  <2>4. GameStep(c, m)
    BY DEF m
  <2> QED BY <2>2, <2>3, <2>4 DEF GameStep
<1> QED BY <1>2, <1>3, <1>4, <1>5, <1>6

LEMMA CliDrainView ==
  ASSUME IInv, NEW c \in Clients, ViewOk(c), Elsewhere(c), CliDrain(c)
  PROVE  ViewOk(c)'
<1> DEFINE m == Head(cmdQ[c])
<1>1. /\ c \in Nodes /\ phase \in [Nodes -> {"out", "join", "sync", "game", "pause", "run", "desync"}]
      /\ cmdQ \in [Nodes -> Seq(WorldCommand)] /\ world \in [Nodes -> World] /\ mc \in [Nodes -> Nat]
      /\ sync \in [Nodes -> Nat]
      /\ phase[c] \in {"pause", "run"} /\ cmdQ[c] # <<>> /\ m.step <= sync[c]
  BY NodesFacts DEF IInv, NodeInv, CliDrain, Due
<1>2. m \in WorldCommand /\ m.step \in Nat
  <2>1. m \in WorldCommand
    BY <1>1
  <2> QED BY <2>1 DEF WorldCommand
<1>3. CASE \E to \in {"out", "desync"} : Disconnect(c, to)
  BY <1>3, DisconnectOut
<1>4. ASSUME cmdQ' = [cmdQ EXCEPT ![c] = Tail(@)], phase'[c] \in {"pause", "run"}, UNCHANGED down,
             0 < m.step => St(c)' = PlayedOn(St(c), m)
      PROVE  ViewOk(c)'
  <2>1. cmdQ'[c] = Tail(cmdQ[c]) /\ down'[c] = down[c]
    BY <1>1, <1>4
  <2> QED BY <1>1, <1>4, <2>1, ExecutingView
<1>5. CASE /\ m.type = "CHECK" \/ m.mc # mc[c]
           /\ cmdQ' = [cmdQ EXCEPT ![c] = Tail(@)] /\ UNCHANGED <<phase, mc, world, down>>
  <2>1. St(c)' = St(c) /\ St(c) \in Game /\ St(c).mc = mc[c]
    BY <1>5, ViewTypes DEF St
  <2>2. PlayedOn(St(c), m) = St(c)
    BY <1>5, <2>1, ForeignChangesNothing, InertChangesNothing DEF Acts
  <2> QED BY <1>1, <1>4, <1>5, <2>1, <2>2
<1>6. CASE /\ m.type = "TOOL" /\ ~Late(c, m) /\ ~Foreign(c, m) /\ Execute(c, m)
           /\ cmdQ' = [cmdQ EXCEPT ![c] = Tail(@)] /\ UNCHANGED <<phase, mc, down>>
  <2>1. ASSUME 0 < m.step PROVE St(c)' = PlayedOn(St(c), m)
    <3>1. m.step = sync[c]
      BY <1>1, <1>2, <1>6, <2>1 DEF Late
    <3>2. world'[c] = Append(world[c], [cmd |-> m.cmd, step |-> sync[c]])
      BY <1>1, <1>6 DEF Execute
    <3> QED BY <1>6, <3>1, <3>2 DEF St, PlayedOn, Foreign
  <2> QED BY <1>1, <1>4, <1>6, <2>1
<1>7. CASE m.type = "SYNC" /\ ~Foreign(c, m) /\ SyncClient(c, m)
  <2>1. St(c)' = PlayedOn(St(c), m)
    <3>1. world' = world /\ mc'[c] = m.new /\ m.mc = mc[c]
      BY <1>1, <1>7 DEF SyncClient, Foreign
    <3> QED BY <1>7, <3>1 DEF St, PlayedOn
  <2>2. cmdQ' = [cmdQ EXCEPT ![c] = Tail(@)] /\ phase'[c] = "pause" /\ UNCHANGED down
    BY <1>1, <1>7 DEF SyncClient
  <2> QED BY <1>4, <2>1, <2>2
<1> HIDE DEF m
<1> QED BY <1>3, <1>5, <1>6, <1>7 DEF CliDrain, Foreign, m

LEMMA ViewClientStep ==
  ASSUME IInv, IInv', NEW c \in Clients, ClientNext(c), NEW d \in Clients, SockFine(d), ViewOk(d)
  PROVE  ViewOk(d)'
<1>1. /\ ServerEnd' = ServerEnd /\ sync'[Server] = sync[Server] /\ sendq' = sendq
  BY ClientKeepsEnd
<1>2. CASE d # c
  BY <1>1, <1>2, ClientTouchesNobody, ViewSame
<1>3. CASE d = c
  <2>1. CASE CliConnect(c)
    <3>1. sock'[c] # "playing"
      BY <2>1 DEF CliConnect, IInv, SockInv
    <3> QED BY <1>3, <3>1, ViewOut
  <2>2. CASE CliReceive(c)
    <3>1. sock' = sock /\ down[c] # <<>>
      BY <2>2 DEF CliReceive
    <3>2. Elsewhere(c)
      BY <1>1, <3>1 DEF Elsewhere
    <3> QED BY <1>3, <2>2, <3>1, <3>2, JoinStepView, GameStepView DEF CliReceive
  <2>3. CASE CliDrain(c)
    <3>1. Elsewhere(c)
      BY <1>1, <2>3 DEF Elsewhere, CliDrain
    <3> QED BY <1>3, <2>3, <3>1, CliDrainView
  <2>4. CASE CliStep(c) \/ CliTool(c)
    <3>1. UNCHANGED <<phase, mc, world, cmdQ, sock, down>>
      BY <2>4 DEF CliStep, CliTool, sockVars, nodeVars
    <3> QED BY <1>1, <1>3, <3>1, ViewSame
  <2>5. CASE CliLeave(c)
    <3>1. Disconnect(c, "out")
      BY <2>5 DEF CliLeave
    <3> QED BY <1>3, <3>1, DisconnectOut
  <2> QED BY <2>1, <2>2, <2>3, <2>4, <2>5 DEF ClientNext
<1> QED BY <1>2, <1>3

LEMMA SendClientStep ==
  ASSUME IInv, IInv', NEW c \in Clients, ClientNext(c), NEW d \in Clients, SendOk(d)
  PROVE  SendOk(d)'
BY ClientKeepsEnd DEF SendOk

-----------------------------------------------------------------------------
(* Everything that is known of the messages, in one invariant *)

Agreement ==
  /\ ServerOk
  /\ Sorted(cmdQ[Server])
  /\ SaveInv
  /\ \A c \in Clients : SockFine(c) /\ SendOk(c) /\ ViewOk(c)

LEMMA AgreementStays ==
  ASSUME IInv, IInv', Agreement, SaveInv', Sorted(cmdQ[Server])', [Next]_vars
  PROVE  Agreement'
<1>1. ServerOk'
  BY ServerOkStep DEF Agreement
<1>2. \A c \in Clients : SockFine(c)'
  BY SockStep DEF Agreement
<1>3. ASSUME NEW d \in Clients PROVE SendOk(d)' /\ ViewOk(d)'
  <2>1. CASE UNCHANGED vars
    <3>1. /\ UNCHANGED <<sync, mc, sendq, rcvd, phase, cmdQ, world, sock, down>>
      BY <2>1 DEF vars, nodeVars, serverVars, sockVars
    <3>2. ServerEnd' = ServerEnd
      BY <3>1 DEF ServerEnd, ServerStream, Msgs, St
    <3> QED BY <3>1, <3>2, ViewSame DEF SendOk, Agreement
  <2>2. CASE ServerNext
    BY <2>2, SendStepOk, ViewServerStep DEF Agreement
  <2>3. CASE \E c \in Clients : ClientNext(c)
    BY <2>3, SendClientStep, ViewClientStep DEF Agreement
  <2> QED BY <2>1, <2>2, <2>3 DEF Next
<1> QED BY <1>1, <1>2, <1>3 DEF Agreement

-----------------------------------------------------------------------------
(* The worlds of all nodes are of the past *)

Past(w) == \A i \in DOMAIN w : w[i].step <= sync[Server]

WorldsOk ==
  /\ Past(world[Server])
  /\ \A c \in Clients : Playing(c) => Past(world[c])
  /\ \A c \in Clients : sock[c] = "playing" =>
       \A i \in DOMAIN down[c] : down[c][i].type = "GAME" => Past(down[c][i].world)
  /\ Len(saved) <= Len(world[Server]) /\ SubSeq(world[Server], 1, Len(saved)) = saved

LEMMA PastLater ==
  ASSUME NEW w \in World, Past(w), sync[Server] \in Nat, sync'[Server] \in Nat, sync[Server] <= sync'[Server]
  PROVE  \A i \in DOMAIN w : w[i].step <= sync'[Server]
<1>1. \A i \in DOMAIN w : w[i].step \in Nat
  <2>1. \A i \in DOMAIN w : w[i] \in Entry
    BY DEF World
  <2> QED BY <2>1 DEF Entry
<1> QED BY <1>1 DEF Past

LEMMA PastAppend ==
  ASSUME NEW w \in World, NEW e \in Entry, NEW n \in Nat, \A i \in DOMAIN w : w[i].step <= n, e.step <= n
  PROVE  \A i \in DOMAIN Append(w, e) : Append(w, e)[i].step <= n
BY DEF World

LEMMA ServerWorldStep ==
  ASSUME IInv, IInv', ServerOk, ServerNext
  PROVE  \/ world'[Server] = world[Server] /\ saved' \in {saved, world[Server]}
         \/ /\ \E e \in Entry : e.step = sync[Server] /\ world'[Server] = Append(world[Server], e)
            /\ saved' = saved
         \/ world'[Server] = NetworkSave /\ saved' = saved
<1>1. \A id, n : SyncServer(id, n) => world'[Server] = NetworkSave /\ saved' = saved
  BY NodesFacts DEF SyncServer, LoadServer, IInv, NodeInv
<1>2. CASE SrvDrain
  <2> DEFINE m == Head(cmdQ[Server])
             e == [cmd |-> m.cmd, step |-> sync[Server]]
  <2>1. CASE m.type = "TOOL" /\ Execute(Server, m) /\ UNCHANGED serverVars
    <3>1. m \in WorldCommand /\ sync[Server] \in Nat
      BY <1>2, DueAtServer, NodesFacts DEF SrvDrain, IInv, NodeInv
    <3>2. e \in Entry
      BY <2>1, <3>1 DEF WorldCommand, Entry
    <3>3. world'[Server] = Append(world[Server], e) /\ saved' = saved
      BY <2>1, NodesFacts DEF Execute, IInv, NodeInv, serverVars
    <3>4. e.step = sync[Server]
      OBVIOUS
    <3> HIDE DEF e, m
    <3> QED BY <3>2, <3>3, <3>4
  <2>2. CASE SyncServer(m.id, m.new)
    BY <1>1, <2>2
  <2> QED BY <1>2, <2>1, <2>2, DrainEffect
<1>3. CASE SrvStep
  BY <1>3 DEF SrvStep
<1>4. CASE SrvForceSync
  BY <1>1, <1>4 DEF SrvForceSync, nodeVars
<1>6. CASE \/ SrvSend \/ SrvLoop \/ SrvTool \/ \E c \in Clients : SrvAccept(c) \/ SrvReceive(c)
  BY <1>6 DEF SrvSend, SrvLoop, SrvTool, SrvAccept, SrvReceive, nodeVars, serverVars
<1>7. CASE SrvExecute
  <2>1. UNCHANGED <<world, saved>>
    BY <1>7 DEF SrvExecute, ExecuteJoin, ExecuteReady, ExecuteRequest, ExecuteWorldCommand, nodeVars
  <2> QED BY <2>1
<1> QED BY <1>2, <1>3, <1>4, <1>6, <1>7 DEF ServerNext

LEMMA PrefixFacts ==
  ASSUME NEW w \in World, NEW s \in World, Len(s) <= Len(w), SubSeq(w, 1, Len(s)) = s
  PROVE  /\ \A i \in DOMAIN s : i \in DOMAIN w /\ s[i] = w[i]
         /\ \A e \in Entry : Len(s) <= Len(Append(w, e)) /\ SubSeq(Append(w, e), 1, Len(s)) = s
<1>1. w \in Seq(Entry) /\ s \in Seq(Entry)
  BY DEF World
<1>2. \A i \in DOMAIN s : i \in DOMAIN w /\ s[i] = w[i]
  <2> TAKE i \in DOMAIN s
  <2>1. i \in 1..Len(s) /\ Len(s) \in Nat /\ Len(w) \in Nat
    BY <1>1
  <2>2. SubSeq(w, 1, Len(s))[i] = w[i]
    BY <1>1, <2>1
  <2> QED BY <1>1, <2>1, <2>2
<1>3. ASSUME NEW e \in Entry
      PROVE  Len(s) <= Len(Append(w, e)) /\ SubSeq(Append(w, e), 1, Len(s)) = s
  <2> DEFINE x == Append(w, e)
  <2>1. x \in Seq(Entry) /\ Len(x) = Len(w) + 1 /\ \A i \in 1..Len(w) : x[i] = w[i]
    BY <1>1
  <2> HIDE DEF x
  <2>2. Len(s) \in Nat /\ Len(w) \in Nat /\ Len(s) <= Len(x)
    BY <1>1, <2>1
  <2> DEFINE p == SubSeq(x, 1, Len(s))
  <2>3. p \in Seq(Entry) /\ Len(p) = Len(s) /\ \A i \in 1..Len(s) : p[i] = x[i]
    BY <2>1, <2>2
  <2> HIDE DEF p
  <2>4. \A i \in 1..Len(s) : p[i] = s[i]
    BY <1>1, <1>2, <2>1, <2>2, <2>3
  <2>5. p = s
    BY <1>1, <2>3, <2>4
  <2> QED BY <2>2, <2>5 DEF p, x
<1> QED BY <1>2, <1>3

LEMMA WorldsServer ==
  ASSUME IInv, IInv', Agreement, \A e \in Clients : SockFine(e)', WorldsOk, ServerNext
  PROVE  WorldsOk'
<1>1. /\ sync[Server] \in Nat /\ sync'[Server] \in Nat /\ sync[Server] <= sync'[Server]
  BY ServerForward DEF Agreement
<1>2. /\ world[Server] \in World /\ saved \in World
      /\ \A c \in Clients : world[c] \in World
  BY NodesFacts DEF IInv, NodeInv, ServerInv
<1> DEFINE Past2(w) == \A i \in DOMAIN w : w[i].step <= sync'[Server]
<1>3. \A w \in World : Past(w) => Past2(w)
  BY <1>1, PastLater
<1> HIDE DEF Past2
<1>4. Past(saved) /\ Past(NetworkSave) /\ NetworkSave \in World
  <2>1. Past(saved)
    BY <1>2, PrefixFacts DEF WorldsOk, Past
  <2> QED BY <1>2, <2>1 DEF WorldsOk, NetworkSave
<1>5. /\ Past2(world'[Server])
      /\ Len(saved') <= Len(world'[Server]) /\ SubSeq(world'[Server], 1, Len(saved')) = saved'
  <2>1. CASE world'[Server] = world[Server] /\ saved' \in {saved, world[Server]}
    BY <1>2, <1>3, <2>1, WholeIsItself DEF WorldsOk
  <2>2. CASE saved' = saved /\ \E e \in Entry : e.step = sync[Server] /\ world'[Server] = Append(world[Server], e)
    <3>1. PICK e \in Entry : e.step = sync[Server] /\ world'[Server] = Append(world[Server], e)
      BY <2>2
    <3>2. Past2(world'[Server])
      <4>1. \A i \in DOMAIN world[Server] : world[Server][i].step <= sync'[Server]
        BY <1>1, <1>2, PastLater DEF WorldsOk
      <4> QED BY <1>1, <1>2, <3>1, <4>1, PastAppend DEF Past2
    <3> QED BY <1>2, <2>2, <3>1, <3>2, PrefixFacts DEF WorldsOk
  <2>3. CASE world'[Server] = NetworkSave /\ saved' = saved
    BY <1>2, <1>3, <1>4, <2>3, WholeIsItself DEF NetworkSave, WorldsOk
  <2> QED BY <2>1, <2>2, <2>3, ServerWorldStep DEF Agreement
<1>6. ASSUME NEW d \in Clients, Playing(d)' PROVE Past2(world'[d])
  <2>1. phase'[d] = phase[d] /\ world'[d] = world[d]
    BY ServerTouchesNoClient
  <2>2. sock[d] = "playing" \/ sock[d] = "connected"
    <3>1. Tells(d) \/ Flushes(d) \/ Loses(d) \/ Syncs(d)
      BY ServerTells DEF Agreement
    <3>2. sock'[d] = "playing"
      BY <1>6 DEF Playing
    <3> QED BY <3>1, <3>2 DEF Tells, Flushes, Loses, Syncs
  <2>3. sock[d] = "playing"
    BY <1>6, <2>1, <2>2 DEF Playing, Agreement, SockFine
  <2> QED BY <1>2, <1>3, <1>6, <2>1, <2>3 DEF Playing, WorldsOk
<1>7. ASSUME NEW d \in Clients, sock'[d] = "playing", NEW i \in DOMAIN down'[d], down'[d][i].type = "GAME"
      PROVE  Past2(down'[d][i].world)
  <2>1. CASE i \in DOMAIN down[d] /\ down'[d][i] = down[d][i]
    <3>1. sock[d] = "playing"
      <4>1. Tells(d) \/ Flushes(d) \/ Loses(d) \/ Syncs(d)
        BY ServerTells DEF Agreement
      <4>2. Tells(d) \/ Flushes(d) \/ Loses(d) => sock[d] = "playing"
        BY <1>7 DEF Tells, Flushes, Loses
      <4>3. Syncs(d) => sock[d] = "playing" \/ sock[d] = "connected"
        BY DEF Syncs
      <4>4. sock[d] # "connected"
        <5>1. SockFine(d) /\ down[d][i].type = "GAME" /\ i \in DOMAIN down[d]
          BY <1>7, <2>1 DEF Agreement
        <5> QED BY <5>1 DEF SockFine
      <4> QED BY <4>1, <4>2, <4>3, <4>4
    <3>2. down[d][i].world \in World
      <4>1. down[d][i] \in DownMsg
        BY <2>1, DownTypes
      <4> QED BY <1>7, <2>1, <4>1 DEF DownMsg, Broadcast, WorldCommand, Ready, EofMsg
    <3> QED BY <1>3, <1>7, <2>1, <3>1, <3>2 DEF WorldsOk
  <2>2. CASE \E u \in Seq(DownMsg) : down'[d] = down[d] \o u /\ \A j \in DOMAIN u : u[j].type # "GAME"
    <3>1. PICK u \in Seq(DownMsg) : down'[d] = down[d] \o u /\ \A j \in DOMAIN u : u[j].type # "GAME"
      BY <2>2
    <3> QED BY <1>7, <2>1, <3>1, DownTypes, ConcatElements
  <2>3. ~Gone(d)
    <3>1. Gone(d) => down'[d] = <<>>
      BY ServerTouchesNoClient DEF Gone, SockFine
    <3> QED BY <1>7, <3>1
  <2>4. CASE Flushes(d)
    <3>1. sendq[d] \in Seq(DownMsg) /\ \A j \in DOMAIN sendq[d] : sendq[d][j].type # "GAME"
      BY DownTypes, NoGameOnTheWay
    <3> QED BY <2>2, <2>3, <2>4, <3>1 DEF Flushes
  <2>5. CASE Syncs(d)
    <3>1. PICK m \in Ready : down'[d] = down[d] \o <<GameMsg(NetworkSave), m>>
      BY <2>3, <2>5 DEF Syncs
    <3> DEFINE g == GameMsg(NetworkSave)
               u == <<g, m>>
    <3>2. g \in DownMsg /\ g.world = NetworkSave /\ m \in DownMsg /\ m.type = "READY"
      BY <1>4, ReplyTypes DEF GameMsg, DownMsg, Ready
    <3> HIDE DEF g
    <3>3. u \in Seq(DownMsg) /\ DOMAIN u = {1, 2} /\ u[1] = g /\ u[2] = m
      BY <3>2
    <3>4. down'[d] = down[d] \o u
      BY <3>1 DEF g
    <3> HIDE DEF u
    <3>5. \/ i \in DOMAIN down[d] /\ down'[d][i] = down[d][i]
          \/ \E j \in DOMAIN u : down'[d][i] = u[j]
      BY <1>7, <3>3, <3>4, DownTypes, ConcatElements
    <3>6. CASE down'[d][i] = g
      BY <1>3, <1>4, <3>2, <3>6
    <3> QED BY <1>7, <2>1, <3>2, <3>3, <3>5, <3>6
  <2>6. CASE Tells(d)
    BY <2>2, <2>6 DEF Tells
  <2>7. ~Loses(d)
    BY <1>7 DEF Loses
  <2> QED BY <2>4, <2>5, <2>6, <2>7, ServerTells DEF Agreement
<1> QED BY <1>5, <1>6, <1>7 DEF WorldsOk, Past, Past2

-----------------------------------------------------------------------------
(* How the world of a client that plays comes about *)
LEMMA ClientWorldStep ==
  ASSUME IInv, NEW c \in Clients, ClientNext(c)
  PROVE  /\ \/ down'[c] = down[c] \/ down'[c] = <<>>
            \/ down[c] # <<>> /\ down'[c] = Tail(down[c])
         /\ sock'[c] = "playing" => sock[c] = "playing"
         /\ phase'[c] \in {"pause", "run"} =>
              \/ phase[c] \in {"pause", "run"} /\ world'[c] = world[c]
              \/ /\ phase[c] \in {"pause", "run"} /\ cmdQ[c] # <<>> /\ Head(cmdQ[c]).type = "TOOL"
                 /\ Head(cmdQ[c]).mc = mc[c]
                 /\ 0 < Head(cmdQ[c]).step => Head(cmdQ[c]).step = sync[c]
                 /\ world'[c] = Append(world[c], [cmd |-> Head(cmdQ[c]).cmd, step |-> sync[c]])
                 /\ [cmd |-> Head(cmdQ[c]).cmd, step |-> sync[c]] \in Entry
              \/ /\ phase[c] = "game" /\ down[c] # <<>> /\ Head(down[c]).type = "GAME"
                 /\ world'[c] = Head(down[c]).world
<1>1. /\ c \in Nodes /\ phase \in [Nodes -> {"out", "join", "sync", "game", "pause", "run", "desync"}]
      /\ cmdQ \in [Nodes -> Seq(WorldCommand)] /\ world \in [Nodes -> World] /\ mc \in [Nodes -> Nat]
      /\ sync \in [Nodes -> Nat] /\ down \in [Clients -> Seq(DownMsgTo(sync[Server]))]
      /\ sock \in [Clients -> {"none", "backlog", "connected", "playing", "kicked"}]
  BY NodesFacts DEF IInv, NodeInv, SockInv
<1>2. \A to \in {"out", "desync"} : Disconnect(c, to) => phase'[c] = to /\ down'[c] = <<>>
  BY <1>1 DEF Disconnect
<1>3. CASE CliConnect(c)
  BY <1>1, <1>3 DEF CliConnect
<1>4. CASE CliReceive(c)
  <2>1. sock' = sock /\ down[c] # <<>>
    BY <1>4 DEF CliReceive
  <2>2. CASE phase[c] \in {"join", "sync", "game"} /\ JoinStep(c, Head(down[c]))
    <3>1. CASE Disconnect(c, "out")
      BY <1>2, <2>1, <3>1
    <3>2. CASE ~Disconnect(c, "out")
      <4>1. down' = [down EXCEPT ![c] = Tail(@)]
        BY <2>2, <3>2 DEF JoinStep
      <4>2. \/ phase' = phase \/ phase' = [phase EXCEPT ![c] = "sync"] \/ phase' = [phase EXCEPT ![c] = "game"]
            \/ /\ phase[c] = "game" /\ Head(down[c]).type = "GAME"
               /\ world' = [world EXCEPT ![c] = Head(down[c]).world]
        BY <2>2, <3>2 DEF JoinStep
      <4> QED BY <1>1, <2>1, <2>2, <4>1, <4>2
    <3> QED BY <3>1, <3>2
  <2>3. CASE phase[c] \in {"pause", "run"} /\ GameStep(c, Head(down[c]))
    <3>1. CASE \E to \in {"out", "desync"} : Disconnect(c, to)
      BY <1>2, <2>1, <3>1
    <3>2. CASE ~\E to \in {"out", "desync"} : Disconnect(c, to)
      <4>1. down' = [down EXCEPT ![c] = Tail(@)] /\ UNCHANGED world
        BY <2>3, <3>2 DEF GameStep
      <4> QED BY <1>1, <2>1, <2>3, <4>1
    <3> QED BY <3>1, <3>2
  <2> QED BY <1>4, <2>2, <2>3 DEF CliReceive
<1>5. CASE CliDrain(c)
  <2> DEFINE m == Head(cmdQ[c])
             e == [cmd |-> m.cmd, step |-> sync[c]]
  <2>1. sock' = sock /\ phase[c] \in {"pause", "run"} /\ cmdQ[c] # <<>> /\ m.step <= sync[c]
    BY <1>5 DEF CliDrain, Due
  <2>2. m \in WorldCommand /\ sync[c] \in Nat
    BY <1>1, <2>1
  <2>3. CASE \E to \in {"out", "desync"} : Disconnect(c, to)
    BY <1>2, <2>1, <2>3
  <2>4. CASE UNCHANGED <<world, down>>
    BY <2>1, <2>4
  <2>5. CASE m.type = "TOOL" /\ ~Late(c, m) /\ ~Foreign(c, m) /\ Execute(c, m) /\ UNCHANGED down
    <3>1. 0 < m.step => m.step = sync[c]
      <4>1. m.step \in Nat
        BY <2>2 DEF WorldCommand
      <4> HIDE DEF m
      <4> QED BY <2>1, <2>2, <2>5, <4>1 DEF Late
    <3>2. e \in Entry
      BY <2>2, <2>5 DEF WorldCommand, Entry
    <3>3. world'[c] = Append(world[c], e)
      BY <1>1, <2>5 DEF Execute
    <3>4. m.mc = mc[c]
      BY <2>5 DEF Foreign
    <3> QED BY <2>1, <2>5, <3>1, <3>2, <3>3, <3>4
  <2> HIDE DEF m
  <2> QED BY <1>5, <2>3, <2>4, <2>5 DEF CliDrain, SyncClient, m
<1>6. CASE CliStep(c) \/ CliTool(c)
  BY <1>6 DEF CliStep, CliTool, sockVars, nodeVars
<1>7. CASE CliLeave(c)
  BY <1>2, <1>7 DEF CliLeave
<1> QED BY <1>3, <1>4, <1>5, <1>6, <1>7 DEF ClientNext

LEMMA WorldsClient ==
  ASSUME IInv, IInv', WorldsOk, NEW c \in Clients, ClientNext(c)
  PROVE  WorldsOk'
<1>1. /\ sync'[Server] = sync[Server] /\ world'[Server] = world[Server] /\ saved' = saved
      /\ sync[Server] \in Nat /\ sync[c] \in Nat /\ sync[c] <= sync[Server]
  <2>1. sync'[Server] = sync[Server] /\ world'[Server] = world[Server]
    BY ClientKeepsServer
  <2>2. saved' = saved
    BY DEF ClientNext, CliConnect, CliReceive, CliDrain, CliStep, CliTool, CliLeave, serverVars
  <2> QED BY <2>1, <2>2, NodesFacts DEF IInv, NodeInv
<1>2. ASSUME NEW d \in Clients, Playing(d)' PROVE Past(world'[d])
  <2>1. CASE d # c
    BY <1>2, <2>1, ClientTouchesNobody DEF Playing, WorldsOk
  <2>2. CASE d = c
    <3>1. sock[c] = "playing" /\ phase'[c] \in {"pause", "run"}
      BY <1>2, <2>2, ClientWorldStep DEF Playing
    <3>2. CASE phase[c] \in {"pause", "run"} /\ world'[c] = world[c]
      BY <2>2, <3>1, <3>2 DEF Playing, WorldsOk
    <3>3. CASE /\ phase[c] \in {"pause", "run"}
               /\ world'[c] = Append(world[c], [cmd |-> Head(cmdQ[c]).cmd, step |-> sync[c]])
               /\ [cmd |-> Head(cmdQ[c]).cmd, step |-> sync[c]] \in Entry
      <4> DEFINE e == [cmd |-> Head(cmdQ[c]).cmd, step |-> sync[c]]
      <4>1. e \in Entry /\ e.step = sync[c] /\ world'[c] = Append(world[c], e)
        BY <3>3
      <4> HIDE DEF e
      <4>2. Past(world[c]) /\ world[c] \in World
        BY <3>1, <3>3, NodesFacts DEF Playing, WorldsOk, IInv, NodeInv
      <4> QED BY <1>1, <2>2, <4>1, <4>2, PastAppend DEF Past
    <3>4. CASE /\ phase[c] = "game" /\ down[c] # <<>> /\ Head(down[c]).type = "GAME"
               /\ world'[c] = Head(down[c]).world
      <4>1. Head(down[c]) = down[c][1] /\ 1 \in DOMAIN down[c]
        BY <3>4, DownTypes
      <4> QED BY <2>2, <3>1, <3>4, <4>1 DEF WorldsOk
    <3> QED BY <3>1, <3>2, <3>3, <3>4, ClientWorldStep
  <2> QED BY <2>1, <2>2
<1>3. ASSUME NEW d \in Clients, sock'[d] = "playing", NEW i \in DOMAIN down'[d], down'[d][i].type = "GAME"
      PROVE  Past(down'[d][i].world)
  <2>1. CASE down'[d] = down[d]
    <3>1. sock[d] = "playing"
      BY <1>3, ClientTouchesNobody, ClientWorldStep
    <3> QED BY <1>3, <2>1, <3>1 DEF WorldsOk
  <2>2. CASE d = c /\ down[c] # <<>> /\ down'[c] = Tail(down[c])
    <3>1. sock[c] = "playing"
      BY <1>3, <2>2, ClientWorldStep
    <3>2. i + 1 \in DOMAIN down[c] /\ down'[c][i] = down[c][i + 1]
      BY <1>3, <2>2, DownTypes, TailElements
    <3> QED BY <1>3, <2>2, <3>1, <3>2 DEF WorldsOk
  <2>3. CASE down'[d] = <<>>
    BY <1>3, <2>3
  <2> QED BY <2>1, <2>2, <2>3, ClientTouchesNobody, ClientWorldStep
<1>4. \A w : Past(w)' <=> \A i \in DOMAIN w : w[i].step <= sync[Server]
  BY <1>1 DEF Past
<1> QED BY <1>1, <1>2, <1>3 DEF WorldsOk, Past

-----------------------------------------------------------------------------
(* Streams, sockets and worlds together, from the start on *)

LEMMA WholesStart == Init => Agreement /\ WorldsOk /\ SaveInv
<1> SUFFICES ASSUME Init PROVE Agreement /\ WorldsOk /\ SaveInv
  OBVIOUS
<1>1. IInv
  BY InitKeeps
<1>2. SaveInv /\ Sorted(cmdQ[Server]) /\ cmdQ[Server] = <<>> /\ rcvd = <<>> /\ sync[Server] = 0 /\ mc[Server] = 0
      /\ phase[Server] = "run" /\ world[Server] = <<>> /\ saved = <<>>
  BY NodesFacts DEF Init, SaveInv, Sorted
<1>3. ServerOk
  BY <1>2 DEF Init, ServerOk
<1>4. ASSUME NEW c \in Clients PROVE SockFine(c) /\ SendOk(c) /\ ViewOk(c)
  <2>1. /\ phase[c] = "out" /\ sock[c] = "none" /\ cmdQ[c] = <<>> /\ down[c] = <<>> /\ up[c] = <<>>
        /\ sendq[c] = <<>>
    BY NodesFacts DEF Init
  <2>2. SockFine(c)
    BY <1>2, <2>1 DEF SockFine, Open, Gone, From
  <2>3. SendOk(c)
    BY <2>1 DEF SendOk, Stamped
  <2> QED BY <2>1, <2>2, <2>3 DEF ViewOk
<1>5. WorldsOk
  <2>1. \A c \in Clients : sock[c] = "none"
    BY DEF Init
  <2>2. Past(world[Server])
    BY <1>2 DEF Past
  <2>3. Len(saved) <= Len(world[Server]) /\ SubSeq(world[Server], 1, Len(saved)) = saved
    BY <1>2
  <2> QED BY <2>1, <2>2, <2>3 DEF WorldsOk, Playing
<1> QED BY <1>2, <1>3, <1>4, <1>5 DEF Agreement

LEMMA WorldsStay ==
  ASSUME IInv, IInv', Agreement, Agreement', WorldsOk, [Next]_vars
  PROVE  WorldsOk'
<1>1. CASE UNCHANGED vars
  BY <1>1 DEF vars, nodeVars, serverVars, sockVars, WorldsOk, Past, Playing
<1> QED BY <1>1, WorldsServer, WorldsClient DEF Next, Agreement

(* Whatever waits for a client that plays, in its socket, its send queue and  *)
(* its command queue, takes its game exactly to where all that waits at the   *)
(* server takes the server's; no world that is held or on the way has a       *)
(* command of a later step, and the save is a beginning of the server's world *)
THEOREM AllAgree == Spec => [](Agreement /\ WorldsOk)
<1>1. IInv /\ IInv' /\ SaveInv /\ QueueIsSorted' /\ Agreement /\ WorldsOk /\ [Next]_vars => (Agreement /\ WorldsOk)'
  <2> SUFFICES ASSUME IInv, IInv', SaveInv, QueueIsSorted', Agreement, WorldsOk, [Next]_vars
               PROVE  (Agreement /\ WorldsOk)'
    OBVIOUS
  <2>1. Sorted(cmdQ[Server])'
    BY NodesFacts DEF QueueIsSorted, Sorted
  <2>2. SaveInv'
    BY SaveStep
  <2>3. Agreement'
    BY <2>1, <2>2, AgreementStays
  <2> QED BY <2>3, WorldsStay
<1>2. IInv /\ SaveInv /\ [Next]_vars => SaveInv'
  BY SaveStep
<1> QED BY <1>1, <1>2, WholesStart, Invariance, QueuesAreSorted, PTL DEF Spec

-----------------------------------------------------------------------------
(* The commands of the sync step that is now, at the head of the queue of the server *)

Now(q, i, s) == q[i].type = "TOOL" /\ q[i].step = s
Front(q, s) ==
  LET n == Cardinality({i \in DOMAIN q : \A j \in 1..i : q[j].type = "TOOL" /\ q[j].step = s})
  IN  [i \in 1..n |-> [cmd |-> q[i].cmd, step |-> q[i].step]]
(* The first k commands of q, and no more, are tools for step s *)
Ends(q, s, k) ==
  /\ k \in 0..Len(q)
  /\ \A i \in 1..k : Now(q, i, s)
  /\ k = Len(q) \/ ~Now(q, k + 1, s)

LEMMA FrontEnds ==
  ASSUME NEW q \in Seq(WorldCommand), NEW s
  PROVE  \E k \in Nat : Ends(q, s, k)
<1>0. Len(q) \in Nat
  OBVIOUS
<1>1. DOMAIN q = 1..Len(q) /\ Len(q) \in Nat
  OBVIOUS
<1> DEFINE P == {k \in Nat : k <= Len(q) /\ \A i \in 1..k : Now(q, i, s)}
<1>2. 0 \in P
  BY <1>1
<1>3. ASSUME NEW k \in Nat, k \in P, k + 1 \notin P PROVE Ends(q, s, k)
  <2>1. k <= Len(q)
    BY <1>3
  <2>2. \A i \in 1..k : Now(q, i, s)
    BY <1>3
  <2>3. ASSUME k # Len(q), Now(q, k + 1, s) PROVE k + 1 \in P
    <3>1. \A i \in 1..(k + 1) : i \in 1..k \/ i = k + 1
      OBVIOUS
    <3>2. \A i \in 1..(k + 1) : Now(q, i, s)
      BY <2>2, <2>3, <3>1
    <3>3. k + 1 \in Nat /\ k + 1 <= Len(q)
      BY <1>0, <2>1, <2>3
    <3> QED BY <3>2, <3>3
  <2>4. k = Len(q) \/ ~Now(q, k + 1, s)
    BY <1>3, <2>3
  <2>5. k \in 0..Len(q)
    BY <1>1, <2>1
  <2> QED BY <2>2, <2>4, <2>5 DEF Ends
<1>4. CASE \A k \in Nat : k \in P => k + 1 \in P
  <2>1. \A n \in Nat : n \in P => n + 1 \in P
    BY <1>4
  <2> HIDE DEF P
  <2>2. Len(q) + 1 \in P
    BY <1>1, <1>2, <2>1, NatInductive
  <2> QED BY <1>1, <2>2 DEF P
<1> QED BY <1>3, <1>4

LEMMA FrontIs ==
  ASSUME NEW q \in Seq(WorldCommand), NEW s, NEW k \in Nat, Ends(q, s, k)
  PROVE  Front(q, s) = [i \in 1..k |-> [cmd |-> q[i].cmd, step |-> q[i].step]]
<1>1. Len(q) \in Nat /\ DOMAIN q = 1..Len(q) /\ k <= Len(q)
  BY DEF Ends
<1>2. {i \in DOMAIN q : \A j \in 1..i : q[j].type = "TOOL" /\ q[j].step = s} = 1..k
  <2>1. ASSUME NEW i \in 1..Len(q), \A j \in 1..i : q[j].type = "TOOL" /\ q[j].step = s PROVE i <= k
    <3> SUFFICES ASSUME ~(i <= k) PROVE FALSE
      BY SMTT(40)
    <3> DEFINE n == Len(q)
    <3>0. i \in Nat /\ n \in Nat /\ i <= n /\ k < i
      BY <1>1
    <3> HIDE DEF n
    <3>1. k + 1 \in 1..i /\ k # n
      BY <3>0
    <3>2. Now(q, k + 1, s)
      BY <2>1, <3>1 DEF Now
    <3> QED BY <3>1, <3>2 DEF Ends, n
  <2>2. ASSUME NEW i \in 1..k
        PROVE  i \in 1..Len(q) /\ \A j \in 1..i : q[j].type = "TOOL" /\ q[j].step = s
    <3>1. \A j \in 1..i : j \in 1..k
      OBVIOUS
    <3>2. i \in 1..Len(q)
      BY <1>1
    <3>3. \A j \in 1..k : q[j].type = "TOOL" /\ q[j].step = s
      BY DEF Ends, Now
    <3> QED BY <3>1, <3>2, <3>3
  <2>3. \A i \in 1..Len(q) : i <= k => i \in 1..k
    BY <1>1
  <2> QED BY <1>1, <2>1, <2>2, <2>3
<1>3. Cardinality(1..k) = k
  BY FS_Interval
<1> QED BY <1>2, <1>3 DEF Front

LEMMA FrontType ==
  ASSUME NEW q \in Seq(WorldCommand), NEW s \in Nat
  PROVE  Front(q, s) \in World /\ \A i \in DOMAIN Front(q, s) : Front(q, s)[i].step = s
<1>1. PICK k \in Nat : Ends(q, s, k)
  BY FrontEnds
<1> DEFINE f == [i \in 1..k |-> [cmd |-> q[i].cmd, step |-> q[i].step]]
<1>2. Front(q, s) = f
  BY <1>1, FrontIs
<1>3. \A i \in 1..k : q[i] \in WorldCommand /\ q[i].type = "TOOL" /\ q[i].step = s
  <2>1. \A i \in 1..k : i \in DOMAIN q
    BY <1>1 DEF Ends
  <2> QED BY <1>1, <2>1, ElementOfSeq DEF Ends, Now
<1>4. \A i \in 1..k : q[i].cmd \in Nat
  BY <1>3 DEF WorldCommand
<1>5. \A i \in 1..k : [cmd |-> q[i].cmd, step |-> q[i].step] \in Entry
  BY <1>3, <1>4 DEF Entry
<1>6. f \in Seq(Entry)
  BY <1>5
<1>7. \A i \in DOMAIN f : f[i].step = s
  BY <1>3
<1> QED BY <1>2, <1>6, <1>7 DEF World

LEMMA FrontEmpty ==
  ASSUME NEW q \in Seq(WorldCommand), NEW s, q = <<>> \/ ~Now(q, 1, s)
  PROVE  Front(q, s) = <<>>
<1>1. Ends(q, s, 0)
  BY DEF Ends
<1>2. Front(q, s) = [i \in 1..0 |-> [cmd |-> q[i].cmd, step |-> q[i].step]]
  BY <1>1, FrontIs
<1>3. 1..0 = {}
  OBVIOUS
<1> QED BY <1>2, <1>3

LEMMA FrontAppend ==
  ASSUME NEW q \in Seq(WorldCommand), NEW s, NEW m \in WorldCommand, m.step # s
  PROVE  Front(Append(q, m), s) = Front(q, s)
<1> DEFINE t == Append(q, m)
<1>1. PICK k \in Nat : Ends(q, s, k)
  BY FrontEnds
<1>2. /\ t \in Seq(WorldCommand) /\ Len(q) \in Nat /\ Len(t) = Len(q) + 1 /\ t[Len(q) + 1] = m
      /\ \A i \in 1..Len(q) : t[i] = q[i]
  OBVIOUS
<1> HIDE DEF t
<1>3. \A i \in 1..k : i \in 1..Len(q) /\ t[i] = q[i]
  BY <1>1, <1>2 DEF Ends
<1>4. Ends(t, s, k)
  <2>1. k \in 0..Len(t) /\ \A i \in 1..k : Now(t, i, s)
    BY <1>1, <1>2, <1>3 DEF Ends, Now
  <2>2. ~Now(t, k + 1, s)
    <3>1. CASE k = Len(q)
      BY <1>2, <3>1 DEF Now
    <3>2. CASE k # Len(q)
      <4>1. k + 1 \in 1..Len(q)
        BY <1>1, <1>2, <3>2 DEF Ends
      <4> QED BY <1>1, <1>2, <3>2, <4>1 DEF Ends, Now
    <3> QED BY <3>1, <3>2
  <2> QED BY <2>1, <2>2 DEF Ends
<1>5. /\ Front(t, s) = [i \in 1..k |-> [cmd |-> t[i].cmd, step |-> t[i].step]]
      /\ Front(q, s) = [i \in 1..k |-> [cmd |-> q[i].cmd, step |-> q[i].step]]
  BY <1>1, <1>2, <1>4, FrontIs
<1> QED BY <1>3, <1>5 DEF t

LEMMA FrontTail ==
  ASSUME NEW q \in Seq(WorldCommand), NEW s \in Nat, q # <<>>, Now(q, 1, s)
  PROVE  Front(q, s) = <<[cmd |-> q[1].cmd, step |-> s]>> \o Front(Tail(q), s)
<1> DEFINE t == Tail(q)
<1>0. t \in Seq(WorldCommand)
  OBVIOUS
<1>1. PICK k \in Nat : Ends(t, s, k)
  BY <1>0, FrontEnds
<1>2. /\ t \in Seq(WorldCommand) /\ Len(q) \in Nat /\ Len(t) + 1 = Len(q) /\ Len(t) \in Nat
      /\ \A i \in 1..Len(t) : t[i] = q[i + 1]
  OBVIOUS
<1> HIDE DEF t
<1>3. \A i \in 1..k : i \in 1..Len(t) /\ t[i] = q[i + 1]
  BY <1>1, <1>2 DEF Ends
<1>4. Ends(q, s, k + 1)
  <2>1. k + 1 \in 0..Len(q)
    BY <1>1, <1>2 DEF Ends
  <2>2. ASSUME NEW i \in 1..(k + 1) PROVE Now(q, i, s)
    <3>1. CASE i = 1
      BY <3>1
    <3>2. CASE i # 1
      <4>1. i - 1 \in 1..k /\ (i - 1) + 1 = i
        BY <3>2
      <4>2. t[i - 1] = q[i]
        BY <1>3, <4>1
      <4> QED BY <1>1, <4>1, <4>2 DEF Ends, Now
    <3> QED BY <3>1, <3>2
  <2>3. k + 1 = Len(q) \/ ~Now(q, k + 1 + 1, s)
    <3>1. CASE k = Len(t)
      BY <1>2, <3>1
    <3>2. CASE k # Len(t)
      <4>1. k + 1 \in 1..Len(t)
        BY <1>1, <1>2, <3>2 DEF Ends
      <4>2. t[k + 1] = q[k + 1 + 1]
        BY <1>2, <4>1
      <4> QED BY <1>1, <3>2, <4>2 DEF Ends, Now
    <3> QED BY <3>1, <3>2
  <2> QED BY <2>1, <2>2, <2>3 DEF Ends
<1> DEFINE f == Front(t, s)
           e == [cmd |-> q[1].cmd, step |-> s]
           g == [i \in 1..(k + 1) |-> [cmd |-> q[i].cmd, step |-> q[i].step]]
<1>5. f = [i \in 1..k |-> [cmd |-> t[i].cmd, step |-> t[i].step]] /\ Front(q, s) = g
  <2>1. k + 1 \in Nat
    OBVIOUS
  <2> QED BY <1>1, <1>2, <1>4, <2>1, FrontIs
<1>6. f \in Seq(Entry) /\ e \in Entry
  <2>1. f \in Seq(Entry)
    BY <1>2, FrontType DEF World
  <2>2. q[1] \in WorldCommand /\ q[1].type = "TOOL"
    BY ElementOfSeq DEF Now
  <2> QED BY <2>1, <2>2 DEF Entry, WorldCommand
<1>7. Len(f) = k /\ \A i \in 1..k : f[i] = [cmd |-> q[i + 1].cmd, step |-> q[i + 1].step]
  BY <1>3, <1>5
<1>8. g[1] = e /\ DOMAIN g = 1..(k + 1) /\ \A i \in 1..k : g[i + 1] = f[i]
  <2>1. q[1].step = s
    BY DEF Now
  <2>2. \A i \in 1..k : i + 1 \in 1..(k + 1)
    OBVIOUS
  <2>3. 1 \in 1..(k + 1)
    OBVIOUS
  <2> QED BY <1>7, <2>1, <2>2, <2>3
<1>9. g \in Seq(Entry) /\ Len(g) = k + 1
  <2>1. \A i \in 1..(k + 1) : q[i] \in WorldCommand /\ q[i].type = "TOOL" /\ q[i].step = s
    <3>1. \A i \in 1..(k + 1) : i \in DOMAIN q
      BY <1>2, <1>4 DEF Ends
    <3> QED BY <1>4, <3>1, ElementOfSeq DEF Ends, Now
  <2>2. \A i \in 1..(k + 1) : [cmd |-> q[i].cmd, step |-> q[i].step] \in Entry
    BY <2>1 DEF Entry, WorldCommand
  <2> QED BY <2>2
<1> HIDE DEF f, e, g
<1>10. <<e>> \o f = g
  <2> DEFINE h == <<e>> \o f
  <2>1. h \in Seq(Entry) /\ Len(h) = k + 1 /\ h[1] = e /\ \A i \in 1..k : h[i + 1] = f[i]
    BY <1>6, <1>7
  <2> HIDE DEF h
  <2>2. ASSUME NEW i \in 1..(k + 1) PROVE h[i] = g[i]
    <3>1. CASE i = 1
      BY <1>8, <2>1, <3>1
    <3>2. CASE i # 1
      <4>1. i - 1 \in 1..k /\ (i - 1) + 1 = i
        BY <3>2
      <4> QED BY <1>8, <2>1, <4>1
    <3> QED BY <3>1, <3>2
  <2> QED BY <1>9, <2>1, <2>2 DEF h
<1> QED BY <1>5, <1>10 DEF f, e, t

-----------------------------------------------------------------------------
(* Where the server will be, and the log *)

TheLog == world[Server] \o InThisStep
Begins(a, w) == Len(a) <= Len(w) /\ SubSeq(w, 1, Len(a)) = a

LEMMA LogType ==
  ASSUME IInv
  PROVE  /\ InThisStep = Front(cmdQ[Server], sync[Server]) /\ InThisStep \in World /\ TheLog \in World
         /\ world[Server] \in World /\ Begins(world[Server], TheLog)
         /\ cmdQ[Server] \in Seq(WorldCommand) /\ sync[Server] \in Nat
<1>1. /\ cmdQ[Server] \in Seq(WorldCommand) /\ sync[Server] \in Nat /\ world[Server] \in Seq(Entry)
  BY NodesFacts DEF IInv, NodeInv, World
<1>2. InThisStep = Front(cmdQ[Server], sync[Server])
  BY DEF InThisStep, Front
<1>3. InThisStep \in Seq(Entry)
  BY <1>1, <1>2, FrontType DEF World
<1> DEFINE w == world[Server]
           f == InThisStep
<1>4. w \in Seq(Entry) /\ f \in Seq(Entry)
  BY <1>1, <1>3
<1> HIDE DEF w, f
<1>5. w \o f \in Seq(Entry) /\ Len(w) <= Len(w \o f) /\ SubSeq(w \o f, 1, Len(w)) = w
  BY <1>4
<1> QED BY <1>1, <1>2, <1>3, <1>5 DEF TheLog, World, Begins, w, f

(* A run of tools of one map counter *)
LEMMA RunOfTools ==
  ASSUME NEW q \in Seq(Message), NEW a \in Game, NEW f \in Seq(Entry), Len(f) = Len(q),
         \A i \in 1..Len(q) : q[i].type = "TOOL" /\ q[i].mc = a.mc /\ f[i] = [cmd |-> q[i].cmd, step |-> q[i].step]
  PROVE  Outcome(q, a) = [world |-> a.world \o f, mc |-> a.mc]
<1> DEFINE r == [i \in 0..Len(q) |-> [world |-> a.world \o SubSeq(f, 1, i), mc |-> a.mc]]
           b == [world |-> a.world \o f, mc |-> a.mc]
<1>0. Len(q) \in Nat
  OBVIOUS
<1>1. a.world \in Seq(Entry) /\ a.mc \in Nat /\ a = [world |-> a.world, mc |-> a.mc]
  BY DEF Game, World
<1>2. \A i \in 0..Len(q) : SubSeq(f, 1, i) \in Seq(Entry) /\ a.world \o SubSeq(f, 1, i) \in Seq(Entry)
  <2> TAKE i \in 0..Len(q)
  <2>1. SubSeq(f, 1, i) \in Seq(Entry)
    BY <1>0
  <2> QED BY <1>1, <2>1
<1>3. r \in [0..Len(q) -> Game]
  BY <1>1, <1>2 DEF Game, World
<1>4. r[0] = a
  <2>1. SubSeq(f, 1, 0) = <<>> /\ a.world \o <<>> = a.world
    BY <1>1
  <2>2. 0 \in 0..Len(q)
    BY <1>0
  <2> QED BY <1>1, <2>1, <2>2
<1>5. r[Len(q)] = b
  <2>1. SubSeq(f, 1, Len(q)) = f
    OBVIOUS
  <2>2. Len(q) \in 0..Len(q)
    BY <1>0
  <2> QED BY <2>1, <2>2
<1>6. ASSUME NEW i \in 1..Len(q) PROVE r[i] = PlayedOn(r[i - 1], q[i])
  <2>1. i \in 0..Len(q) /\ i - 1 \in 0..Len(q) /\ i \in Nat /\ i - 1 \in Nat
    BY <1>0
  <2> DEFINE p == SubSeq(f, 1, i - 1)
             w == a.world
             s == SubSeq(f, 1, i)
  <2>2. p \in Seq(Entry) /\ w \in Seq(Entry) /\ f[i] \in Entry /\ s = Append(p, f[i])
    <3>1. p \in Seq(Entry) /\ w \in Seq(Entry) /\ s \in Seq(Entry)
      BY <1>1, <1>2, <2>1
    <3>2. f[i] \in Entry
      BY ElementOfSeq
    <3>3. s = Append(p, f[i])
      <4>1. Len(s) = i /\ Len(p) = i - 1 /\ (\A j \in 1..i : s[j] = f[j]) /\ \A j \in 1..(i - 1) : p[j] = f[j]
        BY <1>0, <2>1
      <4> HIDE DEF s, p
      <4>2. \A j \in 1..i : Append(p, f[i])[j] = f[j]
        BY <2>1, <3>1, <3>2, <4>1
      <4>3. Len(Append(p, f[i])) = i /\ Append(p, f[i]) \in Seq(Entry)
        BY <2>1, <3>1, <3>2, <4>1
      <4> QED BY <3>1, <4>1, <4>2, <4>3
    <3> QED BY <3>1, <3>2, <3>3
  <2> HIDE DEF p, s, w
  <2>3. w \o Append(p, f[i]) = Append(w \o p, f[i])
    BY <2>2
  <2>4. r[i] = [world |-> w \o s, mc |-> a.mc] /\ r[i - 1] = [world |-> w \o p, mc |-> a.mc]
    BY <2>1 DEF w, s, p
  <2> HIDE DEF r
  <2>5. q[i].type = "TOOL" /\ q[i].mc = a.mc /\ f[i] = [cmd |-> q[i].cmd, step |-> q[i].step]
    OBVIOUS
  <2>6. r[i - 1].world = w \o p /\ r[i - 1].mc = a.mc
    BY <2>4
  <2>7. PlayedOn(r[i - 1], q[i]) = [world |-> Append(w \o p, f[i]), mc |-> a.mc]
    BY <2>5, <2>6 DEF PlayedOn
  <2> QED BY <2>2, <2>3, <2>4, <2>7
<1> HIDE DEF r, b
<1>7. Plays(q, a, b)
  BY <1>3, <1>4, <1>5, <1>6 DEF Plays
<1>8. Outcome(q, a) = b
  BY <1>7, PlaysOnce
<1> QED BY <1>8 DEF b

LEMMA SplitAt ==
  ASSUME NEW S, NEW q \in Seq(S), NEW k \in 0..Len(q)
  PROVE  /\ q = SubSeq(q, 1, k) \o SubSeq(q, k + 1, Len(q))
         /\ SubSeq(q, 1, k) \in Seq(S) /\ Len(SubSeq(q, 1, k)) = k /\ \A i \in 1..k : SubSeq(q, 1, k)[i] = q[i]
         /\ SubSeq(q, k + 1, Len(q)) \in Seq(S) /\ Len(SubSeq(q, k + 1, Len(q))) = Len(q) - k
         /\ \A i \in 1..(Len(q) - k) : SubSeq(q, k + 1, Len(q))[i] = q[k + i]
<1>0. Len(q) \in Nat /\ k \in Nat /\ k <= Len(q)
  OBVIOUS
<1> DEFINE a == SubSeq(q, 1, k)
           b == SubSeq(q, k + 1, Len(q))
<1>1. a \in Seq(S) /\ Len(a) = k /\ \A i \in 1..k : a[i] = q[i]
  BY <1>0
<1>2. b \in Seq(S) /\ Len(b) = Len(q) - k /\ \A i \in 1..(Len(q) - k) : b[i] = q[k + i]
  BY <1>0
<1> HIDE DEF a, b
<1> DEFINE c == a \o b
<1>3. c \in Seq(S) /\ Len(c) = k + (Len(q) - k)
      /\ \A i \in 1..Len(c) : c[i] = IF i <= k THEN a[i] ELSE b[i - k]
  <2>1. c \in Seq(S) /\ Len(c) = Len(a) + Len(b)
    <3>1. a \in Seq(S) /\ b \in Seq(S)
      BY <1>1, <1>2
    <3> QED BY <3>1, ConcatProperties
  <2>2. \A i \in 1..(Len(a) + Len(b)) : c[i] = IF i <= Len(a) THEN a[i] ELSE b[i - Len(a)]
    <3>1. a \in Seq(S) /\ b \in Seq(S)
      BY <1>1, <1>2
    <3> QED BY <3>1, ConcatProperties
  <2> QED BY <1>1, <1>2, <2>1, <2>2
<1> HIDE DEF c
<1>4. ASSUME NEW i \in 1..Len(q) PROVE c[i] = q[i]
  <2>1. i \in 1..Len(c)
    BY <1>0, <1>3
  <2>2. CASE i <= k
    BY <1>0, <1>1, <1>3, <2>1, <2>2
  <2>3. CASE ~(i <= k)
    <3>1. i - k \in 1..(Len(q) - k) /\ k + (i - k) = i
      BY <1>0, <2>3
    <3> QED BY <1>2, <1>3, <2>1, <2>3, <3>1
  <2> QED BY <2>2, <2>3
<1>5. c = q
  BY <1>0, <1>3, <1>4
<1> QED BY <1>1, <1>2, <1>5 DEF a, b, c

-----------------------------------------------------------------------------
(* The server gets the log, and after it only commands of later steps *)

LEMMA QueueParts ==
  ASSUME IInv, Agreement
  PROVE  \E k \in 0..Len(cmdQ[Server]) :
           LET q == cmdQ[Server]
               t == SubSeq(q, k + 1, Len(q))
               b == [world |-> TheLog, mc |-> mc[Server]]
           IN  /\ Ends(q, sync[Server], k)
               /\ t \in Seq(WorldCommand) /\ t \in Seq(Message) /\ Len(t) = Len(q) - k
               /\ \A i \in 1..(Len(q) - k) : t[i] = q[k + i]
               /\ b \in Game
               /\ t \o Msgs(rcvd) \in Seq(Message)
               /\ ServerEnd = Outcome(t \o Msgs(rcvd), b)
<1> DEFINE q == cmdQ[Server]
           n == sync[Server]
           a == St(Server)
           f == InThisStep
           m == Msgs(rcvd)
           b == [world |-> TheLog, mc |-> mc[Server]]
<1>1. q \in Seq(WorldCommand) /\ n \in Nat /\ a \in Game /\ m \in Seq(Message) /\ f \in Seq(Entry) /\ b \in Game
      /\ f = Front(q, n)
  <2>1. q \in Seq(WorldCommand) /\ n \in Nat /\ f \in Seq(Entry) /\ TheLog \in World /\ f = Front(q, n)
    BY LogType DEF World
  <2>2. a \in Game /\ m \in Seq(Message) /\ mc[Server] \in Nat
    BY StreamTypes, NodesFacts DEF IInv, NodeInv
  <2> QED BY <2>1, <2>2 DEF Game
<1>2. \A i \in DOMAIN q : q[i].mc = mc[Server]
  BY OfQueue DEF Agreement, Queued
<1>3. PICK k \in Nat : Ends(q, n, k)
  BY <1>1, FrontEnds
<1>4. k \in 0..Len(q)
  BY <1>3 DEF Ends
<1> DEFINE h == SubSeq(q, 1, k)
           t == SubSeq(q, k + 1, Len(q))
<1>5. /\ q = h \o t /\ h \in Seq(WorldCommand) /\ Len(h) = k /\ \A i \in 1..k : h[i] = q[i]
      /\ t \in Seq(WorldCommand) /\ Len(t) = Len(q) - k /\ \A i \in 1..(Len(q) - k) : t[i] = q[k + i]
  <2>1. q \in Seq(WorldCommand) /\ k \in 0..Len(q)
    BY <1>1, <1>4
  <2> HIDE DEF q
  <2> QED BY <2>1, SplitAt, ZenonT(60)
<1> HIDE DEF h, t
<1>6. h \in Seq(Message) /\ t \in Seq(Message)
  BY <1>5, MessagesAre, SeqMonotonic
<1>7. f = [i \in 1..k |-> [cmd |-> q[i].cmd, step |-> q[i].step]]
  BY <1>1, <1>3, FrontIs
<1>8. Len(f) = Len(h)
  BY <1>5, <1>7
<1>9. \A i \in 1..Len(h) : h[i].type = "TOOL" /\ h[i].mc = a.mc /\ f[i] = [cmd |-> h[i].cmd, step |-> h[i].step]
  <2> TAKE i \in 1..Len(h)
  <2>1. i \in 1..k /\ i \in DOMAIN q /\ h[i] = q[i]
    BY <1>1, <1>4, <1>5
  <2>2. Now(q, i, n)
    BY <1>3, <2>1 DEF Ends
  <2>3. f[i] = [cmd |-> q[i].cmd, step |-> q[i].step]
    BY <1>7, <2>1
  <2>4. q[i].mc = mc[Server]
    BY <1>2, <2>1
  <2> QED BY <2>1, <2>2, <2>3, <2>4 DEF Now, St
<1> HIDE DEF q, m, a, f
<1>10. Outcome(h, a) = [world |-> a.world \o f, mc |-> a.mc]
  BY <1>1, <1>6, <1>8, <1>9, RunOfTools
<1>11. Outcome(h, a) = b
  BY <1>10 DEF a, St, f, TheLog
<1>12. ServerEnd = Outcome((h \o t) \o m, a)
  BY <1>5 DEF ServerEnd, ServerStream, q, m, a
<1>13. (h \o t) \o m = h \o (t \o m) /\ t \o m \in Seq(Message)
  BY <1>1, <1>6, Regroup, ConcatProperties
<1>14. ServerEnd = Outcome(t \o m, b)
  <2> DEFINE s == t \o m
  <2>1. s \in Seq(Message) /\ ServerEnd = Outcome(h \o s, a)
    BY <1>12, <1>13
  <2> HIDE DEF s
  <2>2. Outcome(h \o s, a) = Outcome(s, Outcome(h, a))
    BY <1>1, <1>6, <2>1, OutcomeConcat
  <2> QED BY <1>11, <2>1, <2>2 DEF s
<1> HIDE DEF b
<1> USE DEF q, n, t, m, b
<1> WITNESS k \in 0..Len(cmdQ[Server])
<1> QED BY <1>1, <1>3, <1>5, <1>6, <1>13, <1>14

(* A sync at the head of what is left: nothing after it changes the world *)
LEMMA AfterSync ==
  ASSUME IInv, Agreement, NEW t \in Seq(WorldCommand), t # <<>>, t[1].type = "SYNC",
         \A i \in DOMAIN t : \E j \in DOMAIN cmdQ[Server] : t[i] = cmdQ[Server][j],
         NEW w \in World
  PROVE  Outcome(t \o Msgs(rcvd), [world |-> w, mc |-> mc[Server]]).world = w
<1> DEFINE h == Head(t)
           s == Tail(t)
           m == Msgs(rcvd)
           b == [world |-> w, mc |-> mc[Server]]
           d == [world |-> w, mc |-> h.new]
<1>1. h \in WorldCommand /\ h = t[1] /\ s \in Seq(WorldCommand) /\ t = <<h>> \o s
      /\ \A i \in DOMAIN s : i + 1 \in DOMAIN t /\ s[i] = t[i + 1]
  OBVIOUS
<1>2. h \in Message /\ s \in Seq(Message) /\ m \in Seq(Message) /\ mc[Server] \in Nat /\ h.type = "SYNC"
  BY <1>1, MessagesAre, SeqMonotonic, StreamTypes, NodesFacts DEF IInv, NodeInv
<1>3. \A i \in DOMAIN t : t[i].mc = mc[Server] /\ (t[i].type = "SYNC" => t[i].mc < t[i].new)
  BY OfQueue DEF Agreement, Queued
<1>4. 1 \in DOMAIN t
  OBVIOUS
<1>5. h.mc = mc[Server] /\ mc[Server] < h.new /\ h.new \in Nat
  <2>1. h.mc = mc[Server] /\ h.mc < h.new
    BY <1>1, <1>2, <1>3, <1>4
  <2> QED BY <1>1, <1>2, <2>1 DEF WorldCommand
<1>6. b \in Game /\ d \in Game
  BY <1>2, <1>5 DEF Game
<1>7. PlayedOn(b, h) = d
  BY <1>2, <1>5 DEF PlayedOn
<1>8. \A i \in DOMAIN s : PlayedOn(d, s[i]) = d
  <2> TAKE i \in DOMAIN s
  <2>1. s[i].mc = mc[Server] /\ s[i].mc # d.mc
    BY <1>1, <1>2, <1>3, <1>5
  <2> QED BY <1>6, <2>1, ForeignChangesNothing
<1>9. \A i \in DOMAIN rcvd : PlayedOn(d, rcvd[i].msg) = d
  <2> TAKE i \in DOMAIN rcvd
  <2>1. CASE ~Acts(rcvd[i].msg)
    BY <1>6, <2>1, InertChangesNothing
  <2>2. CASE Acts(rcvd[i].msg)
    <3>1. rcvd[i].msg \in WorldCommand /\ rcvd[i].msg.mc <= mc[Server]
      BY <2>2, OfReceived DEF Agreement, Expected
    <3>2. rcvd[i].msg.mc \in Nat
      BY <3>1 DEF WorldCommand
    <3>3. rcvd[i].msg.mc # d.mc
      BY <1>2, <1>5, <3>1, <3>2
    <3> QED BY <1>6, <3>3, ForeignChangesNothing
  <2> QED BY <2>1, <2>2
<1>10. \A i \in DOMAIN m : i \in DOMAIN rcvd /\ m[i] = rcvd[i].msg
  BY DEF Msgs
<1> HIDE DEF h, s, m, b, d
<1>11. Outcome(s \o m, d) = d
  <2>1. s \o m \in Seq(Message)
    BY <1>2, ConcatProperties
  <2>2. ASSUME NEW i \in DOMAIN (s \o m) PROVE PlayedOn(d, (s \o m)[i]) = d
    <3>1. (\E j \in DOMAIN s : (s \o m)[i] = s[j]) \/ (\E j \in DOMAIN m : (s \o m)[i] = m[j])
      BY <1>2, ConcatElements
    <3> QED BY <1>8, <1>9, <1>10, <3>1
  <2> QED BY <1>6, <2>1, <2>2, OutcomeSame
<1>12. <<h>> \in Seq(Message) /\ t \o m = <<h>> \o (s \o m) /\ s \o m \in Seq(Message)
  <2>1. <<h>> \in Seq(Message)
    BY <1>2
  <2>2. (<<h>> \o s) \o m = <<h>> \o (s \o m)
    BY <1>2, <2>1, Regroup
  <2> QED BY <1>1, <1>2, <2>1, <2>2, ConcatProperties
<1>13. Outcome(t \o m, b) = d
  <2> DEFINE u == s \o m
  <2>1. u \in Seq(Message) /\ t \o m = <<h>> \o u /\ Outcome(u, d) = d
    BY <1>11, <1>12
  <2> HIDE DEF u
  <2>2. Outcome(<<h>> \o u, b) = Outcome(u, PlayedOn(b, h))
    BY <1>2, <1>6, <2>1, OutcomeFirst
  <2> QED BY <1>7, <2>1, <2>2
<1>14. d.world = w
  BY DEF d
<1> QED BY <1>13, <1>14 DEF m, b

(* Executing all that waits at the server first appends the commands of this  *)
(* step, which are the end of the log, and then only commands of later steps  *)
LEMMA EndHasLog ==
  ASSUME IInv, Agreement
  PROVE  /\ Begins(TheLog, ServerEnd.world) /\ ServerEnd.world \in World
         /\ \A i \in DOMAIN ServerEnd.world : i > Len(TheLog) => ServerEnd.world[i].step > sync[Server]
<1> DEFINE q == cmdQ[Server]
           n == sync[Server]
           m == Msgs(rcvd)
           E == ServerEnd.world
<1>1. PICK k \in 0..Len(q) :
           LET t == SubSeq(q, k + 1, Len(q))
               b == [world |-> TheLog, mc |-> mc[Server]]
           IN  /\ Ends(q, sync[Server], k)
               /\ t \in Seq(WorldCommand) /\ t \in Seq(Message) /\ Len(t) = Len(q) - k
               /\ \A i \in 1..(Len(q) - k) : t[i] = q[k + i]
               /\ b \in Game
               /\ t \o Msgs(rcvd) \in Seq(Message)
               /\ ServerEnd = Outcome(t \o Msgs(rcvd), b)
  BY QueueParts
<1> DEFINE t == SubSeq(q, k + 1, Len(q))
           b == [world |-> TheLog, mc |-> mc[Server]]
           s == t \o m
<1>2. /\ Ends(q, n, k) /\ t \in Seq(WorldCommand) /\ t \in Seq(Message) /\ Len(t) = Len(q) - k
      /\ \A i \in 1..(Len(q) - k) : t[i] = q[k + i]
      /\ b \in Game /\ s \in Seq(Message) /\ ServerEnd = Outcome(s, b)
  BY <1>1
<1>3. n \in Nat /\ m \in Seq(Message) /\ Len(q) \in Nat /\ q \in Seq(WorldCommand) /\ TheLog \in World
      /\ ServerEnd \in Game
  BY LogType, StreamTypes
<1>4. E \in World
  BY <1>3 DEF Game
<1> HIDE DEF t
<1>5. \A i \in DOMAIN t : k + i \in DOMAIN q /\ t[i] = q[k + i]
  BY <1>2, <1>3
<1>6. CASE \A j \in DOMAIN s : s[j].type = "TOOL" => s[j].step > n
  <2>1. /\ Len(b.world) <= Len(E) /\ SubSeq(E, 1, Len(b.world)) = b.world
        /\ \A i \in DOMAIN E : i > Len(b.world) => \E j \in DOMAIN s : s[j].type = "TOOL" /\ E[i].step = s[j].step
    BY <1>2, OutcomeGrows
  <2>2. b.world = TheLog
    OBVIOUS
  <2>3. ASSUME NEW i \in DOMAIN E, i > Len(TheLog) PROVE E[i].step > n
    BY <1>6, <2>1, <2>2, <2>3
  <2> QED BY <1>4, <2>1, <2>2, <2>3 DEF Begins
<1>7. CASE \E j \in DOMAIN s : s[j].type = "TOOL" /\ ~(s[j].step > n)
  <2>1. PICK j \in DOMAIN s : s[j].type = "TOOL" /\ ~(s[j].step > n)
    BY <1>7
  <2>2. \A i \in DOMAIN m : m[i].type = "TOOL" => m[i].step > n
    <3> TAKE i \in DOMAIN m
    <3>1. i \in DOMAIN rcvd /\ m[i] = rcvd[i].msg
      BY DEF Msgs
    <3> QED BY <1>3, <3>1, OfReceived DEF Agreement, Expected, Acts
  <2> HIDE DEF m, s
  <2>3. PICK i \in DOMAIN t : s[j] = t[i]
    <3>1. j \in DOMAIN (t \o m)
      BY DEF s
    <3>2. \/ j \in DOMAIN t /\ (t \o m)[j] = t[j]
          \/ \E i \in DOMAIN m : (t \o m)[j] = m[i]
      BY <1>2, <1>3, <3>1, ConcatElements
    <3> QED BY <2>1, <2>2, <3>2 DEF s
  <2>4. t # <<>> /\ k + i \in DOMAIN q /\ k + 1 \in DOMAIN q /\ t[1] = q[k + 1] /\ k + 1 <= k + i /\ k # Len(q)
    <3>1. i \in 1..(Len(q) - k) /\ k + i \in DOMAIN q /\ 1 \in 1..(Len(q) - k)
      BY <1>2, <1>3, <1>5
    <3> QED BY <1>2, <1>3, <3>1
  <2>5. Queued(q[k + 1], n, mc[Server], world[Server], lastMc) /\ q[k + 1] \in WorldCommand /\ q[k + i] \in WorldCommand
    BY <2>4, OfQueue DEF Agreement
  <2>6. q[k + 1].step <= q[k + i].step
    <3>1. q[k + 1].step \in Nat
      BY <2>5 DEF WorldCommand
    <3>2. CASE k + 1 = k + i
      BY <3>1, <3>2
    <3>3. CASE k + 1 # k + i
      <4>1. k + 1 < k + i
        BY <1>3, <2>4, <3>3
      <4> QED BY <2>4, <4>1 DEF Agreement, Sorted
    <3> QED BY <3>2, <3>3
  <2>7. q[k + 1].step = n
    <3>1. q[k + 1].step \in Nat /\ q[k + i].step \in Nat
      BY <2>5 DEF WorldCommand
    <3>2. ~(q[k + i].step > n) /\ n <= q[k + 1].step
      BY <1>5, <2>1, <2>3, <2>5 DEF Queued
    <3> QED BY <1>3, <2>6, <3>1, <3>2
  <2>8. t[1].type = "SYNC"
    <3>1. ~Now(q, k + 1, n)
      BY <1>2, <2>4 DEF Ends
    <3> QED BY <2>4, <2>5, <2>7, <3>1 DEF Now, Queued, Acts
  <2>9. Outcome(s, b).world = TheLog
    <3>1. \A x \in DOMAIN t : \E y \in DOMAIN cmdQ[Server] : t[x] = cmdQ[Server][y]
      BY <1>5
    <3> QED BY <1>2, <1>3, <2>4, <2>8, <3>1, AfterSync DEF s, m
  <2>10. E = TheLog
    BY <1>2, <2>9
  <2>11. SubSeq(TheLog, 1, Len(TheLog)) = TheLog /\ Len(TheLog) \in Nat /\ DOMAIN TheLog = 1..Len(TheLog)
    BY <1>3, WholeIsItself DEF World
  <2> HIDE DEF E
  <2> QED BY <2>10, <2>11, <1>4 DEF Begins, E
<1> QED BY <1>6, <1>7

-----------------------------------------------------------------------------
(* A copy that becomes what the server will have is a beginning of the log *)

LEMMA BeginsElements ==
  ASSUME NEW a \in World, NEW w \in World
  PROVE  /\ Len(a) \in Nat /\ DOMAIN a = 1..Len(a)
         /\ Begins(a, w) <=> Len(a) <= Len(w) /\ \A i \in 1..Len(a) : a[i] = w[i]
         /\ Begins(a, w) => Log!IsPrefix(a, w)
<1>1. a \in Seq(Entry) /\ w \in Seq(Entry) /\ Len(a) \in Nat /\ Len(w) \in Nat /\ DOMAIN a = 1..Len(a)
  BY DEF World
<1>2. SubSeq(a, 1, Len(a)) = a
  BY WholeIsItself
<1>3. ASSUME Len(a) <= Len(w)
      PROVE  SubSeq(w, 1, Len(a)) = a <=> \A i \in 1..Len(a) : a[i] = w[i]
  <2> DEFINE p == SubSeq(w, 1, Len(a))
  <2>1. p \in Seq(Entry) /\ Len(p) = Len(a) /\ \A i \in 1..Len(a) : p[i] = w[i]
    BY <1>1, <1>3
  <2> HIDE DEF p
  <2>2. (\A i \in 1..Len(a) : a[i] = w[i]) => p = a
    BY <1>1, <2>1
  <2>3. p = a => \A i \in 1..Len(a) : a[i] = w[i]
    BY <2>1
  <2> QED BY <2>2, <2>3 DEF p
<1> QED BY <1>1, <1>2, <1>3 DEF Begins, Log!IsPrefix

LEMMA BeginsBoth ==
  ASSUME NEW a \in World, NEW l \in World, NEW e \in World, NEW n \in Nat,
         Begins(a, e), Begins(l, e), \A i \in DOMAIN a : a[i].step <= n,
         \A i \in DOMAIN e : i > Len(l) => e[i].step > n
  PROVE  Begins(a, l)
<1>1. /\ Len(a) \in Nat /\ Len(l) \in Nat /\ Len(e) \in Nat /\ DOMAIN a = 1..Len(a) /\ DOMAIN e = 1..Len(e)
      /\ Len(a) <= Len(e) /\ \A i \in 1..Len(a) : a[i] = e[i]
      /\ Len(l) <= Len(e) /\ \A i \in 1..Len(l) : l[i] = e[i]
  BY BeginsElements
<1>2. Len(a) <= Len(l)
  <2> SUFFICES ASSUME ~(Len(a) <= Len(l)) PROVE FALSE
    OBVIOUS
  <2> DEFINE k == Len(l) + 1
  <2>1. k \in 1..Len(a) /\ k \in 1..Len(e) /\ k > Len(l)
    BY <1>1
  <2> HIDE DEF k
  <2>2. a[k] = e[k] /\ a[k].step <= n /\ e[k].step > n
    BY <1>1, <2>1
  <2>3. a[k].step \in Nat
    <3>1. a[k] \in Entry
      BY <1>1, <2>1 DEF World
    <3> QED BY <3>1 DEF Entry
  <2> QED BY <2>2, <2>3
<1>3. \A i \in 1..Len(a) : a[i] = l[i]
  <2> TAKE i \in 1..Len(a)
  <2>1. i \in 1..Len(l)
    BY <1>1, <1>2
  <2> QED BY <1>1, <2>1
<1> QED BY <1>2, <1>3, BeginsElements

LEMMA CopyInLog ==
  ASSUME IInv, Agreement, NEW x \in Seq(Message), NEW a \in Game, Outcome(x, a) = ServerEnd, Past(a.world)
  PROVE  Begins(a.world, TheLog)
<1>1. Begins(a.world, ServerEnd.world)
  BY OutcomeGrows DEF Begins
<1>2. /\ Begins(TheLog, ServerEnd.world) /\ ServerEnd.world \in World
      /\ \A i \in DOMAIN ServerEnd.world : i > Len(TheLog) => ServerEnd.world[i].step > sync[Server]
  BY EndHasLog
<1>3. a.world \in World /\ TheLog \in World /\ sync[Server] \in Nat
  BY LogType DEF Game
<1> QED BY <1>1, <1>2, <1>3, BeginsBoth DEF Past

-----------------------------------------------------------------------------
(* The steps of the server *)

Holders == {c \in Clients : Playing(c)}

LEMMA LogSame ==
  ASSUME cmdQ'[Server] = cmdQ[Server], world'[Server] = world[Server], sync'[Server] = sync[Server]
  PROVE  TheLog' = TheLog
BY DEF TheLog, InThisStep

LEMMA HoldersSame ==
  ASSUME IInv, ServerNext, sock' = sock
  PROVE  Holders' = Holders
BY ServerTouchesNoClient DEF Holders, Playing

LEMMA LogStepped ==
  ASSUME IInv, IInv', Agreement, SrvStep
  PROVE  Begins(TheLog, TheLog')
<1>1. \A i \in DOMAIN cmdQ[Server] : cmdQ[Server][i].step = sync[Server] + 1
  BY StepServer DEF Agreement
<1>2. /\ cmdQ[Server] \in Seq(WorldCommand) /\ sync[Server] \in Nat /\ world[Server] \in World
      /\ InThisStep = Front(cmdQ[Server], sync[Server])
  BY LogType
<1>3. cmdQ[Server] = <<>> \/ ~Now(cmdQ[Server], 1, sync[Server])
  BY <1>1, <1>2 DEF Now
<1>4. InThisStep = <<>>
  BY <1>2, <1>3, FrontEmpty
<1>5. TheLog = world[Server]
  BY <1>2, <1>4 DEF TheLog, World
<1>6. world'[Server] = world[Server]
  BY DEF SrvStep
<1> DEFINE w == world[Server]
           f == Front(cmdQ'[Server], sync'[Server])
<1>7. TheLog' = w \o f
  BY <1>6 DEF TheLog, InThisStep, Front
<1>8. f \in Seq(Entry) /\ w \in Seq(Entry)
  <2>1. cmdQ'[Server] \in Seq(WorldCommand) /\ sync'[Server] \in Nat
    BY NodesFacts DEF IInv, NodeInv
  <2> QED BY <1>2, <2>1, FrontType DEF World
<1> HIDE DEF w, f
<1>9. Len(w) <= Len(w \o f) /\ SubSeq(w \o f, 1, Len(w)) = w
  BY <1>8
<1> QED BY <1>5, <1>7, <1>9 DEF Begins, w

LEMMA LogExecuted ==
  ASSUME IInv, IInv', Agreement, SrvDrain, Head(cmdQ[Server]).type = "TOOL"
  PROVE  TheLog' = TheLog
<1> DEFINE q == cmdQ[Server]
           m == Head(q)
           n == sync[Server]
           w == world[Server]
           e == [cmd |-> m.cmd, step |-> n]
           f == Front(Tail(q), n)
<1>1. /\ q \in Seq(WorldCommand) /\ n \in Nat /\ w \in Seq(Entry) /\ InThisStep = Front(q, n)
  BY LogType DEF World
<1>2. m \in WorldCommand /\ m = q[1] /\ q # <<>> /\ m.step = n
  BY DueAtServer DEF SrvDrain, Agreement
<1>3. cmdQ'[Server] = Tail(q) /\ sync'[Server] = n /\ world'[Server] = Append(w, e)
  <2>1. Execute(Server, m) /\ cmdQ' = [cmdQ EXCEPT ![Server] = Tail(@)] /\ sync' = sync
    BY DrainEffect DEF Agreement
  <2> QED BY <2>1, NodesFacts DEF Execute, IInv, NodeInv
<1>4. InThisStep' = f
  BY <1>3 DEF InThisStep, Front
<1>5. Front(q, n) = <<e>> \o f
  BY <1>1, <1>2, FrontTail DEF Now
<1>6. Tail(q) \in Seq(WorldCommand) /\ e \in Entry
  BY <1>1, <1>2 DEF WorldCommand, Entry
<1>7. f \in Seq(Entry)
  BY <1>1, <1>6, FrontType DEF World
<1> HIDE DEF e, f, w, q, m, n
<1>8. Append(w, e) \o f = w \o (<<e>> \o f)
  BY <1>1, <1>6, <1>7
<1> QED BY <1>1, <1>3, <1>4, <1>5, <1>8 DEF TheLog, w

LEMMA LogQueued ==
  ASSUME IInv, IInv', Agreement, rcvd # <<>>, Acts(Head(rcvd).msg), ExecuteWorldCommand(Head(rcvd).msg)
  PROVE  TheLog' = TheLog
<1> DEFINE q == cmdQ[Server]
           m == Head(rcvd).msg
           n == sync[Server]
<1>1. /\ q \in Seq(WorldCommand) /\ n \in Nat /\ InThisStep = Front(q, n)
  BY LogType
<1>2. m \in WorldCommand /\ m.step # n
  <2>1. m \in WorldCommand /\ m.step = n + 1
    BY HeadExpected DEF Agreement, Expected
  <2> QED BY <1>1, <2>1
<1>3. cmdQ'[Server] = q \/ cmdQ'[Server] = Append(q, m)
  BY WorldCommandEffect DEF Agreement
<1>4. world' = world /\ sync' = sync
  BY DEF ExecuteWorldCommand
<1>5. InThisStep' = Front(cmdQ'[Server], n)
  BY <1>4 DEF InThisStep, Front
<1>6. Front(Append(q, m), n) = Front(q, n)
  BY <1>1, <1>2, FrontAppend
<1>7. InThisStep' = InThisStep
  BY <1>1, <1>3, <1>5, <1>6
<1> QED BY <1>4, <1>7 DEF TheLog

(* Where a sync leaves the server *)
LEMMA LogSynced ==
  ASSUME IInv, IInv', Agreement, WorldsOk, NEW id, NEW new, SyncServer(id, new)
  PROVE  /\ TheLog' = NetworkSave /\ Begins(NetworkSave, world[Server]) /\ Begins(TheLog', TheLog)
         /\ InThisStep = <<>> => TheLog = world[Server]
<1>1. cmdQ'[Server] = <<>> /\ world'[Server] = NetworkSave
  BY NodesFacts DEF SyncServer, LoadServer, IInv, NodeInv
<1>2. world[Server] \in World /\ saved \in World /\ TheLog \in World /\ Begins(world[Server], TheLog)
  BY LogType DEF IInv, ServerInv
<1>3. NetworkSave \in World
  BY <1>2 DEF NetworkSave
<1>4. InThisStep' = <<>>
  <2>1. InThisStep' = Front(cmdQ'[Server], sync'[Server])
    BY DEF InThisStep, Front
  <2>2. cmdQ'[Server] \in Seq(WorldCommand)
    BY <1>1
  <2> QED BY <1>1, <2>1, <2>2, FrontEmpty
<1>5. TheLog' = NetworkSave
  BY <1>1, <1>3, <1>4 DEF TheLog, World
<1>6. Begins(NetworkSave, world[Server])
  BY <1>2, WholeIsItself DEF NetworkSave, WorldsOk, Begins
<1>7. Begins(NetworkSave, TheLog)
  <2>1. /\ Len(NetworkSave) \in Nat /\ Len(world[Server]) \in Nat /\ Len(TheLog) \in Nat
        /\ Len(NetworkSave) <= Len(world[Server]) /\ \A i \in 1..Len(NetworkSave) : NetworkSave[i] = world[Server][i]
        /\ Len(world[Server]) <= Len(TheLog) /\ \A i \in 1..Len(world[Server]) : world[Server][i] = TheLog[i]
    BY <1>2, <1>3, <1>6, BeginsElements
  <2>2. \A i \in 1..Len(NetworkSave) : NetworkSave[i] = TheLog[i]
    <3> TAKE i \in 1..Len(NetworkSave)
    <3>1. i \in 1..Len(world[Server])
      BY <2>1
    <3> QED BY <2>1, <3>1
  <2>3. Len(NetworkSave) <= Len(TheLog)
    BY <2>1
  <2> QED BY <1>2, <1>3, <2>2, <2>3, BeginsElements
<1>8. InThisStep = <<>> => TheLog = world[Server]
  BY <1>2 DEF TheLog, World
<1> QED BY <1>5, <1>6, <1>7, <1>8

-----------------------------------------------------------------------------
(* What a step of the server does to the log and to those who hold a copy *)

LEMMA HoldersOf ==
  ASSUME IInv, ServerNext
  PROVE  /\ \A d \in Clients : sock'[d] = sock[d] => (d \in Holders' <=> d \in Holders)
         /\ \A d \in Clients : sock'[d] # "playing" => d \notin Holders'
         /\ \A d \in Clients : d \in Holders <=> sock[d] = "playing" /\ phase[d] \in {"pause", "run"}
         /\ \A d \in Clients : d \in Holders' <=> sock'[d] = "playing" /\ phase[d] \in {"pause", "run"}
         /\ Holders \subseteq Clients /\ Holders' \subseteq Clients
<1>1. Holders' = {d \in Clients : Playing(d)'}
  BY DEF Holders
<1>2. \A d \in Clients : Playing(d)' <=> sock'[d] = "playing" /\ phase[d] \in {"pause", "run"}
  BY ServerTouchesNoClient DEF Playing
<1> QED BY <1>1, <1>2 DEF Holders, Playing

LEMMA OneLeaves ==
  ASSUME IInv, ServerNext, NEW c \in Clients, NEW how \in {"none", "kicked", "connected"},
         sock' = [sock EXCEPT ![c] = how]
  PROVE  Holders' = Holders \/ (c \in Holders /\ Holders' = Holders \ {c})
<1>1. sock'[c] # "playing" /\ \A d \in Clients : d # c => sock'[d] = sock[d]
  BY DEF IInv, SockInv
<1>2. /\ c \notin Holders' /\ \A d \in Clients : d # c => (d \in Holders' <=> d \in Holders)
      /\ Holders \subseteq Clients /\ Holders' \subseteq Clients
  BY <1>1, HoldersOf
<1> HIDE DEF Holders
<1> QED BY <1>2

LEMMA SyncHolders ==
  ASSUME IInv, ServerNext, \A e \in Clients : SockFine(e), NEW id, NEW new, SyncServer(id, new)
  PROVE  Holders' = Holders
<1>1. ASSUME NEW d \in Clients PROVE d \in Holders' <=> d \in Holders
  <2>1. sock'[d] = IF d \in Occupant(id) THEN "playing" ELSE sock[d]
    BY DEF SyncServer
  <2>2. CASE d \in Occupant(id)
    <3>1. sock[d] \in {"connected", "playing"}
      BY <2>2 DEF Occupant, Open
    <3>2. phase[d] \in {"pause", "run"} => sock[d] = "playing"
      BY <3>1 DEF SockFine
    <3> QED BY <2>1, <2>2, <3>2, HoldersOf
  <2>3. CASE d \notin Occupant(id)
    BY <2>1, <2>3, HoldersOf
  <2> QED BY <2>2, <2>3
<1>2. Holders \subseteq Clients /\ Holders' \subseteq Clients
  BY HoldersOf
<1> HIDE DEF Holders
<1> QED BY <1>1, <1>2

Logs ==
  \/ TheLog' = TheLog /\ (Holders' = Holders \/ \E c \in Holders : Holders' = Holders \ {c})
  \/ Holders' = Holders /\ Begins(TheLog, TheLog')
  \/ Holders = {} /\ Holders' = {} /\ Begins(TheLog', TheLog)

LEMMA ServerLog ==
  ASSUME IInv, IInv', Agreement, WorldsOk, ServerNext
  PROVE  Logs
<1>1. ASSUME cmdQ'[Server] = cmdQ[Server], world'[Server] = world[Server], sync'[Server] = sync[Server],
             sock' = sock \/ \E c \in Clients, how \in {"none", "kicked", "connected"} : sock' = [sock EXCEPT ![c] = how]
      PROVE  Logs
  <2>1. TheLog' = TheLog
    BY <1>1, LogSame
  <2>2. Holders' = Holders \/ \E c \in Holders : Holders' = Holders \ {c}
    BY <1>1, HoldersSame, OneLeaves
  <2> QED BY <2>1, <2>2 DEF Logs
<1>2. CASE SrvStep
  <2>1. sock' = sock
    BY <1>2 DEF SrvStep
  <2> QED BY <1>2, <2>1, LogStepped, HoldersSame DEF Logs
<1>3. CASE SrvDrain
  <2> DEFINE m == Head(cmdQ[Server])
  <2>1. CASE m.type = "TOOL"
    <3>1. TheLog' = TheLog
      BY <1>3, <2>1, LogExecuted
    <3>2. sock' = sock
      BY <1>3, <2>1, DrainEffect DEF Agreement, sockVars
    <3> QED BY <3>1, <3>2, HoldersSame DEF Logs
  <2>2. CASE m.type = "SYNC"
    <3>1. SyncServer(m.id, m.new)
      BY <1>3, <2>2, DrainEffect DEF Agreement
    <3>2. TheLog' = NetworkSave /\ Begins(TheLog', TheLog) /\ (InThisStep = <<>> => TheLog = world[Server])
      BY <3>1, LogSynced
    <3>3. Holders' = Holders
      BY <3>1, SyncHolders DEF Agreement
    <3>4. InThisStep = <<>>
      <4>1. cmdQ[Server] \in Seq(WorldCommand) /\ InThisStep = Front(cmdQ[Server], sync[Server])
        BY LogType
      <4>2. m = cmdQ[Server][1]
        BY <1>3, DueAtServer DEF SrvDrain, Agreement
      <4> QED BY <2>2, <4>1, <4>2, FrontEmpty DEF Now
    <3>5. CASE ~hasSave
      BY <3>2, <3>3, <3>4, <3>5 DEF NetworkSave, Logs
    <3>6. CASE hasSave
      <4>1. \A c \in Clients : sock[c] # "playing"
        BY <3>6 DEF Agreement, SaveInv
      <4>2. Holders = {}
        BY <4>1, HoldersOf
      <4> QED BY <3>2, <3>3, <4>2 DEF Logs
    <3> QED BY <3>5, <3>6
  <2> QED BY <1>3, <2>1, <2>2, DrainEffect DEF Agreement
<1>4. CASE SrvForceSync
  <2>1. CASE NumPlaying = 0 /\ SyncServer(0, lastMc + 1)
    <3>1. Begins(TheLog', TheLog)
      BY <2>1, LogSynced
    <3>2. Holders' = Holders
      BY <2>1, SyncHolders DEF Agreement
    <3>3. Holders = {}
      BY <2>1, NobodyPlays, HoldersOf
    <3> QED BY <3>1, <3>2, <3>3 DEF Logs
  <2>2. CASE UNCHANGED nodeVars /\ sock' = sock
    BY <1>1, <2>2 DEF nodeVars
  <2> QED BY <1>4, <2>1, <2>2 DEF SrvForceSync
<1>5. CASE SrvSend \/ SrvLoop \/ SrvTool
  BY <1>1, <1>5 DEF SrvSend, SrvLoop, SrvTool, nodeVars, sockVars
<1>6. ASSUME NEW c \in Clients, SrvAccept(c) \/ SrvReceive(c) PROVE Logs
  <2>1. UNCHANGED nodeVars
    BY <1>6 DEF SrvAccept, SrvReceive
  <2>2. \/ sock' = sock \/ sock' = [sock EXCEPT ![c] = "connected"] \/ sock' = [sock EXCEPT ![c] = "none"]
    BY <1>6 DEF SrvAccept, SrvReceive, RemoveClient
  <2> QED BY <1>1, <2>1, <2>2 DEF nodeVars
<1>7. CASE SrvExecute
  <2> DEFINE m == Head(rcvd).msg
             from == Head(rcvd).from
  <2>1. rcvd # <<>>
    BY <1>7 DEF SrvExecute
  <2>2. CASE m.type \in {"TOOL", "SYNC"} /\ ExecuteWorldCommand(m)
    <3>1. TheLog' = TheLog
      BY <2>1, <2>2, LogQueued DEF Acts
    <3>2. sock' = sock
      BY <2>2 DEF ExecuteWorldCommand, sockVars
    <3> QED BY <3>1, <3>2, HoldersSame DEF Logs
  <2>3. CASE m.type = "JOIN" /\ ExecuteJoin(from)
    <3>1. UNCHANGED nodeVars /\ sock' = sock
      BY <2>3 DEF ExecuteJoin
    <3> QED BY <1>1, <3>1 DEF nodeVars
  <2>4. CASE m.type = "READY" /\ ExecuteReady(from, m)
    <3>1. from \in Clients
      BY <2>1, <2>4, HeadOfReceived
    <3>2. UNCHANGED nodeVars /\ (sock' = sock \/ sock' = [sock EXCEPT ![from] = "kicked"])
      BY <2>4 DEF ExecuteReady, RemoveClient
    <3> QED BY <1>1, <3>1, <3>2 DEF nodeVars
  <2>5. CASE m.type = "REQUEST" /\ ExecuteRequest(from, m)
    <3>1. UNCHANGED nodeVars
      BY <2>5 DEF ExecuteRequest
    <3>2. sock' = sock \/ (from # Server /\ sock' = [sock EXCEPT ![from] = "kicked"])
      BY <2>5 DEF ExecuteRequest, RemoveClient
    <3>3. from \in Clients \cup {Server}
      BY <2>1, HeadOfReceived DEF ReceivedTo, Received
    <3> QED BY <1>1, <3>1, <3>2, <3>3 DEF nodeVars
  <2> QED BY <1>7, <2>2, <2>3, <2>4, <2>5 DEF SrvExecute
<1> QED BY <1>2, <1>3, <1>4, <1>5, <1>6, <1>7 DEF ServerNext

-----------------------------------------------------------------------------
(* What a step of a client does to its copy *)

LEMMA CopyIs ==
  ASSUME IInv, IInv', Agreement, WorldsOk', sync'[Server] = sync[Server], NEW c \in Clients, Playing(c)',
         NEW x \in Seq(Message), NEW a \in Game, Outcome(x, a) = ServerEnd, a.world = world'[c]
  PROVE  Begins(world'[c], TheLog)
<1>1. Past(a.world)
  <2>1. \A i \in DOMAIN world'[c] : world'[c][i].step <= sync[Server]
    BY DEF WorldsOk, Past
  <2> QED BY <2>1 DEF Past
<1> QED BY <1>1, CopyInLog

LEMMA CopyGrows ==
  ASSUME NEW w \in World, NEW e \in Entry, NEW l \in World, Begins(Append(w, e), l)
  PROVE  Len(w) < Len(l) /\ l[Len(w) + 1] = e
<1> DEFINE v == Append(w, e)
<1>1. w \in Seq(Entry) /\ l \in Seq(Entry) /\ Len(w) \in Nat /\ Len(l) \in Nat
  BY DEF World
<1>2. v \in World /\ Len(v) = Len(w) + 1 /\ v[Len(w) + 1] = e
  BY <1>1 DEF World
<1> HIDE DEF v
<1>3. Len(v) <= Len(l) /\ \A i \in 1..Len(v) : v[i] = l[i]
  BY <1>2, BeginsElements DEF v
<1>4. Len(w) + 1 \in 1..Len(v)
  BY <1>1, <1>2
<1> QED BY <1>1, <1>2, <1>3, <1>4

LEMMA ClientLog ==
  ASSUME IInv, IInv', Agreement, WorldsOk', NEW c \in Clients, ClientNext(c)
  PROVE  /\ TheLog' = TheLog
         /\ \A d \in Clients : d # c => (Playing(d)' <=> Playing(d)) /\ world'[d] = world[d]
         /\ Playing(c) /\ Playing(c)' =>
              \/ world'[c] = world[c]
              \/ /\ Len(world[c]) < Len(TheLog)
                 /\ world'[c] = Append(world[c], TheLog[Len(world[c]) + 1])
         /\ ~Playing(c) /\ Playing(c)' => \E n \in 0..Len(TheLog) : world'[c] = SubSeq(TheLog, 1, n)
<1>1. TheLog' = TheLog /\ sync'[Server] = sync[Server]
  BY ClientKeepsServer, LogSame
<1>2. \A d \in Clients : d # c => (Playing(d)' <=> Playing(d)) /\ world'[d] = world[d]
  BY ClientTouchesNobody DEF Playing
<1>3. Playing(c)' => sock[c] = "playing" /\ phase'[c] \in {"pause", "run"}
  BY ClientWorldStep DEF Playing
<1>4. ViewOk(c) /\ world[c] \in World /\ world'[c] \in World /\ TheLog \in World /\ c \in Nodes
  BY NodesFacts, LogType DEF Agreement, IInv, NodeInv
<1>5. ASSUME Playing(c), Playing(c)'
      PROVE  \/ world'[c] = world[c]
             \/ /\ Len(world[c]) < Len(TheLog)
                /\ world'[c] = Append(world[c], TheLog[Len(world[c]) + 1])
  <2> DEFINE m == Head(cmdQ[c])
             e == [cmd |-> m.cmd, step |-> sync[c]]
  <2>1. CASE /\ cmdQ[c] # <<>> /\ m.type = "TOOL" /\ m.mc = mc[c]
             /\ 0 < m.step => m.step = sync[c]
             /\ world'[c] = Append(world[c], e) /\ e \in Entry
    <3> DEFINE r == (Tail(cmdQ[c]) \o down[c]) \o sendq[c]
               a == PlayedOn(St(c), m)
    <3>1. /\ r \in Seq(Message) /\ m \in Message /\ 0 < m.step
          /\ Follows(r, a, sync[Server], ServerEnd)
      BY <1>4, <1>5, <2>1, ExecutingFollows DEF Playing
    <3>2. a \in Game
      BY <1>4, <3>1, StreamTypes, PlayedType
    <3>3. a.world = world'[c]
      BY <2>1, <3>1 DEF PlayedOn, St
    <3>4. Outcome(r, a) = ServerEnd
      BY <3>1 DEF Follows
    <3> HIDE DEF r, a
    <3>5. Begins(world'[c], TheLog)
      BY <1>1, <1>5, <3>1, <3>2, <3>3, <3>4, CopyIs
    <3> HIDE DEF e
    <3>6. Begins(Append(world[c], e), TheLog)
      BY <2>1, <3>5
    <3> QED BY <1>4, <2>1, <3>6, CopyGrows
  <2>2. phase[c] # "game"
    BY <1>5 DEF Playing
  <2> QED BY <1>3, <1>5, <2>1, <2>2, ClientWorldStep
<1>6. ASSUME ~Playing(c), Playing(c)'
      PROVE  \E n \in 0..Len(TheLog) : world'[c] = SubSeq(TheLog, 1, n)
  <2>1. sock[c] = "playing" /\ phase[c] \notin {"pause", "run"}
    BY <1>3, <1>6 DEF Playing
  <2>2. phase[c] = "game" /\ down[c] # <<>> /\ Head(down[c]).type = "GAME" /\ world'[c] = Head(down[c]).world
    BY <1>3, <1>6, <2>1, ClientWorldStep
  <2>3. /\ Head(down[c]) = down[c][1] /\ down[c][2] \in Ready
        /\ Follows(Rest(c, 1), Snapshot(c, 1), sync[Server], ServerEnd)
    BY <1>4, <2>1, <2>2, LoadedFollows
  <2> DEFINE a == Snapshot(c, 1)
             r == Rest(c, 1)
  <2>4. a.world = world'[c] /\ a \in Game
    <3>1. down[c][1 + 1].mc \in Nat
      BY <2>3 DEF Ready
    <3> QED BY <1>4, <2>2, <2>3, <3>1 DEF Snapshot, Game
  <2>5. r \in Seq(Message)
    <3>1. /\ down[c] \in Seq(Message) /\ sendq[c] \in Seq(Message) /\ 2 \in DOMAIN down[c]
      BY <1>4, <2>1, <2>2, LoadedFollows, StreamTypes
    <3>2. 3 \in 1..(Len(down[c]) + 1) /\ 1 + 2 = 3
      BY <3>1
    <3>3. SubSeq(down[c], 3, Len(down[c])) \in Seq(Message)
      BY <3>1, <3>2, Piece
    <3> QED BY <3>1, <3>2, <3>3, ConcatProperties DEF Rest
  <2>6. Outcome(r, a) = ServerEnd
    BY <2>3 DEF Follows
  <2> HIDE DEF r, a
  <2>7. Begins(world'[c], TheLog)
    BY <1>1, <1>6, <2>4, <2>5, <2>6, CopyIs
  <2>8. Len(world'[c]) \in 0..Len(TheLog) /\ world'[c] = SubSeq(TheLog, 1, Len(world'[c]))
    <3>1. Len(world'[c]) \in Nat /\ Len(TheLog) \in Nat
      BY <1>4, WholeIsItself
    <3> QED BY <2>7, <3>1 DEF Begins
  <2> QED BY <2>8
<1> QED BY <1>1, <1>2, <1>5, <1>6

-----------------------------------------------------------------------------
(* The refinement *)

Copies == [c \in {d \in Clients : Playing(d)} |-> world[c]]

LEMMA CopiesAre ==
  /\ DOMAIN Copies = Holders /\ Copies = [h \in Holders |-> world[h]]
  /\ Copies' = [h \in Holders' |-> world'[h]]
  /\ Holders \subseteq Clients /\ Holders' \subseteq Clients
BY DEF Copies, Holders

LEMMA StepsOfLog ==
  /\ TheLog' = TheLog /\ Copies' = Copies => [Log!LogNext]_(Log!logVars)
  /\ TheLog # TheLog' /\ Log!IsPrefix(TheLog, TheLog') /\ Copies' = Copies => Log!LogNext
  /\ Holders = {} /\ TheLog # TheLog' /\ Log!IsPrefix(TheLog', TheLog) /\ Copies' = Copies => Log!LogNext
  /\ \A c \in Clients :
       /\ /\ c \in Holders /\ Len(Copies[c]) < Len(TheLog) /\ TheLog' = TheLog
          /\ Copies' = [Copies EXCEPT ![c] = Append(@, TheLog[Len(@) + 1])]
          => Log!LogNext
       /\ /\ c \notin Holders /\ TheLog' = TheLog
          /\ \E n \in 0..Len(TheLog) :
               Copies' = [h \in Holders \cup {c} |-> IF h = c THEN SubSeq(TheLog, 1, n) ELSE Copies[h]]
          => Log!LogNext
       /\ /\ c \in Holders /\ TheLog' = TheLog
          /\ Copies' = [h \in Holders \ {c} |-> Copies[h]]
          => Log!LogNext
<1>1. Log!Holders = Holders
  BY CopiesAre DEF Log!Holders, Copies
<1>2. TheLog' = TheLog /\ Copies' = Copies => [Log!LogNext]_(Log!logVars)
  BY DEF Log!logVars, TheLog, Copies
<1>3. TheLog # TheLog' /\ Log!IsPrefix(TheLog, TheLog') /\ Copies' = Copies => Log!Commit
  BY DEF Log!Commit, TheLog, Copies
<1>4. Holders = {} /\ TheLog # TheLog' /\ Log!IsPrefix(TheLog', TheLog) /\ Copies' = Copies => Log!SetBack
  BY <1>1 DEF Log!SetBack, TheLog, Copies
<1>5. ASSUME NEW c \in Clients
      PROVE  /\ c \in Holders /\ Len(Copies[c]) < Len(TheLog) /\ TheLog' = TheLog
             /\ Copies' = [Copies EXCEPT ![c] = Append(@, TheLog[Len(@) + 1])]
             => Log!Apply(c)
  BY <1>1 DEF Log!Apply, TheLog, Copies
<1>6. ASSUME NEW c \in Clients
      PROVE  /\ c \notin Holders /\ TheLog' = TheLog
             /\ \E n \in 0..Len(TheLog) :
                  Copies' = [h \in Holders \cup {c} |-> IF h = c THEN SubSeq(TheLog, 1, n) ELSE Copies[h]]
             => Log!Attach(c)
  BY <1>1 DEF Log!Attach, TheLog, Copies
<1>7. ASSUME NEW c \in Clients
      PROVE  /\ c \in Holders /\ TheLog' = TheLog
             /\ Copies' = [h \in Holders \ {c} |-> Copies[h]]
             => Log!Detach(c)
  BY <1>1 DEF Log!Detach, TheLog, Copies
<1> QED BY <1>2, <1>3, <1>4, <1>5, <1>6, <1>7 DEF Log!LogNext

-----------------------------------------------------------------------------

LEMMA ServerRefines ==
  ASSUME IInv, IInv', Agreement, WorldsOk, ServerNext
  PROVE  [Log!LogNext]_(Log!logVars)
<1>1. TheLog \in World /\ TheLog' \in World
  <2>1. TheLog' \in World
    <3> DEFINE w == world'[Server]
               f == Front(cmdQ'[Server], sync'[Server])
    <3>1. w \in Seq(Entry) /\ cmdQ'[Server] \in Seq(WorldCommand) /\ sync'[Server] \in Nat
      BY NodesFacts DEF IInv, NodeInv, World
    <3>2. f \in Seq(Entry)
      BY <3>1, FrontType DEF World
    <3>3. TheLog' = w \o f
      BY DEF TheLog, InThisStep, Front
    <3> HIDE DEF w, f
    <3> QED BY <3>1, <3>2, <3>3 DEF World
  <2> QED BY <2>1, LogType
<1>2. \A d \in Clients : world'[d] = world[d]
  BY ServerTouchesNoClient
<1>3. Holders' = Holders => Copies' = Copies
  BY <1>2, CopiesAre
<1>4. CASE TheLog' = TheLog /\ Holders' = Holders
  BY <1>3, <1>4, StepsOfLog
<1>5. ASSUME TheLog' = TheLog, NEW c \in Holders, Holders' = Holders \ {c}
      PROVE  [Log!LogNext]_(Log!logVars)
  <2>1. \A h \in Holders' : h \in Holders /\ world'[h] = world[h]
    BY <1>2, <1>5, CopiesAre
  <2>2. Copies' = [h \in Holders \ {c} |-> Copies[h]]
    BY <1>5, <2>1, CopiesAre
  <2> QED BY <1>5, <2>2, StepsOfLog, CopiesAre
<1>6. CASE Holders' = Holders /\ Begins(TheLog, TheLog') /\ TheLog' # TheLog
  <2>1. Log!IsPrefix(TheLog, TheLog')
    BY <1>1, <1>6, BeginsElements
  <2> QED BY <1>3, <1>6, <2>1, StepsOfLog
<1>7. CASE Holders = {} /\ Holders' = {} /\ Begins(TheLog', TheLog) /\ TheLog' # TheLog
  <2>1. Log!IsPrefix(TheLog', TheLog)
    BY <1>1, <1>7, BeginsElements
  <2> QED BY <1>3, <1>7, <2>1, StepsOfLog
<1> HIDE DEF Holders
<1> QED BY <1>4, <1>5, <1>6, <1>7, ServerLog DEF Logs

LEMMA ClientRefines ==
  ASSUME IInv, IInv', Agreement, WorldsOk', NEW c \in Clients, ClientNext(c)
  PROVE  [Log!LogNext]_(Log!logVars)
<1>1. TheLog' = TheLog
  BY ClientLog
<1>2. \A d \in Clients : d # c => (d \in Holders' <=> d \in Holders) /\ world'[d] = world[d]
  BY ClientLog DEF Holders
<1>3. (c \in Holders <=> Playing(c)) /\ (c \in Holders' <=> Playing(c)')
  BY DEF Holders
<1>4. Holders \subseteq Clients /\ Holders' \subseteq Clients
  BY CopiesAre
<1> HIDE DEF Holders
<1>5. CASE c \in Holders /\ c \in Holders'
  <2>1. Holders' = Holders
    BY <1>2, <1>4, <1>5
  <2>2. CASE world'[c] = world[c]
    <3>1. \A h \in Holders : world'[h] = world[h]
      BY <1>2, <1>4, <2>2
    <3>2. Copies' = Copies
      BY <2>1, <3>1, CopiesAre
    <3> QED BY <1>1, <3>2, StepsOfLog
  <2>3. CASE /\ Len(world[c]) < Len(TheLog)
             /\ world'[c] = Append(world[c], TheLog[Len(world[c]) + 1])
    <3>1. Copies[c] = world[c]
      BY <1>5, CopiesAre
    <3>2. \A h \in Holders : h # c => world'[h] = Copies[h]
      BY <1>2, <1>4, CopiesAre
    <3>3. Copies' = [h \in Holders |-> IF h = c THEN Append(Copies[c], TheLog[Len(Copies[c]) + 1]) ELSE Copies[h]]
      BY <2>1, <2>3, <3>1, <3>2, CopiesAre
    <3>4. Copies' = [Copies EXCEPT ![c] = Append(@, TheLog[Len(@) + 1])]
      BY <3>3, CopiesAre
    <3> QED BY <1>1, <1>5, <2>3, <3>1, <3>4, StepsOfLog
  <2> QED BY <1>3, <1>5, <2>2, <2>3, ClientLog
<1>6. CASE c \in Holders /\ c \notin Holders'
  <2>1. Holders' = Holders \ {c}
    BY <1>2, <1>4, <1>6
  <2>2. \A h \in Holders' : h \in Holders /\ world'[h] = world[h]
    BY <1>2, <1>4, <2>1
  <2>3. Copies' = [h \in Holders \ {c} |-> Copies[h]]
    BY <2>1, <2>2, CopiesAre
  <2> QED BY <1>1, <1>6, <2>3, StepsOfLog
<1>7. CASE c \notin Holders /\ c \in Holders'
  <2>1. Holders' = Holders \cup {c}
    BY <1>2, <1>4, <1>7
  <2>2. PICK n \in 0..Len(TheLog) : world'[c] = SubSeq(TheLog, 1, n)
    BY <1>3, <1>7, ClientLog
  <2>3. \A h \in Holders : h # c /\ world'[h] = Copies[h]
    BY <1>2, <1>4, <1>7, CopiesAre
  <2>4. Copies' = [h \in Holders \cup {c} |-> IF h = c THEN SubSeq(TheLog, 1, n) ELSE Copies[h]]
    BY <2>1, <2>2, <2>3, CopiesAre
  <2> QED BY <1>1, <1>7, <2>4, StepsOfLog
<1>8. CASE c \notin Holders /\ c \notin Holders'
  <2>1. Holders' = Holders /\ \A h \in Holders : world'[h] = world[h]
    BY <1>2, <1>4, <1>8
  <2>2. Copies' = Copies
    BY <2>1, CopiesAre
  <2> QED BY <1>1, <2>2, StepsOfLog
<1> QED BY <1>5, <1>6, <1>7, <1>8

LEMMA LogStarts == Init => Log!LogInit
<1> SUFFICES ASSUME Init PROVE Log!LogInit
  OBVIOUS
<1>1. InThisStep = <<>>
  <2>1. cmdQ[Server] = <<>>
    BY NodesFacts DEF Init
  <2>2. <<>> \in Seq(WorldCommand)
    OBVIOUS
  <2>3. InThisStep = Front(<<>>, sync[Server])
    BY <2>1 DEF InThisStep, Front
  <2> QED BY <2>2, <2>3, FrontEmpty
<1>2. world[Server] = <<>>
  BY NodesFacts DEF Init
<1>3. world[Server] \o InThisStep = <<>>
  BY <1>1, <1>2
<1>4. {d \in Clients : Playing(d)} = {}
  BY DEF Init, Playing
<1>5. [c \in {d \in Clients : Playing(d)} |-> world[c]] = <<>>
  <2> DEFINE f == [c \in {d \in Clients : Playing(d)} |-> world[c]]
  <2>1. f = [i \in {} |-> world[i]]
    BY <1>4
  <2>2. <<>> = [i \in {} |-> world[i]]
    OBVIOUS
  <2> QED BY <2>1, <2>2
<1> QED BY <1>3, <1>5 DEF Log!LogInit

(* The clients that play hold copies of one log of commands, the world that   *)
(* the server has after this step: a copy is a snapshot or grows by the next  *)
(* command of the log, and the log is set back only while nobody plays; for   *)
(* any number of clients, whatever is in flight, late, doubled or closed      *)
THEOREM Refinement == Spec => ImplementsReplicatedLog
<1>1. IInv /\ IInv' /\ Agreement /\ WorldsOk /\ WorldsOk' /\ [Next]_vars => [Log!LogNext]_(Log!logVars)
  <2> SUFFICES ASSUME IInv, IInv', Agreement, WorldsOk, WorldsOk', [Next]_vars
               PROVE  [Log!LogNext]_(Log!logVars)
    OBVIOUS
  <2>1. CASE ServerNext
    BY <2>1, ServerRefines
  <2>2. CASE \E c \in Clients : ClientNext(c)
    BY <2>2, ClientRefines
  <2>3. CASE UNCHANGED vars
    <3>1. TheLog' = TheLog /\ Copies' = Copies
      BY <2>3 DEF vars, nodeVars, sockVars, TheLog, InThisStep, Copies, Playing
    <3> QED BY <3>1, StepsOfLog
  <2> QED BY <2>1, <2>2, <2>3 DEF Next
<1> QED BY <1>1, LogStarts, Invariance, AllAgree, PTL DEF Spec, ImplementsReplicatedLog, Log!LogSpec

=============================================================================
