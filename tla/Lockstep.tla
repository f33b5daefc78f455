------------------------------ MODULE Lockstep ------------------------------
(***************************************************************************)
(* The network game of Simutrans: one server and its clients run the same  *)
(* deterministic world in lock step.  The server stamps every command with *)
(* the sync step at which all nodes execute it, announces its own sync     *)
(* step as the barrier no client may pass, and lets a client join by a     *)
(* save / load / wait-for-ready round of every node (a new map counter).   *)
(*                                                                         *)
(* Sources: network_cmd_ingame.cc (the commands), network.cc (queues),     *)
(* network_file_transfer.cc (network_connect) and simworld.cc (the loop).  *)
(*                                                                         *)
(* Abstractions.  A world is the sequence of the commands executed on it,  *)
(* each with the sync step of its execution, so two worlds are equal       *)
(* exactly when the deterministic simulation makes them equal.  The        *)
(* checklist of sync step s (random seed and handle counters, or the hash  *)
(* of the game state) is the part of the world before step s.  Message     *)
(* loss does not occur (TCP); a socket may close at any time.              *)
(***************************************************************************)
EXTENDS Integers, Sequences, FiniteSets

CONSTANTS
  Clients,               \* the client programs
  Server,                \* the server program
  NoClient,              \* INVALID_SOCKET / the client id -1 of a forced sync
  Congested,             \* clients whose socket may refuse data for a while
  MayLeave,              \* clients that may close their connection
  Users,                 \* the nodes whose user issues commands
  AdminSync,             \* an administrator may force a sync
  PauseServerNoClients,  \* env_t::pause_server_no_clients
  LastChecklistsCount,   \* LAST_CHECKLISTS_COUNT, 64 in the code
  MaxMapCounters,        \* MAX_MAP_COUNTERS, 7 in the code
  ChecksEvery,           \* env_t::server_sync_steps_between_checks
  MaxSlot,               \* bound: entries of the socket list
  MaxStep,               \* bound: sync steps of the server
  MaxCommand,            \* bound: commands issued by users
  MaxMapCounter          \* bound: map counters generated

ASSUME NodesAssumption ==
  /\ IsFiniteSet(Clients)
  /\ Server \notin Clients
  /\ NoClient \notin Clients
  /\ Congested \subseteq Clients
  /\ MayLeave \subseteq Clients
  /\ Users \subseteq Clients \cup {Server}
ASSUME FlagsAssumption ==
  /\ AdminSync \in BOOLEAN
  /\ PauseServerNoClients \in BOOLEAN
ASSUME BoundsAssumption ==
  /\ LastChecklistsCount \in Nat \ {0}
  /\ MaxMapCounters \in Nat \ {0}
  /\ ChecksEvery \in Nat \ {0}
  /\ MaxSlot \in Nat
  /\ MaxStep \in Nat
  /\ MaxCommand \in Nat
  /\ MaxMapCounter \in Nat

VARIABLES
  \* of every node
  phase,        \* where the program is; "run" for a server
  sync,         \* sync_steps
  mc,           \* map_counter
  world,        \* the commands executed on the world, oldest first
  cmdQ,         \* command_queue, sorted by sync step
  barrier,      \* sync_steps_barrier (a server does not use its own)
  \* of the server
  stage,        \* the part of its loop the server is in
  paused,       \* PAUSE_FLAG of step_mode
  hasSave,      \* has_current_network_save
  saved,        \* the world in server<port>-network.sve
  pending,      \* pending_join_client
  mapCounters,  \* all_map_counters, newest first
  rcvd,         \* received_command_queue
  sock,         \* state of the socket of a client
  slot,         \* client id of a client: its index in the socket list
  left,         \* slots in state has_left, free again after the next step()
  sendq,        \* send_queue of the socket of a client
  \* of the network
  up,           \* bytes on the way from a client to the server
  down,         \* bytes on the way from the server to a client
  \* of the users
  lastMc,       \* the last map counter generated
  lastCmd       \* the last command issued

nodeVars   == <<phase, sync, mc, world, cmdQ, barrier>>
serverVars == <<stage, paused, hasSave, saved, pending, mapCounters, rcvd>>
sockVars   == <<sock, slot, left, sendq, up, down>>
userVars   == <<lastMc, lastCmd>>
vars       == <<nodeVars, serverVars, sockVars, userVars>>

Nodes == Clients \cup {Server}

-----------------------------------------------------------------------------
(* Worlds, checklists and messages *)

Entry     == [cmd : Nat, step : Nat]
World     == Seq(Entry)
Checklist == SUBSET (Nat \X Entry)

(* LCHKLST(s) of a node: what happened before its world reached step s *)
ChecklistAt(w, s) ==
  {<<i, w[i]>> : i \in {j \in DOMAIN w : w[j].step < s}}

(* is_checklist_available of node p *)
ChecklistAvailable(p, s) == s + LastChecklistsCount > sync[p]

StepMsg(s)            == [type |-> "STEP", step |-> s]
CheckMsg(s, m, chk)   == [type |-> "CHECK", step |-> s, mc |-> m, chk |-> chk]
ToolMsg(s, m, c, chk) == [type |-> "TOOL", step |-> s, mc |-> m, cmd |-> c, chk |-> chk]
SyncMsg(s, m, id, n)  == [type |-> "SYNC", step |-> s, mc |-> m, id |-> id, new |-> n]
ReadyMsg(s, m, chk)   == [type |-> "READY", step |-> s, mc |-> m, chk |-> chk]
RequestMsg(s, m, c, chk) ==
  [type |-> "REQUEST", step |-> s, mc |-> m, cmd |-> c, chk |-> chk]
JoinReply(a)          == [type |-> "JOIN", answer |-> a]
GameMsg(w)            == [type |-> "GAME", world |-> w]
JoinMsg               == [type |-> "JOIN"]
EofMsg                == [type |-> "EOF"]

(* The commands that wait in a command queue for their sync step *)
WorldCommand ==
       [type : {"CHECK"}, step : Nat, mc : Nat, chk : Checklist]
  \cup [type : {"TOOL"}, step : Nat, mc : Nat, cmd : Nat, chk : Checklist]
  \cup [type : {"SYNC"}, step : Nat, mc : Nat, id : Nat, new : Nat]
Ready     == [type : {"READY"}, step : Nat, mc : Nat, chk : Checklist]
Broadcast == WorldCommand \cup [type : {"STEP"}, step : Nat]
DownMsg   == Broadcast \cup Ready \cup [type : {"JOIN"}, answer : BOOLEAN]
                  \cup [type : {"GAME"}, world : World] \cup {EofMsg}
Request   == [type : {"REQUEST"}, step : Nat, mc : Nat, cmd : Nat, chk : Checklist]
UpMsg     == Ready \cup Request \cup {JoinMsg, EofMsg}
Received  == [from : Clients, msg : Ready \cup Request \cup {JoinMsg}]
        \cup [from : {Server}, msg : WorldCommand \cup Request]

(* Client id 0 is the listening socket, so 0 stands for "no client" *)
TypeOK ==
  /\ phase \in [Nodes -> {"out", "join", "sync", "game", "pause", "run", "desync"}]
  /\ sync \in [Nodes -> Nat]
  /\ mc \in [Nodes -> Nat]
  /\ world \in [Nodes -> World]
  /\ cmdQ \in [Nodes -> Seq(WorldCommand)]
  /\ barrier \in [Nodes -> Nat]
  /\ stage \in {"receive", "execute", "run"}
  /\ paused \in BOOLEAN
  /\ hasSave \in BOOLEAN
  /\ saved \in World
  /\ pending \in Clients \cup {NoClient}
  /\ mapCounters \in Seq(Nat) /\ Len(mapCounters) <= MaxMapCounters
  /\ rcvd \in Seq(Received)
  /\ sock \in [Clients -> {"none", "backlog", "connected", "playing", "kicked"}]
  /\ slot \in [Clients -> Nat]
  /\ left \in SUBSET Nat
  /\ sendq \in [Clients -> Seq(Broadcast)]
  /\ up \in [Clients -> Seq(UpMsg)]
  /\ down \in [Clients -> Seq(DownMsg)]
  /\ lastMc \in Nat
  /\ lastCmd \in Nat

Init ==
  /\ phase = [p \in Nodes |-> IF p = Server THEN "run" ELSE "out"]
  /\ sync = [p \in Nodes |-> 0]
  /\ mc = [p \in Nodes |-> 0]
  /\ world = [p \in Nodes |-> <<>>]
  /\ cmdQ = [p \in Nodes |-> <<>>]
  /\ barrier = [p \in Nodes |-> 0]
  /\ stage = "receive"
  /\ paused = PauseServerNoClients
  /\ hasSave = FALSE
  /\ saved = <<>>
  /\ pending = NoClient
  /\ mapCounters = <<>>
  /\ rcvd = <<>>
  /\ sock = [c \in Clients |-> "none"]
  /\ slot = [c \in Clients |-> 0]
  /\ left = {}
  /\ sendq = [c \in Clients |-> <<>>]
  /\ up = [c \in Clients |-> <<>>]
  /\ down = [c \in Clients |-> <<>>]
  /\ lastMc = 0
  /\ lastCmd = 0

-----------------------------------------------------------------------------
(* Sockets and queues *)

Open(c)  == sock[c] \in {"connected", "playing"}
Gone(c)  == phase[c] \in {"out", "desync"}
NumPlaying == Cardinality({c \in Clients : sock[c] = "playing"})

(* A direct send: the bytes are on the wire at once, ahead of the send      *)
(* queue.  Nobody reads them when the program at the other end has closed.  *)
Direct(c, msgs) ==
  down' = [down EXCEPT ![c] = IF Gone(c) THEN @ ELSE @ \o msgs]

(* network_send_all, with exclude_us or not: into the send queue of every   *)
(* playing or connected client                                              *)
SendAll(m) ==
  sendq' = [c \in Clients |-> IF Open(c) THEN Append(sendq[c], m) ELSE sendq[c]]

(* What a client writes to a socket the server has closed is lost *)
SendServer(c, m) ==
  up' = [up EXCEPT ![c] = IF Open(c) \/ sock[c] = "backlog" THEN Append(@, m) ELSE @]

FromServer(m) == [from |-> Server, msg |-> m]

(* command_queue_append: after every command that is not later *)
InsertEarly(q, m) == \* mutant: before every command that is not later
  LET k == Cardinality({i \in DOMAIN q : \A j \in 1..i : q[j].step > m.step})
  IN  SubSeq(q, 1, k) \o <<m>> \o SubSeq(q, k + 1, Len(q))
Insert(q, m) ==
  LET k == Cardinality({i \in DOMAIN q : \A j \in 1..i : q[j].step <= m.step})
  IN  SubSeq(q, 1, k) \o <<m>> \o SubSeq(q, k + 1, Len(q))

(* remove_client: the socket is closed and its queue deleted; a client that *)
(* was playing leaves its slot in state has_left                            *)
RemoveClient(c, how) ==
  /\ sock' = [sock EXCEPT ![c] = how]
  /\ left' = IF sock[c] = "playing" THEN left \cup {slot[c]} ELSE left
  /\ sendq' = [sendq EXCEPT ![c] = <<>>]
  /\ up' = [up EXCEPT ![c] = <<>>]
  /\ Direct(c, <<EofMsg>>)
  /\ pending' = IF pending = c THEN NoClient ELSE pending

(* network_disconnect of a client: sockets closed, command queue deleted *)
Disconnect(c, to) ==
  /\ phase' = [phase EXCEPT ![c] = to]
  /\ cmdQ' = [cmdQ EXCEPT ![c] = <<>>]
  /\ down' = [down EXCEPT ![c] = <<>>]
  /\ SendServer(c, EofMsg)

-----------------------------------------------------------------------------
(* The server.  One iteration of its loop accepts and receives (stage        *)
(* "receive"), executes what it received (stage "execute"), writes the send   *)
(* queues, and then (stage "run") runs the commands that are due and, when it *)
(* is time, takes a step.                                                     *)

(* network_check_activity accepts: the first inactive slot, or a new one *)
SrvAccept(c) ==
  /\ stage = "receive" /\ sock[c] = "backlog"
  /\ \E n \in 1..MaxSlot :
       LET used == left \cup {slot[d] : d \in {e \in Clients : Open(e)}}
       IN  /\ n \notin used
           /\ \A k \in 1..(n - 1) : k \in used
           /\ slot' = [slot EXCEPT ![c] = n]
  /\ sock' = [sock EXCEPT ![c] = "connected"]
  /\ UNCHANGED <<nodeVars, serverVars, left, sendq, up, down, userVars>>

(* network_check_activity reads one command of a client: one of every socket *)
(* before the first is executed                                              *)
SrvReceive(c) ==
  /\ stage = "receive" /\ Open(c) /\ up[c] # <<>>
  /\ \A i \in DOMAIN rcvd : rcvd[i].from # c
  /\ IF Head(up[c]) = EofMsg
     THEN /\ RemoveClient(c, "none")
          /\ UNCHANGED rcvd
     ELSE /\ rcvd' = Append(rcvd, [from |-> c, msg |-> Head(up[c])])
          /\ up' = [up EXCEPT ![c] = Tail(@)]
          /\ UNCHANGED <<pending, sock, left, sendq, down>>
  /\ UNCHANGED <<nodeVars, stage, paused, hasSave, saved, mapCounters, slot, userVars>>

JoinPossible == pending = NoClient

StayPaused == UNCHANGED paused \* mutant: a paused server is not woken up
Unpause == paused' = FALSE

(* nwc_join_t::execute on the server *)
ExecuteJoin(c) ==
  LET nws == SyncMsg(sync[Server] + 1, mc[Server], slot[c], lastMc + 1)
  IN  IF JoinPossible
      THEN /\ Direct(c, <<JoinReply(TRUE), nws>>)
           /\ SendAll(nws)
           /\ rcvd' = Append(Tail(rcvd), FromServer(nws))
           /\ pending' = c
           /\ Unpause
           /\ lastMc' = lastMc + 1
           /\ UNCHANGED <<nodeVars, hasSave, saved, mapCounters, sock, slot, left, up, lastCmd>>
      ELSE /\ Direct(c, <<JoinReply(FALSE)>>)
           /\ rcvd' = Tail(rcvd)
           /\ UNCHANGED <<nodeVars, paused, hasSave, saved, pending, mapCounters,
                          sock, slot, left, sendq, up, userVars>>

(* nwc_ready_t::execute on the server: a reloaded client with the right      *)
(* checklist and a map counter of the recent past may go on                  *)
ExecuteReady(c, m) ==
  LET mismatch == /\ ChecklistAvailable(Server, m.step)
                  /\ m.chk # ChecklistAt(world[Server], m.step)
      known == \E i \in DOMAIN mapCounters : mapCounters[i] = m.mc
  IN  /\ rcvd' = Tail(rcvd)
      /\ IF ~mismatch /\ known
         THEN /\ Direct(c, <<m>>)
              /\ UNCHANGED <<pending, sock, left, sendq, up>>
         ELSE RemoveClient(c, "kicked")
      /\ UNCHANGED <<nodeVars, paused, hasSave, saved, mapCounters, slot, userVars>>

(* A tool of an initiator: refused when it is from the future, kicked when   *)
(* its checklist is wrong, dropped when it is from another world; else       *)
(* stamped with the next sync step and broadcast to every node (clone, the   *)
(* permission checks of which are the case of a dropped request)             *)
ExecuteRequest(from, m) ==
  LET s == sync[Server]
      tool == ToolMsg(s + 1, m.mc, m.cmd, ChecklistAt(world[Server], s))
      tooFast == m.step > s
      mismatch == /\ from # Server \* the server agrees with itself
                  /\ ChecklistAvailable(Server, m.step)
                  /\ m.chk # ChecklistAt(world[Server], m.step)
      drop == /\ rcvd' = Tail(rcvd)
              /\ UNCHANGED <<pending, sock, left, sendq, up, down>>
  IN  /\ \/ tooFast /\ drop
         \/ /\ ~tooFast /\ mismatch
            /\ rcvd' = Tail(rcvd)
            /\ RemoveClient(from, "kicked")
         \/ ~tooFast /\ ~mismatch /\ m.mc # mc[Server] /\ drop
         \/ /\ ~tooFast /\ ~mismatch /\ m.mc = mc[Server]
            /\ SendAll(tool)
            /\ rcvd' = Append(Tail(rcvd), FromServer(tool))
            /\ UNCHANGED <<pending, sock, left, up, down>>
      /\ UNCHANGED <<nodeVars, paused, hasSave, saved, mapCounters, slot, userVars>>

(* network_world_command_t::execute on the server: its own tools and syncs *)
ExecuteWorldCommand(m) ==
  /\ rcvd' = Tail(rcvd)
  /\ IF m.step < sync[Server]
     THEN /\ phase' = [phase EXCEPT ![Server] = "desync"]
          /\ cmdQ' = [cmdQ EXCEPT ![Server] = <<>>]
     ELSE /\ cmdQ' = IF m.mc = mc[Server]
                     THEN [cmdQ EXCEPT ![Server] = Insert(@, m)] ELSE cmdQ
          /\ UNCHANGED phase
  /\ UNCHANGED <<sync, mc, world, barrier, paused, hasSave, saved, pending,
                 mapCounters, sockVars, userVars>>

SrvExecute ==
  /\ stage \in {"receive", "execute"} /\ phase[Server] = "run"
  /\ rcvd # <<>>
  /\ stage' = "execute"
  /\ LET from == Head(rcvd).from
         m == Head(rcvd).msg
     IN  \/ m.type = "JOIN" /\ ExecuteJoin(from)
         \/ m.type = "READY" /\ ExecuteReady(from, m)
         \/ m.type = "REQUEST" /\ ExecuteRequest(from, m)
         \/ m.type \in {"TOOL", "SYNC"} /\ ExecuteWorldCommand(m)

(* Everything received is executed; requests of the server's own user may   *)
(* arrive between two iterations                                            *)
AllExecuted ==
  \A i \in DOMAIN rcvd : rcvd[i].from = Server /\ rcvd[i].msg.type = "REQUEST"

(* network_process_send_queues: the whole send queue of every socket that    *)
(* takes data goes on the wire                                               *)
Flush(writable) ==
  /\ down' = [c \in Clients |-> IF c \in writable /\ ~Gone(c)
                                THEN down[c] \o sendq[c] ELSE down[c]]
  /\ sendq' = [c \in Clients |-> IF c \in writable THEN <<>> ELSE sendq[c]]

SrvSend ==
  /\ stage \in {"receive", "execute"} /\ phase[Server] = "run"
  /\ AllExecuted
  /\ \E some \in SUBSET Congested : Flush(some \cup (Clients \ Congested))
  /\ stage' = "run"
  /\ UNCHANGED <<nodeVars, paused, hasSave, saved, pending, mapCounters, rcvd,
                 sock, slot, left, up, userVars>>

(* The client that owns slot id now, which need not be the one that asked *)
Occupant(id) == {c \in Clients : Open(c) /\ slot[c] = id}

(* The save a sync sends: the one made when the game was paused, if any *)
NetworkSaveOld == saved \* mutant: an old save is good enough
NetworkSave == IF hasSave THEN saved ELSE world[Server]

(* karte_t::load on the server, which deletes the command queue; init_tiles  *)
(* on its way declares the save used up                                      *)
LoadServer(file) ==
  /\ world' = [world EXCEPT ![Server] = file]
  /\ cmdQ' = [cmdQ EXCEPT ![Server] = <<>>]
  /\ hasSave' = FALSE

(* append_map_counter: the newest first, the oldest forgotten *)
AppendMapCounterOnly(new) == \* mutant: the oldest is kept
  mapCounters' = <<new>> \o mapCounters
AppendMapCounter(new) ==
  LET kept == IF Len(mapCounters) = MaxMapCounters THEN MaxMapCounters - 1
              ELSE Len(mapCounters)
  IN  mapCounters' = <<new>> \o SubSeq(mapCounters, 1, kept)

(* nwc_sync_t::do_command on the server: save (or take the save made when    *)
(* the game was paused), send it, load it, take the new map counter, and let *)
(* the joined client run                                                     *)
SyncServer(id, new) ==
  LET file == NetworkSave
      ready == ReadyMsg(sync[Server], new, ChecklistAt(file, sync[Server]))
  IN  /\ LoadServer(file)
      /\ mc' = [mc EXCEPT ![Server] = new]
      /\ AppendMapCounter(new)
      /\ paused' = FALSE
      /\ pending' = NoClient
      /\ down' = [c \in Clients |->
                    IF c \in Occupant(id) /\ ~Gone(c)
                    THEN down[c] \o <<GameMsg(file), ready>> ELSE down[c]]
      /\ sock' = [c \in Clients |-> IF c \in Occupant(id) THEN "playing" ELSE sock[c]]
      /\ UNCHANGED <<phase, sync, barrier, stage, saved, rcvd, slot, left, sendq, up>>

(* What do_network_world_command does with a command that is due, but a sync *)
(* that is neither late nor from another world                               *)
Late(p, m)    == m.step # 0 /\ m.step < sync[p]
ForeignNever(p, m) == FALSE \* mutant: the map counter is not compared
Foreign(p, m) == m.mc # mc[p]
WrongChecklist(p, m) ==
  \/ /\ m.type = "CHECK"
     /\ m.chk # ChecklistAt(world[p], m.step - 1)
  \/ /\ m.type = "TOOL"
     /\ ChecklistAvailable(p, m.step - 1)
     /\ m.chk # ChecklistAt(world[p], m.step - 1)
Execute(p, m) ==
  world' = [world EXCEPT ![p] = Append(@, [cmd |-> m.cmd, step |-> sync[p]])]

DueSoon(p) == cmdQ[p] # <<>> \* mutant: the sync step is not compared
Due(p) == cmdQ[p] # <<>> /\ Head(cmdQ[p]).step <= sync[p]

(* The server runs the first command that is due *)
SrvDrain ==
  /\ stage = "run" /\ phase[Server] = "run" /\ Due(Server)
  /\ LET m == Head(cmdQ[Server])
         rest == [cmdQ EXCEPT ![Server] = Tail(@)]
     IN  \/ /\ Late(Server, m)
            /\ phase' = [phase EXCEPT ![Server] = "desync"]
            /\ cmdQ' = [cmdQ EXCEPT ![Server] = <<>>]
            /\ UNCHANGED <<sync, mc, world, barrier, serverVars, sockVars>>
         \/ /\ ~Late(Server, m)
            /\ Foreign(Server, m) \/ WrongChecklist(Server, m)
            /\ cmdQ' = rest
            /\ UNCHANGED <<phase, sync, mc, world, barrier, serverVars, sockVars>>
         \/ /\ ~Late(Server, m) /\ ~Foreign(Server, m) /\ ~WrongChecklist(Server, m)
            /\ m.type = "TOOL"
            /\ Execute(Server, m)
            /\ cmdQ' = rest
            /\ UNCHANGED <<phase, sync, mc, barrier, serverVars, sockVars>>
         \/ /\ ~Late(Server, m) /\ ~Foreign(Server, m)
            /\ m.type = "SYNC"
            /\ SyncServer(m.id, m.new)
  /\ UNCHANGED userVars

(* No clients: the game is paused and saved in advance *)
IdlePending == \* mutant: a client that joins does not count
  PauseServerNoClients /\ NumPlaying = 0
Idle == PauseServerNoClients /\ NumPlaying = 0 /\ pending = NoClient

(* karte_t::interactive: one step of the server, the news of it, and the     *)
(* pause with a save in advance when nobody plays.  Every ChecksEvery steps, *)
(* and when the server lags, the news carries the checklist.                 *)
SrvStep ==
  /\ stage = "run" /\ phase[Server] = "run" /\ ~paused /\ ~Due(Server)
  /\ sync[Server] < MaxStep \/ cmdQ[Server] # <<>>
  /\ LET s == sync[Server] + 1
     IN  /\ sync' = [sync EXCEPT ![Server] = s]
         /\ \/ SendAll(CheckMsg(s + 1, mc[Server], ChecklistAt(world[Server], s)))
            \/ s % ChecksEvery # 0 /\ SendAll(StepMsg(s))
         /\ stage' = "receive"
         /\ paused' = Idle
         /\ hasSave' = (hasSave \/ Idle)
         /\ saved' = IF Idle THEN world[Server] ELSE saved
         /\ left' \in {left, {}}
  /\ UNCHANGED <<phase, mc, world, cmdQ, barrier, pending, mapCounters, rcvd,
                 sock, slot, up, down, userVars>>

(* Not yet the time for a step, or the bound of the model is reached *)
SrvLoop ==
  /\ stage = "run" /\ ~Due(Server)
  /\ stage' = "receive"
  /\ UNCHANGED <<nodeVars, paused, hasSave, saved, pending, mapCounters, rcvd,
                 sockVars, userVars>>

(* SRVC_FORCE_SYNC of nwc_service_t::execute; a paused server without        *)
(* players syncs at once                                                     *)
SrvForceSync ==
  LET nws == SyncMsg(sync[Server] + 1, mc[Server], 0, lastMc + 1)
  IN  /\ AdminSync /\ stage \in {"receive", "execute"} /\ phase[Server] = "run"
      /\ lastMc < MaxMapCounter
      /\ lastMc' = lastMc + 1
      /\ \/ /\ paused /\ NumPlaying = 0
            /\ SyncServer(0, lastMc + 1)
         \/ /\ ~paused /\ sync[Server] < MaxStep
            /\ SendAll(nws)
            /\ rcvd' = Append(rcvd, FromServer(nws))
            /\ UNCHANGED <<nodeVars, stage, paused, hasSave, saved, pending, mapCounters,
                           sock, slot, left, up, down>>
      /\ UNCHANGED lastCmd

(* A user of the server: network_send_server puts the tool into rcvd *)
SrvTool ==
  /\ Server \in Users /\ phase[Server] = "run" /\ lastCmd < MaxCommand
  /\ rcvd' = Append(rcvd, FromServer(
       RequestMsg(sync[Server], mc[Server], lastCmd + 1,
                  ChecklistAt(world[Server], sync[Server]))))
  /\ lastCmd' = lastCmd + 1
  /\ UNCHANGED <<nodeVars, stage, paused, hasSave, saved, pending, mapCounters, sockVars, lastMc>>

-----------------------------------------------------------------------------
(* A client *)

(* network_connect opens the connection and asks to join *)
CliConnect(c) ==
  /\ phase[c] = "out" /\ sock[c] = "none"
  /\ lastMc < MaxMapCounter /\ sync[Server] < MaxStep
  /\ phase' = [phase EXCEPT ![c] = "join"]
  /\ sock' = [sock EXCEPT ![c] = "backlog"]
  /\ up' = [up EXCEPT ![c] = <<JoinMsg>>]
  /\ UNCHANGED <<sync, mc, world, cmdQ, barrier, serverVars, slot, left, sendq, down, userVars>>

(* network_connect reads until the reply to the join, the sync and the game  *)
(* have come in this order, and throws away everything else                  *)
JoinStep(c, m) ==
  IF m.type = "EOF" \/ (phase[c] = "join" /\ m = JoinReply(FALSE))
  THEN /\ Disconnect(c, "out")
       /\ UNCHANGED <<sync, mc, world, barrier>>
  ELSE /\ down' = [down EXCEPT ![c] = Tail(@)]
       /\ CASE phase[c] = "join" /\ m = JoinReply(TRUE) ->
                 /\ phase' = [phase EXCEPT ![c] = "sync"]
                 /\ UNCHANGED <<sync, mc, world, cmdQ, barrier>>
            [] phase[c] = "sync" /\ m.type = "SYNC" ->
                 /\ phase' = [phase EXCEPT ![c] = "game"]
                 /\ mc' = [mc EXCEPT ![c] = m.new]
                 /\ UNCHANGED <<sync, world, cmdQ, barrier>>
            [] phase[c] = "game" /\ m.type = "GAME" ->
                 /\ phase' = [phase EXCEPT ![c] = "pause"]
                 /\ world' = [world EXCEPT ![c] = m.world]
                 /\ sync' = [sync EXCEPT ![c] = 0]
                 /\ barrier' = [barrier EXCEPT ![c] = 0]
                 /\ UNCHANGED <<mc, cmdQ>>
            [] OTHER -> UNCHANGED <<phase, sync, mc, world, cmdQ, barrier>>
       /\ UNCHANGED up

RaiseBarrier(c, s) ==
  barrier' = [barrier EXCEPT ![c] = IF @ < s THEN s ELSE @]

(* process_network_commands and execute of one command in the game *)
GameStep(c, m) ==
  \/ /\ m.type = "EOF"
     /\ Disconnect(c, "out")
     /\ UNCHANGED <<sync, mc, world, barrier>>
  \/ /\ m.type = "STEP"
     /\ RaiseBarrier(c, m.step)
     /\ down' = [down EXCEPT ![c] = Tail(@)]
     /\ UNCHANGED <<phase, sync, mc, world, cmdQ, up>>
  \/ /\ m.type = "CHECK"
     /\ RaiseBarrier(c, m.step - 1)
     /\ cmdQ' = [cmdQ EXCEPT ![c] = IF m.step < sync[c] THEN @ ELSE Insert(@, m)]
     /\ down' = [down EXCEPT ![c] = Tail(@)]
     /\ UNCHANGED <<phase, sync, mc, world, up>>
  \/ /\ m.type \in {"TOOL", "SYNC"} /\ m.step < sync[c]
     /\ Disconnect(c, "desync")
     /\ UNCHANGED <<sync, mc, world, barrier>>
  \/ /\ m.type \in {"TOOL", "SYNC"} /\ m.step >= sync[c]
     /\ cmdQ' = [cmdQ EXCEPT ![c] = Insert(@, m)]
     /\ down' = [down EXCEPT ![c] = Tail(@)]
     /\ UNCHANGED <<phase, sync, mc, world, barrier, up>>
  \/ /\ m.type = "READY" /\ m.mc = mc[c]
     /\ phase' = [phase EXCEPT ![c] = "run"]
     /\ sync' = [sync EXCEPT ![c] = m.step]
     /\ barrier' = [barrier EXCEPT ![c] = m.step]
     /\ down' = [down EXCEPT ![c] = Tail(@)]
     /\ UNCHANGED <<mc, world, cmdQ, up>>
  \/ /\ m.type = "READY" /\ m.mc # mc[c]
     /\ Disconnect(c, "desync")
     /\ UNCHANGED <<sync, mc, world, barrier>>
  \/ /\ m.type \in {"JOIN", "GAME"}
     /\ down' = [down EXCEPT ![c] = Tail(@)]
     /\ UNCHANGED <<phase, sync, mc, world, cmdQ, barrier, up>>

CliReceive(c) ==
  /\ down[c] # <<>>
  /\ \/ phase[c] \in {"join", "sync", "game"} /\ JoinStep(c, Head(down[c]))
     \/ phase[c] \in {"pause", "run"} /\ GameStep(c, Head(down[c]))
  /\ UNCHANGED <<serverVars, sock, slot, left, sendq, userVars>>

(* nwc_sync_t::do_command on a client: save, load, pause, report ready.      *)
(* The commands behind the sync stay in the queue.                           *)
SyncClientOldWorld(c, m) == \* mutant: the new map counter is not taken
  /\ phase' = [phase EXCEPT ![c] = "pause"]
  /\ barrier' = [barrier EXCEPT ![c] = sync[c]]
  /\ SendServer(c, ReadyMsg(sync[c], m.new, ChecklistAt(world[c], sync[c])))
  /\ cmdQ' = [cmdQ EXCEPT ![c] = Tail(@)]
  /\ UNCHANGED <<sync, mc, world, down>>
SyncClient(c, m) ==
  /\ phase' = [phase EXCEPT ![c] = "pause"]
  /\ barrier' = [barrier EXCEPT ![c] = sync[c]]
  /\ mc' = [mc EXCEPT ![c] = m.new]
  /\ SendServer(c, ReadyMsg(sync[c], m.new, ChecklistAt(world[c], sync[c])))
  /\ cmdQ' = [cmdQ EXCEPT ![c] = Tail(@)]
  /\ UNCHANGED <<sync, world, down>>

(* do_network_world_command on a client *)
CliDrain(c) ==
  /\ phase[c] \in {"pause", "run"} /\ Due(c)
  /\ LET m == Head(cmdQ[c])
         rest == [cmdQ EXCEPT ![c] = Tail(@)]
     IN  \/ /\ Late(c, m) /\ m.type # "CHECK"
            /\ Disconnect(c, "desync")
            /\ UNCHANGED <<sync, mc, world, barrier>>
         \/ /\ IF Late(c, m) THEN m.type = "CHECK" ELSE Foreign(c, m)
            /\ cmdQ' = rest
            /\ UNCHANGED <<phase, sync, mc, world, barrier, up, down>>
         \/ /\ ~Late(c, m) /\ ~Foreign(c, m) /\ WrongChecklist(c, m)
            /\ Disconnect(c, "desync")
            /\ UNCHANGED <<sync, mc, world, barrier>>
         \/ /\ ~Late(c, m) /\ ~Foreign(c, m) /\ ~WrongChecklist(c, m)
            /\ \/ /\ m.type = "CHECK"
                  /\ cmdQ' = rest
                  /\ UNCHANGED <<phase, sync, mc, world, barrier, up, down>>
               \/ /\ m.type = "TOOL"
                  /\ Execute(c, m)
                  /\ cmdQ' = rest
                  /\ UNCHANGED <<phase, sync, mc, barrier, up, down>>
               \/ m.type = "SYNC" /\ SyncClient(c, m)
  /\ UNCHANGED <<serverVars, sock, slot, left, sendq, userVars>>

(* karte_t::interactive: a client stops at the barrier *)
CliStepFree(c) == \* mutant: a client runs on
  /\ phase[c] = "run" /\ ~Due(c)
  /\ sync[c] < MaxStep
  /\ sync' = [sync EXCEPT ![c] = @ + 1]
  /\ UNCHANGED <<phase, mc, world, cmdQ, barrier, serverVars, sockVars, userVars>>
CliStep(c) ==
  /\ phase[c] = "run" /\ ~Due(c)
  /\ sync[c] < barrier[c]
  /\ sync' = [sync EXCEPT ![c] = @ + 1]
  /\ UNCHANGED <<phase, mc, world, cmdQ, barrier, serverVars, sockVars, userVars>>

(* The user of a client uses a tool *)
CliTool(c) ==
  /\ c \in Users /\ phase[c] = "run" /\ lastCmd < MaxCommand
  /\ SendServer(c, RequestMsg(sync[c], mc[c], lastCmd + 1,
                              ChecklistAt(world[c], sync[c])))
  /\ lastCmd' = lastCmd + 1
  /\ UNCHANGED <<nodeVars, serverVars, sock, slot, left, sendq, down, lastMc>>

(* The program ends, or network_connect runs out of patience *)
CliLeave(c) ==
  /\ c \in MayLeave /\ ~Gone(c)
  /\ Disconnect(c, "out")
  /\ UNCHANGED <<sync, mc, world, barrier, serverVars, sock, slot, left, sendq, userVars>>

-----------------------------------------------------------------------------
ServerNext ==
  \/ SrvExecute \/ SrvSend \/ SrvDrain \/ SrvStep \/ SrvLoop
  \/ SrvForceSync \/ SrvTool
  \/ \E c \in Clients : SrvAccept(c) \/ SrvReceive(c)

ClientNext(c) ==
  \/ CliConnect(c) \/ CliReceive(c) \/ CliDrain(c) \/ CliStep(c)
  \/ CliTool(c) \/ CliLeave(c)

Next == ServerNext \/ \E c \in Clients : ClientNext(c)

Spec == Init /\ [][Next]_vars

(* Programs and sockets that are up go on; users and administrators may not *)
Fairness ==
  /\ WF_vars(SrvExecute) /\ WF_vars(SrvSend) /\ WF_vars(SrvDrain)
  /\ SF_vars(SrvStep) /\ WF_vars(SrvLoop)
  /\ \A c \in Clients :
       /\ WF_vars(SrvAccept(c)) /\ WF_vars(SrvReceive(c))
       /\ WF_vars(CliReceive(c)) /\ WF_vars(CliDrain(c)) /\ WF_vars(CliStep(c))

FairSpec == Spec /\ Fairness

-----------------------------------------------------------------------------
(* Properties *)

Playing(c) == sock[c] = "playing" /\ phase[c] \in {"pause", "run"}

(* No client runs ahead of the server: the barrier is the announced step     *)
NeverAheadOfServer == \A c \in Clients : sync[c] <= sync[Server]

(* Why: a step that is announced, or at which a client continues, is one the *)
(* server has reached                                                        *)
Reached(m, s) ==
  /\ m.type \in {"STEP", "READY"} => m.step <= s
  /\ m.type = "CHECK" => m.step <= s + 1
AnnouncedStepsReached ==
  /\ \A c \in Clients :
       /\ barrier[c] <= sync[Server]
       /\ \A i \in DOMAIN sendq[c] : Reached(sendq[c][i], sync[Server])
       /\ \A i \in DOMAIN down[c] : Reached(down[c][i], sync[Server])
       /\ \A i \in DOMAIN up[c] : Reached(up[c][i], sync[Server])
  /\ \A i \in DOMAIN rcvd : Reached(rcvd[i].msg, sync[Server])

(* Nobody is thrown out of the game for having lost synchronisation: no      *)
(* command comes too late, no checklist differs, no map counter is unknown   *)
NobodyDesyncs ==
  /\ \A p \in Nodes : phase[p] # "desync"
  /\ \A c \in Clients : sock[c] # "kicked"

(* A client whose join was accepted gets the game: the sync that sends it is *)
(* still on its way to be executed, or the game is on the wire (nwc_join_t:  *)
(* nothing is repeated, a lost sync leaves the client waiting)               *)
JoinIsServed ==
  \A c \in Clients :
    phase[c] \in {"sync", "game"} /\ Open(c) =>
      LET mine(m) == m.type = "SYNC" /\ m.id = slot[c]
                       /\ (phase[c] = "game" => m.new = mc[c])
      IN  \/ \E i \in DOMAIN rcvd : mine(rcvd[i].msg)
          \/ \E i \in DOMAIN cmdQ[Server] : mine(cmdQ[Server][i])
          \/ \E i \in DOMAIN down[c] : down[c][i].type \in {"GAME", "EOF"}

(* A server that paused because nobody plays is alone: it does not step, so  *)
(* a client that plays or joins would wait for ever                          *)
PausedAlone == paused => NumPlaying = 0 /\ pending = NoClient

(* Every command in a queue is for this step or a later one and the queue is *)
(* sorted, so the first one is the next one to execute                       *)
QueueIsSorted ==
  \A p \in Nodes : \A i, j \in DOMAIN cmdQ[p] :
    i < j => cmdQ[p][i].step <= cmdQ[p][j].step

(* What the server has executed is not undone while a client plays           *)
ServerNeverSetBack ==
  [][NumPlaying > 0 =>
       /\ Len(world[Server]) <= Len(world'[Server])
       /\ SubSeq(world'[Server], 1, Len(world[Server])) = world[Server]]_vars

(* A client that joined runs the game in the end, or is told that it cannot  *)
JoinCompletes ==
  \A c \in Clients : phase[c] = "sync" ~> phase[c] \in {"run", "out"}

=============================================================================
