------------------------------ MODULE SocketList ------------------------------
(***************************************************************************)
(* The list of the server's connections and what the server's loop does to *)
(* it: accepting, receiving and executing commands of clients and of       *)
(* administrators, the sync that turns a joining client into a player, and *)
(* the step that reports players who left and recycles their entries.      *)
(* Sources: network_socket_list.cc, network.cc, network_cmd_ingame.cc and  *)
(* karte_t::step in simworld.cc.                                           *)
(*                                                                         *)
(* A client id is an index of the list.  The list below starts with client *)
(* id 1: entry 0 is the socket the server listens on.  What a client sends *)
(* is kept only as far as it concerns the list.  Tools and file contents   *)
(* are the business of module Lockstep.                                    *)
(***************************************************************************)
EXTENDS Integers, Sequences, FiniteSets

CONSTANTS
  Sockets,     \* the connections: a closed one may be opened again
  NoSocket,    \* INVALID_SOCKET
  Admins,      \* the connections of administration tools
  Hosts,       \* addresses
  Host,        \* the address at the other end of a socket
  ServerIsReset, \* the server's user may save a game, which closes everything
  MaxEntries,  \* bound: entries of the list
  MaxSyncs,    \* bound: syncs that wait for their sync step
  MaxCount     \* bound: what the counters, which may go wrong, count

ASSUME SocketsAssumption ==
  /\ NoSocket \notin Sockets
  /\ Admins \subseteq Sockets
  /\ Host \in [Sockets -> Hosts]
  /\ ServerIsReset \in BOOLEAN
  /\ MaxEntries \in Nat
  /\ MaxSyncs \in Nat
  /\ MaxCount \in Nat

VARIABLES
  list,       \* socket_list_t::list behind the listening socket
  connected,  \* connected_clients
  playing,    \* playing_clients
  last,       \* last_clients of karte_t::step, -1 before the first step
  pending,    \* nwc_join_t::pending_join_client
  syncs,      \* client ids in the nwc_sync_t of the world's command_queue
  received,   \* received_command_queue
  blacklist,  \* addresses that are refused
  asked,      \* the programs that have sent their first command
  stage       \* the part of the server's loop

vars == <<list, connected, playing, last, pending, syncs, received, blacklist, asked,
          stage>>

States  == {"inactive", "connected", "playing", "has_left", "admin"}
Entry   == [socket : Sockets \cup {NoSocket}, state : States]
Command == [from : Sockets, cmd : {"join", "info", "play", "login", "kick", "ban"}]

TypeOK ==
  /\ list \in Seq(Entry)
  /\ connected \in Nat
  /\ playing \in Nat
  /\ last \in Int
  /\ pending \in Sockets \cup {NoSocket}
  /\ syncs \in Seq(Nat \ {0})
  /\ received \in Seq(Command)
  /\ blacklist \in SUBSET Hosts
  /\ asked \in SUBSET Sockets
  /\ stage \in {"activity", "execute", "run"}

Init ==
  /\ list = <<>>
  /\ connected = 0 /\ playing = 0 /\ last = -1
  /\ pending = NoSocket
  /\ syncs = <<>> /\ received = <<>>
  /\ blacklist = {} /\ asked = {}
  /\ stage = "activity"

-----------------------------------------------------------------------------
(* Operations of the list *)

(* get_client_id: the entries that hold socket s; none stands for get_count() *)
ClientIds(s) == {i \in DOMAIN list : list[i].state # "inactive" /\ list[i].socket = s}
HasClient(s) == ClientIds(s) # {}

In(state) == {i \in DOMAIN list : list[i].state = state}

(* get_socket: INVALID_SOCKET for an id that is not in use *)
GetSocket(id) ==
  IF id \in DOMAIN list /\ list[id].state # "inactive" THEN list[id].socket ELSE NoSocket

(* book_state_change of the ids that leave state `from` for state `to` *)
BookLeaving(counter, state, from, to) == \* mutant: the new state does not count
  counter - (IF from = state THEN 1 ELSE 0)
Book(counter, state, from, to) ==
  counter + (IF to = state THEN 1 ELSE 0) - (IF from = state THEN 1 ELSE 0)

(* change_state *)
ChangeState(id, state) ==
  /\ list' = [list EXCEPT ![id].state = state]
  /\ connected' = Book(connected, "connected", list[id].state, state)
  /\ playing' = Book(playing, "playing", list[id].state, state)

(* What becomes of the entry of a removed client *)
Removed(entry) ==
  [socket |-> NoSocket,
   state |-> IF entry.state = "playing" THEN "has_left" ELSE "inactive"]

(* The entries of the sockets in gone are reset, through change_state *)
RemoveEntries(gone) ==
  LET ids == UNION {ClientIds(s) : s \in gone}
  IN  /\ list' = [i \in DOMAIN list |-> IF i \in ids THEN Removed(list[i]) ELSE list[i]]
      /\ connected' = connected - Cardinality(ids \cap In("connected"))
      /\ playing' = playing - Cardinality(ids \cap In("playing"))

(* remove_client of every socket in gone.  network_close_socket forgets the *)
(* pending client when it closes its socket.                                *)
RemoveKeepsPending(gone) == \* mutant: network_close_socket resets nothing
  RemoveEntries(gone) /\ UNCHANGED pending
RemoveClients(gone) ==
  /\ RemoveEntries(gone)
  /\ pending' = IF pending \in gone THEN NoSocket ELSE pending

-----------------------------------------------------------------------------
(* network_check_activity *)

(* add_client: the first inactive entry, or a new one *)
AnyFree(i) == \* mutant: an entry without a socket is free
  LET free == {j \in DOMAIN list : list[j].socket = NoSocket}
  IN  \/ free = {} /\ i = Len(list) + 1
      \/ i \in free /\ \A j \in free : i <= j
IsFree(i) ==
  \/ In("inactive") = {} /\ i = Len(list) + 1
  \/ i \in In("inactive") /\ \A j \in In("inactive") : i <= j

EnterAlways(s, i) == \* mutant: a known socket is added again
  LET new == [socket |-> s, state |-> "connected"]
  IN  list' = IF i \in DOMAIN list THEN [list EXCEPT ![i] = new] ELSE Append(list, new)
Enter(s, i) ==
  LET new == [socket |-> s, state |-> "connected"]
  IN  /\ ~HasClient(s)
      /\ list' = IF i \in DOMAIN list THEN [list EXCEPT ![i] = new] ELSE Append(list, new)

Accept(s) ==
  /\ stage = "activity"
  /\ Host[s] \notin blacklist
  /\ connected + playing < MaxCount
  /\ \E i \in 1..MaxEntries : IsFree(i) /\ Enter(s, i)
  /\ connected' = connected + 1
  /\ asked' = asked \ {s}
  /\ UNCHANGED <<playing, last, pending, syncs, received, blacklist, stage>>

(* What the program at the other end of socket s may say.  A client asks for *)
(* the game or for the game info, once; a player plays (tools, ready         *)
(* messages, chat).  An administration tool logs in and then gives orders.   *)
MaySay(s) ==
  IF s \in Admins
  THEN IF s \in asked THEN {"kick", "ban"} ELSE {"login"}
  ELSE IF s \notin asked THEN {"join", "info"}
  ELSE IF ClientIds(s) \subseteq In("playing") THEN {"play"} ELSE {}

NothingFrom(s) == \A k \in DOMAIN received : received[k].from # s

(* One command of each connection *)
Receive(s) ==
  /\ stage = "activity" /\ HasClient(s) /\ NothingFrom(s)
  /\ \E cmd \in MaySay(s) : received' = Append(received, [from |-> s, cmd |-> cmd])
  /\ asked' = asked \cup {s}
  /\ UNCHANGED <<list, connected, playing, last, pending, syncs, blacklist, stage>>

(* The other end has closed: receive_nwc fails, or process_send_queue, which *)
(* comes after the commands                                                  *)
Lose(s) ==
  /\ HasClient(s) /\ NothingFrom(s)
  /\ \/ stage = "activity"
     \/ stage = "execute" /\ received = <<>>
  /\ RemoveClients({s})
  /\ UNCHANGED <<last, syncs, received, blacklist, stage, asked>>

EndActivity ==
  /\ stage = "activity" /\ stage' = "execute"
  /\ UNCHANGED <<list, connected, playing, last, pending, syncs, received, blacklist, asked>>

-----------------------------------------------------------------------------
(* execute of the received commands.  A command carries the socket it came  *)
(* from, and the commands before it may have closed that socket.            *)

Sender == Head(received).from
SenderIs(state) == ClientIds(Sender) # {} /\ ClientIds(Sender) \subseteq In(state)

Handle(cmd) ==
  /\ stage = "execute" /\ received # <<>>
  /\ Head(received).cmd = cmd
  /\ received' = Tail(received)
  /\ UNCHANGED <<last, stage, asked>>

(* nwc_join_t: at most one client joins at a time.  When the answer cannot   *)
(* be sent nothing changes.                                                  *)
ExecuteJoin ==
  /\ Handle("join")
  /\ \/ /\ HasClient(Sender) /\ pending = NoSocket /\ Len(syncs) < MaxSyncs
        /\ pending' = Sender
        /\ \E id \in ClientIds(Sender) : syncs' = Append(syncs, id)
     \/ UNCHANGED <<pending, syncs>>
  /\ UNCHANGED <<list, connected, playing, blacklist>>

(* nwc_gameinfo_t: sends the info and closes *)
ExecuteInfo ==
  /\ Handle("info")
  /\ RemoveClients({Sender})
  /\ UNCHANGED <<syncs, blacklist>>

(* nwc_tool_t and nwc_ready_t: a client that has lost synchronisation is out *)
ExecuteOutOfSync ==
  /\ Handle("play")
  /\ RemoveClients({Sender})
  /\ UNCHANGED <<syncs, blacklist>>

(* Anything else of a player, and the orders of a tool that has not logged   *)
(* in, leave the list alone                                                  *)
ExecuteOther ==
  /\ \/ Handle("play")
     \/ \E order \in {"kick", "ban"} : Handle(order) /\ ~SenderIs("admin")
  /\ UNCHANGED <<list, connected, playing, pending, syncs, blacklist>>

(* SRVC_LOGIN_ADMIN with the right password: the state is assigned, not      *)
(* changed by change_state                                                   *)
ExecuteLogin ==
  /\ Handle("login")
  /\ list' = [i \in DOMAIN list |->
                IF i \in ClientIds(Sender) THEN [list[i] EXCEPT !.state = "admin"] ELSE list[i]]
  /\ UNCHANGED <<connected, playing, pending, syncs, blacklist>>

(* SRVC_KICK_CLIENT: the administrator names a client id *)
ExecuteKick ==
  /\ Handle("kick") /\ SenderIs("admin")
  /\ \/ \E id \in In("playing") : RemoveClients({list[id].socket})
     \/ UNCHANGED <<list, connected, playing, pending>> \* nobody plays with this id
  /\ UNCHANGED <<syncs, blacklist>>

(* SRVC_BAN_CLIENT: every connection from the client's address is closed,    *)
(* and the address refused from now on                                       *)
ExecuteBanOne == \* mutant: other connections from the address stay
  /\ Handle("ban") /\ SenderIs("admin")
  /\ \/ \E id \in DOMAIN list :
          /\ GetSocket(id) # NoSocket
          /\ RemoveClients({GetSocket(id)})
          /\ blacklist' = blacklist \cup {Host[GetSocket(id)]}
     \/ UNCHANGED <<list, connected, playing, pending, blacklist>> \* no such client
  /\ UNCHANGED syncs
ExecuteBan ==
  /\ Handle("ban") /\ SenderIs("admin")
  /\ \/ \E id \in DOMAIN list :
          /\ GetSocket(id) # NoSocket
          /\ RemoveClients({s \in Sockets : Host[s] = Host[GetSocket(id)]})
          /\ blacklist' = blacklist \cup {Host[GetSocket(id)]}
     \/ UNCHANGED <<list, connected, playing, pending, blacklist>> \* no such client
  /\ UNCHANGED syncs

EndExecute ==
  /\ stage = "execute" /\ received = <<>> /\ stage' = "run"
  /\ UNCHANGED <<list, connected, playing, last, pending, syncs, received, blacklist, asked>>

-----------------------------------------------------------------------------
(* The world's command queue, and the step.  A sync waits for its sync step, *)
(* and a step comes every few sync steps, so they come in any order.         *)

(* nwc_sync_t::do_command on the server: the game goes to whoever owns the   *)
(* client id now, who plays from here on unless sending fails.  Loading the  *)
(* world clears the command queue.                                           *)
SyncKeepsPending == \* mutant: the next join is not let in
  /\ stage = "run" /\ syncs # <<>>
  /\ syncs' = <<>>
  /\ LET id == Head(syncs)
         s  == GetSocket(id)
     IN  \/ s # NoSocket /\ ChangeState(id, "playing") /\ UNCHANGED pending
         \/ s # NoSocket /\ RemoveClients({s}) \* file not sent
         \/ /\ UNCHANGED pending \* no such client, or READY not sent
            /\ UNCHANGED <<list, connected, playing>>
  /\ UNCHANGED <<last, received, blacklist, stage, asked>>
Sync ==
  /\ stage = "run" /\ syncs # <<>>
  /\ syncs' = <<>>
  /\ LET id == Head(syncs)
         s  == GetSocket(id)
     IN  \/ s # NoSocket /\ ChangeState(id, "playing") /\ pending' = NoSocket
         \/ s # NoSocket /\ RemoveEntries({s}) /\ pending' = NoSocket \* file not sent
         \/ /\ pending' = NoSocket \* no such client, or READY not sent
            /\ UNCHANGED <<list, connected, playing>>
  /\ UNCHANGED <<last, received, blacklist, stage, asked>>

(* karte_t::step: when the number of players has changed, players who left   *)
(* are reported and their entries recycled                                   *)
Step ==
  /\ stage = "run" /\ stage' = "activity"
  /\ list' = IF last = playing THEN list
             ELSE [i \in DOMAIN list |->
                     IF list[i].state = "has_left"
                     THEN [list[i] EXCEPT !.state = "inactive"] ELSE list[i]]
  /\ last' = playing
  /\ UNCHANGED <<connected, playing, pending, syncs, received, blacklist, asked>>

(* The loop comes by between two steps *)
Loop ==
  /\ stage = "run" /\ stage' = "activity"
  /\ UNCHANGED <<list, connected, playing, last, pending, syncs, received, blacklist, asked>>

(* The user of the server saves the game: network_reset_server *)
ResetServer ==
  /\ ServerIsReset /\ stage = "run"
  /\ received' = <<>>
  /\ list' = [i \in DOMAIN list |->
                [socket |-> NoSocket,
                 state |-> IF list[i].state = "has_left" THEN "has_left" ELSE "inactive"]]
  /\ connected' = 0 /\ playing' = 0
  /\ pending' = IF HasClient(pending) THEN NoSocket ELSE pending
  /\ UNCHANGED <<last, syncs, blacklist, stage, asked>>

Execute == \/ ExecuteJoin \/ ExecuteInfo \/ ExecuteOutOfSync \/ ExecuteOther
           \/ ExecuteLogin \/ ExecuteKick \/ ExecuteBan

Next ==
  \/ \E s \in Sockets : Accept(s) \/ Receive(s) \/ Lose(s)
  \/ EndActivity \/ Execute \/ EndExecute
  \/ Sync \/ Step \/ Loop \/ ResetServer

Spec == Init /\ [][Next]_vars

(* The loop never stops; while it turns, a step comes, and a sync gets its   *)
(* turn                                                                      *)
Fairness ==
  /\ WF_vars(EndActivity) /\ WF_vars(Execute) /\ WF_vars(EndExecute)
  /\ WF_vars(Step \/ Loop) /\ SF_vars(Step) /\ SF_vars(Sync)
LiveSpec == Spec /\ Fairness

-----------------------------------------------------------------------------
(* Properties *)

(* A socket has one entry, which is in a state of an open connection, and an *)
(* entry without a socket is in a state of a closed one.  get_client_id and  *)
(* remove_client look for the first entry with a socket and rely on it.      *)
OneEntryPerSocket ==
  /\ \A i \in DOMAIN list :
       list[i].socket = NoSocket <=> list[i].state \in {"inactive", "has_left"}
  /\ \A i, j \in DOMAIN list :
       list[i].socket = list[j].socket /\ list[i].socket # NoSocket => i = j

(* "book-keeping for the number of connected / playing clients": the counters *)
(* that book_state_change keeps beside the list count at least the list, so  *)
(* that no removal takes these unsigned numbers below zero                   *)
CountersCover ==
  /\ connected >= Cardinality(In("connected"))
  /\ playing >= Cardinality(In("playing"))

(* Without administration tools, whose login assigns the state, they count the *)
(* list.  The pause of an idle server and the report of leavers read them.   *)
CountersAgree ==
  /\ connected = Cardinality(In("connected"))
  /\ playing = Cardinality(In("playing"))

(* The client that pending_join_client waits for is still connected, and the *)
(* sync that will end its join is in the command queue: otherwise no client  *)
(* could ever join again (nwc_join_t::execute refuses while one is pending). *)
PendingWillBeServed ==
  pending # NoSocket =>
    \E id \in ClientIds(pending) : \E k \in DOMAIN syncs : syncs[k] = id

(* Nobody is connected from an address that was banned                       *)
BannedAreOut ==
  \A i \in DOMAIN list : list[i].socket # NoSocket => Host[list[i].socket] \notin blacklist

(* The entry of a player who left is kept until the step that reports it:    *)
(* neither a new connection nor a reset takes it away                        *)
LeaverKeepsEntry ==
  [][\A i \in In("has_left") :
       list'[i] # list[i] => stage = "run" /\ stage' = "activity"]_vars

(* A client that joins holds up the others only until its sync               *)
JoinEnds == pending # NoSocket ~> pending = NoSocket

(* Two things the comments of the code say and the code does not do.          *)
(* "check if player has left and send message" (karte_t::step): a player who *)
(* leaves is reported, and the entry can be used again                       *)
LeaverIsReported ==
  \A i \in 1..MaxEntries :
    (i \in In("has_left")) ~> (i \notin In("has_left"))

(* "unpause the client that received the game" (nwc_sync_t::do_command): who *)
(* becomes a player is the client that asked to join                         *)
SyncServesJoiner ==
  [][\A i \in In("connected") \cup In("admin") :
       i \in DOMAIN list' /\ list'[i].state = "playing" => list[i].socket = pending]_vars
=============================================================================
