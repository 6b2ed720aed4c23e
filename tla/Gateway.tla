------------------------------- MODULE Gateway -------------------------------
(***************************************************************************)
(* ChatGateway: who is online, and the unread count that clients show.     *)
(*                                                                         *)
(* Several processes serve the sockets.  They share a set of online users  *)
(* in Redis, where each process's commands are executed in the order it    *)
(* sent them, and reach every socket of a user through a room that a       *)
(* socket joins once Redis has answered.  Handlers change unread counters  *)
(* through the chat service, then read the count and push it, in steps of  *)
(* their own.  All users take part in one chat room here, so that a        *)
(* user's count is 0 or 1.  Socket.IO's rooms span the processes by the    *)
(* Redis adapter: an event reaches the sockets of the process that emits   *)
(* it at once, and those of another by a channel that keeps the order of   *)
(* one sender's events, but may be late or lose them.                      *)
(***************************************************************************)
EXTENDS Naturals, Sequences, FiniteSets

CONSTANTS
  Users,
  Sockets,    \* connections, each opened at most once
  Owner,      \* whose a socket is
  Processes,  \* server processes
  Handlers,   \* events, each handled at most once
  None        \* an absent value

ASSUME GatewayAssumption ==
  /\ Owner \in [Sockets -> Users]
  /\ None \notin Users \cup Sockets \cup Processes \cup Nat

VARIABLES
  online,     \* the set under chat:online_users
  queue,      \* the commands to Redis under way from each process
  link,       \* where each socket is between connection and disconnection
  host,       \* the process that serves it
  dead,       \* the processes that died
  together,   \* history: the pairs of sockets of one user connected at once
  counter,    \* the number of conversations with unread messages of each user
  badge,      \* the count that each client shows
  relay,      \* the counts under way from one process to the sockets of another
  handler,    \* how far each event has been handled
  muddled     \* history: users whose last push may not tell the newest count

presenceVars == <<online, queue, link, host, dead, together>>
countVars    == <<counter, badge, relay, handler, muddled>>
gatewayVars  == <<presenceVars, countVars>>

(* From each process to each other. *)
Channels == Processes \X Processes

(* An event to come, and one that is over. *)
Idle == [op |-> "none", socket |-> None, todo |-> {}, sole |-> {}, target |-> None, count |-> 0]
Over == [Idle EXCEPT !.op = "over"]

Init ==
  /\ online   = {}
  /\ queue    = [p \in Processes |-> <<>>]
  /\ link     = [s \in Sockets |-> "new"]
  /\ host     = [s \in Sockets |-> None]
  /\ dead     = {}
  /\ together = {}
  /\ counter  = [u \in Users |-> 0]
  /\ badge    = [s \in Sockets |-> None]
  /\ relay    = [c \in Channels |-> <<>>]
  /\ handler  = [h \in Handlers |-> Idle]
  /\ muddled  = {}

Connected(s) == link[s] \in {"connected", "added", "joined"}

SocketsOf(u) == {s \in Sockets : Owner[s] = u}

SocketsAt(p, u) == {s \in SocketsOf(u) : Connected(s) /\ host[s] = p}

UnderWay(u, c) == \E i \in 1..Len(relay[c]) : relay[c][i].user = u

-----------------------------------------------------------------------------
(* handleConnection: SADD is sent, ... *)
Connect(s, p) ==
  /\ link[s] = "new"
  /\ p \notin dead
  /\ link' = [link EXCEPT ![s] = "connected"]
  /\ host' = [host EXCEPT ![s] = p]
  /\ queue' = [queue EXCEPT ![p] = Append(@, <<"sadd", s>>)]
  /\ together' = together \cup {{s, t} : t \in {t \in SocketsOf(Owner[s]) : Connected(t)}}
  /\ UNCHANGED <<online, dead, countVars>>

(* ... and when Redis has answered the socket joins the room of its user.  *)
Join(s) ==
  /\ link[s] = "added"
  /\ link' = [link EXCEPT ![s] = "joined"]
  /\ UNCHANGED <<online, queue, host, dead, together, countVars>>

DisconnectUnjoined(s) ==    \* mutant: a socket that has not joined yet is not removed
  /\ Connected(s)
  /\ link' = [link EXCEPT ![s] = "gone"]
  /\ queue' = IF link[s] = "joined" THEN [queue EXCEPT ![host[s]] = Append(@, <<"srem", s>>)]
              ELSE queue
  /\ UNCHANGED <<online, host, dead, together, countVars>>

(* handleDisconnect: SREM is sent, whatever other sockets the user has and  *)
(* however far handleConnection got.                                        *)
Disconnect(s) ==
  /\ Connected(s)
  /\ link' = [link EXCEPT ![s] = "gone"]
  /\ queue' = [queue EXCEPT ![host[s]] = Append(@, <<"srem", s>>)]
  /\ UNCHANGED <<online, host, dead, together, countVars>>

Execute(command, s) ==
  /\ online' = IF command = "sadd" THEN online \cup {Owner[s]} ELSE online \ {Owner[s]}
  /\ link' = IF command = "sadd" /\ link[s] = "connected"
               THEN [link EXCEPT ![s] = "added"] ELSE link

RedisUnordered(p) ==        \* mutant: the commands of a process go through a pool of connections
  /\ \E i \in 1..Len(queue[p]) :
       /\ Execute(queue[p][i][1], queue[p][i][2])
       /\ queue' = [queue EXCEPT ![p] = SubSeq(@, 1, i - 1) \o SubSeq(@, i + 1, Len(@))]
  /\ UNCHANGED <<host, dead, together, countVars>>

(* Redis executes the next command of a process. *)
Redis(p) ==
  /\ queue[p] # <<>>
  /\ Execute(Head(queue[p])[1], Head(queue[p])[2])
  /\ queue' = [queue EXCEPT ![p] = Tail(@)]
  /\ UNCHANGED <<host, dead, together, countVars>>

-----------------------------------------------------------------------------
(* The users that a handler still has to push a count to, other handlers   *)
(* than h considered.                                                       *)
Addressed(h) == UNION {handler[i].todo : i \in Handlers \ {h}}

(* An event of socket s has changed the counters to c, and its handler     *)
(* goes on to push their counts to the users in D.  The counts of users     *)
(* that several handlers are addressing may arrive in any order.            *)
Begin(h, op, s, D, c) ==
  /\ Connected(s)
  /\ handler[h] = Idle
  /\ counter' = c
  /\ handler' = [i \in Handlers |->
       IF i = h THEN [Idle EXCEPT !.op = op, !.socket = s, !.todo = D, !.sole = D \ Addressed(h)]
       ELSE [handler[i] EXCEPT !.sole = @ \ D]]
  /\ muddled' = muddled \cup (D \cap Addressed(h))
  /\ UNCHANGED <<presenceVars, badge, relay>>

(* sendMessage: the message is counted for all others.  What createMessage  *)
(* does up to there, or when it throws, changes no counter.                 *)
SendMessageToSender(h, s) ==  \* mutant: the sender is told instead of the others
  Begin(h, "sendMessage", s, {Owner[s]},
        [u \in Users |-> IF u = Owner[s] THEN counter[u] ELSE 1])

SendMessage(h, s) ==
  Begin(h, "sendMessage", s, Users \ {Owner[s]},
        [u \in Users |-> IF u = Owner[s] THEN counter[u] ELSE 1])

(* joinRoom: markAsRead clears the user's counter, or leaves it, when it   *)
(* was raised after markAsRead had found it clear.                          *)
JoinRoom(h, s) ==
  \E n \in {0, counter[Owner[s]]} :
    Begin(h, "joinRoom", s, {Owner[s]}, [counter EXCEPT ![Owner[s]] = n])

GetUnreadCount(h, s) == Begin(h, "getUnreadCount", s, {Owner[s]}, counter)

(* pushUnreadCount, and the same in getUnreadCount: the count is read, ... *)
ReadCount(h, u) ==
  /\ handler[h].target = None
  /\ u \in handler[h].todo
  /\ handler' = [handler EXCEPT ![h].target = u, ![h].count = counter[u]]
  /\ UNCHANGED <<presenceVars, counter, badge, relay, muddled>>

(* ... and emitted: to the socket that asked, or to the sockets in the      *)
(* user's room, at once if they are here, and by the relay if they are on   *)
(* other processes.  A socket that has not joined the room misses it, and a *)
(* count that another process sent earlier may arrive later.                *)
Emit(h) ==
  LET u        == handler[h].target
      p        == host[handler[h].socket]
      asked    == handler[h].op = "getUnreadCount"
      reached  == IF asked THEN {s \in {handler[h].socket} : Connected(s)}
                  ELSE {s \in SocketsAt(p, u) : link[s] = "joined"}
      others   == {c \in Channels : c[1] = p /\ c[2] \notin dead \cup {p}}
      clear    == /\ u \in handler[h].sole
                  /\ SocketsAt(p, u) \subseteq reached
                  /\ \A c \in Channels : UnderWay(u, c) => c[1] = p
      rest     == handler[h].todo \ {u}
  IN
  /\ u # None
  /\ badge' = [s \in Sockets |-> IF s \in reached THEN handler[h].count ELSE badge[s]]
  /\ relay' = [c \in Channels |->
       IF ~asked /\ c \in others
         THEN Append(relay[c], [user |-> u, count |-> handler[h].count]) ELSE relay[c]]
  /\ muddled' = IF asked THEN muddled
                ELSE IF clear THEN muddled \ {u} ELSE muddled \cup {u}
  /\ handler' = [handler EXCEPT ![h] =
       IF rest = {} THEN Over ELSE [@ EXCEPT !.todo = rest, !.target = None]]
  /\ UNCHANGED <<presenceVars, counter>>

(* The first count under way reaches the sockets that have joined by now. *)
Deliver(c) ==
  /\ relay[c] # <<>>
  /\ LET first == Head(relay[c])
         here  == SocketsAt(c[2], first.user)
     IN
     /\ badge' = [s \in Sockets |->
          IF s \in here /\ link[s] = "joined" THEN first.count ELSE badge[s]]
     /\ muddled' = IF \A s \in here : link[s] = "joined" THEN muddled
                   ELSE muddled \cup {first.user}
  /\ relay' = [relay EXCEPT ![c] = Tail(@)]
  /\ UNCHANGED <<presenceVars, counter, handler>>

(* What is under way is lost, with a connection or a process. *)
Lose(c) ==
  /\ relay[c] # <<>>
  /\ muddled' = muddled \cup {u \in Users : UnderWay(u, c)}
  /\ relay' = [relay EXCEPT ![c] = <<>>]
  /\ UNCHANGED <<presenceVars, counter, badge, handler>>

(* A handler stops: the count of those it still had to address is not told. *)
Fail(h) ==
  /\ handler[h].todo # {}
  /\ muddled' = muddled \cup handler[h].todo
  /\ handler' = [handler EXCEPT ![h] = Over]
  /\ UNCHANGED <<presenceVars, counter, badge, relay>>

(* The REST routes send and read without a push. *)
Rest(h, u) ==
  /\ handler[h] = Idle
  /\ counter' \in {[counter EXCEPT ![u] = n] : n \in {0, 1}}
  /\ muddled' = muddled \cup {u}
  /\ handler' = [i \in Handlers |-> IF i = h THEN Over ELSE [handler[i] EXCEPT !.sole = @ \ {u}]]
  /\ UNCHANGED <<presenceVars, badge, relay>>

(* A process dies with its sockets and handlers.  Of the commands it had   *)
(* under way the first few reach Redis.                                     *)
Die(p) ==
  LET victims == {h \in Handlers : handler[h].todo # {} /\ host[handler[h].socket] = p} IN
  /\ p \notin dead
  /\ dead' = dead \cup {p}
  /\ \E n \in 0..Len(queue[p]) : queue' = [queue EXCEPT ![p] = SubSeq(@, 1, n)]
  /\ link' = [s \in Sockets |-> IF host[s] = p /\ Connected(s) THEN "lost" ELSE link[s]]
  /\ muddled' = muddled \cup UNION {handler[h].todo : h \in victims}
  /\ handler' = [h \in Handlers |-> IF h \in victims THEN Over ELSE handler[h]]
  /\ UNCHANGED <<online, host, together, counter, badge, relay>>

Next ==
  \/ \E p \in Processes : Redis(p) \/ Die(p) \/ \E s \in Sockets : Connect(s, p)
  \/ \E s \in Sockets : Join(s) \/ Disconnect(s)
  \/ \E c \in Channels : Deliver(c) \/ Lose(c)
  \/ \E h \in Handlers :
       \/ \E s \in Sockets : SendMessage(h, s) \/ JoinRoom(h, s) \/ GetUnreadCount(h, s)
       \/ \E u \in Users : ReadCount(h, u) \/ Rest(h, u)
       \/ Emit(h) \/ Fail(h)

Spec == Init /\ [][Next]_gatewayVars

-----------------------------------------------------------------------------
Settled == \A p \in Processes : queue[p] = <<>>

(* Somebody who is shown online is connected, once Redis has executed what  *)
(* it was sent, unless a process died that served a socket of theirs: no    *)
(* order of connections and disconnections on several processes leaves a    *)
(* ghost behind.                                                            *)
NoGhosts == \A u \in online :
  Settled => \E s \in SocketsOf(u) : Connected(s) \/ host[s] \in dead

(* Somebody who is connected is shown online, unless another socket of      *)
(* theirs was disconnected: one connected at the same time, or served by    *)
(* another process, whose command may come later.                           *)
HiddenByOtherSocket == \A s \in Sockets :
  Settled /\ Connected(s) /\ Owner[s] \notin online =>
    \E t \in SocketsOf(Owner[s]) \ {s} :
      /\ link[t] \in {"gone", "lost"}
      /\ {s, t} \in together \/ host[t] # host[s]

(* When no handler addresses a user any more and no count is under way to   *)
(* the process of a client, the client shows the count as it is, unless     *)
(* counts were pushed side by side, by one process while one of another was *)
(* under way, before a socket had joined, or changed through a REST route,  *)
(* or lost: and the next push that is alone and reaches all sockets mends   *)
(* it.                                                                      *)
OrderlyBadge == \A s \in Sockets :
  LET u == Owner[s] IN
  /\ link[s] = "joined" /\ badge[s] # None
  /\ u \notin muddled
  /\ \A h \in Handlers : u \notin handler[h].todo
  /\ \A p \in Processes : ~UnderWay(u, <<p, host[s]>>)
  => badge[s] = counter[u]
=============================================================================
