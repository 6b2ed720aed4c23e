---------------------------- MODULE GatewayProofs ----------------------------
(***************************************************************************)
(* Proofs about presence and unread counts, for any users, sockets,        *)
(* processes and number of events.                                         *)
(***************************************************************************)
EXTENDS Gateway, SequenceTheorems, TLAPS

Links == {"new", "connected", "added", "joined", "gone", "lost"}

Command == {"sadd", "srem"} \X Sockets

Event == [op : {"none", "over", "sendMessage", "joinRoom", "getUnreadCount"},
          socket : Sockets \cup {None}, todo : SUBSET Users, sole : SUBSET Users,
          target : Users \cup {None}, count : Nat]

PresenceTypes ==
  /\ online \subseteq Users
  /\ queue \in [Processes -> Seq(Command)]
  /\ link \in [Sockets -> Links]
  /\ host \in [Sockets -> Processes \cup {None}]

Told == [user : Users, count : Nat]

CountTypes ==
  /\ relay \in [Channels -> Seq(Told)]
  /\ counter \in [Users -> Nat]
  /\ badge \in [Sockets -> Nat \cup {None}]
  /\ handler \in [Handlers -> Event]

-----------------------------------------------------------------------------
(* The k-th of the commands q. *)
At(q, k, command, s) == k \in 1..Len(q) /\ q[k] = <<command, s>>

(* A socket is served once it is no longer new, and loses a process only    *)
(* when that one dies.                                                      *)
HostFits == \A s \in Sockets :
  /\ link[s] # "new" => host[s] \in Processes
  /\ Connected(s) => host[s] \notin dead
  /\ link[s] = "lost" => host[s] \in dead

(* Commands are about sockets of the process, and say what became of them. *)
CommandsFit == \A p \in Processes, s \in Sockets, k \in Nat :
  /\ At(queue[p], k, "sadd", s) => host[s] = p /\ link[s] # "new"
  /\ At(queue[p], k, "srem", s) => host[s] = p /\ link[s] = "gone"

(* Somebody online has a socket that keeps them so, or whose removal is     *)
(* under way, or was with a process that died.                              *)
OnlineHasReason == \A u \in online : \E s \in SocketsOf(u) :
  /\ link[s] # "new"
  /\ \/ Connected(s)
     \/ host[s] \in dead
     \/ \E k \in Nat : At(queue[host[s]], k, "srem", s)

(* A socket that is gone is removed after it was added. *)
RemovalFollows == \A p \in Processes \ dead, s \in Sockets, k \in Nat :
  At(queue[p], k, "sadd", s) /\ link[s] = "gone" => \E m \in Nat : m > k /\ At(queue[p], m, "srem", s)

TogetherNoted == \A s, t \in Sockets :
  s # t /\ Owner[s] = Owner[t] /\ Connected(s) /\ Connected(t) => {s, t} \in together

(* A removal that overtakes no addition is of a socket that was connected   *)
(* at the same time.                                                        *)
RemovalKnown == \A s, t \in Sockets, k \in Nat :
  /\ Connected(s) /\ t # s /\ Owner[t] = Owner[s] /\ host[t] = host[s]
  /\ At(queue[host[s]], k, "srem", t)
  => {s, t} \in together \/ \E m \in Nat : m > k /\ At(queue[host[s]], m, "sadd", s)

Hides(t, s) ==
  /\ t \in SocketsOf(Owner[s]) \ {s}
  /\ link[t] \in {"gone", "lost"}
  /\ {s, t} \in together \/ host[t] # host[s]

(* Somebody connected is online or is about to be, or was hidden. *)
ConnectedIsShown == \A s \in Sockets : Connected(s) =>
  \/ Owner[s] \in online
  \/ \E k \in Nat : At(queue[host[s]], k, "sadd", s)
  \/ \E t \in Sockets : Hides(t, s)

PresenceInv ==
  /\ PresenceTypes
  /\ HostFits
  /\ CommandsFit
  /\ OnlineHasReason
  /\ RemovalFollows
  /\ TogetherNoted
  /\ RemovalKnown
  /\ ConnectedIsShown

-----------------------------------------------------------------------------
(* A count is read for somebody still to be addressed; a request for the    *)
(* count addresses the one who asks.                                        *)
EventFits == \A h \in Handlers :
  /\ handler[h].target # None => handler[h].target \in handler[h].todo
  /\ handler[h].todo # {} => handler[h].socket \in Sockets /\ link[handler[h].socket] # "new"
  /\ handler[h].op = "getUnreadCount" => handler[h].todo \subseteq {Owner[handler[h].socket]}

NewHasNoBadge == \A s \in Sockets : link[s] = "new" => badge[s] = None

(* Who is addressed side by side, or had the count changed meanwhile, is    *)
(* muddled.                                                                 *)
SoleIsAlone == \A h \in Handlers : \A u \in handler[h].todo :
  /\ u \notin handler[h].sole => u \in muddled
  /\ u \in handler[h].sole => \A i \in Handlers \ {h} : u \notin handler[i].todo

(* The count that a lone handler has read is the newest. *)
SoleIsFresh == \A h \in Handlers :
  handler[h].target # None /\ handler[h].target \in handler[h].sole =>
    handler[h].count = counter[handler[h].target]

(* A handler that may have changed the counter of u is to push it. *)
Changing(u) == \E h \in Handlers : u \in handler[h].todo /\ handler[h].op # "getUnreadCount"

(* No process relays to itself, and the counts of a user under way were     *)
(* sent by one process.                                                     *)
NoRelayHome == \A p \in Processes : relay[<<p, p>>] = <<>>

RelayedByOne == \A u \in Users \ muddled : \A c, d \in Channels :
  UnderWay(u, c) /\ UnderWay(u, d) => c[1] = d[1]

Newest(u, q, i) == /\ i \in 1..Len(q) /\ q[i].user = u
                   /\ \A k \in 1..Len(q) : k > i => q[k].user # u

(* The newest count of a user under way to a process is the count, except   *)
(* while a handler that changed it goes on to push it.                      *)
RelayIsFresh == \A u \in Users \ muddled : \A c \in Channels, i \in Nat :
  c[2] \notin dead /\ ~Changing(u) /\ Newest(u, relay[c], i) => relay[c][i].count = counter[u]

(* And every connected client shows it, unless one is under way. *)
BadgesFit == \A s \in Sockets :
  /\ Connected(s) /\ badge[s] # None
  /\ Owner[s] \notin muddled /\ ~Changing(Owner[s])
  /\ \A p \in Processes : ~UnderWay(Owner[s], <<p, host[s]>>)
  => badge[s] = counter[Owner[s]]

CountInv ==
  /\ CountTypes
  /\ EventFits
  /\ NewHasNoBadge
  /\ SoleIsAlone
  /\ SoleIsFresh
  /\ NoRelayHome
  /\ RelayedByOne
  /\ RelayIsFresh
  /\ BadgesFit

-----------------------------------------------------------------------------
(* What sending, executing and losing commands does to their order. *)
LEMMA AtAppend ==
  ASSUME NEW q \in Seq(Command), NEW c \in {"sadd", "srem"}, NEW s \in Sockets
  PROVE  \A k \in Nat, d \in {"sadd", "srem"}, t \in Sockets : At(Append(q, <<c, s>>), k, d, t) <=>
           At(q, k, d, t) \/ (k = Len(q) + 1 /\ d = c /\ t = s)
BY DEF At, Command

LEMMA AtTail ==
  ASSUME NEW q \in Seq(Command), q # <<>>
  PROVE  \A k \in Nat, d \in {"sadd", "srem"}, t \in Sockets : At(Tail(q), k, d, t) <=> k >= 1 /\ At(q, k + 1, d, t)
BY DEF At

LEMMA AtHead ==
  ASSUME NEW q \in Seq(Command), q # <<>>
  PROVE  /\ Head(q)[1] \in {"sadd", "srem"} /\ Head(q)[2] \in Sockets
         /\ At(q, 1, Head(q)[1], Head(q)[2])
         /\ \A k \in Nat, d \in {"sadd", "srem"}, t \in Sockets : At(q, k, d, t) /\ k <= 1 => d = Head(q)[1] /\ t = Head(q)[2]
<1>1. Head(q) = q[1] /\ Head(q) \in Command /\ Len(q) >= 1 /\ Len(q) \in Nat
  OBVIOUS
<1>2. Head(q) = <<Head(q)[1], Head(q)[2]>> /\ Head(q)[1] \in {"sadd", "srem"} /\ Head(q)[2] \in Sockets
  BY <1>1 DEF Command
<1>3. At(q, 1, Head(q)[1], Head(q)[2])
  BY <1>1, <1>2 DEF At
<1>4. ASSUME NEW k \in Nat, NEW d, NEW t, At(q, k, d, t), k <= 1
      PROVE  d = Head(q)[1] /\ t = Head(q)[2]
  <2>1. k = 1 /\ Head(q) = <<d, t>>
    BY <1>1, <1>4 DEF At
  <2> QED
    BY <2>1
<1> QED
  BY <1>2, <1>3, <1>4

LEMMA AtPrefix ==
  ASSUME NEW q \in Seq(Command), NEW n \in 0..Len(q)
  PROVE  /\ SubSeq(q, 1, n) \in Seq(Command)
         /\ \A k \in Nat, d \in {"sadd", "srem"}, t \in Sockets : At(SubSeq(q, 1, n), k, d, t) => At(q, k, d, t)
BY DEF At

-----------------------------------------------------------------------------
LEMMA ConnectKeeps ==
  ASSUME PresenceInv, NEW s \in Sockets, NEW p \in Processes, Connect(s, p)
  PROVE  PresenceInv'
<1> USE DEF PresenceInv
<1>1. PresenceTypes /\ link[s] = "new" /\ p \notin dead
  BY DEF Connect
<1>2. /\ link'[s] = "connected" /\ \A t \in Sockets \ {s} : link'[t] = link[t]
      /\ host'[s] = p /\ \A t \in Sockets \ {s} : host'[t] = host[t]
      /\ online' = online /\ dead' = dead
      /\ together' = together \cup {{s, t} : t \in {t \in SocketsOf(Owner[s]) : Connected(t)}}
  BY <1>1 DEF Connect, PresenceTypes
<1>3. <<"sadd", s>> \in Command
  BY DEF Command
<1>4. /\ queue'[p] = Append(queue[p], <<"sadd", s>>)
      /\ \A q \in Processes \ {p} : queue'[q] = queue[q]
      /\ queue[p] \in Seq(Command)
  BY <1>1 DEF Connect, PresenceTypes
<1>5. PresenceTypes'
  BY <1>1, <1>3, <1>4 DEF Connect, PresenceTypes, Links
<1>6. \A q \in Processes, k \in Nat, d \in {"sadd", "srem"}, t \in Sockets : At(queue'[q], k, d, t) <=>
        \/ At(queue[q], k, d, t)
        \/ q = p /\ k = Len(queue[p]) + 1 /\ d = "sadd" /\ t = s
  <2>1. ASSUME NEW q \in Processes, NEW k \in Nat, NEW d \in {"sadd", "srem"}, NEW t \in Sockets
        PROVE  At(queue'[q], k, d, t) <=>
                 \/ At(queue[q], k, d, t)
                 \/ q = p /\ k = Len(queue[p]) + 1 /\ d = "sadd" /\ t = s
    <3>1. CASE q = p
      <4>1. At(Append(queue[p], <<"sadd", s>>), k, d, t) <=>
              At(queue[p], k, d, t) \/ (k = Len(queue[p]) + 1 /\ d = "sadd" /\ t = s)
        BY <1>4, AtAppend
      <4> QED
        BY <1>4, <3>1, <4>1
    <3>2. CASE q # p
      BY <1>4, <3>2
    <3> QED
      BY <3>1, <3>2
  <2> QED
    BY <2>1
<1>7. Len(queue[p]) \in Nat /\ \A k \in Nat, d \in {"sadd", "srem"}, t \in Sockets : At(queue[p], k, d, t) => Len(queue[p]) + 1 > k
  BY <1>4 DEF At
<1>8. \A t \in Sockets : Connected(t)' <=> Connected(t) \/ t = s
  BY <1>2 DEF Connected
<1>9. \A q \in Processes, k \in Nat, d \in {"sadd", "srem"} : ~At(queue[q], k, d, s)
  BY <1>1 DEF CommandsFit
<1>10. HostFits'
  BY <1>1, <1>2, <1>8 DEF HostFits
<1>11. CommandsFit'
  BY <1>2, <1>6, <1>9 DEF CommandsFit
<1>12. OnlineHasReason'
  <2>1. ASSUME NEW u \in online
        PROVE  \E t \in SocketsOf(u) : /\ link'[t] # "new"
                                       /\ \/ Connected(t)'
                                          \/ host'[t] \in dead'
                                          \/ \E k \in Nat : At(queue'[host'[t]], k, "srem", t)
    <3>1. PICK t \in SocketsOf(u) : /\ link[t] # "new"
                                    /\ \/ Connected(t)
                                       \/ host[t] \in dead
                                       \/ \E k \in Nat : At(queue[host[t]], k, "srem", t)
      BY <2>1 DEF OnlineHasReason
    <3>2. t \in Sockets /\ t # s /\ host[t] \in Processes
      BY <1>1, <3>1 DEF SocketsOf, HostFits
    <3> QED
      BY <1>2, <1>6, <1>8, <3>1, <3>2
  <2> QED
    BY <1>2, <2>1 DEF OnlineHasReason, SocketsOf
<1>13. RemovalFollows'
  <2>1. ASSUME NEW q \in Processes \ dead, NEW t \in Sockets, NEW k \in Nat,
               At(queue'[q], k, "sadd", t), link'[t] = "gone"
        PROVE  \E m \in Nat : m > k /\ At(queue'[q], m, "srem", t)
    <3>1. link[t] = "gone" /\ At(queue[q], k, "sadd", t)
      BY <1>2, <1>6, <2>1
    <3>2. PICK m \in Nat : m > k /\ At(queue[q], m, "srem", t)
      BY <3>1 DEF RemovalFollows
    <3> QED
      BY <1>6, <3>2
  <2> QED
    BY <1>2, <2>1 DEF RemovalFollows
<1>14. TogetherNoted'
  <2>1. \A t \in Sockets : t # s /\ Owner[t] = Owner[s] /\ Connected(t)
          => {s, t} \in together' /\ {t, s} \in together'
    BY <1>2 DEF SocketsOf
  <2> QED
    BY <1>2, <1>8, <2>1 DEF TogetherNoted
<1>15. RemovalKnown'
  <2>1. ASSUME NEW x \in Sockets, NEW t \in Sockets, NEW k \in Nat,
               Connected(x)', t # x, Owner[t] = Owner[x], host'[t] = host'[x],
               At(queue'[host'[x]], k, "srem", t)
        PROVE  {x, t} \in together' \/ \E m \in Nat : m > k /\ At(queue'[host'[x]], m, "sadd", x)
    <3>1. CASE x = s
      <4>1. At(queue[p], k, "srem", t)
        BY <1>2, <1>6, <2>1, <3>1
      <4>2. Len(queue[p]) + 1 > k /\ At(queue'[p], Len(queue[p]) + 1, "sadd", s)
        BY <1>6, <1>7, <4>1
      <4> QED
        BY <1>2, <1>7, <3>1, <4>2
    <3>2. CASE x # s
      <4>1. host'[x] = host[x] /\ host[x] \in Processes /\ Connected(x)
        BY <1>2, <1>8, <2>1, <3>2 DEF HostFits, Connected
      <4>2. At(queue[host[x]], k, "srem", t)
        BY <1>6, <2>1, <4>1
      <4>3. t # s /\ host'[t] = host[t]
        BY <1>2, <1>9, <4>1, <4>2
      <4>4. {x, t} \in together \/ \E m \in Nat : m > k /\ At(queue[host[x]], m, "sadd", x)
        BY <2>1, <4>1, <4>2, <4>3 DEF RemovalKnown
      <4> QED
        BY <1>2, <1>6, <4>1, <4>4
    <3> QED
      BY <3>1, <3>2
  <2> QED
    BY <2>1 DEF RemovalKnown
<1>16. ConnectedIsShown'
  <2>1. ASSUME NEW x \in Sockets, Connected(x)'
        PROVE  \/ Owner[x] \in online'
               \/ \E k \in Nat : At(queue'[host'[x]], k, "sadd", x)
               \/ \E t \in Sockets : Hides(t, x)'
    <3>1. CASE x = s
      <4>1. Len(queue[p]) + 1 \in Nat /\ At(queue'[p], Len(queue[p]) + 1, "sadd", s)
        BY <1>6, <1>7
      <4> QED
        BY <1>2, <3>1, <4>1
    <3>2. CASE x # s
      <4>1. host'[x] = host[x] /\ host[x] \in Processes /\ Connected(x)
        BY <1>2, <1>8, <2>1, <3>2 DEF HostFits, Connected
      <4>2. \A t \in Sockets : Hides(t, x) => Hides(t, x)'
        BY <1>1, <1>2, <3>2 DEF Hides
      <4> QED
        BY <1>2, <1>6, <4>1, <4>2 DEF ConnectedIsShown
    <3> QED
      BY <3>1, <3>2
  <2> QED
    BY <2>1 DEF ConnectedIsShown
<1> QED
  BY <1>5, <1>10, <1>11, <1>12, <1>13, <1>14, <1>15, <1>16

LEMMA JoinKeeps ==
  ASSUME PresenceInv, NEW s \in Sockets, Join(s)
  PROVE  PresenceInv'
<1> USE DEF PresenceInv
<1>1. /\ PresenceTypes /\ link[s] = "added" /\ link'[s] = "joined"
      /\ \A t \in Sockets \ {s} : link'[t] = link[t]
      /\ online' = online /\ queue' = queue /\ host' = host /\ dead' = dead
      /\ together' = together
  BY DEF Join, PresenceTypes
<1>2. \A t \in Sockets : /\ Connected(t)' <=> Connected(t)
                         /\ link'[t] = "new" <=> link[t] = "new"
                         /\ link'[t] = "gone" <=> link[t] = "gone"
                         /\ link'[t] = "lost" <=> link[t] = "lost"
  BY <1>1 DEF Connected
<1>3. PresenceTypes'
  BY <1>1 DEF Join, PresenceTypes, Links
<1>4. HostFits' /\ CommandsFit' /\ RemovalFollows' /\ TogetherNoted' /\ RemovalKnown'
  BY <1>1, <1>2 DEF HostFits, CommandsFit, RemovalFollows, TogetherNoted, RemovalKnown
<1>5. OnlineHasReason'
  BY <1>1, <1>2 DEF OnlineHasReason, SocketsOf
<1>6. ConnectedIsShown'
  <2>1. \A t \in Sockets, x \in Sockets : Hides(t, x) => Hides(t, x)'
    BY <1>1, <1>2 DEF Hides
  <2> QED
    BY <1>1, <1>2, <2>1 DEF ConnectedIsShown
<1> QED
  BY <1>3, <1>4, <1>5, <1>6

LEMMA DisconnectKeeps ==
  ASSUME PresenceInv, NEW s \in Sockets, Disconnect(s)
  PROVE  PresenceInv'
<1> USE DEF PresenceInv
<1> DEFINE p == host[s]
           n == Len(queue[p]) + 1
<1>1. PresenceTypes /\ Connected(s) /\ p \in Processes
  BY DEF Disconnect, HostFits, Connected
<1>2. /\ link'[s] = "gone" /\ \A t \in Sockets \ {s} : link'[t] = link[t]
      /\ online' = online /\ host' = host /\ dead' = dead /\ together' = together
  BY <1>1 DEF Disconnect, PresenceTypes
<1>3. /\ queue'[p] = Append(queue[p], <<"srem", s>>)
      /\ \A q \in Processes \ {p} : queue'[q] = queue[q]
      /\ queue[p] \in Seq(Command)
  BY <1>1 DEF Disconnect, PresenceTypes
<1>4. PresenceTypes'
  BY <1>1, <1>3 DEF Disconnect, PresenceTypes, Links, Command
<1>5. \A q \in Processes, k \in Nat, d \in {"sadd", "srem"}, t \in Sockets : At(queue'[q], k, d, t) <=>
        \/ At(queue[q], k, d, t)
        \/ q = p /\ k = n /\ d = "srem" /\ t = s
  <2>1. ASSUME NEW q \in Processes, NEW k \in Nat, NEW d \in {"sadd", "srem"}, NEW t \in Sockets
        PROVE  At(queue'[q], k, d, t) <=>
                 \/ At(queue[q], k, d, t)
                 \/ q = p /\ k = n /\ d = "srem" /\ t = s
    <3>1. CASE q = p
      <4>1. At(Append(queue[p], <<"srem", s>>), k, d, t) <=>
              At(queue[p], k, d, t) \/ (k = Len(queue[p]) + 1 /\ d = "srem" /\ t = s)
        BY <1>3, AtAppend
      <4> QED
        BY <1>3, <3>1, <4>1
    <3>2. CASE q # p
      BY <1>3, <3>2
    <3> QED
      BY <3>1, <3>2
  <2> QED
    BY <2>1
<1>6. n \in Nat /\ \A k \in Nat, d \in {"sadd", "srem"}, t \in Sockets : At(queue[p], k, d, t) => n > k
  BY <1>3 DEF At
<1>7. At(queue'[p], n, "srem", s)
  BY <1>1, <1>5, <1>6
<1> HIDE DEF n
<1>8. \A t \in Sockets : Connected(t)' <=> Connected(t) /\ t # s
  BY <1>2 DEF Connected
<1>9. link[s] \notin {"new", "gone", "lost"}
  BY <1>1 DEF Connected
<1>10. HostFits'
  BY <1>1, <1>2, <1>8 DEF HostFits
<1>11. CommandsFit'
  BY <1>2, <1>5, <1>9 DEF CommandsFit
<1>12. OnlineHasReason'
  <2>1. ASSUME NEW u \in online
        PROVE  \E t \in SocketsOf(u) : /\ link'[t] # "new"
                                       /\ \/ Connected(t)'
                                          \/ host'[t] \in dead'
                                          \/ \E k \in Nat : At(queue'[host'[t]], k, "srem", t)
    <3>1. PICK t \in SocketsOf(u) : /\ link[t] # "new"
                                    /\ \/ Connected(t)
                                       \/ host[t] \in dead
                                       \/ \E k \in Nat : At(queue[host[t]], k, "srem", t)
      BY <2>1 DEF OnlineHasReason
    <3>2. t \in Sockets /\ host[t] \in Processes
      BY <3>1 DEF SocketsOf, HostFits
    <3>3. CASE t = s
      BY <1>2, <1>6, <1>7, <3>1, <3>3
    <3>4. CASE t # s
      BY <1>2, <1>5, <1>8, <3>1, <3>2, <3>4
    <3> QED
      BY <3>3, <3>4
  <2> QED
    BY <1>2, <2>1 DEF OnlineHasReason, SocketsOf
<1>13. RemovalFollows'
  <2>1. ASSUME NEW q \in Processes \ dead, NEW t \in Sockets, NEW k \in Nat,
               At(queue'[q], k, "sadd", t), link'[t] = "gone"
        PROVE  \E m \in Nat : m > k /\ At(queue'[q], m, "srem", t)
    <3>1. At(queue[q], k, "sadd", t)
      BY <1>5, <2>1
    <3>2. CASE t = s
      <4>1. q = p
        BY <3>1, <3>2 DEF CommandsFit
      <4> QED
        BY <1>6, <1>7, <3>1, <3>2, <4>1
    <3>3. CASE t # s
      <4>1. PICK m \in Nat : m > k /\ At(queue[q], m, "srem", t)
        BY <1>2, <2>1, <3>1, <3>3 DEF RemovalFollows
      <4> QED
        BY <1>5, <4>1
    <3> QED
      BY <3>2, <3>3
  <2> QED
    BY <1>2, <2>1 DEF RemovalFollows
<1>14. TogetherNoted'
  BY <1>2, <1>8 DEF TogetherNoted
<1>15. RemovalKnown'
  <2>1. ASSUME NEW x \in Sockets, NEW t \in Sockets, NEW k \in Nat,
               Connected(x)', t # x, Owner[t] = Owner[x], host[t] = host[x],
               At(queue'[host[x]], k, "srem", t)
        PROVE  {x, t} \in together \/ \E m \in Nat : m > k /\ At(queue'[host[x]], m, "sadd", x)
    <3>1. host[x] \in Processes /\ Connected(x)
      BY <1>8, <2>1 DEF HostFits, Connected
    <3>2. CASE At(queue[host[x]], k, "srem", t)
      BY <1>5, <2>1, <3>1, <3>2 DEF RemovalKnown
    <3>3. CASE t = s
      BY <1>1, <2>1, <3>1, <3>3 DEF TogetherNoted
    <3> QED
      BY <1>5, <2>1, <3>1, <3>2, <3>3
  <2> QED
    BY <1>2, <2>1 DEF RemovalKnown
<1>16. ConnectedIsShown'
  <2>1. ASSUME NEW x \in Sockets, Connected(x)'
        PROVE  \/ Owner[x] \in online'
               \/ \E k \in Nat : At(queue'[host'[x]], k, "sadd", x)
               \/ \E t \in Sockets : Hides(t, x)'
    <3>1. host[x] \in Processes /\ Connected(x)
      BY <1>8, <2>1 DEF HostFits, Connected
    <3>2. \A t \in Sockets : Hides(t, x) => Hides(t, x)'
      BY <1>2, <1>9 DEF Hides
    <3> QED
      BY <1>2, <1>5, <3>1, <3>2 DEF ConnectedIsShown
  <2> QED
    BY <2>1 DEF ConnectedIsShown
<1> QED
  BY <1>4, <1>10, <1>11, <1>12, <1>13, <1>14, <1>15, <1>16

LEMMA DieKeeps ==
  ASSUME PresenceInv, NEW p \in Processes, Die(p)
  PROVE  PresenceInv'
<1> USE DEF PresenceInv
<1>1. PresenceTypes
  OBVIOUS
<1>2. /\ online' = online /\ host' = host /\ together' = together /\ dead' = dead \cup {p}
      /\ link' = [s \in Sockets |-> IF host[s] = p /\ Connected(s) THEN "lost" ELSE link[s]]
  BY DEF Die
<1>3. PICK n \in 0..Len(queue[p]) : queue' = [queue EXCEPT ![p] = SubSeq(queue[p], 1, n)]
  BY DEF Die
<1>4. /\ queue' \in [Processes -> Seq(Command)]
      /\ \A q \in Processes \ {p} : queue'[q] = queue[q]
      /\ \A k \in Nat, d \in {"sadd", "srem"}, t \in Sockets :
           At(queue'[p], k, d, t) => At(queue[p], k, d, t)
  BY <1>1, <1>3, AtPrefix DEF PresenceTypes
<1>5. PresenceTypes'
  BY <1>1, <1>2, <1>4 DEF PresenceTypes, Links
<1>6. \A t \in Sockets : /\ Connected(t)' <=> Connected(t) /\ host[t] # p
                         /\ link'[t] = "new" <=> link[t] = "new"
                         /\ link'[t] = "gone" <=> link[t] = "gone"
                         /\ link[t] = "lost" => link'[t] = "lost"
                         /\ link'[t] = "lost" => link[t] = "lost" \/ host[t] = p
  BY <1>2 DEF Connected
<1>7. \A q \in Processes, k \in Nat, d \in {"sadd", "srem"}, t \in Sockets :
        At(queue'[q], k, d, t) => At(queue[q], k, d, t)
  BY <1>4
<1>8. HostFits'
  <2>1. \A t \in Sockets : Connected(t)' => host[t] \notin dead'
    BY <1>2, <1>6 DEF HostFits
  <2> QED
    BY <1>2, <1>6, <2>1 DEF HostFits
<1>9. CommandsFit'
  BY <1>2, <1>6, <1>7 DEF CommandsFit
<1>10. OnlineHasReason'
  <2>1. ASSUME NEW u \in online
        PROVE  \E t \in SocketsOf(u) : /\ link'[t] # "new"
                                       /\ \/ Connected(t)'
                                          \/ host'[t] \in dead'
                                          \/ \E k \in Nat : At(queue'[host'[t]], k, "srem", t)
    <3>1. PICK t \in SocketsOf(u) : /\ link[t] # "new"
                                    /\ \/ Connected(t)
                                       \/ host[t] \in dead
                                       \/ \E k \in Nat : At(queue[host[t]], k, "srem", t)
      BY <2>1 DEF OnlineHasReason
    <3>2. t \in Sockets /\ host[t] \in Processes
      BY <3>1 DEF SocketsOf, HostFits
    <3> QED
      BY <1>2, <1>4, <1>6, <3>1, <3>2
  <2> QED
    BY <1>2, <2>1 DEF OnlineHasReason, SocketsOf
<1>11. RemovalFollows'
  BY <1>2, <1>4, <1>6 DEF RemovalFollows
<1>12. TogetherNoted'
  BY <1>2, <1>6 DEF TogetherNoted
<1>13. RemovalKnown'
  <2>1. \A x \in Sockets : Connected(x)' => Connected(x) /\ queue'[host[x]] = queue[host[x]]
    BY <1>4, <1>6 DEF HostFits, Connected
  <2> QED
    BY <1>2, <2>1 DEF RemovalKnown
<1>14. ConnectedIsShown'
  <2>1. ASSUME NEW x \in Sockets, Connected(x)'
        PROVE  \/ Owner[x] \in online'
               \/ \E k \in Nat : At(queue'[host'[x]], k, "sadd", x)
               \/ \E t \in Sockets : Hides(t, x)'
    <3>1. Connected(x) /\ queue'[host[x]] = queue[host[x]]
      BY <1>4, <1>6, <2>1 DEF HostFits, Connected
    <3>2. \A t \in Sockets : Hides(t, x) => Hides(t, x)'
      BY <1>2, <1>6 DEF Hides
    <3> QED
      BY <1>2, <3>1, <3>2 DEF ConnectedIsShown
  <2> QED
    BY <2>1 DEF ConnectedIsShown
<1> QED
  BY <1>5, <1>8, <1>9, <1>10, <1>11, <1>12, <1>13, <1>14

LEMMA RedisKeeps ==
  ASSUME PresenceInv, NEW p \in Processes, Redis(p)
  PROVE  PresenceInv'
<1> USE DEF PresenceInv
<1> DEFINE c == Head(queue[p])[1]
           s == Head(queue[p])[2]
<1>1. PresenceTypes /\ queue[p] # <<>> /\ queue[p] \in Seq(Command)
  BY DEF Redis, PresenceTypes
<1>2. /\ c \in {"sadd", "srem"} /\ s \in Sockets
      /\ At(queue[p], 1, c, s)
      /\ \A k \in Nat, d \in {"sadd", "srem"}, t \in Sockets :
           At(queue[p], k, d, t) /\ k <= 1 => d = c /\ t = s
  BY <1>1, AtHead
<1>3. /\ online' = IF c = "sadd" THEN online \cup {Owner[s]} ELSE online \ {Owner[s]}
      /\ link' = IF c = "sadd" /\ link[s] = "connected" THEN [link EXCEPT ![s] = "added"] ELSE link
      /\ host' = host /\ dead' = dead /\ together' = together
      /\ queue' = [queue EXCEPT ![p] = Tail(queue[p])]
  BY DEF Redis, Execute
<1> HIDE DEF c, s
<1>4. \A t \in Sockets : /\ Connected(t)' <=> Connected(t)
                         /\ link'[t] = "new" <=> link[t] = "new"
                         /\ link'[t] = "gone" <=> link[t] = "gone"
                         /\ link'[t] = "lost" <=> link[t] = "lost"
  BY <1>1, <1>3 DEF Connected, PresenceTypes
<1>5. PresenceTypes'
  <2>1. Owner[s] \in Users
    BY <1>2, GatewayAssumption
  <2>2. Tail(queue[p]) \in Seq(Command)
    BY <1>1
  <2> QED
    BY <1>1, <1>3, <2>1, <2>2 DEF PresenceTypes, Links
<1>6. /\ \A q \in Processes \ {p} : queue'[q] = queue[q]
      /\ \A k \in Nat, d \in {"sadd", "srem"}, t \in Sockets :
           At(queue'[p], k, d, t) <=> k >= 1 /\ At(queue[p], k + 1, d, t)
  BY <1>1, <1>3, AtTail DEF PresenceTypes
(* What was behind the command that is executed is still there. *)
<1>7. \A k \in Nat, d \in {"sadd", "srem"}, t \in Sockets :
        At(queue[p], k, d, t) /\ k > 1 => k - 1 \in Nat /\ At(queue'[p], k - 1, d, t)
  <2>1. ASSUME NEW k \in Nat, NEW d \in {"sadd", "srem"}, NEW t \in Sockets,
               At(queue[p], k, d, t), k > 1
        PROVE  k - 1 \in Nat /\ At(queue'[p], k - 1, d, t)
    <3>1. k - 1 \in Nat /\ k - 1 >= 1 /\ (k - 1) + 1 = k
      BY <2>1
    <3>2. At(queue[p], (k - 1) + 1, d, t)
      BY <2>1, <3>1
    <3> QED
      BY <1>6, <3>1, <3>2
  <2> QED
    BY <2>1
<1>8. HostFits'
  BY <1>3, <1>4 DEF HostFits
<1>9. CommandsFit'
  <2>1. ASSUME NEW q \in Processes, NEW t \in Sockets, NEW k \in Nat, NEW d \in {"sadd", "srem"},
               At(queue'[q], k, d, t)
        PROVE  \E m \in Nat : At(queue[q], m, d, t)
    BY <1>6, <2>1
  <2> QED
    BY <1>3, <1>4, <2>1 DEF CommandsFit
<1>10. OnlineHasReason'
  <2>1. ASSUME NEW u \in online'
        PROVE  \E t \in SocketsOf(u) : /\ link'[t] # "new"
                                       /\ \/ Connected(t)'
                                          \/ host'[t] \in dead'
                                          \/ \E k \in Nat : At(queue'[host'[t]], k, "srem", t)
    <3>1. CASE c = "sadd" /\ u = Owner[s]
      <4>1. s \in SocketsOf(u) /\ host[s] = p /\ link[s] # "new"
        BY <1>2, <3>1 DEF SocketsOf, CommandsFit
      <4>2. CASE Connected(s) \/ p \in dead
        BY <1>3, <1>4, <4>1, <4>2 DEF SocketsOf
      <4>3. CASE link[s] = "lost"
        BY <1>3, <1>4, <4>1, <4>3 DEF SocketsOf, HostFits
      <4>4. CASE link[s] = "gone" /\ p \notin dead
        <5>1. PICK m \in Nat : m > 1 /\ At(queue[p], m, "srem", s)
          BY <1>2, <3>1, <4>4 DEF RemovalFollows
        <5>2. m - 1 \in Nat /\ At(queue'[p], m - 1, "srem", s)
          BY <1>2, <1>7, <5>1
        <5> QED
          BY <1>3, <1>4, <4>1, <5>2
      <4>5. link[s] \in Links
        BY <1>1, <1>2 DEF PresenceTypes
      <4> QED
        BY <4>1, <4>2, <4>3, <4>4, <4>5 DEF Connected, Links
    <3>2. CASE ~(c = "sadd" /\ u = Owner[s])
      <4>1. u \in online /\ ~(c = "srem" /\ u = Owner[s])
        BY <1>2, <1>3, <2>1, <3>2
      <4>2. PICK t \in SocketsOf(u) : /\ link[t] # "new"
                                      /\ \/ Connected(t)
                                         \/ host[t] \in dead
                                         \/ \E k \in Nat : At(queue[host[t]], k, "srem", t)
        BY <4>1 DEF OnlineHasReason
      <4>3. t \in Sockets /\ Owner[t] = u /\ host[t] \in Processes
        BY <4>2 DEF SocketsOf, HostFits
      <4>4. ASSUME NEW k \in Nat, At(queue[host[t]], k, "srem", t)
            PROVE  \E m \in Nat : At(queue'[host[t]], m, "srem", t)
        <5>1. CASE host[t] # p
          BY <1>6, <4>3, <4>4, <5>1
        <5>2. CASE host[t] = p
          <6>1. k > 1
            BY <1>2, <4>1, <4>3, <4>4, <5>2
          <6> QED
            BY <1>7, <4>3, <4>4, <5>2, <6>1
        <5> QED
          BY <5>1, <5>2
      <4> QED
        BY <1>3, <1>4, <4>2, <4>3, <4>4
    <3> QED
      BY <3>1, <3>2
  <2> QED
    BY <2>1 DEF OnlineHasReason, SocketsOf
<1>11. RemovalFollows'
  <2>1. ASSUME NEW q \in Processes \ dead, NEW t \in Sockets, NEW k \in Nat,
               At(queue'[q], k, "sadd", t), link[t] = "gone"
        PROVE  \E m \in Nat : m > k /\ At(queue'[q], m, "srem", t)
    <3>1. CASE q # p
      BY <1>6, <2>1, <3>1 DEF RemovalFollows
    <3>2. CASE q = p
      <4>1. k >= 1 /\ k + 1 \in Nat /\ At(queue[p], k + 1, "sadd", t)
        BY <1>6, <2>1, <3>2
      <4>2. PICK m \in Nat : m > k + 1 /\ At(queue[p], m, "srem", t)
        BY <2>1, <3>2, <4>1 DEF RemovalFollows
      <4>3. m > 1 /\ m - 1 > k
        BY <4>1, <4>2
      <4> QED
        BY <1>7, <3>2, <4>2, <4>3
    <3> QED
      BY <3>1, <3>2
  <2> QED
    BY <1>3, <1>4, <2>1 DEF RemovalFollows
<1>12. TogetherNoted'
  BY <1>3, <1>4 DEF TogetherNoted
<1>13. RemovalKnown'
  <2>1. ASSUME NEW x \in Sockets, NEW t \in Sockets, NEW k \in Nat,
               Connected(x), t # x, Owner[t] = Owner[x], host[t] = host[x],
               At(queue'[host[x]], k, "srem", t)
        PROVE  {x, t} \in together \/ \E m \in Nat : m > k /\ At(queue'[host[x]], m, "sadd", x)
    <3>1. host[x] \in Processes
      BY <2>1 DEF HostFits, Connected
    <3>2. CASE host[x] # p
      BY <1>6, <2>1, <3>1, <3>2 DEF RemovalKnown
    <3>3. CASE host[x] = p
      <4>1. k >= 1 /\ k + 1 \in Nat /\ At(queue[p], k + 1, "srem", t)
        BY <1>6, <2>1, <3>3
      <4>2. {x, t} \in together \/ \E m \in Nat : m > k + 1 /\ At(queue[p], m, "sadd", x)
        BY <2>1, <3>3, <4>1 DEF RemovalKnown
      <4>3. ASSUME NEW m \in Nat, m > k + 1, At(queue[p], m, "sadd", x)
            PROVE  m - 1 \in Nat /\ m - 1 > k /\ At(queue'[p], m - 1, "sadd", x)
        BY <1>7, <4>1, <4>3
      <4> QED
        BY <3>3, <4>2, <4>3
    <3> QED
      BY <3>2, <3>3
  <2> QED
    BY <1>3, <1>4, <2>1 DEF RemovalKnown
<1>14. ConnectedIsShown'
  <2>1. ASSUME NEW x \in Sockets, Connected(x)
        PROVE  \/ Owner[x] \in online'
               \/ \E k \in Nat : At(queue'[host[x]], k, "sadd", x)
               \/ \E t \in Sockets : Hides(t, x)'
    <3>1. host[x] \in Processes
      BY <2>1 DEF HostFits, Connected
    <3>2. \A t \in Sockets : Hides(t, x) => Hides(t, x)'
      BY <1>3, <1>4 DEF Hides
    <3>3. CASE Owner[x] \in online
      <4>1. CASE c = "srem" /\ Owner[s] = Owner[x]
        <5>1. link[s] = "gone" /\ host[s] = p /\ s # x
          BY <1>2, <2>1, <4>1 DEF CommandsFit, Connected
        <5>2. CASE host[x] # p \/ {x, s} \in together
          <6>1. Hides(s, x)
            BY <1>2, <4>1, <5>1, <5>2 DEF Hides, SocketsOf
          <6> QED
            BY <1>2, <3>2, <6>1
        <5>3. CASE host[x] = p /\ {x, s} \notin together
          <6>1. PICK m \in Nat : m > 1 /\ At(queue[p], m, "sadd", x)
            BY <1>2, <2>1, <4>1, <5>1, <5>3 DEF RemovalKnown
          <6> QED
            BY <1>7, <5>3, <6>1
        <5> QED
          BY <5>2, <5>3
      <4>2. CASE ~(c = "srem" /\ Owner[s] = Owner[x])
        BY <1>2, <1>3, <3>3, <4>2
      <4> QED
        BY <4>1, <4>2
    <3>4. ASSUME NEW k \in Nat, At(queue[host[x]], k, "sadd", x)
          PROVE  Owner[x] \in online' \/ \E m \in Nat : At(queue'[host[x]], m, "sadd", x)
      <4>1. CASE host[x] # p
        BY <1>6, <3>1, <3>4, <4>1
      <4>2. CASE host[x] = p /\ k > 1
        BY <1>7, <3>4, <4>2
      <4>3. CASE host[x] = p /\ k <= 1
        <5>1. c = "sadd" /\ s = x
          BY <1>2, <3>4, <4>3
        <5> QED
          BY <1>3, <5>1
      <4> QED
        BY <4>1, <4>2, <4>3
    <3> QED
      BY <2>1, <3>2, <3>3, <3>4 DEF ConnectedIsShown
  <2> QED
    BY <1>3, <1>4, <2>1 DEF ConnectedIsShown
<1> QED
  BY <1>5, <1>8, <1>9, <1>10, <1>11, <1>12, <1>13, <1>14

-----------------------------------------------------------------------------
(* Where the counts under way stay, so do the relations among them. *)
LEMMA RelayStands ==
  ASSUME CountInv, relay' = relay, muddled \subseteq muddled', dead \subseteq dead',
         \A u \in Users \ muddled' : /\ counter'[u] = counter[u] \/ Changing(u)'
                                     /\ Changing(u) => Changing(u)'
  PROVE  NoRelayHome' /\ RelayedByOne' /\ RelayIsFresh'
BY DEF CountInv, NoRelayHome, RelayedByOne, RelayIsFresh, UnderWay

(* Sockets that go, come without a badge, or stay disturb no count. *)
LEMMA PresenceStepKeepsCounts ==
  ASSUME CountInv, UNCHANGED countVars, dead' = dead,
         \A s \in Sockets : /\ Connected(s)' => Connected(s) \/ link[s] = "new"
                            /\ link[s] # "new" => host'[s] = host[s]
                            /\ link'[s] = "new" => link[s] = "new"
  PROVE  CountInv'
<1> USE DEF CountInv, countVars
<1>1. \A u : Changing(u)' <=> Changing(u)
  BY DEF Changing
<1>2. \A u, c : UnderWay(u, c)' <=> UnderWay(u, c)
  BY DEF UnderWay
<1>3. CountTypes' /\ EventFits' /\ NewHasNoBadge' /\ SoleIsAlone' /\ SoleIsFresh'
  BY DEF CountTypes, EventFits, NewHasNoBadge, SoleIsAlone, SoleIsFresh
<1>4. NoRelayHome' /\ RelayedByOne' /\ RelayIsFresh'
  BY <1>1, RelayStands
<1>5. BadgesFit'
  <2>1. ASSUME NEW s \in Sockets, Connected(s)', badge[s] # None
        PROVE  Connected(s) /\ host'[s] = host[s]
    BY <2>1 DEF NewHasNoBadge, Connected
  <2> QED
    BY <1>1, <1>2, <2>1 DEF BadgesFit
<1> QED
  BY <1>3, <1>4, <1>5

LEMMA EventShapes ==
  /\ Idle \in Event /\ Idle.todo = {} /\ Idle.target = None
  /\ Over \in Event /\ Over.todo = {} /\ Over.target = None
  /\ Idle.op # "getUnreadCount" /\ Over.op # "getUnreadCount"
BY DEF Idle, Over, Event

(* An event that changes the counters of those it goes on to address. *)
LEMMA BeginKeeps ==
  ASSUME CountInv, NEW h \in Handlers, NEW op \in {"sendMessage", "joinRoom", "getUnreadCount"},
         NEW s \in Sockets, NEW D \in SUBSET Users, NEW c \in [Users -> Nat],
         \A u \in Users \ D : c[u] = counter[u],
         op = "getUnreadCount" => D = {Owner[s]} /\ c = counter,
         Begin(h, op, s, D, c)
  PROVE  CountInv'
<1> USE DEF CountInv
<1>1. /\ CountTypes /\ handler[h] = Idle /\ counter' = c /\ badge' = badge
      /\ muddled' = muddled \cup (D \cap Addressed(h)) /\ relay' = relay
      /\ Connected(s) /\ link' = link /\ host' = host /\ dead' = dead
  BY DEF Begin, presenceVars
<1>2. handler'[h] = [op |-> op, socket |-> s, todo |-> D, sole |-> D \ Addressed(h),
                     target |-> None, count |-> 0]
  BY DEF Begin, Idle
<1>3. /\ handler'[h] \in Event
      /\ handler'[h].op = op /\ handler'[h].socket = s /\ handler'[h].todo = D
      /\ handler'[h].sole = D \ Addressed(h) /\ handler'[h].target = None
  BY <1>2 DEF Event
<1>4. \A i \in Handlers \ {h} : /\ handler[i] \in Event
                                /\ handler'[i] = [handler[i] EXCEPT !.sole = handler[i].sole \ D]
  BY <1>1 DEF Begin, CountTypes
<1>5. \A i \in Handlers \ {h} :
        /\ handler'[i] \in Event
        /\ handler'[i].op = handler[i].op /\ handler'[i].socket = handler[i].socket
        /\ handler'[i].todo = handler[i].todo /\ handler'[i].sole = handler[i].sole \ D
        /\ handler'[i].target = handler[i].target /\ handler'[i].count = handler[i].count
  <2>1. ASSUME NEW e \in Event, NEW f, f = [e EXCEPT !.sole = e.sole \ D]
        PROVE  /\ f \in Event /\ f.op = e.op /\ f.socket = e.socket /\ f.todo = e.todo
               /\ f.sole = e.sole \ D /\ f.target = e.target /\ f.count = e.count
    BY <2>1 DEF Event
  <2> QED
    BY <1>4, <2>1
<1>6. \A u : u \in Addressed(h) <=> \E i \in Handlers \ {h} : u \in handler[i].todo
  BY DEF Addressed
<1>7. CountTypes'
  <2>1. DOMAIN handler' = Handlers /\ handler' = [i \in Handlers |-> handler'[i]]
    BY DEF Begin
  <2> QED
    BY <1>1, <1>3, <1>5, <2>1 DEF CountTypes
<1>8. EventFits' /\ NewHasNoBadge'
  <2>1. EventFits'
    BY <1>1, <1>3, <1>5 DEF EventFits, Connected
  <2> QED
    BY <1>1, <2>1 DEF NewHasNoBadge
<1>9. SoleIsAlone'
  <2>1. ASSUME NEW u \in D
        PROVE  /\ u \notin handler'[h].sole => u \in muddled'
               /\ u \in handler'[h].sole => \A i \in Handlers \ {h} : u \notin handler'[i].todo
    BY <1>1, <1>3, <1>5, <1>6
  <2>2. ASSUME NEW i \in Handlers \ {h}, NEW u \in handler[i].todo
        PROVE  /\ u \notin handler'[i].sole => u \in muddled'
               /\ u \in handler'[i].sole => \A k \in Handlers \ {i} : u \notin handler'[k].todo
    <3>1. CASE u \in D
      BY <1>1, <1>5, <1>6, <3>1
    <3>2. CASE u \notin D
      BY <1>1, <1>3, <1>5, <3>2 DEF SoleIsAlone
    <3> QED
      BY <3>1, <3>2
  <2> QED
    BY <1>3, <1>5, <2>1, <2>2 DEF SoleIsAlone
<1>10. SoleIsFresh'
  <2>1. ASSUME NEW i \in Handlers, handler'[i].target # None, handler'[i].target \in handler'[i].sole
        PROVE  handler'[i].count = counter'[handler'[i].target]
    <3>1. i # h /\ handler[i].target \in handler[i].sole \ D /\ handler[i].target # None
      BY <1>3, <1>5, <2>1
    <3>2. handler[i].sole \subseteq Users
      BY <1>1 DEF CountTypes, Event
    <3> QED
      BY <1>1, <1>5, <3>1, <3>2 DEF SoleIsFresh
  <2> QED
    BY <2>1 DEF SoleIsFresh
<1>11. \A u \in Users : /\ c[u] = counter[u] \/ Changing(u)'
                        /\ Changing(u) => Changing(u)'
  <2>1. ASSUME NEW u \in Users, Changing(u)
        PROVE  Changing(u)'
    <3>1. PICK i \in Handlers : u \in handler[i].todo /\ handler[i].op # "getUnreadCount"
      BY <2>1 DEF Changing
    <3>2. i # h
      BY <1>1, <3>1, EventShapes
    <3> QED
      BY <1>5, <3>1, <3>2 DEF Changing
  <2> QED
    BY <1>3, <2>1 DEF Changing
<1>12. NoRelayHome' /\ RelayedByOne' /\ RelayIsFresh'
  BY <1>1, <1>11, RelayStands
<1>13. BadgesFit'
  BY <1>1, <1>11, GatewayAssumption DEF BadgesFit, Connected, UnderWay
<1> QED
  BY <1>7, <1>8, <1>9, <1>10, <1>12, <1>13

LEMMA EventsKeep ==
  ASSUME CountInv, NEW h \in Handlers, NEW s \in Sockets,
         SendMessage(h, s) \/ JoinRoom(h, s) \/ GetUnreadCount(h, s)
  PROVE  CountInv'
<1>1. counter \in [Users -> Nat] /\ Owner[s] \in Users
  BY GatewayAssumption DEF CountInv, CountTypes
<1>2. CASE SendMessage(h, s)
  BY <1>1, <1>2, BeginKeeps DEF SendMessage
<1>3. CASE JoinRoom(h, s)
  <2>1. PICK n \in {0, counter[Owner[s]]} :
          Begin(h, "joinRoom", s, {Owner[s]}, [counter EXCEPT ![Owner[s]] = n])
    BY <1>3 DEF JoinRoom
  <2> DEFINE c == [counter EXCEPT ![Owner[s]] = n]
  <2>2. c \in [Users -> Nat] /\ \A u \in Users \ {Owner[s]} : c[u] = counter[u]
    BY <1>1
  <2>3. Begin(h, "joinRoom", s, {Owner[s]}, c)
    BY <2>1
  <2> HIDE DEF c
  <2> QED
    BY <1>1, <2>2, <2>3, BeginKeeps
<1>4. CASE GetUnreadCount(h, s)
  BY <1>1, <1>4, BeginKeeps DEF GetUnreadCount
<1> QED
  BY <1>2, <1>3, <1>4

LEMMA ReadCountKeeps ==
  ASSUME CountInv, NEW h \in Handlers, NEW u \in Users, ReadCount(h, u)
  PROVE  CountInv'
<1> USE DEF CountInv
<1>1. /\ CountTypes /\ u \in handler[h].todo
      /\ counter' = counter /\ badge' = badge /\ muddled' = muddled /\ relay' = relay
      /\ link' = link /\ host' = host /\ dead' = dead
      /\ handler' = [handler EXCEPT ![h] = [handler[h] EXCEPT !.target = u, !.count = counter[u]]]
  BY DEF ReadCount, presenceVars, CountTypes
<1>2. handler[h] \in Event /\ counter[u] \in Nat
  BY <1>1 DEF CountTypes
<1>3. handler'[h] = [handler[h] EXCEPT !.target = u, !.count = counter[u]]
  BY <1>1 DEF CountTypes
<1>4. /\ handler'[h] \in Event
      /\ handler'[h].op = handler[h].op /\ handler'[h].socket = handler[h].socket
      /\ handler'[h].todo = handler[h].todo /\ handler'[h].sole = handler[h].sole
      /\ handler'[h].target = u /\ handler'[h].count = counter[u]
  BY <1>2, <1>3 DEF Event
<1>5. \A i \in Handlers \ {h} : handler'[i] = handler[i]
  BY <1>1 DEF CountTypes
<1>6. CountTypes'
  BY <1>1, <1>4, <1>5 DEF CountTypes
<1>7. \A i \in Handlers : /\ handler'[i].op = handler[i].op /\ handler'[i].socket = handler[i].socket
                          /\ handler'[i].todo = handler[i].todo /\ handler'[i].sole = handler[i].sole
  BY <1>4, <1>5
<1>8. EventFits' /\ SoleIsFresh'
  BY <1>1, <1>4, <1>5 DEF EventFits, SoleIsFresh
<1>9. NewHasNoBadge' /\ SoleIsAlone'
  BY <1>1, <1>7 DEF NewHasNoBadge, SoleIsAlone
<1>10. \A v : Changing(v)' <=> Changing(v)
  BY <1>7 DEF Changing
<1>11. NoRelayHome' /\ RelayedByOne' /\ RelayIsFresh'
  BY <1>1, <1>10, RelayStands
<1>12. BadgesFit'
  BY <1>1, <1>10 DEF BadgesFit, Connected, UnderWay
<1> QED
  BY <1>6, <1>8, <1>9, <1>11, <1>12

LEMMA EmitKeeps ==
  ASSUME PresenceTypes, HostFits, CountInv, NEW h \in Handlers, Emit(h)
  PROVE  CountInv'
<1> USE DEF CountInv
<1> DEFINE u       == handler[h].target
           p       == host[handler[h].socket]
           asked   == handler[h].op = "getUnreadCount"
           reached == IF asked THEN {s \in {handler[h].socket} : Connected(s)}
                      ELSE {s \in SocketsAt(p, u) : link[s] = "joined"}
           others  == {c \in Channels : c[1] = p /\ c[2] \notin dead \cup {p}}
           clear   == /\ u \in handler[h].sole
                      /\ SocketsAt(p, u) \subseteq reached
                      /\ \A c \in Channels : UnderWay(u, c) => c[1] = p
           told    == [user |-> u, count |-> handler[h].count]
           rest    == handler[h].todo \ {u}
<1>1. CountTypes /\ handler[h] \in Event
  BY DEF CountTypes
<1>2. /\ u # None
      /\ badge' = [s \in Sockets |-> IF s \in reached THEN handler[h].count ELSE badge[s]]
      /\ relay' = [c \in Channels |->
           IF ~asked /\ c \in others THEN Append(relay[c], told) ELSE relay[c]]
      /\ muddled' = IF asked THEN muddled
                    ELSE IF clear THEN muddled \ {u} ELSE muddled \cup {u}
      /\ handler' = [handler EXCEPT ![h] =
           IF rest = {} THEN Over ELSE [handler[h] EXCEPT !.todo = rest, !.target = None]]
      /\ counter' = counter /\ link' = link /\ host' = host /\ dead' = dead
  BY DEF Emit, presenceVars
<1>3. /\ u \in handler[h].todo /\ u \in Users /\ handler[h].socket \in Sockets
      /\ p \in Processes /\ told \in Told /\ told.user = u /\ told.count = handler[h].count
  BY <1>1, <1>2 DEF EventFits, Event, HostFits, Told
<1>4. /\ handler'[h] \in Event /\ handler'[h].target = None
      /\ handler'[h].todo = handler[h].todo \ {u}
      /\ handler'[h].todo # {} => /\ handler'[h].sole = handler[h].sole
                                  /\ handler'[h].socket = handler[h].socket
                                  /\ handler'[h].op = handler[h].op
      /\ handler'[h].op = "getUnreadCount" => handler'[h].op = handler[h].op
                                              /\ handler'[h].socket = handler[h].socket
  <2>1. CASE rest = {}
    <3>1. handler'[h] = Over
      BY <1>1, <1>2, <2>1 DEF CountTypes
    <3> QED
      BY <2>1, <3>1, EventShapes
  <2>2. CASE rest # {}
    <3>1. handler'[h] = [handler[h] EXCEPT !.todo = rest, !.target = None]
      BY <1>1, <1>2, <2>2 DEF CountTypes
    <3> QED
      BY <1>1, <3>1 DEF Event
  <2> QED
    BY <2>1, <2>2
<1>5. \A i \in Handlers \ {h} : handler'[i] = handler[i]
  BY <1>1, <1>2 DEF CountTypes
<1>6. \A x \in reached : Connected(x) /\ x \in Sockets /\ Owner[x] = u
  <2>1. asked => u = Owner[handler[h].socket]
    BY <1>3 DEF EventFits
  <2> QED
    BY <1>3, <2>1 DEF SocketsAt, SocketsOf
<1>7. clear => \A x \in Sockets : Connected(x) /\ Owner[x] = u /\ host[x] = p => x \in reached
  BY DEF SocketsAt, SocketsOf
<1>8. CountTypes'
  <2>1. handler[h].count \in Nat
    BY <1>1 DEF Event
  <2>2. badge' \in [Sockets -> Nat \cup {None}]
    BY <1>1, <1>2, <2>1 DEF CountTypes
  <2>3. handler' \in [Handlers -> Event]
    BY <1>1, <1>2, <1>4, <1>5 DEF CountTypes
  <2>4. relay' \in [Channels -> Seq(Told)]
    BY <1>1, <1>2, <1>3 DEF CountTypes
  <2> QED
    BY <1>1, <1>2, <2>2, <2>3, <2>4 DEF CountTypes
<1>9. \A v : v \in muddled /\ v \notin muddled' => v = u /\ u \in handler[h].sole
  BY <1>2
<1>10. \A x \in Sockets : badge'[x] = IF x \in reached THEN handler[h].count ELSE badge[x]
  BY <1>2
(* If u is not muddled after this, what the handler has read is the newest. *)
<1>11. u \notin muddled' => u \in handler[h].sole /\ handler[h].count = counter[u]
  <2>1. u \notin muddled' => u \in handler[h].sole
    BY <1>2, <1>3 DEF SoleIsAlone
  <2> QED
    BY <1>2, <2>1 DEF SoleIsFresh
<1>12. ~asked /\ u \notin muddled' => clear
  BY <1>2
(* What the relay gains is the newest there. *)
<1>13. ASSUME NEW c \in Channels, NEW v
       PROVE  /\ UnderWay(v, c)' <=> UnderWay(v, c) \/ (v = u /\ ~asked /\ c \in others)
              /\ \A i \in Nat : Newest(v, relay'[c], i) =>
                   IF v = u /\ ~asked /\ c \in others THEN relay'[c][i] = told
                   ELSE Newest(v, relay[c], i) /\ relay'[c][i] = relay[c][i]
  <2>1. relay[c] \in Seq(Told)
    BY <1>1 DEF CountTypes
  <2>2. CASE asked \/ c \notin others
    <3>1. relay'[c] = relay[c]
      BY <1>2, <2>2
    <3> QED
      BY <2>2, <3>1 DEF UnderWay
  <2>3. CASE ~asked /\ c \in others
    <3> DEFINE n == Len(relay[c]) + 1
    <3>1. relay'[c] = Append(relay[c], told)
      BY <1>2, <2>3
    <3>2. /\ n \in Nat /\ n \in 1..Len(relay'[c]) /\ Len(relay'[c]) = n
          /\ relay'[c][n] = told
          /\ \A i \in 1..Len(relay[c]) : relay'[c][i] = relay[c][i] /\ i \in 1..Len(relay'[c]) /\ n > i
          /\ \A i \in 1..Len(relay'[c]) : i = n \/ i \in 1..Len(relay[c])
      BY <2>1, <1>3, <3>1
    <3> HIDE DEF n, told
    <3>3. UnderWay(v, c)' <=> UnderWay(v, c) \/ v = u
      BY <1>3, <3>2 DEF UnderWay
    <3>4. ASSUME NEW i \in Nat, Newest(v, relay'[c], i)
          PROVE  IF v = u THEN relay'[c][i] = told
                 ELSE Newest(v, relay[c], i) /\ relay'[c][i] = relay[c][i]
      <4>1. CASE v = u
        BY <1>3, <3>2, <3>4, <4>1 DEF Newest
      <4>2. CASE v # u
        <5>1. i \in 1..Len(relay[c])
          BY <1>3, <3>2, <3>4, <4>2 DEF Newest
        <5> QED
          BY <3>2, <3>4, <4>2, <5>1 DEF Newest
      <4> QED
        BY <4>1, <4>2
    <3> QED
      BY <2>3, <3>3, <3>4
  <2> QED
    BY <2>2, <2>3
<1>14. \A v : /\ Changing(v)' => Changing(v)
              /\ Changing(v) => Changing(v)' \/ (v = u /\ ~asked)
  BY <1>4, <1>5 DEF Changing
(* A lone request for the count leaves nobody who changes it. *)
<1>15. asked /\ u \notin muddled' => ~Changing(u)
  BY <1>3, <1>11 DEF SoleIsAlone, Changing
<1> HIDE DEF reached, asked, told
<1>16. EventFits'
  BY <1>2, <1>4, <1>5 DEF EventFits
<1>17. NewHasNoBadge'
  BY <1>2, <1>6, <1>10 DEF NewHasNoBadge, Connected
<1>18. SoleIsAlone'
  <2>1. ASSUME NEW i \in Handlers, NEW v \in handler'[i].todo
        PROVE  /\ v \notin handler'[i].sole => v \in muddled'
               /\ v \in handler'[i].sole => \A k \in Handlers \ {i} : v \notin handler'[k].todo
    <3>1. v \in handler[i].todo /\ handler'[i].sole = handler[i].sole
      BY <1>4, <1>5, <2>1
    <3>2. v \in handler'[i].sole => \A k \in Handlers \ {i} : v \notin handler'[k].todo
      BY <1>4, <1>5, <3>1 DEF SoleIsAlone
    <3>3. v \notin handler'[i].sole => v \in muddled'
      <4>1. SUFFICES ASSUME v \notin handler[i].sole, v \notin muddled'
                     PROVE  FALSE
        BY <3>1
      <4>2. v = u /\ u \in handler[h].sole
        BY <1>9, <3>1, <4>1 DEF SoleIsAlone
      <4>3. i # h
        BY <4>1, <4>2
      <4> QED
        BY <1>3, <3>1, <4>2, <4>3 DEF SoleIsAlone
    <3> QED
      BY <3>2, <3>3
  <2> QED
    BY <2>1 DEF SoleIsAlone
<1>19. SoleIsFresh'
  BY <1>2, <1>4, <1>5 DEF SoleIsFresh
<1>20. NoRelayHome'
  <2>1. ASSUME NEW q \in Processes
        PROVE  relay'[<<q, q>>] = relay[<<q, q>>]
    <3>1. <<q, q>> \in Channels /\ <<q, q>> \notin others
      BY DEF Channels
    <3> QED
      BY <1>2, <3>1
  <2> QED
    BY <2>1 DEF NoRelayHome
<1>21. RelayedByOne'
  <2>1. ASSUME NEW v \in Users \ muddled', NEW c \in Channels, NEW d \in Channels,
               UnderWay(v, c)', UnderWay(v, d)'
        PROVE  c[1] = d[1]
    <3>1. CASE v # u
      <4>1. v \notin muddled /\ UnderWay(v, c) /\ UnderWay(v, d)
        BY <1>9, <1>13, <2>1, <3>1
      <4> QED
        BY <2>1, <4>1 DEF RelayedByOne
    <3>2. CASE v = u /\ asked
      <4>1. v \notin muddled /\ UnderWay(v, c) /\ UnderWay(v, d)
        BY <1>2, <1>13, <2>1, <3>2
      <4> QED
        BY <2>1, <4>1 DEF RelayedByOne
    <3>3. CASE v = u /\ ~asked
      <4>1. clear
        BY <1>12, <2>1, <3>3
      <4>2. \A x \in Channels : UnderWay(v, x)' => x[1] = p
        BY <1>13, <3>3, <4>1
      <4> QED
        BY <2>1, <4>2
    <3> QED
      BY <3>1, <3>2, <3>3
  <2> QED
    BY <2>1 DEF RelayedByOne
<1>22. RelayIsFresh'
  <2>1. ASSUME NEW v \in Users \ muddled', NEW c \in Channels, NEW i \in Nat,
               c[2] \notin dead, ~Changing(v)', Newest(v, relay'[c], i)
        PROVE  relay'[c][i].count = counter[v]
    <3>1. CASE v = u /\ ~asked /\ c \in others
      BY <1>3, <1>11, <1>13, <2>1, <3>1 DEF told
    <3>2. CASE v = u /\ ~asked /\ c \notin others
      <4>1. UnderWay(v, c) /\ c[1] = p /\ c = <<c[1], c[2]>> /\ c[2] \in Processes
        <5>1. UnderWay(v, c)'
          BY <2>1 DEF Newest, UnderWay
        <5> QED
          BY <1>12, <1>13, <2>1, <3>2, <5>1 DEF Channels
      <4>2. c = <<p, p>>
        BY <2>1, <3>2, <4>1
      <4>3. relay[c] = <<>>
        BY <1>3, <4>2 DEF NoRelayHome
      <4> QED
        BY <4>1, <4>3 DEF UnderWay
    <3>3. CASE v # u \/ asked
      <4>1. v \notin muddled /\ ~Changing(v)
        BY <1>2, <1>9, <1>14, <2>1, <3>3
      <4> QED
        BY <1>13, <2>1, <3>3, <4>1 DEF RelayIsFresh
    <3> QED
      BY <3>1, <3>2, <3>3
  <2>2. counter' = counter /\ dead' = dead
    BY <1>2
  <2> QED
    BY <2>1, <2>2 DEF RelayIsFresh
<1>23. BadgesFit'
  <2>1. ASSUME NEW x \in Sockets, Connected(x), badge'[x] # None, Owner[x] \notin muddled',
               ~Changing(Owner[x])', \A q \in Processes : ~UnderWay(Owner[x], <<q, host[x]>>)'
        PROVE  badge'[x] = counter[Owner[x]]
    <3>1. CASE x \in reached
      BY <1>6, <1>10, <1>11, <2>1, <3>1
    <3>2. CASE x \notin reached
      <4>1. badge'[x] = badge[x] /\ host[x] \in Processes /\ host[x] \notin dead
        BY <1>10, <2>1, <3>2 DEF HostFits, Connected
      <4>2. ASSUME NEW c \in Channels, c[2] = host[x]
            PROVE  ~UnderWay(Owner[x], c)'
        <5>1. c[1] \in Processes /\ c = <<c[1], host[x]>> /\ host' = host
          BY <1>2, <4>2 DEF Channels
        <5> QED
          BY <2>1, <5>1 DEF UnderWay
      <4>3. \A q \in Processes : ~UnderWay(Owner[x], <<q, host[x]>>)
        <5>1. \A q \in Processes : <<q, host[x]>> \in Channels
          BY <4>1 DEF Channels
        <5>2. ASSUME NEW c \in Channels, c[2] = host[x]
              PROVE  ~UnderWay(Owner[x], c)
          BY <1>13, <4>2, <5>2
        <5> QED
          BY <5>1, <5>2
      <4>4. CASE Owner[x] = u /\ ~asked
        <5>1. clear /\ host[x] # p
          BY <1>7, <1>12, <2>1, <3>2, <4>4
        <5>2. PICK c \in Channels : c = <<p, host[x]>>
          BY <1>3, <4>1 DEF Channels
        <5>3. c[1] = p /\ c[2] = host[x] /\ c \in others
          BY <4>1, <5>1, <5>2
        <5> QED
          BY <1>13, <4>2, <4>4, <5>3
      <4>5. CASE Owner[x] = u /\ asked
        <5>1. u \notin muddled /\ ~Changing(u)
          BY <1>2, <1>15, <2>1, <4>5
        <5> QED
          BY <2>1, <4>1, <4>3, <4>5, <5>1 DEF BadgesFit
      <4>6. CASE Owner[x] # u
        <5>1. Owner[x] \notin muddled /\ ~Changing(Owner[x])
          BY <1>9, <1>14, <2>1, <4>6
        <5> QED
          BY <2>1, <4>1, <4>3, <5>1 DEF BadgesFit
      <4> QED
        BY <4>4, <4>5, <4>6
    <3> QED
      BY <3>1, <3>2
  <2> QED
    BY <1>2, <2>1 DEF BadgesFit, Connected
<1> QED
  BY <1>8, <1>16, <1>17, <1>18, <1>19, <1>20, <1>21, <1>22, <1>23

(* Handlers that stop leave the users they did not address muddled. *)
LEMMA StopsKeep ==
  ASSUME CountInv, NEW W \in SUBSET Handlers,
         counter' = counter, badge' = badge, relay' = relay, host' = host,
         dead \subseteq dead', muddled \subseteq muddled',
         handler' = [i \in Handlers |-> IF i \in W THEN Over ELSE handler[i]],
         \A i \in W : handler[i].todo \subseteq muddled',
         \A s \in Sockets : /\ Connected(s)' => Connected(s)
                            /\ link'[s] = "new" => link[s] = "new"
  PROVE  CountInv'
<1> USE DEF CountInv
<1>1. CountTypes /\ \A i \in Handlers : handler[i] \in Event
  BY DEF CountTypes
<1>2. /\ \A i \in W : /\ handler'[i] \in Event /\ handler'[i].todo = {}
                      /\ handler'[i].target = None /\ handler'[i].op # "getUnreadCount"
      /\ \A i \in Handlers \ W : handler'[i] = handler[i]
  BY EventShapes
<1>3. CountTypes'
  <2>1. \A i \in Handlers : handler'[i] \in Event
    BY <1>1, <1>2
  <2>2. handler' \in [Handlers -> Event]
    BY <2>1
  <2> QED
    BY <1>1, <2>2 DEF CountTypes
<1>4. EventFits' /\ SoleIsFresh'
  BY <1>2 DEF EventFits, SoleIsFresh
<1>5. NewHasNoBadge'
  BY DEF NewHasNoBadge
<1>6. SoleIsAlone'
  BY <1>2 DEF SoleIsAlone
<1>7. \A u : u \notin muddled' => (Changing(u)' <=> Changing(u))
  BY <1>2 DEF Changing
<1>8. NoRelayHome' /\ RelayedByOne' /\ RelayIsFresh'
  BY <1>7, RelayStands
<1>9. BadgesFit'
  <2>1. ASSUME NEW u, NEW c
        PROVE  UnderWay(u, c)' <=> UnderWay(u, c)
    BY DEF UnderWay
  <2> QED
    BY <1>7, <2>1 DEF BadgesFit, UnderWay
<1> QED
  BY <1>3, <1>4, <1>5, <1>6, <1>8, <1>9

LEMMA FailKeeps ==
  ASSUME CountInv, NEW h \in Handlers, Fail(h)
  PROVE  CountInv'
<1>1. /\ handler' = [i \in Handlers |-> IF i \in {h} THEN Over ELSE handler[i]]
      /\ counter' = counter /\ badge' = badge /\ relay' = relay
      /\ link' = link /\ host' = host /\ dead' = dead
      /\ muddled' = muddled \cup handler[h].todo
  BY DEF Fail, CountInv, CountTypes, presenceVars
<1>2. \A s \in Sockets : Connected(s)' => Connected(s)
  BY <1>1 DEF Connected
<1> QED
  BY <1>1, <1>2, StopsKeep

LEMMA DieKeepsCounts ==
  ASSUME PresenceTypes, CountInv, NEW p \in Processes, Die(p)
  PROVE  CountInv'
<1> DEFINE W == {h \in Handlers : handler[h].todo # {} /\ host[handler[h].socket] = p}
<1>1. /\ handler' = [i \in Handlers |-> IF i \in W THEN Over ELSE handler[i]]
      /\ counter' = counter /\ badge' = badge /\ relay' = relay
      /\ host' = host /\ dead \subseteq dead'
      /\ muddled' = muddled \cup UNION {handler[i].todo : i \in W}
      /\ link' = [s \in Sockets |-> IF host[s] = p /\ Connected(s) THEN "lost" ELSE link[s]]
  BY DEF Die
<1>2. \A s \in Sockets : /\ Connected(s)' => Connected(s)
                         /\ link'[s] = "new" => link[s] = "new"
  BY <1>1 DEF Connected
<1>3. \A i \in W : handler[i].todo \subseteq muddled'
  BY <1>1
<1>4. W \in SUBSET Handlers /\ muddled \subseteq muddled'
  BY <1>1
<1> HIDE DEF W
<1> QED
  BY <1>1, <1>2, <1>3, <1>4, StopsKeep

LEMMA RestKeeps ==
  ASSUME CountInv, NEW h \in Handlers, NEW u \in Users, Rest(h, u)
  PROVE  CountInv'
<1> USE DEF CountInv
<1>1. /\ CountTypes /\ handler[h] = Idle /\ muddled' = muddled \cup {u}
      /\ badge' = badge /\ relay' = relay /\ link' = link /\ host' = host /\ dead' = dead
  BY DEF Rest, presenceVars
<1>2. counter' \in [Users -> Nat] /\ \A v \in Users \ {u} : counter'[v] = counter[v]
  BY <1>1 DEF Rest, CountTypes
<1>3. /\ handler'[h] \in Event /\ handler'[h].todo = {} /\ handler'[h].target = None
      /\ handler'[h].op # "getUnreadCount" /\ handler[h].todo = {}
  BY <1>1, EventShapes DEF Rest
<1>4. \A i \in Handlers \ {h} :
        /\ handler'[i] \in Event
        /\ handler'[i].op = handler[i].op /\ handler'[i].socket = handler[i].socket
        /\ handler'[i].todo = handler[i].todo /\ handler'[i].sole = handler[i].sole \ {u}
        /\ handler'[i].target = handler[i].target /\ handler'[i].count = handler[i].count
  <2>1. \A i \in Handlers \ {h} : /\ handler[i] \in Event
                                  /\ handler'[i] = [handler[i] EXCEPT !.sole = handler[i].sole \ {u}]
    BY <1>1 DEF Rest, CountTypes
  <2>2. ASSUME NEW e \in Event, NEW f, f = [e EXCEPT !.sole = e.sole \ {u}]
        PROVE  /\ f \in Event /\ f.op = e.op /\ f.socket = e.socket /\ f.todo = e.todo
               /\ f.sole = e.sole \ {u} /\ f.target = e.target /\ f.count = e.count
    BY <2>2 DEF Event
  <2> QED
    BY <2>1, <2>2
<1>5. CountTypes'
  <2>1. DOMAIN handler' = Handlers /\ handler' = [i \in Handlers |-> handler'[i]]
    BY DEF Rest
  <2> QED
    BY <1>1, <1>2, <1>3, <1>4, <2>1 DEF CountTypes
<1>6. EventFits' /\ NewHasNoBadge'
  BY <1>1, <1>3, <1>4 DEF EventFits, NewHasNoBadge
<1>7. SoleIsAlone'
  BY <1>1, <1>3, <1>4 DEF SoleIsAlone
<1>8. SoleIsFresh'
  <2>1. ASSUME NEW i \in Handlers, handler'[i].target # None, handler'[i].target \in handler'[i].sole
        PROVE  handler'[i].count = counter'[handler'[i].target]
    <3>1. i # h /\ handler[i].target \in handler[i].sole \ {u} /\ handler[i].target # None
      BY <1>3, <1>4, <2>1
    <3>2. handler[i].sole \subseteq Users
      BY <1>1 DEF CountTypes, Event
    <3> QED
      BY <1>2, <1>4, <3>1, <3>2 DEF SoleIsFresh
  <2> QED
    BY <2>1 DEF SoleIsFresh
<1>9. \A v \in Users \ muddled' : v # u /\ (Changing(v)' <=> Changing(v))
  BY <1>1, <1>3, <1>4 DEF Changing
<1>10. NoRelayHome' /\ RelayedByOne' /\ RelayIsFresh'
  <2>1. \A v \in Users \ muddled' : counter'[v] = counter[v]
    BY <1>2, <1>9
  <2> QED
    BY <1>1, <1>9, <2>1, RelayStands
<1>11. BadgesFit'
  BY <1>1, <1>2, <1>9, GatewayAssumption DEF BadgesFit, Connected, UnderWay
<1> QED
  BY <1>5, <1>6, <1>7, <1>8, <1>10, <1>11

(* A count that arrives is the newest under way if it is the last. *)
LEMMA HeadMoves ==
  ASSUME NEW q \in Seq(Told), q # <<>>
  PROVE  /\ Head(q) \in Told /\ Tail(q) \in Seq(Told) /\ Head(q) = q[1] /\ 1 \in 1..Len(q)
         /\ \A u : (\E i \in 1..Len(q) : q[i].user = u) <=>
                   Head(q).user = u \/ \E i \in 1..Len(Tail(q)) : Tail(q)[i].user = u
         /\ \A u : Head(q).user = u /\ (\A i \in 1..Len(Tail(q)) : Tail(q)[i].user # u)
                   => Newest(u, q, 1)
         /\ \A u : \A i \in Nat : Newest(u, Tail(q), i) => Newest(u, q, i + 1) /\ Tail(q)[i] = q[i + 1]
<1>1. /\ Len(q) \in Nat /\ Len(q) >= 1 /\ Len(Tail(q)) = Len(q) - 1
      /\ \A i \in 1..Len(Tail(q)) : Tail(q)[i] = q[i + 1] /\ i + 1 \in 1..Len(q)
      /\ Head(q) = q[1] /\ Head(q) \in Told /\ Tail(q) \in Seq(Told)
  OBVIOUS
<1>2. \A i \in 1..Len(q) : i = 1 \/ (i - 1 \in 1..Len(Tail(q)) /\ Tail(q)[i - 1] = q[i])
  BY <1>1
<1>3. ASSUME NEW u
      PROVE  (\E i \in 1..Len(q) : q[i].user = u) <=>
               Head(q).user = u \/ \E i \in 1..Len(Tail(q)) : Tail(q)[i].user = u
  <2>1. ASSUME NEW i \in 1..Len(q), q[i].user = u, Head(q).user # u
        PROVE  \E k \in 1..Len(Tail(q)) : Tail(q)[k].user = u
    <3>1. i # 1
      BY <1>1, <2>1
    <3>2. i - 1 \in 1..Len(Tail(q)) /\ Tail(q)[i - 1].user = u
      BY <1>2, <2>1, <3>1
    <3> QED
      BY <3>2
  <2>2. ASSUME NEW i \in 1..Len(Tail(q)), Tail(q)[i].user = u
        PROVE  \E k \in 1..Len(q) : q[k].user = u
    <3>1. i + 1 \in 1..Len(q) /\ q[i + 1].user = u
      BY <1>1, <2>2
    <3> QED
      BY <3>1
  <2>3. Head(q).user = u => \E k \in 1..Len(q) : q[k].user = u
    <3>1. 1 \in 1..Len(q) /\ Head(q) = q[1]
      BY <1>1
    <3> QED
      BY <3>1
  <2> QED
    BY <2>1, <2>2, <2>3
<1>4. ASSUME NEW u, Head(q).user = u, \A i \in 1..Len(Tail(q)) : Tail(q)[i].user # u
      PROVE  Newest(u, q, 1)
  <2>1. 1 \in 1..Len(q) /\ q[1].user = u
    BY <1>1, <1>4
  <2>2. ASSUME NEW k \in 1..Len(q), k > 1
        PROVE  q[k].user # u
    <3>1. k - 1 \in 1..Len(Tail(q)) /\ Tail(q)[k - 1] = q[k]
      BY <1>2, <2>2
    <3> QED
      BY <1>4, <3>1
  <2> QED
    BY <2>1, <2>2 DEF Newest
<1>5. ASSUME NEW u, NEW i \in Nat, Newest(u, Tail(q), i)
      PROVE  Newest(u, q, i + 1) /\ Tail(q)[i] = q[i + 1]
  <2>1. i \in 1..Len(Tail(q)) /\ Tail(q)[i] = q[i + 1] /\ i + 1 \in 1..Len(q)
    BY <1>1, <1>5 DEF Newest
  <2>2. ASSUME NEW k \in 1..Len(q), k > i + 1
        PROVE  q[k].user # u
    <3>1. k - 1 \in 1..Len(Tail(q)) /\ Tail(q)[k - 1] = q[k] /\ k - 1 > i
      BY <1>2, <2>1, <2>2
    <3> QED
      BY <1>5, <3>1 DEF Newest
  <2> QED
    BY <1>5, <2>1, <2>2 DEF Newest
<1>6. 1 \in 1..Len(q)
  BY <1>1
<1> QED
  BY <1>1, <1>3, <1>4, <1>5, <1>6

LEMMA DeliverKeeps ==
  ASSUME PresenceTypes, HostFits, CountInv, NEW c \in Channels, Deliver(c)
  PROVE  CountInv'
<1> USE DEF CountInv
<1> DEFINE v == Head(relay[c]).user
           n == Head(relay[c]).count
<1>1. CountTypes /\ relay[c] # <<>> /\ relay[c] \in Seq(Told)
  BY DEF Deliver, CountTypes
<1>2. /\ badge' = [s \in Sockets |->
           IF s \in SocketsAt(c[2], v) /\ link[s] = "joined" THEN n ELSE badge[s]]
      /\ muddled' = IF \A s \in SocketsAt(c[2], v) : link[s] = "joined"
                      THEN muddled ELSE muddled \cup {v}
      /\ relay' = [relay EXCEPT ![c] = Tail(relay[c])]
      /\ counter' = counter /\ handler' = handler
      /\ link' = link /\ host' = host /\ dead' = dead
  BY DEF Deliver, presenceVars
<1>3. /\ n \in Nat /\ Head(relay[c]) \in Told /\ Tail(relay[c]) \in Seq(Told)
      /\ relay'[c] = Tail(relay[c]) /\ \A d \in Channels \ {c} : relay'[d] = relay[d]
      /\ relay[c][1].count = n
  BY <1>1, <1>2, HeadMoves DEF CountTypes, Told
<1>4. /\ \A u : UnderWay(u, c) <=> v = u \/ UnderWay(u, c)'
      /\ \A u : v = u /\ ~UnderWay(u, c)' => Newest(u, relay[c], 1)
      /\ \A u : \A i \in Nat : Newest(u, relay'[c], i)
           => Newest(u, relay[c], i + 1) /\ relay'[c][i] = relay[c][i + 1]
  <2> DEFINE q == relay[c]
  <2>1. /\ \A u : (\E i \in 1..Len(q) : q[i].user = u) <=>
                   Head(q).user = u \/ \E i \in 1..Len(Tail(q)) : Tail(q)[i].user = u
        /\ \A u : Head(q).user = u /\ (\A i \in 1..Len(Tail(q)) : Tail(q)[i].user # u)
                  => Newest(u, q, 1)
        /\ \A u : \A i \in Nat : Newest(u, Tail(q), i)
             => Newest(u, q, i + 1) /\ Tail(q)[i] = q[i + 1]
    BY <1>1, HeadMoves, Zenon
  <2>2. relay'[c] = Tail(q)
    BY <1>3
  <2> QED
    BY <2>1, <2>2, Zenon DEF UnderWay
<1> HIDE DEF v, n
<1>5. \A u : \A d \in Channels : d # c => (UnderWay(u, d)' <=> UnderWay(u, d))
  BY <1>3 DEF UnderWay
<1>6. \A u : Changing(u)' <=> Changing(u)
  BY <1>2 DEF Changing
<1>7. CountTypes'
  BY <1>1, <1>2, <1>3 DEF CountTypes
<1>8. EventFits' /\ SoleIsAlone' /\ SoleIsFresh'
  BY <1>2 DEF EventFits, SoleIsAlone, SoleIsFresh
<1>9. NewHasNoBadge'
  BY <1>2 DEF NewHasNoBadge
<1>10. NoRelayHome'
  BY <1>1, <1>3 DEF NoRelayHome, Channels
<1>11. RelayedByOne'
  BY <1>2, <1>4, <1>5 DEF RelayedByOne
<1>12. RelayIsFresh'
  <2>1. ASSUME NEW u \in Users \ muddled', NEW d \in Channels, NEW i \in Nat,
               d[2] \notin dead, ~Changing(u), Newest(u, relay'[d], i)
        PROVE  relay'[d][i].count = counter[u]
    <3>1. u \notin muddled
      BY <1>2, <2>1
    <3>2. CASE d # c
      BY <1>3, <2>1, <3>1, <3>2 DEF RelayIsFresh
    <3>3. CASE d = c
      <4>1. Newest(u, relay[c], i + 1) /\ relay'[c][i] = relay[c][i + 1] /\ i + 1 \in Nat
        BY <1>4, <2>1, <3>3
      <4> QED
        BY <2>1, <3>1, <3>3, <4>1 DEF RelayIsFresh
    <3> QED
      BY <3>2, <3>3
  <2>2. counter' = counter /\ dead' = dead
    BY <1>2
  <2> QED
    BY <1>6, <2>1, <2>2 DEF RelayIsFresh
<1>13. BadgesFit'
  <2>1. ASSUME NEW x \in Sockets, Connected(x), badge'[x] # None, Owner[x] \notin muddled',
               ~Changing(Owner[x]), \A d \in Channels : d[2] = host[x] => ~UnderWay(Owner[x], d)'
        PROVE  badge'[x] = counter[Owner[x]]
    <3>1. Owner[x] \notin muddled /\ host[x] \notin dead /\ host[x] \in Processes
      BY <1>2, <2>1 DEF HostFits, Connected
    <3>2. CASE Owner[x] = v /\ host[x] = c[2]
      <4>1. x \in SocketsAt(c[2], v)
        BY <2>1, <3>2 DEF SocketsAt, SocketsOf
      <4>2. badge'[x] = n
        BY <1>2, <2>1, <3>2, <4>1
      <4>3. Newest(v, relay[c], 1)
        BY <1>4, <2>1, <3>2
      <4>4. relay[c][1].count = counter[v]
        BY <2>1, <3>1, <3>2, <4>3, GatewayAssumption DEF RelayIsFresh
      <4> QED
        BY <1>3, <3>2, <4>2, <4>4
    <3>3. CASE ~(Owner[x] = v /\ host[x] = c[2])
      <4>1. badge'[x] = badge[x]
        BY <1>2, <3>3 DEF SocketsAt, SocketsOf
      <4>2. ASSUME NEW q \in Processes
            PROVE  ~UnderWay(Owner[x], <<q, host[x]>>)
        <5>1. PICK d \in Channels : d = <<q, host[x]>>
          BY <3>1 DEF Channels
        <5>2. ~UnderWay(Owner[x], d)
          BY <1>4, <1>5, <2>1, <3>3, <5>1
        <5> QED
          BY <5>1, <5>2
      <4> QED
        BY <2>1, <3>1, <4>1, <4>2 DEF BadgesFit
    <3> QED
      BY <3>2, <3>3
  <2>2. ASSUME NEW x \in Sockets, NEW d \in Channels, d[2] = host[x],
               \A p \in Processes : ~UnderWay(Owner[x], <<p, host[x]>>)'
        PROVE  ~UnderWay(Owner[x], d)'
    <3>1. d[1] \in Processes /\ d = <<d[1], host[x]>> /\ host' = host
      BY <1>2, <2>2 DEF Channels
    <3> QED
      BY <2>2, <3>1 DEF UnderWay
  <2>3. counter' = counter /\ \A x \in Sockets : Connected(x)' <=> Connected(x)
    BY <1>2 DEF Connected
  <2> QED
    BY <1>6, <2>1, <2>2, <2>3 DEF BadgesFit
<1> QED
  BY <1>7, <1>8, <1>9, <1>10, <1>11, <1>12, <1>13

LEMMA LoseKeeps ==
  ASSUME PresenceTypes, HostFits, CountInv, NEW c \in Channels, Lose(c)
  PROVE  CountInv'
<1> USE DEF CountInv
<1>1. CountTypes
  OBVIOUS
<1>2. /\ muddled' = muddled \cup {u \in Users : UnderWay(u, c)}
      /\ relay' = [relay EXCEPT ![c] = <<>>]
      /\ counter' = counter /\ badge' = badge /\ handler' = handler
      /\ link' = link /\ host' = host /\ dead' = dead
  BY DEF Lose, presenceVars
<1>3. relay'[c] = <<>> /\ \A d \in Channels \ {c} : relay'[d] = relay[d]
  BY <1>1, <1>2 DEF CountTypes
<1>4. \A u : \A d \in Channels : UnderWay(u, d)' <=> d # c /\ UnderWay(u, d)
  BY <1>3 DEF UnderWay
<1>5. \A u : Changing(u)' <=> Changing(u)
  BY <1>2 DEF Changing
<1>6. CountTypes'
  BY <1>1, <1>2 DEF CountTypes
<1>7. EventFits' /\ SoleIsAlone' /\ SoleIsFresh' /\ NewHasNoBadge'
  BY <1>2 DEF EventFits, SoleIsAlone, SoleIsFresh, NewHasNoBadge
<1>8. NoRelayHome'
  BY <1>3 DEF NoRelayHome, Channels
<1>9. RelayedByOne'
  BY <1>2, <1>4 DEF RelayedByOne
<1>10. RelayIsFresh'
  <2>1. ASSUME NEW u \in Users \ muddled', NEW d \in Channels, NEW i \in Nat,
               d[2] \notin dead, ~Changing(u), Newest(u, relay'[d], i)
        PROVE  relay'[d][i].count = counter[u]
    <3>1. d # c /\ u \notin muddled
      BY <1>2, <1>3, <2>1 DEF Newest
    <3> QED
      BY <1>3, <2>1, <3>1 DEF RelayIsFresh
  <2>2. counter' = counter /\ dead' = dead
    BY <1>2
  <2> QED
    BY <1>5, <2>1, <2>2 DEF RelayIsFresh
<1>11. BadgesFit'
  <2>1. ASSUME NEW x \in Sockets, Connected(x), badge[x] # None, Owner[x] \notin muddled',
               ~Changing(Owner[x]), \A d \in Channels : d[2] = host[x] => ~UnderWay(Owner[x], d)'
        PROVE  badge[x] = counter[Owner[x]]
    <3>1. Owner[x] \notin muddled /\ host[x] \in Processes /\ ~UnderWay(Owner[x], c)
      BY <1>2, <2>1, GatewayAssumption DEF HostFits, Connected
    <3>2. ASSUME NEW q \in Processes
          PROVE  ~UnderWay(Owner[x], <<q, host[x]>>)
      <4>1. PICK d \in Channels : d = <<q, host[x]>>
        BY <3>1 DEF Channels
      <4>2. ~UnderWay(Owner[x], d)
        BY <1>4, <2>1, <3>1, <4>1
      <4> QED
        BY <4>1, <4>2
    <3> QED
      BY <2>1, <3>1, <3>2 DEF BadgesFit
  <2>2. ASSUME NEW x \in Sockets, NEW d \in Channels, d[2] = host[x],
               \A p \in Processes : ~UnderWay(Owner[x], <<p, host[x]>>)'
        PROVE  ~UnderWay(Owner[x], d)'
    <3>1. d[1] \in Processes /\ d = <<d[1], host[x]>> /\ host' = host
      BY <1>2, <2>2 DEF Channels
    <3> QED
      BY <2>2, <3>1 DEF UnderWay
  <2>3. counter' = counter /\ badge' = badge /\ \A x \in Sockets : Connected(x)' <=> Connected(x)
    BY <1>2 DEF Connected
  <2> QED
    BY <1>5, <2>1, <2>2, <2>3 DEF BadgesFit
<1> QED
  BY <1>6, <1>7, <1>8, <1>9, <1>10, <1>11

-----------------------------------------------------------------------------
GatewayInv == PresenceInv /\ CountInv

LEMMA GatewayStarts == Init => GatewayInv
<1> SUFFICES ASSUME Init PROVE GatewayInv
  OBVIOUS
<1>1. \A s \in Sockets : link[s] = "new" /\ ~Connected(s) /\ badge[s] = None /\ host[s] = None
  BY DEF Init, Connected
<1>2. \A p \in Processes : queue[p] = <<>>
  BY DEF Init
<1>3. \A h \in Handlers : handler[h] = Idle
  BY DEF Init
<1>4. online = {} /\ muddled = {}
  BY DEF Init
<1>5. PresenceTypes
  BY DEF Init, PresenceTypes, Links
<1>6. \A p \in Processes, k \in Nat, d \in {"sadd", "srem"}, s \in Sockets : ~At(queue[p], k, d, s)
  BY <1>2 DEF At
<1>7. PresenceInv
  BY <1>1, <1>4, <1>5, <1>6 DEF PresenceInv, HostFits, CommandsFit, OnlineHasReason,
    RemovalFollows, TogetherNoted, RemovalKnown, ConnectedIsShown
<1>8. CountTypes
  BY EventShapes DEF Init, CountTypes, Channels
<1>9. EventFits /\ NewHasNoBadge /\ SoleIsAlone /\ SoleIsFresh /\ BadgesFit
  BY <1>1, <1>3, EventShapes DEF EventFits, NewHasNoBadge, SoleIsAlone, SoleIsFresh, BadgesFit
<1>10. NoRelayHome /\ RelayedByOne /\ RelayIsFresh
  <2>1. \A c \in Channels : relay[c] = <<>>
    BY DEF Init, Channels
  <2> QED
    BY <2>1 DEF NoRelayHome, RelayedByOne, RelayIsFresh, UnderWay, Newest, Channels
<1> QED
  BY <1>7, <1>8, <1>9, <1>10 DEF GatewayInv, CountInv

(* A step of a handler leaves the presence alone. *)
LEMMA EventStepKeepsPresence ==
  ASSUME PresenceInv, UNCHANGED presenceVars
  PROVE  PresenceInv'
<1>1. /\ online' = online /\ queue' = queue /\ link' = link
      /\ host' = host /\ dead' = dead /\ together' = together
  BY DEF presenceVars
<1>2. \A s, t \in Sockets : (Connected(s)' <=> Connected(s)) /\ (Hides(t, s)' <=> Hides(t, s))
  BY <1>1 DEF Connected, Hides
<1>3. PresenceTypes' /\ HostFits' /\ CommandsFit'
  BY <1>1, <1>2 DEF PresenceInv, PresenceTypes, HostFits, CommandsFit
<1>4. OnlineHasReason' /\ RemovalFollows' /\ TogetherNoted' /\ RemovalKnown'
  BY <1>1, <1>2 DEF PresenceInv, OnlineHasReason, SocketsOf, RemovalFollows, TogetherNoted, RemovalKnown
<1>5. ConnectedIsShown'
  BY <1>1, <1>2 DEF PresenceInv, ConnectedIsShown
<1> QED
  BY <1>3, <1>4, <1>5 DEF PresenceInv

LEMMA GatewayStepKeeps == GatewayInv /\ [Next]_gatewayVars => GatewayInv'
<1> SUFFICES ASSUME GatewayInv, [Next]_gatewayVars PROVE GatewayInv'
  OBVIOUS
<1> USE DEF GatewayInv
<1>1. PresenceTypes /\ HostFits
  BY DEF PresenceInv
<1>2. ASSUME NEW s \in Sockets, NEW p \in Processes, Connect(s, p)
      PROVE  GatewayInv'
  <2>1. /\ link' = [link EXCEPT ![s] = "connected"] /\ link[s] = "new" /\ UNCHANGED countVars
        /\ host' = [host EXCEPT ![s] = p] /\ dead' = dead
    BY <1>2 DEF Connect
  <2>2. \A t \in Sockets : /\ Connected(t)' => Connected(t) \/ link[t] = "new"
                           /\ link[t] # "new" => host'[t] = host[t]
                           /\ link'[t] = "new" => link[t] = "new"
    BY <1>1, <2>1 DEF PresenceTypes, Connected
  <2> QED
    BY <1>2, <2>1, <2>2, ConnectKeeps, PresenceStepKeepsCounts
<1>3. ASSUME NEW s \in Sockets, Join(s) \/ Disconnect(s)
      PROVE  GatewayInv'
  <2>1. \E l \in {"joined", "gone"} : link' = [link EXCEPT ![s] = l] /\ (Connected(s) \/ l = "gone")
    BY <1>3 DEF Join, Disconnect, Connected
  <2>2. UNCHANGED countVars /\ host' = host /\ dead' = dead
    BY <1>3 DEF Join, Disconnect
  <2>3. \A t \in Sockets : /\ Connected(t)' => Connected(t) \/ link[t] = "new"
                           /\ link'[t] = "new" => link[t] = "new"
    BY <1>1, <2>1 DEF PresenceTypes, Connected
  <2> QED
    BY <1>3, <2>2, <2>3, JoinKeeps, DisconnectKeeps, PresenceStepKeepsCounts
<1>4. ASSUME NEW p \in Processes, Redis(p)
      PROVE  GatewayInv'
  <2>1. link' = link \/ \E s \in Sockets : link[s] = "connected" /\ link' = [link EXCEPT ![s] = "added"]
    BY <1>1, <1>4, AtHead DEF Redis, Execute, PresenceTypes
  <2>2. UNCHANGED countVars /\ host' = host /\ dead' = dead
    BY <1>4 DEF Redis
  <2>3. \A t \in Sockets : /\ Connected(t)' => Connected(t) \/ link[t] = "new"
                           /\ link'[t] = "new" => link[t] = "new"
    BY <1>1, <2>1 DEF PresenceTypes, Connected
  <2> QED
    BY <1>4, <2>2, <2>3, RedisKeeps, PresenceStepKeepsCounts
<1>5. ASSUME NEW p \in Processes, Die(p)
      PROVE  GatewayInv'
  BY <1>1, <1>5, DieKeeps, DieKeepsCounts
<1>6. ASSUME NEW h \in Handlers, NEW s \in Sockets,
             SendMessage(h, s) \/ JoinRoom(h, s) \/ GetUnreadCount(h, s)
      PROVE  GatewayInv'
  <2>1. UNCHANGED presenceVars
    BY <1>6 DEF SendMessage, JoinRoom, GetUnreadCount, Begin
  <2> QED
    BY <1>6, <2>1, EventsKeep, EventStepKeepsPresence
<1>7. ASSUME NEW h \in Handlers, NEW u \in Users, ReadCount(h, u) \/ Rest(h, u)
      PROVE  GatewayInv'
  <2>1. UNCHANGED presenceVars
    BY <1>7 DEF ReadCount, Rest
  <2> QED
    BY <1>7, <2>1, ReadCountKeeps, RestKeeps, EventStepKeepsPresence
<1>8. ASSUME NEW h \in Handlers, Emit(h) \/ Fail(h)
      PROVE  GatewayInv'
  <2>1. UNCHANGED presenceVars
    BY <1>8 DEF Emit, Fail
  <2> QED
    BY <1>1, <1>8, <2>1, EmitKeeps, FailKeeps, EventStepKeepsPresence
<1>9. ASSUME UNCHANGED gatewayVars
      PROVE  GatewayInv'
  <2>1. UNCHANGED presenceVars /\ UNCHANGED countVars /\ host' = host /\ dead' = dead
    BY <1>9 DEF gatewayVars, presenceVars
  <2>2. \A t \in Sockets : /\ Connected(t)' => Connected(t) \/ link[t] = "new"
                           /\ link'[t] = "new" => link[t] = "new"
    BY <2>1 DEF presenceVars, Connected
  <2> QED
    BY <2>1, <2>2, EventStepKeepsPresence, PresenceStepKeepsCounts
<1>10. ASSUME NEW c \in Channels, Deliver(c) \/ Lose(c)
       PROVE  GatewayInv'
  <2>1. UNCHANGED presenceVars
    BY <1>10 DEF Deliver, Lose
  <2> QED
    BY <1>1, <1>10, <2>1, DeliverKeeps, LoseKeeps, EventStepKeepsPresence
<1> QED
  BY <1>2, <1>3, <1>4, <1>5, <1>6, <1>7, <1>8, <1>9, <1>10 DEF Next

(* What holds throughout of connections, commands and counts. *)
THEOREM GatewayInvariant == Spec => []GatewayInv
BY GatewayStarts, GatewayStepKeeps, PTL DEF Spec

(* Redis has executed what it was sent: no command is left. *)
LEMMA SettledHasNoCommand ==
  ASSUME PresenceInv, Settled
  PROVE  \A s \in Sockets, k \in Nat, d \in {"sadd", "srem"} :
           link[s] # "new" => ~At(queue[host[s]], k, d, s)
BY DEF PresenceInv, HostFits, Settled, At

(* handleConnection and handleDisconnect leave nobody online without a      *)
(* socket, unless a process died.                                           *)
THEOREM NobodyIsAGhost == Spec => []NoGhosts
<1>1. GatewayInv => NoGhosts
  <2> SUFFICES ASSUME GatewayInv, NEW u \in online, Settled
               PROVE  \E s \in SocketsOf(u) : Connected(s) \/ host[s] \in dead
    BY DEF NoGhosts
  <2>1. PICK s \in SocketsOf(u) : /\ link[s] # "new"
                                  /\ \/ Connected(s)
                                     \/ host[s] \in dead
                                     \/ \E k \in Nat : At(queue[host[s]], k, "srem", s)
    BY DEF GatewayInv, PresenceInv, OnlineHasReason
  <2>2. s \in Sockets /\ PresenceInv
    BY DEF GatewayInv, SocketsOf
  <2> QED
    BY <2>1, <2>2, SettledHasNoCommand
<1> QED
  BY <1>1, GatewayInvariant, PTL

(* Whoever is connected and not shown online has had another socket that    *)
(* handleDisconnect removed: the removal of one user hides all sockets.     *)
THEOREM OnlyOtherSocketsHide == Spec => []HiddenByOtherSocket
<1>1. GatewayInv => HiddenByOtherSocket
  <2> SUFFICES ASSUME GatewayInv, NEW s \in Sockets, Settled, Connected(s), Owner[s] \notin online
               PROVE  \E t \in SocketsOf(Owner[s]) \ {s} :
                        /\ link[t] \in {"gone", "lost"}
                        /\ {s, t} \in together \/ host[t] # host[s]
    BY DEF HiddenByOtherSocket
  <2>1. link[s] # "new" /\ PresenceInv
    BY DEF GatewayInv, Connected
  <2>2. \E t \in Sockets : Hides(t, s)
    BY <2>1, SettledHasNoCommand DEF PresenceInv, ConnectedIsShown
  <2> QED
    BY <2>2 DEF Hides
<1> QED
  BY <1>1, GatewayInvariant, PTL

(* pushUnreadCount leaves every client of a user with the count as it is,   *)
(* when no push raced another, a REST route, or a connection.               *)
THEOREM BadgesAreOrderly == Spec => []OrderlyBadge
<1>1. GatewayInv => OrderlyBadge
  BY DEF GatewayInv, CountInv, BadgesFit, Changing, OrderlyBadge, Connected
<1> QED
  BY <1>1, GatewayInvariant, PTL
=============================================================================
