--------------------------------- MODULE Sync ---------------------------------
(***************************************************************************)
(* Offline devices that pull what changed since their cursor and push the  *)
(* messages that were written meanwhile, on top of the chat service.       *)
(*                                                                         *)
(* A cursor is a point in time.  What matters of it is what is newer:      *)
(* newMessages[u] and newRooms[u] are dated after the cursor of u's        *)
(* device.  A message is dated by the process that creates it, before the  *)
(* insert reaches the database; a room is dated by the step that writes it. *)
(***************************************************************************)
EXTENDS Chat

CONSTANTS
  Devices,    \* the users that synchronise, one device each
  Pushes,     \* push requests, each used at most once
  BatchSize   \* how many messages a device wrote offline

ASSUME SyncAssumption ==
  /\ Devices \subseteq Users
  /\ BatchSize \in Nat \ {0}
  /\ None \notin Requests \cup (Users \X Nat)

VARIABLES
  newMessages,  \* messages dated after the cursor
  newRooms,     \* rooms updated after the cursor
  held,         \* messages that pulls gave to the device
  pull,         \* the pull in progress of each device
  push,         \* the push requests
  unsynced,     \* the devices that do not know their batch to be pushed
  origin,       \* history: whose and which message of a batch a request stores
  late          \* history: <<u, r>>: a pull of u passed r over that was not stored when it began

pullVars == <<newMessages, newRooms, held, pull, late>>
pushVars == <<push, unsynced, origin>>
syncVars == <<chatVars, pullVars, pushVars>>

NoPull == [at |-> "idle", ids |-> {}, messages |-> {}, before |-> {}]
NoPush == [at |-> "idle", user |-> None, room |-> None, next |-> 1, current |-> None]

(* The room of a conversation is open already, or it is not. *)
SyncInit ==
  /\ \/ Init
     \/ \E i \in Rooms, c \in Conversations :
          InitWith([k \in Rooms |-> IF k = i THEN c ELSE None])
  /\ newMessages = [u \in Devices |-> {}]
  /\ newRooms = [u \in Devices |-> {i \in Rooms : room[i] # NoRoom}]
  /\ held = [u \in Devices |-> {}]
  /\ pull = [u \in Devices |-> NoPull]
  /\ late = {}
  /\ push = [p \in Pushes |-> NoPush]
  /\ unsynced \in SUBSET Devices
  /\ origin = [r \in Requests |-> None]

-----------------------------------------------------------------------------
(* What a step of the chat service does to the dates: createMessage dates   *)
(* the message when its checks are over; every write of a room dates it,    *)
(* and so does every save of a copy that is not stale.                      *)
Dates(r) ==
  /\ newMessages' = [u \in Devices |->
       IF pc[r] = "findMembers" /\ pc'[r] = "insertMessage"
         THEN newMessages[u] \cup {r} ELSE newMessages[u]]
  /\ newRooms' = [u \in Devices |-> newRooms[u] \cup
       {i \in Rooms : \/ room[i] = NoRoom /\ room'[i] # NoRoom
                      \/ pc[r] = "countMessage" /\ call[r].of = i
                      \/ /\ pc[r] \in {"saveCounter", "saveAgain"}
                         /\ call[r].of = i /\ r \notin stale}]

ChatStep == \E r \in Requests :
  /\ \/ \E u \in Users, c \in Conversations : "open" \in Ops /\ Open(r, u, c)
     \/ \E u \in Users \ Devices, op \in Ops \ {"open"}, i \in Rooms : Ask(r, op, u, i)
     \/ Handle(r)
  /\ Dates(r)
  /\ UNCHANGED <<held, pull, late, pushVars>>

ChatStops == \E r \in Requests : Stop(r) /\ UNCHANGED <<pullVars, pushVars>>

-----------------------------------------------------------------------------
Counted(i) == \E u \in Users : room[i].unread[u] # None

(* A device synchronises in turns: it does not pull while it pushes.  *)
Pushing(u) == \E p \in Pushes : push[p].user = u /\ push[p].at = "running"

(* getChanges finds the rooms of the user that changed since the cursor.    *)
(* They are lean: a plain object, which has no get, stands under the        *)
(* unreadCounts of a room with counters, and turning it into a record will  *)
(* throw in the end.  Whether an object stands there before the first       *)
(* counter is up to Mongoose.  A pull that is going to throw changes        *)
(* nothing and is no action.                                                *)
PullRooms(u) ==
  /\ pull[u] = NoPull
  /\ ~Pushing(u)
  /\ \A i \in newRooms[u] : u \in Members(i) => ~Counted(i)
  /\ pull' = [pull EXCEPT ![u] = [at |-> "ids", ids |-> {}, messages |-> {}, before |-> Sent]]
  /\ UNCHANGED <<chatVars, newMessages, newRooms, held, late, pushVars>>

(* The ids of all rooms of the user, ... *)
PullRoomIds(u) ==
  /\ pull[u].at = "ids"
  /\ pull' = [pull EXCEPT ![u].at = "messages", ![u].ids = {i \in Rooms : u \in Members(i)}]
  /\ UNCHANGED <<chatVars, newMessages, newRooms, held, late, pushVars>>

PullMessagesUnread(u) ==    \* mutant: messages that the user has read are left out
  /\ pull[u].at = "messages"
  /\ pull' = [pull EXCEPT ![u].at = "answer",
       ![u].messages = {r \in Sent \cap newMessages[u] : message[r].room \in pull[u].ids
                                                         /\ u \notin message[r].readBy}]
  /\ UNCHANGED <<chatVars, newMessages, newRooms, held, late, pushVars>>

(* ... and the messages in them that are dated after the cursor. *)
PullMessages(u) ==
  /\ pull[u].at = "messages"
  /\ pull' = [pull EXCEPT ![u].at = "answer",
       ![u].messages = {r \in Sent \cap newMessages[u] : message[r].room \in pull[u].ids}]
  /\ UNCHANGED <<chatVars, newMessages, newRooms, held, late, pushVars>>

(* pullChanges returns the time after all this, which becomes the cursor:   *)
(* nothing that exists, or is dated and about to be stored, is newer.       *)
PullReturns(u) ==
  /\ pull[u].at = "answer"
  /\ held' = [held EXCEPT ![u] = @ \cup pull[u].messages]
  /\ newMessages' = [newMessages EXCEPT ![u] = {}]
  /\ newRooms' = [newRooms EXCEPT ![u] = {}]
  /\ late' = late \cup ({u} \X (newMessages[u] \ (pull[u].messages \cup pull[u].before)))
  /\ pull' = [pull EXCEPT ![u] = NoPull]
  /\ UNCHANGED <<chatVars, pushVars>>

(* The process dies, or the answer is lost: the device keeps its cursor and *)
(* will ask again from there.                                               *)
PullFails(u) ==
  /\ pull[u] # NoPull
  /\ pull' = [pull EXCEPT ![u] = NoPull]
  /\ UNCHANGED <<chatVars, newMessages, newRooms, held, late, pushVars>>

-----------------------------------------------------------------------------
(* A device pushes its batch, to a room that it knows or believes to exist, *)
(* until it is told of a success; it may repeat a push that still runs.     *)
(* What its owner sends comes from the device, so from pushes.              *)
PushStart(p, u, i) ==
  /\ push[p] = NoPush
  /\ u \in unsynced
  /\ pull[u] = NoPull
  /\ \A q \in Pushes : push[q].user = u => push[q].room = i
  /\ push' = [push EXCEPT ![p] = [at |-> "running", user |-> u, room |-> i,
                                  next |-> 1, current |-> None]]
  /\ UNCHANGED <<chatVars, pullVars, unsynced, origin>>

(* applyChanges: one createMessage for each message of the batch, ... *)
PushNext(p, r) ==
  /\ push[p].at = "running"
  /\ push[p].current = None
  /\ push[p].next <= BatchSize
  /\ Ask(r, "send", push[p].user, push[p].room)
  /\ push' = [push EXCEPT ![p].current = r]
  /\ origin' = [origin EXCEPT ![r] = <<push[p].user, push[p].next>>]
  /\ UNCHANGED <<pullVars, unsynced>>

PushAwaitHeedless(p) ==     \* mutant: an error of createMessage is logged and the loop goes on
  /\ push[p].current # None
  /\ pc[push[p].current] \in {"returned", "threw"}
  /\ push' = [push EXCEPT ![p].current = None, ![p].next = @ + 1]
  /\ UNCHANGED <<chatVars, pullVars, unsynced, origin>>

PushAwaitNot(p) ==          \* mutant: the loop does not await createMessage
  /\ push[p].current # None
  /\ push' = [push EXCEPT ![p].current = None, ![p].next = @ + 1]
  /\ UNCHANGED <<chatVars, pullVars, unsynced, origin>>

(* ... each after the one before it has returned. *)
PushAwait(p) ==
  /\ push[p].current # None
  /\ pc[push[p].current] = "returned"
  /\ push' = [push EXCEPT ![p].current = None, ![p].next = @ + 1]
  /\ UNCHANGED <<chatVars, pullVars, unsynced, origin>>

(* The device learns of the success. *)
PushReturns(p) ==
  /\ push[p].at = "running"
  /\ push[p].next > BatchSize
  /\ push' = [push EXCEPT ![p].at = "done"]
  /\ unsynced' = unsynced \ {push[p].user}
  /\ UNCHANGED <<chatVars, pullVars, origin>>

(* createMessage threw, the process died with it or between two of them, or *)
(* the answer is lost.                                                      *)
PushFails(p) ==
  /\ push[p].at = "running"
  /\ push[p].current # None =>
       pc[push[p].current] = "threw" \/ push[p].current \in stopped
  /\ push' = [push EXCEPT ![p].at = "failed", ![p].current = None]
  /\ UNCHANGED <<chatVars, pullVars, unsynced, origin>>

SyncNext ==
  \/ ChatStep
  \/ ChatStops
  \/ \E u \in Devices : \/ PullRooms(u) \/ PullRoomIds(u) \/ PullMessages(u)
                        \/ PullReturns(u) \/ PullFails(u)
  \/ \E p \in Pushes : \/ \E u \in Devices, i \in Rooms : PushStart(p, u, i)
                       \/ \E r \in Requests : PushNext(p, r)
                       \/ PushAwait(p) \/ PushReturns(p) \/ PushFails(p)

SyncSpec == SyncInit /\ [][SyncNext]_syncVars

-----------------------------------------------------------------------------
(* The time that a pull returns is taken after its queries, so a message    *)
(* stored meanwhile is older than the cursor and is never pulled.  Nothing  *)
(* else is missed: a message older than the cursor is on the device unless  *)
(* it was not yet stored when a pull began.                                 *)
OrderlyPulls == \A u \in Devices : \A s \in Sent :
  u \in Members(message[s].room) /\ s \notin newMessages[u] \cup held[u] => <<u, s>> \in late

Copies(u, n) == {s \in Sent : origin[s] = <<u, n>>}

(* A push that is repeated stores its messages again, but in order: each    *)
(* message of a batch has an older copy of the one before it, and no push   *)
(* stores a message twice.                                                  *)
PushedInOrder == \A u \in Devices : \A n \in 1..BatchSize :
  /\ Cardinality(Copies(u, n)) <= Cardinality({p \in Pushes : push[p].user = u})
  /\ n > 1 => \A s \in Copies(u, n) : \E t \in Copies(u, n - 1) : message[t].at < message[s].at

(* A device that was told of a success has every message of its batch       *)
(* stored and counted for the others: no failure half-way passes for one.   *)
PushedIsStored == \A p \in Pushes : push[p].at = "done" =>
  \A n \in 1..BatchSize : \E s \in Copies(push[p].user, n) : pc[s] = "returned"
=============================================================================
