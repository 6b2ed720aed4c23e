-------------------------------- MODULE Chat --------------------------------
(***************************************************************************)
(* ChatService: rooms, messages and the unread counters of their members.  *)
(*                                                                         *)
(* A message is stored by one database operation and counted by another,   *)
(* and reading a room marks its messages by one operation and clears the   *)
(* reader's counter by others: requests interleave between any two of      *)
(* them, and any of them may stop there for good.                          *)
(***************************************************************************)
EXTENDS Integers, FiniteSets

CONSTANTS
  Users,
  Conversations,  \* what a room is opened for: a task and the people who talk about it
  Rooms,          \* room ids (a bound on how many rooms are created)
  Requests,       \* service calls, each used at most once; a message has its sender's call as id
  Ops,            \* the calls that clients make (a bound)
  None            \* an absent value

(* A request to open a room for fewer than two people is refused at once. *)
ASSUME ChatAssumption ==
  /\ \A c \in Conversations : c.members \subseteq Users /\ Cardinality(c.members) >= 2
  /\ Ops \subseteq {"open", "send", "read"}
  /\ None \notin Users \cup Rooms \cup Conversations \cup Int

VARIABLES
  room,      \* the room documents by id
  message,   \* the message documents by the call that sent them
  pc,        \* the next step of each request
  call,      \* the arguments of each request
  found,     \* the counter that a reading request found
  stale,     \* the requests whose copy of the room has an older version than the room
  stopped,   \* the requests that stopped half-way
  overlaps   \* history: the pairs of requests on one room that ran at the same time

docs     == <<room, message>>
chatVars == <<room, message, pc, call, found, stale, stopped, overlaps>>

NoRoom    == [conversation |-> None, unread |-> [u \in Users |-> None], lastMessageAt |-> 0]
NoMessage == [room |-> None, sender |-> None, readBy |-> {}, at |-> 0]

Count(n) == IF n = None THEN 0 ELSE n

Labels == {"idle", "findRoom", "findTask", "insertRoom", "findMembers", "insertMessage",
           "countMessage", "readMessages", "findCounter", "saveCounter", "saveAgain",
           "returned", "threw"}

(* The rooms of `opened' exist, nothing was sent and nothing runs. *)
InitWith(opened) ==
  /\ room     = [i \in Rooms |-> [NoRoom EXCEPT !.conversation = opened[i]]]
  /\ message  = [r \in Requests |-> NoMessage]
  /\ pc       = [r \in Requests |-> "idle"]
  /\ call     = [r \in Requests |-> None]
  /\ found    = [r \in Requests |-> None]
  /\ stale    = {}
  /\ stopped  = {}
  /\ overlaps = {}

Init == InitWith([i \in Rooms |-> None])

Ready(r, label) == pc[r] = label /\ r \notin stopped

Goto(r, label) == pc' = [pc EXCEPT ![r] = label]

Running == {r \in Requests : pc[r] \notin {"idle", "returned", "threw"} /\ r \notin stopped}

Members(i) == IF room[i] = NoRoom THEN {} ELSE room[i].conversation.members

Sent == {r \in Requests : message[r] # NoMessage}

-----------------------------------------------------------------------------
(* A client asks for the room of a conversation that it takes part in, *)
Open(r, u, c) ==
  /\ Ready(r, "idle")
  /\ u \in c.members
  /\ call' = [call EXCEPT ![r] = [op |-> "open", user |-> u, of |-> c]]
  /\ Goto(r, "findRoom")
  /\ UNCHANGED <<docs, found, stale, stopped, overlaps>>

(* or sends a message to a room, or reads one. *)
Ask(r, op, u, i) ==
  /\ Ready(r, "idle")
  /\ call' = [call EXCEPT ![r] = [op |-> op, user |-> u, of |-> i]]
  /\ Goto(r, IF op = "send" THEN "findMembers" ELSE "readMessages")
  /\ overlaps' = overlaps \cup {{r, s} : s \in {s \in Running : call[s].of = i}}
  /\ UNCHANGED <<docs, found, stale, stopped>>

-----------------------------------------------------------------------------
(* findOrCreateRoom: an existing room is the answer.  The aggregation that *)
(* joins people, task and last message to it only reads and is left out.   *)
FindRoom(r) ==
  /\ Ready(r, "findRoom")
  /\ Goto(r, IF \E i \in Rooms : room[i].conversation = call[r].of
               THEN "returned" ELSE "findTask")
  /\ UNCHANGED <<docs, call, found, stale, stopped, overlaps>>

(* The task of the conversation may not exist. *)
FindTask(r) ==
  /\ Ready(r, "findTask")
  /\ Goto(r, "insertRoom") \/ Goto(r, "threw")
  /\ UNCHANGED <<docs, call, found, stale, stopped, overlaps>>

InsertRoomAgain(r) ==       \* mutant: no unique index on task and participants
  /\ Ready(r, "insertRoom")
  /\ \E i \in Rooms :
       /\ room[i] = NoRoom
       /\ room' = [room EXCEPT ![i].conversation = call[r].of]
       /\ Goto(r, "returned")
  /\ UNCHANGED <<message, call, found, stale, stopped, overlaps>>

(* The unique index on task and participants refuses a second room. *)
InsertRoom(r) ==
  /\ Ready(r, "insertRoom")
  /\ \/ /\ \E i \in Rooms : room[i].conversation = call[r].of
        /\ Goto(r, "threw")
        /\ UNCHANGED room
     \/ /\ \A i \in Rooms : room[i].conversation # call[r].of
        /\ \E i \in Rooms : /\ room[i] = NoRoom
                            /\ room' = [room EXCEPT ![i].conversation = call[r].of]
        /\ Goto(r, "returned")
  /\ UNCHANGED <<message, call, found, stale, stopped, overlaps>>

-----------------------------------------------------------------------------
(* createMessage: the room must exist and have the sender as a member.  The *)
(* list of members that is read here is used below; it never changes.  The  *)
(* message that is replied to may be missing or in another room.            *)
FindMembers(r) ==
  /\ Ready(r, "findMembers")
  /\ \/ call[r].user \in Members(call[r].of) /\ Goto(r, "insertMessage")
     \/ Goto(r, "threw")
  /\ UNCHANGED <<docs, call, found, stale, stopped, overlaps>>

InsertMessage(r) ==
  /\ Ready(r, "insertMessage")
  /\ message' = [message EXCEPT ![r] = [room |-> call[r].of, sender |-> call[r].user,
                                        readBy |-> {call[r].user}, at |-> Cardinality(Sent) + 1]]
  /\ Goto(r, "countMessage")
  /\ UNCHANGED <<room, call, found, stale, stopped, overlaps>>

CountMessageStale(r) ==     \* mutant: the counters are computed from those of the first lookup
  /\ Ready(r, "countMessage")
  /\ room' = [room EXCEPT
       ![call[r].of].lastMessageAt = message[r].at,
       ![call[r].of].unread = [u \in Users |->
          IF u \in Members(call[r].of) \ {call[r].user} THEN 1 ELSE @[u]]]
  /\ Goto(r, "returned")
  /\ UNCHANGED <<message, call, found, stale, stopped, overlaps>>

CountMessageNegated(r) ==   \* mutant: the counters go down
  /\ Ready(r, "countMessage")
  /\ room' = [room EXCEPT
       ![call[r].of].lastMessageAt = message[r].at,
       ![call[r].of].unread = [u \in Users |->
          IF u \in Members(call[r].of) \ {call[r].user} THEN Count(@[u]) - 1 ELSE @[u]]]
  /\ Goto(r, "returned")
  /\ UNCHANGED <<message, call, found, stale, stopped, overlaps>>

CountMessageUndated(r) ==   \* mutant: the date of the room is left alone
  /\ Ready(r, "countMessage")
  /\ room' = [room EXCEPT
       ![call[r].of].unread = [u \in Users |->
          IF u \in Members(call[r].of) \ {call[r].user} THEN Count(@[u]) + 1 ELSE @[u]]]
  /\ Goto(r, "returned")
  /\ UNCHANGED <<message, call, found, stale, stopped, overlaps>>

(* One update of the room: the counters of the others grow by one, and the *)
(* room takes the date of this message, be there newer ones or not.        *)
CountMessage(r) ==
  /\ Ready(r, "countMessage")
  /\ room' = [room EXCEPT
       ![call[r].of].lastMessageAt = message[r].at,
       ![call[r].of].unread = [u \in Users |->
          IF u \in Members(call[r].of) \ {call[r].user} THEN Count(@[u]) + 1 ELSE @[u]]]
  /\ Goto(r, "returned")
  /\ UNCHANGED <<message, call, found, stale, stopped, overlaps>>

-----------------------------------------------------------------------------
ReadMessagesNone(r) ==      \* mutant: the filter matches the messages already read
  /\ Ready(r, "readMessages")
  /\ Goto(r, "findCounter")
  /\ UNCHANGED <<docs, call, found, stale, stopped, overlaps>>

(* markAsRead: first every message of the room gets the reader ... *)
ReadMessages(r) ==
  /\ Ready(r, "readMessages")
  /\ message' = [s \in Requests |->
       IF message[s].room = call[r].of
         THEN [message[s] EXCEPT !.readBy = @ \cup {call[r].user}] ELSE message[s]]
  /\ Goto(r, "findCounter")
  /\ UNCHANGED <<room, call, found, stale, stopped, overlaps>>

(* ... then the room is read ... *)
FindCounter(r) ==
  /\ Ready(r, "findCounter")
  /\ IF room[call[r].of] = NoRoom
       THEN Goto(r, "threw") /\ UNCHANGED found
       ELSE /\ found' = [found EXCEPT ![r] = room[call[r].of].unread[call[r].user]]
            /\ Goto(r, "saveCounter")
  /\ UNCHANGED <<docs, call, stale, stopped, overlaps>>

(* The requests that hold a copy of the room. *)
Holders(i) == {q \in Requests : pc[q] \in {"saveCounter", "saveAgain"} /\ call[q].of = i}

SaveRoomHeedless(r, next) ==  \* mutant: a VersionError passes for a success
  /\ Goto(r, next)
  /\ stale' = IF r \in stale THEN stale ELSE stale \cup (Holders(call[r].of) \ {r})

(* Saving a copy.  A hook of the schema sorts the participants, so that     *)
(* every save writes their list, and Mongoose then compares the version of  *)
(* the room with that of the copy and counts it up: of two requests with a  *)
(* copy the later to save fails with a VersionError.  The other writes of a *)
(* room leave its version alone.                                            *)
SaveRoom(r, next) ==
  \/ /\ r \in stale
     /\ Goto(r, "threw")
     /\ UNCHANGED stale
  \/ /\ r \notin stale
     /\ Goto(r, next)
     /\ stale' = stale \cup (Holders(call[r].of) \ {r})

(* ... and the reader's counter is set to zero in that copy.  The save      *)
(* writes the counter only if the zero is a change to what was read, and    *)
(* then over whatever it is by now, ...                                     *)
SaveCounter(r) ==
  /\ Ready(r, "saveCounter")
  /\ SaveRoom(r, "saveAgain")
  /\ room' = IF r \in stale \/ found[r] = 0 THEN room
             ELSE [room EXCEPT ![call[r].of].unread[call[r].user] = 0]
  /\ UNCHANGED <<message, call, found, stopped, overlaps>>

(* ... and the second save has only the participants left to write. *)
SaveAgain(r) ==
  /\ Ready(r, "saveAgain")
  /\ SaveRoom(r, "returned")
  /\ UNCHANGED <<docs, call, found, stopped, overlaps>>

-----------------------------------------------------------------------------
(* The process dies, or a database operation fails. *)
Stop(r) ==
  /\ r \in Running
  /\ stopped' = stopped \cup {r}
  /\ UNCHANGED <<docs, pc, call, found, stale, overlaps>>

Handle(r) ==
  \/ FindRoom(r) \/ FindTask(r) \/ InsertRoom(r)
  \/ FindMembers(r) \/ InsertMessage(r) \/ CountMessage(r)
  \/ ReadMessages(r) \/ FindCounter(r) \/ SaveCounter(r) \/ SaveAgain(r)

Next == \E r \in Requests :
  \/ \E u \in Users, c \in Conversations : "open" \in Ops /\ Open(r, u, c)
  \/ \E u \in Users, op \in Ops \ {"open"}, i \in Rooms : Ask(r, op, u, i)
  \/ Handle(r)
  \/ Stop(r)

Spec == Init /\ [][Next]_chatVars

-----------------------------------------------------------------------------
(* Documents fit their schemas; a counter is absent until it is first set. *)
TypeOK ==
  /\ \A i \in Rooms : /\ room[i].conversation \in Conversations \cup {None}
                      /\ room[i].unread \in [Users -> Nat \cup {None}]
                      /\ room[i].lastMessageAt \in Nat
  /\ \A r \in Requests : /\ message[r].room \in Rooms \cup {None}
                         /\ message[r].sender \in Users \cup {None}
                         /\ message[r].readBy \subseteq Users
  /\ pc \in [Requests -> Labels]
  /\ found \in [Requests -> Nat \cup {None}]
  /\ stale \cup stopped \subseteq Requests

(* One room per task and set of participants, however many people open it  *)
(* at the same moment.                                                     *)
OneRoomPerConversation == \A i, k \in Rooms :
  room[i] # NoRoom /\ room[i].conversation = room[k].conversation => i = k

From(i, op) == {r \in Requests : pc[r] # "idle" /\ call[r].op = op /\ call[r].of = i}

(* Messages of the room that others sent to u. *)
SentTo(u, i) == {s \in Sent : message[s].room = i /\ message[s].sender # u}

(* No count of a message is lost or doubled, whatever else is sent at the  *)
(* same time: until u reads the room for the first time, its counter and   *)
(* the messages that are stored but not (or never) counted make up all     *)
(* that was sent to u.                                                     *)
SendsReconcile == \A i \in Rooms : \A u \in Members(i) :
  (\A r \in From(i, "read") : call[r].user # u) =>
    Count(room[i].unread[u]) + Cardinality({s \in SentTo(u, i) : pc[s] = "countMessage"})
      = Cardinality(SentTo(u, i))

Quiet(i) == \A r \in Running \cup stopped : call[r].of # i

Unread(u, i) == {s \in SentTo(u, i) : u \notin message[s].readBy}

(* Only a read of one's own that overlaps a send, or that fails because the *)
(* room was saved meanwhile, and a request that stops half-way, can leave a *)
(* counter that differs from the number of unread messages: sends that      *)
(* overlap each other, and what others read while people send, cannot.      *)
OrderlyCounters == \A i \in Rooms : \A u \in Members(i) :
  /\ Quiet(i)
  /\ \A r \in From(i, "read") : call[r].user = u =>
       /\ pc[r] # "threw"
       /\ \A s \in From(i, "send") : {r, s} \notin overlaps
  => Count(room[i].unread[u]) = Cardinality(Unread(u, i))

(* Only sends that overlap each other, or one that stops half-way, can     *)
(* leave a room with a date older than its newest message, and so in the   *)
(* wrong place of the list of rooms.                                       *)
OrderlyDates == \A i \in Rooms :
  /\ Quiet(i)
  /\ \A r, s \in From(i, "send") : r # s => {r, s} \notin overlaps
  => \A s \in Sent : message[s].room = i => message[s].at <= room[i].lastMessageAt
=============================================================================
