----------------------------- MODULE ChatProofs -----------------------------
(***************************************************************************)
(* Proofs about rooms, messages and unread counters, and about the devices *)
(* that pull and push, for any people, rooms, conversations and batches    *)
(* and any number of requests.                                             *)
(***************************************************************************)
EXTENDS Sync, FiniteSetTheorems, TLAPS

Opening == {"findRoom", "findTask", "insertRoom"}
Sending == {"findMembers", "insertMessage", "countMessage"}
Reading == {"readMessages", "findCounter", "saveCounter", "saveAgain"}
Over    == {"idle", "returned", "threw"}

Opens == [op : {"open"}, user : Users, of : Conversations]
Asks  == [op : {"send", "read"}, user : Users, of : Rooms]

Room == [conversation : Conversations \cup {None}, unread : [Users -> Nat \cup {None}],
         lastMessageAt : Nat]
Message == [room : Rooms, sender : Users, readBy : SUBSET Users, at : Nat]

(* A room without a conversation is no room, and a stopped request is one  *)
(* that had not ended.                                                     *)
ChatTypes ==
  /\ room \in [Rooms -> Room]
  /\ \A i \in Rooms : room[i].conversation = None => room[i] = NoRoom
  /\ message \in [Requests -> Message \cup {NoMessage}]
  /\ pc \in [Requests -> Labels]
  /\ found \in [Requests -> Nat \cup {None}]
  /\ DOMAIN call = Requests
  /\ stale \cup stopped \subseteq Requests
  /\ \A r \in stopped : pc[r] \notin Over

CallFits == \A r \in Requests :
  /\ pc[r] # "idle" => call[r] \in Opens \cup Asks
  /\ pc[r] \in Opening => call[r] \in Opens
  /\ pc[r] \in Sending => call[r] \in Asks /\ call[r].op = "send"
  /\ pc[r] \in Reading => call[r] \in Asks /\ call[r].op = "read"

(* A message is its sender's and stays in the room it was sent to; it is   *)
(* sent by a member and waits to be counted until its request returns.     *)
MessageFits == \A r \in Requests :
  /\ pc[r] = "insertMessage" => call[r].user \in Members(call[r].of)
  /\ pc[r] = "countMessage" => message[r] # NoMessage
  /\ pc[r] = "saveCounter" => room[call[r].of] # NoRoom
  /\ message[r] # NoMessage =>
       /\ pc[r] \in {"countMessage", "returned"}
       /\ call[r] \in Asks /\ call[r].op = "send"
       /\ message[r].room = call[r].of
       /\ message[r].sender = call[r].user
       /\ message[r].sender \in message[r].readBy
       /\ message[r].sender \in Members(message[r].room)

(* Only finitely many messages have been sent, and their dates count them. *)
SentSoFar == /\ IsFiniteSet(Sent)
             /\ \A s \in Sent : message[s].at <= Cardinality(Sent)

(* Two requests that run in one room have met. *)
OverlapsNoted == \A r, s \in Running :
  r # s /\ call[r] \in Asks /\ call[s] \in Asks /\ call[r].of = call[s].of
    => {r, s} \in overlaps

NoneStopped(i) == \A r \in stopped : call[r].of # i

SendsApart(i) == \A r, s \in From(i, "send") : r # s => {r, s} \notin overlaps

ReadsApart(u, i) == \A r \in From(i, "read") : call[r].user = u =>
  pc[r] # "threw" /\ \A s \in From(i, "send") : {r, s} \notin overlaps

(* A message waiting to be counted is the newest of its room, and the date  *)
(* of the room is at least that of the others.                              *)
DatedInOrder == \A i \in Rooms : NoneStopped(i) /\ SendsApart(i) =>
  \A s \in Sent : message[s].room = i =>
    IF pc[s] = "countMessage"
      THEN \A t \in Sent : message[t].room = i => message[t].at <= message[s].at
      ELSE message[s].at <= room[i].lastMessageAt

Pending(u, i) == {s \in SentTo(u, i) : pc[s] = "countMessage"}

(* The requests of u that marked the messages of the room and did not end. *)
Marked(u, i) == {r \in Requests : /\ pc[r] \in {"findCounter", "saveCounter"}
                                  /\ call[r].user = u /\ call[r].of = i}

(* While u's read of a room is half-way nothing is unread, and a counter    *)
(* found to be zero is zero; at all other times the counter is the number   *)
(* of unread messages that are counted.                                     *)
CountedInOrder == \A i \in Rooms : \A u \in Members(i) : NoneStopped(i) /\ ReadsApart(u, i) =>
  /\ Marked(u, i) = {} =>
       Count(room[i].unread[u]) + Cardinality(Pending(u, i)) = Cardinality(Unread(u, i))
  /\ \A r \in Marked(u, i) :
       /\ Unread(u, i) = {}
       /\ pc[r] = "saveCounter" /\ found[r] = 0 => Count(room[i].unread[u]) = 0

ChatInv ==
  /\ ChatTypes
  /\ CallFits
  /\ MessageFits
  /\ SentSoFar
  /\ OneRoomPerConversation
  /\ SendsReconcile
  /\ OverlapsNoted
  /\ DatedInOrder
  /\ CountedInOrder

-----------------------------------------------------------------------------
(* The steps of one request. *)
Step(r) == \/ \E u \in Users, c \in Conversations : Open(r, u, c)
           \/ \E u \in Users, op \in {"send", "read"}, i \in Rooms : Ask(r, op, u, i)
           \/ Handle(r)
           \/ Stop(r)

LEMMA NextIsStep ==
  ASSUME Next  PROVE \E r \in Requests : Step(r)
BY ChatAssumption DEF Next, Step

(* Rooms have members once they have a conversation. *)
LEMMA MembersOf ==
  ASSUME ChatTypes, NEW i \in Rooms
  PROVE  /\ room[i] = NoRoom <=> room[i].conversation = None
         /\ Members(i) = IF room[i].conversation = None THEN {} ELSE room[i].conversation.members
         /\ Members(i) \subseteq Users
BY ChatAssumption DEF ChatTypes, NoRoom, Members, Room

LEMMA Nothing ==
  /\ NoMessage \notin Message
  /\ NoRoom.unread \in [Users -> {None}] /\ NoRoom.conversation = None /\ NoRoom.lastMessageAt = 0
  /\ NoRoom \in Room
  /\ NoMessage.room \notin Rooms
BY ChatAssumption DEF NoMessage, NoRoom, Message, Room

(* Nothing that a request was, did or met is undone by a step. *)
LEMMA StepMoves ==
  ASSUME ChatInv, NEW r \in Requests, Step(r)
  PROVE  /\ pc[r] \notin {"returned", "threw"} /\ r \notin stopped
         /\ pc' \in [Requests -> Labels] /\ pc'[r] # "idle"
         /\ \A q \in Requests \ {r} : pc'[q] = pc[q]
         /\ DOMAIN call' = Requests /\ call'[r] \in Opens \cup Asks
         /\ \A q \in Requests : pc[q] # "idle" => call'[q] = call[q]
         /\ overlaps \subseteq overlaps'
         /\ stopped \subseteq stopped' /\ stopped' \subseteq stopped \cup {r}
         /\ \A q \in stopped' : pc'[q] \notin Over
<1> USE DEF ChatInv, Over
<1>1. ChatTypes /\ CallFits
  OBVIOUS
<1>2. CASE \E u \in Users, c \in Conversations : Open(r, u, c)
  BY <1>1, <1>2 DEF ChatTypes, Open, Ready, Goto, Labels, Opens
<1>3. CASE \E u \in Users, op \in {"send", "read"}, i \in Rooms : Ask(r, op, u, i)
  <2>1. PICK u \in Users, op \in {"send", "read"}, i \in Rooms : Ask(r, op, u, i)
    BY <1>3
  <2>2. call'[r] \in Asks /\ pc[r] = "idle"
    BY <1>1, <2>1 DEF ChatTypes, Ask, Asks, Ready
  <2> QED
    BY <1>1, <2>1, <2>2 DEF ChatTypes, Ask, Ready, Goto, Labels
<1>4. CASE Handle(r)
  <2>1. /\ pc[r] \notin Over /\ r \notin stopped /\ UNCHANGED <<call, stopped, overlaps>>
        /\ \E label \in Labels \ {"idle"} : Goto(r, label)
    BY <1>4 DEF Handle, FindRoom, FindTask, InsertRoom, FindMembers, InsertMessage, CountMessage,
      ReadMessages, FindCounter, SaveCounter, SaveAgain, SaveRoom, Ready, Labels
  <2> QED
    BY <1>1, <2>1 DEF ChatTypes, Goto, CallFits
<1>5. CASE Stop(r)
  BY <1>1, <1>5 DEF ChatTypes, Stop, Running, CallFits
<1> QED
  BY <1>2, <1>3, <1>4, <1>5 DEF Step

(* So what holds only while nothing stops or meets in a room held before. *)
LEMMA PremisesShrink ==
  ASSUME ChatInv, NEW r \in Requests, Step(r), NEW i \in Rooms
  PROVE  /\ \A op : From(i, op) \subseteq From(i, op)'
         /\ NoneStopped(i)' => NoneStopped(i)
         /\ SendsApart(i)' => SendsApart(i)
         /\ \A u : ReadsApart(u, i)' => ReadsApart(u, i)
<1>1. \A q \in Requests : pc[q] # "idle" => pc'[q] # "idle" /\ call'[q] = call[q]
  BY StepMoves
<1>2. \A op : From(i, op) \subseteq From(i, op)'
  BY <1>1 DEF From
<1>3. NoneStopped(i)' => NoneStopped(i)
  <2>1. \A q \in stopped : q \in stopped' /\ call'[q] = call[q]
    BY <1>1, StepMoves DEF ChatInv, ChatTypes, Over
  <2> QED
    BY <2>1 DEF NoneStopped
<1>4. overlaps \subseteq overlaps'
  BY StepMoves
<1>5. SendsApart(i)' => SendsApart(i)
  <2>1. From(i, "send") \subseteq From(i, "send")'
    BY <1>2
  <2> QED
    BY <1>4, <2>1 DEF SendsApart
<1>6. ASSUME NEW u, ReadsApart(u, i)'
      PROVE  ReadsApart(u, i)
  <2>1. From(i, "send") \subseteq From(i, "send")' /\ From(i, "read") \subseteq From(i, "read")'
    BY <1>2
  <2>2. ASSUME NEW q \in From(i, "read"), call[q].user = u
        PROVE  pc[q] # "threw" /\ \A s \in From(i, "send") : {q, s} \notin overlaps
    <3>1. q \in Requests /\ call'[q] = call[q] /\ q \in From(i, "read")'
      BY <1>1, <2>1 DEF From
    <3>2. pc'[q] # "threw" /\ \A s \in From(i, "send")' : {q, s} \notin overlaps'
      BY <1>6, <2>2, <3>1 DEF ReadsApart
    <3>3. pc[q] = "threw" => pc'[q] = "threw"
      BY <3>1, StepMoves
    <3> QED
      BY <1>4, <2>1, <3>2, <3>3
  <2> QED
    BY <2>2 DEF ReadsApart
<1> QED
  BY <1>2, <1>3, <1>5, <1>6

-----------------------------------------------------------------------------
(* What each write does to the documents. *)
LEMMA InsertRoomMoves ==
  ASSUME ChatInv, NEW r \in Requests, InsertRoom(r), room' # room
  PROVE  /\ call[r] \in Opens /\ \A k \in Rooms : room[k].conversation # call[r].of
         /\ \E i \in Rooms :
              /\ room[i] = NoRoom
              /\ room'[i] \in Room /\ room'[i].conversation = call[r].of
              /\ room'[i].unread = room[i].unread
              /\ room'[i].lastMessageAt = room[i].lastMessageAt
              /\ room' = [room EXCEPT ![i] = room'[i]]
<1>1. ChatTypes /\ CallFits
  BY DEF ChatInv
<1>2. call[r] \in Opens /\ \A k \in Rooms : room[k].conversation # call[r].of
  BY <1>1 DEF InsertRoom, Ready, CallFits, Opening
<1>3. PICK i \in Rooms : room[i] = NoRoom /\ room' = [room EXCEPT ![i].conversation = call[r].of]
  BY DEF InsertRoom
<1>4. room[i] \in Room /\ call[r].of \in Conversations
  BY <1>1, <1>2 DEF ChatTypes, Opens
<1>5. room'[i] = [room[i] EXCEPT !.conversation = call[r].of]
  BY <1>1, <1>3 DEF ChatTypes
<1>6. room' = [room EXCEPT ![i] = room'[i]]
  BY <1>3, <1>5
<1>7. /\ room'[i] \in Room /\ room'[i].conversation = call[r].of
      /\ room'[i].unread = room[i].unread /\ room'[i].lastMessageAt = room[i].lastMessageAt
  BY <1>4, <1>5 DEF Room
<1> QED
  BY <1>2, <1>3, <1>6, <1>7

LEMMA InsertMessageMoves ==
  ASSUME ChatInv, NEW r \in Requests, InsertMessage(r)
  PROVE  /\ r \notin Sent /\ call[r] \in Asks /\ call[r].op = "send" /\ call' = call
         /\ pc[r] = "insertMessage" /\ pc'[r] = "countMessage"
         /\ \A q \in Requests \ {r} : pc'[q] = pc[q]
         /\ message'[r] \in Message
         /\ message'[r].room = call[r].of /\ message'[r].sender = call[r].user
         /\ message'[r].readBy = {call[r].user}
         /\ message'[r].at = Cardinality(Sent) + 1
         /\ message' = [message EXCEPT ![r] = message'[r]]
         /\ Sent' = Sent \cup {r}
<1>1. ChatTypes /\ CallFits /\ MessageFits /\ SentSoFar
  BY DEF ChatInv
<1>2. pc[r] = "insertMessage" /\ pc'[r] = "countMessage" /\ call' = call
  BY <1>1 DEF InsertMessage, Ready, Goto, ChatTypes
<1>3. \A q \in Requests \ {r} : pc'[q] = pc[q]
  BY <1>1 DEF InsertMessage, Goto, ChatTypes
<1>4. call[r] \in Asks /\ call[r].op = "send"
  BY <1>1, <1>2 DEF CallFits, Sending
<1>5. r \notin Sent
  BY <1>1, <1>2 DEF Sent, MessageFits
<1>6. Cardinality(Sent) + 1 \in Nat
  BY <1>1, FS_CardinalityType DEF SentSoFar
<1>7. /\ message'[r] = [room |-> call[r].of, sender |-> call[r].user,
                        readBy |-> {call[r].user}, at |-> Cardinality(Sent) + 1]
      /\ message' = [message EXCEPT ![r] = message'[r]]
  BY <1>1 DEF InsertMessage, ChatTypes
<1>8. message'[r] \in Message
  BY <1>4, <1>6, <1>7 DEF Message, Asks
<1>9. Sent' = Sent \cup {r}
  BY <1>1, <1>7, <1>8, Nothing DEF Sent, ChatTypes
<1> QED
  BY <1>2, <1>3, <1>4, <1>5, <1>7, <1>8, <1>9

LEMMA CountMessageMoves ==
  ASSUME ChatInv, NEW r \in Requests, CountMessage(r), NEW i, i = call[r].of
  PROVE  /\ i \in Rooms /\ r \in Sent /\ call[r] \in Asks /\ call[r].op = "send" /\ call' = call
         /\ message' = message /\ message[r] \in Message
         /\ message[r].room = i /\ message[r].sender = call[r].user
         /\ pc[r] = "countMessage" /\ pc'[r] = "returned"
         /\ \A q \in Requests \ {r} : pc'[q] = pc[q]
         /\ room'[i] \in Room /\ room'[i].conversation = room[i].conversation
         /\ room'[i].lastMessageAt = message[r].at
         /\ \A u \in Users : room'[i].unread[u] = IF u \in Members(i) \ {call[r].user}
                                                     THEN Count(room[i].unread[u]) + 1
                                                     ELSE room[i].unread[u]
         /\ room[i] # NoRoom
         /\ room' = [room EXCEPT ![i] = room'[i]]
<1>1. ChatTypes /\ CallFits /\ MessageFits
  BY DEF ChatInv
<1>2. pc[r] = "countMessage" /\ pc'[r] = "returned" /\ call' = call /\ message' = message
  BY <1>1 DEF CountMessage, Ready, Goto, ChatTypes
<1>3. \A q \in Requests \ {r} : pc'[q] = pc[q]
  BY <1>1 DEF CountMessage, Goto, ChatTypes
<1>4. call[r] \in Asks /\ call[r].op = "send" /\ i \in Rooms /\ call[r].user \in Users
  BY <1>1, <1>2 DEF CallFits, Sending, Asks
<1>5. /\ r \in Sent /\ message[r] \in Message /\ message[r].at \in Nat
      /\ message[r].room = i /\ message[r].sender = call[r].user
  BY <1>1, <1>2 DEF MessageFits, Sent, ChatTypes, Message
<1>6. room[i] # NoRoom
  BY <1>1, <1>5 DEF MessageFits, Sent, Members
<1> DEFINE unread == [u \in Users |-> IF u \in Members(call[r].of) \ {call[r].user}
                                        THEN Count(room[i].unread[u]) + 1 ELSE room[i].unread[u]]
<1>7. room[i] \in Room
  BY <1>1, <1>4 DEF ChatTypes
<1>8. unread \in [Users -> Nat \cup {None}]
  BY <1>7, ChatAssumption DEF Room, Count
<1>9. room'[i] = [room[i] EXCEPT !.lastMessageAt = message[r].at, !.unread = unread]
  BY <1>1, <1>4, <1>7 DEF CountMessage, ChatTypes, Room
<1>10. room' = [room EXCEPT ![i] = room'[i]]
  BY <1>1, <1>4, <1>9 DEF CountMessage, ChatTypes
<1>11. \A u \in Users : unread[u] = IF u \in Members(i) \ {call[r].user}
                                       THEN Count(room[i].unread[u]) + 1 ELSE room[i].unread[u]
  OBVIOUS
<1> HIDE DEF unread
<1>12. /\ room'[i] \in Room /\ room'[i].conversation = room[i].conversation
       /\ room'[i].lastMessageAt = message[r].at /\ room'[i].unread = unread
  BY <1>5, <1>7, <1>8, <1>9 DEF Room
<1> QED
  BY <1>2, <1>3, <1>4, <1>5, <1>6, <1>10, <1>11, <1>12

LEMMA ReadMessagesMoves ==
  ASSUME ChatInv, NEW r \in Requests, ReadMessages(r)
  PROVE  /\ call[r] \in Asks /\ call[r].op = "read" /\ call' = call /\ room' = room
         /\ pc[r] = "readMessages" /\ pc'[r] = "findCounter"
         /\ \A q \in Requests \ {r} : pc'[q] = pc[q]
         /\ message' \in [Requests -> Message \cup {NoMessage}]
         /\ \A s \in Requests \ Sent : message'[s] = message[s]
         /\ \A s \in Sent :
              /\ message'[s] \in Message
              /\ message'[s].room = message[s].room /\ message'[s].sender = message[s].sender
              /\ message'[s].at = message[s].at
              /\ message'[s].readBy = message[s].readBy \cup
                   IF message[s].room = call[r].of THEN {call[r].user} ELSE {}
         /\ Sent' = Sent
<1>1. ChatTypes /\ CallFits
  BY DEF ChatInv
<1>2. pc[r] = "readMessages" /\ pc'[r] = "findCounter" /\ call' = call /\ room' = room
  BY <1>1 DEF ReadMessages, Ready, Goto, ChatTypes
<1>3. \A q \in Requests \ {r} : pc'[q] = pc[q]
  BY <1>1 DEF ReadMessages, Goto, ChatTypes
<1>4. call[r] \in Asks /\ call[r].op = "read" /\ call[r].of \in Rooms /\ call[r].user \in Users
  BY <1>1, <1>2 DEF CallFits, Reading, Asks
<1>5. /\ DOMAIN message' = Requests
      /\ \A s \in Requests : message'[s] =
           IF message[s].room = call[r].of
             THEN [message[s] EXCEPT !.readBy = message[s].readBy \cup {call[r].user}] ELSE message[s]
      /\ message' = [s \in Requests |-> message'[s]]
  BY DEF ReadMessages
<1>6. \A s \in Requests \ Sent : message'[s] = message[s]
  BY <1>4, <1>5, Nothing DEF Sent
<1>7. ASSUME NEW s \in Sent
      PROVE  /\ message'[s] \in Message
             /\ message'[s].room = message[s].room /\ message'[s].sender = message[s].sender
             /\ message'[s].at = message[s].at
             /\ message'[s].readBy = message[s].readBy \cup
                  IF message[s].room = call[r].of THEN {call[r].user} ELSE {}
  <2>1. message[s] \in Message
    BY <1>1, <1>7 DEF Sent, ChatTypes
  <2>2. s \in Requests
    BY <1>7 DEF Sent
  <2>3. CASE message[s].room = call[r].of
    <3>1. message'[s] = [message[s] EXCEPT !.readBy = message[s].readBy \cup {call[r].user}]
      BY <1>5, <2>2, <2>3
    <3> QED
      BY <1>4, <2>1, <2>3, <3>1 DEF Message
  <2>4. CASE message[s].room # call[r].of
    BY <1>5, <2>1, <2>2, <2>4
  <2> QED
    BY <2>3, <2>4
<1>8. \A s \in Requests : message'[s] \in Message \cup {NoMessage}
  BY <1>6, <1>7 DEF Sent
<1>9. Sent' = Sent
  <2>1. \A s \in Requests : message'[s] # NoMessage <=> message[s] # NoMessage
    BY <1>6, <1>7, Nothing DEF Sent
  <2> QED
    BY <2>1 DEF Sent
<1> QED
  BY <1>2, <1>3, <1>4, <1>5, <1>6, <1>7, <1>8, <1>9

LEMMA SaveCounterMoves ==
  ASSUME ChatInv, NEW r \in Requests, SaveCounter(r), NEW i, i = call[r].of
  PROVE  /\ i \in Rooms /\ call[r] \in Asks /\ call[r].op = "read" /\ call' = call
         /\ message' = message /\ room[i] # NoRoom
         /\ pc[r] = "saveCounter" /\ pc'[r] = IF r \in stale THEN "threw" ELSE "saveAgain"
         /\ \A q \in Requests \ {r} : pc'[q] = pc[q]
         /\ room'[i] \in Room /\ room'[i].conversation = room[i].conversation
         /\ room'[i].lastMessageAt = room[i].lastMessageAt
         /\ \A u \in Users : room'[i].unread[u] =
              IF r \notin stale /\ found[r] # 0 /\ u = call[r].user
                THEN 0 ELSE room[i].unread[u]
         /\ room' = [room EXCEPT ![i] = room'[i]]
<1>1. ChatTypes /\ CallFits /\ MessageFits
  BY DEF ChatInv
<1>2. /\ pc[r] = "saveCounter" /\ call' = call /\ message' = message
      /\ pc'[r] = IF r \in stale THEN "threw" ELSE "saveAgain"
  BY <1>1 DEF SaveCounter, SaveRoom, Ready, Goto, ChatTypes
<1>3. \A q \in Requests \ {r} : pc'[q] = pc[q]
  BY <1>1 DEF SaveCounter, SaveRoom, Goto, ChatTypes
<1>4. call[r] \in Asks /\ call[r].op = "read" /\ i \in Rooms /\ call[r].user \in Users
  BY <1>1, <1>2 DEF CallFits, Reading, Asks
<1>5. room[i] # NoRoom
  BY <1>1, <1>2 DEF MessageFits
<1>6. room[i] \in Room
  BY <1>1, <1>4 DEF ChatTypes
<1>7. CASE r \in stale \/ found[r] = 0
  <2>1. room' = room
    BY <1>7 DEF SaveCounter
  <2> QED
    BY <1>1, <1>2, <1>3, <1>4, <1>5, <1>6, <1>7, <2>1 DEF ChatTypes
<1>8. CASE r \notin stale /\ found[r] # 0
  <2> DEFINE unread == [room[i].unread EXCEPT ![call[r].user] = 0]
  <2>1. unread \in [Users -> Nat \cup {None}] /\ \A u \in Users :
          unread[u] = IF u = call[r].user THEN 0 ELSE room[i].unread[u]
    BY <1>4, <1>6 DEF Room
  <2>2. room' = [room EXCEPT ![i].unread = unread]
    BY <1>8 DEF SaveCounter
  <2> HIDE DEF unread
  <2>3. room'[i] = [room[i] EXCEPT !.unread = unread] /\ room' = [room EXCEPT ![i] = room'[i]]
    BY <1>1, <1>4, <2>2 DEF ChatTypes
  <2>4. /\ room'[i] \in Room /\ room'[i].conversation = room[i].conversation
        /\ room'[i].lastMessageAt = room[i].lastMessageAt /\ room'[i].unread = unread
    BY <1>6, <2>1, <2>3 DEF Room
  <2> QED
    BY <1>2, <1>3, <1>4, <1>5, <1>8, <2>1, <2>3, <2>4
<1> QED
  BY <1>7, <1>8

(* No other step writes a document. *)
Writes(r) == InsertRoom(r) \/ InsertMessage(r) \/ CountMessage(r) \/ ReadMessages(r) \/ SaveCounter(r)

LEMMA OthersWriteNothing ==
  ASSUME NEW r \in Requests, Step(r), ~Writes(r)
  PROVE  room' = room /\ message' = message
BY DEF Step, Writes, Handle, Open, Ask, Stop, FindRoom, FindTask, FindMembers, FindCounter,
  SaveAgain, docs

(* The conversation of a room is set once, and its members with it. *)
LEMMA RoomMoves ==
  ASSUME ChatInv, NEW r \in Requests, Step(r)
  PROVE  /\ room' \in [Rooms -> Room]
         /\ \A i \in Rooms : room'[i].conversation = None => room'[i] = NoRoom
         /\ \A i \in Rooms : room[i] # NoRoom => room'[i] # NoRoom
         /\ \A i \in Rooms : room[i] # NoRoom \/ ~InsertRoom(r) => Members(i)' = Members(i)
<1> DEFINE Fit == /\ room' \in [Rooms -> Room]
                  /\ \A i \in Rooms : room'[i].conversation = None => room'[i] = NoRoom
                  /\ \A i \in Rooms : room[i] # NoRoom \/ ~InsertRoom(r)
                       => room'[i].conversation = room[i].conversation
<1>1. ChatTypes
  BY DEF ChatInv
<1>2. CASE room' = room
  BY <1>1, <1>2 DEF ChatTypes, Members
<1>3. CASE room' # room
  <2>1. Fit
    <3>1. CASE InsertRoom(r)
      <4>1. PICK i \in Rooms : /\ room[i] = NoRoom /\ call[r] \in Opens
                               /\ room'[i] \in Room /\ room'[i].conversation = call[r].of
                               /\ room' = [room EXCEPT ![i] = room'[i]]
        BY <1>3, <3>1, InsertRoomMoves
      <4>2. call[r].of # None
        BY <4>1, ChatAssumption DEF Opens
      <4> QED
        BY <1>1, <3>1, <4>1, <4>2 DEF ChatTypes
    <3>2. CASE CountMessage(r)
      <4> DEFINE i == call[r].of
      <4>1. /\ i \in Rooms /\ room[i] # NoRoom /\ room'[i] \in Room
            /\ room'[i].conversation = room[i].conversation /\ room' = [room EXCEPT ![i] = room'[i]]
        BY <3>2, CountMessageMoves
      <4> HIDE DEF i
      <4> QED
        BY <1>1, <4>1 DEF ChatTypes
    <3>3. CASE SaveCounter(r)
      <4> DEFINE i == call[r].of
      <4>1. /\ i \in Rooms /\ room[i] # NoRoom /\ room'[i] \in Room
            /\ room'[i].conversation = room[i].conversation /\ room' = [room EXCEPT ![i] = room'[i]]
        BY <3>3, SaveCounterMoves
      <4> HIDE DEF i
      <4> QED
        BY <1>1, <4>1 DEF ChatTypes
    <3> QED
      BY <1>3, <3>1, <3>2, <3>3, OthersWriteNothing DEF Writes, InsertMessage, ReadMessages
  <2>2. \A i \in Rooms : room'[i] = NoRoom <=> room'[i].conversation = None
    BY <2>1, Nothing
  <2>3. \A i \in Rooms : room[i] # NoRoom => room[i].conversation # None
    BY <1>1 DEF ChatTypes
  <2>4. \A i \in Rooms : room[i] # NoRoom => room'[i] # NoRoom
    BY <2>1, <2>2, <2>3
  <2>5. ASSUME NEW i \in Rooms, room[i] # NoRoom \/ ~InsertRoom(r)
        PROVE  Members(i)' = Members(i)
    <3>1. room'[i].conversation = room[i].conversation
      BY <2>1, <2>5
    <3>2. room'[i] = NoRoom <=> room[i] = NoRoom
      BY <1>1, <2>2, <3>1, Nothing DEF ChatTypes
    <3> QED
      BY <3>1, <3>2 DEF Members
  <2> QED
    BY <2>1, <2>4, <2>5
<1> QED
  BY <1>2, <1>3

(* A message keeps its sender, its room and its date; only its sender's     *)
(* request stores it.                                                       *)
LEMMA MessageMoves ==
  ASSUME ChatInv, NEW r \in Requests, Step(r)
  PROVE  /\ message' \in [Requests -> Message \cup {NoMessage}]
         /\ Sent' = IF InsertMessage(r) THEN Sent \cup {r} ELSE Sent
         /\ \A s \in Sent : /\ message'[s].room = message[s].room
                            /\ message'[s].sender = message[s].sender
                            /\ message'[s].at = message[s].at
                            /\ message[s].readBy \subseteq message'[s].readBy
                            /\ ~ReadMessages(r) => message'[s] = message[s]
<1>1. ChatTypes
  BY DEF ChatInv
<1>2. CASE InsertMessage(r)
  BY <1>1, <1>2, InsertMessageMoves DEF ChatTypes, Sent
<1>3. CASE ReadMessages(r)
  <2>1. ~InsertMessage(r)
    BY <1>3 DEF ReadMessages, InsertMessage, Ready
  <2> QED
    BY <1>3, <2>1, ReadMessagesMoves
<1>4. CASE ~InsertMessage(r) /\ ~ReadMessages(r)
  <2>1. message' = message
    BY <1>4, OthersWriteNothing DEF Writes, InsertRoom, CountMessage, SaveCounter
  <2> QED
    BY <1>1, <1>4, <2>1 DEF ChatTypes, Sent
<1> QED
  BY <1>2, <1>3, <1>4

-----------------------------------------------------------------------------
LEMMA TypesKept ==
  ASSUME ChatInv, NEW r \in Requests, Step(r)
  PROVE  ChatTypes' /\ CallFits' /\ SentSoFar'
<1>1. ChatTypes /\ CallFits /\ SentSoFar /\ MessageFits
  BY DEF ChatInv
<1>2. found' \in [Requests -> Nat \cup {None}]
  <2>1. CASE FindCounter(r)
    <3>1. call[r].of \in Rooms /\ call[r].user \in Users
      BY <1>1, <2>1 DEF FindCounter, Ready, CallFits, Reading, Asks
    <3>2. room[call[r].of].unread[call[r].user] \in Nat \cup {None}
      BY <1>1, <3>1 DEF ChatTypes, Room
    <3> QED
      BY <1>1, <2>1, <3>2 DEF FindCounter, ChatTypes
  <2>2. CASE ~FindCounter(r)
    <3>1. found' = found
      BY <2>2 DEF Step, Handle, Open, Ask, Stop, FindRoom, FindTask, InsertRoom, FindMembers,
        InsertMessage, CountMessage, ReadMessages, SaveCounter, SaveAgain, SaveRoom
    <3> QED
      BY <1>1, <3>1 DEF ChatTypes
  <2> QED
    BY <2>1, <2>2
<1>3. ChatTypes'
  <2>1. stale' \cup stopped' \subseteq Requests
    <3>1. CASE SaveCounter(r) \/ SaveAgain(r)
      BY <1>1, <3>1, StepMoves DEF ChatTypes, SaveCounter, SaveAgain, SaveRoom, Holders
    <3>2. CASE ~SaveCounter(r) /\ ~SaveAgain(r)
      <4>1. stale' = stale
        BY <3>2 DEF Step, Handle, Open, Ask, Stop, FindRoom, FindTask, InsertRoom, FindMembers,
          InsertMessage, CountMessage, ReadMessages, FindCounter
      <4> QED
        BY <1>1, <4>1, StepMoves DEF ChatTypes
    <3> QED
      BY <3>1, <3>2
  <2> QED
    BY <1>2, <2>1, StepMoves, RoomMoves, MessageMoves DEF ChatTypes
<1>4. SentSoFar'
  <2>1. CASE InsertMessage(r)
    <3>1. Sent' = Sent \cup {r} /\ r \notin Sent /\ message'[r].at = Cardinality(Sent) + 1
      BY <2>1, InsertMessageMoves
    <3>2. IsFiniteSet(Sent') /\ Cardinality(Sent') = Cardinality(Sent) + 1
      BY <1>1, <3>1, FS_AddElement DEF SentSoFar
    <3>3. \A s \in Sent : message'[s].at = message[s].at /\ message[s].at \in Nat
      BY <1>1, MessageMoves DEF ChatTypes, Message, Sent
    <3>4. Cardinality(Sent) \in Nat
      BY <1>1, FS_CardinalityType DEF SentSoFar
    <3>5. \A s \in Sent' : message'[s].at <= Cardinality(Sent')
      BY <1>1, <3>1, <3>2, <3>3, <3>4 DEF SentSoFar
    <3> QED
      BY <3>2, <3>5 DEF SentSoFar
  <2>2. CASE ~InsertMessage(r)
    BY <1>1, <2>2, MessageMoves DEF SentSoFar
  <2> QED
    BY <2>1, <2>2
<1>5. CallFits'
  <2>1. \A q \in Requests \ {r} : pc'[q] = pc[q] /\ (pc[q] # "idle" => call'[q] = call[q])
    BY StepMoves
  <2>2. /\ call'[r] \in Opens \cup Asks
        /\ pc'[r] \in Opening => call'[r] \in Opens
        /\ pc'[r] \in Sending => call'[r] \in Asks /\ call'[r].op = "send"
        /\ pc'[r] \in Reading => call'[r] \in Asks /\ call'[r].op = "read"
    <3>1. call'[r] \in Opens \cup Asks
      BY StepMoves
    <3>2. CASE \E u \in Users, c \in Conversations : Open(r, u, c)
      <4>1. pc'[r] = "findRoom" /\ call'[r] \in Opens
        BY <1>1, <3>2 DEF ChatTypes, Open, Goto, Opens
      <4> QED
        BY <4>1 DEF Opening, Sending, Reading, Opens
    <3>3. CASE \E u \in Users, op \in {"send", "read"}, i \in Rooms : Ask(r, op, u, i)
      <4>1. PICK u \in Users, op \in {"send", "read"}, i \in Rooms : Ask(r, op, u, i)
        BY <3>3
      <4>2. /\ call'[r] \in Asks /\ call'[r].op = op
            /\ pc'[r] = IF op = "send" THEN "findMembers" ELSE "readMessages"
        BY <1>1, <4>1 DEF ChatTypes, Ask, Goto, Asks
      <4> QED
        BY <4>2 DEF Opening, Sending, Reading
    <3>4. CASE Handle(r)
      <4>1. call' = call
        BY <3>4 DEF Handle, FindRoom, FindTask, InsertRoom, FindMembers, InsertMessage,
          CountMessage, ReadMessages, FindCounter, SaveCounter, SaveAgain, SaveRoom
      <4>2. /\ pc'[r] \in Opening => pc[r] \in Opening
            /\ pc'[r] \in Sending => pc[r] \in Sending
            /\ pc'[r] \in Reading => pc[r] \in Reading
        BY <1>1, <3>4 DEF Handle, FindRoom, FindTask, InsertRoom, FindMembers, InsertMessage,
          CountMessage, ReadMessages, FindCounter, SaveCounter, SaveAgain, SaveRoom, Ready, Goto,
          ChatTypes, Opening, Sending, Reading
      <4> QED
        BY <1>1, <3>1, <4>1, <4>2 DEF CallFits
    <3>5. CASE Stop(r)
      BY <1>1, <3>1, <3>5 DEF Stop, CallFits
    <3> QED
      BY <3>1, <3>2, <3>3, <3>4, <3>5 DEF Step
  <2> QED
    BY <1>1, <2>1, <2>2 DEF CallFits, Opening, Sending, Reading
<1> QED
  BY <1>3, <1>4, <1>5

LEMMA MessagesFitStill ==
  ASSUME ChatInv, NEW r \in Requests, Step(r)
  PROVE  MessageFits'
<1>1. ChatTypes /\ CallFits /\ MessageFits /\ ChatTypes' /\ CallFits'
  BY TypesKept DEF ChatInv
<1>2. /\ \A q \in Requests \ {r} : pc'[q] = pc[q]
      /\ \A q \in Requests : pc[q] # "idle" => call'[q] = call[q]
      /\ pc[r] \notin {"returned", "threw"}
  BY StepMoves
<1>3. \A i \in Rooms : Members(i) # {} => room[i] # NoRoom
  BY DEF Members
<1>4. \A i \in Rooms : \A u : u \in Members(i) => u \in Members(i)'
  BY <1>3, RoomMoves
<1>5. ASSUME NEW q \in Requests, pc'[q] = "insertMessage", NEW i, i = call'[q].of
      PROVE  call'[q].user \in Members(i)'
  <2>1. call'[q] \in Asks /\ i \in Rooms
    BY <1>1, <1>5 DEF CallFits, Sending, Asks
  <2>2. CASE pc[q] = "insertMessage"
    <3>1. call'[q] = call[q] /\ call[q].user \in Members(i)
      BY <1>1, <1>2, <1>5, <2>2 DEF MessageFits
    <3> QED
      BY <1>4, <2>1, <3>1
  <2>3. CASE pc[q] # "insertMessage"
    <3>1. q = r /\ FindMembers(r)
      BY <1>1, <1>2, <1>5, <2>3 DEF ChatTypes, Step, Handle, Open, Ask, Stop, FindRoom, FindTask,
        InsertRoom, FindMembers, InsertMessage, CountMessage, ReadMessages, FindCounter,
        SaveCounter, SaveAgain, SaveRoom, Ready, Goto
    <3>2. call[q].user \in Members(i) /\ call' = call
      BY <1>1, <1>5, <3>1 DEF FindMembers, Goto, ChatTypes
    <3> QED
      BY <1>4, <2>1, <3>2
  <2> QED
    BY <2>2, <2>3
<1>6. ASSUME NEW q \in Requests, pc'[q] = "countMessage"
      PROVE  message'[q] # NoMessage
  <2>1. CASE pc[q] = "countMessage"
    BY <1>1, <2>1, MessageMoves DEF MessageFits, Sent
  <2>2. CASE pc[q] # "countMessage"
    <3>1. q = r /\ InsertMessage(r)
      BY <1>1, <1>2, <1>6, <2>2 DEF ChatTypes, Step, Handle, Open, Ask, Stop, FindRoom, FindTask,
        InsertRoom, FindMembers, InsertMessage, CountMessage, ReadMessages, FindCounter,
        SaveCounter, SaveAgain, SaveRoom, Ready, Goto
    <3> QED
      BY <3>1, MessageMoves DEF Sent
  <2> QED
    BY <2>1, <2>2
<1>7. ASSUME NEW q \in Requests, pc'[q] = "saveCounter"
      PROVE  room'[call'[q].of] # NoRoom
  <2>1. call'[q].of \in Rooms
    BY <1>1, <1>7 DEF CallFits, Reading, Asks
  <2>2. CASE pc[q] = "saveCounter"
    BY <1>1, <1>2, <2>1, <2>2, RoomMoves DEF MessageFits
  <2>3. CASE pc[q] # "saveCounter"
    <3>1. q = r /\ FindCounter(r)
      BY <1>1, <1>2, <1>7, <2>3 DEF ChatTypes, Step, Handle, Open, Ask, Stop, FindRoom, FindTask,
        InsertRoom, FindMembers, InsertMessage, CountMessage, ReadMessages, FindCounter,
        SaveCounter, SaveAgain, SaveRoom, Ready, Goto
    <3>2. room[call[q].of] # NoRoom /\ call' = call /\ room' = room
      BY <1>1, <1>7, <3>1 DEF FindCounter, Goto, ChatTypes, docs
    <3> QED
      BY <3>2
  <2> QED
    BY <2>2, <2>3
<1>8. ASSUME NEW q \in Requests, message'[q] # NoMessage, NEW i, i = message'[q].room
      PROVE  /\ pc'[q] \in {"countMessage", "returned"}
             /\ call'[q] \in Asks /\ call'[q].op = "send"
             /\ message'[q].room = call'[q].of
             /\ message'[q].sender = call'[q].user
             /\ message'[q].sender \in message'[q].readBy
             /\ message'[q].sender \in Members(i)'
  <2>1. CASE q \in Sent
    <3>1. /\ pc[q] \in {"countMessage", "returned"} /\ call'[q] = call[q]
          /\ call[q] \in Asks /\ call[q].op = "send" /\ call[q].of \in Rooms
          /\ message'[q].room = call[q].of /\ message'[q].sender = call[q].user
          /\ message'[q].sender \in message'[q].readBy
          /\ i \in Rooms /\ message'[q].sender \in Members(i)
      BY <1>1, <1>2, <1>8, <2>1, MessageMoves DEF Sent, MessageFits, Asks
    <3>2. pc'[q] \in {"countMessage", "returned"}
      <4>1. CASE q # r
        BY <1>2, <3>1, <4>1
      <4>2. CASE q = r
        <5>1. pc[r] = "countMessage" /\ (CountMessage(r) \/ Stop(r))
          BY <1>2, <3>1, <4>2 DEF Step, Handle, Open, Ask, FindRoom, FindTask, InsertRoom,
            FindMembers, InsertMessage, ReadMessages, FindCounter, SaveCounter, SaveAgain,
            SaveRoom, Ready
        <5> QED
          BY <1>1, <4>2, <5>1 DEF CountMessage, Stop, Goto, ChatTypes
      <4> QED
        BY <4>1, <4>2
    <3> QED
      BY <1>4, <3>1, <3>2
  <2>2. CASE q \notin Sent
    <3>1. q = r /\ InsertMessage(r)
      BY <1>8, <2>2, MessageMoves DEF Sent
    <3>2. /\ pc'[r] = "countMessage" /\ call' = call /\ pc[r] = "insertMessage"
          /\ call[r] \in Asks /\ call[r].op = "send"
          /\ message'[r].room = call[r].of /\ message'[r].sender = call[r].user
          /\ message'[r].readBy = {call[r].user}
      BY <3>1, InsertMessageMoves
    <3>3. call[r].user \in Members(i) /\ i \in Rooms
      BY <1>1, <1>8, <3>1, <3>2 DEF MessageFits, Asks
    <3> QED
      BY <1>4, <3>1, <3>2, <3>3
  <2> QED
    BY <2>1, <2>2
<1> QED
  BY <1>5, <1>6, <1>7, <1>8 DEF MessageFits, Members

LEMMA RoomsStayDistinct ==
  ASSUME ChatInv, NEW r \in Requests, Step(r)
  PROVE  OneRoomPerConversation'
<1>1. ChatTypes /\ OneRoomPerConversation
  BY DEF ChatInv
<1>2. CASE InsertRoom(r) /\ room' # room
  <2>1. PICK i \in Rooms : /\ \A k \in Rooms : room[k].conversation # call[r].of
                           /\ room'[i].conversation = call[r].of
                           /\ room' = [room EXCEPT ![i] = room'[i]]
    BY <1>2, InsertRoomMoves
  <2>2. \A k \in Rooms \ {i} : room'[k] = room[k]
    BY <1>1, <2>1 DEF ChatTypes
  <2> QED
    BY <1>1, <2>1, <2>2 DEF OneRoomPerConversation
<1>3. CASE ~InsertRoom(r) \/ room' = room
  <2>1. \A i \in Rooms : room'[i].conversation = room[i].conversation
    <3>1. CASE CountMessage(r)
      BY <1>1, <3>1, CountMessageMoves DEF ChatTypes
    <3>2. CASE SaveCounter(r)
      BY <1>1, <3>2, SaveCounterMoves DEF ChatTypes
    <3>3. CASE room' = room
      BY <3>3
    <3> QED
      BY <1>3, <3>1, <3>2, <3>3, OthersWriteNothing DEF Writes, InsertMessage, ReadMessages
  <2>2. \A i \in Rooms : room'[i] # NoRoom => room[i] # NoRoom
    BY <1>1, <2>1, MembersOf, RoomMoves, TypesKept, Nothing DEF ChatTypes
  <2> QED
    BY <1>1, <2>1, <2>2 DEF OneRoomPerConversation
<1> QED
  BY <1>2, <1>3

LEMMA OverlapsNotedStill ==
  ASSUME ChatInv, NEW r \in Requests, Step(r)
  PROVE  OverlapsNoted'
<1>1. ChatTypes /\ CallFits /\ OverlapsNoted
  BY DEF ChatInv
<1>2. \A q \in Requests : pc[q] # "idle" => call'[q] = call[q]
  BY StepMoves
<1>3. Running' \subseteq Running \cup {r}
  BY StepMoves DEF Running
<1>4. overlaps \subseteq overlaps'
  BY StepMoves
<1>5. \A q \in Running : q \in Requests /\ pc[q] # "idle" /\ call'[q] = call[q]
  BY <1>2 DEF Running
<1>6. CASE r \in Running
  <2>1. Running' \subseteq Running
    BY <1>3, <1>6
  <2> QED
    BY <1>1, <1>4, <1>5, <2>1 DEF OverlapsNoted
<1>7. CASE r \notin Running
  <2>1. pc[r] = "idle"
    BY <1>7, StepMoves DEF Running
  <2>2. CASE \E u \in Users, c \in Conversations : Open(r, u, c)
    <3>1. call'[r] \notin Asks
      BY <1>1, <2>2 DEF ChatTypes, Open, Asks
    <3> QED
      BY <1>1, <1>3, <1>4, <1>5, <3>1 DEF OverlapsNoted
  <2>3. CASE \E u \in Users, op \in {"send", "read"}, i \in Rooms : Ask(r, op, u, i)
    <3>1. PICK u \in Users, op \in {"send", "read"}, i \in Rooms : Ask(r, op, u, i)
      BY <2>3
    <3>2. /\ call'[r].of = i
          /\ overlaps' = overlaps \cup {{r, s} : s \in {s \in Running : call[s].of = i}}
      BY <1>1, <3>1 DEF ChatTypes, Ask
    <3>3. \A s \in Running : call'[s].of = call'[r].of => {r, s} \in overlaps' /\ {s, r} \in overlaps'
      BY <1>5, <3>2
    <3> QED
      BY <1>1, <1>3, <1>4, <1>5, <3>3 DEF OverlapsNoted
  <2>4. CASE Handle(r) \/ Stop(r)
    BY <2>1, <2>4 DEF Handle, Stop, FindRoom, FindTask, InsertRoom, FindMembers, InsertMessage,
      CountMessage, ReadMessages, FindCounter, SaveCounter, SaveAgain, SaveRoom, Ready, Running
  <2> QED
    BY <2>2, <2>3, <2>4 DEF Step
<1> QED
  BY <1>6, <1>7

-----------------------------------------------------------------------------
(* What u has been sent, and what of it waits to be counted or read. *)
LEMMA FiniteCounts ==
  ASSUME ChatInv, NEW u, NEW i
  PROVE  /\ Pending(u, i) \subseteq SentTo(u, i) /\ Unread(u, i) \subseteq SentTo(u, i)
         /\ IsFiniteSet(SentTo(u, i)) /\ IsFiniteSet(Pending(u, i)) /\ IsFiniteSet(Unread(u, i))
         /\ Cardinality(SentTo(u, i)) \in Nat /\ Cardinality(Pending(u, i)) \in Nat
         /\ Cardinality(Unread(u, i)) \in Nat
<1>1. IsFiniteSet(Sent) /\ SentTo(u, i) \subseteq Sent
  BY DEF ChatInv, SentSoFar, SentTo
<1>2. Pending(u, i) \subseteq SentTo(u, i) /\ Unread(u, i) \subseteq SentTo(u, i)
  BY DEF Pending, Unread
<1>3. IsFiniteSet(SentTo(u, i)) /\ IsFiniteSet(Pending(u, i)) /\ IsFiniteSet(Unread(u, i))
  BY <1>1, <1>2, FS_Subset
<1> QED
  BY <1>2, <1>3, FS_CardinalityType

LEMMA CounterIsNumber ==
  ASSUME ChatInv, NEW i \in Rooms, NEW u \in Users
  PROVE  Count(room[i].unread[u]) \in Nat
BY ChatAssumption DEF ChatInv, ChatTypes, Room, Count

LEMMA NoRoomNoMessages ==
  ASSUME ChatInv, NEW i \in Rooms, room[i] = NoRoom, NEW u \in Users
  PROVE  SentTo(u, i) = {} /\ Count(room[i].unread[u]) = 0
<1>1. \A s \in Sent : message[s].room # i
  BY DEF ChatInv, MessageFits, Sent, Members
<1>2. Count(room[i].unread[u]) = 0
  BY Nothing DEF Count
<1> QED
  BY <1>1, <1>2 DEF SentTo

Sends(r, u, i) == InsertMessage(r) /\ call[r].of = i /\ call[r].user # u
Counts(r, u, i) == CountMessage(r) /\ call[r].of = i /\ call[r].user # u
Reads(r, u, i) == ReadMessages(r) /\ call[r].of = i /\ call[r].user = u
Saves(r, u, i) == SaveCounter(r) /\ call[r].of = i /\ call[r].user = u
                    /\ r \notin stale /\ found[r] # 0

LEMMA SentMoves ==
  ASSUME ChatInv, NEW r \in Requests, Step(r), NEW u \in Users, NEW i \in Rooms
  PROVE  /\ Sends(r, u, i) => r \notin SentTo(u, i)
         /\ SentTo(u, i)' = IF Sends(r, u, i) THEN SentTo(u, i) \cup {r} ELSE SentTo(u, i)
<1>1. CASE InsertMessage(r)
  <2>1. /\ Sent' = Sent \cup {r} /\ r \notin Sent
        /\ message'[r].room = call[r].of /\ message'[r].sender = call[r].user
    BY <1>1, InsertMessageMoves
  <2>2. \A s \in Sent : message'[s].room = message[s].room /\ message'[s].sender = message[s].sender
    BY MessageMoves
  <2> QED
    BY <1>1, <2>1, <2>2 DEF SentTo, Sends
<1>2. CASE ~InsertMessage(r)
  <2>1. Sent' = Sent
    BY <1>2, MessageMoves
  <2>2. \A s \in Sent : message'[s].room = message[s].room /\ message'[s].sender = message[s].sender
    BY MessageMoves
  <2> QED
    BY <1>2, <2>1, <2>2 DEF SentTo, Sends
<1> QED
  BY <1>1, <1>2

LEMMA PendingMoves ==
  ASSUME ChatInv, NEW r \in Requests, Step(r), NEW u \in Users, NEW i \in Rooms
  PROVE  /\ Counts(r, u, i) => r \in Pending(u, i)
         /\ Pending(u, i)' = IF Sends(r, u, i) THEN Pending(u, i) \cup {r}
                             ELSE IF Counts(r, u, i) THEN Pending(u, i) \ {r} ELSE Pending(u, i)
<1>1. /\ ChatTypes /\ MessageFits
      /\ \A q \in Requests \ {r} : pc'[q] = pc[q]
  BY StepMoves DEF ChatInv
<1>2. SentTo(u, i)' = IF Sends(r, u, i) THEN SentTo(u, i) \cup {r} ELSE SentTo(u, i)
  BY SentMoves
<1>3. SentTo(u, i) \subseteq Requests
  BY DEF SentTo, Sent
<1>4. CASE Sends(r, u, i)
  <2>1. pc'[r] = "countMessage" /\ r \notin SentTo(u, i)
    BY <1>4, InsertMessageMoves DEF Sends, SentTo
  <2> QED
    BY <1>1, <1>2, <1>3, <1>4, <2>1 DEF Pending, Counts, CountMessage, Sends, InsertMessage, Ready
<1>5. CASE Counts(r, u, i)
  <2>1. /\ pc[r] = "countMessage" /\ pc'[r] = "returned" /\ r \in SentTo(u, i)
        /\ ~Sends(r, u, i)
    BY <1>5, CountMessageMoves DEF Counts, SentTo, Sends, InsertMessage, Ready
  <2> QED
    BY <1>1, <1>2, <1>3, <1>5, <2>1 DEF Pending
<1>6. CASE ~Sends(r, u, i) /\ ~Counts(r, u, i)
  <2>1. r \in SentTo(u, i) => pc'[r] = pc[r]
    <3>1. SUFFICES ASSUME r \in SentTo(u, i)
                   PROVE  pc'[r] = pc[r]
      OBVIOUS
    <3>2. /\ pc[r] \in {"countMessage", "returned"} /\ call[r].of = i /\ call[r].user # u
      BY <1>1, <3>1 DEF SentTo, Sent, MessageFits
    <3>3. pc[r] = "countMessage"
      BY <3>2, StepMoves
    <3>4. Stop(r)
      BY <1>6, <3>2, <3>3 DEF Counts, Step, Handle, Open, Ask, FindRoom, FindTask, InsertRoom,
        FindMembers, InsertMessage, ReadMessages, FindCounter, SaveCounter, SaveAgain, SaveRoom,
        Ready
    <3> QED
      BY <3>4 DEF Stop
  <2> QED
    BY <1>1, <1>2, <1>3, <1>6, <2>1 DEF Pending
<1> QED
  BY <1>4, <1>5, <1>6

LEMMA UnreadMoves ==
  ASSUME ChatInv, NEW r \in Requests, Step(r), NEW u \in Users, NEW i \in Rooms
  PROVE  /\ Sends(r, u, i) => r \notin Unread(u, i)
         /\ Unread(u, i)' = IF Sends(r, u, i) THEN Unread(u, i) \cup {r}
                            ELSE IF Reads(r, u, i) THEN {} ELSE Unread(u, i)
<1>1. SentTo(u, i)' = IF Sends(r, u, i) THEN SentTo(u, i) \cup {r} ELSE SentTo(u, i)
  BY SentMoves
<1>2. SentTo(u, i) \subseteq Sent
  BY DEF SentTo
<1>3. CASE ReadMessages(r)
  <2>1. \A s \in Sent : message'[s].readBy = message[s].readBy \cup
          IF message[s].room = call[r].of THEN {call[r].user} ELSE {}
    BY <1>3, ReadMessagesMoves
  <2>2. ~Sends(r, u, i)
    BY <1>3 DEF ReadMessages, Sends, InsertMessage, Ready
  <2>3. \A s \in SentTo(u, i) : message[s].room = i
    BY DEF SentTo
  <2>4. SentTo(u, i)' = SentTo(u, i)
    BY <1>1, <2>2
  <2>5. CASE Reads(r, u, i)
    BY <1>2, <2>1, <2>2, <2>3, <2>4, <2>5 DEF Unread, Reads
  <2>6. CASE ~Reads(r, u, i)
    <3>1. \A s \in SentTo(u, i) : u \in message'[s].readBy <=> u \in message[s].readBy
      BY <1>2, <1>3, <2>1, <2>3, <2>6 DEF Reads
    <3> QED
      BY <2>2, <2>4, <2>6, <3>1 DEF Unread
  <2> QED
    BY <2>5, <2>6
<1>4. CASE ~ReadMessages(r)
  <2>1. \A s \in Sent : message'[s] = message[s]
    BY <1>4, MessageMoves
  <2>2. CASE Sends(r, u, i)
    <3>1. u \notin message'[r].readBy /\ r \notin SentTo(u, i)
      BY <2>2, InsertMessageMoves, SentMoves DEF Sends
    <3> QED
      BY <1>1, <1>2, <2>1, <2>2, <3>1 DEF Unread
  <2>3. CASE ~Sends(r, u, i)
    BY <1>1, <1>2, <1>4, <2>1, <2>3 DEF Unread, Reads
  <2> QED
    BY <2>2, <2>3
<1> QED
  BY <1>3, <1>4

LEMMA CounterMoves ==
  ASSUME ChatInv, NEW r \in Requests, Step(r), NEW u \in Users, NEW i \in Rooms
  PROVE  Count(room'[i].unread[u]) =
           IF Counts(r, u, i) /\ u \in Members(i) THEN Count(room[i].unread[u]) + 1
           ELSE IF Saves(r, u, i) THEN 0 ELSE Count(room[i].unread[u])
<1>1. ChatTypes
  BY DEF ChatInv
<1>2. CASE InsertRoom(r) /\ room' # room
  <2>1. PICK k \in Rooms : /\ room'[k].unread = room[k].unread
                           /\ room' = [room EXCEPT ![k] = room'[k]]
    BY <1>2, InsertRoomMoves
  <2>2. room'[i].unread = room[i].unread
    BY <1>1, <2>1 DEF ChatTypes
  <2> QED
    BY <1>2, <2>2 DEF Counts, Saves, InsertRoom, CountMessage, SaveCounter, Ready
<1>3. CASE CountMessage(r)
  <2>1. ~Saves(r, u, i)
    BY <1>3 DEF Saves, CountMessage, SaveCounter, Ready
  <2>2. CASE call[r].of = i
    <3>1. room'[i].unread[u] = IF u \in Members(i) \ {call[r].user}
                                 THEN Count(room[i].unread[u]) + 1 ELSE room[i].unread[u]
      BY <1>3, <2>2, CountMessageMoves
    <3>2. Count(Count(room[i].unread[u]) + 1) = Count(room[i].unread[u]) + 1
      BY CounterIsNumber, ChatAssumption DEF Count
    <3> QED
      BY <1>3, <2>1, <2>2, <3>1, <3>2 DEF Counts
  <2>3. CASE call[r].of # i
    <3>1. room'[i] = room[i]
      BY <1>1, <1>3, <2>3, CountMessageMoves DEF ChatTypes
    <3> QED
      BY <2>1, <2>3, <3>1 DEF Counts
  <2> QED
    BY <2>2, <2>3
<1>4. CASE SaveCounter(r)
  <2>1. ~Counts(r, u, i)
    BY <1>4 DEF Counts, CountMessage, SaveCounter, Ready
  <2>2. CASE call[r].of = i
    <3>1. room'[i].unread[u] = IF r \notin stale /\ found[r] # 0 /\ u = call[r].user
                                 THEN 0 ELSE room[i].unread[u]
      BY <1>4, <2>2, SaveCounterMoves
    <3>2. Count(0) = 0
      BY ChatAssumption DEF Count
    <3> QED
      BY <1>4, <2>1, <2>2, <3>1, <3>2 DEF Saves
  <2>3. CASE call[r].of # i
    <3>1. room'[i] = room[i]
      BY <1>1, <1>4, <2>3, SaveCounterMoves DEF ChatTypes
    <3> QED
      BY <2>1, <2>3, <3>1 DEF Saves
  <2> QED
    BY <2>2, <2>3
<1>5. CASE room' = room /\ ~CountMessage(r) /\ ~SaveCounter(r)
  BY <1>5 DEF Counts, Saves
<1> QED
  BY <1>2, <1>3, <1>4, <1>5, OthersWriteNothing DEF Writes, InsertMessage, ReadMessages

-----------------------------------------------------------------------------
(* What a step does to the three numbers. *)
LEMMA SentNumber ==
  ASSUME ChatInv, NEW r \in Requests, Step(r), NEW u \in Users, NEW i \in Rooms
  PROVE  Cardinality(SentTo(u, i)') =
           Cardinality(SentTo(u, i)) + IF Sends(r, u, i) THEN 1 ELSE 0
<1>1. IsFiniteSet(SentTo(u, i)) /\ Cardinality(SentTo(u, i)) \in Nat
  BY FiniteCounts
<1> QED
  BY <1>1, SentMoves, FS_AddElement

LEMMA PendingNumber ==
  ASSUME ChatInv, NEW r \in Requests, Step(r), NEW u \in Users, NEW i \in Rooms
  PROVE  Cardinality(Pending(u, i)') =
           Cardinality(Pending(u, i)) + IF Sends(r, u, i) THEN 1
                                        ELSE IF Counts(r, u, i) THEN -1 ELSE 0
<1>1. IsFiniteSet(Pending(u, i)) /\ Cardinality(Pending(u, i)) \in Nat
  BY FiniteCounts
<1>2. CASE Sends(r, u, i)
  <2>1. r \notin Pending(u, i)
    BY <1>2, SentMoves DEF Pending
  <2> QED
    BY <1>1, <1>2, <2>1, PendingMoves, FS_AddElement
<1>3. CASE ~Sends(r, u, i) /\ Counts(r, u, i)
  BY <1>1, <1>3, PendingMoves, FS_RemoveElement
<1>4. CASE ~Sends(r, u, i) /\ ~Counts(r, u, i)
  BY <1>1, <1>4, PendingMoves
<1> QED
  BY <1>2, <1>3, <1>4

LEMMA UnreadNumber ==
  ASSUME ChatInv, NEW r \in Requests, Step(r), NEW u \in Users, NEW i \in Rooms, ~Reads(r, u, i)
  PROVE  Cardinality(Unread(u, i)') =
           Cardinality(Unread(u, i)) + IF Sends(r, u, i) THEN 1 ELSE 0
<1>1. IsFiniteSet(Unread(u, i)) /\ Cardinality(Unread(u, i)) \in Nat
  BY FiniteCounts
<1> QED
  BY <1>1, UnreadMoves, FS_AddElement

(* A request that reads is known by its label to be under way. *)
LEMMA ReaderIsFrom ==
  ASSUME ChatInv, NEW r \in Requests, pc[r] \in Reading
  PROVE  r \in From(call[r].of, "read")
BY DEF ChatInv, CallFits, From, Reading

LEMMA SendsReconcileStill ==
  ASSUME ChatInv, NEW r \in Requests, Step(r)
  PROVE  SendsReconcile'
<1>1. ChatTypes /\ SendsReconcile
  BY DEF ChatInv
<1>2. SUFFICES ASSUME NEW i \in Rooms, NEW u, u \in Members(i)',
                      \A q \in From(i, "read")' : call'[q].user # u
               PROVE  Count(room'[i].unread[u]) + Cardinality(Pending(u, i)')
                        = Cardinality(SentTo(u, i)')
  BY DEF SendsReconcile, Pending
<1>3. u \in Users
  BY <1>2, RoomMoves, ChatAssumption DEF Members, Room
<1>4. \A q \in From(i, "read") : call[q].user # u
  <2>1. \A q \in From(i, "read") : q \in From(i, "read")' /\ call'[q] = call[q]
    BY PremisesShrink, StepMoves DEF From
  <2> QED
    BY <1>2, <2>1
<1>5. ~Saves(r, u, i) /\ ~Reads(r, u, i)
  BY <1>4, ReaderIsFrom DEF Saves, Reads, SaveCounter, ReadMessages, Ready, Reading
<1>6. Count(room[i].unread[u]) + Cardinality(Pending(u, i)) = Cardinality(SentTo(u, i))
  <2>1. CASE u \in Members(i)
    BY <1>1, <1>4, <2>1 DEF SendsReconcile, Pending
  <2>2. CASE u \notin Members(i)
    <3>1. room[i] = NoRoom
      BY <1>2, <2>2, RoomMoves
    <3>2. SentTo(u, i) = {} /\ Pending(u, i) = {} /\ Count(room[i].unread[u]) = 0
      BY <1>3, <3>1, NoRoomNoMessages DEF Pending
    <3> QED
      BY <3>2, FS_EmptySet
  <2> QED
    BY <2>1, <2>2
<1>7. Counts(r, u, i) => u \in Members(i) /\ ~Sends(r, u, i)
  <2>1. Counts(r, u, i) => room[i] # NoRoom /\ ~InsertRoom(r) /\ ~Sends(r, u, i)
    BY CountMessageMoves DEF Counts, CountMessage, Sends, InsertMessage, InsertRoom, Ready
  <2> QED
    BY <1>2, <2>1, RoomMoves
<1>8. /\ Count(room'[i].unread[u]) = Count(room[i].unread[u]) + IF Counts(r, u, i) THEN 1 ELSE 0
      /\ Count(room[i].unread[u]) \in Nat
  BY <1>3, <1>5, <1>7, CounterMoves, CounterIsNumber
<1>9. Cardinality(Pending(u, i)) \in Nat /\ Cardinality(SentTo(u, i)) \in Nat
  BY FiniteCounts
<1>10. CASE Sends(r, u, i)
  BY <1>3, <1>6, <1>7, <1>8, <1>9, <1>10, SentNumber, PendingNumber
<1>11. CASE ~Sends(r, u, i)
  BY <1>3, <1>6, <1>7, <1>8, <1>9, <1>11, SentNumber, PendingNumber
<1> QED
  BY <1>10, <1>11

(* Two requests in one room of which nothing stopped have met. *)
LEMMA Met ==
  ASSUME ChatInv, NEW r \in Requests, NEW s \in Requests, r # s,
         pc[r] \in Sending \cup Reading, pc[s] \in Sending \cup Reading,
         NEW i, call[r].of = i, call[s].of = i, NoneStopped(i)
  PROVE  {r, s} \in overlaps
<1>1. r \in Running /\ s \in Running
  BY DEF NoneStopped, Running, Sending, Reading
<1>2. call[r] \in Asks /\ call[s] \in Asks
  BY DEF ChatInv, CallFits
<1> QED
  BY <1>1, <1>2 DEF ChatInv, OverlapsNoted

LEMMA SenderIsFrom ==
  ASSUME ChatInv, NEW s \in Requests, pc[s] \in Sending
  PROVE  s \in From(call[s].of, "send")
BY DEF ChatInv, CallFits, From, Sending

LEMMA DatedInOrderStill ==
  ASSUME ChatInv, NEW r \in Requests, Step(r)
  PROVE  DatedInOrder'
<1>1. ChatTypes /\ DatedInOrder /\ SentSoFar /\ MessageFits
  BY DEF ChatInv
<1>2. SUFFICES ASSUME NEW i \in Rooms, NoneStopped(i)', SendsApart(i)',
                      NEW s \in Sent', message'[s].room = i
               PROVE  IF pc'[s] = "countMessage"
                        THEN \A t \in Sent' : message'[t].room = i => message'[t].at <= message'[s].at
                        ELSE message'[s].at <= room'[i].lastMessageAt
  BY DEF DatedInOrder
<1>3. NoneStopped(i) /\ SendsApart(i)
  BY <1>2, PremisesShrink
<1>4. \A q \in Sent : message[q].room = i =>
        IF pc[q] = "countMessage"
          THEN \A t \in Sent : message[t].room = i => message[t].at <= message[q].at
          ELSE message[q].at <= room[i].lastMessageAt
  BY <1>1, <1>3 DEF DatedInOrder
<1>5. \A q \in Sent : message'[q].room = message[q].room /\ message'[q].at = message[q].at
  BY MessageMoves
<1>6. \A q \in Requests \ {r} : pc'[q] = pc[q]
  BY StepMoves
<1>7. \A q \in Sent : q \in Requests /\ message[q].at \in Nat
  BY <1>1 DEF Sent, ChatTypes, Message
<1>8. room[i].lastMessageAt \in Nat
  BY <1>1 DEF ChatTypes, Room
(* Nobody else sends to the room meanwhile. *)
<1>9. ASSUME pc[r] \in Sending, call[r].of = i,
             NEW q \in Sent, q # r, message[q].room = i
      PROVE  pc[q] # "countMessage"
  <2>1. SUFFICES ASSUME pc[q] = "countMessage"
                 PROVE  FALSE
    OBVIOUS
  <2>2. q \in Requests /\ call[q].of = i /\ pc[q] \in Sending
    BY <1>1, <1>9, <2>1 DEF Sent, MessageFits, Sending
  <2>3. {q, r} \in overlaps
    BY <1>3, <1>9, <2>2, Met
  <2>4. q \in From(i, "send") /\ r \in From(i, "send")
    BY <1>9, <2>2, SenderIsFrom
  <2> QED
    BY <1>3, <1>9, <2>3, <2>4 DEF SendsApart
<1>10. CASE InsertMessage(r)
  <2>1. /\ Sent' = Sent \cup {r} /\ r \notin Sent /\ room' = room
        /\ message'[r].room = call[r].of /\ message'[r].at = Cardinality(Sent) + 1
        /\ pc[r] \in Sending /\ pc'[r] = "countMessage"
    BY <1>10, InsertMessageMoves DEF InsertMessage, Sending
  <2>2. Cardinality(Sent) \in Nat /\ \A t \in Sent : message[t].at <= Cardinality(Sent) + 1
    BY <1>1, <1>7, FS_CardinalityType DEF SentSoFar
  <2>3. CASE s = r
    <3>1. \A t \in Sent' : message'[t].at <= message'[r].at
      BY <1>5, <2>1, <2>2
    <3> QED
      BY <2>1, <2>3, <3>1
  <2>4. CASE s # r
    <3>1. s \in Sent /\ pc'[s] = pc[s] /\ message[s].room = i
      BY <1>2, <1>5, <1>6, <1>7, <2>1, <2>4
    <3>2. pc[s] = "countMessage" => call[r].of # i
      BY <1>9, <2>1, <2>4, <3>1
    <3> QED
      BY <1>4, <1>5, <2>1, <3>1, <3>2
  <2> QED
    BY <2>3, <2>4
<1>11. CASE ~InsertMessage(r)
  <2>1. Sent' = Sent
    BY <1>11, MessageMoves
  <2>2. CASE CountMessage(r) /\ call[r].of = i
    <3>1. /\ r \in Sent /\ message[r].room = i /\ pc[r] = "countMessage" /\ pc'[r] = "returned"
          /\ room'[i].lastMessageAt = message[r].at
      BY <2>2, CountMessageMoves
    <3>2. message[s].at <= message[r].at
      BY <1>2, <1>4, <1>5, <2>1, <3>1
    <3>3. pc'[s] # "countMessage"
      <4>1. CASE s = r
        BY <3>1, <4>1
      <4>2. CASE s # r
        BY <1>2, <1>5, <1>6, <1>7, <1>9, <2>1, <2>2, <3>1, <4>2 DEF Sending
      <4> QED
        BY <4>1, <4>2
    <3> QED
      BY <1>5, <2>1, <3>1, <3>2, <3>3
  <2>3. CASE ~(CountMessage(r) /\ call[r].of = i)
    <3>1. room'[i].lastMessageAt = room[i].lastMessageAt
      <4>1. CASE InsertRoom(r) /\ room' # room
        <5>1. PICK k \in Rooms : /\ room'[k].lastMessageAt = room[k].lastMessageAt
                                 /\ room' = [room EXCEPT ![k] = room'[k]]
          BY <4>1, InsertRoomMoves
        <5> QED
          BY <1>1, <5>1 DEF ChatTypes
      <4>2. CASE CountMessage(r)
        BY <1>1, <2>3, <4>2, CountMessageMoves DEF ChatTypes
      <4>3. CASE SaveCounter(r)
        BY <1>1, <4>3, SaveCounterMoves DEF ChatTypes
      <4>4. CASE room' = room
        BY <4>4
      <4> QED
        BY <4>1, <4>2, <4>3, <4>4, OthersWriteNothing DEF Writes, InsertMessage, ReadMessages
    <3>2. pc'[s] = pc[s]
      <4>1. CASE s # r
        BY <1>6, <1>7, <2>1, <4>1
      <4>2. CASE s = r
        <5>1. pc[r] \in {"countMessage", "returned"} /\ call[r].of = i
          BY <1>1, <1>2, <1>5, <2>1, <4>2 DEF Sent, MessageFits
        <5>2. pc[r] = "countMessage"
          BY <5>1, StepMoves
        <5>3. Stop(r)
          BY <2>3, <5>1, <5>2 DEF Step, Handle, Open, Ask, FindRoom, FindTask, InsertRoom,
            FindMembers, InsertMessage, ReadMessages, FindCounter, SaveCounter, SaveAgain,
            SaveRoom, Ready
        <5> QED
          BY <4>2, <5>3 DEF Stop
      <4> QED
        BY <4>1, <4>2
    <3> QED
      BY <1>2, <1>4, <1>5, <2>1, <3>1, <3>2
  <2> QED
    BY <2>2, <2>3
<1> QED
  BY <1>10, <1>11

(* Who has marked the messages of a room and not ended. *)
LEMMA MarkedMoves ==
  ASSUME ChatInv, NEW r \in Requests, Step(r), NEW u, NEW i,
         ~FindCounter(r), ~Reads(r, u, i), ~(SaveCounter(r) /\ call[r].of = i /\ call[r].user = u)
  PROVE  Marked(u, i)' = Marked(u, i) /\ found' = found
<1>1. ChatTypes
  BY DEF ChatInv
<1>2. found' = found
  BY DEF Step, Handle, Open, Ask, Stop, FindRoom, FindTask, InsertRoom, FindMembers,
    InsertMessage, CountMessage, ReadMessages, SaveCounter, SaveAgain, SaveRoom
<1>3. \A q \in Requests \ {r} : pc'[q] = pc[q] /\ (pc[q] # "idle" => call'[q] = call[q])
  BY StepMoves
<1>4. CASE ReadMessages(r) \/ SaveCounter(r)
  <2>1. call' = call /\ pc[r] # "idle"
    BY <1>4 DEF ReadMessages, SaveCounter, Ready
  <2>2. ~(call[r].of = i /\ call[r].user = u)
    BY <1>4 DEF Reads
  <2> QED
    BY <1>2, <1>3, <2>1, <2>2 DEF Marked
<1>5. CASE Stop(r)
  BY <1>5 DEF Stop, Marked
<1>6. CASE ~ReadMessages(r) /\ ~SaveCounter(r) /\ ~Stop(r)
  <2>1. pc[r] \notin {"findCounter", "saveCounter"} /\ pc'[r] \notin {"findCounter", "saveCounter"}
    BY <1>1, <1>6 DEF ChatTypes, Step, Handle, Open, Ask, FindRoom, FindTask, InsertRoom,
      FindMembers, InsertMessage, CountMessage, SaveAgain, SaveRoom, Ready, Goto
  <2> QED
    BY <1>2, <1>3, <2>1 DEF Marked
<1> QED
  BY <1>2, <1>4, <1>5, <1>6

LEMMA CountedInOrderStill ==
  ASSUME ChatInv, NEW r \in Requests, Step(r)
  PROVE  CountedInOrder'
<1>1. ChatTypes /\ CallFits /\ MessageFits /\ CountedInOrder
  BY DEF ChatInv
<1>2. SUFFICES ASSUME NEW i \in Rooms, NEW u, u \in Members(i)', NoneStopped(i)', ReadsApart(u, i)'
               PROVE  /\ Marked(u, i)' = {} =>
                           Count(room'[i].unread[u]) + Cardinality(Pending(u, i)')
                             = Cardinality(Unread(u, i)')
                      /\ \A q \in Marked(u, i)' :
                           /\ Unread(u, i)' = {}
                           /\ pc'[q] = "saveCounter" /\ found'[q] = 0 =>
                                Count(room'[i].unread[u]) = 0
  BY DEF CountedInOrder
<1>3. u \in Users
  BY <1>2, RoomMoves, ChatAssumption DEF Members, Room
<1>4. NoneStopped(i) /\ ReadsApart(u, i)
  BY <1>2, PremisesShrink
<1>5. /\ Marked(u, i) = {} =>
           Count(room[i].unread[u]) + Cardinality(Pending(u, i)) = Cardinality(Unread(u, i))
      /\ \A q \in Marked(u, i) :
           /\ Unread(u, i) = {}
           /\ pc[q] = "saveCounter" /\ found[q] = 0 => Count(room[i].unread[u]) = 0
  <2>1. CASE u \in Members(i)
    BY <1>1, <1>4, <2>1 DEF CountedInOrder
  <2>2. CASE u \notin Members(i)
    <3>1. room[i] = NoRoom
      BY <1>2, <2>2, RoomMoves
    <3>2. Unread(u, i) = {} /\ Pending(u, i) = {} /\ Count(room[i].unread[u]) = 0
      BY <1>3, <3>1, NoRoomNoMessages DEF Pending, Unread
    <3> QED
      BY <3>2, FS_EmptySet
  <2> QED
    BY <2>1, <2>2
<1>6. /\ Count(room[i].unread[u]) \in Nat
      /\ Cardinality(Pending(u, i)) \in Nat /\ Cardinality(Unread(u, i)) \in Nat
  BY <1>3, CounterIsNumber, FiniteCounts
<1>7. \A q \in Requests \ {r} : pc'[q] = pc[q] /\ (pc[q] # "idle" => call'[q] = call[q])
  BY StepMoves
(* Nobody sends to the room while u reads it. *)
<1>8. ASSUME NEW q \in Requests, pc[q] \in Reading, call[q].of = i, call[q].user = u,
             NEW s \in Requests, pc[s] \in Sending, call[s].of = i
      PROVE  FALSE
  <2>1. q # s
    BY <1>8 DEF Reading, Sending
  <2>2. {q, s} \in overlaps
    BY <1>4, <1>8, <2>1, Met
  <2>3. q \in From(i, "read") /\ s \in From(i, "send")
    BY <1>8, ReaderIsFrom, SenderIsFrom
  <2> QED
    BY <1>4, <1>8, <2>2, <2>3 DEF ReadsApart
<1>9. CASE Sends(r, u, i) \/ Counts(r, u, i)
  <2>1. /\ pc[r] \in Sending /\ call[r].of = i
        /\ ~FindCounter(r) /\ ~ReadMessages(r) /\ ~SaveCounter(r) /\ ~InsertRoom(r)
        /\ ~(Sends(r, u, i) /\ Counts(r, u, i))
    BY <1>9 DEF Sends, Counts, InsertMessage, CountMessage, FindCounter, ReadMessages,
      SaveCounter, InsertRoom, Ready, Sending
  <2>2. Marked(u, i) = {}
    BY <1>8, <2>1 DEF Marked, Reading
  <2>3. Marked(u, i)' = {}
    BY <2>1, <2>2, MarkedMoves DEF Reads
  <2>4. Counts(r, u, i) => u \in Members(i)
    BY <1>2, <2>1, RoomMoves
  <2>5. /\ ~Reads(r, u, i) /\ ~Saves(r, u, i)
        /\ Count(room[i].unread[u]) + Cardinality(Pending(u, i)) = Cardinality(Unread(u, i))
    BY <1>5, <2>1, <2>2 DEF Reads, Saves
  <2>6. Count(room'[i].unread[u]) + Cardinality(Pending(u, i)') = Cardinality(Unread(u, i)')
    <3>1. CASE Sends(r, u, i)
      BY <1>3, <1>6, <2>1, <2>5, <3>1, CounterMoves, PendingNumber, UnreadNumber
    <3>2. CASE Counts(r, u, i)
      BY <1>3, <1>6, <2>1, <2>4, <2>5, <3>2, CounterMoves, PendingNumber, UnreadNumber
    <3> QED
      BY <1>9, <3>1, <3>2
  <2> QED
    BY <2>3, <2>6
<1>10. CASE Reads(r, u, i)
  <2>1. /\ ~Sends(r, u, i) /\ ~Counts(r, u, i) /\ ~Saves(r, u, i)
        /\ call' = call /\ found' = found /\ r \in Requests
    BY <1>10 DEF Reads, Sends, Counts, Saves, ReadMessages, InsertMessage, CountMessage,
      SaveCounter, Ready
  <2>2. pc'[r] = "findCounter" /\ call[r].user = u /\ call[r].of = i
    BY <1>10, ReadMessagesMoves DEF Reads
  <2>3. r \in Marked(u, i)' /\ Unread(u, i)' = {}
    BY <1>3, <1>10, <2>1, <2>2, UnreadMoves DEF Marked
  <2>4. Count(room'[i].unread[u]) = Count(room[i].unread[u])
    BY <1>3, <2>1, CounterMoves
  <2>5. ASSUME NEW q \in Marked(u, i)', pc'[q] = "saveCounter", found'[q] = 0
        PROVE  Count(room'[i].unread[u]) = 0
    <3>1. q \in Marked(u, i) /\ pc[q] = "saveCounter" /\ found[q] = 0
      BY <1>7, <2>1, <2>2, <2>5 DEF Marked
    <3> QED
      BY <1>5, <2>4, <3>1
  <2> QED
    BY <2>3, <2>5
<1>11. CASE SaveCounter(r) /\ call[r].of = i /\ call[r].user = u
  <2>1. /\ pc[r] = "saveCounter" /\ r \in Marked(u, i)
        /\ ~Sends(r, u, i) /\ ~Counts(r, u, i) /\ ~Reads(r, u, i)
    BY <1>11 DEF SaveCounter, Marked, Sends, Counts, Reads, InsertMessage, CountMessage,
      ReadMessages, Ready
  <2>2. Unread(u, i)' = {}
    BY <1>3, <1>5, <2>1, UnreadMoves
  <2>3. Count(room'[i].unread[u]) = 0
    <3>1. CASE found[r] = 0
      BY <1>3, <1>5, <2>1, <3>1, CounterMoves DEF Saves
    <3>2. CASE found[r] # 0
      <4>1. r \notin stale
        <5>1. pc'[r] # "idle" /\ call'[r] = call[r] /\ call[r].op = "read"
              /\ pc'[r] = IF r \in stale THEN "threw" ELSE "saveAgain"
          BY <1>11, SaveCounterMoves
        <5>2. r \in From(i, "read")'
          BY <1>11, <5>1 DEF From
        <5> QED
          BY <1>2, <1>11, <5>1, <5>2 DEF ReadsApart
      <4> QED
        BY <1>3, <1>11, <2>1, <3>2, <4>1, CounterMoves DEF Saves
    <3> QED
      BY <3>1, <3>2
  <2>4. Pending(u, i)' = {}
    <3>1. Pending(u, i) = {}
      <4>1. SUFFICES ASSUME NEW s \in Pending(u, i)
                     PROVE  FALSE
        OBVIOUS
      <4>2. s \in Requests /\ call[s].of = i /\ pc[s] \in Sending
        BY <1>1 DEF Pending, SentTo, Sent, MessageFits, Sending
      <4> QED
        BY <1>8, <1>11, <2>1, <4>2 DEF Reading
    <3> QED
      BY <1>3, <2>1, <3>1, PendingMoves
  <2> QED
    BY <2>2, <2>3, <2>4, FS_EmptySet
<1>12. CASE /\ ~Sends(r, u, i) /\ ~Counts(r, u, i) /\ ~Reads(r, u, i)
            /\ ~(SaveCounter(r) /\ call[r].of = i /\ call[r].user = u)
  <2>1. /\ Count(room'[i].unread[u]) = Count(room[i].unread[u])
        /\ Cardinality(Pending(u, i)') = Cardinality(Pending(u, i))
        /\ Cardinality(Unread(u, i)') = Cardinality(Unread(u, i))
        /\ Unread(u, i)' = Unread(u, i)
    BY <1>3, <1>6, <1>12, CounterMoves, PendingNumber, UnreadNumber, UnreadMoves DEF Saves
  <2>2. CASE FindCounter(r)
    <3>1. /\ call' = call /\ \A q \in Requests \ {r} : found'[q] = found[q]
          /\ pc[r] = "findCounter" /\ call[r] \in Asks
      BY <1>1, <2>2 DEF FindCounter, Ready, ChatTypes, CallFits, Reading
    <3>2. CASE ~(call[r].of = i /\ call[r].user = u)
      <4>1. Marked(u, i)' = Marked(u, i) /\ r \notin Marked(u, i)
        BY <1>7, <3>1, <3>2 DEF Marked
      <4> QED
        BY <1>5, <1>7, <2>1, <3>1, <4>1 DEF Marked
    <3>3. CASE call[r].of = i /\ call[r].user = u
      <4>1. room[i] # NoRoom
        <5>1. ~InsertRoom(r)
          BY <2>2 DEF FindCounter, InsertRoom, Ready
        <5> QED
          BY <1>2, <5>1, RoomMoves DEF Members
      <4>2. pc'[r] = "saveCounter" /\ found'[r] = room[i].unread[u]
        BY <1>1, <2>2, <3>3, <4>1 DEF FindCounter, Goto, ChatTypes
      <4>3. Marked(u, i)' = Marked(u, i) /\ r \in Marked(u, i)
        BY <1>7, <3>1, <3>3, <4>2 DEF Marked
      <4>4. found'[r] = 0 => Count(room[i].unread[u]) = 0
        BY <4>2, ChatAssumption DEF Count
      <4> QED
        BY <1>5, <1>7, <2>1, <3>1, <4>3, <4>4 DEF Marked
    <3> QED
      BY <3>2, <3>3
  <2>3. CASE ~FindCounter(r)
    <3>1. Marked(u, i)' = Marked(u, i) /\ found' = found
      BY <1>12, <2>3, MarkedMoves
    <3>2. ASSUME NEW q \in Marked(u, i), pc'[q] = "saveCounter"
          PROVE  pc[q] = "saveCounter"
      <4>1. CASE q = r
        BY <1>1, <2>3, <3>2, <4>1 DEF Marked, ChatTypes, Step, Handle, Open, Ask, Stop, FindRoom,
          FindTask, InsertRoom, FindMembers, InsertMessage, CountMessage, ReadMessages,
          SaveCounter, SaveAgain, SaveRoom, Ready, Goto
      <4>2. CASE q # r
        BY <1>7, <3>2, <4>2 DEF Marked
      <4> QED
        BY <4>1, <4>2
    <3> QED
      BY <1>5, <2>1, <3>1, <3>2
  <2> QED
    BY <2>2, <2>3
<1> QED
  BY <1>9, <1>10, <1>11, <1>12

-----------------------------------------------------------------------------
(* The service with any rooms open from the start, one per conversation. *)
LEMMA ChatStarts ==
  ASSUME NEW opened \in [Rooms -> Conversations \cup {None}],
         \A i, k \in Rooms : opened[i] = opened[k] /\ opened[i] # None => i = k,
         InitWith(opened)
  PROVE  ChatInv
<1>1. \A i \in Rooms : /\ room[i] = [NoRoom EXCEPT !.conversation = opened[i]]
                       /\ room[i] \in Room /\ room[i].conversation = opened[i]
                       /\ opened[i] = None => room[i] = NoRoom
                       /\ room[i].unread = [u \in Users |-> None]
  BY DEF InitWith, NoRoom, Room
<1>2. Sent = {}
  BY DEF InitWith, Sent
<1>3. ChatTypes
  BY <1>1 DEF InitWith, ChatTypes, Labels
<1>4. CallFits /\ MessageFits /\ OverlapsNoted
  BY DEF InitWith, CallFits, Opening, Sending, Reading, MessageFits, OverlapsNoted, Running
<1>5. SentSoFar
  BY <1>2, FS_EmptySet DEF SentSoFar
<1>6. OneRoomPerConversation
  <2>1. \A i \in Rooms : /\ room[i].conversation = opened[i]
                         /\ opened[i] = None => room[i] = NoRoom
    BY <1>1
  <2> QED
    BY <2>1 DEF OneRoomPerConversation
<1>7. \A u, i : SentTo(u, i) = {} /\ Pending(u, i) = {} /\ Unread(u, i) = {} /\ Marked(u, i) = {}
  BY <1>2 DEF SentTo, Pending, Unread, Marked, InitWith
<1>8. \A i \in Rooms : \A u \in Members(i) : Count(room[i].unread[u]) = 0
  <2>1. ASSUME NEW i \in Rooms, NEW u \in Members(i)
        PROVE  Count(room[i].unread[u]) = 0
    <3>1. u \in Users
      BY <1>3, MembersOf
    <3>2. room[i].unread = [v \in Users |-> None]
      BY <1>1
    <3>3. room[i].unread[u] = None
      BY <3>1, <3>2
    <3> QED
      BY <3>3 DEF Count
  <2> QED
    BY <2>1
<1>9. SendsReconcile
  BY <1>7, <1>8, FS_EmptySet DEF SendsReconcile, Pending
<1>10. DatedInOrder /\ CountedInOrder
  BY <1>2, <1>7, <1>8, FS_EmptySet DEF DatedInOrder, CountedInOrder
<1> QED
  BY <1>3, <1>4, <1>5, <1>6, <1>9, <1>10 DEF ChatInv

LEMMA ChatStepKeeps ==
  ASSUME ChatInv, NEW r \in Requests, Step(r)
  PROVE  ChatInv'
BY TypesKept, MessagesFitStill, RoomsStayDistinct, SendsReconcileStill, OverlapsNotedStill,
  DatedInOrderStill, CountedInOrderStill DEF ChatInv

LEMMA ChatStutters ==
  ASSUME ChatInv, UNCHANGED chatVars
  PROVE  ChatInv'
<1> USE DEF ChatInv, chatVars
<1>1. /\ Sent' = Sent /\ Running' = Running
      /\ \A i : Members(i)' = Members(i)
      /\ \A i, op : From(i, op)' = From(i, op)
  BY DEF Sent, Running, Members, From
<1>2. \A u, i : SentTo(u, i)' = SentTo(u, i) /\ Marked(u, i)' = Marked(u, i)
  BY <1>1 DEF SentTo, Marked
<1>3. \A u, i : Pending(u, i)' = Pending(u, i) /\ Unread(u, i)' = Unread(u, i)
  BY <1>2 DEF Pending, Unread
<1>4. ChatTypes' /\ CallFits' /\ MessageFits' /\ SentSoFar' /\ OneRoomPerConversation'
  BY <1>1 DEF ChatTypes, CallFits, MessageFits, SentSoFar, OneRoomPerConversation, Members
<1>5. OverlapsNoted' /\ DatedInOrder'
  BY <1>1 DEF OverlapsNoted, DatedInOrder, NoneStopped, SendsApart
<1>6. SendsReconcile'
  <2>1. SendsReconcile = \A i \in Rooms : \A u \in Members(i) :
          (\A q \in From(i, "read") : call[q].user # u) =>
            Count(room[i].unread[u]) + Cardinality(Pending(u, i)) = Cardinality(SentTo(u, i))
    BY DEF SendsReconcile, Pending
  <2>2. SendsReconcile' = \A i \in Rooms : \A u \in Members(i)' :
          (\A q \in From(i, "read")' : call'[q].user # u) =>
            Count(room'[i].unread[u]) + Cardinality(Pending(u, i)') = Cardinality(SentTo(u, i)')
    BY DEF SendsReconcile, Pending
  <2> QED
    BY <1>1, <1>2, <1>3, <2>1, <2>2
<1>7. CountedInOrder'
  BY <1>1, <1>2, <1>3 DEF CountedInOrder, NoneStopped, ReadsApart
<1> QED
  BY <1>4, <1>5, <1>6, <1>7

(* The inductive invariant, which carries all that follows. *)
THEOREM ChatInvariant == Spec => []ChatInv
<1>1. Init => ChatInv
  BY ChatStarts DEF Init
<1>2. ChatInv /\ [Next]_chatVars => ChatInv'
  BY NextIsStep, ChatStepKeeps, ChatStutters
<1> QED
  BY <1>1, <1>2, PTL DEF Spec

(* Documents and requests have their types. *)
THEOREM TypeCorrect == Spec => []TypeOK
<1>1. ChatInv => TypeOK
  <2>1. SUFFICES ASSUME ChatInv  PROVE TypeOK
    OBVIOUS
  <2>2. ASSUME NEW r \in Requests
        PROVE  /\ message[r].room \in Rooms \cup {None} /\ message[r].sender \in Users \cup {None}
               /\ message[r].readBy \subseteq Users
    <3>1. message[r] \in Message \/ message[r] = NoMessage
      BY <2>1 DEF ChatInv, ChatTypes
    <3>2. CASE message[r] \in Message
      BY <3>2 DEF Message
    <3>3. CASE message[r] = NoMessage
      BY <3>3 DEF NoMessage
    <3> QED
      BY <3>1, <3>2, <3>3
  <2> QED
    BY <2>1, <2>2 DEF ChatInv, ChatTypes, Room, TypeOK
<1> QED
  BY <1>1, ChatInvariant, PTL

(* findOrCreateRoom: people who open a conversation at the same moment get *)
(* one room, however their requests interleave.                            *)
THEOREM OneRoom == Spec => []OneRoomPerConversation
<1>1. ChatInv => OneRoomPerConversation
  BY DEF ChatInv
<1> QED
  BY <1>1, ChatInvariant, PTL

(* createMessage: no count of a message is lost or doubled among sends,    *)
(* stopped ones included.                                                  *)
THEOREM SendsAreCounted == Spec => []SendsReconcile
<1>1. ChatInv => SendsReconcile
  BY DEF ChatInv
<1> QED
  BY <1>1, ChatInvariant, PTL

(* A room that nobody uses and nobody left half-way has no pending work. *)
LEMMA QuietRoom ==
  ASSUME ChatInv, NEW i \in Rooms, Quiet(i)
  PROVE  /\ NoneStopped(i)
         /\ \A s \in Sent : message[s].room = i => pc[s] # "countMessage"
         /\ \A u : Pending(u, i) = {} /\ Marked(u, i) = {}
<1>1. ChatTypes /\ MessageFits
  BY DEF ChatInv
<1>2. \A q \in Requests : pc[q] \notin Over => call[q].of # i
  BY DEF Quiet, Running, Over
<1>3. NoneStopped(i)
  BY DEF Quiet, NoneStopped
<1>4. \A s \in Sent : message[s].room = i => pc[s] # "countMessage"
  BY <1>1, <1>2 DEF Sent, MessageFits, Over
<1>5. \A u : Pending(u, i) = {} /\ Marked(u, i) = {}
  BY <1>2, <1>4 DEF Pending, SentTo, Marked, Over
<1> QED
  BY <1>3, <1>4, <1>5

(* createMessage: sends that do not overlap leave a room with the date of  *)
(* its newest message.                                                     *)
THEOREM DatesAreOrderly == Spec => []OrderlyDates
<1>1. ChatInv => OrderlyDates
  <2>1. SUFFICES ASSUME ChatInv, NEW i \in Rooms, Quiet(i), SendsApart(i)
                 PROVE  \A s \in Sent : message[s].room = i =>
                          message[s].at <= room[i].lastMessageAt
    BY DEF OrderlyDates, SendsApart
  <2> QED
    BY <2>1, QuietRoom DEF ChatInv, DatedInOrder
<1> QED
  BY <1>1, ChatInvariant, PTL

(* createMessage and markAsRead: a member whose own reads overlap no send   *)
(* and do not fail has a counter equal to the number of unread messages,    *)
(* whatever reads of others fail over the version of the room.              *)
THEOREM CountersAreOrderly == Spec => []OrderlyCounters
<1>1. ChatInv => OrderlyCounters
  <2>1. SUFFICES ASSUME ChatInv, NEW i \in Rooms, NEW u \in Members(i),
                        Quiet(i), ReadsApart(u, i)
                 PROVE  Count(room[i].unread[u]) = Cardinality(Unread(u, i))
    BY DEF OrderlyCounters, ReadsApart
  <2>2. Count(room[i].unread[u]) + Cardinality(Pending(u, i)) = Cardinality(Unread(u, i))
    BY <2>1, QuietRoom DEF ChatInv, CountedInOrder
  <2>3. Pending(u, i) = {} /\ u \in Users
    BY <2>1, QuietRoom, MembersOf DEF ChatInv
  <2> QED
    BY <2>1, <2>2, <2>3, FS_EmptySet, CounterIsNumber
<1> QED
  BY <1>1, ChatInvariant, PTL

-----------------------------------------------------------------------------
Pull == [at : {"idle", "ids", "messages", "answer"}, ids : SUBSET Rooms,
         messages : SUBSET Requests, before : SUBSET Requests]

PullTypes ==
  /\ newMessages \in [Devices -> SUBSET Requests]
  /\ held \in [Devices -> SUBSET Requests]
  /\ pull \in [Devices -> Pull]

(* A pull finds what was stored when it began and is newer than the cursor, *)
(* in the rooms whose ids it has read.                                      *)
PullFits == \A u \in Devices :
  /\ pull[u].before \subseteq Sent
  /\ \A s \in pull[u].before : u \in Members(message[s].room) =>
       /\ pull[u].at = "messages" => message[s].room \in pull[u].ids
       /\ pull[u].at = "answer" /\ s \in newMessages[u] => s \in pull[u].messages

(* A message is newer than the cursor from the moment it is dated. *)
DatedIsNew == \A u \in Devices, s \in Requests :
  pc[s] = "insertMessage" \/ (s \in Sent /\ u \in Members(message[s].room)) =>
    s \in newMessages[u] \cup held[u] \/ <<u, s>> \in late

PullInv == PullTypes /\ PullFits /\ DatedIsNew

Push == [at : {"idle", "running", "done", "failed"}, user : Devices \cup {None},
         room : Rooms \cup {None}, next : Nat \ {0}, current : Requests \cup {None}]

PushTypes ==
  /\ push \in [Pushes -> Push]
  /\ origin \in [Requests -> (Devices \X Nat) \cup {None}]

(* A push that runs has a device and a room; one that was answered has gone *)
(* through the batch; and it awaits the request that it made last.          *)
PushFits == \A p \in Pushes :
  /\ push[p].at # "idle" => push[p].user \in Devices /\ push[p].room \in Rooms
  /\ push[p].at = "idle" => push[p] = NoPush
  /\ push[p].at = "done" => push[p].next > BatchSize
  /\ push[p].current # None =>
       /\ push[p].at = "running" /\ push[p].next <= BatchSize
       /\ pc[push[p].current] # "idle"
       /\ origin[push[p].current] = <<push[p].user, push[p].next>>

(* The request for a message of a batch sends it before it returns. *)
OriginFits == \A r \in Requests : origin[r] # None =>
  /\ call[r].op = "send"
  /\ pc[r] \in Sending \cup {"returned", "threw"}
  /\ pc[r] = "returned" => r \in Sent

(* Every message that a push has gone past is stored and counted. *)
PassedIsStored == \A p \in Pushes, n \in Nat :
  1 <= n /\ n < push[p].next => \E t \in Sent : origin[t] = <<push[p].user, n>> /\ pc[t] = "returned"

(* A message is asked for when the one before it is stored. *)
AskedInOrder == \A r \in Requests, u \in Devices, n \in Nat :
  n > 1 /\ origin[r] = <<u, n>> => \E t \in Sent :
    /\ origin[t] = <<u, n - 1>>
    /\ r \in Sent => message[t].at < message[r].at

Asked(u, n) == {r \in Requests : origin[r] = <<u, n>>}

(* The pushes of u that may have asked for message n. *)
Reached(u, n) == {p \in Pushes :
  /\ push[p].user = u
  /\ \/ push[p].next > n
     \/ push[p].next = n /\ (push[p].current # None \/ push[p].at = "failed")}

Began(u) == {p \in Pushes : push[p].user = u}

(* No push asks for a message twice, and finitely many have begun. *)
AskedOncePerPush == \A u \in Devices :
  /\ IsFiniteSet(Began(u))
  /\ \A n \in Nat \ {0} : /\ IsFiniteSet(Asked(u, n))
                          /\ Cardinality(Asked(u, n)) <= Cardinality(Reached(u, n))

PushInv ==
  /\ PushTypes
  /\ PushFits
  /\ OriginFits
  /\ PassedIsStored
  /\ AskedInOrder
  /\ AskedOncePerPush

SyncInv == ChatInv /\ PullInv /\ PushInv

-----------------------------------------------------------------------------
(* What a step of the chat service does to the messages that devices pull  *)
(* and push.                                                                *)
LEMMA SyncMoves ==
  ASSUME ChatInv, NEW r \in Requests, Step(r)
  PROVE  /\ \A q \in Requests : pc[q] # "idle" => pc'[q] # "idle" /\ call'[q] = call[q]
         /\ \A q \in Requests : pc[q] \in {"returned", "threw"} => pc'[q] = pc[q]
         /\ Sent \subseteq Sent' /\ Sent' \subseteq Sent \cup {r}
         /\ r \in Sent' /\ r \notin Sent =>
              pc[r] = "insertMessage" /\ message'[r].at = Cardinality(Sent) + 1
         /\ \A s \in Sent : message'[s].room = message[s].room /\ message'[s].at = message[s].at
         /\ \A s \in Sent : Members(message[s].room)' = Members(message[s].room)
<1>1. ChatTypes /\ MessageFits
  BY DEF ChatInv
<1>2. /\ \A q \in Requests : pc[q] # "idle" => pc'[q] # "idle" /\ call'[q] = call[q]
      /\ \A q \in Requests : pc[q] \in {"returned", "threw"} => pc'[q] = pc[q]
  BY StepMoves
<1>3. /\ Sent' = IF InsertMessage(r) THEN Sent \cup {r} ELSE Sent
      /\ \A s \in Sent : message'[s].room = message[s].room /\ message'[s].at = message[s].at
  BY MessageMoves
<1>4. InsertMessage(r) => pc[r] = "insertMessage" /\ message'[r].at = Cardinality(Sent) + 1
  BY InsertMessageMoves
<1>5. ASSUME NEW s \in Sent, NEW i, i = message[s].room
      PROVE  Members(i)' = Members(i)
  <2>1. message[s] \in Message /\ i \in Rooms /\ message[s].sender \in Members(i)
    BY <1>1, <1>5 DEF Sent, ChatTypes, Message, MessageFits
  <2>2. room[i] # NoRoom
    BY <2>1 DEF Members
  <2> QED
    BY <2>1, <2>2, RoomMoves
<1>6. \A s \in Sent : Members(message[s].room)' = Members(message[s].room)
  <2> DEFINE M(i) == IF room'[i] = NoRoom THEN {} ELSE room'[i].conversation.members
  <2>1. \A i : Members(i)' = M(i)
    BY DEF Members
  <2>2. ASSUME NEW s \in Sent
        PROVE  M(message[s].room) = Members(message[s].room)
    BY <1>5, <2>1
  <2>3. ASSUME NEW s \in Sent, NEW i, i = message'[s].room
        PROVE  M(i) = Members(message[s].room)
    BY <1>3, <2>2, <2>3
  <2> QED
    BY <1>3, <2>3 DEF Members
<1> QED
  BY <1>2, <1>3, <1>4, <1>6

(* A step of the chat service that adds a message to what is newer than the *)
(* cursors when it dates it.                                                *)
LEMMA ChatStepKeepsPulls ==
  ASSUME ChatInv, PullInv, NEW r \in Requests, Step(r),
         held' = held, pull' = pull, late' = late,
         newMessages' \in [Devices -> SUBSET Requests],
         \A u \in Devices :
           /\ newMessages[u] \subseteq newMessages'[u]
           /\ newMessages'[u] \subseteq newMessages[u] \cup {r}
           /\ r \in newMessages'[u] \ newMessages[u] => pc[r] = "findMembers"
           /\ pc'[r] = "insertMessage" => r \in newMessages'[u]
  PROVE  PullInv'
<1> USE DEF PullInv
<1>1. /\ Sent \subseteq Sent' /\ Sent' \subseteq Sent \cup {r}
      /\ r \in Sent' /\ r \notin Sent => pc[r] = "insertMessage"
      /\ \A s \in Sent : Members(message[s].room)' = Members(message[s].room)
      /\ \A s \in Sent : message'[s].room = message[s].room
      /\ \A q \in Requests \ {r} : pc'[q] = pc[q]
  BY SyncMoves, StepMoves
<1>2. \A s \in Sent : s \in Requests /\ pc[s] # "findMembers"
  BY DEF ChatInv, MessageFits, Sent
<1>3. PullTypes'
  BY DEF PullTypes
<1>4. PullFits'
  <2>1. ASSUME NEW u \in Devices, NEW s \in pull[u].before
        PROVE  /\ s \in Sent
               /\ message'[s].room = message[s].room
               /\ Members(message[s].room)' = Members(message[s].room)
               /\ s \in newMessages'[u] => s \in newMessages[u]
    <3>1. s \in Sent
      BY DEF PullFits
    <3> QED
      BY <1>1, <1>2, <3>1
  <2> QED
    BY <1>1, <2>1 DEF PullFits
<1>5. DatedIsNew'
  <2>1. ASSUME NEW u \in Devices, NEW s \in Requests,
               pc'[s] = "insertMessage" \/ (s \in Sent' /\ u \in Members(message[s].room)')
        PROVE  s \in newMessages'[u] \cup held[u] \/ <<u, s>> \in late
    <3>1. CASE pc[s] = "insertMessage" \/ (s \in Sent /\ u \in Members(message[s].room))
      BY <3>1 DEF DatedIsNew
    <3>2. CASE pc[s] # "insertMessage" /\ ~(s \in Sent /\ u \in Members(message[s].room))
      BY <1>1, <2>1, <3>2
    <3> QED
      BY <3>1, <3>2
  <2> QED
    BY <2>1 DEF DatedIsNew
<1> QED
  BY <1>3, <1>4, <1>5

(* Steps that leave the chat service alone leave this of it alone. *)
LEMMA ChatStands ==
  ASSUME UNCHANGED chatVars
  PROVE  /\ Sent' = Sent /\ message' = message /\ pc' = pc /\ call' = call
         /\ \A s : Members(message[s].room)' = Members(message[s].room)
         /\ \A i : Members(i)' = Members(i)
BY DEF chatVars, Sent, Members

LEMMA PullStepKeeps ==
  ASSUME ChatInv, PullInv, NEW u \in Devices,
         \/ PullRooms(u) \/ PullRoomIds(u) \/ PullMessages(u) \/ PullReturns(u) \/ PullFails(u)
  PROVE  PullInv'
<1> USE DEF PullInv
<1>1. PullTypes /\ pull[u] \in Pull
  BY DEF PullTypes
<1>2. UNCHANGED chatVars
  BY DEF PullRooms, PullRoomIds, PullMessages, PullReturns, PullFails
<1>3. /\ Sent' = Sent /\ message' = message /\ pc' = pc
      /\ \A s : Members(message[s].room)' = Members(message[s].room)
  BY <1>2, ChatStands
<1>4. \A s \in Sent : s \in Requests
  BY DEF Sent
(* Before the answer nothing but the pull itself changes. *)
<1>5. ASSUME NEW e \in Pull, pull' = [pull EXCEPT ![u] = e],
             newMessages' = newMessages, held' = held, late' = late,
             e.before \subseteq Sent,
             \A s \in e.before : u \in Members(message[s].room) =>
               /\ e.at = "messages" => message[s].room \in e.ids
               /\ e.at = "answer" /\ s \in newMessages[u] => s \in e.messages
      PROVE  PullInv'
  <2>1. pull'[u] = e /\ \A v \in Devices \ {u} : pull'[v] = pull[v]
    BY <1>1, <1>5 DEF PullTypes
  <2>2. PullTypes'
    BY <1>1, <1>5 DEF PullTypes
  <2>3. PullFits'
    BY <1>3, <1>5, <2>1 DEF PullFits
  <2>4. DatedIsNew'
    BY <1>3, <1>5 DEF DatedIsNew
  <2> QED
    BY <2>2, <2>3, <2>4
<1>6. CASE PullRooms(u)
  <2> DEFINE e == [at |-> "ids", ids |-> {}, messages |-> {}, before |-> Sent]
  <2>1. e \in Pull /\ e.at = "ids" /\ e.before = Sent
    BY <1>4 DEF Pull
  <2>2. /\ pull' = [pull EXCEPT ![u] = e]
        /\ newMessages' = newMessages /\ held' = held /\ late' = late
    BY <1>6 DEF PullRooms
  <2> HIDE DEF e
  <2> QED
    BY <1>5, <2>1, <2>2
<1>7. CASE PullRoomIds(u)
  <2> DEFINE ids == {i \in Rooms : u \in Members(i)}
             e   == [pull[u] EXCEPT !.at = "messages", !.ids = ids]
  <2>1. \A s \in Sent : u \in Members(message[s].room) => message[s].room \in ids
    <3>1. \A s \in Sent : message[s].room \in Rooms
      BY DEF ChatInv, ChatTypes, Sent, Message
    <3> QED
      BY <3>1
  <2>2. /\ pull' = [pull EXCEPT ![u] = e]
        /\ newMessages' = newMessages /\ held' = held /\ late' = late
    BY <1>7 DEF PullRoomIds
  <2>3. ids \in SUBSET Rooms
    OBVIOUS
  <2> HIDE DEF ids
  <2>4. e \in Pull /\ e.at = "messages" /\ e.before = pull[u].before /\ e.ids = ids
    BY <1>1, <2>3 DEF Pull
  <2> HIDE DEF e
  <2>5. e.before \subseteq Sent
    BY <2>4 DEF PullFits
  <2> QED
    BY <1>5, <2>1, <2>2, <2>4, <2>5
<1>8. CASE PullMessages(u)
  <2> DEFINE messages == {r \in Sent \cap newMessages[u] : message[r].room \in pull[u].ids}
             e        == [pull[u] EXCEPT !.at = "answer", !.messages = messages]
  <2>1. \A s \in pull[u].before : u \in Members(message[s].room) /\ s \in newMessages[u] => s \in messages
    BY <1>8 DEF PullMessages, PullFits
  <2>2. /\ pull' = [pull EXCEPT ![u] = e]
        /\ newMessages' = newMessages /\ held' = held /\ late' = late
    BY <1>8 DEF PullMessages
  <2>3. messages \in SUBSET Requests
    BY <1>4
  <2> HIDE DEF messages
  <2>4. e \in Pull /\ e.at = "answer" /\ e.before = pull[u].before /\ e.messages = messages
    BY <1>1, <2>3 DEF Pull
  <2> HIDE DEF e
  <2>5. e.before \subseteq Sent
    BY <2>4 DEF PullFits
  <2> QED
    BY <1>5, <2>1, <2>2, <2>4, <2>5
<1>9. CASE PullFails(u)
  <2>1. NoPull \in Pull /\ NoPull.before = {}
    BY DEF NoPull, Pull
  <2>2. /\ pull' = [pull EXCEPT ![u] = NoPull]
        /\ newMessages' = newMessages /\ held' = held /\ late' = late
    BY <1>9 DEF PullFails
  <2> QED
    BY <1>5, <2>1, <2>2
(* What the cursor passes over was given to the device, or noted. *)
<1>10. CASE PullReturns(u)
  <2>1. NoPull \in Pull /\ NoPull.before = {}
    BY DEF NoPull, Pull
  <2>2. /\ pull' = [pull EXCEPT ![u] = NoPull] /\ pull[u].at = "answer"
        /\ held' = [held EXCEPT ![u] = held[u] \cup pull[u].messages]
        /\ newMessages' = [newMessages EXCEPT ![u] = {}]
        /\ late' = late \cup ({u} \X (newMessages[u] \ (pull[u].messages \cup pull[u].before)))
    BY <1>10 DEF PullReturns
  <2>3. pull'[u] = NoPull /\ \A v \in Devices \ {u} : pull'[v] = pull[v]
    BY <1>1, <2>2 DEF PullTypes
  <2>4. /\ held'[u] = held[u] \cup pull[u].messages /\ newMessages'[u] = {}
        /\ \A v \in Devices \ {u} : held'[v] = held[v] /\ newMessages'[v] = newMessages[v]
    BY <1>1, <2>2 DEF PullTypes
  <2>5. PullTypes'
    <3>1. pull[u].messages \in SUBSET Requests
      BY <1>1 DEF Pull
    <3> QED
      BY <1>1, <2>1, <2>2, <3>1 DEF PullTypes
  <2>6. PullFits'
    BY <1>3, <2>1, <2>3, <2>4 DEF PullFits
  <2>7. DatedIsNew'
    <3>1. ASSUME NEW s \in Requests, s \in newMessages[u] \cup held[u] \/ <<u, s>> \in late,
                 pc[s] = "insertMessage" \/ (s \in Sent /\ u \in Members(message[s].room))
          PROVE  s \in held'[u] \/ <<u, s>> \in late'
      <4>1. CASE s \in pull[u].before
        <5>1. s \in Sent /\ pc[s] # "insertMessage"
          BY <4>1 DEF PullFits, ChatInv, MessageFits, Sent
        <5>2. s \in newMessages[u] => s \in pull[u].messages
          BY <2>2, <3>1, <4>1, <5>1 DEF PullFits
        <5> QED
          BY <2>2, <2>4, <3>1, <5>2
      <4>2. CASE s \notin pull[u].before
        BY <2>2, <2>4, <3>1, <4>2
      <4> QED
        BY <4>1, <4>2
    <3>2. \A v, s : <<v, s>> \in late => <<v, s>> \in late'
      BY <2>2
    <3> QED
      BY <1>3, <2>4, <3>1, <3>2 DEF DatedIsNew
  <2> QED
    BY <2>5, <2>6, <2>7
<1> QED
  BY <1>6, <1>7, <1>8, <1>9, <1>10

-----------------------------------------------------------------------------
(* What is stored of a batch stays stored and in its order. *)
LEMMA BatchStands ==
  ASSUME ChatInv, PushInv, NEW r \in Requests, Step(r)
  PROVE  /\ \A q \in Requests : origin[q] # None =>
              /\ call'[q].op = "send"
              /\ pc'[q] \in Sending \cup {"returned", "threw"}
              /\ pc'[q] = "returned" => q \in Sent'
         /\ \A u \in Devices, n \in Nat : (\E t \in Sent : origin[t] = <<u, n>> /\ pc[t] = "returned") =>
              \E t \in Sent' : origin[t] = <<u, n>> /\ pc'[t] = "returned"
         /\ \A q \in Requests, u \in Devices, n \in Nat :
              (\E t \in Sent : origin[t] = <<u, n>> /\ (q \in Sent => message[t].at < message[q].at)) =>
                \E t \in Sent' : origin[t] = <<u, n>> /\ (q \in Sent' => message'[t].at < message'[q].at)
<1>1. ChatTypes /\ CallFits /\ SentSoFar /\ PushTypes /\ OriginFits
  BY DEF ChatInv, PushInv
<1>2. /\ \A q \in Requests : pc[q] # "idle" => call'[q] = call[q]
      /\ \A q \in Requests : pc[q] \in {"returned", "threw"} => pc'[q] = pc[q]
      /\ \A q \in Requests \ {r} : pc'[q] = pc[q]
      /\ Sent \subseteq Sent' /\ Sent' \subseteq Sent \cup {r} /\ Sent \subseteq Requests
      /\ r \in Sent' /\ r \notin Sent => message'[r].at = Cardinality(Sent) + 1
      /\ \A s \in Sent : message'[s].at = message[s].at
  BY SyncMoves, StepMoves DEF Sent
<1>3. \A s \in Sent : message[s].at \in Nat /\ message[s].at <= Cardinality(Sent)
  BY <1>1 DEF Sent, ChatTypes, Message, SentSoFar
<1>4. Cardinality(Sent) \in Nat
  BY <1>1, FS_CardinalityType DEF SentSoFar
<1>5. ASSUME NEW q \in Requests, origin[q] # None
      PROVE  /\ call'[q].op = "send"
             /\ pc'[q] \in Sending \cup {"returned", "threw"}
             /\ pc'[q] = "returned" => q \in Sent'
  <2>1. /\ call[q].op = "send" /\ pc[q] \in Sending \cup {"returned", "threw"}
        /\ pc[q] = "returned" => q \in Sent
    BY <1>1, <1>5 DEF OriginFits
  <2>2. call'[q].op = "send"
    BY <1>2, <2>1 DEF Sending
  <2>3. CASE pc'[q] = pc[q]
    BY <1>2, <2>1, <2>2, <2>3
  <2>4. CASE pc'[q] # pc[q]
    <3>1. q = r /\ pc[r] \in Sending
      BY <1>2, <2>1, <2>4
    <3>2. FindMembers(r) \/ InsertMessage(r) \/ CountMessage(r)
      BY <1>2, <2>4, <3>1 DEF Step, Open, Ask, Stop, Handle, FindRoom, FindTask, InsertRoom,
        ReadMessages, FindCounter, SaveCounter, SaveAgain, SaveRoom, Ready, Sending
    <3>3. /\ pc'[r] \in Sending \cup {"returned", "threw"}
          /\ pc'[r] = "returned" => pc[r] = "countMessage"
      BY <1>1, <3>2 DEF FindMembers, InsertMessage, CountMessage, Ready, Goto, ChatTypes, Sending
    <3>4. pc[r] = "countMessage" => r \in Sent
      BY DEF ChatInv, MessageFits, Sent
    <3> QED
      BY <1>2, <2>2, <3>1, <3>3, <3>4
  <2> QED
    BY <2>3, <2>4
<1>6. ASSUME NEW q \in Requests, NEW t \in Sent, q \in Sent => message[t].at < message[q].at
      PROVE  q \in Sent' => message'[t].at < message'[q].at
  <2>1. CASE q \in Sent
    BY <1>2, <1>6, <2>1
  <2>2. CASE q \notin Sent
    BY <1>2, <1>3, <1>4, <2>2
  <2> QED
    BY <2>1, <2>2
<1> QED
  BY <1>2, <1>5, <1>6

(* The counts of requests and pushes when no request is added. *)
LEMMA AskedStands ==
  ASSUME PushInv, origin' = origin,
         \A u \in Devices : IsFiniteSet(Began(u)'),
         \A u \in Devices, n \in Nat \ {0} : Reached(u, n) \subseteq Reached(u, n)'
  PROVE  AskedOncePerPush'
<1>1. ASSUME NEW u \in Devices, NEW n \in Nat \ {0}
      PROVE  IsFiniteSet(Asked(u, n)') /\ Cardinality(Asked(u, n)') <= Cardinality(Reached(u, n)')
  <2>1. Asked(u, n)' = Asked(u, n)
    BY DEF Asked
  <2>2. IsFiniteSet(Asked(u, n)) /\ Cardinality(Asked(u, n)) <= Cardinality(Reached(u, n))
    BY DEF PushInv, AskedOncePerPush
  <2>3. Reached(u, n)' \subseteq Began(u)'
    BY DEF Reached, Began
  <2>4. IsFiniteSet(Reached(u, n)')
    BY <2>3, FS_Subset
  <2>5. IsFiniteSet(Reached(u, n)) /\ Cardinality(Reached(u, n)) <= Cardinality(Reached(u, n)')
    BY <2>4, FS_Subset
  <2>6. /\ Cardinality(Asked(u, n)) \in Nat /\ Cardinality(Reached(u, n)) \in Nat
        /\ Cardinality(Reached(u, n)') \in Nat
    BY <2>2, <2>4, <2>5, FS_CardinalityType
  <2> QED
    BY <2>1, <2>2, <2>5, <2>6
<1> QED
  BY <1>1 DEF AskedOncePerPush

LEMMA ChatStepKeepsPushes ==
  ASSUME ChatInv, PushInv, NEW r \in Requests, Step(r), push' = push, origin' = origin
  PROVE  PushInv'
<1> USE DEF PushInv
<1>1. \A q \in Requests : pc[q] # "idle" => pc'[q] # "idle"
  BY SyncMoves
<1>2. PushTypes'
  BY DEF PushTypes
<1>3. PushFits'
  BY <1>1 DEF PushFits, PushTypes, Push
<1>4. OriginFits'
  BY BatchStands DEF OriginFits
<1>5. PassedIsStored'
  <2>1. ASSUME NEW p \in Pushes, NEW n \in Nat, 1 <= n, n < push[p].next
        PROVE  \E t \in Sent' : origin[t] = <<push[p].user, n>> /\ pc'[t] = "returned"
    <3>1. \E t \in Sent : origin[t] = <<push[p].user, n>> /\ pc[t] = "returned"
      BY <2>1 DEF PassedIsStored
    <3>2. push[p].user \in Devices
      BY <2>1 DEF PushFits, NoPush
    <3> QED
      BY <3>1, <3>2, BatchStands
  <2> QED
    BY <2>1 DEF PassedIsStored
<1>6. AskedInOrder'
  <2>1. ASSUME NEW q \in Requests, NEW u \in Devices, NEW n \in Nat, n > 1, origin[q] = <<u, n>>
        PROVE  \E t \in Sent' : origin[t] = <<u, n - 1>> /\ (q \in Sent' => message'[t].at < message'[q].at)
    <3>1. n - 1 \in Nat
      BY <2>1
    <3>2. \E t \in Sent : origin[t] = <<u, n - 1>> /\ (q \in Sent => message[t].at < message[q].at)
      BY <2>1 DEF AskedInOrder
    <3> QED
      BY <3>1, <3>2, BatchStands
  <2> QED
    BY <2>1 DEF AskedInOrder
<1>7. AskedOncePerPush'
  <2>1. \A u, n : Reached(u, n)' = Reached(u, n) /\ Began(u)' = Began(u)
    BY DEF Reached, Began
  <2> QED
    BY <2>1, AskedStands DEF AskedOncePerPush
<1> QED
  BY <1>2, <1>3, <1>4, <1>5, <1>6, <1>7

(* applyChanges goes on to the next message of a batch. *)
LEMMA PushNextKeeps ==
  ASSUME ChatInv, PushInv, NEW p \in Pushes, NEW r \in Requests, PushNext(p, r),
         NEW u, u = push[p].user, NEW n, n = push[p].next
  PROVE  PushInv'
<1> USE DEF PushInv
<1>1. /\ PushTypes /\ push[p] \in Push /\ push[p].at = "running" /\ push[p].current = None
      /\ n \in Nat \ {0} /\ n <= BatchSize /\ u \in Devices /\ push[p].room \in Rooms
  BY DEF PushTypes, Push, PushNext, PushFits
<1>2. Ask(r, "send", u, push[p].room) /\ Step(r)
  BY <1>1, SyncAssumption DEF PushNext, Step
<1>3. pc[r] = "idle" /\ pc'[r] = "findMembers" /\ call'[r].op = "send" /\ Sent' = Sent /\ message' = message
  BY <1>2 DEF Ask, Ready, Goto, ChatInv, ChatTypes, docs, Sent
<1>4. /\ \A q \in Requests : pc[q] # "idle" => pc'[q] # "idle" /\ call'[q] = call[q]
      /\ \A q \in Requests \ {r} : pc'[q] = pc[q]
  BY <1>2, SyncMoves, StepMoves
<1>5. origin[r] = None
  BY <1>3 DEF OriginFits, Sending
<1>6. /\ push' = [push EXCEPT ![p].current = r]
      /\ origin' = [origin EXCEPT ![r] = <<u, n>>]
  BY DEF PushNext
<1>7. /\ push'[p] \in Push /\ push'[p].current = r
      /\ push'[p].at = push[p].at /\ push'[p].user = u /\ push'[p].room = push[p].room /\ push'[p].next = n
      /\ \A q \in Pushes \ {p} : push'[q] = push[q]
  BY <1>1, <1>6 DEF PushTypes, Push
<1>8. origin'[r] = <<u, n>> /\ \A q \in Requests \ {r} : origin'[q] = origin[q]
  BY <1>1, <1>6 DEF PushTypes
<1>9. r # None /\ <<u, n>> # None /\ <<u, n>> \in Devices \X Nat
  BY <1>1, SyncAssumption
<1>10. PushTypes'
  BY <1>1, <1>6, <1>7, <1>9 DEF PushTypes
<1>11. \A q \in Pushes : push[q].current # r
  BY <1>3, <1>9 DEF PushFits
<1>12. PushFits'
  <2>1. ASSUME NEW q \in Pushes \ {p}, push[q].current # None
        PROVE  pc'[push[q].current] # "idle" /\ origin'[push[q].current] = origin[push[q].current]
    <3>1. push[q].current \in Requests \ {r} /\ pc[push[q].current] # "idle"
      BY <1>11, <2>1 DEF PushTypes, Push, PushFits
    <3> QED
      BY <1>4, <1>8, <3>1
  <2> QED
    BY <1>1, <1>3, <1>7, <1>8, <2>1 DEF PushFits
<1>13. \A t \in Sent : t # r /\ t \in Requests
  BY <1>3 DEF ChatInv, MessageFits, Sent
<1>14. OriginFits'
  <2>1. \A q \in Requests \ {r} : origin'[q] # None =>
          /\ call'[q].op = "send"
          /\ pc'[q] \in Sending \cup {"returned", "threw"}
          /\ pc'[q] = "returned" => q \in Sent'
    BY <1>2, <1>8, BatchStands
  <2> QED
    BY <1>3, <2>1 DEF OriginFits, Sending
<1>15. PassedIsStored'
  BY <1>3, <1>4, <1>7, <1>8, <1>13 DEF PassedIsStored
<1>16. AskedInOrder'
  <2>1. ASSUME NEW q \in Requests, NEW v \in Devices, NEW m \in Nat, m > 1, origin'[q] = <<v, m>>
        PROVE  \E t \in Sent : origin'[t] = <<v, m - 1>> /\ (q \in Sent => message[t].at < message[q].at)
    <3>1. CASE q = r
      <4>1. v = u /\ m = n
        BY <1>8, <2>1, <3>1
      <4>2. m - 1 \in Nat /\ 1 <= m - 1 /\ m - 1 < push[p].next
        BY <1>1, <2>1, <4>1
      <4>3. PICK t \in Sent : origin[t] = <<u, m - 1>> /\ pc[t] = "returned"
        BY <4>2 DEF PassedIsStored
      <4> QED
        BY <1>8, <1>13, <3>1, <4>1, <4>3
    <3>2. CASE q # r
      <4>1. \E t \in Sent : origin[t] = <<v, m - 1>> /\ (q \in Sent => message[t].at < message[q].at)
        BY <1>8, <2>1, <3>2 DEF AskedInOrder
      <4> QED
        BY <1>8, <1>13, <4>1
    <3> QED
      BY <3>1, <3>2
  <2> QED
    BY <1>3, <2>1 DEF AskedInOrder
<1>17. AskedOncePerPush'
  <2>1. ASSUME NEW v \in Devices
        PROVE  Began(v)' = Began(v)
    BY <1>7 DEF Began
  <2>2. ASSUME NEW v \in Devices, NEW m \in Nat \ {0}, v # u \/ m # n
        PROVE  Asked(v, m)' = Asked(v, m) /\ Reached(v, m)' = Reached(v, m)
    <3>1. Asked(v, m)' = Asked(v, m)
      BY <1>5, <1>8, <1>9, <2>2, SyncAssumption DEF Asked
    <3>2. Reached(v, m)' = Reached(v, m)
      BY <1>1, <1>7, <2>2 DEF Reached
    <3> QED
      BY <3>1, <3>2
  <2>3. Asked(u, n)' = Asked(u, n) \cup {r} /\ r \notin Asked(u, n)
    BY <1>5, <1>8, <1>9 DEF Asked
  <2>4. Reached(u, n)' = Reached(u, n) \cup {p} /\ p \notin Reached(u, n)
    BY <1>1, <1>7, <1>9 DEF Reached
  <2>5. /\ IsFiniteSet(Asked(u, n)) /\ IsFiniteSet(Reached(u, n))
        /\ Cardinality(Asked(u, n)) <= Cardinality(Reached(u, n))
    <3>1. Reached(u, n) \subseteq Began(u) /\ IsFiniteSet(Began(u))
      BY <1>1 DEF Reached, Began, AskedOncePerPush
    <3> QED
      BY <1>1, <3>1, FS_Subset DEF AskedOncePerPush
  <2>6. /\ IsFiniteSet(Asked(u, n)')
        /\ Cardinality(Asked(u, n)') = Cardinality(Asked(u, n)) + 1
        /\ Cardinality(Reached(u, n)') = Cardinality(Reached(u, n)) + 1
    <3>1. ASSUME NEW S, IsFiniteSet(S), NEW x, x \notin S
          PROVE  IsFiniteSet(S \cup {x}) /\ Cardinality(S \cup {x}) = Cardinality(S) + 1
      BY <3>1, FS_AddElement
    <3>2. /\ IsFiniteSet(Asked(u, n) \cup {r})
          /\ Cardinality(Asked(u, n) \cup {r}) = Cardinality(Asked(u, n)) + 1
      BY <2>3, <2>5, <3>1
    <3>3. Cardinality(Reached(u, n) \cup {p}) = Cardinality(Reached(u, n)) + 1
      BY <2>4, <2>5, <3>1
    <3> QED
      BY <2>3, <2>4, <3>2, <3>3
  <2>7. Cardinality(Asked(u, n)) \in Nat /\ Cardinality(Reached(u, n)) \in Nat
    BY <2>5, FS_CardinalityType
  <2>8. ASSUME NEW v \in Devices, NEW m \in Nat \ {0}
        PROVE  IsFiniteSet(Asked(v, m)') /\ Cardinality(Asked(v, m)') <= Cardinality(Reached(v, m)')
    <3>1. CASE v = u /\ m = n
      BY <2>5, <2>6, <2>7, <3>1 DEF Asked
    <3>2. CASE v # u \/ m # n
      BY <2>2, <3>2 DEF AskedOncePerPush
    <3> QED
      BY <3>1, <3>2
  <2> QED
    BY <2>1, <2>8 DEF AskedOncePerPush
<1> QED
  BY <1>10, <1>12, <1>14, <1>15, <1>16, <1>17

(* The other steps of a push, told by its record after them. *)
LEMMA PushMoves ==
  ASSUME PushInv, UNCHANGED chatVars, origin' = origin,
         NEW p \in Pushes, NEW e \in Push, push' = [push EXCEPT ![p] = e],
         push[p].at \in {"idle", "running"},
         e.at # "idle", e.user \in Devices, e.room \in Rooms, e.current = None,
         e.at = "done" => e.next > BatchSize,
         push[p].at = "running" => e.user = push[p].user /\ e.next >= push[p].next,
         push[p].current # None => e.next > push[p].next \/ e.at = "failed",
         \A n \in Nat : 1 <= n /\ n < e.next =>
           \E t \in Sent : origin[t] = <<e.user, n>> /\ pc[t] = "returned"
  PROVE  PushInv'
<1> USE DEF PushInv
<1>1. Sent' = Sent /\ message' = message /\ pc' = pc /\ call' = call
  BY ChatStands
<1>2. PushTypes /\ push'[p] = e /\ \A q \in Pushes \ {p} : push'[q] = push[q]
  BY DEF PushTypes
<1>3. PushTypes'
  BY <1>2 DEF PushTypes
<1>4. PushFits'
  BY <1>1, <1>2 DEF PushFits
<1>5. OriginFits' /\ AskedInOrder'
  BY <1>1 DEF OriginFits, AskedInOrder
<1>6. PassedIsStored'
  BY <1>1, <1>2 DEF PassedIsStored
<1>7. AskedOncePerPush'
  <2>1. ASSUME NEW u \in Devices
        PROVE  IsFiniteSet(Began(u)')
    <3>1. IsFiniteSet(Began(u) \cup {p})
      BY FS_AddElement DEF AskedOncePerPush
    <3>2. Began(u)' \subseteq Began(u) \cup {p}
      BY <1>2 DEF Began
    <3> QED
      BY <3>1, <3>2, FS_Subset
  <2>2. ASSUME NEW u \in Devices, NEW n \in Nat \ {0}
        PROVE  Reached(u, n) \subseteq Reached(u, n)'
    <3>1. ASSUME p \in Reached(u, n)
          PROVE  p \in Reached(u, n)'
      <4>1. push[p].user = u /\ push[p].at = "running" /\ push[p].next \in Nat /\ e.next \in Nat
        BY <1>2, <3>1, SyncAssumption, ChatAssumption DEF Reached, PushFits, PushTypes, Push, NoPush
      <4> QED
        BY <1>2, <3>1, <4>1 DEF Reached
    <3>2. \A q \in Pushes \ {p} : q \in Reached(u, n) => q \in Reached(u, n)'
      BY <1>2 DEF Reached
    <3> QED
      BY <3>1, <3>2 DEF Reached
  <2> QED
    BY <2>1, <2>2, AskedStands
<1> QED
  BY <1>3, <1>4, <1>5, <1>6, <1>7

LEMMA PushStepKeeps ==
  ASSUME PushInv, NEW p \in Pushes,
         \/ \E u \in Devices, i \in Rooms : PushStart(p, u, i)
         \/ PushAwait(p) \/ PushReturns(p) \/ PushFails(p)
  PROVE  PushInv'
<1>1. PushTypes /\ PushFits /\ OriginFits /\ PassedIsStored /\ push[p] \in Push
  BY DEF PushInv, PushTypes
<1>2. CASE \E u \in Devices, i \in Rooms : PushStart(p, u, i)
  <2>1. PICK u \in Devices, i \in Rooms : PushStart(p, u, i)
    BY <1>2
  <2> DEFINE e == [at |-> "running", user |-> u, room |-> i, next |-> 1, current |-> None]
  <2>2. /\ e \in Push /\ e.at = "running" /\ e.user = u /\ e.room = i /\ e.next = 1 /\ e.current = None
        /\ push' = [push EXCEPT ![p] = e] /\ push[p].at = "idle" /\ push[p].current = None
        /\ UNCHANGED chatVars /\ origin' = origin
    BY <2>1 DEF PushStart, Push, NoPush
  <2>3. \A n \in Nat : ~(1 <= n /\ n < 1)
    OBVIOUS
  <2> HIDE DEF e
  <2> QED
    BY <2>2, <2>3, PushMoves
<1>3. CASE PushAwait(p)
  <2> DEFINE next == push[p].next + 1
             e    == [push[p] EXCEPT !.current = None, !.next = next]
             r    == push[p].current
  <2>1. /\ r # None /\ r \in Requests /\ pc[r] = "returned"
        /\ push[p].at = "running" /\ push[p].next <= BatchSize
        /\ origin[r] = <<push[p].user, push[p].next>>
        /\ push[p].user \in Devices /\ push[p].room \in Rooms /\ push[p].next \in Nat \ {0}
    BY <1>1, <1>3 DEF PushAwait, PushFits, Push
  <2>2. push' = [push EXCEPT ![p] = e] /\ UNCHANGED chatVars /\ origin' = origin
    BY <1>3 DEF PushAwait
  <2>3. /\ e \in Push /\ e.at = "running" /\ e.user = push[p].user /\ e.room = push[p].room
        /\ e.next = push[p].next + 1 /\ e.current = None
    <3>1. next \in Nat \ {0}
      BY <2>1
    <3> HIDE DEF next
    <3>2. /\ e \in Push /\ e.at = "running" /\ e.user = push[p].user /\ e.room = push[p].room
          /\ e.next = next /\ e.current = None
      BY <1>1, <2>1, <3>1 DEF Push
    <3> QED
      BY <3>2 DEF next
  <2>4. r \in Sent
    <3>1. <<push[p].user, push[p].next>> \in Users \X Nat
      BY <2>1, SyncAssumption
    <3>2. origin[r] # None
      BY <2>1, <3>1, SyncAssumption
    <3> QED
      BY <1>1, <2>1, <3>2 DEF OriginFits
  <2> HIDE DEF e, r, next
  <2>5. ASSUME NEW n \in Nat, 1 <= n, n < e.next
        PROVE  \E t \in Sent : origin[t] = <<e.user, n>> /\ pc[t] = "returned"
    <3>1. CASE n < push[p].next
      BY <1>1, <2>3, <2>5, <3>1 DEF PassedIsStored
    <3>2. CASE n = push[p].next
      BY <2>1, <2>3, <2>4, <3>2
    <3> QED
      BY <2>1, <2>3, <2>5, <3>1, <3>2
  <2>6. e.next >= push[p].next /\ e.next > push[p].next
    BY <2>1, <2>3
  <2> QED
    BY <2>1, <2>2, <2>3, <2>5, <2>6, PushMoves
<1>4. CASE PushReturns(p)
  <2> DEFINE e == [push[p] EXCEPT !.at = "done"]
  <2>1. push[p].at = "running" /\ push[p].next > BatchSize /\ push[p].next \in Nat \ {0}
    BY <1>1, <1>4 DEF PushReturns, Push
  <2>2. push[p].user \in Devices /\ push[p].room \in Rooms
    BY <1>1, <2>1 DEF PushFits
  <2>3. push[p].current = None
    BY <1>1, <2>1, SyncAssumption DEF PushFits
  <2>4. push' = [push EXCEPT ![p] = e] /\ UNCHANGED chatVars /\ origin' = origin
    BY <1>4 DEF PushReturns
  <2>5. /\ e \in Push /\ e.at = "done" /\ e.user = push[p].user /\ e.room = push[p].room
        /\ e.next = push[p].next /\ e.current = push[p].current
    BY <1>1 DEF Push
  <2> HIDE DEF e
  <2>6. \A n \in Nat : 1 <= n /\ n < e.next =>
          \E t \in Sent : origin[t] = <<e.user, n>> /\ pc[t] = "returned"
    BY <1>1, <2>5 DEF PassedIsStored
  <2>7. e.next > BatchSize /\ e.next >= push[p].next
    BY <2>1, <2>5
  <2> QED
    BY <2>1, <2>2, <2>3, <2>4, <2>5, <2>6, <2>7, PushMoves
<1>5. CASE PushFails(p)
  <2> DEFINE e == [push[p] EXCEPT !.at = "failed", !.current = None]
  <2>1. push[p].at = "running" /\ push[p].next \in Nat \ {0}
    BY <1>1, <1>5 DEF PushFails, Push
  <2>2. push[p].user \in Devices /\ push[p].room \in Rooms
    BY <1>1, <2>1 DEF PushFits
  <2>3. push' = [push EXCEPT ![p] = e] /\ UNCHANGED chatVars /\ origin' = origin
    BY <1>5 DEF PushFails
  <2>4. /\ e \in Push /\ e.at = "failed" /\ e.user = push[p].user /\ e.room = push[p].room
        /\ e.next = push[p].next /\ e.current = None
    BY <1>1 DEF Push
  <2> HIDE DEF e
  <2>5. \A n \in Nat : 1 <= n /\ n < e.next =>
          \E t \in Sent : origin[t] = <<e.user, n>> /\ pc[t] = "returned"
    BY <1>1, <2>4 DEF PassedIsStored
  <2>6. e.next >= push[p].next
    BY <2>1, <2>4
  <2> QED
    BY <2>1, <2>2, <2>3, <2>4, <2>5, <2>6, PushMoves
<1> QED
  BY <1>2, <1>3, <1>4, <1>5

-----------------------------------------------------------------------------
LEMMA SyncStarts == SyncInit => SyncInv
<1> SUFFICES ASSUME SyncInit PROVE SyncInv
  OBVIOUS
<1>1. \E opened \in [Rooms -> Conversations \cup {None}] :
        /\ \A i, k \in Rooms : opened[i] = opened[k] /\ opened[i] # None => i = k
        /\ InitWith(opened)
  <2>1. CASE Init
    <3>1. [i \in Rooms |-> None] \in [Rooms -> Conversations \cup {None}]
      OBVIOUS
    <3> QED
      BY <2>1, <3>1 DEF Init
  <2>2. ASSUME NEW i \in Rooms, NEW c \in Conversations,
               InitWith([k \in Rooms |-> IF k = i THEN c ELSE None])
        PROVE  \E opened \in [Rooms -> Conversations \cup {None}] :
                 /\ \A k, l \in Rooms : opened[k] = opened[l] /\ opened[k] # None => k = l
                 /\ InitWith(opened)
    <3> DEFINE opened == [k \in Rooms |-> IF k = i THEN c ELSE None]
    <3>1. /\ opened \in [Rooms -> Conversations \cup {None}]
          /\ \A k, l \in Rooms : opened[k] = opened[l] /\ opened[k] # None => k = l
          /\ InitWith(opened)
      BY <2>2
    <3> HIDE DEF opened
    <3> QED
      BY <3>1
  <2> QED
    BY <2>1, <2>2 DEF SyncInit
<1>2. PICK opened \in [Rooms -> Conversations \cup {None}] :
        /\ \A i, k \in Rooms : opened[i] = opened[k] /\ opened[i] # None => i = k
        /\ InitWith(opened)
  BY <1>1
<1>3. ChatInv
  BY <1>2, ChatStarts
<1>4. Sent = {} /\ \A r \in Requests : pc[r] = "idle"
  BY <1>2 DEF InitWith, Sent
<1>5. PullInv
  BY <1>4 DEF SyncInit, PullInv, PullTypes, PullFits, DatedIsNew, NoPull, Pull
<1>6. \A p \in Pushes : push[p] = NoPush /\ NoPush \in Push
  BY DEF SyncInit, NoPush, Push
<1>7. PushTypes /\ PushFits /\ OriginFits
  BY <1>6 DEF SyncInit, PushTypes, PushFits, OriginFits, NoPush
<1>8. PassedIsStored
  BY <1>6 DEF PassedIsStored, NoPush
<1>9. \A r \in Requests, u \in Devices, n \in Nat : origin[r] # <<u, n>>
  <2>1. \A u \in Devices, n \in Nat : <<u, n>> \in Users \X Nat
    BY SyncAssumption
  <2> QED
    BY <2>1, SyncAssumption DEF SyncInit
<1>10. AskedInOrder
  BY <1>9 DEF AskedInOrder
<1>11. AskedOncePerPush
  <2>1. \A u \in Devices, n \in Nat : Began(u) = {} /\ Asked(u, n) = {} /\ Reached(u, n) = {}
    BY <1>6, <1>9, ChatAssumption, SyncAssumption DEF Began, Asked, Reached, NoPush
  <2> QED
    BY <2>1, FS_EmptySet DEF AskedOncePerPush
<1> QED
  BY <1>3, <1>5, <1>7, <1>8, <1>10, <1>11 DEF SyncInv, PushInv

(* What devices know and push stands still when the pulls or pushes do. *)
LEMMA PullsStand ==
  ASSUME PullInv, UNCHANGED chatVars, UNCHANGED pullVars
  PROVE  PullInv'
BY ChatStands DEF PullInv, PullTypes, PullFits, DatedIsNew, pullVars

LEMMA PushesStand ==
  ASSUME PushInv, UNCHANGED chatVars, push' = push, origin' = origin
  PROVE  PushInv'
<1> USE DEF PushInv
<1>1. /\ Sent' = Sent /\ message' = message /\ pc' = pc /\ call' = call
  BY ChatStands
<1>2. PushTypes' /\ PushFits' /\ OriginFits'
  BY <1>1 DEF PushTypes, PushFits, OriginFits
<1>3. PassedIsStored' /\ AskedInOrder'
  BY <1>1 DEF PassedIsStored, AskedInOrder
<1>4. \A u, n : Reached(u, n)' = Reached(u, n) /\ Began(u)' = Began(u)
  BY DEF Reached, Began
<1>5. AskedOncePerPush'
  BY <1>4, AskedStands DEF AskedOncePerPush
<1> QED
  BY <1>2, <1>3, <1>5

LEMMA SyncStepKeeps == SyncInv /\ [SyncNext]_syncVars => SyncInv'
<1> SUFFICES ASSUME SyncInv, [SyncNext]_syncVars PROVE SyncInv'
  OBVIOUS
<1>1. ChatInv /\ PullInv /\ PushInv /\ PullTypes
  BY DEF SyncInv, PullInv
<1>2. CASE ChatStep
  <2>1. PICK r \in Requests :
          /\ \/ \E u \in Users, c \in Conversations : "open" \in Ops /\ Open(r, u, c)
             \/ \E u \in Users \ Devices, op \in Ops \ {"open"}, i \in Rooms : Ask(r, op, u, i)
             \/ Handle(r)
          /\ Dates(r)
          /\ UNCHANGED <<held, pull, late, pushVars>>
    BY <1>2 DEF ChatStep
  <2>2. Step(r)
    BY <2>1, ChatAssumption DEF Step
  <2>3. /\ newMessages' \in [Devices -> SUBSET Requests]
        /\ \A u \in Devices : newMessages'[u] =
             IF pc[r] = "findMembers" /\ pc'[r] = "insertMessage"
               THEN newMessages[u] \cup {r} ELSE newMessages[u]
    BY <1>1, <2>1 DEF Dates, PullTypes
  <2>4. pc'[r] = "insertMessage" => pc[r] = "findMembers"
    BY <1>1, <2>1 DEF Open, Ask, Handle, FindRoom, FindTask, InsertRoom, FindMembers,
      InsertMessage, CountMessage, ReadMessages, FindCounter, SaveCounter, SaveAgain, SaveRoom,
      Ready, Goto, ChatInv, ChatTypes
  <2>5. ChatInv'
    BY <1>1, <2>2, ChatStepKeeps
  <2>6. PullInv'
    BY <1>1, <2>1, <2>2, <2>3, <2>4, ChatStepKeepsPulls
  <2>7. PushInv'
    BY <1>1, <2>1, <2>2, ChatStepKeepsPushes DEF pushVars
  <2> QED
    BY <2>5, <2>6, <2>7 DEF SyncInv
<1>3. CASE ChatStops
  <2>1. PICK r \in Requests : Stop(r) /\ UNCHANGED <<pullVars, pushVars>>
    BY <1>3 DEF ChatStops
  <2>2. Step(r) /\ pc' = pc
    BY <2>1 DEF Step, Stop
  <2>3. ChatInv' /\ PushInv'
    BY <1>1, <2>1, <2>2, ChatStepKeeps, ChatStepKeepsPushes DEF pushVars
  <2>4. PullInv'
    <3>1. UNCHANGED docs
      BY <2>1 DEF Stop
    <3>2. /\ Sent' = Sent /\ message' = message
          /\ \A s : Members(message[s].room)' = Members(message[s].room)
      BY <3>1 DEF docs, Sent, Members
    <3> QED
      BY <1>1, <2>1, <2>2, <3>2 DEF PullInv, PullTypes, PullFits, DatedIsNew, pullVars
  <2> QED
    BY <2>3, <2>4 DEF SyncInv
<1>4. ASSUME NEW u \in Devices,
             \/ PullRooms(u) \/ PullRoomIds(u) \/ PullMessages(u) \/ PullReturns(u) \/ PullFails(u)
      PROVE  SyncInv'
  <2>1. UNCHANGED chatVars /\ push' = push /\ origin' = origin
    BY <1>4 DEF PullRooms, PullRoomIds, PullMessages, PullReturns, PullFails, pushVars
  <2>2. ChatInv'
    BY <1>1, <2>1, ChatStutters
  <2>3. PullInv'
    BY <1>1, <1>4, PullStepKeeps
  <2>4. PushInv'
    BY <1>1, <2>1, PushesStand
  <2> QED
    BY <2>2, <2>3, <2>4 DEF SyncInv
<1>5. ASSUME NEW p \in Pushes, NEW r \in Requests, PushNext(p, r)
      PROVE  SyncInv'
  <2>1. Ask(r, "send", push[p].user, push[p].room) /\ UNCHANGED pullVars
    BY <1>5 DEF PushNext
  <2>2. push[p].user \in Users /\ push[p].room \in Rooms
    BY <1>1, <1>5, SyncAssumption DEF PushNext, PushInv, PushFits
  <2>3. Step(r) /\ pc[r] = "idle" /\ pc'[r] = "findMembers"
    BY <1>1, <2>1, <2>2 DEF Step, Ask, Ready, Goto, ChatInv, ChatTypes
  <2>4. ChatInv'
    BY <1>1, <2>3, ChatStepKeeps
  <2>5. PullInv'
    BY <1>1, <2>1, <2>3, ChatStepKeepsPulls DEF pullVars, PullTypes
  <2>6. PushInv'
    BY <1>1, <1>5, PushNextKeeps
  <2> QED
    BY <2>4, <2>5, <2>6 DEF SyncInv
<1>6. ASSUME NEW p \in Pushes,
             \/ \E u \in Devices, i \in Rooms : PushStart(p, u, i)
             \/ PushAwait(p) \/ PushReturns(p) \/ PushFails(p)
      PROVE  SyncInv'
  <2>1. UNCHANGED chatVars /\ UNCHANGED pullVars
    BY <1>6 DEF PushStart, PushAwait, PushReturns, PushFails
  <2>2. ChatInv'
    BY <1>1, <2>1, ChatStutters
  <2>3. PullInv'
    BY <1>1, <2>1, PullsStand
  <2>4. PushInv'
    BY <1>1, <1>6, PushStepKeeps
  <2> QED
    BY <2>2, <2>3, <2>4 DEF SyncInv
<1>7. CASE UNCHANGED syncVars
  <2>1. UNCHANGED chatVars /\ UNCHANGED pullVars /\ push' = push /\ origin' = origin
    BY <1>7 DEF syncVars, pushVars
  <2> QED
    BY <1>1, <2>1, ChatStutters, PullsStand, PushesStand DEF SyncInv
<1> QED
  BY <1>2, <1>3, <1>4, <1>5, <1>6, <1>7 DEF SyncNext

(* What holds throughout of the chat service with devices that pull from it *)
(* and push to it.                                                          *)
THEOREM SyncInvariant == SyncSpec => []SyncInv
BY SyncStarts, SyncStepKeeps, PTL DEF SyncSpec

(* pullChanges and its cursor miss no message but those that were not       *)
(* stored when a pull began.                                                *)
THEOREM PullsAreOrderly == SyncSpec => []OrderlyPulls
<1>1. SyncInv => OrderlyPulls
  BY DEF SyncInv, PullInv, DatedIsNew, OrderlyPulls, Sent
<1> QED
  BY <1>1, SyncInvariant, PTL

(* applyChanges stores the messages of a batch in their order, and one that *)
(* is repeated stores each at most once more.                               *)
THEOREM PushesAreInOrder == SyncSpec => []PushedInOrder
<1>1. SyncInv => PushedInOrder
  <2> SUFFICES ASSUME SyncInv, NEW u \in Devices, NEW n \in 1..BatchSize
               PROVE  /\ Cardinality(Copies(u, n)) <= Cardinality({p \in Pushes : push[p].user = u})
                      /\ n > 1 => \A s \in Copies(u, n) :
                           \E t \in Copies(u, n - 1) : message[t].at < message[s].at
    BY DEF PushedInOrder
  <2>1. n \in Nat \ {0}
    BY SyncAssumption
  <2>2. Cardinality(Copies(u, n)) <= Cardinality(Began(u))
    <3>1. /\ IsFiniteSet(Asked(u, n)) /\ IsFiniteSet(Began(u))
          /\ Cardinality(Asked(u, n)) <= Cardinality(Reached(u, n))
      BY <2>1 DEF SyncInv, PushInv, AskedOncePerPush
    <3>2. Copies(u, n) \subseteq Asked(u, n) /\ Reached(u, n) \subseteq Began(u)
      BY DEF Copies, Asked, Sent, Reached, Began
    <3>3. /\ IsFiniteSet(Copies(u, n)) /\ Cardinality(Copies(u, n)) <= Cardinality(Asked(u, n))
          /\ IsFiniteSet(Reached(u, n)) /\ Cardinality(Reached(u, n)) <= Cardinality(Began(u))
      BY <3>1, <3>2, FS_Subset
    <3>4. /\ Cardinality(Copies(u, n)) \in Nat /\ Cardinality(Asked(u, n)) \in Nat
          /\ Cardinality(Reached(u, n)) \in Nat /\ Cardinality(Began(u)) \in Nat
      BY <3>1, <3>3, FS_CardinalityType
    <3> QED
      BY <3>1, <3>3, <3>4
  <2>3. ASSUME n > 1, NEW s \in Copies(u, n)
        PROVE  \E t \in Copies(u, n - 1) : message[t].at < message[s].at
    <3>1. s \in Sent /\ s \in Requests /\ origin[s] = <<u, n>>
      BY DEF Copies, Sent
    <3>2. \E t \in Sent : origin[t] = <<u, n - 1>> /\ message[t].at < message[s].at
      BY <2>1, <2>3, <3>1 DEF SyncInv, PushInv, AskedInOrder
    <3> QED
      BY <3>2 DEF Copies
  <2> QED
    BY <2>2, <2>3 DEF Began
<1> QED
  BY <1>1, SyncInvariant, PTL

(* A push that is answered with success has stored and counted its batch.   *)
THEOREM PushesAreStored == SyncSpec => []PushedIsStored
<1>1. SyncInv => PushedIsStored
  <2> SUFFICES ASSUME SyncInv, NEW p \in Pushes, push[p].at = "done", NEW n \in 1..BatchSize
               PROVE  \E s \in Copies(push[p].user, n) : pc[s] = "returned"
    BY DEF PushedIsStored
  <2>1. push[p].next \in Nat /\ push[p].next > BatchSize /\ n \in Nat /\ 1 <= n
    BY SyncAssumption DEF SyncInv, PushInv, PushTypes, Push, PushFits
  <2>2. n < push[p].next
    BY <2>1, SyncAssumption
  <2>3. \E t \in Sent : origin[t] = <<push[p].user, n>> /\ pc[t] = "returned"
    BY <2>1, <2>2 DEF SyncInv, PushInv, PassedIsStored
  <2> QED
    BY <2>3 DEF Copies
<1> QED
  BY <1>1, SyncInvariant, PTL
=============================================================================
