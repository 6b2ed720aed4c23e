---------------------------- MODULE AccountsProofs ----------------------------
(***************************************************************************)
(* Proofs about accounts and one-time codes, for any students, usernames    *)
(* and requests, however these interleave.                                  *)
(***************************************************************************)
EXTENDS Accounts, FiniteSetTheorems, TLAPS

Labels == {"idle", "findUser", "rewrite", "create", "upsertCode", "insertCode", "mail",
           "findOwner", "findCode", "deleteCode", "markVerified", "savePassword",
           "findNumber", "overwrite", "saveProfile", "returned", "threw", "stopped"}

UserDoc == [student : Students \cup {None}, name : Names \cup {None},
            password : Requests \cup {None}, verified : BOOLEAN, completed : BOOLEAN]

RecordDoc == [student : Students \cup {None}, code : Requests \cup {None}]

CallDoc == [op : {"register", "forgot", "send", "verify", "reset", "check",
                  "signUp", "run", "profile", None},
            student : Students \cup {None}, code : Requests \cup {None},
            account : Requests \cup {None}]

(* A request before the step in which it could write a code, or a user. *)
Codeless(r) == pc[r] \in {"idle", "findUser", "rewrite", "create", "findOwner",
                          "upsertCode", "insertCode"}
Userless(r) == pc[r] \in {"idle", "findUser", "create"}

EntersCode(r) ==
  \/ pc[r] \in {"findCode", "deleteCode", "markVerified"}
  \/ pc[r] = "savePassword" /\ call[r].op # "run"
  \/ pc[r] = "findOwner" /\ call[r].op # "forgot"

Registering(r) == pc[r] \in {"findUser", "rewrite", "create"}

AccountsTypeOK ==
  /\ user \in [Requests -> UserDoc]
  /\ record \in [Requests -> RecordDoc]
  /\ pc \in [Requests -> Labels]
  /\ found \in [Requests -> [user : Requests \cup {None}, record : Requests \cup {None}]]
  /\ last \in [Students -> Requests \cup {None}]
  /\ call \in [Requests -> CallDoc]
  /\ mailed \subseteq Requests
  /\ spent \subseteq Requests

(* What a call brings fits the step it is at. *)
CallFits == \A r \in Requests :
  /\ pc[r] # "idle" => call[r].student \in Students
  /\ Registering(r) => call[r].op = "register"
  /\ EntersCode(r) => call[r].code \in mailed
  /\ pc[r] = "markVerified" => call[r].code \in spent
  /\ pc[r] = "savePassword" /\ call[r].op # "run" => call[r].code \in spent
  /\ pc[r] # "idle" /\ call[r].op = "run" => call[r].student = RunStudent
  /\ pc[r] = "overwrite" => call[r].op = "signUp"
  /\ pc[r] = "findNumber" => call[r].op \in {"signUp", "run"}
  /\ pc[r] = "saveProfile" => call[r].op = "profile" /\ call[r].account \in Requests

(* A code and a code record appear with the request that they are named     *)
(* after, and so does a user document.                                      *)
CodesNamedByMaker == \A r \in Requests : Codeless(r) =>
  /\ r \notin mailed \cup spent
  /\ record[r] = NoRecord
  /\ \A k \in Requests : record[k].code # r /\ found[k].record # r

UsersNamedByMaker == \A r \in Requests : Userless(r) => user[r] = NoUser

FoundExists == \A r \in Requests :
  /\ found[r].user \in Requests => user[found[r].user].student \in Students
  /\ pc[r] = "saveProfile" => user[call[r].account].student \in Students

(* run resets an account of its number. *)
RunFindsOwn == \A r \in Requests :
  pc[r] = "savePassword" /\ call[r].op = "run" => found[r].user \in UsersOf(call[r].student)

OneRecordPerCode == \A k, m \in Requests :
  record[k].code = record[m].code /\ record[k].code # None => k = m

(* A request about to delete a record found its code there, and the code    *)
(* has not been written elsewhere since; nothing else has been written      *)
(* there, unless requests of the student worked on codes side by side.      *)
DeleterKnowsRecord == \A r \in Requests : pc[r] = "deleteCode" =>
  LET k == found[r].record IN
  /\ k \in Requests
  /\ record[k].student \in {call[r].student, None}
  /\ \A m \in Requests \ {k} : record[m].code # call[r].code
  /\ call[r].student \notin crossed => record[k] = NoRecord \/ record[k].code = call[r].code

(* The histories of races miss none. *)
RewritesNoted == \A r \in Requests : pc[r] = "rewrite" =>
  /\ found[r].user \in Requests
  /\ user[found[r].user].verified => found[r].user \in reopened

OverwritesNoted == \A r \in Requests : pc[r] = "overwrite" =>
  /\ found[r].user \in Requests
  /\ user[found[r].user].completed => found[r].user \in reopened

RegistrationsNoted == \A q, r \in Running :
  call[q].op = "register" /\ call[r].op = "register" /\ call[q].student = call[r].student =>
    q = r \/ call[q].student \in raced

CodeWorkNoted == \A q, r \in Requests :
  pc[q] \in CodeLabels /\ pc[r] \in CodeLabels /\ call[q].student = call[r].student =>
    q = r \/ call[q].student \in crossed

(* What a request found missing is still missing. *)
SomeVerified(s) == \E i \in UsersOf(s) : user[i].verified

CreateMeetsNone == \A r \in Requests : pc[r] = "create" =>
  call[r].student \in raced \/ UsersOf(call[r].student) = {} \/ SomeVerified(call[r].student)

InsertMeetsNone == \A r \in Requests : pc[r] = "insertCode" =>
  call[r].student \in crossed \/ RecordsOf(call[r].student) = {}

OneAccount == \A s \in Students \ raced :
  SomeVerified(s) \/ \A i, j \in UsersOf(s) : i = j

OneRecord == \A s \in Students \ crossed : \A k, m \in RecordsOf(s) : k = m

NewestStands == \A s \in Students \ crossed :
  last[s] # None /\ last[s] \notin spent \cup lapsed => \E k \in RecordsOf(s) : record[k].code = last[s]

AccountsInv ==
  /\ AccountsTypeOK
  /\ CallFits
  /\ CodesNamedByMaker
  /\ UsersNamedByMaker
  /\ FoundExists
  /\ RunFindsOwn
  /\ OneRecordPerCode
  /\ SpentCodeIsGone
  /\ DeleterKnowsRecord
  /\ RewritesNoted
  /\ OverwritesNoted
  /\ RegistrationsNoted
  /\ CodeWorkNoted
  /\ CreateMeetsNone
  /\ InsertMeetsNone
  /\ OneAccount
  /\ OneRecord
  /\ NewestStands

-----------------------------------------------------------------------------
(* The calls that clients make. *)
LEMMA CallShape ==
  ASSUME NEW s \in Students,
         NEW c \in Calls(s),
         mailed \subseteq Requests
  PROVE  /\ c \in CallDoc
         /\ c.student = s
         /\ FirstLabel(c.op) = "findUser" <=> c.op = "register"
         /\ FirstLabel(c.op) \in {"findUser", "findOwner", "upsertCode", "findCode",
                                  "findNumber", "saveProfile"}
         /\ FirstLabel(c.op) = "findOwner" /\ c.op # "forgot" => c.code \in mailed
         /\ FirstLabel(c.op) = "findCode" => c.code \in mailed
         /\ FirstLabel(c.op) = "findNumber" => c.op \in {"signUp", "run"}
         /\ c.op = "run" => s = RunStudent
         /\ FirstLabel(c.op) = "saveProfile" => c.op = "profile" /\ c.account \in UsersOf(s)
BY DEF Calls, WithCode, WithToken, WithNeither, CallDoc, FirstLabel, UsersOf

(* Which label may follow which. *)
Follows(a, b) ==
  \/ b = "stopped" /\ a \notin {"idle", "returned", "threw", "stopped"}
  \/ a = "findUser" /\ b \in {"rewrite", "create", "threw"}
  \/ a \in {"rewrite", "create"} /\ b \in {"upsertCode", "threw"}
  \/ a = "upsertCode" /\ b \in {"insertCode", "mail"}
  \/ a = "insertCode" /\ b = "mail"
  \/ a = "mail" /\ b = "returned"
  \/ a = "findOwner" /\ b \in {"upsertCode", "findCode", "threw"}
  \/ a = "findCode" /\ b \in {"deleteCode", "threw"}
  \/ a = "deleteCode" /\ b \in {"markVerified", "savePassword", "returned"}
  \/ a \in {"markVerified", "savePassword", "overwrite"} /\ b = "returned"
  \/ a = "findNumber" /\ b \in {"savePassword", "overwrite", "threw"}
  \/ a = "saveProfile" /\ b \in {"returned", "threw"}

LEMMA GotoMoves ==
  ASSUME AccountsTypeOK, NEW r \in Requests, NEW label \in Labels, Goto(r, label)
  PROVE  /\ pc' \in [Requests -> Labels]
         /\ pc'[r] = label
         /\ \A q \in Requests \ {r} : pc'[q] = pc[q]
         /\ crossed \subseteq crossed'
         /\ label \in CodeLabels =>
              \A q \in Requests \ {r} : pc[q] \in CodeLabels /\ call[q].student = call[r].student =>
                call[r].student \in crossed'
BY DEF Goto, AccountsTypeOK, Running, CodeLabels

(* What every step of a request has in common. *)
LEMMA Moves ==
  ASSUME AccountsTypeOK, NEW r \in Requests, Handle(r) \/ Stop(r)
  PROVE  /\ call' = call /\ raced' = raced
         /\ pc' \in [Requests -> Labels]
         /\ \A q \in Requests \ {r} : pc'[q] = pc[q]
         /\ Follows(pc[r], pc'[r])
         /\ crossed \subseteq crossed'
         /\ pc'[r] \in CodeLabels =>
              \A q \in Requests \ {r} : pc[q] \in CodeLabels /\ call[q].student = call[r].student =>
                call[r].student \in crossed'
<1>1. \A label \in {"rewrite", "create", "upsertCode", "insertCode", "mail", "findCode",
                    "deleteCode", "markVerified", "savePassword", "overwrite", "returned",
                    "threw"} :
        label \in Labels
  BY DEF Labels
<1>2. AfterCode(call[r].op) \in {"markVerified", "savePassword", "returned"}
  BY DEF AfterCode
<1>3. CASE FindUser(r)
  BY <1>1, <1>3, GotoMoves DEF FindUser, Follows, codes
<1>4. CASE Rewrite(r) \/ Create(r)
  BY <1>1, <1>4, GotoMoves DEF Rewrite, Create, Follows
<1>5. CASE UpsertCode(r)
  BY <1>1, <1>5, GotoMoves DEF UpsertCode, Follows
<1>6. CASE InsertCode(r) \/ Mail(r)
  BY <1>1, <1>6, GotoMoves DEF InsertCode, Mail, Follows
<1>7. CASE FindOwner(r)
  BY <1>1, <1>7, GotoMoves DEF FindOwner, Follows
<1>8. CASE FindCode(r)
  BY <1>1, <1>8, GotoMoves DEF FindCode, Follows
<1>9. CASE DeleteCode(r)
  BY <1>1, <1>2, <1>9, GotoMoves DEF DeleteCode, Follows
<1>10. CASE MarkVerified(r) \/ SavePassword(r)
  BY <1>1, <1>10, GotoMoves DEF MarkVerified, SavePassword, Follows
<1>11. CASE Stop(r)
  BY <1>11 DEF Stop, Running, Follows, AccountsTypeOK, Labels, CodeLabels, races
<1>12. CASE FindNumber(r)
  BY <1>1, <1>12, GotoMoves DEF FindNumber, Follows
<1>13. CASE Overwrite(r) \/ SaveProfile(r)
  BY <1>1, <1>13, GotoMoves DEF Overwrite, SaveProfile, Follows
<1> QED
  BY <1>3, <1>4, <1>5, <1>6, <1>7, <1>8, <1>9, <1>10, <1>11, <1>12, <1>13 DEF Handle

-----------------------------------------------------------------------------
(* A request that starts. *)
LEMMA AskKeeps ==
  ASSUME AccountsInv, NEW r \in Requests, NEW s \in Students,
         NEW c \in Calls(s), Ask(r, c)
  PROVE  AccountsInv'
<1> DEFINE label == FirstLabel(c.op)
<1>1. /\ c \in CallDoc /\ c.student = s
      /\ label = "findUser" <=> c.op = "register"
      /\ label \in {"findUser", "findOwner", "upsertCode", "findCode", "findNumber", "saveProfile"}
      /\ label = "findOwner" /\ c.op # "forgot" => c.code \in mailed
      /\ label = "findCode" => c.code \in mailed
      /\ label = "findNumber" => c.op \in {"signUp", "run"}
      /\ c.op = "run" => s = RunStudent
      /\ label = "saveProfile" => c.op = "profile" /\ c.account \in UsersOf(s)
  BY CallShape DEF AccountsInv, AccountsTypeOK
<1>2. /\ pc[r] = "idle" /\ pc'[r] = label /\ call'[r] = c
      /\ \A q \in Requests \ {r} : pc'[q] = pc[q] /\ call'[q] = call[q]
      /\ docs' = docs /\ codes' = codes /\ found' = found /\ reopened' = reopened
      /\ user' = user /\ record' = record /\ mailed' = mailed /\ spent' = spent
      /\ lapsed' = lapsed /\ last' = last
      /\ crossed \subseteq crossed' /\ raced \subseteq raced'
      /\ label \in CodeLabels => \A q \in Requests \ {r} :
           pc[q] \in CodeLabels /\ call[q].student = s => s \in crossed'
      /\ c.op = "register" => \A q \in Running :
           call[q].op = "register" /\ call[q].student = s => s \in raced'
  BY <1>1 DEF Ask, AccountsInv, AccountsTypeOK, docs, codes, Running, CodeLabels
<1>3. AccountsTypeOK'
  BY <1>1, <1>2 DEF Ask, AccountsInv, AccountsTypeOK, Labels
<1> HIDE DEF label
<1>4. CallFits'
  BY <1>1, <1>2 DEF AccountsInv, CallFits, Registering, EntersCode, UsersOf
<1>5. CodesNamedByMaker' /\ UsersNamedByMaker' /\ FoundExists' /\ RunFindsOwn'
  <2>1. CodesNamedByMaker' /\ UsersNamedByMaker'
    BY <1>1, <1>2 DEF AccountsInv, CodesNamedByMaker, UsersNamedByMaker, Codeless, Userless
  <2>2. FoundExists' /\ RunFindsOwn'
    BY <1>1, <1>2 DEF AccountsInv, FoundExists, RunFindsOwn, UsersOf
  <2> QED
    BY <2>1, <2>2
<1>6. OneRecordPerCode' /\ SpentCodeIsGone'
  BY <1>2 DEF AccountsInv, OneRecordPerCode, SpentCodeIsGone
<1>7. DeleterKnowsRecord' /\ RewritesNoted' /\ OverwritesNoted'
  BY <1>1, <1>2 DEF AccountsInv, DeleterKnowsRecord, RewritesNoted, OverwritesNoted
<1>8. RegistrationsNoted' /\ CodeWorkNoted'
  BY <1>1, <1>2 DEF AccountsInv, RegistrationsNoted, CodeWorkNoted, Running, CodeLabels
<1>9. CreateMeetsNone' /\ InsertMeetsNone'
  BY <1>1, <1>2 DEF AccountsInv, CreateMeetsNone, InsertMeetsNone, UsersOf, RecordsOf, SomeVerified
<1>10. OneAccount' /\ OneRecord' /\ NewestStands'
  BY <1>2 DEF AccountsInv, OneAccount, OneRecord, NewestStands, UsersOf, RecordsOf, SomeVerified
<1> QED
  BY <1>3, <1>4, <1>5, <1>6, <1>7, <1>8, <1>9, <1>10 DEF AccountsInv

-----------------------------------------------------------------------------
(* An empty database. *)
LEMMA InitHolds == Init => AccountsInv
<1> SUFFICES ASSUME Init PROVE AccountsInv
  OBVIOUS
<1>1. AccountsTypeOK
  BY DEF Init, AccountsTypeOK, UserDoc, RecordDoc, CallDoc, Labels, NoUser, NoRecord, NoCall, Nothing
<1>2. \A s \in Students : UsersOf(s) = {} /\ RecordsOf(s) = {}
  BY AccountsAssumption DEF Init, UsersOf, RecordsOf, NoUser, NoRecord
<1>3. CallFits /\ RegistrationsNoted /\ CodeWorkNoted
  BY DEF Init, CallFits, RegistrationsNoted, CodeWorkNoted, Running, CodeLabels, Registering, EntersCode
<1>4. /\ CodesNamedByMaker /\ UsersNamedByMaker /\ FoundExists
      /\ OneRecordPerCode /\ SpentCodeIsGone
  BY AccountsAssumption DEF Init, CodesNamedByMaker, UsersNamedByMaker, FoundExists,
    OneRecordPerCode, SpentCodeIsGone, NoRecord, Nothing
<1>5. /\ DeleterKnowsRecord /\ RewritesNoted /\ OverwritesNoted /\ RunFindsOwn
      /\ CreateMeetsNone /\ InsertMeetsNone
  BY DEF Init, DeleterKnowsRecord, RewritesNoted, OverwritesNoted, RunFindsOwn,
    CreateMeetsNone, InsertMeetsNone
<1>6. OneAccount /\ OneRecord /\ NewestStands
  BY <1>2 DEF Init, OneAccount, OneRecord, NewestStands
<1> QED
  BY <1>1, <1>3, <1>4, <1>5, <1>6 DEF AccountsInv

-----------------------------------------------------------------------------
(* What the steps of a request do to the user documents: a document appears *)
(* under the request that makes it, keeps its student and stays verified.   *)
UserMoved(r) ==
  /\ user' \in [Requests -> UserDoc]
  /\ \A i \in Requests :
       \/ /\ user'[i].student = user[i].student
          /\ user[i].verified => user'[i].verified
       \/ /\ pc[r] = "create" /\ i = r
          /\ user'[i].student = call[r].student
          /\ ~user'[i].verified
  /\ \A i \in Requests : user'[i].verified /\ ~user[i].verified =>
       \A q \in Requests : pc[q] = "rewrite" /\ found[q].user = i => i \in reopened'
  /\ \A i \in Requests : user'[i].completed /\ ~user[i].completed =>
       \A q \in Requests : pc[q] = "overwrite" /\ found[q].user = i => i \in reopened'
  /\ reopened \subseteq reopened'
  /\ \A i \in Requests : Userless(i) /\ i # r => user'[i] = user[i]
  /\ pc'[r] = "create" => user' = user

(* An account that exists is written: only its name, password, status and  *)
(* verification change.                                                     *)
LEMMA Updated ==
  ASSUME AccountsInv, NEW r \in Requests, NEW i \in Requests, NEW e \in UserDoc,
         Handle(r) \/ Stop(r), pc'[r] # "create",
         user[i].student \in Students \/ i = r,
         user' = [user EXCEPT ![i] = e],
         e.student = user[i].student,
         user[i].verified => e.verified,
         reopened \subseteq reopened',
         e.verified /\ ~user[i].verified =>
           \A q \in Requests : pc[q] = "rewrite" /\ found[q].user = i => i \in reopened',
         e.completed /\ ~user[i].completed =>
           \A q \in Requests : pc[q] = "overwrite" /\ found[q].user = i => i \in reopened'
  PROVE  UserMoved(r)
<1>1. user \in [Requests -> UserDoc]
  BY DEF AccountsInv, AccountsTypeOK
<1>2. /\ user' \in [Requests -> UserDoc]
      /\ user'[i] = e
      /\ \A j \in Requests \ {i} : user'[j] = user[j]
  BY <1>1
<1>3. Userless(i) => i = r
  BY AccountsAssumption DEF AccountsInv, UsersNamedByMaker, NoUser
<1> QED
  BY <1>2, <1>3 DEF UserMoved

LEMMA UserMoves ==
  ASSUME AccountsInv, NEW r \in Requests, Handle(r) \/ Stop(r)
  PROVE  UserMoved(r)
<1>1. /\ AccountsTypeOK
      /\ user \in [Requests -> UserDoc]
      /\ \A i \in Requests : user[i].student \in Students => user[i] \in UserDoc
      /\ found[r].user \in Requests => user[found[r].user].student \in Students
      /\ \A label : Goto(r, label) => pc'[r] = label
      /\ Follows(pc[r], pc'[r])
  BY Moves DEF AccountsInv, FoundExists, Goto, AccountsTypeOK
<1>2. CASE user' = user /\ reopened' = reopened
  BY <1>1, <1>2 DEF UserMoved
<1>3. ASSUME Rewrite(r), user' # user
      PROVE  UserMoved(r)
  <2> DEFINE i == found[r].user
  <2>1. PICK n \in Names, c \in BOOLEAN :
          user' = [user EXCEPT ![i].name = n, ![i].password = r, ![i].completed = c]
    BY <1>3 DEF Rewrite
  <2> DEFINE e == [user[i] EXCEPT !.name = n, !.password = r, !.completed = c]
  <2>2. /\ pc[r] = "rewrite" /\ pc'[r] # "create" /\ i \in Requests /\ NoteCompletion(i)
    BY <1>1, <1>3 DEF Rewrite, AccountsInv, RewritesNoted, Follows
  <2>3. e \in UserDoc /\ e.student = user[i].student /\ e.verified = user[i].verified
    <3>1. user[i] \in UserDoc
      BY <1>1, <2>2
    <3> HIDE DEF i
    <3> QED
      BY <3>1 DEF UserDoc
  <2>4. user' = [user EXCEPT ![i] = e] /\ user'[i] = e
    BY <1>1, <2>1, <2>2
  <2>5. /\ reopened \subseteq reopened'
        /\ e.completed /\ ~user[i].completed =>
             \A q \in Requests : pc[q] = "overwrite" /\ found[q].user = i => i \in reopened'
    BY <2>2, <2>4 DEF NoteCompletion, Running
  <2> QED
    BY <1>1, <2>2, <2>3, <2>4, <2>5, Updated
<1>4. ASSUME Create(r), user' # user
      PROVE  UserMoved(r)
  <2>1. PICK n \in Names, c \in BOOLEAN :
          user' = [user EXCEPT ![r] = [student |-> call[r].student, name |-> n, password |-> r,
                                       verified |-> FALSE, completed |-> c]]
    BY <1>4 DEF Create
  <2> DEFINE d == [student |-> call[r].student, name |-> n, password |-> r,
                   verified |-> FALSE, completed |-> c]
  <2>2. pc[r] = "create" /\ pc'[r] # "create" /\ reopened' = reopened
    BY <1>1, <1>4 DEF Create, Follows
  <2>3. d \in UserDoc
    BY <1>1 DEF AccountsTypeOK, UserDoc, CallDoc
  <2>4. /\ user' \in [Requests -> UserDoc]
        /\ user'[r] = d
        /\ \A j \in Requests \ {r} : user'[j] = user[j]
    BY <1>1, <2>1, <2>3
  <2>5. \A q \in Requests : found[q].user # r
    BY <2>2, AccountsAssumption DEF AccountsInv, UsersNamedByMaker, Userless, FoundExists, NoUser
  <2> QED
    BY <2>2, <2>4, <2>5 DEF UserMoved
<1>5. CASE MarkVerified(r)
  <2> DEFINE i == found[r].user
  <2> DEFINE e == [user[i] EXCEPT !.verified = TRUE]
  <2>1. /\ user' = [user EXCEPT ![i] = e] /\ pc'[r] # "create"
        /\ reopened' = IF \E q \in Running : pc[q] = "rewrite" /\ found[q].user = i
                       THEN reopened \cup {i} ELSE reopened
    BY <1>1, <1>5 DEF MarkVerified
  <2>2. CASE i \in Requests
    <3>1. /\ e \in UserDoc /\ e.student = user[i].student /\ e.verified
          /\ e.completed = user[i].completed
      BY <1>1, <2>2 DEF UserDoc
    <3>2. /\ reopened \subseteq reopened'
          /\ \A q \in Requests : pc[q] = "rewrite" /\ found[q].user = i => i \in reopened'
      BY <2>1 DEF Running
    <3> QED
      BY <1>1, <2>1, <2>2, <3>1, <3>2, Updated
  <2>3. CASE i \notin Requests
    <3>1. user' = user
      BY <1>1, <2>1, <2>3
    <3> QED
      BY <1>1, <2>1, <3>1 DEF UserMoved
  <2> QED
    BY <2>2, <2>3
<1>6. CASE SavePassword(r) \/ Overwrite(r)
  <2> DEFINE i == found[r].user
  <2> DEFINE e == [user[i] EXCEPT !.password = r]
  <2>1. user' = [user EXCEPT ![i] = e] /\ pc'[r] # "create" /\ reopened' = reopened
    BY <1>1, <1>6 DEF SavePassword, Overwrite
  <2>2. CASE i \in Requests
    <3>1. /\ e \in UserDoc /\ e.student = user[i].student /\ e.verified = user[i].verified
          /\ e.completed = user[i].completed
      BY <1>1, <2>2 DEF UserDoc
    <3> QED
      BY <1>1, <2>1, <2>2, <3>1, Updated
  <2>3. CASE i \notin Requests
    BY <1>1, <1>2, <2>1, <2>3
  <2> QED
    BY <2>2, <2>3
<1>7. ASSUME SaveProfile(r), user' # user
      PROVE  UserMoved(r)
  <2> DEFINE i == call[r].account
  <2>1. PICK n \in Names, p \in {user[i].password, r}, c \in BOOLEAN :
          user' = [user EXCEPT ![i].name = n, ![i].password = p, ![i].completed = c]
    BY <1>7 DEF SaveProfile
  <2> DEFINE e == [user[i] EXCEPT !.name = n, !.password = p, !.completed = c]
  <2>2. /\ pc'[r] # "create" /\ i \in Requests /\ user[i].student \in Students
        /\ NoteCompletion(i)
    BY <1>1, <1>7 DEF SaveProfile, AccountsInv, CallFits, FoundExists, Follows
  <2>3. e \in UserDoc /\ e.student = user[i].student /\ e.verified = user[i].verified
    <3>1. user[i] \in UserDoc
      BY <1>1, <2>2
    <3>2. p \in Requests \cup {None}
      BY <2>1, <3>1 DEF UserDoc
    <3> HIDE DEF i
    <3> QED
      BY <3>1, <3>2 DEF UserDoc
  <2>4. user' = [user EXCEPT ![i] = e] /\ user'[i] = e
    BY <1>1, <2>1, <2>2
  <2>5. /\ reopened \subseteq reopened'
        /\ e.completed /\ ~user[i].completed =>
             \A q \in Requests : pc[q] = "overwrite" /\ found[q].user = i => i \in reopened'
    BY <2>2, <2>4 DEF NoteCompletion, Running
  <2> QED
    BY <1>1, <2>2, <2>3, <2>4, <2>5, Updated
<1>8. CASE user' = user /\ reopened' # reopened
  <2>1. reopened \subseteq reopened'
    BY <1>8 DEF Handle, FindUser, Rewrite, Create, UpsertCode, InsertCode, Mail, FindOwner,
      FindCode, DeleteCode, MarkVerified, SavePassword, FindNumber, Overwrite, SaveProfile,
      NoteCompletion, Stop, races
  <2> QED
    BY <1>1, <1>8, <2>1 DEF UserMoved
<1> QED
  BY <1>2, <1>3, <1>4, <1>5, <1>6, <1>7, <1>8 DEF Handle, FindUser, UpsertCode,
    InsertCode, Mail, FindOwner, FindCode, DeleteCode, FindNumber, Stop, docs

(* What the steps of a request find. *)
FoundMoved(r) ==
  /\ found' \in [Requests -> [user : Requests \cup {None}, record : Requests \cup {None}]]
  /\ \A q \in Requests \ {r} : found'[q] = found[q]
  /\ found'[r].user = found[r].user \/ found'[r].user \in UsersOf(call[r].student)
  /\ found'[r].record = found[r].record \/ found'[r].record \in RecordsOf(call[r].student)
  /\ pc'[r] = "create" => UsersOf(call[r].student) = {} \/ SomeVerified(call[r].student)
  /\ pc'[r] = "rewrite" => /\ found'[r].user \in UsersOf(call[r].student)
                           /\ ~user[found'[r].user].verified
                           /\ user' = user
  /\ pc'[r] = "overwrite" => /\ found'[r].user \in UsersOf(call[r].student)
                             /\ ~user[found'[r].user].completed
                             /\ user' = user
                             /\ call[r].op # "run"
  /\ pc'[r] = "savePassword" /\ call[r].op = "run" =>
       found'[r].user \in UsersOf(call[r].student) /\ user' = user
  /\ pc[r] = "findNumber" /\ pc'[r] = "savePassword" => call[r].op = "run"
  /\ pc'[r] = "deleteCode" => /\ found'[r].record \in RecordsOf(call[r].student)
                              /\ record[found'[r].record].code = call[r].code
                              /\ record' = record
  /\ pc[r] # "findCode" => found'[r].record = found[r].record
  /\ pc[r] = "findOwner" /\ pc'[r] = "findCode" => call[r].op # "forgot"

LEMMA FoundMoves ==
  ASSUME AccountsInv, NEW r \in Requests, Handle(r) \/ Stop(r)
  PROVE  FoundMoved(r)
<1>1. /\ AccountsTypeOK /\ Follows(pc[r], pc'[r])
      /\ UsersOf(call[r].student) \subseteq Requests /\ RecordsOf(call[r].student) \subseteq Requests
  BY Moves DEF AccountsInv, UsersOf, RecordsOf
<1>2. ASSUME pc[r] \notin {"findUser", "findOwner", "findCode", "findNumber"}, found' = found,
             pc'[r] = "savePassword" => call[r].op = "reset"
      PROVE  FoundMoved(r)
  BY <1>1, <1>2 DEF AccountsTypeOK, FoundMoved, Follows
<1>3. ASSUME NEW i \in UsersOf(call[r].student), found' = [found EXCEPT ![r].user = i]
      PROVE  /\ found' \in [Requests -> [user : Requests \cup {None}, record : Requests \cup {None}]]
             /\ \A q \in Requests \ {r} : found'[q] = found[q]
             /\ found'[r].user = i /\ found'[r].record = found[r].record
  BY <1>1, <1>3 DEF AccountsTypeOK
<1>4. ASSUME NEW k \in RecordsOf(call[r].student), found' = [found EXCEPT ![r].record = k]
      PROVE  /\ found' \in [Requests -> [user : Requests \cup {None}, record : Requests \cup {None}]]
             /\ \A q \in Requests \ {r} : found'[q] = found[q]
             /\ found'[r].record = k /\ found'[r].user = found[r].user
  BY <1>1, <1>4 DEF AccountsTypeOK
<1>5. CASE FindUser(r)
  <2>1. /\ pc[r] = "findUser" /\ user' = user
        /\ Goto(r, "create") \/ Goto(r, "rewrite") \/ Goto(r, "threw")
        /\ \A label : Goto(r, label) => pc'[r] = label
    BY <1>1, <1>5 DEF FindUser, docs, Goto, AccountsTypeOK
  <2>2. CASE UsersOf(call[r].student) = {}
    BY <1>1, <1>5, <2>1, <2>2 DEF FindUser, FoundMoved, AccountsTypeOK
  <2>3. ASSUME NEW i \in UsersOf(call[r].student), found' = [found EXCEPT ![r].user = i],
               Goto(r, IF ~user[i].verified THEN "rewrite"
                       ELSE IF user[i].completed THEN "threw" ELSE "create")
        PROVE  FoundMoved(r)
    BY <1>1, <1>3, <2>1, <2>3 DEF FoundMoved, SomeVerified
  <2> QED
    BY <1>5, <2>2, <2>3 DEF FindUser
<1>6. CASE FindOwner(r)
  <2>1. \A label : Goto(r, label) => pc'[r] = label
    BY <1>1 DEF Goto, AccountsTypeOK
  <2> QED
    BY <1>1, <1>3, <1>6, <2>1 DEF FindOwner, FoundMoved, AccountsTypeOK, Follows
<1>7. CASE FindCode(r)
  <2>1. /\ pc[r] = "findCode" /\ record' = record
        /\ \A label : Goto(r, label) => pc'[r] = label
    BY <1>1, <1>7 DEF FindCode, docs, Goto, AccountsTypeOK
  <2>2. CASE RecordsOf(call[r].student) = {}
    BY <1>1, <1>7, <2>1, <2>2 DEF FindCode, FoundMoved, AccountsTypeOK
  <2>3. ASSUME NEW k \in RecordsOf(call[r].student), found' = [found EXCEPT ![r].record = k],
               Goto(r, IF record[k].code = call[r].code /\ record[k].code \notin lapsed
                       THEN "deleteCode" ELSE "threw")
        PROVE  FoundMoved(r)
    BY <1>1, <1>4, <2>1, <2>3 DEF FoundMoved, Follows
  <2> QED
    BY <1>7, <2>2, <2>3 DEF FindCode
<1>8. CASE Stop(r)
  <2>1. found' = found /\ pc'[r] = "stopped"
    BY <1>1, <1>8 DEF Stop, AccountsTypeOK
  <2> QED
    BY <1>1, <2>1 DEF FoundMoved, AccountsTypeOK
<1>9. CASE FindNumber(r)
  <2>1. /\ pc[r] = "findNumber" /\ user' = user
        /\ \A label : Goto(r, label) => pc'[r] = label
    BY <1>1, <1>9 DEF FindNumber, docs, Goto, AccountsTypeOK
  <2>2. CASE /\ UsersOf(call[r].student) = {} /\ Goto(r, "threw") /\ UNCHANGED found
    BY <1>1, <2>1, <2>2 DEF FoundMoved, AccountsTypeOK
  <2>3. ASSUME NEW i \in UsersOf(call[r].student), found' = [found EXCEPT ![r].user = i],
               Goto(r, IF call[r].op = "run" THEN "savePassword"
                       ELSE IF user[i].completed THEN "threw" ELSE "overwrite")
        PROVE  FoundMoved(r)
    BY <1>1, <1>3, <2>1, <2>3 DEF FoundMoved
  <2> QED
    BY <1>9, <2>2, <2>3 DEF FindNumber
<1>10. ASSUME \A label : Goto(r, label) => pc'[r] = label, DeleteCode(r)
       PROVE  FoundMoved(r)
  BY <1>1, <1>2, <1>10 DEF DeleteCode, AfterCode
<1>11. CASE \/ Rewrite(r) \/ Create(r) \/ UpsertCode(r) \/ InsertCode(r) \/ Mail(r)
            \/ MarkVerified(r) \/ SavePassword(r) \/ Overwrite(r) \/ SaveProfile(r)
  BY <1>1, <1>2, <1>11 DEF Rewrite, Create, UpsertCode, InsertCode, Mail, MarkVerified,
    SavePassword, Overwrite, SaveProfile, Follows
<1>12. \A label : Goto(r, label) => pc'[r] = label
  BY <1>1 DEF Goto, AccountsTypeOK
<1> QED
  BY <1>5, <1>6, <1>7, <1>8, <1>9, <1>10, <1>11, <1>12 DEF Handle

(* Registrations and accounts. *)
LEMMA AccountsKeep ==
  ASSUME AccountsInv, NEW r \in Requests, Handle(r) \/ Stop(r)
  PROVE  /\ UsersNamedByMaker' /\ FoundExists' /\ RunFindsOwn'
         /\ RewritesNoted' /\ OverwritesNoted'
         /\ RegistrationsNoted' /\ CreateMeetsNone' /\ OneAccount'
<1>1. /\ AccountsTypeOK /\ UserMoved(r) /\ FoundMoved(r)
      /\ call' = call /\ raced' = raced
      /\ \A q \in Requests \ {r} : pc'[q] = pc[q]
      /\ Follows(pc[r], pc'[r])
  BY Moves, UserMoves, FoundMoves DEF AccountsInv
<1>2. UsersNamedByMaker'
  BY <1>1 DEF AccountsInv, UsersNamedByMaker, Userless, UserMoved, Follows
<1>3. \A s \in Students : SomeVerified(s) => SomeVerified(s)'
  BY <1>1, AccountsAssumption DEF AccountsInv, UsersNamedByMaker, Userless, UserMoved, SomeVerified, UsersOf, NoUser
<1>4. FoundExists'
  BY <1>1, AccountsAssumption DEF AccountsInv, FoundExists, UserMoved, FoundMoved, CallFits, UsersOf, Follows
<1>5. RewritesNoted'
  BY <1>1 DEF AccountsInv, RewritesNoted, UserMoved, FoundMoved, Follows, UsersOf
<1>6. RegistrationsNoted'
  BY <1>1 DEF AccountsInv, RegistrationsNoted, Running, Follows
<1>7. CreateMeetsNone'
  BY <1>1, <1>3 DEF AccountsInv, CreateMeetsNone, RegistrationsNoted, Running, CallFits, Registering,
    UserMoved, FoundMoved, UsersOf, Follows
<1>8. OneAccount'
  BY <1>1, <1>3 DEF AccountsInv, OneAccount, CreateMeetsNone, UserMoved, UsersOf
<1>9. OverwritesNoted'
  BY <1>1 DEF AccountsInv, OverwritesNoted, UserMoved, FoundMoved, Follows, UsersOf
<1>10. RunFindsOwn'
  <2>1. \A i \in Requests : user[i].student \in Students => user'[i].student = user[i].student
    BY <1>1, AccountsAssumption DEF AccountsInv, UserMoved, UsersNamedByMaker, Userless, NoUser
  <2>2. \A q \in Requests : pc[q] # "idle" => call[q].student \in Students
    BY DEF AccountsInv, CallFits
  <2> QED
    BY <1>1, <2>1, <2>2 DEF AccountsInv, RunFindsOwn, FoundMoved, Follows, UsersOf
<1> QED
  BY <1>2, <1>4, <1>5, <1>6, <1>7, <1>8, <1>9, <1>10

-----------------------------------------------------------------------------
(* What the steps of a request do to the code records: none of them, ...   *)
NoRecordMoved(r) ==
  /\ record' = record /\ last' = last /\ spent' = spent
  /\ mailed \subseteq mailed' /\ mailed' \subseteq mailed \cup (IF pc[r] = "mail" THEN {r} ELSE {})
  /\ pc[r] \notin {"insertCode", "deleteCode"} \/ pc'[r] = "stopped"
  /\ pc'[r] = "insertCode" => RecordsOf(call[r].student) = {}

(* ... a new code in a record that was there or in one of its own, ...      *)
CodeWritten(r, k) ==
  /\ \/ pc[r] = "upsertCode" /\ k \in RecordsOf(call[r].student)
     \/ pc[r] = "insertCode" /\ k = r
  /\ pc'[r] = "mail"
  /\ record' \in [Requests -> RecordDoc]
  /\ record'[k].student = call[r].student /\ record'[k].code = r
  /\ \A m \in Requests \ {k} : record'[m] = record[m]
  /\ last' \in [Students -> Requests \cup {None}]
  /\ last'[call[r].student] = r
  /\ \A s \in Students \ {call[r].student} : last'[s] = last[s]
  /\ mailed' = mailed /\ spent' = spent

(* ... or the record that was found is deleted. *)
CodeSpent(r) ==
  /\ pc[r] = "deleteCode" /\ pc'[r] \in {"markVerified", "savePassword", "returned"}
  /\ record' \in [Requests -> RecordDoc]
  /\ record'[found[r].record] = NoRecord
  /\ \A m \in Requests \ {found[r].record} : record'[m] = record[m]
  /\ spent' = spent \cup {call[r].code}
  /\ mailed' = mailed /\ last' = last

LEMMA RecordMoves ==
  ASSUME AccountsInv, NEW r \in Requests, Handle(r) \/ Stop(r)
  PROVE  /\ lapsed' = lapsed
         /\ NoRecordMoved(r) \/ CodeSpent(r) \/ \E k \in Requests : CodeWritten(r, k)
<1>1. /\ AccountsTypeOK /\ Follows(pc[r], pc'[r])
      /\ \A label : Goto(r, label) => pc'[r] = label
      /\ pc[r] = "deleteCode" => found[r].record \in Requests
      /\ pc[r] # "idle" => call[r].student \in Students
      /\ RecordsOf(call[r].student) \subseteq Requests
  BY Moves DEF AccountsInv, Goto, AccountsTypeOK, DeleterKnowsRecord, CallFits, RecordsOf
<1>2. CASE FindUser(r) \/ Rewrite(r) \/ Create(r) \/ FindOwner(r) \/ FindCode(r) \/ MarkVerified(r)
           \/ SavePassword(r) \/ FindNumber(r) \/ Overwrite(r) \/ SaveProfile(r)
  <2>1. record' = record /\ last' = last /\ spent' = spent /\ mailed' = mailed /\ lapsed' = lapsed
    BY <1>2 DEF FindUser, Rewrite, Create, FindOwner, FindCode, MarkVerified, SavePassword,
      FindNumber, Overwrite, SaveProfile, docs, codes
  <2> QED
    BY <1>1, <1>2, <2>1 DEF NoRecordMoved, Follows, FindUser, Rewrite, Create, FindOwner,
      FindCode, MarkVerified, SavePassword, FindNumber, Overwrite, SaveProfile
<1>3. CASE Stop(r)
  BY <1>1, <1>3 DEF Stop, NoRecordMoved, docs, codes, AccountsTypeOK, Follows
<1>4. CASE Mail(r)
  BY <1>1, <1>4 DEF Mail, NoRecordMoved, docs, Follows
<1>5. CASE UpsertCode(r)
  <2> DEFINE s == call[r].student
  <2>1. CASE /\ RecordsOf(s) = {} /\ Goto(r, "insertCode") /\ UNCHANGED <<record, last>>
    BY <1>1, <1>5, <2>1 DEF UpsertCode, NoRecordMoved, Follows
  <2>2. ASSUME NEW k \in RecordsOf(s), record' = [record EXCEPT ![k].code = r],
               last' = [last EXCEPT ![s] = r], Goto(r, "mail")
        PROVE  CodeWritten(r, k)
    <3>1. pc[r] = "upsertCode" /\ mailed' = mailed /\ spent' = spent
      BY <1>5 DEF UpsertCode
    <3>2. /\ record' \in [Requests -> RecordDoc]
          /\ record'[k].student = s /\ record'[k].code = r
          /\ \A m \in Requests \ {k} : record'[m] = record[m]
      BY <1>1, <2>2 DEF AccountsTypeOK, RecordDoc, RecordsOf
    <3>3. /\ last' \in [Students -> Requests \cup {None}]
          /\ last'[s] = r
          /\ \A t \in Students \ {s} : last'[t] = last[t]
      BY <1>1, <2>2, <3>1 DEF AccountsTypeOK
    <3> QED
      BY <1>1, <2>2, <3>1, <3>2, <3>3 DEF CodeWritten
  <2> QED
    BY <1>1, <1>5, <2>1, <2>2 DEF UpsertCode
<1>6. CASE InsertCode(r)
  <2> DEFINE s == call[r].student
  <2>1. pc[r] = "insertCode" /\ pc'[r] = "mail" /\ mailed' = mailed /\ spent' = spent /\ lapsed' = lapsed
    BY <1>1, <1>6 DEF InsertCode
  <2>2. /\ record' \in [Requests -> RecordDoc]
        /\ record'[r].student = s /\ record'[r].code = r
        /\ \A m \in Requests \ {r} : record'[m] = record[m]
    BY <1>1, <1>6 DEF InsertCode, AccountsTypeOK, RecordDoc
  <2>3. /\ last' \in [Students -> Requests \cup {None}]
        /\ last'[s] = r
        /\ \A t \in Students \ {s} : last'[t] = last[t]
    BY <1>1, <1>6 DEF InsertCode, AccountsTypeOK
  <2> QED
    BY <2>1, <2>2, <2>3 DEF CodeWritten
<1>7. CASE DeleteCode(r)
  <2>1. NoRecord \in RecordDoc
    BY DEF NoRecord, RecordDoc
  <2> QED
    BY <1>1, <1>7, <2>1 DEF DeleteCode, CodeSpent, AccountsTypeOK, AfterCode
<1> QED
  BY <1>2, <1>3, <1>4, <1>5, <1>6, <1>7 DEF Handle

(* Codes and their records. *)
CodesOrderly ==
  /\ AccountsTypeOK /\ CallFits /\ CodesNamedByMaker /\ OneRecordPerCode /\ SpentCodeIsGone
  /\ DeleterKnowsRecord /\ CodeWorkNoted /\ InsertMeetsNone /\ OneRecord /\ NewestStands

LEMMA QuietKeeps ==
  ASSUME AccountsInv, NEW r \in Requests, Handle(r) \/ Stop(r), NoRecordMoved(r)
  PROVE  CodesOrderly'
<1>1. /\ AccountsTypeOK /\ UserMoved(r) /\ FoundMoved(r)
      /\ call' = call
      /\ pc' \in [Requests -> Labels]
      /\ \A q \in Requests \ {r} : pc'[q] = pc[q]
      /\ Follows(pc[r], pc'[r])
      /\ crossed \subseteq crossed'
      /\ pc'[r] \in CodeLabels =>
           \A q \in Requests \ {r} : pc[q] \in CodeLabels /\ call[q].student = call[r].student =>
             call[r].student \in crossed'
      /\ lapsed' = lapsed
  BY Moves, UserMoves, FoundMoves, RecordMoves DEF AccountsInv
<1>2. AccountsTypeOK'
  BY <1>1 DEF AccountsTypeOK, UserMoved, FoundMoved, NoRecordMoved
<1>3. CallFits'
  BY <1>1 DEF AccountsInv, CallFits, Follows, NoRecordMoved, Registering, EntersCode,
    FoundMoved
<1>4. CodesNamedByMaker'
  BY <1>1, AccountsAssumption DEF AccountsInv, CodesNamedByMaker, Follows, NoRecordMoved, Codeless, FoundMoved, CallFits,
    RecordsOf, NoRecord
<1>5. OneRecordPerCode' /\ SpentCodeIsGone'
  BY <1>1 DEF AccountsInv, OneRecordPerCode, SpentCodeIsGone, NoRecordMoved
<1>6. DeleterKnowsRecord'
  BY <1>1, AccountsAssumption DEF AccountsInv, DeleterKnowsRecord, OneRecordPerCode, NoRecordMoved, FoundMoved, Follows,
    RecordsOf, CallFits, EntersCode, AccountsTypeOK
<1>7. CodeWorkNoted'
  BY <1>1 DEF AccountsInv, CodeWorkNoted, Follows, CodeLabels
<1>8. InsertMeetsNone'
  BY <1>1 DEF AccountsInv, InsertMeetsNone, NoRecordMoved, Follows, RecordsOf
<1>9. OneRecord' /\ NewestStands'
  BY <1>1 DEF AccountsInv, OneRecord, NewestStands, NoRecordMoved, RecordsOf
<1> QED
  BY <1>2, <1>3, <1>4, <1>5, <1>6, <1>7, <1>8, <1>9 DEF CodesOrderly

LEMMA WritingKeeps ==
  ASSUME AccountsInv, NEW r \in Requests, Handle(r) \/ Stop(r),
         NEW k \in Requests, CodeWritten(r, k)
  PROVE  CodesOrderly'
<1>1. /\ AccountsTypeOK /\ UserMoved(r) /\ FoundMoved(r)
      /\ call' = call
      /\ pc' \in [Requests -> Labels]
      /\ \A q \in Requests \ {r} : pc'[q] = pc[q]
      /\ Follows(pc[r], pc'[r])
      /\ crossed \subseteq crossed'
      /\ lapsed' = lapsed
  BY Moves, UserMoves, FoundMoves, RecordMoves DEF AccountsInv
<1>2. /\ pc[r] \in CodeLabels /\ pc'[r] \notin CodeLabels /\ pc'[r] = "mail"
      /\ call[r].student \in Students
      /\ Codeless(r) /\ r \notin mailed \cup spent
      /\ record[k].student \in {call[r].student, None} /\ None \notin Students
      /\ \A q \in Requests : found[q].record # r \/ k # r
      /\ \A q \in Requests : found'[q].record = found[q].record
  BY <1>1, AccountsAssumption DEF AccountsInv, CallFits, CodeWritten, CodeLabels, Codeless, CodesNamedByMaker,
    FoundMoved, RecordsOf, NoRecord
<1>3. AccountsTypeOK'
  BY <1>1 DEF AccountsTypeOK, UserMoved, FoundMoved, CodeWritten
<1>4. CallFits'
  BY <1>1, <1>2 DEF AccountsInv, CallFits, CodeWritten, Registering, EntersCode
<1>5. CodesNamedByMaker'
  BY <1>1, <1>2, AccountsAssumption DEF AccountsInv, CodesNamedByMaker, CodeWritten, Codeless, FoundMoved,
    RecordsOf, NoRecord
<1>6. OneRecordPerCode'
  BY <1>1, <1>2 DEF AccountsInv, OneRecordPerCode, CodesNamedByMaker, CodeWritten
<1>7. SpentCodeIsGone'
  BY <1>1, <1>2 DEF AccountsInv, SpentCodeIsGone, CodeWritten
<1>8. DeleterKnowsRecord'
  <2> SUFFICES ASSUME NEW q \in Requests, pc'[q] = "deleteCode"
               PROVE  LET n == found[q].record
                      IN  /\ n \in Requests
                          /\ record'[n].student \in {call[q].student, None}
                          /\ \A m \in Requests \ {n} : record'[m].code # call[q].code
                          /\ call[q].student \notin crossed' =>
                               record'[n] = NoRecord \/ record'[n].code = call[q].code
    BY <1>1, <1>2 DEF DeleterKnowsRecord
  <2> DEFINE n == found[q].record
  <2>1. /\ q # r /\ pc[q] = "deleteCode" /\ pc[q] \in CodeLabels
        /\ n \in Requests
        /\ record[n].student \in {call[q].student, None}
        /\ \A m \in Requests \ {n} : record[m].code # call[q].code
        /\ call[q].student \notin crossed => record[n] = NoRecord \/ record[n].code = call[q].code
        /\ call[q].code # r
    BY <1>1, <1>2 DEF AccountsInv, DeleterKnowsRecord, CallFits, EntersCode, CodeLabels
  <2>2. n = k => call[q].student = call[r].student
    BY <1>1, <1>2, <2>1 DEF CodeWritten, RecordsOf
  <2>3. n = k => call[q].student \in crossed'
    BY <1>1, <1>2, <2>1, <2>2 DEF AccountsInv, CodeWorkNoted
  <2> QED
    BY <1>1, <1>2, <2>1, <2>2, <2>3 DEF CodeWritten
<1>9. CodeWorkNoted'
  BY <1>1, <1>2 DEF AccountsInv, CodeWorkNoted
<1>10. InsertMeetsNone'
  BY <1>1, <1>2 DEF AccountsInv, InsertMeetsNone, CodeWorkNoted, CodeWritten, RecordsOf, CodeLabels
<1>11. OneRecord'
  BY <1>1, <1>2 DEF AccountsInv, OneRecord, InsertMeetsNone, CodeWritten, RecordsOf
<1>12. NewestStands'
  BY <1>1, <1>2 DEF AccountsInv, NewestStands, CodeWritten, RecordsOf
<1> QED
  BY <1>3, <1>4, <1>5, <1>6, <1>7, <1>8, <1>9, <1>10, <1>11, <1>12 DEF CodesOrderly

LEMMA SpendingKeeps ==
  ASSUME AccountsInv, NEW r \in Requests, Handle(r) \/ Stop(r), CodeSpent(r)
  PROVE  CodesOrderly'
<1> DEFINE k == found[r].record
<1>1. /\ AccountsTypeOK /\ UserMoved(r) /\ FoundMoved(r)
      /\ call' = call
      /\ pc' \in [Requests -> Labels]
      /\ \A q \in Requests \ {r} : pc'[q] = pc[q]
      /\ Follows(pc[r], pc'[r])
      /\ crossed \subseteq crossed'
      /\ lapsed' = lapsed
  BY Moves, UserMoves, FoundMoves, RecordMoves DEF AccountsInv
<1>2. /\ pc[r] \in CodeLabels /\ pc'[r] \notin CodeLabels
      /\ call[r].student \in Students /\ call[r].code \in mailed /\ call[r].code \in Requests
      /\ NoRecord.code = None /\ NoRecord.student = None /\ None \notin Requests \cup Students
      /\ \A q \in Requests : found'[q].record = found[q].record
      /\ k \in Requests
  BY <1>1, AccountsAssumption DEF AccountsInv, CallFits, EntersCode, CodeSpent, CodeLabels, FoundMoved,
    AccountsTypeOK, NoRecord, DeleterKnowsRecord
<1>3. AccountsTypeOK'
  BY <1>1, <1>2 DEF AccountsTypeOK, UserMoved, FoundMoved, CodeSpent
<1>4. CallFits'
  BY <1>1, <1>2 DEF AccountsInv, CallFits, CodeSpent, Registering, EntersCode
<1>5. CodesNamedByMaker'
  BY <1>1, <1>2 DEF AccountsInv, CodesNamedByMaker, CodeSpent, Codeless
<1>6. OneRecordPerCode'
  BY <1>1, <1>2 DEF AccountsInv, OneRecordPerCode, CodeSpent
<1>7. SpentCodeIsGone'
  BY <1>1, <1>2 DEF AccountsInv, SpentCodeIsGone, CodeSpent, DeleterKnowsRecord, AccountsTypeOK
<1>8. DeleterKnowsRecord'
  BY <1>1, <1>2 DEF AccountsInv, DeleterKnowsRecord, CodeSpent, CallFits, EntersCode, AccountsTypeOK
<1>9. CodeWorkNoted'
  BY <1>1, <1>2 DEF AccountsInv, CodeWorkNoted
<1>10. InsertMeetsNone' /\ OneRecord'
  <2>1. \A m \in Requests : record'[m].student # None => record'[m].student = record[m].student
    BY <1>2 DEF CodeSpent
  <2>2. InsertMeetsNone'
    BY <1>1, <1>2, <2>1 DEF AccountsInv, CallFits, InsertMeetsNone, RecordsOf, CodeLabels
  <2>3. OneRecord'
    BY <1>1, <1>2, <2>1 DEF AccountsInv, OneRecord, RecordsOf
  <2> QED
    BY <2>2, <2>3
<1>11. NewestStands'
  BY <1>1, <1>2 DEF AccountsInv, NewestStands, CodeSpent, DeleterKnowsRecord, RecordsOf
<1> QED
  BY <1>3, <1>4, <1>5, <1>6, <1>7, <1>8, <1>9, <1>10, <1>11 DEF CodesOrderly

-----------------------------------------------------------------------------
(* A code lapses, or its record is swept. *)
LEMMA TimeKeeps ==
  ASSUME AccountsInv, NEW k \in Requests, Lapse(k) \/ Sweep(k)
  PROVE  AccountsInv'
<1>1. /\ user' = user /\ pc' = pc /\ call' = call /\ found' = found /\ mailed' = mailed
      /\ spent' = spent /\ last' = last
      /\ crossed' = crossed /\ raced' = raced /\ reopened' = reopened
      /\ lapsed \subseteq lapsed'
      /\ record' = record \/ /\ record' = [record EXCEPT ![k] = NoRecord]
                             /\ record[k].code \in lapsed'
  BY DEF Lapse, Sweep, docs, codes, races
<1>2. /\ record' \in [Requests -> RecordDoc]
      /\ \A m \in Requests : \/ record'[m] = record[m]
                             \/ record'[m] = NoRecord /\ record[m].code \in lapsed'
      /\ NoRecord.code = None /\ NoRecord.student = None /\ None \notin Requests \cup Students
  BY <1>1, AccountsAssumption DEF AccountsInv, AccountsTypeOK, RecordDoc, NoRecord
<1>3. AccountsTypeOK' /\ CallFits' /\ UsersNamedByMaker' /\ FoundExists'
  BY <1>1, <1>2 DEF AccountsInv, AccountsTypeOK, CallFits, UsersNamedByMaker, FoundExists,
    Registering, EntersCode, Userless
<1>10. RunFindsOwn' /\ RewritesNoted' /\ OverwritesNoted'
  BY <1>1, <1>2 DEF AccountsInv, RunFindsOwn, RewritesNoted, OverwritesNoted, UsersOf
<1>4. RegistrationsNoted' /\ CodeWorkNoted' /\ CreateMeetsNone' /\ OneAccount'
  BY <1>1 DEF AccountsInv, RegistrationsNoted, CodeWorkNoted, CreateMeetsNone, OneAccount,
    Running, UsersOf, SomeVerified
<1>5. CodesNamedByMaker' /\ OneRecordPerCode'
  BY <1>1, <1>2 DEF AccountsInv, CodesNamedByMaker, OneRecordPerCode, Codeless
<1>6. SpentCodeIsGone'
  BY <1>1, <1>2 DEF AccountsInv, SpentCodeIsGone, AccountsTypeOK
<1>7. DeleterKnowsRecord'
  BY <1>1, <1>2 DEF AccountsInv, DeleterKnowsRecord, CallFits, EntersCode, AccountsTypeOK
<1>8. InsertMeetsNone' /\ OneRecord'
  BY <1>1, <1>2 DEF AccountsInv, CallFits, InsertMeetsNone, OneRecord, RecordsOf
<1>9. NewestStands'
  BY <1>1, <1>2 DEF AccountsInv, NewestStands, RecordsOf
<1> QED
  BY <1>3, <1>4, <1>5, <1>6, <1>7, <1>8, <1>9, <1>10 DEF AccountsInv

(* The invariant holds however requests interleave, stop and wait. *)
THEOREM AccountsInvariant == Spec => []AccountsInv
<1>1. Init => AccountsInv
  BY InitHolds
<1>2. AccountsInv /\ [Next]_accountVars => AccountsInv'
  <2> SUFFICES ASSUME AccountsInv, [Next]_accountVars
               PROVE  AccountsInv'
    OBVIOUS
  <2>1. ASSUME NEW r \in Requests, Handle(r) \/ Stop(r)
        PROVE  AccountsInv'
    <3>1. CodesOrderly'
      BY <2>1, RecordMoves, QuietKeeps, WritingKeeps, SpendingKeeps
    <3> QED
      BY <2>1, <3>1, AccountsKeep DEF CodesOrderly, AccountsInv
  <2>2. CASE UNCHANGED accountVars
    <3>1. /\ user' = user /\ record' = record /\ pc' = pc /\ call' = call /\ found' = found
          /\ mailed' = mailed /\ spent' = spent /\ last' = last /\ lapsed' = lapsed
          /\ crossed' = crossed /\ raced' = raced /\ reopened' = reopened
      BY <2>2 DEF accountVars, docs, codes, races
    <3>2. AccountsTypeOK' /\ CallFits' /\ UsersNamedByMaker' /\ FoundExists'
      BY <3>1 DEF AccountsInv, AccountsTypeOK, CallFits, UsersNamedByMaker, FoundExists,
        Registering, EntersCode, Userless
    <3>6. RunFindsOwn' /\ RewritesNoted' /\ OverwritesNoted'
      BY <3>1 DEF AccountsInv, RunFindsOwn, RewritesNoted, OverwritesNoted, UsersOf
    <3>3. RegistrationsNoted' /\ CodeWorkNoted' /\ CreateMeetsNone' /\ OneAccount'
      BY <3>1 DEF AccountsInv, RegistrationsNoted, CodeWorkNoted, CreateMeetsNone, OneAccount,
        Running, UsersOf, SomeVerified
    <3>4. CodesNamedByMaker' /\ OneRecordPerCode' /\ SpentCodeIsGone' /\ DeleterKnowsRecord'
      BY <3>1 DEF AccountsInv, CodesNamedByMaker, OneRecordPerCode, Codeless, SpentCodeIsGone,
        DeleterKnowsRecord
    <3>5. InsertMeetsNone' /\ OneRecord' /\ NewestStands'
      BY <3>1 DEF AccountsInv, InsertMeetsNone, OneRecord, NewestStands, RecordsOf
    <3> QED
      BY <3>2, <3>3, <3>4, <3>5, <3>6 DEF AccountsInv
  <2>3. ASSUME NEW r \in Requests, NEW s \in Students,
               NEW c \in Calls(s), Ask(r, c)
        PROVE  AccountsInv'
    BY <2>3, AskKeeps
  <2>4. ASSUME NEW k \in Requests, Lapse(k) \/ Sweep(k)
        PROVE  AccountsInv'
    BY <2>4, TimeKeeps
  <2> QED
    BY <2>1, <2>2, <2>3, <2>4 DEF Next
<1> QED
  BY <1>1, <1>2, PTL DEF Spec

-----------------------------------------------------------------------------
(* A set whose members are all equal has at most one. *)
LEMMA AtMostOne ==
  ASSUME NEW S, \A x, y \in S : x = y
  PROVE  Cardinality(S) \in {0, 1}
<1>1. CASE S = {}
  BY <1>1, FS_EmptySet
<1>2. ASSUME NEW x \in S
      PROVE  Cardinality(S) \in {0, 1}
  <2>1. S = {x}
    BY <1>2
  <2> QED
    BY <2>1, FS_Singleton
<1> QED
  BY <1>1, <1>2

(* No record holds a code that was accepted, whoever sends or enters codes  *)
(* at the same time, so that a later lookup cannot find it (verifyEmailOtp). *)
THEOREM AcceptedCodeIsGone == Spec => []SpentCodeIsGone
BY AccountsInvariant, PTL DEF AccountsInv

(* Only requests that work on one student's codes side by side can leave    *)
(* two records or lose a code that was not used (sendEmailOtp).             *)
THEOREM NewestCodeWorks == Spec => []OrderlyCodes
<1>1. AccountsInv => OrderlyCodes
  <2> SUFFICES ASSUME AccountsInv, NEW s \in Students \ crossed
               PROVE  Cardinality(RecordsOf(s)) <= 1
    BY DEF AccountsInv, NewestStands, OrderlyCodes
  <2> QED
    BY AtMostOne DEF AccountsInv, OneRecord
<1> QED
  BY <1>1, AccountsInvariant, PTL

(* A student gets a second account only from two registrations at once or   *)
(* after the first account was verified (registerStudent).                  *)
THEOREM OneAccountUnlessVerified == Spec => []DuplicatesFollowVerification
<1>1. AccountsInv => DuplicatesFollowVerification
  <2> SUFFICES ASSUME AccountsInv, NEW s \in Students \ raced, ~SomeVerified(s)
               PROVE  ~(Cardinality(UsersOf(s)) > 1)
    BY DEF DuplicatesFollowVerification, SomeVerified
  <2>1. Cardinality(UsersOf(s)) \in {0, 1}
    BY AtMostOne DEF AccountsInv, OneAccount
  <2> QED
    BY <2>1
<1> QED
  BY <1>1, AccountsInvariant, PTL

(* The password of a verified account changes only for somebody who entered *)
(* a code mailed to its student (resetPassword), for the holder of its      *)
(* token (update-profile), by run on its fixed number, or by a sign-up      *)
(* (register) while the account is not completed, unless a registration or  *)
(* a sign-up had found the account before it was verified or completed.     *)
THEOREM PasswordIsProtected == Spec => PasswordNeedsCode
<1> DEFINE Earned(i) ==
      LET by == call[user'[i].password] IN
      user[i].verified /\ user'[i].password # user[i].password =>
        \/ by.code \in spent \cap mailed
        \/ by.op = "profile" /\ by.account = i
        \/ by.op = "run" /\ user[i].student = RunStudent
        \/ by.op = "signUp" /\ ~user[i].completed
        \/ i \in reopened
<1>1. AccountsInv /\ [Next]_accountVars => \A i \in Requests : Earned(i)
  <2> SUFFICES ASSUME AccountsInv, [Next]_accountVars, NEW i \in Requests
               PROVE  Earned(i)
    OBVIOUS
  <2>0. user \in [Requests -> UserDoc]
    BY DEF AccountsInv, AccountsTypeOK
  <2>1. CASE user' = user
    BY <2>1
  <2>2. ASSUME NEW r \in Requests, Rewrite(r), user' # user
        PROVE  Earned(i)
    BY <2>0, <2>2 DEF Rewrite, AccountsInv, RewritesNoted, UserDoc
  <2>3. ASSUME NEW r \in Requests, Create(r), user' # user
        PROVE  Earned(i)
    BY <2>0, <2>3 DEF Create, AccountsInv, UsersNamedByMaker, Userless, NoUser
  <2>4. ASSUME NEW r \in Requests, MarkVerified(r)
        PROVE  Earned(i)
    BY <2>0, <2>4 DEF MarkVerified, UserDoc
  <2>5. ASSUME NEW r \in Requests, SavePassword(r)
        PROVE  Earned(i)
    <3>1. i # found[r].user => user'[i] = user[i]
      BY <2>0, <2>5 DEF SavePassword
    <3>2. i = found[r].user => user'[i].password = r
      BY <2>0, <2>5 DEF SavePassword, UserDoc
    <3> QED
      BY <2>5, <3>1, <3>2 DEF SavePassword, AccountsInv, CallFits, EntersCode, RunFindsOwn, UsersOf
  <2>6. ASSUME NEW r \in Requests, Overwrite(r)
        PROVE  Earned(i)
    <3>1. i # found[r].user => user'[i] = user[i]
      BY <2>0, <2>6 DEF Overwrite
    <3>2. i = found[r].user => user'[i].password = r
      BY <2>0, <2>6 DEF Overwrite, UserDoc
    <3> QED
      BY <2>6, <3>1, <3>2 DEF Overwrite, AccountsInv, CallFits, OverwritesNoted
  <2>7. ASSUME NEW r \in Requests, SaveProfile(r), user' # user
        PROVE  Earned(i)
    <3>1. PICK n \in Names, p \in {user[call[r].account].password, r}, c \in BOOLEAN :
            user' = [user EXCEPT ![call[r].account].name = n, ![call[r].account].password = p,
                                 ![call[r].account].completed = c]
      BY <2>7 DEF SaveProfile
    <3>2. i # call[r].account => user'[i] = user[i]
      BY <2>0, <3>1
    <3>3. i = call[r].account => user'[i].password \in {user[i].password, r}
      BY <2>0, <3>1 DEF UserDoc
    <3> QED
      BY <2>7, <3>2, <3>3 DEF SaveProfile, AccountsInv, CallFits
  <2> QED
    BY <2>1, <2>2, <2>3, <2>4, <2>5, <2>6, <2>7 DEF Next, Handle, Ask, FindUser, UpsertCode,
      InsertCode, Mail, FindOwner, FindCode, DeleteCode, FindNumber, Lapse, Sweep, Stop, docs,
      accountVars
<1> QED
  BY <1>1, AccountsInvariant, PTL DEF Spec, PasswordNeedsCode
=============================================================================
