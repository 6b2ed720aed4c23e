------------------------------- MODULE Accounts -------------------------------
(***************************************************************************)
(* AuthService and OtpService: registration, one-time codes by mail, and    *)
(* what they are needed for.  A request awaits the database several times,  *)
(* and others go on meanwhile.                                              *)
(*                                                                         *)
(* A student stands for a registration number at an institution and for    *)
(* the mail address that goes with it: profile updates that change one of   *)
(* these are left out.  User documents, code records and codes are named    *)
(* after the request that made them; a password after the request that set *)
(* it.  Registration and sign-up also create a wallet, whose outcome they   *)
(* ignore: that call is part of Wallet.                                     *)
(***************************************************************************)
EXTENDS Naturals, FiniteSets

CONSTANTS
  Students,
  Names,      \* usernames
  Requests,   \* requests, each used at most once
  Ops,        \* the requests that clients make (a bound)
  RunStudent, \* the student with the number that run() resets, or None
  None        \* an absent value

ASSUME AccountsAssumption ==
  /\ Ops \subseteq {"register", "forgot", "send", "verify", "reset", "check",
                    "signUp", "run", "profile"}
  /\ RunStudent \in Students \cup {None}
  /\ None \notin Students \cup Names \cup Requests

VARIABLES
  user,       \* the user documents
  record,     \* the code records: whose, and which code
  lapsed,     \* codes that are older than ten minutes
  mailed,     \* codes that reached their student
  pc,         \* the next step of each request
  call,       \* the arguments of each request
  found,      \* the user and the record that it found
  spent,      \* history: codes that a request entered, and whose record it deleted
  last,       \* history: the newest code written for each student
  crossed,    \* history: students of whom two requests worked on codes at once
  raced,      \* history: students of whom two registrations ran at once
  reopened    \* history: accounts verified, or completed, while a registration, or a
              \* sign-up, that had found them otherwise was to write them

docs        == <<user, record>>
codes       == <<lapsed, mailed, spent, last>>
races       == <<crossed, raced, reopened>>
accountVars == <<docs, codes, pc, call, found, races>>

NoUser   == [student |-> None, name |-> None, password |-> None,
             verified |-> FALSE, completed |-> FALSE]
NoRecord == [student |-> None, code |-> None]
NoCall   == [op |-> None, student |-> None, code |-> None, account |-> None]
Nothing  == [user |-> None, record |-> None]

Init ==
  /\ user     = [i \in Requests |-> NoUser]
  /\ record   = [k \in Requests |-> NoRecord]
  /\ lapsed   = {}
  /\ mailed   = {}
  /\ pc       = [r \in Requests |-> "idle"]
  /\ call     = [r \in Requests |-> NoCall]
  /\ found    = [r \in Requests |-> Nothing]
  /\ spent    = {}
  /\ last     = [s \in Students |-> None]
  /\ crossed  = {}
  /\ raced    = {}
  /\ reopened = {}

Running == {r \in Requests : pc[r] \notin {"idle", "returned", "threw", "stopped"}}

UsersOf(s)   == {i \in Requests : user[i].student = s}
RecordsOf(s) == {k \in Requests : record[k].student = s}

NameTaken(name, i) == \E k \in Requests \ {i} : user[k].name = name

CodeLabels == {"upsertCode", "insertCode", "findCode", "deleteCode"}

(* The request goes on at a label.  Requests of one student that are at     *)
(* work on codes side by side are noted.                                    *)
Goto(r, label) ==
  LET s == call[r].student IN
  /\ pc' = [pc EXCEPT ![r] = label]
  /\ crossed' = IF label \in CodeLabels
                   /\ \E q \in Running \ {r} : call[q].student = s /\ pc[q] \in CodeLabels
                THEN crossed \cup {s} ELSE crossed

-----------------------------------------------------------------------------
FirstLabel(op) ==
  CASE op = "register"                     -> "findUser"
    [] op \in {"forgot", "verify", "reset"} -> "findOwner"
    [] op = "send"                         -> "upsertCode"
    [] op = "check"                        -> "findCode"
    [] op \in {"signUp", "run"}            -> "findNumber"
    [] op = "profile"                      -> "saveProfile"

(* The routes of the controllers.  Whoever enters a code got it by mail, and *)
(* whoever updates a profile has a token of the account.  The username, the *)
(* password and the status that a request brings are chosen where they are  *)
(* written.                                                                  *)
Ask(r, c) ==
  /\ pc[r] = "idle"
  /\ c.op \in Ops
  /\ c.code # None => c.code \in mailed /\ call[c.code].student = c.student
  /\ call' = [call EXCEPT ![r] = c]
  /\ pc' = [pc EXCEPT ![r] = FirstLabel(c.op)]
  /\ crossed' = IF FirstLabel(c.op) \in CodeLabels
                   /\ \E q \in Running : call[q].student = c.student /\ pc[q] \in CodeLabels
                THEN crossed \cup {c.student} ELSE crossed
  /\ raced' = IF c.op = "register"
                 /\ \E q \in Running : call[q].op = "register" /\ call[q].student = c.student
              THEN raced \cup {c.student} ELSE raced
  /\ UNCHANGED <<docs, codes, found, reopened>>

WithCode(s)    == [op : {"verify", "reset", "check"},
                   student : {s}, code : mailed, account : {None}]
WithToken(s)   == [op : {"profile"}, student : {s}, code : {None}, account : UsersOf(s)]
WithNeither(s) == [op : {"register", "forgot", "send", "signUp"}
                          \cup (IF s = RunStudent THEN {"run"} ELSE {}),
                   student : {s}, code : {None}, account : {None}]
Calls(s)       == WithCode(s) \cup WithToken(s) \cup WithNeither(s)

-----------------------------------------------------------------------------
FindUserUntested(r) ==      \* mutant: whatever account is found is rewritten
  /\ pc[r] = "findUser"
  /\ \/ /\ UsersOf(call[r].student) = {}
        /\ Goto(r, "create")
        /\ UNCHANGED found
     \/ \E i \in UsersOf(call[r].student) :
          /\ found' = [found EXCEPT ![r].user = i]
          /\ Goto(r, "rewrite")
  /\ UNCHANGED <<docs, codes, call, raced, reopened>>

FindUserCompleted(r) ==     \* mutant: only a completed account is rewritten
  /\ pc[r] = "findUser"
  /\ \/ /\ \A i \in UsersOf(call[r].student) : ~user[i].completed
        /\ Goto(r, "create")
        /\ UNCHANGED found
     \/ \E i \in UsersOf(call[r].student) :
          /\ user[i].completed
          /\ found' = [found EXCEPT ![r].user = i]
          /\ Goto(r, IF ~user[i].verified THEN "rewrite" ELSE "threw")
  /\ UNCHANGED <<docs, codes, call, raced, reopened>>

(* registerStudent: a user who is verified and completed is refused, one    *)
(* who is not verified is updated, and in every other case a user is made.  *)
FindUser(r) ==
  /\ pc[r] = "findUser"
  /\ \/ /\ UsersOf(call[r].student) = {}
        /\ Goto(r, "create")
        /\ UNCHANGED found
     \/ \E i \in UsersOf(call[r].student) :
          /\ found' = [found EXCEPT ![r].user = i]
          /\ Goto(r, IF ~user[i].verified THEN "rewrite"
                     ELSE IF user[i].completed THEN "threw" ELSE "create")
  /\ UNCHANGED <<docs, codes, call, raced, reopened>>

(* An account is completed while sign-ups that found it open go on. *)
NoteCompletion(i) ==
  reopened' = IF /\ user'[i].completed /\ ~user[i].completed
                 /\ \E q \in Running : pc[q] = "overwrite" /\ found[q].user = i
              THEN reopened \cup {i} ELSE reopened

(* The user is updated by id, whatever it is by now, unless the unique      *)
(* index on the username refuses it.  The status of the request, if it has  *)
(* one, replaces the account's, which need not be completed any more.       *)
Rewrite(r) ==
  LET i == found[r].user IN
  /\ pc[r] = "rewrite"
  /\ \E n \in Names :
       \/ NameTaken(n, i) /\ Goto(r, "threw") /\ UNCHANGED <<user, reopened>>
       \/ /\ ~NameTaken(n, i)
          /\ \E c \in BOOLEAN : user' = [user EXCEPT ![i].name = n, ![i].password = r,
                                                     ![i].completed = c]
          /\ NoteCompletion(i)
          /\ Goto(r, "upsertCode")
  /\ UNCHANGED <<record, codes, call, found, raced>>

(* Nothing but the username is unique. *)
Create(r) ==
  /\ pc[r] = "create"
  /\ \E n \in Names :
       \/ NameTaken(n, r) /\ Goto(r, "threw") /\ UNCHANGED user
       \/ /\ ~NameTaken(n, r)
          /\ \E c \in BOOLEAN : user' = [user EXCEPT ![r] =
               [student |-> call[r].student, name |-> n, password |-> r,
                verified |-> FALSE, completed |-> c]]
          /\ Goto(r, "upsertCode")
  /\ UNCHANGED <<record, codes, call, found, raced, reopened>>

-----------------------------------------------------------------------------
UpsertCodeAnew(r) ==        \* mutant: every code gets a record of its own
  /\ pc[r] = "upsertCode"
  /\ Goto(r, "insertCode")
  /\ UNCHANGED <<docs, codes, call, found, raced, reopened>>

(* sendEmailOtp: some record of the address gets the new code.  When there  *)
(* is none, the upsert inserts one, and two upserts may both do that: the   *)
(* index on the address is not unique.                                      *)
UpsertCode(r) ==
  LET s == call[r].student IN
  /\ pc[r] = "upsertCode"
  /\ \/ /\ RecordsOf(s) = {}
        /\ Goto(r, "insertCode")
        /\ UNCHANGED <<record, last>>
     \/ \E k \in RecordsOf(s) :
          /\ record' = [record EXCEPT ![k].code = r]
          /\ last' = [last EXCEPT ![s] = r]
          /\ Goto(r, "mail")
  /\ UNCHANGED <<user, lapsed, mailed, spent, call, found, raced, reopened>>

InsertCode(r) ==
  LET s == call[r].student IN
  /\ pc[r] = "insertCode"
  /\ record' = [record EXCEPT ![r] = [student |-> s, code |-> r]]
  /\ last' = [last EXCEPT ![s] = r]
  /\ Goto(r, "mail")
  /\ UNCHANGED <<user, lapsed, mailed, spent, call, found, raced, reopened>>

(* The mail arrives or not; the request returns in either case. *)
Mail(r) ==
  /\ pc[r] = "mail"
  /\ mailed' \in {mailed, mailed \cup {r}}
  /\ Goto(r, "returned")
  /\ UNCHANGED <<docs, lapsed, spent, last, call, found, raced, reopened>>

-----------------------------------------------------------------------------
(* requestForgot, verifyOTP and resetPassword start from some user with the *)
(* address.  (resetPassword looks twice and uses the first.)                *)
FindOwner(r) ==
  /\ pc[r] = "findOwner"
  /\ \/ /\ UsersOf(call[r].student) = {}
        /\ Goto(r, "threw")
        /\ UNCHANGED found
     \/ \E i \in UsersOf(call[r].student) :
          /\ found' = [found EXCEPT ![r].user = i]
          /\ Goto(r, IF call[r].op = "forgot" THEN "upsertCode" ELSE "findCode")
  /\ UNCHANGED <<docs, codes, call, raced, reopened>>

(* verifyEmailOtp: some record of the address must hold the code, *)
FindCode(r) ==
  /\ pc[r] = "findCode"
  /\ \/ /\ RecordsOf(call[r].student) = {}
        /\ Goto(r, "threw")
        /\ UNCHANGED found
     \/ \E k \in RecordsOf(call[r].student) :
          /\ found' = [found EXCEPT ![r].record = k]
          /\ Goto(r, IF record[k].code = call[r].code /\ record[k].code \notin lapsed
                       THEN "deleteCode" ELSE "threw")
  /\ UNCHANGED <<docs, codes, call, raced, reopened>>

AfterCode(op) ==
  CASE op = "verify" -> "markVerified" [] op = "reset" -> "savePassword" [] OTHER -> "returned"

DeleteCodeByAddress(r) ==   \* mutant: some record of the address is deleted
  /\ pc[r] = "deleteCode"
  /\ \/ RecordsOf(call[r].student) = {} /\ UNCHANGED record
     \/ \E k \in RecordsOf(call[r].student) : record' = [record EXCEPT ![k] = NoRecord]
  /\ spent' = spent \cup {call[r].code}
  /\ Goto(r, AfterCode(call[r].op))
  /\ UNCHANGED <<user, lapsed, mailed, last, call, found, raced, reopened>>

(* and is deleted by its id, whichever code it holds by now, if it is still *)
(* there: the answer of the deletion is not looked at.                      *)
DeleteCode(r) ==
  /\ pc[r] = "deleteCode"
  /\ record' = [record EXCEPT ![found[r].record] = NoRecord]
  /\ spent' = spent \cup {call[r].code}
  /\ Goto(r, AfterCode(call[r].op))
  /\ UNCHANGED <<user, lapsed, mailed, last, call, found, raced, reopened>>

(* updateUserVerification *)
MarkVerified(r) ==
  LET i == found[r].user IN
  /\ pc[r] = "markVerified"
  /\ user' = [user EXCEPT ![i].verified = TRUE]
  /\ reopened' = IF \E q \in Running : pc[q] = "rewrite" /\ found[q].user = i
                 THEN reopened \cup {i} ELSE reopened
  /\ Goto(r, "returned")
  /\ UNCHANGED <<record, codes, call, found, raced>>

(* resetPassword and run *)
SavePassword(r) ==
  /\ pc[r] = "savePassword"
  /\ user' = [user EXCEPT ![found[r].user].password = r]
  /\ Goto(r, "returned")
  /\ UNCHANGED <<record, codes, call, found, raced, reopened>>

-----------------------------------------------------------------------------
(* The older sign-up, register, finds an account by its number and sets its *)
(* password unless the status is completed: verification does not matter.   *)
(* run finds the account of a fixed number and resets whatever it finds.    *)
(* The number may be in use at several institutions: the call's student is  *)
(* the one whose account is come upon.                                      *)
FindNumber(r) ==
  /\ pc[r] = "findNumber"
  /\ \/ /\ UsersOf(call[r].student) = {}
        /\ Goto(r, "threw")
        /\ UNCHANGED found
     \/ \E i \in UsersOf(call[r].student) :
          /\ found' = [found EXCEPT ![r].user = i]
          /\ Goto(r, IF call[r].op = "run" THEN "savePassword"
                     ELSE IF user[i].completed THEN "threw" ELSE "overwrite")
  /\ UNCHANGED <<docs, codes, call, raced, reopened>>

(* The account is updated by id, whatever it is by now. *)
Overwrite(r) ==
  /\ pc[r] = "overwrite"
  /\ user' = [user EXCEPT ![found[r].user].password = r]
  /\ Goto(r, "returned")
  /\ UNCHANGED <<record, codes, call, found, raced, reopened>>

(* PATCH users/update-profile: any fields of the account that the token     *)
(* names, the password and the status among them.                           *)
SaveProfile(r) ==
  LET i == call[r].account IN
  /\ pc[r] = "saveProfile"
  /\ \E n \in Names :
       \/ NameTaken(n, i) /\ Goto(r, "threw") /\ UNCHANGED <<user, reopened>>
       \/ /\ ~NameTaken(n, i)
          /\ \E p \in {user[i].password, r}, c \in BOOLEAN :
               user' = [user EXCEPT ![i].name = n, ![i].password = p, ![i].completed = c]
          /\ NoteCompletion(i)
          /\ Goto(r, "returned")
  /\ UNCHANGED <<record, codes, call, found, raced>>

-----------------------------------------------------------------------------
(* Ten minutes pass for a code, ... *)
Lapse(k) ==
  /\ record[k] # NoRecord
  /\ record[k].code \notin lapsed
  /\ lapsed' = lapsed \cup {record[k].code}
  /\ UNCHANGED <<docs, mailed, spent, last, pc, call, found, races>>

(* ... and later MongoDB deletes the record (the index on expiresAt). *)
Sweep(k) ==
  /\ record[k] # NoRecord
  /\ record[k].code \in lapsed
  /\ record' = [record EXCEPT ![k] = NoRecord]
  /\ UNCHANGED <<user, codes, pc, call, found, races>>

(* The process dies, or a database operation fails. *)
Stop(r) ==
  /\ r \in Running
  /\ pc' = [pc EXCEPT ![r] = "stopped"]
  /\ UNCHANGED <<docs, codes, call, found, races>>

Handle(r) ==
  \/ FindUser(r) \/ Rewrite(r) \/ Create(r)
  \/ UpsertCode(r) \/ InsertCode(r) \/ Mail(r)
  \/ FindOwner(r) \/ FindCode(r) \/ DeleteCode(r)
  \/ MarkVerified(r) \/ SavePassword(r)
  \/ FindNumber(r) \/ Overwrite(r) \/ SaveProfile(r)

Next ==
  \/ \E r \in Requests :
       \/ \E s \in Students : \E c \in Calls(s) : Ask(r, c)
       \/ Handle(r)
       \/ Stop(r)
  \/ \E k \in Requests : Lapse(k) \/ Sweep(k)

Spec == Init /\ [][Next]_accountVars

-----------------------------------------------------------------------------
(* A code that was accepted is in no record any more, whatever was sent or  *)
(* entered at the same time, so that a later lookup does not find it.  It   *)
(* may still be accepted twice: requests that found it before the first of  *)
(* them deleted its record are all let through.                             *)
SpentCodeIsGone == \A c \in spent : \A k \in Requests : record[k].code # c

(* The newest code of a student works: unless it was used or has lapsed, it *)
(* stands in the only record of its address.  Only requests that worked on  *)
(* the student's codes side by side can leave two records, or take away a   *)
(* code that was not used.                                                  *)
OrderlyCodes == \A s \in Students \ crossed :
  /\ Cardinality(RecordsOf(s)) <= 1
  /\ last[s] # None /\ last[s] \notin spent \cup lapsed =>
       \E k \in RecordsOf(s) : record[k].code = last[s]

(* A student has two accounts only after two registrations ran at once, or  *)
(* when one of the accounts had been verified: "exists but NOT verified ->  *)
(* update" keeps repeated registrations on one account.                     *)
DuplicatesFollowVerification == \A s \in Students \ raced :
  Cardinality(UsersOf(s)) > 1 => \E i \in UsersOf(s) : user[i].verified

(* The password of a verified account changes only for somebody who entered *)
(* a code mailed to its student, for the holder of its token, by run on its *)
(* fixed number, or by a sign-up while the account is not completed.  An    *)
(* account that is verified and completed is thus closed to registration    *)
(* and sign-up, unless one of them had found it open before.                *)
PasswordNeedsCode == [][\A i \in Requests :
  LET by == call[user'[i].password] IN
  user[i].verified /\ user'[i].password # user[i].password =>
    \/ by.code \in spent \cap mailed
    \/ by.op = "profile" /\ by.account = i
    \/ by.op = "run" /\ user[i].student = RunStudent
    \/ by.op = "signUp" /\ ~user[i].completed
    \/ i \in reopened]_accountVars
=============================================================================
