# Assistry backend: a TLA+ verification project

Assistry is a NestJS server over MongoDB and Redis for paid errands among students. A poster
publishes a task, an executor accepts, starts and finishes it, the poster acknowledges it, and the
money moves between their wallets or a commission is booked as a debt. Wallets are filled through
Paystack. The two sides talk in chat rooms, over sockets or through an app that synchronises when
it comes online. Students register and reset passwords with one-time codes sent by mail.

There are no database transactions anywhere in the code. Each handler is an `async` function that
gives way at every `await`, so handlers interleave between any two database operations, and a
process that dies leaves whatever its handlers had written so far. What the project asks is which
guarantees survive that, and which do not.

Paths below are relative to the repository (`src/wallet/...` is the server's source tree).

## 1. Inventory

| Component | State | Operations | Hard behaviour | What makes it correct |
|---|---|---|---|---|
| **Wallet ledger** `src/wallet/wallet.service.ts` | wallets (balance, debt; one per user), transactions (one per reference; pending, success, failed) | getOrCreateWallet, createWalletForUser, createTransaction (credit, debit), recordDebt | shared references, competing debits, creation races, requests that stop half-way | no overdraft; a reference moves money at most once; the status tells the truth about the money; balances and debts reconcile |
| **Deposits** same file, webhook in `wallet.controller.ts` | the pending transaction, the page Paystack made | Initialize, handlePaystackEvent | repeated, overlapping and reordered deliveries, timeouts of the call to Paystack, a crash between the status and the credit | money only from a charge; each charge credited, and credited once |
| **Tasks** `src/tasks/tasks.service.ts` | task documents: status, poster, acceptedBy, declinedBy, terms, views, viewedBy | create, accept, cancel, decline, start, complete, acknowledge, update, findOne (counts a view), listings | every handler is a lookup followed by an update that repeats none of the lookup's conditions; three lookups do not mention the task's id; the number of views is written back from an old copy | the lifecycle; a task changes hands only while open; work is not undone; one view per person |
| **Settlement** `acknowledgeTask` | tasks and wallets together | completed, then debit and credit (in-app) or debt (cash) | two acknowledgements, edits meanwhile, a refused debit, a crash between debit and credit | money is conserved; nobody is paid from nothing; a debit is passed on |
| **Chat rooms and messages** `src/chat/chat.service.ts` | rooms (members, unread counters, date), messages (readers, status) | findOrCreateRoom, createMessage, markAsRead, updateMessageStatus, listings | a message is stored and counted in two steps, a room is read and cleared in several, saves of one room that compare versions | one room per conversation; counters that agree with what is unread |
| **Offline sync** `src/chat/sync.controller.ts`, end of `chat.service.ts` | the device's cursor and batch | pull, push | the cursor is taken after the queries; a push is not idempotent | nothing is missed, nothing is lost, order is kept |
| **Chat gateway, presence** `src/chat/chat.gateway.ts` | the Redis set of online users, sockets, Redis channels | connect, disconnect, join, leave, send, delivered, seen, counts | several sockets of a user on several processes, counts pushed out of order or late between processes, a process that dies with sockets | online means connected; the last count pushed is the newest |
| **Accounts and codes** `src/auth`, `src/otp`, `src/users` | users, one-time codes | registerStudent, register, run, verifyOTP, requestForgot, resetPassword, update-profile, sendEmailOtp, verifyEmailOtp, login | overlapping sends and verifications, duplicate registrations, several ways to a new password | the record of a used code is gone; one user per student; a password changes only in the known ways |
| **Notifications, uploads, institutions, guards, Redis adapter, phone codes, Prisma** | none that interleaves | output or single operations | – | – |

Interactions: Tasks, Deposits and registration call the wallet service inside one process; the
gateway, the REST controllers and sync share the chat service; Paystack calls the webhook; the
gateways of several processes talk through Redis. Push notifications are sent from most handlers;
`NotificationsService` catches its own errors, so they change nothing that is modelled and are left
out of the actions.

`PROJECT.json` lists every component with its status, and under `hazards` each place where one of
the behaviours above bites, with the properties aimed at it.

## 2. How the code is modelled

* **One action per awaited database operation.** A single-document operation of MongoDB is atomic,
  so it is one action, together with the synchronous code up to the next `await`. Requests carry a
  program counter and their arguments (`pc`, `call`), or are slots (`job`, `hook`, `pay`).
* **Stopping.** `Crash`, `Die`, `Abort` and `Stop` end a request at an `await` for good. They stand
  for the death of the process and for a database error that leaves the handler.
* **Documents** are records in functions from their unique key (user, reference) or id. A unique
  index is a test in the inserting action; the loser throws, as with a duplicate-key error.
* **Amounts** are integers in kobo of any sign. `/wallet/topup` and `/wallet/debit` have untyped
  bodies that nobody validates, and the incentive of a task is an unchecked string, so a payment may
  be zero or negative; only `POST /wallet/transactions` has a DTO that demands more. Fractions of a
  kobo (`convertToKobo` is a product of floats) and values that are no numbers are not modelled.
* **References** made by the server (`psk_<uuid>`, `reference_generator`) are taken to be fresh;
  references that clients send are not.
* **History variables** (`applied`, `finished`, `crossed` of `Tasks` and of `Accounts`, `overlaps`,
  `crowded`, `late`, `origin`, `together`, `muddled`, `spent`, `last`, `raced`, `reopened`) record
  what the documents do not. No guard reads them.
* **Mutants.** Definitions marked `mutant` are not part of any specification: each is the definition
  below it with a plausible bug, and breaks a property named in `PROJECT.json`.

### Modules

| Module | What it is | Code |
|---|---|---|
| `Wallet` | the wallet service | `wallet.service.ts` 55–99, 174–237, 375–413 and the schemas |
| `Ledger` | abstract: a booking is one step, a reference is used once | – |
| `WalletBooks` | refinement mapping from `Wallet` to `Ledger`; balances reconciled, of deposits too | – |
| `Deposit` | Initialize and the webhook, extending `Wallet`; Paystack is external | `wallet.service.ts` 239–370 |
| `DepositBooks` | the service next to deposits as a ledger that is paid in from outside | – |
| `Tasks` | the task handlers as find-then-update requests | `tasks.service.ts` 34–52, 257–440, 600–671 |
| `TaskBoard` | abstract: check and change in one step | – |
| `TasksSerial` | the conditions under which `Tasks` implements `TaskBoard` | – |
| `TaskViews` | views, extending `Tasks` | `tasks.service.ts`, `findOne` |
| `Settlement`, `SettlementBooks` | `acknowledgeTask`: `Wallet` and `Tasks` composed | `tasks.service.ts` 421–507 |
| `Chat` | rooms, messages, unread counters | `chat.service.ts` 31–176, 299–378, 493–513 |
| `Sync` | pulls and pushes of devices, composed with `Chat` | `sync.controller.ts`, `chat.service.ts` 529–613 |
| `Gateway` | presence and unread counts over several processes | `chat.gateway.ts`, `adapters/redis-io.adapter.ts` |
| `Accounts` | registration, codes, passwords | `auth.service.ts`, `otp.service.ts`, `users.service.ts`, their controllers |
| `WalletProofs`, `LedgerProofs`, `DepositProofs`, `TasksProofs`, `SettlementProofs`, `ChatProofs`, `GatewayProofs`, `AccountsProofs` | TLAPS proofs; `TasksProofs` also covers `TasksSerial` and `TaskViews`, `ChatProofs` also `Sync` | – |
| `MC...` | instances for TLC | – |

Where state and actions correspond less directly:

* **Wallet.** `InsertTx` of `Wallet` is the only way to a `pending` document apart from
  `InitInsert`; `applied[f]` counts how often the amount under `f` changed a balance. The branch for
  an unknown transaction type cannot be reached and is left out.
* **Deposit.** A deposit `d` is at once the request that runs `getOrCreateWallet` and the reference
  it books under. `pages` are the payment pages that Paystack made, for positive amounts only: also
  those whose answer came after the timeout or never, so that the catch block marked the transaction
  failed; they can be charged all the same. `ChargeEnds` and `Deliver` are Paystack: a page can have
  a failed attempt and a success, and any report can be delivered any number of times, also while an
  earlier delivery is still in its handler. The code saves only modified paths of a document, so
  `InitSave` does not write the status.
* **Tasks.** The arrival of a request and its lookup are one action (`Find`): nothing can be told
  from an arrival. A lookup that finds nothing throws and changes nothing, so it is no action.
  `EXPIRED` is never set and `expires` never read by these handlers. Only the terms (incentive and
  payment method) of an update are kept, since they are what settlement reads. `crossed` are the
  tasks on which a request arrived while another was under way, or that a request reached whose
  lookup had found another task.
* **TaskViews.** Mongoose writes `views` as the value computed from the copy and `viewedBy` as a
  `$push`, and neither save tests the version. The list is kept as a set: a person whose two first
  views overlap stands on it twice in the database, and is counted once here.
* **Settlement.** The payment is a sequence of wallet calls, each with its own request of `Wallet`;
  `Ask` starts one and `Await` continues with its answer. A handler that stops between two wallet
  calls is a handler whose next call stopped before its first lookup. Every other
  handler of tasks is a step next to the payments (`HandleUnpaid`), `completeTask` included, which
  writes `finished` by id whatever the status is. The composition starts with tasks that are ongoing
  or finished and funded posters; `Tasks` shows how tasks get there.
* **Chat.** A message has the id of the request that sends it, and its date is its rank. Mongoose
  writes a key of a `Map` only if the new value differs from the one that was read, so `SaveCounter`
  leaves a counter that it found at zero. But every save of a room writes its participants, because
  the `pre('validate')` hook sorts them, and a write of a whole array makes Mongoose compare the
  version with that of the copy and count it up. `SaveRoom` models this: `stale` holds the requests
  whose copy is older than the room, whose save throws a VersionError. The second `save()` of
  `markAsRead` (`SaveAgain`) has only the participants left to write, and can fail the same way. The
  `$inc` of `createMessage` leaves the version alone.
* **Sync.** A cursor is kept as the sets of what is newer than it (`newMessages`, `newRooms`). A
  message is dated when `createMessage` constructs it, which is before its insert is executed, so a
  pull can pass over a message that is dated and not yet there. Two events in the same millisecond
  are told apart, so the `$gt` of the query misses nothing by itself here. A pull that finds a
  changed room with counters throws (`room.unreadCounts.get` on a lean document): the guard of
  `PullRooms`. Client ids are dropped by `applyChanges`, so what a device pushed comes back to it
  under new ids; the model follows one message of a batch through `origin`.
* **Gateway.** Redis executes the commands of one connection in order, and those of different
  processes in any order. A count reaches the sockets of the process that emits it at once (`Emit`),
  and those of another through the Redis adapter: `relay` keeps the order of one sender, `Deliver`
  may be late, and `Lose` drops what is under way. All users share one conversation, so a user's
  count is 0 or 1, and the counter part of `createMessage` and `markAsRead` is one step of `Begin`;
  `Chat` has the detail. The properties are about counts and the online set, so that the two halves
  of the state only meet in the sockets.
* **Accounts.** The two sign-ups, `run` (which resets the account of one fixed number, of the
  student `RunStudent`) and `update-profile` are requests like the others; the last needs a token,
  and takes any password, name and status. Profile updates that change the number, the institution
  or the address, and so whom an account belongs to, are left out. A code, a code record and a user
  document are named after the request that made them. The six digits of a code do not collide, and
  nobody enters a code that was not mailed to them. The state in which `findOne` may return either
  of two documents is a choice.

## 3. What the runs check

Runs that pass:

| Run | Bounds | States | Question |
|---|---|---|---|
| `wallet` | 2 users, 2 references, 3 requests from 9 calls, amounts -1, 1 and 2, requests interchangeable | 259 k | Is the service an atomic ledger, whatever interleaves or stops? |
| `deposit` | 1 deposit, 3 deliveries, 1 debit | 281 k | Does money come only from charges, does a delivered charge arrive, and is the rest still a ledger? |
| `tasks` | 2 users, 2 tasks, 2 requests at a time without end | 957 k | What survives the gap between lookup and update, and what takes requests that cross? |
| `tasks_serial` | the same with 2 terms | 37 k | What would be enough for the lifecycle to hold? |
| `views` | 3 users, 2 tasks, 3 requests at a time without end | 48 k | What is the number of views worth? |
| `settlement` | 1 task, 2 acknowledgements, completions, cancellations, edits; fair event loop | 172 k | Is money conserved, is every credit backed, is every debit passed on, and who pays twice? |
| `chat` | 2 people, 4 requests of any kind, 2 room ids | 377 k | What are the counters and dates worth? |
| `sync` | 2 people, 1 room, 1 device with a batch of 2, 2 pushes, pulls without end, 3 chat requests | 1.9 M | What do pulls miss, and what do repeated pushes do? |
| `gateway` | 2 users, 3 sockets, 2 processes, 2 events, 3 commands under way per process, 1 once an event has come | 1.4 M | Who is shown online, and when is a shown count right? |
| `accounts` | 1 student, 2 usernames, 3 requests of any of 9 kinds | 855 k | What can a code, and a repeated registration, do, and what changes a password? |

Several properties are of the form *right unless this happened*: a message is on the device unless
it was stored during a pull (`OrderlyPulls`), a task is paid once unless requests for it crossed
(`PaidOnce`), a client shows the right count unless counts were pushed side by side, overtook each
other between processes, or missed a socket (`OrderlyBadge`), the newest code works unless two
requests worked on codes at once (`OrderlyCodes`). The exception is a history variable that records
one particular race, so the property says that this race is the only way to go wrong, not that it
cannot happen. Each exception does happen in the run, but for one: a sign-up that found an account
before it was completed (`PasswordNeedsCode`) takes four requests, and is covered by the theorem.

The two halves of the state of `Gateway` only meet in the sockets. The run `gateway` therefore lets
many commands to Redis wait only until the first event, and counts overtake each other with few
commands under way.

Runs that show where the code does not do what its comments or messages say (each checks one
property and TLC finds it violated):

| Run | Property | What happens |
|---|---|---|
| `deposit_twice` | `AppliedOnce` | two overlapping deliveries of one `charge.success` both credit the wallet, although the unique reference is there "to make operations idempotent" |
| `tasks_double_accept` | `AcceptTakesOpenTask` | two executors accept one task, both are told SUCCESS, the second takes it from the first |

`AppliedOnce` holds in `wallet` and fails in `deposit_twice`: `createTransaction` inserts under the
unique reference before it touches the balance, the webhook tests a status it read earlier.

The models also show, without a run of their own: `startTask` starts a task that the caller never
accepted, because its lookup finds another one (the reason for `LookupsFindNamedTask`, and for
`crossed`); two overlapping acknowledgements pay a task twice, or record its commission twice, and
so does a completion that arrives after the acknowledgement and takes the task back to `finished`
(`PaidOnce` says that requests have to cross); a refused debit leaves the task completed and the
executor unpaid; a credit of a negative amount takes a wallet below zero (`NoOverdraft` says that
nothing else does); a send that overlaps a read leaves a badge without unread messages, and of two
people who read a room at once one may fail with a VersionError and keep the counter
(`OrderlyCounters`); two verifications that overlap may both be let through with one code; the older
sign-up sets the password of an account that is verified but not completed (`PasswordNeedsCode`); a
student who is verified and not completed and registers again gets a second account, and a later
verification marks whichever of the two `findOne` returns (`DuplicatesFollowVerification`).

**Bounds.** The hazards are races of two requests with a third party that competes or retries: three
wallet requests allow two that share a reference and one that drains the balance; three deliveries
allow a failed attempt, a success and a repetition of either; two task slots are the smallest number
that interleaves, and they are reused without end; the two slots of `settlement` also serve the
completions and edits between two acknowledgements; four chat requests allow a room to be opened and
two sends and a read, or a send and two reads, to overlap; three views of two tasks let a slow one
overwrite two others; two pushes of a batch of two with three messages in all let the first fail
after either message and the second repeat it; a second socket on the same or another process is
what presence can go wrong with, a third belongs to the sender of messages, and three commands under
way on a connection let a whole life of a socket be overtaken; two events on two processes are what
counts need to overtake each other, which does not depend on how many commands to Redis wait; three
account requests allow a registration, a code, and its use, or two registrations and a verification.
The settlement terms include an incentive whose tenth is not whole. Symmetry is used only in runs
without liveness, over values that no definition distinguishes. `CHECK_DEADLOCK FALSE` is stated
where requests are finite in number and the system really ends, in `views`, where everybody has seen
everything in the end, and in `tasks_double_accept`, where nothing is left to accept; the two other
task runs check for deadlock.

**Fairness.** `DepositFairSpec` assumes that the handler of a delivery that is alive keeps running;
`SettlementFairSpec` that the event loop does not idle while some payment or wallet step is
possible (each step is taken once, so this one condition is enough). Both are what Node's event loop
gives a handler whose database answers. Nothing is assumed of clients or of Paystack, and a handler
may stop at any `await`; the liveness properties say so.

## 4. What is proved

For every value of the constants that satisfies the assumption of the module. The assumptions say
what the code guarantees of the inputs (amounts are integers, a conversation has two
members or more, a socket has one owner, the references of deposits and payments are made by the
server and no client sends them), that the operations are among those that exist, and that the
value `None` is none of the others. In particular users, requests, tasks, rooms, sockets, processes
and pushes are any sets, also infinite ones. Only what adds up needs finite sets:
`FiniteReferences` (`WalletBooks`) and `FiniteBooks` (users and acknowledgements, `SettlementBooks`)
are the documents of a database, as many as you like.

| Module | Theorem | Property |
|---|---|---|
| `WalletProofs` | `TypeCorrect`, `AppliedAtMostOnce`, `StatusIsTrue`, `PendingIsOwned` | `TypeOK`, `AppliedOnce`, `StatusTellsMoney`, `PendingHasOwner` |
| | `SettledStays` | `SettledIsFinal`, an action property |
| `LedgerProofs` | `MoneyIsInAWallet`, `NeverOverdrawn` | `MoneyHasWallet`, `NoOverdraft` |
| | `BalancesAreExplained` | `BalanceReconciles` |
| | `ServiceIsLedger` | `RefinesLedger`: `Wallet` implements `Ledger` |
| `DepositProofs` | `CreditsAreCharged`, `SuccessIsOwned`, `DepositsNeverOverdraw` | `NoCreditWithoutCharge`, `SuccessIsBeingCredited`, `NoOverdraft` |
| | `DepositsLeaveOthersOnce` | `AppliedOnce` for the references that are no deposits |
| | `DepositsAreExplained` | `BalanceReconciles`, next to deposits |
| | `DepositsJoinLedger` | `LedgerWithDeposits`: `Deposit` implements `Ledger` for the other references |
| `SettlementProofs` | `CreditsAreBacked`, `PayersStaySolvent` | `CreditBackedByDebit`, `NoOverdraft` |
| | `MoneyIsConserved`, `DebtsAreCommissions` | `MoneyConserved`, `DebtIsCommission` |
| | `TasksArePaidOnce` | `PaidOnce` |
| | `PaymentsAreBookings` | every step of a settlement is at most one booking of `Ledger` |
| `TasksProofs` | `TasksTypeCorrect`, `NobodyServesThemselves`, `PendingStaysUntouched`, `CompletedAfterFinished` | `TypeOK` (proved only), `AssigneeIsNotPoster`, `PendingIsUntouched`, `CompletedWasFinished` |
| | `BoardImplemented` | `RefinesBoard`: orderly `Tasks` implement `TaskBoard` |
| | `LivesAreOrderly` | `OrderlyLife`, an action property of `Spec` |
| | `OrderlyAcceptsTakeOpenTasks` | `AcceptTakesOpenTask` of `SerialSpec` (`Spec` violates it) |
| | `ViewsAreViewers`, `LonelyViewsCount` | `ViewsNeverExceedViewers`, `OrderlyViews` |
| `ChatProofs` | `TypeCorrect`, `OneRoom`, `SendsAreCounted`, `CountersAreOrderly`, `DatesAreOrderly` | `TypeOK`, `OneRoomPerConversation`, `SendsReconcile`, `OrderlyCounters`, `OrderlyDates` |
| | `PullsAreOrderly`, `PushesAreInOrder`, `PushesAreStored` | `OrderlyPulls`, `PushedInOrder`, `PushedIsStored` |
| `GatewayProofs` | `NobodyIsAGhost`, `OnlyOtherSocketsHide`, `BadgesAreOrderly` | `NoGhosts`, `HiddenByOtherSocket`, `OrderlyBadge` |
| `AccountsProofs` | `AcceptedCodeIsGone`, `NewestCodeWorks`, `OneAccountUnlessVerified` | `SpentCodeIsGone`, `OrderlyCodes`, `DuplicatesFollowVerification` |
| | `PasswordIsProtected` | `PasswordNeedsCode`, an action property |

Hardly any of the properties is inductive by itself. The inductive invariants below were first
checked by TLC with the constants of the run of their component.

**Wallet.** `StatusTellsMoney` says nothing of pending transactions, and whether the amount of a
pending one has moved depends on the label of the request that settles it. The invariant adds that:
a request past its insertion holds a pending document of its own with `applied` at zero before the
wallet update or after a refusal, and at one after a success (`SettlerOwnsPending`); no two requests
settle the same reference (`OneSettler`); every pending document is held by some request
(`PendingIsHeld`); and each label occurs only in calls that have such a step (`LabelFitsCall`).
`OneSettler` is where the unique index matters: a second settler of a reference would have had to
insert under it. `SettledStays` follows: only the owner of a pending document ever saves it. The
invariant is stated for a set of references, `WalletInv(F)`, so that what extends the wallet can
use it: a step of a wallet request keeps `WalletInv(F)` for every `F`.

**Ledger.** The refinement needs that `InsertWallet` never empties a wallet with money in it. `WInv`
therefore adds `WalletPart`: a request past its wallet lookup has a wallet (`PayerHasWallet`), users
without one have no document, no money and no debt (`MoneyHasWallet`), and a request that settles a
document writes to the wallet and the amount that the document names (`SettlerWrote`). Each step of
a request is then shown to be one booking (the conditional update of the wallet), or a stutter of
the ledger. These lemmas are about the ledger `Books(F)` of any set `F` of references that the calls
use, so that deposits and settlement can cite them. For `BalanceReconciles`, a booking changes the
balance of its user and the effect of its reference by the same amount (`BookingReconciles`), and
every other step changes neither (`QuietReconciles`). `NoOverdraft` rests on the condition inside
the decrement, which looks at no sign: a debit leaves at least zero, a credit of a positive amount
does not lower a balance, and a booking is never undone.

**Sums.** The balances are sums with `SumFunction` of the community modules, a fold whose definition
is recursive, so that no theorem on it can be cited. What the proofs need of it is `SumType`,
`SumOfZeros` and `SumChange` (if one term changes, the sum changes as much). They are proved with a
minimal counterexample: strict inclusion among the subsets of a finite set is well-founded
(`MinimalSubset`), so a set on which the claim fails has a smallest one, and one term is taken off
that. This is induction over a given set, written out once for each claim; the induction theorems of
the library, with their operator parameters, are not used.

**Deposits.** The webhook breaks the wallet invariant for the references of deposits (this is
`deposit_twice`), so it is kept for the others only, `WalletInv(Others)`. A deposit has its document
before Paystack is asked and is reported on only when its page was made (`StageOfDeposit`), and a
delivery carries a report that was made, and a success once it is past the branch on the kind of
event (`HookBringsReport`): hence a credit has a charge. `SuccessIsBeingCredited` is kept because
the delivery that marks a success is at its credit in the same step and leaves it by crediting only;
a later failure report meets the test of the status. Balances stay explained here too, although a
deposit may be credited twice: `Effect` counts as often as `applied` does. What is needed is that
the document of a deposit is a credit of the amount that was ordered (`DocumentOfDeposit`) to a user
who has a wallet, and that `WalletPart`, which speaks of the service's requests, survives the steps
of Initialize and of the webhook. Since `WalletInv(Others)` and `WalletPart` hold, each step of the
service is a booking of `Books(Others)`, Initialize moves no money, and the webhook moves one whole
deposit or nothing: `LedgerWithDeposits`.

**Settlement.** The wallet invariant holds for all references, since a payment goes through wallet
requests. Each of these is what its acknowledgement asks for (`CallsArePayments`), no credit is
asked for before the debit returned (`DebitComesFirst`), and since the reference is fresh the call
finds no document under it and returns only when its own is a success (`OwnDocument`): then the
debit has moved its amount, once. `PaidOnce` says nothing of what a handler still knows of a task.
As long as no requests for a task cross, a request is the only one for it and finds it in the status
that its lookup asked for (`AloneFinds`), so that no late `completeTask` meets a completed task:
what is paid stays `completed` or becomes `canceled` (`PaidIsOver`), which no lookup of an
acknowledgement finds. `PaymentBooks` adds the two sums. A debit takes the incentive from the poster
and puts it in transit under its acknowledgement, a credit takes it from there (`MoneyMoves`): that
the debit was applied before any credit, so that a credit only takes what is in transit, is
`CreditIsBacked`. A commission is owed from the step in which its call returns (`DebtMoves`). The
calls of a settlement keep `WalletInv(References)` and `WalletPart`, so each step of it is at most
one booking of `Ledger` (`PaymentsAreBookings`); it is not an implementation of the whole of
`Ledger` only because its posters are funded initially. TLC would need too long for it with the
bounds of the run `settlement`, so it is proved only.

**Tasks.** What survives between a lookup and its update is little: the task exists, its poster is
still the same (so an acceptance is not by the poster, `AcceptedByOther`), and a task that was once
finished has been finished (`AcknowledgesFinished`, `FinishedIsNoted`). These and `EditBringsTerms`
make the invariant inductive. Nothing is assumed of interleavings.

**Orderly tasks.** `SerialSpec` allows one request per task at a time and lets a lookup find no
other task than the one named. `LookupsHold` then says that what the lookup tested still holds of
the document when the handler updates it, which is just the guard of the board's step; without
either condition it is false. From it follow the refinement and that an acceptance takes an open
task. `OrderlyLife` is proved of all behaviours of `Spec` by the same argument for one task at a
time: what a lookup tested still holds of the tasks outside `crossed` (`AloneHolds`).

**Views.** The number a request has read is at most the number of *other* people on the list by now
(`RoomForViewer`), since the list only grows and the request's user was not on it; one more than
that number is then at most the length of the list with the user on it. For tasks on which no two
requests met, the read number is the present one and the user is new (`AloneIsFresh`).

**Chat.** The history `overlaps` misses no pair of requests (`OverlapsNoted`), and dates never
exceed the number of messages (`SentSoFar`), so that a new message has the latest date. For a room
in which no sends overlapped and none stopped, a message that waits to be counted is the newest of
its room, and the others are not newer than the room (`DatedInOrder`). For one in which no read
overlapped a send, the counter and the waiting messages make up the unread ones, except while a read
of that person is half-way; then nothing is unread, and a counter that was found to be zero still is
(`CountedInOrder`), which is why skipping the save of an unchanged counter does no harm. This is
stated for a person whose own reads returned: what another's save does to the version of the room
can only make a read throw (`stale`), and a save that succeeds writes no counter but its own. The
proofs count with the theorems on cardinalities: a send adds one message to each of the others, a
read removes them all.

**Sync.** A message is newer than every cursor from the moment it is dated (`DatedIsNew`); what was
stored when a pull began and is newer than the cursor is in its answer (`PullFits`). For pushes, a
device's batch is followed through `origin`: a push has stored every message before the one it is at
(`PassedIsStored`), it asks for a message only when the one before it has returned (`AskedInOrder`),
and the requests for a message are never more than the pushes that have reached it
(`AskedOncePerPush`), which bounds its copies by the number of pushes of the device.

**Presence.** The hard part is that the commands of a process wait in its queue. Whoever is online
has a socket that is connected, or was served by a process that died, or whose removal is on its way
(`OnlineHasReason`), and every addition of a socket that has gone is followed by its removal
(`RemovalFollows`). Whoever is connected is online, or has an addition on its way, or another socket
of theirs has gone that was connected at the same time or was served by another process
(`ConnectedIsShown`). A removal by another socket in the queue of a connected one belongs to a pair
in `together`, or the addition of the connected one is still behind the removal in the queue
(`RemovalKnown`). With all queues empty these are the two properties.

**Counts.** A handler is *sole* for a user while nobody else addresses them; a user whom a handler
addresses without being sole is in `muddled` (`SoleIsAlone`), and the count that a sole handler has
read is the newest (`SoleIsFresh`). Counts under way to other processes come from one process only
(`RelayedByOne`, `NoRelayHome`), so that their order is kept, and the last of them is the newest
(`RelayIsFresh`). A connected client shows the newest count unless one is under way to it, or
somebody who changed it goes on to push it (`BadgesFit`).

**Accounts.** A code, a record and an account appear only with the request that they are named after
(`CodesNamedByMaker`, `UsersNamedByMaker`), and a code is in one record at most
(`OneRecordPerCode`). A request at its deletion found its code in the record that it deletes, and
the code is in no other since (`DeleterKnowsRecord`): so it is gone afterwards, also when the record
was rewritten meanwhile. For students with no requests side by side, what a request found missing is
still missing when it inserts (`CreateMeetsNone`, `InsertMeetsNone`), which keeps one account
(`OneAccount`) and one record (`OneRecord`), and the newest code stands in it (`NewestStands`). That
the histories `reopened`, `raced` and `crossed` record every race is part of the invariant
(`RewritesNoted`, `OverwritesNoted`, `RegistrationsNoted`, `CodeWorkNoted`). `PasswordIsProtected`
goes through the four steps that write a password, and needs besides that `run` found an account of
its number (`RunFindsOwn`).

**Only model-checked.** Liveness (`ChargeReachesWallet`, `DebitIsPassedOn`): fairness and `ENABLED`
are outside the prover's reach. Every other property of a run that passes is a theorem.

## 5. Plan

Done: the models, the properties of the runs and their proofs, up to the liveness properties and the
next section. What could follow are action properties: who may change a counter (`Chat`), which
states of a deposit are final.

## 6. Not modelled

* **Gateway events that only relay** (new messages, typing, message status, online and offline
  notices). Each process subscribes to the Redis channels and emits what it hears to a room that the
  Redis adapter spreads over all processes, so with several processes a client receives a message
  once per process, and a status once more, since it is also emitted directly. No state follows from
  it. The rooms of conversations matter only to these events.
* **`updateMessageStatus`** is one unconditional write; a late `delivered` overwrites `seen`.
* **The logins and `sendOTP`** write a push token and a code field of the user, which no modelled
  handler reads.
* **Profile updates** are modelled as far as they write the name, the password and the status; one
  stores a password as it comes, without a hash, so that the login that compares hashes refuses it.
  Updates of the number, the institution or the address change whom later lookups find.
* **Listings** (tasks, transactions, messages, rooms, unread counts over REST) only read.
* **Progress of a device whose pull throws.** A device with a changed room with counters gets no
  further before the defect in `pullChanges` is repaired; the model has the guard, and no promise of
  the code is about it.
* **Notifications, uploads, institutions, phone codes and the HTTP guards** keep no state that
  interleaves; the Prisma schema is not used by any service.
