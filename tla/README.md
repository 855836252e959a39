# TLA+ specifications of the agency management backend

The repository is an Express and Prisma backend, over PostgreSQL, with which an agency keeps
its clients, projects, people and money, and with which the platform's own team keeps the
agencies. It is multi-tenant: every row belongs to one company (`organization_id`). This
directory holds TLA+ modules that model it, TLC configurations that check them on small
instances, and TLAPS proofs that carry the most important facts to every instance. `src/...`
below is a path in the repository; paths without it are under `src/src/app/` or `module/` there.

## The system, and where it is hard

There is no shared memory between requests. All state is in PostgreSQL; requests are
asynchronous, so any two are interleaved at every `await`, in one process or in several.
Nearly every operation has the same form: read the row the request is about, decide,
open an interactive transaction, write by id, commit. Prisma runs transactions at PostgreSQL's
default isolation level, READ COMMITTED, so *what a request has read may be out of date when it
writes*, and only three devices guard against that: a row lock (`utils/rowLock.ts`), a
conditional `updateMany` used as a claim, and unique indexes. Most of the modules ask of
one part of the system whether it uses the device it needs. Where it does, the properties
hold without qualification; where it does not, they hold *until a request is overtaken*. Around the
requests there are nightly jobs, a connection that listens for chat messages, and the life of
the process itself; and there are figures, computed from the same rows by several services.

| component | state | operations | what is hard | what makes it correct | modules |
|---|---|---|---|---|---|
| Ledger, accounts, due people | `account_transactions`, append-only; a row per payment, expense, payout, withdrawal, due transaction, distribution, exchange; `accounts` | create, edit, delete; an edit appends a reversal and a fresh entry | two edits of one record; an edit after an edit; a balance that is checked and then spent; locks taken against foreign-key locks | the ledger says what the record says; no overdraft by an exchange; no deadlock | `Ledger` |
| Loans, their schedule, shareholders | `loans`, `loan_instalments`, their ledger rows; `shareholders` | create, pay, reverse, replace schedule, close, remove; share, retire, distribute | paying twice, settling by counting, replacing the schedule while somebody pays; month ends and rounding; a total summed without a lock | paid rows and the ledger agree; the rows add up to the loan, one a month; shares add up to the whole at most | `Loan`, `Schedule`, `Shares` |
| Team | `users` (role, status, `deleted_at`) | create, approve, turn down, edit, delete | two admins who act on each other; the last free seat | seats are not oversold, an admin remains, a deleted row is not active | `Team` |
| Sessions and password links | `users.token_version`, `password_reset_tokens`, the tokens people hold | login, refresh, change, forgot, reset, suspend | a token issued from a row read before a password change; links issued, retired and spent at once | a token that works was got with the password that is set; a link works once | `Sessions`, `OneTimeLink` |
| Invites | three tables of invites, `users.email` | create, revoke, accept, expire, register | accepting reads, decides and writes by id; three tables, one address | one account to an address; a revoked invite lets nobody in | `Invites` |
| Invoices and payments | `invoices`, `invoice_items`, `payments` | create, edit, delete on both sides; a status derived from payments | derived state recalculated by concurrent requests; payments that move | status and totals follow payments and lines | `Invoice` |
| Payroll, leave, attendance | `payroll_runs`, `payroll_items`, payouts; `leave_requests`, `attendance` | open, set lines, pay, discard; ask, decide, withdraw; clock in and out | two clicks on pay; a draft discarded while it is paid; overlapping requests and decisions | a run and its payouts agree, a month is paid once; no day counts twice, a decision stands | `Payroll`, `Leave` |
| Platform | operators, plans, settings, subscriptions, companies | approve, limit and remove operators; sell and retire plans; subscribe; the nightly sweep | two operators who remove each other; a sweep of two UPDATEs over the same dates, missed nights; a plan retired under a sign-up | the team keeps a manager; a company is warned first; a missed night is made up for | `Operators`, `Catalogue`, `Subscription` |
| Platform console and notifications | announcements, rules, notifications, platform expenses, snapshots | draft, publish, tell, clear the bell; record, snapshot | two publications of one draft; a bell with two sources; a snapshot of three queries | one version of a notice; a cleared bell is at nought | `Notices`, second half of `Reports` |
| Chat | conversations, members, messages, a listening connection, sockets | open, send, read, leave; connect, drop, reconnect, stop | messages stamped before they are seen; a loss reported several times; a handshake that outlasts a stop | nothing unread passes for read; the bus listens once and again; a stop ends | `Chat`, `ChatBus`, `Server` |
| Delivery | columns, tasks, time entries, members, leads and their moves, projects, milestones, clients | status changes, approval of hours, conversion, default column, baseline, delivery, deletion | approvals overtaken by edits; two conversions; counts that come before a delete | approved hours stay; the history has no hole; a deleted project has no money | `Board`, `TimeSheet`, `Pipeline`, `Projects` |
| Lists, packages, targets, vault, permissions | services, categories, templates, departments, sources; `kpi_targets`; credentials, links, the access log; the role grid | create, rename, remove; replace lines; reveal, move, delete | lists with different keys and foreign keys; an index that does not see nulls; a scope resolved before the write | nothing listed twice; history kept; the log answers who saw what | `Lists`, `Targets`, `Vault` |
| Figures, rates, lists of rows | none of their own; `currency_rates` | profit and loss, series, cash flow, projects, departments, utilization, sales; nightly sync; paging | one figure computed in several places, over several queries; late answers; ties in an order | screens agree, parts add up; a rate is at hand; a page misses nothing | `Reports`, `Measures`, second half of `Server`, `Listing` |

The parts interact through rows and inside transactions: recording a payment writes `payments`,
the ledger and the invoice it pays, and keeps its project from being deleted (modelled three times: as a ledger
record in `Ledger`, as a payment that settles in `Invoice`, as money in `Projects`); distributions
and the transactions of due people are ledger records like the others; accepting an invite
creates the pending user that `Team` or `Operators` then approves; registering lands on the plan that
`Catalogue` chose and begins the trial that `Subscription` sweeps; commits of chat messages are
published to whatever `ChatBus` keeps listening and delivered to the sockets of `Server`.
`PROJECT.json` lists every component, those left out included, and every hazard at its line.

## How a request is modelled

The modules of the tables share one form.

* The state of request `p` is a row of a function (`req[p]`, `client[p]`, `clerk[p]`, ...): its place,
  its operation, and everything it has read and will use later. It is begun by an action that
  makes the reads which come before the write and the checks on them.
* Then **one action per statement** whose place between the statements of other requests can
  be told apart. Statements that follow one another and could only be told apart by what
  they read of one another's tables are one action; so are a record's several inserts. Where a
  handler has one read and one transaction, it is two actions: what it decided on, and what it wrote.
* A transaction's writes **appear together, at its commit**; until then others read what was
  committed before. `Invoice` also needs that a request reads its own writes (`InvoiceSeen`,
  `PaymentSeen`), since `recalcInvoiceStatus` runs after them in the same transaction.
* **Locks** are operators over the requests: who holds which row at which place (`HoldsForUpdate`,
  `HoldsInstalment`, `HoldsAdmins`, `HoldsLink`, `HoldsEmail`, ...). An `UPDATE`, `DELETE` or
  `SELECT ... FOR UPDATE` finds its rows in one action, waits for the ones others have written, and
  looks at its condition again in the next, as READ COMMITTED does (`FindUnpaid` / `DeleteUnpaid`,
  `FindAdmins` / `LockAdmins`, `FindLines` / `ReplaceLines`, `ToRetire` / `RetireInvites`).
* A rollback may happen at any place of a transaction: a later statement fails, the connection
  is lost, the transaction times out, or PostgreSQL aborts it as the victim of a deadlock. It
  leaves nothing behind.
* `raced`, `stale`, `crossed`, `overtaken`, `contested` and their like are **ghosts**: nothing reads
  them. A request becomes stale when a commit changes what it has already read; writing all the same
  marks the record. The properties called `...UnlessRaced` say what holds of the rest.

A write that names columns leaves the others as they are *at commit time*; this is how a stale
write can combine with a newer row. Table rows that are only appended and only summed are
kept as sums. The activity entries of each transaction are appended rows that nobody reads
back to decide anything, and are left out, as are texts and the tenant id:
no query of the modelled code crosses companies, so one company is modelled (two where
the platform counts them). Dates are small numbers where something depends on their order.

## Modules

| module | models | actions and their code |
|---|---|---|
| `Ledger` | `shared/ledger.ts`, `ledgerMath.ts`, `rowLock.ts`, and the create, edit and delete handlers of everything that records money; creation and deletion of accounts | `AssertTargetAccount`, `ReverseLedgerEntries`, `WriteLedgerEntries`, `UpdateRow`, `CommitUpdate` are the statements every edit shares; `LockRow`, `CheckBalance` those of an exchange; `CountMovements`, `MarkAccountDeleted` those of deleting an account |
| `Loan` | `loan.service.ts`, `loanRepayment.service.ts` | `Claim`, `CountRemaining`, `CommitPay`; `ReverseRepayment`, `CommitReverse`; `CountPaid`, `FindUnpaid`, `DeleteUnpaid`, `InsertInstalments`, `CommitSet`; `CheckUnpaid`, `ReverseReceived`, `CommitRemove`; `CommitClose` |
| `Team` | `user.service.ts` (create, update, delete), `memberApproval.service.ts`, `planLimits.ts` | `LockSeats`, `CountSeats` are `assertSeatAvailable`; `FindAdmins`, `LockAdmins`, `ReadTarget`, `CountAdmins` are `assertNotLastAdmin` |
| `Invoice` | `invoice.service.ts`, `invoicePricing.ts`, `invoiceStatus.ts`, and `payment.service.ts` as far as invoices are concerned | `ReadInvoice`, `SumPayments`, `WriteStatus` are `recalcInvoiceStatus`; `CountPayments`, `MarkDeleted` are `deleteInvoice` |
| `Payroll` | `payroll.service.ts` | `InsertRun`, `CommitCreate` are `createRun`; `LockRun`, `CheckDraft` what `setItems` and `complete` share; `DeleteRun`, `CommitRemove` are `removeRun` |
| `Sessions` | `auth.service.ts`, `passwordReset.service.ts`, `checkAuth.ts` | `Login`, `ComparePassword`, `RefreshToken`, `VerifyRefresh`; `ChangePassword`, `ReadOwnRow`, `WritePassword`; `ForgotPassword`, `RetireLinks`, `CreateLink`; `ResetPassword`, `Claim`, `TakePerson`, `SpendOthers`, `CommitReset` |
| `OneTimeLink` | no code: what a mailed link promises, an abstract specification that `Sessions` implements | `Issue`, `Spend`, `Retire` |
| `Invites` | the three invite services, `register`, `oneTimeLink.ts` | `Create...Invite`, `RetireInvites`, `InsertInvite`; `Revoke...Invite`, `MarkRevoked`; `Accept...Invite`, `InsertUser`, `MarkUsed`, `CommitAccept` |
| `Operators` | `platformAdmin.service.ts`, the approval of `platformInvite.service.ts`, `seed.ts` | a decision and a write for approving, limiting, removing |
| `Catalogue` | `platformPlan.service.ts`, `platformSettings.service.ts`, the plan part of `register` and of agency invites | selling and retiring plans, choosing the default, signing up |
| `Subscription` | `platformSubscription.service.ts`, `checkSubscription.ts`, the nightly job | `Provide`, `SetSubscription`; `MarkPastDue`, `SuspendOverdue`, `SweepDies`; `NextDay` |
| `Notices` | `notify.ts`, `notificationRule.service.ts`, `notificationBell.service.ts`; second half: `announcement.service.ts` | `SetRule`, `StartDeed`, `Notify`, `MarkRead`, `OpenBell`, `ClearBell`; drafting, editing, publishing, mailing |
| `ChatBus` | `chatBus.ts` | `Connect`, `Connected`, `CannotConnect`, `Drop`, `Retire`, `Stop` |
| `Server` | `server.ts`, `chatSocket.ts`; second half: `currencyRate.ts`, `settings.service.ts` | `Boot`, `Shutdown`, `Finish`, `GiveUpStop`; `Arrive`, `Authenticate`, `OpenSocket`, `HangUp`, `Closed`; `Ban`; asking the rate providers in turn, storing under the day of the answer, an agency's own rate |
| `Board` | `workflowStatus.service.ts`, `task.service.ts` | columns created, edited, deleted; tasks created, moved, deleted |
| `TimeSheet` | `timeEntry.service.ts`, `projectMember.service.ts` | logging, correcting, approving, deleting; joining and leaving projects |
| `Pipeline` | `lead.service.ts`, `leadStage.ts` | creating, moving, converting, deleting |
| `Projects` | `project.service.ts`, `client.service.ts`, the money on them; second half: `milestone.service.ts` | creating under the plan's limit, baselining, deleting; submitting, accepting, reopening |
| `Chat` | `chat.service.ts`, `chatMessage.service.ts`, `chat.membership.ts` | opening direct threads and groups, sending, reading, adding, leaving |
| `Leave` | `leave.service.ts`; second half: `attendance.service.ts` | asking, deciding, withdrawing; the two taps, what an admin records |
| `Shares` | `shareholder.service.ts` | creating, editing, activating, retiring or removing, paying out |
| `Schedule` | `loan.schedule.ts` (`generateSchedule`, `addMonthsClamped`, `summarise`) | a loan begins with its rows; rows are paid and reversed |
| `Reports` | `report`, `dashboard`, `projectFinancials` services, `kpi.delivery.ts`; second half: `platformFinance.service.ts` | `FindProject`, `Record`, `Unrecord` with their rows of the accounts; `CountOnJob` twice and `DeleteJob` are `deleteProject`; moving people, the queries of a screen one by one; the nightly snapshot |
| `Measures` | `kpi.formulas.ts`, `kpi.me.ts`, `kpi.agency.ts`, `timeCapacity.service.ts`, `capacity.ts`; second half: `kpi.sales.ts` | people leave, log, are approved; deals move |
| `Listing` | `listQuery.ts` as the list services use it | a reader takes page after page while rows come and go |
| `Lists` | services, categories, departments, lead sources, expense categories; second half: `serviceTemplate.service.ts` | creating, renaming, removing, filing under; replacing the lines of a package |
| `Targets` | `kpiTarget.service.ts` | creating, editing, deleting |
| `Vault` | `permission.service.ts`, `resolveScope.ts`, `permissionCatalogue.ts`; `vault.service.ts`, `projectLink`, `clientLink` | editing the grid; revealing, creating, moving, deleting in a scope |
| `LedgerProofs`, `InvoiceProofs` | the theorems about the module each is named after | |
| `AccessProofs`, `PlatformProofs`, `DeliveryProofs`, `OfficeProofs`, `DeskProofs` | those about the modules that `MCAccess`, `MCPlatform`, `MCDelivery`, `MCOffice` and `MCDesk` compose, and about the composition; `AccessProofs` those about `Team` as well, `OfficeProofs` those about `Payroll`, `DeskProofs` those about `Loan` | |
| `SumTheorems` | lemmas about sums over finite sets and about quotients, which the ledger, the invoices, the shares and the figures need | |
| `MC...` | instances for TLC: values of the function-valued constants, symmetry, and the composition of the parts of a run | |

Definitions keep the source's names; `PROJECT.json` maps each to its lines. What is mapped as
external is PostgreSQL: its locks, commits and rollbacks, as the code under `src/` relies on
them. Definitions marked "Mutant of ..." are not part of the behaviour: each states how a plausible
bug would read, and TLC finds the property it belongs to violated when it replaces the definition.

## Runs

A run asks one question of one area. Where several modules share a run they share no variable:
a behaviour explores one of them, its *part*, and the others stay as they began. That is sound
for every property here, since each speaks of the variables of one part only, and it keeps
the number of states a sum and not a product.

| run | question | instance |
|---|---|---|
| `ledger_edits` | Does a record's ledger say what the record says, through creations, edits, moves between accounts, deletions, reversals of reversals and account deletions? (`NoDriftUnlessRaced`) | two requests, one record of any table, one USD and two BDT accounts, amounts 1 and 2 for three of the tables |
| `ledger_exchange` | Can two exchanges, or an exchange and a payment that is taken back, spend one balance? Does any request wait for ever? (`ExchangeNeverOverdraws`, `LockedBalanceStable`, `EveryRequestEnds`) | two records, one USD account that opens with 1, amounts 1 and 2 |
| `loans` | Do paid rows, ledger and status agree while instalments are paid, reversed, replaced, and the loan closed or removed? (`LedgerMatchesPaid`, `PaidRowsStay`, `SettlesOnlyWhenRepaid`, `LoanHoldsUnlessRaced`) | one loan, four instalment ids: a schedule of up to two, replaced by the ids that are left; two accounts |
| `team` | Are seats never oversold, does an admin remain, is a deleted row never active? (`SeatsNeverOversold`, `TeamHoldsUnlessRaced`) | a founder and two more people, two seats |
| `invoices` | Do status and totals follow the payments and the lines? (`StatusFollowsUnlessRaced`, `InvoiceHoldsUnlessRaced`, `PaymentsNeverSend`) | one invoice, two payments of 1, three sets of lines worth 2, 1 and 1 |
| `payroll` | Is what a completed run says what was paid, once, and is a month paid once? (`PayoutsMatchRun`, `MonthPaidOnceUnlessRaced`) | two months, three runs, two people, wages of 0 and 1 |
| `access` | Does a session survive the change of its password, does a link work once and no longer than it should, can two people come in by one address? (`LiveTokensKnowPassword`, `OneAccountPerAddress`, `LinksHoldUnlessRaced`, `ResetLinksWorkOnce`) | parts *sessions*: two requests, one person, two passwords, two links, two changes; *invites*: two requests, two addresses, two invites of any kind, two accounts |
| `platform` | Does the team keep a manager, does a lapsed company get its grace, does the server make up for missed nights and lost connections, does what goes out to customers stay as it went out? (`TeamKeptUnlessRaced`, `WarnedUnlessLate`, `OneListener`, `ServerCatchesUp`, `SharedStateTrusted`, `CustomersServedUnlessRaced`) | eight parts; three operators and two consoles; two plans; one company, two sweepers, four nights, a grace of one; two authors of one notice; two connections; three sockets of two people; two fetchers over three days |
| `delivery` | Do boards, milestones, time sheets, pipeline and projects keep what was decided, signed off, delivered, won and sold? (`BoardHoldsUnlessRacedOrWaived`, `SignedOffStaysUnlessRaced`, `HistoryHoldsUnlessRaced`, `ProjectsHoldUnlessRaced`, `BaselineStaysUnlessRaced`) | five parts; two requests; three columns and one task; one entry, two projects; one lead, two open stages, four moves; a plan of one project, two projects, one client |
| `office` | Can the record of who was away be relied on, is nothing passed over as read, is no more than the whole business owned by those whose share was checked, do the figures of different screens agree? (`DaysHoldUnlessRaced`, `ThreadsHoldUnlessLate`, `OwnedOnceUnlessUnchecked`, `FiguresAgree`) | eleven parts; two people, two threads, two messages; two absences over three days; shares of 0 and 60 percent; eight entries of every kind; principals of 1, 100 and 101 in 1, 3 and 4 rows from four starts; four rows in pages of one to three |
| `desk` | Do lists, packages and targets stay consistent, and are credentials and links reached by those they are for and told in the log? (`SetUpHoldsUnlessRaced`, `VaultHoldsUnlessRaced`) | four parts; two requests; two entries and two names (one of them in another case); two services; two targets; one credential, two places, one colleague with two requests |
| `payroll_twice` (finds a violation) | "the guard that stops a month being paid twice" (`payroll.service.ts`) (`MonthPaidOnce`) | the run is paid between `removeRun`'s look at the status and its delete; its payouts stay and the month is opened and paid again |

The type invariants of the composed runs (`PlatformTypeOK`, `DeliveryTypeOK`, `OfficeTypeOK`, `DeskTypeOK`)
have a bug of the code that breaks each, since rows carry which fields go together. Every
invariant of a run that passes, the types included, is a theorem as well.

What the properties say, beyond the rows of the first table:

* `LinksHoldUnlessRaced`: two live links (or invites of one kind to one address) exist only where the
  requests that made them overlapped; a revoked invite admits nobody unless accepting and revoking
  overlapped; two resets wait for each other only if they overlapped on one person.
* `ResetLinksWorkOnce` is `LinkSpec` of `OneTimeLink` under the mapping `LinkState`: `Sessions` implements
  a link that is issued once, spent once, and does not work again once it does not. The claim of
  `resetPassword` (an `updateMany` on `used_at: null`) is what it rests on.
* `WarnedUnlessLate`: whom the sweep cuts off was past due on an earlier night, or no sweep saw it in
  time. `MissedNightsAreCaught` (in `ServerCatchesUp`): nobody stays lapsed, or past due beyond grace,
  for ever. `BusRecovers`: an instance listens again and again until it is stopped, and then holds no connection.
  `StopsEnd`: a stop ends.
* `OneListener`: there is exactly one way in which an instance listens or will.
* `UnreadUntilReadUnlessLate`: a message counts as unread for everybody in its thread until they read after it
  was *stored*; the exception is a message stamped before such a read and committed after it.
* `BoardHoldsUnlessRacedOrWaived`: a board has a column, and exactly one where new work starts, unless a PATCH
  with `is_default: false` came after the last that set one: that gives the default away to nobody, and no race
  is needed. A completion date agrees with the column of its task.
* `OwnedOnceUnlessUnchecked`: of everybody whose row was last written by a request that checked what it wrote,
  and that nobody overtook, the shares fit into the whole and nobody who was paid is removed. `unchecked` names
  the others, holder by holder: who was brought back by `is_active` alone, and whose request was overtaken. They are left
  out until a checked write of their share; the property is not given up for the rest.
* `FiguresAgree`: the monthly series add up to the total; the profit-and-loss screen, the dashboard and the projects
  tell one story. Cash flow does too, although it is added up from other rows: those the accounts were given when something was
  recorded and when it was reversed. The projects leave out of the company's profit what lies on deleted projects, and that is
  only payouts and what was recorded after its like had been counted (`slipped`). Departments add up to the total that stands above them, although each is a query
  of its own; the platform's plans add up to its revenue; a schedule's rows add up to the loan, one a month;
  people make the agency, and cuts by person and by source add up to the sales; a reader who
  takes every page has seen what was there all the while. Each is stated with its exceptions.
* `PackageIsAsAskedUnlessRaced`, `ListsHoldUnlessRaced`, `TargetsScoreUnlessRaced`: what holds *whoever raced
  whom* is separated from what holds without a race; the former rests on an index or a foreign key. Of the lists a race
  excuses only what the overtaken request itself named (`misnamed`) or took from (`mislaid`). Service categories are
  not of those whose removal keeps the history: it counts nothing, and their services lose them without a race.
* `LogAnswersUnlessRaced`: a row of the log for every password handed out, always.

### Bounds, and why they are enough

* *Two requests.* Every hazard listed is between a reader and a writer of one row, or two
  takers of one lock. A third request would matter only for queues of waiters, which the
  models do not order anyway: whoever can proceed may. In `Vault` both requests are of one colleague, since
  what a scope admits does not depend on who else there is.
* *Few rows.* Most properties concern each record, link, entry or lead by itself; the proofs below make
  this precise by dropping the bound altogether. Where two rows meet (seats, shares, columns, addresses,
  plans, absences) there are as many as it takes to be at the limit and one over.
* *Small amounts.* Only sums and comparisons with zero, a balance, a total or 100 are made; the values
  reach below, at and above each of them.
* *Three runs of payroll for two months*: one month can be opened, discarded, and opened again
  beside the other. A line of zero is not paid, and a run with nothing but such lines is refused.
* *Four nights, trials of nought to two, a grace of one*: a company can lapse on any night, be missed for one
  or more, be swept by two instances at once or by one that stops between its statements. The liveness
  properties do not depend on the last night: sweeps go on in it.
* `WithinBound` in `Ledger`, `Team` and `Invoice` begins nothing new on what has been raced (in
  `Ledger` only on that record).
  `delivery` follows a board until a request on its columns was overtaken or its one task drifted, and a time
  sheet until its one entry is disputed.
  Nothing is promised after that.
* `OnAccounts` and `OnScreen` in `MCOffice` divide what `Reports` does between two parts. In the first one entry at
  a time waits between its look at the project and its write, while the project is counted and deleted in its steps.
  In the second the delivery screen is read query by query while hours and payouts come and go and people move. `Reports`
  itself has neither bound, nor do the theorems about it.
* In `invoices` a set of lines that was deleted, and that no request still looks for, stands for others again.
* In `office` the two subscriptions begin in trial, active or cancelled, on either plan; the change they go
  through takes one of them to any other status or plan.
* `MaxVersion`, `MaxAccounts`, `MaxMoves`, `MaxDeeds`, `MaxEdits`, `MaxTold`, `MaxTicks`, `MaxHours`,
  `MaxSteps`, `MaxPaid`, `MaxShifts`, `MaxBusy`, `MaxRecords` and the last days and nights bound what would grow
  without end; each is large enough for the step after the interesting one.
* `CreatedAs`, `SetTo` and `Adjustments` in `Invoices.cfg`: invoices are created as drafts or sent, and later
  sent or cancelled. `createInvoice` stores any status that it is sent, `paid` included, and
  derives nothing, so with another `CreatedAs` the status need not follow the payments from the first.
  A single invoice means that a payment moves onto it and off it, never between two: both ends
  of `Affected` are exercised, but not in one request.
* `OpenStages` in `Measures` is one stage that stands for the four open ones, which its figures never tell apart.
* `UserEdits` in `Team`: one field at a time, since two fields in one PATCH are written by the
  same statement and guarded together.
* `SYMMETRY` is over requests and over ids that the constants do not tell apart; the runs that
  check liveness use none.
* Deadlock checking is off: a system in which no request is made, or in which every id has been
  used, may stop. That waiting requests get on is `EveryRequestEnds`.

### Fairness

* `ledger_exchange` has strong fairness of `Continue(p)` for every request: when a request is again and
  again able to make its next statement, it does. Node's event loop runs every request whose query was
  answered, and PostgreSQL grants a row lock to whoever has waited longest. No
  fairness is assumed of `Start` (nobody need make a request) or of `Rollback` (a
  transaction is not saved by being aborted: deadlocks must not occur by the order of the locks
  alone). With the row inserted before the account is locked, `EveryRequestEnds` fails.
* `BusFairness`: a reported loss is handled and a timer fires (weak: nothing disables them), an attempt ends
  in a connection or a failure (weak: `connect` settles), and a server that is tried again and again
  answers at last (strong: the property is about the bus and not about a database that is gone for good).
  Nothing is assumed of losses, which may come at any moment.
* The nightly sweep: some instance runs its first statement (weak), and an instance that begins
  sweeps over and over gets through to the second once (strong): `scheduler.ts` runs it every night on
  every instance; any one of them may stop in between (`SweepDies`).
* `GiveUpStop` is weakly fair: a timer of the process, which is all that `StopsEnd` needs. No fairness is
  assumed of requests that are to end or of sockets that are to close.

## Proofs

Everything is proved for any sets of requests, records, accounts, people, links, connections and so on,
and any values that meet the `...Assumption` of the module, which says no more than the
validation schemas and the column types do (positive amounts, currencies, distinct null values), and that what is
added up or counted is finite. A payment has a client (`payments.client_id` is not null,
`prisma/schema/finance.prisma:96`); there is a name for an entry and a month for a target to begin in.

**`LedgerProofs`.** `NoDriftUnlessRaced` is not inductive. What a request holds in `req[p].open` is
a sum that it read some time ago, and the invariant has to say when it is still right.
`IInv` adds to it and to `TypeOK`:
`UnusedInv` (an id that was not drawn holds nothing),
`PcInv` (which places an operation can be at),
`PayloadInv` (the legs a request will write are legal for its table: this is where
`AssertAccount`'s currency check matters),
`CreateInv` (no two requests create the same record, and nobody has seen it) and
`MutationInv` (an edit or deletion that is not stale has read what is still committed: its
`open` equals `held`, and an edit that rewrites no ledger leaves the legs as they are).
`LocalStep` proves once that a step which changes one request only keeps `IInv`;
`CommitIInv` is the step that matters, with `RewriteExact` as its arithmetic.

* `LedgerInvariant`: `Spec => []IInv`; from it `TypesHold` and `NeverDriftsUnlessRaced`.
* `AccountLocksExclude`: an account held `FOR UPDATE` is neither held nor shared by another request.
* `BalanceStableUnderLock`: while an exchange holds its account nobody moves the balance
  (`LockedBalanceStable`), since a commit that touches the account would have had to share it.
* `ExchangesAreCovered`: the action property `ExchangeNeverOverdraws`. `Covered` says that an exchange past `CheckBalance`
  still finds what it is about to spend, and the lock keeps it true. A balance is a sum over all records,
  of any finite number, and a sum of which one summand changes changes by as much (`SumOfChange` of `SumTheorems`).

**`InvoiceProofs`.** The status of an invoice is right when a request has added up exactly what it then
commits. So the invariant speaks of what a request *will* have done: `RowBy` and `PayBy` are the rows as its
own statements see them, `SettledBy(r, v)` says that by these rows the status of `v` follows from its payments, and
`FreshStatus` asks that of every invoice the request names and has not still to recalculate. `FreshEdit` says
that the figures it writes are those of the lines it will leave, `FreshDelete` that nothing is paid on
what it deletes, `FreshPayment` that its payment goes to an invoice that is there and that it has
written no draft and nothing cancelled. All of these are asked only of a request nobody has overtaken; `Shape` (what it is about) and
`Apart` (no two add the same lines or the same payment) hold of all. Two lemmas carry the proof: `LocalStep`
(a statement that writes no row), and `FreshStays` (a commit on other invoices changes nothing that a request has
read). `TouchedOnly` says which invoices those are.

* `InvoiceInvariant`: `Spec => []IInv`; from it `InvoiceTypes` and `InvoiceHolds`.
* `StatusAlwaysFollows`: `StatusFollowsUnlessRaced` is inductive beside `IInv`. The theorem is about invoices that
  are created as draft, sent or cancelled, and says so as its hypothesis: `createInvoice` derives nothing, and what is created
  as paid is not covered, nor could it be.
* `PaymentsLeaveDraftsAlone`: the action property `PaymentsNeverSend`.
* The sums over payments are folds; `SumOfOne` and `SumOfNothing` are what the invoices need of them.

**`SumTheorems`.** A fold over a set is a recursive function, and what it computes is not to be had by the induction
theorems of the library. But a set of naturals that is not empty has a least element (`LeastNumber`), and so
a statement about finite sets that is false is false of one of least size. `SomethingAddsUp` proves so that the equation of
the fold has a solution, `OneSum` and `SumIs` that it has one only, `AnyOrder` that the elements may be taken out
in any order; `SumOfChange`, `SumOfOne`, `SumOfNothing` and `SumIsNumber` follow. What is said of
sums of sums is proved by the same argument in the form of `OneByOne` (what has the empty set, and with a part of a finite set
that part and one element more, has the set): `SumSplits`, `SumOfGroups`, `SumOfDifferences`, `SomeAtMost`.
Quotients of integers are known by the bounds they lie between (`QuotientIs`, `AtMostQuotient`).

**`AccessProofs`.** `LiveTokensKnowPassword` speaks of tokens; the invariant has to speak of everything that
may become one. `Fits(rows, version, entered, u)` says that a version is at most the row's and, if it is the row's, that
the password entered for it is the row's password. `SessionInv` asks it of every token (`TokensFit`) and of
what every request has read (`RowsFit`): a login that compared slowly, a refresh that read long ago. It is kept
because a password and its version are written by one UPDATE (`Grows`): whatever was read
before is older by one. `Locks` says who holds which link and that what is held is unused: `Claim` makes it
true, and it is what makes every step on a link one of `OneTimeLink`.

* `TokensKnowThePassword`, `SessionsTypes`: from `SessionInv`.
* `ResetLinksAreOneTime`: `SessionsSpec => ResetLinksWorkOnce`, the refinement. `OnlyRetired`, `IssuedOnce`,
  `RetiredAtOnce` and `SpentOnce` map the steps; all others leave every link as it was.
* `AddressesAreUnique`: `OneAccountPerAddress`, from `InviteInv`. No ghost: `AddressesApart` (of two requests that
  insert an account for one address the second waits, and finds it taken) is the unique index.
* `LinksHold`: `LinksHoldUnlessRaced` of the composition, from `SessionInv`, `LinkInv` and `InviteInv`. `OneUnused` and
  `OneUnspent` have to speak of links and invites that have expired as well, since only the
  claim looks at the clock; `CameIn` says that whoever came in by an invite has used it.

Of `Team`, in the same module, `HasRoom` says that whoever has counted the seats, and holds the company's row, still has one
for the person it is about to let in; only one request at a time holds it (`Apart`), so `SeatsNeverOversold`
needs no ghost. For the last admin, `Guards` says that a request that takes an admin's rights away has that
admin's row among those it locks and has counted another; and `Apart` that of two such requests the
later one found the other's target among the admins, so that the locks make one of them wait. `Knows`
keeps the row a request is about as it was read, unless the request is stale.

* `TeamInvariant`: `Spec => []TeamInv`; from it `TeamTypes`, `SeatsAreNeverOversold` and `TeamHolds`.

**`PlatformProofs`.** One invariant for each part, and their conjunction for the composition.
Who remains was counted before the write, so `SeenHolds` says what each
request that is not stale has seen and still holds: a manager besides the one it is about to limit or
remove, and that whoever it is about to let in was not removed (`TeamIsKept`, `TeamTypes`).
That `removeAdmin` counts operators of any permission is safe only because nobody removes
themselves and whoever removes can manage; the proof uses just that.
`OneListener` is inductive with `OneWay` (no timer and one connection that still matters,
or one timer and none) and `Listens` (whatever listens is the client, and a client that has ended has something
to report): `OneListenerAlways`, for any number of connections; the guard on `retiredConns` makes every
further report of one loss a stutter. `Told` (who is past due and overdue has been warned on an earlier night, or is late) and
`SweptToday` (a sweep between its statements began tonight) make `NobodyCutOffUnwarned` a matter of one step
(`SubscriptionTypes` from the same).

* `CustomersAreServed`: by `CatalogueInv` whatever a default or a sign-up has chosen was on sale then (`Chosen`).
  By `AuthorsOK` a request that nobody overtook still has the notice before it as it read it, unpublished;
  by `OneRound` a notice is being mailed by one request, in the version that is published.
* `SharedStateIsTrusted`: `NoticesInv` keeps of a deed and of a tab what the bell is to show of them (`DeedOK`, `TabsOK`),
  `RatesInv` that what is stored is usable and of no later day, and that the newest is of the sync that asked last
  unless that came late; by `ServerInv` the map of sockets holds exactly those of each reader (`BoxesOK`).
* `PlatformTypes`: every conjunct has the type invariant of its part.

**`DeliveryProofs`.** Again one invariant for each part. What they have in common is what a request that nobody has
overtaken may rely on: `ColumnsAreAsRead` and `TasksAreAsRead` of the board, `EntryIsAsRead`, `LeadIsAsRead`,
`RequestIsAsRead`, `MilestoneIsAsRead`. What else each needs to be inductive:

* `BoardHolds`: a column keeps the tasks it was created with as done (`CreatedStayDone`), and a row has no column
  only when there is no task (`RowsHaveColumns`); a column that is not there has no default (`GoneAreBare`), so that
  a new one brings only its own. There is one default unless it was `waived`. The specification follows a board until a request on its
  columns was overtaken or its task drifted, of which nothing is claimed, and so does the invariant.
* `SignedOffStays`: every approved entry has a signature (`ApprovedAreSigned`), and the date of a submitted milestone
  is the one promised when it was delivered (`StaysDated`).
* `HistoryHolds`: of every lead on which no two requests clashed the moves follow each other without a hole, each of
  them goes somewhere else (`TellsAll`), and a client came of it just if it is converted (`OneClient`). Histories are sequences of
  any length up to `MaxMoves`, which is at least one so that a lead can be created.
* `ProjectsHold`: whoever inserts holds the company's row, has counted fewer than the plan allows, and is the only one
  to insert (`InsertsAlone`). No ghost: the lock suffices for the plan.
* `BaselinesStay`: the action property, from the same invariant. `DeliveryTypes`: as above.

The two null values of `Projects` are assumed to be no client and no project, neither the one nor the other.

**`OfficeProofs`.** An invariant for each module that `MCOffice` composes, two for those with two halves. Those of leave, chat and shares again say what a
request may rely on.

* `DaysHold`: for attendance, that a request to check out has found a row (rows are never taken away), and that a row no
  admin wrote ahead of time has a check-in that has been (`DayIsTrue`). For leave, `Found`: who asks has found
  none of their absences on those days, who settles has found theirs pending, unless the request is stale; a write
  makes exactly those requests stale of which it would not remain so (`WriteLeaveKeepsRequests`). `Coherent` ties a row to how it
  was first settled.
* `ThreadsHold`: a message's stamp is later than the zero of whoever never read (`StampsInv`), so only a read of its
  thread can pass it by; the key of a direct thread is its pair (`ThreadsInv`).
* `OwnedOnceHolds`: `Agreed` says, of every request that is not stale, that what fitted when it was read still fits, and that
  whoever is about to be removed was paid nothing. `HeldBy` is what some of the holders hold; the check counted everybody, so
  that leaving the `unchecked` out is on the safe side, and a write that brings one of them back among the checked was
  itself counted beside all others. The total is a sum over a set that changes: `TotalAdds` takes a holder out of it and
  `TotalDepends` says that it depends on the shares of its own members only, both from `SumTheorems`.
* `OfficeTypes`: the types of all of them. Of what an owner was paid the bound is `MaxPaid` and one for each request that looked while
  there was room, which is inductive only with those that are still about to write (`PaidWithinBounds`).

`FiguresAlwaysAgree` is about what is computed, not about who overtook whom, and its invariants say what the
figures are computed from:

* A loan that was made has the rows it began with (`ScheduleInv`), and all of them but the last are the same:
  their sum is a product and a remainder, and no induction over the term is needed. `AddMonthsClamped` is
  taken apart into a month and a day, and one more month is later by its days.
* Which rows a page holds depends on the order the database answers in, of which a row that shares its day
  with none is independent: it has the place that the rows of later days give it. `StillAhead` says of such a row which
  was there all the while and has not been read yet that at least as many rows come before it as were asked for.
* A nightly job's readings are what they were read as (`HasRead`), and together they are of one moment unless it
  is marked; of one moment so many paying companies bring between so many times the lowest and the highest price (`Brings`).
* What is on file is finite (`Booked`), and an answer that a screen waits with is of the shape it was asked in (`ReportsInv`).
  That months add up to a total, departments to a company, categories to the costs are then instances of one lemma:
  a sum is the sum of the sums of its groups (`SumOfGroups`).
* The accounts' rows of an entry net to what it is while it is on file and to nothing otherwise (`RowsNet`). That is an
  invariant of recording and reversing, and what makes cash flow agree with profit and loss.
* Of what a deletion has counted none is on the project, nor on one that is gone, but for what slipped in after the count
  (`NoneLeft`): so the projects leave out no more than the property says.
* Utilization is a rounded quotient. `RoundedIs` says between which bounds it lies; that the agency's lies between
  those of its people is the mediant (`SomeAtMost`: of some summand the quotient is at most that of the sums, of some at least).
* Of the sales, that steps are a sequence of steps (`SalesInv`): wins and losses are counts of a set of leads, and cuts by person
  and by source are counts of its groups (`CountOfGroups`).

The attempt found one statement too strong: `MomentUnlessShifted` had it that revenue is zero only when nobody pays or every plan
is free, which a free plan beside paid ones refutes. It now states both bounds.

Of `Payroll`, in the same module, both theorems rest on one invariant. `RowsInv` says when a run has payouts at
all: never as a draft, exactly its lines when completed, and when discarded only if its month
was raced. `OneStanding` is the unique index on a month. `ReqInv` says of each request what it still
finds as it saw it: the wages about to be paid are the lines as they are, the month of a
run about to be inserted is free, and whoever is discarding a run that has been paid is stale.
`Apart` (no two hold one run, or insert for one month) carries it across the commits of others;
`Overtaken` says once what a commit does to them.

* `PayrollInvariant`: `Spec => []RunsInv`; from it `PayrollTypes`, `PayoutsAlwaysMatch` (no ghost: the
  lock on the run suffices) and `MonthsPaidOnce`.

**`DeskProofs`.** One invariant for each part of `MCDesk`, and their conjunction for the composition.

* `SetUpHolds`: of the lists (`ListsInv`) a request that was not overtaken still finds the name it gives free and nobody
  whom the removal it decided on would rob (`StillFinds`); what an overtaken one writes is recorded entry by entry and record
  by record (`misnamed`, `mislaid`), and a record that lost its entry in `erased`, until it is filed again. Of a package (`PackagesInv`) an edit between its
  statements has seen every line there is, and was given one at least (`HasSeenAll`): what it
  writes is then all there will be. Of the targets (`TargetsInv`) a creation still finds no target of the same
  identity (`WillScore`); where it does not, `GoalsApart` leaves one case, the agency's own, whose null owner
  the unique index does not compare.
* `VaultHolds`: a request still reaches what it is about to show or write, and a deletion still finds the row kept
  (`StillReaches`); a log is a sequence of any length that begins with the creation, tells of a
  password as often as it was handed out, and has nothing after a deletion (`LogIsTrue`). The last of these needs
  `~overtaken`, the count does not: the log and the answer are one commit.
* `DeskTypes`: the types, and that the roles an agency starts with hang together (`GridHangs`): nobody does more with
  a module than they see of it, nobody more than an admin. It is a matter of cases, of which `SquaresAre` says what there are.

Of `Loan`, in the same module: here the claim replaces the lock that `Ledger` has, and `LedgerMatchesPaid` holds with no ghost at
all. `IInv` consists of `TypeOK`, `RowsInv` (what no schedule has was never paid),
`LedgerMatchesPaid`, and for each request `Shape` (places and payloads of an operation) and `Claimed`
(a row that it has claimed is still as the claim found it, and a reversal's `open` is what
the ledger still holds of it), and for each two requests `Apart` (they hold no instalment in
common, and draw different ids). `Claimed` is what makes the commit exact, and `Apart` is what
keeps `Claimed` true across the commits of others.

* `LoanInvariant`: `Spec => []IInv`; from it `LoanTypes` and `LedgerAlwaysMatchesPaid`.
* `PaidRowsAlwaysStay`: a paid row changes only by the reversal of its payment.

A second invariant, `SettleInv`, is about a loan's status. It adds to `IInv` what a request is about to write of its
loan (`Drafted`), that the rows it names stay that loan's (`Refers`), and that what it counted still holds
unless somebody overtook it (`Knows`): the loan is there, another row is unpaid or none is, none was paid.

* `LoanHolds`, and `PaymentsSettleOnlyRepaidLoans` as an action property.

Only model-checked: liveness (`EveryRequestEnds`, `ServerCatchesUp`), which is out of the prover's reach. Every other
property of a run that passes is stated by a theorem.

## Where the code and what it says part

`payroll_twice` is the one that a run exhibits. The others came up while the models were written; the
properties are stated so that they hold beside them, which is what each exception in a property's name
or comment is about.

Races, two requests on the same rows within one transaction's length:

* Two deletes of one record both reverse it (`shared/ledger.ts:93`), although "edits and deletes reverse ledger
  rows exactly once" (`src/README.md`).
* A movement commits between the count and the update of a deletion: an account that has been used is
  deleted all the same (`account.service.ts:76`).
* A request that read its target before the transaction demotes the last admin (`user.service.ts:216`).
* Two payments of one invoice each sum without the other (`invoiceStatus.ts:30`); two payments of the last two
  instalments leave a repaid loan active (`loanRepayment.service.ts:67`).
* Two invites, or two reset links, are live at once when their requests overlapped; an invite that is being
  revoked can still be accepted; the last manager of the platform can be removed by two operators at once.
* Two replacements of a package leave the lines of both; the agency's own target can be set twice, because the
  unique index takes nulls for different; two shareholders can add up to more than the whole.
* A stop that was asked for lets requests finish and exits with 0 (`server.ts:62`). A chat socket that opens after the
  others were closed keeps `server.close` (`:89`) waiting, and the timer of ten seconds exits with 1 (`:74`).
* `deleteProject` counts payments and expenses outside the transaction and updates by id later
  (`project.service.ts:273`): what is recorded in between stays on a deleted project, and the deletion does "quietly change
  every profitability figure", which its count is there to prevent (`:270`).
* `rejectMember` updates a row and then shares the acting admin's (`memberApproval.service.ts:68`), while
  `deleteUser` holds every admin's row and waits for the updated one; PostgreSQL aborts one of the two.

Without any race:

* New instalments are numbered from the count of paid rows (`loan.service.ts:180`), which is their highest
  number only when they were paid in order ("the new ones carry on from there").
* A PATCH lets a pending person in without asking for a seat (`user.service.ts:226`).
* A sweep that is late for a company suspends it the night it first sees it (`platformSubscription.service.ts:146`
  says "never straight to suspended").
* A sign-up may land on a plan that was taken off sale after it became the default
  (`platformSettings.service.ts:52`).
* An overdue notice is an event with rules and texts that nothing raises (`notify.ts:67`).
* An invoice that is created with the status `paid` stays paid without a payment, until something reconsiders
  it (`invoice.service.ts:164`; `invoiceStatus.ts` has the status "derived from what has been paid rather than set by hand").
* A deleted personal target keeps its place in the unique index: it cannot be set again.
* `timeCapacity.service.ts:9` wants it that the two views "cannot describe the same week differently"; its window is a day longer.
* The monthly series and the KPIs' money leave out loan interest, which profit and loss counts.
* `deleteProject` does not count payouts: they drop out of profitability with it.
* A PATCH with `is_default: false` leaves a board without a default (`workflowStatus.service.ts:146`), although `remove`
  takes care to "Never leave a board without a default: the next thing created would land nowhere" (`:213`).
* A PATCH with `is_active: true` alone brings a shareholder back with the share they had and checks nothing
  (`shareholder.service.ts:169`); "The sum across active shareholders is checked against 100 on every write" (`loan.prisma:105`).
* Removing a service category takes it from its services whatever their number (`serviceCategory.service.ts:138`).
  `service.prisma:3` has categories "Retired rather than deleted once services point at" them; the comment on the relation
  (`:44`) calls it a tidying decision.
* A reopened or twice-won deal is counted twice among the wins and lowers the average deal.
* The hours of people who left count in the agency's utilization, their capacity does not.
* Lists are ordered by date alone, so rows of one day may be on two pages or on none.
* A direct thread that one of the two has left is returned to them without their being in it again.
* A task created in a done column has no completion date (`task.validation.ts:18` wants it derived).
* An invoiced client can be deleted (`client.service.ts:216`); a time entry's task can end up on
  another project than the entry (`timeEntry.service.ts:100`).

## What is not modelled

* `src/scripts` (`smoke.mjs`, `tenantIsolation.ts`, `ledgerDrift.ts`, seeds, `migrate.mjs`): tools that call the program or
  its database from outside. They are about a seventh of the lines of the repository's code.
* Controllers, routes, validation schemas, rate limits, error mapping, cookies, uploads, exports, e-mail and its
  templates, formatting: input and output. What a schema admits and a route requires is in the
  models as the inputs and guards of the actions.
* Encryption of the vault, hashing and token encoding: taken as sound.
* Principal and interest of an instalment in `Loan` are one amount (`Schedule` follows the principal alone),
  and taxes and discounts of an invoice are whole numbers.
* Members who join or leave between two payroll runs, and payouts corrected by hand after a run
  was paid (they are records of `Ledger`).
* The columns nothing depends on: names, notes, descriptions, orders, colours; renaming accounts and due people;
  a company's particulars; the activity log, the list of transactions and the log of logins, which are
  appended and read as they are.
* Search, filters and the comparison of a figure with the period before.
* Two companies beside each other: no query that is modelled crosses them, which `tenantIsolation.ts` tests.
* A DELETE of many rows locks them in one step. Locking them one by one can only close
  circles that PostgreSQL breaks by aborting a transaction, for which the rollbacks stand.

## What could come next

`Invoice` with two invoices, so that one request recalculates both; the
invites of three tables as three instances of `OneTimeLink` once accepting claims its row; an abstract
ledger in which an edit is one step, implemented by `Ledger` as far as requests are not overtaken.
