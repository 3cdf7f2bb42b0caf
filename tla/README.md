# GB OrderFlow: specification, model checking and proofs

GB OrderFlow takes orders from dealers, has Head Office approve or reject them
with a discount, and produces one ERP import file (CSV) per approved order. It is
one Node process (Express, Prisma) on one PostgreSQL database, and a React
application in the browser. This directory specifies the parts of it whose
correctness depends on the order in which things happen, checks them with TLC on
small instances, and proves the main results with TLAPS for every instance. All
paths below start at `src/`, the root of the repository.

1. Inventory: the parts, how they interact, what makes each correct
2. Modules: what models what, action by action
3. Model checking: runs, bounds, fairness, findings
4. Proofs
5. What is not modelled, and what could follow

## 1. Inventory

| Component | Code | State it keeps | Operations | Specified in |
|---|---|---|---|---|
| Order intake | `server/services/dealer-portal.service.ts`, `server/repositories/order.repository.ts` | tables Order, OrderItem, AuditLog; one advisory lock | `createOrder` | `OrderIntake`, against `OrderLedger` |
| Approval, rejection, ERP export | `server/services/head-office.service.ts`, `order.repository.ts` | Order.status, ExportHistory, AuditLog | `approveOrder`, `rejectOrder`, `getOrderExport`, `getDownloadableExport`, `generateExport` | `ExportPipeline`, against `OrderLifecycle` |
| Amounts and CSV | `server/core/csv.ts`, `head-office.service.ts`, `shared/contracts.ts` | Sku.rate, Order amounts, file contents | save a rate, submit, preview, approve, export | `OrderAmounts` |
| Export task queue | `server/core/queue.ts` | promise chain and in-flight keys, in memory | `enqueue` | `ExportPipeline` |
| Process lifecycle | `server/index.ts` | server, connections, timer | start, shutdown, death | `ServerLifecycle`; `Crash` in `OrderIntake` and `ExportPipeline` |
| Request context, error answers | `server/middleware/request-context.ts`, `error-handler.ts` | a timer per request | time-out answer, error mapping | in the modules of the handlers |
| Authentication | `server/services/auth.service.ts`, `auth.repository.ts` | tables User, Session, PasswordResetToken | login, lock-out, refresh, logout, logout of all, password reset | `Sessions`, against `SessionRegistry`; `PasswordReset` |
| Sessions in the browser | `auth.controller.ts`, `cookies.ts`, `security.ts`, `src/auth/AuthContext.tsx`, `src/api/client.ts` | cookie jar; user and CSRF token of each tab | sign in, restore, use, renew, sign out | `BrowserSession` |
| API client | `src/api/client.ts`, `src/api/query-client.ts` | circuit breaker, one refresh promise, retry counts | request, retry, refresh, replay | `ApiClient` |
| Connection banner | `src/ui/NetworkStatusBanner.tsx` | what it shows, a timer | events, answers | `NetworkBanner` |
| Order submission page | `src/views/DealerCatalogPage.tsx` | drafts, cart, one mutation | add, edit, submit, restore | `OrderSubmission` |
| Head Office orders page | `src/views/HeadOfficeOrdersPage.tsx`, `src/ui/PaginationBar.tsx` | tab, page, list, dialog, downloads | approve, reject, download, turn pages | `ReviewQueue` |
| Master data | `head-office.service.ts`, `server/repositories/master.repository.ts` | tables Dealer, Sku, User; the connection pool | create and update dealers and SKUs | `MasterRecords`; `Sessions` (whose sessions end) |
| Master data pages | `src/views/HeadOfficeDealersPage.tsx`, `HeadOfficeSkusPage.tsx` | list, dialog, form, one mutation | open, type, save, cancel | `MasterDialog` |

`PROJECT.json` lists every component of the repository, also those that are
presentation, wiring, tooling or read-only queries, with the reason.

How the parts interact:

- **Calls.** A browser request passes the middleware and runs one service method.
  Every `await` in it is a point where other requests of the process run.
- **Shared tables.** Intake, approval and export meet in Order and ExportHistory;
  intake and master data in Sku and Dealer; master data, authentication and
  password reset in User and Session. A transaction sees one snapshot, and what
  it read before it began may be out of date.
- **Shared memory.** `routes.ts` creates one queue for the process. Approval and
  export requests put tasks into it and do not wait for them. In the browser the
  calls of a page share one circuit breaker and one refresh promise, and the tabs
  share one cookie jar.
- **Other connections.** Audit rows and session revocations are written on a
  connection of their own, after or beside the transaction they belong to. An
  error there does not undo it, and its rollback does not undo them.
- **Late answers.** Every page goes on while a request is under way: what an
  answer changes may no longer be what it was asked for.

### What makes each part correct

- *Intake.* One order per idempotency key and one answer per dealer and key,
  whatever races or fails; numbers 1, 2, ..., n for each day; prices of a catalogue
  that really existed; every committed order in the audit log unless its request
  failed or died; no request waiting for the advisory lock for ever.
- *Approval and export.* A decision is final; an approved order, and only that,
  has an export row; the approval is logged once; one task per order; no row
  PROCESSING that nobody works on, except after a crash or a failure outside the
  `try`; an approved order gets its file.
- *Amounts.* What the screen previewed is what is recorded; the rows of the CSV
  add up to the order within their rounding.
- *Process.* A signal ends the process; an exit with success has answered every
  client that was waiting.
- *Sessions.* A session that was ended stays ended; at most one live session per
  user where the configuration says so; what an administrator's update must end is
  ended; the lock-out bounds the guesses.
- *Password reset.* A code works once, a newer one replaces it, and sessions of the
  old password end.
- *Browser sessions.* Orders are placed for the user the page shows; a logout ends
  the session; the refresh cookie is the one the server accepts.
- *API client.* The retry rules do not multiply beyond their product; no mutation is
  performed twice; every call settles; the breaker's pause ends.
- *Submission page.* Nothing is ordered twice, and nothing the dealer put into the
  cart is lost.
- *Orders page.* What was decided is no longer offered; remarks go to the order they
  were typed for; an empty list means that nothing matches.
- *Master data.* A dealer and its user agree; codes are unique up to case; nobody
  waits for a connection for ever; what is typed into a dialog is saved where it
  belongs (not so for a save that is held while offline).

### What is hard to test here

`PROJECT.json` lists the hazards with their lines and the properties that watch
them. The main ones: the snapshot of the SERIALIZABLE transaction is older than the
advisory lock under which the order is numbered; the 503 of the time-out guard
overtakes a commit; approval and rejection overlap; the export's claim and its
`try` block do not meet; the queue exists in memory only; a rotation revives a
session revoked under it; a transaction holds one connection of the pool and waits
for another; two tabs rotate one cookie; a dialog, a list or a banner receives an
answer meant for what was there before; a save held while offline takes the record of
a dialog opened later.

## 2. Modules

```
OrderLedger     <- implements -- OrderIntake      <- MCOrderIntake,     OrderIntakeProofs
OrderLifecycle  <- implements -- ExportPipeline   <- MCExportPipeline,  ExportPipelineProofs
SessionRegistry <- implements -- Sessions         <- MCSessions,        SessionsProofs
                                 PasswordReset    <- MCPasswordReset,   PasswordResetProofs
                                 BrowserSession   <- MCBrowserSession,  BrowserSessionProofs
                                 MasterRecords    <- MCMasterRecords,   MasterRecordsProofs
                                 ServerLifecycle  <- MCServerLifecycle, ExportPipelineProofs
                                 OrderAmounts     <- MCOrderAmounts,    ScreensProofs
ApiClient       <- extends    -- NetworkBanner    <- MCNetworkBanner,   ApiClientProofs
MasterDialog    <- extends    -+
OrderSubmission <- instance   -+ Screens          <- MCScreens,         ScreensProofs
ReviewQueue     <- instance   -+
```

Three proof modules hold two subjects that share lemmas or belong together:
`ApiClientProofs` the client and the banner beside it, `ExportPipelineProofs` the
pipeline and the process it runs in, `ScreensProofs` the pages and the amounts they
show. For that, `ServerLifecycle` and `OrderAmounts` name their specifications apart
(`ServerSpec`, `AmountsSpec`).

Where two modules speak of the same code, one keeps its steps apart and the other
uses its result: `Sessions` interleaves the statements that `BrowserSession` takes
as one; `OrderIntake` is what `OrderSubmission` calls "placed or not"; `ExportPipeline`
is what `ReviewQueue` polls; `MasterRecords` is behind `MasterDialog`'s save.
Two modules compose components: `NetworkBanner` is the API client with the banner
that listens to it, `Screens` the pages behind the router.

### OrderLedger

What intake promises: a set of orders to which one order at a time is added, with a
key not used before and the number that is next on its day at that moment.

### OrderIntake

`createOrder`, one action per database statement, so that requests interleave at
every `await`.

| Action | Code (`dealer-portal.service.ts` unless named) |
|---|---|
| `Arrive`, `CheckDealer` | 78-87: the session's dealer, which must be active |
| `LookUp` | 89-96: a replay is answered with the old order |
| `CheckSkus` | 98-110: all SKUs active; the rates are read here and used later |
| `Begin` | 113-122: second look-up, which fixes the transaction's snapshot |
| `AcquireLock` | 124: `pg_advisory_xact_lock`, held to the end of the transaction |
| `CountOrders` | 126-128: prefix of today, count on the snapshot |
| `InsertOrder`, `InsertConflicts` | 149-160: insert and commit, or P2002 and rollback |
| `Recover` | 179-192: the order of the same dealer and key, or 409 |
| `WriteAudit` | 162-178: audit row on another connection, answer |
| `StatementFails` | any awaited statement rejects (P2034, P2028, lost connection) |
| `TimeOut` | `request-context.ts` 25-48: 503 is sent, the handler runs on |
| `Crash` | `index.ts` 50-86: the process ends; PostgreSQL rolls back |
| `EditSku`, `SwitchDealer` | `updateSku`, `updateDealer` |
| `NextDay` | the clock |

Abstractions: a basket is a set of SKUs and an order's lines are the function from
them to the rate charged (quantities and sums are in `OrderAmounts`). SSI write
conflicts are not computed, they are among the outcomes of `StatementFails`, which
may strike at any statement; so the results hold for any rule by which PostgreSQL
aborts. `offered` is a history variable: all states the catalogue has been in.

### OrderLifecycle

What Head Office promises of an order: pending, then approved or rejected, once; an
approved order may become published (it has a file), and that is final.

### ExportPipeline

The requests of Head Office and the running task of the queue are processes.

| Action | Code (`head-office.service.ts` unless named) |
|---|---|
| `ApproveRead`, `ApproveCommit` | 158-214: read, refusals; order and export row in one commit |
| `RejectRead`, `RejectCommit` | 248-284 and `order.repository.ts` 216-238 |
| `WriteConflict` | `error-handler.ts` 45-52: the row changed after the snapshot |
| `LogApproval`, `LogRejection` | 216-230, 286-298: after the commit |
| `Enqueue` | 232-239, 363-369 and `queue.ts` 5-22 |
| `PollRead`, `PollUpsert`, `PollReset` | 342-370: three statements, three moments |
| `DownloadRead`, `Deliver` | 303-340 |
| `StartJob` | `queue.ts` 11-21 |
| `Claim`, `Reread` | `order.repository.ts` 272-296: an UPDATE and a read after it |
| `Build`, `Store`, `LogGenerated`, `MarkFailed` | 84-125: the `try` and its `catch` |
| `CallFails`, `JobFails` | a statement rejects, in a request or in the task |
| `Crash` | `index.ts` 50-86: HTTP requests may be waited for, the queue never is |
| `Rename` | `updateDealer`, `updateSku`: what a file prints |

Abstractions: the content of a file is the version of the names it was built from
(`master`); within one order everything else a CSV prints is fixed by the approval.
The branch of `approveOrder` for an UPDATE that hits no row (190-206) and that of
`rejectOrder` (269-281) are unreachable under SERIALIZABLE, where such an UPDATE
raises P2034; `WriteConflict` is what happens instead. Audit rows are a set: the
model tells who approved, not how often a row of equal content was written. `cut`
is a history variable: orders whose task ended by a crash or outside its `try`.

### SessionRegistry

What the session store promises: a session is opened for an owner, may be ended,
and comes back only by a renewal that began while it was live.

### Sessions

`AuthService` on the tables User and Session, one action per statement. Only
`updateDealer` runs in a transaction, and its revocation runs beside it.

| Action | Code (`auth.service.ts` unless named) |
|---|---|
| `LoginFinds` | 164-197: the row, the lock, bcrypt on what was read |
| `LoginFails` | 80-118: increment in the database, lock decided with the count read before |
| `LoginRevokes`, `LoginCreates`, `LoginEnds` | 120-162: `issueSession`, three statements |
| `RefreshReads`, `RefreshRotates` | 259-325: read and checks, then `rotateSession`, which writes `revokedAt: null` |
| `Revokes`, `LogoutSwallows` | 340-371: `logout`, which catches every error; also the revocation of a refused refresh |
| `LogoutAllRevokes` | 373-394 |
| `UpdateWrites`, `UpdateRevokes`, `UpdateCommits` | `head-office.service.ts` 440-510: the transaction, with `revokeAllUserSessions` on another connection |
| `Fails` | a statement rejects or the process dies |
| `SessionExpires`, `LockExpires` | `expiresAt`, `lockedUntil` |

Abstractions: the head office login is the same code on another look-up. A token
is the number of its rotation; its hash, signature and the IP address are left out.
Histories: `revived` (rotated after it had ended), `loggedOut`, `purged` (what the
last update that must end sessions found), `before` (what a login's revocation found).

### PasswordReset

`requestPasswordReset` and `resetPassword` (`auth.service.ts` 396-533) for one account,
with logins beside them; again no transaction. The service has them, a controller and
a test; no route leads to them yet. `AskInvalidates`, `AskCreates`; `ResetReads` (up to
`bcrypt.hash`), `ResetUpdates`, `ResetConsumes`, `ResetRevokes` in the order of the
statements (`StepAfter`); `LoginFinds`, `LoginCreates`; `Expires`, `Fails`.

### BrowserSession

One browser: the cookie jar, and for each tab the signed-in user and the CSRF token.
A request takes the cookies of the moment it is sent and its answer
changes the jar when it arrives.

| Action | Code |
|---|---|
| `Load`, `Login`, `Use` | `AuthContext.tsx` 33-102, `router.tsx` 42-63: restore, sign in, requests of a page |
| `ServeLogin`, `ServeRefresh`, `ServeLogout` | `auth.controller.ts` with the services behind it |
| `Unauthenticated`, `Forbidden` | `authenticate.ts` 18-37, `security.ts` 91-107: in the order of the route |
| `ServeOrders`, `ServePost` | `routes.ts` 148-170 |
| `SignInAnswered`, `LogoutAnswered` | `AuthContext.tsx` 50-64, 104-140, with the cookies of `cookies.ts` and `error-handler.ts` 21-24 |
| `UseAnswered`, `UseRefused`, `RenewAnswered` | `client.ts` 260-295 and 170-190: answer, first 401, renewal and replay |
| `Lost` | request or answer lost |
| `AccessExpires` | time |

Bounds of the model: handlers are atomic (their interleavings are `Sessions`'), a tab
has one request under way at a time, and an abandoned request was served before it
was abandoned or never is. The query cache is left out.

### ApiClient

The calls of one page through React Query, the request interceptor, the network and
the response interceptor: `Begin`, `Fetch`, `Pass`, `Refuse`, `Succeeds`,
`Unauthorized`, `Fails`, `Repeat`, `RefreshEnds`, `Switch` (the connection), `Tick`
(`client.ts` 118-320, `query-client.ts` 4-26). `Rejected` is the end of the response
interceptor: repeat, or count for the breaker and settle. A refused call ends there
like one that failed. Delays are left out; the breaker's cooldown is counted in ticks.

### NetworkBanner

Extends `ApiClient` with the banner (`NetworkStatusBanner.tsx` 11-77): each step of the
client that calls `emitNetworkStatus` is a step of both, the others leave the banner
alone (`Silent`).

| Action | Code |
|---|---|
| `GoOnline`, `GoOffline` | `client.ts` 90-103 and `NetworkStatusBanner.tsx` 43-59: both listeners of one event |
| `TellRefused`, `TellFailure` | `client.ts` 236-254, 297-318: offline, a repetition, or an open breaker is told of |
| `TellSuccess` | 260-268: clears what the banner shows, also when the answer is older than the loss |
| `Clears` | `NetworkStatusBanner.tsx` 30-40: the timer of a recovery |

`excused` remembers that, since the connection was lost, an old timer fired or an old
answer came.

### OrderSubmission

| Action | Code (`DealerCatalogPage.tsx`) |
|---|---|
| `EditDraft`, `AddToCart` | 296-327 |
| `EditCart`, `ToggleCart` | 329-376, 400-406 |
| `Submit` | 378-391 and `onMutate` 278-283: the cart is emptied before it is sent |
| `Succeed`, `Fail` | 284-292: on an error the cart sent replaces the cart there is |
| `Handle` | the server, which may place the order after the page gave up |
| `Leave` | another route, or a reload |

`sent` is the sequence of carts submitted, and the index in it stands for the
idempotency key, which is new for each submission. `lost` remembers the submissions
that failed for the page although the server did not refuse them.

### MasterRecords

| Action | Code (`head-office.service.ts` unless named) |
|---|---|
| `Begin`, `LookUp` | 385-394, 440-450: codes compared ignoring case |
| `WriteDealer`, `WriteUser`, `Commit` | 396-438, 452-492: READ COMMITTED, row and index locks |
| `Revoke`, `Audit` | 426-436, 495-508: on another connection of the pool |
| `WriteSku` | 525-567: without a transaction |
| `Fail`, `TimeOut` | rollback; Prisma's limits on transactions and on waiting for a connection |

The pool is its size; a transaction holds one connection. Which sessions a revocation
ends is `Sessions`' matter. `Reserved` are names of Head Office users. `Inputs` is what
the dialogs may send: any set of kinds, rows, codes, states and passwords in the proofs,
six inputs in the run. Each row carries histories: when its writer had looked codes up
(`looked`), when it was written (`at`) and when it had been written before (`before`).

### MasterDialog

The dealers page and the SKUs page differ in their fields only. `Fetch`, `OpenCreate`,
`OpenEdit`, `Type`, `Cancel`, `Save`, `Send`, `Serve`, `Succeed`, `Fail`, and `OtherSaves`
for other users. A value is told by the dialog it was typed in, so a value that strays is
seen.

`Save` is the click, `Send` the start of `mutationFn` (dealers 90-97, SKUs 89-97). While
the browser is offline React Query holds the mutation between the two. `mutate` has been
given the form, but `mutationFn` reads `editingDealer` when it starts, and `useMutation`
hands each render's options to the pending mutation, so it is the newest render's. Cancel
works meanwhile, and another dialog can be opened: the save then writes the first dialog's
form into the second one's record (or creates a record from it). `strayed` remembers the
records such saves have written. Online, `Send` follows the click at once; the model does
not tell online from offline and leaves any time between them.

### ReviewQueue

| Action | Code (`HeadOfficeOrdersPage.tsx` unless named) |
|---|---|
| `SelectTab`, `Turn` | 112-121, 233-240; `PaginationBar.tsx` |
| `ServeItems`, `ServeCount`, `Receive` | `order.repository.ts` 112-128, `pagination.ts`: a page and its count are two reads |
| `Approve`, `ServeApprove`, `Approved`, `ApproveFails` | 369-411, 140-164 |
| `OpenReject`, `TypeRemarks`, `CancelReject`, `ConfirmReject`, `ServeReject`, `Rejected`, `RejectFails` | 412-419, 457-503, 166-182 |
| `Download`, `Poll` | 67-87, 189-206, 422-430 |
| `Place`, `OtherDecides` | dealers, other users |

Abstractions: a page or tab that is opened is always fetched, so a cached page that
is shown for a moment is left out; the search field is left out; `Refetched` is what
TanStack Query does when a query is invalidated. Whether a poll finds the CSV is
left open: that is `ExportPipeline`'s. The rows of a page are a set: the
page number p is the orders that have as many newer ones before them (`Newer`) as p says.

### Screens

The routes of `router.tsx` that hold a page with a form of its own: one is shown at a
time, and each step is a step of its page (`OnCatalog`, `OnOrders`, `OnMasters`). The
pages share no state, so they are checked beside each other, not multiplied.

### OrderAmounts

Money in cents, rates as entered in thousandths, discounts as entered in thousandths
of a percent. `SaveRate`, `Submit`, `Press` (the screen with its preview), `Approve`,
`Export`. `Round` is `Math.round` and the rounding of `numeric(12,2)`. `RoundedDown`
names the discounts whose double, times 100, falls below the half it stands for:
1.005 * 100 is 100.49999999999999. `Whole` is one hundred percent.

### ServerLifecycle

`Listen`, `StartFails`, `StartupExit`; `Connect`, `Request`, `TimesOut`,
`HandlerEnds`, `Close`; `TaskEnds`; `Signal`, `Drained`, `Exit`, `ForceExit`
(`index.ts` 33-125, `request-context.ts` 25-48, `queue.ts`). That `server.close`
closes idle connections and waits for the others is Node's, and when `$disconnect`
returns is Prisma's: both are external. A connection may stay open after its answer.

### Bug variants

Operators commented "Bug variant" are not used by any specification. Each is a
mutation of the definition after it, named in `PROJECT.json`, and shows that a
property notices that mistake: a missing unique index, a number counted over all days,
a row with a file taken for finished, a revocation that spares a session, a replayed
request that is not marked, a revocation before the new password.

## 3. Model checking

Run with `tlc -config <cfg> <module>`. Deadlock is checked in the client run, where
something can always happen; elsewhere it is off, as the bounded environments
(requests, failures, clock, orders) do run out.

| Run | Module, configuration | Instance | Checks |
|---|---|---|---|
| intake | `MCOrderIntake`, `Intake.cfg` | 2 requests, 2 dealers, 2 keys, 1 SKU, 2 days, 2 rates, 2 catalogues, fair | `IntakeInv` (with `TypeOK`, `OneOrderPerKey`, `NumbersAreDense`), `AnswersAgree`, `SoldFromOneCatalog`, `AuditTrail`, `ImplementsLedger`, `EveryRequestEnds` |
| export | `MCExportPipeline`, `Export.cfg` | 1 order, 2 requests, 2 failures, 1 crash, 2 name versions; the approval is posted again after a failure | `PipelineInv` (with `TypeOK`, `ExportIffApproved`, `ProcessingIsOwned`, `OneTaskPerOrder`), `ApprovalLoggedOnce`, `DownloadsAgree`, `ImplementsLifecycle`, `ApprovedGetsFile` |
| export_retry | `MCExportPipeline`, `ExportRetry.cfg` | 1 request, 1 failure, the export is asked for again and again | `ApprovedGetsFile`, violated |
| sessions | `MCSessions`, `Sessions.cfg` | 1 user, 2 sessions, 2 requests, failures, 2 passwords, 2 tokens, lock-out at 3 | `SingleSession`, `StaleSessionsOverlap`, `GuessesAreBounded`, `LoggedOutStaysOut`, `ImplementsRegistry` |
| reset | `MCPasswordReset`, `PasswordResets.cfg` | 3 requests for codes, 2 resets, 1 login | `CodesDie` (`CodesWorkOnce`, `OlderCodesDie`), `OldSessionsOverlap` |
| browser | `MCBrowserSession`, `Browser.cfg` | 2 tabs, 2 users, 2 logins, 2 tokens, answers may be lost | `TypeOK`, `OrdersInShownName`, `JarIsCurrent`, `LogoutEndsSession` |
| browser_continuity | `MCBrowserSession`, `BrowserContinuity.cfg` | 1 tab, 1 user, nothing lost | `SessionsContinue`, violated |
| client | `MCNetworkBanner`, `Client.cfg` | 1 query, 1 mutation, 2 repetitions, 1 retry, threshold 3, fair | `RepeatsAreSafe` (`SendsAreBounded`, `MutationsPerformedOnce`), `PauseIsBrief`, `NeverFalselyOffline`, `OfflineShown`, `EveryCallSettles` |
| screens | `MCScreens`, `Screens.cfg` | 1 SKU and 3 submissions; 2 orders on pages of one; 2 records, 2 fields and 3 dialogs | `PagesInv` (types, `WaitsForAnswer`, `DialogAwaitsItsAnswer`, `BusyIsWaiting`, `DialogKeepsItsRecord`), `Conservation`, `ExcessFollowsLoss`, `RemarksFollowCancel`, `OwnDecisionsShow`, `NoForeignValues` |
| master | `MCMasterRecords`, `Master.cfg` | 2 at a time of 4 requests with 6 inputs, 2 records, 2 names in two cases, 2 connections, fair | `RecordsInv` (`TypeOK`, `UserMirrorsDealer`, `DealersAreAudited`), `ClashesOverlapped`, `EveryRequestEnds` |
| amounts | `MCOrderAmounts`, `Amounts.cfg` | 3 SKUs, 3 rates, 2 quantities, 8 discounts, 2 users | `AmountsInv` (`AmountsTypeOK`, `PreviewHolds`), `CsvAddsUp` |
| server | `MCServerLifecycle`, `ServerShutdown.cfg` | 3 connections, 2 tasks, fair | `NoAnswerCutOff`, `SignalEndsProcess` |

Where a module's types, or an invariant that a refinement or a stronger invariant
implies, are theorems (section 4), the runs leave them out: `TypeOK` of `Sessions`,
`PasswordReset` and `ApiClient`, `ServerTypeOK`, `EndedStaysEnded`, `DecisionIsFinal`.

What they show:

- *intake*: two requests race on one key, on one number and on one midnight, and
  fail, time out or die anywhere; the keys stay idempotent, the numbers dense, the
  whole is a sequential ledger, and nobody waits for the lock for ever.
- *export*: decisions, polls, downloads and the task race on one order; whatever
  fails, posting the approval again brings the file. `DownloadsAgree` is stated until
  a statement fails (see below).
- *sessions*: sessions overlap, survive an update or come back only through statements
  that overlapped; a stale failure count costs one guess per other request.
- *reset*: a code works once and the older one not at all, although code, password and
  sessions are written in steps.
- *browser*: orders are the shown user's, or the page had renewed with the other's
  session; a logout that is let in ends the session, also with a stale cookie.
- *client*: the three repeating rules together keep to their product, nothing waits
  for ever, the breaker's pause ends, and the banner tells the truth as far as stated.
- *screens*: late answers meet another cart, another page, another dialog.
- *master*: overlapping creates and updates, and transactions that wait for each
  other's connections.
- *amounts*: preview, record and CSV agree within their rounding.
- *server*: a shutdown ends, and with success only when no client waits.

**Mixes.** Three MC modules keep the product of independent activities small: a
variable chosen at first says which of them a behaviour contains. In `MCOrderIntake`
Head Office edits the catalogue, or switches dealers, or is away while requests use
two keys: the checks against catalogue and dealer read different variables, and
different keys share only the numbers and the lock. In `MCSessions` the operations of
a behaviour are those without an administrator's update, those with it, or logins
with guesses. In `MCScreens` the user of the order queue rejects or downloads: the
dialog and the waits share no variable.

**Why these bounds.** A race on an idempotency key needs two requests, and so does a
stale count: one request takes its snapshot, the other commits an order under another
key, and the first counts. Two days are one midnight. Two dealers with one key show a
look-up that forgets the dealer. One order suffices where a property speaks of one
order and its rows; a request that ended may start again, so two requests are two
that race, with the task between them. Two failures allow one in the request and one
in the task, or one in the `try` and one in the `catch`. A session is revived by one
request while another ends it: two requests, two sessions, two tokens (one rotation).
The operations of different users do not touch each other's rows, so one user
suffices. Two tabs and two users are one foreign session; two tokens are one renewal.
The client's limits are those of the code except for the retries of React Query, 1
for 2, and the breaker's threshold, 3 for 4: a bound that is off by one or multiplied
wrongly shows at 1. Three submissions
let one be refused, one lost and one placed. Four requests, two at a time, let a row be
created, renamed and renamed back while an update of another one that had looked its
code up is still on its way; the inputs are those which clash, switch off or set a
password. Two connections and two transactions are the least that wait for each other.
Three dialogs are two of one's
own around a save and one of another user's. Pages of one order and two orders have a
second page. Three requests for a code are two that overlap and a newer one. The
rates 0.014, 0.330 and 9.995 and the discounts 0.005, 1.005, 33.333 and 99.999 round
at every place the code rounds. Three connections are one that was answered for, one
that waits and one that idles. For the properties that are proved nothing depends on
these bounds.

**Fairness.** A handler whose statement has returned is resumed by the event loop:
weak fairness of each request's steps and of the task's. PostgreSQL grants an
advisory lock in the order of the waiters: strong fairness of `AcquireLock`.
Nothing is assumed of requests that may come, of failures or of crashes. Two
specifications of `ExportPipeline` add what a user does: in `PollingSpec` Head Office
keeps asking for the export of an approved order, the only retry the screens offer;
in `ReapprovingSpec` it keeps posting the approval once something has failed, which
the API accepts and the screens do not offer. Strong fairness there says that a
request is sent when it is possible again and again. With finitely many failures
both say "from some time on the retries go through".

`MasterRecords` assumes that statements that can run do run and that Prisma's
time-outs fire. `ApiClient` assumes that every request ends (axios' time-out), that
timers fire, and that the connection comes back again and again: React Query holds
an attempt while the browser is offline, and starts it when it is back (strong
fairness of `Fetch` and of going online). `NetworkBanner` adds the banner's timer.
`ServerLifecycle` assumes only that the forced exit's timer fires and that
`$disconnect` returns after a failed start; nothing of clients, handlers, tasks, or
`$disconnect` during a shutdown.

### Findings

Two statements of the documents do not hold, and a run each shows how they fail.

| Run | What is said | What happens |
|---|---|---|
| export_retry | `docs/README.md` 1187-1189: a failed export is FAILED and can be retried | `claimExportForProcessing` sets PROCESSING and re-reads the row outside the `try`; if the read fails, no export request enqueues the row again. Posting the approval again does help (run export) |
| browser_continuity | `docs/README.md` 1042: the refresh token serves continuity | every 401 clears the refresh cookie, so the renewal it triggers has none to present |

Where the code falls short of what one may expect elsewhere, the property is stated
with the exception, so that the exception is the only one:

| Property | Its exception | The code |
|---|---|---|
| `ApprovalLoggedOnce` | after a failed statement an approved order may be unlogged for good | the log is written after the transaction, and a repeated approval writes none (`docs/README.md` 1136-1139 wants both in one) |
| `DownloadsAgree` | after a failed statement a second download may differ | a failing audit insert after COMPLETED marks the export FAILED, and the retry prints current names |
| `LoggedOutStaysOut`, `EndedStaysEnded`, `SingleSession` | a rotation under way revives a session | `rotateSession` sets `revokedAt` to null unconditionally |
| `LoggedOutStaysOut`, `LogoutEndsSession` | only revocations that ran count | `logout` swallows a failed revocation and answers success; with an expired access cookie it is answered 401, which the page takes for success |
| `JarIsCurrent` | not after overlapping renewals or a lost answer | two tabs rotate one cookie |
| `PauseIsBrief` | a refused call extends the pause | calls refused by the open breaker count as failures and open it anew |
| `OfflineShown` | an old timer or an old answer | the timer of a recovery is not cleared when the connection is lost again |
| `ExcessFollowsLoss` | after a lost answer | each submission has a new key, also of a cart restored after a time-out (`docs/README.md` 1088-1089) |
| `Conservation` | pieces put in during a submission may be forgotten | an error replaces the cart by the one that was sent |
| `RemarksFollowCancel` | remarks kept by a cancelled dialog | the next order's dialog opens with them |
| `NoForeignValues` | records written by a save that was held while offline and sent under a later dialog | `mutationFn` reads `editingDealer`, `editingSku` when it starts, not at the click |
| `OwnDecisionsShow` | a first request for a page is not repeated | its answer may be older than the decision |
| `BusyIsWaiting` | not the converse: an order that is waited for may have a usable button | a second download takes the place of the first |
| `ClashesOverlapped` | codes that differ in case, of overlapping requests | the unique index is case-sensitive, the look-up before it is not; an update looks up its own code too, so it can bring back, beside a clash, the code its row had when it looked: then it overlapped the request that had renamed the row |
| `CsvAddsUp` | discounts in `RoundedDown` | 1.005 % is used as 1.00 % and stored as 1.01 % |
| `NoAnswerCutOff` | a server that began to listen after the signal; export tasks | it is not closed; tasks are on no connection, and the exit is a success while they wait or run |

Seen while modelling, with no property: an order list whose last page empties shows
"The queue is empty" without a control that leads back
(`src/views/HeadOfficeOrdersPage.tsx` 260-266); a rate of 0.004 passes
`positive()` and is stored as 0.00 (`shared/contracts.ts` 271); the query cache, whose
keys name no user, outlives a logout (`src/auth/AuthContext.tsx` 104-140).

## 4. Proofs

`tlapm <module>Proofs.tla` checks each of the eight modules. The assumptions are those
on the constants:

- bounds are natural numbers (some positive), and kinds of operations are disjoint;
- `None` (or `Null`) is not one of the values it stands beside. The code's `null` and
  `undefined` are no strings, rows or numbers;
- the requests of `Sessions` and of `MasterRecords` under way at one time, and the SKUs of
  an order, are finitely many: their theorems count or add them. A process has finitely
  many requests open, and a cart finitely many lines.

All other sets (requests of the other modules, keys, dealers, orders, users, sessions,
tabs, calls, records, codes, rates, discounts, connections) are arbitrary, also infinite.
Every safety property that a passing run checks is a theorem.

**Intake** (`OrderIntakeProofs`).

| Theorem | States |
|---|---|
| `IntakeInvariant`, `TypeCorrectness` | `[]IntakeInv`, `[]TypeOK` |
| `KeysAreIdempotent` | `[]OneOrderPerKey` |
| `DenseNumbering` | `[]NumbersAreDense` |
| `AgreeingAnswers` | `[]AnswersAgree` |
| `ConsistentPrices` | `[]SoldFromOneCatalog` |
| `CompleteAuditTrail` | `[]AuditTrail` |
| `IntakeImplementsLedger` | the specification implements `OrderLedger` |

That the day's numbers are 1..n is not inductive: nothing in it says that the
number about to be inserted is n + 1, and since the count may be stale it need not
be. `IntakeInv` adds that a snapshot is a subset of the table and itself densely
numbered, and that the number drafted is the next one *of the snapshot*. The lemma
`AcceptedRowIsNext` then carries the argument: the snapshot holds m orders of the
day, so the draft is m + 1; if the table held more than m, its numbers, being
1..n with n > m, would contain m + 1 and the unique index would refuse the row;
so a row that is accepted is next in the table too. The advisory lock does not
occur in the argument. It spares conflicts; the index keeps the numbers.
`ConsistentPrices` carries the rates from the SKU check to the insert
(`PricesOffered`), and `CompleteAuditTrail` needs that the body of a request does
not change once it has arrived (`TrailInv`); both stand on `IntakeInv`.

**Approval and export** (`ExportPipelineProofs`).

| Theorem | States |
|---|---|
| `PipelineInvariant`, `TypeCorrectness` | `[]PipelineInv`, `[]TypeOK` |
| `ExportsFollowApproval` | `[]ExportIffApproved` |
| `NoDoubleTask` | `[]OneTaskPerOrder` |
| `ClaimsAreOwned` | `[]ProcessingIsOwned` |
| `ApprovalIsLoggedOnce` | `[]ApprovalLoggedOnce` |
| `DownloadsAreOneFile` | `[]DownloadsAgree` |
| `DecisionsAreFinal` | `DecisionIsFinal` |
| `PipelineImplementsLifecycle` | the specification implements `OrderLifecycle` |

`PipelineInv` says what a request may rely on after each `await`: a call that has
passed the check "is approved" still finds it so, since decisions are final
(`CallsOK`); queued and running tasks are of approved orders (`WorkOK`), so the
CSV builder never meets another; a caller on its way to the log is the only one
for its order and the log has no row of it yet (`LogOK`). `DecisionsStay` comes
first: every other preservation proof uses it. `ProcessingIsOwned` excludes the
point after `Store`, where a row that is PROCESSING would be forgotten by the end
of the task: it cannot be, since the claim alone enters the state and there is one
task at a time. The third part of `ApprovalLoggedOnce` needs `LogOnItsWay` on top.
`DownloadsAgree` needs `FilesFixed`: until a statement fails no row is FAILED, so no
reset comes, a row with a file is COMPLETED, and no task builds a file for it again.

**Sessions** (`SessionsProofs`).

| Theorem | States |
|---|---|
| `Invariance`, `TypeCorrect` | `[]IInv`, `[]TypeOK` |
| `OneSession` | `[]SingleSession` |
| `StaleSessions` | `[]StaleSessionsOverlap` |
| `LoggedOutSessionsStayOut` | `[]LoggedOutStaysOut` |
| `EndedSessionsStayEnded` | `EndedStaysEnded` |
| `GuessesBounded` | `[]GuessesAreBounded` |
| `SessionsImplementRegistry` | the specification implements `SessionRegistry` |

`IInv` is `RequestsOK` (what a request knows at each point), `TablesOK` (types, and that
histories name sessions there are) and `SpentOK`: everything a revocation found is
ended or revived. `Kept` is the lemma every step satisfies: owner and history of a
session do not change, and what is ended or revived stays so. The two overlap properties
are instances of it. The refinement follows from what each statement does to the set
of live sessions (`AllRevoked`, `OneChanged`). `GuessesBounded` needs a count that is not
in the state: the failures recorded and the requests that have read a count too low to
lock (`Unaware`) are together, until the account is locked, at most the limit plus the
number of requests less two (`CountInv`). A request joins `Unaware` only while the count
is below the limit less one and leaves it by adding one; the one that reads the limit less
one locks. So each request beside the locking one costs one guess, and no more.

**Password reset** (`PasswordResetProofs`).

| Theorem | States |
|---|---|
| `Invariance`, `TypeCorrect` | `[]IInv`, `[]TypeOK` |
| `CodesAreSpent` | `[]CodesWorkOnce` |
| `NewerCodesReplace`, `CodesAreDead` | `[]OlderCodesDie`, `[]CodesDie` |
| `SessionsOfOldPasswords` | `[]OldSessionsOverlap` |

`IInv` is `TypeOK`, `ShapeOK` (a call stands at a step of its own kind), `ConsumedOK` (a
code that was consumed, or that a finished request for a newer one has invalidated, is
used), `ReadOK` (what a reset has found was neither when it began) and
`OldSessionsOverlap` itself.

**Browser** (`BrowserSessionProofs`).

| Theorem | States |
|---|---|
| `Invariance`, `TypeCorrect` | `[]IInv`, `[]TypeOK` |
| `OrdersNamed` | `[]OrdersInShownName` |
| `LogoutEnds` | `[]LogoutEndsSession` |
| `JarCurrent` | `[]JarIsCurrent` |

`IInv` says what each piece of memory knows of the table of sessions (`JarOK`, `PageOK`,
`CallOK`, `AnswerOK`): every grant in the jar, in a page, in the cookies a request left
with and in an answer was opened by the server, and its session belongs to the user the
piece of memory says, unless the page has adopted another's. That is stable because the
server only adds rows and ends sessions (`Grown`, `GrownCall`). `JarIsCurrent` is not
inductive: between the rotation and its answer the jar is stale. `AloneOK` adds that, until
requests that change the session overlap, one tab at most has such a request under way,
and either the jar's token is valid or the answer that replaces it is on its way.

**API client and banner** (`ApiClientProofs`).

| Theorem | States |
|---|---|
| `Invariance`, `TypeCorrect` | `[]IInv`, `[]TypeOK` |
| `SendsBounded` | `[]SendsAreBounded` |
| `MutationsOnce`, `RepeatsBounded` | `[]MutationsPerformedOnce`, `[]RepeatsAreSafe` |
| `PausesAreBrief` | `[]PauseIsBrief` |
| `BannerOnlyListens` | `BannerSpec => Spec`: the banner changes none of the client's steps |
| `BannerNeverLies` | `BannerSpec => []NeverFalselyOffline` |
| `OfflineIsShown` | `BannerSpec => []OfflineShown` |
| `ClientBesideBanner` | `BannerSpec =>` the client's properties |

`SendsAreBounded` is not inductive, for it does not say how many sends a call has left.
`RowOK` counts them: the sends of a call are at most its finished attempts times
`MaxGetRetries + 2`, plus its repetitions, its replay and the one that is out.
`PauseOK` does the same for the breaker: time passed and time left add up to the
cooldown, unless a refused call has extended it. By `BannerOnlyListens` what is proved
of the client holds beside the banner (`ClientBesideBanner`).

**Master data** (`MasterRecordsProofs`).

| Theorem | States |
|---|---|
| `Invariance` | `[]IInv` |
| `RecordsCorrect` | `[]RecordsInv` |
| `CodesClashByOverlap` | `[]ClashesOverlapped` |

That every dealer has its user stays true because two open transactions that have written
touch neither one row nor one code (`Exclusive`: the locks on rows and index entries), and
because nobody else's code is in the table under an open transaction (`CodesFree`). The
rows are written before the audit row and committed after it (`AuditedFirst`). For
`CodesClashByOverlap` a look-up that has been overtaken must still say something of the
present rows: `LookUpHolds` says that if another row has by now, and had already when the
request looked, the code the request asks for, then the request's own row had that code
too, or has been renamed since it looked. An earlier form of the property, which asked
that one of the two requests had looked before the other wrote, is false: an update that
had looked up its own code may write it again after its row was renamed and the code
taken in the other case. `MCMasterRecords` reaches that case with four requests, and the
property has an alternative for it.

**Pages** (`ScreensProofs`).

| Theorem | States |
|---|---|
| `ScreensInvariance` | `ScreensSpec => []ScreensIInv` |
| `TypedWhereItBelongs`, `DialogsKeepTheirRecord` | the dialog alone: `[]NoForeignValues` (with its exception, `strayed`), `[]DialogKeepsItsRecord` |
| `RecordsBesideScreens` | `ScreensSpec => []NoForeignValues`, with the same exception |
| `PagesAreHonest` | `ScreensSpec => []PagesInv` |
| `CartConserved` | `ScreensSpec => []Conservation` |
| `ExcessOnlyByLoss` | `ScreensSpec => []ExcessFollowsLoss` |
| `RemarksReachTheirOrder` | `ScreensSpec => []RemarksFollowCancel` |
| `DecisionsLeaveTheQueue` | `ScreensSpec => []OwnDecisionsShow` |

`ScreensIInv` has one part for each page, and a step on one page leaves the other parts.
`MastersInv` says of each place a value can be (stored, the form, the save under way:
`StoredOK`, `FormOK`, `PendingOK`) that it belongs to the record of the dialog it was typed
in; `Aimed` says it of a held save as long as no later dialog has been opened. A record in
`strayed` may hold anything, and what it holds reaches no record outside `strayed`.
`CatalogInv` balances the pieces: what is in the cart and what was submitted and may
have been ordered is together at most what was put in, and exactly that until an error has
overwritten the cart (`Balance`); `Submitted` says which submissions the server can still
handle. `QueueInv` says what remarks, decisions and the list know of the server: `ListOK`
says that a list that is read after a decision does not have the order any more, because
no decision is under way during the first request for a page and every later request is
repeated after the decision's answer.

The sums are `SumFunctionOnSet` of the community modules, which is a `CHOOSE` of a
recursive function. Its laws (`SumOfEmpty`, `SumOfFirst`, `SumWithout`, `SumAgrees`,
`SumGrows`) are proved once, by taking a smallest counterexample among the subsets of a
finite set (`Smallest`, from the library's well-foundedness of the strict subset), which
takes the place of the induction that the provers cannot instantiate.

**Amounts** (`ScreensProofs`, last section): `AmountsHold` (`[]AmountsInv`) and `RowsAddUp`
(`[]CsvAddsUp`), for any rates, quantities, discounts and number of lines. `AmountsIInv` says
that what is sent, what was recorded and the rows are computed from the same lines and from
the discount of the one approval. `NetIs` bounds one rounding by half a cent; `SharesAddUp`
adds those bounds over the lines, so the rows' sum and the net amount differ by at most half
a cent for each row and for the order.

**Process** (`ExportPipelineProofs`, last section): `ServerTypeCorrect` (`[]ServerTypeOK`) and
`ShutdownAnswers` (`[]NoAnswerCutOff`), with `ShutdownOK` (how far a shutdown is and what the
server is then).

**Only model-checked.** Liveness (`EveryRequestEnds` of intake and of master data,
`ApprovedGetsFile`, `EveryCallSettles`, `SignalEndsProcess`): the prover has no means for
fairness and ENABLED. Nothing else. No module declares a RECURSIVE operator.

## 5. What is not modelled, and what could follow

- Read-only queries (catalogue, dashboard, lists of dealers, SKUs and orders), except
  for the order list of Head Office: they change no state. Search fields, categories
  and the paging of the catalogue page go with them.
- Request schemas beyond the guards that a property needs; headers, CORS, rate limits.
- Configuration, logging, monitoring: no state that others read; the limits of
  `server/config/env.ts` are CONSTANTS.
- Landing page, shells, theme, error boundary: presentation.
- Migrations, seeds, backup, containers, CI: outside the running system.
- The text of the CSV (quoting, order of lines, dates) and of messages.
- Several server processes: queue and `inFlight` are per process. With two, tasks of one
  order could overlap, held apart by the claim's WHERE alone; the repository deploys
  one.

What could follow: `OrderIntake` and `ExportPipeline` over one Order table, and
`OrderSubmission` over `OrderIntake` in place of "placed or not"; `BrowserSession` over
the statements of `Sessions`, with the query cache.
