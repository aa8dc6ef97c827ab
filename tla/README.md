# base-shop in TLA+

A verification development of base-shop, the API of an online shop with physical stores (NestJS, Prisma, PostgreSQL).
Paths are relative to the repository. The models come from the code; the rules quoted (`BR-...`, `ADR-...`) come from
`docs/BUSINESS_RULES.md` and `docs/DECISIONS.md`.

## 1. The system

One Node process per instance of the API, several instances, one PostgreSQL database (READ COMMITTED). A use case runs
in one transaction; modules call each other through facades inside it, and tell each other what happened through domain
events stored in the same transaction and delivered after it. Scheduled jobs run in every instance. Saves are guarded
by a row lock, by a version, by a conditional update or by nothing, and which one it is decides what can go wrong.

| Component | State | Operations | Hard behaviour | What makes it correct |
|---|---|---|---|---|
| `platform/events` | `domain_events`, `event_deliveries` (status, attempts, lease) | store with the change, dispatch after the commit, retry job, settle, staff retry, cleanup | crashes between any two statements, leases that run out, two takers, a deployment without a handler | no effect lost, one taker, the last attempt never stuck, every delivery settles |
| `platform/persistence` | transaction scope, callbacks, savepoints, row locks | `run`, `runNested`, `afterCommit`, `beforeCommit` | callbacks of an undone step, circles of locks | what commits is told, what rolls back is not; circles are the known ones |
| `platform/http/idempotency` | `idempotency_keys` | claim, run, keep, release, take over, expire, forget | concurrent retries, failures between the operation and its record, operations longer than the lease | no unexplained repetition, no false answer |
| `platform/http`, `platform/auth` | the request, failed attempts in memory | authenticate, limit, authorize, answer, audit a denial | account, session and roles read in three statements | only who may reaches a handler; the limit is exact |
| `platform/jobs` | runs in progress | start, skip, stop | shutdown against the clock | a job runs alone, never after the close |
| `platform/cache`, `platform/files` | cached pages, files of imports | get, load, clear; parse | a load racing the event of a change; quoting | pages no staler than promised; rows are those of the file |
| `platform/config`, `platform/mail` | the environment | check, start, read | values that mean something else to their reader | the API runs as configured or not at all |
| `inventory` | `stock_items`, `stock_movements`, `reservations`, `warehouses`, imports | reserve, commit, release, expire, restock, receive, adjust, import, edit and deactivate warehouses | stock read before it is locked, concurrent ends of a reservation, imports that write what they computed | no oversell, no leaked reservation, complete ledger |
| `ordering` | `orders`, access links | quote, place, pay, expire, cancel, retry, hand over, restock, block, anonymize, issue links | late, repeated and reordered events racing the staff and the jobs; a checkout of many statements | money, stock, shipment, coupon and data agree with the order; orders are placed as accepted |
| `payments` | payments, refunds, settings | start, capture, cancel, refund | two cashiers, a capture racing a cancellation | collected once, refunded when owed |
| `shipping` | shipments, methods | create, dispatch, deliver, fail, return, cancel, correct | stale screens | goods in one place; edits replace what was seen |
| `promotions` | promotions, coupons and their uses | edit, end, assess, count, free | the last use, stale edits, rounding | uses are the orders that count; cents add up |
| `shopping` | carts | lines, merge, check out, restore, reorder | late and repeated events of expired orders | carts follow their orders |
| `pricing` | price periods | set, schedule, cancel, import | sequences that leave gaps or overlaps | prices as asked, the past stays |
| `catalog` | categories, products, variants, images and files, brands | edit, move, publish, upload, import | stale saves without a version, files outside transactions | a tree, one identity once published, images with files |
| `identity-access` | accounts, sessions, links, addresses, roles | sign in, renew, reset, change, suspend, grant | work between a check and a save | sessions end, power is delegated, a superadmin remains |
| `work-orders` | work orders | receive, edit, move, sell, block, anonymize | edits of a stale version | closed for good, history forward |
| `privacy` | - | anonymize on request or for inactivity | orders and work orders written meanwhile | nothing personal is left |
| `audit` | audit records, archive files | record, list, archive | crashes and late records | no record lost |
| listings of every module | - | pages, cursors, searches | rows that change between pages, blocked data | whole walks, the contact of a blocked row stays hidden |

`PROJECT.json` lists every component with its status, and the hazards line by line.

## 2. Modules

What a module takes as one action is what the code does under row locks that it keeps until its transaction ends, or in
one statement. What the code reads without a lock and uses later, and what happens in another statement or another
transaction, is another action. A definition whose comment begins with "Mutant:" is a plausible mistake in the
definition it precedes; it belongs to no specification and shows, with TLC, that a property notices the mistake.

| Module | Models | Instance |
|---|---|---|
| `Outbox` (`PlatformProofs`) | `platform/events` | `MCPlatform` |
| `Idempotency` (`PlatformProofs`) | `platform/http/idempotency` | `MCPlatform` |
| `TransactionScope` (`PlatformProofs`), `Locks` | `platform/persistence`, and the row locks of every transaction of the shop | `MCPlatform` |
| `JobRuns`, `AuditArchive` (`PlatformProofs`) | `platform/jobs`; the job that archives `modules/audit` | `MCPlatform` |
| `FrontDoor` | `platform/auth`, `platform/http` with its limiter of failures, every controller's routes | `MCPlatform` |
| `RequestBodies`, `Inputs`, `Problems` | the bodies and queries of every route with the rules of the domain behind them; the catalog of problems and the filter that answers | `MCPlatform` |
| `CsvFile`, `StartUp` (`PlatformProofs`) | `platform/files`; `platform/config` and its readers | `MCPlatform` |
| `Inventory` (`InventoryProofs`) | `modules/inventory` | `MCBackOffice`, `MCShop` |
| `StockPromise` (with its theorem), `ReservationLife` | abstract: what the inventory promises; the life of a reservation | through `Inventory` and `OrderLifecycle` |
| `OrderLifecycle` (`OrderLifecycleProofs`) | `modules/ordering` after placement, with the parts of inventory, payments, shipping and promotions it moves | itself |
| `Checkout`, `Discounts`, `Pricing`, `Promotions`, `Shopping` (`ShopProofs`) | the quote and placement of orders; totals; prices; coupons; carts | `MCShop` |
| `Categories`, `Products`, `Gallery`, `ProductImport`, `PublicCache` (`CatalogProofs`) | `modules/catalog` and the cache of its pages | `MCBackOffice` |
| `GeoCatalog` (`CatalogProofs`) | `modules/geo`: the import of states and municipalities, and the addresses that name them | `MCBackOffice` |
| `Accounts`, `StaffRoles` (`PeopleProofs`) | `modules/identity-access` | `MCPeople` |
| `WorkOrders`, `Privacy`, `GuestAccess` (`PeopleProofs`) | `modules/work-orders`, `modules/privacy`, access links | `MCPeople` |
| `Shipments`, `PaymentRows` (`PeopleProofs`), `Listings` (`PlatformProofs`) | `modules/shipping`, `modules/payments`, the listings of every module | `MCPeople` |
| `Folding` | no code: lemmas about least naturals and folds that the proofs share | - |

Four instances check many components in one run. Components that share no rows are put side by side: the variable
`about` says which of them a behavior is about, the others stay in one of their initial states, and the next-state
relation has one disjunct per component. Interactions live inside a module: `OrderLifecycle` composes orders with their
reservation, payment, shipment, coupon and events; `Checkout` composes carts, prices, promotions, stock and accounts;
`Privacy` extends `WorkOrders`; `Locks` puts the transactions of all modules together.

### Outbox

`row` is `event_deliveries`: status, `attempts`, and the minutes left until `next_attempt_at` (`wait`) and
`locked_until` (`lock`), which `Tick` counts down; relative time keeps the clock unbounded and the state finite.
`dispatch` is the background work of the instance that committed, `job` the run of `platform.deliver-events` of each
instance, `attempt` what each of them has in hand, `registered` the handlers of the code that each instance runs.
`publish` stores the deliveries with the change; `deliver` takes them one by one; `deliverDueStart`, `claimDue`,
`attemptNext` and `deliverDueEnd` are the job, with `failAbandoned` first; `handle`/`handleThrows` run the handler and
`settle` marks the row. Each has a failing variant, and `crash` loses all an instance had in hand and restarts it with
the handlers of some deployment. `retry`, `retryAll` and `cleanup` are the staff and the retention. `Prompt` says
whether attempts end within their lease (`DELIVERY_LEASE_MS`). Nothing in the code enforces it: `markDelivered` and
`markFailedAttempt` update by id alone. Without it, run `outbox_stale` shows what breaks (section 4).

### The rest of the platform

`Idempotency`: `keyRow` is `idempotency_keys`; a request is at one of the statements of the interceptor: `claim` (one
`INSERT ... ON CONFLICT`), `find`, the operation, `complete` or `release`. Every statement may fail, applied or not,
the operation may fail after its commit (`failsDone`: a lost answer of the commit, a failing read for the response),
the process may stop anywhere, `cleanUp` and `forget` delete rows, and without `PromptOperations` an operation may last
longer than `ABANDONED_AFTER_MS`. `effects` and `excuses` are history: who took effect while the key lived, and why
that could be more than one.

`TransactionScope` is one transaction with nested steps, whose writes, callbacks and events are sequences that a
savepoint cuts back. `Locks` gives every transaction of the shop as the list of locks it asks for, and lets several
take them one by one. `JobRuns` is the map of running jobs against the shutdown; `AuditArchive` one day of records, its
draft and its files. `FrontDoor` has one definition per controller, with what its routes declare, one request that
passes the guards while the account changes, and the limiter, which keeps the times of failures by key.
`RequestBodies` has the decorators of the fields of every body and query, `Inputs` follows one value of one field through
the pipe, the controller and the domain to the status of its answer, and `Problems` one key through the errors that are
kept with it. `CsvFile`
takes one turn of the loop of `parseCsv` per step. `StartUp` has a definition per group of variables of
`environment.ts`; a value is reduced to its number, its length or the parts of its path or URL.

### Inventory and the promise of the stock

`onHand`, `reserved` and `ledger` by stock item, `booking` (the last reservation of an order), `plans` (the warehouses
a reservation read and has left to try), `restocked`, `warehouse`, and what an editor or an importer has in hand.
`reserve` reads the stock and plans; `reserveAll` tries the plan with conditional updates and rolls back when one does
not fit; `commit` and `free` end a reservation; `restock`, `receive` and `adjust` move units; an import locks, computes
and writes; `UpdateWarehouse` reads a warehouse without a lock and `save` writes all of it. Two of the staff
edit at once: the save of a stale edit brings back a warehouse deactivated since (run `warehouse_edit`) or, if it read it
inactive, closes again one that another edit brought back (`ClosesAgain`), without the checks of a deactivation, so that
units stay held in it or no warehouse is active. `WarehousesServe` says that nothing else does either.

`StockPromise` states what the inventory promises without locks, plans or ledger, and `ReservationLife` the life of one
reservation as both sides see it. `Inventory` implements `StockPromise` (`KeepsItsPromise`), which implements
`ReservationLife`, and so does `OrderLifecycle` (`AsksWhatIsPromised`): what each assumes of the other is what the
other does.

### OrderLifecycle

One record per order of its status, dates, reservation, payment, refund, shipment and data, the uses of one coupon, and
`inbox`, the events stored and not yet noted as delivered. Each action is a use case with all it calls. `handle(type,
o, noted)` gives an event to its handler: with `noted` false its delivery is not recorded and it will be handled again.
Events of one order come in any order. Whether the stock suffices depends on other orders, so both answers are possible
here; `Inventory` shows what they rest on. PayPal is not enabled in this version of the code and not modelled.
`anonymize` works per order, while the code does all the orders of a buyer or none: every behaviour of the code is one
of the model.

### What sells, what the staff keeps, the people

The header of each module says what it takes from the code and what its steps are. In short: `Checkout` follows the
statements of a quote and of a placement; `Discounts` computes shares, totals and tax in whole cents and compares them
with reference definitions; `Promotions`, `Products`, `Shipments`, `WorkOrders` and `PaymentRows` are reads followed by
saves of a version; `Categories` are reads followed by saves without one; `Gallery` is rows and files with crashes in
between; `ProductImport` checks a file against a catalog that changes before the write; `GeoCatalog` plans what differs
from what it read and writes only that, two imports at a time; `PublicCache` loads while events
clear; `Accounts` runs two requests at a time, in scenarios of use cases that touch the same rows (the proof has any number, in any scenario); `StaffRoles` are two
members who manage each other; `Privacy` anonymizes while orders and work orders are written; `Listings` walks the
pages of any listing while its rows change. A blocked row is found and shown as an anonymized one: its contact is
neither searched nor shown, while the staff still filters orders by account or guest and is shown the account.

## 3. What is checked

| Run | Instance | Shows |
|---|---|---|
| `platform` | 2 instances, 1 event with 2 handlers, 2 attempts, 2 faults; 3 requests with one key; 4 writes in 2 nested steps; 3 transactions with locks; 2 jobs; 4 records; files of 1 to 4 records; every route; every variable of the environment at its edges, alone and with those it is checked with; every field of every route at its edges; an error and its retry | the properties below |
| `outbox_liveness` | 2 instances, 1 delivery, 2 attempts, 2 faults | `DeliveriesSettle` |
| `order_lifecycle` | a shipped and a store order, a coupon with one use | `MoneyForGoods`, `StockFollowsOrder`, `GoodsInOnePlace`, `CouponCounted`, `NoPoisonedEvent`, `HiddenNeverMoves`, `FinalIsFinal`, `AsksWhatIsPromised`, `EventuallyAgrees` |
| `back_office` | 2 orders of a unit, 2 warehouses of up to 2 units, so that orders share one or compete for its last unit, an import, 2 edits of warehouses by 2 editors (both while one order reserves); 2 categories; 3 variants, 2 editors; 3 images in a gallery of 2; files of 1 to 3 rows; 3 imports of 2 states by 2 operators; 2 instances with 2 pages | the properties below |
| `shop` | 2 orders of 2 variants; 2 variants with 4 price changes; 2 carts and 2 orders; a coupon with 2 orders and 2 editors; baskets of 3 lines; 2 checkouts | the properties below |
| `people` | 2 requests at a time on an account of 2 emails; 2 members and a role, one permission that manages them and one reserved; a work order, a purchase; 2 guest orders and 3 links; a shipment with 2 members; a payment with 2 requests; listings of 3 rows in pages of 2 | the properties below |

| Property | Says |
|---|---|
| `NothingLost`, `OneTaker`, `LastAttemptEnds`, `DeliveredIsFinal` | a delivery is done only if its effect happened; one runner has it; its last attempt never gets stuck; delivered stays delivered |
| `KeysAreHonest` | `AnswersTrue`, `RepeatsExplained`, `HeldByLive`, `KeptIsStable`: clients are told what happened, an operation repeats only for a reason the model names (a stop, a key lost after 60 seconds, a failure after the commit or while keeping the success), no dead request holds a key for ever, a kept answer stays |
| `TransactionsHold` | `CommitsTellAll` (callbacks and events follow the writes through nested failures) and `CirclesAreKnown` (every circular wait inverts the coupon and the stock, or creates a missing stock item) |
| `RequestsHold` | `RequestsAreAdmitted` (authority, routes, answers, audited denials), `LimitIsExact` (no failure escapes the limiter, and who waits as told is let in) and `ProblemsHold` (a kept error is answered alike, a type has one status) |
| `JobsHold` | `JobsRunAlone` and `NoRecordLost` |
| `RunsAsConfigured` | what a running API serves, keeps, erases and sends agrees with its configuration |
| `DataIsReadAsSent` | `FilesReadAsWritten` (the rows read from a file are those written) and `InputsHold` (no value of a request ends in a 500, is refused only by the domain or is dropped, but for the cases it names) |
| `ReservedIsHeld`, `NoOversell`, `LedgerAddsUp`, `WarehousesServe`, `KeepsItsPromise` | reserved units have one holder; no more is held than there is; movements add up; only a stale edit that closes a warehouse again leaves units held in an inactive one or none active, and the run has such edits; the refinement |
| `CatalogHolds`, `ImportsHold`, `CacheIsFresh` | the tree, published products and images; `ProductImportHolds` (all or nothing, exactly the files whose rows would all be accepted by hand) and `GeoHolds` (what is stored is the last file, addresses keep their municipality, the summary is the difference); pages as fresh as promised |
| `CheckoutsHold`, `AnswersAgree`, `CartsFollowOrders`, `CentsAddUp`, `PricesHold`, `CouponsHold` | orders as accepted and never all waiting; the availability shown is what a reservation would find; carts; cents; prices; coupons |
| `PowerIsKept`, `AccountsHold`, `ErasureHolds`, `WorkOrdersEnd`, `SalesHold`, `ListingsHold` | power is delegated and a superadmin remains; sessions, links and addresses; nothing personal outlives its person; closed work orders; shipments and payments; listings |

Bounds. Two faults against two attempts reach the last attempt and a crash in it; two instances and the dispatch give
three takers of a delivery. The constants of the code (8 attempts, minutes, 24 hours) only matter by their order, which
the instances keep. Two orders suffice for every conflict over stock and coupon: one wins, one loses and both end.
One permission manages staff and roles in the instance; `PowerIsAlwaysKept` covers any.
Three requests are the original, its retry and another content; `Tries` is 2 instead of 3 so that three requests use
them up. Two requests at a time on one row are all a lost update needs, and a third row is all a page boundary needs.
Every bound is a constant named `Max...` or a small set of ids, used in the guard of the action it cuts off.
`CHECK_DEADLOCK FALSE` appears where everything may have ended.

Fairness. `Outbox`: weak fairness of the clock, of the job of each instance, of the dispatch and of what is in hand,
since Node goes on with what it started and the scheduler starts the job every minute; nothing obliges the staff, the
cleanup or a fault. An instance that crashes restarts. `OrderLifecycle`: weak fairness of the job that expires orders
and of the handling of each stored event, which `outbox_liveness` justifies; nothing obliges people.

## 4. Where code and documents disagree

- `outbox_stale` (`LastAttemptEnds` without `Prompt`): an attempt that outlived its lease fails after another runner
  took the last attempt; `markFailedAttempt` clears the lease by id, and if that last attempt dies, the row stays
  PENDING, with no attempts left and no lease: neither the job nor the staff can move it. ADR-0150 says such a delivery
  goes to FAILED.
- `warehouse_edit` (`DeactivatedForGood`): an edit that read the warehouse before its deactivation saves it active,
  while ADR-0076 says it is deactivated for good. A second stale edit then closes it with units held (`ClosesAgain`).
- `order_return` (`ReturnConcludes`): `ShipmentReturned` handled before a retried `ShipmentDispatched` is dropped, and
  the order stays SHIPPED and open; ADR-0151 says it concludes when its shipment comes back.
- `idempotency_repeat` (`NotRepeated`): when keeping a success fails, or the operation fails after its commit, `catchError` frees the key as after any unexpected
  error, and the retry repeats the operation at once; BR-ORD-15 says a retry never repeats it.
- `accounts_revoked` (`RevokedForGood`): a sign-in or a renewal in progress when the password is reset leaves a live
  session; `docs/BUSINESS_RULES.md:22` says the reset revokes all of them. `AccountsHold` says that nothing else does.
- `lock_order` (`NoCircularWait`): a checkout takes the coupon before the stock and an expiry the other way round;
  `docs/BUSINESS_RULES.md:81` and `docs/DATABASE.md:810` say the order of the stock items prevents circular waits.
  `CirclesAreKnown` says which circles remain.

Smaller edges that the passing properties name and allow: a rename or deactivation of a category that read it before a
move writes the old parent back and may close a cycle, which `docs/DECISIONS.md:3026` rules out (`CyclesAreWrittenBack`);
an edit of a coupon may set its limit below the uses that orders counted meanwhile (BR-PRM-12); authentication reads
the account, the session and the roles in three statements, so a request may act with roles and a status of two
moments (`AuthorityIsFresh`); a load in progress when the cache is cleared stores the old page until it expires
(`ClearedUnlessRaced`); two imports of different geographic files at once leave a mix of both, since the entries that
the other created stay active (`CatalogIsTheFile` speaks of an import nobody wrote over); values that the pipe lets
through end in a 500 (`FailuresAreKnown` lists them: a null in the slug, name or title of a create or an edit, an ISO
week in a date range, an item that is no text in a list of unique ids); a URL of the environment with a space before `http:` passes the check that production links
are https (`environment.ts:669`, `spacedLink`), a `STORE_NAME` of spaces passes as set, and a blank `VAT_RATE_BP=`
reads as 0.

## 5. What is proved

With TLAPS, for any values of the constants that satisfy the assumption of each module.

- `PlatformProofs`, of `Outbox` (`OutboxAssumption`: finitely many instances, unique event ids, at least two attempts, positive lease).
  `TypeCorrect`; `OutboxLosesNothing` from `NothingLostInv`, which adds that an attempt that ended well applied its
  delivery, with no hypothesis on leases. `LeaseExcludes`, `LastAttemptIsHeld` and `DeliveredStays` assume `Prompt` and
  rest on `LeaseInv`: whoever has a delivery in hand holds its lease with the attempt it counted (`AttemptsHold`,
  `TodoHolds`), only a running job has deliveries to do, nothing is stored before its transaction commits, and a row
  without a lease has attempts left. `OneTaker` alone is not inductive: it must know that the row of what is in hand
  cannot be claimed.
- `InventoryProofs` (`InventoryAssumption`: shapes of the constants). `StockIsConsistent` proves `StockInv`: the four
  properties of the stock, that what an importer read is still there (`ImportReads`) and belongs to it alone
  (`ImportsApart`), that an order being reserved holds nothing (`PlansOpen`), and that the held units are finitely
  many, which counting them needs. `NeverOversold`, `EveryReservedUnitIsHeld`, `LedgerIsComplete`, `RestocksAreBounded`
  and `TypeCorrect` follow, and `InventoryKeepsItsPromise`, the refinement, step by step.
- `StockPromise`: `PromiseImplementsLife`, the refinement of the abstract specifications.
- `OrderLifecycleProofs` (`LifecycleAssumption`: finitely many orders with the coupon). `LifecycleIsConsistent` proves
  `LifecycleInv`: per order, how its money, stock, shipment and data go with its status and the events on their way
  (`MoneyInv`, `StockInv`, `ShipmentInv`, `DataInv`), and `CouponCounted`. An action changes one order; the lemmas show
  that the others are `Same` and that the coupon moves with the order (`UseMoves`). All the invariants of the run,
  `FinalIsFinal` and `OrdersAskWhatIsPromised`, the refinement of `ReservationLife`, follow.
- `InventoryProofs` also proves `WarehousesAlwaysServe` (`WarehousesServe`), for any number of editors and edits: step by
  step, a warehouse that is closed keeps holding nothing and one stays active, unless a stale edit closes one again. What
  an edit has in hand is a warehouse that exists (`EditsAlwaysExist`); nothing is assumed of how old it is.
  `ClosedWarehousesHoldNothing` draws the invariant: while no step is a `ClosesAgain`, inactive warehouses hold nothing and
  one is active. `TheAnswersAlwaysAgree` (`AnswersAgree`) needs neither: where a warehouse is active the closest one exists because
  a set of naturals has a least one (`LeastNat`, applied to what is short, to priorities and to codes). An order has
  finitely many lines (`InventoryAssumption`).
- `PlatformProofs`, of the rest of the platform (`IdempotencyAssumption`: finitely many requests, an abandoned key is taken over before it expires, and
  nothing is none of the values; `JobRunsAssumption`, `ArchiveAssumption`, `ScopeAssumption`: bounds are numbers).
  `KeysAreAlwaysHonest` rests on `KeysInv`, a count: the effects of a key and the requests that may still have one are no
  more than the row allows, which is one, and the excuses (`EffectsExplained`); the requests that believe they hold the
  key are no more than the row and the excuses (`HoldersExplained`). `RepeatsExplained` alone does not say who may still
  act. `JobsAlwaysHold` takes two specifications, since the process and the archive share no variable: the shutdown waits
  for all the runs of the map and nothing adds to them (`JobRunsInv`); a run that is about to delete exported what a kept
  file holds (`ArchiveInv`). `TransactionsAlwaysHold` joins two theorems of components that share no variable. `TransactionsTellAll` rests on `ScopeInv`:
  the marks of the open steps are nested, and each counts as many callbacks as rows. `CirclesAreAlwaysKnown`
  (`LocksAssumption`) is a proof from an order on the locks: each script of a transaction climbs (`Climbs`), that is, what it
  asks for is above all it has in hand, a plan undone by its savepoint not counted (`Ordered`, `Retained`); and rows of an order are
  locked only behind that order (`Grounded`). `LocksInv` says that a transaction holds what the part of its script behind it
  took, and that two hold one row only by shares. In a circle, whoever asks for the greatest row waits for somebody who
  has that row and asks for a greater one: only a coupon, counted before the stock by some and after it by others, and a
  stock item that somebody is creating have no place in the order. It holds for any number of transactions over
  the scripts listed in `Locks`. `AlwaysRunsAsConfigured`
  (`StartUpAssumption`) rests on `StartUpInv`: nothing leaves an API whose environment was not accepted
  (`EnvironmentAccepted`, `LeftSound`), and one that runs in production has one key (`ProductionKeyed`). That the folder
  served and the archive are where they were checked to be is an induction over the parts of a path: a resolved path has
  no `..` left. `ListingsAlwaysHold` (`ListingsAssumption`: ids are naturals and finitely many, as the columns that order
  the rows are) rests on `ListingsInv`. For a walk by cursor (`CursorSound`): what was shown is in order and behind the
  cursor, and a row that was there from the start and was not shown is still ahead of it. For pages that nothing disturbed
  (`PagesSound`): what was shown is the first of the rows, each at the place that counting the rows before it gives
  (`rank`), and how many it is follows from the page.
- `PlatformProofs`, of the requests: `RequestsAlwaysHold` joins three theorems. `RequestsAreAlwaysAdmitted`
  (`FrontDoorAssumption`: no role but the superadmin's has a permission reserved to it, which `validPermissions`
  of `role.ts` refuses, and nobody is none of the accounts) rests on `FrontDoorInv`: what was read of the account by each of
  the three statements was true at some time since the request came, and all along what is in `since.always`
  (`Reading`, `Known`); the route is one its controllers declare, and each of those asks for what its path needs, keeps
  what is somebody's and is closed to the staff where it buys (`RouteOK`, proved of every route); the keys counted, the
  answer and the denials follow (`Routed`, `Admitted`, `Handled`). `LimitIsAlwaysExact` (`AttemptAssumption`) rests on
  `AttemptInv`: the failures kept of a key are in the order of time, those still recent are the same as of all that ever
  happened, and at the time a refusal told there are fewer than the limit (`KeyOK`). What it needs of a filter by age, that
  filtering twice is filtering once, that a later filter keeps less and that a sorted sequence loses its first ones, is
  proved by looking at the failures one by one (`Sieves`, `RecentOfRecent`, `RecentAfter`). `ProblemsAlwaysHold`
  rests on `ProblemsInv`, and on that the category of every error the domain throws and the catalog of problems
  give it the same status (`DomainErrorsFit`): otherwise an answer kept by its code would come back with another one.
- `CatalogProofs`, which extends `MCBackOffice`. `CacheIsAlwaysFresh` rests on `CacheInv`: an entry or a load in progress
  is no older than the last time its instance was cleared, unless it was loading then, and keys of the cache are unique.
  `ProductsAlwaysStaySold`, an action property, rests on `ProductsInv`: an edit whose version is current read the row as
  it is, and changes it by one of the operations. `GalleryAlwaysHasItsFiles` rests on `GalleryInv`: what each upload and
  removal in progress knows of its row and its file (`ImageSound`). `ImportsAlwaysHold` (`ProductImportAssumption`,
  `GeoAssumption`) takes `ImportInv` and `GeoInv`. For products: as long as nobody changed the catalog, the errors found
  so far are those of the steps that ran (`RunSound`), the database accepts what the checks accepted (`CheckedIsAccepted`),
  and two inductions over the rows of a file show that what is built is what its rows say (`BuiltAre`) and that creating
  them one by one by hand is accepted exactly when the file has no errors (`HandIs`). For municipalities: a plan is made of
  what was read, what was read is still stored while the import is alone, and writing the plan leaves the file
  (`PlanLeavesTheFile`) and makes the difference its summary says (`PlanCounts`). `TreeAlwaysReadsAlike`
  (`CategoriesAssumption`) rests on `CategoriesInv`, which speaks of ranks in place of paths: every category can have a rank
  above that of its parent, but those whose parent was written back (`Ranked`), also after the move that holds the lock of the
  tree (`MoveFits`). Around a cycle the ranks would fall for ever (`CyclesKnown`). Following the parents ends because each
  step adds a category and there are finitely many (`LineageIs`), and both readings of what is visible are the same
  closure, on any parents, with or without cycles (`BothAgree`). With the theorems on products and galleries it makes
  `CatalogAlwaysHolds`.
- `PeopleProofs` (`StaffRolesAssumption`, `WorkOrdersAssumption`, `GuestAccessAssumption`: ids are apart, the order of the
  statuses begins with RECEIVED and ends with DELIVERED). `PowerIsAlwaysKept` rests on `StaffInv`: a fresh request says
  the truth about what it read, one request at a time holds the lock of the superadmins and leaves another one, and what
  a request is about to give is known. `ErasuresAlwaysHold` rests on `PrivacyInv` and `GuestInv`: an account that
  somebody named or is buying with is not being anonymized (`SharesHeld`), what an anonymization found is still all there
  is (`PurchasesFound`, `WorkOrdersFound`), and who issues a link holds the lock of the address (`IssuesSound`).
  `WorkOrdersAlwaysEnd` is an action property from the same invariant.
  `AccountsAlwaysHold` (`AccountsAssumption`, `NoneIsNoRow`) is the temporal property of sessions, links and addresses, for
  any number of requests at once. Its invariant, `AccountsInv`, says of the rows that tokens, links, people and books fit
  together (`TokensSound`, `LinksSound`, `PeopleSound`, `BooksSound`, `AnonymizedLeavesNothing`), and of each request in
  progress what it holds (`JobsSound`): the token or the link it locked, the rows its statement will miss, which are only
  those of a session in `raced`, and that the status it read is true while its copy is of the current version.
  `SalesAlwaysHold` takes the payment and the shipment together, which share no row (`PaymentRowsAssumption`,
  `ShipmentsAssumption`: no row is none of the rows). For the payment, `PaymentsInv`: who holds the order read its payment
  as it is, unless the refund of it was registered meanwhile (`ReadsPayment`), so a save that finds the version it read
  saves over what is there; and an order that heard of its payment is paid, and owes it back once cancelled
  (`OrderSound`). For the shipment and the method, `ParcelInv` and `MethodInv`: a page of the current version shows the
  row as it is (`SeenRow`), and the announcements are those of the status (`Told`).
- `ShopProofs` (`PromotionsAssumption`, `ShoppingAssumption`: limits are positive, a guest is no customer; `DiscountsAssumption`:
  lines cost something, a percentage is at most 100).
  `CouponsAlwaysHold` rests on `PromoInv`: a request whose version is current read this coupon (`ReadCurrent`), the
  orders with a use are finitely many and counted, and an order is late only after it expired. `CartsAlwaysFollow` rests
  on `ShopInv`: the cart of an order that may still give its lines back waits for it and for no other (`Waiting`,
  `OneAwaits`), unless one of the named excuses applies. `CheckoutsAlwaysHold` (`CheckoutAssumption`: there are prices, fees
  and requests, amounts are numbers, nothing is none of the carts and contacts) rests on `CheckoutInv`: what a checkout has
  locked is still as it found it (`Holding`) and nobody else has that lock (`LocksApart`); while nothing changed, what it
  read is what there is (`ReadsNow`) and what made its quote ready still is (`ReadyNow`). That some checkout goes on is a
  consequence: the one furthest on, of those being placed, waits for nobody. `CentsAlwaysAddUp` is arithmetic over baskets of
  any length: what is assessed is the basket there is (`DiscountsInv`), sums are functions of prefixes (`AddsUp`, from which
  they add, scale and compare), every line has a place of its own in the order of its total (`PlacesAre`), so the cents left
  by rounding down are no more than the lines (`LittleIsLeft`) and are all given away (`LeftGoes`, `AmountIsShared`), and what is
  taken back in the order of the discounts is all of the excess (`TakesBack`, `LeastIsPaid`). `BestIs` is an induction over the
  offers, and the tax of an order is within half a cent for each line and the shipping (`TaxesAre`, `TotalsAre`).
  `PricesAlwaysHold` (`PricingAssumption`: amounts are positive, a file is rows of prices) rests on `PricingInv`: the periods
  of a variant are one line without gaps or overlaps (`Timeline`), and follow what was asked for (`Follows`): each began with
  a wish, and each wish is in a period that it began, unless its instant has gone by. An import is an induction over the
  rows of its file (`FileKeeps`).

One attempt failed for a reason in the code, which three requests need and the instance of two could not show: an edit
of a role is pending while the role is emptied, granted and deleted, and its save creates the role again with the
permissions of the edit (`write` in `prisma-role.repository.ts` inserts what it does not find). `PowerIsDelegated` names that case
(`revived`) and the theorem says there is no other. Another failed on the order of the listings, whose `CASE` had two
arms for two rows without a value: it is now one condition, and so is every other `CASE` whose arms overlapped.

Folds. The theorems of the library about induction take an operator as a parameter, which these provers cannot
instantiate. What a fold computes is proved without them, in `Folding`: a function on the naturals that steps as the fold
does exists because a least natural without one would not be least, and two such functions agree for the same reason. `RecursionExists` is the same for a function defined from its last value.

Only model-checked: the liveness properties (`DeliveriesSettle`, `EventuallyAgrees`), since fairness and ENABLED are
beyond this prover; and `DataIsReadAsSent`, whose two parts are computations and not interleavings: a parser against the
text of a file, and the fields of requests, which are finitely many and which TLC tries one by one.

## 6. Plan

Every other property of the passing runs has a theorem. What is next: the pages that visitors read, as one component of
their own with the search index behind them.

## 7. Not modelled

- The texts of emails (`modules/notifications`), which keep no state that others rely on.
- The shapes of answers, the documents of the API, module wiring, logging, and the mapping of rows to views, except
  what hides personal data (`Listings`).
- The drafts of product descriptions (an external service) and the search index of products, refreshed from the rows.
- The PayPal provider, until the code enables it; the counters of `@nestjs/throttler`, a library.
- The tests (`*.spec.ts`, `*.int-spec.ts`), which were read for what they say of the code.
