# Formal model of the POS terminal

TLA+ modules, TLC runs and TLAPS proofs for the till in `src/`: a Rust
application that rings up sales, keeps them through power cuts and lost
connections, and exchanges them and its catalogue with a platform over HTTP.
What follows names the parts of the program, says which module models which
part and how, what every run shows within which bounds, what is proved, and
what is not modelled.

## 1. Inventory of the program

The workspace has the crates `pos-api` (the client), `pos-db` (SQLite),
`pos-models`, `pos-services`, `pos-printing`, `pos-escpos`, `pos-updater` and
the binary in `src/src`. The binary wires the sign-in; the other services are
library components, started by whoever embeds them.

| Component | State it keeps | Operations | Hard part | What makes it correct |
| --- | --- | --- | --- | --- |
| Offline sales queue (`offline_service.rs`, `db/transactions.rs`) | table `offline_transactions`: status, retries, `last_retry_at` | `queue_transaction`, `process_queue`, `cleanup_synced` | the drain decides on a snapshot, awaits, then writes; answers get lost; writes fail and are logged | a paid sale is never lost; SYNCED is never false; every sale is settled in the end |
| Transaction service (`transaction_service.rs`) | the current sale in memory, receipt sequence | build a sale, `complete`, `void_transaction`, shift totals | the row is stored before the call, the answer comes after anything | a completed sale has a row before anyone is told |
| Conflict service (`conflict_service.rs`) | none of its own | `retry`, `discard`, `retry_all`, `discard_all`, `force_sync` | writes over a list it read before | a manager's decision hits what he saw |
| Synchronisation (`sync_service.rs`, `db/sync_state.rs`) | etags, `last_sync`, the cached catalogue, operators and features | `run_sync_cycle`, `sync_all`, `force_full_sync`, session renewal | several transactions per answer, foreign keys, two notions of "now" | the till is behind only while a change is due; the cycle always comes round |
| Sign-in (`ui/sign_in`, `driver.rs`, `main.rs`) | phase on screen, outstanding enquiries, the answer channel | `advance`, `apply`, `send`, `answers`, `abandon` | tasks beside the frame loop; enquiries with effects | one enquiry of a kind at a time; the screen tells the truth; no endless spinner |
| Pairing (`pairing_service.rs`) | `terminal_registration`, `terminal_config`, the client's token | request a code, poll it, register, log in, save | token, registration and configuration are separate writes | the session presented is the session stored |
| Authentication (`auth_service.rs`, `operator_sign_in.rs`) | terminal session, operator session in database and client | login, restore, verify a PIN, sign in and out | two places for one session; renew and retry once | memory and store agree; a PIN is judged once |
| Shared drafts (`shared_draft_service.rs`, `draft_service.rs`, `draft_sync_queue.rs`) | drafts and their sync queue | save, park, recall, convert, delete, replay | a crash while SYNCING, ids that change, replayed creation | a draft is neither lost nor doubled nor raised from the dead |
| Shifts, Z report (`shift_service.rs`, `z_report_service.rs`) | the open shift, cash movements, day closures | start, close, movements, end of day | check-then-write around an await; cash expected kept in memory | one open shift; the day's figures add up |
| Returns (`return_service.rs`) | returns and their items | start, add items, complete | several returns of one sale | never more returned than sold |
| Cart (`cart_service.rs`) | lines, discounts, active cart | add, change, discount, totals | rounding | totals are the sum of the lines |
| Policy and heartbeat (`policy_service.rs`, `platform_heartbeat_service.rs`) | the policy in force, last contact | refresh, heartbeat | stale policy after a restart | the newest policy wins |
| Client (`pos-api/src/client.rs`, `failure.rs`) | tokens, base URL | HTTP calls, classes of failure | a 401 means four different things | each refusal is read for what it says |
| Updater (`pos-updater`) | installed release, backups | download, install, roll back | a crash between delete and copy | a bootable release at every moment |
| PIN entry (`pin_entry.rs`, `pin.rs`, `refusal_details.rs`) | digits typed, the rule carried, the notice shown | press, correct, submit, read a refusal | a code and a figure that may contradict each other | what the pad says of a PIN is what became of it |
| Operators (`operators.rs`, `operator.rs`) | table `operators`, the roster on screen | synchronise, read, seat | two transactions, two synchronisations at once | nobody removed lingers, nobody holds more than was granted |
| Navigation (`ui/navigation.rs`, `feature_service.rs`) | the screen shown, features and their screens | open a screen, a feature, the next one | several reads of a library that is replaced meanwhile | what is shown is open, what is refused is refused for the reason given |
| Schema, migrations (`schema.rs`, `migrations.rs`) | the tables, `schema_version` | fourteen versions | killed between statements | a recorded version is applied whole |
| Row projection (`projection.rs`, `column.rs`, `connection.rs`) | rows, an open transaction, the guard | declare, insert, read, batch, cascade | order of columns, keys that exist | what was told to be written reads back |
| Products (`products.rs`, `product_service.rs`) | products and their full-text index | save, delete, search | triggers that `INSERT OR REPLACE` does not fire | what is on the shelf is found, and nothing else |
| Printing, ESC/POS (`pos-printing`, `pos-escpos`) | the printer's modes, the bytes sent | receipts, reports, drawer, preview | a document torn at any byte | paper shows what was built |
| Scale (`hardware/scale.rs`) | port, status, last reading | read, reconnect, tare, zero | a line without its head, or without its end | a reading was weighed |
| EMV, screens, formatting, log, QR, support and system services | - | canned answers, pixels, files | encoding, not order | outside this project (section 8) |

How they interact. A sale completed at the drawer writes a row and calls the
platform itself; the polling loop of the synchronisation service later drains
the same rows, and a manager acts on those the platform contests. All calls
present a terminal session (renewed by the synchronisation service or the
sign-in) and some an operator session (retired by the drain when it is
declined). No service holds a lock across an await; they meet in the database,
whose mutex covers single statements or transactions.

The list `hazards` of `PROJECT.json` names what a test would hardly reach, at
the line where it bites.

## 2. Modules

| Module | Models | Role |
| --- | --- | --- |
| `SaleCustody` | what the till owes for a paid sale | abstract specification |
| `OfflineQueue` | the queue, the sale that fills it, the drain, the conflict service, void, crashes, the platform's ledger | detailed specification; implements `SaleCustody` |
| `OfflineQueueProofs` | - | the theorems about `OfflineQueue` |
| `MCOfflineQueue` | - | symmetry for TLC |
| `SignIn` | the sign-in fold, the driver and its tasks, pairing codes, restarts | detailed specification |
| `SignInProofs` | - | the theorems about `SignIn` |
| `MCSignIn` | - | for TLC |
| `CatalogSync` | the cycle, catalogue by delta or in full, operators, features, session renewal | detailed specification |
| `CatalogSyncProofs` | - | the theorems about `CatalogSync` |
| `MCCatalogSync` | - | a nested category with a product, for TLC |
| `SharedDrafts` | drafts shared between tills, their queue and its replays, the platform's carts | detailed specification with fairness |
| `SharedDraftsProofs` | - | the theorems about `SharedDrafts` |
| `MCSharedDrafts` | - | for TLC |
| `TillDay` | shifts, the rows rung in them, Z reports and the closing of a day | part of the day |
| `TillCart` | the cart and its copy on disk, carts held and carts parked | part of the day |
| `Checkout` | the current transaction, receipts, completed sales and their returns | part of the day |
| `Printing` | documents as builder calls and bytes, the printer's device, the preview | part of the day |
| `PrintingProofs` | - | the theorem about `Printing` |
| `StaffRoster` | operators, their synchronisation, the roster and who is seated | part of the day |
| `Navigation` | features, screens and the navigator | part of the day |
| `MCTillDay` | - | composes the six for TLC |
| `DayProofs` | - | the theorems about the other five parts of the day |
| `PinAccess` | a PIN verified with its renewal, the operator session in its two places | part of the terminal |
| `PinPad` | the keypad, what a refusal says, the notice | part of the terminal |
| `PinProofs` | - | the theorems about `PinAccess` and `PinPad` |
| `Heartbeat`, `SecurityPolicies` | errors reported to the platform; policies refreshed and judged by | parts of the terminal |
| `Updater`, `Migrations` | the launcher's update; the versions of the schema | parts of the terminal |
| `Enrolment` | hardware id, registration, licence, wipe | part of the terminal |
| `ScaleReader` | lines, parsers, the port and its handle | part of the terminal |
| `StoredRows`, `ProductIndex` | rows as declared, written and read; the search index | parts of the terminal |
| `MCTerminal` | - | composes the ten for TLC |
| `TerminalProofs` | - | the theorems about the other eight parts of the terminal |

Definitions called `Slip...` are mistakes the code could have made; they are
not part of any specification and exist to show that a property notices them.

### OfflineQueue

State and code: `row` is `offline_transactions` (`st`, `retry`, and `backoff`
for "last_retry_at is too recent"); `sold` are the sales whose `complete` or
`queue_transaction` wrote their row; `calls[c]` is what a caller awaits;
`todo[d]` is the snapshot a drain still has before it; `manager` is a
`retry`/`discard` between its look and its writes; `session` is the operator
session presented. `ledger` and `late` are the platform: the endpoints that
recorded a sale, and requests nobody waits for any more.

Each HTTP call is three steps (sent, handled, read), each database write one.
`Complete` stores and sends, `CompleteReads` writes what `PlatformSync::of`
says; `DrainBegin` reads the batch, `DrainSend`, `DrainReads`,
`DrainUnauthorized`, `DrainSetsMax` and `DrainMarksFailed` are the arms of
`process_queue`; a permanent failure is two writes, as in the code.
`ManagerLooks`/`ManagerWrites`, `ForceBegin`/`ForceReads` are the conflict
service. `Written` lets any of the logged writes fail. `Crash` keeps only the
database; a request on the wire may still arrive (`LateArrival`).

The `void` call the code spawns is left out because its route refuses the
till's credentials and the result is dropped. Waiting and back-off are times
in the code and one flag here; the ceiling of ten and the batch of fifty are
constants.

### SaleCustody

For every sale somebody answers: the till keeps it, the platform has it, or a
manager waived it. The refinement maps `kept` to the rows waiting or in
conflict, `taken` to `sold`, `recorded` to the sales with a ledger entry.

### SignIn

`phase` is `AuthPhase`; `tasks`, `slot`, `channel` and `arrived` are the
spawned tasks, `AuthDriver.outstanding`, the channel, and the answers of the
current frame. `Starts` is the task's one look at its abandon flag. The
operations of `perform` are `RestoreSession`, `RequestPairingCode`,
`PairingStatus` followed by `SaveConfig`, and `LoadOperators`; the arms of
`advance` are the actions folded by `Fold`; `Retry` is the intent. `client`,
`config`, `held` and `presented` are the token of the client, the stored
terminal session, the stored operator session and whether the client presents
it. `PinEntry` is not among the phases, since nothing in the program enters it
from here.

### CatalogSync

`clock` counts the changes of the platform's catalogue and doubles as its
version; contents are abstracted to the moment of their last change. `local`,
`held`, `etag`, `since` are the tables and `sync_state`. Each transaction of
the code is an action: delete products, delete categories, each category, all
products, the bookkeeping. Foreign keys are modelled, since they decide
whether a write succeeds: a category needs its parent (`SaveOrphan` is the
insertion in the wrong order), a deleted category must be empty
(`DropCategories`). `WriteFails` is what `?` does: a delta falls back to the
full download, a full download ends `sync_all`. `SyncFails` is the error arm of
`run_sync_cycle`: renew once when the session lapsed, else give up.
`OpensBook` reads etag and `last_sync` once for both attempts, as the code does.

`missed` and `torn` are history: the changes that fell between an answer and
its bookkeeping, and a full replacement that began and was not recorded.

The calls of the service are made one at a time in the runs; two that overlap
(a manual call beside the polling loop) are listed as a hazard and planned.
The categories the code derives from products when a response has none are
taken to be those of the response. The drains of the two queues are one step,
since their failures do not travel; the sales drain is `OfflineQueue`.

### SharedDrafts

`cache` is `shared_drafts`, `queue` is `draft_sync_queue` with its status and
retries, `carts` are the platform's. `work` holds what the desk (save, list,
recall, convert, delete) and each drain are doing; every call is sent, handled
and read in three steps, every write is one. A draft saved offline has a local
id until its creation is replayed; an operation queued under the local id stays
under it, as in the code. `Crash` leaves items `SYNCING`, which nothing reads
back: `stranded` remembers them.

### The till's day: TillDay, TillCart, Checkout, Printing, StaffRoster, Navigation

`MCTillDay` and `MCTerminal` compose modules whose parts do not share state: a
behaviour chooses one `part` in its initial state, that part moves by its own
next-state relation and the others keep their initial values. The states are
the sum of the parts, not their product, and every invariant is evaluated in
all of them. Parts with shared state are one module (`TillDay` holds four
services over one database), so that no interleaving within a part is lost.

* `TillDay`. `shifts`, `rows`, `reports`, `closures` are tables; `current` and
  `preview` are the services' memory, `clerk[t]` a call between two of its
  steps. `StartChecks`, `StartWrites`, `PlatformOpens`, `OpenRecorded` are
  `start_shift` in order, the number a shift gets (`ShiftNumber`) being the next
  of its date; `CloseShift` and `CloseEnds` are `close_shift`; `CanCloseDay`,
  `TakeReport`, `SaveZReport`, `MarkDayClosed`, `ReportEnds` are the closing. The
  report is computed from one reading of the tables and saved later.
  There are two dates: `day.here` is the till's, by which reports are asked for
  and days closed, `day.utc` the one shifts and rows are stamped with; `NextDay`
  and `NextDayOfUtc` are the two midnights, `East` their order. A row is kept
  with what it was; the sums of a report (`DayTotals`) are the rows that add to
  them, which is none: the type, the total and the tender are columns that no
  write fills, so a report counts sales and gives no takings.
* `TillCart`. Amounts are computed as the code does, with an item's tax inside
  or on top of its price, line and cart discounts, and the floor at nothing;
  prices are chosen so that rounding does not arise. A line carries its own
  figures, computed (`Priced`) when the line is changed and not otherwise. A
  change takes the lock, then persists without it (`Changes`, `Persist`); a
  failed save or delete is only logged (`NotWritten`), and a row may be
  unreadable after a crash. `SaveCart`, `Recall`,
  `Rename`, `DeleteDraft`, `CleanupExpired`, `Expires` are the drafts of one
  till; `ParkCart` to `VoidParked` the parked carts and their soft lock. A parked cart
  comes back at the figures of the platform's answer, which the till copies and
  does not compute again (`FromAnswer`, `FromParked`); `Conventions` are the two
  readings the platform may have of an amount off a line: per unit, or of the
  whole line.
* `Checkout`. `Complete` takes a receipt number and writes the row, then awaits
  with nothing held; `CompleteEnds` clears whatever transaction is current by
  then. Returns find their sale by a receipt number, are validated entry by
  entry and stored as rows of their own.
* `Printing`. A document is the list of calls `PrintService` makes (`Calls`,
  the receipt's for `Bought` items and `Tendered` payments), `Bytes` what the
  builder turns each of them into, `Buffer` and `NextByte` the way through what
  `build` returns, `Takes`, `Obeys` and `EndsLine` an ESC/POS printer; a
  document may be torn at any byte. `Shows` is the console's way of skipping
  commands. Words and widths are abstracted to a letter and a figure. A line is
  `Seen` unless it is blank, a code when it is printed; `Figures` are the lines
  in two columns.
* `StaffRoster`. `profiles` is the platform's list with an edition, `staff` the
  table, `round[c]` a synchronisation between its steps (`AskRoster`,
  `HearRoster`, `DeactivateAll`, `SaveOperators`, `RecordRoster`).
  `Permissions` and `Converts` are the conversions, `LoadOperators`,
  `PinAccepted` and `PinOffline` the readers. `torn` and `crossed` are history:
  the table is between its two writes, or two rounds were.
* `Navigation`. `state` and `screens` are the library, `errand` a call between
  two of its reads. `NavigateTo`, `NavigateToFeature`, `NavigateNext` enter
  through `Check`, `NameOwner`, `FindEntry` and `FindNext`, each under a lock
  of its own; `SyncFeatures` may replace the library in between.

### The terminal: PinAccess, PinPad and eight more

* `PinAccess`. `verify_pin`: asked, judged, read; one renewal of the terminal
  session, then asked again; silence leads to the offline leg. `Record` and
  `Present` are the session's two places on the way in, `ClearSlot` and
  `DeleteRow` on the way out, as a call under it (`jobs`) reads a refusal.
* `PinPad`. `keyed` are the keys pressed, `typed` the buffer under the rule the
  till carries; `Details` and `Refusal` read a code and its figure; the screen
  offers a retry at cost, one that is free, or nothing.
* `Heartbeat`. The count and the list of errors are two cells; `Tick`, `Report`,
  `BeatAnswered`, `ClearCount`, `ClearList` are one beat; `Start` and `Stop`
  may leave two loops.
* `SecurityPolicies`. `FromDeclared` reads a value against its type, `Verdict`
  and `Reading` are the questions. Figures are counted in halves, so that some
  are not whole; `Narrowed` is the conversion to an unsigned number, which
  refuses a negative or too large one and drops a fraction. `Ask`, `Answer`, `Store`, `Stamp` are a
  refresh with its two locks.
* `Updater`. Backup, fetch, extract, restore, clean up and launch, file by file;
  a kill or a failure at any file; two launchers. `nested` is a backup
  directory inside the installation, as `main.rs` has it.
* `Migrations`. The statements of the fourteen versions and the row that records
  each, every one committed by itself; a start from any released version.
* `Enrolment`. The hardware id, the registration, the licence and the wipe,
  statement by statement, with the foreign keys that may refuse one. Pairing is
  three steps, the registration, the login's answer and the configuration
  (`PairingCompletes`, `LoginAnswered`, `SaveConfig`), and a synchronisation two
  (`AskRows`, `SaveRows`); the wipe runs beside them. `SignsIn` leaves the
  operator's session, a table the wipe does not name.
* `ScaleReader`. A line may lose its head to a timeout, or its tail to the end
  of the port, when it is parsed as it is; units, an unknown or missing one being
  read as kilograms; the three parsers; the port, its clone for commands, the
  status.
* `StoredRows`. A declaration gives the columns of a select and of an insertion;
  `declared` ranges over orders of the fields and over what a table does with
  a key that exists. `promise` is the abstract store it is compared with.
* `ProductIndex`. `INSERT OR REPLACE` runs only the insert trigger and gives a
  new row number; numbers are reused. `SmartSearch` is barcode, index, LIKE.

## 3. Runs

| Run | Question | Result |
| --- | --- | --- |
| `queue` | is every waiting sale settled, does a declined session cost nothing, does a written-off sale stay so | holds |
| `queue_concurrent` | is a sale ever lost, is SYNCED ever false, with two checkouts, two drains, a forced upload, failing writes, a crash, a late request | holds; implements `SaleCustody` |
| `queue_replays` | is only an unanswered sale replayed, as `platform_sync.rs` says | no |
| `queue_starves` | is every sale settled when the written-off rows fill a batch | no |
| `sign_in` | single flight, truthful screen, no endless splash, an approval is noticed | holds |
| `sign_in_two_polls` | is one pairing poll running at a time, as `driver.rs` says | no |
| `sync` | is the till behind only by the two known gaps; do lists and queues come round | holds |
| `sync_stale` | does every item come right in the end | no |
| `drafts` | is a shared draft in one place, is what the operator was told true or owed, does every queued operation settle | holds |
| `day` | eight questions about a till's day, one per part or two (section 4) | hold |
| `terminal` | twelve questions about what surrounds the sales (section 4) | hold |
| `wipe_leaves_session` | does a finished wipe leave nothing of the former company | no |

The five runs answered "no" end in the violation they expect: each checks what
a comment of the code says, and TLC shows the code doing otherwise. `wipe_leaves_session`
has the constants of `terminal` and asks of every table what `EnrolmentIsClean`
asks of those the wipe names. They are
described under `findings` in `PROJECT.json`, with what was seen while modelling
and no run was spent on; there the finding names the definition that has the
behaviour and the property that makes an exception for it.

Bounds, and why they are enough:

* `queue`: two sales and a batch of two (the batch holds every sale, which is
  what `EverySaleSettles` needs), a ceiling of one retry (the first failure
  reaches it), one fault of any kind anywhere, one request left on the wire,
  one sale that may be voided. The ceiling and the batch are compared, never
  computed with, so larger ones add waiting and no new order.
  `WrittenOffIsNotSent` is about one drain, as its theorem says: a second one
  decides on its own older snapshot and may send the sale once more.
* `queue_concurrent`: one sale, since callers meet only in a row; two counters,
  two drains, one forced upload; every logged write may fail; symmetric in
  counters and drains. The theorems lift it to any number.
* `queue_starves`: a batch of one with two sales, the smallest where a dead row
  keeps a live one out.
* `sign_in`: five tasks, two presses of "try again", one failed call, one
  restart; enough for an abandoned task beside its successor.
* `sync`: a category in a category with a product; two changes at the platform
  (the product and then its category may go, which the delta cannot apply); one
  fault of any kind, a crash among them, at any step.

* `drafts`: one draft, two drains, two carts and two queue slots (a creation
  and what ends it), a ceiling of one retry, two faults of any kind, among them
  a drain that overlaps another. Two drafts meet only in the queue's order, and
  a batch takes both slots.
* `day`: two clerks, hands, tellers or rounds wherever calls may overlap, one
  more than a check-then-write needs; two shifts, two reports, two events
  (sales, midnights, restarts) so that a late close meets a new shift and a
  cached report a new day. The midnights of the till and of UTC are events of
  their own (only the former counted), the till's first (`East = TRUE`; the
  theorems have either order). A report is previewed while no closing is under
  way, and then taken from the cache by one; two products, one with tax inside its price; one held
  cart allowed and two ids, so that the limit can be passed; five calls on a
  cart, four where it is rung up, since that part has the most kinds of change; two sales and two returns with three receipt numbers; two documents in
  sequence, a receipt of two items and a payment (the theorem has any number of
  each); three editions of the roster, so that an older list can be saved
  over a newer, and of one operator only whether he is there and active changes; two edits of the screen library and one failed read. The held
  carts are filled with single pieces and cart discounts only; the other changes
  are in the part that rings up.
* `terminal`: two calls under a session, two sessions, two PINs and two troubles
  (enough for a refusal of the first session read under the second); two loops
  and three errors against a list of two; two versions and three refreshes,
  bounds of a figure that are negative, not whole and too large; two
  launchers, two files and two mishaps; three kills of a migration; two
  companies and five changes (paired, signed in, wiped, killed, paired again);
  three lines of the scale, two weights; two calls on a table; three writes of products, which is what
  it takes to reuse a row number (two saves of one product in a batch, its
  deletion, another product); PINs of two and three digits, three keys, three
  entries, one hitch.

`sign_in`, `drafts`, `day` and `terminal` stop legitimately (the screens wait
for a person, the bounded parts run out of calls), hence `CHECK_DEADLOCK FALSE`
there and in the runs that share their constants. `day` has 1.3 million states, `terminal` 2.5
million.

## 4. Properties

Each property is stated where it is defined, with its exceptions: where the
code leaves a gap open, a history variable records that the gap was used, and
the property holds of every behaviour that did not use it. An exception is a
claim too: it says that this is the only way.

Queue, sign-in, synchronisation. Safety: `NoSaleLost`, `SyncedMeansRecorded`,
`SingleFlight`, `ScreenTellsTheTruth`, `StaleOnlyByTheGaps`, `ListsAsClaimed`.
Steps: `SessionRefusalCostsNothing`, `WrittenOffIsNotSent`, `KeepsCustody`
(refinement). Liveness: `EverySaleSettles`, `SplashEnds`, `ApprovalIsNoticed`,
`ListsCatchUp`, `SalesAreDrained`. `SingleFlight` leaves the pairing poll out,
because the code does not keep it there: that is the run `sign_in_two_polls`.
`StaleOnlyByTheGaps` names the two gaps it admits, and `sync_stale` shows that
one of them is for ever.

Drafts. `DraftInOnePlace` (a saved draft is kept, and doubled only by a replay),
`ToldIsTrueOrOwed`; liveness `OperationsSettle`.

The other parts have one invariant each, a conjunction of named statements:

| Invariant | Its parts |
| --- | --- |
| `ShiftsAreKnown` | one shift open; it is the one in memory; a closed one is left; sales name their shift by the platform's id |
| `ReportsAreWhole` | a closed day has its report; a fresh report counts each row of the till's day that UTC gives the same date, but one rung after its shift was closed; it states no takings |
| `CartIsCurrent` | the sums are those of the lines; a line is priced by its quantity and discount, or still at the platform's figures; the disk has the cart when nobody is at work, but for a note, an overtaken delete, a failed write, an unreadable row |
| `CartsPutAside` | a held cart is kept, given back once, within the limit (two saves or recalls at once excepted), at its price; a plain parked one too at its price, and held by one till unless forced or unheard |
| `CounterAccounts` | money taken is accounted for; a receipt finds its sale; no more is returned than sold but by naming a line again |
| `PaperIsTrue` | a document prints as built whatever was torn before it; the drawer was asked for; the preview shows the figures |
| `RosterIsTrue` | the active operators are one published list; nobody holds more than was granted; the roster can be read; "inactive" was said by the platform |
| `NavigationIsHonest` | a refusal is true; the menu opens; what is shown is open; a feature opened is enabled |
| `PinIsJudged` | at most one renewal; no more is charged than was wrong; the till judges offline only after silence about the PIN |
| `SessionsAgree` | a session seen refused is not presented again, and memory and disk agree, unless a delete failed or was not reached, a write failed, or a sign-in crossed a sign-out |
| `HonouredIsKept` | (steps) an honoured session leaves the slot only at a restart or by the late refusal of an older one |
| `PadIsHonest` | the count is the platform's; a length is shown to who proved the PIN; a dead end is real; the right PIN is not charged |
| `HeartbeatIsHonest` | every error is reported, listed, pushed out, or was recorded while a beat was under way; without such errors count and list agree and HEALTHY carries none; one loop, but for one started before the former ended |
| `PoliciesAreHeld` | only what the document permits is allowed; a count is within its bounds but for a dropped fraction; the hash names what is held unless refreshes crossed |
| `UpdateIsWhole` | what is launched is one release, unless the launcher was killed while writing, could not restore, or ran twice; one alone has a way back until then |
| `MigratedIsWhole` | what is recorded is applied; the PIN hash stays gone; no start fails |
| `EnrolmentIsClean` | the tables the wipe names and the session presented are the company's, unless an answer came beside the wipe or the till was paired anew; so is the licence, but for a late one; one identity, but for two first calls |
| `ScaleIsTrue` | a reading was weighed and in the unit sent, but under the generic protocol, for an unknown unit, and for a line the port's end cut; a command reaches an open port |
| `StoreKeepsItsPromise` | what was told to be written reads back, whole, by any order of the declaration |
| `SearchIsTrue` | what is on the shelf is found and nothing else, but under a word that was written over |

Some exceptions are promises of the code that it does not keep: the row of a cart
that stays behind a failed write, an error recorded during a heartbeat, the hash
after refreshes that crossed, words written over, the rows between the two
midnights, a fraction read as a count, the takings of a report. Each is a
finding; the property says that there is no other case. The operator's session
that a wipe leaves is stated as a property of its own, `NothingLeftBehind`,
which a run refutes.

The `Slip` definitions of a module are the mistakes its invariant was tried
against; `mutants` lists the one kept per property, the others break the
remaining conjuncts.

## 5. Fairness

* Queue: an HTTP call ends (the client has a timeout), the polling loop starts
  pass after pass (`start_polling`), back-off elapses, links come back, an
  operator signs in again. Nothing is assumed of the manager, of checkouts or
  of the platform's verdicts.
* Sign-in: the runtime runs every task; a posted answer requests a repaint, so
  the window settles and folds. Nothing is assumed of the person or of the
  approval.
* Synchronisation: a call under way proceeds; the polling loop gets its turn
  however many manual calls come (strong fairness, since in the model they are
  serialised); links come back; in a full download no category comes before
  its parent for ever, because the order of a Rust `HashMap` is random per map.
  Nothing is assumed of the login a restart needs: the liveness properties stop
  at `Adrift`, a till without a token or disowned.
* Drafts: every synchronisation runs `process_sync_queue`, and a call it makes
  ends; weak fairness of the drain, of its calls and of their handling. Nothing
  is assumed of the desk.

The day and the terminal state safety only: their loops are the person's, or
are covered above.

## 6. Proofs

Every invariant and every action property the passing runs check is a theorem,
for every value of the constants; the six liveness properties are not. The
theorems rest on the assumptions the modules state of their constants
(`QueueAssumption` and its like), which TLC evaluates in every run, and three
of them on a hypothesis of their own, named below. No invariant of section 4 is
inductive as it stands: each speaks of the tables and the screen, and what
happens next depends on a call that read something before. Everywhere the
strengthening says what each stage of a call still knows: "what a caller at this
stage holds was true, and is still true or is excused". A proof has one lemma
per action and a last one per next-state relation.

**The queue** (`OfflineQueueProofs`): `TypeCorrect`, `NothingIsLost`,
`SyncedIsTrue`, `ImplementsCustody` (the refinement of `SaleCustody`),
`DeclinedSessionIsFree`, `WrittenOffStaysOff`.

`NoSaleLost` is not inductive: a row may be about to be marked SYNCED by a
caller that read "ok". The inductive `IInv` has four parts: `TypeOK`;
`StoredBeforeSent`, that the platform, the wire, the callers, the snapshots and
the manager know of sold sales only; `OkMeansRecorded`, that an "ok" some caller
holds is true; and `RowsAnswer`, that a row leaves the till's keeping for the
platform or by waiver only. Each action then leaves a row alone, moves it within
the states in which the till keeps it, or marks it SYNCED on the strength of
such an answer. `WrittenOffStaysOff` adds `DeadStay` (a sale written off stays
over) and `NotAgain` (no snapshot and no call of the drain has it), under the
hypothesis `OneDrain`. The hypothesis is needed and the code does not enforce
it: nothing keeps `sync_all` from draining beside the polling loop, and a second
drain sends what its older snapshot still holds.

**Sign-in** (`SignInProofs`): `SignInTypes`, `SignInFliesSingly`,
`SignInTellsTheTruth`. `SignInInv` says that a slot is held until its delivery is
settled and that a kind other than the poll has no task outside its slot
(`Slots`); that a task polls for a code and saves a session that were issued
(`Grounded`); and which answers may be under way at all (`Credible`): an operator
restored is presented, a session is opened only when nobody is signed in.

**Synchronisation** (`CatalogSyncProofs`): `SyncTypes` for any number of callers;
`SyncStaleOnlyByTheGaps` and `SyncListsAsClaimed` under `OneCaller`, since two
callers do write an older answer under a newer tag (section 8). `BookInv` says of
every stage of an answer's writing which items are already as the answer has
them and which are still `Left`; `ListInv` says the same of the lists.

**Shared drafts** (`SharedDraftsProofs`): `DraftKeptAlways`, `ToldAlways`. The
core of `DraftInv` is an account: `Paid` bounds the carts of a draft, the
creations under way and those that may still come by one and the replays;
`Tried` bounds the retries of an item by those of the drains that hold it. Both
are sums of cardinalities, and an action moves a creation from one term to
another.

**Shifts, roster, navigation** (`DayProofs`): `ShiftsKnownAlways`, `ReportsWholeAlways`,
`RosterTrueAlways`, `NavigationHonestAlways`. `DayInv` is `ShiftsInv` (calls know
their shift; of two starts at once one is excused by history) and `ReportsInv`
(a report taken has what its reading saw; a day marked closed has its report
saved). What is proved of a report is which rows it counts, and that it states
no takings for them, since nothing its sums look at is ever written. `StaffInv` says that what a round is about to save was published, and
that a permission written and read again grants the same. `NavInv` says what
each read of the library established for its errand. Proving `ReportsAreWhole`
found two mistakes in the model of `TillDay`, since corrected: a shift was numbered by its
place in the table instead of within its date, and a report was computed and
saved in one step.

**The counter** (`DayProofs`): `CartIsCurrentAlways`, `CartsPutAsideAlways`,
`CounterAccountsAlways`. `CartInv` and `WholeInv` say of carts on the counter, on
disk, held, parked and in a hand that their sums are those of their lines, and
that a line has the figures of its quantity and discount unless it came with the
platform's; `OnDisk` that with nothing left to persist, and none of the `Lapses`
in the history, the disk has the cart. A parked cart keeps its price if it is
`plain`: the same figures then come of the platform's answer. `CountInv`
says which number and which money belong to which row, and `ReturnsBounded` that
each return brings back at most what was sold per entry. The totals are
recursive functions over sets; what they give is proved by taking a least set
for which it fails (`NatLessThanWellFounded`), after a lemma that the recursion
defines a function at all.

**Printing** (`PrintingProofs`): `PaperTrueAlways`, from `ReceiptAssumption`
alone (items and payments are counted by naturals). `PaperIsTrue` speaks of a
document when its last byte is out; the proof says what holds before every byte.
A document is led through stages, one before each of its calls and one at its
end: a stage names the modes the printer must be in, whether the console still
skips a byte or has taken a command's bytes for text, and the cuts and pulses
made and owed. `Fits` says when a call may be made at a stage, `After` where it
leads, `Leads` that a list of calls leads from one stage to another; lists of
calls are joined by it, and so each part of each document is led from where the
one before it ends; items and payments, however many, stay at one stage.
`PrintInv` says that printer, paper, drawer and console are where the stage of
the call in hand has them, as far as the byte reached (`PaperOK`, `DrawerOK`,
`PreviewOK`). That whatever was torn before does no harm comes from the first
stage, which asks nothing of the modes: every document begins with `init`, and
after it they are the same whatever they were. The exception the invariant
names, a printer left inside a command, is carried as `job.clean`.

**PINs** (`PinProofs`): `PinJudgedAlways`, `SessionsAgreeAlways`, `HonouredKept`
(an action property) and `PadHonest`. `PinInv` carries what the properties say
of the outcome and of the slot back to the answers, calls and writes under way.
`PadIsHonest` speaks of the screen alone, which the next answer replaces;
`PadInv` adds `ReplyFits` (an answer on the wire agrees with what the platform
found) and `Kept` (the digits in the buffer, and the PIN sent, are the keys
pressed, or the first of them where the pad was full).

**The terminal** (`TerminalProofs`), one theorem and one invariant per part:

| Theorem | What its invariant adds |
| --- | --- |
| `ScaleTrue` | `ScaleInv`: a line with the fields its protocol counts, and not cut, is one that was sent, and what is left of a cut one is no more; a handle needs the port |
| `EnrolmentCleanAlways` | `EnrolInv`: a wipe under way has emptied the tables before its place; with no gap noted every row, the session and the licence are the registered company's; at most one asker has an id in hand, and only while none is stored |
| `HeartbeatHonestAlways` | `HeartInv`: how far the count and the list may differ at each stage of a beat |
| `PoliciesHeldAlways` | `PolicyInv`: the policy in force is the reading of a published document; between its two locks a refresh is alone or has crossed another |
| `UpdateWholeAlways` | `UpdaterInv`: what is on disk at each file of a backup, an extraction, a restoration |
| `MigratedWholeAlways` | `MigrationInv`: some version is applied with all before it, and the first statements of the next, which is all a kill can leave |
| `SearchTrueAlways` | `IndexInv`: a row and its words agree unless it was written over; a row number is one product's, the next is above all |
| `StoreKeepsAlways` | `RowsInv`: inside a transaction the journal is what was promised and the store what is hoped for |

`StoreKeepsAlways` rests on `ReadsBack`: for each of the orders in which the
three fields may be declared, a value written and read through the declaration
is the value, because the cursor stands where each field's columns begin
(`Taken`, `PartsOfThree`) and no two fields have a column in common
(`FourColumns`).

Only model-checked:

* Liveness: `EverySaleSettles`, `SplashEnds`, `ApprovalIsNoticed`,
  `ListsCatchUp`, `SalesAreDrained`, `OperationsSettle`. They rest on fairness,
  thus on ENABLED, which is out of the prover's reach.
* That the two catalogue theorems hold only of one caller, and
  `WrittenOffStaysOff` only of one drain, is a hypothesis and not a result: with
  two, the properties fail for the reasons given above.

## 7. Plan

Written and checked: all of section 2. Proved: section 6.

To prove next: action properties that say more than the invariants do of single
steps.

To model next: a second caller of the catalogue synchronisation, which writes an
older answer under a newer tag; an abstract "mirror" of the catalogue that
`CatalogSync` implements outside its gaps; the update service of the running
till.

## 8. Not modelled

* Rendering, layout, formatting, sentences of notices, widths and padding of a
  receipt, images: no state, no order.
* The EMV service, a stub with canned answers.
* Log files, QR codes, support and system services: they write or read once and
  keep nothing another component relies on.
* The HTTP exchange, JSON bodies as such, TLS: only the classes of answer and of
  failure the callers tell apart are kept.
* `update_service.rs`, which asks, downloads to a temporary file and keeps a
  flag; the launcher is modelled.
* Two callers of the catalogue synchronisation at once (`CatalogSync` has one);
  the hazard at `sync_service.rs:765` says so.
* A till west of Greenwich in TLC's runs: they have `East = TRUE`, the proofs
  leave it open.
* The platform, wherever the code does not say how it behaves: it answers within
  the classes the client accepts.
* Services that no production code starts (the navigator, the print and product
  services, the PIN entry phase) are modelled as their tests and interfaces use
  them.
