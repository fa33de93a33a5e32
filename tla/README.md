# A TLA+ model of AIMS

AIMS keeps an organisation's hardware and software licenses: who holds what,
how many seats a license has left, and an audit log that open pages follow
live. It is an ASP.NET Core server with Entity Framework on SQL Server
(`src/AIMS`), and scripts in the browser (`src/AIMS/wwwroot/js`). Every web
request runs on its own thread of control with its own `DbContext`; requests
meet only in the database, in a process-wide cache stamp and in the SignalR hub.
There are no application locks: correctness rests on unique indexes, on one
optimistic concurrency token (`Software.RowVersion`) and on the order of the
statements between two `await`s. That is what these modules are about.

## 1. Inventory

| Component | State | Operations | What has to be right |
|---|---|---|---|
| Seat service (`SoftwareSeatService`) | license row (`LicenseTotalSeats`, `LicenseSeatsUsed`, `RowVersion`), assignment rows | assign, release, three attempts each | never oversold, one seat per user, counter in step with the rows, audited, answers |
| Software records (`SoftwareController`, `SoftwareUpdateService`) | the same license row | add, bulk add, edit, archive, unarchive | charge within total, archived means unassigned |
| Assignment endpoints (`AssignmentController`) | assignment rows, `Hardware.Status` | create, close, agreement files | one open assignment per asset, capacity |
| Hardware records (`HardwareController`, `HardwareAssetService`) | hardware row | bulk add, edit, archive, unarchive | status tells the truth, archived means unassigned, no duplicates |
| Audit log, server (`AuditLogQuery`, `AuditLogApiController`, `AuditEventBroadcaster`, `AuditLogHub`) | audit rows keyed by `ExternalId` | upsert, broadcast, poll, latest | one row per event, pushed only after it is saved |
| Audit log, page (`auditlog.index.js`) | rows shown, `sinceCursor`, `seeded` | poll, fall back, push, reconnect, visibility nudge | nothing lost, nothing skipped, newest details |
| Caches (`CacheStamp`, `AssetsApiController`, `SummaryCardService`, `Paging`, thresholds) | stamp, cached lists and counts | read through, invalidate | no stale list after a change |
| User directory (`AdminUsersApiController`, `AdminUserUpsertService`, `OfficeQuery`) | users, offices | upsert, refresh, edit, archive, unarchive | one row per directory user, archive state consistent |
| User administration page (`admin.index.js`) | search box and toggle, rows, the fields of two dialogs | search, add, edit | the rows are current, nobody is added twice, the button comes back |
| Search page, request wrappers (`search.index.js`, `search-intercept.js`, `aimsFetch.js`, `global-spinner.js`) | registry of answers and its copy in the session storage, working set, filters, toggle, requests under way, spinner | search, prefetch, toggle, filter, reload | the table is the answer, archived rows stay hidden, the spinner goes away |
| Seat dialogs (`seatModeModal.js`, `assignAssetModal.js`, `unassignAssetModal.js`) | the fields of the dialogs, the chosen agreement | open, pick, submit | the rows follow the database, the dialog offers what its asset has |
| Asset intake forms (`add-hardware.js`, `add-software.js`) | items entered so far, saved progress | enter, edit, check, submit | nothing is stored twice, nothing is missing |
| Reports (`ReportsController`) | report rows | create, download | the selection |
| Other page scripts (asset details, home, dashboard settings, summary cards, reports) | none that outlives a handler | load, lay out | - |

How they interact: the seat service is called by `SoftwareController`
(assign, release) and by `AssignmentController.Close`; `AssignmentController.
Create` writes software assignments *without* it. All of them call
`CacheStamp.BumpAssets` after a save and `CreateAuditRecordAsync` after that.
`CreateAuditRecordAsync` saves the audit row and then pushes it to the SignalR
group; the page merges pushes with what it polls. User archiving hides the user
from every query that does not ask for archived rows, including look-ups inside
the other operations.

A page is one thread, so its handlers interleave only where they `await`, but a
handler that is waiting does not stop the user from starting the next: the
answer comes back to a page that may have moved on. The dialogs are single DOM
elements that all their handlers write to; the search page hears of a change
through custom events (`seat:updated`, `assign:saved`, `unassign:saved`) and
patches the row instead of reading it again. `aimsFetch` joins requests for one
address and lets a caller abort them.

What is hard to test: steps of two requests between two `await`s; a save
whose acknowledgement is lost and which the retrying execution strategy runs
again; a conflict and retry; a request that dies between its save and its audit
record; answers and pushes that arrive in another order than they were sent;
values that were checked and are stale when written. The list, line by line and
with the properties that cover each entry, is `hazards` in `PROJECT.json`.

## 2. Modules

| Module | What it is |
|---|---|
| `SeatLedger` | abstract: who holds a seat of a license and how many are charged, one atomic step per request |
| `SeatService` | the seat service and its two endpoints, one step per query or save |
| `SeatServiceProofs` | theorems about `SeatService` |
| `SoftwareLicense` | extends `SeatService` with the edit, archive, unarchive, create and close endpoints on the same rows |
| `SoftwareLicenseProofs` | theorems about `SoftwareLicense` and `AssetList` |
| `AssetList` | extends `SoftwareLicense` with the cached asset lists that its endpoints invalidate |
| `HardwareLease` | abstract: one asset is with nobody or with one user, and changes hands by coming back first |
| `HardwareAssignment` | the five endpoints that write one hardware row and its assignments |
| `HardwareAssignmentProofs` | theorems about `HardwareAssignment` |
| `AuditFeed` | audit upserts, user archiving with its own rows and pushes, polling endpoints, and one page that merges both channels |
| `AuditFeedProofs` | theorems about `AuditFeed` |
| `AssetIntake` | the two bulk wizards over the duplicate check and bulk-add endpoints |
| `AssetIntakeProofs` | theorems about `AssetIntake` |
| `SeatModals` | the row icon, the seat mode, assign and unassign dialogs, and the events that patch the row |
| `SeatModalsProofs` | theorems about `SeatModals` |
| `SearchPage` | searches, registry, toggle, filter, reloads and spinner of the search page |
| `SearchPageProofs` | theorems about `SearchPage` |
| `AdminPage` | the user administration page over the user endpoints |
| `AdminPageProofs` | theorems about `AdminPage` |
| `MC...` | symmetry sets for the model checker, nothing else |

### SeatService and SeatLedger

One license suffices: every query of the service is filtered by `SoftwareID`.
`sw` is the row, with a version number for `RowVersion`; `owner[i]` and `open`
are the assignment rows in identity order and those not closed; `req[r]` is a
request, with the label of its next statement and the locals it carries over an
`await` (`used`, `total`, `ver` are the tracked entity, `row` the assignment).
`AssignRead`, `AssignCount`, `AssignAlreadyOpen`, `AssignSave` are the
statements of `AssignSeatAsync`; `ReleaseRead`, `ReleaseFind`, `ReleaseSave`
those of `ReleaseSeatAsync`. `AssignCommit` and `ReleaseCommit` are the database
transactions: an insert or an update of the assignment and, *if a column
changed*, an `UPDATE ... WHERE RowVersion = @version` of the license. Entity
Framework omits the unchanged row, which matters for the release at count zero.
A commit and what follows it are separate steps, as there is an `await` between
them: `Bump` is the continuation that runs `CacheStamp.BumpAssets`.
`SaveConflict` is `DbUpdateConcurrencyException` with its retry,
`AssignDuplicate` the unique index. `SaveLostAck` is a commit nobody hears of,
after which the execution strategy repeats the save. `WriteAudit` is the call
that follows the save, and may fail because the actor or the license is hidden
by then. `Cancel` ends a request anywhere.

`SeatLedger` lets a grant charge a seat, a release give it back, and allows the
two things the code really does besides: a holder leaves and the seat stays
charged (`Leak`), and a seat charged for nobody is given back (`Reclaim`). It
has no step that lets holders exceed the charge.

### SoftwareLicense

The record endpoints are requests of a second kind (`adm`). An edit validates
against the row it read and writes the columns that differ from it, with the
version check. Archive looks for the open assignment, then saves. The generic
create endpoint checks double opens for hardware only, inserts a row and does
not touch the license row, so no version moves. `CloseAssignment` hands over to
the release of the seat service. Each bumps the stamp after its save
(`AdminBump`).

### AssetList

The search endpoint reads the stamp into its key, looks for the number of rows
and the page under that key, asks the database for what it does not find, stores
it, and fills the open seats of licenses into the rows it has in hand, which are
the cached ones too (`ListBegin`, `ListLookUp`, `ListQuery`, `ListStore`,
`ListHydrate`, `ListFill`). `lists` is every page ever read, cached or not,
since requests go on using one that was replaced or has expired; `commits`
counts the changes of the license, and a number of changes stands for what a
query has seen. One query text and one page: the key holds both, so other texts
and pages never meet this one. The cached number of rows is left out, the wait
for it is not (between `ListBegin` and `ListLookUp`).

### HardwareAssignment and HardwareLease

One asset. The row has no concurrency token, so each request carries what it
read and what it wants (`Entity`), and a save writes the columns in which the two
differ (`SaveEntity`), whatever the row holds by then. Status is the four texts
the operations write or an edit may choose.

### AuditFeed

A number, the order of `DateTime.UtcNow` readings, stands for the time stamp
and for the content of a save. `log` is the table, `committed` a history variable
of the versions it has held. A post reads the clock before it saves, as the code
does. Administrators archive and unarchive one user (`Account`): the flag is saved
first (`SaveFlag`), then a row of the log with a time read in between
(`StampChange`, `SavePost`), then a push goes out that is *not* that row but one
with the user's id and the time of the push (`Message`). While the user is
archived the events it was the actor of (`acts`) are missing from every window,
after they have taken their places in it (`Hidden`, `CutOff`): `Take` comes
before the join with the users, which has a query filter. `pushes` is the ordered
SignalR connection of one page. `fetch` holds two requests of the page, the timer's
and a nudge's (visibility, reconnect), each asked, answered from the table of that
moment, and received in any order. Names of the page's variables (`seen` as
`shown`, `sinceCursor` as `cursor`, `seeded`) are its script's. The 30 days the
cursor starts back are older than everything in the model.

`missed` is a history variable: the events the page has been given a reason to
miss, each at the step that gives it. An event is saved with a time not later
than one that had gone out (`newest`); a window leaves it out because it is full
or because the actor is archived; or a push moves the cursor past it.

### AssetIntake

A behaviour is that of a page on which one of the two wizards is used (`kind`).
`items` and `count` are the script's, `review` says that the submit button is
shown, `saved` is what `localStorage` holds. `click[c]` is a handler of Next or
Submit that waits: for the check of one item, for the check of the batch, for
the server. The server validates against the rows that are not archived
(`Accepted`) and saves in a second step, where the unique index sees all of them
(`UniqueSerial`). Serial numbers and tags are numbers; the serials of devices are
entered one at a time or, with automatic tags, afterwards with the pencil. The
answer to a handler meets the list of that moment: it may have been started
anew, loaded from the saved progress or shown for review already.

### SeatModals

`open` is the assignment table, `row[a]` what the cell of asset `a` shows, and
`assign`, `picker`, `file`, `unassign` the fields of the dialogs. A handler of
`assign:open` or `unassign:open` is a `task` between its awaits; so is a
submission. The endpoints are the atomic operations the other modules establish
(`HardwareLease`, `SeatLedger`): what happens inside them is the matter of
`HardwareAssignment` and `SeatService`. A user who has a seat of a license that is
not full is answered as of a success, without the id of an assignment (`Seated`);
the page then tells the table, closes the dialog and keeps the chosen file
(`SeatKept`). `row` changes as the events change it, by number or by name, and is
never read from the server again.

### SearchPage

A query finds four assets, one of them archived, two on the first page and two on
the second; `MAX_CLIENT_CACHE` may be reached before or within the second. `store.entries`
is `CACHE`, a `Map` that is written to the session storage on every change, so
one copy stands for both; `store.saved` is the toggle in `localStorage` and
`store.snapshot` the saved filters. `page` is the query, the checkbox (`box`) and
the script's copy of it (`archived`, which `applyFiltersAndRender` sets from the
box), the Type filter, and three flags: `boot` (`_bootArchiveGuard`), `restored`
(`restoredFiltersApplied`) and `fresh` (`_justDidFreshSearch`). `view` is the
working set and the rows. A `task` is a call of `fetchInitial` that waits for its
first page or for the rest; what it does with the answer is computed from the
page of that time, as the code does. `Render` is `applyFiltersAndRender` with its
order kept: the rows are selected with the filter as it was, then the filter is
adjusted to what the rows offer, then both are saved. Pages after the first are
one step, since they only add to the working set, as many of their items as there
is room for (`RestAnswered`). `shared` is the entry whose array the working set
is: turning the toggle off stores the filtered array and goes on using it
(`handleShowArchivedChanged`), so that what is pushed afterwards is in both.
The working set is a set: items that overlapping searches push twice count once
against the cap.

### AdminPage

`db` holds the status and office of each person, `table` the rows, `search` the
one request of the search that is not aborted and the answers that wait for the
spinner's minimum time, `form` and `edit` the dialogs. The dialogs' requests are
`task`s: suggestions from the directory, the check whether a person has a row,
the addition, a change of status or office. Each request and its effect on the
database are one step when the answer arrives, or one that fails with the effect
or without. Bootstrap's backdrop keeps the table out of reach while a dialog is
shown (`NoDialog`).

## 3. Runs

| Run | Instance | Shows |
|---|---|---|
| `seat_service` | 2 users, one may be archived, 2 requests, 1 seat, 2 attempts, 2 rows, 1 fault, fair | types, `SeatsNeverOversold`, the inductive invariant `SeatInv`, `AuditComplete`, refinement of `SeatLedger`, every request answers |
| `seat_drift` | 1 user, 2 requests, 3 attempts | *violated*: the counter equals the open rows |
| `software_license` | 1 seat request, 2 record requests, 2 record requests in all, totals up to 2 | charge within total, one seat per user, no grant commits on an archived license |
| `asset_list` | 1 seat request, 1 record request, 2 list requests at once, 2 in all, 1 seat | a list shows every change committed before the latest `BumpAssets` ahead of its request |
| `hardware_assignment` | 2 users, 2 requests, 1 row (a create already under way may add a second), 1 fault, fair | one open assignment, truthful audit, refinement of `HardwareLease`, every request answers |
| `audit_feed` | 2 events, 2 writers, 2 posts or changes of a user, window of 1, 1 fault | what is shown was saved before, no row disappears, and nothing up to the cursor is missing without one of the four reasons |
| `audit_delivery` | 2 events, 1 writer, window of 2, 1 fault, pushes, fair | every event reaches the page unless it has such a reason not to |
| `asset_intake` | 2 devices, batches of 2, 2 waiting handlers, 2 edits, saves, failures or changes by others | no serial number or key is stored twice; the submit button is shown only when every item is entered |
| `seat_modals` | 1 asset, 1 license of 2 seats, 3 users, 2 handlers, 1 hasty click, 1 failure or change by another | for a user who waits: the rows are what the database holds, the unassign dialog offers open assignments of its asset |
| `seat_agreement` | the same with 2 users | *violated*: the chosen agreement is for the asset the dialog is open for |
| `search_page` | 2 queries with 3 or 4 items each, a cap of 3, 2 searches at once, 1 hasty click, 2 failures, expiries or page loads, fair | archived rows stay hidden; the registry holds answers of its keys and the table the whole answer or as much of it as the cap lets in, for a user who waits; the spinner goes away |
| `admin_page` | 2 people, 2 offices, 2 requests at once, 1 careless click, 1 failure | for a user who waits: rows are current and nobody is added twice; whatever happens, the button comes back |

The violated ones are disagreements between the code and what its own
documentation or comments say; `findings` in `PROJECT.json` quotes the lines. In
short:

* a release that read the count at 0 does not write the license row, so it
  escapes the version check, and the count can stay ahead of the open rows;
* an agreement that was chosen and not uploaded is still in the dialog when it is
  opened for another asset, and is uploaded for that one.

### Bounds, and why they suffice

Races here are between two requests: a third can only repeat what one of the two
has done already, which the rows and the version record. `MaxRows` stops new
assignments, not requests: a create that has passed the check while the other
has too still inserts, so a bound of one row already has two requests racing for
the first assignment, and with two or three rows an asset or a seat is assigned,
released and assigned again while the other request is still on its way.
`MaxRetries` is the code's 3 in `seat_drift` and 2 in the larger runs, where the
retry loop is entered, left and exhausted all the same. Three users in
`seat_modals` want two seats, so that a license can be full and be asked for
more. One seat in `seat_service` makes every grant a grant of the last seat,
which is where the capacity check matters; the proofs of section 4 cover every
total, and `software_license` has totals of 1 and 2. `MaxFaults` of 1 puts a
lost acknowledgement or a cancellation at every point once. `MaxEdits` and
`MaxTotal` bound the record requests and the numbers they ask for. In
`AuditFeed`, `MaxTime` bounds the readings of the clock, by posts and by changes of
the user: two suffice for a pair saved out of order, for a row and a later
one that cuts it off a window, and for a user archived before or after an event of
its own. `Take = 1` makes the window smaller than the table; `audit_delivery` has
room for two, so that events are delivered that were not the latest, and one
fault, which is a failing fetch, a dropped connection with its messages, or a
writer that dies. `MAX_CLIENT_CACHE = 3` is more than the active answer's first
page, equal to the active answer and one less than the whole. In `asset_list` one
change of each kind races with two list requests, which is what sharing an entry
takes; `ListsKeepUp` (section 4) is for any number.
`CHECK_DEADLOCK FALSE` is set where record and list requests run out (`MaxEdits`,
`MaxReads`) on an archived license and nothing is left to do; elsewhere deadlock is checked.
Requests, hardware users and writers are interchangeable (in `software_license`
the users too, as nobody is archived there and the acting user is like the
others), so symmetry is used for them in runs that check safety alone; so are
the users, people, offices and waiting handlers of the page modules.

On a page the hazard is a click made while an earlier one is still under way.
`MaxHaste` counts these clicks, and properties "for a user who waits" are about
the behaviours with none: they are what the code promises to somebody who lets
each answer arrive, and several of them fail for somebody who does not (section
5). One hasty click puts any action into any gap of any other, and needs two
tasks; a third task can only repeat one of them, as the spinner, the working set
and the dialogs keep no record of who wrote them. Properties that hold however
hasty the user is (`ArchivedStayHidden`, `SpinnerGoesAway`, `ButtonComesBack`,
everything in `AssetIntake`) are checked with it. Clicks are not bounded while
nothing is under way. `MaxEvents` counts what nobody on the page decides: failed
requests, expired entries, changes by other administrators, and on the search
page reloads and visits; two of them let an entry be lost or left half filled
and be met again after a reload. Two queries and two people are the query (or
person) asked for and the one the page has moved on to; in `AssetIntake` two
devices give a duplicate and a last item.

### Fairness

`SeatFairSpec` (`seat_service`) and `HwFairSpec` (`hardware_assignment`) assume weak fairness of the steps of every
request in progress: the server keeps running a request that has begun. Nothing
is assumed of arrivals, users, faults or archiving. `FeedFairSpec`
(`audit_delivery`) assumes that
the poll timer fires again and that a request sent is answered or fails and its
answer is received; the script sets the next timer after every outcome. Nothing
is assumed of pushes, which may stay on their way for ever: events must reach the
page by polling.
`SearchFairSpec` (`search_page`) assumes weak fairness of each search under way: the browser settles every
request, with an answer, an error or an abort, and runs the continuation.
Nothing is assumed of clicks, page loads or expiry.

## 4. Proofs

Every invariant and every action property of the passing runs, and the two
refinements, are theorems here: the runs show them on one instance, the theorems
for every value of the constants that satisfies the named assumptions of the
module.
In each proof one lemma per action shows that the inductive invariant
survives it; the theorems put them together.

### SeatServiceProofs

From the two assumptions of `SeatService`, for any users, requests, totals,
attempts and bounds:

| Theorem | Statement |
|---|---|
| `SeatTypeCorrect` | `SeatSpec => []SeatTypeOK` |
| `SeatInvariant` | `SeatSpec => []SeatInv` |
| `NeverOversold` | `SeatSpec => []SeatsNeverOversold` |
| `AtMostOneSeat` | `SeatSpec => []OneSeatPerUser` |
| `AuditTellsAll` | `SeatSpec => []AuditComplete` |
| `ServiceImplementsLedger` | `SeatSpec => ImplementsLedger` |

`SeatsNeverOversold` is not inductive: whether a save keeps it depends on what
the request read two statements before. `SeatInv` adds `SnapshotSound`: if the
version a request read is still the row's version, its copy of the count and the
total are the row's; an assign has seen a free seat; a release that will write
the row either still closes an open row or the counter is ahead already (the
release at zero closed it without moving the version). With it, an assign that
passes the version check charges one seat below the total and opens one row
(`AssignCommitCounts`), and a release gives one back and closes a row or has one
to spare (`ReleaseCommitCounts`). Every other step leaves the seats alone, and a
request that does not move keeps a sound snapshot because versions only grow and
a step without a new version only closes rows (`UnmovedSound`, `LocalStep`).

`OneSeatPerUser` follows from the unique index alone (`AssignCommitRows`). For
the refinement, `RowsInv` joins the two with the constant total: an assign that
commits is `Grant`, a release is `Revoke`, `Leak`, `Reclaim` or a stutter
(`AssignGrants`, `ReleaseRevokes`), and no other step changes the rows
(`RowsStep`).

`AuditComplete` follows from `AuditInv`, which says of every row that it has its
record or somebody who owes it, as long as the actor cannot be archived. The
debt is created by the very step that changes the row and is paid by the same
request, which between the two cannot retry, because a retry follows a save that
did not commit; and the look-ups of `WriteAudit` find the actor and the license,
since no operation of this module archives the license.

### SoftwareLicenseProofs

From the same assumptions and those of `SoftwareLicense` and `AssetList`:

| Theorem | Statement |
|---|---|
| `LicenseTypeCorrect` | `LicenseSpec => []LicenseTypeOK` |
| `NeverChargedBeyondTotal` | `LicenseSpec => []ChargedWithinTotal` |
| `OneSeatOnEveryPath` | `LicenseSpec => []OneSeatPerUser` |
| `ArchivedLicenseGrantsNothing` | `LicenseSpec => NoGrantOnArchivedLicense` |
| `ListTypeCorrect` | `ListSpec => []ListTypeOK` |
| `ListsKeepUp` | `ListSpec => []ListsShowSettledSeats` |

`SeatInv` is not an invariant any more: the create endpoint opens rows that
nobody charged, and an edit sets the counter. What remains is `ChargedWithinTotal`
and, for its induction, what a request has read: `SeatSnapshot` (a seat request
with the row's version has the row's count and total, room for one more if it
assigns, and a license that is not archived) and `AdminSnapshot` (a record
request with the row's version has the row, and an edit about to save has
validated its numbers). A save with an old version fails, so only the columns of
the present row are ever combined with what an edit writes. The action property
follows from the same invariant: archiving moves the version, so a grant that
read before it conflicts.

`ListsShowSettledSeats` is about one request, but lists are shared: another may
store the entry it finds, or write chips into it that were read long ago.
`ListInv` therefore speaks of keys. Whatever is kept under the key of a request,
and whatever other requests with that key have read and not yet written, is new
enough for it (`NewEnough`); so is what is kept under the present stamp, for the
requests to come. A step that bumps the stamp makes that hold at once, because
nothing is kept under a stamp that has not been (`LicenseStepLists`); a step of a
list request, because it writes what was read under the key it writes to
(`ListsKept`). This is where it matters that the key is built before the query.

### HardwareAssignmentProofs

From `HardwareAssumption` and `NumbersAssumption`:

| Theorem | Statement |
|---|---|
| `HwTypeCorrect` | `HwSpec => []HwTypeOK` |
| `OneOpenAssignment` | `HwSpec => []OneOpenPerAsset` |
| `AuditNeverLies` | `HwSpec => []AuditIsTruthful` |
| `EndpointsImplementLease` | `HwSpec => ImplementsLease` |

`HwTypeOK` needs to know that a create under way has looked its user up
(`CreatesHaveUsers`). `OneOpenPerAsset` is inductive with it: the unique index
lets a create in only when no row is open, and every other save closes. A step
therefore hands the asset out, takes it back or leaves it (`CreateHandsOut`,
`UpdateTakesBack`). `AuditIsTruthful` says nothing of records still to be
written; `RequestsTruthful` adds that a request about to write one works on a
row that exists and, unless it created it, is closed. Rows are never reopened
(`NeverReopened`), so that stays true while the request waits.

### AuditFeedProofs

From the assumptions of `AuditFeed`, for any events, writers, window and
faults, with both channels:

| Theorem | Statement |
|---|---|
| `FeedInvariant` | `FeedSpec => []FeedInv` |
| `FeedTypeCorrect` | `FeedSpec => []FeedTypeOK` |
| `ShownWasPersisted` | `FeedSpec => []ShownWasCommitted` |
| `PageKeepsRows` | `FeedSpec => RowsAreKept` |
| `NothingSkippedUnseen` | `FeedSpec => []NothingSkipped` |

`FeedInv` adds to `ShownWasCommitted` the same of what is on its way: pushes in
the connection and items of the answers under way are versions that were saved,
or come after a change of the user that was (`SentCommitted`), and a post under
way has read the clock (`PostsTimed`). `RowsAreKept` needs the types of what is
merged: no version is 0, and merging only adds rows or rewrites them.

`NothingSkipped` has no hypothesis: `missed` says for each event what would make
it false. It is inductive with `ReachInv`. `WithinNewest` says that no cursor,
present or under way, and no row is later than `newest`, so an event saved with a
later time is not behind any of them. `Complete(e)`, for an event that is not in
`missed`, says of every request under way that whatever its answer sets the
cursor to, the event is on the page by then, is in the answer, or is later; and
the same of the cursor itself. Answers may come in any order and set the cursor
back; that does no harm, because everything a smaller cursor stands for is shown
already and rows are kept.

### AssetIntakeProofs

From the assumptions of `AssetIntake`, for any serial numbers, counts, handlers
and bounds:

| Theorem | Statement |
|---|---|
| `IntakeInvariant` | `IntakeSpec => []IntakeInv` |
| `IntakeTypeCorrect` | `IntakeSpec => []IntakeTypeOK` |
| `NoSerialStoredTwice` | `IntakeSpec => []StoredSerialsUnique` |
| `ReviewIsOfCompleteBatch` | `IntakeSpec => []ReviewMeansComplete` |

The rows stay unique because the save compares with all rows, archived ones too,
and because the batch it saves has passed the check of the endpoint: `NoBlankSaved`
keeps of that check what the save needs. `ReviewMeansComplete` is inductive with
the types because every handler that shows the button compares the list of that
moment with the count of that moment, however late its answer is; a new batch
starts without the button, and the pencil leaves the length alone.

### SeatModalsProofs

From `ModalsAssumption`, for any devices, licenses, seats, users, handlers and
bounds:

| Theorem | Statement |
|---|---|
| `ModalsInvariant` | `ModalsSpec => []ModalsInv` |
| `ModalsTypeCorrect` | `ModalsSpec => []ModalsTypeOK` |
| `RowsSayWhatServerHolds` | `ModalsSpec => []RowsFollowServer` |
| `DialogOffersOpenAssignments` | `ModalsSpec => []OffersOpenAssignments` |

Both safety properties speak of moments with no handler at work, so neither says
what a handler may rely on in between. `ModalsInv` does. Whatever anybody does, the
user of the assign dialog is the selected one and a device has one holder (`Base`).
For a user who waits (`Solo`): one handler is at work; the row of an asset is
right unless a handler has changed the asset and not patched the row yet
(`Behind`); the dialog offers open assignments until the submission closes one;
and each handler knows, label by label, its asset, the holder it added or
removed, and the count it will put into the row (`Knows`). The patch of a license
subtracts one from what the row says, so `Knows` fixes the row at one more than
the cardinality of its holders; `HolderAdded` and `HolderRemoved` carry that.

### SearchPageProofs

From `SearchAssumption`, `CapAssumption` and `EntryAssumption`, for any queries and any number of
searches under way:

| Theorem | Statement |
|---|---|
| `SearchTypeCorrect` | `SearchSpec => []SearchTypeOK` |
| `ArchivedRowsStayHidden` | `SearchSpec => []ArchivedStayHidden` |
| `WaitInvariant` | `SearchSpec => []WaitInv` |
| `RegistryHoldsAnswers` | `SearchSpec => []EntriesAreAnswers` |
| `TableShowsAnswerUpToCap` | `SearchSpec => []TableIsAnswerUpToCap` |

The first two are parts of one invariant, `SearchIInv`. The toggle is held back
while `page.boot`, and `SearchTypeOK` says that a search runs then; that is
inductive only with `TasksOK`: as long as the toggle is held back, the search that
started with the page is one of those under way. `Render` is where rows change
(`RenderIsSafe`): it sets the script's copy of the toggle from the checkbox
before it selects, so the rows never outrun the box. Every other step that
touches the box empties the table (`FetchIsSafe`) or happens during the boot.

The others are about a user who waits. `Waiting` says that the one search under
way was asked for the query and the toggle the page shows now, that its working
set is what its stage has brought, and that the working set and every entry are
part of the answer for their keys. It needs no luck: it survives failures, expiry
and page loads, and gives `EntriesAreAnswers`. `Untroubled` is what holds besides as
long as none of these happens: an entry is whole unless its search still loads the
rest; the answer without archived rows is stored before the one with them can be
asked for, so the entry derived for the toggle is never new; the Type filter
selects something of what is visible, or rendering would leave the table empty
once; and with nothing under way the page shows the answer up to the cap (`UpTo`).
While a search of this user waits for its pages, the working set is no entry's
array, so nothing is pushed into an entry of another key.
`EntryAssumption` says that the value for "no entry" is not an entry, which is
how `Map.get` tells them apart.

### AdminPageProofs

From `AdminAssumption`, for any people, offices and requests:

| Theorem | Statement |
|---|---|
| `ButtonAlwaysComesBack` | `AdminSpec => []ButtonComesBack` |
| `NobodyIsAddedTwice` | `AdminSpec => []NoExistingUserIsAdded` |
| `PageInvariant` | `AdminSpec => []PageInv` |
| `AdminTypeCorrect` | `AdminSpec => []AdminTypeOK` |
| `RowsStayCurrent` | `AdminSpec => []RowsAreCurrent` |

`ButtonComesBack` is about every behaviour and inductive with the types.
`NoExistingUserIsAdded` is about a user who waits and whose requests succeed, and
needs more (`AdminIInv`): one request is under way at a time (`OneAtATime`), so
an answer of the check is about the person in the hidden field; when it is in,
the button tells whether that person has a row, as long as the visible name is
the person's too (`ButtonTells`). Adding and editing keep that true because
nobody ever loses a row: the edit dialog can change users of the database only
(`NobodyVanishes`), and an addition clears the visible name, though not the
hidden field. A submission for another name than the hidden one is a careless
click.

`PageInv` extends it for the rows. `Counted` bounds what is under way: answers
held back, the search and the tasks together are at most one more than the hasty
clicks, since a click starts one thing and is hasty unless nothing is under way;
the length of the queue in `AdminTypeOK` follows. For a careful user, then, a
change of the database and a search never overlap, and `Fresh` is kept: the rows
and the answers held back are what the database has, and a search under way asks
for the status the toggle shows. A saved edit empties
the table in the step that changes the user, and asks again if there is a text; so
do the listeners of the toggle.

### Only model-checked

Liveness, since the provers have no fairness: `RequestsTerminate` of the seat
service and of the hardware endpoints, `EventsReachThePage`, `SpinnerGoesAway`.
And, by the nature of the thing, the two runs that find a violation.

## 5. Not modelled, and why

* Report generation, CSV, agreement files on the server, paging, tooltips,
  banners, layout: sequential computation or presentation. The filters of the
  search page other than Type are handled like Type.
* Token buckets of the rate limiter: a refused poll is one of the failures of
  `FetchFails`.
* The ETag of the polling endpoint: the cursor is part of the address, and
  whether a tag is sent is the browser's decision.
* The list of `AssetsApiController` (`AssetsApiController.cs:125-145`, `426-430`)
  and the number of rows of the search are cached under the stamp as the page of
  the search is, which `AssetList` has. A restart loses stamp and cache together.
* The summary cards and the thresholds. The cancellation
  source of the summary cache belongs to a scoped instance
  (`SummaryCardService.cs:46`), so an invalidation reaches no entry of another
  request. Two upserts of a threshold can both insert, after which
  `SingleOrDefault` throws (`ThresholdsController.cs:47`). None of these has a
  second party that relies on it.
* The directory (Microsoft Graph), roles, supervisors and the creation of
  offices: the administration page sees of them what `AdminPage` has.
* Edits that write a count the rows contradict are modelled as the code allows
  them (any number up to the total); the counter is then the administrator's.
* The search page of a supervisor, which shows a list without a query. `SearchPage`
  starts from the page without a query as everybody else sees it.
* Code that nothing in the pages calls: `add-shared.js`, `assetAddForm.js`, the
  scaffolded legacy scripts, the listener of `assets:changed` and
  `refreshSearchTable` of the search page, the `assign-asset-button` handler of
  the assign dialog, and on the administration page `openAddUserModal`,
  `fetchUsers` and the archive links of a row.
* Seeding, import, migrations, vendored libraries.
* Several server processes: the stamp and the hub are per process in the code
  too.

### What else was seen while modelling

Statements that the code, its comments or its tests suggest and that do not hold,
or behaviour a maintainer may want to know of. They are read off the code or off
counterexamples of the models; no run is kept for them.

Server:

* `api/assign/create` (`AssignmentController.cs:129`) opens a seat without
  touching the license row, so a grant that has counted already
  (`SoftwareSeatService.cs:72`) overfills the license.
* With two requests, unarchiving an asset that was never archived, while it is
  assigned, lists it as Available (`HardwareController.cs:222`), and archiving
  misses an assignment created between its look-up and its save
  (`HardwareController.cs:181`). Neither "archived hardware is unassigned" nor "the
  status tells the truth" is a property of this code, so no run states it; with one
  request at a time both hold, which nobody guarantees.
* The audit record follows the commit in a call of its own, so a change whose
  actor, license or request is gone by then has no record
  (`SoftwareSeatService.cs:128`), and two records of an asset may be written in
  another order than the changes (`AssignmentController.cs:169`).
* A user archived while holding a seat cannot be released from it, because the
  release looks the user up among those that are not archived
  (`SoftwareSeatService.cs:180`); archiving a license neither gives back the seat
  it closes nor sees an assignment created while it was looking for one
  (`SoftwareController.cs:234-241`).
* Archiving a user pushes an event under the user's id and with the time of the
  push, while polling brings the stored one under its own
  (`AdminUsersApiController.cs:242`, `283`): the page shows both, and a second
  change of the same user overwrites the first in place, although the id is the
  "Stable identifier for the event used on the client for dedup"
  (`src/AIMS/Contracts/AuditEventDto.cs:9`).
* The rows of an archived user are in no window: the projection reads
  the user's name through a query filter (`AuditLogQuery.cs:163`, `220`,
  `AimsDbContext.cs:334`). The first of them is the row about the archiving itself,
  whose actor is the archived user.

Audit page: there are four ways for an event to be missed for good, and
`NothingSkipped` says that there is no fifth. It is saved after a later time has
gone out (the time is read before the save, `AuditLogQuery.cs:434`); more events
than a window holds are newer than the cursor (`AuditLogQuery.cs:162`); its actor
is archived; a push of a later event moves the cursor past it
(`auditlog.index.js:503`). An older answer of two overlapping fetches overwrites
newer details (`auditlog.index.js:566`).

Asset lists: the chips of a license without open seats are not cleared, as only
licenses that have some are written (`AssetSearchQuery.cs:483-490`), which does no
harm only because every release moves the stamp. A list asked for between a commit
and its `BumpAssets` may be an old one. Two requests that share an entry write into the same rows.

Intake forms: declining "You have saved progress. Opening this modal will clear
it. Continue?" (`add-hardware.js:273`) opens the wizard all the same, and the
submission made in it then erases the progress. A double click on Next adds an
item twice; the server's check of the batch refuses it. Tags have no unique
index. The pencil of the software list checks nothing. The branch of Submit that
adds the item typed last is never reached, as the button is shown only when the
list is full.

Seat dialogs: `data-asset-id` is compared without the kind of the asset
(`search.index.js:1818`), so the row of a hardware asset and that of a license
with the same number are confused where both are on the page. The model has
distinct assets, so it does not show this. The picker's list of a
license's holders may be five seconds old (`assignAssetModal.js:96`). For a user
who does not wait: opening the dialog for a device while the one for a license is
still loading leaves the holders of the license in it (`unassignAssetModal.js:483`);
searching the picker while an assignment is being saved makes the row name nobody
(`assignAssetModal.js:728`). The seats of a row are counted down from what it
shows (`unassignAssetModal.js:604`), so a row that another user's change has made
stale stays wrong by that much. Assigning a license to a user who has it is
reported as a success, and the agreement chosen for it is not uploaded and stays
chosen (`assignAssetModal.js:688`).

Search page: the toggle turned off during the first search leaves archived rows
in the table until that search ends (hence `~page.boot` in
`ArchivedStayHidden`). An entry saved with its first page only counts as complete
after a reload, and so does the active-only entry that is derived from a first
page; an answer that arrives after the query has changed derives that entry for
the new query. An aborted search stores an empty entry. The table is cut at
`MAX_CLIENT_CACHE` (5000) items without a word; an active-only list derived from a
cut one, or from a first page, counts as complete and is never completed, so it
may be shorter than the server's. With overlapping searches the rest of one query
is added to the working set and the entry of another (`search.index.js:1250`), and
an entry that shares the array of the working set gets what is pushed into it
(`search.index.js:366-376`). A restored filter is lost
when the entry it was made for has expired. When the rows of a filter are gone,
the table is empty once although the filter then reads "All". The toggle is
restored after navigations too, through the filter snapshot, against "Restore
toggle only on reloads; clear on navigations from other pages"
(`search.index.js:105`). The spinner has no counter: it goes away with the first
search that ends. The `finally` branch of an aborted `aimsFetch` removes the
registration of the request that replaced it.

Administration page: the search answers without `graphObjectID`, so "Refresh User
from Azure" sends a blank id and is refused, and each opening of the edit dialog
adds a listener to that button. A submission before the check
has answered adds a user who exists. Two changes of the toggle within the spinner's
minimum time can leave the rows of the other status. The hidden field outlives the form's reset and a
name typed over, so a submission without a new pick adds the person picked last,
which `NoExistingUserIsAdded` calls careless. The chosen status is not sent when
a user is added. A change of both status and office saves the status only, and
the office of an archived user cannot be changed. A change of the toggle repeats
the search with the text it then removes, so the rows that arrive belong to no
visible text. An edit that is saved late closes whichever user's dialog is open.
A refused change of the office ends in a `ReferenceError` (`admin.index.js:788`),
which the same `catch` reports.

## 6. Plan

Done: the seat service with its abstraction, the license record and the cached
lists of it, the hardware
record with its abstraction, the audit feed, the intake forms, the seat dialogs,
the search page and the user administration page, each with an inductive
invariant and the theorems that follow from it. What would add most next:

1. `SeatModals` with the steps of `SeatService` in place of its atomic endpoint,
   once the state space allows it.
2. An abstract specification of the audit page (a set of saved versions from
   which the page picks), and `AuditFeed` as its implementation.
3. The columns of a hardware edit other than Status, and the pages of the search
   after the first with an answer each.
4. The search page over `AssetList`, so that what `Answer` returns may be a list
   that another page's search has cached.
