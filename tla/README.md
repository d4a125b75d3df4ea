# Verification of personal-finance-ledger

TLA+ models of the parts of this repository whose correctness depends on the
order of events, checked with TLC on small instances and, where it matters most,
proved with TLAPS for every size.  Paths are relative to the repository
(`src/`); `app/` stands for `backend/app/`.

## 1. The system

One FastAPI process over one SQLite database, one data directory with the
uploaded files and the model artifacts, and a React client.  A user uploads bank
exports, has their columns mapped (by hand, from a template, or by a model
behind the OpenAI API), reviews the staged rows and commits them to a ledger of
transactions, over which a dashboard reports.  A classifier trained on the
ledger proposes categories.  Beside that there is a portfolio of assets.

| Component | State | Operations | What makes it correct |
|---|---|---|---|
| Import lifecycle `app/imports/lifecycle.py`, `app/api/imports.py` | `ImportBatch` (status, revision, inspection, current mapping), `ImportBatchExecutionPlan`, `ImportMappingSuggestionAttempt` | upload, update_inspection, suggest, confirm_mapping, stage, recover_staging, delete | mapping, rows and inspection always belong together; terminal batches stay; staging ends |
| Staging, review, commit `app/imports/service.py` | `StagedTransaction`, `Transaction` | _stage_rows, stage_manual, update_rows, commit with preflight | a commit is whole; status and rows agree; no transaction is imported twice |
| Duplicate detection `app/duplicates/service.py` | none (reads drafts and ledger) | classify_duplicate | two drafts never claim one transaction; verdicts name existing ones |
| Transactions `app/api/transactions.py` | `Transaction`, `TransactionDeletion` | patch, delete (releases the rows that name it) | deletions reach rows and status of other batches; ignored stays ignored |
| Write lock `app/main.py` | one `asyncio.Lock` | every mutating request, except the external call of a suggestion and of a quote | no lost update between requests |
| OpenAI boundary `app/imports/openai_mapping.py` | `InMemoryMappingLimiter` | acquire, suggest, release | a slot is given back in every outcome; no partial result |
| Mapping templates `app/imports/lifecycle.py` 723-930 | `ImportMappingTemplate`, versions | list, create, patch | versions are immutable, a confirmation names an active one |
| Mapping plans `app/imports/mapping.py`, inspection `app/imports/inspection.py` | none | transform_rows, preview, inspect_file | pure functions of the file |
| Tagging models `app/tagging/`, `app/api/tagging_models.py` | `ModelVersion`, `models/*.joblib` | train (server and command line), activate, roll back, reject, reconcile | one active model with its artifact, a crash loses none that is needed and leaves none that is not |
| Tag rules `app/api/tag_rules.py`, `app/tagging/inference.py` | `TagRule` | create, patch, predict | rules before the model |
| Portfolio `app/portfolio/`, `app/api/assets.py`, `app/api/portfolio.py` | `Asset` (revision), `AssetEvent`, `AssetValuation` | create with retry, edit, archive, valuations, signed quote previews and their storage, reports and history | quotes in order, previews used only for the revision they were made for, every report shows the position of its day |
| Taxonomy, accounts `app/taxonomy/`, `app/api/taxonomy.py` | `Category`, `Subcategory`, `Account` | create, rename, deactivate, seed | names are unique; labels fit together |
| Reporting `app/reporting/service.py`, `app/api/reporting.py` | none (reads the ledger) | dashboard, summary, categories, trend | figures of one report add up and agree with the other reports |
| Review page `frontend/src/features/imports/`, `pages/ImportReviewPage.tsx`, `pages/ImportWizardPage.tsx` | save queue, displayed revisions, wizard snapshot | edit, retry, commit | every edit is saved or offered again, in order |
| Backup, command line `app/cli.py` | files | backup, verify, train, seed | the copy is a consistent database |
| Migrations, test data | | | one-time scripts |

How they interact.  Requests share the database and are serialised by the write
lock: the container runs one worker (`Dockerfile`), so there is one lock.
A suggestion request reads the batch, releases its session while the provider
answers, and takes the lock again to record the answer; a quote is previewed by
one request, which holds no lock, and stored by a later one.  Staging commits
STAGING first and replaces the rows in a second transaction of the same request.
Committing and deleting transactions changes rows of other batches, which name
them as duplicates.  Staging seeds the taxonomy, predicts with the active model
and records which one.  A training may run in the server or, beside it, from the
command line, and the two share the artifacts' directory but no lock.  Clients
carry revisions of batches, rows and assets and are answered 409 when these are
stale.  At start the process returns interrupted staging to AWAITING_MAPPING and
sweeps the artifacts before it accepts requests.

What is hard: crash between the two staging transactions, or between a file and
its row; late suggestions and late quotes; reinspection, remapping and review in
any order; verdicts about transactions that are deleted, corrected or committed
by another draft later; a preflight that commits its findings although the
request fails; corrections of the past and archivals that must not change the
reports of other days; one query that serves a range, the range before it and
twelve-month windows; and, in the browser, saves of many rows sharing one
revision.  `PROJECT.json` lists these hazards with their lines and the
properties that cover them.

## 2. Modules

| Module | Models | Abstracts |
|---|---|---|
| `ImportLifecycle` | the batch: every endpoint that changes one, the write lock, the suggestion from the limiter to the record, the two staging transactions, a retained file that vanishes, crash and restart | rows to one record: mapping and inspection they came from, and whether one is PENDING; structures, plans and files to model values; which plan fits which structure to the relation `Fits` |
| `ImportContract` | what importing promises about one file | everything but who holds the file |
| `ImportLedger` | rows and ledger: staging with classification, review, commit and preflight, correction and deletion | date, amount, currency and description to a `Look`, similarity to the relation `Alike`, source cells to `Raw`, mapping results to `Readings`, tagging to "a category or none" |
| `RowSaveQueue` | the review page of the wizard: `RowSaveQueue`, `SerialTaskQueue`, revision hand-over, conflict reload with its two reads, other tabs, lost answers, the commit step | fields to category, subcategory and disposition; the server stores what an accepted patch says; a batch has one page of rows |
| `Portfolio` | the writes of the portfolio: creation and its retry, edits of identity and of position, archival, manual valuations, quote and history previews and their storage, the server's clock | currencies: amounts are EUR, so that conversion and FX previews are left out; asset types to the three groups the code tells apart; the signature to "previews are what the server issued" |
| `PortfolioReports` | its reads: report of a day, holdings, allocation, history | percentages and gains, which are functions of the sums |
| `ModelVersions` | training, activation, rollback, rejection and the sweep, each as the steps between which a process can die, and files that the disk does not remove | features and scores; the artifact's contents to whether it can be read back |
| `Calendar` | `datetime.date` as ordinals, months, quarters, ISO weeks, windows | |
| `Taxonomy` | categories and subcategories: creation, renaming, activity, seeding, validation of labels | a name stands for its slug |
| `Dashboard` | the ledger as reports see it: booking, correction, deletion, with labels; loading and filtering of rows | one commit books one transaction |
| `DashboardReports` | series, rolling means, composition, annual and cumulative figures, quality counts; the older reports and the count of the transaction list | labels, percentages, order of items |
| `ImportLifecycleProofs`, `ImportLedgerProofs`, `RowSaveQueueProofs`, `ModelVersionsProofs`, `DashboardProofs` | theorems and proofs about the module of that name (and, for the dashboard, its reports) | |
| `PortfolioProofs`, `PortfolioAuditProofs` | theorems and proofs: of the requests alone, and of the audit trail and the reports | |
| `FiniteSums` | lemmas about sums over finite sets | |
| `MC...` | constants for TLC | |

`ImportLifecycle` and `ImportLedger` cut the import at the same place from two
sides.  The first keeps all interleavings of requests and leaves rows to a
summary; the second keeps the rows and takes each request as one step, which the
first justifies: `StagingHoldsTheBatch` shows that nothing happens between the
two transactions of staging.  A request with a stale revision changes nothing,
so that both only have accepted requests; `RowSaveQueue` has the refused ones.

`PortfolioReports` extends `Portfolio`, and `Dashboard` extends `Taxonomy` and
`Calendar`: the tables and the requests are in the lower module, and a report is
an operator over the tables, so that properties of reports are invariants over
every table the requests can produce.

Names are those of the code.  Some correspondences that are not one to one:

- `status[b] = "ABSENT"`: no row of `import_batches`.
- `job` in `ImportLifecycle`: a staging request between its two commits; it keeps
  the write lock, so `MayWrite` is false.
- `calls`: a suggestion request between its read and its record; it occupies a
  slot of the limiter until the `finally` of the endpoint.
- `Snapshot.structure`, `Attempt.structure`: history, not stored by the code.
- `lost` in `ImportLifecycle`: drafts whose retained file is gone from the disk.
  Reading it again ends in an error that the staging handlers do not catch.
- `declared` in `ImportLedger`: history, the rows to which a review request gave
  the disposition COMMITTED, as the endpoint lets it.
- `refused` in `ModelVersions`: history, the files that could not be unlinked or
  renamed back since the last sweep began; the code logs the error and goes on.
- `reads[r]` in `RowSaveQueue`: what a conflict reload of row r has of the two
  answers it waits for, rows and batch, between which other saves may be stored.
- `fx` in `Portfolio`: the three FX fields of a creation or a valuation, which in
  EUR are either all left out or the identity rate that the server stores.
- `ReleaseDuplicates(S, T)`: `DeleteTransaction` of `ImportLedger` as the batches
  see it: S are the batches with a row that names the transaction, T those that
  get a PENDING row by it.
- `cand = None` with `dup = "EXACT"`: a row blocked by a row of another draft,
  for which the code stores no transaction either.
- `drawers` and `previews` in `Portfolio`: what browsers hold between requests,
  the creation a client repeats when it got no answer, and the signed previews.
  `Forget` is a page that drops previews, or a restart, after which the server's
  key no longer accepts them.
- `server.step` in `ModelVersions`: between which of its file and database steps
  the writing request is; `referenced` and `doomed` are what a sweep has read so
  far.  `.tmp`, `.joblib` and `.delete` are the names in `FileName`.
- `transactions[t].standing` in `Dashboard`: `is_excluded`, with "ignored" for
  the excluded ones that come from an ignored row, which requests do not reach.
- Operators whose comment begins with "fault" are not used by the
  specifications.  Each is one definition with a plausible mistake, and putting
  it in the place of the correct one breaks the property `PROJECT.json` names.

## 3. Runs

Run a configuration with `tlc -config <file>.cfg <module>`.

| Run | Question | Instance |
|---|---|---|
| `batch` | Do inspection, mapping, rows, suggestions, limiter, revision and status of a batch stay consistent in every interleaving, crashes included? | 1 batch, 1 file that may vanish, 2 structures, 2 plans (one fits both structures, one fits the second only), 1 template, 2 suggestions for 1 slot and 2 requests an hour, revision up to 5 |
| `files` | Does the lifecycle implement `ImportContract`, and does staging end? | 2 batches competing for a readable and an unreadable file, either of which may vanish, revision up to 6 |
| `ledger` | Is every transaction claimed and committed once, are verdicts and statuses current, is a committed batch whole? | 2 overlapping files of 1 and 2 rows, a native id, 2 mappings, one of which filters a row out and fails on another; or 2 manual batches with one entry typed in twice, whose rows are edited between 2 looks; INCLUDE, IGNORE and COMMITTED as choices |
| `saves` | Is every edit of the review page saved once, in order, or offered again? | 2 rows, 3 user actions, 1 write of another tab, any number of lost requests (760 789 states) |
| `portfolio` | Do reports, audit trail, previews and retries survive any order of edits, corrections of the past and late quotes? | 2 purchases of 3 kinds, 6 edits, 3 days, 3 instants of which two fall on one day, previews that expire after one instant, 4 rows, 2 items in a request |
| `models` | Does the active model keep its artifact, whatever dies when? | 3 trainings in either process, 2 taxonomies, 4 activations, any file refused by the disk (2 million states) |
| `dashboard` | Do the figures of all reports add up and agree? | 2 transactions on 4 days in euro and another currency, 3 ranges, 1 category with 1 subcategory that are created, renamed and deactivated |
| `remap`, `missing`, `ready`, `commit`, `seeding` | runs that show a disagreement, see section 5 | small instances of the same modules |

Why the bounds are enough.  The properties of a batch relate one inspection, one
current mapping and one generation of rows; two structures and two plans tell a
right combination from a wrong one, and revision 5 admits an inspection, a
suggestion, a confirmation and a complete staging, or both orders of recording
two suggestions with a change in between.  One slot for two callers makes each
call wait for the other's release.  Two batches are enough for the contract
because it speaks of pairs of batches on one file.  Duplicates are a relation of
two rows and one transaction; three rows give each row another competitor that
may be blocked, released or ignored at the same time.  Of rows of files and rows
typed in, one kind exists at a time (`OneKindAtATime` in `MCImportLedger`): their
fingerprints differ in shape and manual rows have no native id, so that they never
meet; and only manual rows are edited to another look (`EditsOfManualRows`), since
an edit leaves the fingerprint of a row of a file as its mapping computed it.  The
revision bound only stops batches: it is a guard in `Bump`, never a wrap-around.  `MaxEdits` is what
makes a user pause.

In the portfolio an asset meets others only inside one quote request, hence two
purchases and requests of two items.  Four rows are, for example, the creation,
two changes of position and a quote, in any order of their days; three days give
a day before, at and after each correction.  Two instants on one day tell the
order of the clock from the order of the dates.  Three models are needed for one
that is active, one to roll back to and a candidate; four activations let a
rollback follow three different models.  The days of the dashboard are the edges:
the first day of a twelve-month window, the day before a range, the end of a year
and a leap day; the ranges cross a year, a leap day and the end of a month that is
longer than the month before.  `SecondOnlyWhileSettled` in `MCDashboard` bounds
that run: a second transaction is booked only while the taxonomy is as it was
seeded, since reports read ids and never names.

Symmetry is used where the elements are interchangeable (callers, purchases,
models, taxonomies, transactions) and no liveness is checked.

Deadlock is checked in the lifecycle runs, where a batch can always be created,
the process crash, or a restart follow, and in the dashboard run, where a label can
always change.  The ledger runs may end when every batch identity of the instance
is committed or deleted, the page's runs when the user is done, the portfolio's
when its rows are used up and the clock has stopped, and the models' when every
training was used; so these say `CHECK_DEADLOCK FALSE`.

Fairness.  `ImportLifecycle` assumes that a staging request which runs is carried
to its end unless the process dies, and that the process is restarted
(`compose.yaml`: `restart: unless-stopped`); nothing is assumed about users, the
provider or crashes.  `StagingEnds` needs both, and
speaks of batches whose file is there; a batch whose file is missing is left
STAGING by the code until the process is restarted, which no fairness makes happen
(section 5, `missing`).
`RowSaveQueue` assumes that the browser answers or fails every request; users
need not retry anything.  The other modules state no liveness: every request of
theirs ends in the step or the few steps it takes, and nothing waits.

Constants that state an assumption about the environment:

- `Choice` in `ImportLedger`: the dispositions that clients send.  The endpoint
  stores every one there is (`app/api/imports.py:133`), and the theorems allow
  every one; the run has those of the review page and COMMITTED.
- `CallerAssumption`, `LimitAssumption`: callers are finitely many and the limits
  are numbers; nothing more is needed for the limiter's proof.
- `MonthEnd` and `DateOf` in `Portfolio`: which dates end a month, and that dates
  follow the clock.

## 4. Properties

Invariants of the batch: `StagingHoldsTheBatch` (which makes the "batch changed
while rows were being staged" branch of `stage()` dead code),
`MappingFitsInspection`, `StagedRowsFitInspection`, `LlmOriginIsGenuine`,
`SlotsAreHeld` (the limiter counts exactly the requests that wait for the
model), `ReviewStatusIsCurrent`.  Steps of the batch:
`RevisionCoversMapping` (nothing another user relies on changes under an
unchanged revision), `TerminalIsFinal`.  Over time: `StagingEnds`.  Refinement:
`FileContract`, which maps the batches holding a file to `ImportContract`'s
`slot`; a file that two live batches hold maps to a value outside `Slot`, which
no step of the contract reaches.

Rows and ledger: `DraftsClaimOnce`, `TwinExists`, `StatusFollowsRows`;
`CommittedIsWhole`, which says that each accepted row of a committed batch is in
the ledger, that the ledger holds nothing else, and that rows which a request
declared COMMITTED are the only ones the commit passes over; and
`IgnoredStaysExcluded`.

Review page: `UnsavedIsPending`, `SavedIsStored`, `OwnEditsNeverConflict` and the
liveness property `SavesEnd`.

Portfolio: `ReportsShowThePositionOfTheDay` compares each report with a replay of
the audit events; `AuditTrailIsComplete`; `HistoryAgreesWithReports` relates the
two computations of `build_portfolio`; `PreviewsMatchTheirRevision`;
`RetryReturnsThePurchase`, for bodies that state the FX fields; and two about
steps.  `RefreshReachesTheReport` follows a stored quote to the reader: the report
of its day then shows a quote of that request, with the asset's present instrument
and quantity, and none that an earlier request stored is newer.  `PastReportsStay`
exempts edits of the quote configuration, by which the code decides anew whether a
past valuation counts as a price.

Models: `ServedModelsKeepTheirArtifacts`, `OneOfEach`,
`PredictionsKeepTheirVersion`, `ServerLeavesNoFiles` (between requests each file
is needed, the command line's, or one that the disk refused to remove), and
`ReplacedModelStays` about activations.  A candidate that the command line records
while a sweep is running may lose its artifact: `ServedModelsKeepTheirArtifacts`
is about the active model and the one kept for rollback, and verifying the
candidate, the first step of its activation, fails without the file.

Dashboard: `FiguresAddUp` within one report, `ReportsAgree` between reports of
different ranges, filters and endpoints, `RollingWindowsAreComplete` for the one
query behind them all.

Each comes with a comment in its module saying what it means for the code.

## 5. Where the code and its documents disagree

These are shown by a run that TLC ends with a counterexample.

- `remap`: `confirm_mapping` on a staged batch keeps the old rows, and a review
  request then brings the batch to READY; it can be committed with rows of the
  older mapping while it records the newer one.  The design says that
  remapping discards staged edits and that two revisions never mix.
- `missing`: staging persists STAGING and then reads the retained file; if that is
  gone, `_source_path` raises an error that no handler around it catches, and the
  batch stays STAGING, where inspection, mapping and staging are refused, until the
  process happens to be restarted or the user deletes the batch.  The design says that fatal file
  errors stage nothing and return the batch to AWAITING_MAPPING.
- `ready`: ignored rows are inserted, excluded, under the same unique indexes, but
  the preflight skips them.  If another batch committed the same identity, a READY
  batch fails on every commit.  The design calls READY batches committable.
- `commit`: the wizard shows its commit step as soon as a save makes the batch
  READY, while later edits are still queued; a commit between two saves
  books what the user has just changed.  The page's own commit button waits for
  saves, and the step says that all decisions are resolved.
- `seeding`: renaming a managed category changes its slug; the seeding that every
  staging request runs looks for the slug, misses it, and inserts the derived id
  once more.  No rows can be staged after that.  The design gives categories a
  stable identity, and the categories page offers to rename any.

In four more places documents or the interface say something else than the code
does, and a property that holds names the exception:

- Ignored rows become transactions, excluded ones (`app/imports/service.py:356-374`).
  `2026-08-13-generic-accounts-universal-mapping-design.md:72-76` says so and a test
  checks it; the older `2026-08-09-personal-finance-ingestion-design.md:108-109`, "Ignored
  rows and their reasons remain attached to the batch but never become ledger
  transactions", and the notice on the read-only review page
  (`ImportReviewPage.tsx:383`) still say the opposite.  `IgnoredStaysExcluded` is
  the newer design.
- A review request may declare a row COMMITTED (`app/api/imports.py:133`), which
  `update_rows` stores (`app/imports/service.py:167-179`).  The row counts as decided,
  and the commit passes over it: the batch is COMMITTED with a row of that
  disposition and no transaction, although by the ingestion design (104-106) a
  commit inserts the accepted rows.  `CommittedIsWhole` keeps these rows apart in
  `declared`.
- A creation in EUR may leave the FX fields out; the server then stores the identity
  rate and a date (`app/portfolio/service.py:439-453`), and compares a retry with
  what it stored (`app/api/assets.py:265-267`).  The same body sent again is answered
  409 `asset_id_reused`, although
  `2026-08-11-portfolio-drawer-simplification-design.md:42-43` says that retrying an
  interrupted request returns the same asset.  The web client always states the
  fields.  `RetryReturnsThePurchase` is about bodies that do.
- Of two quotes of one asset in one request, the one stored second may be older
  (`app/portfolio/service.py:282-299` compares with what earlier requests stored), and
  the report of a day on which both fall shows it.
  `2026-08-11-portfolio-management-design.md:55-57` says that a quote cannot be
  persisted after a newer one.  `RefreshReachesTheReport` compares with the quotes
  of earlier requests.

## 6. Proofs

`tlapm <module>Proofs.tla` checks them; they hold for any sets of batches, files,
plans, rows, models, assets and so on and any bound, under the named assumptions
of the modules.
Every leaf is small: each module also passes with `tlapm --cleanfp --stretch 0.1`,
a tenth of the provers' time limits, so that a slower machine changes nothing.

**Lifecycle.**  The inductive invariant is `IInv`: the type invariant, the
invariants of section 4, and facts they need.  `UnopenedIsBlank`: a batch
that does not exist or failed on upload has neither inspection, mapping, rows nor
suggestions (without it the first upload could meet old rows).  `JobIsMapped`: a
running staging request works on a confirmed mapping, so that the rows it stores
name one.  `Inductive` proves it with one lemma per group of actions; the
theorems `TypeCorrect`, `StagingIsExclusive`, `MappingMatchesInspection`,
`StagedRowsMatchInspection`, `LlmProvenance`, `SlotsMatchCalls`,
`ReviewStatusHolds` follow.  `SlotsMatchCalls` counts: that a call is added to or
taken from the calls as its slot is taken or released is a fact about
cardinalities, for which callers are assumed to be finitely many.
`TerminalForGood` proves the action property `TerminalIsFinal`, which needs
`SuggestionsAreFresh`: a suggestion whose revision still matches belongs to a
draft, so that recording it never moves a committed batch.  A step that writes one
batch keeps it because it raises that batch's revision (`FreshBumped`): the answers
on their way for the batch become stale.  `MappingsAreVersioned`
proves `RevisionCoversMapping`, where the staging that runs is the only step that
stores rows without a new revision, and stores those of the mapping it read.

`ImplementsContract` proves that the lifecycle implements `ImportContract`.  The
mapping of states chooses, for a file, the batch that holds it, so the proof
needs that there is at most one: `FilesInv` is `OneHolder` with `FilesFit` (a
batch names no file before it exists, a failed one names an unreadable file, a
draft a readable one or none).  Each action then moves the slot of one file or
leaves all of them.

**Ledger.**  The inductive invariant is `LedgerInv`: the type invariant,
`StatusFollowsRows`, `CommittedIsWhole`, `IgnoredStaysExcluded` and two facts
about rows.  `RowsTogether`: the rows of a batch are created and removed together
and exist from the first review on.  `CommittedRowsAreKnown`: a
row is COMMITTED because its batch is or because a review request declared it so.
All operations on drafts share the lemma `DraftStep`: a step that only changes rows
of draft batches, and makes none of them COMMITTED without recording that it was
declared, keeps both committed invariants.  The theorems are `TypeCorrect`,
`ReviewStatusFollows`, `CommitIsWhole` and `IgnoredForGood`.  The type theorem
says more than a type: entries of the ledger have a date, amount and
description, so that an incomplete row cannot be committed.

On top of it, `ClaimInv` says that drafts never claim one transaction twice and
that verdicts name existing ones.  Staging and review classify rows one after
the other, each against the ledger and the rows before it; the proof follows the
recursion of `Classified` over the row numbers by its last step that could fail.
That a row released by a deletion claims nothing holds because a release leaves
it PENDING, and only a review, which classifies again, makes it INCLUDE.  The
theorems are `ClaimsAreApart` and `VerdictsNameTwins`.

**Review page.**  The inductive invariant of `RowSaveQueueProofs` relates four
records a row has: what the user typed, what is queued, what is unsaved, and the
patch on its way.  `Loose` is how they agree while the row has no save, `Taken`
while it has one; `Merge`, `Restored` and `StillUnsaved` are each shown to lead
from one to the other.  `TasksFit` says that a row has at most one task and that
only the first task of the serial queue has been sent, `ValuesFit` that what is
not unsaved is stored unless another tab writes, `RevisionsFit` that the page
holds the stored revisions of all rows except the one whose answer is on its way.
The theorems are `TypeCorrect`, `NothingIsForgotten`, `SavedMeansStored` and
`NoConflictWithItself`: everything the runs check of the page except liveness,
for any number of rows, values, edits and writes of other tabs.

**Models.**  The inductive invariant of `ModelVersionsProofs` says, beside the
type invariant, the artifacts and `OneOfEach`: which files a training has made by its stage
(`TrainingFits`); that active rows were activated, and no later than now
(`RowsFit`); that only models that were active predicted
(`PredictorsWereActive`), so that no rejection deletes a row that is named; that
what a request found out before its next step still holds (`RequestFits`: an
activation's artifact is there, a rejected candidate's file is aside, a sweep
that has read the rows spares whatever is served and has found every file that is
nobody's or was refused); and that between requests the directory is clean
(`DirectoryFits`).
`RequestFits` is the heart of it: the sweep reads rows and lists files in
separate steps while a training of the command line goes on; a row that training
adds in between is a candidate, never a served model, and the write lock keeps
every activation out until the sweep has ended.  All six properties of the run are theorems:
`TypeCorrect`, `ArtifactsAreKept`, `OneModelOfEachState`, `PredictionsAreKept`,
`DirectoryIsClean`, `RollbackIsReady`.

**Portfolio.**  The inductive invariant of `PortfolioProofs` is the type
invariant with `AssetsAreValid` (what `_validate_state_values` checks holds of
every stored asset, also of one restored from events), `PreviewsFit` (a preview
is of a present or past revision, and of the asset as it is if of the present
one) and `OriginsFit` (the first valuation of an asset is that of its creation,
and an asset without events is what the client sent).  That a first valuation
exists to be chosen is the well-ordering of the naturals, lemma `LeastNatural`.
The theorems are `TypeCorrect`, `PreviewsAreCurrent` and `RetriesAreAnswered`.

`PortfolioAuditProofs` adds `AuditInv`.  `TrailsFit`: the events of an asset are
numbered by the revisions without a gap; each starts, field by field, from the
value that the last earlier event of that field left; and position changes are
dated in the order of their revisions, each on a day that has a valuation.
`RowsFit`: the last valuation of each day carries the position that the events
effective by that day give.  It speaks of the last row of a day because an edit
records a corrected row behind the older ones, which stay; and it needs the
dating, because a correction of a past day that has later changes would leave
the rows after it wrong, which `patch_asset` refuses.  From it follow
`ReportsAreAudited`, `TrailIsComplete` and, with `ArchivalsFit` (an active asset
has no day of archival), the action property `ThePastIsKept`.
`RefreshesAreShown` proves the action property `RefreshReachesTheReport`: the rows
that a request stores come behind all others, so that the last of them with a date
is the one that the report of that date chooses (`DaysShown`); it is an item of the
request (`QuotesAreItems`), which was checked against the quotes stored before; and
its instrument and quantity are the asset's because its preview was of the present
revision (`PreviewsMatchTheirRevision`).
`ReportsAgreeWithHistory` compares the two computations of `build_portfolio`; its
sums over assets, and those over the groups of the allocation, are those of
`FiniteSums`.

**Sums.**  The library's induction theorems cannot be used (see below), so
`FiniteSums` argues by a smallest counterexample: if a statement about finite
sets fails, it fails for a set all of whose proper subsets satisfy it, and that
such a set exists is the library's theorem that inclusion is well-founded on
finite sets, which needs no operator.  `SumsExist` shows that the recursion by
which the community modules define a sum has a solution at all, `TotalStep` that
the sum does not depend on the order, and `TotalByGroup` that a sum over a set is
the sum over groups of the sums within them.  `TotalShared` is what reports need:
when each element has a key, the sums of what belongs to each key add up to the
sum of all, so nothing is lost or counted twice.  `TotalSplit` is the case of two
parts, `TotalOfOnes` makes numbers of rows sums like any other.

**Dashboard.**  `TypeCorrect` shows among other things that a transaction never
has a subcategory of another category.  `WindowsHaveTheirRows`
proves `RollingWindowsAreComplete` for any ranges: the query loads from the
earlier of the prior range's first day and the start of the twelve-month window
of the range's first day, so all later windows must start no earlier.  That
`WindowStart` is monotone in the date, over months of four lengths, leap years
and ends of months, is lemma `WindowsFollow`; it rests on lemmas that the first
day of a month follows the last of the month before, that dates grow with their
months, and that every date has one year and one month.

`FiguresFit` proves `FiguresAddUp`: whatever parts a report divides its rows into,
the parts add up to its totals.  Each part is a case of `TotalShared`, so what is
left to show is that each row has one key that occurs.  For categories,
subcategories and months that is their definition, for years the lemma that a
date lies in one of the years from the first to the last of the range, for the
running sum that the rows up to a day are those up to the day before and those of
the day.  For weeks, months and quarters it is the loop of `_build_series`, which goes
from the end of one period to the start of the next.  `LoopsExist` shows that the recursive
function it is modelled by has a solution, since the next period is always further
on, and `PeriodsTile` that its periods are `Tiled`: the first begins on or before
the range, each begins the day after the one before it ends, and the last reaches the
end of the range.  That needs, of each kind of period, that it holds its date, that
all its dates have the same period, and that the day after its end starts one
(`PeriodHolds`, `PeriodSame`, `PeriodFollows`).  So every row is in one period
(`RowsByPeriod`) and so is every day of the range (`DaysByPeriod`).  Sums are over
finite sets: `FiniteLedger` says that finitely many transactions are booked at any
time, so the ids need not be finite.

`AllReportsAgree` proves `ReportsAgree`.  Its core is `CurrentIs`: the rows that
`build_dashboard` picks out of the one query it made are those that the dates of
the range and the filter select from the whole ledger, although the query starts
earlier, at a date chosen for the prior range and the rolling windows.  From that follow the agreement with the
prior range (`PriorAgrees`), of the composition with the filtered reports
(`FiltersAgree`), of the series with the trend (`MonthsAgree`) and of the ranking
with the report by category (`CategoriesAgree`).

**Assumptions.**  Beside those section 3 names, the proofs use that `None` is no
asset, row, holding, transaction or other record, that amounts are integers, that managed
names of one category differ (as the seeds of `app/taxonomy/seed.py` do), that
ranges consist of dates of the calendar with the first not after the last
(`app/reporting/service.py` rejects others), and that the calendar begins in year
2 or later, so that the year before its first is one of `datetime.date` too, and
holds the range before each range (the code fails on a date before year 1).  TLC
evaluates all of them.

**Only model-checked.**  Every invariant and every action property of the runs is
a theorem, and so is the refinement `FileContract`.  What the runs check and no
theorem states is liveness, `StagingEnds` and `SavesEnd`: fairness and ENABLED are
out of the prover's reach.  So are the library's induction theorems, which take an
operator as parameter; the proofs use smallest counterexamples instead (`SmallestSet`,
`LeastNatural`, `GreatestInteger`).  The runs that end with a counterexample (section
5) have no theorem, for they show that a property does not hold.

## 7. Not modelled

- Mapping templates are a constant of `ImportLifecycle`; creating, versioning and
  deactivating them changes one template at a time.  A confirmation compares its
  plan with the version it names and copies it, and no later step reads the template.
- Container and table detection, number and date parsing, and the similarity
  score: data that the properties only see through `Fits`, `Readings` and `Alike`.
- Payloads, prompts and the client's own retries at the OpenAI boundary.
- Uploaded files on disk: an upload whose request dies leaves a file no batch names.
- Currencies and FX previews of the portfolio, the providers' replies, and what the
  portfolio page computes from sums (gains, percentages); the report by account and
  the labels of the dashboard.
- Tag rules: their effect on a row is a free choice of category in `ImportLedger`.
- The backup, and the training's features and scores.
- Accounts, listing and paging, except the count of transactions; rendering.
- Migrations, except the first insertion of the taxonomy, which the seeding
  repeats; test data.

## 8. Plan

The modules of section 2 exist, and their safety properties are proved.  What would
extend them, in this order:

1. `RowSaveQueue`: what the page displays after a conflict, to state that no newer
   change of another tab is overwritten unseen.
2. Currencies in `Portfolio`: FX previews, and the provenance of a converted value.
3. `MappingTemplates` in place of the constant: versions, activation and the
   provenance that a confirmation copies.
4. `Backup` against concurrent writes.
5. Pure algorithms of `mapping.py` (amount parsing, `generic_row_fingerprint`) as
   recursive functions against reference definitions over bounded inputs.
