# Rollups server: TLA+ models and proofs

The rollups server stands between a blockchain and the back-end of a
decentralised application.  It reads the inputs of the application from the
input box contract, hands them to the back-end one at a time over HTTP, takes
the vouchers, notices and reports the back-end emits, and stores everything in
a SQLite database.  This directory holds TLA+ models of that program, the TLC
configurations that check them, and proofs for TLAPS.

## The system

| part | state | operations | interacts with |
|---|---|---|---|
| rollup model (`src/model/model.go`, `state.go`, `types.go`) | `AppModel`: mutex, list of inspects, the state in progress (idle, advance or inspect, with the outputs emitted so far) | `AddAdvanceInput`, `AddInspectInput`, `GetInspectInput`, `FinishAndGetNext`, `AddVoucher`, `AddNotice`, `AddReport`, `RegisterException` | called by the HTTP handlers, the sequencer and the inputter; calls the repositories and the decoder |
| sequencer (`src/sequencer/sequencer.go`) | none | `FinishAndGetNext`: ends the request in progress and takes the next | called by the finish handler; works on `AppModel` under its mutex |
| repositories (`src/model/*_repository.go`) | tables `inputs`, `vouchers`, `notices`, `reports`, in a file | create, update, find, count, page | called by the model, the decoder, the data availability code |
| decoder and convenience service (`src/decoder`, `src/services`) | none | `HandleOutput`: find a voucher or notice by its key, then update or insert | called when an input is accepted |
| rollup HTTP API (`src/rollup`) | the handlers under way | `/finish` (polls up to 50 rounds), `/voucher`, `/notice`, `/report`, `/exception`, `/gio` | called by the back-end; calls sequencer, model and data availability |
| inputter (`src/sequencer/inputter`) | where it is between query and subscription | reads past inputs, then watches for new ones | reads the devnet chain, calls `AddAdvanceInput` |
| supervisor and workers (`src/supervisor`) | the workers started so far | start in order, cancel all when one ends, wait with a timeout | runs anvil, the inputter and the HTTP server |
| devnet (`src/devnet`) | a chain that starts from a fixed state | starts anvil, sends inputs | read by the inputter |
| data availability (`src/dataavailability`, `src/rollup/fetcher.go`) | none | fetch a blob for `/gio` | reads the inputs table and external services |
| pagination (`src/util/pagination.go`) | none | page and cursor arithmetic | called by the repositories' `FindAll` |
| wiring (`main.go`, `src/container`) | none | builds all of the above, installs the recover and timeout middlewares | |

What is hard here:

- **Concurrency.**  Handlers, the inputter and the supervisor are goroutines.
  One mutex makes each method of the model atomic, but not a finish handler:
  it calls the model again on every round and finishes whatever is then in
  progress.
- **Failure.**  A finish is several SQL statements with no transaction; the
  process may stop between two of them (a signal is enough, `http.go` shuts
  down with a cancelled context) and a statement may fail, which panics and is
  recovered by the middleware.
- **Restart.**  The tables survive, the state in progress and the inspects do
  not, and the devnet chain starts over.
- **Retries.**  A back-end may be relaunched and a finish may be sent again
  after its response was lost.
- **Queries.**  A page is computed from one statement and selected by another,
  neither under the mutex; a cursor is an offset into what was there before.
- **Order.**  Inputs must be decided in the order of the box while they are
  stored as they come.

What makes each part correct: the *model* decides each input once and shows
outputs of accepted inputs only, numbered without gaps, and answers inspects
in order; the *repositories* keep that across crashes; the *HTTP API* lets an
input be decided by the back-end that worked on it, and decides every input in
the end; the *queries* give each row once, whatever is written between their
statements; the *inputter* stores every input, in order; the *supervisor* ends
when a worker ends, starts each worker only when those before it are up, and
leaves at most the last one blocked; *pagination* never leaves the total, and
its pages adjoin; a *fetch* ends with data or with the status it chose (it does
not: see the proofs).

## The modules

| module | models | state and actions |
|---|---|---|
| `InputLifecycle` | the abstract promise about an advance input | an input arrives once, is decided once, and its outputs and reports appear with the decision |
| `AppModel` | model, states, sequencer and the tables | one action per method; the mutex makes each atomic. `inputs` holds the status per index, `vouchers` and `notices` are sets of rows, `reports` a list per input (the table has no key), `state` the request in progress |
| `AppModelProofs` | | theorems about `AppModel` |
| `ModelStore` | the same, with a finish or an exception taken as its database writes | `job` is the finish or exception under way (the mutex held) with the writes left to do; `Crash`, `DbError` and `InspectDbError` cut it short |
| `ModelStoreProofs` | | theorems about `ModelStore`; extends `AppModelProofs` for its lemmas |
| `StoreOutputsProofs` | | theorems about what a finish stores, and that `ModelStore` implements `AppModel`; extends `ModelStoreProofs` |
| `Pagination` | `ComputePage` and the cursors | operators only; a pointer that may be nil is a sequence of at most one element |
| `Queries` | `Count`, `FindAll` and the filters of the four tables, `UpdateExecuted` and the executed flag, next to a server that writes (`ModelStore`) | `reader` is a client that walks through a query page by page; `CountRows` and `SelectRows` are the two statements, `Serve` (any step of `ModelStore`, failing statements included) and `ServerStops` what runs between them. `seen` is all it was given; `thisLife` are the inputs that the running process stored, `late` whether one was ever stored below another |
| `QueriesProofs` | | theorems about `Pagination` and `Queries`; extends `StoreOutputsProofs` for its lemmas |
| `DataAvailability` | `/gio`, the epoch checks and the polling loop of the Espresso fetcher, the Syscoin fetcher | operators only: there is no state. What the services answer is an argument, one answer per round of the loop |
| `DataAvailabilityProofs` | | theorems about them |
| `RollupApi` | the HTTP handlers and the back-end on top of `AppModel` | a finish handler polls, gives up, or notices that its client is gone; the back-end follows `api/rollup.yaml` and may be relaunched or lose its connection |
| `RollupApiProofs` | | theorems about `RollupApi`; extends `AppModelProofs` for its lemmas |
| `Inputter` | the inputter worker, the chain and restarts, on top of `AppModel` | `worker` holds the logs on their way: found by the query, in the channel, held by the goroutine of the subscription, in the worker's hands. The iterator and the subscription of `contracts/input_box.go` are its actions (`NextLog`, `NextFails`, `NextDone`, `TakeLog`, `SubscriptionFails`, `HandOver`); `broken` are the inputs whose log the bindings cannot decode, `past` is how many the query found, and `origin` remembers in which life of the process an index was stored |
| `InputterProofs` | | theorems about `Inputter`; extends `AppModelProofs` for its lemmas |
| `Supervisor` | the supervisor's loop, the goroutines of its workers, their channels, the context and the timers | `pc` and `current` are the supervisor's; `worker` and `poller` say where each worker's goroutines are. The HTTP worker and the inputter have the same protocol; a server worker (anvil) has a poller |
| `SupervisorProofs` | | theorems about `Supervisor` |

`ModelStore`, `RollupApi` and `Inputter` extend `AppModel` and take its
actions as parts of theirs, and `Queries` does the same with `ModelStore` and
`Pagination`.  The `MC*` modules give the constants their values.

Some choices a reader of the code should know:

- A method that returns an error changes nothing and has no action.
- Payloads, addresses and timestamps are opaque; a voucher's destination is
  part of its payload.  Rows keep what the properties tell apart: the input,
  the output index and the payload.
- `FinishAndGetNext` exists in the model and in the sequencer with the same
  body; the program calls the sequencer's.
- `AddInspectInput` is a public method of the model with no caller in this
  repository.  It is modelled because every finish looks at the inspects
  first; only `InspectCountsOrdered` is about inspects.
- A method whose database call panics in a handler is recovered by echo; in
  the inputter it ends the process, which is `Restart`.
- `Restart` in `AppModel` is a restart between two requests; `Crash` in
  `ModelStore` is one in the middle.
- A log that does not decode is a choice of the environment.  In the query for
  past inputs it ends the iterator, whose error nobody asks for, and the rest of
  what was found is dropped (`NextFails`), a loss that the comment on the race
  (`inputter.go:54-57`) does not name; in the subscription it is the error
  the worker ends with (`SubscriptionFails`).
- In `Queries` inputs come in the order of the box within one life of the
  process, which is what `InputterProofs` proves of the worker (`LogsInOrder`),
  and in any order over a restart: the chain numbers its inputs from 0 anew, and
  an index that was missed before may then be stored below those of before.
- The port of a server worker is answered by its own command; a stranger that
  listens on it is not modelled.
- Reports have no key: those stored twice, by an attempt that was cut short and
  the one after it, differ in nothing, and the order between them in a page is
  SQLite's.  `Queries` takes them in the order they were stored.
- A filter's address may be checksummed or not; only the checksummed form is
  what the table holds.
- `FindByStatusNeDesc` names a column the table does not have, so that it
  returns a nil pointer and an error; the error is looked at after the pointer
  is used.  `DataAvailability` takes the current input as an argument all the
  same, so that its theorems do not rest on the misspelling.
- The timeout middleware (10 s) outlasts a finish (50 rounds of 100 ms), so
  only a slow database makes it answer; `Disconnect` is that answer as well as
  a broken connection.  The API document gives 10 s for the 202 where the code
  takes 5 s; time is not modelled.

Operators named as a faulty variant, next to the definition they vary, are
what a plausible mistake in the code would make of it.  Nothing uses them;
each property is known to fail when the variant listed for it in
`PROJECT.json` takes the place of the original.

## The runs

| run | shows | bounds |
|---|---|---|
| `app_model` | type, publication, numbering, order of inspects, the inductive invariant, final verdicts, refinement of `InputLifecycle` | 2 inputs, 2 inspects, up to 2 outputs per request, any restarts |
| `store_atomic` | without faults a job is alone with the rows of its input (`JobAlone`), a rejected request leaves no output, and the writes of `ModelStore` refine `AppModel` | 2 inputs, 1 inspect, 2 outputs |
| `store_faults` | with a crash or a failing statement, vouchers and notices stay gapless, the inductive invariant holds, no output is lost between a finish and the tables, and, as long as no statement failed, decided inputs keep their verdict and an input shows as accepted or rejected only with all its rows | 2 inputs, 1 inspect, 2 outputs, 1 fault |
| `api` | back-end and model agree, the inductive invariant, only the holder decides until something breaks; every input is decided in any case; on the way TLC evaluates that no request makes `/gio` ask Espresso | 2 inputs, no inspects, 1 output, 2 rounds, 2 handlers, 1 break; block numbers up to 3, epochs of 2 blocks |
| `inputter` | order, the inductive invariant; what is lost is lost in the gap between query and subscription or behind a log at which the query was given up: any other input is stored or on its way (`NoLogIsLost`) and, unless the process ends, stored in the end (`DueInputIsStored`) | 3 inputs, 1 of them broken, 2 lives, a channel of 2 logs |
| `queries` | pages are full, backward walks have no hole, the inductive invariant, executed flags are kept | 2 inputs, 2 outputs, 3 walks (executed vouchers of an input forward, decided inputs and reports backward), 1 execution, any restarts between requests |
| `queries_live` | with a crash or a failing statement at any point, what a client has seen is the first rows in order, backward walks have no hole, the inductive invariant, and a client that keeps asking sees every row | 2 inputs, 1 output, 1 fault, any restarts between requests, a walk over the vouchers in each direction, backward by destination |
| `supervisor` | order of starting, who can be left blocked, and that the supervisor returns once a worker has exited | 4 workers: those of `main.go` and a second server worker |
| `store_rejected_outputs` | **violated**: a crash can leave vouchers on a rejected input (`api/rollup.yaml:90`) | up to 2 crashes, no failing statements |
| `store_exception_final` | **violated**: a failing report overwrites an exception later (`api/rollup.yaml:265`) | failing statements only |
| `api_first_finish` | **violated**: the first finish of a relaunched back-end decides an input (`api/rollup.yaml:88`) | as `api`, with 1 inspect and no outputs |
| `inputter_restart` | **violated**: inputs of the chain of a restarted process are dropped (`inputter.go:29`) | as `inputter`, none broken |

Why the bounds are enough: an input interferes with others only through which
is next, so two inputs (three in the inputter, for one read, one missed and
one watched) show every relation the properties speak of; two outputs of a
request give every mix of tables and an order within one; one fault at any
point gives an attempt that is cut short and one that follows it (that more
faults change nothing is proved, below); two polling rounds are a
first and a later one; two handlers are one whose client is gone and its
successor, which is all one break can leave.  A channel of two logs can be full,
empty or neither while three inputs go through it, and one log that does not
decode can have others before and behind it (`MaxBroken`).  Two lives of the
process are one and its successor, with what the first left in the tables
(`MaxLives`).  The walks
are over inputs, vouchers and reports, in both directions, of page sizes 1 and 2,
with each kind of filter: ones whose rows stay and, so that the statements run with
them at all, one whose rows leave, of which the properties say little.  Notices are
read as vouchers are; they, the default page size and forward walks with more than
one output of an input are left to the proofs.  Two inputs can come in either
order over a restart.  No inspect is added in `api`, whose state space it would
multiply, so that nothing is claimed of an input that waits behind inspects.
Nothing in the model counts
further than these.  Four workers put server workers first and last and the others
between them.

Fairness.  `RollupApi`: a polling handler goes on and gives up in the end (it
is a goroutine between timers), and the back-end goes back to `/finish` (the
API requires it, and without it no server can progress); nothing is assumed of
arriving inputs, outputs, exceptions or breaks, and nothing forces a handler to
notice that its client is gone, since a timer may win the select each time.
`Queries`: the client counts when it can, which nothing prevents, and its select
is not cut off by the end of the process each time (a strong fairness, as the
client asks again after each restart); the server owes nothing.
`Inputter`: the worker goes on (it waits only for the chain) and a process that
ended is started again, as long as there are lives left.  `Supervisor`: only the supervisor's own goroutine, whose
timers fire, is assumed to go on; its workers may hang.

Deadlock is checked in every run but `supervisor`, where `main` returns, and those
of the inputter, where the process ends and the last life is not followed by another.

## The proofs

`AppModelProofs` proves, for every finite set of inputs, every set of payloads
and every bound:

- `Invariance`: `IInv` is an invariant, hence `TypeCorrect`,
  `OnlyAcceptedPublish`, `IndicesGapless` and `CountsOrdered`;
- `VerdictsAreFinal`: no step changes a verdict;
- `Refinement`: `AppModel` implements `InputLifecycle`.

The only assumption is `ModelAssumption`: input indices are naturals, there
are finitely many, and the bounds are naturals.

`SupervisorProofs` proves, for any number of workers of either kind, the
inductive invariant (`Invariance`), the order of starting (`StartedInOrder`)
and who can be stranded (`StrandedLast`).  A worker that blocks for ever on
`ready` is possible: the send has no alternative, and the supervisor stops
listening when its timer fires or the context is done, or the poller of a
server worker does.  The invariant relates the position of the loop to the
workers: those before it are past their last send (`LoopFits`), and a poller
that has gone or is ready says what happened to its command (`PollersFit`), so
that only the worker the loop was left at can be stranded, and only with the
context cancelled.

The argument.  None of the safety properties is inductive alone.  A finish
publishes the outputs of `state.input`, so that outputs belong to accepted
inputs only because the input in progress has no verdict yet, which holds only
because nothing else decides it: `InProgressIsPending`.  Publishing from index
0 is gapless only because the input has no rows before, which follows from the
same fact and `OutputsOnlyOfAccepted`; for reports, which every verdict stores,
it takes `ReportsOnlyOfDecided`.  Counts of inspects are ordered because the one
in progress is the first that waits, and because the number of processed inputs
never falls (`CountMonotonic`).  `IInv` is the conjunction.  The proof splits it
into three parts, the tables, the inspects, and the state's agreement with both,
with a lemma per action and lemmas for the operators (`UpsertGapless`,
`OutputRowsShape`, `NextFits`).  `StepCases` says what any step does to the
tables: nothing, an arrival, or a decision of the pending input; the action
property and the refinement follow from it.

`ModelStoreProofs` proves for the writes taken one by one, for any number of
crashes and failing statements and every other constant, the inductive
invariant (`StoreInvariance`), hence types (`StoreTypeCorrect`) and gapless
numbering (`StoredGapless`), and that stored verdicts are final as long as no
statement failed (`StoredVerdictsFinal`).  A table is gapless in the middle of
a job only because each row still to be written has all rows of lower numbers
stored or before it in the job: `WritesInOrder`, which a job has when it starts
(`JobWritesFresh`, from the shape of the three lists and of their
concatenation), and keeps when its first write is made, since what that write
stores is what the others counted on (`OutputWritten`).  A row that an earlier
attempt left is updated, not added, so that it may be there already.  Verdicts
are final because an input in progress has a verdict only while its own job is
still writing what comes after the status: `JobFits`.  The invariants of
`AppModel` do not carry over: with a crash, outputs of an input that is not
accepted do stay (`store_rejected_outputs`).

`StoreOutputsProofs` proves, again for any number of crashes and failing
statements, that no output falls between a finish and the tables: what it has
stored and what it has yet to write are all that the request emitted
(`JobAlwaysComplete`), and hence an input shows as accepted or rejected only
with all of it stored (`OutputsAreComplete`).  Vouchers and notices have keys,
so that the rows left by an attempt that was cut short may stand for those of
the request when they are the same, and are updated when they are not.  Reports
have none: `ReportsFit` says that the last rows of the list are the first ones
of the request, whatever came before, and that the rest are the last writes
before the status.  As the status is the last write, nothing is left to write
when it is made.  That what is stored then stays takes the other invariant: a
job that writes outputs still has its status to write, and its input is
therefore undecided (`JobFits`).

`RejectedStoresNothing` is what remains of `api/rollup.yaml:90` in spite of
`store_rejected_outputs`: until a process first ends within a finish or a
statement fails, nothing that a rejected request emitted is stored.  An output is
written only by an accepting finish, and the rows of an undecided input are all
from the finish that decides it (`UndecidedRows`); it is a crash that lets them be
of an earlier one.

Assuming `Faults = {}`, it goes on to prove that `ModelStore` implements
`AppModel` (`StoreRefines`), so that what is proved of whole finishes holds of
the code that writes row by row.  The step of `AppModel` is the write of the
status; every other write, the start of the job and its end must change nothing
that a reader of decided inputs sees.  This needs `JobAlone` (`JobsAreAlone`):
nothing is stored of an undecided input but what its own finish has written.
Then the rows that the status uncovers are those of the request and no others
(`FinishStatus`), and for an exception, which writes its status first, the
reports stored and those yet to be written are always its list
(`ExceptionStatus`).  From the status on the abstract model is already in the
state that the finish will move to (`FollowingState`), although the code asks
for the next input only at the end: there is exactly one such state, as the
least index that waits is taken (`NextIsOne`), and nothing it depends on can
change before the mutex is released.  With a crash the refinement fails, and
should: outputs of an undecided input stay (`store_rejected_outputs`).

`InputterProofs` proves for any number of inputs and lives and any channel the
types (`InputterTypeCorrect`), `NoLogLost` and `DecidedInOrderAlways`.  The last is not
inductive: an input below one that is decided could still be on its way to the
model.  `InputterIInv` rules that out (`InputterInvariance`): each of the four
lists between the chain and the model is in the order of the box, each is below
the ones it is fed by, and all are above what this life has stored
(`LogsInOrder`); the request in progress is the first of its life that is not
decided (`FirstOfItsLife`), since what is added after it was taken is above it.
`NoLogLost` speaks of the logs that are due (`Due`): in the box, not added in the gap,
and not behind a log that the query found and could not decode.  It holds because a log
leaves a list only for the next one or the model, each of the two ends of the way holds
one log at most, and the iterator ends either when all four lists are empty, as it
drains the channel after it has learned that the query has sent all, or at a log that
does not decode: what it drops then is in order behind that log, and was all found by
the query (`WorkerFits`, `LogsInOrder`).  A log of the subscription that does not decode
ends the worker and loses nothing silently.
The invariant of `AppModel` is part of it and needs no new proof: each step is
one of `AppModel` or leaves its variables alone.

`RollupApiProofs` proves for any number of handlers, of rounds of a finish and
of breaks the types (`ApiTypeCorrect`), that outputs are recorded for the
request they were made for (`OutputsMatchRequests`) and that an input is decided
by the finish of the back-end that worked on it (`OnlyHolderDecides`).  Why it
holds though every round of a finish handler finishes "the current input":
`ApiIInv` (`ApiInvariance`) says that without a break there is one handler, the
one the back-end waits for, and that after its first round nothing is in
progress (`OneFinish`), so that only that first round can decide, and decides
what the back-end held (`HoldsInProgress`).  Once something broke there may be
two handlers, and the invariant claims nothing: see `api_first_finish`.

`QueriesProofs` starts with the page arithmetic: `PageWithinTotal` (no page has a
negative offset or limit or leaves the total), `ForwardPagesAdjoin` (the page after
the last row of a page begins where it ends, also when the total has grown),
`BackwardPageReachesCursor` (no hole before the cursor, and exactly up to it when
enough rows precede it).  It then proves every safety property of `Queries`, for any
walks with any page sizes and filters, any inputs and payloads and any number of
crashes, restarts and failing statements: types and page bounds (`QueriesTypeCorrect`), `WalksArePrefixes`,
`PagesAreFull`, `BackwardWalksHaveNoHole` and `ExecutedKept`, from the inductive
invariant (`QueriesInvariance`).

Why a client may hold an offset across statements, pages and finishes although
nothing is locked: every table grows at the end of the order in which it is read,
until an input is stored below another.  A new row comes after all there were,
because inputs are then worked on in the order of their indices and nothing is
stored of one that comes after one that waits (`WorkInOrder`), because the rows of a
finish are written in the order of their indices, and because reports are numbered
by their place until something is done twice (`WrittenOnce`).  An input is stored
below another only by a process that was started again (`LateIsOfAnotherLife`): the
worker of one life follows the box.  From then on (`late`) rows may appear in front
of an offset that a client holds.  The lemmas about growth at the end (`OutputsGrow`,
`InputsGrow`, `ReportsGrow`) assume that it has not happened; those that need no order
(`InputsStay`, `OutputsKept`, `ReportsAppended`, `MatchingCovers`) say that no row
leaves, so that a total that was counted is at most the total when the page is
selected.  `PagesAreFull` needs no more, and speaks also of a walk whose rows shift.
What a filter leaves of such a
table grows at its end too, when the filter stays true of a row it was true of; for
the filter on statuses this takes that the next input decided comes after all that
are (`MatchingFollows`).  Of a set of rows that only grows at its end, each row
keeps its offset (`FollowsOffset`), which is a fact about cardinalities: an offset
is the number of rows before.  Given that, the rest is arithmetic: the page is full
(`SelectIsFull`); a forward page begins where the walk stands (`ForwardSelects`); a
backward page ends where it stands or, when fewer rows precede than are asked for,
reaches into what was seen, but never past where the walk began, since a walk that
is not at the first row has at least one page's rows behind it (`BackwardSelects`).

What the properties leave out came out of that proof and of the runs.  Once an input
was stored below another, a walk may miss a row or get one twice: no document
promises that a cursor outlives a restart, so there is no run that shows it.  A crash
or a failing statement lets a request be done again, and then its reports are stored
again among those of before, the destination of a voucher may change, as the request
may emit another, and the flag of a voucher that was executed is written back to
false (`decoder.go:43`): reports, queries by destination and `ExecutedKept` are
therefore claimed until the first of these (`NoFault`), everything else beyond it.
And a backward walk must say how many rows it wants: a query
with neither a number nor a cursor gets the *first* rows, so that `QueriesAssumption`
asks for a size; of a client that leaves it out and of more than 1000 rows,
`BackwardWalkHasNoHole` would not hold.

`DataAvailabilityProofs`: the two epoch checks refuse complementary sets of
requests (`ChecksContradict`), no round of the loop returns a block
(`NoRoundReturnsABlock`), and a request for an Espresso block is answered 500
whatever status the fetcher chose (`EspressoAnswers500`), because its errors
have no text and the handler logs the text.  They describe the code as it is;
each is a defect, none of them one of state, so no run shows them.

Only model-checked: liveness (`EveryInputDecided`, `DueInputIsStored`,
`WalkCatchesUp`, `ExitEndsSupervisor`), which needs fairness and `ENABLED`, outside
the prover's reach, as is induction over data and anything in a module with
`RECURSIVE` operators (there is none).  Every invariant and every action property of
a run that passes is a theorem.

## Not modelled, and why

- The checks of content type, body and hex fields: a request they refuse
  changes nothing.
- `GetAbi` and the Celestia client: HTTP clients without a caller; the mock
  answers of the Espresso client, for tests only.
- The generated code but for the iterator and the subscription of the input
  box; the generators; the command lines of anvil; logging and the formatting
  of what is logged.
- Time: a timer may fire at any point, and the lengths of the intervals matter
  to nothing that is stated.
- Filters whose rows leave the result (the executed flag, a verdict): a walk by
  offset does skip rows of these.  The statements run with them, no property
  covers them.

## Plan

Done, in this order: `AppModel` with `InputLifecycle` and its proofs,
`ModelStore`, `RollupApi`, `Inputter`, `Supervisor` with its proofs,
`Pagination`, `Queries` and `DataAvailability` with the proofs about the
operators, the proofs about `ModelStore` and what it stores, those about
`Inputter` and `RollupApi`, the proof that `ModelStore` implements `AppModel`, the
proofs about `Queries`; then logs that do not decode in `Inputter`, and in `Queries`
failing statements and inputs stored out of order over a restart, with the proofs
about both.
