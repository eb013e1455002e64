# Deska, specified

Deska keeps the inventory of a computing centre in a PostgreSQL database with
versioned objects, generates configuration files from it and pushes them to
git.  This directory holds TLA+ models of the database's version control and
object history, of the server processes, of the client library and of the
command line client; what TLC checks about them; and theorems checked by
TLAPS.

Contents: [inventory](#inventory), [modules](#modules), [runs](#runs),
[findings](#findings), [proofs](#proofs), [not modelled](#not-modelled),
[plan](#plan).

## Inventory

| Part | State | Operations | Interacts with |
|---|---|---|---|
| Version control in the database (`install/create_tables.sql`, `server/db/fn-api-changeset.sql`, `fn-changeset_locks.sql`, `fn-revisions.sql`, `gen_sql/schema.py`) | tables `version` (revisions) and `changeset` (open changesets), the sequence of ids, session-level advisory locks | start, resume, detach, abort, lock, unlock, commit, restoring commit | called by any number of PostgreSQL backends; each call is a transaction or part of one |
| Object data (`gen_sql/constants.py`, `table.py`, `multiRef.py`, `template.py`, `merge.py`) | one history table per kind, rows `(uid, version, data)`; the `production` tables | create, delete, restore, rename, set, commit, the diffs | generated procedures; commit is called by `commit_all` |
| deska-server (`server/app/deska_server_utils`) | one process per session: `freeze`, `autocommit`, one database connection, a configuration generator | JSON requests, `freezeView`, batches, `commitChangeset`, `showConfigDiff` | the database; git; the generator scripts, which call back through a pipe |
| Configuration generators (`config_generators/gitgenerator.py`) | one primary clone for all servers, one `git-new-workdir` checkout per changeset, the upstream repository | open, generate, diff, save and push, nuke | called by deska-server in the middle of a database transaction |
| Client library (`src/deska/db`) | pending batch and batching mode, metadata cache, one pipe to a server | one method per request; conversions between JSON and typed values | deska-server |
| CLI: lines (`src/deska/cli/Parser*`, `SignalsHandler`, `UserInterface`, `DbInteraction`) | context stack, current changeset, cache of existing objects, `stableView`, flags of batch and execute files | one line: parsed, confirmed, performed signal by signal; completion, error messages | the client library |
| CLI: commands (`src/deska/cli/CliCommands*`) | current changeset, files, the place in the command | `rebase`, `backup`, `restore`, `resume` are long sequences of requests; `diff`, `log`, `dump`, `show` print | the client library, an editor |
| Python bindings | none | reading objects | the client library |

What is hard, and what makes each part correct:

* **Version control.** Statements of concurrent transactions interleave, under
  two isolation levels; sessions die and leave rows behind, and backend pids are
  reused.  Correct: revision numbers are 1..n, history is append-only and a line,
  a changeset belongs to one session, and what is started now can be committed.
* **Object data.** Copy on first touch from the parent revision, deletion and
  re-creation, rename, embedded objects that follow their host.  Correct: what a
  commit makes visible is the parent plus the changeset's changes; a revision
  never changes; the production tables hold the newest one.
* **deska-server and the generators.** A commit crosses from the database to git
  and back.  Every step may fail or be the last one, another server shares the
  clone, another session may steal the changeset.  Correct: a revision's output
  is upstream, a changeset marked fresh has its output, every call is answered.
* **Transaction modes.** A few requests switch to one long SERIALIZABLE
  transaction and have to switch back on every path.  Correct: what has been
  answered OK is stored, a frozen view has nothing to commit.
* **Client library.** Changes wait in a queue while other calls go on; a batch is
  refused, an answer is malformed, the server dies between a request and its
  answer.  Correct: the caller's account of its changes is true, requests and
  answers stay in step, the cached scheme is whole.
* **CLI.** A line is run twice, once to ask and once to act, over a context which
  both passes work out, with a cache of what exists; a file can be anything.
  Long commands can stop between any two calls while other sessions commit.
  Correct: nothing is done unasked, the passes agree, the cache is true, no work
  is dropped, what is printed can be read again.

`PROJECT.json` lists every hazard at its line.

## Modules

    Database and server
      RevisionLog      what clients are promised of revisions: a line of them
        ^ implemented by (ChangesetsLog)
      Changesets       the two tables, statement by statement
      ObjectStore      what clients are promised of the objects
        ^ implemented by
      ObjectHistory    history and production tables, the generated procedures
      ConfigCommit     commitConfig / showConfigDiff between database and git
      DeskaSession     the transaction modes of server processes

    Client library
      JsonMessages     requests and answers       JsonValues  typed values
      ChangeQueue      what a caller is promised of its changes
        ^ implemented by
      ClientLibrary    caching, batching, the pipe, the server at its end
      JsonRoundTrip    one conversion of JsonValues after another

    deska-cli
      CliParser        what is made of a line
        <- CliSession     the two passes, the handlers, the cache, batch and execute
        <- ChangeScripts  diffs, patches, rebase files and what their lines do
             <- CliCommands  rebase, backup, restore, resume, call by call
        <- LineReading    completion and errors      <- LogFilter   filters of log
        <- ObjectTexts    dump and show    ScreenTexts, ValueTexts  printing
      ClientReading    one text after another, of all these and of JsonRoundTrip

    Proofs: ChangesetsProofs, ObjectHistoryProofs, ConfigCommitProofs,
    DeskaSessionProofs, ClientLibraryProofs, CliParserProofs and, on top of it,
    CliCommandsProofs and CliSessionProofs.

**Changesets.** `num`, `parentrevision`, `status` and `pid` are the columns of the
two tables, indexed by id (one sequence numbers both; `num` 0 and status "NONE"
say that the row is not there).  `parentrevision` outlives the row of the
changeset, as a record of what a revision was based on.  `locks` counts the
session-level advisory locks, `live` the connected backends, and `tx` the call a
backend is executing.  All variables but `tx` are committed state: an
uncommitted commit is a `tx` record in stage "written", so a crash only forgets
the record.  A call is split where another transaction matters between two of
its statements: `StartRead`/`StartInsert`, `ResumeLock`/`ResumeAttach`,
`CommitCheck` (SERIALIZABLE: check and number from one snapshot) or
`RestoreCheck`/`RestoreNumber` (READ COMMITTED), then `WriteVersion` (waits for an
uncommitted twin in the unique index) and `CommitTransaction`.  All other calls
are one statement on a row of the caller.  PostgreSQL itself is external: unique
indexes, row locks, advisory locks and the two isolation levels are modelled by
how the procedures use them.

**RevisionLog, ChangesetsLog.** The abstract log: open a change on a revision,
drop it, or append it if its base is still the latest.  `ChangesetsLog` maps the
tables to it (`History` orders `version` by `num`) and states `ImplementsLog`,
for `Restorer = {}`.

**ObjectStore, ObjectHistory.** `history` is the rows of the history tables of two
kinds, hosts and the interfaces embedded in them; `production` the production
tables; `uid` the uids given out, `num` and `base` the condensed tables of
Changesets.  `At(n)` and `DataVersion(c)` are the queries that work out what a
revision and a changeset contain; each generated procedure is one action, and
refused calls are no steps.  Commit writes the production tables row by row as the
procedure does.  The store keeps whole states instead of rows; `ImplementsStore`
maps one to the other.

**ConfigCommit.** Several sessions; per changeset the number of changes made
(`edits`), `fresh` (`changeset.is_generated`) and the working directory; the
primary clone is `ahead` of upstream `scm` by the commits not pushed yet.  What
the generators write is a function of the database, so an output is named by
changeset and number of changes; `Partial` is a directory whose generators have
not finished, `Foreign` one where they ran in a session that had lost its
changeset.  `job[p]` is the call a server is executing and its stage; one action
per step of the Python code, one for each error path, and `Crash` at any point.
`dropped` is a history variable.  Version control is condensed: a changeset's
`parent` is how long the history was, and the database part of a commit is one
step that waits for another's uncommitted revision.

**DeskaSession.** One request per step; `autocommit` FALSE also means
SERIALIZABLE, since the code sets both together.  `open` and `view` are what the
session's open transaction has written and sees, `stored` and `saved` what is
committed, `snap` the snapshot of a serializable transaction, `answered` counts
the writes whose answer was OK.

**JsonMessages, ClientLibrary, ChangeQueue.** A public method is a call: the
exchanges it still needs (`call.todo`), whether it waits for an answer, what it
queues when they are done.  `requests` and `replies` are the two pipes; the server
serves or refuses, answers with another scheme, dies before or in the middle of
an answer.  The JSON of an exchange is sequences of nodes, handled as
`JsonHandler` does; changes are numbers.  A caller is promised a `ChangeQueue`:
`ImplementsQueue` maps `todo` to the changes waiting and `done` to those stored.

**JsonValues, JsonRoundTrip.** The typed values of the library and their JSON in
both directions, type by type, with what lexical_cast and the parsers of boost
accept; the run converts values, JSON of the wrong type, and damaged answers.

**CliParser, CliSession.** A line is a sequence of tokens; `ParseLine` is the loop
that calls one grammar after another as the context goes deeper, and gives the
signals.  `line` says where handling is (typed, confirming, applying), `todo` the
signals left; `cli` is the context, the cache `known`, `stable`, the flags;
`db` the live data, the changeset, the frozen view.  `past` records what the
properties need: what the user was asked for, whether a mistake known below has
happened (`taint`, `unlocked`), whether the line began where objects exist.

**ChangeScripts, CliCommands.** The diff of two states, its order and pruning,
and the files written from it, as items `[by, line]`; performing such a file
without questions.  CliCommands has one action per call of the server, with other
sessions' commits in between, failures and the death of the client.

**LineReading, LogFilter, ScreenTexts, ValueTexts, ObjectTexts, ClientReading.**
Completion and error messages; the filters of `log` as the client builds and the
server reads them; diffs, wrapped text, printed values, dumps.  Words and
widths stand for texts.  ClientReading draws one input after another.

Definitions named like the one after them with something added (`...Wrong`,
`AllExistAny`, ...) are plausible bugs of that definition.  Nothing uses them;
`PROJECT.json` says which property each one violates.

## Runs

| Run | Instance | States | What it shows |
|---|---|---|---|
| MCChangesets | 2 backends, 3 ids, each lock taken up to twice, nobody restores | 335,288 | `LinearHistory`: every revision was made on the one numbered before it. `NewestIsMaxId`: the revision that a new changeset is based on is the one its commit will be compared with. `OnlyOwnerEnds`: a pending changeset goes away only by the hand of the session it is attached to. `ImplementsLog` |
| MCRecovery | 2 backends which may both restore, 2 ids; fair | 14,407 | `Numbering`: 1..n without gaps or twins, although a restoring commit is READ COMMITTED. `AppendOnly`. `CallsReturn`: a commit or a resume that waits gets its answer |
| MCStolenLock | 2 backends, 2 ids | violated | see [findings](#findings) |
| MCConfig | 2 servers, 2 changesets with one change each, 3 git commits, nobody forces regeneration | 586,248 | `FreshMeansGenerated`, `ScmInRevisionOrder`; `OnlyResetLosesOutput`: when commitConfig makes a revision without its output upstream, that is the work of another session's reset of the shared clone, and of nothing else |
| MCConfigAnswers | 2 servers, 2 changesets, 2 git commits; fair | 142,005 | `AnswersComeBack`: a commit or a diff is answered |
| MCSession | 2 servers, 4 answered writes | 6,850 | `AutocommitStores`: what was answered OK waits for no commit. `FrozenIsReadOnly` |
| MCClient | 2 kinds, 3 objects, 3 changes; fair | 432,388 | `Accounted`: the caller's account of its changes is true. `InStep`: no answer is left behind for the next call. `MetadataComplete`, `ImplementsQueue`, `CallsReturn` |
| MCCli | 22 lines, a batch, two executed files, 3 databases; 4 lines, 1 fault | 385,595 | `CacheTells`, `ContextsAgree`, `ContextExists` (the kinds of a context nest, and its objects and those above them exist), `NothingUnasked`, `DeletesAreConfirmed` |
| MCCommands | 3 objects, 6 lines of ours, 4 changesets of others, 3 revisions, 2 edits, one changeset when rebase starts, 1 mishap | 321,394 | `MergeRight`, `OursPrevail`, `PatchRight`: what rebase and diff write does what it should. `PromptTells`, `RestoreRight`; `WorkSurvives`: a changeset is given up only when another one holds its work |
| MCRebaseLoses | as MCCommands | violated | see [findings](#findings) |
| MCReading | one text or value after another, drawn from sets of a few thousand | 51,048 | values, messages, completion, errors, filters, diffs, dumps (`ValuesSurvive`, `NothingMistyped`, `MessagesAreExact`, `OffersMatch`, `RefusalsAreTold`, `FiltersPartition`, `PrintoutsRead`, `TextsAreKept`) |
| MCHistory | 2 host names, 2 local names, 2 uids per kind, 3 changesets, 4 calls, from an empty database and from a populated one | 188,753 | `ProductionIsNewest`, `DiffIsPatch`, `ImplementsStore` |

**Bounds.** Two backends are enough for every interleaving of the pairs the code
protects against: two commits, a commit and a resume, a resume and a thief; three
ids allow a changeset whose parent is neither the first nor the last revision.
Locks are taken twice because session-level locks count.  Two servers and two
changesets are the least in which one clone is shared, a changeset is stolen
while its generators run, and a push follows another's failure; three git
commits allow a commit that is retried after both.  Three changes in a client's
queue make a batch with a first, a middle and a last one.  Four lines are: open a
changeset, go into an object, change something, look at the result.  The server
has four names for objects it has to name, as many as four lines use.  A mishap
or a fault at most once per behaviour shows what each failure does by itself;
two failures of a command in a row are not explored.  Four calls from the
populated state make a deleted and re-created, or renamed and moved, host
with its interface, and the commit.  For `Changesets`, `ObjectHistory`,
`ConfigCommit`, `DeskaSession`, `ClientLibrary`, `CliCommands` and `CliSession`
the [theorems](#proofs) say that the bounds do not matter for the properties
proved.

**Deadlock** is checked in all runs but three: MCHistory, MCCommands and
MCRebaseLoses stop when the bound on calls, revisions or edits is used up.

**Symmetry** is used in the runs of safety properties alone, over sets whose
elements the module treats alike.

**Fairness.** `Changesets` and `ConfigCommit`: `SF_vars(Proceed(p))` for every
session: the statements of a procedure that has been called follow one another, a
transaction that waits for another's end is woken, and a generator script ends.
Strong, since a waiting step may be enabled and disabled again by others that
come first; PostgreSQL's lock queues are fair.  No fairness of clients, who may
sit on a changeset or a lock for ever, and none of crashes.  `ClientLibrary`:
`WF_vars(Client) /\ WF_vars(Server)`: the library goes on with a call that has
begun, the server reads and answers or dies.

## Findings

**A locked changeset can be attached (MCStolenLock).** `resumeChangeset`
(fn-api-changeset.sql:165) tries the advisory lock with a `SELECT
pg_try_advisory_lock(id) INTO … FROM changeset` that has no WHERE: the lock
tried is that of whichever row comes first.  The session attaches the changeset
it asked for although another holds the lock, while the protocol says
(dbapi-protocol.tex:873) that this is impossible.

**Rebase creates objects nobody made (MCRebaseLoses).** In the file it offers, the
header of an object the others have changed is left out of comments unless *we*
have deleted the object (CliCommands_DiffRebase.cpp:517).  When we have renamed
it, or the host it is embedded in, the header creates a new empty object under the
old name, next to the renamed one; cli-app.tex:206 says that no change of ours
is lost.

Some more deviations are reachable in the models, and stated there, but are
checked by no run, because they say less or because a document is unclear:

* `Changesets!LockEndsWithChangeset`: the advisory lock outlives an aborted or
  committed changeset.  A restoring commit skips the check of the parent, so that
  `LinearHistory` is only claimed for sessions that do not restore.
* `ConfigCommit!RevisionIsPushed`, `FreshAtRest`: a reset by another session
  between git commit and git push makes the push succeed without the output;
  a forced regeneration that fails leaves the flag set.
* `DeskaSession!FrozenIsStill`, `NothingLost`: error paths (dbapi.py:387) leave a
  session isolated, and its later writes uncommitted until the next request
  that ends the transaction.
* `CliSession!ChangesStayInContext`: an attribute typed in a context with a filter.
* `CliSession!NothingUnasked` excepts lines that change something and then enter a
  filter (`host b role 1 end all host with role … interface x`): the question was
  about what the filter matched before the change (ParserSignals.cpp:445-457).
* `CliSession!Crashes`: when a line gives a contained kind's attribute to an object
  the server has yet to name (`new interface`, then an attribute of its port), or
  enters an object below one through a filter, the question cannot be put
  together: std::logic_error (DbInteraction.cpp:508, 727), which nobody catches,
  ends deska-cli.  Nothing of the line has been done by then.
* `JsonRoundTrip!ValuesSurvive` excepts MAC addresses with a byte of ff: operator<<
  (MacAddress.h:53) prints them, the constructor from a string (MacAddress.h:39)
  refuses them (MacAddress.cpp:35, `>=` where 0xff is a byte), so that one such
  address in the database makes the client refuse the whole answer.
* `ObjectHistory`: the data of an object renamed in a changeset can still be read
  under its old name, as it was in the parent (dbapi-protocol.tex:514 says
  otherwise); a name that was just freed (rename a to c, delete c, add a; two
  objects that swap names; a generated name like one just deleted) makes the
  changeset impossible to commit; `add` accepts a name the parent has, and
  only the commit fails; the difference backwards, from a later revision to an
  earlier one, is empty; the difference of embedded kinds reports a rename or
  move as one from new to new, or not at all.
* `ClientReading`: what `TextsAreKept` and `OutlineReads` except.

Found by reading, in the part that is not modelled: an object whose chain of
templates contains one deleted in the same changeset is left out of the resolved
tables by the commit without an error; `resolvedDataDifference` between revisions
does not report deletions (constants.py:1943, dbapi-protocol.tex:995).

## Proofs

Theorems hold for every value of the constants which the module's own assumption
allows (`ConstantsAssumption`, `SessionAssumption`, `ConfigAssumption` and
`TreeAssumption`: the bounds are numbers, the model values differ;
`LinesAssumption`, `ViewsAssumption` and `NamesAssumption`: lines and files are
sequences of tokens, an object of a view has a name for each level of its kind;
`SchemeAssumption`: a kind is embedded in one other at most, without circles
(objects-and-relations.tex:304-308), and contained kinds lie at the depth of the
kind that contains them, whose objects' names theirs share (merge.py));
nothing else is assumed.  Each inductive invariant was an invariant of a run of TLC
before it was proved, but for `UInv` of CliSession, which speaks of data that are
gone and of chains of contexts, more than TLC can enumerate; there TLC checked
the property itself.

| Module | Inductive invariant | Theorems |
|---|---|---|
| ChangesetsProofs | types; `CallsInProgress` (what a call in progress has written and read agrees with the tables); `PromisesDistinct` (two uncommitted commits never hold one number: the unique index); `RowsInUse`. Without restoring commits also `IdsInNumOrder`, `NumberedAfterParent` | `RevisionNumbering`, `HistoryAppendOnly`, `OnlyTheOwnerEnds`, `HistoryIsLinear`, `NewestHasMaxId`, `TablesImplementLog` |
| ObjectHistoryProofs | types; there is a newest revision; the condensed tables (`OpenIsNoRevision`, `NumsDiffer`, `BasesAreRevisions`); the rows (`RowsHaveKeys`, `RowsAreNumbered`, `HostsStandAlone`) | `RevisionsNeverChange`, `ProductionFollows`, `TablesImplementStore`, `DiffsArePatches` |
| ConfigCommitProofs | types; what each stage of a call implies about the clone, the directory and upstream; with `Forcing = {}` also what the flag says | `FlagNeverLies`, `PushedInOrder`, `RevisionsArePushed` |
| DeskaSessionProofs | types; which modes occur together; what an open transaction can hold in each | `AutocommitStoresAlways`, `FrozenIsReadOnlyAlways` |
| ClientLibraryProofs | types; `CallShape` (the exchanges a call still needs), `Pipes` (what is in them belongs to the exchange waited for), `Numbered` and `Balance` (changes queued, sent and stored), `SchemeShape` | `ChangesAreAccounted`, `PipesStayInStep`, `SchemeIsComplete`, `LibraryImplementsQueue` |
| CliCommandsProofs | types; `OneAttached` (the client is attached to one changeset at most, and which); `Stages` (which changesets are kept open at each call of rebase and restore); `Reports`; `Undisturbed` (what others have taken, while nothing has gone wrong). For the second theorem also `NewHolds` | `PromptIsRight`, `RebaseGivesUp` |
| CliParserProofs | none: facts about what `ParseLine` makes of any line in any context | `LinesLead`, `LinesNest` |
| CliSessionProofs | types; `Quiet`; `Confirms` and `Applies` (the signals lead from the context the line began with to the one the parser computed, the second pass has come as far as it has signals behind it, and deletes among them were allowed). For the third theorem also `CInv`: `InsideTells`, `OutsideTells` (what the cache says in a changeset, and in a frozen view), `Idles` (outside a changeset the signals behind the first pass change no data). For the fourth also `NInv`: `DataOf` (what the server holds are data), `Nesting` (every context that is kept, and those in the signals, nest), `PassStands` and `PromptStands` (what the context stands for is there). For the fifth also `UInv`: `Hears` (the first pass has asked about whatever the signals behind it may create, or it exists) and `Works` (the second pass works on objects that the context stood for in the data the line began with, and what the signals ahead may create is answered) | `PromptAgrees`, `NothingVanishes`, `CacheIsRight`, `ContextsAreThere`, `NothingIsUnasked` |

How the arguments go:

* **History is a line.** Two commits that both checked that their parent is the
  newest revision would both write max(num) + 1; the unique index lets one of
  them pass, so what is needed is that a number, once promised, is not promised
  again while the promise stands (`PromisesDistinct`), and that a commit's snapshot
  is either still current or its number is taken.  `IdsInNumOrder` is why
  commit_all may look at the highest id instead of the highest number, and it is
  what a restoring commit breaks.
* **The tables are a log, the rows are a store.** The refinement proofs map each
  step to a step of the abstract specification or a stutter.  For
  `TablesImplementStore` the heart is that a row is written only while its version
  is no revision: a revision's rows are never touched (`RevisionsNeverChange`), and
  at a commit the changeset's rows, and no others, turn into a revision.
* **Differences are patches.** `NamesAreUnique` (one object of a name in what a
  revision shows) does not follow from the rows' keys; the commit's writes to the
  production tables refuse a second object of a name, and what production holds
  is what the newest revision shows.
* **The flag never lies.** A session sets `is_generated` only in the transaction
  in which it still owns the changeset; a thief that owns it meanwhile has
  generated the same output, for an output is a function of what the database
  holds.
* **The queue.** A change is in the queue, in a request, or stored; what a refused
  batch leaves is what was there before it (`Balance`).

* **The prompt tells.** rebase detaches from one changeset, makes another and
  ends in either; which one the session is attached to is a function of the call
  it has reached, and an exit that changes the prompt comes only after the call
  that changes the attachment.  `PromptTells` excepts exceptions and a second
  mishap, and the invariant says where these would bite.
* **Rebase gives up nothing.** At the call that aborts a changeset the other one
  is open still, since only the session itself could end it; and when the old one
  is given up, the new one holds what the lines of the saved file made, one after
  the other, of its own parent.
* **The passes agree.** The parser's context is not stored signal by signal, so the
  invariant has a chain of contexts, one for each signal (`Along`).  That the
  parser's signals have such a chain is an induction over the tokens of the line,
  done over a set of numbers (`LinesLead`, in `CliParserProofs`); that the second pass is at the end of
  it, but for names, is one lemma per handler.
* **Nothing vanishes.** Only delete and rename take objects away, so a step that
  loses some applies a delete; the first pass let it pass when it was confirmed,
  and neither the flag of files nor that of the session can change in a line.

* **The cache tells.** In a changeset only this session changes the data, and each
  handler tells the cache what it has done (one lemma each, over what its change
  makes of the objects).  Outside one the cache would be wrong after any change,
  for the view it tells of is frozen; so what is needed is that nothing changes the
  data there.  The first pass refuses what would, but for an object that is
  entered: that one exists in the frozen view and has a name, so the second pass
  finds the same object and does not create it.  `CacheTells` excepts the paths on
  which DbInteraction does leave a wrong entry (`past.taint`).
* **The context exists.** That the kinds nest is again an induction over the tokens
  (`LinesNest`), and then a fact about every context the session keeps, since an
  error or a refusal may bring any of them back.  That the objects exist holds in
  the second pass, not only at the prompt: a handler that appends an item
  appends objects it has found, made or restored, and here `CInv` is needed, for
  finding is asking the cache.  delete and rename take away what the context
  stands for; the parser puts only the leaving of contexts behind them
  (`LeavesAfter`), so the invariant allows that state one signal long, with the
  items above intact (`PassStands`).  Those are intact because a change reaches
  only objects with as many names as its kind is deep, or more (`SameBelow`), and
  the depths of a context that nests grow item by item.

* **Nothing is unasked.** The first pass asks in the contexts of the parser, about
  the data as the line found them; the second creates in a context of its own,
  about data that the signals before have changed.  What ties the two is
  `Narrowly`: item by item, the objects the second pass works on are those the
  parser's context stood for in the data the line began with, under names the
  server gave where there was none.  An answer lasts: what was agreed to stays so,
  and what existed when it was asked about still does, or nothing but the leaving
  of contexts follows (`LeavesAfter`), so that the handler does not create it.
  The exception of `NothingUnasked` is where `Narrowly` fails: a filter that is
  entered after a change (`LateFilter`).  Of objects that had no name when the line
  was confirmed nothing contained is made unasked, for there the question ends
  the program (`Crashes`).

`CliParserProofs` begins with what the library has no first-order theorem for:
induction over the numbers for a set, and what `Append`, `Front`, `Tail`, `SubSeq`
and concatenation do to sequences of which no set of elements is known
(`IsSequence`), as contexts, lines and scripts are.

**Only model-checked.** Liveness (`CallsReturn`, `AnswersComeBack`) and everything
with ENABLED, which TLAPS does not support.  The properties of `ClientReading` and
`JsonRoundTrip`, over RECURSIVE operators.  Of `CliCommands`: `MergeRight`,
`OursPrevail`, `PatchRight` and `RestoreRight`, which say what the lines of a whole
file make of the data, an induction over the file for every order the parts can
have; and `WorkSurvives`, of which `RebaseGivesUp` proves the control: it compares
the outcome of two files up to the ids of objects.

## Not modelled

* **Templates** (`template.py`), **sets of identifiers** and **composition of kinds**
  (`multiRef.py`, `merge.py`): the recursion over templates is SQL that the
  generator writes for each scheme.  `ObjectHistory` has two kinds, one embedded
  in the other, with plain attributes; contained kinds, the difference of
  embedded kinds, `get_name` and a host of an interface that may be null are left
  out.
* **Changesets** leaves out the objects' data (what commit_all may refuse is
  `CommitRollback`), arguments that are refused before anything is read, and
  author, message and time of a revision.
* **ConfigCommit** leaves out the transaction mode after a failed call (that is
  DeskaSession's), the content of files, the children of a dead server, and the
  backend without git.  It has neither abortCurrentChangeset nor restoringCommit
  (dbapi.py:459), which makes revisions without any output: what it shows is about
  commitConfig and showConfigDiff.  Its `ResumeChangeset` leaves the advisory
  locks alone (the procedure takes and gives back one, which is Changesets'),
  `MarkChangesetFresh` is the commit, cfgGetDiff and unlock of showConfigDiff in
  one, and nobody forces regeneration in its runs.
* **DeskaSession** leaves out changesets taken away, malformed requests, the form of
  answers, and serialization failures of a session that stays isolated.
* **The JSON loop of the server** and **the JSON layer of the procedures** are seen
  from the client, in `ClientLibrary`, `JsonMessages` and `LogFilter`; what the
  server makes of a request that is malformed is not.
* **CLI.** A line stands for its tokens: white space and the shapes of identifiers
  are `LineReading`'s, strings and numbers `ValueTexts`'.  A last line of a file
  without a newline, an execute or a batch inside an executed file, and the
  commands `help`, `status`, `exit` and `configdiff` are left out.  Names of items
  in a filter are conditions on one attribute.  What the second pass does in a
  context that a malformed line has left with an object that has no name follows
  the cache in the model; the code may create another object, refuse, or fail an
  assertion there.
* **Python bindings** (reading only), **installation, scripts, documentation** and
  third-party code.

## Plan

1. `WorkSurvives`: two scripts of the same lines make data that differ by a
   renaming of ids; `RestoreRight` by the same induction over the lines.
