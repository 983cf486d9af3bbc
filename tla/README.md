# A formal model of Family Habit

Family Habit keeps a household's chores and points: children submit completed
chores, parents approve them, approvals earn points, points pay for rewards.
The server is a stateless Go HTTP API (`src/backend`) over one PostgreSQL
database; everything that can go wrong between two requests goes wrong in the
database, in the order in which handlers lock, read and write rows. This
directory holds TLA+ modules of that logic, TLC configurations that check them
on small households, and TLAPS proofs for households of any size.

- [Inventory](#inventory): the parts of the system
- [Modules](#modules): what models what
- [Runs](#runs): what TLC checks, the bounds, the fairness
- [Proofs](#proofs): what holds for every value of the constants
- [Findings](#findings): where the code and its documents disagree
- [Limits](#limits): what is left out, and why
- [Plan](#plan): what comes next

`PROJECT.json` maps every definition to the lines it models, and lists for every
hazard of the code the properties that would catch it.

## Inventory

A request passes the HTTP layer (`httpapi`), which authenticates its session
(`auth`), compares CSRF token and mode, and calls one service method. A service
method is one database transaction under READ COMMITTED. Components never call
each other across a network or keep state in memory (the login limiter is the
exception); they interact through the rows they share, mainly `sessions`,
`children`, `occurrences`, `point_ledger` and `idempotency_records`.

| Component (`src/backend/internal`) | State it keeps | Operations | What is hard | What makes it correct |
|---|---|---|---|---|
| Completion attempts (`completions`) | `occurrences.state, version`, `completion_attempts` | Submit, Withdraw, Today | a child withdraws while a parent decides; retries; profile switched in between | attempts explain the occurrence's state; a version names one state |
| Approvals and ledger (`points`) | `completion_attempts.decision`, `point_ledger` (append only) | Approve, Reject, Reverse, Correct; Pending, History, Ledger, Balance, Report | two parents at once; balance read before it is spent | every award, reversal, debit and refund posted exactly once; no balance below zero |
| Rewards (`rewards/service.go`) | `rewards`, `reward_child_availability`, `reward_redemptions` | Create, Update, Archive, Redeem, Fulfil, Cancel | balance, price and availability change while a child redeems; lock order | a redemption costs what the child was shown, refunds once |
| Periodic eligibility (`rewards/eligibility.go`) | `reward_eligibility_policies`, `reward_period_evaluations`, `reward_evaluation_adjustments` | PutPolicy, ensureEvaluation, progress pages | evaluation cut-offs against late commits; overlapping periods | an evaluation counts every award of its period once |
| Habits and assignments (`habits`) | `habits`, `habit_versions`, `habit_assignments`, `habit_schedules` | Create, Update, Deactivate, (bulk) Assign, change an assignment | changes that take effect today, after today's chore was submitted | history keeps the version it was done under |
| Materialisation (`habits.ensureDate`) | `occurrences` | EnsureDate (on every page of a day) | two at once, or one during a schedule change | one occurrence per assignment and day |
| One-off tasks (`habits`) | `one_off_tasks`, its occurrence | Create, Edit, Cancel | edited or cancelled while it is being submitted | price and child fixed once attempted; no attempt outlives a cancellation |
| Routine groups (`routines`) | `routine_groups.sort_order, version, archived_at` | Create, Update, Reorder, Archive with a move | a unique index checked row by row while positions are renumbered; a count taken beside an archival | positions stay distinct and dense |
| Child profiles (`children`) | `children`, `sessions.mode, active_child_id` | Create, Update, Archive, Enter, Leave | archived while in use | no session in the profile of an archived child |
| Sessions (`auth`) | `sessions` | Login, Authenticate, UnlockParent, LockParent, Logout | idle expiry read and written in two statements | a mode is only gained by a credential |
| Login limiter (`httpapi/auth.go`) | in-memory map of failures | Allow, Fail, Success | the check and the update are two critical sections | failures stay near the limit of the window, the map near its size |
| Idempotency keys | `idempotency_records` | Reserve, Store, replay | a key repeated while, or after, it is served | an effect per key |
| Household calendar (`localdate`, `eligibility.go`) | none | local date, period bounds | month ends, clock changes | periods tile the calendar |
| Database guards (`migrations`) | triggers, unique indexes, foreign keys | on every write | foreign keys take locks of their own | rows that never change stay so |
| Migrations, pool, configuration, health, entry points | none | start-up | none of their own | not modelled |
| Frontend | what it was shown, its keys | send, repeat | repeats until it succeeds | modelled as what it sends |

## Modules

| Module | What it is |
|---|---|
| `Accounts` | The abstract promise: an account per child, items that credit or debit one account once, may be undone once unless settled, and never overdraw. |
| `PointsLedger` | Occurrences, attempts, ledger, balances and redemptions; every action is a whole handler, from locks to commit. Implements `Accounts` (`KeepsAccounts`). |
| `PointsLedger_proofs` | The theorems about its own properties. |
| `Accounts_proofs` | That it implements `Accounts`. |
| `RowLocks` | PostgreSQL's row locks (external): modes, which clash, what a transaction holds, who waits for whom. |
| `LockScripts` | The lock statements of the handlers of points, rewards and tasks, in order. |
| `PointsTx` | `PointsLedger` + `LockScripts`: concurrent requests, statement by statement, with retries, aborts, and sessions that lose their mode. Every commit is a step of `PointsLedger` (`Serializable`). |
| `PointsTx_proofs` | The theorems about it, and what `PointsLedger` keeps through it. |
| `LockOrder` | The lock statements of the other handlers too, every handler against every other: which pairs deadlock. |
| `LockOrder_proofs` | That no other pair does, whatever rows the requests work on. |
| `RoutineOrder` | The positions of routine groups: create, update, reorder and archive, statement by statement and, for statements over several groups, row by row. |
| `RoutineOrder_proofs` | The theorems about it. |
| `Scheduling` | One habit: its versions by date, its assignments with their ranges, and the occurrences that opening a day's page generates, in two steps. |
| `Scheduling_proofs` | The theorems about it. |
| `Eligibility` | Periodic eligibility of one child: policies by date, the lazy evaluation of a closed period, reversals that adjust it, redemptions that it limits, and the clock. |
| `Eligibility_proofs` | The theorems about it. |
| `LoginLimiter` | The map of failures: Allow, Fail, Success, as operators on it. |
| `Sessions` | `LoginLimiter` + `sessions` + `children.archived_at`: concurrent requests that authenticate, offer credentials, enter profiles and archive children. |
| `Sessions_proofs` | The theorems about it. |
| `MC...` | Constants for TLC. |

**PointsLedger.** `state`, `version`, `points` are columns of `occurrences`,
`attempts[o]` the decisions of its `completion_attempts` by attempt number,
`ledger` the rows of `point_ledger`, `balance` the sum the code computes over
them, `redemption` the rows of `reward_redemptions`. A handler is split into its
checks (`SubmitOK`, `Pending`, `ReverseAffordable`, ...) and its writes
(`SubmitEffect`, ...), because `PointsTx` needs them at different moments. Two
variables stand for what other components decide: `open` is the set of
occurrences whose date and source accept a submission, `offer` the price at
which a child may redeem a reward (0 when it may not: archived, not available to
the child, not eligible, or the feature is off). `Reschedule` and `Reprice`
change them arbitrarily, which covers whatever those components do. The indexes
and triggers that forbid a second award, a second pending attempt or an
unlinked reversal are left out on purpose: that the invariants hold without them
shows that no handler relies on them. One guard is kept, the trigger
`occurrences_snapshot_immutable`, because the edit of a task does rely on it.

**PointsTx.** A process is a request. It passes the lock statements of its
handler one by one (`Advance`), checking what each returned; reads without a lock
are steps too, so that what they saw may be old when the next statement runs.
It applies all writes at its commit, since nobody else sees them before, and may
stop at any statement (`GiveUp`: a failed check, a lost client, a crash, a
deadlock). A client sends a first request from what the screen shows (`Shown`:
the version or price is kept from then on, however stale) and repeats it under
the same key, also while the first one is still being served. `Demote` is a
profile switch or a lapse of parent mode from another tab. The history variable `screen` keeps the row, its
attempts and its price as they were when the user saw them (`Pictured`), which no
handler reads: `ActsAsShown` compares it with what a commit acts on, where the code
compares only the version (`VersionMatches`). `Serializable` would not miss that
comparison, because the handlers of `PointsLedger` do not make it.

**LockOrder.** A process runs the locks of one of 33 handlers; `Detect` is
PostgreSQL's deadlock detector. A request names the rows it works on; where a
statement or a loop locks several, it lists them, in the order in which they are
met, which is any order unless the code sorts them (`Described`: materialisation
and bulk assignment go by the children's ids). `Described` also says what a
`WHERE` clause selects: a handler of a habit, or of an assignment, only meets
occurrences and assignments of its own. `KnownDeadlocks` and `SessionDeadlocks`
list the pairs that can wait for each other, grouped by the two rows they take in
opposite orders; `DeadlocksAreKnown` says that there are no others.

**RoutineOrder.** `row` holds the committed groups, `own[p]` what the
transaction of request `p` has written, which it also holds locked; `Latest` and
`Visible` are what a statement of `p` sees. `UPDATE` of several rows is `Open`
(the snapshot finds the rows), one `UpdateRow` each in any order, and `Close`. A
row that another transaction holds is waited for, and the `WHERE` clause is
evaluated again on what it left (`Matches`). `Occupied` and `Contended` are the
unique index `routine_groups_active_sort_order`: it refuses a position that
another row has, and waits for a transaction that is about to leave or take it.
A request that the index refuses cannot take its step; all it can do is `GiveUp`,
as after any other error.

**Scheduling.** `versions`, `asg` and `occ` are the rows of `habit_versions`,
`habit_assignments` (with the schedule) and `occurrences`; `inactive` is
`habits.inactive_from`. A *title* stands for what the habit looks like, a *plan*
for the points, the schedule and the group of an assignment, and `DueOn` for the
dates that its schedule produces. A generation is `Open`, the snapshot of the
`INSERT ... SELECT` with the children and the habit it holds `FOR SHARE`, and
`Ensure`, its commit, which skips the rows that exist by now and fails on an
assignment that is gone. Every other request is one action, its commit, guarded
by the row locks it needs to be free: what it reads it has locked, so nothing
happens in between. What the exclusion constraint and the foreign keys refuse is
a guard on the new state. `late` marks a row that was out of date when it was
inserted; it is there for `FreshIsCurrent` to say what it excepts.

**Eligibility.** A day stands for the instants between two midnights or ends of
grace, so a cutoff falls between two days. `award` and `reversal` hold, for an
occurrence, the day its transaction began (`point_ledger.created_at`) and the day
it was committed (when others see it): the two differ for a transaction that
straddles a midnight, at most `MaxLag` days. `putting` is a change of the policy
that already read today's date. `Scored` is `scorePeriod`, `Final` and `Look`
`ensureEvaluation`, `Adjustable` the trigger on `point_ledger`. `Redeem` evaluates
and uses the evaluation in one step, as the code does under the child's lock.

**LoginLimiter and Sessions.** `attempts` is the map of the limiter; each of its
three operations holds the mutex, and the caller verifies the credential between
them. A request of `Sessions` has a `step`: it reads its session (`Authenticate`);
if Parent Mode was idle, or the session in a profile, it writes the session in a
statement of its own (`Demote`, `Repair`); asks the limiter key by key (`Ask`);
verifies; acts; and tells the limiter (`Settle`). `Select` and `Enter` are the two
statements of `children.Enter`, with the child's row held between them, which
`Archive` waits for. `last` is the activity that a demotion read. `End` is a
logout, or the end of the session's 30 days.

## Runs

| Run | Configuration | Question |
|---|---|---|
| `ledger` | `MCPointsLedger` | Do occurrences, attempts, ledger, balances and redemptions always agree, and do they implement `Accounts`? |
| `chores` | `MCPointsTx` | Do submissions, withdrawals, approvals, task edits and cancellations stay serialisable, once per key, under the session's mode, and act on what their screen showed? |
| `points` | `MCPointsTxLedger` | The same of everything that moves points; no balance is spent twice. |
| `locks` | `MCLockOrder` | Which pairs of handlers deadlock, and does every request end? |
| `authority` | `MCPointsTxAuthority` | Finding: a parent mutation commits after its session changed profile. |
| `redeem_locks` | `MCLockOrderRedeem` | Finding: of these two handlers alone, a redemption and a reward edit deadlock. |
| `routine_order` | `MCRoutineOrder` | While groups are updated, reordered and archived at once, do positions stay dense, does a reorder ever meet the unique index, does a stale request change anything? |
| `routine_archive` | `MCRoutineOrderArchive` | Finding: archiving the second of three groups fails on the index. |
| `routine_create` | `MCRoutineOrderCreate` | Finding: a group created beside an archival leaves a gap. |
| `scheduling` | `MCScheduling` | A habit is changed, assigned, replaced and deactivated at any dates while a page is generated: does what is left to do agree with the schedule, and does no change meet a constraint? |
| `eligibility` | `MCEligibility` | Does what an evaluation counts depend on when somebody looks, on transactions open at a cutoff, or on changes of the policy? |
| `sessions` | `MCSessions` | Two requests on two sessions: who changes a mode, does a profile outlive its child, do concurrent attempts pass the limiter? |

All runs finish within three minutes with two workers (the largest, `sessions`
and `eligibility`, have three and two and a half million states).

**Bounds.** `ledger` has two children (an award of one must never touch the
other), one chore with two attempts (a second one follows a rejection or a
withdrawal), two point values and two prices, two redemptions (two debits of one
balance, one cancelled and one fulfilled), one correction and one task edit:
`MaxAttempts`, `MaxEdits`, `Redemptions` and `Corrections` bound what would grow
for ever. `Conservation` needs exactly these: every term of its sum occurs. The
proofs drop all of these bounds. The `PointsTx` runs serve two requests at a
time from six or nine keys over the same child and the same chore; the keys are chosen so that every
pair that shares a row meets, and so that the same key meets itself. The two
parents, and the two devices of the child, have their own sessions, so that the
session's lock never hides a missing lock on a row. `MaxEdits` is out of reach
there: an edit happens once per key. In `locks` every row that
handlers can share is the same row, so any two handlers that could meet do; a
handler that lists rows lists two, and a second request of it lists them the
other way round, or other ones. Each listed pair is reached. The theorem
drops these bounds.
`RoutineOrder` has three groups, the least with one between two others, and two
requests; `MaxVersion` ends the updates of a group after three. `CreatesOverlap`
says whether a group may be created while another request is served: the run
`routine_order` forbids it, because of the finding, and everything it shows is
under that assumption; creations between requests are part of it.

`scheduling` has three days, of which the page of the second is opened: there are
days before and after it at which a change may take effect. Three assignments and
three versions allow a split of a split; one of the two plans leaves day 1 out, so
a replacement may have no occurrence where its predecessor had one. The proofs
drop these bounds. `eligibility` has seven days and weeks of three, so two weeks
close, each followed by a day of grace and days without; policies are daily (one
redemption), weekly with a day of grace (two redemptions), or off, and change
twice, enough to return to the first frequency. Each exception its properties name
is reachable: two evaluations that overlap, a reversal that only one of them sees,
one made before the first look and after the cutoff, one of an award that was not
counted, two redemptions of one evaluation, a change of the policy that straddles
midnight. `redeem_locks` serves redemptions and reward edits only, since `Redeem`
has other listed deadlocks with shorter traces. `sessions` has two requests, two
sessions (a parent archives the child whose profile the other enters), one child,
and every limit at its least: a window, an idle time and a limit of one, a map of
one key with five keys to hold, so that `KeysBounded` (which allows four) is not
true of every set of keys. `MCSessions` also has TLC evaluate, over every list of
up to five failures in order (`AfterFilters`), that the limiter keeps what
filtering them one by one keeps.

**Fairness.** Only `LockOrder` has liveness (`EveryRequestEnds`). `Advance` is
strongly fair per process: PostgreSQL queues the waiters of a row and serves them
in turn, so a request whose row is free again and again gets it. `Commit` is
weakly fair: a handler does not sleep. `Detect` is weakly fair: the detector runs
while a deadlock lasts (`deadlock_timeout`). Nothing is assumed of `GiveUp` or of
new requests: no handler sets a timeout, and the property must not rely on one.

**Deadlock.** TLC's own check is on in `ledger`, `locks`, `redeem_locks`, `scheduling` and
`sessions`.
`PointsTx` turns it off because a client may stop asking: once every key has its
response, or nothing more is offered, the system rests. `RoutineOrder` turns it
off because its groups and their versions are bounded, `Eligibility` because its
calendar ends.

**Symmetry.** The processes of `PointsTx`, those and the groups of
`RoutineOrder`, the assignments' ids and the titles of `Scheduling`, and the
requests and sessions of `Sessions` are interchangeable, and their runs check only
safety and action properties.

**What is only model-checked.** Every other property of the passing runs is a
theorem below. These are not:

- `Conservation` is a sum over finite sets; the library's facts about such a fold
  take an operator as a parameter, which the installed provers cannot instantiate.
- `EveryRequestEnds` is liveness.
- That every pair of `KnownDeadlocks` and `SessionDeadlocks` does deadlock: TLC
  reaches each of them; the theorem is about the others.

Where a theorem has a hypothesis on the constants (`MaxLag <= 1`,
`~ CreatesOverlap`), the run has it as well; what happens without it is said with
the theorem.

## Proofs

`PointsLedger_proofs` shows, from `PointsAssumption` alone (disjoint identifiers,
positive points, amounts and prices), for any household and any bounds:

| Theorem | Property |
|---|---|
| `TypeCorrect` | `TypeOK` |
| `AttemptsAlwaysAgree` | attempts explain the state of their occurrence |
| `LedgerAlwaysAgrees` | the ledger holds exactly the rows the states call for |
| `AlwaysSolvent` | no balance below zero |
| `AlwaysPostedOnce` | balances change only by one new row, rows never go |
| `VersionsAlwaysCount` | whatever changes of an occurrence moves its version by one |

The argument has three layers, each proved from the one before.

1. `Shape`: the types, and that a redemption is the row `NoRedemption` exactly
   while its state is "none", and otherwise has a child and a positive price.
   `TypeOK` alone is not inductive: a refund is typed only because a requested
   redemption has a child.
2. `AttemptsAgree` and `LedgerAgrees` on top of `Shape`. They are connected:
   a reversal finds its award because the state says "approved"; an edit of a
   task cannot change what an award in the ledger should amount to, because an
   occurrence that is "not_started" has none; an approval posts a row that was not
   there, because "pending_approval" has neither award nor reversal.
3. `Solvent`, `PostedOnce` and `VersionCountsTransitions` on top of both. That a
   refund is a new row, and so adds to the balance by exactly one row, needs
   `LedgerAgrees`: `ledger \cup {e}` would otherwise swallow a duplicate. No run
   checks `VersionCountsTransitions`: what it is good for, `ActsAsShown`, is checked.

Each invariant has one lemma per action that can disturb it (`...KeepsLedger`),
and one for all the actions that leave the ledger's variables alone.

`Accounts_proofs` adds `ImplementsAccounts` (`KeepsAccounts`), from the same
assumption. The mapping reads an item off its ledger rows with a `CHOOSE`, so half
of the module says which row that is: at most one award, one debit (by
`LedgerAgrees`), one correction of an identity. This last part is an invariant of
its own, `CorrectionsUnique`, since no other table tells two corrections apart.
Then every handler maps to one step of `Accounts` (apply, undo, settle) or leaves
funds and items alone; that the step is enabled there, that is, that an item was idle
and the account affords it, is again `LedgerAgrees` and `Solvent`.

`PointsTx_proofs` shows, from `PointsAssumption` and `TxAssumption` (a request
names a chore with its own child and, where its handler inserts a row, an identity of
its own), for any number of processes, keys and sessions:

| Theorem | Property |
|---|---|
| `Serialization` | every commit is one step of `PointsLedger` |
| `ConcurrentHandlers` | so the three invariants, the two action properties and the refinement of `PointsLedger` hold of concurrent handlers |
| `KeysExecuteOnce` | a key takes effect once |
| `AuthorityAlwaysHeld` | handlers that lock their session commit only in the mode they checked |
| `EditsAlwaysUnattempted` | the price of a task changes only while nobody has attempted it |
| `ActsAlwaysAsShown` | a submission, withdrawal or decision acts on the row its screen showed |

The inductive invariant `TxInv` says what a transaction may rely on between the
statement that checked something and the commit that uses it:

- `Exclusive`: a row that one process holds for update is held by nobody else.
- `Serving`: a process goes through the script of the request whose key it serves.
- `Secured`: what the statements it passed have checked (the state of the occurrence,
  the offer, the redemption, the balance, the key, the mode of the session) is true of
  the committed rows *now*. Each other process's commit preserves it, because
  a commit that would change any of it holds the same row; the balance is the
  exception that shows the design: it has no row, and it is stable since whoever
  spends points holds the child.
- `Counted`, `AskedPrice`, `Inserted`: what a key did is counted once, a
  redemption's price is the one first asked, and a redemption or correction row
  exists only if its key is done.

At the commit, `Secured` makes every check of the atomic handler true, so
the commit is its step. `Reschedule`, `Reprice` and `Demote` wait for the rows they change,
which is why `Secured` survives them too.

`ActsAlwaysAsShown` has an invariant of its own on top, `ShownInv`: a version names
one row, so as long as an occurrence has the version that a key was asked with, it
is as the screen showed it, and its version is never below that one. Every commit
that changes the row moves its version on (`MovesVersion`), past all that were
shown. Whoever holds the row and has found the version it was shown has therefore
found what was shown, however many withdrawals and new submissions came between.

`Scheduling_proofs` shows, from `SchedulingAssumption` (a calendar, and plans with
dates in it), for any number of pages, children, assignments and days:

| Theorem | Property |
|---|---|
| `TypeCorrect` | `TypeOK` |
| `VersionsAlwaysTile` | every date has exactly one version of the habit |
| `HabitAlwaysHolds` | what may still be done looks as the habit does, and the habit is in use |
| `FreshIsAlwaysCurrent` | what may still be done is what generating it now would make it, but for `late` rows |
| `SplitsNeverCollide` | no change of an assignment meets the exclusion constraint |
| `DaysAlwaysChangeHands` | days are gained and lost only by assignments and deactivations |
| `NothingIsForArchived` | nothing is generated for an archived child |

The inductive invariant `IInv` adds two parts to what the run checks. `NoOverlap(asg)`
is the constraint itself; that a split of an assignment keeps it, on either side
of the split, is why the code may rely on never meeting it. `GenerationHolds`
speaks of the rows of a generation that is under way: their children are not
archived, their dates are before the habit's end and they look as the versions
say. `HabitHolds` alone is not inductive, because the rows of a snapshot become
occurrences later; what keeps them true is that whoever archives a child or
changes a habit must wait for the locks that the generation holds. `VersionsTile`
supports even the types: `UpdateHabit` takes *the* version of a date, and that there is
one is what the invariant says.

`FreshIsAlwaysCurrent` has a second invariant on top, `CInv`: ids are not reused
(`IdsOnce`), an assignment has one occurrence for a day, also within a snapshot
(`OccurrencesOnce`), and what is not tried and not late was made from an
assignment that still asks for it (`Founded`). A replacement keeps `Founded` because
it removes what it replaces from the day it takes effect; that no second
assignment asks for the same day of a child is `NoOverlap` again.

`Sessions_proofs` shows, from `LimiterAssumption` and `SessionsAssumption`, for any
number of sessions, children, keys and concurrent requests, and any limits:

| Theorem | Property |
|---|---|
| `TypesAlwaysCorrect` | `TypeOK`, with the shape of a session |
| `ProfilesAlwaysActive` | no session stays in the profile of an archived child |
| `ModesAlwaysChosen` | a mode changes only by a request for it, by idleness, by an archival, or by a page that read the session before |
| `FailuresAlwaysBounded` | the failures that count for a key exceed its limit by less than the requests in progress |
| `KeysAlwaysBounded` | the map exceeds its size by less than two keys for every request in progress |

The `IInv` of `Sessions` describes requests in progress (`RequestsSound`): one that is about to enter a
profile holds the child, which is therefore not archived until it has entered; one
that is about to end Parent Mode read it when it was idle, and time only moves on,
so either it still is, or its activity changed since, which is the exception
that `Undone` names.

The bounds of the limiter are inductive only together with the requests. A request
that Allow let through may fail, so it is counted as a failure of its key until it
has told the limiter how it went (`Carrying`); failures that count and such
requests together are at most `Limit - 1` and one for every request
(`FailuresCounted`). Ask moves a request into that sum only while the limit is not
reached; Fail turns a request into a failure, which leaves the sum alone. The map's
keys are counted in the same way with the keys that are carried (`Carried`), of
which a request has at most two.

`Eligibility_proofs` shows, from `EligibilityAssumption` (a calendar of days and
weeks, terms of policies, a bound of at least one version), for any occurrences,
calendar and number of policies:

| Theorem | Property |
|---|---|
| `TypeCorrect` | `TypeOK`, with the unique keys |
| `AwardsAlwaysCount` | an evaluation counts the awards that were there at its cutoff, whenever it is made |
| `ReversalsAlwaysDiscount` | a reversal takes away once what was counted, but for the exceptions it names |
| `RequestsAlwaysEarned` | a redemption falls in the period after the one that earned it, and within the limit |
| `OverlapsOnlyOnReturn` | a day counts twice only where a frequency returned (`MaxLag <= 1`) |
| `PastIsGoverned` | a change of policy leaves every day until today to its version, but for today if the change straddles midnight (`MaxLag <= 1`) |

`EInv` adds the order of the clock: transactions are committed after they began
and neither is later than now (`TimesInOrder`), an evaluation is of a whole period
whose cutoff has passed, over what was committed (`PeriodsClosed`), a version's
number is not given again (`NumbersOnce`), the first version is never deleted
and at most one waits (`OneWaits`). So a scored period cannot gain an award: one
that is committed later began later, or is the exception in `AwardsCount`.
The hypothesis `MaxLag <= 1` says that no transaction stays open over two midnights.
The code gives requests 15 seconds to be read and answered (`cmd/api/main.go:39`),
so one midnight is what a transaction may straddle. It is needed: with two, TLC
finds a change of policy that reads its date, commits two days later and takes
the day between from the version that governed it. With it, `OwnersStay` is
inductive: the version that owned the first day of a scored period still does,
because a change takes effect after the day it read, which is at the earliest
yesterday.

`RoutineOrder_proofs` shows, from `RoutineAssumption` (finitely many groups), for
any number of groups, versions and requests:

| Theorem | Property |
|---|---|
| `TypeCorrect` | `TypeOK` |
| `StaleAlwaysLoses` | no request commits over a version its client was not shown |
| `DenseAlways` | active positions are distinct and dense (`~ CreatesOverlap`) |
| `ReordersNeverCollide` | a reorder never finds a position taken, in whatever order it meets the rows (`~ CreatesOverlap`) |
| `ArchivesKeepOrder` | an archival keeps the order of the others (`~ CreatesOverlap`) |

The first two hold with creations at any time, by `RInv`: transactions never hold
one row twice (`Exclusive`), each goes through the statements of its operation
(`Follows`), and a row it checked is held and as it was (`Keeps`). The others
need that no group is created while another request is served, since finding 4
violates them otherwise; creations between requests are covered. `OInv` then
describes every statement in progress (`Ordering`). Its points are these. Who shifts positions
for a reorder or an archival comes to hold every active row, so no other request can
change a position or archive a group meanwhile, and the count taken before stays
right. A shift by the count leads beyond every position in use, when positions are dense,
so a reorder meets no taken one, neither on the way out nor on the way in. After an
archival positions are not dense, which is finding 3; but if the index let the shift
pass, the ranks of the rows that stay are again all of `0 .. n - 1` and in
the order of the positions (`RanksFill`).

`LockOrder_proofs` shows, from `LockAssumption` (what requests are about, see the
module's `Described`), for any rows, lists of any length and any number of
requests served at once:

| Theorem | Property |
|---|---|
| `DeadlocksAlwaysKnown` | two requests that wait for each other are one of the listed pairs |

The argument reads each script once instead of comparing every two. `Rank` orders
the tables, and `Turns` says, of a handler that holds a row of one table and asks
for one of another, which handlers do that and in which modes, wherever it goes
against `Rank` (`Falls`) or answers somebody who does. A lemma for each handler
shows that its script keeps to `Turns` (`...Order`, gathered in `Scripts`),
whatever lists it is given. Of two requests that wait for each other one goes against `Rank`, and
`OpposedFall` goes through the 27 ways to do so: the modes clash only for pairs
that are listed, but for a few (`Excluded`). These never come to that, because
what they already hold keeps one of them out: the key, the habit, the assignment,
or a child with a smaller id (`Guarded` says which lock a script takes before
which, `NotExcluded` draws the conclusion). It needs the invariant `NeverClash`:
what two requests hold never clashes, for every mode of lock, which is that a lock
is granted only while nobody holds a row in a mode that clashes.

## Findings

1. **A redemption can deadlock with an edit of its reward.**
   `docs/phase-9-routines-rewards-contract.md:215` promises "a legal winner, no
   deadlock", `:103` the order child, then reward. `rewards.Update` locks the
   reward and then, through a foreign key, its children (`rewards/service.go:195`).
   PostgreSQL aborts one of the two, and no handler retries or maps the error.
   Run `redeem_locks`, which serves these two handlers only; on one session, a redemption
   also deadlocks with decisions and corrections (`SessionDeadlocks`).
2. **Most parent mutations do not hold on to parent mode.**
   `docs/phase-4-validation.md:13` says they re-check the session "inside their
   transactions, preventing a concurrent profile switch or idle lock from
   retaining privilege". Approvals do (`FOR UPDATE` on the session); habits, tasks,
   rewards, routines and profiles read it without a lock (`habits/service.go:92`),
   so a switch between that check and the commit goes unnoticed; waiting for other
   rows makes the gap longer. Run `authority`; what does hold is
   `AuthorityHeld`, for the handlers that lock their session.
3. **The second of three routine groups cannot be archived.**
   `docs/phase-9-routines-rewards-contract.md:62` lets an unused group be archived
   and `:43` compacts the order of the others. `routines/service.go:414` adds the
   number of remaining groups to each position, under an index that is checked row
   by row: with positions 0 and 2 left, 0 + 2 is still in use. Run
   `routine_archive`. The reorder, which does the same over dense positions, is
   free of it (`ReorderNeverCollides`).
4. **A group created beside an archival leaves a gap.** `:32` of the same contract
   has positions dense. `routines/service.go:149` takes the number of groups it
   sees as the position of the new one, and an archival in flight makes it wrong.
   Run `routine_create`. The next archival or reorder closes the gap; until then a
   creation may be refused, since the number of groups is a position in use.

`DeadlocksAreKnown` documents the other lock orders that disagree; `DeadlocksAlwaysKnown`
proves that the list is complete, for two requests. The database
ends them, so they cost an error rather than a wrong row.

### Remarks

What the code does and no document denies clearly, or what a property excepts by
name:

- **Tasks.** `UpdateTask` compares the attempts of a task in the
  statement that waits for the task's lock, and a statement that waited does not
  look at other tables again. A submission that committed and was withdrawn
  meanwhile is therefore invisible to it; only the trigger
  `occurrences_snapshot_immutable` keeps the price (`EditsUnattempted`, whose
  mutant removes the trigger). A submission still pending is seen, because the
  state is in the locked row.
- **Generation** locks children and habits but not assignments
  (`habits/service.go:850`), although it says it is safe to call concurrently
  (`:827`). A page whose snapshot precedes a change of an assignment inserts an
  occurrence of the old plan, and the next page one of the new (`late` in
  `FreshIsCurrent`). If the assignment was deleted, the page fails on the foreign
  key.
- **Deactivating an assignment** that ended already, from a later date, makes its
  range longer (`habits/service.go:600`, excepted in `DaysChangeHands`). A habit
  cannot be deactivated from the first day of an assignment, or before, if that
  one has no occurrences and its successor has some: the foreign key of
  `supersedes_assignment_id` refuses the deletion.
- **Evaluations.** A reversal after the cutoff and before anybody looks is neither
  scored nor an adjustment; an award begun before the cutoff and committed after
  the look does not count, but its reversal is subtracted. A frequency changed and
  changed back within a period is not noticed (`rewards/eligibility.go:240`), so
  days count in two evaluations and a reversal is subtracted from one of them. A
  change of policy takes today's date (`rewards/eligibility.go:167`) before it deletes
  the versions later than that (`:172`) and commits: when midnight passes in between,
  it deletes one that has just taken effect, although the comment (`:169`) calls it not
  yet active. That day then goes to the version of the day before, or to the new one
  if it takes effect that day; no day before it is touched (`PastGoverned`). The
  properties of `Eligibility` except exactly these. Not modelled: the completion
  percentage counts only occurrences that were generated.
- **Sessions.** The separate writes of Authenticate can undo an unlock of
  Parent Mode that came between (`auth/service.go:137`, `:142`; excepted in
  `ModeIsChosen`), and the middleware's Touch, by a slow request, renews a Parent
  Mode that was idle since the request read it. Changing the household's settings
  (`httpapi/auth.go:293`) reads its session before its transaction, like the
  mutations of finding 2.
- **Limiter.** Requests that passed Allow together may all fail, so the failures
  exceed the limit by up to the requests in progress, and the map its size by
  their keys (`FailuresBounded`, `KeysBounded`).

## Limits

- Transactions are applied at commit; a statement sees all committed rows and, of
  its own writes, what the next one needs. Waits for unique indexes other than
  that of idempotency keys are left out, and so is the order in which PostgreSQL
  queues waiters (fairness stands for it).
- In `PointsTx` a schedule change that closes an occurrence waits for its row, as
  do catalogue edits for the reward's. The code of Submit evaluates its subqueries
  about the source in the statement's snapshot, so a deactivation that commits
  while Submit waits may still be missed. `Scheduling` takes a submission as one
  step, so it does not show that either. Midnight closes a habit's occurrence without a
  lock on any row: Submit compares the date with today when its statement returns
  (`completions/service.go:291`), so one that passed may commit just after midnight,
  for the day it was checked against. `PointsTx` does not have that: there `open`
  changes only while nobody holds the row.
- `PointsLedger` has eligibility behind `offer`; `Eligibility` has it in full but
  without balances. The two are not composed.
- `Scheduling` has one habit: habits share nothing but the child's row. If-Match
  and the clock are left out (any date may be sent, and any of the days opened),
  and so are the schedules themselves: a plan is the set of its dates.
- `Eligibility` counts whole days in the policy's own calendar: changes of the
  household's time zone, months, clock changes and the completion rule are left out,
  and so are redemptions that no policy checks. Every award is one point.
- `Sessions` leaves out registration, CSRF tokens, the household's settings and
  requests that only read; the source address of a key is the same for all.
- Deadlocks are known for cycles of two requests, also among many; cycles of three
  are not excluded. What a statement selects by its data (a date, a state) is left
  out of `LockOrder`, so a listed pair may need rows that are rare. Waits for an index
  entry that somebody else has not committed are left out but for that of the
  idempotency key: materialisation waits for who is deleting an occurrence it
  would insert again. An archived child is in the profile of one session.
- The optional If-Match of tasks, audit events beyond their locks, the text of
  errors, icons, names and pagination are left out.
- Archiving a routine group edits unstarted tasks at the points they have: in
  `PointsLedger` that is `EditTask`.
- Deleted unstarted occurrences are occurrences that left `open`.
- `RoutineOrder` leaves out what belongs to a group, the unique index of names and
  retries under a key; a destination of an archival is only read. Requests name
  the versions and the complete set of groups that a page showed at some time.

## Plan

Done: `Accounts`, `PointsLedger`, `RowLocks`, `LockScripts`, `PointsTx`,
`LockOrder`, `RoutineOrder`, `Scheduling`, `Eligibility`, `LoginLimiter`,
`Sessions`, and the proofs above. Next, in this order:

1. Cycles of three requests in `LockOrder`: `Turns` bounds what each of them does,
   but more than two need not agree on one pair of tables.
2. What belongs to a routine group: an archival moves tasks and assignments
   to its destination, and is blocked by tasks that are finished
   (`routines/service.go:330`).
3. Months and their ends in the calendar of `Eligibility`, against a reference
   definition.
