# Rogimarble: a verification development

Rogimarble runs a marble board game on a live stream. Viewers donate; a rule
turns a donation into rolls, missions, items or the choice of a destination;
an operator conducts the game from a console; OBS overlays show it. The server
is a NestJS process (usually one, two during a deployment) on PostgreSQL, and
donations come from the journal of an external service, rogi-collector.

These modules are TLA+ models of the parts of that server whose behaviour
depends on order, failure and concurrency. Every definition is translated from
the source; `PROJECT.json` gives the lines of each.

## The system: inventory

| component | state it keeps | operations | hard because | correct when | module |
|---|---|---|---|---|---|
| game session (`api.service.ts` 76-272, 367-464) | one live `game_sessions` row per channel, counters, missions, effect tasks, stock and ledger, movement lock, multiplier, presentation epoch | 18 operator commands, board effects of the cells passed and landed on | effects chain, one transaction can fail anywhere; turns are put aside and returned; items, counters and missions are written by operators, boards, donations and publications | the ledger explains the stock, counters add up, a lock holds the pawn, the overlay can follow every move | `GameSession` |
| travel turns (`travel-turn.ts`) | the reservation: a turn given up, a destination, a cancellation | decide, reserve, move now | choice, cancellation, lock, pause and correction in any order | a reserved turn ends as a trip or as a roll | `TravelTurn` |
| collector polling (`collector.service.ts` 74-122) | timer, copies of status and cursor, a batch, the advisory lock | status, list, accept, acknowledge, unlock | two processes, lost lock connections, lost answers, journals that are rewritten | nothing lost, repeated or reordered | `Collector` |
| donation acceptance (`donation-ingestion.service.ts` 21-35, 49) | the consumer cursor, the inbox | initialise, accept | retries, sessions that change while a donation waits | stored once, bound to the session it was observed in | `Collector`, abstractly `DonationIntake` |
| donation dispatch (same file, 24, 37-57) | disposition, progress, pace and request of each inbox row | drain, process, execute, mark | overlapping drains, unknown commits, pauses and locks, a bounded list | executed exactly as often as the rule says, on its own session | `Donations` |
| donor chat (26, 63) | chat inbox | accept a chat, look for an earlier one | two transactions that do not see each other | the donor's choice is used | `Donations` |
| donation rules (`donation-trigger.ts`) | none: a function | validate, resolve | boundaries of amounts | exact match, deterministic | what an action may be: in `Donations` |
| board definition (`board-definition.ts`) | none: functions | validate, publish, preview a move | wrap-around, limits | preview agrees with the roll | shape and compatibility in `GameSession` |
| configuration drafts (`configuration.service.ts`, `configuration-editor.tsx`) | rows of four kinds with a status and a revision; what each console knows of its row | load, edit, create, update, validate, publish | two editors, lost answers | what is published is what was reviewed | `ConfigDrafts`; items also in `GameSession` |
| live layout (`overlay-layout.ts`, `live-layout-editor.tsx`, `total-overlay-layout-settings.tsx`) | one layout per channel and its version; the editor's canvas, newest snapshot, save queue, timers | drag, drop, style, poll, publish over it | throttled and queued saves, snapshots put off, edit and publication at once | nobody's panels or styles are lost | `LiveLayout` |
| overlay addresses (`configuration.service.ts` 36-57, `overlay-realtime.ts`) | tokens, sockets | rotate, handshake, register, disconnect, revalidate | a handshake across a rotation | a retired address is cut off in the end | `OverlayPage` |
| overlay presentation (`view.tsx`, `snapshot-order.ts`, `use-roll-presentation.ts`, `roll-playback.ts`) | the accepted state, the queue of animations, epoch, timers | poll, accept, push, observe, play, cancel, tick | pushed and polled states overtake each other, timers that outlive their roll | never shows the past, ends where the server says the pawn is | `OverlayPage` |
| operator's console (`apps/web/lib/api.ts`, `snapshot-order.ts`) with the idempotency of `command` | the pending intent, the last snapshot, the fence | send, reconcile, retry, poll, reload | answers are lost, requests given up still arrive, snapshots overtake each other | a command is executed at most once, the operator is told the truth | `CommandChannel`, abstractly `IntentOutcome` |
| release deployment (`tools/ops/release.py`, the slot units) | two slots, the active one, links, manifests, receipt, files a restart loses | deploy, roll back, supervise, restart the host | any command may fail, the deployer may be killed | one healthy slot serves | `ReleaseDeploy` |
| operator access (`access-token.service.ts`, `auth.ts`) | tokens, auth sessions | issue, exchange, revoke | exchange across a revocation | no session of a revoked token | not modelled |
| pawn images, feeds, read models, secrets, migrations runner, UI, infrastructure | | | | | not modelled, see below |

**How they interact.** The console sends commands over HTTP; each is one
database transaction that locks the session row, executes the command and the
effects it sets off, and writes the result. The collector's poll lists the
journal, stores each donation with the cursor in one transaction, tells the
overlay, acknowledges it upstream, and ends with a *drain* of the inbox, which
executes donations in transactions of their own on the same session row. The
chat stream stores messages and may answer a donation's destination request.
Publications replace the item catalog, the rules or the board under a session
that is running. The publication of an overlay writes the same row of the live layout
as its editors. Broadcast pages poll the committed state once a second, are
pushed layouts over a socket, and animate what changed. A deployment replaces
the server slot by slot while all of this goes on.

`PROJECT.json` lists under `hazards` what of this is hard to test, each at its
line, with the property that would catch it.

## The plan

Order: what can hurt a broadcast first.

1. (done) `TravelTurn`, `GameSession`: commands, effects and turns; then
   `GameSessionTypes`, and `GameSessionProofs` of turns, stock and counters.
2. (done) `Collector` with its abstract specification `DonationIntake`, and
   `CollectorProofs`.
3. (done) `Donations`, composed with `GameSession`; `DonationsProofs`.
4. (done) `CommandChannel` against the abstract `IntentOutcome`;
   `CommandChannelProofs`.
5. (done) `ReleaseDeploy`; `ReleaseDeployProofs`.
6. (done) `ConfigDrafts`, and `LiveLayout` composed with it; `LiveLayoutProofs`.
7. (done) `OverlayPage`: presentation, snapshot order and addresses;
   `OverlayPageProofs`.
8. (open) `OperatorAccess`, `ChatStream`, and the algorithms `DonationTrigger`
   and `BoardMove` (`previewBoardMove` against the roll of `GameSession`).
9. (open) Proofs of the turn properties of `GameSession` in its composition
   with `Donations`.

## The modules

### TravelTurn and GameSession

`db` is the committed state of the channel's current session as one record:
the columns of the session row and its counters, missions, tasks, stock,
ledger, lock and multiplier, with the published item catalog. `tx` is the
command being executed: `Idle`, or its working copy `d` of that state, the
stack `todo` of cell visits whose effects are still to be executed, the counts
of effects and steps, the travel reservations to insert at commit, and what its
result will say. Since every command locks the session row, one `tx` is enough.

A command is an action named as in the API (`roll_dice`, `set_position`,
`choose_destination`, `adjust_counter`, `use_shield`, ...), whose guard is the
command's checks; one that throws has no step. It opens a transaction
(`Begin`). Each board effect is an action (`EffectMission`, `EffectMoveSteps`,
...), executed depth first as the recursive `executeCellEffects` does. `Commit`
is the epilogue (258-270), `Rollback` the throw of any effect, a limit or a
constraint (`one_pending_travel_per_session`, the CHECK of a factor).
`PublishItems` happens between commands. So do, while an older release still
serves beside this one (`OldSlotServing`), `LegacySettle` and `Backfill`. The
first is the cell of that release that reserves a counter for a mission; its
code is external, but its rows are what this code still reads and settles
(`board-definition.ts:33`, `api.service.ts:190`, `249`, `359`, `382`). The
second is migration 020, which settles those reservations; it is one step, so
commands between its two statements are left out. The dice are `\E throw \in
Throws(d)`: every throw they allow.

Left out: timed missions' clocks, texts, the outbox, the operation ledger and
the idempotency of `commandId` (which `CommandChannel` models). A cell is its index on the
path; names are model values. `credited` is a history variable: what was ever
added to each counter.

`GameSessionProperties` states what is promised.

| run | question and bounds |
|---|---|
| `travel` | A board with a travel cell, a lock of two rolls or doubles, a multiplier with a move, and another board where two cells send the pawn to one another for ever. Up to 5 commands: enough to reserve a turn, choose, lock or pause, correct the position and resume. `TypeOK`, `TravelIsUnique`, `EndedIsQuiet`, `ReservedTurnHonoured`, `TripIsAllowed`, `LockHoldsPawn`, `PawnIsPresented`; and `CommandsEnd`, under weak fairness of effects, commit and rollback (the transaction's code runs to its end; nobody is assumed to send a command). |
| `rewards` | One counter, one item with a maximum of 2, passing and landing effects that grant, add and settle, catalogs that lower the maximum or drop the item, an older release that reserves while migration 020 settles its reservations, before or after each command. Up to 4 commands: grant, publish, correct, settle in any order. `LedgerExplainsStock`, `StockWithinCatalog`, `ReservationsCovered`, `CountersConserved`. |

The limits of the code (128 effects, 1000 steps and so on) are CONSTANTS set
small enough for `travel` to reach them.

### DonationIntake, Collector, CollectorProperties and CollectorProofs

`DonationIntake` is the promise, in four actions: journals grow, the intake
subscribes at some place of one of them, stores the next entry and
acknowledges what is stored. `Collector` is the code: `pc[p]` is the line of
`tick` process `p` is at, `local`, `batch` and `remote` are its variables
(the cursor, the rest of its listing, the status), `cursor` and `inbox` are
tables, `guard` is the session-level advisory lock and `alerts` counts what was
shown. Each call of a tick is an action, because each may fail: `CallFails`
(no effect), `AcceptedUnknown` and `AckUnknown` (effect, but no answer),
`GuardLost` (the connection that holds the lock dies; its owner goes on),
`Stop` (a crash, or the abrupt end of a shutdown). A graceful shutdown closes
the client, so the tick's next call fails (`CallFails`), and the process ends
(`Stop`). A subscription whose answer is lost is `initializeCursor` followed by
`CallFails`: the caller knows nothing either way.

The collector is external. It is modelled by what the loop relies on: entries
are appended; a new generation or recovery revision starts another incarnation,
possibly with the old history cut; old entries may be forgotten
(`LossyRetention`: also before they are acknowledged); a listing must name the
present recovery revision, and an acknowledgement the present incarnation.
Sessions and rules are the parts of the game acceptance reads. The drain at the
end of a tick is `Donations`.

| run | question and bounds |
|---|---|
| `collector` | Two processes, two events, entries that may repeat an event, two sessions, rules published at any time, lossy retention, one other incarnation of the journal (a generation or a recovery), one failure of any kind: `TypeOK`, `AlertedOnce`, `DonationsBelong`, and `IntakeKept`, that is `DonationIntake!Spec` under the refinement mapping `position <- cursor`, `stored <- inbox`. The constraint `Apart` explores failures, repeated entries and sessions one at a time; the theorems below hold for all of them together. |
| `delivery` | Two processes, two failures, one incarnation: `Delivered` under weak fairness of each process's `Tick \/ Start`. |

One failure is enough for the second process to be at any line of its tick
while the first still believes it holds the lock; a generation is enough to
make a status, a cursor and a listing disagree. Fairness: the timer is set in
the `finally` of every tick, and the container is restarted when it stops;
nothing is assumed of the journal, the operators or the failures. `Delivered`
says nothing of a journal that is rewritten: then the code waits for a person.

### Donations, DonationsProperties and DonationsProofs

`Donations` EXTENDS `GameSession`: the donation's transaction *is* a
`GameSession` transaction of type `"donation"`, so that the effects of a
donation's roll, its rollback and its interleaving with operators are those of
the session. `inbox` has the rows bound to a session (progress, request,
disposition, whether `not_before` has passed), `chats` the stored messages,
`arriving` the chat that has looked for a request and not yet committed, `drains`
where each process's drain is and which rows it still has, `log` the commands
with the donation as their source.

`BeginDrain`, `MarkEnded`, `SelectRows` are the three queries of `drain`;
`AlreadyDecided`, `SessionOver`, `RequestOver`, `LeaveWaiting`, `Execute` and
`Refused` are the ways through `processInbox` up to its commit
(`CommitDonation`) or error (`RollbackDonation`, `MarkFailed`). `CommitUnknown`
is a connection lost during COMMIT, whose error is not one of
`isTransientDatabaseError`; `ConnectionLost` one lost before it, where ROLLBACK
fails too, with an error without a code, and the donation is recorded as
failed; `TransientError` is a deadlock, after which the donation stays pending;
`Crash` and `GuardLost` are as their names say. A chat answers one request
(`matched`). The operator's commands are those of `GameSession` with the two
for a donation's request (`select_donation_destination`,
`cancel_donation_destination`).

| run | question and bounds |
|---|---|
| `donations` | Two processes, two donations (two rolls; a gift there is room for once), two sessions, one failure: `ExecutedExactly`, `DonationsStayInSession`. |
| `requests` | One request, one chat, operators that choose, cancel, roll onto a lock or a travel cell, and end: `DestinationSettledOnce`, `RequestsClose`, `LockHoldsPawn`, `DonationsTypeOK`. |
| `decided` | One process, three donations and a drain that lists two movements, pauses, one failure: `Decided`, of every donation with fewer than `DrainLimit` waiting movements before it. Fairness: the poll's timer (each drain step), a command's own work, and time. |
| `results` | Violation: see Findings. |

The list limit of 50 is `DrainLimit`, 2 in the runs. In `decided` three
donations may wait, so that the list is full and hides the third: that
`Decided` needs its condition `~Crowded` is a finding. `RequestsClose` says
that a closed request stays closed and that its donation makes no command after
it; a request answered in time may still move the pawn after its time (Findings,
`ExpiredNeverMoves`). The settlement missions of the older release are left out
of this composition.

### CommandChannel, IntentOutcome, CommandChannelProperties and CommandChannelProofs

`CommandChannel` is the operator's page and the server it commands. The page
writes a command down (`pending`, sessionStorage) with its id and the revision
it names before it sends it, and forgets it only when it knows what became of
it. `pc` is where `command`, `createSession` or `retryPending` is (post, look
up by id, read the snapshot); `Send`, `Post`, `Answered`, `Lookup`,
`ReadSnapshot` and `Finish` are the ways through them, `Recover` the retry.
`Handle` is the server in its order: the id seen before, the game and revision
the body names (`Fits`), then the command, which may still be refused for what
else it asks of the game (pending work, an inactive item, a changed target): a
refusal rolls back and moves no revision. `LoseCall` loses a
request or its answer; a request given up may still arrive (`LateArrival`).
`Poll`, `Refresh`, `Answer` and `Arrive` are the snapshots, numbered and fenced
as `applySnapshot` does. `Reload` keeps only sessionStorage.

`IntentOutcome` is the promise: a command is asked, executed and told done; or
the server denies it and the operator is told it was rejected. It is never
executed twice, never told done for nothing, and never told rejected unless the
server refused it unexecuted. A rejection is final (`rejected`) once the game or
the revision the command names is over. Until then it is only `refused`: a
request given up may still arrive and be executed (`ExecuteLate`), or be
executed between the refusal and its being read (`Overtake`, `RejectLate`).
`create_session` names no revision, so its refusals never become final.

| run | question and bounds |
|---|---|
| `console` | One creation and one `end_session`, one transaction of somebody else, two losses, one reload, one other poll under way: `ConsoleSafe` (types, and `NeverBehindOutcome`: the view is never older than an outcome that was told), `OutcomesKept` (the refinement), `PendingResolves`. |

Two losses are enough to lose a command's answer and its repetition's; three
polls per page are enough for one to overtake another across a fence. Fairness:
the page's timers fire and a request that is not lost is answered; nothing of
`Send`, `LateArrival`, losses and reloads.

### ReleaseDeploy, ReleaseDeployProperties and ReleaseDeployProofs

Each command of `deploy` is an action, because each may fail: `Fails` goes to
the handler, which restores what `saved` has and stops the candidate
(`RestartOld`, `RestoreCode`, `RestoreRecords`, `RestoreCore`,
`StopCandidate`). A release without an active slot, which a failed first
deployment leaves, is restored too, and the core restarted with it. `Aborts`
kills the deployer, `Reboot` restarts the host: files under `/run` are lost,
`prepare_active` prepares the manifest's release again and systemd starts what
is enabled. `Supervise` and `Ready` are the slot units and their healthchecks,
`Degrade` a container that becomes unhealthy.

| run | question and bounds |
|---|---|
| `release` | Two slots, three releases, three deployments, two failures, one restart of the host: `DeploySafe` (types, and `StillRunning`: from the first successful deployment on some slot is always kept running), `RollbackRestores`, `ReceiptTrue`, and `ServedAgain` under fairness of the deployer and of the units. |

Three deployments are a first one, one that replaces it, and one that meets
what a failed one left. Fairness: commands return, systemd restarts its units.
Nothing is assumed of containers that degrade or of when releases come. The
safety properties are proved for any number of releases, deployments, failures
and restarts.

### ConfigDrafts, LiveLayout, LiveLayoutProperties and LiveLayoutProofs

`ConfigDrafts` is the table of versions of one kind and the settings pages that
edit it: `Load`, `Edit`, `Create`, `Update`, `Validate`, `Publish`, each a
transaction whose answer may be lost. A document is the number of the edit that
made it; `Invalid` are those validation refuses.

`LiveLayout` extends it with the row of the live layout. Publishing the panels
(`PublishLayout`) merges them into it and keeps the widgets. An editor has the
state of the page and its canvas: the newest snapshot, the base version, what
waits for its throttle, the save in flight, and the snapshot put off while
syncing is suppressed. `Drag`, `Drop`, `ThrottleFires`, `ServeSave`,
`SaveAnswered`, `SuppressEnds`, `Poll`, `Render` and the style's `SetStyle`,
`ServeStyle` are its handlers; `LoseSave` and `LoseStyle` lose answers.

| run | question and bounds |
|---|---|
| `layout` | Two operators who publish, one editor of one widget, three edits, one row, four revisions, one lost answer, an edit that validation refuses: `LayoutSafe` (types, and nobody's panels or styles are lost to someone else's save), `PublishedAsReviewed`, and `EditsSettle` under fairness of each editor's page and poll. |

Three edits are a style, a publication and a move at once. The two safety
properties are proved for any number of operators, editors, widgets and rows.

### OverlayPage, OverlayPageProperties and OverlayPageProofs

One broadcast page. `answer` is its poll, `unsent` the layouts committed whose
event is not emitted, `accepted` what it took of both (`Accept`,
`LayoutUpdated` with the comparisons of `snapshot-order.ts`), `rendered` and
`observed` what its effects know, `view` the animation: its run, its queue
`left`, its timers. `Effects` is the render with the effects it runs in their
order (it binds the commands it has not shown and the view they leave, which
TLC would otherwise compute again at every use), `Tick` the next event of a
timeline. `Select` is the filter of an array. The socket's handshake has two
steps, `Connect` (the token is checked) and `Register`; `Rotate` retires the
address, `DisconnectToken` closes its sockets, `Revalidate` runs every 15
seconds. The game is `GameSession` seen from outside: `PawnIsPresented`, which
is proved, is what `Adjust`, `Roll`, `Travel`, `Invalidate` and `Depart` are
built on. A roll's path is any path whose every step changes the cell (forward,
in reverse, or along its effects), or none under a lock. A denied poll is one
with a retired address; the 409 of a board that cannot be displayed is left
out, because no session is created on such a board or changed to one
(`api.service.ts:94`, `106`, `208`) and nothing takes `supported_for_live` from
a board.

| run | question and bounds |
|---|---|
| `overlay` | A board of two cells, dice of one, the last two commands sent (50 in the code), three changes of a game and two rare events (a game that ends, a presentation that begins, a layout, a rotation, a fault), which `Apart` spreads: `PageSafe` (types, and a pawn that rests stands where the accepted game has it), `ShownAdvances`, `BeginsAtPawn`, `MotionIsCurrent`, and `CatchesUp`, `RetiredIsClosed` under fairness of the polls, the effects, the timers and the revalidation. |

Three changes of a game are more than the two commands sent, so that the page
has missed one; two are a queue. With dice of one the short timeline of a roll
longer than 24 cells (`LongPath`) is not reached; travel and adjustments reach
the other kinds of timeline. Rolls that leave the pawn are explored among other
rolls, up to two changes and without a rare event before them. The proofs cover
every board, every length of a roll and every number of commands sent.

## Findings

One run ends in a violation, `results`: an executed donation is recorded as
failed (`PROJECT.json` has the lines and the quotation). The passing runs are
checked with the behaviour as it is.

The other disagreements met while modelling have no run of their own. Where a
property is named, TLC finds it violated when it is added to the configuration
named with it.

Game and donations:

- `ShieldsRedeemable` (`MCRewards`): a mission asks for a shield item that the
  catalog has dropped. The publication of items refuses to drop an item a
  mission refers to (`configuration.service.ts:61`), but the effect that makes
  a mission does not look at the catalog (`api.service.ts:376`).
- `RequestsHaveDonations` (`MCDonations`): a destination was chosen, the move
  failed on landing, the donation is failed and its request stays open for
  nobody (`donation-ingestion.service.ts:41`; `docs/operator-guide.md:11`).
- `ChatIsUsed` (`MCDonations` with a chat): the chat and the request it answers
  are stored by transactions that do not see each other
  (`donation-ingestion.service.ts:26`; `docs/operator-guide.md:27`).
- `validateEffect` accepts a multiplier of up to 1000
  (`board-definition.ts:230`), the column `session_roll_modifiers.factor` at
  most 100, so a board can be saved whose cell rolls every turn that reaches it
  back (`docs/configuration.md:13`: "a new save refuses cell actions that cannot
  be executed").
- `drain` lists at most 50 pending donations and tries only the first movement
  of them (`donation-ingestion.service.ts:24`). While the session is paused, 50
  waiting movements hide every later donation, also missions and items: without
  its condition `~Crowded`, `Decided` is violated in `MCDecided`.
- `ExpiredNeverMoves` (`MCRequests`): a request that was answered in time is
  carried out however late, because only a request without a destination is
  expired (`donation-ingestion.service.ts:37`; `docs/operator-guide.md:27`:
  "the pawn is not moved by the chat of another donor or by an expired
  request").

Console and settings:

- `ConsoleLoads` (`MCConsole`): after a reload with a pending intent whose first
  refresh fails, the poll waits for the intent and its recovery for a view; the
  page shows nothing until it is loaded again (`docs/deployment.md:17` has the
  console read the server's state again after a reconnection).
- A command sent before the page's first refresh has asked for its snapshot is
  not fenced: that snapshot may be older (`early` in the model).
- A command the operator was told was rejected may still be executed while the
  revision it names stands (`ExecuteLate` of `IntentOutcome`):
  `isDefinitiveMutationRejection` (`api.ts:20`) takes every 4xx answer but three
  for final, and forgets the intent, while the first request, given up, may be on
  its way. `end_session` is refused while a task is pending
  (`api.service.ts:221`); a drain then cancels the task by its expiry, which
  moves no revision (`donation-ingestion.service.ts:37`); the first request
  arrives and ends the game. So may a creation, which names no revision at all.
  No document promises otherwise, so no run counts this as a violation.
- `MovesKept` (`MCLayout` with two editors and two widgets): a drag's save waits
  150 ms; a snapshot that arrives meanwhile raises the base version
  (`layoutRevisionRef`), and the widgets saved are still those of before it, so
  another operator's move is undone without a conflict
  (`total-overlay-layout-settings.tsx:767`; `docs/overlays.md:5`: "concurrent
  changes are checked by the revision of the saved layout").
- `EditorCatchesUp` (`MCLayout`): a snapshot put off in the 500 ms after a save
  is not applied when they end (`total-overlay-layout-settings.tsx:741-747`), so
  the editor shows an old layout until the next change.
- Two drafts made from the same published version can both be published; the
  second replaces the edit of the first (`docs/configuration.md:3`: "on a
  conflict it does not overwrite another edit"). `Publish` compares the revision
  of its own row only.

Deployment:

- `FailureKeepsOldOnly` (`MCRelease`): when `up --wait` gives up on a container
  that does not get healthy, `candidate_started` is not set yet
  (`release.py:477-478`), and the handler leaves what was started running beside
  the old slot (`docs/deployment.md:15`: "stops the candidate slot").
- The handler's `compose stop` names `candidate-release.env`, which has been
  moved by then if the deployment got that far; it then fails, unnoticed, and
  only the stop of the candidate's unit stops it.
- A stop of the old slot that took effect but reported an error is not undone:
  the old slot is not started again.
- After a deployer killed between the start of the candidate's unit and the
  end, or a first deployment that failed after `active-slot` was written, every
  later deployment refuses: "candidate slot supervisor is unexpectedly active",
  "active application slot is not supervised".
- A deployer killed between installing the files and the manifest, and then a
  restart of the host: `prepare_active` refuses, and nothing starts.

## What is proved

TLAPS checks, for every value of the constants allowed by `SizeAssumption`,
`BoardAssumption` and `CatalogAssumption` of `GameSession`:

- `GameSessionTypes!TypeCorrect`: `Spec => []TypeOK`, one lemma per group of
  commands, one case per effect. It needs that a roll's path stays on the board
  and that every correction of stock, counters and tasks keeps its sign.
- `GameSessionProofs`, turns: `TurnInv` is inductive. It is needed because the
  action properties are about what one commit does, while a command reaches its
  commit only after any number of effects: `Lawful` says of a working copy what
  may have changed so far, every command establishes it, every effect keeps it,
  and at the commit it *is* the action property. From it: `OneTripAtATime`,
  `EndsQuietly`, `TurnIsHonoured`, `TripsAreAllowed`, `LocksHold`,
  `PawnsArePresented`.
- `GameSessionProofs`, stock: `StockInv` (the ledger explains the stock, and the
  stock fits the catalog, in the committed state and in the working copy) is
  inductive: `LedgerIsComplete`, `StockIsAllowed`.
- `GameSessionProofs`, counters: `CountersInv` (a counter holds what was
  credited to it less what settled missions took, and no less than pending ones
  reserve) is inductive, of the working copy as well as of the committed state,
  since a command may add a mission, settle another and correct the counter
  before it commits. The migration moves what pending missions owe from
  reserved to taken, in one step. `Reserved` and `Taken` are recursive
  functions over the missions; `ReservedIs` and `TakenIs` say that they are the
  sum of what each mission owes or took, and the sums are reasoned about by
  least counterexample (`UpTo`, from the well-foundedness of `<`): `SumExists`,
  `SumGrows` for a mission added, `SumChanges` for one that is settled or
  cancelled. From it: `ReservationsAreCovered`, `CountersAreConserved`.

And from `CollectorAssumption` and `CursorAssumption` (no name of a cursor is
taken for the absence of one), for any number of processes, events,
incarnations, sessions and failures:

- `CollectorProofs!IntakeIsSound`: `TypeOK /\ IntakeInv` is inductive. The check
  of the next cursor compares a row only with the cursor, never with the
  journal, and between the listing and the check the journal may have grown,
  been forgotten or been rewritten; so the invariant says that what a process
  has read is still what the journal *of that incarnation* says (`ReadingsTrue`:
  journals only grow, and an incarnation not used yet is empty,
  `JournalsKnown`), that rows, acknowledgements and what is about to be
  acknowledged are behind the cursor (`CursorAhead`, which holds of a duplicate
  only because its row is), and that who is about to show an alert is the only
  one and has not shown it (`AlertsDue`). The types need it too: a listing is
  read only with a cursor. `StepOf(p)` says what any step of a process may do to
  the durable state: nothing, subscribe, accept one entry, or acknowledge.
- From it `CollectorTypes`, `AlertsAreSingle`, `DonationsBelongToSessions` (the
  check is `observed >= opened`, the property equality: nothing in a journal was
  observed after now) and `IntakeIsKept`, the refinement: `StepOf` maps to
  `Subscribe`, `Store`, `Acknowledge` or a stutter, what the outside does to
  `Grow` or a stutter. The advisory lock is not needed for any of them.

And from `DraftsAssumption`, for any number of operators, editors, widgets, rows
and edits:

- `LiveLayoutProofs!OthersAreKept`: `LayoutSafe` is invariant. By itself it is
  not inductive, because a save writes a whole layout made on a page that may be
  old. The strengthening `LayoutInv` says why that does no harm: a save carries
  the panels and styles of the newest layout its page has read, but names the
  version of its canvas as its base, and a canvas is never ahead of what the
  page has read (`SeenTrue`); so a save, or a style, whose base is still the
  version in effect was made from the layout in effect (`SaveTrue`,
  `StyleTrue`).
- `LiveLayoutProofs!ReviewedIsPublished`: `PublishedAsReviewed`, because a
  console that has seen the last revision of its row has its document
  (`ConsolesTrue`), and the published version is the newest published one, which
  takes a maximum over the rows to exist (`NewestOf`).

And from `ChannelAssumption` and `SnapshotAssumption` (the absence of a value is
not one), for any number of commands, other operators, losses and reloads:

- `CommandChannelProofs!ConsoleIsSafe` and `OutcomesAreKept`, the refinement:
  `ChannelInv` is inductive. That games and revisions only advance
  (`StepAdvances`) makes a rejection final once what it names is over (`Over`):
  no later request of it fits. That an intent is outstanding until it is told of
  (`IntentTrue`, `PageTrue`), and the server looks the id up first, keeps it from
  being executed twice or told rejected after it was executed. The view is
  compared by revision and by the number of the request that read it, the
  promise by commits: so the snapshots of one game, wherever they are, are
  ordered by the commit they were read after (`SnapshotsTrue`), and one that is
  older than an outcome that was told is behind the fence its command raised
  (`FenceTrue`). `OutcomeStep` says what any step may do to the outcomes:
  nothing, or one turn of one intent.

And from `DonationAssumption` with the three assumptions of `GameSession`, for
any number of donations, donors, drains, chats, commands, sessions and failures,
on any board:

- `DonationsProofs`: `DonationsInv` is inductive (TLC checked it first, as an
  invariant of `MCDonations` and `MCRequests`). `ExecutedExactly` alone is not,
  because the progress of a row and the log are written at the commit of a
  transaction that was decided when it began. Between the two, other drains may
  list the same donation, the guard may be lost, and chats and operators go on;
  so the invariant says that whoever executes is alone, that its row is still
  pending and bound to the open session (`DrainsTrue`: the row's lock is what
  `RowFree` asks for before anybody else decides it), and that progress counts
  the log (`RowsTrue`). From it `DonationsTyped`, `DonationsExecuteExactly` and
  `DonationsKeepTheirSession`.
- The tasks: a commit replaces all the tasks of the session by the working
  copy's, so a destination chosen meanwhile would be undone unless the copy
  still follows the session (`CopyTrue`), and a request could be resolved by
  somebody else's commit unless every request belongs to one donation
  (`RequestsOwned`), which resolves it with its last command. `TasksMove` is
  what any step may do to the tasks of a session that stays open; from it
  `DestinationsAreSettledOnce` and `RequestsStayClosed`; for the latter
  `DrainsTrue` also says that the request of a donation being executed is still
  open. The earlier chat that a new request finds, and the reservation a cell
  makes, are covered: both change only tasks that were not there before.

And from `DeployAssumption` and `EnvAssumption`, for any number of releases,
deployments, failing commands, killed deployers and restarts of the host:

- `ReleaseDeployProofs!DeployInductive`: `DeployInv` is inductive (TLC checked
  it first, with `MaxFaults` of 3 and `MaxReboots` of 2). That a slot is always
  kept running is not inductive: stopping the old slot is safe only because of
  what the deployer did on the way to that line. So the invariant goes line by
  line: the flags its handler reads (`Flagged`), what is already written and
  what the handler has put back (`Written`), which unit runs (`Supervised`),
  which will start with the host (`Enabled`), what the containers are of
  (`Filled`), and that neither the manifest nor the release a deployment saved
  is behind the receipt (`Forward`). A first deployment that fails leaves a
  release without an active slot; the next one must still put it back, so the
  invariant says what a host without an active slot is like (`Standing`): only
  the core and the first slot were ever started, and there is no receipt.
  `Unmarred` carries the claim on the whole host while nothing escaped the
  handler: between deployments it is what the receipt says (`Quiet`), during
  one it can be put back (`InFlight`).
- From it `SomeSlotRuns`, `RolledBackIsRestored`, `ReceiptIsTrue`.

And from `PageAssumption` and `NoneAssumption`, for any board, dice, number of
games, layouts and addresses, and any loss of answers and events:

- `OverlayPageProofs!PageInductive`: `PageInv` is inductive. A page that rests
  shows the accepted game only because of how games chain: the commands of a game
  are linked, the last ends at its cell (`Lawful`), and a later game of the same
  presentation has the pawn elsewhere only by a later command (`Knows`). This
  relation is kept between what the page counts as shown, what it has accepted,
  the answer under way and the game itself (`GamesOrdered`), and the
  animation, whatever it has queued and whichever timers are left, ends where
  the page counts the pawn as shown (`ViewTrue`). `Select` is used through what
  its result holds and in which order.
- From it `PageIsSafe`, `ShownGoesForward`, `AnimationBeginsAtPawn` and
  `PawnMovesInPresentation`.

Only model-checked: `LockHoldsPawn` in the composition with donations (it is
proved of `GameSession`), and all liveness (`CommandsEnd`, `Delivered`,
`Decided`, `PendingResolves`, `ServedAgain`, `EditsSettle`, `CatchesUp`,
`RetiredIsClosed`), which is beyond the prover.

## What is not modelled, and why

- Operator access and pawn images: conditional updates of one row, decided under
  its lock.
- The chat stream's cursor and its gaps; which rule an amount matches; what a
  board's validation refuses and its preview: see the plan.
- `checkBroadcast` and `chatTest`, read models, histories, feeds: they change
  no stored state.
- Decoding of events, digests, texts, formats: data that no property tells
  apart.
- The packages of contracts, animation and UI, the gateway placeholder, secrets,
  infrastructure, backups: no state of their own, or input and output only.
- The web interface. Of about 80,000 lines of source some 73,000 are under
  `apps/web/src`: the console and the overlay themes imported from another
  product, with forms, styles, songbook, lyrics and sheet music, which hold
  nothing of the game. The share of lines the
  map covers is small for that reason; of the files that decide what a broadcast
  does (the API, `game-core`, the deployment tools, the order of snapshots, the
  pending intent, the layout editor's canvas, the playback) nearly every function
  that changes state is mapped.
