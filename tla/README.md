# A formal model of stream-dvr

stream-dvr records live broadcasts into a library on disk, keeps a SQLite
database of what it recorded, and fetches afterwards what it missed. This
directory holds TLA+ modules of the parts of it where state, concurrency,
crashes and time meet, the TLC configurations that check them on small
instances, and TLAPS proofs of what matters most for every instance.
`PROJECT.json` lists the runs, ties every definition to the lines it models,
and names the hazards each property is for.

## 1. Inventory

One `serve` process per library runs, as goroutines: a watcher per channel, a
heartbeat, a sweep loop, a recompress loop, a recovery loop, a credential loop
and the loop that looks at the disk. A `backfill` command, an import, an agent
and a terminal interface are further processes on the same database and the same
files. Nothing is locked but by the database's write transactions, the file
system's renames, the lock file beside the secrets and a few mutexes inside one
process.

| part | state | operations | what is hard | what makes it correct | modules |
|---|---|---|---|---|---|
| library claim (`store/store.go`, `daemon.go`, `backfill.go`) | rows of `daemon_sessions`; the row and the previous beat a process keeps | StartSession, Heartbeat, StopSession, ReopenSession, beat, reclaim | a holder releases by falling silent; frozen processes, crashes, a rebuilt database | one holder; a holder's row stays its own; downtime covers the outage | `LibraryClaim`, `RecorderSession` |
| captures (`daemon/watch.go`, `daemon.go`) | `recordings` rows, the slots, the map of rows an engine writes | RunCycle, capture, noteCapturing, SweepCapturing, reconcileInterrupted | the sweep files rows on evidence it read earlier; a failed store call strands a row | no row an engine writes is filed; none stays `capturing` for ever | `Captures`, `CaptureMarks` |
| watcher (`daemon/watch.go`) | the live session and its latches | poll, noteSpaceHalt, watchCapture, pollMetadata | a full disk, a stalled stream, answers that come and go | one fragment per session; a stalled capture ends | `Watcher`, `Answers` |
| organizer (`organize/organize.go`, `fsretry`, `post`) | rows, volume, sidecars, the lock of a recording, its failed remuxes | Finalize, Trash, Release, Recompress | many steps on two stores; crashes between any two; the operator's own file manager | nothing is lost that was not condemned; a complete row names its own media | `RecordingFiles`, `Finalize`, `Purge`, `Recompress`, `Sweeps`, `Organizer` |
| media (`post`) | the files of one replacement; the encoders of a process | ReplaceVerified, Encoders, RecompressPass | tools that exit well over damage; drivers that come and go | what a row names plays as long as its source; an encode is done once | `Replace`, `Encoding` |
| incoming directory (`daemon.go`, `fetch.go`, `backfill/fetch.go`) | files, their age, the rows that name them | SweepIncoming, downloads, captures, the move | a listing and rows read apart; restarts days later | what a row names is there; an attempt can be resumed | `Incoming` |
| automatic recovery (`daemon/recover.go`) | probes, outages, the queued window, the round and its cancel | noteProbe, queueRecovery, runRecovery, stopRound | rounds of hours beside captures; all of it in memory | no download beside a capture; no window forgotten | `Recovery` |
| rounds, plans, listings (`backfill/pass.go`, `plan.go`, `discover.go`, `helix.go`) | candidates, tallies, pages | Pass, Candidates, Discover, Videos | concurrent fetches, refusals half way, days of zones | what is missing is found, offered and never reported as got | `Pass`, `Plan`, `Listing` |
| fetching (`store/backfill.go`, `backfill/fetch.go`) | `broadcast_fetches` rows | ClaimFetch, ReleaseFetch, RecordFetchFailure, AbandonFetch, RefuseFetch, Fetch | leases, cancellation, two fetchers, a refusal mid-way | a refusal is final; done means a recording; all settles | `Fetch` |
| silenced audio (`mute.go`, `fetch.go`, `store/broadcast.go`) | stretches, segments, what is said to lack | OriginalAudio, mutedSeconds, encodeMutedSpans | a partial answer that looks whole; "not asked" and "none" | nothing is said that was not asked or heard | `Audio` |
| holes (`backfill/gaps.go`, `patch.go`) | `gaps` rows, attempts | Detect, Patch, FillGap, ChargeGap | derived again on each pass from rows that changed | filled means there is a recording; charges end the retries | `Holes` |
| broadcasts (`store/broadcast.go`, `discover.go`) | `broadcasts` rows, titles | UpsertBroadcast, ObserveTitle | sources of different trust, in any order | no row made of two shows; titles tell what was read | `Catalogue`, `Titles` |
| importer (`importer`) | sidecars, names, rows | Run, broadcastFor, restoreDetail | a recorder and other imports beside it; a stop anywhere | a standing row is joined, never written over | `Importer`, `Titles`, `Naming` |
| calendar (`store/coverage.go`, `calendar`) | none, computed | CoverageBetween, Build | zones whose clocks move at midnight; rows nobody can read | a day never reads better than its evidence | `Calendar`, `Plan` |
| disk budget (`space`, `daemon.go`) | rows, trash, the files that grow | Admit, CheckSpace, releaseTrash | margins on small limits; counts read apart | an admitted capture is not stopped at once; the trash yields | `Budget` |
| sinks (`notify`) | a socket path, queues | Listen, Notify, Close, Follow, Webhook | two recorders and one path; a receiver that says nothing | a listener keeps its path; an event is accounted for | `Notices` |
| platform session (`providers/twitch`, `secret`, `auth.go`) | pairs of tokens, a lock file, a device code | Session, renew, PollDevice, Set, Delete, login and logout | an exchange spends what is stored; several processes over one store; remote timings | a live session is kept; a code that was entered is heard | `Account`, `Device` |
| configuration (`config`, `tui/settings.go`) | a file, a working copy, a line editor | Load, Save, MarshalText, applySettings | late loads and saves; units and rounding | a limit stays what it was; a line is over its row | `Settings`, `Sizes` |
| set-up (`library`, `config/load.go`, `migrate`) | a marker, a config, a schema version | Create, Adopt, SetLibraryRoot, Run | several commands and builds at once | each step once; no root replaced unasked | `Setup` |
| interface (`tui`) | the selection, reloads, a ranking | Update, purge | late answers to old requests | an answer is shown where it belongs; purges are chosen | `Screen` |
| naming (`naming`) | none, computed | Render, Match | reading back what was shortened and made unique | a name reads back as what it was made of, or says it does not | `Naming` |
| tools (`procgroup`, `record`, `fetch`) | processes, groups, collected output | Run, Wait, Close, Probe | helpers that outlive their parent; output past a limit | what returned left nothing running; answers are whole | `Tool`, `Answers` |
| installation (`service`, `install.go`) | a unit or task, a helper, a program | Install, Uninstall, one COM operation | every call fails; a kill between two | what starts has its program; what was borrowed is returned | `Service` |

How they meet: the watcher marks a capture and stops a recovery round before its
engine starts; the end of a capture and of a download hand a row to the
organizer; the sweep hands it every row that was left; the organizer and
SweepMissing refuse the fetch of what the operator gave up; recovery plans
fetches only of broadcasts no recording is evidence for; a start measures its
downtime by the session rows and queues it as a window; an import writes the
same rows a recorder writes.

## 2. Modules

**The core**: what recordings depend on, each with a run of its own.

| module | models | composes |
|---|---|---|
| `LibraryClaim` | what a claim promises: a lock | |
| `RecorderSession` | the session rows and every process that writes them | implements `LibraryClaim` |
| `RecordingFiles` | rows, volume and workers of the recordings of one broadcast | |
| `Finalize`, `Purge`, `Recompress`, `Sweeps` | one operation each, step by step | over `RecordingFiles` |
| `Organizer` | all of them side by side, with the failures around them | the four above |
| `CaptureMarks` | what the rest of the recorder sees of its captures | |
| `Captures` | a channel's cycle, its row and its mark; SweepCapturing; the start | implements `CaptureMarks` |
| `Recovery` | probes, outages, windows, rounds | over `CaptureMarks` |
| `Fetch` | one broadcast's fetch row and the sessions that fetch it | |
| `RecorderSessionProofs`, `OrganizerProofs`, `RecoveryProofs` | the theorems | over their module |
| `CapturesProofs` | the theorems | over `Captures` and `Fetch` |

Theorems about the parts below are in `LibraryProofs` (what is recorded and what
is known of it) and `ServicesProofs` (how the recorder stands towards the system,
the operator and the platform), the one about names in `NamingProofs`;
`ProgramProofs` carries them to the program.

`CaptureMarks` is where two halves meet: `Recovery` takes captures to be
whatever it allows, and `Captures` is shown to allow nothing more. So what is
shown of rounds and captures in `Recovery` holds of the capture code.

**The parts around it**: twenty-five further modules, one per row of the
inventory or a piece of it; `Notices` holds the socket and the webhook, `Service`
the registration and the Windows scheduler's session, each with variables of its
own. Each has its own variables, `Init`, `Next` and
specification; `Importer` extends `Catalogue`, because an import works beside
the recorder on the same rows, and `Plan` extends `Calendar`, whose days and
rows it reads. `Program` puts them into one specification: a first state chooses
a `part`, a behaviour is a behaviour of that part, and every other part rests
where it began. The parts in it share no state (what one part tells another is
a choice in the second), so nothing is lost by exploring them apart, and the sum
of their state spaces is explored instead of the product. `Parts` says which of
them a run looks at.

Pure rules are models of the same form: the first state is the input, a step or
two compute, and an invariant compares what came out with what went in
(`Calendar`, `Naming`, `Sizes`, and what `Audio` reads and writes of silences).

**Granularity.** A store call is one step, because each is one statement or one
transaction that takes the write lock as it begins. A file operation is one
step. What a goroutine computes in between from what it read is kept in its
record (`op` in the organizer's modules, `sweep` in `Captures`, `pc` in `Fetch`,
`round` in `Recovery`, `walk` in `Listing`, `command` in `Setup`, `calls` in
`Settings`, `imports` in `Importer`, `job` in `Account`), so a decision is always taken
on what was read, never on what is true by now. A guard that returns early ends the operation where it stands, and
a failing store call ends it likewise.

**Abstractions.** In `RecorderSession` time is a count of heartbeat intervals. In
`RecordingFiles` a file is the recording whose media it holds, or nothing, a
placeholder, or half-written; a name is its place in the series that every
recording of one broadcast shares; lengths only say which recordings no other
outlasts. In `Captures` the one thing a clock decides, whether a recording is
older than `strandedAfter`, is a set. In `Recovery` time is a count of stretches
long enough to miss a broadcast in, all within the horizon; the pace is a flag
that passes. In `Fetch` a lease and a backoff are flags that run out. In `Pass`
an archive is where it stands for the round, a disposition that its fetch
changes. In `Holes` a unit of time is longer than every allowance of the code,
in `Audio` two units are the shortest stretch that is measured, in `Budget` a
byte is `minCriticalBytes`. In `Naming` a text is a sequence of nine symbols,
one for each thing a rule of naming tells apart; which texts streamers pick is a
constant, `SomeAuthors` and `SomeTitles` in the runs. In `Answers` output comes in
pieces, and what a piece says is what a parser would make of it. `Sizes` takes
twenty bytes to the kilobyte and one decimal where the code has a thousand and
two: the last digit of the next unit is lost either way, and an integer of 11
bits overflows where one of 63 does.

## 3. Runs

All bounds are constants in the `.cfg` files. Deadlock is not checked: every
instance ends in a state where time, crashes, arrivals or inputs are used up.

| run | instance | what it shows |
|---|---|---|
| `claim` | two recorders and a pass, store failures, holders that beat within the window | the session rows implement the lock (`ImplementsClaim`) |
| `freeze` | two recorders frozen as long as they like, one rebuilt database | a holder keeps its own open row, a start measures at least the outage, a lost claim is retaken |
| `organizer_finalize` | a capture and a download of one broadcast, two watchers and the sweep, file locks, tools that fail, deletions by hand, one crash | no media is lost or mistaken, a broadcast whose copies were deleted is refused |
| `organizer_retry` | two recordings, one of which may pass by its length for the other, the sweep alone, one crash, weak fairness | every described recording completes or is given up on, and a complete one is whole |
| `organizer_purge` | one recording remuxed, finalized, purged, released and recompressed at once, file locks, tools that fail or are missing, a failing store, two crashes | a purged broadcast is refused; the original stays beside what its row names |
| `captures` | two channels, two recordings, two slots, store failures, any number of crashes | rows being written are left alone, stranded ones settle, and `CaptureMarks` is implemented |
| `recovery` | two channels on two platforms, three instants, a settle time of two | no download beside a capture, no window forgotten, everything that may settle is recovered |
| `fetch` | two sessions, one broadcast | refusals are final, done has a recording, a missed broadcast settles |
| `program` | the parts around the core but the two that need failures and fairness to be of interest, each by itself | the safety properties below |
| `program_live` | holes, disk budget, watcher, tool, webhook, with their failures and fairness | every hole is filled or closed, the trash yields, what is told to end ends |
| `organizer_swap_crash` | a recompress and a crash | **violation**: a crash between its renames costs the recording |
| `settings_wipe` | a settings pane whose load is late or fails | **violation**: saving writes an empty configuration |

**The properties of `program`** are conjunctions of one or two promises, so that
a reader finds what belongs together in one place; each conjunct is defined, with
its comment, in the module of its part.

| property | conjuncts | in words |
|---|---|---|
| `WrittenReadsBack` | `ReadsAsWritten`, `TitlesReturn` | what is written beside a recording gives back its names and its titles |
| `OwnRowsAreOneShow` | `RowsAreOneShow` | where no import restored a row, no broadcast's row holds two shows |
| `WatchIsHonest` | `AnswersAreWhole`, `OneFragmentPerSession` | a tool's answer is read as it was meant, however much it says; a full disk leaves one fragment |
| `SessionStands` | `SessionSurvives`, `AuthorizationIsHeard` | the operator authorizes once, unless another process spent the token a caller had read |
| `CalendarIsHonest` | `DaysAreHonest` | a day never reads better than its evidence |
| `MissedIsPursued` | `ListingReaches`, `PlanFindsMissed`, `RoundIsHonest` | what is still there is found, what was missed is offered, a round that counts nothing left nothing but what it passed over singly |
| `InterfaceIsCurrent` | `LineIsOverItsRow`, `GridIsCurrent`, `PurgeIsDeliberate` | a late answer is shown where it belongs; what is purged was chosen |
| `RecordingsKeepTheirForm` | `NamedIsWhole`, `EncodingIsSteady` | a named file is as long as its source; one pass encodes a recording, once |
| `RegistrationStands` | `RegistrationIsHonest`, `SessionIsReturned` | what starts by itself has its program; Windows gets back what was borrowed |
| `SilenceStands` | `SilenceIsTold`, `SilencesReturn` | nothing is said of silenced audio that was not asked or heard |
| `SinksAreHonest` | `SocketSurvives`, `EventsAreAccountedFor` | a refused recorder takes nobody's socket; no event is lost unsaid |
| `RecoveredIsKept` | `FilledHasRecording`, `IncomingIsKept` | nothing is claimed before it is there, or swept once it is |
| `JoinedStands` | | no import changes a row its looks could see; one they missed is only filled |
| `LibraryStands` | `SchemaIsBuiltOnce`, `RootIsKept` | each migration once; no root replaced unasked |
| `LimitsStand` | | a limit written and read again is the one that was set; none becomes no limit but a fraction of a nanosecond |

In `program_live`: `AdmittedFits` (an admitted capture takes what it was admitted
for), `MeasuredIsFinal` (nothing touches what was measured), `HolesAreClosed`
(`FilledHasRecording`, `HolesSettle`), `TrashYields`, and `EndingsEnd`
(`StalledCaptureEnds`, `ToldReturns`, `HookCloses`).

**Why these bounds.** Two recorders and a pass are the three kinds of meeting
(same kind, other kind, and a third that arrives while two dispute). Time runs
far enough for a holder to lapse, another to claim, beat and lapse in turn
(`MaxTime` is at least twice `StaleAfter` and one). Recordings of different
broadcasts share no name and no fetch row, so the organizer's instance is one
broadcast; two recordings of it are enough to contend for a name, adopt each
other's media and be each other's remaining copy, and a name more than there are
recordings lets both be taken once by an interrupted move. A remux is given up on
at the second failure instead of the fifth: the count is only compared. Two slots
for two channels keep a capture from waiting, which `LiveRowStaysCapturing` needs
(section 5). `Recovery`'s three instants hold an outage that begins, ends and is
followed by a second. A fetch never reads another broadcast's row.

In `program`, every constant is the least with which the case its part is about
happens, and most are one more. Two imports beside the recorder's broadcast, two
commands of two or three schema versions, three recorders and two agents at one
socket and three tasks and commands over one token file each leave one that comes
between two others. Two tasks and a command are two processes that may both exchange
one token. What follows a dropped pair or a lock that was taken over is not
explored (the constraint `Unharmed`): `SessionSurvives` says nothing of it, and no other
part ever gets there. `CopyNamed` lets a recording of the show that is over and one of
the show on the air name their copies; the one that names none restores a hole. `Window` and `Day` let two shows of a channel fall inside the
matching window and two outside it. `MaxSize` 8, `MinFree` 2 and a volume of 10
put the cap's margin and the floor's on both sides of each other, with captures
expected to take 2 or 4. `Hours` 2 and two days in both kinds of zone give a day
whose midnight does not happen, one that has it twice, and a broadcast across
each. `Limit` 3 pieces of output hold an answer, one cut off and one behind
noise. `MaxUnits` 7 lets a name be shortened to its mark and to nothing. A page
of one entry and two pages let a listing end by its last page, by its bound and by
its window. Lifetimes and intervals of 0 and 1000 stand for what a server may
send beside the sensible 4 and 2. `MaxInt` 2047 overflows at a twentieth of a
thousandth of what the code does, and `Sizes` explains its kilobyte of twenty.
Holes cost most: what fails beside a second capture is left to `program_live`
(`MaxFaults` 0 and 1, `MaxCaptures` 2 and 1).

**Fairness.** `organizer_retry`: the sweep loop goes on and SweepParked is due
on every tick; nothing is asked of watchers, which a crash may have ended.
`captures`: the sweep loop and the restart go on, recordings grow old, and the
store does not refuse one row for ever (strong fairness, as the sweep meets the
row again and again). `recovery`: the loop, its ticker and the polls run as long
as the process does; strong fairness on the ticker and on the bound stands for a
store that is not always busy, and on a finished round over the whole horizon
for platforms that do not refuse every such round; the property itself only
speaks of runs in which crashes, captures and outages end. `fetch`: every
session that is up works, leases and backoffs run out, and from some time
(`Calm`) on nothing outside the program fails, so weak fairness is enough.
`program_live`: the idle loop of the disk looks again and again and its passes
over the trash go on, strongly where another pass may hold the purge in between;
grace periods run out; the watchdog's ticker is strong, because a poll between two
ticks does not stop it, and a capture whose context ended returns; passes over the
holes begin, go on and are `Calm` in the end; a tool that was started is attached,
its delay passes and whoever waits closes; the webhook's sender takes what waits,
a post ends at its time, and the grace of a close runs out. Nothing is assumed of
a tool's helpers, of a receiver, of the operator or of any platform.

## 4. Proofs

Each theorem holds for any number of processes, rows, channels and instants.
All assume only the named `ASSUME`s of their modules, which give the constants
their types; the theorems of which more is assumed say so in their statement.

**`RecorderSessionProofs`.** `TypeCorrect`: a measured downtime is a natural
number because no row and no previous beat is stamped in the future, the
strengthening `StampsOK`. `HolderKeepsItsRow` (`HolderRowOpen`): the invariant
is inductive together with the types; the step that matters is the refused
reopen, which must leave the old row as it was. `OneRecorder` (`SingleHolder`)
and `SessionsImplementClaim` (`ImplementsClaim`) assume that holders beat within
the window (`MaxLag < StaleAfter`, stated as the theorem's hypothesis) and that
nobody rebuilds the database. The invariant `LeaseInv` adds that the row of every
running process is fresh, so a start by anyone else finds the library held.
`OutageIsCovered` (`DowntimeCoversOutage`) is for recorders without a pass: `SeenInv`
says that no row is stamped later than what the store last saw of a recorder, so
the last row, against which a start measures, is no younger. `ClaimIsRetaken`
(`LostClaimIsRetaken`) asks nothing of the environment.

**`RecoveryProofs`.** `NoRoundBesideACapture`: `StopInv` follows the round
backwards. A capture that was told of a round, and one that is writing, finds
the round cancelled or not yet at its last look at the captures, and a round past
that look saw every capture that was noted before. The mark, the look and the
cancel are three steps, and only this order of them makes the invariant hold.
`WindowIsKept`: `WindowInv` adds to `WindowKept` that the current instant is
not owed yet and that an outage a channel remembers began at or before every
stretch it owes; then each step that drops a window is seen to drop nothing owed.

**`CapturesProofs`, over `Fetch`.** `FetchTypeCorrect`, `RefusalIsFinal` (an action property, straight
from the guards of each store call), `DoneWasRecorded` with `HeldInv` (what the
step a fetch is at says of the recordings there are) and `IdleHoldsNothingAlways`
with `ClaimInv` (a session that holds the row is at a step that gives it back).

**`CapturesProofs`, over `Captures`.** `TypeCorrect`, `LiveRowsStay` and `CapturesImplementMarks`.
The invariant `MarkInv` ties each channel's place in its cycle to the set of
marked rows and says that no two cycles make one recording; `LiveInv` adds that
a recording a cycle has not yet marked is not old, that whatever the sweep took
belongs to no cycle, and that a row being written says so. The theorem's
hypothesis is a slot for every channel: then a cycle that waits finds one at
once, and its recording is not old by the time its row is created.

**`LibraryProofs`, `ServicesProofs`, `NamingProofs` and `ProgramProofs`.** For each part there is
an invariant of its own specification, and two lemmas: the part's `Init` implies
it, and a step of the part keeps it. `ProgramProofs` shows that a step of the
program is a step of one part and a stutter of the others, so the invariant holds
`Throughout` any behaviour of the program, whichever parts are in it. Each of its
theorems has the name of the property of the run `program` it states. The
invariants, where they say more than the property itself:

- `ToolInv`: whoever runs is in the group that the end of the run kills, or is a
  program on Windows that was not held yet and has started nobody.
- `AnswersInv`: while nothing was dropped, what was kept followed by what the tool
  has still to say tells the answer; a measurement is always the last piece. So
  what was cut off is never taken for the whole.
- `EncodingInv`: no two passes are at one recording, the answer a pass works with is
  the one the process settled on, a pass about to encode is at a row still to be
  encoded, and none was encoded twice.
- `WatcherInv`: a capture runs only for a session that never halted, and what
  halts one is its only fragment.
- `CatalogueInv`: every row is of some one show: it starts while that show is on the
  air and bears no id but its own. `MatchIsOfShow` is the lemma that the rules
  of the match keep it, for any window.
- `ImporterInv`: a start that no poll can have read was written by an import, and
  such a row names a copy. `FilesInv` follows each import from what it read to
  what it writes: no two are at one file, and one that still looks for its
  broadcast is attached to none. `LookedInv` says what an import knows between its
  three calls: a row it has seen as it stands bears another identifier, and after
  the second look none that stands around its start is such a row; so the upsert
  matches only rows in `unseen`, those a call failed to show or somebody wrote since.
- `HolesInv`: a pass works at a hole nobody filled, what it says of the past was so,
  and at the steps between the row of a patch and its fill there is a recording
  behind the hole.
- `IncomingInv`: no row names a scratch file or what the running sweep has sighted;
  a download that landed is there until its row is, and none is on its way while a
  start sweeps.
- `BudgetInv`: a cycle nothing crowds counted at least the bytes that are there,
  and leaves room for what it has yet to take. The sum over the channels is a
  recursive function; that it exists and moves as its terms do is proved with the
  least counterexample (`HasLeast`), which stands in for induction.
- `LimitsStand` needs no invariant but types (the one text that may read as no limit
  is named in the property): each written form is exact by the
  arithmetic of quotient and rest. `CalendarHonest` needs the arithmetic of days:
  `DayReached` shows that a day begins with the first instant that belongs to it
  or to a later one, with any zone change, and excuses only the midnight that
  happens twice.
- `PlanInv` (`PlanFindsMissed`): every day of a broadcast the lookback reaches is a
  gap that was found once the walk is past its month, and such a broadcast is
  offered when its day is queried, and once. The walk over the months is followed by
  an existential month whose first day it stands at.
- `ListingInv` (`ListingReaches`): `AccountsInv` says that the account a channel is
  remembered by is its own, `WalkInv` that whatever is to be brought and is not yet
  is ahead of the listing: older than the cursor of its pages, or among those it
  still looks up. An archive that disappears between two pages moves none of them,
  because a cursor names an archive and not a place.
- `RoundInv` (`RoundTells`): `InHandInv` ties what is in hand to the channel whose turn
  it is, `ReportInv` what was reported to where each archive stands, `CleanInv` says
  that as long as nothing failed and nothing was left to another every archive of a
  channel behind the round is settled or among those the round overlooked, and `ResultInv` that the result is the counts it ends
  with. The last two together are the property.
- `AudioInv` (`SilenceIsTold`): the stretches are measured of a list of segments whose
  names say which are muted; a file said to hold no silence is silent throughout in
  no stretch that was verified. `SilentIsHeard` is the lemma about ffmpeg's report:
  any such stretch is heard. A playlist has three segments in the theorem as in the
  runs, enough for one that is muted between two that are not. `SilencesInv` names
  the forms in which an answer stands in the database (`StoredAs`), so that reading is
  its inverse.
- `TitlesInv` (`TitlesReturn`): while the database stands (`StandsInv`) its history is
  in order, tells every reading, and every sidecar is what it once began with;
  `SidecarsInv` says that two sidecars never differ where both speak; once it is
  gone, the history tells all of every sidecar that was restored. `TitleHistory` is
  read by rank: `Tells` says what stands at an instant as the last observation that
  is not later, which the leaving out of repeats does not change.
- `NamingInv` (`ReadsAsWritten`): a name that was given is the candidate of the values it
  was made of (`WrittenInv`), and what was read of it is right. The proof has two halves.
  What `Render` yields is taken apart: `FlattenSeq` is closed for one, three and five
  parts, `Fitting` only shortens, and what shortening leaves of the values is what
  `Shaped` asks of a part. What `Match` reads is then found again among all ways to cut
  the name. Where the author is a directory as well, the cut is the one at which the
  file's author ends: texts that differ in trailing dots alone are one directory, and
  of two dashes only one can follow that author (`OneAuthor`, `OneDash`). Where he is
  not, the first cut and the last agree only if there is one, or the name is refused.
  The replacement, the suffix of a second copy and the mark of a device's name are
  each undone or called lossy.
- `SchedulerInv`: references, apartment and thread are counted against the calls
  that are open, whichever call fails. `ServiceInv`: an entry is written only for a
  program that is there, and a program is removed only once nothing starts it.
- `WebhookInv`: what was asked for is queued, being posted, sent or dropped, and
  in its turn.
- `ScreenInv`: a reload under way that nothing was asked behind is of what is
  selected, and at most one purge is under way.
- `SetupInv`: what each command at each step knows of the database's version, and
  that the migrations applied are those up to it.
- `AccountInv`: as long as no pair was dropped and no lock taken over, `PairInv` says
  that the stored token was spent by nobody but one who has its successor in hand,
  that a pair in hand is one caller's and nobody else's, and that what a caller has
  read was spent by no other of its own process; `GateInv` that one task is
  inside the recorder's session and one writer in the file, who writes what it
  read. Processes are not kept apart by anything but the file's lock. `DeviceInv`: a code is given
  up only after its time, and then it was not authorized within it.

`HasLeast` also serves elsewhere as the place where well-foundedness enters; there
is no proof by an induction rule in these modules: where the code runs through data
of any length, as through the history of titles, the statement is about a first or a
last element, which exists by it.

**`OrganizerProofs`.** The organizer's theorems stand on `JobInv`: with the types, that
two calls through one organizer are at two recordings (`Apart`) and what holds of
a recording somebody works at (`JobOK`): who finalizes it has its row, and who
releases it finds it in the trash, missing or gone. `Moves` says what one step of
one worker may do to any row; the invariant is kept because every handler is such
a step. From there come four groups of theorems.

- `DeletedRefused` (`DeletedIsRefused`, while the store answers): when the last
  recording has gone missing and no process crashed, the broadcast is refused or a
  sweep stands right before refusing it (`DeletedInv`).
- `PurgedRefused` (`PurgedIsRefused`, with one interface): a recording is `Gone`
  once it is trashed, has no row or is being released. `PurgeInv` says that the
  broadcast is refused when all are gone, and already when a purge is past its
  refusal and all the others are gone. With two interfaces the theorem is false
  (section 5).
- `CompleteWhole` (`CompleteIsWhole`), `AdoptsOwn` (`AdoptsOwnMedia`) and `NothingIsLost`
  (`OnlyCondemnedAreLost`), while it is `Calm`: recordings are finalized by any number
  of goroutines and by the sweep, with any number of crashes and whatever call or
  tool fails, and nothing else is done to them; the lengths tell recordings apart;
  and a file is held open only while one goroutine finalizes. Without the last two
  the statements are false (section 5), and a purge, a recompress or a deletion by
  hand gives up names as a held file does. The invariant is `WholeInv`.
  `Lies`: the media of a recording is at the path its row names, or the row still
  names the remuxed file and the media is under some name of the series.
  `NoGaps`: no name below one that holds media is vacant. That is why a second
  call, which picks the first free name, comes back to the name the first one
  chose, and so why a crash between the move and the store of the path is
  harmless; a claim that is given up is what could break it, hence `Reserved`, which
  a worker knows of the name it claims. `Knows` says what a worker knows at each
  step, `Gentle` what a step of one leaves to the others, and `OwnTargets` that no two
  are about to move onto one name.
- `OriginalKept` (`OriginalIsBeside`) and `OnlyPurgesLose` (`OnlyCondemnedAreLost`), for
  the only recording of a broadcast, which nobody deletes by hand
  (`OneRecording`): any number of goroutines finalize, sweep, encode, purge and
  release it, through one organizer or two, files are held open, tools and store
  calls fail, and processes crash. `BesideInv` speaks of the time until a purge
  begins. `Stands`: the media is at the path the row names, or under the one name
  it was moved to with its path not stored, or set aside beside its name with that
  name left empty; and under no other name. `Topped`: every lower name is taken,
  which is why a finalize of a recording that lies under a name chooses that name
  again, although a claim given up may have left others free. `Holds` says what a
  worker knows at each step of a finalize or of the swap, and `OneAtWork` that it
  has the recording to itself, from `Apart`. With several recordings both are
  false (section 5): held files let a row complete with the media of another, and
  its purge then takes that.

**Theorems that are not properties of a run.** `TypeCorrect` of the core
modules, `FetchTypeCorrect` and `IdleHoldsNothingAlways` are invariants of every step and are stated
here only; each is cited by the theorems behind it.

**Only model-checked.** Every property a passing run checks is stated by a theorem,
but for liveness, which is out of this prover's reach and is what the runs show on
their instances: `PendingSettles`, `StrandedSettles`, `LostIsRecovered`,
`MissedIsSettled`, `HolesSettle`, `TrashYields`, `EndingsEnd`. And where a theorem has a
hypothesis, the runs show the property without it: `AdoptsOwnMedia` and
`CompleteIsWhole` outside `Calm`, `OriginalIsBeside` and `OnlyCondemnedAreLost` outside
`Calm` and `OneRecording` (held files beside several recordings, purges, equal
lengths) are what the three organizer runs show on their instances.

## 5. Where the code and its promises part

Two runs end in a violation, each of a promise the repository's own text makes:
`organizer_swap_crash` (a crash between the renames of a recompress) and
`settings_wipe` (ctrl+s before a load answered). `PROJECT.json` quotes them. The
models and the attempts to prove about them showed more, none with a run of its
own; each was seen as a counterexample of TLC, or is a case that a property's own
definition has to excuse.

**Organizer**

- *Mixed-up media.* A file held open by another program and two calls cut short let a
  recording complete with the media of another of its broadcast. r1 gives its claim
  of the first name up because its file is held; r2, on the second name, was cut
  short before its sidecar, so the next call moves it from the second name down to
  the freed first one (`organize.go:928-977`) and is cut short before the path is
  stored; r1 takes the second name and cannot store it, because r2's row names
  it; r2's next call finds a file at its own path, which is never asked whose it
  is, and completes. r1 is stalled for ever. `organize.go:1007-1008` asks of a
  candidate that it "must hold the recording's own media". (`organizer_finalize` with
  `MaxCrashes` 2; `AdoptsOwn` proves that held files and several workers are needed.)
- Of two recordings interrupted after their moves, the longer one adopts the shorter
  one's file, as a length fits whenever it is no longer than the clock around it.
- Two interfaces that purge the last two recordings of a broadcast at once each see
  the other's still held, and neither refuses the broadcast (`organize.go:624`). A
  purge beside a sweep that finds the other copy missing (`daemon.go:818`) leaves
  one trashed, one missing and nothing refused.
- Purging a recording whose file was deleted by hand and whose name another one has
  taken since moves the other's file to the trash. A purge interrupted between
  sidecar and media frees a name that a recompress's install then overwrites
  (`organize.go:445`).
- A sweep that listed a recording before its purge finalizes it out of the trash
  (`recording.go:580-581` says no sweep looks there). A purge that is retried finds
  its own claim in the trash and fails for ever (`organize.go:697`). An interface
  in another process purges a recording the recorder is finalizing (`tui.go:644`).
- Between the two renames of a recompress a sweep declares the recording missing
  (`daemon.go:803`), and nothing moves the row back. The file of an encode that was
  killed blocks every later one of that recording (`organize.go:425`).
- A measurement that fails for ever is charged to nobody, and the row stays pending.

**Recorder, captures and recovery**

- Two recorders run after the first was frozen beyond the window and thawed
  (`daemon.go:889`, `README.md:43-44`); so `OneRecorder` has its hypothesis. A recorder
  started after a backfill pass measures its downtime against the pass.
- SweepCapturing works from a list: a capture that ends, is finalized and forgotten
  before the sweep reaches its row is set `failed` although it is complete
  (`daemon.go:1244-1279`). With fewer slots than channels a recording that waited
  for one is older than `strandedAfter` when its row appears; its start is the
  poll's.
- Two writers file one hole, the watcher's row and the detector's
  (`watch.go:648`, `watch.go:661`); a crash between AddGap and FillGap leaves a filled
  one open, one between CreateRecording and FillGap downloads it again; a late
  correction of the broadcast's start or of the anchor recording shifts or refiles
  holes with no attempts charged (`gaps.go:84-86`).
- An empty metadata block replaces the live session and loses its latches, and a
  stream id that changes with no offline poll between never closes the previous
  broadcast. Titles read on the probe's path may be the next broadcast's
  (`watch.go:891-975`).
- Fetches: ReleaseFetch and RecordFetchFailure name no claimant, so one whose lease
  ran out changes the row of the next, where `schema.go:266-267` says two fetchers
  cannot hold one broadcast; a fetch may be done with nothing in the library
  (`fetch.go:388`, `store/backfill.go:53`); a purge during a fetch keeps the row
  refused but the media comes back. A clean round consumes its window with what it
  passed over: a listing counts as a success although single lookups or row writes
  failed (`discover.go:200-209`, `240-247`), a plan although a fetch row could not be
  read (`plan.go:206-210`), and `ErrNoRoom` counts nothing, where `pass.go:62-64` has
  Failed count what "might not go wrong next time"; two concurrent admissions reserve
  nothing against each other (`backfill.go:497`).
- A finished download keeps the remote's modification time, so a start may sweep it
  between its landing and its row, and after a rebuilt database every parked capture
  older than a day is swept by the next start.
- `usage()` reads rows before the files that grow, and does not see a download
  whose row waits for its finalize; a warning may come after the refusal it warns of.

**What is known of broadcasts**

- A row opened live and joined late and an anonymous listing row of the same show
  refuse every later listing that carries both ids (`broadcast.go:133-137`); the
  nearest row may be joined though its archive id differs; a date-only end
  survives a better start (`broadcast.go:421-424`); a crash between UpsertBroadcast and
  SetBroadcastRecording leaves a broadcast nobody is attached to.
- An import looks twice and restores in three calls with nothing between them that
  guards (`importer.go:634-650`), and takes a failed look for an empty one: a row
  that is written meanwhile it may take for its own, fill with its identifier and move
  to its start, which is what the comment at `importer.go:638-645` is there to prevent.
  One that restores a broadcast takes the recording's start for its own, which
  later joins two shows; beside a Finalize it claims the path, and the recording's
  own row can never complete. Titles imported in part and then whole leave equal
  neighbours, and two readings of one instant import differently each time.
- West of UTC, where a midnight does not happen, `AddDate(0, 0, 1)` (`plan.go:155`) ends
  a day an hour early, so a broadcast missed in that hour is queried by no day,
  against `calendar.go:122-132`; `monthOf` of the next month (`plan.go:130`) may stay in
  the same month for ever. East of UTC, StartOfDayOn returns the second of two
  midnights. A failed BroadcastsBetween is treated as an empty one. A day with
  recordings only reads live although a range is degraded.
- A listing thins an unreadable silence out and says nothing is muted, where
  decodeMutedSpans refuses the whole list; a download served short past a stretch
  counts as audible (`fetch.go:446-452`), stretches past `maxVerifiedSpans` are
  trusted, an unreadable EXTINF shifts every later segment, and a negative offset
  of less than a millisecond becomes 0.
- Names are shortened by as many runes as there are bytes too many, so a long title
  of wide letters is cut to nothing and the name is read back as another's
  (`naming.go:3-9`); an author that is a directory loses a trailing dot and is not
  reported as lossy (`match.go:85-88`), nor are shortened titles.

**Tools and media**

- A decoder that stops quietly past half of a source passes every check of a remux,
  and Transcode has no check of size. A partial answer about encoders (a busy GPU)
  is kept for the process's life, although `encode.go:175-181` gives the reason not
  to keep an empty one.
- Of yt-dlp's errors the head is kept, so past the limit the closing line is lost and
  the failure is taken for transient (`output.go:47-52` has the tail for it).

**Operator's side**

- Credentials: two processes over one stored session (the recorder, `auth` with
  `auth.go:377`, a backfill) may both exchange its token, and the one that comes
  second is told to authorize again over a session that is alive, because renew does
  not read the file once more when it is refused (`helix.go:392-394`); a session that
  a logout forgets while an exchange is under way comes back with its save. A stale lock that is taken over lets two holders in, because
  `lockWait` is shorter than `lockStale`; the credential check deletes a token stored
  meanwhile (`serve.go:370-390`). A device code answered `slow_down` at its deadline
  is given up though it was authorized, and pollOnce does not clamp the first
  lifetime as Refresh does.
- Service: a failing enable removes the unit file of a recorder that runs, and the next
  uninstall finds it absent and removes the program; a re-install that fails takes
  a working registration away; a Windows helper that cannot be removed names a
  removed program; deleting a running task leaves its run.
- Interface: a save clears what was edited meanwhile, and saves
  and loads land in any order; a late ranking empties the selection under a standing
  prompt; a size line committed unchanged is rounded (1099511627777 becomes 1.1TB); a
  fraction of a nanosecond is read as no limit, because the language's own units pass
  by the guard of `scaleValue` (`units.go:289-296`);
  and, of the recorder the window runs, which
  is read here and not modelled: Start refuses for ever once one ended (`tui.go:396`),
  Stop after its end calls a nil function, and events arrive twice once it has stopped.
- Set-up and bus: a migration does not ask again for the version another process may
  have raised since (`sql.go`); two commands that create a library race; between the
  removal of a stale socket and the listen another recorder may step in, and one that
  starts while another still listens has no bus for life; Close has no bound.

## 6. Not modelled

`PROJECT.json` gives the reason part by part. In short:

- of the database: the columns nothing else decides by, what a migration does to
  rows, and the migrations of JSON and TOML documents; channels are a constant;
- of retention: the scores that order what is purged first (`Screen` has the set that
  is offered); of naming: the placeholders of dates, categories and ids and the
  parsing of templates, which have one reading;
- of the configuration: the validation of fields but sizes, one predicate;
- of the interface: the recorder the window starts, stops and polls, the feed, the
  mouse and the drawing, on which neither the grid nor a purge depends;
- of the tools: their arguments, how programs are looked up, the lengths of retries;
- of the platform: requests that are only I/O, and the second provider's addresses;
- the desktop's notifications, logging, escaping, paths, versions and the build's own
  tools, which keep no state; intervals of loops, which are nondeterministic here.

What a property excuses is said at its definition: `SessionSurvives` a dropped pair
and a lock that was taken over, `JoinedStands` rows an import's calls missed, `RoundIsHonest`
what a round passed over singly, `LimitsStand` a fraction of a nanosecond, `PlanFindsMissed` the lost
midnight, `OwnRowsAreOneShow` rows an import restored, `CompleteIsWhole` and
`AdoptsOwnMedia` files deleted by hand, `DeletedIsRefused` crashes.

## 7. Plan

1. `OriginalIsBeside` for several recordings while no file is held and nothing is
   purged.
2. `PurgedIsRefused` with several interfaces, once the refusal and the state of the
   row are one transaction; `CompleteIsWhole` outside `Calm`, once a source that is
   present is asked whose it is.
3. The scores of retention and the merge of template placeholders, if their code
   grows beyond one reading.
