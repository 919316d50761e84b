------------------------------ MODULE Program ------------------------------
(***************************************************************************)
(* The parts of the program that share no state with each other, in one    *)
(* specification: a behaviour is a behaviour of the part its first state   *)
(* chose, and the others rest where they began.  An import and the         *)
(* catalogue are two parts over the same broadcasts.                       *)
(***************************************************************************)
EXTENDS Holes, Importer, Budget, Watcher, Account, Calendar, Settings, Screen, Setup, Tool,
        Replace, Notices, Naming, Service, Audio, Sizes, Incoming, Pass, Titles,
        Listing, Device, Plan, Encoding, Answers

CONSTANT Parts          \* the parts a run looks at

ASSUME PartsAssumption ==
  Parts \subseteq {"holes", "catalogue", "importer", "budget", "watcher", "account", "calendar",
                   "settings", "screen", "setup", "tool", "replace", "notices", "naming",
                   "service", "audio", "sizes", "incoming", "pass", "titles", "silences",
                   "webhook", "listing", "device", "plan", "encoding", "scheduler", "answers"}

VARIABLE part           \* the part this behaviour is of

vars == <<part, patching, catalogue, imported, budget, watcher, account, calendar, settings,
          screen, setup, tool, replacement, notices, naming, service, audio, sizes, incoming, pass,
          readings, silences, webhook, listing, device, plan, encoding, scheduler, answers>>

----------------------------------------------------------------------------

(* Where no recording is named.                                            *)
UnnamedInit ==
  /\ template = <<>> /\ fields = NotYet
  /\ written = NotYet /\ path = <<>> /\ reading = NotYet

(* Where no broadcast is listened to, and where no limit is written.       *)
SoundInit ==
  /\ playlist = <<>> /\ served = {} /\ spans = <<>>
  /\ address = NotAsked /\ media = <<>> /\ muted = NotHeard
UnwrittenInit == kind = "size" /\ value = 0 /\ text = NoText /\ origin = "nobody"

(* The parts that begin in several ways begin in one where they rest.      *)
ProgramInit ==
  /\ part \in Parts
  /\ HolesInit /\ (part = "holes" \/ copy.vod = 0)
  /\ IF part = "catalogue" THEN CatalogueInit ELSE LostInit
  /\ ImporterInit /\ (part = "importer" \/ \A f \in 1 .. Files : files[f] = CHOOSE m \in MediaFile : TRUE)
  /\ BudgetInit /\ WatcherInit /\ AccountInit
  /\ IF part = "plan" THEN PlanInit ELSE CalendarInit /\ UnplannedInit
  /\ part \in {"calendar", "plan"} \/ (begun = [b \in Aired |-> Hours] /\ zone = CHOOSE z \in Unchanging : TRUE)
  /\ SettingsInit /\ ScreenInit
  /\ SetupInit /\ (part = "setup" \/ config = Absent)
  /\ ToolInit /\ (part = "tool" \/ (system = "unix" /\ piped))
  /\ ReplaceInit /\ (part = "replace" \/ (replacing = "remux" /\ whole = CHOOSE m \in Medium : TRUE))
  /\ NoticesInit /\ (part = "notices" \/ socket = NoSocket)
  /\ IF part = "naming" THEN NamingInit ELSE UnnamedInit
  /\ ServiceInit /\ (part = "service" \/ host = "systemd")
  /\ IF part = "audio" THEN AudioInit ELSE SoundInit
  /\ IF part = "sizes" THEN SizesInit ELSE UnwrittenInit
  /\ IncomingInit
  /\ PassInit /\ (part = "pass" \/ \A a \in Archive : lies[a] = "unlisted")
  /\ TitlesInit
  /\ SilencesInit
  /\ WebhookInit
  /\ ListingInit /\ (part = "listing" \/ undated = {})
  /\ DeviceInit
  /\ EncodingInit
  /\ SchedulerInit
  /\ AnswersInit

(* The step is of one part, and the others rest.                           *)
Alone(name) ==
  /\ part = name /\ UNCHANGED part
  /\ IF name = "holes" THEN TRUE ELSE UNCHANGED patching
  /\ IF name \in {"catalogue", "importer"} THEN TRUE ELSE UNCHANGED catalogue
  /\ IF name = "importer" THEN TRUE ELSE UNCHANGED imported
  /\ IF name = "budget" THEN TRUE ELSE UNCHANGED budget
  /\ IF name = "watcher" THEN TRUE ELSE UNCHANGED watcher
  /\ IF name = "account" THEN TRUE ELSE UNCHANGED account
  /\ IF name = "calendar" THEN TRUE ELSE UNCHANGED calendar
  /\ IF name = "settings" THEN TRUE ELSE UNCHANGED settings
  /\ IF name = "screen" THEN TRUE ELSE UNCHANGED screen
  /\ IF name = "setup" THEN TRUE ELSE UNCHANGED setup
  /\ IF name = "tool" THEN TRUE ELSE UNCHANGED tool
  /\ IF name = "replace" THEN TRUE ELSE UNCHANGED replacement
  /\ IF name = "notices" THEN TRUE ELSE UNCHANGED notices
  /\ IF name = "naming" THEN TRUE ELSE UNCHANGED naming
  /\ IF name = "service" THEN TRUE ELSE UNCHANGED service
  /\ IF name = "audio" THEN TRUE ELSE UNCHANGED audio
  /\ IF name = "sizes" THEN TRUE ELSE UNCHANGED sizes
  /\ IF name = "incoming" THEN TRUE ELSE UNCHANGED incoming
  /\ IF name = "pass" THEN TRUE ELSE UNCHANGED pass
  /\ IF name = "titles" THEN TRUE ELSE UNCHANGED readings
  /\ IF name = "silences" THEN TRUE ELSE UNCHANGED silences
  /\ IF name = "webhook" THEN TRUE ELSE UNCHANGED webhook
  /\ IF name = "listing" THEN TRUE ELSE UNCHANGED listing
  /\ IF name = "device" THEN TRUE ELSE UNCHANGED device
  /\ IF name = "plan" THEN TRUE ELSE UNCHANGED plan
  /\ IF name = "encoding" THEN TRUE ELSE UNCHANGED encoding
  /\ IF name = "scheduler" THEN TRUE ELSE UNCHANGED scheduler
  /\ IF name = "answers" THEN TRUE ELSE UNCHANGED answers

ProgramNext ==
  \/ Alone("holes") /\ HolesNext
  \/ Alone("catalogue") /\ CatalogueNext
  \/ Alone("importer") /\ ImporterNext
  \/ Alone("budget") /\ BudgetNext
  \/ Alone("watcher") /\ WatcherNext
  \/ Alone("account") /\ AccountNext
  \/ Alone("calendar") /\ CalendarNext
  \/ Alone("settings") /\ SettingsNext
  \/ Alone("screen") /\ ScreenNext
  \/ Alone("setup") /\ SetupNext
  \/ Alone("tool") /\ ToolNext
  \/ Alone("replace") /\ ReplaceNext
  \/ Alone("notices") /\ NoticesNext
  \/ Alone("naming") /\ NamingNext
  \/ Alone("service") /\ ServiceNext
  \/ Alone("audio") /\ AudioNext
  \/ Alone("sizes") /\ SizesNext
  \/ Alone("incoming") /\ IncomingNext
  \/ Alone("pass") /\ PassNext
  \/ Alone("titles") /\ TitlesNext
  \/ Alone("silences") /\ SilencesNext
  \/ Alone("webhook") /\ WebhookNext
  \/ Alone("listing") /\ ListingNext
  \/ Alone("device") /\ DeviceNext
  \/ Alone("plan") /\ PlanNext
  \/ Alone("encoding") /\ EncodingNext
  \/ Alone("scheduler") /\ SchedulerNext
  \/ Alone("answers") /\ AnswersNext

ProgramSpec == ProgramInit /\ [][ProgramNext]_vars

(* What the parts' own fairness says, of the part that runs.               *)
ProgramFairness ==
  /\ WF_budget(part = "budget" /\ CheckSpace) /\ SF_budget(part = "budget" /\ Release)
  /\ \A i \in 1 .. MaxTrash : WF_budget(part = "budget" /\ i = Expired /\ Expire)
  /\ SF_watcher(part = "watcher" /\ Tick /\ cycle'.quiet # cycle.quiet)
  /\ WF_watcher(part = "watcher" /\ cycle.ended # "" /\ CaptureEnds)
  /\ WF_patching(part = "holes" /\ BeginPass)
  /\ WF_patching(part = "holes" /\ Pass) /\ WF_patching(part = "holes" /\ Calm)
  /\ WF_tool(part = "tool" /\ Attach)
  /\ WF_tool(part = "tool" /\ Delay) /\ WF_tool(part = "tool" /\ WaitAndClose)
  /\ WF_webhook(part = "webhook" /\ TakeEvent) /\ WF_webhook(part = "webhook" /\ Cancelled)
  /\ WF_webhook(part = "webhook" /\ Grace)

ProgramFairSpec == ProgramSpec /\ ProgramFairness

----------------------------------------------------------------------------

(* broadcast.go, matchBroadcast: what the recorder and the listings        *)
(* describe is of one show in each row, where no import restored a row.    *)
OwnRowsAreOneShow == part = "catalogue" => RowsAreOneShow

(* coverage.go, captureState and recordedState: what DaysAreHonest says,   *)
(* of the states in which the calendar is asked.                           *)
CalendarIsHonest == part = "calendar" => DaysAreHonest

(* naming.go and importer.go: what is written beside a recording is all    *)
(* that is left of it once the database is lost.  A name reads back as the *)
(* values it was made of, and the titles of a broadcast as those that were *)
(* read of it, instant by instant.                                         *)
WrittenReadsBack == ReadsAsWritten /\ TitlesReturn

(* fetch.go and broadcast.go: of what the platform silenced, nothing is    *)
(* said that was not asked or heard: not on the way through the database,  *)
(* and not of the file that was downloaded.                                *)
SilenceStands == SilenceIsTold /\ SilencesReturn

(* helix.go, plan.go and pass.go: what the platform still has of the       *)
(* lookback is found, what was missed of it is offered, and a round that   *)
(* counted nothing left none of it but what it passed over singly.         *)
MissedIsPursued == ListingReaches /\ PlanFindsMissed /\ RoundIsHonest

(* helix.go and device.go: the operator authorizes once.  What they enter  *)
(* while the code lives is heard, and the session it gave is kept through  *)
(* exchanges, restarts and other commands until they end it.               *)
SessionStands == SessionSurvives /\ AuthorizationIsHeard

(* Once a pair was dropped or a lock taken over SessionSurvives says no    *)
(* more, so that a run need not go on from there.                          *)
Unharmed == ~harmed

(* post.go, ReplaceVerified, encode.go and daemon.go, RecompressPass: what *)
(* a recording's row names plays as long as what it replaced; and of the   *)
(* passes that may encode it again one does, once, with an encoder of the  *)
(* one answer its process keeps.                                           *)
RecordingsKeepTheirForm == NamedIsWhole /\ EncodingIsSteady

(* install.go and scheduler_com_windows.go: what starts by itself has the  *)
(* program it names, commands say what they left, and each operation on    *)
(* Windows gives back what it borrowed of the system.                      *)
RegistrationStands == RegistrationIsHonest /\ SessionIsReturned

(* watch.go and output.go: what a tool answers of a channel is read as it  *)
(* was meant, however much it says, and a full disk does not turn one      *)
(* broadcast into fragments.                                               *)
WatchIsHonest == AnswersAreWhole /\ OneFragmentPerSession

(* bus.go and notify.go: a recorder that refuses to start takes nobody's   *)
(* socket, and an event that no sink delivers is logged by the one that    *)
(* gave it up.                                                             *)
SinksAreHonest == SocketSurvives /\ EventsAreAccountedFor

(* model.go, applyLoaded, settings.go, applySettings, and purge.go: an     *)
(* answer that comes late is shown where the operator is now, with no grid *)
(* of a month they left and no line open over a list that was replaced     *)
(* under it; and what is purged is what they chose.                        *)
InterfaceIsCurrent == LineIsOverItsRow /\ GridIsCurrent /\ PurgeIsDeliberate

(* sql.go, Run, and load.go, SetLibraryRoot: of commands and recorders     *)
(* that start at once, one builds the schema and one claims the root, and  *)
(* nobody undoes what another one finished.                                *)
LibraryStands == []SchemaIsBuiltOnce /\ RootIsKept

(* fetch.go, patch.go and daemon.go, SweepIncoming: what is downloaded is  *)
(* not claimed before it is there, and nothing sweeps it away once it is.  *)
RecoveredIsKept == FilledHasRecording /\ IncomingIsKept

(* pass.go and patch.go: whatever fails, a hole is marked filled only once *)
(* a recording of its span is filed, and the holes of a broadcast that is  *)
(* over stop being downloaded.                                             *)
HolesAreClosed == FilledHasRecording /\ HolesSettle

(* watch.go, watchCapture, procgroup.go, WaitDelay, and notify.go, Close:  *)
(* a capture that takes no bytes is ended, a run of a tool that is told to *)
(* end returns, whatever the tool's own helpers hold open, and a shutdown  *)
(* does not wait for a receiver that never answers.                        *)
EndingsEnd == StalledCaptureEnds /\ ToldReturns /\ HookCloses
=============================================================================
