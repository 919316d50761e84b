--------------------------- MODULE ProgramProofs ---------------------------
(***************************************************************************)
(* What the parts promise, of the program they are parts of: a step of the *)
(* program is a step of one part and leaves the variables of the others    *)
(* as they are, so that each part's behaviour is one of its own            *)
(* specification, whichever part the first state chose.                    *)
(***************************************************************************)
EXTENDS Program, LibraryProofs, ServicesProofs, NamingProofs, TLAPS

(* What a step of the program is to one part.                              *)
LEMMA ToolSteps == [ProgramNext]_vars => [ToolNext]_tool
  BY DEF ProgramNext, Alone, vars
LEMMA ReplaceSteps == [ProgramNext]_vars => [ReplaceNext]_replacement
  BY DEF ProgramNext, Alone, vars
LEMMA EncodingSteps == [ProgramNext]_vars => [EncodingNext]_encoding
  BY DEF ProgramNext, Alone, vars
LEMMA WatcherSteps == [ProgramNext]_vars => [WatcherNext]_watcher
  BY DEF ProgramNext, Alone, vars
LEMMA NoticesSteps == [ProgramNext]_vars => [NoticesNext]_notices
  BY DEF ProgramNext, Alone, vars
LEMMA WebhookSteps == [ProgramNext]_vars => [WebhookNext]_webhook
  BY DEF ProgramNext, Alone, vars
LEMMA ServiceSteps == [ProgramNext]_vars => [ServiceNext]_service
  BY DEF ProgramNext, Alone, vars
LEMMA SchedulerSteps == [ProgramNext]_vars => [SchedulerNext]_scheduler
  BY DEF ProgramNext, Alone, vars
LEMMA SettingsSteps == [ProgramNext]_vars => [SettingsNext]_settings
  BY DEF ProgramNext, Alone, vars
LEMMA ScreenSteps == [ProgramNext]_vars => [ScreenNext]_screen
  BY DEF ProgramNext, Alone, vars
LEMMA SetupSteps == [ProgramNext]_vars => [SetupNext]_setup
  BY DEF ProgramNext, Alone, vars
LEMMA AccountSteps == [ProgramNext]_vars => [AccountNext]_account
  BY DEF ProgramNext, Alone, vars
LEMMA DeviceSteps == [ProgramNext]_vars => [DeviceNext]_device
  BY DEF ProgramNext, Alone, vars
LEMMA PartStays == [ProgramNext]_vars => part' = part
  BY DEF ProgramNext, Alone, vars
LEMMA CatalogueSteps == [ProgramNext]_vars /\ part = "catalogue" => [CatalogueNext]_catalogue
  BY DEF ProgramNext, Alone, vars
LEMMA ImporterSteps == [ProgramNext]_vars /\ part = "importer" => [ImporterNext]_importer
  BY DEF ProgramNext, Alone, vars, catalogue, imported, importer
LEMMA HolesSteps == [ProgramNext]_vars => [HolesNext]_patching
  BY DEF ProgramNext, Alone, vars
LEMMA IncomingSteps == [ProgramNext]_vars => [IncomingNext]_incoming
  BY DEF ProgramNext, Alone, vars
LEMMA BudgetSteps == [ProgramNext]_vars => [BudgetNext]_budget
  BY DEF ProgramNext, Alone, vars
LEMMA SizesSteps == [ProgramNext]_vars => [SizesNext]_sizes
  BY DEF ProgramNext, Alone, vars
LEMMA AnswersSteps == [ProgramNext]_vars => [AnswersNext]_answers
  BY DEF ProgramNext, Alone, vars
LEMMA CalendarSteps == [ProgramNext]_vars => [CalendarNext]_calendar
  BY DEF ProgramNext, Alone, vars
LEMMA ListingSteps == [ProgramNext]_vars => [ListingNext]_listing
  BY DEF ProgramNext, Alone, vars
LEMMA PassSteps == [ProgramNext]_vars => [PassNext]_pass
  BY DEF ProgramNext, Alone, vars
LEMMA PlanSteps == [ProgramNext]_vars => UNCHANGED plan \/ [PlanNext]_<<calendar, plan>>
  BY DEF ProgramNext, Alone, vars
LEMMA AudioSteps == [ProgramNext]_vars => [AudioNext]_audio
  BY DEF ProgramNext, Alone, vars
LEMMA TitlesSteps == [ProgramNext]_vars => [TitlesNext]_readings
  BY DEF ProgramNext, Alone, vars
LEMMA NamingSteps == [ProgramNext]_vars => [NamingNext]_naming
  BY DEF ProgramNext, Alone, vars
LEMMA NamesRest == [ProgramNext]_vars /\ part # "naming" => UNCHANGED naming
  BY DEF ProgramNext, Alone, vars
LEMMA SilencesSteps == [ProgramNext]_vars => [SilencesNext]_silences
  BY DEF ProgramNext, Alone, vars
LEMMA ImportsRest == [ProgramNext]_vars /\ part # "importer" => UNCHANGED imports
  BY DEF ProgramNext, Alone, vars, imported

(* verify.go and the tools' runs: MeasuredFinal, of the program.           *)
THEOREM MeasuredFinalThroughout == ProgramSpec => []MeasuredIsFinal
<1>1. ProgramInit => ToolInv
  BY ToolInvInit DEF ProgramInit
<1>2. ToolInv /\ [ProgramNext]_vars => ToolInv'
  BY ToolInvStep, ToolSteps
<1>3. ToolInv => MeasuredIsFinal
  BY DEF ToolInv
<1> QED
  BY <1>1, <1>2, <1>3, PTL DEF ProgramSpec

(* post.go, ReplaceVerified, encode.go and daemon.go, RecompressPass: what *)
(* a recording's row names plays as long as what it replaced, and one pass *)
(* encodes it.                                                             *)
THEOREM RecordingsKeptThroughout == ProgramSpec => []RecordingsKeepTheirForm
<1>1. ProgramInit => ReplaceInv /\ EncodingInv
  BY EncodingInvInit DEF ProgramInit, ReplaceInit, ReplaceInv
<1>2. ReplaceInv /\ EncodingInv /\ [ProgramNext]_vars => ReplaceInv' /\ EncodingInv'
  BY ReplaceInvStep, ReplaceSteps, EncodingInvStep, EncodingSteps
<1>3. ReplaceInv /\ EncodingInv => RecordingsKeepTheirForm
  BY ReplaceInvNamed, EncodingInvSteady DEF RecordingsKeepTheirForm
<1> QED
  BY <1>1, <1>2, <1>3, PTL DEF ProgramSpec

(* watch.go, output.go and their readers: a full disk leaves one fragment  *)
(* of a broadcast, in whatever order polls, checks and ends of captures    *)
(* come, and whatever was kept of what a tool wrote is read as what the    *)
(* tool said.                                                              *)
THEOREM WatchHonestThroughout == ProgramSpec => []WatchIsHonest
<1>1. ProgramInit => WatcherInv /\ AnswersInv
  BY SessionTypes, AnswersInvInit DEF ProgramInit, WatcherInit, WatcherInv, Nobody
<1>2. WatcherInv /\ AnswersInv /\ [ProgramNext]_vars => WatcherInv' /\ AnswersInv'
  BY WatcherInvStep, WatcherSteps, AnswersInvStep, AnswersSteps
<1>3. WatcherInv /\ AnswersInv => WatchIsHonest
  <2>1. WatcherInv => OneFragmentPerSession
    BY DEF WatcherInv, OneFragmentPerSession
  <2>2. AnswersInv => AnswersAreWhole
    BY DEF AnswersInv
  <2> QED
    BY <2>1, <2>2 DEF WatchIsHonest
<1> QED
  BY <1>1, <1>2, <1>3, PTL DEF ProgramSpec

(* bus.go and notify.go: a recorder that refuses to start takes nobody's   *)
(* socket, and an event that no sink delivers is logged by the one that    *)
(* gave it up.                                                             *)
THEOREM SinksHonestThroughout == ProgramSpec => []SinksAreHonest
<1>1. ProgramInit => NoticesInv /\ WebhookInv
  BY WebhookInvInit DEF ProgramInit, NoticesInit, NoticesInv, NoticesTypeOK
<1>2. NoticesInv /\ WebhookInv /\ [ProgramNext]_vars => NoticesInv' /\ WebhookInv'
  BY NoticesInvStep, NoticesSteps, WebhookInvStep, WebhookSteps
<1>3. NoticesInv /\ WebhookInv => SinksAreHonest
  BY WebhookInvHonest DEF NoticesInv, SocketSurvives, SinksAreHonest
<1> QED
  BY <1>1, <1>2, <1>3, PTL DEF ProgramSpec

(* install.go and scheduler_com_windows.go: what starts by itself has the  *)
(* program it names, and each operation on Windows gives back what it      *)
(* borrowed of the system.                                                 *)
THEOREM RegistrationStandsThroughout == ProgramSpec => []RegistrationStands
<1>1. ProgramInit => ServiceInv
  BY DEF ProgramInit, ServiceInit, ServiceInv, ServiceTypeOK, RegistrationIsHonest, StartsAlone,
         Installing, Dropping, NoCommand
<1>2. ProgramInit => SchedulerInv
  BY SchedulerInvInit DEF ProgramInit
<1>3. ServiceInv /\ SchedulerInv /\ [ProgramNext]_vars => ServiceInv' /\ SchedulerInv'
  BY ServiceInvStep, ServiceSteps, SchedulerInvStep, SchedulerSteps
<1>4. ServiceInv /\ SchedulerInv => RegistrationStands
  BY SchedulerInvReturned DEF ServiceInv, RegistrationStands
<1> QED
  BY <1>1, <1>2, <1>3, <1>4, PTL DEF ProgramSpec

(* model.go, applyLoaded, settings.go, applySettings, and purge.go: an     *)
(* answer that comes late is shown where the operator is now, and what is  *)
(* purged is what they chose.                                              *)
THEOREM InterfaceCurrentThroughout == ProgramSpec => []InterfaceIsCurrent
<1>1. ProgramInit => SettingsInv /\ ScreenInv
  BY SettingsInvInit, ScreenInvInit DEF ProgramInit
<1>2. SettingsInv /\ ScreenInv /\ [ProgramNext]_vars => SettingsInv' /\ ScreenInv'
  BY SettingsInvStep, SettingsSteps, ScreenInvStep, ScreenSteps
<1>3. SettingsInv /\ ScreenInv => InterfaceIsCurrent
  BY ScreenInvHonest DEF SettingsInv, InterfaceIsCurrent
<1> QED
  BY <1>1, <1>2, <1>3, PTL DEF ProgramSpec

(* sql.go, Run, and load.go, SetLibraryRoot: of commands and recorders     *)
(* that start at once, one builds the schema and one claims the root.      *)
THEOREM LibraryStandsThroughout == ProgramSpec => LibraryStands
<1>1. ProgramInit => SetupInv
  BY SetupInvInit DEF ProgramInit
<1>2. SetupInv /\ [ProgramNext]_vars => SetupInv'
  BY SetupInvStep, SetupSteps
<1>3. SetupInv => SchemaIsBuiltOnce
  BY SetupInvBuilt
<1>4. SetupInv /\ [ProgramNext]_vars => [RootKept]_setup
  BY SetupInvKept
<1>5. LibraryStands <=> []SchemaIsBuiltOnce /\ [][RootKept]_setup
  BY DEF LibraryStands, RootIsKept, RootKept
<1> QED
  BY <1>1, <1>2, <1>3, <1>4, <1>5, PTL DEF ProgramSpec

(* helix.go and device.go: the operator authorizes once, and the session   *)
(* they gave is kept until they end it or an exchange of the stored token  *)
(* that another process has spent refuses it.                              *)
THEOREM SessionStandsThroughout == ProgramSpec => []SessionStands
<1>1. ProgramInit => AccountInv /\ DeviceInv
  BY AccountInvInit, DeviceInvInit DEF ProgramInit
<1>2. AccountInv /\ DeviceInv /\ [ProgramNext]_vars => AccountInv' /\ DeviceInv'
  BY AccountInvStep, AccountSteps, DeviceInvStep, DeviceSteps
<1>3. AccountInv /\ DeviceInv => SessionStands
  BY AccountInvSession DEF DeviceInv, SessionStands
<1> QED
  BY <1>1, <1>2, <1>3, PTL DEF ProgramSpec

(* broadcast.go, matchBroadcast: what the recorder and the listings        *)
(* describe is of one show in each row, where no import restored a row.    *)
THEOREM OwnRowsThroughout == ProgramSpec => []OwnRowsAreOneShow
<1> DEFINE Inv == part = "catalogue" => CatalogueInv
<1>1. ProgramInit => Inv
  BY CatalogueInvInit DEF ProgramInit
<1>2. Inv /\ [ProgramNext]_vars => Inv'
  BY CatalogueInvStep, CatalogueSteps, PartStays
<1>3. Inv => OwnRowsAreOneShow
  BY CatalogueInvShows DEF OwnRowsAreOneShow
<1> HIDE DEF Inv
<1> QED
  BY <1>1, <1>2, <1>3, PTL DEF ProgramSpec

(* importer.go, broadcastFor: no import changes a row that stood when it   *)
(* looked, it only fills one that it could not see, and none takes a       *)
(* recording from where another put it.                                    *)
THEOREM JoinedStandsThroughout == ProgramSpec => JoinedStands
<1> DEFINE Inv == part = "importer" => ImporterInv
<1>1. ProgramInit => Inv
  BY ImporterInvInit DEF ProgramInit
<1>2. Inv /\ [ProgramNext]_vars => Inv'
  BY ImporterInvStep, ImporterSteps, PartStays
<1>3. Inv /\ [ProgramNext]_vars => [JoinedKept]_importer
  <2>1. part = "importer" /\ Inv /\ [ProgramNext]_vars => JoinedKept
    BY ImporterInvJoined, ImporterSteps
  <2>2. part # "importer" /\ [ProgramNext]_vars => JoinedKept
    BY ImportsRest DEF JoinedKept
  <2> QED
    BY <2>1, <2>2
<1>4. JoinedStands <=> [][JoinedKept]_importer
  BY DEF JoinedStands, JoinedKept
<1> HIDE DEF Inv
<1> QED
  BY <1>1, <1>2, <1>3, <1>4, PTL DEF ProgramSpec

(* fetch.go, patch.go and daemon.go, SweepIncoming: what is downloaded is  *)
(* not claimed before it is there, and nothing sweeps it away once it is.  *)
THEOREM RecoveredKeptThroughout == ProgramSpec => RecoveredIsKept
<1> DEFINE Inv == HolesInv /\ IncomingInv
<1>1. ProgramInit => Inv
  BY HolesInvInit, IncomingInvInit DEF ProgramInit
<1>2. Inv /\ [ProgramNext]_vars => Inv'
  BY HolesInvStep, HolesSteps, IncomingStep, IncomingSteps
<1>3. Inv => \A f \in recorded : OnDisk(f)
  BY DEF IncomingInv
<1>4. Inv /\ [ProgramNext]_vars => [FilledRightly]_patching /\ [TakenRightly]_incoming
  BY HolesInvFilled, HolesSteps, IncomingStep, IncomingSteps
<1>5. RecoveredIsKept <=> /\ [][FilledRightly]_patching
                          /\ [](\A f \in recorded : OnDisk(f)) /\ [][TakenRightly]_incoming
  BY DEF RecoveredIsKept, FilledHasRecording, FilledRightly, IncomingIsKept, TakenRightly
<1> HIDE DEF Inv
<1> QED
  BY <1>1, <1>2, <1>3, <1>4, <1>5, PTL DEF ProgramSpec

(* space.go, Admit: no broadcast is let into the margin that ends its      *)
(* capture on its first check.                                             *)
THEOREM AdmittedFitsThroughout == ProgramSpec => []AdmittedFits
<1>1. ProgramInit => BudgetInv
  BY BudgetInvInit DEF ProgramInit
<1>2. BudgetInv /\ [ProgramNext]_vars => BudgetInv'
  BY BudgetInvStep, BudgetSteps
<1>3. BudgetInv => AdmittedFits
  BY BudgetInvFits
<1> QED
  BY <1>1, <1>2, <1>3, PTL DEF ProgramSpec

(* units.go, MarshalText and scaleValue: "a rounded form would let every   *)
(* command that writes the config quietly change the cap the operator      *)
(* set", and a small limit never becomes none but below Go's own units.    *)
THEOREM LimitsStandThroughout == ProgramSpec => LimitsStand
<1>1. ProgramInit => SizesInv
  BY SizesAssumption DEF ProgramInit, SizesInit, UnwrittenInit, SizesInv
<1>2. SizesInv /\ [ProgramNext]_vars => SizesInv' /\ [LimitKept]_sizes
  BY SizesInvStep, SizesSteps
<1> QED
  BY <1>1, <1>2, LimitsAreKept, PTL DEF ProgramSpec

(* coverage.go, captureState and recordedState: a day that claims to be    *)
(* whole is, and a quiet one is one nothing began on, wherever the zone's  *)
(* clock changes, but where a midnight happens twice.                      *)
THEOREM CalendarHonestThroughout == ProgramSpec => []CalendarIsHonest
<1>1. ProgramInit => CalendarTypeOK
  <2>1. ProgramInit => CalendarInit \/ PlanInit
    BY DEF ProgramInit
  <2> QED
    BY <2>1, CalendarInvInit
<1>2. CalendarTypeOK /\ [ProgramNext]_vars => CalendarTypeOK'
  BY CalendarInvStep, CalendarSteps
<1>3. CalendarTypeOK => CalendarIsHonest
  BY CalendarHonest DEF CalendarIsHonest
<1> QED
  BY <1>1, <1>2, <1>3, PTL DEF ProgramSpec

(* helix.go, plan.go and pass.go: what the platform still has of the       *)
(* lookback is found, what was missed of it is offered, and a round that   *)
(* left some of it is not reported as a clean one, but for what it passed  *)
(* over singly.                                                            *)
THEOREM MissedPursuedThroughout == ProgramSpec => []MissedIsPursued
<1> DEFINE Inv == CalendarTypeOK /\ ListingInv /\ PlanInv /\ RoundInv
<1>1. ProgramInit => Inv
  <2>1. ProgramInit => CalendarTypeOK /\ UnplannedInit
    BY CalendarInvInit DEF ProgramInit, PlanInit
  <2> QED
    BY <2>1, PlanInvInit, ListingInvInit, RoundInvInit DEF ProgramInit
<1>2. Inv /\ [ProgramNext]_vars => Inv'
  <2>1. CalendarTypeOK /\ [ProgramNext]_vars => CalendarTypeOK'
    BY CalendarInvStep, CalendarSteps
  <2>2. PlanInv /\ [ProgramNext]_vars => PlanInv'
    <3>1. [CalendarNext]_calendar => UNCHANGED <<zone, begun>>
      BY DEF CalendarNext, Record, Spoil, Heartbeat, calendar
    <3> QED
      BY <3>1, PlanInvStep, PlanRests, PlanSteps, CalendarSteps
  <2> QED
    BY <2>1, <2>2, ListingInvStep, ListingSteps, RoundInvStep, PassSteps
<1>3. Inv => MissedIsPursued
  BY ListingInvReaches, PlanInvFinds, RoundInvHonest DEF MissedIsPursued
<1> HIDE DEF Inv
<1> QED
  BY <1>1, <1>2, <1>3, PTL DEF ProgramSpec

(* fetch.go and broadcast.go: of what the platform silenced, nothing is    *)
(* said that was not asked or heard.                                       *)
THEOREM SilenceStandsThroughout == ProgramSpec => []SilenceStands
<1>1. ProgramInit => AudioInv /\ SilencesInv
  <2>1. SoundInit => AudioInv
    BY DEF SoundInit, AudioInv, NotAsked, NotHeard
  <2> QED
    BY <2>1, AudioInvInit DEF ProgramInit, SilencesInit, SilencesInv
<1>2. AudioInv /\ SilencesInv /\ [ProgramNext]_vars => AudioInv' /\ SilencesInv'
  BY AudioInvStep, AudioSteps, SilencesInvStep, SilencesSteps
<1>3. AudioInv /\ SilencesInv => SilenceStands
  BY AudioInvTold, SilencesInvReturn DEF SilenceStands
<1> QED
  BY <1>1, <1>2, <1>3, PTL DEF ProgramSpec

(* naming.go, match.go and importer.go: a recording's name reads back as   *)
(* the values it was made of, and what stands beside the recording as the  *)
(* titles that were read of the broadcast.                                 *)
THEOREM WrittenReadBackThroughout == ProgramSpec => []WrittenReadsBack
<1> DEFINE Inv == /\ TitlesInv
                  /\ part = "naming" => NamingInv
                  /\ part # "naming" => reading = NotYet
<1>1. ProgramInit => Inv
  <2>1. NamingInit => NamingInv
    BY DEF NamingInit, NamingInv, ReadsAsWritten
  <2> QED
    BY <2>1, TitlesInvInit DEF ProgramInit, UnnamedInit
<1>2. Inv /\ [ProgramNext]_vars => Inv'
  <2>1. TitlesInv /\ [ProgramNext]_vars => TitlesInv'
    BY TitlesInvStep, TitlesSteps
  <2>2. NamingInv /\ [NamingNext]_naming => NamingInv'
    BY NamingAssumption, RenderStep, ReadBackStep, NamingUnchanged DEF NamingNext
  <2>3. UNCHANGED naming => reading' = reading
    BY DEF naming
  <2> QED
    BY <2>1, <2>2, <2>3, NamingSteps, NamesRest, PartStays
<1>3. Inv => WrittenReadsBack
  <2>1. reading = NotYet => ReadsAsWritten
    BY DEF ReadsAsWritten
  <2> QED
    BY <2>1, TitlesInvReturn DEF WrittenReadsBack, NamingInv
<1> HIDE DEF Inv
<1> QED
  BY <1>1, <1>2, <1>3, PTL DEF ProgramSpec
=============================================================================
