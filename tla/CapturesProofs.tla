--------------------------- MODULE CapturesProofs ---------------------------
(***************************************************************************)
(* Theorems about the two ways in which a recording comes about: Captures, *)
(* for every set of channels and of recordings, and Fetch, for every set   *)
(* of sessions.                                                            *)
(* That an engine's row is never filed as stranded takes a slot for every  *)
(* channel; the rest holds for any number of slots.                        *)
(***************************************************************************)
EXTENDS Captures, Fetch, FiniteSetTheorems, TLAPS

(* The phases between noteCapturing and the deferred forgetCapturing.      *)
MarkedPhase == {"noted", "told", "capturing", "finalizing", "leaving"}

MarkedNow == {c \in Channel : cycle[c] \in MarkedPhase}

(* The marks are those of the cycles, no two of which make one recording.  *)
MarkInv ==
  /\ TypeOK
  /\ ~up => sweep.step = "idle" /\ \A c \in Channel : cycle[c] = "watching"
  /\ \A c, d \in Channel : rec[c] = rec[d] /\ rec[c] # "nothing" => c = d
  /\ capturing = {rec[c] : c \in MarkedNow}

(* The row of a cycle's recording; it is marked before it is old.          *)
CycleRow(c) ==
  /\ cycle[c] = "waiting" => rows[rec[c]] = "none"
  /\ cycle[c] \in {"waiting", "created", "noted"} => rec[c] \notin old
  /\ cycle[c] \in {"created", "noted", "told", "capturing"} => rows[rec[c]] = "capturing"
  /\ cycle[c] \in {"finalizing", "leaving"} => rows[rec[c]] # "none"

(* A recording that grew old was begun, and whatever the sweep acts on     *)
(* belongs to no cycle.                                                    *)
OldBegun == \A r \in old : rows[r] # "none" \/ Owned(r)
Listed == \A r \in sweep.list : rows[r] # "none"
Taken == sweep.step = "taken" => rows[sweep.row] # "none" /\ ~Owned(sweep.row)

LiveInv ==
  /\ MarkInv
  /\ \A c \in Channel : CycleRow(c)
  /\ OldBegun /\ Listed /\ Taken

(* A slot for every channel.                                               *)
EnoughSlots == IsFiniteSet(Channel) /\ Cardinality(Channel) <= Slots

SweepType ==
  [step : {"idle", "each", "taken"}, list : SUBSET Recording,
   row : Recording \cup {"nothing"}]

----------------------------------------------------------------------------
(* Type correctness *)

LEMMA SweepOfType ==
  ASSUME NEW step \in {"idle", "each", "taken"}, NEW list \in SUBSET Recording,
         NEW r \in Recording \cup {"nothing"}
  PROVE  /\ Sweeping(step, list, r) \in SweepType
         /\ Sweeping(step, list, r).step = step
         /\ Sweeping(step, list, r).list = list
         /\ Sweeping(step, list, r).row = r
  BY DEF Sweeping, SweepType

LEMMA RestingType ==
  Resting \in SweepType /\ Resting.step = "idle" /\ Resting.row = "nothing"
                        /\ Resting.list = {}
  BY DEF Resting, Sweeping, SweepType

LEMMA TypeInit == CapturesInit => TypeOK
  BY CapturesAssumption, RestingType
  DEF CapturesInit, TypeOK, Phase, RowState, SweepType

(* What a cycle, and the age of what it makes, leaves of the types.        *)
LEMMA TypeCycle ==
  ASSUME NEW c \in Channel, TypeOK, CycleStep(c)
  PROVE  TypeOK'
<1> USE CapturesAssumption DEF TypeOK, Phase, RowState, Goes, Moves
<1>1. CASE SeeLive(c)
  BY <1>1 DEF SeeLive
<1>2. CASE CreateRow(c) \/ CreateRowFails(c)
  BY <1>2 DEF CreateRow, CreateRowFails
<1>3. CASE NoteCapturing(c) \/ StopRound(c) \/ StartEngine(c)
  BY <1>3 DEF NoteCapturing, StopRound, StartEngine
<1>4. CASE EngineWrites(c)
  BY <1>4 DEF EngineWrites
<1>5. CASE FinishRowFails(c)
  BY <1>5 DEF FinishRowFails
<1>6. ASSUME NEW state \in {"awaiting_finalize", "failed"}, FinishRow(c, state)
      PROVE  TypeOK'
  BY <1>6 DEF FinishRow
<1>7. CASE FinalizeCapture(c)
  BY <1>7 DEF FinalizeCapture, Finalized
<1>8. CASE Leave(c)
  BY <1>8 DEF Leave
<1> QED
  BY <1>1, <1>2, <1>3, <1>4, <1>5, <1>6, <1>7, <1>8 DEF CycleStep

LEMMA SweepKeepsType ==
  ASSUME TypeOK, SweepStep
  PROVE  TypeOK'
<1> USE CapturesAssumption
<1>1. CASE ListCapturing
  <2>1. {r \in Recording : rows[r] = "capturing"} \in SUBSET Recording
    OBVIOUS
  <2>2. sweep' \in SweepType /\ (sweep'.step = "taken" <=> sweep'.row # "nothing")
    BY <1>1, <2>1, SweepOfType DEF ListCapturing
  <2> QED
    BY <1>1, <2>2 DEF ListCapturing, TypeOK, SweepType
<1>2. ASSUME NEW r \in Recording, SkipCapturing(r) \/ TakeStranded(r) PROVE TypeOK'
  <2>1. sweep.list \ {r} \in SUBSET Recording
    BY DEF TypeOK
  <2>2. sweep' \in SweepType /\ (sweep'.step = "taken" <=> sweep'.row # "nothing")
    BY <1>2, <2>1, SweepOfType DEF SkipCapturing, TakeStranded
  <2> QED
    BY <1>2, <2>2 DEF SkipCapturing, TakeStranded, TypeOK, SweepType
<1>3. CASE RecoverInterrupted \/ RecoverFails
  <2>1. sweep.list \in SUBSET Recording
    BY DEF TypeOK
  <2>2. sweep' \in SweepType /\ (sweep'.step = "taken" <=> sweep'.row # "nothing")
    BY <1>3, <2>1, SweepOfType DEF RecoverInterrupted, RecoverFails
  <2>3. rows' \in [Recording -> RowState]
    BY <1>3 DEF RecoverInterrupted, RecoverFails, Moves, Recovered, RowState, TypeOK
  <2> QED
    BY <1>3, <2>2, <2>3 DEF RecoverInterrupted, RecoverFails, TypeOK, SweepType
<1>4. CASE SweepParked
  <2>1. sweep' \in SweepType /\ (sweep'.step = "taken" <=> sweep'.row # "nothing")
    BY <1>4, RestingType DEF SweepParked, TypeOK, SweepType
  <2>2. /\ rows' \in [Recording -> RowState]
        /\ files' \in [Recording -> {"absent", "incoming", "library"}]
    BY <1>4 DEF SweepParked, Finalized, Moves, RowState, TypeOK
  <2> QED
    BY <1>4, <2>1, <2>2 DEF SweepParked, TypeOK, SweepType
<1> QED
  BY <1>1, <1>2, <1>3, <1>4 DEF SweepStep

LEMMA TypeStep == TypeOK /\ [CapturesNext]_captureVars => TypeOK'
<1> SUFFICES ASSUME TypeOK, [CapturesNext]_captureVars PROVE TypeOK'
  OBVIOUS
<1>1. ASSUME NEW r \in Recording, Ages(r) PROVE TypeOK'
  BY <1>1 DEF Ages, TypeOK
<1>2. CASE StartCaptures
  <2>1. rows' \in [Recording -> RowState]
    BY <1>2 DEF StartCaptures, Recovered, RowState, TypeOK
  <2> QED
    BY <1>2, <2>1 DEF StartCaptures, TypeOK
<1>3. CASE CrashCaptures
  BY <1>3, RestingType DEF CrashCaptures, TypeOK, Phase, SweepType
<1>4. CASE UNCHANGED captureVars
  BY <1>4 DEF captureVars, TypeOK
<1> QED
  BY <1>1, <1>2, <1>3, <1>4, TypeCycle, SweepKeepsType DEF CapturesNext

(* Every variable of the captures and of the sweep keeps its type; a cycle *)
(* names a recording exactly while it is past watching, and the sweep      *)
(* holds a row exactly while it acts on one.                               *)
THEOREM TypeCorrect == Spec => []TypeOK
<1> QED
  BY TypeInit, TypeStep, PTL DEF Spec

----------------------------------------------------------------------------
(* The marks *)

LEMMA MarkInit == CapturesInit => MarkInv
<1> SUFFICES ASSUME CapturesInit PROVE MarkInv
  OBVIOUS
<1>1. MarkedNow = {}
  BY DEF CapturesInit, MarkedNow, MarkedPhase
<1> QED
  BY <1>1, TypeInit, RestingType DEF CapturesInit, MarkInv

(* A step that leaves marks, recordings and the marked cycles alone.       *)
LEMMA MarkUntouched ==
  ASSUME MarkInv, TypeOK', UNCHANGED <<rec, capturing>>, MarkedNow' = MarkedNow,
         ~up' => sweep'.step = "idle" /\ \A c \in Channel : cycle'[c] = "watching"
  PROVE  MarkInv'
  BY DEF MarkInv

(* A process that is down has no cycle under way and does not sweep.       *)
LEMMA UpWhileBusy ==
  ASSUME MarkInv
  PROVE  /\ \A c \in Channel : cycle[c] # "watching" => up
         /\ sweep.step # "idle" => up
  BY DEF MarkInv

LEMMA MarkCycle ==
  ASSUME NEW c \in Channel, MarkInv, TypeOK', CycleStep(c)
  PROVE  MarkInv'
<1> USE UpWhileBusy DEF Goes
<1>1. cycle \in [Channel -> Phase] /\ rec \in [Channel -> Recording \cup {"nothing"}]
  BY DEF MarkInv, TypeOK
<1>2. ASSUME NEW phase, Goes(c, phase), UNCHANGED <<up, rec, capturing, sweep>>, up,
             cycle[c] \in MarkedPhase <=> phase \in MarkedPhase
      PROVE  MarkInv'
  <2>1. MarkedNow' = MarkedNow
    BY <1>1, <1>2 DEF MarkedNow
  <2> QED
    BY <1>2, <2>1, MarkUntouched
<1>3. CASE SeeLive(c)
  <2>1. PICK r \in Recording : rows[r] = "none" /\ ~Owned(r) /\ rec' = [rec EXCEPT ![c] = r]
    BY <1>3 DEF SeeLive
  <2>2. MarkedNow' = MarkedNow /\ c \notin MarkedNow
    BY <1>1, <1>3 DEF SeeLive, MarkedNow, MarkedPhase
  <2>3. \A d \in MarkedNow : rec'[d] = rec[d]
    BY <1>1, <2>1, <2>2 DEF MarkedNow
  <2>4. {rec'[d] : d \in MarkedNow} = {rec[d] : d \in MarkedNow}
    BY <2>3
  <2>5. \A d, e \in Channel : rec'[d] = rec'[e] /\ rec'[d] # "nothing" => d = e
    BY <1>1, <2>1 DEF MarkInv, Owned
  <2> QED
    BY <1>3, <2>2, <2>4, <2>5 DEF SeeLive, MarkInv
<1>4. CASE CreateRow(c)
  BY <1>2, <1>4 DEF CreateRow, MarkedPhase
<1>5. CASE CreateRowFails(c)
  <2>1. MarkedNow' = MarkedNow /\ c \notin MarkedNow
    BY <1>1, <1>5 DEF CreateRowFails, MarkedNow, MarkedPhase
  <2>2. {rec'[d] : d \in MarkedNow} = {rec[d] : d \in MarkedNow}
    BY <1>1, <1>5, <2>1 DEF CreateRowFails, MarkedNow
  <2>3. \A d, e \in Channel : rec'[d] = rec'[e] /\ rec'[d] # "nothing" => d = e
    BY <1>1, <1>5 DEF CreateRowFails, MarkInv
  <2> QED
    BY <1>5, <2>1, <2>2, <2>3 DEF CreateRowFails, MarkInv
<1>6. CASE NoteCapturing(c)
  <2>1. MarkedNow' = MarkedNow \cup {c}
    BY <1>1, <1>6 DEF NoteCapturing, MarkedNow, MarkedPhase
  <2>2. capturing' = {rec[d] : d \in MarkedNow'}
    BY <1>6, <2>1 DEF NoteCapturing, MarkInv
  <2> QED
    BY <1>6, <2>2 DEF NoteCapturing, MarkInv
<1>7. CASE StopRound(c) \/ StartEngine(c)
  BY <1>2, <1>7 DEF StopRound, StartEngine, MarkedPhase
<1>8. CASE EngineWrites(c)
  BY <1>8, MarkUntouched DEF EngineWrites, MarkedNow
<1>9. CASE FinishRowFails(c)
  BY <1>2, <1>9 DEF FinishRowFails, MarkedPhase
<1>10. ASSUME NEW state \in {"awaiting_finalize", "failed"}, FinishRow(c, state)
       PROVE  MarkInv'
  BY <1>2, <1>10 DEF FinishRow, MarkedPhase
<1>11. CASE FinalizeCapture(c)
  BY <1>2, <1>11 DEF FinalizeCapture, MarkedPhase
<1>12. CASE Leave(c)
  <2>1. MarkedNow' = MarkedNow \ {c} /\ c \in MarkedNow
    BY <1>1, <1>12 DEF Leave, MarkedNow, MarkedPhase
  <2>2. rec[c] # "nothing"
    BY <1>12 DEF Leave, MarkInv, TypeOK
  <2>3. \A d \in MarkedNow : rec[d] = rec[c] => d = c
    BY <2>2 DEF MarkInv, MarkedNow
  <2>4. \A d \in MarkedNow' : rec'[d] = rec[d]
    BY <1>1, <1>12, <2>1 DEF Leave, MarkedNow
  <2>5. capturing' = {rec'[d] : d \in MarkedNow'}
    BY <1>12, <2>1, <2>3, <2>4 DEF Leave, MarkInv
  <2>6. \A d, e \in Channel : rec'[d] = rec'[e] /\ rec'[d] # "nothing" => d = e
    BY <1>1, <1>12 DEF Leave, MarkInv
  <2> QED
    BY <1>12, <2>5, <2>6 DEF Leave, MarkInv
<1> QED
  BY <1>3, <1>4, <1>5, <1>6, <1>7, <1>8, <1>9, <1>10, <1>11, <1>12 DEF CycleStep

LEMMA MarkStep == MarkInv /\ [CapturesNext]_captureVars => MarkInv'
<1> SUFFICES ASSUME MarkInv, [CapturesNext]_captureVars PROVE MarkInv'
  OBVIOUS
<1>1. TypeOK'
  BY TypeStep DEF MarkInv
<1>2. ASSUME NEW r \in Recording, Ages(r) PROVE MarkInv'
  BY <1>1, <1>2, MarkUntouched DEF Ages, MarkedNow, MarkInv
<1>3. CASE SweepStep
  <2>1. UNCHANGED <<up, cycle, rec, capturing>>
    BY <1>3 DEF SweepStep, ListCapturing, SkipCapturing, TakeStranded,
                RecoverInterrupted, RecoverFails, SweepParked
  <2>2. up
    BY <1>3, UpWhileBusy DEF SweepStep, ListCapturing, SkipCapturing, TakeStranded,
                RecoverInterrupted, RecoverFails, SweepParked
  <2> QED
    BY <1>1, <2>1, <2>2, MarkUntouched DEF MarkedNow
<1>4. CASE StartCaptures
  BY <1>1, <1>4, MarkUntouched DEF StartCaptures, MarkedNow
<1>5. CASE CrashCaptures
  <2>1. MarkedNow' = {}
    BY <1>5 DEF CrashCaptures, MarkedNow, MarkedPhase
  <2> QED
    BY <1>1, <1>5, <2>1, RestingType DEF CrashCaptures, MarkInv
<1>6. CASE UNCHANGED captureVars
  BY <1>1, <1>6, MarkUntouched DEF captureVars, MarkedNow, MarkInv
<1> QED
  BY <1>1, <1>2, <1>3, <1>4, <1>5, <1>6, MarkCycle DEF CapturesNext

LEMMA MarksAreKept == Spec => []MarkInv
<1> QED
  BY MarkInit, MarkStep, PTL DEF Spec

----------------------------------------------------------------------------
(* Captures implements CaptureMarks *)

(* What MarkOf comes to in each phase of a cycle.                          *)
PhaseMark(phase) ==
  CASE phase = "capturing" -> "writing"
    [] phase \in {"watching", "waiting", "created"} -> "none"
    [] phase = "noted" -> "noted"
    [] OTHER -> "told"

LEMMA MarkOfPhase ==
  ASSUME MarkInv, NEW c \in Channel
  PROVE  MarkOf(c) = PhaseMark(cycle[c])
<1>1. cycle[c] \in Phase
  BY DEF MarkInv, TypeOK
<1>2. CASE cycle[c] \in MarkedPhase
  <2>1. rec[c] \in capturing
    BY <1>2 DEF MarkInv, MarkedNow
  <2> QED
    BY <1>2, <2>1 DEF MarkOf, PhaseMark, MarkedPhase
<1>3. CASE cycle[c] \in {"watching", "waiting", "created"}
  <2>1. rec[c] \notin capturing
    <3>1. CASE rec[c] = "nothing"
      BY <3>1, CapturesAssumption DEF MarkInv, TypeOK
    <3>2. CASE rec[c] # "nothing"
      <4>1. \A d \in MarkedNow : rec[d] # rec[c]
        BY <1>3, <3>2 DEF MarkInv, MarkedNow, MarkedPhase
      <4> QED
        BY <4>1 DEF MarkInv
    <3> QED
      BY <3>1, <3>2
  <2> QED
    BY <1>3, <2>1 DEF MarkOf, PhaseMark
<1> QED
  BY <1>1, <1>2, <1>3 DEF Phase, MarkedPhase

MarkMap == [c \in Channel |-> MarkOf(c)]

LEMMA MarksInitially == CapturesInit => Marks!MarksInit
<1> SUFFICES ASSUME CapturesInit PROVE Marks!MarksInit
  OBVIOUS
<1>1. MarkMap = [c \in Channel |-> "none"]
  BY MarkInit, MarkOfPhase DEF MarkMap, PhaseMark, CapturesInit
<1> QED
  BY <1>1 DEF Marks!MarksInit, CapturesInit, MarkMap

LEMMA MarkMapOfPhase ==
  MarkInv => MarkMap = [d \in Channel |-> PhaseMark(cycle[d])]
  BY MarkOfPhase DEF MarkMap

LEMMA MarkMapNext ==
  MarkInv' => MarkMap' = [d \in Channel |-> PhaseMark(cycle'[d])]
<1>1. (MarkInv => MarkMap = [d \in Channel |-> PhaseMark(cycle[d])])'
  BY MarkMapOfPhase, PTL
<1> QED
  BY <1>1

(* The marks follow a cycle that goes from one phase to another.           *)
LEMMA MarksFollow ==
  ASSUME MarkInv, MarkInv', NEW c \in Channel, NEW phase, Goes(c, phase)
  PROVE  MarkMap' = [MarkMap EXCEPT ![c] = PhaseMark(phase)]
<1>1. cycle \in [Channel -> Phase]
  BY DEF MarkInv, TypeOK
<1> QED
  BY <1>1, MarkMapOfPhase, MarkMapNext DEF Goes

(* And a step that moves no cycle leaves them alone.                       *)
LEMMA MarksRest ==
  ASSUME MarkInv, MarkInv', UNCHANGED <<up, cycle>>
  PROVE  UNCHANGED <<up, MarkMap>>
  BY MarkMapOfPhase, MarkMapNext

LEMMA MarksCycle ==
  ASSUME MarkInv, MarkInv', NEW c \in Channel, CycleStep(c)
  PROVE  [Marks!MarksNext]_<<up, MarkMap>>
<1> USE UpWhileBusy, MarkMapOfPhase, MarksFollow DEF PhaseMark
<1>0. MarkMap[c] = PhaseMark(cycle[c])
  OBVIOUS
<1>1. ASSUME NEW phase, Goes(c, phase), UNCHANGED up,
             PhaseMark(phase) = PhaseMark(cycle[c])
      PROVE  UNCHANGED <<up, MarkMap>>
  BY <1>0, <1>1
<1>2. CASE SeeLive(c)
  BY <1>1, <1>2 DEF SeeLive
<1>3. CASE CreateRow(c) \/ CreateRowFails(c)
  BY <1>1, <1>3 DEF CreateRow, CreateRowFails
<1>4. CASE NoteCapturing(c)
  <2>1. Marks!Note(c)
    BY <1>0, <1>4 DEF NoteCapturing, Marks!Note, Marks!Marked, MarkMap
  <2> QED
    BY <2>1 DEF Marks!MarksNext
<1>5. CASE StopRound(c)
  <2>1. Marks!TellRound(c)
    BY <1>0, <1>5 DEF StopRound, Marks!TellRound, Marks!Marked, MarkMap
  <2> QED
    BY <2>1 DEF Marks!MarksNext
<1>6. CASE StartEngine(c)
  <2>1. Marks!EngineStarts(c)
    BY <1>0, <1>6 DEF StartEngine, Marks!EngineStarts, Marks!Marked, MarkMap
  <2> QED
    BY <2>1 DEF Marks!MarksNext
<1>7. CASE EngineWrites(c)
  BY <1>7, MarksRest DEF EngineWrites
<1>8. CASE FinishRowFails(c) \/ \E state \in {"awaiting_finalize", "failed"} : FinishRow(c, state)
  <2>1. Marks!EngineEnds(c)
    BY <1>0, <1>8 DEF FinishRow, FinishRowFails, Marks!EngineEnds, Marks!Marked, MarkMap
  <2> QED
    BY <2>1 DEF Marks!MarksNext
<1>9. CASE FinalizeCapture(c)
  BY <1>1, <1>9 DEF FinalizeCapture
<1>10. CASE Leave(c)
  <2>1. Marks!Forget(c)
    BY <1>0, <1>10 DEF Leave, Marks!Forget, Marks!Marked, MarkMap
  <2> QED
    BY <2>1 DEF Marks!MarksNext
<1> QED
  BY <1>2, <1>3, <1>4, <1>5, <1>6, <1>7, <1>8, <1>9, <1>10 DEF CycleStep, MarkMap

LEMMA MarksSteps ==
  MarkInv /\ MarkInv' /\ [CapturesNext]_captureVars => [Marks!MarksNext]_<<up, MarkMap>>
<1> SUFFICES ASSUME MarkInv, MarkInv', [CapturesNext]_captureVars
             PROVE  [Marks!MarksNext]_<<up, MarkMap>>
  OBVIOUS
<1>1. ASSUME NEW r \in Recording, Ages(r) PROVE UNCHANGED <<up, MarkMap>>
  BY <1>1, MarksRest DEF Ages
<1>2. CASE SweepStep
  BY <1>2, MarksRest DEF SweepStep, ListCapturing, SkipCapturing, TakeStranded,
                         RecoverInterrupted, RecoverFails, SweepParked
<1>3. CASE StartCaptures
  <2>1. Marks!ProcessStarts
    BY <1>3, MarkMapOfPhase, MarkMapNext DEF StartCaptures, Marks!ProcessStarts, MarkMap
  <2> QED
    BY <2>1 DEF Marks!MarksNext
<1>4. CASE CrashCaptures
  <2>1. MarkMap' = [c \in Channel |-> "none"]
    BY <1>4, MarkMapNext DEF CrashCaptures, PhaseMark
  <2>2. Marks!ProcessEnds
    BY <1>4, <2>1 DEF CrashCaptures, Marks!ProcessEnds, MarkMap
  <2> QED
    BY <2>2 DEF Marks!MarksNext
<1>5. CASE UNCHANGED captureVars
  BY <1>5, MarksRest DEF captureVars
<1> QED
  BY <1>1, <1>2, <1>3, <1>4, <1>5, MarksCycle DEF CapturesNext, MarkMap

(* noteCapturing, stopRound and forgetCapturing: whatever the captures and *)
(* the sweep do, what anyCapturing and the recovery round see of them is a *)
(* behaviour of CaptureMarks, on which Recovery is built.                  *)
THEOREM CapturesImplementMarks == Spec => ImplementsMarks
<1> QED
  BY MarksInitially, MarksAreKept, MarksSteps, PTL
  DEF Spec, ImplementsMarks, Marks!MarksSpec, MarkMap

----------------------------------------------------------------------------
(* No row an engine writes is filed *)

(* While a cycle waits there is a slot for it, if there is one for each.   *)
LEMMA WaitingHasASlot ==
  ASSUME EnoughSlots, NEW c \in Channel, cycle[c] = "waiting"
  PROVE  SlotFree
<1>1. Holding \subseteq Channel \ {c}
  BY DEF Holding
<1>2. /\ IsFiniteSet(Channel \ {c})
      /\ Cardinality(Channel \ {c}) = Cardinality(Channel) - 1
  BY FS_RemoveElement DEF EnoughSlots
<1>3. Cardinality(Holding) <= Cardinality(Channel \ {c})
  BY <1>1, <1>2, FS_Subset
<1>4. Cardinality(Holding) \in Nat /\ Cardinality(Channel) \in Nat
  BY <1>1, <1>2, FS_Subset, FS_CardinalityType DEF EnoughSlots
<1> QED
  BY <1>2, <1>3, <1>4, CapturesAssumption DEF EnoughSlots, SlotFree

LEMMA LiveInit == CapturesInit => LiveInv
  BY MarkInit, RestingType DEF CapturesInit, LiveInv, CycleRow, OldBegun, Listed, Taken

LEMMA LiveTypes ==
  ASSUME MarkInv
  PROVE  /\ cycle \in [Channel -> Phase]
         /\ rec \in [Channel -> Recording \cup {"nothing"}]
         /\ rows \in [Recording -> RowState]
         /\ old \subseteq Recording
         /\ sweep.list \subseteq Recording
         /\ sweep.step = "taken" => sweep.row \in Recording
         /\ \A c \in Channel : cycle[c] # "watching" => rec[c] \in Recording
  BY DEF MarkInv, TypeOK

(* An unmarked recording old enough for the sweep belongs to no cycle.     *)
LEMMA StrandedIsNobodys ==
  ASSUME LiveInv, NEW r \in Recording, Stranded(r)
  PROVE  ~Owned(r)
<1> SUFFICES ASSUME NEW c \in Channel, rec[c] = r PROVE FALSE
  BY DEF Owned
<1>1. MarkInv /\ cycle[c] \in Phase /\ cycle[c] # "watching"
  BY CapturesAssumption DEF LiveInv, MarkInv, TypeOK
<1>2. CASE cycle[c] \in MarkedPhase
  BY <1>1, <1>2 DEF MarkInv, MarkedNow, Stranded
<1>3. CASE cycle[c] \in {"waiting", "created"}
  BY <1>3 DEF LiveInv, CycleRow, Stranded
<1> QED
  BY <1>1, <1>2, <1>3 DEF Phase, MarkedPhase

(* A row that no cycle writes to moves, but not back to none.              *)
LEMMA LiveOthersRow ==
  ASSUME LiveInv, MarkInv', NEW r \in Recording, NEW state \in RowState,
         state # "none", Moves(r, state), UNCHANGED <<cycle, rec, old>>,
         \A c \in Channel : rec[c] = r => cycle[c] \in {"watching", "finalizing", "leaving"},
         rows[r] # "none",
         sweep'.list \subseteq sweep.list,
         sweep'.step = "taken" => sweep.step = "taken" /\ sweep'.row = sweep.row
  PROVE  LiveInv'
<1> USE DEF Moves
<1>1. MarkInv
  BY DEF LiveInv
<1>2. rows' \in [Recording -> RowState] /\ \A q \in Recording \ {r} : rows'[q] = rows[q]
  BY <1>1, LiveTypes
<1>3. rows'[r] # "none"
  BY <1>1, LiveTypes
<1>4. ASSUME NEW c \in Channel PROVE CycleRow(c)'
  BY <1>1, <1>2, <1>3, LiveTypes DEF LiveInv, CycleRow
<1>5. \A q \in Recording : rows[q] # "none" => rows'[q] # "none"
  BY <1>2, <1>3
<1>6. OldBegun'
  BY <1>1, <1>5, LiveTypes DEF LiveInv, OldBegun, Owned
<1>7. Listed'
  BY <1>1, <1>5, LiveTypes DEF LiveInv, Listed
<1>8. Taken'
  BY <1>1, <1>5, LiveTypes DEF LiveInv, Taken, Owned
<1> QED
  BY <1>4, <1>6, <1>7, <1>8 DEF LiveInv

(* A cycle goes on with the recording it has, whose row is written, or     *)
(* not, as the phase it reaches asks.                                      *)
LEMMA LiveGoes ==
  ASSUME LiveInv, MarkInv', NEW c \in Channel, NEW phase, Goes(c, phase),
         cycle[c] # "watching", UNCHANGED <<rec, old, sweep>>,
         rows' \in [Recording -> RowState], rows'[rec[c]] # "none",
         \A q \in Recording \ {rec[c]} : rows'[q] = rows[q],
         phase \in {"created", "noted"} => rec[c] \notin old,
         phase \in {"created", "noted", "told", "capturing"} => rows'[rec[c]] = "capturing",
         phase # "waiting"
  PROVE  LiveInv'
<1> USE DEF Goes
<1>1. MarkInv
  BY DEF LiveInv
<1>2. \A d \in Channel \ {c} : cycle'[d] = cycle[d] /\ (rec[d] = rec[c] => cycle[d] = "watching")
  BY <1>1, LiveTypes DEF MarkInv, TypeOK
<1>3. \A d \in Channel \ {c} : cycle[d] # "watching" => rows'[rec[d]] = rows[rec[d]]
  BY <1>1, <1>2, LiveTypes
<1>4. cycle'[c] = phase
  BY <1>1, LiveTypes
<1>5. ASSUME NEW d \in Channel PROVE CycleRow(d)'
  BY <1>2, <1>3, <1>4 DEF LiveInv, CycleRow
<1>6. \A q \in Recording : rows[q] # "none" => rows'[q] # "none"
  OBVIOUS
<1>7. OldBegun'
  BY <1>1, <1>6, LiveTypes DEF LiveInv, OldBegun, Owned
<1>8. Listed'
  BY <1>1, <1>6, LiveTypes DEF LiveInv, Listed
<1>9. Taken'
  BY <1>1, <1>6, LiveTypes DEF LiveInv, Taken, Owned
<1> QED
  BY <1>5, <1>7, <1>8, <1>9 DEF LiveInv

LEMMA LiveCycle ==
  ASSUME NEW c \in Channel, LiveInv, MarkInv', CycleStep(c)
  PROVE  LiveInv'
<1> USE DEF CycleRow
<1>1. MarkInv /\ CycleRow(c)
  BY DEF LiveInv
<1>2. CASE SeeLive(c)
  <2>1. PICK r \in Recording : rows[r] = "none" /\ ~Owned(r) /\ rec' = [rec EXCEPT ![c] = r]
    BY <1>2 DEF SeeLive
  <2>2. r \notin old
    BY <2>1 DEF LiveInv, OldBegun
  <2>3. cycle' = [cycle EXCEPT ![c] = "waiting"] /\ UNCHANGED <<rows, old, sweep>>
    BY <1>2 DEF SeeLive, Goes
  <2>4. rec[c] = "nothing"
    BY <1>2 DEF SeeLive, LiveInv, MarkInv, TypeOK
  <2>5. ASSUME NEW d \in Channel PROVE CycleRow(d)'
    BY <1>1, <2>1, <2>2, <2>3, LiveTypes DEF LiveInv
  <2>6. \A q \in Recording : Owned(q)' <=> Owned(q) \/ q = r
    BY <1>1, <2>1, <2>4, CapturesAssumption, LiveTypes DEF Owned
  <2>7. OldBegun'
    BY <1>1, <2>3, <2>6, LiveTypes DEF LiveInv, OldBegun
  <2>8. Listed' /\ Taken'
    BY <1>1, <2>1, <2>3, <2>6, LiveTypes DEF LiveInv, Listed, Taken
  <2> QED
    BY <2>5, <2>7, <2>8 DEF LiveInv
<1>3. CASE CreateRow(c)
  <2>1. rows' \in [Recording -> RowState] /\ rows'[rec[c]] = "capturing"
    BY <1>1, <1>3, LiveTypes DEF CreateRow, Moves, RowState
  <2>2. \A q \in Recording \ {rec[c]} : rows'[q] = rows[q]
    BY <1>1, <1>3, LiveTypes DEF CreateRow, Moves
  <2> QED
    BY <1>1, <1>3, <2>1, <2>2, LiveGoes DEF CreateRow
<1>4. CASE CreateRowFails(c) \/ Leave(c)
  <2>1. /\ cycle' = [cycle EXCEPT ![c] = "watching"]
        /\ rec' = [rec EXCEPT ![c] = "nothing"]
        /\ UNCHANGED <<rows, sweep>> /\ old' \subseteq old
    BY <1>4 DEF CreateRowFails, Leave, Goes
  <2>2. rec[c] \in old' => rows[rec[c]] # "none"
    BY <1>1, <1>4 DEF CreateRowFails, Leave
  <2>3. ASSUME NEW d \in Channel PROVE CycleRow(d)'
    BY <1>1, <2>1, LiveTypes DEF LiveInv
  <2>4. \A q \in Recording : (Owned(q)' => Owned(q)) /\ (Owned(q) /\ q # rec[c] => Owned(q)')
    BY <1>1, <2>1, CapturesAssumption, LiveTypes DEF Owned
  <2>5. OldBegun'
    BY <1>1, <2>1, <2>2, <2>4, LiveTypes DEF LiveInv, OldBegun
  <2>6. Listed' /\ Taken'
    BY <1>1, <2>1, <2>4, LiveTypes DEF LiveInv, Listed, Taken
  <2> QED
    BY <2>3, <2>5, <2>6 DEF LiveInv
<1>5. CASE NoteCapturing(c) \/ StopRound(c) \/ StartEngine(c) \/ FinishRowFails(c)
  BY <1>1, <1>5, LiveGoes, LiveTypes
  DEF NoteCapturing, StopRound, StartEngine, FinishRowFails
<1>6. CASE EngineWrites(c)
  BY <1>6 DEF EngineWrites, LiveInv, OldBegun, Listed, Taken, Owned
<1>7. ASSUME NEW state \in {"awaiting_finalize", "failed"}, FinishRow(c, state)
      PROVE  LiveInv'
  <2>1. rows' \in [Recording -> RowState] /\ rows'[rec[c]] = state
    BY <1>1, <1>7, LiveTypes DEF FinishRow, Moves, RowState
  <2>2. \A q \in Recording \ {rec[c]} : rows'[q] = rows[q]
    BY <1>1, <1>7, LiveTypes DEF FinishRow, Moves
  <2> QED
    BY <1>7, <2>1, <2>2, LiveGoes DEF FinishRow
<1>8. CASE FinalizeCapture(c)
  <2>1. rows' \in [Recording -> RowState] /\ rows'[rec[c]] # "none"
    BY <1>1, <1>8, LiveTypes DEF FinalizeCapture, Finalized, Moves, RowState
  <2>2. \A q \in Recording \ {rec[c]} : rows'[q] = rows[q]
    BY <1>1, <1>8, LiveTypes DEF FinalizeCapture, Finalized, Moves
  <2> QED
    BY <1>8, <2>1, <2>2, LiveGoes DEF FinalizeCapture
<1> QED
  BY <1>2, <1>3, <1>4, <1>5, <1>6, <1>7, <1>8 DEF CycleStep

LEMMA LiveSweep ==
  ASSUME LiveInv, MarkInv', SweepStep
  PROVE  LiveInv'
<1>1. MarkInv /\ UNCHANGED <<cycle, rec, old>>
  BY DEF LiveInv, SweepStep, ListCapturing, SkipCapturing, TakeStranded,
         RecoverInterrupted, RecoverFails, SweepParked
<1>2. ASSUME UNCHANGED rows, Listed', Taken' PROVE LiveInv'
  BY <1>1, <1>2 DEF LiveInv, CycleRow, OldBegun, Owned
<1>3. CASE ListCapturing
  BY <1>2, <1>3, SweepOfType DEF ListCapturing, Listed, Taken, Sweeping
<1>4. ASSUME NEW r \in Recording, SkipCapturing(r) PROVE LiveInv'
  BY <1>2, <1>4 DEF SkipCapturing, Sweeping, LiveInv, Listed, Taken
<1>5. ASSUME NEW r \in Recording, TakeStranded(r) PROVE LiveInv'
  <2>1. ~Owned(r)' /\ rows[r] # "none"
    BY <1>1, <1>5, StrandedIsNobodys DEF TakeStranded, Owned, LiveInv, Listed
  <2> QED
    BY <1>1, <1>2, <1>5, <2>1 DEF TakeStranded, Sweeping, LiveInv, Listed, Taken, Owned
<1>6. CASE RecoverInterrupted
  <2>1. sweep.row \in Recording /\ rows[sweep.row] # "none" /\ ~Owned(sweep.row)
    BY <1>1, <1>6, LiveTypes DEF RecoverInterrupted, LiveInv, Taken
  <2>2. Recovered(sweep.row) \in RowState /\ Recovered(sweep.row) # "none"
    BY DEF Recovered, RowState
  <2>3. Moves(sweep.row, Recovered(sweep.row))
    BY <1>6 DEF RecoverInterrupted
  <2>4. sweep'.list = sweep.list /\ sweep'.step = "each"
    BY <1>6 DEF RecoverInterrupted, Sweeping
  <2> QED
    BY <1>1, <2>1, <2>2, <2>3, <2>4, LiveOthersRow DEF Owned
<1>7. CASE RecoverFails
  BY <1>2, <1>7 DEF RecoverFails, Sweeping, LiveInv, Listed, Taken
<1>8. CASE SweepParked
  <2>1. CASE UNCHANGED rows /\ sweep' = Resting
    BY <1>2, <2>1, RestingType DEF Listed, Taken
  <2>2. CASE UNCHANGED sweep
    <3>1. PICK r \in Recording :
             /\ rows[r] = "awaiting_finalize"
             /\ ~\E c \in Channel : rec[c] = r /\ cycle[c] = "finalizing"
             /\ Finalized(r)
      BY <1>8, <2>2, RestingType DEF SweepParked
    <3>2. \A c \in Channel : rec[c] = r => cycle[c] \in {"watching", "finalizing", "leaving"}
      <4> SUFFICES ASSUME NEW c \in Channel, rec[c] = r
                   PROVE  cycle[c] \in {"watching", "finalizing", "leaving"}
        OBVIOUS
      <4>1. cycle[c] \in Phase /\ CycleRow(c)
        BY <1>1 DEF LiveInv, MarkInv, TypeOK
      <4> QED
        BY <3>1, <4>1 DEF CycleRow, Phase
    <3>3. Moves(r, "complete")
      BY <3>1 DEF Finalized
    <3> QED
      BY <1>1, <2>2, <3>1, <3>2, <3>3, LiveOthersRow DEF RowState
  <2> QED
    BY <1>8, <2>1, <2>2 DEF SweepParked
<1> QED
  BY <1>3, <1>4, <1>5, <1>6, <1>7, <1>8 DEF SweepStep

LEMMA LiveStep ==
  ASSUME EnoughSlots
  PROVE  LiveInv /\ MarkInv' /\ [CapturesNext]_captureVars => LiveInv'
<1> SUFFICES ASSUME LiveInv, MarkInv', [CapturesNext]_captureVars PROVE LiveInv'
  OBVIOUS
<1>0. MarkInv
  BY DEF LiveInv
<1>1. ASSUME NEW r \in Recording, Ages(r) PROVE LiveInv'
  <2>1. UNCHANGED <<cycle, rec, rows, sweep>> /\ old' = old \cup {r}
    BY <1>1 DEF Ages
  <2>2. ASSUME NEW c \in Channel, rec[c] = r
        PROVE  cycle[c] \notin {"waiting", "created", "noted"}
    BY <1>1, <2>2, WaitingHasASlot DEF Ages
  <2>3. ASSUME NEW c \in Channel PROVE CycleRow(c)'
    BY <2>1, <2>2 DEF LiveInv, CycleRow
  <2>4. OldBegun'
    BY <1>1, <2>1 DEF Ages, LiveInv, OldBegun, Owned
  <2>5. Listed' /\ Taken'
    BY <2>1 DEF LiveInv, Listed, Taken, Owned
  <2> QED
    BY <2>3, <2>4, <2>5 DEF LiveInv
<1>2. CASE StartCaptures
  <2>1. \A c \in Channel : cycle'[c] = "watching"
    BY <1>0, <1>2 DEF StartCaptures, MarkInv
  <2>2. \A r \in Recording : rows[r] # "none" => rows'[r] # "none"
    BY <1>2 DEF StartCaptures, Recovered
  <2>3. OldBegun' /\ Listed'
    BY <1>0, <1>2, <2>2, LiveTypes DEF StartCaptures, LiveInv, OldBegun, Listed, Owned
  <2>4. sweep'.step = "idle"
    BY <1>0, <1>2 DEF StartCaptures, MarkInv
  <2> QED
    BY <2>1, <2>3, <2>4 DEF LiveInv, CycleRow, Taken
<1>3. CASE CrashCaptures
  BY <1>3, RestingType
  DEF CrashCaptures, LiveInv, CycleRow, OldBegun, Listed, Taken
<1>4. CASE UNCHANGED captureVars
  BY <1>4 DEF captureVars, LiveInv, CycleRow, OldBegun, Listed, Taken, Owned
<1> QED
  BY <1>1, <1>2, <1>3, <1>4, LiveCycle, LiveSweep DEF CapturesNext

(* daemon.go, SweepCapturing: "Only rows this process is not writing to    *)
(* are touched".  With a slot for every channel, no sweep, restart or      *)
(* failed call of the store ever moves the row of a capture its engine     *)
(* still writes.                                                           *)
THEOREM LiveRowsStay ==
  ASSUME EnoughSlots
  PROVE  Spec => []LiveRowStaysCapturing
<1>1. LiveInv => LiveRowStaysCapturing
  BY DEF LiveInv, CycleRow, LiveRowStaysCapturing
<1> QED
  BY <1>1, LiveInit, LiveStep, MarksAreKept, PTL DEF Spec

----------------------------------------------------------------------------
(* Fetch *)

USE FetchAssumption

(* What a fetcher about to mark the broadcast done relies on: something is *)
(* held, or the operator has refused the broadcast meanwhile.              *)
Held == kept \/ live \/ incoming # "none" \/ row.state = "terminal"

HeldInv ==
  /\ FetchTypeOK
  /\ row.state = "done" => Held
  /\ \A f \in Session : pc[f] \in {"finalize", "captured", "release"} => Held

(* A claim belongs to a fetch in progress, to a dead session, or to one    *)
(* whose call to give it back failed.                                      *)
ClaimInv ==
  /\ FetchTypeOK
  /\ \A f \in Session : row.by = f =>
       f \in dropped \/ proc[f] = "ended" \/ pc[f] \notin {"idle", "claim"}


----------------------------------------------------------------------------

LEMMA FetchTypeInit == Init => FetchTypeOK
<1> SUFFICES ASSUME Init PROVE FetchTypeOK
  OBVIOUS
<1>1. row \in Row /\ (row.state = "claimed" <=> row.by # "nobody")
  BY DEF Init, Row
<1>2. \A f \in Session : pc[f] # "idle" => proc[f] = "up"
  BY DEF Init
<1> QED
  BY <1>1, <1>2 DEF Init, FetchTypeOK, Step

(* Each step keeps every variable in its type, a claim in a row that says  *)
(* claimed, and steps in a session that is up.                             *)
LEMMA FetchTypeStep == FetchTypeOK /\ [Next]_vars => FetchTypeOK'
<1> SUFFICES ASSUME FetchTypeOK, [Next]_vars PROVE FetchTypeOK'
  OBVIOUS
<1> USE DEF FetchTypeOK, Step, Row, world, Goto, Stops, Unclaimed
<1>1. ASSUME NEW f \in Session, Plan(f) PROVE FetchTypeOK'
  BY <1>1 DEF Plan, NeedsRecovery
<1>2. ASSUME NEW f \in Session, Claim(f) PROVE FetchTypeOK'
  <2>1. CASE Claimable
    <3>1. row' \in Row /\ (row'.state = "claimed" <=> row'.by # "nobody")
      <4>1. row' = [state |-> "claimed", by |-> f, fresh |-> TRUE, due |-> TRUE]
        BY <1>2, <2>1 DEF Claim, ClaimFetch
      <4>2. f # "nobody"
        OBVIOUS
      <4> QED
        BY <4>1, <4>2
    <3>2. /\ pc' = [pc EXCEPT ![f] = "check"] /\ pc[f] = "claim"
          /\ UNCHANGED <<proc, cancelled, world, dropped, calm>>
      BY <1>2, <2>1 DEF Claim
    <3> QED
      BY <3>1, <3>2
  <2>2. CASE ~Claimable
    BY <1>2, <2>2 DEF Claim
  <2> QED
    BY <2>1, <2>2
<1>3. ASSUME NEW f \in Session, Check(f) PROVE FetchTypeOK'
  BY <1>3 DEF Check
<1>4. ASSUME NEW f \in Session, Download(f) PROVE FetchTypeOK'
  BY <1>4 DEF Download
<1>5. ASSUME NEW f \in Session, Create(f) PROVE FetchTypeOK'
  BY <1>5 DEF Create
<1>6. ASSUME NEW f \in Session, Finalize(f) PROVE FetchTypeOK'
  BY <1>6 DEF Finalize, Landed
<1>7. ASSUME NEW f \in Session, Release(f) PROVE FetchTypeOK'
  BY <1>7 DEF Release, ReleaseFetch
<1>8. ASSUME NEW f \in Session, ChargeFailure(f) PROVE FetchTypeOK'
  BY <1>8 DEF ChargeFailure, RecordFetchFailure
<1>9. ASSUME NEW f \in Session, Abandon(f) PROVE FetchTypeOK'
  BY <1>9 DEF Abandon, AbandonFetch
<1>10. ASSUME NEW f \in Session, StoreCallFails(f) PROVE FetchTypeOK'
  BY <1>10 DEF StoreCallFails
<1>11. ASSUME NEW f \in Session, Cancel(f) \/ NextRound(f) PROVE FetchTypeOK'
  BY <1>11 DEF Cancel, NextRound
<1>12. ASSUME NEW f \in Session, Start(f) PROVE FetchTypeOK'
  BY <1>12 DEF Start
<1>13. ASSUME NEW f \in Session, Crash(f) PROVE FetchTypeOK'
  BY <1>13 DEF Crash
<1>14. CASE LeaseRuns \/ BackoffPasses
  <2>1. row' = [row EXCEPT !.fresh = FALSE] \/ row' = [row EXCEPT !.due = TRUE]
    BY <1>14 DEF LeaseRuns, BackoffPasses
  <2>2. row' \in Row /\ row'.state = row.state /\ row'.by = row.by
    BY <2>1
  <2>3. UNCHANGED <<proc, pc, cancelled, world, dropped, calm>>
    BY <1>14 DEF LeaseRuns, BackoffPasses
  <2> QED
    BY <2>2, <2>3
<1>15. CASE Sweep \/ LiveLands \/ Calm
  BY <1>15 DEF Sweep, Landed, LiveLands, Calm
<1>16. CASE Purge
  <2>1. row' = row \/ row' = Unclaimed("terminal", TRUE)
    BY <1>16 DEF Purge, RefuseFetch
  <2>2. kept' \in BOOLEAN /\ live' \in BOOLEAN
    BY <1>16 DEF Purge
  <2>3. row' \in Row /\ (row'.state = "claimed" <=> row'.by # "nobody")
    <3>1. CASE row' = row
      BY <3>1
    <3>2. CASE row' = Unclaimed("terminal", TRUE)
      BY <3>2
    <3> QED
      BY <2>1, <3>1, <3>2
  <2>4. UNCHANGED <<proc, pc, cancelled, incoming, dropped, calm>>
    BY <1>16 DEF Purge
  <2>5. /\ proc' \in [Session -> {"new", "up", "ended"}] /\ pc' \in [Session -> Step]
        /\ cancelled' \subseteq Session /\ dropped' \subseteq Session
        /\ incoming' \in {"none", "pending", "failed"} /\ calm' \in BOOLEAN
        /\ \A f \in Session : pc'[f] # "idle" => proc'[f] = "up"
    BY <2>4
  <2> QED
    BY <2>2, <2>3, <2>5
<1>17. CASE UNCHANGED vars
  BY <1>17 DEF vars
<1>18. Next \/ UNCHANGED vars
  OBVIOUS
<1> QED
  BY <1>18, <1>1, <1>2, <1>3, <1>4, <1>5, <1>6, <1>7, <1>8, <1>9, <1>10, <1>11,
     <1>12, <1>13, <1>14, <1>15, <1>16, <1>17 DEF Next, Works

(* The row, the claims and the sessions are always of their types, and a   *)
(* row says claimed exactly when it names a session.                       *)
THEOREM FetchTypeCorrect == FetchSpec => []FetchTypeOK
<1>1. Init => FetchTypeOK
  BY FetchTypeInit
<1>2. FetchTypeOK /\ [Next]_vars => FetchTypeOK'
  BY FetchTypeStep
<1> QED
  BY <1>1, <1>2, PTL DEF FetchSpec

----------------------------------------------------------------------------

(* A refusal outlives every call a fetch makes, whenever it makes it.      *)
THEOREM RefusalIsFinal == FetchSpec => TerminalIsFinal
<1>1. FetchTypeOK /\ [Next]_vars => (row.state = "terminal" => row'.state = "terminal")
  <2> SUFFICES ASSUME FetchTypeOK, [Next]_vars, row.state = "terminal"
               PROVE  row'.state = "terminal"
    OBVIOUS
  <2> USE DEF Unclaimed, world
  <2>1. ASSUME NEW f \in Session, Claim(f) PROVE row'.state = "terminal"
    BY <2>1 DEF Claim, Claimable
  <2>2. ASSUME NEW f \in Session, Release(f) \/ ChargeFailure(f) \/ Abandon(f)
        PROVE  row'.state = "terminal"
    BY <2>2 DEF Release, ReleaseFetch, ChargeFailure, RecordFetchFailure,
                Abandon, AbandonFetch
  <2>3. ASSUME NEW f \in Session,
               Plan(f) \/ Check(f) \/ Download(f) \/ Create(f) \/ Finalize(f)
                 \/ StoreCallFails(f) \/ Cancel(f) \/ NextRound(f) \/ Start(f) \/ Crash(f)
        PROVE  row'.state = "terminal"
    BY <2>3 DEF Plan, Check, Download, Create, Finalize, StoreCallFails,
                Cancel, NextRound, Start, Crash
  <2>4. CASE LeaseRuns \/ BackoffPasses
    BY <2>4 DEF LeaseRuns, BackoffPasses, FetchTypeOK, Row
  <2>5. CASE Sweep \/ LiveLands \/ Calm
    BY <2>5 DEF Sweep, LiveLands, Calm
  <2>6. CASE Purge
    BY <2>6 DEF Purge, RefuseFetch
  <2>7. CASE UNCHANGED vars
    BY <2>7 DEF vars
  <2>8. Next \/ UNCHANGED vars
    OBVIOUS
  <2> QED
    BY <2>8, <2>1, <2>2, <2>3, <2>4, <2>5, <2>6, <2>7 DEF Next, Works
<1> QED
  BY <1>1, FetchTypeCorrect, PTL DEF FetchSpec, TerminalIsFinal

----------------------------------------------------------------------------

(* Every path to done passes something held: the recording the check saw,  *)
(* the row that was created or found at the download's own path.  A purge  *)
(* takes it away only by refusing the broadcast.                           *)
LEMMA HeldStep == HeldInv /\ [Next]_vars => HeldInv'
<1> SUFFICES ASSUME HeldInv, [Next]_vars PROVE HeldInv'
  OBVIOUS
<1> DEFINE Late(f) == pc[f] \in {"finalize", "captured", "release"}
<1>t. FetchTypeOK /\ FetchTypeOK'
  BY FetchTypeStep DEF HeldInv
<1>h. (row.state = "done" => Held) /\ \A f \in Session : Late(f) => Held
  BY DEF HeldInv
<1> SUFFICES /\ row'.state = "done" => Held'
             /\ \A f \in Session : Late(f)' => Held'
  BY <1>t DEF HeldInv
<1>1. ASSUME NEW f \in Session, Plan(f) \/ Cancel(f) \/ NextRound(f) \/ Start(f) \/ Crash(f)
      PROVE  (row'.state = "done" => Held') /\ \A g \in Session : Late(g)' => Held'
  BY <1>1, <1>h, <1>t DEF Plan, Cancel, NextRound, Start, Crash, Goto, Held, world, FetchTypeOK
<1>2. ASSUME NEW f \in Session, Claim(f)
      PROVE  (row'.state = "done" => Held') /\ \A g \in Session : Late(g)' => Held'
  BY <1>2, <1>h, <1>t DEF Claim, Claimable, ClaimFetch, Goto, Held, world, FetchTypeOK
<1>3. ASSUME NEW f \in Session, Check(f)
      PROVE  (row'.state = "done" => Held') /\ \A g \in Session : Late(g)' => Held'
  BY <1>3, <1>h, <1>t DEF Check, Goto, Held, world, FetchTypeOK
<1>4. ASSUME NEW f \in Session, Download(f) \/ StoreCallFails(f)
      PROVE  (row'.state = "done" => Held') /\ \A g \in Session : Late(g)' => Held'
  BY <1>4, <1>h, <1>t DEF Download, StoreCallFails, Stops, Goto, Held, world, FetchTypeOK
<1>5. ASSUME NEW f \in Session, Create(f)
      PROVE  (row'.state = "done" => Held') /\ \A g \in Session : Late(g)' => Held'
  BY <1>5, <1>h, <1>t DEF Create, Goto, Held, FetchTypeOK
<1>6. ASSUME NEW f \in Session, Finalize(f)
      PROVE  (row'.state = "done" => Held') /\ \A g \in Session : Late(g)' => Held'
  BY <1>6, <1>h, <1>t DEF Finalize, Landed, Goto, Held, FetchTypeOK
<1>7. ASSUME NEW f \in Session, Release(f)
      PROVE  (row'.state = "done" => Held') /\ \A g \in Session : Late(g)' => Held'
  BY <1>7, <1>h, <1>t DEF Release, ReleaseFetch, Unclaimed, Stops, Goto, Held, world, FetchTypeOK
<1>8. ASSUME NEW f \in Session, ChargeFailure(f)
      PROVE  (row'.state = "done" => Held') /\ \A g \in Session : Late(g)' => Held'
  BY <1>8, <1>h, <1>t DEF ChargeFailure, RecordFetchFailure, Unclaimed, Stops, Goto, Held, world, FetchTypeOK
<1>9. ASSUME NEW f \in Session, Abandon(f)
      PROVE  (row'.state = "done" => Held') /\ \A g \in Session : Late(g)' => Held'
  BY <1>9, <1>h, <1>t DEF Abandon, AbandonFetch, Unclaimed, Goto, Held, world, FetchTypeOK
<1>10. CASE LeaseRuns \/ BackoffPasses
  BY <1>10, <1>h, <1>t DEF LeaseRuns, BackoffPasses, Held, world, FetchTypeOK, Row
<1>11. CASE Sweep
  BY <1>11, <1>h DEF Sweep, Landed, Held
<1>12. CASE LiveLands \/ Calm
  BY <1>12, <1>h DEF LiveLands, Calm, Held, world
<1>13. CASE Purge
  BY <1>13, <1>h DEF Purge, RefuseFetch, Unclaimed, Held
<1>14. CASE UNCHANGED vars
  BY <1>14, <1>h DEF vars, Held
<1>15. Next \/ UNCHANGED vars
  OBVIOUS
<1> QED
  BY <1>15, <1>1, <1>2, <1>3, <1>4, <1>5, <1>6, <1>7, <1>8, <1>9, <1>10,
     <1>11, <1>12, <1>13, <1>14 DEF Next, Works

(* A broadcast no timer asks for again has, or had when it was given up    *)
(* on, a recording; a purge would have refused it.                         *)
THEOREM DoneWasRecorded == FetchSpec => []DoneHasRecording
<1>1. Init => HeldInv
  BY FetchTypeInit DEF HeldInv, Init
<1>2. HeldInv /\ [Next]_vars => HeldInv'
  BY HeldStep
<1>3. HeldInv => DoneHasRecording
  BY DEF HeldInv, Held, DoneHasRecording
<1> QED
  BY <1>1, <1>2, <1>3, PTL DEF FetchSpec

----------------------------------------------------------------------------

(* A fetch that ends gives its claim back or is known to have failed to.   *)
LEMMA ClaimStep == ClaimInv /\ [Next]_vars => ClaimInv'
<1> SUFFICES ASSUME ClaimInv, [Next]_vars PROVE ClaimInv'
  OBVIOUS
<1> DEFINE Kept(f) == f \in dropped \/ proc[f] = "ended" \/ pc[f] \notin {"idle", "claim"}
<1>t. FetchTypeOK /\ FetchTypeOK'
  BY FetchTypeStep DEF ClaimInv
<1>c. \A f \in Session : row.by = f => Kept(f)
  BY DEF ClaimInv
<1> SUFFICES ASSUME NEW g \in Session, row'.by = g PROVE Kept(g)'
  BY <1>t DEF ClaimInv
<1>n. g # "nobody"
  OBVIOUS
<1>1. ASSUME NEW f \in Session, Plan(f) PROVE Kept(g)'
  BY <1>1, <1>c, <1>t DEF Plan, Goto, FetchTypeOK
<1>2. ASSUME NEW f \in Session, Claim(f) PROVE Kept(g)'
  BY <1>2, <1>c, <1>t DEF Claim, ClaimFetch, Goto, FetchTypeOK
<1>3. ASSUME NEW f \in Session, Check(f) PROVE Kept(g)'
  BY <1>3, <1>c, <1>t DEF Check, Goto, FetchTypeOK
<1>4. ASSUME NEW f \in Session, Download(f) PROVE Kept(g)'
  BY <1>4, <1>c, <1>t DEF Download, Goto, FetchTypeOK
<1>5. ASSUME NEW f \in Session, Create(f) \/ Finalize(f) PROVE Kept(g)'
  BY <1>5, <1>c, <1>t DEF Create, Finalize, Goto, FetchTypeOK
<1>6. ASSUME NEW f \in Session, StoreCallFails(f) PROVE Kept(g)'
  BY <1>6, <1>c, <1>t DEF StoreCallFails, Stops, Goto, FetchTypeOK
<1>7. ASSUME NEW f \in Session, Release(f) PROVE Kept(g)'
  BY <1>7, <1>c, <1>t, <1>n DEF Release, ReleaseFetch, Unclaimed, FetchTypeOK
<1>8. ASSUME NEW f \in Session, ChargeFailure(f) PROVE Kept(g)'
  BY <1>8, <1>c, <1>t, <1>n DEF ChargeFailure, RecordFetchFailure, Unclaimed, FetchTypeOK
<1>9. ASSUME NEW f \in Session, Abandon(f) PROVE Kept(g)'
  BY <1>9, <1>c, <1>t, <1>n DEF Abandon, AbandonFetch, Unclaimed, Goto, FetchTypeOK
<1>10. ASSUME NEW f \in Session, Cancel(f) \/ NextRound(f) PROVE Kept(g)'
  BY <1>10, <1>c DEF Cancel, NextRound
<1>11. ASSUME NEW f \in Session, Start(f) PROVE Kept(g)'
  BY <1>11, <1>c, <1>t DEF Start, FetchTypeOK
<1>12. ASSUME NEW f \in Session, Crash(f) PROVE Kept(g)'
  BY <1>12, <1>c, <1>t DEF Crash, Goto, FetchTypeOK
<1>13. CASE LeaseRuns \/ BackoffPasses
  BY <1>13, <1>c, <1>t DEF LeaseRuns, BackoffPasses, FetchTypeOK, Row
<1>14. CASE Sweep \/ LiveLands \/ Calm
  BY <1>14, <1>c DEF Sweep, LiveLands, Calm
<1>15. CASE Purge
  BY <1>15, <1>c, <1>n DEF Purge, RefuseFetch, Unclaimed
<1>16. CASE UNCHANGED vars
  BY <1>16, <1>c DEF vars
<1>17. Next \/ UNCHANGED vars
  OBVIOUS
<1> QED
  BY <1>17, <1>1, <1>2, <1>3, <1>4, <1>5, <1>6, <1>7, <1>8, <1>9, <1>10,
     <1>11, <1>12, <1>13, <1>14, <1>15, <1>16 DEF Next, Works

(* No broadcast stays held by a fetcher that has moved on, unless the      *)
(* store refused to hear of it; then the lease is what frees it.           *)
THEOREM IdleHoldsNothingAlways == FetchSpec => []IdleHoldsNothing
<1>1. Init => ClaimInv
  BY FetchTypeInit DEF ClaimInv, Init
<1>2. ClaimInv /\ [Next]_vars => ClaimInv'
  BY ClaimStep
<1>3. ClaimInv => IdleHoldsNothing
  BY DEF ClaimInv, IdleHoldsNothing
<1> QED
  BY <1>1, <1>2, <1>3, PTL DEF FetchSpec
=============================================================================
