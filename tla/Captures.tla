------------------------------ MODULE Captures ------------------------------
(***************************************************************************)
(* The captures of a running recorder and the sweep that files what a      *)
(* capture left behind: internal/daemon/watch.go (RunCycle, capture) and   *)
(* daemon.go (reconcileInterrupted, SweepCapturing, noteCapturing).        *)
(*                                                                         *)
(* A recording is named when its cycle takes its start time, which is      *)
(* before it waits for a slot; its row follows once it has one.  What a    *)
(* recording is called and how it is finalized is Organizer's business:    *)
(* here Finalize either moves the file to the library or leaves it.        *)
(***************************************************************************)
EXTENDS Integers, FiniteSets

CONSTANTS Channel,      \* the channels watched, one goroutine each
          Recording,    \* the captures the model may begin
          Slots,        \* capture.max_concurrent
          StoreFails    \* whether a call of the store may fail

ASSUME CapturesAssumption ==
  /\ Slots \in Nat \ {0}
  /\ StoreFails \in BOOLEAN
  /\ "nothing" \notin Recording

VARIABLES up,           \* whether the recorder's process runs
          cycle,        \* where each channel's cycle stands
          rec,          \* the recording each cycle is making
          rows,         \* the state of each recording's row, "none" without one
          files,        \* where each recording's media is
          old,          \* recordings that started longer than strandedAfter ago
          capturing,    \* Daemon.capturing, the rows an engine writes to
          sweep         \* the sweep loop: its step, its list, the row it took

captureVars == <<up, cycle, rec, rows, files, old, capturing, sweep>>

Phase == {"watching", "waiting", "created", "noted", "told", "capturing",
          "finalizing", "leaving"}
RowState == {"none", "capturing", "awaiting_finalize", "complete", "failed"}

(* The cycles that hold a slot: acquireSlot to the deferred releaseSlot.   *)
Holding == {c \in Channel : cycle[c] \notin {"watching", "waiting"}}
SlotFree == Cardinality(Holding) < Slots

Owned(r) == \E c \in Channel : rec[c] = r

Sweeping(step, list, row) == [step |-> step, list |-> list, row |-> row]
Resting == Sweeping("idle", {}, "nothing")

Goes(c, phase) == cycle' = [cycle EXCEPT ![c] = phase]
Moves(r, state) == rows' = [rows EXCEPT ![r] = state]

----------------------------------------------------------------------------
(* One cycle of one channel *)

(* The probe found the channel live and the budget admits the broadcast.   *)
SeeLive(c) ==
  /\ up /\ cycle[c] = "watching"
  /\ \E r \in Recording :
       /\ rows[r] = "none" /\ ~Owned(r)
       /\ rec' = [rec EXCEPT ![c] = r]
  /\ Goes(c, "waiting")
  /\ UNCHANGED <<up, rows, files, old, capturing, sweep>>

CreateRow(c) ==
  /\ cycle[c] = "waiting" /\ SlotFree
  /\ Goes(c, "created")
  /\ Moves(rec[c], "capturing")
  /\ UNCHANGED <<up, rec, files, old, capturing, sweep>>

CreateRowFails(c) ==
  /\ StoreFails
  /\ cycle[c] = "waiting" /\ SlotFree
  /\ Goes(c, "watching")
  /\ rec' = [rec EXCEPT ![c] = "nothing"]
  /\ old' = old \ {rec[c]}
  /\ UNCHANGED <<up, rows, files, capturing, sweep>>

(* Mutant of NoteCapturing: the recovery round is never told to stop.      *)
NoteCapturingAlone(c) ==
  /\ cycle[c] = "created"
  /\ capturing' = capturing \cup {rec[c]}
  /\ Goes(c, "told")
  /\ UNCHANGED <<up, rec, rows, files, old, sweep>>

(* noteCapturing marks the row and then calls stopRound.                   *)
NoteCapturing(c) ==
  /\ cycle[c] = "created"
  /\ capturing' = capturing \cup {rec[c]}
  /\ Goes(c, "noted")
  /\ UNCHANGED <<up, rec, rows, files, old, sweep>>

StopRound(c) ==
  /\ cycle[c] = "noted"
  /\ Goes(c, "told")
  /\ UNCHANGED <<up, rec, rows, files, old, capturing, sweep>>

StartEngine(c) ==
  /\ cycle[c] = "told"
  /\ Goes(c, "capturing")
  /\ UNCHANGED <<up, rec, rows, files, old, capturing, sweep>>

EngineWrites(c) ==
  /\ cycle[c] = "capturing" /\ files[rec[c]] = "absent"
  /\ files' = [files EXCEPT ![rec[c]] = "incoming"]
  /\ UNCHANGED <<up, cycle, rec, rows, old, capturing, sweep>>

(* The engine ended.  FinishRecording writes what became of the capture,   *)
(* whatever state the row is in: worth keeping, or failed or too short.    *)
FinishRow(c, state) ==
  /\ cycle[c] = "capturing"
  /\ Moves(rec[c], state)
  /\ Goes(c, IF state = "failed" THEN "leaving" ELSE "finalizing")
  /\ UNCHANGED <<up, rec, files, old, capturing, sweep>>

FinishRowFails(c) ==
  /\ StoreFails
  /\ cycle[c] = "capturing"
  /\ Goes(c, "leaving")
  /\ UNCHANGED <<up, rec, rows, files, old, capturing, sweep>>

Finalized(r) ==
  /\ files[r] = "incoming"
  /\ Moves(r, "complete")
  /\ files' = [files EXCEPT ![r] = "library"]

FinalizeCapture(c) ==
  /\ cycle[c] = "finalizing"
  /\ Finalized(rec[c]) \/ UNCHANGED <<rows, files>>
  /\ Goes(c, "leaving")
  /\ UNCHANGED <<up, rec, old, capturing, sweep>>

(* Mutant of Leave: the mark stays.                                        *)
LeaveMarked(c) ==
  /\ cycle[c] = "leaving"
  /\ Goes(c, "watching")
  /\ rec' = [rec EXCEPT ![c] = "nothing"]
  /\ UNCHANGED <<up, rows, files, old, capturing, sweep>>

(* The deferred forgetCapturing and releaseSlot.                           *)
Leave(c) ==
  /\ cycle[c] = "leaving"
  /\ capturing' = capturing \ {rec[c]}
  /\ Goes(c, "watching")
  /\ rec' = [rec EXCEPT ![c] = "nothing"]
  /\ UNCHANGED <<up, rows, files, old, sweep>>

(* A minute passes for a recording: its row has outlived the writes that   *)
(* noteCapturing follows, or its cycle waits for a slot.                   *)
Ages(r) ==
  /\ r \notin old /\ (rows[r] # "none" \/ Owned(r))
  /\ \A c \in Channel :
        rec[c] = r => cycle[c] \notin {"created", "noted"} \cup
                                     (IF SlotFree THEN {"waiting"} ELSE {})
  /\ old' = old \cup {r}
  /\ UNCHANGED <<up, cycle, rec, rows, files, capturing, sweep>>

----------------------------------------------------------------------------
(* The sweep loop *)

ListCapturing ==
  /\ up /\ sweep.step = "idle"
  /\ sweep' = Sweeping("each", {r \in Recording : rows[r] = "capturing"}, "nothing")
  /\ UNCHANGED <<up, cycle, rec, rows, files, old, capturing>>

(* Mutant of Stranded: the age is not asked.                               *)
StrandedAtAnyAge(r) == r \notin capturing

(* isCapturing, and the age of the row as it was listed.                   *)
Stranded(r) == r \notin capturing /\ r \in old

SkipCapturing(r) ==
  /\ sweep.step = "each" /\ r \in sweep.list /\ ~Stranded(r)
  /\ sweep' = Sweeping("each", sweep.list \ {r}, "nothing")
  /\ UNCHANGED <<up, cycle, rec, rows, files, old, capturing>>

TakeStranded(r) ==
  /\ sweep.step = "each" /\ r \in sweep.list /\ Stranded(r)
  /\ sweep' = Sweeping("taken", sweep.list \ {r}, r)
  /\ UNCHANGED <<up, cycle, rec, rows, files, old, capturing>>

(* recoverInterrupted: what the volume holds under the capture's own name  *)
(* decides, and the row is written whatever state it has by now.           *)
Recovered(r) == IF files[r] = "incoming" THEN "awaiting_finalize" ELSE "failed"

RecoverInterrupted ==
  /\ sweep.step = "taken"
  /\ Moves(sweep.row, Recovered(sweep.row))
  /\ sweep' = Sweeping("each", sweep.list, "nothing")
  /\ UNCHANGED <<up, cycle, rec, files, old, capturing>>

RecoverFails ==
  /\ StoreFails
  /\ sweep.step = "taken"
  /\ sweep' = Sweeping("each", sweep.list, "nothing")
  /\ UNCHANGED <<up, cycle, rec, rows, files, old, capturing>>

(* SweepParked finalizes what is pending, unless the capture's own         *)
(* goroutine is at it (ErrBusy).                                           *)
SweepParked ==
  /\ sweep.step = "each" /\ sweep.list = {}
  /\ \/ \E r \in Recording :
          /\ rows[r] = "awaiting_finalize"
          /\ ~\E c \in Channel : rec[c] = r /\ cycle[c] = "finalizing"
          /\ Finalized(r)
          /\ UNCHANGED sweep
     \/ /\ sweep' = Resting
        /\ UNCHANGED <<rows, files>>
  /\ UNCHANGED <<up, cycle, rec, old, capturing>>

----------------------------------------------------------------------------
(* Starting and ending the process *)

(* reconcileInterrupted runs before any watcher: every capturing row is    *)
(* stale by then.  One that cannot be recovered is left for the sweep.     *)
StartCaptures ==
  /\ ~up
  /\ up' = TRUE
  /\ \E missed \in SUBSET {r \in Recording : rows[r] = "capturing"} :
       /\ StoreFails \/ missed = {}
       /\ rows' = [r \in Recording |->
                     IF rows[r] = "capturing" /\ r \notin missed THEN Recovered(r) ELSE rows[r]]
  /\ UNCHANGED <<cycle, rec, files, old, capturing, sweep>>

(* A kill or a power loss takes everything the process holds in memory.    *)
CrashCaptures ==
  /\ up
  /\ up' = FALSE
  /\ cycle' = [c \in Channel |-> "watching"]
  /\ rec' = [c \in Channel |-> "nothing"]
  /\ capturing' = {}
  /\ sweep' = Resting
  /\ old' = {r \in old : rows[r] # "none"}
  /\ UNCHANGED <<rows, files>>

CapturesInit ==
  /\ up = TRUE
  /\ cycle = [c \in Channel |-> "watching"]
  /\ rec = [c \in Channel |-> "nothing"]
  /\ rows = [r \in Recording |-> "none"]
  /\ files = [r \in Recording |-> "absent"]
  /\ old = {}
  /\ capturing = {}
  /\ sweep = Resting

(* What one channel's goroutine does by itself.                            *)
CycleStep(c) ==
  \/ SeeLive(c) \/ CreateRow(c) \/ CreateRowFails(c) \/ NoteCapturing(c)
  \/ StopRound(c) \/ StartEngine(c) \/ EngineWrites(c) \/ FinishRowFails(c)
  \/ \E state \in {"awaiting_finalize", "failed"} : FinishRow(c, state)
  \/ FinalizeCapture(c) \/ Leave(c)

SweepStep ==
  \/ ListCapturing
  \/ \E r \in Recording : SkipCapturing(r) \/ TakeStranded(r)
  \/ RecoverInterrupted \/ RecoverFails \/ SweepParked

CapturesNext ==
  \/ \E c \in Channel : CycleStep(c)
  \/ \E r \in Recording : Ages(r)
  \/ SweepStep \/ StartCaptures \/ CrashCaptures

Spec == CapturesInit /\ [][CapturesNext]_captureVars

(* The sweep loop runs as long as the process does, every recording grows  *)
(* old, and the store is not busy for ever.                                *)
FairSpec ==
  /\ Spec
  /\ WF_captureVars(StartCaptures)
  /\ \A r \in Recording : /\ WF_captureVars(Ages(r))
                          /\ WF_captureVars(SkipCapturing(r) \/ TakeStranded(r))
                          /\ SF_captureVars(sweep.row = r /\ RecoverInterrupted)
  /\ WF_captureVars(ListCapturing)
  /\ WF_captureVars(RecoverFails) /\ WF_captureVars(RecoverInterrupted)
  /\ WF_captureVars(SweepParked)

----------------------------------------------------------------------------
(* Properties *)

TypeOK ==
  /\ up \in BOOLEAN
  /\ cycle \in [Channel -> Phase]
  /\ rec \in [Channel -> Recording \cup {"nothing"}]
  /\ rows \in [Recording -> RowState]
  /\ files \in [Recording -> {"absent", "incoming", "library"}]
  /\ old \subseteq Recording /\ capturing \subseteq Recording
  /\ sweep \in [step : {"idle", "each", "taken"}, list : SUBSET Recording,
               row : Recording \cup {"nothing"}]
  /\ sweep.step = "taken" <=> sweep.row # "nothing"
  /\ \A c \in Channel : cycle[c] = "watching" <=> rec[c] = "nothing"

(* daemon.go, SweepCapturing: "Only rows this process is not writing to    *)
(* are touched".  While an engine writes a capture its row says so, as     *)
(* long as no cycle has to wait for a slot.                                *)
LiveRowStaysCapturing ==
  \A c \in Channel : cycle[c] = "capturing" => rows[rec[c]] = "capturing"

(* daemon.go, SweepCapturing and reconcileInterrupted: a row that a crash  *)
(* or a failed store call left behind does not read as being captured for  *)
(* ever.                                                                   *)
StrandedSettles ==
  \A r \in Recording :
    rows[r] = "capturing" /\ ~Owned(r) ~> rows[r] # "capturing" \/ ~up

(* What a channel's capture looks like to anyCapturing and stopRound.      *)
MarkOf(c) ==
  CASE cycle[c] = "capturing" -> "writing"
    [] cycle[c] # "capturing" /\ rec[c] \notin capturing -> "none"
    [] cycle[c] = "noted" /\ rec[c] \in capturing -> "noted"
    [] OTHER -> "told"

Marks == INSTANCE CaptureMarks WITH alive <- up, mark <- [c \in Channel |-> MarkOf(c)]

(* noteCapturing, stopRound and forgetCapturing: no engine writes before   *)
(* its capture is marked and the recovery round was told to stop, and the  *)
(* mark stays until it is done.                                            *)
ImplementsMarks == Marks!MarksSpec
============================================================================
