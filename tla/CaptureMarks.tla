---------------------------- MODULE CaptureMarks ----------------------------
(***************************************************************************)
(* What the rest of the recorder sees of its captures: Daemon.capturing    *)
(* and the call of stopRound (internal/daemon/daemon.go, noteCapturing,    *)
(* forgetCapturing; recover.go, anyCapturing).  An engine writes only      *)
(* after its capture was noted and any recovery round was told to stop,    *)
(* and the note outlives it.                                               *)
(*                                                                         *)
(* Captures implements this specification, and Recovery is built on it.    *)
(***************************************************************************)
CONSTANT Channel        \* the channels watched, one goroutine each

VARIABLES alive,        \* whether the recorder's process runs
          mark          \* how far the capture of each channel has gone

Mark == {"none", "noted", "told", "writing"}

AnyCapturing == \E c \in Channel : mark[c] # "none"

Marked(c, from, to) ==
  /\ alive /\ mark[c] = from
  /\ mark' = [mark EXCEPT ![c] = to]
  /\ UNCHANGED alive

Note(c) == Marked(c, "none", "noted")
TellRound(c) == Marked(c, "noted", "told")
EngineStarts(c) == Marked(c, "told", "writing")
EngineEnds(c) == Marked(c, "writing", "told")
Forget(c) == Marked(c, "told", "none")

ProcessEnds ==
  /\ alive
  /\ alive' = FALSE
  /\ mark' = [c \in Channel |-> "none"]

ProcessStarts == ~alive /\ alive' = TRUE /\ UNCHANGED mark

MarksInit == alive = TRUE /\ mark = [c \in Channel |-> "none"]

MarksNext ==
  \/ \E c \in Channel : \/ Note(c) \/ TellRound(c) \/ EngineStarts(c)
                        \/ EngineEnds(c) \/ Forget(c)
  \/ ProcessEnds \/ ProcessStarts

MarksSpec == MarksInit /\ [][MarksNext]_<<alive, mark>>
=============================================================================
