-------------------------------- MODULE Tool --------------------------------
(***************************************************************************)
(* One run of an external program (internal/procgroup): the program, the   *)
(* helpers it starts, such as the muxer streamlink starts, and the group   *)
(* that is to end with it.  A capture (internal/record/streamlink.go)      *)
(* measures its file when the run has returned; a probe, a download and    *)
(* every call of ffmpeg go through the same run.                           *)
(*                                                                         *)
(* On Unix the program leads a process group from its first instruction,   *)
(* and the group is known once it started; on Windows it is put into a job *)
(* after it started, and a program takes longer than that to start another.*)
(***************************************************************************)
EXTENDS Naturals

CONSTANT Helper         \* the processes the program may start

VARIABLES system,       \* "unix" or "windows"
          piped,        \* whether the output is collected through a pipe
          process,      \* the program and its helpers: none, running, ended
          group,        \* who a signal to the group, or the job, reaches
          runs,         \* where Run stands
          told,         \* whether the context was cancelled
          expired       \* whether WaitDelay ran out

tool == <<system, piped, process, group, runs, told, expired>>

Program == "program"
Processes == Helper \cup {Program}
Running == {p \in Processes : process[p] = "running"}

End(S) == process' = [p \in Processes |-> IF p \in S \cap Running THEN "ended" ELSE process[p]]

----------------------------------------------------------------------------
(* The program                                                             *)

Spawns(h) ==
  /\ Program \in Running /\ process[h] = "none"
  /\ system = "windows" => Program \in group
  /\ process' = [process EXCEPT ![h] = "running"]
  /\ group' = group \cup {h}
  /\ UNCHANGED <<system, piped, runs, told, expired>>

(* Of its own, or because it was asked to; a helper may go on.             *)
Exits(p) ==
  /\ p \in Running /\ End({p})
  /\ UNCHANGED <<system, piped, group, runs, told, expired>>

----------------------------------------------------------------------------
(* Run                                                                     *)

StartTool ==
  /\ runs = "new" /\ runs' = "started"
  /\ process' = [process EXCEPT ![Program] = "running"]
  /\ group' = IF system = "unix" THEN {Program} ELSE {}
  /\ UNCHANGED <<system, piped, told, expired>>

(* attach: a program that cannot be held is ended, unless it ended itself. *)
Attach ==
  /\ runs = "started"
  /\ \/ runs' = "waiting" /\ group' = group \cup {Program} /\ UNCHANGED process
     \/ /\ system = "windows" /\ Program \in Running
        /\ End({Program}) /\ runs' = "returned" /\ UNCHANGED group
  /\ UNCHANGED <<system, piped, told, expired>>

(* The cancelled context, once: the group is asked to end on Unix, and the *)
(* program alone while the group is not known; the job ends whom it holds. *)
CancelTool ==
  /\ runs \in {"started", "waiting"} /\ ~told /\ told' = TRUE
  /\ \/ system = "windows" /\ End(group)
     \/ system = "unix" /\ runs = "started" /\ End({Program})
     \/ system = "unix" /\ runs = "waiting" /\ UNCHANGED process
  /\ UNCHANGED <<system, piped, group, runs, expired>>

(* A wait that ends the program, and goes on for its pipes.                *)
DelayForProgramOnly ==
  /\ runs = "waiting" /\ ~expired /\ told
  /\ Program \in Running /\ End({Program})
  /\ UNCHANGED <<system, piped, group, runs, told, expired>>

(* WaitDelay, counted from the cancellation or the program's own end: a    *)
(* program that still runs is killed, and its pipes are closed.            *)
Delay ==
  /\ runs = "waiting" /\ ~expired /\ (told \/ Program \notin Running)
  /\ expired' = TRUE /\ End({Program})
  /\ UNCHANGED <<system, piped, group, runs, told>>

Waited == /\ runs = "waiting" /\ Program \notin Running
          /\ expired \/ ~piped \/ Running = {}

(* A wait whose group is left to end by itself.                            *)
WaitAlone ==
  /\ Waited /\ runs' = "returned"
  /\ UNCHANGED <<system, piped, process, group, told, expired>>

(* Wait, and the deferred Close, which kills what is left of the group.    *)
WaitAndClose ==
  /\ Waited /\ runs' = "returned" /\ End(group)
  /\ UNCHANGED <<system, piped, group, told, expired>>

(* Capture stats the file; what cannot be measured is not called empty.    *)
Measure ==
  /\ runs = "returned" /\ runs' = "measured"
  /\ UNCHANGED <<system, piped, process, group, told, expired>>

ToolInit ==
  /\ system \in {"unix", "windows"} /\ piped \in BOOLEAN
  /\ process = [p \in Processes |-> "none"] /\ group = {}
  /\ runs = "new" /\ told = FALSE /\ expired = FALSE

ToolNext ==
  \/ StartTool \/ Attach \/ CancelTool \/ Delay \/ WaitAndClose \/ Measure
  \/ \E h \in Helper : Spawns(h)
  \/ \E p \in Processes : Exits(p)

(* The runtime's timer and the goroutine that waits: no program has to     *)
(* end, whatever it is sent.                                               *)
ToolFairness == WF_tool(Attach) /\ WF_tool(Delay) /\ WF_tool(WaitAndClose)

ToolSpec == ToolInit /\ [][ToolNext]_tool /\ ToolFairness

----------------------------------------------------------------------------

(* streamlink.go, Capture: ending streamlink alone "leaves that muxer      *)
(* writing to the output this call is about to measure, finalize, and      *)
(* rename".  What has returned has left nothing running.                   *)
MeasuredIsFinal == runs \in {"returned", "measured"} => Running = {}

(* procgroup.go, WaitDelay: a process the tool started holds its pipe open *)
(* "after the tool itself is gone, and Wait does not return while anything *)
(* still holds it".  A run that was told to stop returns, whoever ignores  *)
(* the signal.                                                             *)
ToldReturns == told ~> runs \in {"returned", "measured"}
=============================================================================
