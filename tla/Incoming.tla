------------------------------ MODULE Incoming ------------------------------
(***************************************************************************)
(* The incoming directory: what captures, downloads and remuxes write into *)
(* it, and what removes a file from it: the sweep of a recorder's start    *)
(* (internal/daemon/daemon.go, SweepIncoming), the discard of a download   *)
(* that was given up (internal/backfill/fetch.go), and the move into the   *)
(* library.                                                                *)
(*                                                                         *)
(* One process at a time runs against the library.  It may be killed at    *)
(* any point and started days later.  A file that is being written is      *)
(* written every day, and a finished one bears the time it was written.    *)
(***************************************************************************)
EXTENDS Naturals, FiniteSets

CONSTANTS Sought,       \* the missed broadcasts that are downloaded
          Streamed         \* the captures

(* A download's scratch and its media, a capture and its remux.            *)
IncomingFile == (Sought \X {"part", "media"}) \cup (Streamed \X {"capture", "media"})

NotThere == 2
Abandoned == 1          \* abandonedAfter, in days

VARIABLES idle,         \* for each file the days since it was written, or NotThere
          recorded,     \* the files recordings name
          stage,        \* how far each broadcast and each capture is
          running,      \* what the process does
          sighted       \* the files the start has listed and not yet judged

incoming == <<idle, recorded, stage, running, sighted>>

OnDisk(f) == idle[f] # NotThere

----------------------------------------------------------------------------
(* The sweep of a start                                                    *)

(* Run: the rows a crash left are reconciled, a download it left is wanted *)
(* again, and the directory is read.  Of one that cannot be read nothing   *)
(* is removed.                                                             *)
StartRun ==
  /\ running = "down"
  /\ stage' = [x \in DOMAIN stage |-> IF stage[x] = "capturing" THEN "parked"
                                      ELSE IF stage[x] \in {"downloading", "landed"} THEN "wanted" ELSE stage[x]]
  /\ \/ sighted' = {f \in IncomingFile : OnDisk(f)} /\ running' = "names"
     \/ sighted' = {} /\ running' = "serving"
  /\ UNCHANGED <<idle, recorded>>

(* Mutant of Unclaimed: the rows are not asked.                            *)
UnclaimedAll(names) == sighted

(* unclaimedIncoming: a row in any state owns the file it names.           *)
Unclaimed(names) == sighted \ names

(* RecordingPaths, after the listing.                                      *)
ReadNames ==
  /\ running = "names" /\ sighted' = Unclaimed(recorded) /\ running' = "sweeping"
  /\ UNCHANGED <<idle, recorded, stage>>

(* Mutant of OldEnough: nothing of a run before this one is resumed.       *)
AnyAge(f) == TRUE

(* SweepIncoming: what is young may still be in flight, or be resumed.     *)
OldEnough(f) == idle[f] >= Abandoned

SweepFile ==
  /\ running = "sweeping"
  /\ \E f \in sighted :
       /\ sighted' = sighted \ {f}
       /\ \/ OnDisk(f) /\ OldEnough(f) /\ idle' = [idle EXCEPT ![f] = NotThere]
          \/ UNCHANGED idle
  /\ UNCHANGED <<recorded, stage, running>>

SweepEnds ==
  /\ running = "sweeping" /\ sighted = {} /\ running' = "serving"
  /\ UNCHANGED <<idle, recorded, stage, sighted>>

----------------------------------------------------------------------------
(* Downloads                                                               *)

Partial(f) == f[2] = "part"
MediaOf(x) == <<x, "media">>

(* Fetch: several at once, each of its own broadcast.                      *)
BeginDownload ==
  /\ running = "serving"
  /\ \E s \in Sought : stage[s] = "wanted" /\ stage' = [stage EXCEPT ![s] = "downloading"]
  /\ UNCHANGED <<idle, recorded, running, sighted>>

(* Download: the tool writes scratch, resumes what an earlier try left of  *)
(* it, and passes over a file that is whole.                               *)
WriteScratch ==
  /\ \E s \in Sought :
       /\ stage[s] = "downloading" /\ ~OnDisk(MediaOf(s)) /\ running = "serving"
       /\ idle' = [idle EXCEPT ![<<s, "part">>] = 0]
  /\ UNCHANGED <<recorded, stage, running, sighted>>

Land ==
  /\ \E s \in Sought :
       /\ stage[s] = "downloading" /\ running = "serving"
       /\ \/ OnDisk(MediaOf(s)) /\ UNCHANGED idle
          \/ OnDisk(<<s, "part">>) /\ idle' = [idle EXCEPT ![<<s, "part">>] = NotThere, ![MediaOf(s)] = 0]
       /\ stage' = [stage EXCEPT ![s] = "landed"]
  /\ UNCHANGED <<recorded, running, sighted>>

(* Mutant of Discarded: whatever is scratch is this broadcast's.           *)
DiscardedOfAll(s) == {f \in IncomingFile : Partial(f)}

(* discardPartials: the scratch of this stem, and of no other.             *)
Discarded(s) == {f \in IncomingFile : f[1] = s /\ Partial(f)}

(* chargeFailure: a permanent answer and a missing credential are the last *)
(* word, and what is left of the download goes, what another program holds *)
(* aside.                                                                  *)
DownloadFails ==
  /\ \E s \in Sought, end \in {"wanted", "refused"} :
       /\ stage[s] = "downloading" /\ running = "serving"
       /\ stage' = [stage EXCEPT ![s] = end]
       /\ \E taken \in IF end = "wanted" THEN {{}} ELSE SUBSET Discarded(s) :
            idle' = [f \in IncomingFile |-> IF f \in taken THEN NotThere ELSE idle[f]]
  /\ UNCHANGED <<recorded, running, sighted>>

(* CreateRecording, where the store takes it.                              *)
NameDownload ==
  /\ \E s \in Sought :
       /\ stage[s] = "landed" /\ running = "serving"
       /\ \/ recorded' = recorded \cup {MediaOf(s)} /\ stage' = [stage EXCEPT ![s] = "parked"]
          \/ UNCHANGED recorded /\ stage' = [stage EXCEPT ![s] = "wanted"]
  /\ UNCHANGED <<idle, running, sighted>>

----------------------------------------------------------------------------
(* Captures, and what follows either                                       *)

(* The row names the file before the engine opens it.                      *)
BeginCapture ==
  /\ running = "serving"
  /\ \E c \in Streamed :
       /\ stage[c] = "wanted" /\ stage' = [stage EXCEPT ![c] = "capturing"]
       /\ recorded' = recorded \cup {<<c, "capture">>}
       /\ idle' = [idle EXCEPT ![<<c, "capture">>] = 0]
  /\ UNCHANGED <<running, sighted>>

EndCapture ==
  /\ \E c \in Streamed : stage[c] = "capturing" /\ stage' = [stage EXCEPT ![c] = "parked"]
  /\ running # "down"
  /\ UNCHANGED <<idle, recorded, running, sighted>>

(* Finalize runs beside the downloads.                                     *)
Finalizing(x) == running = "serving" /\ stage[x] \in {"parked", "remuxed"}

(* A remux that is not finished is a file nobody names.                    *)
RemuxCapture ==
  /\ \E c \in Streamed :
       /\ Finalizing(c) /\ stage[c] = "parked" /\ OnDisk(<<c, "capture">>)
       /\ idle' = [idle EXCEPT ![MediaOf(c)] = 0]
       /\ \/ /\ recorded' = (recorded \ {<<c, "capture">>}) \cup {MediaOf(c)}
             /\ stage' = [stage EXCEPT ![c] = "remuxed"]
          \/ UNCHANGED <<recorded, stage>>
  /\ UNCHANGED <<running, sighted>>

(* The capture goes once the row names its remux, or it is held and stays. *)
DropCapture ==
  /\ \E c \in Streamed :
       Finalizing(c) /\ stage[c] = "remuxed" /\ idle' = [idle EXCEPT ![<<c, "capture">>] = NotThere]
  /\ UNCHANGED <<recorded, stage, running, sighted>>

(* The move into the library.                                              *)
MoveOut ==
  /\ \E x \in Sought \cup Streamed :
       /\ Finalizing(x) /\ (x \in Streamed => stage[x] = "remuxed") /\ OnDisk(MediaOf(x))
       /\ stage' = [stage EXCEPT ![x] = "kept"]
       /\ recorded' = recorded \ {MediaOf(x)}
       /\ idle' = [idle EXCEPT ![MediaOf(x)] = NotThere]
  /\ UNCHANGED <<running, sighted>>

----------------------------------------------------------------------------

InUse(f) ==
  \/ f[1] \in Sought /\ stage[f[1]] = "downloading" /\ Partial(f) /\ running = "serving"
  \/ f[1] \in Streamed /\ stage[f[1]] = "capturing" /\ f[2] = "capture" /\ running # "down"

DayPasses ==
  /\ idle' = [f \in IncomingFile |-> IF OnDisk(f) /\ ~InUse(f) THEN Abandoned ELSE idle[f]]
  /\ UNCHANGED <<recorded, stage, running, sighted>>

KillRun ==
  /\ running # "down" /\ running' = "down" /\ sighted' = {}
  /\ UNCHANGED <<idle, recorded, stage>>

IncomingInit ==
  /\ idle = [f \in IncomingFile |-> NotThere]
  /\ recorded = {} /\ sighted = {}
  /\ stage = [x \in Sought \cup Streamed |-> "wanted"]
  /\ running = "down"

IncomingNext ==
  \/ StartRun \/ ReadNames \/ SweepFile \/ SweepEnds
  \/ BeginDownload \/ WriteScratch \/ Land \/ DownloadFails \/ NameDownload
  \/ BeginCapture \/ EndCapture \/ RemuxCapture \/ DropCapture \/ MoveOut
  \/ DayPasses \/ KillRun

IncomingSpec == IncomingInit /\ [][IncomingNext]_incoming

----------------------------------------------------------------------------

(* daemon.go, SweepIncoming: "a file young enough to be in flight is left  *)
(* alone whether or not a row names it yet", and "a row in any state owns  *)
(* the file it names".  Whatever is killed and however long nothing runs,  *)
(* a recording's file lies where its row says, and what a download left is *)
(* there to be resumed for a day, unless the download was given up or has  *)
(* landed.                                                                 *)
IncomingIsKept ==
  /\ [](\A f \in recorded : OnDisk(f))
  /\ [][\A f \in IncomingFile :
          OnDisk(f) /\ ~OnDisk(f)' =>
            \/ idle[f] >= Abandoned /\ running = "sweeping"
            \/ f[1] \in Sought /\ stage'[f[1]] = "refused"
            \/ Partial(f) /\ OnDisk(MediaOf(f[1]))'
            \/ stage[f[1]] \in {"remuxed", "parked"}]_incoming
=============================================================================
