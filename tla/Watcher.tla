------------------------------ MODULE Watcher ------------------------------
(***************************************************************************)
(* The watch loop of one channel (internal/daemon/watch.go): the poll, the *)
(* live session and its latches (internal/daemon/daemon.go), the capture   *)
(* with its watchdog and its metadata poll, and the early end.             *)
(*                                                                         *)
(* What the disk budget answers is a choice here; module Budget has its    *)
(* rules, and module Captures the slot and the row.                        *)
(***************************************************************************)
EXTENDS Integers, FiniteSets

CONSTANTS Streams,      \* bound on the broadcasts of the channel
          QuietLimit,   \* ticks without a byte that end a capture
          LongEnough,   \* ticks that make a capture long enough to keep
          Refusals,     \* refusalLimit
          Misses        \* metadataLookupLimit

ASSUME WatcherAssumption ==
  /\ Streams \in Nat /\ QuietLimit \in Nat \ {0} /\ LongEnough \in Nat
  /\ Refusals \in Nat \ {0} /\ Misses \in Nat

Stream == 1 .. Streams
Nobody == 0

VARIABLES air,          \* the broadcast on the air
          aired,        \* how many there have been
          live,         \* the daemon's live session of the channel
          cycle,        \* where the loop stands, and its capture
          engine,       \* what the capture's process does
          refused,      \* credentials refused in a row, as far as it matters
          titles,       \* for each row, the broadcasts whose title it was given
          stamped       \* the rows whose identifier is known

watcher == <<air, aired, live, cycle, engine, refused, titles, stamped>>

(* No session, and one just opened under an identifier.                    *)
NoSession == [id |-> -1, row |-> Nobody, refused |-> FALSE, halted |-> FALSE, fragments |-> 0]
Opened(id) == [NoSession EXCEPT !.id = id]

Waiting == [at |-> "waiting", row |-> Nobody, age |-> 0, quiet |-> 0, ended |-> "", misses |-> 0]

----------------------------------------------------------------------------
(* RunCycle                                                                *)

(* A probe that fails; a refused credential is counted, and its run is     *)
(* reported once.                                                          *)
ProbeFails ==
  /\ cycle.at = "waiting"
  /\ \E unauthorized \in BOOLEAN :
       refused' = IF unauthorized /\ refused < Refusals THEN refused + 1 ELSE refused
  /\ UNCHANGED <<air, aired, live, cycle, engine, titles, stamped>>

(* endSession, and the row it wrote to is closed.                          *)
ProbeOffline ==
  /\ cycle.at = "waiting" /\ air = Nobody
  /\ live' = NoSession /\ refused' = 0
  /\ UNCHANGED <<air, aired, cycle, engine, titles, stamped>>

(* sessionStart: the open session, where the block names the same one.     *)
Session(id) == IF live.id = id THEN live ELSE Opened(id)

(* The row UpsertBroadcast finds.  A block without an identifier falls to  *)
(* the session's anchor, which is the row's.                               *)
RowFor(id) == IF id # Nobody THEN id ELSE IF live.id = Nobody /\ live.row # Nobody THEN live.row ELSE air

(* A latch that is never read.                                             *)
NeverHalted(session) == FALSE

(* haltedForSpace: the watermark already ended a capture of this row with  *)
(* nothing to keep.                                                        *)
HaltedForSpace(session) == session.halted

(* A live probe.  Its metadata block is a request of its own and may be    *)
(* empty, identifier and all.                                              *)
ProbeLive ==
  /\ cycle.at = "waiting" /\ air # Nobody
  /\ \E id \in {air, Nobody}, admitted \in BOOLEAN :
       LET session == [Session(id) EXCEPT !.row = RowFor(id)]
           admits  == admitted /\ ~HaltedForSpace(session)
       IN  /\ stamped' = IF id = Nobody THEN stamped ELSE stamped \cup {air}
           /\ titles' = IF id = Nobody THEN titles ELSE [titles EXCEPT ![air] = @ \cup {air}]
           /\ live' = IF HaltedForSpace(session) THEN session ELSE [session EXCEPT !.refused = ~admitted]
           /\ cycle' = IF admits THEN [Waiting EXCEPT !.at = "capturing", !.row = RowFor(id)] ELSE cycle
           /\ engine' = IF admits THEN "writes" ELSE "off"
           /\ refused' = IF admits THEN refused ELSE 0
  /\ UNCHANGED <<air, aired>>

(* The store, or the reading of the usage, fails once the session is open. *)
CycleFails ==
  /\ cycle.at = "waiting" /\ air # Nobody
  /\ \E id \in {air, Nobody} : live' = Session(id)
  /\ UNCHANGED <<air, aired, cycle, engine, refused, titles, stamped>>

----------------------------------------------------------------------------
(* The capture                                                             *)

(* The broadcast may end, and another begin, while its capture drains.     *)
OnAirChanges ==
  /\ \/ air = Nobody /\ aired < Streams /\ air' = aired + 1 /\ aired' = aired + 1
     \/ air # Nobody /\ air' = Nobody /\ UNCHANGED aired
     \/ air # Nobody /\ aired < Streams /\ air' = aired + 1 /\ aired' = aired + 1
  /\ UNCHANGED <<live, cycle, engine, refused, titles, stamped>>

EngineHangs ==
  /\ engine = "writes" /\ engine' = "hangs"
  /\ UNCHANGED <<air, aired, live, cycle, refused, titles, stamped>>

(* A file that has not grown is quiet; one that cannot be sized is neither.*)
Quiet(known, grew) ==
  IF ~known THEN cycle.quiet ELSE IF grew THEN 0 ELSE cycle.quiet + 1

(* watchCapture: what one tick of the watchdog decides.                    *)
Tick ==
  /\ cycle.at = "capturing" /\ cycle.ended = ""
  /\ \E known, grew \in BOOLEAN, level \in {"ok", "critical", "unreadable"} :
       /\ grew => engine = "writes"
       /\ cycle' = [cycle EXCEPT !.age = IF @ < LongEnough THEN @ + 1 ELSE @,
                                !.quiet = Quiet(known, grew),
                                !.ended = IF Quiet(known, grew) >= QuietLimit THEN "stalled"
                                          ELSE IF level = "critical" THEN "space" ELSE ""]
  /\ UNCHANGED <<air, aired, live, engine, refused, titles, stamped>>

(* describeBroadcast: what the platform says is on the air, refused where  *)
(* its identifier is known to be another or it began well after; the next  *)
(* broadcast may begin soon enough.                                        *)
Described(row) ==
  {s \in {air} \ {Nobody} : (row \in stamped => s = row) /\ s \in {row, row + 1}}

(* pollMetadata: a title the probe carries is observed as it is; without   *)
(* one the platform is asked, as long as it has answered lately.           *)
PollMetadata ==
  /\ cycle.at = "capturing" /\ cycle.ended = "" /\ air # Nobody
  /\ \/ titles' = [titles EXCEPT ![cycle.row] = @ \cup {air}] /\ cycle' = [cycle EXCEPT !.misses = 0]
     \/ /\ cycle.misses < Misses /\ Described(cycle.row) # {}
        /\ titles' = [titles EXCEPT ![cycle.row] = @ \cup Described(cycle.row)]
        /\ cycle' = [cycle EXCEPT !.misses = 0]
     \/ /\ cycle' = [cycle EXCEPT !.misses = IF @ < Misses THEN @ + 1 ELSE @]
        /\ UNCHANGED titles
  /\ UNCHANGED <<air, aired, live, engine, refused, stamped>>

(* capture, once the process is gone: a capture the watermark ended before *)
(* it was worth keeping halts its broadcast.                               *)
CaptureEnds ==
  /\ cycle.at = "capturing"
  /\ cycle.ended # "" \/ engine = "writes"
  /\ cycle' = Waiting /\ engine' = "off"
  /\ live' = IF cycle.ended = "space" /\ cycle.age < LongEnough
             THEN [live EXCEPT !.halted = TRUE, !.fragments = @ + 1] ELSE live
  /\ refused' \in {0, refused}
  /\ UNCHANGED <<air, aired, titles, stamped>>

(* The recorder stops, or dies, and starts with no session.                *)
Restart ==
  /\ live # NoSession
  /\ live' = NoSession /\ cycle' = Waiting /\ engine' = "off" /\ refused' = 0
  /\ UNCHANGED <<air, aired, titles, stamped>>

WatcherInit ==
  /\ air = Nobody /\ aired = 0 /\ live = NoSession /\ cycle = Waiting /\ engine = "off"
  /\ refused = 0 /\ titles = [s \in Stream |-> {}] /\ stamped = {}

WatcherNext ==
  \/ ProbeFails \/ ProbeOffline \/ ProbeLive \/ CycleFails \/ OnAirChanges \/ EngineHangs
  \/ Tick \/ PollMetadata \/ CaptureEnds \/ Restart

(* The ticker, which sizes the file now and again, and a process that ends *)
(* once it is told to.                                                     *)
WatcherFairness ==
  /\ SF_watcher(Tick /\ cycle'.quiet # cycle.quiet)
  /\ WF_watcher(cycle.ended # "" /\ CaptureEnds)

WatcherSpec == WatcherInit /\ [][WatcherNext]_watcher /\ WatcherFairness

----------------------------------------------------------------------------

(* noteSpaceHalt: another attempt at a broadcast the watermark ended early *)
(* "produces another of the same, once per poll".  A session leaves one    *)
(* fragment at most.                                                       *)
OneFragmentPerSession == live.fragments <= 1

(* watchCapture: a capture that has stopped writing is ended, so that the  *)
(* next poll can take the broadcast up again.                              *)
StalledCaptureEnds == engine = "hangs" ~> engine # "hangs"
=============================================================================
