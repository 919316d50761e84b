------------------------------- MODULE Budget -------------------------------
(***************************************************************************)
(* The library's disk budget: the margins, the admission of a recording    *)
(* and the watermark (internal/space/space.go), the usage they are         *)
(* measured against, and the loop that looks at the library beside the     *)
(* captures and finishes purges under pressure (internal/daemon/daemon.go).*)
(*                                                                         *)
(* A byte of the model is minCriticalBytes, 512 MiB.                       *)
(***************************************************************************)
EXTENDS Integers, Sequences, FiniteSets

CONSTANTS Broadcasters, \* how many channels go live
          MaxSize,      \* space.max_size, 0 where it is off
          MinFree,      \* space.min_free, 0 where it is off
          Volume,       \* the size of the volume
          Expected,     \* what a broadcast may be expected to take
          MaxTrash      \* bound on the recordings in the trash

ASSUME BudgetAssumption ==
  /\ Broadcasters \in Nat /\ MaxSize \in Nat /\ MinFree \in Nat /\ Volume \in Nat
  /\ MaxTrash \in Nat /\ Expected \subseteq Nat

VARIABLES kept,         \* bytes of recordings that are not in the trash
          trash,        \* for each purged recording, oldest first, whether
                        \* its grace has run out
          taking,       \* what each channel's cycle does
          foreign,      \* bytes of the volume other programs hold
          level,        \* the level the idle loop last settled on
          releasing     \* the purges the running pass may still finish

Broadcaster == 1 .. Broadcasters

budget == <<kept, trash, taking, foreign, level, releasing>>

----------------------------------------------------------------------------
(* Margins                                                                 *)

AtMost(a, b) == IF a < b THEN a ELSE b
AtLeast(a, b) == IF a < b THEN b ELSE a

(* capMargin: a floored margin stays inside its limit.                     *)
CapMargin(margin, limit, num, den) ==
  IF limit <= 0 THEN margin ELSE AtMost(margin, (limit * num) \div den)

CriticalMargin(limit) == CapMargin(AtLeast((limit * 2) \div 100, 1), limit, 1, 2)

WarnMargin(limit) == CapMargin(AtLeast((limit * 10) \div 100, 5), limit, 3, 4)

LevelFor(headroom, limit) ==
  IF headroom <= CriticalMargin(limit) THEN "critical"
  ELSE IF headroom <= WarnMargin(limit) THEN "low" ELSE "ok"

Severity == [ok |-> 0, low |-> 1, critical |-> 2]

Worse(a, b) == IF Severity[b] > Severity[a] THEN b ELSE a

(* Watch.                                                                  *)
WatchLevel(library, free) ==
  Worse(IF MaxSize > 0 THEN LevelFor(MaxSize - library, MaxSize) ELSE "ok",
        IF MinFree > 0 THEN LevelFor(free - MinFree, MinFree) ELSE "ok")

Fits(estimate, headroom, limit) == limit > 0 => estimate + CriticalMargin(limit) <= headroom

(* An admission that asks for the estimate alone.                          *)
AdmitEstimate(library, free, estimate) ==
  (MaxSize > 0 => estimate <= MaxSize - library) /\ (MinFree > 0 => estimate <= free - MinFree)

(* Admit: the estimate, and the margin the watermark stops a capture in.   *)
Admit(library, free, estimate) ==
  /\ Fits(estimate, MaxSize - library, MaxSize)
  /\ Fits(estimate, free - MinFree, MinFree)

----------------------------------------------------------------------------
(* usage                                                                   *)

Idle == [at |-> "idle", bytes |-> 0, total |-> 0, expected |-> 0, crowded |-> FALSE]

(* TotalBytes: a row's size, purged or not.                                *)
TotalBytes == kept + Len(trash)

(* inFlightBytes: what the captures have written.                          *)
InFlight ==
  LET sum[c \in 0 .. Broadcasters] == IF c = 0 THEN 0 ELSE taking[c].bytes + sum[c - 1]
  IN  sum[Broadcasters]

FreeBytes == Volume - foreign - TotalBytes - InFlight

Level == WatchLevel(TotalBytes + InFlight, FreeBytes)

(* From here on the admissions already read are out of date: c, or another *)
(* program, takes bytes nobody counted.                                    *)
Crowd(c) == [d \in Broadcaster |-> [taking[d] EXCEPT !.crowded = @ \/ d # c]]

----------------------------------------------------------------------------
(* A cycle of one channel                                                  *)

(* usage reads the rows first, and the captures in flight afterwards.      *)
ReadTotal(c) ==
  /\ taking[c].at = "idle"
  /\ taking' = [taking EXCEPT ![c] = [Idle EXCEPT !.at = "counting", !.total = TotalBytes]]
  /\ UNCHANGED <<kept, trash, foreign, level, releasing>>

(* admit, against the channel's own rate or the generic one.               *)
Decide(c) ==
  /\ taking[c].at = "counting"
  /\ \E estimate \in Expected :
       taking' = [taking EXCEPT ![c] =
                    IF Admit(taking[c].total + InFlight, FreeBytes, estimate)
                    THEN [@ EXCEPT !.at = "waiting", !.expected = estimate] ELSE Idle]
  /\ UNCHANGED <<kept, trash, foreign, level, releasing>>

(* acquireSlot: the capture begins on what was read before the wait.       *)
Begin(c) ==
  /\ taking[c].at = "waiting"
  /\ taking' = [taking EXCEPT ![c].at = "capturing"]
  /\ UNCHANGED <<kept, trash, foreign, level, releasing>>

Write(c) ==
  /\ taking[c].at = "capturing" /\ FreeBytes > 0
  /\ taking' = [Crowd(c) EXCEPT ![c].bytes = @ + 1]
  /\ UNCHANGED <<kept, trash, foreign, level, releasing>>

(* FinishRecording gives the row its size as it leaves capturing.          *)
FinishRecording(c) ==
  /\ kept' = kept + taking[c].bytes
  /\ taking' = [Crowd(c) EXCEPT ![c] = Idle]
  /\ UNCHANGED <<trash, foreign, level, releasing>>

(* The watermark ends a capture at the limit; the broadcast may end first. *)
Stop(c) == taking[c].at = "capturing" /\ Level = "critical" /\ FinishRecording(c)
GoOffAir(c) == taking[c].at = "capturing" /\ FinishRecording(c)

----------------------------------------------------------------------------
(* idleSpaceLoop                                                           *)

(* The expired purges lead the trash: both go by the time of the purge.    *)
Expired == Cardinality({i \in DOMAIN trash : trash[i]})

NoPass == [due |-> 0, held |-> 0]

(* What releaseTrash reads: the purges past their grace, or at the limit   *)
(* every purge.                                                            *)
Due == IF Level = "critical" THEN Len(trash) ELSE Expired

(* A loop that spends the trash when it reports a level, and never again.  *)
CheckSpaceOnChange ==
  /\ releasing = NoPass
  /\ level' = Level
  /\ releasing' = IF Level = "ok" \/ Level = level THEN NoPass ELSE [NoPass EXCEPT !.due = Due]
  /\ UNCHANGED <<kept, trash, taking, foreign>>

(* checkSpace: the level, and a pass over the trash under pressure.        *)
CheckSpace ==
  /\ releasing = NoPass
  /\ level' = Level
  /\ releasing' = IF Level = "ok" THEN NoPass ELSE [NoPass EXCEPT !.due = Due]
  /\ UNCHANGED <<kept, trash, taking, foreign>>

Without(s, i) == SubSeq(s, 1, i - 1) \o SubSeq(s, i + 1, Len(s))

(* One purge finished, and the usage read again: the pass ends where the   *)
(* level clears.                                                           *)
Release ==
  /\ releasing.due > 0
  /\ trash' = Without(trash, releasing.held + 1)
  /\ level' = WatchLevel(TotalBytes - 1 + InFlight, FreeBytes + 1)
  /\ releasing' = IF level' = "ok" \/ releasing.due = 1 THEN NoPass
                  ELSE [releasing EXCEPT !.due = @ - 1]
  /\ UNCHANGED <<kept, taking, foreign>>

(* A recording the organizer is busy with comes round on the next tick.    *)
Busy ==
  /\ releasing.due > 0
  /\ releasing' = IF releasing.due = 1 THEN NoPass
                  ELSE [due |-> releasing.due - 1, held |-> releasing.held + 1]
  /\ UNCHANGED <<kept, trash, taking, foreign, level>>

----------------------------------------------------------------------------
(* The operator, the clock and the rest of the volume                      *)

Purge ==
  /\ kept > 0 /\ Len(trash) < MaxTrash
  /\ kept' = kept - 1 /\ trash' = Append(trash, FALSE)
  /\ UNCHANGED <<taking, foreign, level, releasing>>

(* An undo; the pass finds the row restored and passes over it.            *)
Undo(i) ==
  /\ trash' = Without(trash, i) /\ kept' = kept + 1
  /\ releasing' = IF i <= releasing.held THEN [releasing EXCEPT !.held = @ - 1]
                  ELSE IF i > releasing.held + releasing.due THEN releasing
                  ELSE IF releasing.due = 1 THEN NoPass ELSE [releasing EXCEPT !.due = @ - 1]
  /\ UNCHANGED <<taking, foreign, level>>

Expire ==
  /\ Expired < Len(trash)
  /\ trash' = [trash EXCEPT ![Expired + 1] = TRUE]
  /\ UNCHANGED <<kept, taking, foreign, level, releasing>>

OtherProgram ==
  /\ \/ FreeBytes > 0 /\ foreign' = foreign + 1
        /\ taking' = [c \in Broadcaster |-> [taking[c] EXCEPT !.crowded = TRUE]]
     \/ foreign > 0 /\ foreign' = foreign - 1 /\ UNCHANGED taking
  /\ UNCHANGED <<kept, trash, level, releasing>>

BudgetInit ==
  /\ kept = 0 /\ trash = <<>> /\ foreign = 0 /\ level = "ok"
  /\ taking = [c \in Broadcaster |-> Idle] /\ releasing = NoPass

BudgetNext ==
  \/ \E c \in Broadcaster :
       ReadTotal(c) \/ Decide(c) \/ Begin(c) \/ Write(c) \/ Stop(c) \/ GoOffAir(c)
  \/ CheckSpace \/ Release \/ Busy \/ Purge \/ Expire \/ OtherProgram
  \/ \E i \in DOMAIN trash : Undo(i)

(* The ticker of the idle loop, and an organizer that is not busy for ever.*)
BudgetFairness ==
  /\ WF_budget(CheckSpace) /\ SF_budget(Release)
  /\ \A i \in 1 .. MaxTrash : WF_budget(i = Expired /\ Expire)

BudgetSpec == BudgetInit /\ [][BudgetNext]_budget /\ BudgetFairness

----------------------------------------------------------------------------

(* space.go, Admit: no broadcast is let into the margin that ends its      *)
(* capture "on its first check".  One nothing crowds is not stopped at the *)
(* watermark before it has taken what it was expected to take.             *)
AdmittedFits ==
  \A c \in Broadcaster :
    (taking[c].at = "capturing" /\ ~taking[c].crowded /\ taking[c].bytes < taking[c].expected)
      => Level # "critical"

(* releaseTrash: while the library is at its warning and a purge is past   *)
(* its grace, or is at its limit and holds any purge, purges are finished: *)
(* a level that persists, which is reported once, is not looked at once.   *)
TrashYields ==
  \/ []<>(Level = "ok" \/ Due = 0)
  \/ []<><<Release>>_budget
=============================================================================
