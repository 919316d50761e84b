------------------------------ MODULE Recovery ------------------------------
(***************************************************************************)
(* Automatic recovery: internal/daemon/recover.go, and the round it runs,  *)
(* cmd/stream-dvr/serve.go (buildRecovery).  Failed probes date an outage, *)
(* an outage that ends queues a window, and one goroutine runs rounds over *)
(* the earliest window queued, standing aside for every capture.           *)
(*                                                                         *)
(* Time is a count of stretches, each long enough to miss a broadcast in   *)
(* (outageFloor), all of them within recoveryHorizon.  A window reaches    *)
(* from a stretch up to now.  Each channel is on a platform of its own.    *)
(***************************************************************************)
EXTENDS CaptureMarks, Integers

CONSTANTS MaxNow,       \* bound: the last instant of the model
          Settle        \* backfill.settle, in stretches

ASSUME RecoveryAssumption ==
  /\ MaxNow \in Nat \ {0}
  /\ Settle \in Nat \ {0}

VARIABLES now,
          downAt,       \* the last heartbeat of a process that ended
          probed,       \* Daemon.probed: what the last poll established
          outage,       \* Daemon.outages: when the run of failures began
          pend,         \* Daemon.recoveryFrom, Unasked when nothing is queued
          wake,         \* Daemon.recoveryWake, a channel that holds one poke
          recent,       \* the last round ended less than the pacing ago
          round,        \* the goroutine of recoveryLoop
          lost,         \* stretches missed of each channel and not recovered
          owed          \* history: stretches this process knows it missed and
                        \* no round that finished has covered

timeVars == <<now, downAt>>
probeVars == <<probed, outage>>
vars == <<alive, mark, now, downAt, probed, outage, pend, wake, recent,
          round, lost, owed>>

Time == 0 .. MaxNow
Unasked == MaxNow + 1

Round(pc, from, at, platforms, cancelled) ==
  [pc |-> pc, from |-> from, at |-> at, platforms |-> platforms, cancelled |-> cancelled]

Idle == Round("idle", 0, 0, {}, FALSE)
JustWoken == Round("woken", 0, 0, {}, FALSE)

Earlier(a, b) == IF a < b THEN a ELSE b

(* Mutant of Queue: the last request wins.                                 *)
QueueLast(from) == pend' = from /\ wake' = TRUE

(* queueRecovery: requests coalesce into the one that reaches furthest.    *)
Queue(from) ==
  /\ pend' = Earlier(pend, from)
  /\ wake' = (wake \/ from < pend)

Refused(c) == probed[c] = "refused"

----------------------------------------------------------------------------
(* Probes *)

(* Only the first failure of a run dates the outage.                       *)
ProbeFails(c) ==
  /\ alive /\ mark[c] = "none"
  /\ probed' = [probed EXCEPT ![c] = "refused"]
  /\ outage' = IF Refused(c) THEN outage ELSE [outage EXCEPT ![c] = now]
  /\ UNCHANGED <<alive, mark, timeVars, pend, wake, recent, round, lost, owed>>

(* An answer ends the outage, and pokes the loop while a round is queued.  *)
ProbeAnswers(c) ==
  /\ alive /\ mark[c] = "none"
  /\ probed' = [probed EXCEPT ![c] = "answered"]
  /\ pend' = IF Refused(c) /\ outage[c] < now THEN Earlier(pend, outage[c]) ELSE pend
  /\ outage' = [outage EXCEPT ![c] = 0]
  /\ wake' = (wake \/ pend' # Unasked)
  /\ UNCHANGED <<alive, mark, timeVars, recent, round, lost, owed>>

----------------------------------------------------------------------------
(* The recovery loop *)

(* Mutant of RoutineRound: it asks for the last stretch only.              *)
RoutineRoundRecent ==
  /\ alive /\ round.pc = "idle"
  /\ Queue(IF now = 0 THEN 0 ELSE now - 1)
  /\ round' = JustWoken
  /\ UNCHANGED <<alive, mark, timeVars, probeVars, recent, lost, owed>>

(* The ticker asks for the whole horizon.                                  *)
RoutineRound ==
  /\ alive /\ round.pc = "idle"
  /\ Queue(0)
  /\ round' = JustWoken
  /\ UNCHANGED <<alive, mark, timeVars, probeVars, recent, lost, owed>>

Woken ==
  /\ alive /\ round.pc = "idle" /\ wake
  /\ wake' = FALSE
  /\ round' = JustWoken
  /\ UNCHANGED <<alive, mark, timeVars, probeVars, pend, recent, lost, owed>>

Reachable == {c \in Channel : probed[c] = "answered"}

(* recoveryHeldBy.                                                         *)
Held == pend = Unasked \/ AnyCapturing \/ recent \/ Reachable = {}

Gate ==
  /\ round.pc = "woken"
  /\ round' = IF Held THEN Idle ELSE Round("gated", 0, 0, Reachable, FALSE)
  /\ UNCHANGED <<alive, mark, timeVars, probeVars, pend, wake, recent, lost, owed>>

(* takeRecovery and boundRound: a window that covers nothing is dropped.   *)
Take ==
  /\ round.pc = "gated"
  /\ round' = IF pend < now THEN Round("taken", pend, 0, round.platforms, FALSE) ELSE Idle
  /\ pend' = Unasked
  /\ UNCHANGED <<alive, mark, timeVars, probeVars, wake, recent, lost, owed>>

(* One the store could not bound is queued again, paced like a round.      *)
TakeFails ==
  /\ round.pc = "gated"
  /\ wake' = TRUE /\ recent' = TRUE
  /\ round' = Idle
  /\ UNCHANGED <<alive, mark, timeVars, probeVars, pend, lost, owed>>

(* holdRoundCancel.                                                        *)
Install ==
  /\ round.pc = "taken"
  /\ round' = [round EXCEPT !.pc = "installed"]
  /\ UNCHANGED <<alive, mark, timeVars, probeVars, pend, wake, recent, lost, owed>>

(* Mutant of Recheck: the captures are not looked for again.               *)
RecheckNothing ==
  /\ round.pc = "installed"
  /\ round' = Round("running", round.from, now, round.platforms, round.cancelled)
  /\ UNCHANGED <<alive, mark, timeVars, probeVars, pend, wake, recent, lost, owed>>

(* A capture that found no cancel to call is looked for once more.         *)
Recheck ==
  /\ round.pc = "installed"
  /\ round' = Round("running", round.from, now, round.platforms,
                    round.cancelled \/ AnyCapturing)
  /\ UNCHANGED <<alive, mark, timeVars, probeVars, pend, wake, recent, lost, owed>>

(* stopRound.                                                              *)
StopRound(c) ==
  /\ TellRound(c)
  /\ round' = IF round.pc \in {"installed", "running"}
              THEN [round EXCEPT !.cancelled = TRUE] ELSE round
  /\ UNCHANGED <<timeVars, probeVars, pend, wake, recent, lost, owed>>

(* A round finishes when nothing failed and nothing was deferred, which    *)
(* every channel it could not reach is.  What settled it may recover; what *)
(* has not settled, or waits out a backoff, it passes over.                *)
Covered(s) == s[1] \in round.platforms /\ round.from <= s[2] /\ s[2] < round.at

RoundFinishes(recovers) ==
  /\ round.pc = "running" /\ ~round.cancelled /\ round.platforms = Channel
  /\ lost' = {s \in lost : ~(recovers /\ Covered(s) /\ s[2] + Settle <= round.at)}
  /\ owed' = {s \in owed : ~Covered(s)}
  /\ recent' = TRUE
  /\ round' = Idle
  /\ UNCHANGED <<alive, mark, timeVars, probeVars, pend, wake>>

(* Cancelled, out of time, failed, or left with work it had to defer.      *)
RoundRequeues ==
  /\ round.pc = "running"
  /\ Queue(round.from)
  /\ recent' = TRUE
  /\ round' = Idle
  /\ UNCHANGED <<alive, mark, timeVars, probeVars, lost, owed>>

PacePasses ==
  /\ recent
  /\ recent' = FALSE
  /\ UNCHANGED <<alive, mark, timeVars, probeVars, pend, wake, round, lost, owed>>

----------------------------------------------------------------------------
(* Captures, the process and time *)

CaptureStep(c) ==
  /\ Note(c) \/ EngineStarts(c) \/ EngineEnds(c) \/ Forget(c)
  /\ UNCHANGED <<timeVars, probeVars, pend, wake, recent, round, lost, owed>>

(* Everything recovery knows is in memory.                                 *)
Crash ==
  /\ ProcessEnds
  /\ downAt' = now
  /\ probed' = [c \in Channel |-> "never"]
  /\ outage' = [c \in Channel |-> 0]
  /\ pend' = Unasked /\ wake' = FALSE /\ recent' = FALSE
  /\ round' = Idle
  /\ owed' = {}
  /\ UNCHANGED <<now, lost>>

(* requestDowntimeRecovery.                                                *)
Start ==
  /\ ProcessStarts
  /\ IF downAt < now THEN Queue(downAt) ELSE UNCHANGED <<pend, wake>>
  /\ owed' = Channel \X (downAt .. now - 1)
  /\ downAt' = 0
  /\ UNCHANGED <<now, probeVars, recent, round, lost>>

Tick ==
  LET missed == {c \in Channel : ~alive \/ Refused(c)} \X {now}
  IN  /\ now < MaxNow
      /\ now' = now + 1
      /\ lost' = lost \cup missed
      /\ owed' = IF alive THEN owed \cup missed ELSE owed
      /\ UNCHANGED <<alive, mark, downAt, probeVars, pend, wake, recent, round>>

Init ==
  /\ MarksInit
  /\ now = 0 /\ downAt = 0
  /\ probed = [c \in Channel |-> "never"]
  /\ outage = [c \in Channel |-> 0]
  /\ pend = Unasked /\ wake = FALSE /\ recent = FALSE
  /\ round = Idle
  /\ lost = {} /\ owed = {}

Loop == Gate \/ Take \/ Install \/ Recheck

Next ==
  \/ \E c \in Channel : \/ ProbeFails(c) \/ ProbeAnswers(c)
                        \/ CaptureStep(c) \/ StopRound(c)
  \/ RoutineRound \/ Woken \/ Loop \/ TakeFails
  \/ \E recovers \in BOOLEAN : RoundFinishes(recovers)
  \/ RoundRequeues \/ PacePasses
  \/ Crash \/ Start \/ Tick

Spec == Init /\ [][Next]_vars

(* The loop, its ticker and the polls run as long as the process does; the *)
(* store is not always busy, and the platforms do not refuse every round   *)
(* over the whole horizon for ever.                                        *)
FairSpec ==
  /\ Spec
  /\ WF_vars(Tick) /\ WF_vars(PacePasses)
  /\ \A c \in Channel : WF_vars(ProbeAnswers(c))
  /\ WF_vars(Woken) /\ SF_vars(RoutineRound)
  /\ WF_vars(Loop) /\ SF_vars(Take)
  /\ WF_vars(RoundRequeues)
  /\ SF_vars(round.from = 0 /\ RoundFinishes(TRUE))

----------------------------------------------------------------------------
(* Properties *)

RoundType ==
  [pc : {"idle", "woken", "gated", "taken", "installed", "running"},
   from : Time, at : Time, platforms : SUBSET Channel, cancelled : BOOLEAN]

TypeOK ==
  /\ alive \in BOOLEAN /\ mark \in [Channel -> Mark]
  /\ now \in Time /\ downAt \in Time
  /\ probed \in [Channel -> {"never", "answered", "refused"}]
  /\ outage \in [Channel -> Time]
  /\ \A c \in Channel : outage[c] # 0 => Refused(c)
  /\ pend \in Time \cup {Unasked}
  /\ wake \in BOOLEAN /\ recent \in BOOLEAN
  /\ round \in RoundType
  /\ lost \subseteq Channel \X Time /\ owed \subseteq Channel \X Time

(* recover.go, runRecovery: "a capture is either seen here or late enough  *)
(* to find it".  No engine writes beside a round that nobody cancelled.    *)
NoRoundBesideCapture ==
  \A c \in Channel : mark[c] = "writing" /\ round.pc = "running" => round.cancelled

(* recover.go, queueRecovery and runRecovery: whatever this process knows  *)
(* it missed lies within a window that is queued or being fetched, or in   *)
(* an outage that is still going on, until a round over it finishes.       *)
WindowKept ==
  \A s \in owed :
    \/ pend <= s[2]
    \/ round.pc \in {"taken", "installed", "running"} /\ round.from <= s[2]
    \/ Refused(s[1]) /\ outage[s[1]] <= s[2]

Calm == alive /\ \A c \in Channel : mark[c] = "none" /\ ~Refused(c)

(* recover.go, recoveryHorizon: a crash loses every window, "the routine   *)
(* round has to reach the whole way back".  Once nothing goes wrong any    *)
(* more, everything missed that may settle is recovered.                   *)
LostIsRecovered ==
  <>[]Calm => <>[](\A s \in lost : s[2] + Settle > MaxNow)
=============================================================================
