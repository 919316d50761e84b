--------------------------- MODULE RecoveryProofs ---------------------------
(***************************************************************************)
(* Theorems about Recovery, for every set of channels, every bound of the  *)
(* clock and every settling time.                                          *)
(***************************************************************************)
EXTENDS Recovery, TLAPS

(* A round that runs beside a capture which was told of is cancelled:      *)
(* either the capture found it installed, or the round found the capture.  *)
StopInv ==
  /\ TypeOK
  /\ \A c \in Channel :
       mark[c] \in {"told", "writing"} /\ round.pc = "running" => round.cancelled

(* What a stretch this process knows it missed lies in.  A round that runs *)
(* reaches up to the instant it began.                                     *)
InRound(s) ==
  /\ round.from <= s[2]
  /\ \/ round.pc \in {"taken", "installed"}
     \/ round.pc = "running" /\ s[2] < round.at

InOutage(s) == Refused(s[1]) /\ outage[s[1]] <= s[2]

Somewhere(s) == pend <= s[2] \/ InRound(s) \/ InOutage(s)

WindowInv ==
  /\ TypeOK
  /\ \A c \in Channel : outage[c] <= now
  /\ \A s \in owed : s[2] < now /\ Somewhere(s)

----------------------------------------------------------------------------
(* Helpers *)

LEMMA RoundOfType ==
  ASSUME NEW pc \in {"idle", "woken", "gated", "taken", "installed", "running"},
         NEW from \in Time, NEW at \in Time,
         NEW platforms \in SUBSET Channel, NEW cancelled \in BOOLEAN
  PROVE  Round(pc, from, at, platforms, cancelled) \in RoundType
  BY DEF Round, RoundType

LEMMA TimeFacts ==
  /\ MaxNow \in Nat /\ MaxNow # 0
  /\ Time \subseteq Int /\ 0 \in Time
  /\ Unasked \in Int /\ \A t \in Time : t >= 0 /\ t < Unasked
  BY RecoveryAssumption DEF Time, Unasked

LEMMA IdleType == Idle \in RoundType /\ JustWoken \in RoundType
  BY RoundOfType, TimeFacts DEF Idle, JustWoken

LEMMA QueueType ==
  ASSUME NEW from \in Time, TypeOK, Queue(from)
  PROVE  /\ pend' \in Time \cup {Unasked} /\ wake' \in BOOLEAN
         /\ pend' <= pend /\ pend' <= from
  BY TimeFacts DEF Queue, Earlier, TypeOK

----------------------------------------------------------------------------

LEMMA TypeInit == Init => TypeOK
<1> SUFFICES ASSUME Init PROVE TypeOK
  OBVIOUS
<1>1. round \in RoundType
  BY IdleType DEF Init
<1>2. pend \in Time \cup {Unasked}
  BY DEF Init
<1>3. now \in Time /\ downAt \in Time /\ outage \in [Channel -> Time]
  BY TimeFacts DEF Init
<1> QED
  BY <1>1, <1>2, <1>3 DEF Init, MarksInit, TypeOK, Mark

(* Each step keeps every variable in its type, and an outage a channel     *)
(* remembers belongs to a platform that refused the last poll.             *)
LEMMA TypeStep == TypeOK /\ [Next]_vars => TypeOK'
<1> SUFFICES ASSUME TypeOK, [Next]_vars PROVE TypeOK'
  OBVIOUS
<1> USE TimeFacts DEF timeVars, probeVars
<1>1. ASSUME NEW c \in Channel, ProbeFails(c) PROVE TypeOK'
  BY <1>1 DEF TypeOK, ProbeFails, Refused
<1>2. ASSUME NEW c \in Channel, ProbeAnswers(c) PROVE TypeOK'
  <2>1. pend' \in Time \cup {Unasked} /\ wake' \in BOOLEAN
    BY <1>2 DEF TypeOK, ProbeAnswers, Earlier
  <2>2. /\ outage' \in [Channel -> Time]
        /\ probed' \in [Channel -> {"never", "answered", "refused"}]
        /\ \A d \in Channel : outage'[d] # 0 => probed'[d] = "refused"
    BY <1>2 DEF TypeOK, ProbeAnswers, Refused
  <2> QED
    BY <1>2, <2>1, <2>2 DEF TypeOK, ProbeAnswers, Refused
<1>3. ASSUME NEW c \in Channel, CaptureStep(c) PROVE TypeOK'
  BY <1>3 DEF TypeOK, CaptureStep, Note, EngineStarts, EngineEnds, Forget,
              Marked, Mark, Refused
<1>4. ASSUME NEW c \in Channel, StopRound(c) PROVE TypeOK'
  <2>1. round' \in RoundType
    BY <1>4 DEF TypeOK, StopRound, RoundType
  <2> QED
    BY <1>4, <2>1 DEF TypeOK, StopRound, TellRound, Marked, Mark, Refused
<1>5. CASE RoutineRound
  <2>1. pend' \in Time \cup {Unasked} /\ wake' \in BOOLEAN
    BY <1>5, QueueType DEF RoutineRound
  <2> QED
    BY <1>5, <2>1, IdleType DEF TypeOK, RoutineRound, Refused
<1>6. CASE Woken
  BY <1>6, IdleType DEF TypeOK, Woken, Refused
<1>7. CASE Gate
  <2>1. Round("gated", 0, 0, Reachable, FALSE) \in RoundType
    BY RoundOfType DEF Reachable
  <2>2. round' \in RoundType
    BY <1>7, <2>1, IdleType DEF Gate
  <2>3. UNCHANGED <<alive, mark, timeVars, probeVars, pend, wake, recent, lost, owed>>
    BY <1>7 DEF Gate
  <2> QED
    BY <2>2, <2>3 DEF TypeOK, Refused
<1>8. CASE Take
  <2>1. pend < now => Round("taken", pend, 0, round.platforms, FALSE) \in RoundType
    <3>1. pend < now => pend \in Time
      BY DEF TypeOK
    <3>2. round.platforms \in SUBSET Channel
      BY DEF TypeOK, RoundType
    <3> QED
      BY <3>1, <3>2, RoundOfType
  <2> QED
    BY <1>8, <2>1, IdleType DEF TypeOK, Take, Refused
<1>9. CASE TakeFails
  BY <1>9, IdleType DEF TypeOK, TakeFails, Refused
<1>10. CASE Install
  <2>1. round' \in RoundType
    BY <1>10 DEF TypeOK, Install, RoundType
  <2> QED
    BY <1>10, <2>1 DEF TypeOK, Install, Refused
<1>11. CASE Recheck
  <2>1. AnyCapturing \in BOOLEAN /\ (round.cancelled \/ AnyCapturing) \in BOOLEAN
    BY DEF AnyCapturing
  <2>2. round.from \in Time /\ now \in Time /\ round.platforms \in SUBSET Channel
    BY DEF TypeOK, RoundType
  <2>3. round' \in RoundType
    BY <1>11, <2>1, <2>2, RoundOfType DEF Recheck
  <2> QED
    BY <1>11, <2>3 DEF TypeOK, Recheck, Refused
<1>12. ASSUME NEW recovers \in BOOLEAN, RoundFinishes(recovers) PROVE TypeOK'
  BY <1>12, IdleType DEF TypeOK, RoundFinishes, Refused
<1>13. CASE RoundRequeues
  <2>1. round.from \in Time
    BY DEF TypeOK, RoundType
  <2>2. pend' \in Time \cup {Unasked} /\ wake' \in BOOLEAN
    BY <1>13, <2>1, QueueType DEF RoundRequeues
  <2> QED
    BY <1>13, <2>2, IdleType DEF TypeOK, RoundRequeues, Refused
<1>14. CASE PacePasses
  BY <1>14 DEF TypeOK, PacePasses, Refused
<1>15. CASE Crash
  <2>1. pend' \in Time \cup {Unasked} /\ now \in Time
    BY <1>15 DEF Crash, TypeOK
  <2> QED
    BY <1>15, <2>1, IdleType DEF TypeOK, Crash, ProcessEnds, Mark, Refused
<1>16. CASE Start
  <2>1. pend' \in Time \cup {Unasked} /\ wake' \in BOOLEAN
    <3>1. CASE downAt < now
      BY <1>16, <3>1, QueueType DEF Start, TypeOK
    <3>2. CASE ~(downAt < now)
      BY <1>16, <3>2 DEF Start, TypeOK
    <3> QED
      BY <3>1, <3>2
  <2>2. owed' \subseteq Channel \X Time
    BY <1>16 DEF Start, TypeOK, Time
  <2> QED
    BY <1>16, <2>1, <2>2 DEF TypeOK, Start, ProcessStarts, Refused
<1>17. CASE Tick
  <2>1. now' \in Time
    BY <1>17 DEF Tick, TypeOK, Time
  <2>2. lost' \subseteq Channel \X Time /\ owed' \subseteq Channel \X Time
    BY <1>17 DEF Tick, TypeOK
  <2> QED
    BY <1>17, <2>1, <2>2 DEF TypeOK, Tick, Refused
<1>18. CASE UNCHANGED vars
  BY <1>18 DEF TypeOK, vars, Refused
<1>19. Next \/ UNCHANGED vars
  OBVIOUS
<1> QED
  BY <1>19, <1>1, <1>2, <1>3, <1>4, <1>5, <1>6, <1>7, <1>8, <1>9, <1>10, <1>11,
     <1>12, <1>13, <1>14, <1>15, <1>16, <1>17, <1>18 DEF Next, Loop

(* The windows, the round and the marks are always of their types.         *)
THEOREM TypeCorrect == Spec => []TypeOK
<1>1. Init => TypeOK
  BY TypeInit
<1>2. TypeOK /\ [Next]_vars => TypeOK'
  BY TypeStep
<1> QED
  BY <1>1, <1>2, PTL DEF Spec

----------------------------------------------------------------------------

LEMMA StopStep == StopInv /\ [Next]_vars => StopInv'
<1> SUFFICES ASSUME StopInv, [Next]_vars PROVE StopInv'
  OBVIOUS
<1>t. TypeOK /\ TypeOK'
  BY TypeStep DEF StopInv
<1> DEFINE Told(c) == mark[c] \in {"told", "writing"}
<1> SUFFICES ASSUME NEW d \in Channel, Told(d)', round'.pc = "running"
             PROVE  round'.cancelled
  BY <1>t DEF StopInv
<1>s. Told(d) /\ round.pc = "running" => round.cancelled
  BY DEF StopInv
<1> USE DEF timeVars, probeVars
<1>1. ASSUME NEW c \in Channel, CaptureStep(c) PROVE round'.cancelled
  BY <1>1, <1>s, <1>t DEF CaptureStep, Note, EngineStarts, EngineEnds, Forget,
                          Marked, TypeOK
<1>2. ASSUME NEW c \in Channel, StopRound(c) PROVE round'.cancelled
  BY <1>2, <1>t DEF StopRound, TellRound, TypeOK, RoundType
<1>3. CASE Recheck
  <2>1. AnyCapturing
    BY <1>3 DEF Recheck, AnyCapturing
  <2> QED
    BY <1>3, <2>1 DEF Recheck, Round
<1>4. CASE Install
  BY <1>4, <1>t DEF Install, TypeOK, RoundType
<1>5. CASE Gate \/ Take \/ TakeFails \/ Woken \/ RoutineRound \/ RoundRequeues
             \/ (\E recovers \in BOOLEAN : RoundFinishes(recovers)) \/ Crash
  BY <1>5 DEF Gate, Take, TakeFails, Woken, RoutineRound, RoundRequeues,
              RoundFinishes, Crash, Idle, JustWoken, Round
<1>6. ASSUME NEW c \in Channel, ProbeFails(c) \/ ProbeAnswers(c)
      PROVE  round'.cancelled
  BY <1>6, <1>s DEF ProbeFails, ProbeAnswers
<1>7. CASE PacePasses \/ Start \/ Tick
  BY <1>7, <1>s DEF PacePasses, Start, ProcessStarts, Tick
<1>8. CASE UNCHANGED vars
  BY <1>8, <1>s DEF vars
<1>9. Next \/ UNCHANGED vars
  OBVIOUS
<1> QED
  BY <1>9, <1>1, <1>2, <1>3, <1>4, <1>5, <1>6, <1>7, <1>8 DEF Next, Loop

(* No engine writes beside a recovery round that nobody cancelled, however *)
(* the two meet between the check for captures and the round.              *)
THEOREM NoRoundBesideACapture == Spec => []NoRoundBesideCapture
<1>1. Init => StopInv
  <2>1. Init => \A c \in Channel : mark[c] = "none"
    BY DEF Init, MarksInit
  <2> QED
    BY <2>1, TypeInit DEF StopInv
<1>2. StopInv /\ [Next]_vars => StopInv'
  BY StopStep
<1>3. StopInv => NoRoundBesideCapture
  BY DEF StopInv, NoRoundBesideCapture
<1> QED
  BY <1>1, <1>2, <1>3, PTL DEF Spec

----------------------------------------------------------------------------
(* What a process knows it missed is not forgotten                         *)

(* No outage begins in the future.                                         *)
LEMMA OutageStep ==
  TypeOK /\ (\A c \in Channel : outage[c] <= now) /\ [Next]_vars
    => \A c \in Channel : outage'[c] <= now'
<1> SUFFICES ASSUME TypeOK, \A c \in Channel : outage[c] <= now, [Next]_vars,
                    NEW d \in Channel
             PROVE  outage'[d] <= now'
  OBVIOUS
<1> USE TimeFacts DEF timeVars, probeVars
<1>1. ASSUME NEW c \in Channel, ProbeFails(c) \/ ProbeAnswers(c) PROVE outage'[d] <= now'
  BY <1>1 DEF ProbeFails, ProbeAnswers, TypeOK
<1>2. CASE Crash
  BY <1>2 DEF Crash, TypeOK
<1>3. CASE Tick
  <2>1. outage'[d] = outage[d] /\ outage[d] \in Int /\ now \in Int /\ now' = now + 1
    BY <1>3 DEF Tick, TypeOK
  <2> QED
    BY <2>1
<1>4. CASE UNCHANGED <<now, outage>>
  BY <1>4
<1>5. Next \/ UNCHANGED vars
  OBVIOUS
<1>6. ASSUME NEW c \in Channel, CaptureStep(c) \/ StopRound(c)
      PROVE  UNCHANGED <<now, outage>>
  BY <1>6 DEF CaptureStep, StopRound
<1>7. ASSUME NEW recovers \in BOOLEAN, RoundFinishes(recovers)
      PROVE  UNCHANGED <<now, outage>>
  BY <1>7 DEF RoundFinishes
<1>8. ASSUME RoutineRound \/ Woken \/ Loop \/ TakeFails \/ RoundRequeues \/ PacePasses \/ Start
      PROVE  UNCHANGED <<now, outage>>
  BY <1>8 DEF RoutineRound, Woken, Loop, Gate, Take, Install, Recheck, TakeFails,
              RoundRequeues, PacePasses, Start
<1>9. UNCHANGED vars => UNCHANGED <<now, outage>>
  BY DEF vars
<1> QED
  BY <1>5, <1>1, <1>2, <1>3, <1>4, <1>6, <1>7, <1>8, <1>9 DEF Next

(* Every stretch owed stays in a queued window, in the round's, or in an   *)
(* outage: an answer moves it from the outage to the queue, taking a round *)
(* from the queue to the round, and a round that does not finish, back.    *)
LEMMA WindowStep == WindowInv /\ [Next]_vars => WindowInv'
<1> SUFFICES ASSUME WindowInv, [Next]_vars PROVE WindowInv'
  OBVIOUS
<1>t. TypeOK /\ TypeOK'
  BY TypeStep DEF WindowInv
<1>o. \A c \in Channel : outage'[c] <= now'
  BY OutageStep DEF WindowInv
<1> SUFFICES ASSUME NEW s \in owed' PROVE s[2] < now' /\ Somewhere(s)'
  BY <1>t, <1>o DEF WindowInv
<1>s. s[1] \in Channel /\ s[2] \in Time /\ s[2] \in Int /\ now \in Int /\ now' \in Int
      /\ pend \in Int /\ pend' \in Int /\ s[2] >= 0
      /\ round.from \in Int /\ round.at \in Int
      /\ \A c \in Channel : outage[c] \in Int
  BY <1>t, TimeFacts DEF TypeOK, RoundType
<1>w. s \in owed => s[2] < now /\ Somewhere(s)
  BY DEF WindowInv
<1> USE DEF timeVars, probeVars
<1>1. ASSUME NEW c \in Channel, ProbeFails(c) PROVE s[2] < now' /\ Somewhere(s)'
  BY <1>1, <1>s, <1>w, <1>t DEF ProbeFails, Somewhere, InRound, InOutage, Refused, TypeOK
<1>2. ASSUME NEW c \in Channel, ProbeAnswers(c) PROVE s[2] < now' /\ Somewhere(s)'
  <2>1. pend' <= pend /\ (Refused(c) /\ outage[c] < now => pend' <= outage[c])
    BY <1>2, <1>s DEF ProbeAnswers, Earlier
  <2>2. s[2] < now /\ Somewhere(s) /\ now' = now
    BY <1>2, <1>w DEF ProbeAnswers
  <2>3. CASE pend <= s[2]
    BY <2>1, <2>2, <2>3, <1>s DEF Somewhere
  <2>4. CASE InRound(s)
    BY <1>2, <2>2, <2>4 DEF ProbeAnswers, Somewhere, InRound
  <2>5. CASE InOutage(s) /\ s[1] = c
    BY <2>1, <2>2, <2>5, <1>s DEF Somewhere, InOutage
  <2>6. CASE InOutage(s) /\ s[1] # c
    BY <1>2, <2>2, <2>6, <1>s, <1>t DEF ProbeAnswers, Somewhere, InOutage, Refused, TypeOK
  <2> QED
    BY <2>2, <2>3, <2>4, <2>5, <2>6 DEF Somewhere
<1>3. ASSUME NEW c \in Channel, CaptureStep(c) PROVE s[2] < now' /\ Somewhere(s)'
  BY <1>3, <1>w DEF CaptureStep, Somewhere, InRound, InOutage, Refused
<1>4. ASSUME NEW c \in Channel, StopRound(c) PROVE s[2] < now' /\ Somewhere(s)'
  <2>1. round'.pc = round.pc /\ round'.from = round.from /\ round'.at = round.at
    BY <1>4, <1>t DEF StopRound, TypeOK, RoundType
  <2> QED
    BY <1>4, <1>w, <2>1 DEF StopRound, Somewhere, InRound, InOutage, Refused
<1>5. CASE RoutineRound
  <2>1. pend' <= 0
    BY <1>5, <1>t, QueueType, TimeFacts DEF RoutineRound
  <2> QED
    BY <1>5, <1>w, <1>s, <2>1 DEF RoutineRound, Somewhere
<1>6. CASE Woken
  BY <1>6, <1>w DEF Woken, Somewhere, InRound, InOutage, Refused
<1>7. CASE Gate
  BY <1>7, <1>w DEF Gate, Somewhere, InRound, InOutage, Refused
<1>8. CASE Take
  <2>1. s[2] < now /\ Somewhere(s) /\ now' = now /\ ~InRound(s)
    BY <1>8, <1>w DEF Take, InRound
  <2>2. CASE pend <= s[2]
    BY <1>8, <2>1, <2>2, <1>s DEF Take, Somewhere, InRound, Round
  <2>3. CASE InOutage(s)
    BY <1>8, <2>1, <2>3 DEF Take, Somewhere, InOutage, Refused
  <2> QED
    BY <2>1, <2>2, <2>3 DEF Somewhere
<1>9. CASE TakeFails
  BY <1>9, <1>w DEF TakeFails, Somewhere, InRound, InOutage, Refused
<1>10. CASE Install
  <2>1. round'.pc = "installed" /\ round'.from = round.from
    BY <1>10, <1>t DEF Install, TypeOK, RoundType
  <2> QED
    BY <1>10, <1>w, <2>1 DEF Install, Somewhere, InRound, InOutage, Refused
<1>11. CASE Recheck
  <2>1. round'.pc = "running" /\ round'.from = round.from /\ round'.at = now
    BY <1>11 DEF Recheck, Round
  <2> QED
    BY <1>11, <1>w, <2>1 DEF Recheck, Somewhere, InRound, InOutage, Refused
<1>12. ASSUME NEW recovers \in BOOLEAN, RoundFinishes(recovers)
       PROVE  s[2] < now' /\ Somewhere(s)'
  <2>1. s \in owed /\ ~InRound(s)
    BY <1>12, <1>s DEF RoundFinishes, Covered, InRound
  <2> QED
    BY <1>12, <1>w, <2>1 DEF RoundFinishes, Somewhere, InOutage, Refused
<1>13. CASE RoundRequeues
  <2>1. pend' <= pend /\ pend' <= round.from
    BY <1>13, <1>t, QueueType DEF RoundRequeues, TypeOK, RoundType
  <2> QED
    BY <1>13, <1>w, <1>s, <2>1 DEF RoundRequeues, Somewhere, InRound, InOutage, Refused
<1>14. CASE PacePasses
  BY <1>14, <1>w DEF PacePasses, Somewhere, InRound, InOutage, Refused
<1>15. CASE Crash
  BY <1>15 DEF Crash
<1>16. CASE Start
  <2>1. downAt \in Int /\ downAt <= s[2] /\ s[2] < now /\ now' = now
    BY <1>16, <1>s, <1>t, TimeFacts DEF Start, TypeOK
  <2>2. pend' <= downAt
    BY <1>16, <2>1, <1>s, <1>t, QueueType DEF Start, TypeOK
  <2> QED
    BY <2>1, <2>2, <1>s DEF Somewhere
<1>17. CASE Tick
  <2>1. now' = now + 1 /\ UNCHANGED <<pend, round, probed, outage>>
    BY <1>17 DEF Tick
  <2>2. CASE s \in owed
    BY <2>1, <2>2, <1>w, <1>s DEF Somewhere, InRound, InOutage, Refused
  <2>3. CASE s \notin owed
    <3>1. s[2] = now /\ Refused(s[1])
      BY <1>17, <2>3 DEF Tick
    <3>2. outage[s[1]] <= now
      BY <1>s DEF WindowInv
    <3> QED
      BY <2>1, <3>1, <3>2, <1>s DEF Somewhere, InOutage, Refused
  <2> QED
    BY <2>2, <2>3
<1>18. CASE UNCHANGED vars
  BY <1>18, <1>w DEF vars, Somewhere, InRound, InOutage, Refused
<1>19. Next \/ UNCHANGED vars
  OBVIOUS
<1> QED
  BY <1>19, <1>1, <1>2, <1>3, <1>4, <1>5, <1>6, <1>7, <1>8, <1>9, <1>10, <1>11,
     <1>12, <1>13, <1>14, <1>15, <1>16, <1>17, <1>18 DEF Next, Loop

(* Requests that coalesce, rounds that are cancelled, deferred or time     *)
(* out, and windows the store cannot bound lose nothing this process knows *)
(* it missed, until a round over it finishes.                              *)
THEOREM WindowIsKept == Spec => []WindowKept
<1>1. Init => WindowInv
  BY TypeInit, TimeFacts DEF WindowInv, Init
<1>2. WindowInv /\ [Next]_vars => WindowInv'
  BY WindowStep
<1>3. WindowInv => WindowKept
  BY DEF WindowInv, WindowKept, Somewhere, InRound, InOutage
<1> QED
  BY <1>1, <1>2, <1>3, PTL DEF Spec
=============================================================================
