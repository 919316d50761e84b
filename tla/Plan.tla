-------------------------------- MODULE Plan --------------------------------
(***************************************************************************)
(* Which missed broadcasts a pass of recovery goes after                   *)
(* (internal/backfill/plan.go): the months the lookback touches are built  *)
(* as the calendar's grids (internal/calendar/calendar.go), their gap days *)
(* are queried one by one, and what is missing, over and within the        *)
(* lookback is offered.  Days are those of a zone whose clocks may change, *)
(* as in Calendar.                                                         *)
(***************************************************************************)
EXTENDS Calendar

CONSTANTS MonthLengths, \* how many days a month may have
          WeekLength,   \* DaysPerWeek
          LastInstants, \* how many instants there are to plan at
          SettleTime    \* how long after its start a broadcast is over and published

ASSUME PlanAssumption ==
  /\ MonthLengths \subseteq Nat \ {0} /\ WeekLength \in Nat \ {0}
  /\ LastInstants \in Nat /\ SettleTime \in Nat

VARIABLES monthLength,  \* how long the months are
          window,       \* the lookback: its first instant and the pass's own
          walked,       \* the month the walk is at, by an instant of it
          gapDays,      \* the gap days that were found and not yet queried
          offered       \* how often each broadcast was offered

plan == <<monthLength, window, walked, gapDays, offered>>

NoWindow == [from |-> 0, until |-> 0, at |-> "none"]

----------------------------------------------------------------------------
(* The calendar's arithmetic                                               *)

(* time.Date: the hour of a day, which may not happen.                     *)
DateAt(day, hour) ==
  LET reading == day * Hours + hour
      guess   == reading - Offset(reading)
  IN  IF (reading < zone.change) = (guess < zone.change) THEN guess
      ELSE reading - Offset(guess)

(* AddDate keeps the hour on the wall.                                     *)
AddDays(t, days) == DateAt(DayKey(t) + days, (t + Offset(t)) % Hours)
AddMonth(t) == AddDays(t, monthLength)

MonthAt(t) == DayKey(t) \div monthLength
FirstOf(month) == month * monthLength

(* monthOf, startOfDay                                                     *)
MonthStart(t) == StartOfDayOn(FirstOf(MonthAt(t)))
StartOfDay(t) == StartOfDayOn(DayKey(t))

----------------------------------------------------------------------------
(* The grid of a month                                                     *)

AlignToWeek(day) == day - (day % WeekLength)

(* Build: whole weeks, from the one the month's first midnight is in to    *)
(* the one its last is, as time.Date has them.                             *)
GridDays(month) ==
  LET first == MidnightOf(FirstOf(month))
      last  == DayKey(AddMonth(first)) - 1
  IN  AlignToWeek(DayKey(first)) .. AlignToWeek(last) + WeekLength - 1

InMonth(day, month) == day \div monthLength = month

(* CoverageBetween, whose end is tomorrow and not part of it.              *)
Covered(day) == DayKey(window.from) <= day /\ day < DayKey(AddDays(window.until, 1))

(* cell, Recoverable: a day nothing was asked about is unknown.            *)
Recoverable(day) == Covered(day) /\ \E b \in Aired : DayKey(begun[b]) = day

(* Gaps                                                                    *)
GapsOf(month) == {day \in GridDays(month) : InMonth(day, month) /\ Recoverable(day)}

----------------------------------------------------------------------------
(* Candidates                                                              *)

BeginPlan ==
  /\ window.at = "none"
  /\ \E length \in MonthLengths, now, back \in 0 .. LastInstants :
       /\ back <= now /\ now >= Hours
       /\ monthLength' = length
       /\ window' = [from |-> now - back, until |-> now, at |-> "months"]
       /\ walked' = LET m == DayKey(now - back) \div length IN StartOfDayOn(m * length)
  /\ UNCHANGED <<gapDays, offered>> /\ UNCHANGED calendar

(* Mutant of InLookback: the days are compared with the raw instant.           *)
InLookbackByInstants(day) ==
  StartOfDayOn(day) >= window.from /\ StartOfDayOn(day) <= window.until

(* gapDays: the lookback as days.                                          *)
InLookback(day) ==
  StartOfDayOn(day) >= StartOfDay(window.from) /\ StartOfDayOn(day) <= window.until

WalkMonth ==
  /\ window.at = "months" /\ walked <= window.until
  /\ gapDays' = gapDays \cup {day \in GapsOf(MonthAt(walked)) : InLookback(day)}
  /\ walked' = MonthStart(AddMonth(walked))
  /\ UNCHANGED <<monthLength, window, offered>> /\ UNCHANGED calendar

MonthsEnd ==
  /\ window.at = "months" /\ walked > window.until
  /\ window' = [window EXCEPT !.at = "days"]
  /\ UNCHANGED <<monthLength, walked, gapDays, offered>> /\ UNCHANGED calendar

Published(b) == begun[b] + SettleTime <= window.until

(* Mutant of QueryEnd: a day is so many hours.                             *)
AfterHours(day) == StartOfDayOn(day) + Hours

(* candidatesOn: to the same hour of the next day.                         *)
QueryEnd(day) == AddDays(StartOfDayOn(day), 1)

CandidatesOn(day) ==
  {b \in Aired : /\ StartOfDayOn(day) <= begun[b] /\ begun[b] < QueryEnd(day)
                 /\ Published(b) /\ begun[b] >= window.from}

QueryDay ==
  /\ window.at = "days"
  /\ \E day \in gapDays :
       /\ \A other \in gapDays : day <= other
       /\ gapDays' = gapDays \ {day}
       /\ offered' = [b \in Aired |-> IF b \in CandidatesOn(day) THEN offered[b] + 1 ELSE offered[b]]
  /\ UNCHANGED <<monthLength, window, walked>> /\ UNCHANGED calendar

UnplannedInit ==
  /\ monthLength = 1 /\ window = NoWindow /\ walked = 0 /\ gapDays = {}
  /\ offered = [b \in Aired |-> 0]

(* Every broadcast there may be, none of which was recorded.               *)
PlanInit ==
  /\ zone \in Zone /\ begun \in {f \in [Aired -> 0 .. LastInstants] : f[1] <= f[2]}
  /\ made = [r \in Take |-> Unmade] /\ watched = [from |-> 0, until |-> 0] /\ unread = {}
  /\ UnplannedInit

PlanNext == BeginPlan \/ WalkMonth \/ MonthsEnd \/ QueryDay

PlanSpec == PlanInit /\ [][PlanNext]_<<calendar, plan>>

----------------------------------------------------------------------------

(* A midnight that never happens, where time.Date answers with the evening *)
(* before or with the hour after.                                          *)
LostMidnight == zone.jump > 0 /\ \E hour \in 0 .. zone.jump - 1 :
                  (zone.change + hour + zone.base) % Hours = 0

(* plan.go, gapDays: comparing "a cell against the raw instant drops the   *)
(* oldest day the operator configured", and calendar.go, Build: a fetch    *)
(* that "queries the wrong 24 hours finds nothing and reports no error".   *)
(* When the days are queried, every missed broadcast of the lookback that  *)
(* is over was offered, once; where no midnight is lost.                   *)
PlanFindsMissed ==
  window.at = "days" /\ gapDays = {} /\ ~TwiceMidnight /\ ~LostMidnight =>
    \A b \in Aired : window.from <= begun[b] /\ Published(b) => offered[b] = 1
=============================================================================
