------------------------------ MODULE Calendar ------------------------------
(***************************************************************************)
(* What a day reads as: CoverageBetween and the ladder under it            *)
(* (internal/store/coverage.go), over every small set of broadcasts and    *)
(* recordings in a zone whose clocks change once.                          *)
(*                                                                         *)
(* Instants are hours of universal time.  The question is asked of every   *)
(* set of rows there can be.                                               *)
(***************************************************************************)
EXTENDS Integers, Sequences, FiniteSets

CONSTANTS Hours,        \* hours in a day whose clocks do not change
          LastDay,      \* the days asked about are 1 .. LastDay
          West          \* how far west of universal time the zones are

ASSUME CalendarAssumption ==
  Hours \in Nat \ {0, 1} /\ LastDay \in Nat \ {0} /\ West \subseteq Nat

Aired == {1, 2}
Take == {1, 2}

(* What a recording proves, whether it carries an open hole, and how long  *)
(* after its broadcast it began.  Where its bytes came from ranks a whole  *)
(* day, and no property asks.                                              *)
Taken == [of : Aired, state : {"complete", "awaiting", "failed"}, holed : BOOLEAN, late : {0, 1}]
Unmade == [of |-> 0]

(* A zone's offset, and when and by how much it changes.                   *)
Unchanging == [base : {-west : west \in West}, change : {0}, jump : {0}]
Zone == Unchanging \cup
        [base : {-west : west \in West}, change : Hours + 1 .. 2 * Hours + 1, jump : {-1, 1}]

VARIABLES zone,         \* the zone the calendar is read in
          begun,        \* when each broadcast began
          made,         \* the recordings there are
          watched,      \* the recorder's session: its start and heartbeat
          unread        \* broadcasts whose rows cannot be read

calendar == <<zone, begun, made, watched, unread>>

----------------------------------------------------------------------------
(* The clock on the wall                                                   *)

Offset(t) == IF t < zone.change THEN zone.base ELSE zone.base + zone.jump

(* dayKey.                                                                 *)
DayKey(t) == (t + Offset(t)) \div Hours

(* time.Date of a midnight: the offset that holds at that reading of       *)
(* universal time, looked up again where it does not hold at the answer.   *)
MidnightOf(day) ==
  LET reading == day * Hours
      guess   == reading - Offset(reading)
  IN  IF (reading < zone.change) = (guess < zone.change) THEN guess
      ELSE reading - Offset(guess)

(* A day that is taken to begin where time.Date lands.                     *)
StartOfDayNaive(day) == MidnightOf(day)

(* startOfDayOn: where that midnight never happens, the size of the jump   *)
(* is added back.                                                          *)
StartOfDayOn(day) ==
  LET start == MidnightOf(day)
  IN  IF DayKey(start) = day THEN start
      ELSE start + Offset(start + Hours) - Offset(start)

(* A midnight that happens twice: time.Date may answer with the second.    *)
TwiceMidnight == zone.jump < 0 /\ \E hour \in 0 .. -zone.jump - 1 :
                   (zone.change + hour + zone.base + zone.jump) % Hours = 0

----------------------------------------------------------------------------
(* CoverageBetween, asked for the days 1 .. LastDay                        *)

FirstInstant == StartOfDayOn(1)
LastInstant == StartOfDayOn(LastDay + 1)
Asked(t) == FirstInstant <= t /\ t < LastInstant

(* stateEvidence: a row that failed, was trashed or is of a newer build    *)
(* proves nothing.                                                         *)
Evidence(r) == CASE made[r].state = "complete" -> "captured" [] made[r].state = "awaiting" -> "awaiting"
                 [] OTHER -> "none"

RecordedAt(r) == begun[made[r].of] + made[r].late
Recorded == {r \in Take : made[r] # Unmade /\ Asked(RecordedAt(r))}
Proving == {r \in Recorded : Evidence(r) # "none"}
Rows == {b \in Aired \ unread : Asked(begun[b])}
Degraded == \E b \in unread : Asked(begun[b])

(* provenance.state: the weakest thing known.                              *)
Weakest(S) == IF \E r \in S : Evidence(r) = "awaiting" THEN "at_risk" ELSE "held"

CapturesOf(broadcasts) == {r \in Recorded : made[r].of \in broadcasts}
Captured(broadcasts) == {made[r].of : r \in Proving \cap CapturesOf(broadcasts)}

(* tallyBroadcasts: a hole is one whatever state its recording is in.      *)
Holed(broadcasts) == \E r \in CapturesOf(broadcasts) : made[r].holed

(* captureState.                                                           *)
CaptureState(broadcasts) ==
  IF Captured(broadcasts) = {} THEN "missed"
  ELSE IF Captured(broadcasts) # broadcasts \/ Holed(broadcasts) \/ Degraded THEN "partial"
  ELSE Weakest(Proving \cap CapturesOf(broadcasts))

(* recordedState: a day no broadcast began on has its recordings alone,    *)
(* and the bytes of those that failed prove that there was one.            *)
RecordedState(recordings, quiet) ==
  IF Proving \cap recordings # {} THEN Weakest(Proving \cap recordings)
  ELSE IF recordings # {} THEN "missed" ELSE quiet

(* watchedDays, and minWatched.                                            *)
Watched(day) ==
  LET from  == IF watched.from < FirstInstant THEN FirstInstant ELSE watched.from
      until == IF watched.until > LastInstant THEN LastInstant ELSE watched.until
  IN  until > from /\ DayKey(from) <= day /\ StartOfDayOn(day) <= until

Painted(day) ==
  LET broadcasts == {b \in Rows : DayKey(begun[b]) = day}
      recordings == {r \in Recorded : DayKey(RecordedAt(r)) = day}
      quiet      == IF Watched(day) /\ ~Degraded THEN "no_stream" ELSE "unknown"
  IN  IF broadcasts # {} THEN CaptureState(broadcasts) ELSE RecordedState(recordings, quiet)

----------------------------------------------------------------------------
(* The rows, as they come to be                                            *)

Record(r) ==
  /\ made[r] = Unmade
  /\ \E recording \in Taken :
       /\ \A earlier \in 1 .. r - 1 : made[earlier] # Unmade /\ made[earlier].of <= recording.of
       /\ made' = [made EXCEPT ![r] = recording]
  /\ UNCHANGED <<zone, begun, watched, unread>>

(* A row of a broadcast whose columns no longer parse.                     *)
Spoil(b) ==
  /\ unread = {} /\ unread' = {b}
  /\ UNCHANGED <<zone, begun, made, watched>>

Heartbeat ==
  /\ watched.until < Hours * (LastDay + 1) /\ watched' = [watched EXCEPT !.until = Hours * (LastDay + 1)]
  /\ UNCHANGED <<zone, begun, made, unread>>

CalendarInit ==
  /\ zone \in Zone
  /\ begun \in {f \in [Aired -> Hours .. Hours * (LastDay + 1) + 1] : f[1] <= f[2]}
  /\ made = [r \in Take |-> Unmade]
  /\ watched = [from |-> 0, until |-> 0] /\ unread = {}

CalendarNext ==
  \/ \E r \in Take : Record(r)
  \/ \E b \in Aired : Spoil(b)
  \/ Heartbeat

CalendarSpec == CalendarInit /\ [][CalendarNext]_calendar

----------------------------------------------------------------------------

BeganOn(day) == {b \in Aired : DayKey(begun[b]) = day}

(* coverage.go, captureState and recordedState: the calendar does not tell *)
(* "the most reassuring lie".  A day that shows a broadcast and claims to  *)
(* be whole is one all of whose broadcasts are held without a hole, read   *)
(* or not; a day shown as quiet is one nothing began on.                   *)
DaysAreHonest ==
  ~TwiceMidnight =>
    \A day \in 1 .. LastDay :
      LET painted == Painted(day)
      IN  /\ painted \in {"held", "at_risk"} /\ BeganOn(day) \ unread # {} =>
               \A b \in BeganOn(day) :
                 /\ b \notin unread
                 /\ \E r \in Take : made[r].of = b /\ made[r].state \in {"complete", "awaiting"}
                 /\ \A r \in Take : made[r].of = b /\ Asked(RecordedAt(r)) => ~made[r].holed
          /\ painted = "no_stream" => BeganOn(day) = {}
=============================================================================
