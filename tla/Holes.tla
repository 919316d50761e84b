------------------------------- MODULE Holes -------------------------------
(***************************************************************************)
(* The holes in one captured broadcast: filed by the watcher when a        *)
(* capture stops early (internal/daemon/watch.go) and by every recovery    *)
(* pass (internal/backfill/gaps.go), and patched from the stored copy      *)
(* (internal/backfill/patch.go).                                           *)
(*                                                                         *)
(* Times are instants of one clock; a hole's bounds are offsets from the   *)
(* start of the broadcast's row, which moves as listings describe it.  A   *)
(* unit is more than minGap and more than a patch may fall short, and the  *)
(* broadcast really began at 0.                                            *)
(***************************************************************************)
EXTENDS Integers, Sequences, FiniteSets

CONSTANTS Nil,          \* a time or an answer nobody has
          MaxTime,      \* bound on the clock
          MaxCaptures,  \* bound on the captures of the broadcast
          MaxAttempts,  \* backfill.max_attempts
          MaxFaults     \* bound on what interferes: crashes and shutdowns, a
                        \* full library, purges, deletions, failed finalizes,
                        \* media lost to ads

ASSUME HolesAssumption ==
  /\ MaxTime \in Nat /\ MaxCaptures \in Nat /\ MaxFaults \in Nat
  /\ MaxAttempts \in Nat \ {0} /\ Nil \notin Nat

VARIABLES now,          \* the clock
          airing,       \* whether the broadcast still runs
          copy,         \* the stored copy as the platform keeps it
          row,          \* the broadcast's row
          recs,         \* its recordings, in the order their rows were made
          holes,        \* the rows of gaps, filed against those recordings
          early,        \* the capture whose early stop is being reported, or 0
          step,         \* where the patcher stands
          todo,         \* the holes this pass has still to try
          hole,         \* the hole it is at
          original,     \* this pass's answer about the audio as broadcast
          faults,       \* how often something interfered
          calm          \* from here on nothing outside the program fails

patching == <<now, airing, copy, row, recs, holes, early, step, todo, hole,
          original, faults, calm>>
capturing == <<now, airing, early>>
patcher == <<step, todo, hole, original>>
world == <<copy, faults, calm>>

Faults == ~calm /\ faults < MaxFaults /\ faults' = faults + 1

Recording == 1 .. Len(recs)

HoldsBytes(r) == recs[r].state \in {"capturing", "awaiting", "complete"}

(* RecordingsForBroadcast lists by start, and rows of one start by id.     *)
Precedes(r, s) ==
  \/ recs[r].from < recs[s].from
  \/ recs[r].from = recs[s].from /\ r <= s

Earliest(S) == CHOOSE r \in S : \A s \in S : Precedes(r, s)

Held == {r \in Recording : HoldsBytes(r)}

Acceptable(span) == 0 <= span.from /\ span.from < span.to

(* AddGap: one row per recording and span, and the first reason stays.     *)
OnFile(rec, span) == \E h \in holes : h.rec = rec /\ h.from = span.from /\ h.to = span.to

AddGap(rec, spans) ==
  holes \cup {[rec |-> rec, from |-> s.from, to |-> s.to, reason |-> s.reason,
               attempts |-> 0, filled |-> FALSE] :
                 s \in {s \in spans : Acceptable(s) /\ ~OnFile(rec, s)}}

Update(h, change) == holes' = (holes \ {h}) \cup {change}

----------------------------------------------------------------------------
(* Detection                                                               *)

Span(from, to, reason) == [from |-> from - row.start, to |-> to - row.start, reason |-> reason]

(* The recording after r among those that hold bytes.                      *)
After(r) == Earliest({s \in Held \ {r} : Precedes(r, s)})
Latest == CHOOSE r \in Held : \A s \in Held : Precedes(s, r)

LateStart ==
  {Span(row.start, recs[r].from, "late") :
     r \in {r \in {Earliest(Held)} : recs[r].from > row.start}}

Reconnects ==
  {Span(recs[r].to, recs[After(r)].from, "reconnect") :
     r \in {r \in Held \ {Latest} : recs[r].to # Nil /\ recs[After(r)].from > recs[r].to}}

(* A recording that holds less media than it ran names no stretch.         *)
Shortfalls ==
  {Span(IF recs[r].from < row.start THEN row.start ELSE recs[r].from, recs[r].to, "short") :
     r \in {r \in Held : recs[r].lost /\ recs[r].to # Nil /\ recs[r].to > row.start}}

EarlyStop ==
  {Span(recs[r].to, row.end, "early") :
     r \in {r \in {Latest} : recs[r].to # Nil /\ row.end # Nil /\ row.end > recs[r].to}}

Spans == LateStart \cup Reconnects \cup Shortfalls \cup EarlyStop

(* Detect: a broadcast nothing holds is missing rather than holed.         *)
Filed == IF Held = {} THEN holes ELSE AddGap(Earliest(Held), Spans)

(* patchable: the open holes worth an attempt, whatever filed them.        *)
Patchable(known) ==
  {h \in known : ~h.filled /\ h.reason # "short" /\ h.attempts < MaxAttempts}

----------------------------------------------------------------------------
(* The stored copy's own timeline                                          *)

VodFrom(h) == LET at == row.start + h.from - row.vod IN IF at < 0 THEN 0 ELSE at
VodTo(h) == row.start + h.to - row.vod

(* mutedWithin when a mute that a hole only opens inside is not seen.      *)
MutedAtItsEnd(muted, from, to) == \E u \in muted : u < to /\ to <= u + 1

(* mutedWithin: stretches are half open, here each a unit long.            *)
MutedWithin(muted, from, to) == \E u \in muted : u < to /\ from < u + 1

Silenced(h) == row.muted # Nil /\ VodTo(h) > 0 /\ MutedWithin(row.muted, VodFrom(h), VodTo(h))

----------------------------------------------------------------------------
(* The watcher                                                             *)

Occupied == early # 0 \/ \E r \in Recording : recs[r].state = "capturing"

Live(r) == recs[r].origin = "live"

(* A capture opens the row at the platform's start, when the platform can  *)
(* be asked, or at the poll that saw the channel live.                     *)
Capture ==
  /\ airing /\ ~Occupied
  /\ Cardinality({r \in Recording : Live(r)}) < MaxCaptures
  /\ recs' = Append(recs, [origin |-> "live", from |-> now, to |-> Nil, state |-> "capturing",
                           lost |-> FALSE, silent |-> FALSE])
  /\ IF row.start = Nil THEN \E start \in {0, now} : row' = [row EXCEPT !.start = start]
                        ELSE UNCHANGED row
  /\ UNCHANGED <<capturing, holes, patcher, world>>

(* The capture ends: with the broadcast, or before it, which is reported.  *)
(* One that is too short is failed; any other is as good as finalized, for *)
(* whether it still awaits its name is nothing to a hole.                  *)
CaptureStops(r) ==
  /\ recs[r].state = "capturing"
  /\ \E state \in {"complete", "failed"}, lost \in BOOLEAN :
       /\ now = recs[r].from => state = "failed"
       /\ lost => state = "complete"
       /\ recs' = [recs EXCEPT ![r].to = now, ![r].state = state, ![r].lost = lost]
       /\ early' \in IF airing /\ state = "complete" THEN {0, r} ELSE {0}
       /\ IF lost THEN Faults ELSE UNCHANGED faults
  /\ UNCHANGED <<now, airing, row, holes, patcher, copy, calm>>

GapAnchor(fallback) == IF Held = {} THEN fallback ELSE Earliest(Held)

(* reportEarlyStop: a hole up to now, unless the channel reads offline.    *)
ReportEarlyStop ==
  /\ early # 0
  /\ early' = 0
  /\ \/ UNCHANGED holes /\ ~airing
     \/ holes' = AddGap(GapAnchor(early), {Span(recs[early].to, now, "stopped")})
  /\ UNCHANGED <<now, airing, row, recs, patcher, world>>

(* The poll that reads offline closes the row, unless no recorder is there.*)
GoOffline ==
  /\ airing /\ airing' = FALSE
  /\ \/ row.start # Nil /\ row' = [row EXCEPT !.end = now]
     \/ UNCHANGED row
  /\ UNCHANGED <<now, recs, holes, early, patcher, world>>

Later ==
  /\ now < MaxTime /\ airing
  /\ now' = now + 1
  /\ UNCHANGED <<airing, row, recs, holes, early, patcher, world>>

(* The sweep, or the fetch's own call: the file moves to its own name, or  *)
(* the organizer gives the recording up.                                   *)
Finalized(r) == recs' = [recs EXCEPT ![r].state = "complete"]
GaveUp(r) == recs' = [recs EXCEPT ![r].state = "failed"]

Sweep(r) ==
  /\ recs[r].state = "awaiting"
  /\ \/ Finalized(r) /\ UNCHANGED faults
     \/ GaveUp(r) /\ Faults
  /\ UNCHANGED <<capturing, row, holes, patcher, copy, calm>>

PurgeOne(r) ==
  /\ recs[r].state = "complete" /\ ~airing
  /\ recs' = [recs EXCEPT ![r].state = "trashed"]
  /\ Faults
  /\ UNCHANGED <<capturing, row, holes, patcher, copy, calm>>

----------------------------------------------------------------------------
(* A pass                                                                  *)

AtRest == step = "idle"

EndPass ==
  /\ step' = "idle" /\ todo' = {} /\ hole' = Nil /\ original' = Nil

(* settled: the broadcast is over, by its row or by its age.               *)
Settled == row.start # Nil /\ ~airing /\ ~Occupied

(* Discovery describes the copy: an earlier start of the platform's moves  *)
(* the row's, a missing end is filled in, and what is muted may be unknown *)
(* to the source that answered.                                            *)
Discover ==
  /\ Settled /\ AtRest /\ copy.there
  /\ \E muted \in {copy.muted, row.muted} :
       row' = [row EXCEPT !.start = 0, !.vod = copy.vod, !.muted = muted,
                          !.end = IF @ = Nil THEN now ELSE @]
  /\ row' # row
  /\ UNCHANGED <<capturing, recs, holes, patcher, world>>

(* Patch: the holes are filed whether or not there is a copy to fill them. *)
BeginPass ==
  /\ Settled /\ AtRest
  /\ holes' = Filed
  /\ (row.vod # Nil /\ Patchable(Filed) # {}) \/ Filed # holes
  /\ IF row.vod = Nil \/ Patchable(Filed) = {} THEN UNCHANGED <<step, todo>>
     ELSE step' = "resolve" /\ todo' = Patchable(Filed)
  /\ UNCHANGED <<capturing, row, recs, hole, original, world>>

(* resolveOriginalAudio, once for the pass: a terminal answer is a no, and *)
(* any other failure is no answer.                                         *)
Resolve ==
  /\ step = "resolve" /\ step' = "next"
  /\ \/ \E h \in todo : Silenced(h)
        /\ original' \in {"yes", "no"} \cup (IF calm THEN {} ELSE {"unanswered"})
     \/ (\A h \in todo : ~Silenced(h)) /\ original' = "no"
  /\ UNCHANGED <<capturing, row, recs, holes, todo, hole, world>>

(* By recording, and in a recording by where the hole starts.              *)
First == CHOOSE h \in todo :
           \A g \in todo : IF g.rec = h.rec THEN h.from <= g.from ELSE Precedes(h.rec, g.rec)

(* A hole nobody could rule on is skipped, and a hole there is no room for *)
(* ends the pass; neither is charged.                                      *)
NextHole ==
  /\ step = "next"
  /\ \/ todo = {} /\ EndPass /\ UNCHANGED faults
     \/ todo # {} /\ EndPass /\ Faults
     \/ /\ todo # {} /\ UNCHANGED faults
        /\ todo' = todo \ {First} /\ UNCHANGED original
        /\ IF original = "unanswered" /\ Silenced(First) THEN UNCHANGED <<step, hole>>
           ELSE step' = "download" /\ hole' = First
  /\ UNCHANGED <<capturing, row, recs, holes, copy, calm>>

(* What a download is worth: a range outside the copy, a silenced range    *)
(* with no original and an answer of the platform are refusals; a range    *)
(* that is short or silent is discarded.                                   *)
Refused(h) == \/ Silenced(h) /\ original # "yes"
              \/ ~copy.there

Whole(h) == VodTo(h) - VodFrom(h) = h.to - h.from

Download ==
  /\ step = "download"
  /\ \/ ~Refused(hole) /\ Whole(hole) /\ VodTo(hole) > 0 /\ step' = "create"
     \/ Refused(hole) /\ step' = "terminal"
     \/ ~Refused(hole) /\ (~calm \/ ~Whole(hole)) /\ step' = "charge"
  /\ UNCHANGED <<capturing, row, recs, holes, todo, hole, original, world>>

(* CreateRecording.  A recovered row of this start that was not finalized  *)
(* holds the path, and reads as this hole patched already.                 *)
AtItsPath(r) == recs[r].state \in {"awaiting", "failed"} /\ recs[r].from = row.start + hole.from

Stem(r) == recs[r].origin = "recovered" /\ AtItsPath(r)

Create ==
  /\ step = "create"
  /\ \/ \E r \in Recording : Stem(r) /\ step' = "fill" /\ UNCHANGED recs
     \/ /\ \A r \in Recording : ~Stem(r)
        /\ recs' = Append(recs, [origin |-> "recovered", from |-> row.start + hole.from,
             to |-> Nil, state |-> "awaiting", lost |-> FALSE,
             silent |-> /\ original # "yes" /\ row.muted # Nil
                        /\ \E u \in row.muted : u \in VodFrom(hole) .. VodTo(hole) - 1])
        /\ step' = "finalize"
  /\ UNCHANGED <<capturing, row, holes, todo, hole, original, world>>

Finalize ==
  /\ step = "finalize"
  /\ LET r == Len(recs)
     IN  \/ recs[r].state = "awaiting" /\ Finalized(r) /\ step' = "fill" /\ UNCHANGED faults
         \/ recs[r].state \in {"complete", "trashed"} /\ UNCHANGED <<recs, faults>> /\ step' = "fill"
         \/ recs[r].state = "failed" /\ UNCHANGED <<recs, faults>> /\ step' = "charge"
         \/ UNCHANGED recs /\ step' = "charge" /\ Faults
  /\ UNCHANGED <<capturing, row, holes, todo, hole, original, copy, calm>>

(* The gap is marked filled last.                                          *)
Fill ==
  /\ step = "fill"
  /\ Update(hole, [hole EXCEPT !.filled = TRUE])
  /\ step' = "next" /\ hole' = Nil
  /\ UNCHANGED <<capturing, row, recs, todo, original, world>>

(* Only an answer of the platform is remembered.                           *)
ChargeTerminalOnly ==
  /\ step \in {"charge", "terminal"}
  /\ Update(hole, [hole EXCEPT !.attempts = IF step = "terminal" THEN MaxAttempts ELSE @])
  /\ step' = "next" /\ hole' = Nil
  /\ UNCHANGED <<capturing, row, recs, todo, original, world>>

(* ChargeGap: an attempt more, or all of them where no later pass changes  *)
(* the answer.                                                             *)
Charge ==
  /\ step \in {"charge", "terminal"}
  /\ Update(hole, [hole EXCEPT !.attempts = IF step = "terminal" THEN MaxAttempts ELSE @ + 1])
  /\ step' = "next" /\ hole' = Nil
  /\ UNCHANGED <<capturing, row, recs, todo, original, world>>

(* A crash between two steps, a shutdown, whose failed step is not charged,*)
(* and a store that does not answer all end the pass where it stands.      *)
StopPass ==
  /\ ~AtRest /\ Faults
  /\ EndPass
  /\ UNCHANGED <<capturing, row, recs, holes, copy, calm>>

(* The platform deletes its copy.                                          *)
Delete ==
  /\ copy.there /\ Faults
  /\ copy' = [copy EXCEPT !.there = FALSE]
  /\ UNCHANGED <<capturing, row, recs, holes, patcher, calm>>

Calm == ~calm /\ ~airing /\ calm' = TRUE
        /\ UNCHANGED <<capturing, row, recs, holes, patcher, copy, faults>>

----------------------------------------------------------------------------

HolesInit ==
  /\ now = 0 /\ airing = TRUE /\ early = 0
  /\ copy \in [there : {TRUE}, vod : {0, 1}, muted : {{1}}]
  /\ row = [start |-> Nil, end |-> Nil, vod |-> Nil, muted |-> Nil]
  /\ recs = <<>> /\ holes = {}
  /\ step = "idle" /\ todo = {} /\ hole = Nil /\ original = Nil
  /\ faults = 0 /\ calm = FALSE

Watch == Capture \/ ReportEarlyStop \/ GoOffline \/ Later \/ \E r \in Recording : CaptureStops(r)

Pass == Resolve \/ NextHole \/ Download \/ Create \/ Finalize \/ Fill \/ Charge

HolesNext ==
  \/ Watch \/ BeginPass \/ Discover \/ Pass \/ StopPass \/ Delete \/ Calm
  \/ \E r \in Recording : Sweep(r) \/ PurgeOne(r)

HolesSpec == HolesInit /\ [][HolesNext]_patching

(* Rounds come back until a broadcast has no hole left to try, a round     *)
(* takes its steps, and the time comes when nothing outside fails.         *)
HolesFairness == WF_patching(BeginPass) /\ WF_patching(Pass) /\ WF_patching(Calm)

----------------------------------------------------------------------------

(* patch.go, patch: a hole marked filled "before the file reaches the      *)
(* library would leave a hole that reads as patched with nothing behind    *)
(* it", and one "filled with silence and marked done is worse than one left*)
(* open".  The step that fills a hole has a recovered row of that stretch, *)
(* which holds nothing the broadcast's row knew was silenced unless its    *)
(* audio came from the original.                                           *)
FilledHasRecording ==
  [][\A h \in holes' : h.filled /\ ~(h \in holes) =>
       \E r \in Recording : /\ recs[r].origin = "recovered" /\ ~recs[r].silent
                            /\ recs[r].from = row.start + h.from]_patching

(* patch.go, patchable: "the count on the row is what ends it".  Once the  *)
(* broadcast's copy is known, every hole is filled or given up on, and no  *)
(* pass ever files a hole that is neither.                                 *)
HolesSettle == <>[](row.vod # Nil => Patchable(holes) = {})
=============================================================================
