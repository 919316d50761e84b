-------------------------------- MODULE Pass --------------------------------
(***************************************************************************)
(* One round of recovery over the channels (internal/backfill/pass.go):    *)
(* each channel is listed, its holes are patched, what is missing is       *)
(* planned day by day (plan.go) and fetched a few at once, and the result  *)
(* says whether the window the round was for may be dropped.               *)
(*                                                                         *)
(* What one fetch does is in Fetch, what one patch does in Holes.  Here a  *)
(* broadcast is where the round finds it.                                  *)
(***************************************************************************)
EXTENDS Naturals, FiniteSets

CONSTANTS Channels,     \* how many channels are configured
          MaxConcurrent \* how many broadcasts are fetched at once

ASSUME PassAssumption == Channels \in Nat \ {0} /\ MaxConcurrent \in Nat \ {0}

(* The channel, and which of its archives.  The last channel has one.      *)
Archive == {a \in (1 .. Channels) \X (1 .. Channels) : a[1] + a[2] <= Channels + 1}

Unfinished == [ended |-> FALSE]

VARIABLES lies,         \* where each archive stands
          turn,         \* the channel, and what is done for it
          tried,        \* how far each candidate of this channel is
          tally,        \* what the round counted
          reported,     \* the outcomes of fetches it reported
          cramped,      \* the archives the library had no room for
          overlooked,   \* the archives it passed over with nothing counted
          stopped,      \* whether the round was cancelled
          result        \* what Pass returned

pass == <<lies, turn, tried, tally, reported, cramped, overlooked, stopped, result>>

Count(what) == tally' = [tally EXCEPT ![what] = @ + 1]
Then(phase) == turn' = [turn EXCEPT !.phase = phase]
Untried == [a \in Archive |-> "none"]

----------------------------------------------------------------------------

Unlisted == {a \in Archive : a[1] = turn.channel /\ lies[a] = "unlisted"}

(* Discover: a listing that fails, or is broken off, is counted, and the   *)
(* fetch goes on with what the recorder saw.  One broadcast that cannot be *)
(* looked up (listAndDescribe) or whose row cannot be written (record) is  *)
(* left out, and the listing counts as a success.                          *)
ListArchives ==
  /\ turn.phase = "list" /\ turn.channel <= Channels /\ ~stopped /\ Then("patch")
  /\ \E known \in SUBSET Unlisted :
       /\ lies' = [a \in Archive |-> IF a \in known THEN "known" ELSE lies[a]]
       /\ \/ overlooked' = overlooked \cup (Unlisted \ known) /\ UNCHANGED tally
          \/ Count("failed") /\ UNCHANGED overlooked
  /\ UNCHANGED <<tried, reported, cramped, stopped, result>>

(* patchChannel: no hole is an error, and a patch that failed is counted.  *)
(* Those that filled theirs are counted and reported apart, as in Holes.   *)
PatchChannel ==
  /\ turn.phase = "patch" /\ Then("plan")
  /\ UNCHANGED tally \/ Count("failed")
  /\ UNCHANGED <<lies, tried, reported, cramped, overlooked, stopped, result>>

(* Candidates: what is missing, known and due, on each day it touches.  A  *)
(* claim that a run which died still holds is seen when it is asked for.   *)
Offered(a) == a[1] = turn.channel /\ lies[a] \in {"known", "leased", "unpublished"}
Offer(candidates) == tried' = [a \in Archive |-> IF a \in candidates THEN "queued" ELSE "none"]

(* due: a broadcast whose fetch row cannot be read is not offered, and the *)
(* plan counts as one that was made.                                       *)
PlanMade ==
  \E skipped \in SUBSET {a \in Archive : Offered(a)} :
    /\ Offer({a \in Archive : Offered(a)} \ skipped)
    /\ overlooked' = overlooked \cup skipped /\ UNCHANGED tally

(* Mutant of PlanChannel: a plan that could not be made says nothing.      *)
PlanOrPass ==
  /\ turn.phase = "plan" /\ Then("fetch")
  /\ PlanMade \/ (Offer({}) /\ UNCHANGED <<tally, overlooked>>)
  /\ UNCHANGED <<lies, reported, cramped, stopped, result>>

PlanChannel ==
  /\ turn.phase = "plan" /\ Then("fetch")
  /\ PlanMade \/ (Offer({}) /\ Count("failed") /\ UNCHANGED overlooked)
  /\ UNCHANGED <<lies, reported, cramped, stopped, result>>

(* passChannel ends when the last of its fetches has.                      *)
NextChannel ==
  /\ turn.phase = "fetch" /\ \A a \in Archive : tried[a] \in {"none", "over"}
  /\ turn' = [channel |-> turn.channel + 1, phase |-> "list"] /\ tried' = Untried
  /\ UNCHANGED <<lies, tally, reported, cramped, overlooked, stopped, result>>

(* Pass: the channels are over, or the round was cancelled between two.    *)
Return ==
  /\ turn.phase = "list" /\ (turn.channel > Channels \/ stopped) /\ Then("ended")
  /\ result' = [ended |-> TRUE, counts |-> tally, stopped |-> stopped]
  /\ UNCHANGED <<lies, tried, tally, reported, cramped, overlooked, stopped>>

----------------------------------------------------------------------------

Over(a) == tried' = [tried EXCEPT ![a] = "over"]
Fetching == {a \in Archive : tried[a] \in {"asking", "claiming", "held"}}

(* fetchAll: a slot, or the end of the round.                              *)
TakeSlot(a) ==
  /\ tried[a] = "queued"
  /\ \/ Cardinality(Fetching) < MaxConcurrent /\ tried' = [tried EXCEPT ![a] = "asking"]
     \/ stopped /\ Over(a)
  /\ UNCHANGED <<lies, turn, tally, reported, cramped, overlooked, stopped, result>>

(* Fetch: no address is nothing to try, and neither is a full library.     *)
AskRoom(a) ==
  /\ tried[a] = "asking"
  /\ \/ lies[a] = "unpublished" /\ Over(a) /\ UNCHANGED cramped
     \/ lies[a] # "unpublished" /\ Over(a) /\ cramped' = cramped \cup {a}
     \/ lies[a] # "unpublished" /\ tried' = [tried EXCEPT ![a] = "claiming"] /\ UNCHANGED cramped
  /\ UNCHANGED <<lies, turn, tally, reported, overlooked, stopped, result>>

Claimable(a) == lies[a] \in {"known", "captured"}

(* Mutant of LeftFor: what another one holds is left to it.                *)
LeftOut(a) == UNCHANGED tally

(* fetchOne: a broadcast that was not to be had is still outstanding.      *)
LeftFor(a) == Count("deferred")

(* ClaimFetch, which the store may refuse, and what a capture made of it   *)
(* since the plan.                                                         *)
ClaimArchive(a) ==
  /\ tried[a] = "claiming"
  /\ \/ ~Claimable(a) /\ Over(a) /\ LeftFor(a)
     \/ Claimable(a) /\ lies[a] = "captured" /\ Over(a) /\ UNCHANGED tally
     \/ Claimable(a) /\ lies[a] = "known" /\ tried' = [tried EXCEPT ![a] = "held"] /\ UNCHANGED tally
     \/ Over(a) /\ Count("failed")
  /\ UNCHANGED <<lies, turn, reported, cramped, overlooked, stopped, result>>

(* fetchOne: it is here, it is given up, it may work later, or the round   *)
(* was cancelled and the broadcast handed back as it was.                  *)
EndFetch(a) ==
  /\ tried[a] = "held" /\ Over(a)
  /\ \/ /\ lies' = [lies EXCEPT ![a] = "recovered"] /\ Count("recovered")
        /\ reported' = reported \cup {<<"recovered", a>>}
     \/ /\ lies' = [lies EXCEPT ![a] = "abandoned"] /\ UNCHANGED tally
        /\ reported' = reported \cup {<<"fetch_gave_up", a>>}
     \/ lies' = [lies EXCEPT ![a] = "waiting"] /\ Count("failed") /\ UNCHANGED reported
     \/ stopped /\ UNCHANGED <<lies, tally, reported>>
  /\ UNCHANGED <<turn, cramped, overlooked, stopped, result>>

FetchOne == \E a \in Archive : TakeSlot(a) \/ AskRoom(a) \/ ClaimArchive(a) \/ EndFetch(a)

----------------------------------------------------------------------------

(* A capture's row is finished while the round runs.                       *)
CaptureLands ==
  /\ turn.phase # "ended"
  /\ \E a \in Archive :
       /\ lies[a] = "known" /\ tried[a] # "held"
       /\ lies' = [lies EXCEPT ![a] = "captured"]
  /\ UNCHANGED <<turn, tried, tally, reported, cramped, overlooked, stopped, result>>

(* A shutdown, or a capture the round stands aside for.                    *)
CancelPass ==
  /\ turn.phase # "ended" /\ ~stopped /\ stopped' = TRUE
  /\ UNCHANGED <<lies, turn, tried, tally, reported, cramped, overlooked, result>>

(* What lies where for the runs' sake: the last channel's archive is new,  *)
(* and the first one's other is not on its way to be had.                  *)
PassInit ==
  /\ lies \in [Archive -> {"unlisted", "known", "leased", "unpublished", "waiting", "captured"}]
  /\ lies[<<Channels, 1>>] = "unlisted" /\ lies[<<1, Channels>>] \notin {"unpublished", "waiting"}
  /\ turn = [channel |-> 1, phase |-> "list"] /\ tried = Untried
  /\ tally = [recovered |-> 0, failed |-> 0, deferred |-> 0]
  /\ reported = {} /\ cramped = {} /\ overlooked = {} /\ stopped = FALSE /\ result = Unfinished

PassNext ==
  \/ ListArchives \/ PatchChannel \/ PlanChannel \/ NextChannel \/ Return
  \/ FetchOne \/ CaptureLands \/ CancelPass

PassSpec == PassInit /\ [][PassNext]_pass

----------------------------------------------------------------------------

(* Where no round has to go after an archive again, or cannot.             *)
NothingLeft(a) == lies[a] \in {"recovered", "abandoned", "captured", "unpublished", "waiting"}

(* pass.go, Result: "a caller that read only Failed would call a round     *)
(* that fetched nothing at all a clean one and drop the window it was      *)
(* covering".  After a round that ran to its end and counted nothing       *)
(* failed and nothing deferred, no archive is left that the next round     *)
(* could fetch, but for one the library had no room for, one that was not  *)
(* due when it was planned, and one that was passed over singly: its own   *)
(* lookup or the write of its row failed (discover.go:200 and 240), or its *)
(* fetch row could not be read (plan.go:208).  Those "might not go wrong   *)
(* next time", as Failed says, and are not counted in it.  And a fetch is  *)
(* counted and reported once for each archive that came.                   *)
RoundIsHonest ==
  result.ended =>
    /\ result.counts.failed = 0 /\ result.counts.deferred = 0 /\ ~result.stopped =>
         \A a \in Archive : NothingLeft(a) \/ (a \in cramped /\ lies[a] # "unlisted") \/ a \in overlooked
    /\ result.counts.recovered = Cardinality({a \in Archive : <<"recovered", a>> \in reported})
    /\ \A a \in Archive : lies[a] \in {"recovered", "abandoned"} <=>
                            (<<"recovered", a>> \in reported \/ <<"fetch_gave_up", a>> \in reported)
=============================================================================
