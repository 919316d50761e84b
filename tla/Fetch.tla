------------------------------- MODULE Fetch -------------------------------
(***************************************************************************)
(* Recovering one missed broadcast: its row in broadcast_fetches           *)
(* (internal/store/backfill.go) and the fetchers that claim it             *)
(* (internal/backfill/plan.go, fetch.go, pass.go), one per session of a    *)
(* recorder or a backfill command.  Rows of different broadcasts do not    *)
(* meet.  Times are abstracted to what a claim asks of them: whether the   *)
(* backoff has elapsed and whether the lease still holds, so the count of  *)
(* attempts, which only paces the retries, is left out.                    *)
(***************************************************************************)
EXTENDS FiniteSets

CONSTANTS Session       \* the processes that may fetch, one started after another

ASSUME FetchAssumption == "nobody" \notin Session

VARIABLES proc,         \* each session: new, up or ended
          pc,           \* where each session's fetch stands
          cancelled,    \* sessions whose round or command was cancelled
          row,          \* the broadcast's row in broadcast_fetches
          incoming,     \* the recording row at the download's own path
          kept,         \* whether a recovered recording is in the library
          live,         \* whether a live recording is in the library
          dropped,      \* history: sessions that failed to give a claim back
          calm          \* from here on nothing outside the program fails

vars == <<proc, pc, cancelled, row, incoming, kept, live, dropped, calm>>
world == <<incoming, kept, live>>

Step == {"idle", "claim", "check", "captured", "download", "create",
         "finalize", "release", "retry", "terminal", "abandon"}

Row == [state : {"none", "pending", "claimed", "done", "terminal"},
        by : Session \cup {"nobody"}, fresh : BOOLEAN, due : BOOLEAN]

Goto(f, step) == pc' = [pc EXCEPT ![f] = step]

(* An error leaves a cancelled fetch to give its claim back.               *)
Stops(f) == Goto(f, IF f \in cancelled THEN "abandon" ELSE "idle")

Unclaimed(state, due) ==
  [state |-> state, by |-> "nobody", fresh |-> FALSE, due |-> due]

----------------------------------------------------------------------------
(* The store: each call is one statement *)

(* A claim as a flag: nothing takes it from a fetcher that died.           *)
ClaimableOnce ==
  /\ row.state \notin {"terminal", "done"}
  /\ row.by = "nobody"
  /\ row.due

Claimable ==
  /\ row.state \notin {"terminal", "done"}
  /\ row.by = "nobody" \/ ~row.fresh
  /\ row.due

(* The backoff has elapsed, and stays so until a failure sets another.     *)
ClaimFetch(f) == row' = [state |-> "claimed", by |-> f, fresh |-> TRUE, due |-> TRUE]

(* A row the operator refused is left alone.                               *)
ReleaseFetch(state) == row' = IF row.state = "terminal" THEN row ELSE Unclaimed(state, row.due)

(* A failure that forgets what the operator said meanwhile.                *)
RecordFetchFailureAnyway(state) ==
  row' = Unclaimed(state, state = "terminal")

RecordFetchFailure(state) ==
  row' = IF row.state = "terminal" THEN row
         ELSE Unclaimed(state, state = "terminal")

AbandonFetch(f) ==
  row' = IF row.state = "claimed" /\ row.by = f THEN Unclaimed("pending", row.due) ELSE row

RefuseFetch == row' = Unclaimed("terminal", TRUE)

(* A store that does not answer leaves the claim to its lease.             *)
StoreCallFails(f) ==
  /\ ~calm
  /\ pc[f] \in {"captured", "release", "retry", "terminal", "abandon"}
  /\ IF pc[f] \in {"release", "abandon"} THEN Goto(f, "idle") ELSE Stops(f)
  /\ dropped' = dropped \cup {f}
  /\ UNCHANGED <<proc, cancelled, row, world, calm>>

----------------------------------------------------------------------------
(* One fetch *)

(* NeedsRecovery: no recording proves the broadcast was kept.              *)
NeedsRecovery == ~kept /\ ~live /\ incoming # "pending"

(* A pass plans a broadcast that is missing and due; it may reach it late. *)
Plan(f) ==
  /\ proc[f] = "up" /\ pc[f] = "idle" /\ f \notin cancelled
  /\ NeedsRecovery
  /\ row.state \notin {"terminal", "done"} /\ row.due
  /\ Goto(f, "claim")
  /\ UNCHANGED <<proc, cancelled, row, world, dropped, calm>>

Claim(f) ==
  /\ pc[f] = "claim"
  /\ IF Claimable THEN ClaimFetch(f) /\ Goto(f, "check")
                  ELSE UNCHANGED row /\ Goto(f, "idle")
  /\ UNCHANGED <<proc, cancelled, world, dropped, calm>>

(* refuseIfCaptured: only a live recording that was seen retires it.       *)
Check(f) ==
  /\ pc[f] = "check"
  /\ \/ Goto(f, IF live THEN "captured" ELSE "download")
     \/ ~calm /\ Goto(f, "retry")
  /\ UNCHANGED <<proc, cancelled, row, world, dropped, calm>>

(* A download that was cancelled is not charged; a file that is not where  *)
(* it was asked for is.                                                    *)
Download(f) ==
  /\ pc[f] = "download"
  /\ \/ Goto(f, "create")
     \/ ~calm /\ Goto(f, "retry")
     \/ ~calm /\ f \notin cancelled /\ Goto(f, "terminal")
     \/ f \in cancelled /\ Goto(f, "abandon")
  /\ UNCHANGED <<proc, cancelled, row, world, dropped, calm>>

(* A creation that takes every error of the store for a duplicate.         *)
CreateOrDone(f) ==
  /\ pc[f] = "create"
  /\ \/ /\ incoming = "none"
        /\ incoming' = "pending" /\ Goto(f, "finalize")
     \/ /\ incoming # "none" \/ ~calm
        /\ UNCHANGED incoming /\ Goto(f, "release")
  /\ UNCHANGED <<proc, cancelled, row, kept, live, dropped, calm>>

(* CreateRecording.  A path that is taken reads as fetched already.        *)
Create(f) ==
  /\ pc[f] = "create"
  /\ \/ /\ incoming = "none"
        /\ incoming' = "pending" /\ Goto(f, "finalize")
     \/ /\ incoming # "none"
        /\ UNCHANGED incoming /\ Goto(f, "release")
     \/ /\ ~calm
        /\ UNCHANGED incoming /\ Goto(f, "retry")
  /\ UNCHANGED <<proc, cancelled, row, kept, live, dropped, calm>>

Landed == incoming' = "none" /\ kept' = TRUE

(* Finalize fails of itself, because the sweep is at the recording         *)
(* (ErrBusy), or because the sweep gave it up.                             *)
Finalize(f) ==
  /\ pc[f] = "finalize"
  /\ \/ incoming = "pending" /\ Landed /\ Goto(f, "release")
     \/ incoming = "none" /\ UNCHANGED <<incoming, kept>> /\ Goto(f, "release")
     \/ UNCHANGED <<incoming, kept>> /\ Goto(f, "retry")
  /\ UNCHANGED <<proc, cancelled, row, live, dropped, calm>>

Release(f) ==
  /\ pc[f] \in {"captured", "release"}
  /\ ReleaseFetch("done")
  /\ IF pc[f] = "release" THEN Goto(f, "idle") ELSE Stops(f)
  /\ UNCHANGED <<proc, cancelled, world, dropped, calm>>

(* chargeFailure: only a classified answer of the platform is final.       *)
ChargeFailure(f) ==
  /\ pc[f] \in {"retry", "terminal"}
  /\ RecordFetchFailure(IF pc[f] = "retry" THEN "pending" ELSE "terminal")
  /\ Stops(f)
  /\ UNCHANGED <<proc, cancelled, world, dropped, calm>>

Abandon(f) ==
  /\ pc[f] = "abandon"
  /\ AbandonFetch(f)
  /\ Goto(f, "idle")
  /\ UNCHANGED <<proc, cancelled, world, dropped, calm>>

----------------------------------------------------------------------------
(* Around the fetch *)

(* A capture begins, and the round around the fetch is told to stop; the   *)
(* next round is not cancelled.                                            *)
Cancel(f) ==
  /\ ~calm
  /\ proc[f] = "up" /\ pc[f] # "idle" /\ f \notin cancelled
  /\ cancelled' = cancelled \cup {f}
  /\ UNCHANGED <<proc, pc, row, world, dropped, calm>>

NextRound(f) ==
  /\ f \in cancelled /\ pc[f] = "idle"
  /\ cancelled' = cancelled \ {f}
  /\ UNCHANGED <<proc, pc, row, world, dropped, calm>>

LeaseRuns ==
  /\ row.fresh
  /\ row' = [row EXCEPT !.fresh = FALSE]
  /\ UNCHANGED <<proc, pc, cancelled, world, dropped, calm>>

BackoffPasses ==
  /\ ~row.due
  /\ row' = [row EXCEPT !.due = TRUE]
  /\ UNCHANGED <<proc, pc, cancelled, world, dropped, calm>>

(* The recorder's sweep finishes what a fetch left, or gives up on it.     *)
Sweep ==
  /\ incoming = "pending"
  /\ \/ Landed
     \/ ~calm /\ incoming' = "failed" /\ UNCHANGED kept
  /\ UNCHANGED <<proc, pc, cancelled, row, live, dropped, calm>>

(* A live recording that was read as failed is recovered by its sweep.     *)
LiveLands ==
  /\ ~live /\ live' = TRUE
  /\ UNCHANGED <<proc, pc, cancelled, row, incoming, kept, dropped, calm>>

(* Organizer.Trash: the last recording of the broadcast refuses it.        *)
Purge ==
  /\ \/ kept /\ kept' = FALSE /\ UNCHANGED live
     \/ live /\ live' = FALSE /\ UNCHANGED kept
  /\ IF kept' \/ live' \/ incoming = "pending" THEN UNCHANGED row ELSE RefuseFetch
  /\ UNCHANGED <<proc, pc, cancelled, incoming, dropped, calm>>

(* A recorder starts beside one that is frozen, and a command beside both. *)
Start(f) ==
  /\ proc[f] = "new"
  /\ proc' = [proc EXCEPT ![f] = "up"]
  /\ UNCHANGED <<pc, cancelled, row, world, dropped, calm>>

(* A crash leaves the claim; the bound is the sessions there are.          *)
Crash(f) ==
  /\ proc[f] = "up"
  /\ \E g \in Session \ {f} : proc[g] # "ended"
  /\ proc' = [proc EXCEPT ![f] = "ended"]
  /\ Goto(f, "idle")
  /\ cancelled' = cancelled \ {f}
  /\ UNCHANGED <<row, world, dropped, calm>>

Calm == ~calm /\ calm' = TRUE /\ UNCHANGED <<proc, pc, cancelled, row, world, dropped>>

Init ==
  /\ proc = [f \in Session |-> "new"]
  /\ pc = [f \in Session |-> "idle"]
  /\ cancelled = {}
  /\ row = [state |-> "none", by |-> "nobody", fresh |-> FALSE, due |-> TRUE]
  /\ incoming = "none" /\ kept = FALSE /\ live = FALSE
  /\ dropped = {} /\ calm = FALSE

Works(f) ==
  \/ Claim(f) \/ Check(f) \/ Download(f) \/ Create(f) \/ Finalize(f)
  \/ Release(f) \/ ChargeFailure(f) \/ Abandon(f) \/ StoreCallFails(f)

Next ==
  \/ \E f \in Session : \/ Plan(f) \/ Works(f) \/ Cancel(f) \/ NextRound(f)
                        \/ Start(f) \/ Crash(f)
  \/ LeaseRuns \/ BackoffPasses \/ Sweep \/ LiveLands \/ Purge \/ Calm

FetchSpec == Init /\ [][Next]_vars

(* A session that is up plans and works, rounds come back, leases and      *)
(* backoffs run out, the sweep runs on a timer, and the time comes when    *)
(* the platform, the disk and the store answer and no capture interrupts.  *)
FetchFairSpec ==
  /\ FetchSpec
  /\ \A f \in Session : /\ WF_vars(Plan(f)) /\ WF_vars(Works(f))
                        /\ WF_vars(NextRound(f)) /\ WF_vars(Start(f))
  /\ WF_vars(LeaseRuns) /\ WF_vars(BackoffPasses)
  /\ WF_vars(Sweep) /\ WF_vars(Calm)

----------------------------------------------------------------------------
(* Properties *)

FetchTypeOK ==
  /\ proc \in [Session -> {"new", "up", "ended"}]
  /\ pc \in [Session -> Step]
  /\ cancelled \subseteq Session /\ dropped \subseteq Session
  /\ row \in Row
  /\ incoming \in {"none", "pending", "failed"}
  /\ kept \in BOOLEAN /\ live \in BOOLEAN /\ calm \in BOOLEAN
  /\ \A f \in Session : pc[f] # "idle" => proc[f] = "up"
  /\ row.state = "claimed" <=> row.by # "nobody"

(* backfill.go, FetchTerminal: "A timer must never move a broadcast out of *)
(* this state", nor may a fetch that was running when it was refused.      *)
TerminalIsFinal ==
  [][row.state = "terminal" => row'.state = "terminal"]_vars

(* backfill.go, FetchDone: no timer asks for a done broadcast again, so    *)
(* one that is done was captured, or has a recording a download left.      *)
DoneHasRecording ==
  row.state = "done" => kept \/ live \/ incoming # "none"

(* backfill.go, AbandonFetch and ReleaseFetch: "a broadcast is never left  *)
(* held by a fetcher that has moved on", cancelled or not, as long as the  *)
(* store took what it had to say.                                          *)
IdleHoldsNothing ==
  \A f \in Session :
    proc[f] = "up" /\ pc[f] = "idle" /\ f \notin dropped => row.by # f

(* backfill.go, ClaimFetch: a claim is "a lease rather than a flag".  What *)
(* is missing comes into the library, is refused, or was downloaded and    *)
(* given up on, however many fetchers died holding it.                     *)
MissedIsSettled ==
  ~kept /\ ~live ~> kept \/ live \/ row.state = "terminal" \/ incoming = "failed"
=============================================================================
