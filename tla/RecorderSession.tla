-------------------------- MODULE RecorderSession --------------------------
(***************************************************************************)
(* The claim on a library: internal/store/store.go's daemon_sessions rows  *)
(* and the code that beats into them, internal/daemon/daemon.go for a      *)
(* recorder and cmd/stream-dvr/backfill.go for a backfill pass.            *)
(*                                                                         *)
(* A claim is a row with no stop time whose heartbeat is younger than      *)
(* StaleAfter.  There is no lock file: a holder that dies releases the     *)
(* library by falling silent.  Every store call is one transaction that    *)
(* takes the write lock as it begins, so each is one atomic step here.     *)
(*                                                                         *)
(* Time is counted in heartbeat intervals.  A frozen process (a suspended  *)
(* laptop) is one that takes no step while time passes.                    *)
(***************************************************************************)
EXTENDS Naturals, Sequences

CONSTANTS
    Recorder,     \* processes that run `serve`: they detect a freeze
    Pass,         \* processes that run `backfill`: they only beat
    NoProc,       \* no process
    StaleAfter,   \* how long a silent holder keeps the library
    MaxLag,       \* environment: the longest a living holder goes between
                  \* two beats that reach the store
    StoreFails,   \* environment: whether a store call may fail (busy)
    MaxTime,      \* bound on the clock
    MaxRows,      \* bound on the session rows
    MaxRebuilds   \* bound on how often the database is rebuilt underneath

ASSUME SessionAssumption ==
    /\ Recorder \cap Pass = {}
    /\ NoProc \notin Recorder \cup Pass
    /\ StaleAfter \in Nat \ {0}
    /\ MaxLag \in Nat
    /\ StoreFails \in BOOLEAN
    /\ MaxTime \in Nat /\ MaxRows \in Nat /\ MaxRebuilds \in Nat

Proc == Recorder \cup Pass

VARIABLES
    now,        \* the clock every process and every row is stamped from
    rows,       \* daemon_sessions, in id order
    phase,      \* what each process is doing
    current,    \* the row each process beats into, 0 for none
    previous,   \* when each process took its previous beat, in memory
    measured,   \* the downtime the last start or freeze of a recorder measured
    rebuilds,   \* how often the database was rebuilt
    watched     \* history: when a row last recorded a recorder alive, 0 for
                \* never

vars == <<now, rows, phase, current, previous, measured, rebuilds, watched>>

\* A row of daemon_sessions.  stopped_at is only ever read as null or not.
Row == [started : Nat, heartbeat : Nat, open : BOOLEAN]

\* A recorder that has claimed the library and has not reached its heartbeat
\* loop is "starting"; one between two beats is "waiting"; one whose ticker
\* fired and whose beat has not landed is "beating".
Phase == {"down", "starting", "waiting", "beating"}

Running(p) == phase[p] # "down"

TypeOK ==
    /\ now \in Nat
    /\ rows \in Seq(Row)
    /\ phase \in [Proc -> Phase]
    /\ current \in [Proc -> Nat]
    /\ previous \in [Proc -> Nat]
    /\ measured \in [Proc -> Nat]
    /\ rebuilds \in Nat
    /\ watched \in Nat

-----------------------------------------------------------------------------
(* The store's view of the rows.                                           *)

Present(id) == id \in DOMAIN rows

\* Mutant of Live: the query reads started_at for heartbeat_at.
LiveSinceStart(row, at) == row.open /\ row.started + StaleAfter > at

\* liveSessionQuery: no stop, and a heartbeat after at - StaleAfter.
Live(row, at) == row.open /\ row.heartbeat + StaleAfter > at

Held(table, at) == \E id \in DOMAIN table : Live(table[id], at)

NewRow(at) == [started |-> at, heartbeat |-> at, open |-> TRUE]

Stopped(row, at) == [started |-> row.started, heartbeat |-> at, open |-> FALSE]

\* Mutant of Downtime: a clean stop is read as no downtime at all.
DowntimeAfterCrash(table, at) ==
    IF table = <<>> \/ ~ table[Len(table)].open THEN 0
    ELSE at - table[Len(table)].heartbeat

\* StartSession's downtime: this start against the row before it, which is
\* whatever claimed the library last.
Downtime(table, at) ==
    IF table = <<>> THEN 0
    ELSE LET last == table[Len(table)]
         IN  IF at - last.heartbeat > at - last.started
             THEN at - last.started ELSE at - last.heartbeat

Seen(p) == IF p \in Recorder THEN now ELSE watched

-----------------------------------------------------------------------------

Init ==
    /\ now = 1
    /\ rows = <<>>
    /\ phase = [p \in Proc |-> "down"]
    /\ current = [p \in Proc |-> 0]
    /\ previous = [p \in Proc |-> 0]
    /\ measured = [p \in Proc |-> 0]
    /\ rebuilds = 0
    /\ watched = 0

\* StartSession: the check and the insert share one transaction.  A start
\* that is refused writes nothing, so it is not a step.
Start(p) ==
    /\ phase[p] = "down"
    /\ Len(rows) < MaxRows
    /\ ~ Held(rows, now)
    /\ rows' = Append(rows, NewRow(now))
    /\ phase' = [phase EXCEPT ![p] = "starting"]
    /\ current' = [current EXCEPT ![p] = Len(rows) + 1]
    /\ measured' = [measured EXCEPT ![p] = Downtime(rows, now)]
    /\ watched' = Seen(p)
    /\ UNCHANGED <<now, previous, rebuilds>>

\* The head of heartbeatLoop and of holdClaim: the first `previous` is taken
\* only after the start-up reconcile and sweep have run.
BeginBeating(p) ==
    /\ phase[p] = "starting"
    /\ phase' = [phase EXCEPT ![p] = "waiting"]
    /\ previous' = [previous EXCEPT ![p] = now]
    /\ UNCHANGED <<now, rows, current, measured, rebuilds, watched>>

\* ReopenSession under its one transaction: the old row is stopped at the
\* last honest beat, then the library is asked for, then the successor is
\* inserted.  A library somebody else holds rolls the stop back too.
Reopened(p) ==
    LET closed == [rows EXCEPT ![current[p]] = Stopped(@, previous[p])]
    IN  /\ Present(current[p])
        /\ ~ Held(closed, now)
        /\ Len(rows) < MaxRows
        /\ rows' = Append(closed, NewRow(now))
        /\ current' = [current EXCEPT ![p] = Len(rows) + 1]

\* Mutant of ReopenFailed: the stop is committed before the library is asked
\* for, so a refusal does not roll it back.
ReopenFailedAfterStop(p) ==
    /\ Present(current[p])
    /\ rows' = [rows EXCEPT ![current[p]] = Stopped(@, previous[p])]
    /\ UNCHANGED current

\* Why a reopen fails: the row is gone, the library is held, the row bound,
\* or the store could not answer.  The old session is left as it is.
ReopenFailed(p) ==
    /\ \/ StoreFails
       \/ ~ Present(current[p])
       \/ Held([rows EXCEPT ![current[p]] = Stopped(@, previous[p])], now)
       \/ Len(rows) >= MaxRows
    /\ UNCHANGED <<rows, current>>

\* The ticker fires.  A recorder that finds the beat late enough to have been
\* frozen queues recovery for the gap and reopens its session.
Wake(p) ==
    /\ phase[p] = "waiting"
    /\ phase' = [phase EXCEPT ![p] = "beating"]
    /\ IF p \in Recorder /\ now - previous[p] > StaleAfter
       THEN /\ Reopened(p) \/ ReopenFailed(p)
            /\ measured' = [measured EXCEPT ![p] = now - previous[p]]
            /\ watched' = IF rows' = rows THEN watched ELSE now
       ELSE UNCHANGED <<rows, current, measured, watched>>
    /\ UNCHANGED <<now, previous, rebuilds>>

\* Heartbeat: an update by id that asks nothing about the row but that it is
\* there.  The recorder takes this moment as its previous beat whether or
\* not the update landed.
Beat(p) ==
    /\ phase[p] = "beating"
    /\ Present(current[p])
    /\ rows' = [rows EXCEPT ![current[p]].heartbeat = now]
    /\ phase' = [phase EXCEPT ![p] = "waiting"]
    /\ previous' = [previous EXCEPT ![p] = now]
    /\ watched' = Seen(p)
    /\ UNCHANGED <<now, current, measured, rebuilds>>

\* A heartbeat the store could not take is logged and left to the next one.
BeatFails(p) ==
    /\ phase[p] = "beating"
    /\ StoreFails
    /\ phase' = [phase EXCEPT ![p] = "waiting"]
    /\ previous' = [previous EXCEPT ![p] = now]
    /\ UNCHANGED <<now, rows, current, measured, rebuilds, watched>>

\* Mutant of Reclaim: a heartbeat that finds no row is only logged.
ReclaimOnlyLogs(p) ==
    /\ phase[p] = "beating"
    /\ ~ Present(current[p])
    /\ phase' = [phase EXCEPT ![p] = "waiting"]
    /\ previous' = [previous EXCEPT ![p] = now]
    /\ UNCHANGED <<now, rows, current, measured, rebuilds, watched>>

\* reclaim: a recorder whose row is gone asks for the library again, and a
\* refusal is left to the next beat.  A pass only logs.
Reclaim(p) ==
    /\ phase[p] = "beating"
    /\ ~ Present(current[p])
    /\ phase' = [phase EXCEPT ![p] = "waiting"]
    /\ previous' = [previous EXCEPT ![p] = now]
    /\ IF p \in Recorder /\ ~ Held(rows, now) /\ Len(rows) < MaxRows
       THEN /\ rows' = Append(rows, NewRow(now))
            /\ current' = [current EXCEPT ![p] = Len(rows) + 1]
            /\ watched' = now
       ELSE UNCHANGED <<rows, current, watched>>
    /\ UNCHANGED <<now, measured, rebuilds>>

\* recordStop and a pass's deferred StopSession.  The stop also moves the
\* heartbeat to now.  The heartbeat loop has ended by the time it runs.
Stop(p) ==
    /\ phase[p] \in {"starting", "waiting"}
    /\ rows' = IF Present(current[p])
               THEN [rows EXCEPT ![current[p]] = Stopped(@, now)]
               ELSE rows
    /\ phase' = [phase EXCEPT ![p] = "down"]
    /\ current' = [current EXCEPT ![p] = 0]
    /\ watched' = IF Present(current[p]) THEN Seen(p) ELSE watched
    /\ UNCHANGED <<now, previous, measured, rebuilds>>

\* A kill, a power loss, or a stop the store refused: the row stays open.
Crash(p) ==
    /\ Running(p)
    /\ phase' = [phase EXCEPT ![p] = "down"]
    /\ current' = [current EXCEPT ![p] = 0]
    /\ UNCHANGED <<now, rows, previous, measured, rebuilds, watched>>

\* The database is rebuilt from the library's sidecars while processes run.
\* No sidecar holds a session row, and the new table numbers from one again.
Rebuild ==
    /\ rebuilds < MaxRebuilds
    /\ rows' = <<>>
    /\ rebuilds' = rebuilds + 1
    /\ UNCHANGED <<now, phase, current, previous, measured, watched>>

\* Time passes, no further than MaxLag past the last beat of a living holder.
Tick ==
    /\ now < MaxTime
    /\ \A p \in Proc : Running(p) /\ Present(current[p]) =>
           now < rows[current[p]].heartbeat + MaxLag
    /\ now' = now + 1
    /\ UNCHANGED <<rows, phase, current, previous, measured, rebuilds, watched>>

Next ==
    \/ Tick
    \/ Rebuild
    \/ \E p \in Proc :
          \/ Start(p) \/ BeginBeating(p) \/ Wake(p) \/ Beat(p) \/ BeatFails(p)
          \/ Reclaim(p) \/ Stop(p) \/ Crash(p)

Spec == Init /\ [][Next]_vars

-----------------------------------------------------------------------------
(* Properties.                                                             *)

\* README.md:43-44 and store.go:164-169: one library takes one recorder.  At
\* most one process runs against the library at a time.
SingleHolder ==
    \A p, q \in Proc : Running(p) /\ Running(q) => p = q

\* What makes a running process the holder: the row it beats into is there,
\* was never stopped under it, and no other process beats into that row.  A
\* reopen that stopped the old row and was then refused would break it.  Only
\* a rebuilt database takes a row away.
HolderRowOpen ==
    rebuilds = 0 => \A p \in Proc : Running(p) =>
        /\ Present(current[p])
        /\ rows[current[p]].open
        /\ \A q \in Proc : Running(q) /\ current[q] = current[p] => p = q

\* The claim as an abstract lock: its holder is the process that runs.
Holder == IF \E p \in Proc : Running(p)
          THEN CHOOSE p \in Proc : Running(p) ELSE NoProc

Claim == INSTANCE LibraryClaim WITH holder <- Holder

\* The session rows implement the lock: a process comes to run only when no
\* other does, and no process takes the library from the one running.
ImplementsClaim == Claim!ClaimSpec

\* README.md:46-47: after a restart a recorder measures how long it was down.
\* What a start measures is at least the time since the store last saw a
\* recorder alive, so no outage goes unreported or unrecovered.  A rebuilt
\* database remembers none.
DowntimeCoversOutage ==
    [][\A p \in Recorder :
          (/\ phase[p] = "down" /\ phase'[p] = "starting"
           /\ watched > 0 /\ rebuilds = 0) =>
              measured'[p] >= now - watched]_vars

\* A recorder that beats into nothing takes the library again the moment no
\* other process holds it (daemon.go:904-913): it never goes back to waiting
\* without a row while the library is free.
LostClaimIsRetaken ==
    [][\A p \in Recorder :
          (/\ phase[p] = "beating" /\ phase'[p] = "waiting"
           /\ ~ StoreFails /\ Len(rows) < MaxRows) =>
              \/ current'[p] \in DOMAIN rows'
              \/ Held(rows, now)]_vars
=============================================================================
