----------------------- MODULE RecorderSessionProofs -----------------------
(***************************************************************************)
(* Theorems about RecorderSession, for every set of processes and every    *)
(* value of the bounds.                                                    *)
(***************************************************************************)
EXTENDS RecorderSession, SequenceTheorems, TLAPS

\* No row is stamped in the future, and no process remembers a beat that is
\* yet to come.  Without it a downtime would not be a length of time.
StampsOK ==
    /\ \A id \in DOMAIN rows : rows[id].started <= now /\ rows[id].heartbeat <= now
    /\ \A p \in Proc : previous[p] <= now

TypeInv == TypeOK /\ StampsOK

-----------------------------------------------------------------------------
(* What the store's operators return.                                      *)

LEMMA StoppedType ==
    ASSUME NEW row \in Row, NEW at \in Nat
    PROVE  /\ Stopped(row, at) \in Row
           /\ Stopped(row, at).started = row.started
           /\ Stopped(row, at).heartbeat = at
           /\ ~ Stopped(row, at).open
  BY DEF Stopped, Row

LEMMA NewRowType ==
    ASSUME NEW at \in Nat
    PROVE  /\ NewRow(at) \in Row
           /\ NewRow(at).started = at
           /\ NewRow(at).heartbeat = at
           /\ NewRow(at).open
  BY DEF NewRow, Row

\* Appending a row leaves the others where they are.
LEMMA AppendRow ==
    ASSUME NEW table \in Seq(Row), NEW row \in Row
    PROVE  /\ Append(table, row) \in Seq(Row)
           /\ Len(Append(table, row)) = Len(table) + 1
           /\ DOMAIN Append(table, row) = DOMAIN table \cup {Len(table) + 1}
           /\ \A id \in DOMAIN table : Append(table, row)[id] = table[id]
           /\ Append(table, row)[Len(table) + 1] = row
           /\ Len(table) + 1 \notin DOMAIN table
           /\ Len(table) \in Nat
           /\ DOMAIN table = 1 .. Len(table)
  <1>1. /\ Append(table, row) \in Seq(Row)
        /\ Len(Append(table, row)) = Len(table) + 1
        /\ \A id \in 1 .. Len(table) : Append(table, row)[id] = table[id]
        /\ Append(table, row)[Len(table) + 1] = row
    BY AppendProperties
  <1>2. Len(table) \in Nat /\ DOMAIN table = 1 .. Len(table)
    BY LenProperties
  <1>3. DOMAIN Append(table, row) = 1 .. Len(table) + 1
    BY <1>1, LenProperties
  <1> QED BY <1>1, <1>2, <1>3

\* Replacing one row leaves the others where they are.
LEMMA UpdateRow ==
    ASSUME NEW table \in Seq(Row), NEW id \in DOMAIN table, NEW row \in Row
    PROVE  /\ [table EXCEPT ![id] = row] \in Seq(Row)
           /\ DOMAIN [table EXCEPT ![id] = row] = DOMAIN table
           /\ Len([table EXCEPT ![id] = row]) = Len(table)
           /\ [table EXCEPT ![id] = row][id] = row
           /\ \A i \in DOMAIN table : i # id => [table EXCEPT ![id] = row][i] = table[i]
  BY ExceptSeq, LenProperties

\* A downtime is a length of time when no row is stamped in the future.
LEMMA DowntimeType ==
    ASSUME NEW table \in Seq(Row), NEW at \in Nat,
           \A id \in DOMAIN table : table[id].started <= at /\ table[id].heartbeat <= at
    PROVE  Downtime(table, at) \in Nat
  <1>1. CASE table = <<>>
    BY <1>1 DEF Downtime
  <1>2. CASE table # <<>>
    <2>1. Len(table) \in DOMAIN table /\ table[Len(table)] \in Row
      BY <1>2, EmptySeq, LenProperties, ElementOfSeq
    <2> QED BY <2>1, <1>2 DEF Downtime, Row
  <1> QED BY <1>1, <1>2

-----------------------------------------------------------------------------
(* Type correctness.  It asks nothing of the environment: processes may     *)
(* freeze, the store may fail and the database may be rebuilt.              *)

LEMMA TypeInvInit == Init => TypeInv
  BY SessionAssumption, EmptySeq DEF Init, TypeInv, TypeOK, StampsOK, Proc, Phase

LEMMA TypeInvNext == TypeInv /\ [Next]_vars => TypeInv'
  <1> SUFFICES ASSUME TypeInv, [Next]_vars PROVE TypeInv'
    OBVIOUS
  <1> USE SessionAssumption DEF TypeInv, TypeOK, StampsOK
  <1>a. ASSUME NEW id \in DOMAIN rows
        PROVE  rows[id] \in Row /\ rows[id].started \in Nat /\ rows[id].heartbeat \in Nat
    <2>1. id \in 1 .. Len(rows)
      BY LenProperties
    <2>2. rows[id] \in Row
      BY <2>1, ElementOfSeq
    <2> QED BY <2>2 DEF Row
  <1>1. CASE Tick
    BY <1>1, <1>a DEF Tick
  <1>2. CASE Rebuild
    BY <1>2, EmptySeq DEF Rebuild
  <1>3. ASSUME NEW p \in Proc, Start(p) PROVE TypeInv'
    <2>1. Downtime(rows, now) \in Nat
      BY DowntimeType
    <2>2. rows' = Append(rows, NewRow(now))
      BY <1>3 DEF Start
    <2> QED BY <1>3, <2>1, <2>2, AppendRow, NewRowType DEF Start, Seen, Phase
  <1>4. ASSUME NEW p \in Proc, BeginBeating(p) PROVE TypeInv'
    BY <1>4 DEF BeginBeating, Phase
  <1>5. ASSUME NEW p \in Proc, Wake(p) PROVE TypeInv'
    <2>1. CASE ~ (p \in Recorder /\ now - previous[p] > StaleAfter)
      BY <1>5, <2>1 DEF Wake, Phase
    <2>2. CASE p \in Recorder /\ now - previous[p] > StaleAfter
      <3>1. /\ phase' \in [Proc -> Phase]
            /\ now' = now /\ previous' = previous /\ rebuilds' = rebuilds
            /\ measured' \in [Proc -> Nat]
            /\ watched' \in Nat
        <4>1. now - previous[p] \in Nat
          OBVIOUS
        <4>2. measured' = [measured EXCEPT ![p] = now - previous[p]]
          BY <1>5, <2>2 DEF Wake
        <4>3. phase' = [phase EXCEPT ![p] = "beating"]
          BY <1>5 DEF Wake
        <4>4. watched' \in {watched, now}
          BY <1>5, <2>2 DEF Wake
        <4>5. now' = now /\ previous' = previous /\ rebuilds' = rebuilds
          BY <1>5 DEF Wake
        <4> QED BY <4>1, <4>2, <4>3, <4>4, <4>5 DEF Phase
      <3>2. CASE ReopenFailed(p)
        BY <3>1, <3>2 DEF ReopenFailed
      <3>3. CASE Reopened(p)
        <4> DEFINE stop == Stopped(rows[current[p]], previous[p])
                   closed == [rows EXCEPT ![current[p]] = stop]
        <4>1. /\ current[p] \in DOMAIN rows
              /\ rows' = Append(closed, NewRow(now))
              /\ current' = [current EXCEPT ![p] = Len(rows) + 1]
          BY <3>3 DEF Reopened, Present
        <4>2. /\ stop \in Row
              /\ stop.started = rows[current[p]].started
              /\ stop.heartbeat = previous[p]
          BY <4>1, <1>a, StoppedType
        <4>3. /\ closed \in Seq(Row)
              /\ DOMAIN closed = DOMAIN rows
              /\ closed[current[p]] = stop
              /\ \A i \in DOMAIN rows : i # current[p] => closed[i] = rows[i]
          BY <4>1, <4>2, UpdateRow
        <4>4. \A i \in DOMAIN closed : closed[i].started <= now /\ closed[i].heartbeat <= now
          BY <4>1, <4>2, <4>3, <1>a
        <4>5. rows' \in Seq(Row) /\ Len(rows) \in Nat
          BY <4>1, <4>3, NewRowType, AppendRow, LenProperties
        <4>6. \A i \in DOMAIN rows' : rows'[i].started <= now /\ rows'[i].heartbeat <= now
          <5> HIDE DEF closed
          <5> QED BY <4>1, <4>3, <4>4, NewRowType, AppendRow
        <4> QED BY <3>1, <4>1, <4>5, <4>6
      <3> QED BY <1>5, <2>2, <3>2, <3>3 DEF Wake
    <2> QED BY <2>1, <2>2
  <1>6. ASSUME NEW p \in Proc, Beat(p) PROVE TypeInv'
    <2> DEFINE row == [rows[current[p]] EXCEPT !.heartbeat = now]
    <2>1. current[p] \in DOMAIN rows /\ rows' = [rows EXCEPT ![current[p]] = row]
      BY <1>6 DEF Beat, Present
    <2>2. row \in Row /\ row.started = rows[current[p]].started /\ row.heartbeat = now
      BY <2>1, <1>a DEF Row
    <2>3. /\ rows' \in Seq(Row)
          /\ \A i \in DOMAIN rows' : rows'[i].started <= now /\ rows'[i].heartbeat <= now
      BY <2>1, <2>2, <1>a, UpdateRow
    <2> QED BY <1>6, <2>3 DEF Beat, Seen, Phase
  <1>7. ASSUME NEW p \in Proc, BeatFails(p) PROVE TypeInv'
    BY <1>7 DEF BeatFails, Phase
  <1>8. ASSUME NEW p \in Proc, Reclaim(p) PROVE TypeInv'
    <2>1. CASE rows' = rows /\ current' = current /\ watched' = watched
      BY <1>8, <2>1 DEF Reclaim, Phase
    <2>2. CASE /\ rows' = Append(rows, NewRow(now))
               /\ current' = [current EXCEPT ![p] = Len(rows) + 1]
               /\ watched' = now
      BY <1>8, <2>2, AppendRow, NewRowType DEF Reclaim, Phase
    <2> QED BY <1>8, <2>1, <2>2 DEF Reclaim
  <1>9. ASSUME NEW p \in Proc, Stop(p) PROVE TypeInv'
    <2> DEFINE stop == Stopped(rows[current[p]], now)
    <2>1. /\ rows' \in Seq(Row)
          /\ \A i \in DOMAIN rows' : rows'[i].started <= now /\ rows'[i].heartbeat <= now
      <3>1. CASE Present(current[p])
        <4>1. current[p] \in DOMAIN rows /\ rows' = [rows EXCEPT ![current[p]] = stop]
          BY <1>9, <3>1 DEF Stop, Present
        <4>2. stop \in Row /\ stop.started = rows[current[p]].started /\ stop.heartbeat = now
          BY <4>1, <1>a, StoppedType
        <4> HIDE DEF stop
        <4> QED BY <4>1, <4>2, <1>a, UpdateRow
      <3>2. CASE ~ Present(current[p])
        BY <1>9, <3>2 DEF Stop
      <3> QED BY <3>1, <3>2
    <2> QED BY <1>9, <2>1 DEF Stop, Seen, Phase
  <1>10. ASSUME NEW p \in Proc, Crash(p) PROVE TypeInv'
    BY <1>10 DEF Crash, Phase
  <1>11. CASE UNCHANGED vars
    BY <1>11 DEF vars
  <1> QED
    BY <1>1, <1>2, <1>3, <1>4, <1>5, <1>6, <1>7, <1>8, <1>9, <1>10, <1>11 DEF Next

\* Every variable keeps its type, whatever the environment does.
THEOREM TypeCorrect == Spec => []TypeOK
  <1>1. TypeInv => TypeOK
    BY DEF TypeInv
  <1> QED BY <1>1, TypeInvInit, TypeInvNext, PTL DEF Spec

-----------------------------------------------------------------------------
(* A running process beats into an open row that is its own.  Processes may *)
(* freeze for any length of time and the store may fail; only a database    *)
(* rebuilt underneath a process takes its row away.                         *)

HolderInv == TypeInv /\ rebuilds = 0 /\ HolderRowOpen

\* A database that was rebuilt stays rebuilt.
LEMMA RebuildsGrow ==
    ASSUME TypeInv, [Next]_vars
    PROVE  /\ rebuilds' = 0 => rebuilds = 0
           /\ MaxRebuilds = 0 => rebuilds' = rebuilds
  <1>1. rebuilds \in Nat
    BY DEF TypeInv, TypeOK
  <1>2. CASE Rebuild
    BY <1>1, <1>2, SessionAssumption DEF Rebuild
  <1>3. CASE Tick
    BY <1>3 DEF Tick
  <1>4. ASSUME NEW p \in Proc,
               \/ Start(p) \/ BeginBeating(p) \/ Wake(p) \/ Beat(p) \/ BeatFails(p)
               \/ Reclaim(p) \/ Stop(p) \/ Crash(p)
        PROVE  rebuilds' = rebuilds
    BY <1>4 DEF Start, BeginBeating, Wake, Beat, BeatFails, Reclaim, Stop, Crash
  <1>5. CASE UNCHANGED vars
    BY <1>5 DEF vars
  <1> QED BY <1>2, <1>3, <1>4, <1>5 DEF Next

LEMMA HolderInvInit == Init => HolderInv
  BY TypeInvInit DEF Init, HolderInv, HolderRowOpen, Running

LEMMA HolderInvNext ==
    ASSUME HolderInv, [Next]_vars, rebuilds' = 0
    PROVE  HolderInv'
  <1> USE SessionAssumption DEF HolderInv
  <1>1. TypeInv'
    BY TypeInvNext
  <1>2. TypeOK /\ StampsOK
    BY DEF TypeInv
  <1>3. rows \in Seq(Row) /\ DOMAIN rows = 1 .. Len(rows) /\ Len(rows) \in Nat
    BY <1>2, LenProperties DEF TypeOK
  <1>4. \A id \in DOMAIN rows : rows[id] \in Row
    BY <1>3, ElementOfSeq
  <1>5. /\ phase \in [Proc -> Phase] /\ current \in [Proc -> Nat]
        /\ previous \in [Proc -> Nat] /\ now \in Nat
    BY <1>2 DEF TypeOK
  <1>6. CASE Tick
    BY <1>1, <1>6 DEF Tick, HolderRowOpen, Running, Present
  <1>7. CASE Rebuild
    BY <1>7, <1>2 DEF Rebuild, TypeOK
  <1>8. ASSUME NEW p \in Proc, Start(p) PROVE HolderInv'
    <2>1. rows' = Append(rows, NewRow(now)) /\ NewRow(now) \in Row /\ NewRow(now).open
      BY <1>8, <1>5, NewRowType DEF Start
    <2>2. /\ DOMAIN rows' = DOMAIN rows \cup {Len(rows) + 1}
          /\ \A id \in DOMAIN rows : rows'[id] = rows[id]
          /\ rows'[Len(rows) + 1].open
          /\ Len(rows) + 1 \notin DOMAIN rows
      BY <2>1, <1>3, AppendRow
    <2>3. /\ phase' = [phase EXCEPT ![p] = "starting"]
          /\ current' = [current EXCEPT ![p] = Len(rows) + 1]
          /\ rebuilds' = rebuilds
      BY <1>8 DEF Start
    <2> QED BY <1>1, <1>5, <2>2, <2>3 DEF HolderRowOpen, Running, Present
  <1>9. ASSUME NEW p \in Proc, BeginBeating(p) PROVE HolderInv'
    BY <1>1, <1>5, <1>9 DEF BeginBeating, HolderRowOpen, Running, Present
  <1>10. ASSUME NEW p \in Proc, Wake(p) PROVE HolderInv'
    <2>1. /\ phase' = [phase EXCEPT ![p] = "beating"] /\ phase[p] = "waiting"
          /\ rebuilds' = rebuilds
      BY <1>10 DEF Wake
    <2>2. CASE rows' = rows /\ current' = current
      BY <1>1, <1>5, <2>1, <2>2 DEF HolderRowOpen, Running, Present
    <2>3. CASE Reopened(p)
      <3> DEFINE stop == Stopped(rows[current[p]], previous[p])
                 closed == [rows EXCEPT ![current[p]] = stop]
      <3>1. /\ current[p] \in DOMAIN rows
            /\ rows' = Append(closed, NewRow(now))
            /\ current' = [current EXCEPT ![p] = Len(rows) + 1]
        BY <2>3 DEF Reopened, Present
      <3>2. stop \in Row
        BY <3>1, <1>4, <1>5, StoppedType
      <3>3. /\ closed \in Seq(Row) /\ Len(closed) = Len(rows)
            /\ DOMAIN closed = DOMAIN rows
            /\ \A i \in DOMAIN rows : i # current[p] => closed[i] = rows[i]
        BY <1>3, <3>1, <3>2, UpdateRow
      <3> HIDE DEF closed
      <3>4. NewRow(now) \in Row /\ NewRow(now).open
        BY <1>5, NewRowType
      <3>5. /\ DOMAIN rows' = DOMAIN rows \cup {Len(rows) + 1}
            /\ \A i \in DOMAIN rows : i # current[p] => rows'[i] = rows[i]
            /\ rows'[Len(rows) + 1].open
            /\ Len(rows) + 1 \notin DOMAIN rows
        BY <3>1, <3>3, <3>4, AppendRow
      <3> QED BY <1>1, <1>5, <2>1, <3>1, <3>5 DEF HolderRowOpen, Running, Present
    <2> QED BY <1>10, <2>2, <2>3 DEF Wake, ReopenFailed
  <1>11. ASSUME NEW p \in Proc, Beat(p) PROVE HolderInv'
    <2> DEFINE row == [rows[current[p]] EXCEPT !.heartbeat = now]
    <2>1. current[p] \in DOMAIN rows /\ rows' = [rows EXCEPT ![current[p]] = row]
      BY <1>11 DEF Beat, Present
    <2>2. row \in Row /\ row.open = rows[current[p]].open
      BY <2>1, <1>4, <1>5 DEF Row
    <2> HIDE DEF row
    <2>3. DOMAIN rows' = DOMAIN rows /\ \A i \in DOMAIN rows : rows'[i].open = rows[i].open
      BY <2>1, <2>2, <1>3, UpdateRow
    <2>4. /\ phase' = [phase EXCEPT ![p] = "waiting"] /\ phase[p] = "beating"
          /\ current' = current /\ rebuilds' = rebuilds
      BY <1>11 DEF Beat
    <2> QED BY <1>1, <1>5, <2>3, <2>4 DEF HolderRowOpen, Running, Present
  <1>12. ASSUME NEW p \in Proc, BeatFails(p) PROVE HolderInv'
    BY <1>1, <1>5, <1>12 DEF BeatFails, HolderRowOpen, Running, Present
  <1>13. ASSUME NEW p \in Proc, Reclaim(p) PROVE HolderInv'
    BY <1>13 DEF Reclaim, HolderRowOpen, Running
  <1>14. ASSUME NEW p \in Proc, Stop(p) PROVE HolderInv'
    <2> DEFINE stop == Stopped(rows[current[p]], now)
    <2>1. Running(p) /\ current[p] \in DOMAIN rows
      BY <1>14 DEF Stop, HolderRowOpen, Running, Present
    <2>2. rows' = [rows EXCEPT ![current[p]] = stop] /\ stop \in Row
      BY <1>14, <2>1, <1>4, <1>5, StoppedType DEF Stop, Present
    <2> HIDE DEF stop
    <2>3. /\ DOMAIN rows' = DOMAIN rows
          /\ \A i \in DOMAIN rows : i # current[p] => rows'[i] = rows[i]
      BY <2>1, <2>2, <1>3, UpdateRow
    <2>4. /\ phase' = [phase EXCEPT ![p] = "down"]
          /\ current' = [current EXCEPT ![p] = 0]
          /\ rebuilds' = rebuilds
      BY <1>14 DEF Stop
    <2> QED BY <1>1, <1>5, <2>1, <2>3, <2>4 DEF HolderRowOpen, Running, Present
  <1>15. ASSUME NEW p \in Proc, Crash(p) PROVE HolderInv'
    BY <1>1, <1>5, <1>15 DEF Crash, HolderRowOpen, Running, Present
  <1>16. CASE UNCHANGED vars
    BY <1>1, <1>16 DEF vars, HolderRowOpen, Running, Present
  <1> QED
    BY <1>6, <1>7, <1>8, <1>9, <1>10, <1>11, <1>12, <1>13, <1>14, <1>15, <1>16
    DEF Next

\* A process that runs beats into an open row no other process beats into,
\* whatever freezes and store failures it meets: ReopenSession's stop is
\* never committed without its successor.
THEOREM HolderKeepsItsRow == Spec => []HolderRowOpen
  <1> DEFINE Inv == TypeInv /\ (rebuilds = 0 => HolderInv)
  <1>1. Init => Inv
    BY HolderInvInit, TypeInvInit
  <1>2. Inv /\ [Next]_vars => Inv'
    <2> SUFFICES ASSUME Inv, [Next]_vars PROVE Inv'
      OBVIOUS
    <2>1. TypeInv'
      BY TypeInvNext
    <2>2. ASSUME rebuilds' = 0 PROVE HolderInv'
      <3>1. rebuilds = 0
        BY <2>2, RebuildsGrow
      <3> QED BY <2>2, <3>1, HolderInvNext
    <2> QED BY <2>1, <2>2
  <1>3. Inv => HolderRowOpen
    BY DEF HolderInv, HolderRowOpen
  <1> QED BY <1>1, <1>2, <1>3, PTL DEF Spec

-----------------------------------------------------------------------------
(* One recorder at a time, as long as no living holder goes StaleAfter       *)
(* without landing a beat.                                                   *)

\* How the rows keep the library single: a living holder's last beat is
\* recent enough for its row to be live, so every start is refused, and its
\* memory of that beat is no older, so it never takes itself for frozen.
LeaseFresh ==
    \A p \in Proc : Running(p) =>
        /\ now <= rows[current[p]].heartbeat + MaxLag
        /\ phase[p] # "starting" => rows[current[p]].heartbeat <= previous[p]

LeaseInv == HolderInv /\ SingleHolder /\ LeaseFresh

LEMMA LeaseInvInit == Init => LeaseInv
  BY HolderInvInit DEF Init, LeaseInv, SingleHolder, LeaseFresh, Running

\* While a process runs, the library is held.
LEMMA RunningHolds ==
    ASSUME LeaseInv, MaxLag < StaleAfter, NEW p \in Proc, Running(p)
    PROVE  Held(rows, now)
  <1>1. current[p] \in DOMAIN rows /\ rows[current[p]].open
    BY DEF LeaseInv, HolderInv, HolderRowOpen, Present
  <1>2. rows \in Seq(Row) /\ now \in Nat
    BY DEF LeaseInv, HolderInv, TypeInv, TypeOK
  <1>3. rows[current[p]] \in Row
    BY <1>1, <1>2, LenProperties, ElementOfSeq
  <1>4. rows[current[p]].heartbeat + StaleAfter > now
    BY <1>2, <1>3, SessionAssumption DEF LeaseInv, LeaseFresh, Row
  <1> QED BY <1>1, <1>4 DEF Held, Live

LEMMA LeaseInvNext ==
    ASSUME MaxRebuilds = 0, MaxLag < StaleAfter, LeaseInv, [Next]_vars
    PROVE  LeaseInv'
  <1> USE SessionAssumption DEF LeaseInv
  <1>1. HolderInv'
    BY HolderInvNext, RebuildsGrow DEF HolderInv
  <1>2. /\ rows \in Seq(Row) /\ DOMAIN rows = 1 .. Len(rows) /\ Len(rows) \in Nat
        /\ phase \in [Proc -> Phase] /\ current \in [Proc -> Nat]
        /\ previous \in [Proc -> Nat] /\ now \in Nat
        /\ \A p \in Proc : previous[p] <= now
        /\ \A id \in DOMAIN rows : rows[id].heartbeat <= now
    BY LenProperties DEF HolderInv, TypeInv, TypeOK, StampsOK
  <1>3. ASSUME NEW id \in DOMAIN rows
        PROVE  rows[id] \in Row /\ rows[id].heartbeat \in Nat
    <2>1. rows[id] \in Row
      BY <1>2, ElementOfSeq
    <2> QED BY <2>1 DEF Row
  <1>4. \A p \in Proc : Running(p) => current[p] \in DOMAIN rows
    BY DEF HolderInv, HolderRowOpen, Present
  <1>5. CASE Tick
    <2>1. /\ rows' = rows /\ phase' = phase /\ current' = current
          /\ previous' = previous /\ now' = now + 1
      BY <1>5 DEF Tick
    <2>2. \A p \in Proc : Running(p) => now + 1 <= rows[current[p]].heartbeat + MaxLag
      BY <1>2, <1>3, <1>4, <1>5 DEF Tick, Present
    <2> QED BY <1>1, <2>1, <2>2 DEF SingleHolder, LeaseFresh, Running
  <1>6. CASE Rebuild
    BY <1>6 DEF Rebuild, HolderInv, TypeInv, TypeOK
  <1>7. ASSUME NEW p \in Proc, Start(p) PROVE LeaseInv'
    <2>1. ~ \E q \in Proc : Running(q)
      BY <1>7, RunningHolds DEF Start
    <2>2. rows' = Append(rows, NewRow(now)) /\ NewRow(now) \in Row
          /\ NewRow(now).heartbeat = now
      BY <1>7, <1>2, NewRowType DEF Start
    <2>3. rows'[Len(rows) + 1].heartbeat = now
      BY <2>2, <1>2, AppendRow
    <2>4. /\ phase' = [phase EXCEPT ![p] = "starting"]
          /\ current' = [current EXCEPT ![p] = Len(rows) + 1]
          /\ now' = now /\ previous' = previous
      BY <1>7 DEF Start
    <2>5. \A q \in Proc : Running(q)' => q = p
      BY <2>1, <2>4, <1>2 DEF Running
    <2>6. LeaseFresh'
      BY <2>3, <2>4, <2>5, <1>2 DEF LeaseFresh, Running
    <2> QED BY <1>1, <2>5, <2>6 DEF SingleHolder
  <1>8. ASSUME NEW p \in Proc, BeginBeating(p) PROVE LeaseInv'
    <2>1. /\ phase' = [phase EXCEPT ![p] = "waiting"] /\ phase[p] = "starting"
          /\ previous' = [previous EXCEPT ![p] = now]
          /\ now' = now /\ rows' = rows /\ current' = current
      BY <1>8 DEF BeginBeating
    <2>2. current[p] \in DOMAIN rows
      BY <1>4, <2>1 DEF Running
    <2> QED BY <1>1, <1>2, <2>1, <2>2 DEF SingleHolder, LeaseFresh, Running
  <1>9. ASSUME NEW p \in Proc, Wake(p) PROVE LeaseInv'
    <2>1. Running(p) /\ phase[p] = "waiting" /\ current[p] \in DOMAIN rows
      BY <1>4, <1>9 DEF Wake, Running
    <2>2. ~ (now - previous[p] > StaleAfter)
      <3>1. rows[current[p]].heartbeat \in Nat
        BY <2>1, <1>3
      <3>2. /\ now <= rows[current[p]].heartbeat + MaxLag
            /\ rows[current[p]].heartbeat <= previous[p]
        BY <2>1 DEF LeaseFresh
      <3>3. previous[p] \in Nat
        BY <1>2
      <3> QED BY <3>1, <3>2, <3>3, <1>2
    <2>3. /\ phase' = [phase EXCEPT ![p] = "beating"]
          /\ now' = now /\ previous' = previous
          /\ rows' = rows /\ current' = current
      BY <2>2, <1>9 DEF Wake
    <2> QED BY <1>1, <1>2, <2>1, <2>3 DEF SingleHolder, LeaseFresh, Running
  <1>10. ASSUME NEW p \in Proc, Beat(p) PROVE LeaseInv'
    <2> DEFINE row == [rows[current[p]] EXCEPT !.heartbeat = now]
    <2>1. current[p] \in DOMAIN rows /\ rows' = [rows EXCEPT ![current[p]] = row]
      BY <1>10 DEF Beat, Present
    <2>2. row \in Row /\ row.heartbeat = now
      BY <2>1, <1>3, <1>2 DEF Row
    <2> HIDE DEF row
    <2>3. rows'[current[p]].heartbeat = now
      BY <2>1, <2>2, <1>2, UpdateRow
    <2>4. /\ phase' = [phase EXCEPT ![p] = "waiting"] /\ phase[p] = "beating"
          /\ previous' = [previous EXCEPT ![p] = now]
          /\ current' = current /\ now' = now
      BY <1>10 DEF Beat
    <2>5. \A q \in Proc : Running(q)' => q = p
      BY <2>4, <1>2 DEF SingleHolder, Running
    <2>6. LeaseFresh'
      BY <2>3, <2>4, <2>5, <1>2 DEF LeaseFresh
    <2> QED BY <1>1, <2>5, <2>6 DEF SingleHolder
  <1>11. ASSUME NEW p \in Proc, BeatFails(p) PROVE LeaseInv'
    <2>1. /\ phase' = [phase EXCEPT ![p] = "waiting"] /\ phase[p] = "beating"
          /\ previous' = [previous EXCEPT ![p] = now]
          /\ now' = now /\ rows' = rows /\ current' = current
      BY <1>11 DEF BeatFails
    <2>2. current[p] \in DOMAIN rows
      BY <1>4, <2>1 DEF Running
    <2> QED BY <1>1, <1>2, <2>1, <2>2 DEF SingleHolder, LeaseFresh, Running
  <1>12. ASSUME NEW p \in Proc, Reclaim(p) PROVE LeaseInv'
    BY <1>12, <1>4 DEF Reclaim, Present, Running
  <1>13. ASSUME NEW p \in Proc, Stop(p) \/ Crash(p) PROVE LeaseInv'
    <2>1. \A q \in Proc : ~ Running(q)'
      BY <1>13, <1>2 DEF Stop, Crash, SingleHolder, Running
    <2> QED BY <1>1, <2>1 DEF SingleHolder, LeaseFresh
  <1>14. CASE UNCHANGED vars
    BY <1>1, <1>14 DEF vars, SingleHolder, LeaseFresh, Running
  <1> QED
    BY <1>5, <1>6, <1>7, <1>8, <1>9, <1>10, <1>11, <1>12, <1>13, <1>14 DEF Next

\* One library takes one recorder, for any number of processes, as long as a
\* living holder lands a beat within StaleAfter of its last one and nobody
\* rebuilds the database underneath it.
THEOREM OneRecorder ==
    ASSUME MaxRebuilds = 0, MaxLag < StaleAfter
    PROVE  Spec => []SingleHolder
  <1>1. LeaseInv => SingleHolder
    BY DEF LeaseInv
  <1>2. LeaseInv /\ [Next]_vars => LeaseInv'
    BY LeaseInvNext
  <1> QED BY <1>1, <1>2, LeaseInvInit, PTL DEF Spec

-----------------------------------------------------------------------------
(* Under the same condition the session rows implement the abstract lock.    *)

LEMMA HolderIs ==
    ASSUME SingleHolder
    PROVE  /\ \A p \in Proc : Running(p) => Holder = p
           /\ (\A p \in Proc : ~ Running(p)) => Holder = NoProc
  BY DEF Holder, SingleHolder

LEMMA ClaimStep ==
    ASSUME MaxRebuilds = 0, MaxLag < StaleAfter, LeaseInv, [Next]_vars
    PROVE  [Claim!ClaimNext]_Holder
  <1>1. LeaseInv'
    BY LeaseInvNext
  <1>2. SingleHolder /\ SingleHolder' /\ phase \in [Proc -> Phase]
    BY <1>1 DEF LeaseInv, HolderInv, TypeInv, TypeOK
  <1>3. CASE phase' = phase
    BY <1>3 DEF Holder, Running
  <1>4. ASSUME NEW p \in Proc, Start(p) PROVE Claim!Take(p)
    <2>1. \A q \in Proc : ~ Running(q)
      BY <1>4, RunningHolds DEF Start
    <2>2. Running(p)'
      BY <1>2, <1>4 DEF Start, Running
    <2>3. Holder' = p
      BY <1>2, <2>2 DEF Holder, SingleHolder
    <2> QED BY <2>1, <2>3, <1>2, HolderIs DEF Claim!Take
  <1>5. ASSUME NEW p \in Proc, Stop(p) \/ Crash(p) PROVE Claim!GiveUp(p)
    <2>1. Running(p)
      BY <1>5 DEF Stop, Crash, Running
    <2>2. \A q \in Proc : ~ Running(q)'
      BY <1>2, <1>5 DEF Stop, Crash, SingleHolder, Running
    <2>3. Holder' = NoProc
      BY <2>2 DEF Holder
    <2> QED BY <2>1, <2>3, <1>2, HolderIs DEF Claim!GiveUp
  <1>6. ASSUME NEW p \in Proc,
               BeginBeating(p) \/ Wake(p) \/ Beat(p) \/ BeatFails(p) \/ Reclaim(p)
        PROVE  Holder' = Holder
    <2>1. \A q \in Proc : Running(q)' <=> Running(q)
      BY <1>2, <1>6 DEF BeginBeating, Wake, Beat, BeatFails, Reclaim, Running
    <2>2. CASE \E q \in Proc : Running(q)
      <3>1. PICK q \in Proc : Running(q) /\ Running(q)'
        BY <2>1, <2>2
      <3>2. Holder = q /\ Holder' = q
        BY <1>2, <3>1 DEF Holder, SingleHolder
      <3> QED BY <3>2
    <2>3. CASE ~ \E q \in Proc : Running(q)
      BY <2>1, <2>3 DEF Holder
    <2> QED BY <2>2, <2>3
  <1> QED
    BY <1>3, <1>4, <1>5, <1>6 DEF Next, vars, Tick, Rebuild, Claim!ClaimNext

\* The session rows implement the lock of LibraryClaim.
THEOREM SessionsImplementClaim ==
    ASSUME MaxRebuilds = 0, MaxLag < StaleAfter
    PROVE  Spec => ImplementsClaim
  <1>1. Init => Claim!ClaimInit
    BY DEF Init, Holder, Running, Claim!ClaimInit
  <1>2. LeaseInv /\ [Next]_vars => LeaseInv'
    BY LeaseInvNext
  <1>3. LeaseInv /\ [Next]_vars => [Claim!ClaimNext]_Holder
    BY ClaimStep
  <1> QED BY <1>1, <1>2, <1>3, LeaseInvInit, PTL DEF Spec, ImplementsClaim, Claim!ClaimSpec
-----------------------------------------------------------------------------
(* An outage is measured whole.                                             *)

\* No row is older than what the store last saw of a recorder, and a table
\* that was never rebuilt and is empty has seen none.
SeenInv ==
    /\ TypeInv
    /\ \A id \in DOMAIN rows : rows[id].started <= watched /\ rows[id].heartbeat <= watched
    /\ rebuilds = 0 /\ rows = <<>> => watched = 0

LEMMA SeenInvNext ==
    ASSUME Pass = {}, SeenInv, [Next]_vars
    PROVE  SeenInv'
  <1> USE SessionAssumption DEF SeenInv
  <1>1. TypeInv /\ TypeInv' /\ TypeOK /\ StampsOK
    BY TypeInvNext DEF TypeInv
  <1>2. /\ rows \in Seq(Row) /\ DOMAIN rows = 1 .. Len(rows) /\ Len(rows) \in Nat
        /\ now \in Nat /\ watched \in Nat /\ rebuilds \in Nat
        /\ current \in [Proc -> Nat] /\ previous \in [Proc -> Nat]
    BY <1>1, LenProperties DEF TypeOK
  <1>3. ASSUME NEW id \in DOMAIN rows
        PROVE  rows[id] \in Row /\ rows[id].started \in Nat /\ rows[id].heartbeat \in Nat
    <2>1. rows[id] \in Row
      BY <1>2, ElementOfSeq
    <2> QED BY <2>1 DEF Row
  <1>4. \A id \in DOMAIN rows : rows[id].started <= now /\ rows[id].heartbeat <= now
    BY <1>1 DEF StampsOK
  <1>5. \A p \in Proc : p \in Recorder /\ Seen(p) = now /\ previous[p] <= now
    BY <1>1 DEF Proc, Seen, StampsOK
  (* A claim is appended at this moment.                                    *)
  <1>6. ASSUME NEW table \in Seq(Row), rows' = Append(table, NewRow(now)), watched' = now,
               \A id \in DOMAIN table : table[id].started <= now /\ table[id].heartbeat <= now
        PROVE  SeenInv'
    <2>1. NewRow(now) \in Row /\ NewRow(now).started = now /\ NewRow(now).heartbeat = now
      BY <1>2, NewRowType
    <2>2. /\ DOMAIN rows' = DOMAIN table \cup {Len(table) + 1}
          /\ \A id \in DOMAIN table : rows'[id] = table[id]
          /\ rows'[Len(table) + 1] = NewRow(now)
          /\ Len(rows') = Len(table) + 1 /\ Len(table) \in Nat
      BY <1>6, <2>1, AppendRow
    <2>3. rows' # <<>>
      BY <2>2, EmptySeq
    <2> QED BY <1>1, <1>2, <1>6, <2>1, <2>2, <2>3
  (* A row is stamped with this moment or an earlier one.                   *)
  <1>7. ASSUME NEW id \in DOMAIN rows, NEW row \in Row, rows' = [rows EXCEPT ![id] = row],
               row.started = rows[id].started, row.heartbeat <= now, watched' = now
        PROVE  SeenInv'
    <2>1. /\ DOMAIN rows' = DOMAIN rows /\ rows'[id] = row
          /\ \A i \in DOMAIN rows : i # id => rows'[i] = rows[i]
      BY <1>2, <1>7, UpdateRow
    <2>2. rows' # <<>>
      BY <2>1
    <2> QED BY <1>1, <1>3, <1>4, <1>7, <2>1, <2>2
  <1>8. ASSUME UNCHANGED <<rows, watched, rebuilds>> PROVE SeenInv'
    BY <1>1, <1>8
  <1>9. CASE Tick
    BY <1>8, <1>9 DEF Tick
  <1>10. CASE Rebuild
    BY <1>1, <1>2, <1>10, EmptySeq DEF Rebuild
  <1>11. ASSUME NEW p \in Proc, Start(p) PROVE SeenInv'
    BY <1>2, <1>4, <1>5, <1>6, <1>11 DEF Start
  <1>12. ASSUME NEW p \in Proc, BeginBeating(p) \/ BeatFails(p) \/ Crash(p) PROVE SeenInv'
    BY <1>8, <1>12 DEF BeginBeating, BeatFails, Crash
  <1>13. ASSUME NEW p \in Proc, Wake(p) PROVE SeenInv'
    <2>1. CASE UNCHANGED <<rows, watched>>
      BY <1>8, <1>13, <2>1 DEF Wake
    <2>2. CASE Reopened(p) /\ watched' = (IF rows' = rows THEN watched ELSE now)
      <3> DEFINE stop == Stopped(rows[current[p]], previous[p])
                 closed == [rows EXCEPT ![current[p]] = stop]
      <3>1. current[p] \in DOMAIN rows /\ rows' = Append(closed, NewRow(now))
        BY <2>2 DEF Reopened, Present
      <3>2. stop \in Row /\ stop.started = rows[current[p]].started /\ stop.heartbeat = previous[p]
        BY <1>2, <1>3, <3>1, StoppedType
      <3>3. /\ closed \in Seq(Row) /\ DOMAIN closed = DOMAIN rows /\ Len(closed) = Len(rows)
            /\ closed[current[p]] = stop
            /\ \A i \in DOMAIN rows : i # current[p] => closed[i] = rows[i]
        BY <1>2, <3>1, <3>2, UpdateRow
      <3>4. \A i \in DOMAIN closed : closed[i].started <= now /\ closed[i].heartbeat <= now
        BY <1>4, <1>5, <3>1, <3>2, <3>3
      <3> HIDE DEF closed
      <3>5. Len(rows') = Len(rows) + 1
        BY <1>2, <3>1, <3>3, AppendRow, NewRowType
      <3>6. watched' = now
        BY <1>2, <2>2, <3>5
      <3> QED BY <1>6, <3>1, <3>3, <3>4, <3>6
    <2> QED BY <1>13, <2>1, <2>2 DEF Wake, ReopenFailed
  <1>14. ASSUME NEW p \in Proc, Beat(p) PROVE SeenInv'
    <2> DEFINE row == [rows[current[p]] EXCEPT !.heartbeat = now]
    <2>1. current[p] \in DOMAIN rows /\ rows' = [rows EXCEPT ![current[p]] = row]
      BY <1>14 DEF Beat, Present
    <2>2. row \in Row /\ row.started = rows[current[p]].started /\ row.heartbeat = now
      BY <1>2, <1>3, <2>1 DEF Row
    <2> HIDE DEF row
    <2>3. row.heartbeat <= now /\ watched' = now
      BY <1>2, <1>5, <1>14, <2>2 DEF Beat
    <2> QED BY <1>7, <2>1, <2>2, <2>3
  <1>15. ASSUME NEW p \in Proc, Reclaim(p) PROVE SeenInv'
    BY <1>2, <1>4, <1>6, <1>8, <1>15 DEF Reclaim
  <1>16. ASSUME NEW p \in Proc, Stop(p) PROVE SeenInv'
    <2>1. CASE Present(current[p])
      <3> DEFINE stop == Stopped(rows[current[p]], now)
      <3>1. current[p] \in DOMAIN rows /\ rows' = [rows EXCEPT ![current[p]] = stop]
        BY <1>16, <2>1 DEF Stop, Present
      <3>2. stop \in Row /\ stop.started = rows[current[p]].started /\ stop.heartbeat = now
        BY <1>2, <1>3, <3>1, StoppedType
      <3> HIDE DEF stop
      <3>3. stop.heartbeat <= now /\ watched' = now
        BY <1>2, <1>5, <1>16, <2>1, <3>2 DEF Stop
      <3> QED BY <1>7, <3>1, <3>2, <3>3
    <2>2. CASE ~ Present(current[p])
      BY <1>8, <1>16, <2>2 DEF Stop
    <2> QED BY <2>1, <2>2
  <1>17. CASE UNCHANGED vars
    BY <1>8, <1>17 DEF vars
  <1> QED
    BY <1>9, <1>10, <1>11, <1>12, <1>13, <1>14, <1>15, <1>16, <1>17 DEF Next

LEMMA StartMeasures ==
    ASSUME SeenInv, NEW p \in Recorder, Start(p), watched > 0, rebuilds = 0
    PROVE  measured'[p] >= now - watched
  <1>1. /\ rows \in Seq(Row) /\ measured \in [Proc -> Nat] /\ now \in Nat /\ watched \in Nat
        /\ p \in Proc
    BY DEF SeenInv, TypeInv, TypeOK, Proc
  <1>2. measured'[p] = Downtime(rows, now)
    BY <1>1 DEF Start
  <1>3. rows # <<>>
    BY <1>1 DEF SeenInv
  <1>4. Len(rows) \in DOMAIN rows
    BY <1>1, <1>3, EmptySeq, LenProperties
  <1>5. rows[Len(rows)] \in Row
    BY <1>1, <1>4, ElementOfSeq, LenProperties
  <1>6. rows[Len(rows)].started <= watched /\ rows[Len(rows)].heartbeat <= watched
    BY <1>4 DEF SeenInv
  <1> QED BY <1>1, <1>2, <1>3, <1>5, <1>6 DEF Downtime, Row

\* README.md:46-47: among recorders alone, however long they freeze, and
\* whichever stop, crash or refused store call an outage began with, what the
\* next start measures covers it.  A pass claims the library too, and a
\* recorder that starts after one measures its downtime against the pass.
THEOREM OutageIsCovered == Pass = {} => (Spec => DowntimeCoversOutage)
  <1> SUFFICES ASSUME Pass = {} PROVE Spec => DowntimeCoversOutage
    OBVIOUS
  <1>1. Init => SeenInv
    BY TypeInvInit DEF Init, SeenInv
  <1>2. SeenInv /\ [Next]_vars => SeenInv'
    BY SeenInvNext
  <1>3. SeenInv /\ [Next]_vars =>
          [\A p \in Recorder :
              (/\ phase[p] = "down" /\ phase'[p] = "starting"
               /\ watched > 0 /\ rebuilds = 0) =>
                  measured'[p] >= now - watched]_vars
    <2> SUFFICES ASSUME SeenInv, Next, NEW p \in Recorder,
                        phase[p] = "down", phase'[p] = "starting", watched > 0, rebuilds = 0
                 PROVE  measured'[p] >= now - watched
      OBVIOUS
    <2>1. p \in Proc /\ phase \in [Proc -> Phase]
      BY DEF SeenInv, TypeInv, TypeOK, Proc
    <2>2. Start(p)
      BY <2>1 DEF Next, Tick, Rebuild, Start, BeginBeating, Wake, Beat, BeatFails, Reclaim, Stop, Crash
    <2> QED BY <2>2, StartMeasures
  <1> QED BY <1>1, <1>2, <1>3, PTL DEF Spec, DowntimeCoversOutage

\* daemon.go:904-913: a beat that finds its row gone takes the library again
\* unless somebody else holds it, whatever else happens.
THEOREM ClaimIsRetaken == Spec => LostClaimIsRetaken
  <1>1. Init => TypeInv
    BY TypeInvInit
  <1>2. TypeInv /\ [Next]_vars => TypeInv'
    BY TypeInvNext
  <1>3. TypeInv /\ [Next]_vars =>
          [\A p \in Recorder :
              (/\ phase[p] = "beating" /\ phase'[p] = "waiting"
               /\ ~ StoreFails /\ Len(rows) < MaxRows) =>
                  \/ current'[p] \in DOMAIN rows'
                  \/ Held(rows, now)]_vars
    <2> SUFFICES ASSUME TypeInv, Next, NEW p \in Recorder,
                        phase[p] = "beating", phase'[p] = "waiting", ~ StoreFails, Len(rows) < MaxRows
                 PROVE  current'[p] \in DOMAIN rows' \/ Held(rows, now)
      OBVIOUS
    <2>1. /\ p \in Proc /\ phase \in [Proc -> Phase] /\ current \in [Proc -> Nat]
          /\ rows \in Seq(Row) /\ now \in Nat
      BY DEF TypeInv, TypeOK, Proc
    <2>2. Beat(p) \/ Reclaim(p)
      BY <2>1 DEF Next, Tick, Rebuild, Start, BeginBeating, Wake, Beat, BeatFails, Reclaim, Stop, Crash
    <2>3. CASE Beat(p)
      <3> DEFINE row == [rows[current[p]] EXCEPT !.heartbeat = now]
      <3>1. current[p] \in DOMAIN rows /\ rows' = [rows EXCEPT ![current[p]] = row] /\ current' = current
        BY <2>3 DEF Beat, Present
      <3> QED BY <3>1
    <2>4. CASE Reclaim(p)
      <3>1. CASE Held(rows, now)
        BY <3>1
      <3>2. CASE ~ Held(rows, now)
        <4>1. rows' = Append(rows, NewRow(now)) /\ current'[p] = Len(rows) + 1
          BY <2>1, <2>4, <3>2 DEF Reclaim
        <4> QED BY <2>1, <4>1, AppendRow, NewRowType
      <3> QED BY <3>1, <3>2
    <2> QED BY <2>2, <2>3, <2>4
  <1> QED BY <1>1, <1>2, <1>3, PTL DEF Spec, LostClaimIsRetaken
=============================================================================
