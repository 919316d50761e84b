----------------------------- MODULE Catalogue -----------------------------
(***************************************************************************)
(* The broadcasts of one channel and the discoveries that describe them:   *)
(* UpsertBroadcast and what surrounds it (internal/store/broadcast.go), a  *)
(* live sighting (internal/daemon/watch.go) and the listings of stored     *)
(* copies (internal/backfill/discover.go).                                 *)
(*                                                                         *)
(* Two shows really happen, one after the other.  A row remembers, for the *)
(* properties alone, which of them it was made of.                         *)
(***************************************************************************)
EXTENDS Integers, Sequences, FiniteSets

CONSTANTS Window,       \* overlapWindow
          Day           \* bound on the clock

ASSUME CatalogueAssumption == Window \in Nat /\ Day \in Nat

Show == {1, 2}
None == -1              \* an identifier or a time nobody has

VARIABLES clock,        \* the time of day
          shown,        \* when each show began and ended
          named,        \* whether every source names the live session
          anchor,       \* the start the recorder agreed on for each live session
          session,      \* the row each live session writes to, or 0
          broadcasts    \* the rows of broadcasts

catalogue == <<clock, shown, named, anchor, session, broadcasts>>

Precedence == [live |-> 3, api |-> 2, tracker |-> 1]

Row == 1 .. Len(broadcasts)

----------------------------------------------------------------------------
(* UpsertBroadcast, one transaction                                        *)

Named(column, id) == {i \in Row : id # None /\ broadcasts[i][column] = id}

Agree(a, b) == a = None \/ b = None \/ a = b

Apart(s, t) == IF s < t THEN t - s ELSE s - t

(* An overlap that asks the clock alone.                                   *)
NearbyWhoever(b) == {i \in Row : Apart(broadcasts[i].start, b.start) <= Window}

(* A row near in time that names no other broadcast.                       *)
Nearby(b) == {i \in Row : /\ Apart(broadcasts[i].start, b.start) <= Window
                          /\ Agree(broadcasts[i].stream, b.stream)
                          /\ Agree(broadcasts[i].remote, b.remote)}

Nearest(b) == {i \in Nearby(b) : \A j \in Nearby(b) :
                 Apart(broadcasts[i].start, b.start) <= Apart(broadcasts[j].start, b.start)}

(* matchBroadcast: the stream id, then the copy's id, then the start.      *)
Match(b) ==
  IF Named("stream", b.stream) # {} THEN Named("stream", b.stream)
  ELSE IF Named("remote", b.remote) # {} THEN Named("remote", b.remote)
  ELSE Nearest(b)

Known(new, old) == IF new = None THEN old ELSE new

(* mergeTiming: a start moves to a better source's reading, and earlier to *)
(* the platform's own.                                                     *)
MergedStart(old, b) ==
  LET start == IF Precedence[b.source] > Precedence[old.source] THEN b.start ELSE old.start
  IN  IF b.source = "api" /\ b.start < start THEN b.start ELSE start

MergedEnd(old, b) ==
  IF b.end # None /\ (Precedence[b.source] > Precedence[old.source] \/ old.end = None)
  THEN b.end ELSE old.end

(* mergeDescription: an identifier or an address is never erased.          *)
Merge(old, b) ==
  [stream |-> Known(b.stream, old.stream), remote |-> Known(b.remote, old.remote),
   start |-> MergedStart(old, b), end |-> MergedEnd(old, b), vod |-> Known(b.vod, old.vod),
   source |-> IF Precedence[b.source] > Precedence[old.source] THEN b.source ELSE old.source,
   made |-> old.made \cup b.made]

(* Each identifier of a channel is unique: a merge that gives a row the id *)
(* another row has is refused by the database.                             *)
Clashes(i, b) == \E j \in Row \ {i} : \E column \in {"stream", "remote"} :
                   broadcasts[j][column] = b[column] /\ b[column] # None

Upsert(b) ==
  \/ Match(b) = {} /\ broadcasts' = Append(broadcasts, b)
  \/ \E i \in Match(b) :
       LET merged == Merge(broadcasts[i], b)
       IN  broadcasts' = IF Clashes(i, merged) THEN broadcasts
                         ELSE [broadcasts EXCEPT ![i] = merged]

----------------------------------------------------------------------------
(* The discoveries                                                         *)

OnAir(s) == shown[s].from <= clock /\ clock < shown[s].to

(* anchorFor: the platform's start where it can be asked, else the poll    *)
(* that saw the channel live, and the same for the rest of the session.    *)
Anchors(s) == IF anchor[s] # None THEN {anchor[s]} ELSE {clock, shown[s].from}

Sighting(s, start) ==
  [stream |-> IF named THEN s ELSE None, remote |-> None, start |-> start, end |-> None,
   vod |-> None, source |-> "live", made |-> {s}]

(* RunCycle's upsert, and noteBroadcast.                                   *)
Poll(s) ==
  /\ OnAir(s)
  /\ \E start \in Anchors(s) :
       /\ anchor' = [anchor EXCEPT ![s] = start]
       /\ Upsert(Sighting(s, start))
       /\ \E i \in DOMAIN broadcasts' :
            /\ s \in broadcasts'[i].made
            /\ i \in Match(Sighting(s, start)) \/ i = Len(broadcasts) + 1
            /\ session' = [session EXCEPT ![s] = i]
  /\ UNCHANGED <<clock, shown, named>>

(* closeBroadcast: SetBroadcastEnd refuses an end before the row's start.  *)
Close(s) ==
  /\ clock >= shown[s].to /\ anchor[s] # None
  /\ anchor' = [anchor EXCEPT ![s] = None] /\ session' = [session EXCEPT ![s] = 0]
  /\ broadcasts' = IF clock < broadcasts[session[s]].start THEN broadcasts
                   ELSE [broadcasts EXCEPT ![session[s]].end = clock]
  /\ UNCHANGED <<clock, shown, named>>

(* The recorder restarts and has agreed on nothing.                        *)
Forget ==
  /\ \E s \in Show : anchor[s] # None
  /\ anchor' = [s \in Show |-> None] /\ session' = [s \in Show |-> 0]
  /\ UNCHANGED <<clock, shown, named, broadcasts>>

(* endOf: no end near now, for the copy may still be growing.              *)
EndOf(s) == IF clock > shown[s].to THEN shown[s].to ELSE None

(* A listing with a real timestamp, which names the live session where its *)
(* source does.  The copy begins with the show.                            *)
Listing(s) ==
  [stream |-> IF named THEN s ELSE None, remote |-> s, start |-> shown[s].from,
   end |-> EndOf(s), vod |-> shown[s].from, source |-> "api", made |-> {s}]

List(s) ==
  /\ shown[s].from <= clock
  /\ Upsert(Listing(s))
  /\ UNCHANGED <<clock, shown, named, anchor, session>>

TimePasses ==
  /\ clock < Day /\ clock' = clock + 1
  /\ UNCHANGED <<shown, named, anchor, session, broadcasts>>

CatalogueInit ==
  /\ clock = 0 /\ named \in BOOLEAN
  /\ shown \in [Show -> [from : 0 .. Day, to : 1 .. Day]]
  /\ \A s \in Show : shown[s].from < shown[s].to
  /\ IF named THEN shown[1].to <= shown[2].from ELSE shown[1].to + Window < shown[2].from
  /\ anchor = [s \in Show |-> None] /\ session = [s \in Show |-> 0]
  /\ broadcasts = <<>>

CatalogueNext ==
  \/ TimePasses \/ Forget
  \/ \E s \in Show : Poll(s) \/ Close(s) \/ List(s)

CatalogueSpec == CatalogueInit /\ [][CatalogueNext]_catalogue

----------------------------------------------------------------------------

(* broadcast.go, matchBroadcast: merging two broadcasts "discards the      *)
(* second title, flips the identity" and reports one on a day that held    *)
(* two.  No row is made of two shows, where the sources name them or they  *)
(* are further apart than the window.                                      *)
RowsAreOneShow == \A i \in Row : Cardinality(broadcasts[i].made) <= 1
=============================================================================
