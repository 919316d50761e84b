------------------------------- MODULE Titles -------------------------------
(***************************************************************************)
(* What a broadcast was called while it ran: the readings the recorder     *)
(* takes as the database keeps them (internal/store/broadcast.go), the     *)
(* sidecars written beside the recordings, and what an import makes of     *)
(* them when the database is gone (internal/importer/importer.go).         *)
(*                                                                         *)
(* One broadcast and its recordings.  Readings of one poller are in order, *)
(* and a database is lost when the broadcast is over.                      *)
(***************************************************************************)
EXTENDS Integers, Sequences, FiniteSets

CONSTANTS Titled,       \* the recordings of the broadcast
          Called,       \* the names it goes by
          Readings      \* how often it is read

ASSUME TitlesAssumption == Readings \in Nat

Untitled == "untitled"
Says == (Called \cup {Untitled}) \X {"filed", Untitled}

VARIABLES read,         \* how often the broadcast was read
          heard,        \* the readings the database took
          history,      \* the observations, in the order they were stored
          headed,       \* what the broadcast's row is called
          sidecars,     \* for each recording the titles beside it
          gone,         \* whether the database was lost
          restored      \* the recordings an import restored whole

readings == <<read, heard, history, headed, sidecars, gone, restored>>

----------------------------------------------------------------------------
(* The history                                                             *)

(* The observation a reading follows: the latest of its instant or before, *)
(* and of those the last one stored.                                       *)
UpTo(taken, at) == {i \in DOMAIN taken : taken[i].at <= at}
Follows(taken, at) ==
  CHOOSE i \in UpTo(taken, at) :
    \A j \in UpTo(taken, at) : taken[j].at < taken[i].at \/ (taken[j].at = taken[i].at /\ j <= i)

(* Mutant of Repeats: compared with the newest on record.                  *)
RepeatsNewest(taken, at, says) ==
  LET all == UpTo(taken, Readings)
  IN  all # {} /\ taken[CHOOSE i \in all : \A j \in all : taken[j].at <= taken[i].at].says = says

Repeats(taken, at, says) == UpTo(taken, at) # {} /\ taken[Follows(taken, at)].says = says

(* ObserveTitle, in one transaction.                                       *)
ObserveTitle(taken, at, says) ==
  IF Repeats(taken, at, says) THEN taken ELSE Append(taken, [at |-> at, says |-> says])

(* TitleHistory, ordered by instant and by when it was stored.             *)
Earlier(i) ==
  {j \in DOMAIN history : history[j].at < history[i].at \/ (history[j].at = history[i].at /\ j < i)}
TitleHistory ==
  [n \in DOMAIN history |-> history[CHOOSE i \in DOMAIN history : Cardinality(Earlier(i)) = n - 1]]

(* SetBroadcastMetadata: what is not known leaves what is.                 *)
Kept(new, old) == IF new = Untitled THEN old ELSE new
SetBroadcastMetadata(says) == headed' = <<Kept(says[1], headed[1]), Kept(says[2], headed[2])>>

(* pollMetadata: an observation that fails leaves the row alone, and the   *)
(* row may fail after it.                                                  *)
PollTitle ==
  /\ ~gone /\ read < Readings /\ read' = read + 1
  /\ \E says \in Says \ {<<Untitled, Untitled>>} :
       \/ UNCHANGED <<heard, history, headed>>
       \/ /\ heard' = heard \cup {[at |-> read', says |-> says]}
          /\ history' = ObserveTitle(history, read', says)
          /\ SetBroadcastMetadata(says) \/ UNCHANGED headed
  /\ UNCHANGED <<sidecars, gone, restored>>

(* writeSidecar, at each finalize of the recording.                        *)
WriteSidecar ==
  /\ ~gone /\ \E r \in Titled : sidecars' = [sidecars EXCEPT ![r] = TitleHistory]
  /\ UNCHANGED <<read, heard, history, headed, gone, restored>>

LoseDatabase ==
  /\ ~gone /\ gone' = TRUE /\ history' = <<>> /\ headed' = <<Untitled, Untitled>> /\ restored' = {}
  /\ UNCHANGED <<read, heard, sidecars>>

(* restoreDetail: each observation by itself, and the ones the store       *)
(* refuses are noted; a killed import stops, and its file is passed over   *)
(* by the next one.  For the runs' sake the history has a longest length.  *)
Replay(taken, kept, some) ==
  LET after[i \in 0 .. Len(kept)] ==
        IF i = 0 THEN taken
        ELSE IF i \in some THEN ObserveTitle(after[i - 1], kept[i].at, kept[i].says) ELSE after[i - 1]
  IN  after[Len(kept)]

RestoreTitles ==
  /\ gone
  /\ \E r \in Titled : \E some \in SUBSET DOMAIN sidecars[r] :
       /\ r \notin restored
       /\ history' = Replay(history, sidecars[r], some)
       /\ restored' = IF some = DOMAIN sidecars[r] THEN restored \cup {r} ELSE restored
       /\ Len(history') <= 2 * Readings
  /\ UNCHANGED <<read, heard, headed, sidecars, gone>>

----------------------------------------------------------------------------

TitlesInit ==
  /\ read = 0 /\ heard = {} /\ history = <<>> /\ headed = <<Untitled, Untitled>>
  /\ sidecars = [r \in Titled |-> <<>>] /\ gone = FALSE /\ restored = {}

TitlesNext ==
  \/ PollTitle \/ WriteSidecar \/ LoseDatabase \/ RestoreTitles

TitlesSpec == TitlesInit /\ [][TitlesNext]_readings

----------------------------------------------------------------------------

(* Whether the titles say of an instant what was read then.                *)
Tells(taken, at, says) == UpTo(taken, at) # {} /\ taken[Follows(taken, at)].says = says

(* broadcast.go, ObserveTitle, and importer.go, restoreDetail: the history *)
(* says of every reading's instant what was read then, although repeats    *)
(* are left out; and of every instant of a sidecar that was restored what  *)
(* the sidecar says, in whatever order the files are imported and whatever *)
(* an earlier import left out.                                             *)
TitlesReturn ==
  /\ ~gone => \A h \in heard : Tells(history, h.at, h.says)
  /\ \A r \in restored : \A i \in DOMAIN sidecars[r] :
       Tells(history, sidecars[r][i].at, sidecars[r][i].says)
=============================================================================
