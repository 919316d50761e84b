------------------------------- MODULE Screen -------------------------------
(***************************************************************************)
(* The calendar window (internal/tui/model.go, purge.go): the one reload   *)
(* under way at a time, and the purge pane with its ranking and its        *)
(* prompt.                                                                 *)
(*                                                                         *)
(* A key is answered at once; what it asks for is done beside the keys and *)
(* comes back as a message, in any order.                                  *)
(***************************************************************************)
EXTENDS Integers, FiniteSets

CONSTANTS Month, Channel,   \* the months and the channels to look at
          Rec,              \* the recordings that may be purged
          Presses           \* bound on the keys that are pressed

ASSUME ScreenAssumption == Presses \in Nat /\ Month # {} /\ Channel # {} /\ 0 \notin Month

VARIABLES want,         \* the month and the channel selected
          loading,      \* what the reload under way was asked for
          reload,       \* another was asked for meanwhile
          onGrid,       \* what the rows on the grid are of
          failed,       \* whether the last reload failed
          purgePane,    \* whether the purge pane has the keys
          shelf,        \* what may be said of each recording
          ranking,      \* the recordings listed
          selected,     \* the recordings chosen from the list
          confirming,   \* whether the prompt stands
          purging,      \* whether an answer to a purge is awaited
          asked,        \* the rankings under way: what each has read, if it has
          trashing,     \* the purges under way: what each has still to move
          presses       \* how many keys were pressed

grid == <<want, loading, reload, onGrid, failed>>
purge == <<purgePane, shelf, ranking, selected, confirming, purging, asked, trashing>>
screen == <<want, loading, reload, onGrid, failed, purgePane, shelf, ranking, selected, confirming,
            purging, asked, trashing, presses>>

View == [month : Month, channel : Channel]
NoView == [month |-> 0, channel |-> 0]
Unread == {"unread"}

Press == presses < Presses /\ presses' = presses + 1
CalendarKey == Press /\ ~purgePane
PurgeKey == Press /\ purgePane

----------------------------------------------------------------------------
(* The grid                                                                *)

(* A reload that drops what is asked for while it runs.                    *)
RefreshOrDrop(view) ==
  IF loading # NoView THEN UNCHANGED <<loading, reload>>
  ELSE loading' = view /\ UNCHANGED reload

(* refresh: one at a time, and the request behind it is remembered.        *)
Refresh(view) ==
  IF loading # NoView THEN reload' = TRUE /\ UNCHANGED loading
  ELSE loading' = view /\ UNCHANGED reload

(* moveCursor over the edge, shiftMonth, goToday and selectChannel.        *)
Go ==
  /\ CalendarKey
  /\ \E view \in View : /\ (view.month = want.month) # (view.channel = want.channel)
                        /\ want' = view /\ Refresh(view)
  /\ UNCHANGED <<onGrid, failed>> /\ UNCHANGED purge

(* A mark, a pin, a request for recovery and r reload what is there.       *)
Act ==
  /\ CalendarKey /\ Refresh(want)
  /\ UNCHANGED <<want, onGrid, failed>> /\ UNCHANGED purge

(* applyLoaded.  A request that was remembered asks for what is selected   *)
(* by now.                                                                 *)
ApplyLoaded ==
  /\ loading # NoView
  /\ failed' \in BOOLEAN
  /\ onGrid' = IF failed' THEN onGrid ELSE loading
  /\ loading' = IF reload THEN want ELSE NoView
  /\ reload' = FALSE
  /\ UNCHANGED want /\ UNCHANGED purge /\ UNCHANGED presses

----------------------------------------------------------------------------
(* The purge pane                                                          *)

(* Rank, over the rows a purge may take; a pinned row is not offered.      *)
Candidates == {r \in Rec : shelf[r] = "held"}

FreeSlot == {slot \in DOMAIN asked : asked[slot] = {}}
LoadCandidates ==
  FreeSlot # {} /\ asked' = [asked EXCEPT ![CHOOSE slot \in FreeSlot : TRUE] = Unread]

OpenPurge ==
  /\ CalendarKey /\ LoadCandidates
  /\ purgePane' = TRUE /\ confirming' = FALSE /\ selected' = {}
  /\ UNCHANGED <<shelf, ranking, purging, trashing>> /\ UNCHANGED grid

Rank ==
  /\ \E slot \in DOMAIN asked :
       asked[slot] = Unread /\ asked' = [asked EXCEPT ![slot] = {"read"} \cup Candidates]
  /\ UNCHANGED <<purgePane, shelf, ranking, selected, confirming, purging, trashing, presses>>
  /\ UNCHANGED grid

DropSelection(rows) == selected' = {}

(* applyCandidates: the selection goes with the ranking behind it.         *)
ApplyCandidates ==
  /\ \E slot \in DOMAIN asked :
       /\ "read" \in asked[slot]
       /\ asked' = [asked EXCEPT ![slot] = {}]
       /\ \/ ranking' = asked[slot] \ {"read"} /\ DropSelection(ranking')
          \/ UNCHANGED <<ranking, selected>>
  /\ UNCHANGED <<purgePane, shelf, confirming, purging, trashing, presses>> /\ UNCHANGED grid

Toggle ==
  /\ PurgeKey /\ ~confirming
  /\ \E r \in ranking : selected' = IF r \in selected THEN selected \ {r} ELSE selected \cup {r}
  /\ UNCHANGED <<purgePane, shelf, ranking, confirming, purging, asked, trashing>>
  /\ UNCHANGED grid

ReloadRanking ==
  /\ PurgeKey /\ ~confirming /\ LoadCandidates
  /\ UNCHANGED <<purgePane, shelf, ranking, selected, confirming, purging, trashing>>
  /\ UNCHANGED grid

Prompt ==
  /\ PurgeKey /\ ~confirming /\ selected # {} /\ confirming' = TRUE
  /\ UNCHANGED <<purgePane, shelf, ranking, selected, purging, asked, trashing>> /\ UNCHANGED grid

(* esc answers the prompt, or leaves.                                      *)
Escape ==
  /\ PurgeKey
  /\ IF confirming THEN confirming' = FALSE /\ UNCHANGED purgePane
                   ELSE purgePane' = FALSE /\ UNCHANGED confirming
  /\ UNCHANGED <<shelf, ranking, selected, purging, asked, trashing>> /\ UNCHANGED grid

(* A second enter that is not refused while the first is under way.        *)
MayPurgeAgain == confirming

MayPurge == confirming /\ ~purging

(* performPurge, over what is chosen on the ranking as it stands.          *)
Confirm ==
  /\ PurgeKey /\ MayPurge
  /\ purging' = TRUE
  /\ \E slot \in DOMAIN trashing :
       trashing[slot] = {} /\ trashing' = [trashing EXCEPT ![slot] = {"asked"} \cup (ranking \cap selected)]
  /\ UNCHANGED <<purgePane, shelf, ranking, selected, confirming, asked>> /\ UNCHANGED grid

(* organize.Trash asks again whether the row may go.                       *)
Trash(r) ==
  /\ \E slot \in DOMAIN trashing :
       r \in trashing[slot] /\ trashing' = [trashing EXCEPT ![slot] = @ \ {r}]
  /\ shelf' \in IF shelf[r] = "held" THEN {shelf, [shelf EXCEPT ![r] = "trashed"]} ELSE {shelf}
  /\ UNCHANGED <<purgePane, ranking, selected, confirming, purging, asked, presses>>
  /\ UNCHANGED grid

(* applyPurged.                                                            *)
ApplyPurged ==
  /\ \E slot \in DOMAIN trashing :
       trashing[slot] = {"asked"} /\ trashing' = [trashing EXCEPT ![slot] = {}]
  /\ purging' = FALSE /\ confirming' = FALSE
  /\ LoadCandidates /\ Refresh(want)
  /\ UNCHANGED <<purgePane, shelf, ranking, selected, want, onGrid, failed, presses>>


(* The recorder, and another window: a row is restored, pinned or written. *)
Elsewhere ==
  /\ Press
  /\ \E r \in Rec : \E is \in {"held", "pinned"} \ {shelf[r]} : shelf' = [shelf EXCEPT ![r] = is]
  /\ UNCHANGED <<purgePane, ranking, selected, confirming, purging, asked, trashing>>
  /\ UNCHANGED grid

----------------------------------------------------------------------------

ScreenInit ==
  /\ want = CHOOSE view \in View : TRUE
  /\ loading = want /\ reload = FALSE /\ onGrid = NoView /\ failed = FALSE
  /\ purgePane = FALSE /\ shelf = [r \in Rec |-> "held"] /\ ranking = {} /\ selected = {}
  /\ confirming = FALSE /\ purging = FALSE
  /\ asked = [slot \in {1, 2} |-> {}] /\ trashing = [slot \in {1, 2} |-> {}]
  /\ presses = 0

Grid == Go \/ Act \/ ApplyLoaded
PurgePane ==
  \/ OpenPurge \/ Rank \/ ApplyCandidates \/ Toggle \/ ReloadRanking \/ Prompt \/ Escape \/ Confirm
  \/ ApplyPurged \/ Elsewhere \/ \E r \in Rec : Trash(r)
ScreenNext == Grid \/ PurgePane

ScreenSpec == ScreenInit /\ [][ScreenNext]_screen

----------------------------------------------------------------------------

(* model.go, refresh: a request that arrives during a reload is remembered *)
(* "so the grid still ends up showing the month the cursor is on".  With   *)
(* nothing under way and nothing wrong, the rows are of what is selected.  *)
GridIsCurrent == loading = NoView /\ ~failed => onGrid = want

(* purge.go, handlePurgeKey: two deliberate presses are not "one trash     *)
(* attempt per repeat", and a selection goes with its ranking, "because    *)
(* the rows it named may no longer be on the list at all".                 *)
PurgeIsDeliberate ==
  /\ Cardinality({slot \in DOMAIN trashing : trashing[slot] # {}}) <= 1
  /\ selected \subseteq ranking
=============================================================================
