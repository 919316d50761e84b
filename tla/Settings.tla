------------------------------ MODULE Settings ------------------------------
(***************************************************************************)
(* The settings pane (internal/tui/settings.go) over the config file       *)
(* (internal/config/load.go): the working config, the line editor that is  *)
(* open over one of its rows, and the reads and writes of the file that    *)
(* run beside the keys.                                                    *)
(*                                                                         *)
(* A config is its channels' names and whether everything else in it is in *)
(* range.  The operator may edit the file by hand as well.                 *)
(***************************************************************************)
EXTENDS Integers, Sequences

CONSTANTS ChannelName,  \* names a channel may have
          Edits,        \* bound on what the operator changes
          Calls         \* how many reads and writes may be under way

ASSUME SettingsAssumption == Edits \in Nat /\ Calls \in Nat \ {0}

VARIABLES disk,         \* the config file
          editor,       \* the working config
          problems,     \* whether the last validation found any
          dirty,        \* edits that exist nowhere else
          line,         \* what the line editor is open over
          pane,         \* the pane with the keys
          calls,        \* the reads and writes of the file under way
          edits,        \* how much was changed
          confirmQuit,  \* the question a q asks was put
          quit          \* whether the program ended

settings == <<disk, editor, problems, dirty, line, pane, calls, edits, confirmQuit, quit>>
quitting == <<confirmQuit, quit>>

Unnamed == "unnamed"
MaxRows == 2            \* bound on the channels of a config
Config == [sound : BOOLEAN, rows : UNION {[1 .. n -> ChannelName \cup {Unnamed}] : n \in 0 .. MaxRows}]

(* The value a pane holds before its first read, and what Load answers     *)
(* with its errors.                                                        *)
Zero == [sound |-> FALSE, rows |-> <<>>]

(* validateChannels: every row is named, and no two alike.                 *)
Valid(c) == /\ c.sound
            /\ \A i \in DOMAIN c.rows : c.rows[i] # Unnamed
            /\ \A i, j \in DOMAIN c.rows : c.rows[i] = c.rows[j] => i = j

(* There are names enough for the file the program finds.                  *)
ASSUME ReadableAssumption == \E c \in Config : Valid(c) /\ Len(c.rows) = MaxRows

Closed == [row |-> -1, of |-> Unnamed]
NoCall == [kind |-> "none", done |-> FALSE, config |-> Zero, failed |-> FALSE]

FreeSlots == {slot \in 1 .. Calls : calls[slot] = NoCall}

Ask(call) == /\ FreeSlots # {}
             /\ calls' = [calls EXCEPT ![CHOOSE slot \in FreeSlots : TRUE] = call]

AskLoad == Ask([NoCall EXCEPT !.kind = "load"])

----------------------------------------------------------------------------
(* Keys                                                                    *)

(* Any key but q takes the question back, and the line editor has them all.*)
Key == /\ ~quit /\ line = Closed
       /\ confirmQuit' = FALSE /\ UNCHANGED quit
InPane == Key /\ pane = "settings"
InLine == /\ ~quit /\ line # Closed
          /\ UNCHANGED <<confirmQuit, quit>>

OpenSettings ==
  /\ Key /\ pane = "calendar" /\ pane' = "settings" /\ AskLoad
  /\ UNCHANGED <<disk, editor, problems, dirty, line, edits>>

Leave ==
  /\ InPane /\ pane' = "calendar"
  /\ UNCHANGED <<disk, editor, problems, dirty, line, calls, edits>>

ReloadSettings ==
  /\ InPane /\ AskLoad
  /\ UNCHANGED <<disk, editor, problems, dirty, line, pane, edits>>

(* settle: an edit is validated as it is made.                             *)
Settle(config) ==
  /\ edits < Edits /\ edits' = edits + 1
  /\ editor' = config /\ problems' = ~Valid(config) /\ dirty' = TRUE

(* A switch, a choice or a channel's flag under the cursor.                *)
ChangeSelection ==
  /\ InPane
  /\ \E sound \in BOOLEAN : Settle([editor EXCEPT !.sound = sound])
  /\ UNCHANGED <<disk, line, pane, calls>>

(* beginEdit over a setting's text, or over a channel's name.              *)
BeginEdit ==
  /\ InPane /\ edits < Edits
  /\ line' \in {[row |-> 0, of |-> Unnamed]} \cup {[row |-> i, of |-> editor.rows[i]] : i \in DOMAIN editor.rows}
  /\ UNCHANGED <<disk, editor, problems, dirty, pane, calls, edits>>

AddChannel ==
  /\ InPane /\ Len(editor.rows) < MaxRows
  /\ Settle([editor EXCEPT !.rows = Append(@, Unnamed)])
  /\ line' = [row |-> Len(editor.rows) + 1, of |-> Unnamed]
  /\ UNCHANGED <<disk, pane, calls>>

DeleteChannel ==
  /\ InPane
  /\ \E i \in DOMAIN editor.rows :
       Settle([editor EXCEPT !.rows = SubSeq(@, 1, i - 1) \o SubSeq(@, i + 1, Len(@))])
  /\ UNCHANGED <<disk, line, pane, calls>>

(* editChannel: a row that is no longer there is left alone.               *)
EditChannel(at, name) ==
  IF at \in DOMAIN editor.rows THEN Settle([editor EXCEPT !.rows[at] = name])
                               ELSE UNCHANGED <<editor, problems, dirty, edits>>

(* commitEdit: a text that is not a value of its kind stays in the editor. *)
CommitEdit ==
  /\ InLine
  /\ \/ line.row > 0 /\ line' = Closed
        /\ \E name \in ChannelName \cup {Unnamed} : EditChannel(line.row, name)
     \/ line.row = 0 /\ line' = Closed
        /\ \E sound \in BOOLEAN : Settle([editor EXCEPT !.sound = sound])
     \/ line.row = 0 /\ UNCHANGED <<line, editor, problems, dirty, edits>>
  /\ UNCHANGED <<disk, pane, calls>>

CancelEdit ==
  /\ InLine /\ line' = Closed
  /\ UNCHANGED <<disk, editor, problems, dirty, pane, calls, edits>>

(* saveSettings: refused while a problem stands.                           *)
SaveSettings ==
  /\ InPane /\ ~problems
  /\ Ask([NoCall EXCEPT !.kind = "save", !.config = editor])
  /\ UNCHANGED <<disk, editor, problems, dirty, line, pane, edits>>

(* Asked once: the second press goes through.                              *)
PressQ ==
  /\ ~quit /\ line = Closed
  /\ IF dirty /\ ~confirmQuit THEN confirmQuit' = TRUE /\ UNCHANGED quit
                              ELSE quit' = TRUE /\ UNCHANGED confirmQuit
  /\ UNCHANGED <<disk, editor, problems, dirty, line, pane, calls, edits>>

PressCtrlC ==
  /\ ~quit /\ quit' = TRUE /\ UNCHANGED confirmQuit
  /\ UNCHANGED <<disk, editor, problems, dirty, line, pane, calls, edits>>

----------------------------------------------------------------------------
(* The reads and writes, which no key waits for                            *)

(* Load: an unreadable or invalid file is an error and an empty config.    *)
ReadFile(slot) ==
  /\ calls[slot].kind = "load" /\ ~calls[slot].done
  /\ calls' = [calls EXCEPT ![slot] =
       [@ EXCEPT !.done = TRUE, !.failed = ~Valid(disk), !.config = IF Valid(disk) THEN disk ELSE Zero]]
  /\ UNCHANGED <<disk, editor, problems, dirty, line, pane, edits>> /\ UNCHANGED quitting

(* Save: one rename publishes the whole file, or none of it.               *)
WriteFile(slot) ==
  /\ calls[slot].kind = "save" /\ ~calls[slot].done
  /\ \/ disk' = calls[slot].config /\ calls' = [calls EXCEPT ![slot].done = TRUE]
     \/ UNCHANGED disk /\ calls' = [calls EXCEPT ![slot].done = TRUE, ![slot].failed = TRUE]
  /\ UNCHANGED <<editor, problems, dirty, line, pane, edits>> /\ UNCHANGED quitting

(* A read that leaves an open line editor as it is.                        *)
ApplySettingsUnderneath(slot) ==
  /\ calls[slot].kind = "load" /\ calls[slot].done /\ ~quit
  /\ calls' = [calls EXCEPT ![slot] = NoCall]
  /\ IF calls[slot].failed THEN UNCHANGED <<editor, problems, line>>
     ELSE editor' = calls[slot].config /\ problems' = FALSE /\ UNCHANGED line
  /\ UNCHANGED <<disk, dirty, pane, edits>> /\ UNCHANGED quitting

(* applySettings: a line that was opened over the config this replaces is  *)
(* closed.                                                                 *)
ApplySettings(slot) ==
  /\ calls[slot].kind = "load" /\ calls[slot].done /\ ~quit
  /\ calls' = [calls EXCEPT ![slot] = NoCall]
  /\ IF calls[slot].failed THEN UNCHANGED <<editor, problems, line>>
     ELSE editor' = calls[slot].config /\ problems' = FALSE /\ line' = Closed
  /\ UNCHANGED <<disk, dirty, pane, edits>> /\ UNCHANGED quitting

(* applySaved: the file is read back.                                      *)
ApplySaved(slot) ==
  /\ calls[slot].kind = "save" /\ calls[slot].done /\ ~quit
  /\ IF calls[slot].failed THEN calls' = [calls EXCEPT ![slot] = NoCall] /\ UNCHANGED dirty
     ELSE calls' = [calls EXCEPT ![slot] = [NoCall EXCEPT !.kind = "load"]] /\ dirty' = FALSE
  /\ UNCHANGED <<disk, editor, problems, line, pane, edits>> /\ UNCHANGED quitting

(* The operator's own hand on the file.                                    *)
HandEdit ==
  /\ edits < Edits /\ edits' = edits + 1
  /\ \/ disk' = [disk EXCEPT !.sound = ~@]
     \/ disk.rows # <<>> /\ disk' = [disk EXCEPT !.rows = Tail(@)]
  /\ UNCHANGED <<editor, problems, dirty, line, pane, calls>> /\ UNCHANGED quitting

SettingsInit ==
  /\ disk = CHOOSE c \in Config : Valid(c) /\ Len(c.rows) = MaxRows
  /\ editor = Zero /\ problems = FALSE /\ dirty = FALSE /\ line = Closed /\ pane = "calendar"
  /\ calls = [slot \in 1 .. Calls |-> NoCall] /\ edits = 0
  /\ confirmQuit = FALSE /\ quit = FALSE

SettingsNext ==
  \/ OpenSettings \/ Leave \/ ReloadSettings \/ ChangeSelection \/ BeginEdit \/ AddChannel
  \/ DeleteChannel \/ CommitEdit \/ CancelEdit \/ SaveSettings \/ PressQ \/ PressCtrlC \/ HandEdit
  \/ \E slot \in 1 .. Calls : ReadFile(slot) \/ WriteFile(slot) \/ ApplySettings(slot) \/ ApplySaved(slot)

SettingsSpec == SettingsInit /\ [][SettingsNext]_settings

----------------------------------------------------------------------------

(* settings.go, applySettings: an open editor is not left to commit its    *)
(* value "onto whichever channel now sits at that index, or past the end   *)
(* of a shorter list".  The row a line is open over is the row it was      *)
(* opened over.                                                            *)
LineIsOverItsRow ==
  line.row > 0 => line.row \in DOMAIN editor.rows /\ editor.rows[line.row] = line.of

(* settings.go, saveSettings: "a config the daemon cannot read stops the   *)
(* recorder at its next restart".  What a save writes can be loaded.       *)
SavedIsReadable == [][\A slot \in 1 .. Calls : calls'[slot].kind = "save" => Valid(calls'[slot].config)]_settings
=============================================================================
