------------------------------ MODULE Importer ------------------------------
(***************************************************************************)
(* An import (internal/importer) into a library whose database was lost:   *)
(* every file no recording names is read back from the sidecar beside it,  *)
(* or from its own name, and its broadcast is restored.  Other imports,    *)
(* and a recorder that watches and lists the same channel (Catalogue), go  *)
(* on beside it; each write is a transaction of its own, after which an    *)
(* import may stop for good.                                               *)
(*                                                                         *)
(* A recording starts at an odd time and a show at an even one, and the    *)
(* window is even, so no two of their starts are a window apart exactly.   *)
(***************************************************************************)
EXTENDS Catalogue

CONSTANTS Files,        \* how many files the library holds
          Import,       \* the imports that are run
          CopyNamed     \* the starts of recordings whose sidecars name a copy

ASSUME ImporterAssumption == Files \in Nat /\ Window % 2 = 0

VARIABLES files,        \* of each file: its show, its start, what lies beside it
          held,         \* each file's recording: none, a loose one, or a row's copy
          patched,      \* the hole each recording's sidecar restored
          imports,      \* where each import stands
          unseen        \* the rows an import has not seen as they stand

imported == <<files, held, patched, imports, unseen>>
importer == <<clock, shown, named, anchor, session, broadcasts, files, held, patched, imports, unseen>>

Loose == 0              \* the broadcast of a recording that has none

(* Beside a file lies a sidecar that names the copy, one that names none   *)
(* and records a hole that was filled, or nothing that can be read.        *)
MediaFile == {f \in [show : Show, at : {1, 3, 5}, beside : {"copy", "record", "nothing"}] :
             /\ f.show = IF f.at = 5 THEN 2 ELSE 1
             /\ IF f.beside = "copy" THEN f.at \in CopyNamed ELSE f.at = 1}

Detail(f) == IF f.beside = "record" THEN "gap" ELSE "next"

RemoteId(f) == IF f.beside = "copy" THEN f.show ELSE None

Step(p, at) == imports[p].at = at
Goto(p, at) == imports' = [imports EXCEPT ![p].at = at]
Of(p) == imports[p].file

----------------------------------------------------------------------------

(* Run, and readSidecar: a file that is recorded by now, another channel's,*)
(* of a channel nobody knows, or whose sidecar is too new, is passed over. *)
PassOver(p) ==
  /\ Step(p, "next") /\ Of(p) < Files
  /\ imports' = [imports EXCEPT ![p].file = @ + 1]
  /\ UNCHANGED <<catalogue, files, held, patched, unseen>>

(* CreateRecording: the path is the one thing two imports contend for, and *)
(* the one that comes second passes its file over.                         *)
CreateRow(p, next) ==
  LET f == Of(p) + 1
  IN  /\ Step(p, "next") /\ f <= Files
      /\ held[f] = None /\ held' = [held EXCEPT ![f] = Loose]
      /\ imports' = [imports EXCEPT ![p].file = f, ![p].at = next]
      /\ UNCHANGED <<catalogue, files, patched, unseen>>

(* fromSidecar: "the recording is written first, and the broadcast only    *)
(* once it exists".                                                        *)
FromSidecar(p) ==
  /\ Of(p) < Files /\ files[Of(p) + 1].beside # "nothing"
  /\ CreateRow(p, "broadcast")

(* fromName: a name that reads back and carries a date gives a recording   *)
(* of a known channel, and no broadcast; nor does it restore a hole.       *)
FromName(p) ==
  /\ Of(p) < Files /\ files[Of(p) + 1].beside = "nothing"
  /\ CreateRow(p, "next")

(* A sidecar states when its recording began and ended, an hour later, and *)
(* names no live session.                                                  *)
Restored(f) == [stream |-> None, remote |-> RemoteId(f), start |-> f.at, end |-> f.at + 1,
                vod |-> None, source |-> "api", made |-> {f.show}]

(* overlapping: the oldest that began around the recording's start.        *)
Around(at) == {i \in Row : at - Window <= broadcasts[i].start /\ broadcasts[i].start < at + Window}
Overlapping(at) == {i \in Around(at) : \A j \in Around(at) : broadcasts[i].start <= broadcasts[j].start}

(* The rows a step writes, which an import between two of its own calls    *)
(* has not seen as they stand then.                                        *)
Written == {i \in DOMAIN broadcasts' : i \in Row => broadcasts'[i] # broadcasts[i]}
WrittenUnder ==
  unseen' = [p \in Import |-> IF imports'[p].at \in {"overlap", "restore"} THEN unseen[p] \cup Written ELSE {}]

Join(p, i) ==
  imports' = [imports EXCEPT ![p].at = "attach", ![p].row = i] /\ unseen' = [unseen EXCEPT ![p] = {}]

(* Nothing is found, or the call that looks fails and that is taken for    *)
(* nothing.                                                                *)
MoveOn(p, at, there) == Goto(p, at) /\ unseen' = [unseen EXCEPT ![p] = @ \cup there]

(* broadcastFor: the row of the copy that the sidecar names, if it names   *)
(* one ...                                                                 *)
LookUp(p) ==
  /\ Step(p, "broadcast")
  /\ LET id == RemoteId(files[Of(p)]) IN
     \/ id = None /\ MoveOn(p, Detail(files[Of(p)]), {})
     \/ \E i \in Named("remote", id) : Join(p, i)
     \/ id # None /\ MoveOn(p, "overlap", Named("remote", id))
  /\ UNCHANGED <<catalogue, files, held, patched>>

(* Mutant of LookAround: a restore that leaves the choice to the store's   *)
(* own upsert.                                                             *)
LookPast(p) ==
  /\ Step(p, "overlap") /\ MoveOn(p, "restore", {})
  /\ UNCHANGED <<catalogue, files, held, patched>>

(* ... else one that stands around its start ...                           *)
LookAround(p) ==
  /\ Step(p, "overlap")
  /\ LET at == files[Of(p)].at IN
     (\E i \in Overlapping(at) : Join(p, i)) \/ MoveOn(p, "restore", Around(at))
  /\ UNCHANGED <<catalogue, files, held, patched>>

(* ... else the store's own upsert; a failure is a note.                   *)
Restore(p) ==
  /\ Step(p, "restore")
  /\ LET f == files[Of(p)] IN
     \/ Goto(p, Detail(f)) /\ UNCHANGED broadcasts
     \/ /\ Upsert(Restored(f))
        /\ \E i \in DOMAIN broadcasts' :
             /\ i \in Match(Restored(f)) \/ i = Len(broadcasts) + 1
             /\ broadcasts'[i].remote = RemoteId(f)
             /\ imports' = [imports EXCEPT ![p].at = "attach", ![p].row = i]
  /\ WrittenUnder /\ UNCHANGED <<clock, shown, named, anchor, session, files, held, patched>>

BroadcastFor(p) == LookUp(p) \/ LookAround(p) \/ Restore(p)

(* SetBroadcastRecording, whose failure is a note.                         *)
AttachRecording(p) ==
  /\ Step(p, "attach") /\ Goto(p, Detail(files[Of(p)]))
  /\ held' \in {held, [held EXCEPT ![Of(p)] = imports[p].row]}
  /\ UNCHANGED <<catalogue, files, patched, unseen>>

(* restoreDetail and restoreGap: the hole is filed open, and marked filled *)
(* by another write, as the sidecar says it was.                           *)
RestoreGap(p) ==
  /\ \/ /\ Step(p, "gap")
        /\ \/ patched' = [patched EXCEPT ![Of(p)] = "open"] /\ Goto(p, "fill")
           \/ UNCHANGED patched /\ Goto(p, "next")
     \/ /\ Step(p, "fill") /\ Goto(p, "next")
        /\ patched' \in {patched, [patched EXCEPT ![Of(p)] = "filled"]}
  /\ UNCHANGED <<catalogue, files, held, unseen>>

HourPasses == clock < 8 /\ clock' = clock + 2
              /\ UNCHANGED <<shown, named, anchor, session, broadcasts, imported>>

(* The first show is over when the recorder starts, and the second on air. *)
LostInit ==
  /\ clock = 6 /\ named = TRUE
  /\ shown = [s \in Show |-> IF s = 1 THEN [from |-> 0, to |-> 4] ELSE [from |-> 4, to |-> 8]]
  /\ anchor = [s \in Show |-> None] /\ session = [s \in Show |-> 0]
  /\ broadcasts = <<>>

(* candidates: the files in the order of their names, which begin with the *)
(* hour a recording started.                                               *)
ImporterInit ==
  /\ files \in {f \in [1 .. Files -> MediaFile] : \A i, j \in 1 .. Files : i < j => f[i].at <= f[j].at}
  /\ held = [f \in 1 .. Files |-> None]
  /\ patched = [f \in 1 .. Files |-> "none"]
  /\ imports = [p \in Import |-> [at |-> "next", file |-> 0, row |-> Loose]]
  /\ unseen = [p \in Import |-> {}]

ImporterNext ==
  \/ \E p \in Import : \/ PassOver(p) \/ FromSidecar(p) \/ FromName(p)
                       \/ BroadcastFor(p) \/ AttachRecording(p) \/ RestoreGap(p)
  \/ HourPasses
  \/ /\ \E s \in Show : Poll(s) \/ Close(s) \/ List(s)
     /\ UNCHANGED <<files, held, patched, imports>> /\ WrittenUnder

ImporterSpec == LostInit /\ ImporterInit /\ [][ImporterNext]_importer

----------------------------------------------------------------------------

(* What a restore may do to a row it did not see: fill what is blank, and  *)
(* move the start earlier.                                                 *)
OnlyFilled(i) ==
  LET old == broadcasts[i]
      new == broadcasts'[i]
  IN  /\ new.stream = old.stream /\ new.source = old.source /\ new.vod = old.vod
      /\ new.remote # old.remote => old.remote = None
      /\ new.end # old.end => old.end = None
      /\ new.start <= old.start

(* importer.go, broadcastFor: "a broadcast already standing at this hour is*)
(* joined rather than written over".  The two looks and the upsert are     *)
(* three calls.  No import changes a row that its looks could see as it    *)
(* stands; one that a call failed to show it, or that was written since,   *)
(* the upsert may take, and then it fills what is blank there and moves    *)
(* the start to an earlier one.  And none attaches a recording that        *)
(* another attached elsewhere.                                             *)
JoinedStands ==
  [][imports' # imports =>
       /\ \A i \in Row : broadcasts'[i] # broadcasts[i] =>
            OnlyFilled(i) /\ \E p \in Import : imports'[p] # imports[p] /\ i \in unseen[p]
       /\ \A f \in 1 .. Files : held[f] \notin {None, Loose} => held'[f] = held[f]]_importer
=============================================================================
