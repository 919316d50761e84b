--------------------------- MODULE RecordingFiles ---------------------------
(***************************************************************************)
(* What the organizer works on: the rows of the recordings of one          *)
(* broadcast, the files of the library's volume, and the workers that      *)
(* move both.  A broadcast a reconnect split has several recordings, and   *)
(* all of them render the same library name, so they share one series of   *)
(* names: the rendered one first, then " (2)", " (3)" and so on.           *)
(*                                                                         *)
(* Finalize, Purge, Recompress and Sweeps add the operations; Organizer    *)
(* composes them.                                                          *)
(***************************************************************************)
EXTENDS Naturals, FiniteSets

CONSTANTS
    Recording,      \* the recordings of one broadcast
    Fetched,        \* those that arrive in the library's container already
    Longest,        \* those no other recording of the broadcast outlasts
    Watcher,        \* goroutines that finalize what they captured or fetched
    Sweeper,        \* the goroutine of the sweep loop
    Recompressor,   \* goroutines that re-encode old recordings
    Releaser,       \* goroutines that finish expired purges
    Operator,       \* the operator's purges from the terminal interface
    InProcess,      \* whether the interface runs inside the recorder
    KeepOriginal,   \* space.recompress.keep_original
    FileLocks,      \* environment: another program may hold a file
    StoreFails,     \* environment: a store call may fail
    ToolFails,      \* environment: a remux or an encode may fail
    ToolMissing,    \* environment: the tools may not be installed
    MayErase,       \* environment: the operator may delete library files
    MaxRemuxAttempts, \* remux failures in a row before giving up
    MaxNames,       \* bound on the series of names
    MaxCrashes,     \* bound on crashes
    Absent, Partial, Placeholder, NoRow, NoPath, NoRecording

Worker == Watcher \cup Sweeper \cup Recompressor \cup Releaser \cup Operator

Names == 1 .. MaxNames

VARIABLES
    rows,       \* the recordings table
    files,      \* what lies at each path of the volume
    sidecars,   \* the media paths that have a sidecar beside them
    refused,    \* whether the broadcast must not be fetched again
    titled,     \* whether the broadcast's title is known
    failures,   \* remux failures in a row, in the recorder's memory
    fresh,      \* recordings whose own goroutine has yet to finalize them
    parked,     \* the rows SweepParked still has to retry
    listed,     \* the paths SweepMissing still has to look at
    op,         \* what each worker is doing
    crashes,    \* how often a process crashed
    condemned,  \* history: the recordings the operator purged
    erased      \* history: the recordings whose file the operator deleted

vars == <<rows, files, sidecars, refused, titled, failures, fresh, parked,
          listed, op, crashes, condemned, erased>>

State == {"awaiting_finalize", "awaiting_metadata", "awaiting_file",
          "complete", "failed", "trashed", "missing"}

PendingStates == {"awaiting_finalize", "awaiting_metadata", "awaiting_file"}

\* HoldsBytes: a failed, trashed or missing recording holds nothing.
HoldsBytes(state) == state \in PendingStates \cup {"complete"}

\* Purgeable, for a recording that is not pinned.
Purgeable(state) ==
    state \in {"complete", "failed", "awaiting_metadata", "awaiting_file"}

CapturePath(r) == <<"capture", r>>  \* incoming, as it was captured
RemuxPath(r) == <<"remux", r>>      \* incoming, in the library's container
TrashPath(r) == <<"trash", r>>      \* the trash; the name carries the row's id
NamePath(n) == <<"name", n>>        \* the n-th name of the series

\* The names a recompress works under, all beside the recording.
EncodePath(path) == <<"encode", path[2]>>
AsidePath(path) == <<"aside", path[2]>>
OriginalPath(path) == <<"original", path[2]>>

Path == ({"capture", "remux", "trash"} \X Recording) \cup ({"name"} \X Names)
          \cup ({"encode", "aside", "original"} \X (Names \cup Recording))

\* What lies at a path: a recording's media, a file some tool is still
\* writing, or the empty file RenameNew holds a name with.
Content == Recording \cup {Absent, Partial, Placeholder}

Row == [state : State, path : Path, recompressed : BOOLEAN]

\* The interface is no goroutine of the recorder, and what stands for nothing
\* is told from what there is.
ASSUME OrganizerAssumption ==
    /\ Recording # {} /\ NoRecording \notin Recording
    /\ {Absent, Partial, Placeholder} \cap Recording = {}
    /\ Absent # Partial /\ Absent # Placeholder
    /\ Operator \cap (Watcher \cup Sweeper \cup Recompressor \cup Releaser) = {}
    /\ NoRow \notin Row /\ NoPath \notin Path
    /\ MaxRemuxAttempts \in Nat \ {0} /\ MaxNames \in Nat /\ MaxCrashes \in Nat

Step == {"idle",
         "remux", "remuxing", "drop", "render", "pick", "claim", "move",
         "path", "sidecar", "complete",
         "t_refuse", "t_sidecar", "t_claim", "t_move", "t_path", "t_state",
         "r_refuse", "r_media", "r_sidecar", "r_row",
         "c_encode", "c_encoding", "c_aside", "c_install", "c_mark", "c_clean",
         "m_state", "m_refuse"}

Op == [pc : Step, rec : Recording \cup {NoRecording},
       path : Path \cup {NoPath}, target : Path \cup {NoPath},
       taken : SUBSET Names]

Idle == [pc |-> "idle", rec |-> NoRecording, path |-> NoPath,
         target |-> NoPath, taken |-> {}]

Known(r) == rows[r] # NoRow
InState(r, states) == Known(r) /\ rows[r].state \in states
Present(path) == files[path] # Absent

\* The organizer a worker goes through.  Its per-recording lock is local to
\* the process that holds it.
Organizer(w) == IF w \in Operator /\ ~ InProcess THEN "interface" ELSE "recorder"

\* beginFinalize: another call through the same organizer has the recording.
Busy(w, r) ==
    \E v \in Worker \ {w} :
        /\ Organizer(v) = Organizer(w)
        /\ op[v].rec = r
        /\ op[v].pc \notin {"m_state", "m_refuse"}

Free(w) == op[w].pc = "idle"
At(w, pc) == op[w].pc = pc

Begin(w, r, pc) ==
    op' = [op EXCEPT ![w] = [Idle EXCEPT !.pc = pc, !.rec = r, !.path = rows[r].path]]
Goto(w, pc) == op' = [op EXCEPT ![w].pc = pc]
End(w) == op' = [op EXCEPT ![w] = Idle]

SetState(r, state) == rows' = [rows EXCEPT ![r].state = state]

\* SetPath: no two rows name one file.
SetPath(r, path) ==
    /\ \A q \in Recording \ {r} : Known(q) => rows[q].path # path
    /\ rows' = [rows EXCEPT ![r].path = path]

\* A rename, which replaces whatever lies at its target.
Move(source, target) ==
    files' = [files EXCEPT ![target] = files[source], ![source] = Absent]

Remove(path) == files' = [files EXCEPT ![path] = Absent]

\* RefuseFetch, unless another recording of the broadcast still holds bytes.
RefuseUnlessHeld(others) ==
    refused' = (refused \/ \A q \in others : ~ (Known(q) /\ HoldsBytes(rows[q].state)))

\* The steps that end with the call when the store refuses it.
StoreCalls == {"render", "path", "sidecar", "complete", "t_refuse", "t_path",
               "t_state", "r_refuse", "r_row", "m_state", "m_refuse"}

\* A store call that fails ends the operation with everything as it stands.
StoreCallFails(w) ==
    /\ StoreFails /\ op[w].pc \in StoreCalls
    /\ End(w)
    /\ UNCHANGED <<rows, files, sidecars, refused, titled, failures, fresh,
                   parked, listed, crashes, condemned, erased>>

Copies(r) == {path \in Path : files[path] = r}
=============================================================================
