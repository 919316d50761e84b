----------------------------- MODULE Organizer -----------------------------
(***************************************************************************)
(* The organizer and the sweeps of one recorder, the operator's purges,    *)
(* and the file system, program and process failures around them.          *)
(***************************************************************************)
EXTENDS Finalize, Purge, Recompress, Sweeps

TypeOK ==
    /\ rows \in [Recording -> Row \cup {NoRow}]
    /\ files \in [Path -> Content]
    /\ sidecars \subseteq Path
    /\ refused \in BOOLEAN /\ titled \in BOOLEAN
    /\ failures \in [Recording -> 0 .. MaxRemuxAttempts - 1]
    /\ fresh \subseteq Recording /\ parked \subseteq Recording
    /\ listed \in [Recording -> Path \cup {NoPath}]
    /\ op \in [Worker -> Op]
    /\ crashes \in 0 .. MaxCrashes
    /\ condemned \subseteq Recording /\ erased \subseteq Recording

Arrival(r) == IF r \in Fetched THEN RemuxPath(r) ELSE CapturePath(r)

\* Every capture has ended and none has been finalized.
Init ==
    /\ rows = [r \in Recording |->
                  [state |-> "awaiting_finalize", path |-> Arrival(r),
                   recompressed |-> FALSE]]
    /\ files = [path \in Path |->
                   IF \E r \in Recording : path = Arrival(r)
                   THEN CHOOSE r \in Recording : path = Arrival(r) ELSE Absent]
    /\ sidecars = {}
    /\ refused = FALSE
    /\ titled \in BOOLEAN
    /\ failures = [r \in Recording |-> 0]
    /\ fresh = Recording
    /\ parked = {}
    /\ listed = [r \in Recording |-> NoPath]
    /\ op = [w \in Worker |-> Idle]
    /\ crashes = 0
    /\ condemned = {} /\ erased = {}

\* A title arrives from the platform.
Describe ==
    /\ ~ titled
    /\ titled' = TRUE
    /\ UNCHANGED <<rows, files, sidecars, refused, failures, fresh, parked,
                   listed, op, crashes, condemned, erased>>

\* A process dies, or the interface is closed: its workers and its locks go
\* with it, and the recorder's memory of failures and lists with the recorder.
Crash(process) ==
    /\ crashes < MaxCrashes
    /\ crashes' = crashes + 1
    /\ op' = [w \in Worker |-> IF Organizer(w) = process THEN Idle ELSE op[w]]
    /\ \/ /\ process = "recorder"
          /\ failures' = [r \in Recording |-> 0]
          /\ fresh' = {} /\ parked' = {}
          /\ listed' = [r \in Recording |-> NoPath]
       \/ process = "interface" /\ UNCHANGED <<failures, fresh, parked, listed>>
    /\ UNCHANGED <<rows, files, sidecars, refused, titled, condemned, erased>>

\* The operator deletes a library file in a file manager.
Erase(n) ==
    /\ MayErase
    /\ files[NamePath(n)] \in Recording
    /\ Remove(NamePath(n))
    /\ erased' = erased \cup {files[NamePath(n)]}
    /\ UNCHANGED <<rows, sidecars, refused, titled, failures, fresh, parked,
                   listed, op, crashes, condemned>>

Work(w) ==
    \/ \E r \in Recording : \/ BeginFinalize(w, r) \/ BeginTrash(w, r)
                            \/ BeginRelease(w, r) \/ BeginRecompress(w, r)
    \/ FinalizeStep(w) \/ PurgeStep(w) \/ RecompressStep(w) \/ SweepStep(w)
    \/ StoreCallFails(w)

Next ==
    \/ Describe
    \/ \E process \in {Organizer(w) : w \in Worker} : Crash(process)
    \/ \E n \in Names : Erase(n)
    \/ \E w \in Worker : Work(w)

Spec == Init /\ [][Next]_vars

\* The sweep loop runs as long as the recorder does: it finishes the sweep it
\* is in, and SweepParked is due on every tick.
FairSpec ==
    /\ Spec
    /\ \A w \in Sweeper : WF_vars(Work(w)) /\ SF_vars(ListParked(w))

-----------------------------------------------------------------------------
(* Properties.                                                             *)

\* organize.go: "Nothing is deleted until the store names the file that
\* replaced it", and a release only finishes a purge.  The last copy of a
\* recording never leaves the volume unless the operator purged it or
\* deleted it by hand, whatever crashes or fails half way.
OnlyCondemnedAreLost ==
    [][\A r \in Recording :
          Copies(r) # {} /\ Copies(r)' = {} => r \in condemned \cup erased']_vars

\* A row that reads complete names a file that holds this recording's own
\* media with its sidecar beside it, or the operator deleted that file.
CompleteIsWhole ==
    \A r \in Recording :
        InState(r, {"complete"}) /\ (\A w \in Worker : op[w].rec # r) /\ r \notin erased =>
            files[rows[r].path] = r /\ rows[r].path \in sidecars

\* organize.go, commitRecompress: "Nothing is deleted until the store names
\* the file that replaced it".  Whatever fails, crashes or is held open during
\* a recompress, the media of a complete recording nobody purges lies under its
\* own name or set aside beside it.
OriginalIsBeside ==
    \A r \in Recording :
        InState(r, {"complete"}) /\ r \notin condemned =>
            \/ files[rows[r].path] = r
            \/ files[AsidePath(rows[r].path)] = r

\* organize.go, orphanOf: a candidate "must hold the recording's own media".
\* A complete row never names the media of another recording, as long as the
\* operator did not delete its own and the lengths tell recordings apart.  A
\* file held open that makes a claimed name free again, and two calls cut
\* short after it, break it: a source that is present is taken unchecked.
AdoptsOwnMedia ==
    \A r \in Recording \ erased :
        InState(r, {"complete"}) => files[rows[r].path] \notin Recording \ {r}

\* organize.go, refuseFetchWithoutThisCopy: once every recording of the
\* broadcast is purged, recovery may not download it again.
PurgedIsRefused ==
    (\A r \in Recording : ~ Known(r) \/ rows[r].state = "trashed") => refused

\* daemon.go, refuseFetchIfNothingLeft: a broadcast whose files the operator
\* deleted must not come back.  Once they are all found missing and the sweep
\* is done, recovery may not download it, unless the recorder crashed.
DeletedIsRefused ==
    (/\ \A r \in Recording : InState(r, {"missing"})
     /\ \A w \in Worker : Free(w)
     /\ crashes = 0) => refused

\* organize.go, Finalize: repeatability "lets the daemon sweep parked
\* recordings on a timer".  A recording whose title is known does not stay
\* pending: it completes or is given up on, wherever a crash cut it short.
PendingSettles ==
    \A r \in Recording :
        titled /\ InState(r, PendingStates) ~> ~ InState(r, PendingStates)

\* README.md: a recompress that fails costs time and never a broadcast.  No
\* row goes missing whose file the operator did not delete.
RecompressCostsNoBroadcast ==
    \A r \in Recording : InState(r, {"missing"}) => r \in erased
=============================================================================
