------------------------------ MODULE Finalize ------------------------------
(***************************************************************************)
(* Organizer.Finalize: a finished capture is remuxed, named, moved into    *)
(* the library and described by a sidecar, in steps a crash, a file lock   *)
(* or a failing store may come between.  It is repeatable: each step       *)
(* leaves a row from which the next call goes on.                          *)
(***************************************************************************)
EXTENDS RecordingFiles

\* The call loads the row and asks nothing about its state.
BeginFinalize(w, r) ==
    /\ Free(w) /\ Known(r) /\ ~ Busy(w, r)
    /\ \/ /\ w \in Watcher /\ r \in fresh
          /\ fresh' = fresh \ {r}
          /\ UNCHANGED parked
       \/ /\ w \in Sweeper /\ r \in parked
          /\ parked' = parked \ {r}
          /\ UNCHANGED fresh
    /\ Begin(w, r, IF rows[r].path = CapturePath(r) THEN "remux" ELSE "render")
    /\ UNCHANGED <<rows, files, sidecars, refused, titled, failures, listed,
                   crashes, condemned, erased>>

\* remuxIfNeeded discards what an unfinished remux left behind and starts
\* writing the output beside the capture.
RemuxBegins(w) ==
    /\ At(w, "remux")
    /\ IF Present(op[w].path)
       THEN /\ files' = [files EXCEPT ![RemuxPath(op[w].rec)] = Partial]
            /\ Goto(w, "remuxing")
       ELSE UNCHANGED files /\ End(w)
    /\ UNCHANGED <<rows, sidecars, refused, titled, failures, fresh, parked,
                   listed, crashes, condemned, erased>>

\* The output is verified and the row names it, both before the capture goes.
RemuxCommits(w) ==
    LET r == op[w].rec
    IN  /\ At(w, "remuxing") /\ Present(op[w].path)
        /\ files' = [files EXCEPT ![RemuxPath(r)] = files[op[w].path]]
        /\ SetPath(r, RemuxPath(r))
        /\ Goto(w, "drop")
        /\ UNCHANGED <<sidecars, refused, titled, failures, fresh, parked,
                       listed, crashes, condemned, erased>>

\* chargeRemux: the failure counts, and the last one parks the recording out
\* of the sweep.
ChargeRemux(r) ==
    IF failures[r] + 1 >= MaxRemuxAttempts
    THEN failures' = [failures EXCEPT ![r] = 0] /\ SetState(r, "failed")
    ELSE failures' = [failures EXCEPT ![r] = @ + 1] /\ UNCHANGED rows

\* A failed remux, verification or commit discards the output.
RemuxFails(w) ==
    /\ At(w, "remuxing")
    /\ ToolFails \/ StoreFails \/ ~ Present(op[w].path)
    /\ Remove(RemuxPath(op[w].rec))
    /\ ChargeRemux(op[w].rec)
    /\ End(w)
    /\ UNCHANGED <<sidecars, refused, titled, fresh, parked, listed, crashes,
                   condemned, erased>>

\* A remux tool that is not installed is charged to nobody.
RemuxToolMissing(w) ==
    /\ At(w, "remuxing") /\ ToolMissing
    /\ Remove(RemuxPath(op[w].rec))
    /\ End(w)
    /\ UNCHANGED <<rows, sidecars, refused, titled, failures, fresh, parked,
                   listed, crashes, condemned, erased>>

\* The capture is removed once the row names the output.  One that is gone
\* or held by another program is charged like any failure of the stage.
CaptureDropped(w) ==
    /\ At(w, "drop")
    /\ \/ /\ Present(op[w].path)
          /\ Remove(op[w].path)
          /\ failures' = [failures EXCEPT ![op[w].rec] = 0]
          /\ op' = [op EXCEPT ![w].pc = "render", ![w].path = RemuxPath(op[w].rec)]
          /\ UNCHANGED rows
       \/ /\ FileLocks \/ ~ Present(op[w].path)
          /\ ChargeRemux(op[w].rec)
          /\ End(w)
          /\ UNCHANGED files
    /\ UNCHANGED <<sidecars, refused, titled, fresh, parked, listed, crashes,
                   condemned, erased>>

\* A name that cannot be rendered parks the recording for its metadata.
Render(w) ==
    /\ At(w, "render")
    /\ IF titled
       THEN UNCHANGED rows /\ Goto(w, "pick")
       ELSE SetState(op[w].rec, "awaiting_metadata") /\ End(w)
    /\ UNCHANGED <<files, sidecars, refused, titled, failures, fresh, parked,
                   listed, crashes, condemned, erased>>

\* Mutant of HoldsRecording: any media at the name will do.
HoldsAnything(r, path) == files[path] \in Recording

\* holdsRecording: the size or the length of the file fits the row.  A
\* length fits whenever it is no longer than the clock around the capture.
HoldsRecording(r, path) ==
    files[path] = r \/ (r \in Longest /\ files[path] \in Recording)

\* orphanOf: the names an interrupted finalize of r may have moved it to.
Orphans(r) ==
    {n \in Names : /\ Present(NamePath(n))
                   /\ NamePath(n) \notin sidecars
                   /\ HoldsRecording(r, NamePath(n))}

\* The names Deduplicate accepts: a sidecar takes its media's name with it.
FreeNames(w) ==
    {n \in Names \ op[w].taken :
        \/ NamePath(n) = op[w].path
        \/ ~ Present(NamePath(n)) /\ NamePath(n) \notin sidecars}

First(names) == CHOOSE n \in names : \A m \in names : n <= m

\* Mutant of PickName: only the rendered name is searched for an orphan.
PickNameSearchingFirst(w) ==
    LET r == op[w].rec
        names == IF Present(op[w].path) THEN FreeNames(w) ELSE Orphans(r) \cap {1}
        name == NamePath(First(names))
    IN  /\ At(w, "pick")
        /\ IF names = {}
           THEN End(w)
           ELSE op' = [op EXCEPT ![w].target = name,
                         ![w].pc = IF Present(op[w].path) /\ name # op[w].path
                                   THEN "claim" ELSE "path"]
        /\ UNCHANGED <<rows, files, sidecars, refused, titled, failures, fresh,
                       parked, listed, crashes, condemned, erased>>

\* Mutant of PickName: a recording found under its library name is complete.
PickNameTrustingName(w) ==
    LET r == op[w].rec
        names == IF Present(op[w].path) THEN FreeNames(w) ELSE Orphans(r)
        name == NamePath(First(names))
    IN  /\ At(w, "pick")
        /\ IF names = {}
           THEN End(w)
           ELSE op' = [op EXCEPT ![w].target = name,
                         ![w].pc = IF ~ Present(op[w].path) THEN "path"
                                   ELSE IF name = op[w].path THEN "complete"
                                   ELSE "claim"]
        /\ UNCHANGED <<rows, files, sidecars, refused, titled, failures, fresh,
                       parked, listed, crashes, condemned, erased>>

\* moveIntoLibrary decides on a name.  A source that is gone is looked for
\* along the whole series, because the move comes before the path is stored.
PickName(w) ==
    LET r == op[w].rec
        names == IF Present(op[w].path) THEN FreeNames(w) ELSE Orphans(r)
        name == NamePath(First(names))
    IN  /\ At(w, "pick")
        /\ IF names = {}
           THEN End(w)
           ELSE op' = [op EXCEPT ![w].target = name,
                         ![w].pc = IF Present(op[w].path) /\ name # op[w].path
                                   THEN "claim" ELSE "path"]
        /\ UNCHANGED <<rows, files, sidecars, refused, titled, failures, fresh,
                       parked, listed, crashes, condemned, erased>>

\* Mutant of ClaimName: the name is taken without the exclusive create.
ClaimNameShared(w) ==
    /\ At(w, "claim")
    /\ files' = [files EXCEPT ![op[w].target] = Placeholder]
    /\ Goto(w, "move")
    /\ UNCHANGED <<rows, sidecars, refused, titled, failures, fresh, parked,
                   listed, crashes, condemned, erased>>

\* RenameNew creates the name exclusively; a lost claim rules the name out.
ClaimName(w) ==
    /\ At(w, "claim")
    /\ IF Present(op[w].target)
       THEN /\ op' = [op EXCEPT ![w].pc = "pick", ![w].target = NoPath,
                                ![w].taken = @ \cup {op[w].target[2]}]
            /\ UNCHANGED files
       ELSE /\ files' = [files EXCEPT ![op[w].target] = Placeholder]
            /\ Goto(w, "move")
    /\ UNCHANGED <<rows, sidecars, refused, titled, failures, fresh, parked,
                   listed, crashes, condemned, erased>>

\* The rename onto the claimed name.  A file another program holds parks the
\* recording and gives the name up; a file that is gone fails the call.
MoveIntoLibrary(w) ==
    /\ At(w, "move")
    /\ \/ /\ Present(op[w].path)
          /\ Move(op[w].path, op[w].target)
          /\ Goto(w, "path")
          /\ UNCHANGED rows
       \/ /\ FileLocks /\ Present(op[w].path)
          /\ Remove(op[w].target)
          /\ SetState(op[w].rec, "awaiting_file")
          /\ End(w)
       \/ /\ ~ Present(op[w].path) \/ (FileLocks /\ StoreFails)
          /\ Remove(op[w].target)
          /\ End(w)
          /\ UNCHANGED rows
    /\ UNCHANGED <<sidecars, refused, titled, failures, fresh, parked, listed,
                   crashes, condemned, erased>>

\* The path is stored before the sidecar is written.  Another row that names
\* the file ends the call with the file moved.
StorePath(w) ==
    /\ At(w, "path")
    /\ \/ SetPath(op[w].rec, op[w].target) /\ Goto(w, "sidecar")
       \/ /\ \E q \in Recording \ {op[w].rec} :
                 Known(q) /\ rows[q].path = op[w].target
          /\ UNCHANGED rows /\ End(w)
    /\ UNCHANGED <<files, sidecars, refused, titled, failures, fresh, parked,
                   listed, crashes, condemned, erased>>

\* measureFile, which needs a tool and media it can read, and writeSidecar.
WriteSidecar(w) ==
    /\ At(w, "sidecar")
    /\ \/ /\ files[op[w].target] \in Recording
          /\ sidecars' = sidecars \cup {op[w].target} /\ Goto(w, "complete")
       \/ /\ ToolMissing \/ files[op[w].target] \notin Recording
          /\ UNCHANGED sidecars /\ End(w)
    /\ UNCHANGED <<rows, files, refused, titled, failures, fresh, parked,
                   listed, crashes, condemned, erased>>

Complete(w) ==
    /\ At(w, "complete")
    /\ SetState(op[w].rec, "complete")
    /\ End(w)
    /\ UNCHANGED <<files, sidecars, refused, titled, failures, fresh, parked,
                   listed, crashes, condemned, erased>>

FinalizeStep(w) ==
    \/ RemuxBegins(w) \/ RemuxCommits(w) \/ RemuxFails(w) \/ RemuxToolMissing(w)
    \/ CaptureDropped(w) \/ Render(w) \/ PickName(w) \/ ClaimName(w)
    \/ MoveIntoLibrary(w) \/ StorePath(w) \/ WriteSidecar(w) \/ Complete(w)
=============================================================================
