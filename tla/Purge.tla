------------------------------- MODULE Purge -------------------------------
(***************************************************************************)
(* Organizer.Trash and Organizer.Release: the operator's purge moves a     *)
(* recording into the trash, and the recorder deletes it once its grace    *)
(* has run out.  Neither frees or forgets anything before the other half   *)
(* of its work is on disk, so a crash leaves a row that can be retried.    *)
(***************************************************************************)
EXTENDS RecordingFiles

\* Trash asks again whether the recording may go.
BeginTrash(w, r) ==
    /\ w \in Operator
    /\ Free(w) /\ Known(r) /\ ~ Busy(w, r)
    /\ Purgeable(rows[r].state)
    /\ Begin(w, r, "t_refuse")
    /\ condemned' = condemned \cup {r}
    /\ UNCHANGED <<rows, files, sidecars, refused, titled, failures, fresh,
                   parked, listed, crashes, erased>>

\* Mutant of TrashRefuses: the broadcast may be fetched again.
TrashRefusesNothing(w) ==
    /\ At(w, "t_refuse")
    /\ Goto(w, "t_sidecar")
    /\ UNCHANGED <<rows, files, sidecars, refused, titled, failures, fresh,
                   parked, listed, crashes, condemned, erased>>

\* refuseFetchWithoutThisCopy, before the file moves.
TrashRefuses(w) ==
    /\ At(w, "t_refuse")
    /\ RefuseUnlessHeld(Recording \ {op[w].rec})
    /\ Goto(w, "t_sidecar")
    /\ UNCHANGED <<rows, files, sidecars, titled, failures, fresh, parked,
                   listed, crashes, condemned, erased>>

\* The sidecar moves first; a recording without one is purged all the same.
TrashSidecar(w) ==
    LET there == op[w].path \in sidecars
        taken == TrashPath(op[w].rec) \in sidecars
    IN  /\ At(w, "t_sidecar")
        /\ \/ /\ there /\ ~ taken
              /\ sidecars' = (sidecars \ {op[w].path}) \cup {TrashPath(op[w].rec)}
              /\ Goto(w, "t_claim")
           \/ ~ there /\ UNCHANGED sidecars /\ Goto(w, "t_claim")
           \/ there /\ (taken \/ FileLocks) /\ UNCHANGED sidecars /\ End(w)
        /\ UNCHANGED <<rows, files, refused, titled, failures, fresh, parked,
                       listed, crashes, condemned, erased>>

\* The exclusive create in the trash, under a name that carries the row's id.
TrashClaim(w) ==
    LET target == TrashPath(op[w].rec)
    IN  /\ At(w, "t_claim")
        /\ IF Present(target)
           THEN UNCHANGED files /\ End(w)
           ELSE files' = [files EXCEPT ![target] = Placeholder] /\ Goto(w, "t_move")
        /\ UNCHANGED <<rows, sidecars, refused, titled, failures, fresh, parked,
                       listed, crashes, condemned, erased>>

\* The media moves last.  A file that is gone or held gives the name up.
TrashMedia(w) ==
    LET target == TrashPath(op[w].rec)
    IN  /\ At(w, "t_move")
        /\ \/ Present(op[w].path) /\ Move(op[w].path, target) /\ Goto(w, "t_path")
           \/ /\ FileLocks \/ ~ Present(op[w].path)
              /\ Remove(target) /\ End(w)
        /\ UNCHANGED <<rows, sidecars, refused, titled, failures, fresh, parked,
                       listed, crashes, condemned, erased>>

\* Only once the media has moved does the row name the trash.
TrashPathStored(w) ==
    LET r == op[w].rec
    IN  /\ At(w, "t_path")
        /\ \/ Known(r) /\ SetPath(r, TrashPath(r)) /\ Goto(w, "t_state")
           \/ ~ Known(r) /\ UNCHANGED rows /\ End(w)
        /\ UNCHANGED <<files, sidecars, refused, titled, failures, fresh, parked,
                       listed, crashes, condemned, erased>>

\* The state is stored last of all.
TrashStateStored(w) ==
    LET r == op[w].rec
    IN  /\ At(w, "t_state")
        /\ \/ /\ Known(r)
              /\ SetState(r, "trashed")
              /\ failures' = IF Organizer(w) = "recorder"
                             THEN [failures EXCEPT ![r] = 0] ELSE failures
           \/ ~ Known(r) /\ UNCHANGED <<rows, failures>>
        /\ End(w)
        /\ UNCHANGED <<files, sidecars, refused, titled, fresh, parked, listed,
                       crashes, condemned, erased>>

\* Release refuses anything that is not in the trash.
BeginRelease(w, r) ==
    /\ w \in Releaser
    /\ Free(w) /\ InState(r, {"trashed"}) /\ ~ Busy(w, r)
    /\ Begin(w, r, "r_refuse")
    /\ UNCHANGED <<rows, files, sidecars, refused, titled, failures, fresh,
                   parked, listed, crashes, condemned, erased>>

ReleaseRefuses(w) ==
    /\ At(w, "r_refuse")
    /\ RefuseUnlessHeld(Recording \ {op[w].rec})
    /\ Goto(w, "r_media")
    /\ UNCHANGED <<rows, files, sidecars, titled, failures, fresh, parked,
                   listed, crashes, condemned, erased>>

\* The file goes first; its absence is what was wanted.
ReleaseMedia(w) ==
    /\ At(w, "r_media")
    /\ \/ Remove(op[w].path) /\ Goto(w, "r_sidecar")
       \/ FileLocks /\ Present(op[w].path) /\ UNCHANGED files /\ End(w)
    /\ UNCHANGED <<rows, sidecars, refused, titled, failures, fresh, parked,
                   listed, crashes, condemned, erased>>

ReleaseSidecar(w) ==
    /\ At(w, "r_sidecar")
    /\ \/ sidecars' = sidecars \ {op[w].path} /\ Goto(w, "r_row")
       \/ FileLocks /\ op[w].path \in sidecars /\ UNCHANGED sidecars /\ End(w)
    /\ UNCHANGED <<rows, files, refused, titled, failures, fresh, parked,
                   listed, crashes, condemned, erased>>

\* The row goes last, so nothing is forgotten while it is on disk.
ReleaseRow(w) ==
    /\ At(w, "r_row")
    /\ rows' = [rows EXCEPT ![op[w].rec] = NoRow]
    /\ failures' = [failures EXCEPT ![op[w].rec] = 0]
    /\ End(w)
    /\ UNCHANGED <<files, sidecars, refused, titled, fresh, parked, listed,
                   crashes, condemned, erased>>

PurgeStep(w) ==
    \/ TrashRefuses(w) \/ TrashSidecar(w) \/ TrashClaim(w) \/ TrashMedia(w)
    \/ TrashPathStored(w) \/ TrashStateStored(w)
    \/ ReleaseRefuses(w) \/ ReleaseMedia(w) \/ ReleaseSidecar(w) \/ ReleaseRow(w)
=============================================================================
