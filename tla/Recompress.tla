----------------------------- MODULE Recompress -----------------------------
(***************************************************************************)
(* Organizer.Recompress: an old recording is encoded again and swapped in  *)
(* place.  The original is renamed aside before the output takes its name, *)
(* and goes only once the store knows the output, so every failure that    *)
(* the process survives has a file to put back.                            *)
(***************************************************************************)
EXTENDS RecordingFiles

BeginRecompress(w, r) ==
    /\ w \in Recompressor
    /\ Free(w) /\ InState(r, {"complete"}) /\ ~ rows[r].recompressed
    /\ ~ Busy(w, r)
    /\ Begin(w, r, "c_encode")
    /\ UNCHANGED <<rows, files, sidecars, refused, titled, failures, fresh,
                   parked, listed, crashes, condemned, erased>>

\* Transcode refuses an output path something already holds, and a source
\* that is gone.
EncodeBegins(w) ==
    LET output == EncodePath(op[w].path)
    IN  /\ At(w, "c_encode")
        /\ IF Present(output) \/ ~ Present(op[w].path)
           THEN UNCHANGED files /\ End(w)
           ELSE files' = [files EXCEPT ![output] = Partial] /\ Goto(w, "c_encoding")
        /\ UNCHANGED <<rows, sidecars, refused, titled, failures, fresh, parked,
                       listed, crashes, condemned, erased>>

\* The output is written and verified against its source.
EncodeEnds(w) ==
    LET output == EncodePath(op[w].path)
    IN  /\ At(w, "c_encoding")
        /\ \/ /\ Present(op[w].path)
              /\ files' = [files EXCEPT ![output] = files[op[w].path]]
              /\ Goto(w, "c_aside")
           \/ (ToolFails \/ ~ Present(op[w].path)) /\ Remove(output) /\ End(w)
        /\ UNCHANGED <<rows, sidecars, refused, titled, failures, fresh, parked,
                       listed, crashes, condemned, erased>>

\* Mutant of SetAside: the original is deleted to make room.
SetAsideDeletes(w) ==
    /\ At(w, "c_aside")
    /\ Remove(op[w].path) /\ Goto(w, "c_install")
    /\ UNCHANGED <<rows, sidecars, refused, titled, failures, fresh, parked,
                   listed, crashes, condemned, erased>>

\* The original is renamed aside, or the output discarded.
SetAside(w) ==
    /\ At(w, "c_aside")
    /\ \/ /\ Present(op[w].path)
          /\ Move(op[w].path, AsidePath(op[w].path)) /\ Goto(w, "c_install")
       \/ /\ FileLocks \/ ~ Present(op[w].path)
          /\ Remove(EncodePath(op[w].path)) /\ End(w)
    /\ UNCHANGED <<rows, sidecars, refused, titled, failures, fresh, parked,
                   listed, crashes, condemned, erased>>

\* restoreOriginal, with the output discarded: what lies at the recording's
\* path makes way for the original, unless another program holds either.
RestoreOriginal(path) ==
    \/ files' = [files EXCEPT ![path] = files[AsidePath(path)],
                              ![AsidePath(path)] = Absent,
                              ![EncodePath(path)] = Absent]
    \/ /\ FileLocks
       /\ \/ files' = [files EXCEPT ![path] = Absent, ![EncodePath(path)] = Absent]
          \/ files' = [files EXCEPT ![EncodePath(path)] = Absent]

\* The output takes the recording's name, or the original is put back.
Install(w) ==
    /\ At(w, "c_install")
    /\ \/ Move(EncodePath(op[w].path), op[w].path) /\ Goto(w, "c_mark")
       \/ FileLocks /\ RestoreOriginal(op[w].path) /\ End(w)
    /\ UNCHANGED <<rows, sidecars, refused, titled, failures, fresh, parked,
                   listed, crashes, condemned, erased>>

\* MarkRecompressed, or the original is put back.
MarkRecompressed(w) ==
    LET r == op[w].rec
    IN  /\ At(w, "c_mark")
        /\ \/ /\ Present(op[w].path) /\ Known(r)
              /\ rows' = [rows EXCEPT ![r].recompressed = TRUE]
              /\ UNCHANGED files /\ Goto(w, "c_clean")
           \/ /\ ~ Present(op[w].path) \/ ~ Known(r) \/ StoreFails
              /\ RestoreOriginal(op[w].path)
              /\ UNCHANGED rows /\ End(w)
        /\ UNCHANGED <<sidecars, refused, titled, failures, fresh, parked,
                       listed, crashes, condemned, erased>>

\* The original is the operator's copy or a duplicate.
OriginalGoes(w) ==
    LET aside == AsidePath(op[w].path)
    IN  /\ At(w, "c_clean")
        /\ \/ IF KeepOriginal
              THEN Move(aside, OriginalPath(op[w].path)) ELSE Remove(aside)
           \/ FileLocks /\ UNCHANGED files
        /\ End(w)
        /\ UNCHANGED <<rows, sidecars, refused, titled, failures, fresh, parked,
                       listed, crashes, condemned, erased>>

RecompressStep(w) ==
    \/ EncodeBegins(w) \/ EncodeEnds(w) \/ SetAside(w) \/ Install(w)
    \/ MarkRecompressed(w) \/ OriginalGoes(w)
=============================================================================
