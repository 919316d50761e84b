------------------------------- MODULE Sweeps -------------------------------
(***************************************************************************)
(* The sweep loop: SweepParked retries every recording that waits for its  *)
(* name or its file, and SweepMissing moves rows whose file is gone out of *)
(* the size cap.  Both list the rows first and act on each later, when the *)
(* row may have moved on.                                                  *)
(***************************************************************************)
EXTENDS RecordingFiles

\* sweepLoop runs one sweep after the other.
SweepsNothing(w) ==
    /\ Free(w) /\ parked = {}
    /\ listed = [r \in Recording |-> NoPath]

\* SweepParked lists the pending rows.
ListParked(w) ==
    LET pending == {r \in Recording : InState(r, PendingStates)}
    IN  /\ w \in Sweeper
        /\ SweepsNothing(w) /\ pending # {}
        /\ parked' = pending
        /\ UNCHANGED <<rows, files, sidecars, refused, titled, failures, fresh,
                       listed, op, crashes, condemned, erased>>

\* A row another call is busy with, or that is gone, is left for the next one.
SkipParked(w, r) ==
    /\ w \in Sweeper
    /\ Free(w) /\ r \in parked
    /\ ~ Known(r) \/ Busy(w, r)
    /\ parked' = parked \ {r}
    /\ UNCHANGED <<rows, files, sidecars, refused, titled, failures, fresh,
                   listed, op, crashes, condemned, erased>>

\* SweepMissing lists the complete rows with their paths.
ListComplete(w) ==
    LET complete == {r \in Recording : InState(r, {"complete"})}
    IN  /\ w \in Sweeper
        /\ SweepsNothing(w) /\ complete # {}
        /\ listed' = [r \in Recording |->
                         IF r \in complete THEN rows[r].path ELSE NoPath]
        /\ UNCHANGED <<rows, files, sidecars, refused, titled, failures, fresh,
                       parked, op, crashes, condemned, erased>>

\* It looks at the path it listed, and takes no lock.
LookForFile(w, r) ==
    /\ w \in Sweeper
    /\ Free(w) /\ listed[r] # NoPath
    /\ listed' = [listed EXCEPT ![r] = NoPath]
    /\ op' = IF Present(listed[r]) THEN op
             ELSE [op EXCEPT ![w] = [Idle EXCEPT !.pc = "m_state", !.rec = r]]
    /\ UNCHANGED <<rows, files, sidecars, refused, titled, failures, fresh,
                   parked, crashes, condemned, erased>>

\* The row is declared missing whatever it has become since.
DeclareMissing(w) ==
    LET r == op[w].rec
    IN  /\ At(w, "m_state")
        /\ \/ Known(r) /\ SetState(r, "missing") /\ Goto(w, "m_refuse")
           \/ ~ Known(r) /\ UNCHANGED rows /\ End(w)
        /\ UNCHANGED <<files, sidecars, refused, titled, failures, fresh, parked,
                       listed, crashes, condemned, erased>>

\* Mutant of MissingRefuses: a file the operator deleted may come back.
MissingRefusesNothing(w) ==
    /\ At(w, "m_refuse")
    /\ End(w)
    /\ UNCHANGED <<rows, files, sidecars, refused, titled, failures, fresh,
                   parked, listed, crashes, condemned, erased>>

\* refuseFetchIfNothingLeft, over the whole broadcast.
MissingRefuses(w) ==
    /\ At(w, "m_refuse")
    /\ RefuseUnlessHeld(Recording)
    /\ End(w)
    /\ UNCHANGED <<rows, files, sidecars, titled, failures, fresh, parked,
                   listed, crashes, condemned, erased>>

SweepStep(w) ==
    \/ ListParked(w) \/ ListComplete(w)
    \/ \E r \in Recording : SkipParked(w, r) \/ LookForFile(w, r)
    \/ DeclareMissing(w) \/ MissingRefuses(w)
=============================================================================
