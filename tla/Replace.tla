------------------------------ MODULE Replace ------------------------------
(***************************************************************************)
(* Pipeline.ReplaceVerified (internal/post/post.go): a file is remuxed or  *)
(* re-encoded, the output is verified against it, the caller's row is set  *)
(* to the output, and only then the file is removed.                       *)
(*                                                                         *)
(* Of a medium the model keeps what the checks ask: its streams of the     *)
(* kinds that are carried, how long it really plays, what its header       *)
(* claims, and how far a decoder reads before damage, which the decoder    *)
(* may report or pass over in silence.  A unit of length is more than      *)
(* durationTolerance, and as many bytes.                                   *)
(***************************************************************************)
EXTENDS Integers

CONSTANT Longest        \* bound on a length

ASSUME ReplaceAssumption == Longest \in Nat

VARIABLES source,     \* the source, while it is there
          output,       \* what lies at the output path
          names,        \* what the caller's row names
          replacing,    \* where the replacement stands
          whole         \* history: the source as it was

replacement == <<source, output, names, replacing, whole>>

Length == 0 .. Longest
Nothing == [streams |-> 0, plays |-> 0, claims |-> 0, reads |-> 0, reports |-> TRUE]
Medium == {m \in [streams : 1 .. 2, plays : Length \ {0}, claims : Length, reads : Length, reports : BOOLEAN] :
             m.reads <= m.plays}

Damaged(m) == m.reads < m.plays

(* DemuxClean: a decoder that exits well and says nothing.                 *)
DemuxClean(m) == m # Nothing /\ (Damaged(m) => ~m.reports)

(* Duration: a container that states none is an error.                     *)
HasDuration(m) == m.claims > 0

(* decodedDuration, where the decode went well.                            *)
Decoded(m) == m.reads

(* verifyDuration: a header that disagrees is settled by decoding.         *)
SameDuration(src, out) ==
  /\ HasDuration(src) /\ HasDuration(out)
  /\ src.claims = out.claims \/ (DemuxClean(src) /\ Decoded(src) = out.claims)

(* compareStreams: no kind has fewer.                                      *)
KeepsStreams(src, out) == out # Nothing /\ out.streams >= src.streams

(* A check that takes the output's header for its length.                  *)
VerifyHeaders(src, out) == KeepsStreams(src, out) /\ SameDuration(src, out) /\ DemuxClean(src)

(* Verify: the source is the yardstick, so it is read whole as well.       *)
Verify(src, out) ==
  /\ KeepsStreams(src, out) /\ SameDuration(src, out)
  /\ DemuxClean(src) /\ DemuxClean(out)

(* requireSimilarSize, of a stream copy: half the bytes.                   *)
SimilarSize(src, out) == 2 * out.plays >= src.plays

----------------------------------------------------------------------------

(* The tool exits well: it carried what it read, or an undamaged source to *)
(* its end; it may have dropped a track, or been cut off behind a header   *)
(* that claims the whole.                                                  *)
Carried(src) == {m \in Medium : /\ m.streams <= src.streams
                                /\ m.plays <= src.plays
                                /\ m.plays \in {src.reads, src.plays} \/ Damaged(m)
                                /\ m.claims \in {m.plays, src.plays}
                                /\ Damaged(m) => m.claims # m.plays /\ m.reports}

(* step: Remux or Transcode, whose failure discards what it wrote.         *)
StepReplaces ==
  /\ replacing \in {"remux", "transcode"}
  /\ \/ /\ output' \in Carried(source)
        /\ IF replacing = "remux" /\ ~SimilarSize(source, output')
           THEN replacing' = "discard" ELSE replacing' = "verify"
     \/ UNCHANGED output /\ replacing' = "ended"
  /\ UNCHANGED <<source, names, whole>>

VerifyReplaces ==
  /\ replacing = "verify"
  /\ replacing' = IF Verify(source, output) THEN "commit" ELSE "discard"
  /\ UNCHANGED <<source, output, names, whole>>

(* commit: the row names the output, or the output goes.                   *)
Commit ==
  /\ replacing = "commit"
  /\ \/ names' = "output" /\ replacing' \in {"remove", "keep"}
     \/ UNCHANGED names /\ replacing' = "discard"
  /\ UNCHANGED <<source, output, whole>>

(* A removal that fails leaves a file the row no longer names.             *)
RemoveSource ==
  /\ replacing = "remove" /\ replacing' = "ended"
  /\ source' \in {source, Nothing}
  /\ UNCHANGED <<output, names, whole>>

(* discard is best effort.                                                 *)
Discard ==
  /\ replacing = "discard" /\ replacing' = "ended"
  /\ output' \in {output, Nothing}
  /\ UNCHANGED <<source, names, whole>>

ReplaceInit ==
  /\ whole \in Medium /\ source = whole
  /\ output = Nothing /\ names = "original"
  /\ replacing \in {"remux", "transcode"}

ReplaceNext == StepReplaces \/ VerifyReplaces \/ Commit \/ RemoveSource \/ Discard

ReplaceSpec == ReplaceInit /\ [][ReplaceNext]_replacement

----------------------------------------------------------------------------

(* post.go, ReplaceVerified: a replacement "costs time and never content". *)
(* The row names a file that is there, and what it names in the place of a *)
(* source plays as long and has the streams, wherever a decoder reports    *)
(* the damage it meets.                                                    *)
NamedIsWhole ==
  /\ names = "original" => source # Nothing
  /\ names = "output" =>
       /\ output.streams >= whole.streams
       /\ (Damaged(whole) => whole.reports) => output.reads = whole.plays
=============================================================================
