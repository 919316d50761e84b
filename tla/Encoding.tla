------------------------------ MODULE Encoding ------------------------------
(***************************************************************************)
(* The pass that encodes old recordings again (internal/daemon/daemon.go,  *)
(* RecompressPass), and the encoders it may use (internal/post/encode.go): *)
(* each is tried on one frame, and the first answer that names any is kept *)
(* for the life of the process.  What one encode does to the files is in   *)
(* Recompress and Replace.                                                 *)
(*                                                                         *)
(* Encoders and recordings are numbered, the best encoder and the oldest   *)
(* recording first.                                                        *)
(***************************************************************************)
EXTENDS Naturals, FiniteSetsExt

CONSTANTS Caller,       \* the passes of one process
          Gpus,         \* the encoders of the codec that are hardware
          Old           \* how many recordings are past the age

ASSUME EncodingAssumption == Gpus \in Nat /\ Old \in Nat

(* knownEncoders, of the configured codec: the last one is software.       *)
KnownEncoder == 1 .. Gpus + 1
Software == Gpus + 1
Aging == 1 .. Old
NoEncoder == 0

VARIABLES settled,      \* the answer that is kept, or nothing
          passes,       \* where each pass is
          aging,        \* each recording: its state, and how often it was encoded
          ending        \* whether the process is told to stop

encoding == <<settled, passes, aging, ending>>

NotEncoding == [at |-> "idle"]
PassAt(p, step) == passes[p].at = step
PassGoes(p, pass) == passes' = [passes EXCEPT ![p] = pass]
EncodingEnds(p, how) == PassGoes(p, [passes[p] EXCEPT !.at = "ended", !.result = how])

----------------------------------------------------------------------------
(* The encoders                                                            *)

(* RecompressCandidates: finished, old, not imported and never encoded.    *)
RecompressCandidates == {r \in Aging : aging[r].state = "complete" /\ aging[r].times = 0}

(* RecompressPass, up to the encoders.                                     *)
RecompressPass(p) ==
  /\ PassAt(p, "idle") /\ ~ending
  /\ LET begun == [at |-> "ask", listed |-> RecompressCandidates, left |-> RecompressCandidates, try |-> {},
                   answer |-> {}, encoder |-> NoEncoder, failed |-> FALSE, result |-> ""]
     IN  PassGoes(p, IF begun.left = {} THEN NotEncoding ELSE begun)
  /\ UNCHANGED <<settled, aging, ending>>

(* cachedEncoders, and the listing of what ffmpeg was built with.          *)
Encoders(p) ==
  /\ PassAt(p, "ask")
  /\ IF settled # {} THEN PassGoes(p, [passes[p] EXCEPT !.at = "select", !.answer = settled])
     ELSE \/ PassGoes(p, [passes[p] EXCEPT !.at = "probe", !.try = KnownEncoder])
          \/ EncodingEnds(p, "failed")
  /\ UNCHANGED <<settled, aging, ending>>

(* usable: one frame, within a time.  A driver may be busy now and not the *)
(* next time, and a process that ends probes nothing more.                 *)
Usable(p) ==
  /\ PassAt(p, "probe") /\ passes[p].try # {}
  /\ \E works \in IF ending THEN {FALSE} ELSE BOOLEAN :
       LET e == Min(passes[p].try)
       IN  PassGoes(p, [passes[p] EXCEPT !.try = @ \ {e}, !.answer = IF works THEN @ \cup {e} ELSE @])
  /\ UNCHANGED <<settled, aging, ending>>

(* Mutant of PublishEncoders: the last answer is the one that is kept.     *)
PublishLast(p) ==
  /\ PassAt(p, "probe") /\ passes[p].try = {}
  /\ settled' = IF passes[p].answer = {} THEN settled ELSE passes[p].answer
  /\ PassGoes(p, [passes[p] EXCEPT !.at = "select"])
  /\ UNCHANGED <<aging, ending>>

(* The first answer that names any is kept, and is the later ones' too.    *)
PublishEncoders(p) ==
  /\ PassAt(p, "probe") /\ passes[p].try = {}
  /\ settled' = IF settled = {} THEN passes[p].answer ELSE settled
  /\ PassGoes(p, [passes[p] EXCEPT !.at = "select", !.answer = IF @ = {} THEN {} ELSE settled'])
  /\ UNCHANGED <<aging, ending>>

(* SelectEncoder: software where hardware is not wanted or there is none,  *)
(* and hardware before nothing.                                            *)
SelectEncoder(available, preferHardware) ==
  LET hardware == available \ {Software}
  IN  IF hardware # {} /\ (preferHardware \/ Software \notin available) THEN Min(hardware)
      ELSE IF Software \in available THEN Software ELSE NoEncoder

ChooseEncoder(p) ==
  /\ PassAt(p, "select")
  /\ \E preferHardware \in BOOLEAN :
       LET chosen == SelectEncoder(passes[p].answer, preferHardware)
       IN  IF chosen = NoEncoder THEN EncodingEnds(p, "failed")
           ELSE PassGoes(p, [passes[p] EXCEPT !.at = "each", !.encoder = chosen])
  /\ UNCHANGED <<settled, aging, ending>>

----------------------------------------------------------------------------
(* recompressEach                                                          *)

Encodes(r) == \E p \in Caller : PassAt(p, "encode") /\ Min(passes[p].left) = r

(* Mutant of StillWanted: the list that proposed it is trusted.            *)
WantedByList(r) == TRUE

(* Recompress: a recording nobody else holds, asked for its state again.   *)
StillWanted(r) == r \in RecompressCandidates

BeginEncode(p) ==
  /\ PassAt(p, "each") /\ passes[p].left # {} /\ ~ending
  /\ LET r == Min(passes[p].left)
     IN  IF ~Encodes(r) /\ StillWanted(r) THEN PassGoes(p, [passes[p] EXCEPT !.at = "encode"])
         ELSE PassGoes(p, [passes[p] EXCEPT !.left = @ \ {r}, !.failed = TRUE])
  /\ UNCHANGED <<settled, aging, ending>>

(* Mutant of EndEncode: the first failure ends the pass.                   *)
EndEncodeAtFailure(p) ==
  /\ PassAt(p, "encode")
  /\ LET r == Min(passes[p].left)
     IN  \/ /\ aging' = [aging EXCEPT ![r].times = @ + 1]
            /\ PassGoes(p, [passes[p] EXCEPT !.at = "each", !.left = @ \ {r}])
         \/ EncodingEnds(p, "failed") /\ UNCHANGED aging
  /\ UNCHANGED <<settled, ending>>

(* It is encoded, or its failure is kept for the end of the pass.          *)
EndEncode(p) ==
  /\ PassAt(p, "encode")
  /\ LET r == Min(passes[p].left)
     IN  \/ /\ aging' = [aging EXCEPT ![r].times = @ + 1]
            /\ PassGoes(p, [passes[p] EXCEPT !.at = "each", !.left = @ \ {r}])
         \/ PassGoes(p, [passes[p] EXCEPT !.at = "each", !.left = @ \ {r}, !.failed = TRUE]) /\ UNCHANGED aging
  /\ UNCHANGED <<settled, ending>>

(* A pass that is stopped reports nothing.                                 *)
EndEncoding(p) ==
  /\ PassAt(p, "each") /\ (passes[p].left = {} \/ ending)
  /\ EncodingEnds(p, IF ending THEN "stopped" ELSE IF passes[p].failed THEN "failed" ELSE "clean")
  /\ UNCHANGED <<settled, aging, ending>>

----------------------------------------------------------------------------

(* The operator purges a recording nobody holds.                           *)
PurgeOld ==
  /\ \E r \in Aging : ~Encodes(r) /\ aging[r].state = "complete" /\ aging' = [aging EXCEPT ![r].state = "trashed"]
  /\ UNCHANGED <<settled, passes, ending>>

StopDaemon == ~ending /\ ending' = TRUE /\ UNCHANGED <<settled, passes, aging>>

EncodingInit ==
  /\ settled = {} /\ passes = [p \in Caller |-> NotEncoding] /\ ending = FALSE
  /\ aging = [r \in Aging |-> [state |-> "complete", times |-> 0]]

EncodingNext ==
  \/ \E p \in Caller : \/ RecompressPass(p) \/ Encoders(p) \/ Usable(p) \/ PublishEncoders(p) \/ ChooseEncoder(p)
                       \/ BeginEncode(p) \/ EndEncode(p) \/ EndEncoding(p)
  \/ PurgeOld \/ StopDaemon

EncodingSpec == EncodingInit /\ [][EncodingNext]_encoding

----------------------------------------------------------------------------

(* encode.go, Encoders: "two different answers to the same question" are   *)
(* not worth it; organize.go, Recompress: what proposed a recording was    *)
(* read hours ago; and recompressEach, whose failures wait for its end.    *)
(* Whatever drivers do between two probes, every pass of a process chooses *)
(* from one answer; no recording is encoded twice or once it was purged;   *)
(* and a pass that nobody stopped got to every recording it listed.        *)
EncodingIsSteady ==
  /\ \A p \in Caller : passes[p] # NotEncoding /\ passes[p].encoder # NoEncoder => passes[p].answer = settled
  /\ \A r \in Aging : aging[r].times <= 1 /\ (Encodes(r) => aging[r].state = "complete" /\ aging[r].times = 0)
  /\ \A p \in Caller : PassAt(p, "ended") /\ passes[p].encoder # NoEncoder =>
       /\ passes[p].result # "stopped" => passes[p].left = {}
       /\ passes[p].result = "clean" => \A r \in passes[p].listed : aging[r].times = 1
=============================================================================
