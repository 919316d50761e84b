------------------------------ MODULE Answers -------------------------------
(***************************************************************************)
(* What a tool is told to answer, and what is read of it: its output is    *)
(* kept up to a limit (internal/procgroup/output.go), and a probe of a     *)
(* channel (internal/record/streamlink.go), a download's path or failure   *)
(* (internal/fetch/fetch.go), a listing and a measurement                  *)
(* (internal/post/post.go) are read from what was kept.                    *)
(*                                                                         *)
(* Output is counted in pieces.  A path is two of them, a measurement and  *)
(* a reason are one, and a probe's body opens, lists its streams and its   *)
(* error, and closes.                                                      *)
(***************************************************************************)
EXTENDS Naturals, Sequences, FiniteSets

CONSTANTS Limit,        \* how many pieces are kept
          MaxNoise      \* bound on the pieces ahead of an answer

ASSUME AnswersAssumption == Limit \in Nat \ {0, 1} /\ MaxNoise \in Nat

VARIABLES question,     \* what the tool is asked, and what is true of it
          saying,       \* what it has still to write
          collected,    \* what was kept, and how much was not
          exited,         \* how it ended
          understood    \* what was read

answers == <<question, saying, collected, exited, understood>>

Unasked == [of |-> "nothing", truth |-> "nothing"]

----------------------------------------------------------------------------
(* The tools                                                               *)

(* What an honest tool says: streamlink lists streams, with or without an  *)
(* error beside them, or opens its error with what the matter is; a        *)
(* download prints the path it moved to; a decoder measures at its end.    *)
Speech(q) ==
  CASE q = [of |-> "probe", truth |-> "live"]    -> 
         {<<"open", "stream", "close">>, <<"open", "stream", "stream", "close">>, <<"open", "stream", "other", "close">>}
    [] q = [of |-> "probe", truth |-> "offline"] -> {<<"open", "no_streams", "close">>}
    [] q = [of |-> "probe", truth |-> "refused"] -> {<<"open", "unauthorized", "close">>}
    [] q = [of |-> "probe", truth |-> "broken"]  -> {<<"open", "other", "close">>, <<>>}
    [] q = [of |-> "path", truth |-> "moved"]    -> {<<"directory", "name">>}
    [] q = [of |-> "path", truth |-> "gone"]     -> {<<"permanent">>}
    [] q = [of |-> "path", truth |-> "denied"]   -> {<<"auth">>, <<"permanent", "auth">>}
    [] q = [of |-> "path", truth |-> "broken"]   -> {<<"other">>}
    [] q = [of |-> "measure", truth |-> "sound"] -> {<<"measurement">>}
    [] q = [of |-> "list", truth |-> "all"]      -> {<<"item", "item">>}

Question ==
  {[of |-> "probe", truth |-> t] : t \in {"live", "offline", "refused", "broken"}}
  \cup {[of |-> "path", truth |-> t] : t \in {"moved", "gone", "denied", "broken"}}
  \cup {[of |-> "measure", truth |-> "sound"], [of |-> "list", truth |-> "all"]}

(* Warnings and progress come ahead of it, and one may be an object of its *)
(* own.                                                                    *)
Noise == UNION {[1 .. n -> {"warning", "object"}] : n \in 0 .. MaxNoise}

AskTool ==
  /\ question = Unasked
  /\ \E q \in Question, noise \in Noise :
       /\ question' = q /\ \E said \in Speech(q) : saying' = noise \o said
  /\ UNCHANGED <<collected, exited, understood>>

(* EndsBadly: what ends badly by its own account.                          *)
EndsBadly == question.truth \in {"offline", "refused", "gone", "denied", "broken"}

ToolExits == exited = "" /\ question # Unasked /\ saying = <<>>
         /\ exited' = (IF EndsBadly THEN "badly" ELSE "well") /\ UNCHANGED <<question, saying, collected, understood>>

(* A timeout, or a tool that dies of its own.                              *)
Killed == exited = "" /\ question # Unasked
          /\ exited' = "badly" /\ saying' = <<>> /\ UNCHANGED <<question, collected, understood>>

----------------------------------------------------------------------------
(* Output                                                                  *)

(* Mutant of TailOutput: the opening is kept, whatever the tool.           *)
NeverTail(tool) == FALSE

(* NewTailOutput, of a tool that states its answer after the work.         *)
TailOutput(tool) == tool = "measure"

(* Write: it never stops a tool, and counts what it does not keep.         *)
WriteOutput ==
  /\ exited = "" /\ saying # <<>> /\ saying' = Tail(saying)
  /\ LET all == collected.kept \o <<saying[1]>>
     IN  collected' =
           IF Len(all) <= Limit THEN [collected EXCEPT !.kept = all]
           ELSE [kept |-> IF TailOutput(question.of) THEN SubSeq(all, 2, Len(all)) ELSE collected.kept,
                 dropped |-> collected.dropped + 1]
  /\ UNCHANGED <<question, exited, understood>>

(* Mutant of Truncated: what was kept is parsed, and may parse.            *)
NeverTruncated == FALSE

Truncated == collected.dropped > 0

----------------------------------------------------------------------------
(* The readings                                                            *)

Mentions(output, piece) == \E i \in DOMAIN output : output[i] = piece

(* trimToJSON: from the first line that opens an object.                   *)
TrimToJSON(kept) ==
  LET opens == {i \in DOMAIN kept : kept[i] \in {"open", "object"}}
  IN  IF opens = {} THEN kept ELSE SubSeq(kept, CHOOSE i \in opens : \A j \in opens : i <= j, Len(kept))

(* One object, and nothing after it.                                       *)
Parses(json) == json = <<"object">> \/ (json # <<>> /\ json[1] = "open" /\ json[Len(json)] = "close")
ListsStreams(json) == Mentions(json, "stream")
ErrorOf(json) ==
  LET errors == {e \in {"no_streams", "unauthorized", "other"} : Mentions(json, e)}
  IN  IF errors = {} THEN "" ELSE CHOOSE e \in errors : TRUE

(* Mutant of EmptyProbe: an answer with no error is a channel off the air. *)
EmptyProbeAnyway(json) ==
  IF ErrorOf(json) \in {"", "no_streams"} THEN "offline"
  ELSE IF ErrorOf(json) = "unauthorized" THEN "refused" ELSE "failed"

(* emptyProbe, offline and unauthorized.                                   *)
EmptyProbe(json) ==
  IF ErrorOf(json) = "no_streams" \/ (ErrorOf(json) = "" /\ exited # "badly") THEN "offline"
  ELSE IF ErrorOf(json) = "unauthorized" THEN "refused" ELSE "failed"

(* Probe: the body is parsed before the exit is judged  .                  *)
Probe ==
  LET json == TrimToJSON(collected.kept)
  IN  IF Truncated \/ ~Parses(json) THEN "failed"
      ELSE IF ListsStreams(json) THEN "live" ELSE EmptyProbe(json)

(* Classify: the credential first, then what no retry will change.         *)
Classify(stderr) ==
  IF Mentions(stderr, "auth") THEN "auth" ELSE IF Mentions(stderr, "permanent") THEN "permanent" ELSE "transient"

(* run and Download: a failure by what the tool said of it, a fragment is  *)
(* no answer, and else the last line is the path.                          *)
PathOf ==
  IF exited = "badly" THEN Classify(collected.kept)
  ELSE IF Truncated THEN "transient"
  ELSE IF Len(collected.kept) > 1 /\ collected.kept[Len(collected.kept)] = "name" THEN "moved" ELSE "elsewhere"

(* toolOutput.                                                             *)
ToolOutput ==
  IF exited = "badly" \/ Truncated THEN "failed"
  ELSE IF Cardinality({i \in DOMAIN collected.kept : collected.kept[i] = "item"}) = 2 THEN "all" ELSE "some"

(* toolDiagnostics, and the measurement that is looked for in it.          *)
ToolDiagnostics == IF exited = "well" /\ Mentions(collected.kept, "measurement") THEN "sound" ELSE "failed"

Answer ==
  /\ exited # "" /\ understood = ""
  /\ understood' = CASE question.of = "probe" -> Probe [] question.of = "path" -> PathOf
                   [] question.of = "list" -> ToolOutput [] question.of = "measure" -> ToolDiagnostics
  /\ UNCHANGED <<question, saying, collected, exited>>

AnswersInit ==
  /\ question = Unasked /\ saying = <<>> /\ exited = "" /\ understood = ""
  /\ collected = [kept |-> <<>>, dropped |-> 0]

AnswersNext == AskTool \/ WriteOutput \/ ToolExits \/ Killed \/ Answer

AnswersSpec == AnswersInit /\ [][AnswersNext]_answers

----------------------------------------------------------------------------

(* output.go: "a capture that read half a stream listing would report a    *)
(* broadcasting channel as offline", and a decoder's warning "fills any    *)
(* bound long before the measurement at the end is written".  However much *)
(* a tool says and wherever it is cut, a channel is off the air, refused   *)
(* or on it, a path, a list or a failure that no retry will change is one, *)
(* only where the tool said so; and a tool that ended well is heard where  *)
(* its answer was kept, and a measurement always.                          *)
AnswersAreWhole ==
  understood # "" =>
    /\ understood \in {"live", "offline", "refused", "moved", "all"} => understood = question.truth
    /\ understood \notin {"elsewhere", "some"}
    /\ understood = "permanent" => question.truth \in {"gone", "denied"}
    /\ understood = "auth" => question.truth = "denied"
    /\ exited = "well" /\ question.of = "measure" => understood = "sound"
    /\ ~Truncated /\ saying = <<>> /\ exited = "well" /\ ~Mentions(collected.kept, "object") => understood = question.truth
=============================================================================
