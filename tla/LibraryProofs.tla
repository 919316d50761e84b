--------------------------- MODULE LibraryProofs ---------------------------
(***************************************************************************)
(* Theorems about what is recorded and what is known of it: one run of a   *)
(* tool (Tool) and what is read of its output (Answers), the replacement   *)
(* of a file by what a tool made of it (Replace), the pass that encodes    *)
(* old recordings again (Encoding), the watch loop whose captures a tool   *)
(* writes (Watcher), the rows of the broadcasts and what an import         *)
(* restores of them (Catalogue, Importer), the titles that are kept beside *)
(* recordings (Titles), the holes of a capture (Holes), the directory      *)
(* downloads land in (Incoming), the disk budget (Budget) and the text of  *)
(* its limits (Sizes), and the listing of past broadcasts (Listing).  They *)
(* hold for every set of helpers, imports, files and instants, every bound *)
(* of a length, every number of passes, encoders, captures, channels and   *)
(* recordings, and every limit of the watch loop, of the listing and of    *)
(* the budget.                                                             *)
(***************************************************************************)
EXTENDS Tool, Answers, Replace, Encoding, Watcher, Importer, Holes, Incoming,
        Budget, Sizes, Listing, Titles,
        FiniteSetTheorems, SequenceTheorems, WellFoundedInduction, TLAPS

(* A set of numbers that is not empty holds its least one.                 *)
LEMMA HasLeast ==
  ASSUME NEW S \in SUBSET Nat, S # {}
  PROVE  \E x \in S : \A y \in S : x <= y
<1>1. IsWellFoundedOn(OpToRel(<, Nat), Nat)
  BY NatLessThanWellFounded
<1>2. PICK x \in S : \A y \in S : <<y, x>> \notin OpToRel(<, Nat)
  BY ONLY <1>1, WFMin, S \in SUBSET Nat, S # {}
<1>3. \A y \in S : x <= y
  <2> SUFFICES ASSUME NEW y \in S PROVE ~ (y < x)
    OBVIOUS
  <2>1. <<y, x>> \notin OpToRel(<, Nat)
    BY <1>2
  <2>2. OpToRel(<, Nat) = {ss \in Nat \X Nat : ss[1] < ss[2]}
    BY DEF OpToRel
  <2> QED
    BY <2>1, <2>2
<1> QED
  BY <1>2, <1>3

----------------------------------------------------------------------------
(* Tool *)

ToolTypeOK ==
  /\ system \in {"unix", "windows"} /\ piped \in BOOLEAN
  /\ process \in [Processes -> {"none", "running", "ended"}]
  /\ group \subseteq Processes
  /\ runs \in {"new", "started", "waiting", "returned", "measured"}
  /\ told \in BOOLEAN /\ expired \in BOOLEAN

(* Whoever runs is in the group, or is a program on Windows that has not   *)
(* been held yet and has started nobody.                                   *)
ToolInv ==
  /\ ToolTypeOK
  /\ runs = "new" => \A p \in Processes : process[p] = "none"
  /\ runs = "started" /\ system = "windows" => group = {} /\ Running \subseteq {Program}
  /\ runs = "started" /\ system = "unix" => Program \in group /\ Running \subseteq group
  /\ runs = "waiting" => Running \subseteq group
  /\ MeasuredIsFinal

(* What End leaves running.                                                *)
LEMMA EndLeaves ==
  ASSUME ToolTypeOK, NEW S, End(S)
  PROVE  /\ Running' = Running \ S
         /\ process' \in [Processes -> {"none", "running", "ended"}]
  BY DEF End, Running, ToolTypeOK

LEMMA ToolInvInit == ToolInit => ToolInv
  BY DEF ToolInit, ToolInv, ToolTypeOK, MeasuredIsFinal, Running, Processes

LEMMA ToolInvStep == ToolInv /\ [ToolNext]_tool => ToolInv'
<1> SUFFICES ASSUME ToolInv, [ToolNext]_tool PROVE ToolInv'
  OBVIOUS
<1> USE DEF ToolInv, MeasuredIsFinal
<1>1. CASE StartTool
  BY <1>1 DEF StartTool, ToolTypeOK, Running, Processes
<1>2. CASE Attach
  <2>1. CASE runs' = "waiting"
    BY <1>2, <2>1 DEF Attach, ToolTypeOK, Running, Processes
  <2>2. CASE runs' = "returned"
    BY <1>2, <2>2, EndLeaves DEF Attach, ToolTypeOK
  <2> QED
    BY <1>2, <2>1, <2>2 DEF Attach
<1>3. CASE CancelTool
  <2>1. CASE UNCHANGED process
    BY <1>3, <2>1 DEF CancelTool, ToolTypeOK, Running
  <2>2. ASSUME NEW S, End(S) PROVE ToolInv'
    BY <1>3, <2>2, EndLeaves DEF CancelTool, ToolTypeOK
  <2> QED
    BY <1>3, <2>1, <2>2 DEF CancelTool
<1>4. CASE Delay
  BY <1>4, EndLeaves DEF Delay, ToolTypeOK
<1>5. CASE WaitAndClose
  BY <1>5, EndLeaves DEF WaitAndClose, Waited, ToolTypeOK
<1>6. CASE Measure
  BY <1>6 DEF Measure, ToolTypeOK, Running
<1>7. ASSUME NEW h \in Helper, Spawns(h) PROVE ToolInv'
  BY <1>7 DEF Spawns, ToolTypeOK, Running, Processes
<1>8. ASSUME NEW p \in Processes, Exits(p) PROVE ToolInv'
  BY <1>8, EndLeaves DEF Exits, ToolTypeOK, Running
<1>9. CASE UNCHANGED tool
  BY <1>9 DEF tool, ToolTypeOK, Running
<1> QED
  BY <1>1, <1>2, <1>3, <1>4, <1>5, <1>6, <1>7, <1>8, <1>9 DEF ToolNext

(* procgroup.go, Run and Close, and streamlink.go, Capture: whichever      *)
(* system it is, whoever is started, ends or is told to end between two    *)
(* calls, a run that has returned has left nothing running that writes to  *)
(* what is measured next.                                                  *)
THEOREM MeasuredFinal == ToolSpec => []MeasuredIsFinal
<1>1. ToolInv => MeasuredIsFinal
  BY DEF ToolInv
<1> QED
  BY <1>1, ToolInvInit, ToolInvStep, PTL DEF ToolSpec

----------------------------------------------------------------------------
(* Replace *)

(* What a tool made of a source and the checks let through plays as long   *)
(* and has the streams, unless a decoder passed over the source's damage.  *)
LEMMA VerifiedIsWhole ==
  ASSUME NEW src \in Medium, NEW out \in Carried(src), Verify(src, out)
  PROVE  /\ out.streams >= src.streams
         /\ (Damaged(src) => src.reports) => out.reads = src.plays
<1>1. out \in Medium
  BY DEF Carried
<1>2. out.streams >= src.streams
  BY DEF Verify, KeepsStreams
<1>3. Damaged(src) => ~src.reports
  BY DEF Verify, DemuxClean
<1>4. ~Damaged(out)
  BY DEF Verify, DemuxClean, Carried
<1>5. out.plays \in {src.reads, src.plays}
  BY <1>4 DEF Carried
<1>6. /\ src.reads \in Int /\ src.plays \in Int /\ src.reads <= src.plays
      /\ out.reads \in Int /\ out.plays \in Int /\ out.reads <= out.plays
  BY <1>1, ReplaceAssumption DEF Medium, Length
<1> QED
  BY <1>2, <1>3, <1>4, <1>5, <1>6 DEF Damaged

(* The row names the output only once it was verified, and the source is   *)
(* removed only once the row names the output.                             *)
ReplaceInv ==
  /\ whole \in Medium /\ source \in {whole, Nothing}
  /\ names \in {"original", "output"}
  /\ replacing \in {"remux", "transcode", "verify", "commit", "discard"} => names = "original"
  /\ names = "original" => source = whole /\ replacing # "remove"
  /\ replacing = "verify" => output \in Carried(whole)
  /\ replacing = "commit" \/ names = "output" => output \in Carried(whole) /\ Verify(whole, output)

LEMMA ReplaceInvStep == ReplaceInv /\ [ReplaceNext]_replacement => ReplaceInv'
<1> SUFFICES ASSUME ReplaceInv, [ReplaceNext]_replacement PROVE ReplaceInv'
  OBVIOUS
<1> USE DEF ReplaceInv
<1>1. CASE StepReplaces
  BY <1>1 DEF StepReplaces
<1>2. CASE VerifyReplaces
  BY <1>2 DEF VerifyReplaces
<1>3. CASE Commit
  BY <1>3 DEF Commit
<1>4. CASE RemoveSource
  BY <1>4 DEF RemoveSource
<1>5. CASE Discard
  BY <1>5 DEF Discard
<1>6. CASE UNCHANGED replacement
  BY <1>6 DEF replacement
<1> QED
  BY <1>1, <1>2, <1>3, <1>4, <1>5, <1>6 DEF ReplaceNext

LEMMA ReplaceInvNamed == ReplaceInv => NamedIsWhole
<1> SUFFICES ASSUME ReplaceInv PROVE NamedIsWhole
  OBVIOUS
<1>1. ASSUME names = "original" PROVE source # Nothing
  BY <1>1, ReplaceAssumption DEF ReplaceInv, Medium, Nothing, Length
<1> QED
  BY <1>1, VerifiedIsWhole DEF ReplaceInv, NamedIsWhole

(* post.go, ReplaceVerified: however the tool, the checks, the commit and  *)
(* the removal end, the row names a file that is there, and what it names  *)
(* in the place of a source is as long and has its streams.                *)
THEOREM NamedWhole == ReplaceSpec => []NamedIsWhole
<1>1. ReplaceInit => ReplaceInv
  BY DEF ReplaceInit, ReplaceInv
<1> QED
  BY <1>1, ReplaceInvStep, ReplaceInvNamed, PTL DEF ReplaceSpec

----------------------------------------------------------------------------
(* Encoding *)

LEMMA MinIsIn ==
  ASSUME NEW S \in SUBSET Nat, S # {}
  PROVE  Min(S) \in S
  BY HasLeast DEF Min

PassType ==
  [at : {"ask", "probe", "select", "each", "encode", "ended"},
   listed : SUBSET Aging, left : SUBSET Aging, try : SUBSET KnownEncoder, answer : SUBSET KnownEncoder,
   encoder : KnownEncoder \cup {NoEncoder}, failed : BOOLEAN, result : {"", "failed", "stopped", "clean"}]

EncodingTypeOK ==
  /\ settled \in SUBSET KnownEncoder /\ ending \in BOOLEAN
  /\ aging \in [Aging -> [state : {"complete", "trashed"}, times : Nat]]
  /\ passes \in [Caller -> PassType \cup {NotEncoding}]

(* What a pass knows, of its own answer and of the recordings it has left. *)
PassInv(job) ==
  job # NotEncoding =>
    /\ job.at \in {"ask", "probe", "select"} =>
         job.encoder = NoEncoder /\ ~job.failed /\ job.left = job.listed
    /\ job.at = "select" /\ job.answer # {} => job.answer = settled
    /\ job.encoder # NoEncoder => job.answer = settled /\ settled # {}
    /\ job.at = "encode" => Min(job.left) \in RecompressCandidates
    /\ ~job.failed => \A r \in job.listed \ job.left : aging[r].times = 1
    /\ job.at = "ended" /\ job.encoder # NoEncoder =>
         /\ job.result # "stopped" => job.left = {}
         /\ job.result = "clean" => ~job.failed

(* No two passes encode one recording.                                     *)
OnItsOwn ==
  \A p, q \in Caller :
    p # q /\ PassAt(p, "encode") /\ PassAt(q, "encode") => Min(passes[p].left) # Min(passes[q].left)

EncodingInv ==
  /\ EncodingTypeOK /\ OnItsOwn
  /\ \A p \in Caller : PassInv(passes[p])
  /\ \A r \in Aging : aging[r].times <= 1

LEMMA EncoderFacts ==
  /\ KnownEncoder \in SUBSET Nat /\ Software \in KnownEncoder
  /\ NoEncoder \notin KnownEncoder /\ Aging \in SUBSET Nat
  BY EncodingAssumption DEF KnownEncoder, Software, NoEncoder, Aging

LEMMA IdlePass ==
  ASSUME NEW job \in PassType \cup {NotEncoding}
  PROVE  (job.at = "idle") <=> (job = NotEncoding)
<1>1. ASSUME job \in PassType PROVE job.at # "idle"
  BY <1>1 DEF PassType
<1>2. NotEncoding.at = "idle"
  BY DEF NotEncoding
<1> QED
  BY <1>1, <1>2

(* SelectEncoder names one of those it is given, or none.                  *)
LEMMA Selected ==
  ASSUME NEW available \in SUBSET KnownEncoder, NEW preferHardware \in BOOLEAN
  PROVE  SelectEncoder(available, preferHardware) \in available \cup {NoEncoder}
  BY MinIsIn, EncoderFacts DEF SelectEncoder

(* A record of a pass, with some of its fields replaced.                   *)
LEMMA PassUpdates ==
  ASSUME NEW job \in PassType, NEW at \in {"ask", "probe", "select", "each", "encode", "ended"},
         NEW left \in SUBSET Aging, NEW try \in SUBSET KnownEncoder, NEW answer \in SUBSET KnownEncoder,
         NEW encoder \in KnownEncoder \cup {NoEncoder}, NEW failed \in BOOLEAN,
         NEW verdict \in {"", "failed", "stopped", "clean"}
  PROVE  /\ [job EXCEPT !.at = at, !.answer = answer] \in PassType
         /\ [job EXCEPT !.at = at, !.try = try] \in PassType
         /\ [job EXCEPT !.at = at, !.result = verdict] \in PassType
         /\ [job EXCEPT !.try = try, !.answer = answer] \in PassType
         /\ [job EXCEPT !.at = at, !.encoder = encoder] \in PassType
         /\ [job EXCEPT !.at = at] \in PassType
         /\ [job EXCEPT !.left = left, !.failed = failed] \in PassType
         /\ [job EXCEPT !.at = at, !.left = left] \in PassType
         /\ [job EXCEPT !.at = at, !.left = left, !.failed = failed] \in PassType
  BY ZenonT(40) DEF PassType

(* A pass that is under way, and the record its step leaves.               *)
LEMMA PassMoves ==
  ASSUME EncodingTypeOK, NEW p \in Caller, NEW job \in PassType \cup {NotEncoding}, PassGoes(p, job)
  PROVE  /\ passes' \in [Caller -> PassType \cup {NotEncoding}] /\ passes'[p] = job
         /\ \A q \in Caller \ {p} : passes'[q] = passes[q]
  BY DEF PassGoes, EncodingTypeOK

LEMMA UnderWay ==
  ASSUME EncodingTypeOK, NEW p \in Caller, passes[p].at # "idle"
  PROVE  passes[p] \in PassType /\ passes[p] # NotEncoding
  BY DEF EncodingTypeOK, NotEncoding

(* A step that changes one pass, and neither the answer nor a recording.   *)
LEMMA OnePass ==
  ASSUME EncodingInv, NEW p \in Caller, NEW job \in PassType \cup {NotEncoding}, PassGoes(p, job),
         UNCHANGED <<settled, aging>>, ending' \in BOOLEAN,
         PassInv(job), job.at = "encode" => ~Encodes(Min(job.left))
  PROVE  EncodingInv'
<1>1. /\ passes' \in [Caller -> PassType \cup {NotEncoding}] /\ passes'[p] = job
      /\ \A q \in Caller \ {p} : passes'[q] = passes[q]
  BY PassMoves DEF EncodingInv
<1>2. \A q \in Caller : PassInv(passes[q])'
  BY <1>1 DEF EncodingInv, PassInv, RecompressCandidates
<1>3. OnItsOwn'
  BY <1>1 DEF EncodingInv, OnItsOwn, PassAt, Encodes
<1> QED
  BY <1>1, <1>2, <1>3 DEF EncodingInv, EncodingTypeOK

LEMMA EncodingInvStep == EncodingInv /\ [EncodingNext]_encoding => EncodingInv'
<1> SUFFICES ASSUME EncodingInv, [EncodingNext]_encoding PROVE EncodingInv'
  OBVIOUS
<1> USE EncoderFacts
<1>0. EncodingTypeOK /\ ending \in BOOLEAN /\ settled \in SUBSET KnownEncoder
      /\ \A p \in Caller : PassInv(passes[p])
  BY DEF EncodingInv, EncodingTypeOK
<1>1. ASSUME NEW p \in Caller, RecompressPass(p) PROVE EncodingInv'
  <2> DEFINE begun == [at |-> "ask", listed |-> RecompressCandidates, left |-> RecompressCandidates, try |-> {},
                       answer |-> {}, encoder |-> NoEncoder, failed |-> FALSE, result |-> ""]
  <2>1. begun \in PassType /\ PassInv(begun) /\ PassInv(NotEncoding)
        /\ begun.at # "encode" /\ NotEncoding.at # "encode"
    BY DEF PassType, PassInv, NotEncoding, RecompressCandidates
  <2>2. PassGoes(p, begun) \/ PassGoes(p, NotEncoding)
    BY <1>1 DEF RecompressPass
  <2> HIDE DEF begun
  <2> QED
    BY <1>0, <1>1, <2>1, <2>2, OnePass DEF RecompressPass
<1>2. ASSUME NEW p \in Caller, Encoders(p) PROVE EncodingInv'
  <2> DEFINE job == passes[p]
  <2>1. job \in PassType /\ job # NotEncoding /\ PassInv(job) /\ job.at = "ask"
    BY <1>0, <1>2, UnderWay DEF Encoders, PassAt
  <2>2. UNCHANGED <<settled, aging>> /\ ending' \in BOOLEAN
    BY <1>0, <1>2 DEF Encoders
  <2>3. CASE PassGoes(p, [job EXCEPT !.at = "select", !.answer = settled])
    <3> DEFINE next == [job EXCEPT !.at = "select", !.answer = settled]
    <3>1. next \in PassType /\ PassGoes(p, next)
      BY ZenonT(40), <1>0, <2>1, <2>3, PassUpdates
    <3>2. PassInv(next) /\ next.at # "encode"
      BY <2>1, <3>1 DEF PassInv, PassType
    <3> HIDE DEF next
    <3> QED
      BY <2>2, <3>1, <3>2, OnePass
  <2>4. CASE PassGoes(p, [job EXCEPT !.at = "probe", !.try = KnownEncoder])
    <3> DEFINE next == [job EXCEPT !.at = "probe", !.try = KnownEncoder]
    <3>1. next \in PassType /\ PassGoes(p, next)
      BY ZenonT(40), <2>1, <2>4, PassUpdates
    <3>2. PassInv(next) /\ next.at # "encode"
      BY ZenonT(40), <2>1, <3>1 DEF PassInv, PassType
    <3> HIDE DEF next
    <3> QED
      BY <2>2, <3>1, <3>2, OnePass
  <2>5. CASE PassGoes(p, [job EXCEPT !.at = "ended", !.result = "failed"])
    <3> DEFINE next == [job EXCEPT !.at = "ended", !.result = "failed"]
    <3>1. next \in PassType /\ PassGoes(p, next)
      BY <2>1, <2>5, PassUpdates
    <3>2. PassInv(next) /\ next.at # "encode"
      BY <2>1, <3>1 DEF PassInv, PassType
    <3> HIDE DEF next
    <3> QED
      BY <2>2, <3>1, <3>2, OnePass
  <2> QED
    BY <1>2, <2>3, <2>4, <2>5 DEF Encoders, EncodingEnds
<1>3. ASSUME NEW p \in Caller, Usable(p) PROVE EncodingInv'
  <2> DEFINE job == passes[p]
             e == Min(job.try)
  <2>1. job \in PassType /\ job # NotEncoding /\ PassInv(job) /\ job.at = "probe" /\ job.try # {}
    BY <1>0, <1>3, UnderWay DEF Usable, PassAt
  <2>2. UNCHANGED <<settled, aging>> /\ ending' \in BOOLEAN
    BY <1>0, <1>3 DEF Usable
  <2>3. job.try \in SUBSET KnownEncoder /\ job.answer \in SUBSET KnownEncoder
    BY <2>1 DEF PassType
  <2>4. e \in KnownEncoder
    BY <2>1, <2>3, MinIsIn
  <2>5. PICK answer \in SUBSET KnownEncoder :
          PassGoes(p, [job EXCEPT !.try = job.try \ {e}, !.answer = answer])
    BY <1>3, <2>3, <2>4 DEF Usable
  <2> DEFINE next == [job EXCEPT !.try = job.try \ {e}, !.answer = answer]
  <2>6. next \in PassType /\ PassGoes(p, next)
    <3>1. job.try \ {e} \in SUBSET KnownEncoder
      BY <2>3
    <3>2. next \in PassType
      BY <2>1, <3>1, PassUpdates
    <3> QED
      BY <2>5, <3>2
  <2>7. PassInv(next) /\ next.at # "encode"
    BY <2>1, <2>6 DEF PassInv, PassType
  <2> HIDE DEF next
  <2> QED
    BY <2>2, <2>6, <2>7, OnePass
<1>4. ASSUME NEW p \in Caller, PublishEncoders(p) PROVE EncodingInv'
  <2> DEFINE job == passes[p]
             next == [job EXCEPT !.at = "select", !.answer = IF job.answer = {} THEN {} ELSE settled']
  <2>1. job \in PassType /\ job # NotEncoding /\ PassInv(job) /\ job.at = "probe"
    BY <1>0, <1>4, UnderWay DEF PublishEncoders, PassAt
  <2>2. settled' \in SUBSET KnownEncoder /\ UNCHANGED aging /\ ending' \in BOOLEAN
        /\ (settled # {} => settled' = settled)
    BY <1>0, <1>4, <2>1 DEF PublishEncoders, PassType
  <2>3. next \in PassType /\ PassGoes(p, next)
    <3>1. (IF job.answer = {} THEN {} ELSE settled') \in SUBSET KnownEncoder
      BY <2>2
    <3>2. next \in PassType
      BY <2>1, <3>1, PassUpdates
    <3>3. PassGoes(p, next)
      BY <1>4 DEF PublishEncoders
    <3> QED
      BY <3>2, <3>3
  <2>4. /\ next.at = "select" /\ next.answer = (IF job.answer = {} THEN {} ELSE settled')
        /\ next.encoder = NoEncoder /\ ~next.failed /\ next.left = next.listed
    BY <2>1, <2>3 DEF PassInv, PassType
  <2> HIDE DEF next
  <2>5. /\ passes' \in [Caller -> PassType \cup {NotEncoding}] /\ passes'[p] = next
        /\ \A q \in Caller \ {p} : passes'[q] = passes[q]
    BY <1>0, <2>3, PassMoves
  <2>6. PassInv(passes[p])'
    BY <2>4, <2>5 DEF PassInv
  <2>7. \A q \in Caller \ {p} : PassInv(passes[q])'
    BY <1>0, <2>2, <2>5 DEF PassInv, RecompressCandidates
  <2>8. OnItsOwn'
    BY <2>4, <2>5 DEF EncodingInv, OnItsOwn, PassAt
  <2> QED
    BY <2>2, <2>5, <2>6, <2>7, <2>8 DEF EncodingInv, EncodingTypeOK
<1>5. ASSUME NEW p \in Caller, ChooseEncoder(p) PROVE EncodingInv'
  <2> DEFINE job == passes[p]
  <2>1. job \in PassType /\ job # NotEncoding /\ PassInv(job) /\ job.at = "select"
    BY <1>0, <1>5, UnderWay DEF ChooseEncoder, PassAt
  <2>2. UNCHANGED <<settled, aging>> /\ ending' \in BOOLEAN
    BY <1>0, <1>5 DEF ChooseEncoder
  <2>3. PICK encoder \in job.answer \cup {NoEncoder} :
          IF encoder = NoEncoder THEN PassGoes(p, [job EXCEPT !.at = "ended", !.result = "failed"])
          ELSE PassGoes(p, [job EXCEPT !.at = "each", !.encoder = encoder])
    <3>1. job.answer \in SUBSET KnownEncoder
      BY <2>1 DEF PassType
    <3> QED
      BY <1>5, <3>1, Selected DEF ChooseEncoder, EncodingEnds
  <2>4. CASE encoder = NoEncoder
    <3> DEFINE next == [job EXCEPT !.at = "ended", !.result = "failed"]
    <3>1. next \in PassType /\ PassGoes(p, next)
      BY ZenonT(40), <2>1, <2>3, <2>4, PassUpdates
    <3>2. PassInv(next) /\ next.at # "encode"
      BY <2>1, <3>1 DEF PassInv, PassType
    <3> HIDE DEF next
    <3> QED
      BY <2>2, <3>1, <3>2, OnePass
  <2>5. CASE encoder # NoEncoder
    <3> DEFINE next == [job EXCEPT !.at = "each", !.encoder = encoder]
    <3>1. encoder \in job.answer /\ encoder \in KnownEncoder
      BY ZenonT(40), <2>1, <2>3, <2>5 DEF PassType
    <3>2. next \in PassType /\ PassGoes(p, next)
      BY <2>1, <2>3, <2>5, <3>1, PassUpdates
    <3>3. PassInv(next) /\ next.at # "encode"
      BY <2>1, <3>1, <3>2 DEF PassInv, PassType
    <3> HIDE DEF next
    <3> QED
      BY <2>2, <3>2, <3>3, OnePass
  <2> QED
    BY <2>4, <2>5
<1>6. ASSUME NEW p \in Caller, BeginEncode(p) PROVE EncodingInv'
  <2> DEFINE job == passes[p]
             r == Min(job.left)
  <2>1. job \in PassType /\ job # NotEncoding /\ PassInv(job) /\ job.at = "each" /\ job.left # {}
    BY <1>0, <1>6, UnderWay DEF BeginEncode, PassAt
  <2>2. UNCHANGED <<settled, aging>> /\ ending' \in BOOLEAN
    BY <1>0, <1>6 DEF BeginEncode
  <2>3. CASE ~Encodes(r) /\ StillWanted(r)
    <3> DEFINE next == [job EXCEPT !.at = "encode"]
    <3>1. next \in PassType /\ PassGoes(p, next)
      BY ZenonT(40), <1>6, <2>1, <2>3, PassUpdates DEF BeginEncode
    <3>2. next.left = job.left
      BY <2>1 DEF PassType
    <3>3. PassInv(next)
      BY ZenonT(40), <2>1, <2>3, <3>1, <3>2 DEF PassInv, PassType, StillWanted
    <3> HIDE DEF next
    <3> QED
      BY <2>2, <2>3, <3>1, <3>2, <3>3, OnePass
  <2>4. CASE ~(~Encodes(r) /\ StillWanted(r))
    <3> DEFINE next == [job EXCEPT !.left = job.left \ {r}, !.failed = TRUE]
    <3>1. next \in PassType /\ PassGoes(p, next)
      <4>1. job.left \ {r} \in SUBSET Aging
        BY <2>1 DEF PassType
      <4> QED
        BY <1>6, <2>1, <2>4, <4>1, PassUpdates DEF BeginEncode
    <3>2. PassInv(next) /\ next.at # "encode"
      BY <2>1, <3>1 DEF PassInv, PassType
    <3> HIDE DEF next
    <3> QED
      BY <2>2, <3>1, <3>2, OnePass
  <2> QED
    BY <2>3, <2>4
<1>7. ASSUME NEW p \in Caller, EndEncode(p) PROVE EncodingInv'
  <2> DEFINE job == passes[p]
             r == Min(job.left)
  <2>1. /\ job \in PassType /\ job # NotEncoding /\ PassInv(job) /\ job.at = "encode"
        /\ r \in RecompressCandidates /\ aging[r].times = 0 /\ r \in Aging
    BY <1>0, <1>7, UnderWay DEF EndEncode, PassAt, PassInv, RecompressCandidates
  <2>2. UNCHANGED settled /\ ending' \in BOOLEAN
    BY <1>0, <1>7 DEF EndEncode
  <2>3. CASE PassGoes(p, [job EXCEPT !.at = "each", !.left = job.left \ {r}]) /\ aging' = [aging EXCEPT ![r].times = @ + 1]
    <3> DEFINE next == [job EXCEPT !.at = "each", !.left = job.left \ {r}]
    <3>1. next \in PassType /\ PassGoes(p, next)
      <4>1. job.left \ {r} \in SUBSET Aging
        BY <2>1 DEF PassType
      <4> QED
        BY <2>1, <2>3, <4>1, PassUpdates
    <3>2. /\ next.at = "each" /\ next.left = job.left \ {r} /\ next.answer = job.answer
          /\ next.listed = job.listed /\ next.failed = job.failed /\ next.encoder = job.encoder
      BY <2>1 DEF PassType
    <3> HIDE DEF next
    <3>3. /\ passes' \in [Caller -> PassType \cup {NotEncoding}] /\ passes'[p] = next
          /\ \A q \in Caller \ {p} : passes'[q] = passes[q]
      BY <1>0, <3>1, PassMoves
    <3>4. /\ aging' \in [Aging -> [state : {"complete", "trashed"}, times : Nat]] /\ aging'[r].times = 1
          /\ \A q \in Aging \ {r} : aging'[q] = aging[q]
      BY <1>0, <2>1, <2>3 DEF EncodingTypeOK
    <3>5. /\ RecompressCandidates \ {r} \subseteq RecompressCandidates'
          /\ \A s \in Aging : aging[s].times = 1 => aging'[s].times = 1
      BY <2>1, <3>4 DEF RecompressCandidates
    <3>6. PassInv(passes[p])'
      <4>1. job.listed \in SUBSET Aging
        BY <2>1 DEF PassType
      <4>2. ~next.failed => \A s \in next.listed \ next.left : aging'[s].times = 1
        BY <2>1, <3>2, <3>4, <3>5, <4>1 DEF PassInv
      <4> QED
        BY <2>1, <2>2, <3>2, <3>3, <4>2 DEF PassInv
    <3>7. \A q \in Caller \ {p} : PassInv(passes[q])'
      <4> SUFFICES ASSUME NEW q \in Caller \ {p} PROVE PassInv(passes[q])'
        OBVIOUS
      <4>1. PassAt(q, "encode") => Min(passes[q].left) # r
        BY <2>1 DEF EncodingInv, OnItsOwn, PassAt
      <4>2. PassAt(q, "encode") => Min(passes[q].left) \in RecompressCandidates'
        BY <1>0, <3>5, <4>1 DEF PassInv, PassAt, NotEncoding
      <4>3. passes[q] # NotEncoding => passes[q].listed \in SUBSET Aging
        BY <1>0 DEF EncodingTypeOK, PassType
      <4> QED
        BY <1>0, <2>2, <3>3, <3>5, <4>2, <4>3 DEF PassInv, PassAt
    <3>8. OnItsOwn'
      BY <3>2, <3>3 DEF EncodingInv, OnItsOwn, PassAt
    <3> QED
      BY <2>2, <3>3, <3>4, <3>6, <3>7, <3>8, <1>0 DEF EncodingInv, EncodingTypeOK
  <2>4. CASE PassGoes(p, [job EXCEPT !.at = "each", !.left = job.left \ {r}, !.failed = TRUE]) /\ UNCHANGED aging
    <3> DEFINE next == [job EXCEPT !.at = "each", !.left = job.left \ {r}, !.failed = TRUE]
    <3>1. next \in PassType /\ PassGoes(p, next)
      <4>1. job.left \ {r} \in SUBSET Aging
        BY <2>1 DEF PassType
      <4> QED
        BY <2>1, <2>4, <4>1, PassUpdates
    <3>2. PassInv(next) /\ next.at # "encode"
      BY <2>1, <3>1 DEF PassInv, PassType
    <3> HIDE DEF next
    <3> QED
      BY <2>2, <2>4, <3>1, <3>2, OnePass
  <2> QED
    BY <1>7, <2>3, <2>4 DEF EndEncode
<1>8. ASSUME NEW p \in Caller, EndEncoding(p) PROVE EncodingInv'
  <2> DEFINE job == passes[p]
             verdict == IF ending THEN "stopped" ELSE IF job.failed THEN "failed" ELSE "clean"
             next == [job EXCEPT !.at = "ended", !.result = verdict]
  <2>1. job \in PassType /\ job # NotEncoding /\ PassInv(job) /\ (job.left = {} \/ ending)
    BY <1>0, <1>8, UnderWay DEF EndEncoding, PassAt
  <2>2. UNCHANGED <<settled, aging>> /\ ending' \in BOOLEAN
    BY <1>0, <1>8 DEF EndEncoding
  <2>3. next \in PassType /\ PassGoes(p, next)
    BY ZenonT(40), <1>8, <2>1, PassUpdates DEF EndEncoding, EncodingEnds
  <2>4. PassInv(next) /\ next.at # "encode"
    BY ZenonT(40), <1>8, <2>1, <2>3 DEF PassInv, PassType, EndEncoding, PassAt
  <2> HIDE DEF next
  <2> QED
    BY <2>2, <2>3, <2>4, OnePass
<1>9. CASE PurgeOld
  <2>1. PICK r \in Aging : ~Encodes(r) /\ aging' = [aging EXCEPT ![r].state = "trashed"]
    BY <1>9 DEF PurgeOld
  <2>2. /\ aging' \in [Aging -> [state : {"complete", "trashed"}, times : Nat]]
        /\ \A q \in Aging : aging'[q].times = aging[q].times /\ (q # r => aging'[q] = aging[q])
    BY <1>0, <2>1 DEF EncodingTypeOK
  <2>3. UNCHANGED <<settled, passes, ending>>
    BY <1>9 DEF PurgeOld
  <2>4. ASSUME NEW p \in Caller PROVE PassInv(passes[p])'
    <3>1. passes[p] # NotEncoding => passes[p].listed \in SUBSET Aging
      BY <1>0 DEF EncodingTypeOK, PassType
    <3>2. PassAt(p, "encode") => Min(passes[p].left) \in RecompressCandidates'
      BY <1>0, <2>1, <2>2 DEF PassInv, PassAt, NotEncoding, RecompressCandidates, Encodes
    <3> QED
      BY <1>0, <2>2, <2>3, <3>1, <3>2 DEF PassInv, PassAt
  <2> QED
    BY <2>2, <2>3, <2>4 DEF EncodingInv, EncodingTypeOK, OnItsOwn, PassAt
<1>10. CASE StopDaemon \/ UNCHANGED encoding
  <2>1. UNCHANGED <<settled, passes, aging>> /\ ending' \in BOOLEAN
    BY <1>0, <1>10 DEF StopDaemon, encoding
  <2> QED
    BY <2>1 DEF EncodingInv, EncodingTypeOK, PassInv, RecompressCandidates, OnItsOwn, PassAt
<1> QED
  BY <1>1, <1>2, <1>3, <1>4, <1>5, <1>6, <1>7, <1>8, <1>9, <1>10 DEF EncodingNext

LEMMA EncodingInvSteady == EncodingInv => EncodingIsSteady
<1> SUFFICES ASSUME EncodingInv PROVE EncodingIsSteady
  OBVIOUS
<1>1. ASSUME NEW p \in Caller PROVE PassInv(passes[p]) /\ (passes[p] # NotEncoding => passes[p] \in PassType)
  BY DEF EncodingInv, EncodingTypeOK
<1>2. ASSUME NEW p \in Caller, passes[p] # NotEncoding, passes[p].encoder # NoEncoder
      PROVE  passes[p].answer = settled
  BY <1>1, <1>2 DEF PassInv
<1>3. ASSUME NEW r \in Aging
      PROVE  aging[r].times <= 1 /\ (Encodes(r) => aging[r].state = "complete" /\ aging[r].times = 0)
  BY <1>1 DEF EncodingInv, Encodes, PassAt, PassInv, NotEncoding, RecompressCandidates
<1>4. ASSUME NEW p \in Caller, PassAt(p, "ended"), passes[p].encoder # NoEncoder
      PROVE  /\ passes[p].result # "stopped" => passes[p].left = {}
             /\ passes[p].result = "clean" => \A r \in passes[p].listed : aging[r].times = 1
  <2>1. passes[p] # NotEncoding
    BY <1>4 DEF PassAt, NotEncoding
  <2> QED
    BY <1>1, <1>4, <2>1 DEF PassInv, PassAt
<1> QED
  BY <1>2, <1>3, <1>4 DEF EncodingIsSteady

LEMMA EncodingInvInit == EncodingInit => EncodingInv
<1> SUFFICES ASSUME EncodingInit PROVE EncodingInv
  OBVIOUS
<1>1. EncodingTypeOK
  BY DEF EncodingInit, EncodingTypeOK
<1>2. \A p \in Caller : passes[p] = NotEncoding /\ ~PassAt(p, "encode")
  BY DEF EncodingInit, PassAt, NotEncoding
<1> QED
  BY <1>1, <1>2 DEF EncodingInit, EncodingInv, OnItsOwn, PassInv

(* encode.go, Encoders, and daemon.go, RecompressPass: of any number of    *)
(* passes of one process, all choose from one answer, none encodes what    *)
(* another one does or what was purged, and one that nobody stopped got to *)
(* the end of its list and says truly how it went.                         *)
THEOREM EncodingSteady == EncodingSpec => []EncodingIsSteady
  BY EncodingInvInit, EncodingInvStep, EncodingInvSteady, PTL DEF EncodingSpec

----------------------------------------------------------------------------
(* Watcher *)

SessionType == [id : Int, row : Int, refused : BOOLEAN, halted : BOOLEAN, fragments : Nat]
CycleType == [at : {"waiting", "capturing"}, row : Int, age : Nat, quiet : Nat,
              ended : {"", "stalled", "space"}, misses : Nat]

(* A capture runs only for a session that was never halted, and what       *)
(* halts a session is its only fragment.                                   *)
WatcherInv ==
  /\ air \in Int /\ aired \in Int
  /\ live \in SessionType /\ cycle \in CycleType
  /\ live.fragments = 0 \/ (live.fragments = 1 /\ live.halted)
  /\ cycle.at = "capturing" => ~live.halted

LEMMA SessionTypes ==
  /\ NoSession \in SessionType /\ ~NoSession.halted /\ NoSession.fragments = 0
  /\ Waiting \in CycleType /\ Waiting.at = "waiting"
  /\ \A id \in Int : Opened(id) \in SessionType /\ ~Opened(id).halted /\ Opened(id).fragments = 0
<1>1. NoSession \in SessionType /\ ~NoSession.halted /\ NoSession.fragments = 0
  BY DEF NoSession, SessionType, Nobody
<1>2. Waiting \in CycleType /\ Waiting.at = "waiting"
  BY DEF Waiting, CycleType, Nobody
<1>3. \A id \in Int : Opened(id) \in SessionType /\ ~Opened(id).halted /\ Opened(id).fragments = 0
  BY <1>1 DEF Opened, SessionType
<1> QED
  BY <1>1, <1>2, <1>3

(* The session a probe continues or opens keeps what was latched in it, or *)
(* has nothing latched.                                                    *)
LEMMA SessionKept ==
  ASSUME WatcherInv, NEW id \in Int
  PROVE  /\ Session(id) \in SessionType
         /\ Session(id).fragments = 0 \/ (Session(id).fragments = 1 /\ Session(id).halted)
  BY SessionTypes DEF Session, WatcherInv

LEMMA WatcherInvStep == WatcherInv /\ [WatcherNext]_watcher => WatcherInv'
<1> SUFFICES ASSUME WatcherInv, [WatcherNext]_watcher PROVE WatcherInv'
  OBVIOUS
<1> USE SessionTypes
<1>1. CASE ProbeFails \/ EngineHangs \/ UNCHANGED watcher
  BY <1>1 DEF ProbeFails, EngineHangs, watcher, WatcherInv
<1>2. CASE ProbeOffline \/ Restart
  BY <1>2 DEF ProbeOffline, Restart, WatcherInv, SessionType, CycleType
<1>3. CASE ProbeLive
  <2>1. PICK id \in {air, Nobody}, admitted \in BOOLEAN :
          LET own    == [Session(id) EXCEPT !.row = RowFor(id)]
              admits  == admitted /\ ~HaltedForSpace(own)
          IN  /\ live' = IF HaltedForSpace(own) THEN own ELSE [own EXCEPT !.refused = ~admitted]
              /\ cycle' = IF admits THEN [Waiting EXCEPT !.at = "capturing", !.row = RowFor(id)] ELSE cycle
    BY <1>3 DEF ProbeLive
  <2>2. id \in Int /\ RowFor(id) \in Int
    BY <2>1 DEF WatcherInv, RowFor, Nobody, SessionType
  <2> DEFINE own == [Session(id) EXCEPT !.row = RowFor(id)]
  <2>3. /\ own \in SessionType
        /\ own.halted = Session(id).halted /\ own.fragments = Session(id).fragments
    BY <2>2, SessionKept DEF SessionType
  <2>4. own.fragments = 0 \/ (own.fragments = 1 /\ own.halted)
    BY <2>2, <2>3, SessionKept
  <2>5. cycle.at = "waiting" /\ UNCHANGED <<air, aired>>
    BY <1>3 DEF ProbeLive
  <2>6. /\ live' = IF own.halted THEN own ELSE [own EXCEPT !.refused = ~admitted]
        /\ cycle' = IF admitted /\ ~own.halted THEN [Waiting EXCEPT !.at = "capturing", !.row = RowFor(id)] ELSE cycle
    BY <2>1 DEF HaltedForSpace
  <2> HIDE DEF own
  <2>7. live' \in SessionType /\ live'.halted = own.halted /\ live'.fragments = own.fragments
    BY <2>3, <2>6 DEF SessionType
  <2>8. cycle' \in CycleType /\ (cycle'.at = "capturing" => ~own.halted)
    BY <2>2, <2>5, <2>6 DEF WatcherInv, CycleType
  <2> QED
    BY <2>4, <2>5, <2>7, <2>8 DEF WatcherInv
<1>4. CASE CycleFails
  BY <1>4, SessionKept DEF CycleFails, WatcherInv, Nobody
<1>5. CASE OnAirChanges
  BY <1>5 DEF OnAirChanges, WatcherInv, Nobody
<1>6. CASE Tick
  <2>1. PICK known, grew \in BOOLEAN, depth \in {"ok", "critical", "unreadable"} :
          cycle' = [cycle EXCEPT !.age = IF @ < LongEnough THEN @ + 1 ELSE @,
                                 !.quiet = Quiet(known, grew),
                                 !.ended = IF Quiet(known, grew) >= QuietLimit THEN "stalled"
                                           ELSE IF depth = "critical" THEN "space" ELSE ""]
    BY <1>6 DEF Tick
  <2>2. cycle \in CycleType /\ cycle.quiet \in Nat /\ cycle.age \in Nat
    BY DEF WatcherInv, CycleType
  <2> DEFINE age == IF cycle.age < LongEnough THEN cycle.age + 1 ELSE cycle.age
             quiet == Quiet(known, grew)
             ended == IF quiet >= QuietLimit THEN "stalled" ELSE IF depth = "critical" THEN "space" ELSE ""
  <2>3. age \in Nat /\ quiet \in Nat /\ ended \in {"", "stalled", "space"}
    BY <2>2 DEF Quiet
  <2>4. cycle' = [cycle EXCEPT !.age = age, !.quiet = quiet, !.ended = ended]
    BY <2>1
  <2> HIDE DEF age, quiet, ended
  <2>5. cycle' \in CycleType /\ cycle'.at = cycle.at
    BY <2>2, <2>3, <2>4 DEF CycleType
  <2> QED
    BY <1>6, <2>5 DEF Tick, WatcherInv
<1>7. CASE PollMetadata
  <2>1. cycle \in CycleType /\ cycle.misses \in Nat
    BY DEF WatcherInv, CycleType
  <2> DEFINE missed == IF cycle.misses < Misses THEN cycle.misses + 1 ELSE cycle.misses
  <2>2. missed \in Nat
    BY <2>1
  <2>3. cycle' = [cycle EXCEPT !.misses = 0] \/ cycle' = [cycle EXCEPT !.misses = missed]
    BY <1>7 DEF PollMetadata
  <2> HIDE DEF missed
  <2>4. PICK misses \in Nat : cycle' = [cycle EXCEPT !.misses = misses]
    BY <2>2, <2>3
  <2>5. cycle' \in CycleType /\ cycle'.at = cycle.at
    BY <2>1, <2>4 DEF CycleType
  <2> QED
    BY <1>7, <2>5 DEF PollMetadata, WatcherInv
<1>8. CASE CaptureEnds
  <2>1. live.fragments = 0 /\ cycle' = Waiting /\ UNCHANGED <<air, aired>>
    BY <1>8 DEF CaptureEnds, WatcherInv
  <2>2. CASE UNCHANGED live
    BY <2>1, <2>2 DEF WatcherInv
  <2>3. CASE live' = [live EXCEPT !.halted = TRUE, !.fragments = @ + 1]
    <3> DEFINE fragments == live.fragments + 1
    <3>1. fragments = 1 /\ live \in SessionType
      BY <2>1 DEF WatcherInv
    <3>2. live' = [live EXCEPT !.halted = TRUE, !.fragments = fragments]
      BY <2>3
    <3> HIDE DEF fragments
    <3>3. live' \in SessionType /\ live'.fragments = fragments /\ live'.halted
      BY <3>1, <3>2 DEF SessionType
    <3> QED
      BY <2>1, <3>1, <3>3 DEF WatcherInv
  <2> QED
    BY <1>8, <2>2, <2>3 DEF CaptureEnds
<1> QED
  BY <1>1, <1>2, <1>3, <1>4, <1>5, <1>6, <1>7, <1>8 DEF WatcherNext

(* watch.go, haltedForSpace and noteSpaceHalt: whatever the platform, the  *)
(* tool and the disk say, and however often the channel is probed, a       *)
(* session of a full disk leaves at most one fragment.                     *)
THEOREM OneFragment == WatcherSpec => []OneFragmentPerSession
<1>1. WatcherInit => WatcherInv
  BY SessionTypes DEF WatcherInit, WatcherInv, Nobody
<1>2. WatcherInv => OneFragmentPerSession
  BY DEF WatcherInv, OneFragmentPerSession
<1> QED
  BY <1>1, <1>2, WatcherInvStep, PTL DEF WatcherSpec

----------------------------------------------------------------------------
(* Catalogue *)

BroadcastType == [stream : Show \cup {None}, remote : Show \cup {None}, start : Int, end : Int, vod : Int,
                  source : {"live", "api"}, made : SUBSET Show]

(* A row or a discovery of one show: it bears no other's name, starts      *)
(* while the show is on air and names the session where the sources do.    *)
OfShow(b, s) ==
  /\ b.made = {s}
  /\ b.stream \in {None, s} /\ b.remote \in {None, s}
  /\ shown[s].from <= b.start /\ b.start < shown[s].to
  /\ named => b.stream = s

CatalogueTypeOK ==
  /\ clock \in Int /\ named \in BOOLEAN
  /\ shown \in [Show -> [from : Int, to : Int]]
  /\ \A s \in Show : shown[s].from < shown[s].to
  /\ ~named => shown[1].to + Window < shown[2].from
  /\ anchor \in [Show -> Int]
  /\ broadcasts \in Seq(BroadcastType)

CatalogueInv ==
  /\ CatalogueTypeOK
  /\ \A s \in Show : anchor[s] # None => shown[s].from <= anchor[s] /\ anchor[s] < shown[s].to
  /\ \A i \in Row : \E s \in Show : OfShow(broadcasts[i], s)

(* A discovery is matched with rows of its own show alone.                 *)
LEMMA MatchIsOfShow ==
  ASSUME CatalogueInv, NEW s \in Show, NEW b \in BroadcastType, OfShow(b, s), NEW i \in Match(b)
  PROVE  i \in Row /\ OfShow(broadcasts[i], s)
<1> USE CatalogueAssumption DEF Show, None
<1>1. Row \subseteq Int /\ \A j \in Row : broadcasts[j] \in BroadcastType
  BY DEF CatalogueInv, CatalogueTypeOK, Row
<1>2. i \in Row
  BY DEF Match, Named, Nearest, Nearby
<1>3. PICK t \in Show : OfShow(broadcasts[i], t)
  BY <1>2 DEF CatalogueInv
<1>4. ASSUME t # s PROVE FALSE
  <2>1. i \notin Named("stream", b.stream)
    BY <1>3, <1>4 DEF Named, OfShow
  <2>2. i \notin Named("remote", b.remote)
    BY <1>3, <1>4 DEF Named, OfShow
  <2>3. i \in Nearby(b)
    BY <2>1, <2>2 DEF Match, Nearest
  <2>4. CASE named
    BY <1>3, <1>4, <2>3, <2>4 DEF OfShow, Nearby, Agree
  <2>5. CASE ~named
    <3>1. shown[1].to + Window < shown[2].from
      BY <2>5 DEF CatalogueInv, CatalogueTypeOK
    <3>2. shown[1].to \in Int /\ shown[2].from \in Int /\ b.start \in Int /\ broadcasts[i].start \in Int /\ Window \in Nat
      BY <1>1, <1>2 DEF CatalogueInv, CatalogueTypeOK, BroadcastType
    <3>3. Apart(broadcasts[i].start, b.start) <= Window
      BY <2>3 DEF Nearby
    <3>4. CASE s = 1 /\ t = 2
      <4>1. b.start < shown[1].to /\ shown[2].from <= broadcasts[i].start
        BY <1>3, <3>4 DEF OfShow
      <4> QED
        BY <3>1, <3>2, <3>3, <4>1 DEF Apart
    <3>5. CASE s = 2 /\ t = 1
      <4>1. broadcasts[i].start < shown[1].to /\ shown[2].from <= b.start
        BY <1>3, <3>5 DEF OfShow
      <4> QED
        BY <3>1, <3>2, <3>3, <4>1 DEF Apart
    <3> QED
      BY <1>4, <3>4, <3>5
  <2> QED
    BY <2>4, <2>5
<1> QED
  BY <1>2, <1>3, <1>4

LEMMA MergeIsOfShow ==
  ASSUME NEW s \in Show, NEW a \in BroadcastType, NEW b \in BroadcastType, OfShow(a, s), OfShow(b, s)
  PROVE  Merge(a, b) \in BroadcastType /\ OfShow(Merge(a, b), s)
<1> DEFINE m == Merge(a, b)
<1>1. /\ m.stream = Known(b.stream, a.stream) /\ m.remote = Known(b.remote, a.remote)
      /\ m.start = MergedStart(a, b) /\ m.end = MergedEnd(a, b) /\ m.vod = Known(b.vod, a.vod)
      /\ m.made = a.made \cup b.made
      /\ m.source \in {a.source, b.source}
  BY DEF Merge
<1>2. MergedStart(a, b) \in {a.start, b.start} /\ MergedEnd(a, b) \in {a.end, b.end}
  BY DEF MergedStart, MergedEnd
<1>3. m.stream \in {a.stream, b.stream} /\ m.remote \in {a.remote, b.remote} /\ m.vod \in {a.vod, b.vod}
  BY <1>1 DEF Known
<1>4. m = [stream |-> m.stream, remote |-> m.remote, start |-> m.start, end |-> m.end, vod |-> m.vod,
           source |-> m.source, made |-> m.made]
  BY DEF Merge
<1>5. named => m.stream = s
  BY <1>1 DEF OfShow, Known, None, Show
<1> HIDE DEF m
<1>6. m \in BroadcastType
  BY <1>1, <1>2, <1>3, <1>4 DEF BroadcastType
<1>7. OfShow(m, s)
  BY <1>1, <1>2, <1>3, <1>5 DEF OfShow
<1> QED
  BY <1>6, <1>7 DEF m

(* UpsertBroadcast leaves every row of one show.                           *)
LEMMA UpsertKeepsShows ==
  ASSUME CatalogueInv, NEW s \in Show, NEW b \in BroadcastType, OfShow(b, s), Upsert(b)
  PROVE  /\ broadcasts' \in Seq(BroadcastType)
         /\ \A i \in 1 .. Len(broadcasts') : \E t \in Show : OfShow(broadcasts'[i], t)
<1>1. broadcasts \in Seq(BroadcastType) /\ \A i \in 1 .. Len(broadcasts) : \E t \in Show : OfShow(broadcasts[i], t)
  BY DEF CatalogueInv, CatalogueTypeOK, Row
<1>2. CASE broadcasts' = Append(broadcasts, b)
  BY <1>1, <1>2
<1>3. CASE broadcasts' = broadcasts
  BY <1>1, <1>3
<1>4. ASSUME NEW i \in Match(b), broadcasts' = [broadcasts EXCEPT ![i] = Merge(broadcasts[i], b)]
      PROVE  /\ broadcasts' \in Seq(BroadcastType)
             /\ \A j \in 1 .. Len(broadcasts') : \E t \in Show : OfShow(broadcasts'[j], t)
  <2>1. i \in 1 .. Len(broadcasts) /\ OfShow(broadcasts[i], s)
    BY MatchIsOfShow DEF Row
  <2>2. Merge(broadcasts[i], b) \in BroadcastType /\ OfShow(Merge(broadcasts[i], b), s)
    BY <1>1, <2>1, MergeIsOfShow
  <2> HIDE DEF OfShow, BroadcastType
  <2> QED
    BY <1>1, <1>4, <2>1, <2>2
<1> QED
  BY <1>2, <1>3, <1>4 DEF Upsert

(* Two rows that are told apart by their ends and copies alone.            *)
SameShow(a, b) == a.made = b.made /\ a.stream = b.stream /\ a.remote = b.remote /\ a.start = b.start

LEMMA CloseKeepsRows ==
  ASSUME clock \in Int, broadcasts \in Seq(BroadcastType), NEW s \in Show, Close(s)
  PROVE  /\ broadcasts' \in Seq(BroadcastType) /\ Len(broadcasts') = Len(broadcasts)
         /\ \A i \in 1 .. Len(broadcasts) : SameShow(broadcasts'[i], broadcasts[i])
<1>1. broadcasts' = broadcasts \/ broadcasts' = [broadcasts EXCEPT ![session[s]].end = clock]
  BY DEF Close
<1>2. CASE broadcasts' = broadcasts
  BY <1>2 DEF SameShow
<1>3. ASSUME broadcasts' = [broadcasts EXCEPT ![session[s]].end = clock], session[s] \in 1 .. Len(broadcasts)
      PROVE  /\ broadcasts' \in Seq(BroadcastType) /\ Len(broadcasts') = Len(broadcasts)
             /\ \A i \in 1 .. Len(broadcasts) : SameShow(broadcasts'[i], broadcasts[i])
  <2> DEFINE k == session[s]
             r == [broadcasts[k] EXCEPT !.end = clock]
  <2>1. broadcasts[k] \in BroadcastType
    BY <1>3
  <2>2. r \in BroadcastType /\ SameShow(r, broadcasts[k])
    BY <2>1 DEF BroadcastType, SameShow
  <2>3. broadcasts' = [broadcasts EXCEPT ![k] = r]
    BY <1>3
  <2>4. k \in 1 .. Len(broadcasts)
    BY <1>3
  <2> HIDE DEF k, r, BroadcastType
  <2>5. \A i \in 1 .. Len(broadcasts) : broadcasts'[i] = IF i = k THEN r ELSE broadcasts[i]
    BY <2>3, <2>4
  <2>6. \A i \in 1 .. Len(broadcasts) : SameShow(broadcasts'[i], broadcasts[i])
    BY <2>2, <2>5 DEF SameShow
  <2> QED
    BY <2>2, <2>3, <2>4, <2>6
<1>4. ASSUME broadcasts' = [broadcasts EXCEPT ![session[s]].end = clock], session[s] \notin 1 .. Len(broadcasts)
      PROVE  broadcasts' = broadcasts
  BY <1>4
<1> QED
  BY <1>1, <1>2, <1>3, <1>4

LEMMA CatalogueInvStep == CatalogueInv /\ [CatalogueNext]_catalogue => CatalogueInv'
<1> SUFFICES ASSUME CatalogueInv, [CatalogueNext]_catalogue PROVE CatalogueInv'
  OBVIOUS
<1>t. CatalogueTypeOK /\ \A s \in Show : shown[s].from \in Int /\ shown[s].to \in Int /\ anchor[s] \in Int
  BY DEF CatalogueInv, CatalogueTypeOK
<1>1. ASSUME NEW s \in Show, Poll(s) PROVE CatalogueInv'
  <2>1. PICK start \in Anchors(s) : anchor' = [anchor EXCEPT ![s] = start] /\ Upsert(Sighting(s, start))
    BY <1>1 DEF Poll
  <2>2. shown[s].from <= start /\ start < shown[s].to /\ start \in Int
    BY <1>1, <1>t DEF Poll, OnAir, Anchors, CatalogueInv, CatalogueTypeOK
  <2>3. Sighting(s, start) \in BroadcastType /\ OfShow(Sighting(s, start), s)
    BY <2>2 DEF Sighting, BroadcastType, OfShow, Show, None
  <2>4. /\ broadcasts' \in Seq(BroadcastType)
        /\ \A i \in 1 .. Len(broadcasts') : \E t \in Show : OfShow(broadcasts'[i], t)
    BY <2>1, <2>3, UpsertKeepsShows
  <2>5. UNCHANGED <<clock, shown, named>>
    BY <1>1 DEF Poll
  <2> QED
    BY <1>t, <2>1, <2>2, <2>4, <2>5 DEF CatalogueInv, CatalogueTypeOK, Row, OfShow
<1>2. ASSUME NEW s \in Show, List(s) PROVE CatalogueInv'
  <2>1. Listing(s) \in BroadcastType /\ OfShow(Listing(s), s)
    BY <1>t DEF Listing, EndOf, BroadcastType, OfShow, Show, None, CatalogueTypeOK
  <2>2. /\ broadcasts' \in Seq(BroadcastType)
        /\ \A i \in 1 .. Len(broadcasts') : \E t \in Show : OfShow(broadcasts'[i], t)
    BY <1>2, <2>1, UpsertKeepsShows DEF List
  <2> QED
    BY <1>2, <1>t, <2>2 DEF List, CatalogueInv, CatalogueTypeOK, Row, OfShow
<1>3. ASSUME NEW s \in Show, Close(s) PROVE CatalogueInv'
  <2>1. clock \in Int /\ broadcasts \in Seq(BroadcastType)
    BY <1>t DEF CatalogueTypeOK
  <2>3. /\ broadcasts' \in Seq(BroadcastType) /\ Len(broadcasts') = Len(broadcasts)
        /\ \A i \in 1 .. Len(broadcasts) : SameShow(broadcasts'[i], broadcasts[i])
    BY <1>3, <2>1, CloseKeepsRows
  <2>4. UNCHANGED <<clock, shown, named>> /\ anchor' = [anchor EXCEPT ![s] = None]
    BY <1>3 DEF Close
  <2>5. \A i \in Row' : \E t \in Show : OfShow(broadcasts[i], t)'
    BY <2>3, <2>4 DEF CatalogueInv, Row, OfShow, SameShow
  <2> QED
    BY <1>t, <2>3, <2>4, <2>5 DEF CatalogueInv, CatalogueTypeOK, None
<1>4. CASE Forget \/ TimePasses
  <2>1. UNCHANGED <<shown, named, broadcasts>>
    BY <1>4 DEF Forget, TimePasses
  <2>2. clock' \in Int /\ anchor' \in [Show -> Int] /\ \A s \in Show : anchor'[s] \in {anchor[s], None}
    BY <1>4, <1>t DEF Forget, TimePasses, CatalogueTypeOK, None
  <2>3. \A i \in Row' : \E s \in Show : OfShow(broadcasts[i], s)'
    BY <2>1 DEF CatalogueInv, Row, OfShow
  <2> QED
    BY <1>t, <2>1, <2>2, <2>3 DEF CatalogueInv, CatalogueTypeOK
<1>5. CASE UNCHANGED catalogue
  BY <1>5, <1>t DEF catalogue, CatalogueInv, CatalogueTypeOK, Row, OfShow
<1> QED
  BY <1>1, <1>2, <1>3, <1>4, <1>5 DEF CatalogueNext

LEMMA CatalogueInvInit == CatalogueInit => CatalogueInv
<1> SUFFICES ASSUME CatalogueInit PROVE CatalogueInv
  OBVIOUS
<1>1. shown \in [Show -> [from : Int, to : Int]] /\ named \in BOOLEAN /\ broadcasts = <<>>
  BY CatalogueAssumption DEF CatalogueInit
<1>2. ~named => shown[1].to + Window < shown[2].from
  BY DEF CatalogueInit
<1>3. clock \in Int /\ anchor = [s \in Show |-> None] /\ \A s \in Show : shown[s].from < shown[s].to
  BY DEF CatalogueInit
<1> QED
  BY <1>1, <1>2, <1>3 DEF CatalogueInv, CatalogueTypeOK, Row, None

LEMMA CatalogueInvShows == CatalogueInv => RowsAreOneShow
<1> SUFFICES ASSUME CatalogueInv, NEW i \in Row PROVE Cardinality(broadcasts[i].made) <= 1
  BY DEF RowsAreOneShow
<1>1. PICK s \in Show : broadcasts[i].made = {s}
  BY DEF CatalogueInv, OfShow
<1> QED
  BY <1>1, FS_Singleton

(* broadcast.go, matchBroadcast: whenever the shows are, and in whatever   *)
(* order the recorder, its restarts and the listings describe them, no row *)
(* is made of two, where the sources name them or they are further apart   *)
(* than the window.                                                        *)
THEOREM RowsOfOneShow == CatalogueSpec => []RowsAreOneShow
  BY CatalogueInvInit, CatalogueInvStep, CatalogueInvShows, PTL DEF CatalogueSpec

----------------------------------------------------------------------------
(* Importer *)

(* Only an import writes a row at an odd time, and that row names a copy.  *)
OddIsNamed(b) == b.start >= 0 /\ (b.start % 2 = 1 => b.remote # None)

LostTypeOK ==
  /\ clock \in {6, 8} /\ named = TRUE
  /\ shown \in [Show -> [from : {0, 4}, to : {4, 8}]]
  /\ anchor \in [Show -> {None, 0, 4, 6}]
  /\ broadcasts \in Seq(BroadcastType)

RowsInv == LostTypeOK /\ \A i \in Row : OddIsNamed(broadcasts[i])

ImportType == [at : {"next", "broadcast", "overlap", "restore", "attach", "gap", "fill"},
               file : Nat, row : Nat]
LooksAt == {"broadcast", "overlap", "restore"}

(* A file that an import is at has a recording, and no other import is at  *)
(* it; one whose broadcast is still looked for is attached to none.        *)
FilesInv ==
  /\ files \in [1 .. Files -> MediaFile] /\ held \in [1 .. Files -> Int]
  /\ imports \in [Import -> ImportType] /\ \A p \in Import : Of(p) <= Files
  /\ \A p \in Import : ~Step(p, "next") => Of(p) \in 1 .. Files /\ held[Of(p)] # None
  /\ \A p \in Import : imports[p].at \in LooksAt \cup {"attach"} => held[Of(p)] = Loose
  /\ \A p, q \in Import : p # q /\ Of(p) = Of(q) /\ ~Step(p, "next") => Step(q, "next")

(* What an import between its calls has looked for is not there, but for   *)
(* the rows it has not seen.                                               *)
LookedInv ==
  /\ unseen \in [Import -> SUBSET Nat]
  /\ \A p \in Import : imports[p].at \in {"overlap", "restore"} =>
       /\ RemoteId(files[Of(p)]) # None
       /\ \A i \in Row \ unseen[p] : broadcasts[i].remote # RemoteId(files[Of(p)])
  /\ \A p \in Import : imports[p].at = "restore" => Around(files[Of(p)].at) \subseteq unseen[p]

ImporterInv == RowsInv /\ FilesInv /\ LookedInv

LEMMA MergeKeepsOdd ==
  ASSUME NEW a \in BroadcastType, NEW b \in BroadcastType, OddIsNamed(a), OddIsNamed(b)
  PROVE  Merge(a, b) \in BroadcastType /\ OddIsNamed(Merge(a, b))
<1> DEFINE m == Merge(a, b)
<1>1. /\ m.remote = Known(b.remote, a.remote) /\ m.start = MergedStart(a, b)
      /\ m.stream \in {a.stream, b.stream} /\ m.vod \in {a.vod, b.vod} /\ m.end = MergedEnd(a, b)
      /\ m.made = a.made \cup b.made /\ m.source \in {a.source, b.source}
  BY DEF Merge, Known
<1>2. MergedStart(a, b) \in {a.start, b.start} /\ MergedEnd(a, b) \in {a.end, b.end}
  BY DEF MergedStart, MergedEnd
<1>3. m.remote \in {a.remote, b.remote} /\ (m.remote = None => a.remote = None /\ b.remote = None)
  BY <1>1 DEF Known
<1>4. m = [stream |-> m.stream, remote |-> m.remote, start |-> m.start, end |-> m.end, vod |-> m.vod,
           source |-> m.source, made |-> m.made]
  BY DEF Merge
<1> HIDE DEF m
<1>5. m \in BroadcastType
  BY <1>1, <1>2, <1>3, <1>4 DEF BroadcastType
<1>6. OddIsNamed(m)
  BY <1>1, <1>2, <1>3 DEF OddIsNamed
<1> QED
  BY <1>5, <1>6 DEF m

LEMMA UpsertKeepsRows ==
  ASSUME RowsInv, NEW b \in BroadcastType, OddIsNamed(b), Upsert(b)
  PROVE  /\ broadcasts' \in Seq(BroadcastType)
         /\ \A i \in 1 .. Len(broadcasts') : OddIsNamed(broadcasts'[i])
<1>1. broadcasts \in Seq(BroadcastType) /\ \A i \in 1 .. Len(broadcasts) : OddIsNamed(broadcasts[i])
  BY DEF RowsInv, LostTypeOK, Row
<1>2. CASE broadcasts' = Append(broadcasts, b)
  BY <1>1, <1>2
<1>3. CASE broadcasts' = broadcasts
  BY <1>1, <1>3
<1>4. ASSUME NEW i \in Match(b), broadcasts' = [broadcasts EXCEPT ![i] = Merge(broadcasts[i], b)]
      PROVE  /\ broadcasts' \in Seq(BroadcastType)
             /\ \A j \in 1 .. Len(broadcasts') : OddIsNamed(broadcasts'[j])
  <2>1. i \in 1 .. Len(broadcasts) /\ OddIsNamed(broadcasts[i])
    BY <1>1 DEF Match, Named, Nearest, Nearby, Row
  <2>2. Merge(broadcasts[i], b) \in BroadcastType /\ OddIsNamed(Merge(broadcasts[i], b))
    BY <1>1, <2>1, MergeKeepsOdd
  <2> HIDE DEF OddIsNamed, BroadcastType
  <2> QED
    BY <1>1, <1>4, <2>1, <2>2
<1> QED
  BY <1>2, <1>3, <1>4 DEF Upsert

(* What a restore's upsert matches is a row its import has not seen.       *)
LEMMA RestoreMatches ==
  ASSUME RowsInv, FilesInv, LookedInv, NEW p \in Import, Step(p, "restore")
  PROVE  Match(Restored(files[Of(p)])) \subseteq unseen[p]
<1> DEFINE f == files[Of(p)]
<1>0. f \in MediaFile /\ RemoteId(f) # None /\ Around(f.at) \subseteq unseen[p]
      /\ \A i \in Row \ unseen[p] : broadcasts[i].remote # RemoteId(f)
  BY DEF FilesInv, LookedInv, Step
<1> HIDE DEF f
<1>1. f.at \in Int /\ f.at % 2 = 1 /\ f.at >= 0
  BY <1>0 DEF MediaFile
<1>2. Restored(f).stream = None /\ Restored(f).remote = RemoteId(f) /\ Restored(f).start = f.at
  BY DEF Restored
<1>4. Window \in Nat /\ Window % 2 = 0
  BY CatalogueAssumption, ImporterAssumption
<1>5. \A i \in Row : broadcasts[i].start \in Nat /\ OddIsNamed(broadcasts[i])
  <2>1. \A i \in Row : broadcasts[i] \in BroadcastType /\ OddIsNamed(broadcasts[i])
    BY DEF RowsInv, LostTypeOK, Row
  <2>2. \A i \in Row : broadcasts[i].start \in Int
    BY <2>1 DEF BroadcastType
  <2>3. \A i \in Row : broadcasts[i].start >= 0
    BY <2>1 DEF OddIsNamed
  <2> QED
    BY <2>1, <2>2, <2>3
<1>6. Named("stream", None) = {}
  BY DEF Named
<1>7. Named("remote", RemoteId(f)) \subseteq unseen[p]
  BY <1>0 DEF Named
<1>8. ASSUME NEW i \in Nearby(Restored(f)), i \notin unseen[p] PROVE FALSE
  <2>1. i \in Row /\ Apart(broadcasts[i].start, f.at) <= Window /\ Agree(broadcasts[i].remote, RemoteId(f))
    BY <1>2 DEF Nearby
  <2>2. broadcasts[i].start \in Nat /\ f.at - Window <= broadcasts[i].start /\ broadcasts[i].start <= f.at + Window
    BY <1>1, <1>4, <1>5, <2>1 DEF Apart
  <2>3. i \notin Around(f.at)
    BY <1>0, <1>8
  <2>4. broadcasts[i].start = f.at + Window
    BY <1>1, <1>4, <2>1, <2>2, <2>3 DEF Around
  <2>5. broadcasts[i].start % 2 = 1
    BY <1>1, <1>4, <2>4
  <2>6. broadcasts[i].remote # None
    BY <1>5, <2>1, <2>5 DEF OddIsNamed
  <2>7. broadcasts[i].remote = RemoteId(f)
    BY <1>0, <2>1, <2>6 DEF Agree
  <2> QED
    BY <1>0, <1>8, <2>1, <2>7
<1>9. Match(Restored(f)) \subseteq Named("remote", RemoteId(f)) \cup Nearby(Restored(f))
  BY <1>2, <1>6 DEF Match, Nearest
<1> QED
  BY <1>7, <1>8, <1>9 DEF f

(* A restore's upsert changes the row it matches alone, and only fills it. *)
LEMMA RestoreFills ==
  ASSUME RowsInv, NEW f \in MediaFile, RemoteId(f) # None, Upsert(Restored(f)),
         NEW i \in Row, broadcasts'[i] # broadcasts[i]
  PROVE  i \in Match(Restored(f)) /\ OnlyFilled(i)
<1> DEFINE b == Restored(f)
<1>t. broadcasts \in Seq(BroadcastType) /\ broadcasts[i] \in BroadcastType /\ i \in 1 .. Len(broadcasts)
  BY DEF RowsInv, LostTypeOK, Row
<1>b. /\ b.stream = None /\ b.remote = RemoteId(f) /\ b.start = f.at /\ b.vod = None /\ b.source = "api"
      /\ b.made = {f.show} /\ f.at \in Int
  BY DEF Restored, MediaFile
<1> HIDE DEF b
<1>1. broadcasts' # Append(broadcasts, b)
  BY <1>t
<1>2. PICK j \in Match(b) : broadcasts' = [broadcasts EXCEPT ![j] = Merge(broadcasts[j], b)]
  BY <1>1 DEF Upsert, b
<1>3. i = j /\ broadcasts'[i] = Merge(broadcasts[i], b)
  BY <1>t, <1>2
<1>4. broadcasts[i].remote \in {None, RemoteId(f)}
  BY <1>2, <1>3, <1>b DEF Match, Named, Nearest, Nearby, Agree
<1>5. broadcasts[i].source \in {"live", "api"} /\ broadcasts[i].start \in Int
  BY <1>t DEF BroadcastType
<1>6. ~(Precedence["api"] > Precedence[broadcasts[i].source])
  BY <1>5 DEF Precedence
<1>7. /\ broadcasts'[i].stream = broadcasts[i].stream /\ broadcasts'[i].vod = broadcasts[i].vod
      /\ broadcasts'[i].source = broadcasts[i].source /\ broadcasts'[i].remote = RemoteId(f)
      /\ broadcasts'[i].start = MergedStart(broadcasts[i], b) /\ broadcasts'[i].end = MergedEnd(broadcasts[i], b)
  BY <1>3, <1>b, <1>6 DEF Merge, Known
<1>8. MergedStart(broadcasts[i], b) <= broadcasts[i].start
  BY <1>b, <1>5, <1>6 DEF MergedStart
<1>9. MergedEnd(broadcasts[i], b) # broadcasts[i].end => broadcasts[i].end = None
  BY <1>b, <1>6 DEF MergedEnd
<1> QED
  BY <1>2, <1>3, <1>4, <1>7, <1>8, <1>9 DEF OnlyFilled, b

LEMMA WatchKeepsRows ==
  ASSUME RowsInv, NEW s \in Show, Poll(s) \/ Close(s) \/ List(s)
  PROVE  RowsInv'
<1>t. LostTypeOK /\ shown[s].from \in {0, 4} /\ broadcasts \in Seq(BroadcastType) /\ shown[s].to \in {4, 8}
  BY DEF RowsInv, LostTypeOK
<1>1. CASE Poll(s)
  <2>1. PICK start \in Anchors(s) : anchor' = [anchor EXCEPT ![s] = start] /\ Upsert(Sighting(s, start))
    BY <1>1 DEF Poll
  <2>2. start \in {0, 4, 6}
    BY <1>1, <1>t DEF Poll, OnAir, Anchors, LostTypeOK
  <2>3. Sighting(s, start) \in BroadcastType /\ Sighting(s, start).start = start
    BY <2>2 DEF Sighting, BroadcastType, Show, None
  <2>4. OddIsNamed(Sighting(s, start))
    BY <2>2, <2>3 DEF OddIsNamed
  <2>5. broadcasts' \in Seq(BroadcastType) /\ \A i \in 1 .. Len(broadcasts') : OddIsNamed(broadcasts'[i])
    BY <2>1, <2>3, <2>4, UpsertKeepsRows
  <2>6. UNCHANGED <<clock, shown, named>>
    BY <1>1 DEF Poll
  <2> QED
    BY <1>t, <2>1, <2>2, <2>5, <2>6 DEF RowsInv, LostTypeOK, Row
<1>2. CASE List(s)
  <2>1. Listing(s) \in BroadcastType /\ Listing(s).start = shown[s].from
    BY <1>t DEF Listing, EndOf, BroadcastType, Show, None
  <2>2. OddIsNamed(Listing(s))
    BY <1>t, <2>1 DEF OddIsNamed
  <2>3. broadcasts' \in Seq(BroadcastType) /\ \A i \in 1 .. Len(broadcasts') : OddIsNamed(broadcasts'[i])
    BY <1>2, <2>1, <2>2, UpsertKeepsRows DEF List
  <2> QED
    BY <1>2, <1>t, <2>3 DEF List, RowsInv, LostTypeOK, Row
<1>3. CASE Close(s)
  <2>1. /\ broadcasts' \in Seq(BroadcastType) /\ Len(broadcasts') = Len(broadcasts)
        /\ \A i \in 1 .. Len(broadcasts) : SameShow(broadcasts'[i], broadcasts[i])
    BY <1>3, <1>t, CloseKeepsRows DEF LostTypeOK
  <2>2. \A i \in Row' : OddIsNamed(broadcasts'[i])
    BY <2>1 DEF RowsInv, Row, OddIsNamed, SameShow
  <2>3. UNCHANGED <<clock, shown, named>> /\ anchor' = [anchor EXCEPT ![s] = None]
    BY <1>3 DEF Close
  <2> QED
    BY <1>t, <2>1, <2>2, <2>3 DEF RowsInv, LostTypeOK
<1> QED
  BY <1>1, <1>2, <1>3

LEMMA ImportMoves ==
  ASSUME FilesInv, NEW p \in Import, NEW at \in {"next", "broadcast", "overlap", "restore", "attach", "gap", "fill"}, NEW to \in Nat,
         imports' = [imports EXCEPT ![p].at = at] \/ imports' = [imports EXCEPT ![p].at = at, ![p].row = to]
  PROVE  /\ imports' \in [Import -> ImportType] /\ imports'[p].at = at /\ imports'[p].file = imports[p].file
         /\ \A q \in Import : q # p => imports'[q] = imports[q]
<1>1. imports \in [Import -> ImportType]
  BY DEF FilesInv
<1>2. [imports[p] EXCEPT !.at = at] \in ImportType /\ [imports[p] EXCEPT !.at = at, !.row = to] \in ImportType
  BY <1>1 DEF ImportType
<1>3. \/ imports' = [imports EXCEPT ![p] = [imports[p] EXCEPT !.at = at]]
      \/ imports' = [imports EXCEPT ![p] = [imports[p] EXCEPT !.at = at, !.row = to]]
  OBVIOUS
<1>4. \A to2 \in ImportType : imports' = [imports EXCEPT ![p] = to2] =>
        imports' \in [Import -> ImportType] /\ imports'[p] = to2 /\ \A q \in Import : q # p => imports'[q] = imports[q]
  BY <1>1
<1>5. /\ [imports[p] EXCEPT !.at = at].at = at /\ [imports[p] EXCEPT !.at = at].file = imports[p].file
      /\ [imports[p] EXCEPT !.at = at, !.row = to].at = at
      /\ [imports[p] EXCEPT !.at = at, !.row = to].file = imports[p].file
  BY <1>1 DEF ImportType
<1> QED
  BY <1>2, <1>3, <1>4, <1>5

(* A step that looks at nothing leaves what was looked for as it is.       *)
LEMMA LookedStays ==
  ASSUME LookedInv, NEW p \in Import, UNCHANGED <<broadcasts, files, unseen>>,
         imports'[p].at \notin {"overlap", "restore"},
         \A q \in Import : q # p => imports'[q] = imports[q]
  PROVE  LookedInv'
<1>1. \A q \in Import : imports'[q].at \in {"overlap", "restore"} => imports'[q] = imports[q]
  OBVIOUS
<1> QED
  BY <1>1 DEF LookedInv, Row, Around, Of

(* What is written beside an import is counted as unseen by it.            *)
LEMMA LookedUnder ==
  ASSUME LookedInv, WrittenUnder, UNCHANGED files, broadcasts' \in Seq(BroadcastType),
         \A q \in Import : imports'[q].at \in {"overlap", "restore"} => imports'[q] = imports[q]
  PROVE  LookedInv'
<1>1. /\ unseen' = [q \in Import |-> IF imports'[q].at \in {"overlap", "restore"}
                                     THEN unseen[q] \cup Written ELSE {}]
      /\ Written \subseteq Nat
  BY DEF WrittenUnder, Written
<1>2. unseen' \in [Import -> SUBSET Nat]
  BY <1>1 DEF LookedInv
<1>3. ASSUME NEW q \in Import, imports'[q].at \in {"overlap", "restore"}
      PROVE  /\ imports'[q] = imports[q] /\ unseen[q] \subseteq unseen'[q]
             /\ \A i \in Row' \ unseen'[q] : i \in Row /\ broadcasts'[i] = broadcasts[i]
  <2>1. unseen'[q] = unseen[q] \cup Written
    BY <1>1, <1>3
  <2>2. \A i \in Row' : i \notin Written => i \in Row /\ broadcasts'[i] = broadcasts[i]
    BY DEF Written, Row
  <2> QED
    BY <1>3, <2>1, <2>2
<1>4. ASSUME NEW q \in Import, imports'[q].at \in {"overlap", "restore"}
      PROVE  /\ RemoteId(files'[Of(q)']) # None
             /\ \A i \in Row' \ unseen'[q] : broadcasts'[i].remote # RemoteId(files'[Of(q)'])
  BY <1>3, <1>4 DEF LookedInv, Of
<1>5. ASSUME NEW q \in Import, imports'[q].at = "restore", NEW i \in Around(files[Of(q)].at)'
      PROVE  i \in unseen'[q]
  <2>1. imports'[q] = imports[q] /\ Around(files[Of(q)].at) \subseteq unseen[q] /\ unseen[q] \subseteq unseen'[q]
    BY <1>3, <1>5 DEF LookedInv
  <2>2. i \in Row' /\ files'[Of(q)'] = files[Of(q)]
    BY <2>1 DEF Around, Of
  <2>3. i \notin unseen'[q] => i \in Around(files[Of(q)].at)
    BY <1>3, <1>5, <2>1, <2>2 DEF Around, Of
  <2> QED
    BY <2>1, <2>3
<1> QED
  BY <1>2, <1>4, <1>5 DEF LookedInv

(* What an import does to the rows, by what it finds.                      *)
Looked(p) ==
  /\ imports' \in [Import -> ImportType] /\ imports'[p].file = imports[p].file
  /\ imports'[p].at \in {"overlap", "restore", "attach", "gap", "next"}
  /\ \A q \in Import : q # p => imports'[q] = imports[q]

LEMMA LookMoves ==
  ASSUME ImporterInv, NEW p \in Import, LookUp(p) \/ LookAround(p)
  PROVE  Looked(p) /\ UNCHANGED <<catalogue, files, held>> /\ LookedInv'
<1> DEFINE f == files[Of(p)]
<1>0. RowsInv /\ FilesInv /\ LookedInv
  BY DEF ImporterInv
<1>1. f \in MediaFile /\ Detail(f) \in {"gap", "next"}
  <2>1. Of(p) \in 1 .. Files
    BY <1>0 DEF LookUp, LookAround, FilesInv, Step
  <2> QED
    BY <1>0, <2>1 DEF FilesInv, Detail
<1> HIDE DEF f
<1>2. UNCHANGED <<catalogue, files, held>> /\ unseen \in [Import -> SUBSET Nat]
  BY <1>0 DEF LookUp, LookAround, LookedInv
<1>3. UNCHANGED <<broadcasts, files>> /\ Row' = Row
  BY <1>2 DEF catalogue, Row
<1>4. ASSUME NEW i \in Row, Join(p, i) PROVE Looked(p) /\ LookedInv'
  <2>1. Row \subseteq Nat
    BY DEF Row
  <2>2. Looked(p) /\ imports'[p].at = "attach"
    BY <1>0, <1>4, <2>1, ImportMoves DEF Join, Looked
  <2>3. unseen' = [unseen EXCEPT ![p] = {}]
    BY <1>4 DEF Join
  <2>4. unseen' \in [Import -> SUBSET Nat] /\ \A q \in Import : q # p => unseen'[q] = unseen[q]
    BY <1>2, <2>3
  <2>5. \A q \in Import : imports'[q].at \in {"overlap", "restore"} =>
          imports'[q] = imports[q] /\ unseen'[q] = unseen[q]
    BY <2>2, <2>4 DEF Looked
  <2> QED
    BY <1>0, <1>3, <2>2, <2>4, <2>5 DEF LookedInv, Of, Around
<1>5. ASSUME NEW at \in {"overlap", "restore", "gap", "next"}, NEW there \in SUBSET Row, MoveOn(p, at, there)
      PROVE  /\ Looked(p) /\ imports'[p].at = at /\ unseen' \in [Import -> SUBSET Nat]
             /\ unseen'[p] = unseen[p] \cup there /\ \A q \in Import : q # p => unseen'[q] = unseen[q]
             /\ \A q \in Import : q # p => imports'[q] = imports[q]
             /\ imports'[p].file = imports[p].file
  <2>1. Row \subseteq Nat
    BY DEF Row
  <2>2. imports' = [imports EXCEPT ![p].at = at] /\ unseen' = [unseen EXCEPT ![p] = @ \cup there]
    BY <1>5 DEF MoveOn, Goto
  <2>3. Looked(p) /\ imports'[p].at = at
    BY <1>0, <2>2, ImportMoves, 0 \in Nat DEF Looked
  <2>4. unseen'[p] = unseen[p] \cup there /\ \A q \in Import : q # p => unseen'[q] = unseen[q]
    BY <1>2, <2>2
  <2>5. unseen' \in [Import -> SUBSET Nat]
    BY <1>2, <2>1, <2>2
  <2> QED
    BY <2>3, <2>4, <2>5 DEF Looked
<1>6. CASE LookUp(p)
  <2>1. CASE MoveOn(p, Detail(f), {})
    <3>1. /\ Looked(p) /\ imports'[p].at \notin {"overlap", "restore"} /\ unseen' \in [Import -> SUBSET Nat]
          /\ \A q \in Import : q # p => unseen'[q] = unseen[q] /\ imports'[q] = imports[q]
      BY <1>1, <1>5, <2>1
    <3> QED
      BY <1>0, <1>2, <1>3, <3>1 DEF LookedInv, Of, Around
  <2>2. CASE \E i \in Named("remote", RemoteId(f)) : Join(p, i)
    BY <1>2, <1>4, <2>2 DEF Named
  <2>3. CASE RemoteId(f) # None /\ MoveOn(p, "overlap", Named("remote", RemoteId(f)))
    <3>1. Named("remote", RemoteId(f)) \subseteq Row
      BY DEF Named
    <3>2. /\ Looked(p) /\ imports'[p].at = "overlap" /\ unseen' \in [Import -> SUBSET Nat]
          /\ unseen'[p] = unseen[p] \cup Named("remote", RemoteId(f))
          /\ \A q \in Import : q # p => unseen'[q] = unseen[q] /\ imports'[q] = imports[q]
          /\ imports'[p].file = imports[p].file
      BY <1>5, <2>3, <3>1
    <3>3. \A i \in Row \ unseen'[p] : broadcasts[i].remote # RemoteId(f)
      BY <2>3, <3>2 DEF Named
    <3> QED
      BY <1>0, <1>2, <1>3, <2>3, <3>2, <3>3 DEF LookedInv, Of, Around, f
  <2> QED
    BY <1>6, <2>1, <2>2, <2>3 DEF LookUp, f
<1>7. CASE LookAround(p)
  <2>1. CASE \E i \in Overlapping(f.at) : Join(p, i)
    BY <1>2, <1>4, <2>1 DEF Overlapping, Around
  <2>2. CASE MoveOn(p, "restore", Around(f.at))
    <3>1. Around(f.at) \subseteq Row /\ imports[p].at = "overlap"
      BY <1>7 DEF Around, LookAround, Step
    <3>2. /\ Looked(p) /\ imports'[p].at = "restore" /\ unseen' \in [Import -> SUBSET Nat]
          /\ unseen'[p] = unseen[p] \cup Around(f.at)
          /\ \A q \in Import : q # p => unseen'[q] = unseen[q] /\ imports'[q] = imports[q]
          /\ imports'[p].file = imports[p].file
      BY <1>5, <2>2, <3>1
    <3>3. RemoteId(f) # None /\ \A i \in Row \ unseen'[p] : broadcasts[i].remote # RemoteId(f)
      BY <1>0, <3>1, <3>2 DEF LookedInv, f
    <3> QED
      BY <1>0, <1>2, <1>3, <3>2, <3>3 DEF LookedInv, Of, Around, f
  <2> QED
    BY <1>7, <2>1, <2>2 DEF LookAround, f
<1> QED
  BY <1>6, <1>7, <1>2

LEMMA RestoreKeeps ==
  ASSUME ImporterInv, NEW p \in Import, Restore(p)
  PROVE  /\ RowsInv' /\ Looked(p) /\ LookedInv' /\ UNCHANGED <<files, held>>
         /\ \A i \in Row : broadcasts'[i] # broadcasts[i] => OnlyFilled(i) /\ i \in unseen[p]
<1> DEFINE f == files[Of(p)]
<1>0. RowsInv /\ FilesInv /\ LookedInv /\ Step(p, "restore") /\ WrittenUnder
  BY DEF ImporterInv, Restore
<1>1. f \in MediaFile /\ Detail(f) \in {"gap", "next"} /\ RemoteId(f) # None
  <2>1. Of(p) \in 1 .. Files
    BY <1>0 DEF FilesInv, Step
  <2> QED
    BY <1>0, <2>1 DEF FilesInv, LookedInv, Step, Detail
<1>2. UNCHANGED <<clock, shown, named, anchor, files, held>>
  BY DEF Restore
<1>3. Match(Restored(f)) \subseteq unseen[p]
  BY <1>0, RestoreMatches
<1> HIDE DEF f
<1>4. CASE Goto(p, Detail(f)) /\ UNCHANGED broadcasts
  <2>1. Looked(p) /\ imports'[p].at \notin {"overlap", "restore"}
    BY <1>0, <1>1, <1>4, ImportMoves, 0 \in Nat DEF Goto, Looked
  <2>2. RowsInv' /\ broadcasts' \in Seq(BroadcastType)
    BY <1>0, <1>2, <1>4 DEF RowsInv, LostTypeOK, Row
  <2>3. LookedInv'
    BY <1>0, <1>2, <2>1, <2>2, LookedUnder DEF Looked
  <2> QED
    BY <1>2, <1>4, <2>1, <2>2, <2>3
<1>5. CASE /\ Upsert(Restored(f))
           /\ \E i \in DOMAIN broadcasts' : imports' = [imports EXCEPT ![p].at = "attach", ![p].row = i]
  <2>1. Restored(f) \in BroadcastType /\ OddIsNamed(Restored(f))
    BY <1>1 DEF Restored, RemoteId, MediaFile, BroadcastType, OddIsNamed, Show, None
  <2>2. /\ broadcasts' \in Seq(BroadcastType)
        /\ \A i \in 1 .. Len(broadcasts') : OddIsNamed(broadcasts'[i])
    BY <1>0, <1>5, <2>1, UpsertKeepsRows
  <2>3. PICK i \in DOMAIN broadcasts' : imports' = [imports EXCEPT ![p].at = "attach", ![p].row = i]
    BY <1>5
  <2>4. i \in Nat
    BY <2>2, <2>3
  <2>5. Looked(p) /\ imports'[p].at = "attach"
    BY <1>0, <2>3, <2>4, ImportMoves DEF Looked
  <2>6. RowsInv'
    BY <1>0, <1>2, <2>2 DEF RowsInv, LostTypeOK, Row
  <2>7. LookedInv'
    BY <1>0, <1>2, <2>2, <2>5, LookedUnder DEF Looked
  <2>8. \A j \in Row : broadcasts'[j] # broadcasts[j] => OnlyFilled(j) /\ j \in unseen[p]
    BY <1>0, <1>1, <1>3, <1>5, RestoreFills
  <2> QED
    BY <1>2, <2>5, <2>6, <2>7, <2>8
<1> QED
  BY <1>4, <1>5 DEF Restore, f

LEMMA ImporterInvStep == ImporterInv /\ [ImporterNext]_importer => ImporterInv'
<1> SUFFICES ASSUME ImporterInv, [ImporterNext]_importer PROVE ImporterInv'
  OBVIOUS
<1>t. RowsInv /\ FilesInv /\ LookedInv /\ Files \in Nat
  BY ImporterAssumption DEF ImporterInv
<1>r. UNCHANGED catalogue => RowsInv'
  BY <1>t DEF catalogue, RowsInv, LostTypeOK, Row
<1>1. ASSUME NEW p \in Import, PassOver(p) PROVE ImporterInv'
  <2>1. Step(p, "next") /\ Of(p) < Files /\ imports' = [imports EXCEPT ![p].file = @ + 1] /\ UNCHANGED <<files, held>>
    BY <1>1 DEF PassOver
  <2>2. RowsInv'
    BY <1>1, <1>r DEF PassOver
  <2>3. Of(p) + 1 \in Nat /\ Of(p) + 1 <= Files
    <3>1. Of(p) \in Nat
      BY <1>t DEF FilesInv, ImportType, Of
    <3> QED
      BY <1>t, <2>1, <3>1
  <2>4. /\ imports' \in [Import -> ImportType] /\ imports'[p].at = "next" /\ imports'[p].file = Of(p) + 1
        /\ \A q \in Import : q # p => imports'[q] = imports[q]
    <3>1. [imports[p] EXCEPT !.file = Of(p) + 1] \in ImportType
      BY <1>t, <2>3 DEF FilesInv, ImportType
    <3>2. imports' = [imports EXCEPT ![p] = [imports[p] EXCEPT !.file = Of(p) + 1]]
      BY <2>1 DEF Of
    <3> QED
      BY ZenonT(40), <1>t, <2>1, <3>1, <3>2 DEF FilesInv, ImportType, Step
  <2>5. FilesInv'
    BY <1>t, <2>1, <2>3, <2>4 DEF FilesInv, Step, Of, LooksAt
  <2>6. LookedInv'
    BY <1>1, <1>t, <2>4, LookedStays DEF PassOver, catalogue
  <2> QED
    BY <2>2, <2>5, <2>6 DEF ImporterInv
<1>2. ASSUME NEW p \in Import, FromSidecar(p) \/ FromName(p) PROVE ImporterInv'
  <2>1. PICK next \in {"broadcast", "next"} : CreateRow(p, next)
    BY <1>2 DEF FromSidecar, FromName
  <2> DEFINE f == Of(p) + 1
  <2>2. /\ Step(p, "next") /\ f <= Files /\ held[f] = None /\ held' = [held EXCEPT ![f] = Loose]
        /\ imports' = [imports EXCEPT ![p].file = f, ![p].at = next] /\ UNCHANGED files
    BY <2>1 DEF CreateRow
  <2>3. RowsInv'
    BY <2>1, <1>r DEF CreateRow
  <2>4. f \in 1 .. Files /\ f \in Nat
    <3>1. Of(p) \in Nat
      BY <1>t DEF FilesInv, ImportType, Of
    <3> QED
      BY <1>t, <2>2, <3>1
  <2>5. [imports[p] EXCEPT !.file = f, !.at = next] \in ImportType
    <3> HIDE DEF f
    <3> QED
      BY <1>t, <2>4 DEF FilesInv, ImportType
  <2>6. /\ imports' \in [Import -> ImportType] /\ imports'[p].at = next /\ imports'[p].file = f
        /\ \A q \in Import : q # p => imports'[q] = imports[q]
    BY <1>t, <2>2, <2>5 DEF FilesInv, ImportType
  <2>7. held' \in [1 .. Files -> Int] /\ held'[f] = Loose /\ \A g \in 1 .. Files : g # f => held'[g] = held[g]
    BY <1>t, <2>2, <2>4 DEF FilesInv, Loose
  <2>8. \A q \in Import : q # p /\ Of(q) = f => Step(q, "next")
    BY <1>t, <2>2 DEF FilesInv
  <2> HIDE DEF f
  <2>9. FilesInv'
    BY <1>t, <2>2, <2>4, <2>6, <2>7, <2>8 DEF FilesInv, Step, Of, Loose, None, LooksAt
  <2>10. LookedInv'
    BY <1>t, <2>1, <2>6, LookedStays DEF CreateRow, catalogue
  <2> QED
    BY <2>3, <2>9, <2>10 DEF ImporterInv
<1>3. ASSUME NEW p \in Import, BroadcastFor(p) PROVE ImporterInv'
  <2>1. Looked(p) /\ UNCHANGED <<files, held>> /\ RowsInv' /\ LookedInv'
    <3>1. CASE LookUp(p) \/ LookAround(p)
      BY <3>1, <1>r, LookMoves
    <3>2. CASE Restore(p)
      BY <3>2, RestoreKeeps
    <3> QED
      BY <1>3, <3>1, <3>2 DEF BroadcastFor
  <2>2. imports[p].at \in LooksAt
    BY <1>3 DEF BroadcastFor, LookUp, LookAround, Restore, Step, LooksAt
  <2>3. UNCHANGED <<files, held>>
    BY <2>1
  <2>4. \A q \in Import : /\ imports'[q].file = imports[q].file
                          /\ Step(q, "next") => imports'[q].at = "next"
                          /\ imports'[q].at # "next" => imports[q].at # "next"
                          /\ imports'[q].at \in LooksAt \cup {"attach"} => imports[q].at \in LooksAt \cup {"attach"}
    BY <2>1, <2>2 DEF Step, Looked, LooksAt
  <2>5. FilesInv'
    <3>1. /\ files' \in [1 .. Files -> MediaFile] /\ held' \in [1 .. Files -> Int]
          /\ \A q \in Import : imports'[q].file <= Files
      BY <1>t, <2>3, <2>4 DEF FilesInv, Of
    <3>2. \A q \in Import : imports'[q].at # "next" => imports'[q].file \in 1 .. Files /\ held'[imports'[q].file] # None
      BY <1>t, <2>3, <2>4 DEF FilesInv, Of, Step
    <3>3. \A q \in Import : imports'[q].at \in LooksAt \cup {"attach"} => held'[imports'[q].file] = Loose
      BY <1>t, <2>3, <2>4 DEF FilesInv, Of, Step
    <3>4. \A q, o \in Import : q # o /\ imports'[q].file = imports'[o].file /\ imports'[q].at # "next"
                              => imports'[o].at = "next"
      BY <1>t, <2>4 DEF FilesInv, Of, Step
    <3> QED
      BY <2>1, <3>1, <3>2, <3>3, <3>4 DEF FilesInv, Of, Step, Looked
  <2> QED
    BY <2>1, <2>5 DEF ImporterInv
<1>4. ASSUME NEW p \in Import, AttachRecording(p) PROVE ImporterInv'
  <2>1. imports[p].at = "attach" /\ Of(p) \in 1 .. Files /\ files[Of(p)] \in MediaFile
    BY <1>4, <1>t DEF AttachRecording, FilesInv, Step
  <2>2. /\ imports' = [imports EXCEPT ![p].at = Detail(files[Of(p)])] /\ UNCHANGED files
        /\ held' \in {held, [held EXCEPT ![Of(p)] = imports[p].row]}
    BY <1>4 DEF AttachRecording, Goto
  <2>3. RowsInv'
    BY <1>4, <1>r DEF AttachRecording
  <2>4. /\ imports' \in [Import -> ImportType] /\ imports'[p].at \in {"gap", "next"}
        /\ imports'[p].file = imports[p].file
        /\ \A q \in Import : q # p => imports'[q] = imports[q]
    BY ZenonT(40), <1>t, <2>2 DEF FilesInv, ImportType, Detail
  <2>5. imports[p].row \in Nat
    BY <1>t DEF FilesInv, ImportType
  <2>6. /\ held' \in [1 .. Files -> Int] /\ \A g \in 1 .. Files : g # Of(p) => held'[g] = held[g]
        /\ held'[Of(p)] # None
    BY <1>t, <2>1, <2>2, <2>5 DEF FilesInv, None, Step
  <2>7. FilesInv'
    BY <1>t, <2>1, <2>2, <2>4, <2>6 DEF FilesInv, Step, Of, LooksAt
  <2>8. LookedInv'
    BY <1>4, <1>t, <2>4, LookedStays DEF AttachRecording, catalogue
  <2> QED
    BY <2>3, <2>7, <2>8 DEF ImporterInv
<1>5. ASSUME NEW p \in Import, RestoreGap(p) PROVE ImporterInv'
  <2>1. /\ imports[p].at \in {"gap", "fill"} /\ UNCHANGED <<files, held>>
        /\ imports' = [imports EXCEPT ![p].at = "fill"] \/ imports' = [imports EXCEPT ![p].at = "next"]
    BY <1>5 DEF RestoreGap, Goto, Step
  <2>2. RowsInv'
    BY <1>5, <1>r DEF RestoreGap
  <2>3. /\ imports' \in [Import -> ImportType] /\ imports'[p].at \in {"fill", "next"}
        /\ imports'[p].file = imports[p].file
        /\ \A q \in Import : q # p => imports'[q] = imports[q]
    BY ZenonT(40), <1>t, <2>1 DEF FilesInv, ImportType
  <2>4. FilesInv'
    <3>1. \A q \in Import : /\ imports'[q].file = imports[q].file
                            /\ Step(q, "next") => imports'[q].at = "next"
                            /\ imports'[q].at # "next" => imports[q].at # "next"
                            /\ imports'[q].at \in LooksAt \cup {"attach"} => imports[q].at \in LooksAt \cup {"attach"}
      BY <2>1, <2>3 DEF Step, LooksAt
    <3>2. /\ files' \in [1 .. Files -> MediaFile] /\ held' \in [1 .. Files -> Int]
          /\ \A q \in Import : imports'[q].file <= Files
      BY <1>t, <2>1, <3>1 DEF FilesInv, Of
    <3>3. \A q \in Import : imports'[q].at # "next" => imports'[q].file \in 1 .. Files /\ held'[imports'[q].file] # None
      BY <1>t, <2>1, <3>1 DEF FilesInv, Of, Step
    <3>4. \A q \in Import : imports'[q].at \in LooksAt \cup {"attach"} => held'[imports'[q].file] = Loose
      BY <1>t, <2>1, <3>1 DEF FilesInv, Of, Step
    <3>5. \A q, o \in Import : q # o /\ imports'[q].file = imports'[o].file /\ imports'[q].at # "next"
                              => imports'[o].at = "next"
      BY <1>t, <3>1 DEF FilesInv, Of, Step
    <3> QED
      BY <2>3, <3>2, <3>3, <3>4, <3>5 DEF FilesInv, Of, Step
  <2>5. LookedInv'
    BY <1>5, <1>t, <2>3, LookedStays DEF RestoreGap, catalogue
  <2> QED
    BY <2>2, <2>4, <2>5 DEF ImporterInv
<1>6. ASSUME UNCHANGED <<imported, broadcasts>> PROVE FilesInv' /\ LookedInv'
  BY <1>6, <1>t DEF imported, FilesInv, LookedInv, Step, Of, Row, Around
<1>7. CASE HourPasses
  <2>1. RowsInv'
    BY <1>7, <1>t DEF HourPasses, RowsInv, LostTypeOK, Row
  <2> QED
    BY <1>6, <1>7, <2>1 DEF HourPasses, ImporterInv
<1>8. ASSUME NEW s \in Show, Poll(s) \/ Close(s) \/ List(s), UNCHANGED <<files, held, patched, imports>>,
             WrittenUnder
      PROVE  ImporterInv'
  <2>1. RowsInv' /\ broadcasts' \in Seq(BroadcastType)
    BY <1>8, <1>t, WatchKeepsRows DEF RowsInv, LostTypeOK
  <2>2. FilesInv'
    BY <1>8, <1>t DEF FilesInv, Step, Of
  <2>3. LookedInv'
    BY <1>8, <1>t, <2>1, LookedUnder
  <2> QED
    BY <2>1, <2>2, <2>3 DEF ImporterInv
<1>9. CASE UNCHANGED importer
  <2>1. RowsInv'
    BY <1>9, <1>t DEF importer, RowsInv, LostTypeOK, Row
  <2> QED
    BY <1>6, <1>9, <2>1 DEF importer, imported, ImporterInv
<1> QED
  BY <1>1, <1>2, <1>3, <1>4, <1>5, <1>7, <1>8, <1>9 DEF ImporterNext

(* What a step of an import leaves as it is.                               *)
JoinedKept ==
  imports' # imports =>
    /\ \A i \in Row : broadcasts'[i] # broadcasts[i] =>
         OnlyFilled(i) /\ \E p \in Import : imports'[p] # imports[p] /\ i \in unseen[p]
    /\ \A f \in 1 .. Files : held[f] \notin {None, Loose} => held'[f] = held[f]

LEMMA ImporterInvJoined == ImporterInv /\ [ImporterNext]_importer => JoinedKept
<1> SUFFICES ASSUME ImporterInv, [ImporterNext]_importer, imports' # imports PROVE JoinedKept
  BY DEF JoinedKept
<1>t. FilesInv
  BY DEF ImporterInv
<1>1. ASSUME NEW p \in Import, PassOver(p) PROVE JoinedKept
  BY <1>1 DEF PassOver, catalogue, JoinedKept
<1>2. ASSUME NEW p \in Import, FromSidecar(p) \/ FromName(p) PROVE JoinedKept
  BY <1>2, <1>t DEF FromSidecar, FromName, CreateRow, catalogue, JoinedKept, FilesInv
<1>3. ASSUME NEW p \in Import, BroadcastFor(p) PROVE JoinedKept
  <2>1. CASE LookUp(p) \/ LookAround(p)
    BY <2>1 DEF LookUp, LookAround, catalogue, JoinedKept
  <2>2. CASE Restore(p)
    <3>1. UNCHANGED held /\ \A i \in Row : broadcasts'[i] # broadcasts[i] => OnlyFilled(i) /\ i \in unseen[p]
      BY <2>2, RestoreKeeps
    <3>2. \A q \in Import : q # p => imports'[q] = imports[q]
      BY <2>2, RestoreKeeps DEF Looked
    <3>3. imports'[p] # imports[p]
      <4>1. imports \in [Import -> ImportType] /\ imports' \in [Import -> ImportType]
        BY <1>t, <2>2, RestoreKeeps DEF Looked, FilesInv
      <4> QED
        BY <3>2, <4>1
    <3> QED
      BY <3>1, <3>3 DEF JoinedKept
  <2> QED
    BY <1>3, <2>1, <2>2 DEF BroadcastFor
<1>4. ASSUME NEW p \in Import, AttachRecording(p) PROVE JoinedKept
  <2>1. held[Of(p)] = Loose
    BY <1>4, <1>t DEF AttachRecording, FilesInv, Step
  <2>2. \A f \in 1 .. Files : f # Of(p) => held'[f] = held[f]
    BY <1>4, <1>t DEF AttachRecording, FilesInv
  <2> QED
    BY <1>4, <2>1, <2>2 DEF AttachRecording, catalogue, JoinedKept
<1>5. ASSUME NEW p \in Import, RestoreGap(p) PROVE JoinedKept
  BY <1>5 DEF RestoreGap, catalogue, JoinedKept
<1> QED
  BY <1>1, <1>2, <1>3, <1>4, <1>5 DEF ImporterNext, HourPasses, imported, importer

LEMMA ImporterInvInit == LostInit /\ ImporterInit => ImporterInv
<1> SUFFICES ASSUME LostInit, ImporterInit PROVE ImporterInv
  OBVIOUS
<1>1. RowsInv
  BY DEF LostInit, RowsInv, LostTypeOK, Row, Show
<1>2. \A p \in Import : imports[p] = [at |-> "next", file |-> 0, row |-> Loose]
  BY DEF ImporterInit
<1>3. [at |-> "next", file |-> 0, row |-> Loose] \in ImportType
  BY ImporterAssumption DEF ImportType, Loose
<1>4. imports \in [Import -> ImportType]
  BY <1>3 DEF ImporterInit
<1>5. files \in [1 .. Files -> MediaFile] /\ held \in [1 .. Files -> Int]
  BY DEF ImporterInit, None
<1>6. LookedInv
  BY <1>2 DEF ImporterInit, LookedInv
<1> QED
  BY <1>1, <1>2, <1>4, <1>5, <1>6, ImporterAssumption DEF ImporterInv, FilesInv, Step, Of, LooksAt

(* importer.go, broadcastFor: however many imports run beside each other   *)
(* and beside the recorder, over whatever files, none changes a row it     *)
(* could see but fills one it could not, and no recording is taken from    *)
(* where another put it.                                                   *)
THEOREM JoinedStood == ImporterSpec => JoinedStands
<1>1. JoinedStands <=> [][JoinedKept]_importer
  BY DEF JoinedStands, JoinedKept
<1> QED
  BY <1>1, ImporterInvInit, ImporterInvStep, ImporterInvJoined, PTL DEF ImporterSpec

----------------------------------------------------------------------------
(* Incoming *)

IncomingStage == {"wanted", "downloading", "landed", "refused", "parked", "capturing", "remuxed", "kept"}

IncomingTypeOK ==
  /\ idle \in [IncomingFile -> 0 .. NotThere]
  /\ recorded \subseteq IncomingFile /\ sighted \subseteq IncomingFile
  /\ stage \in [Sought \cup Streamed -> IncomingStage]
  /\ running \in {"down", "names", "sweeping", "serving"}

(* A row names no scratch, and none of what the sweep is about to judge    *)
(* once it has asked the rows.  A download that has landed is there until  *)
(* its row is, and none has while a start sweeps.                          *)
IncomingInv ==
  /\ IncomingTypeOK
  /\ \A f \in recorded : OnDisk(f) /\ ~Partial(f)
  /\ running = "sweeping" => sighted \cap recorded = {}
  /\ \A s \in Sought : stage[s] = "landed" => OnDisk(MediaOf(s)) /\ running \in {"serving", "down"}
  /\ \A c \in Streamed : stage[c] = "remuxed" => <<c, "capture">> \notin recorded

(* What a step takes away.                                                 *)
TakenRightly ==
  \A f \in IncomingFile :
     OnDisk(f) /\ ~OnDisk(f)' =>
       \/ idle[f] >= Abandoned /\ running = "sweeping"
       \/ f[1] \in Sought /\ stage'[f[1]] = "refused"
       \/ Partial(f) /\ OnDisk(MediaOf(f[1]))'
       \/ stage[f[1]] \in {"remuxed", "parked"}

LEMMA FileNames ==
  /\ \A f \in IncomingFile : f = <<f[1], f[2]>> /\ f[2] \in {"part", "media", "capture"}
  /\ \A s \in Sought : <<s, "part">> \in IncomingFile /\ MediaOf(s) \in IncomingFile
  /\ \A c \in Streamed : <<c, "capture">> \in IncomingFile /\ MediaOf(c) \in IncomingFile
  BY DEF IncomingFile, MediaOf

LEMMA IncomingStep ==
  ASSUME IncomingInv, [IncomingNext]_incoming
  PROVE  IncomingInv' /\ TakenRightly
<1> USE DEF OnDisk, NotThere
<1>t. /\ idle \in [IncomingFile -> 0 .. 2] /\ recorded \subseteq IncomingFile /\ sighted \subseteq IncomingFile
      /\ stage \in [Sought \cup Streamed -> IncomingStage] /\ running \in {"down", "names", "sweeping", "serving"}
  BY DEF IncomingInv, IncomingTypeOK
<1>1. CASE StartRun
  <2>1. IncomingTypeOK'
    BY <1>1, <1>t DEF StartRun, IncomingTypeOK, IncomingStage
  <2>2. \A s \in Sought : stage'[s] # "landed"
    BY <1>1, <1>t DEF StartRun
  <2>3. \A c \in Streamed : stage'[c] = "remuxed" => stage[c] = "remuxed"
    BY <1>1, <1>t DEF StartRun
  <2> QED
    BY <1>1, <2>1, <2>2, <2>3 DEF StartRun, IncomingInv, TakenRightly, Partial
<1>2. CASE ReadNames
  BY <1>2, <1>t DEF ReadNames, Unclaimed, IncomingInv, IncomingTypeOK, TakenRightly, MediaOf, Partial
<1>3. CASE SweepFile
  <2>1. PICK f \in sighted : /\ sighted' = sighted \ {f}
                             /\ \/ OnDisk(f) /\ OldEnough(f) /\ idle' = [idle EXCEPT ![f] = NotThere]
                                \/ UNCHANGED idle
    BY <1>3 DEF SweepFile
  <2>2. running = "sweeping" /\ UNCHANGED <<recorded, stage, running>>
    BY <1>3 DEF SweepFile
  <2>3. f \in IncomingFile /\ f \notin recorded
    BY <1>t, <2>1, <2>2 DEF IncomingInv
  <2>4. idle' \in [IncomingFile -> 0 .. 2] /\ \A g \in IncomingFile : g # f => idle'[g] = idle[g]
    BY <1>t, <2>1, <2>3
  <2>5. idle' = idle \/ idle[f] >= Abandoned
    BY <2>1 DEF OldEnough
  <2>6. IncomingInv'
    BY <1>t, <2>1, <2>2, <2>3, <2>4 DEF IncomingInv, IncomingTypeOK, Partial
  <2> QED
    BY <2>2, <2>4, <2>5, <2>6 DEF TakenRightly
<1>4. CASE SweepEnds \/ KillRun
  BY <1>4, <1>t DEF SweepEnds, KillRun, IncomingInv, IncomingTypeOK, TakenRightly, MediaOf, Partial
<1>5. CASE BeginDownload
  BY <1>5, <1>t DEF BeginDownload, IncomingInv, IncomingTypeOK, IncomingStage, TakenRightly, MediaOf, Partial
<1>6. CASE WriteScratch
  <2>1. PICK s \in Sought : idle' = [idle EXCEPT ![<<s, "part">>] = 0]
    BY <1>6 DEF WriteScratch
  <2>2. UNCHANGED <<recorded, stage, running, sighted>>
    BY <1>6 DEF WriteScratch
  <2>3. idle' \in [IncomingFile -> 0 .. 2] /\ \A g \in IncomingFile : OnDisk(g) => OnDisk(g)'
    BY <1>t, <2>1, FileNames
  <2> QED
    BY <1>t, <2>2, <2>3, FileNames DEF IncomingInv, IncomingTypeOK, TakenRightly, Partial
<1>7. CASE Land
  <2>1. PICK s \in Sought :
          /\ stage[s] = "downloading" /\ running = "serving" /\ stage' = [stage EXCEPT ![s] = "landed"]
          /\ \/ OnDisk(MediaOf(s)) /\ UNCHANGED idle
             \/ idle' = [idle EXCEPT ![<<s, "part">>] = NotThere, ![MediaOf(s)] = 0]
    BY <1>7 DEF Land
  <2>2. UNCHANGED <<recorded, running, sighted>>
    BY <1>7 DEF Land
  <2>3. /\ <<s, "part">> \in IncomingFile /\ MediaOf(s) \in IncomingFile /\ <<s, "part">> # MediaOf(s)
        /\ Partial(<<s, "part">>)
    BY FileNames DEF MediaOf, Partial
  <2>4. /\ idle' \in [IncomingFile -> 0 .. 2] /\ OnDisk(MediaOf(s))'
        /\ \A g \in IncomingFile : OnDisk(g) /\ g # <<s, "part">> => OnDisk(g)'
    BY <1>t, <2>1, <2>3
  <2>5. stage' \in [Sought \cup Streamed -> IncomingStage] /\ stage'[s] = "landed"
        /\ \A x \in Sought \cup Streamed : x # s => stage'[x] = stage[x]
    BY <1>t, <2>1 DEF IncomingStage
  <2>6. \A o \in Sought : MediaOf(o) # <<s, "part">> /\ MediaOf(o) \in IncomingFile
    BY FileNames DEF MediaOf
  <2>7. IncomingInv'
    BY <1>t, <2>1, <2>2, <2>3, <2>4, <2>5, <2>6 DEF IncomingInv, IncomingTypeOK, Partial
  <2>8. <<s, "part">>[1] = s
    OBVIOUS
  <2> QED
    BY <2>3, <2>4, <2>7, <2>8 DEF TakenRightly
<1>8. CASE DownloadFails
  <2>1. PICK s \in Sought, end \in {"wanted", "refused"} :
          /\ stage[s] = "downloading" /\ running = "serving" /\ stage' = [stage EXCEPT ![s] = end]
          /\ \E taken \in IF end = "wanted" THEN {{}} ELSE SUBSET Discarded(s) :
               idle' = [f \in IncomingFile |-> IF f \in taken THEN NotThere ELSE idle[f]]
    BY <1>8 DEF DownloadFails
  <2>2. UNCHANGED <<recorded, running, sighted>>
    BY <1>8 DEF DownloadFails
  <2>3. PICK taken \in SUBSET Discarded(s) :
          /\ end = "wanted" => taken = {}
          /\ idle' = [f \in IncomingFile |-> IF f \in taken THEN NotThere ELSE idle[f]]
    BY <2>1
  <2>4. \A f \in taken : f \in IncomingFile /\ Partial(f) /\ f[1] = s
    BY DEF Discarded
  <2>5. stage' \in [Sought \cup Streamed -> IncomingStage] /\ stage'[s] = end
        /\ \A x \in Sought \cup Streamed : x # s => stage'[x] = stage[x]
    BY <1>t, <2>1 DEF IncomingStage
  <2>6. \A o \in Sought : ~Partial(MediaOf(o)) /\ MediaOf(o) \in IncomingFile
    BY FileNames DEF MediaOf, Partial
  <2>7. idle' \in [IncomingFile -> 0 .. 2] /\ \A f \in IncomingFile : OnDisk(f) /\ f \notin taken => OnDisk(f)'
    BY <1>t, <2>3
  <2>8. \A c \in Streamed : stage'[c] = "remuxed" => stage[c] = "remuxed"
    BY <2>1, <2>5
  <2>9. IncomingInv'
    <3>1. \A f \in recorded' : OnDisk(f)' /\ ~Partial(f)
      BY <1>t, <2>2, <2>4, <2>7 DEF IncomingInv
    <3>2. \A o \in Sought : stage'[o] = "landed" => OnDisk(MediaOf(o))' /\ running' \in {"serving", "down"}
      BY <2>1, <2>2, <2>4, <2>5, <2>6, <2>7 DEF IncomingInv
    <3> QED
      BY <1>t, <2>1, <2>2, <2>5, <2>7, <2>8, <3>1, <3>2 DEF IncomingInv, IncomingTypeOK, Partial
  <2>10. TakenRightly
    BY <2>3, <2>4, <2>5, <2>7 DEF TakenRightly
  <2> QED
    BY <2>9, <2>10
<1>9. CASE NameDownload
  <2>1. PICK s \in Sought :
          /\ stage[s] = "landed" /\ running = "serving"
          /\ \/ recorded' = recorded \cup {MediaOf(s)} /\ stage' = [stage EXCEPT ![s] = "parked"]
             \/ UNCHANGED recorded /\ stage' = [stage EXCEPT ![s] = "wanted"]
    BY <1>9 DEF NameDownload
  <2>2. UNCHANGED <<idle, running, sighted>>
    BY <1>9 DEF NameDownload
  <2>3. OnDisk(MediaOf(s)) /\ ~Partial(MediaOf(s)) /\ MediaOf(s) \in IncomingFile
        /\ \A c \in Streamed : MediaOf(s) # <<c, "capture">>
    BY <2>1, FileNames DEF IncomingInv, Partial, MediaOf
  <2>4. stage' \in [Sought \cup Streamed -> IncomingStage] /\ stage'[s] \in {"parked", "wanted"}
        /\ \A x \in Sought \cup Streamed : x # s => stage'[x] = stage[x]
    BY <1>t, <2>1 DEF IncomingStage
  <2>5. recorded' \subseteq recorded \cup {MediaOf(s)}
    BY <2>1
  <2>6. \A c \in Streamed : stage'[c] = "remuxed" => stage[c] = "remuxed"
    BY <2>1, <2>4
  <2>7. IncomingInv'
    BY <1>t, <2>1, <2>2, <2>3, <2>4, <2>5, <2>6 DEF IncomingInv, IncomingTypeOK, Partial
  <2> QED
    BY <2>2, <2>7 DEF TakenRightly
<1>10. CASE BeginCapture
  <2>1. PICK c \in Streamed :
          /\ stage[c] = "wanted" /\ stage' = [stage EXCEPT ![c] = "capturing"]
          /\ recorded' = recorded \cup {<<c, "capture">>} /\ idle' = [idle EXCEPT ![<<c, "capture">>] = 0]
    BY <1>10 DEF BeginCapture
  <2>2. running = "serving" /\ UNCHANGED <<running, sighted>>
    BY <1>10 DEF BeginCapture
  <2>3. <<c, "capture">> \in IncomingFile /\ ~Partial(<<c, "capture">>)
    BY FileNames DEF Partial
  <2>4. stage' \in [Sought \cup Streamed -> IncomingStage] /\ stage'[c] = "capturing"
        /\ \A x \in Sought \cup Streamed : x # c => stage'[x] = stage[x]
    BY <1>t, <2>1 DEF IncomingStage
  <2>5. idle' \in [IncomingFile -> 0 .. 2] /\ OnDisk(<<c, "capture">>)'
        /\ \A g \in IncomingFile : OnDisk(g) => OnDisk(g)'
    BY <1>t, <2>1, <2>3
  <2>6. \A d \in Streamed : d # c => <<d, "capture">> # <<c, "capture">>
    OBVIOUS
  <2>7. \A s \in Sought : MediaOf(s) \in IncomingFile
    BY FileNames
  <2>8. IncomingInv'
    <3>1. \A f \in recorded' : OnDisk(f)' /\ ~Partial(f)
      BY <1>t, <2>1, <2>3, <2>5 DEF IncomingInv
    <3>2. \A d \in Streamed : stage'[d] = "remuxed" => <<d, "capture">> \notin recorded'
      BY <2>1, <2>4, <2>6 DEF IncomingInv
    <3>3. \A s \in Sought : stage'[s] = "landed" => OnDisk(MediaOf(s))' /\ running' \in {"serving", "down"}
      BY <2>2, <2>4, <2>5, <2>7 DEF IncomingInv
    <3> QED
      BY <1>t, <2>1, <2>2, <2>3, <2>4, <2>5, <3>1, <3>2, <3>3 DEF IncomingInv, IncomingTypeOK, Partial
  <2> QED
    BY <2>5, <2>8 DEF TakenRightly
<1>11. CASE EndCapture
  BY <1>11, <1>t DEF EndCapture, IncomingInv, IncomingTypeOK, IncomingStage, TakenRightly, MediaOf, Partial
<1>12. CASE RemuxCapture
  <2>1. PICK c \in Streamed :
          /\ stage[c] = "parked" /\ running = "serving" /\ idle' = [idle EXCEPT ![MediaOf(c)] = 0]
          /\ \/ /\ recorded' = (recorded \ {<<c, "capture">>}) \cup {MediaOf(c)}
                /\ stage' = [stage EXCEPT ![c] = "remuxed"]
             \/ UNCHANGED <<recorded, stage>>
    BY <1>12 DEF RemuxCapture, Finalizing
  <2>2. UNCHANGED <<running, sighted>>
    BY <1>12 DEF RemuxCapture
  <2>3. MediaOf(c) \in IncomingFile /\ ~Partial(MediaOf(c)) /\ MediaOf(c) # <<c, "capture">>
        /\ \A d \in Streamed : MediaOf(c) # <<d, "capture">>
    BY FileNames DEF Partial, MediaOf
  <2>4. idle' \in [IncomingFile -> 0 .. 2] /\ OnDisk(MediaOf(c))' /\ \A g \in IncomingFile : OnDisk(g) => OnDisk(g)'
    BY <1>t, <2>1, <2>3
  <2>5. stage' \in [Sought \cup Streamed -> IncomingStage] /\ stage'[c] \in {"remuxed", "parked"}
        /\ \A x \in Sought \cup Streamed : x # c => stage'[x] = stage[x]
    BY <1>t, <2>1 DEF IncomingStage
  <2>6. recorded' \subseteq recorded \cup {MediaOf(c)} /\ (stage'[c] = "remuxed" => <<c, "capture">> \notin recorded')
    BY <1>t, <2>1, <2>3
  <2>7. \A s \in Sought : MediaOf(s) \in IncomingFile
    BY FileNames
  <2>8. IncomingInv'
    <3>1. \A f \in recorded' : OnDisk(f)' /\ ~Partial(f)
      BY <1>t, <2>3, <2>4, <2>6 DEF IncomingInv
    <3>2. \A d \in Streamed : stage'[d] = "remuxed" => <<d, "capture">> \notin recorded'
      BY <2>3, <2>5, <2>6 DEF IncomingInv
    <3>3. \A s \in Sought : stage'[s] = "landed" => OnDisk(MediaOf(s))' /\ running' \in {"serving", "down"}
      BY <2>2, <2>4, <2>5, <2>7 DEF IncomingInv
    <3> QED
      BY <1>t, <2>1, <2>2, <2>3, <2>4, <2>5, <2>6, <3>1, <3>2, <3>3 DEF IncomingInv, IncomingTypeOK, Partial
  <2> QED
    BY <2>4, <2>8 DEF TakenRightly
<1>13. CASE DropCapture
  <2>1. PICK c \in Streamed : stage[c] = "remuxed" /\ idle' = [idle EXCEPT ![<<c, "capture">>] = NotThere]
    BY <1>13 DEF DropCapture
  <2>2. UNCHANGED <<recorded, stage, running, sighted>>
    BY <1>13 DEF DropCapture
  <2>3. /\ <<c, "capture">> \in IncomingFile /\ <<c, "capture">> \notin recorded
        /\ \A s \in Sought : MediaOf(s) # <<c, "capture">> /\ MediaOf(s) \in IncomingFile
    BY <2>1, FileNames DEF IncomingInv, MediaOf
  <2>4. /\ idle' \in [IncomingFile -> 0 .. 2]
        /\ \A g \in IncomingFile : OnDisk(g) /\ g # <<c, "capture">> => OnDisk(g)'
    BY <1>t, <2>1, <2>3
  <2>5. IncomingInv'
    BY <1>t, <2>2, <2>3, <2>4 DEF IncomingInv, IncomingTypeOK, Partial
  <2>6. <<c, "capture">>[1] = c
    OBVIOUS
  <2> QED
    BY <2>1, <2>4, <2>5, <2>6 DEF TakenRightly
<1>14. CASE MoveOut
  <2>1. PICK x \in Sought \cup Streamed :
          /\ stage[x] \in {"parked", "remuxed"} /\ stage' = [stage EXCEPT ![x] = "kept"]
          /\ recorded' = recorded \ {MediaOf(x)} /\ idle' = [idle EXCEPT ![MediaOf(x)] = NotThere]
    BY <1>14 DEF MoveOut, Finalizing
  <2>2. UNCHANGED <<running, sighted>>
    BY <1>14 DEF MoveOut
  <2>3. MediaOf(x) \in IncomingFile /\ \A o \in Sought : (o # x => MediaOf(o) # MediaOf(x)) /\ MediaOf(o) \in IncomingFile
    BY FileNames DEF MediaOf
  <2>4. /\ idle' \in [IncomingFile -> 0 .. 2]
        /\ \A g \in IncomingFile : OnDisk(g) /\ g # MediaOf(x) => OnDisk(g)'
    BY <1>t, <2>1, <2>3
  <2>5. stage' \in [Sought \cup Streamed -> IncomingStage] /\ stage'[x] = "kept"
        /\ \A y \in Sought \cup Streamed : y # x => stage'[y] = stage[y]
    BY <1>t, <2>1 DEF IncomingStage
  <2>6. IncomingInv'
    <3>1. \A f \in recorded' : OnDisk(f)' /\ ~Partial(f)
      BY <1>t, <2>1, <2>4 DEF IncomingInv
    <3>2. \A s \in Sought : stage'[s] = "landed" => OnDisk(MediaOf(s))' /\ running' \in {"serving", "down"}
      BY <2>2, <2>3, <2>4, <2>5 DEF IncomingInv
    <3> QED
      BY <1>t, <2>1, <2>2, <2>4, <2>5, <3>1, <3>2 DEF IncomingInv, IncomingTypeOK, Partial
  <2>7. MediaOf(x)[1] = x
    BY DEF MediaOf
  <2> QED
    BY <2>1, <2>4, <2>6, <2>7 DEF TakenRightly
<1>15. CASE DayPasses
  <2>1. idle' = [f \in IncomingFile |-> IF OnDisk(f) /\ ~InUse(f) THEN Abandoned ELSE idle[f]]
        /\ UNCHANGED <<recorded, stage, running, sighted>>
    BY <1>15 DEF DayPasses
  <2>2. idle' \in [IncomingFile -> 0 .. 2] /\ \A g \in IncomingFile : OnDisk(g) => OnDisk(g)'
    <3> HIDE DEF InUse
    <3> QED
      BY <1>t, <2>1 DEF Abandoned
  <2> QED
    BY <1>t, <2>1, <2>2, FileNames DEF IncomingInv, IncomingTypeOK, TakenRightly, Partial
<1>16. CASE UNCHANGED incoming
  BY <1>16, <1>t DEF incoming, IncomingInv, IncomingTypeOK, TakenRightly, Partial, MediaOf
<1> QED
  BY <1>1, <1>2, <1>3, <1>4, <1>5, <1>6, <1>7, <1>8, <1>9, <1>10, <1>11, <1>12, <1>13, <1>14, <1>15, <1>16
     DEF IncomingNext

LEMMA IncomingInvInit == IncomingInit => IncomingInv
  BY DEF IncomingInit, IncomingInv, IncomingTypeOK, IncomingStage, NotThere

(* daemon.go, SweepIncoming: however many downloads and captures there     *)
(* are, whatever is killed and however long nothing runs, a recording's    *)
(* file lies where its row says, and what a download left is there to be   *)
(* resumed for a day.                                                      *)
THEOREM IncomingKept == IncomingSpec => IncomingIsKept
<1>1. IncomingInv => \A f \in recorded : OnDisk(f)
  BY DEF IncomingInv
<1>2. IncomingIsKept <=> [](\A f \in recorded : OnDisk(f)) /\ [][TakenRightly]_incoming
  BY DEF IncomingIsKept, TakenRightly
<1>3. IncomingInv /\ [IncomingNext]_incoming => IncomingInv' /\ TakenRightly
  BY IncomingStep
<1> QED
  BY <1>1, <1>2, <1>3, IncomingInvInit, PTL DEF IncomingSpec

----------------------------------------------------------------------------
(* Holes *)

OrNil == Nat \cup {Nil}
RecType == [origin : {"live", "recovered"}, from : Nat, to : OrNil,
            state : {"capturing", "awaiting", "complete", "failed", "trashed"},
            lost : BOOLEAN, silent : BOOLEAN]
RowType == [start : OrNil, end : OrNil, vod : OrNil, muted : (SUBSET Int) \cup {Nil}]

(* A hole lies behind, in a recording's broadcast.                         *)
HoleOK(h) ==
  /\ h = [rec |-> h.rec, from |-> h.from, to |-> h.to, reason |-> h.reason,
          attempts |-> h.attempts, filled |-> h.filled]
  /\ h.rec \in Recording /\ h.from \in Nat /\ h.to \in Nat /\ h.from < h.to
  /\ row.start + h.to <= now

Worked == {"download", "create", "finalize", "fill", "charge", "terminal"}

HolesTypeOK ==
  /\ now \in Nat /\ airing \in BOOLEAN /\ early \in Nat
  /\ copy \in [there : BOOLEAN, vod : Nat, muted : SUBSET Int]
  /\ row \in RowType /\ recs \in Seq(RecType)
  /\ step \in {"idle", "resolve", "next"} \cup Worked

(* What was recorded, and the row, are of the past; a hole is of a start   *)
(* that is known.                                                          *)
PastInv ==
  /\ \A r \in Recording : /\ recs[r].from <= now /\ ~recs[r].silent
                          /\ recs[r].to # Nil => recs[r].to <= now
  /\ early # 0 => early \in Recording /\ recs[early].to # Nil
  /\ row.end # Nil => row.end <= now
  /\ row.start = Nil => recs = <<>> /\ holes = {}
  /\ \A h \in holes : HoleOK(h)

BehindIt == \E r \in Recording : recs[r].origin = "recovered" /\ recs[r].from = row.start + hole.from

(* A pass is of a broadcast that is over, whose row nothing moves, and     *)
(* works at a hole that nobody filled.                                     *)
PatchInv ==
  /\ step = "idle" => todo = {}
  /\ step # "idle" => ~airing /\ row.start # Nil /\ row.vod # Nil
  /\ \A h \in todo : HoleOK(h) /\ ~h.filled
  /\ step \in Worked => HoleOK(hole) /\ ~hole.filled
  /\ step = "create" => VodTo(hole) > 0 /\ (Silenced(hole) => original = "yes")
  /\ step \in {"finalize", "fill"} => BehindIt

HolesInv == HolesTypeOK /\ PastInv /\ PatchInv

(* A set of numbers with a bound has a greatest.                           *)
LEMMA HasGreatest ==
  ASSUME NEW S \in SUBSET Nat, S # {}, NEW bound \in Nat, \A x \in S : x <= bound
  PROVE  \E most \in S : \A x \in S : x <= most
<1> DEFINE D == {bound - x : x \in S}
<1>1. D \in SUBSET Nat /\ D # {}
  <2>1. \A x \in S : bound - x \in Nat
    OBVIOUS
  <2> QED
    BY <2>1
<1>2. PICK least \in D : \A d \in D : least <= d
  BY <1>1, HasLeast
<1>3. PICK most \in S : least = bound - most
  BY <1>2
<1>4. ASSUME NEW x \in S PROVE x <= most
  <2>1. least <= bound - x
    BY <1>2
  <2> QED
    BY <1>3, <2>1
<1> QED
  BY <1>4

LEMMA RecordingsAre ==
  ASSUME recs \in Seq(RecType)
  PROVE  \A r \in Recording : recs[r] \in RecType /\ r \in Nat /\ recs[r].from \in Nat
<1>1. \A r \in Recording : recs[r] \in RecType /\ r \in Nat
  BY DEF Recording
<1> QED
  BY <1>1 DEF RecType

(* The first of some recordings is one of them.                            *)
LEMMA EarliestIsIn ==
  ASSUME recs \in Seq(RecType), NEW S \in SUBSET Recording, S # {}
  PROVE  Earliest(S) \in S
<1>1. \A r \in S : r \in Nat /\ recs[r].from \in Nat
  BY RecordingsAre
<1> DEFINE Starts == {recs[r].from : r \in S}
<1>2. PICK at \in Starts : \A other \in Starts : at <= other
  <2>1. Starts \in SUBSET Nat /\ Starts # {}
    BY <1>1
  <2> QED
    BY <2>1, HasLeast
<1> DEFINE Firsts == {r \in S : recs[r].from = at}
<1>3. PICK r \in Firsts : \A s \in Firsts : r <= s
  <2>1. Firsts \in SUBSET Nat /\ Firsts # {}
    BY <1>1, <1>2
  <2> QED
    BY <2>1, HasLeast
<1>4. \A s \in S : Precedes(r, s)
  <2> SUFFICES ASSUME NEW s \in S PROVE Precedes(r, s)
    OBVIOUS
  <2>1. recs[r].from <= recs[s].from
    BY <1>2, <1>3
  <2> QED
    BY <1>1, <1>3, <2>1 DEF Precedes
<1> QED
  BY <1>3, <1>4 DEF Earliest

(* And so is the last of those that hold bytes.                            *)
LEMMA LastIsHeld ==
  ASSUME recs \in Seq(RecType), now \in Nat, \A r \in Recording : recs[r].from <= now, Held # {}
  PROVE  Latest \in Held
<1>1. \A r \in Held : r \in Recording /\ r \in Nat /\ r <= Len(recs) /\ recs[r].from \in Nat /\ recs[r].from <= now
  BY RecordingsAre DEF Held, Recording
<1> DEFINE Starts == {recs[r].from : r \in Held}
<1>2. PICK at \in Starts : \A other \in Starts : other <= at
  <2>1. Starts \in SUBSET Nat /\ Starts # {} /\ \A x \in Starts : x <= now
    BY <1>1
  <2> QED
    BY <2>1, HasGreatest
<1> DEFINE Lasts == {r \in Held : recs[r].from = at}
<1>3. PICK r \in Lasts : \A s \in Lasts : s <= r
  <2>1. Lasts \in SUBSET Nat /\ Lasts # {} /\ \A x \in Lasts : x <= Len(recs)
    BY <1>1, <1>2
  <2>2. Len(recs) \in Nat
    OBVIOUS
  <2> QED
    BY <2>1, <2>2, HasGreatest
<1>4. \A s \in Held : Precedes(s, r)
  <2> SUFFICES ASSUME NEW s \in Held PROVE Precedes(s, r)
    OBVIOUS
  <2>1. recs[s].from <= recs[r].from
    BY <1>2, <1>3
  <2> QED
    BY <1>1, <1>3, <2>1 DEF Precedes
<1> QED
  BY <1>3, <1>4 DEF Latest

(* Of one that is not the last there is one after.                         *)
LEMMA AfterIsHeld ==
  ASSUME recs \in Seq(RecType), NEW r \in Held \ {Latest}
  PROVE  After(r) \in Held
<1> DEFINE S == {s \in Held \ {r} : Precedes(r, s)}
<1>1. \A s \in Held : s \in Recording /\ s \in Nat /\ recs[s].from \in Nat
  BY RecordingsAre DEF Held
<1>2. S # {}
  <2> SUFFICES ASSUME S = {} PROVE FALSE
    OBVIOUS
  <2>1. \A s \in Held : Precedes(s, r)
    BY <1>1 DEF Precedes
  <2>2. Latest \in Held /\ \A s \in Held : Precedes(s, Latest)
    BY <2>1 DEF Latest
  <2>3. Precedes(r, Latest)
    BY <2>2
  <2> QED
    BY <2>2, <2>3
<1>3. S \in SUBSET Recording
  BY <1>1
<1> QED
  BY <1>2, <1>3, EarliestIsIn DEF After

(* NextHole takes one of the holes it has to try.                          *)
LEMMA FirstIsIn ==
  ASSUME recs \in Seq(RecType), \A h \in todo : HoleOK(h), todo # {}
  PROVE  First \in todo
<1>1. \A h \in todo : h.rec \in Nat /\ h.from \in Nat /\ recs[h.rec].from \in Nat
  BY RecordingsAre DEF HoleOK
<1> DEFINE Starts == {recs[h.rec].from : h \in todo}
<1>2. PICK at \in Starts : \A other \in Starts : at <= other
  <2>1. Starts \in SUBSET Nat /\ Starts # {}
    BY <1>1
  <2> QED
    BY <2>1, HasLeast
<1> DEFINE Owners == {h.rec : h \in {g \in todo : recs[g.rec].from = at}}
<1>3. PICK rec \in Owners : \A other \in Owners : rec <= other
  <2>1. Owners \in SUBSET Nat /\ Owners # {}
    BY <1>1, <1>2
  <2> QED
    BY <2>1, HasLeast
<1> DEFINE Ours == {h.from : h \in {g \in todo : g.rec = rec}}
<1>4. PICK from \in Ours : \A other \in Ours : from <= other
  <2>1. Ours \in SUBSET Nat /\ Ours # {}
    BY <1>1, <1>3
  <2> QED
    BY <2>1, HasLeast
<1>5. PICK h \in todo : h.rec = rec /\ h.from = from
  BY <1>4
<1>6. recs[rec].from = at
  BY <1>3
<1>7. \A g \in todo : IF g.rec = h.rec THEN h.from <= g.from ELSE Precedes(h.rec, g.rec)
  <2> SUFFICES ASSUME NEW g \in todo PROVE IF g.rec = h.rec THEN h.from <= g.from ELSE Precedes(h.rec, g.rec)
    OBVIOUS
  <2>1. CASE g.rec = h.rec
    BY <1>4, <1>5, <2>1
  <2>2. CASE g.rec # h.rec
    <3>1. at <= recs[g.rec].from
      BY <1>2
    <3>2. recs[g.rec].from = at => rec <= g.rec
      BY <1>3
    <3> QED
      BY <1>1, <1>5, <1>6, <2>2, <3>1, <3>2 DEF Precedes
  <2> QED
    BY <2>1, <2>2
<1> QED
  BY <1>5, <1>7 DEF First

(* What a detection and a report file are holes of the past, not filled.   *)
SpanOK(s) == s.from \in Int /\ s.to \in Int /\ row.start + s.to <= now

LEMMA AddGapIsOK ==
  ASSUME row.start \in Nat, now \in Nat, \A h \in holes : HoleOK(h), NEW rec \in Recording,
         NEW gaps, \A s \in gaps : SpanOK(s)
  PROVE  \A h \in AddGap(rec, gaps) : HoleOK(h) /\ (h \in holes \/ ~h.filled)
<1> SUFFICES ASSUME NEW h \in AddGap(rec, gaps), h \notin holes PROVE HoleOK(h) /\ ~h.filled
  OBVIOUS
<1>1. PICK s \in gaps : /\ Acceptable(s)
                         /\ h = [rec |-> rec, from |-> s.from, to |-> s.to, reason |-> s.reason,
                                 attempts |-> 0, filled |-> FALSE]
  BY DEF AddGap
<1>2. s.from \in Int /\ s.to \in Int /\ row.start + s.to <= now /\ 0 <= s.from /\ s.from < s.to
  BY <1>1 DEF SpanOK, Acceptable
<1> QED
  BY <1>1, <1>2 DEF HoleOK

LEMMA SpanIsOK ==
  ASSUME row.start \in Nat, now \in Nat, NEW from \in Nat, NEW to \in Nat, to <= now, NEW reason
  PROVE  SpanOK(Span(from, to, reason))
  BY DEF SpanOK, Span

LEMMA FiledIsOK ==
  ASSUME HolesTypeOK, PastInv, row.start # Nil
  PROVE  \A h \in Filed : HoleOK(h) /\ (h \in holes \/ ~h.filled)
<1>1. /\ row.start \in Nat /\ now \in Nat /\ recs \in Seq(RecType) /\ \A h \in holes : HoleOK(h)
      /\ row.end # Nil => row.end \in Nat /\ row.end <= now
  BY DEF HolesTypeOK, PastInv, RowType, OrNil
<1>2. CASE Held = {}
  BY <1>1, <1>2 DEF Filed
<1>3. ASSUME Held # {} PROVE \A h \in Filed : HoleOK(h) /\ (h \in holes \/ ~h.filled)
  <2>1. \A r \in Held : /\ r \in Recording /\ recs[r].from \in Nat /\ recs[r].from <= now
                        /\ recs[r].to # Nil => recs[r].to \in Nat /\ recs[r].to <= now
    <3>1. \A r \in Recording : recs[r] \in RecType
      BY <1>1, RecordingsAre
    <3> QED
      BY <3>1 DEF Held, PastInv, RecType, OrNil
  <2>2. Held \in SUBSET Recording
    BY DEF Held
  <2>3. Earliest(Held) \in Held
    BY <1>1, <1>3, <2>2, EarliestIsIn
  <2>4. Latest \in Held
    BY <1>1, <1>3, LastIsHeld DEF PastInv
  <2>5. \A s \in LateStart : SpanOK(s)
    <3>1. LateStart \subseteq {Span(row.start, recs[Earliest(Held)].from, "late")}
      BY DEF LateStart
    <3>2. SpanOK(Span(row.start, recs[Earliest(Held)].from, "late"))
      BY <1>1, <2>1, <2>3, SpanIsOK
    <3> QED
      BY <3>1, <3>2
  <2>6. \A s \in Reconnects : SpanOK(s)
    <3> SUFFICES ASSUME NEW r \in Held \ {Latest}, recs[r].to # Nil
                 PROVE  SpanOK(Span(recs[r].to, recs[After(r)].from, "reconnect"))
      BY DEF Reconnects
    <3>1. After(r) \in Held
      BY <1>1, AfterIsHeld
    <3> QED
      BY <1>1, <2>1, <3>1, SpanIsOK
  <2>7. \A s \in Shortfalls : SpanOK(s)
    <3> SUFFICES ASSUME NEW r \in Held, recs[r].to # Nil
                 PROVE  SpanOK(Span(IF recs[r].from < row.start THEN row.start ELSE recs[r].from, recs[r].to, "short"))
      BY DEF Shortfalls
    <3> DEFINE from == IF recs[r].from < row.start THEN row.start ELSE recs[r].from
    <3>1. from \in Nat
      BY <1>1, <2>1
    <3> HIDE DEF from
    <3>2. SpanOK(Span(from, recs[r].to, "short"))
      BY <1>1, <2>1, <3>1, SpanIsOK
    <3> QED
      BY <3>2 DEF from
  <2>8. \A s \in EarlyStop : SpanOK(s)
    <3> SUFFICES ASSUME recs[Latest].to # Nil, row.end # Nil PROVE SpanOK(Span(recs[Latest].to, row.end, "early"))
      BY DEF EarlyStop
    <3> QED
      BY <1>1, <2>1, <2>4, SpanIsOK
  <2>9. \A s \in Spans : SpanOK(s)
    BY <2>5, <2>6, <2>7, <2>8 DEF Spans
  <2>10. Filed = AddGap(Earliest(Held), Spans) /\ Earliest(Held) \in Recording
    BY <1>3, <2>1, <2>3 DEF Filed
  <2> QED
    BY <1>1, <2>9, <2>10, AddGapIsOK
<1> QED
  BY <1>2, <1>3

(* What keeps a hole one of the past: no start moves forward, no           *)
(* recording's row is taken back, and the clock does not run back.         *)
LEMMA HoleStaysOK ==
  ASSUME NEW h, HoleOK(h), row.start \in Nat, row'.start \in Nat, row'.start <= row.start,
         now \in Nat, now' \in Nat, now <= now', Recording \subseteq Recording'
  PROVE  HoleOK(h)'
  BY DEF HoleOK

(* A change of one recording's row that leaves what holes rest on.         *)
Changed(r, q) ==
  /\ q \in RecType /\ q.from = recs[r].from /\ q.origin = recs[r].origin /\ q.silent = recs[r].silent
  /\ q.to = recs[r].to \/ q.to = now

LEMMA ChangesOne ==
  ASSUME HolesTypeOK, PastInv, NEW r \in Recording, NEW q, Changed(r, q), recs' = [recs EXCEPT ![r] = q],
         UNCHANGED <<now, row, holes>>, Nil \notin Nat
  PROVE  /\ recs' \in Seq(RecType) /\ Recording' = Recording
         /\ \A s \in Recording : /\ recs'[s].from = recs[s].from /\ recs'[s].origin = recs[s].origin
                                 /\ recs'[s].from <= now /\ ~recs'[s].silent
                                 /\ recs'[s].to # Nil => recs'[s].to <= now
                                 /\ recs[s].to # Nil => recs'[s].to # Nil
         /\ \A h : HoleOK(h) => HoleOK(h)'
<1>1. recs \in Seq(RecType) /\ now \in Nat /\ q \in RecType
  BY DEF HolesTypeOK, Changed
<1>2. recs' \in Seq(RecType) /\ Recording' = Recording /\ \A s \in Recording : recs'[s] = IF s = r THEN q ELSE recs[s]
  <2> HIDE DEF RecType
  <2> QED
    BY <1>1 DEF Recording
<1>3. \A s \in Recording : /\ recs'[s].from = recs[s].from /\ recs'[s].origin = recs[s].origin
                           /\ recs'[s].from <= now /\ ~recs'[s].silent
                           /\ recs'[s].to # Nil => recs'[s].to <= now
                           /\ recs[s].to # Nil => recs'[s].to # Nil
  BY <1>1, <1>2 DEF PastInv, Changed
<1>4. \A h : HoleOK(h) => HoleOK(h)'
  BY <1>2 DEF HoleOK
<1> QED
  BY <1>2, <1>3, <1>4

(* Then everything stands that the recordings are not asked for.           *)
LEMMA ChangeKeeps ==
  ASSUME HolesInv, NEW r \in Recording, NEW q, Changed(r, q), recs' = [recs EXCEPT ![r] = q],
         UNCHANGED <<now, airing, row, holes, copy>>, Nil \notin Nat, early' \in Nat,
         early' = early \/ early' = 0 \/ (early' = r /\ q.to = now)
  PROVE  /\ PastInv' /\ recs' \in Seq(RecType)
         /\ UNCHANGED patcher => PatchInv'
         /\ BehindIt /\ UNCHANGED hole => BehindIt'
         /\ \A h : HoleOK(h) => HoleOK(h)'
<1>1. HolesTypeOK /\ PastInv /\ PatchInv
  BY DEF HolesInv
<1>2. /\ recs' \in Seq(RecType) /\ Recording' = Recording
      /\ \A s \in Recording : /\ recs'[s].from = recs[s].from /\ recs'[s].origin = recs[s].origin
                              /\ recs'[s].from <= now /\ ~recs'[s].silent
                              /\ recs'[s].to # Nil => recs'[s].to <= now
                              /\ recs[s].to # Nil => recs'[s].to # Nil
      /\ \A h : HoleOK(h) => HoleOK(h)'
  BY <1>1, ChangesOne
<1>3. recs'[r] = q /\ now # Nil
  BY <1>1 DEF HolesTypeOK, Recording
<1>4. recs = <<>> => FALSE
  BY DEF Recording
<1>5. PastInv'
  BY <1>1, <1>2, <1>3, <1>4 DEF PastInv
<1>6. BehindIt /\ UNCHANGED hole => BehindIt'
  BY <1>2 DEF BehindIt
<1>7. UNCHANGED patcher => PatchInv'
  BY <1>1, <1>2, <1>6 DEF PatchInv, patcher, VodTo, VodFrom, Silenced
<1> QED
  BY <1>2, <1>5, <1>6, <1>7

LEMMA WatchSteps ==
  ASSUME HolesInv, Watch
  PROVE  HolesInv'
<1>t. HolesTypeOK /\ PastInv /\ PatchInv /\ Nil \notin Nat /\ now \in Nat /\ recs \in Seq(RecType)
      /\ row \in RowType /\ row.start \in OrNil
  BY HolesAssumption DEF HolesInv, HolesTypeOK, RowType
<1>n. now # Nil
  BY <1>t
<1>s. row.start # Nil => row.start \in Nat
  BY <1>t DEF OrNil
<1>1. CASE Capture
  <2> DEFINE q == [origin |-> "live", from |-> now, to |-> Nil, state |-> "capturing", lost |-> FALSE, silent |-> FALSE]
  <2>1. /\ airing /\ recs' = Append(recs, q) /\ UNCHANGED <<now, airing, early, holes, step, todo, hole, original, copy>>
        /\ \/ row.start = Nil /\ \E start \in {0, now} : row' = [row EXCEPT !.start = start]
           \/ row.start # Nil /\ UNCHANGED row
    BY <1>1 DEF Capture, capturing, patcher, world
  <2>2. q \in RecType
    BY <1>t DEF RecType, OrNil
  <2>3. step = "idle" /\ todo = {}
    BY <1>t, <2>1 DEF PatchInv
  <2>4. /\ row' \in RowType /\ row'.start \in Nat /\ row'.end = row.end
        /\ row.start # Nil => row' = row
    <3>1. CASE row.start # Nil
      BY <1>t, <1>s, <2>1, <3>1
    <3>2. ASSUME NEW start \in {0, now}, row' = [row EXCEPT !.start = start] PROVE row' \in RowType /\ row'.start \in Nat /\ row'.end = row.end
      <4>1. start \in Nat
        BY <1>t
      <4> QED
        BY <1>t, <3>2, <4>1 DEF RowType, OrNil
    <3> QED
      BY <2>1, <3>1, <3>2
  <2> HIDE DEF q
  <2>5. /\ recs' \in Seq(RecType) /\ Recording' = Recording \cup {Len(recs) + 1}
        /\ \A r \in Recording : recs'[r] = recs[r]
        /\ recs'[Len(recs) + 1] = q
    BY <1>t, <2>1, <2>2 DEF Recording
  <2>6. \A h \in holes : HoleOK(h)'
    <3>1. CASE row.start = Nil
      BY <1>t, <3>1 DEF PastInv
    <3>2. CASE row.start # Nil
      BY <1>t, <1>s, <2>1, <2>4, <2>5, <3>2, HoleStaysOK DEF PastInv
    <3> QED
      BY <3>1, <3>2
  <2>7. q.from <= now /\ ~q.silent /\ q.to = Nil
    BY <1>t DEF q
  <2>8. PastInv'
    <3>1. \A r \in Recording' : recs'[r].from <= now' /\ ~recs'[r].silent /\ (recs'[r].to # Nil => recs'[r].to <= now')
      BY <1>t, <2>1, <2>5, <2>7 DEF PastInv
    <3>2. early' # 0 => early' \in Recording' /\ recs'[early'].to # Nil
      BY <1>t, <2>1, <2>5 DEF PastInv
    <3>3. (row'.end # Nil => row'.end <= now') /\ row'.start # Nil
      BY <1>t, <2>1, <2>4 DEF PastInv
    <3> QED
      BY <2>1, <2>6, <3>1, <3>2, <3>3 DEF PastInv
  <2>9. HolesTypeOK'
    BY <1>t, <2>1, <2>4, <2>5 DEF HolesTypeOK
  <2> QED
    BY <2>1, <2>3, <2>8, <2>9 DEF HolesInv, PatchInv, Worked
<1>2. CASE ReportEarlyStop
  <2>1. /\ early # 0 /\ early' = 0 /\ UNCHANGED <<now, airing, row, recs, step, todo, hole, original, copy>>
        /\ \/ UNCHANGED holes
           \/ holes' = AddGap(GapAnchor(early), {Span(recs[early].to, now, "stopped")})
    BY <1>2 DEF ReportEarlyStop, patcher, world
  <2>2. early \in Recording /\ recs[early].to # Nil /\ recs[early].to <= now /\ recs[early] \in RecType
    BY <1>t, <2>1, RecordingsAre DEF PastInv
  <2>3. recs[early].to \in Nat /\ recs # <<>>
    BY <2>2 DEF RecType, OrNil, Recording
  <2>4. GapAnchor(early) \in Recording
    <3>1. Held \subseteq Recording
      BY DEF Held
    <3> QED
      BY <1>t, <2>2, <3>1, EarliestIsIn DEF GapAnchor
  <2>5. row.start \in Nat /\ \A h \in holes : HoleOK(h)
    BY <1>t, <1>s, <2>3 DEF PastInv
  <2>6. \A h \in holes' : HoleOK(h)
    <3>1. SpanOK(Span(recs[early].to, now, "stopped"))
      BY <1>t, <2>3, <2>5, SpanIsOK
    <3>2. \A h \in AddGap(GapAnchor(early), {Span(recs[early].to, now, "stopped")}) : HoleOK(h)
      BY <1>t, <2>4, <2>5, <3>1, AddGapIsOK
    <3> QED
      BY <2>1, <2>5, <3>2
  <2>7. PastInv'
    BY <1>t, <2>1, <2>5, <2>6 DEF PastInv, HoleOK, Recording
  <2>8. PatchInv' /\ HolesTypeOK'
    BY <1>t, <2>1 DEF PatchInv, HoleOK, Recording, BehindIt, VodTo, VodFrom, Silenced, HolesTypeOK
  <2> QED
    BY <2>7, <2>8 DEF HolesInv
<1>3. CASE GoOffline
  <2>1. /\ airing /\ airing' = FALSE /\ UNCHANGED <<now, recs, holes, early, step, todo, hole, original, copy>>
        /\ (row' = row \/ row' = [row EXCEPT !.end = now])
    BY <1>3 DEF GoOffline, patcher, world
  <2>2. step = "idle" /\ todo = {}
    BY <1>t, <2>1 DEF PatchInv
  <2>3. row' \in RowType /\ row'.start = row.start /\ (row'.end = row.end \/ row'.end = now)
    BY <1>t, <2>1 DEF RowType, OrNil
  <2>4. PastInv'
    BY <1>t, <2>1, <2>3 DEF PastInv, HoleOK, Recording
  <2> QED
    BY <1>t, <2>1, <2>2, <2>3, <2>4 DEF HolesInv, HolesTypeOK, PatchInv, Worked
<1>4. CASE Later
  <2>1. airing /\ now' = now + 1 /\ UNCHANGED <<airing, row, recs, holes, early, step, todo, hole, original, copy>>
    BY <1>4 DEF Later, patcher, world
  <2>2. step = "idle" /\ todo = {}
    BY <1>t, <2>1 DEF PatchInv
  <2>3. now' \in Nat /\ now <= now' /\ Recording' = Recording
    BY <1>t, <2>1 DEF Recording
  <2>4. \A h \in holes : HoleOK(h)'
    <3> SUFFICES ASSUME NEW h \in holes PROVE HoleOK(h)'
      OBVIOUS
    <3>1. row.start \in Nat
      BY <1>t, <1>s DEF PastInv
    <3> QED
      BY <1>t, <2>1, <2>3, <3>1, HoleStaysOK DEF PastInv
  <2>5. \A r \in Recording : recs[r].from \in Nat /\ (recs[r].to # Nil => recs[r].to \in Nat)
    <3>1. \A r \in Recording : recs[r] \in RecType
      BY <1>t, RecordingsAre
    <3> QED
      BY <3>1 DEF RecType, OrNil
  <2>6. \A r \in Recording' : recs'[r].from <= now' /\ ~recs'[r].silent /\ (recs'[r].to # Nil => recs'[r].to <= now')
    BY <1>t, <2>1, <2>3, <2>5 DEF PastInv
  <2>7. row'.end # Nil => row'.end <= now'
    <3>1. row.end # Nil => row.end \in Nat /\ row.end <= now
      BY <1>t DEF PastInv, RowType, OrNil
    <3> QED
      BY <1>t, <2>1, <3>1
  <2>8. PastInv'
    BY <1>t, <2>1, <2>3, <2>4, <2>6, <2>7 DEF PastInv
  <2> QED
    BY <1>t, <2>1, <2>2, <2>3, <2>8 DEF HolesInv, HolesTypeOK, PatchInv, Worked
<1>5. ASSUME NEW r \in Recording, CaptureStops(r) PROVE HolesInv'
  <2>1. PICK state \in {"complete", "failed"}, lost \in BOOLEAN :
          /\ recs' = [recs EXCEPT ![r].to = now, ![r].state = state, ![r].lost = lost]
          /\ early' \in IF airing /\ state = "complete" THEN {0, r} ELSE {0}
    BY <1>5 DEF CaptureStops
  <2>2. UNCHANGED <<now, airing, row, holes, step, todo, hole, original, copy>>
    BY <1>5 DEF CaptureStops, patcher
  <2> DEFINE q == [recs[r] EXCEPT !.to = now, !.state = state, !.lost = lost]
  <2>3. recs[r] \in RecType /\ r \in Nat
    BY <1>t, RecordingsAre
  <2>4. Changed(r, q) /\ q.to = now
    BY <1>t, <2>3 DEF Changed, RecType, OrNil
  <2>5. recs' = [recs EXCEPT ![r] = q]
    BY <2>1, <2>3
  <2>6. early' = 0 \/ early' = r
    BY <2>1
  <2>7. early' \in Nat /\ (early' = early \/ early' = 0 \/ (early' = r /\ q.to = now))
    BY <2>3, <2>4, <2>6
  <2> HIDE DEF q
  <2>8. PastInv' /\ recs' \in Seq(RecType) /\ (UNCHANGED patcher => PatchInv')
    BY <1>t, <2>2, <2>4, <2>5, <2>7, ChangeKeeps
  <2> QED
    BY <1>t, <2>2, <2>7, <2>8 DEF HolesInv, HolesTypeOK, patcher
<1> QED
  BY <1>1, <1>2, <1>3, <1>4, <1>5 DEF Watch

LEMMA RoundSteps ==
  ASSUME HolesInv, BeginPass \/ Discover \/ StopPass \/ Delete \/ Calm \/ UNCHANGED patching
  PROVE  HolesInv'
<1>t. HolesTypeOK /\ PastInv /\ PatchInv /\ Nil \notin Nat /\ now \in Nat /\ recs \in Seq(RecType)
      /\ row \in RowType /\ row.start \in OrNil
  BY HolesAssumption DEF HolesInv, HolesTypeOK, RowType
<1>s. row.start # Nil => row.start \in Nat
  BY <1>t DEF OrNil
<1>k. UNCHANGED <<now, row, recs, early, holes>> => PastInv' /\ \A h : HoleOK(h) => HoleOK(h)'
  BY <1>t DEF PastInv, HoleOK, Recording
<1>1. CASE BeginPass
  <2>1. /\ row.start # Nil /\ ~airing /\ step = "idle" /\ holes' = Filed
        /\ UNCHANGED <<now, airing, early, row, recs, hole, original, copy>>
        /\ \/ UNCHANGED <<step, todo>>
           \/ row.vod # Nil /\ step' = "resolve" /\ todo' = Patchable(Filed)
    BY <1>1 DEF BeginPass, Settled, AtRest, capturing, world
  <2>2. \A h \in holes' : HoleOK(h)
    BY <1>t, <2>1, FiledIsOK
  <2>3. \A h : HoleOK(h) => HoleOK(h)'
    BY <2>1 DEF HoleOK, Recording
  <2>4. PastInv'
    BY <1>t, <2>1, <2>2, <2>3 DEF PastInv, Recording
  <2>5. \A h \in Patchable(Filed) : HoleOK(h) /\ ~h.filled
    BY <2>1, <2>2 DEF Patchable
  <2>6. PatchInv'
    BY <1>t, <2>1, <2>3, <2>5 DEF PatchInv, Worked
  <2> QED
    BY <1>t, <2>1, <2>4, <2>6 DEF HolesInv, HolesTypeOK
<1>2. CASE Discover
  <2>1. /\ row.start # Nil /\ step = "idle" /\ copy.there
        /\ UNCHANGED <<now, airing, early, recs, holes, step, todo, hole, original, copy>>
        /\ \E quiet \in {copy.muted, row.muted} :
             row' = [row EXCEPT !.start = 0, !.vod = copy.vod, !.muted = quiet, !.end = IF @ = Nil THEN now ELSE @]
    BY <1>2 DEF Discover, Settled, AtRest, capturing, patcher, world
  <2>2. copy.vod \in Nat /\ copy.muted \in SUBSET Int /\ row.muted \in (SUBSET Int) \cup {Nil} /\ row.end \in OrNil
    BY <1>t DEF HolesTypeOK, RowType
  <2>3. PICK quiet \in {copy.muted, row.muted} :
          row' = [row EXCEPT !.start = 0, !.vod = copy.vod, !.muted = quiet, !.end = IF @ = Nil THEN now ELSE @]
    BY <2>1
  <2>4. row' \in RowType /\ row'.start = 0 /\ (row'.end = row.end \/ row'.end = now)
    BY <1>t, <2>2, <2>3 DEF RowType, OrNil
  <2>5. todo = {} /\ Recording' = Recording
    BY <1>t, <2>1 DEF PatchInv, Recording
  <2>6. \A h \in holes : HoleOK(h)'
    <3> SUFFICES ASSUME NEW h \in holes PROVE HoleOK(h)'
      OBVIOUS
    <3>1. HoleOK(h)
      BY <1>t DEF PastInv
    <3> QED
      BY <1>t, <1>s, <2>1, <2>4, <2>5, <3>1, HoleStaysOK
  <2>7. PastInv'
    BY <1>t, <2>1, <2>4, <2>5, <2>6 DEF PastInv
  <2> QED
    BY <1>t, <2>1, <2>4, <2>5, <2>7 DEF HolesInv, HolesTypeOK, PatchInv, Worked
<1>3. CASE StopPass
  <2>1. /\ step' = "idle" /\ todo' = {}
        /\ UNCHANGED <<now, airing, early, row, recs, holes, copy>>
    BY <1>3 DEF StopPass, EndPass, capturing
  <2> QED
    BY <1>t, <1>k, <2>1 DEF HolesInv, HolesTypeOK, PatchInv, Worked
<1>4. CASE Delete
  <2>1. /\ copy' = [copy EXCEPT !.there = FALSE]
        /\ UNCHANGED <<now, airing, early, row, recs, holes, step, todo, hole, original>>
    BY <1>4 DEF Delete, capturing, patcher
  <2>2. copy' \in [there : BOOLEAN, vod : Nat, muted : SUBSET Int]
    BY <1>t, <2>1 DEF HolesTypeOK
  <2>3. PatchInv'
    BY <1>t, <1>k, <2>1 DEF PatchInv, BehindIt, Recording, VodTo, VodFrom, Silenced
  <2> QED
    BY <1>t, <1>k, <2>1, <2>2, <2>3 DEF HolesInv, HolesTypeOK
<1>5. CASE Calm \/ UNCHANGED patching
  <2>1. UNCHANGED <<now, airing, early, row, recs, holes, step, todo, hole, original, copy>>
    BY <1>5 DEF Calm, capturing, patcher, patching
  <2>2. PatchInv'
    BY <1>t, <1>k, <2>1 DEF PatchInv, BehindIt, Recording, VodTo, VodFrom, Silenced
  <2> QED
    BY <1>t, <1>k, <2>1, <2>2 DEF HolesInv, HolesTypeOK
<1> QED
  BY <1>1, <1>2, <1>3, <1>4, <1>5

(* A download that was kept lets nothing of it be silent that the row      *)
(* knows of.                                                               *)
LEMMA KeptIsHeard ==
  ASSUME HolesInv, step = "create"
  PROVE  ~(/\ original # "yes" /\ row.muted # Nil
           /\ \E u \in row.muted : u \in VodFrom(hole) .. VodTo(hole) - 1)
<1> SUFFICES ASSUME original # "yes", row.muted # Nil,
                    NEW u \in row.muted, u \in VodFrom(hole) .. VodTo(hole) - 1
             PROVE  FALSE
  OBVIOUS
<1>1. row \in RowType /\ HoleOK(hole) /\ row.start # Nil /\ row.vod # Nil /\ VodTo(hole) > 0 /\ ~Silenced(hole)
  BY DEF HolesInv, HolesTypeOK, PatchInv, Worked
<1>2. row.start \in Nat /\ row.vod \in Nat /\ hole.from \in Nat /\ hole.to \in Nat /\ u \in Int
  BY <1>1 DEF RowType, OrNil, HoleOK
<1>3. VodFrom(hole) \in Int /\ VodTo(hole) \in Int
  BY <1>2 DEF VodFrom, VodTo
<1>4. u < VodTo(hole) /\ VodFrom(hole) < u + 1
  BY <1>2, <1>3
<1> QED
  BY <1>1, <1>4 DEF Silenced, MutedWithin

LEMMA MarkIsOK ==
  ASSUME NEW h, HoleOK(h), NEW mark
  PROVE  HoleOK([h EXCEPT !.filled = mark])
  BY DEF HoleOK

LEMMA PatchSteps ==
  ASSUME HolesInv, Pass
  PROVE  HolesInv'
<1>t. HolesTypeOK /\ PastInv /\ PatchInv /\ Nil \notin Nat /\ now \in Nat /\ recs \in Seq(RecType)
      /\ row \in RowType /\ row.start \in OrNil
  BY HolesAssumption DEF HolesInv, HolesTypeOK, RowType
<1>s. step # "idle" => row.start \in Nat /\ ~airing /\ row.vod # Nil
  BY <1>t DEF OrNil, PatchInv
<1>k. UNCHANGED <<now, row, recs, early, holes>> => PastInv' /\ \A h : HoleOK(h) => HoleOK(h)'
  BY <1>t DEF PastInv, HoleOK, Recording
<1>1. CASE Resolve
  <2>1. /\ step = "resolve" /\ step' = "next"
        /\ UNCHANGED <<now, airing, early, row, recs, holes, todo, hole, copy>>
    BY <1>1 DEF Resolve, capturing, world
  <2> QED
    BY <1>t, <1>k, <2>1 DEF HolesInv, HolesTypeOK, PatchInv, Worked
<1>2. CASE NextHole
  <2>1. /\ step = "next" /\ UNCHANGED <<now, airing, early, row, recs, holes, copy>>
        /\ \/ step' = "idle" /\ todo' = {}
           \/ /\ todo # {} /\ todo' = todo \ {First}
              /\ \/ UNCHANGED <<step, hole>>
                 \/ step' = "download" /\ hole' = First
    BY <1>2 DEF NextHole, EndPass, capturing
  <2>2. todo # {} => First \in todo
    BY <1>t, FirstIsIn DEF PatchInv
  <2>3. PatchInv'
    BY <1>t, <1>k, <2>1, <2>2 DEF PatchInv, Worked
  <2> QED
    BY <1>t, <1>k, <2>1, <2>3 DEF HolesInv, HolesTypeOK, Worked
<1>3. CASE Download
  <2>1. /\ step = "download" /\ step' \in {"create", "terminal", "charge"}
        /\ step' = "create" => ~Refused(hole) /\ VodTo(hole) > 0
        /\ UNCHANGED <<now, airing, early, row, recs, holes, todo, hole, original, copy>>
    BY <1>3 DEF Download, capturing, world
  <2>2. step' = "create" => VodTo(hole)' > 0 /\ (Silenced(hole)' => original' = "yes")
    BY <2>1 DEF Refused, Silenced, VodTo, VodFrom
  <2>3. PatchInv'
    BY <1>t, <1>k, <2>1, <2>2 DEF PatchInv, Worked
  <2> QED
    BY <1>t, <1>k, <2>1, <2>3 DEF HolesInv, HolesTypeOK, Worked
<1>4. CASE Create
  <2> DEFINE silent == /\ original # "yes" /\ row.muted # Nil
                       /\ \E u \in row.muted : u \in VodFrom(hole) .. VodTo(hole) - 1
             q == [origin |-> "recovered", from |-> row.start + hole.from,
                   to |-> Nil, state |-> "awaiting", lost |-> FALSE, silent |-> silent]
  <2>1. /\ step = "create" /\ UNCHANGED <<now, airing, early, row, holes, todo, hole, original, copy>>
        /\ \/ \E r \in Recording : Stem(r) /\ step' = "fill" /\ UNCHANGED recs
           \/ recs' = Append(recs, q) /\ step' = "finalize"
    BY <1>4 DEF Create, capturing, world
  <2>2. HoleOK(hole) /\ ~hole.filled /\ row.start \in Nat /\ ~airing /\ row.vod # Nil /\ row.start # Nil
    BY <1>t, <1>s, <2>1 DEF PatchInv, Worked
  <2>3. ASSUME NEW r \in Recording, Stem(r), step' = "fill", UNCHANGED recs PROVE HolesInv'
    <3>1. BehindIt'
      BY <2>1, <2>3 DEF BehindIt, Stem, AtItsPath, Recording
    <3>2. PatchInv'
      BY <1>t, <1>k, <2>1, <2>2, <2>3, <3>1 DEF PatchInv, Worked
    <3> QED
      BY <1>t, <1>k, <2>1, <2>3, <3>2 DEF HolesInv, HolesTypeOK, Worked
  <2>4. ASSUME recs' = Append(recs, q), step' = "finalize" PROVE HolesInv'
    <3>1. silent = FALSE
      BY <2>1, KeptIsHeard
    <3> HIDE DEF silent
    <3>2. q.from \in Nat /\ q.from <= now /\ q.silent = FALSE /\ q.origin = "recovered" /\ q.to = Nil
          /\ q.from = row.start + hole.from
      BY <1>t, <2>2, <3>1 DEF HoleOK
    <3>3. q \in RecType
      BY <3>1, <3>2 DEF RecType, OrNil
    <3> HIDE DEF q
    <3>4. /\ recs' \in Seq(RecType) /\ Recording' = Recording \cup {Len(recs) + 1}
          /\ \A r \in Recording : recs'[r] = recs[r]
          /\ recs'[Len(recs) + 1] = q
      BY <1>t, <2>4, <3>3 DEF Recording
    <3>5. \A h : HoleOK(h) => HoleOK(h)'
      BY <2>1, <3>4 DEF HoleOK
    <3>6. \A r \in Recording' : recs'[r].from <= now' /\ ~recs'[r].silent /\ (recs'[r].to # Nil => recs'[r].to <= now')
      BY <1>t, <2>1, <3>2, <3>4 DEF PastInv
    <3>7. early' # 0 => early' \in Recording' /\ recs'[early'].to # Nil
      BY <1>t, <2>1, <3>4 DEF PastInv
    <3>8. PastInv'
      BY <1>t, <2>1, <2>2, <3>5, <3>6, <3>7 DEF PastInv
    <3>9. BehindIt'
      BY <2>1, <3>2, <3>4 DEF BehindIt
    <3>10. PatchInv'
      BY <1>t, <2>1, <2>2, <2>4, <3>5, <3>9 DEF PatchInv, Worked
    <3> QED
      BY <1>t, <2>1, <2>4, <3>4, <3>8, <3>10 DEF HolesInv, HolesTypeOK, Worked
  <2> QED
    BY <2>1, <2>3, <2>4
<1>5. CASE Finalize
  <2> DEFINE r == Len(recs)
             q == [recs[r] EXCEPT !.state = "complete"]
  <2>1. /\ step = "finalize" /\ UNCHANGED <<now, airing, early, row, holes, todo, hole, original, copy>>
        /\ step' \in {"fill", "charge"}
        /\ recs' = [recs EXCEPT ![r].state = "complete"] \/ UNCHANGED recs
    BY <1>5 DEF Finalize, Finalized, capturing
  <2>2. BehindIt /\ HoleOK(hole) /\ ~hole.filled /\ early \in Nat
    BY <1>t, <2>1 DEF PatchInv, Worked, HolesTypeOK
  <2>3. CASE UNCHANGED recs
    <3>1. BehindIt'
      BY <2>1, <2>2, <2>3 DEF BehindIt, Recording
    <3>2. PatchInv'
      BY <1>t, <1>k, <2>1, <2>2, <2>3, <3>1 DEF PatchInv, Worked
    <3> QED
      BY <1>t, <1>k, <2>1, <2>3, <3>2 DEF HolesInv, HolesTypeOK, Worked
  <2>4. CASE recs' = [recs EXCEPT ![r].state = "complete"]
    <3>1. r \in Recording
      BY <1>t, <2>2 DEF BehindIt, Recording
    <3>2. recs[r] \in RecType
      BY <1>t, <3>1, RecordingsAre
    <3>3. Changed(r, q)
      BY <3>2 DEF Changed, RecType
    <3>4. recs' = [recs EXCEPT ![r] = q]
      BY <2>4, <3>2
    <3> HIDE DEF q
    <3>5. PastInv' /\ recs' \in Seq(RecType) /\ BehindIt' /\ \A h : HoleOK(h) => HoleOK(h)'
      BY <1>t, <2>1, <2>2, <3>1, <3>3, <3>4, ChangeKeeps
    <3>6. PatchInv'
      BY <1>t, <2>1, <2>2, <3>5 DEF PatchInv, Worked
    <3> QED
      BY <1>t, <2>1, <3>5, <3>6 DEF HolesInv, HolesTypeOK, Worked
  <2> QED
    BY <2>1, <2>3, <2>4
<1>6. ASSUME NEW change, Update(hole, change), HoleOK(change), step \in Worked, step' = "next",
             UNCHANGED <<now, airing, early, row, recs, todo, original, copy>>
      PROVE  HolesInv'
  <2>1. \A h : HoleOK(h) => HoleOK(h)'
    BY <1>6 DEF HoleOK, Recording
  <2>2. PastInv'
    <3>1. row.start # Nil
      BY <1>t, <1>6 DEF PatchInv, Worked
    <3> QED
      BY <1>t, <1>6, <2>1, <3>1 DEF PastInv, Update, Recording
  <2>3. PatchInv'
    BY <1>t, <1>6, <2>1 DEF PatchInv, Worked
  <2> QED
    BY <1>t, <1>6, <2>2, <2>3 DEF HolesInv, HolesTypeOK, Worked
<1>7. CASE Fill
  <2>1. step = "fill" /\ HoleOK(hole)
    BY <1>7, <1>t DEF Fill, PatchInv, Worked
  <2> DEFINE change == [hole EXCEPT !.filled = TRUE]
  <2>3. HoleOK(change)
    BY <2>1, MarkIsOK
  <2>4. Update(hole, change) /\ step' = "next" /\ UNCHANGED <<now, airing, early, row, recs, todo, original, copy>>
    BY <1>7 DEF Fill, capturing, world
  <2> HIDE DEF change
  <2> QED
    BY <1>6, <2>1, <2>3, <2>4 DEF Worked
<1>8. CASE Charge
  <2>1. step \in {"charge", "terminal"} /\ HoleOK(hole)
    BY <1>8, <1>t DEF Charge, PatchInv, Worked
  <2> DEFINE change == [hole EXCEPT !.attempts = IF step = "terminal" THEN MaxAttempts ELSE @ + 1]
  <2>2. HoleOK(change)
    BY <2>1 DEF HoleOK
  <2>3. Update(hole, change) /\ step' = "next" /\ UNCHANGED <<now, airing, early, row, recs, todo, original, copy>>
    BY <1>8 DEF Charge, capturing, world
  <2> HIDE DEF change
  <2> QED
    BY <1>6, <2>1, <2>2, <2>3 DEF Worked
<1> QED
  BY <1>1, <1>2, <1>3, <1>4, <1>5, <1>7, <1>8 DEF Pass

LEMMA SweepSteps ==
  ASSUME HolesInv, NEW r \in Recording, Sweep(r) \/ PurgeOne(r)
  PROVE  HolesInv'
<1>1. UNCHANGED <<now, airing, early, row, holes, step, todo, hole, original, copy>>
  BY DEF Sweep, PurgeOne, capturing, patcher
<1>2. PICK state \in {"complete", "failed", "trashed"} : recs' = [recs EXCEPT ![r].state = state]
  BY DEF Sweep, PurgeOne, Finalized, GaveUp
<1> DEFINE q == [recs[r] EXCEPT !.state = state]
<1>3. recs[r] \in RecType /\ early \in Nat /\ Nil \notin Nat
  BY RecordingsAre, HolesAssumption DEF HolesInv, HolesTypeOK
<1>4. Changed(r, q)
  BY <1>3 DEF Changed, RecType
<1>5. recs' = [recs EXCEPT ![r] = q]
  BY <1>2, <1>3
<1> HIDE DEF q
<1>6. PastInv' /\ recs' \in Seq(RecType) /\ PatchInv'
  BY <1>1, <1>3, <1>4, <1>5, ChangeKeeps DEF patcher
<1> QED
  BY <1>1, <1>6 DEF HolesInv, HolesTypeOK

LEMMA HolesInvStep == HolesInv /\ [HolesNext]_patching => HolesInv'
  BY WatchSteps, RoundSteps, PatchSteps, SweepSteps DEF HolesNext

LEMMA HolesInvInit == HolesInit => HolesInv
<1> SUFFICES ASSUME HolesInit PROVE HolesInv
  OBVIOUS
<1>1. row \in RowType /\ recs \in Seq(RecType)
  <2>1. Nil \in OrNil /\ Nil \in (SUBSET Int) \cup {Nil}
    BY DEF OrNil
  <2>2. row = [start |-> Nil, end |-> Nil, vod |-> Nil, muted |-> Nil] /\ recs = <<>>
    BY DEF HolesInit
  <2>3. row \in RowType
    BY <2>1, <2>2 DEF RowType
  <2> QED
    BY <2>2, <2>3
<1>2. copy \in [there : BOOLEAN, vod : Nat, muted : SUBSET Int]
  <2>1. copy \in [there : {TRUE}, vod : {0, 1}, muted : {{1}}]
    BY DEF HolesInit
  <2>2. copy = [there |-> copy.there, vod |-> copy.vod, muted |-> copy.muted] /\ copy.there = TRUE
        /\ copy.vod \in {0, 1} /\ copy.muted = {1}
    BY <2>1
  <2>3. copy.vod \in Nat /\ copy.muted \in SUBSET Int
    BY <2>2
  <2> QED
    BY <2>2, <2>3
<1> QED
  BY <1>1, <1>2, HolesAssumption DEF HolesInit, HolesInv, HolesTypeOK, PastInv, PatchInv, Worked, Recording

(* What a step fills.                                                      *)
FilledRightly ==
  \A h \in holes' : h.filled /\ ~(h \in holes) =>
    \E r \in Recording : /\ recs[r].origin = "recovered" /\ ~recs[r].silent
                         /\ recs[r].from = row.start + h.from

LEMMA HolesInvFilled == HolesInv /\ [HolesNext]_patching => FilledRightly
<1> SUFFICES ASSUME HolesInv, [HolesNext]_patching, NEW h \in holes', h.filled, h \notin holes
             PROVE  \E r \in Recording : /\ recs[r].origin = "recovered" /\ ~recs[r].silent
                                         /\ recs[r].from = row.start + h.from
  BY DEF FilledRightly
<1>t. HolesTypeOK /\ PastInv /\ PatchInv
  BY DEF HolesInv
<1>1. CASE Fill
  <2>1. HoleOK(hole) /\ BehindIt /\ h = [hole EXCEPT !.filled = TRUE]
    BY <1>1, <1>t DEF Fill, PatchInv, Worked, Update
  <2>2. h.from = hole.from
    BY <2>1 DEF HoleOK
  <2> QED
    BY <1>t, <2>1, <2>2 DEF BehindIt, PastInv
<1>2. CASE Charge
  <2>1. HoleOK(hole) /\ ~hole.filled
        /\ h = [hole EXCEPT !.attempts = IF step = "terminal" THEN MaxAttempts ELSE @ + 1]
    BY <1>2, <1>t DEF Charge, PatchInv, Worked, Update
  <2>2. h.filled = hole.filled
    BY <2>1 DEF HoleOK
  <2> QED
    BY <2>1, <2>2
<1>3. CASE BeginPass
  <2>1. row.start # Nil /\ h \in Filed
    BY <1>3 DEF BeginPass, Settled
  <2> QED
    BY <1>t, <2>1, FiledIsOK
<1>4. CASE ReportEarlyStop
  BY <1>4 DEF ReportEarlyStop, AddGap
<1>5. CASE UNCHANGED holes
  BY <1>5
<1> QED
  BY <1>1, <1>2, <1>3, <1>4, <1>5
     DEF HolesNext, Watch, Pass, Capture, GoOffline, Later, CaptureStops, Discover, Resolve, NextHole, Download,
         Create, Finalize, StopPass, Delete, Calm, Sweep, PurgeOne, patching

(* patch.go, patch: whatever interferes, for however many captures and     *)
(* however long a broadcast, the step that fills a hole has a recovered row*)
(* of that stretch, with nothing silent in it that was known to be.        *)
THEOREM FilledRecorded == HolesSpec => FilledHasRecording
<1>1. FilledHasRecording <=> [][FilledRightly]_patching
  BY DEF FilledHasRecording, FilledRightly
<1> QED
  BY <1>1, HolesInvInit, HolesInvStep, HolesInvFilled, PTL DEF HolesSpec

----------------------------------------------------------------------------
(* Budget *)

(* What the channels' captures have written, of any function of them.      *)
Sum(t) ==
  LET sum[c \in 0 .. Broadcasters] == IF c = 0 THEN 0 ELSE t[c].bytes + sum[c - 1]
  IN  sum[Broadcasters]

Sums(t, f) == /\ f \in [0 .. Broadcasters -> Nat] /\ f[0] = 0
              /\ \A i \in Broadcaster : f[i] = t[i].bytes + f[i - 1]

Counted(t) == \A c \in Broadcaster : t[c].bytes \in Nat

LEMMA SumIs ==
  ASSUME NEW t, Counted(t)
  PROVE  \E f : Sums(t, f) /\ Sum(t) = f[Broadcasters]
<1> USE BudgetAssumption DEF Broadcaster, Counted
<1> DEFINE AllUpTo(n, f) == f \in [0 .. n -> Nat] /\ f[0] = 0 /\ \A i \in 1 .. n : f[i] = t[i].bytes + f[i - 1]
           Failing == {n \in 0 .. Broadcasters : ~ \E f : AllUpTo(n, f)}
<1>1. Failing = {}
  <2> SUFFICES ASSUME Failing # {} PROVE FALSE
    OBVIOUS
  <2>1. PICK n \in Failing : \A m \in Failing : n <= m
    <3>1. Failing \in SUBSET Nat
      OBVIOUS
    <3> HIDE DEF Failing
    <3> QED
      BY <3>1, HasLeast
  <2>2. AllUpTo(0, [i \in 0 .. 0 |-> 0])
    OBVIOUS
  <2> HIDE DEF AllUpTo
  <2>3. n \in Nat /\ n # 0 /\ n \in Broadcaster
    BY <2>2
  <2>4. PICK f : AllUpTo(n - 1, f)
    <3>1. n - 1 \in 0 .. Broadcasters /\ ~(n <= n - 1)
      BY <2>3
    <3> QED
      BY <2>1, <3>1
  <2> USE DEF AllUpTo
  <2> DEFINE g == [i \in 0 .. n |-> IF i = n THEN t[n].bytes + f[n - 1] ELSE f[i]]
  <2>5. t[n].bytes + f[n - 1] \in Nat
    BY <2>3, <2>4
  <2>6. g \in [0 .. n -> Nat]
    BY <2>3, <2>4, <2>5
  <2>7. g[0] = 0
    BY <2>3, <2>4
  <2>8. ASSUME NEW i \in 1 .. n PROVE g[i] = t[i].bytes + g[i - 1]
    <3>1. i - 1 \in 0 .. n /\ i - 1 # n /\ g[i - 1] = f[i - 1]
      BY <2>3
    <3>2. CASE i = n
      BY <3>1, <3>2
    <3>3. CASE i # n
      <4>1. i \in 1 .. n - 1 /\ g[i] = f[i]
        BY <2>3, <3>3
      <4> QED
        BY <2>4, <3>1, <4>1
    <3> QED
      BY <3>2, <3>3
  <2> QED
    BY <2>3, <2>6, <2>7, <2>8
<1>2. PICK f : Sums(t, f)
  <2>1. Broadcasters \in 0 .. Broadcasters
    OBVIOUS
  <2>2. PICK f : AllUpTo(Broadcasters, f)
    <3> HIDE DEF AllUpTo
    <3> QED
      BY <1>1, <2>1
  <2> QED
    BY <2>2 DEF Sums
<1> DEFINE Unfolded(h) == [c \in 0 .. Broadcasters |-> IF c = 0 THEN 0 ELSE t[c].bytes + h[c - 1]]
<1>3. f = Unfolded(f)
  BY <1>2 DEF Sums
<1> DEFINE sum == CHOOSE h : h = Unfolded(h)
<1>4. sum = Unfolded(sum)
  BY <1>3
<1>5. Sum(t) = sum[Broadcasters]
  BY DEF Sum
<1> HIDE DEF sum
<1> DEFINE Strays == {i \in 0 .. Broadcasters : sum[i] # f[i]}
<1>6. Strays = {}
  <2> SUFFICES ASSUME Strays # {} PROVE FALSE
    OBVIOUS
  <2>1. PICK i \in Strays : \A j \in Strays : i <= j
    <3>1. Strays \in SUBSET Nat
      OBVIOUS
    <3> HIDE DEF Strays
    <3> QED
      BY <3>1, HasLeast
  <2>2. i # 0
    BY <1>2, <1>4 DEF Sums
  <2>3. i \in Broadcaster /\ i - 1 \in 0 .. Broadcasters /\ i - 1 \notin Strays
    BY <2>1, <2>2
  <2>4. sum[i] = t[i].bytes + sum[i - 1]
    BY <1>4, <2>2
  <2> QED
    BY <1>2, <2>3, <2>4 DEF Sums
<1> QED
  BY <1>2, <1>5, <1>6

(* A change of one channel's bytes changes the sum by as much.             *)
LEMMA SumMoves ==
  ASSUME NEW t, NEW u, Counted(t), Counted(u), NEW c \in 0 .. Broadcasters, NEW more \in Int, c = 0 => more = 0,
         \A d \in Broadcaster : u[d].bytes = IF d = c THEN t[d].bytes + more ELSE t[d].bytes
  PROVE  Sum(u) = Sum(t) + more
<1> USE BudgetAssumption DEF Broadcaster, Counted
<1>1. PICK f : Sums(t, f) /\ Sum(t) = f[Broadcasters]
  BY SumIs
<1>2. PICK g : Sums(u, g) /\ Sum(u) = g[Broadcasters]
  BY SumIs
<1> DEFINE Off == {i \in 0 .. Broadcasters : g[i] # f[i] + (IF i < c THEN 0 ELSE more)}
<1>3. Off = {}
  <2> SUFFICES ASSUME Off # {} PROVE FALSE
    OBVIOUS
  <2>1. PICK i \in Off : \A j \in Off : i <= j
    <3>1. Off \in SUBSET Nat
      OBVIOUS
    <3> HIDE DEF Off
    <3> QED
      BY <3>1, HasLeast
  <2>2. i # 0
    BY <1>1, <1>2 DEF Sums
  <2>3. i \in Broadcaster /\ i - 1 \in 0 .. Broadcasters /\ i - 1 \notin Off
    BY <2>1, <2>2
  <2>4. /\ g[i - 1] = f[i - 1] + (IF i - 1 < c THEN 0 ELSE more)
        /\ g[i] = u[i].bytes + g[i - 1] /\ f[i] = t[i].bytes + f[i - 1]
        /\ g[i - 1] \in Nat /\ f[i - 1] \in Nat /\ t[i].bytes \in Nat
    BY <1>1, <1>2, <2>3 DEF Sums
  <2>5. g[i] = f[i] + (IF i < c THEN 0 ELSE more)
    <3>1. CASE i = c
      BY <2>3, <2>4, <3>1
    <3>2. CASE i # c
      BY <2>3, <2>4, <3>2
    <3> QED
      BY <3>1, <3>2
  <2> QED
    BY <2>5
<1>4. g[Broadcasters] = f[Broadcasters] + more
  BY <1>3
<1> QED
  BY <1>1, <1>2, <1>4

TakingType == [at : {"idle", "counting", "waiting", "capturing"}, bytes : Nat, total : Nat, expected : Nat,
               crowded : BOOLEAN]

BudgetTypeOK ==
  /\ kept \in Nat /\ trash \in Seq(BOOLEAN) /\ foreign \in Int
  /\ taking \in [Broadcaster -> TakingType]
  /\ releasing \in [due : Nat, held : Nat]

Library == TotalBytes + InFlight

(* What a capture has yet to take of what was expected leaves the margin.  *)
Roomy(c) ==
  /\ Fits(taking[c].expected - taking[c].bytes, MaxSize - Library, MaxSize)
  /\ Fits(taking[c].expected - taking[c].bytes, (Volume - foreign - Library) - MinFree, MinFree)

(* A cycle that nothing crowds counted no less than there is, and has room *)
(* for what it was let in for; a pass holds purges that are there.         *)
CycleInv(c) ==
  /\ taking[c].at # "capturing" => taking[c].bytes = 0
  /\ ~taking[c].crowded /\ taking[c].at = "counting" => TotalBytes <= taking[c].total
  /\ ~taking[c].crowded /\ taking[c].at \in {"waiting", "capturing"} => Roomy(c)

BudgetInv ==
  /\ BudgetTypeOK
  /\ releasing.due + releasing.held <= Len(trash)
  /\ \A c \in Broadcaster : CycleInv(c)

LEMMA MarginIsInt == /\ MaxSize > 0 => CriticalMargin(MaxSize) \in Int
                     /\ MinFree > 0 => CriticalMargin(MinFree) \in Int
<1>1. \A limit \in Nat : limit > 0 => CriticalMargin(limit) \in Int
  <2> SUFFICES ASSUME NEW limit \in Nat, limit > 0 PROVE CriticalMargin(limit) \in Int
    OBVIOUS
  <2>1. (limit * 2) \div 100 \in Int /\ (limit * 1) \div 2 \in Int
    OBVIOUS
  <2> QED
    BY <2>1 DEF CriticalMargin, CapMargin, AtLeast, AtMost
<1> QED
  BY <1>1, BudgetAssumption

LEMMA BytesCounted == ASSUME BudgetTypeOK PROVE Counted(taking) /\ InFlight = Sum(taking) /\ InFlight \in Nat
                                                /\ TotalBytes \in Nat /\ Library \in Nat
<1>1. Counted(taking)
  BY DEF BudgetTypeOK, Counted, TakingType
<1>2. InFlight = Sum(taking)
  BY DEF InFlight, Sum
<1>3. PICK f : Sums(taking, f) /\ Sum(taking) = f[Broadcasters]
  BY <1>1, SumIs
<1>4. InFlight \in Nat
  BY <1>2, <1>3, BudgetAssumption DEF Sums
<1>5. TotalBytes \in Nat
  BY DEF BudgetTypeOK, TotalBytes
<1> QED
  BY <1>1, <1>2, <1>4, <1>5 DEF Library

LEMMA CriticalIs ==
  ASSUME BudgetTypeOK, Level = "critical"
  PROVE  \/ MaxSize > 0 /\ MaxSize - Library <= CriticalMargin(MaxSize)
         \/ MinFree > 0 /\ (Volume - foreign - Library) - MinFree <= CriticalMargin(MinFree)
<1> DEFINE free == Volume - foreign - Library
           byCap == IF MaxSize > 0 THEN LevelFor(MaxSize - Library, MaxSize) ELSE "ok"
           byFree == IF MinFree > 0 THEN LevelFor(free - MinFree, MinFree) ELSE "ok"
<1>1. FreeBytes = free
  BY BytesCounted, BudgetAssumption DEF FreeBytes, Library, BudgetTypeOK
<1>2. Level = Worse(byCap, byFree)
  BY <1>1 DEF Level, WatchLevel, Library
<1>3. byCap \in {"ok", "low", "critical"} /\ byFree \in {"ok", "low", "critical"}
  BY DEF LevelFor
<1>4. byCap = "critical" \/ byFree = "critical"
  <2> HIDE DEF byCap, byFree
  <2> QED
    BY <1>2, <1>3 DEF Worse
<1>5. byCap = "critical" => MaxSize > 0 /\ MaxSize - Library <= CriticalMargin(MaxSize)
  BY DEF LevelFor
<1>6. byFree = "critical" => MinFree > 0 /\ free - MinFree <= CriticalMargin(MinFree)
  BY DEF LevelFor
<1> QED
  BY <1>4, <1>5, <1>6

LEMMA BudgetInvFits == BudgetInv => AdmittedFits
<1> SUFFICES ASSUME BudgetInv, NEW c \in Broadcaster, taking[c].at = "capturing", ~taking[c].crowded,
                    taking[c].bytes < taking[c].expected, Level = "critical"
             PROVE  FALSE
  BY DEF AdmittedFits
<1>1. BudgetTypeOK /\ Roomy(c)
  BY DEF BudgetInv, CycleInv
<1>2. taking[c].bytes \in Nat /\ taking[c].expected \in Nat /\ foreign \in Int
  BY <1>1 DEF BudgetTypeOK, TakingType
<1>3. Library \in Nat
  BY <1>1, BytesCounted
<1>4. taking[c].expected - taking[c].bytes >= 1 /\ taking[c].expected - taking[c].bytes \in Int
  BY <1>2
<1>5. /\ MaxSize > 0 => CriticalMargin(MaxSize) < MaxSize - Library
      /\ MinFree > 0 => CriticalMargin(MinFree) < (Volume - foreign - Library) - MinFree
  BY <1>1, <1>2, <1>3, <1>4, MarginIsInt, BudgetAssumption DEF Roomy, Fits
<1> QED
  BY <1>1, <1>2, <1>3, <1>5, CriticalIs, MarginIsInt, BudgetAssumption

(* Room stays where a channel takes all the bytes that are taken.          *)
LEMMA RoomStays ==
  ASSUME BudgetTypeOK, BudgetTypeOK', NEW c \in Broadcaster, Roomy(c),
         taking'[c].expected = taking[c].expected,
         Library' - taking'[c].bytes <= Library - taking[c].bytes,
         foreign' + Library' - taking'[c].bytes <= foreign + Library - taking[c].bytes,
         Library \in Nat, Library' \in Nat
  PROVE  Roomy(c)'
<1>1. /\ taking[c].bytes \in Nat /\ taking[c].expected \in Nat /\ foreign \in Int
      /\ taking'[c].bytes \in Nat /\ foreign' \in Int
  BY DEF BudgetTypeOK, TakingType
<1> QED
  BY <1>1, MarginIsInt, BudgetAssumption DEF Roomy, Fits

(* A channel that does nothing, while others do.                           *)
LEMMA BystanderStays ==
  ASSUME BudgetInv, BudgetTypeOK', NEW d \in Broadcaster, Library \in Nat, Library' \in Nat,
         taking'[d].at = taking[d].at, taking'[d].bytes = taking[d].bytes,
         ~taking'[d].crowded => /\ taking'[d] = taking[d] /\ Library' <= Library
                                /\ foreign' + Library' <= foreign + Library
                                /\ TotalBytes' <= TotalBytes
  PROVE  CycleInv(d)'
<1>1. BudgetTypeOK /\ CycleInv(d)
  BY DEF BudgetInv
<1>2. /\ taking[d].bytes \in Nat /\ taking[d].total \in Nat /\ foreign \in Int /\ foreign' \in Int
      /\ TotalBytes \in Nat /\ TotalBytes' \in Nat
  BY SMTT(20), <1>1 DEF BudgetTypeOK, TakingType, TotalBytes
<1>3. ASSUME ~taking'[d].crowded, taking'[d].at \in {"waiting", "capturing"} PROVE Roomy(d)'
  <2>1. Roomy(d)
    BY <1>1, <1>3 DEF CycleInv
  <2>2. /\ Library' - taking'[d].bytes <= Library - taking[d].bytes
        /\ foreign' + Library' - taking'[d].bytes <= foreign + Library - taking[d].bytes
    <3>1. PICK old \in Int, new \in Int, was \in Int, is \in Int, n \in Int :
            old = Library /\ new = Library' /\ was = foreign /\ is = foreign' /\ n = taking[d].bytes
      BY <1>2
    <3>2. new <= old /\ is + new <= was + old /\ taking'[d].bytes = n
      BY <1>3, <3>1
    <3>3. new - n <= old - n /\ is + new - n <= was + old - n
      BY ONLY <3>2, old \in Int, new \in Int, was \in Int, is \in Int, n \in Int
    <3> QED
      BY ONLY <3>1, <3>2, <3>3
  <2> QED
    BY <1>1, <1>3, <2>1, <2>2, RoomStays
<1>4. ASSUME ~taking'[d].crowded, taking'[d].at = "counting" PROVE TotalBytes' <= taking'[d].total
  <2>1. TotalBytes <= taking[d].total /\ TotalBytes' <= TotalBytes /\ taking'[d].total = taking[d].total
    BY <1>1, <1>4 DEF CycleInv
  <2> QED
    BY ONLY <1>2, <2>1
<1>5. taking'[d].at # "capturing" => taking'[d].bytes = 0
  BY <1>1 DEF CycleInv
<1> QED
  BY <1>3, <1>4, <1>5 DEF CycleInv

(* What a step does to the usage, by what it does to the captures' bytes.  *)
LEMMA UsageMoves ==
  ASSUME BudgetTypeOK, BudgetTypeOK', NEW c \in 0 .. Broadcasters, NEW more \in Int, c = 0 => more = 0,
         \A d \in Broadcaster : taking'[d].bytes = IF d = c THEN taking[d].bytes + more ELSE taking[d].bytes
  PROVE  /\ Library \in Nat /\ Library' \in Nat /\ TotalBytes \in Nat /\ TotalBytes' \in Nat
         /\ Library' = Library + (TotalBytes' - TotalBytes) + more
<1>1. Counted(taking) /\ InFlight = Sum(taking) /\ InFlight \in Nat /\ TotalBytes \in Nat /\ Library \in Nat
  BY BytesCounted
<1>2. TotalBytes' \in Nat
  BY DEF TotalBytes, BudgetTypeOK
<1>3. Counted(taking')
  BY DEF BudgetTypeOK, Counted, TakingType
<1>4. InFlight' = Sum(taking')
  BY DEF InFlight, Sum
<1>5. Sum(taking') = Sum(taking) + more
  BY <1>1, <1>3, SumMoves
<1>6. InFlight' \in Nat
  <2>1. PICK f : Sums(taking', f) /\ Sum(taking') = f[Broadcasters]
    BY <1>3, SumIs
  <2> QED
    BY <1>4, <2>1, BudgetAssumption DEF Sums
<1>7. Library' = TotalBytes' + InFlight' /\ Library = TotalBytes + InFlight /\ InFlight' = InFlight + more
  BY <1>1, <1>4, <1>5 DEF Library
<1>8. Library' \in Nat
  BY <1>2, <1>6, <1>7
<1>9. Library' = Library + (TotalBytes' - TotalBytes) + more
  BY ONLY <1>1, <1>2, <1>6, <1>7, more \in Int
<1> QED
  BY <1>1, <1>2, <1>8, <1>9

(* Whoever takes bytes nobody counted crowds the other channels.           *)
LEMMA CrowdIs ==
  ASSUME BudgetTypeOK, NEW c \in Broadcaster
  PROVE  /\ Crowd(c) \in [Broadcaster -> TakingType] /\ Crowd(c)[c] = taking[c]
         /\ \A d \in Broadcaster : d # c => /\ Crowd(c)[d].at = taking[d].at /\ Crowd(c)[d].bytes = taking[d].bytes
                                          /\ Crowd(c)[d].crowded
<1>1. ASSUME NEW d \in Broadcaster, NEW mark \in BOOLEAN
      PROVE  LET x == [taking[d] EXCEPT !.crowded = mark]
             IN  /\ x \in TakingType /\ x.at = taking[d].at /\ x.bytes = taking[d].bytes /\ x.crowded = mark
                 /\ mark = taking[d].crowded => x = taking[d]
  BY DEF BudgetTypeOK, TakingType
<1>2. ASSUME NEW d \in Broadcaster PROVE (taking[d].crowded \/ d # c) \in BOOLEAN
  OBVIOUS
<1>3. \A d \in Broadcaster : Crowd(c)[d] = [taking[d] EXCEPT !.crowded = taking[d].crowded \/ d # c]
  BY Zenon DEF Crowd
<1>4. Crowd(c)[c] = taking[c]
  <2> DEFINE mark == taking[c].crowded \/ c # c
  <2>1. mark \in BOOLEAN /\ mark = taking[c].crowded
    BY DEF BudgetTypeOK, TakingType
  <2>2. Crowd(c)[c] = [taking[c] EXCEPT !.crowded = mark]
    BY <1>3, Zenon
  <2> HIDE DEF mark
  <2> QED
    BY <1>1, <2>1, <2>2
<1>5. ASSUME NEW d \in Broadcaster, d # c
      PROVE  /\ Crowd(c)[d] \in TakingType
             /\ Crowd(c)[d].at = taking[d].at /\ Crowd(c)[d].bytes = taking[d].bytes /\ Crowd(c)[d].crowded
  <2> DEFINE mark == taking[d].crowded \/ d # c
  <2>1. mark \in BOOLEAN /\ mark
    BY <1>5
  <2>2. Crowd(c)[d] = [taking[d] EXCEPT !.crowded = mark]
    BY <1>3, Zenon
  <2> HIDE DEF mark
  <2>3. [taking[d] EXCEPT !.crowded = mark].crowded = mark
    BY <1>1, <2>1
  <2>4. Crowd(c)[d].crowded
    BY <2>1, <2>2, <2>3, Zenon
  <2>5. /\ [taking[d] EXCEPT !.crowded = mark] \in TakingType
        /\ [taking[d] EXCEPT !.crowded = mark].at = taking[d].at
        /\ [taking[d] EXCEPT !.crowded = mark].bytes = taking[d].bytes
    BY <1>1, <2>1
  <2> QED
    BY <2>2, <2>4, <2>5, Zenon
<1>6. taking[c] \in TakingType
  BY DEF BudgetTypeOK
<1>7. Crowd(c) = [d \in Broadcaster |-> Crowd(c)[d]]
  <2>1. DOMAIN Crowd(c) = Broadcaster
    BY Zenon DEF Crowd
  <2> QED
    BY <2>1, Zenon DEF Crowd
<1>8. Crowd(c) \in [Broadcaster -> TakingType]
  <2>1. \A d \in Broadcaster : Crowd(c)[d] \in TakingType
    BY <1>4, <1>5, <1>6
  <2> QED
    BY <1>7, <2>1, Zenon
<1> QED
  BY <1>4, <1>5, <1>8

(* A step in which channel c takes bytes, or gives its own to a row.       *)
LEMMA CrowdingSteps ==
  ASSUME BudgetInv, NEW c \in Broadcaster, NEW x \in TakingType, kept' \in Nat, UNCHANGED <<trash, foreign, releasing>>,
         taking' = [Crowd(c) EXCEPT ![c] = x],
         (/\ BudgetTypeOK' /\ Library \in Nat /\ Library' \in Nat /\ taking'[c] = x
          /\ Library' = Library + (kept' - kept) + (x.bytes - taking[c].bytes))
          => CycleInv(c)'
  PROVE  BudgetInv'
<1>t. /\ BudgetTypeOK /\ taking \in [Broadcaster -> TakingType] /\ kept \in Nat /\ c \in 0 .. Broadcasters /\ c # 0
      /\ releasing.due + releasing.held <= Len(trash) /\ taking[c].bytes \in Nat /\ x.bytes \in Nat
  <2>1. /\ BudgetTypeOK /\ releasing.due + releasing.held <= Len(trash)
        /\ taking \in [Broadcaster -> TakingType] /\ kept \in Nat
    BY DEF BudgetInv, BudgetTypeOK
  <2>2. taking[c].bytes \in Nat /\ x.bytes \in Nat
    BY <2>1 DEF TakingType
  <2>3. c \in 0 .. Broadcasters /\ c # 0
    BY BudgetAssumption DEF Broadcaster
  <2> QED
    BY <2>1, <2>2, <2>3
<1>c. /\ Crowd(c) \in [Broadcaster -> TakingType]
      /\ \A d \in Broadcaster : d # c => /\ Crowd(c)[d].at = taking[d].at /\ Crowd(c)[d].bytes = taking[d].bytes
                                       /\ Crowd(c)[d].crowded
  BY <1>t, CrowdIs
<1>1. /\ taking' \in [Broadcaster -> TakingType] /\ taking'[c] = x
      /\ \A d \in Broadcaster : d # c => taking'[d] = Crowd(c)[d]
  BY <1>c
<1>2. BudgetTypeOK'
  BY <1>t, <1>1 DEF BudgetTypeOK
<1> DEFINE more == x.bytes - taking[c].bytes
<1>3. more \in Int /\ taking[c].bytes + more = x.bytes
  BY <1>t
<1>4. \A d \in Broadcaster : taking'[d].bytes = IF d = c THEN taking[d].bytes + more ELSE taking[d].bytes
  <2> HIDE DEF more
  <2> QED
    BY <1>c, <1>1, <1>3
<1>5. /\ Library \in Nat /\ Library' \in Nat /\ TotalBytes \in Nat /\ TotalBytes' \in Nat
      /\ Library' = Library + (TotalBytes' - TotalBytes) + more
  <2> HIDE DEF more
  <2> QED
    BY <1>t, <1>2, <1>3, <1>4, UsageMoves
<1>6. TotalBytes' - TotalBytes = kept' - kept
  BY <1>t DEF TotalBytes, BudgetTypeOK
<1>7. CycleInv(c)'
  BY <1>1, <1>2, <1>5, <1>6
<1>8. ASSUME NEW d \in Broadcaster, d # c PROVE CycleInv(d)'
  <2>1. taking'[d].at = taking[d].at /\ taking'[d].bytes = taking[d].bytes /\ taking'[d].crowded
    BY <1>c, <1>1, <1>8
  <2> QED
    BY <1>2, <1>5, <2>1, BystanderStays
<1> QED
  BY <1>t, <1>2, <1>7, <1>8 DEF BudgetInv

(* A step of the captures of one channel.                                  *)
LEMMA CycleSteps ==
  ASSUME BudgetInv, NEW c \in Broadcaster,
         ReadTotal(c) \/ Decide(c) \/ Begin(c) \/ Write(c) \/ Stop(c) \/ GoOffAir(c)
  PROVE  BudgetInv'
<1>t. /\ BudgetTypeOK /\ CycleInv(c) /\ taking \in [Broadcaster -> TakingType] /\ kept \in Nat
      /\ releasing.due + releasing.held <= Len(trash) /\ TotalBytes \in Nat /\ c \in 0 .. Broadcasters
  BY BytesCounted, BudgetAssumption DEF BudgetInv, BudgetTypeOK, Broadcaster
<1>f. /\ taking[c] \in TakingType /\ taking[c].bytes \in Nat /\ taking[c].total \in Nat /\ taking[c].expected \in Nat
      /\ taking[c].crowded \in BOOLEAN /\ Idle \in TakingType
  BY <1>t DEF TakingType, Idle
<1> DEFINE at(x) == [taking EXCEPT ![c] = x]
<1>1. ASSUME NEW x \in TakingType, taking' = at(x), x.bytes = taking[c].bytes,
             UNCHANGED <<kept, trash, foreign, level, releasing>>,
             Library' = Library /\ TotalBytes' = TotalBytes /\ BudgetTypeOK' => CycleInv(c)'
      PROVE  BudgetInv'
  <2>1. BudgetTypeOK'
    BY <1>t, <1>1 DEF BudgetTypeOK
  <2>2. TotalBytes' = TotalBytes
    BY <1>1 DEF TotalBytes
  <2>3. taking'[c] = x /\ \A d \in Broadcaster : d # c => taking'[d] = taking[d]
    BY <1>t, <1>1
  <2>4. \A d \in Broadcaster : taking'[d].bytes = IF d = c THEN taking[d].bytes + 0 ELSE taking[d].bytes
    BY <1>t, <1>f, <1>1, <2>3
  <2>5. Library \in Nat /\ Library' \in Nat /\ Library' = Library + (TotalBytes' - TotalBytes) + 0
    BY SMTT(20), <1>t, <2>1, <2>4, UsageMoves
  <2>6. Library' = Library
    BY <1>t, <2>2, <2>5
  <2>7. foreign' + Library' <= foreign + Library
    BY <1>t, <1>1, <2>5, <2>6 DEF BudgetTypeOK
  <2>8. \A d \in Broadcaster : d # c => CycleInv(d)'
    <3> SUFFICES ASSUME NEW d \in Broadcaster, d # c PROVE CycleInv(d)'
      OBVIOUS
    <3>1. taking'[d] = taking[d] /\ Library' <= Library /\ TotalBytes' <= TotalBytes
      BY <1>t, <2>2, <2>3, <2>5, <2>6
    <3> QED
      BY <2>1, <2>5, <2>7, <3>1, BystanderStays
  <2> QED
    BY <1>t, <1>1, <2>1, <2>2, <2>6, <2>8 DEF BudgetInv
<1>2. CASE ReadTotal(c)
  <2> DEFINE x == [Idle EXCEPT !.at = "counting", !.total = TotalBytes]
  <2>1. taking[c].at = "idle" /\ taking' = at(x) /\ UNCHANGED <<kept, trash, foreign, level, releasing>>
    BY <1>2 DEF ReadTotal
  <2>2. x \in TakingType /\ x.bytes = 0 /\ x.at = "counting" /\ x.total = TotalBytes
    BY <1>t DEF TakingType, Idle
  <2>3. taking[c].bytes = 0
    BY <1>t, <2>1 DEF CycleInv
  <2>4. taking'[c] = x
    BY <1>t, <2>1
  <2> HIDE DEF x
  <2>5. TotalBytes' = TotalBytes => CycleInv(c)'
    BY <1>t, <2>2, <2>4 DEF CycleInv
  <2> QED
    BY <1>1, <2>1, <2>2, <2>3, <2>5
<1>3. CASE Decide(c)
  <2>1. taking[c].at = "counting" /\ UNCHANGED <<kept, trash, foreign, level, releasing>>
    BY <1>3 DEF Decide
  <2>2. PICK estimate \in Expected :
          taking' = at(IF Admit(taking[c].total + InFlight, FreeBytes, estimate)
                       THEN [taking[c] EXCEPT !.at = "waiting", !.expected = estimate] ELSE Idle)
    BY <1>3 DEF Decide
  <2>3. taking[c].bytes = 0 /\ estimate \in Nat
    BY <1>t, <2>1, BudgetAssumption DEF CycleInv
  <2>4. CASE taking' = at(Idle)
    <3>1. taking'[c] = Idle
      BY <1>t, <2>4
    <3>2. CycleInv(c)'
      BY <3>1 DEF CycleInv, Idle
    <3> QED
      BY <1>1, <1>f, <2>1, <2>3, <2>4, <3>2 DEF Idle
  <2> DEFINE x == [taking[c] EXCEPT !.at = "waiting", !.expected = estimate]
  <2>5. CASE Admit(taking[c].total + InFlight, FreeBytes, estimate) /\ taking' = at(x)
    <3>1. x \in TakingType /\ x.bytes = 0 /\ x.at = "waiting" /\ x.expected = estimate /\ x.crowded = taking[c].crowded
      BY <1>f, <2>3 DEF TakingType
    <3>2. taking'[c] = x
      BY <1>t, <2>5
    <3> HIDE DEF x
    <3>3. ASSUME ~taking[c].crowded, Library' = Library, BudgetTypeOK' PROVE Roomy(c)'
      <4>1. TotalBytes <= taking[c].total
        BY <1>t, <2>1, <3>3 DEF CycleInv
      <4>2. InFlight \in Nat /\ Library \in Nat /\ foreign \in Int
        BY <1>t, BytesCounted DEF BudgetTypeOK
      <4>3. /\ Fits(estimate, MaxSize - (taking[c].total + InFlight), MaxSize)
            /\ Fits(estimate, FreeBytes - MinFree, MinFree)
        BY <2>5 DEF Admit
      <4>4. FreeBytes = Volume - foreign - Library /\ Library <= taking[c].total + InFlight
        BY <1>t, <1>f, <4>1, <4>2, BudgetAssumption DEF FreeBytes, Library
      <4>5. Fits(estimate, MaxSize - Library, MaxSize)
        <5>1. MaxSize - (taking[c].total + InFlight) <= MaxSize - Library
          BY <1>f, <4>2, <4>4, BudgetAssumption
        <5>2. MaxSize - (taking[c].total + InFlight) \in Int /\ MaxSize - Library \in Int
          BY <1>f, <4>2, BudgetAssumption
        <5> QED
          BY <2>3, <4>3, <5>1, <5>2, MarginIsInt DEF Fits
      <4>6. /\ taking'[c].expected - taking'[c].bytes = estimate
            /\ Library' = Library /\ foreign' = foreign
        BY <2>1, <2>3, <3>1, <3>2, <3>3
      <4> QED
        BY <4>3, <4>4, <4>5, <4>6 DEF Roomy
    <3>4. Library' = Library /\ BudgetTypeOK' => CycleInv(c)'
      BY <3>1, <3>2, <3>3 DEF CycleInv
    <3> QED
      BY <1>1, <2>1, <2>3, <2>5, <3>1, <3>4
  <2> QED
    BY <2>2, <2>4, <2>5
<1>4. CASE Begin(c)
  <2> DEFINE x == [taking[c] EXCEPT !.at = "capturing"]
  <2>1. taking[c].at = "waiting" /\ taking' = at(x) /\ UNCHANGED <<kept, trash, foreign, level, releasing>>
    BY <1>4, <1>t DEF Begin
  <2>2. /\ x \in TakingType /\ x.bytes = taking[c].bytes /\ x.at = "capturing" /\ x.expected = taking[c].expected
        /\ x.crowded = taking[c].crowded
    BY <1>f DEF TakingType
  <2>3. taking'[c] = x
    BY <1>t, <2>1
  <2> HIDE DEF x
  <2>4. Library' = Library => CycleInv(c)'
    BY <1>t, <2>1, <2>2, <2>3 DEF CycleInv, Roomy
  <2> QED
    BY <1>1, <2>1, <2>2, <2>4
<1>5. CASE Write(c)
  <2> DEFINE x == [taking[c] EXCEPT !.bytes = taking[c].bytes + 1]
  <2>1. taking[c].at = "capturing" /\ UNCHANGED <<kept, trash, foreign, level, releasing>>
    BY <1>5 DEF Write
  <2>2. taking' = [Crowd(c) EXCEPT ![c] = x]
    <3>1. taking' = [Crowd(c) EXCEPT ![c] = [Crowd(c)[c] EXCEPT !.bytes = Crowd(c)[c].bytes + 1]]
      BY <1>5 DEF Write
    <3> QED
      BY <1>t, <3>1, CrowdIs
  <2>3. /\ x \in TakingType /\ x.bytes = taking[c].bytes + 1 /\ x.at = "capturing"
        /\ x.expected = taking[c].expected /\ x.crowded = taking[c].crowded
    BY <1>f, <2>1 DEF TakingType
  <2> HIDE DEF x
  <2>4. ASSUME BudgetTypeOK', Library \in Nat, Library' \in Nat, taking'[c] = x,
               Library' = Library + (kept' - kept) + (x.bytes - taking[c].bytes)
        PROVE  CycleInv(c)'
    <3>1. Library' = Library + 1
      BY ONLY <1>t, <1>f, <2>1, <2>3, <2>4
    <3>2. foreign \in Int
      BY <1>t DEF BudgetTypeOK
    <3>3. /\ Library' - taking'[c].bytes <= Library - taking[c].bytes
          /\ foreign' + Library' - taking'[c].bytes <= foreign + Library - taking[c].bytes
      BY <1>f, <2>1, <2>3, <2>4, <3>1, <3>2
    <3>4. ~x.crowded => Roomy(c)
      BY <1>t, <2>1, <2>3 DEF CycleInv
    <3>5. ~x.crowded => Roomy(c)'
      BY <1>t, <2>3, <2>4, <3>3, <3>4, RoomStays
    <3> QED
      BY <2>3, <2>4, <3>5 DEF CycleInv
  <2>5. kept' \in Nat /\ UNCHANGED <<trash, foreign, releasing>>
    BY <1>t, <2>1
  <2>6. (/\ BudgetTypeOK' /\ Library \in Nat /\ Library' \in Nat /\ taking'[c] = x
         /\ Library' = Library + (kept' - kept) + (x.bytes - taking[c].bytes))
         => CycleInv(c)'
    BY <2>4
  <2> QED
    BY <2>2, <2>3, <2>5, <2>6, CrowdingSteps
<1>6. CASE Stop(c) \/ GoOffAir(c)
  <2>1. FinishRecording(c)
    BY <1>6 DEF Stop, GoOffAir
  <2>2. kept' = kept + taking[c].bytes /\ taking' = [Crowd(c) EXCEPT ![c] = Idle] /\ UNCHANGED <<trash, foreign, releasing>>
    BY <2>1 DEF FinishRecording
  <2>3. kept' \in Nat
    BY <1>t, <1>f, <2>2
  <2>4. taking'[c] = Idle => CycleInv(c)'
    BY DEF CycleInv, Idle
  <2>5. (/\ BudgetTypeOK' /\ Library \in Nat /\ Library' \in Nat /\ taking'[c] = Idle
         /\ Library' = Library + (kept' - kept) + (Idle.bytes - taking[c].bytes))
         => CycleInv(c)'
    BY <2>4
  <2>6. Idle \in TakingType
    BY <1>f
  <2> QED
    BY <2>2, <2>3, <2>5, <2>6, CrowdingSteps
<1> QED
  BY <1>2, <1>3, <1>4, <1>5, <1>6

(* A step that takes no bytes a capture counts on.                         *)
LEMMA UncrowdingSteps ==
  ASSUME BudgetInv, BudgetTypeOK', releasing'.due + releasing'.held <= Len(trash'),
         TotalBytes' <= TotalBytes, foreign' <= foreign, UNCHANGED taking
  PROVE  BudgetInv'
<1>t. /\ BudgetTypeOK /\ foreign \in Int /\ foreign' \in Int /\ 0 \in 0 .. Broadcasters
      /\ \A d \in Broadcaster : taking[d].bytes \in Nat /\ d # 0
  <2>1. BudgetTypeOK /\ taking \in [Broadcaster -> TakingType] /\ foreign \in Int /\ foreign' \in Int
    BY DEF BudgetInv, BudgetTypeOK
  <2>2. 0 \in 0 .. Broadcasters /\ \A d \in Broadcaster : d # 0
    BY BudgetAssumption DEF Broadcaster
  <2> QED
    BY <2>1, <2>2 DEF TakingType
<1>0. TotalBytes' <= TotalBytes /\ foreign' <= foreign
  OBVIOUS
<1>1. \A d \in Broadcaster : taking'[d].bytes = IF d = 0 THEN taking[d].bytes + 0 ELSE taking[d].bytes
  BY <1>t
<1>2. /\ Library \in Nat /\ Library' \in Nat /\ TotalBytes \in Nat /\ TotalBytes' \in Nat
      /\ Library' = Library + (TotalBytes' - TotalBytes) + 0
  BY <1>t, <1>1, UsageMoves
<1>3. Library' <= Library
  <2>1. \A a, b, x, y \in Nat : x <= y /\ a = b + (x - y) + 0 => a <= b
    OBVIOUS
  <2> QED
    BY ONLY <1>0, <1>2, <2>1
<1>4. foreign' + Library' <= foreign + Library
  BY ONLY <1>0, <1>t, <1>2, <1>3
<1>5. ASSUME NEW d \in Broadcaster PROVE CycleInv(d)'
  BY <1>2, <1>3, <1>4, BystanderStays
<1> QED
  BY <1>5 DEF BudgetInv

LEMMA ExpiredFits == ASSUME trash \in Seq(BOOLEAN) PROVE Expired \in Nat /\ Expired <= Len(trash)
<1> DEFINE Gone == {i \in DOMAIN trash : trash[i]}
<1>1. Len(trash) \in Nat /\ DOMAIN trash = 1 .. Len(trash)
  OBVIOUS
<1>2. IsFiniteSet(1 .. Len(trash)) /\ Cardinality(1 .. Len(trash)) = Len(trash)
  <2>1. Cardinality(1 .. Len(trash)) = IF 1 <= Len(trash) THEN Len(trash) - 1 + 1 ELSE 0
    BY <1>1, FS_Interval
  <2> QED
    BY SMTT(20), <1>1, <2>1, FS_Interval
<1>3. Gone \subseteq 1 .. Len(trash)
  BY <1>1
<1>4. IsFiniteSet(Gone) /\ Cardinality(Gone) <= Len(trash)
  <2> HIDE DEF Gone
  <2> QED
    BY <1>2, <1>3, FS_Subset
<1>5. Cardinality(Gone) \in Nat
  <2> HIDE DEF Gone
  <2> QED
    BY <1>4, FS_CardinalityType
<1> QED
  BY <1>4, <1>5 DEF Expired

LEMMA WithoutIs == ASSUME NEW s \in Seq(BOOLEAN), NEW i \in 1 .. Len(s)
                   PROVE  Without(s, i) \in Seq(BOOLEAN) /\ Len(Without(s, i)) = Len(s) - 1
<1>1. SubSeq(s, 1, i - 1) \in Seq(BOOLEAN) /\ Len(SubSeq(s, 1, i - 1)) = i - 1
  OBVIOUS
<1>2. SubSeq(s, i + 1, Len(s)) \in Seq(BOOLEAN) /\ Len(SubSeq(s, i + 1, Len(s))) = Len(s) - i
  OBVIOUS
<1>3. \A p, q \in Seq(BOOLEAN) : p \o q \in Seq(BOOLEAN) /\ Len(p \o q) = Len(p) + Len(q)
  OBVIOUS
<1>4. Len(s) \in Nat /\ i \in Nat
  OBVIOUS
<1> DEFINE front == SubSeq(s, 1, i - 1)
           back == SubSeq(s, i + 1, Len(s))
<1>5. Without(s, i) = front \o back
  BY DEF Without
<1> HIDE DEF front, back
<1>6. front \in Seq(BOOLEAN) /\ back \in Seq(BOOLEAN) /\ Len(front) = i - 1 /\ Len(back) = Len(s) - i
  BY <1>1, <1>2 DEF front, back
<1>7. Without(s, i) \in Seq(BOOLEAN) /\ Len(Without(s, i)) = Len(front) + Len(back)
  BY <1>3, <1>5, <1>6
<1> QED
  BY <1>4, <1>6, <1>7

(* A step of the loop beside the captures, the operator or the clock.      *)
LEMMA SpaceSteps ==
  ASSUME BudgetInv, \/ CheckSpace \/ Release \/ Busy \/ Purge \/ Expire \/ OtherProgram
                    \/ \E i \in DOMAIN trash : Undo(i)
  PROVE  BudgetInv'
<1>t. /\ BudgetTypeOK /\ kept \in Nat /\ trash \in Seq(BOOLEAN) /\ foreign \in Int
      /\ releasing \in [due : Nat, held : Nat] /\ releasing.due \in Nat /\ releasing.held \in Nat
      /\ releasing.due + releasing.held <= Len(trash) /\ Len(trash) \in Nat
      /\ TotalBytes = kept + Len(trash)
  BY DEF BudgetInv, BudgetTypeOK, TotalBytes
<1>n. /\ NoPass \in [due : Nat, held : Nat] /\ NoPass.due = 0 /\ NoPass.held = 0
      /\ \A n \in Nat : LET x == [NoPass EXCEPT !.due = n]
                        IN  x \in [due : Nat, held : Nat] /\ x.due = n /\ x.held = 0
  BY DEF NoPass
<1>u. TotalBytes' = kept' + Len(trash')
  BY DEF TotalBytes
<1>1. CASE CheckSpace
  <2>1. Due \in Nat /\ Due <= Len(trash)
    BY <1>t, ExpiredFits DEF Due
  <2>2. releasing' \in [due : Nat, held : Nat] /\ releasing'.due <= Len(trash) /\ releasing'.held = 0
    BY <1>1, <1>t, <1>n, <2>1 DEF CheckSpace
  <2>3. UNCHANGED <<kept, trash, taking, foreign>>
    BY <1>1 DEF CheckSpace
  <2>4. BudgetTypeOK'
    BY <1>t, <2>2, <2>3 DEF BudgetTypeOK
  <2> QED
    BY <1>t, <1>u, <2>2, <2>3, <2>4, UncrowdingSteps
<1>2. CASE Release
  <2>1. /\ releasing.due > 0 /\ trash' = Without(trash, releasing.held + 1)
        /\ UNCHANGED <<kept, taking, foreign>>
        /\ releasing' = NoPass \/ releasing' = [releasing EXCEPT !.due = @ - 1]
    BY <1>2 DEF Release
  <2>2. releasing.held + 1 \in 1 .. Len(trash)
    BY <1>t, <2>1
  <2>3. trash' \in Seq(BOOLEAN) /\ Len(trash') = Len(trash) - 1
    BY <1>t, <2>1, <2>2, WithoutIs
  <2>4. releasing' \in [due : Nat, held : Nat] /\ releasing'.due + releasing'.held <= Len(trash')
    <3>1. CASE releasing' = NoPass
      BY <1>t, <1>n, <2>2, <2>3, <3>1
    <3>2. CASE releasing' = [releasing EXCEPT !.due = @ - 1]
      <4>1. releasing'.held = releasing.held /\ releasing'.due = releasing.due - 1
        BY <1>t, <3>2
      <4>2. releasing' \in [due : Nat, held : Nat]
        BY <1>t, <2>1, <3>2, <4>1
      <4> QED
        BY <1>t, <2>1, <2>3, <4>1, <4>2
    <3> QED
      BY <2>1, <3>1, <3>2
  <2>5. BudgetTypeOK'
    BY <1>t, <2>1, <2>3, <2>4 DEF BudgetTypeOK
  <2>6. TotalBytes' <= TotalBytes
    BY <1>t, <1>u, <2>1, <2>3
  <2> QED
    BY <1>t, <2>1, <2>4, <2>5, <2>6, UncrowdingSteps
<1>3. CASE Busy
  <2>1. releasing.due > 0 /\ UNCHANGED <<kept, trash, taking, foreign>>
    BY <1>3 DEF Busy
  <2>2. releasing' \in [due : Nat, held : Nat] /\ releasing'.due + releasing'.held <= Len(trash)
    <3>1. \/ releasing' = NoPass
          \/ releasing' = [due |-> releasing.due - 1, held |-> releasing.held + 1]
      BY <1>3 DEF Busy
    <3> QED
      BY <1>t, <1>n, <2>1, <3>1
  <2>3. BudgetTypeOK'
    BY <1>t, <2>1, <2>2 DEF BudgetTypeOK
  <2> QED
    BY <1>t, <1>u, <2>1, <2>2, <2>3, UncrowdingSteps
<1>4. CASE Purge
  <2>1. kept > 0 /\ kept' = kept - 1 /\ trash' = Append(trash, FALSE) /\ UNCHANGED <<taking, foreign, releasing>>
    BY <1>4 DEF Purge
  <2>2. trash' \in Seq(BOOLEAN) /\ Len(trash') = Len(trash) + 1
    BY <1>t, <2>1
  <2>3. BudgetTypeOK' /\ TotalBytes' <= TotalBytes
    BY <1>t, <1>u, <2>1, <2>2 DEF BudgetTypeOK
  <2> QED
    BY <1>t, <2>1, <2>2, <2>3, UncrowdingSteps
<1>5. CASE Expire
  <2>1. trash' = [trash EXCEPT ![Expired + 1] = TRUE] /\ UNCHANGED <<kept, taking, foreign, releasing>>
    BY <1>5 DEF Expire
  <2>2. trash' \in Seq(BOOLEAN) /\ Len(trash') = Len(trash)
    <3>1. ASSUME NEW k \in Nat, NEW mark \in BOOLEAN
          PROVE  [trash EXCEPT ![k] = mark] \in Seq(BOOLEAN) /\ Len([trash EXCEPT ![k] = mark]) = Len(trash)
      <4>1. trash \in [1 .. Len(trash) -> BOOLEAN]
        BY <1>t
      <4>2. [trash EXCEPT ![k] = mark] \in [1 .. Len(trash) -> BOOLEAN]
        BY <4>1
      <4>3. \A n \in Nat : \A f \in [1 .. n -> BOOLEAN] : f \in Seq(BOOLEAN) /\ Len(f) = n
        OBVIOUS
      <4> QED
        BY <1>t, <4>2, <4>3
    <3>2. Expired + 1 \in Nat
      BY <1>t, ExpiredFits
    <3> QED
      BY <2>1, <3>1, <3>2
  <2>3. BudgetTypeOK' /\ TotalBytes' <= TotalBytes
    BY <1>t, <1>u, <2>1, <2>2 DEF BudgetTypeOK
  <2> QED
    BY <1>t, <2>1, <2>2, <2>3, UncrowdingSteps
<1>6. CASE OtherProgram
  <2>1. CASE foreign' = foreign - 1 /\ UNCHANGED <<taking, kept, trash, level, releasing>>
    <3>1. BudgetTypeOK' /\ foreign' <= foreign
      BY <1>t, <2>1 DEF BudgetTypeOK
    <3> QED
      BY <1>t, <1>u, <2>1, <3>1, UncrowdingSteps
  <2>2. CASE /\ foreign' = foreign + 1 /\ UNCHANGED <<kept, trash, level, releasing>>
             /\ taking' = [c \in Broadcaster |-> [taking[c] EXCEPT !.crowded = TRUE]]
    <3>1. ASSUME NEW mark \in BOOLEAN, NEW d \in Broadcaster
          PROVE  LET x == [taking[d] EXCEPT !.crowded = mark]
                 IN  x \in TakingType /\ x.at = taking[d].at /\ x.bytes = taking[d].bytes /\ x.crowded = mark
      BY <1>t DEF BudgetTypeOK, TakingType
    <3> DEFINE mark == TRUE
    <3>2. mark \in BOOLEAN /\ taking' = [c \in Broadcaster |-> [taking[c] EXCEPT !.crowded = mark]] /\ mark
      BY <2>2
    <3> HIDE DEF mark
    <3>3. /\ taking' \in [Broadcaster -> TakingType]
          /\ \A d \in Broadcaster : taking'[d].at = taking[d].at /\ taking'[d].bytes = taking[d].bytes
                                    /\ taking'[d].crowded = mark
      BY <3>1, <3>2
    <3>4. BudgetTypeOK'
      BY <1>t, <2>2, <3>3 DEF BudgetTypeOK
    <3>5. \A d \in Broadcaster : taking'[d].bytes = IF d = 0 THEN taking[d].bytes + 0 ELSE taking[d].bytes
      BY <3>3, BudgetAssumption DEF Broadcaster
    <3>6. Library \in Nat /\ Library' \in Nat
      <4>1. 0 \in 0 .. Broadcasters
        BY BudgetAssumption
      <4> QED
        BY <1>t, <3>4, <3>5, <4>1, UsageMoves
    <3>7. ASSUME NEW d \in Broadcaster PROVE CycleInv(d)'
      <4>1. taking'[d].at = taking[d].at /\ taking'[d].bytes = taking[d].bytes
        BY <3>3
      <4>2. taking'[d].crowded
        BY <3>2, <3>3, Zenon
      <4> QED
        BY <3>4, <3>6, <4>1, <4>2, BystanderStays
    <3>8. releasing'.due + releasing'.held <= Len(trash')
      BY <1>t, <2>2
    <3> QED
      BY <3>4, <3>7, <3>8 DEF BudgetInv
  <2> QED
    BY <1>6, <2>1, <2>2 DEF OtherProgram
<1>7. CASE \E i \in DOMAIN trash : Undo(i)
  <2>1. PICK i \in DOMAIN trash : Undo(i)
    BY <1>7
  <2>2. /\ i \in 1 .. Len(trash) /\ trash' = Without(trash, i) /\ kept' = kept + 1 /\ UNCHANGED <<taking, foreign>>
    BY <1>t, <2>1 DEF Undo
  <2>3. trash' \in Seq(BOOLEAN) /\ Len(trash') = Len(trash) - 1
    BY <1>t, <2>2, WithoutIs
  <2>4. \/ i <= releasing.held /\ releasing' = [releasing EXCEPT !.held = @ - 1]
        \/ i > releasing.held + releasing.due /\ releasing' = releasing
        \/ releasing' = NoPass
        \/ /\ i > releasing.held /\ i <= releasing.held + releasing.due
           /\ releasing' = [releasing EXCEPT !.due = @ - 1]
    BY <1>t, <2>1, <2>2 DEF Undo
  <2>5. releasing' \in [due : Nat, held : Nat] /\ releasing'.due + releasing'.held <= Len(trash')
    <3>1. ASSUME releasing.held > 0
          PROVE  LET x == [releasing EXCEPT !.held = @ - 1]
                 IN  x \in [due : Nat, held : Nat] /\ x.held = releasing.held - 1 /\ x.due = releasing.due
      BY <1>t, <3>1
    <3>2. ASSUME releasing.due > 0
          PROVE  LET x == [releasing EXCEPT !.due = @ - 1]
                 IN  x \in [due : Nat, held : Nat] /\ x.due = releasing.due - 1 /\ x.held = releasing.held
      BY <1>t, <3>2
    <3>3. CASE i <= releasing.held /\ releasing' = [releasing EXCEPT !.held = @ - 1]
      BY <1>t, <2>2, <2>3, <3>1, <3>3
    <3>4. CASE i > releasing.held + releasing.due /\ releasing' = releasing
      BY <1>t, <2>2, <2>3, <3>4
    <3>5. CASE releasing' = NoPass
      BY <1>t, <1>n, <2>2, <2>3, <3>5
    <3>6. CASE /\ i > releasing.held /\ i <= releasing.held + releasing.due
               /\ releasing' = [releasing EXCEPT !.due = @ - 1]
      BY <1>t, <2>2, <2>3, <3>2, <3>6
    <3> QED
      BY <2>4, <3>3, <3>4, <3>5, <3>6
  <2>6. BudgetTypeOK' /\ TotalBytes' <= TotalBytes
    BY SMTT(20), <1>t, <1>u, <2>2, <2>3, <2>5 DEF BudgetTypeOK
  <2> QED
    BY <1>t, <2>2, <2>5, <2>6, UncrowdingSteps
<1> QED
  BY <1>1, <1>2, <1>3, <1>4, <1>5, <1>6, <1>7

LEMMA BudgetInvInit == BudgetInit => BudgetInv
<1> SUFFICES ASSUME BudgetInit PROVE BudgetInv
  OBVIOUS
<1>1. /\ kept = 0 /\ trash = <<>> /\ foreign = 0 /\ taking = [c \in Broadcaster |-> Idle]
      /\ releasing = [due |-> 0, held |-> 0]
  BY DEF BudgetInit, NoPass
<1>2. Idle \in TakingType /\ Idle.at = "idle" /\ Idle.bytes = 0
  BY DEF Idle, TakingType
<1>3. BudgetTypeOK /\ releasing.due + releasing.held <= Len(trash)
  BY <1>1, <1>2 DEF BudgetTypeOK
<1>4. \A c \in Broadcaster : CycleInv(c)
  BY <1>1, <1>2 DEF CycleInv
<1> QED
  BY <1>3, <1>4 DEF BudgetInv

LEMMA BudgetStutters == ASSUME BudgetInv, UNCHANGED budget PROVE BudgetInv'
<1>1. UNCHANGED <<kept, trash, taking, foreign, level, releasing>>
  BY DEF budget
<1>2. UNCHANGED <<TotalBytes, InFlight, Library>>
  <2>1. UNCHANGED <<TotalBytes, InFlight>>
    BY <1>1 DEF TotalBytes, InFlight
  <2> QED
    BY <2>1 DEF Library
<1> QED
  BY <1>1, <1>2 DEF BudgetInv, BudgetTypeOK, CycleInv, Roomy

LEMMA BudgetInvStep == BudgetInv /\ [BudgetNext]_budget => BudgetInv'
<1> SUFFICES ASSUME BudgetInv, [BudgetNext]_budget PROVE BudgetInv'
  OBVIOUS
<1>1. CASE UNCHANGED budget
  BY <1>1, BudgetStutters
<1>2. CASE \E c \in Broadcaster :
             ReadTotal(c) \/ Decide(c) \/ Begin(c) \/ Write(c) \/ Stop(c) \/ GoOffAir(c)
  BY <1>2, CycleSteps
<1>3. CASE \/ CheckSpace \/ Release \/ Busy \/ Purge \/ Expire \/ OtherProgram
           \/ \E i \in DOMAIN trash : Undo(i)
  BY <1>3, SpaceSteps
<1> QED
  BY <1>1, <1>2, <1>3 DEF BudgetNext

(* space.go, Admit, for any number of channels, any limits and any trash:  *)
(* a capture nothing crowds, let in for what it was expected to take, does *)
(* not meet the watermark that ends it before it has taken as much.        *)
THEOREM AdmittedFit == BudgetSpec => []AdmittedFits
<1> QED
  BY BudgetInvInit, BudgetInvStep, BudgetInvFits, PTL DEF BudgetSpec

----------------------------------------------------------------------------
(* Sizes *)

Scales == {1, 20, 24, 168, 400, 576}

UnitOf(k) == IF k = "size" THEN SizeUnit ELSE DOMAIN Period

(* A text of one kind of setting, whole where it has no decimal.           *)
Text(t, k) == /\ t.tenths \in Nat /\ t.whole \in BOOLEAN /\ t.unit \in UnitOf(k)
              /\ t.whole => t.tenths % 10 = 0

LEMMA UnitScales == /\ \A u \in SizeUnit : Scale[u] \in Scales
                    /\ \A u \in DOMAIN Period : Period[u] \in Scales
  BY DEF SizeUnit, Scale, Period, Scales

LEMMA Multiples ==
  ASSUME NEW s \in Scales, NEW a \in Nat, NEW n \in Nat
  PROVE  /\ a \div s \in Nat /\ n * s \in Nat
         /\ n <= a \div s <=> n * s <= a
         /\ a % s = 0 => (a \div s) * s = a
         /\ n * s = 0 => n = 0
<1>1. CASE s = 1
  BY <1>1
<1>2. CASE s = 20
  BY <1>2
<1>3. CASE s = 24
  BY <1>3
<1>4. CASE s = 168
  BY <1>4
<1>5. CASE s = 400
  BY <1>5
<1>6. CASE s = 576
  BY <1>6
<1> QED
  BY <1>1, <1>2, <1>3, <1>4, <1>5, <1>6 DEF Scales

(* What is read of a text: a number of the width, or nothing.              *)
LEMMA ScaledIs ==
  ASSUME NEW t, t.tenths \in Nat, t.whole \in BOOLEAN, t.whole => t.tenths % 10 = 0, NEW s \in Scales
  PROVE  /\ ScaleValue(t, s) \in (0 .. MaxInt) \cup {Unreadable}
         /\ ScaleValue(t, s) = 0 => t.tenths = 0
<1> DEFINE units == t.tenths \div 10
           scaled == (t.tenths * s) \div 10
<1>1. units \in Nat /\ scaled \in Nat
  <2>1. \A n \in Nat : n \div 10 \in Nat
    OBVIOUS
  <2>2. t.tenths * s \in Nat
    BY Multiples
  <2> QED
    BY <2>1, <2>2
<1>2. CASE t.whole
  <2>1. ScaleValue(t, s) = IF units > MaxInt \div s THEN Unreadable ELSE units * s
    BY <1>2 DEF ScaleValue
  <2>2. units = 0 => t.tenths = 0
    BY <1>2
  <2> HIDE DEF units
  <2>3. /\ MaxInt \div s \in Nat /\ units * s \in Nat
        /\ units <= MaxInt \div s => units * s <= MaxInt
        /\ units * s = 0 => units = 0
    BY <1>1, Multiples, SizesAssumption
  <2>4. CASE units > MaxInt \div s
    BY <2>1, <2>4 DEF Unreadable
  <2>5. CASE ~(units > MaxInt \div s)
    <3>1. ScaleValue(t, s) = units * s /\ units <= MaxInt \div s
      BY <1>1, <2>1, <2>3, <2>5
    <3> QED
      BY <2>2, <2>3, <3>1, SizesAssumption
  <2> QED
    BY <2>4, <2>5
<1>3. CASE ~t.whole
  <2>1. ScaleValue(t, s) = IF scaled >= MaxInt \/ (t.tenths > 0 /\ scaled = 0) THEN Unreadable ELSE scaled
    BY <1>3 DEF ScaleValue
  <2> HIDE DEF scaled
  <2> QED
    BY <1>1, <2>1, SizesAssumption DEF Unreadable
<1> QED
  BY <1>2, <1>3

LEMMA ParsedIs ==
  ASSUME NEW t, Text(t, kind)
  PROVE  /\ Parsed(t) \in (0 .. MaxInt) \cup {Unreadable}
         /\ Parsed(t) = 0 => t.tenths = 0 \/ BelowUnit(t)
<1>1. CASE kind = "size"
  BY <1>1, ScaledIs, UnitScales DEF Parsed, ParseSize, Text, UnitOf
<1>2. CASE kind # "size" /\ t.unit \in {"d", "w"}
  BY <1>2, ScaledIs, UnitScales DEF Parsed, ParseDuration, Text, UnitOf
<1>3. CASE kind # "size" /\ t.unit \notin {"d", "w"}
  <2>1. t.unit = "ns" /\ t.tenths \in Nat
    BY <1>3 DEF Text, UnitOf, Period
  <2>2. Parsed(t) = IF t.tenths \div 10 > MaxInt THEN Unreadable ELSE t.tenths \div 10
    BY <1>3 DEF Parsed, ParseDuration, StdDuration
  <2>3. t.tenths \div 10 \in Nat /\ (t.tenths \div 10 = 0 => t.tenths < 10)
    BY <2>1
  <2> QED
    BY <2>1, <2>2, <2>3, SizesAssumption DEF Unreadable, BelowUnit
<1> QED
  BY <1>1, <1>2, <1>3

(* A whole number of a unit that divides a value is read as the value.     *)
LEMMA WholeReads ==
  ASSUME NEW v \in 0 .. MaxInt, NEW s \in Scales, v % s = 0, NEW u
  PROVE  ScaleValue(WholeText(v \div s, u), s) = v
<1> DEFINE n == v \div s
<1>1. n \in Nat /\ n * s = v
  BY Multiples, SizesAssumption
<1> HIDE DEF n
<1>2. n <= MaxInt \div s /\ MaxInt \div s \in Nat
  BY <1>1, Multiples, SizesAssumption
<1>3. (10 * n) \div 10 = n
  BY <1>1
<1>4. ~(n > MaxInt \div s)
  BY <1>1, <1>2
<1>5. WholeText(n, u).whole /\ WholeText(n, u).tenths = 10 * n
  BY DEF WholeText
<1> QED
  BY <1>1, <1>3, <1>4, <1>5 DEF ScaleValue, n

LEMMA WholeIsText ==
  ASSUME NEW n \in Nat, NEW k, NEW u \in UnitOf(k)
  PROVE  Text(WholeText(n, u), k)
<1>1. 10 * n \in Nat /\ (10 * n) % 10 = 0
  OBVIOUS
<1> QED
  BY <1>1 DEF Text, WholeText

LEMMA LeadingIs ==
  ASSUME NEW S \in SUBSET (1 .. 2), S # {}
  PROVE  Leading(S) \in S
<1>1. \E p \in S : \A q \in S : p <= q
  BY HasLeast
<1> QED
  BY <1>1 DEF Leading

LEMMA PairsAre == /\ DOMAIN Pairs = 1 .. 2
                  /\ \A p \in 1 .. 2 : Pairs[p].decimal \in {"KB", "MB"} /\ Pairs[p].binary \in {"KiB", "MiB"}
  BY DEF Pairs

(* A size in a unit that divides it.                                       *)
LEMMA EvenReads ==
  ASSUME NEW v \in 0 .. MaxInt, kind = "size", NEW u \in SizeUnit, v % Scale[u] = 0
  PROVE  Text(Even(v, u), kind) /\ Parsed(Even(v, u)) = v
<1>1. Scale[u] \in Scales /\ v \div Scale[u] \in Nat
  BY Multiples, UnitScales, SizesAssumption
<1>2. Text(Even(v, u), kind)
  BY <1>1, WholeIsText DEF Even, UnitOf
<1>3. ScaleValue(Even(v, u), Scale[u]) = v
  BY <1>1, WholeReads DEF Even
<1>4. Even(v, u).unit = u
  BY DEF Even, WholeText
<1> QED
  BY <1>2, <1>3, <1>4 DEF Parsed, ParseSize

LEMMA BytesReads ==
  ASSUME NEW v \in 0 .. MaxInt, kind = "size"
  PROVE  WholeText(v, "B") = Even(v, "B") /\ Text(Even(v, "B"), kind) /\ Parsed(Even(v, "B")) = v
<1>1. Scale["B"] = 1 /\ "B" \in SizeUnit /\ v \div 1 = v /\ v % 1 = 0
  BY SizesAssumption DEF Scale, SizeUnit
<1> QED
  BY <1>1, EvenReads DEF Even

(* What a save writes is read back as what was saved.                      *)
LEMMA ExactReads ==
  ASSUME NEW v \in 0 .. MaxInt, kind = "size"
  PROVE  Text(Exact(v), kind) /\ Parsed(Exact(v)) = v
<1> DEFINE even == {p \in DOMAIN Pairs : Divides(v, Pairs[p].decimal) \/ Divides(v, Pairs[p].binary)}
<1>2. CASE even = {}
  <2>1. Exact(v) = WholeText(v, "B")
    BY <1>2 DEF Exact
  <2> QED
    BY <2>1, BytesReads
<1>3. CASE even # {}
  <2> DEFINE p == Leading(even)
  <2>1. p \in even /\ p \in 1 .. 2
    <3>1. even \in SUBSET (1 .. 2)
      BY PairsAre
    <3> HIDE DEF even
    <3> QED
      BY <1>3, <3>1, LeadingIs
  <2>2. Divides(v, Pairs[p].decimal) \/ Divides(v, Pairs[p].binary)
    BY <2>1
  <2>3. Exact(v) = IF Divides(v, Pairs[p].decimal) THEN Even(v, Pairs[p].decimal) ELSE Even(v, Pairs[p].binary)
    BY <1>3 DEF Exact
  <2> HIDE DEF p, even
  <2>4. Pairs[p].decimal \in SizeUnit /\ Pairs[p].binary \in SizeUnit
    BY <2>1, PairsAre DEF SizeUnit
  <2> QED
    BY <2>2, <2>3, <2>4, EvenReads DEF Divides
<1> QED
  BY <1>2, <1>3

LEMMA DurationReads ==
  ASSUME NEW v \in 0 .. MaxInt, kind # "size"
  PROVE  Text(DurationString(v), kind) /\ Parsed(DurationString(v)) = v
<1>t. v \in Nat
  BY SizesAssumption
<1>1. ASSUME NEW u \in DOMAIN Period, v % Period[u] = 0
      PROVE  LET t == WholeText(v \div Period[u], u) IN Text(t, kind) /\ Parsed(t) = v
  <2> DEFINE t == WholeText(v \div Period[u], u)
  <2>1. Period[u] \in Scales /\ v \div Period[u] \in Nat
    BY <1>t, Multiples, UnitScales
  <2>2. Text(t, kind)
    BY <2>1, WholeIsText DEF UnitOf
  <2>3. ScaleValue(t, Period[u]) = v
    BY <1>1, <2>1, WholeReads
  <2>4. t.unit = u
    BY DEF WholeText
  <2>5. CASE u \in {"d", "w"}
    BY <2>2, <2>3, <2>4, <2>5 DEF Parsed, ParseDuration
  <2>6. CASE u \notin {"d", "w"}
    <3>1. u = "ns" /\ v \div Period[u] = v
      BY <1>t, <2>6 DEF Period
    <3>2. t.tenths \div 10 = v
      BY <1>t, <3>1 DEF WholeText
    <3>3. Parsed(t) = IF v > MaxInt THEN Unreadable ELSE v
      BY <2>4, <2>6, <3>2 DEF Parsed, ParseDuration, StdDuration
    <3> QED
      BY <1>t, <2>2, <3>3, SizesAssumption
  <2> QED
    BY <2>5, <2>6
<1>2. "ns" \in DOMAIN Period /\ "d" \in DOMAIN Period /\ "w" \in DOMAIN Period /\ Period["ns"] = 1
  BY DEF Period
<1>3. v % Period["ns"] = 0 /\ v \div Period["ns"] = v
  BY <1>t, <1>2
<1>4. CASE v = 0
  BY <1>1, <1>2, <1>3, <1>4 DEF DurationString
<1>5. CASE v # 0 /\ v % Period["w"] = 0
  BY <1>1, <1>2, <1>5 DEF DurationString
<1>6. CASE v # 0 /\ v % Period["w"] # 0 /\ v % Period["d"] = 0
  BY <1>1, <1>2, <1>6 DEF DurationString
<1>7. CASE v # 0 /\ v % Period["w"] # 0 /\ v % Period["d"] # 0
  BY <1>1, <1>2, <1>3, <1>7 DEF DurationString
<1> QED
  BY <1>4, <1>5, <1>6, <1>7

Distance(a, b) == IF a < b THEN b - a ELSE a - b

(* A number rounded to a decimal of its unit is off by half of one, and    *)
(* what is read of it by one more at most.                                 *)
LEMMA RoundedReads ==
  ASSUME NEW v \in 0 .. MaxInt, kind = "size", NEW u \in {"KB", "MB"}
  PROVE  LET t == Rounded(v, u)
         IN  /\ Text(t, kind) /\ t.unit = u
             /\ Parsed(t) = Unreadable \/ 20 * Distance(Parsed(t), v) <= Scale[u] + 20
<1> DEFINE s == Scale[u]
           tenths == (10 * v + s \div 2) \div s
           t == Rounded(v, u)
<1>1. v \in Nat /\ s \in {20, 400} /\ u \in SizeUnit
  BY SizesAssumption DEF Scale, SizeUnit
<1>2. /\ tenths \in Nat
      /\ 20 * Distance((tenths * s) \div 10, v) <= s + 20
      /\ tenths % 10 = 0 => 20 * Distance((tenths \div 10) * s, v) <= s + 20
  <2> HIDE DEF s
  <2>1. CASE s = 20
    BY <1>1, <2>1 DEF Distance
  <2>2. CASE s = 400
    BY <1>1, <2>2 DEF Distance
  <2> QED
    BY <1>1, <2>1, <2>2
<1>3. t.tenths = tenths /\ t.whole = (tenths % 10 = 0) /\ t.unit = u
  BY DEF Rounded
<1>4. Text(t, kind)
  <2> HIDE DEF s, tenths, t
  <2> QED
    BY <1>1, <1>2, <1>3 DEF Text, UnitOf
<1>5. Parsed(t) = ScaleValue(t, s)
  <2> HIDE DEF t
  <2> QED
    BY <1>3 DEF Parsed, ParseSize
<1>6. \/ ScaleValue(t, s) = Unreadable
      \/ tenths % 10 = 0 /\ ScaleValue(t, s) = (tenths \div 10) * s
      \/ ScaleValue(t, s) = (tenths * s) \div 10
  <2> HIDE DEF s, tenths, t
  <2> QED
    BY <1>3 DEF ScaleValue
<1> HIDE DEF s, tenths, t
<1> QED
  BY <1>2, <1>3, <1>4, <1>5, <1>6 DEF s, t

(* What a line shows is read back as a decimal of its unit off at most.    *)
LEMMA DisplayReads ==
  ASSUME NEW v \in 0 .. MaxInt
  PROVE  LET t == FieldText(v)
         IN  /\ Text(t, kind)
             /\ \/ Parsed(t) = Unreadable \/ Parsed(t) = v
                \/ kind = "size" /\ 20 * Distance(Parsed(t), v) <= Scale[t.unit] + 20
<1>1. CASE kind # "size"
  BY <1>1, DurationReads DEF FieldText
<1>2. CASE kind = "size"
  <2>1. FieldText(v) = SizeString(v)
    BY <1>2 DEF FieldText
  <2>3. CASE ~HasMagnitude(v)
    <3>1. SizeString(v) = WholeText(v, "B")
      BY <2>3 DEF SizeString
    <3> QED
      BY <1>2, <2>1, <3>1, BytesReads
  <2>4. CASE HasMagnitude(v)
    <3> DEFINE reached == {p \in DOMAIN Pairs : Scale[Pairs[p].decimal] <= v}
               m == Magnitude(v)
    <3>1. m \in 1 .. 2
      <4>1. reached \in SUBSET (1 .. 2) /\ reached # {}
        BY <2>4, PairsAre DEF HasMagnitude
      <4>2. m = Leading(reached)
        BY DEF Magnitude
      <4> HIDE DEF reached
      <4> QED
        BY <4>1, <4>2, LeadingIs
    <3>2. Pairs[m].decimal \in {"KB", "MB"} /\ Pairs[m].decimal \in SizeUnit /\ Pairs[m].binary \in SizeUnit
      <4> HIDE DEF m
      <4> QED
        BY <3>1, PairsAre DEF SizeUnit
    <3>3. SizeString(v) = IF Divides(v, Pairs[m].decimal) THEN Even(v, Pairs[m].decimal)
                          ELSE IF Divides(v, Pairs[m].binary) THEN Even(v, Pairs[m].binary)
                          ELSE Rounded(v, Pairs[m].decimal)
      BY <2>4 DEF SizeString
    <3> HIDE DEF m
    <3>4. CASE Divides(v, Pairs[m].decimal)
      BY <1>2, <2>1, <3>2, <3>3, <3>4, EvenReads DEF Divides
    <3>5. CASE ~Divides(v, Pairs[m].decimal) /\ Divides(v, Pairs[m].binary)
      BY <1>2, <2>1, <3>2, <3>3, <3>5, EvenReads DEF Divides
    <3>6. CASE ~Divides(v, Pairs[m].decimal) /\ ~Divides(v, Pairs[m].binary)
      BY <1>2, <2>1, <3>2, <3>3, <3>6, RoundedReads
    <3> QED
      BY <3>4, <3>5, <3>6
  <2> QED
    BY <2>3, <2>4
<1> QED
  BY <1>1, <1>2

----------------------------------------------------------------------------

SizesInv ==
  /\ kind \in {"size", "duration"} /\ value \in 0 .. MaxInt
  /\ origin \in {"nobody", "operator", "file", "line"}

LimitKept ==
  /\ origin' = "file" => value' = value
  /\ value' = 0 => value = 0 \/ text'.tenths = 0 \/ (origin' = "operator" /\ BelowUnit(text'))
  /\ origin' = "line" =>
       \/ value' = value
       \/ kind = "size" /\ 20 * Distance(value', value) <= Scale[text'.unit] + 20

(* A text that is taken, by whom, and what becomes of the setting.         *)
LEMMA TakesIs ==
  ASSUME SizesInv, NEW t, NEW who \in {"operator", "file", "line"}, Text(t, kind), Takes(t, who),
         who = "file" => Parsed(t) = value,
         who = "line" => \/ Parsed(t) = Unreadable \/ Parsed(t) = value
                         \/ kind = "size" /\ 20 * Distance(Parsed(t), value) <= Scale[t.unit] + 20
  PROVE  SizesInv' /\ LimitKept
<1>1. /\ text' = t /\ origin' = who /\ kind' = kind
      /\ value' = IF Parsed(t) = Unreadable THEN value ELSE Parsed(t)
  BY DEF Takes
<1>2. Parsed(t) \in (0 .. MaxInt) \cup {Unreadable} /\ (Parsed(t) = 0 => t.tenths = 0 \/ BelowUnit(t))
  BY ParsedIs
<1>3. value' \in 0 .. MaxInt
  BY <1>1, <1>2 DEF SizesInv
<1>4. value' = 0 => value = 0 \/ text'.tenths = 0 \/ (origin' = "operator" /\ BelowUnit(text'))
  <2>1. kind = "size" => ~BelowUnit(t)
    BY DEF Text, UnitOf, SizeUnit, BelowUnit
  <2>2. CASE value' = value
    BY <2>2
  <2>3. CASE value' = Parsed(t) /\ who = "operator"
    BY <1>1, <1>2, <2>3
  <2>4. CASE value' = Parsed(t) /\ who # "operator" /\ Parsed(t) # value
    BY <1>1, <1>2, <2>1, <2>4
  <2> QED
    BY <1>1, <2>2, <2>3, <2>4
<1>5. who = "file" => value' = value
  BY <1>1
<1>6. who = "line" => \/ value' = value
                      \/ kind = "size" /\ 20 * Distance(value', value) <= Scale[text'.unit] + 20
  BY <1>1
<1> QED
  BY <1>1, <1>3, <1>4, <1>5, <1>6 DEF SizesInv, LimitKept

LEMMA SizesInvStep == SizesInv /\ [SizesNext]_sizes => SizesInv' /\ [LimitKept]_sizes
<1> SUFFICES ASSUME SizesInv, [SizesNext]_sizes PROVE SizesInv' /\ [LimitKept]_sizes
  OBVIOUS
<1>1. CASE UNCHANGED sizes
  BY <1>1 DEF SizesInv, sizes
<1>2. CASE WriteLimit
  <2>1. PICK tenths \in 0 .. 20, unit \in IF kind = "size" THEN SizeUnit ELSE DOMAIN Period :
          Takes([tenths |-> tenths, whole |-> tenths % 10 = 0, unit |-> unit], "operator")
    BY <1>2 DEF WriteLimit
  <2> DEFINE t == [tenths |-> tenths, whole |-> tenths % 10 = 0, unit |-> unit]
  <2>2. t.tenths = tenths /\ t.whole = (tenths % 10 = 0) /\ t.unit = unit
    OBVIOUS
  <2>3. Takes(t, "operator")
    BY <2>1
  <2> HIDE DEF t
  <2>4. Text(t, kind)
    <3>1. t.tenths \in Nat /\ t.unit \in UnitOf(kind)
      BY <2>2 DEF UnitOf
    <3>2. t.whole \in BOOLEAN /\ (t.whole => t.tenths % 10 = 0)
      BY <2>2, Zenon
    <3> QED
      BY <3>1, <3>2 DEF Text
  <2> QED
    BY <2>3, <2>4, TakesIs
<1>3. CASE SaveAndLoad
  <2>1. Takes(MarshalText(value), "file")
    BY <1>3 DEF SaveAndLoad
  <2>2. Text(MarshalText(value), kind) /\ Parsed(MarshalText(value)) = value
    BY ExactReads, DurationReads DEF SizesInv, MarshalText
  <2> QED
    BY <2>1, <2>2, TakesIs
<1>4. CASE CommitLine
  <2>1. Takes(FieldText(value), "line")
    BY <1>4 DEF CommitLine
  <2>2. /\ Text(FieldText(value), kind)
        /\ \/ Parsed(FieldText(value)) = Unreadable \/ Parsed(FieldText(value)) = value
           \/ /\ kind = "size"
              /\ 20 * Distance(Parsed(FieldText(value)), value) <= Scale[FieldText(value).unit] + 20
    BY DisplayReads DEF SizesInv
  <2> QED
    BY <2>1, <2>2, TakesIs
<1> QED
  BY <1>1, <1>2, <1>3, <1>4 DEF SizesNext

LEMMA LimitsAreKept == LimitsStand <=> [][LimitKept]_sizes
<1>1. LimitKept <=>
        /\ origin' = "file" => value' = value
        /\ value' = 0 => value = 0 \/ text'.tenths = 0 \/ (origin' = "operator" /\ BelowUnit(text'))
        /\ origin' = "line" =>
             \/ value' = value
             \/ kind = "size" /\ 20 * (IF value' < value THEN value - value' ELSE value' - value)
                                   <= Scale[text'.unit] + 20
  BY DEF LimitKept, Distance
<1> QED
  BY <1>1, PTL DEF LimitsStand

(* units.go, for every width: a save keeps what a setting is, a limit      *)
(* never becomes none, and a line that is taken back unchanged is a        *)
(* decimal of its unit off at most.                                        *)
THEOREM LimitsStood == SizesSpec => LimitsStand
<1>1. SizesInit => SizesInv
  BY DEF SizesInit, SizesInv
<1> QED
  BY <1>1, SizesInvStep, LimitsAreKept, PTL DEF SizesSpec

----------------------------------------------------------------------------
(* Answers                                                                 *)

Uttered == {"warning", "object", "open", "close", "stream", "no_streams", "unauthorized", "other", "directory", "name",
          "permanent", "auth", "measurement", "item"}

(* What a tool may say of what is true, but for what may come ahead.       *)
Spoken(q) ==
  CASE q.truth = "live"    -> {"open", "stream", "other", "close"}
    [] q.truth = "offline" -> {"open", "no_streams", "close"}
    [] q.truth = "refused" -> {"open", "unauthorized", "close"}
    [] q.truth = "moved"   -> {"directory", "name"}
    [] q.truth = "gone"    -> {"permanent"}
    [] q.truth = "denied"  -> {"permanent", "auth"}
    [] q.truth = "broken"  -> {"open", "other", "close"}
    [] q.truth = "sound"   -> {"measurement"}
    [] q.truth = "all"     -> {"item"}

(* Nothing else is in an output.                                           *)
SpokenOnly(words, q) ==
  words \in Seq(Uttered) /\ \A i \in 1 .. Len(words) : words[i] \in {"warning", "object"} \cup Spoken(q)

Items(words) == {i \in DOMAIN words : words[i] = "item"}

(* What a whole output holds where the tool had an answer.                 *)
Utters(q, words) ==
  CASE q.truth = "live"  -> /\ Len(words) > 0 /\ words[Len(words)] = "close"
                            /\ \E i, j \in 1 .. Len(words) : i < j /\ words[i] = "open" /\ words[j] = "stream"
    [] q.truth = "moved" -> Len(words) > 1 /\ words[Len(words)] = "name"
    [] q.truth = "all"   -> Cardinality(Items(words)) = 2
    [] q.truth = "sound" -> Len(words) > 0 /\ words[Len(words)] = "measurement"
    [] OTHER -> TRUE

AnswersTypeOK ==
  /\ question \in Question \cup {Unasked}
  /\ collected \in [kept : Seq(Uttered), dropped : Nat] /\ saying \in Seq(Uttered)
  /\ exited \in {"", "well", "badly"}

(* What was said is what was asked, all of it while nothing was dropped    *)
(* and nobody killed the tool, and a measurement is the last of it.        *)
AnswersInv ==
  /\ AnswersTypeOK
  /\ question = Unasked => saying = <<>> /\ exited = "" /\ collected.dropped = 0 /\ collected.kept = <<>>
  /\ exited = "" => understood = ""
  /\ exited = "well" => saying = <<>> /\ ~EndsBadly
  /\ question # Unasked => SpokenOnly(collected.kept, question) /\ SpokenOnly(saying, question)
  /\ question # Unasked /\ exited # "badly" /\ collected.dropped = 0 => Utters(question, collected.kept \o saying)
  /\ question.of = "measure" /\ exited # "badly" =>
       IF saying = <<>> THEN Utters(question, collected.kept) ELSE Utters(question, saying)
  /\ AnswersAreWhole

LEMMA QuestionIs ==
  /\ Unasked \notin Question /\ Unasked.of = "nothing" /\ Unasked.truth = "nothing"
  /\ \A q \in Question :
       /\ q.of = "probe" => q.truth \in {"live", "offline", "refused", "broken"}
       /\ q.of = "path" => q.truth \in {"moved", "gone", "denied", "broken"}
       /\ q.of = "measure" => q.truth = "sound"
       /\ q.of = "list" => q.truth = "all"
       /\ q.truth = "sound" => q.of = "measure"
       /\ q.of \in {"probe", "path", "measure", "list"}
  BY DEF Question, Unasked

LEMMA TwoItems == \A n \in Nat : Cardinality(n + 1 .. n + 2) = 2
<1>1. \A a, b \in Int : Cardinality(a .. b) = IF a > b THEN 0 ELSE b - a + 1
  BY FS_Interval
<1>2. \A n \in Nat : n + 1 \in Int /\ n + 2 \in Int /\ ~(n + 1 > n + 2) /\ (n + 2) - (n + 1) + 1 = 2
  OBVIOUS
<1> QED
  BY <1>1, <1>2

LEMMA SpeechIs ==
  ASSUME NEW q \in Question, NEW said \in Speech(q)
  PROVE  SpokenOnly(said, q) /\ (q.truth # "all" => Utters(q, said))
<1>1. CASE q = [of |-> "probe", truth |-> "live"]
  <2>1. said \in {<<"open", "stream", "close">>, <<"open", "stream", "stream", "close">>, <<"open", "stream", "other", "close">>}
    BY <1>1 DEF Speech
  <2>2. CASE said = <<"open", "stream", "close">>
    <3>1. SpokenOnly(said, q)
      BY <1>1, <2>2 DEF SpokenOnly, Spoken, Uttered
    <3>2. Utters(q, said)
      BY <1>1, <2>2 DEF Utters
    <3> QED
      BY <3>1, <3>2
  <2>3. CASE said = <<"open", "stream", "stream", "close">>
    <3>1. SpokenOnly(said, q)
      BY <1>1, <2>3 DEF SpokenOnly, Spoken, Uttered
    <3>2. Utters(q, said)
      BY <1>1, <2>3 DEF Utters
    <3> QED
      BY <3>1, <3>2
  <2>4. CASE said = <<"open", "stream", "other", "close">>
    <3>1. SpokenOnly(said, q)
      BY <1>1, <2>4 DEF SpokenOnly, Spoken, Uttered
    <3>2. Utters(q, said)
      BY <1>1, <2>4 DEF Utters
    <3> QED
      BY <3>1, <3>2
  <2> QED
    BY <2>1, <2>2, <2>3, <2>4
<1>2. CASE q = [of |-> "probe", truth |-> "offline"]
  <2>1. said = <<"open", "no_streams", "close">>
    BY <1>2 DEF Speech
  <2> QED
    BY <1>2, <2>1 DEF SpokenOnly, Spoken, Uttered, Utters
<1>3. CASE q = [of |-> "probe", truth |-> "refused"]
  <2>1. said = <<"open", "unauthorized", "close">>
    BY <1>3 DEF Speech
  <2> QED
    BY <1>3, <2>1 DEF SpokenOnly, Spoken, Uttered, Utters
<1>4. CASE q = [of |-> "probe", truth |-> "broken"]
  <2>1. said \in {<<"open", "other", "close">>, <<>>}
    BY <1>4 DEF Speech
  <2>2. CASE said = <<"open", "other", "close">>
    <3>1. SpokenOnly(said, q)
      BY <1>4, <2>2 DEF SpokenOnly, Spoken, Uttered
    <3>2. Utters(q, said)
      BY <1>4, <2>2 DEF Utters
    <3> QED
      BY <3>1, <3>2
  <2>3. CASE said = <<>>
    <3>1. SpokenOnly(said, q)
      BY <1>4, <2>3 DEF SpokenOnly, Spoken, Uttered
    <3>2. Utters(q, said)
      BY <1>4, <2>3 DEF Utters
    <3> QED
      BY <3>1, <3>2
  <2> QED
    BY <2>1, <2>2, <2>3
<1>5. CASE q = [of |-> "path", truth |-> "moved"]
  <2>1. said = <<"directory", "name">>
    BY <1>5 DEF Speech
  <2> QED
    BY <1>5, <2>1 DEF SpokenOnly, Spoken, Uttered, Utters
<1>6. CASE q = [of |-> "path", truth |-> "gone"]
  <2>1. said = <<"permanent">>
    BY <1>6 DEF Speech
  <2> QED
    BY <1>6, <2>1 DEF SpokenOnly, Spoken, Uttered, Utters
<1>7. CASE q = [of |-> "path", truth |-> "denied"]
  <2>1. said \in {<<"auth">>, <<"permanent", "auth">>}
    BY <1>7 DEF Speech
  <2>2. CASE said = <<"auth">>
    <3>1. SpokenOnly(said, q)
      BY <1>7, <2>2 DEF SpokenOnly, Spoken, Uttered
    <3>2. Utters(q, said)
      BY <1>7, <2>2 DEF Utters
    <3> QED
      BY <3>1, <3>2
  <2>3. CASE said = <<"permanent", "auth">>
    <3>1. SpokenOnly(said, q)
      BY <1>7, <2>3 DEF SpokenOnly, Spoken, Uttered
    <3>2. Utters(q, said)
      BY <1>7, <2>3 DEF Utters
    <3> QED
      BY <3>1, <3>2
  <2> QED
    BY <2>1, <2>2, <2>3
<1>8. CASE q = [of |-> "path", truth |-> "broken"]
  <2>1. said = <<"other">>
    BY <1>8 DEF Speech
  <2> QED
    BY <1>8, <2>1 DEF SpokenOnly, Spoken, Uttered, Utters
<1>9. CASE q = [of |-> "measure", truth |-> "sound"]
  <2>1. said = <<"measurement">>
    BY <1>9 DEF Speech
  <2> QED
    BY <1>9, <2>1 DEF SpokenOnly, Spoken, Uttered, Utters
<1>10. CASE q = [of |-> "list", truth |-> "all"]
  <2>1. said = <<"item", "item">>
    BY <1>10 DEF Speech
  <2> QED
    BY <1>10, <2>1 DEF SpokenOnly, Spoken, Uttered
<1> QED
  BY <1>1, <1>2, <1>3, <1>4, <1>5, <1>6, <1>7, <1>8, <1>9, <1>10 DEF Question

(* Whatever comes ahead, an output tells what its end does.                *)
LEMMA NoiseAhead ==
  ASSUME NEW q \in Question, NEW noise \in Noise, NEW said \in Speech(q)
  PROVE  SpokenOnly(noise \o said, q) /\ Utters(q, noise \o said)
<1>1. SpokenOnly(said, q) /\ (q.truth # "all" => Utters(q, said))
  BY SpeechIs
<1>2. noise \in Seq(Uttered) /\ \A i \in 1 .. Len(noise) : noise[i] \in {"warning", "object"}
  <2>1. PICK n \in Nat : noise \in [1 .. n -> {"warning", "object"}]
    BY AnswersAssumption DEF Noise
  <2>2. \A f \in [1 .. n -> {"warning", "object"}] : f \in Seq({"warning", "object"}) /\ Len(f) = n
    OBVIOUS
  <2>3. {"warning", "object"} \subseteq Uttered
    BY DEF Uttered
  <2> QED
    BY <2>1, <2>2, <2>3
<1> DEFINE w == noise \o said
<1>3. said \in Seq(Uttered) /\ Len(noise) \in Nat /\ Len(said) \in Nat
  BY <1>1, <1>2 DEF SpokenOnly
<1>4. /\ w \in Seq(Uttered) /\ Len(w) = Len(noise) + Len(said)
      /\ \A i \in 1 .. Len(w) : w[i] = IF i <= Len(noise) THEN noise[i] ELSE said[i - Len(noise)]
      /\ \A i \in 1 .. Len(said) : w[Len(noise) + i] = said[i]
  BY <1>2, <1>3
<1> HIDE DEF w
<1>5. SpokenOnly(w, q)
  <2>1. ASSUME NEW i \in 1 .. Len(w) PROVE w[i] \in {"warning", "object"} \cup Spoken(q)
    <3>1. CASE i <= Len(noise)
      BY <1>2, <1>3, <1>4, <3>1
    <3>2. CASE ~(i <= Len(noise))
      <4>1. i - Len(noise) \in 1 .. Len(said) /\ w[i] = said[i - Len(noise)]
        BY <1>3, <1>4, <3>2
      <4> QED
        BY <1>1, <4>1 DEF SpokenOnly
    <3> QED
      BY <3>1, <3>2
  <2> QED
    BY <1>4, <2>1 DEF SpokenOnly
<1>6. Len(said) > 0 => Len(w) > 0 /\ Len(w) >= Len(said) /\ w[Len(w)] = said[Len(said)]
  BY <1>3, <1>4
<1>7. Utters(q, w)
  <2>1. CASE q.truth = "live"
    <3>1. PICK i, j \in 1 .. Len(said) : i < j /\ said[i] = "open" /\ said[j] = "stream"
      BY <1>1, <2>1 DEF Utters
    <3>2. /\ Len(noise) + i \in 1 .. Len(w) /\ Len(noise) + j \in 1 .. Len(w)
          /\ Len(noise) + i < Len(noise) + j
          /\ w[Len(noise) + i] = "open" /\ w[Len(noise) + j] = "stream"
      BY <1>3, <1>4, <3>1
    <3>3. Len(said) > 0 /\ said[Len(said)] = "close"
      BY <1>1, <2>1 DEF Utters
    <3> QED
      BY <1>6, <2>1, <3>2, <3>3 DEF Utters
  <2>2. CASE q.truth = "moved"
    <3>1. Len(said) > 1 /\ said[Len(said)] = "name"
      BY <1>1, <2>2 DEF Utters
    <3>2. Len(w) > 1 /\ w[Len(w)] = "name"
      BY <1>3, <1>4, <1>6, <3>1
    <3> QED
      BY <2>2, <3>2 DEF Utters
  <2>3. CASE q.truth = "sound"
    <3>1. Len(said) > 0 /\ said[Len(said)] = "measurement"
      BY <1>1, <2>3 DEF Utters
    <3> QED
      BY <1>6, <2>3, <3>1 DEF Utters
  <2>4. CASE q.truth = "all"
    <3>1. q = [of |-> "list", truth |-> "all"]
      BY <2>4 DEF Question
    <3>2. said = <<"item", "item">>
      BY <3>1 DEF Speech
    <3>3. Len(said) = 2 /\ said[1] = "item" /\ said[2] = "item"
      BY <3>2
    <3>4. /\ Len(w) = Len(noise) + 2
          /\ \A i \in 1 .. Len(w) : w[i] = "item" <=> i > Len(noise)
      BY SMTT(20), <1>2, <1>3, <1>4, <3>3
    <3>5. Items(w) = Len(noise) + 1 .. Len(noise) + 2
      <4>1. DOMAIN w = 1 .. Len(w)
        BY <1>4
      <4> QED
        BY <1>3, <3>4, <4>1 DEF Items
    <3>6. Cardinality(Items(w)) = 2
      BY <1>3, <3>5, TwoItems
    <3> QED
      BY <2>4, <3>6 DEF Utters
  <2> QED
    BY <2>1, <2>2, <2>3, <2>4 DEF Utters
<1> QED
  BY <1>5, <1>7 DEF w

(* What is cut away ahead of the first line that opens an object.          *)
LEMMA TrimIs ==
  ASSUME NEW k \in Seq(Uttered)
  PROVE  LET json == TrimToJSON(k)
         IN  /\ \A piece : Mentions(json, piece) => Mentions(k, piece)
             /\ Len(json) \in Nat /\ (Len(k) > 0 => Len(json) > 0 /\ json[Len(json)] = k[Len(k)])
             /\ \A i, j \in 1 .. Len(k) : i < j /\ k[i] = "open" =>
                  Mentions(json, k[j]) /\ json[1] \in {"open", "object"}
<1> DEFINE opens == {i \in DOMAIN k : k[i] \in {"open", "object"}}
           p == CHOOSE i \in opens : \A j \in opens : i <= j
           json == TrimToJSON(k)
<1>1. Len(k) \in Nat /\ DOMAIN k = 1 .. Len(k)
  OBVIOUS
<1>2. CASE opens = {}
  <2>1. json = k
    BY <1>2 DEF TrimToJSON
  <2>2. \A i \in 1 .. Len(k) : k[i] # "open"
    BY <1>1, <1>2
  <2> QED
    BY <1>1, <2>1, <2>2
<1>3. CASE opens # {}
  <2>1. p \in opens /\ \A j \in opens : p <= j
    <3>1. opens \in SUBSET Nat
      BY <1>1
    <3>2. \E i \in opens : \A j \in opens : i <= j
      <4> HIDE DEF opens
      <4> QED
        BY <1>3, <3>1, HasLeast
    <3> QED
      BY <3>2
  <2>2. p \in 1 .. Len(k) /\ k[p] \in {"open", "object"} /\ \A i \in 1 .. Len(k) : k[i] = "open" => p <= i
    BY <1>1, <2>1
  <2>3. json = SubSeq(k, p, Len(k))
    BY <1>3 DEF TrimToJSON
  <2> HIDE DEF p, opens, json
  <2>4. /\ json \in Seq(Uttered) /\ Len(json) = Len(k) - p + 1
        /\ \A i \in 1 .. Len(json) : json[i] = k[p + i - 1]
    BY <1>1, <2>2, <2>3
  <2>5. DOMAIN json = 1 .. Len(json) /\ Len(json) \in Nat /\ Len(json) > 0
    BY <1>1, <2>2, <2>4
  <2>6. ASSUME NEW piece, Mentions(json, piece) PROVE Mentions(k, piece)
    <3>1. PICK i \in 1 .. Len(json) : json[i] = piece
      BY <2>5, <2>6 DEF Mentions
    <3>2. p + i - 1 \in DOMAIN k /\ k[p + i - 1] = piece
      BY <1>1, <2>2, <2>4, <2>5, <3>1
    <3> QED
      BY <3>2 DEF Mentions
  <2>7. json[Len(json)] = k[Len(k)] /\ json[1] = k[p]
    BY <1>1, <2>2, <2>4, <2>5
  <2>8. ASSUME NEW i \in 1 .. Len(k), NEW j \in 1 .. Len(k), i < j, k[i] = "open"
        PROVE  Mentions(json, k[j])
    <3>1. p <= i
      BY <2>2, <2>8
    <3>2. j - p + 1 \in DOMAIN json /\ json[j - p + 1] = k[j]
      BY <1>1, <2>2, <2>4, <2>5, <2>8, <3>1
    <3> QED
      BY <3>2 DEF Mentions
  <2> QED
    BY <2>2, <2>5, <2>6, <2>7, <2>8 DEF json
<1> QED
  BY <1>2, <1>3

LEMMA TrimType ==
  ASSUME NEW k \in Seq(Uttered)
  PROVE  TrimToJSON(k) \in Seq(Uttered) /\ DOMAIN TrimToJSON(k) = 1 .. Len(TrimToJSON(k))
<1> DEFINE opens == {i \in DOMAIN k : k[i] \in {"open", "object"}}
           p == CHOOSE i \in opens : \A j \in opens : i <= j
<1>1. CASE opens = {}
  <2>1. TrimToJSON(k) = k
    BY <1>1 DEF TrimToJSON
  <2> QED
    BY <2>1
<1>2. CASE opens # {}
  <2>1. TrimToJSON(k) = SubSeq(k, p, Len(k))
    BY <1>2 DEF TrimToJSON
  <2>2. p \in 1 .. Len(k)
    <3>1. opens \in SUBSET Nat /\ opens \in SUBSET (1 .. Len(k))
      OBVIOUS
    <3>2. \E i \in opens : \A j \in opens : i <= j
      <4> HIDE DEF opens
      <4> QED
        BY <1>2, <3>1, HasLeast
    <3> QED
      BY <3>1, <3>2
  <2> HIDE DEF p
  <2>3. SubSeq(k, p, Len(k)) \in Seq(Uttered)
    BY <2>2
  <2> QED
    BY <2>1, <2>3
<1> QED
  BY <1>1, <1>2

LEMMA ErrorIs ==
  ASSUME NEW json
  PROVE  /\ ErrorOf(json) \in {"", "no_streams", "unauthorized", "other"}
         /\ ErrorOf(json) # "" => Mentions(json, ErrorOf(json))
<1> DEFINE errors == {e \in {"no_streams", "unauthorized", "other"} : Mentions(json, e)}
<1>1. CASE errors = {}
  BY <1>1 DEF ErrorOf
<1>2. CASE errors # {}
  <2>1. ErrorOf(json) \in errors
    BY <1>2 DEF ErrorOf
  <2> QED
    BY <2>1
<1> QED
  BY <1>1, <1>2

LEMMA EmptyProbeIs ==
  ASSUME NEW json
  PROVE  /\ EmptyProbe(json) \in {"failed", "offline", "refused"}
         /\ EmptyProbe(json) = "refused" => Mentions(json, "unauthorized")
         /\ EmptyProbe(json) = "offline" => Mentions(json, "no_streams") \/ exited # "badly"
<1> DEFINE error == ErrorOf(json)
<1>1. error \in {"", "no_streams", "unauthorized", "other"} /\ (error # "" => Mentions(json, error))
  BY ErrorIs
<1>2. EmptyProbe(json) = IF error = "no_streams" \/ (error = "" /\ exited # "badly") THEN "offline"
                         ELSE IF error = "unauthorized" THEN "refused" ELSE "failed"
  BY DEF EmptyProbe
<1> HIDE DEF error
<1>3. CASE error = ""
  <2>1. CASE exited = "badly"
    <3>1. EmptyProbe(json) = "failed"
      BY <1>2, <1>3, <2>1
    <3> QED
      BY <3>1
  <2>2. CASE exited # "badly"
    BY <1>2, <1>3, <2>2
  <2> QED
    BY <2>1, <2>2
<1>4. CASE error = "no_streams"
  <2>1. EmptyProbe(json) = "offline"
    BY <1>2, <1>4
  <2> QED
    BY <1>1, <1>4, <2>1
<1>5. CASE error = "unauthorized"
  <2>1. EmptyProbe(json) = "refused"
    BY <1>2, <1>5
  <2> QED
    BY <1>1, <1>5, <2>1
<1>6. CASE error = "other"
  <2>1. EmptyProbe(json) = "failed"
    BY <1>2, <1>6
  <2> QED
    BY <2>1
<1> QED
  BY <1>1, <1>3, <1>4, <1>5, <1>6

LEMMA ProbeIs ==
  LET json == TrimToJSON(collected.kept)
  IN  /\ Probe \in {"failed", "live", "offline", "refused"}
      /\ Probe = "live" => Mentions(json, "stream")
      /\ Probe = "refused" => Mentions(json, "unauthorized")
      /\ Probe = "offline" =>
           Mentions(json, "no_streams") \/ (exited # "badly" /\ ~Truncated /\ Parses(json) /\ ~Mentions(json, "stream"))
      /\ ~Truncated /\ Parses(json) /\ Mentions(json, "stream") => Probe = "live"
<1> DEFINE json == TrimToJSON(collected.kept)
           bad  == Truncated \/ ~Parses(json)
           on   == Mentions(json, "stream")
<1>1. Probe = IF bad THEN "failed" ELSE IF on THEN "live" ELSE EmptyProbe(json)
  BY DEF Probe, ListsStreams
<1>2. bad \in BOOLEAN /\ on \in BOOLEAN
  BY DEF Truncated, Parses, Mentions
<1>3. /\ EmptyProbe(json) \in {"failed", "offline", "refused"}
      /\ EmptyProbe(json) = "refused" => Mentions(json, "unauthorized")
      /\ EmptyProbe(json) = "offline" => Mentions(json, "no_streams") \/ exited # "badly"
  BY EmptyProbeIs
<1> SUFFICES /\ Probe \in {"failed", "live", "offline", "refused"}
             /\ Probe = "live" => on
             /\ Probe = "refused" => Mentions(json, "unauthorized")
             /\ Probe = "offline" => Mentions(json, "no_streams") \/ (exited # "badly" /\ ~bad /\ ~on)
             /\ ~bad /\ on => Probe = "live"
  OBVIOUS
<1> HIDE DEF json, bad, on
<1>4. CASE bad
  <2>1. Probe = "failed"
    BY <1>1, <1>2, <1>4
  <2> QED
    BY <1>4, <2>1
<1>5. CASE ~bad /\ on
  <2>1. Probe = "live"
    BY <1>1, <1>2, <1>5
  <2> QED
    BY <1>5, <2>1
<1>6. CASE ~bad /\ ~on
  <2>1. Probe = EmptyProbe(json)
    BY <1>1, <1>2, <1>6
  <2> QED
    BY <1>3, <1>6, <2>1
<1> QED
  BY <1>2, <1>4, <1>5, <1>6

(* What is mentioned is what may be said of the truth.                     *)
LEMMA SaidIs ==
  ASSUME NEW q, NEW words, SpokenOnly(words, q), NEW piece, Mentions(words, piece)
  PROVE  piece \in {"warning", "object"} \cup Spoken(q)
<1>1. PICK i \in DOMAIN words : words[i] = piece
  BY DEF Mentions
<1>2. words \in Seq(Uttered)
  BY DEF SpokenOnly
<1>3. i \in 1 .. Len(words)
  BY <1>1, <1>2
<1> QED
  BY <1>1, <1>3 DEF SpokenOnly

LEMMA PieceTells ==
  ASSUME NEW q \in Question, NEW words, SpokenOnly(words, q)
  PROVE  /\ Mentions(words, "stream") => q.truth = "live"
         /\ Mentions(words, "no_streams") => q.truth = "offline"
         /\ Mentions(words, "unauthorized") => q.truth = "refused"
         /\ Mentions(words, "permanent") => q.truth \in {"gone", "denied"}
         /\ Mentions(words, "auth") => q.truth = "denied"
<1>1. \A piece : Mentions(words, piece) => piece \in {"warning", "object"} \cup Spoken(q)
  BY SaidIs
<1>2. q.truth \in {"live", "offline", "refused", "broken", "moved", "gone", "denied", "sound", "all"}
  BY QuestionIs
<1>3. Spoken(q) \in SUBSET Uttered
  BY <1>2 DEF Spoken, Uttered
<1>4. /\ "stream" \in Spoken(q) => q.truth = "live"
      /\ "no_streams" \in Spoken(q) => q.truth = "offline"
      /\ "unauthorized" \in Spoken(q) => q.truth = "refused"
      /\ "permanent" \in Spoken(q) => q.truth \in {"gone", "denied"}
      /\ "auth" \in Spoken(q) => q.truth = "denied"
  BY <1>2 DEF Spoken
<1> QED
  BY <1>1, <1>4

LEMMA SomeFirst == \A s \in Seq(Uttered) : Len(s) > 0 => 1 \in DOMAIN s /\ s # <<>>
  OBVIOUS

LEMMA LastIn == \A s \in Seq(Uttered) : Len(s) > 0 => Len(s) \in DOMAIN s
  OBVIOUS

LEMMA MoreThanNone == \A n \in Nat : n + 1 \in Nat /\ n + 1 # 0
  OBVIOUS

LEMMA NoneDropped == \A n \in Nat : ~(n > 0) => n = 0
  OBVIOUS

(* How a tool that is read ended.                                          *)
LEMMA EndedIs ==
  ASSUME AnswersInv, exited # ""
  PROVE  /\ question \in Question /\ SpokenOnly(collected.kept, question)
         /\ collected.kept \in Seq(Uttered) /\ collected.dropped \in Nat
         /\ exited # "badly" =>
              /\ exited = "well" /\ saying = <<>> /\ question.truth \in {"live", "moved", "sound", "all"}
              /\ ~Truncated => Utters(question, collected.kept)
              /\ question.of = "measure" => Utters(question, collected.kept)
<1>1. /\ question \in Question \cup {Unasked} /\ exited \in {"", "well", "badly"} /\ saying \in Seq(Uttered)
      /\ collected.kept \in Seq(Uttered) /\ collected.dropped \in Nat
  BY DEF AnswersInv, AnswersTypeOK
<1>2. question # Unasked
  BY DEF AnswersInv
<1>3. question \in Question /\ SpokenOnly(collected.kept, question)
  BY <1>1, <1>2 DEF AnswersInv
<1>4. ASSUME exited # "badly"
      PROVE  /\ exited = "well" /\ saying = <<>> /\ question.truth \in {"live", "moved", "sound", "all"}
             /\ ~Truncated => Utters(question, collected.kept)
             /\ question.of = "measure" => Utters(question, collected.kept)
  <2>1. exited = "well"
    BY <1>1, <1>4
  <2>2. saying = <<>> /\ ~EndsBadly
    BY <2>1 DEF AnswersInv
  <2>3. question.truth \in {"live", "moved", "sound", "all"}
    BY <1>3, <2>2, QuestionIs DEF EndsBadly
  <2>4. collected.kept \o saying = collected.kept
    <3>1. collected.kept \in Seq(Uttered)
      BY <1>1
    <3>2. \A s \in Seq(Uttered) : s \o <<>> = s
      BY ConcatEmptySeq
    <3> QED
      BY <2>2, <3>1, <3>2
  <2>5. ASSUME ~Truncated PROVE Utters(question, collected.kept)
    <3>1. collected.dropped = 0
      <4>1. collected.dropped \in Nat
        BY <1>1
      <4> QED
        BY <2>5, <4>1, NoneDropped DEF Truncated
    <3>2. Utters(question, collected.kept \o saying)
      BY <1>2, <1>4, <3>1 DEF AnswersInv
    <3> QED
      BY <2>4, <3>2
  <2>6. question.of = "measure" => Utters(question, collected.kept)
    BY <1>4, <2>2 DEF AnswersInv
  <2> QED
    BY <2>1, <2>2, <2>3, <2>5, <2>6
<1> QED
  BY <1>1, <1>3, <1>4

LEMMA ProbedRight ==
  ASSUME AnswersInv, exited # "", question.of = "probe"
  PROVE  /\ Probe \in {"failed", "live", "offline", "refused"}
         /\ Probe \in {"live", "offline", "refused"} => Probe = question.truth
         /\ ~Truncated /\ exited = "well" /\ ~Mentions(collected.kept, "object") => Probe = question.truth
<1> DEFINE json == TrimToJSON(collected.kept)
           k    == collected.kept
<1>1. /\ question \in Question /\ SpokenOnly(k, question) /\ k \in Seq(Uttered)
      /\ exited # "badly" => question.truth \in {"live", "moved", "sound", "all"} /\ (~Truncated => Utters(question, k))
  BY EndedIs
<1>2. question.truth \in {"live", "offline", "refused", "broken"}
  BY <1>1, QuestionIs
<1>3. /\ \A piece : Mentions(json, piece) => Mentions(k, piece)
      /\ Len(json) \in Nat /\ (Len(k) > 0 => Len(json) > 0 /\ json[Len(json)] = k[Len(k)])
      /\ \A i, j \in 1 .. Len(k) : i < j /\ k[i] = "open" =>
           Mentions(json, k[j]) /\ json[1] \in {"open", "object"}
  BY <1>1, TrimIs
<1>4. /\ Mentions(k, "stream") => question.truth = "live"
      /\ Mentions(k, "no_streams") => question.truth = "offline"
      /\ Mentions(k, "unauthorized") => question.truth = "refused"
  BY <1>1, PieceTells
<1>5. /\ Probe \in {"failed", "live", "offline", "refused"}
      /\ Probe = "live" => Mentions(json, "stream")
      /\ Probe = "refused" => Mentions(json, "unauthorized")
      /\ Probe = "offline" =>
           Mentions(json, "no_streams") \/ (exited # "badly" /\ ~Truncated /\ Parses(json) /\ ~Mentions(json, "stream"))
      /\ ~Truncated /\ Parses(json) /\ Mentions(json, "stream") => Probe = "live"
  BY ProbeIs
<1>6. ASSUME exited # "badly", ~Truncated
      PROVE  /\ question.truth = "live" /\ Mentions(json, "stream") /\ json[1] \in {"open", "object"}
             /\ Len(json) > 0 /\ json[Len(json)] = "close"
  <2>1. question.truth = "live" /\ Utters(question, k)
    BY <1>1, <1>2, <1>6
  <2>2. /\ Len(k) > 0 /\ k[Len(k)] = "close"
        /\ \E i, j \in 1 .. Len(k) : i < j /\ k[i] = "open" /\ k[j] = "stream"
    BY <2>1 DEF Utters
  <2> HIDE DEF json, k
  <2> QED
    BY <1>3, <2>1, <2>2
<1> HIDE DEF json, k
<1>7. Probe \in {"live", "offline", "refused"} => Probe = question.truth
  BY <1>3, <1>4, <1>5, <1>6
<1>8. ASSUME ~Truncated, exited = "well", ~Mentions(k, "object") PROVE Probe = question.truth
  <2>1. /\ question.truth = "live" /\ Mentions(json, "stream") /\ json[1] \in {"open", "object"}
        /\ Len(json) > 0 /\ json[Len(json)] = "close"
    BY <1>6, <1>8
  <2>2. PICK i \in DOMAIN json : json[i] = "stream"
    BY <2>1 DEF Mentions
  <2>3. json \in Seq(Uttered) /\ DOMAIN json = 1 .. Len(json)
    BY <1>1, TrimType DEF json, k
  <2>4. Mentions(json, json[1])
    <3>1. 1 \in DOMAIN json
      BY <2>1, <2>3, SomeFirst
    <3> QED
      BY <3>1 DEF Mentions
  <2>5. json[1] = "open"
    BY <1>3, <1>8, <2>1, <2>4
  <2>6. json # <<>>
    BY <2>1, <2>3, SomeFirst
  <2>7. Parses(json)
    BY <2>1, <2>5, <2>6 DEF Parses
  <2> QED
    BY <1>5, <1>8, <2>1, <2>7
<1> QED
  BY <1>5, <1>7, <1>8 DEF k

LEMMA PathRight ==
  ASSUME AnswersInv, exited # "", question.of = "path"
  PROVE  /\ PathOf \in {"auth", "permanent", "transient", "moved"}
         /\ PathOf = "moved" => PathOf = question.truth
         /\ PathOf = "permanent" => question.truth \in {"gone", "denied"}
         /\ PathOf = "auth" => question.truth = "denied"
         /\ ~Truncated /\ exited = "well" => PathOf = question.truth
<1> DEFINE k == collected.kept
<1>1. /\ question \in Question /\ SpokenOnly(k, question)
      /\ exited # "badly" => question.truth \in {"live", "moved", "sound", "all"} /\ (~Truncated => Utters(question, k))
  BY EndedIs
<1>2. question.truth \in {"moved", "gone", "denied", "broken"}
  BY <1>1, QuestionIs
<1>3. /\ Mentions(k, "permanent") => question.truth \in {"gone", "denied"}
      /\ Mentions(k, "auth") => question.truth = "denied"
  BY <1>1, PieceTells
<1>4. CASE exited = "badly"
  <2>1. PathOf = Classify(k)
    BY <1>4 DEF PathOf
  <2>2. PathOf = IF Mentions(k, "auth") THEN "auth" ELSE IF Mentions(k, "permanent") THEN "permanent" ELSE "transient"
    BY <2>1 DEF Classify
  <2> HIDE DEF k
  <2> QED
    BY <1>3, <1>4, <2>2
<1>5. CASE exited # "badly" /\ Truncated
  <2>1. PathOf = "transient"
    BY <1>5 DEF PathOf
  <2> QED
    BY <1>5, <2>1
<1>6. CASE exited # "badly" /\ ~Truncated
  <2>1. question.truth = "moved" /\ Utters(question, k)
    BY <1>1, <1>2, <1>6
  <2>2. Len(k) > 1 /\ k[Len(k)] = "name"
    BY <2>1 DEF Utters
  <2>3. PathOf = "moved"
    BY <1>6, <2>2 DEF PathOf
  <2> QED
    BY <1>6, <2>1, <2>3
<1> QED
  BY <1>4, <1>5, <1>6

LEMMA ListRight ==
  ASSUME AnswersInv, exited # "", question.of = "list"
  PROVE  /\ ToolOutput \in {"failed", "all"} /\ question.truth = "all"
         /\ ~Truncated /\ exited = "well" => ToolOutput = "all"
<1> DEFINE k == collected.kept
<1>1. /\ question \in Question
      /\ exited # "badly" /\ ~Truncated => Utters(question, k)
  BY EndedIs
<1>2. question.truth = "all"
  BY <1>1, QuestionIs
<1>3. CASE exited = "badly" \/ Truncated
  <2>1. ToolOutput = "failed"
    BY <1>3 DEF ToolOutput
  <2> QED
    BY <1>2, <1>3, <2>1
<1>4. CASE ~(exited = "badly" \/ Truncated)
  <2>1. Cardinality(Items(k)) = 2
    BY <1>1, <1>2, <1>4 DEF Utters
  <2>2. ToolOutput = "all"
    BY <1>4, <2>1 DEF ToolOutput, Items
  <2> QED
    BY <1>2, <2>2
<1> QED
  BY <1>3, <1>4

LEMMA MeasureRight ==
  ASSUME AnswersInv, exited # "", question.of = "measure"
  PROVE  /\ ToolDiagnostics \in {"failed", "sound"} /\ question.truth = "sound"
         /\ exited = "well" => ToolDiagnostics = "sound"
<1>1. question \in Question /\ (exited # "badly" => Utters(question, collected.kept)) /\ collected.kept \in Seq(Uttered)
  BY EndedIs
<1>2. question.truth = "sound"
  BY <1>1, QuestionIs
<1>3. ToolDiagnostics \in {"failed", "sound"}
  BY DEF ToolDiagnostics
<1>4. ASSUME exited = "well" PROVE ToolDiagnostics = "sound"
  <2>1. Len(collected.kept) > 0 /\ collected.kept[Len(collected.kept)] = "measurement"
    BY <1>1, <1>2, <1>4 DEF Utters
  <2>2. Len(collected.kept) \in DOMAIN collected.kept
    BY <1>1, <2>1, LastIn
  <2>3. Mentions(collected.kept, "measurement")
    BY <2>1, <2>2 DEF Mentions
  <2> QED
    BY <1>4, <2>3 DEF ToolDiagnostics
<1> QED
  BY <1>2, <1>3, <1>4

(* Whatever is understood is what the tool said.                           *)
LEMMA AnswerIsWhole ==
  ASSUME AnswersInv, Answer
  PROVE  AnswersInv'
<1>1. /\ exited # "" /\ question \in Question /\ exited' = exited /\ question' = question /\ saying' = saying
      /\ collected' = collected
  BY EndedIs DEF Answer
<1>2. question.of \in {"probe", "path", "measure", "list"}
  BY <1>1, QuestionIs
<1>3. AnswersTypeOK'
  BY <1>1 DEF AnswersInv, AnswersTypeOK
<1>4. Truncated' = Truncated /\ EndsBadly' = EndsBadly
  BY <1>1 DEF Truncated, EndsBadly
<1>5. SUFFICES AnswersAreWhole'
  BY <1>1, <1>3, <1>4 DEF AnswersInv
<1> DEFINE u == understood'
<1>6. CASE question.of = "probe"
  <2>1. u = Probe
    BY <1>6 DEF Answer
  <2>2. /\ u \in {"failed", "live", "offline", "refused"}
        /\ u \in {"live", "offline", "refused"} => u = question.truth
        /\ ~Truncated /\ exited = "well" /\ ~Mentions(collected.kept, "object") => u = question.truth
    BY <1>1, <1>6, <2>1, ProbedRight
  <2> HIDE DEF u
  <2>3. /\ u \in {"live", "offline", "refused", "moved", "all"} => u = question.truth
        /\ u \notin {"elsewhere", "some", "permanent", "auth"}
    BY <2>2
  <2> QED
    BY <1>1, <1>4, <1>6, <2>2, <2>3 DEF AnswersAreWhole, u
<1>7. CASE question.of = "path"
  <2>1. u = PathOf
    BY <1>7 DEF Answer
  <2>2. /\ u \in {"auth", "permanent", "transient", "moved"}
        /\ u = "moved" => u = question.truth
        /\ u = "permanent" => question.truth \in {"gone", "denied"}
        /\ u = "auth" => question.truth = "denied"
        /\ ~Truncated /\ exited = "well" => u = question.truth
    BY <1>1, <1>7, <2>1, PathRight
  <2> HIDE DEF u
  <2>3. /\ u \in {"live", "offline", "refused", "moved", "all"} => u = question.truth
        /\ u \notin {"elsewhere", "some"}
    BY <2>2
  <2> QED
    BY <1>1, <1>4, <1>7, <2>2, <2>3 DEF AnswersAreWhole, u
<1>8. CASE question.of = "list"
  <2>1. u = ToolOutput
    BY <1>8 DEF Answer
  <2>2. /\ u \in {"failed", "all"} /\ question.truth = "all"
        /\ ~Truncated /\ exited = "well" => u = "all"
    BY <1>1, <1>8, <2>1, ListRight
  <2> HIDE DEF u
  <2>3. /\ u \in {"live", "offline", "refused", "moved", "all"} => u = question.truth
        /\ u \notin {"elsewhere", "some", "permanent", "auth"}
    BY <2>2
  <2> QED
    BY <1>1, <1>4, <1>8, <2>2, <2>3 DEF AnswersAreWhole, u
<1>9. CASE question.of = "measure"
  <2>1. u = ToolDiagnostics
    BY <1>9 DEF Answer
  <2>2. /\ u \in {"failed", "sound"} /\ question.truth = "sound"
        /\ exited = "well" => u = "sound"
    BY <1>1, <1>9, <2>1, MeasureRight
  <2> HIDE DEF u
  <2>3. /\ u \in {"live", "offline", "refused", "moved", "all"} => u = question.truth
        /\ u \notin {"elsewhere", "some", "permanent", "auth"}
    BY <2>2
  <2> QED
    BY <1>1, <1>4, <1>9, <2>2, <2>3 DEF AnswersAreWhole, u
<1> QED
  BY <1>2, <1>6, <1>7, <1>8, <1>9

(* A piece that is written passes from what is to be said to what was.     *)
LEMMA PieceMoves ==
  ASSUME NEW k \in Seq(Uttered), NEW s \in Seq(Uttered), s # <<>>
  PROVE  /\ s[1] \in Uttered /\ Tail(s) \in Seq(Uttered) /\ Len(s) \in Nat \ {0} /\ Len(Tail(s)) = Len(s) - 1
         /\ \A i \in 1 .. Len(Tail(s)) : Tail(s)[i] = s[i + 1]
         /\ k \o <<s[1]>> \in Seq(Uttered) /\ Len(k \o <<s[1]>>) = Len(k) + 1 /\ Len(k) \in Nat
         /\ \A i \in 1 .. Len(k) : (k \o <<s[1]>>)[i] = k[i]
         /\ (k \o <<s[1]>>)[Len(k) + 1] = s[1]
         /\ (k \o <<s[1]>>) \o Tail(s) = k \o s
<1>1. s[1] \in Uttered /\ Tail(s) \in Seq(Uttered) /\ Len(s) \in Nat \ {0} /\ Len(Tail(s)) = Len(s) - 1
  OBVIOUS
<1>2. \A i \in 1 .. Len(Tail(s)) : Tail(s)[i] = s[i + 1]
  OBVIOUS
<1>3. <<s[1]>> \in Seq(Uttered) /\ Len(<<s[1]>>) = 1 /\ <<s[1]>>[1] = s[1]
  BY <1>1
<1>4. s = <<s[1]>> \o Tail(s)
  <2>1. s = <<Head(s)>> \o Tail(s) /\ Head(s) = s[1]
    BY HeadTailProperties
  <2> QED
    BY <2>1
<1>5. (k \o <<s[1]>>) \o Tail(s) = k \o (<<s[1]>> \o Tail(s))
  BY <1>1, <1>3, ConcatAssociative
<1> DEFINE one == <<s[1]>>
<1>6. one \in Seq(Uttered) /\ Len(one) = 1 /\ one[1] = s[1]
  BY <1>3
<1> HIDE DEF one
<1>7. /\ k \o one \in Seq(Uttered) /\ Len(k \o one) = Len(k) + 1 /\ Len(k) \in Nat
      /\ \A i \in 1 .. Len(k) : (k \o one)[i] = k[i]
      /\ (k \o one)[Len(k) + 1] = s[1]
  <2>1. /\ k \o one \in Seq(Uttered) /\ Len(k \o one) = Len(k) + Len(one)
        /\ \A i \in 1 .. Len(k) + Len(one) : (k \o one)[i] = IF i <= Len(k) THEN k[i] ELSE one[i - Len(k)]
    BY <1>6, ConcatProperties
  <2>2. Len(k) \in Nat
    OBVIOUS
  <2>3. \A i \in 1 .. Len(k) : (k \o one)[i] = k[i]
    BY <1>6, <2>1, <2>2
  <2>4. (k \o one)[Len(k) + 1] = one[1]
    <3>1. /\ Len(k) + 1 \in 1 .. Len(k) + Len(one) /\ ~(Len(k) + 1 <= Len(k))
          /\ (Len(k) + 1) - Len(k) = 1
      BY <1>6, <2>2
    <3> QED
      BY <2>1, <3>1
  <2> QED
    BY <1>6, <2>1, <2>2, <2>3, <2>4
<1> QED
  BY <1>1, <1>2, <1>4, <1>5, <1>7 DEF one

LEMMA LaterIs ==
  ASSUME NEW all \in Seq(Uttered), Len(all) > Limit
  PROVE  /\ SubSeq(all, 2, Len(all)) \in Seq(Uttered) /\ Len(SubSeq(all, 2, Len(all))) = Len(all) - 1
         /\ Len(all) \in Nat /\ Len(all) > 2
         /\ \A i \in 1 .. Len(all) - 1 : SubSeq(all, 2, Len(all))[i] = all[i + 1]
<1>1. Limit \in Nat \ {0, 1} /\ Len(all) \in Nat
  BY AnswersAssumption
<1>2. Len(all) > 2
  BY <1>1
<1> QED
  BY <1>1, <1>2

LEMMA SpokenStep ==
  ASSUME NEW q, NEW a \in Seq(Uttered), NEW b \in Seq(Uttered), NEW d \in Seq(Uttered),
         SpokenOnly(a, q), SpokenOnly(b, q),
         \A i \in 1 .. Len(d) : (\E j \in 1 .. Len(a) : d[i] = a[j]) \/ (\E j \in 1 .. Len(b) : d[i] = b[j])
  PROVE  SpokenOnly(d, q)
BY DEF SpokenOnly

LEMMA WrittenIsKept ==
  ASSUME AnswersInv, WriteOutput
  PROVE  AnswersInv'
<1> DEFINE k == collected.kept
           s == saying
           all == k \o <<s[1]>>
<1>1. /\ k \in Seq(Uttered) /\ s \in Seq(Uttered) /\ s # <<>> /\ saying' = Tail(s)
      /\ exited = "" /\ exited' = exited /\ question' = question /\ understood = "" /\ understood' = ""
      /\ collected.dropped \in Nat
      /\ question \in Question \cup {Unasked}
  <2>1. collected \in [kept : Seq(Uttered), dropped : Nat]
    BY DEF AnswersInv, AnswersTypeOK
  <2>2. collected.kept \in Seq(Uttered) /\ collected.dropped \in Nat
    BY <2>1
  <2> QED
    BY <2>2 DEF AnswersInv, AnswersTypeOK, WriteOutput
<1>2. collected' = IF Len(all) <= Limit THEN [collected EXCEPT !.kept = all]
                   ELSE [kept |-> IF TailOutput(question.of) THEN SubSeq(all, 2, Len(all)) ELSE k,
                         dropped |-> collected.dropped + 1]
  BY DEF WriteOutput
<1>3. collected = [kept |-> k, dropped |-> collected.dropped]
  BY DEF AnswersInv, AnswersTypeOK
<1>4. /\ s[1] \in Uttered /\ Tail(s) \in Seq(Uttered) /\ Len(s) \in Nat \ {0} /\ Len(Tail(s)) = Len(s) - 1
      /\ \A i \in 1 .. Len(Tail(s)) : Tail(s)[i] = s[i + 1]
      /\ all \in Seq(Uttered) /\ Len(all) = Len(k) + 1 /\ Len(k) \in Nat
      /\ \A i \in 1 .. Len(k) : all[i] = k[i]
      /\ all[Len(k) + 1] = s[1]
      /\ all \o Tail(s) = k \o s
  BY <1>1, PieceMoves
<1> DEFINE kept2 == IF Len(all) <= Limit THEN all ELSE IF TailOutput(question.of) THEN SubSeq(all, 2, Len(all)) ELSE k
           dropped2 == IF Len(all) <= Limit THEN collected.dropped ELSE collected.dropped + 1
<1>5. collected'.kept = kept2 /\ collected'.dropped = dropped2 /\ collected' = [kept |-> kept2, dropped |-> dropped2]
  <2>1. CASE Len(all) <= Limit
    <3>1. collected' = [collected EXCEPT !.kept = all] /\ kept2 = all /\ dropped2 = collected.dropped
      BY <1>2, <2>1
    <3> HIDE DEF kept2, dropped2, all, k
    <3> QED
      BY <1>3, <3>1
  <2>2. CASE ~(Len(all) <= Limit)
    BY <1>2, <2>2
  <2> QED
    BY <2>1, <2>2
<1> HIDE DEF all, k, s
<1>6. /\ kept2 \in Seq(Uttered)
      /\ \A i \in 1 .. Len(kept2) : \E j \in 1 .. Len(all) : kept2[i] = all[j]
      /\ TailOutput(question.of) => Len(kept2) > 0 /\ kept2[Len(kept2)] = s[1]
  <2>1. CASE Len(all) <= Limit
    <3>1. kept2 = all
      BY <2>1
    <3> HIDE DEF kept2
    <3> QED
      BY <1>4, <3>1
  <2>2. CASE ~(Len(all) <= Limit) /\ TailOutput(question.of)
    <3>1. kept2 = SubSeq(all, 2, Len(all))
      BY <2>2
    <3>2. Len(all) > Limit
      BY <1>4, <2>2, AnswersAssumption
    <3> HIDE DEF kept2
    <3>3. /\ kept2 \in Seq(Uttered) /\ Len(kept2) = Len(all) - 1 /\ Len(all) \in Nat /\ Len(all) > 2
          /\ \A i \in 1 .. Len(all) - 1 : kept2[i] = all[i + 1]
      BY <1>4, <3>1, <3>2, LaterIs
    <3>4. \A i \in 1 .. Len(kept2) : \E j \in 1 .. Len(all) : kept2[i] = all[j]
      BY <3>3
    <3>5. Len(kept2) > 0 /\ kept2[Len(kept2)] = all[Len(k) + 1]
      BY <1>4, <3>3
    <3> QED
      BY <1>4, <3>3, <3>4, <3>5
  <2>3. CASE ~(Len(all) <= Limit) /\ ~TailOutput(question.of)
    <3>1. kept2 = k
      BY <2>3
    <3> HIDE DEF kept2
    <3>2. \A i \in 1 .. Len(k) : i \in 1 .. Len(all) /\ k[i] = all[i]
      BY <1>4
    <3> QED
      BY <1>1, <2>3, <3>1, <3>2
  <2> QED
    BY <2>1, <2>2, <2>3
<1>7. dropped2 \in Nat /\ (dropped2 = 0 => kept2 = all /\ collected.dropped = 0)
  <2>1. collected.dropped \in Nat /\ \A n \in Nat : n + 1 \in Nat /\ n + 1 # 0
    BY <1>1, MoreThanNone
  <2>2. CASE Len(all) <= Limit
    BY <2>1, <2>2
  <2>3. CASE ~(Len(all) <= Limit)
    BY <2>1, <2>3
  <2> QED
    BY <2>2, <2>3
<1> HIDE DEF kept2, dropped2
<1>8. AnswersTypeOK'
  <2>1. collected' \in [kept : Seq(Uttered), dropped : Nat]
    BY <1>5, <1>6, <1>7
  <2> QED
    BY <1>1, <1>4, <2>1 DEF AnswersTypeOK
<1>9. question # Unasked
  BY <1>1 DEF AnswersInv, s
<1>10. question \in Question /\ SpokenOnly(k, question) /\ SpokenOnly(s, question)
  BY <1>1, <1>9 DEF AnswersInv, k, s
<1>11. SpokenOnly(Tail(s), question)
  <2>1. \A i \in 1 .. Len(Tail(s)) : i + 1 \in 1 .. Len(s) /\ Tail(s)[i] = s[i + 1]
    <3>1. \A i \in 1 .. Len(s) - 1 : i + 1 \in 1 .. Len(s)
      BY <1>4
    <3> QED
      BY <1>4, <3>1
  <2>2. \A i \in 1 .. Len(Tail(s)) :
          (\E j \in 1 .. Len(s) : Tail(s)[i] = s[j]) \/ (\E j \in 1 .. Len(s) : Tail(s)[i] = s[j])
    BY <2>1
  <2>3. Tail(s) \in Seq(Uttered) /\ s \in Seq(Uttered) /\ SpokenOnly(s, question)
    BY <1>1, <1>4, <1>10
  <2> QED
    BY <2>2, <2>3, SpokenStep
<1>12. SpokenOnly(kept2, question)
  <2>1. \A i \in 1 .. Len(all) : (\E j \in 1 .. Len(k) : all[i] = k[j]) \/ (\E j \in 1 .. Len(s) : all[i] = s[j])
    BY <1>4
  <2>2. ASSUME NEW i \in 1 .. Len(kept2)
        PROVE  (\E j \in 1 .. Len(k) : kept2[i] = k[j]) \/ (\E j \in 1 .. Len(s) : kept2[i] = s[j])
    <3>1. PICK m \in 1 .. Len(all) : kept2[i] = all[m]
      BY <1>6
    <3> QED
      BY ONLY <2>1, <3>1
  <2> QED
    BY <1>1, <1>6, <1>10, <2>2, SpokenStep
<1>13. ASSUME dropped2 = 0 PROVE Utters(question, kept2 \o Tail(s))
  <2>1. Utters(question, k \o s)
    BY <1>1, <1>7, <1>9, <1>13 DEF AnswersInv, k, s
  <2> QED
    BY <1>4, <1>7, <1>13, <2>1
<1>14. ASSUME question.of = "measure"
       PROVE  IF Tail(s) = <<>> THEN Utters(question, kept2) ELSE Utters(question, Tail(s))
  <2>1. question.truth = "sound" /\ TailOutput(question.of)
    BY <1>10, <1>14, QuestionIs DEF TailOutput
  <2>2. Utters(question, s)
    BY <1>1, <1>14 DEF AnswersInv, s
  <2>3. s[Len(s)] = "measurement"
    BY <2>1, <2>2 DEF Utters
  <2>4. \A o : Utters(question, o) <=> Len(o) > 0 /\ o[Len(o)] = "measurement"
    BY <2>1 DEF Utters
  <2>5. CASE Tail(s) = <<>>
    <3>1. Len(s) = 1
      <4>1. Len(Tail(s)) = 0
        BY <2>5, EmptySeq
      <4>2. Len(s) \in Nat /\ Len(s) - 1 = 0
        BY <1>4, <4>1
      <4> QED
        BY <4>2
    <3>2. Len(kept2) > 0 /\ kept2[Len(kept2)] = "measurement"
      BY <1>6, <2>1, <2>3, <3>1
    <3> QED
      BY <2>4, <2>5, <3>2
  <2>6. CASE Tail(s) # <<>>
    <3>1. Len(Tail(s)) > 0
      BY <1>4, <2>6, EmptySeq
    <3>2. Tail(s)[Len(Tail(s))] = s[Len(s)]
      BY <1>4, <3>1
    <3> QED
      BY <2>3, <2>4, <2>6, <3>1, <3>2
  <2> QED
    BY <2>5, <2>6
<1> QED
  BY <1>1, <1>5, <1>8, <1>9, <1>11, <1>12, <1>13, <1>14 DEF AnswersInv, AnswersAreWhole

LEMMA AskedIsWhole ==
  ASSUME AnswersInv, AskTool
  PROVE  AnswersInv'
<1>1. /\ question = Unasked /\ saying = <<>> /\ exited = "" /\ collected.dropped = 0 /\ collected.kept = <<>>
      /\ understood = "" /\ exited' = "" /\ understood' = "" /\ collected' = collected
      /\ collected \in [kept : Seq(Uttered), dropped : Nat]
  BY DEF AskTool, AnswersInv, AnswersTypeOK
<1>2. PICK q \in Question, noise \in Noise : question' = q /\ \E said \in Speech(q) : saying' = noise \o said
  BY DEF AskTool
<1>3. SpokenOnly(saying', q) /\ Utters(q, saying')
  <2>1. PICK said \in Speech(q) : saying' = noise \o said
    BY <1>2
  <2> QED
    BY <2>1, NoiseAhead
<1>4. saying' \in Seq(Uttered)
  BY <1>3 DEF SpokenOnly
<1>5. AnswersTypeOK'
  BY <1>1, <1>2, <1>4 DEF AnswersTypeOK
<1>6. SpokenOnly(<<>>, q)
  BY EmptySeq DEF SpokenOnly
<1>7. <<>> \o saying' = saying'
  BY <1>4, ConcatEmptySeq
<1>8. q # Unasked
  BY QuestionIs
<1>9. q.of = "measure" => saying' # <<>>
  <2>1. ASSUME q.of = "measure" PROVE Len(saying') > 0
    <3>1. q.truth = "sound"
      BY <2>1, QuestionIs
    <3> QED
      BY <1>3, <3>1 DEF Utters
  <2> QED
    BY <2>1, EmptySeq
<1> QED
  BY <1>1, <1>2, <1>3, <1>5, <1>6, <1>7, <1>8, <1>9 DEF AnswersInv, AnswersAreWhole

LEMMA EndsAsItIs ==
  ASSUME AnswersInv, ToolExits \/ Killed
  PROVE  AnswersInv'
<1>1. /\ exited = "" /\ question # Unasked /\ understood = "" /\ understood' = "" /\ collected' = collected
      /\ question' = question /\ question \in Question \cup {Unasked}
      /\ saying \in Seq(Uttered) /\ collected \in [kept : Seq(Uttered), dropped : Nat]
      /\ SpokenOnly(collected.kept, question) /\ SpokenOnly(saying, question)
  BY DEF ToolExits, Killed, AnswersInv, AnswersTypeOK
<1>2. <<>> \in Seq(Uttered) /\ SpokenOnly(<<>>, question)
  BY EmptySeq DEF SpokenOnly
<1>3. EndsBadly' = EndsBadly
  BY <1>1 DEF EndsBadly
<1>4. CASE ToolExits
  <2>1. saying = <<>> /\ saying' = <<>> /\ exited' = IF EndsBadly THEN "badly" ELSE "well"
    BY <1>4 DEF ToolExits
  <2>2. AnswersTypeOK'
    BY <1>1, <1>2, <2>1 DEF AnswersTypeOK
  <2>3. exited' # "" /\ (exited' = "well" => ~EndsBadly)
    BY <2>1
  <2>4. collected.dropped = 0 => Utters(question, collected.kept \o saying)
    BY <1>1 DEF AnswersInv
  <2>5. question.of = "measure" => Utters(question, collected.kept)
    BY <1>1, <2>1 DEF AnswersInv
  <2> QED
    BY <1>1, <1>3, <2>1, <2>2, <2>3, <2>4, <2>5 DEF AnswersInv, AnswersAreWhole
<1>5. CASE Killed
  <2>1. saying' = <<>> /\ exited' = "badly"
    BY <1>5 DEF Killed
  <2>2. AnswersTypeOK'
    BY <1>1, <1>2, <2>1 DEF AnswersTypeOK
  <2> QED
    BY <1>1, <1>2, <2>1, <2>2 DEF AnswersInv, AnswersAreWhole
<1> QED
  BY <1>4, <1>5

LEMMA AnswersInvInit == AnswersInit => AnswersInv
<1> SUFFICES ASSUME AnswersInit PROVE AnswersInv
  OBVIOUS
<1>1. /\ question = Unasked /\ saying = <<>> /\ exited = "" /\ understood = ""
      /\ collected.kept = <<>> /\ collected.dropped = 0 /\ collected = [kept |-> <<>>, dropped |-> 0]
  BY DEF AnswersInit
<1>2. <<>> \in Seq(Uttered)
  BY EmptySeq
<1>3. AnswersTypeOK
  <2>1. \A k \in Seq(Uttered), n \in Nat : [kept |-> k, dropped |-> n] \in [kept : Seq(Uttered), dropped : Nat]
    OBVIOUS
  <2>2. collected \in [kept : Seq(Uttered), dropped : Nat]
    <3>1. collected = [kept |-> <<>>, dropped |-> 0] /\ <<>> \in Seq(Uttered) /\ 0 \in Nat
      BY <1>1, <1>2
    <3> QED
      BY ONLY <2>1, <3>1
  <2> QED
    BY <1>1, <1>2, <2>2 DEF AnswersTypeOK
<1>4. question.of # "measure"
  BY <1>1, QuestionIs
<1> QED
  BY <1>1, <1>3, <1>4 DEF AnswersInv, AnswersAreWhole

LEMMA AnswersInvStep == AnswersInv /\ [AnswersNext]_answers => AnswersInv'
<1> SUFFICES ASSUME AnswersInv, [AnswersNext]_answers PROVE AnswersInv'
  OBVIOUS
<1>1. CASE AskTool
  BY <1>1, AskedIsWhole
<1>2. CASE WriteOutput
  BY <1>2, WrittenIsKept
<1>3. CASE ToolExits \/ Killed
  BY <1>3, EndsAsItIs
<1>4. CASE Answer
  BY <1>4, AnswerIsWhole
<1>5. CASE UNCHANGED answers
  <2>1. /\ question' = question /\ saying' = saying /\ collected' = collected /\ exited' = exited
        /\ understood' = understood
    BY <1>5 DEF answers
  <2>2. Truncated' = Truncated /\ EndsBadly' = EndsBadly /\ AnswersTypeOK' = AnswersTypeOK
    BY <2>1 DEF Truncated, EndsBadly, AnswersTypeOK
  <2>3. AnswersAreWhole' = AnswersAreWhole
    BY <2>1, <2>2 DEF AnswersAreWhole
  <2> QED
    BY <2>1, <2>2, <2>3 DEF AnswersInv
<1> QED
  BY <1>1, <1>2, <1>3, <1>4, <1>5 DEF AnswersNext
----------------------------------------------------------------------------
(* Listing *)

Numbered == 1 .. Archives + 1

ListWalk ==
  [at : {"user", "page", "list", "info", "over"}, of : Owner, cursor : Nat, pages : Nat,
   renewed : BOOLEAN, left : SUBSET Numbered, got : SUBSET (Owner \X Numbered),
   stood : SUBSET Numbered, passed : SUBSET Numbered, capped : BOOLEAN]

ListingTypeOK ==
  /\ published \in [Owner -> SUBSET Numbered]
  /\ walk = NoWalk \/ walk \in ListWalk

(* An account is remembered of the channel it is, or none is.              *)
AccountsInv ==
  /\ DOMAIN logins = Owner /\ \A c \in Owner : logins[c] = Unlooked \/ logins[c] = {c}
  /\ walk.at = "page" => logins[walk.of] = {walk.of}

(* What a listing has to bring: an archive of the horizon that stands and  *)
(* whose start can be read.                                                *)
ToBring(n) == n \in walk.stood \ walk.passed /\ n >= Since /\ <<walk.of, n>> \notin undated
Brought(n) == <<walk.of, n>> \in walk.got

(* What is to bring and is not yet brought is ahead of the listing: older  *)
(* than the cursor of its pages, or among those it still looks up.         *)
WalkInv ==
  walk # NoWalk =>
    /\ walk.stood \subseteq published[walk.of]
    /\ \A archive \in walk.got : archive[1] = walk.of
    /\ walk.at = "page" => \A n \in Numbered :
         ToBring(n) => Brought(n) \/ walk.cursor = Newest \/ n < walk.cursor
    /\ walk.at = "user" => walk.cursor = Newest
    /\ walk.at = "info" /\ ~walk.capped => \A n \in Numbered : ToBring(n) => Brought(n) \/ n \in walk.left
    /\ walk.at = "over" /\ ~walk.capped => \A n \in Numbered : ToBring(n) => Brought(n)

ListingInv == ListingTypeOK /\ AccountsInv /\ WalkInv

LEMMA NumberedIs == Numbered \subseteq Nat \ {0} /\ \A n \in Numbered : n <= Archives + 1
  BY ListingAssumption DEF Numbered

LEMMA SomeNumbered ==
  ASSUME NEW S \in SUBSET Numbered
  PROVE  IsFiniteSet(S)
<1>1. IsFiniteSet(Numbered)
  BY FS_Interval, ListingAssumption DEF Numbered
<1> QED
  BY <1>1, FS_Subset

LEMMA OldestIs ==
  ASSUME NEW S \in SUBSET Numbered, S # {}
  PROVE  Min(S) \in S /\ \A n \in S : Min(S) <= n
<1>1. \E x \in S : \A y \in S : x <= y
  BY HasLeast, NumberedIs
<1> QED
  BY <1>1 DEF Min

LEMMA LatestIs ==
  ASSUME NEW S \in SUBSET Numbered, S # {}
  PROVE  Max(S) \in S /\ \A n \in S : n <= Max(S)
<1>1. \E x \in S : \A y \in S : y <= x
  <2>1. S \in SUBSET Nat /\ Archives + 1 \in Nat /\ \A n \in S : n <= Archives + 1
    BY NumberedIs, ListingAssumption
  <2> QED
    BY <2>1, HasGreatest
<1>2. \E x \in S : \A y \in S : x >= y
  BY <1>1, NumberedIs
<1> QED
  BY <1>2, NumberedIs DEF Max

LEMMA WalkIs ==
  ASSUME NEW w, w = NoWalk \/ w \in ListWalk
  PROVE  (w # NoWalk) <=> w.at \in {"user", "page", "list", "info", "over"}
  BY DEF NoWalk, ListWalk

(* The newest of some archives are newer than the rest of them.            *)
LEMMA NewestFirst ==
  ASSUME NEW all \in SUBSET Numbered, NEW bound \in Nat,
         NEW n \in all, Cardinality({m \in all : m > n}) < bound,
         NEW old \in all, ~(Cardinality({m \in all : m > old}) < bound)
  PROVE  old < n
<1>1. n \in Nat /\ old \in Nat /\ all \subseteq Nat
  BY NumberedIs
<1> SUFFICES ASSUME n <= old PROVE FALSE
  BY <1>1
<1> DEFINE Newer(k) == {m \in all : m > k}
<1>2. Newer(old) \subseteq Newer(n)
  <2> SUFFICES ASSUME NEW m \in all, m > old PROVE m > n
    OBVIOUS
  <2> QED
    BY <1>1
<1>3. IsFiniteSet(Newer(n)) /\ IsFiniteSet(Newer(old))
  BY SomeNumbered
<1>4. Cardinality(Newer(old)) <= Cardinality(Newer(n))
  BY <1>2, <1>3, FS_Subset
<1>5. Cardinality(Newer(n)) \in Nat /\ Cardinality(Newer(old)) \in Nat
  BY <1>3, FS_CardinalityType
<1> QED
  BY <1>4, <1>5

LEMMA PageIs ==
  ASSUME ListingTypeOK, walk \in ListWalk
  PROVE  /\ PageOf(walk.of) \in SUBSET Numbered
         /\ \A n \in PageOf(walk.of), old \in Older(walk.of) \ PageOf(walk.of) : old < n
<1>1. Older(walk.of) \in SUBSET Numbered
  BY DEF ListingTypeOK, ListWalk, Older
<1> QED
  BY <1>1, NewestFirst, ListingAssumption DEF PageOf

LEMMA ListingInvInit == ListingInit => ListingInv
<1> SUFFICES ASSUME ListingInit PROVE ListingInv
  OBVIOUS
<1>1. 1 .. Archives - 1 \in SUBSET Numbered /\ {1} \in SUBSET Numbered
  BY ListingAssumption DEF Numbered
<1>2. published \in [Owner -> SUBSET Numbered]
  BY <1>1 DEF ListingInit
<1> QED
  BY <1>2 DEF ListingInit, ListingInv, ListingTypeOK, AccountsInv, WalkInv, NoWalk

(* A listing that begins has everything ahead of it.                       *)
LEMMA AskingIs ==
  ASSUME ListingTypeOK, NEW c \in Owner, NEW phase \in {"user", "page", "list"}
  PROVE  /\ Asking(c, phase) \in ListWalk /\ Asking(c, phase).at = phase /\ Asking(c, phase).of = c
         /\ Asking(c, phase).cursor = Newest /\ Asking(c, phase).got = {}
         /\ Asking(c, phase).stood = published[c]
  BY DEF Asking, ListWalk, ListingTypeOK, Newest

LEMMA FallBackIs ==
  ASSUME ListingInv, walk \in ListWalk, FallBack, published' = published, logins' = logins, undated' = undated
  PROVE  ListingInv'
<1>1. walk # NoWalk
  BY WalkIs DEF ListWalk
<1>2. /\ Asking(walk.of, "list") \in ListWalk /\ walk.stood \subseteq published[walk.of]
      /\ Asking(walk.of, "list").at = "list" /\ Asking(walk.of, "list").got = {}
      /\ Asking(walk.of, "list").of = walk.of
  BY <1>1, AskingIs DEF ListingInv, WalkInv, ListWalk
<1>3. /\ walk' \in ListWalk /\ walk'.at = "list" /\ walk'.of = walk.of /\ walk'.stood = walk.stood
      /\ walk'.got = {}
  BY <1>2 DEF FallBack, ListWalk
<1> QED
  BY <1>2, <1>3 DEF ListingInv, ListingTypeOK, AccountsInv, WalkInv

LEMMA PageStep ==
  ASSUME ListingInv, AnswerPage
  PROVE  ListingInv'
<1> USE DEF ListingInv
<1>1. walk \in ListWalk /\ walk.at = "page" /\ walk # NoWalk /\ logins[walk.of] = {walk.of}
  BY WalkIs DEF AnswerPage, ListingTypeOK, AccountsInv, NoWalk
<1>2. (CHOOSE c \in logins[walk.of] : TRUE) = walk.of
  BY <1>1
<1> DEFINE page == PageOf(walk.of)
           answer == Dated(walk.of, page)
           last == answer.reached \/ ~MoreAfter(walk.of)
           next == IF page = {} THEN walk.cursor ELSE Min(page)
<1> DEFINE Turned(account) ==
             LET turned == Dated(account, PageOf(account))
                 over == turned.reached \/ ~MoreAfter(account)
             IN  [Answered(walk) EXCEPT
                    !.got = @ \cup {<<account, n>> : n \in turned.held},
                    !.pages = @ + 1,
                    !.cursor = IF PageOf(account) = {} THEN @ ELSE Min(PageOf(account)),
                    !.at = IF over \/ walk.pages + 1 = MaxPages THEN "over" ELSE "page",
                    !.capped = ~over /\ walk.pages + 1 = MaxPages]
<1>3. walk' = Turned(walk.of)
  <2>1. walk' = Turned(CHOOSE c \in logins[walk.of] : TRUE)
    BY DEF AnswerPage
  <2> HIDE DEF Turned
  <2> QED
    BY <1>2, <2>1
<1>4. page \in SUBSET Numbered /\ \A n \in page, old \in Older(walk.of) \ page : old < n
  BY <1>1, PageIs
<1>5. answer.held = {n \in page : <<walk.of, n>> \notin undated}
      /\ (answer.reached <=> \E n \in answer.held : n < Since)
  BY DEF Dated
<1>6. next \in Nat /\ (page # {} => next \in page /\ \A n \in page : next <= n)
  BY <1>1, <1>4, OldestIs, NumberedIs DEF ListWalk
<1> DEFINE brought == walk.got \cup {<<walk.of, n>> : n \in answer.held}
<1>7. brought \in SUBSET (Owner \X Numbered)
  <2>1. \A n \in answer.held : <<walk.of, n>> \in Owner \X Numbered
    BY <1>1, <1>4, <1>5 DEF ListWalk
  <2> QED
    BY <1>1, <2>1 DEF ListWalk
<1> HIDE DEF page, answer, last, next, brought
<1> DEFINE phase == IF last \/ walk.pages + 1 = MaxPages THEN "over" ELSE "page"
           cut == ~last /\ walk.pages + 1 = MaxPages
<1>8. /\ walk' \in ListWalk /\ walk'.of = walk.of /\ walk'.stood = walk.stood /\ walk'.passed = walk.passed
      /\ walk'.got = brought /\ walk'.cursor = next /\ walk'.at = phase /\ walk'.capped = cut
  <2>1. phase \in {"over", "page"} /\ cut \in BOOLEAN
    OBVIOUS
  <2>2. /\ Answered(walk) \in ListWalk /\ Answered(walk).of = walk.of /\ Answered(walk).stood = walk.stood
        /\ Answered(walk).passed = walk.passed /\ Answered(walk).got = walk.got
        /\ Answered(walk).cursor = walk.cursor
    BY <1>1 DEF Answered, ListWalk
  <2>3. walk' = [Answered(walk) EXCEPT !.got = brought, !.pages = Answered(walk).pages + 1,
                                       !.cursor = next, !.at = phase, !.capped = cut]
    BY <1>3, <2>2 DEF brought, next, last, answer, page
  <2> HIDE DEF phase, cut
  <2> QED
    <3>1. next \in Nat
      BY <1>6
    <3> DEFINE base == Answered(walk)
    <3>2. base \in ListWalk
      BY <2>2
    <3>3. walk' = [base EXCEPT !.got = brought, !.pages = base.pages + 1, !.cursor = next, !.at = phase, !.capped = cut]
      BY <2>3
    <3>4. walk' = [at |-> phase, of |-> base.of, cursor |-> next, pages |-> base.pages + 1,
                   renewed |-> base.renewed, left |-> base.left, got |-> brought,
                   stood |-> base.stood, passed |-> base.passed, capped |-> cut]
      <4> HIDE DEF base
      <4> QED
        BY <3>2, <3>3 DEF ListWalk
    <3>5. base.of \in Owner /\ base.pages + 1 \in Nat /\ base.renewed \in BOOLEAN
          /\ base.left \in SUBSET Numbered /\ base.stood \in SUBSET Numbered /\ base.passed \in SUBSET Numbered
      BY <3>2 DEF ListWalk
    <3> HIDE DEF base
    <3>6. walk' \in ListWalk
      BY <1>7, <2>1, <3>1, <3>4, <3>5 DEF ListWalk
    <3>7. /\ walk'.of = base.of /\ walk'.stood = base.stood /\ walk'.passed = base.passed
          /\ walk'.got = brought /\ walk'.cursor = next /\ walk'.at = phase /\ walk'.capped = cut
      BY <3>4
    <3> USE DEF base
    <3> QED
      BY <2>2, <3>6, <3>7
<1>9. UNCHANGED <<published, undated, logins>>
  BY DEF AnswerPage
<1>10. \A archive \in brought : archive[1] = walk.of
  BY <1>1 DEF brought, WalkInv
<1>11. ASSUME NEW n \in Numbered, ToBring(n)
       PROVE  /\ <<walk.of, n>> \in brought \/ next = Newest \/ n < next
              /\ last => <<walk.of, n>> \in brought
  <2>1. n \in published[walk.of] /\ n >= Since /\ n \in Nat /\ <<walk.of, n>> \notin undated
    BY <1>1, <1>11, NumberedIs DEF WalkInv, ToBring
  <2>2. CASE Brought(n)
    BY <2>2 DEF Brought, brought
  <2>3. CASE n \in page
    BY <1>5, <2>1, <2>3 DEF brought
  <2>4. CASE ~Brought(n) /\ n \notin page
    <3>1. walk.cursor = Newest \/ n < walk.cursor
      BY <1>1, <1>11, <2>4 DEF WalkInv
    <3>2. n \in Older(walk.of) \ page
      BY <2>1, <2>4, <3>1 DEF Older
    <3>3. MoreAfter(walk.of)
      BY <3>2 DEF MoreAfter, page
    <3>4. \A m \in page : n < m
      BY <1>4, <3>2
    <3>5. ~answer.reached
      <4> SUFFICES ASSUME NEW m \in page, m < Since PROVE FALSE
        BY <1>5
      <4> QED
        BY <1>4, <2>1, <3>4, NumberedIs, ListingAssumption
    <3>6. ~last
      BY <3>3, <3>5 DEF last
    <3>7. next = Newest \/ n < next
      BY <1>6, <3>1, <3>4 DEF next
    <3> QED
      BY <3>6, <3>7
  <2> QED
    BY <2>2, <2>3, <2>4
<1>12. ListingTypeOK' /\ AccountsInv'
  BY <1>1, <1>8, <1>9 DEF ListingTypeOK, AccountsInv
<1>13. WalkInv'
  <2>1. \A n \in Numbered : ToBring(n)' => ToBring(n)
    BY <1>8, <1>9 DEF ToBring
  <2> QED
    BY <1>1, <1>8, <1>9, <1>10, <1>11, <2>1 DEF WalkInv, Brought
<1> QED
  BY <1>12, <1>13

(* The listing tool gives the newest there are, and each is looked up      *)
(* before an older one.                                                    *)
LEMMA ToolStep ==
  ASSUME ListingInv, ListFlat \/ Look \/ LookedAll
  PROVE  ListingInv'
<1> USE DEF ListingInv
<1>1. walk \in ListWalk /\ walk # NoWalk /\ walk.at \in {"list", "info"}
  BY WalkIs DEF ListFlat, Look, LookedAll, ListingTypeOK, NoWalk
<1>2. UNCHANGED <<published, undated, logins>>
  BY DEF ListFlat, Look, LookedAll
<1>3. ASSUME walk' = NoWalk PROVE ListingInv'
  BY <1>2, <1>3 DEF ListingTypeOK, AccountsInv, WalkInv, NoWalk
<1>4. ASSUME walk' \in ListWalk, walk'.of = walk.of, walk'.stood = walk.stood, walk'.at \in {"info", "over"},
             \A archive \in walk'.got : archive[1] = walk.of,
             walk'.at = "info" /\ ~walk'.capped =>
               \A n \in Numbered : ToBring(n)' => Brought(n)' \/ n \in walk'.left,
             walk'.at = "over" /\ ~walk'.capped => \A n \in Numbered : ToBring(n)' => Brought(n)'
      PROVE  ListingInv'
  <2>1. ListingTypeOK' /\ AccountsInv'
    BY <1>2, <1>4 DEF ListingTypeOK, AccountsInv
  <2>2. WalkInv'
    BY <1>1, <1>2, <1>4 DEF WalkInv
  <2> QED
    BY <2>1, <2>2
<1>5. ASSUME ListFlat, walk' # NoWalk PROVE ListingInv'
  <2> DEFINE all == published[walk.of]
             looked == {n \in all : Cardinality({m \in all : m > n}) < MaxDescribed}
             cut == looked # all
  <2>1. walk' = [walk EXCEPT !.left = looked, !.capped = cut, !.at = "info"]
    BY <1>5 DEF ListFlat
  <2>2. looked \in SUBSET Numbered /\ cut \in BOOLEAN /\ (~cut => looked = all) /\ walk.stood \subseteq all
    BY <1>1 DEF ListingTypeOK, ListWalk, WalkInv
  <2> HIDE DEF looked, cut
  <2>3. /\ walk' \in ListWalk /\ walk'.of = walk.of /\ walk'.stood = walk.stood /\ walk'.at = "info"
        /\ walk'.got = walk.got /\ walk'.left = looked /\ walk'.capped = cut
    BY <1>1, <2>1, <2>2 DEF ListWalk
  <2>4. \A archive \in walk'.got : archive[1] = walk.of
    BY <1>1, <2>3 DEF WalkInv
  <2>5. ~walk'.capped => \A n \in Numbered : ToBring(n)' => n \in walk'.left
    BY <2>2, <2>3 DEF ToBring
  <2> QED
    BY <1>4, <2>3, <2>4, <2>5
<1>6. ASSUME Look PROVE ListingInv'
  <2> DEFINE n == Max(walk.left)
  <2>1. n \in walk.left /\ (\A m \in walk.left : m <= n) /\ n \in Numbered /\ walk.left \in SUBSET Numbered
    <3>1. walk.left \in SUBSET Numbered /\ walk.left # {}
      BY <1>1, <1>6 DEF Look, ListWalk
    <3> QED
      BY <3>1, LatestIs
  <2>2. walk.at = "info"
    BY <1>6 DEF Look
  <2> DEFINE dated == <<walk.of, n>> \notin undated
             brought == IF dated THEN walk.got \cup {<<walk.of, n>>} ELSE walk.got
             phase == IF dated /\ n < Since THEN "over" ELSE walk.at
  <2>3. \/ n \in published[walk.of] /\ walk' = [walk EXCEPT !.left = @ \ {n}, !.got = brought, !.at = phase]
        \/ walk' = [walk EXCEPT !.left = @ \ {n}, !.passed = @ \cup {n}]
    BY <1>1, <1>6 DEF Look, ListWalk
  <2>4. brought \in SUBSET (Owner \X Numbered) /\ phase \in {"over", "info"} /\ walk.got \subseteq brought
        /\ (phase = "over" => dated /\ n < Since) /\ (dated => <<walk.of, n>> \in brought)
        /\ \A archive \in brought : archive[1] = walk.of
    BY <1>1, <2>1, <2>2 DEF ListWalk, WalkInv
  <2> HIDE DEF n, dated, brought, phase
  <2>5. ASSUME walk' = [walk EXCEPT !.left = @ \ {n}, !.got = brought, !.at = phase]
        PROVE  ListingInv'
    <3>1. /\ walk' \in ListWalk /\ walk'.of = walk.of /\ walk'.stood = walk.stood /\ walk'.passed = walk.passed
          /\ walk'.at = phase /\ walk'.got = brought /\ walk'.left = walk.left \ {n} /\ walk'.capped = walk.capped
      BY <1>1, <2>1, <2>4, <2>5 DEF ListWalk
    <3>2. \A m \in Numbered : ToBring(m)' => ToBring(m)
      BY <1>2, <3>1 DEF ToBring
    <3>3. ~walk.capped => \A m \in Numbered : ToBring(m) => <<walk.of, m>> \in walk.got \/ m \in walk.left
      BY <1>1, <2>2 DEF WalkInv, Brought
    <3>4. ToBring(n) => dated
      BY DEF ToBring, dated
    <3>5. ~walk'.capped => \A m \in Numbered : ToBring(m)' => Brought(m)' \/ m \in walk'.left
      BY <2>4, <3>1, <3>2, <3>3, <3>4 DEF Brought
    <3>6. ASSUME phase = "over", ~walk'.capped, NEW m \in Numbered, ToBring(m)' PROVE Brought(m)'
      <4>1. m \notin walk.left
        BY <2>1, <2>4, <3>2, <3>6, NumberedIs, ListingAssumption DEF ToBring
      <4> QED
        BY <3>1, <3>5, <3>6, <4>1
    <3> QED
      BY <1>4, <2>4, <3>1, <3>5, <3>6
  <2>6. ASSUME walk' = [walk EXCEPT !.left = @ \ {n}, !.passed = @ \cup {n}]
        PROVE  ListingInv'
    <3>1. /\ walk' \in ListWalk /\ walk'.of = walk.of /\ walk'.stood = walk.stood
          /\ walk'.passed = walk.passed \cup {n} /\ walk'.at = "info" /\ walk'.got = walk.got
          /\ walk'.left = walk.left \ {n} /\ walk'.capped = walk.capped
      BY <1>1, <2>1, <2>2, <2>6 DEF ListWalk
    <3>2. \A m \in Numbered : ToBring(m)' => ToBring(m) /\ m # n
      BY <1>2, <3>1 DEF ToBring
    <3>3. ~walk.capped => \A m \in Numbered : ToBring(m) => <<walk.of, m>> \in walk.got \/ m \in walk.left
      BY <1>1, <2>2 DEF WalkInv, Brought
    <3>4. \A archive \in walk'.got : archive[1] = walk.of
      BY <1>1, <3>1 DEF WalkInv
    <3>5. ~walk'.capped => \A m \in Numbered : ToBring(m)' => Brought(m)' \/ m \in walk'.left
      BY <3>1, <3>2, <3>3 DEF Brought
    <3> QED
      BY <1>4, <3>1, <3>4, <3>5
  <2> QED
    BY <2>3, <2>5, <2>6
<1>7. ASSUME LookedAll PROVE ListingInv'
  <2>1. /\ walk' \in ListWalk /\ walk'.of = walk.of /\ walk'.stood = walk.stood /\ walk'.passed = walk.passed
        /\ walk'.at = "over" /\ walk'.got = walk.got /\ walk'.capped = walk.capped
        /\ walk.at = "info" /\ walk.left = {}
    BY <1>1, <1>7 DEF LookedAll, ListWalk
  <2>2. \A m \in Numbered : ToBring(m)' => ToBring(m)
    BY <1>2, <2>1 DEF ToBring
  <2>3. \A archive \in walk'.got : archive[1] = walk.of
    BY <1>1, <2>1 DEF WalkInv
  <2>4. ~walk'.capped => \A m \in Numbered : ToBring(m)' => Brought(m)'
    BY <1>1, <2>1, <2>2 DEF WalkInv, Brought
  <2> QED
    BY <1>4, <2>1, <2>3, <2>4
<1>8. ListFlat => walk' = NoWalk \/ walk' # NoWalk
  OBVIOUS
<1> QED
  BY <1>3, <1>5, <1>6, <1>7

(* What is published and removed meanwhile.                                *)
LEMMA ArchivesStep ==
  ASSUME ListingInv, PublishArchive \/ RemoveArchive
  PROVE  ListingInv'
<1> USE DEF ListingInv
<1>1. ASSUME PublishArchive PROVE ListingInv'
  <2>1. PICK c \in Prolific : /\ Max(published[c] \cup {0}) < Archives
                             /\ published' = [published EXCEPT ![c] = @ \cup {Max(@ \cup {0}) + 1}]
    BY <1>1 DEF PublishArchive
  <2>2. c \in Owner /\ published[c] \in SUBSET Numbered
    BY <2>1, ListingAssumption DEF ListingTypeOK
  <2> DEFINE newest == Max(published[c] \cup {0})
  <2>3. newest \in published[c] \cup {0}
    <3>1. published[c] \cup {0} \in SUBSET Nat /\ Archives + 1 \in Nat
          /\ \A n \in published[c] \cup {0} : n <= Archives + 1
      <4>1. \A n \in published[c] : n \in Nat /\ n <= Archives + 1
        BY <2>2, NumberedIs
      <4>2. Archives + 1 \in Nat /\ 0 <= Archives + 1
        BY ListingAssumption
      <4> QED
        BY <4>1, <4>2
    <3>2. \E x \in published[c] \cup {0} : \A y \in published[c] \cup {0} : y <= x
      BY <3>1, HasGreatest
    <3>3. \E x \in published[c] \cup {0} : \A y \in published[c] \cup {0} : x >= y
      BY <3>1, <3>2
    <3> QED
      BY <3>3 DEF Max
  <2>4. newest + 1 \in Numbered
    BY <2>1, <2>2, <2>3, NumberedIs, ListingAssumption DEF Numbered
  <2> HIDE DEF newest
  <2>5. published' = [published EXCEPT ![c] = published[c] \cup {newest + 1}]
    BY <2>1 DEF newest
  <2>6. published' \in [Owner -> SUBSET Numbered] /\ \A o \in Owner : published[o] \subseteq published'[o]
    BY <2>2, <2>4, <2>5 DEF ListingTypeOK
  <2>7. UNCHANGED <<undated, logins, walk>>
    BY <1>1 DEF PublishArchive
  <2>8. walk # NoWalk => walk.of \in Owner
    BY DEF ListingTypeOK, ListWalk
  <2>9. \A n \in Numbered : (ToBring(n)' <=> ToBring(n)) /\ (Brought(n)' <=> Brought(n))
    BY <2>7 DEF ToBring, Brought
  <2> QED
    BY <2>6, <2>7, <2>8, <2>9 DEF ListingTypeOK, AccountsInv, WalkInv
<1>2. ASSUME RemoveArchive PROVE ListingInv'
  <2>a. PICK c \in Prolific : \E n \in published[c] :
          /\ published' = [published EXCEPT ![c] = @ \ {n}]
          /\ walk' = IF walk # NoWalk /\ walk.of = c THEN [walk EXCEPT !.stood = @ \ {n}] ELSE walk
    BY <1>2 DEF RemoveArchive
  <2>1. PICK n \in published[c] :
          /\ published' = [published EXCEPT ![c] = @ \ {n}]
          /\ walk' = IF walk # NoWalk /\ walk.of = c THEN [walk EXCEPT !.stood = @ \ {n}] ELSE walk
    BY <2>a
  <2>2. published' \in [Owner -> SUBSET Numbered]
    BY <2>1 DEF ListingTypeOK
  <2>3. UNCHANGED <<undated, logins>>
    BY <1>2 DEF RemoveArchive
  <2>4. CASE walk = NoWalk
    BY <2>1, <2>2, <2>3, <2>4 DEF ListingTypeOK, AccountsInv, WalkInv, NoWalk
  <2>5. CASE walk # NoWalk
    <3>1. walk \in ListWalk
      BY <2>5 DEF ListingTypeOK
    <3>2. walk.stood \subseteq published[walk.of] /\ walk.of \in Owner
      BY <2>5, <3>1 DEF WalkInv, ListWalk
    <3>3. /\ walk' \in ListWalk /\ walk'.stood \subseteq walk.stood /\ walk'.stood \subseteq published'[walk.of]
          /\ walk'.of = walk.of /\ walk'.at = walk.at /\ walk'.cursor = walk.cursor /\ walk'.left = walk.left
          /\ walk'.got = walk.got /\ walk'.passed = walk.passed /\ walk'.capped = walk.capped
      <4>1. CASE walk.of = c
        <5>1. walk' = [walk EXCEPT !.stood = walk.stood \ {n}]
          BY <2>1, <2>5, <4>1
        <5>2. published'[walk.of] = published[walk.of] \ {n}
          BY <2>1, <3>2, <4>1 DEF ListingTypeOK
        <5>3. walk.stood \ {n} \in SUBSET Numbered
          BY <3>1 DEF ListWalk
        <5>4. walk' \in ListWalk
          BY <3>1, <5>1, <5>3 DEF ListWalk
        <5>5. walk'.stood = walk.stood \ {n}
          BY <3>1, <5>1 DEF ListWalk
        <5> QED
          BY <3>1, <3>2, <5>1, <5>2, <5>4, <5>5 DEF ListWalk
      <4>2. CASE walk.of # c
        <5>1. walk' = walk
          BY <2>1, <4>2
        <5>2. published'[walk.of] = published[walk.of]
          BY <2>1, <3>2, <4>2 DEF ListingTypeOK
        <5> QED
          BY <3>1, <3>2, <5>1, <5>2
      <4> QED
        BY <4>1, <4>2
    <3>4. \A m \in Numbered : (ToBring(m)' => ToBring(m)) /\ (Brought(m)' <=> Brought(m))
      BY <2>3, <3>3 DEF ToBring, Brought
    <3>5. ListingTypeOK' /\ AccountsInv'
      BY <2>2, <2>3, <3>3 DEF ListingTypeOK, AccountsInv
    <3>6. WalkInv'
      BY <2>5, <3>3, <3>4 DEF WalkInv
    <3> QED
      BY <3>5, <3>6
  <2> QED
    BY <2>4, <2>5
<1> QED
  BY <1>1, <1>2

LEMMA AccountStep ==
  ASSUME ListingInv, Describe \/ RefuseToken \/ AnswerFails \/ AnswerUser
  PROVE  ListingInv'
<1> USE DEF ListingInv
<1>1. ASSUME Describe PROVE ListingInv'
  <2>1. PICK c \in Owner : walk' = Asking(c, IF logins[c] = Unlooked THEN "user" ELSE "page")
    BY <1>1 DEF Describe
  <2> DEFINE phase == IF logins[c] = Unlooked THEN "user" ELSE "page"
  <2>2. phase \in {"user", "page", "list"} /\ phase \in {"user", "page"} /\ (phase = "page" => logins[c] = {c})
    BY DEF AccountsInv
  <2> HIDE DEF phase
  <2>3. /\ walk' \in ListWalk /\ walk'.at = phase /\ walk'.of = c /\ walk'.cursor = Newest
        /\ walk'.got = {} /\ walk'.stood = published[c]
    BY <2>1, <2>2, AskingIs DEF phase
  <2>4. UNCHANGED <<published, undated, logins>>
    BY <1>1 DEF Describe
  <2>5. ListingTypeOK' /\ AccountsInv'
    BY <2>2, <2>3, <2>4 DEF ListingTypeOK, AccountsInv
  <2>6. WalkInv'
    BY <2>2, <2>3, <2>4 DEF WalkInv
  <2> QED
    BY <2>5, <2>6
<1>2. ASSUME RefuseToken \/ AnswerFails \/ AnswerUser
      PROVE  walk \in ListWalk /\ walk # NoWalk /\ UNCHANGED <<published, undated>>
  BY <1>2, WalkIs DEF RefuseToken, AnswerFails, AnswerUser, InTwo, ListingTypeOK, NoWalk
<1>3. ASSUME RefuseToken PROVE ListingInv'
  <2>1. UNCHANGED logins
    BY <1>3 DEF RefuseToken
  <2>2. CASE FallBack
    BY <1>2, <1>3, <2>1, <2>2, FallBackIs
  <2>3. CASE walk' = [walk EXCEPT !.renewed = TRUE]
    <3>1. /\ walk' \in ListWalk /\ walk'.of = walk.of /\ walk'.at = walk.at /\ walk'.cursor = walk.cursor
          /\ walk'.stood = walk.stood /\ walk'.got = walk.got /\ walk'.left = walk.left
          /\ walk'.passed = walk.passed /\ walk'.capped = walk.capped
      BY <1>2, <1>3, <2>3 DEF ListWalk
    <3>2. \A n \in Numbered : (ToBring(n)' <=> ToBring(n)) /\ (Brought(n)' <=> Brought(n))
      BY <1>2, <1>3, <3>1 DEF ToBring, Brought
    <3>3. ListingTypeOK' /\ AccountsInv'
      BY <1>2, <1>3, <2>1, <3>1 DEF ListingTypeOK, AccountsInv
    <3>4. WalkInv'
      BY <1>2, <1>3, <3>1, <3>2 DEF WalkInv
    <3> QED
      BY <3>3, <3>4
  <2> QED
    BY <1>3, <2>2, <2>3 DEF RefuseToken
<1>4. ASSUME AnswerFails PROVE ListingInv'
  BY <1>2, <1>4, FallBackIs DEF AnswerFails
<1>5. ASSUME AnswerUser PROVE ListingInv'
  <2>1. PICK account \in Owner : UserID(account)
    BY <1>5 DEF AnswerUser
  <2>2. CASE account # walk.of
    BY <1>2, <1>5, <2>1, <2>2, FallBackIs DEF UserID
  <2>3. CASE account = walk.of
    <3>1. /\ logins' = [logins EXCEPT ![walk.of] = {walk.of}] /\ walk' = [Answered(walk) EXCEPT !.at = "page"]
      BY <2>1, <2>3 DEF UserID
    <3>2. walk.at = "user" /\ walk.cursor = Newest
      BY <1>2, <1>5 DEF AnswerUser, WalkInv
    <3>3. /\ walk' \in ListWalk /\ walk'.of = walk.of /\ walk'.at = "page" /\ walk'.cursor = walk.cursor
          /\ walk'.stood = walk.stood /\ walk'.got = walk.got
      BY <1>2, <1>5, <3>1 DEF ListWalk, Answered
    <3>4. walk.of \in Owner
      BY <1>2, <1>5 DEF ListWalk
    <3>5. ListingTypeOK' /\ AccountsInv'
      BY <1>2, <1>5, <3>1, <3>3, <3>4 DEF ListingTypeOK, AccountsInv
    <3>6. WalkInv'
      BY <1>2, <1>5, <3>2, <3>3 DEF WalkInv
    <3> QED
      BY <3>5, <3>6
  <2> QED
    BY <2>2, <2>3
<1> QED
  BY <1>1, <1>3, <1>4, <1>5

LEMMA ListingInvStep == ListingInv /\ [ListingNext]_listing => ListingInv'
<1> SUFFICES ASSUME ListingInv, [ListingNext]_listing PROVE ListingInv'
  OBVIOUS
<1>1. ASSUME Shutdown \/ RecordFound PROVE ListingInv'
  BY <1>1 DEF Shutdown, RecordFound, ListingInv, ListingTypeOK, AccountsInv, WalkInv, NoWalk
<1>2. ASSUME UNCHANGED <<published, undated, logins, walk>> PROVE ListingInv'
  BY <1>2 DEF ListingInv, ListingTypeOK, AccountsInv, WalkInv, ToBring, Brought
<1> QED
  BY <1>1, <1>2, AccountStep, PageStep, ToolStep, ArchivesStep DEF ListingNext, RefuseFromNowOn, listing

LEMMA ListingInvReaches == ListingInv => ListingReaches
<1> SUFFICES ASSUME ListingInv, walk.at = "over" PROVE ListingReaches
  BY DEF ListingReaches
<1>1. walk # NoWalk /\ walk \in ListWalk
  BY DEF NoWalk, ListingInv, ListingTypeOK
<1>2. \A n \in walk.stood \ walk.passed : n \in Numbered
  BY <1>1 DEF ListWalk
<1> QED
  BY <1>1, <1>2 DEF ListingReaches, ListingInv, WalkInv, ToBring, Brought

(* helix.go, Videos, and fetch.go, List: whichever way a channel is        *)
(* listed, whatever is published, removed, refused or unanswered meanwhile *)
(* and however its archives fall on pages, what ended within its bounds    *)
(* holds the horizon, and nobody else's broadcasts.                        *)
THEOREM ListingHolds == ListingSpec => []ListingReaches
  BY ListingInvInit, ListingInvStep, ListingInvReaches, PTL DEF ListingSpec

----------------------------------------------------------------------------
(* Titles *)

Observation == [at : Nat, says : Says]

(* The observation that is the latest of an instant, and of those the last *)
(* one stored.                                                             *)
IsLatest(taken, at, i) ==
  /\ i \in UpTo(taken, at)
  /\ \A j \in UpTo(taken, at) : taken[j].at < taken[i].at \/ (taken[j].at = taken[i].at /\ j <= i)

LEMMA ObservationsAre ==
  ASSUME NEW taken \in Seq(Observation)
  PROVE  /\ Len(taken) \in Nat /\ DOMAIN taken = 1 .. Len(taken)
         /\ \A i \in DOMAIN taken : i \in Nat /\ i <= Len(taken) /\ taken[i] \in Observation
                                   /\ taken[i].at \in Nat
<1>1. Len(taken) \in Nat /\ DOMAIN taken = 1 .. Len(taken)
  OBVIOUS
<1>2. \A i \in DOMAIN taken : taken[i] \in Observation
  OBVIOUS
<1>3. \A o \in Observation : o.at \in Nat
  BY DEF Observation
<1> QED
  BY <1>1, <1>2, <1>3

LEMMA SomeFollows ==
  ASSUME NEW taken \in Seq(Observation), NEW at \in Nat, UpTo(taken, at) # {}
  PROVE  IsLatest(taken, at, Follows(taken, at))
<1> DEFINE Ats == {taken[i].at : i \in UpTo(taken, at)}
<1>1. /\ \A i \in DOMAIN taken : i \in Nat /\ i <= Len(taken) /\ taken[i].at \in Nat
      /\ Len(taken) \in Nat
  BY ObservationsAre
<1>2. \A i \in UpTo(taken, at) : i \in DOMAIN taken /\ taken[i].at <= at
  BY DEF UpTo
<1>3. PICK most \in Ats : \A x \in Ats : x <= most
  <2>1. Ats \in SUBSET Nat /\ Ats # {} /\ \A x \in Ats : x <= at
    BY <1>1, <1>2
  <2> QED
    BY <2>1, HasGreatest
<1> DEFINE Finals == {i \in UpTo(taken, at) : taken[i].at = most}
<1>4. PICK i \in Finals : \A j \in Finals : j <= i
  <2>1. Finals \in SUBSET Nat /\ Finals # {} /\ \A j \in Finals : j <= Len(taken)
    BY <1>1, <1>2, <1>3
  <2> QED
    BY <1>1, <2>1, HasGreatest
<1>5. IsLatest(taken, at, i)
  <2> SUFFICES ASSUME NEW j \in UpTo(taken, at)
               PROVE  taken[j].at < taken[i].at \/ (taken[j].at = taken[i].at /\ j <= i)
    BY <1>4 DEF IsLatest
  <2>1. taken[j].at <= most /\ taken[i].at = most /\ taken[j].at \in Nat /\ most \in Nat
    BY <1>1, <1>2, <1>3, <1>4
  <2>2. taken[j].at = most => j <= i
    BY <1>4
  <2> QED
    BY <2>1, <2>2
<1> QED
  BY <1>5 DEF Follows, IsLatest

LEMMA OneFollows ==
  ASSUME NEW taken \in Seq(Observation), NEW at \in Nat, NEW i, IsLatest(taken, at, i)
  PROVE  UpTo(taken, at) # {} /\ Follows(taken, at) = i
<1>1. \A j \in UpTo(taken, at) : j \in Nat /\ taken[j].at \in Nat
  BY ObservationsAre DEF UpTo
<1>2. UpTo(taken, at) # {} /\ IsLatest(taken, at, Follows(taken, at))
  BY SomeFollows DEF IsLatest
<1> QED
  BY <1>1, <1>2 DEF IsLatest

(* What an observation changes of what the titles say.                     *)
LEMMA Observed ==
  ASSUME NEW taken \in Seq(Observation), NEW at \in Nat, NEW says \in Says
  PROVE  LET new == ObserveTitle(taken, at, says)
         IN  /\ new \in Seq(Observation) /\ Tells(new, at, says)
             /\ Tells(taken, at, says) => new = taken
             /\ \A a \in Nat : \A s : a < at /\ Tells(taken, a, s) => Tells(new, a, s)
<1> DEFINE one == [at |-> at, says |-> says]
           more == Append(taken, one)
<1>1. Repeats(taken, at, says) <=> Tells(taken, at, says)
  BY DEF Repeats, Tells
<1>2. CASE Tells(taken, at, says)
  BY <1>1, <1>2 DEF ObserveTitle
<1>3. CASE ~Tells(taken, at, says)
  <2>1. ObserveTitle(taken, at, says) = more
    BY <1>1, <1>3 DEF ObserveTitle
  <2>2. /\ one \in Observation /\ more \in Seq(Observation) /\ Len(taken) \in Nat
        /\ DOMAIN more = 1 .. Len(taken) + 1 /\ DOMAIN taken = 1 .. Len(taken)
        /\ more[Len(taken) + 1] = one /\ \A i \in 1 .. Len(taken) : more[i] = taken[i]
    BY DEF Observation
  <2>3. \A i \in DOMAIN more : i \in Nat /\ more[i].at \in Nat
    BY <2>2, ObservationsAre
  <2>4. UpTo(more, at) = UpTo(taken, at) \cup {Len(taken) + 1}
    BY <2>2 DEF UpTo
  <2>5. \A a \in Nat : a < at => UpTo(more, a) = UpTo(taken, a)
    BY <2>2 DEF UpTo
  <2> HIDE DEF more
  <2>6. IsLatest(more, at, Len(taken) + 1)
    <3> SUFFICES ASSUME NEW j \in UpTo(more, at)
                 PROVE  more[j].at < at \/ (more[j].at = at /\ j <= Len(taken) + 1)
      BY <2>2, <2>4 DEF IsLatest
    <3>1. j \in DOMAIN more /\ more[j].at <= at
      BY DEF UpTo
    <3> QED
      BY <2>2, <2>3, <3>1
  <2>7. Tells(more, at, says)
    BY <2>2, <2>6, OneFollows DEF Tells
  <2>8. ASSUME NEW a \in Nat, NEW s, a < at, Tells(taken, a, s) PROVE Tells(more, a, s)
    <3> DEFINE i == Follows(taken, a)
    <3>1. UpTo(taken, a) # {} /\ taken[i].says = s
      BY <2>8 DEF Tells
    <3>2. IsLatest(taken, a, i)
      BY <3>1, SomeFollows
    <3>3. \A j \in UpTo(taken, a) : more[j] = taken[j]
      BY <2>2 DEF UpTo
    <3>4. IsLatest(more, a, i) /\ more[i] = taken[i]
      BY <2>5, <2>8, <3>2, <3>3 DEF IsLatest
    <3> HIDE DEF i
    <3> QED
      BY <2>2, <3>1, <3>4, OneFollows DEF Tells
  <2> QED
    BY <1>3, <2>1, <2>2, <2>7, <2>8
<1> QED
  BY <1>2, <1>3

(* What an import does with one of a sidecar's observations.               *)
ReplayOne(listed, some, i, so) == IF i \in some THEN ObserveTitle(so, listed[i].at, listed[i].says) ELSE so

(* What it does with the first ones, one by one.                           *)
Replays(taken, listed, some, n) ==
  {f \in [0 .. n -> Seq(Observation)] :
     f[0] = taken /\ \A i \in 1 .. n : f[i] = ReplayOne(listed, some, i, f[i - 1])}

LEMMA ReplayOneIs ==
  ASSUME NEW listed \in Seq(Observation), NEW some, NEW i \in DOMAIN listed, NEW so \in Seq(Observation)
  PROVE  /\ ReplayOne(listed, some, i, so) \in Seq(Observation)
         /\ listed[i] \in Observation /\ listed[i].at \in Nat /\ listed[i].says \in Says
<1>1. listed[i] \in Observation /\ listed[i].at \in Nat
  BY ObservationsAre
<1>2. listed[i].says \in Says
  BY <1>1 DEF Observation
<1> QED
  BY <1>1, <1>2, Observed DEF ReplayOne

LEMMA ReplayExists ==
  ASSUME NEW taken \in Seq(Observation), NEW listed \in Seq(Observation), NEW some
  PROVE  Replays(taken, listed, some, Len(listed)) # {}
<1> DEFINE Fails == {n \in 0 .. Len(listed) : Replays(taken, listed, some, n) = {}}
<1>1. Len(listed) \in Nat /\ DOMAIN listed = 1 .. Len(listed)
  OBVIOUS
<1>2. SUFFICES ASSUME Fails # {} PROVE FALSE
  BY <1>1
<1>3. PICK n \in Fails : \A m \in Fails : n <= m
  <2>1. Fails \in SUBSET Nat
    BY <1>1
  <2> HIDE DEF Fails
  <2> QED
    BY <1>2, <2>1, HasLeast
<1>4. n \in Nat /\ n <= Len(listed) /\ Replays(taken, listed, some, n) = {}
  BY <1>1, <1>3
<1>5. CASE n = 0
  <2>1. [i \in 0 .. 0 |-> taken] \in Replays(taken, listed, some, 0)
    BY DEF Replays
  <2> QED
    BY <1>4, <1>5, <2>1
<1>6. CASE n # 0
  <2>1. n - 1 \in 0 .. Len(listed) /\ n - 1 \notin Fails
    BY <1>1, <1>3, <1>4, <1>6
  <2>2. PICK f : f \in Replays(taken, listed, some, n - 1)
    BY <2>1
  <2> DEFINE g == [i \in 0 .. n |-> IF i = n THEN ReplayOne(listed, some, n, f[n - 1]) ELSE f[i]]
  <2>3. /\ f \in [0 .. n - 1 -> Seq(Observation)] /\ f[0] = taken
        /\ \A i \in 1 .. n - 1 : f[i] = ReplayOne(listed, some, i, f[i - 1])
    BY <2>2 DEF Replays
  <2>4. n \in DOMAIN listed /\ f[n - 1] \in Seq(Observation)
    BY <1>1, <1>4, <1>6, <2>3
  <2>5. ReplayOne(listed, some, n, f[n - 1]) \in Seq(Observation)
    BY <2>4, ReplayOneIs
  <2>6. g \in [0 .. n -> Seq(Observation)] /\ g[0] = taken
    BY <1>4, <1>6, <2>3, <2>5
  <2>7. \A i \in 1 .. n : g[i] = ReplayOne(listed, some, i, g[i - 1])
    BY <1>4, <1>6, <2>3
  <2> QED
    BY <1>4, <2>6, <2>7 DEF Replays
<1> QED
  BY <1>5, <1>6

(* A restored sidecar is what those steps make of the history.             *)
LEMMA ReplayIs ==
  ASSUME NEW taken \in Seq(Observation), NEW listed \in Seq(Observation), NEW some
  PROVE  \E f \in Replays(taken, listed, some, Len(listed)) : Replay(taken, listed, some) = f[Len(listed)]
<1> DEFINE Makes(f) == [i \in 0 .. Len(listed) |->
                          IF i = 0 THEN taken
                          ELSE IF i \in some THEN ObserveTitle(f[i - 1], listed[i].at, listed[i].says) ELSE f[i - 1]]
           after == CHOOSE f : f = Makes(f)
<1>1. Len(listed) \in Nat
  OBVIOUS
<1>2. PICK f : f \in Replays(taken, listed, some, Len(listed))
  BY ReplayExists
<1>3. /\ f \in [0 .. Len(listed) -> Seq(Observation)] /\ f[0] = taken
      /\ \A i \in 1 .. Len(listed) : f[i] = ReplayOne(listed, some, i, f[i - 1])
  BY <1>2 DEF Replays
<1>4. f = Makes(f)
  <2>1. \A i \in 0 .. Len(listed) : f[i] = Makes(f)[i]
    BY <1>1, <1>3 DEF ReplayOne
  <2> QED
    BY <1>3, <2>1
<1>5. after = Makes(after)
  BY <1>4
<1>6. Replay(taken, listed, some) = after[Len(listed)]
  BY DEF Replay
<1> HIDE DEF after
<1>7. after[0] = taken
  BY <1>1, <1>5
<1>8. \A i \in 1 .. Len(listed) : after[i] = ReplayOne(listed, some, i, after[i - 1])
  <2> TAKE i \in 1 .. Len(listed)
  <2>1. i \in 0 .. Len(listed) /\ i # 0
    BY <1>1
  <2>2. after[i] = Makes(after)[i]
    BY <1>5
  <2> QED
    BY <2>1, <2>2 DEF ReplayOne
<1>9. DOMAIN after = 0 .. Len(listed) /\ after = [i \in 0 .. Len(listed) |-> after[i]]
  BY <1>5
<1>10. \A i \in 0 .. Len(listed) : after[i] = f[i]
  <2> DEFINE Differ == {i \in 0 .. Len(listed) : after[i] # f[i]}
  <2> SUFFICES ASSUME Differ # {} PROVE FALSE
    OBVIOUS
  <2>1. PICK i \in Differ : \A j \in Differ : i <= j
    <3>1. Differ \in SUBSET Nat
      BY <1>1
    <3> HIDE DEF Differ
    <3> QED
      BY <3>1, HasLeast
  <2>2. i # 0 /\ i \in 1 .. Len(listed) /\ i - 1 \in 0 .. Len(listed)
    BY <1>1, <1>3, <1>7, <2>1
  <2>3. after[i - 1] = f[i - 1]
    BY <2>1, <2>2
  <2> QED
    BY <1>3, <1>8, <2>1, <2>2, <2>3
<1> QED
  BY <1>1, <1>2, <1>6, <1>10

(* Whether the titles say of each instant of a list what the list says.    *)
TellsAll(taken, listed) == \A i \in DOMAIN listed : Tells(taken, listed[i].at, listed[i].says)

Ordered(listed) == \A i, j \in DOMAIN listed : i < j => listed[i].at < listed[j].at
Concur(one, other) == \A i \in DOMAIN one \cap DOMAIN other : one[i] = other[i]

(* What a replay leaves: what was told of an agreeing sidecar that was     *)
(* restored still is, and all of this one is told if all of it was         *)
(* replayed.                                                               *)
LEMMA ReplayTells ==
  ASSUME NEW taken \in Seq(Observation), NEW listed \in Seq(Observation), NEW some, Ordered(listed)
  PROVE  LET new == Replay(taken, listed, some)
         IN  /\ new \in Seq(Observation)
             /\ some = DOMAIN listed => TellsAll(new, listed)
             /\ \A other \in Seq(Observation) :
                  Ordered(other) /\ Concur(listed, other) /\ TellsAll(taken, other) => TellsAll(new, other)
<1>1. Len(listed) \in Nat /\ DOMAIN listed = 1 .. Len(listed)
  OBVIOUS
<1>2. PICK f \in Replays(taken, listed, some, Len(listed)) : Replay(taken, listed, some) = f[Len(listed)]
  BY ReplayIs
<1>3. /\ f \in [0 .. Len(listed) -> Seq(Observation)] /\ f[0] = taken
      /\ \A i \in 1 .. Len(listed) : f[i] = ReplayOne(listed, some, i, f[i - 1])
  BY <1>2 DEF Replays
<1>4. f[Len(listed)] \in Seq(Observation)
  BY <1>1, <1>3
<1>5. ASSUME NEW i \in 1 .. Len(listed)
      PROVE  /\ f[i - 1] \in Seq(Observation) /\ f[i] \in Seq(Observation)
             /\ listed[i].at \in Nat /\ listed[i].says \in Says
             /\ i \in some => Tells(f[i], listed[i].at, listed[i].says)
             /\ Tells(f[i - 1], listed[i].at, listed[i].says) => f[i] = f[i - 1]
             /\ \A a \in Nat : \A s : a < listed[i].at /\ Tells(f[i - 1], a, s) => Tells(f[i], a, s)
  <2>1. f[i - 1] \in Seq(Observation) /\ f[i] \in Seq(Observation) /\ i \in DOMAIN listed
        /\ f[i] = ReplayOne(listed, some, i, f[i - 1])
    <3>1. i \in 0 .. Len(listed) /\ i - 1 \in 0 .. Len(listed)
      BY <1>1
    <3> QED
      BY <1>1, <1>3, <3>1
  <2>2. listed[i].at \in Nat /\ listed[i].says \in Says
    BY <2>1, ReplayOneIs
  <2>3. CASE i \in some
    <3> DEFINE so   == f[i - 1]
               at   == listed[i].at
               says == listed[i].says
               new  == f[i]
    <3>1. new = ObserveTitle(so, at, says)
      BY <2>1, <2>3 DEF ReplayOne
    <3>2. so \in Seq(Observation) /\ new \in Seq(Observation) /\ at \in Nat /\ says \in Says
      BY <2>1, <2>2
    <3> HIDE DEF so, at, says, new
    <3>3. /\ Tells(new, at, says)
          /\ Tells(so, at, says) => new = so
          /\ \A a \in Nat : \A s : a < at /\ Tells(so, a, s) => Tells(new, a, s)
      BY <3>1, <3>2, Observed
    <3> QED
      BY <2>3, <3>2, <3>3 DEF so, at, says, new
  <2>4. CASE i \notin some
    <3>1. f[i] = f[i - 1]
      BY <2>1, <2>4 DEF ReplayOne
    <3> QED
      BY <2>1, <2>2, <2>4, <3>1
  <2> QED
    BY <2>3, <2>4
<1>6. ASSUME some = DOMAIN listed PROVE TellsAll(f[Len(listed)], listed)
  <2> DEFINE Fails == {n \in 0 .. Len(listed) : \E i \in 1 .. n : ~Tells(f[n], listed[i].at, listed[i].says)}
  <2>1. Fails = {}
    <3> SUFFICES ASSUME Fails # {} PROVE FALSE
      OBVIOUS
    <3>1. PICK n \in Fails : \A m \in Fails : n <= m
      <4>1. Fails \in SUBSET Nat
        BY <1>1
      <4> HIDE DEF Fails
      <4> QED
        BY <4>1, HasLeast
    <3>2. n \in 1 .. Len(listed) /\ n - 1 \in 0 .. Len(listed) /\ n - 1 \notin Fails
      BY <1>1, <3>1
    <3>3. PICK i \in 1 .. n : ~Tells(f[n], listed[i].at, listed[i].says)
      BY <3>1
    <3>4. i # n
      BY <1>5, <1>6, <1>1, <3>2, <3>3
    <3>5. i \in 1 .. n - 1 /\ i \in 1 .. Len(listed) /\ Tells(f[n - 1], listed[i].at, listed[i].says)
      BY <1>1, <3>2, <3>3, <3>4
    <3>6. listed[i].at < listed[n].at /\ listed[i].at \in Nat
      <4>1. i \in DOMAIN listed /\ n \in DOMAIN listed /\ i < n
        BY <1>1, <3>2, <3>5
      <4> QED
        BY <1>1, <1>5, <4>1 DEF Ordered
    <3> QED
      BY <1>5, <3>2, <3>3, <3>5, <3>6
  <2> QED
    BY <1>1, <2>1 DEF TellsAll
<1>7. ASSUME NEW other \in Seq(Observation), Ordered(other), Concur(listed, other), TellsAll(taken, other)
      PROVE  TellsAll(f[Len(listed)], other)
  <2> DEFINE Fails == {n \in 0 .. Len(listed) : ~TellsAll(f[n], other)}
  <2>1. Fails = {}
    <3> SUFFICES ASSUME Fails # {} PROVE FALSE
      OBVIOUS
    <3>1. PICK n \in Fails : \A m \in Fails : n <= m
      <4>1. Fails \in SUBSET Nat
        BY <1>1
      <4> HIDE DEF Fails
      <4> QED
        BY <4>1, HasLeast
    <3>2. n \in 1 .. Len(listed) /\ n - 1 \in 0 .. Len(listed) /\ TellsAll(f[n - 1], other) /\ ~TellsAll(f[n], other)
      BY <1>1, <1>3, <1>7, <3>1
    <3>3. Len(other) \in Nat /\ DOMAIN other = 1 .. Len(other) /\ \A i \in DOMAIN other : other[i].at \in Nat
      BY ObservationsAre
    <3>4. CASE n \in DOMAIN other
      <4>1. other[n] = listed[n]
        BY <1>1, <1>7, <3>2, <3>4 DEF Concur
      <4>2. f[n] = f[n - 1]
        BY <1>5, <3>2, <3>4, <4>1 DEF TellsAll
      <4> QED
        BY <3>2, <4>2
    <3>5. CASE n \notin DOMAIN other
      <4>1. ASSUME NEW i \in DOMAIN other PROVE other[i].at < listed[n].at
        <5>1. i < n /\ i \in DOMAIN listed
          BY <1>1, <3>2, <3>3, <3>5
        <5>2. other[i] = listed[i]
          BY <1>7, <5>1 DEF Concur
        <5> QED
          BY <1>1, <3>2, <5>1, <5>2 DEF Ordered
      <4>2. \A i \in DOMAIN other : Tells(f[n], other[i].at, other[i].says)
        BY <1>5, <3>2, <3>3, <4>1 DEF TellsAll
      <4> QED
        BY <3>2, <4>2 DEF TellsAll
    <3> QED
      BY <3>4, <3>5
  <2> QED
    BY <1>1, <2>1
<1> QED
  BY <1>2, <1>4, <1>6, <1>7

(* What is stored in the order of its instants is written as it is stored. *)
LEMMA HistoryInOrder ==
  ASSUME history \in Seq(Observation), Ordered(history)
  PROVE  TitleHistory = history
<1>1. /\ Len(history) \in Nat /\ DOMAIN history = 1 .. Len(history)
      /\ \A i \in DOMAIN history : i \in Nat /\ history[i].at \in Nat
  BY ObservationsAre
<1>2. ASSUME NEW i \in DOMAIN history PROVE Cardinality(Earlier(i)) = i - 1
  <2>1. Earlier(i) = 1 .. i - 1
    <3>1. \A j \in DOMAIN history : j < i => history[j].at < history[i].at
      BY DEF Ordered
    <3>2. \A j \in DOMAIN history : i < j => history[i].at < history[j].at
      BY DEF Ordered
    <3>3. \A j \in DOMAIN history : history[j].at < history[i].at \/ (history[j].at = history[i].at /\ j < i) <=> j < i
      BY <1>1, <3>1, <3>2
    <3> QED
      BY <1>1, <3>3 DEF Earlier
  <2>2. i - 1 \in Nat
    BY <1>1
  <2> QED
    BY <1>1, <2>1, <2>2, FS_Interval
<1>3. ASSUME NEW n \in DOMAIN history
      PROVE  (CHOOSE i \in DOMAIN history : Cardinality(Earlier(i)) = n - 1) = n
  <2>1. \A i \in DOMAIN history : Cardinality(Earlier(i)) = n - 1 <=> i = n
    BY <1>1, <1>2
  <2> QED
    BY <2>1
<1>4. TitleHistory = [n \in DOMAIN history |-> history[n]]
  <2> DEFINE Placed(n) == CHOOSE i \in DOMAIN history : Cardinality(Earlier(i)) = n - 1
  <2>1. TitleHistory = [n \in DOMAIN history |-> history[Placed(n)]]
    BY DEF TitleHistory
  <2>2. \A n \in DOMAIN history : Placed(n) = n
    BY <1>3
  <2> HIDE DEF Placed
  <2> QED
    BY <2>1, <2>2
<1> QED
  BY <1>1, <1>4

TitlesTypeOK ==
  /\ read \in Nat /\ gone \in BOOLEAN /\ history \in Seq(Observation)
  /\ sidecars \in [Titled -> Seq(Observation)] /\ restored \subseteq Titled

(* While the database stands it is in order and says what was read, and    *)
(* the sidecars are what it once began with.                               *)
StandsInv ==
  /\ Ordered(history) /\ \A i \in DOMAIN history : history[i].at <= read
  /\ \A h \in heard : h.at \in Nat /\ h.at <= read /\ Tells(history, h.at, h.says)
  /\ \A r \in Titled : Len(sidecars[r]) <= Len(history) /\ Concur(sidecars[r], history)
  /\ restored = {}

SidecarsInv ==
  \A r, o \in Titled : Ordered(sidecars[r]) /\ Concur(sidecars[r], sidecars[o])

TitlesInv ==
  /\ TitlesTypeOK /\ SidecarsInv
  /\ ~gone => StandsInv
  /\ \A r \in restored : TellsAll(history, sidecars[r])

LEMMA TitlesInvInit == TitlesInit => TitlesInv
<1> SUFFICES ASSUME TitlesInit PROVE TitlesInv
  OBVIOUS
<1>1. <<>> \in Seq(Observation) /\ DOMAIN <<>> = {} /\ Len(<<>>) = 0
  OBVIOUS
<1>2. \A r \in Titled : sidecars[r] = <<>>
  BY DEF TitlesInit
<1>3. TitlesTypeOK
  BY <1>1 DEF TitlesInit, TitlesTypeOK
<1>4. SidecarsInv
  BY <1>1, <1>2 DEF SidecarsInv, Ordered, Concur
<1>5. StandsInv
  BY <1>1, <1>2 DEF TitlesInit, StandsInv, Ordered, Concur
<1> QED
  BY <1>3, <1>4, <1>5 DEF TitlesInv, TitlesInit

LEMMA PollStep ==
  ASSUME TitlesInv, PollTitle
  PROVE  TitlesInv'
<1> USE DEF TitlesInv
<1>1. /\ ~gone /\ read' = read + 1 /\ UNCHANGED <<sidecars, gone, restored>>
      /\ TitlesTypeOK /\ StandsInv /\ SidecarsInv /\ read \in Nat /\ read' \in Nat
      /\ history \in Seq(Observation)
  BY DEF PollTitle, TitlesTypeOK
<1>2. SidecarsInv' /\ restored' = {}
  BY <1>1 DEF SidecarsInv, StandsInv
<1>4. CASE UNCHANGED <<heard, history>>
  <2>1. \A i \in DOMAIN history : history[i].at \in Nat /\ history[i].at <= read
    BY <1>1, ObservationsAre DEF StandsInv
  <2>2. (\A i \in DOMAIN history : history[i].at <= read') /\ \A h \in heard : h.at <= read'
    BY <1>1, <2>1 DEF StandsInv
  <2>3. \A at, says : Tells(history, at, says)' <=> Tells(history, at, says)
    BY <1>4 DEF Tells, UpTo, Follows
  <2>4. StandsInv'
    BY <1>1, <1>2, <1>4, <2>2, <2>3 DEF StandsInv, Ordered, Concur
  <2> QED
    BY <1>1, <1>2, <1>4, <2>4 DEF TitlesTypeOK
<1>5. ASSUME NEW says \in Says, heard' = heard \cup {[at |-> read', says |-> says]},
             history' = ObserveTitle(history, read', says)
      PROVE  TitlesInv'
  <2>1. /\ history' \in Seq(Observation) /\ Tells(history', read', says)
        /\ \A a \in Nat : \A s : a < read' /\ Tells(history, a, s) => Tells(history', a, s)
    BY <1>1, <1>5, Observed
  <2>2. \A h \in heard' : h.at \in Nat /\ h.at <= read' /\ Tells(history', h.at, h.says)
    <3>1. \A h \in heard : h.at \in Nat /\ h.at <= read /\ Tells(history, h.at, h.says)
      BY <1>1 DEF StandsInv
    <3>2. \A h \in heard : h.at \in Nat /\ h.at <= read' /\ Tells(history', h.at, h.says)
      BY <1>1, <2>1, <3>1
    <3> DEFINE nowTold == [at |-> read', says |-> says]
    <3>3. nowTold.at = read' /\ nowTold.says = says
      OBVIOUS
    <3> HIDE DEF nowTold
    <3>4. \A h \in heard' : h \in heard \/ h = nowTold
      BY <1>5 DEF nowTold
    <3> QED
      BY <1>1, <2>1, <3>2, <3>3, <3>4
  <2>3. /\ Ordered(history') /\ \A i \in DOMAIN history' : history'[i].at <= read'
        /\ \A r \in Titled : Len(sidecars'[r]) <= Len(history') /\ Concur(sidecars'[r], history')
    <3>1. /\ Len(history) \in Nat /\ DOMAIN history = 1 .. Len(history)
          /\ \A i \in DOMAIN history : history[i].at \in Nat /\ history[i].at <= read
          /\ Ordered(history) /\ \A r \in Titled : Len(sidecars[r]) <= Len(history) /\ Concur(sidecars[r], history)
      BY <1>1, ObservationsAre DEF StandsInv
    <3>2. CASE history' = history
      BY <1>1, <3>1, <3>2
    <3>3. CASE history' # history
      <4> DEFINE new == history'
      <4>1. new = Append(history, [at |-> read', says |-> says])
        BY <1>5, <3>3 DEF ObserveTitle
      <4>2. /\ Len(new) = Len(history) + 1 /\ DOMAIN new = 1 .. Len(history) + 1
            /\ \A i \in 1 .. Len(history) : new[i] = history[i]
            /\ new[Len(history) + 1].at = read'
        BY <1>1, <3>1, <4>1
      <4> HIDE DEF new
      <4>3. \A i \in DOMAIN new : i \in DOMAIN history \/ i = Len(history) + 1
        BY <3>1, <4>2
      <4>4. \A i \in DOMAIN history : new[i].at \in Nat /\ new[i].at <= read /\ new[i].at < read'
        BY <1>1, <3>1, <4>2
      <4>5. \A i \in DOMAIN new : new[i].at <= read'
        BY <1>1, <4>2, <4>3, <4>4
      <4>6. Ordered(new)
        <5> SUFFICES ASSUME NEW i \in DOMAIN new, NEW j \in DOMAIN new, i < j PROVE new[i].at < new[j].at
          BY DEF Ordered
        <5>1. i \in DOMAIN history
          BY <3>1, <4>2, <4>3
        <5>2. CASE j \in DOMAIN history
          BY <3>1, <4>2, <5>1, <5>2 DEF Ordered
        <5>3. CASE j = Len(history) + 1
          BY <4>2, <4>4, <5>1, <5>3
        <5> QED
          BY <4>3, <5>2, <5>3
      <4>7. \A r \in Titled : Len(sidecars[r]) <= Len(new) /\ Concur(sidecars[r], new)
        <5> TAKE r \in Titled
        <5>1. sidecars[r] \in Seq(Observation)
          BY <1>1 DEF TitlesTypeOK
        <5>2. Len(sidecars[r]) \in Nat /\ DOMAIN sidecars[r] = 1 .. Len(sidecars[r])
          BY <5>1
        <5>3. \A i \in DOMAIN sidecars[r] : i \in DOMAIN history
          BY <3>1, <5>2
        <5> QED
          BY <3>1, <4>2, <5>2, <5>3 DEF Concur
      <4> QED
        BY <1>1, <4>5, <4>6, <4>7 DEF new
    <3> QED
      BY <3>2, <3>3
  <2>4. StandsInv'
    BY <1>1, <1>2, <2>2, <2>3 DEF StandsInv, Ordered, Concur, Tells, UpTo, Follows
  <2> QED
    BY <1>1, <1>2, <2>1, <2>4 DEF TitlesTypeOK
<1> QED
  BY <1>4, <1>5 DEF PollTitle

(* A sidecar is written as the history stands, which begins with what      *)
(* every other one has.                                                    *)
LEMMA WriteStep ==
  ASSUME TitlesInv, WriteSidecar
  PROVE  TitlesInv'
<1> USE DEF TitlesInv
<1>1. /\ ~gone /\ UNCHANGED <<read, heard, history, gone, restored>>
      /\ TitlesTypeOK /\ StandsInv /\ SidecarsInv /\ history \in Seq(Observation)
  BY DEF WriteSidecar, TitlesTypeOK
<1>2. PICK r \in Titled : sidecars' = [sidecars EXCEPT ![r] = TitleHistory]
  BY DEF WriteSidecar
<1>3. TitleHistory = history
  BY <1>1, HistoryInOrder DEF StandsInv
<1>4. sidecars' \in [Titled -> Seq(Observation)] /\ sidecars \in [Titled -> Seq(Observation)]
      /\ \A o \in Titled : sidecars'[o] = IF o = r THEN history ELSE sidecars[o]
  BY <1>1, <1>2, <1>3 DEF TitlesTypeOK
<1>5. Len(history) \in Nat /\ Concur(history, history) /\ Ordered(history) /\ restored = {}
      /\ \A o \in Titled : Ordered(sidecars[o]) /\ Concur(sidecars[o], history)
  BY <1>1 DEF Concur, StandsInv, SidecarsInv
<1>6. \A o, p \in Titled : Concur(sidecars[o], sidecars[p]) /\ Concur(history, sidecars[p])
  BY <1>1, <1>5 DEF SidecarsInv, Concur
<1>7. SidecarsInv'
  <2>1. \A o, p \in Titled : Ordered(sidecars'[o]) /\ Concur(sidecars'[o], sidecars'[p])
    BY <1>4, <1>5, <1>6
  <2> QED
    BY <2>1 DEF SidecarsInv, Ordered, Concur
<1>8. \A o \in Titled : Len(sidecars'[o]) <= Len(history) /\ Concur(sidecars'[o], history)
  <2>1. \A o \in Titled : Len(sidecars[o]) <= Len(history) /\ Concur(sidecars[o], history)
    BY <1>1 DEF StandsInv
  <2>2. Len(history) <= Len(history)
    BY <1>5
  <2> TAKE o \in Titled
  <2>3. CASE o = r
    <3>1. sidecars'[o] = history
      BY <1>4, <2>3
    <3> QED
      BY <1>5, <2>2, <3>1
  <2>4. CASE o # r
    <3>1. sidecars'[o] = sidecars[o]
      BY <1>4, <2>4
    <3> QED
      BY <2>1, <3>1
  <2> QED
    BY <2>3, <2>4
<1>9. \A at, says : Tells(history, at, says)' <=> Tells(history, at, says)
  BY <1>1 DEF Tells, UpTo, Follows
<1>10. StandsInv'
  BY <1>1, <1>8, <1>9 DEF StandsInv, Ordered, Concur
<1> QED
  BY <1>1, <1>4, <1>5, <1>7, <1>10 DEF TitlesTypeOK

LEMMA LoseStep ==
  ASSUME TitlesInv, LoseDatabase
  PROVE  TitlesInv'
<1>1. gone' = TRUE /\ history' = <<>> /\ restored' = {} /\ UNCHANGED <<read, heard, sidecars>>
      /\ TitlesTypeOK /\ SidecarsInv
  BY DEF LoseDatabase, TitlesInv
<1>2. TitlesTypeOK'
  BY <1>1 DEF TitlesTypeOK
<1>3. SidecarsInv'
  BY <1>1 DEF SidecarsInv, Ordered, Concur
<1> QED
  BY <1>1, <1>2, <1>3 DEF TitlesInv

LEMMA RestoreStep ==
  ASSUME TitlesInv, RestoreTitles
  PROVE  TitlesInv'
<1>1. /\ gone /\ UNCHANGED <<read, heard, gone, sidecars>> /\ TitlesTypeOK /\ SidecarsInv
      /\ history \in Seq(Observation) /\ \A o \in Titled : sidecars[o] \in Seq(Observation)
      /\ \A o \in restored : o \in Titled /\ TellsAll(history, sidecars[o])
  BY DEF RestoreTitles, TitlesInv, TitlesTypeOK
<1>2. PICK r \in Titled : \E some \in SUBSET DOMAIN sidecars[r] :
        /\ history' = Replay(history, sidecars[r], some)
        /\ restored' = IF some = DOMAIN sidecars[r] THEN restored \cup {r} ELSE restored
  BY DEF RestoreTitles
<1>3. PICK some \in SUBSET DOMAIN sidecars[r] :
        /\ history' = Replay(history, sidecars[r], some)
        /\ restored' = IF some = DOMAIN sidecars[r] THEN restored \cup {r} ELSE restored
  BY <1>2
<1> DEFINE listed == sidecars[r]
           new  == history'
<1>4. /\ listed \in Seq(Observation) /\ Ordered(listed)
      /\ \A o \in Titled : Ordered(sidecars[o]) /\ Concur(listed, sidecars[o])
  BY <1>1 DEF SidecarsInv
<1>5. /\ new \in Seq(Observation)
      /\ some = DOMAIN listed => TellsAll(new, listed)
      /\ \A other \in Seq(Observation) :
           Ordered(other) /\ Concur(listed, other) /\ TellsAll(history, other) => TellsAll(new, other)
  <2> HIDE DEF listed
  <2> QED
    BY <1>1, <1>3, <1>4, ReplayTells DEF listed
<1>6. ASSUME NEW o \in restored' PROVE TellsAll(new, sidecars[o])
  <2>1. CASE o \in restored
    BY <1>1, <1>4, <1>5, <2>1
  <2>2. CASE o \notin restored
    BY <1>3, <1>5, <1>6, <2>2
  <2> QED
    BY <2>1, <2>2
<1>7. restored' \subseteq Titled
  BY <1>1, <1>3
<1>8. TitlesTypeOK'
  BY <1>1, <1>5, <1>7 DEF TitlesTypeOK
<1>9. SidecarsInv'
  BY <1>1 DEF SidecarsInv, Ordered, Concur
<1>10. \A o \in restored' : TellsAll(history, sidecars[o])'
  <2>1. \A o \in restored' : \A i \in DOMAIN sidecars'[o] : Tells(new, sidecars'[o][i].at, sidecars'[o][i].says)
    BY <1>1, <1>6 DEF TellsAll
  <2> QED
    BY <2>1 DEF TellsAll, Tells, UpTo, Follows
<1> QED
  BY <1>1, <1>8, <1>9, <1>10 DEF TitlesInv

LEMMA TitlesInvStep == TitlesInv /\ [TitlesNext]_readings => TitlesInv'
<1> SUFFICES ASSUME TitlesInv, [TitlesNext]_readings PROVE TitlesInv'
  OBVIOUS
<1>1. ASSUME UNCHANGED readings PROVE TitlesInv'
  <2>1. UNCHANGED <<read, heard, history, sidecars, gone, restored>>
    BY <1>1 DEF readings
  <2>2. \A at, says : Tells(history, at, says)' <=> Tells(history, at, says)
    BY <2>1 DEF Tells, UpTo, Follows
  <2>3. (TitlesTypeOK' <=> TitlesTypeOK) /\ (SidecarsInv' <=> SidecarsInv)
    BY <2>1 DEF TitlesTypeOK, SidecarsInv, Ordered, Concur
  <2>4. StandsInv' <=> StandsInv
    BY <2>1, <2>2 DEF StandsInv, Ordered, Concur
  <2>5. (\A r \in restored : TellsAll(history, sidecars[r])) => \A r \in restored' : TellsAll(history, sidecars[r])'
    BY <2>1, <2>2 DEF TellsAll
  <2> QED
    BY <2>1, <2>3, <2>4, <2>5 DEF TitlesInv
<1> QED
  BY <1>1, PollStep, WriteStep, LoseStep, RestoreStep DEF TitlesNext

LEMMA TitlesInvReturn == TitlesInv => TitlesReturn
  BY DEF TitlesInv, StandsInv, TellsAll, TitlesReturn

(* broadcast.go, ObserveTitle, and importer.go, restoreDetail: the history *)
(* says of every reading's instant what was read then, and of every        *)
(* instant of a sidecar that was restored what the sidecar says, however   *)
(* many readings, names and recordings there are.                          *)
THEOREM TitlesReturned == TitlesSpec => []TitlesReturn
  BY TitlesInvInit, TitlesInvStep, TitlesInvReturn, PTL DEF TitlesSpec
=============================================================================
