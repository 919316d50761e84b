------------------------------- MODULE Audio --------------------------------
(***************************************************************************)
(* The sound of a broadcast the platform silenced in places: the lookup of *)
(* its original beside the silenced copy                                   *)
(* (internal/providers/twitch/mute.go), the download from the address that *)
(* was found, and what the recording is said to lack                       *)
(* (internal/backfill/fetch.go, internal/post/post.go).                    *)
(*                                                                         *)
(* Time is in units of which two are the shortest run of quiet a filter    *)
(* reports and the shortest stretch that is measured.  A segment of the    *)
(* playlist is two units long.                                             *)
(***************************************************************************)
EXTENDS Integers, Sequences, FiniteSets, FiniteSetsExt

CONSTANTS MaxVerified,  \* maxVerifiedSpans
          MaxProbed     \* maxProbedSegments

ASSUME AudioAssumption == MaxVerified \in Nat \ {0} /\ MaxProbed \in Nat \ {0}

Segments == 3
SegmentUnits == 2
Shortest == 2           \* minSilentRun, minMeasurable
AudioEnd == Segments * SegmentUnits
Moment == 0 .. AudioEnd - 1

(* A stretch the platform says it silenced, half open.                     *)
Stretch == {s \in [from : 0 .. AudioEnd, to : 0 .. AudioEnd] : s.from < s.to}
Extent(s) == s.to - s.from

VARIABLES playlist,     \* the playlist of the original: its segments in order
          served,       \* the segments whose original is still served
          spans,        \* the stretches the platform says it silenced
          address,      \* the address the download takes
          media,        \* what the units of the file hold, as far as it goes
          muted         \* what the recording is said to lack

audio == <<playlist, served, spans, address, media, muted>>

NotAsked == "unasked"
NotHeard == -1

Renamed == {i \in 1 .. Segments : playlist[i].named # "plain"}
SegmentOf(unit) == unit \div SegmentUnits + 1

----------------------------------------------------------------------------
(* The lookup                                                              *)

(* readSegmentLength: a length that cannot be read counts for nothing.     *)
SegmentLength(i) == IF playlist[i].readable THEN SegmentUnits ELSE 0
StartOf(i) == SegmentUnits * Cardinality({j \in 1 .. i - 1 : playlist[j].readable})

(* overlapsAny.                                                            *)
OverlapsAny(from, to) == \E n \in DOMAIN spans : spans[n].from < to /\ from < spans[n].to

(* originalSegmentsOver: a segment that was renamed when it was silenced,  *)
(* and lies beside the playlist.                                           *)
OriginalSegments ==
  {i \in 1 .. Segments : /\ playlist[i].named = "unmuted"
                         /\ OverlapsAny(StartOf(i), StartOf(i) + SegmentLength(i))}

(* OriginalAudio where one segment stands for all.                         *)
OneIsServed ==
  OriginalSegments # {} /\ Cardinality(OriginalSegments) <= MaxProbed /\ OriginalSegments \cap served # {}

(* serves: a segment that is refused is not there.                         *)
Serves(i) == i \in served

(* OriginalAudio: every segment of those is asked for.                     *)
OriginalIsServed ==
  OriginalSegments # {} /\ Cardinality(OriginalSegments) <= MaxProbed /\ \A i \in OriginalSegments : Serves(i)

(* buildAudioRecovery: where the broadcast is the platform's, and the      *)
(* lookup answers at all.                                                  *)
Recovered == IF OriginalIsServed THEN {"original"} ELSE {}

(* audibleSource: an answer that does not come is no reason to refuse the  *)
(* broadcast.                                                              *)
AudibleSource ==
  /\ address = NotAsked
  /\ address' \in {"broadcast"} \cup IF spans # <<>> THEN Recovered ELSE {}
  /\ UNCHANGED <<playlist, served, spans, media, muted>>

(* The silenced copy is silent where it was renamed.  The original is what *)
(* was broadcast, or silent again, at an edge or from end to end, or it is *)
(* served short.                                                           *)
DownloadSound ==
  /\ address # NotAsked /\ media = <<>>
  /\ \E short \in BOOLEAN, as \in [Renamed -> {"sound", "edge", "silent"}] :
       /\ address = "broadcast" => ~short /\ \A i \in Renamed : as[i] = "silent"
       /\ \A i \in Renamed \ served : as[i] = "silent"
       /\ media' = [n \in 1 .. IF short THEN AudioEnd - SegmentUnits ELSE AudioEnd |->
                      LET i == SegmentOf(n - 1)
                      IN  IF i \in Renamed /\ (as[i] = "silent" \/ (as[i] = "edge" /\ n % SegmentUnits = 0))
                          THEN "silent" ELSE "sound"]
  /\ UNCHANGED <<playlist, served, spans, address, muted>>

----------------------------------------------------------------------------
(* The measurement                                                         *)

SilentOver(s) == \A u \in s.from .. s.to - 1 : u < Len(media) /\ media[u + 1] = "silent"

(* silencedetect: the runs of a window that are long enough, none a part   *)
(* of another.  One that no sound ends has no length.                      *)
Runs(window) ==
  LET within == {r \in Stretch : window.from <= r.from /\ r.to <= window.to /\ SilentOver(r)}
  IN  {r \in within : /\ Extent(r) >= Shortest
                      /\ \A o \in within : o.from <= r.from /\ r.to <= o.to => o = r}
Unended(r, window) == r.to = window.to \/ r.to = Len(media)

Total(runs) == MapThenSumSet(Extent, runs)

(* silentFor without the run that is open at the end.                      *)
SilentForClosed(window) == Total({r \in Runs(window) : ~Unended(r, window)})

(* silentFor: a run that is still open is counted to the end of the        *)
(* window.                                                                 *)
SilentFor(window) ==
  Total({IF Unended(r, window) THEN [r EXCEPT !.to = window.to] ELSE r : r \in Runs(window)})

(* SilentBetween: silentEnough is 0.6.                                     *)
SilentBetween(window) == 10 * SilentFor(window) >= 6 * Extent(window)

(* mutedTotal.                                                             *)
MutedTotal == MapThenSumSet(LAMBDA n : Extent(spans[n]), DOMAIN spans)

(* The stretches that are listened to.                                     *)
Measurable == {n \in DOMAIN spans : Extent(spans[n]) >= Shortest}
Verified == {n \in Measurable : Cardinality({m \in Measurable : m < n}) < MaxVerified}

(* silenceHeldBy: what cannot be measured lacks what was reported.         *)
SilenceHeldBy ==
  /\ media # <<>> /\ muted = NotHeard
  /\ muted' \in {MutedTotal} \cup
                  IF /\ address = "original" /\ Verified # {}
                     /\ \A n \in Verified : ~SilentBetween(spans[n]) THEN {0} ELSE {}
  /\ UNCHANGED <<playlist, served, spans, address, media>>

(* At most one segment is named in a way the lookup cannot use.            *)
Playlist ==
  LET named == {"plain", "unmuted"}
  IN  {p \in [1 .. Segments -> [named : named \cup {"elsewhere"}, readable : BOOLEAN]] :
         Cardinality({i \in 1 .. Segments : ~p[i].readable \/ p[i].named \notin named}) <= 1}

AudioInit ==
  /\ playlist \in Playlist
  /\ served \in SUBSET {i \in 1 .. Segments : playlist[i].named = "unmuted"}
  /\ spans \in {<<>>} \cup {<<s>> : s \in Stretch} \cup {p \in Stretch \X Stretch : p[1].to < p[2].from}
  /\ address = NotAsked /\ media = <<>> /\ muted = NotHeard

AudioNext == AudibleSource \/ DownloadSound \/ SilenceHeldBy

AudioSpec == AudioInit /\ [][AudioNext]_audio

----------------------------------------------------------------------------

(* mute.go, OriginalAudio: "every segment covering the spans is probed,    *)
(* not a sample of them", and fetch.go, silenceHeldBy: "a download from    *)
(* the original playlist is measured rather than trusted".  The original   *)
(* is taken only where it stands for every stretch that a readable         *)
(* playlist names, and a recording that is said to lack nothing was heard  *)
(* in the stretches that are listened to.                                  *)
SilenceIsTold ==
  /\ address = "original" /\ (\A i \in 1 .. Segments : playlist[i].readable /\ playlist[i].named # "elsewhere") =>
       \A n \in DOMAIN spans, u \in Moment :
         u \in spans[n].from .. spans[n].to - 1 => SegmentOf(u) \notin Renamed \ served
  /\ muted = 0 => \A n \in Verified : ~SilentOver(spans[n])

----------------------------------------------------------------------------
(***************************************************************************)
(* Which stretches of an archive are silent, as a listing names them, as   *)
(* the broadcast's row keeps them and as a reader gets them back           *)
(* (internal/store/broadcast.go).  The platform may not have been asked,   *)
(* which is not the answer that nothing is silent.                         *)
(***************************************************************************)

CONSTANT MaxMuted       \* the longest offset and length of a silence, in milliseconds

ASSUME SilencesAssumption == MaxMuted \in Nat \ {0}

(* A millisecond is two of the units a silence is counted in, and a count  *)
(* wraps where two of the longest silences are past.                       *)
Fine == 2
Wraps == 2 * Fine * MaxMuted + 1
Wrapped(n) == ((n + Wraps) % (2 * Wraps)) - Wraps
NoAnswer == {}         \* the platform was not asked; an answer is the set of one list

VARIABLES stretches,    \* the silences as they are stored
          answered      \* the silences the platform named

silences == <<stretches, answered>>

----------------------------------------------------------------------------

InRange(offset, length) == offset >= 0 /\ length > 0 /\ offset <= MaxMuted /\ length <= MaxMuted

Milliseconds(n) == IF n >= 0 THEN n \div Fine ELSE 0 - ((0 - n) \div Fine)

(* encodeMutedSpans: what the reader would refuse is not written.          *)
Encode(answer) ==
  {[i \in DOMAIN list |-> <<Milliseconds(list[i][1]), Milliseconds(list[i][2])>>] : list \in answer}
Bounded(stored) == \A list \in stored : \A i \in DOMAIN list : InRange(list[i][1], list[i][2])

OneStretch(stored) == <<Wrapped(Fine * stored[1]), Wrapped(Fine * stored[2])>>

(* Mutant of Decode: the list is thinned to what can be read.              *)
DecodeReadable(stored) ==
  LET Fits(span) == InRange(span[1], span[2])
  IN  [refused |-> FALSE,
       answer  |-> {LET readable == SelectSeq(list, Fits)
                    IN  [i \in DOMAIN readable |-> OneStretch(readable[i])] : list \in stored}]

(* Mutant of Decode: whatever the column holds is counted.                 *)
DecodeAll(stored) ==
  [refused |-> FALSE, answer |-> {[i \in DOMAIN list |-> OneStretch(list[i])] : list \in stored}]

(* decodeMutedSpans: a list with one span that cannot be is refused whole. *)
Decode(stored) ==
  IF Bounded(stored)
  THEN [refused |-> FALSE, answer |-> {[i \in DOMAIN list |-> OneStretch(list[i])] : list \in stored}]
  ELSE [refused |-> TRUE, answer |-> NoAnswer]

Silence == {<<a, b>> : a, b \in (0 - Fine) .. 2 * Fine * MaxMuted}

(* insertBroadcast of a broadcast that is listed, which may be refused.    *)
InsertBroadcast ==
  /\ stretches = NoAnswer
  /\ \E list \in {<<>>} \cup {<<s>> : s \in Silence} :
       /\ Bounded(Encode({list}))
       /\ stretches' = Encode({list}) /\ answered' = {list}

(* An earlier build bounded nothing.                                       *)
WriteUnbounded ==
  /\ stretches = NoAnswer
  /\ \E s \in Silence : \E list \in {<<s>>, <<<<0, 1>>, s>>} :
       /\ stretches' = {list}
       /\ answered' = {[i \in DOMAIN list |-> <<Fine * list[i][1], Fine * list[i][2]>>]}

----------------------------------------------------------------------------

SilencesInit == stretches = NoAnswer /\ answered = NoAnswer

SilencesNext == InsertBroadcast \/ WriteUnbounded

SilencesSpec == SilencesInit /\ [][SilencesNext]_silences

----------------------------------------------------------------------------

(* broadcast.go, decodeMutedSpans: "a span whose end wraps negative reads  *)
(* as covering nothing", and "thinning a list down to nothing would turn a *)
(* row this build cannot read into a licence to fill".  What is read is    *)
(* what the platform answered, to the millisecond, and nothing else.       *)
SilencesReturn ==
  LET got == Decode(stretches)
  IN  ~got.refused =>
        /\ got.answer = NoAnswer <=> answered = NoAnswer
        /\ \A list \in got.answer, named \in answered :
             /\ Len(list) = Len(named)
             /\ \A i \in DOMAIN list :
                  /\ list[i][1] - named[i][1] \in (1 - Fine) .. (Fine - 1)
                  /\ list[i][1] + list[i][2] > list[i][1]
=============================================================================
