------------------------------- MODULE Naming -------------------------------
(***************************************************************************)
(* The name a recording gets from its metadata, and the reading of that    *)
(* name when a library is imported without its sidecars (internal/naming). *)
(*                                                                         *)
(* A text is a sequence of symbols: a letter, the two literals templates   *)
(* put between values, a character no file name may hold, the one that     *)
(* replaces it, a device's name, a letter of several units, the suffix of  *)
(* a second copy, and the extension.  A path is a sequence of components.  *)
(***************************************************************************)
EXTENDS Integers, Sequences, FiniteSets, FiniteSetsExt, SequencesExt

Illegal == "?"
Replacement == "_"
Device == "con"
Wide == "W"
Copy == "(2)"
Symbol == {"a", "-", ".", Illegal, Replacement, Device, Wide, Copy, "mp4"}

CONSTANTS MaxUnits,     \* maxSegmentUnits
          AuthorText,   \* the names streamers pick
          TitleText     \* the titles they pick

ASSUME NamingAssumption ==
  /\ MaxUnits \in Nat \ {0}
  /\ AuthorText \subseteq Seq(Symbol) /\ TitleText \subseteq Seq(Symbol)

(* The texts of the runs.                                                  *)
Texts(symbols, lengths) == UNION {[1 .. n -> symbols] : n \in lengths}
SomeAuthors == Texts({"a", "-", "."}, 0 .. 2) \cup {<<Illegal>>, <<Device>>, <<Device, ".">>}
SomeTitles == Texts({"a", "-", ".", Copy}, 0 .. 2) \cup {<<Illegal>>, <<Device>>, <<Wide>>, <<"a", Wide>>}
              \cup Texts({"a", "-"}, {3})

(* The platform may not answer with a display name.  A value is trimmed,   *)
(* so none begins with the suffix.                                         *)
Metadata == {f \in [author : AuthorText, title : TitleText] : f.title = <<>> \/ f.title[1] # Copy}

(* Parse: a template is a closed set of placeholders between literals.     *)
Template == {<<<<"author">>, <<"author", "-", "title", ".", "ext">>>>,
             <<<<"author">>, <<"title", ".", "ext">>>>,
             <<<<"author", "-", "title", ".", "ext">>>>}
Value == {"author", "title"}

VARIABLES template,     \* the template of the library
          fields,       \* what is known of the broadcast
          written,      \* the values its name was made of
          path,         \* the name under which it was filed
          reading       \* what an import read from that name

naming == <<template, fields, written, path, reading>>

NotYet == [is |-> "nothing"]
Refusal == [is |-> "refused"]

----------------------------------------------------------------------------
(* Sanitizing                                                              *)

(* sanitizeValue.                                                          *)
Sanitized(text) == [i \in DOMAIN text |-> IF text[i] = Illegal THEN Replacement ELSE text[i]]

Trimmed(text) == SubSeq(text, 1, Max({0} \cup {i \in DOMAIN text : text[i] # "."}))

(* A component whose stem is a device's name, or which names a directory   *)
(* of the library's own.                                                   *)
Reserved(text) == Len(text) > 0 /\ text[1] = Device /\ (Len(text) = 1 \/ text[2] = ".")

(* SanitizeSegment: a component that is nothing but dots is refused.       *)
Segment(text) ==
  LET clean == Trimmed(Sanitized(text))
  IN  IF Reserved(clean) THEN <<Replacement>> \o clean ELSE clean

(* segmentForm.                                                            *)
SegmentForm(text) == IF Segment(text) = <<>> THEN text ELSE Segment(text)

----------------------------------------------------------------------------
(* Rendering                                                               *)

(* resolve: a display name that did not load is the login.                 *)
Resolved == [fields EXCEPT !.author = IF @ = <<>> THEN <<"a">> ELSE @]

Expand(parts, values) ==
  FlattenSeq([i \in DOMAIN parts |-> CASE parts[i] \in Value -> values[parts[i]]
                                       [] parts[i] = "ext" -> <<"mp4">>
                                       [] OTHER -> <<parts[i]>>])

(* segmentUnits.                                                           *)
Units(text) == Len(text) + 2 * Cardinality({i \in DOMAIN text : text[i] = Wide})

(* longestOverflow.                                                        *)
Overflow(values) ==
  Max({0} \cup {Units(Expand(template[s], values)) - MaxUnits : s \in DOMAIN template})

CutBack(text) == SubSeq(text, 1, Max({0} \cup {i \in DOMAIN text : text[i] \notin {"-", Replacement}}))

(* shrink: as many letters go as there are units too many (the word        *)
(* boundary that a cut prefers is left out).                               *)
Shrunk(title, overflow) ==
  IF Len(title) <= overflow THEN <<>> ELSE CutBack(SubSeq(title, 1, Len(title) - overflow))

(* renderFitting: the title gives way until every component fits, or until *)
(* nothing is left of it.  Each pass takes all that is too much.           *)
Fitting(values) ==
  IF Overflow(values) = 0 THEN values
  ELSE [values EXCEPT !.title = Shrunk(@, Overflow(values))]

(* The stem of a file's name, and the extension behind it.                 *)
Dot(name) == Max({i \in DOMAIN name : name[i] = "."})
NameStem(name) == SubSeq(name, 1, Dot(name) - 1)
NameExt(name) == SubSeq(name, Dot(name), Len(name))

(* Candidates: the rendered name, or that of a second copy.                *)
Candidate(components, second) ==
  IF second THEN [components EXCEPT ![Len(components)] = NameStem(@) \o <<Copy>> \o NameExt(@)]
            ELSE components

(* Render: a name is refused for a value that is missing, for one that     *)
(* cannot fit, and for a component of which nothing is left.               *)
Render ==
  /\ written = NotYet
  /\ LET values     == [p \in Value |-> Sanitized(Resolved[p])]
         fitting    == Fitting(values)
         components == [s \in DOMAIN template |-> Segment(Expand(template[s], fitting))]
     IN  IF /\ \A p \in Value : values[p] # <<>>
            /\ Overflow(fitting) = 0 /\ \A s \in DOMAIN template : components[s] # <<>>
         THEN \E second \in BOOLEAN :
                /\ written' = [author |-> Resolved.author, second |-> second,
                               title |-> SubSeq(Resolved.title, 1, Len(fitting.title))]
                /\ path' = Candidate(components, second)
         ELSE written' = Refusal /\ UNCHANGED path
  /\ UNCHANGED <<template, fields, reading>>

----------------------------------------------------------------------------
(* Reading a name back                                                     *)

(* The shape of one value: free text holds nothing that was replaced.      *)
Shaped(part, text) == CASE part = "ext" -> \A i \in DOMAIN text : text[i] \in {"a", Device, Wide, "mp4"}
                      [] part \in Value -> \A i \in DOMAIN text : text[i] # Illegal
                      [] OTHER -> text = <<part>>

(* A way to cut the file's name: the end of each part but the last.        *)
FileParts == Last(template)
PieceAt(text, cuts, i) ==
  SubSeq(text, IF i = 1 THEN 1 ELSE cuts[i - 1] + 1, IF i = Len(FileParts) THEN Len(text) ELSE cuts[i])
Piece(text, cuts, part) == PieceAt(text, cuts, CHOOSE i \in DOMAIN FileParts : FileParts[i] = part)

Cuts(text) ==
  {cuts \in [1 .. Len(FileParts) - 1 -> 1 .. Len(text) - 1] :
     /\ \A i \in 2 .. Len(FileParts) - 1 : cuts[i - 1] < cuts[i]
     /\ \A i \in DOMAIN FileParts : Shaped(FileParts[i], PieceAt(text, cuts, i))}

(* pattern: a value that is pinned is held to one text.                    *)
Pinned(ways, text, author) == {cuts \in ways : Piece(text, cuts, "author") = author}

(* Greedy: the first value takes all it can, and then the next; lazy: all  *)
(* it must.                                                                *)
Shorter(c, d) == \E i \in DOMAIN c : c[i] < d[i] /\ \A j \in 1 .. i - 1 : c[j] = d[j]
Chosen(S, lazy) == CHOOSE c \in S : \A d \in S \ {c} : IF lazy THEN Shorter(c, d) ELSE Shorter(d, c)

(* reconcile: two texts of one value, as it stands in a file's name.       *)
Reconciled(a, b) == IF a = b \/ SegmentForm(b) = a THEN {b}
                    ELSE IF SegmentForm(a) = b THEN {a} ELSE {}

(* capture: where a value used twice disagrees with itself, the name is    *)
(* read again with the first occurrence, a directory of its own, pinned.   *)
ReadOnce(name, ways, lazy) ==
  LET text   == Last(name)
      first  == Head(name)
      once   == Chosen(ways, lazy)
      title  == Piece(text, once, "title")
      agreed == Reconciled(first, Piece(text, once, "author"))
      pinned == Pinned(ways, text, first)
  IN  IF ways = {} THEN Refusal
      ELSE IF ~Contains(FileParts, "author") THEN [author |-> first, title |-> title]
      ELSE IF Len(template) = 1 THEN [author |-> Piece(text, once, "author"), title |-> title]
      ELSE IF agreed # {} THEN [author |-> CHOOSE author \in agreed : TRUE, title |-> title]
      ELSE IF pinned = {} THEN Refusal
      ELSE [author |-> first, title |-> Piece(text, Chosen(pinned, lazy), "title")]

(* splitDuplicate.                                                         *)
Copied(name) == LET stem == NameStem(Last(name)) IN stem # <<>> /\ Last(stem) = Copy
SplitDuplicate(name) ==
  IF Copied(name) THEN [name EXCEPT ![Len(name)] = Front(NameStem(@)) \o NameExt(@)] ELSE name

(* lossyFields.                                                            *)
Lossy(values) == {p \in Value : \E i \in DOMAIN values[p] : values[p][i] = Replacement}

(* A name is read the greedy way.                                          *)
MatchGreedily ==
  LET name   == SplitDuplicate(path)
      greedy == ReadOnce(name, Cuts(Last(name)), FALSE)
  IN  IF greedy = Refusal THEN Refusal ELSE [of |-> greedy, lossy |-> Lossy(greedy)]

(* Match: a name that reads in two ways is refused.                        *)
MatchName ==
  LET name   == SplitDuplicate(path)
      ways   == Cuts(Last(name))
      greedy == ReadOnce(name, ways, FALSE)
      lazy   == ReadOnce(name, ways, TRUE)
  IN  IF greedy = Refusal \/ greedy # lazy THEN Refusal ELSE [of |-> greedy, lossy |-> Lossy(greedy)]

ReadBack ==
  /\ written \notin {NotYet, Refusal} /\ reading = NotYet
  /\ reading' = MatchName
  /\ UNCHANGED <<template, fields, written, path>>

NamingInit ==
  /\ template \in Template /\ fields \in Metadata
  /\ written = NotYet /\ path = <<>> /\ reading = NotYet

NamingNext == Render \/ ReadBack

NamingSpec == NamingInit /\ [][NamingNext]_naming

----------------------------------------------------------------------------

(* What a title is as a reading ends it: "a title that genuinely ends in   *)
(* (2) reads the same as a second copy".                                   *)
Told(p) == IF p = "title" /\ ~written.second /\ written.title # <<>> /\ Last(written.title) = Copy
           THEN Front(written.title) ELSE written[p]

(* match.go, Match: "picking either one files a recording under a title    *)
(* nobody can check".  A name that is read back gives the values it was    *)
(* made of, as they were sanitized, and one that is not told apart from    *)
(* another is lossy; but a directory's trailing dots go unsaid, and a title*)
(* all of which was cut away leaves a hole no reading can tell.            *)
ReadsAsWritten ==
  reading \notin {NotYet, Refusal} /\ written.title # <<>> =>
    \A p \in Value :
      LET read == reading.of[p]
          told == Sanitized(Told(p))
      IN  /\ read \in {told, SegmentForm(told), <<Replacement>> \o told}
          /\ p \in reading.lossy \/ read \in {Told(p), Trimmed(Told(p))}
=============================================================================
