------------------------------- MODULE Sizes --------------------------------
(***************************************************************************)
(* The sizes and durations of the configuration as text                    *)
(* (internal/config/units.go): what the operator writes, what a save of    *)
(* the file writes, and what the line of the settings shows and takes back *)
(* (internal/tui/settings.go).                                             *)
(*                                                                         *)
(* A step from unit to unit is 20 here and not 1000, a display keeps one   *)
(* decimal and not two, and a number has 11 bits in a run and not 63: the  *)
(* next unit's last digit is lost either way.  A text is its number, in    *)
(* tenths, and its unit; of the units of duration that the language reads  *)
(* the smallest stands for all.                                            *)
(***************************************************************************)
EXTENDS Integers, Sequences, FiniteSets

CONSTANT MaxInt         \* the largest number the width holds

ASSUME SizesAssumption == MaxInt \in Nat

SizeUnit == {"B", "KB", "MB", "KiB", "MiB"}
Scale == [B |-> 1, KB |-> 20, MB |-> 400, KiB |-> 24, MiB |-> 576]
Pairs == <<[decimal |-> "MB", binary |-> "MiB"], [decimal |-> "KB", binary |-> "KiB"]>>

Period == [ns |-> 1, d |-> 24, w |-> 168]

VARIABLES kind,         \* whether the setting is a size or a duration
          value,        \* what it is
          text,         \* how it was last written
          origin        \* who wrote that

sizes == <<kind, value, text, origin>>

Unreadable == -1
NoText == [tenths |-> 0, whole |-> TRUE, unit |-> ""]
WholeText(n, unit) == [tenths |-> 10 * n, whole |-> TRUE, unit |-> unit]

----------------------------------------------------------------------------
(* Reading                                                                 *)

(* Mutant of ScaleValue: without the guard of a small fraction.            *)
ScaleValueToZero(t, scale) ==
  LET whole  == t.tenths \div 10
      scaled == (t.tenths * scale) \div 10
  IN  IF t.whole THEN IF whole > MaxInt \div scale THEN Unreadable ELSE whole * scale
      ELSE IF scaled >= MaxInt THEN Unreadable ELSE scaled

(* scaleValue: a whole number is multiplied as one, and only what the      *)
(* width holds; a fraction that would come out as no limit is refused.     *)
ScaleValue(t, scale) ==
  LET whole  == t.tenths \div 10
      scaled == (t.tenths * scale) \div 10
  IN  IF t.whole THEN IF whole > MaxInt \div scale THEN Unreadable ELSE whole * scale
      ELSE IF scaled >= MaxInt \/ (t.tenths > 0 /\ scaled = 0) THEN Unreadable ELSE scaled

ParseSize(t) == ScaleValue(t, Scale[t.unit])

(* time.ParseDuration: what the width holds, cut off below its unit.       *)
StdDuration(t) == LET whole == t.tenths \div 10 IN IF whole > MaxInt THEN Unreadable ELSE whole

(* ParseDuration: days and weeks are scaled with the guard, and the other  *)
(* units are the language's to read, without it.                           *)
ParseDuration(t) == IF t.unit \in {"d", "w"} THEN ScaleValue(t, Period[t.unit]) ELSE StdDuration(t)

Parsed(t) == IF kind = "size" THEN ParseSize(t) ELSE ParseDuration(t)

----------------------------------------------------------------------------
(* Writing                                                                 *)

Leading(pairs) == CHOOSE p \in pairs : \A q \in pairs : p <= q

(* The first pair whose decimal unit is no more than the size.             *)
Magnitude(s) == Leading({p \in DOMAIN Pairs : Scale[Pairs[p].decimal] <= s})
HasMagnitude(s) == \E p \in DOMAIN Pairs : Scale[Pairs[p].decimal] <= s

Divides(s, unit) == s >= Scale[unit] /\ s % Scale[unit] = 0
Even(s, unit) == WholeText(s \div Scale[unit], unit)

(* String: to the nearest decimal, and no decimal where it is naught.      *)
Rounded(s, unit) ==
  LET tenths == (10 * s + Scale[unit] \div 2) \div Scale[unit]
  IN  [tenths |-> tenths, whole |-> tenths % 10 = 0, unit |-> unit]

SizeString(s) ==
  IF ~HasMagnitude(s) THEN WholeText(s, "B")
  ELSE LET pair == Pairs[Magnitude(s)]
       IN  IF Divides(s, pair.decimal) THEN Even(s, pair.decimal)
           ELSE IF Divides(s, pair.binary) THEN Even(s, pair.binary)
           ELSE Rounded(s, pair.decimal)

(* exact: of all pairs, the largest unit that divides the size.            *)
Exact(s) ==
  LET even == {p \in DOMAIN Pairs : Divides(s, Pairs[p].decimal) \/ Divides(s, Pairs[p].binary)}
  IN  IF even = {} THEN WholeText(s, "B")
      ELSE LET pair == Pairs[Leading(even)]
           IN  IF Divides(s, pair.decimal) THEN Even(s, pair.decimal) ELSE Even(s, pair.binary)

(* Duration.String.                                                        *)
DurationString(d) ==
  IF d = 0 THEN WholeText(0, "ns")
  ELSE IF d % Period.w = 0 THEN WholeText(d \div Period.w, "w")
  ELSE IF d % Period.d = 0 THEN WholeText(d \div Period.d, "d")
  ELSE WholeText(d, "ns")

(* MarshalText of a size as it is displayed.                               *)
MarshalDisplayed(v) == IF kind = "size" THEN SizeString(v) ELSE DurationString(v)

(* MarshalText.                                                            *)
MarshalText(v) == IF kind = "size" THEN Exact(v) ELSE DurationString(v)

(* The text of the settings' line.                                         *)
FieldText(v) == IF kind = "size" THEN SizeString(v) ELSE DurationString(v)

----------------------------------------------------------------------------

Takes(t, who) ==
  /\ text' = t /\ origin' = who
  /\ value' = IF Parsed(t) = Unreadable THEN value ELSE Parsed(t)
  /\ UNCHANGED kind

(* The operator's own text, in the file or in the line: what it replaces   *)
(* does not matter to it.                                                  *)
WriteLimit ==
  /\ origin = "nobody" /\ value = MaxInt
  /\ \E tenths \in 0 .. 20, unit \in IF kind = "size" THEN SizeUnit ELSE DOMAIN Period :
       Takes([tenths |-> tenths, whole |-> tenths % 10 = 0, unit |-> unit], "operator")

(* Save, and the load that follows it.                                     *)
SaveAndLoad == origin \in {"nobody", "operator"} /\ Takes(MarshalText(value), "file")

(* beginEdit and commitEdit: a line that is opened and taken back.         *)
CommitLine == origin \in {"nobody", "operator"} /\ Takes(FieldText(value), "line")

SizesInit ==
  /\ kind \in {"size", "duration"}
  /\ value \in 0 .. MaxInt
  /\ text = NoText /\ origin = "nobody"

SizesNext == WriteLimit \/ SaveAndLoad \/ CommitLine

SizesSpec == SizesInit /\ [][SizesNext]_sizes

----------------------------------------------------------------------------

(* A fraction of the smallest unit, in a unit of the language's own.       *)
BelowUnit(t) == t.unit = "ns" /\ t.tenths < 10

(* units.go, MarshalText: "a rounded form would let every command that     *)
(* writes the config quietly change the cap the operator set", and         *)
(* scaleValue: "a value the operator wrote as a very small budget must not *)
(* arrive as" no limit.  A save keeps what a setting is; a limit never     *)
(* becomes none, whatever wrote it, but by the one text that passes the    *)
(* guard by: a duration in one of the language's own units, with less than *)
(* the smallest of them, is read as naught (units.go:289).  And a line     *)
(* that is taken back unchanged is a decimal of its unit off at most.      *)
LimitsStand ==
  [][ /\ origin' = "file" => value' = value
      /\ value' = 0 => value = 0 \/ text'.tenths = 0 \/ (origin' = "operator" /\ BelowUnit(text'))
      /\ origin' = "line" =>
           \/ value' = value
           \/ kind = "size" /\ 20 * (IF value' < value THEN value - value' ELSE value' - value)
                                 <= Scale[text'.unit] + 20 ]_sizes
=============================================================================
