---------------------------- MODULE NamingProofs ----------------------------
(***************************************************************************)
(* Theorems about Naming, for every text a streamer picks for himself and  *)
(* his broadcast, every template and every length a segment may have.      *)
(* A name is taken apart as Render puts it together; then it is found      *)
(* again among all the ways in which Match can cut it.                     *)
(***************************************************************************)
EXTENDS Naming, FiniteSetTheorems, SequenceTheorems, WellFoundedInduction, TLAPS

(* A set of numbers that is not empty holds its least one, and where it is *)
(* bounded its greatest.                                                   *)
LEMMA OneIsLeast ==
  ASSUME NEW S \in SUBSET Nat, S # {}
  PROVE  \E x \in S : \A y \in S : x <= y
<1>1. IsWellFoundedOn(OpToRel(<, Nat), Nat)
  BY NatLessThanWellFounded
<1>2. PICK x \in S : \A y \in S : <<y, x>> \notin OpToRel(<, Nat)
  BY ONLY <1>1, WFMin, S \in SUBSET Nat, S # {}
<1>3. \A y \in S : x <= y
  <2> SUFFICES ASSUME NEW y \in S PROVE ~ (y < x)
    OBVIOUS
  <2>1. <<y, x>> \notin OpToRel(<, Nat)
    BY <1>2
  <2>2. OpToRel(<, Nat) = {ss \in Nat \X Nat : ss[1] < ss[2]}
    BY DEF OpToRel
  <2> QED
    BY <2>1, <2>2
<1> QED
  BY <1>2, <1>3

LEMMA OneIsGreatest ==
  ASSUME NEW S \in SUBSET Nat, S # {}, NEW bound \in Nat, \A x \in S : x <= bound
  PROVE  \E most \in S : \A x \in S : x <= most
<1> DEFINE D == {bound - x : x \in S}
<1>1. D \in SUBSET Nat /\ D # {}
  <2>1. \A x \in S : bound - x \in Nat
    OBVIOUS
  <2> QED
    BY <2>1
<1>2. PICK least \in D : \A d \in D : least <= d
  BY <1>1, OneIsLeast
<1>3. PICK most \in S : least = bound - most
  BY <1>2
<1>4. ASSUME NEW x \in S PROVE x <= most
  <2>1. least <= bound - x
    BY <1>2
  <2> QED
    BY <1>3, <2>1
<1> QED
  BY <1>4


----------------------------------------------------------------------------
(* Naming                                                                  *)

(* What stands in a name once it is sanitized.                             *)
Char == Symbol \ {Illegal}

Extension == <<".", "mp4">>

(* One text after another.                                                 *)
Cat(u, v) == u \o v

LEMMA JoinedIs ==
  ASSUME NEW u \in Seq(Char), NEW v \in Seq(Char)
  PROVE  /\ Cat(u, v) \in Seq(Char) /\ Len(Cat(u, v)) = Len(u) + Len(v)
         /\ \A i \in 1 .. Len(u) : Cat(u, v)[i] = u[i]
         /\ \A i \in 1 .. Len(v) : Cat(u, v)[Len(u) + i] = v[i]
  BY DEF Cat

LEMMA NameBuilt ==
  ASSUME NEW z \in Seq(Char), NEW e \in Seq(Char), Len(e) = 2
  PROVE  /\ Cat(z, e) \in Seq(Char) /\ Len(Cat(z, e)) = Len(z) + 2
         /\ Cat(z, e)[Len(z) + 1] = e[1] /\ Cat(z, e)[Len(z) + 2] = e[2]
         /\ Len(z) > 0 => Cat(z, e)[1] = z[1]
<1>1. Cat(z, e) \in Seq(Char) /\ Len(Cat(z, e)) = Len(z) + 2
  <2>1. Cat(z, e) \in Seq(Char)
    BY JoinedIs
  <2>2. Len(Cat(z, e)) = Len(z) + Len(e)
    BY JoinedIs
  <2> QED
    BY <2>1, <2>2
<1>2. 1 \in 1 .. Len(e) /\ 2 \in 1 .. Len(e)
  OBVIOUS
<1>3. \A i \in 1 .. Len(e) : Cat(z, e)[Len(z) + i] = e[i]
  BY JoinedIs
<1>4. Cat(z, e)[Len(z) + 1] = e[1] /\ Cat(z, e)[Len(z) + 2] = e[2]
  BY <1>2, <1>3
<1>5. Len(z) > 0 => Cat(z, e)[1] = z[1]
  BY JoinedIs
<1> QED
  BY <1>1, <1>4, <1>5

LEMMA CatEmpty ==
  ASSUME NEW u \in Seq(Char)
  PROVE  Cat(<<>>, u) = u
  BY ConcatEmptySeq DEF Cat

LEMMA CutIs ==
  ASSUME NEW S, NEW u \in Seq(S), NEW i \in Nat, NEW j \in Nat, 1 <= i, i <= j + 1, j <= Len(u)
  PROVE  /\ SubSeq(u, i, j) \in Seq(S) /\ Len(SubSeq(u, i, j)) = j - i + 1
         /\ \A k \in 1 .. j - i + 1 : SubSeq(u, i, j)[k] = u[k + i - 1]
  OBVIOUS

LEMMA SameText ==
  ASSUME NEW S, NEW R, NEW u \in Seq(S), NEW v \in Seq(R), Len(u) = Len(v), \A i \in 1 .. Len(u) : u[i] = v[i]
  PROVE  u = v
  OBVIOUS

LEMMA CatAssociative ==
  ASSUME NEW u \in Seq(Char), NEW v \in Seq(Char), NEW w \in Seq(Char)
  PROVE  Cat(Cat(u, v), w) = Cat(u, Cat(v, w))
  BY SMTT(20), ConcatAssociative DEF Cat

(* What is cut from the front and the back of a text that was put together.*)
LEMMA CutsOfJoined ==
  ASSUME NEW u \in Seq(Char), NEW v \in Seq(Char)
  PROVE  /\ SubSeq(Cat(u, v), 1, Len(u)) = u
         /\ SubSeq(Cat(u, v), Len(u) + 1, Len(u) + Len(v)) = v
<1>1. /\ Cat(u, v) \in Seq(Char) /\ Len(Cat(u, v)) = Len(u) + Len(v) /\ Len(u) \in Nat /\ Len(v) \in Nat
      /\ \A i \in 1 .. Len(u) : Cat(u, v)[i] = u[i]
      /\ \A i \in 1 .. Len(v) : Cat(u, v)[Len(u) + i] = v[i]
  BY DEF Cat
<1>2. SubSeq(Cat(u, v), 1, Len(u)) = u
  <2> DEFINE w == SubSeq(Cat(u, v), 1, Len(u))
  <2>1. w \in Seq(Char) /\ Len(w) = Len(u) /\ \A k \in 1 .. Len(u) : w[k] = Cat(u, v)[k]
    BY <1>1, CutIs
  <2> HIDE DEF w
  <2>2. w = u
    BY <1>1, <2>1, SameText
  <2> QED
    BY <2>2 DEF w
<1>3. SubSeq(Cat(u, v), Len(u) + 1, Len(u) + Len(v)) = v
  <2> DEFINE w == SubSeq(Cat(u, v), Len(u) + 1, Len(u) + Len(v))
  <2>1. w \in Seq(Char) /\ Len(w) = Len(v) /\ \A k \in 1 .. Len(v) : w[k] = Cat(u, v)[Len(u) + k]
    BY <1>1, CutIs
  <2> HIDE DEF w
  <2>2. w = v
    BY <1>1, <2>1, SameText
  <2> QED
    BY <2>2 DEF w
<1> QED
  BY <1>2, <1>3

(* The last position of a kind.                                            *)
LEMMA LastOfKind ==
  ASSUME NEW n \in Nat, NEW S \in SUBSET (1 .. n)
  PROVE  /\ Max({0} \cup S) \in 0 .. n /\ \A i \in S : i <= Max({0} \cup S)
         /\ Max({0} \cup S) = 0 \/ Max({0} \cup S) \in S
<1> DEFINE all == {0} \cup S
<1>1. \E x \in all : \A y \in all : y <= x
  <2>1. all \in SUBSET Nat /\ all # {} /\ \A y \in all : y <= n
    OBVIOUS
  <2> HIDE DEF all
  <2> QED
    BY <2>1, OneIsGreatest
<1>2. Max(all) \in all /\ \A y \in all : y <= Max(all)
  <2>1. PICK x \in all : \A y \in all : y <= x
    BY <1>1
  <2>2. \A y \in all : x >= y
    BY <2>1
  <2> HIDE DEF all
  <2> QED
    BY <2>1, <2>2 DEF Max
<1> DEFINE m == Max(all)
<1>3. (m = 0 \/ m \in S) /\ \A y \in S : y <= m
  BY <1>2
<1> HIDE DEF m
<1>4. m \in 0 .. n /\ (\A i \in S : i <= m) /\ (m = 0 \/ m \in S)
  <2>1. \A i \in S : i \in 1 .. n
    OBVIOUS
  <2>2. m \in 0 .. n
    <3>1. CASE m = 0
      BY <3>1
    <3>2. CASE m \in S
      BY <2>1, <3>2
    <3> QED
      BY <1>3, <3>1, <3>2
  <2> QED
    BY <1>3, <2>1, <2>2
<1> QED
  BY <1>4 DEF m

(* Trimmed takes the trailing dots and nothing else.                       *)
LEMMA TrimmedIs ==
  ASSUME NEW u \in Seq(Symbol)
  PROVE  \E k \in 0 .. Len(u) :
           /\ Trimmed(u) = SubSeq(u, 1, k) /\ Trimmed(u) \in Seq(Symbol) /\ Len(Trimmed(u)) = k
           /\ k > 0 => u[k] # "."
           /\ \A i \in 1 .. Len(u) : u[i] # "." => i <= k
           /\ \A i \in 1 .. k : Trimmed(u)[i] = u[i]
<1> DEFINE some == {i \in DOMAIN u : u[i] # "."}
           k == Max({0} \cup some)
<1>1. some \in SUBSET (1 .. Len(u)) /\ Len(u) \in Nat
  OBVIOUS
<1>2. k \in 0 .. Len(u) /\ (\A i \in some : i <= k) /\ (k = 0 \/ k \in some)
  <2> HIDE DEF some
  <2> QED
    BY <1>1, LastOfKind
<1>3. Trimmed(u) = SubSeq(u, 1, k)
  BY DEF Trimmed
<1>4. k > 0 => u[k] # "."
  BY <1>1, <1>2
<1>5. \A i \in 1 .. Len(u) : u[i] # "." => i <= k
  BY <1>1, <1>2
<1> HIDE DEF k
<1>6. SubSeq(u, 1, k) \in Seq(Symbol) /\ Len(SubSeq(u, 1, k)) = k /\ \A i \in 1 .. k : SubSeq(u, 1, k)[i] = u[i]
  BY <1>1, <1>2, CutIs
<1> QED
  BY <1>2, <1>3, <1>4, <1>5, <1>6

LEMMA TrimmedEnds ==
  ASSUME NEW u \in Seq(Symbol), NEW k \in 0 .. Len(u), k > 0 => u[k] # ".", \A i \in k + 1 .. Len(u) : u[i] = "."
  PROVE  Trimmed(u) = SubSeq(u, 1, k) /\ Len(Trimmed(u)) = k
<1>1. PICK m \in 0 .. Len(u) :
        /\ Trimmed(u) = SubSeq(u, 1, m) /\ Len(Trimmed(u)) = m
        /\ m > 0 => u[m] # "."
        /\ \A i \in 1 .. Len(u) : u[i] # "." => i <= m
  BY TrimmedIs
<1>2. m = k
  <2>1. k <= m
    BY <1>1
  <2>2. ~ (k < m)
    BY <1>1
  <2> QED
    BY <2>1, <2>2
<1> QED
  BY <1>1, <1>2

(* A text that does not end in a dot is trimmed.                           *)
LEMMA TrimmedAlready ==
  ASSUME NEW u \in Seq(Symbol), Len(u) > 0 => u[Len(u)] # "."
  PROVE  Trimmed(u) = u
<1>1. Trimmed(u) = SubSeq(u, 1, Len(u))
  BY TrimmedEnds
<1> QED
  BY <1>1

LEMMA SanitizedIs ==
  ASSUME NEW u \in Seq(Symbol)
  PROVE  /\ Sanitized(u) \in Seq(Char) /\ Len(Sanitized(u)) = Len(u)
         /\ \A i \in 1 .. Len(u) : Sanitized(u)[i] = IF u[i] = Illegal THEN Replacement ELSE u[i]
         /\ u \in Seq(Char) => Sanitized(u) = u
<1>1. Len(u) \in Nat /\ DOMAIN u = 1 .. Len(u) /\ \A i \in 1 .. Len(u) : u[i] \in Symbol
  OBVIOUS
<1>2. Replacement \in Char
  BY DEF Replacement, Illegal, Symbol, Char
<1>3. Sanitized(u) \in [1 .. Len(u) -> Char]
  BY <1>1, <1>2 DEF Sanitized, Char
<1>4. Sanitized(u) \in Seq(Char) /\ Len(Sanitized(u)) = Len(u)
  BY <1>1, <1>3
<1>5. \A i \in 1 .. Len(u) : Sanitized(u)[i] = IF u[i] = Illegal THEN Replacement ELSE u[i]
  BY <1>1 DEF Sanitized
<1>6. ASSUME u \in Seq(Char) PROVE Sanitized(u) = u
  <2>1. \A i \in 1 .. Len(u) : Sanitized(u)[i] = u[i]
    BY <1>5, <1>6 DEF Char
  <2> QED
    BY <1>4, <1>6, <2>1, SameText
<1> QED
  BY <1>4, <1>5, <1>6

LEMMA SymbolsApart ==
  /\ Replacement # "." /\ Replacement # Device /\ Replacement # Illegal /\ Device # "." /\ Device # "-"
  /\ "mp4" # "." /\ "-" # "." /\ Copy # "." /\ Copy # "mp4" /\ Copy # "-" /\ Copy # Illegal /\ Copy # Replacement
  /\ {Replacement, "-", ".", "mp4", Copy, Device} \subseteq Char
  BY DEF Replacement, Device, Illegal, Copy, Char, Symbol

LEMMA CharIsSymbol ==
  ASSUME NEW u \in Seq(Char)
  PROVE  u \in Seq(Symbol)
  BY DEF Char

(* A component is its value without trailing dots, behind a mark where that*)
(* would be a device.                                                      *)
LEMMA SegmentIs ==
  ASSUME NEW u \in Seq(Char)
  PROVE  \E k \in 0 .. Len(u), r \in 0 .. 1 :
           /\ Segment(u) = IF r = 1 THEN <<Replacement>> \o SubSeq(u, 1, k) ELSE SubSeq(u, 1, k)
           /\ Trimmed(u) = SubSeq(u, 1, k)
           /\ r = 1 <=> Reserved(SubSeq(u, 1, k))
           /\ Segment(u) \in Seq(Char) /\ Len(Segment(u)) = r + k
           /\ k > 0 => u[k] # "."
           /\ \A i \in 1 .. Len(u) : u[i] # "." => i <= k
           /\ \A i \in 1 .. k : Segment(u)[r + i] = u[i]
           /\ r = 1 => k > 0 /\ u[1] = Device /\ Segment(u)[1] = Replacement
<1>1. u \in Seq(Symbol) /\ Sanitized(u) = u /\ Len(u) \in Nat
  BY CharIsSymbol, SanitizedIs
<1>2. PICK k \in 0 .. Len(u) :
        /\ Trimmed(u) = SubSeq(u, 1, k) /\ Len(Trimmed(u)) = k
        /\ k > 0 => u[k] # "."
        /\ \A i \in 1 .. Len(u) : u[i] # "." => i <= k
        /\ \A i \in 1 .. k : Trimmed(u)[i] = u[i]
  BY <1>1, TrimmedIs
<1> DEFINE t == SubSeq(u, 1, k)
<1>3. t \in Seq(Char) /\ Len(t) = k /\ \A i \in 1 .. k : t[i] = u[i]
  BY <1>1, <1>2, CutIs
<1>4. Segment(u) = IF Reserved(t) THEN <<Replacement>> \o t ELSE t
  BY <1>1, <1>2 DEF Segment
<1> HIDE DEF t
<1>5. CASE Reserved(t)
  <2>1. k > 0 /\ u[1] = Device
    BY <1>2, <1>3, <1>5 DEF Reserved
  <2>2. <<Replacement>> \in Seq(Char) /\ Len(<<Replacement>>) = 1 /\ <<Replacement>>[1] = Replacement
    BY SymbolsApart
  <2>3. Segment(u) = Cat(<<Replacement>>, t)
    BY <1>4, <1>5 DEF Cat
  <2>4. /\ Segment(u) \in Seq(Char) /\ Len(Segment(u)) = 1 + k /\ Segment(u)[1] = Replacement
        /\ \A i \in 1 .. k : Segment(u)[1 + i] = u[i]
    BY <1>3, <2>2, <2>3 DEF Cat
  <2> QED
    <3>1. Segment(u) = <<Replacement>> \o t
      BY <1>4, <1>5
    <3>2. 1 \in 0 .. 1 /\ (1 = 1 <=> Reserved(t))
      BY <1>5
    <3> QED
      BY <1>2, <2>1, <2>4, <3>1, <3>2 DEF t
<1>6. CASE ~Reserved(t)
  <2>1. Segment(u) = t
    BY <1>4, <1>6
  <2>2. \A i \in 1 .. k : Segment(u)[0 + i] = u[i]
    BY <1>3, <2>1
  <2> QED
    BY <1>2, <1>3, <1>6, <2>1, <2>2 DEF t
<1> QED
  BY <1>5, <1>6

LEMMA SegmentAgain ==
  ASSUME NEW u \in Seq(Char)
  PROVE  Segment(Segment(u)) = Segment(u)
<1> DEFINE s == Segment(u)
<1>1. PICK k \in 0 .. Len(u), r \in 0 .. 1 :
        /\ s = IF r = 1 THEN <<Replacement>> \o SubSeq(u, 1, k) ELSE SubSeq(u, 1, k)
        /\ r = 1 <=> Reserved(SubSeq(u, 1, k))
        /\ s \in Seq(Char) /\ Len(s) = r + k
        /\ k > 0 => u[k] # "."
        /\ \A i \in 1 .. k : s[r + i] = u[i]
        /\ r = 1 => k > 0 /\ s[1] = Replacement
  BY SegmentIs
<1> HIDE DEF s
<1>2. Len(s) > 0 => s[Len(s)] # "."
  BY <1>1
<1>3. ~Reserved(s)
  <2>1. CASE r = 1
    BY <1>1, <2>1, SymbolsApart DEF Reserved
  <2>2. CASE r = 0
    BY <1>1, <2>2
  <2> QED
    BY <2>1, <2>2
<1>4. Sanitized(s) = s /\ Trimmed(s) = s
  BY <1>1, <1>2, CharIsSymbol, SanitizedIs, TrimmedAlready
<1>5. Segment(s) = s
  BY <1>3, <1>4 DEF Segment
<1> QED
  BY <1>5 DEF s

LEMMA FlattenThree ==
  ASSUME NEW a, NEW b, NEW c
  PROVE  FlattenSeq(<<a, b, c>>) = Cat(Cat(a, b), c)
<1> DEFINE all == <<a, b, c>>
           Grown(f) == [i \in 1 .. 3 |-> IF i = 1 THEN all[i] ELSE Cat(f[i - 1], all[i])]
           flat == CHOOSE f : f = Grown(f)
           three == [i \in 1 .. 3 |-> IF i = 1 THEN a ELSE IF i = 2 THEN Cat(a, b) ELSE Cat(Cat(a, b), c)]
<1>1. FlattenSeq(all) = flat[3]
  BY DEF FlattenSeq, Cat
<1>2. all[1] = a /\ all[2] = b /\ all[3] = c
  OBVIOUS
<1> HIDE DEF all
<1>3. three = Grown(three)
  <2>1. ASSUME NEW i \in 1 .. 3 PROVE three[i] = IF i = 1 THEN all[i] ELSE Cat(three[i - 1], all[i])
    <3>1. three[1] = a /\ three[2] = Cat(a, b) /\ three[3] = Cat(Cat(a, b), c)
      OBVIOUS
    <3> HIDE DEF three
    <3>2. CASE i = 1
      BY <1>2, <3>1, <3>2
    <3>3. CASE i = 2
      BY <1>2, <3>1, <3>3
    <3>4. CASE i = 3
      BY <1>2, <3>1, <3>4
    <3> QED
      BY <3>2, <3>3, <3>4
  <2>2. three = [i \in 1 .. 3 |-> three[i]]
    OBVIOUS
  <2> HIDE DEF three
  <2> QED
    BY <2>1, <2>2
<1>4. flat = Grown(flat)
  <2> HIDE DEF three, Grown
  <2> QED
    BY <1>3
<1> HIDE DEF flat
<1>5. flat[1] = a /\ flat[2] = Cat(flat[1], b) /\ flat[3] = Cat(flat[2], c)
  <2>1. \A i \in 1 .. 3 : flat[i] = IF i = 1 THEN all[i] ELSE Cat(flat[i - 1], all[i])
    BY <1>4
  <2> QED
    BY <1>2, <2>1
<1>6. flat[3] = Cat(Cat(a, b), c)
  BY <1>5
<1> QED
  BY <1>1, <1>6 DEF all

LEMMA FlattenFive ==
  ASSUME NEW a, NEW b, NEW c, NEW d, NEW e
  PROVE  FlattenSeq(<<a, b, c, d, e>>) = Cat(Cat(Cat(Cat(a, b), c), d), e)
<1> DEFINE all == <<a, b, c, d, e>>
           Grown(f) == [i \in 1 .. 5 |-> IF i = 1 THEN all[i] ELSE Cat(f[i - 1], all[i])]
           flat == CHOOSE f : f = Grown(f)
           five == [i \in 1 .. 5 |->
                      IF i = 1 THEN a
                      ELSE IF i = 2 THEN Cat(a, b)
                      ELSE IF i = 3 THEN Cat(Cat(a, b), c)
                      ELSE IF i = 4 THEN Cat(Cat(Cat(a, b), c), d)
                      ELSE Cat(Cat(Cat(Cat(a, b), c), d), e)]
<1>1. FlattenSeq(all) = flat[5]
  BY DEF FlattenSeq, Cat
<1>2. all[1] = a /\ all[2] = b /\ all[3] = c /\ all[4] = d /\ all[5] = e
  OBVIOUS
<1> HIDE DEF all
<1>3. five = Grown(five)
  <2>1. ASSUME NEW i \in 1 .. 5 PROVE five[i] = IF i = 1 THEN all[i] ELSE Cat(five[i - 1], all[i])
    <3>1. /\ five[1] = a /\ five[2] = Cat(a, b) /\ five[3] = Cat(Cat(a, b), c)
          /\ five[4] = Cat(Cat(Cat(a, b), c), d) /\ five[5] = Cat(Cat(Cat(Cat(a, b), c), d), e)
      OBVIOUS
    <3> HIDE DEF five
    <3>2. CASE i = 1
      BY <1>2, <3>1, <3>2
    <3>3. CASE i = 2
      BY <1>2, <3>1, <3>3
    <3>4. CASE i = 3
      BY <1>2, <3>1, <3>4
    <3>5. CASE i = 4
      BY <1>2, <3>1, <3>5
    <3>6. CASE i = 5
      BY <1>2, <3>1, <3>6
    <3> QED
      BY <3>2, <3>3, <3>4, <3>5, <3>6
  <2>2. five = [i \in 1 .. 5 |-> five[i]]
    OBVIOUS
  <2> HIDE DEF five
  <2> QED
    BY <2>1, <2>2
<1>4. flat = Grown(flat)
  <2> HIDE DEF five, Grown
  <2> QED
    BY <1>3
<1> HIDE DEF flat
<1>5. /\ flat[1] = a /\ flat[2] = Cat(flat[1], b) /\ flat[3] = Cat(flat[2], c)
      /\ flat[4] = Cat(flat[3], d) /\ flat[5] = Cat(flat[4], e)
  <2>1. \A i \in 1 .. 5 : flat[i] = IF i = 1 THEN all[i] ELSE Cat(flat[i - 1], all[i])
    BY <1>4
  <2> QED
    BY <1>2, <2>1
<1>6. flat[5] = Cat(Cat(Cat(Cat(a, b), c), d), e)
  BY <1>5
<1> QED
  BY <1>1, <1>6 DEF all

LEMMA FlattenOne ==
  ASSUME NEW a
  PROVE  FlattenSeq(<<a>>) = a
<1> DEFINE all == <<a>>
           Grown(f) == [i \in 1 .. 1 |-> IF i = 1 THEN all[i] ELSE f[i - 1] \o all[i]]
           flat == CHOOSE f : f = Grown(f)
           sole == [i \in 1 .. 1 |-> a]
<1>1. sole = Grown(sole)
  OBVIOUS
<1>2. flat = Grown(flat)
  <2> HIDE DEF sole, Grown
  <2> QED
    BY <1>1
<1> HIDE DEF flat
<1>3. flat[1] = a
  BY <1>2
<1>4. FlattenSeq(all) = flat[1]
  BY DEF FlattenSeq, flat
<1> QED
  BY <1>3, <1>4

(* The parts of the templates.                                             *)
Full == <<"author", "-", "title", ".", "ext">>
Brief == <<"title", ".", "ext">>
Sole  == <<"author">>

LEMMA TemplateIs ==
  ASSUME template \in Template
  PROVE  /\ template \in {<<Sole, Full>>, <<Sole, Brief>>, <<Full>>}
         /\ Len(template) \in 1 .. 2 /\ DOMAIN template = 1 .. Len(template)
         /\ FileParts = template[Len(template)] /\ FileParts \in {Full, Brief}
         /\ Len(template) = 2 => template[1] = Sole
         /\ Len(template) = 1 => FileParts = Full
<1>1. CASE template = <<Sole, Full>>
  BY <1>1 DEF FileParts, Last
<1>2. CASE template = <<Sole, Brief>>
  BY <1>2 DEF FileParts, Last
<1>3. CASE template = <<Full>>
  BY <1>3 DEF FileParts, Last
<1> QED
  BY <1>1, <1>2, <1>3 DEF Template, Full, Brief, Sole

LEMMA ExpandIs ==
  ASSUME NEW v
  PROVE  /\ Expand(Sole, v) = v["author"]
         /\ Expand(Full, v) = Cat(Cat(Cat(Cat(v["author"], <<"-">>), v["title"]), <<".">>), <<"mp4">>)
         /\ Expand(Brief, v) = Cat(Cat(v["title"], <<".">>), <<"mp4">>)
<1> DEFINE Part(part) == CASE part \in Value -> v[part] [] part = "ext" -> <<"mp4">> [] OTHER -> <<part>>
<1>1. /\ Part("author") = v["author"] /\ Part("title") = v["title"]
      /\ Part("-") = <<"-">> /\ Part(".") = <<".">> /\ Part("ext") = <<"mp4">>
  BY DEF Value
<1>2. \A parts : Expand(parts, v) = FlattenSeq([i \in DOMAIN parts |-> Part(parts[i])])
  BY DEF Expand
<1> HIDE DEF Part
<1>3. [i \in DOMAIN Sole |-> Part(Sole[i])] = <<v["author"]>>
  BY <1>1 DEF Sole
<1>4. [i \in DOMAIN Full |-> Part(Full[i])] = <<v["author"], <<"-">>, v["title"], <<".">>, <<"mp4">>>>
  BY <1>1 DEF Full
<1>5. [i \in DOMAIN Brief |-> Part(Brief[i])] = <<v["title"], <<".">>, <<"mp4">>>>
  BY <1>1 DEF Brief
<1>6. /\ Expand(Sole, v) = FlattenSeq(<<v["author"]>>)
      /\ Expand(Full, v) = FlattenSeq(<<v["author"], <<"-">>, v["title"], <<".">>, <<"mp4">>>>)
      /\ Expand(Brief, v) = FlattenSeq(<<v["title"], <<".">>, <<"mp4">>>>)
  BY <1>2, <1>3, <1>4, <1>5
<1>7. FlattenSeq(<<v["author"]>>) = v["author"]
  BY ONLY FlattenOne
<1>8. FlattenSeq(<<v["author"], <<"-">>, v["title"], <<".">>, <<"mp4">>>>)
        = Cat(Cat(Cat(Cat(v["author"], <<"-">>), v["title"]), <<".">>), <<"mp4">>)
  <2> DEFINE a == v["author"]
             b == <<"-">>
             c == v["title"]
             d == <<".">>
             e == <<"mp4">>
  <2> HIDE DEF a, b, c, d, e
  <2>1. FlattenSeq(<<a, b, c, d, e>>) = Cat(Cat(Cat(Cat(a, b), c), d), e)
    BY FlattenFive
  <2> QED
    BY ONLY <2>1 DEF a, b, c, d, e
<1>9. FlattenSeq(<<v["title"], <<".">>, <<"mp4">>>>) = Cat(Cat(v["title"], <<".">>), <<"mp4">>)
  <2> DEFINE a == v["title"]
             b == <<".">>
             c == <<"mp4">>
  <2> HIDE DEF a, b, c
  <2>1. FlattenSeq(<<a, b, c>>) = Cat(Cat(a, b), c)
    BY FlattenThree
  <2> QED
    BY ONLY <2>1 DEF a, b, c
<1> QED
  BY ONLY <1>6, <1>7, <1>8, <1>9, Zenon

(* What stands in the file's name before its extension.                    *)
Stem1(v) == IF FileParts = Full THEN Cat(Cat(v["author"], <<"-">>), v["title"]) ELSE v["title"]
Marks == {<<>>, <<Replacement>>}

LEMMA ExtensionIs ==
  /\ Extension \in Seq(Char) /\ Len(Extension) = 2 /\ Extension[1] = "." /\ Extension[2] = "mp4"
  BY SymbolsApart DEF Extension

LEMMA ExtensionBuilt ==
  ASSUME NEW u \in Seq(Char), NEW v \in Seq(Char), Len(u) = 1, Len(v) = 1, u[1] = ".", v[1] = "mp4"
  PROVE  Cat(u, v) = Extension
<1>1. Cat(u, v) \in Seq(Char) /\ Len(Cat(u, v)) = 2
  <2>1. Cat(u, v) \in Seq(Char)
    BY JoinedIs
  <2>2. Len(Cat(u, v)) = Len(u) + Len(v)
    BY JoinedIs
  <2> QED
    BY <2>1, <2>2
<1>2. Cat(u, v)[1] = "."
  <2>1. \A i \in 1 .. Len(u) : Cat(u, v)[i] = u[i]
    BY JoinedIs
  <2>2. 1 \in 1 .. Len(u)
    OBVIOUS
  <2> QED
    BY <2>1, <2>2
<1>3. Cat(u, v)[2] = "mp4"
  <2>1. \A i \in 1 .. Len(v) : Cat(u, v)[Len(u) + i] = v[i]
    BY JoinedIs
  <2>2. 1 \in 1 .. Len(v)
    OBVIOUS
  <2> QED
    BY <2>1, <2>2
<1>4. \A i \in 1 .. 2 : Cat(u, v)[i] = Extension[i]
  BY <1>2, <1>3, ExtensionIs
<1> DEFINE w == Cat(u, v)
<1> HIDE DEF w
<1>5. w = Extension
  BY <1>1, <1>4, ExtensionIs, SameText DEF w
<1> QED
  BY <1>5 DEF w

LEMMA FileIs ==
  ASSUME template \in Template, NEW v \in [Value -> Seq(Char)], v["author"] # <<>>, v["title"] # <<>>
  PROVE  /\ Stem1(v) \in Seq(Char) /\ Stem1(v) # <<>>
         /\ \E mark \in Marks :
              /\ Segment(Expand(FileParts, v)) = Cat(Cat(mark, Stem1(v)), Extension)
              /\ mark # <<>> => Stem1(v)[1] = Device
<1> DEFINE author == v["author"]
           title  == v["title"]
           stem   == Stem1(v)
           file   == Cat(stem, Extension)
<1>1. author \in Seq(Char) /\ title \in Seq(Char) /\ Len(author) > 0 /\ Len(title) > 0
  BY DEF Value
<1>2. <<"-">> \in Seq(Char) /\ <<".">> \in Seq(Char) /\ <<"mp4">> \in Seq(Char) /\ Cat(<<".">>, <<"mp4">>) = Extension
  <2>1. <<"-">> \in Seq(Char) /\ <<".">> \in Seq(Char) /\ <<"mp4">> \in Seq(Char)
    BY SymbolsApart
  <2>2. /\ Len(<<".">>) = 1 /\ <<".">>[1] = "." /\ Len(<<"mp4">>) = 1 /\ <<"mp4">>[1] = "mp4"
    OBVIOUS
  <2> QED
    BY <2>1, <2>2, ExtensionBuilt
<1>3. stem \in Seq(Char) /\ Len(stem) > 0
  <2>1. /\ Cat(author, <<"-">>) \in Seq(Char) /\ Cat(Cat(author, <<"-">>), title) \in Seq(Char)
        /\ Len(Cat(Cat(author, <<"-">>), title)) > 0
    <3> HIDE DEF author, title
    <3> QED
      BY <1>1, <1>2 DEF Cat
  <2> QED
    BY <1>1, <2>1 DEF Stem1
<1>4. Expand(FileParts, v) = file
  <2>1. FileParts \in {Full, Brief}
    BY TemplateIs
  <2>2. Expand(FileParts, v) = Cat(Cat(stem, <<".">>), <<"mp4">>)
    <3>1. Full # Brief
      BY DEF Full, Brief
    <3> QED
      BY <2>1, <3>1, ExpandIs DEF Stem1
  <2> HIDE DEF stem
  <2>3. Cat(Cat(stem, <<".">>), <<"mp4">>) = Cat(stem, Cat(<<".">>, <<"mp4">>))
    BY ZenonT(40), <1>2, <1>3, CatAssociative
  <2> QED
    BY <1>2, <2>2, <2>3
<1> HIDE DEF stem
<1>5. /\ file \in Seq(Char) /\ Len(file) = Len(stem) + 2 /\ file[Len(file)] = "mp4" /\ file[1] = stem[1]
  <2>1. Cat(stem, Extension) \in Seq(Char)
    BY <1>3, ExtensionIs, NameBuilt
  <2>2. Len(Cat(stem, Extension)) = Len(stem) + 2
    BY <1>3, ExtensionIs, NameBuilt
  <2>3. Cat(stem, Extension)[Len(stem) + 2] = "mp4"
    BY <1>3, ExtensionIs, NameBuilt
  <2>4. Cat(stem, Extension)[1] = stem[1]
    BY <1>3, ExtensionIs, NameBuilt
  <2> QED
    BY <2>1, <2>2, <2>3, <2>4
<1> HIDE DEF file
<1>6. Segment(file) = IF Reserved(file) THEN Cat(<<Replacement>>, file) ELSE file
  <2>1. Sanitized(file) = file /\ Trimmed(file) = file
    BY <1>5, CharIsSymbol, SanitizedIs, SymbolsApart, TrimmedAlready
  <2> QED
    BY <2>1 DEF Segment, Cat
<1> DEFINE mark == IF Reserved(file) THEN <<Replacement>> ELSE <<>>
<1>7. mark \in Marks /\ mark \in Seq(Char) /\ (mark # <<>> => stem[1] = Device)
  BY <1>5, SymbolsApart DEF Reserved, Marks
<1>8. Segment(file) = Cat(mark, file)
  BY <1>5, <1>6, CatEmpty
<1> HIDE DEF mark
<1>9. Cat(mark, file) = Cat(Cat(mark, stem), Extension)
  <2>1. Cat(mark, Cat(stem, Extension)) = Cat(Cat(mark, stem), Extension)
    BY ONLY <1>3, <1>7, ExtensionIs, CatAssociative
  <2> QED
    BY <2>1 DEF file
<1>10. Segment(Expand(FileParts, v)) = Cat(Cat(mark, stem), Extension)
  BY ONLY <1>4, <1>8, <1>9
<1>11. mark \in Marks /\ (mark # <<>> => stem[1] = Device) /\ stem \in Seq(Char) /\ stem # <<>>
  BY <1>3, <1>7
<1> QED
  BY ONLY <1>10, <1>11, Zenon DEF stem

(* The stem and the extension of a name.                                   *)
LEMMA NameIs ==
  ASSUME NEW z \in Seq(Char)
  PROVE  /\ Cat(z, Extension) \in Seq(Char) /\ Len(Cat(z, Extension)) = Len(z) + 2
         /\ NameStem(Cat(z, Extension)) = z /\ NameExt(Cat(z, Extension)) = Extension
<1> DEFINE name == Cat(z, Extension)
<1>1. /\ name \in Seq(Char) /\ Len(name) = Len(z) + 2 /\ Len(z) \in Nat
      /\ name[Len(z) + 1] = "." /\ name[Len(z) + 2] = "mp4"
  <2>1. Cat(z, Extension) \in Seq(Char)
    BY ExtensionIs, NameBuilt
  <2>2. Len(Cat(z, Extension)) = Len(z) + 2
    BY ExtensionIs, NameBuilt
  <2>3. Cat(z, Extension)[Len(z) + 1] = "." /\ Cat(z, Extension)[Len(z) + 2] = "mp4"
    BY ExtensionIs, NameBuilt
  <2> QED
    BY <2>1, <2>2, <2>3
<1>2. SubSeq(name, 1, Len(z)) = z /\ SubSeq(name, Len(z) + 1, Len(z) + 2) = Extension
  BY ExtensionIs, CutsOfJoined
<1> HIDE DEF name
<1>3. Dot(name) = Len(z) + 1
  <2> DEFINE dots == {i \in DOMAIN name : name[i] = "."}
  <2>1. Len(z) + 1 \in dots /\ \A i \in dots : i \in Nat /\ Len(z) + 1 >= i
    BY <1>1, SymbolsApart
  <2>2. Max(dots) = Len(z) + 1
    <3> HIDE DEF dots
    <3>1. \A x \in dots : (\A y \in dots : x >= y) => x = Len(z) + 1
      BY <1>1, <2>1
    <3>2. \E x \in dots : \A y \in dots : x >= y
      BY <2>1
    <3> QED
      BY <3>1, <3>2 DEF Max
  <2> QED
    BY <2>2 DEF Dot
<1>4. NameStem(name) = z /\ NameExt(name) = Extension
  BY <1>1, <1>2, <1>3 DEF NameStem, NameExt
<1> QED
  BY <1>1, <1>4 DEF name

(* What is read of a name is what was written, but for the suffix of a     *)
(* second copy or what looks like one.                                     *)
LEMMA SplitIs ==
  ASSUME NEW n \in 1 .. 2, NEW components \in [1 .. n -> Seq(Char)], NEW z \in Seq(Char), z # <<>>,
         components[n] = Cat(z, Extension), NEW second \in BOOLEAN
  PROVE  LET name == SplitDuplicate(Candidate(components, second))
             stem == IF ~second /\ Last(z) = Copy THEN Front(z) ELSE z
         IN  /\ Last(name) = Cat(stem, Extension)
             /\ n = 2 => Head(name) = components[1]
<1>1. /\ components \in Seq(Seq(Char)) /\ Len(components) = n /\ Len(z) > 0
      /\ \A q \in Seq(Char) : [components EXCEPT ![n] = q] \in [1 .. n -> Seq(Char)]
  OBVIOUS
<1> DEFINE Suffixed(q) == [components EXCEPT ![n] = Cat(q, Extension)]
<1>2. ASSUME NEW q \in Seq(Char)
      PROVE  /\ Suffixed(q) \in Seq(Seq(Char)) /\ Len(Suffixed(q)) = n
             /\ Last(Suffixed(q)) = Cat(q, Extension)
             /\ n = 2 => Head(Suffixed(q)) = components[1]
  <2>1. Cat(q, Extension) \in Seq(Char)
    BY NameIs
  <2>2. Suffixed(q) \in [1 .. n -> Seq(Char)] /\ Suffixed(q)[n] = Cat(q, Extension) /\ (n = 2 => Suffixed(q)[1] = components[1])
    BY <2>1
  <2> HIDE DEF Suffixed
  <2>3. Suffixed(q) \in Seq(Seq(Char)) /\ Len(Suffixed(q)) = n
    BY <2>2
  <2>4. n = 2 => Head(Suffixed(q)) = Suffixed(q)[1]
    BY <2>3
  <2> QED
    BY <2>2, <2>3, <2>4 DEF Last
<1>3. ASSUME NEW q \in Seq(Char), Len(q) > 0
      PROVE  SplitDuplicate(Suffixed(q)) = Suffixed(IF Last(q) = Copy THEN Front(q) ELSE q)
  <2>1. /\ Last(Suffixed(q)) = Cat(q, Extension) /\ Len(Suffixed(q)) = n /\ Suffixed(q)[n] = Cat(q, Extension)
    BY <1>2, <1>3 DEF Last
  <2>2. NameStem(Cat(q, Extension)) = q /\ NameExt(Cat(q, Extension)) = Extension
    BY NameIs
  <2>3. Copied(Suffixed(q)) <=> Last(q) = Copy
    <3>1. NameStem(Last(Suffixed(q))) = q /\ q # <<>>
      <4> HIDE DEF Suffixed
      <4> QED
        BY <1>3, <2>1, <2>2
    <3> HIDE DEF Suffixed
    <3> QED
      BY <3>1 DEF Copied
  <2>4. [Suffixed(q) EXCEPT ![n] = Cat(Front(NameStem(@)), NameExt(@))] = Suffixed(Front(q))
    BY <2>1, <2>2
  <2>5. SplitDuplicate(Suffixed(q)) = IF Copied(Suffixed(q)) THEN Suffixed(Front(q)) ELSE Suffixed(q)
    BY <2>1, <2>4 DEF SplitDuplicate, Cat
  <2> HIDE DEF Suffixed
  <2> QED
    BY <2>3, <2>5
<1>4. Candidate(components, second) = Suffixed(IF second THEN Cat(z, <<Copy>>) ELSE z)
  <2>1. NameStem(components[n]) = z /\ NameExt(components[n]) = Extension
    BY NameIs
  <2>2. CASE second
    <3>1. [components EXCEPT ![n] = Cat(Cat(NameStem(@), <<Copy>>), NameExt(@))] = Suffixed(Cat(z, <<Copy>>))
      BY <2>1
    <3> HIDE DEF Suffixed
    <3> QED
      BY <1>1, <2>2, <3>1 DEF Candidate, Cat
  <2>3. CASE ~second
    <3>1. Suffixed(z) = components
      BY <1>1
    <3> HIDE DEF Suffixed
    <3> QED
      BY <2>3, <3>1 DEF Candidate
  <2> QED
    BY <2>2, <2>3
<1> HIDE DEF Suffixed
<1>5. Cat(z, <<Copy>>) \in Seq(Char) /\ Len(Cat(z, <<Copy>>)) > 0 /\ Last(Cat(z, <<Copy>>)) = Copy /\ Front(Cat(z, <<Copy>>)) = z
  <2>1. <<Copy>> \in Seq(Char) /\ Len(<<Copy>>) = 1 /\ <<Copy>>[1] = Copy
    BY SymbolsApart
  <2>2. /\ Cat(z, <<Copy>>) \in Seq(Char) /\ Len(Cat(z, <<Copy>>)) = Len(z) + 1 /\ Cat(z, <<Copy>>)[Len(z) + 1] = Copy
        /\ SubSeq(Cat(z, <<Copy>>), 1, Len(z)) = z
    BY <2>1, CutsOfJoined DEF Cat
  <2> QED
    BY SMTT(20), <2>2, <1>1 DEF Last, Front
<1>6. Front(z) \in Seq(Char)
  BY <1>1, CutIs DEF Front
<1> DEFINE stem == IF ~second /\ Last(z) = Copy THEN Front(z) ELSE z
<1>7. SplitDuplicate(Candidate(components, second)) = Suffixed(stem)
  <2>1. CASE second
    BY <1>3, <1>4, <1>5, <2>1
  <2>2. CASE ~second
    BY <1>1, <1>3, <1>4, <2>2
  <2> QED
    BY <2>1, <2>2
<1>8. stem \in Seq(Char)
  BY <1>6
<1> HIDE DEF stem
<1>9. Last(Suffixed(stem)) = Cat(stem, Extension) /\ (n = 2 => Head(Suffixed(stem)) = components[1])
  BY <1>2, <1>8
<1> QED
  BY <1>7, <1>9 DEF stem

(* A file's name in which the author comes first.                          *)
LEMMA FullText ==
  ASSUME NEW u \in Seq(Char), Len(u) > 0, NEW t \in Seq(Char), Len(t) > 0
  PROVE  LET label == Cat(Cat(Cat(u, <<"-">>), t), Extension)
             n    == Len(label)
             p    == Len(u) + 1
         IN  /\ label \in Seq(Char) /\ n \in Nat /\ p \in 2 .. n - 3
             /\ label[p] = "-" /\ label[n - 1] = "." /\ label[n] = "mp4"
             /\ SubSeq(label, 1, p - 1) = u /\ SubSeq(label, p + 1, n - 2) = t
             /\ \A i \in 1 .. Len(u) : label[i] = u[i]
<1> DEFINE dash == <<"-">>
           one  == Cat(u, dash)
           two  == Cat(one, t)
           label == Cat(two, Extension)
<1>1. dash \in Seq(Char) /\ Len(dash) = 1 /\ dash[1] = "-"
  BY SymbolsApart
<1> HIDE DEF dash
<1>2. /\ one \in Seq(Char)
      /\ Len(one) = Len(u) + 1
      /\ \A i \in 1 .. Len(u) : one[i] = u[i]
      /\ one[Len(u) + 1] = "-"
  <2>1. one \in Seq(Char)
    BY <1>1, JoinedIs
  <2>2. Len(one) = Len(u) + 1
    <3>1. Len(one) = Len(u) + Len(dash)
      BY <1>1, JoinedIs
    <3> QED
      BY <1>1, <3>1
  <2>3. \A i \in 1 .. Len(u) : one[i] = u[i]
    BY <1>1, JoinedIs
  <2>4. \A i \in 1 .. Len(dash) : one[Len(u) + i] = dash[i]
    BY <1>1, JoinedIs
  <2>5. one[Len(u) + 1] = "-"
    <3>1. 1 \in 1 .. Len(dash)
      BY <1>1
    <3> QED
      BY <1>1, <2>4, <3>1
  <2> QED
    BY <2>1, <2>2, <2>3, <2>5
<1> HIDE DEF one
<1>3. /\ two \in Seq(Char)
      /\ Len(two) = Len(u) + 1 + Len(t)
      /\ \A i \in 1 .. Len(u) + 1 : two[i] = one[i]
      /\ \A i \in 1 .. Len(t) : two[Len(u) + 1 + i] = t[i]
  <2>1. two \in Seq(Char)
    BY <1>2, JoinedIs
  <2>2. Len(two) = Len(one) + Len(t)
    BY <1>2, JoinedIs
  <2>3. \A i \in 1 .. Len(one) : two[i] = one[i]
    BY <1>2, JoinedIs
  <2>4. \A i \in 1 .. Len(t) : two[Len(one) + i] = t[i]
    BY <1>2, JoinedIs
  <2> QED
    BY <1>2, <2>1, <2>2, <2>3, <2>4
<1> HIDE DEF two
<1>4. /\ label \in Seq(Char)
      /\ Len(label) = Len(two) + 2
      /\ \A i \in 1 .. Len(two) : label[i] = two[i]
      /\ label[Len(two) + 1] = "." /\ label[Len(two) + 2] = "mp4"
  <2>1. label \in Seq(Char)
    BY <1>3, ExtensionIs, NameBuilt
  <2>2. Len(label) = Len(two) + 2
    BY <1>3, ExtensionIs, NameBuilt
  <2>3. label[Len(two) + 1] = "." /\ label[Len(two) + 2] = "mp4"
    BY <1>3, ExtensionIs, NameBuilt
  <2>4. \A i \in 1 .. Len(two) : label[i] = two[i]
    BY <1>3, ExtensionIs, JoinedIs
  <2> QED
    BY <2>1, <2>2, <2>3, <2>4
<1> HIDE DEF label
<1> DEFINE n == Len(label)
           p == Len(u) + 1
<1>5. Len(u) \in Nat /\ Len(t) \in Nat /\ Len(two) = Len(u) + 1 + Len(t) /\ n = Len(u) + Len(t) + 3
  BY <1>3, <1>4
<1>6. n \in Nat /\ p \in 2 .. n - 3 /\ label[p] = "-" /\ label[n - 1] = "." /\ label[n] = "mp4"
  <2>1. label[p] = two[p] /\ two[p] = one[p] /\ one[p] = "-"
    BY <1>2, <1>3, <1>4, <1>5
  <2> QED
    BY <1>4, <1>5, <2>1
<1>7. \A i \in 1 .. Len(u) : label[i] = u[i]
  BY <1>2, <1>3, <1>4, <1>5
<1>8. \A i \in 1 .. Len(t) : label[p + i] = t[i]
  BY <1>3, <1>4, <1>5
<1>9. SubSeq(label, 1, p - 1) = u
  <2> DEFINE w == SubSeq(label, 1, p - 1)
  <2>1. w \in Seq(Char) /\ Len(w) = Len(u) /\ \A k \in 1 .. Len(u) : w[k] = label[k]
    BY <1>4, <1>5, CutIs
  <2> HIDE DEF w
  <2>2. w = u
    BY <1>7, <2>1, SameText
  <2> QED
    BY <2>2 DEF w
<1>10. SubSeq(label, p + 1, n - 2) = t
  <2> DEFINE w == SubSeq(label, p + 1, n - 2)
  <2>1. w \in Seq(Char) /\ Len(w) = Len(t) /\ \A k \in 1 .. Len(t) : w[k] = label[p + k]
    BY <1>4, <1>5, CutIs
  <2> HIDE DEF w
  <2>2. w = t
    BY <1>8, <2>1, SameText
  <2> QED
    BY <2>2 DEF w
<1>11. label = Cat(Cat(Cat(u, <<"-">>), t), Extension)
  BY DEF label, two, one, dash
<1> QED
  BY <1>4, <1>6, <1>7, <1>9, <1>10, <1>11

(* The ways to cut a name: one for each dash that has something on both    *)
(* sides.                                                                  *)
AroundDash(n, p) == [i \in 1 .. 4 |-> IF i = 1 THEN p - 1 ELSE IF i = 2 THEN p ELSE IF i = 3 THEN n - 2 ELSE n - 1]

LEMMA FullIs ==
  ASSUME FileParts = Full
  PROVE  /\ Len(FileParts) = 5 /\ DOMAIN FileParts = 1 .. 5
         /\ FileParts[1] = "author" /\ FileParts[2] = "-" /\ FileParts[3] = "title" /\ FileParts[4] = "." /\ FileParts[5] = "ext"
         /\ (CHOOSE i \in DOMAIN FileParts : FileParts[i] = "author") = 1
         /\ (CHOOSE i \in DOMAIN FileParts : FileParts[i] = "title") = 3
         /\ Contains(FileParts, "author")
<1>1. /\ Len(Full) = 5 /\ DOMAIN Full = 1 .. 5
      /\ Full[1] = "author" /\ Full[2] = "-" /\ Full[3] = "title" /\ Full[4] = "." /\ Full[5] = "ext"
  BY DEF Full
<1>2. \A i \in 1 .. 5 : (Full[i] = "author" <=> i = 1) /\ (Full[i] = "title" <=> i = 3)
  BY DEF Full
<1>3. (CHOOSE i \in DOMAIN Full : Full[i] = "author") = 1
  BY <1>1, <1>2
<1>4. (CHOOSE i \in DOMAIN Full : Full[i] = "title") = 3
  BY <1>1, <1>2
<1>5. Contains(Full, "author")
  BY <1>1 DEF Contains
<1> QED
  BY <1>1, <1>3, <1>4, <1>5

LEMMA ShapedIs ==
  ASSUME NEW label
  PROVE  /\ Shaped("author", label) <=> \A i \in DOMAIN label : label[i] # Illegal
         /\ Shaped("title", label) <=> \A i \in DOMAIN label : label[i] # Illegal
         /\ Shaped("-", label) <=> label = <<"-">>
         /\ Shaped(".", label) <=> label = <<".">>
         /\ Shaped("ext", label) <=> \A i \in DOMAIN label : label[i] \in {"a", Device, Wide, "mp4"}
  BY DEF Shaped, Value

LEMMA OneSymbol ==
  ASSUME NEW u \in Seq(Char), NEW s
  PROVE  u = <<s>> <=> Len(u) = 1 /\ u[1] = s
  OBVIOUS

(* What stands between two places of a text, and the shape it has.         *)
LEMMA BitIs ==
  ASSUME NEW label \in Seq(Char), NEW n \in Nat, n = Len(label), NEW i \in 1 .. n, NEW j \in i .. n
  PROVE  /\ SubSeq(label, i, j) \in Seq(Char) /\ Len(SubSeq(label, i, j)) = j - i + 1
         /\ \A k \in 1 .. j - i + 1 : SubSeq(label, i, j)[k] = label[k + i - 1]
<1>1. i \in Nat /\ j \in Nat /\ 1 <= i /\ i <= j + 1 /\ j <= Len(label)
  OBVIOUS
<1> QED
  BY ONLY <1>1, CutIs, label \in Seq(Char)

LEMMA BitShaped ==
  ASSUME NEW label \in Seq(Char), NEW n \in Nat, n = Len(label), NEW i \in 1 .. n, NEW j \in i .. n
  PROVE  /\ Shaped("author", SubSeq(label, i, j)) /\ Shaped("title", SubSeq(label, i, j))
         /\ Shaped("-", SubSeq(label, i, j)) <=> i = j /\ label[i] = "-"
         /\ Shaped(".", SubSeq(label, i, j)) <=> i = j /\ label[i] = "."
         /\ Shaped("ext", SubSeq(label, i, j)) <=> \A k \in i .. j : label[k] \in {"a", Device, Wide, "mp4"}
<1> DEFINE bit == SubSeq(label, i, j)
           m == j - i + 1
<1>1. bit \in Seq(Char) /\ Len(bit) = m /\ m \in Nat /\ \A k \in 1 .. m : bit[k] = label[k + i - 1]
  BY BitIs
<1>2. m = 1 <=> i = j
  OBVIOUS
<1>3. m >= 1 /\ bit[1] = label[i]
  <2>1. 1 \in 1 .. m /\ 1 + i - 1 = i
    OBVIOUS
  <2> QED
    BY <1>1, <2>1
<1>4. \A k \in i .. j : k - i + 1 \in 1 .. m /\ (k - i + 1) + i - 1 = k
  OBVIOUS
<1>5. \A k \in 1 .. m : k + i - 1 \in i .. j
  OBVIOUS
<1> HIDE DEF bit, m
<1>6. DOMAIN bit = 1 .. m
  BY <1>1
<1>7. Shaped("author", bit) /\ Shaped("title", bit)
  <2>1. \A k \in DOMAIN bit : bit[k] # Illegal
    BY <1>1 DEF Char
  <2> QED
    BY <2>1, ShapedIs
<1>8. /\ Shaped("-", bit) <=> i = j /\ label[i] = "-"
      /\ Shaped(".", bit) <=> i = j /\ label[i] = "."
  <2>1. \A s : bit = <<s>> <=> Len(bit) = 1 /\ bit[1] = s
    BY <1>1, OneSymbol
  <2>2. \A s : bit = <<s>> <=> i = j /\ label[i] = s
    BY <1>1, <1>2, <1>3, <2>1
  <2>3. Shaped("-", bit) <=> bit = <<"-">>
    BY ShapedIs
  <2>4. Shaped(".", bit) <=> bit = <<".">>
    BY ShapedIs
  <2> QED
    BY <2>2, <2>3, <2>4
<1>9. Shaped("ext", bit) <=> \A k \in i .. j : label[k] \in {"a", Device, Wide, "mp4"}
  <2>1. Shaped("ext", bit) <=> \A k \in 1 .. m : bit[k] \in {"a", Device, Wide, "mp4"}
    BY <1>6, ShapedIs
  <2>2. (\A k \in 1 .. m : bit[k] \in {"a", Device, Wide, "mp4"})
          <=> \A k \in 1 .. m : label[k + i - 1] \in {"a", Device, Wide, "mp4"}
    BY <1>1
  <2>3. (\A k \in 1 .. m : label[k + i - 1] \in {"a", Device, Wide, "mp4"})
          <=> \A k \in i .. j : label[k] \in {"a", Device, Wide, "mp4"}
    <3>1. ASSUME \A k \in 1 .. m : label[k + i - 1] \in {"a", Device, Wide, "mp4"}, NEW k \in i .. j
          PROVE  label[k] \in {"a", Device, Wide, "mp4"}
      <4>1. label[(k - i + 1) + i - 1] \in {"a", Device, Wide, "mp4"}
        BY <1>4, <3>1
      <4> QED
        BY <1>4, <4>1
    <3>2. ASSUME \A k \in i .. j : label[k] \in {"a", Device, Wide, "mp4"}, NEW k \in 1 .. m
          PROVE  label[k + i - 1] \in {"a", Device, Wide, "mp4"}
      BY <1>5, <3>2
    <3> QED
      BY <3>1, <3>2
  <2> QED
    BY <2>1, <2>2, <2>3
<1> QED
  BY <1>7, <1>8, <1>9 DEF bit

LEMMA FullCuts ==
  ASSUME FileParts = Full, NEW label \in Seq(Char), NEW n \in Nat, n = Len(label), n >= 5,
         label[n - 1] = ".", label[n] = "mp4"
  PROVE  Cuts(label) = {AroundDash(n, p) : p \in {p \in 2 .. n - 3 : label[p] = "-"}}
<1>1. /\ Len(FileParts) = 5 /\ DOMAIN FileParts = 1 .. 5
      /\ FileParts[1] = "author" /\ FileParts[2] = "-" /\ FileParts[3] = "title" /\ FileParts[4] = "." /\ FileParts[5] = "ext"
  BY FullIs
<1> DEFINE Bits == [1 .. 4 -> 1 .. n - 1]
           Matches(c) == /\ c[1] < c[2] /\ c[2] < c[3] /\ c[3] < c[4]
                      /\ Shaped("author", SubSeq(label, 1, c[1])) /\ Shaped("-", SubSeq(label, c[1] + 1, c[2]))
                      /\ Shaped("title", SubSeq(label, c[2] + 1, c[3])) /\ Shaped(".", SubSeq(label, c[3] + 1, c[4]))
                      /\ Shaped("ext", SubSeq(label, c[4] + 1, n))
<1>2. Cuts(label) = {c \in Bits : Matches(c)}
  <2>1. ASSUME NEW c \in Bits
        PROVE  ((\A i \in 2 .. 4 : c[i - 1] < c[i]) <=> c[1] < c[2] /\ c[2] < c[3] /\ c[3] < c[4])
    <3>1. (\A i \in 2 .. 4 : c[i - 1] < c[i]) => c[2 - 1] < c[2] /\ c[3 - 1] < c[3] /\ c[4 - 1] < c[4]
      OBVIOUS
    <3> QED
      BY <3>1
  <2>2. ASSUME NEW c \in Bits
        PROVE  /\ PieceAt(label, c, 1) = SubSeq(label, 1, c[1]) /\ PieceAt(label, c, 2) = SubSeq(label, c[1] + 1, c[2])
               /\ PieceAt(label, c, 3) = SubSeq(label, c[2] + 1, c[3]) /\ PieceAt(label, c, 4) = SubSeq(label, c[3] + 1, c[4])
               /\ PieceAt(label, c, 5) = SubSeq(label, c[4] + 1, n)
    BY <1>1 DEF PieceAt
  <2>3. ASSUME NEW c \in Bits
        PROVE  (\A i \in DOMAIN FileParts : Shaped(FileParts[i], PieceAt(label, c, i)))
                 <=> /\ Shaped("author", SubSeq(label, 1, c[1])) /\ Shaped("-", SubSeq(label, c[1] + 1, c[2]))
                     /\ Shaped("title", SubSeq(label, c[2] + 1, c[3])) /\ Shaped(".", SubSeq(label, c[3] + 1, c[4]))
                     /\ Shaped("ext", SubSeq(label, c[4] + 1, n))
    <3>1. (\A i \in 1 .. 5 : Shaped(FileParts[i], PieceAt(label, c, i)))
             <=> /\ Shaped(FileParts[1], PieceAt(label, c, 1)) /\ Shaped(FileParts[2], PieceAt(label, c, 2))
                 /\ Shaped(FileParts[3], PieceAt(label, c, 3)) /\ Shaped(FileParts[4], PieceAt(label, c, 4))
                 /\ Shaped(FileParts[5], PieceAt(label, c, 5))
      <4>1. 1 .. 5 = {1, 2, 3, 4, 5}
        OBVIOUS
      <4> QED
        BY <4>1
    <3> QED
      BY <1>1, <2>2, <3>1
  <2>4. Cuts(label) = {c \in Bits : /\ \A i \in 2 .. 4 : c[i - 1] < c[i]
                                   /\ \A i \in DOMAIN FileParts : Shaped(FileParts[i], PieceAt(label, c, i))}
    BY <1>1 DEF Cuts
  <2> HIDE DEF Bits
  <2> QED
    BY <2>1, <2>3, <2>4
<1> DEFINE Bit(i, j) == SubSeq(label, i, j)
<1> HIDE DEF Bit
<1>4. ASSUME NEW i \in 1 .. n, NEW j \in i .. n
      PROVE  /\ Shaped("author", Bit(i, j)) /\ Shaped("title", Bit(i, j))
             /\ Shaped("ext", Bit(i, j)) <=> \A k \in i .. j : label[k] \in {"a", Device, Wide, "mp4"}
  BY BitShaped DEF Bit
<1>8. ASSUME NEW i \in 1 .. n, NEW j \in i .. n
      PROVE  Shaped("-", Bit(i, j)) <=> i = j /\ label[i] = "-"
  BY BitShaped DEF Bit
<1>9. ASSUME NEW i \in 1 .. n, NEW j \in i .. n
      PROVE  Shaped(".", Bit(i, j)) <=> i = j /\ label[i] = "."
  BY BitShaped DEF Bit
<1>5. ASSUME NEW c \in Bits
      PROVE  Matches(c) <=> c[2] \in 2 .. n - 3 /\ label[c[2]] = "-" /\ c[1] = c[2] - 1 /\ c[3] = n - 2 /\ c[4] = n - 1
  <2>1. c[1] \in 1 .. n - 1 /\ c[2] \in 1 .. n - 1 /\ c[3] \in 1 .. n - 1 /\ c[4] \in 1 .. n - 1
    OBVIOUS
  <2>2. Matches(c) <=> /\ c[1] < c[2] /\ c[2] < c[3] /\ c[3] < c[4]
                    /\ Shaped("author", Bit(1, c[1])) /\ Shaped("-", Bit(c[1] + 1, c[2]))
                    /\ Shaped("title", Bit(c[2] + 1, c[3])) /\ Shaped(".", Bit(c[3] + 1, c[4]))
                    /\ Shaped("ext", Bit(c[4] + 1, n))
    BY DEF Bit
  <2> HIDE DEF Matches, Bits
  <2>3. Matches(c) <=> /\ c[1] < c[2] /\ c[2] < c[3] /\ c[3] < c[4]
                    /\ c[1] + 1 = c[2] /\ label[c[2]] = "-"
                    /\ c[3] + 1 = c[4] /\ label[c[4]] = "."
                    /\ \A k \in c[4] + 1 .. n : label[k] \in {"a", Device, Wide, "mp4"}
    <3> SUFFICES ASSUME c[1] < c[2], c[2] < c[3], c[3] < c[4]
                 PROVE  /\ Shaped("author", Bit(1, c[1])) /\ Shaped("title", Bit(c[2] + 1, c[3]))
                        /\ Shaped("-", Bit(c[1] + 1, c[2])) <=> c[1] + 1 = c[2] /\ label[c[2]] = "-"
                        /\ Shaped(".", Bit(c[3] + 1, c[4])) <=> c[3] + 1 = c[4] /\ label[c[4]] = "."
                        /\ Shaped("ext", Bit(c[4] + 1, n)) <=> \A k \in c[4] + 1 .. n : label[k] \in {"a", Device, Wide, "mp4"}
      BY <2>2
    <3>1. /\ 1 \in 1 .. n /\ c[1] \in 1 .. n /\ c[1] + 1 \in 1 .. n /\ c[2] \in c[1] + 1 .. n
          /\ c[2] + 1 \in 1 .. n /\ c[3] \in c[2] + 1 .. n /\ c[3] + 1 \in 1 .. n /\ c[4] \in c[3] + 1 .. n
          /\ c[4] + 1 \in 1 .. n /\ n \in c[4] + 1 .. n
      <4> DEFINE w == c[1]
                 x == c[2]
                 y == c[3]
                 z == c[4]
      <4>1. w \in 1 .. n - 1 /\ x \in 1 .. n - 1 /\ y \in 1 .. n - 1 /\ z \in 1 .. n - 1 /\ w < x /\ x < y /\ y < z
        BY <2>1
      <4> HIDE DEF w, x, y, z
      <4>2. /\ 1 \in 1 .. n /\ w \in 1 .. n /\ w + 1 \in 1 .. n /\ x \in w + 1 .. n
            /\ x + 1 \in 1 .. n /\ y \in x + 1 .. n /\ y + 1 \in 1 .. n /\ z \in y + 1 .. n
            /\ z + 1 \in 1 .. n /\ n \in z + 1 .. n
        BY <4>1
      <4> QED
        BY <4>2 DEF w, x, y, z
    <3>2. Shaped("author", Bit(1, c[1])) /\ Shaped("title", Bit(c[2] + 1, c[3]))
      BY <1>4, <3>1
    <3>3. Shaped("-", Bit(c[1] + 1, c[2])) <=> c[1] + 1 = c[2] /\ label[c[2]] = "-"
      <4> DEFINE from == c[1] + 1
                 to   == c[2]
      <4>2. from \in 1 .. n /\ to \in from .. n
        BY <3>1
      <4> HIDE DEF from, to
      <4>3. Shaped("-", Bit(from, to)) <=> from = to /\ label[from] = "-"
        BY <1>8, <4>2
      <4>1. Shaped("-", Bit(c[1] + 1, c[2])) <=> c[1] + 1 = c[2] /\ label[c[1] + 1] = "-"
        BY <4>3 DEF from, to
      <4> QED
        BY <4>1
    <3>4. Shaped(".", Bit(c[3] + 1, c[4])) <=> c[3] + 1 = c[4] /\ label[c[4]] = "."
      <4> DEFINE from == c[3] + 1
                 to   == c[4]
      <4>2. from \in 1 .. n /\ to \in from .. n
        BY <3>1
      <4> HIDE DEF from, to
      <4>3. Shaped(".", Bit(from, to)) <=> from = to /\ label[from] = "."
        BY <1>9, <4>2
      <4>1. Shaped(".", Bit(c[3] + 1, c[4])) <=> c[3] + 1 = c[4] /\ label[c[3] + 1] = "."
        BY <4>3 DEF from, to
      <4> QED
        BY <4>1
    <3>5. Shaped("ext", Bit(c[4] + 1, n)) <=> \A k \in c[4] + 1 .. n : label[k] \in {"a", Device, Wide, "mp4"}
      BY <1>4, <3>1
    <3> QED
      BY <3>2, <3>3, <3>4, <3>5
  <2>4. (\A k \in c[4] + 1 .. n : label[k] \in {"a", Device, Wide, "mp4"}) <=> c[4] = n - 1
    <3>1. ASSUME c[4] # n - 1 PROVE \E k \in c[4] + 1 .. n : label[k] \notin {"a", Device, Wide, "mp4"}
      <4>1. n - 1 \in c[4] + 1 .. n
        BY <2>1, <3>1
      <4> QED
        BY <4>1 DEF Device, Wide
    <3>2. ASSUME c[4] = n - 1, NEW k \in c[4] + 1 .. n PROVE label[k] = "mp4"
      <4>1. k = n
        BY <3>2
      <4> QED
        BY <4>1
    <3> QED
      BY <3>1, <3>2
  <2>5. c[4] = n - 1 => label[c[4]] = "."
    OBVIOUS
  <2>6. Matches(c) <=> /\ c[1] < c[2] /\ c[2] < c[3] /\ c[3] < c[4]
                    /\ c[1] + 1 = c[2] /\ label[c[2]] = "-" /\ c[3] + 1 = c[4] /\ c[4] = n - 1
    BY <2>3, <2>4, <2>5
  <2>7. (/\ c[1] < c[2] /\ c[2] < c[3] /\ c[3] < c[4] /\ c[1] + 1 = c[2] /\ c[3] + 1 = c[4] /\ c[4] = n - 1)
          <=> c[2] \in 2 .. n - 3 /\ c[1] = c[2] - 1 /\ c[3] = n - 2 /\ c[4] = n - 1
    <3> DEFINE w == c[1]
               x == c[2]
               y == c[3]
               z == c[4]
    <3>1. w \in 1 .. n - 1 /\ x \in 1 .. n - 1 /\ y \in 1 .. n - 1 /\ z \in 1 .. n - 1
      BY <2>1
    <3> HIDE DEF w, x, y, z
    <3>2. (/\ w < x /\ x < y /\ y < z /\ w + 1 = x /\ y + 1 = z /\ z = n - 1)
             <=> x \in 2 .. n - 3 /\ w = x - 1 /\ y = n - 2 /\ z = n - 1
      BY <3>1
    <3> QED
      BY <3>2 DEF w, x, y, z
  <2> QED
    BY <2>6, <2>7
<1>6. ASSUME NEW c \in Bits, Matches(c)
      PROVE  \E p \in 2 .. n - 3 : label[p] = "-" /\ c = AroundDash(n, p)
  <2>1. c[2] \in 2 .. n - 3 /\ label[c[2]] = "-" /\ c[1] = c[2] - 1 /\ c[3] = n - 2 /\ c[4] = n - 1
    BY <1>5, <1>6
  <2>2. \A i \in 1 .. 4 : c[i] = IF i = 1 THEN c[2] - 1 ELSE IF i = 2 THEN c[2] ELSE IF i = 3 THEN n - 2 ELSE n - 1
    <3>1. \A i \in 1 .. 4 : i = 1 \/ i = 2 \/ i = 3 \/ i = 4
      OBVIOUS
    <3> HIDE DEF Matches
    <3> QED
      BY <2>1, <3>1
  <2>3. c = AroundDash(n, c[2])
    BY <2>2 DEF AroundDash
  <2> QED
    BY <2>1, <2>3
<1>7. ASSUME NEW p \in 2 .. n - 3, label[p] = "-"
      PROVE  AroundDash(n, p) \in Bits /\ Matches(AroundDash(n, p))
  <2>1. AroundDash(n, p) \in Bits /\ AroundDash(n, p)[1] = p - 1 /\ AroundDash(n, p)[2] = p /\ AroundDash(n, p)[3] = n - 2 /\ AroundDash(n, p)[4] = n - 1
    BY DEF AroundDash
  <2> HIDE DEF Matches
  <2> QED
    BY <1>5, <1>7, <2>1
<1> HIDE DEF Bits, Matches
<1> QED
  BY <1>2, <1>6, <1>7

(* Full again: what the parts of a cut are.                                *)
LEMMA FullPieces ==
  ASSUME FileParts = Full, NEW label, NEW n \in Nat, NEW p \in Nat
  PROVE  /\ Piece(label, AroundDash(n, p), "author") = SubSeq(label, 1, p - 1)
         /\ Piece(label, AroundDash(n, p), "title") = SubSeq(label, p + 1, n - 2)
<1>1. AroundDash(n, p)[1] = p - 1 /\ AroundDash(n, p)[2] = p /\ AroundDash(n, p)[3] = n - 2
  BY DEF AroundDash
<1>2. /\ Piece(label, AroundDash(n, p), "author") = PieceAt(label, AroundDash(n, p), 1)
      /\ Piece(label, AroundDash(n, p), "title") = PieceAt(label, AroundDash(n, p), 3)
  BY FullIs DEF Piece
<1>3. PieceAt(label, AroundDash(n, p), 1) = SubSeq(label, 1, p - 1)
  BY <1>1, FullIs DEF PieceAt
<1>4. PieceAt(label, AroundDash(n, p), 3) = SubSeq(label, AroundDash(n, p)[2] + 1, AroundDash(n, p)[3])
  <2>1. Len(FileParts) = 5 /\ 3 - 1 = 2
    BY FullIs
  <2>2. \A c : PieceAt(label, c, 3) = SubSeq(label, c[2] + 1, c[3])
    BY <2>1 DEF PieceAt
  <2> QED
    BY <2>2
<1> QED
  BY <1>1, <1>2, <1>3, <1>4

LEMMA ShorterIs ==
  ASSUME NEW n \in Nat, NEW p \in Nat, NEW q \in Nat
  PROVE  Shorter(AroundDash(n, p), AroundDash(n, q)) <=> p < q
<1> DEFINE c == AroundDash(n, p)
           d == AroundDash(n, q)
<1>1. /\ DOMAIN c = 1 .. 4 /\ c[1] = p - 1 /\ c[2] = p /\ c[3] = n - 2 /\ c[4] = n - 1
      /\ DOMAIN d = 1 .. 4 /\ d[1] = q - 1 /\ d[2] = q /\ d[3] = n - 2 /\ d[4] = n - 1
  BY DEF AroundDash
<1> HIDE DEF c, d
<1>2. Shorter(c, d) <=> \E i \in 1 .. 4 : c[i] < d[i] /\ \A j \in 1 .. i - 1 : c[j] = d[j]
  BY <1>1 DEF Shorter
<1>3. ASSUME p < q PROVE Shorter(c, d)
  <2>1. c[1] < d[1] /\ 1 \in 1 .. 4 /\ \A j \in 1 .. 1 - 1 : c[j] = d[j]
    BY <1>1, <1>3
  <2> QED
    BY <1>2, <2>1
<1>4. ASSUME NEW i \in 1 .. 4, c[i] < d[i], \A j \in 1 .. i - 1 : c[j] = d[j]
      PROVE  p < q
  <2>1. CASE i = 1
    BY <1>1, <1>4, <2>1
  <2>2. CASE i = 2
    BY <1>1, <1>4, <2>2
  <2>3. CASE i = 3
    BY <1>1, <1>4, <2>3
  <2>4. CASE i = 4
    BY <1>1, <1>4, <2>4
  <2> QED
    BY <2>1, <2>2, <2>3, <2>4
<1> QED
  BY <1>2, <1>3, <1>4 DEF c, d

LEMMA ChosenIs ==
  ASSUME NEW n \in Nat, NEW P \in SUBSET (1 .. n), P # {}, NEW lazy \in BOOLEAN
  PROVE  \E p \in P : /\ Chosen({AroundDash(n, q) : q \in P}, lazy) = AroundDash(n, p)
                      /\ \A q \in P : IF lazy THEN p <= q ELSE q <= p
<1> DEFINE S == {AroundDash(n, q) : q \in P}
           Best(c) == \A d \in S \ {c} : IF lazy THEN Shorter(c, d) ELSE Shorter(d, c)
<1>1. P \in SUBSET Nat /\ \A q \in P : q <= n /\ q \in Nat
  OBVIOUS
<1>2. \E p \in P : \A q \in P : IF lazy THEN p <= q ELSE q <= p
  <2>1. CASE lazy
    BY <1>1, <2>1, OneIsLeast
  <2>2. CASE ~lazy
    BY <1>1, <2>2, OneIsGreatest
  <2> QED
    BY <2>1, <2>2
<1>3. PICK p \in P : \A q \in P : IF lazy THEN p <= q ELSE q <= p
  BY <1>2
<1>4. Best(AroundDash(n, p))
  <2> SUFFICES ASSUME NEW q \in P, AroundDash(n, q) # AroundDash(n, p)
               PROVE  IF lazy THEN Shorter(AroundDash(n, p), AroundDash(n, q)) ELSE Shorter(AroundDash(n, q), AroundDash(n, p))
    OBVIOUS
  <2>1. q # p /\ p \in Nat /\ q \in Nat
    BY <1>1
  <2>2. IF lazy THEN p < q ELSE q < p
    BY <1>3, <2>1
  <2> QED
    BY <2>1, <2>2, ShorterIs
<1>5. AroundDash(n, p) \in S
  OBVIOUS
<1>6. Chosen(S, lazy) = CHOOSE c \in S : Best(c)
  BY DEF Chosen
<1> HIDE DEF Best
<1>7. Chosen(S, lazy) \in S /\ Best(Chosen(S, lazy))
  BY <1>4, <1>5, <1>6
<1>8. PICK m \in P : Chosen(S, lazy) = AroundDash(n, m)
  BY <1>7
<1>9. ASSUME NEW q \in P PROVE IF lazy THEN m <= q ELSE q <= m
  <2>1. m \in Nat /\ q \in Nat
    BY <1>1
  <2>2. CASE AroundDash(n, q) = AroundDash(n, m)
    <3>1. AroundDash(n, q)[2] = q /\ AroundDash(n, m)[2] = m
      BY DEF AroundDash
    <3> QED
      BY <2>1, <2>2, <3>1
  <2>3. CASE AroundDash(n, q) # AroundDash(n, m)
    <3>1. IF lazy THEN Shorter(AroundDash(n, m), AroundDash(n, q)) ELSE Shorter(AroundDash(n, q), AroundDash(n, m))
      BY <1>7, <1>8, <2>3 DEF Best
    <3> QED
      BY <2>1, <3>1, ShorterIs
  <2> QED
    BY <2>2, <2>3
<1> QED
  BY <1>8, <1>9

(* The brief template leaves one way: all but the extension is the title.  *)
Two(n) == [i \in 1 .. 2 |-> IF i = 1 THEN n - 2 ELSE n - 1]

LEMMA BriefIs ==
  ASSUME FileParts = Brief
  PROVE  /\ Len(FileParts) = 3 /\ DOMAIN FileParts = 1 .. 3
         /\ FileParts[1] = "title" /\ FileParts[2] = "." /\ FileParts[3] = "ext"
         /\ (CHOOSE i \in DOMAIN FileParts : FileParts[i] = "title") = 1
         /\ ~Contains(FileParts, "author")
<1>1. /\ Len(Brief) = 3 /\ DOMAIN Brief = 1 .. 3
      /\ Brief[1] = "title" /\ Brief[2] = "." /\ Brief[3] = "ext"
  BY DEF Brief
<1>2. \A i \in 1 .. 3 : (Brief[i] = "title" <=> i = 1) /\ Brief[i] # "author"
  BY DEF Brief
<1>3. (CHOOSE i \in DOMAIN Brief : Brief[i] = "title") = 1
  BY <1>1, <1>2
<1>4. ~Contains(Brief, "author")
  BY <1>1, <1>2 DEF Contains
<1> QED
  BY <1>1, <1>3, <1>4

LEMMA BriefCuts ==
  ASSUME FileParts = Brief, NEW label \in Seq(Char), NEW n \in Nat, n = Len(label), n >= 3,
         label[n - 1] = ".", label[n] = "mp4"
  PROVE  Cuts(label) = {Two(n)}
<1>1. /\ Len(FileParts) = 3 /\ DOMAIN FileParts = 1 .. 3
      /\ FileParts[1] = "title" /\ FileParts[2] = "." /\ FileParts[3] = "ext"
  BY BriefIs
<1> DEFINE Bits == [1 .. 2 -> 1 .. n - 1]
           Matches(c) == /\ c[1] < c[2] /\ Shaped("title", SubSeq(label, 1, c[1]))
                      /\ Shaped(".", SubSeq(label, c[1] + 1, c[2])) /\ Shaped("ext", SubSeq(label, c[2] + 1, n))
<1>2. Cuts(label) = {c \in Bits : Matches(c)}
  <2>1. ASSUME NEW c \in Bits
        PROVE  (\A i \in 2 .. 2 : c[i - 1] < c[i]) <=> c[1] < c[2]
    <3>1. (\A i \in 2 .. 2 : c[i - 1] < c[i]) => c[2 - 1] < c[2]
      OBVIOUS
    <3>2. c[1] < c[2] => \A i \in 2 .. 2 : c[i - 1] < c[i]
      OBVIOUS
    <3> QED
      BY <3>1, <3>2
  <2>2. ASSUME NEW c \in Bits
        PROVE  /\ PieceAt(label, c, 1) = SubSeq(label, 1, c[1]) /\ PieceAt(label, c, 2) = SubSeq(label, c[1] + 1, c[2])
               /\ PieceAt(label, c, 3) = SubSeq(label, c[2] + 1, n)
    BY <1>1 DEF PieceAt
  <2>3. ASSUME NEW c \in Bits
        PROVE  (\A i \in DOMAIN FileParts : Shaped(FileParts[i], PieceAt(label, c, i)))
                 <=> /\ Shaped("title", SubSeq(label, 1, c[1])) /\ Shaped(".", SubSeq(label, c[1] + 1, c[2]))
                     /\ Shaped("ext", SubSeq(label, c[2] + 1, n))
    <3>1. (\A i \in 1 .. 3 : Shaped(FileParts[i], PieceAt(label, c, i)))
             <=> /\ Shaped(FileParts[1], PieceAt(label, c, 1)) /\ Shaped(FileParts[2], PieceAt(label, c, 2))
                 /\ Shaped(FileParts[3], PieceAt(label, c, 3))
      <4>1. 1 .. 3 = {1, 2, 3}
        OBVIOUS
      <4> QED
        BY <4>1
    <3> QED
      BY <1>1, <2>2, <3>1
  <2>4. Cuts(label) = {c \in Bits : /\ \A i \in 2 .. 2 : c[i - 1] < c[i]
                                   /\ \A i \in DOMAIN FileParts : Shaped(FileParts[i], PieceAt(label, c, i))}
    BY <1>1 DEF Cuts
  <2> HIDE DEF Bits
  <2> QED
    BY <2>1, <2>3, <2>4
<1>3. ASSUME NEW w \in 1 .. n - 1, NEW x \in 1 .. n - 1
      PROVE  (/\ w < x /\ Shaped("title", SubSeq(label, 1, w))
              /\ Shaped(".", SubSeq(label, w + 1, x)) /\ Shaped("ext", SubSeq(label, x + 1, n)))
                <=> w = n - 2 /\ x = n - 1
  <2>1. CASE w < x
    <3>1. 1 \in 1 .. n /\ w \in 1 .. n /\ w + 1 \in 1 .. n /\ x \in w + 1 .. n /\ x + 1 \in 1 .. n /\ n \in x + 1 .. n
      BY <2>1
    <3>2. Shaped("title", SubSeq(label, 1, w))
      BY <3>1, BitShaped
    <3> DEFINE from == w + 1
               rest == x + 1
    <3>3. from \in 1 .. n /\ x \in from .. n /\ rest \in 1 .. n /\ n \in rest .. n
      BY <3>1
    <3> HIDE DEF from, rest
    <3>4. Shaped(".", SubSeq(label, from, x)) <=> from = x /\ label[from] = "."
      BY <3>3, BitShaped
    <3>5. Shaped("ext", SubSeq(label, rest, n)) <=> \A k \in rest .. n : label[k] \in {"a", Device, Wide, "mp4"}
      BY <3>3, BitShaped
    <3>6. ASSUME \A k \in rest .. n : label[k] \in {"a", Device, Wide, "mp4"} PROVE rest = n
      <4>1. label[n - 1] \notin {"a", Device, Wide, "mp4"}
        BY DEF Device, Wide
      <4>2. n - 1 \notin rest .. n
        BY <3>6, <4>1
      <4> QED
        BY <3>3, <4>2
    <3>7. ASSUME rest = n PROVE \A k \in rest .. n : label[k] \in {"a", Device, Wide, "mp4"}
      <4>1. \A k \in rest .. n : k = n
        BY <3>7
      <4> QED
        BY <4>1
    <3>8. from = w + 1 /\ rest = x + 1
      BY DEF from, rest
    <3>9. /\ Shaped(".", SubSeq(label, w + 1, x)) <=> w + 1 = x /\ label[w + 1] = "."
          /\ Shaped("ext", SubSeq(label, x + 1, n)) <=> x + 1 = n
      BY <3>4, <3>5, <3>6, <3>7, <3>8
    <3>10. w = n - 2 /\ x = n - 1 => w + 1 = n - 1 /\ w + 1 = x
      OBVIOUS
    <3> QED
      BY <2>1, <3>2, <3>9, <3>10
  <2>2. CASE ~(w < x)
    BY <2>2
  <2> QED
    BY <2>1, <2>2
<1>4. ASSUME NEW c \in Bits
      PROVE  Matches(c) <=> c[1] = n - 2 /\ c[2] = n - 1
  <2> DEFINE w == c[1]
             x == c[2]
  <2>1. w \in 1 .. n - 1 /\ x \in 1 .. n - 1
    OBVIOUS
  <2>2. Matches(c) <=> /\ w < x /\ Shaped("title", SubSeq(label, 1, w))
                    /\ Shaped(".", SubSeq(label, w + 1, x)) /\ Shaped("ext", SubSeq(label, x + 1, n))
    OBVIOUS
  <2> HIDE DEF w, x, Matches
  <2>3. Matches(c) <=> w = n - 2 /\ x = n - 1
    BY <1>3, <2>1, <2>2
  <2> QED
    BY <2>3 DEF w, x
<1>5. Two(n) \in Bits /\ Two(n)[1] = n - 2 /\ Two(n)[2] = n - 1
  BY DEF Two
<1>6. ASSUME NEW c \in Bits, c[1] = n - 2, c[2] = n - 1 PROVE c = Two(n)
  <2>1. \A i \in 1 .. 2 : c[i] = IF i = 1 THEN n - 2 ELSE n - 1
    <3>1. \A i \in 1 .. 2 : i = 1 \/ i = 2
      OBVIOUS
    <3> HIDE DEF Matches
    <3> QED
      BY <1>6, <3>1
  <2> QED
    BY <2>1 DEF Two
<1> HIDE DEF Bits, Matches
<1> QED
  BY <1>2, <1>4, <1>5, <1>6

LEMMA BriefPiece ==
  ASSUME FileParts = Brief, NEW label, NEW n \in Nat
  PROVE  Piece(label, Two(n), "title") = SubSeq(label, 1, n - 2)
<1>1. Two(n)[1] = n - 2
  BY DEF Two
<1>2. Piece(label, Two(n), "title") = PieceAt(label, Two(n), 1)
  BY BriefIs DEF Piece
<1>3. \A c : PieceAt(label, c, 1) = SubSeq(label, 1, c[1])
  BY BriefIs DEF PieceAt
<1> QED
  BY <1>1, <1>2, <1>3

(* Two places behind the same text, from which only dots lead to a dash,   *)
(* are one.                                                                *)
LEMMA OneDash ==
  ASSUME NEW label \in Seq(Char), NEW n \in Nat, n = Len(label), NEW q \in 1 .. n, NEW p \in 1 .. n,
         label[q] = "-", label[p] = "-", NEW k \in Nat, k < q, k < p,
         \A i \in k + 1 .. q - 1 : label[i] = ".", \A i \in k + 1 .. p - 1 : label[i] = "."
  PROVE  p = q
<1>1. ASSUME p < q PROVE FALSE
  <2>1. p \in k + 1 .. q - 1
    BY <1>1
  <2> QED
    BY <2>1
<1>2. ASSUME q < p PROVE FALSE
  <2>1. q \in k + 1 .. p - 1
    BY <1>2
  <2> QED
    BY <2>1
<1> QED
  BY <1>1, <1>2

(* A file's name that begins with an author, marked where that is a device.*)
Begins(label, m, a, q) ==
  /\ label \in Seq(Char) /\ a \in Seq(Char) /\ Len(a) > 0
  /\ m \in 0 .. 1 /\ q \in 2 .. Len(label) /\ q = m + Len(a) + 1 /\ label[q] = "-"
  /\ \A i \in 1 .. Len(a) : label[m + i] = a[i]
  /\ m = 1 => label[1] = Replacement /\ a[1] = Device

(* A directory's name and a file's name begin with one author only when the*)
(* file's is cut where that author ends.                                   *)
LEMMA OneAuthor ==
  ASSUME NEW label, NEW m, NEW a, NEW q, Begins(label, m, a, q), Segment(a) # <<>>,
         NEW p \in 2 .. Len(label), label[p] = "-", Segment(SubSeq(label, 1, p - 1)) = Segment(a)
  PROVE  p = q
<1> DEFINE n == Len(label)
<1>0. /\ label \in Seq(Char) /\ n \in Nat /\ n = Len(label) /\ a \in Seq(Char) /\ Len(a) > 0 /\ Segment(a) # <<>>
      /\ m \in 0 .. 1 /\ q \in 2 .. n /\ p \in 2 .. n /\ q = m + Len(a) + 1 /\ label[q] = "-"
      /\ \A i \in 1 .. Len(a) : label[m + i] = a[i]
      /\ m = 1 => label[1] = Replacement /\ a[1] = Device
  BY DEF Begins
<1> HIDE DEF n
<1> USE <1>0
<1> DEFINE S == SubSeq(label, 1, p - 1)
           first == Segment(a)
<1>1. S \in Seq(Char) /\ Len(S) = p - 1 /\ \A i \in 1 .. p - 1 : S[i] = label[i]
  BY CutIs
<1>2. Segment(S) = first
  OBVIOUS
<1> HIDE DEF S
<1>3. PICK k \in 0 .. Len(a), r \in 0 .. 1 :
        /\ first \in Seq(Char) /\ Len(first) = r + k
        /\ \A i \in 1 .. Len(a) : a[i] # "." => i <= k
        /\ \A i \in 1 .. k : first[r + i] = a[i]
        /\ r = 1 => k > 0 /\ a[1] = Device /\ first[1] = Replacement
  BY SegmentIs
<1>4. PICK l \in 0 .. Len(S), s \in 0 .. 1 :
        /\ Len(Segment(S)) = s + l
        /\ \A i \in 1 .. Len(S) : S[i] # "." => i <= l
        /\ \A i \in 1 .. l : Segment(S)[s + i] = S[i]
        /\ s = 1 => l > 0 /\ S[1] = Device /\ Segment(S)[1] = Replacement
  BY ZenonT(40), <1>1, SegmentIs
<1> HIDE DEF first
<1>5. Len(first) = s + l /\ (\A i \in 1 .. l : first[s + i] = S[i]) /\ (s = 1 => first[1] = Replacement)
  BY <1>2, <1>4
<1>6. Len(first) > 0
  BY <1>3 DEF first
<1>7. k > 0 /\ l > 0 /\ r + k = s + l /\ k \in Nat /\ l \in Nat
  BY SMTT(20), <1>3, <1>4, <1>5, <1>6
<1>8. l = m + k
  <2>1. S[1] = label[1] /\ 1 \in 1 .. l /\ 1 \in 1 .. k /\ 1 \in 1 .. Len(a)
    BY <1>1, <1>3, <1>7
  <2>2. first[r + 1] = a[1] /\ first[s + 1] = S[1]
    BY <1>3, <1>5, <2>1
  <2>3. CASE m = 0
    <3>1. label[1] = a[1]
      BY <2>1, <2>3
    <3>2. r = s
      <4>1. ASSUME r = 1, s = 0 PROVE FALSE
        BY <1>3, <2>1, <2>2, <3>1, <4>1, SymbolsApart
      <4>2. ASSUME r = 0, s = 1 PROVE FALSE
        BY <1>4, <1>5, <2>1, <2>2, <3>1, <4>2, SymbolsApart
      <4> QED
        BY <4>1, <4>2
    <3> QED
      BY <1>7, <2>3, <3>2
  <2>4. CASE m = 1
    <3>1. label[1] = Replacement /\ a[1] = Device
      BY <2>4
    <3>2. s = 0
      BY <1>4, <2>1, <3>1, SymbolsApart
    <3>3. r = 1
      BY <2>1, <2>2, <3>1, <3>2, SymbolsApart
    <3> QED
      BY <1>7, <2>4, <3>2, <3>3
  <2> QED
    BY <2>3, <2>4
<1>9. ASSUME NEW i \in l + 1 .. q - 1 PROVE label[i] = "."
  <2>1. i - m \in 1 .. Len(a) /\ i - m > k /\ m + (i - m) = i
    BY <1>3, <1>7, <1>8
  <2>2. a[i - m] = "."
    BY SMTT(20), <1>3, <2>1
  <2> QED
    BY <2>1, <2>2
<1>10. ASSUME NEW i \in l + 1 .. p - 1 PROVE label[i] = "."
  <2>1. i \in 1 .. Len(S) /\ i \in 1 .. p - 1 /\ ~(i <= l)
    BY <1>1, <1>7
  <2>2. S[i] = "."
    BY <1>4, <2>1
  <2> QED
    BY <1>1, <2>1, <2>2
<1>11. l < q /\ l < p /\ q \in 1 .. n /\ p \in 1 .. n
  BY SMTT(20), <1>1, <1>3, <1>4, <1>8
<1> QED
  BY <1>7, <1>9, <1>10, <1>11, OneDash

LEMMA ReconciledIs ==
  ASSUME NEW a \in Seq(Char), Segment(a) # <<>>, NEW S \in Seq(Char)
  PROVE  /\ Reconciled(Segment(a), S) \in {{}, {S}}
         /\ Reconciled(Segment(a), S) # {} => Segment(S) = Segment(a)
         /\ S = Segment(a) => Segment(S) = Segment(a)
         /\ SegmentForm(a) = Segment(a)
<1>1. SegmentForm(Segment(a)) = Segment(a) /\ Segment(Segment(a)) = Segment(a) /\ SegmentForm(a) = Segment(a)
  BY SegmentAgain DEF SegmentForm
<1>2. SegmentForm(S) = Segment(a) => Segment(S) = Segment(a)
  <2>1. CASE Segment(S) = <<>>
    <3>1. SegmentForm(S) = S
      BY <2>1 DEF SegmentForm
    <3> QED
      BY <1>1, <2>1, <3>1
  <2>2. CASE Segment(S) # <<>>
    BY <2>2 DEF SegmentForm
  <2> QED
    BY <2>1, <2>2
<1> QED
  BY <1>1, <1>2 DEF Reconciled

LEMMA FrontIs ==
  ASSUME NEW S, NEW u \in Seq(S), Len(u) > 0
  PROVE  /\ Front(u) \in Seq(S) /\ Len(Front(u)) = Len(u) - 1
         /\ \A i \in 1 .. Len(u) - 1 : Front(u)[i] = u[i]
<1> DEFINE m == Len(u) - 1
<1>1. Front(u) = SubSeq(u, 1, m) /\ m \in Nat /\ m <= Len(u) /\ 1 \in Nat /\ 1 <= m + 1
  BY DEF Front
<1> HIDE DEF m
<1>2. /\ SubSeq(u, 1, m) \in Seq(S) /\ Len(SubSeq(u, 1, m)) = m - 1 + 1
      /\ \A i \in 1 .. m - 1 + 1 : SubSeq(u, 1, m)[i] = u[i + 1 - 1]
  BY ONLY u \in Seq(S), <1>1, CutIs
<1>3. \A i \in 1 .. m : i \in 1 .. m - 1 + 1 /\ i + 1 - 1 = i
  BY <1>1
<1>4. Front(u) \in Seq(S) /\ Len(Front(u)) = m /\ \A i \in 1 .. m : Front(u)[i] = u[i]
  BY <1>1, <1>2, <1>3
<1> QED
  BY <1>4 DEF m

(* What stands last in a text of two halves.                               *)
LEMMA LastOfJoined ==
  ASSUME NEW u \in Seq(Char), NEW v \in Seq(Char), Len(v) > 0
  PROVE  /\ Last(Cat(u, v)) = Last(v) /\ Front(v) \in Seq(Char) /\ Front(Cat(u, v)) = Cat(u, Front(v))
<1> DEFINE w == Cat(u, v)
           x == Front(v)
           y == Front(w)
           z == Cat(u, x)
<1>1. w \in Seq(Char) /\ Len(w) = Len(u) + Len(v) /\ Len(u) \in Nat /\ Len(v) \in Nat
  <2>1. w \in Seq(Char)
    BY JoinedIs
  <2>2. Len(w) = Len(u) + Len(v)
    BY JoinedIs
  <2> QED
    BY <2>1, <2>2
<1>2. (\A i \in 1 .. Len(u) : w[i] = u[i]) /\ (\A i \in 1 .. Len(v) : w[Len(u) + i] = v[i])
  BY JoinedIs
<1>3. x \in Seq(Char) /\ Len(x) = Len(v) - 1 /\ \A i \in 1 .. Len(v) - 1 : x[i] = v[i]
  BY <1>1, FrontIs
<1> HIDE DEF w, x
<1>4. y \in Seq(Char) /\ Len(y) = Len(w) - 1 /\ \A i \in 1 .. Len(w) - 1 : y[i] = w[i]
  <2>1. Len(w) > 0
    BY <1>1
  <2> QED
    BY <1>1, <2>1, FrontIs
<1>5. z \in Seq(Char) /\ Len(z) = Len(u) + Len(x)
  <2>1. z \in Seq(Char)
    BY <1>3, JoinedIs
  <2>2. Len(z) = Len(u) + Len(x)
    BY <1>3, JoinedIs
  <2> QED
    BY <2>1, <2>2
<1>6. (\A i \in 1 .. Len(u) : z[i] = u[i]) /\ (\A i \in 1 .. Len(x) : z[Len(u) + i] = x[i])
  BY <1>3, JoinedIs
<1> HIDE DEF y, z
<1>7. Last(w) = Last(v)
  <2>1. w[Len(u) + Len(v)] = v[Len(v)]
    BY <1>1, <1>2
  <2> QED
    BY <1>1, <2>1 DEF Last
<1>8. Len(y) = Len(z) /\ \A i \in 1 .. Len(y) : y[i] = z[i]
  <2>1. Len(y) = Len(z)
    BY <1>1, <1>3, <1>4, <1>5
  <2>2. ASSUME NEW i \in 1 .. Len(y) PROVE y[i] = z[i]
    <3>1. CASE i <= Len(u)
      BY <1>1, <1>2, <1>4, <1>6, <3>1
    <3>2. CASE i > Len(u)
      <4>1. i - Len(u) \in 1 .. Len(x) /\ i - Len(u) \in 1 .. Len(v) /\ Len(u) + (i - Len(u)) = i /\ i - Len(u) \in 1 .. Len(v) - 1
        BY <1>1, <1>3, <1>4, <3>2
      <4>2. z[i] = x[i - Len(u)] /\ w[i] = v[i - Len(u)] /\ x[i - Len(u)] = v[i - Len(u)]
        BY <1>2, <1>3, <1>6, <4>1
      <4> QED
        BY <1>4, <2>1, <4>2
    <3> QED
      BY <3>1, <3>2, <1>1
  <2> QED
    BY <2>1, <2>2
<1>9. y = z
  BY <1>4, <1>5, <1>8, SameText
<1> QED
  BY <1>3, <1>7, <1>9 DEF w, x, y, z

(* The dashes that can stand between an author and a title.                *)
Dashes(label) == {p \in 2 .. Len(label) - 3 : label[p] = "-"}

TheOne(set) == CHOOSE one \in set : TRUE

(* One reading of a file's name in which the author comes first.           *)
(* The reading at one of them, and the first or the last of them.          *)
Read(label, p) == [author |-> SubSeq(label, 1, p - 1), title |-> SubSeq(label, p + 1, Len(label) - 2)]
Outer(label, lazy, p) == p \in Dashes(label) /\ \A x \in Dashes(label) : IF lazy THEN p <= x ELSE x <= p

LEMMA ReadOnceFull ==
  ASSUME template \in Template, FileParts = Full, NEW lazy \in BOOLEAN, NEW a, NEW name, NEW label, Last(name) = label,
         NEW m, NEW q, Begins(label, m, a, q), q <= Len(label) - 3,
         label[Len(label) - 1] = ".", label[Len(label)] = "mp4",
         Len(template) = 2 => Head(name) = Segment(a) /\ Segment(a) # <<>>
  PROVE  /\ Len(template) = 2 =>
              ReadOnce(name, Cuts(label), lazy)
                \in {Refusal, Read(label, q), [author |-> Segment(a), title |-> Read(label, q).title]}
         /\ Len(template) = 1 =>
              \E p : Outer(label, lazy, p) /\ ReadOnce(name, Cuts(label), lazy) = Read(label, p)
<1> DEFINE n == Len(label)
           t == SubSeq(label, q + 1, n - 2)
           P == Dashes(label)
           ways == {AroundDash(n, p) : p \in P}
           once == Chosen(ways, lazy)
           first == Segment(a)
           S(p) == SubSeq(label, 1, p - 1)
           T(p) == SubSeq(label, p + 1, n - 2)
           pinned == Pinned(ways, label, Head(name))
           agreed == Reconciled(Head(name), Piece(label, once, "author"))
           answer == ReadOnce(name, Cuts(label), lazy)
<1>0. /\ n \in Nat /\ n = Len(label) /\ label[n - 1] = "." /\ label[n] = "mp4" /\ q <= n - 3
      /\ label \in Seq(Char) /\ a \in Seq(Char) /\ q \in 2 .. n /\ label[q] = "-"
  BY DEF Begins
<1>13. P = {p \in 2 .. n - 3 : label[p] = "-"}
  BY DEF Dashes
<1>14. \A p : Read(label, p) = [author |-> S(p), title |-> T(p)]
  BY DEF Read
<1> HIDE DEF P, n, t
<1> USE <1>0
<1>1. P \in SUBSET (1 .. n) /\ q \in P /\ n >= 5 /\ P # {}
  <2>1. q \in 2 .. n - 3 /\ n >= 5
    BY <1>0
  <2>2. q \in P
    BY <1>0, <1>13, <2>1
  <2>3. P \in SUBSET (1 .. n)
    <3>1. \A p \in 2 .. n - 3 : p \in 1 .. n
      OBVIOUS
    <3> QED
      BY <1>13, <3>1
  <2> QED
    BY <2>1, <2>2, <2>3
<1>2. Cuts(label) = ways
  BY <1>0, <1>1, <1>13, FullCuts
<1>3. ASSUME NEW p \in P
      PROVE  /\ Piece(label, AroundDash(n, p), "author") = S(p) /\ Piece(label, AroundDash(n, p), "title") = T(p)
             /\ S(p) \in Seq(Char)
  <2>1. p \in Nat
    BY <1>1
  <2>2. Piece(label, AroundDash(n, p), "author") = S(p) /\ Piece(label, AroundDash(n, p), "title") = T(p)
    BY <2>1, FullPieces
  <2>3. S(p) \in Seq(Char)
    <3>1. p - 1 \in Nat /\ 1 <= p - 1 + 1 /\ p - 1 <= Len(label)
      BY <1>1
    <3> QED
      BY <1>0, <3>1, CutIs
  <2> QED
    BY <2>2, <2>3
<1>4. ASSUME NEW p \in P, Segment(S(p)) = first, first # <<>>
      PROVE  p = q
  <2>1. p \in 2 .. Len(label) /\ label[p] = "-"
    BY <1>1, <1>13
  <2>2. Segment(SubSeq(label, 1, p - 1)) = Segment(a)
    BY <1>4
  <2> QED
    BY ONLY <1>4, <2>1, <2>2, Begins(label, m, a, q), OneAuthor
<1>5. T(q) = t
  BY DEF t
<1>6. PICK p \in P : once = AroundDash(n, p) /\ \A x \in P : IF lazy THEN p <= x ELSE x <= p
  <2>1. \E p \in P : /\ Chosen({AroundDash(n, x) : x \in P}, lazy) = AroundDash(n, p)
                     /\ \A x \in P : IF lazy THEN p <= x ELSE x <= p
    BY ONLY n \in Nat, lazy \in BOOLEAN, <1>1, ChosenIs
  <2> QED
    BY <2>1
<1>7. ways # {} /\ Contains(FileParts, "author")
  BY <1>1, FullIs
<1>8. Piece(label, once, "author") = S(p) /\ Piece(label, once, "title") = T(p)
  BY <1>3, <1>6
<1>9. /\ Len(template) = 1 =>
           answer = [author |-> Piece(label, once, "author"), title |-> Piece(label, once, "title")]
      /\ Len(template) # 1 /\ agreed # {} =>
           answer = [author |-> TheOne(agreed), title |-> Piece(label, once, "title")]
      /\ Len(template) # 1 /\ agreed = {} /\ pinned = {} => answer = Refusal
      /\ Len(template) # 1 /\ agreed = {} /\ pinned # {} =>
           answer = [author |-> Head(name), title |-> Piece(label, Chosen(pinned, lazy), "title")]
  <2>2. /\ label = Last(name) /\ once = Chosen(ways, lazy) /\ pinned = Pinned(ways, label, Head(name))
        /\ agreed = Reconciled(Head(name), Piece(label, once, "author"))
    OBVIOUS
  <2> HIDE DEF ways, once, agreed, pinned
  <2>1. /\ Len(template) = 1 =>
             ReadOnce(name, ways, lazy) = [author |-> Piece(label, once, "author"), title |-> Piece(label, once, "title")]
        /\ Len(template) # 1 /\ agreed # {} =>
             ReadOnce(name, ways, lazy) = [author |-> TheOne(agreed), title |-> Piece(label, once, "title")]
        /\ Len(template) # 1 /\ agreed = {} /\ pinned = {} => ReadOnce(name, ways, lazy) = Refusal
        /\ Len(template) # 1 /\ agreed = {} /\ pinned # {} =>
             ReadOnce(name, ways, lazy) = [author |-> Head(name), title |-> Piece(label, Chosen(pinned, lazy), "title")]
    BY ONLY <1>7, <2>2, ZenonT(60) DEF ReadOnce, TheOne
  <2> QED
    BY <1>2, <2>1
<1> HIDE DEF S, T, once, answer, ways
<1>10. CASE Len(template) = 1
  <2>1. answer = [author |-> S(p), title |-> T(p)]
    BY <1>8, <1>9, <1>10
  <2>2. ReadOnce(name, Cuts(label), lazy) = Read(label, p)
    BY <1>14, <2>1 DEF answer
  <2>3. Outer(label, lazy, p)
    BY <1>6 DEF P, Outer
  <2>4. Len(template) # 2
    BY <1>10
  <2> QED
    BY <2>2, <2>3, <2>4
<1>11. CASE Len(template) = 2
  <2>1. Head(name) = first /\ first # <<>> /\ Segment(a) # <<>>
    BY <1>11
  <2>2. agreed \in {{}, {S(p)}} /\ (agreed # {} => p = q)
    <3>1. Reconciled(first, S(p)) \in {{}, {S(p)}} /\ (Reconciled(first, S(p)) # {} => Segment(S(p)) = first)
      BY <1>0, <1>3, <2>1, ReconciledIs
    <3> QED
      BY <1>4, <1>8, <2>1, <3>1
  <2>3. \A c \in pinned : c = AroundDash(n, q)
    <3>1. ASSUME NEW x \in P, Piece(label, AroundDash(n, x), "author") = first PROVE x = q
      <4>1. S(x) = first /\ S(x) \in Seq(Char)
        BY <1>3, <3>1
      <4>2. Segment(S(x)) = first
        BY <1>0, <2>1, <4>1, ReconciledIs
      <4> QED
        BY <1>4, <2>1, <4>2
    <3> QED
      BY <2>1, <3>1 DEF Pinned, ways
  <2>4. pinned # {} => pinned = {AroundDash(n, q)}
    BY <2>3
  <2>5. Chosen({AroundDash(n, q)}, lazy) = AroundDash(n, q)
    BY DEF Chosen
  <2>6. Piece(label, AroundDash(n, q), "title") = t
    BY <1>1, <1>3, <1>5 DEF T
  <2> HIDE DEF agreed, pinned, first
  <2>7. CASE agreed # {}
    <3>1. answer = [author |-> TheOne(agreed), title |-> T(p)]
      BY <1>8, <1>9, <1>11, <2>7
    <3>2. agreed = {S(q)} /\ p = q
      BY <2>2, <2>7
    <3>3. TheOne({S(q)}) = S(q)
      BY DEF TheOne
    <3>4. answer = [author |-> S(q), title |-> T(q)]
      BY <3>1, <3>2, <3>3
    <3>5. answer = Read(label, q)
      BY <1>14, <3>4
    <3> QED
      BY <1>11, <3>5 DEF answer
  <2>8. CASE agreed = {} /\ pinned = {}
    <3>1. answer = Refusal
      BY <1>9, <1>11, <2>8
    <3> QED
      BY <1>11, <3>1 DEF answer
  <2>9. CASE agreed = {} /\ pinned # {}
    <3>1. answer = [author |-> Head(name), title |-> Piece(label, Chosen(pinned, lazy), "title")]
      BY <1>9, <1>11, <2>9
    <3>2. Piece(label, Chosen(pinned, lazy), "title") = t
      BY <2>4, <2>5, <2>6, <2>9
    <3>3. answer = [author |-> first, title |-> t]
      BY <2>1, <3>1, <3>2
    <3>4. Read(label, q).title = t
      <4>1. Read(label, q) = [author |-> S(q), title |-> T(q)]
        BY <1>14
      <4> QED
        BY <1>5, <4>1
    <3>5. answer = [author |-> first, title |-> Read(label, q).title]
      BY <3>3, <3>4
    <3> QED
      BY <1>11, <3>5 DEF answer, first
  <2> QED
    BY <2>7, <2>8, <2>9
<1>12. Len(template) \in 1 .. 2
  BY TemplateIs
<1> QED
  BY <1>10, <1>11, <1>12

Reported(author, title) ==
  LET of == [author |-> author, title |-> title] IN [of |-> of, lossy |-> Lossy(of)]

LEMMA MatchIs ==
  ASSUME NEW name, SplitDuplicate(path) = name, NEW label, Last(name) = label
  PROVE  LET greedy == ReadOnce(name, Cuts(label), FALSE)
             lazy   == ReadOnce(name, Cuts(label), TRUE)
         IN  \/ MatchName = Refusal
             \/ greedy # Refusal /\ greedy = lazy /\ MatchName = [of |-> greedy, lossy |-> Lossy(greedy)]
  BY DEF MatchName

LEMMA MarkedIs ==
  ASSUME NEW mark \in Marks, NEW a \in Seq(Char), Len(a) > 0
  PROVE  /\ Cat(mark, a) \in Seq(Char) /\ mark \in Seq(Char) /\ Len(mark) \in 0 .. 1
         /\ Len(Cat(mark, a)) = Len(mark) + Len(a) /\ Len(Cat(mark, a)) > 0
         /\ \A i \in 1 .. Len(a) : Cat(mark, a)[Len(mark) + i] = a[i]
         /\ Len(mark) = 1 => Cat(mark, a)[1] = Replacement /\ mark # <<>>
<1>1. mark \in Seq(Char) /\ Len(mark) \in 0 .. 1 /\ (Len(mark) = 1 => mark = <<Replacement>> /\ mark # <<>>)
  <2>1. CASE mark = <<>>
    BY <2>1
  <2>2. CASE mark = <<Replacement>>
    <3>1. <<Replacement>> \in Seq(Char) /\ Len(<<Replacement>>) = 1 /\ <<Replacement>> # <<>>
      BY SymbolsApart
    <3> QED
      BY <2>2, <3>1
  <2> QED
    BY <2>1, <2>2 DEF Marks
<1>2. Cat(mark, a) \in Seq(Char)
  BY <1>1, JoinedIs
<1>3. Len(Cat(mark, a)) = Len(mark) + Len(a)
  BY <1>1, JoinedIs
<1>4. \A i \in 1 .. Len(a) : Cat(mark, a)[Len(mark) + i] = a[i]
  BY <1>1, JoinedIs
<1>5. \A i \in 1 .. Len(mark) : Cat(mark, a)[i] = mark[i]
  BY <1>1, JoinedIs
<1>6. Len(mark) = 1 => Cat(mark, a)[1] = Replacement
  <2>1. Len(mark) = 1 => 1 \in 1 .. Len(mark) /\ mark[1] = Replacement
    BY <1>1
  <2> QED
    BY <1>5, <2>1
<1>7. Len(Cat(mark, a)) > 0
  BY <1>1, <1>3
<1> QED
  BY <1>1, <1>2, <1>3, <1>4, <1>6, <1>7

(* A file's name of a mark, an author and a title, and where the author    *)
(* ends in it.                                                             *)
NameOf(mark, a, t) == Cat(Cat(Cat(Cat(mark, a), <<"-">>), t), Extension)
CutAt(mark, a) == Len(mark) + Len(a) + 1

LEMMA FullBegins ==
  ASSUME NEW a \in Seq(Char), Len(a) > 0, NEW t \in Seq(Char), Len(t) > 0,
         NEW mark \in Marks, mark # <<>> => a[1] = Device
  PROVE  LET label == NameOf(mark, a, t)
             n    == Len(label)
             q    == CutAt(mark, a)
         IN  /\ Begins(label, Len(mark), a, q) /\ n \in Nat /\ q <= n - 3 /\ q \in Nat
             /\ label[n - 1] = "." /\ label[n] = "mp4"
             /\ SubSeq(label, 1, q - 1) = Cat(mark, a) /\ SubSeq(label, q + 1, n - 2) = t
<1> DEFINE u == Cat(mark, a)
           m == Len(mark)
           label == NameOf(mark, a, t)
           n    == Len(label)
           q    == CutAt(mark, a)
<1>1. /\ u \in Seq(Char) /\ m \in 0 .. 1 /\ Len(u) = m + Len(a) /\ Len(u) > 0
      /\ \A i \in 1 .. Len(a) : u[m + i] = a[i]
      /\ m = 1 => u[1] = Replacement /\ a[1] = Device
  BY MarkedIs
<1>2. label = Cat(Cat(Cat(u, <<"-">>), t), Extension) /\ q = Len(u) + 1 /\ q = m + Len(a) + 1 /\ n = Len(label)
  BY <1>1 DEF NameOf, CutAt
<1> HIDE DEF u, m, label, n, q
<1>3. /\ label \in Seq(Char) /\ n \in Nat /\ q \in 2 .. n - 3
      /\ label[q] = "-" /\ label[n - 1] = "." /\ label[n] = "mp4"
      /\ SubSeq(label, 1, q - 1) = u /\ SubSeq(label, q + 1, n - 2) = t
      /\ \A i \in 1 .. Len(u) : label[i] = u[i]
  <2> DEFINE w == Cat(Cat(Cat(u, <<"-">>), t), Extension)
  <2>1. /\ w \in Seq(Char) /\ Len(w) \in Nat /\ Len(u) + 1 \in 2 .. Len(w) - 3
        /\ w[Len(u) + 1] = "-" /\ w[Len(w) - 1] = "." /\ w[Len(w)] = "mp4"
        /\ SubSeq(w, 1, (Len(u) + 1) - 1) = u /\ SubSeq(w, (Len(u) + 1) + 1, Len(w) - 2) = t
        /\ \A i \in 1 .. Len(u) : w[i] = u[i]
    BY <1>1, FullText
  <2>2. label = w /\ n = Len(w) /\ q = Len(u) + 1
    BY <1>2
  <2> HIDE DEF w
  <2> QED
    BY <2>1, <2>2
<1>4. \A i \in 1 .. Len(a) : label[m + i] = a[i]
  <2> TAKE i \in 1 .. Len(a)
  <2>1. m + i \in 1 .. Len(u)
    BY <1>1
  <2> QED
    BY <1>1, <1>3, <2>1
<1>5. m = 1 => label[1] = Replacement /\ a[1] = Device
  <2>1. 1 \in 1 .. Len(u)
    BY <1>1
  <2> QED
    BY <1>1, <1>3, <2>1
<1>6. q \in 2 .. Len(label) /\ q = m + Len(a) + 1
  BY <1>1, <1>2, <1>3
<1>7. Begins(label, m, a, q)
  BY <1>1, <1>3, <1>4, <1>5, <1>6 DEF Begins
<1>8. q <= n - 3 /\ q \in Nat
  BY <1>3
<1> QED
  BY <1>3, <1>7, <1>8 DEF u, m, label, n, q

LEMMA FullRead ==
  ASSUME template \in Template, FileParts = Full, NEW name, SplitDuplicate(path) = name,
         NEW a \in Seq(Char), Len(a) > 0, NEW t \in Seq(Char), Len(t) > 0,
         NEW mark \in Marks, mark # <<>> => a[1] = Device,
         Last(name) = NameOf(mark, a, t),
         Len(template) = 2 => Head(name) = Segment(a) /\ Segment(a) # <<>>
  PROVE  MatchName \in {Refusal, Reported(Cat(mark, a), t), Reported(SegmentForm(a), t)}
<1> DEFINE label == NameOf(mark, a, t)
           n == Len(label)
           m == Len(mark)
           q == CutAt(mark, a)
           greedy == ReadOnce(name, Cuts(label), FALSE)
           lazy == ReadOnce(name, Cuts(label), TRUE)
           u == Cat(mark, a)
<1>1. /\ Begins(label, m, a, q) /\ n \in Nat /\ q <= n - 3 /\ q \in Nat
      /\ label[n - 1] = "." /\ label[n] = "mp4"
      /\ SubSeq(label, 1, q - 1) = u /\ SubSeq(label, q + 1, n - 2) = t
  BY FullBegins
<1>2. Last(name) = label /\ n = Len(label)
  OBVIOUS
<1>3. MatchName = Refusal \/ (greedy # Refusal /\ greedy = lazy /\ MatchName = [of |-> greedy, lossy |-> Lossy(greedy)])
  BY <1>2, MatchIs
<1> HIDE DEF label, n, m, q, u
<1>4. Read(label, q) = [author |-> u, title |-> t]
  BY <1>1, <1>2 DEF Read
<1>5. label \in Seq(Char) /\ q \in Dashes(label) /\ Dashes(label) \in SUBSET (2 .. n - 3)
  BY <1>1, <1>2 DEF Begins, Dashes
<1>6. CASE Len(template) = 2
  <2>1. greedy \in {Refusal, Read(label, q), [author |-> Segment(a), title |-> Read(label, q).title]}
    BY <1>1, <1>2, <1>6, ReadOnceFull
  <2>2. greedy \in {Refusal, [author |-> u, title |-> t], [author |-> Segment(a), title |-> t]}
    <3>1. Read(label, q).title = t
      BY <1>4
    <3> QED
      BY <1>4, <2>1, <3>1
  <2> HIDE DEF greedy, lazy
  <2> QED
    BY <1>3, <1>6, <2>2 DEF Reported, u, SegmentForm
<1>7. CASE Len(template) = 1
  <2>0. ASSUME NEW way \in BOOLEAN
        PROVE  \E p : Outer(label, way, p) /\ ReadOnce(name, Cuts(label), way) = Read(label, p)
    <3>1. /\ template \in Template /\ FileParts = Full /\ Last(name) = label /\ Begins(label, m, a, q)
          /\ q <= Len(label) - 3 /\ label[Len(label) - 1] = "." /\ label[Len(label)] = "mp4" /\ Len(template) = 1
      BY <1>1, <1>2, <1>7
    <3>2. Len(template) = 2 => Head(name) = Segment(a) /\ Segment(a) # <<>>
      OBVIOUS
    <3>3. Len(template) = 1 => \E p : Outer(label, way, p) /\ ReadOnce(name, Cuts(label), way) = Read(label, p)
      BY ONLY <3>1, <3>2, way \in BOOLEAN, ReadOnceFull
    <3> QED
      BY <3>1, <3>3
  <2>1. PICK g : Outer(label, FALSE, g) /\ greedy = Read(label, g)
    BY ONLY <2>0, Zenon
  <2>2. PICK l : Outer(label, TRUE, l) /\ lazy = Read(label, l)
    BY ONLY <2>0, Zenon
  <2> HIDE DEF greedy, lazy
  <2>3. ASSUME NEW p \in Dashes(label) PROVE Len(Read(label, p).author) = p - 1 /\ p \in Nat
    <3>1. p \in Nat /\ p - 1 \in Nat /\ 1 <= (p - 1) + 1 /\ p - 1 <= Len(label)
      BY <1>1, <1>2, <1>5
    <3>2. Len(SubSeq(label, 1, p - 1)) = (p - 1) - 1 + 1
      BY <1>5, <3>1, CutIs
    <3> QED
      BY <3>1, <3>2 DEF Read
  <2>4. ASSUME greedy = lazy PROVE greedy = [author |-> u, title |-> t]
    <3>1. g \in Dashes(label) /\ l \in Dashes(label) /\ l <= q /\ q <= g
      BY <1>5, <2>1, <2>2 DEF Outer
    <3>2. g - 1 = l - 1 /\ g \in Nat /\ l \in Nat
      BY <2>1, <2>2, <2>3, <2>4, <3>1
    <3>3. q = g
      BY <1>1, <3>1, <3>2
    <3> QED
      BY <1>4, <2>1, <3>3
  <2> QED
    BY <1>3, <2>4 DEF Reported, u
<1>8. Len(template) \in 1 .. 2
  BY TemplateIs
<1> QED
  BY <1>6, <1>7, <1>8 DEF u

LEMMA BriefRead ==
  ASSUME FileParts = Brief, NEW name, SplitDuplicate(path) = name,
         NEW x \in Seq(Char), Len(x) > 0, Last(name) = Cat(x, Extension)
  PROVE  MatchName \in {Refusal, Reported(Head(name), x)}
<1> DEFINE label == Last(name)
           n == Len(label)
           greedy == ReadOnce(name, Cuts(label), FALSE)
<1>1. /\ label \in Seq(Char) /\ n = Len(x) + 2 /\ label[n - 1] = "." /\ label[n] = "mp4"
  <2>1. Cat(x, Extension) \in Seq(Char)
    BY ExtensionIs, NameBuilt
  <2>2. Len(Cat(x, Extension)) = Len(x) + 2
    BY ExtensionIs, NameBuilt
  <2>3. Cat(x, Extension)[Len(x) + 1] = "." /\ Cat(x, Extension)[Len(x) + 2] = "mp4"
    BY ExtensionIs, NameBuilt
  <2>4. n - 1 = Len(x) + 1
    BY <2>2
  <2> QED
    BY <2>1, <2>2, <2>3, <2>4
<1>2. SubSeq(label, 1, n - 2) = x
  <2>1. SubSeq(Cat(x, Extension), 1, Len(x)) = x /\ n - 2 = Len(x)
    BY <1>1, ExtensionIs, CutsOfJoined
  <2> QED
    BY <2>1
<1>3. Last(name) = label /\ n = Len(label)
  OBVIOUS
<1>4. MatchName = Refusal \/ MatchName = [of |-> greedy, lossy |-> Lossy(greedy)]
  BY MatchIs
<1>5. n \in Nat /\ n >= 3
  BY <1>1
<1> HIDE DEF label, n
<1>6. Cuts(label) = {Two(n)}
  BY <1>1, <1>3, <1>5, BriefCuts
<1>7. Chosen({Two(n)}, FALSE) = Two(n)
  BY DEF Chosen
<1>8. Piece(label, Two(n), "title") = x
  BY <1>2, <1>5, BriefPiece
<1>9. greedy = [author |-> Head(name), title |-> x]
  <2> DEFINE ways == Cuts(label)
             once == Chosen(ways, FALSE)
  <2>1. Piece(label, once, "title") = x /\ ways # {}
    BY <1>6, <1>7, <1>8
  <2>2. ~Contains(FileParts, "author")
    BY BriefIs
  <2>3. once = Chosen(ways, FALSE) /\ ways = Cuts(label)
    OBVIOUS
  <2> HIDE DEF ways, once
  <2>4. ReadOnce(name, ways, FALSE) = [author |-> Head(name), title |-> Piece(label, once, "title")]
    BY ONLY <1>3, <2>1, <2>2, <2>3, ZenonT(60) DEF ReadOnce
  <2> QED
    BY <2>1, <2>3, <2>4
<1> QED
  BY <1>4, <1>9 DEF Reported

(* A title as a reading ends it: without what looks like a copy's suffix.  *)
Ended(t, second) == IF ~second /\ Last(t) = Copy THEN Front(t) ELSE t

LEMMA TitleEnds ==
  ASSUME NEW t \in Seq(Char), Len(t) > 0, t[1] # Copy, NEW second
  PROVE  Ended(t, second) \in Seq(Char) /\ Len(Ended(t, second)) > 0
<1>1. Front(t) \in Seq(Char) /\ Len(Front(t)) = Len(t) - 1
  BY FrontIs
<1>2. Last(t) = Copy => Len(t) > 1
  BY DEF Last
<1> QED
  BY <1>1, <1>2 DEF Ended

LEMMA EndedJoined ==
  ASSUME NEW u \in Seq(Char), NEW t \in Seq(Char), Len(t) > 0, NEW second
  PROVE  Ended(Cat(u, t), second) = Cat(u, Ended(t, second))
  BY LastOfJoined DEF Ended

LEMMA CatHead ==
  ASSUME NEW u \in Seq(Char), Len(u) > 0, NEW w \in Seq(Char)
  PROVE  Cat(u, w) \in Seq(Char) /\ Len(Cat(u, w)) > 0 /\ Cat(u, w)[1] = u[1]
<1>1. Cat(u, w) \in Seq(Char)
  BY JoinedIs
<1>2. Len(Cat(u, w)) = Len(u) + Len(w)
  BY JoinedIs
<1>3. \A i \in 1 .. Len(u) : Cat(u, w)[i] = u[i]
  BY JoinedIs
<1>4. 1 \in 1 .. Len(u) /\ Len(w) \in Nat
  OBVIOUS
<1>5. Cat(u, w)[1] = u[1]
  BY <1>3, <1>4
<1>6. Len(Cat(u, w)) > 0
  BY <1>2, <1>4
<1> QED
  BY <1>1, <1>5, <1>6

Components(v) == [s \in DOMAIN template |-> Segment(Expand(template[s], v))]

(* The file's name as it is read.                                          *)
LEMMA FileRead ==
  ASSUME template \in Template, NEW v \in [Value -> Seq(Char)], v["author"] # <<>>, v["title"] # <<>>,
         v["title"][1] # Copy, NEW second \in BOOLEAN,
         path = Candidate(Components(v), second)
  PROVE  \E mark \in Marks : \E name :
           LET e == Ended(v["title"], second)
           IN  /\ name = SplitDuplicate(path)
               /\ FileParts = Full => Last(name) = NameOf(mark, v["author"], e) /\ (mark # <<>> => v["author"][1] = Device)
               /\ FileParts = Brief => Last(name) = Cat(Cat(mark, e), Extension)
               /\ Len(template) = 2 => Head(name) = Segment(v["author"])
<1> DEFINE a == v["author"]
           t == v["title"]
           e == Ended(t, second)
           n == Len(template)
           stem == Stem1(v)
           components == [s \in DOMAIN template |-> Segment(Expand(template[s], v))]
<1>1. /\ a \in Seq(Char) /\ t \in Seq(Char) /\ Len(a) > 0 /\ Len(t) > 0 /\ t[1] # Copy
      /\ <<"-">> \in Seq(Char) /\ Len(<<"-">>) = 1
  BY SymbolsApart DEF Value
<1>2. /\ n \in 1 .. 2 /\ DOMAIN template = 1 .. n /\ FileParts = template[n] /\ FileParts \in {Full, Brief}
      /\ n = 2 => template[1] = Sole
      /\ \A s \in 1 .. n : template[s] \in {Sole, Full, Brief}
  BY SMTT(20), TemplateIs
<1>3. e \in Seq(Char) /\ Len(e) > 0
  BY <1>1, TitleEnds
<1>4. PICK mark \in Marks :
        /\ stem \in Seq(Char) /\ Len(stem) > 0
        /\ Segment(Expand(FileParts, v)) = Cat(Cat(mark, stem), Extension)
        /\ mark # <<>> => stem[1] = Device
  BY FileIs
<1>5. /\ mark \in Seq(Char) /\ Cat(mark, stem) \in Seq(Char) /\ Len(Cat(mark, stem)) > 0
  BY <1>4, MarkedIs
<1>6. /\ FileParts = Full => stem = Cat(Cat(a, <<"-">>), t)
      /\ FileParts = Brief => stem = t
  BY DEF Stem1, Full, Brief
<1>7. Cat(a, <<"-">>) \in Seq(Char) /\ Len(Cat(a, <<"-">>)) > 0 /\ Cat(a, <<"-">>)[1] = a[1]
  BY <1>1, CatHead
<1>8. FileParts = Full => stem[1] = a[1]
  BY <1>1, <1>6, <1>7, CatHead
<1>9. Ended(Cat(mark, stem), second) = Cat(mark, Ended(stem, second))
  BY <1>4, <1>5, EndedJoined
<1>10. FileParts = Full => Cat(mark, Ended(stem, second)) = Cat(Cat(Cat(mark, a), <<"-">>), e)
  <2>1. Ended(Cat(Cat(a, <<"-">>), t), second) = Cat(Cat(a, <<"-">>), e)
    BY <1>1, <1>7, EndedJoined
  <2>2. Cat(mark, Cat(Cat(a, <<"-">>), e)) = Cat(Cat(mark, Cat(a, <<"-">>)), e)
    BY <1>3, <1>5, <1>7, CatAssociative
  <2>3. Cat(mark, Cat(a, <<"-">>)) = Cat(Cat(mark, a), <<"-">>)
    <3>1. mark \in Seq(Char) /\ a \in Seq(Char) /\ <<"-">> \in Seq(Char)
      BY <1>1, <1>5
    <3> QED
      BY ONLY <3>1, CatAssociative
  <2> QED
    BY <1>6, <2>1, <2>2, <2>3
<1>11. \A s \in 1 .. n : Segment(Expand(template[s], v)) \in Seq(Char)
  <2>1. Expand(Sole, v) \in Seq(Char)
    BY <1>1, ExpandIs
  <2>2. Segment(a) \in Seq(Char) /\ Segment(Expand(Sole, v)) = Segment(a)
    BY <1>1, SegmentIs, ExpandIs
  <2>3. Segment(Expand(FileParts, v)) \in Seq(Char)
    BY <1>4, <1>5, NameIs
  <2> TAKE s \in 1 .. n
  <2>4. template[s] = FileParts \/ template[s] = Sole
    BY <1>2
  <2> QED
    BY <2>2, <2>3, <2>4
<1>12. components \in [1 .. n -> Seq(Char)] /\ components[n] = Cat(Cat(mark, stem), Extension)
  BY <1>2, <1>4, <1>11
<1>13. n = 2 => components[1] = Segment(a)
  BY <1>2, ExpandIs
<1> DEFINE name == SplitDuplicate(Candidate(components, second))
<1>14. path = Candidate(components, second)
  BY DEF Components
<1> HIDE DEF a, t, e, n, stem, components
<1>15. /\ Last(name) = Cat(Ended(Cat(mark, stem), second), Extension)
       /\ n = 2 => Head(name) = components[1]
  <2>1. PICK k, c, z : k = n /\ c = components /\ z = Cat(mark, stem)
    OBVIOUS
  <2>2. k \in 1 .. 2 /\ c \in [1 .. k -> Seq(Char)] /\ z \in Seq(Char) /\ z # <<>> /\ c[k] = Cat(z, Extension)
    BY <1>2, <1>5, <1>12, <2>1
  <2>3. LET split == SplitDuplicate(Candidate(c, second))
            short == IF ~second /\ Last(z) = Copy THEN Front(z) ELSE z
        IN  Last(split) = Cat(short, Extension) /\ (k = 2 => Head(split) = c[1])
    BY <2>2, SplitIs
  <2>4. Last(SplitDuplicate(Candidate(c, second))) = Cat(Ended(z, second), Extension)
    BY <2>3 DEF Ended
  <2>5. k = 2 => Head(SplitDuplicate(Candidate(c, second))) = c[1]
    BY <2>3
  <2> QED
    BY <2>1, <2>4, <2>5
<1> HIDE DEF name
<1>16. FileParts = Full => Last(name) = NameOf(mark, a, e)
  BY <1>9, <1>10, <1>15 DEF NameOf
<1>17. FileParts = Brief => Last(name) = Cat(Cat(mark, e), Extension)
  BY <1>6, <1>9, <1>15 DEF e
<1>18. FileParts = Full => (mark # <<>> => a[1] = Device)
  BY <1>4, <1>8
<1>19. n = 2 => Head(name) = Segment(a)
  BY <1>13, <1>15
<1>20. name = SplitDuplicate(path)
  BY <1>14 DEF name
<1> QED
  BY <1>16, <1>17, <1>18, <1>19, <1>20 DEF a, t, e, n

(* What is read of a name, of one template or another.                     *)
LEMMA NameRead ==
  ASSUME template \in Template, NEW v \in [Value -> Seq(Char)], v["author"] # <<>>, v["title"] # <<>>,
         v["title"][1] # Copy, NEW second \in BOOLEAN,
         \A s \in DOMAIN template : Segment(Expand(template[s], v)) # <<>>,
         path = Candidate(Components(v), second)
  PROVE  \E author \in {v["author"], Cat(<<Replacement>>, v["author"]), SegmentForm(v["author"])},
            title \in {Ended(v["title"], second), Cat(<<Replacement>>, Ended(v["title"], second))} :
           MatchName \in {Refusal, Reported(author, title)}
<1> DEFINE a == v["author"]
           t == v["title"]
           e == Ended(t, second)
<1>1. a \in Seq(Char) /\ t \in Seq(Char) /\ Len(a) > 0 /\ Len(t) > 0 /\ t[1] # Copy
  BY DEF Value
<1>2. e \in Seq(Char) /\ Len(e) > 0
  BY <1>1, TitleEnds
<1>8. PICK mark \in Marks : \E name :
        /\ name = SplitDuplicate(path)
        /\ FileParts = Full => Last(name) = NameOf(mark, a, e) /\ (mark # <<>> => a[1] = Device)
        /\ FileParts = Brief => Last(name) = Cat(Cat(mark, e), Extension)
        /\ Len(template) = 2 => Head(name) = Segment(a)
  BY FileRead
<1>3. PICK name :
        /\ name = SplitDuplicate(path)
        /\ FileParts = Full => Last(name) = NameOf(mark, a, e) /\ (mark # <<>> => a[1] = Device)
        /\ FileParts = Brief => Last(name) = Cat(Cat(mark, e), Extension)
        /\ Len(template) = 2 => Head(name) = Segment(a)
  BY <1>8
<1>4. Len(template) = 2 => Segment(a) # <<>>
  <2>1. Len(template) = 2 => 1 \in DOMAIN template /\ template[1] = Sole
    BY TemplateIs
  <2>2. Expand(Sole, v) = a
    BY ExpandIs
  <2> QED
    BY <2>1, <2>2
<1>5. \A w \in Seq(Char) : Cat(mark, w) \in {w, Cat(<<Replacement>>, w)}
  BY CatEmpty DEF Marks
<1>6. CASE FileParts = Full
  <2>1. MatchName \in {Refusal, Reported(Cat(mark, a), e), Reported(SegmentForm(a), e)}
    <3> HIDE DEF a, t, e
    <3> QED
      BY <1>1, <1>2, <1>3, <1>4, <1>6, FullRead
  <2>2. Cat(mark, a) \in {a, Cat(<<Replacement>>, a)}
    BY <1>1, <1>5
  <2> HIDE DEF a, e
  <2>3. \E author \in {a, Cat(<<Replacement>>, a), SegmentForm(a)} : MatchName \in {Refusal, Reported(author, e)}
    BY <2>1, <2>2
  <2>4. e \in {e, Cat(<<Replacement>>, e)}
    OBVIOUS
  <2> QED
    BY <2>3, <2>4 DEF a, t, e
<1>7. CASE FileParts = Brief
  <2> DEFINE x == Cat(mark, e)
  <2>1. x \in Seq(Char) /\ Len(x) > 0
    BY <1>2, MarkedIs
  <2>2. x \in {e, Cat(<<Replacement>>, e)}
    BY <1>2, <1>5
  <2>3. Last(name) = Cat(x, Extension)
    BY <1>3, <1>7
  <2> HIDE DEF a, t, e, x
  <2>4. MatchName \in {Refusal, Reported(Head(name), x)}
    BY <1>3, <1>7, <2>1, <2>3, BriefRead
  <2>5. Head(name) = SegmentForm(a)
    <3>1. Len(template) = 2
      BY <1>7, TemplateIs DEF Full, Brief
    <3> QED
      BY <1>3, <1>4, <3>1 DEF SegmentForm
  <2>6. SegmentForm(a) \in {a, Cat(<<Replacement>>, a), SegmentForm(a)}
    OBVIOUS
  <2> QED
    BY <2>2, <2>4, <2>5, <2>6 DEF a, t, e
<1> QED
  BY <1>6, <1>7, TemplateIs

(* A value that was read without the mark of a replacement is the value, or*)
(* all of it but the dots at its end.                                      *)
LEMMA ValueRead ==
  ASSUME NEW w \in Seq(Symbol), NEW answer,
         answer \in {Sanitized(w), SegmentForm(Sanitized(w)), Cat(<<Replacement>>, Sanitized(w))},
         \A i \in DOMAIN answer : answer[i] # Replacement
  PROVE  answer \in {w, Trimmed(w)}
<1> DEFINE u == Sanitized(w)
<1>1. u \in Seq(Char) /\ Len(u) = Len(w)
      /\ \A i \in 1 .. Len(w) : u[i] = IF w[i] = Illegal THEN Replacement ELSE w[i]
  BY SanitizedIs
<1>2. ASSUME \A i \in 1 .. Len(u) : u[i] # Replacement PROVE u = w
  <2>1. \A i \in 1 .. Len(u) : u[i] = w[i]
    BY <1>1, <1>2
  <2> QED
    BY <1>1, <2>1, SameText
<1>3. CASE answer = u
  <2>1. \A i \in 1 .. Len(u) : u[i] # Replacement
    BY <1>1, <1>3
  <2> QED
    BY <1>2, <1>3, <2>1
<1>4. CASE answer = Cat(<<Replacement>>, u)
  <2>1. <<Replacement>> \in Seq(Char) /\ Len(<<Replacement>>) > 0 /\ <<Replacement>>[1] = Replacement
    BY SymbolsApart
  <2>2. answer \in Seq(Char) /\ Len(answer) > 0 /\ answer[1] = Replacement
    BY <1>1, <1>4, <2>1, CatHead
  <2> QED
    BY <2>2
<1>5. CASE answer = SegmentForm(u)
  <2>1. CASE Segment(u) = <<>>
    BY <1>3, <1>5, <2>1 DEF SegmentForm
  <2>2. CASE Segment(u) # <<>>
    <3>1. answer = Segment(u)
      BY <1>5, <2>2 DEF SegmentForm
    <3>2. PICK k \in 0 .. Len(u), r \in 0 .. 1 :
            /\ Segment(u) = IF r = 1 THEN <<Replacement>> \o SubSeq(u, 1, k) ELSE SubSeq(u, 1, k)
            /\ Trimmed(u) = SubSeq(u, 1, k)
            /\ Segment(u) \in Seq(Char) /\ Len(Segment(u)) = r + k
            /\ \A i \in 1 .. Len(u) : u[i] # "." => i <= k
            /\ \A i \in 1 .. k : Segment(u)[r + i] = u[i]
            /\ r = 1 => k > 0 /\ Segment(u)[1] = Replacement
      BY <1>1, SegmentIs
    <3>3. r = 0
      <4>1. r = 1 => 1 \in DOMAIN answer /\ answer[1] = Replacement
        BY <3>1, <3>2
      <4> QED
        BY <3>2, <4>1
    <3>4. answer = Trimmed(u)
      BY <3>1, <3>2, <3>3
    <3>5. ASSUME NEW i \in 1 .. Len(u) PROVE u[i] # Replacement
      <4>1. CASE i <= k
        <5>1. i \in DOMAIN answer /\ answer[i] = u[i]
          BY <3>1, <3>2, <3>3, <4>1
        <5> QED
          BY <5>1
      <4>2. CASE i > k
        BY <3>2, <4>2, SymbolsApart
      <4> QED
        BY <3>2, <4>1, <4>2
    <3>6. u = w
      BY <1>2, <3>5
    <3> QED
      BY <3>4, <3>6
  <2> QED
    BY <2>1, <2>2
<1> QED
  BY <1>3, <1>4, <1>5

(* Sanitizing, and ending a title, are one either way round.               *)
LEMMA EndedSanitized ==
  ASSUME NEW w \in Seq(Symbol), Len(w) > 0, NEW second
  PROVE  Ended(Sanitized(w), second) = Sanitized(IF ~second /\ Last(w) = Copy THEN Front(w) ELSE w)
<1> DEFINE u == Sanitized(w)
           f == Front(w)
           x == Sanitized(f)
           y == Front(u)
<1>1. u \in Seq(Char) /\ Len(u) = Len(w) /\ Len(w) \in Nat
      /\ \A i \in 1 .. Len(w) : u[i] = IF w[i] = Illegal THEN Replacement ELSE w[i]
  BY SanitizedIs
<1>2. Last(u) = Copy <=> Last(w) = Copy
  BY <1>1, SymbolsApart DEF Last
<1>3. f \in Seq(Symbol) /\ Len(f) = Len(w) - 1 /\ \A i \in 1 .. Len(w) - 1 : f[i] = w[i]
  BY FrontIs
<1>4. y \in Seq(Char) /\ Len(y) = Len(u) - 1 /\ \A i \in 1 .. Len(u) - 1 : y[i] = u[i]
  BY <1>1, FrontIs
<1>5. x \in Seq(Char) /\ Len(x) = Len(f)
      /\ \A i \in 1 .. Len(f) : x[i] = IF f[i] = Illegal THEN Replacement ELSE f[i]
  BY <1>3, SanitizedIs
<1> HIDE DEF u, f, x, y
<1>6. x = y
  <2>1. Len(x) = Len(y) /\ \A i \in 1 .. Len(x) : x[i] = y[i]
    BY SMTT(20), <1>1, <1>3, <1>4, <1>5
  <2> QED
    BY <1>4, <1>5, <2>1, SameText
<1> QED
  BY <1>2, <1>6 DEF Ended, u, f, x, y

(* A title gives way from its end.                                         *)
LEMMA CutBackIs ==
  ASSUME NEW u \in Seq(Char)
  PROVE  \E k \in 0 .. Len(u) : CutBack(u) = SubSeq(u, 1, k)
<1> DEFINE standing == {i \in DOMAIN u : u[i] \notin {"-", Replacement}}
<1>1. standing \in SUBSET (1 .. Len(u)) /\ Len(u) \in Nat
  OBVIOUS
<1>2. Max({0} \cup standing) \in 0 .. Len(u)
  BY <1>1, LastOfKind
<1> QED
  BY <1>2 DEF CutBack

LEMMA PrefixOfPrefix ==
  ASSUME NEW u \in Seq(Char), NEW j \in 0 .. Len(u), NEW k \in 0 .. j
  PROVE  SubSeq(SubSeq(u, 1, j), 1, k) = SubSeq(u, 1, k)
<1> DEFINE x == SubSeq(u, 1, j)
           y == SubSeq(x, 1, k)
           z == SubSeq(u, 1, k)
<1>1. j \in Nat /\ k \in Nat /\ k <= j /\ j <= Len(u) /\ k <= Len(u) /\ 1 <= j + 1 /\ 1 <= k + 1
      /\ \A i \in Nat : i - 1 + 1 = i /\ i + 1 - 1 = i
  OBVIOUS
<1>2. x \in Seq(Char) /\ Len(x) = j /\ \A i \in 1 .. j : x[i] = u[i]
  BY <1>1, CutIs
<1>3. z \in Seq(Char) /\ Len(z) = k /\ \A i \in 1 .. k : z[i] = u[i]
  BY <1>1, CutIs
<1> HIDE DEF x, z
<1>4. y \in Seq(Char) /\ Len(y) = k /\ \A i \in 1 .. k : y[i] = x[i]
  BY <1>1, <1>2, CutIs
<1> HIDE DEF y
<1>5. \A i \in 1 .. k : y[i] = z[i]
  BY <1>1, <1>2, <1>3, <1>4
<1>6. y = z
  BY <1>3, <1>4, <1>5, SameText
<1> QED
  BY <1>6 DEF x, y, z

LEMMA ShrunkIs ==
  ASSUME NEW u \in Seq(Char), NEW overflow \in Nat
  PROVE  \E k \in 0 .. Len(u) : Shrunk(u, overflow) = SubSeq(u, 1, k)
<1>1. CASE Len(u) <= overflow
  <2>1. Shrunk(u, overflow) = <<>> /\ SubSeq(u, 1, 0) = <<>> /\ 0 \in 0 .. Len(u)
    BY <1>1 DEF Shrunk
  <2> QED
    BY <2>1
<1>2. CASE ~(Len(u) <= overflow)
  <2> DEFINE j == Len(u) - overflow
  <2>1. j \in 0 .. Len(u) /\ Shrunk(u, overflow) = CutBack(SubSeq(u, 1, j))
    BY <1>2 DEF Shrunk
  <2> HIDE DEF j
  <2>2. SubSeq(u, 1, j) \in Seq(Char) /\ Len(SubSeq(u, 1, j)) = j
    <3>1. j \in Nat /\ 1 <= j + 1 /\ j <= Len(u) /\ j - 1 + 1 = j
      BY <2>1
    <3> QED
      BY <3>1, CutIs
  <2>3. PICK k \in 0 .. j : CutBack(SubSeq(u, 1, j)) = SubSeq(SubSeq(u, 1, j), 1, k)
    BY <2>2, CutBackIs
  <2> QED
    BY <2>1, <2>3, PrefixOfPrefix
<1> QED
  BY <1>1, <1>2

LEMMA UnitsIs ==
  ASSUME NEW u \in Seq(Char)
  PROVE  Units(u) \in Nat
<1> DEFINE wide == {i \in DOMAIN u : u[i] = Wide}
<1>1. wide \subseteq 1 .. Len(u) /\ Len(u) \in Nat
  OBVIOUS
<1>2. IsFiniteSet(1 .. Len(u))
  BY <1>1, FS_Interval
<1>3. IsFiniteSet(wide)
  BY <1>1, <1>2, FS_Subset
<1>4. Cardinality(wide) \in Nat
  BY <1>3, FS_CardinalityType
<1> HIDE DEF wide
<1>5. Len(u) + 2 * Cardinality(wide) \in Nat
  BY <1>1, <1>4
<1> QED
  BY <1>5 DEF Units, wide

LEMMA OverflowIs ==
  ASSUME NamingAssumption, template \in Template, NEW v \in [Value -> Seq(Char)]
  PROVE  Overflow(v) \in Nat
<1> DEFINE Above(s) == Units(Expand(template[s], v)) - MaxUnits
           all == {0} \cup {Above(s) : s \in DOMAIN template}
<1>1. ASSUME NEW s \in DOMAIN template PROVE Above(s) \in Int
  <2>1. template[s] \in {Sole, Full, Brief}
    BY TemplateIs
  <2>2. /\ v["author"] \in Seq(Char) /\ v["title"] \in Seq(Char)
        /\ <<"-">> \in Seq(Char) /\ <<".">> \in Seq(Char) /\ <<"mp4">> \in Seq(Char)
    BY SymbolsApart DEF Value
  <2>3. Expand(template[s], v) \in Seq(Char)
    <3> DEFINE x == v["author"]
               y == v["title"]
    <3>1. x \in Seq(Char) /\ y \in Seq(Char)
      BY <2>2
    <3> HIDE DEF x, y
    <3>2. Cat(x, <<"-">>) \in Seq(Char)
      BY <2>2, <3>1, JoinedIs
    <3>3. Cat(Cat(x, <<"-">>), y) \in Seq(Char)
      BY <3>1, <3>2, JoinedIs
    <3>4. \A w \in Seq(Char) : Cat(w, <<".">>) \in Seq(Char)
      BY <2>2, JoinedIs
    <3>5. \A w \in Seq(Char) : Cat(Cat(w, <<".">>), <<"mp4">>) \in Seq(Char)
      BY <2>2, <3>4, JoinedIs
    <3>6. Expand(Sole, v) \in Seq(Char) /\ Expand(Full, v) \in Seq(Char) /\ Expand(Brief, v) \in Seq(Char)
      BY <3>1, <3>3, <3>5, ExpandIs DEF x, y
    <3> QED
      BY <2>1, <3>6
  <2>4. Units(Expand(template[s], v)) \in Nat
    BY <2>3, UnitsIs
  <2> QED
    BY <2>4 DEF NamingAssumption
<1>2. \E x \in all : \A y \in all : x >= y
  <2> HIDE DEF Above
  <2>1. CASE DOMAIN template = {1}
    BY <1>1, <2>1
  <2>2. CASE DOMAIN template = {1, 2}
    <3>1. all = {0, Above(1), Above(2)} /\ Above(1) \in Int /\ Above(2) \in Int
      BY <1>1, <2>2
    <3> HIDE DEF all
    <3> QED
      BY <3>1
  <2>3. DOMAIN template \in {{1}, {1, 2}}
    <3>1. 1 .. 1 = {1} /\ 1 .. 2 = {1, 2}
      OBVIOUS
    <3>2. Len(template) = 1 \/ Len(template) = 2
      BY TemplateIs
    <3> QED
      BY <3>1, <3>2, TemplateIs
  <2> QED
    BY <2>1, <2>2, <2>3
<1>3. 0 \in all /\ all \subseteq Int
  BY <1>1
<1> HIDE DEF all
<1>4. Max(all) \in all /\ \A y \in all : Max(all) >= y
  BY <1>2 DEF Max
<1>5. Max(all) \in Nat
  <2>1. Max(all) \in Int
    BY <1>3, <1>4
  <2>2. Max(all) >= 0
    BY <1>3, <1>4
  <2> QED
    BY <2>1, <2>2
<1> QED
  BY <1>5 DEF Overflow, all

LEMMA FittingIs ==
  ASSUME NamingAssumption, template \in Template, NEW v \in [Value -> Seq(Char)]
  PROVE  \E k \in 0 .. Len(v["title"]) :
           /\ Fitting(v) \in [Value -> Seq(Char)]
           /\ Fitting(v)["author"] = v["author"] /\ Fitting(v)["title"] = SubSeq(v["title"], 1, k)
           /\ Len(Fitting(v)["title"]) = k
<1> DEFINE t == v["title"]
<1>1. t \in Seq(Char) /\ "title" \in Value /\ "author" \in Value /\ DOMAIN v = Value
  BY DEF Value
<1>2. PICK k \in 0 .. Len(t) : Shrunk(t, Overflow(v)) = SubSeq(t, 1, k)
  BY <1>1, OverflowIs, ShrunkIs
<1>3. \A j \in 0 .. Len(t) : SubSeq(t, 1, j) \in Seq(Char) /\ Len(SubSeq(t, 1, j)) = j
  <2> TAKE j \in 0 .. Len(t)
  <2>1. j \in Nat /\ 1 <= j + 1 /\ j <= Len(t) /\ j - 1 + 1 = j
    BY <1>1
  <2> QED
    BY <1>1, <2>1, CutIs
<1>4. CASE Overflow(v) = 0
  <2>1. Fitting(v) = v
    BY <1>4 DEF Fitting
  <2>2. SubSeq(t, 1, Len(t)) = t /\ Len(t) \in 0 .. Len(t)
    BY <1>1
  <2> QED
    BY <2>1, <2>2
<1>5. CASE Overflow(v) # 0
  <2>1. Fitting(v) = [v EXCEPT !["title"] = Shrunk(t, Overflow(v))]
    BY <1>5 DEF Fitting
  <2>2. Fitting(v) = [v EXCEPT !["title"] = SubSeq(t, 1, k)]
    BY <1>2, <2>1
  <2>3. \A w \in Seq(Char) : LET f == [v EXCEPT !["title"] = w]
                             IN  f \in [Value -> Seq(Char)] /\ f["author"] = v["author"] /\ f["title"] = w
    BY <1>1
  <2> QED
    BY ZenonT(40), <1>2, <1>3, <2>2, <2>3
<1> QED
  BY <1>4, <1>5

----------------------------------------------------------------------------
(* What a name was made of, and that it was made of it.                    *)
Values == [p \in Value |-> Sanitized(written[p])]
WrittenInv ==
  /\ written.author \in Seq(Symbol) /\ written.author # <<>> /\ written.second \in BOOLEAN
  /\ written.title \in Seq(Symbol) /\ (written.title # <<>> => written.title[1] # Copy)
  /\ \A s \in DOMAIN template : Segment(Expand(template[s], Values)) # <<>>
  /\ path = Candidate(Components(Values), written.second)

NamingInv ==
  /\ template \in Template /\ fields \in Metadata
  /\ written \in {NotYet, Refusal} \/ WrittenInv
  /\ written \in {NotYet, Refusal} => reading = NotYet
  /\ ReadsAsWritten

(* A name that is read gives what it was made of.                          *)
LEMMA MatchedAsWritten ==
  ASSUME template \in Template, WrittenInv, written.title # <<>>, MatchName # Refusal, NEW p \in Value
  PROVE  LET said == Sanitized(Told(p))
         IN  /\ MatchName.of[p] \in {said, SegmentForm(said), <<Replacement>> \o said}
             /\ p \in MatchName.lossy \/ MatchName.of[p] \in {Told(p), Trimmed(Told(p))}
<1>1. PICK v, second, wa, wt : v = Values /\ second = written.second /\ wa = written.author /\ wt = written.title
  OBVIOUS
<1>2. /\ wa \in Seq(Symbol) /\ wa # <<>> /\ wt \in Seq(Symbol) /\ wt # <<>> /\ wt[1] # Copy /\ second \in BOOLEAN
  BY <1>1 DEF WrittenInv
<1>3. v["author"] = Sanitized(wa) /\ v["title"] = Sanitized(wt) /\ v \in [Value -> Seq(Char)]
  <2>1. \A q \in Value : written[q] \in Seq(Symbol) /\ Sanitized(written[q]) \in Seq(Char)
    BY SanitizedIs DEF WrittenInv, Value
  <2> QED
    BY <1>1, <2>1 DEF Values, Value
<1>4. v["author"] # <<>> /\ v["title"] # <<>> /\ v["title"][1] # Copy
  <2>1. Len(Sanitized(wa)) = Len(wa) /\ Len(wa) > 0 /\ Len(Sanitized(wt)) = Len(wt) /\ Len(wt) > 0
    BY <1>2, SanitizedIs
  <2>2. Sanitized(wt)[1] = IF wt[1] = Illegal THEN Replacement ELSE wt[1]
    BY <1>2, <2>1, SanitizedIs
  <2> QED
    BY <1>2, <1>3, <2>1, <2>2, SymbolsApart
<1>5. PICK author \in {v["author"], Cat(<<Replacement>>, v["author"]), SegmentForm(v["author"])},
           title \in {Ended(v["title"], second), Cat(<<Replacement>>, Ended(v["title"], second))} :
        MatchName \in {Refusal, Reported(author, title)}
  <2>1. /\ path = Candidate(Components(v), second)
        /\ \A s \in DOMAIN template : Segment(Expand(template[s], v)) # <<>>
    BY <1>1 DEF WrittenInv
  <2> QED
    BY <1>2, <1>3, <1>4, <2>1, NameRead
<1>6. /\ MatchName.of = [author |-> author, title |-> title]
      /\ MatchName.lossy = Lossy([author |-> author, title |-> title])
  BY <1>5 DEF Reported
<1>7. Told("author") = wa /\ Told("title") = IF ~second /\ Last(wt) = Copy THEN Front(wt) ELSE wt
  BY <1>1, <1>2 DEF Told
<1>8. Ended(v["title"], second) = Sanitized(Told("title"))
  <2>1. Len(wt) > 0
    BY <1>2
  <2> QED
    BY <1>2, <1>3, <1>7, <2>1, EndedSanitized
<1>9. Told("title") \in Seq(Symbol) /\ Told("author") \in Seq(Symbol)
  <2>1. Front(wt) \in Seq(Symbol)
    BY <1>2, FrontIs
  <2> QED
    BY <1>2, <1>7, <2>1
<1>10. \A q \in Value :
         LET said == Sanitized(Told(q))
         IN  MatchName.of[q] \in {said, SegmentForm(said), Cat(<<Replacement>>, said)}
  BY <1>3, <1>5, <1>6, <1>7, <1>8 DEF Value
<1>11. p \in MatchName.lossy <=> \E i \in DOMAIN MatchName.of[p] : MatchName.of[p][i] = Replacement
  BY <1>6 DEF Lossy
<1>12. p \notin MatchName.lossy => MatchName.of[p] \in {Told(p), Trimmed(Told(p))}
  <2>1. PICK w, answer : w = Told(p) /\ answer = MatchName.of[p]
    OBVIOUS
  <2>2. w \in Seq(Symbol) /\ answer \in {Sanitized(w), SegmentForm(Sanitized(w)), Cat(<<Replacement>>, Sanitized(w))}
    BY <1>9, <1>10, <2>1 DEF Value
  <2>3. (\A i \in DOMAIN answer : answer[i] # Replacement) => answer \in {w, Trimmed(w)}
    BY <2>2, ValueRead
  <2> QED
    BY <1>11, <2>1, <2>3
<1> QED
  BY <1>10, <1>12 DEF Cat

LEMMA RenderStep ==
  ASSUME NamingAssumption, NamingInv, Render
  PROVE  NamingInv'
<1>1. /\ template \in Template /\ fields \in Metadata /\ written = NotYet /\ reading = NotYet
      /\ template' = template /\ fields' = fields /\ reading' = reading
  BY DEF NamingInv, Render
<1> DEFINE values == [p \in Value |-> Sanitized(Resolved[p])]
           fitting == Fitting(values)
           components == [s \in DOMAIN template |-> Segment(Expand(template[s], fitting))]
<1>2. \/ written' = Refusal
      \/ /\ \A p \in Value : values[p] # <<>>
         /\ \A s \in DOMAIN template : components[s] # <<>>
         /\ \E second \in BOOLEAN :
              /\ written' = [author |-> Resolved.author, second |-> second,
                             title |-> SubSeq(Resolved.title, 1, Len(fitting.title))]
              /\ path' = Candidate(components, second)
  BY DEF Render
<1>3. ReadsAsWritten'
  BY <1>1 DEF ReadsAsWritten
<1>4. CASE written' = Refusal
  BY <1>1, <1>3, <1>4 DEF NamingInv
<1>5. CASE written' # Refusal
  <2>1. PICK wa, wt : wa = Resolved.author /\ wt = Resolved.title
    OBVIOUS
  <2>2. /\ wa \in Seq(Symbol) /\ wt \in Seq(Symbol) /\ (wt # <<>> => wt[1] # Copy)
    <3>1. fields.author \in Seq(Symbol) /\ fields.title \in Seq(Symbol) /\ (fields.title # <<>> => fields.title[1] # Copy)
      BY <1>1 DEF Metadata, NamingAssumption
    <3>2. wa \in {<<"a">>, fields.author} /\ wt = fields.title
      BY <1>1, <2>1 DEF Resolved, Metadata
    <3>3. <<"a">> \in Seq(Symbol)
      BY DEF Symbol
    <3> QED
      BY <3>1, <3>2, <3>3
  <2>3. values["author"] = Sanitized(wa) /\ values["title"] = Sanitized(wt) /\ values \in [Value -> Seq(Char)]
    <3>1. Sanitized(wa) \in Seq(Char) /\ Sanitized(wt) \in Seq(Char)
      BY <2>2, SanitizedIs
    <3> QED
      BY <2>1, <3>1 DEF Value
  <2>4. PICK v : v = values
    OBVIOUS
  <2>5. PICK k \in 0 .. Len(v["title"]) :
          /\ Fitting(v) \in [Value -> Seq(Char)]
          /\ Fitting(v)["author"] = v["author"] /\ Fitting(v)["title"] = SubSeq(v["title"], 1, k)
          /\ Len(Fitting(v)["title"]) = k
    BY <1>1, <2>3, <2>4, FittingIs
  <2>6. PICK second \in BOOLEAN :
          /\ written' = [author |-> wa, second |-> second, title |-> SubSeq(wt, 1, k)]
          /\ path' = Candidate(components, second)
          /\ \A p \in Value : values[p] # <<>>
          /\ \A s \in DOMAIN template : components[s] # <<>>
    BY <1>2, <1>5, <2>1, <2>4, <2>5
  <2>7. Len(Sanitized(wt)) = Len(wt) /\ k \in 0 .. Len(wt)
    BY <2>2, <2>3, <2>4, <2>5, SanitizedIs
  <2>8. SubSeq(wt, 1, k) \in Seq(Symbol) /\ Len(SubSeq(wt, 1, k)) = k /\ \A i \in 1 .. k : SubSeq(wt, 1, k)[i] = wt[i]
    BY <2>2, <2>7
  <2>9. SubSeq(wt, 1, k) # <<>> => SubSeq(wt, 1, k)[1] # Copy
    BY <2>2, <2>7, <2>8
  <2>10. Sanitized(SubSeq(wt, 1, k)) = SubSeq(Sanitized(wt), 1, k)
    <3> DEFINE x == SubSeq(wt, 1, k)
               u == Sanitized(wt)
               y == SubSeq(u, 1, k)
               z == Sanitized(x)
    <3>1. u \in Seq(Char) /\ Len(u) = Len(wt) /\ \A i \in 1 .. Len(wt) : u[i] = IF wt[i] = Illegal THEN Replacement ELSE wt[i]
      BY <2>2, SanitizedIs
    <3>2. x \in Seq(Symbol) /\ Len(x) = k /\ \A i \in 1 .. k : x[i] = wt[i]
      BY <2>8
    <3> HIDE DEF x, u
    <3>3. z \in Seq(Char) /\ Len(z) = k /\ \A i \in 1 .. k : z[i] = IF x[i] = Illegal THEN Replacement ELSE x[i]
      BY <3>2, SanitizedIs
    <3>4. k \in Nat /\ 1 <= k + 1 /\ k <= Len(u) /\ k - 1 + 1 = k /\ \A i \in 1 .. k : i + 1 - 1 = i
      BY <2>7, <3>1
    <3>5. y \in Seq(Char) /\ Len(y) = k /\ \A i \in 1 .. k : y[i] = u[i]
      BY <3>1, <3>4, CutIs
    <3> HIDE DEF y, z
    <3>6. \A i \in 1 .. k : z[i] = y[i]
      BY <2>7, <3>1, <3>2, <3>3, <3>5
    <3>7. z = y
      BY <3>3, <3>5, <3>6, SameText
    <3> QED
      BY <3>7 DEF x, y, z, u
  <2>11. PICK f : f = Fitting(v)
    OBVIOUS
  <2>12. /\ f \in [Value -> Seq(Char)] /\ f["author"] = Sanitized(wa) /\ f["title"] = SubSeq(Sanitized(wt), 1, k)
         /\ fitting = f
    BY <2>3, <2>4, <2>5, <2>11
  <2>13. Values' = f
    <3>1. written'["author"] = wa /\ written'["title"] = SubSeq(wt, 1, k)
      BY <2>6
    <3>2. \A p \in Value : Sanitized(written'[p]) = f[p]
      BY <2>10, <2>12, <3>1 DEF Value
    <3>3. Values' = [p \in Value |-> Sanitized(written'[p])]
      BY DEF Values
    <3>4. f = [p \in Value |-> f[p]]
      BY <2>12
    <3> QED
      BY <3>2, <3>3, <3>4
  <2>14. components = [s \in DOMAIN template |-> Segment(Expand(template[s], f))]
    BY <2>12
  <2> HIDE DEF values, fitting, components
  <2>15. path' = Candidate(Components(f)', second)
    <3>1. Components(f)' = [s \in DOMAIN template' |-> Segment(Expand(template'[s], f))]
      BY DEF Components
    <3> QED
      BY <1>1, <2>6, <2>14, <3>1
  <2>16. \A s \in DOMAIN template' : Segment(Expand(template'[s], f)) # <<>>
    BY <1>1, <2>6, <2>14
  <2>17. Components(Values)' = Components(f)'
    BY <2>13 DEF Components
  <2>18. wa # <<>>
    <3>1. values["author"] # <<>>
      BY <2>6 DEF Value
    <3>2. Len(Sanitized(wa)) = Len(wa) /\ Sanitized(wa) # <<>> /\ Sanitized(wa) \in Seq(Char)
      BY <2>2, <2>3, <3>1, SanitizedIs
    <3> QED
      BY <2>2, <3>2
  <2>19. /\ written'.author = wa /\ written'.second = second /\ written'.title = SubSeq(wt, 1, k)
    BY <2>6
  <2>20. WrittenInv'
    BY <2>2, <2>8, <2>9, <2>13, <2>15, <2>16, <2>17, <2>18, <2>19 DEF WrittenInv
  <2>21. written' \in {NotYet, Refusal} => reading' = NotYet
    BY <1>1
  <2> QED
    BY <1>1, <1>3, <2>20, <2>21 DEF NamingInv
<1> QED
  BY <1>4, <1>5

LEMMA ReadBackStep ==
  ASSUME NamingInv, ReadBack
  PROVE  NamingInv'
<1>1. /\ template \in Template /\ fields \in Metadata /\ WrittenInv /\ written \notin {NotYet, Refusal}
      /\ template' = template /\ fields' = fields /\ written' = written /\ path' = path /\ reading' = MatchName
  BY DEF NamingInv, ReadBack
<1>2. WrittenInv'
  <2>1. Components(Values)' = Components(Values) /\ Values' = Values
    BY <1>1 DEF Components, Values
  <2> QED
    BY <1>1, <2>1 DEF WrittenInv
<1>3. \A p \in Value : Told(p)' = Told(p)
  BY <1>1 DEF Told
<1>4. ReadsAsWritten'
  <2> SUFFICES ASSUME reading' \notin {NotYet, Refusal}, written'.title # <<>>, NEW p \in Value
               PROVE  LET said == Sanitized(Told(p)')
                      IN  /\ reading'.of[p] \in {said, SegmentForm(said), <<Replacement>> \o said}
                          /\ p \in reading'.lossy \/ reading'.of[p] \in {Told(p)', Trimmed(Told(p)')}
    BY DEF ReadsAsWritten
  <2>1. MatchName # Refusal /\ written.title # <<>>
    BY <1>1
  <2>2. LET said == Sanitized(Told(p))
        IN  /\ MatchName.of[p] \in {said, SegmentForm(said), <<Replacement>> \o said}
            /\ p \in MatchName.lossy \/ MatchName.of[p] \in {Told(p), Trimmed(Told(p))}
    BY <1>1, <2>1, MatchedAsWritten
  <2> QED
    BY <1>1, <1>3, <2>2
<1> QED
  BY <1>1, <1>2, <1>4 DEF NamingInv

LEMMA NamingUnchanged ==
  ASSUME NamingInv, UNCHANGED naming
  PROVE  NamingInv'
<1>1. /\ template' = template /\ fields' = fields /\ written' = written /\ path' = path /\ reading' = reading
  BY DEF naming
<1>2. WrittenInv => WrittenInv'
  <2>1. Components(Values)' = Components(Values) /\ Values' = Values
    BY <1>1 DEF Components, Values
  <2> QED
    BY <1>1, <2>1 DEF WrittenInv
<1>3. ReadsAsWritten'
  <2>1. \A p \in Value : Told(p)' = Told(p)
    BY <1>1 DEF Told
  <2> QED
    BY <1>1, <2>1 DEF NamingInv, ReadsAsWritten
<1> QED
  BY <1>1, <1>2, <1>3 DEF NamingInv

(* naming.Match: a name that is read back gives the values it was made of, *)
(* as they were sanitized, whatever the streamer called himself and the    *)
(* broadcast; and what another value could have given is lossy.            *)
THEOREM NamesReadBack ==
  ASSUME NamingAssumption
  PROVE  NamingSpec => []ReadsAsWritten
<1>1. NamingInit => NamingInv
  BY DEF NamingInit, NamingInv, ReadsAsWritten
<1>2. NamingInv /\ [NamingNext]_naming => NamingInv'
  BY RenderStep, ReadBackStep, NamingUnchanged DEF NamingNext
<1>3. NamingInv => ReadsAsWritten
  BY DEF NamingInv
<1> QED
  BY <1>1, <1>2, <1>3, PTL DEF NamingSpec
=============================================================================
